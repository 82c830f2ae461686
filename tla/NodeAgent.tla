----------------------------- MODULE NodeAgent -----------------------------
(***************************************************************************)
(* The node agent's tenant, as far as the panel can see it.  The agent is  *)
(* another program: these operators say what its admin API does to ONE     *)
(* tenant, read off the requests nodeclient/client.go sends and the        *)
(* comments and replies the panel's handlers rely on.                      *)
(*                                                                         *)
(* Enforcement is the node's own: it cuts a tenant off when the metered    *)
(* bytes reach quota plus credit, or when the clock reaches the expiry,    *)
(* and the panel only learns of it by polling the usage endpoint.          *)
(***************************************************************************)
EXTENDS Naturals

Statuses == {"active", "suspended", "expired"}

Tenants == [quota : Nat, used : Nat, period : Nat, status : Statuses, expire : Nat]

\* What POST /admin/tenants creates.
NewTenant(quota, expire) ==
  [quota |-> quota, used |-> 0, period |-> 1, status |-> "active", expire |-> expire]

\* PATCH /admin/tenants/{id}/quota: limits only.  topupQuota follows it with an
\* explicit Resume, so the call is taken to leave the status alone.
WithQuota(t, quota, expire) == [t EXCEPT !.quota = quota, !.expire = expire]

Suspended(t) == [t EXCEPT !.status = "suspended"]

Resumed(t) == [t EXCEPT !.status = "active"]

\* "ResetPeriod starts a new period on the node (usage zeroed, reactivated)."
PeriodReset(t) == [t EXCEPT !.used = 0, !.period = @ + 1, !.status = "active"]

\* The body of GET /admin/tenants/{id}/usage.
UsageView(t) == [used |-> t.used, period |-> t.period, status |-> t.status]

Serves(t) == t.status = "active"

Metered(t, bytes) == [t EXCEPT !.used = @ + bytes]

Exhausted(t, credit) == t.used >= t.quota + credit

Elapsed(t, now) == now >= t.expire

Expired(t) == [t EXCEPT !.status = "expired"]
=============================================================================
