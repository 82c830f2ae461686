----------------------------- MODULE TenantLife -----------------------------
(***************************************************************************)
(* What the panel promises about the tenants it creates on nodes, without  *)
(* saying how: a tenant is live on its node before a subscription is sold  *)
(* on it, and a subscription is forgotten only when its tenant is gone.    *)
(*                                                                         *)
(*   absent -> live -> sold -> retired -> absent,  or  live -> absent      *)
(*                                                                         *)
(* The step that must never happen is sold -> live: a tenant that serves   *)
(* traffic while "nothing would ever point at it again".                   *)
(***************************************************************************)
CONSTANT Ids

VARIABLE phase

Phases == {"absent", "live", "sold", "retired"}

Init == phase = [i \in Ids |-> "absent"]

Move(i, from, to) == phase[i] = from /\ phase' = [phase EXCEPT ![i] = to]

\* The node creates the tenant.
Provision(i) == Move(i, "absent", "live")

\* The panel records the subscription.
Sell(i) == Move(i, "live", "sold")

\* The sale failed, or the network lost track of it: the node drops the tenant.
Withdraw(i) == Move(i, "live", "absent")

\* The node drops the tenant of a subscription that is being deleted.
Retire(i) == Move(i, "sold", "retired")

\* The panel forgets subscriptions, one or a whole customer's.
Forget(S) ==
  /\ S # {}
  /\ \A i \in S : phase[i] = "retired"
  /\ phase' = [i \in Ids |-> IF i \in S THEN "absent" ELSE phase[i]]

Next ==
  \/ \E i \in Ids : Provision(i) \/ Sell(i) \/ Withdraw(i) \/ Retire(i)
  \/ \E S \in SUBSET Ids : Forget(S)

Spec == Init /\ [][Next]_phase
=============================================================================
