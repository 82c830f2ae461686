------------------------------ MODULE Metering ------------------------------
(***************************************************************************)
(* One customer's subscriptions, metered and enforced.  The panel keeps a  *)
(* row per subscription (SQLite), the node keeps the tenant that serves    *)
(* it, and nothing but HTTP calls keeps the two in step:                   *)
(*                                                                         *)
(*   - request handlers (topupQuota, renewSubscription,                    *)
(*     subscriptionLifecycle, toggleCustomer), each a goroutine that loads *)
(*     a snapshot of the row, calls the node, and writes the row;          *)
(*   - the one usage collector (collectUsageOnce), which polls the node    *)
(*     for every row it listed as active and writes what it heard;         *)
(*   - the node, which meters traffic and cuts tenants off by itself.      *)
(*                                                                         *)
(* A SQL statement is one step: the store has a single connection.  A node *)
(* call is one step with an outcome: answered, or failed in one of the     *)
(* ways Faults allows.  Between two steps anything else may run.           *)
(***************************************************************************)
EXTENDS NodeAgent, Threshold, FiniteSets

CONSTANTS
  Subs,          \* subscriptions of the customer
  Requests,      \* request goroutines that may be in flight at once
  Ops,           \* kinds of request clients send
  Amounts,       \* add_bytes of a top-up
  BaseQuota,     \* the plan's quota
  Credit,        \* credit_limit_bytes
  Days,          \* the plan's duration
  FallbackDays,  \* 30: the duration of a renewal whose plan cannot be loaded
  Bursts,        \* bytes the node meters in one step
  Collecting,    \* is the usage collector running
  Faults,        \* how a node call may fail
  StoreFaults,   \* may a SQL statement fail
  MaxRequests,   \* bound: requests received
  MaxUsed,       \* bound: bytes a tenant carries in a period
  MaxTime,       \* bound: the clock
  MaxFaults,     \* bound: failed node calls
  MaxCrashes     \* bound: panel restarts

AllOps == {"topup", "renew", "suspend", "resume", "disable", "enable"}

\* refused: the node answers >= 400 or cannot be reached, and did nothing;
\* lost: it did the work, but the reply missed the client's timeout;
\* late: the call outlives the timeout in the network and is served afterwards.
AllFaults == {"refused", "lost", "late"}

ASSUME SizesAssumption ==
  /\ BaseQuota \in Nat /\ Credit \in Nat /\ Days \in Nat /\ FallbackDays \in Nat
  /\ Amounts \subseteq Nat \ {0}
  /\ Bursts \subseteq Nat

ASSUME ScopeAssumption ==
  /\ Ops \subseteq AllOps /\ Faults \subseteq AllFaults
  /\ Collecting \in BOOLEAN /\ StoreFaults \in BOOLEAN

ASSUME BoundsAssumption ==
  /\ MaxRequests \in Nat /\ MaxUsed \in Nat /\ MaxTime \in Nat
  /\ MaxFaults \in Nat /\ MaxCrashes \in Nat

ASSUME ActorsAssumption == IsFiniteSet(Requests) /\ IsFiniteSet(Subs)

VARIABLES
  row,         \* the subscriptions table: what the panel believes and bills
  customer,    \* the customer's status column
  tenant,      \* the node's tenants
  wire,        \* late calls the node has yet to serve
  now,         \* the clock
  req,         \* the request goroutines
  coll,        \* the collector goroutine
  notices,     \* usage events handed to the webhook dispatcher
  told,        \* status events handed to it: <<subscription, status>>
  lastSample,  \* newest usage_records row per tenant
  granted,     \* bytes of top-ups answered 200
  unrefunded,  \* bytes added for a top-up that never answered 200 and were not taken back
  arrived, faults, crashes

store == <<row, customer>>
node == <<tenant, wire, faults>>
events == <<notices, told>>
ledger == <<granted, unrefunded>>
limits == <<now, arrived, crashes>>
vars == <<row, customer, tenant, wire, now, req, coll, notices, told, lastSample,
          granted, unrefunded, arrived, faults, crashes>>

-----------------------------------------------------------------------------
(* The subscription row, and what each UPDATE of internal/store does to it. *)

Rows == [quota : Nat, used : Nat, period : Nat, status : Statuses, notified : Levels,
         endAt : Nat]

NewRow == [quota |-> BaseQuota, used |-> 0, period |-> 1, status |-> "active",
           notified |-> 0, endAt |-> Days]

\* MAX(0, quota_bytes + ?): adding is one statement, so is taking back.
QuotaAdded(rw, bytes) == [rw EXCEPT !.quota = @ + bytes]

\* Slip: no rollback of the increment.
QuotaNotUndone(rw, bytes) == rw

QuotaUndone(rw, bytes) == [rw EXCEPT !.quota = IF @ >= bytes THEN @ - bytes ELSE 0]

\* Slip: the larger value is kept, as if usage never started again.
UsageRaised(rw, used) == [rw EXCEPT !.used = IF used > @ THEN used ELSE @]

UsageUpdated(rw, used) == [rw EXCEPT !.used = used]

StatusUpdated(rw, status) == [rw EXCEPT !.status = status]

\* Slip: the level that was sent is not recorded.
NotNotified(rw, level) == rw

Notified(rw, level) == [rw EXCEPT !.notified = level]

\* Slip: the row keeps its old expiry.
RenewedSameEnd(rw, endAt) ==
  [rw EXCEPT !.used = 0, !.period = @ + 1, !.notified = 0, !.status = "active"]

Renewed(rw, endAt) ==
  [rw EXCEPT !.used = 0, !.period = @ + 1, !.notified = 0, !.status = "active", !.endAt = endAt]

-----------------------------------------------------------------------------
(* The goroutines. *)

RequestPCs == {"idle", "add", "read", "set", "undo", "resume", "activate", "rearm", "reset",
               "extend", "store", "switch", "record", "tell", "toggle", "mirror"}

IdleRequest == [pc |-> "idle", op |-> "none", subs |-> {}, todo |-> {}, snap |-> NewRow,
                bytes |-> 0, quota |-> 0, endAt |-> 0]

\* subs holds the subscription at hand, todo those a toggle has yet to do, snap
\* the row as it was loaded.
RequestStates ==
  [pc : RequestPCs, op : AllOps \cup {"none"}, subs : SUBSET Subs, todo : SUBSET Subs,
   snap : Rows, bytes : Nat, quota : Nat, endAt : Nat]

CollectorPCs == {"idle", "next", "usage", "sample", "notice", "mark", "status", "tell"}

NoView == [used |-> 0, period |-> 1, status |-> "active"]

IdleCollector == [pc |-> "idle", todo |-> {}, snaps |-> [s \in Subs |-> NewRow], sub |-> {},
                  view |-> NoView]

Views == [used : Nat, period : Nat, status : Statuses]

CollectorStates == [pc : CollectorPCs, todo : SUBSET Subs, snaps : [Subs -> Rows],
                    sub : SUBSET Subs, view : Views]

At(r, pc) == req[r].pc = pc

\* Request r is at subscription s.
For(r, s) == req[r].subs = {s}

Go(r, pc) == req' = [req EXCEPT ![r].pc = pc]

Answer(r) == req' = [req EXCEPT ![r] = IdleRequest]

-----------------------------------------------------------------------------
(* Calls to the node. *)

Calls == [from : Requests, op : {"quota", "resume", "suspend", "reset"}, sub : Subs,
          quota : Nat, expire : Nat]

Call(r, op, s) == [from |-> r, op |-> op, sub |-> s, quota |-> 0, expire |-> 0]

QuotaCall(r, s, quota, expire) ==
  [from |-> r, op |-> "quota", sub |-> s, quota |-> quota, expire |-> expire]

Applied(t, c) ==
  CASE c.op = "quota"   -> WithQuota(t, c.quota, c.expire)
    [] c.op = "resume"  -> Resumed(t)
    [] c.op = "suspend" -> Suspended(t)
    [] c.op = "reset"   -> PeriodReset(t)

Serve(c) == tenant' = [tenant EXCEPT ![c.sub] = Applied(@, c)]

\* The client gets a reply below 400 before its timeout.
Answered(c) == Serve(c) /\ UNCHANGED <<wire, faults>>

\* The client gets an error, whatever became of the call.
Failed(c) ==
  /\ faults < MaxFaults
  /\ faults' = faults + 1
  /\ \/ "refused" \in Faults /\ UNCHANGED <<tenant, wire>>
     \/ "lost" \in Faults /\ Serve(c) /\ UNCHANGED wire
     \/ "late" \in Faults /\ wire' = wire \cup {c} /\ UNCHANGED tenant

-----------------------------------------------------------------------------
(* One UPDATE of a row, and one that fails. *)

Write(s, rw) == row' = [row EXCEPT ![s] = rw]

WriteFails == StoreFaults /\ UNCHANGED row

\* A write whose error the handler ignores.
TryWrite(s, rw) == Write(s, rw) \/ WriteFails

-----------------------------------------------------------------------------
(* A request arrives: its handler loads what it needs and goes on. *)

Receive(r, state) ==
  /\ At(r, "idle")
  /\ arrived < MaxRequests
  /\ arrived' = arrived + 1
  /\ req' = [req EXCEPT ![r] = state]
  /\ UNCHANGED <<store, node, now, coll, events, lastSample, ledger, crashes>>

ReceiveTopup(r) ==
  /\ "topup" \in Ops
  /\ \E s \in Subs, bytes \in Amounts :
       Receive(r, [IdleRequest EXCEPT !.pc = "add", !.op = "topup", !.subs = {s},
                                      !.snap = row[s], !.bytes = bytes])

\* A plan that cannot be loaded is taken for one of FallbackDays.
RenewDays == {Days} \cup (IF StoreFaults THEN {FallbackDays} ELSE {})

ReceiveRenew(r) ==
  /\ "renew" \in Ops
  /\ \E s \in Subs, days \in RenewDays :
       Receive(r, [IdleRequest EXCEPT !.pc = "reset", !.op = "renew", !.subs = {s},
                                      !.snap = row[s], !.endAt = now + days])

ReceiveLifecycle(r) ==
  \E op \in Ops \cap {"suspend", "resume"}, s \in Subs :
    Receive(r, [IdleRequest EXCEPT !.pc = "switch", !.op = op, !.subs = {s}])

\* A list that cannot be read is taken for an empty one.
ReceiveToggle(r) ==
  \E op \in Ops \cap {"disable", "enable"}, todo \in {Subs} \cup (IF StoreFaults THEN {{}} ELSE {}) :
    Receive(r, [IdleRequest EXCEPT !.pc = "toggle", !.op = op, !.todo = todo])

-----------------------------------------------------------------------------
(* topupQuota. *)

\* Slip: read-modify-write from the snapshot.
TopupAddToSnapshot(r) ==
  /\ At(r, "add")
  /\ \E s \in Subs :
       For(r, s) /\ Write(s, [row[s] EXCEPT !.quota = req[r].snap.quota + req[r].bytes])
  /\ Go(r, "read")
  /\ UNCHANGED <<customer, node, coll, events, lastSample, ledger, limits>>

\* AddSubscriptionQuota, the UPDATE: 500 with nothing changed if it fails.
TopupAdd(r) ==
  /\ At(r, "add")
  /\ \E s \in Subs :
       /\ For(r, s)
       /\ \/ Write(s, QuotaAdded(row[s], req[r].bytes)) /\ Go(r, "read")
          \/ WriteFails /\ Answer(r)
  /\ UNCHANGED <<customer, node, coll, events, lastSample, ledger, limits>>

\* AddSubscriptionQuota, the SELECT that follows: it may already see another
\* top-up's bytes; if it fails the handler answers 500 and the bytes stay.
TopupRead(r) ==
  /\ At(r, "read")
  /\ \E s \in Subs :
       /\ For(r, s)
       /\ \/ /\ req' = [req EXCEPT ![r].pc = "set", ![r].quota = row[s].quota]
             /\ UNCHANGED unrefunded
          \/ /\ StoreFaults
             /\ Answer(r)
             /\ unrefunded' = [unrefunded EXCEPT ![s] = @ + req[r].bytes]
  /\ UNCHANGED <<store, node, coll, events, lastSample, granted, limits>>

\* The node gets the quota just read, and the expiry of the snapshot.
TopupSetQuota(r) ==
  /\ At(r, "set") /\ req[r].op = "topup"
  /\ \E s \in Subs :
       /\ For(r, s)
       /\ LET c == QuotaCall(r, s, req[r].quota, req[r].snap.endAt) IN
            \/ Answered(c) /\ Go(r, "resume")
            \/ Failed(c) /\ Go(r, "undo")
  /\ UNCHANGED <<store, coll, events, lastSample, ledger, limits>>

\* The node call failed: take the bytes back and answer 502; a rollback that
\* fails is only logged.
TopupUndo(r) ==
  /\ At(r, "undo")
  /\ \E s \in Subs :
       /\ For(r, s)
       /\ \/ Write(s, QuotaUndone(row[s], req[r].bytes)) /\ UNCHANGED unrefunded
          \/ WriteFails /\ unrefunded' = [unrefunded EXCEPT ![s] = @ + req[r].bytes]
  /\ Answer(r)
  /\ UNCHANGED <<customer, node, coll, events, lastSample, granted, limits>>

\* Resume on the node; its error is ignored.
TopupResume(r) ==
  /\ At(r, "resume")
  /\ \E s \in Subs : For(r, s) /\ (Answered(Call(r, "resume", s)) \/ Failed(Call(r, "resume", s)))
  /\ Go(r, "activate")
  /\ UNCHANGED <<store, coll, events, lastSample, ledger, limits>>

TopupActivate(r) ==
  /\ At(r, "activate")
  /\ \E s \in Subs : For(r, s) /\ TryWrite(s, StatusUpdated(row[s], "active"))
  /\ Go(r, "rearm")
  /\ UNCHANGED <<customer, node, coll, events, lastSample, ledger, limits>>

\* Re-arm the notifications for the new quota, by the snapshot's usage, and
\* answer 200.
TopupRearm(r) ==
  /\ At(r, "rearm")
  /\ \E s \in Subs :
       /\ For(r, s)
       /\ TryWrite(s, Notified(row[s], ThresholdLevel(req[r].snap.used, req[r].quota)))
       /\ granted' = [granted EXCEPT ![s] = @ + req[r].bytes]
  /\ Answer(r)
  /\ UNCHANGED <<customer, node, coll, events, lastSample, unrefunded, limits>>

-----------------------------------------------------------------------------
(* renewSubscription. *)

\* Slip: the error of ResetPeriod is ignored.
RenewResetUnchecked(r) ==
  /\ At(r, "reset")
  /\ \E s \in Subs : For(r, s) /\ (Answered(Call(r, "reset", s)) \/ Failed(Call(r, "reset", s)))
  /\ Go(r, "extend")
  /\ UNCHANGED <<store, coll, events, lastSample, ledger, limits>>

\* ResetPeriod on the node must be answered before anything else is done.
RenewReset(r) ==
  /\ At(r, "reset")
  /\ \E s \in Subs :
       /\ For(r, s)
       /\ \/ Answered(Call(r, "reset", s)) /\ Go(r, "extend")
          \/ Failed(Call(r, "reset", s)) /\ Answer(r)
  /\ UNCHANGED <<store, coll, events, lastSample, ledger, limits>>

\* SetQuota with the snapshot's quota and the new expiry; on an error the
\* handler answers 502 and the node keeps the new period.
RenewSetQuota(r) ==
  /\ At(r, "extend")
  /\ \E s \in Subs :
       /\ For(r, s)
       /\ LET c == QuotaCall(r, s, req[r].snap.quota, req[r].endAt) IN
            \/ Answered(c) /\ Go(r, "store")
            \/ Failed(c) /\ Answer(r)
  /\ UNCHANGED <<store, coll, events, lastSample, ledger, limits>>

RenewStore(r) ==
  /\ At(r, "store")
  /\ \E s \in Subs : For(r, s) /\ TryWrite(s, Renewed(row[s], req[r].endAt))
  /\ Answer(r)
  /\ UNCHANGED <<customer, node, coll, events, lastSample, ledger, limits>>

-----------------------------------------------------------------------------
(* subscriptionLifecycle: suspend and resume of one subscription. *)

\* Slip: the status column takes the name of the operation.
StatusNamedByOp(op) == op

TargetStatus(op) == IF op \in {"suspend", "disable"} THEN "suspended" ELSE "active"

NodeOp(op) == IF op \in {"suspend", "disable"} THEN "suspend" ELSE "resume"

\* Slip: the row is written whatever the node answered.
LifecycleCallUnchecked(r) ==
  /\ At(r, "switch")
  /\ \E s \in Subs :
       For(r, s) /\ LET c == Call(r, NodeOp(req[r].op), s) IN Answered(c) \/ Failed(c)
  /\ Go(r, "record")
  /\ UNCHANGED <<store, coll, events, lastSample, ledger, limits>>

LifecycleCall(r) ==
  /\ At(r, "switch")
  /\ \E s \in Subs :
       /\ For(r, s)
       /\ LET c == Call(r, NodeOp(req[r].op), s) IN
            \/ Answered(c) /\ Go(r, "record")
            \/ Failed(c) /\ Answer(r)
  /\ UNCHANGED <<store, coll, events, lastSample, ledger, limits>>

LifecycleStore(r) ==
  /\ At(r, "record")
  /\ \E s \in Subs :
       /\ For(r, s)
       /\ \/ Write(s, StatusUpdated(row[s], TargetStatus(req[r].op))) /\ Go(r, "tell")
          \/ WriteFails /\ Answer(r)
  /\ UNCHANGED <<customer, node, coll, events, lastSample, ledger, limits>>

LifecycleTell(r) ==
  /\ At(r, "tell")
  /\ \E s \in Subs : For(r, s) /\ told' = told \cup {<<s, TargetStatus(req[r].op)>>}
  /\ Answer(r)
  /\ UNCHANGED <<store, node, coll, notices, lastSample, ledger, limits>>

-----------------------------------------------------------------------------
(* toggleCustomer: each subscription in turn, node errors ignored, then the *)
(* customer's own status; no event is emitted.                             *)

\* Slip: the first error ends the loop, not the call.
ToggleCallOrStop(r) ==
  /\ At(r, "toggle")
  /\ \E s \in req[r].todo :
       \/ /\ Answered(Call(r, NodeOp(req[r].op), s))
          /\ req' = [req EXCEPT ![r].pc = "mirror", ![r].subs = {s}, ![r].todo = @ \ {s}]
       \/ /\ Failed(Call(r, NodeOp(req[r].op), s))
          /\ req' = [req EXCEPT ![r].todo = {}]
  /\ UNCHANGED <<store, coll, events, lastSample, ledger, limits>>

ToggleCall(r) ==
  /\ At(r, "toggle")
  /\ \E s \in req[r].todo :
       /\ \/ Answered(Call(r, NodeOp(req[r].op), s))
          \/ Failed(Call(r, NodeOp(req[r].op), s))
       /\ req' = [req EXCEPT ![r].pc = "mirror", ![r].subs = {s}, ![r].todo = @ \ {s}]
  /\ UNCHANGED <<store, coll, events, lastSample, ledger, limits>>

\* A subscription whose node cannot be loaded is passed over.
ToggleSkip(r) ==
  /\ At(r, "toggle")
  /\ StoreFaults
  /\ \E s \in req[r].todo : req' = [req EXCEPT ![r].todo = @ \ {s}]
  /\ UNCHANGED <<store, node, coll, events, lastSample, ledger, limits>>

ToggleStore(r) ==
  /\ At(r, "mirror")
  /\ \E s \in Subs : For(r, s) /\ TryWrite(s, StatusUpdated(row[s], TargetStatus(req[r].op)))
  /\ req' = [req EXCEPT ![r].pc = "toggle", ![r].subs = {}]
  /\ UNCHANGED <<customer, node, coll, events, lastSample, ledger, limits>>

CustomerStatus(op) == IF op = "enable" THEN "active" ELSE "disabled"

ToggleCustomer(r) ==
  /\ At(r, "toggle")
  /\ req[r].todo = {}
  /\ \/ customer' = CustomerStatus(req[r].op)
     \/ StoreFaults /\ UNCHANGED customer
  /\ Answer(r)
  /\ UNCHANGED <<row, node, coll, events, lastSample, ledger, limits>>

-----------------------------------------------------------------------------
(* The usage collector: collectUsageOnce, one round at a time. *)

CollAt(pc) == coll.pc = pc

OnSub(s) == coll.sub = {s}

CollGo(pc) == coll' = [coll EXCEPT !.pc = pc]

\* The round goes on with the rows still to do, or ends.
NextSub == coll' = IF coll.todo = {} THEN IdleCollector
                   ELSE [coll EXCEPT !.pc = "next", !.sub = {}, !.view = NoView]

\* ListActiveSubscriptions: the rows as they are now.
ActiveRows == {s \in Subs : row[s].status = "active"}

CollectList ==
  /\ Collecting
  /\ CollAt("idle")
  /\ ActiveRows # {}
  /\ coll' = [IdleCollector EXCEPT !.pc = "next", !.todo = ActiveRows, !.snaps = row]
  /\ UNCHANGED <<store, node, req, events, lastSample, ledger, limits>>

\* TenantUsage: an error skips the subscription until the next round.
CollectPoll ==
  /\ CollAt("next")
  /\ \E s \in coll.todo :
       \/ /\ coll' = [coll EXCEPT !.pc = "usage", !.todo = @ \ {s}, !.sub = {s},
                                  !.view = UsageView(tenant[s])]
          /\ UNCHANGED faults
       \/ /\ Faults # {} /\ faults < MaxFaults /\ faults' = faults + 1
          /\ coll' = IF coll.todo = {s} THEN IdleCollector ELSE [coll EXCEPT !.todo = @ \ {s}]
  /\ UNCHANGED <<store, tenant, wire, req, events, lastSample, ledger, limits>>

CollectUsage ==
  /\ CollAt("usage")
  /\ \E s \in Subs : OnSub(s) /\ TryWrite(s, UsageUpdated(row[s], coll.view.used))
  /\ CollGo("sample")
  /\ UNCHANGED <<customer, node, req, events, lastSample, ledger, limits>>

\* Slip: the sample is filed under the row's period.
SampleOfSnapshot(view, snap) == [period |-> snap.period, used |-> view.used]

Sample(view, snap) == [period |-> view.period, used |-> view.used]

CollectSample ==
  /\ CollAt("sample")
  /\ \E s \in Subs :
       /\ OnSub(s)
       /\ \/ lastSample' = [lastSample EXCEPT ![s] = Sample(coll.view, coll.snaps[s])]
          \/ StoreFaults /\ UNCHANGED lastSample
  /\ CollGo("notice")
  /\ UNCHANGED <<store, node, req, events, ledger, limits>>

\* emitUsageEvents compares with the snapshot's quota and notified_threshold.
PolledLevel(s) == ThresholdLevel(coll.view.used, coll.snaps[s].quota)

NoticeDue(s) == PolledLevel(s) > coll.snaps[s].notified

\* The event's data: the period and quota are the snapshot's.
NoticeOf(s) == [sub |-> s, period |-> coll.snaps[s].period, quota |-> coll.snaps[s].quota,
                level |-> PolledLevel(s)]

CollectNotice ==
  /\ CollAt("notice")
  /\ \E s \in Subs :
       /\ OnSub(s)
       /\ \/ NoticeDue(s) /\ notices' = notices \cup {NoticeOf(s)} /\ CollGo("mark")
          \/ ~NoticeDue(s) /\ UNCHANGED notices /\ CollGo("status")
  /\ UNCHANGED <<store, node, req, told, lastSample, ledger, limits>>

CollectMark ==
  /\ CollAt("mark")
  /\ \E s \in Subs : OnSub(s) /\ TryWrite(s, Notified(row[s], PolledLevel(s)))
  /\ CollGo("status")
  /\ UNCHANGED <<customer, node, req, events, lastSample, ledger, limits>>

\* Slip: only an expiry is taken over.
NodeExpired(s) == coll.view.status = "expired"

\* Did the node enforce something since the snapshot?  The node agent always names
\* a status, so the guard against an empty one has nothing to do.
NodeDecided(s) == coll.view.status # coll.snaps[s].status

CollectStatus ==
  /\ CollAt("status")
  /\ \E s \in Subs :
       /\ OnSub(s)
       /\ \/ /\ NodeDecided(s)
             /\ TryWrite(s, StatusUpdated(row[s], coll.view.status))
             /\ CollGo("tell")
          \/ ~NodeDecided(s) /\ NextSub /\ UNCHANGED row
  /\ UNCHANGED <<customer, node, req, events, lastSample, ledger, limits>>

CollectTell ==
  /\ CollAt("tell")
  /\ \E s \in Subs : OnSub(s) /\ told' = told \cup {<<s, coll.view.status>>}
  /\ NextSub
  /\ UNCHANGED <<store, node, req, notices, lastSample, ledger, limits>>

-----------------------------------------------------------------------------
(* The node, the network and the clock. *)

Traffic(s) ==
  /\ Serves(tenant[s])
  /\ \E bytes \in Bursts :
       /\ tenant[s].used + bytes <= MaxUsed
       /\ tenant' = [tenant EXCEPT ![s] = Metered(@, bytes)]
  /\ UNCHANGED <<store, wire, faults, req, coll, events, lastSample, ledger, limits>>

Enforce(s) ==
  /\ Serves(tenant[s])
  /\ \/ /\ Exhausted(tenant[s], Credit)
        /\ tenant' = [tenant EXCEPT ![s] = Suspended(@)]
     \/ /\ Elapsed(tenant[s], now)
        /\ tenant' = [tenant EXCEPT ![s] = Expired(@)]
  /\ UNCHANGED <<store, wire, faults, req, coll, events, lastSample, ledger, limits>>

ServeLate ==
  /\ \E c \in wire : Serve(c) /\ wire' = wire \ {c}
  /\ UNCHANGED <<store, faults, req, coll, events, lastSample, ledger, limits>>

Tick ==
  /\ now < MaxTime
  /\ now' = now + 1
  /\ UNCHANGED <<store, node, req, coll, events, lastSample, ledger, arrived, crashes>>

-----------------------------------------------------------------------------
(* The panel process dies and is started again: its goroutines are gone, the *)
(* database and the nodes are not.                                           *)

\* Requests whose top-up is in the row but not settled.
AddedPCs == {"read", "set", "undo", "resume", "activate", "rearm"}

Adding(r, s) == req[r].op = "topup" /\ req[r].pc \in AddedPCs /\ For(r, s)

\* One pair per byte added and not settled.
UnsettledBytes(s) == UNION {{r} \X (1 .. req[r].bytes) : r \in {q \in Requests : Adding(q, s)}}

Unsettled(s) == Cardinality(UnsettledBytes(s))

Crash ==
  /\ crashes < MaxCrashes
  /\ crashes' = crashes + 1
  /\ req' = [r \in Requests |-> IdleRequest]
  /\ coll' = IdleCollector
  /\ unrefunded' = [s \in Subs |-> unrefunded[s] + Unsettled(s)]
  /\ UNCHANGED <<store, node, now, events, lastSample, granted, arrived>>

-----------------------------------------------------------------------------
Init ==
  /\ row = [s \in Subs |-> NewRow]
  /\ customer = "active"
  /\ tenant = [s \in Subs |-> NewTenant(BaseQuota, Days)]
  /\ wire = {}
  /\ now = 0
  /\ req = [r \in Requests |-> IdleRequest]
  /\ coll = IdleCollector
  /\ notices = {} /\ told = {}
  /\ lastSample = [s \in Subs |-> [period |-> 1, used |-> 0]]
  /\ granted = [s \in Subs |-> 0] /\ unrefunded = [s \in Subs |-> 0]
  /\ arrived = 0 /\ faults = 0 /\ crashes = 0

Topup(r) == \/ TopupAdd(r) \/ TopupRead(r) \/ TopupSetQuota(r) \/ TopupUndo(r)
            \/ TopupResume(r) \/ TopupActivate(r) \/ TopupRearm(r)

Renew(r) == RenewReset(r) \/ RenewSetQuota(r) \/ RenewStore(r)

Lifecycle(r) == LifecycleCall(r) \/ LifecycleStore(r) \/ LifecycleTell(r)

Toggle(r) == ToggleCall(r) \/ ToggleSkip(r) \/ ToggleStore(r) \/ ToggleCustomer(r)

Collect == \/ CollectList \/ CollectPoll \/ CollectUsage \/ CollectSample
           \/ CollectNotice \/ CollectMark \/ CollectStatus \/ CollectTell

Arrive(r) == ReceiveTopup(r) \/ ReceiveRenew(r) \/ ReceiveLifecycle(r) \/ ReceiveToggle(r)

Handle(r) == Topup(r) \/ Renew(r) \/ Lifecycle(r) \/ Toggle(r)

Next ==
  \/ \E r \in Requests : Arrive(r) \/ Handle(r)
  \/ Collect
  \/ \E s \in Subs : Traffic(s) \/ Enforce(s)
  \/ ServeLate \/ Tick \/ Crash

Spec == Init /\ [][Next]_vars

\* Goroutines are scheduled: a handler that can take a step takes one, and the
\* ticker starts the next round.  Clients, traffic, the clock and the network
\* promise nothing.
Fairness == (\A r \in Requests : WF_vars(Handle(r))) /\ WF_vars(Collect)

FairSpec == Spec /\ Fairness

\* At most one handler has subscription s at hand; those at other subscriptions
\* may be as many as there are, and overlap as they like.
OneAt(s) == \A r, q \in Requests : For(r, s) /\ For(q, s) => r = q

OneEach == \A s \in Subs : OneAt(s)

\* Clients that wait for an answer before they touch a subscription again.
ApartSpec == Init /\ [][Next /\ OneEach']_vars

-----------------------------------------------------------------------------
(* Properties. *)

TypeOK ==
  /\ row \in [Subs -> Rows]
  /\ customer \in {"active", "disabled"}
  /\ tenant \in [Subs -> Tenants]
  /\ wire \subseteq Calls
  /\ now \in Nat
  /\ req \in [Requests -> RequestStates]
  /\ coll \in CollectorStates
  /\ notices \subseteq [sub : Subs, period : Nat, quota : Nat, level : Levels]
  /\ told \subseteq Subs \X Statuses
  /\ lastSample \in [Subs -> [period : Nat, used : Nat]]
  /\ granted \in [Subs -> Nat] /\ unrefunded \in [Subs -> Nat]
  /\ arrived \in Nat /\ faults \in Nat /\ crashes \in Nat

\* Renewals of s the node has started and the row has not.
Renewing(s) == {r \in Requests : req[r].op = "renew" /\ req[r].pc \in {"extend", "store"} /\ For(r, s)}

\* The panel never bills a period the node has not started: every renewal the
\* row counts, and every one still to be counted, is a reset the node has
\* served, whatever calls fail and wherever the panel dies.
PeriodBacked == \A s \in Subs : row[s].period + Cardinality(Renewing(s)) <= tenant[s].period

\* The quota column is the plan's, plus the top-ups answered 200, plus those in
\* progress or abandoned half way: however top-ups, their undos and renewals
\* interleave, no purchase is lost and none is undone twice.
QuotaConserved ==
  \A s \in Subs : row[s].quota = BaseQuota + granted[s] + unrefunded[s] + Unsettled(s)

\* No handler is at work and no call is on its way.
Settled == wire = {} /\ \A r \in Requests : At(r, "idle")

\* Once the handlers are done the node grants the quota the panel shows and
\* sells: topupQuota undoes its increment "so the panel does not claim quota the
\* node never received".
QuotaDelivered == Settled => \A s \in Subs : tenant[s].quota = row[s].quota

\* And it enforces the expiry the panel shows: a renewal is not taken back.
ExpiryDelivered == Settled => \A s \in Subs : tenant[s].expire = row[s].endAt

\* Handler r goes on to switch the row of s on.
SwitchesOn(r, s) ==
  /\ For(r, s)
  /\ \/ req[r].pc \in {"activate", "extend", "store"}
     \/ req[r].pc \in {"record", "mirror"} /\ TargetStatus(req[r].op) = "active"

SwitchingOn(s) == \E r \in Requests : SwitchesOn(r, s)

\* The node serves s, the panel has it switched off, polls it no more, and no
\* handler is about to change that: traffic nobody bills.
Unmetered(s) == Serves(tenant[s]) /\ row[s].status # "active" /\ ~SwitchingOn(s)

\* The collector writes the status it polled over one that a handler stored since.
StaleStatus(s) == CollAt("status") /\ OnSub(s) /\ row'[s].status = coll.view.status

\* A renewal that reactivated the tenant gives up at its second call.
HalfRenewal(s) == \E r \in Requests : At(r, "extend") /\ For(r, s) /\ At(r, "idle")'

\* "disable" writes the status that the node did not take on.
SparedByNode(s) ==
  \E r \in Requests : At(r, "mirror") /\ For(r, s) /\ req[r].op = "disable" /\ At(r, "toggle")'

\* The panel dies between a tenant switched on and its row.
DiesHalfWay(s) == SwitchingOn(s) /\ crashes' # crashes

\* When no reply is lost and nobody overlaps at a subscription, there are four
\* ways for a node to be left serving what the panel has switched off: a stale
\* poll written back, a renewal refused half way, a panel that dies half way, and
\* a node that refused to suspend a disabled customer's tenant.  Nothing else the
\* handlers, the collector and the node's own cut-offs do to each other comes to
\* that.
LeaksAreKnown ==
  [][\A s \in Subs : Unmetered(s)' /\ ~Unmetered(s) =>
       StaleStatus(s) \/ HalfRenewal(s) \/ DiesHalfWay(s) \/ SparedByNode(s)]_vars

\* One request is all there was, or clients send none that switches on, as a
\* top-up or a "resume" does.
NothingSwitchedOn == arrived <= 1 \/ Ops \subseteq {"suspend", "disable"}

\* toggleCustomer "propagates the change to every subscription's tenant on its
\* node" and ignores the nodes' errors: once a customer is disabled, each failed
\* call has left at most one of their subscriptions served.
DisabledIsCutOff ==
  NothingSwitchedOn /\ Settled /\ customer = "disabled" =>
    Cardinality({s \in Subs : Serves(tenant[s])}) <= faults

\* Requests are finitely many, so in the end every row that is polled shows the
\* bytes its node metered: renewals, stale writes and failed polls are made up.
EventuallyBilled == \A s \in Subs : <>[](row[s].status = "active" => row[s].used = tenant[s].used)

\* And a row shown as active is one its node serves: what the node enforced
\* is reflected back.
EventuallyReflected == \A s \in Subs : <>[](row[s].status = "active" => Serves(tenant[s]))
=============================================================================
