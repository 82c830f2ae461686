--------------------------- MODULE MeteringProofs ---------------------------
(***************************************************************************)
(* What is proved of Metering, for any number of subscriptions, requests,  *)
(* failures and restarts, and any quota, amount and duration: types, the   *)
(* periods billed and the ledger of top-ups, however requests overlap and  *)
(* whatever fails; that the node is given what was sold, and serves nobody *)
(* who is not metered, when no two requests are at one subscription at     *)
(* once and a node call either does its work or refuses it; and that a     *)
(* disabled customer is served where a node call failed, and nowhere else. *)
(***************************************************************************)
EXTENDS Metering, TLAPS, FiniteSetTheorems

-----------------------------------------------------------------------------
(* The operators the actions are made of keep their types. *)

\* What an UPDATE of internal/store makes of a row is a row.
LEMMA RowTypes ==
  ASSUME NEW rw \in Rows
  PROVE  /\ \A n \in Nat : QuotaAdded(rw, n) \in Rows
         /\ \A n \in Nat : QuotaUndone(rw, n) \in Rows
         /\ \A n \in Nat : UsageUpdated(rw, n) \in Rows
         /\ \A status \in Statuses : StatusUpdated(rw, status) \in Rows
         /\ \A level \in Levels : Notified(rw, level) \in Rows
         /\ \A n \in Nat : Renewed(rw, n) \in Rows
<1>1. \A n \in Nat : QuotaAdded(rw, n) \in Rows
  BY DEF Rows, QuotaAdded
<1>2. ASSUME NEW n \in Nat PROVE QuotaUndone(rw, n) \in Rows
  <2>1. (IF rw.quota >= n THEN rw.quota - n ELSE 0) \in Nat
    BY DEF Rows
  <2> QED
    BY <2>1 DEF Rows, QuotaUndone
<1>3. \A n \in Nat : UsageUpdated(rw, n) \in Rows
  BY DEF Rows, UsageUpdated
<1>4. \A status \in Statuses : StatusUpdated(rw, status) \in Rows
  BY DEF Rows, StatusUpdated
<1>5. \A level \in Levels : Notified(rw, level) \in Rows
  BY DEF Rows, Notified
<1>6. ASSUME NEW n \in Nat PROVE Renewed(rw, n) \in Rows
  <2>1. 0 \in Levels /\ "active" \in Statuses /\ rw.period + 1 \in Nat
    BY DEF Rows, Levels, Statuses
  <2> QED
    BY <2>1 DEF Rows, Renewed
<1> QED
  BY <1>1, <1>2, <1>3, <1>4, <1>5, <1>6

\* What the node makes of a tenant is a tenant, whatever call it serves.
LEMMA TenantTypes ==
  ASSUME NEW t \in Tenants, NEW c \in Calls, NEW n \in Nat
  PROVE  /\ Applied(t, c) \in Tenants
         /\ Metered(t, n) \in Tenants
         /\ Suspended(t) \in Tenants
         /\ Expired(t) \in Tenants
         /\ UsageView(t) \in Views
<1>1. WithQuota(t, c.quota, c.expire) \in Tenants
  BY DEF Tenants, Calls, WithQuota
<1>2. Suspended(t) \in Tenants /\ Resumed(t) \in Tenants /\ Expired(t) \in Tenants
  BY DEF Tenants, Suspended, Resumed, Expired, Statuses
<1>3. PeriodReset(t) \in Tenants
  <2>1. t.period + 1 \in Nat /\ "active" \in Statuses
    BY DEF Tenants, Statuses
  <2> QED
    BY <2>1 DEF Tenants, PeriodReset
<1>4. Applied(t, c) \in Tenants
  BY <1>1, <1>2, <1>3 DEF Calls, Applied
<1>5. Metered(t, n) \in Tenants
  BY DEF Tenants, Metered
<1>6. UsageView(t) \in Views
  BY DEF Tenants, UsageView, Views
<1> QED
  BY <1>2, <1>4, <1>5, <1>6

\* Calls the handlers make are calls.
LEMMA CallTypes ==
  ASSUME NEW r \in Requests, NEW s \in Subs
  PROVE  /\ \A op \in {"resume", "suspend", "reset"} : Call(r, op, s) \in Calls
         /\ \A quota \in Nat, expire \in Nat : QuotaCall(r, s, quota, expire) \in Calls
  BY DEF Calls, Call, QuotaCall

\* Every usage ratio has a level.
LEMMA LevelType == ASSUME NEW used, NEW quota PROVE ThresholdLevel(used, quota) \in Levels
  BY DEF ThresholdLevel, LevelOf, Levels

\* A handler that goes on or answers is still a handler.
LEMMA RequestTypes ==
  ASSUME req \in [Requests -> RequestStates], NEW r \in Requests
  PROVE  /\ IdleRequest \in RequestStates
         /\ Answer(r) => req' \in [Requests -> RequestStates]
         /\ \A pc \in RequestPCs : Go(r, pc) => req' \in [Requests -> RequestStates]
<1>1. NewRow \in Rows
  BY SizesAssumption DEF NewRow, Rows, Statuses, Levels
<1>2. IdleRequest \in RequestStates
  BY <1>1 DEF IdleRequest, RequestStates, RequestPCs
<1>3. Answer(r) => req' \in [Requests -> RequestStates]
  BY <1>2 DEF Answer
<1>4. \A pc \in RequestPCs : Go(r, pc) => req' \in [Requests -> RequestStates]
  BY DEF Go, RequestStates
<1> QED
  BY <1>2, <1>3, <1>4

\* A call leaves the node's state well typed, answered or failed.
LEMMA ServedTypes ==
  ASSUME tenant \in [Subs -> Tenants], wire \subseteq Calls, faults \in Nat,
         NEW c \in Calls, Answered(c) \/ Failed(c)
  PROVE  tenant' \in [Subs -> Tenants] /\ wire' \subseteq Calls /\ faults' \in Nat
<1>1. c.sub \in Subs /\ Applied(tenant[c.sub], c) \in Tenants
  BY TenantTypes DEF Calls
<1>2. Serve(c) => tenant' \in [Subs -> Tenants]
  BY <1>1 DEF Serve
<1> QED
  BY <1>2 DEF Answered, Failed

\* So does a write to the subscriptions table, done or failed.
LEMMA WrittenTypes ==
  ASSUME row \in [Subs -> Rows], NEW s \in Subs, NEW rw \in Rows, TryWrite(s, rw)
  PROVE  row' \in [Subs -> Rows]
  BY DEF TryWrite, Write, WriteFails

LEMMA IdleCollectorType == IdleCollector \in CollectorStates /\ NoView \in Views
  BY SizesAssumption
  DEF SizesAssumption, IdleCollector, CollectorStates, CollectorPCs, NoView, Views, Statuses,
      NewRow, Rows, Levels

\* The collector's next position is one of its positions.
LEMMA CollectorTypes ==
  ASSUME coll \in CollectorStates
  PROVE  /\ \A pc \in CollectorPCs : CollGo(pc) => coll' \in CollectorStates
         /\ NextSub => coll' \in CollectorStates
<1>1. \A pc \in CollectorPCs : CollGo(pc) => coll' \in CollectorStates
  BY DEF CollGo, CollectorStates
<1>2. [coll EXCEPT !.pc = "next", !.sub = {}, !.view = NoView] \in CollectorStates
  BY IdleCollectorType DEF CollectorStates, CollectorPCs
<1> QED
  BY <1>1, <1>2, IdleCollectorType DEF NextSub

-----------------------------------------------------------------------------
(* The bytes of top-ups in progress can be counted. *)

\* The pairs that stand for the bytes of one request.
LEMMA PairCount ==
  ASSUME NEW r, NEW n \in Nat
  PROVE  IsFiniteSet({r} \X (1 .. n)) /\ Cardinality({r} \X (1 .. n)) = n
<1> DEFINE R == {r}
           B == 1 .. n
<1>1. IsFiniteSet(R) /\ Cardinality(R) = 1
  BY FS_Singleton
<1>2. IsFiniteSet(B) /\ Cardinality(B) = n
  <2>1. 1 \in Int /\ n \in Int
    OBVIOUS
  <2>2. IsFiniteSet(1 .. n) /\ Cardinality(1 .. n) = IF 1 > n THEN 0 ELSE n - 1 + 1
    BY <2>1, FS_Interval
  <2>3. Cardinality(1 .. n) = n
    BY <2>2
  <2> QED
    BY <2>2, <2>3
<1> HIDE DEF R, B
<1>3. IsFiniteSet(R \X B) /\ Cardinality(R \X B) = Cardinality(R) * Cardinality(B)
  BY <1>1, <1>2, FS_Product
<1>4. IsFiniteSet(R \X B) /\ Cardinality(R \X B) = n
  BY <1>1, <1>2, <1>3
<1> QED
  BY <1>4 DEF R, B

LEMMA BytesCount ==
  ASSUME NEW A \in SUBSET Requests, NEW bytes \in [A -> Nat]
  PROVE  IsFiniteSet(UNION {{q} \X (1 .. bytes[q]) : q \in A})
<1> DEFINE Pairs(q) == {q} \X (1 .. bytes[q])
           f == [q \in A |-> Pairs(q)]
           T == {Pairs(q) : q \in A}
<1>1. IsFiniteSet(A)
  BY FS_Subset, ActorsAssumption DEF ActorsAssumption
<1>2. f \in Surjection(A, T)
  BY DEF Surjection
<1>3. IsFiniteSet(T)
  BY <1>1, <1>2, FS_Surjection
<1>4. \A P \in T : IsFiniteSet(P)
  <2>1. ASSUME NEW q \in A PROVE IsFiniteSet({q} \X (1 .. bytes[q]))
    <3>1. bytes[q] \in Nat
      OBVIOUS
    <3> QED BY <3>1, PairCount
  <2> QED BY <2>1
<1> QED
  BY <1>3, <1>4, FS_UNION

LEMMA UnsettledCount ==
  ASSUME req \in [Requests -> RequestStates], NEW s
  PROVE  IsFiniteSet(UnsettledBytes(s)) /\ Unsettled(s) \in Nat
<1> DEFINE A == {q \in Requests : Adding(q, s)}
           bytes == [q \in A |-> req[q].bytes]
<1>1. A \in SUBSET Requests /\ bytes \in [A -> Nat]
  BY DEF RequestStates
<1>2. UnsettledBytes(s) = UNION {{q} \X (1 .. bytes[q]) : q \in A}
  BY DEF UnsettledBytes
<1> HIDE DEF A, bytes
<1>3. IsFiniteSet(UnsettledBytes(s))
  BY <1>1, <1>2, BytesCount
<1> QED
  BY <1>3, FS_CardinalityType DEF Unsettled

-----------------------------------------------------------------------------
(* Type correctness. *)

LEMMA InitTypes == Init => TypeOK
<1> SUFFICES ASSUME Init PROVE TypeOK
  OBVIOUS
<1>1. NewRow \in Rows /\ IdleRequest \in RequestStates
  BY SizesAssumption
  DEF SizesAssumption, NewRow, Rows, Statuses, Levels, IdleRequest, RequestStates, RequestPCs
<1>2. \A s \in Subs : NewTenant(BaseQuota, Days) \in Tenants
  BY SizesAssumption DEF SizesAssumption, NewTenant, Tenants, Statuses
<1>3. IdleCollector \in CollectorStates
  BY <1>1 DEF IdleCollector, CollectorStates, CollectorPCs, NoView, Views, Statuses
<1> QED
  BY <1>1, <1>2, <1>3, SizesAssumption DEF Init, TypeOK

\* A step of a handler that calls the node.
LEMMA CallStep ==
  ASSUME TypeOK, NEW c \in Calls, Answered(c) \/ Failed(c),
         req' \in [Requests -> RequestStates],
         UNCHANGED <<store, coll, events, lastSample, ledger, limits>>
  PROVE  TypeOK'
<1>1. tenant' \in [Subs -> Tenants] /\ wire' \subseteq Calls /\ faults' \in Nat
  BY ServedTypes DEF TypeOK
<1> QED
  BY <1>1 DEF TypeOK, store, events, ledger, limits

\* A step of a handler, or of the collector, that writes a row.
LEMMA WriteStep ==
  ASSUME TypeOK, NEW s \in Subs, NEW rw \in Rows, TryWrite(s, rw),
         req' \in [Requests -> RequestStates], coll' \in CollectorStates,
         granted' \in [Subs -> Nat], unrefunded' \in [Subs -> Nat],
         UNCHANGED <<customer, node, events, lastSample, limits>>
  PROVE  TypeOK'
<1>1. row' \in [Subs -> Rows]
  BY WrittenTypes DEF TypeOK
<1> QED
  BY <1>1 DEF TypeOK, node, events, limits

LEMMA NextTypes == TypeOK /\ [Next]_vars => TypeOK'
<1> SUFFICES ASSUME TypeOK, [Next]_vars PROVE TypeOK'
  OBVIOUS
<1>1. ASSUME NEW r \in Requests, NEW state \in RequestStates, Receive(r, state) PROVE TypeOK'
  BY <1>1 DEF TypeOK, Receive, store, node, events, ledger
<1>2. ASSUME NEW r \in Requests, ReceiveTopup(r) PROVE TypeOK'
  <2>1. PICK s \in Subs, bytes \in Amounts :
          Receive(r, [IdleRequest EXCEPT !.pc = "add", !.op = "topup", !.subs = {s},
                                         !.snap = row[s], !.bytes = bytes])
    BY <1>2 DEF ReceiveTopup
  <2>2. [IdleRequest EXCEPT !.pc = "add", !.op = "topup", !.subs = {s},
                                         !.snap = row[s], !.bytes = bytes]
          \in RequestStates
    BY RequestTypes, SizesAssumption DEF TypeOK, RequestStates, RequestPCs, AllOps
  <2> QED
    BY <1>1, <2>1, <2>2
<1>3. ASSUME NEW r \in Requests, ReceiveRenew(r) PROVE TypeOK'
  <2>1. PICK s \in Subs, days \in RenewDays :
          Receive(r, [IdleRequest EXCEPT !.pc = "reset", !.op = "renew", !.subs = {s},
                                         !.snap = row[s], !.endAt = now + days])
    BY <1>3 DEF ReceiveRenew
  <2>2. now + days \in Nat
    BY SizesAssumption DEF TypeOK, RenewDays
  <2>3. [IdleRequest EXCEPT !.pc = "reset", !.op = "renew", !.subs = {s},
                                         !.snap = row[s], !.endAt = now + days]
          \in RequestStates
    BY <2>2, RequestTypes DEF TypeOK, RequestStates, RequestPCs, AllOps
  <2> QED
    BY <1>1, <2>1, <2>3
<1>4. ASSUME NEW r \in Requests, ReceiveLifecycle(r) PROVE TypeOK'
  <2>1. PICK op \in Ops \cap {"suspend", "resume"}, s \in Subs :
          Receive(r, [IdleRequest EXCEPT !.pc = "switch", !.op = op, !.subs = {s}])
    BY <1>4 DEF ReceiveLifecycle
  <2>2. [IdleRequest EXCEPT !.pc = "switch", !.op = op, !.subs = {s}]
          \in RequestStates
    BY RequestTypes DEF TypeOK, RequestStates, RequestPCs, AllOps
  <2> QED
    BY <1>1, <2>1, <2>2
<1>5. ASSUME NEW r \in Requests, ReceiveToggle(r) PROVE TypeOK'
  <2>1. PICK op \in Ops \cap {"disable", "enable"}, todo \in SUBSET Subs :
          Receive(r, [IdleRequest EXCEPT !.pc = "toggle", !.op = op, !.todo = todo])
    BY <1>5 DEF ReceiveToggle
  <2>2. [IdleRequest EXCEPT !.pc = "toggle", !.op = op, !.todo = todo]
          \in RequestStates
    BY RequestTypes DEF TypeOK, RequestStates, RequestPCs, AllOps
  <2> QED
    BY <1>1, <2>1, <2>2
<1>6. ASSUME NEW r \in Requests, TopupAdd(r) PROVE TypeOK'
  <2>1. PICK s \in Subs : TryWrite(s, QuotaAdded(row[s], req[r].bytes))
    BY <1>6 DEF TopupAdd, TryWrite
  <2>2. QuotaAdded(row[s], req[r].bytes) \in Rows
    BY RowTypes DEF TypeOK, RequestStates
  <2>3. req' \in [Requests -> RequestStates]
    BY <1>6, RequestTypes DEF TypeOK, TopupAdd, RequestPCs
  <2> QED
    BY <1>6, <2>1, <2>2, <2>3, WriteStep DEF TypeOK, TopupAdd, limits, ledger
<1>7. ASSUME NEW r \in Requests, TopupRead(r) PROVE TypeOK'
  <2>1. \A s \in Subs : row[s].quota \in Nat
    BY DEF TypeOK, Rows
  <2>2. req' \in [Requests -> RequestStates]
    <3>1. \A s \in Subs : [req[r] EXCEPT !.pc = "set", !.quota = row[s].quota] \in RequestStates
      BY <2>1, ZenonT(60) DEF TypeOK, RequestStates, RequestPCs
    <3>2. CASE Answer(r)
      BY <3>2, RequestTypes DEF TypeOK
    <3>3. CASE ~Answer(r)
      BY <1>7, <3>1, <3>3 DEF TypeOK, TopupRead
    <3> QED
      BY <3>2, <3>3
  <2>3. unrefunded' \in [Subs -> Nat]
    BY <1>7 DEF TypeOK, TopupRead, RequestStates
  <2> QED
    BY <1>7, <2>2, <2>3 DEF TypeOK, TopupRead, store, node, events, limits
<1>8. ASSUME NEW r \in Requests, TopupSetQuota(r) PROVE TypeOK'
  <2>1. PICK s \in Subs :
          Answered(QuotaCall(r, s, req[r].quota, req[r].snap.endAt)) \/ Failed(QuotaCall(r, s, req[r].quota, req[r].snap.endAt))
    BY <1>8 DEF TopupSetQuota
  <2>2. QuotaCall(r, s, req[r].quota, req[r].snap.endAt) \in Calls
    BY CallTypes DEF TypeOK, RequestStates, Rows
  <2>3. req' \in [Requests -> RequestStates]
    BY <1>8, RequestTypes DEF TypeOK, TopupSetQuota, RequestPCs
  <2> QED
    BY <1>8, <2>1, <2>2, <2>3, CallStep DEF TopupSetQuota
<1>9. ASSUME NEW r \in Requests, TopupUndo(r) PROVE TypeOK'
  <2>1. PICK s \in Subs : TryWrite(s, QuotaUndone(row[s], req[r].bytes))
    BY <1>9 DEF TopupUndo, TryWrite
  <2>2. QuotaUndone(row[s], req[r].bytes) \in Rows
    BY RowTypes DEF TypeOK, RequestStates
  <2>3. req' \in [Requests -> RequestStates]
    BY <1>9, RequestTypes DEF TypeOK, TopupUndo, RequestPCs
  <2>4. granted' \in [Subs -> Nat] /\ unrefunded' \in [Subs -> Nat]
    BY <1>9 DEF TypeOK, TopupUndo, RequestStates, ledger
  <2> QED
    BY <1>9, <2>1, <2>2, <2>3, <2>4, WriteStep DEF TypeOK, TopupUndo, limits
<1>10. ASSUME NEW r \in Requests, TopupResume(r) PROVE TypeOK'
  <2>1. PICK s \in Subs :
          Answered(Call(r, "resume", s)) \/ Failed(Call(r, "resume", s))
    BY <1>10 DEF TopupResume
  <2>2. Call(r, "resume", s) \in Calls
    BY CallTypes DEF TypeOK
  <2>3. req' \in [Requests -> RequestStates]
    BY <1>10, RequestTypes DEF TypeOK, TopupResume, RequestPCs
  <2> QED
    BY <1>10, <2>1, <2>2, <2>3, CallStep DEF TopupResume
<1>11. ASSUME NEW r \in Requests, TopupActivate(r) PROVE TypeOK'
  <2>1. PICK s \in Subs : TryWrite(s, StatusUpdated(row[s], "active"))
    BY <1>11 DEF TopupActivate, TryWrite
  <2>2. StatusUpdated(row[s], "active") \in Rows
    BY RowTypes DEF TypeOK, Statuses
  <2>3. req' \in [Requests -> RequestStates]
    BY <1>11, RequestTypes DEF TypeOK, TopupActivate, RequestPCs
  <2> QED
    BY <1>11, <2>1, <2>2, <2>3, WriteStep DEF TypeOK, TopupActivate, limits, ledger
<1>12. ASSUME NEW r \in Requests, TopupRearm(r) PROVE TypeOK'
  <2>1. PICK s \in Subs : TryWrite(s, Notified(row[s], ThresholdLevel(req[r].snap.used, req[r].quota)))
    BY <1>12 DEF TopupRearm, TryWrite
  <2>2. Notified(row[s], ThresholdLevel(req[r].snap.used, req[r].quota)) \in Rows
    BY RowTypes, LevelType DEF TypeOK
  <2>3. req' \in [Requests -> RequestStates]
    BY <1>12, RequestTypes DEF TypeOK, TopupRearm, RequestPCs
  <2>4. granted' \in [Subs -> Nat] /\ unrefunded' \in [Subs -> Nat]
    BY <1>12 DEF TypeOK, TopupRearm, RequestStates, ledger
  <2> QED
    BY <1>12, <2>1, <2>2, <2>3, <2>4, WriteStep DEF TypeOK, TopupRearm, limits
<1>13. ASSUME NEW r \in Requests, RenewReset(r) PROVE TypeOK'
  <2>1. PICK s \in Subs :
          Answered(Call(r, "reset", s)) \/ Failed(Call(r, "reset", s))
    BY <1>13 DEF RenewReset
  <2>2. Call(r, "reset", s) \in Calls
    BY CallTypes DEF TypeOK
  <2>3. req' \in [Requests -> RequestStates]
    BY <1>13, RequestTypes DEF TypeOK, RenewReset, RequestPCs
  <2> QED
    BY <1>13, <2>1, <2>2, <2>3, CallStep DEF RenewReset
<1>14. ASSUME NEW r \in Requests, RenewSetQuota(r) PROVE TypeOK'
  <2>1. PICK s \in Subs :
          Answered(QuotaCall(r, s, req[r].snap.quota, req[r].endAt)) \/ Failed(QuotaCall(r, s, req[r].snap.quota, req[r].endAt))
    BY <1>14 DEF RenewSetQuota
  <2>2. QuotaCall(r, s, req[r].snap.quota, req[r].endAt) \in Calls
    BY CallTypes DEF TypeOK, RequestStates, Rows
  <2>3. req' \in [Requests -> RequestStates]
    BY <1>14, RequestTypes DEF TypeOK, RenewSetQuota, RequestPCs
  <2> QED
    BY <1>14, <2>1, <2>2, <2>3, CallStep DEF RenewSetQuota
<1>15. ASSUME NEW r \in Requests, RenewStore(r) PROVE TypeOK'
  <2>1. PICK s \in Subs : TryWrite(s, Renewed(row[s], req[r].endAt))
    BY <1>15 DEF RenewStore, TryWrite
  <2>2. Renewed(row[s], req[r].endAt) \in Rows
    BY RowTypes DEF TypeOK, RequestStates
  <2>3. req' \in [Requests -> RequestStates]
    BY <1>15, RequestTypes DEF TypeOK, RenewStore, RequestPCs
  <2> QED
    BY <1>15, <2>1, <2>2, <2>3, WriteStep DEF TypeOK, RenewStore, limits, ledger
<1>16. ASSUME NEW r \in Requests, LifecycleCall(r) PROVE TypeOK'
  <2>1. PICK s \in Subs :
          Answered(Call(r, NodeOp(req[r].op), s)) \/ Failed(Call(r, NodeOp(req[r].op), s))
    BY <1>16 DEF LifecycleCall
  <2>2. Call(r, NodeOp(req[r].op), s) \in Calls
    BY CallTypes DEF TypeOK, NodeOp
  <2>3. req' \in [Requests -> RequestStates]
    BY <1>16, RequestTypes DEF TypeOK, LifecycleCall, RequestPCs
  <2> QED
    BY <1>16, <2>1, <2>2, <2>3, CallStep DEF LifecycleCall
<1>17. ASSUME NEW r \in Requests, LifecycleStore(r) PROVE TypeOK'
  <2>1. PICK s \in Subs : TryWrite(s, StatusUpdated(row[s], TargetStatus(req[r].op)))
    BY <1>17 DEF LifecycleStore, TryWrite
  <2>2. StatusUpdated(row[s], TargetStatus(req[r].op)) \in Rows
    BY RowTypes DEF TypeOK, TargetStatus, Statuses
  <2>3. req' \in [Requests -> RequestStates]
    BY <1>17, RequestTypes DEF TypeOK, LifecycleStore, RequestPCs
  <2> QED
    BY <1>17, <2>1, <2>2, <2>3, WriteStep DEF TypeOK, LifecycleStore, limits, ledger
<1>18. ASSUME NEW r \in Requests, LifecycleTell(r) PROVE TypeOK'
  <2>1. req' \in [Requests -> RequestStates] /\ TargetStatus(req[r].op) \in Statuses
    BY <1>18, RequestTypes DEF TypeOK, LifecycleTell, TargetStatus, Statuses
  <2> QED
    BY <1>18, <2>1 DEF TypeOK, LifecycleTell, store, node, ledger, limits
<1>19. ASSUME NEW r \in Requests, ToggleCall(r) PROVE TypeOK'
  <2>1. PICK s \in req[r].todo :
          /\ Answered(Call(r, NodeOp(req[r].op), s)) \/ Failed(Call(r, NodeOp(req[r].op), s))
          /\ req' = [req EXCEPT ![r].pc = "mirror", ![r].subs = {s}, ![r].todo = @ \ {s}]
    BY <1>19 DEF ToggleCall
  <2>2. s \in Subs
    BY DEF TypeOK, RequestStates
  <2>3. Call(r, NodeOp(req[r].op), s) \in Calls
    BY <2>2, CallTypes DEF NodeOp
  <2>4. req' \in [Requests -> RequestStates]
    BY <2>1, <2>2 DEF TypeOK, RequestStates, RequestPCs
  <2> QED
    BY <1>19, <2>1, <2>3, <2>4, CallStep DEF ToggleCall
<1>20. ASSUME NEW r \in Requests, ToggleStore(r) PROVE TypeOK'
  <2>1. PICK s \in Subs : TryWrite(s, StatusUpdated(row[s], TargetStatus(req[r].op)))
    BY <1>20 DEF ToggleStore, TryWrite
  <2>2. StatusUpdated(row[s], TargetStatus(req[r].op)) \in Rows
    BY RowTypes DEF TypeOK, TargetStatus, Statuses
  <2>3. req' \in [Requests -> RequestStates]
    <3>1. [req[r] EXCEPT !.pc = "toggle", !.subs = {}] \in RequestStates
      BY ZenonT(60) DEF TypeOK, RequestStates, RequestPCs
    <3> QED
      BY <1>20, <3>1 DEF TypeOK, ToggleStore
  <2> QED
    BY <1>20, <2>1, <2>2, <2>3, WriteStep DEF TypeOK, ToggleStore, limits, ledger
<1>21. ASSUME NEW r \in Requests, ToggleCustomer(r) PROVE TypeOK'
  BY <1>21, RequestTypes
  DEF TypeOK, ToggleCustomer, CustomerStatus, node, events, ledger, limits
<1>22. ASSUME CollectList PROVE TypeOK'
  <2>1. [IdleCollector EXCEPT !.pc = "next", !.todo = ActiveRows, !.snaps = row]
          \in CollectorStates
    BY IdleCollectorType DEF TypeOK, CollectorStates, CollectorPCs, ActiveRows
  <2> QED
    BY <1>22, <2>1 DEF TypeOK, CollectList, store, node, events, ledger, limits
<1>23. ASSUME CollectPoll PROVE TypeOK'
  <2>1. \A s \in Subs : UsageView(tenant[s]) \in Views
    BY DEF TypeOK, UsageView, Views, Tenants
  <2>2. coll.todo \subseteq Subs
    BY DEF TypeOK, CollectorStates
  <2>3. coll' \in CollectorStates
    <3>1. \A s \in coll.todo :
            /\ [coll EXCEPT !.pc = "usage", !.todo = @ \ {s}, !.sub = {s},
                            !.view = UsageView(tenant[s])] \in CollectorStates
            /\ [coll EXCEPT !.todo = @ \ {s}] \in CollectorStates
      BY <2>1, <2>2 DEF TypeOK, CollectorStates, CollectorPCs
    <3> QED
      BY <1>23, <3>1, IdleCollectorType DEF CollectPoll
  <2> QED
    BY <1>23, <2>3 DEF TypeOK, CollectPoll, store, events, ledger, limits
<1>24. ASSUME CollectUsage PROVE TypeOK'
  <2>1. PICK s \in Subs : TryWrite(s, UsageUpdated(row[s], coll.view.used))
    BY <1>24 DEF CollectUsage
  <2>2. UsageUpdated(row[s], coll.view.used) \in Rows
    BY RowTypes DEF TypeOK, CollectorStates, Views
  <2>3. coll' \in CollectorStates
    BY <1>24, CollectorTypes DEF TypeOK, CollectUsage, CollectorPCs
  <2> QED
    BY <1>24, <2>1, <2>2, <2>3, WriteStep DEF TypeOK, CollectUsage, ledger
<1>25. ASSUME CollectSample PROVE TypeOK'
  <2>1. \A s \in Subs : Sample(coll.view, coll.snaps[s]) \in [period : Nat, used : Nat]
    BY DEF TypeOK, Sample, CollectorStates, Views
  <2>2. coll' \in CollectorStates
    BY <1>25, CollectorTypes DEF TypeOK, CollectSample, CollectorPCs
  <2> QED
    BY <1>25, <2>1, <2>2 DEF TypeOK, CollectSample, store, node, events, ledger, limits
<1>26. ASSUME CollectNotice PROVE TypeOK'
  <2>1. \A s \in Subs : NoticeOf(s) \in [sub : Subs, period : Nat, quota : Nat, level : Levels]
    BY LevelType DEF TypeOK, NoticeOf, PolledLevel, CollectorStates, Rows
  <2>2. coll' \in CollectorStates
    BY <1>26, CollectorTypes DEF TypeOK, CollectNotice, CollectorPCs
  <2> QED
    BY <1>26, <2>1, <2>2 DEF TypeOK, CollectNotice, store, node, ledger, limits
<1>27. ASSUME CollectMark PROVE TypeOK'
  <2>1. PICK s \in Subs : TryWrite(s, Notified(row[s], PolledLevel(s)))
    BY <1>27 DEF CollectMark
  <2>2. Notified(row[s], PolledLevel(s)) \in Rows
    BY RowTypes, LevelType DEF TypeOK, PolledLevel
  <2>3. coll' \in CollectorStates
    BY <1>27, CollectorTypes DEF TypeOK, CollectMark, CollectorPCs
  <2> QED
    BY <1>27, <2>1, <2>2, <2>3, WriteStep DEF TypeOK, CollectMark, ledger
<1>28. ASSUME CollectStatus PROVE TypeOK'
  <2>1. PICK s \in Subs : TryWrite(s, StatusUpdated(row[s], coll.view.status)) \/ UNCHANGED row
    BY <1>28 DEF CollectStatus
  <2>2. StatusUpdated(row[s], coll.view.status) \in Rows
    BY RowTypes DEF TypeOK, CollectorStates, Views
  <2>3. row' \in [Subs -> Rows]
    BY <2>1, <2>2, WrittenTypes DEF TypeOK
  <2>4. coll' \in CollectorStates
    BY <1>28, CollectorTypes DEF TypeOK, CollectStatus, CollectorPCs
  <2> QED
    BY <1>28, <2>3, <2>4 DEF TypeOK, CollectStatus, node, events, ledger, limits
<1>29. ASSUME CollectTell PROVE TypeOK'
  <2>1. coll' \in CollectorStates /\ coll.view.status \in Statuses
    BY <1>29, CollectorTypes DEF TypeOK, CollectTell, CollectorStates, Views
  <2> QED
    BY <1>29, <2>1 DEF TypeOK, CollectTell, store, node, ledger, limits
<1>30. ASSUME NEW s \in Subs, Traffic(s) PROVE TypeOK'
  <2>1. \A bytes \in Bursts : Metered(tenant[s], bytes) \in Tenants
    BY SizesAssumption DEF TypeOK, Metered, Tenants
  <2> QED
    BY <1>30, <2>1 DEF TypeOK, Traffic, store, events, ledger, limits
<1>31. ASSUME NEW s \in Subs, Enforce(s) PROVE TypeOK'
  <2>1. Suspended(tenant[s]) \in Tenants /\ Expired(tenant[s]) \in Tenants
    BY DEF TypeOK, Suspended, Expired, Tenants, Statuses
  <2> QED
    BY <1>31, <2>1 DEF TypeOK, Enforce, store, events, ledger, limits
<1>32. ASSUME ServeLate PROVE TypeOK'
  <2>1. \A c \in wire : c.sub \in Subs /\ Applied(tenant[c.sub], c) \in Tenants
    BY TenantTypes DEF TypeOK, Calls
  <2> QED
    BY <1>32, <2>1 DEF TypeOK, ServeLate, Serve, store, events, ledger, limits
<1>33. ASSUME Tick PROVE TypeOK'
  BY <1>33 DEF TypeOK, Tick, store, node, events, ledger
<1>34. ASSUME Crash PROVE TypeOK'
  <2>1. \A s \in Subs : unrefunded[s] + Unsettled(s) \in Nat
    BY UnsettledCount DEF TypeOK
  <2> QED
    BY <1>34, <2>1, RequestTypes, IdleCollectorType DEF TypeOK, Crash, store, node, events
<1>35. ASSUME NEW r \in Requests, ToggleSkip(r) PROVE TypeOK'
  <2>1. PICK s \in req[r].todo : req' = [req EXCEPT ![r].todo = @ \ {s}]
    BY <1>35 DEF ToggleSkip
  <2>2. req' \in [Requests -> RequestStates]
    <3>1. req \in [Requests -> RequestStates]
      BY DEF TypeOK
    <3>2. [req[r] EXCEPT !.todo = @ \ {s}] \in RequestStates
      BY <3>1 DEF RequestStates
    <3>3. req' = [req EXCEPT ![r] = [req[r] EXCEPT !.todo = @ \ {s}]]
      BY <2>1, <3>1 DEF RequestStates
    <3> QED
      BY <3>1, <3>2, <3>3
  <2> QED
    BY <1>35, <2>2 DEF TypeOK, ToggleSkip, store, node, events, ledger, limits
<1>36. CASE UNCHANGED vars
  BY <1>36 DEF TypeOK, vars
<1> QED
  BY <1>2, <1>3, <1>4, <1>5, <1>6, <1>7, <1>8, <1>9, <1>10, <1>11, <1>12, <1>13, <1>14,
     <1>15, <1>16, <1>17, <1>18, <1>19, <1>20, <1>21, <1>22, <1>23, <1>24, <1>25, <1>26,
     <1>27, <1>28, <1>29, <1>30, <1>31, <1>32, <1>33, <1>34, <1>35, <1>36 DEF Next, Arrive, Handle,
     Topup, Renew, Lifecycle, Toggle, Collect

\* The state of the panel, of the node and of every handler stays well typed:
\* no column, tenant or reply takes a value the code does not know, and no
\* counter goes below zero (AddSubscriptionQuota clamps at zero).
THEOREM TypeCorrect == Spec => []TypeOK
<1>1. Init => TypeOK
  BY InitTypes
<1>2. TypeOK /\ [Next]_vars => TypeOK'
  BY NextTypes
<1> QED
  BY <1>1, <1>2, PTL DEF Spec

-----------------------------------------------------------------------------
(* Billing periods.  The invariant needs to know which request is at a step *)
(* of renewSubscription: only then does storing the renewal pay back one    *)
(* reset.                                                                   *)

RenewPCs == {"reset", "extend", "store"}

RenewsAtRenewPCs == \A r \in Requests : req[r].pc \in RenewPCs => req[r].op = "renew"

PeriodInv == TypeOK /\ RenewsAtRenewPCs /\ PeriodBacked

\* No node call takes a tenant back to an earlier period.
LEMMA CallPeriods ==
  ASSUME TypeOK, NEW c \in Calls, Answered(c) \/ Failed(c)
  PROVE  \A s \in Subs : tenant'[s].period >= tenant[s].period
<1>1. \A t \in Tenants : Applied(t, c).period >= t.period /\ t.period \in Nat
  BY DEF Tenants, Calls, Applied, WithQuota, Resumed, Suspended, PeriodReset
<1>2. c.sub \in Subs
  BY DEF Calls
<1> QED
  BY <1>1, <1>2 DEF TypeOK, Answered, Failed, Serve

\* A write of a row that keeps the period keeps every row's period.
LEMMA WritePeriods ==
  ASSUME TypeOK, NEW s \in Subs, NEW rw, rw.period = row[s].period, TryWrite(s, rw)
  PROVE  \A t \in Subs : row'[t].period = row[t].period
  BY DEF TypeOK, TryWrite, Write, WriteFails

\* Only renewSubscription's own UPDATE changes a period.
LEMMA RowPeriods ==
  ASSUME NEW rw \in Rows
  PROVE  /\ \A n \in Nat : QuotaAdded(rw, n).period = rw.period
         /\ \A n \in Nat : QuotaUndone(rw, n).period = rw.period
         /\ \A n \in Nat : UsageUpdated(rw, n).period = rw.period
         /\ \A status \in Statuses : StatusUpdated(rw, status).period = rw.period
         /\ \A level \in Levels : Notified(rw, level).period = rw.period
  BY DEF Rows, QuotaAdded, QuotaUndone, UsageUpdated, StatusUpdated, Notified

\* What a handler that goes on, or answers, does to the requests.
LEMMA OneRequest ==
  ASSUME TypeOK, NEW r \in Requests
  PROVE  /\ Answer(r) => req'[r] = IdleRequest /\ \A q \in Requests \ {r} : req'[q] = req[q]
         /\ \A pc : Go(r, pc) => /\ req'[r] = [req[r] EXCEPT !.pc = pc]
                                 /\ req'[r].pc = pc
                                 /\ \A q \in Requests \ {r} : req'[q] = req[q]
  BY DEF TypeOK, Answer, Go, RequestStates

\* What the proof of PeriodBacked asks of a step that is not the reset or the
\* UPDATE of a renewal.
RowsKept == \A s \in Subs : row'[s].period = row[s].period

TenantsKept == \A s \in Subs : tenant'[s].period >= tenant[s].period

RenewalsKept ==
  /\ \A s \in Subs : Renewing(s)' \subseteq Renewing(s)
  /\ RenewsAtRenewPCs => RenewsAtRenewPCs'

PeriodsKept == RowsKept /\ TenantsKept /\ RenewalsKept

\* A variable that does not change keeps its part.
LEMMA Untouched ==
  ASSUME TypeOK
  PROVE  /\ UNCHANGED row => RowsKept
         /\ UNCHANGED tenant => TenantsKept
         /\ UNCHANGED req => RenewalsKept
<1>1. \A s \in Subs : tenant[s].period \in Nat
  BY DEF TypeOK, Tenants
<1> QED
  BY <1>1 DEF RowsKept, TenantsKept, RenewalsKept, RenewsAtRenewPCs, Renewing, For

\* A handler that is not past a reset afterwards renews no more than before.
LEMMA RenewingKept ==
  ASSUME NEW r \in Requests, \A q \in Requests \ {r} : req'[q] = req[q],
         req'[r].pc \notin {"extend", "store"},
         req'[r].pc = "reset" => req'[r].op = "renew"
  PROVE  RenewalsKept
  BY DEF RenewalsKept, RenewsAtRenewPCs, RenewPCs, Renewing, For

\* The steps of the other operations.
OtherPCs == RequestPCs \ RenewPCs

\* A handler that answers, or goes on with another operation.
LEMMA MovedOn ==
  ASSUME TypeOK, NEW r \in Requests, Answer(r) \/ \E pc \in OtherPCs : Go(r, pc)
  PROVE  RenewalsKept
<1>1. \A q \in Requests \ {r} : req'[q] = req[q]
  BY OneRequest
<1>2. IdleRequest.pc = "idle"
  BY DEF IdleRequest
<1>3. req'[r].pc \notin RenewPCs
  BY <1>2, OneRequest DEF OtherPCs, RenewPCs
<1> QED
  BY <1>1, <1>3, RenewingKept DEF RenewPCs

\* A request that arrives has reset nothing.
LEMMA Arrival ==
  ASSUME TypeOK, NEW r \in Requests, NEW state, Receive(r, state),
         state.pc \notin {"extend", "store"},
         state.pc = "reset" => state.op = "renew"
  PROVE  PeriodsKept
<1>1. req'[r] = state /\ \A q \in Requests \ {r} : req'[q] = req[q]
  BY DEF TypeOK, Receive
<1>2. RenewalsKept
  BY <1>1, RenewingKept
<1> QED
  BY <1>2, Untouched DEF Receive, PeriodsKept, store, node

\* Every step but the two of a renewal keeps the periods.
LEMMA OtherSteps ==
  ASSUME TypeOK, [Next]_vars,
         \A r \in Requests : ~RenewReset(r) /\ ~RenewStore(r)
  PROVE  PeriodsKept
<1>1. ASSUME NEW r \in Requests, Arrive(r) PROVE PeriodsKept
  <2>1. CASE ReceiveTopup(r)
    <3>1. PICK s \in Subs, bytes \in Amounts :
            Receive(r, [IdleRequest EXCEPT !.pc = "add", !.op = "topup", !.subs = {s},
                                           !.snap = row[s], !.bytes = bytes])
      BY <2>1 DEF ReceiveTopup
    <3>2. [IdleRequest EXCEPT !.pc = "add", !.op = "topup", !.subs = {s},
                              !.snap = row[s], !.bytes = bytes].pc = "add"
      BY DEF IdleRequest
    <3> QED
      BY <3>1, <3>2, Arrival
  <2>2. CASE ReceiveRenew(r)
    <3>1. PICK s \in Subs, days \in RenewDays :
            Receive(r, [IdleRequest EXCEPT !.pc = "reset", !.op = "renew", !.subs = {s},
                                           !.snap = row[s], !.endAt = now + days])
      BY <2>2 DEF ReceiveRenew
    <3>2. [IdleRequest EXCEPT !.pc = "reset", !.op = "renew", !.subs = {s},
                              !.snap = row[s], !.endAt = now + days].pc = "reset"
          /\ [IdleRequest EXCEPT !.pc = "reset", !.op = "renew", !.subs = {s},
                                 !.snap = row[s], !.endAt = now + days].op = "renew"
      BY DEF IdleRequest
    <3> QED
      BY <3>1, <3>2, Arrival
  <2>3. CASE ReceiveLifecycle(r)
    <3>1. PICK op \in Ops \cap {"suspend", "resume"}, s \in Subs :
            Receive(r, [IdleRequest EXCEPT !.pc = "switch", !.op = op, !.subs = {s}])
      BY <2>3 DEF ReceiveLifecycle
    <3>2. [IdleRequest EXCEPT !.pc = "switch", !.op = op, !.subs = {s}].pc = "switch"
      BY DEF IdleRequest
    <3> QED
      BY <3>1, <3>2, Arrival
  <2>4. CASE ReceiveToggle(r)
    <3>1. PICK op \in Ops \cap {"disable", "enable"}, todo \in SUBSET Subs :
            Receive(r, [IdleRequest EXCEPT !.pc = "toggle", !.op = op, !.todo = todo])
      BY <2>4 DEF ReceiveToggle
    <3>2. [IdleRequest EXCEPT !.pc = "toggle", !.op = op, !.todo = todo].pc = "toggle"
      BY DEF IdleRequest
    <3> QED
      BY <3>1, <3>2, Arrival
  <2> QED
    BY <1>1, <2>1, <2>2, <2>3, <2>4 DEF Arrive
<1>2. ASSUME NEW r \in Requests, TopupAdd(r) PROVE PeriodsKept
  <2>1. PICK s \in Subs : TryWrite(s, QuotaAdded(row[s], req[r].bytes))
    BY <1>2 DEF TopupAdd, TryWrite
  <2>2. QuotaAdded(row[s], req[r].bytes).period = row[s].period
    BY RowPeriods DEF TypeOK, RequestStates
  <2>3. RowsKept
    BY <2>1, <2>2, WritePeriods DEF RowsKept
  <2>4. RenewalsKept
    <3>1. Answer(r) \/ \E pc \in OtherPCs : Go(r, pc)
      BY <1>2 DEF TopupAdd, OtherPCs, RenewPCs, RequestPCs
    <3> QED
      BY <3>1, MovedOn
  <2> QED
    BY <1>2, <2>3, <2>4, Untouched DEF TopupAdd, PeriodsKept, node
<1>3. ASSUME NEW r \in Requests, TopupRead(r) PROVE PeriodsKept
  <2>1. RenewalsKept
    <3>1. /\ \A q \in Requests \ {r} : req'[q] = req[q]
          /\ req'[r].pc \in {"set", "idle"}
      BY <1>3 DEF TypeOK, TopupRead, Answer, IdleRequest, RequestStates
    <3> QED
      BY <3>1, RenewingKept
  <2> QED
    BY <1>3, <2>1, Untouched DEF TopupRead, PeriodsKept, store, node
<1>4. ASSUME NEW r \in Requests, TopupSetQuota(r) PROVE PeriodsKept
  <2>1. PICK s \in Subs :
          Answered(QuotaCall(r, s, req[r].quota, req[r].snap.endAt)) \/ Failed(QuotaCall(r, s, req[r].quota, req[r].snap.endAt))
    BY <1>4 DEF TopupSetQuota
  <2>2. QuotaCall(r, s, req[r].quota, req[r].snap.endAt) \in Calls
    BY CallTypes DEF TypeOK, RequestStates, Rows
  <2>3. TenantsKept
    BY <2>1, <2>2, CallPeriods DEF TenantsKept
  <2>4. RenewalsKept
    <3>1. Answer(r) \/ \E pc \in OtherPCs : Go(r, pc)
      BY <1>4 DEF TopupSetQuota, OtherPCs, RenewPCs, RequestPCs
    <3> QED
      BY <3>1, MovedOn
  <2> QED
    BY <1>4, <2>3, <2>4, Untouched DEF TopupSetQuota, PeriodsKept, store
<1>5. ASSUME NEW r \in Requests, TopupUndo(r) PROVE PeriodsKept
  <2>1. PICK s \in Subs : TryWrite(s, QuotaUndone(row[s], req[r].bytes))
    BY <1>5 DEF TopupUndo, TryWrite
  <2>2. QuotaUndone(row[s], req[r].bytes).period = row[s].period
    BY RowPeriods DEF TypeOK, RequestStates
  <2>3. RowsKept
    BY <2>1, <2>2, WritePeriods DEF RowsKept
  <2>4. RenewalsKept
    <3>1. Answer(r) \/ \E pc \in OtherPCs : Go(r, pc)
      BY <1>5 DEF TopupUndo, OtherPCs, RenewPCs, RequestPCs
    <3> QED
      BY <3>1, MovedOn
  <2> QED
    BY <1>5, <2>3, <2>4, Untouched DEF TopupUndo, PeriodsKept, node
<1>6. ASSUME NEW r \in Requests, TopupResume(r) PROVE PeriodsKept
  <2>1. PICK s \in Subs :
          Answered(Call(r, "resume", s)) \/ Failed(Call(r, "resume", s))
    BY <1>6 DEF TopupResume
  <2>2. Call(r, "resume", s) \in Calls
    BY CallTypes DEF TypeOK
  <2>3. TenantsKept
    BY <2>1, <2>2, CallPeriods DEF TenantsKept
  <2>4. RenewalsKept
    <3>1. Answer(r) \/ \E pc \in OtherPCs : Go(r, pc)
      BY <1>6 DEF TopupResume, OtherPCs, RenewPCs, RequestPCs
    <3> QED
      BY <3>1, MovedOn
  <2> QED
    BY <1>6, <2>3, <2>4, Untouched DEF TopupResume, PeriodsKept, store
<1>7. ASSUME NEW r \in Requests, TopupActivate(r) PROVE PeriodsKept
  <2>1. PICK s \in Subs : TryWrite(s, StatusUpdated(row[s], "active"))
    BY <1>7 DEF TopupActivate, TryWrite
  <2>2. StatusUpdated(row[s], "active").period = row[s].period
    BY RowPeriods DEF TypeOK, Statuses
  <2>3. RowsKept
    BY <2>1, <2>2, WritePeriods DEF RowsKept
  <2>4. RenewalsKept
    <3>1. Answer(r) \/ \E pc \in OtherPCs : Go(r, pc)
      BY <1>7 DEF TopupActivate, OtherPCs, RenewPCs, RequestPCs
    <3> QED
      BY <3>1, MovedOn
  <2> QED
    BY <1>7, <2>3, <2>4, Untouched DEF TopupActivate, PeriodsKept, node
<1>8. ASSUME NEW r \in Requests, TopupRearm(r) PROVE PeriodsKept
  <2>1. PICK s \in Subs : TryWrite(s, Notified(row[s], ThresholdLevel(req[r].snap.used, req[r].quota)))
    BY <1>8 DEF TopupRearm, TryWrite
  <2>2. Notified(row[s], ThresholdLevel(req[r].snap.used, req[r].quota)).period = row[s].period
    BY RowPeriods, LevelType DEF TypeOK
  <2>3. RowsKept
    BY <2>1, <2>2, WritePeriods DEF RowsKept
  <2>4. RenewalsKept
    <3>1. Answer(r) \/ \E pc \in OtherPCs : Go(r, pc)
      BY <1>8 DEF TopupRearm, OtherPCs, RenewPCs, RequestPCs
    <3> QED
      BY <3>1, MovedOn
  <2> QED
    BY <1>8, <2>3, <2>4, Untouched DEF TopupRearm, PeriodsKept, node
<1>9. ASSUME NEW r \in Requests, RenewSetQuota(r) PROVE PeriodsKept
  <2>1. PICK s \in Subs :
          Answered(QuotaCall(r, s, req[r].snap.quota, req[r].endAt)) \/ Failed(QuotaCall(r, s, req[r].snap.quota, req[r].endAt))
    BY <1>9 DEF RenewSetQuota
  <2>2. QuotaCall(r, s, req[r].snap.quota, req[r].endAt) \in Calls
    BY CallTypes DEF TypeOK, RequestStates, Rows
  <2>3. TenantsKept
    BY <2>1, <2>2, CallPeriods DEF TenantsKept
  <2>4. RenewalsKept
    <3>1. \A q \in Requests \ {r} : req'[q] = req[q]
      BY <1>9, OneRequest DEF RenewSetQuota
    <3>2. CASE req'[r].pc = "store"
      <4>1. req'[r] = [req[r] EXCEPT !.pc = "store"] /\ req[r].pc = "extend"
        BY <1>9, <3>2, OneRequest DEF RenewSetQuota, IdleRequest, At
      <4>2. req'[r].op = req[r].op /\ req'[r].subs = req[r].subs
        BY <4>1 DEF TypeOK, RequestStates
      <4> QED
        BY <3>1, <4>1, <4>2 DEF RenewalsKept, RenewsAtRenewPCs, RenewPCs, Renewing, For
    <3>3. CASE req'[r].pc # "store"
      <4>1. Answer(r)
        BY <1>9, <3>3, OneRequest DEF RenewSetQuota
      <4> QED
        BY <4>1, MovedOn
    <3> QED
      BY <3>2, <3>3
  <2> QED
    BY <1>9, <2>3, <2>4, Untouched DEF RenewSetQuota, PeriodsKept, store
<1>10. ASSUME NEW r \in Requests, LifecycleCall(r) PROVE PeriodsKept
  <2>1. PICK s \in Subs :
          Answered(Call(r, NodeOp(req[r].op), s)) \/ Failed(Call(r, NodeOp(req[r].op), s))
    BY <1>10 DEF LifecycleCall
  <2>2. Call(r, NodeOp(req[r].op), s) \in Calls
    BY CallTypes DEF TypeOK, NodeOp
  <2>3. TenantsKept
    BY <2>1, <2>2, CallPeriods DEF TenantsKept
  <2>4. RenewalsKept
    <3>1. Answer(r) \/ \E pc \in OtherPCs : Go(r, pc)
      BY <1>10 DEF LifecycleCall, OtherPCs, RenewPCs, RequestPCs
    <3> QED
      BY <3>1, MovedOn
  <2> QED
    BY <1>10, <2>3, <2>4, Untouched DEF LifecycleCall, PeriodsKept, store
<1>11. ASSUME NEW r \in Requests, LifecycleStore(r) PROVE PeriodsKept
  <2>1. PICK s \in Subs : TryWrite(s, StatusUpdated(row[s], TargetStatus(req[r].op)))
    BY <1>11 DEF LifecycleStore, TryWrite
  <2>2. StatusUpdated(row[s], TargetStatus(req[r].op)).period = row[s].period
    BY RowPeriods DEF TypeOK, TargetStatus, Statuses
  <2>3. RowsKept
    BY <2>1, <2>2, WritePeriods DEF RowsKept
  <2>4. RenewalsKept
    <3>1. Answer(r) \/ \E pc \in OtherPCs : Go(r, pc)
      BY <1>11 DEF LifecycleStore, OtherPCs, RenewPCs, RequestPCs
    <3> QED
      BY <3>1, MovedOn
  <2> QED
    BY <1>11, <2>3, <2>4, Untouched DEF LifecycleStore, PeriodsKept, node
<1>12. ASSUME NEW r \in Requests, LifecycleTell(r) PROVE PeriodsKept
  <2>1. RenewalsKept
    <3>1. Answer(r) \/ \E pc \in OtherPCs : Go(r, pc)
      BY <1>12 DEF LifecycleTell, OtherPCs, RenewPCs, RequestPCs
    <3> QED
      BY <3>1, MovedOn
  <2> QED
    BY <1>12, <2>1, Untouched DEF LifecycleTell, PeriodsKept, store, node
<1>13. ASSUME NEW r \in Requests, ToggleCall(r) PROVE PeriodsKept
  <2>1. PICK s \in req[r].todo :
          /\ Answered(Call(r, NodeOp(req[r].op), s)) \/ Failed(Call(r, NodeOp(req[r].op), s))
          /\ req' = [req EXCEPT ![r].pc = "mirror", ![r].subs = {s}, ![r].todo = @ \ {s}]
    BY <1>13 DEF ToggleCall
  <2>2. Call(r, NodeOp(req[r].op), s) \in Calls
    BY CallTypes DEF TypeOK, RequestStates, NodeOp
  <2>3. TenantsKept
    BY <2>1, <2>2, CallPeriods DEF TenantsKept
  <2>4. RenewalsKept
    <3>1. req'[r].pc = "mirror" /\ \A q \in Requests \ {r} : req'[q] = req[q]
      BY <2>1 DEF TypeOK, RequestStates
    <3> QED
      BY <3>1, RenewingKept
  <2> QED
    BY <1>13, <2>3, <2>4, Untouched DEF ToggleCall, PeriodsKept, store
<1>14. ASSUME NEW r \in Requests, ToggleStore(r) PROVE PeriodsKept
  <2>1. PICK s \in Subs : TryWrite(s, StatusUpdated(row[s], TargetStatus(req[r].op)))
    BY <1>14 DEF ToggleStore, TryWrite
  <2>2. StatusUpdated(row[s], TargetStatus(req[r].op)).period = row[s].period
    BY RowPeriods DEF TypeOK, TargetStatus, Statuses
  <2>3. RowsKept
    BY <2>1, <2>2, WritePeriods DEF RowsKept
  <2>4. RenewalsKept
    <3>1. req'[r].pc = "toggle" /\ \A q \in Requests \ {r} : req'[q] = req[q]
      BY <1>14 DEF TypeOK, ToggleStore, RequestStates
    <3> QED
      BY <3>1, RenewingKept
  <2> QED
    BY <1>14, <2>3, <2>4, Untouched DEF ToggleStore, PeriodsKept, node
<1>15. ASSUME NEW r \in Requests, ToggleCustomer(r) PROVE PeriodsKept
  <2>1. RenewalsKept
    <3>1. Answer(r) \/ \E pc \in OtherPCs : Go(r, pc)
      BY <1>15 DEF ToggleCustomer, OtherPCs, RenewPCs, RequestPCs
    <3> QED
      BY <3>1, MovedOn
  <2> QED
    BY <1>15, <2>1, Untouched DEF ToggleCustomer, PeriodsKept, node
<1>16. ASSUME CollectList \/ CollectPoll \/ CollectSample \/ CollectNotice \/ CollectTell
      PROVE PeriodsKept
  BY <1>16, Untouched
  DEF CollectList, CollectPoll, CollectSample, CollectNotice, CollectTell, PeriodsKept, store, node
<1>17. ASSUME CollectUsage PROVE PeriodsKept
  <2>1. PICK s \in Subs : TryWrite(s, UsageUpdated(row[s], coll.view.used))
    BY <1>17 DEF CollectUsage
  <2>2. UsageUpdated(row[s], coll.view.used).period = row[s].period
    BY RowPeriods DEF TypeOK, CollectorStates, Views
  <2>3. RowsKept
    BY <2>1, <2>2, WritePeriods DEF RowsKept
  <2> QED
    BY <1>17, <2>3, Untouched DEF CollectUsage, PeriodsKept, node
<1>18. ASSUME CollectMark PROVE PeriodsKept
  <2>1. PICK s \in Subs : TryWrite(s, Notified(row[s], PolledLevel(s)))
    BY <1>18 DEF CollectMark
  <2>2. Notified(row[s], PolledLevel(s)).period = row[s].period
    BY RowPeriods, LevelType DEF TypeOK, PolledLevel
  <2>3. RowsKept
    BY <2>1, <2>2, WritePeriods DEF RowsKept
  <2> QED
    BY <1>18, <2>3, Untouched DEF CollectMark, PeriodsKept, node
<1>19. ASSUME CollectStatus PROVE PeriodsKept
  <2>1. PICK s \in Subs : TryWrite(s, StatusUpdated(row[s], coll.view.status)) \/ UNCHANGED row
    BY <1>19 DEF CollectStatus
  <2>2. StatusUpdated(row[s], coll.view.status).period = row[s].period
    BY RowPeriods DEF TypeOK, CollectorStates, Views
  <2>3. RowsKept
    BY <2>1, <2>2, WritePeriods, Untouched DEF RowsKept
  <2> QED
    BY <1>19, <2>3, Untouched DEF CollectStatus, PeriodsKept, node
<1>20. ASSUME NEW s \in Subs, Traffic(s) \/ Enforce(s) PROVE PeriodsKept
  <2>1. \A t \in Tenants : /\ Suspended(t).period >= t.period
                           /\ Expired(t).period >= t.period
                           /\ \A bytes \in Bursts : Metered(t, bytes).period >= t.period
                           /\ t.period >= t.period
    BY DEF Tenants, Suspended, Expired, Metered
  <2>2. TenantsKept
    BY <1>20, <2>1 DEF TypeOK, Traffic, Enforce, TenantsKept
  <2> QED
    BY <1>20, <2>2, Untouched DEF Traffic, Enforce, PeriodsKept, store
<1>21. ASSUME ServeLate PROVE PeriodsKept
  <2>1. PICK c \in wire : Serve(c)
    BY <1>21 DEF ServeLate
  <2>2. c \in Calls /\ c.sub \in Subs
    BY DEF TypeOK, Calls
  <2>3. \A t \in Tenants : Applied(t, c).period >= t.period /\ t.period >= t.period
    BY <2>2 DEF Tenants, Calls, Applied, WithQuota, Resumed, Suspended, PeriodReset
  <2>4. TenantsKept
    BY <2>1, <2>2, <2>3 DEF TypeOK, Serve, TenantsKept
  <2> QED
    BY <1>21, <2>4, Untouched DEF ServeLate, PeriodsKept, store
<1>22. ASSUME Tick PROVE PeriodsKept
  BY <1>22, Untouched DEF Tick, PeriodsKept, store, node
<1>23. ASSUME Crash PROVE PeriodsKept
  <2>1. RenewalsKept
    BY <1>23 DEF Crash, RenewalsKept, RenewsAtRenewPCs, RenewPCs, Renewing, IdleRequest
  <2> QED
    BY <1>23, <2>1, Untouched DEF Crash, PeriodsKept, store, node
<1>24. ASSUME NEW r \in Requests, ToggleSkip(r) PROVE PeriodsKept
  <2>1. PICK s \in req[r].todo : req' = [req EXCEPT ![r].todo = @ \ {s}]
    BY <1>24 DEF ToggleSkip
  <2>2. req'[r].pc = "toggle" /\ \A q \in Requests \ {r} : req'[q] = req[q]
    BY <1>24, <2>1 DEF TypeOK, ToggleSkip, At, RequestStates
  <2>3. RenewalsKept
    BY <2>2, RenewingKept
  <2> QED
    BY <1>24, <2>3, Untouched DEF ToggleSkip, PeriodsKept, store, node
<1>25. CASE UNCHANGED vars
  BY <1>25, Untouched DEF PeriodsKept, vars
<1> QED
  BY <1>1, <1>2, <1>3, <1>4, <1>5, <1>6, <1>7, <1>8, <1>9, <1>10, <1>11, <1>12, <1>13,
     <1>14, <1>15, <1>16, <1>17, <1>18, <1>19, <1>20, <1>21, <1>22, <1>23, <1>24, <1>25 DEF Next,
     Handle, Topup, Renew, Lifecycle, Toggle, Collect

\* A step that keeps the periods keeps them backed.
LEMMA KeptIsBacked ==
  ASSUME TypeOK, TypeOK', PeriodBacked, PeriodsKept
  PROVE  PeriodBacked'
<1> SUFFICES ASSUME NEW s \in Subs
             PROVE  row'[s].period + Cardinality(Renewing(s)') <= tenant'[s].period
  BY DEF PeriodBacked
<1>1. IsFiniteSet(Renewing(s))
  BY FS_Subset, ActorsAssumption DEF Renewing
<1>2. /\ Cardinality(Renewing(s)') <= Cardinality(Renewing(s))
      /\ Cardinality(Renewing(s)') \in Nat /\ Cardinality(Renewing(s)) \in Nat
  <2>1. Renewing(s)' \in SUBSET Renewing(s)
    BY DEF PeriodsKept, RenewalsKept
  <2> QED
    BY <1>1, <2>1, FS_Subset, FS_CardinalityType
<1>3. row[s].period \in Nat /\ tenant[s].period \in Nat
  BY DEF TypeOK, Rows, Tenants
<1>4. row'[s].period = row[s].period /\ tenant'[s].period >= tenant[s].period
  BY DEF PeriodsKept, RowsKept, TenantsKept
<1>5. tenant'[s].period \in Nat
  BY DEF TypeOK, Tenants
<1>6. row[s].period + Cardinality(Renewing(s)) <= tenant[s].period
  BY DEF PeriodBacked
<1> QED
  BY <1>2, <1>3, <1>4, <1>5, <1>6

\* The renewals in progress of one subscription can be counted.
LEMMA RenewingCount ==
  ASSUME NEW s PROVE IsFiniteSet(Renewing(s)) /\ Cardinality(Renewing(s)) \in Nat
<1>1. Renewing(s) \in SUBSET Requests
  BY DEF Renewing
<1> QED
  BY <1>1, FS_Subset, FS_CardinalityType, ActorsAssumption DEF ActorsAssumption

\* A reset the node answers starts a period the row may be charged with; one
\* that fails starts none the panel knows of.
LEMMA ResetKeepsBacked ==
  ASSUME TypeOK, TypeOK', RenewsAtRenewPCs, PeriodBacked, NEW r \in Requests, RenewReset(r)
  PROVE  PeriodBacked' /\ RenewsAtRenewPCs'
<1>1. PICK s \in Subs : /\ For(r, s)
                        /\ \/ Answered(Call(r, "reset", s)) /\ Go(r, "extend")
                           \/ Failed(Call(r, "reset", s)) /\ Answer(r)
  BY DEF RenewReset
<1>2. CASE Failed(Call(r, "reset", s)) /\ Answer(r)
  <2>1. TenantsKept
    BY <1>2, CallTypes, CallPeriods DEF TenantsKept
  <2>2. RenewalsKept
    BY <1>2, MovedOn
  <2>3. PeriodsKept
    BY <2>1, <2>2, Untouched DEF RenewReset, PeriodsKept, store
  <2> QED
    BY <2>2, <2>3, KeptIsBacked DEF RenewalsKept
<1>3. CASE Answered(Call(r, "reset", s)) /\ Go(r, "extend")
  <2>1. \A q \in Requests \ {r} : req'[q] = req[q]
    BY <1>3, OneRequest
  <2>2. req'[r].pc = "extend" /\ req'[r].op = req[r].op /\ req'[r].subs = req[r].subs
    <3>1. req'[r] = [req[r] EXCEPT !.pc = "extend"]
      BY <1>3, OneRequest
    <3> QED
      BY <3>1 DEF TypeOK, RequestStates
  <2>3. req[r].pc = "reset" /\ req[r].op = "renew"
    BY DEF RenewReset, At, RenewsAtRenewPCs, RenewPCs
  <2>4. ASSUME NEW q \in Requests, req'[q].pc \in RenewPCs PROVE req'[q].op = "renew"
    <3>1. CASE q = r
      BY <2>2, <2>3, <3>1
    <3>2. CASE q # r
      BY <2>1, <2>4, <3>2 DEF RenewsAtRenewPCs
    <3> QED
      BY <3>1, <3>2
  <2>5. row' = row
    BY DEF RenewReset, store
  <2>6. /\ tenant'[s].period = tenant[s].period + 1
        /\ \A t \in Subs \ {s} : tenant'[t] = tenant[t]
    <3>1. Serve(Call(r, "reset", s)) /\ Call(r, "reset", s).sub = s
      BY <1>3 DEF Answered, Call
    <3>2. Applied(tenant[s], Call(r, "reset", s)) = PeriodReset(tenant[s])
      BY DEF Call, Applied
    <3>3. PeriodReset(tenant[s]).period = tenant[s].period + 1
      BY DEF TypeOK, Tenants, PeriodReset
    <3> QED
      BY <3>1, <3>2, <3>3 DEF TypeOK, Serve
  <2>7. ASSUME NEW t \in Subs
        PROVE  row'[t].period + Cardinality(Renewing(t)') <= tenant'[t].period
    <3>1. /\ row[t].period \in Nat /\ tenant[t].period \in Nat
          /\ row[t].period + Cardinality(Renewing(t)) <= tenant[t].period
      BY DEF TypeOK, Rows, Tenants, PeriodBacked
    <3>2. CASE t = s
      <4>1. r \notin Renewing(s) /\ Renewing(s)' = Renewing(s) \cup {r}
        BY <1>1, <2>1, <2>2, <2>3 DEF Renewing, For
      <4>2. Cardinality(Renewing(s)') = Cardinality(Renewing(s)) + 1
        BY <4>1, RenewingCount, FS_AddElement
      <4> QED
        BY <2>5, <2>6, <3>1, <3>2, <4>2, RenewingCount
    <3>3. CASE t # s
      <4>1. Renewing(t)' = Renewing(t)
        BY <1>1, <2>1, <2>2, <2>3, <3>3 DEF Renewing, For
      <4> QED
        BY <2>5, <2>6, <3>1, <3>3, <4>1
    <3> QED
      BY <3>2, <3>3
  <2> QED
    BY <2>4, <2>7 DEF PeriodBacked, RenewsAtRenewPCs
<1> QED
  BY <1>1, <1>2, <1>3

\* The UPDATE of a renewal charges the row with the period its own reset began.
LEMMA StoreKeepsBacked ==
  ASSUME TypeOK, TypeOK', RenewsAtRenewPCs, PeriodBacked, NEW r \in Requests, RenewStore(r)
  PROVE  PeriodBacked' /\ RenewsAtRenewPCs'
<1>1. PICK s \in Subs : For(r, s) /\ TryWrite(s, Renewed(row[s], req[r].endAt))
  BY DEF RenewStore
<1>2. Answer(r) /\ tenant' = tenant
  BY DEF RenewStore, node
<1>3. RenewalsKept
  BY <1>2, MovedOn
<1>4. req'[r].pc = "idle" /\ \A q \in Requests \ {r} : req'[q] = req[q]
  BY <1>2, OneRequest DEF IdleRequest
<1>5. r \in Renewing(s)
  BY <1>1 DEF RenewStore, At, RenewsAtRenewPCs, RenewPCs, Renewing
<1>6. ASSUME NEW t \in Subs
      PROVE  row'[t].period + Cardinality(Renewing(t)') <= tenant'[t].period
  <2>1. /\ row[t].period \in Nat /\ tenant[t].period \in Nat
        /\ row[t].period + Cardinality(Renewing(t)) <= tenant[t].period
    BY DEF TypeOK, Rows, Tenants, PeriodBacked
  <2>2. CASE t = s
    <3>1. Renewing(s)' = Renewing(s) \ {r}
      BY <1>4, <1>5 DEF Renewing, For
    <3>2. Cardinality(Renewing(s)') = Cardinality(Renewing(s)) - 1
      BY <1>5, <3>1, RenewingCount, FS_RemoveElement
    <3>3. row'[s].period = row[s].period \/ row'[s].period = row[s].period + 1
      <4>1. Renewed(row[s], req[r].endAt).period = row[s].period + 1
        BY DEF TypeOK, Rows, Renewed
      <4> QED
        BY <1>1, <4>1 DEF TypeOK, TryWrite, Write, WriteFails
    <3> QED
      BY <1>2, <2>1, <2>2, <3>2, <3>3, RenewingCount
  <2>3. CASE t # s
    <3>1. Renewing(t)' = Renewing(t)
      BY <1>1, <1>4, <2>3 DEF Renewing, For
    <3>2. row'[t] = row[t]
      BY <1>1, <2>3 DEF TypeOK, TryWrite, Write, WriteFails
    <3> QED
      BY <1>2, <2>1, <3>1, <3>2
  <2> QED
    BY <2>2, <2>3
<1> QED
  BY <1>3, <1>6 DEF PeriodBacked, RenewalsKept

LEMMA InitPeriods == Init => PeriodInv
<1> SUFFICES ASSUME Init PROVE PeriodInv
  OBVIOUS
<1>1. TypeOK
  BY InitTypes
<1>2. \A r \in Requests : req[r].pc = "idle"
  BY DEF Init, IdleRequest
<1>3. RenewsAtRenewPCs
  BY <1>2 DEF RenewsAtRenewPCs, RenewPCs
<1>4. \A s \in Subs : Renewing(s) = {}
  BY <1>2 DEF Renewing
<1>5. Cardinality({}) = 0
  BY FS_EmptySet
<1>6. \A s \in Subs : row[s].period = 1 /\ tenant[s].period = 1
  BY DEF Init, NewRow, NewTenant
<1>7. PeriodBacked
  BY <1>4, <1>5, <1>6 DEF PeriodBacked
<1> QED
  BY <1>1, <1>3, <1>7 DEF PeriodInv

LEMMA NextPeriods == PeriodInv /\ [Next]_vars => PeriodInv'
<1> SUFFICES ASSUME PeriodInv, [Next]_vars PROVE PeriodInv'
  OBVIOUS
<1>1. TypeOK /\ RenewsAtRenewPCs /\ PeriodBacked
  BY DEF PeriodInv
<1>2. TypeOK'
  BY <1>1, NextTypes
<1>3. CASE \E r \in Requests : RenewReset(r)
  BY <1>1, <1>2, <1>3, ResetKeepsBacked DEF PeriodInv
<1>4. CASE \E r \in Requests : RenewStore(r)
  BY <1>1, <1>2, <1>4, StoreKeepsBacked DEF PeriodInv
<1>5. CASE \A r \in Requests : ~RenewReset(r) /\ ~RenewStore(r)
  <2>1. PeriodsKept
    BY <1>1, <1>5, OtherSteps
  <2>2. PeriodBacked'
    BY <1>1, <1>2, <2>1, KeptIsBacked
  <2>3. RenewsAtRenewPCs'
    BY <1>1, <2>1 DEF PeriodsKept, RenewalsKept
  <2> QED
    BY <1>2, <2>2, <2>3 DEF PeriodInv
<1> QED
  BY <1>3, <1>4, <1>5

\* The panel never bills a period the node has not started, however many
\* renewals, top-ups, lost replies, late calls and restarts overlap: a renewal's
\* UPDATE is always preceded by a reset of its own that the node answered
\* (renewSubscription calls ResetPeriod before it touches the row).
THEOREM PeriodsBacked == Spec => []PeriodBacked
<1>1. Init => PeriodInv
  BY InitPeriods
<1>2. PeriodInv /\ [Next]_vars => PeriodInv'
  BY NextPeriods
<1>3. PeriodInv => PeriodBacked
  BY DEF PeriodInv
<1> QED
  BY <1>1, <1>2, <1>3, PTL DEF Spec

-----------------------------------------------------------------------------
(* Counting the bytes of top-ups in progress. *)

LEMMA DisjointCount ==
  ASSUME NEW X, NEW Y, IsFiniteSet(X), IsFiniteSet(Y), X \cap Y = {}
  PROVE  /\ IsFiniteSet(X \cup Y)
         /\ Cardinality(X \cup Y) = Cardinality(X) + Cardinality(Y)
<1>1. /\ IsFiniteSet(X \cup Y)
      /\ Cardinality(X \cup Y) = Cardinality(X) + Cardinality(Y) - Cardinality(X \cap Y)
  BY FS_Union
<1>2. Cardinality(X \cap Y) = 0
  BY FS_EmptySet
<1> QED
  BY <1>1, <1>2, FS_CardinalityType

LEMMA UnsettledNext == ASSUME TypeOK', NEW s PROVE Unsettled(s)' \in Nat
<1> DEFINE A == {q \in Requests : Adding(q, s)'}
           bytes == [q \in A |-> req'[q].bytes]
<1>1. A \in SUBSET Requests /\ bytes \in [A -> Nat]
  BY DEF TypeOK, RequestStates
<1>2. UnsettledBytes(s)' = UNION {{q} \X (1 .. bytes[q]) : q \in A}
  BY DEF UnsettledBytes
<1> HIDE DEF A, bytes
<1>3. IsFiniteSet(UnsettledBytes(s)')
  BY <1>1, <1>2, BytesCount
<1> QED
  BY <1>3, FS_CardinalityType DEF Unsettled

\* The same requests add the same bytes.
SameAdding(s) ==
  \A q \in Requests : /\ Adding(q, s)' <=> Adding(q, s)
                      /\ Adding(q, s) => req'[q].bytes = req[q].bytes

LEMMA SameCount == ASSUME NEW s, SameAdding(s) PROVE Unsettled(s)' = Unsettled(s)
<1>1. UnsettledBytes(s)' = UnsettledBytes(s)
  <2>1. ASSUME NEW x PROVE x \in UnsettledBytes(s)' <=> x \in UnsettledBytes(s)
    <3>1. x \in UnsettledBytes(s)' <=>
            \E q \in Requests : Adding(q, s)' /\ x \in {q} \X (1 .. req'[q].bytes)
      BY DEF UnsettledBytes
    <3>2. x \in UnsettledBytes(s) <=>
            \E q \in Requests : Adding(q, s) /\ x \in {q} \X (1 .. req[q].bytes)
      BY DEF UnsettledBytes
    <3> QED BY <3>1, <3>2 DEF SameAdding
  <2> QED BY <2>1
<1> QED BY <1>1 DEF Unsettled

\* A request that was not adding is, and nothing else changes.
LEMMA EnterCount ==
  ASSUME TypeOK, TypeOK', NEW s, NEW r \in Requests, ~Adding(r, s), Adding(r, s)',
         \A q \in Requests \ {r} : req'[q] = req[q]
  PROVE  Unsettled(s)' = Unsettled(s) + req'[r].bytes
<1> DEFINE P == {r} \X (1 .. req'[r].bytes)
<1>1. \A q \in Requests \ {r} : Adding(q, s)' <=> Adding(q, s)
  BY DEF Adding, For
<1>2. UnsettledBytes(s)' = UnsettledBytes(s) \cup P
  <2>1. ASSUME NEW x PROVE x \in UnsettledBytes(s)' <=> x \in UnsettledBytes(s) \/ x \in P
    <3>1. x \in UnsettledBytes(s)' <=>
            \E q \in Requests : Adding(q, s)' /\ x \in {q} \X (1 .. req'[q].bytes)
      BY DEF UnsettledBytes
    <3>2. x \in UnsettledBytes(s) <=>
            \E q \in Requests : Adding(q, s) /\ x \in {q} \X (1 .. req[q].bytes)
      BY DEF UnsettledBytes
    <3> QED BY <1>1, <3>1, <3>2
  <2> QED BY <2>1
<1>3. UnsettledBytes(s) \cap P = {}
  <2>1. ASSUME NEW x \in UnsettledBytes(s), x \in P PROVE FALSE
    <3>1. PICK q \in Requests : Adding(q, s) /\ x \in {q} \X (1 .. req[q].bytes)
      BY DEF UnsettledBytes
    <3>2. x[1] = q /\ x[1] = r
      BY <2>1, <3>1
    <3> QED BY <3>1, <3>2
  <2> QED BY <2>1
<1>4. IsFiniteSet(P) /\ Cardinality(P) = req'[r].bytes
  BY PairCount DEF TypeOK, RequestStates
<1>5. IsFiniteSet(UnsettledBytes(s))
  BY UnsettledCount DEF TypeOK
<1> HIDE DEF P
<1> QED BY <1>2, <1>3, <1>4, <1>5, DisjointCount DEF Unsettled

\* A request that was adding no longer is, and nothing else changes.
LEMMA LeaveCount ==
  ASSUME TypeOK, TypeOK', NEW s, NEW r \in Requests, Adding(r, s), ~Adding(r, s)',
         \A q \in Requests \ {r} : req'[q] = req[q]
  PROVE  Unsettled(s) = Unsettled(s)' + req[r].bytes
<1> DEFINE P == {r} \X (1 .. req[r].bytes)
<1>1. \A q \in Requests \ {r} : Adding(q, s)' <=> Adding(q, s)
  BY DEF Adding, For
<1>2. UnsettledBytes(s) = UnsettledBytes(s)' \cup P
  <2>1. ASSUME NEW x PROVE x \in UnsettledBytes(s) <=> x \in UnsettledBytes(s)' \/ x \in P
    <3>1. x \in UnsettledBytes(s)' <=>
            \E q \in Requests : Adding(q, s)' /\ x \in {q} \X (1 .. req'[q].bytes)
      BY DEF UnsettledBytes
    <3>2. x \in UnsettledBytes(s) <=>
            \E q \in Requests : Adding(q, s) /\ x \in {q} \X (1 .. req[q].bytes)
      BY DEF UnsettledBytes
    <3> QED BY <1>1, <3>1, <3>2
  <2> QED BY <2>1
<1>3. UnsettledBytes(s)' \cap P = {}
  <2>1. ASSUME NEW x \in UnsettledBytes(s)', x \in P PROVE FALSE
    <3>1. PICK q \in Requests : Adding(q, s)' /\ x \in {q} \X (1 .. req'[q].bytes)
      BY DEF UnsettledBytes
    <3>2. x[1] = q /\ x[1] = r
      BY <2>1, <3>1
    <3> QED BY <3>1, <3>2
  <2> QED BY <2>1
<1>4. IsFiniteSet(P) /\ Cardinality(P) = req[r].bytes
  BY PairCount DEF TypeOK, RequestStates
<1>5. IsFiniteSet(UnsettledBytes(s)')
  <2>1. UnsettledBytes(s)' \in SUBSET UnsettledBytes(s)
    BY <1>2
  <2> QED BY <2>1, UnsettledCount, FS_Subset DEF TypeOK
<1> HIDE DEF P
<1> QED BY <1>2, <1>3, <1>4, <1>5, DisjointCount DEF Unsettled

-----------------------------------------------------------------------------
(* Steps that leave the ledger alone. *)

\* Only top-ups are at the steps of topupQuota.
AddsAtAddedPCs == \A r \in Requests : req[r].pc \in AddedPCs \cup {"add"} => req[r].op = "topup"

QuotaInv == TypeOK /\ AddsAtAddedPCs /\ QuotaConserved

QuotasKept == \A s \in Subs : row'[s].quota = row[s].quota

AddsKept == AddsAtAddedPCs' /\ \A s \in Subs : SameAdding(s)

Quiet == QuotasKept /\ AddsKept /\ UNCHANGED <<granted, unrefunded>>

LEMMA QuietKeeps == ASSUME QuotaInv, TypeOK', Quiet PROVE QuotaInv'
<1>1. \A s \in Subs : Unsettled(s)' = Unsettled(s)
  BY SameCount DEF Quiet, AddsKept
<1>2. QuotaConserved'
  BY <1>1 DEF QuotaInv, QuotaConserved, Quiet, QuotasKept
<1> QED BY <1>2 DEF QuotaInv, Quiet, AddsKept

\* Writes that are not about the quota.
LEMMA RowQuotas ==
  ASSUME NEW rw \in Rows
  PROVE  /\ \A n \in Nat : UsageUpdated(rw, n).quota = rw.quota
         /\ \A status \in Statuses : StatusUpdated(rw, status).quota = rw.quota
         /\ \A level \in Levels : Notified(rw, level).quota = rw.quota
         /\ \A n \in Nat : Renewed(rw, n).quota = rw.quota
  BY DEF Rows, UsageUpdated, StatusUpdated, Notified, Renewed

LEMMA WriteQuotas ==
  ASSUME TypeOK, NEW s \in Subs, NEW rw, rw.quota = row[s].quota, TryWrite(s, rw)
  PROVE  QuotasKept
  BY DEF TypeOK, TryWrite, Write, WriteFails, QuotasKept

LEMMA SameRows == UNCHANGED row => QuotasKept
  BY DEF QuotasKept

LEMMA SameRequests == ASSUME AddsAtAddedPCs, UNCHANGED req PROVE AddsKept
  BY DEF AddsAtAddedPCs, AddsKept, SameAdding, Adding, For

\* A request outside topupQuota that stays outside, or is about to begin one.
LEMMA Outside ==
  ASSUME AddsAtAddedPCs, NEW r \in Requests, \A q \in Requests \ {r} : req'[q] = req[q],
         req[r].pc \notin AddedPCs, req'[r].pc \notin AddedPCs,
         req'[r].pc = "add" => req'[r].op = "topup"
  PROVE  AddsKept
  BY DEF AddsAtAddedPCs, AddsKept, SameAdding, Adding, For

\* A request that goes on with its top-up.
LEMMA Onward ==
  ASSUME TypeOK, AddsAtAddedPCs, NEW r \in Requests, \A q \in Requests \ {r} : req'[q] = req[q],
         req[r].pc \in AddedPCs, req'[r].pc \in AddedPCs,
         req'[r].op = req[r].op, req'[r].subs = req[r].subs, req'[r].bytes = req[r].bytes
  PROVE  AddsKept
  BY DEF AddsAtAddedPCs, AddsKept, SameAdding, Adding, For

LEMMA OnwardGo ==
  ASSUME TypeOK, AddsAtAddedPCs, NEW r \in Requests, req[r].pc \in AddedPCs,
         NEW pc \in AddedPCs, Go(r, pc)
  PROVE  AddsKept
<1>1. /\ \A q \in Requests \ {r} : req'[q] = req[q]
      /\ req'[r] = [req[r] EXCEPT !.pc = pc] /\ req'[r].pc = pc
  BY OneRequest
<1>2. req'[r].op = req[r].op /\ req'[r].subs = req[r].subs /\ req'[r].bytes = req[r].bytes
  BY <1>1 DEF TypeOK, RequestStates
<1> QED BY <1>1, <1>2, Onward

\* The steps of the other handlers.
FarPCs == RequestPCs \ (AddedPCs \cup {"add"})

LEMMA OutsideGo ==
  ASSUME TypeOK, AddsAtAddedPCs, NEW r \in Requests, req[r].pc \notin AddedPCs,
         Answer(r) \/ \E pc \in FarPCs : Go(r, pc)
  PROVE  AddsKept
<1>1. \A q \in Requests \ {r} : req'[q] = req[q]
  BY OneRequest
<1>2. IdleRequest.pc = "idle"
  BY DEF IdleRequest
<1>3. req'[r].pc \notin AddedPCs \cup {"add"}
  BY <1>2, OneRequest DEF FarPCs, AddedPCs
<1> QED BY <1>1, <1>3, Outside

LEMMA Arriving ==
  ASSUME TypeOK, AddsAtAddedPCs, NEW r \in Requests, NEW state, Receive(r, state),
         state.pc \notin AddedPCs, state.pc = "add" => state.op = "topup"
  PROVE  Quiet
<1>1. req'[r] = state /\ \A q \in Requests \ {r} : req'[q] = req[q]
  BY DEF TypeOK, Receive
<1>2. req[r].pc \notin AddedPCs
  BY DEF Receive, At, AddedPCs
<1>3. AddsKept
  BY <1>1, <1>2, Outside
<1> QED BY <1>3, SameRows DEF Receive, Quiet, store, ledger

LEMMA ArriveIsQuiet ==
  ASSUME TypeOK, AddsAtAddedPCs, NEW r \in Requests, Arrive(r)
  PROVE  Quiet
<1>1. CASE ReceiveTopup(r)
  <2>1. PICK s \in Subs, bytes \in Amounts :
          Receive(r, [IdleRequest EXCEPT !.pc = "add", !.op = "topup", !.subs = {s},
                                         !.snap = row[s], !.bytes = bytes])
    BY <1>1 DEF ReceiveTopup
  <2>2. /\ [IdleRequest EXCEPT !.pc = "add", !.op = "topup", !.subs = {s},
                               !.snap = row[s], !.bytes = bytes].pc = "add"
        /\ [IdleRequest EXCEPT !.pc = "add", !.op = "topup", !.subs = {s},
                               !.snap = row[s], !.bytes = bytes].op = "topup"
    BY DEF IdleRequest
  <2> QED BY <2>1, <2>2, Arriving DEF AddedPCs
<1>2. CASE ReceiveRenew(r)
  <2>1. PICK s \in Subs, days \in RenewDays :
          Receive(r, [IdleRequest EXCEPT !.pc = "reset", !.op = "renew", !.subs = {s},
                                         !.snap = row[s], !.endAt = now + days])
    BY <1>2 DEF ReceiveRenew
  <2>2. [IdleRequest EXCEPT !.pc = "reset", !.op = "renew", !.subs = {s},
                            !.snap = row[s], !.endAt = now + days].pc = "reset"
    BY DEF IdleRequest
  <2> QED BY <2>1, <2>2, Arriving DEF AddedPCs
<1>3. CASE ReceiveLifecycle(r)
  <2>1. PICK op \in Ops \cap {"suspend", "resume"}, s \in Subs :
          Receive(r, [IdleRequest EXCEPT !.pc = "switch", !.op = op, !.subs = {s}])
    BY <1>3 DEF ReceiveLifecycle
  <2>2. [IdleRequest EXCEPT !.pc = "switch", !.op = op, !.subs = {s}].pc = "switch"
    BY DEF IdleRequest
  <2> QED BY <2>1, <2>2, Arriving DEF AddedPCs
<1>4. CASE ReceiveToggle(r)
  <2>1. PICK op \in Ops \cap {"disable", "enable"}, todo \in SUBSET Subs :
          Receive(r, [IdleRequest EXCEPT !.pc = "toggle", !.op = op, !.todo = todo])
    BY <1>4 DEF ReceiveToggle
  <2>2. [IdleRequest EXCEPT !.pc = "toggle", !.op = op, !.todo = todo].pc = "toggle"
    BY DEF IdleRequest
  <2> QED BY <2>1, <2>2, Arriving DEF AddedPCs
<1> QED BY <1>1, <1>2, <1>3, <1>4 DEF Arrive

\* The steps of the other handlers, and of top-ups between the write and the end.
LEMMA OtherHandlers ==
  ASSUME TypeOK, AddsAtAddedPCs, NEW r \in Requests,
         TopupSetQuota(r) \/ TopupResume(r) \/ TopupActivate(r) \/ Renew(r) \/ Lifecycle(r) \/ Toggle(r)
  PROVE  Quiet
<1>1. CASE TopupSetQuota(r)
  <2>1. req[r].pc \in AddedPCs /\ \E pc \in AddedPCs : Go(r, pc)
    BY <1>1 DEF TopupSetQuota, At, AddedPCs
  <2> QED BY <1>1, <2>1, OnwardGo, SameRows DEF TopupSetQuota, Quiet, store, ledger
<1>2. CASE TopupResume(r)
  <2>1. req[r].pc \in AddedPCs /\ \E pc \in AddedPCs : Go(r, pc)
    BY <1>2 DEF TopupResume, At, AddedPCs
  <2> QED BY <1>2, <2>1, OnwardGo, SameRows DEF TopupResume, Quiet, store, ledger
<1>3. CASE TopupActivate(r)
  <2>1. req[r].pc \in AddedPCs /\ \E pc \in AddedPCs : Go(r, pc)
    BY <1>3 DEF TopupActivate, At, AddedPCs
  <2>2. PICK s \in Subs : TryWrite(s, StatusUpdated(row[s], "active"))
    BY <1>3 DEF TopupActivate
  <2>3. StatusUpdated(row[s], "active").quota = row[s].quota
    BY RowQuotas DEF TypeOK, Statuses
  <2>4. QuotasKept
    BY <2>2, <2>3, WriteQuotas
  <2> QED BY <1>3, <2>1, <2>4, OnwardGo DEF TopupActivate, Quiet, ledger
<1>4. CASE RenewReset(r)
  <2>1. req[r].pc \notin AddedPCs /\ (Answer(r) \/ \E pc \in FarPCs : Go(r, pc))
    BY <1>4 DEF RenewReset, At, AddedPCs, FarPCs, RequestPCs
  <2> QED BY <1>4, <2>1, OutsideGo, SameRows DEF RenewReset, Quiet, store, ledger
<1>5. CASE RenewSetQuota(r)
  <2>1. req[r].pc \notin AddedPCs /\ (Answer(r) \/ \E pc \in FarPCs : Go(r, pc))
    BY <1>5 DEF RenewSetQuota, At, AddedPCs, FarPCs, RequestPCs
  <2> QED BY <1>5, <2>1, OutsideGo, SameRows DEF RenewSetQuota, Quiet, store, ledger
<1>6. CASE RenewStore(r)
  <2>1. req[r].pc \notin AddedPCs /\ Answer(r)
    BY <1>6 DEF RenewStore, At, AddedPCs
  <2>2. PICK s \in Subs : TryWrite(s, Renewed(row[s], req[r].endAt))
    BY <1>6 DEF RenewStore
  <2>3. Renewed(row[s], req[r].endAt).quota = row[s].quota
    BY RowQuotas DEF TypeOK, RequestStates
  <2>4. QuotasKept
    BY <2>2, <2>3, WriteQuotas
  <2> QED BY <1>6, <2>1, <2>4, OutsideGo DEF RenewStore, Quiet, ledger
<1>7. CASE LifecycleCall(r)
  <2>1. req[r].pc \notin AddedPCs /\ (Answer(r) \/ \E pc \in FarPCs : Go(r, pc))
    BY <1>7 DEF LifecycleCall, At, AddedPCs, FarPCs, RequestPCs
  <2> QED BY <1>7, <2>1, OutsideGo, SameRows DEF LifecycleCall, Quiet, store, ledger
<1>8. CASE LifecycleStore(r)
  <2>1. req[r].pc \notin AddedPCs /\ (Answer(r) \/ \E pc \in FarPCs : Go(r, pc))
    BY <1>8 DEF LifecycleStore, At, AddedPCs, FarPCs, RequestPCs
  <2>2. PICK s \in Subs : TryWrite(s, StatusUpdated(row[s], TargetStatus(req[r].op)))
    BY <1>8 DEF LifecycleStore, TryWrite
  <2>3. StatusUpdated(row[s], TargetStatus(req[r].op)).quota = row[s].quota
    BY RowQuotas DEF TypeOK, TargetStatus, Statuses
  <2>4. QuotasKept
    BY <2>2, <2>3, WriteQuotas
  <2> QED BY <1>8, <2>1, <2>4, OutsideGo DEF LifecycleStore, Quiet, ledger
<1>9. CASE LifecycleTell(r)
  <2>1. req[r].pc \notin AddedPCs /\ Answer(r)
    BY <1>9 DEF LifecycleTell, At, AddedPCs
  <2> QED BY <1>9, <2>1, OutsideGo, SameRows DEF LifecycleTell, Quiet, store, ledger
<1>10. CASE ToggleCall(r)
  <2>1. /\ req[r].pc \notin AddedPCs /\ req'[r].pc = "mirror"
        /\ \A q \in Requests \ {r} : req'[q] = req[q]
    BY <1>10 DEF TypeOK, ToggleCall, At, RequestStates, AddedPCs
  <2>2. AddsKept
    BY <2>1, Outside DEF AddedPCs
  <2> QED BY <1>10, <2>2, SameRows DEF ToggleCall, Quiet, store, ledger
<1>11. CASE ToggleSkip(r)
  <2>1. /\ req[r].pc \notin AddedPCs /\ req'[r].pc = "toggle"
        /\ \A q \in Requests \ {r} : req'[q] = req[q]
    BY <1>11 DEF TypeOK, ToggleSkip, At, RequestStates, AddedPCs
  <2>2. AddsKept
    BY <2>1, Outside DEF AddedPCs
  <2> QED BY <1>11, <2>2, SameRows DEF ToggleSkip, Quiet, store, ledger
<1>12. CASE ToggleStore(r)
  <2>1. /\ req[r].pc \notin AddedPCs /\ req'[r].pc = "toggle"
        /\ \A q \in Requests \ {r} : req'[q] = req[q]
    BY <1>12 DEF TypeOK, ToggleStore, At, RequestStates, AddedPCs
  <2>2. AddsKept
    BY <2>1, Outside DEF AddedPCs
  <2>3. PICK s \in Subs : TryWrite(s, StatusUpdated(row[s], TargetStatus(req[r].op)))
    BY <1>12 DEF ToggleStore
  <2>4. StatusUpdated(row[s], TargetStatus(req[r].op)).quota = row[s].quota
    BY RowQuotas DEF TypeOK, TargetStatus, Statuses
  <2>5. QuotasKept
    BY <2>3, <2>4, WriteQuotas
  <2> QED BY <1>12, <2>2, <2>5 DEF ToggleStore, Quiet, ledger
<1>13. CASE ToggleCustomer(r)
  <2>1. req[r].pc \notin AddedPCs /\ Answer(r)
    BY <1>13 DEF ToggleCustomer, At, AddedPCs
  <2> QED BY <1>13, <2>1, OutsideGo, SameRows DEF ToggleCustomer, Quiet, ledger
<1> QED
  BY <1>1, <1>2, <1>3, <1>4, <1>5, <1>6, <1>7, <1>8, <1>9, <1>10, <1>11, <1>12, <1>13
  DEF Renew, Lifecycle, Toggle

\* The collector, the node, the network and the clock.
LEMMA Elsewhere ==
  ASSUME TypeOK, AddsAtAddedPCs,
         \/ Collect
         \/ \E s \in Subs : Traffic(s) \/ Enforce(s)
         \/ ServeLate \/ Tick \/ UNCHANGED vars
  PROVE  Quiet
<1>1. CASE CollectList \/ CollectPoll \/ CollectSample \/ CollectNotice \/ CollectTell
  BY <1>1, SameRows, SameRequests
  DEF CollectList, CollectPoll, CollectSample, CollectNotice, CollectTell, Quiet, store, ledger
<1>2. CASE CollectUsage
  <2>1. PICK s \in Subs : TryWrite(s, UsageUpdated(row[s], coll.view.used))
    BY <1>2 DEF CollectUsage
  <2>2. UsageUpdated(row[s], coll.view.used).quota = row[s].quota
    BY RowQuotas DEF TypeOK, CollectorStates, Views
  <2>3. QuotasKept
    BY <2>1, <2>2, WriteQuotas
  <2> QED BY <1>2, <2>3, SameRequests DEF CollectUsage, Quiet, ledger
<1>3. CASE CollectMark
  <2>1. PICK s \in Subs : TryWrite(s, Notified(row[s], PolledLevel(s)))
    BY <1>3 DEF CollectMark
  <2>2. Notified(row[s], PolledLevel(s)).quota = row[s].quota
    BY RowQuotas, LevelType DEF TypeOK, PolledLevel
  <2>3. QuotasKept
    BY <2>1, <2>2, WriteQuotas
  <2> QED BY <1>3, <2>3, SameRequests DEF CollectMark, Quiet, ledger
<1>4. CASE CollectStatus
  <2>1. PICK s \in Subs : TryWrite(s, StatusUpdated(row[s], coll.view.status)) \/ UNCHANGED row
    BY <1>4 DEF CollectStatus
  <2>2. StatusUpdated(row[s], coll.view.status).quota = row[s].quota
    BY RowQuotas DEF TypeOK, CollectorStates, Views
  <2>3. QuotasKept
    BY <2>1, <2>2, WriteQuotas, SameRows
  <2> QED BY <1>4, <2>3, SameRequests DEF CollectStatus, Quiet, ledger
<1>5. CASE \E s \in Subs : Traffic(s) \/ Enforce(s)
  BY <1>5, SameRows, SameRequests DEF Traffic, Enforce, Quiet, store, ledger
<1>6. CASE ServeLate
  BY <1>6, SameRows, SameRequests DEF ServeLate, Quiet, store, ledger
<1>7. CASE Tick
  BY <1>7, SameRows, SameRequests DEF Tick, Quiet, store, ledger
<1>8. CASE UNCHANGED vars
  BY <1>8, SameRows, SameRequests DEF vars, Quiet
<1> QED
  BY <1>1, <1>2, <1>3, <1>4, <1>5, <1>6, <1>7, <1>8 DEF Collect

-----------------------------------------------------------------------------
(* The steps that move bytes in the ledger. *)

\* The other subscriptions, whatever request r does for s.
LEMMA OthersCount ==
  ASSUME TypeOK, NEW r \in Requests, NEW s \in Subs, For(r, s),
         \A q \in Requests \ {r} : req'[q] = req[q],
         \/ req'[r].subs = {s} \/ req'[r].subs = {}
  PROVE  \A t \in Subs \ {s} : Unsettled(t)' = Unsettled(t)
<1>1. ASSUME NEW t \in Subs \ {s} PROVE SameAdding(t)
  <2>1. ASSUME NEW q \in Requests \ {r}
        PROVE  (Adding(q, t)' <=> Adding(q, t)) /\ req'[q].bytes = req[q].bytes
    BY <2>1 DEF Adding, For
  <2>2. {s} # {t} /\ {} # {t}
    BY <1>1
  <2>3. ~Adding(r, t) /\ ~Adding(r, t)'
    BY <2>2 DEF Adding, For
  <2> QED BY <2>1, <2>3 DEF SameAdding
<1> QED BY <1>1, SameCount

\* The UPDATE of a top-up: the bytes are in the row and to be settled.
LEMMA AddKeeps == ASSUME QuotaInv, TypeOK', NEW r \in Requests, TopupAdd(r) PROVE QuotaInv'
<1>1. PICK s \in Subs :
        /\ For(r, s)
        /\ \/ Write(s, QuotaAdded(row[s], req[r].bytes)) /\ Go(r, "read")
           \/ WriteFails /\ Answer(r)
  BY DEF TopupAdd
<1>2. TypeOK /\ AddsAtAddedPCs /\ QuotaConserved
  BY DEF QuotaInv
<1>3. req[r].pc = "add" /\ req[r].op = "topup"
  BY <1>2 DEF TopupAdd, At, AddsAtAddedPCs
<1>4. UNCHANGED <<granted, unrefunded>>
  BY DEF TopupAdd, ledger
<1>5. CASE WriteFails /\ Answer(r)
  <2>1. AddsKept
    BY <1>2, <1>3, <1>5, OutsideGo DEF AddedPCs
  <2> QED BY <1>4, <1>5, <2>1, SameRows, QuietKeeps DEF WriteFails, Quiet
<1>6. CASE Write(s, QuotaAdded(row[s], req[r].bytes)) /\ Go(r, "read")
  <2>1. /\ \A q \in Requests \ {r} : req'[q] = req[q]
        /\ req'[r] = [req[r] EXCEPT !.pc = "read"] /\ req'[r].pc = "read"
    BY <1>2, <1>6, OneRequest
  <2>2. req'[r].op = "topup" /\ req'[r].subs = {s} /\ req'[r].bytes = req[r].bytes
    BY <1>1, <1>2, <1>3, <2>1 DEF TypeOK, RequestStates, For
  <2>3. Unsettled(s)' = Unsettled(s) + req[r].bytes
    <3>1. ~Adding(r, s) /\ Adding(r, s)'
      BY <1>3, <2>1, <2>2 DEF Adding, AddedPCs, For
    <3>2. TypeOK
      BY <1>2
    <3>3. \A q \in Requests \ {r} : req'[q] = req[q]
      BY <2>1
    <3>4. Unsettled(s)' = Unsettled(s) + req'[r].bytes
      BY <3>1, <3>2, <3>3, EnterCount
    <3> QED BY <2>2, <3>4
  <2>4. \A t \in Subs \ {s} : Unsettled(t)' = Unsettled(t)
    BY <1>1, <1>2, <2>1, <2>2, OthersCount
  <2>5. /\ row'[s].quota = row[s].quota + req[r].bytes
        /\ \A t \in Subs \ {s} : row'[t] = row[t]
    <3>1. QuotaAdded(row[s], req[r].bytes).quota = row[s].quota + req[r].bytes
      BY <1>2 DEF TypeOK, Rows, QuotaAdded
    <3> QED BY <1>2, <1>6, <3>1 DEF TypeOK, Write
  <2>6. ASSUME NEW t \in Subs
        PROVE  row'[t].quota = BaseQuota + granted'[t] + unrefunded'[t] + Unsettled(t)'
    <3>1. row[t].quota = BaseQuota + granted[t] + unrefunded[t] + Unsettled(t)
      BY <1>2 DEF QuotaConserved
    <3>2. /\ granted[t] \in Nat /\ unrefunded[t] \in Nat /\ req[r].bytes \in Nat
          /\ BaseQuota \in Nat
      BY <1>2, SizesAssumption DEF TypeOK, RequestStates, SizesAssumption
    <3>3. Unsettled(t) \in Nat
      BY <1>2, UnsettledCount DEF TypeOK
    <3> QED BY <1>4, <2>3, <2>4, <2>5, <3>1, <3>2, <3>3
  <2>7. AddsAtAddedPCs'
    BY <1>2, <2>1, <2>2 DEF AddsAtAddedPCs
  <2> QED BY <2>6, <2>7 DEF QuotaInv, QuotaConserved
<1> QED BY <1>1, <1>5, <1>6

\* A top-up ends: its bytes were sold, are owed, or are taken back.
LEMMA EndKeeps ==
  ASSUME QuotaInv, TypeOK', NEW r \in Requests, NEW s \in Subs, For(r, s),
         req[r].pc \in AddedPCs, Answer(r),
         \A t \in Subs \ {s} : /\ row'[t].quota = row[t].quota
                              /\ granted'[t] = granted[t] /\ unrefunded'[t] = unrefunded[t],
         row'[s].quota - granted'[s] - unrefunded'[s]
           = row[s].quota - granted[s] - unrefunded[s] - req[r].bytes
  PROVE  QuotaInv'
<1>1. TypeOK /\ AddsAtAddedPCs /\ QuotaConserved
  BY DEF QuotaInv
<1>2. req'[r] = IdleRequest /\ \A q \in Requests \ {r} : req'[q] = req[q]
  BY <1>1, OneRequest
<1>3. req'[r].pc = "idle" /\ req'[r].subs = {}
  BY <1>2 DEF IdleRequest
<1>4. Adding(r, s) /\ ~Adding(r, s)'
  BY <1>1, <1>3 DEF Adding, AddsAtAddedPCs, AddedPCs
<1>5. Unsettled(s) = Unsettled(s)' + req[r].bytes
  BY <1>1, <1>2, <1>4, LeaveCount
<1>6. \A t \in Subs \ {s} : Unsettled(t)' = Unsettled(t)
  BY <1>1, <1>2, <1>3, OthersCount
<1>7. ASSUME NEW t \in Subs
      PROVE  row'[t].quota = BaseQuota + granted'[t] + unrefunded'[t] + Unsettled(t)'
  <2>1. row[t].quota = BaseQuota + granted[t] + unrefunded[t] + Unsettled(t)
    BY <1>1 DEF QuotaConserved
  <2>2. /\ granted[t] \in Nat /\ unrefunded[t] \in Nat /\ row[t].quota \in Nat
        /\ req[r].bytes \in Nat /\ BaseQuota \in Nat
    BY <1>1, SizesAssumption DEF TypeOK, RequestStates, Rows, SizesAssumption
  <2>3. granted'[t] \in Nat /\ unrefunded'[t] \in Nat /\ row'[t].quota \in Nat
    BY DEF TypeOK, Rows
  <2>4. Unsettled(t) \in Nat
    BY <1>1, UnsettledCount DEF TypeOK
  <2>5. Unsettled(t)' \in Nat
    BY UnsettledNext
  <2>6. CASE t = s
    BY <1>5, <2>1, <2>2, <2>3, <2>4, <2>5, <2>6
  <2>7. CASE t # s
    BY <1>6, <2>1, <2>7
  <2> QED BY <2>6, <2>7
<1>8. AddsAtAddedPCs'
  BY <1>1, <1>2, <1>3 DEF AddsAtAddedPCs, AddedPCs
<1> QED BY <1>7, <1>8 DEF QuotaInv, QuotaConserved

\* The read after the UPDATE: on an error the bytes stay in the row, unsold.
LEMMA ReadKeeps == ASSUME QuotaInv, TypeOK', NEW r \in Requests, TopupRead(r) PROVE QuotaInv'
<1>1. PICK s \in Subs :
        /\ For(r, s)
        /\ \/ /\ req' = [req EXCEPT ![r].pc = "set", ![r].quota = row[s].quota]
              /\ UNCHANGED unrefunded
           \/ /\ Answer(r)
              /\ unrefunded' = [unrefunded EXCEPT ![s] = @ + req[r].bytes]
  BY DEF TopupRead
<1>2. /\ TypeOK /\ AddsAtAddedPCs /\ req[r].pc \in AddedPCs
      /\ UNCHANGED <<row, granted>>
  BY DEF QuotaInv, TopupRead, At, AddedPCs, store
<1>3. CASE /\ req' = [req EXCEPT ![r].pc = "set", ![r].quota = row[s].quota]
           /\ UNCHANGED unrefunded
  <2>1. \A q \in Requests \ {r} : req'[q] = req[q]
    BY <1>2, <1>3 DEF TypeOK
  <2>2. /\ req'[r].pc = "set" /\ req'[r].op = req[r].op
        /\ req'[r].subs = req[r].subs /\ req'[r].bytes = req[r].bytes
    BY <1>2, <1>3 DEF TypeOK, RequestStates
  <2>3. AddsKept
    BY <1>2, <2>1, <2>2, Onward DEF AddedPCs
  <2> QED BY <1>2, <1>3, <2>3, SameRows, QuietKeeps DEF Quiet
<1>4. CASE /\ Answer(r)
           /\ unrefunded' = [unrefunded EXCEPT ![s] = @ + req[r].bytes]
  <2>1. /\ unrefunded'[s] = unrefunded[s] + req[r].bytes
        /\ \A t \in Subs \ {s} : unrefunded'[t] = unrefunded[t]
    BY <1>2, <1>4 DEF TypeOK
  <2>2. /\ row[s].quota \in Nat /\ granted[s] \in Nat /\ unrefunded[s] \in Nat
        /\ req[r].bytes \in Nat
    BY <1>2 DEF TypeOK, Rows, RequestStates
  <2>3. row'[s].quota - granted'[s] - unrefunded'[s]
          = row[s].quota - granted[s] - unrefunded[s] - req[r].bytes
    BY <1>2, <2>1, <2>2
  <2> QED BY <1>1, <1>2, <1>4, <2>1, <2>3, EndKeeps
<1> QED BY <1>1, <1>3, <1>4

\* The undo of a top-up the node never heard of: MAX(0, ...) never cuts, since
\* the row holds at least the bytes of the top-ups in progress.
LEMMA UndoKeeps == ASSUME QuotaInv, TypeOK', NEW r \in Requests, TopupUndo(r) PROVE QuotaInv'
<1>1. PICK s \in Subs :
        /\ For(r, s)
        /\ \/ Write(s, QuotaUndone(row[s], req[r].bytes)) /\ UNCHANGED unrefunded
           \/ UNCHANGED row /\ unrefunded' = [unrefunded EXCEPT ![s] = @ + req[r].bytes]
  BY DEF TopupUndo, WriteFails
<1>2. /\ TypeOK /\ AddsAtAddedPCs /\ QuotaConserved /\ req[r].pc \in AddedPCs
      /\ Answer(r) /\ UNCHANGED granted
  BY DEF QuotaInv, TopupUndo, At, AddedPCs
<1>3. /\ row[s].quota \in Nat /\ granted[s] \in Nat /\ unrefunded[s] \in Nat
      /\ req[r].bytes \in Nat
  BY <1>2 DEF TypeOK, Rows, RequestStates
<1>4. CASE Write(s, QuotaUndone(row[s], req[r].bytes)) /\ UNCHANGED unrefunded
  <2>1. row[s].quota >= req[r].bytes
    <3>1. req'[r].pc = "idle" /\ \A q \in Requests \ {r} : req'[q] = req[q]
      BY <1>2, OneRequest DEF IdleRequest
    <3>2. Adding(r, s) /\ ~Adding(r, s)'
      BY <1>1, <1>2, <3>1 DEF Adding, AddsAtAddedPCs, AddedPCs
    <3>3. TypeOK
      BY <1>2
    <3>4. Unsettled(s) = Unsettled(s)' + req[r].bytes
      BY <3>1, <3>2, <3>3, LeaveCount
    <3>5. Unsettled(s)' \in Nat
      BY UnsettledNext
    <3>6. row[s].quota = BaseQuota + granted[s] + unrefunded[s] + Unsettled(s)
      BY <1>2 DEF QuotaConserved
    <3>7. BaseQuota \in Nat
      BY SizesAssumption DEF SizesAssumption
    <3> QED BY <1>3, <3>4, <3>5, <3>6, <3>7
  <2>2. QuotaUndone(row[s], req[r].bytes).quota = row[s].quota - req[r].bytes
    BY <1>2, <2>1 DEF TypeOK, Rows, QuotaUndone
  <2>3. /\ row'[s].quota = row[s].quota - req[r].bytes
        /\ \A t \in Subs \ {s} : row'[t] = row[t]
    BY <1>2, <1>4, <2>2 DEF TypeOK, Write
  <2>4. row'[s].quota - granted'[s] - unrefunded'[s]
          = row[s].quota - granted[s] - unrefunded[s] - req[r].bytes
    BY <1>2, <1>3, <1>4, <2>3
  <2> QED BY <1>1, <1>2, <1>4, <2>3, <2>4, EndKeeps
<1>5. CASE UNCHANGED row /\ unrefunded' = [unrefunded EXCEPT ![s] = @ + req[r].bytes]
  <2>1. /\ unrefunded'[s] = unrefunded[s] + req[r].bytes
        /\ \A t \in Subs \ {s} : unrefunded'[t] = unrefunded[t]
    BY <1>2, <1>5 DEF TypeOK
  <2>2. row'[s].quota - granted'[s] - unrefunded'[s]
          = row[s].quota - granted[s] - unrefunded[s] - req[r].bytes
    BY <1>2, <1>3, <1>5, <2>1
  <2> QED BY <1>1, <1>2, <1>5, <2>1, <2>2, EndKeeps
<1> QED BY <1>1, <1>4, <1>5

\* The last write of a top-up: the bytes are sold.
LEMMA RearmKeeps == ASSUME QuotaInv, TypeOK', NEW r \in Requests, TopupRearm(r) PROVE QuotaInv'
<1>1. PICK s \in Subs :
        /\ For(r, s)
        /\ TryWrite(s, Notified(row[s], ThresholdLevel(req[r].snap.used, req[r].quota)))
        /\ granted' = [granted EXCEPT ![s] = @ + req[r].bytes]
  BY DEF TopupRearm
<1>2. TypeOK /\ req[r].pc \in AddedPCs /\ Answer(r) /\ UNCHANGED unrefunded
  BY DEF QuotaInv, TopupRearm, At, AddedPCs
<1>3. QuotasKept
  <2>1. Notified(row[s], ThresholdLevel(req[r].snap.used, req[r].quota)).quota = row[s].quota
    BY <1>2, RowQuotas, LevelType DEF TypeOK
  <2> QED BY <1>1, <1>2, <2>1, WriteQuotas
<1>4. /\ granted'[s] = granted[s] + req[r].bytes
      /\ \A t \in Subs \ {s} : granted'[t] = granted[t]
  BY <1>1, <1>2 DEF TypeOK
<1>5. /\ row[s].quota \in Nat /\ granted[s] \in Nat /\ unrefunded[s] \in Nat
      /\ req[r].bytes \in Nat
  BY <1>2 DEF TypeOK, Rows, RequestStates
<1>6. row'[s].quota - granted'[s] - unrefunded'[s]
        = row[s].quota - granted[s] - unrefunded[s] - req[r].bytes
  BY <1>2, <1>3, <1>4, <1>5 DEF QuotasKept
<1> QED BY <1>1, <1>2, <1>3, <1>4, <1>6, EndKeeps DEF QuotasKept

\* A restart leaves the bytes of the top-ups in progress in the rows.
LEMMA CrashKeeps == ASSUME QuotaInv, TypeOK', Crash PROVE QuotaInv'
<1>1. /\ TypeOK /\ QuotaConserved /\ UNCHANGED <<row, granted>>
      /\ \A r \in Requests : req'[r].pc = "idle"
      /\ \A s \in Subs : unrefunded'[s] = unrefunded[s] + Unsettled(s)
  BY DEF QuotaInv, Crash, IdleRequest, store
<1>2. \A s \in Subs : Unsettled(s)' = 0
  <2>1. ASSUME NEW s \in Subs PROVE UnsettledBytes(s)' = {}
    BY <1>1 DEF UnsettledBytes, Adding, AddedPCs
  <2> QED BY <2>1, FS_EmptySet DEF Unsettled
<1>3. ASSUME NEW s \in Subs
      PROVE  row'[s].quota = BaseQuota + granted'[s] + unrefunded'[s] + Unsettled(s)'
  <2>1. row[s].quota = BaseQuota + granted[s] + unrefunded[s] + Unsettled(s)
    BY <1>1 DEF QuotaConserved
  <2>2. granted[s] \in Nat /\ unrefunded[s] \in Nat /\ BaseQuota \in Nat
    BY <1>1, SizesAssumption DEF TypeOK, SizesAssumption
  <2>3. Unsettled(s) \in Nat
    BY <1>1, UnsettledCount DEF TypeOK
  <2> QED BY <1>1, <1>2, <2>1, <2>2, <2>3
<1>4. AddsAtAddedPCs'
  BY <1>1 DEF AddsAtAddedPCs, AddedPCs
<1> QED BY <1>3, <1>4 DEF QuotaInv, QuotaConserved

-----------------------------------------------------------------------------
(* The invariant. *)

LEMMA InitQuota == Init => QuotaInv
<1> SUFFICES ASSUME Init PROVE QuotaInv
  OBVIOUS
<1>1. TypeOK
  BY InitTypes
<1>2. \A r \in Requests : req[r].pc = "idle"
  BY DEF Init, IdleRequest
<1>3. \A s \in Subs : Unsettled(s) = 0
  <2>1. ASSUME NEW s \in Subs PROVE UnsettledBytes(s) = {}
    BY <1>2 DEF UnsettledBytes, Adding, AddedPCs
  <2> QED BY <2>1, FS_EmptySet DEF Unsettled
<1>4. \A s \in Subs : row[s].quota = BaseQuota /\ granted[s] = 0 /\ unrefunded[s] = 0
  BY DEF Init, NewRow
<1>5. BaseQuota \in Nat
  BY SizesAssumption DEF SizesAssumption
<1>6. QuotaConserved
  BY <1>3, <1>4, <1>5 DEF QuotaConserved
<1> QED BY <1>1, <1>2, <1>6 DEF QuotaInv, AddsAtAddedPCs, AddedPCs

LEMMA NextQuota == QuotaInv /\ [Next]_vars => QuotaInv'
<1> SUFFICES ASSUME QuotaInv, [Next]_vars PROVE QuotaInv'
  OBVIOUS
<1>1. TypeOK /\ AddsAtAddedPCs
  BY DEF QuotaInv
<1>2. TypeOK'
  BY <1>1, NextTypes
<1>3. ASSUME NEW r \in Requests, Arrive(r) PROVE QuotaInv'
  BY <1>1, <1>2, <1>3, ArriveIsQuiet, QuietKeeps
<1>4. ASSUME NEW r \in Requests, Handle(r) PROVE QuotaInv'
  <2>1. CASE TopupAdd(r) \/ TopupRead(r) \/ TopupUndo(r) \/ TopupRearm(r)
    BY <1>2, <2>1, AddKeeps, ReadKeeps, UndoKeeps, RearmKeeps
  <2>2. CASE TopupSetQuota(r) \/ TopupResume(r) \/ TopupActivate(r) \/ Renew(r) \/ Lifecycle(r) \/ Toggle(r)
    <3>1. Quiet
      BY <1>1, <2>2, OtherHandlers
    <3> QED BY <1>2, <3>1, QuietKeeps
  <2> QED BY <1>4, <2>1, <2>2 DEF Handle, Topup
<1>5. CASE \/ Collect
           \/ \E s \in Subs : Traffic(s) \/ Enforce(s)
           \/ ServeLate \/ Tick \/ UNCHANGED vars
  <2>1. Quiet
    BY <1>1, <1>5, Elsewhere
  <2> QED BY <1>2, <2>1, QuietKeeps
<1>6. CASE Crash
  BY <1>2, <1>6, CrashKeeps
<1> QED BY <1>3, <1>4, <1>5, <1>6 DEF Next

\* However many top-ups, undos, renewals and restarts overlap, the quota column
\* is the plan's quota, the bytes sold, and the bytes of top-ups in progress or
\* abandoned half way: AddSubscriptionQuota's single UPDATE loses no purchase,
\* and topupQuota's rollback takes back its own bytes and nobody else's.
THEOREM QuotaIsConserved == Spec => []QuotaConserved
<1>1. Init => QuotaInv
  BY InitQuota
<1>2. QuotaInv /\ [Next]_vars => QuotaInv'
  BY NextQuota
<1>3. QuotaInv => QuotaConserved
  BY DEF QuotaInv
<1> QED BY <1>1, <1>2, <1>3, PTL DEF Spec

-----------------------------------------------------------------------------
(* No two requests at one subscription. *)

\* No statement fails, and no call but the node refuses it.
Calmly == Faults \subseteq {"refused"} /\ ~StoreFaults

-----------------------------------------------------------------------------
(* Quota and expiry. *)

\* What a request knows of s at the steps where row and node may differ, or will.
Knows(r, s) ==
  /\ req[r].pc \in {"add", "read", "set", "undo"} => req[r].snap.endAt = row[s].endAt
  /\ req[r].pc \in {"read", "set", "undo"} => row[s].quota = tenant[s].quota + req[r].bytes
  /\ At(r, "set") => req[r].quota = row[s].quota
  /\ req[r].pc \in {"reset", "extend"} => req[r].snap.quota = row[s].quota
  /\ At(r, "store") => tenant[s].expire = req[r].endAt

\* Where no top-up waits for the node, it grants the row's quota.
QuotaGiven(s) ==
  \/ tenant[s].quota = row[s].quota
  \/ \E r \in Requests : For(r, s) /\ req[r].pc \in {"read", "set", "undo"}

\* Where no renewal waits to be stored, it enforces the row's expiry.
ExpiryGiven(s) ==
  \/ tenant[s].expire = row[s].endAt
  \/ \E r \in Requests : For(r, s) /\ At(r, "store")

DeliveryAt(s) ==
  /\ wire = {}
  /\ \A r \in Requests : For(r, s) => Knows(r, s)
  /\ QuotaGiven(s) /\ ExpiryGiven(s)

DeliveryInv == \A s \in Subs : DeliveryAt(s)

LEMMA Refused == ASSUME Calmly, NEW c, Failed(c) PROVE UNCHANGED <<tenant, wire>>
BY DEF Calmly, Failed

LEMMA Written == ASSUME Calmly, NEW s, NEW rw, TryWrite(s, rw) PROVE Write(s, rw)
BY DEF Calmly, TryWrite, WriteFails

\* A handler that goes on keeps what it knows.
LEMMA GoesOn ==
  ASSUME TypeOK, NEW r \in Requests, NEW pc, Go(r, pc)
  PROVE  /\ req'[r].pc = pc /\ req'[r].op = req[r].op /\ req'[r].subs = req[r].subs
         /\ req'[r].snap = req[r].snap /\ req'[r].bytes = req[r].bytes
         /\ req'[r].quota = req[r].quota /\ req'[r].endAt = req[r].endAt
<1>1. req[r] \in RequestStates /\ req'[r] = [req[r] EXCEPT !.pc = pc]
  BY OneRequest DEF TypeOK
<1> QED BY <1>1 DEF RequestStates

LEMMA Answers ==
  ASSUME TypeOK, NEW r \in Requests, Answer(r) PROVE req'[r].pc = "idle" /\ req'[r].subs = {}
BY OneRequest DEF IdleRequest

\* A step of a handler leaves the other handlers alone.
LEMMA HandlesAlone ==
  ASSUME TypeOK, NEW r \in Requests, Handle(r)
  PROVE  \A q \in Requests \ {r} : req'[q] = req[q]
<1>1. CASE Topup(r)
  BY <1>1, OneRequest DEF TypeOK, Topup, TopupAdd, TopupRead, TopupSetQuota, TopupUndo, TopupResume,
                          TopupActivate, TopupRearm
<1>2. CASE Renew(r) \/ Lifecycle(r)
  BY <1>2, OneRequest DEF Renew, RenewReset, RenewSetQuota, RenewStore, Lifecycle, LifecycleCall,
                          LifecycleStore, LifecycleTell
<1>3. CASE Toggle(r)
  BY <1>3, OneRequest DEF TypeOK, Toggle, ToggleCall, ToggleSkip, ToggleStore, ToggleCustomer
<1> QED BY <1>1, <1>2, <1>3 DEF Handle

\* These steps do not change the subscription at hand but to answer.
LEMMA StaysAt ==
  ASSUME TypeOK, NEW r \in Requests, NEW s, For(r, s)',
         Topup(r) \/ Renew(r) \/ Lifecycle(r)
  PROVE  For(r, s)
<1>1. \A pc : Go(r, pc) => For(r, s)
  BY GoesOn DEF For
<1>2. ~Answer(r)
  BY Answers DEF For
<1>3. CASE TopupRead(r)
  <2>1. PICK quota : req' = [req EXCEPT ![r].pc = "set", ![r].quota = quota]
    BY <1>2, <1>3 DEF TopupRead
  <2>2. req'[r].subs = req[r].subs
    BY <2>1 DEF TypeOK, RequestStates
  <2> QED BY <2>2 DEF For
<1>4. CASE TopupAdd(r) \/ TopupSetQuota(r) \/ TopupUndo(r) \/ TopupResume(r) \/ TopupActivate(r) \/ TopupRearm(r)
  BY <1>1, <1>2, <1>4 DEF TopupAdd, TopupSetQuota, TopupUndo, TopupResume, TopupActivate, TopupRearm
<1>5. CASE Renew(r) \/ Lifecycle(r)
  BY <1>1, <1>2, <1>5 DEF Renew, RenewReset, RenewSetQuota, RenewStore, Lifecycle, LifecycleCall,
     LifecycleStore, LifecycleTell
<1> QED BY <1>3, <1>4, <1>5 DEF Topup

\* In a step of r, which may find or leave s at hand, r alone is at s.
Sole(r, s) ==
  /\ \A q \in Requests \ {r} : req'[q] = req[q]
  /\ For(r, s) \/ For(r, s)' => \A q \in Requests \ {r} : ~For(q, s)

LEMMA SoleStep ==
  ASSUME NEW s, OneAt(s), OneAt(s)', NEW r \in Requests, \A q \in Requests \ {r} : req'[q] = req[q]
  PROVE  Sole(r, s)
BY DEF OneAt, Sole, For

\* A step of a handler leaves the subscriptions alone that it has not at hand.
LEMMA NotAtHand ==
  ASSUME TypeOK, Calmly, NEW r \in Requests, NEW s \in Subs, Handle(r), ~For(r, s), ~For(r, s)'
  PROVE  row'[s] = row[s] /\ tenant'[s] = tenant[s] /\ wire' = wire
<1>1. ASSUME NEW t \in Subs, NEW rw, Write(t, rw) \/ TryWrite(t, rw), t # s PROVE row'[s] = row[s]
  BY <1>1 DEF TypeOK, TryWrite, Write, WriteFails
<1>2. ASSUME NEW t \in Subs, NEW c, c.sub = t, Answered(c) \/ Failed(c), t # s
      PROVE  tenant'[s] = tenant[s] /\ wire' = wire
  BY <1>2, Refused DEF TypeOK, Answered, Serve
<1>3. /\ \A op, t : Call(r, op, t).sub = t
      /\ \A t, quota, expire : QuotaCall(r, t, quota, expire).sub = t
  BY DEF Call, QuotaCall
<1>4. \A t : For(r, t) => t # s
  BY DEF For
<1>5. CASE TopupAdd(r) \/ TopupRead(r) \/ TopupUndo(r) \/ TopupActivate(r) \/ TopupRearm(r)
  BY <1>1, <1>4, <1>5 DEF TopupAdd, TopupRead, TopupUndo, TopupActivate, TopupRearm, Calmly, WriteFails,
                          node, store
<1>6. CASE TopupSetQuota(r) \/ RenewSetQuota(r)
  BY <1>2, <1>3, <1>4, <1>6 DEF TopupSetQuota, RenewSetQuota, store
<1>7. CASE TopupResume(r) \/ RenewReset(r) \/ LifecycleCall(r)
  BY <1>2, <1>3, <1>4, <1>7 DEF TopupResume, RenewReset, LifecycleCall, store
<1>8. CASE RenewStore(r) \/ LifecycleStore(r) \/ LifecycleTell(r) \/ ToggleStore(r)
  BY <1>1, <1>4, <1>8 DEF RenewStore, LifecycleStore, LifecycleTell, ToggleStore, Calmly, WriteFails,
                          node, store
<1>9. CASE ToggleSkip(r) \/ ToggleCustomer(r)
  BY <1>9 DEF ToggleSkip, ToggleCustomer, node, store
<1>10. CASE ToggleCall(r)
  <2>1. PICK t \in req[r].todo :
          /\ Answered(Call(r, NodeOp(req[r].op), t)) \/ Failed(Call(r, NodeOp(req[r].op), t))
          /\ req' = [req EXCEPT ![r].pc = "mirror", ![r].subs = {t}, ![r].todo = @ \ {t}]
    BY <1>10 DEF ToggleCall
  <2>2. t \in Subs /\ t # s
    BY <2>1 DEF TypeOK, RequestStates, For
  <2>3. row' = row
    BY <1>10 DEF ToggleCall, store
  <2> QED BY <1>2, <1>3, <2>1, <2>2, <2>3
<1> QED BY <1>5, <1>6, <1>7, <1>8, <1>9, <1>10 DEF Handle, Topup, Renew, Lifecycle, Toggle

\* The operation a handler is at fits its place.
OpFits(state) ==
  /\ state.pc \in {"switch", "record"} => state.op \in {"suspend", "resume"}
  /\ state.pc \in {"toggle", "mirror"} => state.op \in Ops \cap {"disable", "enable"}

\* What a handler starts with.
LEMMA Arrives ==
  ASSUME TypeOK, NEW r \in Requests, Arrive(r)
  PROVE  /\ req[r].pc = "idle" /\ \A q \in Requests \ {r} : req'[q] = req[q]
         /\ OpFits(req'[r])
         /\ req'[r].pc \in {"reset", "switch", "toggle"} \/ (req'[r].pc = "add" /\ "topup" \in Ops)
         /\ UNCHANGED <<store, node, now, coll, events, lastSample>>
<1>1. ASSUME NEW state, Receive(r, state)
      PROVE  /\ req'[r] = state /\ req[r].pc = "idle" /\ \A q \in Requests \ {r} : req'[q] = req[q]
             /\ UNCHANGED <<store, node, now, coll, events, lastSample>>
  BY <1>1 DEF TypeOK, Receive, At
<1>2. PICK state : /\ Receive(r, state) /\ OpFits(state)
                   /\ \/ state.pc \in {"reset", "switch", "toggle"}
                      \/ state.pc = "add" /\ "topup" \in Ops
  <2>1. CASE ReceiveTopup(r)
    <3>1. PICK s \in Subs, bytes \in Amounts :
            /\ "topup" \in Ops
            /\ Receive(r, [IdleRequest EXCEPT !.pc = "add", !.op = "topup", !.subs = {s},
                                              !.snap = row[s], !.bytes = bytes])
      BY <2>1 DEF ReceiveTopup
    <3> DEFINE state == [IdleRequest EXCEPT !.pc = "add", !.op = "topup", !.subs = {s},
                                            !.snap = row[s], !.bytes = bytes]
    <3>2. state.pc = "add"
      BY DEF IdleRequest
    <3>3. Receive(r, state)
      BY <3>1
    <3> HIDE DEF state
    <3> QED BY <3>1, <3>2, <3>3 DEF OpFits
  <2>2. CASE ReceiveRenew(r)
    <3>1. PICK s \in Subs, days \in RenewDays :
            Receive(r, [IdleRequest EXCEPT !.pc = "reset", !.op = "renew", !.subs = {s},
                                           !.snap = row[s], !.endAt = now + days])
      BY <2>2 DEF ReceiveRenew
    <3> DEFINE state == [IdleRequest EXCEPT !.pc = "reset", !.op = "renew", !.subs = {s},
                                            !.snap = row[s], !.endAt = now + days]
    <3>2. state.pc = "reset"
      BY DEF IdleRequest
    <3>3. Receive(r, state)
      BY <3>1
    <3> HIDE DEF state
    <3> QED BY <3>2, <3>3 DEF OpFits
  <2>3. CASE ReceiveLifecycle(r)
    <3>1. PICK op \in Ops \cap {"suspend", "resume"}, s \in Subs :
            Receive(r, [IdleRequest EXCEPT !.pc = "switch", !.op = op, !.subs = {s}])
      BY <2>3 DEF ReceiveLifecycle
    <3> DEFINE state == [IdleRequest EXCEPT !.pc = "switch", !.op = op, !.subs = {s}]
    <3>2. state.pc = "switch" /\ state.op = op
      BY DEF IdleRequest
    <3>3. Receive(r, state)
      BY <3>1
    <3> HIDE DEF state
    <3> QED BY <3>2, <3>3 DEF OpFits
  <2>4. CASE ReceiveToggle(r)
    <3>1. PICK op \in Ops \cap {"disable", "enable"}, todo \in SUBSET Subs :
            Receive(r, [IdleRequest EXCEPT !.pc = "toggle", !.op = op, !.todo = todo])
      BY <2>4 DEF ReceiveToggle
    <3> DEFINE state == [IdleRequest EXCEPT !.pc = "toggle", !.op = op, !.todo = todo]
    <3>2. state.pc = "toggle" /\ state.op = op
      BY DEF IdleRequest
    <3>3. Receive(r, state)
      BY <3>1
    <3> HIDE DEF state
    <3> QED BY <3>2, <3>3 DEF OpFits
  <2> QED BY <2>1, <2>2, <2>3, <2>4 DEF Arrive
<1> QED BY <1>1, <1>2

\* What the row and the tenant of s are worth stays as it is.
RowKept(s) == row'[s].quota = row[s].quota /\ row'[s].endAt = row[s].endAt

TenantKept(s) ==
  /\ wire' = wire
  /\ tenant'[s].quota = tenant[s].quota /\ tenant'[s].expire = tenant[s].expire

LEMMA KeepingWrite ==
  ASSUME TypeOK, NEW s \in Subs, NEW t \in Subs, NEW rw, TryWrite(t, rw),
         rw.quota = row[t].quota, rw.endAt = row[t].endAt
  PROVE  RowKept(s)
BY DEF TypeOK, TryWrite, Write, WriteFails, RowKept

\* The UPDATEs that are not about quota or expiry.
LEMMA KeepingRows ==
  ASSUME NEW rw \in Rows
  PROVE  /\ \A n \in Nat : UsageUpdated(rw, n).quota = rw.quota /\ UsageUpdated(rw, n).endAt = rw.endAt
         /\ \A st \in Statuses : StatusUpdated(rw, st).quota = rw.quota /\ StatusUpdated(rw, st).endAt = rw.endAt
         /\ \A l \in Levels : Notified(rw, l).quota = rw.quota /\ Notified(rw, l).endAt = rw.endAt
BY DEF Rows, UsageUpdated, StatusUpdated, Notified

\* The calls that are not about them.
LEMMA KeepingCall ==
  ASSUME TypeOK, Calmly, NEW r \in Requests, NEW s \in Subs, NEW t \in Subs,
         NEW op \in {"resume", "suspend", "reset"}, Answered(Call(r, op, t)) \/ Failed(Call(r, op, t))
  PROVE  TenantKept(s)
<1>1. CASE Failed(Call(r, op, t))
  BY <1>1, Refused DEF TenantKept
<1>2. CASE Answered(Call(r, op, t))
  <2>1. Call(r, op, t).op = op /\ Call(r, op, t).sub = t
    BY DEF Call
  <2>2. \A u \in Tenants : /\ Applied(u, Call(r, op, t)).quota = u.quota
                           /\ Applied(u, Call(r, op, t)).expire = u.expire
    BY <2>1 DEF Applied, Tenants, Resumed, Suspended, PeriodReset
  <2> QED BY <1>2, <2>1, <2>2 DEF TypeOK, Answered, Serve, TenantKept
<1> QED BY <1>1, <1>2

\* SetQuota gives the node what it is told.
LEMMA GivingCall ==
  ASSUME TypeOK, NEW r \in Requests, NEW s \in Subs, NEW quota, NEW expire,
         Answered(QuotaCall(r, s, quota, expire))
  PROVE  wire' = wire /\ tenant'[s].quota = quota /\ tenant'[s].expire = expire
BY DEF TypeOK, Tenants, Answered, Serve, QuotaCall, Applied, WithQuota

\* The steps at which row and node may differ, and those at which a request has
\* to know that they do not.
GapPCs == {"read", "set", "undo", "store"}

StagePCs == GapPCs \cup {"add", "reset", "extend"}

Alike(s) == tenant[s].quota = row[s].quota /\ tenant[s].expire = row[s].endAt

\* No request is at s, or one that is at none of these steps.
LEMMA NoGap ==
  ASSUME NEW s, DeliveryAt(s), NEW r \in Requests, For(r, s) => req[r].pc \notin GapPCs,
         \A q \in Requests \ {r} : ~For(q, s)
  PROVE  Alike(s)
BY DEF DeliveryAt, QuotaGiven, ExpiryGiven, Alike, GapPCs, At

LEMMA AlikeIsDelivered ==
  ASSUME NEW s, NEW r \in Requests, Sole(r, s), For(r, s) \/ For(r, s)', wire' = {},
         For(r, s)' => req'[r].pc \notin StagePCs, Alike(s)'
  PROVE  DeliveryAt(s)'
<1>1. \A q \in Requests \ {r} : ~For(q, s)'
  BY DEF Sole, For
<1>2. For(r, s)' => Knows(r, s)'
  BY DEF Knows, StagePCs, GapPCs, At
<1> QED BY <1>1, <1>2 DEF DeliveryAt, QuotaGiven, ExpiryGiven, Alike

\* A request that was at none of these steps, or is leaving them, and is at none.
LEMMA Rests ==
  ASSUME NEW s, DeliveryAt(s), RowKept(s), TenantKept(s), NEW r \in Requests, Sole(r, s),
         For(r, s) \/ For(r, s)',
         For(r, s) => req[r].pc \notin GapPCs, For(r, s)' => req'[r].pc \notin StagePCs
  PROVE  DeliveryAt(s)'
<1>1. Alike(s)
  BY NoGap DEF Sole
<1>2. wire' = {} /\ Alike(s)'
  BY <1>1 DEF DeliveryAt, RowKept, TenantKept, Alike
<1> QED BY <1>2, AlikeIsDelivered

\* Whoever has s at hand stays where it is, and s stays as it is.
LEMMA Waits ==
  ASSUME NEW s, DeliveryAt(s), RowKept(s), TenantKept(s),
         \A q \in Requests : For(q, s) \/ For(q, s)' => req'[q] = req[q]
  PROVE  DeliveryAt(s)'
<1>1. \A q \in Requests : For(q, s)' => For(q, s) /\ req'[q] = req[q]
  BY DEF For
<1>2. \A q \in Requests : For(q, s)' => Knows(q, s)'
  BY <1>1 DEF DeliveryAt, RowKept, TenantKept, Knows, At
<1>3. QuotaGiven(s)'
  BY DEF DeliveryAt, RowKept, TenantKept, QuotaGiven, For
<1>4. ExpiryGiven(s)'
  BY DEF DeliveryAt, RowKept, TenantKept, ExpiryGiven, For, At
<1> QED BY <1>2, <1>3, <1>4 DEF DeliveryAt, TenantKept

\* A request that arrives at s finds nobody there.
LEMMA ArriveDelivers ==
  ASSUME TypeOK, NEW s \in Subs, DeliveryAt(s), NEW r \in Requests, Sole(r, s), Arrive(r)
  PROVE  DeliveryAt(s)'
<1>1. ASSUME NEW state, Receive(r, state)
      PROVE  req'[r] = state /\ req[r].pc = "idle" /\ UNCHANGED <<row, tenant, wire>>
  BY <1>1 DEF TypeOK, Receive, At, store, node
<1>2. UNCHANGED <<row, tenant, wire>> /\ req[r].pc = "idle"
  BY <1>1 DEF Arrive, ReceiveTopup, ReceiveRenew, ReceiveLifecycle, ReceiveToggle
<1>3. RowKept(s) /\ TenantKept(s)
  BY <1>2 DEF RowKept, TenantKept
<1>4. CASE ~For(r, s) /\ ~For(r, s)'
  BY <1>3, <1>4, Waits DEF Sole
<1>5. CASE For(r, s) \/ For(r, s)'
  <2>1. Alike(s)
    BY <1>2, <1>5, NoGap DEF Sole, GapPCs
  <2>2. Alike(s)' /\ wire' = {}
    BY <1>2, <2>1 DEF Alike, DeliveryAt
  <2>3. \A q \in Requests \ {r} : ~For(q, s)'
    BY <1>5 DEF Sole, For
  <2>4. ASSUME For(r, s)' => Knows(r, s)' PROVE DeliveryAt(s)'
    BY <2>2, <2>3, <2>4 DEF DeliveryAt, QuotaGiven, ExpiryGiven, Alike
  <2>5. CASE ReceiveTopup(r)
    <3>1. PICK t \in Subs, bytes \in Amounts :
            Receive(r, [IdleRequest EXCEPT !.pc = "add", !.op = "topup", !.subs = {t},
                                           !.snap = row[t], !.bytes = bytes])
      BY <2>5 DEF ReceiveTopup
    <3> DEFINE state == [IdleRequest EXCEPT !.pc = "add", !.op = "topup", !.subs = {t},
                                            !.snap = row[t], !.bytes = bytes]
    <3>2. state.pc = "add" /\ state.subs = {t} /\ state.snap = row[t]
      BY DEF IdleRequest
    <3> HIDE DEF state
    <3>3. req'[r] = state
      BY <1>1, <3>1 DEF state
    <3>4. For(r, s)' => t = s
      BY <3>2, <3>3 DEF For
    <3> QED BY <1>2, <2>4, <3>2, <3>3, <3>4 DEF Knows, At
  <2>6. CASE ReceiveRenew(r)
    <3>1. PICK t \in Subs, days \in RenewDays :
            Receive(r, [IdleRequest EXCEPT !.pc = "reset", !.op = "renew", !.subs = {t},
                                           !.snap = row[t], !.endAt = now + days])
      BY <2>6 DEF ReceiveRenew
    <3> DEFINE state == [IdleRequest EXCEPT !.pc = "reset", !.op = "renew", !.subs = {t},
                                            !.snap = row[t], !.endAt = now + days]
    <3>2. state.pc = "reset" /\ state.subs = {t} /\ state.snap = row[t]
      BY DEF IdleRequest
    <3> HIDE DEF state
    <3>3. req'[r] = state
      BY <1>1, <3>1 DEF state
    <3>4. For(r, s)' => t = s
      BY <3>2, <3>3 DEF For
    <3> QED BY <1>2, <2>4, <3>2, <3>3, <3>4 DEF Knows, At
  <2>7. CASE ReceiveLifecycle(r) \/ ReceiveToggle(r)
    <3>1. PICK state : Receive(r, state) /\ state.pc \in {"switch", "toggle"}
      <4>1. CASE ReceiveLifecycle(r)
        <5>1. PICK op \in Ops, t \in Subs :
                Receive(r, [IdleRequest EXCEPT !.pc = "switch", !.op = op, !.subs = {t}])
          BY <4>1 DEF ReceiveLifecycle
        <5>2. [IdleRequest EXCEPT !.pc = "switch", !.op = op, !.subs = {t}].pc = "switch"
          BY DEF IdleRequest
        <5> QED BY <5>1, <5>2
      <4>2. CASE ReceiveToggle(r)
        <5>1. PICK op \in Ops, todo \in SUBSET Subs :
                Receive(r, [IdleRequest EXCEPT !.pc = "toggle", !.op = op, !.todo = todo])
          BY <4>2 DEF ReceiveToggle
        <5>2. [IdleRequest EXCEPT !.pc = "toggle", !.op = op, !.todo = todo].pc = "toggle"
          BY DEF IdleRequest
        <5> QED BY <5>1, <5>2
      <4> QED BY <2>7, <4>1, <4>2
    <3>2. req'[r].pc \in {"switch", "toggle"}
      BY <1>1, <3>1
    <3> QED BY <2>4, <3>2 DEF Knows, At
  <2> QED BY <2>5, <2>6, <2>7 DEF Arrive
<1> QED BY <1>4, <1>5

\* The UPDATE of a top-up: the row is ahead of the node by its bytes.
LEMMA AddDelivers ==
  ASSUME TypeOK, Calmly, NEW s \in Subs, DeliveryAt(s), NEW r \in Requests, Sole(r, s), For(r, s),
         TopupAdd(r)
  PROVE  DeliveryAt(s)'
<1>1. Write(s, QuotaAdded(row[s], req[r].bytes)) /\ Go(r, "read")
  <2>1. PICK t \in Subs : For(r, t) /\ Write(t, QuotaAdded(row[t], req[r].bytes)) /\ Go(r, "read")
    BY DEF TopupAdd, WriteFails, Calmly
  <2>2. t = s
    BY <2>1 DEF For
  <2> QED BY <2>1, <2>2
<1>2. req[r].pc = "add" /\ UNCHANGED <<tenant, wire>>
  BY DEF TopupAdd, At, node
<1>3. row'[s].quota = row[s].quota + req[r].bytes /\ row'[s].endAt = row[s].endAt
  <2>1. QuotaAdded(row[s], req[r].bytes).quota = row[s].quota + req[r].bytes
    BY DEF TypeOK, Rows, QuotaAdded
  <2>2. QuotaAdded(row[s], req[r].bytes).endAt = row[s].endAt
    BY DEF TypeOK, Rows, QuotaAdded
  <2> QED BY <1>1, <2>1, <2>2 DEF TypeOK, Write
<1>4. Alike(s)
  BY <1>2, NoGap DEF GapPCs, Sole
<1>5. req[r].snap.endAt = row[s].endAt
  BY <1>2 DEF DeliveryAt, Knows
<1>6. req'[r].pc = "read" /\ req'[r].subs = {s} /\ req'[r].snap = req[r].snap /\ req'[r].bytes = req[r].bytes
  BY <1>1, GoesOn DEF For
<1>7. For(r, s)' /\ Knows(r, s)'
  BY <1>2, <1>3, <1>4, <1>5, <1>6 DEF For, Knows, Alike, At
<1>8. \A q \in Requests \ {r} : ~For(q, s)'
  BY DEF Sole, For
<1> QED BY <1>2, <1>3, <1>4, <1>6, <1>7, <1>8 DEF DeliveryAt, QuotaGiven, ExpiryGiven, Alike

\* The SELECT that follows, or the step to the rollback: nothing else is changed.
LEMMA StageDelivers ==
  ASSUME NEW s \in Subs, DeliveryAt(s), NEW r \in Requests, Sole(r, s), For(r, s),
         RowKept(s), TenantKept(s), req'[r].subs = req[r].subs, req'[r].snap = req[r].snap,
         req'[r].bytes = req[r].bytes,
         \/ At(r, "read") /\ At(r, "set")' /\ req'[r].quota = row[s].quota
         \/ At(r, "set") /\ At(r, "undo")'
         \/ At(r, "reset") /\ At(r, "extend")'
  PROVE  DeliveryAt(s)'
<1>1. \A q \in Requests \ {r} : ~For(q, s) /\ ~For(q, s)'
  BY DEF Sole, For
<1>2. For(r, s)' /\ Knows(r, s)'
  BY DEF DeliveryAt, RowKept, TenantKept, Knows, For, At
<1>3. QuotaGiven(s)'
  BY <1>1, <1>2 DEF DeliveryAt, RowKept, TenantKept, QuotaGiven, At
<1>4. ExpiryGiven(s)'
  BY <1>1, <1>2 DEF DeliveryAt, RowKept, TenantKept, ExpiryGiven, At
<1> QED BY <1>1, <1>2, <1>3, <1>4 DEF DeliveryAt, TenantKept

LEMMA ReadDelivers ==
  ASSUME TypeOK, Calmly, NEW s \in Subs, DeliveryAt(s), NEW r \in Requests, Sole(r, s), For(r, s),
         TopupRead(r)
  PROVE  DeliveryAt(s)'
<1>1. req' = [req EXCEPT ![r].pc = "set", ![r].quota = row[s].quota]
  <2>1. PICK t \in Subs : For(r, t) /\ req' = [req EXCEPT ![r].pc = "set", ![r].quota = row[t].quota]
    BY DEF TopupRead, Calmly
  <2>2. t = s
    BY <2>1 DEF For
  <2> QED BY <2>1, <2>2
<1>2. At(r, "read") /\ RowKept(s) /\ TenantKept(s)
  BY DEF TopupRead, store, node, RowKept, TenantKept
<1>3. /\ At(r, "set")' /\ req'[r].quota = row[s].quota /\ req'[r].subs = req[r].subs
      /\ req'[r].snap = req[r].snap /\ req'[r].bytes = req[r].bytes
  BY <1>1 DEF TypeOK, RequestStates, At
<1> QED BY <1>2, <1>3, StageDelivers

\* SetQuota of a top-up: the node has caught up, or the bytes are to be undone.
LEMMA SetDelivers ==
  ASSUME TypeOK, Calmly, NEW s \in Subs, DeliveryAt(s), NEW r \in Requests, Sole(r, s), For(r, s),
         TopupSetQuota(r)
  PROVE  DeliveryAt(s)'
<1> DEFINE c == QuotaCall(r, s, req[r].quota, req[r].snap.endAt)
<1>1. (Answered(c) /\ Go(r, "resume")) \/ (Failed(c) /\ Go(r, "undo"))
  <2>1. PICK t \in Subs :
          /\ For(r, t)
          /\ \/ Answered(QuotaCall(r, t, req[r].quota, req[r].snap.endAt)) /\ Go(r, "resume")
             \/ Failed(QuotaCall(r, t, req[r].quota, req[r].snap.endAt)) /\ Go(r, "undo")
    BY DEF TopupSetQuota
  <2>2. t = s
    BY <2>1 DEF For
  <2> QED BY <2>1, <2>2
<1>2. At(r, "set") /\ UNCHANGED row /\ wire = {}
  BY DEF TopupSetQuota, store, DeliveryAt
<1>3. req[r].quota = row[s].quota /\ req[r].snap.endAt = row[s].endAt
  BY <1>2 DEF DeliveryAt, Knows, At
<1>4. CASE Answered(c) /\ Go(r, "resume")
  <2>1. wire' = {} /\ Alike(s)'
    BY <1>2, <1>3, <1>4, GivingCall DEF Alike
  <2>2. req'[r].pc = "resume"
    BY <1>4, GoesOn
  <2> QED BY <2>1, <2>2, AlikeIsDelivered DEF StagePCs, GapPCs
<1>5. CASE Failed(c) /\ Go(r, "undo")
  <2>1. RowKept(s) /\ TenantKept(s)
    BY <1>2, <1>5, Refused DEF RowKept, TenantKept
  <2> QED BY <1>2, <1>5, <2>1, GoesOn, StageDelivers DEF At
<1> QED BY <1>1, <1>4, <1>5

\* The rollback: the row is back at what the node has.
LEMMA UndoDelivers ==
  ASSUME TypeOK, Calmly, NEW s \in Subs, DeliveryAt(s), NEW r \in Requests, Sole(r, s), For(r, s),
         TopupUndo(r)
  PROVE  DeliveryAt(s)'
<1>1. Write(s, QuotaUndone(row[s], req[r].bytes))
  <2>1. PICK t \in Subs : For(r, t) /\ Write(t, QuotaUndone(row[t], req[r].bytes))
    BY DEF TopupUndo, WriteFails, Calmly
  <2>2. t = s
    BY <2>1 DEF For
  <2> QED BY <2>1, <2>2
<1>2. req[r].pc = "undo" /\ UNCHANGED <<tenant, wire>> /\ Answer(r)
  BY DEF TopupUndo, At, node
<1>3. row[s].quota = tenant[s].quota + req[r].bytes /\ tenant[s].quota \in Nat /\ req[r].bytes \in Nat
  BY <1>2 DEF DeliveryAt, Knows, TypeOK, Tenants, RequestStates
<1>4. row'[s].quota = tenant[s].quota /\ row'[s].endAt = row[s].endAt
  <2>1. (IF row[s].quota >= req[r].bytes THEN row[s].quota - req[r].bytes ELSE 0) = tenant[s].quota
    BY <1>3
  <2>2. QuotaUndone(row[s], req[r].bytes) = [row[s] EXCEPT !.quota = tenant[s].quota]
    BY <2>1 DEF TypeOK, Rows, QuotaUndone
  <2> QED BY <1>1, <2>2 DEF TypeOK, Rows, Write
<1>5. tenant[s].expire = row[s].endAt
  BY <1>2 DEF DeliveryAt, ExpiryGiven, Sole, At
<1>6. req'[r].pc \notin StagePCs
  BY <1>2, Answers DEF StagePCs, GapPCs
<1>7. wire' = {} /\ Alike(s)'
  BY <1>2, <1>4, <1>5 DEF Alike, DeliveryAt
<1> QED BY <1>6, <1>7, AlikeIsDelivered

\* The node's new period, and its new expiry, which the row then gets.
LEMMA RenewDelivers ==
  ASSUME TypeOK, Calmly, NEW s \in Subs, DeliveryAt(s), NEW r \in Requests, Sole(r, s), For(r, s),
         Renew(r)
  PROVE  DeliveryAt(s)'
<1>1. CASE RenewReset(r)
  <2>1. PICK t \in Subs :
          /\ For(r, t)
          /\ \/ Answered(Call(r, "reset", t)) /\ Go(r, "extend")
             \/ Failed(Call(r, "reset", t)) /\ Answer(r)
    BY <1>1 DEF RenewReset
  <2>2. At(r, "reset") /\ RowKept(s) /\ TenantKept(s)
    BY <1>1, <2>1, KeepingCall DEF RenewReset, store, RowKept
  <2>3. CASE Go(r, "extend")
    BY <2>2, <2>3, GoesOn, StageDelivers DEF At
  <2>4. CASE Answer(r)
    BY <2>2, <2>4, Answers, Rests DEF At, StagePCs, GapPCs
  <2> QED BY <2>1, <2>3, <2>4
<1>2. CASE RenewSetQuota(r)
  <2> DEFINE c == QuotaCall(r, s, req[r].snap.quota, req[r].endAt)
  <2>1. (Answered(c) /\ Go(r, "store")) \/ (Failed(c) /\ Answer(r))
    <3>1. PICK t \in Subs :
            /\ For(r, t)
            /\ \/ Answered(QuotaCall(r, t, req[r].snap.quota, req[r].endAt)) /\ Go(r, "store")
               \/ Failed(QuotaCall(r, t, req[r].snap.quota, req[r].endAt)) /\ Answer(r)
      BY <1>2 DEF RenewSetQuota
    <3>2. t = s
      BY <3>1 DEF For
    <3> QED BY <3>1, <3>2
  <2>2. At(r, "extend") /\ UNCHANGED row /\ wire = {}
    BY <1>2 DEF RenewSetQuota, store, DeliveryAt
  <2>3. CASE Answered(c) /\ Go(r, "store")
    <3>1. req[r].snap.quota = row[s].quota
      BY <2>2 DEF DeliveryAt, Knows, At
    <3>2. wire' = {} /\ tenant'[s].quota = row'[s].quota /\ tenant'[s].expire = req[r].endAt
      BY <2>2, <2>3, <3>1, GivingCall
    <3>3. req'[r].pc = "store" /\ req'[r].subs = {s} /\ req'[r].endAt = req[r].endAt
      BY <2>3, GoesOn DEF For
    <3>4. For(r, s)' /\ Knows(r, s)'
      BY <3>2, <3>3 DEF For, Knows, At
    <3>5. \A q \in Requests \ {r} : ~For(q, s)'
      BY DEF Sole, For
    <3> QED BY <3>2, <3>3, <3>4, <3>5 DEF DeliveryAt, QuotaGiven, ExpiryGiven, At
  <2>4. CASE Failed(c) /\ Answer(r)
    <3>1. RowKept(s) /\ TenantKept(s)
      BY <2>2, <2>4, Refused DEF RowKept, TenantKept
    <3> QED BY <2>2, <2>4, <3>1, Answers, Rests DEF At, StagePCs, GapPCs
  <2> QED BY <2>1, <2>3, <2>4
<1>3. CASE RenewStore(r)
  <2>1. Write(s, Renewed(row[s], req[r].endAt))
    <3>1. PICK t \in Subs : For(r, t) /\ Write(t, Renewed(row[t], req[r].endAt))
      BY <1>3, Written DEF RenewStore
    <3>2. t = s
      BY <3>1 DEF For
    <3> QED BY <3>1, <3>2
  <2>2. At(r, "store") /\ UNCHANGED <<tenant, wire>> /\ Answer(r)
    BY <1>3 DEF RenewStore, node
  <2>3. row'[s].quota = row[s].quota /\ row'[s].endAt = req[r].endAt
    BY <2>1 DEF TypeOK, Rows, Write, Renewed
  <2>4. tenant[s].quota = row[s].quota
    BY <2>2 DEF DeliveryAt, QuotaGiven, Sole, At
  <2>5. tenant[s].expire = req[r].endAt
    BY <2>2 DEF DeliveryAt, Knows
  <2>6. wire' = {} /\ Alike(s)'
    BY <2>2, <2>3, <2>4, <2>5 DEF Alike, DeliveryAt
  <2>7. req'[r].pc \notin StagePCs
    BY <2>2, Answers DEF StagePCs, GapPCs
  <2> QED BY <2>6, <2>7, AlikeIsDelivered
<1> QED BY <1>1, <1>2, <1>3 DEF Renew

\* Steps of a handler that change neither quota nor expiry, of row or node.
LEMMA OtherDelivers ==
  ASSUME TypeOK, Calmly, NEW s \in Subs, DeliveryAt(s), NEW r \in Requests, Sole(r, s),
         For(r, s) \/ For(r, s)',
         TopupResume(r) \/ TopupActivate(r) \/ TopupRearm(r) \/ Lifecycle(r) \/ Toggle(r)
  PROVE  DeliveryAt(s)'
<1>1. /\ \A t \in Subs : row[t] \in Rows
      /\ "active" \in Statuses /\ \A op : TargetStatus(op) \in Statuses
      /\ \A op : NodeOp(op) \in {"resume", "suspend", "reset"}
  BY DEF TypeOK, Statuses, TargetStatus, NodeOp
<1>2. UNCHANGED row => RowKept(s)
  BY DEF RowKept
<1>3. UNCHANGED node => TenantKept(s)
  BY DEF node, TenantKept
<1>4. CASE TopupResume(r)
  <2>1. TenantKept(s)
    BY <1>4, KeepingCall DEF TopupResume
  <2>2. RowKept(s)
    BY <1>2, <1>4 DEF TopupResume, store
  <2>3. req[r].pc = "resume" /\ req'[r].pc = "activate"
    BY <1>4, GoesOn DEF TopupResume, At
  <2> QED BY <2>1, <2>2, <2>3, Rests DEF StagePCs, GapPCs
<1>5. CASE TopupActivate(r)
  <2>1. RowKept(s)
    BY <1>1, <1>5, KeepingWrite, KeepingRows DEF TopupActivate
  <2>2. TenantKept(s)
    BY <1>3, <1>5 DEF TopupActivate
  <2>3. req[r].pc = "activate" /\ req'[r].pc = "rearm"
    BY <1>5, GoesOn DEF TopupActivate, At
  <2> QED BY <2>1, <2>2, <2>3, Rests DEF StagePCs, GapPCs
<1>6. CASE TopupRearm(r)
  <2>1. RowKept(s)
    BY <1>1, <1>6, KeepingWrite, KeepingRows, LevelType DEF TopupRearm
  <2>2. TenantKept(s)
    BY <1>3, <1>6 DEF TopupRearm
  <2>3. req[r].pc = "rearm" /\ req'[r].pc = "idle"
    BY <1>6, Answers DEF TopupRearm, At
  <2> QED BY <2>1, <2>2, <2>3, Rests DEF StagePCs, GapPCs
<1>7. CASE LifecycleCall(r)
  <2>1. TenantKept(s)
    BY <1>1, <1>7, KeepingCall DEF LifecycleCall
  <2>2. RowKept(s)
    BY <1>2, <1>7 DEF LifecycleCall, store
  <2>3. req[r].pc = "switch" /\ req'[r].pc \in {"record", "idle"}
    BY <1>7, GoesOn, Answers DEF LifecycleCall, At
  <2> QED BY <2>1, <2>2, <2>3, Rests DEF StagePCs, GapPCs
<1>8. CASE LifecycleStore(r)
  <2>1. RowKept(s)
    BY <1>1, <1>8, KeepingWrite, KeepingRows DEF LifecycleStore, TryWrite
  <2>2. TenantKept(s)
    BY <1>3, <1>8 DEF LifecycleStore
  <2>3. req[r].pc = "record" /\ req'[r].pc \in {"tell", "idle"}
    BY <1>8, GoesOn, Answers DEF LifecycleStore, At
  <2> QED BY <2>1, <2>2, <2>3, Rests DEF StagePCs, GapPCs
<1>9. CASE LifecycleTell(r)
  <2>1. RowKept(s) /\ TenantKept(s)
    BY <1>2, <1>3, <1>9 DEF LifecycleTell, store
  <2>2. req[r].pc = "tell" /\ req'[r].pc = "idle"
    BY <1>9, Answers DEF LifecycleTell, At
  <2> QED BY <2>1, <2>2, Rests DEF StagePCs, GapPCs
<1>10. CASE ToggleCall(r)
  <2>1. PICK t \in req[r].todo :
          /\ Answered(Call(r, NodeOp(req[r].op), t)) \/ Failed(Call(r, NodeOp(req[r].op), t))
          /\ req' = [req EXCEPT ![r].pc = "mirror", ![r].subs = {t}, ![r].todo = @ \ {t}]
    BY <1>10 DEF ToggleCall
  <2>2. t \in Subs
    BY DEF TypeOK, RequestStates
  <2>3. TenantKept(s)
    BY <1>1, <2>1, <2>2, KeepingCall
  <2>4. RowKept(s)
    BY <1>2, <1>10 DEF ToggleCall, store
  <2>5. req[r].pc = "toggle" /\ req'[r].pc = "mirror"
    BY <1>10, <2>1 DEF TypeOK, RequestStates, ToggleCall, At
  <2> QED BY <2>3, <2>4, <2>5, Rests DEF StagePCs, GapPCs
<1>11. CASE ToggleSkip(r)
  BY <1>11 DEF ToggleSkip, Calmly
<1>12. CASE ToggleStore(r)
  <2>1. RowKept(s)
    BY <1>1, <1>12, KeepingWrite, KeepingRows DEF ToggleStore
  <2>2. TenantKept(s)
    BY <1>3, <1>12 DEF ToggleStore
  <2>3. req[r].pc = "mirror" /\ req'[r].pc = "toggle"
    BY <1>12 DEF TypeOK, RequestStates, ToggleStore, At
  <2> QED BY <2>1, <2>2, <2>3, Rests DEF StagePCs, GapPCs
<1>13. CASE ToggleCustomer(r)
  <2>1. RowKept(s) /\ TenantKept(s)
    BY <1>2, <1>3, <1>13 DEF ToggleCustomer
  <2>2. req[r].pc = "toggle" /\ req'[r].pc = "idle"
    BY <1>13, Answers DEF ToggleCustomer, At
  <2> QED BY <2>1, <2>2, Rests DEF StagePCs, GapPCs
<1> QED BY <1>4, <1>5, <1>6, <1>7, <1>8, <1>9, <1>10, <1>11, <1>12, <1>13 DEF Lifecycle, Toggle

\* The collector, the traffic, the node's enforcement and the clock.
LEMMA BackgroundDelivers ==
  ASSUME TypeOK, NEW s \in Subs, DeliveryAt(s),
         \/ Collect \/ ServeLate \/ Tick
         \/ \E t \in Subs : Traffic(t) \/ Enforce(t)
         \/ UNCHANGED vars
  PROVE  DeliveryAt(s)'
<1>1. /\ \A t \in Subs : row[t] \in Rows
      /\ coll.view.used \in Nat /\ coll.view.status \in Statuses
      /\ \A t \in Subs : PolledLevel(t) \in Levels
  BY LevelType DEF TypeOK, CollectorStates, Views, PolledLevel
<1>2. CASE Collect
  <2>1. RowKept(s)
    <3>1. CASE UNCHANGED row
      BY <3>1 DEF RowKept
    <3>2. CASE CollectUsage \/ CollectMark \/ CollectStatus
      BY <1>1, <3>1, <3>2, KeepingWrite, KeepingRows DEF CollectUsage, CollectMark, CollectStatus
    <3> QED BY <1>2, <3>1, <3>2
            DEF Collect, CollectList, CollectPoll, CollectSample, CollectNotice, CollectTell, store
  <2>2. UNCHANGED <<tenant, wire, req>>
    BY <1>2 DEF Collect, CollectList, CollectPoll, CollectUsage, CollectSample, CollectNotice,
                CollectMark, CollectStatus, CollectTell, node
  <2>3. TenantKept(s)
    BY <2>2 DEF TenantKept
  <2> QED BY <2>1, <2>2, <2>3, Waits
<1>3. CASE ServeLate
  BY <1>3 DEF ServeLate, DeliveryAt
<1>4. ASSUME NEW t \in Subs, Traffic(t) \/ Enforce(t) PROVE DeliveryAt(s)'
  <2>1. \A u \in Tenants : /\ \A bytes : Metered(u, bytes).quota = u.quota /\ Metered(u, bytes).expire = u.expire
                           /\ Suspended(u).quota = u.quota /\ Suspended(u).expire = u.expire
                           /\ Expired(u).quota = u.quota /\ Expired(u).expire = u.expire
    BY DEF Tenants, Metered, Suspended, Expired
  <2>2. TenantKept(s)
    BY <1>4, <2>1 DEF TypeOK, Traffic, Enforce, TenantKept
  <2>3. RowKept(s) /\ UNCHANGED req
    BY <1>4 DEF Traffic, Enforce, store, RowKept
  <2> QED BY <2>2, <2>3, Waits
<1>5. CASE Tick \/ UNCHANGED vars
  <2>1. RowKept(s) /\ TenantKept(s) /\ UNCHANGED req
    BY <1>5 DEF Tick, vars, store, node, RowKept, TenantKept
  <2> QED BY <2>1, Waits
<1> QED BY <1>2, <1>3, <1>4, <1>5

LEMMA NextDelivers ==
  ASSUME TypeOK, Calmly, MaxCrashes = 0, NEW s \in Subs, OneAt(s), OneAt(s)', DeliveryAt(s), [Next]_vars
  PROVE  DeliveryAt(s)'
<1>1. ~Crash
  BY DEF Crash, TypeOK
<1>2. ASSUME NEW r \in Requests, Handle(r) PROVE DeliveryAt(s)'
  <2>1. Sole(r, s)
    BY <1>2, HandlesAlone, SoleStep
  <2>2. CASE ~For(r, s) /\ ~For(r, s)'
    BY <1>2, <2>1, <2>2, NotAtHand, Waits DEF Sole, RowKept, TenantKept
  <2>3. CASE For(r, s) \/ For(r, s)'
    <3>1. CASE TopupAdd(r) \/ TopupRead(r) \/ TopupSetQuota(r) \/ TopupUndo(r) \/ Renew(r)
      <4>1. For(r, s)
        BY <2>3, <3>1, StaysAt DEF Topup
      <4> QED BY <2>1, <3>1, <4>1, AddDelivers, ReadDelivers, SetDelivers, UndoDelivers, RenewDelivers
    <3>2. CASE TopupResume(r) \/ TopupActivate(r) \/ TopupRearm(r) \/ Lifecycle(r) \/ Toggle(r)
      BY <2>1, <2>3, <3>2, OtherDelivers
    <3> QED BY <1>2, <3>1, <3>2 DEF Handle, Topup
  <2> QED BY <2>2, <2>3
<1>3. ASSUME NEW r \in Requests, Arrive(r) PROVE DeliveryAt(s)'
  BY <1>3, Arrives, SoleStep, ArriveDelivers
<1> QED BY <1>1, <1>2, <1>3, BackgroundDelivers DEF Next

LEMMA InitDelivers == ASSUME Init, NEW s \in Subs PROVE DeliveryAt(s)
BY DEF Init, DeliveryAt, QuotaGiven, ExpiryGiven, NewTenant, NewRow, IdleRequest, For

\* Whatever goes on at the other subscriptions, requests that overlap there
\* included: as long as no two requests are at s at once, the node grants s the
\* quota and enforces the expiry its row shows whenever no request is at s.
THEOREM EachIsDelivered ==
  ASSUME Calmly, MaxCrashes = 0, NEW s \in Subs
  PROVE  Spec /\ []OneAt(s) => []((\A r \in Requests : ~For(r, s)) => Alike(s))
<1>1. TypeOK /\ OneAt(s) /\ OneAt(s)' /\ DeliveryAt(s) /\ [Next]_vars => DeliveryAt(s)'
  BY NextDelivers
<1>2. Init => DeliveryAt(s)
  BY InitDelivers
<1>3. DeliveryAt(s) => ((\A r \in Requests : ~For(r, s)) => Alike(s))
  BY DEF DeliveryAt, QuotaGiven, ExpiryGiven, Alike
<1> QED BY <1>1, <1>2, <1>3, TypeCorrect, PTL DEF Spec

LEMMA DeliveryKept == ASSUME Calmly, MaxCrashes = 0 PROVE Spec /\ []OneEach => []DeliveryInv
<1>1. TypeOK /\ OneEach /\ OneEach' /\ DeliveryInv /\ [Next]_vars => DeliveryInv'
  BY NextDelivers DEF OneEach, DeliveryInv
<1>2. Init => DeliveryInv
  BY InitDelivers DEF DeliveryInv
<1> QED BY <1>1, <1>2, TypeCorrect, PTL DEF Spec

\* Once its requests are answered a node grants every subscription the quota the
\* panel shows and sells: what topupQuota could not deliver it has taken back.
THEOREM QuotaIsDelivered ==
  ASSUME Calmly, MaxCrashes = 0 PROVE Spec /\ []OneEach => []QuotaDelivered
<1>1. DeliveryInv => QuotaDelivered
  BY DEF DeliveryInv, DeliveryAt, QuotaGiven, QuotaDelivered, Settled, At
<1> QED BY <1>1, DeliveryKept, PTL

\* And it enforces the expiry the panel shows, through renewals that are refused
\* half way and top-ups that send the expiry again.
THEOREM ExpiryIsDelivered ==
  ASSUME Calmly, MaxCrashes = 0 PROVE Spec /\ []OneEach => []ExpiryDelivered
<1>1. DeliveryInv => ExpiryDelivered
  BY DEF DeliveryInv, DeliveryAt, ExpiryGiven, ExpiryDelivered, Settled, At
<1> QED BY <1>1, DeliveryKept, PTL

-----------------------------------------------------------------------------
(* The ways a tenant is left serving. *)

OpsOK == \A r \in Requests : OpFits(req[r])

LEMMA OpsKept == ASSUME TypeOK, OpsOK, [Next]_vars PROVE OpsOK'
<1>1. ASSUME NEW r \in Requests, OpFits(req'[r]), \A q \in Requests \ {r} : req'[q] = req[q]
      PROVE  OpsOK'
  BY <1>1 DEF OpsOK
<1>2. ASSUME NEW r \in Requests, Handle(r) PROVE OpFits(req'[r])
  <2>1. OpFits(req[r]) /\ req[r] \in RequestStates
    BY DEF OpsOK, TypeOK
  <2>2. ASSUME NEW pc, Go(r, pc), pc \in {"switch", "record", "toggle", "mirror"} => req[r].pc = "switch" /\ pc = "record"
        PROVE  OpFits(req'[r])
    BY <2>1, <2>2, GoesOn DEF OpFits
  <2>3. ASSUME Answer(r) PROVE OpFits(req'[r])
    BY <2>3, Answers DEF OpFits
  <2>4. CASE TopupAdd(r) \/ TopupSetQuota(r) \/ TopupUndo(r) \/ TopupResume(r) \/ TopupActivate(r) \/ TopupRearm(r)
    BY <2>2, <2>3, <2>4 DEF TopupAdd, TopupSetQuota, TopupUndo, TopupResume, TopupActivate, TopupRearm
  <2>5. CASE TopupRead(r)
    <3>1. CASE req'[r].pc = "set"
      BY <3>1 DEF OpFits
    <3>2. CASE Answer(r)
      BY <2>3, <3>2
    <3> QED BY <2>1, <2>5, <3>1, <3>2 DEF TopupRead, TypeOK, RequestStates
  <2>6. CASE Renew(r)
    BY <2>2, <2>3, <2>6 DEF Renew, RenewReset, RenewSetQuota, RenewStore
  <2>7. CASE LifecycleCall(r) \/ LifecycleTell(r)
    BY <2>2, <2>3, <2>7 DEF LifecycleCall, LifecycleTell, At
  <2>8. CASE LifecycleStore(r)
    BY <2>2, <2>3, <2>8 DEF LifecycleStore
  <2>9. CASE ToggleCall(r)
    <3>1. req'[r].pc = "mirror" /\ req'[r].op = req[r].op
      BY <2>1, <2>9 DEF ToggleCall, TypeOK, RequestStates
    <3> QED BY <2>1, <2>9, <3>1 DEF OpFits, ToggleCall, At
  <2>10. CASE ToggleSkip(r) \/ ToggleStore(r)
    <3>1. req'[r].pc = "toggle" /\ req'[r].op = req[r].op /\ req[r].pc \in {"toggle", "mirror"}
      BY <2>1, <2>10 DEF ToggleSkip, ToggleStore, At, TypeOK, RequestStates
    <3> QED BY <2>1, <3>1 DEF OpFits
  <2>11. CASE ToggleCustomer(r)
    BY <2>3, <2>11 DEF ToggleCustomer
  <2> QED
    BY <1>2, <2>4, <2>5, <2>6, <2>7, <2>8, <2>9, <2>10, <2>11 DEF Handle, Topup, Lifecycle, Toggle
<1>3. CASE UNCHANGED req
  BY <1>3 DEF OpsOK
<1>4. CASE Crash
  BY <1>4 DEF Crash, OpsOK, OpFits, IdleRequest
<1>5. CASE Collect \/ ServeLate \/ Tick \/ (\E s \in Subs : Traffic(s) \/ Enforce(s)) \/ UNCHANGED vars
  BY <1>3, <1>5 DEF Collect, CollectList, CollectPoll, CollectUsage, CollectSample, CollectNotice,
     CollectMark, CollectStatus, CollectTell, ServeLate, Tick, Traffic, Enforce, vars
<1> QED BY <1>1, <1>2, <1>4, <1>5, HandlesAlone, Arrives DEF Next

LEMMA OpsAlwaysFit == Spec => []OpsOK
<1>1. Init => OpsOK
  BY DEF Init, OpsOK, OpFits, IdleRequest
<1>2. TypeOK /\ OpsOK /\ [Next]_vars => OpsOK'
  BY OpsKept
<1> QED BY <1>1, <1>2, TypeCorrect, PTL DEF Spec

\* A handler writes "suspended" only once the node has suspended the tenant.
OffIsOff(s) ==
  \A r \in Requests : For(r, s) /\ At(r, "record") /\ req[r].op = "suspend" => ~Serves(tenant[s])

\* No step but the known ones leaves s unmetered.
Explained(s) ==
  /\ OffIsOff(s)'
  /\ Unmetered(s)' =>
       Unmetered(s) \/ StaleStatus(s) \/ HalfRenewal(s) \/ DiesHalfWay(s) \/ SparedByNode(s)

\* Status stays as it is; nobody starts to be served.
RowSteady(s) == row'[s].status = row[s].status

NobodyStarts(s) == Serves(tenant'[s]) => Serves(tenant[s])

\* The step is of no handler at s.
LEMMA ElsewhereIsExplained ==
  ASSUME NEW s, OffIsOff(s), RowSteady(s), NobodyStarts(s),
         \A q \in Requests : For(q, s) \/ For(q, s)' => req'[q] = req[q]
  PROVE  Explained(s)
<1>1. ASSUME NEW q \in Requests PROVE SwitchesOn(q, s) => SwitchesOn(q, s)'
  BY DEF SwitchesOn, For
<1>2. Unmetered(s)' => Unmetered(s)
  BY <1>1 DEF Unmetered, SwitchingOn, RowSteady, NobodyStarts
<1>3. OffIsOff(s)'
  BY DEF OffIsOff, NobodyStarts, For, At
<1> QED BY <1>2, <1>3 DEF Explained

\* The step is of the one handler at s, which was not about to switch the row on.
LEMMA SteadyIsExplained ==
  ASSUME NEW s, NEW r \in Requests, Sole(r, s), For(r, s) \/ For(r, s)',
         RowSteady(s), NobodyStarts(s), ~SwitchesOn(r, s), For(r, s)' => req'[r].pc # "record"
  PROVE  Explained(s)
<1>1. \A q \in Requests \ {r} : ~For(q, s) /\ ~For(q, s)'
  BY DEF Sole, For
<1>2. Unmetered(s)' => Unmetered(s)
  BY <1>1 DEF Unmetered, SwitchingOn, SwitchesOn, RowSteady, NobodyStarts
<1>3. OffIsOff(s)'
  BY <1>1 DEF OffIsOff, At
<1> QED BY <1>2, <1>3 DEF Explained

\* Or it leaves the tenant off, the row on, or about to be.
LEMMA SwitchIsExplained ==
  ASSUME NEW s, NEW r \in Requests, Sole(r, s), For(r, s) \/ For(r, s)',
         ~Serves(tenant'[s]) \/ row'[s].status = "active" \/ SwitchesOn(r, s)',
         For(r, s)' /\ req'[r].pc = "record" => req'[r].op # "suspend" \/ ~Serves(tenant'[s])
  PROVE  Explained(s)
<1>1. \A q \in Requests \ {r} : ~For(q, s)'
  BY DEF Sole, For
<1>2. ~Unmetered(s)'
  BY DEF Unmetered, SwitchingOn
<1>3. OffIsOff(s)'
  BY <1>1 DEF OffIsOff, At
<1> QED BY <1>2, <1>3 DEF Explained

LEMMA SteadyWrite ==
  ASSUME TypeOK, NEW s \in Subs, NEW t \in Subs, NEW rw, TryWrite(t, rw), rw.status = row[t].status
  PROVE  RowSteady(s)
BY DEF TypeOK, TryWrite, Write, WriteFails, RowSteady

LEMMA SteadyRows ==
  ASSUME NEW rw \in Rows
  PROVE  /\ \A n \in Nat : QuotaAdded(rw, n).status = rw.status
         /\ \A n \in Nat : QuotaUndone(rw, n).status = rw.status
         /\ \A n \in Nat : UsageUpdated(rw, n).status = rw.status
         /\ \A l \in Levels : Notified(rw, l).status = rw.status
BY DEF Rows, QuotaAdded, QuotaUndone, UsageUpdated, Notified

\* A call for quota switches nobody on or off, nor does one that is refused.
LEMMA SteadyCall ==
  ASSUME TypeOK, Calmly, NEW r \in Requests, NEW s \in Subs, NEW t \in Subs, NEW quota, NEW expire,
         Answered(QuotaCall(r, t, quota, expire)) \/ Failed(QuotaCall(r, t, quota, expire))
  PROVE  NobodyStarts(s)
<1>1. CASE Failed(QuotaCall(r, t, quota, expire))
  BY <1>1, Refused DEF NobodyStarts
<1>2. CASE Answered(QuotaCall(r, t, quota, expire))
  BY <1>2 DEF TypeOK, Tenants, Answered, Serve, QuotaCall, Applied, WithQuota, NobodyStarts, Serves
<1> QED BY <1>1, <1>2

\* A tenant that was told to stop does not serve.
LEMMA SuspendStops ==
  ASSUME TypeOK, NEW r \in Requests, NEW s \in Subs, Answered(Call(r, "suspend", s))
  PROVE  ~Serves(tenant'[s])
<1>1. tenant'[s] = Suspended(tenant[s]) /\ tenant[s] \in Tenants
  BY DEF TypeOK, Answered, Serve, Call, Applied
<1> QED BY <1>1 DEF Suspended, Tenants, Serves

\* A write of a status.
LEMMA StatusWrite ==
  ASSUME TypeOK, NEW s \in Subs, NEW status, Write(s, StatusUpdated(row[s], status))
  PROVE  row'[s].status = status
BY DEF TypeOK, Rows, Write, StatusUpdated

LEMMA ArriveIsExplained ==
  ASSUME TypeOK, NEW s \in Subs, OffIsOff(s), NEW r \in Requests, Sole(r, s), Arrive(r)
  PROVE  Explained(s)
<1>1. RowSteady(s) /\ NobodyStarts(s)
  BY Arrives DEF store, node, RowSteady, NobodyStarts
<1>2. ~SwitchesOn(r, s) /\ req'[r].pc # "record"
  BY Arrives DEF SwitchesOn
<1>3. CASE For(r, s) \/ For(r, s)'
  BY <1>1, <1>2, <1>3, SteadyIsExplained
<1>4. CASE ~For(r, s) /\ ~For(r, s)'
  BY <1>1, <1>4, ElsewhereIsExplained DEF Sole
<1> QED BY <1>3, <1>4

\* The steps of a top-up before it switches the row on, and the last one.
LEMMA TopupIsExplained ==
  ASSUME TypeOK, Calmly, NEW s \in Subs, NEW r \in Requests, Sole(r, s), For(r, s),
         TopupAdd(r) \/ TopupRead(r) \/ TopupSetQuota(r) \/ TopupUndo(r) \/ TopupRearm(r)
  PROVE  Explained(s)
<1>1. \A t \in Subs : row[t] \in Rows
  BY DEF TypeOK
<1>2. req[r].bytes \in Nat
  BY DEF TypeOK, RequestStates
<1>3. /\ UNCHANGED row => RowSteady(s)
      /\ UNCHANGED node => NobodyStarts(s)
  BY DEF RowSteady, NobodyStarts, node
<1>4. RowSteady(s)
  <2>1. CASE TopupAdd(r)
    BY <1>1, <1>2, <2>1, SteadyWrite, SteadyRows DEF TopupAdd, TryWrite
  <2>2. CASE TopupUndo(r)
    BY <1>1, <1>2, <2>2, SteadyWrite, SteadyRows DEF TopupUndo, TryWrite
  <2>3. CASE TopupRearm(r)
    BY <1>1, <2>3, SteadyWrite, SteadyRows, LevelType DEF TopupRearm
  <2> QED BY <1>3, <2>1, <2>2, <2>3 DEF TopupRead, TopupSetQuota, store
<1>5. NobodyStarts(s)
  BY <1>3, SteadyCall DEF TopupAdd, TopupRead, TopupSetQuota, TopupUndo, TopupRearm
<1>6. ~SwitchesOn(r, s)
  BY DEF TopupAdd, TopupRead, TopupSetQuota, TopupUndo, TopupRearm, At, SwitchesOn
<1>7. req'[r].pc \in {"read", "set", "resume", "undo", "idle"}
  <2>1. CASE TopupRead(r)
    BY <2>1, Answers DEF TopupRead, TypeOK, RequestStates
  <2>2. CASE TopupAdd(r) \/ TopupSetQuota(r) \/ TopupUndo(r) \/ TopupRearm(r)
    BY <2>2, GoesOn, Answers DEF TopupAdd, TopupSetQuota, TopupUndo, TopupRearm
  <2> QED BY <2>1, <2>2
<1> QED BY <1>4, <1>5, <1>6, <1>7, SteadyIsExplained

\* Resume is sent, and the row is switched on whatever came of it.
LEMMA ResumeIsExplained ==
  ASSUME TypeOK, Calmly, NEW s \in Subs, NEW r \in Requests, Sole(r, s), For(r, s),
         TopupResume(r) \/ TopupActivate(r)
  PROVE  Explained(s)
<1>1. CASE TopupResume(r)
  <2>1. req'[r].pc = "activate" /\ req'[r].subs = {s}
    BY <1>1, GoesOn DEF TopupResume, For
  <2>2. SwitchesOn(r, s)'
    BY <2>1 DEF SwitchesOn, For
  <2> QED BY <2>1, <2>2, SwitchIsExplained
<1>2. CASE TopupActivate(r)
  <2>1. PICK t \in Subs : For(r, t) /\ Write(t, StatusUpdated(row[t], "active"))
    BY <1>2, Written DEF TopupActivate
  <2>2. row'[t].status = "active" /\ t = s
    BY <2>1, StatusWrite DEF For
  <2>3. req'[r].pc = "rearm"
    BY <1>2, GoesOn DEF TopupActivate
  <2> QED BY <2>2, <2>3, SwitchIsExplained
<1> QED BY <1>1, <1>2

\* The reset reactivates a tenant; its row follows unless SetQuota is refused.
LEMMA RenewIsExplained ==
  ASSUME TypeOK, Calmly, NEW s \in Subs, NEW r \in Requests, Sole(r, s), For(r, s), Renew(r)
  PROVE  Explained(s)
<1>1. CASE RenewReset(r)
  <2>1. req[r].pc = "reset" /\ UNCHANGED row
    BY <1>1 DEF RenewReset, At, store
  <2>2. CASE Go(r, "extend")
    <3>1. req'[r].pc = "extend" /\ SwitchesOn(r, s)'
      BY <2>2, GoesOn DEF SwitchesOn, For
    <3> QED BY <3>1, SwitchIsExplained
  <2>3. ASSUME NEW t \in Subs, Failed(Call(r, "reset", t)), Answer(r) PROVE Explained(s)
    <3>1. RowSteady(s) /\ NobodyStarts(s)
      BY <2>1, <2>3, Refused DEF RowSteady, NobodyStarts
    <3>2. ~SwitchesOn(r, s) /\ req'[r].pc = "idle"
      BY <2>1, <2>3, Answers DEF SwitchesOn
    <3> QED BY <3>1, <3>2, SteadyIsExplained
  <2> QED BY <1>1, <2>2, <2>3 DEF RenewReset
<1>2. CASE RenewSetQuota(r)
  <2>1. CASE Go(r, "store")
    <3>1. req'[r].pc = "store" /\ SwitchesOn(r, s)'
      BY <2>1, GoesOn DEF SwitchesOn, For
    <3> QED BY <3>1, SwitchIsExplained
  <2>2. CASE Answer(r)
    <3>1. At(r, "extend") /\ req'[r].pc = "idle" /\ ~For(r, s)'
      BY <1>2, <2>2, Answers DEF RenewSetQuota, For
    <3>2. HalfRenewal(s)
      BY <3>1 DEF HalfRenewal, At
    <3>3. OffIsOff(s)'
      BY <3>1 DEF OffIsOff, Sole, For
    <3> QED BY <3>2, <3>3 DEF Explained
  <2> QED BY <1>2, <2>1, <2>2 DEF RenewSetQuota
<1>3. CASE RenewStore(r)
  <2>1. PICK t \in Subs : For(r, t) /\ Write(t, Renewed(row[t], req[r].endAt))
    BY <1>3, Written DEF RenewStore
  <2>2. row'[t].status = "active" /\ t = s
    BY <2>1 DEF TypeOK, Rows, Write, Renewed, For
  <2>3. req'[r].pc = "idle"
    BY <1>3, Answers DEF RenewStore
  <2> QED BY <2>2, <2>3, SwitchIsExplained
<1> QED BY <1>1, <1>2, <1>3 DEF Renew

\* Suspend and resume: the row follows the node's answer.
LEMMA LifecycleIsExplained ==
  ASSUME TypeOK, OpsOK, Calmly, NEW s \in Subs, OffIsOff(s), NEW r \in Requests, Sole(r, s), For(r, s),
         Lifecycle(r)
  PROVE  Explained(s)
<1>1. CASE LifecycleCall(r)
  <2>1. PICK t \in Subs :
          /\ For(r, t)
          /\ \/ Answered(Call(r, NodeOp(req[r].op), t)) /\ Go(r, "record")
             \/ Failed(Call(r, NodeOp(req[r].op), t)) /\ Answer(r)
    BY <1>1 DEF LifecycleCall
  <2>2. req[r].pc = "switch" /\ UNCHANGED row /\ t = s /\ req[r].op \in {"suspend", "resume"}
    BY <1>1, <2>1 DEF LifecycleCall, At, store, For, OpsOK, OpFits
  <2>3. CASE Answered(Call(r, NodeOp(req[r].op), t)) /\ Go(r, "record")
    <3>1. req'[r].pc = "record" /\ req'[r].op = req[r].op /\ For(r, s)'
      BY <2>3, GoesOn DEF For
    <3>2. req[r].op = "suspend" => ~Serves(tenant'[s])
      BY <2>2, <2>3, SuspendStops DEF NodeOp
    <3>3. req[r].op = "resume" => SwitchesOn(r, s)'
      BY <3>1 DEF SwitchesOn, TargetStatus
    <3> QED BY <2>2, <3>1, <3>2, <3>3, SwitchIsExplained
  <2>4. CASE Failed(Call(r, NodeOp(req[r].op), t)) /\ Answer(r)
    <3>1. RowSteady(s) /\ NobodyStarts(s)
      BY <2>2, <2>4, Refused DEF RowSteady, NobodyStarts
    <3>2. ~SwitchesOn(r, s) /\ req'[r].pc = "idle"
      BY <2>2, <2>4, Answers DEF SwitchesOn
    <3> QED BY <3>1, <3>2, SteadyIsExplained
  <2> QED BY <2>1, <2>3, <2>4
<1>2. CASE LifecycleStore(r)
  <2>1. PICK t \in Subs :
          For(r, t) /\ Write(t, StatusUpdated(row[t], TargetStatus(req[r].op))) /\ Go(r, "tell")
    BY <1>2 DEF LifecycleStore, WriteFails, Calmly
  <2>2. req[r].pc = "record" /\ UNCHANGED tenant /\ req'[r].pc = "tell" /\ t = s
    BY <1>2, <2>1, GoesOn DEF LifecycleStore, At, node, For
  <2>3. row'[s].status = TargetStatus(req[r].op) /\ req[r].op \in {"suspend", "resume"}
    BY <2>1, <2>2, StatusWrite DEF OpsOK, OpFits
  <2>4. req[r].op = "suspend" => ~Serves(tenant[s])
    BY <2>2 DEF OffIsOff, At
  <2> QED BY <2>2, <2>3, <2>4, SwitchIsExplained DEF TargetStatus
<1>3. CASE LifecycleTell(r)
  <2>1. RowSteady(s) /\ NobodyStarts(s)
    BY <1>3 DEF LifecycleTell, store, node, RowSteady, NobodyStarts
  <2>2. ~SwitchesOn(r, s) /\ req'[r].pc = "idle"
    BY <1>3, Answers DEF LifecycleTell, At, SwitchesOn
  <2> QED BY <2>1, <2>2, SteadyIsExplained
<1> QED BY <1>1, <1>2, <1>3 DEF Lifecycle

\* A toggle goes on when a node refuses, and writes its status all the same.
LEMMA ToggleIsExplained ==
  ASSUME TypeOK, OpsOK, Calmly, NEW s \in Subs, OffIsOff(s), NEW r \in Requests,
         Sole(r, s), For(r, s) \/ For(r, s)', Toggle(r)
  PROVE  Explained(s)
<1>1. OpFits(req[r]) /\ req[r] \in RequestStates
  BY DEF OpsOK, TypeOK
<1>2. CASE ToggleCall(r)
  <2>1. PICK t \in req[r].todo :
          /\ Answered(Call(r, NodeOp(req[r].op), t)) \/ Failed(Call(r, NodeOp(req[r].op), t))
          /\ req' = [req EXCEPT ![r].pc = "mirror", ![r].subs = {t}, ![r].todo = @ \ {t}]
    BY <1>2 DEF ToggleCall
  <2>2. /\ req[r].pc = "toggle" /\ UNCHANGED row /\ t \in Subs
        /\ req[r].op \in {"disable", "enable"}
    BY <1>1, <1>2 DEF ToggleCall, At, store, RequestStates, OpFits
  <2>3. req'[r].pc = "mirror" /\ req'[r].op = req[r].op /\ req'[r].subs = {t}
    BY <1>1, <2>1 DEF TypeOK, RequestStates
  <2>4. CASE t = s /\ req[r].op = "enable"
    <3>1. SwitchesOn(r, s)'
      BY <2>3, <2>4 DEF SwitchesOn, For, TargetStatus
    <3> QED BY <2>3, <3>1, SwitchIsExplained
  <2>5. CASE t # s \/ req[r].op = "disable"
    <3>1. NobodyStarts(s)
      <4>1. CASE Failed(Call(r, NodeOp(req[r].op), t))
        BY <4>1, Refused DEF NobodyStarts
      <4>2. CASE Answered(Call(r, NodeOp(req[r].op), t)) /\ t # s
        <5>1. tenant'[s] = tenant[s]
          BY <2>2, <4>2 DEF TypeOK, Answered, Serve, Call
        <5> QED BY <5>1 DEF NobodyStarts
      <4>3. CASE Answered(Call(r, NodeOp(req[r].op), t)) /\ t = s
        BY <2>5, <4>3, SuspendStops DEF NodeOp, NobodyStarts
      <4> QED BY <2>1, <4>1, <4>2, <4>3
    <3>2. ~SwitchesOn(r, s) /\ RowSteady(s)
      BY <2>2 DEF SwitchesOn, RowSteady
    <3> QED BY <2>3, <3>1, <3>2, SteadyIsExplained
  <2> QED BY <2>2, <2>4, <2>5
<1>3. CASE ToggleSkip(r)
  BY <1>3 DEF ToggleSkip, Calmly
<1>4. CASE ToggleStore(r)
  <2>1. PICK t \in Subs : For(r, t) /\ Write(t, StatusUpdated(row[t], TargetStatus(req[r].op)))
    BY <1>4, Written DEF ToggleStore
  <2>2. req[r].pc = "mirror" /\ UNCHANGED tenant /\ req[r].op \in {"disable", "enable"}
    BY <1>1, <1>4 DEF ToggleStore, At, node, OpFits
  <2>3. req'[r].pc = "toggle" /\ req'[r].op = req[r].op /\ req'[r].subs = {}
    BY <1>1, <1>4 DEF TypeOK, RequestStates, ToggleStore
  <2>4. For(r, s) /\ t = s
    BY <2>1, <2>3 DEF For
  <2>5. row'[s].status = TargetStatus(req[r].op)
    BY <2>1, <2>4, StatusWrite
  <2>6. CASE req[r].op = "enable"
    BY <2>3, <2>5, <2>6, SwitchIsExplained DEF TargetStatus
  <2>7. CASE req[r].op = "disable"
    <3>1. SparedByNode(s)
      BY <2>2, <2>3, <2>4, <2>7 DEF SparedByNode, At
    <3>2. OffIsOff(s)'
      BY <2>3 DEF OffIsOff, Sole, For, At
    <3> QED BY <3>1, <3>2 DEF Explained
  <2> QED BY <2>2, <2>6, <2>7
<1>5. CASE ToggleCustomer(r)
  <2>1. RowSteady(s) /\ NobodyStarts(s)
    BY <1>5 DEF ToggleCustomer, node, RowSteady, NobodyStarts
  <2>2. ~SwitchesOn(r, s) /\ req'[r].pc = "idle"
    BY <1>5, Answers DEF ToggleCustomer, At, SwitchesOn
  <2> QED BY <2>1, <2>2, SteadyIsExplained
<1> QED BY <1>2, <1>3, <1>4, <1>5 DEF Toggle

\* The collector writes one status, the one it polled.
LEMMA CollectIsExplained ==
  ASSUME TypeOK, Calmly, NEW s \in Subs, OffIsOff(s), Collect PROVE Explained(s)
<1>1. UNCHANGED req
  BY DEF Collect, CollectList, CollectPoll, CollectUsage, CollectSample, CollectNotice, CollectMark,
         CollectStatus, CollectTell
<1>2. NobodyStarts(s)
  BY DEF Collect, CollectList, CollectPoll, CollectUsage, CollectSample, CollectNotice, CollectMark,
         CollectStatus, CollectTell, node, NobodyStarts
<1>3. ASSUME RowSteady(s) PROVE Explained(s)
  BY <1>1, <1>2, <1>3, ElsewhereIsExplained
<1>4. ASSUME UNCHANGED row PROVE RowSteady(s)
  BY <1>4 DEF RowSteady
<1>5. CASE CollectUsage
  <2>1. \A t \in Subs : UsageUpdated(row[t], coll.view.used).status = row[t].status
    BY SteadyRows DEF TypeOK, CollectorStates, Views
  <2> QED BY <1>3, <1>5, <2>1, SteadyWrite DEF CollectUsage
<1>6. CASE CollectMark
  <2>1. \A t \in Subs : Notified(row[t], PolledLevel(t)).status = row[t].status
    BY SteadyRows, LevelType DEF TypeOK, PolledLevel
  <2> QED BY <1>3, <1>6, <2>1, SteadyWrite DEF CollectMark
<1>7. CASE CollectStatus
  <2>1. PICK t \in Subs :
          /\ OnSub(t)
          /\ \/ Write(t, StatusUpdated(row[t], coll.view.status))
             \/ UNCHANGED row
    BY <1>7, Written DEF CollectStatus
  <2>2. CASE UNCHANGED row
    BY <1>3, <1>4, <2>2
  <2>3. CASE t # s /\ Write(t, StatusUpdated(row[t], coll.view.status))
    <3>1. row'[s] = row[s]
      BY <2>3 DEF TypeOK, Write
    <3> QED BY <1>3, <3>1 DEF RowSteady
  <2>4. CASE t = s /\ Write(t, StatusUpdated(row[t], coll.view.status))
    <3>1. StaleStatus(s)
      BY <1>7, <2>1, <2>4, StatusWrite DEF StaleStatus, CollectStatus
    <3>2. OffIsOff(s)'
      BY <1>1, <1>2 DEF OffIsOff, NobodyStarts, For, At
    <3> QED BY <3>1, <3>2 DEF Explained
  <2> QED BY <2>1, <2>2, <2>3, <2>4
<1>8. CASE CollectList \/ CollectPoll \/ CollectSample \/ CollectNotice \/ CollectTell
  BY <1>3, <1>4, <1>8 DEF CollectList, CollectPoll, CollectSample, CollectNotice, CollectTell, store
<1> QED BY <1>5, <1>6, <1>7, <1>8 DEF Collect

LEMMA BackgroundIsExplained ==
  ASSUME TypeOK, wire = {}, NEW s \in Subs, OffIsOff(s),
         \/ ServeLate \/ Tick \/ Crash
         \/ \E t \in Subs : Traffic(t) \/ Enforce(t)
         \/ UNCHANGED vars
  PROVE  Explained(s)
<1>1. ~ServeLate
  BY DEF ServeLate
<1>2. ASSUME NEW t \in Subs, Traffic(t) \/ Enforce(t) PROVE Explained(s)
  <2>1. NobodyStarts(s)
    BY <1>2 DEF TypeOK, Traffic, Enforce, NobodyStarts
  <2>2. UNCHANGED <<row, req>>
    BY <1>2 DEF Traffic, Enforce, store
  <2> QED BY <2>1, <2>2, ElsewhereIsExplained DEF RowSteady
<1>3. CASE Tick \/ UNCHANGED vars
  BY <1>3, ElsewhereIsExplained DEF Tick, vars, store, node, RowSteady, NobodyStarts
<1>4. CASE Crash
  <2>1. /\ UNCHANGED <<row, tenant>> /\ crashes' = crashes + 1 /\ crashes \in Nat
        /\ \A r \in Requests : req'[r] = IdleRequest
    BY <1>4 DEF Crash, store, node, TypeOK
  <2>2. OffIsOff(s)'
    BY <2>1 DEF OffIsOff, IdleRequest, For
  <2>3. Unmetered(s)' => Unmetered(s) \/ DiesHalfWay(s)
    BY <2>1 DEF Unmetered, DiesHalfWay
  <2> QED BY <2>2, <2>3 DEF Explained
<1> QED BY <1>1, <1>2, <1>3, <1>4

LEMMA NextIsExplained ==
  ASSUME TypeOK, OpsOK, Calmly, wire = {}, NEW s \in Subs, OneAt(s), OneAt(s)', OffIsOff(s), [Next]_vars
  PROVE  Explained(s)
<1>1. ASSUME NEW r \in Requests, Handle(r) PROVE Explained(s)
  <2>1. Sole(r, s)
    BY <1>1, HandlesAlone, SoleStep
  <2>2. CASE ~For(r, s) /\ ~For(r, s)'
    BY <1>1, <2>1, <2>2, NotAtHand, ElsewhereIsExplained DEF Sole, RowSteady, NobodyStarts
  <2>3. CASE For(r, s) \/ For(r, s)'
    <3>1. CASE Topup(r) \/ Renew(r) \/ Lifecycle(r)
      <4>1. For(r, s)
        BY <2>3, <3>1, StaysAt
      <4> QED BY <2>1, <3>1, <4>1, TopupIsExplained, ResumeIsExplained, RenewIsExplained,
                 LifecycleIsExplained DEF Topup
    <3>2. CASE Toggle(r)
      BY <2>1, <2>3, <3>2, ToggleIsExplained
    <3> QED BY <1>1, <3>1, <3>2 DEF Handle
  <2> QED BY <2>2, <2>3
<1>2. ASSUME NEW r \in Requests, Arrive(r) PROVE Explained(s)
  BY <1>2, Arrives, SoleStep, ArriveIsExplained
<1> QED BY <1>1, <1>2, CollectIsExplained, BackgroundIsExplained DEF Next

\* Where no call is late none is on its way.
LEMMA NothingOnTheWire == ASSUME Calmly PROVE Spec => [](wire = {})
<1>1. Init => wire = {}
  BY DEF Init
<1>2. wire = {} /\ [Next]_vars => (wire = {})'
  <2> SUFFICES ASSUME wire = {}, [Next]_vars PROVE wire' = {}
    OBVIOUS
  <2>1. ASSUME NEW c, Answered(c) \/ Failed(c) PROVE wire' = wire
    BY <2>1, Refused DEF Answered
  <2>2. ASSUME NEW r \in Requests, Arrive(r) PROVE wire' = wire
    BY <2>2 DEF Arrive, ReceiveTopup, ReceiveRenew, ReceiveLifecycle, ReceiveToggle, Receive, node
  <2>3. ASSUME NEW r \in Requests, Topup(r) \/ Renew(r) PROVE wire' = wire
    BY <2>1, <2>3 DEF Topup, TopupAdd, TopupRead, TopupSetQuota, TopupUndo, TopupResume, TopupActivate,
       TopupRearm, Renew, RenewReset, RenewSetQuota, RenewStore, node
  <2>4. ASSUME NEW r \in Requests, Lifecycle(r) \/ Toggle(r) PROVE wire' = wire
    BY <2>1, <2>4 DEF Lifecycle, LifecycleCall, LifecycleStore, LifecycleTell, Toggle, ToggleCall,
       ToggleSkip, ToggleStore, ToggleCustomer, node
  <2>5. CASE Collect
    BY <2>5 DEF Collect, CollectList, CollectPoll, CollectUsage, CollectSample, CollectNotice,
       CollectMark, CollectStatus, CollectTell, node
  <2>6. ~ServeLate
    BY DEF ServeLate
  <2> QED BY <2>2, <2>3, <2>4, <2>5, <2>6 DEF Next, Handle, Traffic, Enforce, Tick, Crash, node, vars
<1> QED BY <1>1, <1>2, PTL DEF Spec

LEMMA InitOff == ASSUME Init, NEW s \in Subs PROVE OffIsOff(s)
BY DEF Init, OffIsOff, IdleRequest, For

\* Beside a running collector, and whatever overlaps at the other subscriptions:
\* as long as no two requests are at s at once, its node is left serving what the
\* panel has switched off in the four known ways only.
THEOREM LeaksOfEachAreKnown ==
  ASSUME Calmly, NEW s \in Subs
  PROVE  Spec /\ []OneAt(s) =>
           [][Unmetered(s)' /\ ~Unmetered(s) =>
                StaleStatus(s) \/ HalfRenewal(s) \/ DiesHalfWay(s) \/ SparedByNode(s)]_vars
<1>1. /\ TypeOK /\ OpsOK /\ wire = {} /\ OneAt(s) /\ OneAt(s)' /\ OffIsOff(s) /\ [Next]_vars
      => /\ OffIsOff(s)'
         /\ [Unmetered(s)' /\ ~Unmetered(s) =>
               StaleStatus(s) \/ HalfRenewal(s) \/ DiesHalfWay(s) \/ SparedByNode(s)]_vars
  BY NextIsExplained DEF Explained
<1>2. Init => OffIsOff(s)
  BY InitOff
<1> QED BY <1>1, <1>2, NothingOnTheWire, TypeCorrect, OpsAlwaysFit, PTL DEF Spec

\* The same of every subscription at once: when clients wait for an answer before
\* they touch a subscription again, every tenant that is served and not polled
\* goes back to a stale poll, a renewal or a panel stopped half way, or a node
\* that refused to suspend.
THEOREM AllLeaksAreKnown == ASSUME Calmly PROVE Spec /\ []OneEach => LeaksAreKnown
<1> DEFINE AllOff == \A s \in Subs : OffIsOff(s)
<1>1. /\ TypeOK /\ OpsOK /\ wire = {} /\ OneEach /\ OneEach' /\ AllOff /\ [Next]_vars
      => /\ AllOff'
         /\ [\A s \in Subs : Unmetered(s)' /\ ~Unmetered(s) =>
               StaleStatus(s) \/ HalfRenewal(s) \/ DiesHalfWay(s) \/ SparedByNode(s)]_vars
  BY NextIsExplained DEF Explained, OneEach
<1>2. Init => AllOff
  BY InitOff
<1> QED BY <1>1, <1>2, NothingOnTheWire, TypeCorrect, OpsAlwaysFit, PTL DEF Spec, LeaksAreKnown

-----------------------------------------------------------------------------
(* Who is disabled is cut off. *)

OffOps == {"suspend", "disable"}

\* The node does not serve s, or is about to be told.
CutOff(s) == ~Serves(tenant[s]) \/ \E c \in wire : c.sub = s

Missed == {s \in Subs : ~CutOff(s)}

OffPCs == {"idle", "switch", "record", "tell", "toggle", "mirror"}

\* Of what a toggle has done, each failed call leaves at most one served.
CutsOff(r) ==
  /\ req[r].pc \in OffPCs
  /\ ~At(r, "idle") => req[r].op \in OffOps
  /\ req[r].pc \in {"toggle", "mirror"} => Cardinality(Missed \ req[r].todo) <= faults

\* Whatever was sent switches off.
OnlyOff ==
  /\ \A c \in wire : c.op = "suspend"
  /\ \A r \in Requests : CutsOff(r)
  /\ customer = "disabled" => Cardinality(Missed) <= faults
  /\ arrived = 0 => customer = "active" /\ \A r \in Requests : req[r] = IdleRequest

\* The one request sent disables nobody.
OneOther ==
  /\ ~(Ops \subseteq OffOps) /\ arrived = 1
  /\ customer = "active"
  /\ \A r \in Requests : req[r].op # "disable"

CutOffInv == NothingSwitchedOn => OnlyOff \/ OneOther

\* A node that is cut off, or is about to be, stays so: nothing else is on its way.
CutOffStays == /\ \A c \in wire' : c.op = "suspend"
               /\ \A s \in Subs : CutOff(s) => CutOff(s)'
               /\ faults' >= faults

LEMMA MissedFinite == IsFiniteSet(Missed) /\ \A T : IsFiniteSet(Missed \ T)
<1>1. Missed \in SUBSET Subs /\ \A T : Missed \ T \in SUBSET Subs
  BY DEF Missed
<1> QED BY <1>1, FS_Subset, ActorsAssumption DEF ActorsAssumption

\* Of fewer, no more are missed.
LEMMA NoMoreMissed ==
  ASSUME NEW A, IsFiniteSet(A), NEW B \in SUBSET A, NEW m \in Nat, NEW n \in Nat, n >= m,
         Cardinality(A) <= m
  PROVE  Cardinality(B) <= n
BY FS_Subset, FS_CardinalityType

\* One more call failed, and one more is missed.
LEMMA OneMoreMissed ==
  ASSUME NEW A, IsFiniteSet(A), NEW s, NEW B \in SUBSET (A \cup {s}), NEW m \in Nat, Cardinality(A) <= m
  PROVE  Cardinality(B) <= m + 1
<1> Cardinality(A) \in Nat
  BY FS_CardinalityType
<1>1. IsFiniteSet(A \cup {s}) /\ Cardinality(A \cup {s}) <= Cardinality(A) + 1
  BY FS_AddElement
<1>2. Cardinality(B) <= Cardinality(A \cup {s}) /\ IsFiniteSet(B)
  BY <1>1, FS_Subset
<1> QED BY <1>1, <1>2, FS_CardinalityType

\* While nodes stay cut off the count of those missed holds.
LEMMA CountHolds ==
  ASSUME TypeOK, faults' \in Nat, CutOffStays
  PROVE  /\ Cardinality(Missed) <= faults => Cardinality(Missed') <= faults'
         /\ \A T : Cardinality(Missed \ T) <= faults => Cardinality(Missed' \ T) <= faults'
<1>1. Missed' \in SUBSET Missed /\ \A T : Missed' \ T \in SUBSET (Missed \ T)
  BY DEF Missed, CutOffStays
<1>2. faults \in Nat /\ faults' \in Nat /\ faults' >= faults
  BY DEF TypeOK, CutOffStays
<1>3. Cardinality(Missed) <= faults => Cardinality(Missed') <= faults'
  BY <1>1, <1>2, MissedFinite, NoMoreMissed
<1>4. ASSUME NEW T, Cardinality(Missed \ T) <= faults PROVE Cardinality(Missed' \ T) <= faults'
  BY <1>1, <1>2, <1>4, MissedFinite, NoMoreMissed
<1> QED BY <1>3, <1>4

LEMMA SuspendedIsCutOff ==
  ASSUME TypeOK, NEW s \in Subs, NEW c, c.op = "suspend", c.sub = s, Serve(c)
  PROVE  /\ ~Serves(tenant'[s])
         /\ \A z \in Subs \ {s} : tenant'[z] = tenant[z]
<1>1. tenant' = [tenant EXCEPT ![s] = Suspended(tenant[s])]
  BY DEF Serve, Applied
<1>2. tenant'[s] = Suspended(tenant[s]) /\ \A z \in Subs \ {s} : tenant'[z] = tenant[z]
  BY <1>1 DEF TypeOK
<1>3. Suspended(tenant[s]).status = "suspended"
  BY DEF TypeOK, Tenants, Suspended
<1> QED BY <1>2, <1>3 DEF Serves

\* A call to suspend s is served, or will be, or was refused.
LEMMA SuspendCutsOff ==
  ASSUME TypeOK, \A c \in wire : c.op = "suspend",
         NEW s \in Subs, NEW c, c.op = "suspend", c.sub = s, Answered(c) \/ Failed(c)
  PROVE  CutOffStays /\ (CutOff(s)' \/ faults' = faults + 1) /\ faults' \in Nat
<1>1. CASE Serve(c) /\ wire' = wire /\ (faults' = faults \/ faults' = faults + 1)
  BY <1>1, SuspendedIsCutOff DEF CutOffStays, CutOff, TypeOK
<1>2. CASE wire' = wire \cup {c} /\ tenant' = tenant /\ faults' = faults + 1
  BY <1>2 DEF CutOffStays, CutOff, TypeOK
<1>3. CASE UNCHANGED <<tenant, wire>> /\ faults' = faults + 1
  BY <1>3 DEF CutOffStays, CutOff, TypeOK
<1> QED BY <1>1, <1>2, <1>3 DEF Answered, Failed

LEMMA BackgroundCutsOff ==
  ASSUME TypeOK, \A c \in wire : c.op = "suspend",
         ServeLate \/ \E s \in Subs : Traffic(s) \/ Enforce(s)
  PROVE  CutOffStays
<1>1. CASE ServeLate
  <2>1. PICK c \in wire : Serve(c) /\ wire' = wire \ {c}
    BY <1>1 DEF ServeLate
  <2>2. c.sub \in Subs /\ c.op = "suspend"
    BY <2>1 DEF TypeOK, Calls
  <2>3. /\ ~Serves(tenant'[c.sub])
        /\ \A z \in Subs \ {c.sub} : tenant'[z] = tenant[z]
    BY <2>1, <2>2, SuspendedIsCutOff
  <2>4. ASSUME NEW s \in Subs, CutOff(s) PROVE CutOff(s)'
    <3>1. CASE s = c.sub
      BY <2>3, <3>1 DEF CutOff
    <3>2. CASE s # c.sub
      BY <2>1, <2>3, <2>4, <3>2 DEF CutOff
    <3> QED BY <3>1, <3>2
  <2>5. faults' >= faults
    BY <1>1 DEF ServeLate, TypeOK
  <2> QED BY <2>1, <2>4, <2>5 DEF CutOffStays
<1>2. ASSUME NEW s \in Subs, Traffic(s) \/ Enforce(s) PROVE CutOffStays
  <2>1. /\ wire' = wire /\ faults' >= faults
        /\ Serves(tenant[s]) /\ \A z \in Subs \ {s} : tenant'[z] = tenant[z]
    BY <1>2 DEF Traffic, Enforce, TypeOK
  <2> QED BY <2>1 DEF CutOffStays, CutOff
<1> QED BY <1>1, <1>2

\* A request that switches off starts with nothing done.
LEMMA ArriveSwitchesOff ==
  ASSUME TypeOK, ~StoreFaults, NEW r \in Requests, Arrive(r)
  PROVE  /\ req'[r].op \in Ops /\ arrived' = arrived + 1
         /\ req'[r].op \in OffOps => CutsOff(r)'
         /\ UNCHANGED <<tenant, wire, faults, customer>>
<1> USE DEF OffOps
<1>1. ASSUME NEW state, Receive(r, state)
      PROVE  req'[r] = state /\ arrived' = arrived + 1 /\ UNCHANGED <<tenant, wire, faults, customer>>
  BY <1>1 DEF TypeOK, Receive, node, store
<1>2. CASE ReceiveLifecycle(r)
  <2>1. PICK op \in Ops \cap {"suspend", "resume"}, s \in Subs :
          Receive(r, [IdleRequest EXCEPT !.pc = "switch", !.op = op, !.subs = {s}])
    BY <1>2 DEF ReceiveLifecycle
  <2> DEFINE state == [IdleRequest EXCEPT !.pc = "switch", !.op = op, !.subs = {s}]
  <2>2. state.pc = "switch" /\ state.op = op
    BY DEF IdleRequest
  <2>3. Receive(r, state)
    BY <2>1
  <2> HIDE DEF state
  <2>4. req'[r].pc = "switch" /\ req'[r].op = op
    BY <1>1, <2>2, <2>3
  <2> QED BY <1>1, <2>3, <2>4 DEF CutsOff, OffPCs, At
<1>3. CASE ReceiveToggle(r)
  <2>1. PICK op \in Ops \cap {"disable", "enable"} :
          Receive(r, [IdleRequest EXCEPT !.pc = "toggle", !.op = op, !.todo = Subs])
    BY <1>3 DEF ReceiveToggle
  <2> DEFINE state == [IdleRequest EXCEPT !.pc = "toggle", !.op = op, !.todo = Subs]
  <2>2. state.pc = "toggle" /\ state.op = op /\ state.todo = Subs
    BY DEF IdleRequest
  <2>3. Receive(r, state)
    BY <2>1
  <2> HIDE DEF state
  <2>4. req'[r].pc = "toggle" /\ req'[r].op = op /\ req'[r].todo = Subs /\ UNCHANGED faults
    BY <1>1, <2>2, <2>3
  <2>5. Missed' \ req'[r].todo = {}
    BY <2>4 DEF Missed
  <2>6. Cardinality(Missed' \ req'[r].todo) = 0 /\ faults \in Nat
    BY <2>5, FS_EmptySet DEF TypeOK
  <2> QED BY <1>1, <2>3, <2>4, <2>6 DEF CutsOff, OffPCs, At
<1>4. CASE ReceiveTopup(r)
  <2>1. PICK s \in Subs, bytes \in Amounts :
          Receive(r, [IdleRequest EXCEPT !.pc = "add", !.op = "topup", !.subs = {s},
                                         !.snap = row[s], !.bytes = bytes])
    BY <1>4 DEF ReceiveTopup
  <2> DEFINE state == [IdleRequest EXCEPT !.pc = "add", !.op = "topup", !.subs = {s},
                                          !.snap = row[s], !.bytes = bytes]
  <2>2. state.op = "topup"
    BY DEF IdleRequest
  <2>3. Receive(r, state)
    BY <2>1
  <2> HIDE DEF state
  <2> QED BY <1>1, <1>4, <2>2, <2>3 DEF ReceiveTopup
<1>5. CASE ReceiveRenew(r)
  <2>1. PICK s \in Subs, days \in RenewDays :
          Receive(r, [IdleRequest EXCEPT !.pc = "reset", !.op = "renew", !.subs = {s},
                                         !.snap = row[s], !.endAt = now + days])
    BY <1>5 DEF ReceiveRenew
  <2> DEFINE state == [IdleRequest EXCEPT !.pc = "reset", !.op = "renew", !.subs = {s},
                                          !.snap = row[s], !.endAt = now + days]
  <2>2. state.op = "renew"
    BY DEF IdleRequest
  <2>3. Receive(r, state)
    BY <2>1
  <2> HIDE DEF state
  <2> QED BY <1>1, <1>5, <2>2, <2>3 DEF ReceiveRenew
<1> QED BY <1>2, <1>3, <1>4, <1>5 DEF Arrive

\* A handler cuts off the subscription it calls for, or its call fails, and says
\* "disabled" once it has done them all.
LEMMA HandleCutsOff ==
  ASSUME TypeOK, faults' \in Nat, ~StoreFaults, OnlyOff, NEW r \in Requests, Handle(r)
  PROVE  CutOffStays /\ CutsOff(r)' /\ (customer' = "disabled" => Cardinality(Missed') <= faults')
<1> USE DEF OffPCs, OffOps
<1>1. CutsOff(r) /\ \A c \in wire : c.op = "suspend"
  BY DEF OnlyOff
<1>2. CASE LifecycleCall(r)
  <2>1. PICK s \in Subs : LET c == Call(r, NodeOp(req[r].op), s) IN
                            \/ Answered(c) /\ Go(r, "record")
                            \/ Failed(c) /\ Answer(r)
    BY <1>2 DEF LifecycleCall
  <2>2. req[r].op \in OffOps /\ customer' = customer
    BY <1>1, <1>2 DEF LifecycleCall, CutsOff, At, store
  <2>3. Call(r, NodeOp(req[r].op), s).op = "suspend" /\ Call(r, NodeOp(req[r].op), s).sub = s
    BY <2>2 DEF Call, NodeOp
  <2>4. CutOffStays
    BY <1>1, <2>1, <2>3, SuspendCutsOff
  <2>5. CutsOff(r)'
    BY <2>1, <2>2, GoesOn, Answers DEF CutsOff, At
  <2> QED BY <2>2, <2>4, <2>5, CountHolds DEF OnlyOff
<1>3. CASE LifecycleStore(r) \/ LifecycleTell(r)
  <2>1. UNCHANGED <<tenant, wire, faults, customer>> /\ (Go(r, "tell") \/ Answer(r)) /\ ~At(r, "idle")
    BY <1>3 DEF LifecycleStore, LifecycleTell, node, store, At
  <2>2. CutOffStays
    BY <1>1, <2>1 DEF CutOffStays, CutOff, TypeOK
  <2>3. CutsOff(r)'
    BY <1>1, <2>1, GoesOn, Answers DEF CutsOff, At
  <2> QED BY <2>1, <2>2, <2>3, CountHolds DEF OnlyOff
<1>4. CASE ToggleCall(r)
  <2>1. PICK s \in req[r].todo :
          /\ Answered(Call(r, NodeOp(req[r].op), s)) \/ Failed(Call(r, NodeOp(req[r].op), s))
          /\ req' = [req EXCEPT ![r].pc = "mirror", ![r].subs = {s}, ![r].todo = @ \ {s}]
    BY <1>4 DEF ToggleCall
  <2>2. req[r].op \in OffOps /\ At(r, "toggle") /\ customer' = customer
    BY <1>1, <1>4 DEF ToggleCall, CutsOff, At, store
  <2>3. Call(r, NodeOp(req[r].op), s).op = "suspend" /\ Call(r, NodeOp(req[r].op), s).sub = s
    BY <2>2 DEF Call, NodeOp
  <2>4. s \in Subs /\ CutOffStays /\ (CutOff(s)' \/ faults' = faults + 1)
    BY <1>1, <2>1, <2>3, SuspendCutsOff DEF TypeOK, RequestStates
  <2>5. req'[r].pc = "mirror" /\ req'[r].op = req[r].op /\ req'[r].todo = req[r].todo \ {s}
    BY <2>1 DEF TypeOK, RequestStates
  <2>6. Cardinality(Missed \ req[r].todo) <= faults /\ IsFiniteSet(Missed \ req[r].todo)
    BY <1>1, <2>2, MissedFinite DEF CutsOff, At
  <2>7. Cardinality(Missed' \ req'[r].todo) <= faults'
    <3>1. CASE CutOff(s)'
      <4>1. Missed' \ req'[r].todo \in SUBSET (Missed \ req[r].todo)
        BY <2>4, <2>5, <3>1 DEF Missed, CutOffStays
      <4>2. faults \in Nat /\ faults' >= faults
        BY <2>4 DEF TypeOK, CutOffStays
      <4> QED BY <2>6, <4>1, <4>2, NoMoreMissed
    <3>2. CASE faults' = faults + 1
      <4>1. Missed' \ req'[r].todo \in SUBSET ((Missed \ req[r].todo) \cup {s})
        BY <2>4, <2>5 DEF Missed, CutOffStays
      <4> QED BY <2>6, <3>2, <4>1, OneMoreMissed DEF TypeOK
    <3> QED BY <2>4, <3>1, <3>2
  <2>8. CutsOff(r)'
    BY <2>2, <2>5, <2>7 DEF CutsOff, At
  <2> QED BY <2>2, <2>4, <2>8, CountHolds DEF OnlyOff
<1>5. CASE ToggleStore(r)
  <2>1. UNCHANGED <<tenant, wire, faults, customer>> /\ At(r, "mirror")
    BY <1>5 DEF ToggleStore, node
  <2>2. req'[r].pc = "toggle" /\ req'[r].op = req[r].op /\ req'[r].todo = req[r].todo
    BY <1>5 DEF ToggleStore, TypeOK, RequestStates
  <2>3. CutOffStays
    BY <1>1, <2>1 DEF CutOffStays, CutOff, TypeOK
  <2>4. Cardinality(Missed' \ req'[r].todo) <= faults'
    BY <1>1, <2>1, <2>2, <2>3, CountHolds DEF CutsOff, At
  <2>5. CutsOff(r)'
    BY <1>1, <2>1, <2>2, <2>4 DEF CutsOff, At
  <2> QED BY <2>1, <2>3, <2>5, CountHolds DEF OnlyOff
<1>6. CASE ToggleCustomer(r)
  <2>1. UNCHANGED <<tenant, wire, faults>> /\ Answer(r) /\ At(r, "toggle") /\ req[r].todo = {}
    BY <1>6 DEF ToggleCustomer, node
  <2>2. CutOffStays
    BY <1>1, <2>1 DEF CutOffStays, CutOff, TypeOK
  <2>3. CutsOff(r)'
    BY <2>1, Answers DEF CutsOff, At
  <2>4. Missed \ req[r].todo = Missed
    BY <2>1
  <2>5. Cardinality(Missed) <= faults
    BY <1>1, <2>1, <2>4 DEF CutsOff, At
  <2> QED BY <2>2, <2>3, <2>5, CountHolds
<1>7. ~Topup(r) /\ ~Renew(r) /\ ~ToggleSkip(r)
  BY <1>1 DEF CutsOff, At, Topup, TopupAdd, TopupRead, TopupSetQuota, TopupUndo, TopupResume, TopupActivate,
              TopupRearm, Renew, RenewReset, RenewSetQuota, RenewStore, ToggleSkip
<1> QED BY <1>2, <1>3, <1>4, <1>5, <1>6, <1>7 DEF Handle, Lifecycle, Toggle

\* A handler's step serves the request it was sent for, or ends.
LEMMA HandleKeepsOp ==
  ASSUME TypeOK, NEW r \in Requests, Handle(r)
  PROVE  /\ req'[r].op \in {req[r].op, "none"} /\ arrived' = arrived /\ req[r] # IdleRequest
         /\ customer' = customer \/ ToggleCustomer(r)
<1>1. ASSUME NEW pc, Go(r, pc) PROVE req'[r].op = req[r].op
  BY <1>1, GoesOn
<1>2. ASSUME Answer(r) PROVE req'[r].op = "none"
  BY <1>2, OneRequest DEF IdleRequest
<1>3. IdleRequest.pc = "idle"
  BY DEF IdleRequest
<1>4. CASE Topup(r)
  <2>1. req'[r].op \in {req[r].op, "none"}
    BY <1>1, <1>2, <1>4 DEF Topup, TopupAdd, TopupRead, TopupSetQuota, TopupUndo, TopupResume, TopupActivate,
                            TopupRearm, TypeOK, RequestStates
  <2> QED BY <1>3, <1>4, <2>1 DEF Topup, TopupAdd, TopupRead, TopupSetQuota, TopupUndo, TopupResume,
             TopupActivate, TopupRearm, At, store, limits
<1>5. CASE Renew(r) \/ Lifecycle(r)
  <2>1. req'[r].op \in {req[r].op, "none"}
    BY <1>1, <1>2, <1>5 DEF Renew, RenewReset, RenewSetQuota, RenewStore, Lifecycle, LifecycleCall,
                            LifecycleStore, LifecycleTell
  <2> QED BY <1>3, <1>5, <2>1 DEF Renew, RenewReset, RenewSetQuota, RenewStore, Lifecycle, LifecycleCall,
             LifecycleStore, LifecycleTell, At, store, limits
<1>6. CASE Toggle(r)
  <2>1. req'[r].op \in {req[r].op, "none"}
    <3>1. CASE ToggleCall(r)
      BY <3>1 DEF ToggleCall, TypeOK, RequestStates
    <3>2. CASE ToggleSkip(r) \/ ToggleStore(r)
      BY <3>2 DEF ToggleSkip, ToggleStore, TypeOK, RequestStates
    <3>3. CASE ToggleCustomer(r)
      BY <1>2, <3>3 DEF ToggleCustomer
    <3> QED BY <1>6, <3>1, <3>2, <3>3 DEF Toggle
  <2> QED BY <1>3, <1>6, <2>1 DEF Toggle, ToggleCall, ToggleSkip, ToggleStore, ToggleCustomer, At, store, limits
<1> QED BY <1>4, <1>5, <1>6 DEF Handle

LEMMA ArrivedGrows ==
  ASSUME TypeOK, [Next]_vars
  PROVE  arrived' >= arrived /\ \A r \in Requests : Arrive(r) => arrived' = arrived + 1
<1>1. ASSUME NEW r \in Requests, Arrive(r) PROVE arrived' = arrived + 1
  BY <1>1 DEF Arrive, ReceiveTopup, ReceiveRenew, ReceiveLifecycle, ReceiveToggle, Receive
<1>2. ASSUME Collect PROVE arrived' = arrived
  BY <1>2 DEF Collect, CollectList, CollectPoll, CollectUsage, CollectSample, CollectNotice,
     CollectMark, CollectStatus, CollectTell, limits
<1>3. ASSUME ServeLate \/ Tick \/ Crash \/ (\E s \in Subs : Traffic(s) \/ Enforce(s)) \/ UNCHANGED vars
      PROVE  arrived' = arrived
  BY <1>3 DEF ServeLate, Tick, Crash, Traffic, Enforce, limits, vars
<1>4. arrived \in Nat /\ (arrived' = arrived \/ arrived' = arrived + 1)
  BY <1>1, <1>2, <1>3, HandleKeepsOp DEF Next, TypeOK
<1> QED BY <1>1, <1>4

LEMMA OneOtherKept ==
  ASSUME TypeOK, OpsOK, OneOther, [Next]_vars, NothingSwitchedOn' PROVE OneOther'
<1>1. arrived = 1 /\ arrived' <= 1 /\ ~(Ops \subseteq OffOps)
  BY DEF OneOther, NothingSwitchedOn, OffOps
<1>2. \A r \in Requests : ~Arrive(r)
  BY <1>1, ArrivedGrows
<1>3. ASSUME NEW r \in Requests, Handle(r) PROVE OneOther'
  <2>1. req'[r].op \in {req[r].op, "none"} /\ arrived' = arrived /\ req[r].op # "disable"
    BY <1>3, HandleKeepsOp DEF OneOther
  <2>2. customer' = "active"
    <3>1. CASE ToggleCustomer(r)
      <4>1. req[r].op = "enable"
        BY <2>1, <3>1 DEF ToggleCustomer, At, OpsOK, OpFits
      <4> QED BY <3>1, <4>1 DEF ToggleCustomer, CustomerStatus, OneOther
    <3> QED BY <1>3, <3>1, HandleKeepsOp DEF OneOther
  <2>3. \A q \in Requests : req'[q].op # "disable"
    BY <1>3, <2>1, HandlesAlone DEF OneOther
  <2> QED BY <1>1, <2>1, <2>2, <2>3 DEF OneOther
<1>4. CASE Collect \/ ServeLate \/ Tick \/ (\E s \in Subs : Traffic(s) \/ Enforce(s)) \/ UNCHANGED vars
  <2>1. UNCHANGED <<req, customer, arrived>>
    BY <1>4 DEF Collect, CollectList, CollectPoll, CollectUsage, CollectSample, CollectNotice,
       CollectMark, CollectStatus, CollectTell, ServeLate, Tick, Traffic, Enforce, store, limits, vars
  <2> QED BY <2>1 DEF OneOther
<1>5. CASE Crash
  BY <1>5 DEF Crash, OneOther, IdleRequest, store
<1> QED BY <1>2, <1>3, <1>4, <1>5 DEF Next

LEMMA OnlyOffKept ==
  ASSUME ~StoreFaults, TypeOK, TypeOK', OnlyOff, [Next]_vars, NothingSwitchedOn' PROVE OnlyOff' \/ OneOther'
<1>1. ASSUME NEW r \in Requests, \A q \in Requests \ {r} : req'[q] = req[q], CutOffStays, CutsOff(r)',
             customer' = "disabled" => Cardinality(Missed') <= faults', arrived' # 0
      PROVE  OnlyOff'
  <2>1. ASSUME NEW q \in Requests \ {r} PROVE CutsOff(q)'
    <3>1. CutsOff(q) /\ req'[q] = req[q]
      BY <1>1, <2>1 DEF OnlyOff
    <3>2. Cardinality(Missed \ req[q].todo) <= faults => Cardinality(Missed' \ req'[q].todo) <= faults'
      BY <1>1, <3>1, CountHolds DEF TypeOK
    <3> QED BY <3>1, <3>2 DEF CutsOff, At
  <2> QED BY <1>1, <2>1 DEF OnlyOff, CutOffStays
<1>2. ASSUME CutOffStays, UNCHANGED <<req, customer, arrived>> PROVE OnlyOff'
  <2>1. ASSUME NEW q \in Requests PROVE CutsOff(q)'
    <3>1. CutsOff(q) /\ req'[q] = req[q]
      BY <1>2 DEF OnlyOff
    <3>2. Cardinality(Missed \ req[q].todo) <= faults => Cardinality(Missed' \ req'[q].todo) <= faults'
      BY <1>2, <3>1, CountHolds DEF TypeOK
    <3> QED BY <3>1, <3>2 DEF CutsOff, At
  <2>2. Cardinality(Missed) <= faults => Cardinality(Missed') <= faults'
    BY <1>2, CountHolds DEF TypeOK
  <2> QED BY <1>2, <2>1, <2>2 DEF OnlyOff, CutOffStays
<1>3. ASSUME UNCHANGED <<tenant, wire>>, faults' >= faults PROVE CutOffStays
  BY <1>3 DEF OnlyOff, CutOffStays, CutOff
<1>4. ASSUME NEW r \in Requests, Arrive(r) PROVE OnlyOff' \/ OneOther'
  <2>1. /\ req'[r].op \in Ops /\ arrived' = arrived + 1
        /\ req'[r].op \in OffOps => CutsOff(r)'
        /\ UNCHANGED <<tenant, wire, faults, customer>>
        /\ \A q \in Requests \ {r} : req'[q] = req[q]
    BY <1>4, ArriveSwitchesOff, Arrives
  <2>2. CutOffStays /\ arrived' # 0
    BY <1>3, <2>1 DEF TypeOK
  <2>3. CASE req'[r].op \in OffOps
    <3>1. customer' = "disabled" => Cardinality(Missed') <= faults'
      BY <2>1, <2>2, CountHolds DEF OnlyOff, TypeOK
    <3> QED BY <1>1, <2>1, <2>2, <2>3, <3>1
  <2>4. CASE req'[r].op \notin OffOps
    <3>1. ~(Ops \subseteq OffOps) /\ arrived' = 1 /\ arrived = 0
      BY <2>1, <2>4 DEF NothingSwitchedOn, OffOps, TypeOK
    <3>2. customer' = "active" /\ \A q \in Requests \ {r} : req'[q].op = "none"
      BY <2>1, <3>1 DEF OnlyOff, IdleRequest
    <3> QED BY <2>4, <3>1, <3>2 DEF OneOther, OffOps
  <2> QED BY <2>3, <2>4
<1>5. ASSUME NEW r \in Requests, Handle(r) PROVE OnlyOff'
  <2>1. arrived' # 0
    BY <1>5, HandleKeepsOp DEF OnlyOff
  <2>2. faults' \in Nat
    BY DEF TypeOK
  <2> QED BY <1>1, <1>5, <2>1, <2>2, HandleCutsOff, HandlesAlone
<1>6. CASE Collect \/ Tick \/ UNCHANGED vars
  <2>1. faults \in Nat
    BY DEF TypeOK
  <2>2. CASE Collect
    <3>1. UNCHANGED <<tenant, wire, req, customer, arrived>>
      BY <2>2 DEF Collect, CollectList, CollectPoll, CollectUsage, CollectSample, CollectNotice,
         CollectMark, CollectStatus, CollectTell, node, store, limits
    <3>2. faults' = faults \/ faults' = faults + 1
      BY <2>2 DEF Collect, CollectList, CollectPoll, CollectUsage, CollectSample, CollectNotice,
         CollectMark, CollectStatus, CollectTell, node
    <3> QED BY <1>2, <1>3, <2>1, <3>1, <3>2
  <2>3. CASE Tick \/ UNCHANGED vars
    BY <1>2, <1>3, <2>1, <2>3 DEF Tick, node, store, vars
  <2> QED BY <1>6, <2>2, <2>3
<1>7. CASE ServeLate \/ \E s \in Subs : Traffic(s) \/ Enforce(s)
  <2>1. UNCHANGED <<req, customer, arrived>>
    BY <1>7 DEF ServeLate, Traffic, Enforce, store, limits
  <2> QED BY <1>2, <1>7, <2>1, BackgroundCutsOff DEF OnlyOff
<1>8. CASE Crash
  <2>1. UNCHANGED <<tenant, wire, customer, faults>> /\ \A r \in Requests : req'[r] = IdleRequest
    BY <1>8 DEF Crash, node, store
  <2>2. CutOffStays /\ IdleRequest.pc = "idle"
    BY <1>3, <2>1 DEF TypeOK, IdleRequest
  <2>3. Cardinality(Missed) <= faults => Cardinality(Missed') <= faults'
    BY <2>2, CountHolds DEF TypeOK
  <2>4. arrived' = arrived
    BY <1>8 DEF Crash
  <2> QED BY <2>1, <2>2, <2>3, <2>4 DEF OnlyOff, CutsOff, CutOffStays, OffPCs, At
<1> QED BY <1>4, <1>5, <1>6, <1>7, <1>8 DEF Next

LEMMA NextCutsOff ==
  ASSUME ~StoreFaults, TypeOK, TypeOK', OpsOK, CutOffInv, [Next]_vars PROVE CutOffInv'
<1> SUFFICES ASSUME NothingSwitchedOn' PROVE OnlyOff' \/ OneOther'
  BY DEF CutOffInv
<1>1. NothingSwitchedOn
  BY ArrivedGrows DEF NothingSwitchedOn, TypeOK
<1> QED BY <1>1, OnlyOffKept, OneOtherKept DEF CutOffInv

\* However many clients disable or suspend at once, whatever replies are lost or
\* late, wherever the panel dies and whatever the collector writes, each failed
\* call leaves at most one subscription of a disabled customer served once every
\* late call is in: toggleCustomer tells every node before it says "disabled",
\* and ignores those that refuse.
THEOREM WhoIsDisabledIsCutOff == ASSUME ~StoreFaults PROVE Spec => []DisabledIsCutOff
<1>1. Init => CutOffInv
  BY DEF Init, CutOffInv, OnlyOff, CutsOff, OffPCs, IdleRequest, At
<1>2. TypeOK /\ TypeOK' /\ OpsOK /\ CutOffInv /\ [Next]_vars => CutOffInv'
  BY NextCutsOff
<1>3. TypeOK /\ CutOffInv => DisabledIsCutOff
  <2> SUFFICES ASSUME TypeOK, OnlyOff, Settled, customer = "disabled"
               PROVE  Cardinality({s \in Subs : Serves(tenant[s])}) <= faults
    BY DEF CutOffInv, OneOther, DisabledIsCutOff
  <2>1. {s \in Subs : Serves(tenant[s])} = Missed
    BY DEF Missed, CutOff, Settled
  <2> QED BY <2>1 DEF OnlyOff
<1> QED BY <1>1, <1>2, <1>3, TypeCorrect, OpsAlwaysFit, PTL DEF Spec
=============================================================================
