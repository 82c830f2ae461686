---------------------------- MODULE AlertsProofs ----------------------------
(***************************************************************************)
(* Theorems about Alerts: what is emitted, marked and lost between the     *)
(* node's decision and the consumer's log, for any subscriptions, requests *)
(* endpoints, queue, faults and number of restarts.                        *)
(***************************************************************************)
EXTENDS Alerts, MeteringProofs, SequenceTheorems

-----------------------------------------------------------------------------
(* The panel of Alerts is Metering. *)

LEMMA PanelSteps == [AlertsNext]_allVars => [Next]_vars
<1>1. CASE UNCHANGED allVars
  BY <1>1 DEF allVars
<1>2. CASE Collector
  BY <1>2 DEF Collector, Notice, TellDecision, Next, Collect
<1>3. ASSUME NEW r \in Requests, Handler(r) PROVE Next
  BY <1>3 DEF Handler, TellOperation, Next, Handle, Lifecycle
<1>4. CASE Surroundings
  BY <1>4 DEF Surroundings, Next
<1>5. CASE Dispatch \/ RegisterWebhook
  BY <1>5 DEF Dispatch, RegisterWebhook, R!Progress, R!Begin, R!Report, R!Finish, R!Register,
              panel, store, node, events, ledger, vars
<1>6. CASE Restart
  BY <1>6 DEF Restart, Next
<1> QED BY <1>1, <1>2, <1>3, <1>4, <1>5, <1>6 DEF AlertsNext

LEMMA PanelIsMetering == AlertsSpec => Spec
<1>1. AlertsInit => Init
  BY DEF AlertsInit
<1> QED BY <1>1, PanelSteps, PTL DEF AlertsSpec, Spec

LEMMA AlertsTypes == AlertsSpec => []TypeOK
BY PanelIsMetering, TypeCorrect, PTL

-----------------------------------------------------------------------------
(* The relay: an event stays on its way until it is final. *)

AlertRecords == [name : EventNames, sub : Subs, period : Nat, quota : Nat, level : Nat]

Reached(e) == e \in InFlight \/ Final(e)

\* While the oldest event is dealt with, each endpoint that wants it is still due,
\* has it in its log, or was given up.
RelayInv ==
  /\ alerts \in Seq(AlertRecords)
  /\ pending \in Seq(1 .. Len(alerts))
  /\ begun => /\ pending # <<>>
              /\ \A ep \in registered : alerts[Head(pending)].name \in Subscription[ep] =>
                   \/ ep \in due
                   \/ <<Head(pending), ep>> \in reported
                   \/ Head(pending) \in lost
  /\ ~begun => due = {}

\* Events are only added, none changes, and none that is on its way or final is
\* ever neither.
NothingLost ==
  /\ Len(alerts') >= Len(alerts)
  /\ \A e \in 1 .. Len(alerts) : alerts'[e] = alerts[e] /\ (Reached(e) => Reached(e)')
  /\ interrupted \subseteq interrupted'

LEMMA Oldest ==
  ASSUME NEW S, NEW q \in Seq(S), q # <<>>
  PROVE  /\ Head(q) = q[1] /\ Head(q) \in S /\ 1 \in 1 .. Len(q) /\ Len(q) \in Nat
         /\ Tail(q) \in Seq(S) /\ Len(Tail(q)) = Len(q) - 1
         /\ \A k \in 1 .. Len(q) - 1 : Tail(q)[k] = q[k + 1]
         /\ Tail(q) # q
BY HeadTailProperties, EmptySeq, LenProperties

LEMMA Added ==
  ASSUME NEW S, NEW q \in Seq(S), NEW x \in S
  PROVE  /\ Append(q, x) \in Seq(S) /\ Append(q, x) # <<>>
         /\ Len(q) \in Nat /\ Len(Append(q, x)) = Len(q) + 1
         /\ \A k \in 1 .. Len(q) : Append(q, x)[k] = q[k]
         /\ Append(q, x)[Len(q) + 1] = x
         /\ q # <<>> => Head(Append(q, x)) = Head(q)
<1>1. Len(q) \in Nat
  BY LenProperties
<1>2. /\ Append(q, x) \in Seq(S) /\ Len(Append(q, x)) = Len(q) + 1
      /\ \A k \in 1 .. Len(q) : Append(q, x)[k] = q[k]
      /\ Append(q, x)[Len(q) + 1] = x
  OBVIOUS
<1>3. Append(q, x) # <<>>
  BY <1>1, <1>2, EmptySeq
<1>4. q # <<>> => Head(Append(q, x)) = Head(q)
  BY <1>1, <1>2, <1>3, Oldest, EmptySeq
<1> QED BY <1>1, <1>2, <1>3, <1>4

\* The relay's event names, one for each alert.
LEMMA NamesCount ==
  ASSUME NEW A, NEW q \in Seq(A)
  PROVE  Len([k \in 1 .. Len(q) |-> q[k].name]) = Len(q)
<1>1. Len(q) \in Nat
  BY LenProperties
<1> QED BY <1>1

LEMMA EmitReaches ==
  ASSUME RelayInv, NEW a \in AlertRecords, Emitted(a), UNCHANGED ghosts
  PROVE  /\ RelayInv' /\ NothingLost
         /\ \E e \in 1 .. Len(alerts') : alerts'[e] = a /\ Reached(e)'
<1>0. PICK e \in Nat : e = Len(alerts) + 1
  BY LenProperties DEF RelayInv
<1>1. /\ alerts' = Append(alerts, a) /\ UNCHANGED <<registered, begun, due, reported, lost, interrupted>>
      /\ \/ pending' = Append(pending, e) /\ dropped' = dropped
         \/ pending' = pending /\ dropped' = dropped \cup {e}
  <2>1. Len([k \in 1 .. Len(alerts) |-> alerts[k].name]) = Len(alerts)
    BY NamesCount DEF RelayInv
  <2> QED BY <1>0, <2>1 DEF Emitted, R!Emit, R!Take, R!Drop, ghosts
<1>2. /\ alerts' \in Seq(AlertRecords) /\ Len(alerts) \in Nat /\ Len(alerts') = Len(alerts) + 1
      /\ \A k \in 1 .. Len(alerts) : alerts'[k] = alerts[k]
      /\ alerts'[e] = a
  BY <1>0, <1>1, Added DEF RelayInv
<1>3. pending \in Seq(1 .. Len(alerts')) /\ e \in 1 .. Len(alerts')
  <2>1. 1 .. Len(alerts) \subseteq 1 .. Len(alerts')
    BY <1>2
  <2> QED BY <1>0, <1>2, <2>1, SeqMonotonic DEF RelayInv
<1>4. /\ pending' \in Seq(1 .. Len(alerts')) /\ InFlight \subseteq InFlight'
      /\ InFlight' \subseteq InFlight \cup {e}
      /\ e \in InFlight' \/ e \in dropped'
      /\ pending # <<>> => pending' # <<>> /\ Head(pending') = Head(pending)
  <2>1. CASE pending' = pending /\ dropped' = dropped \cup {e}
    BY <1>3, <2>1 DEF InFlight
  <2>2. CASE pending' = Append(pending, e)
    <3>1. /\ pending' \in Seq(1 .. Len(alerts')) /\ pending' # <<>>
          /\ Len(pending) \in Nat /\ Len(pending') = Len(pending) + 1
          /\ \A k \in 1 .. Len(pending) : pending'[k] = pending[k]
          /\ pending'[Len(pending) + 1] = e
          /\ pending # <<>> => Head(pending') = Head(pending)
      BY <1>3, <2>2, Added
    <3>2. ASSUME NEW k \in 1 .. Len(pending) PROVE pending[k] \in InFlight'
      <4>1. k \in 1 .. Len(pending') /\ pending'[k] = pending[k]
        BY <3>1
      <4> QED BY <4>1 DEF InFlight
    <3>3. Len(pending) + 1 \in 1 .. Len(pending')
      BY <3>1
    <3>4. e \in InFlight'
      BY <3>1, <3>3 DEF InFlight
    <3>5. ASSUME NEW k \in 1 .. Len(pending') PROVE pending'[k] \in InFlight \cup {e}
      <4>1. k \in 1 .. Len(pending) \/ k = Len(pending) + 1
        BY <3>1
      <4> QED BY <3>1, <4>1 DEF InFlight
    <3> QED BY <3>1, <3>2, <3>4, <3>5 DEF InFlight
  <2> QED BY <1>1, <2>1, <2>2
<1>5. \A k \in 1 .. Len(alerts) : Reached(k) => Reached(k)'
  BY <1>1, <1>2, <1>4 DEF Reached, Final
<1>6. Reached(e)'
  BY <1>4 DEF Reached, Final
<1>7. pending # <<>> => Head(pending) \in 1 .. Len(alerts)
  BY Oldest DEF RelayInv
<1>8. RelayInv'
  BY <1>1, <1>2, <1>4, <1>7 DEF RelayInv
<1> QED BY <1>1, <1>2, <1>3, <1>5, <1>6, <1>8 DEF NothingLost

LEMMA DispatchReaches ==
  ASSUME RelayInv, Dispatch
  PROVE  RelayInv' /\ NothingLost
<1>1. /\ UNCHANGED <<alerts, interrupted>> /\ R!Progress
      /\ lost' = lost \cup {e \in InFlight : e = Head(pending) /\ GaveUp}
  BY DEF Dispatch
<1>2. /\ alerts \in Seq(AlertRecords) /\ Len(alerts) \in Nat
  BY LenProperties DEF RelayInv
<1>3. pending # <<>> => Head(pending) \in InFlight /\ Head(pending) \in 1 .. Len(alerts)
  BY Oldest DEF RelayInv, InFlight
<1>4. CASE R!Begin
  <2>1. /\ UNCHANGED <<registered, pending, dropped, reported>> /\ pending # <<>> /\ begun' = TRUE
        /\ due' = {ep \in registered : alerts[Head(pending)].name \in Subscription[ep]}
    BY <1>3, <1>4 DEF R!Begin
  <2>2. RelayInv'
    BY <1>1, <2>1 DEF RelayInv
  <2> QED BY <1>1, <1>2, <2>1, <2>2 DEF NothingLost, Reached, Final, InFlight
<1>5. CASE R!Report
  <2>1. PICK ep \in due :
          /\ due' = due \ {ep}
          /\ \/ reported' = reported \cup {<<Head(pending), ep>>}
             \/ UNCHANGED reported
    BY <1>5 DEF R!Report
  <2>2. UNCHANGED <<registered, pending, dropped, begun>>
    BY <1>5 DEF R!Report
  <2>3. begun /\ pending # <<>>
    BY <2>1 DEF RelayInv
  <2>4. UNCHANGED reported => Head(pending) \in lost'
    BY <1>1, <1>3, <2>1, <2>3 DEF GaveUp
  <2>5. RelayInv'
    BY <1>1, <2>1, <2>2, <2>4 DEF RelayInv
  <2>6. reported \subseteq reported' /\ lost \subseteq lost'
    BY <1>1, <2>1
  <2> QED BY <1>1, <1>2, <2>2, <2>5, <2>6 DEF NothingLost, Reached, Final, InFlight
<1>6. CASE R!Finish
  <2>1. /\ UNCHANGED <<registered, dropped, due, reported>> /\ pending # <<>>
        /\ pending' = Tail(pending) /\ begun' = FALSE
        /\ (begun /\ due = {}) \/ ~begun
    BY <1>6 DEF R!Finish
  <2>2. /\ pending' \in Seq(1 .. Len(alerts)) /\ pending' # pending
        /\ InFlight \subseteq InFlight' \cup {Head(pending)}
        /\ InFlight' \subseteq InFlight
    <3>1. /\ Head(pending) = pending[1] /\ Len(pending) \in Nat
          /\ pending' \in Seq(1 .. Len(alerts)) /\ Len(pending') = Len(pending) - 1
          /\ \A k \in 1 .. Len(pending) - 1 : pending'[k] = pending[k + 1]
          /\ pending' # pending
      BY <2>1, Oldest DEF RelayInv
    <3>2. ASSUME NEW k \in 1 .. Len(pending), k # 1 PROVE pending[k] \in InFlight'
      <4>1. k - 1 \in 1 .. Len(pending) - 1 /\ pending'[k - 1] = pending[k]
        BY <3>1, <3>2
      <4>2. k - 1 \in 1 .. Len(pending')
        BY <3>1, <4>1
      <4> QED BY <4>1, <4>2 DEF InFlight
    <3>3. ASSUME NEW k \in 1 .. Len(pending') PROVE pending'[k] \in InFlight
      <4>1. k + 1 \in 1 .. Len(pending) /\ pending'[k] = pending[k + 1]
        BY <3>1
      <4> QED BY <4>1 DEF InFlight
    <3> QED BY <2>1, <3>1, <3>2, <3>3 DEF InFlight
  <2>3. Head(pending) \in lost' \/ \A ep \in registered :
          alerts[Head(pending)].name \in Subscription[ep] => <<Head(pending), ep>> \in reported
    <3>1. CASE begun
      BY <1>1, <2>1, <3>1 DEF RelayInv
    <3>2. CASE ~begun
      BY <1>1, <1>3, <2>1, <2>2, <3>2 DEF GaveUp
    <3> QED BY <3>1, <3>2
  <2>4. RelayInv'
    BY <1>1, <2>1, <2>2 DEF RelayInv
  <2>5. lost \subseteq lost'
    BY <1>1
  <2>6. \A e \in 1 .. Len(alerts) : Reached(e) => Reached(e)'
    BY <1>1, <2>1, <2>2, <2>3, <2>5 DEF Reached, Final
  <2> QED BY <1>1, <1>2, <2>4, <2>6 DEF NothingLost
<1> QED BY <1>1, <1>4, <1>5, <1>6 DEF R!Progress

LEMMA QuietReaches ==
  ASSUME RelayInv, UNCHANGED relay, lost' = lost, interrupted \subseteq interrupted'
  PROVE  RelayInv' /\ NothingLost
<1>1. Len(alerts) \in Nat
  BY LenProperties DEF RelayInv
<1> QED BY <1>1 DEF relay, RelayInv, NothingLost, Reached, Final, InFlight

LEMMA RestartReaches ==
  ASSUME RelayInv, Restart
  PROVE  RelayInv' /\ NothingLost
<1>1. /\ UNCHANGED <<alerts, registered, dropped, reported>>
      /\ pending' = <<>> /\ begun' = FALSE /\ due' = {}
      /\ lost' = lost \cup InFlight /\ interrupted \subseteq interrupted'
  BY DEF Restart, R!Die
<1>2. Len(alerts) \in Nat
  BY LenProperties DEF RelayInv
<1>3. InFlight' = {} /\ pending' \in Seq(1 .. Len(alerts))
  BY <1>1, EmptySeq DEF InFlight
<1>4. RelayInv'
  BY <1>1, <1>3 DEF RelayInv
<1> QED BY <1>1, <1>2, <1>3, <1>4 DEF NothingLost, Reached, Final

\* A consumer that registers does so before the first event.
LEMMA RegisterReaches ==
  ASSUME RelayInv, RegisterWebhook
  PROVE  RelayInv' /\ NothingLost
<1>1. /\ UNCHANGED <<alerts, pending, dropped, begun, due, reported, lost, interrupted>>
      /\ alerts = <<>> /\ Len(alerts) = 0
  BY EmptySeq DEF RegisterWebhook, R!Register, ghosts
<1>2. pending = <<>>
  BY <1>1, Oldest DEF RelayInv
<1> QED BY <1>1, <1>2 DEF RelayInv, NothingLost

\* What is emitted.
LEMMA AlertTypes ==
  ASSUME TypeOK, NEW s \in Subs
  PROVE  /\ \A status \in Statuses : StatusAlert(s, status) \in AlertRecords
         /\ UsageAlert(NoticeOf(s)) \in AlertRecords
         /\ PolledLevel(s) \in Levels /\ UsageAlert(NoticeOf(s)).sub = s
         /\ UsageAlert(NoticeOf(s)).level = PolledLevel(s)
         /\ UsageAlert(NoticeOf(s)).period = coll.snaps[s].period
<1>1. ASSUME NEW status \in Statuses PROVE StatusAlert(s, status) \in AlertRecords
  <2>1. StatusName(status) \in EventNames
    <3>1. CASE status = "suspended"
      BY <3>1 DEF StatusName, EventNames
    <3>2. CASE status = "active"
      BY <3>2 DEF StatusName, EventNames
    <3>3. CASE status = "expired"
      BY <3>3 DEF StatusName, EventNames
    <3> QED BY <3>1, <3>2, <3>3 DEF Statuses
  <2> QED BY <2>1 DEF StatusAlert, AlertRecords, Levels
<1>2. coll.snaps[s].period \in Nat /\ coll.snaps[s].quota \in Nat
  BY DEF TypeOK, CollectorStates, Rows
<1>3. PolledLevel(s) \in Levels /\ PolledLevel(s) \in Nat
  BY LevelType DEF PolledLevel, Levels
<1>4. UsageAlert(NoticeOf(s)) \in AlertRecords
  BY <1>2, <1>3 DEF UsageAlert, NoticeOf, EventNames, AlertRecords
<1>5. /\ UsageAlert(NoticeOf(s)).sub = s /\ UsageAlert(NoticeOf(s)).level = PolledLevel(s)
      /\ UsageAlert(NoticeOf(s)).period = coll.snaps[s].period
  BY DEF UsageAlert, NoticeOf
<1> QED BY <1>1, <1>3, <1>4, <1>5

LEMMA EmittedCounts ==
  ASSUME RelayInv, NEW a \in AlertRecords, Emitted(a), UNCHANGED ghosts
  PROVE  RelayInv' /\ NothingLost /\ Accounted(a)'
BY EmitReaches DEF Accounted, Reached

\* The collector's usage event goes out before the row is marked.
LEMMA NoticeCounts ==
  ASSUME TypeOK, RelayInv, Notice
  PROVE  /\ RelayInv' /\ NothingLost
         /\ coll'.pc = "mark" =>
              \A s \in Subs : OnSub(s) => \E a : a = UsageAlert(NoticeOf(s)) /\ Accounted(a)'
<1>1. CollectNotice /\ UNCHANGED ghosts
  BY DEF Notice
<1>2. CASE coll'.pc = "mark"
  <2>1. PICK s \in coll.sub : Emitted(UsageAlert(NoticeOf(s)))
    BY <1>2 DEF Notice
  <2>2. s \in Subs /\ \A t \in Subs : OnSub(t) => t = s
    BY <2>1 DEF TypeOK, CollectorStates, OnSub
  <2>3. PICK a \in AlertRecords : a = UsageAlert(NoticeOf(s))
    BY <2>2, AlertTypes
  <2>4. Emitted(a)
    BY <2>1, <2>3 DEF Emitted, R!Emit, R!Take, R!Drop
  <2>5. RelayInv' /\ NothingLost /\ Accounted(a)'
    BY <1>1, <2>4, EmittedCounts
  <2> QED BY <2>2, <2>3, <2>5
<1>3. CASE coll'.pc # "mark"
  <2>1. UNCHANGED relay
    BY <1>3 DEF Notice
  <2> QED BY <1>1, <1>3, <2>1, QuietReaches DEF ghosts
<1> QED BY <1>2, <1>3

\* So does the event of a status it has written.
LEMMA TellCounts ==
  ASSUME TypeOK, RelayInv, TellDecision
  PROVE  /\ RelayInv' /\ NothingLost
         /\ \A s \in Subs : OnSub(s) => \E a : a = StatusAlert(s, coll.view.status) /\ Accounted(a)'
<1>1. PICK s \in coll.sub : Emitted(StatusAlert(s, coll.view.status)) /\ UNCHANGED ghosts
  BY DEF TellDecision
<1>2. s \in Subs /\ (\A t \in Subs : OnSub(t) => t = s) /\ coll.view.status \in Statuses
  BY <1>1 DEF TypeOK, CollectorStates, Views, OnSub
<1>3. PICK a \in AlertRecords : a = StatusAlert(s, coll.view.status)
  BY <1>2, AlertTypes
<1>4. Emitted(a)
  BY <1>1, <1>3 DEF Emitted, R!Emit, R!Take, R!Drop
<1>5. RelayInv' /\ NothingLost /\ Accounted(a)'
  BY <1>1, <1>4, EmittedCounts
<1> QED BY <1>2, <1>3, <1>5

LEMMA OperationCounts ==
  ASSUME TypeOK, RelayInv, NEW r \in Requests, TellOperation(r)
  PROVE  RelayInv' /\ NothingLost
<1>1. PICK s \in req[r].subs : Emitted(StatusAlert(s, TargetStatus(req[r].op))) /\ UNCHANGED ghosts
  BY DEF TellOperation
<1>2. s \in Subs /\ TargetStatus(req[r].op) \in Statuses
  BY <1>1 DEF TypeOK, RequestStates, TargetStatus, Statuses
<1>3. PICK a \in AlertRecords : a = StatusAlert(s, TargetStatus(req[r].op))
  BY <1>2, AlertTypes
<1>4. Emitted(a)
  BY <1>1, <1>3 DEF Emitted, R!Emit, R!Take, R!Drop
<1> QED BY <1>1, <1>4, EmittedCounts

LEMMA NextReaches ==
  ASSUME TypeOK, RelayInv, [AlertsNext]_allVars
  PROVE  RelayInv' /\ NothingLost
<1>1. Quietly \/ UNCHANGED allVars => RelayInv' /\ NothingLost
  BY QuietReaches DEF Quietly, allVars, ghosts
<1>5. ASSUME NEW subs, Silencing(subs) PROVE RelayInv' /\ NothingLost
  BY <1>5, QuietReaches DEF Silencing
<1>2. CASE Collector
  BY <1>2, <1>5, NoticeCounts, TellCounts DEF Collector
<1>3. ASSUME NEW r \in Requests, Handler(r) PROVE RelayInv' /\ NothingLost
  BY <1>3, <1>5, OperationCounts DEF Handler
<1>4. CASE Surroundings
  BY <1>1, <1>4 DEF Surroundings
<1> QED BY <1>1, <1>2, <1>3, <1>4, DispatchReaches, RegisterReaches, RestartReaches DEF AlertsNext

LEMMA RelayKept == AlertsSpec => []RelayInv
<1>1. AlertsInit => RelayInv
  BY EmptySeq DEF AlertsInit, R!RelayInit, RelayInv
<1>2. TypeOK /\ RelayInv /\ [AlertsNext]_allVars => RelayInv'
  BY NextReaches
<1> QED BY <1>1, <1>2, AlertsTypes, PTL DEF AlertsSpec

\* What is accounted for stays so.
LEMMA StaysAccounted ==
  ASSUME RelayInv, NothingLost, NEW a, Accounted(a)
  PROVE  Accounted(a)'
<1>1. PICK e \in 1 .. Len(alerts) : alerts[e] = a /\ Reached(e)
  BY DEF Accounted, Reached
<1>2. Len(alerts) \in Nat /\ Len(alerts') \in Int
  BY LenProperties DEF RelayInv
<1>3. e \in 1 .. Len(alerts') /\ alerts'[e] = a /\ Reached(e)'
  BY <1>1, <1>2 DEF NothingLost
<1> QED BY <1>3 DEF Accounted, Reached

-----------------------------------------------------------------------------
(* The audit trail. *)

\* Not before, in periods and bytes.
Follows(b, a) == a.period < b.period \/ (a.period = b.period /\ a.used <= b.used)

Readings == [period : Nat, used : Nat]

\* A sample is of the past of what the collector holds, and that of the tenant's.
AuditInv ==
  \A s \in Subs :
    /\ Follows(tenant[s], lastSample[s])
    /\ OnSub(s) => Follows(tenant[s], coll.view)
    /\ OnSub(s) /\ coll.pc \in {"usage", "sample"} => Follows(coll.view, lastSample[s])

\* A tenant never goes back.
LEMMA TenantsFollow ==
  ASSUME TypeOK, [Next]_vars
  PROVE  \A s \in Subs : Follows(tenant'[s], tenant[s])
<1>1. \A t \in Tenants : t.period \in Nat /\ t.used \in Nat
  BY DEF Tenants
<1>2. CASE UNCHANGED tenant
  BY <1>1, <1>2 DEF TypeOK, Follows
<1>3. ASSUME NEW c \in Calls, Serve(c)
      PROVE  \A s \in Subs : Follows(tenant'[s], tenant[s])
  <2>1. \A t \in Tenants : Follows(Applied(t, c), t)
    BY DEF Tenants, Calls, Applied, WithQuota, Resumed, Suspended, PeriodReset, Follows
  <2> QED BY <1>1, <1>3, <2>1 DEF TypeOK, Serve, Calls, Follows
<1>4. ASSUME NEW c \in Calls, Answered(c) \/ Failed(c)
      PROVE  \A s \in Subs : Follows(tenant'[s], tenant[s])
  BY <1>2, <1>3, <1>4 DEF Answered, Failed
<1>5. ASSUME NEW r \in Requests, Handle(r)
      PROVE  \A s \in Subs : Follows(tenant'[s], tenant[s])
  <2>1. /\ \A op \in {"resume", "suspend", "reset"}, s \in Subs : Call(r, op, s) \in Calls
        /\ \A s \in Subs, quota \in Nat, expire \in Nat : QuotaCall(r, s, quota, expire) \in Calls
    BY CallTypes
  <2>2. /\ \A op : NodeOp(op) \in {"resume", "suspend", "reset"}
        /\ req[r].quota \in Nat /\ req[r].snap.endAt \in Nat /\ req[r].snap.quota \in Nat
        /\ req[r].endAt \in Nat /\ req[r].todo \subseteq Subs
    BY DEF NodeOp, TypeOK, RequestStates, Rows
  <2>3. CASE UNCHANGED node
    BY <1>2, <2>3 DEF node
  <2>4. CASE TopupSetQuota(r) \/ RenewSetQuota(r)
    BY <1>4, <2>1, <2>2, <2>4 DEF TopupSetQuota, RenewSetQuota
  <2>5. CASE TopupResume(r) \/ RenewReset(r)
    BY <1>4, <2>1, <2>5 DEF TopupResume, RenewReset
  <2>6. CASE LifecycleCall(r) \/ ToggleCall(r)
    <3>1. PICK s \in Subs : Answered(Call(r, NodeOp(req[r].op), s)) \/ Failed(Call(r, NodeOp(req[r].op), s))
      BY <2>2, <2>6 DEF LifecycleCall, ToggleCall
    <3> QED BY <1>4, <2>1, <2>2, <3>1
  <2> QED BY <1>5, <2>3, <2>4, <2>5, <2>6
          DEF Handle, Topup, Renew, Lifecycle, Toggle, TopupAdd, TopupRead, TopupUndo, TopupActivate,
              TopupRearm, RenewStore, LifecycleStore, LifecycleTell, ToggleSkip, ToggleStore, ToggleCustomer
<1>6. ASSUME NEW s \in Subs, Traffic(s) \/ Enforce(s)
      PROVE  \A t \in Subs : Follows(tenant'[t], tenant[t])
  <2>1. \A t \in Tenants : /\ \A bytes \in Nat : Follows(Metered(t, bytes), t)
                           /\ Follows(Suspended(t), t) /\ Follows(Expired(t), t) /\ Follows(t, t)
    BY DEF Tenants, Metered, Suspended, Expired, Follows
  <2>2. PICK new : /\ tenant' = [tenant EXCEPT ![s] = new] /\ Follows(new, tenant[s])
    BY <1>6, <2>1, SizesAssumption DEF TypeOK, SizesAssumption, Traffic, Enforce
  <2> QED BY <2>1, <2>2 DEF TypeOK
<1>7. CASE ServeLate
  BY <1>3, <1>7 DEF ServeLate, TypeOK
<1> QED BY <1>2, <1>5, <1>6, <1>7, Arrives
        DEF Next, Collect, CollectList, CollectPoll, CollectUsage, CollectSample, CollectNotice,
            CollectMark, CollectStatus, CollectTell, Tick, Crash, vars, node

\* What a step of the collector does to what it holds.
LEMMA CollectorHolds ==
  ASSUME TypeOK, Collect
  PROVE  /\ UNCHANGED <<tenant, req>>
         /\ \/ coll'.sub = {}
            \/ \E s \in Subs : /\ coll.pc = "next" /\ lastSample' = lastSample
                               /\ coll'.pc = "usage" /\ coll'.sub = {s} /\ coll'.view = UsageView(tenant[s])
            \/ /\ coll'.sub = coll.sub /\ coll'.view = coll.view
               /\ coll'.pc \in {"usage", "sample"} =>
                    coll.pc \in {"usage", "sample"} /\ lastSample' = lastSample
<1>1. UNCHANGED <<tenant, req>>
  BY DEF Collect, CollectList, CollectPoll, CollectUsage, CollectSample, CollectNotice,
         CollectMark, CollectStatus, CollectTell, node
<1>2. coll \in CollectorStates
  BY DEF TypeOK
<1>3. IdleCollector.sub = {} /\ (NextSub => coll'.sub = {})
  <2>1. IdleCollector.sub = {}
    BY DEF IdleCollector
  <2> QED BY <1>2, <2>1 DEF NextSub, CollectorStates
<1>4. CASE CollectList
  <2>1. coll'.sub = {}
    BY <1>4 DEF CollectList, IdleCollector
  <2> QED BY <1>1, <2>1
<1>5. CASE CollectPoll
  <2>1. coll.pc = "next" /\ UNCHANGED lastSample
    BY <1>5 DEF CollectPoll, CollAt
  <2>2. coll.todo \subseteq Subs
    BY <1>2 DEF CollectorStates
  <2>3. PICK s \in coll.todo :
          \/ coll' = [coll EXCEPT !.pc = "usage", !.todo = @ \ {s}, !.sub = {s}, !.view = UsageView(tenant[s])]
          \/ coll' = IdleCollector
          \/ coll' = [coll EXCEPT !.todo = @ \ {s}]
    BY <1>5 DEF CollectPoll
  <2> QED BY <1>1, <1>2, <1>3, <2>1, <2>2, <2>3 DEF CollectorStates
<1>6. CASE CollectUsage \/ CollectNotice \/ CollectMark \/ CollectSample \/ CollectStatus \/ CollectTell
  <2>1. \A pc : CollGo(pc) => coll'.pc = pc /\ coll'.sub = coll.sub /\ coll'.view = coll.view
    BY <1>2 DEF CollectorStates, CollGo
  <2>2. CASE CollectUsage
    <3>1. coll.pc = "usage" /\ UNCHANGED lastSample /\ CollGo("sample")
      BY <2>2 DEF CollectUsage, CollAt
    <3> QED BY <1>1, <2>1, <3>1
  <2>3. CASE CollectNotice \/ CollectMark \/ CollectSample \/ CollectStatus \/ CollectTell
    <3>1. NextSub \/ \E pc \in {"notice", "mark", "status", "tell"} : CollGo(pc)
      BY <2>3 DEF CollectNotice, CollectMark, CollectSample, CollectStatus, CollectTell
    <3> QED BY <1>1, <1>3, <2>1, <3>1
  <2> QED BY <1>6, <2>2, <2>3
<1> QED BY <1>4, <1>5, <1>6 DEF Collect

LEMMA Passing ==
  ASSUME NEW a, NEW b, NEW c, a.period \in Nat, b.period \in Nat, c.period \in Nat,
         a.used \in Nat, b.used \in Nat, c.used \in Nat, Follows(b, a), Follows(c, b)
  PROVE  Follows(c, a)
BY DEF Follows

LEMMA ReadingTypes ==
  ASSUME TypeOK
  PROVE  /\ \A s \in Subs : /\ tenant[s].period \in Nat /\ tenant[s].used \in Nat
                            /\ lastSample[s].period \in Nat /\ lastSample[s].used \in Nat
         /\ coll.view.period \in Nat /\ coll.view.used \in Nat
BY DEF TypeOK, Tenants, CollectorStates, Views

\* Only the collector files a sample, and it files what it holds.
LEMMA SampleIsHeld ==
  ASSUME TypeOK, [Next]_vars
  PROVE  \/ UNCHANGED lastSample
         \/ /\ CollectSample /\ coll.pc = "sample"
            /\ \E s \in Subs : /\ OnSub(s) /\ \A t \in Subs \ {s} : lastSample'[t] = lastSample[t]
                               /\ lastSample'[s].period = coll.view.period
                               /\ lastSample'[s].used = coll.view.used
<1>1. CASE CollectSample
  BY <1>1 DEF TypeOK, CollectSample, CollAt, Sample
<1>2. CASE ~CollectSample
  <2>1. ASSUME NEW r \in Requests, Handle(r) PROVE UNCHANGED lastSample
    BY <2>1 DEF Handle, Topup, Renew, Lifecycle, Toggle, TopupAdd, TopupRead, TopupSetQuota, TopupUndo,
                TopupResume, TopupActivate, TopupRearm, RenewReset, RenewSetQuota, RenewStore,
                LifecycleCall, LifecycleStore, LifecycleTell, ToggleCall, ToggleSkip, ToggleStore,
                ToggleCustomer
  <2> QED BY <1>2, <2>1, Arrives
          DEF Next, Collect, CollectList, CollectPoll, CollectUsage, CollectNotice, CollectMark,
              CollectStatus, CollectTell, Traffic, Enforce, ServeLate, Tick, Crash, vars
<1> QED BY <1>1, <1>2

\* What else there is leaves the collector as it is, or dead.
LEMMA CollectorAlone ==
  ASSUME TypeOK, [Next]_vars
  PROVE  Collect \/ Crash \/ UNCHANGED coll
<1>1. ASSUME NEW r \in Requests, Handle(r) PROVE UNCHANGED coll
  BY <1>1 DEF Handle, Topup, Renew, Lifecycle, Toggle, TopupAdd, TopupRead, TopupSetQuota, TopupUndo,
              TopupResume, TopupActivate, TopupRearm, RenewReset, RenewSetQuota, RenewStore,
              LifecycleCall, LifecycleStore, LifecycleTell, ToggleCall, ToggleSkip, ToggleStore,
              ToggleCustomer
<1> QED BY <1>1, Arrives DEF Next, Traffic, Enforce, ServeLate, Tick, vars

LEMMA AuditKept ==
  ASSUME TypeOK, TypeOK', AuditInv, [Next]_vars
  PROVE  AuditInv'
<1>0. \A s \in Subs : tenant'[s].period \in Nat /\ tenant'[s].used \in Nat
  BY DEF TypeOK, Tenants
<1>1. \A s \in Subs : Follows(tenant'[s], lastSample[s])
  BY <1>0, TenantsFollow, ReadingTypes, Passing DEF AuditInv
<1>2. \A s \in Subs : OnSub(s) => Follows(tenant'[s], coll.view)
  BY <1>0, TenantsFollow, ReadingTypes, Passing DEF AuditInv
<1>3. \A s \in Subs : Follows(tenant'[s], lastSample'[s])
  BY <1>1, <1>2, SampleIsHeld DEF Follows
<1>4. CASE Crash
  <2>1. \A s \in Subs : ~OnSub(s)'
    BY <1>4 DEF Crash, IdleCollector, OnSub
  <2> QED BY <1>3, <2>1 DEF AuditInv
<1>5. CASE UNCHANGED coll
  <2>1. ~CollectSample
    BY <1>5 DEF CollectSample, CollAt, CollGo, TypeOK, CollectorStates
  <2>2. UNCHANGED lastSample
    BY <2>1, SampleIsHeld
  <2> QED BY <1>2, <1>3, <1>5, <2>2 DEF AuditInv, OnSub
<1>6. CASE Collect
  <2>1. CASE coll'.sub = {}
    <3>1. \A s \in Subs : ~OnSub(s)'
      BY <2>1 DEF OnSub
    <3> QED BY <1>3, <3>1 DEF AuditInv
  <2>2. ASSUME NEW s \in Subs, coll.pc = "next", lastSample' = lastSample, UNCHANGED tenant,
               coll'.sub = {s}, coll'.view = UsageView(tenant[s])
        PROVE  AuditInv'
    <3>1. coll'.view.period = tenant[s].period /\ coll'.view.used = tenant[s].used
      BY <2>2 DEF UsageView
    <3>2. Follows(tenant'[s], coll'.view) /\ Follows(coll'.view, lastSample'[s])
      BY <1>3, <2>2, <3>1, ReadingTypes DEF Follows
    <3> QED BY <1>3, <2>2, <3>2 DEF AuditInv, OnSub
  <2>3. CASE /\ coll'.sub = coll.sub /\ coll'.view = coll.view
             /\ coll'.pc \in {"usage", "sample"} =>
                  coll.pc \in {"usage", "sample"} /\ lastSample' = lastSample
    BY <1>2, <1>3, <2>3 DEF AuditInv, OnSub
  <2> QED BY <1>6, <2>1, <2>2, <2>3, CollectorHolds
<1> QED BY <1>4, <1>5, <1>6, CollectorAlone

LEMMA InitAudit == Init => AuditInv
BY DEF Init, AuditInv, IdleCollector, OnSub, NewTenant, Follows

\* The billing audit trail of a tenant never goes back, whatever the collector
\* polls late, whatever is renewed meanwhile and wherever the panel dies.
THEOREM AuditIsMonotone == AlertsSpec => AuditMonotone
<1>1. ASSUME TypeOK, AuditInv, [AlertsNext]_allVars
      PROVE  \A s \in Subs :
               \/ lastSample[s].period < lastSample'[s].period
               \/ /\ lastSample[s].period = lastSample'[s].period
                  /\ lastSample[s].used <= lastSample'[s].used
  <2>1. \/ UNCHANGED lastSample
        \/ /\ coll.pc = "sample"
           /\ \E s \in Subs : /\ OnSub(s) /\ \A t \in Subs \ {s} : lastSample'[t] = lastSample[t]
                              /\ lastSample'[s].period = coll.view.period
                              /\ lastSample'[s].used = coll.view.used
    BY <1>1, PanelSteps, SampleIsHeld
  <2> QED BY <1>1, <2>1, ReadingTypes DEF AuditInv, Follows
<1>2. AlertsSpec => []AuditInv
  <2>1. Init => AuditInv
    BY InitAudit
  <2>2. TypeOK /\ TypeOK' /\ AuditInv /\ [Next]_vars => AuditInv'
    BY AuditKept
  <2> QED BY <2>1, <2>2, PanelIsMetering, TypeCorrect, PTL DEF Spec
<1>3. AlertsSpec => [][AlertsNext]_allVars
  BY PTL DEF AlertsSpec
<1> QED BY <1>1, <1>2, <1>3, AlertsTypes, PTL DEF AuditMonotone

-----------------------------------------------------------------------------
(* What becomes of a row. *)

\* No row is newly shown as expired.
NoneExpires == \A s \in Subs : row'[s].status = "expired" => row[s].status = "expired"

\* Levels stay as they are; a renewal starts them again, in a new period.
LevelsKept ==
  \A s \in Subs :
    \/ row'[s].notified = row[s].notified /\ row'[s].period = row[s].period
    \/ row'[s].notified = 0 /\ row'[s].period = row[s].period + 1

LEMMA WriteMoves ==
  ASSUME TypeOK, NEW s \in Subs, NEW rw, TryWrite(s, rw)
  PROVE  /\ rw.status # "expired" \/ rw.status = row[s].status => NoneExpires
         /\ rw.notified = row[s].notified /\ rw.period = row[s].period => LevelsKept
         /\ rw.notified = 0 /\ rw.period = row[s].period + 1 => LevelsKept
BY DEF TypeOK, TryWrite, Write, WriteFails, NoneExpires, LevelsKept

LEMMA RowMoves ==
  ASSUME NEW rw \in Rows, NEW bytes \in Nat, NEW status \in Statuses, NEW level \in Levels, NEW endAt \in Nat
  PROVE  /\ QuotaAdded(rw, bytes).status = rw.status /\ QuotaAdded(rw, bytes).notified = rw.notified
         /\ QuotaAdded(rw, bytes).period = rw.period
         /\ QuotaUndone(rw, bytes).status = rw.status /\ QuotaUndone(rw, bytes).notified = rw.notified
         /\ QuotaUndone(rw, bytes).period = rw.period
         /\ UsageUpdated(rw, bytes).status = rw.status /\ UsageUpdated(rw, bytes).notified = rw.notified
         /\ UsageUpdated(rw, bytes).period = rw.period
         /\ StatusUpdated(rw, status).status = status /\ StatusUpdated(rw, status).notified = rw.notified
         /\ StatusUpdated(rw, status).period = rw.period
         /\ Notified(rw, level).status = rw.status /\ Notified(rw, level).notified = level
         /\ Notified(rw, level).period = rw.period
         /\ Renewed(rw, endAt).status = "active" /\ Renewed(rw, endAt).notified = 0
         /\ Renewed(rw, endAt).period = rw.period + 1
<1>1. /\ QuotaAdded(rw, bytes).status = rw.status /\ QuotaAdded(rw, bytes).notified = rw.notified
      /\ QuotaAdded(rw, bytes).period = rw.period
      /\ QuotaUndone(rw, bytes).status = rw.status /\ QuotaUndone(rw, bytes).notified = rw.notified
      /\ QuotaUndone(rw, bytes).period = rw.period
  BY DEF Rows, QuotaAdded, QuotaUndone
<1>2. /\ UsageUpdated(rw, bytes).status = rw.status /\ UsageUpdated(rw, bytes).notified = rw.notified
      /\ UsageUpdated(rw, bytes).period = rw.period
      /\ StatusUpdated(rw, status).status = status /\ StatusUpdated(rw, status).notified = rw.notified
      /\ StatusUpdated(rw, status).period = rw.period
  BY DEF Rows, UsageUpdated, StatusUpdated
<1>3. /\ Notified(rw, level).status = rw.status /\ Notified(rw, level).notified = level
      /\ Notified(rw, level).period = rw.period
      /\ Renewed(rw, endAt).status = "active" /\ Renewed(rw, endAt).notified = 0
      /\ Renewed(rw, endAt).period = rw.period + 1
  BY DEF Rows, Notified, Renewed
<1> QED BY <1>1, <1>2, <1>3

\* A handler switches rows on and off, renews them, and re-arms them.
LEMMA HandlerMoves ==
  ASSUME TypeOK, NEW r \in Requests, Handle(r)
  PROVE  NoneExpires /\ (LevelsKept \/ At(r, "rearm")) /\ UNCHANGED <<coll, notices>>
<1>1. UNCHANGED <<coll, notices>>
  BY DEF Handle, Topup, Renew, Lifecycle, Toggle, TopupAdd, TopupRead, TopupSetQuota, TopupUndo,
         TopupResume, TopupActivate, TopupRearm, RenewReset, RenewSetQuota, RenewStore,
         LifecycleCall, LifecycleStore, LifecycleTell, ToggleCall, ToggleSkip, ToggleStore,
         ToggleCustomer, events
<1>2. /\ \A s \in Subs : row[s] \in Rows
      /\ req[r].bytes \in Nat /\ req[r].endAt \in Nat
      /\ TargetStatus(req[r].op) \in {"active", "suspended"}
      /\ {"active", "suspended"} \subseteq Statuses /\ 0 \in Nat /\ 0 \in Levels
  BY DEF TypeOK, RequestStates, TargetStatus, Statuses, Levels
<1>3. CASE UNCHANGED row
  BY <1>1, <1>3 DEF NoneExpires, LevelsKept
<1>4. CASE TopupAdd(r) \/ TopupUndo(r)
  <2>1. PICK s \in Subs :
          TryWrite(s, QuotaAdded(row[s], req[r].bytes)) \/ TryWrite(s, QuotaUndone(row[s], req[r].bytes))
    BY <1>4 DEF TopupAdd, TopupUndo, TryWrite
  <2>2. PICK rw : /\ TryWrite(s, rw) /\ rw.status = row[s].status
                  /\ rw.notified = row[s].notified /\ rw.period = row[s].period
    BY <1>2, <2>1, RowMoves
  <2> QED BY <1>1, <2>2, WriteMoves
<1>5. CASE TopupActivate(r) \/ LifecycleStore(r) \/ ToggleStore(r)
  <2>1. PICK s \in Subs, status \in {"active", "suspended"} : TryWrite(s, StatusUpdated(row[s], status))
    BY <1>2, <1>5 DEF TopupActivate, LifecycleStore, ToggleStore, TryWrite
  <2> DEFINE rw == StatusUpdated(row[s], status)
  <2>2. rw.status = status /\ rw.notified = row[s].notified /\ rw.period = row[s].period
    BY <1>2, RowMoves
  <2> HIDE DEF rw
  <2>3. TryWrite(s, rw)
    BY <2>1 DEF rw
  <2> QED BY <1>1, <2>2, <2>3, WriteMoves
<1>6. CASE RenewStore(r)
  <2>1. PICK s \in Subs : TryWrite(s, Renewed(row[s], req[r].endAt))
    BY <1>6 DEF RenewStore
  <2> DEFINE rw == Renewed(row[s], req[r].endAt)
  <2>2. rw.status = "active" /\ rw.notified = 0 /\ rw.period = row[s].period + 1
    BY <1>2, RowMoves
  <2> HIDE DEF rw
  <2>3. TryWrite(s, rw)
    BY <2>1 DEF rw
  <2> QED BY <1>1, <2>2, <2>3, WriteMoves
<1>7. CASE TopupRearm(r)
  <2>1. PICK s \in Subs, level \in Levels : TryWrite(s, Notified(row[s], level))
    BY <1>7, LevelType DEF TopupRearm
  <2> DEFINE rw == Notified(row[s], level)
  <2>2. rw.status = row[s].status
    BY <1>2, RowMoves
  <2> HIDE DEF rw
  <2>3. TryWrite(s, rw)
    BY <2>1 DEF rw
  <2> QED BY <1>1, <1>7, <2>2, <2>3, WriteMoves DEF TopupRearm
<1> QED BY <1>3, <1>4, <1>5, <1>6, <1>7
        DEF Handle, Topup, Renew, Lifecycle, Toggle, TopupRead, TopupSetQuota, TopupResume,
            RenewReset, RenewSetQuota, LifecycleCall, LifecycleTell, ToggleCall, ToggleSkip,
            ToggleCustomer, store

\* Steps of Alerts that are not the collector's, and no restart.
LEMMA OthersMove ==
  ASSUME TypeOK, [AlertsNext]_allVars, ~Collector, ~Restart
  PROVE  /\ NoneExpires /\ UNCHANGED <<coll, notices>>
         /\ LevelsKept \/ \E r \in Requests : Handler(r) /\ At(r, "rearm")
<1>1. ASSUME NEW r \in Requests, Handler(r)
      PROVE  NoneExpires /\ (LevelsKept \/ At(r, "rearm")) /\ UNCHANGED <<coll, notices>>
  <2>1. Handle(r)
    BY <1>1 DEF Handler, TellOperation, Handle, Lifecycle
  <2> QED BY <2>1, HandlerMoves
<1>2. CASE UNCHANGED <<row, coll, notices>>
  BY <1>2 DEF NoneExpires, LevelsKept
<1>3. CASE Surroundings
  <2>1. UNCHANGED <<row, coll, notices>>
    BY <1>3, Arrives DEF Surroundings, Traffic, Enforce, ServeLate, Tick, store, events
  <2> QED BY <1>2, <2>1
<1>4. CASE Dispatch \/ RegisterWebhook \/ UNCHANGED allVars
  <2>1. UNCHANGED <<row, coll, notices>>
    BY <1>4 DEF Dispatch, RegisterWebhook, panel, store, events, allVars, vars
  <2> QED BY <1>2, <2>1
<1> QED BY <1>1, <1>3, <1>4 DEF AlertsNext

-----------------------------------------------------------------------------
(* Expiries. *)

\* The collector has written the expiry and is about to emit its event.
Expiring(s) == CollAt("tell") /\ OnSub(s) /\ coll.view.status = "expired"

ExpiryInv ==
  \A s \in Subs :
    row[s].status = "expired" =>
      \/ Expiring(s)
      \/ StatusAlert(s, "expired") \in interrupted
      \/ Accounted(StatusAlert(s, "expired"))

LEMMA SettledExpiry ==
  ASSUME RelayInv, NothingLost, NEW s \in Subs,
         StatusAlert(s, "expired") \in interrupted \/ Accounted(StatusAlert(s, "expired"))
  PROVE  StatusAlert(s, "expired") \in interrupted' \/ Accounted(StatusAlert(s, "expired"))'
<1>1. PICK a : a = StatusAlert(s, "expired")
  OBVIOUS
<1>2. a \in interrupted' \/ Accounted(a)'
  BY <1>1, StaysAccounted DEF NothingLost
<1>3. Accounted(a)' => Accounted(StatusAlert(s, "expired"))'
  BY <1>1 DEF Accounted
<1> QED BY <1>1, <1>2, <1>3

LEMMA ExpiryKept ==
  ASSUME TypeOK, RelayInv, ExpiryInv, [AlertsNext]_allVars
  PROVE  ExpiryInv'
<1>1. RelayInv' /\ NothingLost
  BY NextReaches
\* At a step that starts with nothing to tell, a row is newly expired only if it is told next.
<1>2. ASSUME ~CollAt("tell"),
             \A s \in Subs : row'[s].status = "expired" => row[s].status = "expired" \/ Expiring(s)'
      PROVE  ExpiryInv'
  <2>1. \A s \in Subs : ~Expiring(s)
    BY <1>2 DEF Expiring
  <2> QED BY <1>1, <1>2, <2>1, SettledExpiry DEF ExpiryInv
<1>3. CASE Collector
  <2>1. coll \in CollectorStates /\ \A s \in Subs : row[s] \in Rows
    BY DEF TypeOK
  <2>2. CASE Notice \/ CollectList \/ CollectPoll \/ CollectSample
    BY <1>2, <2>2 DEF Notice, CollectNotice, CollectList, CollectPoll, CollectSample, CollAt, store
  <2>3. CASE CollectUsage \/ CollectMark
    <3>1. coll.view.used \in Nat /\ \A s \in Subs : PolledLevel(s) \in Levels
      BY <2>1, AlertTypes DEF CollectorStates, Views
    <3>2. PICK s \in Subs :
            TryWrite(s, UsageUpdated(row[s], coll.view.used)) \/ TryWrite(s, Notified(row[s], PolledLevel(s)))
      BY <2>3 DEF CollectUsage, CollectMark
    <3>3. PICK rw : TryWrite(s, rw) /\ rw.status = row[s].status
      BY <2>1, <3>1, <3>2 DEF Rows, UsageUpdated, Notified
    <3>4. NoneExpires
      BY <3>3, WriteMoves
    <3>5. ~CollAt("tell")
      BY <2>3 DEF CollectUsage, CollectMark, CollAt
    <3> QED BY <1>2, <3>4, <3>5 DEF NoneExpires
  <2>4. CASE CollectStatus
    <3>1. ~CollAt("tell")
      BY <2>4 DEF CollectStatus, CollAt
    <3>2. PICK s \in Subs :
            /\ OnSub(s)
            /\ \/ /\ TryWrite(s, StatusUpdated(row[s], coll.view.status))
                  /\ CollGo("tell")
               \/ UNCHANGED row
      BY <2>4 DEF CollectStatus
    <3>3. CASE UNCHANGED row
      BY <1>2, <3>1, <3>3
    <3>4. CASE TryWrite(s, StatusUpdated(row[s], coll.view.status)) /\ CollGo("tell")
      <4>1. row' = row \/ (/\ row'[s].status = coll.view.status
                           /\ \A t \in Subs \ {s} : row'[t] = row[t])
        <5>1. row[s] \in Rows /\ coll.view.status \in Statuses
          BY <2>1 DEF CollectorStates, Views
        <5>2. StatusUpdated(row[s], coll.view.status).status = coll.view.status
          BY <5>1 DEF Rows, StatusUpdated
        <5> QED BY <3>4, <5>2 DEF TypeOK, TryWrite, Write, WriteFails
      <4>2. coll'.pc = "tell" /\ coll'.sub = {s} /\ coll'.view = coll.view
        BY <2>1, <3>2, <3>4 DEF CollectorStates, CollGo, OnSub
      <4>3. Expiring(s)' <=> coll.view.status = "expired"
        BY <4>2 DEF Expiring, CollAt, OnSub
      <4> QED BY <1>2, <3>1, <4>1, <4>3
    <3> QED BY <3>2, <3>3, <3>4
  <2>5. CASE TellDecision
    <3>1. UNCHANGED row
      BY <2>5 DEF TellDecision, CollectTell, store
    <3>2. ASSUME NEW s \in Subs, Expiring(s) PROVE Accounted(StatusAlert(s, "expired"))'
      <4>1. PICK a : a = StatusAlert(s, coll.view.status) /\ Accounted(a)'
        BY <2>5, <3>2, TellCounts DEF Expiring
      <4>2. a = StatusAlert(s, "expired")
        BY <3>2, <4>1 DEF Expiring
      <4> QED BY <4>1, <4>2 DEF Accounted
    <3> QED BY <1>1, <3>1, <3>2, SettledExpiry DEF ExpiryInv
  <2> QED BY <1>3, <2>2, <2>3, <2>4, <2>5 DEF Collector
<1>4. CASE Restart
  <2>1. UNCHANGED row /\ interrupted' = interrupted \cup Owed \cup ToMark
    BY <1>4 DEF Restart, Crash, store
  <2>2. ASSUME NEW s \in Subs, Expiring(s) PROVE StatusAlert(s, "expired") \in interrupted'
    BY <2>1, <2>2 DEF Expiring, Owed, OnSub
  <2> QED BY <1>1, <2>1, <2>2, SettledExpiry DEF ExpiryInv
<1>5. CASE ~Collector /\ ~Restart
  <2>1. NoneExpires /\ UNCHANGED coll
    BY <1>5, OthersMove
  <2>2. \A s \in Subs : Expiring(s) => Expiring(s)'
    BY <2>1 DEF Expiring, CollAt, OnSub
  <2> QED BY <1>1, <2>1, <2>2, SettledExpiry DEF ExpiryInv, NoneExpires
<1> QED BY <1>3, <1>4, <1>5

\* A row shown as expired is not polled again, yet its one event is always
\* accounted for: about to go out, on its way, in the log of every consumer,
\* dropped from a full queue, or cut short by a death or a failing statement.
THEOREM ExpiriesAreReported == AlertsSpec => []ExpiryReported
<1>1. AlertsInit => ExpiryInv
  BY DEF AlertsInit, Init, ExpiryInv, NewRow
<1>2. TypeOK /\ RelayInv /\ ExpiryInv /\ [AlertsNext]_allVars => ExpiryInv'
  BY ExpiryKept
<1>3. ExpiryInv => ExpiryReported
  <2>1. \A s \in Subs : Expiring(s) => StatusAlert(s, "expired") \in Owed
    BY DEF Expiring, Owed, OnSub
  <2> QED BY <2>1 DEF ExpiryInv, ExpiryReported
<1> QED BY <1>1, <1>2, <1>3, AlertsTypes, RelayKept, PTL DEF AlertsSpec

-----------------------------------------------------------------------------
(* Levels. *)

\* Nobody tops up: a top-up re-arms the levels from the row it loaded, without
\* an event.
NoTopups == "topup" \notin Ops

NoneTopsUp ==
  \A r \in Requests : req[r].pc \notin {"add", "read", "set", "undo", "resume", "activate", "rearm"}

LEMMA HandlersDoNot == ASSUME TypeOK, NoTopups, NoneTopsUp, [Next]_vars PROVE NoneTopsUp'
<1>1. ASSUME NEW r \in Requests, Handle(r) PROVE NoneTopsUp'
  <2>1. ~Topup(r)
    BY DEF NoneTopsUp, Topup, TopupAdd, TopupRead, TopupSetQuota, TopupUndo, TopupResume,
           TopupActivate, TopupRearm, At
  <2>2. /\ \A q \in Requests \ {r} : req'[q] = req[q]
        /\ req'[r].pc \in {"idle", "extend", "store", "record", "tell", "mirror", "toggle"}
    <3>1. ASSUME NEW pc \in {"idle", "extend", "store", "record", "tell"}, Go(r, pc) \/ Answer(r)
          PROVE  /\ \A q \in Requests \ {r} : req'[q] = req[q]
                 /\ req'[r].pc \in {"idle", "extend", "store", "record", "tell", "mirror", "toggle"}
      BY <3>1, GoesOn, Answers DEF Go, Answer, TypeOK
    <3>2. CASE Renew(r) \/ Lifecycle(r)
      BY <3>1, <3>2 DEF Renew, Lifecycle, RenewReset, RenewSetQuota, RenewStore, LifecycleCall,
                        LifecycleStore, LifecycleTell
    <3>3. CASE ToggleCall(r) \/ ToggleSkip(r) \/ ToggleStore(r)
      <4>1. req \in [Requests -> RequestStates]
        BY DEF TypeOK
      <4>2. CASE ToggleCall(r)
        BY <4>1, <4>2 DEF ToggleCall, RequestStates
      <4>3. CASE ToggleSkip(r)
        BY <4>1, <4>3 DEF ToggleSkip, At, RequestStates
      <4>4. CASE ToggleStore(r)
        BY <4>1, <4>4 DEF ToggleStore, RequestStates
      <4> QED BY <3>3, <4>2, <4>3, <4>4
    <3>4. CASE ToggleCustomer(r)
      BY <3>1, <3>4 DEF ToggleCustomer
    <3> QED BY <1>1, <2>1, <3>2, <3>3, <3>4 DEF Handle, Toggle
  <2> QED BY <2>2 DEF NoneTopsUp
<1>2. ASSUME NEW r \in Requests, Arrive(r) PROVE NoneTopsUp'
  BY <1>2, Arrives DEF NoTopups, NoneTopsUp
<1>3. CASE Crash
  BY <1>3 DEF Crash, IdleRequest, NoneTopsUp
<1>4. CASE UNCHANGED req
  BY <1>4 DEF NoneTopsUp
<1> QED BY <1>1, <1>2, <1>3, <1>4, CollectorHolds DEF Next, Traffic, Enforce, ServeLate, Tick, vars

LEMMA NobodyTopsUp == ASSUME NoTopups PROVE Spec => []NoneTopsUp
<1>1. Init => NoneTopsUp
  BY DEF Init, IdleRequest, NoneTopsUp
<1>2. TypeOK /\ NoneTopsUp /\ [Next]_vars => NoneTopsUp'
  BY HandlersDoNot
<1> QED BY <1>1, <1>2, TypeCorrect, PTL DEF Spec

\* The event of a level of a period went out, and is on its way or final.
LevelSent(s, period, level) ==
  \E e \in 1 .. Len(alerts) :
    alerts[e].sub = s /\ alerts[e].period = period /\ alerts[e].level = level /\ Reached(e)

LevelInv ==
  \A s \in Subs :
    /\ row[s].notified # 0 =>
         \/ <<s, row[s].period, row[s].notified>> \in silenced
         \/ LevelSent(s, row[s].period, row[s].notified)
    /\ CollAt("mark") /\ OnSub(s) => LevelSent(s, coll.snaps[s].period, PolledLevel(s))

LEMMA StaysSent ==
  ASSUME RelayInv, NothingLost, NEW s, NEW period, NEW level, LevelSent(s, period, level)
  PROVE  LevelSent(s, period, level)'
<1>1. PICK e \in 1 .. Len(alerts) :
        alerts[e].sub = s /\ alerts[e].period = period /\ alerts[e].level = level /\ Reached(e)
  BY DEF LevelSent
<1>2. Len(alerts) \in Nat /\ Len(alerts') \in Int
  BY LenProperties DEF RelayInv
<1>3. e \in 1 .. Len(alerts') /\ alerts'[e] = alerts[e] /\ Reached(e)'
  BY <1>1, <1>2 DEF NothingLost
<1> QED BY <1>1, <1>3 DEF LevelSent

\* What a row's level may become: none; what it was; the one the collector has sent
\* an event of, in the same period; or one that nobody is told of.
LevelMoves(s) ==
  \/ row'[s].notified = 0
  \/ /\ row'[s].period = row[s].period
     /\ \/ row'[s].notified = row[s].notified
        \/ <<s, row[s].period, row'[s].notified>> \in silenced'
        \/ /\ CollAt("mark") /\ OnSub(s) /\ row'[s].notified = PolledLevel(s)
           /\ coll.snaps[s].period = row[s].period

\* What is to be marked was to be before, or has just been emitted.
LEMMA LevelsStay ==
  ASSUME RelayInv, NothingLost, LevelInv, silenced \subseteq silenced',
         \A s \in Subs : LevelMoves(s),
         \A s \in Subs : (CollAt("mark") /\ OnSub(s))' =>
           \/ UNCHANGED coll
           \/ \E a : /\ a.sub = s /\ a.period = coll'.snaps[s].period
                    /\ a.level = PolledLevel(s)' /\ Accounted(a)'
  PROVE  LevelInv'
<1>1. ASSUME NEW s \in Subs, row'[s].notified # 0
      PROVE  \/ <<s, row'[s].period, row'[s].notified>> \in silenced'
             \/ LevelSent(s, row[s].period, row[s].notified)'
  <2>1. PICK level, period : level = row'[s].notified /\ period = row'[s].period
    OBVIOUS
  <2>2. <<s, period, level>> \in silenced' \/ LevelSent(s, period, level)
    <3>1. LevelMoves(s)
      OBVIOUS
    <3>2. CASE row[s].notified = level /\ row[s].period = period
      <4>1. <<s, period, level>> \in silenced \/ LevelSent(s, period, level)
        BY <1>1, <2>1, <3>2 DEF LevelInv
      <4> QED BY <4>1
    <3>3. CASE row[s].period = period /\ <<s, row[s].period, level>> \in silenced'
      BY <3>3
    <3>4. CASE CollAt("mark") /\ OnSub(s) /\ PolledLevel(s) = level /\ coll.snaps[s].period = period
      <4>1. LevelSent(s, coll.snaps[s].period, PolledLevel(s))
        BY <3>4 DEF LevelInv
      <4> QED BY <3>4, <4>1
    <3> QED BY <1>1, <2>1, <3>1, <3>2, <3>3, <3>4 DEF LevelMoves
  <2>3. LevelSent(s, period, level) => LevelSent(s, period, level)'
    BY StaysSent
  <2> QED BY <2>1, <2>2, <2>3 DEF LevelSent
<1>2. ASSUME NEW s \in Subs, (CollAt("mark") /\ OnSub(s))'
      PROVE  LevelSent(s, coll.snaps[s].period, PolledLevel(s))'
  <2>1. PICK level, period : level = PolledLevel(s)' /\ period = coll'.snaps[s].period
    OBVIOUS
  <2>2. CASE UNCHANGED coll
    <3>1. LevelSent(s, period, level)
      BY <1>2, <2>1, <2>2 DEF LevelInv, CollAt, OnSub, PolledLevel
    <3>2. LevelSent(s, period, level)'
      BY <3>1, StaysSent
    <3> QED BY <2>1, <3>2 DEF LevelSent
  <2>3. ASSUME NEW a, a.sub = s, a.period = coll'.snaps[s].period, a.level = PolledLevel(s)', Accounted(a)'
        PROVE  LevelSent(s, coll.snaps[s].period, PolledLevel(s))'
    BY <2>3 DEF Accounted, LevelSent, Reached
  <2> QED BY <1>2, <2>2, <2>3
<1> QED BY <1>1, <1>2 DEF LevelInv

LEMMA SilencedStay == ASSUME [AlertsNext]_allVars PROVE silenced \subseteq silenced'
BY DEF AlertsNext, Collector, Handler, Surroundings, Dispatch, RegisterWebhook, Restart, Notice,
       TellDecision, TellOperation, Quietly, Silencing, ghosts, allVars

\* A top-up's re-arming counts as silencing.
LEMMA RearmingSilences ==
  ASSUME TypeOK, NEW r \in Requests, Handler(r), At(r, "rearm")
  PROVE  UNCHANGED coll /\ \A s \in Subs : LevelMoves(s)
<1>1. TopupRearm(r) /\ Silencing(ToRearm(r))
  BY DEF Handler, TellOperation, Topup, TopupAdd, TopupRead, TopupSetQuota, TopupUndo, TopupResume,
         TopupActivate, Renew, RenewReset, RenewSetQuota, RenewStore, Toggle, ToggleCall, ToggleSkip,
         ToggleStore, ToggleCustomer, LifecycleCall, LifecycleStore, LifecycleTell, At
<1>2. PICK s \in Subs, level \in Levels : For(r, s) /\ TryWrite(s, Notified(row[s], level))
  BY <1>1, LevelType DEF TopupRearm
<1>3. \A t \in Subs : row[t] \in Rows
  BY DEF TypeOK
<1>4. Notified(row[s], level).period = row[s].period
  BY <1>3 DEF Rows, Notified
<1>5. \A t \in Subs : row'[t].period = row[t].period /\ (t # s => row'[t] = row[t])
  BY <1>2, <1>3, <1>4 DEF TypeOK, TryWrite, Write, WriteFails
<1>6. row'[s].notified # row[s].notified => <<s, row[s].period, row'[s].notified>> \in silenced'
  BY <1>1, <1>2 DEF Silencing, ToRearm, For
<1>7. UNCHANGED coll
  BY <1>1 DEF TopupRearm
<1> QED BY <1>5, <1>6, <1>7 DEF LevelMoves

\* So does the mark of a poll older than the row's period.
LEMMA MarkingMoves ==
  ASSUME TypeOK, CollectMark, Silencing(LateToMark)
  PROVE  \A s \in Subs : LevelMoves(s)
<1>1. PICK s \in Subs : OnSub(s) /\ TryWrite(s, Notified(row[s], PolledLevel(s)))
  BY DEF CollectMark
<1>2. \A t \in Subs : row[t] \in Rows
  BY DEF TypeOK
<1>3. /\ Notified(row[s], PolledLevel(s)).notified = PolledLevel(s)
      /\ Notified(row[s], PolledLevel(s)).period = row[s].period
  BY <1>2 DEF Rows, Notified
<1>4. /\ \A t \in Subs : row'[t].period = row[t].period /\ (t # s => row'[t] = row[t])
      /\ row'[s].notified \in {row[s].notified, PolledLevel(s)}
  BY <1>1, <1>2, <1>3 DEF TypeOK, TryWrite, Write, WriteFails
<1>5. CollAt("mark") /\ s \in coll.sub
  BY <1>1 DEF CollectMark, OnSub
<1>6. /\ row'[s].notified # row[s].notified
      /\ coll.snaps[s].period # row[s].period
      => <<s, row[s].period, row'[s].notified>> \in silenced'
  BY <1>5 DEF Silencing, LateToMark
<1> QED BY <1>1, <1>4, <1>5, <1>6 DEF LevelMoves

LEMMA LevelKept ==
  ASSUME TypeOK, RelayInv, LevelInv, [AlertsNext]_allVars
  PROVE  LevelInv'
<1>1. RelayInv' /\ NothingLost /\ silenced \subseteq silenced'
  BY NextReaches, SilencedStay
<1>2. coll \in CollectorStates /\ \A s \in Subs : row[s] \in Rows
  BY DEF TypeOK
<1>0. LevelsKept => \A s \in Subs : LevelMoves(s)
  BY DEF LevelsKept, LevelMoves
<1>3. CASE Collector
  <2>1. CASE Notice
    <3>1. UNCHANGED row /\ \E pc \in {"mark", "status"} : CollGo(pc)
      BY <2>1 DEF Notice, CollectNotice, store
    <3>2. /\ coll'.sub = coll.sub /\ coll'.snaps = coll.snaps
          /\ \A s \in Subs : PolledLevel(s)' = PolledLevel(s)
      BY <1>2, <3>1 DEF CollectorStates, CollGo, PolledLevel
    <3>3. ASSUME NEW s \in Subs, (CollAt("mark") /\ OnSub(s))'
          PROVE  \E a : /\ a.sub = s /\ a.period = coll'.snaps[s].period
                        /\ a.level = PolledLevel(s)' /\ Accounted(a)'
      <4>1. coll'.pc = "mark" /\ OnSub(s)
        BY <3>2, <3>3 DEF CollAt, OnSub
      <4>2. PICK a : a = UsageAlert(NoticeOf(s)) /\ Accounted(a)'
        BY <2>1, <4>1, NoticeCounts
      <4>3. a.sub = s /\ a.period = coll'.snaps[s].period /\ a.level = PolledLevel(s)'
        BY <3>2, <4>2, AlertTypes
      <4> QED BY <4>2, <4>3
    <3>4. \A s \in Subs : LevelMoves(s)
      BY <3>1 DEF LevelMoves
    <3> QED BY <1>1, <3>3, <3>4, LevelsStay
  <2>2. CASE ~Notice
    <3>1. ~CollAt("mark")'
      <4>1. \A pc : CollGo(pc) => coll'.pc = pc
        BY <1>2 DEF CollectorStates, CollGo
      <4>2. IdleCollector.pc = "idle" /\ [IdleCollector EXCEPT !.pc = "next", !.todo = ActiveRows, !.snaps = row].pc = "next"
        BY DEF IdleCollector
      <4>3. NextSub => coll'.pc \in {"idle", "next"}
        BY <1>2, <4>2 DEF CollectorStates, NextSub
      <4>4. CASE CollectPoll
        BY <1>2, <4>2, <4>4 DEF CollectorStates, CollectPoll, CollAt
      <4>5. CASE CollectList
        BY <4>2, <4>5 DEF CollectList, CollAt
      <4>6. CASE CollectUsage \/ CollectSample \/ CollectMark \/ CollectStatus \/ CollectTell
        <5>1. NextSub \/ \E pc \in {"sample", "notice", "status", "tell"} : CollGo(pc)
          BY <4>6 DEF CollectUsage, CollectSample, CollectMark, CollectStatus, CollectTell
        <5> QED BY <4>1, <4>3, <5>1 DEF CollAt
      <4> QED BY <1>3, <2>2, <4>4, <4>5, <4>6 DEF Collector, TellDecision
    <3>2. \A s \in Subs : LevelMoves(s)
      <4>1. CASE UNCHANGED row
        BY <4>1 DEF LevelMoves
      <4>2. CASE CollectUsage \/ CollectStatus
        <5>1. coll.view.used \in Nat /\ coll.view.status \in Statuses
          BY <1>2 DEF CollectorStates, Views
        <5>2. PICK t \in Subs : \/ TryWrite(t, UsageUpdated(row[t], coll.view.used))
                               \/ TryWrite(t, StatusUpdated(row[t], coll.view.status))
                               \/ UNCHANGED row
          BY <4>2 DEF CollectUsage, CollectStatus
        <5>3. \/ UNCHANGED row
              \/ \E rw : TryWrite(t, rw) /\ rw.notified = row[t].notified /\ rw.period = row[t].period
          BY <1>2, <5>1, <5>2 DEF Rows, UsageUpdated, StatusUpdated
        <5> QED BY <1>0, <4>1, <5>3, WriteMoves
      <4>3. CASE CollectMark
        <5>1. Silencing(LateToMark)
          BY <1>3, <4>3 DEF Collector, Notice, TellDecision, CollectNotice, CollectTell, CollectMark, CollAt
        <5> QED BY <4>3, <5>1, MarkingMoves
      <4> QED BY <1>3, <2>2, <4>1, <4>2, <4>3
              DEF Collector, TellDecision, CollectList, CollectPoll, CollectSample, CollectTell, store
    <3> QED BY <1>1, <3>1, <3>2, LevelsStay
  <2> QED BY <2>1, <2>2
<1>4. CASE Restart
  <2>1. UNCHANGED row /\ ~CollAt("mark")'
    BY <1>4 DEF Restart, Crash, IdleCollector, CollAt, store
  <2> QED BY <1>1, <2>1, LevelsStay DEF LevelMoves
<1>5. CASE ~Collector /\ ~Restart /\ LevelsKept
  <2>1. UNCHANGED coll
    BY <1>5, OthersMove
  <2> QED BY <1>0, <1>1, <1>5, <2>1, LevelsStay
<1>6. ASSUME NEW r \in Requests, Handler(r), At(r, "rearm") PROVE LevelInv'
  BY <1>1, <1>6, RearmingSilences, LevelsStay
<1> QED BY <1>3, <1>4, <1>5, <1>6, OthersMove

\* notified_threshold silences a level for the rest of the period: a level in the row
\* is one whose event, of that period, is accounted for, whatever renewals, failures
\* and restarts came between, unless a poll from before the renewal marked it or a
\* top-up re-armed it.
THEOREM LevelsAreReported == AlertsSpec => []LevelReported
<1>1. AlertsInit => LevelInv
  BY DEF AlertsInit, Init, LevelInv, NewRow, IdleCollector, CollAt
<1>2. TypeOK /\ RelayInv /\ LevelInv /\ [AlertsNext]_allVars => LevelInv'
  BY LevelKept
<1>3. LevelInv => LevelReported
  BY DEF LevelInv, LevelSent, LevelReported, Reached
<1> QED BY <1>1, <1>2, <1>3, AlertsTypes, RelayKept, PTL DEF AlertsSpec

-----------------------------------------------------------------------------
(* Usage events go out once. *)

Excused(n) == UsageAlert(n) \in interrupted

\* The collector has loaded the row of s and has yet to compare its level, or is
\* about to mark it.
Polling(s) == s \in coll.todo \/ (OnSub(s) /\ coll.pc \in {"usage", "sample", "notice"})

Marking(s) == CollAt("mark") /\ OnSub(s)

\* No event of the row's period is above the row's level, but one about to be marked.
RowKnows(n) ==
  /\ n.period <= row[n.sub].period
  /\ n.period = row[n.sub].period =>
       \/ n.level <= row[n.sub].notified \/ Excused(n)
       \/ Marking(n.sub) /\ n = NoticeOf(n.sub)

\* None of the snapshot's period is above the level it is compared with.
SnapshotKnows(n) ==
  /\ Polling(n.sub) \/ Marking(n.sub) => n.period <= coll.snaps[n.sub].period
  /\ n.period = coll.snaps[n.sub].period =>
       /\ Polling(n.sub) => n.level <= coll.snaps[n.sub].notified \/ Excused(n)
       /\ Marking(n.sub) => n.level <= PolledLevel(n.sub) \/ Excused(n)

SnapshotOld ==
  \A s \in Subs : Polling(s) \/ Marking(s) => coll.snaps[s].period <= row[s].period

NoticeInv ==
  /\ coll.sub \cap coll.todo = {}
  /\ SnapshotOld
  /\ \A n \in notices : RowKnows(n) /\ SnapshotKnows(n)

\* Steps that leave the collector and what it has emitted.
LEMMA NoticesStay ==
  ASSUME TypeOK, NoticeInv, LevelsKept, UNCHANGED <<coll, notices>>, interrupted \subseteq interrupted'
  PROVE  NoticeInv'
<1>1. ASSUME NEW s \in Subs
      PROVE  /\ Polling(s)' = Polling(s) /\ Marking(s)' = Marking(s)
             /\ NoticeOf(s)' = NoticeOf(s) /\ PolledLevel(s)' = PolledLevel(s)
  BY DEF Polling, Marking, NoticeOf, PolledLevel, CollAt, OnSub
<1>2. ASSUME NEW s \in Subs
      PROVE  row[s].period \in Nat /\ coll.snaps[s].period \in Nat
  BY DEF TypeOK, Rows, CollectorStates
<1>3. SnapshotOld'
  BY <1>1, <1>2 DEF NoticeInv, SnapshotOld, LevelsKept
<1>4. ASSUME NEW n \in notices PROVE RowKnows(n)' /\ SnapshotKnows(n)'
  <2>1. n.sub \in Subs /\ n.period \in Nat
    BY DEF TypeOK
  <2>2. RowKnows(n) /\ SnapshotKnows(n)
    BY DEF NoticeInv
  <2>3. Excused(n) => Excused(n)'
    BY DEF Excused
  <2>4. RowKnows(n)'
    BY <1>1, <1>2, <2>1, <2>2, <2>3 DEF RowKnows, LevelsKept
  <2>5. SnapshotKnows(n)'
    BY <1>1, <2>1, <2>2, <2>3 DEF SnapshotKnows
  <2> QED BY <2>4, <2>5
<1> QED BY <1>3, <1>4 DEF NoticeInv

\* Steps that emit nothing and mark nothing, after which the collector polls or marks
\* no subscription it did not.
LEMMA NoticesQuiet ==
  ASSUME TypeOK, NoticeInv, LevelsKept, UNCHANGED notices, interrupted \subseteq interrupted',
         coll'.sub \cap coll'.todo = {}, \A s \in Subs : ~Marking(s) /\ ~Marking(s)',
         \A s \in Subs : Polling(s)' => Polling(s) /\ coll'.snaps[s] = coll.snaps[s]
  PROVE  NoticeInv'
<1>1. ASSUME NEW s \in Subs
      PROVE  row[s].period \in Nat /\ coll.snaps[s].period \in Nat
  BY DEF TypeOK, Rows, CollectorStates
<1>2. SnapshotOld'
  BY <1>1 DEF NoticeInv, SnapshotOld, LevelsKept
<1>3. ASSUME NEW n \in notices PROVE RowKnows(n)' /\ SnapshotKnows(n)'
  <2>1. n.sub \in Subs /\ n.period \in Nat
    BY DEF TypeOK
  <2>2. RowKnows(n) /\ SnapshotKnows(n)
    BY DEF NoticeInv
  <2>3. Excused(n) => Excused(n)'
    BY DEF Excused
  <2>4. RowKnows(n)'
    BY <1>1, <2>1, <2>2, <2>3 DEF RowKnows, LevelsKept
  <2>5. SnapshotKnows(n)'
    BY <2>1, <2>2, <2>3 DEF SnapshotKnows
  <2> QED BY <2>4, <2>5
<1> QED BY <1>2, <1>3 DEF NoticeInv

\* A round starts: the snapshots are the rows.
LEMMA ListKnows ==
  ASSUME TypeOK, NoticeInv, CollectList, interrupted \subseteq interrupted'
  PROVE  NoticeInv'
<1>1. UNCHANGED <<row, notices>> /\ coll.pc = "idle"
  BY DEF CollectList, CollAt, store, events
<1>2. coll'.pc = "next" /\ coll'.sub = {} /\ coll'.snaps = row
  BY DEF CollectList, IdleCollector
<1>3. \A s \in Subs : ~Marking(s) /\ ~Marking(s)'
  BY <1>1, <1>2 DEF Marking, CollAt
<1>4. \A s \in Subs : row[s].period \in Nat
  BY DEF TypeOK, Rows
<1>5. SnapshotOld'
  BY <1>1, <1>2, <1>4 DEF SnapshotOld
<1>6. ASSUME NEW n \in notices PROVE RowKnows(n)' /\ SnapshotKnows(n)'
  <2>1. n.sub \in Subs /\ n.period \in Nat
    BY DEF TypeOK
  <2>2. RowKnows(n)
    BY DEF NoticeInv
  <2>3. Excused(n) => Excused(n)'
    BY DEF Excused
  <2> QED BY <1>1, <1>2, <1>3, <2>1, <2>2, <2>3 DEF RowKnows, SnapshotKnows
<1> QED BY <1>1, <1>2, <1>5, <1>6 DEF NoticeInv

\* What the collector is about to emit is not among what it has emitted.
LEMMA DueIsNew ==
  ASSUME TypeOK, NoticeInv, NEW s \in Subs, OnSub(s), CollAt("notice"), NoticeDue(s),
         NoticeOf(s) \in notices
  PROVE  Excused(NoticeOf(s))
<1> DEFINE n == NoticeOf(s)
<1>1. n.sub = s /\ n.period = coll.snaps[s].period /\ n.level = PolledLevel(s)
  BY DEF NoticeOf
<1>2. Polling(s) /\ SnapshotKnows(n)
  BY DEF Polling, CollAt, NoticeInv
<1>3. PolledLevel(s) > coll.snaps[s].notified
  BY DEF NoticeDue
<1>4. PolledLevel(s) \in Nat /\ coll.snaps[s].notified \in Nat
  <2>1. coll.snaps[s].notified \in Levels /\ PolledLevel(s) \in Levels
    BY LevelType DEF PolledLevel, TypeOK, CollectorStates, Rows
  <2> QED BY <2>1 DEF Levels
<1> HIDE DEF n
<1>5. n.level <= coll.snaps[s].notified \/ Excused(n)
  BY <1>1, <1>2 DEF SnapshotKnows
<1> QED BY <1>1, <1>3, <1>4, <1>5 DEF n

\* A step of the collector that only goes on.
LEMMA GoKeeps ==
  ASSUME TypeOK, NEW pc, CollGo(pc)
  PROVE  /\ coll'.pc = pc /\ coll'.sub = coll.sub /\ coll'.todo = coll.todo
         /\ coll'.snaps = coll.snaps /\ coll'.view = coll.view
BY DEF TypeOK, CollectorStates, CollGo

LEMMA CompareKnows ==
  ASSUME TypeOK, NoticeInv, CollectNotice, UNCHANGED interrupted
  PROVE  NoticeInv'
<1>1. PICK s \in Subs :
        /\ OnSub(s)
        /\ \/ NoticeDue(s) /\ notices' = notices \cup {NoticeOf(s)} /\ CollGo("mark")
           \/ ~NoticeDue(s) /\ UNCHANGED notices /\ CollGo("status")
  BY DEF CollectNotice
<1>2. UNCHANGED row /\ coll.pc = "notice" /\ coll.sub = {s} /\ s \notin coll.todo
  BY <1>1 DEF CollectNotice, CollAt, OnSub, NoticeInv, store
<1>3. coll'.sub = {s} /\ coll'.todo = coll.todo /\ coll'.snaps = coll.snaps /\ coll'.view = coll.view
  BY <1>1, <1>2, GoKeeps
<1>4. \A t \in Subs : ~Marking(t) /\ (Polling(t) <=> t \in coll.todo \/ t = s)
  BY <1>2 DEF Marking, Polling, CollAt, OnSub
<1>5. CASE ~NoticeDue(s) /\ UNCHANGED notices /\ CollGo("status")
  <2>1. coll'.pc = "status"
    BY <1>5, GoKeeps
  <2>2. \A t \in Subs : ~Marking(t)' /\ (Polling(t)' <=> t \in coll.todo)
    BY <1>3, <2>1 DEF Marking, Polling, CollAt, OnSub
  <2>3. LevelsKept
    BY <1>2 DEF LevelsKept
  <2> QED BY <1>2, <1>3, <1>4, <1>5, <2>2, <2>3, NoticesQuiet
<1>6. CASE NoticeDue(s) /\ notices' = notices \cup {NoticeOf(s)} /\ CollGo("mark")
  <2>1. coll'.pc = "mark"
    BY <1>6, GoKeeps
  <2>2. \A t \in Subs : (Marking(t)' <=> t = s) /\ (Polling(t)' <=> t \in coll.todo)
    BY <1>3, <2>1 DEF Marking, Polling, CollAt, OnSub
  <2>3. NoticeOf(s)' = NoticeOf(s) /\ PolledLevel(s)' = PolledLevel(s)
    BY <1>3 DEF NoticeOf, PolledLevel
  <2>4. /\ PolledLevel(s) \in Nat /\ coll.snaps[s].notified \in Nat /\ coll.snaps[s].period \in Nat
        /\ row[s].period \in Nat /\ PolledLevel(s) > coll.snaps[s].notified
    <3>1. coll.snaps[s].notified \in Levels /\ PolledLevel(s) \in Levels
      BY LevelType DEF PolledLevel, TypeOK, CollectorStates, Rows
    <3> QED BY <1>6, <3>1 DEF Levels, NoticeDue, TypeOK, CollectorStates, Rows
  <2>5. SnapshotOld'
    BY <1>2, <1>3, <1>4, <2>2 DEF NoticeInv, SnapshotOld
  <2>6. ASSUME NEW n \in notices PROVE RowKnows(n)' /\ SnapshotKnows(n)'
    <3>1. n.sub \in Subs /\ n.period \in Nat /\ n.level \in Nat
      BY DEF TypeOK, Levels
    <3>2. RowKnows(n) /\ SnapshotKnows(n)
      BY DEF NoticeInv
    <3>3. Excused(n) => Excused(n)'
      BY DEF Excused
    <3>4. RowKnows(n)'
      BY <1>2, <1>4, <3>1, <3>2, <3>3 DEF RowKnows
    <3>5. CASE n.sub = s
      BY <1>2, <1>3, <1>4, <2>2, <2>3, <2>4, <3>1, <3>2, <3>3, <3>4, <3>5 DEF SnapshotKnows
    <3>6. CASE n.sub # s
      BY <1>3, <1>4, <2>2, <3>1, <3>2, <3>3, <3>4, <3>6 DEF SnapshotKnows
    <3> QED BY <3>4, <3>5, <3>6
  <2>7. PICK n : n = NoticeOf(s)
    OBVIOUS
  <2>8. n.sub = s /\ n.period = coll.snaps[s].period /\ n.level = PolledLevel(s)
    BY <2>7 DEF NoticeOf
  <2>9. coll.snaps[s].period <= row[s].period
    BY <1>4 DEF NoticeInv, SnapshotOld
  <2>10. RowKnows(n)'
    BY <1>2, <2>2, <2>3, <2>7, <2>8, <2>9 DEF RowKnows
  <2>11. SnapshotKnows(n)'
    BY <1>2, <1>3, <2>2, <2>3, <2>4, <2>8 DEF SnapshotKnows
  <2>12. coll'.sub \cap coll'.todo = {}
    BY <1>2, <1>3
  <2> QED BY <1>6, <2>5, <2>6, <2>7, <2>10, <2>11, <2>12 DEF NoticeInv
<1> QED BY <1>1, <1>5, <1>6

\* Marking: the row, if it is still of the snapshot's period, knows what was emitted.
LEMMA MarkKnows ==
  ASSUME TypeOK, ~StoreFaults, NoticeInv, CollectMark, UNCHANGED interrupted
  PROVE  NoticeInv'
<1>1. PICK s \in Subs : OnSub(s) /\ Write(s, Notified(row[s], PolledLevel(s)))
  BY DEF CollectMark, TryWrite, WriteFails
<1>2. UNCHANGED notices /\ coll.pc = "mark" /\ coll.sub = {s} /\ s \notin coll.todo /\ CollGo("status")
  BY <1>1 DEF CollectMark, CollAt, OnSub, NoticeInv, events
<1>3. /\ coll'.pc = "status" /\ coll'.sub = {s} /\ coll'.todo = coll.todo
      /\ coll'.snaps = coll.snaps /\ coll'.view = coll.view
  BY <1>2, GoKeeps
<1>4. \A t \in Subs : /\ Marking(t) <=> t = s
                      /\ Polling(t) <=> t \in coll.todo
                      /\ ~Marking(t)' /\ (Polling(t)' <=> t \in coll.todo)
  BY <1>2, <1>3 DEF Marking, Polling, CollAt, OnSub
<1>5. /\ row'[s].notified = PolledLevel(s) /\ row'[s].period = row[s].period
      /\ \A t \in Subs \ {s} : row'[t] = row[t]
  BY <1>1 DEF TypeOK, Rows, Write, Notified
<1>6. SnapshotOld'
  BY <1>2, <1>3, <1>4, <1>5 DEF NoticeInv, SnapshotOld
<1>7. ASSUME NEW n \in notices PROVE RowKnows(n)' /\ SnapshotKnows(n)'
  <2>1. n.sub \in Subs /\ n.period \in Nat
    BY DEF TypeOK
  <2>2. RowKnows(n) /\ SnapshotKnows(n)
    BY DEF NoticeInv
  <2>3. Excused(n) => Excused(n)'
    BY DEF Excused
  <2>4. SnapshotKnows(n)'
    BY <1>3, <1>4, <2>1, <2>2, <2>3 DEF SnapshotKnows
  <2>5. CASE n.sub = s
    <3>1. coll.snaps[s].period <= row[s].period /\ n.period <= coll.snaps[s].period
      BY <1>4, <2>2, <2>5 DEF NoticeInv, SnapshotOld, SnapshotKnows
    <3>2. coll.snaps[s].period \in Nat /\ row[s].period \in Nat
      BY DEF TypeOK, CollectorStates, Rows
    <3>3. n.period = row[s].period => n.level <= PolledLevel(s) \/ Excused(n)
      BY <1>4, <2>1, <2>2, <2>5, <3>1, <3>2 DEF SnapshotKnows
    <3> QED BY <1>5, <2>2, <2>3, <2>4, <2>5, <3>3 DEF RowKnows
  <2>6. CASE n.sub # s
    BY <1>4, <1>5, <2>1, <2>2, <2>3, <2>4, <2>6 DEF RowKnows
  <2> QED BY <2>5, <2>6
<1> QED BY <1>2, <1>3, <1>6, <1>7 DEF NoticeInv

\* The other steps of a round neither emit usage events nor mark.
LEMMA RoundKnows ==
  ASSUME TypeOK, NoticeInv, interrupted \subseteq interrupted',
         CollectPoll \/ CollectUsage \/ CollectSample \/ CollectStatus \/ CollectTell
  PROVE  NoticeInv'
<1>1. /\ coll \in CollectorStates /\ \A s \in Subs : row[s] \in Rows
      /\ coll.sub \cap coll.todo = {} /\ UNCHANGED notices
  BY DEF TypeOK, NoticeInv, CollectPoll, CollectUsage, CollectSample, CollectStatus, CollectTell, events
<1>2. LevelsKept
  <2>1. CASE UNCHANGED row
    BY <2>1 DEF LevelsKept
  <2>2. CASE CollectUsage \/ CollectStatus
    <3>1. coll.view.used \in Nat /\ coll.view.status \in Statuses
      BY <1>1 DEF CollectorStates, Views
    <3>2. PICK t \in Subs : \/ TryWrite(t, UsageUpdated(row[t], coll.view.used))
                           \/ TryWrite(t, StatusUpdated(row[t], coll.view.status))
                           \/ UNCHANGED row
      BY <2>2 DEF CollectUsage, CollectStatus
    <3>3. \/ UNCHANGED row
          \/ \E rw : TryWrite(t, rw) /\ rw.notified = row[t].notified /\ rw.period = row[t].period
      BY <1>1, <3>1, <3>2 DEF Rows, UsageUpdated, StatusUpdated
    <3> QED BY <2>1, <3>3, WriteMoves
  <2> QED BY <2>1, <2>2 DEF CollectPoll, CollectSample, CollectTell, store
<1>3. coll.pc \in {"next", "usage", "sample", "status", "tell"}
  BY DEF CollectPoll, CollectUsage, CollectSample, CollectStatus, CollectTell, CollAt
<1>4. /\ coll'.sub \cap coll'.todo = {} /\ coll'.pc # "mark"
      /\ \A s \in Subs : Polling(s)' => Polling(s) /\ coll'.snaps[s] = coll.snaps[s]
  <2>1. IdleCollector.sub = {} /\ IdleCollector.todo = {} /\ IdleCollector.pc = "idle"
    BY DEF IdleCollector
  <2>2. CASE coll' = IdleCollector
    BY <2>1, <2>2 DEF Polling, OnSub
  <2>3. CASE coll' = [coll EXCEPT !.pc = "next", !.sub = {}, !.view = NoView]
    BY <1>1, <2>3 DEF CollectorStates, Polling, OnSub
  <2>4. CASE CollectPoll
    <3>1. PICK s \in coll.todo :
            \/ coll' = [coll EXCEPT !.pc = "usage", !.todo = @ \ {s}, !.sub = {s}, !.view = UsageView(tenant[s])]
            \/ coll' = IdleCollector
            \/ coll' = [coll EXCEPT !.todo = @ \ {s}]
      BY <2>4 DEF CollectPoll
    <3>2. coll.pc = "next"
      BY <2>4 DEF CollectPoll, CollAt
    <3>3. CASE coll' = [coll EXCEPT !.pc = "usage", !.todo = @ \ {s}, !.sub = {s}, !.view = UsageView(tenant[s])]
      <4>1. /\ coll'.pc = "usage" /\ coll'.todo = coll.todo \ {s} /\ coll'.sub = {s}
            /\ coll'.snaps = coll.snaps
        BY <1>1, <3>3 DEF CollectorStates
      <4> QED BY <4>1 DEF Polling, OnSub
    <3>4. CASE coll' = [coll EXCEPT !.todo = @ \ {s}]
      <4>1. /\ coll'.pc = "next" /\ coll'.todo = coll.todo \ {s} /\ coll'.sub = coll.sub
            /\ coll'.snaps = coll.snaps
        BY <1>1, <3>2, <3>4 DEF CollectorStates
      <4> QED BY <1>1, <4>1 DEF Polling, OnSub
    <3> QED BY <2>2, <3>1, <3>3, <3>4
  <2>5. CASE CollectUsage \/ CollectSample \/ CollectStatus \/ CollectTell
    <3>1. \/ NextSub
          \/ coll.pc = "usage" /\ CollGo("sample")
          \/ coll.pc = "sample" /\ CollGo("notice")
          \/ CollGo("tell")
      BY <2>5 DEF CollectUsage, CollectSample, CollectStatus, CollectTell, CollAt
    <3>2. CASE NextSub
      BY <2>2, <2>3, <3>2 DEF NextSub
    <3>3. CASE ~NextSub
      <4>1. PICK pc : /\ CollGo(pc) /\ pc # "mark"
                      /\ pc \in {"usage", "sample", "notice"} => coll.pc \in {"usage", "sample", "notice"}
        BY <3>1, <3>3
      <4>2. /\ coll'.pc = pc /\ coll'.sub = coll.sub /\ coll'.todo = coll.todo
            /\ coll'.snaps = coll.snaps
        BY <4>1, GoKeeps
      <4> QED BY <1>1, <4>1, <4>2 DEF Polling, OnSub
    <3> QED BY <3>2, <3>3
  <2> QED BY <2>4, <2>5
<1>5. \A s \in Subs : ~Marking(s) /\ ~Marking(s)'
  BY <1>3, <1>4 DEF Marking, CollAt
<1> QED BY <1>1, <1>2, <1>4, <1>5, NoticesQuiet

\* A death between emitting an event and marking it is what interrupted counts.
LEMMA RestartKnows ==
  ASSUME TypeOK, NoticeInv, Restart
  PROVE  NoticeInv'
<1>1. /\ UNCHANGED <<row, notices>> /\ coll' = IdleCollector
      /\ interrupted' = interrupted \cup Owed \cup ToMark
  BY DEF Restart, Crash, store, events
<1>2. coll'.sub = {} /\ coll'.todo = {}
  BY <1>1 DEF IdleCollector
<1>3. \A s \in Subs : ~Polling(s)' /\ ~Marking(s)'
  BY <1>2 DEF Polling, Marking, OnSub
<1>4. ASSUME NEW n \in notices PROVE RowKnows(n)' /\ SnapshotKnows(n)'
  <2>1. n.sub \in Subs /\ RowKnows(n)
    BY DEF TypeOK, NoticeInv
  <2>2. Excused(n) => Excused(n)'
    BY <1>1 DEF Excused
  <2>3. Marking(n.sub) /\ n = NoticeOf(n.sub) => Excused(n)'
    BY <1>1, <2>1 DEF Marking, OnSub, ToMark, Excused
  <2> QED BY <1>1, <1>3, <2>1, <2>2, <2>3 DEF RowKnows, SnapshotKnows
<1> QED BY <1>1, <1>2, <1>3, <1>4 DEF NoticeInv, SnapshotOld

LEMMA NoticeKept ==
  ASSUME TypeOK, RelayInv, ~StoreFaults, NoneTopsUp, NoticeInv, [AlertsNext]_allVars
  PROVE  NoticeInv'
<1>1. interrupted \subseteq interrupted'
  BY NextReaches DEF NothingLost
<1>2. CASE Collector
  <2>1. UNCHANGED interrupted
    BY <1>2 DEF Collector, Silencing, Notice, TellDecision, ghosts
  <2> QED BY <1>1, <1>2, <2>1, ListKnows, RoundKnows, CompareKnows, MarkKnows
          DEF Collector, Notice, TellDecision
<1>3. CASE ~Collector /\ ~Restart
  <2>1. LevelsKept /\ UNCHANGED <<coll, notices>>
    BY <1>3, OthersMove DEF NoneTopsUp, At
  <2> QED BY <1>1, <2>1, NoticesStay
<1> QED BY <1>2, <1>3, RestartKnows

\* Usage events go out once each per period and quota: where nobody tops up and
\* statements do not fail, the collector repeats one only if the panel died
\* between emitting it and marking the row.
THEOREM NoticesGoOutOnce == ASSUME NoTopups, ~StoreFaults PROVE AlertsSpec => NoticeOnce
<1>1. AlertsInit => NoticeInv
  BY DEF AlertsInit, Init, NoticeInv, SnapshotOld, IdleCollector, Polling, Marking, OnSub
<1>2. TypeOK /\ RelayInv /\ NoneTopsUp /\ NoticeInv /\ [AlertsNext]_allVars => NoticeInv'
  BY NoticeKept
<1>3. AlertsSpec => [](TypeOK /\ NoticeInv)
  BY <1>1, <1>2, AlertsTypes, PanelIsMetering, NobodyTopsUp, RelayKept, PTL DEF AlertsSpec
<1>4. ASSUME TypeOK, NoticeInv, [AlertsNext]_allVars
      PROVE  \A s \in Subs :
               CollAt("notice") /\ coll'.pc = "mark" /\ OnSub(s) =>
                 NoticeOf(s) \notin notices \/ UsageAlert(NoticeOf(s)) \in interrupted
  <2>1. SUFFICES ASSUME NEW s \in Subs, CollAt("notice"), coll'.pc = "mark", OnSub(s),
                        NoticeOf(s) \in notices
                 PROVE  Excused(NoticeOf(s))
    BY DEF Excused
  <2>2. CollectNotice
    <3>1. Collect \/ Crash \/ UNCHANGED coll
      BY <1>4, PanelSteps, CollectorAlone
    <3>2. ~Crash /\ coll' # coll
      BY <2>1 DEF Crash, IdleCollector, CollAt
    <3> QED BY <2>1, <3>1, <3>2
            DEF Collect, CollectList, CollectPoll, CollectUsage, CollectSample, CollectMark,
                CollectStatus, CollectTell, CollAt
  <2>3. NoticeDue(s)
    <3>1. PICK t \in Subs : OnSub(t) /\ (NoticeDue(t) \/ CollGo("status"))
      BY <2>2 DEF CollectNotice
    <3>2. t = s
      BY <2>1, <3>1 DEF OnSub
    <3> QED BY <1>4, <2>1, <3>1, <3>2, GoKeeps
  <2> QED BY <1>4, <2>1, <2>3, DueIsNew
<1>5. AlertsSpec => [][AlertsNext]_allVars
  BY PTL DEF AlertsSpec
<1> QED BY <1>3, <1>4, <1>5, PTL DEF NoticeOnce
=============================================================================
