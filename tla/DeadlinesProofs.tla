-------------------------- MODULE DeadlinesProofs ---------------------------
(***************************************************************************)
(* Theorems about Deadlines, for any set of operations, any number of      *)
(* subscriptions of a customer and any time a swap takes.                  *)
(***************************************************************************)
EXTENDS Deadlines, TLAPS

\* How long after its preparation a request may turn to a node.
Start(op) == IF op = "registerNode" THEN Dial ELSE 0

Records == [op : AllOperations \cup {"none"}, pc : PCs, ready : Nat, own : Nat,
            call : 0 .. Holdings + 2, since : Nat]

LEMMA Budgets ==
  ASSUME NEW op \in AllOperations
  PROVE  /\ Own(op) \in Nat /\ Group(op) \in Nat /\ Start(op) \in 0 .. 10
         /\ Group(op) >= 30
BY DEF AllOperations, Own, Group, Start, LongOps, Dial, Never

\* Every handler has a call to make, and its calls have names.
LEMMA CallsNamed ==
  ASSUME NEW op \in AllOperations
  PROVE  /\ Len(Calls(op)) \in 1 .. Holdings + 2
         /\ \A k \in 1 .. Len(Calls(op)) : Calls(op)[k] \in CallNames
<1>1. CASE op \in {"deleteCustomer", "toggleCustomer"}
  <2>1. Calls(op) = [k \in 1 .. Holdings |-> "tenant"]
    BY <1>1 DEF Calls
  <2>2. Calls(op) \in Seq({"tenant"}) /\ Len(Calls(op)) = Holdings
    BY <2>1, DeadlinesAssumption
  <2> QED BY <2>1, <2>2, DeadlinesAssumption DEF CallNames
<1>2. CASE op \notin {"deleteCustomer", "toggleCustomer"}
  BY <1>2, DeadlinesAssumption DEF Calls, CallNames, AllOperations
<1> QED BY <1>1, <1>2

\* The time a request has spent, by the place it is at.
TimeKept ==
  /\ request.pc = "idle" => clock = 0
  /\ request.pc \in {"idle", "prepare"} => last.name = "none"
  /\ request.pc # "idle" => request.op \in AllOperations
  /\ request.ready <= Preparation
  /\ request.pc = "prepare" => clock <= Preparation
  /\ request.pc = "dial" => request.op = "registerNode" /\ clock <= request.ready + Dial
  /\ InCall => /\ request.ready <= request.own
               /\ request.own <= request.ready + Start(request.op)
               /\ request.own <= request.since /\ request.since <= clock
               /\ request.since <= request.own + Own(request.op)
  /\ request.pc = "call" => /\ request.call \in 1 .. Len(Calls(request.op))
                            /\ clock <= request.own + Own(request.op)
  /\ request.pc = "rollback" => /\ request.op = "createSubscription"
                                /\ clock <= request.since + Rollback
  /\ request.pc = "dial" => request.ready <= clock

DeadlinesInv == TypeOK /\ TimeKept

LEMMA InitKept == Init => DeadlinesInv
<1> SUFFICES ASSUME Init
             PROVE  DeadlinesInv
  OBVIOUS
<1>1. clock = 0 /\ request = NoRequest /\ gone = FALSE /\ swap = Never /\ last = NoCall
  BY DEF Init
<1>2. request \in Records
  BY <1>1, DeadlinesAssumption DEF NoRequest, PCs, Records
<1>3. last \in [name : CallNames \cup {"none"}, ended : {"none", "ok", "refused", "cut"},
                took : Nat, by : SUBSET {"group", "own", "client", "gone"}]
  BY <1>1 DEF NoCall
<1>4. TypeOK
  BY <1>1, <1>2, <1>3 DEF TypeOK, Records
<1>5. request.pc = "idle" /\ request.ready = 0
  BY <1>1 DEF NoRequest
<1>6. TimeKept
  BY <1>1, <1>5, DeadlinesAssumption DEF TimeKept, InCall, NoCall
<1> QED BY <1>4, <1>6 DEF DeadlinesInv

\* The first call is made when the handler turns to the node.
LEMMA FirstCallKept ==
  ASSUME clock \in Nat, NEW q \in Records, q.op \in AllOperations, NEW q1 \in FirstCall(q)
  PROVE  /\ q1 \in Records /\ q1.op = q.op /\ q1.pc = "call" /\ q1.ready = q.ready
         /\ q1.own = clock /\ q1.since = clock
         /\ q1.call \in 1 .. Len(Calls(q.op))
<1>1. PICK k \in (IF q.op = "registerNode" THEN {1, 2} ELSE {1}) :
        q1 = CallNext([q EXCEPT !.own = clock], k)
  BY DEF FirstCall
<1>2. k \in 1 .. Len(Calls(q.op))
  <2>1. CASE q.op = "registerNode"
    <3>1. Calls(q.op) = <<"config", "health">>
      BY <2>1 DEF Calls
    <3>2. Len(Calls(q.op)) = 2
      BY <3>1
    <3>3. k \in {1, 2}
      BY <2>1
    <3> QED BY <3>2, <3>3
  <2>2. CASE q.op # "registerNode"
    <3>1. PICK n : n = Len(Calls(q.op)) /\ n \in 1 .. Holdings + 2
      BY CallsNamed
    <3> QED BY <1>1, <2>2, <3>1, DeadlinesAssumption
  <2> QED BY <2>1, <2>2
<1>3. k \in 0 .. Holdings + 2
  BY <1>1, DeadlinesAssumption
<1>4. q1 = [[q EXCEPT !.own = clock] EXCEPT !.pc = "call", !.call = k, !.since = clock]
  BY <1>1 DEF CallNext
<1>5. q1 = [op |-> q.op, pc |-> "call", ready |-> q.ready, own |-> clock, call |-> k, since |-> clock]
  BY <1>4 DEF Records
<1>6. q1 \in Records
  BY <1>3, <1>5 DEF Records, PCs
<1> QED BY <1>2, <1>5, <1>6

\* What follows a call.
LEMMA AfterCallKept ==
  ASSUME TypeOK, TimeKept, InCall, NEW ok \in BOOLEAN, NEW q \in AfterCall(ok)
  PROVE  \/ /\ request.pc = "call" /\ request.call < Len(Calls(request.op))
            /\ q = [request EXCEPT !.pc = "call", !.call = request.call + 1, !.since = clock]
         \/ q = [request EXCEPT !.pc = "done"]
         \/ /\ request.pc = "call" /\ request.op = "createSubscription"
            /\ q = [request EXCEPT !.pc = "rollback", !.since = clock]
BY DEF AfterCall, GoesOn, Unstored, CallNext, InCall, TypeOK

LEMMA NameOfCall ==
  ASSUME TypeOK, TimeKept, InCall
  PROVE  /\ CallName \in CallNames
         /\ CallName = "rollback" => request.pc = "rollback"
<1>1. CASE request.pc = "rollback"
  BY <1>1 DEF CallName, CallNames
<1>2. CASE request.pc = "call"
  <2>1. request.op \in AllOperations /\ request.call \in 1 .. Len(Calls(request.op))
    BY <1>2 DEF TimeKept
  <2>2. CallName = Calls(request.op)[request.call]
    BY <1>2 DEF CallName
  <2>3. CallName \in CallNames
    BY <2>1, <2>2, CallsNamed
  <2>4. CallName # "rollback"
    <3>1. CASE request.op \in {"deleteCustomer", "toggleCustomer"}
      <4>1. Calls(request.op) = [k \in 1 .. Holdings |-> "tenant"]
        BY <3>1 DEF Calls
      <4>2. Len(Calls(request.op)) = Holdings
        BY <4>1, DeadlinesAssumption
      <4> QED BY <4>1, <4>2, <2>1, <2>2, DeadlinesAssumption
    <3>2. CASE request.op \notin {"deleteCustomer", "toggleCustomer"}
      BY <3>2, <2>1, <2>2 DEF Calls
    <3> QED BY <3>1, <3>2
  <2> QED BY <2>3, <2>4
<1> QED BY <1>1, <1>2 DEF InCall

-----------------------------------------------------------------------------
(* One lemma per action. *)

LEMMA ArriveKept == ASSUME DeadlinesInv, NEW op \in Operations, Arrive(op) PROVE DeadlinesInv'
<1>1. op \in AllOperations /\ clock = 0 /\ last.name = "none" /\ UNCHANGED <<clock, gone, swap, last>>
  BY DeadlinesAssumption DEF Arrive, DeadlinesInv, TimeKept
<1>2. request' = [op |-> op, pc |-> "prepare", ready |-> 0, own |-> 0, call |-> 0, since |-> 0]
  BY DEF Arrive, NoRequest
<1>3. request' \in Records
  BY <1>1, <1>2, DeadlinesAssumption DEF Records, PCs
<1>4. TypeOK'
  BY <1>1, <1>3 DEF DeadlinesInv, TypeOK, Records
<1>5. TimeKept'
  BY <1>1, <1>2, DeadlinesAssumption DEF TimeKept, InCall
<1> QED BY <1>4, <1>5 DEF DeadlinesInv

LEMMA PrepareKept == ASSUME DeadlinesInv, Prepare PROVE DeadlinesInv'
<1> DEFINE q == [request EXCEPT !.ready = clock]
<1>1. /\ request.pc = "prepare" /\ request.op \in AllOperations /\ request \in Records
      /\ clock \in Nat /\ clock <= Preparation /\ UNCHANGED <<clock, gone, last>>
  BY DEF Prepare, DeadlinesInv, TypeOK, TimeKept, Records
<1>2. q = [op |-> request.op, pc |-> "prepare", ready |-> clock, own |-> request.own,
           call |-> request.call, since |-> request.since]
  BY <1>1 DEF Records
<1>3. q \in Records /\ q.op = request.op /\ q.ready = clock
  BY <1>1, <1>2 DEF Records
<1> HIDE DEF q
<1>4. CASE request' \in FirstCall(q) /\ swap' = Swapping(q)
  <2>1. /\ request' \in Records /\ request'.op = request.op /\ request'.pc = "call"
        /\ request'.ready = clock /\ request'.own = clock /\ request'.since = clock
        /\ request'.call \in 1 .. Len(Calls(request.op))
    BY <1>1, <1>3, <1>4, FirstCallKept
  <2>2. swap' \in 0 .. SwapTime \cup {Never}
    BY <1>4, DeadlinesAssumption DEF Swapping
  <2>3. TypeOK'
    BY <1>1, <2>1, <2>2 DEF DeadlinesInv, TypeOK, Records
  <2>4. Own(request.op) \in Nat /\ Start(request.op) \in 0 .. 10
    BY <1>1, Budgets
  <2>5. TimeKept'
    BY <1>1, <2>1, <2>4 DEF TimeKept, InCall
  <2> QED BY <2>3, <2>5 DEF DeadlinesInv
<1>5. CASE q.op = "registerNode" /\ request' = [q EXCEPT !.pc = "dial"] /\ UNCHANGED swap
  <2>1. request' = [op |-> request.op, pc |-> "dial", ready |-> clock, own |-> request.own,
                    call |-> request.call, since |-> request.since]
    BY <1>2, <1>5 DEF q
  <2>2. request' \in Records
    BY <1>1, <2>1 DEF Records, PCs
  <2>3. TypeOK'
    BY <1>1, <1>5, <2>2 DEF DeadlinesInv, TypeOK, Records
  <2>4. TimeKept'
    BY <1>1, <1>3, <1>5, <2>1 DEF TimeKept, InCall, Dial
  <2> QED BY <2>3, <2>4 DEF DeadlinesInv
<1>6. CASE request' = [q EXCEPT !.pc = "done"] /\ UNCHANGED swap
  <2>1. request' = [op |-> request.op, pc |-> "done", ready |-> clock, own |-> request.own,
                    call |-> request.call, since |-> request.since]
    BY <1>2, <1>6 DEF q
  <2>2. request' \in Records
    BY <1>1, <2>1 DEF Records, PCs
  <2>3. TypeOK'
    BY <1>1, <1>6, <2>2 DEF DeadlinesInv, TypeOK, Records
  <2>4. TimeKept'
    BY <1>1, <2>1 DEF TimeKept, InCall
  <2> QED BY <2>3, <2>4 DEF DeadlinesInv
<1> QED BY <1>4, <1>5, <1>6 DEF Prepare, q

LEMMA DialEndsKept == ASSUME DeadlinesInv, DialEnds PROVE DeadlinesInv'
<1>1. /\ request.op = "registerNode" /\ request.op \in AllOperations /\ request \in Records
      /\ clock \in Nat /\ request.ready \in Nat /\ request.ready <= clock
      /\ clock <= request.ready + Start(request.op) /\ request.ready <= Preparation
      /\ UNCHANGED <<clock, gone, swap, last>>
  BY DEF DialEnds, DeadlinesInv, TypeOK, TimeKept, Start, Records
<1>2. /\ request' \in Records /\ request'.op = request.op /\ request'.pc = "call"
      /\ request'.ready = request.ready /\ request'.own = clock /\ request'.since = clock
      /\ request'.call \in 1 .. Len(Calls(request.op))
  BY <1>1, FirstCallKept DEF DialEnds
<1>3. TypeOK'
  BY <1>1, <1>2 DEF DeadlinesInv, TypeOK, Records
<1>4. Own(request.op) \in Nat
  BY <1>1, Budgets
<1>5. TimeKept'
  BY <1>1, <1>2, <1>4 DEF TimeKept, InCall
<1> QED BY <1>3, <1>5 DEF DeadlinesInv

\* A call ends no later than its handler's deadline, and what follows it keeps
\* the time.
LEMMA CallEndKept ==
  ASSUME DeadlinesInv, InCall, NEW ok \in BOOLEAN, request' \in AfterCall(ok), clock' = clock
  PROVE  /\ TimeKept'
         /\ request' \in Records
<1>1. TypeOK /\ TimeKept
  BY DEF DeadlinesInv
<1>2. /\ clock \in Nat /\ request.own \in Nat /\ request.since \in Nat
      /\ request.op \in AllOperations /\ Own(request.op) \in Nat
      /\ request.ready \in Nat /\ request.ready <= Preparation
      /\ request.ready <= request.own /\ request.own <= request.ready + Start(request.op)
      /\ request.own <= request.since /\ request.since <= clock
      /\ request.since <= request.own + Own(request.op)
  BY <1>1, Budgets DEF TypeOK, TimeKept, InCall
<1>3. request \in Records
  BY <1>1 DEF TypeOK, Records
<1>4. CASE /\ request.pc = "call" /\ request.call < Len(Calls(request.op))
           /\ request' = [request EXCEPT !.pc = "call", !.call = request.call + 1, !.since = clock]
  <2>1. request.call \in 1 .. Len(Calls(request.op)) /\ clock <= request.own + Own(request.op)
    BY <1>1, <1>4 DEF TimeKept
  <2>2. Len(Calls(request.op)) \in 1 .. Holdings + 2
    BY <1>2, CallsNamed
  <2>3. request' = [op |-> request.op, pc |-> "call", ready |-> request.ready, own |-> request.own,
                    call |-> request.call + 1, since |-> clock]
    BY <1>3, <1>4 DEF Records
  <2>4. request.call + 1 \in 1 .. Len(Calls(request.op)) /\ request.call + 1 \in 0 .. Holdings + 2
    BY <1>4, <2>1, <2>2, DeadlinesAssumption
  <2>5. request' \in Records
    BY <1>2, <2>3, <2>4 DEF PCs, Records
  <2>6. /\ request'.pc = "call" /\ request'.op = request.op /\ request'.own = request.own
        /\ request'.ready = request.ready /\ request'.since = clock /\ request'.call = request.call + 1
    BY <2>3
  <2>7. TimeKept'
    BY <1>2, <2>1, <2>4, <2>6 DEF TimeKept, InCall
  <2> QED BY <2>5, <2>7
<1>5. CASE request' = [request EXCEPT !.pc = "done"]
  <2>1. request' = [op |-> request.op, pc |-> "done", ready |-> request.ready, own |-> request.own,
                    call |-> request.call, since |-> request.since]
    BY <1>3, <1>5 DEF Records
  <2>2. request.call \in 0 .. Holdings + 2
    BY <1>3 DEF Records
  <2>3. request' \in Records
    BY <1>2, <2>1, <2>2 DEF PCs, Records
  <2> QED BY <1>2, <2>1, <2>3 DEF TimeKept, InCall
<1>6. CASE /\ request.pc = "call" /\ request.op = "createSubscription"
           /\ request' = [request EXCEPT !.pc = "rollback", !.since = clock]
  <2>1. request' = [op |-> request.op, pc |-> "rollback", ready |-> request.ready, own |-> request.own,
                    call |-> request.call, since |-> clock]
    BY <1>3, <1>6 DEF Records
  <2>2. request.call \in 0 .. Holdings + 2 /\ clock <= request.own + Own(request.op)
    BY <1>1, <1>3, <1>6 DEF TimeKept, Records
  <2>3. request' \in Records
    BY <1>2, <2>1, <2>2 DEF PCs, Records
  <2>4. /\ request'.pc = "rollback" /\ request'.op = request.op /\ request'.own = request.own
        /\ request'.ready = request.ready /\ request'.since = clock
    BY <2>1
  <2>5. TimeKept'
    BY <1>2, <1>6, <2>2, <2>4 DEF TimeKept, InCall, Rollback
  <2> QED BY <2>3, <2>5
<1> QED BY <1>1, <1>4, <1>5, <1>6, AfterCallKept

LEMMA ReplyKept == ASSUME DeadlinesInv, Reply PROVE DeadlinesInv'
<1>1. PICK ok \in BOOLEAN :
        request' \in AfterCall(ok) /\ Ended(IF ok THEN "ok" ELSE "refused", {})
  BY DEF Reply
<1>2. InCall /\ clock' = clock /\ gone' = gone /\ swap' \in {swap, Never}
  BY DEF Reply
<1>3. /\ TimeKept'
      /\ request' \in Records
  BY <1>1, <1>2, CallEndKept
<1>4. clock - request.since \in Nat
  BY <1>2 DEF DeadlinesInv, TypeOK, TimeKept
<1>5. CallName \in CallNames
  BY <1>2, NameOfCall DEF DeadlinesInv
<1>6. last' = [name |-> CallName, ended |-> IF ok THEN "ok" ELSE "refused",
               took |-> clock - request.since, by |-> {}]
  BY <1>1 DEF Ended
<1>7. TypeOK'
  BY <1>2, <1>3, <1>4, <1>5, <1>6 DEF DeadlinesInv, TypeOK, Records
<1> QED BY <1>3, <1>7 DEF DeadlinesInv

LEMMA CutKept == ASSUME DeadlinesInv, Cut PROVE DeadlinesInv'
<1>1. InCall /\ Due # {} /\ request' \in AfterCall(FALSE) /\ UNCHANGED <<clock, gone, swap>>
  BY DEF Cut
<1>2. /\ TimeKept'
      /\ request' \in Records
  BY <1>1, CallEndKept
<1>3. /\ clock \in Nat /\ request.own \in Nat /\ request.since \in Nat
      /\ request.since <= clock
  BY <1>1 DEF DeadlinesInv, TypeOK, TimeKept, InCall
<1>4. clock - request.since \in Nat
  BY <1>3
<1>5. last' = [name |-> CallName, ended |-> "cut", took |-> clock - request.since, by |-> Due]
  BY DEF Cut, Ended
<1>6. Due \subseteq {"group", "own", "client", "gone"}
  BY DEF Due, Limits
<1>7. CallName \in CallNames
  BY <1>1, NameOfCall DEF DeadlinesInv
<1>8. TypeOK'
  BY <1>1, <1>2, <1>4, <1>5, <1>6, <1>7 DEF DeadlinesInv, TypeOK, Records
<1> QED BY <1>2, <1>8 DEF DeadlinesInv

LEMMA AsideKept == ASSUME DeadlinesInv, Disconnect \/ SwapEnds PROVE DeadlinesInv'
<1>1. UNCHANGED <<clock, request, last>> /\ gone' \in BOOLEAN /\ swap' \in {swap, Never}
  BY DEF Disconnect, SwapEnds, DeadlinesInv, TypeOK
<1>2. TypeOK'
  BY <1>1 DEF DeadlinesInv, TypeOK
<1> QED BY <1>1, <1>2 DEF DeadlinesInv, TimeKept, InCall

LEMMA SecondKept == ASSUME DeadlinesInv, Second PROVE DeadlinesInv'
<1>1. /\ UNCHANGED <<request, gone, last>> /\ clock' = clock + 1 /\ clock \in Nat
      /\ swap' = IF swap = Never THEN Never ELSE swap + 1
  BY DEF Second, DeadlinesInv, TypeOK
<1>2. swap' \in 0 .. SwapTime \cup {Never}
  BY <1>1, DeadlinesAssumption DEF Second, DeadlinesInv, TypeOK, Never
<1>3. TypeOK'
  BY <1>1, <1>2 DEF DeadlinesInv, TypeOK
<1>5. CASE InCall
  <2>1. Due = {} /\ TimeKept /\ request.op \in AllOperations /\ request.own \in Nat
        /\ request.since \in Nat /\ Own(request.op) \in Nat
    BY <1>5, Budgets DEF Second, DeadlinesInv, TypeOK, TimeKept, InCall
  <2>2. TimeKept'
    <3>1. CASE request.pc = "call"
      <4>1. ~(clock >= request.own + Own(request.op))
        BY <2>1, <3>1 DEF Due, Limits
      <4> QED BY <1>1, <2>1, <3>1, <4>1 DEF TimeKept, InCall
    <3>2. CASE request.pc = "rollback"
      <4>1. ~(clock >= request.since + Rollback)
        BY <2>1, <3>2 DEF Due
      <4> QED BY <1>1, <2>1, <3>2, <4>1 DEF TimeKept, InCall, Rollback
    <3> QED BY <1>5, <3>1, <3>2 DEF InCall
  <2> QED BY <1>3, <2>2 DEF DeadlinesInv
<1>6. CASE request.pc \in {"prepare", "dial"}
  <2>1. request.ready \in Nat /\ TimeKept
    BY DEF DeadlinesInv, TypeOK
  <2>2. TimeKept'
    BY <1>1, <1>6, <2>1, DeadlinesAssumption DEF Second, TimeKept, InCall, Dial
  <2> QED BY <1>3, <2>2 DEF DeadlinesInv
<1> QED BY <1>5, <1>6 DEF Second

LEMMA NextKept == ASSUME DeadlinesInv, [Next]_vars PROVE DeadlinesInv'
<1>1. CASE UNCHANGED vars
  BY <1>1 DEF vars, DeadlinesInv, TypeOK, TimeKept, InCall
<1>2. CASE Next
  BY <1>2, ArriveKept, PrepareKept, DialEndsKept, ReplyKept, CutKept, AsideKept, SecondKept DEF Next
<1> QED BY <1>1, <1>2

THEOREM Kept == Spec => []DeadlinesInv
BY InitKept, NextKept, PTL DEF Spec

-----------------------------------------------------------------------------
(* What follows. *)

\* No call goes on past the group's deadline, but a rollback.
WithinGroup ==
  /\ request.pc = "call" => clock <= Group(request.op)
  /\ request.pc = "rollback" => request.since <= Group(request.op)

LEMMA GroupStep ==
  ASSUME Preparation <= 20, DeadlinesInv, WithinGroup, [Next]_vars
  PROVE  WithinGroup'
<1>1. CASE UNCHANGED <<request, clock>>
  BY <1>1 DEF WithinGroup
<1>2. CASE request'.pc \notin {"call", "rollback"}
  BY <1>2 DEF WithinGroup
<1>3. CASE Prepare \/ DialEnds
  <2>1. PICK q \in Records : /\ q.op = request.op /\ q.op \in AllOperations
                             /\ request' \in FirstCall(q) \/ request'.pc \notin {"call", "rollback"}
    <3>1. CASE DialEnds
      <4>1. request \in Records /\ request.op \in AllOperations /\ request' \in FirstCall(request)
        BY <3>1 DEF DialEnds, DeadlinesInv, TypeOK, TimeKept, Records
      <4> QED BY <4>1
    <3>2. CASE Prepare
      <4> DEFINE q == [request EXCEPT !.ready = clock]
      <4>1. request \in Records /\ clock \in Nat /\ request.op \in AllOperations
        BY <3>2 DEF Prepare, DeadlinesInv, TypeOK, TimeKept, Records
      <4>2. q \in Records /\ q.op = request.op
        BY <4>1 DEF Records
      <4>3. [q EXCEPT !.pc = "dial"].pc = "dial" /\ [q EXCEPT !.pc = "done"].pc = "done"
        BY <4>1 DEF Records
      <4>4. \/ request' \in FirstCall(q)
            \/ request' = [q EXCEPT !.pc = "dial"]
            \/ request' = [q EXCEPT !.pc = "done"]
        BY <3>2 DEF Prepare
      <4> HIDE DEF q
      <4> QED BY <4>1, <4>2, <4>3, <4>4
    <3> QED BY <1>3, <3>1, <3>2
  <2>2. /\ clock \in Nat /\ clock' = clock /\ request.ready \in Nat
        /\ clock <= Preparation + 10
    BY <1>3, DeadlinesAssumption DEF Prepare, DialEnds, DeadlinesInv, TypeOK, TimeKept, Dial
  <2>3. CASE request' \in FirstCall(q)
    <3>1. request'.pc = "call" /\ request'.op = request.op
      BY <2>1, <2>2, <2>3, FirstCallKept
    <3>2. Group(request.op) >= 30 /\ Group(request.op) \in Nat
      BY <2>1, Budgets
    <3> QED BY <2>2, <3>1, <3>2, DeadlinesAssumption DEF WithinGroup
  <2> QED BY <1>2, <2>1, <2>3
<1>4. ASSUME NEW ok \in BOOLEAN, InCall, request' \in AfterCall(ok), clock' = clock
      PROVE  WithinGroup'
  <2>1. TypeOK /\ TimeKept /\ request \in Records
    BY DEF DeadlinesInv, TypeOK, Records
  <2>2. CASE /\ request.pc = "call" /\ request' = [request EXCEPT !.pc = "call", !.call = request.call + 1, !.since = clock]
    <3>1. request'.pc = "call" /\ request'.op = request.op
      BY <2>1, <2>2 DEF Records
    <3> QED BY <1>4, <2>2, <3>1 DEF WithinGroup
  <2>3. CASE request' = [request EXCEPT !.pc = "done"]
    <3>1. request'.pc = "done"
      BY <2>1, <2>3 DEF Records
    <3> QED BY <1>2, <3>1
  <2>4. CASE /\ request.pc = "call" /\ request' = [request EXCEPT !.pc = "rollback", !.since = clock]
    <3>1. request'.pc = "rollback" /\ request'.op = request.op /\ request'.since = clock
      BY <2>1, <2>4 DEF Records
    <3> QED BY <1>4, <2>4, <3>1 DEF WithinGroup
  <2> QED BY <1>4, <2>1, <2>2, <2>3, <2>4, AfterCallKept
<1>5. CASE Second
  <2>1. request' = request /\ clock' = clock + 1 /\ clock \in Nat
    BY <1>5 DEF Second, DeadlinesInv, TypeOK
  <2>2. ASSUME request.pc = "call" PROVE clock + 1 <= Group(request.op)
    <3>1. Due = {} /\ request.op \in AllOperations
      BY <1>5, <2>2 DEF Second, InCall, DeadlinesInv, TimeKept
    <3>2. ~(clock >= Group(request.op))
      BY <2>2, <3>1 DEF Due, Limits
    <3> QED BY <2>1, <3>1, <3>2, Budgets
  <2> QED BY <2>1, <2>2 DEF WithinGroup
<1>6. ASSUME NEW op \in Operations, Arrive(op) PROVE WithinGroup'
  <2>1. request'.pc = "prepare"
    BY <1>6 DEF Arrive, NoRequest
  <2> QED BY <1>2, <2>1
<1> QED BY <1>1, <1>3, <1>4, <1>5, <1>6 DEF Next, Reply, Cut, Disconnect, SwapEnds, vars

\* An ordinary request is over when its group's deadline is, whatever dial without a
\* context it began with, and its calls share the handler's budget; only the rollback
\* of a sale goes on, for its own time.
THEOREM BudgetIsOne == ASSUME Preparation <= 20 PROVE Spec => []OneBudget
<1>1. DeadlinesInv /\ WithinGroup => OneBudget
  <2> SUFFICES ASSUME DeadlinesInv, WithinGroup, InCall
               PROVE  LET rollback == IF request.pc = "rollback" THEN Rollback ELSE 0
                      IN /\ clock <= Group(request.op) + rollback
                         /\ clock <= request.ready + Start(request.op) + Own(request.op) + rollback
    BY DEF OneBudget, Start
  <2>1. /\ clock \in Nat /\ request.own \in Nat /\ request.since \in Nat /\ request.ready \in Nat
        /\ Own(request.op) \in Nat /\ Start(request.op) \in Nat /\ Group(request.op) \in Nat
        /\ request.own <= request.ready + Start(request.op)
        /\ request.since <= request.own + Own(request.op)
    <3>1. request.op \in AllOperations
      BY DEF DeadlinesInv, TimeKept, InCall
    <3>2. Own(request.op) \in Nat /\ Group(request.op) \in Nat /\ Start(request.op) \in Nat
      BY <3>1, Budgets
    <3> QED BY <3>2 DEF DeadlinesInv, TypeOK, TimeKept
  <2>2. CASE request.pc = "call"
    BY <2>1, <2>2 DEF DeadlinesInv, TimeKept, WithinGroup
  <2>3. CASE request.pc = "rollback"
    BY <2>1, <2>3 DEF DeadlinesInv, TimeKept, WithinGroup, Rollback
  <2> QED BY <2>2, <2>3 DEF InCall
<1>2. Init => WithinGroup
  BY DEF Init, NoRequest, WithinGroup
<1>3. DeadlinesInv /\ WithinGroup /\ [Next]_vars => WithinGroup'
  BY GroupStep
<1> QED BY <1>1, <1>2, <1>3, Kept, PTL DEF Spec

-----------------------------------------------------------------------------
(* Swaps: a node done within the three minutes of its client's timeout is  *)
(* never left swapping behind an answer.                                   *)

\* Whoever swaps a node's binary is waiting for it, and has been from the start, or
\* has been told that it goes on.
SwapAwaited ==
  swap # Never /\ ~gone =>
    \/ /\ request.pc = "call" /\ request.op \in LongOps
       /\ request.own = request.ready /\ request.since = request.ready
       /\ clock = request.ready + swap
    \/ request.pc = "done" /\ last.ended = "ok"

LEMMA SwapStep ==
  ASSUME SwapTime < 180, Preparation + SwapTime < 200, DeadlinesInv, SwapAwaited, [Next]_vars
  PROVE  SwapAwaited'
<1>1. CASE UNCHANGED vars
  BY <1>1 DEF vars, SwapAwaited
<1>2. CASE Prepare
  <2> DEFINE q == [request EXCEPT !.ready = clock]
  <2>1. /\ request \in Records /\ request.op \in AllOperations /\ request.pc = "prepare"
        /\ clock \in Nat /\ UNCHANGED <<clock, gone>>
    BY <1>2 DEF Prepare, DeadlinesInv, TypeOK, TimeKept, Records
  <2>2. q \in Records /\ q.op = request.op /\ q.ready = clock
    BY <2>1 DEF Records
  <2>3. swap = Never \/ gone
    BY <2>1 DEF SwapAwaited
  <2> HIDE DEF q
  <2>4. CASE request' \in FirstCall(q) /\ swap' = Swapping(q)
    <3>1. /\ request'.op = request.op /\ request'.pc = "call" /\ request'.ready = clock
          /\ request'.own = clock /\ request'.since = clock
      BY <2>1, <2>2, <2>4, FirstCallKept
    <3>2. swap' # Never => swap' = 0 /\ request.op \in LongOps
      BY <2>2, <2>4 DEF Swapping
    <3> QED BY <2>1, <3>1, <3>2 DEF SwapAwaited
  <2>5. CASE UNCHANGED swap
    BY <2>1, <2>3, <2>5 DEF SwapAwaited
  <2> QED BY <1>2, <2>4, <2>5 DEF Prepare, q
<1>3. CASE DialEnds
  BY <1>3 DEF DialEnds, SwapAwaited
<1>4. CASE Reply
  <2> SUFFICES ASSUME swap' # Never, ~gone
               PROVE  request'.pc = "done" /\ last'.ended = "ok"
    BY <1>4 DEF Reply, SwapAwaited
  <2>1. PICK ok \in BOOLEAN :
          /\ request' \in AfterCall(ok) /\ Ended(IF ok THEN "ok" ELSE "refused", {})
          /\ swap' \in {Never} \cup (IF ok /\ request.op = "updateNodeBinary" THEN {swap} ELSE {})
    BY <1>4 DEF Reply
  <2>2. ok /\ request.op = "updateNodeBinary" /\ swap # Never
    BY <2>1
  <2>3. request.pc = "call" /\ InCall /\ TypeOK /\ TimeKept /\ request \in Records
    BY <1>4, <2>2 DEF Reply, InCall, DeadlinesInv, TypeOK, TimeKept, Records
  <2>4. Calls(request.op) = <<"call">>
    BY <2>2 DEF Calls
  <2>5. request.call = 1 /\ Len(Calls(request.op)) = 1
    <3>1. Len(Calls(request.op)) = 1
      BY <2>4
    <3>2. \A k \in 1 .. 1 : k = 1
      OBVIOUS
    <3>3. request.call \in 1 .. 1
      BY <2>3, <3>1 DEF TimeKept
    <3> QED BY <3>1, <3>2, <3>3
  <2>6. request' = [request EXCEPT !.pc = "done"]
    <3>1. ~(request.call < Len(Calls(request.op)))
      BY <2>5
    <3>2. request.op # "createSubscription"
      BY <2>2
    <3>3. request' \in AfterCall(ok)
      BY <2>1
    <3> QED BY <2>3, <3>1, <3>2, <3>3, AfterCallKept
  <2>7. request'.pc = "done"
    BY <2>3, <2>6 DEF Records
  <2>8. last'.ended = "ok"
    BY <2>1, <2>2 DEF Ended
  <2> QED BY <2>7, <2>8
<1>5. CASE Cut
  <2> SUFFICES ASSUME swap # Never, ~gone
               PROVE  FALSE
    BY <1>5 DEF Cut, SwapAwaited
  <2>1. /\ request.pc = "call" /\ request.op \in LongOps /\ request.own = request.ready
        /\ request.since = request.ready /\ clock = request.ready + swap
    BY <1>5 DEF SwapAwaited, Cut, InCall
  <2>2. /\ swap \in Nat /\ swap <= SwapTime /\ request.ready \in Nat
        /\ request.ready <= Preparation
    BY <2>1, DeadlinesAssumption DEF DeadlinesInv, TypeOK, TimeKept
  <2>3. Group(request.op) = 200 /\ Own(request.op) = 190 /\ Client(request.op) = 180
    BY <2>1 DEF Group, Own, Client, LongOps
  <2>4. Limits = [group |-> 200, own |-> request.ready + 190, client |-> request.ready + 180]
    BY <2>1, <2>3 DEF Limits
  <2>5. ~(clock >= 200) /\ ~(clock >= request.ready + 190) /\ ~(clock >= request.ready + 180)
    BY <2>1, <2>2, DeadlinesAssumption
  <2>6. Due = {}
    BY <2>1, <2>4, <2>5 DEF Due
  <2> QED BY <1>5, <2>6 DEF Cut
<1>6. CASE Disconnect \/ SwapEnds
  BY <1>6 DEF Disconnect, SwapEnds, SwapAwaited
<1>7. CASE Second
  <2>1. /\ request' = request /\ clock' = clock + 1 /\ clock \in Nat /\ UNCHANGED <<gone, last>>
        /\ swap' = IF swap = Never THEN Never ELSE swap + 1
        /\ request.ready \in Nat /\ (swap \in Nat \/ swap = Never)
    BY <1>7, DeadlinesAssumption DEF Second, DeadlinesInv, TypeOK
  <2> QED BY <2>1 DEF SwapAwaited
<1>8. ASSUME NEW op \in Operations, Arrive(op) PROVE SwapAwaited'
  BY <1>8 DEF Arrive, SwapAwaited
<1> QED BY <1>1, <1>2, <1>3, <1>4, <1>5, <1>6, <1>7, <1>8 DEF Next

\* An operator who waits is never told that a binary swap failed while the node is
\* still swapping, as long as nodes take less than three minutes and the body is there
\* in time for the group's 200 seconds to hold them: no deadline of the panel is
\* reached before the node client's.
THEOREM NoSwapLeftBehind ==
  ASSUME SwapTime < 180, Preparation + SwapTime < 200
  PROVE  Spec => []NoRetryMidSwap
<1>1. Init => SwapAwaited
  BY DEF Init, SwapAwaited
<1>2. SwapAwaited => NoRetryMidSwap
  BY DEF SwapAwaited, NoRetryMidSwap
<1>3. DeadlinesInv /\ SwapAwaited /\ [Next]_vars => SwapAwaited'
  BY SwapStep
<1> QED BY <1>1, <1>2, <1>3, Kept, PTL DEF Spec

-----------------------------------------------------------------------------
(* Probes: what the push before it leaves of the budget is enough.         *)

Probing == {"registerNode", "updateNodeConfig", "nodeHealth"}

\* A handler that probes has spent one call's time at the most when it does.
ProbeOnTime ==
  request.pc = "call" /\ request.op \in Probing =>
    /\ request.call = 1 => request.since = request.own
    /\ request.since <= request.own + 15
    /\ clock <= request.since + 15

LEMMA NameOfProbe ==
  ASSUME DeadlinesInv, InCall, CallName = "health"
  PROVE  request.pc = "call" /\ request.op \in Probing
<1>1. request.pc = "call" /\ CallName = Calls(request.op)[request.call]
  BY DEF InCall, CallName
<1>2. request.op \in AllOperations /\ request.call \in 1 .. Len(Calls(request.op))
  BY <1>1 DEF DeadlinesInv, TimeKept
<1>3. CASE request.op \in {"deleteCustomer", "toggleCustomer"}
  <2>1. Calls(request.op) = [k \in 1 .. Holdings |-> "tenant"]
    BY <1>3 DEF Calls
  <2>2. Len(Calls(request.op)) = Holdings
    BY <2>1, DeadlinesAssumption
  <2>3. Calls(request.op)[request.call] = "tenant"
    BY <1>2, <2>1, <2>2
  <2> QED BY <1>1, <2>3
<1>4. CASE request.op \notin {"deleteCustomer", "toggleCustomer"}
  BY <1>1, <1>2, <1>4 DEF Calls, Probing
<1> QED BY <1>1, <1>3, <1>4

LEMMA ProbeStep ==
  ASSUME DeadlinesInv, ProbeOnTime, [Next]_vars
  PROVE  ProbeOnTime'
<1>1. CASE UNCHANGED vars
  BY <1>1 DEF vars, ProbeOnTime
<1>2. ASSUME NEW op \in Operations, Arrive(op) PROVE ProbeOnTime'
  <2>1. request'.pc = "prepare"
    BY <1>2 DEF Arrive, NoRequest
  <2> QED BY <2>1 DEF ProbeOnTime
<1>9. ASSUME NEW q \in Records, q.op \in AllOperations, request' \in FirstCall(q), clock' = clock
      PROVE  ProbeOnTime'
  <2>1. clock \in Nat
    BY DEF DeadlinesInv, TypeOK
  <2>2. request'.own = clock /\ request'.since = clock
    BY <1>9, <2>1, FirstCallKept
  <2> QED BY <1>9, <2>1, <2>2 DEF ProbeOnTime
<1>3. CASE DialEnds
  <2>1. request \in Records /\ request.op \in AllOperations /\ clock' = clock
    BY <1>3 DEF DialEnds, DeadlinesInv, TypeOK, TimeKept, Records
  <2> QED BY <1>3, <1>9, <2>1 DEF DialEnds
<1>10. CASE Prepare
  <2> DEFINE q == [request EXCEPT !.ready = clock]
  <2>1. request \in Records /\ clock \in Nat /\ request.op \in AllOperations /\ clock' = clock
    BY <1>10 DEF Prepare, DeadlinesInv, TypeOK, TimeKept, Records
  <2>2. q \in Records /\ q.op = request.op
    BY <2>1 DEF Records
  <2>3. [q EXCEPT !.pc = "dial"].pc = "dial" /\ [q EXCEPT !.pc = "done"].pc = "done"
    BY <2>1 DEF Records
  <2>4. \/ request' \in FirstCall(q)
        \/ request' = [q EXCEPT !.pc = "dial"]
        \/ request' = [q EXCEPT !.pc = "done"]
    BY <1>10 DEF Prepare
  <2> HIDE DEF q
  <2>5. request' \in FirstCall(q) \/ request'.pc \in {"dial", "done"}
    BY <2>3, <2>4
  <2>6. request'.pc \in {"dial", "done"} => ProbeOnTime'
    BY DEF ProbeOnTime
  <2> QED BY <1>9, <2>1, <2>2, <2>5, <2>6
<1>4. ASSUME NEW ok \in BOOLEAN, InCall, request' \in AfterCall(ok), clock' = clock
      PROVE  ProbeOnTime'
  <2>1. TypeOK /\ TimeKept
    BY DEF DeadlinesInv
  <2>2. request \in Records /\ clock \in Nat
    BY <2>1 DEF TypeOK, Records
  <2>3. CASE /\ request.pc = "call" /\ request.call < Len(Calls(request.op))
             /\ request' = [request EXCEPT !.pc = "call", !.call = request.call + 1,
                                           !.since = clock]
    <3>1. /\ request'.op = request.op /\ request'.own = request.own
          /\ request'.call = request.call + 1 /\ request'.since = clock
      BY <2>2, <2>3 DEF Records
    <3>2. request.call \in 1 .. Len(Calls(request.op))
      BY <2>1, <2>3 DEF TimeKept
    <3>3. request.op \in Probing => Len(Calls(request.op)) \in {1, 2}
      BY DEF Probing, Calls
    <3>4. ASSUME request.op \in Probing
          PROVE  request.call = 1
      <4>1. Len(Calls(request.op)) \in {1, 2} /\ request.call < Len(Calls(request.op))
        BY <2>3, <3>3, <3>4
      <4>2. \A n \in {1, 2} : \A k \in 1 .. n : k < n => k = 1
        OBVIOUS
      <4> QED BY <3>2, <4>1, <4>2
    <3> QED BY <1>4, <2>2, <2>3, <3>1, <3>4 DEF ProbeOnTime
  <2>4. CASE request' = [request EXCEPT !.pc = "done"]
    <3>1. request'.pc = "done"
      BY <2>2, <2>4 DEF Records
    <3> QED BY <3>1 DEF ProbeOnTime
  <2>5. CASE request' = [request EXCEPT !.pc = "rollback", !.since = clock]
    <3>1. request'.pc = "rollback"
      BY <2>2, <2>5 DEF Records
    <3> QED BY <3>1 DEF ProbeOnTime
  <2> QED BY <1>4, <2>1, <2>3, <2>4, <2>5, AfterCallKept
<1>5. CASE Reply
  BY <1>4, <1>5 DEF Reply
<1>6. CASE Cut
  BY <1>4, <1>6 DEF Cut
<1>7. CASE Disconnect \/ SwapEnds
  BY <1>7 DEF Disconnect, SwapEnds, ProbeOnTime
<1>8. CASE Second
  <2> SUFFICES ASSUME request.pc = "call", request.op \in Probing
               PROVE  clock + 1 <= request.since + 15
    BY <1>8 DEF Second, ProbeOnTime
  <2>1. Due = {} /\ clock \in Nat /\ request.since \in Nat
    BY <1>8 DEF Second, InCall, DeadlinesInv, TypeOK
  <2>2. ~(clock >= request.since + Client(request.op))
    BY <2>1 DEF Due, Limits
  <2>3. Client(request.op) = 15
    BY DEF Client, LongOps, Probing
  <2> QED BY <2>1, <2>2, <2>3
<1> QED BY <1>1, <1>2, <1>3, <1>5, <1>6, <1>7, <1>8, <1>10 DEF Next

LEMMA ProbeCut ==
  ASSUME PromptProbe <= 5, DeadlinesInv, ProbeOnTime, ProbeHonest, [Next]_vars
  PROVE  ProbeHonest'
<1>1. CASE UNCHANGED <<last, gone>> /\ (request'.ready = request.ready \/ last.name = "none")
  BY <1>1 DEF ProbeHonest
<1>2. CASE Disconnect
  BY <1>2 DEF Disconnect, ProbeHonest
<1>3. CASE Reply
  BY <1>3 DEF Reply, Ended, ProbeHonest
<1>4. CASE Cut
  <2>1. last' = [name |-> CallName, ended |-> "cut", took |-> clock - request.since, by |-> Due]
        /\ gone' = gone /\ InCall /\ Due # {}
    BY <1>4 DEF Cut, Ended
  <2> SUFFICES ASSUME CallName = "health", ~gone
               PROVE  clock - request.since + request.ready >= PromptProbe
    <3>1. request'.ready = request.ready
      <4>1. request \in Records /\ TypeOK /\ TimeKept /\ request' \in AfterCall(FALSE)
        BY <1>4 DEF Cut, DeadlinesInv, TypeOK, Records
      <4>2. \/ request' = [request EXCEPT !.pc = "call", !.call = request.call + 1, !.since = clock]
            \/ request' = [request EXCEPT !.pc = "done"]
            \/ request' = [request EXCEPT !.pc = "rollback", !.since = clock]
        BY <2>1, <4>1, AfterCallKept
      <4> QED BY <4>1, <4>2 DEF Records
    <3> QED BY <2>1, <3>1 DEF ProbeHonest
  <2>2. request.pc = "call" /\ request.op \in Probing
    BY <2>1, NameOfProbe
  <2>3. /\ clock \in Nat /\ request.own \in Nat /\ request.since \in Nat /\ request.ready \in Nat
        /\ request.own <= request.ready + Start(request.op) /\ request.op \in AllOperations
    BY <2>1, <2>2 DEF DeadlinesInv, TypeOK, TimeKept, InCall
  <2>4. request.since <= request.own + 15
    BY <2>2 DEF ProbeOnTime
  <2>5. Own(request.op) \in {15, 20, 30} /\ Client(request.op) = 15
        /\ (request.op # "nodeHealth" => Own(request.op) >= 20)
    BY <2>2 DEF Own, Client, LongOps, Probing
  <2>6. request.op = "nodeHealth" => request.since = request.own
    <3>1. request.op = "nodeHealth" => Len(Calls(request.op)) = 1
      BY DEF Calls
    <3>2. request.call \in 1 .. Len(Calls(request.op))
      BY <2>2 DEF DeadlinesInv, TimeKept
    <3>3. \A k \in 1 .. 1 : k = 1
      OBVIOUS
    <3>4. request.op = "nodeHealth" => request.call = 1
      BY <3>1, <3>2, <3>3, Zenon
    <3> QED BY <2>2, <3>4 DEF ProbeOnTime
  <2>7. \/ clock >= Group(request.op) \/ clock >= request.own + Own(request.op)
        \/ clock >= request.since + Client(request.op)
    BY <2>1, <2>2 DEF Due, Limits
  <2>8. Group(request.op) >= 30 /\ Group(request.op) \in Nat /\ Start(request.op) \in 0 .. 10
    BY <2>3, Budgets
  <2>9. clock + request.ready >= request.since + 5
    BY <2>3, <2>4, <2>5, <2>6, <2>7, <2>8
  <2> QED BY <2>3, <2>9, DeadlinesAssumption
<1>5. CASE Prepare
  <2>1. last.name = "none"
    BY <1>5 DEF Prepare, DeadlinesInv, TimeKept
  <2> QED BY <1>1, <1>5, <2>1 DEF Prepare
<1>6. ASSUME NEW op \in Operations, Arrive(op) PROVE ProbeHonest'
  <2>1. last.name = "none"
    BY <1>6 DEF Arrive, DeadlinesInv, TimeKept
  <2> QED BY <1>1, <1>6, <2>1 DEF Arrive
<1>7. CASE DialEnds
  <2>1. request'.ready = request.ready /\ UNCHANGED <<last, gone>>
    <3>1. request \in Records /\ request.op \in AllOperations /\ clock \in Nat
      BY <1>7 DEF DialEnds, DeadlinesInv, TypeOK, TimeKept, Records
    <3> QED BY <1>7, <3>1, FirstCallKept DEF DialEnds
  <2> QED BY <1>1, <2>1
<1> QED BY <1>1, <1>2, <1>3, <1>4, <1>5, <1>6, <1>7 DEF Next, vars, SwapEnds, Second

\* No node is written down as offline before its probe had five seconds, less those
\* the body took, unless the client left: a registration's 20 hold a push of 15 and
\* such a probe, and the group's 30 the dial before them as well.
THEOREM ProbesAreHonest == ASSUME PromptProbe <= 5 PROVE Spec => []ProbeHonest
<1>1. Init => ProbeOnTime /\ ProbeHonest
  BY DEF Init, NoRequest, NoCall, ProbeOnTime, ProbeHonest
<1>2. DeadlinesInv /\ ProbeOnTime /\ [Next]_vars => ProbeOnTime'
  BY ProbeStep
<1>3. DeadlinesInv /\ ProbeOnTime /\ ProbeHonest /\ [Next]_vars => ProbeHonest'
  BY ProbeCut
<1> QED BY <1>1, <1>2, <1>3, Kept, PTL DEF Spec
=============================================================================
