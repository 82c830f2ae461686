-------------------------- MODULE DispatcherProofs --------------------------
(***************************************************************************)
(* Theorems about Dispatcher, for any endpoints, subscriptions, queue,     *)
(* retry policy, faults and number of restarts.                            *)
(***************************************************************************)
EXTENDS Dispatcher, SequenceTheorems, FiniteSetTheorems, TLAPS

Workers == [pc : WorkerPCs, job : Nat, todo : SUBSET Endpoints, ep : SUBSET Endpoints,
            attempt : Nat, spent : Nat, status : {"none", "delivered", "failed"}]

Records == [endpoint : Endpoints, event : Events, status : {"delivered", "failed"},
            attempts : 1 .. MaxAttempts]

\* What the worker holds at each of its steps.
WorkerOK ==
  /\ ~At("idle") => worker.job \in Events
  /\ worker.pc \in {"deliver", "wait", "record"} => worker.attempt \in 1 .. MaxAttempts
  /\ At("wait") => worker.status = "failed" /\ worker.attempt < MaxAttempts
  /\ At("record") => worker.status # "none"

\* The channel holds events in the order of their emission, all of them later
\* than the one being delivered.
QueueOrdered ==
  /\ \A j, k \in 1 .. Len(queue) : j < k => queue[j] < queue[k]
  /\ ~At("idle") => \A k \in 1 .. Len(queue) : worker.job < queue[k]

\* What an endpoint has received is no later than what is being delivered, and
\* earlier than what waits.
ReceivedEarlier ==
  \A ep \in Endpoints : \A i \in 1 .. Len(received[ep]) :
    /\ ~At("idle") => received[ep][i].event <= worker.job
    /\ \A k \in 1 .. Len(queue) : received[ep][i].event < queue[k]

\* So is what it may yet receive of the attempts that timed out.
WireEarlier ==
  \A a \in wire :
    /\ ~At("idle") => a.event <= worker.job
    /\ \A k \in 1 .. Len(queue) : a.event < queue[k]

DispatcherInv ==
  TypeOK /\ WorkerOK /\ QueueOrdered /\ ReceivedEarlier /\ WireEarlier /\ Ordered

-----------------------------------------------------------------------------
LEMMA IdleWorkerTyped == IdleWorker \in Workers /\ IdleWorker.pc = "idle"
BY DEF IdleWorker, Workers, WorkerPCs

\* What was sent is of events, in terms of their numbers.
LEMMA SentTyped ==
  /\ Events \subseteq Nat
  /\ \A c \in Copies : c.event \in Events /\ c.event \in Nat
  /\ \A a \in Attempts : a.event \in Events /\ a.event \in Nat /\ a.endpoint \in Endpoints
  /\ \A e \in Events, late \in BOOLEAN : Copy(e, late) \in Copies
  /\ \A e, late : Copy(e, late).event = e /\ Copy(e, late).late = late
<1>1. Events \subseteq Nat
  BY DEF Events
<1>2. \A c \in Copies : c.event \in Events
  BY DEF Copies
<1>3. \A a \in Attempts : a.event \in Events /\ a.endpoint \in Endpoints
  BY DEF Attempts
<1>4. \A e \in Events, late \in BOOLEAN : Copy(e, late) \in Copies
  BY DEF Copies, Copy
<1>5. \A e, late : Copy(e, late).event = e /\ Copy(e, late).late = late
  BY DEF Copy
<1> QED BY <1>1, <1>2, <1>3, <1>4, <1>5

LEMMA InitKept == Init => DispatcherInv
<1> SUFFICES ASSUME Init
             PROVE  DispatcherInv
  OBVIOUS
<1>1. worker \in Workers /\ At("idle") /\ worker.pc = "idle"
  BY IdleWorkerTyped DEF Init, At
<1>2. queue \in Seq(Events) /\ Len(queue) = 0 /\ type \in Seq(Types)
  BY EmptySeq DEF Init
<1>3. received \in [Endpoints -> Seq(Copies)] /\ \A ep \in Endpoints : Len(received[ep]) = 0
  BY EmptySeq DEF Init
<1>4. TypeOK
  BY <1>1, <1>2, <1>3 DEF Init, TypeOK, Workers
<1>5. WorkerOK
  BY <1>1 DEF WorkerOK, At
<1>6. QueueOrdered
  BY <1>1, <1>2 DEF QueueOrdered
<1>7. ReceivedEarlier /\ WireEarlier /\ Ordered
  BY <1>3 DEF Init, ReceivedEarlier, WireEarlier, Ordered
<1> QED BY <1>4, <1>5, <1>6, <1>7 DEF DispatcherInv

\* A step of the worker that keeps its job, the channel and what was received
\* keeps the order.
LEMMA OrderKept ==
  ASSUME DispatcherInv, UNCHANGED <<queue, received, wire>>,
         ~At("idle"), worker'.job = worker.job \/ worker'.pc = "idle"
  PROVE  QueueOrdered' /\ ReceivedEarlier' /\ WireEarlier' /\ Ordered'
BY DEF DispatcherInv, QueueOrdered, ReceivedEarlier, WireEarlier, Ordered, At

LEMMA EmitKept == ASSUME DispatcherInv, NEW t \in Types, Emit(t) PROVE DispatcherInv'
<1>1. /\ type' = Append(type, t) /\ Enqueue(Len(type) + 1) /\ running' = TRUE
      /\ UNCHANGED <<registered, worker, received, wire, deliveries, offered, crashes>>
  BY DEF Emit, outside
<1>2. type \in Seq(Types) /\ queue \in Seq(Events) /\ Len(type) \in Nat
  BY LenProperties DEF DispatcherInv, TypeOK
<1>3. type' \in Seq(Types) /\ Len(type') = Len(type) + 1
  BY <1>1, <1>2, AppendProperties
<1>4. Events \subseteq Events' /\ Len(type) + 1 \in Events'
  BY <1>2, <1>3 DEF Events
<1>5. queue \in Seq(Events')
  BY <1>2, <1>4, SeqMonotonic
<1>6. \/ queue' = queue /\ dropped' = dropped \cup {Len(type) + 1}
      \/ queue' = Append(queue, Len(type) + 1) /\ dropped' = dropped
  BY <1>1 DEF Enqueue
<1>7. /\ queue' \in Seq(Events') /\ Len(queue) \in Nat
      /\ Len(queue') \in {Len(queue), Len(queue) + 1}
      /\ \A k \in 1 .. Len(queue) : queue'[k] = queue[k]
      /\ \A k \in 1 .. Len(queue') : k \notin 1 .. Len(queue) => queue'[k] = Len(type) + 1
  <2>1. CASE queue' = queue
    BY <1>5, <2>1, LenProperties
  <2>2. CASE queue' = Append(queue, Len(type) + 1)
    BY <1>4, <1>5, <2>2, AppendProperties, LenProperties
  <2> QED BY <1>6, <2>1, <2>2
<1>8. received' \in [Endpoints -> Seq(Copies')] /\ wire' \subseteq Attempts'
  <2>1. received \in [Endpoints -> Seq(Copies)] /\ wire \subseteq Attempts
    BY DEF DispatcherInv, TypeOK
  <2>2. Copies \subseteq Copies' /\ Attempts \subseteq Attempts'
    BY <1>4 DEF Copies, Attempts
  <2>3. \A ep \in Endpoints : received[ep] \in Seq(Copies')
    BY <2>1, <2>2, SeqMonotonic
  <2> QED BY <1>1, <2>1, <2>2, <2>3
<1>9. TypeOK'
  BY <1>1, <1>3, <1>4, <1>6, <1>7, <1>8 DEF DispatcherInv, TypeOK
<1>10. WorkerOK'
  BY <1>1, <1>4 DEF DispatcherInv, WorkerOK, At
<1>11. \A k \in 1 .. Len(queue) : queue[k] \in Nat /\ queue[k] < Len(type) + 1
  <2>1. \A k \in 1 .. Len(queue) : queue[k] \in Events
    BY <1>2, ElementOfSeq
  <2> QED BY <1>2, <2>1 DEF Events
<1>12. QueueOrdered'
  <2>1. ASSUME NEW j \in 1 .. Len(queue'), NEW k \in 1 .. Len(queue'), j < k
        PROVE  queue'[j] < queue'[k]
    <3>1. j \in 1 .. Len(queue)
      BY <1>7, <2>1
    <3>2. CASE k \in 1 .. Len(queue)
      BY <1>7, <2>1, <3>1, <3>2 DEF DispatcherInv, QueueOrdered
    <3>3. CASE k \notin 1 .. Len(queue)
      BY <1>7, <1>11, <3>1, <3>3
    <3> QED BY <3>2, <3>3
  <2>2. ASSUME ~At("idle"), NEW k \in 1 .. Len(queue')
        PROVE  worker.job < queue'[k]
    <3>1. worker.job < Len(type) + 1
      BY <1>2, <2>2 DEF DispatcherInv, WorkerOK, Events
    <3>2. CASE k \in 1 .. Len(queue)
      BY <1>7, <2>2, <3>2 DEF DispatcherInv, QueueOrdered
    <3>3. CASE k \notin 1 .. Len(queue)
      BY <1>7, <3>1, <3>3
    <3> QED BY <3>2, <3>3
  <2> QED BY <1>1, <2>1, <2>2 DEF QueueOrdered, At
<1>13. ReceivedEarlier'
  <2>1. ASSUME NEW ep \in Endpoints, NEW i \in 1 .. Len(received[ep]), NEW k \in 1 .. Len(queue')
        PROVE  received[ep][i].event < queue'[k]
    <3>1. received[ep][i].event \in Events
      <4>1. received[ep] \in Seq(Copies)
        BY DEF DispatcherInv, TypeOK
      <4>2. received[ep][i] \in Copies
        BY <4>1, ElementOfSeq
      <4> QED BY <4>2, SentTyped
    <3>2. CASE k \in 1 .. Len(queue)
      BY <1>7, <3>2 DEF DispatcherInv, ReceivedEarlier
    <3>3. CASE k \notin 1 .. Len(queue)
      BY <1>2, <1>7, <3>1, <3>3, SMTT(30) DEF Events
    <3> QED BY <3>2, <3>3
  <2> QED BY <1>1, <2>1 DEF DispatcherInv, ReceivedEarlier, At
<1>14. WireEarlier'
  <2>1. ASSUME NEW a \in wire, NEW k \in 1 .. Len(queue')
        PROVE  a.event < queue'[k]
    <3>1. a.event \in Events
      BY DEF DispatcherInv, TypeOK, Attempts
    <3>2. CASE k \in 1 .. Len(queue)
      BY <1>7, <3>2 DEF DispatcherInv, WireEarlier
    <3>3. CASE k \notin 1 .. Len(queue)
      BY <1>2, <1>7, <3>1, <3>3, SMTT(30) DEF Events
    <3> QED BY <3>2, <3>3
  <2> QED BY <1>1, <2>1 DEF DispatcherInv, WireEarlier, At
<1>15. Ordered'
  BY <1>1 DEF DispatcherInv, Ordered
<1> QED BY <1>9, <1>10, <1>12, <1>13, <1>14, <1>15 DEF DispatcherInv

LEMMA ReceiveKept == ASSUME DispatcherInv, Receive PROVE DispatcherInv'
<1>1. /\ At("idle") /\ queue # <<>> /\ queue' = Tail(queue)
      /\ worker' = [IdleWorker EXCEPT !.pc = "list", !.job = Head(queue)]
      /\ UNCHANGED <<registered, type, dropped, running, received, wire, deliveries, offered, crashes>>
  BY DEF Receive, outside
<1>2. /\ Head(queue) \in Events /\ Head(queue) = queue[1] /\ queue' \in Seq(Events)
      /\ Len(queue) \in Nat \ {0} /\ Len(queue') = Len(queue) - 1
      /\ \A k \in 1 .. Len(queue') : queue'[k] = queue[k + 1]
  BY <1>1, HeadTailProperties, EmptySeq DEF DispatcherInv, TypeOK
<1>3. Events' = Events /\ Events \subseteq Nat
  BY <1>1 DEF Events
<1>4. worker' = [pc |-> "list", job |-> Head(queue), todo |-> {}, ep |-> {}, attempt |-> 0,
                 spent |-> 0, status |-> "none"]
  BY <1>1 DEF IdleWorker
<1>5. worker' \in Workers /\ worker'.pc = "list" /\ worker'.job = queue[1]
  BY <1>2, <1>3, <1>4 DEF Workers, WorkerPCs
<1>6. TypeOK'
  BY <1>1, <1>2, <1>3, <1>5 DEF DispatcherInv, TypeOK, Workers, Copies, Attempts
<1>7. WorkerOK'
  BY <1>2, <1>3, <1>5 DEF WorkerOK, At
<1>8. \A j, k \in 1 .. Len(queue) : j < k => queue[j] < queue[k]
  BY DEF DispatcherInv, QueueOrdered
<1>9. \A k \in 1 .. Len(queue') : k + 1 \in 1 .. Len(queue) /\ 1 \in 1 .. Len(queue) /\ 1 < k + 1
  BY <1>2
<1>10. QueueOrdered'
  <2>1. \A j, k \in 1 .. Len(queue') : j < k => queue'[j] < queue'[k]
    BY <1>2, <1>8, <1>9
  <2>2. \A k \in 1 .. Len(queue') : worker'.job < queue'[k]
    BY <1>2, <1>5, <1>8, <1>9
  <2> QED BY <2>1, <2>2 DEF QueueOrdered
<1>11. ReceivedEarlier'
  <2>1. ASSUME NEW ep \in Endpoints, NEW i \in 1 .. Len(received[ep])
        PROVE  /\ received[ep][i].event <= queue[1]
               /\ \A k \in 1 .. Len(queue') : received[ep][i].event < queue'[k]
    <3>1. \A k \in 1 .. Len(queue) : received[ep][i].event < queue[k]
      BY DEF DispatcherInv, ReceivedEarlier
    <3>2. received[ep][i].event \in Nat /\ queue[1] \in Nat
      <4>1. received[ep] \in Seq(Copies)
        BY DEF DispatcherInv, TypeOK
      <4>2. received[ep][i] \in Copies
        BY <4>1, ElementOfSeq
      <4> QED BY <1>2, <1>3, <4>2, SentTyped
    <3> QED BY <1>2, <1>9, <3>1, <3>2, SMTT(30)
  <2> QED BY <1>1, <1>5, <2>1 DEF ReceivedEarlier
<1>12. WireEarlier'
  <2>1. ASSUME NEW a \in wire
        PROVE  /\ a.event <= queue[1]
               /\ \A k \in 1 .. Len(queue') : a.event < queue'[k]
    <3>1. \A k \in 1 .. Len(queue) : a.event < queue[k]
      BY DEF DispatcherInv, WireEarlier
    <3>2. a.event \in Nat /\ queue[1] \in Nat
      BY <1>2, <1>3 DEF DispatcherInv, TypeOK, Attempts
    <3> QED BY <1>2, <1>9, <3>1, <3>2, SMTT(30)
  <2> QED BY <1>1, <1>5, <2>1 DEF WireEarlier
<1>13. Ordered'
  BY <1>1 DEF DispatcherInv, Ordered
<1> QED BY <1>6, <1>7, <1>10, <1>11, <1>12, <1>13 DEF DispatcherInv

LEMMA ListEndpointsKept == ASSUME DispatcherInv, ListEndpoints PROVE DispatcherInv'
<1>1. /\ At("list") /\ UNCHANGED <<registered, queue, type, dropped, running, received, wire, deliveries, crashes>>
      /\ \/ /\ worker' = [worker EXCEPT !.pc = "next", !.todo = Subscribed]
            /\ offered' = offered \cup {<<worker.job, ep>> : ep \in Subscribed}
         \/ worker' = IdleWorker /\ offered' = offered
  BY DEF ListEndpoints, outside
<1>2. worker \in Workers /\ worker.job \in Events /\ ~At("idle") /\ Events' = Events
  BY <1>1 DEF DispatcherInv, TypeOK, WorkerOK, Workers, At, Events
<1>3. Subscribed \subseteq Endpoints
  BY DEF Subscribed, DispatcherInv, TypeOK
<1>4. /\ worker' \in Workers /\ worker'.pc \in {"next", "idle"}
      /\ worker'.job = worker.job \/ worker'.pc = "idle"
  BY <1>1, <1>2, <1>3, IdleWorkerTyped DEF Workers, WorkerPCs
<1>5. offered' \subseteq Events \X Endpoints
  BY <1>1, <1>2, <1>3 DEF DispatcherInv, TypeOK
<1>6. TypeOK'
  BY <1>1, <1>2, <1>4, <1>5 DEF DispatcherInv, TypeOK, Workers, Copies, Attempts
<1>7. WorkerOK'
  BY <1>2, <1>4 DEF WorkerOK, At
<1> QED BY <1>1, <1>2, <1>4, <1>6, <1>7, OrderKept DEF DispatcherInv

LEMMA NextEndpointKept == ASSUME DispatcherInv, NextEndpoint PROVE DispatcherInv'
<1>1. /\ At("next")
      /\ UNCHANGED <<registered, queue, type, dropped, running, received, wire, deliveries, offered, crashes>>
      /\ \/ worker' = IdleWorker
         \/ \E ep \in worker.todo :
              worker' = [worker EXCEPT !.pc = "deliver", !.todo = @ \ {ep}, !.ep = {ep},
                                       !.attempt = 1, !.spent = 0]
  BY DEF NextEndpoint, outside
<1>2. worker \in Workers /\ worker.job \in Events /\ ~At("idle") /\ Events' = Events
  BY <1>1 DEF DispatcherInv, TypeOK, WorkerOK, Workers, At, Events
<1>3. /\ worker' \in Workers /\ worker'.pc \in {"deliver", "idle"}
      /\ worker'.job = worker.job \/ worker'.pc = "idle"
      /\ worker'.pc = "deliver" => worker'.attempt = 1
  <2>1. CASE worker' = IdleWorker
    BY <2>1, IdleWorkerTyped
  <2>2. ASSUME NEW ep \in worker.todo,
               worker' = [worker EXCEPT !.pc = "deliver", !.todo = @ \ {ep}, !.ep = {ep},
                                        !.attempt = 1, !.spent = 0]
        PROVE  worker' \in Workers /\ worker'.pc = "deliver" /\ worker'.job = worker.job
               /\ worker'.attempt = 1
    BY <1>2, <2>2 DEF Workers, WorkerPCs
  <2> QED BY <1>1, <2>1, <2>2
<1>4. TypeOK'
  BY <1>1, <1>2, <1>3 DEF DispatcherInv, TypeOK, Workers, Copies, Attempts
<1>5. WorkerOK'
  BY <1>2, <1>3, SizesAssumption DEF WorkerOK, At
<1> QED BY <1>1, <1>2, <1>3, <1>4, <1>5, OrderKept DEF DispatcherInv

\* An endpoint that takes the event being delivered has it after all the others;
\* one that takes an event late is known to.
LEMMA TakenKept ==
  ASSUME DispatcherInv, NEW ep \in Endpoints, NEW copy \in Copies, queue' = queue,
         received' = [received EXCEPT ![ep] = Append(@, copy)], wire' \subseteq wire,
         worker'.job = worker.job, worker'.pc = "idle" <=> worker.pc = "idle",
         ~At("idle") => copy.event <= worker.job,
         \A k \in 1 .. Len(queue) : copy.event < queue[k],
         ~copy.late => ~At("idle") /\ copy.event = worker.job
  PROVE  /\ QueueOrdered' /\ ReceivedEarlier' /\ WireEarlier' /\ Ordered'
         /\ received' \in [Endpoints -> Seq(Copies)]
<1>1. received \in [Endpoints -> Seq(Copies)] /\ copy.event \in Nat
  BY SentTyped DEF DispatcherInv, TypeOK
<1>2. /\ received[ep] \in Seq(Copies) /\ Len(received[ep]) \in Nat
      /\ received'[ep] = Append(received[ep], copy)
      /\ \A e \in Endpoints : e # ep => received'[e] = received[e]
  BY <1>1, LenProperties
<1>3. /\ received'[ep] \in Seq(Copies) /\ Len(received'[ep]) = Len(received[ep]) + 1
      /\ \A i \in 1 .. Len(received[ep]) : received'[ep][i] = received[ep][i]
      /\ received'[ep][Len(received[ep]) + 1] = copy
  BY <1>2, AppendProperties
<1>4. \A i \in 1 .. Len(received'[ep]) :
        i \in 1 .. Len(received[ep]) \/ i = Len(received[ep]) + 1
  BY <1>2, <1>3
<1>5. QueueOrdered'
  BY DEF DispatcherInv, QueueOrdered, At
<1>6. \A i \in 1 .. Len(received[ep]) : ~copy.late => received[ep][i].event <= copy.event
  BY DEF DispatcherInv, ReceivedEarlier
<1>7. ReceivedEarlier'
  <2>1. ASSUME NEW e \in Endpoints, NEW i \in 1 .. Len(received'[e])
        PROVE  /\ ~At("idle") => received'[e][i].event <= worker.job
               /\ \A k \in 1 .. Len(queue) : received'[e][i].event < queue[k]
    <3>1. CASE e # ep
      BY <1>2, <3>1 DEF DispatcherInv, ReceivedEarlier
    <3>2. CASE e = ep /\ i \in 1 .. Len(received[ep])
      BY <1>3, <3>2 DEF DispatcherInv, ReceivedEarlier
    <3>3. CASE e = ep /\ i = Len(received[ep]) + 1
      BY <1>3, <3>3
    <3> QED BY <1>4, <3>1, <3>2, <3>3
  <2> QED BY <2>1 DEF ReceivedEarlier, At
<1>8. WireEarlier'
  BY DEF DispatcherInv, WireEarlier, At
<1>9. Ordered'
  <2>1. ASSUME NEW e \in Endpoints, NEW j \in 1 .. Len(received'[e]),
               NEW k \in 1 .. Len(received'[e]), j <= k, ~received'[e][k].late
        PROVE  received'[e][j].event <= received'[e][k].event
    <3>1. CASE e # ep
      BY <1>2, <2>1, <3>1 DEF DispatcherInv, Ordered
    <3>2. CASE e = ep /\ k \in 1 .. Len(received[ep])
      <4>1. j \in 1 .. Len(received[ep])
        BY <1>2, <1>3, <2>1, <3>2
      <4> QED BY <1>3, <2>1, <3>2, <4>1 DEF DispatcherInv, Ordered
    <3>3. CASE e = ep /\ k = Len(received[ep]) + 1
      <4>1. received'[e][k] = copy /\ ~copy.late
        BY <1>3, <2>1, <3>3
      <4>2. CASE j = k
        BY <1>1, <4>1, <4>2
      <4>3. CASE j # k
        BY <1>2, <1>3, <1>4, <1>6, <2>1, <3>3, <4>1, <4>3
      <4> QED BY <4>2, <4>3
    <3> QED BY <1>4, <3>1, <3>2, <3>3
  <2> QED BY <2>1 DEF Ordered
<1>10. received' \in [Endpoints -> Seq(Copies)]
  BY <1>1, <1>3
<1> QED BY <1>5, <1>7, <1>8, <1>9, <1>10

\* What an attempt comes to: the endpoint has the event at once, or may take it
\* later, or neither.
LEMMA AttemptEnds ==
  ASSUME DispatcherInv, Deliver
  PROVE  \E ep \in worker.ep :
           /\ \/ UNCHANGED outside
              \/ /\ received' = [received EXCEPT ![ep] = Append(@, Copy(worker.job, FALSE))]
                 /\ wire' = wire
              \/ received' = received /\ wire' = wire \cup {Attempt(ep)}
           /\ \/ /\ worker' = [worker EXCEPT !.pc = "record", !.status = "delivered"]
                 /\ received' = [received EXCEPT ![ep] = Append(@, Copy(worker.job, FALSE))]
              \/ \E spent \in {worker.spent, Until(Timeout)} : Fail(spent)
BY DEF Deliver, Taken, outside

LEMMA DeliverKept == ASSUME DispatcherInv, Deliver PROVE DispatcherInv'
<1>1. At("deliver") /\ UNCHANGED <<registered, queue, type, dropped, running, deliveries, offered, crashes>>
  BY DEF Deliver
<1>2. /\ worker \in Workers /\ worker.job \in Events /\ ~At("idle") /\ Events' = Events
      /\ worker.attempt \in 1 .. MaxAttempts /\ worker.ep \subseteq Endpoints
  BY <1>1 DEF DispatcherInv, TypeOK, WorkerOK, Workers, At, Events
<1>3. worker.spent \in Nat /\ Until(Timeout) \in Nat
  BY <1>2, SizesAssumption DEF Workers, Until
<1>4. PICK ep \in Endpoints :
        /\ \/ UNCHANGED outside
           \/ /\ received' = [received EXCEPT ![ep] = Append(@, Copy(worker.job, FALSE))]
              /\ wire' = wire
           \/ received' = received /\ wire' = wire \cup {Attempt(ep)}
        /\ \/ worker' = [worker EXCEPT !.pc = "record", !.status = "delivered"]
           \/ \E spent \in {worker.spent, Until(Timeout)} :
                worker' = [worker EXCEPT !.pc = IF LastAttempt THEN "record" ELSE "wait",
                                         !.status = "failed", !.spent = spent]
  BY <1>2, AttemptEnds DEF Fail
<1>5. /\ worker' \in Workers /\ worker'.pc \in {"record", "wait"} /\ worker'.job = worker.job
      /\ worker'.attempt = worker.attempt /\ worker'.status \in {"delivered", "failed"}
      /\ worker'.pc = "wait" => worker'.status = "failed" /\ worker.attempt < MaxAttempts
  <2>1. CASE worker' = [worker EXCEPT !.pc = "record", !.status = "delivered"]
    BY <1>2, <2>1 DEF Workers, WorkerPCs
  <2>2. ASSUME NEW spent \in {worker.spent, Until(Timeout)},
               worker' = [worker EXCEPT !.pc = IF LastAttempt THEN "record" ELSE "wait",
                                        !.status = "failed", !.spent = spent]
        PROVE  /\ worker' \in Workers /\ worker'.pc = (IF LastAttempt THEN "record" ELSE "wait")
               /\ worker'.job = worker.job
               /\ worker'.attempt = worker.attempt /\ worker'.status = "failed"
    BY <1>2, <1>3, <2>2 DEF Workers, WorkerPCs
  <2>3. ~LastAttempt => worker.attempt < MaxAttempts
    BY <1>2, SizesAssumption DEF LastAttempt
  <2> QED BY <1>4, <2>1, <2>2, <2>3
<1>6. WorkerOK'
  BY <1>2, <1>5 DEF WorkerOK, At
<1>7. /\ QueueOrdered' /\ ReceivedEarlier' /\ WireEarlier' /\ Ordered'
      /\ received' \in [Endpoints -> Seq(Copies)] /\ wire' \subseteq Attempts
  <2>1. CASE UNCHANGED outside
    BY <1>1, <1>2, <1>5, <2>1, OrderKept DEF DispatcherInv, TypeOK, outside
  <2>2. CASE /\ received' = [received EXCEPT ![ep] = Append(@, Copy(worker.job, FALSE))]
             /\ wire' = wire
    <3>1. /\ Copy(worker.job, FALSE) \in Copies /\ worker.job \in Nat
          /\ Copy(worker.job, FALSE).event = worker.job
      BY <1>2 DEF Copy, Copies, Events
    <3>2. \A k \in 1 .. Len(queue) : Copy(worker.job, FALSE).event < queue[k]
      BY <1>2, <3>1 DEF DispatcherInv, QueueOrdered
    <3>3. worker'.pc = "idle" <=> worker.pc = "idle"
      BY <1>1, <1>5 DEF At
    <3>4. wire' \subseteq Attempts
      BY <2>2 DEF DispatcherInv, TypeOK
    <3>5. worker.job <= worker.job
      BY <3>1
    <3> HIDE DEF Copy
    <3> QED BY <1>1, <1>2, <1>5, <2>2, <3>1, <3>2, <3>3, <3>4, <3>5, TakenKept
  <2>3. CASE received' = received /\ wire' = wire \cup {Attempt(ep)}
    <3>1. /\ Attempt(ep) \in Attempts /\ Attempt(ep).event = worker.job /\ worker.job \in Nat
      BY <1>2 DEF Attempt, Attempts, Events
    <3>2. wire' \subseteq Attempts
      BY <2>3, <3>1 DEF DispatcherInv, TypeOK
    <3>3. \A k \in 1 .. Len(queue) : worker.job < queue[k]
      BY <1>2 DEF DispatcherInv, QueueOrdered
    <3>4. worker'.pc # "idle" /\ worker'.job = worker.job /\ queue' = queue
      BY <1>1, <1>5
    <3>5. WireEarlier'
      <4>1. ASSUME NEW a \in wire'
            PROVE  a.event <= worker.job /\ \A k \in 1 .. Len(queue) : a.event < queue[k]
        <5>1. CASE a \in wire
          BY <1>2, <5>1 DEF DispatcherInv, WireEarlier
        <5>2. CASE a = Attempt(ep)
          BY <3>1, <3>3, <5>2
        <5> QED BY <2>3, <5>1, <5>2
      <4> QED BY <3>4, <4>1 DEF WireEarlier
    <3>6. QueueOrdered' /\ ReceivedEarlier' /\ Ordered'
      BY <1>2, <2>3, <3>4 DEF DispatcherInv, QueueOrdered, ReceivedEarlier, Ordered, At
    <3>7. received' \in [Endpoints -> Seq(Copies)]
      BY <2>3 DEF DispatcherInv, TypeOK
    <3> QED BY <3>2, <3>5, <3>6, <3>7
  <2> QED BY <1>4, <2>1, <2>2, <2>3
<1>8. Copies' = Copies /\ Attempts' = Attempts
  BY <1>2 DEF Copies, Attempts
<1>9. TypeOK'
  BY <1>1, <1>2, <1>5, <1>7, <1>8 DEF DispatcherInv, TypeOK, Workers
<1> QED BY <1>6, <1>7, <1>9 DEF DispatcherInv

\* What arrives late is of an attempt that timed out.
LEMMA LateArrivalKept == ASSUME DispatcherInv, LateArrival PROVE DispatcherInv'
<1>1. PICK a \in wire : /\ received' = [received EXCEPT ![a.endpoint] = Append(@, Copy(a.event, TRUE))]
                        /\ wire' = wire \ {a}
  BY DEF LateArrival, Taken
<1>2. UNCHANGED <<registered, queue, type, dropped, running, worker, deliveries, offered, crashes>>
  BY DEF LateArrival
<1>3. a.event \in Events /\ a.endpoint \in Endpoints /\ Events \subseteq Nat
  BY DEF DispatcherInv, TypeOK, Attempts, Events
<1>4. Copy(a.event, TRUE) \in Copies /\ Copy(a.event, TRUE).event = a.event /\ Copy(a.event, TRUE).late
  BY <1>3 DEF Copy, Copies
<1>5. /\ ~At("idle") => a.event <= worker.job
      /\ \A k \in 1 .. Len(queue) : a.event < queue[k]
  BY DEF DispatcherInv, WireEarlier
<1> HIDE DEF Copy
<1>6. /\ QueueOrdered' /\ ReceivedEarlier' /\ WireEarlier' /\ Ordered'
      /\ received' \in [Endpoints -> Seq(Copies)]
  BY <1>1, <1>2, <1>3, <1>4, <1>5, TakenKept
<1>7. Events' = Events /\ Copies' = Copies /\ Attempts' = Attempts
  BY <1>2 DEF Events, Copies, Attempts
<1>8. wire' \subseteq Attempts
  BY <1>1 DEF DispatcherInv, TypeOK
<1>9. TypeOK'
  BY <1>2, <1>6, <1>7, <1>8 DEF DispatcherInv, TypeOK
<1>10. WorkerOK'
  BY <1>2, <1>7 DEF DispatcherInv, WorkerOK, At
<1> QED BY <1>6, <1>9, <1>10 DEF DispatcherInv

\* A wait ends in another attempt or in giving up.
LEMMA BackoffEnds ==
  ASSUME DispatcherInv, Backoff
  PROVE  /\ At("wait")
         /\ \/ worker' = [worker EXCEPT !.pc = "record"]
            \/ worker' = [worker EXCEPT !.pc = "deliver", !.attempt = @ + 1,
                                        !.spent = @ + RetryBackoff]
<1>1. worker.spent \in Nat /\ RetryBackoff \in Nat /\ DeliveryBudget \in Nat
  BY SizesAssumption DEF DispatcherInv, TypeOK
<1>2. \/ worker.spent + RetryBackoff < DeliveryBudget
      \/ worker.spent + RetryBackoff = DeliveryBudget
      \/ worker.spent + RetryBackoff > DeliveryBudget
  BY <1>1
<1> QED BY <1>1, <1>2 DEF Backoff, AfterBackoff

LEMMA BackoffKept == ASSUME DispatcherInv, Backoff PROVE DispatcherInv'
<1>1. /\ At("wait") /\ worker' \in AfterBackoff
      /\ UNCHANGED <<registered, queue, type, dropped, running, received, wire, deliveries, offered, crashes>>
  BY DEF Backoff, outside
<1>2. /\ worker \in Workers /\ worker.job \in Events /\ ~At("idle") /\ Events' = Events
      /\ worker.attempt \in 1 .. MaxAttempts /\ worker.attempt < MaxAttempts
      /\ worker.status = "failed"
  BY <1>1 DEF DispatcherInv, TypeOK, WorkerOK, Workers, At, Events
<1>3. \/ worker' = [worker EXCEPT !.pc = "record"]
      \/ worker' = [worker EXCEPT !.pc = "deliver", !.attempt = @ + 1, !.spent = @ + RetryBackoff]
  BY BackoffEnds
<1>4. /\ worker' \in Workers /\ worker'.job = worker.job
      /\ \/ worker'.pc = "record" /\ worker'.attempt = worker.attempt /\ worker'.status = "failed"
         \/ worker'.pc = "deliver" /\ worker'.attempt = worker.attempt + 1
  <2>1. CASE worker' = [worker EXCEPT !.pc = "record"]
    BY <1>2, <2>1 DEF Workers, WorkerPCs
  <2>2. CASE worker' = [worker EXCEPT !.pc = "deliver", !.attempt = @ + 1,
                                      !.spent = @ + RetryBackoff]
    <3>1. worker.attempt + 1 \in Nat /\ worker.spent + RetryBackoff \in Nat
      BY <1>2, SizesAssumption DEF Workers
    <3>2. worker' = [pc |-> "deliver", job |-> worker.job, todo |-> worker.todo, ep |-> worker.ep,
                     attempt |-> worker.attempt + 1, spent |-> worker.spent + RetryBackoff,
                     status |-> worker.status]
      BY <1>2, <2>2 DEF Workers
    <3> QED BY <1>2, <3>1, <3>2 DEF Workers, WorkerPCs
  <2> QED BY <1>3, <2>1, <2>2
<1>5. TypeOK'
  BY <1>1, <1>2, <1>4 DEF DispatcherInv, TypeOK, Workers, Copies, Attempts
<1>6. WorkerOK'
  BY <1>2, <1>4, SizesAssumption DEF WorkerOK, At
<1> QED BY <1>1, <1>2, <1>4, <1>5, <1>6, OrderKept DEF DispatcherInv

LEMMA RecordKept == ASSUME DispatcherInv, Record PROVE DispatcherInv'
<1>1. /\ At("record") /\ UNCHANGED <<registered, queue, type, dropped, running, received, wire, crashes>>
      /\ worker' = [IdleWorker EXCEPT !.pc = "next", !.job = worker.job, !.todo = worker.todo]
      /\ deliveries' = deliveries \cup {Outcome(ep) : ep \in worker.ep} \/ deliveries' = deliveries
      /\ offered' \subseteq offered
  BY DEF Record, outside
<1>2. /\ worker \in Workers /\ worker.job \in Events /\ ~At("idle") /\ Events' = Events
      /\ worker.attempt \in 1 .. MaxAttempts /\ worker.ep \subseteq Endpoints
      /\ worker.status \in {"delivered", "failed"} /\ worker.job \in Nat
  BY <1>1 DEF DispatcherInv, TypeOK, WorkerOK, Workers, At, Events
<1>3. worker' = [pc |-> "next", job |-> worker.job, todo |-> worker.todo, ep |-> {}, attempt |-> 0,
                 spent |-> 0, status |-> "none"]
  BY <1>1 DEF IdleWorker
<1>4. worker' \in Workers /\ worker'.pc = "next" /\ worker'.job = worker.job
  BY <1>2, <1>3 DEF Workers, WorkerPCs
<1>5. \A ep \in worker.ep : Outcome(ep) \in Records
  BY <1>2 DEF Outcome, Records
<1>6. deliveries' \subseteq Records
  BY <1>1, <1>5 DEF DispatcherInv, TypeOK, Records
<1>7. TypeOK'
  BY <1>1, <1>2, <1>4, <1>6 DEF DispatcherInv, TypeOK, Workers, Records, Copies, Attempts
<1>8. WorkerOK'
  BY <1>2, <1>4 DEF WorkerOK, At
<1> QED BY <1>1, <1>2, <1>4, <1>7, <1>8, OrderKept DEF DispatcherInv

LEMMA CrashKept == ASSUME DispatcherInv, Crash PROVE DispatcherInv'
<1>1. /\ queue' = <<>> /\ worker' = IdleWorker /\ running' = FALSE /\ offered' \subseteq offered
      /\ crashes' = crashes + 1 /\ UNCHANGED <<registered, type, dropped, received, wire, deliveries>>
  BY DEF Crash, outside
<1>2. Events' = Events /\ queue' \in Seq(Events) /\ Len(queue') = 0
  BY <1>1, EmptySeq DEF Events
<1>3. worker' \in Workers /\ At("idle")'
  BY <1>1, IdleWorkerTyped DEF At
<1>4. /\ offered' \subseteq Events \X Endpoints /\ crashes' \in Nat /\ running' \in BOOLEAN
      /\ UNCHANGED <<registered, type, dropped, received, wire, deliveries>>
  <2>1. offered \subseteq Events \X Endpoints /\ crashes \in Nat
    BY DEF DispatcherInv, TypeOK
  <2>2. offered' \subseteq Events \X Endpoints
    BY <1>1, <2>1, Zenon
  <2>3. crashes' \in Nat
    BY <1>1, <2>1
  <2> QED BY <1>1, <2>2, <2>3, Zenon
<1>5. TypeOK'
  <2>1. queue' \in Seq(Events')
    BY <1>2
  <2>2. received' \in [Endpoints -> Seq(Copies')] /\ wire' \subseteq Attempts' /\ offered' \subseteq Events' \X Endpoints
        /\ dropped' \subseteq Events' /\ registered' \subseteq Endpoints /\ type' \in Seq(Types)
    BY <1>2, <1>4 DEF DispatcherInv, TypeOK, Copies, Attempts
  <2>3. (deliveries \subseteq Records)'
    BY <1>2, <1>4 DEF DispatcherInv, TypeOK, Records
  <2> QED BY <1>3, <1>4, <2>1, <2>2, <2>3 DEF TypeOK, Workers, Records
<1>6. WorkerOK'
  BY <1>3 DEF WorkerOK, At
<1>7. QueueOrdered' /\ ReceivedEarlier' /\ WireEarlier' /\ Ordered'
  BY <1>1, <1>2, <1>3 DEF DispatcherInv, QueueOrdered, ReceivedEarlier, WireEarlier, Ordered
<1> QED BY <1>5, <1>6, <1>7 DEF DispatcherInv

LEMMA NextKept == ASSUME DispatcherInv, [Next]_vars PROVE DispatcherInv'
<1>1. CASE UNCHANGED <<queue, type, dropped, running, worker, received, wire, deliveries, offered, crashes>>
           /\ registered' \subseteq Endpoints
  BY <1>1 DEF DispatcherInv, TypeOK, WorkerOK, QueueOrdered, ReceivedEarlier, WireEarlier, Ordered, At, Events,
               Copies, Attempts
<1>2. CASE UNCHANGED vars
  BY <1>1, <1>2 DEF vars, outside, DispatcherInv, TypeOK
<1>3. ASSUME NEW ep \in Endpoints, CreateWebhook(ep)
      PROVE  DispatcherInv'
  BY <1>1, <1>3 DEF CreateWebhook, outside, DispatcherInv, TypeOK
<1>4. CASE Work
  BY <1>4, ReceiveKept, ListEndpointsKept, NextEndpointKept, DeliverKept, BackoffKept, RecordKept
     DEF Work
<1> QED BY <1>2, <1>3, <1>4, EmitKept, LateArrivalKept, CrashKept DEF Next

\* Every variable keeps its type, and the worker's state what its step needs.
THEOREM Kept == Spec => []DispatcherInv
BY InitKept, NextKept, PTL DEF Spec

\* No endpoint receives an event after a later one but by an attempt it had not
\* answered in time, however deep the channel, whatever the retry policy, however
\* many attempts are late and wherever statements fail and restarts come.
THEOREM DeliveredInOrder == Spec => []Ordered
<1>1. DispatcherInv => Ordered
  BY DEF DispatcherInv
<1> QED BY <1>1, Kept, PTL
-----------------------------------------------------------------------------
(* The delivery log. *)

\* The endpoints that a job the worker has begun still owes an outcome.
Owing == IF worker.pc \in {"idle", "list"} THEN {} ELSE worker.todo \cup worker.ep

\* One endpoint at a time, taken out of those left to do.
EndpointOK ==
  /\ worker.pc \in {"list", "next"} => worker.ep = {}
  /\ worker.pc \in {"deliver", "wait", "record"} => \E ep \in Endpoints \ worker.todo : worker.ep = {ep}

\* An endpoint has one outcome of an event, and no outcome of one that waits or of
\* the one it is still owed.
RecordsUnique ==
  /\ \A c, d \in deliveries : c.event = d.event /\ c.endpoint = d.endpoint => c = d
  /\ \A d \in deliveries :
       /\ \A k \in 1 .. Len(queue) : d.event < queue[k]
       /\ ~At("idle") => d.event <= worker.job
       /\ At("list") => d.event < worker.job
       /\ d.event = worker.job => d.endpoint \notin Owing

\* What was offered is recorded, or still owed.
OfferedOK ==
  \A o \in offered :
    \/ \E d \in deliveries : d.event = o[1] /\ d.endpoint = o[2]
    \/ o[1] = worker.job /\ o[2] \in Owing

LogInv == EndpointOK /\ RecordsUnique /\ OfferedOK

\* Where in what an endpoint received an event is, and how often.
Positions(s, e) == {k \in 1 .. Len(s) : s[k].event = e}

CopiesOf(ep, e) == Cardinality(Positions(received[ep], e))

\* The attempts at an event that an endpoint may yet take.
LateOf(ep, e) == {a \in wire : a.endpoint = ep /\ a.event = e}

Tries(ep, e) == CopiesOf(ep, e) + Cardinality(LateOf(ep, e))

\* The attempts count what an endpoint has received and may yet, and a delivery was
\* seen; to an endpoint whose turn has not come nothing of the job was sent.
AttemptsCounted ==
  /\ \A ep \in worker.ep :
       /\ At("deliver") => Tries(ep, worker.job) < worker.attempt
       /\ worker.pc \in {"wait", "record"} => Tries(ep, worker.job) <= worker.attempt
       /\ At("record") /\ worker.status = "delivered" => CopiesOf(ep, worker.job) >= 1
  /\ \A ep \in Endpoints : At("list") \/ ep \in worker.todo =>
       /\ \A i \in 1 .. Len(received[ep]) : received[ep][i].event < worker.job
       /\ \A a \in wire : a.endpoint = ep => a.event < worker.job
  /\ worker.pc \in {"idle", "list"} => worker.todo = {}

\* The time spent is that of the attempts and the waits between them, so that a
\* sequence ends early only by a delivery.
TimeSpent ==
  /\ At("deliver") => worker.spent <= (worker.attempt - 1) * (Timeout + RetryBackoff)
  /\ At("wait") => worker.spent + RetryBackoff <= worker.attempt * (Timeout + RetryBackoff)
  /\ At("record") /\ worker.status = "failed" => worker.attempt = MaxAttempts

\* The last retry begins within the budget, however slow the attempts before it.
PolicyFits == (MaxAttempts - 1) * (Timeout + RetryBackoff) < DeliveryBudget

\* What the log says, of what was received and what may yet be.
RowIsTrue(d) ==
  /\ d.status = "delivered" => CopiesOf(d.endpoint, d.event) >= 1
  /\ d.status = "failed" => d.attempts = MaxAttempts
  /\ Tries(d.endpoint, d.event) <= d.attempts

RowsAreTrue == \A d \in deliveries : RowIsTrue(d)

CountInv == IsFiniteSet(wire) /\ AttemptsCounted /\ TimeSpent /\ RowsAreTrue

-----------------------------------------------------------------------------
(* One outcome for each endpoint. *)

\* The types that the log's proofs use.
LEMMA LogTyped ==
  ASSUME DispatcherInv
  PROVE  /\ worker \in Workers /\ (~At("idle") => worker.job \in Events) /\ Events \subseteq Nat
         /\ \A d \in deliveries : d \in Records /\ d.event \in Events /\ d.endpoint \in Endpoints
         /\ queue \in Seq(Events) /\ Len(queue) \in Nat
         /\ \A k \in 1 .. Len(queue) : queue[k] \in Events
<1>1. deliveries \subseteq Records /\ worker \in Workers /\ queue \in Seq(Events) /\ Events \subseteq Nat
  BY DEF DispatcherInv, TypeOK, Records, Workers, Events
<1>2. \A d \in deliveries : d \in Records /\ d.event \in Events /\ d.endpoint \in Endpoints
  BY <1>1 DEF Records
<1>3. Len(queue) \in Nat /\ \A k \in 1 .. Len(queue) : queue[k] \in Events
  BY <1>1, ElementOfSeq, LenProperties
<1> QED BY <1>1, <1>2, <1>3 DEF DispatcherInv, WorkerOK

LEMMA LogEmit == ASSUME DispatcherInv, LogInv, NEW t \in Types, Emit(t) PROVE LogInv'
<1>1. /\ UNCHANGED <<worker, deliveries, offered>> /\ Enqueue(Len(type) + 1)
  BY DEF Emit
<1>2. type \in Seq(Types) /\ Len(type) \in Nat
  BY LenProperties DEF DispatcherInv, TypeOK
<1>3. /\ Len(queue') \in {Len(queue), Len(queue) + 1}
      /\ \A k \in 1 .. Len(queue) : queue'[k] = queue[k]
      /\ \A k \in 1 .. Len(queue') : k \notin 1 .. Len(queue) => queue'[k] = Len(type) + 1
  <2>1. queue \in Seq(Nat) /\ Len(type) + 1 \in Nat /\ Len(queue) \in Nat
    BY <1>2, LogTyped, SeqMonotonic
  <2> QED BY <1>1, <2>1, AppendProperties DEF Enqueue
<1>4. ASSUME NEW d \in deliveries, NEW k \in 1 .. Len(queue') PROVE d.event < queue'[k]
  <2>1. d.event < Len(type) + 1
    BY <1>2, LogTyped DEF Events
  <2> QED BY <1>3, <2>1 DEF LogInv, RecordsUnique
<1>5. RecordsUnique'
  BY <1>1, <1>4 DEF LogInv, RecordsUnique, At, Owing
<1> QED BY <1>1, <1>5 DEF LogInv, EndpointOK, OfferedOK, Owing

LEMMA LogReceive == ASSUME DispatcherInv, LogInv, Receive PROVE LogInv'
<1>1. /\ At("idle") /\ queue # <<>> /\ queue' = Tail(queue) /\ UNCHANGED <<deliveries, offered>>
      /\ worker' = [IdleWorker EXCEPT !.pc = "list", !.job = Head(queue)]
  BY DEF Receive
<1>2. /\ Head(queue) = queue[1] /\ Len(queue) \in Nat \ {0} /\ Len(queue') = Len(queue) - 1
      /\ \A k \in 1 .. Len(queue') : queue'[k] = queue[k + 1]
  BY <1>1, HeadTailProperties, EmptySeq, LogTyped
<1>3. worker'.pc = "list" /\ worker'.job = queue[1] /\ worker'.ep = {}
  BY <1>1, <1>2 DEF IdleWorker
<1>4. ASSUME NEW d \in deliveries
      PROVE  d.event < worker'.job /\ \A k \in 1 .. Len(queue') : d.event < queue'[k]
  <2>1. \A k \in 1 .. Len(queue) : d.event < queue[k]
    BY DEF LogInv, RecordsUnique
  <2>2. 1 \in 1 .. Len(queue) /\ \A k \in 1 .. Len(queue') : k + 1 \in 1 .. Len(queue)
    BY <1>2
  <2> QED BY <1>2, <1>3, <2>1, <2>2
<1>5. \A d \in deliveries : d.event <= worker'.job
  <2>1. worker'.job \in Nat /\ \A d \in deliveries : d.event \in Nat
    BY <1>2, <1>3, LogTyped
  <2> QED BY <1>4, <2>1
<1>6. RecordsUnique'
  BY <1>1, <1>3, <1>4, <1>5 DEF LogInv, RecordsUnique, At, Owing
<1>7. EndpointOK' /\ OfferedOK'
  BY <1>1, <1>3 DEF LogInv, EndpointOK, OfferedOK, Owing, At
<1> QED BY <1>6, <1>7 DEF LogInv

LEMMA LogListEndpoints == ASSUME DispatcherInv, LogInv, ListEndpoints PROVE LogInv'
<1>1. /\ At("list") /\ UNCHANGED <<queue, deliveries>>
      /\ \/ /\ worker' = [worker EXCEPT !.pc = "next", !.todo = Subscribed]
            /\ offered' = offered \cup {<<worker.job, ep>> : ep \in Subscribed}
         \/ worker' = IdleWorker /\ offered' = offered
  BY DEF ListEndpoints
<1>2. worker \in Workers /\ worker.ep = {} /\ Owing = {}
  BY <1>1, LogTyped DEF LogInv, EndpointOK, At, Owing
<1>3. CASE worker' = IdleWorker /\ offered' = offered
  <2>1. worker'.pc = "idle" /\ worker'.ep = {}
    BY <1>3 DEF IdleWorker
  <2> QED BY <1>1, <1>2, <1>3, <2>1 DEF LogInv, EndpointOK, RecordsUnique, OfferedOK, Owing, At
<1>4. CASE /\ worker' = [worker EXCEPT !.pc = "next", !.todo = Subscribed]
           /\ offered' = offered \cup {<<worker.job, ep>> : ep \in Subscribed}
  <2>1. /\ worker'.pc = "next" /\ worker'.ep = {} /\ worker'.job = worker.job
        /\ worker'.todo = Subscribed /\ Owing' = Subscribed
    BY <1>2, <1>4 DEF Workers, Owing
  <2>2. \A d \in deliveries : d.event # worker.job /\ d.event <= worker.job
    <3>1. worker.job \in Nat /\ \A d \in deliveries : d.event \in Nat /\ d.event < worker.job
      BY <1>1, LogTyped DEF LogInv, RecordsUnique, At
    <3> QED BY <3>1
  <2>3. RecordsUnique'
    BY <1>1, <2>1, <2>2 DEF LogInv, RecordsUnique, At
  <2>4. OfferedOK'
    BY <1>1, <1>2, <1>4, <2>1 DEF LogInv, OfferedOK
  <2> QED BY <2>1, <2>3, <2>4 DEF LogInv, EndpointOK
<1> QED BY <1>1, <1>3, <1>4

\* Steps that leave the log and what is owed of a job as they are.
LEMMA LogSame ==
  ASSUME DispatcherInv, LogInv, UNCHANGED <<queue, deliveries, offered>>, worker.pc \notin {"idle", "list"},
         \/ worker'.pc \notin {"idle", "list"} /\ worker'.job = worker.job /\ Owing' = Owing
         \/ worker' = IdleWorker /\ Owing = {}
  PROVE  RecordsUnique' /\ OfferedOK'
<1>1. CASE worker'.pc \notin {"idle", "list"} /\ worker'.job = worker.job /\ Owing' = Owing
  BY <1>1 DEF LogInv, RecordsUnique, OfferedOK, At
<1>2. CASE worker' = IdleWorker /\ Owing = {}
  BY <1>2, IdleWorkerTyped DEF LogInv, RecordsUnique, OfferedOK, At, Owing
<1> QED BY <1>1, <1>2

LEMMA LogNextEndpoint == ASSUME DispatcherInv, LogInv, NextEndpoint PROVE LogInv'
<1>1. /\ At("next") /\ UNCHANGED <<queue, deliveries, offered>> /\ worker.ep = {} /\ worker \in Workers
  BY LogTyped DEF NextEndpoint, LogInv, EndpointOK, At
<1>2. CASE worker.todo = {} /\ worker' = IdleWorker
  <2>1. Owing = {}
    BY <1>1, <1>2 DEF Owing
  <2> QED BY <1>1, <1>2, <2>1, LogSame DEF LogInv, EndpointOK, IdleWorker, At
<1>3. ASSUME NEW ep \in worker.todo,
             worker' = [worker EXCEPT !.pc = "deliver", !.todo = @ \ {ep}, !.ep = {ep},
                                      !.attempt = 1, !.spent = 0]
      PROVE  LogInv'
  <2>1. /\ worker'.pc = "deliver" /\ worker'.todo = worker.todo \ {ep} /\ worker'.ep = {ep}
        /\ worker'.job = worker.job
    BY <1>1, <1>3 DEF Workers
  <2>2. Owing' = Owing
    BY <1>1, <2>1 DEF Owing, At
  <2>3. EndpointOK'
    BY <1>1, <2>1 DEF EndpointOK, Workers
  <2> QED BY <1>1, <2>1, <2>2, <2>3, LogSame DEF LogInv, At
<1> QED BY <1>2, <1>3 DEF NextEndpoint

\* An attempt and a wait are the same endpoint's.
LEMMA LogAttempt == ASSUME DispatcherInv, LogInv, Deliver \/ Backoff PROVE LogInv'
<1>1. /\ worker.pc \in {"deliver", "wait"} /\ UNCHANGED <<queue, deliveries, offered>> /\ worker \in Workers
  BY LogTyped DEF Deliver, Backoff, At
<1>2. /\ worker'.pc \in {"deliver", "wait", "record"} /\ worker'.job = worker.job
      /\ worker'.todo = worker.todo /\ worker'.ep = worker.ep
  <2>1. CASE Deliver
    BY <1>1, <2>1, AttemptEnds DEF Fail, Workers
  <2>2. CASE Backoff
    BY <1>1, <2>2, BackoffEnds DEF Workers
  <2> QED BY <2>1, <2>2
<1>3. Owing' = Owing
  BY <1>1, <1>2 DEF Owing
<1>4. EndpointOK'
  BY <1>1, <1>2 DEF LogInv, EndpointOK
<1> QED BY <1>1, <1>2, <1>3, <1>4, LogSame DEF LogInv

LEMMA LogRecord == ASSUME DispatcherInv, LogInv, Record PROVE LogInv'
<1>1. /\ At("record") /\ UNCHANGED queue /\ worker \in Workers
      /\ worker' = [IdleWorker EXCEPT !.pc = "next", !.job = worker.job, !.todo = worker.todo]
      /\ \/ deliveries' = deliveries \cup {Outcome(ep) : ep \in worker.ep} /\ UNCHANGED offered
         \/ /\ offered' = offered \ {<<worker.job, ep>> : ep \in worker.ep}
            /\ UNCHANGED deliveries
  BY LogTyped DEF Record
<1>2. PICK ep \in Endpoints \ worker.todo : worker.ep = {ep}
  BY <1>1 DEF LogInv, EndpointOK, At
<1>3. /\ worker'.pc = "next" /\ worker'.job = worker.job /\ worker'.todo = worker.todo /\ worker'.ep = {}
      /\ Owing' = worker.todo /\ Owing = worker.todo \cup {ep}
  BY <1>1, <1>2 DEF IdleWorker, Owing, At
<1>4. EndpointOK'
  BY <1>3 DEF EndpointOK
<1>5. CASE deliveries' = deliveries \cup {Outcome(e) : e \in worker.ep} /\ UNCHANGED offered
  <2>1. /\ deliveries' = deliveries \cup {Outcome(ep)}
        /\ Outcome(ep).event = worker.job /\ Outcome(ep).endpoint = ep
    BY <1>2, <1>5 DEF Outcome
  <2>2. \A d \in deliveries : ~(d.event = worker.job /\ d.endpoint = ep)
    BY <1>3 DEF LogInv, RecordsUnique
  <2>3. worker.job \in Nat /\ \A k \in 1 .. Len(queue) : worker.job < queue[k]
    BY <1>1, LogTyped DEF DispatcherInv, QueueOrdered, At
  <2>4. \A c, d \in deliveries' : c.event = d.event /\ c.endpoint = d.endpoint => c = d
    BY <2>1, <2>2 DEF LogInv, RecordsUnique
  <2>5. ASSUME NEW d \in deliveries'
        PROVE  /\ \A k \in 1 .. Len(queue) : d.event < queue[k]
               /\ d.event <= worker.job
               /\ d.event = worker.job => d.endpoint \notin worker.todo
    <3>1. CASE d \in deliveries
      BY <1>1, <1>3, <3>1 DEF LogInv, RecordsUnique, At
    <3>2. CASE d = Outcome(ep)
      BY <1>2, <2>1, <2>3, <3>2
    <3> QED BY <2>1, <3>1, <3>2
  <2>6. RecordsUnique'
    BY <1>1, <1>3, <2>4, <2>5 DEF RecordsUnique, At
  <2>7. OfferedOK'
    <3>1. ASSUME NEW o \in offered
          PROVE  \/ \E d \in deliveries' : d.event = o[1] /\ d.endpoint = o[2]
                 \/ o[1] = worker.job /\ o[2] \in worker.todo
      <4>1. CASE \E d \in deliveries : d.event = o[1] /\ d.endpoint = o[2]
        BY <2>1, <4>1
      <4>2. CASE o[1] = worker.job /\ o[2] \in Owing
        BY <1>3, <2>1, <4>2
      <4> QED BY <4>1, <4>2 DEF LogInv, OfferedOK
    <3> QED BY <1>3, <1>5, <3>1 DEF OfferedOK
  <2> QED BY <1>4, <2>6, <2>7 DEF LogInv
<1>6. CASE offered' = offered \ {<<worker.job, e>> : e \in worker.ep} /\ UNCHANGED deliveries
  <2>1. RecordsUnique'
    BY <1>1, <1>3, <1>6 DEF LogInv, RecordsUnique, At
  <2>2. OfferedOK'
    <3>1. ASSUME NEW o \in offered'
          PROVE  \/ \E d \in deliveries : d.event = o[1] /\ d.endpoint = o[2]
                 \/ o[1] = worker.job /\ o[2] \in worker.todo
      <4>1. o \in offered /\ o # <<worker.job, ep>>
        BY <1>2, <1>6, <3>1
      <4>2. o = <<o[1], o[2]>>
        BY <4>1 DEF DispatcherInv, TypeOK
      <4> QED BY <1>3, <4>1, <4>2 DEF LogInv, OfferedOK
    <3> QED BY <1>3, <1>6, <3>1 DEF OfferedOK
  <2> QED BY <1>4, <2>1, <2>2 DEF LogInv
<1> QED BY <1>1, <1>5, <1>6

LEMMA LogCrash == ASSUME DispatcherInv, LogInv, Crash PROVE LogInv'
<1>1. /\ queue' = <<>> /\ worker' = IdleWorker /\ UNCHANGED deliveries /\ Len(queue') = 0
      /\ \A o \in offered' : \E d \in deliveries : d.event = o[1] /\ d.endpoint = o[2]
  BY EmptySeq DEF Crash
<1>2. worker'.pc = "idle"
  BY <1>1 DEF IdleWorker
<1> QED BY <1>1, <1>2 DEF LogInv, EndpointOK, RecordsUnique, OfferedOK, Owing, At

LEMMA LogKept == ASSUME DispatcherInv, LogInv, [Next]_vars PROVE LogInv'
<1>1. CASE UNCHANGED <<queue, worker, deliveries, offered>>
  BY <1>1 DEF LogInv, EndpointOK, RecordsUnique, OfferedOK, Owing, At
<1>2. CASE (\E ep \in Endpoints : CreateWebhook(ep)) \/ UNCHANGED vars
  BY <1>1, <1>2 DEF CreateWebhook, vars
<1>3. CASE Work
  BY <1>3, LogReceive, LogListEndpoints, LogNextEndpoint, LogAttempt, LogRecord DEF Work
<1>4. CASE LateArrival
  BY <1>1, <1>4 DEF LateArrival
<1> QED BY <1>2, <1>3, <1>4, LogEmit, LogCrash DEF Next

LEMMA LogAlways == Spec => []LogInv
<1>1. Init => LogInv
  BY IdleWorkerTyped DEF Init, LogInv, EndpointOK, RecordsUnique, OfferedOK, At, IdleWorker
<1> QED BY <1>1, LogKept, Kept, PTL DEF Spec

\* Whenever the worker is idle each endpoint that an event was taken for has one row
\* of it in the delivery log: no retry, no other endpoint's failure and no restart
\* makes it two, or none where no statement failed.
THEOREM OneRowEach == Spec => []EachRecordedOnce
<1>1. ASSUME LogInv, At("idle"), NEW o \in offered
      PROVE  Cardinality({d \in deliveries : d.event = o[1] /\ d.endpoint = o[2]}) = 1
  <2>1. PICK d \in deliveries : d.event = o[1] /\ d.endpoint = o[2]
    BY <1>1 DEF LogInv, OfferedOK, Owing, At
  <2>2. {c \in deliveries : c.event = o[1] /\ c.endpoint = o[2]} = {d}
    BY <1>1, <2>1 DEF LogInv, RecordsUnique
  <2> QED BY <2>2, FS_Singleton
<1>2. LogInv => EachRecordedOnce
  BY <1>1 DEF EachRecordedOnce
<1> QED BY <1>2, LogAlways, PTL

-----------------------------------------------------------------------------
(* What the log says of a delivery. *)

LEMMA PositionsFinite ==
  ASSUME NEW s \in Seq(Copies), NEW e \in Nat
  PROVE  IsFiniteSet(Positions(s, e)) /\ Cardinality(Positions(s, e)) \in Nat
<1>1. IsFiniteSet(1 .. Len(s))
  BY LenProperties, FS_Interval
<1>2. Positions(s, e) \subseteq 1 .. Len(s)
  BY DEF Positions
<1> QED BY <1>1, <1>2, FS_Subset, FS_CardinalityType

\* What an endpoint receives counts once.
LEMMA CopyCounted ==
  ASSUME NEW s \in Seq(Copies), NEW x \in Copies, NEW e \in Nat
  PROVE  Cardinality(Positions(Append(s, x), e)) =
           IF x.event = e THEN Cardinality(Positions(s, e)) + 1 ELSE Cardinality(Positions(s, e))
<1>1. /\ Len(s) \in Nat /\ Len(Append(s, x)) = Len(s) + 1
      /\ \A k \in 1 .. Len(s) : Append(s, x)[k] = s[k]
      /\ Append(s, x)[Len(s) + 1] = x
  BY AppendProperties, LenProperties
<1>2. CASE x.event = e
  <2>1. Positions(Append(s, x), e) = Positions(s, e) \cup {Len(s) + 1}
    BY <1>1, <1>2 DEF Positions
  <2>2. Len(s) + 1 \notin Positions(s, e)
    BY <1>1 DEF Positions
  <2>3. IsFiniteSet(Positions(s, e))
    BY PositionsFinite
  <2>4. Cardinality(Positions(s, e) \cup {Len(s) + 1}) = Cardinality(Positions(s, e)) + 1
    BY <2>2, <2>3, FS_AddElement
  <2> QED BY <1>2, <2>1, <2>4
<1>3. CASE x.event # e
  <2>1. Positions(Append(s, x), e) = Positions(s, e)
    BY <1>1, <1>3 DEF Positions
  <2> QED BY <1>3, <2>1
<1> QED BY <1>2, <1>3

LEMMA ReceivedTyped ==
  ASSUME DispatcherInv, NEW ep \in Endpoints
  PROVE  /\ received[ep] \in Seq(Copies)
         /\ \A i \in 1 .. Len(received[ep]) : received[ep][i].event \in Nat
<1>1. received[ep] \in Seq(Copies)
  BY DEF DispatcherInv, TypeOK
<1>2. \A i \in 1 .. Len(received[ep]) : received[ep][i] \in Copies
  BY <1>1, ElementOfSeq
<1> QED BY <1>1, <1>2, SentTyped

\* Counts are numbers, and zero of what was not sent.
LEMMA CountsTyped ==
  ASSUME DispatcherInv, IsFiniteSet(wire), NEW ep \in Endpoints, NEW e \in Nat
  PROVE  /\ CopiesOf(ep, e) \in Nat /\ IsFiniteSet(LateOf(ep, e))
         /\ Cardinality(LateOf(ep, e)) \in Nat /\ Tries(ep, e) \in Nat
         /\ CopiesOf(ep, e) <= Tries(ep, e)
<1>1. CopiesOf(ep, e) \in Nat
  BY ReceivedTyped, PositionsFinite DEF CopiesOf
<1>2. IsFiniteSet(LateOf(ep, e))
  BY FS_Subset DEF LateOf
<1>3. Cardinality(LateOf(ep, e)) \in Nat
  BY <1>2, FS_CardinalityType
<1> QED BY <1>1, <1>2, <1>3 DEF Tries

LEMMA NothingSent ==
  ASSUME DispatcherInv, NEW ep \in Endpoints, NEW e \in Nat,
         \A i \in 1 .. Len(received[ep]) : received[ep][i].event < e,
         \A a \in wire : a.endpoint = ep => a.event < e
  PROVE  Tries(ep, e) = 0
<1>1. Positions(received[ep], e) = {}
  BY ReceivedTyped DEF Positions
<1>2. \A a \in wire : a.event \in Nat
  BY DEF DispatcherInv, TypeOK, Attempts, Events
<1>3. LateOf(ep, e) = {}
  BY <1>2 DEF LateOf
<1> QED BY <1>1, <1>3, FS_EmptySet DEF Tries, CopiesOf

\* A copy taken adds one to its count and to no other.
LEMMA TakenCounts ==
  ASSUME DispatcherInv, NEW ep \in Endpoints, NEW copy \in Copies,
         received' = [received EXCEPT ![ep] = Append(@, copy)],
         NEW p \in Endpoints, NEW e \in Nat
  PROVE  CopiesOf(p, e)' = IF p = ep /\ e = copy.event THEN CopiesOf(p, e) + 1 ELSE CopiesOf(p, e)
<1>1. received \in [Endpoints -> Seq(Copies)]
  BY DEF DispatcherInv, TypeOK
<1>2. CASE p = ep
  <2>1. received'[p] = Append(received[p], copy)
    BY <1>1, <1>2
  <2> QED BY <1>2, <2>1, CopyCounted, ReceivedTyped DEF CopiesOf
<1>3. CASE p # ep
  <2>1. received'[p] = received[p]
    BY <1>1, <1>3
  <2> QED BY <1>3, <2>1 DEF CopiesOf
<1> QED BY <1>2, <1>3

\* An attempt is one try, of that event at that endpoint.
LEMMA AttemptCounts ==
  ASSUME DispatcherInv, IsFiniteSet(wire), NEW ep \in Endpoints,
         worker.job \in Events, worker.attempt \in 1 .. MaxAttempts,
         \/ UNCHANGED outside
         \/ received' = [received EXCEPT ![ep] = Append(@, Copy(worker.job, FALSE))] /\ wire' = wire
         \/ received' = received /\ wire' = wire \cup {Attempt(ep)}
  PROVE  /\ IsFiniteSet(wire')
         /\ \A p \in Endpoints, e \in Nat :
              /\ CopiesOf(p, e)' \in Nat /\ CopiesOf(p, e) <= CopiesOf(p, e)' /\ Tries(p, e)' \in Nat
              /\ p # ep \/ e # worker.job => Tries(p, e)' = Tries(p, e)
              /\ Tries(p, e)' <= Tries(p, e) + 1
              /\ (p = ep /\ e = worker.job
                  /\ received' = [received EXCEPT ![ep] = Append(@, Copy(worker.job, FALSE))])
                 => CopiesOf(p, e)' >= 1
<1> DEFINE taken == received' = [received EXCEPT ![ep] = Append(@, Copy(worker.job, FALSE))]
<1>1. IsFiniteSet(wire')
  BY FS_AddElement DEF outside
<1>2. ~taken \/ received' # received
  <2>1. SUFFICES ASSUME received = [received EXCEPT ![ep] = Append(@, Copy(worker.job, FALSE))]
                 PROVE  FALSE
    OBVIOUS
  <2>2. received[ep] \in Seq(Copies) /\ received[ep] = Append(received[ep], Copy(worker.job, FALSE))
    BY <2>1 DEF DispatcherInv, TypeOK
  <2>3. PICK c \in Copies : c = Copy(worker.job, FALSE)
    BY SentTyped
  <2>4. Len(received[ep]) = Len(received[ep]) + 1 /\ Len(received[ep]) \in Nat
    BY <2>2, <2>3, AppendProperties, LenProperties
  <2> QED BY <2>4
<1>3. ASSUME NEW p \in Endpoints, NEW e \in Nat
      PROVE  /\ CopiesOf(p, e)' \in Nat /\ CopiesOf(p, e) <= CopiesOf(p, e)' /\ Tries(p, e)' \in Nat
             /\ p # ep \/ e # worker.job => Tries(p, e)' = Tries(p, e)
             /\ Tries(p, e)' <= Tries(p, e) + 1
             /\ p = ep /\ e = worker.job /\ taken => CopiesOf(p, e)' >= 1
  <2> DEFINE c == CopiesOf(p, e)
             l == Cardinality(LateOf(p, e))
             own == p = ep /\ e = worker.job
  <2>1. /\ c \in Nat /\ l \in Nat /\ IsFiniteSet(LateOf(p, e)) /\ Tries(p, e) = c + l
        /\ Tries(p, e)' = c' + l'
    BY CountsTyped DEF Tries
  <2>2. CASE taken /\ wire' = wire
    <3>1. PICK x \in Copies : x = Copy(worker.job, FALSE) /\ x.event = worker.job
      BY SentTyped
    <3>2. c' = IF own THEN c + 1 ELSE c
      <4>1. received' = [received EXCEPT ![ep] = Append(@, x)]
        BY <2>2, <3>1
      <4>2. CopiesOf(p, e)' = IF p = ep /\ e = x.event THEN CopiesOf(p, e) + 1 ELSE CopiesOf(p, e)
        BY <4>1, TakenCounts
      <4> QED BY <3>1, <4>2
    <3>3. LateOf(p, e)' = LateOf(p, e)
      BY <2>2 DEF LateOf
    <3>4. l' = l
      BY <3>3
    <3> HIDE DEF c, l, taken
    <3>5. /\ c' \in Nat /\ c <= c' /\ Tries(p, e)' \in Nat /\ (~own => Tries(p, e)' = Tries(p, e))
          /\ Tries(p, e)' <= Tries(p, e) + 1 /\ (own => c' >= 1)
      BY <2>1, <3>2, <3>4
    <3> QED BY <3>5 DEF c
  <2>3. CASE received' = received /\ ~taken /\ wire' = wire \cup {Attempt(ep)}
    <3>1. c' = c
      BY <2>3 DEF CopiesOf
    <3>2. LateOf(p, e)' = IF own THEN LateOf(p, e) \cup {Attempt(ep)} ELSE LateOf(p, e)
      BY <2>3 DEF LateOf, Attempt
    <3>3. Attempt(ep) \notin LateOf(p, e) =>
            Cardinality(LateOf(p, e) \cup {Attempt(ep)}) = l + 1
      BY <2>1, FS_AddElement
    <3>4. Attempt(ep) \in LateOf(p, e) => LateOf(p, e) \cup {Attempt(ep)} = LateOf(p, e)
      OBVIOUS
    <3>5. l' = l \/ (own /\ l' = l + 1)
      BY <3>2, <3>3, <3>4
    <3> HIDE DEF c, l, taken
    <3>6. /\ c' \in Nat /\ c <= c' /\ Tries(p, e)' \in Nat /\ (~own => Tries(p, e)' = Tries(p, e))
          /\ Tries(p, e)' <= Tries(p, e) + 1
      BY <2>1, <3>1, <3>5
    <3> QED BY <2>3, <3>6 DEF c
  <2>4. CASE UNCHANGED outside /\ ~taken
    <3>1. c' = c /\ LateOf(p, e)' = LateOf(p, e)
      BY <2>4 DEF CopiesOf, LateOf, outside
    <3>2. l' = l
      BY <3>1
    <3> HIDE DEF c, l, taken
    <3>3. /\ c' \in Nat /\ c <= c' /\ Tries(p, e)' \in Nat /\ Tries(p, e)' = Tries(p, e)
          /\ Tries(p, e)' <= Tries(p, e) + 1
      BY <2>1, <3>1, <3>2
    <3> QED BY <2>4, <3>3 DEF c
  <2> QED BY <1>2, <2>2, <2>3, <2>4 DEF outside
<1> QED BY <1>1, <1>3

\* What arrives late was counted when it was sent.
LEMMA LateCounts ==
  ASSUME DispatcherInv, IsFiniteSet(wire), LateArrival, NEW p \in Endpoints, NEW e \in Nat
  PROVE  Tries(p, e)' = Tries(p, e) /\ CopiesOf(p, e)' \in Nat /\ CopiesOf(p, e) <= CopiesOf(p, e)'
<1>1. PICK a \in wire : /\ received' = [received EXCEPT ![a.endpoint] = Append(@, Copy(a.event, TRUE))]
                        /\ wire' = wire \ {a}
  BY DEF LateArrival, Taken
<1>2. a.endpoint \in Endpoints /\ a.event \in Events
  BY SentTyped DEF DispatcherInv, TypeOK
<1>3. PICK x \in Copies : x = Copy(a.event, TRUE) /\ x.event = a.event
  BY <1>2, SentTyped
<1>4. CopiesOf(p, e)' = IF p = a.endpoint /\ e = a.event THEN CopiesOf(p, e) + 1 ELSE CopiesOf(p, e)
  <2>1. received' = [received EXCEPT ![a.endpoint] = Append(@, x)]
    BY <1>1, <1>3
  <2>2. PICK ep \in Endpoints : ep = a.endpoint
    BY <1>2
  <2>3. received' = [received EXCEPT ![ep] = Append(@, x)]
    BY <2>1, <2>2
  <2>4. CopiesOf(p, e)' = IF p = ep /\ e = x.event THEN CopiesOf(p, e) + 1 ELSE CopiesOf(p, e)
    BY <2>3, TakenCounts
  <2> QED BY <1>3, <2>2, <2>4
<1>5. /\ CopiesOf(p, e) \in Nat /\ IsFiniteSet(LateOf(p, e)) /\ Cardinality(LateOf(p, e)) \in Nat
      /\ Tries(p, e) = CopiesOf(p, e) + Cardinality(LateOf(p, e))
      /\ Tries(p, e)' = CopiesOf(p, e)' + Cardinality(LateOf(p, e)')
  BY CountsTyped DEF Tries
<1>6. CASE p = a.endpoint /\ e = a.event
  <2>1. a \in LateOf(p, e) /\ LateOf(p, e)' = LateOf(p, e) \ {a}
    BY <1>1, <1>6 DEF LateOf
  <2>2. Cardinality(LateOf(p, e)') = Cardinality(LateOf(p, e)) - 1
    BY <1>5, <2>1, FS_RemoveElement
  <2> QED BY <1>4, <1>5, <1>6, <2>2
<1>7. CASE ~(p = a.endpoint /\ e = a.event)
  <2>1. LateOf(p, e)' = LateOf(p, e)
    BY <1>1, <1>7 DEF LateOf
  <2> QED BY <1>4, <1>5, <1>7, <2>1
<1> QED BY <1>6, <1>7

\* The rows stay true while the tries they count stay the same and nothing received
\* is taken back.
LEMMA RowsKept ==
  ASSUME DispatcherInv, RowsAreTrue, UNCHANGED deliveries,
         \A d \in deliveries :
           /\ Tries(d.endpoint, d.event)' = Tries(d.endpoint, d.event)
           /\ CopiesOf(d.endpoint, d.event)' \in Nat
           /\ CopiesOf(d.endpoint, d.event) <= CopiesOf(d.endpoint, d.event)'
  PROVE  RowsAreTrue'
<1>1. \A d \in deliveries : CopiesOf(d.endpoint, d.event) \in Nat
  <2>1. \A d \in deliveries : d.endpoint \in Endpoints /\ d.event \in Nat
    BY LogTyped
  <2> QED BY <2>1, ReceivedTyped, PositionsFinite DEF CopiesOf
<1>2. ASSUME NEW d \in deliveries PROVE RowIsTrue(d)'
  <2>1. RowIsTrue(d) /\ CopiesOf(d.endpoint, d.event) \in Nat
    BY <1>1 DEF RowsAreTrue
  <2> QED BY <2>1 DEF RowIsTrue
<1> QED BY <1>2 DEF RowsAreTrue

\* Nothing is sent or taken: the counts are the same.
LEMMA RowsSame ==
  ASSUME DispatcherInv, RowsAreTrue, UNCHANGED <<deliveries, received, wire>>
  PROVE  RowsAreTrue'
BY DEF RowsAreTrue, RowIsTrue, Tries, CopiesOf, LateOf

LEMMA Multiples ==
  ASSUME NEW a \in Nat, NEW b \in Nat, NEW p \in Nat, a <= b
  PROVE  a * p <= b * p /\ a * p \in Nat /\ b * p \in Nat /\ (a + 1) * p = a * p + p
<1>1. a * p \in Nat /\ b * p \in Nat /\ (b - a) \in Nat /\ (b - a) * p \in Nat
  OBVIOUS
<1>2. b * p = a * p + (b - a) * p
  OBVIOUS
<1> QED BY <1>1, <1>2

LEMMA CountReceive == ASSUME DispatcherInv, CountInv, Receive PROVE CountInv'
<1>1. /\ At("idle") /\ queue # <<>> /\ UNCHANGED <<deliveries, received, wire>>
      /\ worker' = [IdleWorker EXCEPT !.pc = "list", !.job = Head(queue)]
  BY DEF Receive, outside
<1>2. Head(queue) = queue[1] /\ Len(queue) \in Nat \ {0}
  BY <1>1, HeadTailProperties, EmptySeq, LogTyped
<1>3. worker'.pc = "list" /\ worker'.job = queue[1] /\ worker'.ep = {} /\ worker'.todo = {}
  BY <1>1, <1>2 DEF IdleWorker
<1>4. /\ \A ep \in Endpoints : \A i \in 1 .. Len(received[ep]) : received[ep][i].event < queue[1]
      /\ \A a \in wire : a.event < queue[1]
  BY <1>2 DEF DispatcherInv, ReceivedEarlier, WireEarlier
<1>5. RowsAreTrue'
  BY <1>1, RowsSame DEF CountInv
<1>6. AttemptsCounted' /\ TimeSpent'
  BY <1>1, <1>3, <1>4 DEF AttemptsCounted, TimeSpent, At
<1> QED BY <1>1, <1>5, <1>6 DEF CountInv

\* A worker with no endpoint at hand and none, or the same ones, still to do.
LEMMA CountSettled ==
  ASSUME DispatcherInv, CountInv, UNCHANGED <<received, wire, deliveries>>, worker'.ep = {},
         \/ worker'.pc = "next" /\ worker'.job = worker.job
            /\ (At("list") \/ worker'.todo \subseteq worker.todo) /\ worker'.todo \subseteq Endpoints
         \/ worker'.pc = "idle" /\ worker'.todo = {}
  PROVE  CountInv'
<1>1. RowsAreTrue'
  BY RowsSame DEF CountInv
<1>2. TimeSpent'
  BY DEF TimeSpent, At
<1>3. AttemptsCounted'
  BY DEF CountInv, AttemptsCounted, At
<1> QED BY <1>1, <1>2, <1>3 DEF CountInv

LEMMA CountListEndpoints == ASSUME DispatcherInv, LogInv, CountInv, ListEndpoints PROVE CountInv'
<1>1. /\ At("list") /\ UNCHANGED <<deliveries, received, wire>> /\ worker.ep = {} /\ worker \in Workers
      /\ worker' = [worker EXCEPT !.pc = "next", !.todo = Subscribed] \/ worker' = IdleWorker
  BY LogTyped DEF ListEndpoints, LogInv, EndpointOK, At, outside
<1>2. Subscribed \subseteq Endpoints
  BY DEF Subscribed, DispatcherInv, TypeOK
<1>3. \/ /\ worker'.pc = "next" /\ worker'.job = worker.job /\ worker'.todo = Subscribed
         /\ worker'.ep = {}
      \/ worker'.pc = "idle" /\ worker'.todo = {} /\ worker'.ep = {}
  <2>1. CASE worker' = IdleWorker
    BY <2>1 DEF IdleWorker
  <2>2. CASE worker' = [worker EXCEPT !.pc = "next", !.todo = Subscribed]
    BY <1>1, <2>2 DEF Workers
  <2> QED BY <1>1, <2>1, <2>2
<1> QED BY <1>1, <1>2, <1>3, CountSettled

LEMMA CountNextEndpoint == ASSUME DispatcherInv, LogInv, CountInv, NextEndpoint PROVE CountInv'
<1>1. /\ At("next") /\ UNCHANGED <<deliveries, received, wire>> /\ worker \in Workers /\ worker.job \in Nat
  BY LogTyped DEF NextEndpoint, At, Workers, outside
<1>2. CASE worker.todo = {} /\ worker' = IdleWorker
  <2>1. worker'.pc = "idle" /\ worker'.todo = {} /\ worker'.ep = {}
    BY <1>2 DEF IdleWorker
  <2> QED BY <1>1, <2>1, CountSettled
<1>3. ASSUME NEW ep \in worker.todo,
             worker' = [worker EXCEPT !.pc = "deliver", !.todo = @ \ {ep}, !.ep = {ep},
                                      !.attempt = 1, !.spent = 0]
      PROVE  CountInv'
  <2>1. /\ worker'.pc = "deliver" /\ worker'.todo = worker.todo \ {ep} /\ worker'.ep = {ep}
        /\ worker'.job = worker.job /\ worker'.attempt = 1 /\ worker'.spent = 0 /\ ep \in Endpoints
    BY <1>1, <1>3 DEF Workers
  <2>2. /\ \A i \in 1 .. Len(received[ep]) : received[ep][i].event < worker.job
        /\ \A a \in wire : a.endpoint = ep => a.event < worker.job
    BY <1>3, <2>1 DEF CountInv, AttemptsCounted
  <2>3. Tries(ep, worker.job) = 0
    BY <1>1, <2>1, <2>2, NothingSent
  <2>4. Tries(ep, worker.job)' = 0
    BY <1>1, <2>1, <2>3 DEF Tries, CopiesOf, LateOf
  <2>5. AttemptsCounted'
    BY <1>1, <2>1, <2>4 DEF CountInv, AttemptsCounted, At
  <2>6. TimeSpent'
    <3>1. (1 - 1) * (Timeout + RetryBackoff) = 0
      BY SizesAssumption
    <3> QED BY <2>1, <3>1 DEF TimeSpent, At
  <2>7. RowsAreTrue'
    BY <1>1, RowsSame DEF CountInv
  <2> QED BY <1>1, <2>5, <2>6, <2>7 DEF CountInv
<1> QED BY <1>2, <1>3 DEF NextEndpoint

LEMMA CountDeliver == ASSUME DispatcherInv, LogInv, CountInv, Deliver PROVE CountInv'
<1>1. /\ At("deliver") /\ UNCHANGED deliveries /\ worker \in Workers /\ worker.job \in Nat
      /\ worker.attempt \in 1 .. MaxAttempts /\ worker.spent \in Nat /\ worker.todo \subseteq Endpoints
      /\ worker.job \in Events
  BY LogTyped DEF Deliver, At, Workers, DispatcherInv, WorkerOK
<1>2. PICK ep \in Endpoints \ worker.todo : worker.ep = {ep}
  BY <1>1 DEF LogInv, EndpointOK, At
<1> DEFINE taken == received' = [received EXCEPT ![ep] = Append(@, Copy(worker.job, FALSE))]
           late  == worker.spent + Timeout
<1>3. Until(Timeout) \in Nat /\ Until(Timeout) <= late /\ late \in Nat
  BY <1>1, SizesAssumption DEF Until
<1>4. /\ \/ UNCHANGED outside
         \/ taken /\ wire' = wire
         \/ received' = received /\ wire' = wire \cup {Attempt(ep)}
      /\ \/ taken /\ worker' = [worker EXCEPT !.pc = "record", !.status = "delivered"]
         \/ \E spent \in {worker.spent, Until(Timeout)} :
              worker' = [worker EXCEPT !.pc = IF LastAttempt THEN "record" ELSE "wait",
                                       !.status = "failed", !.spent = spent]
  BY <1>2, AttemptEnds DEF Fail
<1>5. /\ worker'.job = worker.job /\ worker'.todo = worker.todo /\ worker'.ep = {ep}
      /\ worker'.attempt = worker.attempt
      /\ \/ taken /\ worker'.pc = "record" /\ worker'.status = "delivered"
         \/ /\ worker'.pc = (IF LastAttempt THEN "record" ELSE "wait") /\ worker'.status = "failed"
            /\ worker'.spent \in Nat /\ worker'.spent <= late
  <2>1. CASE taken /\ worker' = [worker EXCEPT !.pc = "record", !.status = "delivered"]
    BY <1>1, <1>2, <2>1 DEF Workers
  <2>2. ASSUME NEW spent \in {worker.spent, Until(Timeout)},
               worker' = [worker EXCEPT !.pc = IF LastAttempt THEN "record" ELSE "wait",
                                        !.status = "failed", !.spent = spent]
        PROVE  /\ worker'.job = worker.job /\ worker'.todo = worker.todo /\ worker'.ep = {ep}
               /\ worker'.attempt = worker.attempt
               /\ worker'.pc = (IF LastAttempt THEN "record" ELSE "wait") /\ worker'.status = "failed"
               /\ worker'.spent \in Nat /\ worker'.spent <= late
    <3>1. spent \in Nat /\ spent <= late
      BY <1>1, <1>3, SizesAssumption
    <3>2. worker'.spent = spent
      BY <1>1, <2>2 DEF Workers
    <3> QED BY <1>1, <1>2, <2>2, <3>1, <3>2 DEF Workers
  <2> QED BY <1>4, <2>1, <2>2
<1>6. /\ IsFiniteSet(wire')
      /\ \A p \in Endpoints, e \in Nat :
           /\ CopiesOf(p, e)' \in Nat /\ CopiesOf(p, e) <= CopiesOf(p, e)' /\ Tries(p, e)' \in Nat
           /\ p # ep \/ e # worker.job => Tries(p, e)' = Tries(p, e)
           /\ Tries(p, e)' <= Tries(p, e) + 1
           /\ p = ep /\ e = worker.job /\ taken => CopiesOf(p, e)' >= 1
  BY <1>1, <1>4, AttemptCounts DEF CountInv
<1> HIDE DEF taken
<1>7. Tries(ep, worker.job) \in Nat /\ Tries(ep, worker.job) < worker.attempt
  BY <1>1, <1>2, CountsTyped DEF CountInv, AttemptsCounted
<1>8. RowsAreTrue'
  <2>1. ASSUME NEW d \in deliveries
        PROVE  /\ Tries(d.endpoint, d.event)' = Tries(d.endpoint, d.event)
               /\ CopiesOf(d.endpoint, d.event)' \in Nat
               /\ CopiesOf(d.endpoint, d.event) <= CopiesOf(d.endpoint, d.event)'
    <3>1. d.endpoint \in Endpoints /\ d.event \in Nat
      BY LogTyped
    <3>2. d.event = worker.job => d.endpoint # ep
      BY <1>1, <1>2 DEF LogInv, RecordsUnique, Owing, At
    <3>3. PICK p \in Endpoints, e \in Nat : p = d.endpoint /\ e = d.event
      BY <3>1
    <3>4. /\ Tries(p, e)' = Tries(p, e) /\ CopiesOf(p, e)' \in Nat /\ CopiesOf(p, e) <= CopiesOf(p, e)'
      BY <1>6, <3>2, <3>3
    <3> QED BY <3>3, <3>4
  <2> QED BY <1>1, <2>1, RowsKept DEF CountInv
<1>9. /\ Tries(ep, worker.job)' <= worker.attempt
      /\ taken => CopiesOf(ep, worker.job)' >= 1
  <2>1. PICK j \in Nat : j = worker.job
    BY <1>1
  <2>2. /\ Tries(ep, j)' \in Nat /\ Tries(ep, j)' <= Tries(ep, j) + 1
        /\ taken => CopiesOf(ep, j)' >= 1
    BY <1>6, <2>1
  <2>3. Tries(ep, worker.job)' = Tries(ep, j)' /\ CopiesOf(ep, worker.job)' = CopiesOf(ep, j)'
    BY <1>5, <2>1
  <2> QED BY <1>1, <1>7, <2>1, <2>2, <2>3
<1>10. AttemptsCounted'
  <2>1. worker'.pc \in {"wait", "record"}
    BY <1>5
  <2>2. worker'.status = "delivered" => taken
    BY <1>5
  <2>3. ASSUME NEW p \in worker.todo
        PROVE  /\ \A i \in 1 .. Len(received'[p]) : received'[p][i].event < worker.job
               /\ \A a \in wire' : a.endpoint = p => a.event < worker.job
    <3>1. p # ep /\ p \in Endpoints
      BY <1>1, <1>2
    <3>2. received'[p] = received[p]
      BY <1>4, <3>1 DEF DispatcherInv, TypeOK, outside, taken
    <3>3. \A a \in wire' : a.endpoint = p => a \in wire
      BY <1>4, <3>1 DEF outside, Attempt
    <3> QED BY <1>1, <3>1, <3>2, <3>3 DEF CountInv, AttemptsCounted
  <2> QED BY <1>5, <1>9, <2>1, <2>2, <2>3 DEF AttemptsCounted, At
<1>11. TimeSpent'
  <2> DEFINE a == worker.attempt
             p == Timeout + RetryBackoff
  <2>1. a - 1 \in Nat /\ a \in Nat /\ p \in Nat /\ a - 1 <= a /\ (a - 1) + 1 = a
    BY <1>1, SizesAssumption
  <2>2. (a - 1) * p \in Nat /\ a * p = (a - 1) * p + p
    BY <2>1, Multiples
  <2>3. worker.spent <= (a - 1) * p
    BY <1>1 DEF CountInv, TimeSpent
  <2>4. worker'.pc = "wait" => worker'.spent + RetryBackoff <= worker'.attempt * p
    BY <1>1, <1>5, <2>2, <2>3, SizesAssumption
  <2>5. worker'.pc = "record" /\ worker'.status = "failed" => worker'.attempt = MaxAttempts
    BY <1>1, <1>5, SizesAssumption DEF LastAttempt
  <2> QED BY <1>5, <2>4, <2>5 DEF TimeSpent, At
<1> QED BY <1>6, <1>8, <1>10, <1>11 DEF CountInv

LEMMA CountBackoff ==
  ASSUME DispatcherInv, LogInv, CountInv, PolicyFits, Backoff
  PROVE  CountInv'
<1>1. /\ At("wait") /\ UNCHANGED <<deliveries, received, wire>> /\ worker \in Workers /\ worker.job \in Nat
      /\ worker.attempt \in 1 .. MaxAttempts /\ worker.spent \in Nat /\ worker.attempt < MaxAttempts
      /\ worker.ep \subseteq Endpoints
  BY LogTyped DEF Backoff, At, Workers, DispatcherInv, WorkerOK, outside
<1> DEFINE a == worker.attempt
           p == Timeout + RetryBackoff
<1>2. a \in Nat /\ MaxAttempts - 1 \in Nat /\ a <= MaxAttempts - 1 /\ p \in Nat /\ DeliveryBudget \in Nat
      /\ RetryBackoff \in Nat
  BY <1>1, SizesAssumption
<1>3. a * p <= (MaxAttempts - 1) * p /\ a * p \in Nat /\ (MaxAttempts - 1) * p \in Nat
  BY <1>2, Multiples
<1>4. worker.spent + RetryBackoff <= a * p /\ (MaxAttempts - 1) * p < DeliveryBudget
  BY <1>1 DEF CountInv, TimeSpent, PolicyFits
<1> HIDE DEF p
<1>5. worker.spent + RetryBackoff < DeliveryBudget
  BY <1>1, <1>2, <1>3, <1>4
<1>6. worker' = [worker EXCEPT !.pc = "deliver", !.attempt = @ + 1, !.spent = @ + RetryBackoff]
  BY <1>1, <1>2, <1>5 DEF Backoff, AfterBackoff
<1>7. /\ worker'.pc = "deliver" /\ worker'.attempt = a + 1 /\ worker'.spent = worker.spent + RetryBackoff
      /\ worker'.job = worker.job /\ worker'.ep = worker.ep /\ worker'.todo = worker.todo
  BY <1>1, <1>6 DEF Workers
<1>8. RowsAreTrue'
  BY <1>1, RowsSame DEF CountInv
<1>9. TimeSpent'
  <2>1. worker'.attempt - 1 = a
    BY <1>2, <1>7
  <2> QED BY <1>4, <1>7, <2>1 DEF TimeSpent, At, p
<1>10. AttemptsCounted'
  <2>1. ASSUME NEW ep \in worker.ep PROVE Tries(ep, worker.job)' < worker'.attempt
    <3>1. Tries(ep, worker.job) \in Nat /\ Tries(ep, worker.job) <= a
      BY <1>1, <2>1, CountsTyped DEF CountInv, AttemptsCounted, At
    <3>2. Tries(ep, worker.job)' = Tries(ep, worker.job)
      BY <1>1, <1>7 DEF Tries, CopiesOf, LateOf
    <3> QED BY <1>2, <1>7, <3>1, <3>2
  <2> QED BY <1>1, <1>7, <2>1 DEF CountInv, AttemptsCounted, At
<1> QED BY <1>1, <1>8, <1>9, <1>10 DEF CountInv

LEMMA CountRecord == ASSUME DispatcherInv, LogInv, CountInv, Record PROVE CountInv'
<1>1. /\ At("record") /\ UNCHANGED <<received, wire>> /\ worker \in Workers /\ worker.job \in Nat
      /\ worker.status \in {"delivered", "failed"} /\ worker.todo \subseteq Endpoints
      /\ worker' = [IdleWorker EXCEPT !.pc = "next", !.job = worker.job, !.todo = worker.todo]
      /\ deliveries' = deliveries \cup {Outcome(ep) : ep \in worker.ep} \/ UNCHANGED deliveries
  BY LogTyped DEF Record, Workers, DispatcherInv, WorkerOK, At, outside
<1>2. PICK ep \in Endpoints \ worker.todo : worker.ep = {ep}
  BY <1>1 DEF LogInv, EndpointOK, At
<1>3. worker'.pc = "next" /\ worker'.job = worker.job /\ worker'.todo = worker.todo /\ worker'.ep = {}
  BY <1>1 DEF IdleWorker
<1>4. AttemptsCounted' /\ TimeSpent'
  BY <1>1, <1>3 DEF CountInv, AttemptsCounted, TimeSpent, At
<1>5. RowIsTrue(Outcome(ep))
  <2>1. /\ Outcome(ep).endpoint = ep /\ Outcome(ep).event = worker.job
        /\ Outcome(ep).status = worker.status /\ Outcome(ep).attempts = worker.attempt
    BY DEF Outcome
  <2> QED BY <1>1, <1>2, <2>1 DEF RowIsTrue, CountInv, AttemptsCounted, TimeSpent, At
<1>6. RowsAreTrue'
  <2>1. \A d \in deliveries' : RowIsTrue(d)
    BY <1>1, <1>2, <1>5 DEF CountInv, RowsAreTrue
  <2>2. \A d \in deliveries' : RowIsTrue(d)'
    BY <1>1, <2>1 DEF RowIsTrue, Tries, CopiesOf, LateOf
  <2> QED BY <2>2 DEF RowsAreTrue
<1> QED BY <1>1, <1>4, <1>6 DEF CountInv

LEMMA CountLateArrival == ASSUME DispatcherInv, CountInv, LateArrival PROVE CountInv'
<1>1. PICK a \in wire : /\ received' = [received EXCEPT ![a.endpoint] = Append(@, Copy(a.event, TRUE))]
                        /\ wire' = wire \ {a}
  BY DEF LateArrival, Taken
<1>2. UNCHANGED <<worker, deliveries>> /\ a.endpoint \in Endpoints /\ a.event \in Events
  BY DEF LateArrival, DispatcherInv, TypeOK, Attempts
<1>3. IsFiniteSet(wire')
  BY <1>1, FS_Subset DEF CountInv
<1>4. ASSUME NEW p \in Endpoints, NEW e \in Nat
      PROVE  /\ Tries(p, e)' = Tries(p, e) /\ CopiesOf(p, e)' \in Nat /\ CopiesOf(p, e) \in Nat
             /\ CopiesOf(p, e) <= CopiesOf(p, e)'
  BY LateCounts, CountsTyped DEF CountInv
<1>5. RowsAreTrue'
  <2>1. ASSUME NEW d \in deliveries
        PROVE  /\ Tries(d.endpoint, d.event)' = Tries(d.endpoint, d.event)
               /\ CopiesOf(d.endpoint, d.event)' \in Nat
               /\ CopiesOf(d.endpoint, d.event) <= CopiesOf(d.endpoint, d.event)'
    BY <1>4, LogTyped
  <2> QED BY <1>2, <2>1, RowsKept DEF CountInv
<1>6. TimeSpent'
  BY <1>2 DEF CountInv, TimeSpent, At
<1>7. worker.job \in Nat /\ worker.ep \subseteq Endpoints
  BY LogTyped DEF Workers
<1>8. ASSUME NEW ep \in worker.ep
      PROVE  /\ Tries(ep, worker.job)' = Tries(ep, worker.job)
             /\ CopiesOf(ep, worker.job) >= 1 => CopiesOf(ep, worker.job)' >= 1
  <2>1. PICK p \in Endpoints, j \in Nat : p = ep /\ j = worker.job
    BY <1>7
  <2>2. Tries(p, j)' = Tries(p, j) /\ (CopiesOf(p, j) >= 1 => CopiesOf(p, j)' >= 1)
    BY <1>4
  <2> QED BY <1>2, <2>1, <2>2
<1>9. ASSUME NEW ep \in Endpoints, At("list") \/ ep \in worker.todo
      PROVE  /\ \A i \in 1 .. Len(received'[ep]) : received'[ep][i].event < worker.job
             /\ \A b \in wire' : b.endpoint = ep => b.event < worker.job
  <2>1. /\ \A i \in 1 .. Len(received[ep]) : received[ep][i].event < worker.job
        /\ \A b \in wire : b.endpoint = ep => b.event < worker.job
    BY <1>9 DEF CountInv, AttemptsCounted
  <2>2. received \in [Endpoints -> Seq(Copies)]
    BY DEF DispatcherInv, TypeOK
  <2>3. CASE a.endpoint # ep
    BY <1>1, <2>1, <2>2, <2>3
  <2>4. CASE a.endpoint = ep
    <3>1. PICK x \in Copies : x = Copy(a.event, TRUE) /\ x.event = a.event
      BY <1>2, SentTyped
    <3>2. \A i \in 1 .. Len(received'[ep]) :
            received'[ep][i] = x \/ (i \in 1 .. Len(received[ep]) /\ received'[ep][i] = received[ep][i])
      <4>1. received'[ep] = Append(received[ep], x) /\ received[ep] \in Seq(Copies)
        BY <1>1, <2>2, <2>4, <3>1
      <4>2. /\ Len(received[ep]) \in Nat /\ Len(received'[ep]) = Len(received[ep]) + 1
            /\ \A k \in 1 .. Len(received[ep]) : received'[ep][k] = received[ep][k]
            /\ received'[ep][Len(received[ep]) + 1] = x
        BY <4>1, AppendProperties, LenProperties
      <4>3. \A i \in 1 .. Len(received[ep]) + 1 : i \in 1 .. Len(received[ep]) \/ i = Len(received[ep]) + 1
        BY <4>2
      <4> QED BY <4>2, <4>3
    <3>3. a.event < worker.job
      BY <2>1, <2>4
    <3> QED BY <1>1, <2>1, <3>1, <3>2, <3>3
  <2> QED BY <2>3, <2>4
<1>10. AttemptsCounted'
  BY <1>2, <1>8, <1>9 DEF CountInv, AttemptsCounted, At
<1> QED BY <1>3, <1>5, <1>6, <1>10 DEF CountInv

LEMMA CountKept ==
  ASSUME DispatcherInv, LogInv, CountInv, PolicyFits, [Next]_vars
  PROVE  CountInv'
<1>1. CASE UNCHANGED <<worker, received, wire, deliveries>>
  <2>1. RowsAreTrue'
    BY <1>1, RowsSame DEF CountInv
  <2> QED BY <1>1, <2>1 DEF CountInv, AttemptsCounted, TimeSpent, At, Tries, CopiesOf, LateOf
<1>2. CASE (\E ep \in Endpoints : CreateWebhook(ep)) \/ (\E t \in Types : Emit(t)) \/ UNCHANGED vars
  BY <1>1, <1>2 DEF CreateWebhook, Emit, vars, outside
<1>3. CASE Crash
  <2>1. worker'.pc = "idle" /\ worker'.todo = {} /\ worker'.ep = {} /\ UNCHANGED <<received, wire, deliveries>>
    BY <1>3 DEF Crash, IdleWorker, outside
  <2> QED BY <2>1, CountSettled
<1>4. CASE Work
  BY <1>4, CountReceive, CountListEndpoints, CountNextEndpoint, CountDeliver, CountBackoff, CountRecord
     DEF Work
<1> QED BY <1>2, <1>3, <1>4, CountLateArrival DEF Next

\* A row that says delivered is of an event the endpoint has, one that says failed is
\* of MaxAttempts attempts, and no endpoint has an event more often than the row
\* counts, for every retry policy whose last retry begins within the budget.
THEOREM TheLogIsTrue == ASSUME PolicyFits PROVE Spec => []LogIsTrue
<1>1. Init => CountInv
  <2>1. ASSUME Init PROVE /\ worker.pc = "idle" /\ worker.ep = {} /\ worker.todo = {}
                          /\ deliveries = {} /\ wire = {}
    BY <2>1 DEF Init, IdleWorker
  <2> QED BY <2>1, FS_EmptySet DEF CountInv, AttemptsCounted, TimeSpent, RowsAreTrue, At
<1>2. DispatcherInv /\ LogInv /\ CountInv /\ [Next]_vars => CountInv'
  BY CountKept
<1>3. ASSUME DispatcherInv, CountInv PROVE LogIsTrue
  <2>1. ASSUME NEW d \in deliveries
        PROVE  /\ d.status = "delivered" => CopiesOf(d.endpoint, d.event) >= 1
               /\ d.status = "failed" => d.attempts = MaxAttempts
               /\ CopiesOf(d.endpoint, d.event) <= d.attempts
    <3>1. d \in Records /\ d.endpoint \in Endpoints /\ d.event \in Nat
      BY <1>3, LogTyped
    <3>2. /\ Tries(d.endpoint, d.event) \in Nat /\ CopiesOf(d.endpoint, d.event) \in Nat
          /\ CopiesOf(d.endpoint, d.event) <= Tries(d.endpoint, d.event)
      BY <1>3, <3>1, CountsTyped DEF CountInv
    <3>3. RowIsTrue(d) /\ d.attempts \in Nat
      BY <1>3, <3>1 DEF CountInv, RowsAreTrue, Records
    <3> QED BY <3>2, <3>3 DEF RowIsTrue
  <2> QED BY <2>1 DEF LogIsTrue, CopiesOf, Positions
<1> QED BY <1>1, <1>2, <1>3, Kept, LogAlways, PTL DEF Spec

-----------------------------------------------------------------------------
(* Sequences. *)

LEMMA Cons ==
  ASSUME NEW S, NEW a \in S, NEW q \in Seq(S)
  PROVE  /\ <<a>> \o q \in Seq(S) /\ <<a>> \o q # <<>>
         /\ Len(<<a>> \o q) = Len(q) + 1
         /\ Head(<<a>> \o q) = a /\ Tail(<<a>> \o q) = q
<1> DEFINE s == <<a>> \o q
<1>1. <<a>> \in Seq(S) /\ Len(<<a>>) = 1 /\ <<a>>[1] = a /\ Len(q) \in Nat
  BY LenProperties
<1>2. /\ s \in Seq(S) /\ Len(s) = Len(q) + 1
      /\ \A i \in 1 .. 1 + Len(q) : s[i] = IF i <= 1 THEN <<a>>[i] ELSE q[i - 1]
  BY <1>1, ConcatProperties
<1>3. s # <<>> /\ Head(s) = s[1]
  BY <1>1, <1>2, EmptySeq
<1>4. s[1] = a
  BY <1>1, <1>2
<1>5. /\ Tail(s) \in Seq(S) /\ Len(Tail(s)) = Len(q)
      /\ \A i \in 1 .. Len(q) : Tail(s)[i] = s[i + 1]
  BY <1>1, <1>2, <1>3, HeadTailProperties
<1>6. \A i \in 1 .. Len(q) : s[i + 1] = q[i]
  BY <1>1, <1>2
<1>7. Tail(s) = q
  BY <1>5, <1>6, SeqEqual
<1> QED BY <1>2, <1>3, <1>4, <1>7

LEMMA ConsAppend ==
  ASSUME NEW S, NEW a \in S, NEW e \in S, NEW q \in Seq(S)
  PROVE  <<a>> \o Append(q, e) = Append(<<a>> \o q, e)
<1>1. <<a>> \in Seq(S) /\ <<e>> \in Seq(S)
  OBVIOUS
<1>2. Append(q, e) = q \o <<e>>
  BY AppendIsConcat
<1>3. Append(<<a>> \o q, e) = (<<a>> \o q) \o <<e>>
  BY Cons, AppendIsConcat
<1> QED BY <1>1, <1>2, <1>3, ConcatAssociative

LEMMA HeadTail ==
  ASSUME NEW S, NEW q \in Seq(S), q # <<>>
  PROVE  <<Head(q)>> \o Tail(q) = q
<1>1. /\ Head(q) \in S /\ Head(q) = q[1] /\ Tail(q) \in Seq(S) /\ Len(Tail(q)) = Len(q) - 1
      /\ Len(q) \in Nat \ {0}
      /\ \A i \in 1 .. Len(Tail(q)) : Tail(q)[i] = q[i + 1]
  BY HeadTailProperties, EmptySeq
<1> DEFINE s == <<Head(q)>> \o Tail(q)
<1>2. <<Head(q)>> \in Seq(S) /\ Len(<<Head(q)>>) = 1 /\ <<Head(q)>>[1] = Head(q)
  BY <1>1
<1>3. /\ s \in Seq(S) /\ Len(s) = 1 + (Len(q) - 1)
      /\ \A i \in 1 .. 1 + (Len(q) - 1) : s[i] = IF i <= 1 THEN <<Head(q)>>[i] ELSE Tail(q)[i - 1]
  BY <1>1, <1>2, ConcatProperties
<1>4. Len(s) = Len(q)
  BY <1>1, <1>3
<1>5. ASSUME NEW i \in 1 .. Len(q)
      PROVE  s[i] = q[i]
  <2>1. CASE i = 1
    BY <1>1, <1>2, <1>3, <2>1
  <2>2. CASE i # 1
    <3>1. i - 1 \in 1 .. Len(Tail(q)) /\ ~(i <= 1) /\ (i - 1) + 1 = i
      BY <1>1, <2>2
    <3>2. Tail(q)[i - 1] = q[i]
      BY <1>1, <3>1
    <3>3. s[i] = Tail(q)[i - 1]
      BY <1>1, <1>3, <3>1
    <3> QED BY <3>2, <3>3
  <2> QED BY <2>1, <2>2
<1> QED BY <1>3, <1>4, <1>5, SeqEqual

-----------------------------------------------------------------------------
(* What the worker has yet to report, at each of its steps. *)

DueOK ==
  /\ worker.pc \in {"idle", "list"} => worker.todo = {} /\ worker.ep = {}
  /\ At("next") => worker.ep = {}
  /\ worker.pc \in {"deliver", "wait", "record"} =>
       \E e \in Endpoints : worker.ep = {e} /\ e \notin worker.todo

LEMMA DueKept == ASSUME DispatcherInv, DueOK, [Next]_vars PROVE DueOK'
<1>1. worker \in Workers
  BY DEF DispatcherInv, TypeOK, Workers
<1>2. CASE worker' = worker
  BY <1>2 DEF DueOK, At
<1>3. CASE worker' = IdleWorker
  BY <1>3 DEF IdleWorker, DueOK, At
<1>4. CASE Receive
  <2>1. worker'.pc = "list" /\ worker'.todo = {} /\ worker'.ep = {}
    BY <1>4 DEF Receive, IdleWorker
  <2> QED BY <2>1 DEF DueOK, At
<1>5. CASE At("list") /\ worker' = [worker EXCEPT !.pc = "next", !.todo = Subscribed]
  <2>1. worker'.pc = "next" /\ worker'.ep = worker.ep
    BY <1>1, <1>5 DEF Workers
  <2> QED BY <1>5, <2>1 DEF DueOK, At
<1>6. ASSUME NEW ep \in worker.todo,
             worker' = [worker EXCEPT !.pc = "deliver", !.todo = @ \ {ep}, !.ep = {ep},
                                      !.attempt = 1, !.spent = 0]
      PROVE  DueOK'
  <2>1. worker'.pc = "deliver" /\ worker'.todo = worker.todo \ {ep} /\ worker'.ep = {ep}
        /\ ep \in Endpoints
    BY <1>1, <1>6 DEF Workers
  <2> QED BY <2>1 DEF DueOK, At
<1>7. CASE Deliver
  <2>1. worker'.pc \in {"record", "wait"} /\ worker'.todo = worker.todo /\ worker'.ep = worker.ep
        /\ At("deliver")
    BY <1>1, <1>7, AttemptEnds DEF Deliver, Fail, Workers
  <2> QED BY <2>1 DEF DueOK, At
<1>8. CASE Backoff
  <2>1. /\ At("wait")
        /\ \/ worker' = [worker EXCEPT !.pc = "record"]
           \/ worker' = [worker EXCEPT !.pc = "deliver", !.attempt = @ + 1, !.spent = @ + RetryBackoff]
    BY <1>8, BackoffEnds
  <2>2. worker'.pc \in {"record", "deliver"} /\ worker'.todo = worker.todo /\ worker'.ep = worker.ep
    BY <1>1, <2>1 DEF Workers
  <2> QED BY <2>1, <2>2 DEF DueOK, At
<1>9. CASE Record
  <2>1. worker'.pc = "next" /\ worker'.ep = {}
    BY <1>9 DEF Record, IdleWorker
  <2> QED BY <2>1 DEF DueOK, At
<1>10. CASE ListEndpoints
  BY <1>3, <1>5, <1>10 DEF ListEndpoints
<1>11. CASE NextEndpoint
  BY <1>3, <1>6, <1>11 DEF NextEndpoint
<1>12. CASE Work
  BY <1>4, <1>7, <1>8, <1>9, <1>10, <1>11, <1>12 DEF Work
<1> QED BY <1>2, <1>3, <1>12 DEF Next, vars, CreateWebhook, Emit, LateArrival, Crash

-----------------------------------------------------------------------------
(* The state of the relay. *)

Waiting == (IF At("idle") THEN <<>> ELSE <<worker.job>>) \o queue

Begun == worker.pc \notin {"idle", "list"}

DueNow == worker.todo \cup worker.ep

Reported == {<<d.event, d.endpoint>> : d \in deliveries}

LEMMA WaitingIs ==
  ASSUME DispatcherInv
  PROVE  /\ queue \in Seq(Events) /\ Len(queue) \in Nat
         /\ Waiting \in Seq(Events)
         /\ At("idle") => Waiting = queue
         /\ ~At("idle") => /\ worker.job \in Events /\ Waiting = <<worker.job>> \o queue
                           /\ Waiting # <<>> /\ Head(Waiting) = worker.job /\ Tail(Waiting) = queue
                           /\ Len(Waiting) = Len(queue) + 1
<1>1. queue \in Seq(Events) /\ Len(queue) \in Nat
  BY LenProperties DEF DispatcherInv, TypeOK
<1>2. CASE At("idle")
  <2>1. Waiting = queue
    BY <1>1, <1>2, ConcatEmptySeq DEF Waiting
  <2> QED BY <1>1, <1>2, <2>1
<1>3. CASE ~At("idle")
  <2>1. worker.job \in Events /\ Waiting = <<worker.job>> \o queue
    BY <1>3 DEF DispatcherInv, WorkerOK, Waiting
  <2> QED BY <1>1, <1>3, <2>1, Cons
<1> QED BY <1>2, <1>3

LEMMA InitMaps == Init => R!RelayInit
<1> SUFFICES ASSUME Init
             PROVE  R!RelayInit
  OBVIOUS
<1>1. At("idle") /\ worker.pc = "idle" /\ worker.todo = {} /\ worker.ep = {}
  BY DEF Init, IdleWorker, At
<1>2. (IF At("idle") THEN <<>> ELSE <<worker.job>>) \o queue = <<>>
  <2>1. <<>> \in Seq({}) /\ queue = <<>>
    BY EmptySeq DEF Init
  <2> QED BY <1>1, <2>1, ConcatEmptySeq
<1>3. {<<d.event, d.endpoint>> : d \in deliveries} = {}
  BY DEF Init
<1> QED BY <1>1, <1>2, <1>3 DEF Init, R!RelayInit

\* A step that keeps what waits, what is begun, what is due and what is reported.
LEMMA Stutters ==
  ASSUME UNCHANGED <<registered, type, dropped, crashes>>, Waiting' = Waiting, Begun' = Begun,
         DueNow' = DueNow, deliveries' = deliveries
  PROVE  UNCHANGED R!relayVars
BY DEF R!relayVars, Waiting, Begun, DueNow

LEMMA RegisterMaps == ASSUME NEW ep \in Endpoints, CreateWebhook(ep) PROVE R!Register(ep)
BY DEF CreateWebhook, R!Register, At

LEMMA EmitMaps ==
  ASSUME DispatcherInv, NEW t \in Types, Emit(t)
  PROVE  R!Emit(t)
<1>1. /\ Len(type) < MaxEvents /\ type' = Append(type, t) /\ Enqueue(Len(type) + 1)
      /\ UNCHANGED <<registered, worker, deliveries, crashes>>
  BY DEF Emit
<1>2. At("idle")' = At("idle")
  BY <1>1 DEF At
<1>3. Len(type) \in Nat
  BY LenProperties DEF DispatcherInv, TypeOK
<1>4. CASE Len(queue) < QueueDepth /\ queue' = Append(queue, Len(type) + 1) /\ dropped' = dropped
  <2>1. Waiting' = Append(Waiting, Len(type) + 1)
    <3>1. queue \in Seq(Nat) /\ Len(type) + 1 \in Nat
      BY <1>3, WaitingIs, SeqMonotonic DEF Events
    <3>2. queue' \in Seq(Nat)
      BY <1>4, <3>1, AppendProperties
    <3>3. CASE At("idle")
      <4>1. Waiting' = queue'
        BY <1>2, <3>2, <3>3, ConcatEmptySeq DEF Waiting
      <4> QED BY <1>4, <3>3, <4>1, WaitingIs
    <3>4. CASE ~At("idle")
      <4>1. worker.job \in Nat
        BY <3>4, WaitingIs DEF Events
      <4>2. Waiting' = <<worker.job>> \o queue'
        BY <1>1, <1>2, <3>4 DEF Waiting
      <4> QED BY <1>4, <3>1, <3>4, <4>1, <4>2, WaitingIs, ConsAppend, SMTT(30)
    <3> QED BY <3>3, <3>4
  <2>2. Len(Waiting) <= QueueDepth
    BY <1>4, WaitingIs, SizesAssumption
  <2>3. R!Take(Len(type) + 1)
    BY <1>4, <2>1, <2>2 DEF R!Take, Waiting
  <2> QED BY <1>1, <2>3 DEF R!Emit
<1>5. CASE ~(Len(queue) < QueueDepth) /\ queue' = queue /\ dropped' = dropped \cup {Len(type) + 1}
  <2>1. Len(Waiting) >= QueueDepth
    BY <1>5, WaitingIs, SizesAssumption
  <2>2. Waiting' = Waiting
    BY <1>1, <1>2, <1>5 DEF Waiting
  <2>3. R!Drop(Len(type) + 1)
    BY <1>5, <2>1, <2>2 DEF R!Drop, Waiting
  <2> QED BY <1>1, <2>3 DEF R!Emit
<1> QED BY <1>1, <1>4, <1>5 DEF Enqueue

LEMMA ReceiveMaps == ASSUME DispatcherInv, DueOK, Receive PROVE UNCHANGED R!relayVars
<1>1. /\ At("idle") /\ queue # <<>> /\ queue' = Tail(queue)
      /\ UNCHANGED <<registered, type, dropped, deliveries, crashes>>
  BY DEF Receive
<1>2. worker'.pc = "list" /\ worker'.job = Head(queue) /\ worker'.todo = {} /\ worker'.ep = {}
  BY DEF Receive, IdleWorker
<1>3. Waiting = queue
  BY <1>1, WaitingIs
<1>4. Waiting' = <<Head(queue)>> \o Tail(queue)
  BY <1>1, <1>2 DEF Waiting, At
<1>5. Waiting' = Waiting
  BY <1>1, <1>3, <1>4, HeadTail, WaitingIs
<1>6. Begun' = Begun /\ DueNow' = DueNow
  BY <1>1, <1>2 DEF Begun, DueNow, DueOK, At
<1> QED BY <1>1, <1>5, <1>6, Stutters

\* The worker is done with its event.
LEMMA FinishMaps ==
  ASSUME DispatcherInv, ~At("idle"), worker' = IdleWorker, worker.todo = {}, worker.ep = {},
         UNCHANGED <<registered, queue, type, dropped, deliveries, crashes>>,
         At("list") => StoreFaults
  PROVE  R!Finish
<1>1. worker'.pc = "idle" /\ worker'.todo = {} /\ worker'.ep = {}
  BY DEF IdleWorker
<1>2. Waiting # <<>> /\ Tail(Waiting) = queue /\ queue \in Seq(Events)
  BY WaitingIs
<1>3. Waiting' = queue
  BY <1>1, <1>2, ConcatEmptySeq DEF Waiting, At
<1>4. Waiting # <<>> /\ Waiting' = Tail(Waiting)
  BY <1>2, <1>3
<1> QED BY <1>1, <1>4 DEF R!Finish, Waiting, At

LEMMA ListEndpointsMaps ==
  ASSUME DispatcherInv, DueOK, ListEndpoints
  PROVE  R!Begin \/ R!Finish
<1>1. /\ At("list") /\ ~At("idle") /\ worker.todo = {} /\ worker.ep = {} /\ worker \in Workers
      /\ UNCHANGED <<registered, queue, type, dropped, deliveries, crashes>>
  BY DEF ListEndpoints, DueOK, At, DispatcherInv, TypeOK, Workers
<1>2. CASE worker' = [worker EXCEPT !.pc = "next", !.todo = Subscribed]
  <2>1. worker'.pc = "next" /\ worker'.job = worker.job /\ worker'.todo = Subscribed
        /\ worker'.ep = {}
    BY <1>1, <1>2 DEF Workers
  <2>2. Waiting # <<>> /\ Head(Waiting) = worker.job
    BY <1>1, WaitingIs
  <2>3. Waiting' = Waiting
    BY <1>1, <2>1 DEF Waiting, At
  <2> QED BY <1>1, <2>1, <2>2, <2>3 DEF R!Begin, Waiting, Subscribed, At
<1>3. CASE StoreFaults /\ worker' = IdleWorker
  BY <1>1, <1>3, FinishMaps
<1> QED BY <1>2, <1>3 DEF ListEndpoints

LEMMA NextEndpointMaps ==
  ASSUME DispatcherInv, DueOK, NextEndpoint
  PROVE  R!Finish \/ UNCHANGED R!relayVars
<1>1. /\ At("next") /\ ~At("idle") /\ ~At("list") /\ worker.ep = {} /\ worker \in Workers
      /\ UNCHANGED <<registered, queue, type, dropped, deliveries, crashes>>
  BY DEF NextEndpoint, DueOK, At, DispatcherInv, TypeOK, Workers
<1>2. CASE worker.todo = {} /\ worker' = IdleWorker
  BY <1>1, <1>2, FinishMaps
<1>3. ASSUME NEW ep \in worker.todo,
             worker' = [worker EXCEPT !.pc = "deliver", !.todo = @ \ {ep}, !.ep = {ep},
                                      !.attempt = 1, !.spent = 0]
      PROVE  UNCHANGED R!relayVars
  <2>1. worker'.pc = "deliver" /\ worker'.job = worker.job /\ worker'.todo = worker.todo \ {ep}
        /\ worker'.ep = {ep}
    BY <1>1, <1>3 DEF Workers
  <2>2. Waiting' = Waiting /\ Begun' = Begun
    BY <1>1, <2>1 DEF Waiting, Begun, At
  <2>3. DueNow' = DueNow
    BY <1>1, <1>3, <2>1 DEF DueNow
  <2> QED BY <1>1, <2>2, <2>3, Stutters
<1> QED BY <1>2, <1>3 DEF NextEndpoint

LEMMA AttemptMaps == ASSUME DispatcherInv, Deliver \/ Backoff PROVE UNCHANGED R!relayVars
<1>1. /\ worker \in Workers /\ worker.pc \in {"deliver", "wait"}
      /\ UNCHANGED <<registered, queue, type, dropped, deliveries, crashes>>
  BY DEF Deliver, Backoff, At, DispatcherInv, TypeOK, Workers
<1>2. /\ worker'.pc \in {"deliver", "wait", "record"} /\ worker'.job = worker.job
      /\ worker'.todo = worker.todo /\ worker'.ep = worker.ep
  <2>1. CASE Deliver
    BY <1>1, <2>1, AttemptEnds DEF Fail, Workers
  <2>2. CASE Backoff
    BY <1>1, <2>2, BackoffEnds DEF Workers
  <2> QED BY <2>1, <2>2
<1>3. Waiting' = Waiting /\ Begun' = Begun /\ DueNow' = DueNow
  BY <1>1, <1>2 DEF Waiting, Begun, DueNow, At
<1> QED BY <1>1, <1>3, Stutters

LEMMA RecordMaps == ASSUME DispatcherInv, DueOK, Record PROVE R!Report
<1>1. /\ At("record") /\ worker.pc = "record" /\ ~At("idle")
      /\ UNCHANGED <<registered, queue, type, dropped, crashes>>
  BY DEF Record, At
<1>2. worker'.pc = "next" /\ worker'.job = worker.job /\ worker'.todo = worker.todo
      /\ worker'.ep = {}
  BY DEF Record, IdleWorker
<1>3. PICK e \in Endpoints : worker.ep = {e} /\ e \notin worker.todo
  BY <1>1 DEF DueOK
<1>4. Head(Waiting) = worker.job /\ Waiting' = Waiting
  BY <1>1, <1>2, WaitingIs DEF Waiting, At
<1>5. e \in DueNow /\ DueNow' = DueNow \ {e} /\ Begun' = Begun
  BY <1>1, <1>2, <1>3 DEF DueNow, Begun
<1>6. Reported' = Reported \cup {<<Head(Waiting), e>>} \/ (StoreFaults /\ Reported' = Reported)
  <2>1. CASE StoreFaults /\ deliveries' = deliveries
    BY <2>1 DEF Reported
  <2>2. CASE deliveries' = deliveries \cup {Outcome(ep) : ep \in worker.ep}
    <3>1. deliveries' = deliveries \cup {Outcome(e)}
      BY <1>3, <2>2
    <3>2. Outcome(e).event = worker.job /\ Outcome(e).endpoint = e
      BY DEF Outcome
    <3> QED BY <1>4, <3>1, <3>2 DEF Reported
  <2> QED BY <2>1, <2>2 DEF Record
<1> QED BY <1>1, <1>4, <1>5, <1>6 DEF R!Report, Waiting, Begun, DueNow, Reported

LEMMA CrashMaps == ASSUME Crash PROVE R!Die
<1>1. worker'.pc = "idle" /\ worker'.todo = {} /\ worker'.ep = {} /\ queue' = <<>>
  BY DEF Crash, IdleWorker
<1>2. Waiting' = <<>>
  <2>1. <<>> \in Seq({})
    BY EmptySeq
  <2> QED BY <1>1, <2>1, ConcatEmptySeq DEF Waiting, At
<1> QED BY <1>1, <1>2 DEF Crash, R!Die, Waiting

LEMMA StepMaps ==
  ASSUME DispatcherInv, DueOK, [Next]_vars
  PROVE  [R!RelayNext]_(R!relayVars)
<1>1. CASE UNCHANGED vars
  BY <1>1 DEF vars, R!relayVars, At
<1>2. CASE Work
  BY <1>2, ReceiveMaps, ListEndpointsMaps, NextEndpointMaps, AttemptMaps, RecordMaps
     DEF Work, R!RelayNext, R!Progress
<1>3. CASE LateArrival
  BY <1>3 DEF LateArrival, R!relayVars, At
<1> QED BY <1>1, <1>2, <1>3, RegisterMaps, EmitMaps, CrashMaps DEF Next, R!RelayNext

\* Whatever endpoints, retries, statements and restarts do, the dispatcher is a
\* lossy first-in first-out relay: one event at a time, in the order of their
\* emission, dropped only when the channel is full, none ended before every
\* endpoint due has had its turn.
THEOREM DispatcherRelays == Spec => Relayed
<1>1. Init => DueOK
  BY DEF Init, IdleWorker, DueOK, At
<1>2. DispatcherInv /\ DueOK /\ [Next]_vars => DueOK'
  BY DueKept
<1>3. DispatcherInv /\ DueOK /\ [Next]_vars => [R!RelayNext]_(R!relayVars)
  BY StepMaps
<1> QED BY <1>1, <1>2, <1>3, InitMaps, Kept, PTL DEF Spec, Relayed, R!RelaySpec
=============================================================================
