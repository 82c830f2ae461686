----------------------------- MODULE Dispatcher -----------------------------
(***************************************************************************)
(* The webhook dispatcher (internal/webhook/dispatcher.go).  Emit, called  *)
(* by the collector and by handlers, puts a job on a bounded channel and   *)
(* returns; one worker, started by the first Emit, takes the jobs one by   *)
(* one and posts each to every subscribed endpoint, retrying a few times   *)
(* within a time budget, and records the outcome.                          *)
(*                                                                         *)
(* Events are numbered in the order their Emit reached the channel.  The   *)
(* consumer is outside: of an attempt the worker sees a 2xx, or a failure  *)
(* that may hide a delivery; an attempt it gave up on may be taken later.  *)
(***************************************************************************)
EXTENDS Naturals, Sequences, FiniteSets

CONSTANTS
  Endpoints,     \* webhook endpoints that may be registered
  Types,         \* event names
  Subscription,  \* Endpoints -> SUBSET Types: the events column, "*" being Types
  Slow,          \* the endpoints that may take an event and not say so in time
  QueueDepth,    \* 512 in the code
  MaxAttempts,   \* 3
  Timeout,       \* 10s, of one attempt
  RetryBackoff,  \* 2s
  DeliveryBudget,\* 60s, of one endpoint's attempts
  StoreFaults,   \* may a SQL statement fail
  MaxLate,       \* bound: attempts given up on that consumers may yet get to
  MaxEvents,     \* bound: events emitted
  MaxCrashes     \* bound: panel restarts

ASSUME SizesAssumption ==
  /\ QueueDepth \in Nat \ {0} /\ MaxAttempts \in Nat \ {0}
  /\ Timeout \in Nat /\ RetryBackoff \in Nat /\ DeliveryBudget \in Nat
  /\ MaxLate \in Nat /\ MaxEvents \in Nat /\ MaxCrashes \in Nat

ASSUME EndpointsAssumption ==
  /\ Subscription \in [Endpoints -> SUBSET Types]
  /\ Slow \subseteq Endpoints
  /\ StoreFaults \in BOOLEAN

VARIABLES
  registered,  \* active rows of webhook_endpoints
  queue,       \* the channel: events, oldest first
  type,        \* the events emitted so far and their types
  dropped,     \* events dropped by Emit
  running,     \* has the worker been started (sync.Once)
  worker,      \* the worker
  received,    \* what each endpoint has received, in order, and what of it came late
  wire,        \* attempts that timed out and may yet be taken, or never
  deliveries,  \* webhook_deliveries
  offered,     \* <<event, endpoint>> pairs the log owes a record: the worker set out to
               \* deliver them, and no statement failed and no restart came between
  crashes

outside == <<received, wire>>
vars == <<registered, queue, type, dropped, running, worker, received, wire, deliveries, offered, crashes>>

Events == 1 .. Len(type)

QueuedEvents == {queue[k] : k \in 1 .. Len(queue)}

WorkerPCs == {"idle", "list", "next", "deliver", "wait", "record"}

IdleWorker == [pc |-> "idle", job |-> 0, todo |-> {}, ep |-> {}, attempt |-> 0, spent |-> 0,
               status |-> "none"]

At(pc) == worker.pc = pc

Go(pc) == worker' = [worker EXCEPT !.pc = pc]

-----------------------------------------------------------------------------
CreateWebhook(ep) ==
  /\ ep \notin registered
  /\ registered' = registered \cup {ep}
  /\ UNCHANGED <<queue, type, dropped, running, worker, outside, deliveries, offered, crashes>>

\* Slip: the oldest job makes room for the new one.
EnqueueOverOldest(e) ==
  /\ queue' = Append(IF Len(queue) < QueueDepth THEN queue ELSE Tail(queue), e)
  /\ UNCHANGED dropped

\* The channel takes the new job, or the job is dropped: the caller never waits.
Enqueue(e) ==
  IF Len(queue) < QueueDepth
  THEN queue' = Append(queue, e) /\ UNCHANGED dropped
  ELSE dropped' = dropped \cup {e} /\ UNCHANGED queue

Emit(t) ==
  /\ Len(type) < MaxEvents
  /\ type' = Append(type, t)
  /\ running' = TRUE
  /\ Enqueue(Len(type) + 1)
  /\ UNCHANGED <<registered, worker, outside, deliveries, offered, crashes>>

-----------------------------------------------------------------------------
(* The worker: run, dispatch, deliverWithRetry. *)

Receive ==
  /\ running /\ At("idle") /\ queue # <<>>
  /\ worker' = [IdleWorker EXCEPT !.pc = "list", !.job = Head(queue)]
  /\ queue' = Tail(queue)
  /\ UNCHANGED <<registered, type, dropped, running, outside, deliveries, offered, crashes>>

\* subscribed(ep.Events, j.event)
Subscribed == {ep \in registered : type[worker.job] \in Subscription[ep]}

\* Slip: an error ends the worker instead of the job.
ListEndpointsOrStop ==
  /\ At("list")
  /\ \/ /\ worker' = [worker EXCEPT !.pc = "next", !.todo = Subscribed]
        /\ offered' = offered \cup {<<worker.job, ep>> : ep \in Subscribed}
     \/ StoreFaults /\ Go("stopped") /\ UNCHANGED offered
  /\ UNCHANGED <<registered, queue, type, dropped, running, outside, deliveries, crashes>>

\* ListActiveWebhooks; if it fails the job is given up.
ListEndpoints ==
  /\ At("list")
  /\ \/ /\ worker' = [worker EXCEPT !.pc = "next", !.todo = Subscribed]
        /\ offered' = offered \cup {<<worker.job, ep>> : ep \in Subscribed}
     \/ StoreFaults /\ worker' = IdleWorker /\ UNCHANGED offered
  /\ UNCHANGED <<registered, queue, type, dropped, running, outside, deliveries, crashes>>

NextEndpoint ==
  /\ At("next")
  /\ \/ worker.todo = {} /\ worker' = IdleWorker
     \/ \E ep \in worker.todo :
          worker' = [worker EXCEPT !.pc = "deliver", !.todo = @ \ {ep}, !.ep = {ep},
                                   !.attempt = 1, !.spent = 0]
  /\ UNCHANGED <<registered, queue, type, dropped, running, outside, deliveries, offered, crashes>>

\* An attempt ends within the client's timeout and what is left of the budget.
Until(limit) == IF worker.spent + limit <= DeliveryBudget THEN worker.spent + limit ELSE DeliveryBudget

\* Slip: no retry of an attempt that timed out.
LastAttemptOrSlow == worker.attempt >= MaxAttempts \/ worker.spent >= Timeout

LastAttempt == worker.attempt >= MaxAttempts

Copy(e, late) == [event |-> e, late |-> late]

Taken(ep, copy) == received' = [received EXCEPT ![ep] = Append(@, copy)]

Attempt(ep) == [event |-> worker.job, endpoint |-> ep, attempt |-> worker.attempt]

Fail(spent) == worker' = [worker EXCEPT !.pc = IF LastAttempt THEN "record" ELSE "wait",
                                        !.status = "failed", !.spent = spent]

\* One POST.  A 2xx ends the sequence.  A failure goes on to the backoff: an error
\* at once, or no reply in time.  A slow endpoint may have taken the event before
\* the error, and one it never answered it takes whenever it gets to it, or never.
Deliver ==
  /\ At("deliver")
  /\ \E ep \in worker.ep :
       \/ /\ Taken(ep, Copy(worker.job, FALSE)) /\ UNCHANGED wire
          /\ worker' = [worker EXCEPT !.pc = "record", !.status = "delivered"]
       \/ /\ \/ UNCHANGED received
             \/ ep \in Slow /\ Taken(ep, Copy(worker.job, FALSE))
          /\ Fail(worker.spent)
          /\ UNCHANGED wire
       \/ /\ ep \in Slow
          /\ wire' = IF Cardinality(wire) < MaxLate THEN wire \cup {Attempt(ep)} ELSE wire
          /\ Fail(Until(Timeout))
          /\ UNCHANGED received
  /\ UNCHANGED <<registered, queue, type, dropped, running, deliveries, offered, crashes>>

\* Slip: an event that failed goes behind the ones that wait.
RequeueOnFailure ==
  /\ At("wait")
  /\ queue' = Append(queue, worker.job)
  /\ worker' = IdleWorker
  /\ UNCHANGED <<registered, type, dropped, running, outside, deliveries, offered, crashes>>

\* The budget left decides the select between ctx.Done and time.After.
AfterBackoff ==
  LET gaveUp == [worker EXCEPT !.pc = "record"]
      retry  == [worker EXCEPT !.pc = "deliver", !.attempt = @ + 1, !.spent = @ + RetryBackoff]
  IN CASE worker.spent + RetryBackoff < DeliveryBudget -> {retry}
       [] worker.spent + RetryBackoff = DeliveryBudget -> {retry, gaveUp}
       [] OTHER -> {gaveUp}

Backoff ==
  /\ At("wait")
  /\ worker' \in AfterBackoff
  /\ UNCHANGED <<registered, queue, type, dropped, running, outside, deliveries, offered, crashes>>

Outcome(ep) == [endpoint |-> ep, event |-> worker.job, status |-> worker.status,
                attempts |-> worker.attempt]

\* Slip: a failure is not recorded.
RecordSuccess ==
  /\ At("record")
  /\ deliveries' = deliveries \cup {Outcome(ep) : ep \in {e \in worker.ep : worker.status = "delivered"}}
  /\ worker' = [IdleWorker EXCEPT !.pc = "next", !.job = worker.job, !.todo = worker.todo]
  /\ UNCHANGED <<registered, queue, type, dropped, running, outside, offered, crashes>>

\* RecordWebhookDelivery; its failure is only logged.
Record ==
  /\ At("record")
  /\ \/ deliveries' = deliveries \cup {Outcome(ep) : ep \in worker.ep} /\ UNCHANGED offered
     \/ /\ StoreFaults
        /\ offered' = offered \ {<<worker.job, ep>> : ep \in worker.ep}
        /\ UNCHANGED deliveries
  /\ worker' = [IdleWorker EXCEPT !.pc = "next", !.job = worker.job, !.todo = worker.todo]
  /\ UNCHANGED <<registered, queue, type, dropped, running, outside, crashes>>

Work == \/ Receive \/ ListEndpoints \/ NextEndpoint \/ Deliver \/ Backoff \/ Record

-----------------------------------------------------------------------------
\* A consumer gets to an attempt that the worker has given up on.
LateArrival ==
  /\ \E a \in wire : Taken(a.endpoint, Copy(a.event, TRUE)) /\ wire' = wire \ {a}
  /\ UNCHANGED <<registered, queue, type, dropped, running, worker, deliveries, offered, crashes>>

\* The process dies: the channel and the worker are memory, the tables are not.
\* What was being delivered is not offered again.
Crash ==
  /\ crashes < MaxCrashes
  /\ crashes' = crashes + 1
  /\ queue' = <<>>
  /\ worker' = IdleWorker
  /\ running' = FALSE
  /\ offered' = {o \in offered : \E d \in deliveries : d.event = o[1] /\ d.endpoint = o[2]}
  /\ UNCHANGED <<registered, type, dropped, outside, deliveries>>

Init ==
  /\ registered = {}
  /\ queue = <<>>
  /\ type = <<>>
  /\ dropped = {}
  /\ running = FALSE
  /\ worker = IdleWorker
  /\ received = [ep \in Endpoints |-> <<>>]
  /\ wire = {}
  /\ deliveries = {}
  /\ offered = {}
  /\ crashes = 0

Next ==
  \/ \E ep \in Endpoints : CreateWebhook(ep)
  \/ \E t \in Types : Emit(t)
  \/ Work
  \/ LateArrival
  \/ Crash

Spec == Init /\ [][Next]_vars

\* The worker goroutine is scheduled, and each of its waits is bounded by a
\* timeout.
FairSpec == Spec /\ WF_vars(Work)

-----------------------------------------------------------------------------
(* Properties. *)

Copies == [event : Events, late : BOOLEAN]

Attempts == [event : Events, endpoint : Endpoints, attempt : 1 .. MaxAttempts]

TypeOK ==
  /\ registered \subseteq Endpoints
  /\ queue \in Seq(Events)
  /\ type \in Seq(Types)
  /\ dropped \subseteq Events
  /\ running \in BOOLEAN
  /\ worker \in [pc : WorkerPCs, job : Nat, todo : SUBSET Endpoints, ep : SUBSET Endpoints,
                 attempt : Nat, spent : Nat, status : {"none", "delivered", "failed"}]
  /\ received \in [Endpoints -> Seq(Copies)]
  /\ wire \subseteq Attempts
  /\ deliveries \subseteq [endpoint : Endpoints, event : Events, status : {"delivered", "failed"},
                           attempts : 1 .. MaxAttempts]
  /\ offered \subseteq Events \X Endpoints
  /\ crashes \in Nat

\* "A single worker keeps ordering": an endpoint receives an event after one that
\* was emitted later only when it gets to an attempt it had not answered in time.
\* Retries, restarts and drops only repeat or omit.
Ordered ==
  \A ep \in Endpoints : \A j, k \in 1 .. Len(received[ep]) :
    j <= k /\ ~received[ep][k].late => received[ep][j].event <= received[ep][k].event

\* When the worker is idle every event it took has one recorded outcome for
\* each endpoint subscribed to it: none is forgotten between two retries.
EachRecordedOnce ==
  At("idle") =>
    \A o \in offered :
      Cardinality({d \in deliveries : d.event = o[1] /\ d.endpoint = o[2]}) = 1

\* What the log says of a delivery is so: delivered means received, failed means
\* tried MaxAttempts times however slow the endpoint (the policy fits its budget),
\* and an endpoint receives an event, early or late, at most as often as it was
\* attempted.
LogIsTrue ==
  \A d \in deliveries :
    LET copies == Cardinality({k \in 1 .. Len(received[d.endpoint]) :
                                 received[d.endpoint][k].event = d.event})
    IN  /\ d.status = "delivered" => copies >= 1
        /\ d.status = "failed" => d.attempts = MaxAttempts
        /\ copies <= d.attempts

\* The dispatcher is a relay: the worker's job and the channel are what waits,
\* the log is what was reported.
R == INSTANCE Relay WITH
       pending  <- (IF At("idle") THEN <<>> ELSE <<worker.job>>) \o queue,
       begun    <- worker.pc \notin {"idle", "list"},
       due      <- worker.todo \cup worker.ep,
       reported <- {<<d.event, d.endpoint>> : d \in deliveries}

\* Whatever endpoints, retries, statements and restarts do, events are dealt with
\* one at a time in the order they were emitted, dropped only when the channel is
\* full, and none ends before every endpoint due has had its turn.
Relayed == R!RelaySpec

\* Every event that was queued is dealt with, whatever its endpoints do, unless the
\* process dies first: events end (MaxEvents), so the worker comes to wait beside an
\* empty channel.
EventuallyHandled == (queue # <<>>) ~> (queue = <<>> /\ At("idle"))
=============================================================================
