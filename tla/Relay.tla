------------------------------- MODULE Relay --------------------------------
(***************************************************************************)
(* What the webhook dispatcher promises to those who emit events: a lossy  *)
(* first-in first-out relay.  An event is taken or, when enough others     *)
(* wait, dropped; the events taken are dealt with in order, each reported  *)
(* once for every endpoint due; the memory of the process holds them, and  *)
(* a restart loses what waits.  How an endpoint is reached, how often and  *)
(* for how long it is tried is not said here: Dispatcher implements this.  *)
(***************************************************************************)
EXTENDS Naturals, Sequences

CONSTANTS
  Endpoints,    \* webhook endpoints that may be registered
  Types,        \* event names
  Subscription, \* Endpoints -> SUBSET Types
  QueueDepth,
  StoreFaults,  \* may a SQL statement fail
  MaxEvents,    \* bound: events emitted
  MaxCrashes    \* bound: restarts

VARIABLES
  registered,  \* active endpoints
  type,        \* the events emitted so far and their types
  pending,     \* the events taken and not yet dealt with, oldest first
  dropped,     \* the events not taken
  begun,       \* is the oldest one being dealt with
  due,         \* the endpoints it has yet to be reported for
  reported,    \* <<event, endpoint>> pairs with a row in webhook_deliveries
  crashes

relayVars == <<registered, type, pending, dropped, begun, due, reported, crashes>>

Events == 1 .. Len(type)

Register(ep) ==
  /\ ep \notin registered
  /\ registered' = registered \cup {ep}
  /\ UNCHANGED <<type, pending, dropped, begun, due, reported, crashes>>

\* QueueDepth events wait in the channel, besides the one being dealt with.
Take(e) == Len(pending) <= QueueDepth /\ pending' = Append(pending, e) /\ UNCHANGED dropped

Drop(e) == Len(pending) >= QueueDepth /\ dropped' = dropped \cup {e} /\ UNCHANGED pending

Emit(t) ==
  /\ Len(type) < MaxEvents
  /\ type' = Append(type, t)
  /\ Take(Len(type) + 1) \/ Drop(Len(type) + 1)
  /\ UNCHANGED <<registered, begun, due, reported, crashes>>

\* The endpoints are those registered now, whenever the event was emitted.
Begin ==
  /\ pending # <<>> /\ ~begun
  /\ begun' = TRUE
  /\ due' = {ep \in registered : type[Head(pending)] \in Subscription[ep]}
  /\ UNCHANGED <<registered, type, pending, dropped, reported, crashes>>

\* The outcome at one endpoint, whatever it is, is recorded.
Report ==
  /\ \E ep \in due :
       /\ due' = due \ {ep}
       /\ \/ reported' = reported \cup {<<Head(pending), ep>>}
          \/ StoreFaults /\ UNCHANGED reported
  /\ UNCHANGED <<registered, type, pending, dropped, begun, crashes>>

\* Done, or given up before it was begun.
Finish ==
  /\ pending # <<>>
  /\ (begun /\ due = {}) \/ (StoreFaults /\ ~begun)
  /\ pending' = Tail(pending)
  /\ begun' = FALSE
  /\ UNCHANGED <<registered, type, dropped, due, reported, crashes>>

Die ==
  /\ crashes < MaxCrashes
  /\ crashes' = crashes + 1
  /\ pending' = <<>> /\ begun' = FALSE /\ due' = {}
  /\ UNCHANGED <<registered, type, dropped, reported>>

RelayInit ==
  /\ registered = {} /\ type = <<>>
  /\ pending = <<>> /\ dropped = {}
  /\ begun = FALSE /\ due = {} /\ reported = {}
  /\ crashes = 0

Progress == Begin \/ Report \/ Finish

RelayNext ==
  \/ \E ep \in Endpoints : Register(ep)
  \/ \E t \in Types : Emit(t)
  \/ Progress
  \/ Die

RelaySpec == RelayInit /\ [][RelayNext]_relayVars
=============================================================================
