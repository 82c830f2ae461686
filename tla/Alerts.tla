------------------------------- MODULE Alerts -------------------------------
(***************************************************************************)
(* From the node's decision to the consumer's endpoint: the usage          *)
(* collector and the request handlers (Metering) emit events into the      *)
(* webhook dispatcher, taken here for the relay that Dispatcher is shown   *)
(* to implement.  They meet in two places only: Emit, which never waits,   *)
(* and the death of the process, which takes the goroutines of both and    *)
(* the queue between them.                                                 *)
(*                                                                         *)
(* notified_threshold and the status column are written whatever becomes   *)
(* of the event, and rows that are not active are not polled again, so an  *)
(* alert has one chance.  These are the properties of that chance.         *)
(***************************************************************************)
EXTENDS Metering, Sequences

CONSTANTS
  Endpoints,       \* webhook endpoints that may be registered
  Subscription,    \* Endpoints -> sets of event names
  QueueDepth,
  DispatchFaults,  \* may a statement of the dispatcher fail
  MaxEvents        \* bound: events emitted

VARIABLES
  alerts,      \* what each event says
  registered, pending, dropped, begun, due, reported,  \* the relay
  lost,        \* events cut short by a death, or by a failing statement of the dispatcher
  interrupted, \* alerts the panel died before emitting, or before it marked them
  silenced     \* levels put in a row that nobody was told of in the row's period

EventNames == {"usage.threshold", "usage.over_quota", "subscription.suspended",
               "subscription.resumed", "subscription.expired"}

R == INSTANCE Relay WITH
       Types <- EventNames, StoreFaults <- DispatchFaults,
       type <- [k \in 1 .. Len(alerts) |-> alerts[k].name]

relay == <<alerts, registered, pending, dropped, begun, due, reported>>
panel == <<store, node, now, req, coll, events, lastSample, ledger, arrived>>
ghosts == <<lost, interrupted, silenced>>
allVars == <<vars, relay, ghosts>>

-----------------------------------------------------------------------------
(* What is emitted. *)

\* The data of emitUsageEvents.
UsageAlert(notice) ==
  [name |-> IF notice.level >= 100 THEN "usage.over_quota" ELSE "usage.threshold",
   sub |-> notice.sub, period |-> notice.period, quota |-> notice.quota, level |-> notice.level]

StatusName(status) ==
  CASE status = "suspended" -> "subscription.suspended"
    [] status = "active"    -> "subscription.resumed"
    [] status = "expired"   -> "subscription.expired"

\* The data of emitStatusEvent.
StatusAlert(s, status) ==
  [name |-> StatusName(status), sub |-> s, period |-> 0, quota |-> 0, level |-> 0]

Emitted(alert) == alerts' = Append(alerts, alert) /\ R!Emit(alert.name)

\* Status events the collector or a handler is about to emit.
Owed ==
  {StatusAlert(s, coll.view.status) : s \in {t \in coll.sub : CollAt("tell")}}
    \cup UNION {{StatusAlert(s, TargetStatus(req[r].op)) : s \in req[r].subs} :
                  r \in {q \in Requests : At(q, "tell")}}

\* The usage event the collector has emitted and is about to mark.
ToMark == {UsageAlert(NoticeOf(s)) : s \in {t \in coll.sub : CollAt("mark")}}

\* Events the dispatcher holds in memory.
InFlight == {pending[k] : k \in 1 .. Len(pending)}

-----------------------------------------------------------------------------
(* The two components' steps together. *)

Quietly == UNCHANGED <<relay, ghosts>>

\* The step emits nothing, and puts into the rows of subs levels that nobody is told of.
Silencing(subs) ==
  /\ UNCHANGED <<relay, lost, interrupted>>
  /\ silenced' = silenced \cup
       {<<s, row[s].period, row'[s].notified>> : s \in {t \in subs : row'[t].notified # row[t].notified}}

\* The row was renewed after the collector loaded it: the event it has emitted is
\* one of the period before.
LateToMark == {s \in coll.sub : CollAt("mark") /\ coll.snaps[s].period # row[s].period}

\* A top-up puts in the level of the usage it loaded at the new quota.
ToRearm(r) == {s \in req[r].subs : At(r, "rearm")}

\* Slip: the level is marked, but only the lower ones have an event.
NoticeBelowQuota ==
  /\ CollectNotice
  /\ IF coll'.pc = "mark" /\ \A s \in coll.sub : PolledLevel(s) < 100
     THEN \E s \in coll.sub : Emitted(UsageAlert(NoticeOf(s)))
     ELSE UNCHANGED relay
  /\ UNCHANGED ghosts

Notice ==
  /\ CollectNotice
  /\ IF coll'.pc = "mark"
     THEN \E s \in coll.sub : Emitted(UsageAlert(NoticeOf(s)))
     ELSE UNCHANGED relay
  /\ UNCHANGED ghosts

\* Slip: the switch on the status lacks a case.
TellSuspension ==
  /\ CollectTell
  /\ IF coll.view.status = "suspended"
     THEN \E s \in coll.sub : Emitted(StatusAlert(s, coll.view.status))
     ELSE UNCHANGED relay
  /\ UNCHANGED ghosts

TellDecision ==
  /\ CollectTell
  /\ \E s \in coll.sub : Emitted(StatusAlert(s, coll.view.status))
  /\ UNCHANGED ghosts

TellOperation(r) ==
  /\ LifecycleTell(r)
  /\ \E s \in req[r].subs : Emitted(StatusAlert(s, TargetStatus(req[r].op)))
  /\ UNCHANGED ghosts

Collector ==
  \/ /\ CollectList \/ CollectPoll \/ CollectUsage \/ CollectSample \/ CollectMark \/ CollectStatus
     /\ Silencing(LateToMark)
  \/ Notice
  \/ TellDecision

Handler(r) ==
  \/ /\ Topup(r) \/ Renew(r) \/ Toggle(r) \/ LifecycleCall(r) \/ LifecycleStore(r)
     /\ Silencing(ToRearm(r))
  \/ TellOperation(r)

Surroundings ==
  /\ \/ \E r \in Requests : Arrive(r)
     \/ \E s \in Subs : Traffic(s) \/ Enforce(s)
     \/ ServeLate \/ Tick
  /\ Quietly

\* Slip: deliveries use the context of the poll that emitted the event, and are
\* cancelled when it ends.
DispatchInCallersContext ==
  /\ UNCHANGED <<panel, alerts, ghosts>>
  /\ IF CollAt("idle") /\ pending # <<>>
     THEN /\ pending' = Tail(pending) /\ begun' = FALSE /\ due' = {}
          /\ UNCHANGED <<registered, dropped, reported, crashes>>
     ELSE R!Progress

\* A statement failed: the job was given up, or an outcome was not recorded.
GaveUp == (pending' # pending /\ ~begun) \/ (due' # due /\ begun /\ reported' = reported)

Dispatch ==
  /\ UNCHANGED <<panel, alerts, interrupted, silenced>>
  /\ R!Progress
  /\ lost' = lost \cup {e \in InFlight : e = Head(pending) /\ GaveUp}

\* Consumers register before the first event.
RegisterWebhook ==
  /\ alerts = <<>>
  /\ UNCHANGED <<panel, alerts, ghosts>>
  /\ \E ep \in Endpoints : R!Register(ep)

Restart ==
  /\ Crash
  /\ UNCHANGED <<alerts, silenced>>
  /\ R!Die
  /\ lost' = lost \cup InFlight
  /\ interrupted' = interrupted \cup Owed \cup ToMark

AlertsInit ==
  /\ Init
  /\ alerts = <<>>
  /\ R!RelayInit
  /\ lost = {} /\ interrupted = {} /\ silenced = {}

AlertsNext ==
  \/ Collector
  \/ \E r \in Requests : Handler(r)
  \/ Surroundings \/ Dispatch \/ RegisterWebhook \/ Restart

AlertsSpec == AlertsInit /\ [][AlertsNext]_allVars

\* The goroutines are scheduled; Dispatcher shows that no consumer holds its
\* worker at one event for ever.
AlertsFairSpec ==
  /\ AlertsSpec
  /\ WF_allVars(Collector) /\ WF_allVars(Dispatch)
  /\ \A r \in Requests : WF_allVars(Handler(r))

-----------------------------------------------------------------------------
(* Properties. *)

\* Event e reached the log of every endpoint that wants it, or was dropped from a
\* full queue, or was cut short.
Final(e) ==
  \/ e \in dropped \cup lost
  \/ e \notin InFlight /\ \A ep \in registered :
       alerts[e].name \in Subscription[ep] => <<e, ep>> \in reported

\* The alert was emitted and is on its way or final.
Accounted(alert) ==
  \E e \in 1 .. Len(alerts) : alerts[e] = alert /\ (e \in InFlight \/ Final(e))

\* A row shown as expired is not polled again, so its one event is accounted for:
\* about to go out, on its way, in the log of every consumer, dropped from a full
\* queue, or cut short by a death or a failing statement. There is no other way
\* to lose it, in the panel or between panel and dispatcher.
ExpiryReported ==
  \A s \in Subs :
    row[s].status = "expired" =>
      LET alert == StatusAlert(s, "expired")
      IN alert \in Owed \cup interrupted \/ Accounted(alert)

\* notified_threshold silences a level for the rest of the period, so the level in
\* a row is one whose event, of this period, is accounted for, whatever renewals,
\* failures and restarts came between. Two steps silence a level that nobody is
\* told of: the mark of a poll that loaded the row before its renewal, and the
\* re-arming of a top-up (the run has none).
LevelReported ==
  \A s \in Subs :
    row[s].notified # 0 =>
      \/ <<s, row[s].period, row[s].notified>> \in silenced
      \/ \E e \in 1 .. Len(alerts) :
           /\ alerts[e].sub = s /\ alerts[e].period = row[s].period
           /\ alerts[e].level = row[s].notified
           /\ e \in InFlight \/ Final(e)

\* Usage events go out "once each per period" (and quota): the collector repeats
\* one only if the panel died between emitting it and marking the row.
NoticeOnce ==
  [][\A s \in Subs :
       CollAt("notice") /\ coll'.pc = "mark" /\ OnSub(s) =>
         NoticeOf(s) \notin notices \/ UsageAlert(NoticeOf(s)) \in interrupted]_allVars

\* The billing audit trail of a tenant never goes back: a later sample is of a
\* later period, or of the same one with at least as many bytes.
AuditMonotone ==
  [][\A s \in Subs :
       \/ lastSample[s].period < lastSample'[s].period
       \/ /\ lastSample[s].period = lastSample'[s].period
          /\ lastSample[s].used <= lastSample'[s].used]_allVars

\* And the event of an expiry gets somewhere: it does not stay on its way.
ExpiryReaches ==
  \A s \in Subs :
    row[s].status = "expired" ~>
      \/ StatusAlert(s, "expired") \in interrupted
      \/ \E e \in 1 .. Len(alerts) : alerts[e] = StatusAlert(s, "expired") /\ Final(e)
=============================================================================
