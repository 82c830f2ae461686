----------------------------- MODULE Deadlines ------------------------------
(***************************************************************************)
(* The deadlines a request to the panel runs under.  They are nested: the  *)
(* route group's middleware bounds the request, the handler derives a      *)
(* context of its own from it, and each call to a node has the timeout of  *)
(* its HTTP client; the earliest wins.  Two things stand outside: the TLS  *)
(* dial that fetches a node's certificate, and the rollback of a sale.     *)
(*                                                                         *)
(* One request, from its arrival to its answer, in seconds.  The group's   *)
(* deadline runs from the arrival, the handler's own from when its body is *)
(* read and its rows are loaded; the statements after that take no time.   *)
(***************************************************************************)
EXTENDS Naturals, Sequences

CONSTANTS
  Operations,   \* requests that may arrive
  Holdings,     \* subscriptions of a customer
  Preparation,  \* a body is read and its rows are loaded within this
  SwapTime,     \* a node downloads and restarts within this
  PromptProbe   \* a node that is up answers a probe within this

AllOperations ==
  {"createSubscription", "registerNode", "nodeHealth", "coreLifecycle", "updateNodeConfig",
   "setXrayVersion", "updateNodeBinary", "topupQuota", "renewSubscription",
   "subscriptionLifecycle", "deleteSubscription", "deleteCustomer", "toggleCustomer",
   "getNodeConfig", "resolveInbounds", "subPage"}

ASSUME DeadlinesAssumption ==
  /\ Operations \subseteq AllOperations
  /\ Holdings \in Nat \ {0} /\ Preparation \in Nat /\ SwapTime \in Nat /\ PromptProbe \in Nat

VARIABLES
  clock,     \* seconds since the request arrived
  request,   \* the handler
  gone,      \* has the client disconnected, which cancels the request's context
  swap,      \* seconds the node has been swapping its binary, or Never
  last       \* how the last call to the node ended

vars == <<clock, request, gone, swap, last>>

-----------------------------------------------------------------------------
(* The deadlines. *)

Never == 1000

LongOps == {"setXrayVersion", "updateNodeBinary"}

\* Slip: the long group sits inside the default one.
GroupNested(op) == IF op = "subPage" THEN Never ELSE 30

\* defaultRequestTimeout, longNodeOpTimeout, or no group.
Group(op) == IF op \in LongOps THEN 200 ELSE IF op = "subPage" THEN Never ELSE 30

\* Slip: registration is given the 15s of the other calls.
OwnShort(op) ==
  CASE op \in LongOps -> 190
    [] op \in {"coreLifecycle", "updateNodeConfig", "deleteCustomer", "toggleCustomer"} -> 30
    [] op = "createSubscription" -> 20
    [] op = "subPage" -> 12
    [] OTHER -> 15

\* The handler's context.WithTimeout.
Own(op) ==
  CASE op \in LongOps -> 190
    [] op \in {"coreLifecycle", "updateNodeConfig", "deleteCustomer", "toggleCustomer"} -> 30
    [] op \in {"createSubscription", "registerNode"} -> 20
    [] op = "subPage" -> 12
    [] OTHER -> 15

\* The http.Client of the node client; postLong has its own.
Client(op) == IF op \in LongOps THEN 180 ELSE 15

Dial == 10

Rollback == 15

-----------------------------------------------------------------------------
(* The handlers, as sequences of calls to nodes. *)

Calls(op) ==
  CASE op = "registerNode"      -> <<"config", "health">>
    [] op = "updateNodeConfig"  -> <<"config", "health">>
    [] op = "nodeHealth"        -> <<"health">>
    [] op = "topupQuota"        -> <<"quota", "resume">>
    [] op = "renewSubscription" -> <<"reset", "quota">>
    [] op \in {"deleteCustomer", "toggleCustomer"} -> [k \in 1 .. Holdings |-> "tenant"]
    [] OTHER -> <<"call">>

CallNames == {"config", "health", "quota", "resume", "reset", "tenant", "call", "rollback"}

PCs == {"idle", "prepare", "dial", "call", "rollback", "done"}

NoRequest == [op |-> "none", pc |-> "idle", ready |-> 0, own |-> 0, call |-> 0, since |-> 0]

NoCall == [name |-> "none", ended |-> "none", took |-> 0, by |-> {}]

InCall == request.pc \in {"call", "rollback"}

CallName == IF request.pc = "rollback" THEN "rollback" ELSE Calls(request.op)[request.call]

\* Slip: every call is given a context of its own.
CallNextAfresh(q, k) == [q EXCEPT !.pc = "call", !.call = k, !.since = clock, !.own = clock]

\* Call k of the handler, under the context made before the first.
CallNext(q, k) == [q EXCEPT !.pc = "call", !.call = k, !.since = clock]

\* The context is made when the handler turns to the node.  A registration with
\* no config starts at the probe.
FirstCall(q) ==
  {CallNext([q EXCEPT !.own = clock], k) : k \in IF q.op = "registerNode" THEN {1, 2} ELSE {1}}

\* When each deadline of the request falls due.
Limits == [group  |-> Group(request.op),
           own    |-> request.own + Own(request.op),
           client |-> request.since + Client(request.op)]

\* What cuts the call now.  The rollback of a sale has a background context.
Due ==
  IF request.pc = "rollback"
  THEN IF clock >= request.since + Rollback THEN {"own"} ELSE {}
  ELSE {d \in DOMAIN Limits : clock >= Limits[d]} \cup (IF gone THEN {"gone"} ELSE {})

\* toggleCustomer ignores errors, elsewhere an error ends the request.
GoesOn(ok) ==
  /\ request.pc = "call" /\ request.call < Len(Calls(request.op))
  /\ ok \/ request.op = "toggleCustomer"

\* A sale whose row or key could not be stored.
Unstored(ok) == ok /\ request.pc = "call" /\ request.op = "createSubscription"

AfterCall(ok) ==
  IF GoesOn(ok)
  THEN {CallNext(request, request.call + 1)}
  ELSE {[request EXCEPT !.pc = "done"]} \cup
       (IF Unstored(ok) THEN {[request EXCEPT !.pc = "rollback", !.since = clock]} ELSE {})

Ended(how, by) ==
  last' = [name |-> CallName, ended |-> how, took |-> clock - request.since, by |-> by]

-----------------------------------------------------------------------------
Swapping(q) == IF q.op \in LongOps THEN 0 ELSE Never

Arrive(op) ==
  /\ request.pc = "idle"
  /\ request' = [NoRequest EXCEPT !.op = op, !.pc = "prepare"]
  /\ UNCHANGED <<clock, gone, swap, last>>

\* The body is read and the rows are loaded, or the request is refused for them.
Prepare ==
  /\ request.pc = "prepare"
  /\ LET q == [request EXCEPT !.ready = clock] IN
       \/ /\ request' \in FirstCall(q)
          /\ swap' = Swapping(q)
       \/ /\ q.op = "registerNode"
          /\ request' = [q EXCEPT !.pc = "dial"]
          /\ UNCHANGED swap
       \/ /\ request' = [q EXCEPT !.pc = "done"]
          /\ UNCHANGED swap
  /\ UNCHANGED <<clock, gone, last>>

\* FetchCert: its dial has a timeout, and no context.
DialEnds ==
  /\ request.pc = "dial"
  /\ request' \in FirstCall(request)
  /\ UNCHANGED <<clock, gone, swap, last>>

\* The node replies, with success or an error.  One that updates its own binary may
\* say so and go on: updateNodeBinary answers "updating".
Reply ==
  /\ InCall /\ Due = {}
  /\ \E ok \in BOOLEAN :
       /\ request' \in AfterCall(ok) /\ Ended(IF ok THEN "ok" ELSE "refused", {})
       /\ swap' \in {Never} \cup (IF ok /\ request.op = "updateNodeBinary" THEN {swap} ELSE {})
  /\ UNCHANGED <<clock, gone>>

\* A deadline passes, or the context is cancelled: the node is not told.
Cut ==
  /\ InCall /\ Due # {}
  /\ request' \in AfterCall(FALSE)
  /\ Ended("cut", Due)
  /\ UNCHANGED <<clock, gone, swap>>

\* The client goes away before it has its answer.
Disconnect ==
  /\ request.pc \in {"prepare", "dial", "call", "rollback"} /\ ~gone
  /\ gone' = TRUE
  /\ UNCHANGED <<clock, request, swap, last>>

\* The node ends a swap nobody waits for.
SwapEnds ==
  /\ request.pc = "done" /\ swap # Never
  /\ swap' = Never
  /\ UNCHANGED <<clock, request, gone, last>>

\* Time passes; what is due is not put off.
Second ==
  /\ request.pc \in {"prepare", "dial"} \/ InCall
  /\ request.pc = "prepare" => clock < Preparation
  /\ request.pc = "dial" => clock < request.ready + Dial
  /\ InCall => Due = {}
  /\ swap # SwapTime
  /\ clock' = clock + 1
  /\ swap' = IF swap = Never THEN Never ELSE swap + 1
  /\ UNCHANGED <<request, gone, last>>

Init ==
  /\ clock = 0
  /\ request = NoRequest
  /\ gone = FALSE
  /\ swap = Never
  /\ last = NoCall

Next ==
  \/ \E op \in Operations : Arrive(op)
  \/ Prepare \/ DialEnds \/ Reply \/ Cut \/ Disconnect \/ SwapEnds \/ Second

Spec == Init /\ [][Next]_vars

-----------------------------------------------------------------------------
(* Properties. *)

TypeOK ==
  /\ clock \in Nat /\ gone \in BOOLEAN
  /\ request \in [op : AllOperations \cup {"none"}, pc : PCs, ready : Nat, own : Nat,
                  call : 0 .. Holdings + 2, since : Nat]
  /\ swap \in 0 .. SwapTime \cup {Never}
  /\ last \in [name : CallNames \cup {"none"}, ended : {"none", "ok", "refused", "cut"},
               took : Nat, by : SUBSET {"group", "own", "client", "gone"}]

\* An operator who is told that a long operation failed never has the node mid-swap:
\* they get "their own budget instead of being cut off by the default and retried by
\* an operator onto a node already mid-swap".  The group's 200s leave the client its
\* 180 as long as the body is there within 20.
NoRetryMidSwap == request.pc = "done" /\ ~gone /\ last.ended # "ok" => swap = Never

\* "Probe health so the registration reflects reality": a node is not written
\* down as offline before it has had PromptProbe seconds, although the probe
\* shares its budget with the config pushed before it and the group's with the
\* dial, less the seconds the body took. A disconnected client's probe is cut at once.
ProbeHonest ==
  last.name = "health" /\ last.ended = "cut" /\ ~gone => last.took + request.ready >= PromptProbe

\* "defaultRequestTimeout bounds ordinary API requests", a dial that has no context
\* included, and the calls of a handler share one budget: only the rollback of a
\* sale goes on after it.
OneBudget ==
  InCall =>
    LET rollback == IF request.pc = "rollback" THEN Rollback ELSE 0
        dial     == IF request.op = "registerNode" THEN Dial ELSE 0
    IN /\ clock <= Group(request.op) + rollback
       /\ clock <= request.ready + dial + Own(request.op) + rollback
=============================================================================
