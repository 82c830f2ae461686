---------------------------- MODULE NodeRegistry ----------------------------
(***************************************************************************)
(* The panel's record of a node and the node daemon it stands for: the     *)
(* handlers registerNode, updateNode (a PATCH), updateNodeConfig,          *)
(* nodeHealth and coreLifecycle.  Several rows may name the same daemon:   *)
(* nothing makes the address unique.  Of the sales on a node only the      *)
(* foreign key is here: it forbids deleting the row.  Deleting a node on   *)
(* request is in Provisioning.                                             *)
(***************************************************************************)
EXTENDS Naturals

CONSTANTS
  Ids,          \* the UUIDs drawn for node rows
  Requests,     \* request goroutines that may be in flight at once
  Ops,          \* the kinds of request each of them serves
  Fields,       \* columns a PATCH may set: name, address, port, keys, certificate, notes
  Ports,        \* those among them that hold a port: grpc_port
  Values,       \* what they may hold
  Forms,        \* what a registration may give them
  Configs,      \* Xray configs
  StoreFaults,  \* may a SQL statement fail
  MaxRequests,  \* bound: requests received
  MaxFaults,    \* bound: faults and lapses together
  MaxCrashes    \* bound: panel restarts

ASSUME BoundsAssumption == MaxRequests \in Nat /\ MaxFaults \in Nat /\ MaxCrashes \in Nat

AllOps == {"register", "patch", "push", "probe", "core"}

ASSUME ScopeAssumption ==
  Ops \in [Requests -> SUBSET AllOps] /\ StoreFaults \in BOOLEAN
  /\ Ports \subseteq Fields /\ Forms \subseteq [Fields -> Values]

VARIABLES
  row,       \* the nodes table, by id
  sold,      \* nodes that a subscription names
  daemon,    \* the node: its running config, and is its core up
  late,      \* configs on their way to the node whose senders have given up
  unsure,    \* the panel cannot know what the node runs: see the actions that set it
  req,       \* the request goroutines
  drawn,     \* UUIDs drawn
  rejected,  \* registrations answered 502
  faults,    \* node calls that failed although the node is up
  lapses,    \* statements that failed
  arrived, crashes

database == <<row, lapses>>
running == <<daemon, late, unsure>>
node == <<running, faults>>
rest == <<sold, arrived, crashes>>
vars == <<row, sold, daemon, late, unsure, req, drawn, rejected, faults, lapses, arrived, crashes>>

NoConfig == "none"

NoRow == [fields |-> <<>>, config |-> NoConfig, status |-> "none"]

Rows == [fields : [Fields -> Values], config : Configs \cup {NoConfig},
         status : {"unknown", "online", "offline"}]

Present == {i \in Ids : row[i] # NoRow}

\* A port of zero or less.
NotAPort == "not a port"

\* A PATCH body: the fields it does not omit.
Patches == {patch \in UNION {[F -> Values \cup {NotAPort}] : F \in (SUBSET Fields) \ {{}}} :
              \A f \in DOMAIN patch \ Ports : patch[f] # NotAPort}

\* The fields a body sets.
Sets(patch) == {f \in DOMAIN patch : patch[f] # NotAPort}

\* Slip: an omitted field is taken for an empty one.
PickedOrBlank(patch, current) ==
  [f \in Fields |-> IF f \in Sets(patch) THEN patch[f] ELSE CHOOSE v \in Values : TRUE]

\* pick: the body's value when it is there, the current one otherwise.
Picked(patch, current) ==
  [f \in Fields |-> IF f \in Sets(patch) THEN patch[f] ELSE current[f]]

PCs == {"idle", "insert", "apply", "rollback", "read", "write", "push", "store", "probe", "health", "core"}

Idle == [pc |-> "idle", op |-> "none", ids |-> {}, patch |-> <<>>, fields |-> <<>>,
         config |-> NoConfig, seen |-> "none"]

At(r, pc) == req[r].pc = pc

Go(r, pc) == req' = [req EXCEPT ![r].pc = pc]

Answer(r) == req' = [req EXCEPT ![r] = Idle]

\* Slip: INSERT OR REPLACE.
Upsert(i, rw) == row' = [row EXCEPT ![i] = rw]

\* UPDATE nodes ... WHERE id = ?: nothing happens to a row that is gone.
Update(i, rw) == row' = IF i \in Present THEN [row EXCEPT ![i] = rw] ELSE row

StatementFails == StoreFaults /\ faults + lapses < MaxFaults /\ lapses' = lapses + 1 /\ UNCHANGED row

-----------------------------------------------------------------------------
(* Requests arrive. *)

Receive(r, state) ==
  /\ At(r, "idle")
  /\ arrived < MaxRequests
  /\ arrived' = arrived + 1
  /\ req' = [req EXCEPT ![r] = state]
  /\ UNCHANGED <<database, node, sold, rejected, crashes>>

\* With a config or without one, and with the certificate that was given or
\* fetched on first use.
ReceiveRegister(r) ==
  /\ "register" \in Ops[r]
  /\ \E i \in Ids \ drawn, fields \in Forms, config \in Configs \cup {NoConfig} :
       /\ Receive(r, [Idle EXCEPT !.pc = "insert", !.op = "register", !.ids = {i},
                                  !.fields = fields, !.config = config])
       /\ drawn' = drawn \cup {i}

ReceivePatch(r) ==
  /\ "patch" \in Ops[r]
  /\ \E i \in Present, patch \in Patches :
       Receive(r, [Idle EXCEPT !.pc = "read", !.op = "patch", !.ids = {i}, !.patch = patch])
  /\ UNCHANGED drawn

ReceivePush(r) ==
  /\ "push" \in Ops[r]
  /\ \E i \in Present, config \in Configs :
       Receive(r, [Idle EXCEPT !.pc = "push", !.op = "push", !.ids = {i}, !.config = config])
  /\ UNCHANGED drawn

ReceiveProbe(r) ==
  /\ "probe" \in Ops[r]
  /\ \E i \in Present : Receive(r, [Idle EXCEPT !.pc = "probe", !.op = "probe", !.ids = {i}])
  /\ UNCHANGED drawn

ReceiveCore(r) ==
  /\ "core" \in Ops[r]
  /\ \E i \in Present : Receive(r, [Idle EXCEPT !.pc = "core", !.op = "core", !.ids = {i}])
  /\ UNCHANGED drawn

-----------------------------------------------------------------------------
(* registerNode. *)

InsertNode(r) ==
  /\ At(r, "insert")
  /\ \/ /\ \E i \in req[r].ids :
               row' = [row EXCEPT ![i] = [fields |-> req[r].fields, config |-> req[r].config,
                                          status |-> "unknown"]]
        /\ Go(r, IF req[r].config = NoConfig THEN "probe" ELSE "apply")
        /\ UNCHANGED lapses
     \/ StatementFails /\ Answer(r)
  /\ UNCHANGED <<node, drawn, rejected, rest>>

\* Somebody else has the row of r between node and table, or has had it since: what
\* r finds or leaves there need not be what the node is given.
Contended(r) ==
  \/ \E q \in Requests \ {r} :
       req[q].ids = req[r].ids /\ req[q].pc \in {"apply", "rollback", "store"}
  \/ \E i \in req[r].ids : i \notin Present \/ (At(r, "apply") /\ row[i].config # req[r].config)

Takes(config) == daemon.up /\ daemon' = [daemon EXCEPT !.config = config]

\* A call of ApplyConfig: the node takes the config and answers,
Accepted(r) == Takes(req[r].config) /\ unsure' = Contended(r) /\ UNCHANGED <<late, faults>>

\* or does not answer in time: it has taken the config, or will when it gets to it,
Unanswered(r) ==
  /\ faults + lapses < MaxFaults /\ faults' = faults + 1
  /\ \/ Takes(req[r].config) /\ unsure' = TRUE /\ UNCHANGED late
     \/ late' = late \cup {req[r].config} /\ UNCHANGED <<daemon, unsure>>

\* or takes nothing.
Refused ==
  /\ \/ ~daemon.up /\ UNCHANGED faults
     \/ faults + lapses < MaxFaults /\ faults' = faults + 1
  /\ UNCHANGED running

\* The call's error.
CallFails(r) == Refused \/ Unanswered(r)

ApplyConfig(r) ==
  /\ At(r, "apply")
  /\ \/ Accepted(r) /\ Go(r, "probe")
     \/ CallFails(r) /\ Go(r, "rollback")
  /\ UNCHANGED <<database, drawn, rejected, rest>>

\* The node took nothing that the panel knows of: its row goes, unless a subscription
\* names it, and the answer is 502; a rollback that fails is only logged.
RollbackNode(r) ==
  /\ At(r, "rollback")
  /\ \/ /\ row' = [i \in Ids |-> IF i \in req[r].ids \ sold THEN NoRow ELSE row[i]]
        /\ UNCHANGED lapses
     \/ StatementFails
  /\ rejected' = rejected \cup req[r].ids
  /\ Answer(r)
  /\ UNCHANGED <<node, drawn, rest>>

-----------------------------------------------------------------------------
(* updateNode: store.UpdateNode reads the row, then writes every column. *)

PatchRead(r) ==
  /\ At(r, "read")
  /\ \/ /\ \E i \in req[r].ids :
               IF i \in Present
               THEN req' = [req EXCEPT ![r].pc = "write",
                                       ![r].fields = Picked(req[r].patch, row[i].fields)]
               ELSE Answer(r)
        /\ UNCHANGED database
     \/ StatementFails /\ Answer(r)
  /\ UNCHANGED <<node, drawn, rejected, rest>>

PatchWrite(r) ==
  /\ At(r, "write")
  /\ \/ \E i \in req[r].ids : Update(i, [row[i] EXCEPT !.fields = req[r].fields]) /\ UNCHANGED lapses
     \/ StatementFails
  /\ Answer(r)
  /\ UNCHANGED <<node, drawn, rejected, rest>>

-----------------------------------------------------------------------------
(* updateNodeConfig: the node first, then the row; an error stores nothing. *)

\* Slip: the config is stored although the node refused it.
PushUnchecked(r) ==
  /\ At(r, "push")
  /\ Accepted(r) \/ CallFails(r)
  /\ Go(r, "store")
  /\ UNCHANGED <<database, drawn, rejected, rest>>

PushConfig(r) ==
  /\ At(r, "push")
  /\ \/ Accepted(r) /\ Go(r, "store")
     \/ CallFails(r) /\ Answer(r)
  /\ UNCHANGED <<database, drawn, rejected, rest>>

\* The node runs the config of r, and its row does not have it yet.
Unstored(r) == At(r, "store") /\ req[r].config = daemon.config

StoreConfig(r) ==
  /\ At(r, "store")
  /\ \/ /\ \E i \in req[r].ids : Update(i, [row[i] EXCEPT !.config = req[r].config])
        /\ Go(r, "probe")
        /\ UNCHANGED <<lapses, unsure>>
     \/ StatementFails /\ Answer(r) /\ unsure' = (unsure \/ Unstored(r))
  /\ UNCHANGED <<daemon, late, faults, drawn, rejected, rest>>

-----------------------------------------------------------------------------
(* Health: probed after a registration or a push, and on request; a push does *)
(* not record that the node is offline.                                       *)

Probe(r) ==
  /\ At(r, "probe")
  /\ \/ daemon.up /\ UNCHANGED node
        /\ req' = [req EXCEPT ![r].pc = "health", ![r].seen = "online"]
     \/ Refused
        /\ IF req[r].op = "push" THEN Answer(r)
           ELSE req' = [req EXCEPT ![r].pc = "health", ![r].seen = "offline"]
  /\ UNCHANGED <<database, drawn, rejected, rest>>

RecordHealth(r) ==
  /\ At(r, "health")
  /\ \/ \E i \in req[r].ids : Update(i, [row[i] EXCEPT !.status = req[r].seen]) /\ UNCHANGED lapses
     \/ StatementFails
  /\ Answer(r)
  /\ UNCHANGED <<node, drawn, rejected, rest>>

\* coreLifecycle, setXrayVersion and updateNodeBinary pass the request on: the
\* node restarts, or refuses, and no row changes.
CoreCall(r) ==
  /\ At(r, "core")
  /\ UNCHANGED node \/ Refused
  /\ Answer(r)
  /\ UNCHANGED <<database, drawn, rejected, rest>>

-----------------------------------------------------------------------------
\* createSubscription, on any row the node list shows: the node makes the tenant
\* and the INSERT names the row.
Sell(i) ==
  /\ i \in Present \ sold /\ daemon.up
  /\ sold' = sold \cup {i}
  /\ UNCHANGED <<database, node, req, drawn, rejected, arrived, crashes>>

NodeGoesDown == daemon.up /\ daemon' = [daemon EXCEPT !.up = FALSE]

NodeComesUp == ~daemon.up /\ daemon' = [daemon EXCEPT !.up = TRUE]

Outage ==
  /\ NodeGoesDown \/ NodeComesUp
  /\ UNCHANGED <<database, late, unsure, req, drawn, rejected, faults, rest>>

\* The node gets to a config whose sender has given up.
LateArrival ==
  /\ \E config \in late : Takes(config) /\ late' = late \ {config}
  /\ unsure' = TRUE
  /\ UNCHANGED <<database, req, drawn, rejected, faults, rest>>

Crash ==
  /\ crashes < MaxCrashes
  /\ crashes' = crashes + 1
  /\ req' = [r \in Requests |-> Idle]
  /\ unsure' = (unsure \/ \E r \in Requests : Unstored(r))
  /\ UNCHANGED <<database, daemon, late, faults, sold, drawn, rejected, arrived>>

Init ==
  /\ row = [i \in Ids |-> NoRow]
  /\ daemon = [up |-> TRUE, config |-> NoConfig] /\ late = {} /\ unsure = FALSE
  /\ req = [r \in Requests |-> Idle]
  /\ sold = {} /\ drawn = {} /\ rejected = {}
  /\ faults = 0 /\ lapses = 0 /\ arrived = 0 /\ crashes = 0

Arrive(r) == \/ ReceiveRegister(r) \/ ReceivePatch(r) \/ ReceivePush(r) \/ ReceiveProbe(r)
             \/ ReceiveCore(r)

Handle(r) == \/ InsertNode(r) \/ ApplyConfig(r) \/ RollbackNode(r)
             \/ PatchRead(r) \/ PatchWrite(r)
             \/ PushConfig(r) \/ StoreConfig(r)
             \/ Probe(r) \/ RecordHealth(r) \/ CoreCall(r)

Next == \/ \E r \in Requests : Arrive(r) \/ Handle(r)
        \/ \E i \in Ids : Sell(i)
        \/ Outage \/ LateArrival \/ Crash

Spec == Init /\ [][Next]_vars

\* What nothing in the code prevents: two PATCHes of a row between their read and
\* their write.
PatchesApart ==
  \A r, q \in Requests :
    At(r, "write") /\ At(q, "write") /\ req[r].ids = req[q].ids => r = q

ApartSpec == Init /\ [][Next /\ PatchesApart']_vars

-----------------------------------------------------------------------------
(* Properties. *)

Settled == \A r \in Requests : At(r, "idle")

\* A row whose registration was answered 502 is gone, whatever other requests
\* did to it meanwhile: submitting again makes no duplicate.  It stays only if
\* the node was sold on while it registered, or the DELETE failed.
RejectedLeavesNoRow == rejected \cap Present \subseteq sold \/ lapses > 0

\* "An OMITTED field leaves the stored value alone": the write of a PATCH
\* changes no column its body does not name, nor a port its body names with no
\* port.
OmittedKept ==
  [][\A r \in Requests, i \in Present :
       At(r, "write") /\ req'[r].pc = "idle" /\ req[r].ids = {i} =>
         \A f \in Fields \ Sets(req[r].patch) : row'[i].fields[f] = row[i].fields[f]]_vars

\* The stored config is "the last fixed Xray config pushed" to the node: once the
\* handlers are done, some row of the node shows the config it runs, and
\* getNodeConfig may fall back on it. It need not where the panel cannot know or
\* could not write what the node runs: when the node took it for a call that had
\* timed out, when the UPDATE of that push failed or the panel stopped before it, or
\* when another push of the row, or its registration, was between node and row as
\* well. Whatever has parted them, the next push that is answered and has the row to
\* itself makes it so again.
StoredIsRunning ==
  Settled /\ ~unsure /\ daemon.config # NoConfig => \E i \in Present : row[i].config = daemon.config
=============================================================================
