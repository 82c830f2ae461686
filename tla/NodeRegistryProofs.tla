------------------------- MODULE NodeRegistryProofs --------------------------
(***************************************************************************)
(* What is proved of NodeRegistry, for any ids, columns, values and        *)
(* configs, any number of requests at once, and any failures, outages and  *)
(* restarts.                                                               *)
(***************************************************************************)
EXTENDS NodeRegistry, TLAPS

States == [pc : PCs, op : AllOps \cup {"none"}, ids : SUBSET Ids, patch : Patches \cup {<<>>},
           fields : [Fields -> Values] \cup {<<>>}, config : Configs \cup {NoConfig},
           seen : {"none", "online", "offline"}]

TypeOK ==
  /\ row \in [Ids -> Rows \cup {NoRow}]
  /\ sold \subseteq Ids /\ drawn \subseteq Ids /\ rejected \subseteq Ids
  /\ daemon \in [up : BOOLEAN, config : Configs \cup {NoConfig}]
  /\ late \subseteq Configs \cup {NoConfig} /\ unsure \in BOOLEAN
  /\ req \in [Requests -> States]
  /\ faults \in Nat /\ lapses \in Nat /\ arrived \in Nat /\ crashes \in Nat

\* The one row a request is about, and what the request may be by its step.
Busy(r) ==
  /\ \E i \in drawn : req[r].ids = {i}
  /\ req[r].pc \in {"insert", "write"} => req[r].fields \in [Fields -> Values]
  /\ req[r].pc = "read" => req[r].patch \in Patches
  /\ req[r].pc = "health" => req[r].seen \in {"online", "offline"}

RequestsOK == \A r \in Requests : req[r] = Idle \/ (~At(r, "idle") /\ Busy(r))

\* A row about to be inserted is nobody else's, and ids are not drawn twice.
FreshOK ==
  /\ Present \subseteq drawn /\ rejected \subseteq drawn
  /\ \A r \in Requests : At(r, "insert") =>
       /\ req[r].ids \cap (Present \cup rejected) = {}
       /\ \A q \in Requests \ {r} : req[r].ids \cap req[q].ids = {}

RegistryInv == TypeOK /\ RequestsOK /\ FreshOK

-----------------------------------------------------------------------------
(* What steps do. *)

LEMMA IdleTyped == Idle \in States /\ Idle.pc = "idle" /\ Idle.ids = {}
BY DEF Idle, States, PCs

\* A row is one that is there.
LEMMA PresentRows ==
  ASSUME TypeOK, NEW i \in Ids
  PROVE  /\ i \in Present => row[i] \in Rows
         /\ i \notin Present => row[i] = NoRow
         /\ \A rw \in Rows : rw # NoRow
<1>1. ASSUME NEW rw \in Rows PROVE rw # NoRow
  BY DEF Rows, NoRow
<1> QED BY <1>1 DEF TypeOK, Present

\* From one step of a handler to the next.
Moves == {<<"insert", "probe">>, <<"insert", "apply">>, <<"apply", "probe">>, <<"apply", "rollback">>,
          <<"read", "write">>, <<"push", "store">>, <<"store", "probe">>, <<"probe", "health">>}

\* A handler's step moves its own request, or answers it.
Moved(r) ==
  /\ \A q \in Requests \ {r} : req'[q] = req[q]
  /\ req' \in [Requests -> States]
  /\ \/ req'[r] = Idle
     \/ /\ <<req[r].pc, req'[r].pc>> \in Moves
        /\ req'[r].ids = req[r].ids /\ req'[r].op = req[r].op
        /\ req'[r].config = req[r].config /\ req'[r].patch = req[r].patch
        /\ req'[r].pc = "health" => req'[r].seen \in {"online", "offline"}

LEMMA GoMoves ==
  ASSUME TypeOK, NEW r \in Requests, NEW pc \in PCs, <<req[r].pc, pc>> \in Moves, pc # "health",
         Go(r, pc)
  PROVE  Moved(r) /\ req'[r] = [req[r] EXCEPT !.pc = pc]
<1>1. req[r] \in States
  BY DEF TypeOK
<1>2. /\ [req[r] EXCEPT !.pc = pc] \in States
      /\ req' = [req EXCEPT ![r] = [req[r] EXCEPT !.pc = pc]]
  BY <1>1 DEF States, Go
<1> QED BY <1>1, <1>2 DEF Moved, TypeOK, States

LEMMA AnswerMoves == ASSUME TypeOK, NEW r \in Requests, Answer(r) PROVE Moved(r) /\ req'[r] = Idle
BY IdleTyped DEF Answer, Moved, TypeOK

LEMMA PickedTyped ==
  ASSUME NEW patch \in Patches, NEW current \in [Fields -> Values]
  PROVE  /\ Picked(patch, current) \in [Fields -> Values]
         /\ \A f \in Fields \ Sets(patch) : Picked(patch, current)[f] = current[f]
<1>1. PICK F \in SUBSET Fields : patch \in [F -> Values \cup {NotAPort}]
  BY DEF Patches
<1>2. \A f \in Sets(patch) : patch[f] \in Values
  BY <1>1 DEF Sets
<1> QED BY <1>2 DEF Picked

LEMMA HandleMoves ==
  ASSUME RegistryInv, NEW r \in Requests, Handle(r)
  PROVE  Moved(r) /\ UNCHANGED <<drawn, rest>> /\ Busy(r) /\ ~At(r, "idle")
<1>1. TypeOK /\ req[r] \in States
  BY DEF RegistryInv, TypeOK
<1>2. UNCHANGED <<drawn, rest>>
  BY DEF Handle, InsertNode, ApplyConfig, RollbackNode, PatchRead, PatchWrite, PushConfig, StoreConfig,
         Probe, RecordHealth, CoreCall
<1>3. ~At(r, "idle")
  BY DEF Handle, InsertNode, ApplyConfig, RollbackNode, PatchRead, PatchWrite, PushConfig, StoreConfig,
         Probe, RecordHealth, CoreCall, At
<1>4. Busy(r)
  BY <1>3, IdleTyped DEF RegistryInv, RequestsOK, At
<1>5. Moved(r)
  <2>1. CASE Answer(r)
    BY <1>1, <2>1, AnswerMoves
  <2>2. CASE InsertNode(r)
    BY <1>1, <2>1, <2>2, GoMoves DEF InsertNode, At, Moves, PCs
  <2>3. CASE ApplyConfig(r)
    BY <1>1, <2>3, GoMoves DEF ApplyConfig, At, Moves, PCs
  <2>4. CASE PatchRead(r)
    <3> SUFFICES ASSUME ~Answer(r) PROVE Moved(r)
      BY <2>1
    <3>1. PICK i \in req[r].ids :
            IF i \in Present
            THEN req' = [req EXCEPT ![r].pc = "write", ![r].fields = Picked(req[r].patch, row[i].fields)]
            ELSE Answer(r)
      BY <2>4 DEF PatchRead
    <3>2. CASE i \in Present
      <4>1. row[i].fields \in [Fields -> Values] /\ req[r].patch \in Patches /\ At(r, "read")
        BY <1>1, <1>4, <2>4, <3>2, PresentRows DEF States, Rows, PatchRead, Busy, At
      <4> DEFINE picked == Picked(req[r].patch, row[i].fields)
                 next   == [req[r] EXCEPT !.pc = "write", !.fields = picked]
      <4>2. picked \in [Fields -> Values]
        BY <4>1, PickedTyped
      <4> HIDE DEF picked
      <4>3. req' = [req EXCEPT ![r] = next] /\ next \in States
        BY <1>1, <3>1, <3>2, <4>2 DEF picked, States, PCs
      <4> QED BY <1>1, <4>1, <4>3 DEF Moved, Moves, At, TypeOK, States
    <3> QED BY <3>1, <3>2
  <2>5. CASE PushConfig(r)
    BY <1>1, <2>1, <2>5, GoMoves DEF PushConfig, At, Moves, PCs
  <2>6. CASE StoreConfig(r)
    BY <1>1, <2>1, <2>6, GoMoves DEF StoreConfig, At, Moves, PCs
  <2>7. CASE Probe(r)
    <3>1. ASSUME NEW seen \in {"online", "offline"},
                 req' = [req EXCEPT ![r].pc = "health", ![r].seen = seen]
          PROVE  Moved(r)
      <4> DEFINE next == [req[r] EXCEPT !.pc = "health", !.seen = seen]
      <4>1. req' = [req EXCEPT ![r] = next] /\ next \in States
        BY <1>1, <3>1 DEF States, PCs
      <4> QED BY <1>1, <2>7, <4>1 DEF Moved, Moves, Probe, At, TypeOK, States
    <3> QED BY <2>1, <2>7, <3>1 DEF Probe
  <2> QED BY <2>1, <2>2, <2>3, <2>4, <2>5, <2>6, <2>7
          DEF Handle, RollbackNode, PatchWrite, RecordHealth, CoreCall
<1> QED BY <1>2, <1>3, <1>4, <1>5

\* A handler's step touches one row at most: it inserts it, deletes it, or changes
\* a row that is there, and only a PATCH the fields, a push the config.
Inserts(r, i, rw) ==
  /\ At(r, "insert") /\ row' = [row EXCEPT ![i] = rw]
  /\ rw \in Rows /\ rw.config = req[r].config
  /\ req'[r].pc = IF req[r].config = NoConfig THEN "probe" ELSE "apply"

Deletes(r) ==
  /\ At(r, "rollback")
  /\ row' = [i \in Ids |-> IF i \in req[r].ids \ sold THEN NoRow ELSE row[i]]

Changes(r, i, rw) ==
  /\ row' = [row EXCEPT ![i] = rw] /\ i \in Present /\ rw \in Rows
  /\ \/ At(r, "write") /\ rw.config = row[i].config /\ rw.fields = req[r].fields
     \/ At(r, "store") /\ rw.config = req[r].config /\ rw.fields = row[i].fields
     \/ At(r, "health") /\ rw.config = row[i].config /\ rw.fields = row[i].fields

RowStep(r) ==
  \/ row' = row
  \/ \E i \in req[r].ids, rw \in Rows : Inserts(r, i, rw) \/ Changes(r, i, rw)
  \/ Deletes(r)

LEMMA FailedStatement == StatementFails => row' = row /\ lapses' = lapses + 1
BY DEF StatementFails

LEMMA HandleRows ==
  ASSUME RegistryInv, NEW r \in Requests, Handle(r)
  PROVE  RowStep(r) /\ lapses' \in {lapses, lapses + 1}
<1>1. /\ TypeOK /\ req[r] \in States /\ Busy(r) /\ req[r].ids \subseteq Ids
      /\ \A i \in Present : row[i] \in Rows /\ i \in Ids
  BY HandleMoves, PresentRows DEF RegistryInv, TypeOK, States, Present
<1>2. CASE UNCHANGED database
  BY <1>2 DEF database, RowStep
<1>3. CASE StatementFails
  BY <1>3, FailedStatement DEF RowStep
<1>4. CASE InsertNode(r)
  <2>1. PICK i \in req[r].ids :
          \/ /\ row' = [row EXCEPT ![i] = [fields |-> req[r].fields, config |-> req[r].config,
                                           status |-> "unknown"]]
             /\ Go(r, IF req[r].config = NoConfig THEN "probe" ELSE "apply")
             /\ UNCHANGED lapses
          \/ StatementFails
    BY <1>1, <1>4 DEF InsertNode, Busy
  <2> DEFINE rw == [fields |-> req[r].fields, config |-> req[r].config, status |-> "unknown"]
  <2>2. rw \in Rows /\ rw.config = req[r].config
    BY <1>1, <1>4 DEF Busy, InsertNode, At, States, Rows
  <2>3. CASE row' = [row EXCEPT ![i] = rw] /\ UNCHANGED lapses
             /\ Go(r, IF req[r].config = NoConfig THEN "probe" ELSE "apply")
    <3>1. req'[r].pc = IF req[r].config = NoConfig THEN "probe" ELSE "apply"
      BY <1>1, <2>3 DEF Go, TypeOK, States
    <3>2. At(r, "insert")
      BY <1>4 DEF InsertNode
    <3> HIDE DEF rw
    <3> QED BY <2>2, <2>3, <3>1, <3>2 DEF RowStep, Inserts
  <2> QED BY <1>3, <2>1, <2>3
<1>5. CASE RollbackNode(r)
  BY <1>3, <1>5 DEF RollbackNode, RowStep, Deletes
<1>6. ASSUME NEW i \in req[r].ids, NEW rw, Update(i, rw), UNCHANGED lapses,
             i \in Present => Changes(r, i, rw) \/ row' # [row EXCEPT ![i] = rw]
      PROVE  RowStep(r) /\ lapses' \in {lapses, lapses + 1}
  BY <1>6 DEF Update, RowStep, Changes
<1>7. CASE PatchWrite(r)
  <2>1. StatementFails \/ \E i \in req[r].ids : Update(i, [row[i] EXCEPT !.fields = req[r].fields])
                                               /\ UNCHANGED lapses
    BY <1>7 DEF PatchWrite
  <2>2. ASSUME NEW i \in req[r].ids, Update(i, [row[i] EXCEPT !.fields = req[r].fields]),
               UNCHANGED lapses
        PROVE  RowStep(r) /\ lapses' \in {lapses, lapses + 1}
    <3> DEFINE rw == [row[i] EXCEPT !.fields = req[r].fields]
    <3>1. i \in Present => rw \in Rows /\ rw.config = row[i].config /\ rw.fields = req[r].fields
      BY <1>1, <1>7 DEF PatchWrite, Busy, At, Rows
    <3>2. At(r, "write")
      BY <1>7 DEF PatchWrite
    <3> HIDE DEF rw
    <3> QED BY <1>6, <2>2, <3>1, <3>2 DEF Changes, rw
  <2> QED BY <1>3, <2>1, <2>2
<1>8. CASE StoreConfig(r)
  <2>1. StatementFails \/ \E i \in req[r].ids : Update(i, [row[i] EXCEPT !.config = req[r].config])
                                               /\ UNCHANGED lapses
    BY <1>8 DEF StoreConfig
  <2>2. ASSUME NEW i \in req[r].ids, Update(i, [row[i] EXCEPT !.config = req[r].config]),
               UNCHANGED lapses
        PROVE  RowStep(r) /\ lapses' \in {lapses, lapses + 1}
    <3> DEFINE rw == [row[i] EXCEPT !.config = req[r].config]
    <3>1. i \in Present => rw \in Rows /\ rw.config = req[r].config /\ rw.fields = row[i].fields
      BY <1>1 DEF States, Rows
    <3>2. At(r, "store")
      BY <1>8 DEF StoreConfig
    <3> HIDE DEF rw
    <3> QED BY <1>6, <2>2, <3>1, <3>2 DEF Changes, rw
  <2> QED BY <1>3, <2>1, <2>2
<1>9. CASE RecordHealth(r)
  <2>1. StatementFails \/ \E i \in req[r].ids : Update(i, [row[i] EXCEPT !.status = req[r].seen])
                                               /\ UNCHANGED lapses
    BY <1>9 DEF RecordHealth
  <2>2. ASSUME NEW i \in req[r].ids, Update(i, [row[i] EXCEPT !.status = req[r].seen]),
               UNCHANGED lapses
        PROVE  RowStep(r) /\ lapses' \in {lapses, lapses + 1}
    <3> DEFINE rw == [row[i] EXCEPT !.status = req[r].seen]
    <3>1. i \in Present => rw \in Rows /\ rw.config = row[i].config /\ rw.fields = row[i].fields
      BY <1>1, <1>9 DEF RecordHealth, Busy, At, Rows
    <3>2. At(r, "health")
      BY <1>9 DEF RecordHealth
    <3> HIDE DEF rw
    <3> QED BY <1>6, <2>2, <3>1, <3>2 DEF Changes, rw
  <2> QED BY <1>3, <2>1, <2>2
<1>10. CASE PatchRead(r)
  BY <1>2, <1>3, <1>10 DEF PatchRead
<1> QED BY <1>2, <1>4, <1>5, <1>7, <1>8, <1>9, <1>10
        DEF Handle, ApplyConfig, PushConfig, Probe, CoreCall

\* The node takes the config of r, and r is told so.
Given(r) ==
  /\ req[r].pc \in {"apply", "push"}
  /\ daemon' = [daemon EXCEPT !.config = req[r].config] /\ unsure' = Contended(r)
  /\ row' = row
  /\ req' = [req EXCEPT ![r].pc = IF At(r, "apply") THEN "probe" ELSE "store"]

\* Only a config that is pushed changes what the node runs, and what the panel may
\* know of it.
DaemonStep(r) ==
  \/ Given(r)
  \/ /\ ~(At(r, "push") /\ req'[r].pc = "store")
     /\ \/ daemon' = daemon
        \/ req[r].pc \in {"apply", "push"} /\ daemon' = [daemon EXCEPT !.config = req[r].config]
     /\ unsure' = TRUE \/ (daemon' = daemon /\ unsure' = unsure)

LEMMA HandleDaemon ==
  ASSUME RegistryInv, NEW r \in Requests, Handle(r)
  PROVE  /\ DaemonStep(r) /\ faults' \in {faults, faults + 1}
         /\ late' \in {late, late \cup {req[r].config}}
<1>1. /\ req[r] \in States /\ req \in [Requests -> States] /\ unsure \in BOOLEAN
      /\ \A pc \in PCs : Go(r, pc) => req'[r].pc = pc
      /\ Answer(r) => req'[r].pc = "idle"
  BY IdleTyped DEF RegistryInv, TypeOK, Go, Answer, States
<1>2. CASE UNCHANGED node /\ ~At(r, "push")
  BY <1>2 DEF node, running, DaemonStep
<1>3. CASE CallFails(r) /\ req[r].pc \in {"apply", "push"} /\ req'[r].pc # "store"
  BY <1>3 DEF CallFails, Refused, Unanswered, Takes, running, DaemonStep
<1>4. CASE Refused /\ ~At(r, "push")
  BY <1>4 DEF Refused, running, DaemonStep
<1>5. CASE ApplyConfig(r)
  <2>1. CASE Accepted(r) /\ Go(r, "probe")
    BY <1>5, <2>1 DEF Accepted, Takes, Go, ApplyConfig, database, DaemonStep, Given, At
  <2> QED BY <1>1, <1>3, <1>5, <2>1 DEF ApplyConfig, At, PCs
<1>6. CASE PushConfig(r)
  <2>1. CASE Accepted(r) /\ Go(r, "store")
    BY <1>6, <2>1 DEF Accepted, Takes, Go, PushConfig, database, DaemonStep, Given, At
  <2> QED BY <1>1, <1>3, <1>6, <2>1 DEF PushConfig, At
<1>7. CASE StoreConfig(r)
  BY <1>1, <1>7 DEF StoreConfig, DaemonStep, Unstored, At
<1> QED BY <1>2, <1>4, <1>5, <1>6, <1>7
        DEF Handle, InsertNode, RollbackNode, PatchRead, PatchWrite, Probe, RecordHealth, CoreCall, At

\* A registration is answered 502 when its row is rolled back.
LEMMA HandleRejects ==
  ASSUME NEW r \in Requests, Handle(r)
  PROVE  rejected' = rejected \/ (At(r, "rollback") /\ rejected' = rejected \cup req[r].ids
                                  /\ (Deletes(r) \/ StatementFails))
BY DEF Handle, InsertNode, ApplyConfig, RollbackNode, PatchRead, PatchWrite, PushConfig, StoreConfig,
       Probe, RecordHealth, CoreCall, Deletes

\* A request that arrives is about a row that is there, or draws an id.
Arrived(r) ==
  /\ At(r, "idle") /\ UNCHANGED <<database, node, sold, rejected, crashes>>
  /\ arrived' = arrived + 1
  /\ req' \in [Requests -> States] /\ \A q \in Requests \ {r} : req'[q] = req[q]
  /\ Busy(r)'
  /\ \/ \E i \in Ids \ drawn : req'[r].ids = {i} /\ drawn' = drawn \cup {i} /\ At(r, "insert")'
     \/ \E i \in Present : req'[r].ids = {i} /\ drawn' = drawn
                             /\ req'[r].pc \in {"read", "push", "probe", "core"}

LEMMA ReceiveDoes ==
  ASSUME TypeOK, NEW r \in Requests, NEW state \in States, Receive(r, state)
  PROVE  /\ At(r, "idle") /\ UNCHANGED <<database, node, sold, rejected, crashes>>
         /\ arrived' = arrived + 1
         /\ req' \in [Requests -> States] /\ \A q \in Requests \ {r} : req'[q] = req[q]
         /\ req'[r] = state
BY DEF Receive, TypeOK

LEMMA ArriveDoes == ASSUME RegistryInv, NEW r \in Requests, Arrive(r) PROVE Arrived(r)
<1>1. TypeOK /\ Present \subseteq drawn /\ Present \subseteq Ids
  BY DEF RegistryInv, FreshOK, Present
<1>2. CASE ReceiveRegister(r)
  <2>1. PICK i \in Ids \ drawn, fields \in Forms, config \in Configs \cup {NoConfig} :
          /\ Receive(r, [Idle EXCEPT !.pc = "insert", !.op = "register", !.ids = {i},
                                     !.fields = fields, !.config = config])
          /\ drawn' = drawn \cup {i}
    BY <1>2 DEF ReceiveRegister
  <2> DEFINE state == [Idle EXCEPT !.pc = "insert", !.op = "register", !.ids = {i},
                                   !.fields = fields, !.config = config]
  <2>2. /\ state \in States /\ state.pc = "insert" /\ state.ids = {i}
        /\ state.fields \in [Fields -> Values]
    BY <2>1, ScopeAssumption DEF Idle, States, PCs, AllOps
  <2> HIDE DEF state
  <2>3. req'[r] = state
    BY <1>1, <2>1, <2>2, ReceiveDoes DEF state
  <2>4. Busy(r)'
    BY <1>2, <2>1, <2>2, <2>3 DEF Busy, ReceiveRegister
  <2> QED BY <1>1, <2>1, <2>2, <2>3, <2>4, ReceiveDoes DEF Arrived, At, state
<1>3. ASSUME NEW state \in States, NEW i \in Present, Receive(r, state), drawn' = drawn,
             state.ids = {i}, state.pc \in {"read", "push", "probe", "core"},
             state.pc = "read" => state.patch \in Patches
      PROVE  Arrived(r)
  <2>1. req'[r] = state
    BY <1>1, <1>3, ReceiveDoes
  <2>2. Busy(r)'
    BY <1>1, <1>3, <2>1 DEF Busy
  <2> QED BY <1>1, <1>3, <2>1, <2>2, ReceiveDoes DEF Arrived
<1>4. CASE ReceivePatch(r)
  <2>1. PICK i \in Present, patch \in Patches :
          Receive(r, [Idle EXCEPT !.pc = "read", !.op = "patch", !.ids = {i}, !.patch = patch])
    BY <1>4 DEF ReceivePatch
  <2> DEFINE state == [Idle EXCEPT !.pc = "read", !.op = "patch", !.ids = {i}, !.patch = patch]
  <2>2. state \in States /\ state.pc = "read" /\ state.ids = {i} /\ state.patch = patch
    BY <1>1, <2>1 DEF Idle, States, PCs, AllOps
  <2> HIDE DEF state
  <2> QED BY <1>3, <1>4, <2>1, <2>2 DEF ReceivePatch, state
<1>5. CASE ReceivePush(r)
  <2>1. PICK i \in Present, config \in Configs :
          Receive(r, [Idle EXCEPT !.pc = "push", !.op = "push", !.ids = {i}, !.config = config])
    BY <1>5 DEF ReceivePush
  <2> DEFINE state == [Idle EXCEPT !.pc = "push", !.op = "push", !.ids = {i}, !.config = config]
  <2>2. state \in States /\ state.pc = "push" /\ state.ids = {i}
    BY <1>1, <2>1 DEF Idle, States, PCs, AllOps
  <2> HIDE DEF state
  <2> QED BY <1>3, <1>5, <2>1, <2>2 DEF ReceivePush, state
<1>6. CASE ReceiveProbe(r)
  <2>1. PICK i \in Present : Receive(r, [Idle EXCEPT !.pc = "probe", !.op = "probe", !.ids = {i}])
    BY <1>6 DEF ReceiveProbe
  <2> DEFINE state == [Idle EXCEPT !.pc = "probe", !.op = "probe", !.ids = {i}]
  <2>2. state \in States /\ state.pc = "probe" /\ state.ids = {i}
    BY <1>1, <2>1 DEF Idle, States, PCs, AllOps
  <2> HIDE DEF state
  <2> QED BY <1>3, <1>6, <2>1, <2>2 DEF ReceiveProbe, state
<1>7. CASE ReceiveCore(r)
  <2>1. PICK i \in Present : Receive(r, [Idle EXCEPT !.pc = "core", !.op = "core", !.ids = {i}])
    BY <1>7 DEF ReceiveCore
  <2> DEFINE state == [Idle EXCEPT !.pc = "core", !.op = "core", !.ids = {i}]
  <2>2. state \in States /\ state.pc = "core" /\ state.ids = {i}
    BY <1>1, <2>1 DEF Idle, States, PCs, AllOps
  <2> HIDE DEF state
  <2> QED BY <1>3, <1>7, <2>1, <2>2 DEF ReceiveCore, state
<1> QED BY <1>2, <1>4, <1>5, <1>6, <1>7 DEF Arrive

-----------------------------------------------------------------------------
(* Types, and whose row is whose. *)

LEMMA InitKept == Init => RegistryInv
<1> SUFFICES ASSUME Init PROVE RegistryInv
  OBVIOUS
<1>1. TypeOK
  <2>1. daemon \in [up : BOOLEAN, config : Configs \cup {NoConfig}]
    BY Zenon DEF Init
  <2>2. row \in [Ids -> Rows \cup {NoRow}] /\ req \in [Requests -> States]
    BY IdleTyped DEF Init
  <2> QED BY <2>1, <2>2 DEF Init, TypeOK
<1>2. RequestsOK
  BY DEF Init, RequestsOK
<1>3. FreshOK
  BY IdleTyped DEF Init, FreshOK, Present, At
<1> QED BY <1>1, <1>2, <1>3 DEF RegistryInv

LEMMA ArriveKept == ASSUME RegistryInv, NEW r \in Requests, Arrive(r) PROVE RegistryInv'
<1>1. /\ Arrived(r) /\ TypeOK /\ RequestsOK /\ FreshOK
      /\ UNCHANGED <<row, lapses, daemon, late, unsure, faults, sold, rejected, crashes>>
  BY ArriveDoes DEF RegistryInv, Arrived, database, node, running
<1>2. TypeOK'
  <2>1. drawn' \subseteq Ids
    BY <1>1 DEF TypeOK, Arrived
  <2> QED BY <1>1, <2>1 DEF TypeOK, Arrived
<1>3. drawn \subseteq drawn' /\ Present' = Present
  BY <1>1 DEF Arrived, Present
<1>4. RequestsOK'
  <2>1. ASSUME NEW q \in Requests
        PROVE  (req[q] = Idle \/ (~At(q, "idle") /\ Busy(q)))'
    <3>1. CASE q = r
      BY <1>1, <3>1 DEF Arrived, At
    <3>2. CASE q # r
      BY <1>1, <1>3, <3>2 DEF Arrived, RequestsOK, At, Busy
    <3> QED BY <3>1, <3>2
  <2> QED BY <2>1 DEF RequestsOK
<1>5. FreshOK'
  <2>1. \A q \in Requests : req[q].ids \subseteq drawn
    BY <1>1, IdleTyped DEF RequestsOK, Busy
  <2>2. Present' \subseteq drawn' /\ rejected' \subseteq drawn'
    BY <1>1, <1>3 DEF FreshOK
  <2>3. ASSUME NEW q \in Requests, At(q, "insert")', NEW p \in Requests \ {q}
        PROVE  /\ req'[q].ids \cap (Present' \cup rejected') = {}
               /\ req'[q].ids \cap req'[p].ids = {}
    <3>1. CASE q = r
      <4>1. PICK i \in Ids \ drawn : req'[r].ids = {i}
        BY <1>1, <2>3, <3>1 DEF Arrived, At
      <4>2. req'[p] = req[p] /\ rejected' = rejected
        BY <1>1, <2>3, <3>1 DEF Arrived
      <4> QED BY <1>1, <1>3, <2>1, <3>1, <4>1, <4>2 DEF FreshOK
    <3>2. CASE q # r
      <4>1. req'[q] = req[q] /\ At(q, "insert") /\ rejected' = rejected
        BY <1>1, <2>3, <3>2 DEF Arrived, At
      <4>2. req[q].ids \cap (Present \cup rejected) = {}
            /\ \A o \in Requests \ {q} : req[q].ids \cap req[o].ids = {}
        BY <1>1, <4>1 DEF FreshOK
      <4>3. CASE p = r
        <5>1. PICK i : req'[r].ids = {i} /\ i \in (Ids \ drawn) \cup Present
          BY <1>1 DEF Arrived
        <5>2. i \notin req[q].ids
          BY <2>1, <4>2, <5>1
        <5> QED BY <1>3, <4>1, <4>2, <4>3, <5>1, <5>2
      <4>4. CASE p # r
        <5>1. req'[p] = req[p]
          BY <1>1, <4>4 DEF Arrived
        <5> QED BY <1>3, <2>3, <4>1, <4>2, <5>1
      <4> QED BY <4>3, <4>4
    <3> QED BY <3>1, <3>2
  <2>4. ASSUME NEW q \in Requests, At(q, "insert")'
        PROVE  req'[q].ids \cap (Present' \cup rejected') = {}
    <3>1. CASE q = r
      <4>1. PICK i \in Ids \ drawn : req'[r].ids = {i}
        BY <1>1, <2>4, <3>1 DEF Arrived, At
      <4> QED BY <1>1, <1>3, <3>1, <4>1 DEF FreshOK
    <3>2. CASE q # r
      BY <1>1, <1>3, <2>4, <3>2 DEF Arrived, At, FreshOK
    <3> QED BY <3>1, <3>2
  <2> QED BY <2>2, <2>3, <2>4 DEF FreshOK
<1> QED BY <1>2, <1>4, <1>5 DEF RegistryInv

\* Rows appear only by an INSERT.
LEMMA PresentStep ==
  ASSUME RegistryInv, NEW r \in Requests, Handle(r)
  PROVE  /\ row' \in [Ids -> Rows \cup {NoRow}]
         /\ Present' \subseteq Present \cup req[r].ids
         /\ ~At(r, "insert") => Present' \subseteq Present
<1>1. TypeOK /\ RowStep(r) /\ req[r].ids \subseteq Ids
  BY HandleRows DEF RegistryInv, TypeOK, States
<1>2. CASE row' = row
  BY <1>1, <1>2 DEF TypeOK, Present
<1>3. ASSUME NEW i \in req[r].ids, NEW rw \in Rows, Inserts(r, i, rw)
      PROVE  /\ row' \in [Ids -> Rows \cup {NoRow}]
             /\ Present' \subseteq Present \cup {i}
             /\ At(r, "insert")
  BY <1>1, <1>3 DEF Inserts, TypeOK, Present
<1>4. ASSUME NEW i \in req[r].ids, NEW rw \in Rows, Changes(r, i, rw)
      PROVE  row' \in [Ids -> Rows \cup {NoRow}] /\ Present' \subseteq Present
  BY <1>1, <1>4 DEF Changes, TypeOK, Present
<1>5. CASE Deletes(r)
  BY <1>1, <1>5 DEF Deletes, TypeOK, Present
<1> QED BY <1>1, <1>2, <1>3, <1>4, <1>5 DEF RowStep

LEMMA HandleKept == ASSUME RegistryInv, NEW r \in Requests, Handle(r) PROVE RegistryInv'
<1>1. /\ TypeOK /\ RequestsOK /\ FreshOK /\ Moved(r) /\ Busy(r)
      /\ UNCHANGED <<drawn, sold, arrived, crashes>>
      /\ lapses' \in {lapses, lapses + 1} /\ faults' \in {faults, faults + 1}
      /\ DaemonStep(r) /\ late' \in {late, late \cup {req[r].config}}
  BY HandleMoves, HandleRows, HandleDaemon DEF RegistryInv, rest
<1>2. rejected' = rejected \/ (At(r, "rollback") /\ rejected' = rejected \cup req[r].ids)
  BY HandleRejects
<1>3. req[r].ids \subseteq drawn /\ req[r].ids \subseteq Ids
  BY <1>1 DEF Busy, TypeOK, States
<1>4. TypeOK'
  <2>1. daemon' \in [up : BOOLEAN, config : Configs \cup {NoConfig}]
    BY <1>1 DEF DaemonStep, Given, TypeOK, States
  <2>3. late' \subseteq Configs \cup {NoConfig} /\ unsure' \in BOOLEAN
    BY <1>1 DEF DaemonStep, Given, Contended, TypeOK, States
  <2>2. rejected' \subseteq Ids /\ lapses' \in Nat /\ faults' \in Nat
    BY <1>1, <1>2, <1>3 DEF TypeOK
  <2> QED BY <1>1, <2>1, <2>2, <2>3, PresentStep DEF TypeOK, Moved
<1>5. RequestsOK'
  <2>1. ASSUME NEW q \in Requests
        PROVE  (req[q] = Idle \/ (~At(q, "idle") /\ Busy(q)))'
    <3>1. CASE q # r
      BY <1>1, <3>1 DEF Moved, RequestsOK, At, Busy
    <3>2. CASE q = r /\ req'[r] # Idle
      <4>1. /\ <<req[r].pc, req'[r].pc>> \in Moves
            /\ req'[r].ids = req[r].ids
            /\ req'[r].pc = "health" => req'[r].seen \in {"online", "offline"}
        BY <1>1, <3>2 DEF Moved
      <4>2. req'[r].pc = "write" => req'[r].fields \in [Fields -> Values]
        <5>1. ASSUME req'[r].pc = "write" PROVE PatchRead(r)
          <6>1. At(r, "read")
            BY <4>1, <5>1 DEF Moves, At
          <6> QED BY <6>1 DEF Handle, At, InsertNode, ApplyConfig, RollbackNode, PatchRead, PatchWrite,
                             PushConfig, StoreConfig, Probe, RecordHealth, CoreCall
        <5>2. ASSUME PatchRead(r) PROVE req'[r].fields \in [Fields -> Values]
          <6>0. ~Answer(r)
            BY <1>1, <3>2, AnswerMoves
          <6>1. PICK i \in req[r].ids :
                  IF i \in Present
                  THEN req' = [req EXCEPT ![r].pc = "write", ![r].fields = Picked(req[r].patch, row[i].fields)]
                  ELSE Answer(r)
            BY <5>2, <6>0 DEF PatchRead
          <6>2. i \in Present
            BY <6>0, <6>1
          <6>3. row[i].fields \in [Fields -> Values] /\ req[r].patch \in Patches
            BY <1>1, <1>3, <5>2, <6>2, PresentRows DEF Rows, PatchRead, Busy, At
          <6>4. req'[r].fields = Picked(req[r].patch, row[i].fields)
            BY <1>1, <6>1, <6>2 DEF TypeOK, States
          <6> QED BY <6>3, <6>4, PickedTyped
        <5> QED BY <5>1, <5>2
      <4>3. req'[r].pc \notin {"idle", "insert", "read"}
        BY <4>1 DEF Moves
      <4>4. Busy(r)'
        BY <1>1, <4>1, <4>2, <4>3 DEF Busy, Moves
      <4> QED BY <3>2, <4>3, <4>4 DEF At
    <3> QED BY <3>1, <3>2
  <2> QED BY <2>1 DEF RequestsOK
<1>6. FreshOK'
  <2>1. Present' \subseteq drawn' /\ rejected' \subseteq drawn'
    BY <1>1, <1>2, <1>3, PresentStep DEF FreshOK
  <2>2. ASSUME NEW q \in Requests, At(q, "insert")'
        PROVE  /\ req'[q].ids \cap (Present' \cup rejected') = {}
               /\ \A p \in Requests \ {q} : req'[q].ids \cap req'[p].ids = {}
    <3>1. q # r
      <4>1. ~At(r, "insert")'
        BY <1>1, IdleTyped DEF Moved, Moves, At
      <4> QED BY <2>2, <4>1
    <3>2. req'[q] = req[q] /\ At(q, "insert")
      BY <1>1, <2>2, <3>1 DEF Moved, At
    <3>3. /\ req[q].ids \cap (Present \cup rejected) = {}
          /\ \A p \in Requests \ {q} : req[q].ids \cap req[p].ids = {}
      BY <1>1, <3>2 DEF FreshOK
    <3>4. \A p \in Requests \ {q} : req'[p].ids \subseteq req[p].ids
      BY <1>1, IdleTyped DEF Moved
    <3>5. req[q].ids \cap req[r].ids = {}
      BY <3>1, <3>3
    <3> QED BY <1>2, <3>2, <3>3, <3>4, <3>5, PresentStep
  <2> QED BY <2>1, <2>2 DEF FreshOK
<1> QED BY <1>4, <1>5, <1>6 DEF RegistryInv

LEMMA OthersKept ==
  ASSUME RegistryInv, (\E i \in Ids : Sell(i)) \/ Outage \/ LateArrival \/ Crash \/ UNCHANGED vars
  PROVE  RegistryInv'
<1>1. UNCHANGED <<row, lapses, faults, drawn, rejected>> /\ Present' = Present
  BY DEF Sell, Outage, LateArrival, Crash, vars, database, node, rest, Present
<1>2. CASE Crash
  <2>1. /\ req' = [r \in Requests |-> Idle] /\ UNCHANGED <<daemon, late, sold, arrived>>
        /\ crashes' = crashes + 1 /\ unsure' \in BOOLEAN
    BY <1>2 DEF Crash
  <2>2. TypeOK' /\ RequestsOK'
    BY <1>1, <2>1, IdleTyped DEF RegistryInv, TypeOK, RequestsOK
  <2>3. FreshOK'
    BY <1>1, <2>1, IdleTyped DEF RegistryInv, FreshOK, At
  <2> QED BY <2>2, <2>3 DEF RegistryInv
<1>3. CASE ~Crash
  <2>1. UNCHANGED <<req, crashes, arrived>>
    BY <1>3 DEF Sell, Outage, LateArrival, vars, rest
  <2>2. sold' \subseteq Ids
    BY DEF RegistryInv, TypeOK, Sell, Outage, LateArrival, Crash, vars, rest
  <2>3. /\ daemon' \in [up : BOOLEAN, config : Configs \cup {NoConfig}]
        /\ late' \subseteq Configs \cup {NoConfig} /\ unsure' \in BOOLEAN
    BY <1>3 DEF RegistryInv, TypeOK, Sell, Outage, LateArrival, Takes, NodeGoesDown, NodeComesUp,
                vars, node, running
  <2>4. TypeOK'
    BY <1>1, <2>1, <2>2, <2>3 DEF RegistryInv, TypeOK
  <2>5. RequestsOK' /\ FreshOK'
    BY <1>1, <2>1 DEF RegistryInv, RequestsOK, FreshOK, At, Busy
  <2> QED BY <2>4, <2>5 DEF RegistryInv
<1> QED BY <1>2, <1>3

LEMMA NextKept == RegistryInv /\ [Next]_vars => RegistryInv'
BY ArriveKept, HandleKept, OthersKept DEF Next

LEMMA Kept == Spec => []RegistryInv
BY InitKept, NextKept, PTL DEF Spec

-----------------------------------------------------------------------------
(* A registration answered 502. *)

\* The row it rolls back is gone, no other request inserts that id again, and
\* while it is sold it stays as the property allows.
LEMMA RejectedKept ==
  ASSUME RegistryInv, RejectedLeavesNoRow, [Next]_vars
  PROVE  RejectedLeavesNoRow'
<1>1. TypeOK /\ FreshOK
  BY DEF RegistryInv
<1>2. ASSUME NEW r \in Requests, Arrive(r) PROVE RejectedLeavesNoRow'
  <2>1. UNCHANGED <<row, lapses, sold, rejected>>
    BY <1>2, ArriveDoes DEF Arrived, database
  <2> QED BY <2>1 DEF RejectedLeavesNoRow, Present
<1>3. ASSUME NEW r \in Requests, Handle(r) PROVE RejectedLeavesNoRow'
  <2>1. lapses \in Nat /\ lapses' \in {lapses, lapses + 1} /\ sold' = sold
    BY <1>1, <1>3, HandleMoves, HandleRows DEF TypeOK, rest
  <2>2. CASE lapses > 0 \/ lapses' = lapses + 1
    BY <2>1, <2>2 DEF RejectedLeavesNoRow
  <2>3. CASE ~(lapses > 0) /\ lapses' = lapses
    <3>1. ~StatementFails
      BY <2>1, <2>3, FailedStatement
    <3>2. CASE At(r, "rollback") /\ Deletes(r) /\ rejected' = rejected \cup req[r].ids
      <4>1. Present' \subseteq Present /\ Present' \cap req[r].ids \subseteq sold
        BY <1>3, <3>2, PresentStep DEF Deletes, Present, At
      <4> QED BY <2>1, <2>3, <3>2, <4>1 DEF RejectedLeavesNoRow
    <3>3. CASE rejected' = rejected
      <4>1. Present' \cap rejected \subseteq Present
        BY <1>1, <1>3, PresentStep DEF FreshOK
      <4> QED BY <2>1, <2>3, <3>3, <4>1 DEF RejectedLeavesNoRow
    <3> QED BY <1>3, <3>1, <3>2, <3>3, HandleRejects
  <2> QED BY <2>1, <2>2, <2>3
<1>4. CASE (\E i \in Ids : Sell(i)) \/ Outage \/ LateArrival \/ Crash \/ UNCHANGED vars
  <2>1. UNCHANGED <<row, lapses, rejected>> /\ sold \subseteq sold'
    BY <1>4 DEF Sell, Outage, LateArrival, Crash, vars, database, rest
  <2> QED BY <2>1 DEF RejectedLeavesNoRow, Present
<1> QED BY <1>2, <1>3, <1>4 DEF Next

\* Submitting a refused registration again makes no duplicate: the row of one
\* answered 502 is not in the table, whatever other requests, outages and restarts
\* did meanwhile, unless it was sold on or a statement failed.
THEOREM RejectionsLeaveNoRow == Spec => []RejectedLeavesNoRow
<1>1. Init => RejectedLeavesNoRow
  BY DEF Init, RejectedLeavesNoRow
<1> QED BY <1>1, RejectedKept, Kept, PTL DEF Spec

-----------------------------------------------------------------------------
(* A PATCH. *)

\* What a PATCH is about to write in the columns it omits is what the row holds.
PatchInv ==
  \A r \in Requests, i \in Present : At(r, "write") /\ i \in req[r].ids =>
    \A f \in Fields \ Sets(req[r].patch) : req[r].fields[f] = row[i].fields[f]

\* Nobody else writes the row's columns, and an INSERT is of another row.
LEMMA PatchKept ==
  ASSUME RegistryInv, PatchInv, PatchesApart, [Next]_vars
  PROVE  PatchInv'
<1>1. TypeOK /\ FreshOK /\ Present \subseteq drawn /\ RequestsOK
  BY DEF RegistryInv, FreshOK
<1>2. ASSUME NEW r \in Requests, Arrive(r) PROVE PatchInv'
  <2>1. UNCHANGED row /\ \A q \in Requests : At(q, "write")' => req'[q] = req[q]
    BY <1>2, ArriveDoes DEF Arrived, database, At
  <2> QED BY <2>1 DEF PatchInv, Present, At
<1>3. ASSUME NEW r \in Requests, Handle(r) PROVE PatchInv'
  <2>1. Moved(r) /\ RowStep(r) /\ Busy(r) /\ req[r].ids \subseteq Ids
    BY <1>1, <1>3, HandleMoves, HandleRows DEF TypeOK, States
  <2> SUFFICES ASSUME NEW q \in Requests, NEW i \in Present', At(q, "write")', i \in req'[q].ids,
                      NEW f \in Fields \ Sets(req'[q].patch)
               PROVE  req'[q].fields[f] = row'[i].fields[f]
    BY DEF PatchInv
  <2>2. CASE q = r
    <3>1. req'[r] # Idle /\ At(r, "read") /\ req'[r].ids = req[r].ids /\ req'[r].patch = req[r].patch
      BY <2>1, <2>2, IdleTyped DEF Moved, Moves, At
    <3>2. PatchRead(r)
      BY <1>3, <3>1 DEF Handle, At, InsertNode, ApplyConfig, RollbackNode, PatchRead, PatchWrite,
                        PushConfig, StoreConfig, Probe, RecordHealth, CoreCall
    <3>0. ~Answer(r)
      BY <1>1, <3>1, AnswerMoves
    <3>3. PICK j \in req[r].ids :
            IF j \in Present
            THEN req' = [req EXCEPT ![r].pc = "write", ![r].fields = Picked(req[r].patch, row[j].fields)]
            ELSE Answer(r)
      BY <3>0, <3>2 DEF PatchRead
    <3>4. j \in Present /\ i = j /\ row' = row
      BY <1>1, <2>1, <2>2, <3>0, <3>1, <3>2, <3>3 DEF PatchRead, database, Busy
    <3>5. row[j].fields \in [Fields -> Values] /\ req[r].patch \in Patches
      BY <1>1, <2>1, <3>1, <3>4, PresentRows DEF Rows, Busy, At, Present
    <3>6. req'[r].fields = Picked(req[r].patch, row[j].fields)
      BY <1>1, <3>3, <3>4 DEF TypeOK, States
    <3> QED BY <2>2, <3>1, <3>4, <3>5, <3>6, PickedTyped
  <2>3. CASE q # r
    <3>1. req'[q] = req[q] /\ At(q, "write") /\ i \in req[q].ids
      BY <2>1, <2>3 DEF Moved, At
    <3>2. i \notin req[r].ids \/ ~At(r, "write")
      <4>1. Busy(q)
        BY <1>1, <3>1, IdleTyped DEF RequestsOK, At
      <4> QED BY <2>1, <2>3, <3>1, <4>1 DEF Busy, PatchesApart
    <3>3. i \notin req[r].ids \/ ~At(r, "insert")
      BY <1>1, <2>3, <3>1 DEF FreshOK
    <3>4. i \in Present
      BY <1>1, <1>3, <3>3, PresentStep
    <3>5. row'[i].fields = row[i].fields
      <4>1. i \in Ids /\ row \in [Ids -> Rows \cup {NoRow}]
        BY <1>1, <3>4 DEF Present, TypeOK
      <4>2. ASSUME NEW j \in req[r].ids, NEW rw \in Rows, Inserts(r, j, rw)
            PROVE  row'[i] = row[i]
        BY <3>3, <4>1, <4>2 DEF Inserts
      <4>3. ASSUME NEW j \in req[r].ids, NEW rw \in Rows, Changes(r, j, rw)
            PROVE  row'[i].fields = row[i].fields
        BY <3>2, <4>1, <4>3 DEF Changes
      <4>4. CASE Deletes(r)
        BY <4>1, <4>4 DEF Deletes, Present
      <4> QED BY <2>1, <4>2, <4>3, <4>4 DEF RowStep
    <3> QED BY <3>1, <3>4, <3>5 DEF PatchInv
  <2> QED BY <2>2, <2>3
<1>4. CASE (\E i \in Ids : Sell(i)) \/ Outage \/ LateArrival \/ Crash \/ UNCHANGED vars
  <2>1. UNCHANGED row /\ \A q \in Requests : At(q, "write")' => req'[q] = req[q]
    BY <1>4, IdleTyped DEF Sell, Outage, LateArrival, Crash, vars, database, At
  <2> QED BY <2>1 DEF PatchInv, Present, At
<1> QED BY <1>2, <1>3, <1>4 DEF Next

\* The last step of a PATCH writes those columns as they are, or nothing.
LEMMA WriteKeepsOmitted ==
  ASSUME RegistryInv, PatchInv, [Next]_vars, NEW r \in Requests, NEW i \in Present,
         At(r, "write"), req'[r].pc = "idle", req[r].ids = {i},
         NEW f \in Fields \ Sets(req[r].patch)
  PROVE  row'[i].fields[f] = row[i].fields[f]
<1>1. TypeOK /\ req[r] # req'[r] /\ i \in Ids
  BY DEF RegistryInv, At, Present
<1>2. CASE Handle(r)
  <2>1. RowStep(r)
    BY <1>2, HandleRows
  <2>2. ASSUME NEW j \in req[r].ids, NEW rw \in Rows, Inserts(r, j, rw) \/ Deletes(r) PROVE FALSE
    BY <2>2 DEF Inserts, Deletes, At
  <2>3. ASSUME NEW j \in req[r].ids, NEW rw \in Rows, Changes(r, j, rw)
        PROVE  row'[i].fields[f] = row[i].fields[f]
    <3>1. row'[i] = rw /\ rw.fields = req[r].fields
      BY <1>1, <2>3 DEF Changes, TypeOK, At
    <3> QED BY <3>1 DEF PatchInv
  <2> QED BY <2>1, <2>2, <2>3 DEF RowStep, Deletes, At
<1>3. ASSUME NEW q \in Requests, Handle(q), q # r PROVE FALSE
  BY <1>1, <1>3, HandleMoves DEF Moved
<1>4. ASSUME NEW q \in Requests, Arrive(q) PROVE FALSE
  BY <1>1, <1>4, ArriveDoes DEF Arrived, At
<1>5. CASE (\E j \in Ids : Sell(j)) \/ Outage \/ LateArrival \/ Crash \/ UNCHANGED vars
  BY <1>5 DEF Sell, Outage, LateArrival, Crash, vars, database
<1> QED BY <1>2, <1>3, <1>4, <1>5 DEF Next

\* "An OMITTED field leaves the stored value alone", although the handler reads the
\* whole row and writes the whole row: another PATCH of the same row is the one
\* request that must not be between the two as well.
THEOREM OmittedColumnsKept == Spec /\ []PatchesApart => OmittedKept
<1>1. Init => PatchInv
  BY IdleTyped DEF Init, PatchInv, At
<1>2. RegistryInv /\ PatchInv /\ PatchesApart /\ [Next]_vars => PatchInv'
  BY PatchKept
<1>3. RegistryInv /\ PatchInv /\ [Next]_vars =>
        [\A r \in Requests, i \in Present :
           At(r, "write") /\ req'[r].pc = "idle" /\ req[r].ids = {i} =>
             \A f \in Fields \ Sets(req[r].patch) : row'[i].fields[f] = row[i].fields[f]]_vars
  BY WriteKeepsOmitted
<1> QED BY <1>1, <1>2, <1>3, Kept, PTL DEF Spec, OmittedKept

-----------------------------------------------------------------------------
(* The config that is stored. *)

\* Rows keep their config, and stay, unless the writer's step says otherwise.
LEMMA RowsStay ==
  ASSUME RegistryInv, NEW r \in Requests, Handle(r), NEW i \in Present,
         At(r, "rollback") => i \notin req[r].ids
  PROVE  /\ i \in Present'
         /\ ~At(r, "store") \/ i \notin req[r].ids => row'[i].config = row[i].config
<1>1. /\ TypeOK /\ RowStep(r) /\ i \in Ids /\ row[i] \in Rows /\ row \in [Ids -> Rows \cup {NoRow}]
      /\ \A rw \in Rows : rw # NoRow
  BY HandleRows, PresentRows DEF RegistryInv, TypeOK, Present
<1>2. CASE row' = row
  BY <1>1, <1>2 DEF Present
<1>3. ASSUME NEW j \in req[r].ids, NEW rw \in Rows, Inserts(r, j, rw)
      PROVE  row'[i] = row[i]
  <2>1. i # j
    BY <1>3 DEF Inserts, RegistryInv, FreshOK
  <2> QED BY <1>1, <1>3, <2>1 DEF Inserts
<1>4. ASSUME NEW j \in req[r].ids, NEW rw \in Rows, Changes(r, j, rw)
      PROVE  /\ i \in Present'
             /\ ~At(r, "store") \/ i \notin req[r].ids => row'[i].config = row[i].config
  BY <1>1, <1>4 DEF Changes, Present
<1>5. CASE Deletes(r)
  BY <1>1, <1>5 DEF Deletes, Present
<1> QED BY <1>1, <1>2, <1>3, <1>4, <1>5 DEF RowStep, Present

\* The one row of each request.
LEMMA OneRow ==
  ASSUME RegistryInv, NEW r \in Requests, req[r].pc # "idle"
  PROVE  \E i \in drawn : req[r].ids = {i}
BY IdleTyped DEF RegistryInv, RequestsOK, Busy

\* Nobody else has the row of r between node and table.
Writers == {"apply", "rollback", "store"}

Alone(r) ==
  \A q \in Requests \ {r} : req[q].pc \in Writers => req[q].ids # req[r].ids

\* Some row, not one about to be rolled back or to store another config, shows the
\* config that runs,
Shown ==
  \E i \in Present : /\ row[i].config = daemon.config
                     /\ \A r \in Requests : req[r].pc \in Writers => i \notin req[r].ids

\* or a push that has its row to itself is about to store it.
Storing == \E r \in Requests : Unstored(r) /\ req[r].ids \subseteq Present /\ Alone(r)

Showing == unsure \/ daemon.config = NoConfig \/ Shown \/ Storing

\* A push that is answered, and had its row to itself.
LEMMA GivenShows ==
  ASSUME RegistryInv, NEW r \in Requests, Handle(r), Given(r)
  PROVE  Showing'
<1> SUFFICES ASSUME ~Contended(r) PROVE Shown' \/ Storing'
  BY DEF Given, Showing
<1>1. /\ TypeOK /\ Moved(r) /\ Present' = Present /\ daemon'.config = req[r].config
      /\ req'[r] = [req[r] EXCEPT !.pc = IF At(r, "apply") THEN "probe" ELSE "store"]
      /\ req[r].pc \in {"apply", "push"} /\ row' = row
  BY HandleMoves DEF RegistryInv, Given, Present, TypeOK, States
<1>2. /\ Alone(r) /\ req[r].ids \subseteq Present
      /\ At(r, "apply") => \A i \in req[r].ids : row[i].config = req[r].config
  BY DEF Contended, Alone, Writers
<1>3. req[r] \in States
  BY <1>1 DEF TypeOK
<1>4. /\ req'[r].ids = req[r].ids /\ req'[r].config = req[r].config
      /\ req'[r].pc = IF At(r, "apply") THEN "probe" ELSE "store"
  BY <1>1, <1>3 DEF States
<1>5. PICK i : req[r].ids = {i}
  BY <1>1, OneRow
<1>6. CASE At(r, "apply")
  <2>1. ASSUME NEW q \in Requests, req'[q].pc \in Writers PROVE i \notin req'[q].ids
    <3>1. q # r
      BY <1>4, <1>6, <2>1 DEF Writers
    <3>2. req'[q] = req[q] /\ req[q].ids # {i}
      BY <1>1, <1>2, <1>5, <2>1, <3>1 DEF Moved, Alone
    <3>3. \E j : req[q].ids = {j}
      BY <2>1, <3>2, OneRow DEF Writers
    <3> QED BY <3>2, <3>3
  <2>2. i \in Present' /\ row'[i].config = daemon'.config
    BY <1>1, <1>2, <1>5, <1>6
  <2> QED BY <2>1, <2>2 DEF Shown
<1>7. CASE ~At(r, "apply")
  <2>1. Unstored(r)'
    BY <1>1, <1>4, <1>7 DEF Unstored, At
  <2>2. Alone(r)'
    BY <1>1, <1>2, <1>4 DEF Alone, Moved
  <2> QED BY <1>1, <1>2, <1>4, <2>1, <2>2 DEF Storing
<1> QED BY <1>6, <1>7

\* Whoever is about to write a row was about to before, unless he has just been
\* given the node's answer, or has inserted a row that was not there.
LEMMA WritersEnter ==
  ASSUME RegistryInv, NEW r \in Requests, Handle(r), ~(At(r, "push") /\ req'[r].pc = "store"),
         NEW q \in Requests, req'[q].pc \in Writers, NEW i \in Present, i \in req'[q].ids
  PROVE  req[q].pc \in Writers /\ req[q].ids = req'[q].ids
<1>1. Moved(r)
  BY HandleMoves
<1>2. CASE q # r
  BY <1>1, <1>2 DEF Moved
<1>3. CASE q = r
  <2>1. <<req[r].pc, req'[r].pc>> \in Moves /\ req'[r].ids = req[r].ids
    BY <1>1, <1>3, IdleTyped DEF Moved, Writers
  <2>2. req[r].pc \in {"insert", "apply"}
    BY <1>3, <2>1 DEF Moves, Writers, At
  <2>3. ~At(r, "insert")
    BY <1>3, <2>1 DEF RegistryInv, FreshOK
  <2> QED BY <1>3, <2>1, <2>2, <2>3 DEF Writers, At
<1> QED BY <1>2, <1>3

\* The UPDATE of a push shows in the row what the node runs, or fails.
LEMMA StoredShows ==
  ASSUME RegistryInv, NEW r \in Requests, Handle(r), Unstored(r), req[r].ids \subseteq Present, Alone(r)
  PROVE  unsure' \/ Shown'
<1>1. StoreConfig(r)
  BY DEF Unstored, Handle, At, InsertNode, ApplyConfig, RollbackNode, PatchRead, PatchWrite,
         PushConfig, StoreConfig, Probe, RecordHealth, CoreCall
<1> DEFINE Updates == \E i \in req[r].ids :
                        Update(i, [row[i] EXCEPT !.config = req[r].config]) /\ Go(r, "probe")
<1>0. Updates \/ unsure' = (unsure \/ Unstored(r))
  BY <1>1 DEF StoreConfig
<1> SUFFICES ASSUME Updates PROVE Shown'
  <2> HIDE DEF Updates
  <2>1. unsure' = (unsure \/ Unstored(r)) => unsure'
    BY Zenon
  <2> QED BY <1>0, <2>1
<1>2. PICK i \in req[r].ids : Update(i, [row[i] EXCEPT !.config = req[r].config]) /\ Go(r, "probe")
  BY <1>1 DEF StoreConfig
<1>3. /\ TypeOK /\ Moved(r) /\ i \in Present /\ i \in Ids /\ row[i] \in Rows /\ req[r].ids = {i}
      /\ daemon' = daemon /\ req[r] \in States
  BY <1>1, <1>2, HandleMoves, PresentRows, OneRow
     DEF RegistryInv, TypeOK, Present, StoreConfig, At
<1>4. i \in Present' /\ row'[i].config = daemon'.config
  <2> DEFINE rw == [row[i] EXCEPT !.config = req[r].config]
  <2>1. rw \in Rows /\ rw.config = daemon'.config /\ row' = [row EXCEPT ![i] = rw]
    BY <1>2, <1>3 DEF Rows, Update, Unstored, States
  <2> HIDE DEF rw
  <2>2. rw # NoRow
    BY <1>3, <2>1, PresentRows
  <2> QED BY <1>3, <2>1, <2>2 DEF Present, TypeOK
<1>5. ASSUME NEW q \in Requests, req'[q].pc \in Writers PROVE i \notin req'[q].ids
  <2>1. q # r
    BY <1>2, <1>3, <1>5 DEF Go, Writers, TypeOK, States
  <2>2. req'[q] = req[q] /\ req[q].ids # {i}
    BY <1>3, <1>5, <2>1 DEF Moved, Alone
  <2>3. \E j : req[q].ids = {j}
    BY <1>5, <2>2, OneRow DEF Writers
  <2> QED BY <2>2, <2>3
<1> QED BY <1>4, <1>5 DEF Shown

LEMMA ShowingHandled ==
  ASSUME RegistryInv, Showing, NEW r \in Requests, Handle(r)
  PROVE  Showing'
<1>1. DaemonStep(r) /\ Moved(r) /\ unsure \in BOOLEAN
  BY HandleDaemon, HandleMoves DEF RegistryInv, TypeOK
<1>2. CASE Given(r)
  BY <1>2, GivenShows
<1>3. CASE unsure'
  BY <1>3 DEF Showing
<1>4. CASE ~Given(r) /\ ~unsure'
  <2>1. daemon' = daemon /\ ~unsure /\ ~(At(r, "push") /\ req'[r].pc = "store")
    BY <1>1, <1>4 DEF DaemonStep
  <2>2. CASE daemon.config = NoConfig
    BY <2>1, <2>2 DEF Showing
  <2>3. CASE Shown
    <3>1. PICK i \in Present :
            /\ row[i].config = daemon.config
            /\ \A q \in Requests : req[q].pc \in Writers => i \notin req[q].ids
      BY <2>3 DEF Shown
    <3>2. i \in Present' /\ row'[i].config = daemon'.config
      BY <2>1, <3>1, RowsStay DEF At, Writers
    <3>3. \A q \in Requests : req'[q].pc \in Writers => i \notin req'[q].ids
      BY <2>1, <3>1, WritersEnter
    <3> QED BY <3>2, <3>3 DEF Showing, Shown
  <2>4. ASSUME NEW q \in Requests, Unstored(q), req[q].ids \subseteq Present, Alone(q)
        PROVE  Showing'
    <3>1. CASE q = r
      BY <2>4, <3>1, StoredShows DEF Showing
    <3>2. CASE q # r
      <4>1. req'[q] = req[q]
        BY <1>1, <3>2 DEF Moved
      <4>2. PICK i \in Present : req[q].ids = {i}
        BY <2>4, OneRow DEF Unstored, At
      <4>3. ~(At(r, "rollback") /\ i \in req[r].ids)
        BY <2>4, <3>2, <4>2, OneRow DEF Alone, Writers, At
      <4>4. i \in Present'
        BY <4>3, RowsStay
      <4>5. Alone(q)'
        BY <2>1, <2>4, <4>1, <4>2, WritersEnter DEF Alone
      <4> QED BY <2>1, <2>4, <4>1, <4>2, <4>4, <4>5 DEF Showing, Storing, Unstored, At
    <3> QED BY <3>1, <3>2
  <2> QED BY <2>1, <2>2, <2>3, <2>4 DEF Showing, Storing
<1> QED BY <1>2, <1>3, <1>4

LEMMA ShowingKept ==
  ASSUME RegistryInv, Showing, [Next]_vars
  PROVE  Showing'
<1>1. ASSUME NEW r \in Requests, Arrive(r) PROVE Showing'
  <2>1. /\ Arrived(r) /\ UNCHANGED <<row, daemon, unsure>> /\ Present' = Present
        /\ \A q \in Requests \ {r} : req'[q] = req[q]
    BY <1>1, ArriveDoes DEF Arrived, database, node, running, Present
  <2>2. req'[r].pc \notin Writers /\ ~Unstored(r)
    BY <2>1 DEF Arrived, Writers, Unstored, At
  <2>3. Shown => Shown'
    BY <2>1, <2>2 DEF Shown
  <2>4. ASSUME NEW q \in Requests, Unstored(q), req[q].ids \subseteq Present, Alone(q)
        PROVE  Storing'
    <3>1. q # r /\ req'[q] = req[q]
      BY <2>1, <2>2, <2>4
    <3>2. Alone(q)'
      BY <2>1, <2>2, <2>4, <3>1 DEF Alone
    <3> QED BY <2>1, <2>4, <3>1, <3>2 DEF Storing, Unstored, At
  <2> QED BY <2>1, <2>3, <2>4 DEF Showing, Storing
<1>2. ASSUME NEW r \in Requests, Handle(r) PROVE Showing'
  BY <1>2, ShowingHandled
<1>3. CASE Crash
  <2>1. /\ UNCHANGED <<row, daemon>> /\ Present' = Present
        /\ unsure' = (unsure \/ \E r \in Requests : Unstored(r))
        /\ \A q \in Requests : req'[q] = Idle
    BY <1>3 DEF Crash, database, Present
  <2>2. \A q \in Requests : req'[q].pc \notin Writers
    BY <2>1, IdleTyped DEF Writers
  <2>3. Shown => Shown'
    BY <2>1, <2>2 DEF Shown
  <2>4. Storing \/ unsure => unsure'
    BY <2>1 DEF Storing
  <2> QED BY <2>1, <2>3, <2>4 DEF Showing
<1>4. CASE LateArrival
  BY <1>4 DEF LateArrival, Showing
<1>5. CASE (\E i \in Ids : Sell(i)) \/ Outage \/ UNCHANGED vars
  <2>1. UNCHANGED <<row, req, unsure>> /\ daemon'.config = daemon.config /\ Present' = Present
    BY <1>5 DEF Sell, Outage, NodeGoesDown, NodeComesUp, vars, database, node, running, rest, Present,
                RegistryInv, TypeOK
  <2>2. Shown' = Shown /\ Storing' = Storing
    BY <2>1 DEF Shown, Storing, Unstored, Alone, At
  <2> QED BY <2>1, <2>2 DEF Showing
<1> QED BY <1>1, <1>2, <1>3, <1>4, <1>5 DEF Next

\* The stored config is the one the node runs, although a registration writes it
\* before the node is given it and a push after, and whatever pushes have been lost,
\* late, unstored or at cross purposes before: all it takes is that the push the node
\* took last was answered, had its row to itself and stored it.
THEOREM RunningConfigIsStored == Spec => []StoredIsRunning
<1>1. Init => Showing
  BY DEF Init, Showing
<1>2. RegistryInv /\ Showing /\ [Next]_vars => Showing'
  BY ShowingKept
<1>3. Showing => StoredIsRunning
  BY DEF Showing, Shown, Storing, Unstored, StoredIsRunning, Settled, At
<1> QED BY <1>1, <1>2, <1>3, Kept, PTL DEF Spec
=============================================================================
