------------------------- MODULE ProvisioningProofs --------------------------
(***************************************************************************)
(* What is proved of Provisioning, for any customers, plans, nodes and     *)
(* tenant ids, any number of requests of any kind at once, and any         *)
(* failures and restarts.                                                  *)
(***************************************************************************)
EXTENDS Provisioning, TLAPS

-----------------------------------------------------------------------------
(* Types. *)

\* What a request names.
Names == [customer : Customers \cup {"none"}, plan : Plans \cup {"none"},
          node : Nodes \cup {"none"}]

LEMMA StateTypes ==
  /\ Idle \in RequestStates
  /\ \A pc \in PCs, rec \in Names, held \in SUBSET (Nodes \X Ids) :
       [Idle EXCEPT !.pc = pc, !.held = held, !.rec = rec] \in RequestStates
<1>1. Idle \in RequestStates
  BY DEF Idle, RequestStates, NoSub, PCs
<1>2. ASSUME NEW pc \in PCs, NEW rec \in Names, NEW held \in SUBSET (Nodes \X Ids)
      PROVE  [Idle EXCEPT !.pc = pc, !.held = held, !.rec = rec] \in RequestStates
  <2>1. [Idle EXCEPT !.pc = pc] \in RequestStates
    BY <1>1 DEF RequestStates
  <2>2. [[Idle EXCEPT !.pc = pc] EXCEPT !.held = held] \in RequestStates
    BY <2>1 DEF RequestStates
  <2>3. [[[Idle EXCEPT !.pc = pc] EXCEPT !.held = held] EXCEPT !.rec = rec] \in RequestStates
    BY <2>2 DEF RequestStates, Names
  <2> QED BY <2>3
<1> QED BY <1>1, <1>2

LEMMA SubNames == SubRecords \cup {NoSub} \subseteq Names
  BY DEF SubRecords, NoSub, Names

\* A handler that goes on or answers is still a handler.
LEMMA RequestTypes ==
  ASSUME req \in [Requests -> RequestStates], NEW r \in Requests
  PROVE  /\ Answer(r) => req' \in [Requests -> RequestStates]
         /\ \A pc \in PCs : Go(r, pc) => req' \in [Requests -> RequestStates]
<1>1. \A pc \in PCs : [req[r] EXCEPT !.pc = pc] \in RequestStates
  BY DEF RequestStates
<1> QED BY <1>1, StateTypes DEF Answer, Go

\* A call leaves nodes and network well typed, answered or failed.
LEMMA ServedTypes ==
  ASSUME tenants \subseteq Nodes \X Ids, wire \subseteq Calls, faults \in Nat,
         NEW t \in Nodes \X Ids, NEW c \in {Create(t), Delete(t)}, Answered(c) \/ Failed(c)
  PROVE  tenants' \subseteq Nodes \X Ids /\ wire' \subseteq Calls /\ faults' \in Nat
<1>1. c \in Calls /\ c.tenant = t
  BY DEF Calls, Create, Delete
<1>2. Serve(c) => tenants' \subseteq Nodes \X Ids
  BY <1>1 DEF Serve
<1> QED BY <1>1, <1>2, BoundsAssumption DEF Answered, Failed, network, BoundsAssumption

LEMMA FaultTypes == ASSUME faults \in Nat, StatementFails PROVE faults' \in Nat
  BY DEF StatementFails

\* A row that is inserted is a row.
LEMMA ValidTypes ==
  ASSUME TypeOK, NEW rec \in Names, ReferencesValid(rec)
  PROVE  rec \in SubRecords
  BY DEF TypeOK, Names, SubRecords, ReferencesValid

LEMMA RequestParts ==
  ASSUME TypeOK, NEW r \in Requests
  PROVE  req[r].rec \in Names /\ req[r].held \subseteq Nodes \X Ids
  BY DEF TypeOK, RequestStates, Names

LEMMA ArriveTypes == ASSUME TypeOK, NEW r \in Requests, Arrive(r) PROVE TypeOK'
<1>1. ASSUME NEW state \in RequestStates, Receive(r, state), drawn' \subseteq Ids PROVE TypeOK'
  BY <1>1 DEF TypeOK, Receive, tables, network
<1>2. CASE ReceiveCreate(r)
  <2>1. PICK c \in customers, p \in plans, n \in nodes, i \in Ids \ drawn :
          /\ Receive(r, [Idle EXCEPT !.pc = "provision", !.held = {<<n, i>>},
                                     !.rec = [customer |-> c, plan |-> p, node |-> n]])
          /\ drawn' = drawn \cup {i}
    BY <1>2 DEF ReceiveCreate
  <2>2. /\ "provision" \in PCs /\ {<<n, i>>} \in SUBSET (Nodes \X Ids)
        /\ [customer |-> c, plan |-> p, node |-> n] \in Names
    BY DEF TypeOK, PCs, Names
  <2>3. [Idle EXCEPT !.pc = "provision", !.held = {<<n, i>>},
                     !.rec = [customer |-> c, plan |-> p, node |-> n]] \in RequestStates
    BY <2>2, StateTypes
  <2>4. drawn' \subseteq Ids
    BY <2>1 DEF TypeOK
  <2> QED BY <1>1, <2>1, <2>3, <2>4
<1>3. CASE ReceiveDeleteSubscription(r)
  <2>1. PICK i \in Sold :
          Receive(r, [Idle EXCEPT !.pc = "node", !.held = {<<subs[i].node, i>>}, !.rec = subs[i]])
    BY <1>3 DEF ReceiveDeleteSubscription
  <2>2. /\ "node" \in PCs /\ {<<subs[i].node, i>>} \in SUBSET (Nodes \X Ids)
        /\ subs[i] \in Names
    BY SubNames DEF TypeOK, PCs, Sold, SubRecords
  <2>3. [Idle EXCEPT !.pc = "node", !.held = {<<subs[i].node, i>>}, !.rec = subs[i]]
          \in RequestStates
    BY <2>2, StateTypes
  <2> QED BY <1>1, <1>3, <2>1, <2>3 DEF TypeOK, ReceiveDeleteSubscription
<1>4. CASE ReceiveDeleteCustomer(r)
  <2>1. PICK c \in customers : Receive(r, [Idle EXCEPT !.pc = "list", !.rec.customer = c])
    BY <1>4 DEF ReceiveDeleteCustomer
  <2>2. [Idle EXCEPT !.pc = "list", !.rec.customer = c] \in RequestStates
    BY DEF TypeOK, Idle, RequestStates, NoSub, PCs
  <2> QED BY <1>1, <1>4, <2>1, <2>2 DEF TypeOK, ReceiveDeleteCustomer
<1>5. CASE ReceiveDeletePlan(r)
  <2>1. PICK p \in plans : Receive(r, [Idle EXCEPT !.pc = "plan", !.rec.plan = p])
    BY <1>5 DEF ReceiveDeletePlan
  <2>2. [Idle EXCEPT !.pc = "plan", !.rec.plan = p] \in RequestStates
    BY DEF TypeOK, Idle, RequestStates, NoSub, PCs
  <2> QED BY <1>1, <1>5, <2>1, <2>2 DEF TypeOK, ReceiveDeletePlan
<1>6. CASE ReceiveDeleteNode(r)
  <2>1. PICK n \in nodes : Receive(r, [Idle EXCEPT !.pc = "count", !.rec.node = n])
    BY <1>6 DEF ReceiveDeleteNode
  <2>2. [Idle EXCEPT !.pc = "count", !.rec.node = n] \in RequestStates
    BY DEF TypeOK, Idle, RequestStates, NoSub, PCs
  <2> QED BY <1>1, <1>6, <2>1, <2>2 DEF TypeOK, ReceiveDeleteNode
<1> QED BY <1>2, <1>3, <1>4, <1>5, <1>6 DEF Arrive

\* The handlers that call nodes.
LEMMA CallerTypes ==
  ASSUME TypeOK, NEW r \in Requests,
         CreateTenant(r) \/ RollbackTenant(r) \/ DeprovisionTenant(r) \/ DeprovisionNext(r)
  PROVE  TypeOK'
<1> DEFINE RequestsOK == req' \in [Requests -> RequestStates]
           NetworkOK == tenants' \subseteq Nodes \X Ids /\ wire' \subseteq Calls /\ faults' \in Nat
           RestOK == UNCHANGED <<tables, drawn, limits>>
                     /\ abandoned' \subseteq Nodes \X Ids
<1>1. RequestsOK /\ NetworkOK /\ RestOK => TypeOK'
  BY DEF TypeOK, tables, limits
<1>2. \A t \in req[r].held : t \in Nodes \X Ids
  BY RequestParts
<1>3. /\ tenants \subseteq Nodes \X Ids /\ wire \subseteq Calls /\ faults \in Nat
      /\ req \in [Requests -> RequestStates] /\ abandoned \subseteq Nodes \X Ids
  BY DEF TypeOK
<1>4. CASE CreateTenant(r)
  <2>1. PICK t \in req[r].held :
          \/ Answered(Create(t)) /\ Go(r, "insert") /\ UNCHANGED abandoned
          \/ Failed(Create(t)) /\ Answer(r) /\ abandoned' = abandoned \cup {t}
    BY <1>4 DEF CreateTenant
  <2>2. NetworkOK
    BY <1>2, <1>3, <2>1, ServedTypes
  <2>3. RequestsOK
    BY <1>3, <2>1, RequestTypes DEF PCs
  <2>4. RestOK
    BY <1>2, <1>3, <1>4, <2>1 DEF CreateTenant
  <2> QED BY <1>1, <2>2, <2>3, <2>4
<1>5. CASE RollbackTenant(r)
  <2>1. PICK t \in req[r].held :
          \/ Answered(Delete(t)) /\ UNCHANGED abandoned
          \/ Failed(Delete(t)) /\ abandoned' = abandoned \cup {t}
    BY <1>5 DEF RollbackTenant
  <2>2. NetworkOK
    BY <1>2, <1>3, <2>1, ServedTypes
  <2>3. RequestsOK
    BY <1>3, <1>5, RequestTypes DEF RollbackTenant, PCs
  <2>4. RestOK
    BY <1>2, <1>3, <1>5, <2>1 DEF RollbackTenant
  <2> QED BY <1>1, <2>2, <2>3, <2>4
<1>6. CASE DeprovisionTenant(r)
  <2>1. PICK t \in req[r].held :
          \/ Answered(Delete(t)) /\ Go(r, "row")
          \/ Failed(Delete(t)) /\ Answer(r)
    BY <1>6 DEF DeprovisionTenant
  <2>2. NetworkOK
    BY <1>2, <1>3, <2>1, ServedTypes
  <2>3. RequestsOK
    BY <1>3, <2>1, RequestTypes DEF PCs
  <2>4. RestOK
    BY <1>3, <1>6 DEF DeprovisionTenant
  <2> QED BY <1>1, <2>2, <2>3, <2>4
<1>7. CASE DeprovisionNext(r)
  <2>1. PICK t \in req[r].held :
          \/ Answered(Delete(t)) /\ req' = [req EXCEPT ![r].held = @ \ {t}]
          \/ Failed(Delete(t)) /\ Answer(r)
          \/ Answer(r) /\ UNCHANGED <<tenants, wire, faults>>
    BY <1>7 DEF DeprovisionNext
  <2>2. NetworkOK
    BY <1>2, <1>3, <2>1, ServedTypes
  <2>3. RequestsOK
    <3>1. [req[r] EXCEPT !.held = @ \ {t}] \in RequestStates
      BY <1>3 DEF RequestStates
    <3> QED BY <1>3, <2>1, <3>1, RequestTypes
  <2>4. RestOK
    BY <1>3, <1>7 DEF DeprovisionNext
  <2> QED BY <1>1, <2>2, <2>3, <2>4
<1> QED BY <1>4, <1>5, <1>6, <1>7

\* The handlers that run statements.
LEMMA StatementTypes ==
  ASSUME TypeOK, NEW r \in Requests,
         \/ InsertSubscription(r) \/ CreateAPIKey(r) \/ UnwindSubscription(r)
         \/ DeleteSubscriptionRow(r) \/ ListSubscriptions(r) \/ DropCustomer(r)
         \/ DeletePlan(r) \/ CountSubscriptions(r) \/ DeleteNode(r)
  PROVE  TypeOK'
<1> DEFINE RequestsOK == req' \in [Requests -> RequestStates]
           TablesOK == /\ customers' \subseteq Customers /\ plans' \subseteq Plans
                       /\ nodes' \subseteq Nodes
                       /\ subs' \in [Ids -> SubRecords \cup {NoSub}]
                       /\ keys' \subseteq Customers \X Ids
           RestOK == UNCHANGED <<tenants, wire, drawn, abandoned, limits>> /\ faults' \in Nat
<1>1. RequestsOK /\ TablesOK /\ RestOK => TypeOK'
  BY DEF TypeOK, limits
<1>2. \A t \in req[r].held : t \in Nodes \X Ids
  BY RequestParts
<1>3. /\ customers \subseteq Customers /\ plans \subseteq Plans /\ nodes \subseteq Nodes
      /\ subs \in [Ids -> SubRecords \cup {NoSub}] /\ keys \subseteq Customers \X Ids
      /\ faults \in Nat /\ req \in [Requests -> RequestStates]
  BY DEF TypeOK
<1>4. StatementFails => faults' \in Nat
  BY <1>3, FaultTypes
<1>5. RemoveRow(r) => subs' \in [Ids -> SubRecords \cup {NoSub}] /\ faults' \in Nat
  BY <1>2, <1>3, <1>4 DEF RemoveRow
<1>6. CASE InsertSubscription(r)
  <2>1. RestOK
    BY <1>3, <1>4, <1>6 DEF InsertSubscription
  <2>2. RequestsOK
    BY <1>3, <1>6, RequestTypes DEF InsertSubscription, PCs
  <2>3. subs' \in [Ids -> SubRecords \cup {NoSub}]
    <3>1. CASE UNCHANGED subs
      BY <1>3, <3>1
    <3>2. CASE ReferencesValid(req[r].rec) /\ \E t \in req[r].held : subs' = [subs EXCEPT ![t[2]] = req[r].rec]
      <4>1. req[r].rec \in SubRecords
        BY <3>2, ValidTypes, RequestParts
      <4> QED BY <1>3, <3>2, <4>1
    <3> QED BY <1>6, <3>1, <3>2 DEF InsertSubscription
  <2> QED BY <1>1, <1>3, <1>6, <2>1, <2>2, <2>3 DEF InsertSubscription
<1>7. CASE CreateAPIKey(r)
  <2>1. RestOK
    BY <1>3, <1>4, <1>7 DEF CreateAPIKey
  <2>2. RequestsOK
    <3>1. [req[r] EXCEPT !.pc = "rollback", !.keyed = TRUE] \in RequestStates
      <4>1. req[r] \in RequestStates /\ "rollback" \in PCs
        BY <1>3 DEF PCs
      <4>2. [req[r] EXCEPT !.pc = "rollback"] \in RequestStates
        BY <4>1 DEF RequestStates
      <4> QED BY <4>2 DEF RequestStates
    <3>2. req' = [req EXCEPT ![r].pc = "rollback", ![r].keyed = TRUE]
            => req' = [req EXCEPT ![r] = [req[r] EXCEPT !.pc = "rollback", !.keyed = TRUE]]
      BY <1>3 DEF RequestStates
    <3>3. Answer(r) \/ req' = [req EXCEPT ![r].pc = "rollback", ![r].keyed = TRUE]
      BY <1>7 DEF CreateAPIKey
    <3> QED BY <1>3, <3>1, <3>2, <3>3, RequestTypes
  <2>3. keys' \subseteq Customers \X Ids
    BY <1>2, <1>3, <1>7 DEF CreateAPIKey
  <2> QED BY <1>1, <1>3, <1>7, <2>1, <2>2, <2>3 DEF CreateAPIKey
<1>8. CASE UnwindSubscription(r) \/ DeleteSubscriptionRow(r)
  <2>1. RequestsOK
    BY <1>3, <1>8, RequestTypes DEF UnwindSubscription, DeleteSubscriptionRow
  <2> QED BY <1>1, <1>3, <1>5, <1>8, <2>1 DEF UnwindSubscription, DeleteSubscriptionRow
<1>9. CASE ListSubscriptions(r)
  <2>1. RequestsOK
    <3> DEFINE listed == {<<subs[i].node, i>> : i \in SubsOf(req[r].rec.customer)}
    <3>1. listed \subseteq Nodes \X Ids
      BY <1>3 DEF SubsOf, Sold, SubRecords
    <3> HIDE DEF listed
    <3>2. [req[r] EXCEPT !.pc = "each", !.held = listed] \in RequestStates
      <4>1. req[r] \in RequestStates /\ "each" \in PCs
        BY <1>3 DEF PCs
      <4>2. [req[r] EXCEPT !.pc = "each"] \in RequestStates
        BY <4>1 DEF RequestStates
      <4> QED BY <3>1, <4>2 DEF RequestStates
    <3>3. req' = [req EXCEPT ![r].pc = "each", ![r].held = listed]
            => req' = [req EXCEPT ![r] = [req[r] EXCEPT !.pc = "each", !.held = listed]]
      BY <1>3 DEF RequestStates
    <3>4. Answer(r) \/ req' = [req EXCEPT ![r].pc = "each", ![r].held = listed]
      BY <1>9 DEF ListSubscriptions, listed
    <3> QED BY <1>3, <3>2, <3>3, <3>4, RequestTypes
  <2> QED BY <1>1, <1>3, <1>4, <1>9, <2>1 DEF ListSubscriptions, tables
<1>10. CASE DropCustomer(r)
  <2>1. RequestsOK
    BY <1>3, <1>10, RequestTypes DEF DropCustomer
  <2> QED BY <1>1, <1>3, <1>4, <1>10, <2>1 DEF DropCustomer
<1>11. CASE DeletePlan(r)
  <2>1. RequestsOK
    BY <1>3, <1>11, RequestTypes DEF DeletePlan
  <2> QED BY <1>1, <1>3, <1>4, <1>11, <2>1 DEF DeletePlan
<1>12. CASE CountSubscriptions(r)
  <2>1. RequestsOK
    BY <1>3, <1>12, RequestTypes DEF CountSubscriptions, PCs
  <2> QED BY <1>1, <1>3, <1>4, <1>12, <2>1 DEF CountSubscriptions, tables
<1>13. CASE DeleteNode(r)
  <2>1. RequestsOK
    BY <1>3, <1>13, RequestTypes DEF DeleteNode
  <2> QED BY <1>1, <1>3, <1>4, <1>13, <2>1 DEF DeleteNode
<1> QED BY <1>6, <1>7, <1>8, <1>9, <1>10, <1>11, <1>12, <1>13

LEMMA NextTypes == TypeOK /\ [Next]_vars => TypeOK'
<1> SUFFICES ASSUME TypeOK, [Next]_vars PROVE TypeOK'
  OBVIOUS
<1>1. ASSUME NEW r \in Requests, Arrive(r) PROVE TypeOK'
  BY <1>1, ArriveTypes
<1>2. ASSUME NEW r \in Requests, Handle(r) PROVE TypeOK'
  BY <1>2, CallerTypes, StatementTypes DEF Handle
<1>3. CASE ServeLate
  <2>1. PICK c \in wire : Serve(c) /\ wire' = wire \ {c}
    BY <1>3 DEF ServeLate
  <2>2. c \in Calls /\ c.tenant \in Nodes \X Ids
    BY DEF TypeOK, Calls
  <2>3. tenants' \subseteq Nodes \X Ids
    BY <2>1, <2>2 DEF TypeOK, Serve
  <2> QED BY <1>3, <2>1, <2>3 DEF TypeOK, ServeLate, tables, limits
<1>4. CASE Crash
  <2>1. InSale \subseteq Nodes \X Ids
    BY RequestParts DEF InSale
  <2>2. req' \in [Requests -> RequestStates]
    BY <1>4, StateTypes DEF Crash
  <2>3. abandoned' \subseteq Nodes \X Ids
    BY <1>4, <2>1 DEF TypeOK, Crash
  <2> QED BY <1>4, <2>2, <2>3 DEF TypeOK, Crash, tables, network
<1>5. CASE UNCHANGED vars
  BY <1>5 DEF TypeOK, vars
<1> QED BY <1>1, <1>2, <1>3, <1>4, <1>5 DEF Next

LEMMA InitTypes == Init => TypeOK
<1> SUFFICES ASSUME Init PROVE TypeOK
  OBVIOUS
<1> QED BY StateTypes DEF Init, TypeOK

\* Tables, tenants, late calls and handlers stay well typed: no row names what
\* was never a customer, plan or node.
THEOREM TypesCorrect == Spec => []TypeOK
<1>1. Init => TypeOK
  BY InitTypes
<1>2. TypeOK /\ [Next]_vars => TypeOK'
  BY NextTypes
<1> QED BY <1>1, <1>2, PTL DEF Spec

-----------------------------------------------------------------------------
(* Whose tenant is whose. *)

SalePCs == {"provision", "insert", "key", "rollback", "unwind"}

\* What a request may be about by its step.
StepsOK ==
  \A r \in Requests :
    /\ req[r].pc \in SalePCs \cup {"node", "row"} => \E t \in Nodes \X Ids : req[r].held = {t}
    /\ req[r].pc \in {"provision", "insert"} => \A t \in req[r].held : t[1] = req[r].rec.node

\* Every tenant that a node, a call, a request or a row is about.
HeldNow == UNION {req[r].held : r \in Requests}

Mentioned == tenants \cup {c.tenant : c \in wire} \cup HeldNow \cup {<<subs[i].node, i>> : i \in Sold}

\* A tenant id belongs to one node.
OneHome ==
  /\ \A t \in Mentioned : t[2] \in drawn
  /\ \A s, t \in Mentioned : s[2] = t[2] => s[1] = t[1]

\* The id of a sale that has not been recorded is nobody else's.
FreshOK ==
  \A r \in Requests : req[r].pc \in {"provision", "insert"} => \A t \in req[r].held :
    /\ t[2] \notin Sold
    /\ \A q \in Requests \ {r} : \A s \in req[q].held : s[2] # t[2]
    /\ \A c \in wire : c.tenant[2] # t[2]

\* A late CreateTenant is of a sale that was given up.
WireOK == \A c \in wire : c.op = "create" => c.tenant \in abandoned

\* A row that is about to go has no tenant, unless one was given up.
GoneOK == \A r \in Requests : req[r].pc \in {"row", "unwind"} => req[r].held \cap tenants \subseteq abandoned

\* What is left of a customer that is being deleted is in the request's hands.
EachOK ==
  \A r \in Requests : At(r, "each") => \A i \in SubsOf(req[r].rec.customer) :
    <<subs[i].node, i>> \in tenants => <<subs[i].node, i>> \in req[r].held \cup abandoned

HomeInv == TypeOK /\ StepsOK /\ OneHome /\ FreshOK

CustodyInv == WireOK /\ GoneOK /\ EachOK /\ Custody

-----------------------------------------------------------------------------
(* What a handler's step does. *)

\* The steps of a sale, and of the deletion of a subscription or a node.
Moves == {<<"provision", "insert">>, <<"insert", "key">>, <<"insert", "rollback">>,
          <<"key", "rollback">>, <<"rollback", "unwind">>, <<"node", "row">>,
          <<"count", "deregister">>}

Listed(c) == {<<subs[i].node, i>> : i \in SubsOf(c)}

\* It moves its own request, or answers it.
Moved(r) ==
  /\ \A q \in Requests \ {r} : req'[q] = req[q]
  /\ \/ req'[r] = Idle
     \/ /\ req'[r].rec = req[r].rec
        /\ \/ <<req[r].pc, req'[r].pc>> \in Moves /\ req'[r].held = req[r].held
           \/ At(r, "each") /\ At(r, "each")' /\ req'[r].held \subseteq req[r].held
           \/ At(r, "list") /\ At(r, "each")' /\ req'[r].held = Listed(req[r].rec.customer)

LEMMA IdleParts == Idle.pc = "idle" /\ Idle.held = {}
BY DEF Idle

LEMMA GoMoves ==
  ASSUME TypeOK, NEW r \in Requests, NEW pc \in PCs, <<req[r].pc, pc>> \in Moves, Go(r, pc)
  PROVE  Moved(r) /\ req'[r].pc = pc /\ req'[r].keyed = req[r].keyed
<1>1. req[r] \in RequestStates /\ req \in [Requests -> RequestStates]
  BY DEF TypeOK
<1>2. req'[r] = [req[r] EXCEPT !.pc = pc]
  BY <1>1 DEF Go
<1>3. req'[r].pc = pc /\ req'[r].rec = req[r].rec /\ req'[r].held = req[r].held
      /\ req'[r].keyed = req[r].keyed
  BY <1>1, <1>2 DEF RequestStates
<1>4. \A q \in Requests \ {r} : req'[q] = req[q]
  BY <1>1 DEF Go
<1> QED BY <1>3, <1>4 DEF Moved

LEMMA AnswerMoves == ASSUME TypeOK, NEW r \in Requests, Answer(r) PROVE Moved(r) /\ req'[r] = Idle
BY DEF Answer, Moved, TypeOK

LEMMA HandleMoves ==
  ASSUME TypeOK, NEW r \in Requests, Handle(r)
  PROVE  Moved(r) /\ UNCHANGED <<drawn, limits>> /\ abandoned \subseteq abandoned' /\ ~At(r, "idle")
<1>1. UNCHANGED <<drawn, limits>> /\ abandoned \subseteq abandoned'
  BY DEF Handle, CreateTenant, InsertSubscription, CreateAPIKey, RollbackTenant, UnwindSubscription,
         DeprovisionTenant, DeleteSubscriptionRow, ListSubscriptions, DeprovisionNext, DropCustomer,
         DeletePlan, CountSubscriptions, DeleteNode
<1>2. ~At(r, "idle")
  BY DEF Handle, CreateTenant, InsertSubscription, CreateAPIKey, RollbackTenant, UnwindSubscription,
         DeprovisionTenant, DeleteSubscriptionRow, ListSubscriptions, DeprovisionNext, DropCustomer,
         DeletePlan, CountSubscriptions, DeleteNode, At
<1>3. Moved(r)
  <2>1. CASE Answer(r)
    BY <2>1, AnswerMoves
  <2>2. CASE CreateTenant(r)
    BY <2>1, <2>2, GoMoves DEF CreateTenant, At, Moves, PCs
  <2>3. CASE InsertSubscription(r)
    BY <2>3, GoMoves DEF InsertSubscription, At, Moves, PCs
  <2>4. CASE CreateAPIKey(r)
    <3>1. CASE req' = [req EXCEPT ![r].pc = "rollback", ![r].keyed = TRUE]
      <4>1. /\ req'[r].pc = "rollback" /\ req'[r].rec = req[r].rec /\ req'[r].held = req[r].held
            /\ \A q \in Requests \ {r} : req'[q] = req[q]
        BY <3>1 DEF TypeOK, RequestStates
      <4> QED BY <2>4, <4>1 DEF CreateAPIKey, Moved, Moves, At
    <3> QED BY <2>1, <2>4, <3>1 DEF CreateAPIKey
  <2>5. CASE RollbackTenant(r)
    BY <2>1, <2>5, GoMoves DEF RollbackTenant, At, Moves, PCs
  <2>6. CASE DeprovisionTenant(r)
    BY <2>1, <2>6, GoMoves DEF DeprovisionTenant, At, Moves, PCs
  <2>7. CASE ListSubscriptions(r)
    <3>1. CASE req' = [req EXCEPT ![r].pc = "each", ![r].held = Listed(req[r].rec.customer)]
      <4> DEFINE held == Listed(req[r].rec.customer)
      <4> HIDE DEF held
      <4>1. /\ req'[r].pc = "each" /\ req'[r].rec = req[r].rec /\ req'[r].held = held
            /\ \A q \in Requests \ {r} : req'[q] = req[q]
        BY <3>1 DEF TypeOK, RequestStates, held
      <4> QED BY <2>7, <4>1 DEF ListSubscriptions, Moved, At, held
    <3> QED BY <2>1, <2>7, <3>1 DEF ListSubscriptions, Listed
  <2>8. CASE DeprovisionNext(r)
    <3>1. ASSUME NEW t \in req[r].held, req' = [req EXCEPT ![r].held = @ \ {t}] PROVE Moved(r)
      <4>1. /\ req'[r].pc = req[r].pc /\ req'[r].rec = req[r].rec /\ req'[r].held = req[r].held \ {t}
            /\ \A q \in Requests \ {r} : req'[q] = req[q]
        BY <3>1 DEF TypeOK, RequestStates
      <4> QED BY <2>8, <4>1 DEF DeprovisionNext, Moved, At
    <3> QED BY <2>1, <2>8, <3>1 DEF DeprovisionNext
  <2>9. CASE CountSubscriptions(r)
    BY <2>1, <2>9, GoMoves DEF CountSubscriptions, At, Moves, PCs
  <2> QED BY <2>1, <2>2, <2>3, <2>4, <2>5, <2>6, <2>7, <2>8, <2>9
          DEF Handle, UnwindSubscription, DeleteSubscriptionRow, DropCustomer, DeletePlan, DeleteNode
<1> QED BY <1>1, <1>2, <1>3

\* It calls a node about a tenant it holds: to create it, once, or to delete it.
Creates(r, t) ==
  /\ At(r, "provision")
  /\ \/ tenants' = tenants \cup {t} /\ UNCHANGED <<wire, abandoned>> /\ At(r, "insert")'
     \/ /\ req'[r] = Idle /\ t \in abandoned'
        /\ \/ UNCHANGED wire /\ tenants' \in {tenants, tenants \cup {t}}
           \/ wire' = wire \cup {Create(t)} /\ UNCHANGED tenants

Deletes(r, t) ==
  /\ req[r].pc \in {"rollback", "node", "each"}
  /\ \/ UNCHANGED wire /\ tenants' \in {tenants, tenants \ {t}}
     \/ wire' = wire \cup {Delete(t)} /\ UNCHANGED tenants

CallStep(r) ==
  UNCHANGED <<tenants, wire>> \/ \E t \in req[r].held : Creates(r, t) \/ Deletes(r, t)

LEMMA CallDoes ==
  ASSUME NEW c, Answered(c) \/ Failed(c)
  PROVE  \/ UNCHANGED <<tenants, wire>>
         \/ Serve(c) /\ UNCHANGED wire
         \/ wire' = wire \cup {c} /\ UNCHANGED tenants
BY DEF Answered, Failed, network

LEMMA HandleCalls == ASSUME TypeOK, NEW r \in Requests, Handle(r) PROVE CallStep(r)
<1>1. ASSUME NEW t PROVE
        /\ Serve(Create(t)) => tenants' = tenants \cup {t}
        /\ Serve(Delete(t)) => tenants' = tenants \ {t}
  BY DEF Serve, Create, Delete
<1>2. ASSUME NEW t \in req[r].held, Answered(Delete(t)) \/ Failed(Delete(t)),
             req[r].pc \in {"rollback", "node", "each"}
      PROVE  CallStep(r)
  BY <1>1, <1>2, CallDoes DEF CallStep, Deletes
<1>3. CASE CreateTenant(r)
  <2>1. PICK t \in req[r].held :
          \/ Answered(Create(t)) /\ Go(r, "insert") /\ UNCHANGED abandoned
          \/ Failed(Create(t)) /\ Answer(r) /\ abandoned' = abandoned \cup {t}
    BY <1>3 DEF CreateTenant
  <2>2. At(r, "provision")
    BY <1>3 DEF CreateTenant
  <2>3. CASE Answered(Create(t)) /\ Go(r, "insert") /\ UNCHANGED abandoned
    <3>1. req'[r].pc = "insert"
      BY <2>2, <2>3, GoMoves DEF At, Moves, PCs
    <3> QED BY <1>1, <2>2, <2>3, <3>1 DEF CallStep, Creates, Answered, At
  <2>4. CASE Failed(Create(t)) /\ Answer(r) /\ abandoned' = abandoned \cup {t}
    <3>1. req'[r] = Idle
      BY <2>4, AnswerMoves
    <3> QED BY <1>1, <2>2, <2>4, <3>1, CallDoes DEF CallStep, Creates
  <2> QED BY <2>1, <2>3, <2>4
<1>4. CASE RollbackTenant(r)
  BY <1>2, <1>4 DEF RollbackTenant, At
<1>5. CASE DeprovisionTenant(r)
  BY <1>2, <1>5 DEF DeprovisionTenant, At
<1>6. CASE DeprovisionNext(r)
  BY <1>2, <1>6 DEF DeprovisionNext, At, CallStep
<1> QED BY <1>3, <1>4, <1>5, <1>6
        DEF Handle, InsertSubscription, CreateAPIKey, UnwindSubscription, DeleteSubscriptionRow,
            ListSubscriptions, DropCustomer, DeletePlan, CountSubscriptions, DeleteNode, CallStep

\* It removes rows, or records the sale.
Records(r) ==
  /\ At(r, "insert") /\ At(r, "key")' /\ ReferencesValid(req[r].rec)
  /\ \E t \in req[r].held : subs' = [subs EXCEPT ![t[2]] = req[r].rec]
  /\ UNCHANGED <<tenants, wire, abandoned, customers>>

Removes(r) ==
  /\ req[r].pc \in {"row", "unwind"} /\ req'[r] = Idle
  /\ \E t \in req[r].held : subs' = [subs EXCEPT ![t[2]] = NoSub]
  /\ UNCHANGED <<tenants, wire, abandoned, customers>>

Drops(r) ==
  /\ At(r, "each") /\ req[r].held = {} /\ req'[r] = Idle
  /\ customers' = customers \ {req[r].rec.customer}
  /\ subs' = [i \in Ids |-> IF i \in SubsOf(req[r].rec.customer) THEN NoSub ELSE subs[i]]
  /\ UNCHANGED <<tenants, wire, abandoned>>

LEMMA HandleRows ==
  ASSUME TypeOK, NEW r \in Requests, Handle(r)
  PROVE  UNCHANGED <<subs, customers>> \/ Records(r) \/ Removes(r) \/ Drops(r)
<1>1. CASE InsertSubscription(r)
  <2>1. At(r, "insert") /\ UNCHANGED <<tenants, wire, abandoned, customers>>
    BY <1>1 DEF InsertSubscription
  <2>2. Go(r, "key") => At(r, "key")'
    BY <2>1, GoMoves DEF At, Moves, PCs
  <2> QED BY <1>1, <2>1, <2>2 DEF InsertSubscription, Records
<1>2. CASE UnwindSubscription(r) \/ DeleteSubscriptionRow(r)
  <2>1. req'[r] = Idle
    BY <1>2, AnswerMoves DEF UnwindSubscription, DeleteSubscriptionRow
  <2> QED BY <1>2, <2>1 DEF UnwindSubscription, DeleteSubscriptionRow, RemoveRow, Removes, At
<1>3. CASE DropCustomer(r)
  <2>1. req'[r] = Idle
    BY <1>3, AnswerMoves DEF DropCustomer
  <2> QED BY <1>3, <2>1 DEF DropCustomer, Drops
<1> QED BY <1>1, <1>2, <1>3
        DEF Handle, CreateTenant, CreateAPIKey, RollbackTenant, DeprovisionTenant, ListSubscriptions,
            DeprovisionNext, DeletePlan, CountSubscriptions, DeleteNode, tables

\* A request that arrives draws an id, or is about rows that are there.
Arrived(r) ==
  /\ At(r, "idle") /\ UNCHANGED <<customers, subs, tenants, wire, faults, abandoned, crashes>>
  /\ \A q \in Requests \ {r} : req'[q] = req[q]
  /\ \/ \E n \in Nodes, i \in Ids \ drawn :
          /\ At(r, "provision")' /\ req'[r].held = {<<n, i>>} /\ req'[r].rec.node = n
          /\ drawn' = drawn \cup {i}
     \/ /\ drawn' = drawn /\ At(r, "node")'
        /\ \E i \in Sold : req'[r].held = {<<subs[i].node, i>>}
     \/ /\ drawn' = drawn /\ req'[r].pc \in {"list", "plan", "count"} /\ req'[r].held = {}

LEMMA ReceiveDoes ==
  ASSUME TypeOK, NEW r \in Requests, NEW state, Receive(r, state)
  PROVE  /\ At(r, "idle") /\ UNCHANGED <<customers, subs, tenants, wire, faults, abandoned, crashes>>
         /\ \A q \in Requests \ {r} : req'[q] = req[q]
         /\ req'[r] = state
BY DEF Receive, TypeOK, tables, network

LEMMA ArriveDoes == ASSUME TypeOK, NEW r \in Requests, Arrive(r) PROVE Arrived(r)
<1>1. CASE ReceiveCreate(r)
  <2>1. PICK c \in customers, p \in plans, n \in nodes, i \in Ids \ drawn :
          /\ Receive(r, [Idle EXCEPT !.pc = "provision", !.held = {<<n, i>>},
                                     !.rec = [customer |-> c, plan |-> p, node |-> n]])
          /\ drawn' = drawn \cup {i}
    BY <1>1 DEF ReceiveCreate
  <2> DEFINE state == [Idle EXCEPT !.pc = "provision", !.held = {<<n, i>>},
                                   !.rec = [customer |-> c, plan |-> p, node |-> n]]
  <2>2. state.pc = "provision" /\ state.held = {<<n, i>>} /\ state.rec.node = n /\ n \in Nodes
    BY DEF Idle, TypeOK
  <2>3. req'[r] = state
    BY <2>1, ReceiveDoes
  <2> HIDE DEF state
  <2> QED BY <1>1, <2>1, <2>2, <2>3, ReceiveDoes DEF Arrived, At, ReceiveCreate
<1>2. CASE ReceiveDeleteSubscription(r)
  <2>1. PICK i \in Sold :
          Receive(r, [Idle EXCEPT !.pc = "node", !.held = {<<subs[i].node, i>>}, !.rec = subs[i]])
    BY <1>2 DEF ReceiveDeleteSubscription
  <2> DEFINE state == [Idle EXCEPT !.pc = "node", !.held = {<<subs[i].node, i>>}, !.rec = subs[i]]
  <2>2. state.pc = "node" /\ state.held = {<<subs[i].node, i>>}
    BY DEF Idle
  <2>3. req'[r] = state
    BY <2>1, ReceiveDoes
  <2> HIDE DEF state
  <2> QED BY <1>2, <2>1, <2>2, <2>3, ReceiveDoes DEF Arrived, At, ReceiveDeleteSubscription
<1>3. CASE ReceiveDeleteCustomer(r)
  <2>1. PICK c \in customers : Receive(r, [Idle EXCEPT !.pc = "list", !.rec.customer = c])
    BY <1>3 DEF ReceiveDeleteCustomer
  <2>2. req'[r] = [Idle EXCEPT !.pc = "list", !.rec.customer = c]
    BY <2>1, ReceiveDoes
  <2>3. req'[r].pc = "list" /\ req'[r].held = {}
    BY <2>2 DEF Idle
  <2> QED BY <1>3, <2>1, <2>3, ReceiveDoes DEF Arrived, At, ReceiveDeleteCustomer
<1>4. CASE ReceiveDeletePlan(r)
  <2>1. PICK p \in plans : Receive(r, [Idle EXCEPT !.pc = "plan", !.rec.plan = p])
    BY <1>4 DEF ReceiveDeletePlan
  <2>2. req'[r] = [Idle EXCEPT !.pc = "plan", !.rec.plan = p]
    BY <2>1, ReceiveDoes
  <2>3. req'[r].pc = "plan" /\ req'[r].held = {}
    BY <2>2 DEF Idle
  <2> QED BY <1>4, <2>1, <2>3, ReceiveDoes DEF Arrived, At, ReceiveDeletePlan
<1>5. CASE ReceiveDeleteNode(r)
  <2>1. PICK n \in nodes : Receive(r, [Idle EXCEPT !.pc = "count", !.rec.node = n])
    BY <1>5 DEF ReceiveDeleteNode
  <2>2. req'[r] = [Idle EXCEPT !.pc = "count", !.rec.node = n]
    BY <2>1, ReceiveDoes
  <2>3. req'[r].pc = "count" /\ req'[r].held = {}
    BY <2>2 DEF Idle
  <2> QED BY <1>5, <2>1, <2>3, ReceiveDoes DEF Arrived, At, ReceiveDeleteNode
<1> QED BY <1>1, <1>2, <1>3, <1>4, <1>5 DEF Arrive

-----------------------------------------------------------------------------
(* One home for each tenant. *)

LEMMA MentionedParts ==
  /\ \A t \in tenants : t \in Mentioned
  /\ \A c \in wire : c.tenant \in Mentioned
  /\ \A r \in Requests : \A t \in req[r].held : t \in Mentioned
  /\ \A i \in Sold : <<subs[i].node, i>> \in Mentioned
BY DEF Mentioned, HeldNow

LEMMA SoldTyped ==
  ASSUME TypeOK, NEW i \in Sold
  PROVE  subs[i] \in SubRecords /\ i \in Ids /\ subs[i].node \in Nodes
BY DEF TypeOK, Sold, SubRecords

\* A handler may come to hold what rows name, and nothing else.
LEMMA HeldStep ==
  ASSUME NEW r \in Requests, Moved(r), NEW q \in Requests, NEW s \in req'[q].held
  PROVE  s \in req[q].held \/ (q = r /\ \E i \in Sold : s = <<subs[i].node, i>>)
BY IdleParts DEF Moved, Listed, SubsOf

\* Rows are only removed, but for the one a sale records.
LEMMA SoldStep ==
  ASSUME HomeInv, NEW r \in Requests, Handle(r), NEW i \in Sold'
  PROVE  \/ i \in Sold /\ subs'[i] = subs[i]
         \/ Records(r) /\ <<subs'[i].node, i>> \in req[r].held /\ subs'[i] = req[r].rec
<1>1. TypeOK /\ i \in Ids /\ subs'[i] # NoSub /\ subs \in [Ids -> SubRecords \cup {NoSub}]
  BY DEF HomeInv, TypeOK, Sold
<1>2. CASE Records(r)
  <2>1. PICK t \in req[r].held : subs' = [subs EXCEPT ![t[2]] = req[r].rec]
    BY <1>2 DEF Records
  <2>2. At(r, "insert") /\ t \in Nodes \X Ids /\ t[1] = req[r].rec.node
    BY <1>1, <1>2, RequestParts DEF HomeInv, StepsOK, Records, At
  <2>3. CASE i = t[2]
    <3>1. t = <<t[1], t[2]>> /\ subs'[i] = req[r].rec
      BY <1>1, <2>1, <2>2, <2>3
    <3> QED BY <1>2, <2>2, <2>3, <3>1
  <2>4. CASE i # t[2]
    BY <1>1, <2>1, <2>4 DEF Sold
  <2> QED BY <2>3, <2>4
<1>3. CASE UNCHANGED subs \/ Removes(r) \/ Drops(r)
  BY <1>1, <1>3 DEF Removes, Drops, Sold
<1> QED BY <1>1, <1>2, <1>3, HandleRows

\* A handler's step brings up no tenant that was not there to be mentioned.
LEMMA MentionedStep ==
  ASSUME HomeInv, NEW r \in Requests, Handle(r)
  PROVE  Mentioned' \subseteq Mentioned
<1>1. TypeOK /\ Moved(r) /\ CallStep(r)
  BY HandleMoves, HandleCalls DEF HomeInv
<1>2. ASSUME NEW t \in tenants' PROVE t \in Mentioned
  BY <1>1, <1>2, MentionedParts DEF CallStep, Creates, Deletes
<1>3. ASSUME NEW c \in wire' PROVE c.tenant \in Mentioned
  BY <1>1, <1>3, MentionedParts DEF CallStep, Creates, Deletes, Create, Delete
<1>4. ASSUME NEW q \in Requests, NEW t \in req'[q].held PROVE t \in Mentioned
  BY <1>1, <1>4, HeldStep, MentionedParts
<1>5. ASSUME NEW i \in Sold' PROVE <<subs'[i].node, i>> \in Mentioned
  BY <1>5, SoldStep, MentionedParts
<1> QED BY <1>2, <1>3, <1>4, <1>5 DEF Mentioned, HeldNow

LEMMA HandleHome == ASSUME HomeInv, NEW r \in Requests, Handle(r) PROVE HomeInv'
<1>1. /\ TypeOK /\ StepsOK /\ OneHome /\ FreshOK /\ Moved(r) /\ CallStep(r) /\ UNCHANGED drawn
      /\ ~At(r, "idle")
  BY HandleMoves, HandleCalls DEF HomeInv
<1>2. TypeOK'
  BY <1>1, NextTypes DEF Next
<1>3. OneHome'
  BY <1>1, MentionedStep DEF OneHome
<1>4. StepsOK'
  <2>1. ASSUME NEW q \in Requests
        PROVE  /\ req'[q].pc \in SalePCs \cup {"node", "row"} =>
                    \E t \in Nodes \X Ids : req'[q].held = {t}
               /\ req'[q].pc \in {"provision", "insert"} =>
                    \A t \in req'[q].held : t[1] = req'[q].rec.node
    <3>1. CASE q # r
      BY <1>1, <3>1 DEF Moved, StepsOK
    <3>2. CASE q = r /\ req'[r] = Idle
      BY <3>2, IdleParts DEF SalePCs
    <3>3. CASE q = r /\ <<req[r].pc, req'[r].pc>> \in Moves /\ req'[r].held = req[r].held
               /\ req'[r].rec = req[r].rec
      BY <1>1, <3>3 DEF Moves, StepsOK, SalePCs
    <3>4. CASE q = r /\ req[r].pc \in {"list", "each"} /\ At(r, "each")'
      BY <1>1, <3>4 DEF StepsOK, SalePCs, At
    <3> QED BY <1>1, <3>1, <3>2, <3>3, <3>4 DEF Moved, At
  <2> QED BY <2>1 DEF StepsOK
<1>5. FreshOK'
  <2> SUFFICES ASSUME NEW q \in Requests, req'[q].pc \in {"provision", "insert"}, NEW t \in req'[q].held
               PROVE  /\ t[2] \notin Sold'
                      /\ \A p \in Requests \ {q} : \A s \in req'[p].held : s[2] # t[2]
                      /\ \A c \in wire' : c.tenant[2] # t[2]
    BY DEF FreshOK
  <2>1. /\ t \in req[q].held /\ req[q].pc \in {"provision", "insert"}
        /\ q = r => At(r, "provision") /\ At(r, "insert")'
    BY <1>1, IdleParts DEF Moved, Moves, At
  <2>2. /\ t[2] \notin Sold
        /\ \A p \in Requests \ {q} : \A s \in req[p].held : s[2] # t[2]
        /\ \A c \in wire : c.tenant[2] # t[2]
    BY <1>1, <2>1 DEF FreshOK
  <2>3. t[2] \notin Sold'
    <3>1. ASSUME t[2] \in Sold' PROVE FALSE
      <4>1. Records(r) /\ <<subs'[t[2]].node, t[2]>> \in req[r].held
        BY <2>2, <3>1, SoldStep
      <4>2. r # q
        BY <2>1, <4>1 DEF Records, At
      <4> QED BY <2>2, <4>1, <4>2
    <3> QED BY <3>1
  <2>4. ASSUME NEW p \in Requests \ {q}, NEW s \in req'[p].held PROVE s[2] # t[2]
    BY <1>1, <2>2, <2>4, HeldStep
  <2>5. ASSUME NEW c \in wire' PROVE c.tenant[2] # t[2]
    <3>1. CASE c \in wire
      BY <2>2, <3>1
    <3>2. CASE c \notin wire
      <4>1. c.tenant \in req[r].held /\ q # r
        BY <1>1, <2>1, <2>5, <3>2, IdleParts DEF CallStep, Creates, Deletes, Create, Delete, At
      <4> QED BY <2>2, <4>1
    <3> QED BY <3>1, <3>2
  <2> QED BY <2>3, <2>4, <2>5
<1> QED BY <1>2, <1>3, <1>4, <1>5 DEF HomeInv

LEMMA ArriveHome == ASSUME HomeInv, NEW r \in Requests, Arrive(r) PROVE HomeInv'
<1>1. /\ TypeOK /\ StepsOK /\ OneHome /\ FreshOK /\ Arrived(r)
      /\ UNCHANGED <<subs, tenants, wire>> /\ Sold' = Sold
  BY ArriveDoes DEF HomeInv, Arrived, Sold
<1>2. TypeOK'
  BY <1>1, NextTypes DEF Next
<1>3. StepsOK'
  <2>1. ASSUME NEW q \in Requests
        PROVE  /\ req'[q].pc \in SalePCs \cup {"node", "row"} =>
                    \E t \in Nodes \X Ids : req'[q].held = {t}
               /\ req'[q].pc \in {"provision", "insert"} =>
                    \A t \in req'[q].held : t[1] = req'[q].rec.node
    <3>1. CASE q # r
      BY <1>1, <3>1 DEF Arrived, StepsOK
    <3>2. CASE q = r
      <4>1. \A i \in Sold : <<subs[i].node, i>> \in Nodes \X Ids
        BY <1>1, SoldTyped
      <4>2. CASE At(r, "provision")'
        <5>1. PICK n \in Nodes, i \in Ids \ drawn :
                req'[r].held = {<<n, i>>} /\ req'[r].rec.node = n
          BY <1>1, <4>2 DEF Arrived, At
        <5>2. <<n, i>> \in Nodes \X Ids /\ <<n, i>>[1] = n
          OBVIOUS
        <5> QED BY <3>2, <4>2, <5>1, <5>2 DEF At, SalePCs
      <4>3. CASE At(r, "node")'
        BY <1>1, <3>2, <4>1, <4>3 DEF Arrived, At, SalePCs
      <4>4. CASE req'[r].pc \in {"list", "plan", "count"}
        BY <1>1, <3>2, <4>4 DEF Arrived, At, SalePCs
      <4> QED BY <1>1, <4>2, <4>3, <4>4 DEF Arrived
    <3> QED BY <3>1, <3>2
  <2> QED BY <2>1 DEF StepsOK
<1>4. CASE \E n \in Nodes, i \in Ids \ drawn :
             /\ At(r, "provision")' /\ req'[r].held = {<<n, i>>} /\ req'[r].rec.node = n
             /\ drawn' = drawn \cup {i}
  <2>1. PICK n \in Nodes, i \in Ids \ drawn :
             /\ At(r, "provision")' /\ req'[r].held = {<<n, i>>} /\ drawn' = drawn \cup {i}
    BY <1>4
  <2>2. Mentioned' \subseteq Mentioned \cup {<<n, i>>}
    <3>1. ASSUME NEW q \in Requests, NEW t \in req'[q].held PROVE t \in Mentioned \cup {<<n, i>>}
      BY <1>1, <2>1, <3>1, MentionedParts DEF Arrived
    <3>2. tenants \cup {c.tenant : c \in wire} \cup {<<subs[j].node, j>> : j \in Sold} \subseteq Mentioned
      BY DEF Mentioned
    <3> QED BY <1>1, <3>1, <3>2 DEF Mentioned, HeldNow
  <2>3. \A t \in Mentioned : t[2] \in drawn /\ t[2] # i
    BY <1>1 DEF OneHome
  <2>4. OneHome'
    BY <1>1, <2>1, <2>2, <2>3 DEF OneHome
  <2>5. FreshOK'
    <3> SUFFICES ASSUME NEW q \in Requests, req'[q].pc \in {"provision", "insert"}, NEW t \in req'[q].held
                 PROVE  /\ t[2] \notin Sold
                        /\ \A p \in Requests \ {q} : \A s \in req'[p].held : s[2] # t[2]
                        /\ \A c \in wire : c.tenant[2] # t[2]
      BY <1>1 DEF FreshOK
    <3>1. CASE q = r
      <4>1. t[2] = i
        BY <2>1, <3>1
      <4>2. \A j \in Sold : <<subs[j].node, j>>[2] # i
        BY <2>3, MentionedParts
      <4> QED BY <1>1, <2>3, <3>1, <4>1, <4>2, MentionedParts DEF Arrived
    <3>2. CASE q # r
      <4>1. req'[q] = req[q] /\ t \in Mentioned
        BY <1>1, <3>2, MentionedParts DEF Arrived
      <4>2. t[2] # i
        BY <2>3, <4>1
      <4>3. ASSUME NEW p \in Requests \ {q}, NEW s \in req'[p].held PROVE s[2] # t[2]
        BY <1>1, <2>1, <4>1, <4>2, <4>3 DEF Arrived, FreshOK
      <4> QED BY <1>1, <4>1, <4>3 DEF FreshOK
    <3> QED BY <3>1, <3>2
  <2> QED BY <1>2, <1>3, <2>4, <2>5 DEF HomeInv
<1>5. CASE /\ drawn' = drawn /\ req'[r].pc \in {"node", "list", "plan", "count"}
           /\ \A t \in req'[r].held : \E i \in Sold : t = <<subs[i].node, i>>
  <2>1. Mentioned' \subseteq Mentioned
    <3>1. ASSUME NEW q \in Requests, NEW t \in req'[q].held PROVE t \in Mentioned
      BY <1>1, <1>5, <3>1, MentionedParts DEF Arrived
    <3>2. tenants \cup {c.tenant : c \in wire} \cup {<<subs[j].node, j>> : j \in Sold} \subseteq Mentioned
      BY DEF Mentioned
    <3> QED BY <1>1, <3>1, <3>2 DEF Mentioned, HeldNow
  <2>2. OneHome'
    BY <1>1, <1>5, <2>1 DEF OneHome
  <2>3. FreshOK'
    <3> SUFFICES ASSUME NEW q \in Requests, req'[q].pc \in {"provision", "insert"}, NEW t \in req'[q].held
                 PROVE  /\ t[2] \notin Sold
                        /\ \A p \in Requests \ {q} : \A s \in req'[p].held : s[2] # t[2]
                        /\ \A c \in wire : c.tenant[2] # t[2]
      BY <1>1 DEF FreshOK
    <3>1. q # r /\ req'[q] = req[q]
      BY <1>1, <1>5 DEF Arrived
    <3>2. t[2] \notin Sold
      BY <1>1, <3>1 DEF FreshOK
    <3>3. ASSUME NEW p \in Requests \ {q}, NEW s \in req'[p].held PROVE s[2] # t[2]
      BY <1>1, <1>5, <3>1, <3>2, <3>3 DEF Arrived, FreshOK
    <3> QED BY <1>1, <3>1, <3>2, <3>3 DEF FreshOK
  <2> QED BY <1>2, <1>3, <2>2, <2>3 DEF HomeInv
<1> QED BY <1>1, <1>4, <1>5 DEF Arrived, At

LEMMA OthersHome ==
  ASSUME HomeInv, ServeLate \/ Crash \/ UNCHANGED vars
  PROVE  HomeInv'
<1>1. TypeOK' /\ UNCHANGED <<drawn, subs>> /\ Sold' = Sold
  BY NextTypes DEF HomeInv, Next, ServeLate, Crash, vars, tables, Sold
<1>2. tenants' \subseteq tenants \cup {c.tenant : c \in wire} /\ wire' \subseteq wire
  BY DEF ServeLate, Serve, Crash, vars, network
<1>3. \A r \in Requests : req'[r] = req[r] \/ req'[r] = Idle
  BY DEF ServeLate, Crash, vars
<1>4. \A r \in Requests : req'[r].held \subseteq req[r].held
  BY <1>3, IdleParts
<1>5. Mentioned' \subseteq Mentioned
  BY <1>1, <1>2, <1>4 DEF Mentioned, HeldNow
<1>6. OneHome'
  BY <1>1, <1>5 DEF HomeInv, OneHome
<1>7. StepsOK'
  BY <1>3, IdleParts DEF HomeInv, StepsOK, SalePCs
<1>8. FreshOK'
  BY <1>1, <1>2, <1>3, <1>4, IdleParts DEF HomeInv, FreshOK
<1> QED BY <1>1, <1>6, <1>7, <1>8 DEF HomeInv

LEMMA InitHome == Init => HomeInv
<1> SUFFICES ASSUME Init PROVE HomeInv
  OBVIOUS
<1>1. TypeOK
  BY InitTypes
<1>2. Mentioned = {} /\ Sold = {}
  BY IdleParts DEF Init, Mentioned, HeldNow, Sold
<1> QED BY <1>1, <1>2, IdleParts DEF Init, HomeInv, StepsOK, SalePCs, OneHome, FreshOK

LEMMA NextHome == HomeInv /\ [Next]_vars => HomeInv'
BY HandleHome, ArriveHome, OthersHome DEF Next

LEMMA HomeKept == Spec => []HomeInv
BY InitHome, NextHome, PTL DEF Spec

-----------------------------------------------------------------------------
(* Custody. *)

\* What the calls that delete leave: a rollback its tenant gone or given up, a
\* deletion every tenant gone that it has answered for.
DeletedStep(r) ==
  /\ At(r, "rollback") => req[r].held \cap tenants' \subseteq abandoned'
  /\ At(r, "node") /\ At(r, "row")' => req[r].held \cap tenants' = {}
  /\ At(r, "each") /\ At(r, "each")' => (req[r].held \ req'[r].held) \cap tenants' = {}

LEMMA AnsweredDelete == ASSUME NEW t, Answered(Delete(t)) PROVE t \notin tenants'
BY DEF Answered, Serve, Delete

LEMMA HandleDeletes ==
  ASSUME HomeInv, NEW r \in Requests, Handle(r)
  PROVE  DeletedStep(r)
<1>1. TypeOK /\ StepsOK /\ req \in [Requests -> RequestStates] /\ req[r] \in RequestStates
  BY DEF HomeInv, TypeOK
<1>2. ASSUME At(r, "rollback") PROVE req[r].held \cap tenants' \subseteq abandoned'
  <2>1. RollbackTenant(r)
    BY <1>2 DEF Handle, CreateTenant, InsertSubscription, CreateAPIKey, RollbackTenant,
                UnwindSubscription, DeprovisionTenant, DeleteSubscriptionRow, ListSubscriptions,
                DeprovisionNext, DropCustomer, DeletePlan, CountSubscriptions, DeleteNode, At
  <2>2. PICK t : req[r].held = {t}
    BY <1>1, <1>2 DEF StepsOK, SalePCs, At
  <2>3. Answered(Delete(t)) \/ t \in abandoned'
    BY <2>1, <2>2 DEF RollbackTenant
  <2> QED BY <2>2, <2>3, AnsweredDelete
<1>3. ASSUME At(r, "node"), At(r, "row")' PROVE req[r].held \cap tenants' = {}
  <2>1. DeprovisionTenant(r)
    BY <1>3 DEF Handle, CreateTenant, InsertSubscription, CreateAPIKey, RollbackTenant,
                UnwindSubscription, DeprovisionTenant, DeleteSubscriptionRow, ListSubscriptions,
                DeprovisionNext, DropCustomer, DeletePlan, CountSubscriptions, DeleteNode, At
  <2>2. PICK t : req[r].held = {t}
    BY <1>1, <1>3 DEF StepsOK, At
  <2>3. Answered(Delete(t))
    BY <1>1, <1>3, <2>1, <2>2, AnswerMoves, IdleParts DEF DeprovisionTenant, At
  <2> QED BY <2>2, <2>3, AnsweredDelete
<1>4. ASSUME At(r, "each"), At(r, "each")' PROVE (req[r].held \ req'[r].held) \cap tenants' = {}
  <2>1. DeprovisionNext(r)
    BY <1>1, <1>4, AnswerMoves, IdleParts
       DEF Handle, CreateTenant, InsertSubscription, CreateAPIKey, RollbackTenant,
           UnwindSubscription, DeprovisionTenant, DeleteSubscriptionRow, ListSubscriptions,
           DeprovisionNext, DropCustomer, DeletePlan, CountSubscriptions, DeleteNode, At
  <2>2. PICK t \in req[r].held : Answered(Delete(t)) /\ req' = [req EXCEPT ![r].held = @ \ {t}]
    BY <1>1, <1>4, <2>1, AnswerMoves, IdleParts DEF DeprovisionNext, At
  <2>3. req'[r].held = req[r].held \ {t}
    BY <1>1, <2>2 DEF RequestStates
  <2> QED BY <2>2, <2>3, AnsweredDelete
<1> QED BY <1>2, <1>3, <1>4 DEF DeletedStep

\* An INSERT records the sale or leads to the rollback.
LEMMA HandleInserts ==
  ASSUME TypeOK, NEW r \in Requests, Handle(r), At(r, "insert")
  PROVE  /\ UNCHANGED <<tenants, wire>> /\ req'[r].held = req[r].held
         /\ Records(r) \/ (At(r, "rollback")' /\ UNCHANGED subs)
<1>1. InsertSubscription(r)
  BY DEF Handle, CreateTenant, InsertSubscription, CreateAPIKey, RollbackTenant,
         UnwindSubscription, DeprovisionTenant, DeleteSubscriptionRow, ListSubscriptions,
         DeprovisionNext, DropCustomer, DeletePlan, CountSubscriptions, DeleteNode, At
<1>2. ASSUME NEW pc \in {"key", "rollback"}, Go(r, pc)
      PROVE  req'[r].pc = pc /\ req'[r].held = req[r].held
  <2>1. req[r] \in RequestStates /\ req'[r] = [req[r] EXCEPT !.pc = pc]
    BY <1>2 DEF TypeOK, Go
  <2> QED BY <2>1 DEF RequestStates
<1> QED BY <1>1, <1>2 DEF InsertSubscription, Records, At

\* A tenant appears because a sale called its node.
LEMMA TenantAppears ==
  ASSUME TypeOK, NEW r \in Requests, Handle(r), NEW t \in tenants', t \notin tenants
  PROVE  At(r, "provision") /\ t \in req[r].held /\ (t \in abandoned' \/ At(r, "insert")')
BY HandleCalls DEF CallStep, Creates, Deletes

\* While a customer is being deleted nobody sells to it: what it has after a step
\* it had before.
LEMMA NobodySells ==
  ASSUME HomeInv, Apart, NEW r \in Requests, Handle(r), NEW q \in Requests, At(q, "each")',
         NEW i \in SubsOf(req[q].rec.customer)'
  PROVE  /\ req[q].pc \in {"list", "each"} /\ req'[q].rec = req[q].rec
         /\ q # r => req'[q] = req[q] /\ At(q, "each")
         /\ i \in SubsOf(req[q].rec.customer) /\ subs'[i] = subs[i]
         /\ <<subs[i].node, i>> \in tenants' => <<subs[i].node, i>> \in tenants
<1>1. TypeOK /\ Moved(r)
  BY HandleMoves DEF HomeInv
<1>2. /\ req[q].pc \in {"list", "each"} /\ req'[q].rec = req[q].rec
      /\ q # r => req'[q] = req[q] /\ At(q, "each")
  BY <1>1, IdleParts DEF Moved, Moves, At
<1>3. i \in Sold' /\ subs'[i].customer = req[q].rec.customer
  BY <1>2 DEF SubsOf
<1>4. i \in Sold /\ subs'[i] = subs[i]
  <2>1. ASSUME Records(r), subs'[i] = req[r].rec PROVE FALSE
    <3>1. At(r, "insert") /\ At(q, "each")
      BY <1>2, <2>1 DEF Records, At
    <3> QED BY <1>3, <2>1, <3>1 DEF Apart
  <2> QED BY <1>3, <2>1, SoldStep
<1>5. <<subs[i].node, i>> \in tenants' => <<subs[i].node, i>> \in tenants
  <2>1. ASSUME <<subs[i].node, i>> \in tenants', <<subs[i].node, i>> \notin tenants PROVE FALSE
    <3>1. At(r, "provision") /\ <<subs[i].node, i>> \in req[r].held
      BY <1>1, <2>1, TenantAppears
    <3> QED BY <1>4, <3>1 DEF HomeInv, FreshOK, At
  <2> QED BY <2>1
<1> QED BY <1>2, <1>3, <1>4, <1>5 DEF SubsOf

LEMMA WireKept ==
  ASSUME HomeInv, CustodyInv, NEW r \in Requests, Handle(r)
  PROVE  WireOK'
<1>1. CallStep(r) /\ abandoned \subseteq abandoned' /\ WireOK
  BY HandleMoves, HandleCalls DEF HomeInv, CustodyInv
<1> QED BY <1>1 DEF CallStep, Creates, Deletes, Create, Delete, WireOK

LEMMA GoneKept ==
  ASSUME HomeInv, CustodyInv, NEW r \in Requests, Handle(r)
  PROVE  GoneOK'
<1>1. TypeOK /\ Moved(r) /\ abandoned \subseteq abandoned' /\ GoneOK /\ DeletedStep(r)
  BY HandleMoves, HandleDeletes DEF HomeInv, CustodyInv
<1> SUFFICES ASSUME NEW q \in Requests, req'[q].pc \in {"row", "unwind"}, NEW t \in req'[q].held,
                    t \in tenants'
             PROVE  t \in abandoned'
  BY DEF GoneOK
<1>2. CASE q # r
  <2>1. req'[q] = req[q]
    BY <1>1, <1>2 DEF Moved
  <2>2. CASE t \in tenants
    BY <1>1, <2>1, <2>2 DEF GoneOK
  <2>3. CASE t \notin tenants
    <3>1. At(r, "provision") /\ t \in req[r].held
      BY <1>1, <2>3, TenantAppears
    <3>2. \A s \in req[q].held : s[2] # t[2]
      BY <1>2, <3>1 DEF HomeInv, FreshOK, At
    <3> QED BY <2>1, <3>2
  <2> QED BY <2>2, <2>3
<1>3. CASE q = r
  BY <1>1, <1>3, IdleParts DEF Moved, Moves, DeletedStep, At
<1> QED BY <1>2, <1>3

LEMMA EachKept ==
  ASSUME HomeInv, CustodyInv, Apart, NEW r \in Requests, Handle(r)
  PROVE  EachOK'
<1>1. /\ TypeOK /\ StepsOK /\ Moved(r) /\ abandoned \subseteq abandoned' /\ EachOK /\ DeletedStep(r)
  BY HandleMoves, HandleDeletes DEF HomeInv, CustodyInv
<1> SUFFICES ASSUME NEW q \in Requests, At(q, "each")', NEW i \in SubsOf(req[q].rec.customer)',
                    <<subs'[i].node, i>> \in tenants'
             PROVE  <<subs'[i].node, i>> \in req'[q].held \cup abandoned'
  BY DEF EachOK
<1>2. /\ req[q].pc \in {"list", "each"} /\ req'[q].rec = req[q].rec
      /\ q # r => req'[q] = req[q] /\ At(q, "each")
      /\ i \in SubsOf(req[q].rec.customer) /\ subs'[i] = subs[i]
      /\ <<subs[i].node, i>> \in tenants
  BY NobodySells
<1>3. CASE q # r
  BY <1>1, <1>2, <1>3 DEF EachOK
<1>4. CASE q = r /\ At(r, "list")
  <2>1. req'[r].held = Listed(req[r].rec.customer)
    BY <1>1, <1>4, IdleParts DEF Moved, Moves, At
  <2> QED BY <1>2, <1>4, <2>1 DEF Listed
<1>5. CASE q = r /\ At(r, "each")
  <2>1. <<subs[i].node, i>> \in req[r].held \cup abandoned
    BY <1>2, <1>5 DEF EachOK, CustodyInv
  <2> QED BY <1>1, <1>2, <1>5, <2>1 DEF DeletedStep
<1> QED BY <1>2, <1>3, <1>4, <1>5 DEF At

\* A row that goes has no tenant left but one given up.
LEMMA RowGone ==
  ASSUME HomeInv, CustodyInv, NEW r \in Requests, Handle(r), NEW t \in tenants,
         t[2] \in Sold, subs[t[2]].node = t[1], ~(t[2] \in Sold' /\ subs'[t[2]].node = t[1])
  PROVE  t \in abandoned
<1>1. TypeOK /\ OneHome /\ t \in Nodes \X Ids /\ t = <<t[1], t[2]>> /\ subs \in [Ids -> SubRecords \cup {NoSub}]
  BY DEF HomeInv, TypeOK
<1>2. ~UNCHANGED subs
  BY DEF Sold
<1>3. CASE Records(r)
  <2>1. PICK s \in req[r].held : subs' = [subs EXCEPT ![s[2]] = req[r].rec]
    BY <1>3 DEF Records
  <2>2. s[2] # t[2]
    BY <1>3, <2>1 DEF HomeInv, FreshOK, Records, At
  <2> QED BY <1>1, <2>1, <2>2 DEF Sold
<1>4. CASE Removes(r)
  <2>1. PICK s \in req[r].held : subs' = [subs EXCEPT ![s[2]] = NoSub]
    BY <1>4 DEF Removes
  <2>2. s[2] = t[2]
    BY <1>1, <2>1 DEF Sold
  <2>3. s = t
    BY <1>1, <2>1, <2>2, MentionedParts, RequestParts DEF OneHome
  <2> QED BY <1>4, <2>1, <2>3 DEF Removes, CustodyInv, GoneOK
<1>5. CASE Drops(r)
  <2>1. t[2] \in SubsOf(req[r].rec.customer)
    BY <1>1, <1>5 DEF Drops, Sold
  <2> QED BY <1>1, <1>5, <2>1 DEF Drops, CustodyInv, EachOK
<1> QED BY <1>1, <1>2, <1>3, <1>4, <1>5, HandleRows

LEMMA CustodyKept ==
  ASSUME HomeInv, CustodyInv, NEW r \in Requests, Handle(r)
  PROVE  Custody'
<1>1. /\ TypeOK /\ StepsOK /\ Moved(r) /\ abandoned \subseteq abandoned' /\ Custody /\ DeletedStep(r)
  BY HandleMoves, HandleDeletes DEF HomeInv, CustodyInv
<1> SUFFICES ASSUME NEW t \in tenants'
             PROVE  t \in (InSale \cup abandoned)' \/ (t[2] \in Sold' /\ subs'[t[2]].node = t[1])
  BY DEF Custody
<1>2. CASE t \notin tenants
  <2>1. At(r, "provision") /\ t \in req[r].held /\ (t \in abandoned' \/ At(r, "insert")')
    BY <1>1, <1>2, TenantAppears
  <2>2. At(r, "insert")' => req'[r].held = req[r].held
    BY <1>1, IdleParts DEF Moved, Moves, At
  <2> QED BY <2>1, <2>2 DEF InSale, At
<1>3. CASE t \in abandoned
  BY <1>1, <1>3
<1>4. ASSUME NEW q \in Requests, req[q].pc \in {"insert", "rollback"}, t \in req[q].held
      PROVE  t \in (InSale \cup abandoned)' \/ (t[2] \in Sold' /\ subs'[t[2]].node = t[1])
  <2>1. CASE q # r
    BY <1>1, <1>4, <2>1 DEF Moved, InSale
  <2>2. CASE q = r /\ At(r, "rollback")
    BY <1>1, <1>4, <2>2 DEF DeletedStep
  <2>3. CASE q = r /\ At(r, "insert") /\ At(r, "rollback")' /\ req'[r].held = req[r].held
    BY <1>4, <2>3 DEF InSale, At
  <2>4. CASE q = r /\ Records(r)
    <3>1. PICK s \in req[r].held : subs' = [subs EXCEPT ![s[2]] = req[r].rec]
      BY <2>4 DEF Records
    <3>2. s = t /\ t \in Nodes \X Ids /\ t[1] = req[r].rec.node
      <4>1. req[r].pc = "insert"
        BY <2>4 DEF Records, At
      <4>2. PICK u \in Nodes \X Ids : req[r].held = {u}
        BY <1>1, <4>1 DEF StepsOK, SalePCs
      <4>3. \A v \in req[r].held : v[1] = req[r].rec.node
        BY <1>1, <4>1 DEF StepsOK
      <4> QED BY <1>4, <2>4, <3>1, <4>2, <4>3
    <3>3. req[r].rec \in SubRecords /\ NoSub \notin SubRecords
      BY <1>1, <2>4, ValidTypes, RequestParts, NamesAssumption DEF Records, SubRecords, NoSub
    <3>4. subs'[t[2]] = req[r].rec /\ t[2] \in Ids
      BY <1>1, <3>1, <3>2 DEF TypeOK
    <3> QED BY <3>2, <3>3, <3>4 DEF Sold
  <2> QED BY <1>1, <1>4, <2>1, <2>2, <2>3, <2>4, HandleInserts DEF At
<1>5. CASE t \in tenants /\ t[2] \in Sold /\ subs[t[2]].node = t[1]
  BY <1>1, <1>5, RowGone
<1> QED BY <1>1, <1>2, <1>3, <1>4, <1>5 DEF Custody, InSale

LEMMA NextCustody ==
  ASSUME HomeInv, CustodyInv, Apart, [Next]_vars
  PROVE  CustodyInv'
<1>1. ASSUME NEW r \in Requests, Arrive(r) PROVE CustodyInv'
  <2>1. Arrived(r) /\ UNCHANGED <<subs, tenants, wire, abandoned>> /\ Sold' = Sold
    BY <1>1, ArriveDoes DEF HomeInv, Arrived, Sold
  <2>2. \A q \in Requests : req'[q].pc \in {"insert", "rollback", "row", "unwind", "each"} => req'[q] = req[q]
    BY <2>1 DEF Arrived, At
  <2>3. WireOK' /\ GoneOK'
    BY <2>1, <2>2 DEF CustodyInv, WireOK, GoneOK
  <2>4. EachOK'
    BY <2>1, <2>2 DEF CustodyInv, EachOK, SubsOf, At
  <2>5. InSale \subseteq InSale'
    BY <2>1 DEF InSale, Arrived, At
  <2>6. Custody'
    BY <2>1, <2>5 DEF CustodyInv, Custody
  <2> QED BY <2>3, <2>4, <2>6 DEF CustodyInv
<1>2. ASSUME NEW r \in Requests, Handle(r) PROVE CustodyInv'
  BY <1>2, WireKept, GoneKept, EachKept, CustodyKept DEF CustodyInv
<1>3. CASE ServeLate
  <2>1. PICK c \in wire : Serve(c) /\ wire' = wire \ {c}
    BY <1>3 DEF ServeLate
  <2>2. UNCHANGED <<subs, req, abandoned>> /\ Sold' = Sold /\ InSale' = InSale
    BY <1>3 DEF ServeLate, tables, Sold, InSale
  <2>3. \A t \in tenants' : t \in tenants \/ t \in abandoned
    BY <2>1 DEF Serve, CustodyInv, WireOK
  <2>4. WireOK' /\ GoneOK'
    BY <2>1, <2>2, <2>3 DEF CustodyInv, WireOK, GoneOK
  <2>5. EachOK'
    BY <2>2, <2>3 DEF CustodyInv, EachOK, SubsOf, At
  <2>6. Custody'
    BY <2>2, <2>3 DEF CustodyInv, Custody
  <2> QED BY <2>4, <2>5, <2>6 DEF CustodyInv
<1>4. CASE Crash
  <2>1. /\ UNCHANGED <<subs, tenants, wire>> /\ Sold' = Sold /\ abandoned' = abandoned \cup InSale
        /\ \A r \in Requests : req'[r].pc = "idle"
    BY <1>4, IdleParts DEF Crash, tables, network, Sold
  <2>2. WireOK' /\ GoneOK' /\ EachOK'
    BY <2>1 DEF CustodyInv, WireOK, GoneOK, EachOK, At
  <2>3. Custody'
    BY <2>1 DEF CustodyInv, Custody
  <2> QED BY <2>2, <2>3 DEF CustodyInv
<1>5. CASE UNCHANGED vars
  BY <1>5 DEF vars, CustodyInv, WireOK, GoneOK, EachOK, Custody, SubsOf, Sold, InSale, At
<1> QED BY <1>1, <1>2, <1>3, <1>4, <1>5 DEF Next

LEMMA InitCustody == Init => CustodyInv
BY IdleParts DEF Init, CustodyInv, WireOK, GoneOK, EachOK, Custody, At

\* No tenant is orphaned but by a call that failed or a process that died: every
\* tenant live on a node is in a row of the panel, in the hands of a sale, or one a
\* sale gave up.  The one other way is a row inserted for a customer while
\* deleteCustomer, which has listed its subscriptions, has yet to delete it.
THEOREM TenantsInCustody == Spec /\ []Apart => []Custody
<1>1. HomeInv /\ CustodyInv /\ Apart /\ [Next]_vars => CustodyInv'
  BY NextCustody
<1>2. CustodyInv => Custody
  BY DEF CustodyInv
<1> QED BY <1>1, <1>2, InitCustody, HomeKept, PTL DEF Spec

-----------------------------------------------------------------------------
(* The life of a tenant. *)

\* A sale's row is unwound once its tenant is gone: the rollback did not fail.
Unwound == \A r \in Requests : At(r, "unwind") => req[r].held \cap tenants = {}

\* Statements and node calls do not both fail, or nothing fails twice.
OneFailure == ~StoreFaults \/ Faults = {} \/ MaxFaults <= 1

\* A CreateTenant that comes late is of an id that is in nobody's hands.
LateOK ==
  \A c \in wire : c.op = "create" =>
    /\ c.tenant[2] \notin Sold
    /\ \A r \in Requests : \A t \in req[r].held : t[2] # c.tenant[2]

\* A sale is recorded once its tenant lives.
LiveOK == \A r \in Requests : At(r, "insert") => req[r].held \subseteq tenants

\* A row is deleted once its tenant is gone.
RetiredOK ==
  \A r \in Requests :
    /\ At(r, "row") => req[r].held \cap tenants = {}
    /\ At(r, "each") => \A i \in SubsOf(req[r].rec.customer) :
         <<subs[i].node, i>> \in tenants => <<subs[i].node, i>> \in req[r].held

LifeInv == LateOK /\ LiveOK /\ RetiredOK

\* None of the tenants of a request lives.
Cleared(r) == req[r].held \cap tenants = {}

\* The row of a sale is there.
Recorded(r) == \A t \in req[r].held : subs[t[2]] = req[r].rec

\* The api key of a sale is missing only because a statement failed, or because
\* the row was withdrawn with its tenant before the sale was over.
KeyedOK ==
  \A r \in Requests :
    /\ At(r, "key") => Cleared(r) \/ (Recorded(r) /\ req[r].rec.customer \in customers)
    /\ req[r].keyed => /\ req[r].pc \in {"rollback", "unwind"}
                       /\ Cleared(r) \/ (StoreFaults /\ faults > 0)

-----------------------------------------------------------------------------
(* What a step does to a tenant's life. *)

\* With one home for each tenant, a subscription's tenant is whoever has its id.
LEMMA PhaseIs ==
  /\ HomeInv => \A i \in Ids :
       Phase[i] = IF i \in Sold THEN (IF HasTenant(i) THEN "sold" ELSE "retired")
                                ELSE (IF HasTenant(i) THEN "live" ELSE "absent")
  /\ HomeInv' => \A i \in Ids :
       Phase'[i] = IF i \in Sold' THEN (IF HasTenant(i)' THEN "sold" ELSE "retired")
                                  ELSE (IF HasTenant(i)' THEN "live" ELSE "absent")
<1>1. ASSUME HomeInv, NEW i \in Sold PROVE HasTenant(i) <=> <<subs[i].node, i>> \in tenants
  <2>1. \A n \in Nodes : <<n, i>> \in tenants => n = subs[i].node
    BY <1>1, MentionedParts DEF HomeInv, OneHome
  <2> QED BY <1>1, <2>1, SoldTyped DEF HomeInv, HasTenant
<1>2. ASSUME HomeInv', NEW i \in Sold' PROVE HasTenant(i)' <=> <<subs'[i].node, i>> \in tenants'
  <2>1. i \in Ids /\ subs'[i].node \in Nodes
    BY <1>2 DEF HomeInv, TypeOK, Sold, SubRecords
  <2>2. <<subs'[i].node, i>> \in Mentioned' /\ tenants' \subseteq Mentioned'
    BY <1>2 DEF Mentioned
  <2>3. \A s, t \in Mentioned' : s[2] = t[2] => s[1] = t[1]
    BY <1>2 DEF HomeInv, OneHome
  <2>4. \A n \in Nodes : <<n, i>> \in tenants' => n = subs'[i].node
    BY <2>2, <2>3
  <2> QED BY <2>1, <2>4 DEF HasTenant
<1> QED BY <1>1, <1>2 DEF Phase

LEMMA PhaseFunction ==
  Phase = [i \in Ids |-> Phase[i]] /\ Phase' = [i \in Ids |-> Phase'[i]]
BY DEF Phase

LEMMA NothingTurns == ASSUME UNCHANGED <<subs, tenants>> PROVE Phase' = Phase
BY DEF Phase, Sold, HasTenant

LEMMA OneTurn ==
  ASSUME NEW i \in Ids, \A j \in Ids \ {i} : Phase'[j] = Phase[j],
         \/ Phase'[i] = Phase[i]
         \/ <<Phase[i], Phase'[i]>> \in {<<"absent", "live">>, <<"live", "sold">>,
                                         <<"live", "absent">>, <<"sold", "retired">>}
  PROVE  [Life!Next]_Phase
<1>1. Phase' = [Phase EXCEPT ![i] = Phase'[i]]
  BY PhaseFunction
<1>2. CASE Phase'[i] = Phase[i]
  BY <1>1, <1>2, PhaseFunction
<1>3. CASE Phase'[i] # Phase[i]
  <2>1. Life!Provision(i) \/ Life!Sell(i) \/ Life!Withdraw(i) \/ Life!Retire(i)
    BY <1>1, <1>3 DEF Life!Provision, Life!Sell, Life!Withdraw, Life!Retire, Life!Move
  <2> QED BY <2>1 DEF Life!Next
<1> QED BY <1>2, <1>3

\* A node's call about one tenant, which creates none that has been sold.
LEMMA OneTenantMoves ==
  ASSUME HomeInv, HomeInv', UNCHANGED subs, NEW t \in Nodes \X Ids,
         \/ tenants' = tenants \cup {t} /\ t[2] \notin Sold
         \/ tenants' = tenants \ {t}
  PROVE  [Life!Next]_Phase
<1>1. t = <<t[1], t[2]>> /\ t[1] \in Nodes /\ t[2] \in Ids /\ Sold' = Sold
  BY DEF Sold
<1>2. ASSUME NEW j \in Ids \ {t[2]} PROVE HasTenant(j)' <=> HasTenant(j)
  <2>1. \A n \in Nodes : <<n, j>> # t
    BY <1>1
  <2>2. \A n \in Nodes : <<n, j>> \in tenants' <=> <<n, j>> \in tenants
    BY <2>1
  <2> QED BY <2>2 DEF HasTenant
<1>3. \A j \in Ids \ {t[2]} : Phase'[j] = Phase[j]
  BY <1>1, <1>2, PhaseIs
<1>4. CASE tenants' = tenants \cup {t} /\ t[2] \notin Sold
  <2>1. HasTenant(t[2])'
    BY <1>1, <1>4 DEF HasTenant
  <2>2. Phase'[t[2]] = "live" /\ Phase[t[2]] \in {"live", "absent"}
    BY <1>1, <1>4, <2>1, PhaseIs
  <2> QED BY <1>1, <1>3, <2>2, OneTurn
<1>5. CASE tenants' = tenants \ {t} /\ t \in tenants
  <2>1. HasTenant(t[2]) /\ ~HasTenant(t[2])'
    BY <1>1, <1>5, MentionedParts DEF HasTenant, HomeInv, OneHome
  <2>2. \/ Phase[t[2]] = "sold" /\ Phase'[t[2]] = "retired"
        \/ Phase[t[2]] = "live" /\ Phase'[t[2]] = "absent"
    BY <1>1, <2>1, PhaseIs
  <2> QED BY <1>1, <1>3, <2>2, OneTurn
<1>6. CASE tenants' = tenants \ {t} /\ t \notin tenants
  BY <1>6, NothingTurns
<1> QED BY <1>4, <1>5, <1>6

\* Rows that go, and their tenants are gone.
LEMMA RowsForgotten ==
  ASSUME HomeInv, HomeInv', UNCHANGED tenants, NEW S \in SUBSET Sold, Sold' = Sold \ S,
         \A i \in S : ~HasTenant(i)
  PROVE  [Life!Next]_Phase
<1>1. S \subseteq Ids /\ \A i \in Ids : HasTenant(i)' <=> HasTenant(i)
  BY DEF Sold, HasTenant
<1>2. \A i \in S : Phase[i] = "retired" /\ Phase'[i] = "absent"
  BY <1>1, PhaseIs
<1>3. \A i \in Ids \ S : Phase'[i] = Phase[i]
  BY <1>1, PhaseIs
<1>4. Phase' = [i \in Ids |-> IF i \in S THEN "absent" ELSE Phase[i]]
  BY <1>1, <1>2, <1>3, PhaseFunction
<1>5. CASE S = {}
  BY <1>4, <1>5, PhaseFunction
<1>6. CASE S # {}
  BY <1>1, <1>2, <1>4, <1>6 DEF Life!Next, Life!Forget
<1> QED BY <1>5, <1>6

LEMMA RecordsSell ==
  ASSUME HomeInv, HomeInv', LifeInv, NEW r \in Requests, Records(r)
  PROVE  [Life!Next]_Phase
<1>1. PICK t \in req[r].held : subs' = [subs EXCEPT ![t[2]] = req[r].rec]
  BY DEF Records
<1>2. t \in tenants /\ t \in Nodes \X Ids /\ t[2] \notin Sold /\ t = <<t[1], t[2]>> /\ TypeOK
  BY RequestParts DEF HomeInv, FreshOK, LifeInv, LiveOK, Records, At
<1>3. req[r].rec # NoSub
  BY <1>2, NamesAssumption DEF Records, ReferencesValid, TypeOK, NoSub
<1>4. Sold' = Sold \cup {t[2]} /\ \A j \in Ids : HasTenant(j)' <=> HasTenant(j)
  BY <1>1, <1>2, <1>3 DEF Sold, HasTenant, TypeOK, Records
<1>5. HasTenant(t[2])
  BY <1>2 DEF HasTenant
<1>6. Phase[t[2]] = "live" /\ Phase'[t[2]] = "sold"
  BY <1>2, <1>4, <1>5, PhaseIs
<1>7. \A j \in Ids \ {t[2]} : Phase'[j] = Phase[j]
  BY <1>2, <1>4, PhaseIs
<1> QED BY <1>2, <1>6, <1>7, OneTurn

LEMMA RemovesForget ==
  ASSUME HomeInv, HomeInv', LifeInv, Unwound, NEW r \in Requests, Removes(r) \/ Drops(r)
  PROVE  [Life!Next]_Phase
<1>1. UNCHANGED tenants /\ TypeOK
  BY DEF HomeInv, Removes, Drops
<1>2. CASE Removes(r)
  <2>1. PICK t \in req[r].held : subs' = [subs EXCEPT ![t[2]] = NoSub]
    BY <1>2 DEF Removes
  <2>2. t \in Nodes \X Ids /\ t = <<t[1], t[2]>> /\ t \notin tenants
    BY <1>1, <1>2, RequestParts DEF Removes, LifeInv, RetiredOK, Unwound, At
  <2>3. ~HasTenant(t[2])
    BY <2>2, MentionedParts DEF HasTenant, HomeInv, OneHome
  <2>4. Sold' = Sold \ {t[2]}
    BY <1>1, <2>1, <2>2 DEF Sold, TypeOK
  <2> DEFINE S == Sold \cap {t[2]}
  <2>5. S \in SUBSET Sold /\ Sold' = Sold \ S /\ \A i \in S : ~HasTenant(i)
    BY <2>3, <2>4
  <2> HIDE DEF S
  <2> QED BY <1>1, <2>5, RowsForgotten
<1>3. CASE Drops(r)
  <2> DEFINE S == SubsOf(req[r].rec.customer)
  <2>1. S \in SUBSET Sold
    BY DEF SubsOf
  <2>2. Sold' = Sold \ S
    BY <1>1, <1>3, <2>1 DEF Drops, Sold, TypeOK
  <2>3. ASSUME NEW i \in S, NEW n \in Nodes, <<n, i>> \in tenants PROVE FALSE
    <3>1. n = subs[i].node
      BY <2>1, <2>3, MentionedParts DEF HomeInv, OneHome
    <3> QED BY <1>3, <2>3, <3>1 DEF Drops, LifeInv, RetiredOK
  <2>4. \A i \in S : ~HasTenant(i)
    BY <2>3 DEF HasTenant
  <2> HIDE DEF S
  <2> QED BY <1>1, <2>1, <2>2, <2>4, RowsForgotten
<1> QED BY <1>2, <1>3

\* A call changes no rows.
LEMMA HandleLives ==
  ASSUME HomeInv, HomeInv', LifeInv, Unwound, NEW r \in Requests, Handle(r)
  PROVE  [Life!Next]_Phase
<1>1. TypeOK /\ CallStep(r) /\ (UNCHANGED subs \/ Records(r) \/ Removes(r) \/ Drops(r))
  BY HandleCalls, HandleRows DEF HomeInv
<1>2. CASE Records(r) \/ Removes(r) \/ Drops(r)
  BY <1>2, RecordsSell, RemovesForget
<1>3. CASE UNCHANGED subs /\ UNCHANGED tenants
  BY <1>3, NothingTurns
<1>4. CASE UNCHANGED subs /\ ~UNCHANGED tenants
  <2>1. PICK t \in req[r].held : Creates(r, t) \/ Deletes(r, t)
    BY <1>1, <1>4 DEF CallStep
  <2>2. t \in Nodes \X Ids
    BY <1>1, RequestParts
  <2>3. \/ tenants' = tenants \cup {t} /\ At(r, "provision")
        \/ tenants' = tenants \ {t}
    BY <1>4, <2>1 DEF Creates, Deletes
  <2>4. At(r, "provision") => t[2] \notin Sold
    BY DEF HomeInv, FreshOK, At
  <2> QED BY <1>4, <2>2, <2>3, <2>4, OneTenantMoves
<1> QED BY <1>1, <1>2, <1>3, <1>4

LEMMA NextLives ==
  ASSUME HomeInv, HomeInv', LifeInv, Unwound, [Next]_vars
  PROVE  [Life!Next]_Phase
<1>1. ASSUME NEW r \in Requests, Arrive(r) PROVE [Life!Next]_Phase
  BY <1>1, ArriveDoes, NothingTurns DEF HomeInv, Arrived
<1>2. CASE ServeLate
  <2>1. PICK c \in wire : Serve(c) /\ UNCHANGED subs
    BY <1>2 DEF ServeLate, tables
  <2>2. c.tenant \in Nodes \X Ids /\ c.op \in {"create", "delete"}
    BY DEF HomeInv, TypeOK, Calls
  <2>3. \/ tenants' = tenants \cup {c.tenant} /\ c.tenant[2] \notin Sold
        \/ tenants' = tenants \ {c.tenant}
    BY <2>1, <2>2 DEF Serve, LifeInv, LateOK
  <2> QED BY <2>1, <2>2, <2>3, OneTenantMoves
<1>3. CASE Crash \/ UNCHANGED vars
  BY <1>3, NothingTurns DEF Crash, vars, tables, network
<1> QED BY <1>1, <1>2, <1>3, HandleLives DEF Next

-----------------------------------------------------------------------------
(* The tenant's life and the handlers'. *)

LEMMA LateKept == ASSUME HomeInv, LifeInv, NEW r \in Requests, Handle(r) PROVE LateOK'
<1>1. TypeOK /\ Moved(r) /\ CallStep(r) /\ LateOK
  BY HandleMoves, HandleCalls DEF HomeInv, LifeInv
<1> SUFFICES ASSUME NEW c \in wire', c.op = "create"
             PROVE  /\ c.tenant[2] \notin Sold'
                    /\ \A q \in Requests : \A s \in req'[q].held : s[2] # c.tenant[2]
  BY DEF LateOK
<1>2. CASE c \in wire
  <2>1. c.tenant[2] \notin Sold /\ \A q \in Requests : \A s \in req[q].held : s[2] # c.tenant[2]
    BY <1>1, <1>2 DEF LateOK
  <2>2. c.tenant[2] \notin Sold'
    <3>1. ASSUME c.tenant[2] \in Sold' PROVE <<subs'[c.tenant[2]].node, c.tenant[2]>> \in req[r].held
      BY <2>1, <3>1, SoldStep
    <3> QED BY <2>1, <3>1
  <2>3. ASSUME NEW q \in Requests, NEW s \in req'[q].held PROVE s[2] # c.tenant[2]
    BY <1>1, <2>1, <2>3, HeldStep
  <2> QED BY <2>2, <2>3
<1>3. CASE c \notin wire
  <2>1. At(r, "provision") /\ c.tenant \in req[r].held /\ req'[r] = Idle
    BY <1>1, <1>3 DEF CallStep, Creates, Deletes, Create, Delete
  <2>2. /\ c.tenant[2] \notin Sold
        /\ \A q \in Requests \ {r} : \A s \in req[q].held : s[2] # c.tenant[2]
    BY <2>1 DEF HomeInv, FreshOK, At
  <2>3. c.tenant[2] \notin Sold'
    BY <2>1, <2>2, SoldStep DEF Records, At
  <2>4. ASSUME NEW q \in Requests, NEW s \in req'[q].held PROVE s[2] # c.tenant[2]
    BY <1>1, <2>1, <2>2, <2>4, IdleParts DEF Moved
  <2> QED BY <2>3, <2>4
<1> QED BY <1>2, <1>3

LEMMA LiveKept == ASSUME HomeInv, LifeInv, NEW r \in Requests, Handle(r) PROVE LiveOK'
<1>1. TypeOK /\ StepsOK /\ Moved(r) /\ CallStep(r) /\ LiveOK
  BY HandleMoves, HandleCalls DEF HomeInv, LifeInv
<1> SUFFICES ASSUME NEW q \in Requests, At(q, "insert")', NEW t \in req'[q].held PROVE t \in tenants'
  BY DEF LiveOK
<1>2. CASE q # r
  <2>1. req'[q] = req[q] /\ t \in tenants
    BY <1>1, <1>2 DEF Moved, LiveOK, At
  <2>2. \A s \in req[r].held : s # t
    BY <1>2, <2>1 DEF HomeInv, FreshOK, At
  <2> QED BY <1>1, <2>1, <2>2 DEF CallStep, Creates, Deletes
<1>3. CASE q = r
  <2>1. At(r, "provision") /\ req'[r].held = req[r].held
    BY <1>1, <1>3, IdleParts DEF Moved, Moves, At
  <2>2. CreateTenant(r)
    BY <2>1 DEF Handle, CreateTenant, InsertSubscription, CreateAPIKey, RollbackTenant,
                UnwindSubscription, DeprovisionTenant, DeleteSubscriptionRow, ListSubscriptions,
                DeprovisionNext, DropCustomer, DeletePlan, CountSubscriptions, DeleteNode, At
  <2>3. ~Answer(r)
    BY <1>1, <1>3, AnswerMoves, IdleParts DEF At
  <2>4. PICK s \in req[r].held : Answered(Create(s))
    BY <2>2, <2>3 DEF CreateTenant
  <2>5. PICK u : req[r].held = {u}
    BY <1>1, <2>1 DEF StepsOK, SalePCs, At
  <2> QED BY <1>3, <2>1, <2>4, <2>5 DEF Answered, Serve, Create
<1> QED BY <1>2, <1>3

LEMMA RetiredKept ==
  ASSUME HomeInv, LifeInv, Apart, NEW r \in Requests, Handle(r)
  PROVE  RetiredOK'
<1>1. TypeOK /\ StepsOK /\ Moved(r) /\ RetiredOK /\ DeletedStep(r)
  BY HandleMoves, HandleDeletes DEF HomeInv, LifeInv
<1>2. ASSUME NEW q \in Requests, At(q, "row")' PROVE req'[q].held \cap tenants' = {}
  <2>1. CASE q # r
    <3>1. req'[q] = req[q] /\ req[q].held \cap tenants = {}
      BY <1>1, <1>2, <2>1 DEF Moved, RetiredOK, At
    <3>2. ASSUME NEW t \in tenants', t \notin tenants PROVE t \notin req[q].held
      <4>1. req[r].pc = "provision" /\ t \in req[r].held
        BY <1>1, <3>2, TenantAppears DEF At
      <4> QED BY <2>1, <4>1 DEF HomeInv, FreshOK
    <3> QED BY <3>1, <3>2
  <2>2. CASE q = r
    BY <1>1, <1>2, <2>2, IdleParts DEF Moved, Moves, DeletedStep, At
  <2> QED BY <2>1, <2>2
<1>3. ASSUME NEW q \in Requests, At(q, "each")', NEW i \in SubsOf(req[q].rec.customer)',
             <<subs'[i].node, i>> \in tenants'
      PROVE  <<subs'[i].node, i>> \in req'[q].held
  <2>1. /\ req[q].pc \in {"list", "each"} /\ req'[q].rec = req[q].rec
        /\ q # r => req'[q] = req[q] /\ At(q, "each")
        /\ i \in SubsOf(req[q].rec.customer) /\ subs'[i] = subs[i]
        /\ <<subs[i].node, i>> \in tenants
    BY <1>3, NobodySells
  <2>2. CASE q # r
    BY <1>1, <2>1, <2>2 DEF RetiredOK
  <2>3. CASE q = r /\ At(r, "list")
    <3>1. req'[r].held = Listed(req[r].rec.customer)
      BY <1>1, <1>3, <2>3, IdleParts DEF Moved, Moves, At
    <3> QED BY <2>1, <2>3, <3>1 DEF Listed
  <2>4. CASE q = r /\ At(r, "each")
    <3>1. <<subs[i].node, i>> \in req[r].held
      BY <1>1, <2>1, <2>4 DEF RetiredOK
    <3> QED BY <1>1, <1>3, <2>1, <2>4, <3>1 DEF DeletedStep
  <2> QED BY <2>1, <2>2, <2>3, <2>4 DEF At
<1> QED BY <1>2, <1>3 DEF RetiredOK

LEMMA NextLife == ASSUME HomeInv, LifeInv, Apart, [Next]_vars PROVE LifeInv'
<1>1. ASSUME NEW r \in Requests, Arrive(r) PROVE LifeInv'
  <2>1. Arrived(r) /\ UNCHANGED <<subs, tenants, wire>> /\ Sold' = Sold
    BY <1>1, ArriveDoes DEF HomeInv, Arrived, Sold
  <2>2. \A q \in Requests : req'[q].pc \in {"insert", "row", "each"} => req'[q] = req[q]
    BY <2>1 DEF Arrived, At
  <2>3. LiveOK' /\ RetiredOK'
    BY <2>1, <2>2 DEF LifeInv, LiveOK, RetiredOK, SubsOf, At
  <2>4. ASSUME NEW c \in wire, c.op = "create", NEW t \in req'[r].held PROVE t[2] # c.tenant[2]
    <3>1. c.tenant[2] \in drawn /\ c.tenant[2] \notin Sold
      BY <2>4, MentionedParts DEF HomeInv, OneHome, LifeInv, LateOK
    <3> QED BY <2>1, <2>4, <3>1 DEF Arrived
  <2>5. LateOK'
    BY <2>1, <2>4 DEF LifeInv, LateOK, Arrived
  <2> QED BY <2>3, <2>5 DEF LifeInv
<1>2. ASSUME NEW r \in Requests, Handle(r) PROVE LifeInv'
  BY <1>2, LateKept, LiveKept, RetiredKept DEF LifeInv
<1>3. CASE ServeLate
  <2>1. PICK c \in wire : Serve(c) /\ wire' = wire \ {c}
    BY <1>3 DEF ServeLate
  <2>2. UNCHANGED <<subs, req>> /\ Sold' = Sold /\ c.op \in {"create", "delete"}
    BY <1>3 DEF ServeLate, tables, Sold, HomeInv, TypeOK, Calls
  <2>3. LateOK'
    BY <2>1, <2>2 DEF LifeInv, LateOK
  <2>4. LiveOK'
    <3>1. \A r \in Requests : At(r, "insert") => c.tenant \notin req[r].held
      BY DEF HomeInv, FreshOK, At
    <3> QED BY <2>1, <2>2, <3>1 DEF LifeInv, LiveOK, Serve, At
  <2>5. RetiredOK'
    <3>1. \A t \in tenants' : t \in tenants \/ (t = c.tenant /\ c.op = "create")
      BY <2>1 DEF Serve
    <3>2. \A r \in Requests : \A t \in req[r].held : t \in tenants' => t \in tenants
      BY <3>1 DEF LifeInv, LateOK
    <3>3. \A i \in Sold : <<subs[i].node, i>> \in tenants' => <<subs[i].node, i>> \in tenants
      BY <3>1 DEF LifeInv, LateOK
    <3> QED BY <2>2, <3>2, <3>3 DEF LifeInv, RetiredOK, SubsOf, At
  <2> QED BY <2>3, <2>4, <2>5 DEF LifeInv
<1>4. CASE Crash
  BY <1>4, IdleParts DEF Crash, LifeInv, LateOK, LiveOK, RetiredOK, tables, network, Sold, At
<1>5. CASE UNCHANGED vars
  BY <1>5 DEF vars, LifeInv, LateOK, LiveOK, RetiredOK, SubsOf, Sold, At
<1> QED BY <1>1, <1>2, <1>3, <1>4, <1>5 DEF Next

LEMMA InitLife == Init => LifeInv /\ Life!Init
<1> SUFFICES ASSUME Init PROVE LifeInv /\ Life!Init
  OBVIOUS
<1>1. LifeInv
  BY IdleParts DEF Init, LifeInv, LateOK, LiveOK, RetiredOK, At
<1>2. Phase = [i \in Ids |-> "absent"]
  BY DEF Init, Phase, Sold, HasTenant
<1> QED BY <1>1, <1>2 DEF Life!Init

LEMMA LifeKept == Spec /\ []Apart => []LifeInv
<1>1. HomeInv /\ LifeInv /\ Apart /\ [Next]_vars => LifeInv'
  BY NextLife
<1> QED BY <1>1, InitLife, HomeKept, PTL DEF Spec

\* The handlers live the tenant's life if no rollback fails: whatever else fails or
\* dies, no row is sold without its tenant and none dropped while its tenant lives.
\* Sales may overlap the deletion of their customer but for the INSERT itself.
THEOREM ImplementsTenantLife == Spec /\ []Apart /\ []Unwound => LifeSpec
<1>1. HomeInv /\ HomeInv' /\ LifeInv /\ Unwound /\ [Next]_vars => [Life!Next]_Phase
  BY NextLives
<1>2. Init => Life!Init
  BY InitLife
<1> QED BY <1>1, <1>2, HomeKept, LifeKept, PTL DEF Spec, LifeSpec, Life!Spec

-----------------------------------------------------------------------------
(* Rollbacks that do not fail. *)

\* keyed is set where the api key could not be stored, and lost with the request.
KeyedStep(r) ==
  /\ \A q \in Requests \ {r} : req'[q] = req[q]
  /\ req'[r].keyed =>
       \/ At(r, "key") /\ At(r, "rollback")' /\ (StatementFails \/ req[r].rec.customer \notin customers)
       \/ req[r].keyed /\ req'[r].pc = req[r].pc
       \/ req[r].keyed /\ req[r].pc \in {"provision", "insert", "node", "list", "count"}
       \/ req[r].keyed /\ At(r, "rollback") /\ At(r, "unwind")'

LEMMA HandleKeyed == ASSUME TypeOK, NEW r \in Requests, Handle(r) PROVE KeyedStep(r)
<1>1. Moved(r) /\ req \in [Requests -> RequestStates] /\ req[r] \in RequestStates
  BY HandleMoves DEF TypeOK
<1>2. CASE req'[r] = Idle
  BY <1>1, <1>2 DEF Moved, KeyedStep, Idle
<1>3. CASE CreateTenant(r) \/ InsertSubscription(r) \/ DeprovisionTenant(r) \/ CountSubscriptions(r)
  <2>1. \/ req'[r] = Idle
        \/ \E pc \in {"insert", "key", "rollback", "row", "deregister"} :
             <<req[r].pc, pc>> \in Moves /\ Go(r, pc)
    BY <1>3, AnswerMoves DEF CreateTenant, InsertSubscription, DeprovisionTenant, CountSubscriptions, At, Moves
  <2>2. req'[r] = Idle \/ req'[r].keyed = req[r].keyed
    BY <2>1, GoMoves DEF PCs
  <2> QED BY <1>1, <1>2, <1>3, <2>2
          DEF Moved, KeyedStep, CreateTenant, InsertSubscription, DeprovisionTenant, CountSubscriptions, At
<1>4. CASE CreateAPIKey(r)
  <2>1. req' = [req EXCEPT ![r].pc = "rollback", ![r].keyed = TRUE] => req'[r].pc = "rollback"
    BY <1>1 DEF RequestStates
  <2> QED BY <1>1, <1>2, <1>4, <2>1, AnswerMoves DEF CreateAPIKey, Moved, KeyedStep, At
<1>5. CASE RollbackTenant(r)
  <2>1. req'[r] = Idle \/ (req[r].keyed /\ Go(r, "unwind"))
    BY <1>5, AnswerMoves DEF RollbackTenant
  <2>2. req[r].keyed /\ Go(r, "unwind") => At(r, "unwind")'
    BY <1>5, GoMoves DEF RollbackTenant, At, Moves, PCs
  <2> QED BY <1>1, <1>2, <1>5, <2>1, <2>2 DEF Moved, KeyedStep, RollbackTenant
<1>6. CASE ListSubscriptions(r)
  <2> DEFINE held == Listed(req[r].rec.customer)
  <2>1. req'[r] = Idle \/ req' = [req EXCEPT ![r].pc = "each", ![r].held = held]
    BY <1>6, AnswerMoves DEF ListSubscriptions, Listed
  <2> HIDE DEF held
  <2>2. req' = [req EXCEPT ![r].pc = "each", ![r].held = held] => req'[r].keyed = req[r].keyed
    BY <1>1 DEF RequestStates
  <2> QED BY <1>1, <1>2, <1>6, <2>1, <2>2 DEF Moved, KeyedStep, ListSubscriptions, At
<1>7. CASE DeprovisionNext(r)
  <2>1. PICK t \in req[r].held : req'[r] = Idle \/ req' = [req EXCEPT ![r].held = @ \ {t}]
    BY <1>7, AnswerMoves DEF DeprovisionNext
  <2>2. req' = [req EXCEPT ![r].held = @ \ {t}] => req'[r].keyed = req[r].keyed /\ req'[r].pc = req[r].pc
    BY <1>1 DEF RequestStates
  <2> QED BY <1>1, <1>2, <2>1, <2>2 DEF Moved, KeyedStep
<1> QED BY <1>2, <1>3, <1>4, <1>5, <1>6, <1>7, AnswerMoves
        DEF Handle, UnwindSubscription, DeleteSubscriptionRow, DropCustomer, DeletePlan, DeleteNode

LEMMA FaultsGrow ==
  ASSUME TypeOK, [Next]_vars
  PROVE  /\ faults' \in {faults, faults + 1}
         /\ \A r \in Requests : Handle(r) => customers' = customers \/ At(r, "each")
<1>1. ASSUME NEW c, Answered(c) \/ Failed(c) PROVE faults' \in {faults, faults + 1}
  BY <1>1 DEF Answered, Failed, network
<1>2. ASSUME NEW r \in Requests, Handle(r) PROVE faults' \in {faults, faults + 1}
  BY <1>1, <1>2 DEF Handle, CreateTenant, InsertSubscription, CreateAPIKey, RollbackTenant,
       UnwindSubscription, DeprovisionTenant, DeleteSubscriptionRow, ListSubscriptions,
       DeprovisionNext, DropCustomer, DeletePlan, CountSubscriptions, DeleteNode, RemoveRow,
       StatementFails
<1>3. ASSUME NEW r \in Requests, Handle(r) PROVE customers' = customers \/ At(r, "each")
  BY <1>3 DEF Handle, CreateTenant, InsertSubscription, CreateAPIKey, RollbackTenant,
       UnwindSubscription, DeprovisionTenant, DeleteSubscriptionRow, ListSubscriptions,
       DeprovisionNext, DropCustomer, DeletePlan, CountSubscriptions, DeleteNode, tables
<1>4. ASSUME NEW r \in Requests, Arrive(r) PROVE UNCHANGED faults
  BY <1>4, ArriveDoes DEF Arrived
<1> QED BY <1>2, <1>3, <1>4 DEF Next, ServeLate, Crash, vars, network, tables

\* A sale that is past its call, and has no tenant, gets none.
LEMMA ClearedStays ==
  ASSUME HomeInv, LifeInv, [Next]_vars, NEW q \in Requests, ~At(q, "provision"), Cleared(q),
         req'[q].held = req[q].held
  PROVE  Cleared(q)'
<1> SUFFICES ASSUME NEW t \in req[q].held, t \in tenants', t \notin tenants PROVE FALSE
  BY DEF Cleared
<1>1. ASSUME NEW r \in Requests, Handle(r) PROVE FALSE
  <2>1. At(r, "provision") /\ t \in req[r].held
    BY <1>1, TenantAppears DEF HomeInv
  <2> QED BY <2>1 DEF HomeInv, FreshOK, At
<1>2. ASSUME NEW r \in Requests, Arrive(r) PROVE FALSE
  BY <1>2, ArriveDoes DEF Arrived, HomeInv
<1>3. CASE ServeLate
  BY <1>3 DEF ServeLate, Serve, LifeInv, LateOK
<1> QED BY <1>1, <1>2, <1>3 DEF Next, Crash, network, vars

\* The row of a sale goes with its customer or by a deletion of its own, and either
\* way its tenant went first.
LEMMA RecordedStays ==
  ASSUME HomeInv, LifeInv, Unwound, NEW r \in Requests, Handle(r), NEW q \in Requests \ {r},
         At(q, "key"), Recorded(q), req[q].rec.customer \in customers, ~Cleared(q)
  PROVE  \A t \in req[q].held : subs'[t[2]] = req[q].rec /\ req[q].rec.customer \in customers'
<1>1. TypeOK /\ StepsOK /\ OneHome /\ subs \in [Ids -> SubRecords \cup {NoSub}]
  BY DEF HomeInv, TypeOK
<1>2. PICK t \in Nodes \X Ids : req[q].held = {t}
  BY <1>1 DEF StepsOK, SalePCs, At
<1>3. /\ subs[t[2]] = req[q].rec /\ t[2] \in Sold /\ t = <<t[1], t[2]>> /\ t \in tenants
      /\ \A s \in Mentioned : s[2] = t[2] => s = t
  <2>1. subs[t[2]] = req[q].rec /\ t = <<t[1], t[2]>> /\ t \in tenants /\ t[2] \in Ids
    BY <1>2 DEF Recorded, Cleared
  <2>2. t[2] \in Sold
    BY <1>1, <2>1, NamesAssumption DEF TypeOK, Sold, NoSub
  <2>3. \A s \in Mentioned : s \in Nodes \X Ids
    BY <1>1, RequestParts, SoldTyped DEF Mentioned, HeldNow, TypeOK, Calls
  <2>4. \A s \in Mentioned : s[2] = t[2] => s = t
    BY <1>1, <2>1, <2>3, MentionedParts DEF OneHome
  <2> QED BY <2>1, <2>2, <2>4
<1>4. CASE UNCHANGED <<subs, customers>>
  BY <1>2, <1>3, <1>4
<1>5. CASE Records(r)
  <2>1. PICK s \in req[r].held : subs' = [subs EXCEPT ![s[2]] = req[r].rec]
    BY <1>5 DEF Records
  <2>2. s[2] # t[2]
    BY <1>2, <1>5, <2>1 DEF HomeInv, FreshOK, Records, At
  <2> QED BY <1>1, <1>2, <1>3, <1>5, <2>1, <2>2 DEF Records, Sold
<1>6. CASE Removes(r)
  <2>1. PICK s \in req[r].held : subs' = [subs EXCEPT ![s[2]] = NoSub]
    BY <1>6 DEF Removes
  <2>2. s \notin tenants /\ s \in Mentioned
    BY <1>6, <2>1, MentionedParts DEF Removes, LifeInv, RetiredOK, Unwound, At
  <2>3. s[2] # t[2]
    BY <1>3, <2>2
  <2> QED BY <1>1, <1>2, <1>3, <1>6, <2>1, <2>3 DEF Removes, Sold
<1>7. CASE Drops(r)
  <2>1. t[2] \notin SubsOf(req[r].rec.customer)
    <3>1. <<subs[t[2]].node, t[2]>> = t
      BY <1>3, MentionedParts
    <3>2. ASSUME t[2] \in SubsOf(req[r].rec.customer) PROVE FALSE
      BY <1>3, <1>7, <3>1, <3>2 DEF Drops, LifeInv, RetiredOK
    <3> QED BY <3>2
  <2>2. req[q].rec.customer # req[r].rec.customer
    BY <1>3, <2>1 DEF SubsOf
  <2> QED BY <1>2, <1>3, <1>7, <2>1, <2>2 DEF Drops, Sold
<1> QED BY <1>1, <1>4, <1>5, <1>6, <1>7, HandleRows

LEMMA KeyedKept == ASSUME HomeInv, LifeInv, KeyedOK, Unwound, [Next]_vars PROVE KeyedOK'
<1>1. TypeOK /\ StepsOK /\ faults \in Nat /\ faults' \in {faults, faults + 1}
  BY FaultsGrow DEF HomeInv, TypeOK
<1>2. ASSUME NEW r \in Requests, Handle(r) PROVE KeyedOK'
  <2>1. Moved(r) /\ KeyedStep(r)
    BY <1>1, <1>2, HandleMoves, HandleKeyed
  <2>2. ASSUME NEW q \in Requests, At(q, "key")'
        PROVE  Cleared(q)' \/ (Recorded(q)' /\ req'[q].rec.customer \in customers')
    <3>1. CASE q # r
      <4>1. /\ req'[q] = req[q] /\ At(q, "key")
            /\ Cleared(q) \/ (Recorded(q) /\ req[q].rec.customer \in customers)
        BY <2>1, <2>2, <3>1 DEF Moved, KeyedOK, At
      <4>2. CASE Cleared(q)
        BY <4>1, <4>2, ClearedStays DEF At
      <4>3. CASE ~Cleared(q)
        <5>1. req[q].held # {}
          BY <4>3 DEF Cleared
        <5>2. \A t \in req[q].held : subs'[t[2]] = req[q].rec /\ req[q].rec.customer \in customers'
          BY <1>2, <3>1, <4>1, <4>3, RecordedStays
        <5> QED BY <4>1, <5>1, <5>2 DEF Recorded
      <4> QED BY <4>2, <4>3
    <3>2. CASE q = r
      <4>1. At(r, "insert") /\ req'[r].rec = req[r].rec /\ req'[r].held = req[r].held
        BY <2>1, <2>2, <3>2, IdleParts DEF Moved, Moves, At
      <4>2. Records(r)
        BY <1>1, <1>2, <2>2, <3>2, <4>1, HandleInserts DEF At
      <4>3. PICK t \in Nodes \X Ids : req[r].held = {t}
        BY <1>1, <4>1 DEF StepsOK, SalePCs, At
      <4>4. subs'[t[2]] = req[r].rec
        BY <1>1, <4>2, <4>3 DEF Records, TypeOK
      <4> QED BY <3>2, <4>1, <4>2, <4>3, <4>4 DEF Records, ReferencesValid, Recorded
    <3> QED BY <3>1, <3>2
  <2>3. ASSUME NEW q \in Requests, req'[q].keyed
        PROVE  req'[q].pc \in {"rollback", "unwind"} /\ (Cleared(q)' \/ (StoreFaults /\ faults' > 0))
    <3>1. CASE req[q].keyed
      <4>1. req[q].pc \in {"rollback", "unwind"} /\ (Cleared(q) \/ (StoreFaults /\ faults' > 0))
        BY <1>1, <3>1 DEF KeyedOK
      <4>2. req'[q].pc \in {"rollback", "unwind"} /\ req'[q].held = req[q].held
        BY <2>1, <2>3, <4>1, IdleParts DEF KeyedStep, Moved, Moves, Idle, At
      <4> QED BY <4>1, <4>2, ClearedStays DEF At
    <3>2. CASE ~req[q].keyed
      <4>1. /\ q = r /\ At(r, "key") /\ At(r, "rollback")'
            /\ StatementFails \/ req[r].rec.customer \notin customers
        BY <2>1, <2>3, <3>2 DEF KeyedStep, KeyedOK
      <4>2. req'[r].held = req[r].held
        BY <2>1, <4>1, IdleParts DEF Moved, Moves, At
      <4>3. CASE StatementFails
        BY <1>1, <4>1, <4>3 DEF StatementFails, At
      <4>4. CASE req[r].rec.customer \notin customers
        <5>1. Cleared(r)
          BY <4>1, <4>4 DEF KeyedOK
        <5> QED BY <4>1, <4>2, <5>1, ClearedStays DEF At
      <4> QED BY <4>1, <4>3, <4>4
    <3> QED BY <3>1, <3>2
  <2> QED BY <2>2, <2>3 DEF KeyedOK
<1>3. ASSUME NEW r \in Requests, Arrive(r) PROVE KeyedOK'
  <2>1. req'[r].keyed = FALSE /\ Arrived(r)
    <3>1. PICK state : Receive(r, state) /\ state.keyed = FALSE
      <4>1. CASE ReceiveCreate(r)
        <5>1. PICK c \in customers, p \in plans, n \in nodes, i \in Ids :
                Receive(r, [Idle EXCEPT !.pc = "provision", !.held = {<<n, i>>},
                                        !.rec = [customer |-> c, plan |-> p, node |-> n]])
          BY <4>1 DEF ReceiveCreate
        <5>2. [Idle EXCEPT !.pc = "provision", !.held = {<<n, i>>},
                           !.rec = [customer |-> c, plan |-> p, node |-> n]].keyed = FALSE
          BY DEF Idle
        <5> QED BY <5>1, <5>2
      <4>2. CASE ReceiveDeleteSubscription(r)
        <5>1. PICK i \in Sold :
                Receive(r, [Idle EXCEPT !.pc = "node", !.held = {<<subs[i].node, i>>}, !.rec = subs[i]])
          BY <4>2 DEF ReceiveDeleteSubscription
        <5>2. [Idle EXCEPT !.pc = "node", !.held = {<<subs[i].node, i>>}, !.rec = subs[i]].keyed = FALSE
          BY DEF Idle
        <5> QED BY <5>1, <5>2
      <4>3. CASE ReceiveDeleteCustomer(r)
        <5>1. PICK c \in customers : Receive(r, [Idle EXCEPT !.pc = "list", !.rec.customer = c])
          BY <4>3 DEF ReceiveDeleteCustomer
        <5>2. [Idle EXCEPT !.pc = "list", !.rec.customer = c].keyed = FALSE
          BY DEF Idle
        <5> QED BY <5>1, <5>2
      <4>4. CASE ReceiveDeletePlan(r)
        <5>1. PICK p \in plans : Receive(r, [Idle EXCEPT !.pc = "plan", !.rec.plan = p])
          BY <4>4 DEF ReceiveDeletePlan
        <5>2. [Idle EXCEPT !.pc = "plan", !.rec.plan = p].keyed = FALSE
          BY DEF Idle
        <5> QED BY <5>1, <5>2
      <4>5. CASE ReceiveDeleteNode(r)
        <5>1. PICK n \in nodes : Receive(r, [Idle EXCEPT !.pc = "count", !.rec.node = n])
          BY <4>5 DEF ReceiveDeleteNode
        <5>2. [Idle EXCEPT !.pc = "count", !.rec.node = n].keyed = FALSE
          BY DEF Idle
        <5> QED BY <5>1, <5>2
      <4> QED BY <1>3, <4>1, <4>2, <4>3, <4>4, <4>5 DEF Arrive
    <3> QED BY <1>1, <1>3, <3>1, ReceiveDoes, ArriveDoes
  <2> QED BY <2>1 DEF Arrived, KeyedOK, Cleared, Recorded, At
<1>4. CASE ServeLate \/ Crash \/ UNCHANGED vars
  <2>1. /\ UNCHANGED <<customers, subs, faults>>
        /\ \A r \in Requests : req'[r] = req[r] \/ req'[r] = Idle
    BY <1>4 DEF ServeLate, Crash, vars, tables, network
  <2> SUFFICES ASSUME NEW q \in Requests
               PROVE  /\ At(q, "key")' => Cleared(q)' \/ (Recorded(q)' /\ req'[q].rec.customer \in customers')
                      /\ req'[q].keyed => /\ req'[q].pc \in {"rollback", "unwind"}
                                          /\ Cleared(q)' \/ (StoreFaults /\ faults' > 0)
    BY DEF KeyedOK
  <2>2. CASE req'[q] = Idle
    BY <2>2 DEF Idle, At
  <2>3. CASE req'[q] = req[q]
    <3>1. /\ At(q, "key")' => At(q, "key")
          /\ Recorded(q) => Recorded(q)'
      BY <2>1, <2>3 DEF At, Recorded
    <3>2. req[q].keyed => req[q].pc \in {"rollback", "unwind"}
      BY DEF KeyedOK
    <3>3. At(q, "key") \/ req[q].keyed => (Cleared(q) => Cleared(q)')
      BY <2>3, <3>2, ClearedStays DEF At
    <3> QED BY <2>1, <2>3, <3>1, <3>2, <3>3 DEF KeyedOK
  <2> QED BY <2>1, <2>2, <2>3
<1> QED BY <1>2, <1>3, <1>4 DEF Next

LEMMA UnwoundKept ==
  ASSUME HomeInv, LifeInv, KeyedOK, Unwound, OneFailure, [Next]_vars
  PROVE  Unwound'
<1>1. TypeOK /\ StepsOK /\ faults \in Nat
  BY DEF HomeInv, TypeOK
<1>2. ASSUME NEW r \in Requests, Handle(r) PROVE Unwound'
  <2>1. Moved(r)
    BY <1>1, <1>2, HandleMoves
  <2> SUFFICES ASSUME NEW q \in Requests, At(q, "unwind")', NEW t \in req'[q].held, t \in tenants'
               PROVE  FALSE
    BY DEF Unwound
  <2>2. CASE q # r
    <3>1. req'[q] = req[q] /\ t \notin tenants
      BY <2>1, <2>2 DEF Moved, Unwound, At
    <3>2. req[r].pc = "provision" /\ t \in req[r].held
      BY <1>1, <1>2, <3>1, TenantAppears DEF At
    <3> QED BY <2>2, <3>1, <3>2 DEF HomeInv, FreshOK
  <2>3. CASE q = r
    <3>1. At(r, "rollback") /\ req'[r].held = req[r].held
      BY <2>1, <2>3, IdleParts DEF Moved, Moves, At
    <3>2. RollbackTenant(r)
      BY <1>2, <3>1 DEF Handle, CreateTenant, InsertSubscription, CreateAPIKey, RollbackTenant,
                  UnwindSubscription, DeprovisionTenant, DeleteSubscriptionRow, ListSubscriptions,
                  DeprovisionNext, DropCustomer, DeletePlan, CountSubscriptions, DeleteNode, At
    <3>3. req[r].keyed
      BY <1>1, <2>3, <3>2, AnswerMoves, IdleParts DEF RollbackTenant, At
    <3>4. StoreFaults /\ faults > 0
      <4>1. ~At(q, "provision") /\ ~Cleared(q)'
        BY <2>3, <3>1 DEF Cleared, At
      <4>2. ~Cleared(q)
        BY <2>3, <3>1, <4>1, ClearedStays
      <4> QED BY <2>3, <3>3, <4>2 DEF KeyedOK
    <3>5. ~(faults < MaxFaults) \/ Faults = {}
      BY <1>1, <3>4, BoundsAssumption DEF OneFailure, BoundsAssumption
    <3>6. PICK u : req[r].held = {u}
      BY <1>1, <3>1 DEF StepsOK, SalePCs, At
    <3>7. Answered(Delete(u)) \/ Failed(Delete(u))
      BY <3>2, <3>6 DEF RollbackTenant
    <3>8. u \notin tenants'
      BY <3>5, <3>7, AnsweredDelete DEF Failed, Delete, network
    <3> QED BY <2>3, <3>1, <3>6, <3>8
  <2> QED BY <2>2, <2>3
<1>3. ASSUME NEW r \in Requests, Arrive(r) PROVE Unwound'
  BY <1>1, <1>3, ArriveDoes DEF Arrived, Unwound, At
<1>4. CASE ServeLate
  <2>1. PICK c \in wire : Serve(c) /\ UNCHANGED req
    BY <1>4 DEF ServeLate
  <2>2. c.op = "create" => \A r \in Requests : \A t \in req[r].held : t # c.tenant
    BY DEF LifeInv, LateOK
  <2> QED BY <2>1, <2>2 DEF Unwound, Serve, At
<1>5. CASE Crash \/ UNCHANGED vars
  BY <1>5, IdleParts DEF Crash, vars, Unwound, At, network
<1> QED BY <1>2, <1>3, <1>4, <1>5 DEF Next

\* Where statements and node calls do not both fail, and nothing fails twice, no
\* rollback does: every step of the handlers is then a step of the tenant's life.
THEOREM TenantLifeKept == ASSUME OneFailure PROVE Spec /\ []Apart => LifeSpec
<1>1. Init => KeyedOK /\ Unwound
  BY DEF Init, Idle, KeyedOK, Unwound, At
<1>2. HomeInv /\ LifeInv /\ KeyedOK /\ Unwound /\ [Next]_vars => KeyedOK' /\ Unwound'
  BY KeyedKept, UnwoundKept
<1>3. Spec /\ []Apart => []Unwound
  BY <1>1, <1>2, HomeKept, LifeKept, PTL DEF Spec
<1> QED BY <1>3, ImplementsTenantLife, PTL

=============================================================================
