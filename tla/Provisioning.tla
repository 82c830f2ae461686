---------------------------- MODULE Provisioning ----------------------------
(***************************************************************************)
(* Selling and withdrawing access: the tables customers, plans, nodes,     *)
(* subscriptions and api_keys with their foreign keys, the tenants the     *)
(* nodes really hold, and the handlers that add to and delete from both:   *)
(* createSubscription, deleteSubscription, deleteCustomer, deletePlan and  *)
(* deleteNode, running concurrently, failing half way, or dying with the   *)
(* process.  What a subscription is worth (quota, usage, status) is in     *)
(* Metering.                                                               *)
(***************************************************************************)
EXTENDS FiniteSets, Naturals

CONSTANTS
  Customers, Plans, Nodes,
  Ids,            \* the UUIDs drawn for subscriptions and their tenants
  Requests,       \* request goroutines that may be in flight at once
  Ops,            \* the kinds of request each of them serves
  Faults,         \* how a node call may fail
  StoreFaults,    \* may a SQL statement fail
  MaxRequests,    \* bound: requests received
  MaxFaults,      \* bound: failed node calls and statements
  MaxCrashes      \* bound: panel restarts

AllOps == {"create", "deleteSubscription", "deleteCustomer", "deletePlan", "deleteNode"}

\* refused: an error and nothing done; lost: done, but the reply missed the
\* timeout; late: served after the timeout.
AllFaults == {"refused", "lost", "late"}

ASSUME ScopeAssumption ==
  /\ Ops \in [Requests -> SUBSET AllOps] /\ Faults \subseteq AllFaults
  /\ StoreFaults \in BOOLEAN

ASSUME BoundsAssumption == MaxRequests \in Nat /\ MaxFaults \in Nat /\ MaxCrashes \in Nat

VARIABLES
  customers, plans, nodes,  \* the rows of those tables
  subs,      \* the subscriptions table, by id
  keys,      \* api_keys: <<customer, id of the subscription it was made for>>
  tenants,   \* <<node, id>> of the tenants live on nodes
  wire,      \* late calls nodes have yet to serve
  drawn,     \* UUIDs drawn
  req,       \* the request goroutines
  abandoned, \* tenants a sale gave up on: logged, or not even that
  arrived, faults, crashes

tables == <<customers, plans, nodes, subs, keys>>
limits == <<arrived, crashes>>
network == <<tenants, wire, faults>>
vars == <<customers, plans, nodes, subs, keys, tenants, wire, drawn, req,
          abandoned, arrived, faults, crashes>>

-----------------------------------------------------------------------------
(* Tables. *)

SubRecords == [customer : Customers, plan : Plans, node : Nodes]

NoSub == [customer |-> "none", plan |-> "none", node |-> "none"]

\* Customers are UUIDs.
ASSUME NamesAssumption == "none" \notin Customers

Sold == {i \in Ids : subs[i] # NoSub}

SubsOf(c) == {i \in Sold : subs[i].customer = c}

\* customer_id, plan_id and node_id must name rows when a subscription is
\* inserted, and a plan or node that is named cannot be deleted.
ReferencesValid(rec) == rec.customer \in customers /\ rec.plan \in plans /\ rec.node \in nodes

PlanReferenced(p) == \E i \in Sold : subs[i].plan = p

NodeReferenced(n) == \E i \in Sold : subs[i].node = n

-----------------------------------------------------------------------------
(* Goroutines. *)

PCs == {"idle", "provision", "insert", "key", "rollback", "unwind", "node", "row",
        "list", "each", "plan", "count", "deregister"}

Idle == [pc |-> "idle", rec |-> NoSub, held |-> {}, keyed |-> FALSE]

\* rec is what the request names or will insert, held the tenants it is about,
\* keyed whether it was the api key that could not be stored.
RequestStates ==
  [pc : PCs,
   rec : [customer : Customers \cup {"none"}, plan : Plans \cup {"none"}, node : Nodes \cup {"none"}],
   held : SUBSET (Nodes \X Ids), keyed : BOOLEAN]

At(r, pc) == req[r].pc = pc

Go(r, pc) == req' = [req EXCEPT ![r].pc = pc]

Answer(r) == req' = [req EXCEPT ![r] = Idle]

-----------------------------------------------------------------------------
(* Node calls and statements that fail.  A tenant is <<node, id>>. *)

Calls == [op : {"create", "delete"}, tenant : Nodes \X Ids]

Create(t) == [op |-> "create", tenant |-> t]

Delete(t) == [op |-> "delete", tenant |-> t]

Serve(c) == tenants' = IF c.op = "create" THEN tenants \cup {c.tenant} ELSE tenants \ {c.tenant}

Answered(c) == Serve(c) /\ UNCHANGED <<wire, faults>>

\* A node may also refuse to delete a tenant it does not know.
Failed(c) ==
  \/ c.op = "delete" /\ c.tenant \notin tenants /\ UNCHANGED network
  \/ /\ faults < MaxFaults
     /\ faults' = faults + 1
     /\ \/ "refused" \in Faults /\ UNCHANGED <<tenants, wire>>
        \/ "lost" \in Faults /\ Serve(c) /\ UNCHANGED wire
        \/ "late" \in Faults /\ wire' = wire \cup {c} /\ UNCHANGED tenants

\* One count bounds the calls and the statements that fail.
StatementFails == StoreFaults /\ faults < MaxFaults /\ faults' = faults + 1

-----------------------------------------------------------------------------
(* Requests arrive. *)

Receive(r, state) ==
  /\ At(r, "idle")
  /\ arrived < MaxRequests
  /\ arrived' = arrived + 1
  /\ req' = [req EXCEPT ![r] = state]
  /\ UNCHANGED <<tables, network, abandoned, crashes>>

\* The customer, plan and node were found.  They are read one by one, but a row
\* deleted meanwhile is caught by the INSERT all the same.
ReceiveCreate(r) ==
  /\ "create" \in Ops[r]
  /\ \E c \in customers, p \in plans, n \in nodes, i \in Ids \ drawn :
       /\ Receive(r, [Idle EXCEPT !.pc = "provision", !.held = {<<n, i>>},
                                  !.rec = [customer |-> c, plan |-> p, node |-> n]])
       /\ drawn' = drawn \cup {i}

ReceiveDeleteSubscription(r) ==
  /\ "deleteSubscription" \in Ops[r]
  /\ \E i \in Sold :
       Receive(r, [Idle EXCEPT !.pc = "node", !.held = {<<subs[i].node, i>>}, !.rec = subs[i]])
  /\ UNCHANGED drawn

ReceiveDeleteCustomer(r) ==
  /\ "deleteCustomer" \in Ops[r]
  /\ \E c \in customers : Receive(r, [Idle EXCEPT !.pc = "list", !.rec.customer = c])
  /\ UNCHANGED drawn

ReceiveDeletePlan(r) ==
  /\ "deletePlan" \in Ops[r]
  /\ \E p \in plans : Receive(r, [Idle EXCEPT !.pc = "plan", !.rec.plan = p])
  /\ UNCHANGED drawn

ReceiveDeleteNode(r) ==
  /\ "deleteNode" \in Ops[r]
  /\ \E n \in nodes : Receive(r, [Idle EXCEPT !.pc = "count", !.rec.node = n])
  /\ UNCHANGED drawn

-----------------------------------------------------------------------------
(* createSubscription. *)

\* CreateTenant; on an error the handler answers 502 and undoes nothing.
CreateTenant(r) ==
  /\ At(r, "provision")
  /\ \E t \in req[r].held :
       \/ Answered(Create(t)) /\ Go(r, "insert") /\ UNCHANGED abandoned
       \/ Failed(Create(t)) /\ Answer(r) /\ abandoned' = abandoned \cup {t}
  /\ UNCHANGED <<tables, drawn, limits>>

InsertSubscription(r) ==
  /\ At(r, "insert")
  /\ \/ /\ ReferencesValid(req[r].rec)
        /\ \E t \in req[r].held : subs' = [subs EXCEPT ![t[2]] = req[r].rec]
        /\ Go(r, "key")
        /\ UNCHANGED faults
     \/ /\ \/ ~ReferencesValid(req[r].rec) /\ UNCHANGED faults
           \/ StatementFails
        /\ Go(r, "rollback")
        /\ UNCHANGED subs
  /\ UNCHANGED <<customers, plans, nodes, keys, tenants, wire, drawn, abandoned, limits>>

CreateAPIKey(r) ==
  /\ At(r, "key")
  /\ \/ /\ req[r].rec.customer \in customers
        /\ keys' = keys \cup {<<req[r].rec.customer, t[2]>> : t \in req[r].held}
        /\ Answer(r)
        /\ UNCHANGED faults
     \/ /\ \/ req[r].rec.customer \notin customers /\ UNCHANGED faults
           \/ StatementFails
        /\ req' = [req EXCEPT ![r].pc = "rollback", ![r].keyed = TRUE]
        /\ UNCHANGED keys
  /\ UNCHANGED <<customers, plans, nodes, subs, tenants, wire, drawn, abandoned, limits>>

\* Slip: only the row is rolled back.
RollbackRowOnly(r) ==
  /\ At(r, "rollback")
  /\ IF req[r].keyed THEN Go(r, "unwind") ELSE Answer(r)
  /\ UNCHANGED <<tables, tenants, wire, faults, drawn, abandoned, limits>>

\* rollbackTenant: a failure is only logged.
RollbackTenant(r) ==
  /\ At(r, "rollback")
  /\ \E t \in req[r].held :
       \/ Answered(Delete(t)) /\ UNCHANGED abandoned
       \/ Failed(Delete(t)) /\ abandoned' = abandoned \cup {t}
  /\ IF req[r].keyed THEN Go(r, "unwind") ELSE Answer(r)
  /\ UNCHANGED <<tables, drawn, limits>>

\* store.DeleteSubscription, whose error both callers turn into an answer.
RemoveRow(r) ==
  \/ \E t \in req[r].held : subs' = [subs EXCEPT ![t[2]] = NoSub] /\ UNCHANGED faults
  \/ StatementFails /\ UNCHANGED subs

UnwindSubscription(r) ==
  /\ At(r, "unwind")
  /\ RemoveRow(r)
  /\ Answer(r)
  /\ UNCHANGED <<customers, plans, nodes, keys, tenants, wire, drawn, abandoned, limits>>

-----------------------------------------------------------------------------
(* deleteSubscription. *)

\* The node must answer before the row may go; otherwise 502 and it is kept.
DeprovisionTenant(r) ==
  /\ At(r, "node")
  /\ \E t \in req[r].held :
       \/ Answered(Delete(t)) /\ Go(r, "row")
       \/ Failed(Delete(t)) /\ Answer(r)
  /\ UNCHANGED <<tables, drawn, abandoned, limits>>

DeleteSubscriptionRow(r) ==
  /\ At(r, "row")
  /\ RemoveRow(r)
  /\ Answer(r)
  /\ UNCHANGED <<customers, plans, nodes, keys, tenants, wire, drawn, abandoned, limits>>

-----------------------------------------------------------------------------
(* deleteCustomer. *)

ListSubscriptions(r) ==
  /\ At(r, "list")
  /\ \/ /\ req' = [req EXCEPT ![r].pc = "each",
                        ![r].held = {<<subs[i].node, i>> : i \in SubsOf(req[r].rec.customer)}]
        /\ UNCHANGED faults
     \/ StatementFails /\ Answer(r)
  /\ UNCHANGED <<tables, tenants, wire, drawn, abandoned, limits>>

\* Slip: a tenant whose node refuses is passed over.
DeprovisionNextUnchecked(r) ==
  /\ At(r, "each")
  /\ \E t \in req[r].held :
       /\ Answered(Delete(t)) \/ Failed(Delete(t))
       /\ req' = [req EXCEPT ![r].held = @ \ {t}]
  /\ UNCHANGED <<tables, drawn, abandoned, limits>>

\* One tenant of the list.  A node that cannot be loaded, or refuses, ends the
\* request with 502.
DeprovisionNext(r) ==
  /\ At(r, "each")
  /\ \E t \in req[r].held :
       \/ /\ t[1] \in nodes
          /\ Answered(Delete(t))
          /\ req' = [req EXCEPT ![r].held = @ \ {t}]
       \/ t[1] \in nodes /\ Failed(Delete(t)) /\ Answer(r)
       \/ t[1] \notin nodes /\ Answer(r) /\ UNCHANGED <<tenants, wire, faults>>
  /\ UNCHANGED <<tables, drawn, abandoned, limits>>

\* DELETE FROM customers: subscriptions and api_keys cascade.
DropCustomer(r) ==
  /\ At(r, "each")
  /\ req[r].held = {}
  /\ LET c == req[r].rec.customer IN
       \/ /\ customers' = customers \ {c}
          /\ subs' = [i \in Ids |-> IF i \in SubsOf(c) THEN NoSub ELSE subs[i]]
          /\ keys' = {k \in keys : k[1] # c}
          /\ UNCHANGED faults
       \/ StatementFails /\ UNCHANGED <<customers, subs, keys>>
  /\ Answer(r)
  /\ UNCHANGED <<plans, nodes, tenants, wire, drawn, abandoned, limits>>

-----------------------------------------------------------------------------
(* deletePlan and deleteNode: the foreign keys have the last word. *)

DeletePlan(r) ==
  /\ At(r, "plan")
  /\ LET p == req[r].rec.plan IN
       \/ plans' = (IF PlanReferenced(p) THEN plans ELSE plans \ {p}) /\ UNCHANGED faults
       \/ StatementFails /\ UNCHANGED plans
  /\ Answer(r)
  /\ UNCHANGED <<customers, nodes, subs, keys, tenants, wire, drawn, abandoned, limits>>

\* CountSubscriptionsByNode: 409 if there are any, 500 if they cannot be counted.
CountSubscriptions(r) ==
  /\ At(r, "count")
  /\ \/ NodeReferenced(req[r].rec.node) /\ Answer(r) /\ UNCHANGED faults
     \/ ~NodeReferenced(req[r].rec.node) /\ Go(r, "deregister") /\ UNCHANGED faults
     \/ StatementFails /\ Answer(r)
  /\ UNCHANGED <<tables, tenants, wire, drawn, abandoned, limits>>

DeleteNode(r) ==
  /\ At(r, "deregister")
  /\ LET n == req[r].rec.node IN
       \/ nodes' = (IF NodeReferenced(n) THEN nodes ELSE nodes \ {n}) /\ UNCHANGED faults
       \/ StatementFails /\ UNCHANGED nodes
  /\ Answer(r)
  /\ UNCHANGED <<customers, plans, subs, keys, tenants, wire, drawn, abandoned, limits>>

-----------------------------------------------------------------------------
ServeLate ==
  /\ \E c \in wire : Serve(c) /\ wire' = wire \ {c}
  /\ UNCHANGED <<tables, drawn, req, abandoned, faults, limits>>

\* The tenants of sales in progress.
InSale == UNION {req[r].held : r \in {q \in Requests : req[q].pc \in {"insert", "rollback"}}}

\* The process dies and is started again: goroutines are gone, rows are not.
Crash ==
  /\ crashes < MaxCrashes
  /\ crashes' = crashes + 1
  /\ req' = [r \in Requests |-> Idle]
  /\ abandoned' = abandoned \cup InSale
  /\ UNCHANGED <<tables, network, drawn, arrived>>

Init ==
  /\ customers = Customers /\ plans = Plans /\ nodes = Nodes
  /\ subs = [i \in Ids |-> NoSub]
  /\ keys = {}
  /\ tenants = {}
  /\ wire = {}
  /\ drawn = {} /\ abandoned = {}
  /\ req = [r \in Requests |-> Idle]
  /\ arrived = 0 /\ faults = 0 /\ crashes = 0

Arrive(r) == \/ ReceiveCreate(r) \/ ReceiveDeleteSubscription(r) \/ ReceiveDeleteCustomer(r)
             \/ ReceiveDeletePlan(r) \/ ReceiveDeleteNode(r)

Handle(r) == \/ CreateTenant(r) \/ InsertSubscription(r) \/ CreateAPIKey(r)
             \/ RollbackTenant(r) \/ UnwindSubscription(r)
             \/ DeprovisionTenant(r) \/ DeleteSubscriptionRow(r)
             \/ ListSubscriptions(r) \/ DeprovisionNext(r) \/ DropCustomer(r)
             \/ DeletePlan(r) \/ CountSubscriptions(r) \/ DeleteNode(r)

Next == (\E r \in Requests : Arrive(r) \/ Handle(r)) \/ ServeLate \/ Crash

Spec == Init /\ [][Next]_vars

\* No sale inserts its row between a deleteCustomer's list of the same customer
\* and its DELETE: nothing in the code prevents it.
Apart ==
  \A r, q \in Requests :
    At(r, "insert") /\ At(q, "each") => req[r].rec.customer # req[q].rec.customer

ApartSpec == Init /\ [][Next /\ Apart']_vars

-----------------------------------------------------------------------------
(* Properties. *)

TypeOK ==
  /\ customers \subseteq Customers /\ plans \subseteq Plans /\ nodes \subseteq Nodes
  /\ subs \in [Ids -> SubRecords \cup {NoSub}]
  /\ keys \subseteq Customers \X Ids
  /\ tenants \subseteq Nodes \X Ids
  /\ wire \subseteq Calls
  /\ drawn \subseteq Ids /\ abandoned \subseteq Nodes \X Ids
  /\ req \in [Requests -> RequestStates]
  /\ arrived \in Nat /\ faults \in Nat /\ crashes \in Nat

\* What the panel's tables and the nodes make of a tenant id.
HasTenant(i) == \E n \in Nodes : <<n, i>> \in tenants

Phase == [i \in Ids |-> IF i \in Sold
                        THEN (IF <<subs[i].node, i>> \in tenants THEN "sold" ELSE "retired")
                        ELSE (IF HasTenant(i) THEN "live" ELSE "absent")]

Life == INSTANCE TenantLife WITH phase <- Phase

\* Every step of the handlers is a step of the tenant's life: no row is sold
\* without its tenant, and none is dropped while its tenant lives, "with the
\* subscription gone, nothing would ever point at it again".
LifeSpec == Life!Spec

\* A tenant live on a node is one the panel has a row for, one a sale in
\* progress is about to record or remove, or one a sale gave up on when a call
\* failed or the process died: nothing else orphans a tenant.
Custody ==
  \A t \in tenants :
    t \in InSale \cup abandoned \/ (t[2] \in Sold /\ subs[t[2]].node = t[1])
=============================================================================
