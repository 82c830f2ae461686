# Verification of NodePanel

NodePanel sells metered network access.  The panel (Go, one process, one SQLite
file) keeps customers, plans, nodes and subscriptions; each node runs an agent
that holds *tenants*, meters their traffic and cuts them off by itself.  Panel
and node share nothing: every agreement between them is a sequence of HTTP calls
and SQL statements that other requests, the usage collector, a timeout or a
restart can interleave with.  These TLA+ modules model that, TLC checks them on
small instances, and TLAPS proves the most important results for every instance.

## 1. Inventory

| component | state it keeps | operations | talks to |
|---|---|---|---|
| subscription handlers (`api/subscriptions.go`, `api/lifecycle.go`) | none of its own; one goroutine per request holding a *snapshot* of the row | top-up, renew, suspend, resume, disable/enable a customer | store, node client, dispatcher |
| usage collector (`api/collector.go`) | one goroutine, a list of rows read at the start of a round | poll, write usage, store a sample, emit usage events, take over the node's status, emit a status event | store, node client, dispatcher |
| selling and withdrawing (`createSubscription`, `deleteSubscription`, `deleteCustomer`, `deletePlan`, `deleteNode`) | goroutines; rows of five tables bound by foreign keys | sell, roll a sale back, delete | store, node client |
| webhook dispatcher (`webhook/dispatcher.go`) | a channel of 512 jobs, one worker started by the first Emit | Emit, dispatch, deliver with retries, record | store, the customers' endpoints |
| node registry (`api/nodes.go`, `store/nodes.go`) | rows of `nodes` | register (with rollback), PATCH, push a config, health, core and binary requests, details | store, node client |
| deadlines (`api/api.go`, the handlers, `nodeclient`) | the contexts of a request in flight | route group 30s or 200s, handler 12s to 190s, HTTP client 15s or 180s, dial 10s, rollback 15s | – |
| opening and migration (`store/store.go`) | the database file, the pool's one connection | schema, ADD COLUMN, rebuild of `usage_records`, token backfill | SQLite |
| store (`internal/store`) | the SQLite file, one connection | a statement at a time, no transaction | – |
| node client (`nodeclient/client.go`) | TLS pin | one call, at most 15s (180s for downloads), no retry; fetching a certificate | node agent |
| node agent (another program) | tenants, running config | create, quota, suspend, resume, reset, delete, usage; enforcement | – |
| presentation (`subpage.go`, `customerUsage`, `getNodeDetail`, `getNodeInbounds`) | none | reads | store, node client |
| router, authentication, configuration | none | bearer token, environment | – |

**What is hard here.**  A handler reads a row, calls a node and writes the row
back, with no lock and no transaction, so every pair of handlers can overlap at
any step; the collector acts on rows read before a poll and writes after it; a
call that times out at the client may have been served, or be served later; four
kinds of deadline are nested, and the earliest ends a call; a statement in the
middle of a handler may fail, and most such errors are only logged or ignored; a
restart abandons every handler where it stands and empties the dispatcher's
queue; an event has one chance, since the row already says that it was sent; and
nothing reconciles panel and node afterwards.  `PROJECT.json` lists each of these
hazards at its line, with the property that covers it or the reason why none does.

**What makes each part correct.**

* metering: no purchase lost or undone twice; no period billed that the node did
  not start; node and row agree on quota and expiry once handlers are done; the
  ways to a tenant that is served and not polled are known; the audit trail never
  goes back; in the end a polled row shows what the node metered and decided;
* alerts: what a row says was sent or decided has an event, and the ways to lose
  that event are known; usage events once each; an expiry's event gets somewhere;
* selling: a tenant that is live has a row, or a sale gave it up knowingly; a row
  is never dropped while its tenant lives;
* dispatcher: order kept for each endpoint that answers in time; each event taken
  has one true record; retries are not cut short; the worker never stops;
* deadlines: an operator is never told "failed" while the node is mid-swap; a
  probe has time to be answered; every call ends within the budgets of its route
  and its handler, a rollback excepted;
* registry: a row shows what the daemon runs, unless the panel cannot know it; a
  rejected registration leaves no row; a PATCH changes nothing it omits; what an
  operator is shown is so;
* migration: an open that succeeds is complete; tokens are stable; no sample is
  lost; a start stopped anywhere but inside the rebuild of `usage_records` is made
  good by the next; no open hangs;
* presentation: pages, events and totals agree, and a page goes back within a
  period only where the stored bytes do.

## 2. Modules and how they correspond to the code

| module | models | depends on |
|---|---|---|
| `NodeAgent` | one tenant at the node: what each admin call does to it, when it serves, when it is cut off (external: inferred from the requests and comments of `nodeclient` and the handlers) | – |
| `Threshold` | `thresholdLevel` | – |
| `Metering` | the rows, tenants, late calls, request goroutines and the collector of one customer | `NodeAgent`, `Threshold` |
| `Relay` | abstract: a lossy first-in first-out relay of events, what the dispatcher promises to those who emit | – |
| `Dispatcher` | channel, worker, attempts and budget, endpoints, delivery log; `R == INSTANCE Relay WITH pending <- ...` | `Relay` |
| `Alerts` | collector, handlers and relay composed: each Emit, and the restart that takes both | `Metering`, `Relay` |
| `TenantLife` | abstract: absent → live → sold → retired → absent; never sold → live | – |
| `Provisioning` | the five tables and the nodes' tenants under sales and deletions; `Life == INSTANCE TenantLife WITH phase <- Phase` | `TenantLife` |
| `NodeRegistry` | the nodes table, the daemon it stands for, the handlers of `nodes.go` | – |
| `Deadlines` | one request of any of sixteen kinds against the clock, second by second | – |
| `Migration` | `store.Open`, statement by statement, with the connection its rows hold | – |
| `Views` | the handlers that only read: subscription page, customer usage, inbounds with redaction, node details with the certificate fetched at registration | `Threshold` |
| `MC*` | who sends what, for TLC | the module named |
| `MeteringProofs` | theorems about `Metering` | TLAPS |
| `AlertsProofs` | theorems about `Alerts` | `MeteringProofs` |
| `DispatcherProofs` | theorems about `Dispatcher`, the refinement of `Relay` among them | TLAPS |
| `ProvisioningProofs`, `NodeRegistryProofs`, `DeadlinesProofs`, `MigrationProofs`, `ViewsProofs` | theorems about those modules; the refinement of `TenantLife` | TLAPS |

Conventions that hold throughout:

* **A goroutine is a record with a `pc`.**  `req[r].pc` names the statement or
  call the handler is about to make; the record carries exactly the locals the
  code keeps (the snapshot `snap`, the total it read, the new expiry).  The
  collector (`coll`) and the dispatcher's worker are one record each, because
  the code starts one of each.
* **A SQL statement is one step.**  The pool has one connection
  (`SetMaxOpenConns(1)`), so statements do not overlap; a handler with two
  statements takes two steps.  Where the code runs UPDATE and then SELECT
  (`AddSubscriptionQuota`) the model has two actions (`TopupAdd`, `TopupRead`).
  With `StoreFaults` any statement may fail, and what follows is what the
  handler does then: answer 500, log and go on, or nothing.  In `Migration` any
  statement may fail (`StatementFails`), and the one query whose iteration error is
  not asked for may return any part of its rows (`ListTokenless`).
* **A node call is one step with an outcome**: `Answered`, or `Failed` in one of
  three ways. *refused*: nothing done; *lost*: done, but the reply missed the
  timeout; *late*: put in `wire`, and served at any time afterwards
  (`ServeLate`), whatever the panel did meanwhile.  Config pushes
  (`NodeRegistry!Unanswered`, `LateArrival`) and webhook deliveries to endpoints in
  `Slow` (`Dispatcher!Deliver`, `LateArrival`) are lost and late in the same way.  `Deadlines` says how long a
  call lasts and which deadline ends it; there a call is many steps of one second.
* **A restart** (`Crash`) resets the goroutines and memory and keeps tables and
  nodes.
* **Ghost state** appears only to state properties: in `Metering` `granted` and
  `unrefunded` (bytes of top-ups answered 200, and of those that never were and
  were not undone) and `notices`, `told` (events handed to the dispatcher); in
  `Alerts` `lost` (events cut short by a death or by a failing statement of the
  dispatcher) and `interrupted` (events the panel died before emitting or before
  marking) and `silenced` (levels put in a row that nobody was told of); in
  `Provisioning` `abandoned` (tenants a sale gave up on); in `Dispatcher` `offered`
  and `received` (each copy with whether it came late); in `Migration` `samples`,
  `cuts` (the steps at which starts were stopped) and `unlisted` (what the cut-short
  query left out); in `NodeRegistry` `rejected` and `unsure` (the node runs a config
  the panel does not know of, or could not store).
* **Slips.**  A definition whose comment begins with "Slip:" is a plausible bug
  next to the definition it would replace.  It is used by no specification; it
  is there so that each property can be seen to fail when the code is wrong
  (`mutants` in `PROJECT.json`).

What is assumed of the node agent, which is another repository: SetQuota changes
quota and expiry and not the status (`topupQuota` follows it with an explicit
Resume); ResetPeriod zeroes usage, starts the next period and reactivates
(`nodeclient/client.go`: "usage zeroed, reactivated"); the usage view always
names a status; and a node may or may not accept the deletion of a tenant it does
not know (both are allowed).

### How the components are composed

The collector and the handlers meet the dispatcher in two places only: `Emit`,
which never waits, and the death of the process.  `Dispatcher` alone has the
detail (attempts, budgets, late answers); `Relay` says what is left of it for a
caller: an event is taken or dropped, those taken are dealt with in order, each
is reported for the endpoints registered when its turn comes, and a restart
loses what waits.  `Dispatcher_delivery` checks the refinement and
`DispatcherProofs` proves it for all constants, so `Alerts` may take `Relay` for the
dispatcher and stays small enough to be composed with all of `Metering`.

## 3. Runs

Model checking is exhaustive within these bounds.  `CHECK_DEADLOCK FALSE` stands
in every cfg for one reason: clients, traffic, the clock and restarts are
bounded by constants, and when they have stopped the system waits, as it should.

| run | asks | bounds and why they are enough |
|---|---|---|
| `Metering_apart` | when no two requests are at one subscription at once, and node calls may be refused, do row and node agree afterwards, and what does a refusal cost when a customer is disabled? (`TypeOK`, `QuotaDelivered`, `ExpiryDelivered`, `DisabledIsCutOff`) | `ApartSpec`: two goroutines at two subscriptions of one customer, three requests, two refusals, the collector off (it writes neither quota nor expiry): an operation that fails, its repetition that fails, one that overlaps them at the other subscription or sees the result, and a "disable" refused by none, one or both nodes; the clock passes the expiry, traffic passes the quota; symmetric in subscriptions and goroutines |
| `Metering_concurrent` | do purchases and periods survive concurrency, failures and a restart? (`QuotaConserved`, `PeriodBacked`) | two goroutines, three requests of all six kinds, every fault, failing statements, one restart: two overlapping requests and one after |
| `Metering_liveness` | is every row right in the end, and how can a tenant come to be served that nobody bills? (`EventuallyBilled`, `EventuallyReflected`, `LeaksAreKnown`) | one request of any of the six kinds beside the collector, one refused call or poll, one restart: each of the four ways `LeaksAreKnown` names is taken in this run, and it fails when any one of them is struck out; the first two properties under fairness, see below |
| `Alerts_end_to_end` | from the node's decision to the consumer's log (`ExpiryReported`, `LevelReported`, `NoticeOnce`, `AuditMonotone`, `ExpiryReaches`) | a renewal or a suspension against the collector, a poll from before the renewal included, traffic to exactly the quota, an expiry, a queue of one so that it fills, failing statements of the dispatcher, one restart of both |
| `Provisioning_life` | do sales and deletions keep tables and nodes in step? (`Custody`, `LifeSpec`) | `ApartSpec`: two goroutines that serve every kind of request, five requests, two customers, three tenants on two nodes, one failed call or statement, one restart: two operations at once, whoever's they are, and what they leave met by others; symmetric in customers, nodes, ids and goroutines |
| `Dispatcher_delivery` | is the log of deliveries true and complete, whatever goes wrong? (`EachRecordedOnce`, `LogIsTrue`, `Ordered`, `Relayed`, `EventuallyHandled`) | the code's 3 attempts, 10s, 2s and 60s; two endpoints with different filters, one of them slow: of the attempts given up on it, one at a time may still be taken; two events, a queue of one so that it fills, failing statements, one restart |
| `Deadlines_requests` | which of the nested deadlines ends a call? (`NoRetryMidSwap`, `ProbeHonest`, `OneBudget`) | the code's own seconds, all sixteen kinds of request; a body that takes up to 20s, so that the group's deadline overtakes the handler's; a customer with three subscriptions, so that the shared 30s run out between the second and the third; swaps of up to 179s, one below the client's timeout; a node that is up answers a probe within 5s |
| `NodeRegistry_records` | do rows tell the truth about nodes? (`StoredIsRunning`, `RejectedLeavesNoRow`, `OmittedKept`) | `ApartSpec`, which keeps apart two PATCHes of one row and nothing else: two goroutines that serve every kind of request, three requests; two rows for one daemon, two configs, two columns of which one is a port, outages, one refused, lost or late call or failing statement, one restart: two operations at once and a third that meets what they leave; a registration gives its columns one value, a PATCH any; symmetric in ids, configs, values and goroutines |
| `Migration_open` | what do repeated stops leave? (`UpToDate`, `AlwaysOpens`, `RecordsKept`, `TokensStable`, `OpenEnds`) | any subset of two missing columns, no/old/new `usage_records`, three subscriptions, two samples; four starts, two deaths and two failing statements or cut-short queries, at any step |
| `Views_reads` | do the answers of the readers agree with one another, with the events and with the calls? (`LevelsAgree`, `PageNeverGoesBack`, `UsageMatchesPages`, `InboundsShared`, `PinIsTheNodes`, `DetailIsTrue`) | integers up to 2047, so that 20·100 fits and 21·100 wraps around; days of three seconds and loads before, at and after the end of a subscription; lists of up to two inbounds; every form of address the parsers tell apart |
| `Metering_v_quota` | **violated**: two top-ups, `QuotaDelivered` | see findings |
| `Provisioning_v_cascade` | **violated**: a sale during a deletion, `LifeSpec` | see findings |

The scopes of the passing runs are as wide as the code allows.  Where a run
leaves something out (top-ups from `Alerts_end_to_end`, for `NoticeOnce`; two
requests at one subscription from `Metering_apart`; the INSERT of a sale in the
middle of `deleteCustomer` from `Provisioning_life`; two PATCHes of a row between
read and write from `NodeRegistry_records`; swaps beyond 180s from
`Deadlines_requests`) it is because the property is then *false of the code*:
section 5 says which.  What is false in a single step is not left out but named in
the property: `LeaksAreKnown`, `LevelReported`, `StoredIsRunning`, `AlwaysOpens`,
`RecordsKept` and `Custody` are checked with these steps in, and say that the code
can break what they are about by them and by no others.  The collector is off in
`Metering_apart` for size: it writes neither quota nor expiry, and the theorems of
section 6 have it.  `Metering_liveness` has one request
to keep the temporal check within minutes.

### Properties worth a second look

* `QuotaConserved` is an equation between the quota column and the ledger of
  purchases: at every instant quota = plan + answered top-ups + abandoned ones +
  those in progress.  It holds with overlapping top-ups, undos and renewals
  because the code adds and subtracts in one statement (`quota_bytes + ?`); the
  slip is the read-modify-write the comment at `subscriptions.go:263` warns of.
* `PeriodBacked` counts renewals between the node's reset and the row's write.
* `LeaksAreKnown` is about the moment a tenant becomes served under a row that is
  switched off, which ends its billing.  It lists the four steps of the code that can
  do it, and holds with the collector, restarts and refused calls in.
* `ExpiryReported` and `LevelReported` relate three places: the row, the
  goroutine that is about to emit, and the relay.  A row shown as expired silences
  the panel for good, a level marked as notified for the rest of the period, so the
  event (of a level: the event of the row's own period) must be
  somewhere: about to go, on its way, in every log, dropped from a full queue, or
  cut short by a death.  The list of exceptions is what they are about.  A level
  has two more: a poll from before a renewal marks the new period's row, and a
  top-up re-arms to the level reached (`silenced`).
* `AuditMonotone` relates successive samples: it holds although a sample may be
  stored long after it was polled, since there is one collector and it files the
  sample under the period *the node named*.
* `Custody` says that there are exactly three ways to orphan a tenant: a Create
  that failed at the client, a rollback that failed, and a death in between.
* `StoredIsRunning` says in which steps row and daemon part (`unsure`), and that
  every later push that is answered, stored and alone at its row joins them again,
  whatever was refused, lost or late before.
* `LifeSpec` and `Relayed` are refinements: every step of `Provisioning` is a
  step or a stutter of `TenantLife`, every step of `Dispatcher` one of `Relay`.
* `ProbeHonest` needs four numbers of three files to fit: the config pushed
  first may take the client's 15s of the 20s they share, so 5s remain, less what the
  body took; `OneBudget` needs the group's and the handlers' to fit as well.
* `LevelsAgree` has two parts: `LevelExact` states the level without a division,
  against a computation that multiplies, wraps and divides; `BarAgrees` holds beyond
  the overflow as well.
* `AlwaysOpens` and `RecordsKept` tell one stop from another: only one between the
  rebuild's CREATE and DROP strands the file, only one between DROP and RENAME
  strands the samples, in a table nothing reads; after any other the next start
  makes good what was left half done.
* `OpenEnds` fails as soon as the token backfill writes before it has closed its
  query: the write would wait for the connection its own caller holds.

### Fairness

`Metering!Fairness` (and `AlertsFairSpec`) is weak fairness of each handler and
of the collector as a whole: goroutines are scheduled by the Go runtime, every
call has a timeout and every statement ends, and the ticker starts the next
round.  Nothing is assumed of clients, traffic, the clock or late calls.
`Dispatcher!FairSpec` is weak fairness of the one worker: each of its waits is a
POST bounded by a timeout or a backoff bounded by `time.After`; `AlertsFairSpec`
takes it over for the relay, which `EventuallyHandled` justifies.
`Migration!FairSpec` is weak fairness of the opening goroutine; its statements
are enabled only while the connection is free.  `EventuallyBilled` is a claim
about rows that stay active: only those are polled.

## 4. Findings

1. *A concurrent top-up is lost at the node* (`Metering_v_quota`).  The total is
   read in one step and sent in a later one; two requests can send 10 and 15 in
   the order 15, 10.  Row and customer show 15, the node enforces 10.
2. *A cascade drops a live tenant's row* (`Provisioning_v_cascade`).  A
   subscription sold between `deleteCustomer`'s list and its DELETE is removed
   by ON DELETE CASCADE with its tenant still live.

The others come from properties that pass: 3 is what the property states, the rest
are excuses it names, and it fails when they are struck out.

3. *The newest event is dropped, not the oldest* (`Dispatcher_delivery`,
   `Relayed`).  `queueDepth`'s comment says "the oldest events are dropped"; `Emit`
   drops the one it was given.  What the comment describes is the slip
   `EnqueueOverOldest`, which violates `Relayed`.
4. *A level can go unreported for a whole period* (`Alerts_end_to_end`,
   `LevelReported`).  "Once each per period" is tracked by a level that a poll from
   before a renewal may mark in the row of the new period.
5. *A stale poll switches a served tenant's row off* (`Metering_liveness`,
   `LeaksAreKnown`).  The collector polls "suspended", a top-up or resume
   reactivates tenant and row, the collector then writes "suspended": the tenant
   serves, and only active rows are polled.
6. *The migration is not idempotent* (`Migration_open`, `AlwaysOpens`).  CREATE TABLE
   without IF NOT EXISTS fails on every start after one that died, or whose INSERT
   or DROP failed, behind it.
7. *The usage history can get out of reach* (`Migration_open`, `RecordsKept`).  After
   a stop between DROP and RENAME the schema creates an empty `usage_records`, and
   `usage_records_new` is read by nothing.
8. *The stored config need not be the last one pushed* (`NodeRegistry_records`,
   `StoredIsRunning`).  A push that timed out is answered as rejected and is not
   stored, though the node has taken it or takes it later; and two pushes may reach
   node and row in opposite orders.

## 5. Other behaviours of the code met while modelling

Those in the modules can be reproduced by changing a cfg; they have no run of
their own.

Handlers and collector:

* A top-up sends the expiry of its snapshot, so it takes back a renewal that
  overlapped it at the node: `ExpiryDelivered` with two requests, top-up and renew.
* `topupQuota` ignores the error of Resume, which shares 15s with SetQuota: a
  slow SetQuota leaves the tenant suspended under an active row.
* A renewal whose SetQuota is refused has already reactivated the tenant under a
  suspended row (`HalfRenewal` in `LeaksAreKnown`), and the page of that period may
  show fewer bytes after the next poll than before (`PageNeverGoesBack` allows it: it
  compares with the row).  A poll from before a renewal written after it lowers the
  row's bytes at the next poll in the same way.
* A panel that dies between Resume, or ResetPeriod, and the row's UPDATE leaves the
  tenant serving under a suspended row (`DiesHalfWay`).
* "Disable" ignores the error of a node's Suspend, writes "suspended" into the row
  and answers 200 "disabled".  The tenant whose node was away for that moment serves
  on, and is no longer polled, so what it carries is not billed (`SparedByNode`).
  `DisabledIsCutOff` says how far this goes: each failed call leaves at most one
  subscription served.
* A renewal whose plan cannot be loaded, a failing SELECT, takes 30 days
  (`RenewDays`) whatever the plan says.
* No handler but `toggleCustomer` reads or writes the customer's status, so a
  disabled customer can be sold, topped up and resumed, which serves it again; hence
  `NothingSwitchedOn` in `DisabledIsCutOff`.
* A top-up re-arms the notification level from the usage in its snapshot, so
  after a concurrent poll the same usage event can be emitted twice: `NoticeOnce`
  with "topup" in `Alerts_end_to_end`.  It re-arms to the level reached, whose
  event may never have been sent: `ToRearm` in `LevelReported`.
  The collector emits before it marks, and ignores a failing mark: `NoticeOnce` with
  `StoreFaults`, where the next poll emits the event again.
* The bytes between the last poll and a suspension are never fetched, although
  `ListActiveSubscriptions` says "not expired" and suspended rows are not.
* With a key that cannot be stored *and* a rollback that the node refuses,
  `createSubscription` still deletes the row: `LifeSpec` with two failures.  The
  `api_keys` row outlives its subscription: only the customer's deletion cascades.
* `deletePlan` says "existing subscriptions keep their copied values"
  (`lifecycle.go:11`), and `renewSubscription` falls back to 30 days for a missing
  plan; but the foreign key on `plan_id` makes the deletion fail (500) while there
  are any subscriptions (`PlanReferenced`), so a plan in use can never be deleted.

Deadlines and shutdown:

* A swap that takes longer than the client's 180s is cut while the node goes on:
  `NoRetryMidSwap` with `SwapTime = 180`.  `updateNodeBinary` answers "updating"
  when the node does, which may be before it has finished: `NoRetryMidSwap` is about
  requests that are answered with an error.
* The handlers of `coreLifecycle`, `updateNodeConfig`, `deleteCustomer` and
  `toggleCustomer` give themselves the 30s their group has, and later, once the body
  is read: the group's deadline is the one that ends their calls.
* The rollback of a sale has 15s of its own, beyond the group's 30, under no
  request's context: the client waits for its answer up to 45s.
* A client that disconnects during a probe cancels it, and the node is written
  down as offline; `ProbeHonest` excepts it.
* The process waits 10s for requests whose calls may take 15, and for neither the
  collector nor the worker: a shutdown is a `Crash` for the rest.
* A delivery needs at most 3·10 + 2·2 = 34s of its 60s, so the budget never ends
  one; with a budget of 12s `LogIsTrue` fails.
* A consumer that gets to a POST after the dispatcher has given it up takes it then,
  perhaps after later events: `Ordered` excepts these copies.

Registry, addresses and pages:

* Two PATCHes of different fields overwrite one another (`UpdateNode` writes every
  column): TLC finds `OmittedKept` violated under `Spec`.  `ApartSpec` leaves out
  this window and nothing else.  A port of zero or less in a PATCH is ignored and
  answered 200.  A push to a row that is about to be rolled back
  runs on a node whose row never says so (`Contended`).  A sale
  on a node that is still registering makes the foreign key refuse the rollback;
  `RejectedLeavesNoRow` excepts it.
* A PATCH of the address keeps the certificate of the old one.
* An IPv6 node is given a gRPC address without brackets (`::1:62050`); for an
  https address without a port the details show 8090 while calls go to 443; an
  address without a scheme is accepted and cannot be called.  `DetailIsTrue` and
  `PinIsTheNodes` are stated of the other addresses.
* `used*100` wraps beyond 92 PB: level and bar then agree with one another
  (`BarAgrees`) and are both wrong.

Opening:

* An error while the backfill's query is read ends the list without a word
  (`rows.Err` is not asked): the start succeeds, and the subscriptions it left out
  have no page until the next start (`unlisted` in `UpToDate`).

## 6. What is proved

Everything is proved from the named assumptions of the modules (the constants
are naturals, the sets of requests and of subscriptions are finite, the scopes
are subsets of what there is, "none" is no customer), for all values of the
constants.  A theorem that needs more has an `ASSUME` of its own; the table at the end of this section
says why it is needed.  Each proof has the same shape: an invariant that is
inductive, one step per action, PTL at the end.  The invariants of the
larger proofs were checked by TLC on the instances of the runs first.

**`MeteringProofs`**

* `TypeCorrect`: `Spec => []TypeOK`, inductive as it stands.
* `PeriodsBacked`: `Spec => []PeriodBacked`.  `PeriodBacked` is not inductive:
  RenewReset moves a request *into* `Renewing(s)` and RenewStore out of it, and the
  count moves by one only if no other operation can be at those places.  The
  invariant is `PeriodInv == TypeOK /\ RenewsAtRenewPCs /\ PeriodBacked`.
  `OtherSteps` shows that every other action keeps rows' periods, never lowers a
  tenant's, and adds nothing to `Renewing`.  A late or lost reset only raises the
  tenant's period: hence an inequality.
* `QuotaIsConserved`: `Spec => []QuotaConserved`, from `QuotaInv == TypeOK /\
  AddsAtAddedPCs /\ QuotaConserved`.  The bytes in progress are counted as a set of
  pairs, one per byte: `EnterCount` and `LeaveCount` say what happens to the count
  when one request begins or ends a top-up, `SameCount` when none does, and every
  action outside the ledger is `Quiet`.  The interesting case is `UndoKeeps`: the
  code takes back with MAX(0, ...), and the equation survives only because the row
  holds at least the bytes in progress, so that MAX never cuts.
* `EachIsDelivered` (from `Calmly`, `MaxCrashes = 0`): `Spec /\ []OneAt(s)` implies that whenever no
  request is at subscription `s`, its tenant has the quota and the expiry of its row.
  Requests at other subscriptions may be any number and overlap; `OneAt(s)` says only
  that no two handlers have `s` at hand at once.  `QuotaDelivered` speaks of the
  moments when no handler is at work, so `DeliveryAt(s)` says what holds in between:
  the total a top-up has read is the row's, the new end a renewal carries is the one
  it gave the node, and wherever quota or expiry of row and tenant differ there is a
  request at one of the named steps that will settle it.  Each step of a handler is
  either not at `s` (`NotAtHand`: it leaves row and tenant of `s` alone) or alone there
  (`SoleStep`).
* `QuotaIsDelivered`, `ExpiryIsDelivered` (from the same): `Spec /\ []OneEach` implies
  the properties of the run, `OneEach` being `OneAt` of every subscription.
* `LeaksOfEachAreKnown`, `AllLeaksAreKnown` (from `Calmly`), in the same two forms,
  with the collector and restarts in.  The invariant is `OffIsOff(s)`: a "suspend"
  that is about to write the row of `s` has switched the tenant off.  From it every action is shown not to begin a leak at `s`, or to be one of
  the four steps named.
* `WhoIsDisabledIsCutOff` (from `~StoreFaults`, without `Calmly` and without any
  assumption on what overlaps): `Spec => []DisabledIsCutOff`.  `Missed` are the
  subscriptions served whose call is not on its way, and of those a toggle has done
  (`Missed \ req[r].todo`) there are at most as many as calls have failed.  A step
  of the toggle moves one subscription out of `todo`, which adds one to the count
  only if its call failed (`OneMoreMissed`); nothing else adds one (`CutOffStays`),
  since only "suspend" is on its way.  Where clients also send what switches on, the
  property speaks of a single request (`OneOther`).  Refused, lost and late calls,
  several toggles at once, the collector and deaths are all in.

**`AlertsProofs`** (the panel of `Alerts` is `Metering`, lemma `PanelIsMetering`, so
all of the above holds there as well)

* `AuditIsMonotone`: `AuditInv` is a chain of three readings, lexicographic in
  period and bytes: the last sample is of the past of what the collector holds,
  which is of the past of the tenant.  No assumption: failures, late calls,
  overlapping renewals and deaths are all in.
* `ExpiriesAreReported`: `RelayInv` says that while the oldest event is dealt with
  each endpoint that wants it is still due, has it, or was given up.  From it
  `SettledExpiry` shows that an event once accounted for stays so through every step
  of the relay and a restart, and `ExpiryInv` adds that a row leaves "expired" only
  by a handler and enters it only by the collector, whose next step is the event.
* `LevelsAreReported`: the same for the level in a row, with the event's period.
  `CollectMark` writes it after the event of the snapshot's period; where the row
  has been renewed meanwhile, and where a top-up re-arms, the level is `silenced`;
  a renewal sets it to 0.  No assumption.
* `NoticesGoOutOnce` (from `NoTopups`, `~StoreFaults`): for each event emitted,
  `RowKnows` (its row has the level, or a later period, or the collector is about
  to mark it, or died before) and `SnapshotKnows` (the same of the list the round
  began with, where the subscription is still to be polled).  Both are needed: the
  collector compares with the list, not with the row.

**`DispatcherProofs`**

* `DeliveredInOrder`: from `DispatcherInv`: the queue is increasing and above the
  worker's job (`QueueOrdered`), and what an endpoint received, early or late, is at
  or below it (`ReceivedEarlier`), as is what may still arrive (`WireEarlier`).
* `OneRowEach`: from `LogInv`: a row of the current job is of an endpoint whose turn
  is over, so the row about to be written is not there yet; and an endpoint that was
  offered the event has its row or is still owed it.
* `TheLogIsTrue` (from `PolicyFits`): `AttemptsCounted` relates the copies of an
  event at an endpoint to the attempts so far, counted as positions in a
  sequence; `TimeSpent` bounds the seconds used by the attempts, which is what makes
  a row that says failed one of `MaxAttempts` attempts.
* `DispatcherRelays`: `Spec => Relayed`, the refinement.  One lemma for each
  action names the step of the relay it is, or that it stutters (an attempt, a
  backoff); `DueOK` is the one invariant it needs besides `DispatcherInv`.

**`ProvisioningProofs`**

* `TypesCorrect`: `Spec => []TypeOK`, inductive as it stands.
* `TenantsInCustody`: `Spec /\ []Apart => []Custody`.  `OneHome` says that an id is
  in one row, one sale or one late call; `CustodyInv` that a deletion which is past
  its node call holds every tenant of its rows that may still live.  Sales and
  deletions of one customer may overlap at every other step: the theorem says that
  the INSERT between list and DELETE (`NobodySells`) is the only window there is.
* `ImplementsTenantLife`: `Spec /\ []Apart /\ []Unwound => LifeSpec`: as long as no
  rollback fails, every step is one of `TenantLife` or a stutter.
* `TenantLifeKept` discharges `Unwound` from `OneFailure`.  A sale that reaches its
  rollback from the api key has either met a failing statement, the one failure
  there is, or lost its customer; and then its row, which was in the customer's
  list, lost its tenant first (`RecordedStays`, `ClearedStays`).

**`NodeRegistryProofs`**

* `RejectionsLeaveNoRow`: from `RegistryInv`, whose part `FreshOK` keeps an id
  drawn for a registration out of every other request until it is inserted.
* `OmittedColumnsKept` (`Spec /\ []PatchesApart => ...`): what a PATCH is about to write in
  the columns it omits is what the row holds (`PatchInv`), whatever registrations,
  pushes, probes and restarts of the core do in between, and whatever PATCHes of
  other rows do: `UpdateNode` writes the one row it names (`OneRow`).
* `RunningConfigIsStored` (`Spec => []StoredIsRunning`, no assumption): the invariant
  is `Showing`: while the panel is sure what the node runs, some row shows it
  (`Shown`), and nobody who could change that row unseen is at work on it, or a push
  that the node has taken is alone at its row and about to store it (`Storing`,
  `Alone`).  `GivenShows` is the step that gives the node a config, `StoredShows` the
  UPDATE, `WritersEnter` says who can come to be between node and row.

**`DeadlinesProofs`**: all from `DeadlinesInv`, whose part `TimeKept` bounds the
clock by each deadline while a call is under way.  `BudgetIsOne` under
`Preparation <= 20`; `NoSwapLeftBehind` under `SwapTime < 180` and
`Preparation + SwapTime < 200`, from `SwapAwaited` (while the node swaps, the handler
is in its call, and began it when the swap did); and `ProbesAreHonest` under
`PromptProbe <= 5`, from `ProbeOnTime` (a probe begins at most 15s after the
handler's context was made).

**`MigrationProofs`**: `OpenIsUpToDate`, `StartsFindItOpenable`, `SamplesAreKept`,
`TokensAreStable` and `ConnectionIsFree` (the safety part of `OpenEnds`, which no
run checks), from `MigrationInv`.  A step of the opening relies on what earlier
ones did, which neither a death nor a failing statement undoes: `SchemaOK` says what
each `pc` may rely on and which cut left a rebuild behind, `SamplesOK` in which of
the two tables the samples are, `TokensOK` who may still be without a token.

**`ViewsProofs`**: an answer is computed from nothing but its inputs, so the
invariant `AnswerOK` says what each was computed from, and the work is in the
arithmetic, for every width, quota and length of a day.  `LevelsAlwaysAgree` joins
two lemmas: `LevelsAreExact`, which rests on `QuotientReaches` (a quotient reaches L
when the dividend reaches L times the divisor) and `WrappedFits` (two's complement
does nothing to a product that fits), and `BarsAgree`, which needs only that the
percentage is an integer and so holds beyond the overflow.  `PagesNeverGoBack` rests
on `QuotientGrows` and `QuotientTimes`.
`UsagesMatchPages` is about sums over a customer's subscriptions, which the
community modules define by recursive functions on the subsets of a set.
`SubsetsInduction` is an induction for a *set* of subsets, from the library's
theorem that strict inclusion is well-founded on finite sets (its own induction
theorems are for a predicate, which the provers do not instantiate); with it
`SumsExist` shows that there is such a function, `SumOf` unfolds it and
`SumsDiffer` relates the four sums.  It assumes that a customer has finitely many
subscriptions (`CustomerAssumption`).
`InboundsAreShared`, `PinsAreTheNodes` and `DetailsAreTrue` are case analyses over
all lists, addresses and certificates; they assume that "" is no certificate and
that there is more than one.

### Assumptions a theorem adds, and what happens without them

| assumption | says | without it |
|---|---|---|
| `Calmly` (`MeteringProofs`) | a node call works or is refused; no failing statement | a lost or late answer or a failing write leaves row and node apart, and nothing reconciles them |
| `MaxCrashes = 0` (`EachIsDelivered`, `QuotaIsDelivered`, `ExpiryIsDelivered`) | no restart | a death between row and node leaves them apart, and nothing reconciles them |
| `[]OneAt(s)`, `[]OneEach` (`MeteringProofs`; the leaks as well) | no two requests are at one subscription at once | `QuotaDelivered` is violated by two top-ups (`Metering_v_quota`), `ExpiryDelivered` by a top-up and a renewal |
| `~StoreFaults` (`WhoIsDisabledIsCutOff`) | no statement fails | a list that cannot be read is taken for an empty one, and a subscription whose node row cannot be loaded is passed over: no call, and so no failed call |
| `NoTopups` (`NoticesGoOutOnce`) | no request is a top-up | TLC finds `NoticeOnce` violated: the re-arm uses the usage of a snapshot |
| `~StoreFaults` (`NoticesGoOutOnce`) | no statement fails | an event whose mark fails is emitted again |
| `PolicyFits` (`DispatcherProofs`) | `(MaxAttempts - 1) * (Timeout + RetryBackoff) < DeliveryBudget` | with the code's 3, 10 and 2 the budget must exceed 24s: TLC passes at 25 and finds `LogIsTrue` violated at 24; the code has 60 |
| `[]Apart` (`ProvisioningProofs`) | no sale inserts its row between `deleteCustomer`'s list of the same customer and its DELETE | `Provisioning_v_cascade` |
| `OneFailure` or `[]Unwound` (`ProvisioningProofs`) | statements and node calls do not both fail, or one thing fails; no rollback fails | TLC finds `LifeSpec` violated with `MaxFaults = 2`: the row of a tenant that could not be withdrawn is dropped |
| `[]PatchesApart` (`OmittedColumnsKept`) | no two PATCHes of a row are between read and write | TLC finds `OmittedKept` violated under `Spec` |
| `Preparation <= 20`, `Preparation + SwapTime < 200` (`DeadlinesProofs`) | the body is there within the time the groups leave | the group's deadline ends a request still being read, or a swap before the client's 180s do |
| `SwapTime < 180`, `PromptProbe <= 5` (`DeadlinesProofs`) | the client's time for a swap; what 20s leave after a call of 15 | TLC finds the properties violated at 180 and at 7; at 6 the run passes only because time goes in whole seconds, where a reply on the deadline is already cut |

The runs choose constants that satisfy these assumptions, so that each theorem
speaks of the property as its run checks it.

### Only model-checked

* The liveness properties (`EventuallyBilled`, `EventuallyReflected`,
  `ExpiryReaches`, `EventuallyHandled`, `OpenEnds`): they need ENABLED under fairness.

## 7. What is not modelled, and why

* `PruneHistory` deletes samples and logs by age; no property here speaks of
  their age.  The plain listings are one SELECT each.
* `createCustomer`, `createPlan`: one INSERT each; `Provisioning` begins with the
  customers and plans there are.  It says nothing of the foreign keys themselves:
  they are guards of its statements, and SQLite's to keep.
* The body of `getNodeConfig` (passed through), `humanBytes`, the HTML of the
  page and its languages: wording and layout.
* The bearer token, the hashing of keys, HMAC signatures: one computation
  without state.  Certificates are compared whole; a node presents one, not a chain.
* JSON and base64, except where a document that does not parse takes another
  path (`Views!Documents`, the pasted certificates).
* The web interface and the installer: clients of the panel.
* SQLite's own durability: a statement that succeeded is kept.

## 8. Plan

Done: `NodeAgent`, `Threshold`, `Metering`, `TenantLife` and `Provisioning`,
`Dispatcher` and `Relay`, `Alerts`, `NodeRegistry`, `Deadlines`, `Migration`,
`Views`, and the eight proof modules.

Every invariant and action property of the passing runs is proved.  What could still
be proved: `LeaksAreKnown` with lost and late calls, which need a fifth way named;
and the quota that a node grants at the least when requests overlap without
failures.
