----------------------------- MODULE Migration ------------------------------
(***************************************************************************)
(* Opening the database (store.Open): the schema is applied with CREATE    *)
(* TABLE IF NOT EXISTS, then an older database is brought up to date.  No  *)
(* transaction holds the statements together: the process can die between  *)
(* any two and any of them can fail, and the next start finds what the     *)
(* ones before left.                                                       *)
(***************************************************************************)
EXTENDS Naturals

CONSTANTS
  Columns,    \* columns that older schemas lack
  Subs,       \* subscriptions of the old database
  Records,    \* usage samples of the old database
  MaxOpens,   \* bound: starts of the panel
  MaxFaults,  \* bound: failing statements
  MaxCrashes  \* bound: deaths while opening

ASSUME BoundsAssumption == MaxOpens \in Nat /\ MaxFaults \in Nat /\ MaxCrashes \in Nat

VARIABLES
  columns,  \* columns present
  usage,    \* table usage_records
  rebuild,  \* table usage_records_new
  samples,  \* the usage samples the first start found
  token,    \* sub_token of each subscription, 0 for NULL or ''
  pc, todo, \* the opener, and the rows it has yet to give a token
  held,     \* do open rows hold the pool's one connection
  unlisted, \* subscriptions without a token that a query cut short left out
  drawn,    \* tokens drawn so far
  cuts,     \* the steps at which starts were cut, by a death or a failing statement
  opens, faults, crashes

file == <<columns, usage, rebuild, token, samples>>
reading == <<todo, held, unlisted>>
past == <<cuts, faults, crashes>>
vars == <<file, pc, reading, drawn, past, opens>>

Shapes == {"absent", "legacy", "good"}  \* legacy: tenant_id REFERENCES tenants

Tables == [shape : Shapes, rows : SUBSET Records]

NoTable == [shape |-> "absent", rows |-> {}]

Go(next) == pc' = next

-----------------------------------------------------------------------------
OpenFile ==
  /\ pc \in {"closed", "failed"}
  /\ opens < MaxOpens
  /\ opens' = opens + 1
  /\ Go("schema")
  /\ UNCHANGED <<file, reading, drawn, past>>

\* CREATE TABLE IF NOT EXISTS usage_records; the other tables are not at stake.
ApplySchema ==
  /\ pc = "schema"
  /\ usage' = IF usage.shape = "absent" THEN [shape |-> "good", rows |-> {}] ELSE usage
  /\ Go("columns")
  /\ UNCHANGED <<columns, rebuild, token, samples, reading, drawn, past, opens>>

\* ALTER TABLE ... ADD COLUMN; "duplicate column" is not an error.
AddColumn ==
  /\ pc = "columns"
  /\ \/ \E c \in Columns \ columns : columns' = columns \cup {c} /\ UNCHANGED pc
     \/ columns = Columns /\ Go("inspect") /\ UNCHANGED columns
  /\ UNCHANGED <<usage, rebuild, token, samples, reading, drawn, past, opens>>

InspectUsage ==
  /\ pc = "inspect"
  /\ Go(IF usage.shape = "legacy" THEN "create" ELSE "tokens")
  /\ UNCHANGED <<file, reading, drawn, past, opens>>

\* CREATE TABLE usage_records_new, without IF NOT EXISTS.
CreateRebuild ==
  /\ pc = "create"
  /\ IF rebuild.shape = "absent"
     THEN rebuild' = [shape |-> "good", rows |-> {}] /\ Go("copy")
     ELSE UNCHANGED rebuild /\ Go("failed")
  /\ UNCHANGED <<columns, usage, token, samples, reading, drawn, past, opens>>

\* Slip: nothing is copied.
CopyNothing ==
  /\ pc = "copy"
  /\ Go("drop")
  /\ UNCHANGED <<file, reading, drawn, past, opens>>

CopyRows ==
  /\ pc = "copy"
  /\ rebuild' = [rebuild EXCEPT !.rows = @ \cup usage.rows]
  /\ Go("drop")
  /\ UNCHANGED <<columns, usage, token, samples, reading, drawn, past, opens>>

\* Slip: the old table is not dropped, and the new one keeps its name.
DropNothing ==
  /\ pc = "drop"
  /\ Go("tokens")
  /\ UNCHANGED <<file, reading, drawn, past, opens>>

DropLegacy ==
  /\ pc = "drop"
  /\ usage' = NoTable
  /\ Go("rename")
  /\ UNCHANGED <<columns, rebuild, token, samples, reading, drawn, past, opens>>

RenameRebuild ==
  /\ pc = "rename"
  /\ usage' = rebuild
  /\ rebuild' = NoTable
  /\ Go("tokens")
  /\ UNCHANGED <<columns, token, samples, reading, drawn, past, opens>>

\* Slip: the query lacks its WHERE.
EverySub == Subs

Tokenless == {s \in Subs : token[s] = 0}

\* The rows of the query stay open while they are read.  An error of the iteration
\* only ends the list: rows.Err is not asked.
ListTokenless ==
  /\ pc = "tokens"
  /\ unlisted' \in SUBSET Tokenless
  /\ todo' = Tokenless \ unlisted'
  /\ \/ unlisted' = {} /\ UNCHANGED faults
     \/ unlisted' # {} /\ faults < MaxFaults /\ faults' = faults + 1
  /\ held' = TRUE
  /\ Go("close")
  /\ UNCHANGED <<file, drawn, cuts, opens, crashes>>

\* Slip: the rows are closed when the function returns.
CloseRowsOnReturn ==
  /\ pc = "close"
  /\ Go("backfill")
  /\ UNCHANGED <<file, reading, drawn, past, opens>>

CloseRows ==
  /\ pc = "close"
  /\ held' = FALSE
  /\ Go("backfill")
  /\ UNCHANGED <<file, todo, unlisted, drawn, past, opens>>

\* Slip: one token is drawn for all the rows of a start.
BackfillOneToken ==
  /\ pc = "backfill"
  /\ token' = [s \in Subs |-> IF s \in todo THEN opens ELSE token[s]]
  /\ todo' = {}
  /\ Go("open")
  /\ UNCHANGED <<columns, usage, rebuild, samples, held, unlisted, drawn, past, opens>>

Backfill ==
  /\ pc = "backfill"
  /\ \/ \E s \in todo :
          /\ token' = [token EXCEPT ![s] = drawn + 1]
          /\ drawn' = drawn + 1
          /\ todo' = todo \ {s}
          /\ UNCHANGED pc
     \/ todo = {} /\ Go("open") /\ UNCHANGED <<token, todo, drawn>>
  /\ UNCHANGED <<columns, usage, rebuild, samples, held, unlisted, past, opens>>

\* The panel is stopped and will be started again.
Close ==
  /\ pc = "open"
  /\ Go("closed")
  /\ UNCHANGED <<file, reading, drawn, past, opens>>

\* A start ends before its time; what it did stays done.
Cut ==
  /\ pc \notin {"closed", "failed", "open"}
  /\ cuts' = cuts \cup {pc}
  /\ todo' = {} /\ held' = FALSE
  /\ UNCHANGED <<file, unlisted, drawn, opens>>

\* A statement fails, or a row cannot be scanned: Open closes the file and returns
\* the error.
StatementFails ==
  /\ Cut
  /\ pc = "backfill" => todo # {}
  /\ faults < MaxFaults
  /\ faults' = faults + 1
  /\ Go("failed")
  /\ UNCHANGED crashes

Crash ==
  /\ Cut
  /\ crashes < MaxCrashes
  /\ crashes' = crashes + 1
  /\ Go("closed")
  /\ UNCHANGED faults

\* A file written by an older version of the panel, whichever.
Init ==
  /\ columns \in SUBSET Columns
  /\ usage \in {NoTable} \cup [shape : {"legacy", "good"}, rows : {Records}]
  /\ samples = usage.rows
  /\ rebuild = NoTable
  /\ token = [s \in Subs |-> 0]
  /\ pc = "closed" /\ todo = {} /\ held = FALSE /\ unlisted = {} /\ drawn = 0
  /\ cuts = {} /\ opens = 0 /\ faults = 0 /\ crashes = 0

\* One statement: it needs the connection, and waits for it for ever.
Statement ==
  /\ ~held
  /\ \/ ApplySchema \/ AddColumn \/ InspectUsage \/ CreateRebuild \/ CopyRows
     \/ DropLegacy \/ RenameRebuild \/ ListTokenless \/ Backfill

Next == OpenFile \/ Statement \/ CloseRows \/ Close \/ StatementFails \/ Crash

Spec == Init /\ [][Next]_vars

\* The opener runs on.
FairSpec == Spec /\ WF_vars(Statement \/ CloseRows)

-----------------------------------------------------------------------------
(* Properties. *)

\* Once open, the database takes usage samples, has every column, no two
\* subscriptions share a page token, and the only ones without are those that this
\* start's query, cut short by an error nobody asks for, left out: whatever earlier
\* starts left half done, the next start that reads its list to the end makes good.
UpToDate ==
  pc = "open" =>
    /\ usage.shape = "good"
    /\ columns = Columns
    /\ \A s, t \in Subs : token[s] = token[t] => s = t \/ token[s] = 0
    /\ \A s \in Subs : token[s] = 0 => s \in unlisted

\* A page token that was handed out stays valid: no later start replaces it.
TokensStable == [][\A s \in Subs : token[s] # 0 => token'[s] = token[s]]_vars

\* Migrations are "idempotent": a start opens the file that starts before it have
\* worked on unless a statement of its own fails, or an earlier one was cut between
\* the CREATE of the rebuild and the DROP of the old table.
AlwaysOpens ==
  [][pc' = "failed" => faults' # faults \/ cuts \cap {"copy", "drop"} # {}]_vars

\* An open that does not die ends, in an open database or an error: no statement
\* waits for a connection its own caller holds.
OpenEnds == pc \notin {"closed", "failed", "open"} ~> pc \in {"closed", "failed", "open"}

\* "Existing rows are copied": once open, the samples of the old table are in
\* usage_records.  The one way around it is a start cut between the DROP and the
\* RENAME: then they are in the table it left, which nothing reads.
RecordsKept ==
  pc = "open" => \/ samples \subseteq usage.rows
                 \/ "rename" \in cuts /\ samples \subseteq rebuild.rows
=============================================================================
