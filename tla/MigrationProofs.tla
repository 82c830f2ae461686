-------------------------- MODULE MigrationProofs ---------------------------
(***************************************************************************)
(* What is proved of Migration, for any columns, subscriptions and samples *)
(* of the old database, and any number of starts, of failing statements    *)
(* and of deaths.                                                          *)
(***************************************************************************)
EXTENDS Migration, TLAPS

PCs == {"closed", "failed", "schema", "columns", "inspect", "create", "copy", "drop", "rename",
        "tokens", "close", "backfill", "open"}

TypeOK ==
  /\ columns \subseteq Columns /\ samples \subseteq Records
  /\ usage \in Tables /\ rebuild \in Tables
  /\ token \in [Subs -> Nat] /\ todo \subseteq Subs /\ unlisted \subseteq Subs /\ drawn \in Nat
  /\ pc \in PCs /\ held \in BOOLEAN
  /\ cuts \subseteq PCs /\ opens \in Nat /\ faults \in Nat /\ crashes \in Nat

\* What is left of the old schema at each step: the rebuild exists only between
\* CREATE and RENAME, unless an earlier start was cut there.
SchemaOK ==
  /\ pc \in {"inspect", "create", "copy", "drop", "rename", "tokens", "close", "backfill", "open"}
       => columns = Columns
  /\ pc \in {"columns", "inspect"} => usage.shape # "absent"
  /\ pc \in {"create", "copy", "drop"} => usage.shape = "legacy"
  /\ pc = "rename" => usage.shape = "absent"
  /\ pc \in {"tokens", "close", "backfill", "open"} => usage.shape = "good"
  /\ pc \in {"copy", "drop", "rename"} => rebuild.shape = "good"
  /\ pc \notin {"copy", "drop", "rename"} /\ rebuild.shape # "absent" =>
       \/ "copy" \in cuts \/ "drop" \in cuts
       \/ "rename" \in cuts /\ usage.shape # "legacy"

\* The old samples are in usage_records until it is dropped, in the rebuild by then,
\* and left there only by a start cut before it renamed it.
SamplesOK ==
  /\ usage.shape = "absent" => usage.rows = {}
  /\ rebuild.shape = "absent" => rebuild.rows = {}
  /\ usage.shape = "legacy" => samples \subseteq usage.rows
  /\ pc \in {"drop", "rename"} => samples \subseteq rebuild.rows
  /\ \/ samples \subseteq usage.rows
     \/ pc = "rename"
     \/ "rename" \in cuts /\ samples \subseteq rebuild.rows

\* Tokens come from a counter that outlives the starts, and the rows listed are
\* the ones without, but for those the query left out.
TokensOK ==
  /\ \A s \in Subs : token[s] <= drawn
  /\ \A s, t \in Subs : token[s] # 0 /\ token[s] = token[t] => s = t
  /\ todo \subseteq Tokenless
  /\ pc \in {"close", "backfill"} => Tokenless \subseteq todo \cup unlisted
  /\ pc = "open" => Tokenless \subseteq unlisted

\* No statement runs while the rows of the backfill's query hold the pool's only
\* connection: what OpenEnds rests on.
ConnectionFree == held => pc = "close"

MigrationInv == TypeOK /\ SchemaOK /\ SamplesOK /\ TokensOK /\ ConnectionFree

-----------------------------------------------------------------------------
LEMMA InitKept == Init => MigrationInv
<1> SUFFICES ASSUME Init PROVE MigrationInv
  OBVIOUS
<1>1. /\ usage \in Tables
      /\ usage.shape = "absent" => usage.rows = {}
      /\ rebuild \in Tables /\ rebuild.rows = {} /\ rebuild.shape = "absent"
  BY DEF Init, Tables, NoTable, Shapes
<1>2. TypeOK
  <2>1. samples \subseteq Records
    BY <1>1 DEF Init, Tables
  <2>2. held \in BOOLEAN
    BY Zenon DEF Init
  <2>3. token \in [Subs -> Nat]
    BY DEF Init
  <2>4. opens \in Nat /\ faults \in Nat /\ crashes \in Nat /\ drawn \in Nat /\ pc \in PCs
    BY DEF Init, PCs
  <2>5. columns \subseteq Columns /\ todo \subseteq Subs /\ unlisted \subseteq Subs /\ cuts \subseteq PCs
    BY DEF Init
  <2> QED BY <1>1, <2>1, <2>2, <2>3, <2>4, <2>5 DEF TypeOK
<1>3. SchemaOK /\ SamplesOK
  BY <1>1 DEF Init, SchemaOK, SamplesOK
<1>4. TokensOK /\ ConnectionFree
  BY DEF Init, TokensOK, ConnectionFree
<1> QED BY <1>2, <1>3, <1>4 DEF MigrationInv

\* The steps that change neither tokens nor tables.
LEMMA ControlKept ==
  ASSUME MigrationInv, OpenFile \/ InspectUsage \/ CloseRows \/ Close
  PROVE  MigrationInv'
<1>1. UNCHANGED <<file, todo, unlisted, drawn, past>> /\ Tokenless' = Tokenless
  BY DEF OpenFile, InspectUsage, CloseRows, Close, file, reading, Tokenless
<1>2. TypeOK'
  <2>1. pc' \in PCs
    BY DEF PCs, Go, OpenFile, InspectUsage, CloseRows, Close
  <2>2. held' \in {held, FALSE} /\ opens' \in {opens, opens + 1}
    BY DEF OpenFile, InspectUsage, CloseRows, Close, reading
  <2>3. opens' \in Nat
    BY <2>2 DEF MigrationInv, TypeOK
  <2>4. held' \in BOOLEAN
    BY <2>2, Zenon DEF MigrationInv, TypeOK
  <2> QED BY <1>1, <2>1, <2>3, <2>4 DEF MigrationInv, TypeOK, file, past
<1>3. SchemaOK'
  BY <1>1 DEF MigrationInv, TypeOK, SchemaOK, file, past, Go, Tables, Shapes,
              OpenFile, InspectUsage, CloseRows, Close
<1>4. SamplesOK'
  BY <1>1 DEF MigrationInv, SamplesOK, file, past, Go, OpenFile, InspectUsage, CloseRows, Close
<1>5. TokensOK'
  BY <1>1 DEF MigrationInv, TokensOK, file, Go, OpenFile, InspectUsage, CloseRows, Close
<1>6. ConnectionFree'
  BY DEF MigrationInv, ConnectionFree, Go, reading, OpenFile, InspectUsage, CloseRows, Close
<1> QED BY <1>2, <1>3, <1>4, <1>5, <1>6 DEF MigrationInv

\* What the query lists, and what an error makes it leave out, has no token.
LEMMA ListKept == ASSUME MigrationInv, ListTokenless PROVE MigrationInv'
<1>1. /\ pc = "tokens" /\ pc' = "close" /\ held' = TRUE /\ Tokenless' = Tokenless
      /\ unlisted' \subseteq Tokenless /\ todo' = Tokenless \ unlisted'
      /\ faults' \in {faults, faults + 1} /\ UNCHANGED <<file, drawn, cuts, opens, crashes>>
  BY DEF ListTokenless, Go, file, Tokenless
<1>2. TypeOK /\ SchemaOK /\ SamplesOK /\ TokensOK
  BY DEF MigrationInv
<1>3. faults' \in Nat /\ todo' \subseteq Subs /\ unlisted' \subseteq Subs
  BY <1>1, <1>2 DEF TypeOK, Tokenless
<1>4. held' \in BOOLEAN
  BY <1>1, Zenon
<1>5. TypeOK'
  BY <1>1, <1>2, <1>3, <1>4 DEF TypeOK, PCs, file
<1>6. SchemaOK' /\ SamplesOK' /\ TokensOK' /\ ConnectionFree'
  BY <1>1, <1>2 DEF SchemaOK, SamplesOK, TokensOK, ConnectionFree, file
<1> QED BY <1>5, <1>6 DEF MigrationInv

\* A start that is cut leaves its step on record.
LEMMA CutKept == ASSUME MigrationInv, StatementFails \/ Crash PROVE MigrationInv'
<1>1. /\ pc \notin {"closed", "failed", "open"} /\ pc' \in {"closed", "failed"}
      /\ cuts' = cuts \cup {pc} /\ todo' = {} /\ held' = FALSE
      /\ UNCHANGED <<file, unlisted, drawn, opens>> /\ Tokenless' = Tokenless
      /\ faults' \in {faults, faults + 1} /\ crashes' \in {crashes, crashes + 1}
  BY DEF StatementFails, Crash, Cut, Go, file, Tokenless
<1>2. TypeOK /\ SchemaOK /\ SamplesOK /\ TokensOK
  BY DEF MigrationInv
<1>3. faults' \in Nat /\ crashes' \in Nat /\ cuts' \subseteq PCs /\ pc' \in PCs
  BY <1>1, <1>2 DEF TypeOK, PCs
<1>4. held' \in BOOLEAN
  BY <1>1, Zenon
<1>5. TypeOK'
  BY <1>1, <1>2, <1>3, <1>4 DEF TypeOK, file
<1>6. SchemaOK'
  BY <1>1, <1>2 DEF TypeOK, SchemaOK, file, PCs
<1>7. SamplesOK'
  BY <1>1, <1>2 DEF SamplesOK, file
<1>8. TokensOK' /\ ConnectionFree'
  BY <1>1, <1>2 DEF TokensOK, ConnectionFree, file
<1> QED BY <1>5, <1>6, <1>7, <1>8 DEF MigrationInv

\* The steps that change tables, and no token.
LEMMA TablesKept ==
  ASSUME MigrationInv, ~held,
         \/ ApplySchema \/ AddColumn \/ CreateRebuild \/ CopyRows \/ DropLegacy \/ RenameRebuild
  PROVE  MigrationInv'
<1>1. UNCHANGED <<token, samples, todo, held, unlisted, drawn, cuts, faults, opens, crashes>>
  BY DEF ApplySchema, AddColumn, CreateRebuild, CopyRows, DropLegacy, RenameRebuild, reading, past
<1>2. TypeOK /\ SchemaOK /\ SamplesOK /\ TokensOK
  BY DEF MigrationInv
<1>3. TypeOK' /\ SchemaOK' /\ SamplesOK'
  <2>1. CASE ApplySchema
    BY <1>1, <1>2, <2>1 DEF TypeOK, SchemaOK, SamplesOK, ApplySchema, Go, PCs, Tables, Shapes
  <2>2. CASE AddColumn
    BY <1>1, <1>2, <2>2 DEF TypeOK, SchemaOK, SamplesOK, AddColumn, Go, PCs, Tables, Shapes
  <2>3. CASE CreateRebuild
    BY <1>1, <1>2, <2>3 DEF TypeOK, SchemaOK, SamplesOK, CreateRebuild, Go, PCs, Tables, Shapes
  <2>4. CASE CopyRows
    BY <1>1, <1>2, <2>4 DEF TypeOK, SchemaOK, SamplesOK, CopyRows, Go, PCs, Tables, Shapes
  <2>5. CASE DropLegacy
    BY <1>1, <1>2, <2>5
    DEF TypeOK, SchemaOK, SamplesOK, DropLegacy, Go, PCs, Tables, Shapes, NoTable
  <2>6. CASE RenameRebuild
    BY <1>1, <1>2, <2>6
    DEF TypeOK, SchemaOK, SamplesOK, RenameRebuild, Go, PCs, Tables, Shapes, NoTable
  <2> QED BY <2>1, <2>2, <2>3, <2>4, <2>5, <2>6
<1>4. TokensOK'
  <2>1. pc' \notin {"close", "backfill", "open"} /\ Tokenless' = Tokenless
    BY <1>1, <1>2 DEF ApplySchema, AddColumn, CreateRebuild, CopyRows, DropLegacy, RenameRebuild,
                      Go, Tokenless
  <2> QED BY <1>1, <1>2, <2>1 DEF TokensOK
<1>5. ConnectionFree'
  BY <1>1 DEF ConnectionFree
<1> QED BY <1>3, <1>4, <1>5 DEF MigrationInv

\* One token is given, or none is left to give.
LEMMA BackfillKept == ASSUME MigrationInv, ~held, Backfill PROVE MigrationInv'
<1>1. /\ pc = "backfill"
      /\ UNCHANGED <<columns, usage, rebuild, samples, held, unlisted, cuts, faults, crashes, opens>>
      /\ TypeOK /\ SchemaOK /\ SamplesOK /\ TokensOK
      /\ todo \subseteq Tokenless /\ Tokenless \subseteq todo \cup unlisted
  BY DEF Backfill, MigrationInv, TokensOK, past
<1>2. pc' \in {"backfill", "open"}
  BY <1>1 DEF Backfill, Go
<1>3. SchemaOK' /\ SamplesOK' /\ ConnectionFree'
  BY <1>1, <1>2 DEF SchemaOK, SamplesOK, ConnectionFree
<1>4. TypeOK' /\ TokensOK'
  <2>1. CASE todo = {} /\ Go("open") /\ UNCHANGED <<token, todo, drawn>>
    <3>1. Tokenless' = Tokenless /\ Tokenless \subseteq unlisted
      BY <1>1, <2>1 DEF Tokenless
    <3> QED BY <1>1, <2>1, <3>1 DEF TypeOK, TokensOK, Go, PCs
  <2>2. ASSUME NEW s \in todo,
               /\ token' = [token EXCEPT ![s] = drawn + 1]
               /\ drawn' = drawn + 1
               /\ todo' = todo \ {s}
               /\ UNCHANGED pc
        PROVE  TypeOK' /\ TokensOK'
    <3>1. /\ s \in Subs /\ drawn \in Nat /\ token \in [Subs -> Nat]
          /\ token'[s] = drawn + 1 /\ \A t \in Subs : t # s => token'[t] = token[t]
          /\ token' \in [Subs -> Nat]
      BY <1>1, <2>2 DEF TypeOK
    <3>2. Tokenless' = Tokenless \ {s}
      BY <1>1, <2>2, <3>1 DEF Tokenless
    <3>3. TypeOK'
      BY <1>1, <2>2, <3>1 DEF TypeOK
    <3>4. \A t \in Subs : token'[t] <= drawn'
      BY <1>1, <2>2, <3>1 DEF TokensOK
    <3>5. \A t, u \in Subs : token'[t] # 0 /\ token'[t] = token'[u] => t = u
      BY <1>1, <3>1 DEF TokensOK
    <3> QED BY <1>1, <2>2, <3>2, <3>3, <3>4, <3>5 DEF TokensOK
  <2> QED BY <1>1, <2>1, <2>2 DEF Backfill
<1> QED BY <1>3, <1>4 DEF MigrationInv

LEMMA NextKept == MigrationInv /\ [Next]_vars => MigrationInv'
<1> SUFFICES ASSUME MigrationInv, [Next]_vars PROVE MigrationInv'
  OBVIOUS
<1>1. CASE UNCHANGED vars
  <2>1. Tokenless' = Tokenless
    BY <1>1 DEF vars, file, Tokenless
  <2> QED BY <1>1, <2>1 DEF vars, file, reading, past, MigrationInv, TypeOK, SchemaOK, SamplesOK, TokensOK,
                            ConnectionFree
<1>2. CASE Next
  BY <1>2, ControlKept, ListKept, CutKept, TablesKept, BackfillKept DEF Next, Statement
<1> QED BY <1>1, <1>2

\* Whatever earlier starts left half done, MigrationInv holds.
LEMMA Kept == Spec => []MigrationInv
BY InitKept, NextKept, PTL DEF Spec

-----------------------------------------------------------------------------
(* The theorems. *)

\* However often the panel died while it migrated, whichever statements failed and
\* whichever schema it began with: once open, no column is missing, usage_records
\* has the new shape, no two subscriptions share a page token, and the ones without
\* are those this start's query left out.
THEOREM OpenIsUpToDate == Spec => []UpToDate
<1>1. MigrationInv => UpToDate
  BY DEF MigrationInv, TypeOK, SchemaOK, TokensOK, UpToDate, Tokenless
<1> QED BY <1>1, Kept, PTL

\* A start whose own statements succeed opens the file, unless a start was cut, by a
\* death or a failing statement, between the rebuild's CREATE and its DROP.
THEOREM StartsFindItOpenable == Spec => AlwaysOpens
<1>1. ASSUME MigrationInv, [Next]_vars
      PROVE  [pc' = "failed" => faults' # faults \/ cuts \cap {"copy", "drop"} # {}]_vars
  <2>1. CASE CreateRebuild
    <3>1. rebuild.shape # "absent" => "copy" \in cuts \/ "drop" \in cuts
      BY <1>1, <2>1 DEF CreateRebuild, MigrationInv, SchemaOK
    <3> QED BY <2>1, <3>1 DEF CreateRebuild, Go
  <2>2. CASE StatementFails
    BY <1>1, <2>2 DEF StatementFails, MigrationInv, TypeOK
  <2>3. CASE UNCHANGED vars
    BY <2>3
  <2>4. CASE OpenFile \/ ApplySchema \/ AddColumn \/ InspectUsage \/ CopyRows \/ DropLegacy
             \/ RenameRebuild \/ ListTokenless \/ Backfill \/ CloseRows \/ Close \/ Crash
    BY <2>4 DEF OpenFile, ApplySchema, AddColumn, InspectUsage, CopyRows, DropLegacy, RenameRebuild,
                ListTokenless, Backfill, CloseRows, Close, Crash, Go
  <2> QED BY <1>1, <2>1, <2>2, <2>3, <2>4 DEF Next, Statement
<1> QED BY <1>1, Kept, PTL DEF Spec, AlwaysOpens

\* The rebuild is not a transaction: the one way for it to leave the old samples
\* where nothing reads them is a start cut between its DROP and its RENAME.
THEOREM SamplesAreKept == Spec => []RecordsKept
<1>1. MigrationInv => RecordsKept
  BY DEF MigrationInv, SamplesOK, RecordsKept
<1> QED BY <1>1, Kept, PTL

\* No start replaces a token that an earlier one gave.
THEOREM TokensAreStable == Spec => TokensStable
<1>1. ASSUME MigrationInv, [Next]_vars
      PROVE  [\A s \in Subs : token[s] # 0 => token'[s] = token[s]]_vars
  <2>1. CASE token' = token
    BY <2>1
  <2>2. CASE Backfill
    <3>1. todo \subseteq Tokenless /\ token \in [Subs -> Nat]
      BY <1>1, <2>2 DEF Backfill, MigrationInv, TypeOK, TokensOK
    <3> QED BY <2>2, <3>1 DEF Backfill, Tokenless
  <2> QED BY <1>1, <2>1, <2>2
          DEF Next, Statement, vars, file, OpenFile, ApplySchema, AddColumn, InspectUsage,
              CreateRebuild, CopyRows, DropLegacy, RenameRebuild, ListTokenless, CloseRows,
              Close, Cut, StatementFails, Crash
<1> QED BY <1>1, Kept, PTL DEF Spec, TokensStable

\* The query's rows are closed before the next statement asks for the connection.
THEOREM ConnectionIsFree == Spec => []ConnectionFree
<1>1. MigrationInv => ConnectionFree
  BY DEF MigrationInv
<1> QED BY <1>1, Kept, PTL
=============================================================================
