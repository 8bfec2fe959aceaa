----------------------------- MODULE SchemaSync -----------------------------
(***************************************************************************)
(* What one sync or full extraction does to the stored catalogue of a data *)
(* source: extract of src/src/metadata/extractor.py, compute_diff of       *)
(* src/src/metadata/sync.py and _run_sync, _apply_changes,                 *)
(* _refresh_l0_descriptions, _run_metadata_extraction of                   *)
(* src/src/api/datasources.py.  That jobs overlap is MetadataTasks; here   *)
(* they run one at a time, while the target's schema changes under them.   *)
(*                                                                         *)
(* The extractor asks the target for tables, columns, indexes and foreign  *)
(* keys one after the other, with no snapshot over the queries, so what it *)
(* returns may be no schema the target ever had.  Learning, too, has an    *)
(* await between the rows it reads and the descriptions it commits; its    *)
(* own overlaps are LearningRun's.                                         *)
(*                                                                         *)
(* Columns, indexes and keys are known by table and name; a part is the    *)
(* name of an index or a foreign key, whose definition nothing compares.   *)
(***************************************************************************)
EXTENDS Naturals

CONSTANTS Table, Column, Part,
          Type,      \* data_type and is_nullable
          Comment,   \* comments other than none
          MaxEdits   \* bound: schema changes in the target

Nothing == "nothing"
Guess == "guess"
ASSUME NameAssumption == Nothing \notin Comment /\ Guess \notin Comment
ASSUME EditAssumption == MaxEdits \in Nat

VARIABLES target,       \* the schema of the target database
          tables,       \* MetadataTable: the comment of each stored table
          cols,         \* MetadataColumn
          parts,        \* MetadataIndex, MetadataForeignKey
          stage, kind, scope,   \* the job: its next step, full or sync, table_scope
          current,      \* what the extractor has returned so far
          changes,      \* the diff
          verdict,      \* status of the last log; "stuck" if it stays running
          edits,
          moved,        \* history: the target changed since the job began
          hand,         \* the descriptions learning has not committed yet
          missed        \* history: the columns a change of comment did not reach

stored == <<tables, cols, parts>>
job == <<kind, scope, current, changes>>
learning == <<hand, missed>>
vars == <<target, stored, stage, job, verdict, edits, moved, learning>>

Partial(S, T) == UNION {[D -> T] : D \in SUBSET S}
Key == Table \X Column
PartKey == Table \X Part
Optional == Comment \union {Nothing}
ColumnDef == [type : Type, comment : Optional]
Row == [type : Type, comment : Optional, text : Optional \union {Guess},
        source : {Nothing, "schema_comment", "inferred"}]
Schema == [tables : Partial(Table, Optional), cols : Partial(Key, ColumnDef), parts : SUBSET PartKey]
Changes == [tablesAdded : SUBSET Table, tablesRemoved : SUBSET Table, tablesModified : SUBSET Table,
            colsAdded : SUBSET Key, colsModified : SUBSET Key, colsRemoved : SUBSET Key,
            recommented : SUBSET Key, partsAdded : SUBSET PartKey, partsRemoved : SUBSET PartKey]

NewRow(c) == [type |-> c.type, comment |-> c.comment, text |-> Nothing, source |-> Nothing]

Empty == [k \in {} |-> Nothing]
EmptySchema == [tables |-> Empty, cols |-> Empty, parts |-> {}]
NoChanges == [tablesAdded |-> {}, tablesRemoved |-> {}, tablesModified |-> {},
              colsAdded |-> {}, colsModified |-> {}, colsRemoved |-> {},
              recommented |-> {}, partsAdded |-> {}, partsRemoved |-> {}]

Init ==
    /\ target = EmptySchema
    /\ tables = Empty /\ cols = Empty /\ parts = {}
    /\ stage = "idle" /\ kind = "none" /\ scope = {}
    /\ current = EmptySchema /\ changes = NoChanges
    /\ verdict = "none" /\ edits = 0
    /\ moved = FALSE
    /\ hand = Empty /\ missed = {}

----------------------------------------------------------------------------
(* The target database.                                                    *)

\* One table is created, altered or dropped.
ChangeSchema ==
    /\ edits < MaxEdits
    /\ \E t \in Table, kept \in {<<>>} \union {<<c>> : c \in Optional},
          own \in Partial(Column, ColumnDef), names \in SUBSET Part :
         LET here == kept # <<>>
             others == DOMAIN target.tables \ {t}
             mine == IF here THEN {t} \X DOMAIN own ELSE {}
         IN  target' =
               [tables |-> [u \in others \union (IF here THEN {t} ELSE {}) |->
                              IF u = t THEN kept[1] ELSE target.tables[u]],
                cols |-> [k \in {j \in DOMAIN target.cols : j[1] # t} \union mine |->
                              IF k[1] = t THEN own[k[2]] ELSE target.cols[k]],
                parts |-> {j \in target.parts : j[1] # t} \union
                              (IF here THEN {t} \X names ELSE {})]
    /\ edits' = edits + 1
    /\ moved' = TRUE
    /\ UNCHANGED <<stored, stage, job, verdict, learning>>

----------------------------------------------------------------------------
(* The job.                                                                *)

Begin(what, only) ==
    /\ stage = "idle"
    /\ stage' = "tables" /\ kind' = what /\ scope' = only
    /\ current' = EmptySchema /\ changes' = NoChanges
    /\ verdict' = "running" /\ moved' = FALSE
    /\ UNCHANGED <<target, stored, edits, learning>>

\* An empty table_scope is none.
StartSync == \E only \in SUBSET Table : Begin("sync", only)
StartFull == Begin("full", {})

Wanted(t) == scope = {} \/ t \in scope

Read(from, to, schema) ==
    /\ stage = from /\ stage' = to
    /\ current' = schema
    /\ UNCHANGED <<target, stored, kind, scope, changes, verdict, edits, moved, learning>>

ReadTables ==
    Read("tables", "columns", [current EXCEPT !.tables =
        [t \in {u \in DOMAIN target.tables : Wanted(u)} |-> target.tables[t]]])
ReadColumns ==
    Read("columns", "parts", [current EXCEPT !.cols =
        [k \in {j \in DOMAIN target.cols : Wanted(j[1])} |-> target.cols[k]]])
ReadParts ==
    Read("parts", "apply", [current EXCEPT !.parts = {k \in target.parts : Wanted(k[1])}])

Listed == DOMAIN current.tables
Known == DOMAIN tables

End(status) ==
    /\ stage' = "idle" /\ verdict' = status
    /\ current' = EmptySchema /\ changes' = NoChanges
    /\ UNCHANGED <<target, kind, scope, edits, moved>>

\* Inserts only: a table or part that is there already violates its unique
\* constraint, and the session with it.
StoreFull ==
    /\ stage = "apply" /\ kind = "full"
    /\ LET newCols == {k \in DOMAIN current.cols : k[1] \in Listed}
           newParts == {k \in current.parts : k[1] \in Listed \union Known}
       IN  \/ /\ Listed \intersect Known = {} /\ newParts \intersect parts = {}
              /\ tables' = [t \in Listed \union Known |->
                              IF t \in Listed THEN current.tables[t] ELSE tables[t]]
              /\ cols' = [k \in newCols \union DOMAIN cols |->
                              IF k \in newCols THEN NewRow(current.cols[k]) ELSE cols[k]]
              /\ parts' = parts \union newParts
              /\ End("success")
           \/ /\ Listed \intersect Known # {} \/ newParts \intersect parts # {}
              /\ End("stuck")
              /\ UNCHANGED stored
    /\ UNCHANGED learning

----------------------------------------------------------------------------
(* compute_diff.                                                           *)

Differ(k) == current.cols[k].type # cols[k].type \/ current.cols[k].comment # cols[k].comment

DiffOf(added) ==
    [tablesAdded |-> Listed \ Known,
     tablesRemoved |-> Known \ Listed,
     tablesModified |-> {t \in Listed \intersect Known : current.tables[t] # tables[t]},
     colsAdded |-> {k \in DOMAIN current.cols \ DOMAIN cols : k[1] \in added},
     colsModified |-> {k \in DOMAIN current.cols \intersect DOMAIN cols : Differ(k)},
     colsRemoved |-> {k \in DOMAIN cols \ DOMAIN current.cols : k[1] \in Listed},
     recommented |-> {k \in DOMAIN current.cols \intersect DOMAIN cols :
                        current.cols[k].comment # cols[k].comment},
     partsAdded |-> {k \in current.parts \ parts : k[1] \in Listed \union Known},
     partsRemoved |-> {k \in parts \ current.parts : k[1] \in Listed}]

\* Mutant: only tables that were stored before get their new columns.
DiffOfOldTables == DiffOf(Known)

Diff == DiffOf(Listed \union Known)

\* Mutant: a row that differs is replaced by a new one.
RowOfReplaced(k) ==
    IF k \in DOMAIN cols \ Diff.colsModified THEN cols[k] ELSE NewRow(current.cols[k])

RowOf(k) ==
    IF k \in DOMAIN cols
    THEN IF k \in Diff.colsModified
         THEN [cols[k] EXCEPT !.type = current.cols[k].type, !.comment = current.cols[k].comment]
         ELSE cols[k]
    ELSE NewRow(current.cols[k])

\* _apply_changes.  After its first pass the catalogue knows the tables listed;
\* a change of any other table is skipped.
Kept(keys, added, removed) == {k \in (keys \ removed) \union added : k[1] \in Listed}

\* The columns whose comment changes while learning holds the old one.
Overtaken == {k \in Diff.recommented \intersect DOMAIN hand : hand[k] # Guess}

\* The change log has no name for a modified table comment: its insert fails.
\* Learning cannot commit to a row that is gone, nor then to any other.
Apply ==
    /\ stage = "apply" /\ kind = "sync"
    /\ \/ /\ Diff.tablesModified = {}
          /\ changes' = Diff
          /\ tables' = [t \in Listed |-> IF t \in Known THEN tables[t] ELSE current.tables[t]]
          /\ cols' = [k \in Kept(DOMAIN cols, Diff.colsAdded, Diff.colsRemoved) |-> RowOf(k)]
          /\ parts' = Kept(parts, Diff.partsAdded, Diff.partsRemoved)
          /\ hand' = IF DOMAIN hand \subseteq DOMAIN cols' THEN hand ELSE Empty
          /\ missed' = (missed \union Overtaken) \intersect DOMAIN cols'
          /\ stage' = "refresh"
          /\ UNCHANGED <<target, kind, scope, current, verdict, edits, moved>>
       \/ /\ Diff.tablesModified # {}
          /\ End("stuck")
          /\ UNCHANGED <<stored, learning>>

\* Mutant: the refresh looks at all columns but those whose comment changed.
Unrefreshed(k) == k \notin changes.recommented

Refreshed(k) == k \in changes.recommented

Copied(k) == cols[k].source = "schema_comment"

\* _refresh_l0_descriptions, in a commit of its own.
Refresh ==
    /\ stage = "refresh"
    /\ cols' = [k \in DOMAIN cols |->
                  IF Refreshed(k) /\ Copied(k)
                  THEN [cols[k] EXCEPT !.text = current.cols[k].comment] ELSE cols[k]]
    /\ missed' = {k \in missed : k \in DOMAIN hand \/ ~(Refreshed(k) /\ Copied(k))}
    /\ stage' = "settle"
    /\ UNCHANGED <<target, tables, parts, job, verdict, edits, moved, hand>>

Settle ==
    /\ stage = "settle"
    /\ End("success")
    /\ UNCHANGED <<stored, learning>>

\* The target fails, and the log says so.
ExtractionFails ==
    /\ stage \in {"tables", "columns", "parts"}
    /\ End("failed")
    /\ UNCHANGED <<stored, learning>>

\* The application database fails, or the process ends: a refresh that was still
\* to come never does, for the next diff no longer shows the comments as changed.
Interrupt ==
    /\ stage # "idle"
    /\ End("stuck")
    /\ missed' = missed \union
          {k \in changes.recommented \intersect DOMAIN cols : stage = "refresh" /\ Copied(k)}
    /\ UNCHANGED <<stored, hand>>

----------------------------------------------------------------------------
(* Learning, as far as it describes columns: the rows without a            *)
(* description are read, and their new one is committed awaits later.      *)

Bare == {k \in DOMAIN cols : cols[k].text = Nothing}

Take(texts) ==
    /\ hand = Empty /\ texts # Empty
    /\ hand' = texts
    /\ UNCHANGED <<target, stored, stage, job, verdict, edits, moved>>

\* L0: the comment is the description.
ReadComments ==
    LET commented == {k \in Bare : cols[k].comment # Nothing}
    IN  /\ Take([k \in commented |-> cols[k].comment])
        /\ missed' = missed \ commented

\* L1 and L2: for some columns one can be inferred.
ReadBare ==
    \E S \in SUBSET Bare : Take([k \in S |-> Guess]) /\ UNCHANGED missed

SourceOf(text) == IF text = Guess THEN "inferred" ELSE "schema_comment"

\* The commit writes description and source of the rows that were read, whatever
\* they have become.
Save ==
    /\ hand # Empty
    /\ cols' = [k \in DOMAIN cols |->
                  IF k \in DOMAIN hand
                  THEN [cols[k] EXCEPT !.text = hand[k], !.source = SourceOf(hand[k])]
                  ELSE cols[k]]
    /\ hand' = Empty
    /\ UNCHANGED <<target, tables, parts, stage, job, verdict, edits, moved, missed>>

\* The commit fails, or learning ends before it.
LearningFails ==
    /\ hand # Empty
    /\ hand' = Empty
    /\ UNCHANGED <<target, stored, stage, job, verdict, edits, moved, missed>>

Next ==
    \/ ChangeSchema
    \/ StartSync \/ StartFull
    \/ ReadTables \/ ReadColumns \/ ReadParts
    \/ StoreFull \/ Apply \/ Refresh \/ Settle
    \/ ExtractionFails \/ Interrupt
    \/ ReadComments \/ ReadBare \/ Save \/ LearningFails

Spec == Init /\ [][Next]_vars

----------------------------------------------------------------------------
Stages == {"idle", "tables", "columns", "parts", "apply", "refresh", "settle"}

TypeOK ==
    /\ target \in Schema /\ current \in Schema
    /\ tables \in Partial(Table, Optional)
    /\ cols \in Partial(Key, Row)
    /\ parts \in SUBSET PartKey
    /\ stage \in Stages /\ kind \in {"none", "sync", "full"} /\ scope \in SUBSET Table
    /\ changes \in Changes
    /\ verdict \in {"none", "running", "success", "failed", "stuck"}
    /\ edits \in 0..MaxEdits /\ moved \in BOOLEAN
    /\ hand \in Partial(Key, Optional \union {Guess}) /\ missed \in SUBSET Key

Shape(f) == [k \in DOMAIN f |-> [type |-> f[k].type, comment |-> f[k].comment]]
StoredIsTarget == tables = target.tables /\ Shape(cols) = target.cols /\ parts = target.parts

\* A full sync that succeeds while the target stands still leaves exactly the
\* target's tables, columns and names stored, whatever torn extractions,
\* failures, partial syncs and extractions came before.
CatalogueCurrent ==
    verdict = "success" /\ kind = "sync" /\ scope = {} /\ ~moved =>
        StoredIsTarget

\* A job costs no inferred description of a column that it has just seen.
KeepsInferred ==
    \A k \in DOMAIN cols :
        cols[k].source = "inferred" /\ k \in DOMAIN current.cols /\ k[1] \in Listed =>
            /\ k \in DOMAIN cols'
            /\ cols'[k].source = "inferred" /\ cols'[k].text = cols[k].text
DescriptionsSurvive == [][(stage \in {"apply", "refresh"}) => KeepsInferred]_vars

\* A description taken from a comment is the comment, whatever changes between
\* learning's read and its commit, once the sync that stored the comment has
\* refreshed it; it lags behind for good only in the columns whose comment changed
\* while learning held the old one, or whose sync ended before its refresh, and
\* there until a refresh or learning reads them again.
CommentsFollowed ==
    \A k \in DOMAIN cols : Copied(k) /\ cols[k].text # Nothing =>
        \/ cols[k].text = cols[k].comment
        \/ stage = "refresh" /\ k \in changes.recommented
        \/ k \in missed

\* The parts of the inductive invariant.  The target is a schema; every stored row
\* has its table, as the foreign keys demand; what was read of a target that
\* stands still is the target; a refresh still to come knows the comments that
\* were stored; and what learning holds is a guess or the row's comment, but for
\* the rows it is missed in.
TargetFits ==
    /\ \A k \in DOMAIN target.cols : k[1] \in DOMAIN target.tables
    /\ \A k \in target.parts : k[1] \in DOMAIN target.tables

NoOrphans == (\A k \in DOMAIN cols : k[1] \in Known) /\ (\A k \in parts : k[1] \in Known)

StageAgrees ==
    /\ stage # "idle" => verdict = "running"
    /\ stage \in {"refresh", "settle"} => kind = "sync"
    /\ scope = {} /\ ~moved =>
          /\ stage \in {"columns", "parts", "apply"} => current.tables = target.tables
          /\ stage \in {"parts", "apply"} => current.cols = target.cols
          /\ stage = "apply" => current.parts = target.parts
          /\ stage \in {"refresh", "settle"} => StoredIsTarget

RefreshPending ==
    stage = "refresh" => \A k \in changes.recommented \intersect DOMAIN cols :
        k \in DOMAIN current.cols /\ current.cols[k].comment = cols[k].comment

HandFollows ==
    \A k \in DOMAIN hand :
        /\ k \in DOMAIN cols /\ cols[k].source # "inferred"
        /\ hand[k] \in {Guess, cols[k].comment} \/ k \in missed

GuessesInferred == \A k \in DOMAIN cols : cols[k].source = "inferred" => cols[k].text = Guess

SyncInv ==
    /\ TypeOK /\ TargetFits /\ NoOrphans
    /\ StageAgrees /\ CatalogueCurrent
    /\ RefreshPending /\ GuessesInferred /\ HandFollows /\ CommentsFollowed

\* A sync with a table_scope looks at the named tables only.
ScopeRespected ==
    scope # {} => changes.tablesAdded \union changes.tablesRemoved \subseteq scope
=============================================================================
