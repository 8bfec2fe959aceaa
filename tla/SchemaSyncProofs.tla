-------------------------- MODULE SchemaSyncProofs --------------------------
(***************************************************************************)
(* The safety properties of SchemaSync for any tables, columns, types and  *)
(* comments.  StageAgrees carries what was read of a target that stands    *)
(* still from the queries to the stored rows; RefreshPending carries the   *)
(* comments from the first commit to the second.                           *)
(***************************************************************************)
EXTENDS SchemaSync, TLAPS

\* A function over some of S with values in T, and back.
LEMMA PartialIntro ==
    ASSUME NEW S, NEW T, NEW D \in SUBSET S, NEW f \in [D -> T]
    PROVE  f \in Partial(S, T)
  BY DEF Partial

LEMMA PartialElim ==
    ASSUME NEW S, NEW T, NEW f \in Partial(S, T)
    PROVE  DOMAIN f \in SUBSET S /\ f \in [DOMAIN f -> T]
  BY DEF Partial

\* A part of a function.
LEMMA Restricted ==
    ASSUME NEW S, NEW T, NEW f \in Partial(S, T), NEW D \in SUBSET DOMAIN f
    PROVE  /\ [x \in D |-> f[x]] \in Partial(S, T)
           /\ D = DOMAIN f => [x \in D |-> f[x]] = f
<1>1. DOMAIN f \in SUBSET S /\ f \in [DOMAIN f -> T]
  BY PartialElim
<1>2. [x \in D |-> f[x]] \in [D -> T]
  BY <1>1
<1>3. [x \in D |-> f[x]] \in Partial(S, T)
  BY <1>1, <1>2, PartialIntro
<1> QED
  BY <1>1, <1>3

\* A schema with nothing in it, and no changes.
LEMMA EmptyTyped ==
    /\ \A S, T : Empty \in Partial(S, T)
    /\ EmptySchema \in Schema
    /\ NoChanges \in Changes
    /\ DOMAIN Empty = {}
<1>1. DOMAIN Empty = {}
  BY DEF Empty
<1>2. ASSUME NEW S, NEW T
      PROVE  Empty \in Partial(S, T)
  <2>1. Empty \in [{} -> T]
    BY DEF Empty
  <2> QED
    BY <2>1, PartialIntro
<1>3. EmptySchema \in Schema
  BY <1>2 DEF EmptySchema, Schema
<1>4. NoChanges \in Changes
  BY DEF NoChanges, Changes
<1> QED
  BY <1>1, <1>2, <1>3, <1>4

\* A step of the job that leaves target and rows alone keeps what only they say.
LEMMA RowsSame ==
    ASSUME NoOrphans, GuessesInferred, TargetFits, UNCHANGED <<target, stored>>
    PROVE  NoOrphans' /\ GuessesInferred' /\ TargetFits'
  BY DEF NoOrphans, GuessesInferred, TargetFits, Known, stored

\* Nothing is stored and no job is at work.
LEMMA InitStep == Init => SyncInv
<1> SUFFICES ASSUME Init
             PROVE  SyncInv
  OBVIOUS
<1> USE EmptyTyped DEF Init
<1>1. TypeOK
  <2>1. tables \in Partial(Table, Optional) /\ cols \in Partial(Key, Row)
    BY Zenon
  <2>2. target \in Schema /\ current \in Schema /\ changes \in Changes
    OBVIOUS
  <2>3. parts \in SUBSET PartKey /\ scope \in SUBSET Table /\ edits \in 0..MaxEdits
    BY EditAssumption
  <2>4. /\ stage \in Stages /\ kind \in {"none", "sync", "full"}
        /\ verdict \in {"none", "running", "success", "failed", "stuck"}
        /\ moved \in BOOLEAN
    BY DEF Stages
  <2>5. hand \in Partial(Key, Optional \union {Guess}) /\ missed \in SUBSET Key
    BY Zenon
  <2> QED
    BY <2>1, <2>2, <2>3, <2>4, <2>5 DEF TypeOK
<1>2. TargetFits
  BY DEF TargetFits, EmptySchema
<1>3. NoOrphans /\ GuessesInferred /\ CommentsFollowed /\ HandFollows
  BY DEF NoOrphans, GuessesInferred, CommentsFollowed, HandFollows
<1>4. StageAgrees /\ CatalogueCurrent /\ RefreshPending
  BY DEF StageAgrees, CatalogueCurrent, RefreshPending
<1> QED
  BY <1>1, <1>2, <1>3, <1>4 DEF SyncInv

\* The target becomes another schema: what was read of it no longer binds.
LEMMA ChangeSchemaStep == SyncInv /\ ChangeSchema => SyncInv'
<1> SUFFICES ASSUME SyncInv, ChangeSchema
             PROVE  SyncInv'
  OBVIOUS
<1> USE DEF SyncInv
<1>1. PICK t \in Table, kept \in {<<>>} \union {<<c>> : c \in Optional},
           own \in Partial(Column, ColumnDef), names \in SUBSET Part :
        LET here == kept # <<>>
            others == DOMAIN target.tables \ {t}
            mine == IF here THEN {t} \X DOMAIN own ELSE {}
        IN  target' =
              [tables |-> [u \in others \union (IF here THEN {t} ELSE {}) |->
                             IF u = t THEN kept[1] ELSE target.tables[u]],
               cols |-> [k \in {j \in DOMAIN target.cols : j[1] # t} \union mine |->
                             IF k[1] = t THEN own[k[2]] ELSE target.cols[k]],
               parts |-> {j \in target.parts : j[1] # t} \union
                             (IF here THEN {t} \X names ELSE {})]
  BY DEF ChangeSchema
<1> DEFINE here == kept # <<>>
           others == DOMAIN target.tables \ {t}
           mine == IF here THEN {t} \X DOMAIN own ELSE {}
           T == others \union (IF here THEN {t} ELSE {})
           C == {j \in DOMAIN target.cols : j[1] # t} \union mine
           tabs == [u \in T |-> IF u = t THEN kept[1] ELSE target.tables[u]]
           colums == [k \in C |-> IF k[1] = t THEN own[k[2]] ELSE target.cols[k]]
           names2 == {j \in target.parts : j[1] # t} \union (IF here THEN {t} \X names ELSE {})
<1>2. target' = [tables |-> tabs, cols |-> colums, parts |-> names2]
  BY <1>1
<1>3. /\ DOMAIN target.tables \in SUBSET Table
      /\ target.tables \in [DOMAIN target.tables -> Optional]
      /\ DOMAIN target.cols \in SUBSET Key
      /\ target.cols \in [DOMAIN target.cols -> ColumnDef]
      /\ target.parts \in SUBSET PartKey
  BY PartialElim DEF TypeOK, Schema
<1>4. DOMAIN own \in SUBSET Column /\ own \in [DOMAIN own -> ColumnDef]
  BY PartialElim
<1>5. tabs \in Partial(Table, Optional)
  <2>1. T \in SUBSET Table
    BY <1>3
  <2>2. ASSUME NEW u \in T
        PROVE  tabs[u] \in Optional
    <3>1. CASE u = t
      <4>1. here
        BY <3>1
      <4>2. PICK c \in Optional : kept = <<c>>
        BY <4>1
      <4> QED
        BY <3>1, <4>2
    <3>2. CASE u # t
      BY <1>3, <3>2
    <3> QED
      BY <3>1, <3>2
  <2>3. tabs = [u \in T |-> tabs[u]]
    OBVIOUS
  <2> HIDE DEF T, tabs
  <2>4. tabs \in [T -> Optional]
    BY <2>2, <2>3
  <2> QED
    BY <2>1, <2>4, PartialIntro
<1>6. colums \in Partial(Key, ColumnDef)
  <2>1. mine \in SUBSET Key /\ \A k \in mine : k[1] = t /\ k[2] \in DOMAIN own
    BY <1>4 DEF Key
  <2>2. C \in SUBSET Key
    BY <1>3, <2>1
  <2>3. ASSUME NEW k \in C
        PROVE  colums[k] \in ColumnDef
    BY <1>3, <1>4, <2>1
  <2>4. colums \in [C -> ColumnDef]
    BY <2>3
  <2> HIDE DEF C, colums
  <2> QED
    BY <2>2, <2>4, PartialIntro
<1>7. names2 \in SUBSET PartKey
  BY <1>3 DEF PartKey
<1>8. target' \in Schema
  <2> HIDE DEF tabs, colums, names2
  <2> QED
    BY <1>2, <1>5, <1>6, <1>7 DEF Schema
<1>9. TargetFits'
  <2>1. /\ DOMAIN (target.cols)' = C /\ DOMAIN (target.tables)' = T /\ (target.parts)' = names2
    BY <1>2
  <2>2. ASSUME NEW k \in C
        PROVE  k[1] \in T
    BY <1>4 DEF TargetFits
  <2>3. ASSUME NEW k \in names2
        PROVE  k[1] \in T
    BY DEF TargetFits
  <2> QED
    BY <2>1, <2>2, <2>3 DEF TargetFits
<1>10. TypeOK'
  BY <1>8, EditAssumption DEF ChangeSchema, TypeOK, stored, job, learning
<1>11. NoOrphans' /\ GuessesInferred' /\ RefreshPending'
  BY DEF ChangeSchema, NoOrphans, GuessesInferred, RefreshPending, Known, stored, job
<1>13. CommentsFollowed' /\ HandFollows'
  BY DEF ChangeSchema, CommentsFollowed, HandFollows, Copied, stored, job, learning
<1>12. StageAgrees' /\ CatalogueCurrent'
  BY DEF ChangeSchema, StageAgrees, CatalogueCurrent, stored, job
<1> QED
  BY <1>9, <1>10, <1>11, <1>12, <1>13

\* A new job has read nothing yet.
LEMMA BeginStep ==
    ASSUME SyncInv, NEW what \in {"sync", "full"}, NEW only \in SUBSET Table, Begin(what, only)
    PROVE  SyncInv'
<1> USE DEF SyncInv, Begin
<1>1. TypeOK'
  BY EmptyTyped DEF TypeOK, Stages, stored, learning
<1>2. TargetFits' /\ NoOrphans' /\ GuessesInferred'
  BY RowsSame
<1>3. CommentsFollowed' /\ RefreshPending' /\ HandFollows'
  BY DEF CommentsFollowed, RefreshPending, HandFollows, Copied, stored, learning
<1>4. StageAgrees' /\ CatalogueCurrent'
  BY DEF StageAgrees, CatalogueCurrent
<1> QED
  BY <1>1, <1>2, <1>3, <1>4

\* One of the extractor's queries: what it returns of a target that stands
\* still, in a sync of all tables, is the target's.
LEMMA ReadTablesStep == SyncInv /\ ReadTables => SyncInv'
<1> SUFFICES ASSUME SyncInv, ReadTables
             PROVE  SyncInv'
  OBVIOUS
<1> USE DEF SyncInv, ReadTables, Read
<1> DEFINE D == {u \in DOMAIN target.tables : Wanted(u)}
           found == [t \in D |-> target.tables[t]]
<1>1. target \in Schema /\ current \in Schema /\ target.tables \in Partial(Table, Optional)
  BY DEF TypeOK, Schema
<1>2. found \in Partial(Table, Optional) /\ (scope = {} => found = target.tables)
  BY <1>1, Restricted DEF Wanted
<1>3. current' = [current EXCEPT !.tables = found]
  OBVIOUS
<1> HIDE DEF found
<1>4. current' \in Schema /\ (current.tables)' = found
  BY <1>1, <1>2, <1>3 DEF Schema
<1>5. TypeOK'
  BY <1>4 DEF TypeOK, Stages, stored, learning
<1>6. TargetFits' /\ NoOrphans' /\ GuessesInferred'
  BY RowsSame
<1>7. CommentsFollowed' /\ RefreshPending' /\ HandFollows'
  BY DEF CommentsFollowed, RefreshPending, HandFollows, Copied, stored, learning
<1>8. StageAgrees' /\ CatalogueCurrent'
  BY <1>2, <1>4 DEF StageAgrees, CatalogueCurrent
<1> QED
  BY <1>5, <1>6, <1>7, <1>8

LEMMA ReadColumnsStep == SyncInv /\ ReadColumns => SyncInv'
<1> SUFFICES ASSUME SyncInv, ReadColumns
             PROVE  SyncInv'
  OBVIOUS
<1> USE DEF SyncInv, ReadColumns, Read
<1> DEFINE D == {j \in DOMAIN target.cols : Wanted(j[1])}
           found == [k \in D |-> target.cols[k]]
<1>1. target \in Schema /\ current \in Schema /\ target.cols \in Partial(Key, ColumnDef)
  BY DEF TypeOK, Schema
<1>2. found \in Partial(Key, ColumnDef) /\ (scope = {} => found = target.cols)
  BY <1>1, Restricted DEF Wanted
<1>3. current' = [current EXCEPT !.cols = found]
  OBVIOUS
<1> HIDE DEF found
<1>4. current' \in Schema /\ (current.cols)' = found /\ (current.tables)' = current.tables
  BY <1>1, <1>2, <1>3 DEF Schema
<1>5. TypeOK'
  BY <1>4 DEF TypeOK, Stages, stored, learning
<1>6. TargetFits' /\ NoOrphans' /\ GuessesInferred'
  BY RowsSame
<1>7. CommentsFollowed' /\ RefreshPending' /\ HandFollows'
  BY DEF CommentsFollowed, RefreshPending, HandFollows, Copied, stored, learning
<1>8. StageAgrees' /\ CatalogueCurrent'
  BY <1>2, <1>4 DEF StageAgrees, CatalogueCurrent
<1> QED
  BY <1>5, <1>6, <1>7, <1>8

LEMMA ReadPartsStep == SyncInv /\ ReadParts => SyncInv'
<1> SUFFICES ASSUME SyncInv, ReadParts
             PROVE  SyncInv'
  OBVIOUS
<1> USE DEF SyncInv, ReadParts, Read
<1> DEFINE found == {k \in target.parts : Wanted(k[1])}
<1>1. target \in Schema /\ current \in Schema
  BY DEF TypeOK
<1>2. found \in SUBSET PartKey /\ (scope = {} => found = target.parts)
  BY <1>1 DEF Schema, Wanted
<1>3. current' = [current EXCEPT !.parts = found]
  OBVIOUS
<1> HIDE DEF found
<1>4. /\ current' \in Schema /\ (current.parts)' = found
      /\ (current.tables)' = current.tables /\ (current.cols)' = current.cols
  BY <1>1, <1>2, <1>3 DEF Schema
<1>5. TypeOK'
  BY <1>4 DEF TypeOK, Stages, stored, learning
<1>6. TargetFits' /\ NoOrphans' /\ GuessesInferred'
  BY RowsSame
<1>7. CommentsFollowed' /\ RefreshPending' /\ HandFollows'
  BY DEF CommentsFollowed, RefreshPending, HandFollows, Copied, stored, learning
<1>8. StageAgrees' /\ CatalogueCurrent'
  BY <1>2, <1>4 DEF StageAgrees, CatalogueCurrent
<1> QED
  BY <1>5, <1>6, <1>7, <1>8

\* A job that ends with the rows as they are.  It ends well only when they are
\* settled; if it ends between the commits, the columns that lag are recorded.
LEMMA EndStep ==
    ASSUME SyncInv, NEW status \in {"success", "failed", "stuck"}, End(status),
           UNCHANGED <<stored, hand>>,
           status = "success" => stage = "settle",
           missed' \in SUBSET Key, missed \subseteq missed',
           \A k \in changes.recommented \intersect DOMAIN cols :
               stage = "refresh" /\ Copied(k) => k \in missed'
    PROVE  SyncInv'
<1> USE DEF SyncInv, End
<1>1. TypeOK'
  BY EmptyTyped DEF TypeOK, Stages, stored
<1>2. TargetFits' /\ NoOrphans' /\ GuessesInferred'
  BY RowsSame
<1>3. CommentsFollowed' /\ RefreshPending' /\ HandFollows'
  BY DEF CommentsFollowed, RefreshPending, HandFollows, Copied, stored
<1>4. StageAgrees'
  BY DEF StageAgrees
<1>5. CatalogueCurrent'
  BY DEF StageAgrees, CatalogueCurrent, StoredIsTarget, stored
<1> QED
  BY <1>1, <1>2, <1>3, <1>4, <1>5

\* The types of what is stored and read, function by function.
LEMMA RowsTyped ==
    ASSUME TypeOK
    PROVE  /\ Known \in SUBSET Table /\ tables \in [Known -> Optional]
           /\ DOMAIN cols \in SUBSET Key /\ cols \in [DOMAIN cols -> Row]
           /\ parts \in SUBSET PartKey
           /\ Listed \in SUBSET Table /\ current.tables \in [Listed -> Optional]
           /\ DOMAIN current.cols \in SUBSET Key
           /\ current.cols \in [DOMAIN current.cols -> ColumnDef]
           /\ current.parts \in SUBSET PartKey
  BY PartialElim DEF TypeOK, Schema, Known, Listed

\* A new column comes without a description.
LEMMA NewRowFacts ==
    ASSUME NEW c \in ColumnDef
    PROVE  /\ NewRow(c) \in Row
           /\ NewRow(c).type = c.type /\ NewRow(c).comment = c.comment
           /\ NewRow(c).text = Nothing /\ NewRow(c).source = Nothing
  BY DEF NewRow, Row, ColumnDef, Optional

\* What the catalogue holds after a sync is applied: the columns and names that
\* were read of the tables that were listed, and no more.
LEMMA KeptFacts ==
    ASSUME TypeOK
    PROVE  /\ Kept(DOMAIN cols, Diff.colsAdded, Diff.colsRemoved) =
                {k \in DOMAIN current.cols : k[1] \in Listed}
           /\ Kept(parts, Diff.partsAdded, Diff.partsRemoved) =
                {k \in current.parts : k[1] \in Listed}
  BY DEF Kept, Diff, DiffOf

\* A row follows the target in type and comment, and a row that was there keeps
\* its description.
LEMMA RowFacts ==
    ASSUME TypeOK, NEW k \in DOMAIN current.cols
    PROVE  /\ RowOf(k) \in Row
           /\ RowOf(k).type = current.cols[k].type
           /\ RowOf(k).comment = current.cols[k].comment
           /\ k \in DOMAIN cols =>
                RowOf(k).text = cols[k].text /\ RowOf(k).source = cols[k].source
           /\ k \notin DOMAIN cols =>
                RowOf(k).text = Nothing /\ RowOf(k).source = Nothing
<1>1. current.cols[k] \in ColumnDef
  BY RowsTyped
<1>2. CASE k \notin DOMAIN cols
  BY <1>1, <1>2, NewRowFacts DEF RowOf
<1>3. CASE k \in DOMAIN cols
  <2>1. cols[k] \in Row
    BY <1>3, RowsTyped
  <2>2. CASE k \in Diff.colsModified
    BY <1>1, <1>3, <2>1, <2>2 DEF RowOf, Row, ColumnDef
  <2>3. CASE k \notin Diff.colsModified
    <3>1. ~Differ(k)
      BY <1>3, <2>3 DEF Diff, DiffOf
    <3> QED
      BY <1>3, <2>1, <2>3, <3>1 DEF RowOf, Differ
  <2> QED
    BY <2>2, <2>3
<1> QED
  BY <1>2, <1>3

\* A diff names tables, columns and parts there are.
LEMMA DiffTyped ==
    ASSUME TypeOK
    PROVE  Diff \in Changes
  BY RowsTyped DEF Diff, DiffOf, Changes

\* Rows that keep type and comment keep the shape of the catalogue.
LEMMA ShapeSame ==
    ASSUME DOMAIN cols' = DOMAIN cols,
           \A k \in DOMAIN cols : cols'[k].type = cols[k].type /\ cols'[k].comment = cols[k].comment
    PROVE  Shape(cols') = Shape(cols)
  BY DEF Shape

\* A full extraction inserts tables that are new, with their columns, and fails
\* on the first that is not.
LEMMA StoreFullStep == SyncInv /\ StoreFull => SyncInv'
<1> SUFFICES ASSUME SyncInv, StoreFull
             PROVE  SyncInv'
  OBVIOUS
<1> USE DEF SyncInv
<1> DEFINE newCols == {k \in DOMAIN current.cols : k[1] \in Listed}
           newParts == {k \in current.parts : k[1] \in Listed \union Known}
           T == Listed \union Known
           C == newCols \union DOMAIN cols
           tabs == [t \in T |-> IF t \in Listed THEN current.tables[t] ELSE tables[t]]
           rows == [k \in C |-> IF k \in newCols THEN NewRow(current.cols[k]) ELSE cols[k]]
<1>1. CASE End("stuck") /\ UNCHANGED stored
  BY <1>1, EndStep DEF StoreFull, TypeOK, learning
<1>2. CASE /\ tables' = tabs /\ cols' = rows /\ parts' = parts \union newParts
           /\ End("success")
  <2>1. tables' \in Partial(Table, Optional) /\ DOMAIN tables' = T
    <3>1. T \in SUBSET Table /\ tabs \in [T -> Optional]
      BY RowsTyped
    <3> HIDE DEF T, tabs
    <3> QED
      BY <1>2, <3>1, PartialIntro
  <2>2. C \in SUBSET Key /\ DOMAIN cols' = C
    BY <1>2, RowsTyped
  <2>3. ASSUME NEW k \in C
        PROVE  /\ cols'[k] \in Row
               /\ k \in newCols => cols'[k].source = Nothing
               /\ k \notin newCols => k \in DOMAIN cols /\ cols'[k] = cols[k]
    <3>1. cols'[k] = IF k \in newCols THEN NewRow(current.cols[k]) ELSE cols[k]
      BY <1>2
    <3>2. k \in newCols => current.cols[k] \in ColumnDef
      BY RowsTyped
    <3>3. k \notin newCols => cols[k] \in Row
      BY RowsTyped
    <3> QED
      BY <3>1, <3>2, <3>3, NewRowFacts
  <2>4. cols' \in Partial(Key, Row)
    <3>1. cols' = [k \in C |-> cols'[k]]
      BY <1>2
    <3> HIDE DEF C
    <3>2. cols' \in [C -> Row]
      BY <2>3, <3>1
    <3> QED
      BY <2>2, <3>2, PartialIntro
  <2>5. parts' \in SUBSET PartKey
    BY <1>2, RowsTyped
  <2>6. TypeOK'
    BY <1>2, <2>1, <2>4, <2>5, EmptyTyped DEF StoreFull, End, TypeOK, Stages, learning
  <2>7. TargetFits'
    BY <1>2 DEF End, TargetFits
  <2>8. NoOrphans'
    BY <1>2, <2>1, <2>2 DEF NoOrphans, Known
  <2>9. GuessesInferred' /\ CommentsFollowed'
    BY <1>2, <2>2, <2>3
       DEF StoreFull, End, GuessesInferred, CommentsFollowed, Copied, Nothing, learning
  <2>11. HandFollows'
    <3>1. Listed \intersect Known = {}
      BY <1>2 DEF StoreFull, End
    <3>2. \A k \in DOMAIN cols : k \notin newCols
      BY <3>1 DEF NoOrphans
    <3> QED
      BY <2>2, <2>3, <3>2 DEF StoreFull, HandFollows, learning
  <2>10. StageAgrees' /\ CatalogueCurrent' /\ RefreshPending'
    BY <1>2 DEF StoreFull, End, StageAgrees, CatalogueCurrent, RefreshPending
  <2> QED
    BY <2>6, <2>7, <2>8, <2>9, <2>10, <2>11
<1> QED
  BY <1>1, <1>2 DEF StoreFull

\* A sync stores what was read: the target, if it stood still.  Descriptions
\* stay, and those whose comment changed wait for the refresh.
LEMMA ApplyStep == SyncInv /\ Apply => SyncInv'
<1> SUFFICES ASSUME SyncInv, Apply
             PROVE  SyncInv'
  OBVIOUS
<1> USE DEF SyncInv
<1> DEFINE C == {k \in DOMAIN current.cols : k[1] \in Listed}
           N == {k \in current.parts : k[1] \in Listed}
           tabs == [t \in Listed |-> IF t \in Known THEN tables[t] ELSE current.tables[t]]
<1>1. CASE End("stuck") /\ UNCHANGED <<stored, learning>>
  BY <1>1, EndStep DEF Apply, TypeOK, learning
<1>2. CASE /\ Diff.tablesModified = {}
           /\ changes' = Diff
           /\ tables' = tabs
           /\ cols' = [k \in Kept(DOMAIN cols, Diff.colsAdded, Diff.colsRemoved) |-> RowOf(k)]
           /\ parts' = Kept(parts, Diff.partsAdded, Diff.partsRemoved)
           /\ hand' = IF DOMAIN hand \subseteq DOMAIN cols' THEN hand ELSE Empty
           /\ missed' = (missed \union Overtaken) \intersect DOMAIN cols'
           /\ stage' = "refresh"
           /\ UNCHANGED <<target, kind, scope, current, verdict, edits, moved>>
  <2>1. cols' = [k \in C |-> RowOf(k)] /\ parts' = N
    BY <1>2, KeptFacts
  <2>2. tables' = current.tables
    <3>1. \A t \in Listed : t \in Known => tables[t] = current.tables[t]
      BY <1>2 DEF Diff, DiffOf
    <3> QED
      BY <1>2, <3>1, RowsTyped
  <2>3. tables' \in Partial(Table, Optional) /\ DOMAIN tables' = Listed
    BY <2>2 DEF TypeOK, Schema, Listed
  <2>4. C \in SUBSET Key /\ DOMAIN cols' = C
    BY <2>1, RowsTyped
  <2>5. ASSUME NEW k \in C
        PROVE  cols'[k] = RowOf(k) /\ k \in DOMAIN current.cols
    BY <2>1
  <2>6. cols' \in Partial(Key, Row)
    <3>1. \A k \in C : cols'[k] \in Row
      BY <2>5, RowFacts
    <3>2. cols' = [k \in C |-> cols'[k]]
      BY <2>1
    <3> HIDE DEF C
    <3>3. cols' \in [C -> Row]
      BY <3>1, <3>2
    <3> QED
      BY <2>4, <3>3, PartialIntro
  <2>7. TypeOK'
    <3>1. parts' \in SUBSET PartKey /\ changes' \in Changes
      BY <1>2, <2>1, RowsTyped, DiffTyped
    <3>2. hand' \in Partial(Key, Optional \union {Guess}) /\ missed' \in SUBSET Key
      BY <1>2, <2>4, EmptyTyped DEF TypeOK
    <3> QED
      BY <1>2, <2>3, <2>6, <3>1, <3>2 DEF Apply, TypeOK, Stages
  <2>8. TargetFits' /\ NoOrphans'
    BY <1>2, <2>1, <2>3, <2>4 DEF TargetFits, NoOrphans, Known
  <2>9. GuessesInferred'
    BY <2>4, <2>5, RowFacts DEF GuessesInferred, Nothing
  <2>10. CommentsFollowed'
    <3> SUFFICES ASSUME NEW k \in C, cols'[k].source = "schema_comment", cols'[k].text # Nothing
                 PROVE  \/ cols'[k].text = cols'[k].comment
                        \/ k \in (changes.recommented)'
                        \/ k \in missed'
      BY <1>2, <2>4 DEF CommentsFollowed, Copied
    <3>1. k \in DOMAIN cols
      BY <2>5, RowFacts DEF Nothing
    <3>2. cols[k].text = cols[k].comment \/ k \in missed
      BY <2>5, <3>1, RowFacts DEF CommentsFollowed, Copied, Apply
    <3>3. current.cols[k].comment # cols[k].comment => k \in (changes.recommented)'
      BY <1>2, <3>1 DEF Diff, DiffOf
    <3> QED
      BY <1>2, <2>4, <2>5, <3>1, <3>2, <3>3, RowFacts DEF Apply
  <2>14. HandFollows'
    <3>1. CASE hand' = Empty
      BY <3>1, EmptyTyped DEF HandFollows
    <3>2. CASE hand' = hand /\ DOMAIN hand \subseteq C
      <4> SUFFICES ASSUME NEW k \in DOMAIN hand
                   PROVE  /\ cols'[k].source # "inferred"
                          /\ hand[k] \in {Guess, cols'[k].comment} \/ k \in missed'
        BY <2>4, <3>2 DEF HandFollows
      <4>1. /\ k \in C /\ k \in DOMAIN cols /\ cols[k].source # "inferred"
            /\ hand[k] \in {Guess, cols[k].comment} \/ k \in missed
        BY <3>2 DEF HandFollows
      <4>2. cols'[k].source = cols[k].source /\ cols'[k].comment = current.cols[k].comment
        BY <2>5, <4>1, RowFacts
      <4>3. CASE current.cols[k].comment # cols[k].comment /\ hand[k] # Guess
        <5>1. k \in Overtaken
          BY <4>1, <4>3 DEF Overtaken, Diff, DiffOf
        <5> QED
          BY <1>2, <2>4, <4>1, <4>2, <5>1
      <4> QED
        BY <1>2, <2>4, <4>1, <4>2, <4>3
    <3> QED
      BY <1>2, <2>4, <3>1, <3>2
  <2>11. RefreshPending'
    BY <1>2, <2>4, <2>5, RowFacts DEF RefreshPending
  <2>12. StageAgrees'
    <3>1. ASSUME scope = {}, ~moved
          PROVE  StoredIsTarget'
      <4>1. /\ current.tables = target.tables /\ current.cols = target.cols
            /\ current.parts = target.parts
        BY <3>1 DEF Apply, StageAgrees
      <4>2. C = DOMAIN current.cols /\ N = current.parts
        BY <4>1 DEF TargetFits, Listed
      <4>3. Shape(cols') = current.cols
        <5>1. \A k \in C : /\ cols'[k].type = current.cols[k].type
                            /\ cols'[k].comment = current.cols[k].comment
          BY <2>5, RowFacts
        <5>2. Shape(cols') = [k \in C |-> [type |-> current.cols[k].type,
                                            comment |-> current.cols[k].comment]]
          BY <2>4, <5>1 DEF Shape
        <5>3. \A k \in C : current.cols[k] = [type |-> current.cols[k].type,
                                               comment |-> current.cols[k].comment]
          BY RowsTyped DEF ColumnDef
        <5>4. current.cols = [k \in C |-> current.cols[k]]
          BY <4>2, RowsTyped
        <5> QED
          BY <5>2, <5>3, <5>4
      <4> QED
        BY <1>2, <2>1, <2>2, <4>1, <4>2, <4>3 DEF StoredIsTarget
    <3> QED
      BY <1>2, <3>1 DEF Apply, StageAgrees
  <2>13. CatalogueCurrent'
    BY <1>2 DEF Apply, StageAgrees, CatalogueCurrent
  <2> QED
    BY <2>7, <2>8, <2>9, <2>10, <2>11, <2>12, <2>13, <2>14
<1> QED
  BY <1>1, <1>2 DEF Apply

\* The second commit of a sync: descriptions that come from a comment follow it.
LEMMA RefreshStep == SyncInv /\ Refresh => SyncInv'
<1> SUFFICES ASSUME SyncInv, Refresh
             PROVE  SyncInv'
  OBVIOUS
<1> USE DEF SyncInv
<1> DEFINE D == DOMAIN cols
<1>1. DOMAIN cols' = D
  BY DEF Refresh
<1>2. ASSUME NEW k \in D
      PROVE  /\ cols'[k] \in Row
             /\ cols'[k].type = cols[k].type /\ cols'[k].comment = cols[k].comment
             /\ cols'[k].source = cols[k].source
             /\ cols[k].source # "schema_comment" => cols'[k].text = cols[k].text
             /\ k \notin changes.recommented => cols'[k].text = cols[k].text
             /\ k \in changes.recommented /\ cols[k].source = "schema_comment" =>
                    cols'[k].text = cols[k].comment
  <2>1. cols'[k] = IF k \in changes.recommented /\ cols[k].source = "schema_comment"
                   THEN [cols[k] EXCEPT !.text = current.cols[k].comment] ELSE cols[k]
    BY DEF Refresh, Refreshed, Copied
  <2>2. cols[k] \in Row
    BY RowsTyped
  <2>3. CASE k \in changes.recommented /\ cols[k].source = "schema_comment"
    <3>1. current.cols[k].comment = cols[k].comment
      BY <2>3 DEF Refresh, RefreshPending
    <3> QED
      BY <2>1, <2>2, <2>3, <3>1 DEF Row, Optional
  <2>4. CASE ~(k \in changes.recommented /\ cols[k].source = "schema_comment")
    BY <2>1, <2>2, <2>4
  <2> QED
    BY <2>3, <2>4
<1>3. cols' \in Partial(Key, Row)
  <2>1. cols' = [k \in D |-> cols'[k]] /\ D \in SUBSET Key
    BY RowsTyped DEF Refresh
  <2> HIDE DEF D
  <2>2. cols' \in [D -> Row]
    BY <1>2, <2>1
  <2> QED
    BY <2>1, <2>2, PartialIntro
<1>4. TypeOK'
  BY <1>3 DEF Refresh, TypeOK, Stages, job
<1>5. TargetFits' /\ NoOrphans'
  BY <1>1 DEF Refresh, TargetFits, NoOrphans, Known
<1>6. GuessesInferred'
  BY <1>1, <1>2 DEF GuessesInferred
<1>7. CommentsFollowed' /\ HandFollows'
  <2>1. \A k \in missed :
           k \in missed' \/ (k \notin DOMAIN hand /\ k \in changes.recommented /\ Copied(k))
    BY DEF Refresh, Refreshed
  <2>2. HandFollows'
    BY <1>1, <1>2, <2>1 DEF Refresh, HandFollows
  <2>3. CommentsFollowed'
    BY <1>1, <1>2, <2>1 DEF Refresh, CommentsFollowed, Copied, job
  <2> QED
    BY <2>2, <2>3
<1>8. Shape(cols') = Shape(cols)
  BY <1>1, <1>2, ShapeSame
<1>9. StageAgrees' /\ CatalogueCurrent' /\ RefreshPending'
  BY <1>8 DEF Refresh, StageAgrees, StoredIsTarget, CatalogueCurrent, RefreshPending, job
<1> QED
  BY <1>4, <1>5, <1>6, <1>7, <1>9

\* Learning takes rows in hand, or gives them up: the rows stay as they are.
LEMMA HandStep ==
    ASSUME SyncInv, UNCHANGED <<target, stored, stage, job, verdict, edits, moved>>,
           hand' \in Partial(Key, Optional \union {Guess}), missed' \in SUBSET missed,
           HandFollows',
           \A k \in missed \ missed' : k \in DOMAIN cols => cols[k].text = Nothing
    PROVE  SyncInv'
<1> USE DEF SyncInv, stored, job
<1>1. TypeOK'
  BY DEF TypeOK
<1>2. TargetFits' /\ NoOrphans' /\ GuessesInferred'
  BY RowsSame
<1>3. CommentsFollowed' /\ RefreshPending'
  BY DEF CommentsFollowed, RefreshPending, Copied
<1>4. StageAgrees' /\ CatalogueCurrent'
  BY DEF StageAgrees, StoredIsTarget, Shape, CatalogueCurrent
<1> QED
  BY <1>1, <1>2, <1>3, <1>4

\* L0 holds the comments the rows have.
LEMMA ReadCommentsStep == SyncInv /\ ReadComments => SyncInv'
<1> SUFFICES ASSUME SyncInv, ReadComments
             PROVE  SyncInv'
  OBVIOUS
<1> DEFINE commented == {k \in Bare : cols[k].comment # Nothing}
           texts == [k \in commented |-> cols[k].comment]
<1>1. Take(texts) /\ missed' = missed \ commented
  BY DEF ReadComments
<1>2. commented \in SUBSET Key /\ \A k \in commented : k \in DOMAIN cols /\ cols[k] \in Row
  BY RowsTyped DEF SyncInv, Bare
<1>3. texts \in Partial(Key, Optional \union {Guess})
  <2>1. texts \in [commented -> Optional \union {Guess}]
    BY <1>2 DEF Row
  <2> HIDE DEF commented, texts
  <2> QED
    BY <1>2, <2>1, PartialIntro
<1>4. HandFollows'
  <2>1. hand' = texts /\ cols' = cols
    BY <1>1 DEF Take, stored
  <2>2. \A k \in commented : cols[k].source # "inferred"
    BY DEF SyncInv, GuessesInferred, Bare, Guess, Nothing
  <2> QED
    BY <1>2, <2>1, <2>2 DEF HandFollows
<1>5. \A k \in missed \ missed' : k \in DOMAIN cols => cols[k].text = Nothing
  BY <1>1 DEF Bare
<1>6. missed' \in SUBSET missed /\ UNCHANGED <<target, stored, stage, job, verdict, edits, moved>>
  BY <1>1 DEF Take
<1>7. hand' \in Partial(Key, Optional \union {Guess})
  BY <1>1, <1>3 DEF Take
<1> QED
  BY <1>4, <1>5, <1>6, <1>7, HandStep

\* L1 and L2 hold guesses.
LEMMA ReadBareStep == SyncInv /\ ReadBare => SyncInv'
<1> SUFFICES ASSUME SyncInv, ReadBare
             PROVE  SyncInv'
  OBVIOUS
<1>1. PICK S \in SUBSET Bare : Take([k \in S |-> Guess]) /\ UNCHANGED missed
  BY DEF ReadBare
<1>2. S \in SUBSET Key /\ \A k \in S : k \in DOMAIN cols
  BY RowsTyped DEF SyncInv, Bare
<1>3. [k \in S |-> Guess] \in Partial(Key, Optional \union {Guess})
  <2>1. [k \in S |-> Guess] \in [S -> Optional \union {Guess}]
    OBVIOUS
  <2> QED
    BY <1>2, <2>1, PartialIntro
<1>4. HandFollows'
  <2>1. hand' = [k \in S |-> Guess] /\ cols' = cols
    BY <1>1 DEF Take, stored
  <2>2. \A k \in S : cols[k].source # "inferred"
    BY <1>1 DEF SyncInv, GuessesInferred, Bare, Guess, Nothing
  <2> QED
    BY <1>2, <2>1, <2>2 DEF HandFollows
<1>5. hand' \in Partial(Key, Optional \union {Guess})
  BY <1>1, <1>3 DEF Take
<1>6. missed' = missed /\ UNCHANGED <<target, stored, stage, job, verdict, edits, moved>>
  BY <1>1 DEF Take
<1> QED
  BY <1>4, <1>5, <1>6, HandStep

LEMMA LearningFailsStep == SyncInv /\ LearningFails => SyncInv'
<1> SUFFICES ASSUME SyncInv, LearningFails
             PROVE  SyncInv'
  OBVIOUS
<1>1. hand' \in Partial(Key, Optional \union {Guess}) /\ HandFollows'
  BY EmptyTyped DEF LearningFails, HandFollows
<1> QED
  BY <1>1, HandStep DEF LearningFails

\* What is committed is a guess or the row's comment, or is recorded as lagging.
LEMMA SaveStep == SyncInv /\ Save => SyncInv'
<1> SUFFICES ASSUME SyncInv, Save
             PROVE  SyncInv'
  OBVIOUS
<1> USE DEF SyncInv, Save
<1> DEFINE D == DOMAIN cols
<1>1. DOMAIN cols' = D /\ hand' = Empty
  OBVIOUS
<1>2. ASSUME NEW k \in D
      PROVE  /\ cols'[k] \in Row
             /\ cols'[k].type = cols[k].type /\ cols'[k].comment = cols[k].comment
             /\ k \notin DOMAIN hand =>
                    cols'[k].text = cols[k].text /\ cols'[k].source = cols[k].source
             /\ k \in DOMAIN hand =>
                    /\ cols'[k].text = hand[k]
                    /\ cols'[k].source = IF hand[k] = Guess THEN "inferred" ELSE "schema_comment"
  <2>1. cols[k] \in Row
    BY RowsTyped
  <2>2. cols'[k] = IF k \in DOMAIN hand
                   THEN [cols[k] EXCEPT !.text = hand[k], !.source = SourceOf(hand[k])] ELSE cols[k]
    OBVIOUS
  <2>3. hand \in [DOMAIN hand -> Optional \union {Guess}]
    BY PartialElim DEF TypeOK
  <2> QED
    BY <2>1, <2>2, <2>3 DEF Row, SourceOf
<1>3. cols' \in Partial(Key, Row)
  <2>1. cols' = [k \in D |-> cols'[k]] /\ D \in SUBSET Key
    BY RowsTyped
  <2> HIDE DEF D
  <2>2. cols' \in [D -> Row]
    BY <1>2, <2>1
  <2> QED
    BY <2>1, <2>2, PartialIntro
<1>10. UNCHANGED <<target, tables, parts, stage, job, verdict, edits, moved, missed>>
  OBVIOUS
<1> HIDE DEF Save
<1>4. TypeOK'
  BY <1>1, <1>3, <1>10, EmptyTyped DEF TypeOK, job
<1>5. TargetFits' /\ NoOrphans'
  BY <1>1, <1>10 DEF TargetFits, NoOrphans, Known
<1>6. GuessesInferred'
  BY <1>1, <1>2 DEF GuessesInferred
<1>11. HandFollows'
  BY <1>1, EmptyTyped DEF HandFollows
<1>7. CommentsFollowed'
  <2> SUFFICES ASSUME NEW k \in D, cols'[k].source = "schema_comment", cols'[k].text # Nothing
               PROVE  \/ cols'[k].text = cols'[k].comment
                      \/ stage = "refresh" /\ k \in changes.recommented
                      \/ k \in missed
    BY <1>1, <1>10 DEF CommentsFollowed, Copied, job
  <2>1. CASE k \notin DOMAIN hand
    BY <1>2, <2>1 DEF CommentsFollowed, Copied
  <2>2. CASE k \in DOMAIN hand
    BY <1>2, <2>2 DEF HandFollows
  <2> QED
    BY <2>1, <2>2
<1>8. Shape(cols') = Shape(cols)
  BY <1>1, <1>2, ShapeSame
<1>9. StageAgrees' /\ CatalogueCurrent' /\ RefreshPending'
  BY <1>1, <1>2, <1>8, <1>10
     DEF StageAgrees, StoredIsTarget, CatalogueCurrent, RefreshPending, job
<1> QED
  BY <1>4, <1>5, <1>6, <1>7, <1>9, <1>11

LEMMA StutterStep == SyncInv /\ UNCHANGED vars => SyncInv'
<1> SUFFICES ASSUME SyncInv, UNCHANGED vars
             PROVE  SyncInv'
  OBVIOUS
<1> USE DEF SyncInv, vars, stored, job, learning
<1>1. TypeOK' /\ TargetFits' /\ NoOrphans' /\ GuessesInferred'
  BY DEF TypeOK, TargetFits, NoOrphans, Known, GuessesInferred
<1>2. StageAgrees' /\ CatalogueCurrent' /\ RefreshPending'
  BY DEF StageAgrees, CatalogueCurrent, StoredIsTarget, Shape, RefreshPending
<1>3. CommentsFollowed' /\ HandFollows'
  BY DEF CommentsFollowed, HandFollows, Copied
<1> QED
  BY <1>1, <1>2, <1>3

\* Every step of a job, of the target and of learning keeps the invariant.
LEMMA NextStep == SyncInv /\ [Next]_vars => SyncInv'
<1> SUFFICES ASSUME SyncInv, [Next]_vars
             PROVE  SyncInv'
  OBVIOUS
<1>1. CASE ChangeSchema
  BY <1>1, ChangeSchemaStep
<1>2. CASE StartSync \/ StartFull
  BY <1>2, BeginStep DEF StartSync, StartFull
<1>3. CASE ReadTables \/ ReadColumns \/ ReadParts
  BY <1>3, ReadTablesStep, ReadColumnsStep, ReadPartsStep
<1>4. CASE StoreFull
  BY <1>4, StoreFullStep
<1>5. CASE Apply \/ Refresh
  BY <1>5, ApplyStep, RefreshStep
<1>6. CASE Settle
  BY <1>6, EndStep DEF Settle, SyncInv, TypeOK, learning
<1>7. CASE ExtractionFails
  BY <1>7, EndStep DEF ExtractionFails, SyncInv, TypeOK, learning
<1>8. CASE Interrupt
  <2>1. missed' \in SUBSET Key
    BY <1>8, RowsTyped DEF Interrupt, SyncInv, TypeOK
  <2> QED
    BY <1>8, <2>1, EndStep DEF Interrupt
<1>9. CASE ReadComments \/ ReadBare \/ Save \/ LearningFails
  BY <1>9, ReadCommentsStep, ReadBareStep, SaveStep, LearningFailsStep
<1>10. CASE UNCHANGED vars
  BY <1>10, StutterStep
<1> QED
  BY <1>1, <1>2, <1>3, <1>4, <1>5, <1>6, <1>7, <1>8, <1>9, <1>10 DEF Next

\* A job does not lose an inferred description of a column it has just read.
LEMMA KeepStep ==
    SyncInv /\ [Next]_vars => (stage \in {"apply", "refresh"} => KeepsInferred) \/ UNCHANGED vars
<1> SUFFICES ASSUME SyncInv, Next, stage \in {"apply", "refresh"},
                    NEW k \in DOMAIN cols, cols[k].source = "inferred",
                    k \in DOMAIN current.cols, k[1] \in Listed
             PROVE  /\ k \in DOMAIN cols'
                    /\ cols'[k].source = "inferred" /\ cols'[k].text = cols[k].text
  BY DEF KeepsInferred
<1> USE DEF SyncInv
<1>1. CASE UNCHANGED cols
  BY <1>1
<1>2. CASE StoreFull
  <2>1. k[1] \in Listed \intersect Known
    BY DEF NoOrphans
  <2> QED
    BY <1>2, <2>1 DEF StoreFull, stored
<1>3. CASE Apply
  <2>1. CASE UNCHANGED stored
    BY <2>1 DEF stored
  <2>2. CASE cols' = [j \in Kept(DOMAIN cols, Diff.colsAdded, Diff.colsRemoved) |-> RowOf(j)]
    BY <2>2, KeptFacts, RowFacts
  <2> QED
    BY <1>3, <2>1, <2>2 DEF Apply
<1>4. CASE Refresh
  BY <1>4 DEF Refresh, Copied
<1>5. CASE Save
  <2>1. k \notin DOMAIN hand
    BY DEF HandFollows
  <2> QED
    BY <1>5, <2>1 DEF Save
<1> QED
  BY <1>1, <1>2, <1>3, <1>4, <1>5
     DEF Next, ChangeSchema, StartSync, StartFull, Begin, ReadTables, ReadColumns, ReadParts, Read,
         Settle, ExtractionFails, Interrupt, ReadComments, ReadBare, Take, LearningFails, stored

\* What was read of a target that stands still is the target at every stage of a
\* job, and what a second commit still has to do is known: the invariant is
\* inductive.
THEOREM SyncInvariant == Spec => []SyncInv
  BY InitStep, NextStep, PTL DEF Spec

\* Every stored row, read schema and diff has its shape.
THEOREM TypeCorrect == Spec => []TypeOK
<1>1. SyncInv => TypeOK
  BY DEF SyncInv
<1> QED
  BY <1>1, SyncInvariant, PTL

\* A sync of all tables that ends well, of a target that stood still, leaves the
\* target's schema in the catalogue, whatever was there before.
THEOREM CatalogueFollows == Spec => []CatalogueCurrent
<1>1. SyncInv => CatalogueCurrent
  BY DEF SyncInv
<1> QED
  BY <1>1, SyncInvariant, PTL

\* _refresh_l0_descriptions and run_l0, interleaved in any way, keep a description
\* taken from a comment equal to the comment, but in the columns whose comment
\* changed in learning's hand or whose sync ended before its refresh.
THEOREM CommentsFollow == Spec => []CommentsFollowed
<1>1. SyncInv => CommentsFollowed
  BY DEF SyncInv
<1> QED
  BY <1>1, SyncInvariant, PTL

\* _apply_changes and the refresh keep what learning has inferred of every column
\* the sync has just read.
THEOREM DescriptionsKept == Spec => DescriptionsSurvive
<1> DEFINE Keep == stage \in {"apply", "refresh"} => KeepsInferred
<1>1. SyncInv /\ [Next]_vars => [Keep]_vars
  BY KeepStep
<1> HIDE DEF Keep
<1>2. SyncInv /\ SyncInv' /\ [Next]_vars => [Keep]_vars
  BY <1>1
<1>3. Spec => [][Keep]_vars
  BY <1>2, SyncInvariant, PTL DEF Spec
<1> QED
  BY <1>3 DEF Keep, DescriptionsSurvive

=============================================================================
