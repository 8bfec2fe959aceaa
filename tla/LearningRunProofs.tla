------------------------- MODULE LearningRunProofs -------------------------
(***************************************************************************)
(* The safety properties of LearningRun, for every catalogue, number of    *)
(* overlapping runs and setting.  LearningInv is inductive: each part has  *)
(* a lemma ("...Kept") that says what it needs of the others, and the      *)
(* theorems at the end take the parts out again.                           *)
(***************************************************************************)
EXTENDS LearningRun, FiniteSetTheorems, TLAPS

\* A set of columns or of tables has a natural number of elements.
LEMMA Counts ==
    /\ \A S \in SUBSET Column : IsFiniteSet(S) /\ Cardinality(S) \in Nat
    /\ \A S \in SUBSET Table : IsFiniteSet(S) /\ Cardinality(S) \in Nat
  BY CatalogueAssumption, FS_Subset, FS_CardinalityType

\* The coverage always yields a status.
LEMMA StatusType == Status \in Statuses
<1>1. Column \in SUBSET Column /\ Column \ Bare \in SUBSET Column
  OBVIOUS
<1>2. Cardinality(Column) \in Nat /\ Cardinality(Column \ Bare) \in Nat
  BY <1>1, Counts
<1> DEFINE n == Cardinality(Column)
           d == Cardinality(Column \ Bare)
<1>3. n \in Nat /\ d \in Nat
  BY <1>2
<1>4. \/ n = 0
      \/ n # 0 /\ 10 * d >= 8 * n
      \/ n # 0 /\ d > 0 /\ 10 * d < 8 * n
      \/ n # 0 /\ d = 0
  BY <1>3
<1> QED
  BY <1>4 DEF Status, Statuses

\* A commit keeps the types of what it writes.
LEMMA CommitTypes ==
    ASSUME NEW r \in Run, NEW t \in Table, Commit(r, t),
           description \in [Column -> {"none"} \union Sources],
           hand \in [Run -> [Table -> SUBSET Column]],
           wrote \in [Run -> SUBSET Column], askers \in [Column -> SUBSET Run]
    PROVE  /\ description' \in [Column -> {"none"} \union Sources]
           /\ wrote' \in [Run -> SUBSET Column]
           /\ askers' \in [Column -> SUBSET Run]
<1>1. Describe(hand[r][t], "llm_inference") \in [Column -> {"none"} \union Sources]
  BY DEF Describe, Sources
<1>2. [wrote EXCEPT ![r] = @ \union hand[r][t]] \in [Run -> SUBSET Column]
  OBVIOUS
<1>3. \A c \in Column : AskersOf(c) \in SUBSET Run
  BY DEF AskersOf
<1>4. askers' \in [Column -> SUBSET Run]
  BY <1>3 DEF Commit
<1> QED
  BY <1>1, <1>2, <1>4 DEF Commit

\* Every step keeps the types.
LEMMA TypeKept ==
    ASSUME TypeOK, TaskLifecycle, [Next]_vars
    PROVE  TypeOK'
<1> USE DEF TypeOK, TaskStates, Bare, Describe, Goto, Stages, Statuses,
           Sources, run, fanout, books, vars
<1>1. ASSUME NEW r \in Run, Begin(r)
      PROVE  TypeOK'
    BY <1>1 DEF Begin
<1>2. ASSUME NEW r \in Run, ReadComments(r)
      PROVE  TypeOK'
    BY <1>2 DEF ReadComments
<1>3. ASSUME NEW r \in Run, CopyComments(r)
      PROVE  TypeOK'
    BY <1>3 DEF CopyComments
<1>4. ASSUME NEW r \in Run, ReadNames(r)
      PROVE  TypeOK'
    BY <1>4 DEF ReadNames
<1>5. ASSUME NEW r \in Run, SplitNames(r)
      PROVE  TypeOK'
    BY <1>5 DEF SplitNames
<1>6. ASSUME NEW r \in Run, DetectPatterns(r)
      PROVE  TypeOK'
    BY <1>6 DEF DetectPatterns, Pass
<1>7. ASSUME NEW r \in Run, InferForeignKeys(r)
      PROVE  TypeOK'
    BY <1>7 DEF InferForeignKeys, Pass
<1>8. ASSUME NEW r \in Run, StageFails(r)
      PROVE  TypeOK'
    BY <1>8 DEF StageFails, After
<1>9. ASSUME NEW r \in Run, RunFails(r)
      PROVE  TypeOK'
    BY <1>9 DEF RunFails
<1>10. ASSUME NEW r \in Run, StartL2(r)
      PROVE  TypeOK'
    <2> HIDE DEF TypeOK
    <2>0. /\ task \in [Run -> [Table -> TaskStates]] /\ permits \in [Run -> Nat]
          /\ attempt \in [Run -> [Table -> 0..(MaxRetries + 1)]] /\ calls \in [Run -> Nat]
          /\ hand \in [Run -> [Table -> SUBSET Column]]
          /\ description \in [Column -> {"none"} \union Sources] /\ wrote \in [Run -> SUBSET Column]
      BY DEF TypeOK
    <2>1. task' \in [Run -> [Table -> TaskStates]]
      <3>1. [task EXCEPT ![r] = [t \in Table |-> "queued"]] \in [Run -> [Table -> TaskStates]]
        BY <2>0
      <3>2. task' = task \/ task' = [task EXCEPT ![r] = [t \in Table |-> "queued"]]
        BY <1>10 DEF StartL2
      <3>3. QED
        BY <2>0, <3>1, <3>2
    <2>2. QED
      <3>1. /\ UNCHANGED <<broken, log, verdict, seen, description, permits, expired, calls,
                           attempt, hand, reported, wrote, askers>>
            /\ pc' \in [Run -> {"idle"} \union Stages \union {"ended", "stuck"}]
        BY <1>10 DEF TypeOK, StartL2
      <3>2. QED
        BY <2>1, <3>1 DEF TypeOK
<1>11. ASSUME NEW r \in Run, Expire(r)
      PROVE  TypeOK'
    BY <1>11 DEF Expire
<1>12. ASSUME NEW r \in Run, Gather(r)
      PROVE  TypeOK'
    <2>1. Returned(r) \in SUBSET Table /\ {t \in Returned(r) : attempt[r][t] > 0} \in SUBSET Table
      BY DEF Returned
    <2>2. UNION {hand[r][t] : t \in Returned(r)} \in SUBSET Column
      BY <2>1
    <2>3. reported' \in [Run -> [described : Nat, calls : Nat]]
      BY <1>12, <2>1, <2>2, Counts DEF Gather
    <2>4. QED
      BY <1>12, <2>3 DEF Gather
<1>13. ASSUME NEW r \in Run, CountCoverage(r)
      PROVE  TypeOK'
    BY <1>13, StatusType DEF CountCoverage
<1>14. ASSUME NEW r \in Run, Settle(r)
      PROVE  TypeOK'
    BY <1>14 DEF Settle
<1>15. ASSUME NEW r \in Run, RefreshKnowledge(r)
      PROVE  TypeOK'
    BY <1>15 DEF RefreshKnowledge
<1>16. ASSUME NEW r \in Run, NEW t \in Table, EnterSemaphore(r, t)
      PROVE  TypeOK'
    <2> HIDE DEF TypeOK
    <2>0. /\ task \in [Run -> [Table -> TaskStates]] /\ permits \in [Run -> Nat]
          /\ attempt \in [Run -> [Table -> 0..(MaxRetries + 1)]] /\ calls \in [Run -> Nat]
          /\ hand \in [Run -> [Table -> SUBSET Column]]
          /\ description \in [Column -> {"none"} \union Sources] /\ wrote \in [Run -> SUBSET Column]
      BY DEF TypeOK
    <2>1. permits' \in [Run -> Nat]
      BY <2>0, <1>16 DEF EnterSemaphore
    <2>2. task' \in [Run -> [Table -> TaskStates]]
      <3>1. /\ [task EXCEPT ![r][t] = "returned"] \in [Run -> [Table -> TaskStates]]
            /\ [task EXCEPT ![r][t] = "reading"] \in [Run -> [Table -> TaskStates]]
        BY <2>0
      <3>2. \/ task' = [task EXCEPT ![r][t] = "returned"]
            \/ task' = [task EXCEPT ![r][t] = "reading"]
        BY <1>16 DEF EnterSemaphore, SetTask
      <3>3. QED
        BY <3>1, <3>2
    <2>3. QED
      BY <1>16, <2>1, <2>2 DEF TypeOK, EnterSemaphore
<1>17. ASSUME NEW r \in Run, NEW t \in Table, ReadColumns(r, t)
      PROVE  TypeOK'
    <2> HIDE DEF TypeOK
    <2>0. /\ task \in [Run -> [Table -> TaskStates]] /\ permits \in [Run -> Nat]
          /\ attempt \in [Run -> [Table -> 0..(MaxRetries + 1)]] /\ calls \in [Run -> Nat]
          /\ hand \in [Run -> [Table -> SUBSET Column]]
          /\ description \in [Column -> {"none"} \union Sources] /\ wrote \in [Run -> SUBSET Column]
      BY DEF TypeOK
    <2>1. permits' \in [Run -> Nat] /\ calls' \in [Run -> Nat]
      BY <2>0, <1>17 DEF ReadColumns, Leave
    <2>2. task' \in [Run -> [Table -> TaskStates]]
      <3>1. /\ [task EXCEPT ![r][t] = "returned"] \in [Run -> [Table -> TaskStates]]
            /\ [task EXCEPT ![r][t] = "calling"] \in [Run -> [Table -> TaskStates]]
        BY <2>0
      <3>2. \/ task' = [task EXCEPT ![r][t] = "returned"]
            \/ task' = [task EXCEPT ![r][t] = "calling"]
        BY <1>17 DEF ReadColumns, Leave, SetTask
      <3>3. QED
        BY <3>1, <3>2
    <2>3. attempt' \in [Run -> [Table -> 0..(MaxRetries + 1)]]
      <3>1. 1 \in 0..(MaxRetries + 1)
        BY SettingsAssumption
      <3>2. [attempt EXCEPT ![r][t] = 1] \in [Run -> [Table -> 0..(MaxRetries + 1)]]
        BY <2>0, <3>1
      <3>3. attempt' = attempt \/ attempt' = [attempt EXCEPT ![r][t] = 1]
        BY <1>17 DEF ReadColumns
      <3>4. QED
        BY <2>0, <3>2, <3>3
    <2>4. BareIn(t) \in SUBSET Column
      BY DEF BareIn
    <2>5. hand' \in [Run -> [Table -> SUBSET Column]]
      <3>1. [hand EXCEPT ![r][t] = BareIn(t)] \in [Run -> [Table -> SUBSET Column]]
        BY <2>0, <2>4
      <3>2. hand' = hand \/ hand' = [hand EXCEPT ![r][t] = BareIn(t)]
        BY <1>17 DEF ReadColumns
      <3>3. QED
        BY <2>0, <3>1, <3>2
    <2>6. QED
      BY <1>17, <2>1, <2>2, <2>3, <2>5 DEF TypeOK, ReadColumns
<1>18. ASSUME NEW r \in Run, NEW t \in Table, Answer(r, t)
      PROVE  TypeOK'
    BY <1>18 DEF Answer, SetTask
<1>19. ASSUME NEW r \in Run, NEW t \in Table, RateLimit(r, t)
      PROVE  TypeOK'
    BY <1>19 DEF RateLimit, SetTask
<1>20. ASSUME NEW r \in Run, NEW t \in Table, Retry(r, t)
      PROVE  TypeOK'
    <2>1. attempt[r][t] + 1 \in 0..(MaxRetries + 1)
      BY <1>20, SettingsAssumption DEF Retry, TaskLifecycle
    <2>2. task' \in [Run -> [Table -> TaskStates]]
      BY <1>20 DEF Retry, SetTask
    <2>3. attempt' \in [Run -> [Table -> 0..(MaxRetries + 1)]]
      BY <1>20, <2>1 DEF Retry
    <2>4. QED
      BY <1>20, <2>2, <2>3 DEF Retry
<1>21. ASSUME NEW r \in Run, NEW t \in Table, CallFails(r, t)
      PROVE  TypeOK'
    <2> HIDE DEF TypeOK
    <2>0. /\ task \in [Run -> [Table -> TaskStates]] /\ permits \in [Run -> Nat]
          /\ attempt \in [Run -> [Table -> 0..(MaxRetries + 1)]] /\ calls \in [Run -> Nat]
          /\ hand \in [Run -> [Table -> SUBSET Column]]
          /\ description \in [Column -> {"none"} \union Sources] /\ wrote \in [Run -> SUBSET Column]
      BY DEF TypeOK
    <2>1. permits' \in [Run -> Nat]
      BY <2>0, <1>21 DEF CallFails, Leave
    <2>2. task' \in [Run -> [Table -> TaskStates]]
      BY <2>0, <1>21 DEF CallFails, Leave, SetTask
    <2>3. hand' \in [Run -> [Table -> SUBSET Column]]
      BY <2>0, <1>21 DEF CallFails
    <2>4. description' \in [Column -> {"none"} \union Sources] /\ wrote' \in [Run -> SUBSET Column]
      <3>1. Describe(hand[r][t], "llm_inference") \in [Column -> {"none"} \union Sources]
        BY <2>0
      <3>2. [wrote EXCEPT ![r] = @ \union hand[r][t]] \in [Run -> SUBSET Column]
        BY <2>0
      <3>3. Commit(r, t) \/ UNCHANGED <<description, wrote>>
        BY <1>21 DEF CallFails, books
      <3>4. QED
        BY <2>0, <3>1, <3>2, <3>3 DEF Commit
    <2>5. QED
      BY <1>21, <2>1, <2>2, <2>3, <2>4 DEF TypeOK, CallFails
<1>22. ASSUME NEW r \in Run, NEW t \in Table, SaveAnswer(r, t)
      PROVE  TypeOK'
    <2> HIDE DEF TypeOK
    <2>0. /\ task \in [Run -> [Table -> TaskStates]] /\ permits \in [Run -> Nat]
          /\ attempt \in [Run -> [Table -> 0..(MaxRetries + 1)]] /\ calls \in [Run -> Nat]
          /\ hand \in [Run -> [Table -> SUBSET Column]]
          /\ description \in [Column -> {"none"} \union Sources] /\ wrote \in [Run -> SUBSET Column]
      BY DEF TypeOK
    <2>1. permits' \in [Run -> Nat]
      BY <2>0, <1>22 DEF SaveAnswer, Leave
    <2>2. task' \in [Run -> [Table -> TaskStates]]
      BY <2>0, <1>22 DEF SaveAnswer, Leave, SetTask
    <2>3. hand' \in [Run -> [Table -> SUBSET Column]]
      BY <2>0, <1>22 DEF SaveAnswer
    <2>4. /\ description' \in [Column -> {"none"} \union Sources] /\ wrote' \in [Run -> SUBSET Column]
          /\ askers' \in [Column -> SUBSET Run]
      <3>1. Commit(r, t) \/ UNCHANGED <<description, wrote, askers>>
        BY <1>22 DEF SaveAnswer, books
      <3>2. QED
        BY <2>0, <3>1, CommitTypes DEF TypeOK
    <2>5. QED
      BY <1>22, <2>1, <2>2, <2>3, <2>4 DEF TypeOK, SaveAnswer
<1>23. ASSUME NEW r \in Run, NEW t \in Table, TaskFails(r, t)
      PROVE  TypeOK'
    <2> HIDE DEF TypeOK
    <2>0. /\ task \in [Run -> [Table -> TaskStates]] /\ permits \in [Run -> Nat]
          /\ attempt \in [Run -> [Table -> 0..(MaxRetries + 1)]] /\ calls \in [Run -> Nat]
          /\ hand \in [Run -> [Table -> SUBSET Column]]
          /\ description \in [Column -> {"none"} \union Sources] /\ wrote \in [Run -> SUBSET Column]
      BY DEF TypeOK
    <2>1. permits' \in [Run -> Nat]
      BY <2>0, <1>23 DEF TaskFails, Leave
    <2>2. task' \in [Run -> [Table -> TaskStates]]
      BY <2>0, <1>23 DEF TaskFails, Leave, SetTask
    <2>3. hand' \in [Run -> [Table -> SUBSET Column]]
      BY <2>0, <1>23 DEF TaskFails
    <2>4. /\ description' \in [Column -> {"none"} \union Sources] /\ wrote' \in [Run -> SUBSET Column]
          /\ askers' \in [Column -> SUBSET Run]
      <3>1. Commit(r, t) \/ UNCHANGED <<description, wrote, askers>>
        BY <1>23 DEF TaskFails, books
      <3>2. QED
        BY <2>0, <3>1, CommitTypes DEF TypeOK
    <2>5. QED
      BY <1>23, <2>1, <2>2, <2>3, <2>4 DEF TypeOK, TaskFails
<1>24. CASE UNCHANGED vars
    BY <1>24
<1>25. QED
    BY <1>1, <1>2, <1>3, <1>4, <1>5, <1>6, <1>7, <1>8, <1>9, <1>10, <1>11,
       <1>12, <1>13, <1>14, <1>15, <1>16, <1>17, <1>18, <1>19, <1>20, <1>21,
       <1>22, <1>23, <1>24 DEF Next, RunStep, TableStep

\* A task works during its run's gather only: every step keeps it so.
LEMMA LifecycleKept ==
    ASSUME TypeOK, TaskLifecycle, [Next]_vars
    PROVE  TaskLifecycle'
<1> USE DEF TypeOK, TaskLifecycle, BeforeL2, TaskStates, Goto, Stages,
           Statuses, Sources, run, fanout, books, vars
<1>1. ASSUME NEW r \in Run, Begin(r)
      PROVE  TaskLifecycle'
    BY <1>1 DEF Begin
<1>2. ASSUME NEW r \in Run, ReadComments(r)
      PROVE  TaskLifecycle'
    BY <1>2 DEF ReadComments
<1>3. ASSUME NEW r \in Run, CopyComments(r)
      PROVE  TaskLifecycle'
    BY <1>3 DEF CopyComments
<1>4. ASSUME NEW r \in Run, ReadNames(r)
      PROVE  TaskLifecycle'
    BY <1>4 DEF ReadNames
<1>5. ASSUME NEW r \in Run, SplitNames(r)
      PROVE  TaskLifecycle'
    BY <1>5 DEF SplitNames
<1>6. ASSUME NEW r \in Run, DetectPatterns(r)
      PROVE  TaskLifecycle'
    BY <1>6 DEF DetectPatterns, Pass
<1>7. ASSUME NEW r \in Run, InferForeignKeys(r)
      PROVE  TaskLifecycle'
    BY <1>7 DEF InferForeignKeys, Pass
<1>8. ASSUME NEW r \in Run, StageFails(r)
      PROVE  TaskLifecycle'
    BY <1>8 DEF StageFails, After
<1>9. ASSUME NEW r \in Run, RunFails(r)
      PROVE  TaskLifecycle'
    BY <1>9 DEF RunFails
<1>10. ASSUME NEW r \in Run, StartL2(r)
      PROVE  TaskLifecycle'
    BY <1>10 DEF StartL2
<1>11. ASSUME NEW r \in Run, Expire(r)
      PROVE  TaskLifecycle'
    BY <1>11 DEF Expire
<1>12. ASSUME NEW r \in Run, Gather(r)
      PROVE  TaskLifecycle'
    BY <1>12 DEF Gather, Returned
<1>13. ASSUME NEW r \in Run, CountCoverage(r)
      PROVE  TaskLifecycle'
    BY <1>13 DEF CountCoverage, Status
<1>14. ASSUME NEW r \in Run, Settle(r)
      PROVE  TaskLifecycle'
    BY <1>14 DEF Settle
<1>15. ASSUME NEW r \in Run, RefreshKnowledge(r)
      PROVE  TaskLifecycle'
    BY <1>15 DEF RefreshKnowledge
<1>16. ASSUME NEW r \in Run, NEW t \in Table, EnterSemaphore(r, t)
      PROVE  TaskLifecycle'
    <2> HIDE DEF TypeOK
    <2>0. /\ task \in [Run -> [Table -> TaskStates]] /\ permits \in [Run -> Nat]
          /\ attempt \in [Run -> [Table -> 0..(MaxRetries + 1)]] /\ calls \in [Run -> Nat]
          /\ hand \in [Run -> [Table -> SUBSET Column]]
          /\ description \in [Column -> {"none"} \union Sources] /\ wrote \in [Run -> SUBSET Column]
      BY DEF TypeOK
    <2>1. task[r][t] = "queued" /\ pc[r] = "gather"
      BY <1>16 DEF EnterSemaphore
    <2>2. task' = [task EXCEPT ![r][t] = "returned"] \/ task' = [task EXCEPT ![r][t] = "reading"]
      BY <1>16 DEF EnterSemaphore, SetTask
    <2>3. UNCHANGED <<pc, attempt, hand>>
      BY <1>16 DEF EnterSemaphore
    <2>4. CASE task' = [task EXCEPT ![r][t] = "returned"]
      BY <2>0, <2>1, <2>3, <2>4
    <2>5. CASE task' = [task EXCEPT ![r][t] = "reading"]
      BY <2>0, <2>1, <2>3, <2>5
    <2>6. QED
      BY <2>2, <2>4, <2>5
<1>17. ASSUME NEW r \in Run, NEW t \in Table, ReadColumns(r, t)
      PROVE  TaskLifecycle'
    <2>1. task[r][t] = "reading" /\ pc[r] = "gather"
      BY <1>17 DEF ReadColumns
    <2>2. CASE /\ task' = [task EXCEPT ![r][t] = "returned"]
               /\ UNCHANGED <<pc, attempt, hand>>
      BY <2>1, <2>2
    <2>3. CASE /\ task' = [task EXCEPT ![r][t] = "calling"]
               /\ attempt' = [attempt EXCEPT ![r][t] = 1]
               /\ hand' = [hand EXCEPT ![r][t] = BareIn(t)]
               /\ UNCHANGED pc
      BY <2>1, <2>3
    <2>4. QED
      BY <1>17, <2>2, <2>3 DEF ReadColumns, Leave, SetTask
<1>18. ASSUME NEW r \in Run, NEW t \in Table, Answer(r, t)
      PROVE  TaskLifecycle'
    BY <1>18 DEF Answer, SetTask
<1>19. ASSUME NEW r \in Run, NEW t \in Table, RateLimit(r, t)
      PROVE  TaskLifecycle'
    BY <1>19 DEF RateLimit, SetTask
<1>20. ASSUME NEW r \in Run, NEW t \in Table, Retry(r, t)
      PROVE  TaskLifecycle'
    BY <1>20 DEF Retry, SetTask
<1>21. ASSUME NEW r \in Run, NEW t \in Table, CallFails(r, t)
      PROVE  TaskLifecycle'
    BY <1>21 DEF CallFails, Leave, SetTask
<1>22. ASSUME NEW r \in Run, NEW t \in Table, SaveAnswer(r, t)
      PROVE  TaskLifecycle'
    BY <1>22 DEF SaveAnswer, Leave, SetTask, Commit
<1>23. ASSUME NEW r \in Run, NEW t \in Table, TaskFails(r, t)
      PROVE  TaskLifecycle'
    BY <1>23 DEF TaskFails, Leave, SetTask, Commit
<1>24. CASE UNCHANGED vars
    BY <1>24
<1>25. QED
    BY <1>1, <1>2, <1>3, <1>4, <1>5, <1>6, <1>7, <1>8, <1>9, <1>10, <1>11,
       <1>12, <1>13, <1>14, <1>15, <1>16, <1>17, <1>18, <1>19, <1>20, <1>21,
       <1>22, <1>23, <1>24 DEF Next, RunStep, TableStep

\* Bare columns only become fewer, so what L0 and the splitting have covered
\* stays covered, and L2 is never asked about it.
LEMMA ShrinkKept ==
    ASSUME TypeOK, TaskLifecycle, BareColumnsShrink, [Next]_vars
    PROVE  BareColumnsShrink'
<1> USE DEF TypeOK, BareColumnsShrink, PastL0, PastSplit, Bare, Describe,
           Goto, Stages, Statuses, Sources, run, fanout, books, vars
<1>1. ASSUME NEW r \in Run, Begin(r)
      PROVE  BareColumnsShrink'
    BY <1>1 DEF Begin
<1>2. ASSUME NEW r \in Run, ReadComments(r)
      PROVE  BareColumnsShrink'
    BY <1>2 DEF ReadComments
<1>3. ASSUME NEW r \in Run, CopyComments(r)
      PROVE  BareColumnsShrink'
    BY <1>3 DEF CopyComments
<1>4. ASSUME NEW r \in Run, ReadNames(r)
      PROVE  BareColumnsShrink'
    BY <1>4 DEF ReadNames
<1>5. ASSUME NEW r \in Run, SplitNames(r)
      PROVE  BareColumnsShrink'
    BY <1>5 DEF SplitNames
<1>6. ASSUME NEW r \in Run, DetectPatterns(r)
      PROVE  BareColumnsShrink'
    BY <1>6 DEF DetectPatterns, Pass
<1>7. ASSUME NEW r \in Run, InferForeignKeys(r)
      PROVE  BareColumnsShrink'
    BY <1>7 DEF InferForeignKeys, Pass
<1>8. ASSUME NEW r \in Run, StageFails(r)
      PROVE  BareColumnsShrink'
    BY <1>8 DEF StageFails, After
<1>9. ASSUME NEW r \in Run, RunFails(r)
      PROVE  BareColumnsShrink'
    BY <1>9 DEF RunFails
<1>10. ASSUME NEW r \in Run, StartL2(r)
      PROVE  BareColumnsShrink'
    BY <1>10 DEF StartL2, fanout
<1>11. ASSUME NEW r \in Run, Expire(r)
      PROVE  BareColumnsShrink'
    BY <1>11 DEF Expire
<1>12. ASSUME NEW r \in Run, Gather(r)
      PROVE  BareColumnsShrink'
    BY <1>12 DEF Gather, Returned
<1>13. ASSUME NEW r \in Run, CountCoverage(r)
      PROVE  BareColumnsShrink'
    BY <1>13 DEF CountCoverage, Status
<1>14. ASSUME NEW r \in Run, Settle(r)
      PROVE  BareColumnsShrink'
    BY <1>14 DEF Settle
<1>15. ASSUME NEW r \in Run, RefreshKnowledge(r)
      PROVE  BareColumnsShrink'
    BY <1>15 DEF RefreshKnowledge
<1>16. ASSUME NEW r \in Run, NEW t \in Table, EnterSemaphore(r, t)
      PROVE  BareColumnsShrink'
    BY <1>16 DEF EnterSemaphore, SetTask
<1>17. ASSUME NEW r \in Run, NEW t \in Table, ReadColumns(r, t)
      PROVE  BareColumnsShrink'
    <2> HIDE DEF TypeOK
    <2>0. /\ task \in [Run -> [Table -> TaskStates]] /\ permits \in [Run -> Nat]
          /\ attempt \in [Run -> [Table -> 0..(MaxRetries + 1)]] /\ calls \in [Run -> Nat]
          /\ hand \in [Run -> [Table -> SUBSET Column]]
          /\ description \in [Column -> {"none"} \union Sources] /\ wrote \in [Run -> SUBSET Column]
      BY DEF TypeOK
    <2>1. pc[r] = "gather" /\ UNCHANGED <<pc, seen, description>>
      BY <1>17 DEF ReadColumns, TaskLifecycle
    <2>2. BareIn(t) \intersect (Commented \union Splittable) = {}
      BY <2>1 DEF BareIn
    <2>3. hand' = hand \/ hand' = [hand EXCEPT ![r][t] = BareIn(t)]
      BY <1>17 DEF ReadColumns
    <2>4. \A s \in Run, u \in Table : hand'[s][u] = hand[s][u] \/ hand'[s][u] = BareIn(t)
      <3>1. CASE hand' = hand
        BY <3>1
      <3>2. CASE hand' = [hand EXCEPT ![r][t] = BareIn(t)]
        BY <2>0, <3>2
      <3>3. QED
        BY <2>3, <3>1, <3>2
    <2>5. \A s \in Run, u \in Table : hand'[s][u] \intersect (Commented \union Splittable) = {}
      BY <2>2, <2>4
    <2>6. QED
      BY <2>1, <2>5
<1>18. ASSUME NEW r \in Run, NEW t \in Table, Answer(r, t)
      PROVE  BareColumnsShrink'
    BY <1>18 DEF Answer, SetTask
<1>19. ASSUME NEW r \in Run, NEW t \in Table, RateLimit(r, t)
      PROVE  BareColumnsShrink'
    BY <1>19 DEF RateLimit, SetTask
<1>20. ASSUME NEW r \in Run, NEW t \in Table, Retry(r, t)
      PROVE  BareColumnsShrink'
    BY <1>20 DEF Retry, SetTask
<1>21. ASSUME NEW r \in Run, NEW t \in Table, CallFails(r, t)
      PROVE  BareColumnsShrink'
    BY <1>21 DEF CallFails, Leave, SetTask
<1>22. ASSUME NEW r \in Run, NEW t \in Table, SaveAnswer(r, t)
      PROVE  BareColumnsShrink'
    BY <1>22 DEF SaveAnswer, Leave, SetTask, Commit
<1>23. ASSUME NEW r \in Run, NEW t \in Table, TaskFails(r, t)
      PROVE  BareColumnsShrink'
    BY <1>23 DEF TaskFails, Leave, SetTask, Commit
<1>24. CASE UNCHANGED vars
    BY <1>24
<1>25. QED
    BY <1>1, <1>2, <1>3, <1>4, <1>5, <1>6, <1>7, <1>8, <1>9, <1>10, <1>11,
       <1>12, <1>13, <1>14, <1>15, <1>16, <1>17, <1>18, <1>19, <1>20, <1>21,
       <1>22, <1>23, <1>24 DEF Next, RunStep, TableStep

\* Every description is written by the stage it belongs to.
LEMMA RanksKept ==
    ASSUME TypeOK, TaskLifecycle, BareColumnsShrink, SourcesRanked, [Next]_vars
    PROVE  SourcesRanked'
<1> USE DEF TypeOK, SourcesRanked, Bare, Describe, Goto, Stages, Statuses,
           Sources, run, fanout, books, vars
<1>1. ASSUME NEW r \in Run, Begin(r)
      PROVE  SourcesRanked'
    BY <1>1 DEF Begin
<1>2. ASSUME NEW r \in Run, ReadComments(r)
      PROVE  SourcesRanked'
    BY <1>2 DEF ReadComments
<1>3. ASSUME NEW r \in Run, CopyComments(r)
      PROVE  SourcesRanked'
    BY <1>3 DEF CopyComments, BareColumnsShrink
<1>4. ASSUME NEW r \in Run, ReadNames(r)
      PROVE  SourcesRanked'
    BY <1>4 DEF ReadNames
<1>5. ASSUME NEW r \in Run, SplitNames(r)
      PROVE  SourcesRanked'
    BY <1>5 DEF SplitNames, BareColumnsShrink
<1>6. ASSUME NEW r \in Run, DetectPatterns(r)
      PROVE  SourcesRanked'
    BY <1>6 DEF DetectPatterns, Pass
<1>7. ASSUME NEW r \in Run, InferForeignKeys(r)
      PROVE  SourcesRanked'
    BY <1>7 DEF InferForeignKeys, Pass
<1>8. ASSUME NEW r \in Run, StageFails(r)
      PROVE  SourcesRanked'
    BY <1>8 DEF StageFails, After
<1>9. ASSUME NEW r \in Run, RunFails(r)
      PROVE  SourcesRanked'
    BY <1>9 DEF RunFails
<1>10. ASSUME NEW r \in Run, StartL2(r)
      PROVE  SourcesRanked'
    BY <1>10 DEF StartL2
<1>11. ASSUME NEW r \in Run, Expire(r)
      PROVE  SourcesRanked'
    BY <1>11 DEF Expire
<1>12. ASSUME NEW r \in Run, Gather(r)
      PROVE  SourcesRanked'
    BY <1>12 DEF Gather, Returned
<1>13. ASSUME NEW r \in Run, CountCoverage(r)
      PROVE  SourcesRanked'
    BY <1>13 DEF CountCoverage, Status
<1>14. ASSUME NEW r \in Run, Settle(r)
      PROVE  SourcesRanked'
    BY <1>14 DEF Settle
<1>15. ASSUME NEW r \in Run, RefreshKnowledge(r)
      PROVE  SourcesRanked'
    BY <1>15 DEF RefreshKnowledge
<1>16. ASSUME NEW r \in Run, NEW t \in Table, EnterSemaphore(r, t)
      PROVE  SourcesRanked'
    BY <1>16 DEF EnterSemaphore, SetTask
<1>17. ASSUME NEW r \in Run, NEW t \in Table, ReadColumns(r, t)
      PROVE  SourcesRanked'
    BY <1>17 DEF ReadColumns, Leave, SetTask, BareIn, Capped
<1>18. ASSUME NEW r \in Run, NEW t \in Table, Answer(r, t)
      PROVE  SourcesRanked'
    BY <1>18 DEF Answer, SetTask
<1>19. ASSUME NEW r \in Run, NEW t \in Table, RateLimit(r, t)
      PROVE  SourcesRanked'
    BY <1>19 DEF RateLimit, SetTask
<1>20. ASSUME NEW r \in Run, NEW t \in Table, Retry(r, t)
      PROVE  SourcesRanked'
    BY <1>20 DEF Retry, SetTask
<1>21. ASSUME NEW r \in Run, NEW t \in Table, CallFails(r, t)
      PROVE  SourcesRanked'
    BY <1>21 DEF CallFails, Leave, SetTask
<1>22. ASSUME NEW r \in Run, NEW t \in Table, SaveAnswer(r, t)
      PROVE  SourcesRanked'
    BY <1>22 DEF SaveAnswer, Commit, BareColumnsShrink
<1>23. ASSUME NEW r \in Run, NEW t \in Table, TaskFails(r, t)
      PROVE  SourcesRanked'
    BY <1>23 DEF TaskFails, Commit, BareColumnsShrink
<1>24. CASE UNCHANGED vars
    BY <1>24
<1>25. QED
    BY <1>1, <1>2, <1>3, <1>4, <1>5, <1>6, <1>7, <1>8, <1>9, <1>10, <1>11,
       <1>12, <1>13, <1>14, <1>15, <1>16, <1>17, <1>18, <1>19, <1>20, <1>21,
       <1>22, <1>23, <1>24 DEF Next, RunStep, TableStep

\* Entering the semaphore adds one task to those inside.
LEMMA TaskEnters ==
    ASSUME TypeOK, NEW r \in Run, NEW t \in Table, task[r][t] = "queued",
           task' = [task EXCEPT ![r][t] = "reading"]
    PROVE  /\ Cardinality(Inside(r))' = Cardinality(Inside(r)) + 1
           /\ \A q \in Run \ {r} : Inside(q)' = Inside(q)
<1>1. Inside(r) \in SUBSET Table /\ t \notin Inside(r)
  BY DEF Inside
<1>2. task \in [Run -> [Table -> TaskStates]]
  BY DEF TypeOK
<1>3. Inside(r)' = Inside(r) \union {t}
  BY <1>2 DEF Inside
<1>4. \A q \in Run \ {r} : Inside(q)' = Inside(q)
  BY <1>2 DEF Inside
<1>5. IsFiniteSet(Inside(r))
  BY <1>1, Counts
<1>6. Cardinality(Inside(r) \union {t}) = Cardinality(Inside(r)) + 1
  BY <1>1, <1>5, FS_AddElement
<1> QED
  BY <1>3, <1>4, <1>6

\* A return or an exception takes one task away from those inside.
LEMMA TaskLeaves ==
    ASSUME TypeOK, NEW r \in Run, NEW t \in Table, t \in Inside(r),
           NEW how \in {"returned", "raised"},
           task' = [task EXCEPT ![r][t] = how]
    PROVE  /\ Cardinality(Inside(r))' = Cardinality(Inside(r)) - 1
           /\ \A q \in Run \ {r} : Inside(q)' = Inside(q)
<1>1. Inside(r) \in SUBSET Table
  BY DEF Inside
<1>2. task \in [Run -> [Table -> TaskStates]]
  BY DEF TypeOK
<1>3. Inside(r)' = Inside(r) \ {t}
  BY <1>2 DEF Inside
<1>4. \A q \in Run \ {r} : Inside(q)' = Inside(q)
  BY <1>2 DEF Inside
<1>5. IsFiniteSet(Inside(r))
  BY <1>1, Counts
<1>6. Cardinality(Inside(r) \ {t}) = Cardinality(Inside(r)) - 1
  BY <1>5, FS_RemoveElement
<1> QED
  BY <1>3, <1>4, <1>6

\* Leaving gives the permit back together with the place.
LEMMA PermitReturned ==
    ASSUME TypeOK, PermitsBalance, NEW r \in Run, NEW t \in Table, t \in Inside(r),
           NEW how \in {"returned", "raised"}, Leave(r, t, how)
    PROVE  PermitsBalance'
<1>1. /\ Cardinality(Inside(r))' = Cardinality(Inside(r)) - 1
      /\ \A q \in Run \ {r} : Inside(q)' = Inside(q)
  BY TaskLeaves DEF Leave, SetTask
<1>2. permits \in [Run -> Nat] /\ permits' = [permits EXCEPT ![r] = @ + 1]
  BY DEF TypeOK, Leave
<1>3. \A q \in Run : Inside(q) \in SUBSET Table
  BY DEF Inside
<1>4. \A q \in Run : Cardinality(Inside(q)) \in Nat
  BY <1>3, Counts
<1>5. permits'[r] + Cardinality(Inside(r))' = MaxConcurrency
  BY <1>1, <1>2, <1>4, SettingsAssumption DEF PermitsBalance
<1>6. \A q \in Run \ {r} : permits'[q] + Cardinality(Inside(q))' = MaxConcurrency
  BY <1>1, <1>2 DEF PermitsBalance
<1> QED
  BY <1>5, <1>6 DEF PermitsBalance

\* Permits and tasks inside keep adding up to max_concurrency.
LEMMA PermitsKept ==
    ASSUME TypeOK, TaskLifecycle, PermitsBalance, [Next]_vars
    PROVE  PermitsBalance'
<1>0. task \in [Run -> [Table -> TaskStates]]
  BY DEF TypeOK
<1>1. ASSUME UNCHANGED permits, \A q \in Run : Inside(q)' = Inside(q)
      PROVE  PermitsBalance'
  BY <1>1 DEF PermitsBalance
<1>2. ASSUME UNCHANGED <<task, permits>>
      PROVE  PermitsBalance'
  BY <1>1, <1>2 DEF Inside
<1>3. ASSUME NEW r \in Run, NEW t \in Table, EnterSemaphore(r, t)
      PROVE  PermitsBalance'
  <2>1. CASE task' = [task EXCEPT ![r][t] = "returned"] /\ UNCHANGED permits
    <3>1. \A q \in Run : Inside(q)' = Inside(q)
      BY <1>0, <1>3, <2>1 DEF EnterSemaphore, Inside
    <3>2. QED
      BY <1>1, <2>1, <3>1
  <2>2. CASE /\ task' = [task EXCEPT ![r][t] = "reading"]
             /\ permits' = [permits EXCEPT ![r] = @ - 1]
    <3>1. /\ Cardinality(Inside(r))' = Cardinality(Inside(r)) + 1
          /\ \A q \in Run \ {r} : Inside(q)' = Inside(q)
      BY <1>3, <2>2, TaskEnters DEF EnterSemaphore
    <3>2. permits \in [Run -> Nat] /\ permits[r] > 0
      BY <1>3 DEF TypeOK, EnterSemaphore
    <3>3. Inside(r) \in SUBSET Table
      BY DEF Inside
    <3>4. Cardinality(Inside(r)) \in Nat
      BY <3>3, Counts
    <3>5. permits'[r] + Cardinality(Inside(r))' = MaxConcurrency
      BY <2>2, <3>1, <3>2, <3>4 DEF PermitsBalance
    <3>6. \A q \in Run \ {r} : permits'[q] + Cardinality(Inside(q))' = MaxConcurrency
      BY <2>2, <3>1, <3>2 DEF PermitsBalance
    <3>7. QED
      BY <3>5, <3>6 DEF PermitsBalance
  <2>3. QED
    BY <1>3, <2>1, <2>2 DEF EnterSemaphore, SetTask
<1>4. ASSUME NEW r \in Run, NEW t \in Table, ReadColumns(r, t)
      PROVE  PermitsBalance'
  <2>1. CASE Leave(r, t, "returned")
    <3>1. t \in Inside(r)
      BY <1>4 DEF ReadColumns, Inside
    <3>2. QED
      BY <2>1, <3>1, PermitReturned
  <2>2. CASE SetTask(r, t, "calling") /\ UNCHANGED permits
    <3>1. \A q \in Run : Inside(q)' = Inside(q)
      BY <1>0, <1>4, <2>2 DEF ReadColumns, SetTask, Inside
    <3>2. QED
      BY <1>1, <2>2, <3>1
  <2>3. QED
    BY <1>4, <2>1, <2>2 DEF ReadColumns
<1>5. ASSUME NEW r \in Run, NEW t \in Table, Answer(r, t) \/ RateLimit(r, t) \/ Retry(r, t)
      PROVE  PermitsBalance'
  <2>1. \A q \in Run : Inside(q)' = Inside(q)
    BY <1>0, <1>5 DEF Answer, RateLimit, Retry, SetTask, Inside
  <2>2. QED
    BY <1>1, <1>5, <2>1 DEF Answer, RateLimit, Retry
<1>6. ASSUME NEW r \in Run, NEW t \in Table,
             CallFails(r, t) \/ SaveAnswer(r, t) \/ TaskFails(r, t)
      PROVE  PermitsBalance'
  <2>1. t \in Inside(r)
    BY <1>6 DEF CallFails, SaveAnswer, TaskFails, Inside
  <2>2. Leave(r, t, "returned") \/ Leave(r, t, "raised")
    BY <1>6 DEF CallFails, SaveAnswer, TaskFails
  <2>3. QED
    BY <2>1, <2>2, PermitReturned
<1>7. ASSUME NEW r \in Run, StartL2(r)
      PROVE  PermitsBalance'
  <2>1. CASE UNCHANGED task
    BY <1>2, <1>7, <2>1 DEF StartL2
  <2>2. CASE task' = [task EXCEPT ![r] = [t \in Table |-> "queued"]]
    <3>1. \A t \in Table : task[r][t] = "none"
      BY <1>7 DEF StartL2, TaskLifecycle, BeforeL2
    <3>2. \A q \in Run : Inside(q)' = Inside(q)
      BY <1>0, <2>2, <3>1 DEF Inside
    <3>3. QED
      BY <1>1, <1>7, <3>2 DEF StartL2
  <2>3. QED
    BY <1>7, <2>1, <2>2 DEF StartL2
<1>8. ASSUME NEW r \in Run,
             \/ Begin(r) \/ ReadComments(r) \/ CopyComments(r) \/ ReadNames(r) \/ SplitNames(r)
             \/ DetectPatterns(r) \/ InferForeignKeys(r) \/ StageFails(r) \/ RunFails(r)
             \/ Expire(r) \/ Gather(r) \/ CountCoverage(r) \/ Settle(r) \/ RefreshKnowledge(r)
      PROVE  PermitsBalance'
  BY <1>2, <1>8
     DEF Begin, ReadComments, CopyComments, ReadNames, SplitNames, DetectPatterns,
         InferForeignKeys, Pass, StageFails, RunFails, Expire, Gather, CountCoverage,
         Settle, RefreshKnowledge, fanout
<1>9. CASE UNCHANGED vars
  BY <1>2, <1>9 DEF vars, fanout
<1>10. QED
  BY <1>3, <1>4, <1>5, <1>6, <1>7, <1>8, <1>9 DEF Next, RunStep, TableStep

\* The counter counts the tables that were asked about, up to the cap.
LEMMA CapKept ==
    ASSUME TypeOK, TaskLifecycle, CapRespected, [Next]_vars
    PROVE  CapRespected'
<1>0. attempt \in [Run -> [Table -> 0..(MaxRetries + 1)]] /\ calls \in [Run -> Nat]
  BY DEF TypeOK
<1>1. ASSUME UNCHANGED calls, \A q \in Run : Called(q)' = Called(q)
      PROVE  CapRespected'
  BY <1>1 DEF CapRespected
<1>2. ASSUME UNCHANGED <<calls, attempt>>
      PROVE  CapRespected'
  BY <1>1, <1>2 DEF Called
<1>3. ASSUME NEW r \in Run, NEW t \in Table, ReadColumns(r, t)
      PROVE  CapRespected'
  <2>1. CASE UNCHANGED <<calls, attempt>>
    BY <1>2, <2>1
  <2>2. CASE /\ ~Capped(r)
             /\ calls' = [calls EXCEPT ![r] = @ + 1]
             /\ attempt' = [attempt EXCEPT ![r][t] = 1]
    <3>1. attempt[r][t] = 0
      BY <1>3 DEF ReadColumns, TaskLifecycle
    <3>2. Called(r) \in SUBSET Table /\ t \notin Called(r)
      BY <3>1 DEF Called
    <3>3. Called(r)' = Called(r) \union {t}
      BY <1>0, <2>2 DEF Called
    <3>4. IsFiniteSet(Called(r)) /\ Cardinality(Called(r)) \in Nat
      BY <3>2, Counts
    <3>5. Cardinality(Called(r) \union {t}) = Cardinality(Called(r)) + 1
      BY <3>2, <3>4, FS_AddElement
    <3>6. calls'[r] = Cardinality(Called(r)')
      BY <1>0, <2>2, <3>3, <3>5 DEF CapRespected
    <3>7. MaxCalls # 0 => calls'[r] <= MaxCalls
      BY <1>0, <2>2, SettingsAssumption DEF Capped
    <3>8. \A q \in Run \ {r} : Called(q)' = Called(q) /\ calls'[q] = calls[q]
      BY <1>0, <2>2 DEF Called
    <3>9. QED
      BY <3>6, <3>7, <3>8 DEF CapRespected
  <2>3. QED
    BY <1>3, <2>1, <2>2 DEF ReadColumns
<1>4. ASSUME NEW r \in Run, NEW t \in Table, Retry(r, t)
      PROVE  CapRespected'
  <2>1. attempt[r][t] > 0
    BY <1>4 DEF Retry, TaskLifecycle
  <2>2. \A q \in Run : Called(q)' = Called(q)
    BY <1>0, <1>4, <2>1, SettingsAssumption DEF Retry, Called
  <2>3. QED
    BY <1>1, <1>4, <2>2 DEF Retry
<1>5. ASSUME NEW r \in Run, NEW t \in Table,
             \/ EnterSemaphore(r, t) \/ Answer(r, t) \/ RateLimit(r, t)
             \/ CallFails(r, t) \/ SaveAnswer(r, t) \/ TaskFails(r, t)
      PROVE  CapRespected'
  BY <1>2, <1>5 DEF EnterSemaphore, Answer, RateLimit, CallFails, SaveAnswer, TaskFails
<1>6. ASSUME NEW r \in Run,
             \/ Begin(r) \/ ReadComments(r) \/ CopyComments(r) \/ ReadNames(r) \/ SplitNames(r)
             \/ DetectPatterns(r) \/ InferForeignKeys(r) \/ StageFails(r) \/ RunFails(r)
             \/ StartL2(r) \/ Expire(r) \/ Gather(r) \/ CountCoverage(r) \/ Settle(r)
             \/ RefreshKnowledge(r)
      PROVE  CapRespected'
  BY <1>2, <1>6
     DEF Begin, ReadComments, CopyComments, ReadNames, SplitNames, DetectPatterns,
         InferForeignKeys, Pass, StageFails, RunFails, StartL2, Expire, Gather,
         CountCoverage, Settle, RefreshKnowledge, fanout
<1>7. CASE UNCHANGED vars
  BY <1>2, <1>7 DEF vars, fanout
<1>8. QED
  BY <1>3, <1>4, <1>5, <1>6, <1>7 DEF Next, RunStep, TableStep

\* No step takes a description away.
LEMMA DescriptionsGrow ==
    ASSUME TypeOK, [Next]_vars
    PROVE  Bare' \subseteq Bare
<1>1. ASSUME NEW S, NEW source \in Sources, description' = Describe(S, source)
      PROVE  Bare' \subseteq Bare
  BY <1>1 DEF Bare, Describe, Sources
<1>2. ASSUME UNCHANGED description
      PROVE  Bare' \subseteq Bare
  BY <1>2 DEF Bare
<1>3. ASSUME NEW r \in Run, CopyComments(r) \/ SplitNames(r)
      PROVE  Bare' \subseteq Bare
  BY <1>1, <1>3 DEF CopyComments, SplitNames, Sources
<1>4. ASSUME NEW r \in Run, NEW t \in Table, SaveAnswer(r, t) \/ TaskFails(r, t)
      PROVE  Bare' \subseteq Bare
  <2>1. Commit(r, t) \/ UNCHANGED description
    BY <1>4 DEF SaveAnswer, TaskFails
  <2>2. QED
    BY <1>1, <1>2, <2>1 DEF Commit, Sources
<1>5. ASSUME NEW r \in Run, NEW t \in Table,
             \/ EnterSemaphore(r, t) \/ ReadColumns(r, t) \/ Answer(r, t)
             \/ RateLimit(r, t) \/ Retry(r, t) \/ CallFails(r, t)
      PROVE  Bare' \subseteq Bare
  BY <1>2, <1>5 DEF EnterSemaphore, ReadColumns, Answer, RateLimit, Retry, CallFails
<1>6. ASSUME NEW r \in Run,
             \/ Begin(r) \/ ReadComments(r) \/ ReadNames(r)
             \/ DetectPatterns(r) \/ InferForeignKeys(r) \/ StageFails(r) \/ RunFails(r)
             \/ StartL2(r) \/ Expire(r) \/ Gather(r) \/ CountCoverage(r) \/ Settle(r)
             \/ RefreshKnowledge(r)
      PROVE  Bare' \subseteq Bare
  BY <1>2, <1>6
     DEF Begin, ReadComments, ReadNames, DetectPatterns, InferForeignKeys, Pass, StageFails,
         RunFails, StartL2, Expire, Gather, CountCoverage, Settle, RefreshKnowledge
<1>7. CASE UNCHANGED vars
  BY <1>2, <1>7 DEF vars
<1>8. QED
  BY <1>3, <1>4, <1>5, <1>6, <1>7 DEF Next, RunStep, TableStep

\* What the verdict says is true when it is computed.
LEMMA StatusMeans ==
    /\ Status = "success" => 10 * Cardinality(Column \ Bare) >= 8 * Cardinality(Column)
    /\ Status = "partial_success" => Bare # Column
<1>1. Column \in SUBSET Column /\ Column \ Bare \in SUBSET Column
  OBVIOUS
<1>2. Cardinality(Column) \in Nat /\ Cardinality(Column \ Bare) \in Nat
  BY <1>1, Counts
<1> DEFINE n == Cardinality(Column)
           d == Cardinality(Column \ Bare)
<1>3. n \in Nat /\ d \in Nat
  BY <1>2
<1>4. Bare = Column => d = 0
  BY FS_EmptySet
<1>5. CASE n = 0
  BY <1>5 DEF Status
<1>6. CASE n # 0 /\ 10 * d >= 8 * n
  <2>1. d # 0
    BY <1>3, <1>6
  <2>2. Status = "success"
    BY <1>3, <1>6, <2>1 DEF Status
  <2>3. QED
    BY <1>6, <2>2
<1>7. CASE n # 0 /\ d > 0 /\ 10 * d < 8 * n
  <2>1. Status = "partial_success"
    BY <1>3, <1>7 DEF Status
  <2>2. QED
    BY <1>3, <1>4, <1>7, <2>1
<1>8. CASE n # 0 /\ d = 0
  <2>1. Status = "failed"
    BY <1>3, <1>8 DEF Status
  <2>2. QED
    BY <2>1
<1> QED
  BY <1>3, <1>5, <1>6, <1>7, <1>8

\* A verdict stays true while it waits for its commit and afterwards.
LEMMA VerdictsKept ==
    ASSUME TypeOK, PendingVerdictsHold, VerdictsHold, [Next]_vars
    PROVE  PendingVerdictsHold' /\ VerdictsHold'
<1> DEFINE Good == 10 * Cardinality(Column \ Bare) >= 8 * Cardinality(Column)
<1>1. Good => Good'
  <2>1. Column \in SUBSET Column /\ Column \ Bare \in SUBSET Column \ Bare'
        /\ Column \ Bare \in SUBSET Column /\ Column \ Bare' \in SUBSET Column
    BY DescriptionsGrow
  <2>2. /\ Cardinality(Column) \in Nat
        /\ Cardinality(Column \ Bare) \in Nat
        /\ Cardinality(Column \ Bare') \in Nat
        /\ IsFiniteSet(Column \ Bare')
    BY <2>1, Counts
  <2>3. Cardinality(Column \ Bare) <= Cardinality(Column \ Bare')
    BY <2>1, <2>2, FS_Subset
  <2>4. QED
    BY <2>2, <2>3
<1>2. Bare # Column => Bare' # Column
  BY DescriptionsGrow DEF Bare
<1>3. /\ pc \in [Run -> {"idle"} \union Stages \union {"ended", "stuck"}]
      /\ verdict \in [Run -> {"none"} \union Statuses]
      /\ log \in [Run -> {"none", "running"} \union Statuses]
  BY DEF TypeOK
<1>4. /\ \A r \in Run : pc[r] = "settle" =>
            /\ verdict[r] \in Statuses
            /\ verdict[r] = "success" => Good
            /\ verdict[r] = "partial_success" => Bare # Column
      /\ \A r \in Run : /\ log[r] = "success" => Good
                        /\ log[r] = "partial_success" => Bare # Column
  BY DEF PendingVerdictsHold, VerdictsHold
<1>5. /\ Status \in Statuses
      /\ Status = "success" => Good
      /\ Status = "partial_success" => Bare # Column
  BY StatusType, StatusMeans
<1> DEFINE Kept ==
        /\ \A r \in Run : pc'[r] = "settle" =>
              /\ verdict'[r] \in Statuses
              /\ verdict'[r] = "success" => Good'
              /\ verdict'[r] = "partial_success" => Bare' # Column
        /\ \A r \in Run : /\ log'[r] = "success" => Good'
                          /\ log'[r] = "partial_success" => Bare' # Column
<1>6. Kept => PendingVerdictsHold' /\ VerdictsHold'
  BY DEF PendingVerdictsHold, VerdictsHold
<1> HIDE DEF Good
<1>7. ASSUME UNCHANGED <<verdict, log>>,
             \A q \in Run : pc'[q] = "settle" => pc[q] = "settle"
      PROVE  Kept
  BY <1>1, <1>2, <1>4, <1>7
<1>8. ASSUME NEW r \in Run, CountCoverage(r)
      PROVE  Kept
  BY <1>1, <1>2, <1>3, <1>4, <1>5, <1>8 DEF CountCoverage, Goto
<1>9. ASSUME NEW r \in Run, Settle(r)
      PROVE  Kept
  BY <1>1, <1>2, <1>3, <1>4, <1>9 DEF Settle, Goto
<1>10. ASSUME NEW r \in Run, RunFails(r)
      PROVE  Kept
  BY <1>1, <1>2, <1>3, <1>4, <1>10 DEF RunFails, Goto
<1>11. ASSUME NEW r \in Run, Begin(r)
      PROVE  Kept
  BY <1>1, <1>2, <1>3, <1>4, <1>11 DEF Begin, Goto
<1>12. ASSUME NEW r \in Run,
             \/ ReadComments(r) \/ CopyComments(r) \/ ReadNames(r) \/ SplitNames(r)
             \/ DetectPatterns(r) \/ InferForeignKeys(r) \/ StageFails(r)
             \/ StartL2(r) \/ Expire(r) \/ Gather(r) \/ RefreshKnowledge(r)
      PROVE  Kept
  <2>1. UNCHANGED <<verdict, log>>
    BY <1>12 DEF ReadComments, CopyComments, ReadNames, SplitNames, DetectPatterns,
                 InferForeignKeys, Pass, StageFails, StartL2, Expire, Gather,
                 RefreshKnowledge, run
  <2>2. \A q \in Run : pc'[q] = "settle" => pc[q] = "settle"
    BY <1>3, <1>12
       DEF ReadComments, CopyComments, ReadNames, SplitNames, DetectPatterns,
           InferForeignKeys, Pass, StageFails, After, StartL2, Expire, Gather,
           RefreshKnowledge, Goto, run
  <2>3. QED
    BY <1>7, <2>1, <2>2
<1>13. ASSUME NEW r \in Run, NEW t \in Table, TableStep(r, t)
      PROVE  Kept
  <2>1. UNCHANGED run
    BY <1>13 DEF TableStep, EnterSemaphore, ReadColumns, Answer, RateLimit, Retry, CallFails,
                 SaveAnswer, TaskFails
  <2>2. QED
    BY <1>7, <2>1 DEF run
<1>14. ASSUME UNCHANGED vars
       PROVE  Kept
  BY <1>7, <1>14 DEF vars, run
<1>15. Kept
  BY <1>8, <1>9, <1>10, <1>11, <1>12, <1>13, <1>14 DEF Next, RunStep
<1>16. QED
  BY <1>6, <1>15

\* A step of a task, reduced to what it does to the books of its run.
LEMMA TaskStepKeepsBooks ==
    ASSUME TypeOK, TypeOK', CommitsAccounted, BooksMatch,
           NEW r \in Run, pc[r] = "gather", UNCHANGED <<pc, reported>>,
           \A q \in Run \ {r} : /\ task'[q] = task[q] /\ hand'[q] = hand[q]
                                 /\ wrote'[q] = wrote[q] /\ calls'[q] = calls[q],
           calls[r] <= calls'[r], wrote[r] \subseteq wrote'[r],
           \A t \in Table : task'[r][t] = "returned" => hand'[r][t] \subseteq wrote'[r],
           \A c \in wrote'[r] : \E t \in Table :
              task'[r][t] = "raised" \/ (task'[r][t] = "returned" /\ c \in hand'[r][t])
    PROVE  CommitsAccounted' /\ BooksMatch'
<1>1. /\ wrote[r] \in SUBSET wrote'[r] /\ wrote'[r] \in SUBSET Column /\ wrote[r] \in SUBSET Column
      /\ reported[r] \in [described : Nat, calls : Nat]
      /\ calls[r] \in Nat /\ calls'[r] \in Nat
  BY DEF TypeOK
<1>2. /\ Cardinality(wrote[r]) <= Cardinality(wrote'[r])
      /\ Cardinality(wrote[r]) \in Nat /\ Cardinality(wrote'[r]) \in Nat
  BY <1>1, Counts, FS_Subset
<1>3. reported[r].described <= Cardinality(wrote'[r]) /\ reported[r].calls <= calls'[r]
  <2>1. reported[r].described <= Cardinality(wrote[r]) /\ reported[r].calls <= calls[r]
    BY DEF BooksMatch
  <2>2. reported[r].described \in Nat /\ reported[r].calls \in Nat
    BY <1>1
  <2>3. QED
    BY <1>1, <1>2, <2>1, <2>2
<1>4. BooksMatch'
  BY <1>3 DEF BooksMatch
<1>5. CommitsAccounted'
  BY DEF CommitsAccounted, Returned, BeforeL2
<1> QED
  BY <1>4, <1>5

\* A step outside the fan-out that leaves the books as they are.
LEMMA StageStepKeepsBooks ==
    ASSUME CommitsAccounted, BooksMatch, UNCHANGED <<task, calls, hand, reported, wrote>>,
           \A q \in Run :
              /\ pc'[q] \in BeforeL2 => pc[q] \in BeforeL2
              /\ pc'[q] = "coverage" => pc[q] = "coverage"
              /\ pc'[q] \in {"settle", "knowledge"} => pc[q] \in {"coverage", "settle", "knowledge"}
    PROVE  CommitsAccounted' /\ BooksMatch'
  BY DEF CommitsAccounted, BooksMatch, Returned

\* A run that skips L2 has nothing to account for.
LEMMA NoTaskNoBooks ==
    ASSUME TaskLifecycle, CommitsAccounted, CapRespected, NEW r \in Run, pc[r] \in BeforeL2,
           \A t \in Table : task[r][t] = "returned"
    PROVE  reported[r] = [described |-> Cardinality(wrote[r]), calls |-> calls[r]]
<1>1. Table = {}
  BY DEF TaskLifecycle
<1>2. wrote[r] = {} /\ Called(r) = {}
  BY <1>1 DEF CommitsAccounted, Called
<1>3. reported[r] = [described |-> 0, calls |-> 0]
  BY DEF CommitsAccounted
<1> QED
  BY <1>2, <1>3, FS_EmptySet DEF CapRespected

\* Commits belong to tasks, and the reported numbers to commits and calls.
LEMMA BooksKept ==
    ASSUME TypeOK, TypeOK', TaskLifecycle, CapRespected, CommitsAccounted, BooksMatch, [Next]_vars
    PROVE  CommitsAccounted' /\ BooksMatch'
<1>0. /\ pc \in [Run -> {"idle"} \union Stages \union {"ended", "stuck"}]
      /\ task \in [Run -> [Table -> TaskStates]]
      /\ calls \in [Run -> Nat]
      /\ hand \in [Run -> [Table -> SUBSET Column]]
      /\ wrote \in [Run -> SUBSET Column]
      /\ reported \in [Run -> [described : Nat, calls : Nat]]
  BY DEF TypeOK
<1>1. ASSUME NEW r \in Run,
             \/ Begin(r) \/ ReadComments(r) \/ CopyComments(r) \/ ReadNames(r) \/ SplitNames(r)
             \/ DetectPatterns(r) \/ InferForeignKeys(r) \/ RunFails(r)
             \/ Expire(r) \/ CountCoverage(r) \/ Settle(r) \/ RefreshKnowledge(r)
      PROVE  CommitsAccounted' /\ BooksMatch'
  <2>1. UNCHANGED <<task, calls, hand, reported, wrote>>
    BY <1>1 DEF Begin, ReadComments, CopyComments, ReadNames, SplitNames, DetectPatterns,
         InferForeignKeys, Pass, RunFails, Expire, CountCoverage, Settle,
         RefreshKnowledge, fanout, books
  <2>2. \A q \in Run :
              /\ pc'[q] \in BeforeL2 => pc[q] \in BeforeL2
              /\ pc'[q] = "coverage" => pc[q] = "coverage"
              /\ pc'[q] \in {"settle", "knowledge"} => pc[q] \in {"coverage", "settle", "knowledge"}
    BY <1>0, <1>1 DEF Begin, ReadComments, CopyComments, ReadNames, SplitNames, DetectPatterns,
         InferForeignKeys, Pass, RunFails, Expire, CountCoverage, Settle,
         RefreshKnowledge, Goto, BeforeL2, run
  <2>3. QED
    BY <2>1, <2>2, StageStepKeepsBooks
<1>2. ASSUME NEW r \in Run, StartL2(r), pc' = [pc EXCEPT ![r] = "gather"]
      PROVE  CommitsAccounted' /\ BooksMatch'
  <2>1. UNCHANGED <<calls, hand, reported, wrote>>
    BY <1>2 DEF StartL2, books
  <2>2. task' = [task EXCEPT ![r] = [t \in Table |-> "queued"]]
    BY <1>0, <1>2 DEF StartL2, Goto
  <2>3. /\ \A c \in wrote[r] : \E u \in Table :
              task[r][u] = "raised" \/ (task[r][u] = "returned" /\ c \in hand[r][u])
        /\ \A u \in Table : task[r][u] = "none"
    BY <1>2 DEF CommitsAccounted, StartL2, TaskLifecycle, BeforeL2
  <2>4. wrote[r] = {}
    BY <2>3
  <2>5. CommitsAccounted'
    BY <1>0, <1>2, <2>1, <2>2, <2>4 DEF CommitsAccounted, Returned, BeforeL2
  <2>6. BooksMatch'
    BY <1>0, <1>2, <2>1, <2>2 DEF BooksMatch
  <2>7. QED
    BY <2>5, <2>6
<1>3. ASSUME NEW r \in Run, StageFails(r) \/ (StartL2(r) /\ pc' = [pc EXCEPT ![r] = "coverage"])
      PROVE  CommitsAccounted' /\ BooksMatch'
  <2>1. pc[r] \in BeforeL2 /\ UNCHANGED <<task, calls, hand, reported, wrote>>
    BY <1>0, <1>3 DEF StageFails, StartL2, Goto, BeforeL2, fanout, books
  <2>2. pc' = [pc EXCEPT ![r] = "fk"] \/ pc' = [pc EXCEPT ![r] = "l2"] \/ pc' = [pc EXCEPT ![r] = "coverage"]
    BY <1>3 DEF StageFails, After, Goto
  <2>3. (\A t \in Table : task[r][t] = "returned")
           => reported[r] = [described |-> Cardinality(wrote[r]), calls |-> calls[r]]
    BY <2>1, NoTaskNoBooks
  <2>4. CommitsAccounted'
    BY <1>0, <2>1, <2>2, <2>3 DEF CommitsAccounted, Returned, BeforeL2
  <2>5. BooksMatch'
    BY <1>0, <2>1, <2>2 DEF BooksMatch
  <2>6. QED
    BY <2>4, <2>5
<1>4. ASSUME NEW r \in Run, Gather(r)
      PROVE  CommitsAccounted' /\ BooksMatch'
  <2> DEFINE described == UNION {hand[r][t] : t \in Returned(r)}
             asked == {t \in Returned(r) : attempt[r][t] > 0}
  <2>1. /\ reported' = [reported EXCEPT ![r] =
                 [described |-> Cardinality(described), calls |-> Cardinality(asked)]]
        /\ pc' = [pc EXCEPT ![r] = "coverage"]
        /\ UNCHANGED <<task, calls, hand, wrote>>
        /\ \A t \in Table : task[r][t] \in {"returned", "raised"}
    BY <1>4 DEF Gather, Goto, fanout
  <2>0. /\ \A u \in Table : task[r][u] = "returned" => hand[r][u] \subseteq wrote[r]
        /\ \A c \in wrote[r] : \E u \in Table :
              task[r][u] = "raised" \/ (task[r][u] = "returned" /\ c \in hand[r][u])
    BY DEF CommitsAccounted, Returned
  <2>2. described \in SUBSET wrote[r] /\ asked \in SUBSET Called(r)
    BY <2>0 DEF Called, Returned
  <2>3. wrote[r] \in SUBSET Column /\ Called(r) \in SUBSET Table
    BY <1>0 DEF Called
  <2>4. IsFiniteSet(wrote[r]) /\ IsFiniteSet(Called(r))
    BY <2>3, Counts
  <2>5. Cardinality(described) <= Cardinality(wrote[r]) /\ Cardinality(asked) <= calls[r]
    BY <2>2, <2>4, FS_Subset DEF CapRespected
  <2>6. ASSUME \A t \in Table : task[r][t] = "returned"
        PROVE  described = wrote[r] /\ asked = Called(r)
    <3>1. Returned(r) = Table
      BY <2>6 DEF Returned
    <3>2. wrote[r] \subseteq described
      BY <2>0, <2>6, <3>1
    <3>3. QED
      BY <2>2, <3>1, <3>2 DEF Called
  <2>7. (\A t \in Table : task[r][t] = "returned")
           => Cardinality(described) = Cardinality(wrote[r]) /\ Cardinality(asked) = calls[r]
    BY <2>6 DEF CapRespected
  <2> HIDE DEF described, asked
  <2>8. CommitsAccounted'
    <3>1. \A q \in Run \ {r} : pc'[q] = pc[q] /\ reported'[q] = reported[q]
      BY <1>0, <2>1
    <3>2. /\ pc'[r] = "coverage"
          /\ reported'[r] = [described |-> Cardinality(described), calls |-> Cardinality(asked)]
      BY <1>0, <2>1
    <3>3. \A q \in Run : pc'[q] \in BeforeL2 => reported'[q] = [described |-> 0, calls |-> 0]
      BY <3>1, <3>2 DEF CommitsAccounted, BeforeL2
    <3>4. \A q \in Run : /\ \A t \in Table : task'[q][t] = "returned" => hand'[q][t] \subseteq wrote'[q]
                         /\ \A c \in wrote'[q] : \E t \in Table :
                               \/ task'[q][t] = "raised"
                               \/ task'[q][t] = "returned" /\ c \in hand'[q][t]
      <4>1. \A q \in Run : /\ \A t \in Table : task[q][t] = "returned" => hand[q][t] \subseteq wrote[q]
                           /\ \A c \in wrote[q] : \E t \in Table :
                                 \/ task[q][t] = "raised"
                                 \/ task[q][t] = "returned" /\ c \in hand[q][t]
        BY DEF CommitsAccounted, Returned
      <4>2. QED
        BY ONLY <2>1, <4>1
    <3>5. \A q \in Run : (pc'[q] = "coverage" /\ \A t \in Table : task'[q][t] = "returned")
              => reported'[q] = [described |-> Cardinality(wrote'[q]), calls |-> calls'[q]]
      BY <2>1, <2>7, <3>1, <3>2 DEF CommitsAccounted
    <3>6. QED
      BY <3>3, <3>4, <3>5 DEF CommitsAccounted, Returned
  <2>9. BooksMatch'
    BY <1>0, <2>1, <2>5 DEF BooksMatch
  <2>10. QED
    BY <2>8, <2>9
<1>5. ASSUME NEW r \in Run, NEW t \in Table, TableStep(r, t)
      PROVE  CommitsAccounted' /\ BooksMatch'
  <2> DEFINE Accounted ==
        /\ UNCHANGED <<pc, reported>>
        /\ \A q \in Run \ {r} : /\ task'[q] = task[q] /\ hand'[q] = hand[q]
                                 /\ wrote'[q] = wrote[q] /\ calls'[q] = calls[q]
        /\ calls[r] <= calls'[r] /\ wrote[r] \subseteq wrote'[r]
        /\ \A u \in Table : task'[r][u] = "returned" => hand'[r][u] \subseteq wrote'[r]
        /\ \A c \in wrote'[r] : \E u \in Table :
              task'[r][u] = "raised" \/ (task'[r][u] = "returned" /\ c \in hand'[r][u])
  <2>0. /\ \A u \in Table : task[r][u] = "returned" => hand[r][u] \subseteq wrote[r]
        /\ \A c \in wrote[r] : \E u \in Table :
              task[r][u] = "raised" \/ (task[r][u] = "returned" /\ c \in hand[r][u])
    BY DEF CommitsAccounted, Returned
  <2>1. pc[r] = "gather"
    BY <1>5 DEF TableStep, EnterSemaphore, ReadColumns, Answer, RateLimit, Retry, CallFails,
                SaveAnswer, TaskFails, TaskLifecycle
  <2>2. task[r][t] \in {"queued", "reading"} => hand[r][t] = {}
    BY DEF TaskLifecycle
  <2>3. ASSUME EnterSemaphore(r, t)
        PROVE  Accounted
    <3>1. /\ UNCHANGED <<pc, reported, hand, wrote, calls>> /\ task[r][t] = "queued"
          /\ \E to \in {"returned", "reading"} : task' = [task EXCEPT ![r][t] = to]
      BY <2>3 DEF EnterSemaphore, SetTask, run, books
    <3>2. QED
      BY <1>0, <2>0, <2>2, <3>1
  <2>4. ASSUME ReadColumns(r, t)
        PROVE  Accounted
    <3>1. UNCHANGED <<pc, reported, wrote>> /\ task[r][t] = "reading"
      BY <2>4 DEF ReadColumns, run, books
    <3>2. CASE task' = [task EXCEPT ![r][t] = "returned"] /\ UNCHANGED <<calls, hand>>
      BY <1>0, <2>0, <2>2, <3>1, <3>2
    <3>3. CASE /\ task' = [task EXCEPT ![r][t] = "calling"]
               /\ calls' = [calls EXCEPT ![r] = @ + 1]
               /\ hand' = [hand EXCEPT ![r][t] = BareIn(t)]
      <4>1. /\ task'[r][t] = "calling" /\ wrote' = wrote
            /\ \A u \in Table \ {t} : task'[r][u] = task[r][u] /\ hand'[r][u] = hand[r][u]
            /\ \A q \in Run \ {r} : /\ task'[q] = task[q] /\ hand'[q] = hand[q]
                                     /\ wrote'[q] = wrote[q] /\ calls'[q] = calls[q]
            /\ calls[r] <= calls'[r]
        BY <1>0, <3>1, <3>3
      <4>2. \A u \in Table : task'[r][u] = "returned" => hand'[r][u] \subseteq wrote'[r]
        BY <2>0, <4>1
      <4>3. \A c \in wrote'[r] : \E u \in Table :
                task'[r][u] = "raised" \/ (task'[r][u] = "returned" /\ c \in hand'[r][u])
        BY <2>0, <3>1, <4>1
      <4>4. QED
        BY <3>1, <4>1, <4>2, <4>3
    <3>4. QED
      BY <2>4, <3>2, <3>3 DEF ReadColumns, Leave, SetTask
  <2>5. ASSUME Answer(r, t)
        PROVE  Accounted
    <3>1. /\ UNCHANGED <<pc, reported, wrote, calls>> /\ task[r][t] = "calling"
          /\ task' = [task EXCEPT ![r][t] = "saving"]
          /\ \E A \in SUBSET hand[r][t] : hand' = [hand EXCEPT ![r][t] = A]
      BY <2>5 DEF Answer, SetTask, run, books
    <3>2. /\ task'[r][t] = "saving" /\ wrote' = wrote
          /\ \A u \in Table \ {t} : task'[r][u] = task[r][u] /\ hand'[r][u] = hand[r][u]
          /\ \A q \in Run \ {r} : /\ task'[q] = task[q] /\ hand'[q] = hand[q]
                                   /\ wrote'[q] = wrote[q] /\ calls'[q] = calls[q]
          /\ calls[r] <= calls'[r]
      BY <1>0, <3>1
    <3>3. QED
      BY <2>0, <3>1, <3>2
  <2>6. ASSUME RateLimit(r, t) \/ Retry(r, t)
        PROVE  Accounted
    <3>1. /\ UNCHANGED <<pc, reported, wrote, calls, hand>> /\ task[r][t] \in {"calling", "backoff"}
          /\ \E to \in {"calling", "backoff"} : task' = [task EXCEPT ![r][t] = to]
      BY <2>6 DEF RateLimit, Retry, SetTask, run, books
    <3>2. /\ task'[r][t] \in {"calling", "backoff"} /\ wrote' = wrote
          /\ \A u \in Table \ {t} : task'[r][u] = task[r][u] /\ hand'[r][u] = hand[r][u]
          /\ \A q \in Run \ {r} : /\ task'[q] = task[q] /\ hand'[q] = hand[q]
                                   /\ wrote'[q] = wrote[q] /\ calls'[q] = calls[q]
          /\ calls[r] <= calls'[r]
      BY <1>0, <3>1
    <3>3. QED
      BY <2>0, <3>1, <3>2
  <2>7. ASSUME CallFails(r, t)
        PROVE  Accounted
    <3>1. /\ UNCHANGED <<pc, reported, wrote, calls>> /\ task[r][t] = "calling"
          /\ task' = [task EXCEPT ![r][t] = "returned"]
          /\ hand' = [hand EXCEPT ![r][t] = {}]
      BY <2>7 DEF CallFails, Leave, SetTask, run, books
    <3>2. /\ task'[r][t] = "returned" /\ hand'[r][t] = {} /\ wrote' = wrote
          /\ \A u \in Table \ {t} : task'[r][u] = task[r][u] /\ hand'[r][u] = hand[r][u]
          /\ \A q \in Run \ {r} : /\ task'[q] = task[q] /\ hand'[q] = hand[q]
                                   /\ wrote'[q] = wrote[q] /\ calls'[q] = calls[q]
          /\ calls[r] <= calls'[r]
      BY <1>0, <3>1
    <3>3. QED
      BY <2>0, <3>1, <3>2
  <2>8. ASSUME SaveAnswer(r, t)
        PROVE  Accounted
    <3>1. /\ UNCHANGED <<pc, reported, hand, calls>> /\ task[r][t] = "saving"
          /\ task' = [task EXCEPT ![r][t] = "returned"]
          /\ wrote' = [wrote EXCEPT ![r] = @ \union hand[r][t]]
      BY <2>8 DEF SaveAnswer, Leave, SetTask, Commit, run
    <3>2. /\ task'[r][t] = "returned" /\ hand'[r][t] = hand[r][t]
          /\ wrote'[r] = wrote[r] \union hand[r][t]
          /\ \A u \in Table \ {t} : task'[r][u] = task[r][u] /\ hand'[r][u] = hand[r][u]
          /\ \A q \in Run \ {r} : /\ task'[q] = task[q] /\ hand'[q] = hand[q]
                                   /\ wrote'[q] = wrote[q] /\ calls'[q] = calls[q]
          /\ calls[r] <= calls'[r]
      BY <1>0, <3>1
    <3>3. QED
      BY <2>0, <3>1, <3>2
  <2>9. ASSUME TaskFails(r, t)
        PROVE  Accounted
    <3>1. /\ UNCHANGED <<pc, reported, calls>> /\ task[r][t] \in {"reading", "saving"}
          /\ task' = [task EXCEPT ![r][t] = "raised"]
          /\ hand' = [hand EXCEPT ![r][t] = {}]
          /\ wrote' = wrote \/ wrote' = [wrote EXCEPT ![r] = @ \union hand[r][t]]
      BY <2>9 DEF TaskFails, Leave, SetTask, Commit, run
    <3>2. /\ task'[r][t] = "raised"
          /\ \A u \in Table \ {t} : task'[r][u] = task[r][u] /\ hand'[r][u] = hand[r][u]
          /\ \A q \in Run \ {r} : /\ task'[q] = task[q] /\ hand'[q] = hand[q]
                                   /\ wrote'[q] = wrote[q] /\ calls'[q] = calls[q]
          /\ wrote[r] \subseteq wrote'[r] /\ calls[r] <= calls'[r]
      BY <1>0, <3>1
    <3>3. QED
      BY <2>0, <3>1, <3>2
  <2>10. Accounted
    BY <1>5, <2>3, <2>4, <2>5, <2>6, <2>7, <2>8, <2>9 DEF TableStep
  <2>11. QED
    BY <2>1, <2>10, TaskStepKeepsBooks
<1>6. CASE UNCHANGED vars
  <2>1. UNCHANGED <<pc, task, calls, hand, reported, wrote>>
    BY <1>6 DEF vars, run, fanout, books
  <2>2. QED
    BY <2>1, StageStepKeepsBooks
<1>7. QED
  BY <1>1, <1>2, <1>3, <1>4, <1>5, <1>6 DEF Next, RunStep, StartL2, Goto

\* The runs that go on asking about a column keep the right to write it: a step
\* either leaves its text alone or is the first to give it one.
LEMMA RivalsKept ==
    ASSUME TypeOK, TaskLifecycle, BareColumnsShrink, HandsAgree, OnlyRivalsRewrite, [Next]_vars
    PROVE  HandsAgree' /\ OnlyRivalsRewrite'
<1> DEFINE Texts == <<description, wrote, askers>>
<1>1. ASSUME UNCHANGED Texts,
             \A q \in Run, u \in Table : Asking(q, u)' =>
                 \A c \in hand'[q][u] : description[c] = "none" \/ (Asking(q, u) /\ c \in hand[q][u])
      PROVE  HandsAgree' /\ OnlyRivalsRewrite'
  BY <1>1 DEF HandsAgree, OnlyRivalsRewrite
<1>2. ASSUME NEW S \in SUBSET (Commented \union Splittable), NEW source \in Sources,
             description' = Describe(S, source), UNCHANGED <<task, hand, wrote, askers>>
      PROVE  HandsAgree' /\ OnlyRivalsRewrite'
  <2>1. \A q \in Run, u \in Table : hand[q][u] \intersect S = {} /\ hand[q][u] \subseteq Column
    BY <1>2 DEF BareColumnsShrink, TypeOK
  <2>2. \A c \in Column : /\ description'[c] = IF c \in S THEN source ELSE description[c]
                          /\ source # "none"
    BY <1>2 DEF Describe, Sources
  <2>3. \A q \in Run : wrote[q] \subseteq Column
    BY DEF TypeOK
  <2> QED
    BY <1>2, <2>1, <2>2, <2>3 DEF HandsAgree, OnlyRivalsRewrite, Asking
<1>3. ASSUME NEW r \in Run, NEW t \in Table, Asking(r, t), Commit(r, t),
             \A q \in Run, u \in Table : Asking(q, u)' => Asking(q, u) /\ hand'[q][u] \subseteq hand[q][u]
      PROVE  HandsAgree' /\ OnlyRivalsRewrite'
  <2>1. \A q \in Run, u \in Table : hand[q][u] \subseteq Column
    BY DEF TypeOK
  <2>2. \A q \in Run : wrote[q] \subseteq Column
    BY DEF TypeOK
  <2>3. \A c \in Column :
          /\ description'[c] = IF c \in hand[r][t] THEN "llm_inference" ELSE description[c]
          /\ askers'[c] = IF c \in hand[r][t] /\ description[c] = "none" THEN AskersOf(c) ELSE askers[c]
    BY <1>3 DEF Commit, Describe
  <2>4. \A q \in Run : wrote'[q] = IF q = r THEN wrote[r] \union hand[r][t] ELSE wrote[q]
    BY <1>3 DEF Commit, TypeOK
  <2>5. \A q \in Run, u \in Table, c \in Column :
           Asking(q, u) /\ c \in hand[q][u] => q \in AskersOf(c)
    BY DEF AskersOf
  <2>6. \A q \in Run, u \in Table, c \in Column :
           Asking(q, u) /\ c \in hand[q][u] => description'[c] = "none" \/ q \in askers'[c]
    BY <2>3, <2>5 DEF HandsAgree
  <2>7. HandsAgree'
    <3>1. \A q \in Run : \A c \in wrote'[q] : description'[c] # "none"
      BY <2>1, <2>2, <2>3, <2>4 DEF HandsAgree
    <3>2. \A q \in Run, u \in Table : Asking(q, u)' =>
             \A c \in hand'[q][u] : description'[c] = "none" \/ q \in askers'[c]
      BY <1>3, <2>1, <2>6
    <3> QED
      BY <3>1, <3>2 DEF HandsAgree
  <2>8. ASSUME NEW q \in Run, NEW c \in wrote'[q]
        PROVE  q \in askers'[c]
    <3>1. CASE c \in wrote[q]
      BY <2>2, <2>3, <3>1 DEF HandsAgree, OnlyRivalsRewrite
    <3>2. CASE q = r /\ c \in hand[r][t]
      BY <1>3, <2>1, <2>3, <2>5, <3>2 DEF HandsAgree
    <3> QED
      BY <2>4, <2>8, <3>1, <3>2
  <2> QED
    BY <2>7, <2>8 DEF OnlyRivalsRewrite
<1>4. ASSUME NEW r \in Run, CopyComments(r) \/ SplitNames(r)
      PROVE  HandsAgree' /\ OnlyRivalsRewrite'
  <2>1. UNCHANGED <<task, hand, wrote, askers>> /\ seen[r] \in SUBSET (Commented \union Splittable)
    BY <1>4 DEF CopyComments, SplitNames, fanout, books, BareColumnsShrink
  <2> QED
    BY <1>2, <1>4, <2>1 DEF CopyComments, SplitNames, Sources
<1>5. ASSUME NEW r \in Run,
             \/ Begin(r) \/ ReadComments(r) \/ ReadNames(r)
             \/ DetectPatterns(r) \/ InferForeignKeys(r) \/ StageFails(r) \/ RunFails(r)
             \/ Expire(r) \/ Gather(r) \/ CountCoverage(r) \/ Settle(r) \/ RefreshKnowledge(r)
      PROVE  HandsAgree' /\ OnlyRivalsRewrite'
  <2>1. UNCHANGED <<task, hand, description, wrote, askers>>
    BY <1>5 DEF Begin, ReadComments, ReadNames, DetectPatterns, InferForeignKeys, Pass, StageFails,
         RunFails, Expire, Gather, CountCoverage, Settle, RefreshKnowledge, fanout, books
  <2> QED
    BY <1>1, <2>1 DEF Asking
<1>6. ASSUME NEW r \in Run, StartL2(r)
      PROVE  HandsAgree' /\ OnlyRivalsRewrite'
  <2>1. UNCHANGED <<hand, description, wrote, askers>>
    BY <1>6 DEF StartL2, books
  <2>2. task' = task \/ task' = [task EXCEPT ![r] = [t \in Table |-> "queued"]]
    BY <1>6 DEF StartL2
  <2>3. \A q \in Run, u \in Table : Asking(q, u)' => Asking(q, u)
    <3>1. task \in [Run -> [Table -> TaskStates]]
      BY DEF TypeOK
    <3>2. \A q \in Run, u \in Table : task'[q][u] = task[q][u] \/ task'[q][u] = "queued"
      BY <2>2, <3>1
    <3> QED
      BY <3>2 DEF Asking
  <2> QED
    BY <1>1, <2>1, <2>3
<1> DEFINE Sets(r, t, to) == task' = [task EXCEPT ![r][t] = to]
           Holds(r, t, A) == hand' = [hand EXCEPT ![r][t] = A]
<1>7. /\ task \in [Run -> [Table -> TaskStates]]
      /\ hand \in [Run -> [Table -> SUBSET Column]]
  BY DEF TypeOK
<1>8. ASSUME NEW r \in Run, NEW t \in Table, NEW to, Sets(r, t, to)
      PROVE  \A q \in Run, u \in Table :
                task'[q][u] = IF q = r /\ u = t THEN to ELSE task[q][u]
  BY <1>7, <1>8
<1>9. ASSUME NEW r \in Run, NEW t \in Table, NEW A, Holds(r, t, A)
      PROVE  \A q \in Run, u \in Table :
                hand'[q][u] = IF q = r /\ u = t THEN A ELSE hand[q][u]
  BY <1>7, <1>9
<1> HIDE DEF Sets, Holds
<1>10. ASSUME NEW r \in Run, NEW t \in Table,
              EnterSemaphore(r, t) \/ RateLimit(r, t) \/ Retry(r, t) \/ Answer(r, t) \/ CallFails(r, t)
       PROVE  HandsAgree' /\ OnlyRivalsRewrite'
  <2>1. UNCHANGED Texts
    BY <1>10 DEF EnterSemaphore, RateLimit, Retry, Answer, CallFails, books
  <2>2. \E to \in TaskStates : /\ Sets(r, t, to)
                               /\ to \in {"calling", "backoff", "saving"} => Asking(r, t)
    BY <1>10 DEF EnterSemaphore, RateLimit, Retry, Answer, CallFails, SetTask, Leave, Sets,
       Asking, TaskStates
  <2>3. UNCHANGED hand \/ \E A \in SUBSET hand[r][t] : Holds(r, t, A)
    BY <1>10 DEF EnterSemaphore, RateLimit, Retry, Answer, CallFails, Holds
  <2>4. \A q \in Run, u \in Table : Asking(q, u)' => Asking(q, u)
    <3>1. PICK to \in TaskStates : /\ Sets(r, t, to)
                                   /\ to \in {"calling", "backoff", "saving"} => Asking(r, t)
      BY <2>2
    <3>2. \A q \in Run, u \in Table :
             task'[q][u] = IF q = r /\ u = t THEN to ELSE task[q][u]
      BY <1>8, <3>1
    <3> QED
      BY <3>1, <3>2 DEF Asking
  <2>5. \A q \in Run, u \in Table : hand'[q][u] \subseteq hand[q][u]
    BY <1>9, <2>3
  <2> QED
    BY <1>1, <2>1, <2>4, <2>5
<1>11. ASSUME NEW r \in Run, NEW t \in Table, ReadColumns(r, t)
       PROVE  HandsAgree' /\ OnlyRivalsRewrite'
  <2>1. UNCHANGED Texts
    BY <1>11 DEF ReadColumns, books
  <2>2. CASE Sets(r, t, "returned") /\ UNCHANGED hand
    <3>1. \A q \in Run, u \in Table : Asking(q, u)' => Asking(q, u)
      BY <1>8, <2>2 DEF Asking
    <3> QED
      BY <1>1, <2>1, <2>2, <3>1
  <2>3. CASE Sets(r, t, "calling") /\ Holds(r, t, BareIn(t))
    <3>1. \A q \in Run, u \in Table : q # r \/ u # t =>
             (Asking(q, u)' => Asking(q, u)) /\ hand'[q][u] = hand[q][u]
      BY <1>8, <1>9, <2>3 DEF Asking
    <3>2. \A c \in hand'[r][t] : description[c] = "none"
      BY <1>9, <2>3 DEF BareIn, Bare
    <3> QED
      BY <1>1, <2>1, <3>1, <3>2
  <2> QED
    BY <1>11, <2>2, <2>3 DEF ReadColumns, Leave, SetTask, Sets, Holds
<1>12. ASSUME NEW r \in Run, NEW t \in Table, SaveAnswer(r, t) \/ TaskFails(r, t)
       PROVE  HandsAgree' /\ OnlyRivalsRewrite'
  <2>1. UNCHANGED hand \/ Holds(r, t, {})
    BY <1>12 DEF SaveAnswer, TaskFails, Holds
  <2>2. Sets(r, t, "returned") \/ Sets(r, t, "raised")
    BY <1>12 DEF SaveAnswer, TaskFails, Leave, SetTask, Sets
  <2>3. \A q \in Run, u \in Table :
           (Asking(q, u)' => Asking(q, u)) /\ hand'[q][u] \subseteq hand[q][u]
    BY <1>8, <1>9, <2>1, <2>2 DEF Asking
  <2>4. (Commit(r, t) /\ Asking(r, t)) \/ UNCHANGED Texts
    BY <1>12 DEF SaveAnswer, TaskFails, Asking
  <2> QED
    BY <1>1, <1>3, <2>3, <2>4
<1>13. CASE UNCHANGED vars
  BY <1>1, <1>13 DEF vars, fanout, books, Asking
<1> QED
  BY <1>4, <1>5, <1>6, <1>10, <1>11, <1>12, <1>13 DEF Next, RunStep, TableStep

\* No run has begun: no task, no call, no commit, every column bare.
LEMMA InitLearning == Init => LearningInv
<1> SUFFICES ASSUME Init
             PROVE  LearningInv
  OBVIOUS
<1>1. TypeOK
  BY SettingsAssumption DEF Init, TypeOK, TaskStates
<1>2. TaskLifecycle
  BY DEF Init, TaskLifecycle, BeforeL2
<1>3. BareColumnsShrink /\ SourcesRanked
  BY DEF Init, BareColumnsShrink, SourcesRanked, PastL0, PastSplit
<1>4. Cardinality({}) = 0
  BY FS_EmptySet
<1>5. PermitsBalance
  <2>1. \A r \in Run : Inside(r) = {} /\ permits[r] = MaxConcurrency
    BY DEF Init, Inside
  <2>2. QED
    BY <2>1, <1>4, SettingsAssumption DEF PermitsBalance
<1>6. CapRespected
  <2>1. \A r \in Run : Called(r) = {} /\ calls[r] = 0
    BY DEF Init, Called
  <2>2. QED
    BY <2>1, <1>4, SettingsAssumption DEF CapRespected
<1>7. CommitsAccounted
  BY DEF Init, CommitsAccounted, Returned
<1>8. BooksMatch
  BY <1>4 DEF Init, BooksMatch
<1>9. PendingVerdictsHold /\ VerdictsHold
  BY DEF Init, PendingVerdictsHold, VerdictsHold
<1>10. HandsAgree /\ OnlyRivalsRewrite
  BY DEF Init, HandsAgree, OnlyRivalsRewrite, Asking
<1> QED
  BY <1>1, <1>2, <1>3, <1>5, <1>6, <1>7, <1>8, <1>9, <1>10 DEF LearningInv

\* LearningInv is inductive.
THEOREM LearningInvariant == Spec => []LearningInv
<1>1. LearningInv /\ [Next]_vars => LearningInv'
  <2> SUFFICES ASSUME LearningInv, [Next]_vars
               PROVE  LearningInv'
    OBVIOUS
  <2> USE DEF LearningInv
  <2>1. TypeOK' /\ TaskLifecycle'
    BY TypeKept, LifecycleKept
  <2>2. BareColumnsShrink' /\ SourcesRanked'
    BY ShrinkKept, RanksKept
  <2>3. PermitsBalance' /\ CapRespected'
    BY PermitsKept, CapKept
  <2>4. CommitsAccounted' /\ BooksMatch'
    BY <2>1, BooksKept
  <2>5. PendingVerdictsHold' /\ VerdictsHold'
    BY VerdictsKept
  <2>6. HandsAgree' /\ OnlyRivalsRewrite'
    BY RivalsKept
  <2>7. QED
    BY <2>1, <2>2, <2>3, <2>4, <2>5, <2>6
<1>2. QED
  BY InitLearning, <1>1, PTL DEF Spec

\* Stages, logs, tasks, counters and reports keep their types; a table is asked
\* about at most 1 + max_retries times.
THEOREM TypeCorrect == Spec => []TypeOK
<1>1. LearningInv => TypeOK
  BY DEF LearningInv
<1>2. QED
  BY LearningInvariant, <1>1, PTL

\* L0 wins over L1 and L1 over L2, however many runs overlap and wherever they
\* fail.
THEOREM SourcesStayRanked == Spec => []SourcesRanked
<1>1. LearningInv => SourcesRanked
  BY DEF LearningInv
<1>2. QED
  BY LearningInvariant, <1>1, PTL

\* The semaphore neither loses nor invents a permit.
THEOREM PermitsBalanced == Spec => []PermitsBalance
<1>1. LearningInv => PermitsBalance
  BY DEF LearningInv
<1>2. QED
  BY LearningInvariant, <1>1, PTL

\* max_calls bounds the tables a run asks about, whatever the interleaving.
THEOREM CapHolds == Spec => []CapRespected
<1>1. LearningInv => CapRespected
  BY DEF LearningInv
<1>2. QED
  BY LearningInvariant, <1>1, PTL

\* The numbers of the log are those of the commits and calls.
THEOREM BooksTruthful == Spec => []BooksMatch
<1>1. LearningInv => BooksMatch
  BY DEF LearningInv
<1>2. QED
  BY LearningInvariant, <1>1, PTL

\* A successful verdict remains true.
THEOREM VerdictsStand == Spec => []VerdictsHold
<1>1. LearningInv => VerdictsHold
  BY DEF LearningInv
<1>2. QED
  BY LearningInvariant, <1>1, PTL

\* A description of the model's is only ever rewritten by runs that had asked
\* about the column before it was first described.
THEOREM RewritesAreRivals == Spec => []OnlyRivalsRewrite
<1>1. LearningInv => OnlyRivalsRewrite
  BY DEF LearningInv
<1>2. QED
  BY LearningInvariant, <1>1, PTL

----------------------------------------------------------------------------
(* Every step brings a run nearer to its end.                              *)

\* The distances are natural numbers.
LEMMA DistanceTypes ==
    ASSUME TypeOK
    PROVE  /\ \A r \in Run : StagesLeft(r) \in Nat
           /\ \A r \in Run, t \in Table : TaskLeft(r, t) \in Nat
<1>1. ASSUME NEW r \in Run
      PROVE  StagesLeft(r) \in Nat
  BY DEF TypeOK, StagesLeft, Weight, Stages
<1>2. ASSUME NEW r \in Run, NEW t \in Table
      PROVE  TaskLeft(r, t) \in Nat
  <2>1. attempt[r][t] \in 0..(MaxRetries + 1) /\ task[r][t] \in TaskStates
    BY DEF TypeOK
  <2> QED
    BY <2>1, SettingsAssumption DEF TaskLeft, RetriesLeft, TaskStates
<1> QED
  BY <1>1, <1>2

\* A step of the task of one table changes neither the stages nor another task.
LEMMA TaskBringsNearer ==
    ASSUME TypeOK, TaskLifecycle, TypeOK', NEW r \in Run, NEW t \in Table, TableStep(r, t)
    PROVE  /\ UNCHANGED <<pc, expired>>
           /\ TaskLeft(r, t)' < TaskLeft(r, t)
           /\ \A q \in Run, u \in Table : q # r \/ u # t => TaskLeft(q, u)' = TaskLeft(q, u)
<1> DEFINE Sets(to) == task' = [task EXCEPT ![r][t] = to]
           Counts1(n) == attempt' = [attempt EXCEPT ![r][t] = n]
<1>1. /\ task \in [Run -> [Table -> TaskStates]]
      /\ attempt \in [Run -> [Table -> 0..(MaxRetries + 1)]]
      /\ attempt' \in [Run -> [Table -> 0..(MaxRetries + 1)]]
  BY DEF TypeOK
<1>2. ASSUME NEW to, Sets(to)
      PROVE  /\ task'[r][t] = to
             /\ \A q \in Run, u \in Table : q # r \/ u # t => task'[q][u] = task[q][u]
  BY <1>1, <1>2
<1>3. ASSUME NEW n, Counts1(n)
      PROVE  /\ attempt'[r][t] = n
             /\ \A q \in Run, u \in Table : q # r \/ u # t => attempt'[q][u] = attempt[q][u]
  BY <1>1, <1>3
<1> HIDE DEF Sets, Counts1
<1>4. UNCHANGED <<pc, expired>>
  BY DEF TableStep, EnterSemaphore, ReadColumns, Answer, RateLimit, Retry, CallFails, SaveAnswer,
         TaskFails, run, fanout
<1>5. \A q \in Run, u \in Table : q # r \/ u # t =>
         task'[q][u] = task[q][u] /\ attempt'[q][u] = attempt[q][u]
  <2>1. \E to \in TaskStates : Sets(to)
    BY DEF TableStep, EnterSemaphore, ReadColumns, Answer, RateLimit, Retry, CallFails, SaveAnswer,
           TaskFails, Leave, SetTask, Sets, TaskStates
  <2>2. UNCHANGED attempt \/ Counts1(1) \/ Counts1(attempt[r][t] + 1)
    BY <1>1 DEF TableStep, EnterSemaphore, ReadColumns, Answer, RateLimit, Retry, CallFails,
                SaveAnswer, TaskFails, Counts1
  <2> QED
    BY <1>2, <1>3, <2>1, <2>2
<1>6. \A q \in Run, u \in Table : q # r \/ u # t => TaskLeft(q, u)' = TaskLeft(q, u)
  BY <1>5 DEF TaskLeft, RetriesLeft
<1>7. /\ attempt[r][t] \in 0..(MaxRetries + 1)
      /\ attempt'[r][t] \in 0..(MaxRetries + 1)
      /\ MaxRetries \in Nat
  BY <1>1, SettingsAssumption
<1>8. CASE EnterSemaphore(r, t)
  <2>1. task[r][t] = "queued" /\ (Sets("returned") \/ Sets("reading"))
    BY <1>8 DEF EnterSemaphore, SetTask, Sets
  <2>2. task'[r][t] \in {"returned", "reading"}
    BY <1>2, <2>1
  <2> QED
    BY <1>4, <1>6, <1>7, <2>1, <2>2 DEF TaskLeft
<1>9. CASE ReadColumns(r, t)
  <2>1. /\ task[r][t] = "reading"
        /\ Sets("returned") \/ (Sets("calling") /\ Counts1(1))
    BY <1>9 DEF ReadColumns, Leave, SetTask, Sets, Counts1
  <2>2. task'[r][t] = "returned" \/ (task'[r][t] = "calling" /\ attempt'[r][t] = 1)
    BY <1>2, <1>3, <2>1
  <2> QED
    BY <1>4, <1>6, <1>7, <2>1, <2>2 DEF TaskLeft, RetriesLeft
<1>10. CASE Answer(r, t) \/ CallFails(r, t)
  <2>1. task[r][t] = "calling" /\ (Sets("saving") \/ Sets("returned"))
    BY <1>10 DEF Answer, CallFails, Leave, SetTask, Sets
  <2>2. task'[r][t] \in {"saving", "returned"}
    BY <1>2, <2>1
  <2> QED
    BY <1>4, <1>6, <1>7, <2>1, <2>2 DEF TaskLeft, RetriesLeft
<1>11. CASE RateLimit(r, t)
  <2>1. task[r][t] = "calling" /\ Sets("backoff") /\ UNCHANGED attempt
    BY <1>11 DEF RateLimit, SetTask, Sets
  <2>2. task'[r][t] = "backoff" /\ attempt'[r][t] = attempt[r][t]
    BY <1>2, <2>1
  <2> QED
    BY <1>4, <1>6, <1>7, <2>1, <2>2 DEF TaskLeft, RetriesLeft
<1>12. CASE Retry(r, t)
  <2>1. task[r][t] = "backoff" /\ Sets("calling") /\ Counts1(attempt[r][t] + 1)
    BY <1>1, <1>12 DEF Retry, SetTask, Sets, Counts1
  <2>2. task'[r][t] = "calling" /\ attempt'[r][t] = attempt[r][t] + 1
    BY <1>2, <1>3, <2>1
  <2> QED
    BY <1>4, <1>6, <1>7, <2>1, <2>2 DEF TaskLeft, RetriesLeft
<1>13. CASE SaveAnswer(r, t) \/ TaskFails(r, t)
  <2>1. task[r][t] \in {"reading", "saving"} /\ (Sets("returned") \/ Sets("raised"))
    BY <1>13 DEF SaveAnswer, TaskFails, Leave, SetTask, Sets
  <2>2. task'[r][t] \in {"returned", "raised"}
    BY <1>2, <2>1
  <2> QED
    BY <1>4, <1>6, <1>7, <2>1, <2>2 DEF TaskLeft
<1> QED
  BY <1>8, <1>9, <1>10, <1>11, <1>12, <1>13 DEF TableStep

\* A step of a run changes no other, and its tasks only by starting them all.
LEMMA StageBringsNearer ==
    ASSUME TypeOK, TaskLifecycle, NEW r \in Run, Begin(r) \/ RunStep(r) \/ Expire(r)
    PROVE  /\ StagesLeft(r)' < StagesLeft(r)
           /\ \A q \in Run \ {r} : StagesLeft(q)' = StagesLeft(q)
           /\ \A q \in Run, t \in Table : TaskLeft(q, t)' <= TaskLeft(q, t)
<1>1. /\ pc \in [Run -> {"idle"} \union Stages \union {"ended", "stuck"}]
      /\ expired \in [Run -> BOOLEAN]
      /\ task \in [Run -> [Table -> TaskStates]]
  BY DEF TypeOK
<1>2. \/ /\ expired' = [expired EXCEPT ![r] = TRUE]
         /\ ~expired[r] /\ UNCHANGED pc
      \/ /\ UNCHANGED expired
         /\ \E to \in Stages \union {"ended", "stuck"} :
               pc' = [pc EXCEPT ![r] = to] /\ Weight[to] < Weight[pc[r]]
  <2>1. CASE Expire(r)
    BY <2>1 DEF Expire, run
  <2>2. CASE StageFails(r)
    <3>1. pc[r] \in {"pattern", "fk", "l2"} /\ pc' = [pc EXCEPT ![r] = After(pc[r])] /\ UNCHANGED expired
      BY <2>2 DEF StageFails, Goto, fanout
    <3>2. After(pc[r]) \in Stages /\ Weight[After(pc[r])] < Weight[pc[r]]
      BY <3>1 DEF After, Stages, Weight
    <3> QED
      BY <3>1, <3>2
  <2>3. CASE RunFails(r)
    <3>1. /\ pc[r] \in {"l0", "l0Save", "split", "splitSave", "coverage", "settle"}
          /\ pc' = [pc EXCEPT ![r] = "ended"] \/ pc' = [pc EXCEPT ![r] = "stuck"]
          /\ UNCHANGED expired
      BY <2>3 DEF RunFails, Goto, fanout
    <3>2. \A to \in {"ended", "stuck"} : Weight[to] < Weight[pc[r]]
      BY <3>1 DEF Weight
    <3> QED
      BY <3>1, <3>2
  <2>4. CASE StartL2(r) \/ Gather(r) \/ CountCoverage(r) \/ Settle(r) \/ RefreshKnowledge(r)
    BY <2>4 DEF StartL2, Gather, CountCoverage, Settle, RefreshKnowledge, Goto, fanout, Stages, Weight
  <2>5. CASE \/ Begin(r) \/ ReadComments(r) \/ CopyComments(r) \/ ReadNames(r) \/ SplitNames(r)
             \/ DetectPatterns(r) \/ InferForeignKeys(r)
    BY <2>5 DEF Begin, ReadComments, CopyComments, ReadNames, SplitNames, DetectPatterns,
                InferForeignKeys, Pass, Goto, fanout, Stages, Weight
  <2> QED
    BY <2>1, <2>2, <2>3, <2>4, <2>5 DEF RunStep
<1>3. StagesLeft(r)' < StagesLeft(r) /\ \A q \in Run \ {r} : StagesLeft(q)' = StagesLeft(q)
  <2>1. \A s \in {"idle"} \union Stages \union {"ended", "stuck"} : Weight[s] \in Nat
    BY DEF Stages, Weight
  <2>2. CASE expired' = [expired EXCEPT ![r] = TRUE] /\ ~expired[r] /\ UNCHANGED pc
    <3>1. /\ expired'[r] /\ ~expired[r] /\ pc'[r] = pc[r] /\ Weight[pc[r]] \in Nat
          /\ \A q \in Run \ {r} : expired'[q] = expired[q] /\ pc'[q] = pc[q]
      BY <1>1, <2>1, <2>2
    <3> QED
      BY <3>1 DEF StagesLeft
  <2>3. CASE /\ UNCHANGED expired
             /\ \E to \in Stages \union {"ended", "stuck"} :
                   pc' = [pc EXCEPT ![r] = to] /\ Weight[to] < Weight[pc[r]]
    <3>1. /\ expired'[r] = expired[r] /\ Weight[pc'[r]] < Weight[pc[r]]
          /\ Weight[pc[r]] \in Nat /\ Weight[pc'[r]] \in Nat
          /\ \A q \in Run \ {r} : expired'[q] = expired[q] /\ pc'[q] = pc[q]
      BY <1>1, <2>1, <2>3
    <3> QED
      BY <3>1 DEF StagesLeft
  <2> QED
    BY <1>2, <2>2, <2>3
<1>4. \A q \in Run, t \in Table : TaskLeft(q, t)' <= TaskLeft(q, t)
  <2>1. \A q \in Run, t \in Table : TaskLeft(q, t) \in Nat
    BY DistanceTypes
  <2>2. UNCHANGED attempt
    BY DEF Begin, RunStep, Expire, ReadComments, CopyComments, ReadNames, SplitNames, DetectPatterns,
           InferForeignKeys, Pass, StageFails, RunFails, StartL2, Gather, CountCoverage, Settle,
           RefreshKnowledge, fanout
  <2>3. \/ UNCHANGED task
        \/ pc[r] = "l2" /\ task' = [task EXCEPT ![r] = [t \in Table |-> "queued"]]
    BY DEF Begin, RunStep, Expire, ReadComments, CopyComments, ReadNames, SplitNames, DetectPatterns,
           InferForeignKeys, Pass, StageFails, RunFails, StartL2, Gather, CountCoverage, Settle,
           RefreshKnowledge, fanout
  <2>4. ASSUME NEW q \in Run, NEW t \in Table
        PROVE  task'[q][t] = task[q][t] \/ (task[q][t] = "none" /\ task'[q][t] = "queued")
    BY <1>1, <2>3 DEF TaskLifecycle, BeforeL2
  <2> QED
    BY <2>1, <2>2, <2>4, SettingsAssumption DEF TaskLeft, RetriesLeft
<1> QED
  BY <1>3, <1>4

\* No stage and no table is begun again, and no retry goes on for ever.
THEOREM LearningRunsOut == Spec => WorkRunsOut
<1> DEFINE Distances ==
       /\ \A r \in Run : StagesLeft(r) \in Nat
       /\ \A r \in Run, t \in Table : TaskLeft(r, t) \in Nat
<1> DEFINE Nearer ==
       /\ \A r \in Run :
             /\ StagesLeft(r)' <= StagesLeft(r) /\ StagesLeft(r)' \in Nat
             /\ \A t \in Table : TaskLeft(r, t)' <= TaskLeft(r, t) /\ TaskLeft(r, t)' \in Nat
       /\ \E r \in Run :
             \/ StagesLeft(r)' < StagesLeft(r)
             \/ \E t \in Table : TaskLeft(r, t)' < TaskLeft(r, t)
<1>1. ASSUME LearningInv, LearningInv', Distances, Distances', Next
      PROVE  Nearer
  <2>1. TypeOK /\ TaskLifecycle /\ TypeOK'
    BY <1>1 DEF LearningInv
  <2>2. /\ \A r \in Run : StagesLeft(r) \in Nat /\ StagesLeft(r)' \in Nat
        /\ \A r \in Run, t \in Table : TaskLeft(r, t) \in Nat /\ TaskLeft(r, t)' \in Nat
    BY <1>1
  <2>4. ASSUME NEW r \in Run, NEW t \in Table, TableStep(r, t)
        PROVE  Nearer
    <3>1. /\ UNCHANGED <<pc, expired>>
          /\ TaskLeft(r, t)' < TaskLeft(r, t)
          /\ \A q \in Run, u \in Table : q # r \/ u # t => TaskLeft(q, u)' = TaskLeft(q, u)
      BY <2>1, <2>4, TaskBringsNearer
    <3>2. \A q \in Run : StagesLeft(q)' = StagesLeft(q)
      BY <3>1 DEF StagesLeft
    <3> QED
      BY <2>2, <3>1, <3>2
  <2>5. ASSUME NEW r \in Run, Begin(r) \/ RunStep(r) \/ Expire(r)
        PROVE  Nearer
    <3>1. /\ StagesLeft(r)' < StagesLeft(r)
          /\ \A q \in Run \ {r} : StagesLeft(q)' = StagesLeft(q)
          /\ \A q \in Run, t \in Table : TaskLeft(q, t)' <= TaskLeft(q, t)
      BY <2>1, <2>5, StageBringsNearer
    <3> QED
      BY <2>2, <3>1
  <2> QED
    BY <1>1, <2>4, <2>5 DEF Next
<1>2. LearningInv /\ LearningInv' /\ Distances /\ Distances' /\ [Next]_vars => [Nearer]_vars
  BY <1>1
<1>3. LearningInv => Distances
  BY DistanceTypes DEF LearningInv
<1>4. QED
  BY LearningInvariant, <1>2, <1>3, PTL DEF Spec, WorkRunsOut

----------------------------------------------------------------------------
(* A learning run is a job of MetadataTasks.                               *)

\* What a step of run r does to the job it is.
LEMMA JobMoves ==
    ASSUME TypeOK, NEW r \in Run, NEW to \in {"idle"} \union Stages \union {"ended", "stuck"},
           pc' = [pc EXCEPT ![r] = to]
    PROVE  JobStage' = [JobStage EXCEPT ![r] = CASE to = "idle" -> "insertLearn"
                                                 [] to = "knowledge" -> "knowledge"
                                                 [] to = "ended" -> "done"
                                                 [] to = "stuck" -> "stuck"
                                                 [] OTHER -> "learn"]
<1>1. pc \in [Run -> {"idle"} \union Stages \union {"ended", "stuck"}]
  BY DEF TypeOK
<1> QED
  BY <1>1 DEF JobStage

\* What it does to the job's log.
LEMMA JobLogMoves ==
    ASSUME TypeOK, NEW r \in Run, NEW status \in {"running"} \union Statuses,
           log' = [log EXCEPT ![r] = status]
    PROVE  JobLog' = [JobLog EXCEPT ![r] = IF status = "running" THEN "running" ELSE "settled"]
<1>1. log \in [Run -> {"none", "running"} \union Statuses]
  BY DEF TypeOK
<1>2. "running" \notin Statuses
  BY DEF Statuses
<1> QED
  BY <1>1, <1>2 DEF JobLog

\* The learning run keeps what MetadataTasks takes for granted of it: its steps
\* are those of a job that has been let in, or change nothing of the job.
THEOREM LearningIsATask == Spec => RunsAreJobs
<1>1. ASSUME LearningInv, Next
      PROVE  Tasks!Next \/ UNCHANGED Tasks!vars
  <2>1. /\ TypeOK
        /\ pc \in [Run -> {"idle"} \union Stages \union {"ended", "stuck"}]
        /\ verdict \in [Run -> {"none"} \union Statuses]
    BY <1>1 DEF LearningInv, TypeOK
  <2> DEFINE Off == /\ UNCHANGED <<ForAll("none"), ForAll(FALSE), ForAll({})>>
                    /\ \A r \in Run : [ForAll({}) EXCEPT ![r] = {}] = ForAll({})
  <2>2. Off
    BY DEF ForAll
  <2> HIDE DEF Off
  <2>3. ASSUME UNCHANGED <<JobStage, JobLog>>
        PROVE  UNCHANGED Tasks!vars
    BY <2>2, <2>3 DEF Off, Tasks!vars, Tasks!logs, Tasks!data, Tasks!history
  <2>4. ASSUME NEW r \in Run, Begin(r)
        PROVE  Tasks!InsertLearn(r)
    <3>1. pc[r] = "idle" /\ pc' = [pc EXCEPT ![r] = "l0"] /\ log' = [log EXCEPT ![r] = "running"]
      BY <2>4 DEF Begin, Goto
    <3>2. JobStage[r] = "insertLearn" /\ JobStage' = [JobStage EXCEPT ![r] = "learn"]
      BY <2>1, <3>1, JobMoves DEF JobStage, Stages
    <3>3. JobLog' = [JobLog EXCEPT ![r] = "running"]
      BY <2>1, <3>1, JobLogMoves
    <3> QED
      BY <2>2, <3>2, <3>3 DEF Off, Tasks!InsertLearn, Tasks!Goto, Tasks!data, Tasks!history
  <2>5. ASSUME NEW r \in Run, NEW to \in {"knowledge", "ended"}, NEW status \in Statuses,
               pc[r] \in Stages \ {"knowledge"}, pc' = [pc EXCEPT ![r] = to],
               log' = [log EXCEPT ![r] = status]
        PROVE  Tasks!SettleLearn(r)
    <3>1. /\ JobStage[r] = "learn"
          /\ \/ JobStage' = [JobStage EXCEPT ![r] = "knowledge"]
             \/ JobStage' = [JobStage EXCEPT ![r] = "done"]
      BY <2>1, <2>5, JobMoves DEF JobStage, Stages
    <3>2. JobLog' = [JobLog EXCEPT ![r] = "settled"]
      BY <2>1, <2>5, JobLogMoves DEF Statuses
    <3> QED
      BY <2>2, <3>1, <3>2 DEF Off, Tasks!SettleLearn, Tasks!Goto, Tasks!data, Tasks!history
  <2>6. ASSUME NEW r \in Run, pc[r] \in Stages \ {"knowledge"}, pc' = [pc EXCEPT ![r] = "stuck"],
               UNCHANGED log
        PROVE  Tasks!DatabaseFails(r)
    <3>1. JobStage[r] = "learn" /\ JobStage' = [JobStage EXCEPT ![r] = "stuck"]
      BY <2>1, <2>6, JobMoves DEF JobStage, Stages
    <3>2. UNCHANGED JobLog
      BY <2>6 DEF JobLog
    <3> QED
      BY <2>2, <3>1, <3>2 DEF Off, Tasks!DatabaseFails, Tasks!Goto, Tasks!logs, Tasks!history,
         Tasks!LearnWork, Tasks!SyncWork, Tasks!Handling
  <2>7. ASSUME NEW r \in Run, RefreshKnowledge(r)
        PROVE  Tasks!RefreshKnowledge(r)
    <3>1. pc[r] = "knowledge" /\ pc' = [pc EXCEPT ![r] = "ended"] /\ UNCHANGED log
      BY <2>7 DEF RefreshKnowledge, Goto
    <3>2. JobStage[r] = "knowledge" /\ JobStage' = [JobStage EXCEPT ![r] = "done"]
      BY <2>1, <3>1, JobMoves DEF JobStage, Stages
    <3>3. UNCHANGED JobLog
      BY <3>1 DEF JobLog
    <3> QED
      BY <2>2, <3>2, <3>3 DEF Off, Tasks!RefreshKnowledge, Tasks!Goto, Tasks!logs, Tasks!data,
         Tasks!history
  <2>8. ASSUME NEW r \in Run, UNCHANGED log,
               UNCHANGED pc \/ \E to \in Stages \ {"knowledge"} :
                                  pc[r] \in Stages \ {"knowledge"} /\ pc' = [pc EXCEPT ![r] = to]
        PROVE  UNCHANGED Tasks!vars
    <3>1. \A q \in Run : \/ pc'[q] = pc[q]
                         \/ /\ pc[q] \in Stages \ {"knowledge"}
                            /\ pc'[q] \in Stages \ {"knowledge"}
      BY <2>1, <2>8
    <3>2. UNCHANGED <<JobStage, JobLog>>
      BY <2>8, <3>1 DEF JobStage, JobLog, Stages
    <3> QED
      BY <2>3, <3>2
  <2>9. ASSUME NEW r \in Run, Settle(r)
        PROVE  Tasks!SettleLearn(r)
    <3>1. /\ pc[r] = "settle" /\ pc' = [pc EXCEPT ![r] = "knowledge"]
          /\ log' = [log EXCEPT ![r] = verdict[r]]
      BY <2>9 DEF Settle, Goto
    <3>2. verdict[r] \in Statuses
      BY <1>1, <3>1 DEF LearningInv, PendingVerdictsHold
    <3> QED
      BY <2>5, <3>1, <3>2 DEF Stages
  <2>10. ASSUME NEW r \in Run, RunFails(r)
         PROVE  Tasks!SettleLearn(r) \/ Tasks!DatabaseFails(r)
    BY <2>5, <2>6, <2>10 DEF RunFails, Goto, Stages, Statuses
  <2>11. ASSUME NEW r \in Run,
                \/ ReadComments(r) \/ CopyComments(r) \/ ReadNames(r) \/ SplitNames(r)
                \/ DetectPatterns(r) \/ InferForeignKeys(r) \/ StageFails(r) \/ StartL2(r) \/ Gather(r)
                \/ CountCoverage(r)
         PROVE  UNCHANGED Tasks!vars
    BY <2>8, <2>11 DEF ReadComments, CopyComments, ReadNames, SplitNames, DetectPatterns,
       InferForeignKeys, Pass, StageFails, After, StartL2, Gather, CountCoverage, Goto, Stages
  <2>12. ASSUME NEW r \in Run, Expire(r) \/ \E t \in Table : TableStep(r, t)
         PROVE  UNCHANGED Tasks!vars
    <3>1. UNCHANGED <<pc, log>>
      BY <2>12 DEF Expire, TableStep, EnterSemaphore, ReadColumns, Answer, RateLimit, Retry, CallFails,
         SaveAnswer, TaskFails, run
    <3> QED
      BY <2>8, <3>1
  <2> QED
    BY <1>1, <2>4, <2>7, <2>9, <2>10, <2>11, <2>12 DEF Next, RunStep, Tasks!Next
<1>2. LearningInv /\ [Next]_vars => [Tasks!Next]_(Tasks!vars)
  <2>1. UNCHANGED vars => UNCHANGED Tasks!vars
    BY DEF vars, run, Tasks!vars, Tasks!logs, Tasks!data, Tasks!history, JobStage, JobLog, ForAll
  <2> QED
    BY <1>1, <2>1
<1>3. QED
  BY LearningInvariant, <1>2, PTL DEF Spec, RunsAreJobs

\* Whatever overlaps, a column keeps the source of its first description.
THEOREM SourcesAreKept == Spec => SourcesStay
<1>1. LearningInv /\ LearningInv' /\ [Next]_vars =>
         [\A c \in Column : description[c] # "none" => description'[c] = description[c]]_vars
  <2> SUFFICES ASSUME LearningInv, LearningInv', [Next]_vars, NEW c \in Column,
                      description[c] # "none"
               PROVE  description'[c] = description[c]
    OBVIOUS
  <2>1. description'[c] # "none"
    BY DescriptionsGrow DEF LearningInv, Bare
  <2> QED
    BY <2>1 DEF LearningInv, SourcesRanked
<1>2. QED
  BY LearningInvariant, <1>1, PTL DEF Spec, SourcesStay
=============================================================================
