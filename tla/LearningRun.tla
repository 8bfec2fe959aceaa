----------------------------- MODULE LearningRun -----------------------------
(***************************************************************************)
(* run_learning of src/src/learning/orchestrator.py: L0 copies comments,   *)
(* L1 splits field names, detects patterns and infers foreign keys, L2     *)
(* asks a language model about every table that still has bare columns,    *)
(* table by table in concurrent tasks, and the log gets a verdict from the *)
(* coverage.  Runs of one data source may overlap: nothing keeps a second  *)
(* POST /learn out while a first one works.                                *)
(*                                                                         *)
(* A run works with one session; a failure of the application database     *)
(* may leave it broken, and it is never rolled back.  Each L2 task has a   *)
(* session of its own.  Comments and columns stay as they are: a schema    *)
(* sync is the business of MetadataTasks.                                  *)
(***************************************************************************)
EXTENDS Naturals, FiniteSets

CONSTANTS Run,              \* the learning runs of one data source
          Table, Column,    \* its catalogue
          TableOf,          \* TableOf[c]: the table of column c
          Commented,        \* the columns with a comment
          Splittable,       \* the columns whose name split_field_name translates
          MaxConcurrency,   \* learning_l2_max_concurrency
          MaxCalls,         \* learning_l2_max_calls; 0 is "no cap"
          MaxRetries        \* _MAX_RETRIES

ASSUME CatalogueAssumption ==
    /\ IsFiniteSet(Table) /\ IsFiniteSet(Column)
    /\ TableOf \in [Column -> Table]
    /\ Commented \subseteq Column /\ Splittable \subseteq Column
ASSUME SettingsAssumption ==
    MaxConcurrency \in Nat \ {0} /\ MaxCalls \in Nat /\ MaxRetries \in Nat

VARIABLES pc,           \* pc[r]: the stage run r is in, or how it ended
          broken,       \* broken[r]: r's session can no longer be used
          log,          \* status of r's metadata_learning_logs row
          verdict,      \* verdict[r]: the status r has computed
          seen,         \* seen[r]: the columns L0 or the splitting will describe
          description,  \* description[c]: source of c's semantic description
          task,         \* task[r][t]: r's L2 task for table t
          permits,      \* permits[r]: value of r's semaphore
          expired,      \* expired[r]: learning_job_timeout_minutes have passed
          calls,        \* calls[r]: the shared call counter
          attempt,      \* attempt[r][t]: LLM requests made for t
          hand,         \* hand[r][t]: columns asked about, then described
          reported,     \* reported[r]: (l2_count, l2_llm_calls)
          wrote,        \* history: the columns r's L2 tasks have committed
          askers        \* history: the runs that had asked about c when the
                        \* model's first text for it was committed

run == <<pc, broken, log, verdict, seen>>
fanout == <<task, permits, expired, calls, attempt, hand>>
books == <<reported, wrote, askers>>
vars == <<run, description, fanout, books>>

Stages == {"l0", "l0Save", "split", "splitSave", "pattern", "fk", "l2",
           "gather", "coverage", "settle", "knowledge"}
Statuses == {"success", "partial_success", "failed"}
Sources == {"schema_comment", "rule_inference", "llm_inference"}

Goto(r, to) == pc' = [pc EXCEPT ![r] = to]
Bare == {c \in Column : description[c] = "none"}
Describe(C, source) == [c \in Column |-> IF c \in C THEN source ELSE description[c]]

----------------------------------------------------------------------------
Init ==
    /\ pc = [r \in Run |-> "idle"]
    /\ broken = [r \in Run |-> FALSE]
    /\ log = [r \in Run |-> "none"]
    /\ verdict = [r \in Run |-> "none"]
    /\ seen = [r \in Run |-> {}]
    /\ description = [c \in Column |-> "none"]
    /\ task = [r \in Run |-> [t \in Table |-> "none"]]
    /\ permits = [r \in Run |-> MaxConcurrency]
    /\ expired = [r \in Run |-> FALSE]
    /\ calls = [r \in Run |-> 0]
    /\ attempt = [r \in Run |-> [t \in Table |-> 0]]
    /\ hand = [r \in Run |-> [t \in Table |-> {}]]
    /\ reported = [r \in Run |-> [described |-> 0, calls |-> 0]]
    /\ wrote = [r \in Run |-> {}]
    /\ askers = [c \in Column |-> {}]

Begin(r) ==
    /\ pc[r] = "idle"
    /\ log' = [log EXCEPT ![r] = "running"]
    /\ Goto(r, "l0")
    /\ UNCHANGED <<broken, verdict, seen, description, fanout, books>>

----------------------------------------------------------------------------
(* L0 and L1: each reads the bare columns, then describes them in one      *)
(* commit.                                                                 *)

ReadComments(r) ==
    /\ pc[r] = "l0"
    /\ seen' = [seen EXCEPT ![r] = Bare \intersect Commented]
    /\ Goto(r, "l0Save")
    /\ UNCHANGED <<broken, log, verdict, description, fanout, books>>

CopyComments(r) ==
    /\ pc[r] = "l0Save"
    /\ description' = Describe(seen[r], "schema_comment")
    /\ seen' = [seen EXCEPT ![r] = {}]
    /\ Goto(r, "split")
    /\ UNCHANGED <<broken, log, verdict, fanout, books>>

ReadNames(r) ==
    /\ pc[r] = "split"
    /\ seen' = [seen EXCEPT ![r] = Bare \intersect Splittable]
    /\ Goto(r, "splitSave")
    /\ UNCHANGED <<broken, log, verdict, description, fanout, books>>

SplitNames(r) ==
    /\ pc[r] = "splitSave"
    /\ description' = Describe(seen[r], "rule_inference")
    /\ seen' = [seen EXCEPT ![r] = {}]
    /\ Goto(r, "pattern")
    /\ UNCHANGED <<broken, log, verdict, fanout, books>>

\* Pattern detection writes statistics and foreign-key inference replaces the
\* rows of metadata_inferred_fks; neither describes a column.
Pass(r, stage, next) ==
    /\ pc[r] = stage
    /\ ~broken[r]
    /\ Goto(r, next)
    /\ UNCHANGED <<broken, log, verdict, seen, description, fanout, books>>
DetectPatterns(r) == Pass(r, "pattern", "fk")
InferForeignKeys(r) == Pass(r, "fk", "l2")

After(stage) == CASE stage = "pattern" -> "fk"
                  [] stage = "fk" -> "l2"
                  [] stage = "l2" -> "coverage"

\* These stages are suppressed: an exception ends the stage only.  The failure
\* may break the session, as a second row for one pair of columns in
\* metadata_inferred_fks does; in a broken session the stage can only fail.
StageFails(r) ==
    /\ pc[r] \in {"pattern", "fk", "l2"}
    /\ \E b \in BOOLEAN :
          /\ broken[r] => b
          /\ broken' = [broken EXCEPT ![r] = b]
    /\ Goto(r, After(pc[r]))
    /\ UNCHANGED <<log, verdict, seen, description, fanout, books>>

\* Mutant: an exception in L0 or in the splitting is suppressed too.
RunFailsSuppressed(r) ==
    /\ pc[r] \in {"l0", "split"}
    /\ pc' = [pc EXCEPT ![r] = IF pc[r] = "l0" THEN "split" ELSE "pattern"]
    /\ UNCHANGED <<broken, log, verdict, seen, description, fanout, books>>

\* The except branch of run_learning marks the log, if the session still works.
RunFails(r) ==
    /\ pc[r] \in {"l0", "l0Save", "split", "splitSave", "coverage", "settle"}
    /\ \/ /\ pc[r] \in {"l0", "split", "coverage"}
          /\ ~broken[r]
          /\ log' = [log EXCEPT ![r] = "failed"]
          /\ Goto(r, "ended")
          /\ UNCHANGED broken
       \/ /\ broken' = [broken EXCEPT ![r] = TRUE]
          /\ Goto(r, "stuck")
          /\ UNCHANGED log
    /\ seen' = [seen EXCEPT ![r] = {}]
    /\ UNCHANGED <<verdict, description, fanout, books>>

----------------------------------------------------------------------------
(* L2: run_l2_inference, one task per table.                               *)

\* A data source that is no longer active is left alone.
StartL2(r) ==
    /\ pc[r] = "l2"
    /\ ~broken[r]
    /\ \/ Goto(r, "coverage") /\ UNCHANGED task
       \/ Goto(r, "gather") /\ task' = [task EXCEPT ![r] = [t \in Table |-> "queued"]]
    /\ UNCHANGED <<broken, log, verdict, seen, description,
                   permits, expired, calls, attempt, hand, books>>

SetTask(r, t, to) == task' = [task EXCEPT ![r][t] = to]

\* Mutant: the permit is not given back.
LeaveHolding(r, t, how) == SetTask(r, t, how) /\ UNCHANGED permits

\* The end of "async with semaphore", by a return or by an exception.
Leave(r, t, how) ==
    /\ SetTask(r, t, how)
    /\ permits' = [permits EXCEPT ![r] = @ + 1]

\* Past the deadline a task gives its permit back at once.
EnterSemaphore(r, t) ==
    /\ task[r][t] = "queued"
    /\ permits[r] > 0
    /\ \/ /\ expired[r]
          /\ SetTask(r, t, "returned")
          /\ UNCHANGED permits
       \/ /\ ~expired[r]
          /\ SetTask(r, t, "reading")
          /\ permits' = [permits EXCEPT ![r] = @ - 1]
    /\ UNCHANGED <<run, description, expired, calls, attempt, hand, books>>

\* Mutant: one call too many.
CappedLate(r) == MaxCalls # 0 /\ calls[r] > MaxCalls

Capped(r) == MaxCalls # 0 /\ calls[r] >= MaxCalls

\* Mutant: columns that are described are asked about again.
BareInAgain(t) == {c \in Column \ Commented : TableOf[c] = t}

BareIn(t) == {c \in Bare : TableOf[c] = t}

\* The cap is checked and the call counted without an await in between.
ReadColumns(r, t) ==
    /\ task[r][t] = "reading"
    /\ \/ /\ BareIn(t) = {} \/ Capped(r)
          /\ Leave(r, t, "returned")
          /\ UNCHANGED <<calls, attempt, hand>>
       \/ /\ BareIn(t) # {} /\ ~Capped(r)
          /\ SetTask(r, t, "calling")
          /\ calls' = [calls EXCEPT ![r] = @ + 1]
          /\ attempt' = [attempt EXCEPT ![r][t] = 1]
          /\ hand' = [hand EXCEPT ![r][t] = BareIn(t)]
          /\ UNCHANGED permits
    /\ UNCHANGED <<run, description, expired, books>>

\* The model describes any of the columns it was asked about.
Answer(r, t) ==
    /\ task[r][t] = "calling"
    /\ \E A \in SUBSET hand[r][t] : hand' = [hand EXCEPT ![r][t] = A]
    /\ SetTask(r, t, "saving")
    /\ UNCHANGED <<run, description, permits, expired, calls, attempt, books>>

RateLimit(r, t) ==
    /\ task[r][t] = "calling"
    /\ attempt[r][t] <= MaxRetries
    /\ SetTask(r, t, "backoff")
    /\ UNCHANGED <<run, description, permits, expired, calls, attempt, hand, books>>

\* Mutant: a retry is not counted as an attempt.
RetryUncounted(r, t) ==
    /\ task[r][t] = "backoff"
    /\ SetTask(r, t, "calling")
    /\ UNCHANGED <<run, description, permits, expired, calls, attempt, hand, books>>

Retry(r, t) ==
    /\ task[r][t] = "backoff"
    /\ SetTask(r, t, "calling")
    /\ attempt' = [attempt EXCEPT ![r][t] = @ + 1]
    /\ UNCHANGED <<run, description, permits, expired, calls, hand, books>>

\* Another error, or the last rate limit: call_llm_with_retry returns None.
CallFails(r, t) ==
    /\ task[r][t] = "calling"
    /\ hand' = [hand EXCEPT ![r][t] = {}]
    /\ Leave(r, t, "returned")
    /\ UNCHANGED <<run, description, expired, calls, attempt, books>>

Asking(r, t) == task[r][t] \in {"calling", "backoff", "saving"}
AskersOf(c) == {r \in Run : \E t \in Table : Asking(r, t) /\ c \in hand[r][t]}

\* The columns were bare when they were read; they are written regardless of
\* what another run has written since.
Commit(r, t) ==
    /\ description' = Describe(hand[r][t], "llm_inference")
    /\ wrote' = [wrote EXCEPT ![r] = @ \union hand[r][t]]
    /\ askers' = [c \in Column |->
          IF c \in hand[r][t] /\ description[c] = "none" THEN AskersOf(c) ELSE askers[c]]

SaveAnswer(r, t) ==
    /\ task[r][t] = "saving"
    /\ Commit(r, t)
    /\ Leave(r, t, "returned")
    /\ UNCHANGED <<run, expired, calls, attempt, hand, reported>>

\* Mutant: an exception of the commit is swallowed.
TaskFailsSilently(r, t) ==
    /\ task[r][t] \in {"reading", "saving"}
    /\ Leave(r, t, "returned")
    /\ UNCHANGED <<run, description, wrote, askers, expired, calls, attempt, hand, reported>>

\* The task raises; a commit that raises may have taken effect.
TaskFails(r, t) ==
    /\ task[r][t] \in {"reading", "saving"}
    /\ \/ task[r][t] = "saving" /\ Commit(r, t)
       \/ UNCHANGED <<description, wrote, askers>>
    /\ hand' = [hand EXCEPT ![r][t] = {}]
    /\ Leave(r, t, "raised")
    /\ UNCHANGED <<run, expired, calls, attempt, reported>>

Expire(r) ==
    /\ pc[r] = "gather"
    /\ ~expired[r]
    /\ expired' = [expired EXCEPT ![r] = TRUE]
    /\ UNCHANGED <<run, description, task, permits, calls, attempt, hand, books>>

Returned(r) == {t \in Table : task[r][t] = "returned"}

\* The results of the tasks that returned are added up.
Gather(r) ==
    /\ pc[r] = "gather"
    /\ \A t \in Table : task[r][t] \in {"returned", "raised"}
    /\ reported' = [reported EXCEPT ![r] =
          [described |-> Cardinality(UNION {hand[r][t] : t \in Returned(r)}),
           calls |-> Cardinality({t \in Returned(r) : attempt[r][t] > 0})]]
    /\ Goto(r, "coverage")
    /\ UNCHANGED <<broken, log, verdict, seen, description, fanout, wrote, askers>>

----------------------------------------------------------------------------
(* The verdict.                                                            *)

\* Mutant: pattern statistics, which every column has, count as coverage.
StatusWithStatistics ==
    IF Column = {} THEN "failed" ELSE "success"

Status ==
    LET total == Cardinality(Column)
        described == Cardinality(Column \ Bare)
    IN  CASE total = 0 -> "failed"
          [] total # 0 /\ 10 * described >= 8 * total -> "success"
          [] total # 0 /\ described > 0 /\ 10 * described < 8 * total -> "partial_success"
          [] total # 0 /\ described = 0 -> "failed"

CountCoverage(r) ==
    /\ pc[r] = "coverage"
    /\ ~broken[r]
    /\ verdict' = [verdict EXCEPT ![r] = Status]
    /\ Goto(r, "settle")
    /\ UNCHANGED <<broken, log, seen, description, fanout, books>>

Settle(r) ==
    /\ pc[r] = "settle"
    /\ log' = [log EXCEPT ![r] = verdict[r]]
    /\ Goto(r, "knowledge")
    /\ UNCHANGED <<broken, verdict, seen, description, fanout, books>>

\* The knowledge refresh and the enum seeds; their failures are contained.
RefreshKnowledge(r) ==
    /\ pc[r] = "knowledge"
    /\ Goto(r, "ended")
    /\ UNCHANGED <<broken, log, verdict, seen, description, fanout, books>>

----------------------------------------------------------------------------
TableStep(r, t) ==
    \/ EnterSemaphore(r, t) \/ ReadColumns(r, t) \/ Answer(r, t)
    \/ RateLimit(r, t) \/ Retry(r, t) \/ CallFails(r, t)
    \/ SaveAnswer(r, t) \/ TaskFails(r, t)

RunStep(r) ==
    \/ ReadComments(r) \/ CopyComments(r) \/ ReadNames(r) \/ SplitNames(r)
    \/ DetectPatterns(r) \/ InferForeignKeys(r) \/ StageFails(r) \/ RunFails(r)
    \/ StartL2(r) \/ Gather(r)
    \/ CountCoverage(r) \/ Settle(r) \/ RefreshKnowledge(r)

Next ==
    \E r \in Run :
        \/ Begin(r) \/ RunStep(r) \/ Expire(r)
        \/ \E t \in Table : TableStep(r, t)

\* Tasks are resumed, the database and the language model answer or time out.
Fairness ==
    /\ \A r \in Run : WF_vars(RunStep(r))
    /\ \A r \in Run : \A t \in Table : WF_vars(TableStep(r, t))

Spec == Init /\ [][Next]_vars /\ Fairness

----------------------------------------------------------------------------
TaskStates == {"none", "queued", "reading", "calling", "backoff", "saving", "returned", "raised"}

TypeOK ==
    /\ pc \in [Run -> {"idle"} \union Stages \union {"ended", "stuck"}]
    /\ broken \in [Run -> BOOLEAN]
    /\ log \in [Run -> {"none", "running"} \union Statuses]
    /\ verdict \in [Run -> {"none"} \union Statuses]
    /\ seen \in [Run -> SUBSET Column]
    /\ description \in [Column -> {"none"} \union Sources]
    /\ task \in [Run -> [Table -> TaskStates]]
    /\ permits \in [Run -> Nat]
    /\ expired \in [Run -> BOOLEAN]
    /\ calls \in [Run -> Nat]
    /\ attempt \in [Run -> [Table -> 0..(MaxRetries + 1)]]
    /\ hand \in [Run -> [Table -> SUBSET Column]]
    /\ reported \in [Run -> [described : Nat, calls : Nat]]
    /\ wrote \in [Run -> SUBSET Column]
    /\ askers \in [Column -> SUBSET Run]

\* L0 wins over L1 and L1 over L2: whatever runs overlap and whatever fails, a
\* column with a comment is only ever described by the comment, a splittable
\* one by its name, and the model describes the rest.
SourcesRanked ==
    \A c \in Column :
        \/ description[c] = "none"
        \/ description[c] = IF c \in Commented THEN "schema_comment"
                            ELSE IF c \in Splittable THEN "rule_inference"
                            ELSE "llm_inference"

Inside(r) == {t \in Table : task[r][t] \in {"reading", "calling", "backoff", "saving"}}

\* The permits of a run's semaphore and the tasks inside it make up
\* max_concurrency on every path out of a task, exceptions included.
PermitsBalance == \A r \in Run : permits[r] + Cardinality(Inside(r)) = MaxConcurrency

Called(r) == {t \in Table : attempt[r][t] > 0}

\* No interleaving of the tasks sends prompts for more than max_calls tables.
CapRespected ==
    \A r \in Run :
        /\ calls[r] = Cardinality(Called(r))
        /\ MaxCalls # 0 => calls[r] <= MaxCalls

\* What the log says of L2 is never more than what L2 did, and no less than it
\* unless a task raised.
BooksMatch ==
    \A r \in Run :
        /\ reported[r].described <= Cardinality(wrote[r])
        /\ reported[r].calls <= calls[r]
        /\ (pc[r] \in {"settle", "knowledge"} /\ \A t \in Table : task[r][t] = "returned")
              => reported[r] = [described |-> Cardinality(wrote[r]), calls |-> calls[r]]

\* A log that says "success" goes on being right: 80% of the columns are
\* described.  One that says "partial_success" counted at least one.
VerdictsHold ==
    \A r \in Run :
        /\ log[r] = "success" => 10 * Cardinality(Column \ Bare) >= 8 * Cardinality(Column)
        /\ log[r] = "partial_success" => Bare # Column

\* A description the model gave is not refreshed by later runs: whoever writes
\* one had asked about the column, and found it bare, before the first text was
\* there.  Runs that asked at the same time do overwrite each other.
OnlyRivalsRewrite == \A r \in Run : \A c \in wrote[r] : r \in askers[c]

\* A stage that was late, or a run that read the column while it was bare, may
\* replace a text but never by one of another source, and takes none away.
SourcesStay ==
    [][\A c \in Column : description[c] # "none" => description'[c] = description[c]]_vars

\* The parts of the inductive invariant behind the properties above.
\* What the stages have left bare for those that come after them.
BeforeL2 == {"idle", "l0", "l0Save", "split", "splitSave", "pattern", "fk", "l2"}
PastSplit == {"pattern", "fk", "l2", "gather", "coverage", "settle", "knowledge"}
PastL0 == PastSplit \union {"split", "splitSave"}
BareColumnsShrink ==
    /\ \A r \in Run :
          /\ pc[r] = "l0Save" =>
                seen[r] \subseteq Commented /\ Bare \intersect Commented \subseteq seen[r]
          /\ pc[r] = "splitSave" =>
                /\ seen[r] \subseteq Splittable \ Commented
                /\ Bare \intersect Splittable \subseteq seen[r]
          /\ pc[r] \in PastL0 => Bare \intersect Commented = {}
          /\ pc[r] \in PastSplit => Bare \intersect Splittable = {}
    /\ \A r \in Run, t \in Table : hand[r][t] \intersect (Commented \union Splittable) = {}

\* A task works during its run's gather only, and what it has done by then.
TaskLifecycle ==
    \A r \in Run, t \in Table :
        /\ pc[r] \in BeforeL2 => task[r][t] = "none"
        /\ task[r][t] \notin {"none", "returned", "raised"} => pc[r] = "gather"
        /\ task[r][t] \in {"none", "queued", "reading"} => attempt[r][t] = 0 /\ hand[r][t] = {}
        /\ task[r][t] \in {"calling", "backoff", "saving"} => attempt[r][t] > 0
        /\ task[r][t] = "backoff" => attempt[r][t] <= MaxRetries

\* A run's commits are those of its tasks.
CommitsAccounted ==
    \A r \in Run :
        /\ pc[r] \in BeforeL2 => reported[r] = [described |-> 0, calls |-> 0]
        /\ \A t \in Returned(r) : hand[r][t] \subseteq wrote[r]
        /\ \A c \in wrote[r] : \E t \in Table :
              task[r][t] = "raised" \/ (task[r][t] = "returned" /\ c \in hand[r][t])
        /\ (pc[r] = "coverage" /\ \A t \in Table : task[r][t] = "returned")
              => reported[r] = [described |-> Cardinality(wrote[r]), calls |-> calls[r]]

\* What a task has in hand is bare, or was when its first text was written.
HandsAgree ==
    /\ \A r \in Run, t \in Table : Asking(r, t) =>
          \A c \in hand[r][t] : description[c] = "none" \/ r \in askers[c]
    /\ \A r \in Run : \A c \in wrote[r] : description[c] # "none"

\* A verdict that waits for its commit.
PendingVerdictsHold ==
    \A r \in Run : pc[r] = "settle" =>
        /\ verdict[r] \in Statuses
        /\ verdict[r] = "success" => 10 * Cardinality(Column \ Bare) >= 8 * Cardinality(Column)
        /\ verdict[r] = "partial_success" => Bare # Column

LearningInv ==
    /\ TypeOK /\ TaskLifecycle
    /\ BareColumnsShrink /\ SourcesRanked
    /\ PermitsBalance /\ CapRespected
    /\ CommitsAccounted /\ BooksMatch
    /\ PendingVerdictsHold /\ VerdictsHold
    /\ HandsAgree /\ OnlyRivalsRewrite

\* Every run comes to a verdict, whatever stage fails and however its tables
\* compete for permits, answers and retries: only a failure of the application
\* database can leave its log "running".
LogsSettle == \A r \in Run : log[r] = "running" ~> log[r] # "running" \/ broken[r]

\* How far a run is from its end, and the L2 task of a table from its own: a
\* request that is limited costs one of the MaxRetries.
Weight == [idle |-> 12, l0 |-> 11, l0Save |-> 10, split |-> 9, splitSave |-> 8, pattern |-> 7,
           fk |-> 6, l2 |-> 5, gather |-> 4, coverage |-> 3, settle |-> 2, knowledge |-> 1,
           ended |-> 0, stuck |-> 0]
StagesLeft(r) == Weight[pc[r]] + (IF expired[r] THEN 0 ELSE 1)
RetriesLeft(r, t) == 2 * (MaxRetries + 1 - attempt[r][t])
TaskLeft(r, t) ==
    CASE task[r][t] = "none" -> 2 * MaxRetries + 6
      [] task[r][t] = "queued" -> 2 * MaxRetries + 5
      [] task[r][t] = "reading" -> 2 * MaxRetries + 4
      [] task[r][t] = "calling" -> RetriesLeft(r, t) + 3
      [] task[r][t] = "backoff" -> RetriesLeft(r, t) + 2
      [] task[r][t] = "saving" -> 1
      [] OTHER -> 0

\* Nothing is begun again: whichever runs and tasks are interleaved and whatever
\* fails, every step brings one of them nearer to its end and takes none back.
\* Hence runs cannot keep each other, or the model's rate limit a task, going.
WorkRunsOut ==
    [][/\ \A r \in Run :
             /\ StagesLeft(r)' <= StagesLeft(r) /\ StagesLeft(r)' \in Nat
             /\ \A t \in Table : TaskLeft(r, t)' <= TaskLeft(r, t) /\ TaskLeft(r, t)' \in Nat
       /\ \E r \in Run :
             \/ StagesLeft(r)' < StagesLeft(r)
             \/ \E t \in Table : TaskLeft(r, t)' < TaskLeft(r, t)]_vars

\* A run as MetadataTasks knows it: a job past its check, whose learning is one
\* step.  Nothing of a sync is part of it.
JobStage ==
    [r \in Run |-> CASE pc[r] = "idle" -> "insertLearn"
                     [] pc[r] = "knowledge" -> "knowledge"
                     [] pc[r] = "ended" -> "done"
                     [] pc[r] = "stuck" -> "stuck"
                     [] OTHER -> "learn"]
JobLog == [r \in Run |-> IF log[r] \in Statuses THEN "settled" ELSE log[r]]
ForAll(x) == [r \in Run |-> x]

Tasks == INSTANCE MetadataTasks WITH
    Job <- Run, pc <- JobStage, learnLog <- JobLog,
    syncLog <- ForAll("none"), stale <- ForAll(FALSE), applied <- ForAll(FALSE), catalog <- {},
    victim <- ForAll({}), current <- ForAll({}), stored <- ForAll({}),
    syncRivals <- ForAll({}), learnRivals <- ForAll({})

\* What the mutual exclusion of MetadataTasks takes for granted of a learning
\* run: its log reads "running" from its first commit, is settled once, in the
\* commit that ends the work on the catalogue, and stays "running" only if the
\* application database fails.
RunsAreJobs == [][Tasks!Next]_(Tasks!vars)
=============================================================================
