---------------------------- MODULE MetadataTasks ----------------------------
(***************************************************************************)
(* The metadata tasks of one data source (src/src/api/datasources.py):     *)
(* POST /sync with its background task _run_sync, the full extraction      *)
(* started by /activate and by the admin trigger, and the learning runs    *)
(* started by POST /learn or after an extraction.  They exclude one        *)
(* another with rows of two log tables whose status is "running".  One     *)
(* action is the code between two awaits on the application database or on *)
(* the target database; what a transaction did is visible at its commit.   *)
(*                                                                         *)
(* A job is one chain of such work: a request, the task it starts, and for *)
(* an extraction the learning run it starts in turn.                       *)
(***************************************************************************)
EXTENDS Naturals

CONSTANTS Job,      \* the jobs that may run
          Table     \* the tables the target database may hold

VARIABLES pc,           \* pc[j]: where job j is, or how it ended
          syncLog,      \* status of j's metadata_sync_logs row
          learnLog,     \* status of j's metadata_learning_logs row
          stale,        \* stale[j]: j's sync log is 30 minutes old or older
          victim,       \* victim[j]: the stale log trigger_sync has read
          current,      \* current[j]: what j extracted from the target
          stored,       \* stored[j]: what j read from the catalogue
          catalog,      \* the rows of metadata_tables
          applied,      \* history: j committed its changes to the catalogue
          syncRivals,   \* history: sync logs "running" when j's check began
          learnRivals   \* history: learning logs "running" at that moment

logs == <<syncLog, learnLog, stale>>
data == <<current, stored, catalog, applied>>
history == <<syncRivals, learnRivals>>
vars == <<pc, logs, victim, data, history>>

SyncWork == {"extract", "read", "apply", "refresh", "settle", "extractFull", "storeFull"}
LearnWork == {"learn"}
Handling == {"checkLearn", "checkSync", "clear", "insertSync", "insertFull",
             "checkMutex", "insertLearn"}
InFlight == Handling \union SyncWork \union LearnWork \union {"knowledge"}
\* "error": HTTP 500; "stuck": the application database failed the job;
\* "lost": the process died.
Ended == {"done", "conflict", "error", "stuck", "lost"}

Running(log) == {l \in Job : log[l] = "running"}
Single(S) == \E l \in S : S = {l}

Goto(j, to) == pc' = [pc EXCEPT ![j] = to]

----------------------------------------------------------------------------
Init ==
    /\ pc = [j \in Job |-> "idle"]
    /\ syncLog = [j \in Job |-> "none"]
    /\ learnLog = [j \in Job |-> "none"]
    /\ stale = [j \in Job |-> FALSE]
    /\ victim = [j \in Job |-> {}]
    /\ current = [j \in Job |-> {}]
    /\ stored = [j \in Job |-> {}]
    /\ catalog = {}
    /\ applied = [j \in Job |-> FALSE]
    /\ syncRivals = [j \in Job |-> {}]
    /\ learnRivals = [j \in Job |-> {}]

\* Note who is at work when a check begins.
Arrive(j) ==
    /\ syncRivals' = [syncRivals EXCEPT ![j] = Running(syncLog) \ {j}]
    /\ learnRivals' = [learnRivals EXCEPT ![j] = Running(learnLog)]

----------------------------------------------------------------------------
(* POST /{ds_id}/sync: trigger_sync.                                       *)

PostSync(j) ==
    /\ pc[j] = "idle"
    /\ Goto(j, "checkLearn")
    /\ Arrive(j)
    /\ UNCHANGED <<logs, victim, data>>

\* Mutant: the learning log is not looked at.
CheckLearnSkipped(j) ==
    /\ pc[j] = "checkLearn"
    /\ Goto(j, "checkSync")
    /\ UNCHANGED <<logs, victim, data, history>>

\* 409 when one learning log is running; scalar_one_or_none raises on several.
CheckLearn(j) ==
    /\ pc[j] = "checkLearn"
    /\ \/ Running(learnLog) = {} /\ Goto(j, "checkSync")
       \/ Single(Running(learnLog)) /\ Goto(j, "conflict")
       \/ Running(learnLog) # {} /\ ~Single(Running(learnLog)) /\ Goto(j, "error")
    /\ UNCHANGED <<logs, victim, data, history>>

\* Mutant: a running log is cleared however young it is.
CheckSyncImpatient(j) ==
    /\ pc[j] = "checkSync"
    /\ \/ Running(syncLog) = {} /\ Goto(j, "insertSync") /\ UNCHANGED victim
       \/ /\ Single(Running(syncLog))
          /\ Goto(j, "clear")
          /\ victim' = [victim EXCEPT ![j] = Running(syncLog)]
    /\ UNCHANGED <<logs, data, history>>

\* A single running sync log refuses the request while it is fresh and is
\* remembered for clearing once it is stale.
CheckSync(j) ==
    /\ pc[j] = "checkSync"
    /\ \/ /\ Running(syncLog) = {}
          /\ Goto(j, "insertSync")
          /\ UNCHANGED victim
       \/ /\ Single(Running(syncLog))
          /\ \A l \in Running(syncLog) : ~stale[l]
          /\ Goto(j, "conflict")
          /\ UNCHANGED victim
       \/ /\ Single(Running(syncLog))
          /\ \A l \in Running(syncLog) : stale[l]
          /\ Goto(j, "clear")
          /\ victim' = [victim EXCEPT ![j] = Running(syncLog)]
       \/ /\ Running(syncLog) # {} /\ ~Single(Running(syncLog))
          /\ Goto(j, "error")
          /\ UNCHANGED victim
    /\ UNCHANGED <<logs, data, history>>

\* The row is updated by its id, whatever its status is by now.
ClearStale(j) ==
    /\ pc[j] = "clear"
    /\ syncLog' = [l \in Job |-> IF l \in victim[j] THEN "failed" ELSE syncLog[l]]
    /\ victim' = [victim EXCEPT ![j] = {}]
    /\ Goto(j, "insertSync")
    /\ UNCHANGED <<learnLog, stale, data, history>>

\* The commit of the new log; then the password is decrypted, which may raise,
\* and _run_sync is started.
InsertSync(j) ==
    /\ pc[j] = "insertSync"
    /\ syncLog' = [syncLog EXCEPT ![j] = "running"]
    /\ Goto(j, "extract") \/ Goto(j, "error")
    /\ UNCHANGED <<learnLog, stale, victim, data, history>>

----------------------------------------------------------------------------
(* _run_sync.                                                              *)

\* The except branch of a task whose session is still usable.
MarkFailed(j) ==
    /\ syncLog' = [syncLog EXCEPT ![j] = "failed"]
    /\ Goto(j, "done")

\* Extraction reads what tables the target holds by now; if it fails the session was never used.
Extract(j) ==
    /\ pc[j] = "extract"
    /\ \/ /\ \E tables \in SUBSET Table : current' = [current EXCEPT ![j] = tables]
          /\ Goto(j, "read")
          /\ UNCHANGED syncLog
       \/ MarkFailed(j) /\ UNCHANGED current
    /\ UNCHANGED <<learnLog, stale, victim, stored, catalog, applied, history>>

ReadStored(j) ==
    /\ pc[j] = "read"
    /\ stored' = [stored EXCEPT ![j] = catalog]
    /\ Goto(j, "apply")
    /\ UNCHANGED <<logs, victim, current, catalog, applied, history>>

Added(j) == current[j] \ stored[j]
Removed(j) == stored[j] \ current[j]

\* Change logs and catalogue rows are one transaction.  A table that another
\* job has added in the meantime breaks uq_metadata_tables_ds_schema_table.
Apply(j) ==
    /\ pc[j] = "apply"
    /\ Added(j) \intersect catalog = {}
    /\ catalog' = (catalog \union Added(j)) \ Removed(j)
    /\ applied' = [applied EXCEPT ![j] = TRUE]
    /\ current' = [current EXCEPT ![j] = {}]
    /\ stored' = [stored EXCEPT ![j] = {}]
    /\ Goto(j, "refresh")
    /\ UNCHANGED <<logs, victim, history>>

\* _refresh_l0_descriptions commits on its own.
RefreshDescriptions(j) ==
    /\ pc[j] = "refresh"
    /\ Goto(j, "settle")
    /\ UNCHANGED <<logs, victim, data, history>>

\* Mutant: success is recorded before the changes are applied.
SettleSyncEarly(j) ==
    /\ pc[j] \in {"apply", "settle"}
    /\ syncLog' = [syncLog EXCEPT ![j] = "success"]
    /\ Goto(j, "done")
    /\ UNCHANGED <<learnLog, stale, victim, data, history>>

\* The log is selected again and set, whatever it says by now.
SettleSync(j) ==
    /\ pc[j] = "settle"
    /\ syncLog' = [syncLog EXCEPT ![j] = "success"]
    /\ Goto(j, "done")
    /\ UNCHANGED <<learnLog, stale, victim, data, history>>

----------------------------------------------------------------------------
(* Full extraction: _run_metadata_extraction.                              *)

\* /activate extracts only a data source without metadata.
Activate(j) ==
    /\ pc[j] = "idle"
    /\ catalog = {}
    /\ Goto(j, "insertFull")
    /\ UNCHANGED <<logs, victim, data, history>>

\* POST /admin/sync/trigger looks at nothing.
AdminTrigger(j) ==
    /\ pc[j] = "idle"
    /\ Goto(j, "insertFull")
    /\ UNCHANGED <<logs, victim, data, history>>

InsertFull(j) ==
    /\ pc[j] = "insertFull"
    /\ syncLog' = [syncLog EXCEPT ![j] = "running"]
    /\ Goto(j, "extractFull")
    /\ UNCHANGED <<learnLog, stale, victim, data, history>>

ExtractFull(j) ==
    /\ pc[j] = "extractFull"
    /\ \/ /\ \E tables \in SUBSET Table : current' = [current EXCEPT ![j] = tables]
          /\ Goto(j, "storeFull")
          /\ UNCHANGED syncLog
       \/ MarkFailed(j) /\ UNCHANGED current
    /\ UNCHANGED <<learnLog, stale, victim, stored, catalog, applied, history>>

\* Every extracted table is inserted, in one transaction with the log's
\* success; the learning run is started.
StoreFull(j) ==
    /\ pc[j] = "storeFull"
    /\ current[j] \intersect catalog = {}
    /\ catalog' = catalog \union current[j]
    /\ applied' = [applied EXCEPT ![j] = TRUE]
    /\ current' = [current EXCEPT ![j] = {}]
    /\ syncLog' = [syncLog EXCEPT ![j] = "success"]
    /\ Goto(j, "checkMutex")
    /\ Arrive(j)
    /\ UNCHANGED <<learnLog, stale, victim, stored>>

----------------------------------------------------------------------------
(* Learning: trigger_learn, _run_learning_auto and run_learning.           *)

PostLearn(j) ==
    /\ pc[j] = "idle"
    /\ Goto(j, "checkMutex")
    /\ Arrive(j)
    /\ UNCHANGED <<logs, victim, data>>

\* A running sync log, stale or not, refuses the request or skips the run.
CheckMutex(j) ==
    /\ pc[j] = "checkMutex"
    /\ \/ Running(syncLog) = {} /\ Goto(j, "insertLearn")
       \/ Single(Running(syncLog)) /\ Goto(j, "conflict")
       \/ Running(syncLog) # {} /\ ~Single(Running(syncLog)) /\ Goto(j, "error")
    /\ UNCHANGED <<logs, victim, data, history>>

InsertLearn(j) ==
    /\ pc[j] = "insertLearn"
    /\ learnLog' = [learnLog EXCEPT ![j] = "running"]
    /\ Goto(j, "learn")
    /\ UNCHANGED <<syncLog, stale, victim, data, history>>

\* The log gets its final status, from the coverage or from the except branch;
\* after a commit the knowledge base is refreshed outside the log's span.
SettleLearn(j) ==
    /\ pc[j] = "learn"
    /\ learnLog' = [learnLog EXCEPT ![j] = "settled"]
    /\ Goto(j, "knowledge") \/ Goto(j, "done")
    /\ UNCHANGED <<syncLog, stale, victim, data, history>>

RefreshKnowledge(j) ==
    /\ pc[j] = "knowledge"
    /\ Goto(j, "done")
    /\ UNCHANGED <<logs, victim, data, history>>

----------------------------------------------------------------------------
(* The environment.                                                        *)

\* A statement or commit on the application database failed: HTTP 500 in a
\* handler; in a task the session is not rolled back, so that the except branch
\* cannot mark the log and gives up.
DatabaseFails(j) ==
    /\ pc[j] \in (Handling \union SyncWork \union LearnWork) \ {"extract", "extractFull"}
    /\ Goto(j, "stuck")
    /\ victim' = [victim EXCEPT ![j] = {}]
    /\ current' = [current EXCEPT ![j] = {}]
    /\ stored' = [stored EXCEPT ![j] = {}]
    /\ UNCHANGED <<logs, catalog, applied, history>>

\* The 30 minutes of _SYNC_LOCK_TIMEOUT_MINUTES pass; the task may be alive.
Age(j) ==
    /\ syncLog[j] = "running"
    /\ ~stale[j]
    /\ stale' = [stale EXCEPT ![j] = TRUE]
    /\ UNCHANGED <<pc, syncLog, learnLog, victim, data, history>>

\* The process dies and is restarted: only the database survives.
Crash ==
    /\ \E j \in Job : pc[j] \in InFlight
    /\ pc' = [j \in Job |-> IF pc[j] \in InFlight THEN "lost" ELSE pc[j]]
    /\ victim' = [j \in Job |-> {}]
    /\ current' = [j \in Job |-> {}]
    /\ stored' = [j \in Job |-> {}]
    /\ UNCHANGED <<logs, catalog, applied, history>>

Next ==
    \/ \E j \in Job :
        \/ PostSync(j) \/ CheckLearn(j) \/ CheckSync(j) \/ ClearStale(j) \/ InsertSync(j)
        \/ Extract(j) \/ ReadStored(j) \/ Apply(j) \/ RefreshDescriptions(j) \/ SettleSync(j)
        \/ Activate(j) \/ AdminTrigger(j) \/ InsertFull(j) \/ ExtractFull(j) \/ StoreFull(j)
        \/ PostLearn(j) \/ CheckMutex(j) \/ InsertLearn(j) \/ SettleLearn(j) \/ RefreshKnowledge(j)
        \/ DatabaseFails(j) \/ Age(j)
    \/ Crash

Spec == Init /\ [][Next]_vars

----------------------------------------------------------------------------
TypeOK ==
    /\ pc \in [Job -> {"idle"} \union InFlight \union Ended]
    /\ syncLog \in [Job -> {"none", "running", "success", "failed"}]
    /\ learnLog \in [Job -> {"none", "running", "settled"}]
    /\ stale \in [Job -> BOOLEAN]
    /\ victim \in [Job -> SUBSET Job]
    /\ current \in [Job -> SUBSET Table]
    /\ stored \in [Job -> SUBSET Table]
    /\ catalog \in SUBSET Table
    /\ applied \in [Job -> BOOLEAN]
    /\ syncRivals \in [Job -> SUBSET Job]
    /\ learnRivals \in [Job -> SUBSET Job]

Syncing(j) == pc[j] \in SyncWork
Learning(j) == pc[j] \in LearnWork

\* The work that a check protects, from the moment the check has passed.
PastLearnCheck(j) ==
    pc[j] \in {"checkSync", "clear", "insertSync", "extract", "read", "apply", "refresh", "settle"}
PastSyncCheck(j) ==
    pc[j] \in {"clear", "insertSync", "extract", "read", "apply", "refresh", "settle",
               "insertLearn", "learn"}

\* The mutex excludes everything that was at work when the request arrived:
\* trigger_sync passes a check only after each sync or learning run it met has
\* stopped, and a learning run after each sync it met; only a sync that has
\* been running for 30 minutes can be overtaken.
LateArrivalsWait ==
    \A j, l \in Job :
        /\ PastSyncCheck(j) /\ l \in syncRivals[j] /\ Syncing(l) => stale[l]
        /\ PastLearnCheck(j) /\ l \in learnRivals[j] => ~Learning(l)

\* A sync log reads "success" only when its job's changes are in the
\* catalogue, a working job's log reads "running" while it is fresh, a job that
\* marks its own log "failed" has changed nothing, and a log reads "running"
\* after its job ended only if the job died, lost its session or could not start
\* its task.
LogsTellTheTruth ==
    \A j \in Job :
        /\ syncLog[j] = "success" => applied[j]
        /\ syncLog[j] = "failed" /\ applied[j] => stale[j]
        /\ Syncing(j) /\ ~stale[j] => syncLog[j] = "running"
        /\ syncLog[j] = "running" => Syncing(j) \/ pc[j] \in {"error", "stuck", "lost"}
        /\ learnLog[j] = "running" => Learning(j) \/ pc[j] \in {"stuck", "lost"}

\* The parts of the inductive invariant behind the properties above.
\* What a job has recorded and committed by the place it is at.
JobLifecycle ==
    \A j \in Job :
        /\ pc[j] \in {"idle", "checkLearn", "checkSync", "clear", "insertSync", "insertFull"}
              => syncLog[j] = "none"
        /\ pc[j] \in {"idle", "checkLearn", "checkSync", "clear", "insertSync", "insertFull",
                      "extract", "read", "apply", "extractFull", "storeFull"} => ~applied[j]
        /\ pc[j] \in {"refresh", "settle"} => applied[j]
        /\ Syncing(j) => syncLog[j] \in {"running", "failed"}
        /\ pc[j] \in ({"idle"} \union Handling \union SyncWork) => learnLog[j] = "none"
        /\ Learning(j) => learnLog[j] = "running"

\* What is noted of other jobs' logs stays true of them.
Noted ==
    /\ \A j \in Job : stale[j] => syncLog[j] # "none"
    /\ \A j, l \in Job :
          /\ l \in victim[j] => stale[l]
          /\ l \in syncRivals[j] => syncLog[l] # "none"
          /\ l \in learnRivals[j] => learnLog[l] # "none"

TasksInv == TypeOK /\ LateArrivalsWait /\ LogsTellTheTruth /\ JobLifecycle /\ Noted

\* Only a log that was stale is ever rewritten after it was settled, by a
\* request that clears it or by a slow task that outlived the clearing.
OnlyStaleRewritten ==
    [][\A j \in Job :
          (syncLog[j] \in {"success", "failed"} /\ syncLog'[j] # syncLog[j])
              => stale[j] /\ syncLog'[j] \in {"success", "failed"}]_vars

\* "Any lock older than SYNC_LOCK_TIMEOUT_MINUTES is considered stale and
\* automatically marked as failed so the user can retry": a request that finds
\* nothing but stale sync locks of dead tasks goes on to clear them.
StaleLocksYield ==
    [][\A j \in Job :
          (/\ pc[j] = "checkSync"
           /\ pc'[j] \in {"conflict", "error"}
           /\ Running(syncLog) # {})
              => \E l \in Running(syncLog) : ~stale[l] \/ Syncing(l)]_vars

\* "Verify learning/sync mutual exclusion": no learning run is at work while a
\* sync task of the same data source is.
SyncLearnExclusive ==
    ~ \E j, l \in Job : Syncing(j) /\ Learning(l)
=============================================================================
