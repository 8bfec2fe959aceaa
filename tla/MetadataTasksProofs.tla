------------------------- MODULE MetadataTasksProofs -------------------------
(***************************************************************************)
(* For any set of jobs and tables, the metadata tasks keep the properties  *)
(* MCMetadataTasks.cfg checks on three jobs.                               *)
(***************************************************************************)
EXTENDS MetadataTasks, TLAPS

\* Every step keeps the types.
LEMMA TypeKept ==
    ASSUME TasksInv, [Next]_vars
    PROVE  TypeOK'
<1> USE DEF TasksInv, TypeOK, Goto, Syncing, Learning, SyncWork, LearnWork,
           Handling, InFlight, Ended, vars, logs, data, history
<1>1. ASSUME NEW j \in Job, PostSync(j)
      PROVE  TypeOK'
    BY <1>1 DEF PostSync, Arrive, Running
<1>2. ASSUME NEW j \in Job, CheckLearn(j)
      PROVE  TypeOK'
    BY <1>2 DEF CheckLearn, Running, Single
<1>3. ASSUME NEW j \in Job, CheckSync(j)
      PROVE  TypeOK'
    BY <1>3 DEF CheckSync, Running, Single
<1>4. ASSUME NEW j \in Job, ClearStale(j)
      PROVE  TypeOK'
    BY <1>4 DEF ClearStale
<1>5. ASSUME NEW j \in Job, InsertSync(j)
      PROVE  TypeOK'
    BY <1>5 DEF InsertSync
<1>6. ASSUME NEW j \in Job, Extract(j)
      PROVE  TypeOK'
    BY <1>6 DEF Extract, MarkFailed
<1>7. ASSUME NEW j \in Job, ReadStored(j)
      PROVE  TypeOK'
    BY <1>7 DEF ReadStored
<1>8. ASSUME NEW j \in Job, Apply(j)
      PROVE  TypeOK'
    BY <1>8 DEF Apply, Added, Removed
<1>9. ASSUME NEW j \in Job, RefreshDescriptions(j)
      PROVE  TypeOK'
    BY <1>9 DEF RefreshDescriptions
<1>10. ASSUME NEW j \in Job, SettleSync(j)
      PROVE  TypeOK'
    BY <1>10 DEF SettleSync
<1>11. ASSUME NEW j \in Job, Activate(j)
      PROVE  TypeOK'
    BY <1>11 DEF Activate
<1>12. ASSUME NEW j \in Job, AdminTrigger(j)
      PROVE  TypeOK'
    BY <1>12 DEF AdminTrigger
<1>13. ASSUME NEW j \in Job, InsertFull(j)
      PROVE  TypeOK'
    BY <1>13 DEF InsertFull
<1>14. ASSUME NEW j \in Job, ExtractFull(j)
      PROVE  TypeOK'
    BY <1>14 DEF ExtractFull, MarkFailed
<1>15. ASSUME NEW j \in Job, StoreFull(j)
      PROVE  TypeOK'
    BY <1>15 DEF StoreFull, Arrive, Running
<1>16. ASSUME NEW j \in Job, PostLearn(j)
      PROVE  TypeOK'
    BY <1>16 DEF PostLearn, Arrive, Running
<1>17. ASSUME NEW j \in Job, CheckMutex(j)
      PROVE  TypeOK'
    BY <1>17 DEF CheckMutex, Running, Single
<1>18. ASSUME NEW j \in Job, InsertLearn(j)
      PROVE  TypeOK'
    BY <1>18 DEF InsertLearn
<1>19. ASSUME NEW j \in Job, SettleLearn(j)
      PROVE  TypeOK'
    BY <1>19 DEF SettleLearn
<1>20. ASSUME NEW j \in Job, RefreshKnowledge(j)
      PROVE  TypeOK'
    BY <1>20 DEF RefreshKnowledge
<1>21. ASSUME NEW j \in Job, DatabaseFails(j)
      PROVE  TypeOK'
    BY <1>21 DEF DatabaseFails
<1>22. ASSUME NEW j \in Job, Age(j)
      PROVE  TypeOK'
    BY <1>22 DEF Age
<1>23. CASE Crash
    BY <1>23 DEF Crash
<1>24. CASE UNCHANGED vars
    BY <1>24
<1>25. QED
    BY <1>1, <1>2, <1>3, <1>4, <1>5, <1>6, <1>7, <1>8, <1>9, <1>10, <1>11,
       <1>12, <1>13, <1>14, <1>15, <1>16, <1>17, <1>18, <1>19, <1>20, <1>21,
       <1>22, <1>23, <1>24 DEF Next

\* Every step keeps what a job has recorded by its place.
LEMMA LifecycleKept ==
    ASSUME TasksInv, [Next]_vars
    PROVE  JobLifecycle'
<1> USE DEF TasksInv, TypeOK, JobLifecycle, Noted, Goto, Syncing, Learning,
           SyncWork, LearnWork, Handling, InFlight, Ended, vars, logs, data,
           history
<1>1. ASSUME NEW j \in Job, PostSync(j)
      PROVE  JobLifecycle'
    BY <1>1 DEF PostSync, Arrive, Running
<1>2. ASSUME NEW j \in Job, CheckLearn(j)
      PROVE  JobLifecycle'
    BY <1>2 DEF CheckLearn, Running, Single
<1>3. ASSUME NEW j \in Job, CheckSync(j)
      PROVE  JobLifecycle'
    BY <1>3 DEF CheckSync, Running, Single
<1>4. ASSUME NEW j \in Job, ClearStale(j)
      PROVE  JobLifecycle'
    BY <1>4 DEF ClearStale
<1>5. ASSUME NEW j \in Job, InsertSync(j)
      PROVE  JobLifecycle'
    BY <1>5 DEF InsertSync
<1>6. ASSUME NEW j \in Job, Extract(j)
      PROVE  JobLifecycle'
    BY <1>6 DEF Extract, MarkFailed
<1>7. ASSUME NEW j \in Job, ReadStored(j)
      PROVE  JobLifecycle'
    BY <1>7 DEF ReadStored
<1>8. ASSUME NEW j \in Job, Apply(j)
      PROVE  JobLifecycle'
    BY <1>8 DEF Apply, Added, Removed
<1>9. ASSUME NEW j \in Job, RefreshDescriptions(j)
      PROVE  JobLifecycle'
    BY <1>9 DEF RefreshDescriptions
<1>10. ASSUME NEW j \in Job, SettleSync(j)
      PROVE  JobLifecycle'
    BY <1>10 DEF SettleSync
<1>11. ASSUME NEW j \in Job, Activate(j)
      PROVE  JobLifecycle'
    BY <1>11 DEF Activate
<1>12. ASSUME NEW j \in Job, AdminTrigger(j)
      PROVE  JobLifecycle'
    BY <1>12 DEF AdminTrigger
<1>13. ASSUME NEW j \in Job, InsertFull(j)
      PROVE  JobLifecycle'
    BY <1>13 DEF InsertFull
<1>14. ASSUME NEW j \in Job, ExtractFull(j)
      PROVE  JobLifecycle'
    BY <1>14 DEF ExtractFull, MarkFailed
<1>15. ASSUME NEW j \in Job, StoreFull(j)
      PROVE  JobLifecycle'
    BY <1>15 DEF StoreFull, Arrive, Running
<1>16. ASSUME NEW j \in Job, PostLearn(j)
      PROVE  JobLifecycle'
    BY <1>16 DEF PostLearn, Arrive, Running
<1>17. ASSUME NEW j \in Job, CheckMutex(j)
      PROVE  JobLifecycle'
    BY <1>17 DEF CheckMutex, Running, Single
<1>18. ASSUME NEW j \in Job, InsertLearn(j)
      PROVE  JobLifecycle'
    BY <1>18 DEF InsertLearn
<1>19. ASSUME NEW j \in Job, SettleLearn(j)
      PROVE  JobLifecycle'
    BY <1>19 DEF SettleLearn
<1>20. ASSUME NEW j \in Job, RefreshKnowledge(j)
      PROVE  JobLifecycle'
    BY <1>20 DEF RefreshKnowledge
<1>21. ASSUME NEW j \in Job, DatabaseFails(j)
      PROVE  JobLifecycle'
    BY <1>21 DEF DatabaseFails
<1>22. ASSUME NEW j \in Job, Age(j)
      PROVE  JobLifecycle'
    BY <1>22 DEF Age
<1>23. CASE Crash
    BY <1>23 DEF Crash
<1>24. CASE UNCHANGED vars
    BY <1>24
<1>25. QED
    BY <1>1, <1>2, <1>3, <1>4, <1>5, <1>6, <1>7, <1>8, <1>9, <1>10, <1>11,
       <1>12, <1>13, <1>14, <1>15, <1>16, <1>17, <1>18, <1>19, <1>20, <1>21,
       <1>22, <1>23, <1>24 DEF Next

\* Every step keeps what is noted of other jobs' logs.
LEMMA NotedKept ==
    ASSUME TasksInv, [Next]_vars
    PROVE  Noted'
<1> USE DEF TasksInv, TypeOK, Noted, JobLifecycle, Goto, Syncing, Learning,
           SyncWork, LearnWork, Handling, InFlight, Ended, vars, logs, data,
           history
<1>1. ASSUME NEW j \in Job, PostSync(j)
      PROVE  Noted'
    BY <1>1 DEF PostSync, Arrive, Running
<1>2. ASSUME NEW j \in Job, CheckLearn(j)
      PROVE  Noted'
    BY <1>2 DEF CheckLearn, Running, Single
<1>3. ASSUME NEW j \in Job, CheckSync(j)
      PROVE  Noted'
    BY <1>3 DEF CheckSync, Running, Single
<1>4. ASSUME NEW j \in Job, ClearStale(j)
      PROVE  Noted'
    BY <1>4 DEF ClearStale
<1>5. ASSUME NEW j \in Job, InsertSync(j)
      PROVE  Noted'
    BY <1>5 DEF InsertSync
<1>6. ASSUME NEW j \in Job, Extract(j)
      PROVE  Noted'
    BY <1>6 DEF Extract, MarkFailed
<1>7. ASSUME NEW j \in Job, ReadStored(j)
      PROVE  Noted'
    BY <1>7 DEF ReadStored
<1>8. ASSUME NEW j \in Job, Apply(j)
      PROVE  Noted'
    BY <1>8 DEF Apply, Added, Removed
<1>9. ASSUME NEW j \in Job, RefreshDescriptions(j)
      PROVE  Noted'
    BY <1>9 DEF RefreshDescriptions
<1>10. ASSUME NEW j \in Job, SettleSync(j)
      PROVE  Noted'
    BY <1>10 DEF SettleSync
<1>11. ASSUME NEW j \in Job, Activate(j)
      PROVE  Noted'
    BY <1>11 DEF Activate
<1>12. ASSUME NEW j \in Job, AdminTrigger(j)
      PROVE  Noted'
    BY <1>12 DEF AdminTrigger
<1>13. ASSUME NEW j \in Job, InsertFull(j)
      PROVE  Noted'
    BY <1>13 DEF InsertFull
<1>14. ASSUME NEW j \in Job, ExtractFull(j)
      PROVE  Noted'
    BY <1>14 DEF ExtractFull, MarkFailed
<1>15. ASSUME NEW j \in Job, StoreFull(j)
      PROVE  Noted'
    BY <1>15 DEF StoreFull, Arrive, Running
<1>16. ASSUME NEW j \in Job, PostLearn(j)
      PROVE  Noted'
    BY <1>16 DEF PostLearn, Arrive, Running
<1>17. ASSUME NEW j \in Job, CheckMutex(j)
      PROVE  Noted'
    BY <1>17 DEF CheckMutex, Running, Single
<1>18. ASSUME NEW j \in Job, InsertLearn(j)
      PROVE  Noted'
    BY <1>18 DEF InsertLearn
<1>19. ASSUME NEW j \in Job, SettleLearn(j)
      PROVE  Noted'
    BY <1>19 DEF SettleLearn
<1>20. ASSUME NEW j \in Job, RefreshKnowledge(j)
      PROVE  Noted'
    BY <1>20 DEF RefreshKnowledge
<1>21. ASSUME NEW j \in Job, DatabaseFails(j)
      PROVE  Noted'
    BY <1>21 DEF DatabaseFails
<1>22. ASSUME NEW j \in Job, Age(j)
      PROVE  Noted'
    BY <1>22 DEF Age
<1>23. CASE Crash
    BY <1>23 DEF Crash
<1>24. CASE UNCHANGED vars
    BY <1>24
<1>25. QED
    BY <1>1, <1>2, <1>3, <1>4, <1>5, <1>6, <1>7, <1>8, <1>9, <1>10, <1>11,
       <1>12, <1>13, <1>14, <1>15, <1>16, <1>17, <1>18, <1>19, <1>20, <1>21,
       <1>22, <1>23, <1>24 DEF Next

\* Every step keeps the logs truthful.
LEMMA LogsKept ==
    ASSUME TasksInv, [Next]_vars
    PROVE  LogsTellTheTruth'
<1> USE DEF TasksInv, TypeOK, LogsTellTheTruth, JobLifecycle, Noted, Goto,
           Syncing, Learning, SyncWork, LearnWork, Handling, InFlight,
           Ended, vars, logs, data, history
<1>1. ASSUME NEW j \in Job, PostSync(j)
      PROVE  LogsTellTheTruth'
    BY <1>1 DEF PostSync, Arrive, Running
<1>2. ASSUME NEW j \in Job, CheckLearn(j)
      PROVE  LogsTellTheTruth'
    BY <1>2 DEF CheckLearn, Running, Single
<1>3. ASSUME NEW j \in Job, CheckSync(j)
      PROVE  LogsTellTheTruth'
    BY <1>3 DEF CheckSync, Running, Single
<1>4. ASSUME NEW j \in Job, ClearStale(j)
      PROVE  LogsTellTheTruth'
    BY <1>4 DEF ClearStale
<1>5. ASSUME NEW j \in Job, InsertSync(j)
      PROVE  LogsTellTheTruth'
    BY <1>5 DEF InsertSync
<1>6. ASSUME NEW j \in Job, Extract(j)
      PROVE  LogsTellTheTruth'
    BY <1>6 DEF Extract, MarkFailed
<1>7. ASSUME NEW j \in Job, ReadStored(j)
      PROVE  LogsTellTheTruth'
    BY <1>7 DEF ReadStored
<1>8. ASSUME NEW j \in Job, Apply(j)
      PROVE  LogsTellTheTruth'
    BY <1>8 DEF Apply, Added, Removed
<1>9. ASSUME NEW j \in Job, RefreshDescriptions(j)
      PROVE  LogsTellTheTruth'
    BY <1>9 DEF RefreshDescriptions
<1>10. ASSUME NEW j \in Job, SettleSync(j)
      PROVE  LogsTellTheTruth'
    BY <1>10 DEF SettleSync
<1>11. ASSUME NEW j \in Job, Activate(j)
      PROVE  LogsTellTheTruth'
    BY <1>11 DEF Activate
<1>12. ASSUME NEW j \in Job, AdminTrigger(j)
      PROVE  LogsTellTheTruth'
    BY <1>12 DEF AdminTrigger
<1>13. ASSUME NEW j \in Job, InsertFull(j)
      PROVE  LogsTellTheTruth'
    BY <1>13 DEF InsertFull
<1>14. ASSUME NEW j \in Job, ExtractFull(j)
      PROVE  LogsTellTheTruth'
    BY <1>14 DEF ExtractFull, MarkFailed
<1>15. ASSUME NEW j \in Job, StoreFull(j)
      PROVE  LogsTellTheTruth'
    BY <1>15 DEF StoreFull, Arrive, Running
<1>16. ASSUME NEW j \in Job, PostLearn(j)
      PROVE  LogsTellTheTruth'
    BY <1>16 DEF PostLearn, Arrive, Running
<1>17. ASSUME NEW j \in Job, CheckMutex(j)
      PROVE  LogsTellTheTruth'
    BY <1>17 DEF CheckMutex, Running, Single
<1>18. ASSUME NEW j \in Job, InsertLearn(j)
      PROVE  LogsTellTheTruth'
    BY <1>18 DEF InsertLearn
<1>19. ASSUME NEW j \in Job, SettleLearn(j)
      PROVE  LogsTellTheTruth'
    BY <1>19 DEF SettleLearn
<1>20. ASSUME NEW j \in Job, RefreshKnowledge(j)
      PROVE  LogsTellTheTruth'
    BY <1>20 DEF RefreshKnowledge
<1>21. ASSUME NEW j \in Job, DatabaseFails(j)
      PROVE  LogsTellTheTruth'
    BY <1>21 DEF DatabaseFails
<1>22. ASSUME NEW j \in Job, Age(j)
      PROVE  LogsTellTheTruth'
    BY <1>22 DEF Age
<1>23. CASE Crash
    BY <1>23 DEF Crash
<1>24. CASE UNCHANGED vars
    BY <1>24
<1>25. QED
    BY <1>1, <1>2, <1>3, <1>4, <1>5, <1>6, <1>7, <1>8, <1>9, <1>10, <1>11,
       <1>12, <1>13, <1>14, <1>15, <1>16, <1>17, <1>18, <1>19, <1>20, <1>21,
       <1>22, <1>23, <1>24 DEF Next

\* Every step keeps the exclusion of what a request met.
LEMMA ExclusionKept ==
    ASSUME TasksInv, [Next]_vars
    PROVE  LateArrivalsWait'
<1> USE DEF TasksInv, TypeOK, LateArrivalsWait, LogsTellTheTruth,
           JobLifecycle, Noted, PastSyncCheck, PastLearnCheck, Goto,
           Syncing, Learning, SyncWork, LearnWork, Handling, InFlight,
           Ended, vars, logs, data, history
<1>1. ASSUME NEW j \in Job, PostSync(j)
      PROVE  LateArrivalsWait'
    BY <1>1 DEF PostSync, Arrive, Running
<1>2. ASSUME NEW j \in Job, CheckLearn(j)
      PROVE  LateArrivalsWait'
    BY <1>2 DEF CheckLearn, Running, Single
<1>3. ASSUME NEW j \in Job, CheckSync(j)
      PROVE  LateArrivalsWait'
    BY <1>3 DEF CheckSync, Running, Single
<1>4. ASSUME NEW j \in Job, ClearStale(j)
      PROVE  LateArrivalsWait'
    BY <1>4 DEF ClearStale
<1>5. ASSUME NEW j \in Job, InsertSync(j)
      PROVE  LateArrivalsWait'
    BY <1>5 DEF InsertSync
<1>6. ASSUME NEW j \in Job, Extract(j)
      PROVE  LateArrivalsWait'
    BY <1>6 DEF Extract, MarkFailed
<1>7. ASSUME NEW j \in Job, ReadStored(j)
      PROVE  LateArrivalsWait'
    BY <1>7 DEF ReadStored
<1>8. ASSUME NEW j \in Job, Apply(j)
      PROVE  LateArrivalsWait'
    BY <1>8 DEF Apply, Added, Removed
<1>9. ASSUME NEW j \in Job, RefreshDescriptions(j)
      PROVE  LateArrivalsWait'
    BY <1>9 DEF RefreshDescriptions
<1>10. ASSUME NEW j \in Job, SettleSync(j)
      PROVE  LateArrivalsWait'
    BY <1>10 DEF SettleSync
<1>11. ASSUME NEW j \in Job, Activate(j)
      PROVE  LateArrivalsWait'
    BY <1>11 DEF Activate
<1>12. ASSUME NEW j \in Job, AdminTrigger(j)
      PROVE  LateArrivalsWait'
    BY <1>12 DEF AdminTrigger
<1>13. ASSUME NEW j \in Job, InsertFull(j)
      PROVE  LateArrivalsWait'
    BY <1>13 DEF InsertFull
<1>14. ASSUME NEW j \in Job, ExtractFull(j)
      PROVE  LateArrivalsWait'
    BY <1>14 DEF ExtractFull, MarkFailed
<1>15. ASSUME NEW j \in Job, StoreFull(j)
      PROVE  LateArrivalsWait'
    BY <1>15 DEF StoreFull, Arrive, Running
<1>16. ASSUME NEW j \in Job, PostLearn(j)
      PROVE  LateArrivalsWait'
    BY <1>16 DEF PostLearn, Arrive, Running
<1>17. ASSUME NEW j \in Job, CheckMutex(j)
      PROVE  LateArrivalsWait'
    BY <1>17 DEF CheckMutex, Running, Single
<1>18. ASSUME NEW j \in Job, InsertLearn(j)
      PROVE  LateArrivalsWait'
    BY <1>18 DEF InsertLearn
<1>19. ASSUME NEW j \in Job, SettleLearn(j)
      PROVE  LateArrivalsWait'
    BY <1>19 DEF SettleLearn
<1>20. ASSUME NEW j \in Job, RefreshKnowledge(j)
      PROVE  LateArrivalsWait'
    BY <1>20 DEF RefreshKnowledge
<1>21. ASSUME NEW j \in Job, DatabaseFails(j)
      PROVE  LateArrivalsWait'
    BY <1>21 DEF DatabaseFails
<1>22. ASSUME NEW j \in Job, Age(j)
      PROVE  LateArrivalsWait'
    BY <1>22 DEF Age
<1>23. CASE Crash
    BY <1>23 DEF Crash
<1>24. CASE UNCHANGED vars
    BY <1>24
<1>25. QED
    BY <1>1, <1>2, <1>3, <1>4, <1>5, <1>6, <1>7, <1>8, <1>9, <1>10, <1>11,
       <1>12, <1>13, <1>14, <1>15, <1>16, <1>17, <1>18, <1>19, <1>20, <1>21,
       <1>22, <1>23, <1>24 DEF Next


\* The jobs start with nothing recorded.
LEMMA InitTasks == Init => TasksInv
  BY DEF Init, TasksInv, TypeOK, LateArrivalsWait, LogsTellTheTruth, JobLifecycle, Noted,
         Syncing, Learning, PastSyncCheck, PastLearnCheck, SyncWork, LearnWork, Handling,
         InFlight, Ended

\* TasksInv is inductive.
THEOREM TasksInvariant == Spec => []TasksInv
<1>1. TasksInv /\ [Next]_vars => TasksInv'
  BY TypeKept, LifecycleKept, NotedKept, LogsKept, ExclusionKept DEF TasksInv
<1>2. QED
  BY InitTasks, <1>1, PTL DEF Spec

\* Job states, logs, snapshots and histories keep their types.
THEOREM TypeCorrect == Spec => []TypeOK
<1>1. TasksInv => TypeOK
  BY DEF TasksInv
<1>2. QED
  BY TasksInvariant, <1>1, PTL

\* trigger_sync and the learning triggers wait for whatever was at work when
\* they arrived, however many requests, tasks and crashes there are.
THEOREM RequestsExclude == Spec => []LateArrivalsWait
<1>1. TasksInv => LateArrivalsWait
  BY DEF TasksInv
<1>2. QED
  BY TasksInvariant, <1>1, PTL

\* What the log tables say of a job agrees with what it did.
THEOREM LogsTruthful == Spec => []LogsTellTheTruth
<1>1. TasksInv => LogsTellTheTruth
  BY DEF TasksInv
<1>2. QED
  BY TasksInvariant, <1>1, PTL

\* Only stale logs are rewritten after they were settled.
THEOREM SettledLogsStay == Spec => OnlyStaleRewritten
<1>1. TasksInv /\ [Next]_vars =>
         [\A j \in Job :
             (syncLog[j] \in {"success", "failed"} /\ syncLog'[j] # syncLog[j])
                 => stale[j] /\ syncLog'[j] \in {"success", "failed"}]_vars
  <2> SUFFICES ASSUME TasksInv, Next, NEW l \in Job,
                      syncLog[l] \in {"success", "failed"}, syncLog'[l] # syncLog[l]
               PROVE  stale[l] /\ syncLog'[l] \in {"success", "failed"}
    OBVIOUS
  <2> USE DEF TasksInv, TypeOK, JobLifecycle, Noted, LogsTellTheTruth, Syncing, SyncWork, logs
  <2>1. CASE \E j \in Job : \/ ClearStale(j) \/ InsertSync(j) \/ InsertFull(j)
                            \/ SettleSync(j) \/ StoreFull(j)
    BY <2>1 DEF ClearStale, InsertSync, InsertFull, SettleSync, StoreFull
  <2>2. CASE \E j \in Job : Extract(j) \/ ExtractFull(j)
    BY <2>2 DEF Extract, ExtractFull, MarkFailed
  <2>3. QED
    BY <2>1, <2>2 DEF Next, PostSync, CheckLearn, CheckSync, ReadStored, Apply,
       RefreshDescriptions, Activate, AdminTrigger, PostLearn, CheckMutex, InsertLearn,
       SettleLearn, RefreshKnowledge, DatabaseFails, Age, Crash
<1>2. QED
  BY TasksInvariant, <1>1, PTL DEF Spec, OnlyStaleRewritten
=============================================================================
