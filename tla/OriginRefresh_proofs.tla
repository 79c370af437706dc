------------------------- MODULE OriginRefresh_proofs -------------------------
(***************************************************************************)
(* Theorems about OriginRefresh, for any paths, contents, clients and      *)
(* generations.                                                            *)
(***************************************************************************)
EXTENDS OriginRefresh, TLAPS

------------------------------------------------------------------------------
(* What the operators of OriginFreshness return.                           *)

(* A template is a state of its file, or absent.                           *)
LEMMA TemplateOfType ==
  ASSUME NEW files \in Files, NEW p \in Paths
  PROVE  TemplateOf(files, p) \in FileState
BY DEF TemplateOf, Files, Index, FileState

LEMMA TemplateUpdateType ==
  ASSUME NEW old \in Files, NEW files \in Files, NEW diff
  PROVE  TemplateUpdate(old, diff, files) \in Files
<1> SUFFICES ASSUME NEW p \in Paths
             PROVE  TemplateUpdate(old, diff, files)[p] \in FileState
  BY DEF TemplateUpdate, Files, Index
<1>1. TemplateOf(files, p) \in FileState
  BY TemplateOfType
<1>2. old[p] \in FileState /\ Absent \in FileState
  BY DEF Files, Index, FileState
<1> QED
  BY <1>1, <1>2 DEF TemplateUpdate

(* Everything a listing adds or modifies is a path it holds.               *)
LEMMA ChangedPathsAreKnown ==
  ASSUME NEW previous, NEW next
  PROVE  ChangedPaths(Diff(previous, next)) \subseteq Known(next)
BY DEF ChangedPaths, Diff

LEMMA NoFilesType == NoFiles \in Files
BY DEF NoFiles, Files, Index, FileState

LEMMA NoJobType == NoJob \in JobType
BY NoFilesType DEF NoJob, JobType, Files, Configs

LEMMA FilesInType ==
  ASSUME NEW dir \in Files \cup {NoDir}
  PROVE  FilesIn(dir) \in Files
BY NoFilesType DEF FilesIn

------------------------------------------------------------------------------
(* Type correctness.                                                       *)

LEMMA InitTypeOK == Init => TypeOK
<1> SUFFICES ASSUME Init PROVE TypeOK
  OBVIOUS
<1>1. NoRuntime \in RuntimeType
  BY DEF NoRuntime, RuntimeType
<1>2. pc \in [Tasks -> Steps]
  BY DEF Init, Steps, Ended
<1> QED
  BY <1>1, <1>2, NoFilesType, NoJobType DEF Init, TypeOK, Configs

(* A step of the holder that leaves everything but pc and job alone.       *)
LEMMA JobStepTypeOK ==
  ASSUME TypeOK, NEW t \in Tasks, NEW step \in Steps, NEW j \in JobType,
         Goto(t, step), job' = [job EXCEPT ![t] = j],
         UNCHANGED <<lock, mirror, stores, runtime, cdn, detached>>
  PROVE  TypeOK'
<1>1. pc' \in [Tasks -> Steps]
  BY DEF TypeOK, Goto
<1>2. job' \in [Tasks -> JobType]
  BY DEF TypeOK
<1> QED
  BY <1>1, <1>2 DEF TypeOK, cdn, stores

(* End and Fail.                                                           *)
LEMMA EndTypeOK ==
  ASSUME TypeOK, NEW t \in Tasks, NEW outcome \in Ended, End(t, outcome)
  PROVE  /\ lock' \in Tasks \cup {NoTask}
         /\ pc' \in [Tasks -> Steps]
         /\ job' \in [Tasks -> JobType]
<1>1. outcome \in Steps
  BY DEF Steps
<1> QED
  BY <1>1, NoJobType DEF TypeOK, End, Goto, ReleaseLock

LEMMA FailTypeOK ==
  ASSUME TypeOK, NEW t \in Tasks, Fail(t)
  PROVE  TypeOK'
<1>1. "failed" \in Ended
  BY DEF Ended
<1>2. runtime' \in RuntimeType
  BY DEF TypeOK, Fail, RuntimeType
<1> QED
  BY <1>1, <1>2, EndTypeOK DEF Fail, TypeOK, cdn, stores

(* Answers go stale and are purged; what is left unpurged is stale.        *)
LEMMA CdnTypeOK ==
  ASSUME TypeOK,
         \/ \E paths : Outdate(paths)
         \/ \E plan, done : Purge(plan, done)
         \/ UNCHANGED cdn
  PROVE  cdnStale' \subseteq CdnUrls /\ unpurged' \subseteq cdnStale'
BY DEF TypeOK, Outdate, Purge, AnswersFrom, cdn

LEMMA NextTypeOK == TypeOK /\ [Next]_vars => TypeOK'
<1> SUFFICES ASSUME TypeOK, [Next]_vars PROVE TypeOK'
  OBVIOUS
<1> USE DEF Configs
<1>1. ASSUME NEW t \in Tasks, TryAcquire(t) PROVE TypeOK'
  <2> DEFINE j == [NoJob EXCEPT !.previous = index]
  <2>1. j \in JobType
    BY NoJobType DEF TypeOK, JobType
  <2>2. pc' \in [Tasks -> Steps] /\ job' \in [Tasks -> JobType]
    BY <1>1, <2>1 DEF TryAcquire, TypeOK, Goto, Steps, Staging
  <2> QED
    BY <1>1, <2>2 DEF TryAcquire, TypeOK, cdn, stores
<1>2. ASSUME NEW t \in Tasks, AlreadyRunning(t) PROVE TypeOK'
  BY <1>2 DEF AlreadyRunning, TypeOK, Goto, Steps, Ended, cdn, stores
<1>3. ASSUME NEW t \in Tasks, PrepareStaging(t) PROVE TypeOK'
  <2> DEFINE j == [job[t] EXCEPT !.staging = FilesIn(mirror)]
  <2>1. j \in JobType
    BY FilesInType DEF TypeOK, JobType
  <2> QED
    BY <1>3, <2>1, JobStepTypeOK DEF PrepareStaging, Steps, Staging
<1>4. ASSUME NEW t \in Tasks, ListObjects(t) PROVE TypeOK'
  <2>1. PICK next \in Index :
          job' = [job EXCEPT ![t].next = next,
                             ![t].todo = ChangedPaths(Diff(job[t].previous, next))]
    BY <1>4 DEF ListObjects
  <2> DEFINE todo == ChangedPaths(Diff(job[t].previous, next))
             j == [job[t] EXCEPT !.next = next, !.todo = todo]
  <2>2. todo \subseteq Paths
    BY ChangedPathsAreKnown DEF Known
  <2>3. j \in JobType
    <3> HIDE DEF todo
    <3> QED
      BY <2>2 DEF TypeOK, JobType
  <2>4. job' = [job EXCEPT ![t] = j]
    BY <2>1 DEF TypeOK, JobType
  <2> QED
    BY <1>4, <2>3, <2>4, JobStepTypeOK DEF ListObjects, Steps, Staging
<1>5. ASSUME NEW t \in Tasks, DownloadObject(t) PROVE TypeOK'
  <2>1. PICK p \in job[t].todo :
          job' = [job EXCEPT ![t].staging[p] = job[t].next[p], ![t].todo = @ \ {p}]
    BY <1>5 DEF DownloadObject
  <2>2. job[t] \in JobType
    BY DEF TypeOK
  <2> DEFINE staged == [job[t].staging EXCEPT ![p] = job[t].next[p]]
             j == [job[t] EXCEPT !.staging = staged, !.todo = @ \ {p}]
  <2>3. staged \in Files
    BY <2>2 DEF JobType, Files, Index
  <2>4. j \in JobType
    <3> HIDE DEF staged
    <3> QED
      BY <2>2, <2>3 DEF JobType
  <2>5. job' \in [Tasks -> JobType]
    <3>1. job' = [job EXCEPT ![t] = j]
      BY <2>1, <2>2 DEF TypeOK, JobType
    <3> QED
      BY <2>4, <3>1 DEF TypeOK
  <2> QED
    BY <1>5, <2>5 DEF DownloadObject, TypeOK, cdn, stores
<1>6. ASSUME NEW t \in Tasks, Prune(t) PROVE TypeOK'
  <2>1. job[t] \in JobType
    BY DEF TypeOK
  <2> DEFINE kept == RemoveDeletedObjects(job[t].next, job[t].staging)
             j == [job[t] EXCEPT !.staging = kept]
  <2>2. kept \in Files
    BY <2>1 DEF JobType, Files, Index, RemoveDeletedObjects, Listed, FileState
  <2>3. j \in JobType
    BY <2>1, <2>2 DEF JobType
  <2> QED
    BY <1>6, <2>3, JobStepTypeOK DEF Prune, Steps, Staging
<1>7. ASSUME NEW t \in Tasks, PrepareActivation(t) PROVE TypeOK'
  <2>1. job[t] \in JobType
    BY DEF TypeOK
  <2> DEFINE update == TemplateUpdate(registry, DiffOf(t), job[t].staging)
             j == [job[t] EXCEPT !.config = EdgeConfig(job[t].staging),
                                 !.registry = update,
                                 !.generation = NextGeneration]
  <2>2. update \in Files
    BY <2>1, TemplateUpdateType DEF TypeOK, JobType
  <2>3. NextGeneration \in Nat
    BY DEF TypeOK, RuntimeType, NextGeneration
  <2>4. EdgeConfig(job[t].staging) \in Configs
    BY <2>1 DEF JobType
  <2>5. j \in JobType
    <3> HIDE DEF update
    <3> QED
      BY <2>1, <2>2, <2>3, <2>4 DEF JobType
  <2>6. job' = [job EXCEPT ![t] = j]
    BY <1>7, <2>1 DEF PrepareActivation, TypeOK, JobType
  <2> QED
    BY <1>7, <2>5, <2>6, JobStepTypeOK DEF PrepareActivation, Steps, Swapping
<1>8. ASSUME NEW t \in Tasks, FailBeforeSwap(t) PROVE TypeOK'
  BY <1>8, FailTypeOK DEF FailBeforeSwap
<1>9. ASSUME NEW t \in Tasks, MoveOldAside(t) PROVE TypeOK'
  <2>1. [job[t] EXCEPT !.backup = mirror] \in JobType
    BY DEF TypeOK, JobType
  <2>2. pc' \in [Tasks -> Steps] /\ job' \in [Tasks -> JobType]
    BY <1>9, <2>1 DEF MoveOldAside, TypeOK, Goto, Steps, Swapping
  <2> QED
    BY <1>9, <2>2 DEF MoveOldAside, TypeOK, cdn, stores
<1>10. ASSUME NEW t \in Tasks, MoveStagingIn(t) PROVE TypeOK'
  <2>1. pc' \in [Tasks -> Steps]
    BY <1>10 DEF MoveStagingIn, TypeOK, Goto, Steps, Swapping
  <2>2. job[t].staging \in Files
    BY DEF TypeOK, JobType
  <2>3. cdnStale' \subseteq CdnUrls /\ unpurged' \subseteq cdnStale'
    BY <1>10, CdnTypeOK DEF MoveStagingIn
  <2> QED
    BY <1>10, <2>1, <2>2, <2>3 DEF MoveStagingIn, TypeOK, stores
<1>11. ASSUME NEW t \in Tasks, MoveStagingInFails(t) PROVE TypeOK'
  <2>1. CASE Fail(t)
    BY <2>1, FailTypeOK
  <2>2. CASE /\ Goto(t, "restore")
             /\ UNCHANGED <<lock, job, mirror, stores, runtime, cdn, detached>>
    BY <2>2 DEF TypeOK, Goto, Steps, Swapping, cdn, stores
  <2> QED
    BY <1>11, <2>1, <2>2 DEF MoveStagingInFails
<1>12. ASSUME NEW t \in Tasks, RestoreOld(t) PROVE TypeOK'
  <2>1. mirror' \in Files \cup {NoDir} /\ runtime' \in RuntimeType
    BY <1>12 DEF RestoreOld, TypeOK, JobType, RuntimeType
  <2>2. "failed" \in Ended
    BY DEF Ended
  <2> QED
    BY <1>12, <2>1, <2>2, EndTypeOK DEF RestoreOld, TypeOK, cdn, stores
<1>13. ASSUME NEW t \in Tasks, RestoreFails(t) PROVE TypeOK'
  BY <1>13, FailTypeOK DEF RestoreFails
<1>14. ASSUME NEW t \in Tasks, RemoveBackup(t) PROVE TypeOK'
  <2>1. [job[t] EXCEPT !.backup = NoDir] \in JobType
    BY DEF TypeOK, JobType
  <2> QED
    BY <1>14, <2>1, JobStepTypeOK DEF RemoveBackup, Steps, Installing
<1>15. ASSUME NEW t \in Tasks, RemoveBackupFails(t) PROVE TypeOK'
  BY <1>15, FailTypeOK DEF RemoveBackupFails
<1>16. ASSUME NEW t \in Tasks, SetValid(t) PROVE TypeOK'
  BY <1>16 DEF SetValid, TypeOK, Goto, Steps, Installing, JobType, cdn
<1>17. ASSUME NEW t \in Tasks, SetOriginRegistry(t) PROVE TypeOK'
  BY <1>17 DEF SetOriginRegistry, TypeOK, Goto, Steps, Installing, JobType, cdn
<1>18. ASSUME NEW t \in Tasks, InsertIndex(t) PROVE TypeOK'
  BY <1>18 DEF InsertIndex, TypeOK, Goto, Steps, Installing, JobType, cdn
<1>19. ASSUME NEW t \in Tasks, SetSnapshot(t) PROVE TypeOK'
  <2>1. runtime' \in RuntimeType
    <3>1. job[t].generation \in Nat
      BY DEF TypeOK, JobType
    <3> QED
      BY <1>19, <3>1 DEF SetSnapshot, TypeOK, RuntimeType
  <2>2. /\ lock' \in Tasks \cup {NoTask}
        /\ pc' \in [Tasks -> Steps]
        /\ job' \in [Tasks -> JobType]
    <3>1. CASE End(t, "activated")
      BY <3>1, EndTypeOK DEF Ended
    <3>2. CASE Goto(t, "purge") /\ UNCHANGED <<lock, job>>
      BY <3>2 DEF TypeOK, Goto, Steps
    <3> QED
      BY <1>19, <3>1, <3>2 DEF SetSnapshot
  <2> QED
    BY <1>19, <2>1, <2>2 DEF SetSnapshot, TypeOK, cdn, stores
<1>20. ASSUME NEW t \in Tasks, PurgeCdn(t) PROVE TypeOK'
  <2>1. "activated" \in Ended
    BY DEF Ended
  <2>2. runtime' \in RuntimeType
    BY <1>20 DEF PurgeCdn, TypeOK, RuntimeType
  <2>3. cdnStale' \subseteq CdnUrls /\ unpurged' \subseteq cdnStale'
    BY <1>20, CdnTypeOK DEF PurgeCdn
  <2> QED
    BY <1>20, <2>1, <2>2, <2>3, EndTypeOK DEF PurgeCdn, TypeOK, stores
<1>21. ASSUME NEW t \in Tasks, PurgeFails(t) PROVE TypeOK'
  <2>1. "activated" \in Ended
    BY DEF Ended
  <2>2. runtime' \in RuntimeType
    BY <1>21 DEF PurgeFails, TypeOK, RuntimeType
  <2>3. cdnStale' \subseteq CdnUrls /\ unpurged' \subseteq cdnStale'
    BY <1>21, CdnTypeOK DEF PurgeFails
  <2> QED
    BY <1>21, <2>1, <2>2, <2>3, EndTypeOK DEF PurgeFails, TypeOK, stores
<1>22. ASSUME NEW t \in Tasks, Cancel(t) PROVE TypeOK'
  <2>1. "idle" \in Ended
    BY DEF Ended
  <2>2. RenameInFlight(t) \subseteq
          [op : {"move_aside", "move_in"}, files : Files \cup {NoDir}]
    BY NoFilesType DEF RenameInFlight, TypeOK, JobType
  <2>3. cdnStale' \subseteq CdnUrls /\ unpurged' \subseteq cdnStale'
    BY <1>22, CdnTypeOK DEF Cancel
  <2> QED
    BY <1>22, <2>1, <2>2, <2>3, EndTypeOK DEF Cancel, TypeOK, stores
<1>23. CASE RunDetached
  <2>1. PICK rename \in detached :
          /\ detached' = detached \ {rename}
          /\ mirror' \in {NoDir, mirror, rename.files}
          /\ Outdate(Differing(mirror, FilesIn(mirror')))
          /\ UNCHANGED <<lock, pc, job, stores, runtime>>
    BY <1>23 DEF RunDetached
  <2>2. rename.files \in Files \cup {NoDir}
    BY DEF TypeOK
  <2>3. cdnStale' \subseteq CdnUrls /\ unpurged' \subseteq cdnStale'
    BY <2>1, CdnTypeOK
  <2> QED
    BY <2>1, <2>2, <2>3 DEF TypeOK, stores
<1>24. CASE Restart
  <2>1. NoRuntime \in RuntimeType
    BY DEF NoRuntime, RuntimeType
  <2>2. pc' \in [Tasks -> Steps]
    BY <1>24 DEF Restart, Steps, Ended
  <2> QED
    BY <1>24, <2>1, <2>2, NoFilesType, NoJobType DEF Restart, TypeOK, cdn
<1>25. CASE UNCHANGED vars
  BY <1>25 DEF vars, cdn, stores, TypeOK
<1> QED
  BY <1>1, <1>2, <1>3, <1>4, <1>5, <1>6, <1>7, <1>8, <1>9, <1>10, <1>11, <1>12,
     <1>13, <1>14, <1>15, <1>16, <1>17, <1>18, <1>19, <1>20, <1>21, <1>22, <1>23,
     <1>24, <1>25 DEF Next, Advance, Crash, ExitAfterFailedStartup

(* Whatever fails and whoever is cancelled, every store, lock and mirror    *)
(* entry keeps the shape the code gives it.                                 *)
THEOREM TypeCorrect == Spec => []TypeOK
BY InitTypeOK, NextTypeOK, PTL DEF Spec

------------------------------------------------------------------------------
(* Mutual exclusion.                                                       *)

(* A step of the holder between two awaits it still runs after.            *)
LEMMA StepKeepsMutex ==
  ASSUME TypeOK, RefreshMutex, NEW t \in Tasks, Running(t), NEW step,
         step \notin Ended, Goto(t, step), UNCHANGED lock
  PROVE  RefreshMutex'
BY DEF TypeOK, RefreshMutex, Running, Goto

(* The guard is dropped by the task that holds it.                         *)
LEMMA EndKeepsMutex ==
  ASSUME TypeOK, RefreshMutex, NEW t \in Tasks, Running(t),
         NEW outcome \in Ended, End(t, outcome)
  PROVE  RefreshMutex'
BY RefreshAssumption DEF TypeOK, RefreshMutex, Running, End, Goto, ReleaseLock, Tasks

LEMMA FailKeepsMutex ==
  ASSUME TypeOK, RefreshMutex, NEW t \in Tasks, Running(t), Fail(t)
  PROVE  RefreshMutex'
BY EndKeepsMutex DEF Fail, Ended

(* Only a running task advances, and it moves nobody else.                 *)
LEMMA AdvanceMovesOne ==
  ASSUME TypeOK, NEW t \in Tasks, Advance(t)
  PROVE  Running(t) /\ \A u \in Tasks : u # t => pc'[u] = pc[u]
<1>1. Running(t)
  BY DEF Advance, Running, Ended, Staging, PrepareStaging, ListObjects, DownloadObject,
         Prune, PrepareActivation, FailBeforeSwap, MoveOldAside, MoveStagingIn,
         MoveStagingInFails, RestoreOld, RestoreFails, RemoveBackup, RemoveBackupFails,
         SetValid, SetOriginRegistry, InsertIndex, SetSnapshot, PurgeCdn, PurgeFails
<1>2. \A u \in Tasks : u # t => pc'[u] = pc[u]
  BY DEF TypeOK, Goto, End, Fail, Advance, PrepareStaging, ListObjects, DownloadObject,
         Prune, PrepareActivation, FailBeforeSwap, MoveOldAside, MoveStagingIn,
         MoveStagingInFails, RestoreOld, RestoreFails, RemoveBackup, RemoveBackupFails,
         SetValid, SetOriginRegistry, InsertIndex, SetSnapshot, PurgeCdn, PurgeFails
<1> QED
  BY <1>1, <1>2

LEMMA AdvanceKeepsMutex ==
  ASSUME TypeOK, RefreshMutex, NEW t \in Tasks, Advance(t)
  PROVE  RefreshMutex'
<1>1. Running(t)
  BY AdvanceMovesOne
<1>2. CASE Fail(t)
  BY <1>1, <1>2, FailKeepsMutex
<1>3. CASE \E outcome \in Ended : End(t, outcome)
  BY <1>1, <1>3, EndKeepsMutex
<1>4. CASE DownloadObject(t)
  BY <1>4 DEF DownloadObject, RefreshMutex, Running
<1>5. CASE UNCHANGED lock /\ \E step \in Steps \ Ended : Goto(t, step)
  BY <1>1, <1>5, StepKeepsMutex
<1>6. \/ Fail(t)
      \/ \E outcome \in Ended : End(t, outcome)
      \/ DownloadObject(t)
      \/ UNCHANGED lock /\ \E step \in Steps \ Ended : Goto(t, step)
  <2>1. /\ {"failed", "activated"} \subseteq Ended
        /\ {"list", "download", "prepare", "move_old", "move_new", "restore",
            "remove_backup", "set_valid", "set_registry", "set_index",
            "set_snapshot", "purge"} \subseteq Steps \ Ended
    BY DEF Ended, Steps, Staging, Swapping, Installing
  <2> QED
    BY <2>1
    DEF Advance, PrepareStaging, ListObjects,
        Prune, PrepareActivation, FailBeforeSwap, MoveOldAside, MoveStagingIn,
        MoveStagingInFails, RestoreOld, RestoreFails, RemoveBackup, RemoveBackupFails,
        SetValid, SetOriginRegistry, InsertIndex, SetSnapshot, PurgeCdn, PurgeFails
<1> QED
  BY <1>2, <1>3, <1>4, <1>5, <1>6

LEMMA NextKeepsMutex == TypeOK /\ RefreshMutex /\ [Next]_vars => RefreshMutex'
<1> SUFFICES ASSUME TypeOK, RefreshMutex, [Next]_vars PROVE RefreshMutex'
  OBVIOUS
<1>1. ASSUME NEW t \in Tasks, TryAcquire(t) PROVE RefreshMutex'
  BY <1>1, RefreshAssumption
  DEF TryAcquire, Goto, TypeOK, RefreshMutex, Running, Ended, Tasks
<1>2. ASSUME NEW t \in Tasks, AlreadyRunning(t) PROVE RefreshMutex'
  BY <1>2 DEF AlreadyRunning, MayStart, Goto, TypeOK, RefreshMutex, Running, Ended
<1>3. ASSUME NEW t \in Tasks, Advance(t) PROVE RefreshMutex'
  BY <1>3, AdvanceKeepsMutex
<1>4. ASSUME NEW t \in Tasks, Cancel(t) PROVE RefreshMutex'
  <2>1. Running(t) /\ "idle" \in Ended
    BY <1>4 DEF Cancel, Running, Ended, Staging, Swapping
  <2> QED
    BY <1>4, <2>1, EndKeepsMutex DEF Cancel
<1>5. CASE RunDetached
  BY <1>5 DEF RunDetached, RefreshMutex, Running
<1>6. CASE Restart
  BY <1>6, RefreshAssumption DEF Restart, RefreshMutex, Running, Ended, Tasks
<1>7. CASE UNCHANGED vars
  BY <1>7 DEF vars, RefreshMutex, Running
<1> QED
  BY <1>1, <1>2, <1>3, <1>4, <1>5, <1>6, <1>7 DEF Next, Crash, ExitAfterFailedStartup

(* OriginRefreshLocks does its work for any number of concurrent requests   *)
(* and under every failure the model has, cancellation included: at most    *)
(* one refresh of an origin runs, and the lock never outlives it.           *)
THEOREM MutualExclusion == Spec => []RefreshMutex
<1>1. Init => RefreshMutex
  BY RefreshAssumption DEF Init, RefreshMutex, Running, Ended, Tasks
<1> QED
  BY <1>1, NextKeepsMutex, TypeCorrect, PTL DEF Spec

------------------------------------------------------------------------------
(* Generation numbers.                                                     *)

(* The number computed before the swap is still the next one after it.     *)
NumberIsNext ==
  \A t \in Tasks : pc[t] \in Swapping \cup Installing =>
                     job[t].generation = runtime.generation + 1

NumberInv == TypeOK /\ RefreshMutex /\ NumberIsNext

LEMMA NumberStep ==
  ASSUME NumberInv, NEW t \in Tasks, Advance(t)
  PROVE  NumberIsNext'
<1> USE DEF NumberInv
<1>1. Running(t)
  BY AdvanceMovesOne
<1>2. \A u \in Tasks : u # t => pc[u] \in Ended /\ pc'[u] = pc[u]
  <2>1. \A u \in Tasks : u # t => pc[u] \in Ended
    BY <1>1 DEF RefreshMutex, Running
  <2> QED
    BY <2>1, AdvanceMovesOne
<1>3. SUFFICES ASSUME pc'[t] \in Swapping \cup Installing
               PROVE  job'[t].generation = runtime'.generation + 1
  BY <1>2 DEF NumberIsNext, Ended, Swapping, Installing
<1>4. job \in [Tasks -> JobType] /\ pc \in [Tasks -> Steps]
  BY DEF TypeOK
<1>5. ASSUME NEW outcome \in Ended, End(t, outcome) PROVE FALSE
  <2>1. pc'[t] = outcome
    BY <1>4, <1>5 DEF End, Goto
  <2> QED
    BY <1>3, <2>1 DEF Ended, Swapping, Installing
<1>6. ~Fail(t) /\ ~End(t, "failed") /\ ~End(t, "activated")
  BY <1>5 DEF Fail, Ended
<1>7. CASE PrepareActivation(t)
  BY <1>4, <1>7 DEF PrepareActivation, JobType, NextGeneration
<1>8. CASE PrepareStaging(t) \/ ListObjects(t) \/ DownloadObject(t) \/ Prune(t)
           \/ SetSnapshot(t) \/ PurgeCdn(t) \/ PurgeFails(t)
  BY <1>3, <1>4, <1>6, <1>8
  DEF PrepareStaging, ListObjects, DownloadObject, Prune, SetSnapshot, PurgeCdn,
      PurgeFails, Goto, Swapping, Installing
<1>9. CASE MoveOldAside(t)
  BY <1>4, <1>9 DEF NumberIsNext, MoveOldAside, JobType, Swapping
<1>10. CASE RemoveBackup(t)
  BY <1>4, <1>10 DEF NumberIsNext, RemoveBackup, JobType, Swapping
<1>11. CASE MoveStagingIn(t) \/ MoveStagingInFails(t) \/ SetValid(t)
            \/ SetOriginRegistry(t) \/ InsertIndex(t)
  BY <1>4, <1>6, <1>11
  DEF NumberIsNext, MoveStagingIn, MoveStagingInFails, SetValid, SetOriginRegistry,
      InsertIndex, Swapping, Installing
<1>12. ~FailBeforeSwap(t) /\ ~RestoreOld(t) /\ ~RestoreFails(t) /\ ~RemoveBackupFails(t)
  BY <1>6 DEF FailBeforeSwap, RestoreOld, RestoreFails, RemoveBackupFails
<1> QED
  BY <1>7, <1>8, <1>9, <1>10, <1>11, <1>12 DEF Advance

LEMMA NextKeepsNumber == NumberInv /\ [Next]_vars => NumberIsNext'
<1> SUFFICES ASSUME NumberInv, [Next]_vars PROVE NumberIsNext'
  OBVIOUS
<1> USE DEF NumberInv
<1>1. ASSUME NEW t \in Tasks, Advance(t) PROVE NumberIsNext'
  BY <1>1, NumberStep
<1>2. ASSUME NEW t \in Tasks, TryAcquire(t) PROVE NumberIsNext'
  BY <1>2
  DEF TryAcquire, Goto, TypeOK, NumberIsNext, Swapping, Installing
<1>3. ASSUME NEW t \in Tasks, AlreadyRunning(t) PROVE NumberIsNext'
  BY <1>3 DEF AlreadyRunning, Goto, TypeOK, NumberIsNext, Swapping, Installing
<1>4. ASSUME NEW t \in Tasks, Cancel(t) PROVE NumberIsNext'
  BY <1>4 DEF Cancel, End, Goto, TypeOK, NumberIsNext, Swapping, Installing
<1>5. CASE RunDetached
  BY <1>5 DEF RunDetached, NumberIsNext
<1>6. CASE Restart
  BY <1>6 DEF Restart, NumberIsNext, Swapping, Installing
<1>7. CASE UNCHANGED vars
  BY <1>7 DEF vars, NumberIsNext
<1> QED
  BY <1>1, <1>2, <1>3, <1>4, <1>5, <1>6, <1>7 DEF Next, Crash, ExitAfterFailedStartup

(* Generation numbers count the activations of a process, although they     *)
(* are computed before the swap and stored after it, and whatever other     *)
(* tasks try, fail at or are cancelled in.                                  *)
THEOREM Numbering == Spec => ActivationsAreNumbered
<1>1. Init => NumberInv
  <2>1. Init => RefreshMutex
    BY RefreshAssumption DEF Init, RefreshMutex, Running, Ended, Tasks
  <2> QED
    BY <2>1, InitTypeOK DEF NumberInv, Init, NumberIsNext, Swapping, Installing
<1>2. NumberInv /\ [Next]_vars => NumberInv'
  BY NextTypeOK, NextKeepsMutex, NextKeepsNumber DEF NumberInv
<1> DEFINE Numbered ==
      \A t \in Tasks :
        pc[t] = "set_snapshot" /\ pc'[t] \in {"purge", "activated"} =>
          runtime'.generation = runtime.generation + 1
<1>3. NumberInv /\ [Next]_vars => [Numbered]_vars
  <2> SUFFICES ASSUME NumberInv, Next, NEW t \in Tasks, pc[t] = "set_snapshot",
                      pc'[t] \in {"purge", "activated"}
               PROVE  runtime'.generation = runtime.generation + 1
    OBVIOUS
  <2> USE DEF NumberInv
  <2>1. \A u \in Tasks : pc'[u] # pc[u] => ~RunDetached
    BY DEF RunDetached
  <2>2. ~Restart
    BY DEF Restart
  <2>3. PICK u \in Tasks : TryAcquire(u) \/ AlreadyRunning(u) \/ Advance(u) \/ Cancel(u)
    BY <2>1, <2>2 DEF Next, Crash, ExitAfterFailedStartup
  <2>4. \A w \in Tasks : w # u => pc'[w] = pc[w]
    BY <2>3, AdvanceMovesOne DEF TypeOK, TryAcquire, AlreadyRunning, Cancel, Goto, End
  <2>5. u = t
    BY <2>4
  <2>6. Advance(t)
    BY <2>3, <2>5
    DEF TryAcquire, AlreadyRunning, MayStart, Cancel, Ended, Staging, Swapping
  <2>7. SetSnapshot(t)
    BY <2>6
    DEF Advance, PrepareStaging, ListObjects, DownloadObject,
        Prune, PrepareActivation, FailBeforeSwap, MoveOldAside, MoveStagingIn,
        MoveStagingInFails, RestoreOld, RestoreFails, RemoveBackup, RemoveBackupFails,
        SetValid, SetOriginRegistry, InsertIndex, PurgeCdn, PurgeFails, Staging
  <2> QED
    BY <2>7 DEF SetSnapshot, NumberIsNext, Installing, TypeOK, RuntimeType
<1> QED
  BY <1>1, <1>2, <1>3, PTL DEF Spec, ActivationsAreNumbered
==============================================================================
