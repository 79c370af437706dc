---------------------------- MODULE OriginRefresh ----------------------------
(***************************************************************************)
(* One origin and the tasks that refresh it: the startup sync, the         *)
(* background loop and the handlers of POST /origins/{id}/sync.            *)
(*                                                                         *)
(* OriginRefreshService::refresh_origin takes the per-origin lock, stages  *)
(* a copy of the mirror, brings it up to date with the listing, prepares   *)
(* edge config and templates from it, swaps it with the live mirror by two *)
(* renames, installs the prepared values in the shared stores and asks the *)
(* CDN to purge.  Every await is a step of its own here, and so is every   *)
(* store write, because readers run on other threads.                      *)
(*                                                                         *)
(* The remote storage is the environment: a listing may return anything    *)
(* and any call may fail.  Publication.tla models the storage itself.      *)
(***************************************************************************)
EXTENDS CdnRefresh

CONSTANTS
  Clients,        \* manual sync requests
  NoTask,         \* nobody holds the refresh lock
  NoDir,          \* the origin's mirror directory does not exist
  NoConfig,       \* edge_configs has no entry for the origin
  Faults,         \* which of FaultKinds may happen
  MaxGeneration   \* bound: no refresh starts beyond this generation

(***************************************************************************)
(* Failures of storage, staging, preparation and of the renames, answered  *)
(* by an error, are always possible.  These are the others:                *)
(*   crash    the process dies; memory is lost, the disk stays             *)
(*   purge    the CDN provider fails                                       *)
(*   cleanup  remove_dir_if_exists(backup) fails after both renames        *)
(*   restore  the rename that should bring the old mirror back fails       *)
(*   cancel   the client of a manual sync goes away and the handler's      *)
(*            future is dropped at an await                                *)
(***************************************************************************)
FaultKinds == {"crash", "purge", "cleanup", "restore", "cancel"}

ASSUME RefreshAssumption ==
  /\ MaxGeneration \in Nat
  /\ Faults \subseteq FaultKinds
  /\ "startup" \notin Clients /\ "background" \notin Clients
  /\ NoTask \notin Clients \cup {"startup", "background"}
  /\ NoDir \notin Index
  /\ NoConfig \notin Contents \cup {DefaultConfig}

Tasks == Clients \cup {"startup", "background"}

VARIABLES
  lock,        \* OriginRefreshLocks: the task whose guard is alive
  pc,          \* the step each task is at, or how its last attempt ended
  job,         \* the local variables of each task's refresh
  mirror,      \* the files under <mirror>/<origin>
  config,      \* EdgeConfigStore entry
  registry,    \* TemplateStore entry: compiled template of each path
  index,       \* OriginFreshnessIndexes entry
  runtime,     \* OriginRuntimeStore entry
  cdnStale,    \* URLs for which the CDN may hold the answer of older files
  unpurged,    \* those of cdnStale that a failed purge was to cover
  detached     \* renames still running for a dropped future

stores == <<config, registry, index>>
cdn == <<cdnStale, unpurged>>
vars == <<lock, pc, job, mirror, config, registry, index, runtime, cdn, detached>>

Ended == {"idle", "activated", "failed", "conflict"}
Staging == {"prepare_staging", "list", "download", "prune", "prepare"}
Swapping == {"move_old", "move_new", "restore", "remove_backup"}
Installing == {"set_valid", "set_registry", "set_index", "set_snapshot"}
Steps == Ended \cup Staging \cup Swapping \cup Installing \cup {"purge"}

Files == Index
NoJob == [previous |-> NoIndex, next |-> NoFiles, staging |-> NoFiles, todo |-> {},
          config |-> NoConfig, registry |-> NoFiles, generation |-> 0, backup |-> NoDir]
NoRuntime == [generation |-> 0, last_error |-> FALSE,
              last_cdn_status |-> "none", last_cdn_error |-> FALSE]

DiffOf(t) == Diff(job[t].previous, job[t].next)
FilesIn(dir) == IF dir = NoDir THEN NoFiles ELSE dir

------------------------------------------------------------------------------
(* The mirror directory may survive from an earlier run of the process.    *)
Init ==
  /\ lock = NoTask
  /\ pc = [t \in Tasks |-> "idle"]
  /\ job = [t \in Tasks |-> NoJob]
  /\ mirror \in Files \cup {NoDir}
  /\ config = NoConfig
  /\ registry = NoFiles
  /\ index = NoIndex
  /\ runtime = NoRuntime
  /\ cdnStale = {}
  /\ unpurged = {}
  /\ detached = {}

(* The listener and the background loops start after the initial sync.     *)
MayStart(t) ==
  /\ pc[t] \in Ended
  /\ IF t = "startup" THEN pc[t] = "idle" ELSE pc["startup"] = "activated"

Goto(t, step) == pc' = [pc EXCEPT ![t] = step]

(* A slip in Drop for OriginRefreshGuard: another origin's id is removed.  *)
ReleaseNothing == UNCHANGED lock

(* The guard is dropped when refresh_origin returns or its future dies.    *)
ReleaseLock == lock' = NoTask

End(t, outcome) ==
  /\ Goto(t, outcome)
  /\ job' = [job EXCEPT ![t] = NoJob]
  /\ ReleaseLock

------------------------------------------------------------------------------
(* refresh_origin: try_acquire, then read the index the diff starts from.  *)

(* A slip in try_acquire: it does not look whether the id is there.        *)
AcquireAlways(t) ==
  /\ MayStart(t)
  /\ runtime.generation < MaxGeneration
  /\ lock' = t
  /\ job' = [job EXCEPT ![t] = [NoJob EXCEPT !.previous = index]]
  /\ Goto(t, "prepare_staging")
  /\ UNCHANGED <<mirror, stores, runtime, cdn, detached>>

TryAcquire(t) ==
  /\ MayStart(t)
  /\ runtime.generation < MaxGeneration
  /\ lock = NoTask
  /\ lock' = t
  /\ job' = [job EXCEPT ![t] = [NoJob EXCEPT !.previous = index]]
  /\ Goto(t, "prepare_staging")
  /\ UNCHANGED <<mirror, stores, runtime, cdn, detached>>

(* OriginRefreshError::AlreadyRunning: 409 for a client, a log line for    *)
(* the background loop, and no set_error.                                  *)
AlreadyRunning(t) ==
  /\ MayStart(t)
  /\ lock # NoTask
  /\ Goto(t, "conflict")
  /\ UNCHANGED <<lock, job, mirror, stores, runtime, cdn, detached>>

(* prepare_staging_dir: copy the live mirror if there is one.              *)
PrepareStaging(t) ==
  /\ pc[t] = "prepare_staging"
  /\ job' = [job EXCEPT ![t].staging = FilesIn(mirror)]
  /\ Goto(t, "list")
  /\ UNCHANGED <<lock, mirror, stores, runtime, cdn, detached>>

(* stage_origin_dir: list, index and diff; the changed paths are to do.    *)
ListObjects(t) ==
  /\ pc[t] = "list"
  /\ \E next \in Index :
       job' = [job EXCEPT ![t].next = next,
                          ![t].todo = ChangedPaths(Diff(job[t].previous, next))]
  /\ Goto(t, "download")
  /\ UNCHANGED <<lock, mirror, stores, runtime, cdn, detached>>

(* get_object answered with the listed state (validate_downloaded_object), *)
(* and write_object stored it.  Anything else is FailBeforeSwap.           *)
DownloadObject(t) ==
  /\ pc[t] = "download"
  /\ \E p \in job[t].todo :
       job' = [job EXCEPT ![t].staging[p] = job[t].next[p],
                          ![t].todo = @ \ {p}]
  /\ UNCHANGED <<lock, pc, mirror, stores, runtime, cdn, detached>>

(* remove_deleted_objects and remove_orphan_metadata_sidecars.             *)
Listed(next, staging) == [p \in Paths |-> IF next[p] = Absent THEN Absent ELSE staging[p]]

(* A slip in remove_deleted_objects: deleted objects stay in the mirror.   *)
KeepDeleted(next, staging) == staging

RemoveDeletedObjects(next, staging) == Listed(next, staging)

Prune(t) ==
  /\ pc[t] = "download"
  /\ job[t].todo = {}
  /\ job' = [job EXCEPT ![t].staging = RemoveDeletedObjects(job[t].next, @)]
  /\ Goto(t, "prepare")
  /\ UNCHANGED <<lock, mirror, stores, runtime, cdn, detached>>

(* The part of refresh_origin_snapshot between staging and activation:     *)
(* barrier, edge config and templates, all read from the staged files.     *)

(* A slip in refresh_origin_snapshot: the edge config of the live mirror   *)
(* is loaded instead of the staged one.                                    *)
AcceptsLiveConfig(t) ==
  /\ BarrierAccepts(job[t].previous, job[t].next)
  /\ EdgeConfig(FilesIn(mirror)) \notin BadConfigs
  /\ TemplatesCompile(DiffOf(t), job[t].staging)

Accepts(t) ==
  /\ BarrierAccepts(job[t].previous, job[t].next)
  /\ EdgeConfig(job[t].staging) \notin BadConfigs
  /\ TemplatesCompile(DiffOf(t), job[t].staging)

(* Slips in the computation of next_generation: counting down, and the     *)
(* number of the generation that is being replaced.                        *)
PrecedingGeneration == runtime.generation - 1
SameGeneration == runtime.generation

NextGeneration == runtime.generation + 1

PrepareActivation(t) ==
  /\ pc[t] = "prepare"
  /\ Accepts(t)
  /\ job' = [job EXCEPT
       ![t].config = EdgeConfig(job[t].staging),
       ![t].registry = TemplateUpdate(registry, DiffOf(t), job[t].staging),
       ![t].generation = NextGeneration]
  /\ Goto(t, "move_old")
  /\ UNCHANGED <<lock, mirror, stores, runtime, cdn, detached>>

(* refresh_origin's inspect_err: the error is recorded, nothing else.      *)
Fail(t) ==
  /\ End(t, "failed")
  /\ runtime' = [runtime EXCEPT !.last_error = TRUE]
  /\ UNCHANGED <<mirror, stores, cdn, detached>>

(* A storage or file system error, a download that differs from the        *)
(* listing, or a staged origin that is rejected and discarded.             *)
FailBeforeSwap(t) ==
  /\ pc[t] \in Staging \cup {"move_old"}
  /\ Fail(t)

------------------------------------------------------------------------------
(* swap_origin_dir.  A rename replaces an empty directory, and no other.   *)

MoveOldAside(t) ==
  /\ pc[t] = "move_old"
  /\ mirror' = NoDir
  /\ job' = [job EXCEPT ![t].backup = mirror]
  /\ Goto(t, "move_new")
  /\ UNCHANGED <<lock, stores, runtime, cdn, detached>>

(* Paths that differ between two generations of the mirror.                *)
Differing(old, new) == {p \in Paths : FilesIn(old)[p] # new[p]}

(* The answers of these URLs are outdated, and no purge has tried them yet.*)
Outdate(paths) ==
  /\ cdnStale' = cdnStale \cup AnswersFrom(paths)
  /\ unpurged' = unpurged \ AnswersFrom(paths)

(* The provider carried out this part of a plan.                           *)
Purge(plan, done) ==
  /\ cdnStale' = cdnStale \ done
  /\ unpurged' = (unpurged \cup (plan \cap cdnStale)) \ done

MoveStagingIn(t) ==
  /\ pc[t] = "move_new"
  /\ mirror \in {NoDir, NoFiles}
  /\ mirror' = job[t].staging
  /\ Outdate(Differing(job[t].backup, job[t].staging))
  /\ Goto(t, "remove_backup")
  /\ UNCHANGED <<lock, job, stores, runtime, detached>>

(* The second rename fails: restore the backup if there was a mirror.      *)
MoveStagingInFails(t) ==
  /\ pc[t] = "move_new"
  /\ IF job[t].backup = NoDir
       THEN Fail(t)
       ELSE /\ Goto(t, "restore")
            /\ UNCHANGED <<lock, job, mirror, stores, runtime, cdn, detached>>

RestoreOld(t) ==
  /\ pc[t] = "restore"
  /\ mirror \in {NoDir, NoFiles}
  /\ mirror' = job[t].backup
  /\ End(t, "failed")
  /\ runtime' = [runtime EXCEPT !.last_error = TRUE]
  /\ UNCHANGED <<stores, cdn, detached>>

(* rename(backup, origin) fails, or finds a directory in its place.        *)
RestoreFails(t) ==
  /\ pc[t] = "restore"
  /\ "restore" \in Faults \/ mirror # NoDir
  /\ Fail(t)

RemoveBackup(t) ==
  /\ pc[t] = "remove_backup"
  /\ job' = [job EXCEPT ![t].backup = NoDir]
  /\ Goto(t, "set_valid")
  /\ UNCHANGED <<lock, mirror, stores, runtime, cdn, detached>>

(* The `?` of the last remove_dir_if_exists: the refresh fails although    *)
(* the new mirror is live.                                                 *)
RemoveBackupFails(t) ==
  /\ pc[t] = "remove_backup"
  /\ "cleanup" \in Faults
  /\ Fail(t)

------------------------------------------------------------------------------
(* The four store writes that follow activate_staged_origin.  No await     *)
(* separates them, so they cannot be cancelled.                            *)

SetValid(t) ==
  /\ pc[t] = "set_valid"
  /\ config' = job[t].config
  /\ Goto(t, "set_registry")
  /\ UNCHANGED <<lock, job, mirror, registry, index, runtime, cdn, detached>>

SetOriginRegistry(t) ==
  /\ pc[t] = "set_registry"
  /\ registry' = job[t].registry
  /\ Goto(t, "set_index")
  /\ UNCHANGED <<lock, job, mirror, config, index, runtime, cdn, detached>>

InsertIndex(t) ==
  /\ pc[t] = "set_index"
  /\ index' = job[t].next
  /\ Goto(t, "set_snapshot")
  /\ UNCHANGED <<lock, job, mirror, config, registry, runtime, cdn, detached>>

(* OriginRuntimeStore::set_snapshot keeps the CDN fields of the entry it   *)
(* replaces.  Without a purge plan the refresh returns here.               *)
SetSnapshot(t) ==
  /\ pc[t] = "set_snapshot"
  /\ runtime' = [runtime EXCEPT !.generation = job[t].generation, !.last_error = FALSE]
  /\ IF PurgePlan(DiffOf(t)) = {}
       THEN End(t, "activated")
       ELSE Goto(t, "purge") /\ UNCHANGED <<lock, job>>
  /\ UNCHANGED <<mirror, stores, cdn, detached>>

(* refresh_after_activation submitted every item; set_cdn_result.          *)
PurgeCdn(t) ==
  /\ pc[t] = "purge"
  /\ Purge(PurgePlan(DiffOf(t)), PurgePlan(DiffOf(t)))
  /\ runtime' = [runtime EXCEPT !.last_cdn_status = "submitted", !.last_cdn_error = FALSE]
  /\ End(t, "activated")
  /\ UNCHANGED <<mirror, stores, detached>>

(* The provider failed, perhaps after some items, or its answer was lost:  *)
(* set_cdn_result with "partial_failure" when it gave request ids, then    *)
(* set_cdn_error.  The refresh succeeds all the same and nothing retries.  *)
PurgeFails(t) ==
  /\ pc[t] = "purge"
  /\ "purge" \in Faults
  /\ \E done \in SUBSET PurgePlan(DiffOf(t)) :
       /\ Purge(PurgePlan(DiffOf(t)), done)
       /\ \E status \in {runtime.last_cdn_status, "partial_failure"} :
            runtime' = [runtime EXCEPT !.last_cdn_status = status, !.last_cdn_error = TRUE]
  /\ End(t, "activated")
  /\ UNCHANGED <<mirror, stores, detached>>

------------------------------------------------------------------------------
(* Cancellation, crash and restart.                                        *)

(* A rename handed to the blocking pool runs even if nobody awaits it.     *)
RenameInFlight(t) ==
  CASE pc[t] = "move_old" /\ mirror # NoDir ->
         {[op |-> "move_aside", files |-> NoFiles]}
    [] pc[t] = "move_new" -> {[op |-> "move_in", files |-> job[t].staging]}
    [] pc[t] = "restore"  -> {[op |-> "move_in", files |-> job[t].backup]}
    [] OTHER -> {}

(* hyper drops the handler's future; the guard goes with it.  A purge      *)
(* request may have reached the provider.                                  *)
Cancel(t) ==
  /\ "cancel" \in Faults
  /\ t \in Clients
  /\ pc[t] \in Staging \cup Swapping \cup {"purge"}
  /\ detached' = detached \cup RenameInFlight(t)
  /\ LET plan == IF pc[t] = "purge" THEN PurgePlan(DiffOf(t)) ELSE {} IN
       \E done \in SUBSET plan : Purge(plan, done)
  /\ End(t, "idle")
  /\ UNCHANGED <<mirror, stores, runtime>>

RunDetached ==
  \E rename \in detached :
    /\ detached' = detached \ {rename}
    /\ \/ /\ rename.op = "move_aside"
          /\ mirror' = NoDir
       \/ /\ rename.op = "move_in"
          /\ mirror' = IF mirror \in {NoDir, NoFiles} THEN rename.files ELSE mirror
    /\ Outdate(Differing(mirror, FilesIn(mirror')))
    /\ UNCHANGED <<lock, pc, job, stores, runtime>>

(* A new process starts on the disk the old one left.                      *)
Restart ==
  /\ lock' = NoTask
  /\ pc' = [t \in Tasks |-> "idle"]
  /\ job' = [t \in Tasks |-> NoJob]
  /\ config' = NoConfig
  /\ registry' = NoFiles
  /\ index' = NoIndex
  /\ runtime' = NoRuntime
  /\ detached' = {}
  /\ UNCHANGED <<mirror, cdn>>

Crash == "crash" \in Faults /\ Restart

(* build_render_runtime returns the error of the initial sync and main     *)
(* exits with it.                                                          *)
ExitAfterFailedStartup == pc["startup"] = "failed" /\ Restart

------------------------------------------------------------------------------
(* What a task does by itself once it holds the lock.                      *)
Advance(t) ==
  \/ PrepareStaging(t) \/ ListObjects(t) \/ DownloadObject(t) \/ Prune(t)
  \/ PrepareActivation(t) \/ FailBeforeSwap(t)
  \/ MoveOldAside(t) \/ MoveStagingIn(t) \/ MoveStagingInFails(t)
  \/ RestoreOld(t) \/ RestoreFails(t) \/ RemoveBackup(t) \/ RemoveBackupFails(t)
  \/ SetValid(t) \/ SetOriginRegistry(t) \/ InsertIndex(t) \/ SetSnapshot(t)
  \/ PurgeCdn(t) \/ PurgeFails(t)

Next ==
  \/ \E t \in Tasks : TryAcquire(t) \/ AlreadyRunning(t) \/ Advance(t) \/ Cancel(t)
  \/ RunDetached
  \/ Crash
  \/ ExitAfterFailedStartup

Spec == Init /\ [][Next]_vars

------------------------------------------------------------------------------
(***************************************************************************)
(* Properties.                                                             *)
(***************************************************************************)

Configs == {EdgeConfig(files) : files \in Files} \cup {NoConfig}

JobType ==
  [previous : Index \cup {NoIndex}, next : Index, staging : Files,
   todo : SUBSET Paths, config : Configs,
   registry : Files, generation : Nat, backup : Files \cup {NoDir}]

RuntimeType ==
  [generation : Nat, last_error : BOOLEAN,
   last_cdn_status : {"none", "submitted", "partial_failure"},
   last_cdn_error : BOOLEAN]

(* Every variable has the shape of the structure it stands for.            *)
TypeOK ==
  /\ lock \in Tasks \cup {NoTask}
  /\ pc \in [Tasks -> Steps]
  /\ job \in [Tasks -> JobType]
  /\ mirror \in Files \cup {NoDir}
  /\ config \in Configs
  /\ registry \in Files
  /\ index \in Index \cup {NoIndex}
  /\ runtime \in RuntimeType
  /\ cdnStale \subseteq CdnUrls
  /\ unpurged \subseteq cdnStale
  /\ detached \subseteq [op : {"move_aside", "move_in"}, files : Files \cup {NoDir}]

Running(t) == pc[t] \notin Ended

(* OriginRefreshLocks: at most one refresh of the origin is anywhere        *)
(* between try_acquire and the drop of its guard, and the lock is never     *)
(* left behind by one that ended, whichever way it ended.                   *)
RefreshMutex == \A t \in Tasks : Running(t) <=> lock = t

(* What readers find when no refresh is running is one generation: the      *)
(* mirror holds the files of the index, edge_configs the configuration in   *)
(* them, and the template store, which is only ever patched with diffs,     *)
(* what compiling them all would give.                                      *)
ActiveGenerationIsWhole ==
  lock = NoTask /\ index # NoIndex =>
    /\ mirror = index
    /\ config = EdgeConfig(index)
    /\ registry = Templates(index)

(* Files that refresh_origin_snapshot must reject are never in the mirror   *)
(* a running server reads, not even between the two renames and the store   *)
(* writes, and not because they came with an earlier diff.                  *)
LiveFilesWereAccepted ==
  pc["startup"] = "activated" =>
    /\ EdgeConfig(FilesIn(mirror)) \notin BadConfigs
    /\ \A p \in Paths : TemplateOf(FilesIn(mirror), p) \notin BadTemplates

(* next_generation is computed before the swap and stored after it; still   *)
(* no two activations of a process share a number and none is skipped.      *)
ActivationsAreNumbered ==
  [][\A t \in Tasks :
       pc[t] = "set_snapshot" /\ pc'[t] \in {"purge", "activated"} =>
         runtime'.generation = runtime.generation + 1]_vars

(* Whatever the second rename replaced is purged afterwards: the diff with  *)
(* the remembered index names the own URL of every file at which the old    *)
(* mirror and the new one differ.  The first diff of a process has no index *)
(* to start from and may miss files removed while the process was down.     *)
PurgeCoversSwap ==
  \A t \in Tasks : pc[t] = "remove_backup" /\ CdnStrategy # "none" =>
    LET missed == UrlsOf(Differing(job[t].backup, mirror)) \ PurgePlan(DiffOf(t)) IN
    IF job[t].previous = NoIndex
      THEN missed \cap UrlsOf(Known(mirror)) = {}
      ELSE missed = {}

(* A purge that fails, or fails half way, is the only reason for which the  *)
(* CDN still holds an outdated answer for a URL within the reach of the     *)
(* purges once a refresh is over: whatever was changed, also by a process   *)
(* that crashed between swap and purge and whose index is lost.  URLs out   *)
(* of that reach ("/", a rewritten path, a page the edge config changes)    *)
(* stay outdated, and so may an answer made before the swap that reaches    *)
(* the CDN after the purge.                                                 *)
OnlyFailedPurgesLeaveStale ==
  CdnStrategy # "none" /\ lock = NoTask /\ index # NoIndex =>
    cdnStale \cap PurgeReach(index) \subseteq unpurged

(* What an activation reports as its files is what it made live.            *)
ActivatedFilesAreLive ==
  \A t \in Tasks : pc[t] = "set_snapshot" => mirror = job[t].next

(***************************************************************************)
(* Refinement: the generation changes at the second rename.  Until then    *)
(* the active files are those moved aside, and from then on the prepared   *)
(* values of the lock's holder are the active ones, written or not.        *)
(***************************************************************************)
Between(steps) == lock # NoTask /\ pc[lock] \in steps
Committed == Between({"remove_backup"} \cup Installing)

activeFiles == IF Between({"move_new", "restore"}) THEN job[lock].backup ELSE mirror
activeConfig == IF Committed THEN job[lock].config ELSE config
activeTemplates == IF Committed THEN job[lock].registry ELSE registry
activeGeneration == IF Committed THEN job[lock].generation ELSE runtime.generation

Atomic == INSTANCE AtomicOrigin WITH
  files <- activeFiles, config <- activeConfig,
  templates <- activeTemplates, generation <- activeGeneration

(* A refresh that is not cancelled replaces the generation in one step or   *)
(* leaves it alone, whatever fails before the second rename.                *)
ImplementsAtomicOrigin == Atomic!Spec

(***************************************************************************)
(* Liveness.  A task runs on and the file system answers, with an error at *)
(* the latest.  The storage and the CDN promise nothing: their clients     *)
(* have no timeout for a whole call.                                       *)
(***************************************************************************)
AwaitsRemote(t) ==
  \/ pc[t] \in {"list", "purge"}
  \/ pc[t] = "download" /\ job[t].todo # {}

Fairness == \A t \in Tasks : WF_vars(~AwaitsRemote(t) /\ Advance(t))
FairSpec == Spec /\ Fairness

(* If the lock is kept for good, so that manual syncs are answered 409 for  *)
(* ever and the background loop never gets its turn, then the storage or    *)
(* the CDN owes its holder an answer for good.                              *)
LockIsReleased ==
  <>[](lock # NoTask) => <>[](lock # NoTask /\ AwaitsRemote(lock))
==============================================================================
