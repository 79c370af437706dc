-------------------------- MODULE Acceptance_proofs --------------------------
(***************************************************************************)
(* What was not accepted is never live, under every fault of OriginRefresh. *)
(*                                                                         *)
(* An activation checks the templates of the changed paths only.  Those of *)
(* the others are good because their files were copied from a mirror that  *)
(* was accepted before; the first refresh of a process, which copies a     *)
(* mirror of unknown origin, takes every path for changed.                 *)
(***************************************************************************)
EXTENDS OriginRefresh_proofs

AllCompileIn(files) == \A p \in Paths : TemplateOf(files, p) \notin BadTemplates
Acceptable(files) == EdgeConfig(files) \notin BadConfigs /\ AllCompileIn(files)
AcceptedConfigs == {EdgeConfig(files) : files \in Files} \ BadConfigs

Started == pc["startup"] = "activated"

(* What the diff of t does not check has been checked.                     *)
OthersCompile(t) ==
  \A p \in Paths : p \in ChangedPaths(DiffOf(t)) \/ TemplateOf(job[t].staging, p) \notin BadTemplates

StagedFilesAreGood(t) ==
  /\ pc[t] = "list" /\ Started => AllCompileIn(job[t].staging)
  /\ pc[t] = "download" => job[t].todo \subseteq ChangedPaths(DiffOf(t))
  /\ pc[t] = "download" /\ Started => OthersCompile(t)
  /\ pc[t] = "prepare" => OthersCompile(t)
  /\ pc[t] \in Swapping => Acceptable(job[t].staging)
  /\ pc[t] \in Swapping \cup Installing => job[t].config \in AcceptedConfigs
  /\ pc[t] \in {"move_new", "restore"} /\ Started => Acceptable(FilesIn(job[t].backup))

(* Only the startup runs before the origin is served, and it starts from    *)
(* no index.                                                               *)
StartupIsFirst ==
  /\ \A t \in Tasks : Running(t) /\ t # "startup" => Started
  /\ pc["startup"] = "idle" => index = NoIndex
  /\ pc["startup"] \in Staging => job["startup"].previous = NoIndex

MirrorIsGood ==
  pc["startup"] \in {"remove_backup", "purge", "activated"} \cup Installing =>
    Acceptable(FilesIn(mirror))

DetachedFilesAreGood ==
  /\ detached # {} => Started
  /\ \A rename \in detached : rename.op = "move_in" => Acceptable(FilesIn(rename.files))

ConfigIsGood ==
  /\ config \in AcceptedConfigs \cup {NoConfig}
  /\ pc["startup"] \in {"set_registry", "set_index", "set_snapshot", "purge", "activated"} =>
       config \in AcceptedConfigs

AcceptanceInv ==
  /\ \A t \in Tasks : StagedFilesAreGood(t)
  /\ StartupIsFirst
  /\ MirrorIsGood
  /\ DetachedFilesAreGood
  /\ ConfigIsGood

AcceptInv == TypeOK /\ RefreshMutex /\ AcceptanceInv

MirrorIsNew == {"remove_backup", "purge", "activated"} \cup Installing
ConfigIsNew == {"set_registry", "set_index", "set_snapshot", "purge", "activated"}

------------------------------------------------------------------------------
(* Files.                                                                  *)

LEMMA AbsentCompiles ==
  ASSUME NEW files, NEW p \in Paths, files[p] = Absent
  PROVE  TemplateOf(files, p) \notin BadTemplates
BY ConstantsAssumption DEF TemplateOf

LEMMA NoFilesAcceptable == Acceptable(NoFiles)
<1>1. AllCompileIn(NoFiles)
  BY AbsentCompiles DEF AllCompileIn, NoFiles
<1>2. \A i \in DOMAIN EdgeConfigPaths : EdgeConfigPaths[i] \in Paths
  BY ConstantsAssumption
<1>3. EdgeConfig(NoFiles) = DefaultConfig
  BY <1>2 DEF EdgeConfig, NoFiles
<1> QED
  BY <1>1, <1>3, ConstantsAssumption DEF Acceptable

(* Files whose changed paths compile and whose others did compile.         *)
LEMMA OthersAndChangedCompile ==
  ASSUME NEW t \in Tasks, OthersCompile(t), TemplatesCompile(DiffOf(t), job[t].staging)
  PROVE  AllCompileIn(job[t].staging)
BY DEF OthersCompile, TemplatesCompile, AllCompileIn

------------------------------------------------------------------------------
(* What a step of the task that holds the lock leaves as it is.            *)

LEMMA OthersRest ==
  ASSUME AcceptInv, NEW t \in Tasks, Advance(t)
  PROVE  /\ Running(t)
         /\ \A u \in Tasks : u # t => pc[u] \in Ended /\ pc'[u] = pc[u]
         /\ \A u \in Tasks : u # t => StagedFilesAreGood(u)'
         /\ t # "startup" => Started /\ Started'
         /\ \A u \in Tasks : Running(u)' /\ u # "startup" => Started'
<1>1. Running(t) /\ \A u \in Tasks : u # t => pc'[u] = pc[u]
  BY AdvanceMovesOne DEF AcceptInv
<1>2. \A u \in Tasks : u # t => pc[u] \in Ended
  BY <1>1 DEF AcceptInv, RefreshMutex, Running
<1>3. \A u \in Tasks : u # t => StagedFilesAreGood(u)'
  BY <1>1, <1>2 DEF StagedFilesAreGood, Ended, Staging, Swapping, Installing
<1>4. t # "startup" => Started /\ Started'
  BY <1>1 DEF AcceptInv, AcceptanceInv, StartupIsFirst, Started, Tasks
<1>5. ASSUME NEW u \in Tasks, Running(u)', u # "startup" PROVE Started'
  <2>1. u = t
    BY <1>1, <1>2, <1>5 DEF Running
  <2> QED
    BY <1>4, <1>5, <2>1
<1> QED
  BY <1>1, <1>2, <1>3, <1>4, <1>5

LEMMA StartedFacts ==
  ASSUME AcceptInv, NEW t \in Tasks, Advance(t)
  PROVE  /\ Started => t # "startup" /\ Started' /\ pc'["startup"] = "activated"
         /\ pc["startup"] = pc'["startup"] \/ t = "startup"
<1>1. Started => t # "startup"
  BY OthersRest DEF Started, Running, Ended
<1>2. "startup" \in Tasks
  BY DEF Tasks
<1> QED
  BY <1>1, <1>2, OthersRest DEF Started

LEMMA HolderStep ==
  ASSUME AcceptInv, NEW t \in Tasks, Advance(t), UNCHANGED detached,
         pc'[t] # "idle",
         pc'[t] \in Staging => pc[t] \in Staging /\ job'[t].previous = job[t].previous,
         StagedFilesAreGood(t)', MirrorIsGood', ConfigIsGood'
  PROVE  AcceptanceInv'
<1> USE DEF AcceptInv, AcceptanceInv
<1>1. \A u \in Tasks : StagedFilesAreGood(u)'
  BY OthersRest
<1>2. "startup" \in Tasks
  BY DEF Tasks
<1>3. StartupIsFirst'
  <2>1. pc'["startup"] = "idle" => index' = NoIndex
    BY <1>2, OthersRest, StartedFacts DEF StartupIsFirst, Started
  <2>2. pc'["startup"] \in Staging => job'["startup"].previous = NoIndex
    BY <1>2, OthersRest, StartedFacts DEF StartupIsFirst, Started, Staging, Ended
  <2> QED
    BY <2>1, <2>2, OthersRest DEF StartupIsFirst
<1>4. DetachedFilesAreGood'
  BY StartedFacts DEF DetachedFilesAreGood, Acceptable, AllCompileIn
<1> QED
  BY <1>1, <1>3, <1>4

LEMMA SameMirror ==
  ASSUME AcceptInv, NEW t \in Tasks, Advance(t), UNCHANGED mirror,
         pc'[t] \in MirrorIsNew => pc[t] \in MirrorIsNew
  PROVE  MirrorIsGood'
BY StartedFacts
DEF AcceptInv, AcceptanceInv, MirrorIsGood, MirrorIsNew, Acceptable, AllCompileIn

LEMMA SameConfig ==
  ASSUME AcceptInv, NEW t \in Tasks, Advance(t), UNCHANGED config,
         pc'[t] \in ConfigIsNew => pc[t] \in ConfigIsNew
  PROVE  ConfigIsGood'
BY StartedFacts
DEF AcceptInv, AcceptanceInv, ConfigIsGood, ConfigIsNew, AcceptedConfigs

(* A step that changes neither the mirror nor the configuration.           *)
LEMMA QuietStep ==
  ASSUME AcceptInv, NEW t \in Tasks, Advance(t),
         UNCHANGED <<mirror, config, detached>>,
         pc'[t] \in MirrorIsNew => pc[t] \in MirrorIsNew,
         pc'[t] \in ConfigIsNew => pc[t] \in ConfigIsNew,
         pc'[t] # "idle",
         pc'[t] \in Staging => pc[t] \in Staging /\ job'[t].previous = job[t].previous,
         StagedFilesAreGood(t)'
  PROVE  AcceptanceInv'
BY HolderStep, SameMirror, SameConfig

------------------------------------------------------------------------------
(* The steps of a refresh, one by one.                                     *)

(* A refresh that ends without touching mirror and stores.                 *)
LEMMA EndStep ==
  ASSUME AcceptInv, NEW t \in Tasks, Advance(t),
         UNCHANGED <<mirror, config, detached>>,
         NEW outcome \in {"failed", "activated"}, End(t, outcome),
         outcome = "activated" => pc[t] \in {"set_snapshot", "purge"}
  PROVE  AcceptanceInv'
<1>1. pc'[t] = outcome
  BY DEF AcceptInv, TypeOK, End, Goto
<1>2. StagedFilesAreGood(t)'
  BY <1>1 DEF StagedFilesAreGood, Staging, Swapping, Installing
<1> QED
  BY <1>1, <1>2, QuietStep DEF MirrorIsNew, ConfigIsNew, Installing, Staging

LEMMA FailStep ==
  ASSUME AcceptInv, NEW t \in Tasks, Advance(t), Fail(t)
  PROVE  AcceptanceInv'
BY EndStep DEF Fail, cdn, stores

LEMMA PrepareStagingStep ==
  ASSUME AcceptInv, NEW t \in Tasks, PrepareStaging(t)
  PROVE  AcceptanceInv'
<1>1. job' = [job EXCEPT ![t].staging = FilesIn(mirror)] /\ pc'[t] = "list"
  BY DEF PrepareStaging, AcceptInv, TypeOK, Goto
<1>2. /\ job'[t].staging = FilesIn(mirror)
      /\ job'[t].previous = job[t].previous
  BY <1>1 DEF AcceptInv, TypeOK, JobType
<1>3. Started' => Started
  BY StartedFacts, <1>1 DEF Advance, Started
<1>4. Started => Acceptable(FilesIn(mirror))
  BY DEF AcceptInv, AcceptanceInv, MirrorIsGood, Started
<1>5. StagedFilesAreGood(t)'
  BY <1>1, <1>2, <1>3, <1>4
  DEF StagedFilesAreGood, Acceptable, AllCompileIn, Swapping, Installing
<1> QED
  BY <1>1, <1>2, <1>5, QuietStep
  DEF Advance, PrepareStaging, cdn, stores, MirrorIsNew, ConfigIsNew, Installing, Staging

LEMMA ListObjectsStep ==
  ASSUME AcceptInv, NEW t \in Tasks, ListObjects(t)
  PROVE  AcceptanceInv'
<1>1. PICK next \in Index :
        job' = [job EXCEPT ![t].next = next,
                           ![t].todo = ChangedPaths(Diff(job[t].previous, next))]
  BY DEF ListObjects
<1>2. pc'[t] = "download" /\ pc[t] = "list"
  BY DEF ListObjects, AcceptInv, TypeOK, Goto
<1>3. /\ job'[t].staging = job[t].staging
      /\ job'[t].previous = job[t].previous
  BY <1>1 DEF AcceptInv, TypeOK, JobType
<1>4. Started' => Started
  BY StartedFacts, <1>2 DEF ListObjects, Advance, Started
<1>5. Started => AllCompileIn(job[t].staging)
  BY <1>2 DEF AcceptInv, AcceptanceInv, StagedFilesAreGood
<1>6. job'[t].todo = ChangedPaths(DiffOf(t)')
  BY <1>1, <1>3 DEF AcceptInv, TypeOK, JobType, DiffOf
<1>7. StagedFilesAreGood(t)'
  BY <1>2, <1>3, <1>4, <1>5, <1>6
  DEF StagedFilesAreGood, OthersCompile, AllCompileIn, Swapping, Installing
<1> QED
  BY <1>2, <1>3, <1>7, QuietStep
  DEF Advance, ListObjects, cdn, stores, MirrorIsNew, ConfigIsNew, Installing, Staging

LEMMA DownloadObjectStep ==
  ASSUME AcceptInv, NEW t \in Tasks, DownloadObject(t)
  PROVE  AcceptanceInv'
<1>1. PICK p \in job[t].todo :
        job' = [job EXCEPT ![t].staging[p] = job[t].next[p], ![t].todo = @ \ {p}]
  BY DEF DownloadObject
<1>2. pc'[t] = "download" /\ pc[t] = "download" /\ UNCHANGED pc
  BY DEF DownloadObject
<1>3. /\ job'[t].staging = [job[t].staging EXCEPT ![p] = job[t].next[p]]
      /\ job'[t].previous = job[t].previous
      /\ job'[t].next = job[t].next
  BY <1>1 DEF AcceptInv, TypeOK, JobType
<1>4. p \in ChangedPaths(DiffOf(t)) /\ job'[t].todo \subseteq job[t].todo
  BY <1>1, <1>2 DEF AcceptInv, AcceptanceInv, StagedFilesAreGood, TypeOK, JobType
<1>5. DiffOf(t)' = DiffOf(t)
  BY <1>3 DEF DiffOf
<1>6. OthersCompile(t) => OthersCompile(t)'
  <2>1. \A q \in Paths : q # p => job'[t].staging[q] = job[t].staging[q]
    BY <1>3 DEF AcceptInv, TypeOK, JobType, Files, Index
  <2> QED
    BY <1>4, <1>5, <2>1 DEF OthersCompile, TemplateOf
<1>7. StagedFilesAreGood(t)'
  BY <1>2, <1>4, <1>5, <1>6
  DEF AcceptInv, AcceptanceInv, StagedFilesAreGood, Started, Swapping, Installing
<1> QED
  BY <1>2, <1>3, <1>7, QuietStep
  DEF Advance, DownloadObject, cdn, stores, MirrorIsNew, ConfigIsNew, Installing, Staging

LEMMA PruneStep ==
  ASSUME AcceptInv, NEW t \in Tasks, Prune(t)
  PROVE  AcceptanceInv'
<1> DEFINE kept == RemoveDeletedObjects(job[t].next, job[t].staging)
<1>1. job' = [job EXCEPT ![t].staging = kept]
  BY DEF Prune, AcceptInv, TypeOK, JobType
<1>2. pc'[t] = "prepare" /\ pc[t] = "download"
  BY DEF Prune, AcceptInv, TypeOK, Goto
<1>3. /\ job'[t].staging = kept
      /\ job'[t].previous = job[t].previous
      /\ job'[t].next = job[t].next
  BY <1>1 DEF AcceptInv, TypeOK, JobType
<1>4. DiffOf(t)' = DiffOf(t)
  BY <1>3 DEF DiffOf
<1>5. \A p \in Paths : kept[p] = IF job[t].next[p] = Absent THEN Absent ELSE job[t].staging[p]
  BY DEF RemoveDeletedObjects, Listed
<1>6. OthersCompile(t)'
  <2> SUFFICES ASSUME NEW p \in Paths, p \notin ChangedPaths(DiffOf(t))
               PROVE  TemplateOf(kept, p) \notin BadTemplates
    BY <1>3, <1>4 DEF OthersCompile
  <2>1. CASE job[t].next[p] = Absent
    BY <1>5, <2>1, AbsentCompiles
  <2>2. CASE job[t].next[p] # Absent
    <3>1. Started
      <4>1. CASE t = "startup"
        <5>1. job[t].previous = NoIndex
          BY <1>2, <4>1 DEF AcceptInv, AcceptanceInv, StartupIsFirst, Staging
        <5>2. ChangedPaths(DiffOf(t)) = Known(job[t].next)
          BY <5>1 DEF DiffOf, Diff, ChangedPaths
        <5> QED
          BY <2>2, <5>2 DEF Known
      <4>2. CASE t # "startup"
        BY <4>2, OthersRest DEF Advance
      <4> QED
        BY <4>1, <4>2
    <3>2. TemplateOf(job[t].staging, p) \notin BadTemplates
      BY <1>2, <3>1 DEF AcceptInv, AcceptanceInv, StagedFilesAreGood, OthersCompile
    <3>3. kept[p] = job[t].staging[p]
      BY <1>5, <2>2
    <3> QED
      BY <3>2, <3>3 DEF TemplateOf
  <2> QED
    BY <2>1, <2>2
<1>7. StagedFilesAreGood(t)'
  BY <1>2, <1>6 DEF StagedFilesAreGood, Swapping, Installing
<1> QED
  BY <1>2, <1>3, <1>7, QuietStep
  DEF Advance, Prune, cdn, stores, MirrorIsNew, ConfigIsNew, Installing, Staging

LEMMA PrepareActivationStep ==
  ASSUME AcceptInv, NEW t \in Tasks, PrepareActivation(t)
  PROVE  AcceptanceInv'
<1>1. pc'[t] = "move_old" /\ pc[t] = "prepare"
  BY DEF PrepareActivation, AcceptInv, TypeOK, Goto
<1>2. /\ job'[t].staging = job[t].staging
      /\ job'[t].config = EdgeConfig(job[t].staging)
  BY DEF PrepareActivation, AcceptInv, TypeOK, JobType
<1>3. Acceptable(job[t].staging)
  <2>1. OthersCompile(t)
    BY <1>1 DEF AcceptInv, AcceptanceInv, StagedFilesAreGood
  <2> QED
    BY <2>1, OthersAndChangedCompile DEF PrepareActivation, Accepts, Acceptable
<1>4. job'[t].config \in AcceptedConfigs
  BY <1>2, <1>3 DEF AcceptedConfigs, Acceptable, AcceptInv, TypeOK, JobType
<1>5. StagedFilesAreGood(t)'
  BY <1>1, <1>2, <1>3, <1>4
  DEF StagedFilesAreGood, Acceptable, AllCompileIn, AcceptedConfigs
<1> QED
  BY <1>1, <1>5, QuietStep
  DEF Advance, PrepareActivation, cdn, stores, MirrorIsNew, ConfigIsNew, Installing, Staging

LEMMA MoveOldAsideStep ==
  ASSUME AcceptInv, NEW t \in Tasks, MoveOldAside(t)
  PROVE  AcceptanceInv'
<1>1. pc'[t] = "move_new" /\ pc[t] = "move_old" /\ Advance(t)
  BY DEF MoveOldAside, AcceptInv, TypeOK, Goto, Advance
<1>2. /\ job'[t].staging = job[t].staging
      /\ job'[t].config = job[t].config
      /\ job'[t].backup = mirror
  BY DEF MoveOldAside, AcceptInv, TypeOK, JobType
<1>3. /\ Acceptable(job[t].staging) /\ job[t].config \in AcceptedConfigs
      /\ Started => Acceptable(FilesIn(mirror))
  BY <1>1 DEF AcceptInv, AcceptanceInv, StagedFilesAreGood, MirrorIsGood, Started, Swapping
<1>4. Started' => Started
  BY <1>1, StartedFacts DEF Started
<1>5. StagedFilesAreGood(t)'
  BY <1>1, <1>2, <1>3, <1>4
  DEF StagedFilesAreGood, Acceptable, AllCompileIn, AcceptedConfigs
<1>6. MirrorIsGood'
  <2>1. FilesIn(mirror') = NoFiles
    BY DEF MoveOldAside, FilesIn
  <2> QED
    BY <2>1, NoFilesAcceptable DEF MirrorIsGood, Acceptable, AllCompileIn
<1>7. ConfigIsGood'
  BY <1>1, SameConfig DEF MoveOldAside, cdn, stores, ConfigIsNew
<1> QED
  BY <1>1, <1>5, <1>6, <1>7, HolderStep DEF MoveOldAside, Staging

LEMMA MoveStagingInStep ==
  ASSUME AcceptInv, NEW t \in Tasks, MoveStagingIn(t)
  PROVE  AcceptanceInv'
<1>1. pc'[t] = "remove_backup" /\ pc[t] = "move_new" /\ Advance(t) /\ job' = job
  BY DEF MoveStagingIn, AcceptInv, TypeOK, Goto, Advance
<1>2. Acceptable(job[t].staging) /\ job[t].config \in AcceptedConfigs
  BY <1>1 DEF AcceptInv, AcceptanceInv, StagedFilesAreGood, Swapping
<1>3. StagedFilesAreGood(t)'
  BY <1>1, <1>2 DEF StagedFilesAreGood, Acceptable, AllCompileIn, AcceptedConfigs
<1>4. MirrorIsGood'
  <2>1. FilesIn(mirror') = job[t].staging
    BY RefreshAssumption DEF MoveStagingIn, FilesIn, AcceptInv, TypeOK, JobType, Files
  <2> QED
    BY <1>2, <2>1 DEF MirrorIsGood, Acceptable, AllCompileIn
<1>5. ConfigIsGood'
  BY <1>1, SameConfig DEF MoveStagingIn, cdn, stores, ConfigIsNew
<1> QED
  BY <1>1, <1>3, <1>4, <1>5, HolderStep DEF MoveStagingIn, Staging

LEMMA MoveStagingInFailsStep ==
  ASSUME AcceptInv, NEW t \in Tasks, MoveStagingInFails(t)
  PROVE  AcceptanceInv'
<1>1. CASE Fail(t)
  BY <1>1, FailStep DEF Advance
<1>2. CASE /\ Goto(t, "restore")
           /\ UNCHANGED <<lock, job, mirror, stores, runtime, cdn, detached>>
  <2>1. pc'[t] = "restore" /\ pc[t] = "move_new" /\ Advance(t)
    BY <1>2 DEF MoveStagingInFails, AcceptInv, TypeOK, Goto, Advance
  <2>2. Started' => Started
    BY <2>1, StartedFacts DEF Started
  <2>3. StagedFilesAreGood(t)'
    BY <1>2, <2>1, <2>2
    DEF AcceptInv, AcceptanceInv, StagedFilesAreGood, Acceptable, AllCompileIn,
        AcceptedConfigs, Swapping
  <2> QED
    BY <1>2, <2>1, <2>3, QuietStep DEF cdn, stores, MirrorIsNew, ConfigIsNew, Installing, Staging
<1> QED
  BY <1>1, <1>2 DEF MoveStagingInFails

LEMMA RestoreOldStep ==
  ASSUME AcceptInv, NEW t \in Tasks, RestoreOld(t)
  PROVE  AcceptanceInv'
<1>1. pc'[t] = "failed" /\ pc[t] = "restore" /\ Advance(t)
  BY DEF RestoreOld, AcceptInv, TypeOK, End, Goto, Advance
<1>2. StagedFilesAreGood(t)'
  BY <1>1 DEF StagedFilesAreGood, Swapping, Installing
<1>3. MirrorIsGood'
  <2>1. CASE Started
    <3>1. Acceptable(FilesIn(job[t].backup))
      BY <1>1, <2>1 DEF AcceptInv, AcceptanceInv, StagedFilesAreGood
    <3>2. mirror' = job[t].backup
      BY DEF RestoreOld
    <3> QED
      BY <3>1, <3>2 DEF MirrorIsGood, Acceptable, AllCompileIn
  <2>2. CASE ~Started
    <3>1. t = "startup"
      BY <1>1, <2>2, OthersRest
    <3> QED
      BY <1>1, <3>1 DEF MirrorIsGood, Installing
  <2> QED
    BY <2>1, <2>2
<1>4. ConfigIsGood'
  BY <1>1, SameConfig DEF RestoreOld, cdn, stores, ConfigIsNew
<1> QED
  BY <1>1, <1>2, <1>3, <1>4, HolderStep DEF RestoreOld, Staging

LEMMA RemoveBackupStep ==
  ASSUME AcceptInv, NEW t \in Tasks, RemoveBackup(t)
  PROVE  AcceptanceInv'
<1>1. pc'[t] = "set_valid" /\ pc[t] = "remove_backup" /\ Advance(t)
  BY DEF RemoveBackup, AcceptInv, TypeOK, Goto, Advance
<1>2. job'[t].config = job[t].config
  BY DEF RemoveBackup, AcceptInv, TypeOK, JobType
<1>3. StagedFilesAreGood(t)'
  BY <1>1, <1>2
  DEF AcceptInv, AcceptanceInv, StagedFilesAreGood, AcceptedConfigs, Swapping
<1> QED
  BY <1>1, <1>3, QuietStep
  DEF RemoveBackup, cdn, stores, MirrorIsNew, ConfigIsNew, Installing, Staging

LEMMA SetValidStep ==
  ASSUME AcceptInv, NEW t \in Tasks, SetValid(t)
  PROVE  AcceptanceInv'
<1>1. pc'[t] = "set_registry" /\ pc[t] = "set_valid" /\ Advance(t) /\ job' = job
  BY DEF SetValid, AcceptInv, TypeOK, Goto, Advance
<1>2. config' \in AcceptedConfigs
  BY <1>1 DEF SetValid, AcceptInv, AcceptanceInv, StagedFilesAreGood, Installing
<1>3. StagedFilesAreGood(t)'
  BY <1>1 DEF AcceptInv, AcceptanceInv, StagedFilesAreGood, AcceptedConfigs, Swapping, Installing
<1>4. ConfigIsGood'
  BY <1>2 DEF ConfigIsGood, AcceptedConfigs
<1>5. MirrorIsGood'
  BY <1>1, SameMirror DEF SetValid, MirrorIsNew, Installing
<1> QED
  BY <1>1, <1>3, <1>4, <1>5, HolderStep DEF SetValid, Staging

LEMMA InstallStep ==
  ASSUME AcceptInv, NEW t \in Tasks, SetOriginRegistry(t) \/ InsertIndex(t)
  PROVE  AcceptanceInv'
<1>1. /\ pc'[t] \in {"set_index", "set_snapshot"} /\ pc[t] \in {"set_registry", "set_index"}
      /\ Advance(t) /\ UNCHANGED <<job, mirror, config, detached>>
  BY DEF SetOriginRegistry, InsertIndex, AcceptInv, TypeOK, Goto, Advance
<1>2. StagedFilesAreGood(t)'
  BY <1>1 DEF AcceptInv, AcceptanceInv, StagedFilesAreGood, AcceptedConfigs, Swapping, Installing
<1> QED
  BY <1>1, <1>2, QuietStep DEF MirrorIsNew, ConfigIsNew, Installing, Staging

LEMMA SetSnapshotStep ==
  ASSUME AcceptInv, NEW t \in Tasks, SetSnapshot(t)
  PROVE  AcceptanceInv'
<1>1. Advance(t) /\ pc[t] = "set_snapshot" /\ UNCHANGED <<mirror, config, detached>>
  BY DEF SetSnapshot, Advance, cdn, stores
<1>2. CASE End(t, "activated")
  BY <1>1, <1>2, EndStep
<1>3. CASE Goto(t, "purge")
  <2>1. pc'[t] = "purge"
    BY <1>3 DEF AcceptInv, TypeOK, Goto
  <2>2. StagedFilesAreGood(t)'
    BY <2>1 DEF StagedFilesAreGood, Swapping, Installing
  <2> QED
    BY <1>1, <2>1, <2>2, QuietStep DEF MirrorIsNew, ConfigIsNew, Installing, Staging
<1> QED
  BY <1>2, <1>3 DEF SetSnapshot

LEMMA AdvanceAccepts ==
  ASSUME AcceptInv, NEW t \in Tasks, Advance(t)
  PROVE  AcceptanceInv'
<1>1. CASE FailBeforeSwap(t) \/ RestoreFails(t) \/ RemoveBackupFails(t)
  BY <1>1, FailStep DEF FailBeforeSwap, RestoreFails, RemoveBackupFails
<1>2. CASE PurgeCdn(t) \/ PurgeFails(t)
  BY <1>2, EndStep DEF PurgeCdn, PurgeFails, cdn, stores
<1> QED
  BY <1>1, <1>2, PrepareStagingStep, ListObjectsStep, DownloadObjectStep, PruneStep,
     PrepareActivationStep, MoveOldAsideStep, MoveStagingInStep, MoveStagingInFailsStep,
     RestoreOldStep, RemoveBackupStep, SetValidStep, InstallStep, SetSnapshotStep
  DEF Advance

------------------------------------------------------------------------------
(* The other steps.                                                        *)

LEMMA TryAcquireAccepts ==
  ASSUME AcceptInv, NEW t \in Tasks, TryAcquire(t)
  PROVE  AcceptanceInv'
<1> USE DEF AcceptInv, AcceptanceInv
<1>1. \A u \in Tasks : pc[u] \in Ended
  BY RefreshAssumption DEF TryAcquire, RefreshMutex, Running, Tasks
<1>2. /\ pc'[t] = "prepare_staging"
      /\ \A u \in Tasks : u # t => pc'[u] = pc[u]
      /\ job'[t].previous = index
  BY DEF TryAcquire, Goto, TypeOK, NoJob
<1>3. /\ t # "startup" => Started /\ Started'
      /\ t = "startup" => pc["startup"] = "idle" /\ ~Started
  BY <1>2 DEF TryAcquire, MayStart, Started, Tasks
<1>4. \A u \in Tasks : StagedFilesAreGood(u)'
  BY <1>1, <1>2 DEF StagedFilesAreGood, Ended, Swapping, Installing
<1>5. StartupIsFirst'
  BY <1>1, <1>2, <1>3
  DEF StartupIsFirst, Running, Started, Staging, Ended, TryAcquire, cdn, stores
<1>6. UNCHANGED <<mirror, config, index, detached>>
  BY DEF TryAcquire, cdn, stores
<1>7. MirrorIsGood' /\ ConfigIsGood'
  BY <1>2, <1>3, <1>6
  DEF MirrorIsGood, ConfigIsGood, Started, Installing, Acceptable, AllCompileIn,
      AcceptedConfigs
<1>8. DetachedFilesAreGood'
  BY <1>3, <1>6 DEF DetachedFilesAreGood, Acceptable, AllCompileIn
<1> QED
  BY <1>4, <1>5, <1>7, <1>8

LEMMA AlreadyRunningAccepts ==
  ASSUME AcceptInv, NEW t \in Tasks, AlreadyRunning(t)
  PROVE  AcceptanceInv'
<1> USE DEF AcceptInv, AcceptanceInv
<1>1. /\ pc'[t] = "conflict" /\ pc[t] \in Ended
      /\ \A u \in Tasks : u # t => pc'[u] = pc[u]
      /\ UNCHANGED <<job, mirror, config, index, detached>>
  BY DEF AlreadyRunning, MayStart, Goto, TypeOK, cdn, stores
<1>2. /\ t # "startup" => Started /\ Started'
      /\ t = "startup" => pc["startup"] = "idle" /\ ~Started
  BY <1>1 DEF AlreadyRunning, MayStart, Started, Tasks
<1>3. ASSUME NEW u \in Tasks PROVE StagedFilesAreGood(u)'
  <2>1. CASE u = t
    BY <1>1, <2>1 DEF StagedFilesAreGood, Swapping, Installing
  <2>2. CASE u # t
    <3>1. Started' => Started
      BY <1>2, <1>1 DEF Started
    <3> QED
      BY <1>1, <2>2, <3>1
      DEF StagedFilesAreGood, OthersCompile, DiffOf, Acceptable, AllCompileIn, AcceptedConfigs
  <2> QED
    BY <2>1, <2>2
<1>4. StartupIsFirst'
  BY <1>1, <1>2 DEF StartupIsFirst, Running, Started, Staging, Ended, Tasks
<1>5. MirrorIsGood' /\ ConfigIsGood'
  BY <1>1, <1>2
  DEF MirrorIsGood, ConfigIsGood, Started, Installing, Acceptable, AllCompileIn,
      AcceptedConfigs
<1>6. DetachedFilesAreGood'
  BY <1>1, <1>2 DEF DetachedFilesAreGood, Started, Acceptable, AllCompileIn
<1> QED
  BY <1>3, <1>4, <1>5, <1>6

(* What a cancelled refresh leaves running moves files that were accepted.  *)
LEMMA CancelAccepts ==
  ASSUME AcceptInv, NEW t \in Tasks, Cancel(t)
  PROVE  AcceptanceInv'
<1> USE DEF AcceptInv, AcceptanceInv
<1>1. /\ pc'[t] = "idle" /\ pc[t] \in Staging \cup Swapping \cup {"purge"}
      /\ \A u \in Tasks : u # t => pc'[u] = pc[u]
      /\ \A u \in Tasks : u # t => job'[u] = job[u]
      /\ UNCHANGED <<mirror, config, index>>
      /\ detached' = detached \cup RenameInFlight(t)
  BY DEF Cancel, End, Goto, TypeOK, cdn, stores
<1>2. t # "startup" /\ Running(t)
  BY <1>1, RefreshAssumption DEF Cancel, Running, Ended, Staging, Swapping
<1>3. Started /\ Started' /\ pc'["startup"] = "activated"
  BY <1>1, <1>2 DEF StartupIsFirst, Started, Tasks
<1>4. ASSUME NEW u \in Tasks PROVE StagedFilesAreGood(u)'
  <2>1. CASE u = t
    BY <1>1, <2>1 DEF StagedFilesAreGood, Swapping, Installing
  <2>2. CASE u # t
    BY <1>1, <1>3, <2>2
    DEF StagedFilesAreGood, OthersCompile, DiffOf, Acceptable, AllCompileIn, AcceptedConfigs
  <2> QED
    BY <2>1, <2>2
<1>5. StartupIsFirst'
  BY <1>3 DEF StartupIsFirst, Started, Staging
<1>6. MirrorIsGood' /\ ConfigIsGood'
  BY <1>1, <1>3
  DEF MirrorIsGood, ConfigIsGood, Started, Acceptable, AllCompileIn, AcceptedConfigs
<1>7. ASSUME NEW rename \in RenameInFlight(t), rename.op = "move_in"
      PROVE  Acceptable(FilesIn(rename.files))
  <2>1. CASE pc[t] = "move_new"
    <3>1. rename.files = job[t].staging
      BY <1>7, <2>1 DEF RenameInFlight
    <3>2. FilesIn(rename.files) = job[t].staging
      BY <3>1, RefreshAssumption DEF FilesIn, TypeOK, JobType, Files
    <3> QED
      BY <2>1, <3>2 DEF StagedFilesAreGood, Swapping
  <2>2. CASE pc[t] = "restore"
    <3>1. rename.files = job[t].backup
      BY <1>7, <2>2 DEF RenameInFlight
    <3> QED
      BY <1>3, <2>2, <3>1 DEF StagedFilesAreGood
  <2>3. CASE pc[t] \notin {"move_new", "restore"}
    BY <1>7, <2>3 DEF RenameInFlight
  <2> QED
    BY <2>1, <2>2, <2>3
<1>8. DetachedFilesAreGood'
  BY <1>1, <1>3, <1>7 DEF DetachedFilesAreGood, Acceptable, AllCompileIn
<1> QED
  BY <1>4, <1>5, <1>6, <1>8

LEMMA RunDetachedAccepts ==
  ASSUME AcceptInv, RunDetached
  PROVE  AcceptanceInv'
<1> USE DEF AcceptInv, AcceptanceInv
<1>1. PICK rename \in detached :
        /\ detached' = detached \ {rename}
        /\ \/ mirror' = NoDir
           \/ mirror' = mirror
           \/ rename.op = "move_in" /\ mirror' = rename.files
        /\ UNCHANGED <<lock, pc, job, stores, runtime>>
  BY DEF RunDetached
<1>2. Started
  BY DEF DetachedFilesAreGood
<1>3. Acceptable(FilesIn(mirror'))
  <2>1. Acceptable(FilesIn(mirror))
    BY <1>2 DEF MirrorIsGood, Started
  <2>2. FilesIn(NoDir) = NoFiles
    BY DEF FilesIn
  <2> QED
    BY <1>1, <2>1, <2>2, NoFilesAcceptable DEF DetachedFilesAreGood
<1>4. MirrorIsGood'
  BY <1>3 DEF MirrorIsGood, Acceptable, AllCompileIn
<1>5. /\ \A t \in Tasks : StagedFilesAreGood(t)'
      /\ StartupIsFirst' /\ ConfigIsGood'
  BY <1>1
  DEF StagedFilesAreGood, OthersCompile, DiffOf, StartupIsFirst, ConfigIsGood, Running,
      Started, Acceptable, AllCompileIn, AcceptedConfigs, cdn, stores
<1>6. DetachedFilesAreGood'
  BY <1>1, <1>2 DEF DetachedFilesAreGood, Started, Acceptable, AllCompileIn
<1> QED
  BY <1>4, <1>5, <1>6

(* A process that starts serves nothing yet.                               *)
LEMMA FreshProcessAccepts ==
  ASSUME \A t \in Tasks : pc[t] = "idle", config = NoConfig, index = NoIndex, detached = {}
  PROVE  AcceptanceInv
BY DEF AcceptanceInv, StagedFilesAreGood, StartupIsFirst, MirrorIsGood, DetachedFilesAreGood,
       ConfigIsGood, Running, Ended, Staging, Swapping, Installing, Tasks

LEMMA NextAccepts == AcceptInv /\ [Next]_vars => AcceptInv'
<1> SUFFICES ASSUME AcceptInv, [Next]_vars PROVE AcceptanceInv'
  BY NextTypeOK, NextKeepsMutex DEF AcceptInv
<1>1. CASE Restart
  BY <1>1
  DEF Restart, AcceptanceInv, StagedFilesAreGood, StartupIsFirst, MirrorIsGood,
      DetachedFilesAreGood, ConfigIsGood, Running, Ended, Staging, Swapping, Installing, Tasks
<1>2. CASE UNCHANGED vars
  BY <1>2
  DEF vars, AcceptInv, AcceptanceInv, StagedFilesAreGood, OthersCompile, DiffOf,
      StartupIsFirst, MirrorIsGood, DetachedFilesAreGood, ConfigIsGood, Running,
      Started, Acceptable, AllCompileIn, AcceptedConfigs
<1> QED
  BY <1>1, <1>2, AdvanceAccepts, TryAcquireAccepts, AlreadyRunningAccepts, CancelAccepts,
     RunDetachedAccepts
  DEF Next, Crash, ExitAfterFailedStartup

LEMMA InitAccepts == Init => AcceptInv
<1> SUFFICES ASSUME Init PROVE AcceptInv
  OBVIOUS
<1>1. RefreshMutex
  BY RefreshAssumption DEF Init, RefreshMutex, Running, Ended, Tasks
<1> QED
  BY <1>1, InitTypeOK, FreshProcessAccepts DEF Init, AcceptInv

(* Under every fault, a cancelled refresh whose rename still runs included, *)
(* the mirror of a listening server never holds an edge config that         *)
(* parse_edge_config rejects or a template that does not compile.           *)
THEOREM OnlyAcceptedFilesAreLive == Spec => []LiveFilesWereAccepted
<1>1. AcceptInv => LiveFilesWereAccepted
  BY DEF AcceptInv, AcceptanceInv, MirrorIsGood, LiveFilesWereAccepted, Acceptable, AllCompileIn
<1> QED
  BY <1>1, InitAccepts, NextAccepts, PTL DEF Spec
==============================================================================
