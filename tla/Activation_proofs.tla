--------------------------- MODULE Activation_proofs ---------------------------
(***************************************************************************)
(* Theorems about what an activation leaves behind, when neither the       *)
(* removal of the backup nor the restoring rename fails and no manual sync *)
(* is cancelled.  The runs refresh_cleanup_fault and refresh_cancelled     *)
(* show that the assumption is needed.                                     *)
(*                                                                         *)
(* ActiveGenerationIsWhole speaks of the moments when no refresh runs.  It *)
(* is not inductive: the steps in between matter.  GenerationInv says how  *)
(* far each of them has brought the new generation.  With it, what the     *)
(* purge after an activation covers; and, without the assumption, what a   *)
(* process starts with.                                                    *)
(***************************************************************************)
EXTENDS OriginRefresh_proofs

BenignFaults == Faults \cap {"cleanup", "restore", "cancel"} = {}

BeforeIndex == Staging \cup Swapping \cup {"set_valid", "set_registry", "set_index"}
Prepared == Swapping \cup Installing
Aside == {"move_new", "restore"}
AfterSwap == {"remove_backup"} \cup Installing \cup {"purge"}

AllCompile(files) == \A p \in Paths : TemplateOf(files, p) \notin BadTemplates

(* The diff starts from the index that is still the active one.            *)
PreviousIsActive(t) == pc[t] \in BeforeIndex => job[t].previous = index

(* The staging copy starts from the files of that index.                   *)
CopyIsActive(t) == pc[t] = "list" /\ index # NoIndex => job[t].staging = index

(* What need not be downloaded any more is as it was listed.               *)
DownloadedAsListed(t) ==
  pc[t] = "download" =>
    \A p \in Known(job[t].next) \ job[t].todo : job[t].staging[p] = job[t].next[p]

StagedAsListed(t) == pc[t] \in {"prepare"} \cup Prepared => job[t].staging = job[t].next

(* What will be installed was made from the listed files.                  *)
PreparedFromListed(t) ==
  pc[t] \in Prepared =>
    /\ job[t].config = EdgeConfig(job[t].next)
    /\ job[t].registry = Templates(job[t].next)
    /\ job[t].generation = runtime.generation + 1
    /\ EdgeConfig(job[t].next) \notin BadConfigs
    /\ AllCompile(job[t].next)

(* Between the renames the old generation is in the backup directory.      *)
OldIsAside(t) ==
  pc[t] \in Aside =>
    /\ mirror = NoDir
    /\ index # NoIndex => job[t].backup = index

(* After them the stores catch up with the mirror one by one.              *)
InstalledSoFar(t) ==
  /\ pc[t] \in AfterSwap => mirror = job[t].next
  /\ pc[t] \in {"set_registry", "set_index", "set_snapshot", "purge"} =>
       config = EdgeConfig(job[t].next)
  /\ pc[t] \in {"set_index", "set_snapshot", "purge"} =>
       registry = Templates(job[t].next)
  /\ pc[t] \in {"set_snapshot", "purge"} => index = job[t].next
  /\ pc[t] \in AfterSwap => AllCompile(job[t].next)

JobInv(t) ==
  /\ PreviousIsActive(t)
  /\ CopyIsActive(t)
  /\ DownloadedAsListed(t)
  /\ StagedAsListed(t)
  /\ PreparedFromListed(t)
  /\ OldIsAside(t)
  /\ InstalledSoFar(t)

(* As long as no new files are live, the stores hold the indexed           *)
(* generation, or nothing in a process that has activated none.            *)
StoresHoldIndex ==
  IF index = NoIndex
    THEN registry = NoFiles
    ELSE /\ config = EdgeConfig(index)
         /\ registry = Templates(index)
         /\ AllCompile(index)

StoresAreActive == (\A t \in Tasks : pc[t] \notin AfterSwap) => StoresHoldIndex

MirrorHoldsIndex == index # NoIndex => mirror = index

MirrorIsActive == (\A t \in Tasks : pc[t] \notin AfterSwap \cup Aside) => MirrorHoldsIndex

GenerationInv ==
  /\ detached = {}
  /\ \A t \in Tasks : JobInv(t)
  /\ StoresAreActive
  /\ MirrorIsActive

IInv == TypeOK /\ RefreshMutex /\ GenerationInv

------------------------------------------------------------------------------
(* Templates: patching the registry with a diff gives what compiling the   *)
(* whole mirror would give.                                                *)

(* A path that is not there has no template.                               *)
LEMMA NoTemplateWhenAbsent ==
  ASSUME NEW files, NEW p \in Paths, files[p] = Absent
  PROVE  TemplateOf(files, p) = Absent
BY ConstantsAssumption DEF TemplateOf

LEMMA FirstTemplates ==
  ASSUME NEW files \in Files
  PROVE  TemplateUpdate(NoFiles, Diff(NoIndex, files), files) = Templates(files)
<1> SUFFICES ASSUME NEW p \in Paths
             PROVE  TemplateUpdate(NoFiles, Diff(NoIndex, files), files)[p]
                      = TemplateOf(files, p)
  BY DEF TemplateUpdate, Templates
<1>1. ChangedPaths(Diff(NoIndex, files)) = Known(files)
  BY DEF ChangedPaths, Diff
<1>2. CASE p \in Known(files)
  BY <1>1, <1>2 DEF TemplateUpdate
<1>3. CASE p \notin Known(files)
  <2>1. TemplateOf(files, p) = Absent
    BY <1>3, NoTemplateWhenAbsent DEF Known
  <2> QED
    BY <1>1, <1>3, <2>1 DEF TemplateUpdate, NoFiles
<1> QED
  BY <1>2, <1>3

LEMMA NextTemplates ==
  ASSUME NEW old \in Index, NEW new \in Index
  PROVE  TemplateUpdate(Templates(old), Diff(old, new), new) = Templates(new)
<1> DEFINE diff == Diff(old, new)
<1> SUFFICES ASSUME NEW p \in Paths
             PROVE  TemplateUpdate(Templates(old), diff, new)[p] = TemplateOf(new, p)
  BY DEF TemplateUpdate, Templates
<1>1. old # NoIndex
  BY NoIndexAssumption
<1>2. CASE p \in ChangedPaths(diff)
  BY <1>2 DEF TemplateUpdate
<1>3. CASE p \notin ChangedPaths(diff) /\ p \in diff.removed
  <2>1. new[p] = Absent
    BY <1>1, <1>3 DEF Diff, Known
  <2>2. TemplateOf(new, p) = Absent
    BY <2>1, NoTemplateWhenAbsent
  <2> QED
    BY <1>3, <2>2 DEF TemplateUpdate
<1>4. CASE p \notin ChangedPaths(diff) /\ p \notin diff.removed
  <2>1. old[p] = new[p]
    BY <1>1, <1>4 DEF ChangedPaths, Diff, Known
  <2>2. TemplateUpdate(Templates(old), diff, new)[p] = TemplateOf(old, p)
    BY <1>4 DEF TemplateUpdate, Templates
  <2> QED
    BY <2>1, <2>2 DEF TemplateOf
<1> QED
  BY <1>2, <1>3, <1>4

(* Unchanged templates were accepted with the generation they came with.   *)
LEMMA ChangedCompileSuffices ==
  ASSUME NEW old \in Index \cup {NoIndex}, NEW new \in Index,
         old # NoIndex => AllCompile(old),
         TemplatesCompile(Diff(old, new), new)
  PROVE  AllCompile(new)
<1> SUFFICES ASSUME NEW p \in Paths PROVE TemplateOf(new, p) \notin BadTemplates
  BY DEF AllCompile
<1>1. CASE p \in ChangedPaths(Diff(old, new))
  BY <1>1 DEF TemplatesCompile
<1>2. CASE new[p] = Absent
  BY <1>2, NoTemplateWhenAbsent, ConstantsAssumption
<1>3. CASE p \notin ChangedPaths(Diff(old, new)) /\ new[p] # Absent
  <2>1. old # NoIndex /\ old[p] = new[p]
    BY <1>3 DEF ChangedPaths, Diff, Known
  <2> QED
    BY <2>1 DEF AllCompile, TemplateOf
<1> QED
  BY <1>1, <1>2, <1>3

(* What a listing did not change, the staging copy holds already.          *)
LEMMA UnchangedIsCopied ==
  ASSUME NEW old \in Index \cup {NoIndex}, NEW new \in Index,
         NEW p \in Known(new) \ ChangedPaths(Diff(old, new))
  PROVE  old # NoIndex /\ old[p] = new[p]
BY DEF ChangedPaths, Diff, Known

------------------------------------------------------------------------------
(* What the holder of the lock may rely on.                                *)

LEMMA OthersEnded ==
  ASSUME TypeOK, RefreshMutex, NEW t \in Tasks, Running(t), NEW u \in Tasks, u # t
  PROVE  pc[u] \in Ended
BY DEF TypeOK, RefreshMutex, Running

(* A task that is not running owes nothing.                                *)
LEMMA EndedJobInv ==
  ASSUME NEW t \in Tasks, pc'[t] \in Ended
  PROVE  JobInv(t)'
BY DEF JobInv, PreviousIsActive, CopyIsActive, DownloadedAsListed, StagedAsListed,
       PreparedFromListed, OldIsAside, InstalledSoFar, BeforeIndex, Prepared, Aside,
       AfterSwap, Ended, Staging, Swapping, Installing

LEMMA HolderFacts ==
  ASSUME IInv, NEW t \in Tasks, Running(t)
  PROVE  /\ pc[t] \notin AfterSwap => StoresHoldIndex
         /\ pc[t] \notin AfterSwap \cup Aside => MirrorHoldsIndex
         /\ JobInv(t)
<1>1. \A u \in Tasks : u # t => pc[u] \notin AfterSwap \cup Aside
  BY OthersEnded DEF IInv, Ended, AfterSwap, Aside, Installing
<1> QED
  BY <1>1 DEF IInv, GenerationInv, StoresAreActive, MirrorIsActive

LEMMA IdleFacts ==
  ASSUME IInv, lock = NoTask
  PROVE  StoresHoldIndex /\ MirrorHoldsIndex
<1>1. \A u \in Tasks : pc[u] \in Ended
  BY RefreshAssumption DEF IInv, RefreshMutex, Running, Tasks
<1> QED
  BY <1>1 DEF IInv, GenerationInv, StoresAreActive, MirrorIsActive, Ended, AfterSwap,
              Aside, Installing

(* A step that only the holder takes part in: the rest follows from it.    *)
LEMMA HolderStepKeeps ==
  ASSUME IInv, NEW t \in Tasks, Running(t),
         pc' \in [Tasks -> Steps], \A u \in Tasks : u # t => pc'[u] = pc[u],
         detached' = {},
         pc'[t] \notin Ended => JobInv(t)',
         pc'[t] \notin AfterSwap => StoresHoldIndex',
         pc'[t] \notin AfterSwap \cup Aside => MirrorHoldsIndex'
  PROVE  GenerationInv'
<1>1. \A u \in Tasks : JobInv(u)'
  BY OthersEnded, EndedJobInv DEF IInv
<1> QED
  BY <1>1 DEF GenerationInv, StoresAreActive, MirrorIsActive

(* The steps before the first rename leave mirror and stores alone.        *)
LEMMA QuietStepKeeps ==
  ASSUME IInv, NEW t \in Tasks, pc[t] \in Staging \cup {"move_old"},
         NEW step \in Steps, pc' = [pc EXCEPT ![t] = step],
         UNCHANGED <<mirror, stores, detached>>,
         step \notin Ended => JobInv(t)',
         step \notin AfterSwap \cup Aside
  PROVE  GenerationInv'
<1>1. Running(t) /\ pc[t] \notin AfterSwap \cup Aside
  BY DEF Running, Ended, Staging, AfterSwap, Aside, Installing
<1>2. StoresHoldIndex /\ MirrorHoldsIndex
  BY <1>1, HolderFacts
<1>3. StoresHoldIndex' /\ MirrorHoldsIndex'
  BY <1>2 DEF StoresHoldIndex, MirrorHoldsIndex, cdn, stores
<1>4. pc' \in [Tasks -> Steps] /\ pc'[t] = step
  BY DEF IInv, TypeOK
<1>5. detached' = {}
  BY DEF IInv, GenerationInv
<1>6. \A u \in Tasks : u # t => pc'[u] = pc[u]
  BY DEF IInv, TypeOK
<1> QED
  BY <1>1, <1>3, <1>4, <1>5, <1>6, HolderStepKeeps

(* A refresh that ends leaves GenerationInv if mirror and stores agree.    *)
LEMMA EndStepKeeps ==
  ASSUME IInv, NEW t \in Tasks, Running(t), NEW outcome \in Ended, End(t, outcome),
         UNCHANGED detached, StoresHoldIndex', MirrorHoldsIndex'
  PROVE  GenerationInv'
<1>1. outcome \in Steps
  BY DEF Steps
<1>2. /\ pc' \in [Tasks -> Steps] /\ pc'[t] = outcome
      /\ \A u \in Tasks : u # t => pc'[u] = pc[u]
  BY <1>1 DEF End, Goto, IInv, TypeOK
<1>3. detached' = {}
  BY DEF IInv, GenerationInv
<1> QED
  BY <1>2, <1>3, HolderStepKeeps

------------------------------------------------------------------------------
(* The steps up to the first rename.                                       *)

LEMMA AcquireKeepsGeneration ==
  ASSUME IInv, NEW t \in Tasks, TryAcquire(t)
  PROVE  GenerationInv'
<1>1. StoresHoldIndex /\ MirrorHoldsIndex
  BY IdleFacts DEF TryAcquire
<1>2. StoresHoldIndex' /\ MirrorHoldsIndex'
  BY <1>1 DEF StoresHoldIndex, MirrorHoldsIndex, cdn, stores, TryAcquire
<1>3. /\ pc'[t] = "prepare_staging"
      /\ \A u \in Tasks : u # t => pc'[u] \in Ended
  BY RefreshAssumption
  DEF TryAcquire, Goto, IInv, TypeOK, RefreshMutex, Running, Tasks
<1>4. JobInv(t)'
  <2>1. job'[t].previous = index'
    BY DEF TryAcquire, IInv, TypeOK, JobType, NoJob, cdn, stores
  <2> QED
    BY <1>3, <2>1
    DEF JobInv, PreviousIsActive, CopyIsActive, DownloadedAsListed, StagedAsListed,
        PreparedFromListed, OldIsAside, InstalledSoFar, Prepared, Aside, AfterSwap,
        Swapping, Installing
<1>5. \A u \in Tasks : JobInv(u)'
  BY <1>3, <1>4, EndedJobInv
<1> QED
  BY <1>2, <1>5 DEF TryAcquire, IInv, GenerationInv, StoresAreActive, MirrorIsActive

LEMMA PrepareStagingKeepsGeneration ==
  ASSUME IInv, NEW t \in Tasks, PrepareStaging(t)
  PROVE  GenerationInv'
<1>1. pc[t] = "prepare_staging" /\ Running(t)
  BY DEF PrepareStaging, Running, Ended
<1>2. MirrorHoldsIndex /\ JobInv(t)
  BY <1>1, HolderFacts DEF AfterSwap, Aside, Installing
<1>3. pc' = [pc EXCEPT ![t] = "list"] /\ pc'[t] = "list" /\ index' = index
  BY DEF PrepareStaging, Goto, IInv, TypeOK, cdn, stores
<1>4. job'[t].previous = job[t].previous /\ job'[t].staging = FilesIn(mirror)
  BY DEF PrepareStaging, IInv, TypeOK, JobType
<1>5. job[t].previous = index
  BY <1>1, <1>2 DEF JobInv, PreviousIsActive, BeforeIndex, Staging
<1>6. index # NoIndex => FilesIn(mirror) = index
  BY <1>2, RefreshAssumption DEF MirrorHoldsIndex, FilesIn, IInv, TypeOK
<1>7. JobInv(t)'
  BY <1>3, <1>4, <1>5, <1>6
  DEF JobInv, PreviousIsActive, CopyIsActive, DownloadedAsListed, StagedAsListed,
      PreparedFromListed, OldIsAside, InstalledSoFar, Prepared, Aside, AfterSwap,
      Swapping, Installing
<1> QED
  BY <1>1, <1>3, <1>7, QuietStepKeeps
  DEF PrepareStaging, Steps, Staging, AfterSwap, Aside, Installing

LEMMA ListObjectsKeepsGeneration ==
  ASSUME IInv, NEW t \in Tasks, ListObjects(t)
  PROVE  GenerationInv'
<1>1. pc[t] = "list" /\ Running(t)
  BY DEF ListObjects, Running, Ended
<1>2. JobInv(t)
  BY <1>1, HolderFacts
<1>3. pc' = [pc EXCEPT ![t] = "download"] /\ pc'[t] = "download" /\ index' = index
  BY DEF ListObjects, Goto, IInv, TypeOK, cdn, stores
<1>4. PICK next \in Index :
        /\ job'[t].next = next
        /\ job'[t].todo = ChangedPaths(Diff(job[t].previous, next))
        /\ job'[t].previous = job[t].previous
        /\ job'[t].staging = job[t].staging
  BY DEF ListObjects, IInv, TypeOK, JobType
<1>5. job[t].previous = index /\ (index # NoIndex => job[t].staging = index)
  BY <1>1, <1>2 DEF JobInv, PreviousIsActive, CopyIsActive, BeforeIndex, Staging
<1>6. \A p \in Known(next) \ ChangedPaths(Diff(index, next)) :
        job[t].staging[p] = next[p]
  BY <1>5, UnchangedIsCopied DEF IInv, TypeOK
<1>7. JobInv(t)'
  BY <1>3, <1>4, <1>5, <1>6
  DEF JobInv, PreviousIsActive, CopyIsActive, DownloadedAsListed, StagedAsListed,
      PreparedFromListed, OldIsAside, InstalledSoFar, Prepared, Aside, AfterSwap,
      Swapping, Installing
<1> QED
  BY <1>1, <1>3, <1>7, QuietStepKeeps
  DEF ListObjects, Steps, Staging, AfterSwap, Aside, Installing

LEMMA DownloadKeepsGeneration ==
  ASSUME IInv, NEW t \in Tasks, DownloadObject(t)
  PROVE  GenerationInv'
<1>1. pc[t] = "download" /\ Running(t)
  BY DEF DownloadObject, Running, Ended
<1>2. JobInv(t)
  BY <1>1, HolderFacts
<1>3. pc' = [pc EXCEPT ![t] = "download"] /\ pc'[t] = "download" /\ index' = index
  BY <1>1 DEF DownloadObject, IInv, TypeOK, cdn, stores
<1>4. PICK p \in job[t].todo :
        /\ job'[t].next = job[t].next
        /\ job'[t].todo = job[t].todo \ {p}
        /\ job'[t].previous = job[t].previous
        /\ job'[t].staging = [job[t].staging EXCEPT ![p] = job[t].next[p]]
  <2>1. PICK p \in job[t].todo :
          job' = [job EXCEPT ![t].staging[p] = job[t].next[p], ![t].todo = @ \ {p}]
    BY DEF DownloadObject
  <2>2. job \in [Tasks -> JobType] /\ job[t] \in JobType
    BY DEF IInv, TypeOK
  <2>3. job'[t] = [job[t] EXCEPT !.staging = [job[t].staging EXCEPT ![p] = job[t].next[p]],
                                 !.todo = job[t].todo \ {p}]
    BY <2>1, <2>2 DEF JobType
  <2> QED
    BY <2>2, <2>3 DEF JobType
<1>5. job[t].previous = index
  BY <1>1, <1>2 DEF JobInv, PreviousIsActive, BeforeIndex, Staging
<1>6. \A q \in Known(job'[t].next) \ job'[t].todo : job'[t].staging[q] = job'[t].next[q]
  <2>1. job[t].staging \in [Paths -> FileState]
    BY DEF IInv, TypeOK, JobType, Files, Index
  <2>2. \A q \in Known(job[t].next) \ job[t].todo : job[t].staging[q] = job[t].next[q]
    BY <1>1, <1>2 DEF JobInv, DownloadedAsListed
  <2> QED
    BY <1>4, <2>1, <2>2 DEF Known
<1>7. JobInv(t)'
  BY <1>3, <1>4, <1>5, <1>6
  DEF JobInv, PreviousIsActive, CopyIsActive, DownloadedAsListed, StagedAsListed,
      PreparedFromListed, OldIsAside, InstalledSoFar, Prepared, Aside, AfterSwap,
      Swapping, Installing
<1> QED
  BY <1>1, <1>3, <1>7, QuietStepKeeps
  DEF DownloadObject, Steps, Staging, AfterSwap, Aside, Installing

LEMMA PruneKeepsGeneration ==
  ASSUME IInv, NEW t \in Tasks, Prune(t)
  PROVE  GenerationInv'
<1>1. pc[t] = "download" /\ job[t].todo = {} /\ Running(t)
  BY DEF Prune, Running, Ended
<1>2. JobInv(t)
  BY <1>1, HolderFacts
<1>3. pc' = [pc EXCEPT ![t] = "prepare"] /\ pc'[t] = "prepare" /\ index' = index
  BY DEF Prune, Goto, IInv, TypeOK, cdn, stores
<1>4. /\ job'[t].next = job[t].next
      /\ job'[t].previous = job[t].previous
      /\ job'[t].staging = RemoveDeletedObjects(job[t].next, job[t].staging)
  BY DEF Prune, IInv, TypeOK, JobType
<1>5. job[t].previous = index
  BY <1>1, <1>2 DEF JobInv, PreviousIsActive, BeforeIndex, Staging
<1>6. RemoveDeletedObjects(job[t].next, job[t].staging) = job[t].next
  <2>1. job[t].next \in [Paths -> FileState]
    BY DEF IInv, TypeOK, JobType, Index
  <2>2. \A q \in Known(job[t].next) : job[t].staging[q] = job[t].next[q]
    BY <1>1, <1>2 DEF JobInv, DownloadedAsListed
  <2> QED
    BY <2>1, <2>2 DEF RemoveDeletedObjects, Listed, Known
<1>7. JobInv(t)'
  BY <1>3, <1>4, <1>5, <1>6
  DEF JobInv, PreviousIsActive, CopyIsActive, DownloadedAsListed, StagedAsListed,
      PreparedFromListed, OldIsAside, InstalledSoFar, Prepared, Aside, AfterSwap,
      Swapping, Installing
<1> QED
  BY <1>1, <1>3, <1>7, QuietStepKeeps
  DEF Prune, Steps, Staging, AfterSwap, Aside, Installing

(* What PrepareActivation hands to the swap was made from the listed files. *)
LEMMA PrepareKeepsGeneration ==
  ASSUME IInv, NEW t \in Tasks, PrepareActivation(t)
  PROVE  GenerationInv'
<1>1. pc[t] = "prepare" /\ Running(t)
  BY DEF PrepareActivation, Running, Ended
<1>2. JobInv(t) /\ StoresHoldIndex
  BY <1>1, HolderFacts DEF AfterSwap, Installing
<1>3. /\ pc' = [pc EXCEPT ![t] = "move_old"] /\ pc'[t] = "move_old"
      /\ index' = index /\ runtime' = runtime
  BY DEF PrepareActivation, Goto, IInv, TypeOK, cdn, stores
<1> DEFINE old == job[t].previous
           new == job[t].next
<1>4. /\ job'[t].next = new
      /\ job'[t].previous = old
      /\ job'[t].staging = job[t].staging
      /\ job'[t].config = EdgeConfig(job[t].staging)
      /\ job'[t].registry = TemplateUpdate(registry, Diff(old, new), job[t].staging)
      /\ job'[t].generation = runtime.generation + 1
  BY DEF PrepareActivation, IInv, TypeOK, JobType, DiffOf, NextGeneration
<1>5. old = index /\ job[t].staging = new
  BY <1>1, <1>2 DEF JobInv, PreviousIsActive, StagedAsListed, BeforeIndex, Staging
<1>6. new \in Index /\ index \in Index \cup {NoIndex}
  BY DEF IInv, TypeOK, JobType
<1>7. TemplateUpdate(registry, Diff(old, new), new) = Templates(new)
  <2>1. CASE index = NoIndex
    BY <1>2, <1>5, <1>6, <2>1, FirstTemplates DEF StoresHoldIndex, Files
  <2>2. CASE index # NoIndex
    BY <1>2, <1>5, <1>6, <2>2, NextTemplates DEF StoresHoldIndex
  <2> QED
    BY <2>1, <2>2
<1>8. EdgeConfig(new) \notin BadConfigs /\ TemplatesCompile(Diff(old, new), new)
  BY <1>5 DEF PrepareActivation, Accepts, DiffOf
<1>9. AllCompile(new)
  <2>1. index # NoIndex => AllCompile(index)
    BY <1>2 DEF StoresHoldIndex
  <2> QED
    BY <1>5, <1>6, <1>8, <2>1, ChangedCompileSuffices
<1>10. JobInv(t)'
  <2> HIDE DEF old, new
  <2>1. EdgeConfig(job'[t].next) \notin BadConfigs /\ AllCompile(job'[t].next)
    BY <1>4, <1>8, <1>9
  <2> QED
    BY <1>3, <1>4, <1>5, <1>7, <2>1
    DEF JobInv, PreviousIsActive, CopyIsActive, DownloadedAsListed, StagedAsListed,
        PreparedFromListed, OldIsAside, InstalledSoFar, Aside, AfterSwap,
        Installing, AllCompile
<1> QED
  BY <1>1, <1>3, <1>10, QuietStepKeeps
  DEF PrepareActivation, Steps, Staging, Swapping, AfterSwap, Aside, Installing

LEMMA FailKeepsGeneration ==
  ASSUME IInv, NEW t \in Tasks, Running(t), Fail(t), StoresHoldIndex, MirrorHoldsIndex
  PROVE  GenerationInv'
<1>1. StoresHoldIndex' /\ MirrorHoldsIndex'
  BY DEF Fail, StoresHoldIndex, MirrorHoldsIndex, cdn, stores
<1>2. "failed" \in Ended
  BY DEF Ended
<1> QED
  BY <1>1, <1>2, EndStepKeeps DEF Fail

LEMMA FailBeforeSwapKeepsGeneration ==
  ASSUME IInv, NEW t \in Tasks, FailBeforeSwap(t)
  PROVE  GenerationInv'
<1>1. Running(t) /\ pc[t] \notin AfterSwap \cup Aside
  BY DEF FailBeforeSwap, Running, Ended, Staging, AfterSwap, Aside, Installing
<1> QED
  BY <1>1, HolderFacts, FailKeepsGeneration DEF FailBeforeSwap

------------------------------------------------------------------------------
(* The renames.                                                            *)

LEMMA MoveOldKeepsGeneration ==
  ASSUME IInv, NEW t \in Tasks, MoveOldAside(t)
  PROVE  GenerationInv'
<1>1. pc[t] = "move_old" /\ Running(t)
  BY DEF MoveOldAside, Running, Ended
<1>2. JobInv(t) /\ StoresHoldIndex /\ MirrorHoldsIndex
  BY <1>1, HolderFacts DEF AfterSwap, Aside, Installing
<1>3. /\ pc' \in [Tasks -> Steps] /\ pc'[t] = "move_new"
      /\ \A u \in Tasks : u # t => pc'[u] = pc[u]
  BY DEF MoveOldAside, Goto, IInv, TypeOK, Steps, Swapping
<1>4. job'[t] = [job[t] EXCEPT !.backup = mirror] /\ mirror' = NoDir
  BY DEF MoveOldAside, IInv, TypeOK
<1>5. /\ job'[t].next = job[t].next /\ job'[t].previous = job[t].previous
      /\ job'[t].staging = job[t].staging /\ job'[t].config = job[t].config
      /\ job'[t].registry = job[t].registry
      /\ job'[t].generation = job[t].generation /\ job'[t].backup = mirror
  BY <1>4 DEF IInv, TypeOK, JobType
<1>6. index' = index /\ runtime' = runtime /\ UNCHANGED stores
  BY DEF MoveOldAside, cdn, stores
<1>7. /\ PreviousIsActive(t)' /\ StagedAsListed(t)' /\ PreparedFromListed(t)'
  BY <1>1, <1>2, <1>5, <1>6
  DEF JobInv, PreviousIsActive, StagedAsListed, PreparedFromListed, BeforeIndex,
      Prepared, Swapping, AllCompile
<1>8. OldIsAside(t)'
  BY <1>2, <1>4, <1>5, <1>6 DEF OldIsAside, MirrorHoldsIndex
<1>9. JobInv(t)'
  BY <1>3, <1>7, <1>8
  DEF JobInv, CopyIsActive, DownloadedAsListed, InstalledSoFar, AfterSwap, Installing
<1>10. StoresHoldIndex'
  BY <1>2, <1>6 DEF StoresHoldIndex, cdn, stores
<1>11. detached' = {}
  BY DEF MoveOldAside, IInv, GenerationInv
<1> QED
  BY <1>1, <1>3, <1>9, <1>10, <1>11, HolderStepKeeps DEF Aside

LEMMA MoveStagingKeepsGeneration ==
  ASSUME IInv, NEW t \in Tasks, MoveStagingIn(t)
  PROVE  GenerationInv'
<1>1. pc[t] = "move_new" /\ Running(t)
  BY DEF MoveStagingIn, Running, Ended
<1>2. JobInv(t)
  BY <1>1, HolderFacts
<1>3. /\ pc' \in [Tasks -> Steps] /\ pc'[t] = "remove_backup"
      /\ \A u \in Tasks : u # t => pc'[u] = pc[u]
  BY DEF MoveStagingIn, Goto, IInv, TypeOK, Steps, Swapping
<1>4. /\ UNCHANGED <<job, config, registry, index, runtime>>
      /\ mirror' = job[t].staging
  BY DEF MoveStagingIn, cdn, stores
<1>5. /\ job[t].staging = job[t].next /\ AllCompile(job[t].next)
      /\ PreviousIsActive(t)' /\ StagedAsListed(t)' /\ PreparedFromListed(t)'
  BY <1>1, <1>2, <1>3, <1>4
  DEF JobInv, PreviousIsActive, StagedAsListed, PreparedFromListed, BeforeIndex,
      Prepared, Swapping, AllCompile
<1>6. JobInv(t)'
  BY <1>3, <1>4, <1>5
  DEF JobInv, CopyIsActive, DownloadedAsListed, OldIsAside, InstalledSoFar, Aside,
      AllCompile
<1>7. detached' = {}
  BY DEF MoveStagingIn, IInv, GenerationInv
<1> QED
  BY <1>1, <1>3, <1>6, <1>7, HolderStepKeeps DEF AfterSwap

(* The second rename fails: the backup is the indexed generation.          *)
LEMMA MoveStagingFailsKeepsGeneration ==
  ASSUME IInv, NEW t \in Tasks, MoveStagingInFails(t)
  PROVE  GenerationInv'
<1>1. pc[t] = "move_new" /\ Running(t)
  BY DEF MoveStagingInFails, Running, Ended
<1>2. JobInv(t) /\ StoresHoldIndex
  BY <1>1, HolderFacts DEF AfterSwap, Installing
<1>3. CASE job[t].backup = NoDir
  <2>1. index = NoIndex
    BY <1>1, <1>2, <1>3, RefreshAssumption
    DEF JobInv, OldIsAside, Aside, IInv, TypeOK
  <2> QED
    BY <1>1, <1>2, <1>3, <2>1, FailKeepsGeneration
    DEF MoveStagingInFails, MirrorHoldsIndex
<1>4. CASE job[t].backup # NoDir
  <2>1. /\ pc' \in [Tasks -> Steps] /\ pc'[t] = "restore"
        /\ \A u \in Tasks : u # t => pc'[u] = pc[u]
    BY <1>4 DEF MoveStagingInFails, Goto, IInv, TypeOK, Steps, Swapping
  <2>2. UNCHANGED <<job, mirror, config, registry, index, runtime, detached>>
    BY <1>4 DEF MoveStagingInFails, cdn, stores
  <2>3. PreviousIsActive(t)' /\ StagedAsListed(t)' /\ PreparedFromListed(t)' /\ OldIsAside(t)'
    BY <1>1, <1>2, <2>1, <2>2
    DEF JobInv, PreviousIsActive, StagedAsListed, PreparedFromListed, OldIsAside,
        BeforeIndex, Prepared, Swapping, Aside, AllCompile
  <2>4. JobInv(t)'
    BY <2>1, <2>3
    DEF JobInv, CopyIsActive, DownloadedAsListed, InstalledSoFar, AfterSwap, Installing
  <2>5. StoresHoldIndex' /\ detached' = {}
    BY <1>2, <2>2 DEF StoresHoldIndex, IInv, GenerationInv
  <2> QED
    BY <1>1, <2>1, <2>4, <2>5, HolderStepKeeps DEF Aside
<1> QED
  BY <1>3, <1>4

LEMMA RestoreKeepsGeneration ==
  ASSUME IInv, BenignFaults, NEW t \in Tasks, RestoreOld(t) \/ RestoreFails(t)
  PROVE  GenerationInv'
<1>1. pc[t] = "restore" /\ Running(t)
  BY DEF RestoreOld, RestoreFails, Running, Ended
<1>2. JobInv(t) /\ StoresHoldIndex
  BY <1>1, HolderFacts DEF AfterSwap, Installing
<1>3. mirror = NoDir /\ (index # NoIndex => job[t].backup = index)
  BY <1>1, <1>2 DEF JobInv, OldIsAside, Aside
<1>4. RestoreOld(t)
  BY <1>3 DEF RestoreFails, BenignFaults
<1>5. StoresHoldIndex' /\ MirrorHoldsIndex'
  BY <1>2, <1>3, <1>4 DEF RestoreOld, StoresHoldIndex, MirrorHoldsIndex, cdn, stores
<1>6. "failed" \in Ended
  BY DEF Ended
<1> QED
  BY <1>1, <1>4, <1>5, <1>6, EndStepKeeps DEF RestoreOld

------------------------------------------------------------------------------
(* The store writes.                                                       *)

LEMMA RemoveBackupKeeps ==
  ASSUME IInv, NEW t \in Tasks, RemoveBackup(t)
  PROVE  GenerationInv'
<1>1. pc[t] = "remove_backup" /\ Running(t)
  BY DEF RemoveBackup, Running, Ended
<1>2. JobInv(t)
  BY <1>1, HolderFacts
<1>3. /\ pc' \in [Tasks -> Steps] /\ pc'[t] = "set_valid"
      /\ \A u \in Tasks : u # t => pc'[u] = pc[u]
  BY DEF RemoveBackup, Goto, IInv, TypeOK, Steps, Installing
<1>4. job'[t] = [job[t] EXCEPT !.backup = NoDir]
  BY DEF RemoveBackup, IInv, TypeOK
<1>5. /\ job'[t].next = job[t].next /\ job'[t].previous = job[t].previous
      /\ job'[t].staging = job[t].staging /\ job'[t].config = job[t].config
      /\ job'[t].registry = job[t].registry
      /\ job'[t].generation = job[t].generation
  BY <1>4 DEF IInv, TypeOK, JobType
<1>6. UNCHANGED <<mirror, config, registry, index, runtime, detached>>
  BY DEF RemoveBackup, cdn, stores
<1>7. /\ PreviousIsActive(t)' /\ StagedAsListed(t)' /\ PreparedFromListed(t)'
      /\ mirror' = job'[t].next /\ AllCompile(job'[t].next)
  BY <1>1, <1>2, <1>5, <1>6
  DEF JobInv, PreviousIsActive, StagedAsListed, PreparedFromListed, InstalledSoFar,
      BeforeIndex, Prepared, Swapping, AfterSwap, AllCompile
<1>8. JobInv(t)'
  BY <1>3, <1>7
  DEF JobInv, CopyIsActive, DownloadedAsListed, OldIsAside, InstalledSoFar, Aside,
      AllCompile
<1>9. detached' = {}
  BY <1>6 DEF IInv, GenerationInv
<1> QED
  BY <1>1, <1>3, <1>8, <1>9, HolderStepKeeps DEF AfterSwap, Installing

LEMMA RemoveBackupKeepsGeneration ==
  ASSUME IInv, BenignFaults, NEW t \in Tasks, RemoveBackup(t) \/ RemoveBackupFails(t)
  PROVE  GenerationInv'
BY RemoveBackupKeeps DEF RemoveBackupFails, BenignFaults

LEMMA InstallKeepsGeneration ==
  ASSUME IInv, NEW t \in Tasks, SetValid(t) \/ SetOriginRegistry(t) \/ InsertIndex(t)
  PROVE  GenerationInv'
<1>1. Running(t)
  BY DEF SetValid, SetOriginRegistry, InsertIndex, Running, Ended
<1>2. JobInv(t)
  BY <1>1, HolderFacts
<1>3. /\ pc' \in [Tasks -> Steps] /\ pc'[t] \in Installing
      /\ \A u \in Tasks : u # t => pc'[u] = pc[u]
      /\ detached' = {}
  BY DEF SetValid, SetOriginRegistry, InsertIndex, Goto, IInv, TypeOK, Steps,
         Installing, GenerationInv
<1>4. JobInv(t)'
  <2>1. CASE SetValid(t)
    <3>1. pc[t] = "set_valid" /\ pc'[t] = "set_registry"
      BY <2>1 DEF SetValid, Goto, IInv, TypeOK
    <3> QED
      BY <1>2, <2>1, <3>1
      DEF SetValid, JobInv, PreviousIsActive, CopyIsActive, DownloadedAsListed,
          StagedAsListed, PreparedFromListed, OldIsAside, InstalledSoFar, BeforeIndex,
          Prepared, Aside, AfterSwap, Installing, AllCompile
  <2>2. CASE SetOriginRegistry(t)
    <3>1. pc[t] = "set_registry" /\ pc'[t] = "set_index"
      BY <2>2 DEF SetOriginRegistry, Goto, IInv, TypeOK
    <3> QED
      BY <1>2, <2>2, <3>1
      DEF SetOriginRegistry, JobInv, PreviousIsActive, CopyIsActive, DownloadedAsListed,
          StagedAsListed, PreparedFromListed, OldIsAside, InstalledSoFar, BeforeIndex,
          Prepared, Aside, AfterSwap, Installing, AllCompile
  <2>3. CASE InsertIndex(t)
    <3>1. pc[t] = "set_index" /\ pc'[t] = "set_snapshot"
      BY <2>3 DEF InsertIndex, Goto, IInv, TypeOK
    <3> QED
      BY <1>2, <2>3, <3>1
      DEF InsertIndex, JobInv, PreviousIsActive, CopyIsActive, DownloadedAsListed,
          StagedAsListed, PreparedFromListed, OldIsAside, InstalledSoFar, BeforeIndex,
          Prepared, Aside, AfterSwap, Installing, Staging, Swapping, AllCompile
  <2> QED
    BY <2>1, <2>2, <2>3
<1> QED
  BY <1>1, <1>3, <1>4, HolderStepKeeps DEF AfterSwap

(* From set_snapshot on the holder's generation is the whole active one.   *)
LEMMA InstalledIsActive ==
  ASSUME IInv, NEW t \in Tasks, pc[t] \in {"set_snapshot", "purge"}
  PROVE  StoresHoldIndex /\ MirrorHoldsIndex
<1>1. Running(t)
  BY DEF Running, Ended
<1>2. JobInv(t)
  BY <1>1, HolderFacts
<1>3. index # NoIndex
  BY <1>2, NoIndexAssumption DEF JobInv, InstalledSoFar, IInv, TypeOK, JobType
<1> QED
  BY <1>2, <1>3 DEF JobInv, InstalledSoFar, StoresHoldIndex, MirrorHoldsIndex, AfterSwap, Installing

LEMMA SnapshotKeepsGeneration ==
  ASSUME IInv, NEW t \in Tasks, SetSnapshot(t)
  PROVE  GenerationInv'
<1>1. pc[t] = "set_snapshot" /\ Running(t)
  BY DEF SetSnapshot, Running, Ended
<1>2. JobInv(t) /\ StoresHoldIndex /\ MirrorHoldsIndex
  BY <1>1, HolderFacts, InstalledIsActive
<1>3. CASE End(t, "activated")
  <2>1. StoresHoldIndex' /\ MirrorHoldsIndex' /\ "activated" \in Ended
    BY <1>2 DEF SetSnapshot, StoresHoldIndex, MirrorHoldsIndex, cdn, stores, Ended
  <2> QED
    BY <1>1, <1>3, <2>1, EndStepKeeps DEF SetSnapshot
<1>4. CASE Goto(t, "purge") /\ UNCHANGED <<lock, job>>
  <2>1. /\ pc' \in [Tasks -> Steps] /\ pc'[t] = "purge"
        /\ \A u \in Tasks : u # t => pc'[u] = pc[u]
    BY <1>4 DEF Goto, IInv, TypeOK, Steps
  <2>2. UNCHANGED <<job, mirror, config, registry, index, detached>>
    BY <1>4 DEF SetSnapshot, cdn, stores
  <2>3. InstalledSoFar(t)'
    BY <1>1, <1>2, <2>1, <2>2 DEF JobInv, InstalledSoFar, AfterSwap, Installing, AllCompile
  <2>4. JobInv(t)'
    BY <2>1, <2>3
    DEF JobInv, PreviousIsActive, CopyIsActive, DownloadedAsListed, StagedAsListed,
        PreparedFromListed, OldIsAside, BeforeIndex, Prepared, Aside, Staging,
        Swapping, Installing
  <2>5. detached' = {}
    BY <2>2 DEF IInv, GenerationInv
  <2> QED
    BY <1>1, <2>1, <2>4, <2>5, HolderStepKeeps DEF AfterSwap
<1> QED
  BY <1>3, <1>4 DEF SetSnapshot

LEMMA PurgeKeepsGeneration ==
  ASSUME IInv, NEW t \in Tasks, PurgeCdn(t) \/ PurgeFails(t)
  PROVE  GenerationInv'
<1>1. pc[t] = "purge" /\ Running(t) /\ "activated" \in Ended
  BY DEF PurgeCdn, PurgeFails, Running, Ended
<1>2. StoresHoldIndex /\ MirrorHoldsIndex
  BY <1>1, InstalledIsActive
<1>3. StoresHoldIndex' /\ MirrorHoldsIndex' /\ End(t, "activated") /\ UNCHANGED detached
  BY <1>2 DEF PurgeCdn, PurgeFails, StoresHoldIndex, MirrorHoldsIndex, cdn, stores
<1> QED
  BY <1>1, <1>3, EndStepKeeps

------------------------------------------------------------------------------
(* The induction.                                                          *)

LEMMA RestartKeepsGeneration ==
  ASSUME IInv, Restart
  PROVE  GenerationInv'
<1>1. \A u \in Tasks : JobInv(u)'
  BY EndedJobInv DEF Restart, Ended
<1>2. StoresHoldIndex' /\ MirrorHoldsIndex'
  BY DEF Restart, StoresHoldIndex, MirrorHoldsIndex
<1> QED
  BY <1>1, <1>2 DEF Restart, GenerationInv, StoresAreActive, MirrorIsActive

LEMMA AlreadyRunningKeepsGeneration ==
  ASSUME IInv, NEW t \in Tasks, AlreadyRunning(t)
  PROVE  GenerationInv'
<1>1. /\ pc[t] \in Ended /\ pc'[t] \in Ended
      /\ \A u \in Tasks : u # t => pc'[u] = pc[u]
      /\ UNCHANGED <<job, mirror, config, registry, index, runtime, detached>>
  BY DEF AlreadyRunning, MayStart, Goto, Ended, IInv, TypeOK, cdn, stores
<1>2. \A u \in Tasks : JobInv(u)'
  <2>1. ASSUME NEW u \in Tasks, u # t PROVE JobInv(u)'
    BY <1>1, <2>1
    DEF IInv, GenerationInv, JobInv, PreviousIsActive, CopyIsActive,
        DownloadedAsListed, StagedAsListed, PreparedFromListed, OldIsAside,
        InstalledSoFar, AllCompile
  <2> QED
    BY <1>1, <2>1, EndedJobInv
<1>3. StoresAreActive' /\ MirrorIsActive'
  BY <1>1
  DEF IInv, GenerationInv, StoresAreActive, MirrorIsActive, StoresHoldIndex,
      MirrorHoldsIndex, Ended, AfterSwap, Aside, Installing
<1> QED
  BY <1>1, <1>2, <1>3 DEF IInv, GenerationInv

LEMMA StutterKeepsGeneration ==
  ASSUME IInv, UNCHANGED vars
  PROVE  GenerationInv'
BY DEF vars, cdn, stores, IInv, GenerationInv, JobInv, PreviousIsActive, CopyIsActive,
       DownloadedAsListed, StagedAsListed, PreparedFromListed, OldIsAside,
       InstalledSoFar, StoresAreActive, MirrorIsActive, StoresHoldIndex,
       MirrorHoldsIndex, AllCompile

LEMMA InitIInv == Init => IInv
<1> SUFFICES ASSUME Init PROVE IInv
  OBVIOUS
<1>1. RefreshMutex
  BY RefreshAssumption DEF Init, RefreshMutex, Running, Ended, Tasks
<1>2. \A t \in Tasks : JobInv(t)
  BY DEF Init, JobInv, PreviousIsActive, CopyIsActive, DownloadedAsListed,
         StagedAsListed, PreparedFromListed, OldIsAside, InstalledSoFar, BeforeIndex,
         Prepared, Aside, AfterSwap, Staging, Swapping, Installing
<1> QED
  BY <1>1, <1>2, InitTypeOK
  DEF Init, IInv, GenerationInv, StoresAreActive, MirrorIsActive, StoresHoldIndex,
      MirrorHoldsIndex

LEMMA NextIInv == ASSUME BenignFaults PROVE IInv /\ [Next]_vars => IInv'
<1> SUFFICES ASSUME IInv, [Next]_vars PROVE GenerationInv'
  BY NextTypeOK, NextKeepsMutex DEF IInv
<1>1. ASSUME NEW t \in Tasks, Advance(t) PROVE GenerationInv'
  BY <1>1, PrepareStagingKeepsGeneration, ListObjectsKeepsGeneration,
     DownloadKeepsGeneration, PruneKeepsGeneration, PrepareKeepsGeneration,
     FailBeforeSwapKeepsGeneration, MoveOldKeepsGeneration, MoveStagingKeepsGeneration,
     MoveStagingFailsKeepsGeneration, RestoreKeepsGeneration,
     RemoveBackupKeepsGeneration, InstallKeepsGeneration, SnapshotKeepsGeneration,
     PurgeKeepsGeneration
  DEF Advance
<1>2. ASSUME NEW t \in Tasks PROVE ~Cancel(t)
  BY DEF Cancel, BenignFaults
<1>3. ~RunDetached
  BY DEF RunDetached, IInv, GenerationInv
<1> QED
  BY <1>1, <1>2, <1>3, AcquireKeepsGeneration, AlreadyRunningKeepsGeneration,
     RestartKeepsGeneration, StutterKeepsGeneration
  DEF Next, Crash, ExitAfterFailedStartup

(* Whenever no refresh runs, mirror, edge config, templates and index are   *)
(* one generation: crashes, rejected downloads, failed renames and CDN      *)
(* failures included.                                                       *)
THEOREM ActiveGeneration ==
  ASSUME BenignFaults PROVE Spec => []ActiveGenerationIsWhole
<1>1. IInv => ActiveGenerationIsWhole
  BY IdleFacts DEF ActiveGenerationIsWhole, StoresHoldIndex, MirrorHoldsIndex
<1> QED
  BY <1>1, InitIInv, NextIInv, PTL DEF Spec

(* What an activation reports as its files is what it made live.  Each of   *)
(* the three faults alone breaks this: the next refresh then starts from a  *)
(* mirror that is not the indexed one, or shares it with a dropped rename.  *)
THEOREM ActivationsReportLiveFiles ==
  ASSUME BenignFaults PROVE Spec => []ActivatedFilesAreLive
<1>1. IInv => ActivatedFilesAreLive
  BY DEF IInv, GenerationInv, JobInv, InstalledSoFar, ActivatedFilesAreLive, AfterSwap,
         Installing
<1> QED
  BY <1>1, InitIInv, NextIInv, PTL DEF Spec

------------------------------------------------------------------------------
(* Refinement of AtomicOrigin.                                             *)

active == <<activeFiles, activeConfig, activeTemplates, activeGeneration>>

(* The active generation in terms of the step the holder is at.            *)
LEMMA ActiveOfHolder ==
  ASSUME IInv, NEW t \in Tasks, Running(t)
  PROVE  /\ lock = t
         /\ activeFiles = IF pc[t] \in Aside THEN job[t].backup ELSE mirror
         /\ pc[t] \in {"remove_backup"} \cup Installing =>
              /\ activeConfig = job[t].config
              /\ activeTemplates = job[t].registry
              /\ activeGeneration = job[t].generation
         /\ pc[t] \notin {"remove_backup"} \cup Installing =>
              /\ activeConfig = config
              /\ activeTemplates = registry
              /\ activeGeneration = runtime.generation
<1>1. lock = t /\ t # NoTask
  BY RefreshAssumption DEF IInv, RefreshMutex, Tasks
<1> QED
  BY <1>1 DEF Between, Committed, activeFiles, activeConfig, activeTemplates,
              activeGeneration, Aside

LEMMA ActiveWhenIdle ==
  ASSUME lock = NoTask
  PROVE  /\ activeFiles = mirror
         /\ activeConfig = config
         /\ activeTemplates = registry
         /\ activeGeneration = runtime.generation
BY DEF Between, Committed, activeFiles, activeConfig, activeTemplates, activeGeneration

LEMMA ActiveWhenIdleNext ==
  ASSUME lock' = NoTask
  PROVE  /\ activeFiles' = mirror'
         /\ activeConfig' = config'
         /\ activeTemplates' = registry'
         /\ activeGeneration' = runtime'.generation
BY DEF Between, Committed, activeFiles, activeConfig, activeTemplates, activeGeneration

(* A step after which the holder is at a given point.                      *)
LEMMA ActiveAfterStep ==
  ASSUME IInv, NEW t \in Tasks, Running(t), UNCHANGED lock, NEW step, pc'[t] = step
  PROVE  /\ activeFiles' = IF step \in Aside THEN job'[t].backup ELSE mirror'
         /\ step \in {"remove_backup"} \cup Installing =>
              /\ activeConfig' = job'[t].config
              /\ activeTemplates' = job'[t].registry
              /\ activeGeneration' = job'[t].generation
         /\ step \notin {"remove_backup"} \cup Installing =>
              /\ activeConfig' = config'
              /\ activeTemplates' = registry'
              /\ activeGeneration' = runtime'.generation
<1>1. lock' = t /\ t # NoTask
  BY RefreshAssumption DEF IInv, RefreshMutex, Tasks
<1> QED
  BY <1>1 DEF Between, Committed, activeFiles, activeConfig, activeTemplates,
              activeGeneration, Aside

(* Before the first rename and outside a refresh nothing active changes.   *)
LEMMA StagingIsInvisible ==
  ASSUME IInv, NEW t \in Tasks,
         \/ PrepareStaging(t) \/ ListObjects(t) \/ DownloadObject(t) \/ Prune(t)
         \/ PrepareActivation(t) \/ FailBeforeSwap(t)
  PROVE  UNCHANGED active
<1>1. /\ Running(t)
      /\ pc[t] \in Staging \cup {"move_old"}
      /\ UNCHANGED <<mirror, stores>> /\ runtime'.generation = runtime.generation
  BY DEF PrepareStaging, ListObjects, DownloadObject, Prune, PrepareActivation,
         FailBeforeSwap, Fail, Running, Ended, Staging, IInv, TypeOK, RuntimeType
<1>2. \/ lock' = NoTask
      \/ UNCHANGED lock /\ pc'[t] \in Staging \cup {"move_old"}
  BY DEF PrepareStaging, ListObjects, DownloadObject, Prune, PrepareActivation,
         FailBeforeSwap, Fail, End, ReleaseLock, Goto, Staging, IInv, TypeOK
<1>3. /\ activeFiles = mirror /\ activeConfig = config
      /\ activeTemplates = registry /\ activeGeneration = runtime.generation
  BY <1>1, ActiveOfHolder DEF Staging, Installing, Aside
<1>4. /\ activeFiles' = mirror' /\ activeConfig' = config'
      /\ activeTemplates' = registry' /\ activeGeneration' = runtime'.generation
  <2>1. CASE lock' = NoTask
    BY <2>1, ActiveWhenIdleNext
  <2>2. CASE UNCHANGED lock /\ pc'[t] \in Staging \cup {"move_old"}
    BY <1>1, <2>2, ActiveAfterStep DEF Staging, Installing, Aside
  <2> QED
    BY <1>2, <2>1, <2>2
<1> QED
  BY <1>1, <1>3, <1>4 DEF active, cdn, stores

LEMMA SwapKeepsOld ==
  ASSUME IInv, BenignFaults, NEW t \in Tasks,
         MoveOldAside(t) \/ MoveStagingInFails(t) \/ RestoreOld(t) \/ RestoreFails(t)
  PROVE  UNCHANGED active
<1>1. Running(t) /\ pc[t] \in Aside \cup {"move_old"}
  BY DEF MoveOldAside, MoveStagingInFails, RestoreOld, RestoreFails, Running, Ended, Aside
<1>2. JobInv(t)
  BY <1>1, HolderFacts
<1>3. UNCHANGED stores /\ runtime'.generation = runtime.generation
  BY DEF MoveOldAside, MoveStagingInFails, RestoreOld, RestoreFails, Fail,
         IInv, TypeOK, RuntimeType
<1>4. /\ activeFiles = IF pc[t] \in Aside THEN job[t].backup ELSE mirror
      /\ activeConfig = config
      /\ activeTemplates = registry /\ activeGeneration = runtime.generation
  BY <1>1, ActiveOfHolder DEF Aside, Installing
<1>5. CASE MoveOldAside(t)
  <2>1. UNCHANGED lock /\ pc'[t] = "move_new" /\ job'[t].backup = mirror
    BY <1>5 DEF MoveOldAside, Goto, IInv, TypeOK, JobType
  <2>2. pc[t] \notin Aside
    BY <1>5 DEF MoveOldAside, Aside
  <2> QED
    BY <1>1, <1>3, <1>4, <2>1, <2>2, ActiveAfterStep DEF active, cdn, stores, Aside, Installing
<1>6. CASE MoveStagingInFails(t) /\ job[t].backup = NoDir
  <2>1. pc[t] \in Aside /\ mirror = NoDir /\ UNCHANGED mirror /\ lock' = NoTask
    BY <1>2, <1>6 DEF MoveStagingInFails, Fail, End, ReleaseLock, Aside, JobInv, OldIsAside
  <2> QED
    BY <1>3, <1>4, <1>6, <2>1, ActiveWhenIdleNext DEF active, cdn, stores
<1>7. CASE MoveStagingInFails(t) /\ job[t].backup # NoDir
  <2>1. pc[t] \in Aside /\ UNCHANGED <<lock, job>> /\ pc'[t] = "restore"
    BY <1>7 DEF MoveStagingInFails, Goto, IInv, TypeOK, Aside
  <2> QED
    BY <1>1, <1>3, <1>4, <2>1, ActiveAfterStep DEF active, cdn, stores, Aside, Installing
<1>8. CASE RestoreOld(t)
  <2>1. pc[t] \in Aside /\ mirror' = job[t].backup /\ lock' = NoTask
    BY <1>8 DEF RestoreOld, End, ReleaseLock, Aside
  <2> QED
    BY <1>3, <1>4, <2>1, ActiveWhenIdleNext DEF active, cdn, stores
<1>9. ~RestoreFails(t)
  BY <1>2 DEF RestoreFails, BenignFaults, JobInv, OldIsAside, Aside
<1> QED
  BY <1>5, <1>6, <1>7, <1>8, <1>9

(* The second rename is where the generation changes, as a whole.          *)
LEMMA SwapActivates ==
  ASSUME IInv, NEW t \in Tasks, MoveStagingIn(t)
  PROVE  Atomic!Activate
<1>1. Running(t) /\ pc[t] = "move_new"
  BY DEF MoveStagingIn, Running, Ended
<1>2. JobInv(t)
  BY <1>1, HolderFacts
<1>3. /\ job[t].staging = job[t].next
      /\ job[t].config = EdgeConfig(job[t].next)
      /\ job[t].registry = Templates(job[t].next)
      /\ job[t].generation = runtime.generation + 1
      /\ EdgeConfig(job[t].next) \notin BadConfigs
      /\ AllCompile(job[t].next)
  BY <1>1, <1>2 DEF JobInv, StagedAsListed, PreparedFromListed, Prepared, Swapping
<1>4. activeGeneration = runtime.generation
  BY <1>1, ActiveOfHolder DEF Installing
<1>5. /\ UNCHANGED <<lock, job>> /\ pc'[t] = "remove_backup"
      /\ mirror' = job[t].staging
  BY DEF MoveStagingIn, Goto, IInv, TypeOK
<1>6. /\ activeFiles' = mirror'
      /\ activeConfig' = job[t].config
      /\ activeTemplates' = job[t].registry
      /\ activeGeneration' = job[t].generation
  BY <1>1, <1>5, ActiveAfterStep DEF Aside
<1>7. Atomic!Acceptable(job[t].next)
  BY <1>3 DEF Atomic!Acceptable, Atomic!EdgeConfig, EdgeConfig, Atomic!TemplateOf,
              TemplateOf, AllCompile
<1>8. job[t].next \in Atomic!Index
  BY DEF IInv, TypeOK, JobType, Index, FileState, Atomic!Index, Atomic!FileState
<1>9. /\ activeConfig' = Atomic!EdgeConfig(job[t].next)
      /\ activeTemplates' = Atomic!Templates(job[t].next)
  BY <1>3, <1>6 DEF Atomic!EdgeConfig, EdgeConfig, Atomic!Templates, Templates,
                    Atomic!TemplateOf, TemplateOf
<1> QED
  BY <1>3, <1>4, <1>5, <1>6, <1>7, <1>8, <1>9 DEF Atomic!Activate

LEMMA InstallIsInvisible ==
  ASSUME IInv, BenignFaults, NEW t \in Tasks,
         \/ RemoveBackup(t) \/ RemoveBackupFails(t) \/ SetValid(t)
         \/ SetOriginRegistry(t) \/ InsertIndex(t)
  PROVE  UNCHANGED active
<1>1. Running(t) /\ pc[t] \in {"remove_backup"} \cup Installing
  BY DEF RemoveBackup, RemoveBackupFails, SetValid, SetOriginRegistry, InsertIndex,
         Running, Ended, Installing
<1>2. /\ UNCHANGED <<lock, mirror>>
      /\ pc'[t] \in Installing
      /\ job'[t].config = job[t].config
      /\ job'[t].registry = job[t].registry
      /\ job'[t].generation = job[t].generation
  BY DEF RemoveBackup, RemoveBackupFails, SetValid, SetOriginRegistry, InsertIndex,
         Goto, Installing, BenignFaults, IInv, TypeOK, JobType
<1> QED
  BY <1>1, <1>2, ActiveOfHolder, ActiveAfterStep DEF active, Installing, Aside

LEMMA SnapshotIsInvisible ==
  ASSUME IInv, NEW t \in Tasks, SetSnapshot(t)
  PROVE  UNCHANGED active
<1>1. Running(t) /\ pc[t] = "set_snapshot"
  BY DEF SetSnapshot, Running, Ended
<1>2. JobInv(t)
  BY <1>1, HolderFacts
<1>3. /\ activeFiles = mirror
      /\ activeConfig = config
      /\ activeTemplates = registry
      /\ activeGeneration = job[t].generation
  BY <1>1, <1>2, ActiveOfHolder
  DEF JobInv, PreparedFromListed, InstalledSoFar, Prepared, Installing, Aside
<1>4. UNCHANGED <<mirror, stores>> /\ runtime'.generation = job[t].generation
  BY DEF SetSnapshot, IInv, TypeOK, RuntimeType
<1>5. CASE lock' = NoTask
  BY <1>3, <1>4, <1>5, ActiveWhenIdleNext DEF active, cdn, stores
<1>6. CASE UNCHANGED lock /\ pc'[t] = "purge"
  BY <1>1, <1>3, <1>4, <1>6, ActiveAfterStep DEF active, cdn, stores, Installing, Aside
<1> QED
  BY <1>5, <1>6 DEF SetSnapshot, End, ReleaseLock, Goto, IInv, TypeOK

LEMMA PurgeIsInvisible ==
  ASSUME IInv, NEW t \in Tasks, PurgeCdn(t) \/ PurgeFails(t)
  PROVE  UNCHANGED active
<1>1. Running(t) /\ pc[t] = "purge"
  BY DEF PurgeCdn, PurgeFails, Running, Ended
<1>2. /\ activeFiles = mirror /\ activeConfig = config
      /\ activeTemplates = registry /\ activeGeneration = runtime.generation
  BY <1>1, ActiveOfHolder DEF Installing, Aside
<1>3. /\ lock' = NoTask /\ UNCHANGED <<mirror, stores>>
      /\ runtime'.generation = runtime.generation
  BY DEF PurgeCdn, PurgeFails, End, ReleaseLock, IInv, TypeOK, RuntimeType
<1> QED
  BY <1>2, <1>3, ActiveWhenIdleNext DEF active, cdn, stores

LEMMA OutsideIsInvisible ==
  ASSUME IInv, NEW t \in Tasks, TryAcquire(t) \/ AlreadyRunning(t)
  PROVE  UNCHANGED active
<1>1. CASE TryAcquire(t)
  <2>1. /\ lock = NoTask /\ lock' = t /\ t # NoTask /\ pc'[t] = "prepare_staging"
        /\ UNCHANGED <<mirror, stores, runtime>>
    BY <1>1, RefreshAssumption DEF TryAcquire, Goto, IInv, TypeOK, Tasks
  <2>2. /\ activeFiles' = mirror' /\ activeConfig' = config'
        /\ activeTemplates' = registry' /\ activeGeneration' = runtime'.generation
    BY <2>1 DEF Between, Committed, activeFiles, activeConfig, activeTemplates,
                activeGeneration, Installing
  <2> QED
    BY <2>1, <2>2, ActiveWhenIdle DEF active, cdn, stores
<1>2. CASE AlreadyRunning(t)
  <2>1. UNCHANGED <<lock, job, mirror, stores, runtime>> /\ lock # NoTask
    BY <1>2 DEF AlreadyRunning
  <2>2. pc'[lock] = pc[lock]
    BY <1>2, <2>1
    DEF AlreadyRunning, MayStart, Goto, IInv, TypeOK, RefreshMutex, Running
  <2> QED
    BY <2>1, <2>2
    DEF active, cdn, stores, Between, Committed, activeFiles, activeConfig,
        activeTemplates, activeGeneration
<1> QED
  BY <1>1, <1>2

LEMMA RestartForgets ==
  ASSUME IInv, Restart
  PROVE  Atomic!Restart
<1>1. /\ activeFiles' = mirror /\ activeConfig' = NoConfig
      /\ activeTemplates' = NoFiles /\ activeGeneration' = 0
  BY ActiveWhenIdleNext DEF Restart, NoRuntime
<1>2. mirror \in {activeFiles, NoDir}
  <2>1. CASE lock = NoTask
    BY <2>1, ActiveWhenIdle
  <2>2. CASE lock # NoTask
    <3>1. lock \in Tasks /\ Running(lock)
      BY <2>2 DEF IInv, TypeOK, RefreshMutex
    <3>2. pc[lock] \in Aside => mirror = NoDir
      BY <3>1, HolderFacts DEF JobInv, OldIsAside
    <3> QED
      BY <3>1, <3>2, ActiveOfHolder
  <2> QED
    BY <2>1, <2>2
<1> QED
  BY <1>1, <1>2 DEF Atomic!Restart, Atomic!Nothing, Atomic!NoFiles, NoFiles

LEMMA InitIsAtomic == Init => Atomic!Init
<1> SUFFICES ASSUME Init PROVE Atomic!Init
  OBVIOUS
<1>1. /\ activeFiles = mirror /\ activeConfig = config
      /\ activeTemplates = registry /\ activeGeneration = runtime.generation
  BY ActiveWhenIdle DEF Init
<1> QED
  BY <1>1
  DEF Init, NoRuntime, Files, Index, FileState, Atomic!Init, Atomic!Nothing,
      Atomic!Index, Atomic!FileState, Atomic!NoFiles, NoFiles

LEMMA StepIsAtomic ==
  ASSUME BenignFaults PROVE IInv /\ [Next]_vars => [Atomic!Next]_(Atomic!vars)
<1> SUFFICES ASSUME IInv, [Next]_vars PROVE Atomic!Next \/ UNCHANGED active
  BY DEF active, Atomic!vars
<1>1. ASSUME NEW t \in Tasks, Advance(t) PROVE Atomic!Next \/ UNCHANGED active
  BY <1>1, StagingIsInvisible, SwapKeepsOld, SwapActivates, InstallIsInvisible,
     SnapshotIsInvisible, PurgeIsInvisible
  DEF Advance, Atomic!Next
<1>2. ASSUME NEW t \in Tasks, TryAcquire(t) \/ AlreadyRunning(t) PROVE UNCHANGED active
  BY <1>2, OutsideIsInvisible
<1>3. ASSUME NEW t \in Tasks PROVE ~Cancel(t)
  BY DEF Cancel, BenignFaults
<1>4. ~RunDetached
  BY DEF RunDetached, IInv, GenerationInv
<1>5. CASE Restart
  BY <1>5, RestartForgets DEF Atomic!Next
<1>6. CASE UNCHANGED vars
  BY <1>6 DEF vars, cdn, stores, active, Between, Committed, activeFiles, activeConfig,
              activeTemplates, activeGeneration
<1> QED
  BY <1>1, <1>2, <1>3, <1>4, <1>5, <1>6 DEF Next, Crash, ExitAfterFailedStartup

(* The whole pipeline of staging, two renames and four store writes is, to  *)
(* whoever looks at the active generation, one atomic activation or         *)
(* nothing, and a restart loses at most the mirror of a refresh it hit      *)
(* between the renames.                                                     *)
THEOREM Refinement ==
  ASSUME BenignFaults PROVE Spec => ImplementsAtomicOrigin
BY InitIInv, NextIInv, InitIsAtomic, StepIsAtomic, PTL
DEF Spec, ImplementsAtomicOrigin, Atomic!Spec

------------------------------------------------------------------------------
(* The CDN purge: the plan, made from the diff with the remembered index,   *)
(* covers what the swap changed on the disk, and what stays stale was left  *)
(* by a failed purge.  The second needs the first and more: what an earlier *)
(* process left stale without purging it must be in the plan as soon as it  *)
(* is served again.                                                         *)

(* The mirror in the backup directory is the generation of the index.      *)
BackupIsIndexed ==
  \A t \in Tasks : pc[t] = "remove_backup" /\ index # NoIndex => job[t].backup = index

BackupInv == IInv /\ BackupIsIndexed

(* What is stale within the reach of the purges was left by a failed one,  *)
(* or is going to be purged.                                               *)
FreshUnlessLive ==
  (\A t \in Tasks : pc[t] \notin AfterSwap) /\ index # NoIndex =>
    cdnStale \cap PurgeReach(index) \subseteq unpurged

StaleIsPlanned ==
  \A t \in Tasks : pc[t] \in AfterSwap =>
    cdnStale \cap PurgeReach(job[t].next) \subseteq unpurged \cup PurgePlan(DiffOf(t))

PurgeInv == IInv /\ FreshUnlessLive /\ StaleIsPlanned

------------------------------------------------------------------------------
(* The plan covers the URL of every path the diff names, and that is every *)
(* path at which the two indexes differ.                                   *)
LEMMA PlanCoversDiff ==
  ASSUME CdnStrategy # "none", NEW old \in Index \cup {NoIndex}, NEW new \in Index
  PROVE  /\ old = NoIndex => \A p \in Known(new) : ObjectUrl[p] \in PurgePlan(Diff(old, new))
         /\ old # NoIndex =>
              \A p \in Paths : old[p] # new[p] => ObjectUrl[p] \in PurgePlan(Diff(old, new))
<1> DEFINE diff == Diff(old, new)
<1>1. \A p \in ChangedPaths(diff) \cup diff.removed : ObjectUrl[p] \in PurgePlan(diff)
  <2>1. ChangedPaths(diff) \cup diff.removed \subseteq Paths
    BY DEF ChangedPaths, Diff, Known
  <2>2. \A p \in Paths : ObjectUrl[p] \in CdnUrls
    BY CdnRefreshAssumption
  <2> QED
    BY <2>1, <2>2 DEF PurgePlan, HasChanges, ChangedPaths, UrlsOf
<1>2. old = NoIndex => Known(new) \subseteq ChangedPaths(diff)
  BY DEF ChangedPaths, Diff
<1>3. old # NoIndex => \A p \in Paths : old[p] # new[p] => p \in ChangedPaths(diff) \cup diff.removed
  BY DEF ChangedPaths, Diff, Known
<1> QED
  BY <1>1, <1>2, <1>3

(* With "all" every URL is in a plan that is not empty.                    *)
LEMMA AllIsPlanned ==
  ASSUME CdnStrategy = "all", NEW diff, PurgePlan(diff) # {}, NEW u \in CdnUrls
  PROVE  u \in PurgePlan(diff)
BY DEF PurgePlan

(* What a step of one task leaves to the others.                           *)
LEMMA OnlyOneIsLive ==
  ASSUME TypeOK, RefreshMutex, NEW t \in Tasks, Running(t), NEW u \in Tasks, pc[u] \in AfterSwap
  PROVE  u = t
BY OthersEnded DEF AfterSwap, Installing, Ended

LEMMA LiveIsRunning == ASSUME NEW t \in Tasks, pc[t] \in AfterSwap PROVE Running(t)
BY DEF Running, Ended, AfterSwap, Installing

(* Benign faults leave these steps.                                        *)
LEMMA BenignNext ==
  ASSUME IInv, BenignFaults, [Next]_vars
  PROVE  \/ \E t \in Tasks : TryAcquire(t) \/ AlreadyRunning(t) \/ Advance(t)
         \/ Restart
         \/ UNCHANGED vars
BY DEF Next, Crash, ExitAfterFailedStartup, Cancel, RunDetached, BenignFaults, IInv,
       GenerationInv

------------------------------------------------------------------------------
LEMMA NextBackupInv ==
  ASSUME BenignFaults PROVE BackupInv /\ [Next]_vars => BackupInv'
<1> SUFFICES ASSUME BackupInv, [Next]_vars PROVE BackupIsIndexed'
  BY NextIInv DEF BackupInv
<1> SUFFICES ASSUME NEW t \in Tasks, pc'[t] = "remove_backup", index' # NoIndex
             PROVE  job'[t].backup = index'
  BY DEF BackupIsIndexed
<1>1. IInv /\ TypeOK /\ RefreshMutex
  BY DEF BackupInv, IInv
<1>2. CASE pc[t] = "remove_backup" /\ index' = index /\ job'[t] = job[t]
  BY <1>2 DEF BackupInv, BackupIsIndexed
<1>3. ASSUME NEW u \in Tasks, Advance(u) PROVE job'[t].backup = index'
  <2>1. t = u
    BY <1>1, <1>3, AdvanceMovesOne, LiveIsRunning, OnlyOneIsLive DEF AfterSwap
  <2>2. MoveStagingIn(t)
    BY <1>1, <1>3, <2>1
    DEF TypeOK, Goto, End, Fail, Advance, PrepareStaging, ListObjects, DownloadObject,
        Prune, PrepareActivation, FailBeforeSwap, MoveOldAside, MoveStagingInFails,
        RestoreOld, RestoreFails, RemoveBackup, RemoveBackupFails, SetValid,
        SetOriginRegistry, InsertIndex, SetSnapshot, PurgeCdn, PurgeFails
  <2>3. pc[t] = "move_new" /\ Running(t) /\ UNCHANGED <<job, index>>
    BY <2>2 DEF MoveStagingIn, Running, Ended, cdn, stores
  <2> QED
    BY <1>1, <2>3, HolderFacts DEF JobInv, OldIsAside, Aside
<1>4. ASSUME NEW u \in Tasks, TryAcquire(u) \/ AlreadyRunning(u) PROVE job'[t].backup = index'
  <2>1. u # t /\ pc'[t] = pc[t]
    BY <1>1, <1>4 DEF TryAcquire, AlreadyRunning, Goto, TypeOK
  <2>2. index' = index /\ job'[t] = job[t]
    BY <1>1, <1>4, <2>1 DEF TryAcquire, AlreadyRunning, TypeOK, cdn, stores
  <2> QED
    BY <1>2, <2>1, <2>2
<1>5. CASE Restart
  BY <1>5 DEF Restart
<1>6. CASE UNCHANGED vars
  BY <1>2, <1>6 DEF vars, cdn, stores
<1> QED
  BY <1>1, <1>3, <1>4, <1>5, <1>6, BenignNext

(* Whatever the second rename replaced is purged afterwards; the first      *)
(* purge of a process covers whatever it serves.                            *)
THEOREM PurgePlanIsComplete ==
  ASSUME BenignFaults PROVE Spec => []PurgeCoversSwap
<1>1. BackupInv => PurgeCoversSwap
  <2> SUFFICES ASSUME BackupInv, CdnStrategy # "none", NEW t \in Tasks,
                      pc[t] = "remove_backup",
                      NEW u \in UrlsOf(Differing(job[t].backup, mirror)),
                      u \notin PurgePlan(DiffOf(t))
               PROVE  job[t].previous = NoIndex /\ u \notin UrlsOf(Known(mirror))
    BY DEF PurgeCoversSwap
  <2> PICK p \in Differing(job[t].backup, mirror) : u = ObjectUrl[p]
    BY DEF UrlsOf
  <2>1. IInv /\ Running(t) /\ job[t].next \in Index /\ job[t].previous \in Index \cup {NoIndex}
    BY DEF BackupInv, IInv, Running, Ended, TypeOK, JobType
  <2>2. job[t].previous = index /\ mirror = job[t].next
    BY <2>1, HolderFacts
    DEF JobInv, PreviousIsActive, InstalledSoFar, BeforeIndex, Swapping, AfterSwap
  <2>3. CASE index = NoIndex
    <3>1. \A q \in Known(mirror) : ObjectUrl[q] \in PurgePlan(DiffOf(t))
      BY <2>1, <2>2, <2>3, PlanCoversDiff DEF DiffOf
    <3> QED
      BY <2>2, <2>3, <3>1 DEF UrlsOf
  <2>4. CASE index # NoIndex
    <3>1. job[t].backup = index /\ index # NoDir
      BY <2>1, <2>2, <2>4, RefreshAssumption DEF BackupInv, BackupIsIndexed
    <3>2. p \in Paths /\ index[p] # mirror[p]
      BY <3>1 DEF Differing, FilesIn
    <3> QED
      BY <2>1, <2>2, <2>4, <3>2, PlanCoversDiff DEF DiffOf
  <2> QED
    BY <2>3, <2>4
<1>2. Init => BackupInv
  BY InitIInv DEF Init, BackupInv, BackupIsIndexed
<1> QED
  BY <1>1, <1>2, NextBackupInv, PTL DEF Spec

------------------------------------------------------------------------------
(* Freshness.                                                              *)

(* Steps that touch neither the CDN nor a generation that is live.         *)
LEMMA QuietKeepsFresh ==
  ASSUME FreshUnlessLive, StaleIsPlanned, UNCHANGED <<cdn, index>>,
         \A u \in Tasks : pc[u] \in AfterSwap <=> pc'[u] \in AfterSwap,
         \A u \in Tasks : pc[u] \in AfterSwap =>
           job'[u].next = job[u].next /\ job'[u].previous = job[u].previous
  PROVE  FreshUnlessLive' /\ StaleIsPlanned'
BY DEF FreshUnlessLive, StaleIsPlanned, DiffOf, cdn

(* The second rename: what it changes is in the plan, and so is what was   *)
(* stale before and is served again.                                       *)
LEMMA SwapKeepsFresh ==
  ASSUME CdnStrategy # "none", PurgeInv, NEW t \in Tasks, MoveStagingIn(t)
  PROVE  FreshUnlessLive' /\ StaleIsPlanned'
<1>1. IInv /\ TypeOK /\ RefreshMutex
  BY DEF PurgeInv, IInv
<1>2. pc[t] = "move_new" /\ Running(t) /\ UNCHANGED <<job, index>>
  BY DEF MoveStagingIn, Running, Ended, cdn, stores
<1>3. pc'[t] = "remove_backup" /\ \A u \in Tasks : u # t => pc'[u] = pc[u]
  BY <1>1 DEF MoveStagingIn, Goto, TypeOK
<1>4. \A u \in Tasks : pc[u] \notin AfterSwap
  BY <1>1, <1>2, OnlyOneIsLive DEF AfterSwap, Installing
<1>5. FreshUnlessLive'
  BY <1>3 DEF FreshUnlessLive, AfterSwap
<1>6. JobInv(t)
  BY <1>1, <1>2, HolderFacts
<1>7. /\ job[t].previous = index /\ job[t].staging = job[t].next
      /\ index # NoIndex => job[t].backup = index
  BY <1>2, <1>6
  DEF JobInv, PreviousIsActive, StagedAsListed, OldIsAside, BeforeIndex, Swapping,
      Prepared, Aside
<1>8. job[t].next \in Index /\ index \in Index \cup {NoIndex}
  BY <1>1 DEF TypeOK, JobType
<1>9. ASSUME NEW u \in cdnStale', u \in PurgeReach(job[t].next), u \notin unpurged'
      PROVE  u \in PurgePlan(DiffOf(t))
  <2>1. PICK p \in Known(job[t].next) :
          CdnStrategy # "all" => u = ObjectUrl[p] /\ \A q \in MadeFrom[u] : ObjectUrl[q] = u
    BY <1>9, CdnRefreshAssumption DEF PurgeReach, UrlsOf
  <2>2. p \in Paths /\ job[t].next[p] # Absent /\ u \in CdnUrls
    BY <1>1, <1>9, <2>1, CdnRefreshAssumption
    DEF Known, PurgeReach, UrlsOf
  <2>3. ASSUME NEW q \in Paths, ObjectUrl[q] \in PurgePlan(DiffOf(t)),
               CdnStrategy # "all" => u = ObjectUrl[q]
        PROVE  u \in PurgePlan(DiffOf(t))
    BY <2>2, <2>3, AllIsPlanned
  <2>4. CASE index = NoIndex
    <3>1. ObjectUrl[p] \in PurgePlan(DiffOf(t))
      BY <1>7, <1>8, <2>1, <2>4, PlanCoversDiff DEF DiffOf
    <3> QED
      BY <2>1, <2>2, <2>3, <3>1
  <2>5. CASE index # NoIndex
    <3>1. index # NoDir
      BY <1>8, <2>5, RefreshAssumption
    <3>2. ASSUME NEW q \in Paths, index[q] # job[t].next[q],
                 CdnStrategy # "all" => u = ObjectUrl[q]
          PROVE  u \in PurgePlan(DiffOf(t))
      <4>1. ObjectUrl[q] \in PurgePlan(DiffOf(t))
        BY <1>7, <1>8, <2>5, <3>2, PlanCoversDiff DEF DiffOf
      <4> QED
        BY <2>3, <3>2, <4>1
    <3>3. CASE u \in cdnStale /\ u \notin unpurged
      <4>1. u \notin PurgeReach(index)
        BY <1>4, <2>5, <3>3 DEF PurgeInv, FreshUnlessLive
      <4>2. p \notin Known(index)
        BY <2>1, <2>2, <4>1, CdnRefreshAssumption DEF PurgeReach, UrlsOf
      <4>3. index[p] # job[t].next[p]
        BY <2>2, <4>2 DEF Known
      <4> QED
        BY <2>1, <2>2, <3>2, <4>3
    <3>4. CASE u \in AnswersFrom(Differing(job[t].backup, job[t].staging))
      <4>1. PICK q \in MadeFrom[u] : q \in Differing(job[t].backup, job[t].staging)
        BY <3>4 DEF AnswersFrom
      <4>2. q \in Paths /\ index[q] # job[t].next[q]
        BY <1>7, <2>5, <3>1, <4>1 DEF Differing, FilesIn
      <4> QED
        BY <2>1, <3>2, <4>1, <4>2
    <3> QED
      BY <1>9, <3>3, <3>4 DEF MoveStagingIn, Outdate
  <2> QED
    BY <2>4, <2>5
<1>10. StaleIsPlanned'
  BY <1>2, <1>3, <1>4, <1>9 DEF StaleIsPlanned, DiffOf
<1> QED
  BY <1>5, <1>10

(* The end of a refresh: with the plan carried out or not, or an empty one. *)
LEMMA PurgeKeepsFresh ==
  ASSUME PurgeInv, NEW t \in Tasks,
         InsertIndex(t) \/ SetSnapshot(t) \/ PurgeCdn(t) \/ PurgeFails(t)
  PROVE  FreshUnlessLive' /\ StaleIsPlanned'
<1>1. IInv /\ TypeOK /\ RefreshMutex
  BY DEF PurgeInv, IInv
<1>2. pc[t] \in {"set_index", "set_snapshot", "purge"} /\ pc[t] \in AfterSwap
  BY DEF InsertIndex, SetSnapshot, PurgeCdn, PurgeFails, AfterSwap, Installing
<1>3. Running(t) /\ JobInv(t)
  BY <1>1, <1>2, LiveIsRunning, HolderFacts
<1>4. \A u \in Tasks : u # t => pc[u] \notin AfterSwap /\ pc'[u] \notin AfterSwap
  <2>1. Advance(t)
    BY DEF Advance
  <2> QED
    BY <1>1, <1>3, <2>1, OnlyOneIsLive, AdvanceMovesOne
<1>5. cdnStale \cap PurgeReach(job[t].next) \subseteq unpurged \cup PurgePlan(DiffOf(t))
  BY <1>2 DEF PurgeInv, StaleIsPlanned
<1>6. CASE UNCHANGED <<job, cdn>> /\ pc'[t] \in AfterSwap
  BY <1>4, <1>5, <1>6 DEF FreshUnlessLive, StaleIsPlanned, DiffOf, cdn
<1>7. CASE /\ pc'[t] \notin AfterSwap /\ index' = job[t].next
           /\ \E done : Purge(PurgePlan(DiffOf(t)), done)
  <2>1. cdnStale' \cap PurgeReach(job[t].next) \subseteq unpurged'
    BY <1>5, <1>7 DEF Purge
  <2> QED
    BY <1>4, <1>7, <2>1 DEF FreshUnlessLive, StaleIsPlanned
<1>8. CASE InsertIndex(t)
  BY <1>1, <1>6, <1>8 DEF InsertIndex, Goto, TypeOK, AfterSwap, Installing
<1>9. CASE SetSnapshot(t)
  <2>1. index' = job[t].next
    BY <1>3, <1>9 DEF SetSnapshot, JobInv, InstalledSoFar, cdn, stores
  <2>2. CASE PurgePlan(DiffOf(t)) = {}
    <3>1. pc'[t] \notin AfterSwap /\ UNCHANGED cdn
      BY <1>1, <1>9, <2>2 DEF SetSnapshot, End, Goto, TypeOK, AfterSwap, Installing
    <3>2. Purge(PurgePlan(DiffOf(t)), {})
      BY <2>2, <3>1 DEF Purge, cdn
    <3> QED
      BY <1>7, <2>1, <3>1, <3>2
  <2>3. CASE PurgePlan(DiffOf(t)) # {}
    BY <1>1, <1>6, <1>9, <2>3 DEF SetSnapshot, Goto, TypeOK, AfterSwap
  <2> QED
    BY <2>2, <2>3
<1>10. CASE PurgeCdn(t)
  <2>1. index' = job[t].next
    BY <1>3, <1>10 DEF PurgeCdn, JobInv, InstalledSoFar, cdn, stores
  <2>2. pc'[t] \notin AfterSwap
    BY <1>1, <1>10 DEF PurgeCdn, End, Goto, TypeOK, AfterSwap, Installing
  <2> QED
    BY <1>7, <1>10, <2>1, <2>2 DEF PurgeCdn
<1>11. CASE PurgeFails(t)
  <2>1. index' = job[t].next
    BY <1>3, <1>11 DEF PurgeFails, JobInv, InstalledSoFar, cdn, stores
  <2>2. pc'[t] \notin AfterSwap
    BY <1>1, <1>11 DEF PurgeFails, End, Goto, TypeOK, AfterSwap, Installing
  <2> QED
    BY <1>7, <1>11, <2>1, <2>2 DEF PurgeFails
<1> QED
  BY <1>8, <1>9, <1>10, <1>11

LEMMA NextPurgeInv ==
  ASSUME BenignFaults, CdnStrategy # "none" PROVE PurgeInv /\ [Next]_vars => PurgeInv'
<1> SUFFICES ASSUME PurgeInv, [Next]_vars PROVE FreshUnlessLive' /\ StaleIsPlanned'
  BY NextIInv DEF PurgeInv
<1>1. IInv /\ TypeOK /\ RefreshMutex /\ FreshUnlessLive /\ StaleIsPlanned
  BY DEF PurgeInv, IInv
<1>2. ASSUME NEW t \in Tasks, Advance(t), ~MoveStagingIn(t),
             ~(InsertIndex(t) \/ SetSnapshot(t) \/ PurgeCdn(t) \/ PurgeFails(t))
      PROVE  FreshUnlessLive' /\ StaleIsPlanned'
  <2>1. UNCHANGED <<cdn, index>>
    BY <1>2
    DEF Advance, PrepareStaging, ListObjects, DownloadObject, Prune, PrepareActivation,
        FailBeforeSwap, MoveOldAside, MoveStagingInFails, RestoreOld, RestoreFails,
        RemoveBackup, RemoveBackupFails, SetValid, SetOriginRegistry, Fail, cdn, stores
  <2>2. \A u \in Tasks : u # t => pc[u] \notin AfterSwap /\ pc'[u] = pc[u]
    BY <1>1, <1>2, AdvanceMovesOne, OnlyOneIsLive
  <2>3. pc[t] \in AfterSwap <=> pc'[t] \in AfterSwap
    BY <1>1, <1>2
    DEF Advance, PrepareStaging, ListObjects, DownloadObject, Prune, PrepareActivation,
        FailBeforeSwap, MoveOldAside, MoveStagingInFails, RestoreOld, RestoreFails,
        RemoveBackup, RemoveBackupFails, SetValid, SetOriginRegistry, Fail, End, Goto,
        TypeOK, AfterSwap, Installing, Staging, BenignFaults
  <2>4. pc[t] \in AfterSwap => job'[t].next = job[t].next /\ job'[t].previous = job[t].previous
    <3>1. pc[t] \in AfterSwap => RemoveBackup(t) \/ UNCHANGED job
      BY <1>2
      DEF Advance, PrepareStaging, ListObjects, DownloadObject, Prune, PrepareActivation,
          FailBeforeSwap, MoveOldAside, MoveStagingInFails, RestoreOld, RestoreFails,
          RemoveBackupFails, SetValid, SetOriginRegistry, AfterSwap, Installing, Staging,
          BenignFaults
    <3> QED
      BY <1>1, <3>1 DEF RemoveBackup, TypeOK, JobType
  <2> QED
    BY <1>1, <2>1, <2>2, <2>3, <2>4, QuietKeepsFresh
<1>3. ASSUME NEW t \in Tasks, TryAcquire(t) \/ AlreadyRunning(t)
      PROVE  FreshUnlessLive' /\ StaleIsPlanned'
  <2>1. UNCHANGED <<cdn, index>>
    BY <1>3 DEF TryAcquire, AlreadyRunning, cdn, stores
  <2>2. pc[t] \notin AfterSwap /\ pc'[t] \notin AfterSwap
    BY <1>1, <1>3
    DEF TryAcquire, AlreadyRunning, MayStart, Goto, TypeOK, Ended, AfterSwap, Installing
  <2>3. \A u \in Tasks : u # t => pc'[u] = pc[u] /\ job'[u] = job[u]
    BY <1>1, <1>3 DEF TryAcquire, AlreadyRunning, Goto, TypeOK
  <2> QED
    BY <1>1, <2>1, <2>2, <2>3, QuietKeepsFresh
<1>4. CASE Restart
  BY <1>4 DEF Restart, FreshUnlessLive, StaleIsPlanned, AfterSwap, Installing
<1>5. CASE UNCHANGED vars
  BY <1>1, <1>5, QuietKeepsFresh DEF vars, cdn, stores
<1> QED
  BY <1>1, <1>2, <1>3, <1>4, <1>5, BenignNext, SwapKeepsFresh, PurgeKeepsFresh

(* A purge that failed, wholly or in part, is the only reason for which an  *)
(* outdated answer stays in the CDN for a URL within the reach of the       *)
(* purges, also after crashes at any step and a restart on the mirror they  *)
(* left: "/" and the key for files that make their answer alone, and every  *)
(* URL with the strategy "all".                                             *)
THEOREM OnlyFailedPurgesLeave ==
  ASSUME BenignFaults PROVE Spec => []OnlyFailedPurgesLeaveStale
<1>1. CASE CdnStrategy = "none"
  <2>1. OnlyFailedPurgesLeaveStale
    BY <1>1 DEF OnlyFailedPurgesLeaveStale
  <2> QED
    BY <2>1, PTL
<1>2. CASE CdnStrategy # "none"
  <2>1. PurgeInv => OnlyFailedPurgesLeaveStale
    BY RefreshAssumption
    DEF PurgeInv, IInv, RefreshMutex, Running, FreshUnlessLive, OnlyFailedPurgesLeaveStale,
        AfterSwap, Installing, Ended, Tasks
  <2>2. Init => PurgeInv
    BY InitIInv DEF Init, PurgeInv, FreshUnlessLive, StaleIsPlanned, AfterSwap, Installing
  <2>3. PurgeInv /\ [Next]_vars => PurgeInv'
    BY <1>2, NextPurgeInv
  <2> QED
    BY <2>1, <2>2, <2>3, PTL DEF Spec
<1> QED
  BY <1>1, <1>2
------------------------------------------------------------------------------
(* The initial sync, under every fault.  Nobody else refreshes before it   *)
(* has ended, no future of it can be dropped, and until it installs what   *)
(* it prepared the stores are empty: an error, even the one of a cleanup   *)
(* or of a restoring rename, leaves no index that the mirror fails.        *)

Starting == pc["startup"] # "activated"
NothingInstalled == index = NoIndex /\ registry = NoFiles

StartInv ==
  /\ TypeOK /\ RefreshMutex
  /\ Starting =>
       /\ GenerationInv
       /\ \A t \in Tasks \ {"startup"} : pc[t] \in Ended
       /\ pc["startup"] \notin {"set_index", "set_snapshot", "purge"} => NothingInstalled

LEMMA FailKeepsNothing ==
  ASSUME IInv, NothingInstalled, NEW t \in Tasks, Running(t), Fail(t)
  PROVE  GenerationInv'
BY FailKeepsGeneration DEF NothingInstalled, StoresHoldIndex, MirrorHoldsIndex

LEMMA RestoreOldKeepsNothing ==
  ASSUME IInv, NothingInstalled, NEW t \in Tasks, RestoreOld(t) \/ RestoreFails(t)
  PROVE  GenerationInv'
<1>1. pc[t] = "restore" /\ Running(t) /\ "failed" \in Ended
  BY DEF RestoreOld, RestoreFails, Running, Ended
<1>2. CASE RestoreOld(t)
  <2>1. StoresHoldIndex' /\ MirrorHoldsIndex'
    BY <1>2 DEF RestoreOld, NothingInstalled, StoresHoldIndex, MirrorHoldsIndex, cdn, stores
  <2> QED
    BY <1>1, <1>2, <2>1, EndStepKeeps DEF RestoreOld
<1>3. CASE RestoreFails(t)
  BY <1>1, <1>3, FailKeepsNothing DEF RestoreFails
<1> QED
  BY <1>2, <1>3

(* Every step of the initial sync keeps what the activation needs.         *)
LEMMA AdvanceKeepsStart ==
  ASSUME StartInv, Starting, NEW t \in Tasks, Advance(t)
  PROVE  t = "startup" /\ GenerationInv'
<1>1. t = "startup" /\ Running(t) /\ IInv
  BY DEF StartInv, Advance, PrepareStaging, ListObjects, DownloadObject, Prune,
         PrepareActivation, FailBeforeSwap, MoveOldAside, MoveStagingIn,
         MoveStagingInFails, RestoreOld, RestoreFails, RemoveBackup, RemoveBackupFails,
         SetValid, SetOriginRegistry, InsertIndex, SetSnapshot, PurgeCdn, PurgeFails,
         Running, Ended, Staging, IInv
<1>2. CASE RestoreOld(t) \/ RestoreFails(t)
  <2>1. NothingInstalled
    BY <1>1, <1>2 DEF StartInv, RestoreOld, RestoreFails
  <2> QED
    BY <1>1, <1>2, <2>1, RestoreOldKeepsNothing
<1>3. CASE RemoveBackup(t)
  BY <1>1, <1>3, RemoveBackupKeeps
<1>4. CASE RemoveBackupFails(t)
  <2>1. NothingInstalled /\ Fail(t)
    BY <1>1, <1>4 DEF StartInv, RemoveBackupFails
  <2> QED
    BY <1>1, <2>1, FailKeepsNothing
<1> QED
  BY <1>1, <1>2, <1>3, <1>4, PrepareStagingKeepsGeneration, ListObjectsKeepsGeneration,
     DownloadKeepsGeneration, PruneKeepsGeneration, PrepareKeepsGeneration,
     FailBeforeSwapKeepsGeneration, MoveOldKeepsGeneration, MoveStagingKeepsGeneration,
     MoveStagingFailsKeepsGeneration, InstallKeepsGeneration, SnapshotKeepsGeneration,
     PurgeKeepsGeneration
  DEF Advance

LEMMA AdvanceKeepsOthers ==
  ASSUME TypeOK, NEW t \in Tasks, Advance(t)
  PROVE  /\ \A u \in Tasks : u # t => pc'[u] = pc[u]
         /\ pc[t] \notin Ended
<1>1. pc[t] \notin Ended
  BY DEF Advance, PrepareStaging, ListObjects, DownloadObject, Prune,
         PrepareActivation, FailBeforeSwap, MoveOldAside, MoveStagingIn,
         MoveStagingInFails, RestoreOld, RestoreFails, RemoveBackup, RemoveBackupFails,
         SetValid, SetOriginRegistry, InsertIndex, SetSnapshot, PurgeCdn, PurgeFails,
         Ended, Staging
<1>2. \/ UNCHANGED pc
      \/ \E step \in Steps : Goto(t, step)
  BY DEF Advance, PrepareStaging, ListObjects, DownloadObject, Prune,
         PrepareActivation, FailBeforeSwap, MoveOldAside, MoveStagingIn,
         MoveStagingInFails, RestoreOld, RestoreFails, RemoveBackup, RemoveBackupFails,
         SetValid, SetOriginRegistry, InsertIndex, SetSnapshot, PurgeCdn, PurgeFails,
         Fail, End, Steps, Ended, Staging, Swapping, Installing
<1>3. \A u \in Tasks : u # t => pc'[u] = pc[u]
  BY <1>2 DEF Goto, TypeOK
<1> QED
  BY <1>1, <1>3

LEMMA AdvanceKeepsNothing ==
  ASSUME TypeOK, Advance("startup"),
         pc["startup"] \notin {"set_index", "set_snapshot", "purge"} => NothingInstalled,
         Starting',
         pc'["startup"] \notin {"set_index", "set_snapshot", "purge"}
  PROVE  NothingInstalled'
<1>1. "startup" \in Tasks
  BY DEF Tasks
<1>2. pc \in [Tasks -> Steps]
  BY DEF TypeOK
<1>3. CASE /\ pc["startup"] \notin {"set_index", "set_snapshot", "purge"}
           /\ ~SetOriginRegistry("startup")
  BY <1>3 DEF Advance, PrepareStaging, ListObjects, DownloadObject, Prune,
         PrepareActivation, FailBeforeSwap, MoveOldAside, MoveStagingIn,
         MoveStagingInFails, RestoreOld, RestoreFails, RemoveBackup, RemoveBackupFails,
         SetValid, InsertIndex, SetSnapshot, PurgeCdn, PurgeFails, Fail,
         NothingInstalled, cdn, stores
<1>4. ~SetOriginRegistry("startup")
  BY <1>1, <1>2 DEF SetOriginRegistry, Goto
<1>5. pc["startup"] # "set_index"
  <2> SUFFICES ASSUME pc["startup"] = "set_index" PROVE FALSE
    OBVIOUS
  <2>1. InsertIndex("startup")
    BY DEF Advance, PrepareStaging, ListObjects, DownloadObject, Prune,
         PrepareActivation, FailBeforeSwap, MoveOldAside, MoveStagingIn,
         MoveStagingInFails, RestoreOld, RestoreFails, RemoveBackup, RemoveBackupFails,
         SetValid, SetOriginRegistry, SetSnapshot, PurgeCdn, PurgeFails, Staging
  <2> QED
    BY <1>1, <1>2, <2>1 DEF InsertIndex, Goto
<1>6. pc["startup"] \notin {"set_snapshot", "purge"}
  <2> SUFFICES ASSUME pc["startup"] \in {"set_snapshot", "purge"} PROVE FALSE
    OBVIOUS
  <2>1. SetSnapshot("startup") \/ PurgeCdn("startup") \/ PurgeFails("startup")
    BY DEF Advance, PrepareStaging, ListObjects, DownloadObject, Prune,
         PrepareActivation, FailBeforeSwap, MoveOldAside, MoveStagingIn,
         MoveStagingInFails, RestoreOld, RestoreFails, RemoveBackup, RemoveBackupFails,
         SetValid, SetOriginRegistry, InsertIndex, Staging
  <2> QED
    BY <1>1, <1>2, <2>1 DEF SetSnapshot, PurgeCdn, PurgeFails, End, Goto, Starting
<1> QED
  BY <1>3, <1>4, <1>5, <1>6

LEMMA StartNext == StartInv /\ [Next]_vars => StartInv'
<1> SUFFICES ASSUME StartInv, [Next]_vars PROVE StartInv'
  OBVIOUS
<1>1. TypeOK' /\ RefreshMutex'
  BY NextTypeOK, NextKeepsMutex DEF StartInv
<1>2. "startup" \in Tasks /\ "activated" \in Ended
  BY DEF Tasks, Ended
<1>3. ASSUME NEW t \in Tasks, Advance(t) PROVE StartInv'
  <2>1. CASE Starting
    <3>1. t = "startup" /\ GenerationInv'
      BY <1>3, <2>1, AdvanceKeepsStart
    <3>2. \A u \in Tasks \ {"startup"} : pc'[u] \in Ended
      BY <1>3, <2>1, <3>1, AdvanceKeepsOthers DEF StartInv
    <3> QED
      BY <1>1, <1>3, <2>1, <3>1, <3>2, AdvanceKeepsNothing DEF StartInv
  <2>2. CASE ~Starting
    <3>1. t # "startup" /\ ~Starting'
      BY <1>2, <1>3, <2>2, AdvanceKeepsOthers DEF StartInv, Starting
    <3> QED
      BY <1>1, <3>1 DEF StartInv
  <2> QED
    BY <2>1, <2>2
<1>4. ASSUME NEW t \in Tasks, TryAcquire(t) PROVE StartInv'
  <2>1. CASE Starting
    <3>1. t = "startup" /\ IInv
      BY <1>4, <2>1 DEF TryAcquire, MayStart, Starting, StartInv, IInv
    <3>2. GenerationInv'
      BY <1>4, <3>1, AcquireKeepsGeneration
    <3>3. \A u \in Tasks \ {"startup"} : pc'[u] \in Ended
      BY <1>4, <2>1, <3>1 DEF TryAcquire, Goto, StartInv, TypeOK
    <3>4. NothingInstalled'
      BY <1>4, <2>1, <3>1
      DEF TryAcquire, MayStart, StartInv, NothingInstalled, cdn, stores
    <3> QED
      BY <1>1, <3>2, <3>3, <3>4 DEF StartInv
  <2>2. CASE ~Starting
    <3>1. ~Starting'
      BY <1>2, <1>4, <2>2 DEF TryAcquire, MayStart, Goto, StartInv, Starting, TypeOK
    <3> QED
      BY <1>1, <3>1 DEF StartInv
  <2> QED
    BY <2>1, <2>2
<1>5. ASSUME NEW t \in Tasks, AlreadyRunning(t) PROVE StartInv'
  <2>1. CASE Starting
    <3>1. t = "startup" /\ IInv
      BY <1>5, <2>1 DEF AlreadyRunning, MayStart, Starting, StartInv, IInv
    <3>2. GenerationInv'
      BY <1>5, <3>1, AlreadyRunningKeepsGeneration
    <3>3. \A u \in Tasks \ {"startup"} : pc'[u] \in Ended
      BY <1>5, <2>1, <3>1 DEF AlreadyRunning, Goto, StartInv, TypeOK
    <3>4. NothingInstalled'
      BY <1>5, <2>1, <3>1
      DEF AlreadyRunning, MayStart, StartInv, NothingInstalled, cdn, stores
    <3> QED
      BY <1>1, <3>2, <3>3, <3>4 DEF StartInv
  <2>2. CASE ~Starting
    <3>1. ~Starting'
      BY <1>2, <1>5, <2>2 DEF AlreadyRunning, MayStart, Goto, StartInv, Starting, TypeOK
    <3> QED
      BY <1>1, <3>1 DEF StartInv
  <2> QED
    BY <2>1, <2>2
<1>6. ASSUME NEW t \in Tasks, Cancel(t) PROVE StartInv'
  <2>1. t # "startup" /\ pc[t] \notin Ended
    BY <1>6, RefreshAssumption DEF Cancel, Staging, Swapping, Ended
  <2>2. ~Starting
    BY <2>1 DEF StartInv
  <2>3. ~Starting'
    BY <1>2, <1>6, <2>1, <2>2 DEF Cancel, End, Goto, StartInv, Starting, TypeOK
  <2> QED
    BY <1>1, <2>3 DEF StartInv
<1>7. ASSUME RunDetached PROVE StartInv'
  <2>1. detached # {} /\ UNCHANGED pc
    BY <1>7 DEF RunDetached
  <2> QED
    BY <1>1, <2>1 DEF StartInv, GenerationInv, Starting
<1>8. ASSUME Restart PROVE StartInv'
  <2>1. \A u \in Tasks : JobInv(u)' /\ pc'[u] \in Ended
    BY <1>8, EndedJobInv DEF Restart, Ended
  <2>2. StoresHoldIndex' /\ MirrorHoldsIndex' /\ NothingInstalled' /\ detached' = {}
    BY <1>8 DEF Restart, StoresHoldIndex, MirrorHoldsIndex, NothingInstalled
  <2> QED
    BY <1>1, <2>1, <2>2 DEF StartInv, GenerationInv, StoresAreActive, MirrorIsActive
<1>9. ASSUME UNCHANGED vars PROVE StartInv'
  <2>1. CASE Starting
    <3>1. GenerationInv'
      BY <1>9, <2>1, StutterKeepsGeneration DEF StartInv, IInv
    <3>2. UNCHANGED <<pc, index, registry>>
      BY <1>9 DEF vars, cdn, stores
    <3> QED
      BY <1>1, <2>1, <3>1, <3>2 DEF StartInv, Starting, NothingInstalled
  <2>2. CASE ~Starting
    BY <1>1, <1>9, <2>2 DEF vars, StartInv, Starting
  <2> QED
    BY <2>1, <2>2
<1> QED
  BY <1>3, <1>4, <1>5, <1>6, <1>7, <1>8, <1>9 DEF Next, Crash, ExitAfterFailedStartup

LEMMA StartInit == Init => StartInv
<1> SUFFICES ASSUME Init PROVE StartInv
  OBVIOUS
<1>1. IInv
  BY InitIInv
<1> QED
  BY <1>1 DEF Init, IInv, StartInv, NothingInstalled, Ended

(* The step that ends the initial sync.                                    *)
LEMMA StartupActivates ==
  ASSUME StartInv, [Next]_vars, Starting, ~Starting'
  PROVE  SetSnapshot("startup") \/ PurgeCdn("startup") \/ PurgeFails("startup")
<1>1. "startup" \in Tasks /\ pc \in [Tasks -> Steps]
  BY DEF StartInv, TypeOK, Tasks
<1>2. ASSUME NEW t \in Tasks, Advance(t)
      PROVE  SetSnapshot("startup") \/ PurgeCdn("startup") \/ PurgeFails("startup")
  <2>1. t = "startup"
    BY <1>2, AdvanceKeepsStart
  <2> QED
    BY <1>1, <1>2, <2>1
    DEF Advance, PrepareStaging, ListObjects, DownloadObject, Prune, PrepareActivation,
        FailBeforeSwap, MoveOldAside, MoveStagingIn, MoveStagingInFails, RestoreOld,
        RestoreFails, RemoveBackup, RemoveBackupFails, SetValid, SetOriginRegistry,
        InsertIndex, Fail, End, Goto, Starting
<1>3. ASSUME NEW t \in Tasks, TryAcquire(t) \/ AlreadyRunning(t) \/ Cancel(t) PROVE FALSE
  BY <1>1, <1>3 DEF TryAcquire, AlreadyRunning, Cancel, End, Goto, Starting
<1>4. ~RunDetached /\ ~Restart /\ ~UNCHANGED vars
  BY <1>1 DEF RunDetached, Restart, vars, Starting
<1> QED
  BY <1>2, <1>3, <1>4 DEF Next, Crash, ExitAfterFailedStartup

(* The server opens its listener on one whole generation: what the initial  *)
(* sync leaves in the mirror, in edge_configs and in the template store is  *)
(* what it indexed, whatever an earlier process left on the disk when it    *)
(* crashed between two renames, was cancelled or kept a backup.             *)
StartsWithOneGeneration ==
  [][pc["startup"] # "activated" /\ pc'["startup"] = "activated" =>
       /\ index' # NoIndex
       /\ mirror' = index'
       /\ config' = EdgeConfig(index')
       /\ registry' = Templates(index')]_vars

(* Under every fault (build_render_runtime, refresh_origin_snapshot).      *)
THEOREM StartupGeneration == Spec => StartsWithOneGeneration
<1>1. ASSUME StartInv, [Next]_vars, Starting, ~Starting'
      PROVE  /\ index' # NoIndex /\ mirror' = index'
             /\ config' = EdgeConfig(index') /\ registry' = Templates(index')
  <2>1. SetSnapshot("startup") \/ PurgeCdn("startup") \/ PurgeFails("startup")
    BY <1>1, StartupActivates
  <2>2. /\ pc["startup"] \in {"set_snapshot", "purge"} /\ "startup" \in Tasks /\ IInv
        /\ UNCHANGED <<mirror, config, registry, index>>
    BY <1>1, <2>1
    DEF SetSnapshot, PurgeCdn, PurgeFails, cdn, stores, StartInv, IInv, Tasks
  <2>3. InstalledSoFar("startup")
    BY <2>2, HolderFacts DEF JobInv, Running, Ended
  <2>4. index \in Index
    BY <2>2, <2>3 DEF InstalledSoFar, IInv, TypeOK, JobType
  <2> QED
    BY <2>2, <2>3, <2>4, NoIndexAssumption DEF InstalledSoFar, AfterSwap, Installing
<1>2. StartInv /\ [Next]_vars =>
        [pc["startup"] # "activated" /\ pc'["startup"] = "activated" =>
           /\ index' # NoIndex /\ mirror' = index'
           /\ config' = EdgeConfig(index') /\ registry' = Templates(index')]_vars
  BY <1>1 DEF Starting
<1> QED
  BY <1>2, StartInit, StartNext, PTL DEF Spec, StartsWithOneGeneration
=============================================================================
