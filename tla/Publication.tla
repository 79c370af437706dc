----------------------------- MODULE Publication -----------------------------
(***************************************************************************)
(* A publisher replaces the objects of an origin's bucket or directory     *)
(* while a refresh lists and downloads them.  Nothing makes the two        *)
(* exclude each other; the activation barrier is what keeps a refresh from *)
(* activating half of a publication.                                       *)
(*                                                                         *)
(* The publisher follows the protocol of README.md: an invalid barrier     *)
(* first, then the remaining objects in any order, then a valid barrier    *)
(* with a deployment identifier of its own.  It may abandon a publication  *)
(* and start the next one.                                                 *)
(*                                                                         *)
(* A refresh is one pass of stage_origin_dir and of the checks of          *)
(* refresh_origin_snapshot; that its activation takes effect as one step   *)
(* is what OriginRefresh shows.                                            *)
(***************************************************************************)
EXTENDS OriginFreshness

CONSTANTS
  Releases,       \* the sequence of publications; each is an Index
  Drafts,         \* the invalid barrier of each publication
  ListedBefore,   \* <<p, q>>: every listing reads p before q
  MaxFailures     \* bound: storage errors and restarts

Release(d) == IF d = 0 THEN NoFiles ELSE Releases[d]
LastRelease == Len(Releases)
Rest == Paths \ {Barrier}

ASSUME PublicationAssumption ==
  /\ Releases \in Seq(Index)
  /\ Drafts \in [1..LastRelease -> Contents]
  /\ MaxFailures \in Nat
  /\ ListedBefore \subseteq Paths \X Paths
  /\ Barrier \in Paths
  /\ \A d, e \in 1..LastRelease :
       /\ Releases[d][Barrier] \in Contents
       /\ Releases[d][Barrier] = Releases[e][Barrier] => d = e
       /\ Releases[d][Barrier] # Drafts[e]

(* The barrier is the edge config the origin is served with, and a draft   *)
(* of it does not parse.                                                   *)
ASSUME BarrierIsTheConfig ==
  /\ Len(EdgeConfigPaths) > 0
  /\ EdgeConfigPaths[1] = Barrier
  /\ \A d \in 1..LastRelease : Drafts[d] \in BadConfigs

VARIABLES
  remote,      \* the objects in the storage
  release,     \* number of the last publication started
  uploading,   \* it has not written its valid barrier yet
  toPut,       \* objects it still has to write or delete
  step,        \* where the refresh is: "idle", "list" or "download"
  listed,      \* paths the running listing has read
  next,        \* what it read there
  todo,        \* changed paths not downloaded yet
  index,       \* the active generation
  failures     \* storage errors and restarts so far

pubVars == <<remote, release, uploading, toPut>>
vars == <<remote, release, uploading, toPut, step, listed, next, todo, index, failures>>

Init ==
  /\ remote = NoFiles
  /\ release = 0
  /\ uploading = FALSE
  /\ toPut = {}
  /\ step = "idle"
  /\ listed = {}
  /\ next = NoFiles
  /\ todo = {}
  /\ index = NoIndex
  /\ failures = 0

------------------------------------------------------------------------------
(* The publisher.                                                          *)

StartPublication ==
  /\ release < LastRelease
  /\ release' = release + 1
  /\ uploading' = TRUE
  /\ remote' = [remote EXCEPT ![Barrier] = Drafts[release']]
  /\ toPut' = {p \in Rest : remote[p] # Release(release')[p]}
  /\ UNCHANGED <<step, listed, next, todo, index, failures>>

PutObject(p) ==
  /\ p \in toPut
  /\ remote' = [remote EXCEPT ![p] = Release(release)[p]]
  /\ toPut' = toPut \ {p}
  /\ UNCHANGED <<release, uploading, step, listed, next, todo, index, failures>>

FinishPublication ==
  /\ uploading
  /\ toPut = {}
  /\ uploading' = FALSE
  /\ remote' = [remote EXCEPT ![Barrier] = Release(release)[Barrier]]
  /\ UNCHANGED <<release, toPut, step, listed, next, todo, index, failures>>

------------------------------------------------------------------------------
(* The refresh.                                                            *)

StartRefresh ==
  /\ step = "idle"
  /\ step' = "list"
  /\ listed' = {}
  /\ next' = NoFiles
  /\ UNCHANGED <<pubVars, todo, index, failures>>

(* list_objects reads the storage piece by piece: pages of ListObjectsV2   *)
(* in key order, or a directory walk that opens one file after another.    *)
ListObject(p) ==
  /\ step = "list"
  /\ p \notin listed
  /\ \A q \in Paths : <<q, p>> \in ListedBefore => q \in listed
  /\ next' = [next EXCEPT ![p] = remote[p]]
  /\ listed' = listed \cup {p}
  /\ UNCHANGED <<pubVars, step, todo, index, failures>>

DiffListing ==
  /\ step = "list"
  /\ listed = Paths
  /\ step' = "download"
  /\ todo' = ChangedPaths(Diff(index, next))
  /\ UNCHANGED <<pubVars, listed, next, index, failures>>

(* The object is the one that was listed: key, size, etag, last-modified.  *)
SameObject(p) == remote[p] = next[p]

(* A slip in validate_downloaded_object: any answer will do.               *)
AnyObject(p) == remote[p] # Absent

ValidDownload(p) == SameObject(p)

DownloadObject(p) ==
  /\ step = "download"
  /\ p \in todo
  /\ ValidDownload(p)
  /\ todo' = todo \ {p}
  /\ UNCHANGED <<pubVars, step, listed, next, index, failures>>

(* A slip in refresh_origin: what was left to download survives the error. *)
GiveUpLater == step' = "idle" /\ UNCHANGED <<pubVars, listed, next, todo, index>>

(* The attempt is over.  The background loop tries again after its sleep;  *)
(* without an active generation the attempt was the startup sync, whose    *)
(* error ends the program, and the next one is that of a new process.      *)
GiveUp ==
  /\ step' = "idle"
  /\ todo' = {}
  /\ UNCHANGED <<pubVars, listed, next, index>>

DownloadDiffers ==
  /\ step = "download"
  /\ \E p \in todo : ~ValidDownload(p)
  /\ GiveUp
  /\ UNCHANGED failures

(* What refresh_origin_snapshot checks before the activation.              *)
Accepted ==
  /\ BarrierAccepts(index, next)
  /\ EdgeConfig(next) \notin BadConfigs
  /\ TemplatesCompile(Diff(index, next), next)

Activate ==
  /\ step = "download"
  /\ todo = {}
  /\ Accepted
  /\ index' = next
  /\ step' = "idle"
  /\ UNCHANGED <<pubVars, listed, next, todo, failures>>

Reject ==
  /\ step = "download"
  /\ todo = {}
  /\ ~Accepted
  /\ GiveUp
  /\ UNCHANGED failures

(* list_objects or get_object returns an error.                            *)
StorageError ==
  /\ failures < MaxFailures
  /\ step # "idle"
  /\ failures' = failures + 1
  /\ GiveUp

(* A new process has no index and starts with a refresh of its own.        *)
Restart ==
  /\ failures < MaxFailures
  /\ failures' = failures + 1
  /\ index' = NoIndex
  /\ step' = "idle"
  /\ todo' = {}
  /\ UNCHANGED <<pubVars, listed, next>>

------------------------------------------------------------------------------
RefreshStep ==
  \/ StartRefresh
  \/ \E p \in Paths : ListObject(p) \/ DownloadObject(p)
  \/ DiffListing \/ DownloadDiffers \/ Activate \/ Reject

Next ==
  \/ StartPublication \/ (\E p \in Paths : PutObject(p)) \/ FinishPublication
  \/ RefreshStep
  \/ StorageError \/ Restart

Spec == Init /\ [][Next]_vars

(* A process that has an active generation has a background loop, which    *)
(* sleeps, refreshes, logs an error and goes on, as long as the storage    *)
(* answers.  Nobody has to start a process whose startup sync failed.      *)
LoopStep == index # NoIndex /\ RefreshStep
FairSpec == Spec /\ WF_vars(LoopStep)

------------------------------------------------------------------------------
(* Every variable has the shape of the structure it stands for.            *)
TypeOK ==
  /\ remote \in Index
  /\ release \in 0..LastRelease
  /\ uploading \in BOOLEAN
  /\ toPut \subseteq (IF uploading THEN Rest ELSE {})
  /\ step \in {"idle", "list", "download"}
  /\ listed \subseteq Paths
  /\ next \in Index
  /\ todo \subseteq (IF step = "download" THEN Paths ELSE {})
  /\ index \in Index \cup {NoIndex}
  /\ failures \in Nat

(* README.md on activation_barrier_path: a publication that overlaps a      *)
(* refresh is rejected instead of activating a mixed generation.  What is   *)
(* active is one publication, complete, or the empty origin.                *)
NoMixedGeneration ==
  index # NoIndex => \E d \in 0..LastRelease : index = Release(d)

(***************************************************************************)
(* Refinement: a refresh reads the storage at the moment its listing reads *)
(* the barrier, if that is the barrier of a release.  A generation that is *)
(* no release has a number no release has.                                 *)
(***************************************************************************)
releaseRead ==
  {d \in 0..LastRelease :
     step # "idle" /\ Barrier \in listed /\ next[Barrier] = Release(d)[Barrier]}

ReleaseOf(files) ==
  IF \E d \in 0..LastRelease : files = Release(d)
    THEN CHOOSE d \in 0..LastRelease : files = Release(d)
    ELSE LastRelease + 1

releaseActive == IF index = NoIndex THEN {} ELSE {ReleaseOf(index)}

Whole == INSTANCE WholeReleases WITH
  whole <- ~uploading, read <- releaseRead, active <- releaseActive

(* However listings, downloads and uploads interleave, a refresh activates  *)
(* what the storage was at one moment of it, and no publication was under   *)
(* way at that moment.                                                      *)
ImplementsWholeReleases == Whole!Spec

(* Once the publisher is done, a process that is up activates what was      *)
(* published or ends: no sequence of torn listings, rejected barriers,      *)
(* failed downloads and errors leaves its background loop unable to take    *)
(* the publication.                                                         *)
PublicationIsServed ==
  release = LastRelease /\ ~uploading /\ index # NoIndex
    ~> index = NoIndex \/ index = Release(LastRelease)
==============================================================================
