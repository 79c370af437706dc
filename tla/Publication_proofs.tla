--------------------------- MODULE Publication_proofs ---------------------------
(***************************************************************************)
(* The barrier protocol keeps mixed generations out, for any number of     *)
(* objects, publications, errors and restarts, if every listing reads the  *)
(* barrier first.  The run publication_any_order shows that without this   *)
(* it does not.                                                            *)
(*                                                                         *)
(* The argument: a release's barrier is in the storage exactly while the   *)
(* storage is that release.  An accepted generation has the barrier of a   *)
(* release, read before everything else and found again when it was        *)
(* downloaded, after everything else; so all that was listed in between is *)
(* of that release.                                                        *)
(***************************************************************************)
EXTENDS Publication, TLAPS

BarrierFirst == \A p \in Rest : <<Barrier, p>> \in ListedBefore

Publications == 1..LastRelease

(* The storage is the last release, or on the way to it behind a draft.    *)
RemoteIsRelease ==
  /\ ~uploading => remote = Release(release)
  /\ uploading =>
       /\ release \in Publications
       /\ remote[Barrier] = Drafts[release]
       /\ \A p \in Rest \ toPut : remote[p] = Release(release)[p]

ListedInOrder ==
  /\ listed # {} => Barrier \in listed
  /\ step = "download" => listed = Paths

(* A listed barrier is absent, a draft or that of a release that is out.   *)
BarrierWasOut ==
  Barrier \in listed =>
    \/ next[Barrier] = Absent
    \/ \E d \in Publications : next[Barrier] = Drafts[d]
    \/ \E d \in 1..release : /\ next[Barrier] = Releases[d][Barrier]
                             /\ uploading => d < release

(* While the listed barrier is still there, so is the rest of its release. *)
ListedWhileOut ==
  \A d \in Publications :
    Barrier \in listed /\ next[Barrier] = Releases[d][Barrier] /\ remote[Barrier] = next[Barrier]
      => \A p \in listed : next[p] = Releases[d][p]

(* A barrier that has been downloaded had not changed since the listing.   *)
DownloadedBarrierIsOfListing ==
  step = "download" /\ Barrier \in ChangedPaths(Diff(index, next)) \ todo =>
    \A d \in Publications : next[Barrier] = Releases[d][Barrier] => next = Releases[d]

PublicationInv ==
  /\ TypeOK
  /\ RemoteIsRelease
  /\ ListedInOrder
  /\ BarrierWasOut
  /\ ListedWhileOut
  /\ DownloadedBarrierIsOfListing
  /\ NoMixedGeneration

------------------------------------------------------------------------------
(* The constants.                                                          *)

LEMMA ReleaseFacts ==
  /\ LastRelease \in Nat
  /\ Barrier \in Paths
  /\ \A d \in Publications : /\ Releases[d] \in Index
                             /\ Drafts[d] \in Contents
                             /\ Releases[d][Barrier] \in Contents
                             /\ Release(d) = Releases[d]
  /\ \A d, e \in Publications : /\ Releases[d][Barrier] = Releases[e][Barrier] => d = e
                                /\ Releases[d][Barrier] # Drafts[e]
BY PublicationAssumption DEF LastRelease, Publications, Release

LEMMA NoFilesIsIndex == NoFiles \in Index /\ Release(0) = NoFiles
BY DEF NoFiles, Index, FileState, Release

LEMMA ReleaseType == \A d \in 0..LastRelease : Release(d) \in Index
<1> TAKE d \in 0..LastRelease
<1>1. CASE d = 0
  BY <1>1, NoFilesIsIndex
<1>2. CASE d # 0
  BY <1>2, ReleaseFacts DEF Publications
<1> QED
  BY <1>1, <1>2

(* The barrier of a release is in the storage only if that release is all  *)
(* there is.                                                               *)
LEMMA BarrierOut ==
  ASSUME TypeOK, RemoteIsRelease, NEW d \in Publications,
         remote[Barrier] = Releases[d][Barrier]
  PROVE  ~uploading /\ release = d /\ remote = Releases[d]
<1>1. ~uploading
  BY ReleaseFacts DEF RemoteIsRelease
<1>2. remote = Release(release)
  BY <1>1 DEF RemoteIsRelease
<1>3. release # 0
  <2> SUFFICES ASSUME release = 0 PROVE FALSE
    OBVIOUS
  <2>1. remote[Barrier] = Absent
    BY <1>2, NoFilesIsIndex, ReleaseFacts DEF NoFiles
  <2> QED
    BY <2>1, ReleaseFacts, ConstantsAssumption
<1>4. release \in Publications
  BY <1>3, ReleaseFacts DEF TypeOK, Publications
<1> QED
  BY <1>1, <1>2, <1>4, ReleaseFacts

LEMMA BarrierOutNext ==
  ASSUME TypeOK', RemoteIsRelease', NEW d \in Publications,
         remote'[Barrier] = Releases[d][Barrier]
  PROVE  ~uploading' /\ release' = d
<1>1. ~uploading'
  BY ReleaseFacts DEF RemoteIsRelease
<1>2. remote' = Release(release')
  BY <1>1 DEF RemoteIsRelease
<1>3. release' # 0
  BY <1>2, NoFilesIsIndex, ReleaseFacts, ConstantsAssumption DEF NoFiles
<1> QED
  BY <1>1, <1>2, <1>3, ReleaseFacts DEF TypeOK, Publications

------------------------------------------------------------------------------
(* Type correctness.                                                       *)

LEMMA InitTypes == Init => TypeOK
<1> SUFFICES ASSUME Init PROVE TypeOK
  OBVIOUS
<1>1. remote \in Index /\ next \in Index
  BY NoFilesIsIndex DEF Init
<1>2. release \in 0..LastRelease
  BY ReleaseFacts DEF Init
<1>3. uploading \in BOOLEAN /\ toPut \subseteq (IF uploading THEN Rest ELSE {})
  BY DEF Init
<1> QED
  BY <1>1, <1>2, <1>3 DEF Init, TypeOK

LEMMA PublisherTypes ==
  ASSUME TypeOK,
         StartPublication \/ (\E p \in Paths : PutObject(p)) \/ FinishPublication
  PROVE  TypeOK'
<1>1. CASE StartPublication
  <2>1. release' \in Publications
    BY <1>1, ReleaseFacts DEF StartPublication, TypeOK, Publications
  <2>2. remote' \in Index
    BY <1>1, <2>1, ReleaseFacts DEF StartPublication, TypeOK, Index, FileState
  <2> QED
    BY <1>1, <2>1, <2>2, ReleaseFacts DEF StartPublication, TypeOK, Publications
<1>2. ASSUME NEW p \in Paths, PutObject(p) PROVE TypeOK'
  <2>1. Release(release)[p] \in FileState
    BY ReleaseType DEF TypeOK, Index
  <2>2. remote' \in Index
    BY <1>2, <2>1 DEF PutObject, TypeOK, Index
  <2> QED
    BY <1>2, <2>2 DEF PutObject, TypeOK
<1>3. CASE FinishPublication
  <2>1. Release(release)[Barrier] \in FileState
    BY ReleaseType, ReleaseFacts DEF TypeOK, Index
  <2>2. remote' \in Index
    BY <1>3, <2>1 DEF FinishPublication, TypeOK, Index
  <2> QED
    BY <1>3, <2>2 DEF FinishPublication, TypeOK
<1> QED
  BY <1>1, <1>2, <1>3

LEMMA RefreshTypes ==
  ASSUME TypeOK, RefreshStep \/ StorageError \/ Restart
  PROVE  TypeOK'
<1>1. CASE StartRefresh
  BY <1>1, NoFilesIsIndex DEF StartRefresh, pubVars, TypeOK
<1>2. ASSUME NEW p \in Paths, ListObject(p) PROVE TypeOK'
  <2>1. next' \in Index
    BY <1>2 DEF ListObject, TypeOK, Index
  <2> QED
    BY <1>2, <2>1 DEF ListObject, pubVars, TypeOK
<1>3. ASSUME NEW p \in Paths, DownloadObject(p) PROVE TypeOK'
  BY <1>3 DEF DownloadObject, pubVars, TypeOK
<1>4. CASE DiffListing
  <2>1. ChangedPaths(Diff(index, next)) \subseteq Paths
    BY DEF ChangedPaths, Diff, Known
  <2> QED
    BY <1>4, <2>1 DEF DiffListing, pubVars, TypeOK
<1>5. CASE DownloadDiffers \/ Reject \/ StorageError
  BY <1>5 DEF DownloadDiffers, Reject, StorageError, GiveUp, pubVars, TypeOK
<1>6. CASE Activate
  BY <1>6 DEF Activate, pubVars, TypeOK
<1>7. CASE Restart
  BY <1>7 DEF Restart, pubVars, TypeOK
<1> QED
  BY <1>1, <1>2, <1>3, <1>4, <1>5, <1>6, <1>7 DEF RefreshStep

LEMMA NextTypes == TypeOK /\ [Next]_vars => TypeOK'
<1> SUFFICES ASSUME TypeOK, [Next]_vars PROVE TypeOK'
  OBVIOUS
<1>1. CASE UNCHANGED vars
  BY <1>1 DEF vars, TypeOK
<1> QED
  BY <1>1, PublisherTypes, RefreshTypes DEF Next

(* Every variable of the publication keeps its shape.                      *)
THEOREM PublicationTypes == Spec => []TypeOK
BY InitTypes, NextTypes, PTL DEF Spec
------------------------------------------------------------------------------
(* The steps of the refresh leave the storage alone, those of the          *)
(* publisher the refresh.                                                  *)

refreshVars == <<step, listed, next, todo, index>>

Publish == StartPublication \/ (\E p \in Paths : PutObject(p)) \/ FinishPublication
Refresh == RefreshStep \/ StorageError \/ Restart

LEMMA NextIs == Next <=> Publish \/ Refresh
BY DEF Next, Publish, Refresh

LEMMA PublishKeeps == Publish => UNCHANGED refreshVars
BY DEF Publish, refreshVars, StartPublication, PutObject, FinishPublication

LEMMA RefreshKeeps == Refresh => UNCHANGED pubVars
BY DEF Refresh, RefreshStep, StartRefresh, ListObject, DownloadObject, DiffListing,
       DownloadDiffers, Activate, Reject, StorageError, Restart, GiveUp, pubVars

(* The steps of a refresh that are not about one object of the listing.    *)
LEMMA OtherRefreshSteps ==
  ASSUME Refresh, ~StartRefresh, \A p \in Paths : ~ListObject(p)
  PROVE  UNCHANGED <<listed, next>>
BY DEF Refresh, RefreshStep, DownloadObject, DiffListing, DownloadDiffers, Activate,
       Reject, StorageError, Restart, GiveUp

------------------------------------------------------------------------------
(* The invariant, part by part.                                            *)

LEMMA KeepsRemoteIsRelease ==
  ASSUME TypeOK, RemoteIsRelease, [Next]_vars
  PROVE  RemoteIsRelease'
<1>1. CASE StartPublication
  <2>1. release' \in Publications
    BY <1>1, ReleaseFacts DEF StartPublication, TypeOK, Publications
  <2>2. remote'[Barrier] = Drafts[release']
    BY <1>1, ReleaseFacts DEF StartPublication, TypeOK, Index
  <2>3. ASSUME NEW p \in Rest \ toPut' PROVE remote'[p] = Release(release')[p]
    BY <1>1, <2>3 DEF StartPublication, TypeOK, Index, Rest
  <2> QED
    BY <1>1, <2>1, <2>2, <2>3 DEF StartPublication, RemoteIsRelease
<1>2. ASSUME NEW p \in Paths, PutObject(p) PROVE RemoteIsRelease'
  <2>1. uploading /\ p \in Rest
    BY <1>2 DEF PutObject, TypeOK
  <2>2. uploading' = uploading /\ release' = release
    BY <1>2 DEF PutObject
  <2>3. remote'[Barrier] = remote[Barrier]
    BY <1>2, <2>1, ReleaseFacts DEF PutObject, Rest, TypeOK, Index
  <2>4. ASSUME NEW q \in Rest \ toPut' PROVE remote'[q] = Release(release)[q]
    BY <1>2, <2>1, <2>4 DEF PutObject, RemoteIsRelease, Rest, TypeOK, Index
  <2> QED
    BY <2>1, <2>2, <2>3, <2>4 DEF RemoteIsRelease
<1>3. CASE FinishPublication
  <2>1. release' = release /\ release \in Publications /\ ~uploading'
    BY <1>3 DEF FinishPublication, RemoteIsRelease
  <2>2. Release(release) \in Index
    BY ReleaseType DEF TypeOK
  <2>3. ASSUME NEW p \in Paths PROVE remote'[p] = Release(release)[p]
    BY <1>3, <2>3 DEF FinishPublication, RemoteIsRelease, Rest, TypeOK, Index
  <2>4. remote' \in Index
    BY NextTypes DEF TypeOK
  <2>5. remote' = Release(release)
    BY <2>2, <2>3, <2>4 DEF Index
  <2> QED
    BY <2>1, <2>5 DEF RemoteIsRelease
<1>4. CASE Refresh \/ UNCHANGED vars
  BY <1>4, RefreshKeeps DEF pubVars, vars, RemoteIsRelease
<1> QED
  BY <1>1, <1>2, <1>3, <1>4, NextIs DEF Publish

LEMMA KeepsListedInOrder ==
  ASSUME TypeOK, BarrierFirst, ListedInOrder, [Next]_vars
  PROVE  ListedInOrder'
<1>1. CASE StartRefresh
  BY <1>1 DEF StartRefresh, ListedInOrder
<1>2. ASSUME NEW p \in Paths, ListObject(p) PROVE ListedInOrder'
  <2>1. Barrier \in listed'
    BY <1>2, ReleaseFacts DEF ListObject, BarrierFirst, Rest
  <2> QED
    BY <1>2, <2>1 DEF ListObject, ListedInOrder
<1>3. CASE Refresh /\ ~StartRefresh /\ \A p \in Paths : ~ListObject(p)
  <2>1. listed' = listed
    BY <1>3, OtherRefreshSteps
  <2>2. step' = "download" => listed = Paths
    BY <1>3 DEF Refresh, RefreshStep, DownloadObject, DiffListing, DownloadDiffers,
                Activate, Reject, StorageError, Restart, GiveUp, ListedInOrder
  <2> QED
    BY <2>1, <2>2 DEF ListedInOrder
<1>4. CASE Publish \/ UNCHANGED vars
  BY <1>4, PublishKeeps DEF refreshVars, vars, ListedInOrder
<1> QED
  BY <1>1, <1>2, <1>3, <1>4, NextIs

LEMMA KeepsBarrierWasOut ==
  ASSUME TypeOK, RemoteIsRelease, BarrierWasOut, [Next]_vars
  PROVE  BarrierWasOut'
<1>1. CASE StartRefresh
  BY <1>1 DEF StartRefresh, BarrierWasOut
<1>2. ASSUME NEW p \in Paths, ListObject(p) PROVE BarrierWasOut'
  <2>1. UNCHANGED pubVars
    BY <1>2 DEF ListObject
  <2>2. CASE p # Barrier
    <3>1. next'[Barrier] = next[Barrier] /\ (Barrier \in listed' <=> Barrier \in listed)
      BY <1>2, <2>2, ReleaseFacts DEF ListObject, TypeOK, Index
    <3> QED
      BY <2>1, <3>1 DEF BarrierWasOut, pubVars
  <2>3. CASE p = Barrier
    <3>1. next'[Barrier] = remote[Barrier]
      BY <1>2, <2>3 DEF ListObject, TypeOK, Index
    <3>2. CASE uploading
      <4>1. release \in Publications /\ next'[Barrier] = Drafts[release]
        BY <3>1, <3>2 DEF RemoteIsRelease
      <4> QED
        BY <4>1 DEF BarrierWasOut
    <3>3. CASE ~uploading /\ release = 0
      <4>1. next'[Barrier] = Absent
        BY <3>1, <3>3, NoFilesIsIndex, ReleaseFacts DEF RemoteIsRelease, NoFiles
      <4> QED
        BY <4>1 DEF BarrierWasOut
    <3>4. CASE ~uploading /\ release # 0
      <4>1. release \in Publications /\ release \in 1..release
        BY <3>4, ReleaseFacts DEF TypeOK, Publications
      <4>2. next'[Barrier] = Releases[release][Barrier]
        BY <3>1, <3>4, <4>1, ReleaseFacts DEF RemoteIsRelease
      <4> QED
        BY <2>1, <3>4, <4>1, <4>2 DEF BarrierWasOut, pubVars
    <3> QED
      BY <3>2, <3>3, <3>4
  <2> QED
    BY <2>2, <2>3
<1>3. CASE Refresh /\ ~StartRefresh /\ \A p \in Paths : ~ListObject(p)
  BY <1>3, OtherRefreshSteps, RefreshKeeps DEF pubVars, BarrierWasOut
<1>4. CASE Publish
  <2>1. UNCHANGED <<listed, next>>
    BY <1>4, PublishKeeps DEF refreshVars
  <2>2. SUFFICES ASSUME NEW d \in 1..release, uploading => d < release
                 PROVE  d \in 1..release' /\ (uploading' => d < release')
    BY <2>1 DEF BarrierWasOut
  <2>3. CASE StartPublication
    BY <2>2, <2>3, ReleaseFacts DEF StartPublication, TypeOK
  <2>4. CASE FinishPublication \/ \E p \in Paths : PutObject(p)
    BY <2>2, <2>4 DEF FinishPublication, PutObject
  <2> QED
    BY <1>4, <2>3, <2>4 DEF Publish
<1>5. CASE UNCHANGED vars
  BY <1>5 DEF vars, BarrierWasOut
<1> QED
  BY <1>1, <1>2, <1>3, <1>4, <1>5, NextIs
LEMMA KeepsListedWhileOut ==
  ASSUME TypeOK, BarrierFirst, RemoteIsRelease, ListedInOrder, BarrierWasOut,
         ListedWhileOut, [Next]_vars
  PROVE  ListedWhileOut'
<1> SUFFICES ASSUME NEW d \in Publications, Barrier \in listed',
                    next'[Barrier] = Releases[d][Barrier], remote'[Barrier] = next'[Barrier],
                    NEW p \in listed'
             PROVE  next'[p] = Releases[d][p]
  BY DEF ListedWhileOut
<1>1. CASE StartRefresh
  BY <1>1 DEF StartRefresh
<1>2. ASSUME NEW q \in Paths, ListObject(q) PROVE next'[p] = Releases[d][p]
  <2>1. remote' = remote /\ remote = Releases[d]
    BY <1>2, BarrierOut DEF ListObject, pubVars
  <2>2. next'[q] = remote[q]
    BY <1>2 DEF ListObject, TypeOK, Index
  <2>3. CASE p = q
    BY <2>1, <2>2, <2>3
  <2>4. CASE p # q
    <3>1. p \in listed /\ q # Barrier /\ Barrier \in listed
      BY <1>2, <2>4 DEF ListObject, ListedInOrder
    <3>2. next'[p] = next[p] /\ next'[Barrier] = next[Barrier]
      BY <1>2, <2>4, <3>1, ReleaseFacts DEF ListObject, TypeOK, Index
    <3> QED
      BY <2>1, <3>1, <3>2 DEF ListedWhileOut
  <2> QED
    BY <2>3, <2>4
<1>3. CASE Refresh /\ ~StartRefresh /\ \A q \in Paths : ~ListObject(q)
  BY <1>3, OtherRefreshSteps, RefreshKeeps DEF pubVars, ListedWhileOut
<1>4. CASE Publish
  <2>1. UNCHANGED <<listed, next>>
    BY <1>4, PublishKeeps DEF refreshVars
  <2>2. TypeOK' /\ RemoteIsRelease'
    BY NextTypes, KeepsRemoteIsRelease
  <2>3. ~uploading' /\ release' = d
    BY <2>2, BarrierOutNext
  <2>4. ~StartPublication /\ \A q \in Paths : ~PutObject(q)
    BY <2>3 DEF StartPublication, PutObject, TypeOK
  <2>5. uploading /\ release = d
    BY <1>4, <2>3, <2>4 DEF Publish, FinishPublication
  <2>6. \A e \in 1..release : (uploading => e < release) => e # d /\ e \in Publications
    BY <2>5, ReleaseFacts DEF Publications
  <2>7. next[Barrier] # Absent
    BY <2>1, ReleaseFacts, ConstantsAssumption
  <2> QED
    BY <2>1, <2>6, <2>7, ReleaseFacts DEF BarrierWasOut
<1>5. CASE UNCHANGED vars
  BY <1>5 DEF vars, ListedWhileOut
<1> QED
  BY <1>1, <1>2, <1>3, <1>4, <1>5, NextIs

LEMMA KeepsDownloadedBarrier ==
  ASSUME TypeOK, ListedInOrder, ListedWhileOut, DownloadedBarrierIsOfListing, [Next]_vars
  PROVE  DownloadedBarrierIsOfListing'
<1> SUFFICES ASSUME step' = "download",
                    Barrier \in ChangedPaths(Diff(index', next')) \ todo',
                    NEW d \in Publications, next'[Barrier] = Releases[d][Barrier]
             PROVE  next' = Releases[d]
  BY DEF DownloadedBarrierIsOfListing
<1>1. ASSUME NEW q \in Paths, DownloadObject(q) PROVE next' = Releases[d]
  <2>1. step = "download" /\ next' = next /\ index' = index /\ todo' = todo \ {q}
    BY <1>1 DEF DownloadObject
  <2>2. CASE q # Barrier
    BY <2>1, <2>2 DEF DownloadedBarrierIsOfListing
  <2>3. CASE q = Barrier
    <3>1. remote[Barrier] = next[Barrier] /\ listed = Paths
      BY <1>1, <2>1, <2>3 DEF DownloadObject, ValidDownload, SameObject, ListedInOrder
    <3>2. \A p \in Paths : next[p] = Releases[d][p]
      BY <2>1, <3>1, ReleaseFacts DEF ListedWhileOut
    <3> QED
      BY <2>1, <3>2, ReleaseFacts DEF TypeOK, Index
  <2> QED
    BY <2>2, <2>3
<1>2. CASE UNCHANGED refreshVars
  BY <1>2 DEF refreshVars, DownloadedBarrierIsOfListing
<1>3. CASE Refresh /\ \A q \in Paths : ~DownloadObject(q)
  BY <1>3 DEF Refresh, RefreshStep, StartRefresh, ListObject, DiffListing, DownloadDiffers,
              Activate, Reject, StorageError, Restart, GiveUp, TypeOK
<1> QED
  BY <1>1, <1>2, <1>3, NextIs, PublishKeeps DEF vars, refreshVars

(* An update the barrier accepts changed nothing, or changed the barrier.  *)
LEMMA AcceptedBarrier ==
  ASSUME NEW old \in Index \cup {NoIndex}, NEW new \in Index, BarrierAccepts(old, new)
  PROVE  \/ old = NoIndex /\ new = NoFiles
         \/ old = new
         \/ new[Barrier] # Absent /\ Barrier \in ChangedPaths(Diff(old, new))
<1>1. Barrier \in Paths /\ Barrier # NoBarrier
  BY ReleaseFacts, ConstantsAssumption
<1>2. CASE HasChanges(Diff(old, new))
  <2>1. new[Barrier] # Absent
    BY <1>1, <1>2 DEF BarrierAccepts
  <2>2. CASE old # NoIndex /\ old[Barrier] # Absent
    BY <1>1, <1>2, <2>1, <2>2 DEF BarrierAccepts
  <2>3. CASE old = NoIndex \/ old[Barrier] = Absent
    BY <1>1, <2>1, <2>3 DEF ChangedPaths, Diff, Known
  <2> QED
    BY <2>1, <2>2, <2>3
<1>3. CASE ~HasChanges(Diff(old, new)) /\ old = NoIndex
  <2>1. \A p \in Paths : new[p] = NoFiles[p]
    BY <1>3 DEF HasChanges, ChangedPaths, Diff, Known, NoFiles
  <2> QED
    BY <1>3, <2>1, NoFilesIsIndex DEF Index
<1>4. CASE ~HasChanges(Diff(old, new)) /\ old # NoIndex
  <2>1. \A p \in Paths : new[p] = old[p]
    BY <1>4 DEF HasChanges, ChangedPaths, Diff, Known
  <2> QED
    BY <1>4, <2>1 DEF Index
<1> QED
  BY <1>2, <1>3, <1>4

(* A draft of the barrier is a configuration that does not parse.          *)
LEMMA DraftIsRejected ==
  ASSUME NEW files \in Index, NEW d \in Publications, files[Barrier] = Drafts[d]
  PROVE  EdgeConfig(files) \in BadConfigs
<1> DEFINE present == {i \in DOMAIN EdgeConfigPaths : files[EdgeConfigPaths[i]] # Absent}
<1>1. DOMAIN EdgeConfigPaths = 1..Len(EdgeConfigPaths) /\ Len(EdgeConfigPaths) \in Nat
  BY ConstantsAssumption
<1>2. 1 \in present
  BY <1>1, ReleaseFacts, BarrierIsTheConfig, ConstantsAssumption
<1>3. \A i \in present : 1 <= i
  BY <1>1
<1>4. \A i \in present : (\A j \in present : i <= j) => i = 1
  BY <1>1, <1>2
<1>5. (CHOOSE i \in present : \A j \in present : i <= j) = 1
  BY <1>2, <1>3, <1>4
<1>6. EdgeConfig(files) = files[Barrier]
  BY <1>2, <1>5, BarrierIsTheConfig DEF EdgeConfig
<1> QED
  BY <1>6, BarrierIsTheConfig DEF Publications

LEMMA KeepsNoMixedGeneration ==
  ASSUME PublicationInv, [Next]_vars
  PROVE  NoMixedGeneration'
<1> USE DEF PublicationInv
<1>1. CASE Activate
  <2>1. index' = next /\ step = "download" /\ todo = {} /\ Accepted
    BY <1>1 DEF Activate
  <2>2. Barrier \in listed /\ next \in Index /\ index \in Index \cup {NoIndex}
    BY <2>1, ReleaseFacts DEF ListedInOrder, TypeOK
  <2>3. CASE index = NoIndex /\ next = NoFiles
    BY <2>1, <2>3, NoFilesIsIndex, ReleaseFacts DEF NoMixedGeneration
  <2>4. CASE index = next
    BY <2>1, <2>2, <2>4 DEF NoMixedGeneration
  <2>5. CASE next[Barrier] # Absent /\ Barrier \in ChangedPaths(Diff(index, next))
    <3>1. \A d \in Publications : next[Barrier] # Drafts[d]
      BY <2>1, <2>2, DraftIsRejected DEF Accepted
    <3>2. PICK d \in 1..release : next[Barrier] = Releases[d][Barrier]
      BY <2>2, <2>5, <3>1 DEF BarrierWasOut
    <3>3. d \in Publications
      BY ReleaseFacts DEF TypeOK, Publications
    <3>4. next = Release(d)
      BY <2>1, <2>5, <3>2, <3>3, ReleaseFacts DEF DownloadedBarrierIsOfListing
    <3>5. d \in 0..LastRelease
      BY <3>3, ReleaseFacts DEF Publications
    <3> QED
      BY <2>1, <3>4, <3>5 DEF NoMixedGeneration
  <2> QED
    BY <2>1, <2>2, <2>3, <2>4, <2>5, AcceptedBarrier DEF Accepted
<1>2. CASE Restart
  BY <1>2 DEF Restart, NoMixedGeneration
<1>3. CASE Refresh /\ ~Activate /\ ~Restart
  <2>1. index' = index
    BY <1>3 DEF Refresh, RefreshStep, StartRefresh, ListObject, DownloadObject, DiffListing,
                DownloadDiffers, Reject, StorageError, GiveUp
  <2> QED
    BY <2>1 DEF NoMixedGeneration
<1>4. CASE Publish \/ UNCHANGED vars
  BY <1>4, PublishKeeps DEF refreshVars, vars, NoMixedGeneration
<1> QED
  BY <1>1, <1>2, <1>3, <1>4, NextIs

------------------------------------------------------------------------------
LEMMA InitPublicationInv == Init => PublicationInv
<1> SUFFICES ASSUME Init PROVE PublicationInv
  OBVIOUS
<1>1. TypeOK
  BY InitTypes
<1>2. RemoteIsRelease
  BY NoFilesIsIndex DEF Init, RemoteIsRelease
<1> QED
  BY <1>1, <1>2
  DEF Init, PublicationInv, ListedInOrder, BarrierWasOut, ListedWhileOut,
      DownloadedBarrierIsOfListing, NoMixedGeneration

LEMMA NextPublicationInv ==
  ASSUME BarrierFirst PROVE PublicationInv /\ [Next]_vars => PublicationInv'
BY NextTypes, KeepsRemoteIsRelease, KeepsListedInOrder, KeepsBarrierWasOut,
   KeepsListedWhileOut, KeepsDownloadedBarrier, KeepsNoMixedGeneration
DEF PublicationInv

(* README.md on activation_barrier_path: a publication that overlaps a      *)
(* refresh is rejected instead of activating a mixed generation, provided   *)
(* that the storage lists the barrier before everything else.               *)
THEOREM WholePublications ==
  ASSUME BarrierFirst PROVE Spec => []NoMixedGeneration
<1>1. PublicationInv => NoMixedGeneration
  BY DEF PublicationInv
<1> QED
  BY <1>1, InitPublicationInv, NextPublicationInv, PTL DEF Spec
------------------------------------------------------------------------------
(* Refinement: what a refresh activates was in the storage at the moment   *)
(* the barrier was listed.                                                 *)

(* Every release has a barrier of its own, and the empty origin has none.  *)
LEMMA BarriersDiffer ==
  \A d, e \in 0..LastRelease : Release(d)[Barrier] = Release(e)[Barrier] => d = e
<1>1. Release(0)[Barrier] = Absent
  BY NoFilesIsIndex, ReleaseFacts DEF NoFiles
<1>2. \A d \in 0..LastRelease : d # 0 =>
        d \in Publications /\ Release(d)[Barrier] # Absent
        /\ Release(d)[Barrier] = Releases[d][Barrier]
  BY ReleaseFacts, ConstantsAssumption DEF Publications
<1> QED
  BY <1>1, <1>2, ReleaseFacts

LEMMA NumberOfRelease ==
  ASSUME NEW d \in 0..LastRelease
  PROVE  ReleaseOf(Release(d)) = d
<1>1. \A e \in 0..LastRelease : Release(d) = Release(e) => e = d
  BY BarriersDiffer
<1>2. (CHOOSE e \in 0..LastRelease : Release(d) = Release(e)) = d
  BY <1>1
<1> QED
  BY <1>2 DEF ReleaseOf

LEMMA ReadOfBarrier ==
  ASSUME NEW d \in 0..LastRelease, step # "idle", Barrier \in listed,
         next[Barrier] = Release(d)[Barrier]
  PROVE  releaseRead = {d}
BY BarriersDiffer DEF releaseRead

(* The barrier in the storage is that of the last release, or a draft.     *)
LEMMA BarrierInStorage ==
  ASSUME TypeOK, RemoteIsRelease, NEW d \in 0..LastRelease
  PROVE  remote[Barrier] = Release(d)[Barrier] <=> ~uploading /\ d = release
<1>1. CASE uploading
  <2>1. remote[Barrier] = Drafts[release] /\ release \in Publications
    BY <1>1 DEF RemoteIsRelease
  <2>2. CASE d = 0
    <3>1. Release(d)[Barrier] = Absent
      BY <2>2, NoFilesIsIndex, ReleaseFacts DEF NoFiles
    <3> QED
      BY <1>1, <2>1, <3>1, ReleaseFacts, ConstantsAssumption
  <2>3. CASE d # 0
    <3>1. d \in Publications
      BY <2>3, ReleaseFacts DEF Publications
    <3> QED
      BY <1>1, <2>1, <3>1, ReleaseFacts
  <2> QED
    BY <2>2, <2>3
<1>2. CASE ~uploading
  <2>1. remote = Release(release) /\ release \in 0..LastRelease
    BY <1>2 DEF RemoteIsRelease, TypeOK
  <2> QED
    BY <1>2, <2>1, BarriersDiffer
<1> QED
  BY <1>1, <1>2

LEMMA ListingReads ==
  ASSUME PublicationInv, NEW p \in Paths, ListObject(p)
  PROVE  Whole!Read \/ UNCHANGED Whole!vars
<1>1. /\ step = "list" /\ step' = step /\ p \notin listed /\ listed' = listed \cup {p}
      /\ UNCHANGED pubVars /\ index' = index /\ next' = [next EXCEPT ![p] = remote[p]]
      /\ next \in Index /\ TypeOK /\ RemoteIsRelease
  BY DEF ListObject, PublicationInv, TypeOK
<1>2. UNCHANGED <<release, uploading, releaseActive>>
  BY <1>1 DEF pubVars, releaseActive
<1>3. CASE p # Barrier
  <2>1. next'[Barrier] = next[Barrier] /\ (Barrier \in listed' <=> Barrier \in listed)
    BY <1>1, <1>3, ReleaseFacts DEF Index
  <2>2. releaseRead' = releaseRead
    BY <1>1, <2>1 DEF releaseRead
  <2> QED
    BY <1>2, <2>2 DEF Whole!vars
<1>4. CASE p = Barrier
  <2>1. next'[Barrier] = remote[Barrier] /\ Barrier \in listed'
    BY <1>1, <1>4, ReleaseFacts DEF Index
  <2>2. releaseRead = {}
    BY <1>1, <1>4 DEF releaseRead
  <2>3. releaseRead' = {d \in 0..LastRelease : ~uploading /\ d = release}
    <3>1. releaseRead' = {d \in 0..LastRelease : remote[Barrier] = Release(d)[Barrier]}
      BY <1>1, <2>1 DEF releaseRead
    <3> QED
      BY <1>1, <3>1, BarrierInStorage
  <2>4. release \in 0..LastRelease
    BY <1>1 DEF TypeOK
  <2>5. CASE uploading
    BY <1>2, <2>2, <2>3, <2>5 DEF Whole!vars
  <2>6. CASE ~uploading
    <3>1. releaseRead' = {release}
      BY <2>3, <2>4, <2>6
    <3> QED
      BY <1>2, <2>2, <2>6, <3>1 DEF Whole!Read
  <2> QED
    BY <2>5, <2>6
<1> QED
  BY <1>3, <1>4

(* What is activated is the release whose barrier was listed.              *)
LEMMA ActivationIsOfRead ==
  ASSUME BarrierFirst, PublicationInv, Activate
  PROVE  Whole!Activate
<1>1. /\ step = "download" /\ step' = "idle" /\ index' = next
      /\ Barrier \in listed /\ UNCHANGED pubVars /\ next \in Index
  BY ReleaseFacts DEF Activate, PublicationInv, ListedInOrder, TypeOK
<1>2. index' # NoIndex
  BY <1>1, NoIndexAssumption
<1>3. NoMixedGeneration'
  BY KeepsNoMixedGeneration, NextIs DEF Refresh, RefreshStep
<1>4. PICK d \in 0..LastRelease : next = Release(d)
  BY <1>1, <1>2, <1>3 DEF NoMixedGeneration
<1>5. releaseRead = {d}
  BY <1>1, <1>4, ReadOfBarrier
<1>6. releaseActive' = {d}
  BY <1>1, <1>2, <1>4, NumberOfRelease DEF releaseActive
<1>7. releaseRead' = {}
  BY <1>1 DEF releaseRead
<1> QED
  BY <1>1, <1>5, <1>6, <1>7 DEF Whole!Activate, pubVars

LEMMA StepIsWhole ==
  ASSUME BarrierFirst, PublicationInv, [Next]_vars
  PROVE  [Whole!Next]_(Whole!vars)
<1>1. CASE StartPublication
  <2>1. release' = release + 1 /\ uploading' = TRUE /\ UNCHANGED <<step, listed, next, index>>
    BY <1>1 DEF StartPublication
  <2>2. Whole!Publish
    BY <2>1 DEF Whole!Publish, releaseRead, releaseActive
  <2> QED
    BY <2>2 DEF Whole!Next
<1>2. CASE FinishPublication
  <2>1. uploading' = FALSE /\ UNCHANGED <<release, step, listed, next, index>>
    BY <1>2 DEF FinishPublication
  <2>2. Whole!Complete
    BY <2>1 DEF Whole!Complete, releaseRead, releaseActive
  <2> QED
    BY <2>2 DEF Whole!Next
<1>3. ASSUME NEW p \in Paths, PutObject(p) PROVE UNCHANGED Whole!vars
  BY <1>3 DEF PutObject, Whole!vars, releaseRead, releaseActive
<1>4. ASSUME NEW p \in Paths, ListObject(p) PROVE [Whole!Next]_(Whole!vars)
  BY <1>4, ListingReads DEF Whole!Next
<1>5. CASE StartRefresh
  BY <1>5 DEF StartRefresh, pubVars, Whole!vars, releaseRead, releaseActive
<1>6. CASE DiffListing \/ \E p \in Paths : DownloadObject(p)
  <2>1. step # "idle" /\ step' # "idle" /\ UNCHANGED <<release, uploading, listed, next, index>>
    BY <1>6 DEF DiffListing, DownloadObject, pubVars
  <2> QED
    BY <2>1 DEF Whole!vars, releaseRead, releaseActive
<1>7. CASE DownloadDiffers \/ Reject \/ StorageError
  <2>1. step' = "idle" /\ UNCHANGED <<release, uploading, index>>
    BY <1>7 DEF DownloadDiffers, Reject, StorageError, GiveUp, pubVars
  <2>2. Whole!GiveUp
    BY <2>1 DEF Whole!GiveUp, releaseRead, releaseActive
  <2> QED
    BY <2>2 DEF Whole!Next
<1>8. CASE Activate
  BY <1>8, ActivationIsOfRead DEF Whole!Next
<1>9. CASE Restart
  <2>1. step' = "idle" /\ index' = NoIndex /\ UNCHANGED <<release, uploading>>
    BY <1>9 DEF Restart, pubVars
  <2>2. Whole!Restart
    BY <2>1 DEF Whole!Restart, releaseRead, releaseActive
  <2> QED
    BY <2>2 DEF Whole!Next
<1>10. CASE UNCHANGED vars
  BY <1>10 DEF vars, Whole!vars, releaseRead, releaseActive
<1> QED
  BY <1>1, <1>2, <1>3, <1>4, <1>5, <1>6, <1>7, <1>8, <1>9, <1>10 DEF Next, RefreshStep

(* "A publication that overlaps a refresh is rejected instead of activating *)
(* a mixed generation": in whatever way listings, downloads and uploads     *)
(* interleave, a refresh that activates has read the storage at one moment  *)
(* at which a publication was complete (stage_origin_dir, get_object's      *)
(* validation, validate_activation_barrier).                                *)
THEOREM RefreshesReadWholeReleases ==
  ASSUME BarrierFirst PROVE Spec => ImplementsWholeReleases
<1>1. Init => Whole!Init
  BY DEF Init, Whole!Init, releaseRead, releaseActive
<1> QED
  BY <1>1, InitPublicationInv, NextPublicationInv, StepIsWhole, PTL
  DEF Spec, ImplementsWholeReleases, Whole!Spec

------------------------------------------------------------------------------
(* Releases read and activated come in the order of publication.           *)
ReadInOrder ==
  /\ \A r \in releaseRead : r <= release
  /\ \A a \in releaseActive : a <= release /\ \A r \in releaseRead : a <= r

(* Nothing older than release d is left to be activated.                   *)
NothingOlderThan(d) ==
  /\ d <= release
  /\ \A r \in releaseRead \cup releaseActive : d <= r

OrderInv == PublicationInv /\ ReadInOrder

LEMMA NumbersAreNatural ==
  ASSUME TypeOK
  PROVE  release \in Nat /\ releaseRead \subseteq Nat /\ releaseActive \subseteq Nat
<1>1. ReleaseOf(index) \in Nat
  BY ReleaseFacts DEF ReleaseOf
<1> QED
  BY <1>1, ReleaseFacts DEF TypeOK, releaseRead, releaseActive

LEMMA NextReadInOrder ==
  ASSUME BarrierFirst, OrderInv, [Next]_vars
  PROVE  ReadInOrder'
<1>1. [Whole!Next]_(Whole!vars)
  BY StepIsWhole DEF OrderInv
<1>2. release \in Nat /\ releaseRead \subseteq Nat /\ releaseActive \subseteq Nat
  BY NumbersAreNatural DEF OrderInv, PublicationInv
<1>3. ReadInOrder
  BY DEF OrderInv
<1>4. CASE Whole!Publish
  BY <1>2, <1>4, <1>3 DEF Whole!Publish, ReadInOrder
<1>5. CASE Whole!Read
  BY <1>2, <1>5, <1>3 DEF Whole!Read, ReadInOrder
<1>6. CASE Whole!Activate
  BY <1>2, <1>6, <1>3 DEF Whole!Activate, ReadInOrder
<1>7. CASE Whole!Complete \/ Whole!GiveUp \/ Whole!Restart \/ UNCHANGED Whole!vars
  <2>1. /\ release' = release
        /\ releaseRead' \in {{}, releaseRead} /\ releaseActive' \in {{}, releaseActive}
    BY <1>7 DEF Whole!Complete, Whole!GiveUp, Whole!Restart, Whole!vars
  <2> QED
    BY <2>1, <1>3 DEF ReadInOrder
<1> QED
  BY <1>1, <1>4, <1>5, <1>6, <1>7 DEF Whole!Next

LEMMA NextNothingOlder ==
  ASSUME BarrierFirst, OrderInv, [Next]_vars, NEW d \in Nat, NothingOlderThan(d)
  PROVE  NothingOlderThan(d)'
<1>1. [Whole!Next]_(Whole!vars)
  BY StepIsWhole DEF OrderInv
<1>2. release \in Nat /\ releaseRead \subseteq Nat /\ releaseActive \subseteq Nat
  BY NumbersAreNatural DEF OrderInv, PublicationInv
<1>4. CASE Whole!Publish
  BY <1>2, <1>4 DEF Whole!Publish, NothingOlderThan
<1>5. CASE Whole!Read
  BY <1>2, <1>5 DEF Whole!Read, NothingOlderThan
<1>6. CASE Whole!Activate
  BY <1>2, <1>6 DEF Whole!Activate, NothingOlderThan
<1>7. CASE Whole!Complete \/ Whole!GiveUp \/ Whole!Restart \/ UNCHANGED Whole!vars
  <2>1. /\ release' = release
        /\ releaseRead' \in {{}, releaseRead} /\ releaseActive' \in {{}, releaseActive}
    BY <1>7 DEF Whole!Complete, Whole!GiveUp, Whole!Restart, Whole!vars
  <2> QED
    BY <2>1 DEF NothingOlderThan
<1> QED
  BY <1>1, <1>4, <1>5, <1>6, <1>7 DEF Whole!Next

(* An origin never goes back to an older publication, whatever is rejected, *)
(* fails or restarts in between: what a refresh activates later was read    *)
(* later (refresh_origin_snapshot).                                         *)
THEOREM PublicationsNeverGoBack ==
  ASSUME BarrierFirst, NEW d \in 0..LastRelease
  PROVE  Spec => [](index = Release(d) =>
                      [](index # NoIndex => \E e \in d..LastRelease : index = Release(e)))
<1> DEFINE Newer == index # NoIndex => \E e \in d..LastRelease : index = Release(e)
<1>1. Init => OrderInv
  <2>1. Init => ReadInOrder
    BY DEF Init, ReadInOrder, releaseRead, releaseActive
  <2> QED
    BY <2>1, InitPublicationInv DEF OrderInv
<1>2. OrderInv /\ [Next]_vars => OrderInv'
  BY NextPublicationInv, NextReadInOrder DEF OrderInv
<1>3. d \in Nat
  BY ReleaseFacts
<1>4. OrderInv /\ index = Release(d) => NothingOlderThan(d)
  <2> SUFFICES ASSUME OrderInv, index = Release(d) PROVE NothingOlderThan(d)
    OBVIOUS
  <2>1. index # NoIndex
    BY ReleaseType, NoIndexAssumption
  <2>2. releaseActive = {d}
    BY <2>1, NumberOfRelease DEF releaseActive
  <2> QED
    BY <1>3, <2>2 DEF OrderInv, ReadInOrder, NothingOlderThan
<1>5. OrderInv /\ NothingOlderThan(d) /\ [Next]_vars => NothingOlderThan(d)'
  BY <1>3, NextNothingOlder
<1>6. OrderInv /\ NothingOlderThan(d) => Newer
  <2> SUFFICES ASSUME OrderInv, NothingOlderThan(d), index # NoIndex
               PROVE  \E e \in d..LastRelease : index = Release(e)
    OBVIOUS
  <2>1. PICK e \in 0..LastRelease : index = Release(e)
    BY DEF OrderInv, PublicationInv, NoMixedGeneration
  <2>2. e \in releaseActive
    BY <2>1, NumberOfRelease DEF releaseActive
  <2> QED
    BY <1>3, <2>1, <2>2, ReleaseFacts DEF NothingOlderThan
<1> HIDE DEF Newer
<1>7. Spec => [](index = Release(d) => []Newer)
  BY <1>1, <1>2, <1>4, <1>5, <1>6, PTL DEF Spec
<1> QED
  BY <1>7 DEF Newer
=============================================================================
