-------------------------- MODULE MirrorLayout_proofs --------------------------
(***************************************************************************)
(* Theorems about the mirror's directories, for any keys, any of which may *)
(* be a directory or another spelling of others, and any sequence of       *)
(* listings.                                                               *)
(***************************************************************************)
EXTENDS MirrorLayout, TLAPS

(* What a tree holds of a listing: the sidecars, and the files of keys     *)
(* that have one of their own, of everything that is not still to be       *)
(* written, as it is listed.                                               *)
Staged(tree, files, missing) ==
  \A p \in Paths : files[p] # Absent /\ p \notin missing =>
    tree.sidecars[p] = files[p] /\ (HasItsFile(p) => tree.files[p] = files[p])

(* A tree that holds a listing and nothing else.                           *)
Holds(tree, files) ==
  /\ tree.sidecars = files
  /\ \A p \in Paths :
       /\ files[p] = Absent => tree.files[p] = Absent
       /\ HasItsFile(p) => tree.files[p] = files[p]

(* From the copy of the mirror to the tree that is swapped in.             *)
StagingInv ==
  /\ step = "list" => staging = CopyOf(mirror)
  /\ step = "write" => \A p \in todo : next[p] # Absent
  /\ ~torn =>
       /\ step = "write" => Staged(staging, next, todo)
       /\ step = "swap" => Holds(staging, next)

LayoutInv ==
  /\ TypeOK
  /\ DirectoriesAreTrees
  /\ StagingInv
  /\ index # NoIndex /\ ~torn => mirror # NoDir /\ Holds(mirror, index)

LEMMA EmptyIsTree == EmptyTree \in Tree /\ NoFiles \in Index /\ IsTree(EmptyTree)
<1>1. NoFiles \in Index /\ \A p \in Paths : NoFiles[p] = Absent
  BY DEF NoFiles, Index, FileState
<1> QED
  BY <1>1 DEF EmptyTree, Tree, IsTree

(* What a diff leaves out is listed as it was.                             *)
LEMMA ChangesSinceIndex ==
  ASSUME NEW old \in Index \cup {NoIndex}, NEW new \in Index
  PROVE  /\ ChangedPaths(Diff(old, new)) \subseteq Paths
         /\ \A p \in ChangedPaths(Diff(old, new)) : new[p] # Absent
         /\ \A p \in Paths : new[p] # Absent /\ p \notin ChangedPaths(Diff(old, new)) =>
              old # NoIndex /\ old[p] = new[p]
BY DEF ChangedPaths, Diff, Known, Index

(* Writing an object where there is nothing in its way keeps a tree a tree. *)
LEMMA WriteKeepsTree ==
  ASSUME NEW tree \in Tree, IsTree(tree), NEW p \in Paths, Writable(tree, p),
         NEW file \in FileState
  PROVE  Written(tree, p, file) \in Tree /\ IsTree(Written(tree, p, file))
<1> DEFINE d == OnDisk[p]
           files == [tree.files EXCEPT ![d] = file]
           dirs == tree.dirs \cup Ancestors(d)
           sidecars == [tree.sidecars EXCEPT ![p] = file]
<1>0. d \in Paths /\ d \notin tree.dirs /\ \A q \in Ancestors(d) : tree.files[q] = Absent
  BY LayoutAssumption DEF Writable
<1> HIDE DEF d
<1>1. files \in Index /\ dirs \subseteq Paths /\ sidecars \in Index
  BY <1>0 DEF Tree, Index, Ancestors
<1>2. files[d] = file /\ \A q \in Paths \ {d} : files[q] = tree.files[q]
  BY <1>0 DEF Tree, Index
<1>3. d \notin dirs
  BY <1>0, LayoutAssumption DEF Ancestors
<1>4. \A q \in Paths : q \in dirs => files[q] = Absent
  BY <1>0, <1>2, <1>3 DEF IsTree
<1>5. \A q \in Paths : files[q] # Absent => Ancestors(q) \subseteq dirs
  BY <1>2 DEF IsTree
<1> HIDE DEF files, dirs, sidecars
<1>6. /\ [files |-> files, dirs |-> dirs, sidecars |-> sidecars] \in Tree
      /\ IsTree([files |-> files, dirs |-> dirs, sidecars |-> sidecars])
  BY <1>1, <1>4, <1>5 DEF Tree, IsTree
<1> QED
  BY <1>6 DEF files, dirs, sidecars, Written, d

LEMMA LayoutInitInv == Init => LayoutInv
BY EmptyIsTree DEF Init, LayoutInv, TypeOK, DirectoriesAreTrees, StagingInv

(* Whatever leaves mirror and index alone and empties the staging directory *)
(* keeps the invariant.                                                    *)
LEMMA BackToIdle ==
  ASSUME LayoutInv, step' = "idle", staging' = EmptyTree, next' = NoFiles, todo' = {},
         mirror' \in Tree \cup {NoDir}, mirror' # NoDir => IsTree(mirror'),
         index' \in Index \cup {NoIndex}, torn' \in BOOLEAN,
         index' # NoIndex /\ ~torn' => mirror' # NoDir /\ Holds(mirror', index')
  PROVE  LayoutInv'
<1>1. TypeOK'
  BY EmptyIsTree DEF TypeOK
<1>2. DirectoriesAreTrees'
  BY EmptyIsTree DEF DirectoriesAreTrees, IsTree, Ancestors
<1>3. StagingInv'
  BY DEF StagingInv
<1> QED
  BY <1>1, <1>2, <1>3 DEF LayoutInv, Holds, HasItsFile

LEMMA StartInv ==
  ASSUME LayoutInv, Start
  PROVE  LayoutInv'
<1>1. CopyOf(mirror) \in Tree /\ IsTree(CopyOf(mirror))
  BY EmptyIsTree DEF CopyOf, LayoutInv, TypeOK, DirectoriesAreTrees
<1>2. /\ staging' = CopyOf(mirror) /\ step' = "list"
      /\ UNCHANGED <<mirror, index, next, todo, torn>>
  BY DEF Start
<1>3. TypeOK'
  BY <1>1, <1>2 DEF Start, LayoutInv, TypeOK
<1>4. DirectoriesAreTrees'
  BY <1>1, <1>2 DEF LayoutInv, DirectoriesAreTrees, IsTree, Ancestors
<1>5. StagingInv'
  BY <1>2 DEF StagingInv, CopyOf
<1> QED
  BY <1>2, <1>3, <1>4, <1>5 DEF LayoutInv, Holds, HasItsFile

LEMMA ListInv ==
  ASSUME LayoutInv, List
  PROVE  LayoutInv'
<1>1. /\ next' \in Index /\ todo' = ChangedPaths(Diff(index, next')) /\ step' = "write"
      /\ step = "list"
      /\ UNCHANGED <<mirror, index, staging, torn>>
  BY DEF List
<1>2. /\ todo' \subseteq Paths /\ \A p \in todo' : next'[p] # Absent
      /\ \A p \in Paths : next'[p] # Absent /\ p \notin todo' => index # NoIndex /\ index[p] = next'[p]
  BY <1>1, ChangesSinceIndex DEF LayoutInv, TypeOK
<1>3. index # NoIndex /\ ~torn => Holds(staging, index)
  BY <1>1 DEF LayoutInv, StagingInv, CopyOf
<1>4. ~torn => Staged(staging, next', todo')
  BY <1>2, <1>3 DEF Staged, Holds
<1>5. TypeOK'
  BY <1>1, <1>2 DEF LayoutInv, TypeOK
<1>6. DirectoriesAreTrees'
  BY <1>1 DEF LayoutInv, DirectoriesAreTrees, IsTree, Ancestors
<1>7. StagingInv'
  BY <1>1, <1>2, <1>4 DEF StagingInv, Staged, HasItsFile
<1> QED
  BY <1>1, <1>5, <1>6, <1>7 DEF LayoutInv, Holds, HasItsFile

LEMMA WriteObjectInv ==
  ASSUME LayoutInv, NEW p \in Paths, WriteObject(p)
  PROVE  LayoutInv'
<1>1. /\ step = "write" /\ p \in todo /\ Writable(staging, p)
      /\ todo' = todo \ {p}
      /\ UNCHANGED <<mirror, index, step, next, torn>>
      /\ staging' = Written(staging, p, next[p])
  BY DEF WriteObject
<1>2. staging \in Tree /\ IsTree(staging) /\ next \in Index /\ next[p] \in FileState
  BY DEF LayoutInv, TypeOK, DirectoriesAreTrees, Index
<1>3. staging' \in Tree /\ IsTree(staging)'
  <2>1. staging' \in Tree /\ IsTree(staging')
    BY <1>1, <1>2, WriteKeepsTree
  <2> QED
    BY <2>1 DEF IsTree, Ancestors
<1>4. ~torn => Staged(staging', next, todo')
  <2> SUFFICES ASSUME ~torn, NEW q \in Paths, next[q] # Absent, q \notin todo'
               PROVE  /\ staging'.sidecars[q] = next[q]
                      /\ HasItsFile(q) => staging'.files[q] = next[q]
    BY DEF Staged
  <2>1. staging.files \in Index /\ staging.sidecars \in Index /\ OnDisk[p] \in Paths
    BY <1>2, LayoutAssumption DEF Tree
  <2>2. /\ staging'.files = [staging.files EXCEPT ![OnDisk[p]] = next[p]]
        /\ staging'.sidecars = [staging.sidecars EXCEPT ![p] = next[p]]
    BY <1>1 DEF Written
  <2>3. q # p => staging.sidecars[q] = next[q] /\ (HasItsFile(q) => staging.files[q] = next[q])
    BY <1>1 DEF LayoutInv, StagingInv, Staged
  <2>4. HasItsFile(q) => (OnDisk[p] = q <=> p = q)
    BY <1>1 DEF HasItsFile, Writable
  <2>5. staging'.sidecars[q] = next[q]
    BY <2>1, <2>2, <2>3 DEF Index
  <2>6. HasItsFile(q) => staging'.files[q] = next[q]
    BY <2>1, <2>2, <2>3, <2>4 DEF Index
  <2> QED
    BY <2>5, <2>6
<1>5. TypeOK'
  BY <1>1, <1>3 DEF LayoutInv, TypeOK
<1>6. DirectoriesAreTrees'
  BY <1>1, <1>3 DEF LayoutInv, DirectoriesAreTrees, IsTree, Ancestors
<1>7. StagingInv'
  BY <1>1, <1>4 DEF LayoutInv, StagingInv, Staged, HasItsFile
<1> QED
  BY <1>1, <1>5, <1>6, <1>7 DEF LayoutInv, Holds, HasItsFile

LEMMA PruneInv ==
  ASSUME LayoutInv, Prune
  PROVE  LayoutInv'
<1>1. /\ step = "write" /\ todo = {} /\ todo' = {} /\ step' = "swap"
      /\ UNCHANGED <<mirror, index, next, torn>>
      /\ staging' = PruneTree(staging)
  BY DEF Prune
<1>2. /\ staging \in Tree /\ IsTree(staging) /\ next \in Index
      /\ staging.files \in Index /\ staging.sidecars \in Index
  BY DEF LayoutInv, TypeOK, DirectoriesAreTrees, Tree
<1> DEFINE files == Kept(staging.files)
           sidecars == Kept(staging.sidecars)
<1>3. files \in Index /\ sidecars \in Index
  BY <1>2 DEF Kept, Index, FileState
<1>4. /\ \A p \in Paths : files[p] = IF next[p] = Absent THEN Absent ELSE staging.files[p]
      /\ \A p \in Paths : sidecars[p] = IF next[p] = Absent THEN Absent ELSE staging.sidecars[p]
  BY DEF Kept
<1>5. staging' = [staging EXCEPT !.files = files, !.sidecars = sidecars]
  BY <1>1 DEF PruneTree
<1> HIDE DEF files, sidecars
<1>6. /\ staging'.files = files /\ staging'.sidecars = sidecars /\ staging'.dirs = staging.dirs
      /\ staging' \in Tree
  BY <1>2, <1>3, <1>5 DEF Tree
<1>7. ~torn => Holds(staging', next)
  <2> SUFFICES ASSUME ~torn PROVE Holds(staging', next)
    OBVIOUS
  <2>1. Staged(staging, next, {})
    BY <1>1 DEF LayoutInv, StagingInv
  <2>2. \A p \in Paths : sidecars[p] = next[p]
    BY <1>4, <2>1 DEF Staged
  <2>3. sidecars = next
    BY <1>2, <1>3, <2>2 DEF Index
  <2>4. \A p \in Paths : /\ next[p] = Absent => files[p] = Absent
                         /\ HasItsFile(p) => files[p] = next[p]
    BY <1>4, <2>1 DEF Staged
  <2> QED
    BY <1>6, <2>3, <2>4 DEF Holds
<1>8. TypeOK'
  BY <1>1, <1>2, <1>6 DEF LayoutInv, TypeOK
<1>9. DirectoriesAreTrees'
  <2>1. IsTree(staging)'
    BY <1>2, <1>4, <1>6 DEF IsTree, Ancestors
  <2> QED
    BY <1>1, <2>1 DEF LayoutInv, DirectoriesAreTrees, IsTree, Ancestors
<1>10. StagingInv'
  BY <1>1, <1>7 DEF StagingInv, Holds, HasItsFile
<1> QED
  BY <1>1, <1>8, <1>9, <1>10 DEF LayoutInv, Holds, HasItsFile

LEMMA LayoutNextInv == LayoutInv /\ [Next]_vars => LayoutInv'
<1> SUFFICES ASSUME LayoutInv, [Next]_vars
             PROVE  LayoutInv'
  OBVIOUS
<1>1. /\ mirror \in Tree \cup {NoDir} /\ (mirror # NoDir => IsTree(mirror))
      /\ staging \in Tree /\ IsTree(staging) /\ staging # NoDir
      /\ index \in Index \cup {NoIndex} /\ next \in Index /\ torn \in BOOLEAN
      /\ index # NoIndex /\ ~torn => mirror # NoDir /\ Holds(mirror, index)
  BY LayoutAssumption DEF LayoutInv, TypeOK, DirectoriesAreTrees
<1>2. CASE UNCHANGED vars
  BY <1>2 DEF vars, LayoutInv, TypeOK, DirectoriesAreTrees, IsTree, Ancestors, StagingInv, Staged,
     Holds, HasItsFile, CopyOf
<1>3. CASE CannotWrite \/ RefreshFails \/ SwapTears
  <2>1. /\ step' = "idle" /\ staging' = EmptyTree /\ next' = NoFiles /\ todo' = {}
        /\ index' = index
    BY <1>3 DEF CannotWrite, RefreshFails, SwapTears, Discard
  <2>2. (mirror' = mirror /\ torn' = torn) \/ (mirror' \in {NoDir, staging} /\ torn' = TRUE)
    BY <1>3 DEF CannotWrite, RefreshFails, SwapTears
  <2> QED
    BY <1>1, <2>1, <2>2, BackToIdle
<1>4. CASE Activate
  <2>1. ~torn => Holds(staging, next)
    BY <1>4 DEF Activate, LayoutInv, StagingInv
  <2> QED
    BY <1>1, <1>4, <2>1, BackToIdle DEF Activate
<1>5. CASE Restart
  BY <1>1, <1>5, BackToIdle DEF Restart
<1> QED
  BY <1>2, <1>3, <1>4, <1>5, StartInv, ListInv, WriteObjectInv, PruneInv DEF Next

LEMMA LayoutAlways == Spec => []LayoutInv
BY LayoutInitInv, LayoutNextInv, PTL DEF Spec

(* Every variable of the layout has the shape of what it stands for.       *)
THEOREM LayoutTypes == Spec => []TypeOK
<1>1. LayoutInv => TypeOK
  BY DEF LayoutInv
<1> QED
  BY <1>1, LayoutAlways, PTL

(* However keys become directories of others and back, what is written to   *)
(* the disk is a tree.                                                     *)
THEOREM TreesStayTrees == Spec => []DirectoriesAreTrees
<1>1. LayoutInv => DirectoriesAreTrees
  BY DEF LayoutInv
<1> QED
  BY <1>1, LayoutAlways, PTL

(* An active generation's sidecars are its listing's, none of its files is  *)
(* of another, and each key that is the only spelling of its file has it:  *)
(* for any keys and spellings, folders among them, and any refreshes that  *)
(* fail, until a swap fails with the old files gone (sync.rs,              *)
(* swap_origin_dir), and again from the next start on.                     *)
THEOREM MirrorIsTheListing == Spec => []MirrorHoldsIndex
<1>1. LayoutInv => MirrorHoldsIndex
  BY DEF LayoutInv, MirrorHoldsIndex, Holds
<1> QED
  BY <1>1, LayoutAlways, PTL
------------------------------------------------------------------------------
(* What can be refused.                                                    *)

(* What stands in the way of a listing that fits on the disk is the active  *)
(* mirror alone: a path that was a directory in it, or one that was a file, *)
(* is not listed any more and is needed as a directory.  Neither the order  *)
(* of write_object's calls nor what an earlier attempt wrote ever is.       *)
ChangesKind(p) ==
  LET old == CopyOf(mirror) IN
  \/ OnDisk[p] \in old.dirs
  \/ \E d \in Ancestors(OnDisk[p]) : old.files[d] # Absent /\ next[d] = Absent

OnlyKindChangesAreRefused ==
  step = "write" /\ FitsOnDisk(next) =>
    \A p \in todo : Writable(staging, p) \/ ChangesKind(p)

(* The staged tree is made of the mirror it was copied from and of what    *)
(* the listing holds.                                                      *)
MadeOf(tree, old, files) ==
  /\ \A p \in Paths : \/ tree.files[p] = old.files[p]
                       \/ \E q \in Known(files) : OnDisk[q] = p
  /\ \A d \in tree.dirs : d \in old.dirs \/ \E p \in Known(files) : <<d, OnDisk[p]>> \in Below

MadeInv == step = "write" => MadeOf(staging, CopyOf(mirror), next)

LEMMA WrittenIsMade ==
  ASSUME LayoutInv, MadeInv, NEW p \in Paths, WriteObject(p)
  PROVE  MadeInv'
<1>1. /\ step = "write" /\ p \in todo
      /\ UNCHANGED <<mirror, step, next>>
      /\ staging' = Written(staging, p, next[p])
  BY DEF WriteObject
<1>2. staging.files \in Index /\ p \in Known(next)
  BY <1>1 DEF LayoutInv, TypeOK, Tree, StagingInv, Known
<1> DEFINE old == CopyOf(mirror)
<1>3. old' = old
  BY <1>1 DEF CopyOf
<1>4. MadeOf(staging, old, next)
  BY <1>1 DEF MadeInv
<1> HIDE DEF old
<1>5. staging'.files = [staging.files EXCEPT ![OnDisk[p]] = next[p]]
      /\ staging'.dirs = staging.dirs \cup Ancestors(OnDisk[p])
  BY <1>1 DEF Written
<1>6. \A r \in Paths : staging'.files[r] = old.files[r] \/ \E q \in Known(next) : OnDisk[q] = r
  BY <1>2, <1>4, <1>5 DEF MadeOf, Index
<1>7. \A d \in staging'.dirs :
        d \in old.dirs \/ \E q \in Known(next) : <<d, OnDisk[q]>> \in Below
  BY <1>2, <1>4, <1>5 DEF MadeOf, Ancestors
<1> QED
  BY <1>1, <1>3, <1>6, <1>7 DEF MadeInv, MadeOf, old

LEMMA NextMade ==
  ASSUME LayoutInv, MadeInv, [Next]_vars
  PROVE  MadeInv'
<1>1. CASE List
  <2>1. staging' = CopyOf(mirror') /\ staging' = staging /\ next' \in Index
    BY <1>1 DEF List, LayoutInv, StagingInv
  <2> QED
    BY <2>1 DEF MadeInv, MadeOf
<1>2. CASE \E p \in Paths : WriteObject(p)
  BY <1>2, WrittenIsMade
<1>3. CASE Start \/ CannotWrite \/ RefreshFails \/ SwapTears \/ Prune \/ Activate \/ Restart
  BY <1>3 DEF Start, CannotWrite, RefreshFails, SwapTears, Prune, Activate, Restart, Discard, MadeInv
<1>4. CASE UNCHANGED vars
  BY <1>4 DEF vars, MadeInv, MadeOf, CopyOf, Known
<1> QED
  BY <1>1, <1>2, <1>3, <1>4 DEF Next

(* A listing that fits on the disk, one without folders and without a file  *)
(* that is to be a directory, is refused only because the generation before *)
(* it used one of its paths for something else (write_object).             *)
THEOREM OnlyKindChangesEndStaging == Spec => []OnlyKindChangesAreRefused
<1>1. Init => MadeInv
  BY DEF Init, MadeInv
<1>2. LayoutInv /\ MadeInv => OnlyKindChangesAreRefused
  <2> SUFFICES ASSUME LayoutInv, MadeInv, step = "write", FitsOnDisk(next),
                      NEW p \in todo, ~Writable(staging, p)
               PROVE  ChangesKind(p)
    BY DEF OnlyKindChangesAreRefused
  <2>1. MadeOf(staging, CopyOf(mirror), next) /\ p \in Paths /\ p \in Known(next)
    BY DEF MadeInv, LayoutInv, TypeOK, StagingInv, Known
  <2>2. CASE OnDisk[p] \in staging.dirs
    <3>1. PICK d \in staging.dirs : d = OnDisk[p]
      BY <2>2
    <3>2. ~ \E q \in Known(next) : <<d, OnDisk[q]>> \in Below
      BY <2>1, <3>1 DEF FitsOnDisk
    <3> QED
      BY <2>1, <3>1, <3>2 DEF MadeOf, ChangesKind
  <2>3. ASSUME NEW d \in Ancestors(OnDisk[p]), staging.files[d] # Absent PROVE ChangesKind(p)
    <3>1. d \in Paths /\ <<d, OnDisk[p]>> \in Below /\ OnDisk[p] \in Paths
      BY <2>1, LayoutAssumption DEF Ancestors
    <3>2. OnDisk[d] = d /\ ~ \E q \in Known(next) : OnDisk[q] = d
      BY <2>1, <3>1, LayoutAssumption DEF FitsOnDisk
    <3>3. CopyOf(mirror).files[d] # Absent /\ next[d] = Absent
      BY <2>1, <2>3, <3>1, <3>2 DEF MadeOf, Known
    <3> QED
      BY <3>3 DEF ChangesKind
  <2> QED
    BY <2>1, <2>2, <2>3 DEF Writable, FitsOnDisk
<1> QED
  BY <1>1, <1>2, LayoutInitInv, LayoutNextInv, NextMade, PTL DEF Spec
=============================================================================
