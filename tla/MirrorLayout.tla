----------------------------- MODULE MirrorLayout -----------------------------
(***************************************************************************)
(* The mirror and staging directories of one origin as repositories/       *)
(* sync.rs writes them: object files, the directories they lie in and a    *)
(* metadata sidecar for each object.                                       *)
(*                                                                         *)
(* OriginRefresh takes a mirror for a function from keys to file states.   *)
(* This module is about what that abstracts: the mirror is a tree, a       *)
(* generation is staged in a copy of the tree of the last one, and keys    *)
(* that are plain strings in a bucket are paths on the disk, where several *)
(* keys may be spellings of one file.                                      *)
(***************************************************************************)
EXTENDS OriginFreshness

CONSTANTS
  NoDir,        \* there is no such directory
  OnDisk,       \* of each key, the plain spelling of the file it is written to
  Folders,      \* keys that end in a slash or a dot: no file has such a path
  Below         \* <<d, p>>: the file p lies, at any depth, in a directory d

(* A directory of the mirror: files are known by their plain spelling      *)
(* (relative_key), dirs are the plain keys that name directories, and      *)
(* sidecars is what the files under .rendermesh-meta, named by a hash of   *)
(* the key as it is spelled, say of each key.                              *)
Tree == [files : Index, dirs : SUBSET Paths, sidecars : Index]
EmptyTree == [files |-> NoFiles, dirs |-> {}, sidecars |-> NoFiles]

ASSUME LayoutAssumption ==
  /\ NoDir \notin Tree
  /\ OnDisk \in [Paths -> Paths]
  /\ \A p \in Paths : OnDisk[OnDisk[p]] = OnDisk[p]
  /\ Folders \subseteq Paths
  /\ Below \subseteq Paths \X Paths
  /\ \A d, p \in Paths : <<d, p>> \in Below => OnDisk[d] = d
  /\ \A p \in Paths : <<p, p>> \notin Below
  /\ \A p, q, r \in Paths : <<p, q>> \in Below /\ <<q, r>> \in Below => <<p, r>> \in Below

VARIABLES
  mirror,     \* <root>/<origin>
  index,      \* the index of the active generation
  step,       \* "idle", "list", "write" or "swap"
  staging,    \* <root>/.rendermesh-sync/<origin>-<pid>-<time>
  next,       \* index of the listing
  todo,       \* changed keys not written yet
  torn        \* a swap has failed and left the mirror without the files of the index

vars == <<mirror, index, step, staging, next, todo, torn>>

Init ==
  /\ mirror = NoDir
  /\ index = NoIndex
  /\ step = "idle"
  /\ staging = EmptyTree
  /\ next = NoFiles
  /\ todo = {}
  /\ torn = FALSE

------------------------------------------------------------------------------
(* copy_dir_contents: directories, objects and sidecars alike.             *)
CopyOf(dir) == IF dir = NoDir THEN EmptyTree ELSE dir

Start ==
  /\ step = "idle"
  /\ staging' = CopyOf(mirror)
  /\ step' = "list"
  /\ UNCHANGED <<mirror, index, next, todo, torn>>

List ==
  /\ step = "list"
  /\ next' \in Index
  /\ todo' = ChangedPaths(Diff(index, next'))
  /\ step' = "write"
  /\ UNCHANGED <<mirror, index, staging, torn>>

Ancestors(p) == {d \in Paths : <<d, p>> \in Below}

(* A slip in write_object: what lies in the way is overwritten.            *)
WritableAnyway(tree, p) == TRUE

(* create_dir_all fails on an ancestor that is a file, fs::write on a      *)
(* directory and on a path that can only be one: an S3 listing keeps the   *)
(* markers of folders.                                                     *)
Writable(tree, p) ==
  /\ p \notin Folders
  /\ OnDisk[p] \notin tree.dirs
  /\ \A d \in Ancestors(OnDisk[p]) : tree.files[d] = Absent

(* write_object: the file at the path of the key, the sidecar of the key.  *)
Written(tree, p, file) ==
  [files    |-> [tree.files EXCEPT ![OnDisk[p]] = file],
   dirs     |-> tree.dirs \cup Ancestors(OnDisk[p]),
   sidecars |-> [tree.sidecars EXCEPT ![p] = file]]

WriteObject(p) ==
  /\ step = "write"
  /\ p \in todo
  /\ Writable(staging, p)
  /\ staging' = Written(staging, p, next[p])
  /\ todo' = todo \ {p}
  /\ UNCHANGED <<mirror, index, step, next, torn>>

(* A slip in stage_origin_sync: the next attempt goes on with what was     *)
(* left to write.                                                          *)
DiscardStaging ==
  /\ step' = "idle"
  /\ staging' = EmptyTree
  /\ next' = NoFiles
  /\ UNCHANGED <<index, todo>>

(* The error discards the staging directory and is the refresh's own.      *)
Discard ==
  /\ step' = "idle"
  /\ staging' = EmptyTree
  /\ next' = NoFiles
  /\ todo' = {}
  /\ UNCHANGED index

CannotWrite ==
  /\ step = "write"
  /\ \E p \in todo : ~Writable(staging, p)
  /\ Discard
  /\ UNCHANGED <<mirror, torn>>

(* Everything else that ends a refresh before its files are in place, or   *)
(* with the old files put back.                                            *)
RefreshFails ==
  /\ step # "idle"
  /\ Discard
  /\ UNCHANGED <<mirror, torn>>

(* swap_origin_dir fails with the old files moved away: they could not be  *)
(* put back, or the new ones are in place and the old ones are not removed. *)
(* Index and mirror are of two generations then.                           *)
SwapTears ==
  /\ step = "swap"
  /\ mirror # NoDir
  /\ Discard
  /\ mirror' \in {NoDir, staging}
  /\ torn' = TRUE

Kept(files) == [p \in Paths |-> IF next[p] = Absent THEN Absent ELSE files[p]]

(* A slip in remove_deleted_objects and remove_orphan_metadata_sidecars:   *)
(* the sidecars of deleted objects stay.                                   *)
PruneObjectsOnly(tree) == [tree EXCEPT !.files = Kept(@)]

(* remove_deleted_objects removes the files whose plain spelling is not    *)
(* listed, never a directory; remove_orphan_metadata_sidecars removes the  *)
(* sidecars of no listed key.                                              *)
PruneTree(tree) == [tree EXCEPT !.files = Kept(@), !.sidecars = Kept(@)]

Prune ==
  /\ step = "write"
  /\ todo = {}
  /\ staging' = PruneTree(staging)
  /\ step' = "swap"
  /\ UNCHANGED <<mirror, index, next, todo, torn>>

(* swap_origin_dir and the store writes; OriginRefresh takes them apart.   *)
Activate ==
  /\ step = "swap"
  /\ mirror' = staging
  /\ index' = next
  /\ step' = "idle"
  /\ staging' = EmptyTree
  /\ next' = NoFiles
  /\ todo' = {}
  /\ UNCHANGED torn

(* The index is lost, the mirror stays.  A crash in the swap leaves the    *)
(* old mirror, none, or the new one.                                       *)
Restart ==
  /\ index' = NoIndex
  /\ mirror' \in IF step = "swap" THEN {mirror, NoDir, staging} ELSE {mirror}
  /\ step' = "idle"
  /\ staging' = EmptyTree
  /\ next' = NoFiles
  /\ todo' = {}
  /\ torn' = FALSE

Next ==
  \/ Start \/ List \/ (\E p \in Paths : WriteObject(p)) \/ CannotWrite \/ RefreshFails
  \/ SwapTears \/ Prune \/ Activate \/ Restart

Spec == Init /\ [][Next]_vars

------------------------------------------------------------------------------
(* Every variable has the shape of the structure it stands for.            *)
TypeOK ==
  /\ mirror \in Tree \cup {NoDir}
  /\ index \in Index \cup {NoIndex}
  /\ step \in {"idle", "list", "write", "swap"}
  /\ staging \in Tree
  /\ next \in Index
  /\ todo \subseteq (IF step = "write" THEN Paths ELSE {})
  /\ torn \in BOOLEAN

(* The directories hold a tree: nothing is a file and a directory at once,  *)
(* and every file's directories exist, in the mirror and in every copy.     *)
IsTree(tree) ==
  \A p \in Paths :
    /\ p \in tree.dirs => tree.files[p] = Absent
    /\ tree.files[p] # Absent => Ancestors(p) \subseteq tree.dirs

DirectoriesAreTrees == IsTree(staging) /\ (mirror # NoDir => IsTree(mirror))

(* No other key is ever written to the file of the key.                    *)
HasItsFile(p) == OnDisk[p] = p /\ \A q \in Paths \ Folders : OnDisk[q] = p => q = p

(* What OriginRefresh abstracts: after any sequence of diffs, failures and  *)
(* restarts an active generation has the sidecars of its listing and no     *)
(* others, no file that is not listed, and of every listed key that is the  *)
(* only spelling of its file that file.  A swap that fails with the old     *)
(* files gone breaks this until the next start, since what the index still  *)
(* lists as it was is not written again (write_object,                      *)
(* remove_deleted_objects and remove_orphan_metadata_sidecars in sync.rs).  *)
MirrorHoldsIndex ==
  index # NoIndex /\ ~torn =>
    /\ mirror.sidecars = index
    /\ \A p \in Paths :
         /\ index[p] = Absent => mirror.files[p] = Absent
         /\ HasItsFile(p) => mirror.files[p] = index[p]

(* A listing without folders and without two keys of which one's file is a  *)
(* directory of the other's fits on the disk, whatever the generation       *)
(* before it looked like.                                                   *)
FitsOnDisk(files) ==
  /\ Known(files) \cap Folders = {}
  /\ \A d, p \in Known(files) : <<OnDisk[d], OnDisk[p]>> \notin Below

ListingsCanBeStaged ==
  step = "write" /\ FitsOnDisk(next) => \A p \in todo : Writable(staging, p)
==============================================================================
