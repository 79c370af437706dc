--------------------------- MODULE OriginFreshness ---------------------------
(***************************************************************************)
(* The pure part of an origin refresh: what a listing of the remote        *)
(* storage is compared with, and what is decided from the comparison.      *)
(*                                                                         *)
(* services/freshness.rs keeps an index of the files of the active         *)
(* generation and diffs it with the next listing.  The diff decides what   *)
(* is downloaded, which templates are recompiled and whether the           *)
(* activation barrier accepts the publication; CdnRefresh.tla adds what is *)
(* purged.                                                                 *)
(*                                                                         *)
(* An index is a total function over Paths; Absent marks a path it does    *)
(* not hold.  A member of Contents stands for one file state (body, size,  *)
(* etag, dates, content type): two states are equal in the model exactly   *)
(* when same_source_state says they are.                                   *)
(***************************************************************************)
EXTENDS Naturals, Sequences

CONSTANTS
  Paths,            \* object keys
  Contents,         \* file states
  Absent,           \* the path is not there
  NoIndex,          \* no generation activated since the process started
  Html,             \* the <<path, content>> pairs is_html accepts
  EdgeConfigPaths,  \* EDGE_CONFIG_PATHS, in order of preference
  DefaultConfig,    \* default_edge_config()
  BadConfigs,       \* contents that parse_edge_config rejects
  BadTemplates,     \* contents that are not UTF-8 or that Handlebars rejects
  Barrier,          \* activation_barrier_path, or NoBarrier
  NoBarrier

ASSUME ConstantsAssumption ==
  /\ Absent \notin Contents
  /\ Html \subseteq Paths \X Contents
  /\ EdgeConfigPaths \in Seq(Paths)
  /\ NoBarrier \notin Paths
  /\ DefaultConfig \notin BadConfigs
  /\ BadTemplates \subseteq Contents

FileState == Contents \cup {Absent}
Index == [Paths -> FileState]
ASSUME NoIndexAssumption == NoIndex \notin Index

Known(index) == {p \in Paths : index[p] # Absent}
NoFiles == [p \in Paths |-> Absent]

------------------------------------------------------------------------------
(* A slip in diff_origin_indexes: a file that changed counts as unchanged. *)
DiffMissingModified(previous, next) ==
  IF previous = NoIndex
    THEN [added |-> Known(next), modified |-> {}, removed |-> {}]
    ELSE [added    |-> Known(next) \ Known(previous),
          modified |-> {},
          removed  |-> Known(previous) \ Known(next)]

(***************************************************************************)
(* diff_origin_indexes: without a previous index every listed file is      *)
(* added and nothing is removed.                                           *)
(***************************************************************************)
Diff(previous, next) ==
  IF previous = NoIndex
    THEN [added |-> Known(next), modified |-> {}, removed |-> {}]
    ELSE [added    |-> Known(next) \ Known(previous),
          modified |-> {p \in Known(next) \cap Known(previous) :
                          next[p] # previous[p]},
          removed  |-> Known(previous) \ Known(next)]

(* OriginFreshnessDiff::changed_paths: what is downloaded and recompiled.  *)
ChangedPaths(diff) == diff.added \cup diff.modified

HasChanges(diff) == ChangedPaths(diff) \cup diff.removed # {}

(* A slip in validate_activation_barrier: a barrier that is new does not   *)
(* count as changed.                                                       *)
BarrierMustBeModified(previous, next) ==
  LET diff == Diff(previous, next) IN
  Barrier # NoBarrier /\ HasChanges(diff) =>
    /\ next[Barrier] # Absent
    /\ previous # NoIndex => Barrier \in diff.modified

(***************************************************************************)
(* validate_activation_barrier: an update that changes anything must hold  *)
(* the barrier, and must have changed it if the last generation held it.   *)
(***************************************************************************)
BarrierAccepts(previous, next) ==
  LET diff == Diff(previous, next) IN
  Barrier # NoBarrier /\ HasChanges(diff) =>
    /\ next[Barrier] # Absent
    /\ previous # NoIndex /\ previous[Barrier] # Absent => Barrier \in ChangedPaths(diff)

(***************************************************************************)
(* load_origin_edge_config: the first candidate path that exists, or the   *)
(* default configuration.                                                  *)
(***************************************************************************)
EdgeConfig(files) ==
  LET present == {i \in DOMAIN EdgeConfigPaths : files[EdgeConfigPaths[i]] # Absent}
  IN  IF present = {}
        THEN DefaultConfig
        ELSE files[EdgeConfigPaths[CHOOSE i \in present : \A j \in present : i <= j]]

(***************************************************************************)
(* compile_template_update_from_mirror: the live registry, without the     *)
(* removed paths, with every changed path compiled again if it is HTML and *)
(* dropped if it is not.                                                   *)
(***************************************************************************)
TemplateOf(files, p) == IF <<p, files[p]>> \in Html THEN files[p] ELSE Absent

TemplateUpdate(registry, diff, files) ==
  [p \in Paths |->
     IF p \in ChangedPaths(diff) THEN TemplateOf(files, p)
     ELSE IF p \in diff.removed  THEN Absent
     ELSE registry[p]]

TemplatesCompile(diff, files) ==
  \A p \in ChangedPaths(diff) : TemplateOf(files, p) \notin BadTemplates

(* The registry a compilation from nothing would give (load_origin_registry). *)
Templates(files) == [p \in Paths |-> TemplateOf(files, p)]
==============================================================================
