----------------------------- MODULE AtomicOrigin -----------------------------
(***************************************************************************)
(* What an origin promises to the readers and operators of a server:       *)
(*                                                                         *)
(*   "Mirror files, edge config, freshness index, and templates activate   *)
(*    as one generation. Failed refreshes keep the previous generation     *)
(*    active."   (origin-freshness-index-design)                           *)
(*                                                                         *)
(* A generation is the files, the configuration read from them and the     *)
(* templates compiled from them.  It is replaced as a whole or not at all. *)
(* OriginRefresh is shown to implement this module.                        *)
(***************************************************************************)
EXTENDS OriginFreshness

CONSTANTS NoDir, NoConfig

VARIABLES files, config, templates, generation

vars == <<files, config, templates, generation>>

Acceptable(next) ==
  /\ EdgeConfig(next) \notin BadConfigs
  /\ \A p \in Paths : TemplateOf(next, p) \notin BadTemplates

Nothing ==
  /\ config = NoConfig
  /\ templates = NoFiles
  /\ generation = 0

Init ==
  /\ files \in Index \cup {NoDir}
  /\ Nothing

Activate ==
  \E next \in Index :
    /\ Acceptable(next)
    /\ files' = next
    /\ config' = EdgeConfig(next)
    /\ templates' = Templates(next)
    /\ generation' = generation + 1

(* A new process knows nothing; a mirror caught between two renames is     *)
(* lost and fetched again by the startup sync.                             *)
Restart ==
  /\ files' \in {files, NoDir}
  /\ Nothing'

Next == Activate \/ Restart

Spec == Init /\ [][Next]_vars
==============================================================================
