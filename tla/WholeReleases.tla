---------------------------- MODULE WholeReleases ----------------------------
(***************************************************************************)
(* What a refresh promises a publisher: the contents of a storage at one   *)
(* moment between two publications are read and activated as a whole, or   *)
(* not at all, while publications go on.                                   *)
(*                                                                         *)
(*   "a publication that overlaps a refresh is rejected instead of         *)
(*    activating a mixed generation"   (README.md)                         *)
(*                                                                         *)
(* Publication is shown to implement this module object by object, and     *)
(* Server to implement it for each of its origins, so that the two agree   *)
(* on what a release and a refresh are.                                    *)
(***************************************************************************)
EXTENDS Naturals

VARIABLES
  release,   \* number of the last publication started
  whole,     \* the storage holds it, and nothing else
  read,      \* what the refresh under way has read: {} or one release
  active     \* what readers get: {} or one release

vars == <<release, whole, read, active>>

Init ==
  /\ release \in Nat
  /\ whole = TRUE
  /\ read = {}
  /\ active = {}

Publish ==
  /\ release' = release + 1
  /\ whole' \in BOOLEAN
  /\ UNCHANGED <<read, active>>

Complete ==
  /\ whole' = TRUE
  /\ UNCHANGED <<release, read, active>>

Read ==
  /\ whole
  /\ read = {}
  /\ read' = {release}
  /\ UNCHANGED <<release, whole, active>>

Activate ==
  /\ read # {}
  /\ active' = read
  /\ read' = {}
  /\ UNCHANGED <<release, whole>>

GiveUp ==
  /\ read' = {}
  /\ UNCHANGED <<release, whole, active>>

(* A new process has activated nothing; the storage is not its own.        *)
Restart ==
  /\ read' = {}
  /\ active' = {}
  /\ UNCHANGED <<release, whole>>

Next == Publish \/ Complete \/ Read \/ Activate \/ GiveUp \/ Restart

Spec == Init /\ [][Next]_vars
==============================================================================
