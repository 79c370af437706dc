---------------------------- MODULE MC_Publication ----------------------------
(* Three publications of two objects: the second changes both, the third     *)
(* brings back the first state of one and deletes the other.                 *)
EXTENDS Publication

CONSTANTS edge, a, b, d1, d2, d3, f1, f2, f3, a1, a2, b1, b2

MCPaths == {edge, a, b}
MCContents == {d1, d2, d3, f1, f2, f3, a1, a2, b1, b2}
Files3(e, x, y) == [p \in MCPaths |-> IF p = edge THEN e ELSE IF p = a THEN x ELSE y]
MCReleases == <<Files3(f1, a1, b1), Files3(f2, a2, b2), Files3(f3, a1, Absent)>>
MCDrafts == <<d1, d2, d3>>
MCEdgeConfigPaths == <<edge>>

\* ListObjectsV2 in key order: .rendermesh/edge.yaml sorts before other keys.
MCKeyOrder == {<<edge, a>>, <<edge, b>>, <<a, b>>}
\* A directory walk returns entries in any order.
MCAnyOrder == {}
==============================================================================
