---------------------------- MODULE MC_MirrorLayout ----------------------------
(* Keys docs, docs/index.html, docs//index.html and the folder docs/.        *)
EXTENDS MirrorLayout

CONSTANTS docs, docs_index, odd_index, folder, v1, v2

MCPaths == {docs, docs_index, odd_index, folder}
MCOnDisk ==
  [p \in MCPaths |-> IF p = odd_index THEN docs_index ELSE IF p = folder THEN docs ELSE p]
MCBelow == {<<docs, docs_index>>}
MCEdgeConfigPaths == <<>>
==============================================================================
