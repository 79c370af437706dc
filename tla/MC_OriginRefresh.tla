--------------------------- MODULE MC_OriginRefresh ---------------------------
(* Small instances of OriginRefresh: one edge config file and one page.  The *)
(* page has its own URL, and the root answers with it as the edge config     *)
(* says; no answer is made of the edge config alone.                         *)
EXTENDS OriginRefresh

CONSTANTS cfg, page, v1, v2, bad, cfgUrl, pageUrl, rootUrl

MCPaths == {cfg, page}
MCEdgeConfigPaths == <<cfg>>
MCOnePath == {page}
MCNoConfigPaths == <<>>
MCCdnUrls == {cfgUrl, pageUrl, rootUrl}
MCObjectUrl == [p \in MCPaths |-> IF p = cfg THEN cfgUrl ELSE pageUrl]
MCMadeFrom == [u \in MCCdnUrls |-> IF u = rootUrl THEN MCPaths ELSE IF u = pageUrl THEN {page} ELSE {}]
MCHtml == {page} \X Contents
==============================================================================
