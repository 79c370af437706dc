------------------------------ MODULE CdnRefresh ------------------------------
(***************************************************************************)
(* services/cdn_refresh.rs: what an activation asks the CDN to forget.     *)
(*                                                                         *)
(* The CDN caches answers under URLs.  The purge names URLs too, but it    *)
(* makes them from object keys alone: "/" and the key.  A page is cached   *)
(* under other URLs as well ("/", "/docs", a rewritten path, a fallback),  *)
(* and a changed edge config changes the answer of URLs that no changed    *)
(* key names.  MadeFrom keeps the two apart.                               *)
(***************************************************************************)
EXTENDS OriginFreshness

CONSTANTS
  CdnUrls,          \* the URLs under which the CDN may hold an answer
  ObjectUrl,     \* format_cdn_path: the URL made from each key
  MadeFrom,      \* for each URL, the files its answer depends on
  CdnStrategy    \* "none", "all" or "changed_paths"

ASSUME CdnRefreshAssumption ==
  /\ ObjectUrl \in [Paths -> CdnUrls]
  /\ MadeFrom \in [CdnUrls -> SUBSET Paths]
  /\ CdnStrategy \in {"none", "all", "changed_paths"}

UrlsOf(paths) == {ObjectUrl[p] : p \in paths}

(* The URLs whose answer is another one when these files change.           *)
AnswersFrom(paths) == {u \in CdnUrls : MadeFrom[u] \cap paths # {}}

------------------------------------------------------------------------------
(* A slip in changed_paths of cdn_refresh.rs: removed files are forgotten. *)
PurgePlanWithoutRemoved(diff) ==
  IF CdnStrategy = "none" \/ ~HasChanges(diff) THEN {}
  ELSE IF CdnStrategy = "all" THEN CdnUrls
  ELSE UrlsOf(diff.added \cup diff.modified)

(* A slip in the same place: modified files are forgotten.                 *)
PurgePlanWithoutModified(diff) ==
  IF CdnStrategy = "none" \/ ~HasChanges(diff) THEN {}
  ELSE IF CdnStrategy = "all" THEN CdnUrls
  ELSE UrlsOf(diff.added \cup diff.removed)

(***************************************************************************)
(* build_cdn_refresh_plan: the URLs the purge request covers; {} stands    *)
(* for no request.                                                         *)
(***************************************************************************)
PurgePlan(diff) ==
  IF CdnStrategy = "none" \/ ~HasChanges(diff) THEN {}
  ELSE IF CdnStrategy = "all" THEN CdnUrls
  ELSE UrlsOf(diff.added \cup diff.modified \cup diff.removed)

------------------------------------------------------------------------------
(* The URLs whose answer the purges are able to keep up with while these   *)
(* files are active: with "all" every URL, once there is a file at all;    *)
(* with "changed_paths" the URL of a file whose answer is made of no file  *)
(* of another URL.                                                         *)
PurgeReach(files) ==
  IF CdnStrategy = "all"
    THEN {u \in CdnUrls : Known(files) # {}}
    ELSE {u \in UrlsOf(Known(files)) : \A p \in MadeFrom[u] : ObjectUrl[p] = u}
==============================================================================
