---------------------------- MODULE OriginServing ----------------------------
(***************************************************************************)
(* RenderGatewayService::handle for one request at a time, while the       *)
(* origin it resolved to is refreshed by OriginRefresh on other threads.   *)
(*                                                                         *)
(* The request takes the edge config once, then awaits edge hooks, stats,  *)
(* reads a body, reads a metadata sidecar and renders a template.  Each of *)
(* these is a step, and each sees the mirror or the store as it is at that *)
(* moment.  Headers, CORS and HEAD (a GET that loses its body) are left    *)
(* out; HostRouting says how a host selects the origin.                    *)
(***************************************************************************)
EXTENDS OriginRefresh, StaticRules

CONSTANTS
  Urls,            \* requests: a path and a query
  KeyText,         \* the text of each object key
  Rules,           \* what a configuration says
  HookFiles,       \* what edge hooks ask to serve
  HookStatuses     \* the statuses edge hooks answer with

ASSUME ServingAssumption ==
  /\ Urls \subseteq [path : Texts, query : Texts]
  /\ KeyText \in [Paths -> Texts]
  /\ \A p, q \in Paths : KeyText[p] = KeyText[q] => p = q
  /\ \A p \in Paths : /\ KeyText[p] # << >> /\ ObjectKey(KeyText[p]) = KeyText[p]
                       /\ FilePath(KeyText[p]) = KeyText[p]
  /\ HookFiles \subseteq Texts /\ HookStatuses \subseteq Nat
  /\ Rules \in [Contents \cup {DefaultConfig} -> EdgeConfigs]
  /\ Rules[DefaultConfig] = DefaultEdgeConfig
  /\ \A c \in DOMAIN Rules : \A field \in {"page", "path", "to", "status"} :
       \A given, other \in Rules[c].missing[field] : given = other
  /\ \A c \in Contents : c \in BadConfigs <=> ~ValidEdgeConfig(Rules[c])

VARIABLES
  request,     \* the request being handled
  plan,        \* what the static file code was first asked to serve
  answer,      \* the response, or NoAnswer
  overlapped,  \* an activation was under way at some time of the request
  steady       \* paths every generation active during the request holds

requestVars == <<request, plan, answer>>
servingVars == <<vars, requestVars, overlapped, steady>>

NoPath == << >>
NoUrl == [path |-> NoPath, query |-> << >>]
Idle == [step |-> "idle", config |-> NoConfig, url |-> NoUrl, hook |-> 0,
         path |-> NoPath, retry |-> FALSE, status |-> 200, missing |-> FALSE,
         body |-> Absent, meta |-> Absent]
NoAnswer == [status |-> 0, path |-> NoPath, body |-> Absent, meta |-> Absent]
NoPlan == [path |-> NoPath, access |-> "public", params |-> FALSE, miss |-> "missing",
           status |-> 200]

RulesOf(c) == Rules[c]

(* What the rules of each configuration make of each request.              *)
Decisions ==
  {[config |-> c, url |-> url, target |-> RequestTarget(Rules[c], url.path),
    redirect |-> FindRedirect(Rules[c], url.path, url.query)] :
     c \in DOMAIN Rules, url \in Urls}

(* Every path that can be asked for, with the object keys whose file it    *)
(* opens, has in it as a directory, or goes on below, and the key it is    *)
(* spelled as, under which its metadata and its template are kept.         *)
Asked ==
  LET first == {d.target : d \in Decisions} \cup HookFiles
      fallbacks == UNION {Rules[c].missing.page \cup Rules[c].missing.path : c \in DOMAIN Rules}
  IN  first \cup {AutoIndexCandidate(path) : path \in first} \cup fallbacks

Places ==
  {LET file == FilePath(ObjectKey(path)) IN
   [path     |-> path,
    valid    |-> ObjectKey(path) # << >>,
    reserved |-> IsReserved(path),
    named    |-> {p \in Paths : KeyText[p] = ObjectKey(path)},
    keys     |-> {p \in Paths : KeyText[p] = file},
    inside   |-> {p \in Paths : file = << >> \/ IsPrefix(TrimEnd(file) \o <<Slash>>, KeyText[p])},
    above    |-> {p \in Paths : IsPrefix(KeyText[p] \o <<Slash>>, file)}] :
   path \in Asked}

Decision(c, url) == CHOOSE d \in Decisions : d.config = c /\ d.url = url
Place(path) == CHOOSE place \in Places : place.path = path

------------------------------------------------------------------------------
ServingInit ==
  /\ Init
  /\ request = Idle
  /\ plan = NoPlan
  /\ answer = NoAnswer
  /\ overlapped = FALSE
  /\ steady = {}

(* A slip in build_render_runtime: the listener starts at once.            *)
ListeningAtOnce == TRUE

(* The listener starts after the initial sync of the origin.               *)
Listening == pc["startup"] = "activated"

Reply(status, path, body, meta) ==
  /\ answer' = [status |-> status, path |-> path, body |-> body, meta |-> meta]
  /\ request' = Idle

ReplyEmpty(status) == Reply(status, NoPath, Absent, Absent)
Redirect(status, location) == Reply(status, location, Absent, Absent)

(* OPTIONS and the methods that are not allowed are answered before the    *)
(* configuration is read.                                                  *)
OtherMethod ==
  /\ Listening
  /\ request = Idle
  /\ \E status \in {204, 405} : ReplyEmpty(status)
  /\ plan' = NoPlan

(* EdgeConfigStore::get, once for the whole request.                       *)
Arrive(url) ==
  /\ Listening
  /\ request = Idle
  /\ plan' = NoPlan
  /\ IF config = NoConfig
       THEN ReplyEmpty(500)
       ELSE /\ request' = [Idle EXCEPT !.step = "edge", !.config = config,
                                       !.url = url, !.hook = 1]
            /\ answer' = NoAnswer

------------------------------------------------------------------------------
(* handle_edge_chain.                                                      *)

HookIsNext == request.step = "edge" /\ request.hook <= Len(RulesOf(request.config).edges)

(* The call failed, timed out, or its payload was not accepted.            *)
EdgeFails ==
  /\ HookIsNext
  /\ \E status \in {502, 504} : ReplyEmpty(status)
  /\ UNCHANGED plan

EdgeContinues ==
  /\ HookIsNext
  /\ request' = [request EXCEPT !.hook = @ + 1]
  /\ UNCHANGED <<plan, answer>>

(* A hook that ends the chain also says with which status.                 *)
EdgeResponds ==
  /\ HookIsNext
  /\ \E status \in HookStatuses : ReplyEmpty(status)
  /\ UNCHANGED plan

(* serve_static_path_with_options: read the path, then its index candidate *)
(* if the configuration says so.                                           *)
ServeStatic(p, access, params, miss, status) ==
  /\ plan' = [path |-> p, access |-> access, params |-> params, miss |-> miss, status |-> status]
  /\ request' = [request EXCEPT !.step = "stat", !.path = p, !.status = status,
                                !.retry = RulesOf(request.config).auto_rewrite_index]
  /\ UNCHANGED answer

EdgeServesFile ==
  /\ HookIsNext
  /\ \E p \in HookFiles, params \in BOOLEAN, status \in HookStatuses :
       ValidHookFile(p) /\ ServeStatic(p, "internal", params, "missing", status)

Target == Decision(request.config, request.url).target

EdgeRendersTarget ==
  /\ HookIsNext
  /\ \E status \in HookStatuses : ServeStatic(Target, "public", TRUE, "not_found", status)

(* All hooks continued: find_redirect, else resolve_request_target.        *)
Route ==
  /\ request.step = "edge"
  /\ ~HookIsNext
  /\ IF Decision(request.config, request.url).redirect = {}
       THEN ServeStatic(Target, "public", FALSE, "missing", 200)
       ELSE /\ \E redirect \in Decision(request.config, request.url).redirect :
                 Redirect(redirect.status, redirect.location)
            /\ UNCHANGED plan

------------------------------------------------------------------------------
(* serve_object_with_options and read_object.  status and access are those *)
(* of the plan until handle_missing reads a page of its own.               *)

Live == FilesIn(mirror)

OneOf(files, keys) == IF keys = {} THEN Absent ELSE files[CHOOSE p \in keys : TRUE]

FileAt(files, path) == OneOf(files, Place(path).keys)

(* Sidecars and templates are looked up by the key as it is spelled.       *)
NamedAt(files, path) == OneOf(files, Place(path).named)

DirectoryAt(files, path) == Place(path).inside \cap Known(files) # {}

(* A path that goes on where there is a file: ENOTDIR, not NotFound.       *)
BelowFile(files, path) == Place(path).above \cap Known(files) # {}

Denied(path) == Place(path).reserved /\ (request.missing \/ plan.access = "public")

(* handle_missing reads the page or path as a public object, as it is.     *)
ReadMissing(path, status) ==
  /\ request' = [request EXCEPT !.step = "stat", !.path = path, !.retry = FALSE,
                                !.status = status, !.missing = TRUE]
  /\ UNCHANGED answer

HandleMissing(missing) ==
  LET pages == missing.page \cup missing.path
  IN  IF missing.action = "redirect"
        THEN \E to \in missing.to, status \in missing.status : Redirect(status, to)
      ELSE IF pages = {} THEN ReplyEmpty(404)
      ELSE \E page \in pages : ReadMissing(page, IF missing.action = "serve" THEN 200 ELSE 404)

(* A slip in serve_static_path_with_options: the candidate has a candidate.*)
NotServedAgain ==
  IF request.retry
    THEN /\ request' = [request EXCEPT !.step = "stat", !.path = AutoIndexCandidate(plan.path)]
         /\ UNCHANGED answer
    ELSE ReplyEmpty(404)

(* A slip in handle_edge_chain: a missing file is always plain 404.        *)
NotServedPlainly ==
  IF request.retry
    THEN /\ request' = [request EXCEPT !.step = "stat", !.path = AutoIndexCandidate(@),
                                       !.retry = FALSE]
         /\ UNCHANGED answer
    ELSE ReplyEmpty(404)

(* The object is not there: try the candidate, then what the caller does.  *)
NotServed ==
  IF request.retry
    THEN /\ request' = [request EXCEPT !.step = "stat", !.path = AutoIndexCandidate(@),
                                       !.retry = FALSE]
         /\ UNCHANGED answer
    ELSE IF request.missing \/ plan.miss = "not_found"
           THEN ReplyEmpty(404)
           ELSE HandleMissing(RulesOf(request.config).missing)

Stat ==
  /\ request.step = "stat"
  /\ IF \/ Denied(request.path)
        \/ ~Place(request.path).valid
        \/ DirectoryAt(Live, request.path)
       THEN NotServed
       ELSE request' = [request EXCEPT !.step = "read"] /\ UNCHANGED answer
  /\ UNCHANGED plan

(* A slip in LocalMirrorRepository::read_object: a file that is not found   *)
(* counts as an empty one.                                                 *)
ReadBodyAnyway ==
  /\ request.step = "read"
  /\ request' = [request EXCEPT !.step = "sidecar", !.body = FileAt(Live, request.path)]
  /\ UNCHANGED <<plan, answer>>

(* tokio::fs::read.  It is an error that becomes a 500 to read below a     *)
(* file, or a directory that was none when Stat looked.                    *)
ReadBody ==
  /\ request.step = "read"
  /\ LET file == FileAt(Live, request.path)
     IN  IF file # Absent
           THEN /\ request' = [request EXCEPT !.step = "sidecar", !.body = file]
                /\ UNCHANGED answer
         ELSE IF DirectoryAt(Live, request.path) \/ BelowFile(Live, request.path)
           THEN ReplyEmpty(500)
         ELSE NotServed
  /\ UNCHANGED plan

(* Any other error of reading a body or a sidecar is an error.             *)
ReadFails ==
  /\ \/ request.step = "sidecar"
     \/ /\ request.step = "read"
        /\ ~DirectoryAt(Live, request.path) /\ ~BelowFile(Live, request.path)
  /\ ReplyEmpty(500)
  /\ UNCHANGED plan

(* read_metadata: no sidecar, no metadata.                                 *)
ReadSidecar ==
  /\ request.step = "sidecar"
  /\ IF plan.params /\ ~request.missing
       THEN /\ request' = [request EXCEPT !.step = "render", !.meta = NamedAt(Live, request.path)]
            /\ UNCHANGED answer
       ELSE Reply(request.status, request.path, request.body, NamedAt(Live, request.path))
  /\ UNCHANGED plan

(* TemplateStore::render: NotHtml is 415, an error of the template 502.    *)
RenderTemplate ==
  /\ request.step = "render"
  /\ LET template == NamedAt(registry, request.path)
     IN  IF template = Absent
           THEN Reply(415, request.path, Absent, request.meta)
           ELSE \/ Reply(request.status, request.path, template, request.meta)
                \/ Reply(502, request.path, Absent, request.meta)
  /\ UNCHANGED plan

HandleRequest ==
  \/ EdgeFails \/ EdgeContinues \/ EdgeResponds \/ EdgeServesFile \/ EdgeRendersTarget
  \/ Route \/ Stat \/ ReadBody \/ ReadFails \/ ReadSidecar \/ RenderTemplate

RequestStep == OtherMethod \/ (\E url \in Urls : Arrive(url)) \/ HandleRequest

(* The requests of a process that dies are not answered.                   *)
OriginStep ==
  /\ Next
  /\ IF Listening'
       THEN UNCHANGED requestVars
       ELSE request' = Idle /\ plan' = NoPlan /\ answer' = NoAnswer

Activating == Between(Swapping \cup {"set_valid", "set_registry", "set_index"})

Observe ==
  /\ overlapped' = (Activating' \/ (request # Idle /\ overlapped))
  /\ steady' = IF request' = Idle THEN {}
               ELSE (IF request = Idle THEN Paths ELSE steady)
                      \cap Known(FilesIn(activeFiles'))

ServingNext ==
  /\ (RequestStep /\ UNCHANGED vars) \/ OriginStep
  /\ Observe

ServingSpec == ServingInit /\ [][ServingNext]_servingVars

(* Hooks have a timeout and file reads return.                             *)
FairServingSpec == ServingSpec /\ WF_servingVars(HandleRequest /\ UNCHANGED vars /\ Observe)

------------------------------------------------------------------------------
(* Every variable of the request has the shape of what it stands for.      *)
ServingTypeOK ==
  /\ request \in
       [step : {"idle", "edge", "stat", "read", "sidecar", "render"},
        config : Configs, url : Urls \cup {NoUrl}, hook : Nat, path : Texts,
        retry : BOOLEAN, status : {200, 404} \cup HookStatuses, missing : BOOLEAN,
        body : FileState, meta : FileState]
  /\ request.body # Absent <=> request.step \in {"sidecar", "render"}
  /\ plan \in [path : Texts, access : {"public", "internal"}, params : BOOLEAN,
                miss : {"missing", "not_found"}, status : {200} \cup HookStatuses]
  /\ answer \in [status : {0, 200, 204, 404, 405, 415, 500, 502, 504}
                             \cup RedirectStatuses \cup HookStatuses,
                  path : Texts, body : FileState, meta : FileState]
  /\ overlapped \in BOOLEAN
  /\ steady \subseteq Paths

Replies == request # Idle /\ request' = Idle /\ Listening'

(***************************************************************************)
(* What the plan must be answered with when the files are one generation   *)
(* and stay so: the first of the path and its candidate that is there, and *)
(* otherwise what the configuration says about missing files.              *)
(***************************************************************************)
Reading(files, path, access) ==
  IF access = "public" /\ Place(path).reserved THEN "nothing"
  ELSE IF FileAt(files, path) # Absent THEN "file"
  ELSE IF BelowFile(files, path) THEN "error" ELSE "nothing"

(* The first of the texts that is a file or ends in an error.              *)
FirstRead(files, texts, access) ==
  LET ends == {i \in DOMAIN texts : Reading(files, texts[i], access) # "nothing"}
  IN  IF ends = {} THEN NoPath ELSE texts[Min(ends)]

Expected(files, rules) ==
  LET Response(status, path, body, meta) ==
        [status |-> status, path |-> path, body |-> body, meta |-> meta]
      Empty(status) == Response(status, NoPath, Absent, Absent)
      Read(status, path, access) ==
        IF Reading(files, path, access) = "error" THEN Empty(500)
        ELSE Response(status, path, FileAt(files, path), NamedAt(files, path))
      hit == FirstRead(files,
               <<plan.path>> \o IF rules.auto_rewrite_index
                                  THEN <<AutoIndexCandidate(plan.path)>> ELSE << >>,
               plan.access)
      served == Read(plan.status, hit, plan.access)
      page == CHOOSE page \in rules.missing.page \cup rules.missing.path : TRUE
      template == NamedAt(Templates(files), hit)
  IN  IF hit # NoPath /\ plan.params /\ served.body # Absent THEN
        IF template = Absent
          THEN {Response(415, hit, Absent, served.meta)}
          ELSE {served, Response(502, hit, Absent, served.meta)}
      ELSE IF hit # NoPath THEN {served}
      ELSE IF plan.miss = "not_found" THEN {Empty(404)}
      ELSE IF rules.missing.action = "redirect" THEN
        {Response(status, to, Absent, Absent) :
           status \in rules.missing.status, to \in rules.missing.to}
      ELSE IF rules.missing.page \cup rules.missing.path = {} THEN {Empty(404)}
      ELSE IF Reading(files, page, "public") = "nothing" THEN {Empty(404)}
      ELSE {Read(IF rules.missing.action = "serve" THEN 200 ELSE 404, page, "public")}

(* A request during which no activation is under way is answered from the   *)
(* active generation: its body, the rules that led to it and, where the     *)
(* path is spelled as the key of the object, its metadata and its template  *)
(* are all of that generation.  Spelled otherwise, a file has neither.      *)
QuietAnswersAreOfTheGeneration ==
  [][Replies /\ plan # NoPlan /\ ~overlapped /\ ~ReadFails =>
       answer' \in Expected(index, RulesOf(EdgeConfig(index)))]_servingVars

(* The status the edge hook that ended the chain answered with.            *)
HookSaysSo(status) == EdgeResponds \/ (request # Idle /\ request.status = status)

(* A listening server never answers 500 because it has no configuration or  *)
(* finds a directory where a file was, unless an activation put it there    *)
(* during the request.  A path that goes on below a file, an I/O error and  *)
(* a hook that says so are the other reasons.                               *)
ServerErrorsHaveACause ==
  [][answer' # answer /\ answer'.status = 500 =>
       \/ overlapped
       \/ ReadFails
       \/ HookSaysSo(500)
       \/ request # Idle /\ BelowFile(Live, request.path)]_servingVars

(* A redirect or rewrite goes to the most specific rule, wherever it stands *)
(* in the file: any order of the rules would lead the request to the same   *)
(* place.                                                                   *)
OrderOfRulesIsImmaterial ==
  [][Route => \A redirects \in Reordered(RulesOf(request.config).redirects),
                 rewrites \in Reordered(RulesOf(request.config).rewrites) :
       LET rules == [RulesOf(request.config) EXCEPT !.redirects = redirects,
                                                    !.rewrites = rewrites]
           found == FindRedirect(rules, request.url.path, request.url.query)
       IN  IF found = {}
             THEN plan'.path = RequestTarget(rules, request.url.path)
             ELSE found = {[status |-> answer'.status, location |-> answer'.path]}]_servingVars

(* "Request handling should use the latest activated snapshot": a file that *)
(* every generation active during the request holds is found.               *)
SteadyFilesAreFound ==
  [][Replies /\ plan # NoPlan /\ ~ReadFails /\ Place(plan.path).keys \cap steady # {}
        /\ ~(plan.access = "public" /\ Place(plan.path).reserved)
       => answer'.path = plan.path]_servingVars

(* Every request is answered, however files come and go under it.           *)
RequestIsAnswered == request # Idle ~> request = Idle
==============================================================================
