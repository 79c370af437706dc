-------------------------------- MODULE Server --------------------------------
(***************************************************************************)
(* The program as a whole: it reads its manifest, brings every origin up,  *)
(* reconciles the hosts of each with its CDN, starts the background loops, *)
(* compiles the host resolver and then listens.  Requests are routed by    *)
(* host to an origin; the origins are refreshed independently, by their    *)
(* loops and by operators.                                                 *)
(*                                                                         *)
(* A refresh is four steps here: it takes the lock of its origin, reads    *)
(* the storage, swaps the mirror and records what it activated.  It may    *)
(* fail, or its client may go away, before, between and after them.  That  *)
(* what it reads is one release is Publication; what happens inside the    *)
(* swap, and what is left when a refresh ends there, is OriginRefresh: an  *)
(* origin this happened to is "torn" here, and may show anything.  What a  *)
(* request meets inside an origin is OriginServing.                        *)
(***************************************************************************)
EXTENDS HostRouting

CONSTANTS
  OriginNames,   \* ids the manifests use
  Sites,         \* the manifests the operator starts the program with
  Visitors,      \* who asks for files
  HostHeader,    \* the Host header of each, and the host of its Origin
  NoSite,        \* no manifest has been read
  Hanging,       \* origins whose storage or CDN may never answer
  LastPublished, \* bound: releases per origin
  MaxFaults,     \* bound: errors of refreshes and cancelled syncs
  MaxCrashes     \* bound: crashes of the program

Outcomes == {"none", "submitted", "error"}
NoStatus == [release |-> 0, error |-> FALSE, domains |-> "none", known |-> FALSE]
Triggers == {"startup", "background", "manual"}

ASSUME ServerAssumption ==
  /\ LastPublished \in Nat \ {0} /\ MaxFaults \in Nat /\ MaxCrashes \in Nat
  /\ HostHeader \in [Visitors -> WrittenHost]
  /\ NoSite \notin Sites
  /\ Hanging \subseteq OriginNames
  /\ \A m \in Sites :
       /\ m.origins \in Seq([id : OriginNames, blank : SUBSET STRING, env : BOOLEAN,
            cdn : [provider : {"none", "cloudfront", "cloudflare", "cloudfront_saas"},
                   domains : BOOLEAN, include_wildcards : BOOLEAN, blank : SUBSET STRING]])
       /\ \A i, j \in DOMAIN m.origins : m.origins[i].id = m.origins[j].id => i = j
       /\ m.hosts \in Seq([key : WrittenHost, origin : OriginNames])
       /\ m.blank \subseteq STRING

VARIABLES
  site,      \* the manifest the process runs with
  phase,     \* "off", "down", "sync", "reconcile", "compile" or "listening"
  at,        \* the origin startup is working on
  source,    \* per origin, the release in its storage and whether it is acceptable
  refreshes, \* refreshes under way
  live,      \* per origin, the release its files are, 0 before the first swap
  torn,      \* origins of which a refresh ended between swap and snapshot
  status,    \* OriginRuntimeStore
  faults, crashes

serverVars == <<site, phase, at, source, refreshes, live, torn, status, faults, crashes>>

Unread == [release |-> 0, good |-> FALSE]

ServerInit ==
  /\ site = NoSite
  /\ phase \in {"off", "down"}
  /\ at = 1
  /\ source \in [OriginNames -> [release : {1}, good : BOOLEAN]]
  /\ refreshes = {}
  /\ live = [o \in OriginNames |-> 0]
  /\ torn = {}
  /\ status = [o \in OriginNames |-> NoStatus]
  /\ faults = 0
  /\ crashes = 0

------------------------------------------------------------------------------
(* The process.                                                            *)

(* What dies with a process; the storages stay.                            *)
Exit ==
  /\ phase' = "down"
  /\ site' = NoSite
  /\ at' = 1
  /\ refreshes' = {}
  /\ live' = [o \in OriginNames |-> 0]
  /\ torn' = {}
  /\ status' = [o \in OriginNames |-> NoStatus]

(* load_manifest, build_startup_origins and build_startup_cdn: a manifest  *)
(* that is not valid, or an environment variable that is not set, ends the *)
(* start before anything is fetched.                                       *)
Boot(m) ==
  /\ phase = "down"
  /\ ValidManifest(m) /\ \A i \in DOMAIN m.origins : m.origins[i].env
  /\ site' = m
  /\ phase' = "sync"
  /\ UNCHANGED <<at, source, refreshes, live, torn, status, faults, crashes>>

BootFails(m) ==
  /\ phase = "down"
  /\ ~(ValidManifest(m) /\ \A i \in DOMAIN m.origins : m.origins[i].env)
  /\ UNCHANGED <<site, phase, at, source, refreshes, live, torn, status, faults, crashes>>

Crash ==
  /\ phase \notin {"off", "down"}
  /\ crashes < MaxCrashes
  /\ crashes' = crashes + 1
  /\ Exit
  /\ UNCHANGED <<source, faults>>

------------------------------------------------------------------------------
(* Refreshes.                                                              *)

(* A slip in OriginRefreshLocks: one lock for all origins.                 *)
AnyRunning(o) == refreshes # {}

Running(o) == \E r \in refreshes : r.origin = o

Started(o, trigger) == [origin |-> o, trigger |-> trigger, read |-> Unread, swapped |-> FALSE]

(* A slip in refresh_origin: the lock is one of each trigger.              *)
BeginPerTrigger(o, trigger) ==
  /\ \A r \in refreshes : r.origin = o => r.trigger # trigger
  /\ refreshes' = refreshes \cup {Started(o, trigger)}
  /\ UNCHANGED <<site, phase, at, source, live, torn, status, faults, crashes>>

(* OriginRefreshLocks: AlreadyRunning leaves no trace.                     *)
Begin(o, trigger) ==
  /\ ~Running(o)
  /\ refreshes' = refreshes \cup {Started(o, trigger)}
  /\ UNCHANGED <<site, phase, at, source, live, torn, status, faults, crashes>>

(* sync_origins_at_startup takes one origin after the other.               *)
StartupSync ==
  /\ phase = "sync"
  /\ at <= Len(site.origins)
  /\ Begin(site.origins[at].id, "startup")

(* spawn_background_sync: one loop per origin, which nothing ends.         *)
BackgroundSync(o) ==
  /\ phase \in {"compile", "listening"}
  /\ o \in OriginIds(site)
  /\ Begin(o, "background")

(* sync_origin with the administrator's token; any other request is        *)
(* answered before the refresh service is asked.                           *)
ManualSync(o) ==
  /\ phase = "listening"
  /\ o \in OriginIds(site)
  /\ Begin(o, "manual")

ReadStorage(r) ==
  /\ r.read = Unread
  /\ refreshes' = (refreshes \ {r}) \cup {[r EXCEPT !.read = source[r.origin]]}
  /\ UNCHANGED <<site, phase, at, source, live, torn, status, faults, crashes>>

(* A slip in set_snapshot: the new snapshot replaces the old one.          *)
SetSnapshotAnew(o, release) ==
  status' = [status EXCEPT ![o] = [release |-> release, error |-> FALSE,
                                   domains |-> "none", known |-> TRUE]]

(* A slip in set_snapshot: only an origin that has a snapshot gets one.    *)
SetSnapshotOfKnown(o, release) ==
  status' = IF status[o].known
              THEN [status EXCEPT ![o] = [@ EXCEPT !.release = release, !.error = FALSE]]
              ELSE status

(* set_snapshot keeps what is known of the CDN.                            *)
SetSnapshot(o, release) ==
  status' = [status EXCEPT ![o] = [@ EXCEPT !.release = release, !.error = FALSE,
                                            !.known = TRUE]]

(* A slip in set_error: what failed starts from an empty snapshot.         *)
SetErrorAnew(o) ==
  status' = [status EXCEPT ![o] = [NoStatus EXCEPT !.error = TRUE, !.known = TRUE]]

SetError(o) == status' = [status EXCEPT ![o] = [@ EXCEPT !.error = TRUE, !.known = TRUE]]

(* swap_origin_dir: visitors get the files that were read, at once.  In a  *)
(* torn origin the diff starts from files that are not there any more.     *)
Swap(r) ==
  /\ r.read.good /\ ~r.swapped
  /\ refreshes' = (refreshes \ {r}) \cup {[r EXCEPT !.swapped = TRUE]}
  /\ \E release \in 0..r.read.release :
       /\ r.origin \notin torn => release = r.read.release
       /\ live' = [live EXCEPT ![r.origin] = release]
  /\ UNCHANGED <<site, phase, at, source, torn, status, faults, crashes>>

(* The store writes, of which operators see the last.  A purge may follow, *)
(* which changes nothing here.                                             *)
Activated(r) ==
  /\ r.swapped
  /\ refreshes' = refreshes \ {r}
  /\ SetSnapshot(r.origin, r.read.release)
  /\ phase' = IF r.trigger = "startup" THEN "reconcile" ELSE phase
  /\ UNCHANGED <<site, at, source, live, torn, faults, crashes>>

Tear(o, when) == torn' = IF when THEN torn \cup {o} ELSE torn

(* What was read is refused, or the storage returned an error, or, after   *)
(* the swap, the backup could not be removed.                              *)
MayFail(r) ==
  \/ r.read # Unread /\ ~r.read.good /\ UNCHANGED faults
  \/ faults < MaxFaults /\ faults' = faults + 1

(* A slip in sync_origins_at_startup: an error is logged and startup goes on. *)
FailedAnyhow(r) ==
  /\ MayFail(r)
  /\ refreshes' = refreshes \ {r}
  /\ SetError(r.origin)
  /\ Tear(r.origin, r.swapped)
  /\ phase' = IF r.trigger = "startup" THEN "reconcile" ELSE phase
  /\ UNCHANGED <<site, at, source, live, crashes>>

(* The loop logs the error, the operator gets a 500, and a start ends.     *)
Failed(r) ==
  /\ MayFail(r)
  /\ IF r.trigger = "startup"
       THEN Exit
       ELSE /\ refreshes' = refreshes \ {r}
            /\ SetError(r.origin)
            /\ Tear(r.origin, r.swapped)
            /\ UNCHANGED <<site, phase, at, live>>
  /\ UNCHANGED <<source, crashes>>

(* The client of a manual sync goes away: the lock is free, no error is    *)
(* set, and a rename may be under way or left undone.                      *)
Cancelled(r) ==
  /\ r.trigger = "manual"
  /\ faults < MaxFaults
  /\ faults' = faults + 1
  /\ refreshes' = refreshes \ {r}
  /\ \E renaming \in {r.swapped, r.read.good} : Tear(r.origin, renaming)
  /\ UNCHANGED <<site, phase, at, source, live, status, crashes>>

(* The mirror of a torn origin is gone, comes back or is another one, as   *)
(* renames nobody awaits come to run.                                      *)
LooseRename(o) ==
  /\ o \in torn
  /\ \E release \in 0..source[o].release : live' = [live EXCEPT ![o] = release]
  /\ UNCHANGED <<site, phase, at, source, refreshes, torn, status, faults, crashes>>

Refresh(r) == ReadStorage(r) \/ Swap(r) \/ Activated(r) \/ Failed(r)

------------------------------------------------------------------------------
(* After the first activation of an origin, its hosts are reconciled with  *)
(* its CDN, if it has one that manages them; an error ends nothing.        *)

ManagesDomains(cdn) == cdn.provider = "cloudfront_saas" \/ (cdn.provider # "none" /\ cdn.domains)

(* What reconciling the hosts of an origin asks its CDN for.               *)
CdnHosts(m, origin) ==
  IF origin.cdn.provider = "cloudfront_saas" THEN ExactHosts(m.hosts, origin.id)
  ELSE IF ManagesDomains(origin.cdn)
    THEN DesiredDomains(m.hosts, origin.id, origin.cdn.include_wildcards)
    ELSE {}

(* set_cdn_domain_result and set_cdn_domain_error: nothing, if the origin  *)
(* has no snapshot.                                                        *)
SetDomains(o, outcome) ==
  status' = IF status[o].known THEN [status EXCEPT ![o].domains = outcome] ELSE status

Reconcile ==
  /\ phase = "reconcile"
  /\ phase' = "sync"
  /\ at' = at + 1
  /\ LET origin == site.origins[at] IN
     IF ManagesDomains(origin.cdn)
       THEN \E outcome \in {"submitted", "error"} : SetDomains(origin.id, outcome)
       ELSE UNCHANGED status
  /\ UNCHANGED <<site, source, refreshes, live, torn, faults, crashes>>

SpawnLoops ==
  /\ phase = "sync"
  /\ at > Len(site.origins)
  /\ phase' = "compile"
  /\ UNCHANGED <<site, at, source, refreshes, live, torn, status, faults, crashes>>

(* HostResolver::new, the last thing that may end a start.                 *)
Listen ==
  /\ phase = "compile"
  /\ IF Compiles(site.hosts)
       THEN phase' = "listening" /\ UNCHANGED <<site, at, refreshes, live, torn, status>>
       ELSE Exit
  /\ UNCHANGED <<source, faults, crashes>>

(* A publisher replaces the contents of an origin as a whole.              *)
Publish(o) ==
  /\ phase # "off"
  /\ source[o].release < LastPublished
  /\ \E good \in BOOLEAN :
       source' = [source EXCEPT ![o] = [release |-> @.release + 1, good |-> good]]
  /\ UNCHANGED <<site, phase, at, refreshes, live, torn, status, faults, crashes>>

ServerNext ==
  \/ \E m \in Sites : Boot(m) \/ BootFails(m)
  \/ Crash
  \/ StartupSync \/ Reconcile \/ SpawnLoops \/ Listen
  \/ \E o \in OriginNames : BackgroundSync(o) \/ ManualSync(o) \/ Publish(o) \/ LooseRename(o)
  \/ \E r \in refreshes : Refresh(r) \/ Cancelled(r)

ServerSpec == ServerInit /\ [][ServerNext]_serverVars

(* The startup code, the loops and the refreshes they start go on, except  *)
(* where a storage or a CDN hangs; the CDN calls of Reconcile answer.      *)
(* Nobody has to start the program, publish, or ask for a sync.            *)
ServerFairness ==
  /\ WF_serverVars(StartupSync \/ Reconcile \/ SpawnLoops \/ Listen)
  /\ \A o \in OriginNames \ Hanging :
       /\ WF_serverVars(BackgroundSync(o))
       /\ WF_serverVars(\E r \in refreshes : r.origin = o /\ Refresh(r))

------------------------------------------------------------------------------
(* The mirror has been swapped and the snapshot is not written yet.        *)
Activating(o) == \E r \in refreshes : r.origin = o /\ r.swapped

(* Every variable has the shape of the structure it stands for.            *)
ServerTypeOK ==
  /\ site \in Sites \cup {NoSite}
  /\ phase \in {"off", "down", "sync", "reconcile", "compile", "listening"}
  /\ (site = NoSite) <=> phase \in {"off", "down"}
  /\ at \in Nat \ {0}
  /\ source \in [OriginNames -> [release : Nat \ {0}, good : BOOLEAN]]
  /\ refreshes \subseteq [origin : OriginNames, trigger : Triggers,
                          read : [release : Nat, good : BOOLEAN], swapped : BOOLEAN]
  /\ live \in [OriginNames -> Nat]
  /\ status \in [OriginNames -> [release : Nat, error : BOOLEAN, domains : Outcomes,
                                 known : BOOLEAN]]
  /\ torn \subseteq OriginNames
  /\ \A o \in OriginNames : live[o] # 0 => status[o].known \/ Activating(o)
  /\ faults \in Nat /\ crashes \in Nat

(* The resolver a process with manifest m compiles, for every visitor.     *)
Routing == [m \in Sites |-> [v \in Visitors |-> Resolve(m.hosts, HostHeader[v])]]

(* What a GET of a file every release holds is answered.                   *)
Answer(v) ==
  LET rule == Routing[site][v] IN
  IF rule = 0 THEN [status |-> 421, release |-> 0]
  ELSE LET release == live[site.hosts[rule].origin] IN
       [status |-> IF release = 0 THEN 500 ELSE 200, release |-> release]

Listening == phase = "listening"

(* The visitor's host leads to an origin whose files Server knows.         *)
Unharmed(v) == Routing[site][v] # 0 => site.hosts[Routing[site][v]].origin \notin torn

(* "The first sync for every configured origin must complete before         *)
(* RenderMesh accepts traffic": a host that leads to an origin leads to one *)
(* that has an active generation, whatever failed and restarted before.     *)
RoutedHostsAreServed ==
  Listening => \A v \in Visitors : Unharmed(v) => Answer(v).status # 500

(* The names a key of the table stands for, read from its meaning alone.   *)
Names == {NormalizeHost(HostHeader[v]) : v \in Visitors} \ {NoName}
Denoted(key) ==
  IF IsGlobal(key) THEN Names
  ELSE IF IsWildcard(key) THEN
    {name \in Names : \E k \in 1..Len(name) - 1 :
       SubSeq(name, k + 1, Len(name)) = WildcardSuffix(key)}
  ELSE {NormalizeHost(key)}

(* The table is compiled once, when a process starts: exact, wildcard and   *)
(* global hosts compete for a request.  The rule that decides stands for    *)
(* it, and no rule that stands for fewer names does.                        *)
MostSpecificRules(m) ==
  \A v \in Visitors :
    LET name == NormalizeHost(HostHeader[v])
        rules == {i \in DOMAIN m.hosts : name \in Denoted(m.hosts[i].key)}
        rule == Routing[m][v]
    IN  IF name = NoName \/ rules = {} THEN rule = 0
        ELSE /\ rule \in rules
             /\ \A i \in rules : Denoted(m.hosts[rule].key) \subseteq Denoted(m.hosts[i].key)

RoutedAsMeant == {m \in Sites : MostSpecificRules(m)}
HostsGoToTheMostSpecificRule == Listening => site \in RoutedAsMeant

(* CORS is compiled from the same table by other code: a page may read from *)
(* the origin that serves it, and every page that may read from an origin   *)
(* is on a host of that origin; the global host admits nobody.              *)
PagesReadTheirOrigin(m) ==
  \A v \in {v \in Visitors : NormalizeHost(HostHeader[v]) # NoName} :
    LET page == [https |-> TRUE, bare |-> TRUE, default_port |-> TRUE, host |-> HostHeader[v]]
        Stands(i) == /\ ~IsGlobal(m.hosts[i].key)
                     /\ NormalizeHost(HostHeader[v]) \in Denoted(m.hosts[i].key)
        rule == Routing[m][v]
    IN  /\ rule # 0 /\ Stands(rule) => Allows(m.hosts, m.hosts[rule].origin, page)
        /\ \A o \in OriginNames : Allows(m.hosts, o, page) =>
             \E i \in DOMAIN m.hosts : m.hosts[i].origin = o /\ Stands(i)

ReadAsMeant == {m \in Sites : PagesReadTheirOrigin(m)}
CorsFollowsHosts == Listening => site \in ReadAsMeant

(* The names a CDN sends on for a host of its list.                        *)
NamesAt(host) ==
  IF Head(host) # Star THEN {host}
  ELSE {name \in Names : \E k \in 1..Len(name) - 1 : SubSeq(name, k + 1, Len(name)) = Tail(host)}

(* The hosts a CDN was told to send to the server for an origin come back   *)
(* to that origin: the resolver reads each of them as the code that wrote   *)
(* the CDN's list did, or leaves a name to a rule for fewer names.  Two     *)
(* keys of the table that are one host go to the origin of one of them.     *)
CdnListsAreRouted(m) ==
  \A k \in DOMAIN m.origins : \A host \in CdnHosts(m, m.origins[k]) : \A name \in NamesAt(host) :
    LET rule == Resolve(m.hosts, [labels |-> name, port |-> "none"]) IN
    /\ rule # 0
    /\ \/ m.hosts[rule].origin = m.origins[k].id
       \/ NamesAt(host) \ Denoted(m.hosts[rule].key) # {}
       \/ \E i \in DOMAIN m.hosts :
            /\ m.hosts[i].origin = m.origins[k].id
            /\ Denoted(m.hosts[i].key) = Denoted(m.hosts[rule].key)

ListedAsMeant == {m \in Sites : CdnListsAreRouted(m)}
CdnHostsComeBack == Listening => site \in ListedAsMeant

(* GET /_rendermesh/origins of a server that listens: every origin is       *)
(* there, with the outcome of its CDN hosts, which refreshes do not forget, *)
(* and with the release its visitors get, also after failures.  That is not *)
(* so while an activation is between swap and snapshot, nor in an origin    *)
(* torn by a refresh that ended there.                                      *)
OperatorsSeeEveryOrigin ==
  Listening => \A i \in DOMAIN site.origins :
    LET o == site.origins[i].id IN
    /\ status[o].known
    /\ status[o].release = live[o] \/ Activating(o) \/ o \in torn
    /\ ManagesDomains(site.origins[i].cdn) => status[o].domains # "none"

(* A visitor who has seen a release does not see an older one as long as    *)
(* the process lives, although loops and operators refresh side by side and *)
(* fail at any point, unless the origin is torn.                            *)
ReleasesOnlyMoveForward ==
  [][Listening /\ Listening' =>
       \A v \in Visitors : Unharmed(v)' => Answer(v).release <= Answer(v)'.release]_serverVars

(* Refinement, one origin at a time.                                       *)
releasesRead(o) ==
  {r.read.release : r \in {r \in refreshes : r.origin = o /\ r.read # Unread /\ ~r.swapped}}

Origin(o) == INSTANCE WholeReleases WITH
  release <- source[o].release, whole <- TRUE,
  read <- releasesRead(o), active <- {live[o]} \ {0}

(* Startup, loops, operators, crashes, failures and the refreshes of other  *)
(* origins do not get between what a refresh has read and what it           *)
(* activates: each origin that is not torn behaves as if it were alone.     *)
OriginsTakeWholeReleases ==
  /\ \A o \in OriginNames : Origin(o)!Init
  /\ [][\A o \in OriginNames \ torn : [Origin(o)!Next]_(Origin(o)!vars)]_serverVars

(* What a publisher leaves in a storage is served in the end, whatever      *)
(* failed on the way and however long other origins hang, in an origin that *)
(* is not torn.                                                             *)
PublicationsReachVisitors ==
  \A o \in OriginNames \ Hanging :
    Listening /\ o \in OriginIds(site) /\ source[o] = [release |-> LastPublished, good |-> TRUE]
      ~> ~Listening \/ o \in torn \/ live[o] = LastPublished
==============================================================================
