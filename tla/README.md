# RenderMesh: a verification development

RenderMesh mirrors static sites ("origins") from object storage to local disk and
serves them over HTTP, with an edge configuration and Handlebars templates that
live next to the content, and keeps the CDN in front of it up to date. This
directory holds TLA+ models of that program, the TLC runs that check them on
small instances, and proofs for the TLA+ proof system.

Paths below are relative to `src/src/` unless they start with `src/`.
`PROJECT.json` maps every definition to the lines it models; comments in the
modules that begin with "A slip in" introduce the mutated forms of definitions
that show each property can fail.

## 1. The system

### 1.1 Components

**Origin refresh** (`services/origin_refresh.rs`, `repositories/sync.rs`).
State: the set of origins being refreshed (`OriginRefreshLocks`), the mirror
`<root>/<origin>`, a staging directory and a backup directory next to it.
`refresh_origin` takes the lock, copies the mirror into a staging directory, lists
the remote storage, diffs the listing with the index of the active generation,
downloads what changed, deletes what is gone, checks the activation barrier,
parses the edge config and compiles the templates *from the staged files*, swaps
staging and mirror by two renames, writes four stores, and asks the CDN to purge.
Callers: the startup sync, one background loop per origin, and
`POST /origins/{id}/sync`. Hard: three kinds of callers compete for the lock; the
handler's future may be dropped at any await while blocking file operations go on;
every step can fail; a process may die between any two; readers on other threads
see every intermediate state.
*Correct when* at most one refresh runs and its lock is given back however it ends; a
refresh that fails leaves the previous generation whole; mirror, configuration,
templates and index change as one; what was rejected is never live; generations
are numbered without gaps; the URL of every object that changed is purged.

**Freshness and preparation** (`services/freshness.rs`, `services/template_store.rs`,
`services/cdn_refresh.rs`). Pure: index, diff, barrier check, choice of the edge
config file, incremental compilation of templates, purge plan. Hard: the template
registry is patched diff by diff for the life of the process; the purge plan names
one URL for each changed key, `/` and the key, while the CDN caches answers under others too.
*Correct when* patching equals compiling everything again, and the plan covers the URL of
every key that differs.

**Stores** (`services/edge_config_store.rs`, `services/template_store.rs`,
`services/origin_runtime.rs`). Maps behind locks of their own, written one after
another by the refresh and read at any time by requests and by the status route. The
status snapshot of an origin has several writers: a refresh that succeeded, one that
failed, and the CDN reconciliation, which stores nothing if there is no snapshot yet.
*Correct when* the status route shows every origin with the outcome of its CDN hosts, which
later refreshes do not forget, and with the release its visitors get, once the refresh that
swapped the files has written its snapshot.

**Publication and storage** (`repositories/s3_storage.rs`,
`repositories/local_directory_storage.rs`, and a publisher that is not part of the
repository). A listing is read page by page, or file by file, and downloads follow
it, while a publisher replaces the objects. The activation barrier and the check
that a download is the object that was listed are what holds this together.
*Correct when* only whole publications are activated, and the last one is.

**Mirror layout** (`repositories/sync.rs` at file level). Keys become paths:
directories, object files and a metadata sidecar per object.
Hard: keys are text and paths are normalised: `a//b` and `a/b` are two keys and one file, each
with a sidecar of its own, and a folder marker `a/` is a key with no file; a swap may fail when
the old files are gone.
*Correct when* an active generation has exactly the sidecars of the listed keys, and of every
key with a file of its own that file, after any sequence of diffs, failures and restarts.

**Render gateway** (`services/render_gateway.rs`, `services/edge_hooks.rs`,
`repositories/edge_http.rs`, `repositories/local_mirror.rs`). Per request: the
origin's configuration is read once; edge hooks are called one after another and
may continue, answer, serve another file or render; redirects; static rules;
index candidate; missing-file behaviour; body, sidecar and template are read by
separate awaits. Hard: every read may fall on another side of an activation, and the
reserved prefix, the sidecar and the template go by the text of a path whose body the file
system finds under any spelling.
*Correct when* a request that overlaps no activation is answered from one
generation as its rules prescribe, and every request is answered.

**CloudFront SaaS tenants** (`repositories/cloudfront_saas_cdn.rs`,
`.../aws_client.rs`, `services/cdn_tenants.rs`). After an activation: list the
tenants of the distribution page by page and create an invalidation in each. Once
after startup: look up the tenant of every exact host, create or update it with
`If-Match`. State is at AWS and shared with other processes and operators; calls
fail before or after their effect.
*Correct when* what is the operator's of a tenant is never overwritten (whether it is enabled,
and its settings, are RenderMesh's), only tenants that are RenderMesh's to change are changed, "submitted" is true, and a purge misses no
tenant, also after restarts, when generation numbers start again.

**DNS records and aliases** (`repositories/cloudflare_cdn.rs`,
`repositories/cloudfront_cdn.rs`, `services/cdn_domains.rs`). At startup, origin by
origin: list, then create, update and delete from that listing (Cloudflare), or
read and write back the distribution's configuration (CloudFront).
*Correct when* desired domains are never lost, a record or alias made since the zone was read
is left alone, and "submitted" is true.

**Host routing and CORS** (`services/manifest.rs`, `services/cors.rs`, the lists of hosts
in `services/cdn_domains.rs`, `services/cdn_tenants.rs` and `services/startup/cdn.rs`).
Pure, but four readers parse the keys of one `hosts` table separately: the resolver,
the CORS policy, and two lists for the CDN. Hard: exact, wildcard and global keys compete,
keys differ in case and port, and the readers may disagree.
*Correct when* the most specific key wins, CORS admits exactly the pages on an origin's
hosts, and a host a CDN was told to send here for an origin comes back to that origin.

**Static rules and edge config** (`services/static_rules.rs`, `services/edge_config.rs`).
Pure: ranking of redirects and rewrites, splats, root object and index candidate, the
object a path names, what is reserved, and the validation of a configuration.
*Correct when* the rule that applies does not depend on the order of the rules.

**Startup** (`services/startup.rs`, `services/startup/*`, `services/manifest/*`). Manifest,
environment, then for every origin one sync (an error ends the program) and the
reconciliation of its hosts at the CDN (an error does not), the background loops, the host
resolver (an error ends the program again), the listener. Hard: what is already running when
a late step fails, and what a restart finds.
*Correct when* a server that listens has an active release for every host it routes.

**HTTP shell** (`routes/*`, `config.rs`, `state.rs`, `main.rs`): wiring, extraction and
formatting; keeps no state of its own.

### 1.2 Interactions

    publisher --> storage --list/get--> refresh --rename--> mirror <--read-- gateway <-- hosts table
                                           |--set--> stores  <---------read---|             |
                                           `--purge--> CDN <--reconcile-- startup <---------'

Manual syncs and background loops meet at the lock only; refresh and gateway meet
at the mirror and the stores, with no lock around both; refresh and publisher meet
at the storage with no lock at all; processes meet each other and operators at the
CDN provider; startup, loops and manual syncs of all origins meet in the status store.

## 2. The modules

| Module | Models | Depends on |
|---|---|---|
| `OriginFreshness` | index, diff, barrier, edge config, templates: operators, no state | |
| `CdnRefresh` | the URLs a purge names, and those the CDN caches: operators, no state | `OriginFreshness` |
| `AtomicOrigin` | the promise: a generation is replaced whole or not at all | `OriginFreshness` |
| `OriginRefresh` | one origin, all tasks that refresh it, faults; implements `AtomicOrigin` | `CdnRefresh`, `AtomicOrigin` |
| `StaticRules` | redirects, rewrites, paths and object keys, edge config validation: operators | |
| `OriginServing` | requests composed with `OriginRefresh` | `OriginRefresh`, `StaticRules` |
| `HostRouting` | the hosts table, its four readers, manifest validation: operators | |
| `Server` | the program: start, crash, loops and manual syncs of several origins, visitors, status; each origin implements `WholeReleases` | `HostRouting`, `WholeReleases` |
| `WholeReleases` | the promise to a publisher: a release is read and activated whole or not at all | |
| `Publication` | publisher, listing, downloads, barrier; implements `WholeReleases` | `OriginFreshness`, `WholeReleases` |
| `Service` | the two ends of a publication: storage to activation, activation to visitors | `Publication`, `Server` |
| `MirrorLayout` | the directories behind `OriginRefresh`'s mirror | `OriginFreshness` |
| `DistributionTenants` | purge and reconciliation of CloudFront SaaS tenants | |
| `DomainRecords` | DNS records and distribution aliases | |
| `CdnReconciliation` | a start of the program at its CDN: the two above | both |
| `OriginRefresh_proofs` | types, mutual exclusion, numbering, under every fault | `OriginRefresh` |
| `Acceptance_proofs` | only accepted files are live, under every fault | `OriginRefresh_proofs` |
| `Activation_proofs` | atomicity, refinement, purge plan, freshness, the first generation of a process | `OriginRefresh_proofs` |
| `Serving_proofs` | order of rules, server errors, quiet answers, steady files, what is never served, types | `OriginServing`, `Acceptance_proofs`, `Activation_proofs` |
| `Server_proofs` | routed hosts, the hosts table, status, releases, refinement | `Server` |
| `Publication_proofs` | no mixed generation, refinement | `Publication` |
| `MirrorLayout_proofs` | trees, mirror and sidecars, what can be refused | `MirrorLayout` |
| `Cdn_proofs` | tenants, purges, records and aliases | `CdnReconciliation` |
| `MC_*` | values of the constants for the runs | |

How the pieces fit. `Publication` shows what a refresh may be given by the storage
and takes an activation for one step. `OriginRefresh` takes *any* listing and shows
that its activation is one step to those who look when no refresh runs, and which
steps it has for those who do not wait. `MirrorLayout` takes the activation for one
step and shows that the mirror `OriginRefresh` treats as a function from keys to
file states is one. `OriginServing` puts requests between the steps of
`OriginRefresh`. `Server` takes a refresh to be four steps, the lock, the reading of
one whole release, the swap and the record of the activation, with failures and cancelled
clients in between. That what is read is one release is what `Publication` shows; what
happens inside the swap is `OriginRefresh`'s, and an origin in which a refresh ended there is
`torn` in `Server` and may show anything. `Server` goes on to several origins and the hosts
that lead to them. `Service` puts the ends of this chain side by side; a behaviour looks at one of
them: at `Publication` where `phase` is "off", at `Server` otherwise. That the two ends fit
is not left to the reader: `WholeReleases` is four variables, the last release, whether the
storage is whole, what a refresh has read and what is active, and both ends are shown to
implement it, `Publication` object by object and `Server` for each of its origins.

### 2.1 State and actions

**A file state** (`Contents`) stands for body, size, etag, dates and content type
together: two states are equal exactly when `same_source_state` says so. An index is
a function from keys to file states or `Absent`.

**`OriginRefresh`**. `lock` is `OriginRefreshLocks`; `pc[t]` is the await task `t` is
at and `job[t]` the locals of its refresh; `mirror`, `config`, `registry`, `index`,
`runtime` are the directory and the four stores; `detached` holds renames that run
for a dropped future; `cdnStale` the URLs for which the CDN may still hold an outdated
answer, and `unpurged` those of them that a purge was to cover and did not (history
variables: the code has no such state). Every await is an action and
so is every store write. `FailBeforeSwap` stands for whatever fails before the first
rename; `MoveStagingInFails`, `RestoreOld`, `RestoreFails`, `RemoveBackupFails` for
what fails in the swap; `PurgeFails` for a provider that fails after any part of its
items; `Cancel` for a client that goes away (hyper drops the future, the guard with
it; a rename handed to the blocking pool still runs, by `RunDetached`); `Crash` and
`ExitAfterFailedStartup` for the end of the process. Rename onto a directory
succeeds only if that is absent or empty, as on POSIX. The lock, the diff's previous
index, the copy of the mirror, the listing, each download, the deletions, the
preparation, both renames, the removal of the backup, the four stores and the purge
follow one another as in the code.

**`CdnRefresh`**. `ObjectUrl` is the URL the plan makes from a key, `MadeFrom` the files an
answer under a URL is made of: a directory URL, a rewritten path or a page below a changed
edge config is made of files whose keys give other URLs. `PurgePlan` is a set of URLs, empty
where no request is made. `PurgeReach` are the URLs a strategy can keep up with.

**`Publication`**. `remote` is the storage; the publisher's actions follow the
protocol of `src/README.md` (invalid barrier, objects in any order, valid barrier) and
are marked external. A listing reads one object per step, in an order that extends
`ListedBefore`: key order for a bucket, none for a directory. `DownloadObject` demands
that the object still is the one listed; `Reject`, `StorageError`, `Restart` end an
attempt.

**`StaticRules`**. A path, a pattern, an object key or a location is a *text*: a sequence of
pieces, where the pieces that matter (`/`, a final `*`, `:splat`, `?`, `..`, the reserved
names) are constants and any other run of characters is one piece. `Rank` is the ranking of
`PatternMatch` (an exact pattern before a wildcard, a longer prefix before a shorter, the last
of equals), then come the splat, the root object, the index candidate, `ObjectKey` for what
`normalize_object_path` accepts and returns, the reserved names, and `ValidEdgeConfig` with
the defaults. `FilePath` is what the file system makes of a key, without doubled slashes and
`.` segments; `IsReserved` goes by the text, as the code does.

**`OriginServing`**. `request` holds the locals of one request, `plan` what the static
file code was first asked to serve, `answer` the response. The configuration is read
once (`Arrive`); hooks (which fail, continue, or with a status of theirs respond, name a file
or render the target), the routing by `StaticRules` (`Route`), stat, body, sidecar and template are steps, and
`NotServed` is the index candidate and then the missing behaviour of the configuration. A
request dies with its process. `overlapped` and `steady` record what happened during the
request and are only used by properties. Rules, keys and requests are constants, so
`Decisions` and `Places` compute what the rules make of each request, and of each path the
key it is spelled as (`named`, for sidecar and template), the key whose file it opens (`keys`),
and those it contains or lies below. `ReadFails` is any other I/O error.

**`HostRouting`**. A host is a sequence of labels and what follows its last colon.
`NormalizeHost` lowers the labels and refuses what `normalize_host` refuses. `Resolve`
follows `HostResolver`: the exact map, of which the last of two keys for one host stays;
the wildcards sorted by the length of the suffix, where the first of equals stays; the
global host. `Allows` is the CORS policy, `CdnHost`, `DesiredDomains` and `ExactHosts` are
the lists for the CDN, `ValidManifest` the validation of the manifest.

**`Server`**. `site` is the manifest of the process, `phase` and `at` say how far startup
has come, `source` is what publishers left in each storage and whether it will be accepted,
`refreshes` the refreshes under way with what they have read, `live` the active release of
every origin and `status` the `OriginRuntimeStore`. `Boot` and `BootFails` stand for the
manifest and the environment, `StartupSync` and `Reconcile` alternate origin by origin,
then `SpawnLoops` and `Listen`; loops and operators begin refreshes by `BackgroundSync` and
`ManualSync`, which read (`ReadStorage`), swap the mirror (`Swap`, from where visitors get the
new files) and record it (`Activated`, from where operators see it). They may end at any point
as `Failed`, which sets the error, or as `Cancelled`, when the client of a manual sync goes away
and nothing is set; where that is in the swap the origin is `torn`, its later refreshes may put
any release in place, and renames nobody awaits may still run (`LooseRename`). A failed
startup sync ends the process like `Crash`. `Publish` is external.

**`MirrorLayout`**. A `Tree` is files, directories and sidecars. Keys are texts: `OnDisk` is the
plain spelling of the file a key is written to, and `Folders` the keys that end in a slash or
a dot. `WriteObject` makes the parent directories and fails on a file or directory in its way
and on a folder; pruning removes the files whose plain spelling is not listed and the
sidecars of no listed key, and never a directory. `SwapTears` is a swap that fails with the
old files gone; `torn` remembers it until the next start.

**`DistributionTenants`**. `tenants` is the state at CloudFront, with an ETag per
tenant; `replica[r]` the locals of each process. Every API call is a step, may fail
without effect, and, if it changes something, may take effect and fail. Operators
edit one thing at a time. `held` and `meddled` are history variables.

**`DomainRecords`**. `zones` is the state at Cloudflare or CloudFront; `worker[p]` the
locals of the reconciliation of the origin at the head of `order`. A zone of provider
`cloudflare` is reconciled record by record (`ListRecords`, `ApplyDomain`,
`DeleteExtra`, `ZoneDone`), a distribution by `GetDistribution` and `PutDistribution`.
Record ids and ETags are numbers, new for every change.
`configs` is the rest of a distribution that matters, its certificate and what its default
behaviour targets: an origin with our domain name, with another, or a group of origins, in
which the code updates nothing and reports no error. `DesiredDomains` leaves wildcard hosts out
where `include_wildcards` is not set. The origins of one zone are taken to have the same
`origin_domain` (the load balancer of the program), certificate and proxied flag. `touched`,
the origins whose zone an operator edited since it was listed, is a history variable.

## 3. The runs

| Run | Question | Bounds |
|---|---|---|
| `refresh_all_faults` | mutual exclusion, rejected files, numbering under every fault | 2 keys (an edge config file, an HTML page), 1 good and 1 bad state, 3 tasks, 2 generations |
| `refresh_atomic` | atomicity as refinement, the purge, release of the lock; crashes and failing purges | 2 keys, 3 URLs (one of each key, and one made of both files), 3 states (one a page but no configuration, one neither), 3 tasks, 3 generations |
| `refresh_cleanup_fault` | counterexample: the backup cannot be removed | 2 keys, 2 generations |
| `refresh_cancelled` | counterexample: cancelled manual sync | 2 keys, 3 generations |
| `publication` | barrier protocol with key-ordered listing, safety and liveness; the program with several origins, safety and liveness; the specification the two share | 3 keys, 3 publications, 2 failures; 2 origins, 5 manifests (2 that serve, 3 with which a start ends), 8 visitors, 2 releases per origin, 1 failed refresh or cancelled sync, 1 crash, 1 origin whose storage may hang |
| `publication_any_order` | counterexample: listing in any order | the same, no failures |
| `serving` | answers, routing and termination of requests during refreshes | 2 keys (config, index object of a directory), 3 states (three configurations, one invalid), 2 generations, 2 URLs (a directory, a path below a file), 3 files a hook may name (a reserved one, another spelling of the page, a refused one), 2 statuses of hooks (201, 500) |
| `serving_window` | counterexample: between the renames | 1 key, 1 URL, 2 generations |
| `layout` | tree, sidecars, mirror | 4 keys (`docs`, `docs/index.html`, `docs//index.html`, the folder `docs/`), 2 states |
| `layout_kind_change` | counterexample: a file becomes a directory | the same |
| `cdn` | tenants, records and aliases with two processes and an operator | 2 hosts, 2 tenants, pages of 1; 2 origins in 1 or 2 zones of either provider, 5 names (one of a wildcard host), a first page of 2 records; 2 starts, 1 edit |
| `cdn_shared_zone` | counterexample: two origins, one zone, extra domains removed | the same names, 2 starts |

Why the bounds suffice to show the interesting cases:

- Two keys let a configuration and a page change in different generations, so that
  mixtures exist; with one state that is a good page and no configuration, each check
  of the preparation can be the one that rejects. Three tasks are a holder, a
  competitor, and a third that comes after a cancelled holder while its rename still
  runs. `MaxGeneration` only stops new refreshes; 3 gives an activation with no
  previous index, one with, and one after a restart.
- Three publications are the least in which an object returns to an earlier state
  (so that an old download would match), one is deleted, and a publisher abandons one
  and starts the next. Two failures allow an error and a restart in one behaviour.
- Of the five manifests one has every kind of key competing for the same hosts, two keys for
  one host among them, and an origin with SaaS tenants; one has managed domains with
  wildcards; the others lack a field, name an origin that is not there, or have a host the
  resolver refuses, which is found only after the loops were spawned. The visitors' hosts
  differ in case, port and depth, and one is malformed. Two releases, one error and one crash
  let a restart find a storage that is worse or better than before.
- In `serving` the three configurations give one URL a redirect, a rewrite or neither, and
  have hooks, candidates and each kind of missing behaviour; a directory and a path below a
  file are the two ways in which the disk answers with more than "found" or "not found".
- In `layout`, a page and its index object with `Below` between them make the page a file in
  one generation and a directory in the next; the index object has a second spelling, and
  the page a folder marker.
- In `refresh_atomic` the third URL stands for all that are out of the reach of
  `changed_paths`; a purge fails after any part of its plan.
- A page size of 1 makes the marker logic run with two tenants; two processes make
  create race create and update race update; one edit falls anywhere between a read
  and its write. A first page of 2 records hides records of the given zone.
- `cdn` has symmetry under exchanging the two processes, sound because they run the
  same program and none of its properties is a liveness property.

- `publication` explores the two ends of `Service` in one run, as behaviours with `phase`
  "off" and others; every property is of one end and holds trivially at the other, so its
  mutants are what shows that it is not vacuous.

Deadlock is checked except in `refresh_cancelled`, `refresh_cleanup_fault`, `cdn` and
`cdn_shared_zone`, where the bounds on generations, starts and edits let an instance
stop.

### 3.1 What the properties say

`RefreshMutex`: one refresh at a time, and its lock is never left behind by one that ended.
`LockIsReleased`: if the lock is kept for good, then the storage or the CDN owes its holder an
answer for good; neither client has a timeout for a whole call. `LiveFilesWereAccepted`: under every fault, cancellation included, files that
must be rejected are never in the mirror of a listening server.
`ActivationsAreNumbered`: no two activations of a process share a number.
`ActiveGenerationIsWhole`, `ImplementsAtomicOrigin`: stores and mirror are one
generation. `PurgeCoversSwap`: the remembered index finds every key the swap changed, and
the plan has its URL; the first diff of a process may miss paths that were *removed* while it
was down, and the property says so. `OnlyFailedPurgesLeaveStale`: when no refresh runs, an
outdated answer the CDN holds for a URL within `PurgeReach` is one a failed or half-done purge
was to cover. With `changed_paths`, answers under any other URL may stay outdated until the CDN
lets them expire; the property promises nothing of them. `NoMixedGeneration`, which only the counterexample checks: see `Publication`.
`ImplementsWholeReleases`, `OriginsTakeWholeReleases`: the storage end and every origin of
the program are steps of `WholeReleases`; the first implies `NoMixedGeneration`, a mixture
being no release that was ever read. In the storage end a refresh has *read* a release
from the moment at which its listing read that release's barrier; whatever it lists and
downloads later must be of that moment, or may never be activated.
`QuietAnswersAreOfTheGeneration` compares the answer of the step-by-step pipeline with
a direct definition (`Expected`) of what the active generation prescribes: the body of the
file a path opens, with metadata and template only where the path is spelled as the key.
`ServerErrorsHaveACause`: a 500 needs an activation during the request, a path that goes on
below a file (where the file system does not answer "not found"), another I/O error, or a hook
that answers 500; in particular it is never for want of a configuration.
`OrderOfRulesIsImmaterial`: the redirect or target of a request is that of any order of
the rules, when no two are for one pattern. `RequestIsAnswered`, `SteadyFilesAreFound`: see
`OriginServing`.
`RoutedHostsAreServed`: a listening server has an active release for every host that leads
to an origin. `HostsGoToTheMostSpecificRule` reads the meaning of a key (`Denoted`, the set
of its names) and asks that the rule that decides stand for the fewest names.
`CorsFollowsHosts`: a page may read from the origin that serves it, and only from origins
one of whose hosts it is on. `CdnHostsComeBack`: what a CDN was told to send here for an
origin is resolved to it, unless a rule for fewer names, or another key for the very same
names, takes it. `OperatorsSeeEveryOrigin`: the status route shows every origin with the outcome of its CDN
hosts and the release its visitors get, but for the time between a swap and its snapshot, and
for torn origins. `ReleasesOnlyMoveForward`: no visitor sees an older release than before.
`PublicationsReachVisitors`: the last release is served in the end, whatever failed on the way
and however long another origin hangs. These and `RoutedHostsAreServed` leave torn origins out:
runs 1 and 2 of section 4 are about them. `PublicationIsServed`: a process that is up
activates the last publication or ends.
`DirectoriesAreTrees`: nothing is file and directory at once. `MirrorHoldsIndex`: the sidecars
are those of the active listing, no file is there that is not listed, and a listed key that
is the only spelling of its file has that file, unless a swap ended with the old files gone.
`SubmittedHostsAreServed`, `PurgeReachesTenants`, `ListingEnds`,
`OperatorSettingsSurvive`, `OnlyAdoptableTenantsChange`: tenants;
`SubmittedDomainsPointHere`: the desired domains of an origin reported as submitted lead here,
by a record or by an alias of a distribution with the configured certificate and default
origin, until an operator edits; a distribution that targets a group of origins is left out.
`DesiredDomainsStay`: a desired domain of no origin is removed, or made to lead elsewhere.
`RecordsMadeSinceStay`: a record made since the listing is left alone (one changed in place is
not: Cloudflare has no conditional update). `ExtraDomainsStay`: without `remove_extra_domains`
no domain is removed. `HostsKeepTheirDomains`, which only the counterexample checks, is what
the documentation says of all hosts, wildcards and other origins' included.

### 3.2 Fairness

- `OriginRefresh`: weak fairness of each task's own steps, except those that await the
  storage or the CDN (`AwaitsRemote`), whose clients have no timeout for a whole call. File
  operations end, with an error at the latest; nothing is assumed of who takes the lock, of
  crashes or of cancellation.
- `Publication`: weak fairness of the refresh as a whole where a generation is active
  (`LoopStep`): the background loop of a process that is up sleeps, refreshes, logs an error
  and goes on. A failed startup sync ends the program, and nobody has to start it again.
  Nothing is assumed of the publisher: `PublicationIsServed` starts when it has finished.
- `OriginServing`: weak fairness of the request's next step. Hooks have a timeout and
  file reads return.
- `Server`: weak fairness of the startup code (one thread of control), and per origin of its
  background loop and of a refresh that has begun, but for the origins in `Hanging`, whose
  storage or CDN may never answer: each loop is a task of its own. The CDN calls of a start
  are taken to answer. Nobody has to start the program, publish, or ask for a sync.
- The CDN modules state no liveness: their loops are bounded by the hosts, and for the
  one that is not, the listing with markers, `ListingEnds` bounds the pages.

## 4. Where code and documentation disagree

1. `refresh_cleanup_fault`: `swap_origin_dir` reports the failed removal of the backup
   as the failure of the refresh after both renames (`repositories/sync.rs:321`): new
   files with the old configuration, templates and index.
2. `refresh_cancelled`: a manual sync cancelled during a rename frees the lock while the
   rename is still to run (`routes/system/origins.rs:65`).
3. `publication_any_order`: a directory is listed in no particular order
   (`repositories/local_directory_storage.rs:54`), so the barrier may be read last and a
   mixture is activated.
4. `serving_window`: between the renames a request finds no file at all
   (`repositories/sync.rs:308`).
5. `layout_kind_change`: changed objects are written into a copy of the old tree before
   removed ones are deleted, and directories never are (`repositories/sync.rs:182`); when
   `docs` becomes `docs/index.html`, or the reverse, every later refresh fails.
6. `cdn_shared_zone`: with `remove_extra_domains`, two origins in one zone or distribution
   remove each other's domains at every start (`repositories/cloudflare_cdn.rs:152`). A
   wildcard host is a host too, but not a desired domain without `include_wildcards`
   (`services/cdn_domains.rs:126`): its record or alias is removed even from a zone of its own.

The documents quoted against them are named in `PROJECT.json`.

Met while modelling, without a run of their own:

- `src/docs/edge-config.md:11` says that with an invalid configuration "only that origin
  becomes unavailable and requests for it return `500`". A refresh that meets one keeps the
  previous generation (`services/origin_refresh.rs`, the preparation), and a startup sync
  that meets one ends the program for all origins (`Failed` in `Server`).
- `src/docs/edge-config.md:52` and `src/docs/edge-hooks.md:104` promise the missing behaviour
  when no object can be served or the selected file does not exist. For a path that goes on
  below a file the read fails with another error than "not found", and the answer is 500;
  `ServerErrorsHaveACause` has the exception. So a file every generation holds can be answered 500 in
  the window of run 4, when its index candidate is below it.
- `src/docs/superpowers/specs/2026-09-09-cloudfront-saas-design.md:218` says that the next
  refresh can retry a purge that failed. Its plan is computed from its own diff, so it purges
  what changed since, not what was missed.
- The reserved prefix, the metadata sidecar and the template of a path are looked up by its
  text (`services/render_gateway.rs:920`, `repositories/local_mirror.rs:122`), the body by the
  file system: a path with doubled slashes or single dots gets the body of a file without its
  metadata. `Expected` says so.
- A distribution whose default behaviour targets no plain origin is reported as submitted
  although nothing leads here (`repositories/cloudfront_cdn.rs:195`).
  `SubmittedDomainsPointHere` has the exception.
- A folder marker in a bucket (`docs/`) is listed like an object and can never be written
  (`repositories/s3_storage.rs:195`): every refresh that meets it fails.
- Of two keys that are one host the exact map keeps the last and the wildcards the first
  (`services/manifest.rs:59`); CORS and the CDN lists keep both. `CdnHostsComeBack` has the
  exception.
- `HostResolver::new` comes last (`services/startup.rs:69`), after every origin was
  synced and its hosts were reconciled with the CDN: a host it refuses ends the program
  when the CDN has been changed already.

## 5. The proofs

All are for arbitrary sets of keys, contents, clients, hosts, manifests, tenants, records,
processes and bounds; they use only the named assumptions of the modules, which TLC
evaluates on every run of the module: `ConstantsAssumption`, `NoIndexAssumption`,
`CdnRefreshAssumption`, `RefreshAssumption`, `TextAssumption`, `ServingAssumption` (what the rules say of each
content, with at most one value for each field, and that exactly the invalid ones are
rejected), `HostAssumption`,
`ServerAssumption`, `PublicationAssumption`, `BarrierIsTheConfig`, `LayoutAssumption` (to lie
below a directory is a strict order, and a plain spelling is its own), `TenantAssumption` and `DomainAssumption` (what the
provider holds before the first start: no domain at two tenants, the aliases of a
distribution point to it). Conditions that some theorem needs and the code does not
guarantee stand in the theorem: `BenignFaults`, `NoCancellation`,
`LiveIsTree`, `BarrierFirst`, `OwnZones`.

**`OriginRefresh_proofs`** (every fault allowed). `TypeCorrect` is inductive by itself.
`MutualExclusion` proves `RefreshMutex`: it is inductive together with the types,
because only `TryAcquire` starts a task, and it asks for `lock = NoTask`, while every
way to end goes through `End`. `Numbering` proves `ActivationsAreNumbered`. The
number is computed in `PrepareActivation` and used five steps later, so the inductive
invariant says that the holder of the lock still has `runtime.generation + 1`; it
rests on mutual exclusion.

**`Acceptance_proofs`** (every fault allowed). `OnlyAcceptedFilesAreLive` proves
`LiveFilesWereAccepted`. The code compiles only templates that changed since the index,
so the invariant `AcceptInv` has to know that the others were good: from the copy of the
mirror on, staged files not in the diff come from a mirror that was accepted
(`StagedFilesAreGood`), or there is no index and everything is compiled, which is the
case until the startup sync is over (`StartupIsFirst`). A rename that runs for a cancelled
client moves only a directory that was prepared before (`DetachedFilesAreGood`), wherever it
ends up.

**`Activation_proofs`** (assuming `BenignFaults`: the backup can be removed, the mirror
restored, nobody is cancelled; runs 1 and 2 of section 4 show what happens without the first
and the last).
`ActiveGeneration` proves `ActiveGenerationIsWhole`, which speaks only of moments when
no refresh runs and is therefore far from inductive. `GenerationInv` strengthens it by
saying, for each program point, how far the new generation has come: the diff starts
from the index that is still active, the staging copy from its files, what need not be
downloaded is as listed, what is prepared was made from what was listed, the old
generation is in the backup between the renames, and after them the stores catch up
one by one. Two lemmas about the operators carry the data part: `FirstTemplates` and
`NextTemplates` (patching a registry with a diff equals compiling everything) and
`UnchangedIsCopied`. `Refinement` proves `ImplementsAtomicOrigin` from the same
invariant: every action is a step of `AtomicOrigin` or leaves its four variables alone;
the second rename is the step at which the generation changes. `PurgePlanIsComplete`
proves `PurgeCoversSwap`: after the second rename the backup is the indexed generation
(`BackupIsIndexed`, the one thing `GenerationInv` does not say) and the diff started from
that index, so `PlanCoversDiff` applies. `OnlyFailedPurgesLeave` proves
`OnlyFailedPurgesLeaveStale`, for purges that fail after any part of their plan. Its
invariant lets URLs be stale that an earlier process outdated without purging, as long as they
are out of the reach of the active generation; when a later one brings them into it, their
files are added or changed in its diff and so in its plan (`StaleIsPlanned`). `ActivationsReportLiveFiles` proves `ActivatedFilesAreLive`, the property
that run 2 of section 4 breaks, for refreshes without the three faults.
`StartupGeneration` needs *no* such assumption: whatever is on the disk and whatever fails,
the step that ends a successful startup leaves mirror, configuration, templates and index at
one generation (`StartsWithOneGeneration`). Until the
startup sync is over nobody else refreshes and no handler's future can be dropped
(`StartInv`), so `GenerationInv` can only be broken by an error of its own swap; but until
its first store write the process has no index and no templates (`NothingInstalled`), and
then there is nothing the mirror could disagree with.

**`Serving_proofs`**. `EqualRanks`: two patterns that match a path with equal rank are the
same pattern, so among distinct patterns the best rule is one rule in any order
(`BestOfReordered`); `RewriteOrderIsImmaterial` and `RedirectOrderIsImmaterial` say so of
every configuration, and `RoutingIgnoresOrder` of every request against every refresh.
`ErrorsHaveACause` (nobody is cancelled) proves `ServerErrorsHaveACause`: a request holds an
accepted configuration throughout (`RequestInv`, from `Acceptance_proofs`), whose redirects
have redirect statuses; and what `Stat` found to be no directory is none when the body is
read, because the mirror changes only within an activation (`MirrorChangesInActivation`),
and that leaves `overlapped` behind (`QuietInv`).
`QuietAnswers` proves `QuietAnswersAreOfTheGeneration`. It assumes `BenignFaults` and that
the live files are a tree at every moment (`LiveIsTree`): where a path is a directory there
is no object, nor one above it. A function from keys to file states could be otherwise, a
disk cannot, which is what `TreesStayTrees` proves of `MirrorLayout`; a key may still be an
object in one generation and a directory in the next. Where no activation is under way, the invariant of
`ActiveGeneration` and `ServesAnIndex` (a process that serves has activated something) make
mirror, configuration, templates and index one generation (`QuietGeneration`). From there
`SearchInv` follows the request: it holds the configuration of the live files, and
`AnswerInv` says how far the search has come and that all it has passed holds nothing
(`AtPath`, `AtCandidate`, `AtPage`), so that what it finds is what `Expected` finds first
(`FoundIsHit`) and what it does not find is answered as `Expected` says
(`NotServedGoesOn`). What `Stat` refuses holds nothing either (`RefusedIsNothing`); this is
where `LiveIsTree` is needed.
What is looked up by the text of a path and what by the file it opens are kept apart
throughout: `named` and `keys` of `PlaceIs`.
`QuietRequestsFindSteadyFiles` follows from it: what run 4 of section 4 shows a request to
miss can only be missed in an activation, because a file that every active generation holds
(`SteadyInv`) is what `Expected` finds first.
`ServingTypes` proves `ServingTypeOK`, for which every path a request ever looks at must be a
text that was foreseen (`Asked`). The rules are data of any size, so this needs that
targets, rewritten targets, splats, candidates and the fallbacks of a configuration are
texts; that texts joined by the recursive function of the splat are one is proved by the
least position at which they were not (`LeastElement`), the one form of induction that needs
no operator as a parameter.
`RejectedHtmlIsNeverServed` carries `OnlyAcceptedFilesAreLive` on to the visitor, again under
every fault: what a request holds was read from an accepted mirror, however often that was
replaced since, and the template store has never held a template that does not compile, in
it or on its way to it (`CompiledInv`). `RequestsOnlyRead` says that the theorems about
`OriginRefresh` hold while the gateway serves.

**`Server_proofs`**. `EveryRouteIsServed`, `StatusIsComplete` and `VisitorsMoveForward` follow
from one invariant: startup leaves no origin behind it without a release (`StartInv`); an
origin has at most one refresh, so what it has read is never older than what is active
(`RefreshesInv`); the status follows `live`, but for a swap whose snapshot is still to
be written, and no writer drops what another wrote (`StatusInv`). None of it is claimed of a
torn origin. That a rule found by `Resolve` is a rule of the table needs the existence of a
longest matching wildcard (`LongestExists`). `MostSpecificRuleDecides`,
`PagesMayReadTheirOrigin` and `CdnHostsAreRouted` say of every table of hosts what TLC finds
for those of the instance. Two ways to say that a name ends in a suffix, by a part of it and
by the reversed labels as the code compares them, are one (`EndsBySubSeq`, `EndsByReverse`);
of two suffixes of one name the shorter is a suffix of the longer (`ShorterSuffix`), so the
longest wildcard stands for the fewest names (`LongestIsNarrowest`); and a host keeps its
normal form (`NormalForm`). The last theorem also needs that the table was compiled
(`CompiledInv`): a wildcard with a port is one for the CDN and none for the resolver, and
only the end of the start by `HostResolver::new` keeps the two apart. `ServerTypes` is the
type invariant. `OriginsImplementWholeReleases` maps each origin to `WholeReleases`: what its
refreshes have read is one release at most because there is at most one of them, and it
is the one that is activated; its storages are whole at any time, publications there being
one step. `OriginsNeverGoBack` follows from the abstract
steps: what has been read or is active is never newer than the last release, and what
is read later is not older. `VisitorsMoveForward` says this of one process, this theorem of
all of them.

**`Publication_proofs`** (`WholePublications` assumes `BarrierFirst`: every listing reads the
barrier before all else; run 3 of section 4 shows that this is needed). It proves
`NoMixedGeneration` for any number of objects, publications, errors and restarts. The
invariant follows one thing, the barrier: a release's barrier is in the storage exactly
while the storage is that release (`RemoteIsRelease`, `BarrierOut`); as long as the
listed barrier is still there, what was listed after it is of its release
(`ListedWhileOut`); and a barrier that has been downloaded had not changed since the
whole listing was read (`DownloadedBarrierIsOfListing`). `AcceptedBarrier` and
`DraftIsRejected` say that an accepted update changed nothing or has downloaded the
barrier of a release. `PublicationTypes` is the type invariant.
`RefreshesReadWholeReleases` proves `ImplementsWholeReleases` from that invariant: the
abstract read is the step of the listing that reads the barrier, when the storage is whole,
and an accepted update is the release of that moment. `PublicationsNeverGoBack` is its
consequence: once release `d` is active, no older one ever is, across rejections, errors and
restarts.

**`MirrorLayout_proofs`**. `MirrorIsTheListing`, `TreesStayTrees` and `LayoutTypes` rest on
`StagingInv`: while objects are being written, whatever is neither still to be written nor
to be pruned is in the staging directory as it was listed, sidecar by sidecar, and file by
file where a key has a file of its own (`Staged`). It needs that the mirror a refresh copies is
the one its index names, which is so unless it is `torn`. A write that would put a file where a directory
is, or the reverse, fails and leaves a tree.
`OnlyKindChangesEndStaging` proves what is left of `ListingsCanBeStaged`, which run 5 of
section 4 breaks (`OnlyKindChangesAreRefused`): of a listing that fits on a disk, which one with
a folder marker never does, a write is refused only for a key that was a directory in the active mirror, or needs as a directory
what was an object there, and never for the order of the writes or for what an earlier
attempt left. It needs to know what a
half-written staging directory is made of: every file is as it was in the active mirror or as
it is listed, and every directory was there or leads to a listed object (`MadeInv`). So what
stands in the way of a listed object is either listed too, which a listing that fits on a
disk excludes, or comes from the active mirror.

**`Cdn_proofs`**. A process writes what it read a step ago, so its locals have to be tied to
the CDN as it is now.
- *Tenants.* `TenantInv` with `SeenInv`: every change stamps a new ETag, so a tenant that
  still has the ETag a process read is the tenant it read. `OperatorsKeepTheirs` and
  `WritesAreAllowed` follow for the updates. `SubmittedIsServed` needs in addition that what
  other processes write does not undo what this one found or did (`Improves`,
  `ReconcileInv`).
- *Purges.* `PurgesReachEveryTenant` from `PurgeInv`: a tenant that has matched since the
  purge began was found already or comes after the marker, and one that was found is still
  to be purged or has been, with a reference of this process start and this generation
  that nobody has used before (`HeldInv`, `FreshInv`). `ListingsEnd`: every page
  but the first begins after a marker of its own, and there is one marker per tenant.
- *Domains.* `DomainInv` with `AtZone`: with the ETag, or id, of what was listed the zone
  is still as listed, and every id is older than the next (`OperatorIsStamped`,
  `WriteStamped`). `NothingExtraIsRemoved`, `NewRecordsAreLeftAlone` and `DesiredAreNeverLost`
  say what the writes mean (`WritesAreMeant`, `ConfigsAreMeant`), `SubmittedIsTrue` what is
  there afterwards (`SubmittedInv`). `DesiredAreNeverLost` and `SubmittedIsTrue` assume
  `OwnZones`: a zone in which an origin removes extra domains is shared only with origins whose
  desired domains it has too. Run 6 of section 4 shows what happens without.

## 6. What is only model-checked

The four liveness properties: `LockIsReleased`, `PublicationIsServed`, `RequestIsAnswered`
and `PublicationsReachVisitors`. They rest on weak fairness, which is defined by `ENABLED`,
and no backend of the prover reasons about that. Every safety property of a passing run is
also proved.

## 7. What is not modelled

- The HTTP shell: routing of paths to handlers, extraction, the check of the
  administrator's token, formatting of answers.
- YAML and JSON syntax: `StaticRules` and `HostRouting` start from what was parsed.
- Response headers, conditional requests and HEAD. They change no state, and which file a
  response is made from is decided before them.
- S3 and directory protocols below the object: signatures, continuation tokens. A listing
  is a sequence of reads of objects.
- Blanks around a host.
- Disk use.
- I/O errors of a request by their kind: each is `ReadFails`.
- What a torn origin shows in `Server`, and a torn mirror in `MirrorLayout`, beyond that it may
  be anything; renames of a cancelled client are steps in `OriginRefresh` only.
- The freshness of URLs out of `PurgeReach`. A purge that fails is not retried by the code, and
  the next that succeeds clears `last_cdn_error`, although answers of the earlier diff may
  still be outdated; the models of tenants promise something of a purge only where it was
  reported without an error.
- What the CDN stores when an answer made from the old file arrives after the purge: that
  is the provider's, and nothing in the code prevents it.
- What an operator changes in place in a DNS record after it was listed is overwritten, and the
  models let it be.

## 8. Where this could go on

Everything the plan of this development listed is done: host routing, static rules, the
status store, several origins of one process, and the proofs of all safety properties. What
is left would be `Publication` below the object:
pages of a listing with continuation tokens.
