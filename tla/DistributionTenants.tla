------------------------- MODULE DistributionTenants -------------------------
(***************************************************************************)
(* CloudFrontSaasCdnRepository, for one origin: several processes, started *)
(* with the same manifest, each purge the distribution's tenants after an  *)
(* activation and reconcile them once after the first one, while operators *)
(* edit the same tenants at AWS.                                           *)
(*                                                                         *)
(* Every call to CloudFront is a step, and may fail, before or after it    *)
(* took effect.  Of a tenant the model keeps what the code compares:       *)
(* whether connection group and managed parameters are the configured      *)
(* ones, and what the operator owns (customizations, further parameters).  *)
(***************************************************************************)
EXTENDS Integers, Sequences, FiniteSets, FiniteSetsExt

CONSTANTS
  Replicas,      \* processes
  Ids,           \* tenant ids, in the order CloudFront lists them
  HostOrder,     \* exact_hosts_for_origin, in BTreeSet order
  Owned,         \* what an operator may have set on a tenant; 0: nothing
  NoTenant,
  Provisioned,   \* the tenants that may exist at the start
  Managed,       \* a managed certificate is configured
  PageSize,      \* tenants per page of a listing
  MaxActivations, MaxEdits   \* bounds, on all processes together

Hosts == {HostOrder[i] : i \in 1 .. Len(HostOrder)}
Tenant == [distribution : {"configured", "another"}, domains : (SUBSET Hosts) \ {{}},
           settings : {"configured", "other"}, certificate : {"wanted", "other"},
           enabled : BOOLEAN, owned : Owned, etag : Nat]

ASSUME TenantAssumption ==
  /\ Ids \subseteq Nat \ {0} /\ IsFiniteSet(Ids) /\ IsFiniteSet(Replicas)
  /\ HostOrder \in Seq(STRING)
  /\ \A i, j \in 1 .. Len(HostOrder) : HostOrder[i] = HostOrder[j] => i = j
  /\ 0 \in Owned
  /\ NoTenant \notin Tenant
  /\ Provisioned \subseteq [Ids -> Tenant \cup {NoTenant}]
  /\ \A given \in Provisioned, id \in Ids : given[id] # NoTenant => given[id].etag = 0
  /\ \A given \in Provisioned : \A i, j \in Ids :
       i # j /\ NoTenant \notin {given[i], given[j]} =>
         given[i].domains \cap given[j].domains = {}
  /\ Managed \in BOOLEAN
  /\ PageSize \in Nat \ {0}
  /\ {MaxActivations, MaxEdits} \subseteq Nat

VARIABLES
  tenants,     \* the distribution tenants of the account
  references,  \* caller references CloudFront has seen
  lastETag,    \* the last ETag given out; none is given out twice
  edits,       \* changes made by operators
  activations, \* generations activated
  replica,     \* per process: where it is, and its locals
  held,        \* per process: tenants that matched since its purge began
  meddled      \* per process: an operator edited since it started

tenantVars == <<tenants, references, lastETag, edits, activations, replica, held, meddled>>

Exists(id) == tenants[id] # NoTenant
NoTally == [added |-> 0, updated |-> 0, unchanged |-> 0]
Down == [step |-> "down", starts |-> 0, generation |-> 0,
         pages |-> 0, marker |-> 0, markers |-> {}, found |-> {}, covered |-> {}, purge |-> "none",
         todo |-> << >>, id |-> 0, drifted |-> FALSE, certified |-> FALSE,
         seen |-> NoTenant, tally |-> NoTally, domains |-> "none"]

TenantInit ==
  /\ tenants \in Provisioned
  /\ references = {}
  /\ lastETag = 0
  /\ edits = 0
  /\ activations = 0
  /\ replica = [r \in Replicas |-> Down]
  /\ held = [r \in Replicas |-> {}]
  /\ meddled = [r \in Replicas |-> FALSE]

At(r, step) == replica[r].step = step
Local(r, locals) == replica' = [replica EXCEPT ![r] = locals]

------------------------------------------------------------------------------
(* The purge after an activation.                                          *)

(* The tenants purge retains: not disabled, of this distribution, with one *)
(* of the exact hosts.                                                     *)
Purgeable(id) ==
  /\ Exists(id)
  /\ tenants[id].enabled
  /\ tenants[id].distribution = "configured"
  /\ tenants[id].domains \cap Hosts # {}

Purging(locals) ==
  [locals EXCEPT !.step = "list", !.covered = {}, !.purge = "none"]

Reconciling(locals) ==
  [locals EXCEPT !.step = IF HostOrder = << >> THEN "ready" ELSE "lookup",
                 !.todo = HostOrder, !.tally = NoTally,
                 !.domains = IF HostOrder = << >> THEN "submitted" ELSE "none"]

(* After the startup purge, whatever came of it, the tenants are           *)
(* reconciled; after a later one the process goes on serving.              *)
PurgeDone(locals, outcome) ==
  LET ended == [locals EXCEPT !.purge = outcome, !.pages = 0, !.found = {},
                              !.markers = {}, !.marker = 0,
                              !.covered = IF outcome = "submitted" THEN @ ELSE {}]
  IN  IF locals.generation = 1 THEN Reconciling(ended)
                               ELSE [ended EXCEPT !.step = "ready"]

(* One page of list_distribution_tenants: CloudFront filters by the        *)
(* distribution, and goes on after the marker.                             *)
Listable(marker) ==
  {id \in Ids : Exists(id) /\ tenants[id].distribution = "configured" /\ id > marker}
Page(marker) ==
  {id \in Listable(marker) :
     Cardinality({i \in Listable(marker) : i < id}) < PageSize}
NextMarkers(marker, given) ==
  given \cup (IF Listable(marker) = Page(marker) THEN {0} ELSE {Max(Page(marker))})

(* A slip in purge: a repeated marker goes unnoticed.                      *)
NeverRepeated(marker, markers) == FALSE

Repeated(marker, markers) == marker \in markers

(* Collect one page; a marker given before, which CloudFront should not    *)
(* repeat, ends the purge.                                                 *)
ListPage(r) ==
  LET me == replica[r]
      found == me.found \cup {id \in Page(me.marker) : Purgeable(id)}
      step == IF found = {} THEN PurgeDone(me, "skipped_no_tenants")
                            ELSE [me EXCEPT !.step = "invalidate", !.found = found,
                                            !.pages = 0]
  IN  /\ At(r, "list")
      /\ \E next \in NextMarkers(me.marker, me.markers) :
           Local(r, IF next = 0 THEN step
                    ELSE IF Repeated(next, me.markers) THEN PurgeDone(me, "error")
                    ELSE [me EXCEPT !.marker = next, !.markers = @ \cup {next},
                                    !.found = found, !.pages = @ + 1])
      /\ UNCHANGED <<tenants, references, lastETag, edits, activations>>

(* A slip in invalidation_caller_reference: no process namespace.          *)
SharedReference(r, id) == [generation |-> replica[r].generation, tenant |-> id]

(* caller_reference_namespace is drawn anew in every process; the paths    *)
(* are those of the strategy that purges everything, always the same.      *)
CallerReference(r, id) ==
  [process |-> <<r, replica[r].starts>>, generation |-> replica[r].generation,
   tenant |-> id]

(* One invalidation, in the order of the ids.  CloudFront answers a        *)
(* reference it knows with the invalidation it had started for it.         *)
Invalidate(r) ==
  LET me == replica[r]
      id == Min(me.found)
      new == CallerReference(r, id) \notin references
      rest == [me EXCEPT !.found = @ \ {id},
                         !.covered = IF new THEN @ \cup {id} ELSE @]
  IN  /\ At(r, "invalidate")
      /\ Exists(id)
      /\ references' = references \cup {CallerReference(r, id)}
      /\ \E answered \in BOOLEAN :
           Local(r, IF ~answered THEN PurgeDone(me, "error")
                    ELSE IF rest.found = {} THEN PurgeDone(rest, "submitted")
                    ELSE rest)
      /\ UNCHANGED <<tenants, lastETag, edits, activations>>

------------------------------------------------------------------------------
(* reconcile_tenants, host by host.                                        *)

(* verify_distribution and verify_exact_host.                              *)
Adoptable(t, host) == t.distribution = "configured" /\ t.domains = {host}

(* A slip in merged_tenant: the enabled state is carried over.             *)
MergedAsIs(t) == [t EXCEPT !.settings = "configured"]

(* merged_tenant: what RenderMesh manages as configured, the rest kept.    *)
Merged(t) == [t EXCEPT !.settings = "configured", !.enabled = TRUE]

(* The locals of one host go out of scope.                                 *)
Leave(locals) ==
  [locals EXCEPT !.id = 0, !.seen = NoTenant, !.drifted = FALSE, !.certified = FALSE]

(* An error ends the reconciliation, the hosts still to do included.       *)
Failed(locals) ==
  [Leave(locals) EXCEPT !.step = "ready", !.todo = << >>, !.tally = NoTally,
                         !.domains = "error"]

(* A slip in reconcile_tenants: no `continue' after an unchanged tenant.   *)
CountedTwice(locals, count) ==
  [Leave(locals) EXCEPT !.todo = Tail(@), !.tally[count] = @ + 2,
                 !.step = IF Len(locals.todo) = 1 THEN "ready" ELSE "lookup",
                 !.domains = IF Len(locals.todo) = 1 THEN "submitted" ELSE @]

(* One host is done and counted; after the last one so is the whole.       *)
Handled(locals, count) ==
  [Leave(locals) EXCEPT !.todo = Tail(@), !.tally[count] = @ + 1,
                 !.step = IF Len(locals.todo) = 1 THEN "ready" ELSE "lookup",
                 !.domains = IF Len(locals.todo) = 1 THEN "submitted" ELSE @]

(* tenant_matches: leave the tenant alone, or read it again to change it.  *)
Decide(locals) ==
  IF ~locals.drifted /\ locals.certified THEN Handled(locals, "unchanged")
                                         ELSE [locals EXCEPT !.step = "current"]

Owners(host) == {id \in Ids : Exists(id) /\ host \in tenants[id].domains}

(* get_distribution_tenant_by_domain and the two checks.                   *)
Lookup(r) ==
  LET me == replica[r]
      host == Head(me.todo)
      observed(id) == [me EXCEPT !.id = id, !.drifted = Merged(tenants[id]) # tenants[id],
                                 !.certified = ~Managed, !.step = "certificate"]
  IN  /\ At(r, "lookup")
      /\ \/ /\ Owners(host) = {}
            /\ Local(r, [me EXCEPT !.step = "create"])
         \/ \E id \in Owners(host) :
              Local(r, IF ~Adoptable(tenants[id], host) THEN Failed(me)
                       ELSE IF Managed THEN observed(id)
                       ELSE Decide(observed(id)))
      /\ UNCHANGED <<tenants, references, lastETag, edits, activations>>

(* get_managed_certificate_validation_token_host.                          *)
Certificate(r) ==
  LET me == replica[r]
  IN  /\ At(r, "certificate")
      /\ Local(r, IF ~Exists(me.id) THEN Failed(me)
                  ELSE Decide([me EXCEPT !.certified = tenants[me.id].certificate = "wanted"]))
      /\ UNCHANGED <<tenants, references, lastETag, edits, activations>>

(* create_distribution_tenant.  CloudFront refuses a domain in use.        *)
Create(r) ==
  LET me == replica[r]
      host == Head(me.todo)
      created == [distribution |-> "configured", domains |-> {host},
                  settings |-> "configured", enabled |-> TRUE, etag |-> lastETag + 1,
                  certificate |-> IF Managed THEN "wanted" ELSE "other",
                  owned |-> 0]
  IN  /\ At(r, "create")
      /\ \/ /\ Owners(host) # {}
            /\ Local(r, Failed(me))
            /\ UNCHANGED <<tenants, lastETag>>
         \/ /\ Owners(host) = {}
            /\ \E id \in {i \in Ids : ~Exists(i)} : tenants' = [tenants EXCEPT ![id] = created]
            /\ lastETag' = lastETag + 1
            /\ \E answered \in BOOLEAN :
                 Local(r, IF answered THEN Handled(me, "added") ELSE Failed(me))
      /\ UNCHANGED <<references, edits, activations>>

(* A slip in reconcile_tenants: the tenant is verified at the lookup only. *)
TakenOnTrust(t, host) == TRUE

(* The two checks, on the tenant as it is read again with its ETag.        *)
StillAdoptable(t, host) == Adoptable(t, host)

Current(r) ==
  LET me == replica[r]
      now == tenants[me.id]
  IN  /\ At(r, "current")
      /\ Local(r, IF ~Exists(me.id) \/ ~StillAdoptable(now, Head(me.todo)) THEN Failed(me)
                  ELSE IF Merged(now) = now /\ me.certified THEN Handled(me, "unchanged")
                  ELSE [me EXCEPT !.step = "update", !.seen = now])
      /\ UNCHANGED <<tenants, references, lastETag, edits, activations>>

(* A slip in update_distribution_tenant: If-Match is not sent.             *)
Unconditional(t, etag) == TRUE

IfMatch(t, etag) == t.etag = etag

(* update_distribution_tenant with If-Match; the certificate is requested  *)
(* only if the one looked up did not match.                                *)
Update(r) ==
  LET me == replica[r]
      host == Head(me.todo)
      matches == Exists(me.id) /\ IfMatch(tenants[me.id], me.seen.etag)
      written == [Merged(me.seen) EXCEPT !.domains = {host}, !.distribution = "configured",
                    !.etag = lastETag + 1,
                    !.certificate = IF me.certified THEN @ ELSE "wanted"]
  IN  /\ At(r, "update")
      /\ \/ /\ ~matches
            /\ Local(r, Failed(me))
            /\ UNCHANGED <<tenants, lastETag>>
         \/ /\ matches
            /\ tenants' = [tenants EXCEPT ![me.id] = written]
            /\ lastETag' = lastETag + 1
            /\ \E answered \in BOOLEAN :
                 Local(r, IF answered THEN Handled(me, "updated") ELSE Failed(me))
      /\ UNCHANGED <<references, edits, activations>>

(* A call that fails without effect, or an invalidation of a tenant that   *)
(* is gone.                                                                *)
CallFails(r) ==
  LET me == replica[r]
  IN  /\ ~At(r, "down") /\ ~At(r, "ready")
      /\ Local(r, IF At(r, "list") \/ At(r, "invalidate") THEN PurgeDone(me, "error")
                                                         ELSE Failed(me))
      /\ UNCHANGED <<tenants, references, lastETag, edits, activations>>

------------------------------------------------------------------------------
(* A process starts; its first activation is purged if it changed          *)
(* anything, and then the tenants are reconciled.                          *)
Start(r) ==
  LET fresh == [Down EXCEPT !.starts = replica[r].starts + 1, !.generation = 1]
  IN  /\ At(r, "down")
      /\ activations < MaxActivations
      /\ activations' = activations + 1
      /\ Local(r, Purging(fresh)) \/ Local(r, Reconciling(fresh))
      /\ UNCHANGED <<tenants, references, lastETag, edits>>

(* A later refresh activates a generation with changes.                    *)
Activate(r) ==
  /\ At(r, "ready")
  /\ activations < MaxActivations
  /\ activations' = activations + 1
  /\ Local(r, Purging([replica[r] EXCEPT !.generation = @ + 1]))
  /\ UNCHANGED <<tenants, references, lastETag, edits>>

Crash(r) ==
  /\ ~At(r, "down")
  /\ Local(r, [Down EXCEPT !.starts = replica[r].starts])
  /\ UNCHANGED <<tenants, references, lastETag, edits, activations>>

(* What an operator may make of a tenant, one thing at a time.             *)
Edits(t) ==
  {[t EXCEPT !.owned = o] : o \in Owned}
    \cup {[t EXCEPT !.settings = "other"], [t EXCEPT !.enabled = ~@],
          [t EXCEPT !.distribution = "another"], [t EXCEPT !.certificate = "other"]}
    \cup {[t EXCEPT !.domains = @ \cup {host}] : host \in {h \in Hosts : Owners(h) = {}}}

OperatorEdits ==
  /\ edits < MaxEdits
  /\ edits' = edits + 1
  /\ lastETag' = lastETag + 1
  /\ \E id \in Ids :
       /\ Exists(id)
       /\ \/ \E t \in Edits(tenants[id]) :
               tenants' = [tenants EXCEPT ![id] = [t EXCEPT !.etag = lastETag + 1]]
          \/ tenants' = [tenants EXCEPT ![id] = NoTenant]
  /\ UNCHANGED <<references, activations, replica>>

Call(r) ==
  \/ ListPage(r) \/ Invalidate(r)
  \/ Lookup(r) \/ Certificate(r) \/ Create(r) \/ Current(r) \/ Update(r)
  \/ CallFails(r)

(* held and meddled follow every step.                                     *)
Observe ==
  /\ held' = [r \in Replicas |->
       IF replica'[r].step \in {"list", "invalidate"}
         THEN {id \in IF At(r, "list") \/ At(r, "invalidate") THEN held[r] ELSE Ids :
                 Purgeable(id)'}
         ELSE IF replica'[r].purge \in {"submitted", "skipped_no_tenants"} THEN held[r] ELSE {}]
  /\ meddled' = [r \in Replicas |->
       replica'[r].generation > 0 /\ (meddled[r] \/ edits' # edits)]

TenantNext ==
  /\ \/ \E r \in Replicas : Call(r) \/ Start(r) \/ Activate(r) \/ Crash(r)
     \/ OperatorEdits
  /\ Observe

TenantSpec == TenantInit /\ [][TenantNext]_tenantVars

------------------------------------------------------------------------------
(* Every variable has its type; no host is counted twice.                  *)
TenantTypeOK ==
  /\ tenants \in [Ids -> Tenant \cup {NoTenant}]
  /\ lastETag \in Nat
  /\ edits \in 0 .. MaxEdits
  /\ activations \in 0 .. MaxActivations
  /\ held \in [Replicas -> SUBSET Ids]
  /\ meddled \in [Replicas -> BOOLEAN]
  /\ \A r \in Replicas :
       /\ replica[r].step \in {"down", "list", "invalidate", "lookup", "create",
                              "certificate", "current", "update", "ready"}
       /\ replica[r].purge \in {"none", "submitted", "skipped_no_tenants", "error"}
       /\ replica[r].domains \in {"none", "submitted", "error"}
       /\ replica[r].found \cup replica[r].covered \subseteq Ids
       /\ replica[r].tally.added + replica[r].tally.updated + replica[r].tally.unchanged
            <= Len(HostOrder) - Len(replica[r].todo)

(* What an operator set on a tenant survives every write of RenderMesh,    *)
(* also one that falls between reading the tenant and updating it.         *)
OperatorSettingsSurvive ==
  [][edits' = edits => \A id \in Ids : Exists(id) =>
       Exists(id)' /\ tenants'[id].owned = tenants[id].owned]_tenantVars

(* RenderMesh changes a tenant only if, when the change lands, it belongs  *)
(* to the configured distribution and has one desired host and no other.   *)
OnlyAdoptableTenantsChange ==
  [][edits' = edits => \A id \in Ids : Exists(id) /\ tenants'[id] # tenants[id] =>
       \E host \in Hosts : Adoptable(tenants[id], host) /\ Adoptable(tenants'[id], host)]_tenantVars

(* A reconciliation reported as submitted leaves every exact host with an  *)
(* enabled tenant as configured, whatever other processes did meanwhile,   *)
(* until an operator edits.                                                *)
SubmittedHostsAreServed ==
  \A r \in Replicas : replica[r].domains = "submitted" /\ ~meddled[r] =>
    \A host \in Hosts : \E id \in Owners(host) :
      /\ Adoptable(tenants[id], host)
      /\ tenants[id].enabled
      /\ tenants[id].settings = "configured"
      /\ Managed => tenants[id].certificate = "wanted"

(* A purge reported without an error has started a new invalidation for    *)
(* every tenant that matched from its beginning to its end.                *)
PurgeReachesTenants ==
  \A r \in Replicas : replica[r].purge \in {"submitted", "skipped_no_tenants"} =>
    held[r] \subseteq replica[r].covered

(* A listing comes to an end, even when CloudFront repeats the marker of a *)
(* page for ever: after a page for every tenant it has ended or failed.    *)
ListingEnds == \A r \in Replicas : replica[r].pages <= Cardinality(Ids)
=============================================================================
