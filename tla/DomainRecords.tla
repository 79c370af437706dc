---------------------------- MODULE DomainRecords ----------------------------
(***************************************************************************)
(* Domain reconciliation at startup: every process, for every origin with  *)
(* cdn.domains in the order of the manifest, brings the DNS records of a   *)
(* Cloudflare zone or the aliases of a CloudFront distribution in line     *)
(* with its hosts.  An error is recorded, and the next origin follows.     *)
(*                                                                         *)
(* A zone maps names to records.  A record points to RenderMesh ("ours"),  *)
(* does so with the other proxied flag ("unproxied"), is a CNAME to        *)
(* somewhere else ("other") or no CNAME at all ("address").  The aliases   *)
(* of a distribution are the names with a record.  They lead to what its   *)
(* default behaviour targets: an origin with our domain name or another's, *)
(* or a group of origins, which the program leaves as it is.               *)
(*                                                                         *)
(* The origins of a zone have one origin_domain, one certificate and one   *)
(* proxied flag.  The host "*" is no domain, and left out.                 *)
(***************************************************************************)
EXTENDS Integers, Sequences, FiniteSets, FiniteSetsExt, SequencesExt

CONSTANTS
  Processes,    \* instances of the program
  Origins, Zones, Names,
  Wildcards,    \* the names of wildcard hosts
  NoRecord,
  ListLimit,    \* records Cloudflare puts on the first page of a listing
  Manifests,    \* manifests, and the records there are before the first start
  MaxStarts, MaxDomainEdits   \* bounds: starts and edits of all together

Contents == {"ours", "unproxied", "other", "address", "alias"}
Record == [content : Contents, id : Nat]
ZoneRecords == [Names -> Record \cup {NoRecord}]
Providers == {"cloudflare", "cloudfront"}
Config == [origin : {"ours", "other", "group"}, certificate : {"ours", "other"}]

ASSUME DomainAssumption ==
  /\ IsFiniteSet(Processes) /\ IsFiniteSet(Origins) /\ IsFiniteSet(Names)
  /\ NoRecord \notin Record
  /\ {ListLimit, MaxStarts, MaxDomainEdits} \subseteq Nat
  /\ \A m \in Manifests :
       /\ m.order \in Seq(Origins) /\ IsInjective(m.order)
       /\ \A o \in Origins : /\ m.domains[o].hosts \subseteq Names
                           /\ m.domains[o].zone \in Zones
                           /\ m.domains[o].wildcards \in BOOLEAN
                           /\ m.domains[o].remove \in BOOLEAN
       /\ m.provider \in [Zones -> Providers]
       /\ m.records \in [Zones -> ZoneRecords]
       /\ m.configs \in [Zones -> Config]
       /\ \A z \in Zones, n \in Names : m.records[z][n] # NoRecord =>
            /\ m.records[z][n].id = 0
            /\ m.records[z][n].content = "alias" <=> m.provider[z] = "cloudfront"

VARIABLES
  manifest,     \* what the processes were started with
  zones,        \* the records of every zone or distribution
  configs,      \* per distribution: what its aliases lead to, and its certificate
  stamp,        \* per zone: the last ETag or record id given out
  worker,       \* per process: where it is, and its locals
  domainStarts, domainEdits,
  touched       \* per process: the origins whose zone an operator edited since
                \* the process listed its records or updated the distribution

domainVars ==
  <<manifest, zones, configs, stamp, worker, domainStarts, domainEdits, touched>>

Stopped == [step |-> "down", order |-> << >>, listed |-> [n \in Names |-> NoRecord],
            config |-> [origin |-> "other", certificate |-> "other"], read |-> 0,
            todo |-> {}, result |-> [o \in Origins |-> "none"]]

DomainInit ==
  /\ manifest \in Manifests
  /\ zones = manifest.records
  /\ configs = manifest.configs
  /\ stamp = [z \in Zones |-> 0]
  /\ worker = [p \in Processes |-> Stopped]
  /\ domainStarts = 0
  /\ domainEdits = 0
  /\ touched = [p \in Processes |-> {}]

OriginOf(p) == Head(worker[p].order)
Plan(p) == manifest.domains[OriginOf(p)]

(* desired_domains_for_origin: wildcard hosts only if they are included.   *)
DesiredDomains(plan) == {n \in plan.hosts : plan.wildcards \/ n \notin Wildcards}

Desired(p) == DesiredDomains(Plan(p))
ZoneOf(p) == zones[Plan(p).zone]
Keep(p, locals) == worker' = [worker EXCEPT ![p] = locals]
Write(p, name, record) == zones' = [zones EXCEPT ![Plan(p).zone][name] = record]
NewStamp(z) == stamp' = [stamp EXCEPT ![z] = @ + 1]
Untouched(p) == touched' = [touched EXCEPT ![p] = @ \ {OriginOf(p)}]

(* A slip in sync_origins_at_startup: an error ends the loop.              *)
StopOnError(p, outcome) ==
  [Stopped EXCEPT !.step = IF outcome = "error" \/ Len(worker[p].order) = 1 THEN "ready" ELSE "list",
                  !.order = Tail(worker[p].order),
                  !.result = [worker[p].result EXCEPT ![OriginOf(p)] = outcome]]

(* The result or the error of one origin is recorded; the next follows.    *)
OriginDone(p, outcome) ==
  [Stopped EXCEPT !.step = IF Len(worker[p].order) = 1 THEN "ready" ELSE "list",
                  !.order = Tail(worker[p].order),
                  !.result = [worker[p].result EXCEPT ![OriginOf(p)] = outcome]]

------------------------------------------------------------------------------
(* CloudflareCdnRepository::reconcile_domains.                             *)

CNames(p) == {n \in Names : ZoneOf(p)[n] # NoRecord /\ ZoneOf(p)[n].content # "address"}

(* list_dns_records asks for CNAME records, and for one page of them.      *)
ListRecords(p) ==
  /\ worker[p].step = "list"
  /\ manifest.provider[Plan(p).zone] = "cloudflare"
  /\ \E page \in kSubset(Min({ListLimit, Cardinality(CNames(p))}), CNames(p)) :
       Keep(p, [worker[p] EXCEPT
         !.step = "apply", !.todo = Desired(p), !.read = stamp[Plan(p).zone],
         !.listed = [n \in Names |-> IF n \in page THEN ZoneOf(p)[n] ELSE NoRecord]])
  /\ Untouched(p)
  /\ UNCHANGED <<zones, configs, stamp>>

PointsHere(record) == record # NoRecord /\ record.content = "ours"

(* A slip in update_dns_record and delete_dns_record: by name, not by id.  *)
SameName(p, name) == ZoneOf(p)[name] # NoRecord

(* A change by id reaches the record that was listed, or nothing.          *)
Same(p, name) ==
  /\ ZoneOf(p)[name] # NoRecord
  /\ ZoneOf(p)[name].id = worker[p].listed[name].id

Applied(p, name) == [worker[p] EXCEPT !.todo = @ \ {name}]
AppliedOrLost(p, name) ==
  \E answered \in BOOLEAN : Keep(p, IF answered THEN Applied(p, name) ELSE OriginDone(p, "error"))
Refused(p) == Keep(p, OriginDone(p, "error")) /\ UNCHANGED <<zones, configs, stamp, touched>>

(* One desired domain, by what was listed: unchanged, updated or created.  *)
(* They come in alphabetical order, here in any.  Cloudflare refuses a     *)
(* second record beside a CNAME.                                           *)
ApplyDomain(p) ==
  /\ worker[p].step = "apply"
  /\ UNCHANGED <<configs, touched>>
  /\ \E name \in worker[p].todo :
       LET listed == worker[p].listed[name]
           z == Plan(p).zone
       IN  \/ /\ PointsHere(listed)
              /\ Keep(p, Applied(p, name))
              /\ UNCHANGED <<zones, stamp>>
           \/ /\ listed # NoRecord /\ ~PointsHere(listed)
              /\ Same(p, name)
              /\ Write(p, name, [ZoneOf(p)[name] EXCEPT !.content = "ours"])
              /\ AppliedOrLost(p, name)
              /\ UNCHANGED stamp
           \/ /\ listed # NoRecord /\ ~PointsHere(listed)
              /\ ~Same(p, name)
              /\ Refused(p)
           \/ /\ listed = NoRecord
              /\ ZoneOf(p)[name] = NoRecord
              /\ Write(p, name, [content |-> "ours", id |-> stamp[z] + 1])
              /\ NewStamp(z)
              /\ AppliedOrLost(p, name)
           \/ /\ listed = NoRecord
              /\ ZoneOf(p)[name] # NoRecord
              /\ Refused(p)

(* A slip in reconcile_domains: records of desired domains are deleted.    *)
ExtraOrDesired(p, name) ==
  /\ Plan(p).remove
  /\ worker[p].listed[name] # NoRecord
  /\ worker[p].listed[name].content \in {"ours", "unproxied"}

(* With remove_extra_domains: a listed record that points here and is not  *)
(* desired for this origin.                                                *)
Extra(p, name) ==
  /\ Plan(p).remove
  /\ worker[p].listed[name] # NoRecord
  /\ worker[p].listed[name].content \in {"ours", "unproxied"}
  /\ name \notin Desired(p)

Extras(p) == {name \in Names : Extra(p, name)}

DeleteExtra(p) ==
  /\ worker[p].step = "apply"
  /\ worker[p].todo = {}
  /\ UNCHANGED <<configs, touched>>
  /\ \E name \in Extras(p) :
       \/ /\ Same(p, name)
          /\ Write(p, name, NoRecord)
          /\ \E answered \in BOOLEAN :
               Keep(p, IF answered
                         THEN [worker[p] EXCEPT !.listed[name] = NoRecord]
                         ELSE OriginDone(p, "error"))
          /\ UNCHANGED stamp
       \/ /\ ~Same(p, name)
          /\ Refused(p)

ZoneDone(p) ==
  /\ worker[p].step = "apply"
  /\ worker[p].todo = {}
  /\ Extras(p) = {}
  /\ Keep(p, OriginDone(p, "submitted"))
  /\ UNCHANGED <<zones, configs, stamp, touched>>

------------------------------------------------------------------------------
(* CloudFrontCdnRepository::reconcile_domains.                             *)

GetDistribution(p) ==
  /\ worker[p].step = "list"
  /\ manifest.provider[Plan(p).zone] = "cloudfront"
  /\ LET z == Plan(p).zone
     IN  Keep(p, [worker[p] EXCEPT !.step = "put", !.listed = zones[z],
                                   !.config = configs[z], !.read = stamp[z]])
  /\ UNCHANGED <<zones, configs, stamp, touched>>

Alias == [content |-> "alias", id |-> 0]

(* All desired aliases, and the others unless they are to be removed.      *)
FinalAliases(p) ==
  [n \in Names |->
     IF n \in Desired(p) THEN Alias
     ELSE IF Plan(p).remove THEN NoRecord
     ELSE worker[p].listed[n]]

(* A slip in reconcile_distribution_config: the default origin is left.    *)
OriginLeft(config) == [config EXCEPT !.certificate = "ours"]

(* The certificate, and the domain name of the origin that the default     *)
(* behaviour targets.  If it targets no origin there is none to update,    *)
(* and no error.                                                           *)
FinalConfig(config) ==
  [origin |-> IF config.origin = "group" THEN "group" ELSE "ours", certificate |-> "ours"]

(* A slip in reconcile_domains: update_distribution without if_match.      *)
AnyETag(p) == TRUE

ETagMatches(p) == stamp[Plan(p).zone] = worker[p].read

PutDistribution(p) ==
  /\ worker[p].step = "put"
  /\ \/ /\ ETagMatches(p)
        /\ zones' = [zones EXCEPT ![Plan(p).zone] = FinalAliases(p)]
        /\ configs' = [configs EXCEPT ![Plan(p).zone] = FinalConfig(worker[p].config)]
        /\ NewStamp(Plan(p).zone)
        /\ Untouched(p)
        /\ \E outcome \in {"submitted", "error"} : Keep(p, OriginDone(p, outcome))
     \/ /\ ~ETagMatches(p)
        /\ Refused(p)

------------------------------------------------------------------------------
(* A call that fails without effect.                                       *)
DomainCallFails(p) ==
  /\ \/ worker[p].step \in {"list", "put"}
     \/ /\ worker[p].step = "apply"
        /\ \/ worker[p].todo = {} /\ Extras(p) # {}
           \/ \E name \in worker[p].todo : ~PointsHere(worker[p].listed[name])
  /\ Refused(p)

DomainStart(p) ==
  /\ worker[p].step = "down"
  /\ domainStarts < MaxStarts
  /\ domainStarts' = domainStarts + 1
  /\ manifest.order # << >>
  /\ Keep(p, [Stopped EXCEPT !.step = "list", !.order = manifest.order])
  /\ touched' = [touched EXCEPT ![p] = {}]
  /\ UNCHANGED <<zones, configs, stamp>>

DomainCrash(p) ==
  /\ worker[p].step # "down"
  /\ Keep(p, Stopped)
  /\ UNCHANGED <<zones, configs, stamp, touched>>

OriginsOf(z) == {o \in ToSet(manifest.order) : manifest.domains[o].zone = z}

(* What an operator may leave behind in a zone: a record pointed elsewhere *)
(* or back, made anew, or deleted; an alias added or removed; a            *)
(* distribution set up otherwise.                                          *)
OperatorSets(z) ==
  \/ /\ manifest.provider[z] = "cloudflare"
     /\ \E n \in Names, c \in {"ours", "other"}, new \in BOOLEAN :
          zones' = [zones EXCEPT ![z][n] =
            IF @ = NoRecord \/ new THEN [content |-> c, id |-> stamp[z] + 1]
                                   ELSE [@ EXCEPT !.content = c]]
     /\ UNCHANGED configs
  \/ /\ \E n \in Names : zones' = [zones EXCEPT ![z][n] = NoRecord]
     /\ UNCHANGED configs
  \/ /\ manifest.provider[z] = "cloudfront"
     /\ \E n \in Names : zones' = [zones EXCEPT ![z][n] = Alias]
     /\ UNCHANGED configs
  \/ /\ manifest.provider[z] = "cloudfront"
     /\ \E config \in Config : configs' = [configs EXCEPT ![z] = config]
     /\ UNCHANGED zones

OperatorSetsDomain ==
  /\ domainEdits < MaxDomainEdits
  /\ domainEdits' = domainEdits + 1
  /\ \E z \in Zones :
       /\ OperatorSets(z)
       /\ NewStamp(z)
       /\ touched' = [p \in Processes |-> touched[p] \cup OriginsOf(z)]
  /\ UNCHANGED <<manifest, worker, domainStarts>>

Reconcile(p) ==
  \/ ListRecords(p) \/ ApplyDomain(p) \/ DeleteExtra(p) \/ ZoneDone(p)
  \/ GetDistribution(p) \/ PutDistribution(p)
  \/ DomainCallFails(p)

DomainNext ==
  \/ \E p \in Processes :
       \/ /\ Reconcile(p) \/ DomainCrash(p)
          /\ UNCHANGED <<manifest, domainStarts, domainEdits>>
       \/ DomainStart(p) /\ UNCHANGED <<manifest, domainEdits>>
  \/ OperatorSetsDomain

DomainSpec == DomainInit /\ [][DomainNext]_domainVars

------------------------------------------------------------------------------
(* Every variable has its type; a started process has a result or an error *)
(* for every origin when it is ready.                                      *)
DomainTypeOK ==
  /\ manifest \in Manifests
  /\ zones \in [Zones -> ZoneRecords]
  /\ configs \in [Zones -> Config]
  /\ stamp \in [Zones -> Nat]
  /\ domainStarts \in 0 .. MaxStarts
  /\ domainEdits \in 0 .. MaxDomainEdits
  /\ touched \in [Processes -> SUBSET Origins]
  /\ \A p \in Processes :
       /\ worker[p].step \in {"down", "list", "apply", "put", "ready"}
       /\ worker[p].listed \in ZoneRecords
       /\ worker[p].result \in [Origins -> {"none", "submitted", "error"}]
       /\ worker[p].step = "ready" =>
            \A o \in ToSet(manifest.order) : worker[p].result[o] # "none"

(* A domain that leads here: its record does, with the configured proxied  *)
(* flag; or it is an alias of a distribution with the configured           *)
(* certificate, whose default behaviour targets an origin with our domain. *)
LeadsHere(z, n) ==
  /\ zones[z][n] # NoRecord
  /\ IF manifest.provider[z] = "cloudflare" THEN zones[z][n].content = "ours"
     ELSE configs[z] = [origin |-> "ours", certificate |-> "ours"]

ToGroup(z) == manifest.provider[z] = "cloudfront" /\ configs[z].origin = "group"

(* An origin whose domains reconcile_domains reported as submitted has     *)
(* them lead here, whatever other processes do meanwhile, as long as no    *)
(* operator edits after the records were listed or the distribution        *)
(* updated.  One case is left out: a distribution whose default behaviour  *)
(* targets no plain origin is reported as submitted and leads elsewhere.   *)
SubmittedDomainsPointHere ==
  \A p \in Processes, o \in Origins : worker[p].result[o] = "submitted" /\ o \notin touched[p] =>
    LET z == manifest.domains[o].zone
    IN  \A n \in DesiredDomains(manifest.domains[o]) : LeadsHere(z, n) \/ ToGroup(z)

ByProgram == domainEdits' = domainEdits
Removed(z, n) == zones[z][n] # NoRecord /\ zones'[z][n] = NoRecord
HostsIn(z) == UNION {manifest.domains[o].hosts : o \in OriginsOf(z)}
DesiredIn(z) == UNION {DesiredDomains(manifest.domains[o]) : o \in OriginsOf(z)}

(* The documentation of remove_extra_domains: only domains that are no     *)
(* longer in hosts are removed.  RenderMesh removes the domain of no host  *)
(* of the manifest, of whichever origin, wildcard or not.                  *)
HostsKeepTheirDomains ==
  [][ByProgram => \A z \in Zones : \A n \in HostsIn(z) : ~Removed(z, n)]_domainVars

(* The desired domains, of whichever origin: exact hosts, and wildcard     *)
(* hosts where they are included.  What reconcile_domains does for one     *)
(* origin, in one process, from what it read some steps ago, never removes *)
(* one of them, nor makes one lead elsewhere that led here.                *)
DesiredDomainsStay ==
  [][ByProgram =>
       \A z \in Zones : \A n \in DesiredIn(z) :
         ~Removed(z, n) /\ (LeadsHere(z, n) => LeadsHere(z, n)')]_domainVars

(* Cloudflare has no conditional update, and what an operator changed in   *)
(* place since the listing is overwritten.  But update_dns_record and      *)
(* delete_dns_record reach a record by its id: one that was made since,    *)
(* under the name of one that was listed, is left alone.                   *)
RecordsMadeSinceStay ==
  [][\A p \in Processes : worker[p].step = "apply" /\ worker'[p] # worker[p] =>
       \A z \in Zones, n \in Names :
         zones[z][n] # NoRecord /\ zones[z][n].id > worker[p].read =>
           zones'[z][n] = zones[z][n]]_domainVars

(* Where extra domains are not to be removed, none is: not even one an     *)
(* operator added while the configuration was being updated.               *)
ExtraDomainsStay ==
  [][ByProgram =>
       \A z \in Zones : (\A o \in OriginsOf(z) : ~manifest.domains[o].remove) =>
         \A n \in Names : ~Removed(z, n)]_domainVars
=============================================================================
