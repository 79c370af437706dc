----------------------------- MODULE HostRouting -----------------------------
(***************************************************************************)
(* The hosts table of the manifest, as its readers understand it: the      *)
(* resolver that routes a request (services/manifest.rs), the CORS policy  *)
(* (services/cors.rs), and the lists of hosts handed to the CDN            *)
(* (services/cdn_domains.rs, cdn_tenants.rs, startup/cdn.rs).  Each of     *)
(* them parses the keys of the table for itself.                           *)
(*                                                                         *)
(* A written host is what stands between its dots and what follows its     *)
(* last colon; blanks around it are cut by every reader and are left out.  *)
(* The table is a BTreeMap: a sequence in the order of its keys, where     *)
(* keys that differ only in case, blanks or port are different keys.       *)
(***************************************************************************)
EXTENDS Naturals, Sequences, SequencesExt

CONSTANTS
  Labels,        \* what may stand between two dots
  ValidLabels,   \* is_valid_host_label
  Lower,         \* to_ascii_lowercase
  Star           \* the label "*"

ASSUME HostAssumption ==
  /\ Lower \in [Labels -> Labels]
  /\ ValidLabels \subseteq Labels
  /\ Star \in Labels \ ValidLabels
  /\ \A l \in Labels :
       /\ Lower[Lower[l]] = Lower[l]
       /\ Lower[l] \in ValidLabels <=> l \in ValidLabels

WrittenHost == [labels : Seq(Labels), port : {"none", "digits", "malformed"}]

(* No host: normalize_host returned None.                                  *)
NoName == << >>

NormalizeHost(host) ==
  IF host.port # "malformed" /\ ToSet(host.labels) \subseteq ValidLabels
    THEN [i \in DOMAIN host.labels |-> Lower[host.labels[i]]]
    ELSE NoName

------------------------------------------------------------------------------
(* The three kinds of keys.                                                *)

IsGlobal(key) == key.labels = <<Star>> /\ key.port = "none"
IsWildcard(key) == Len(key.labels) > 1 /\ Head(key.labels) = Star

BelowStar(key) == [key EXCEPT !.labels = Tail(@)]

(* The suffix must be normalised as it is written: without a port.         *)
WildcardSuffix(key) ==
  IF IsWildcard(key) /\ key.port = "none" THEN NormalizeHost(BelowStar(key)) ELSE NoName

(* A slip in resolve: the suffix is a host the wildcard stands for.        *)
CoversApex(key, name) ==
  WildcardSuffix(key) # NoName /\ IsSuffix(WildcardSuffix(key), name)

(* The name is longer than the suffix, which begins with a dot.            *)
Covers(key, name) ==
  WildcardSuffix(key) # NoName /\ IsStrictSuffix(WildcardSuffix(key), name)

------------------------------------------------------------------------------
(* HostResolver.                                                           *)

Globals(hosts) == {i \in DOMAIN hosts : IsGlobal(hosts[i].key)}
ExactRules(hosts, name) == {i \in DOMAIN hosts : NormalizeHost(hosts[i].key) = name}
WildcardRules(hosts, name) == {i \in DOMAIN hosts : Covers(hosts[i].key, name)}

(* HostResolver::new returns no error.                                     *)
Compiles(hosts) ==
  /\ \A i \in DOMAIN hosts :
       \/ IsGlobal(hosts[i].key)
       \/ WildcardSuffix(hosts[i].key) # NoName
       \/ NormalizeHost(hosts[i].key) # NoName
  /\ \A i, j \in Globals(hosts) : i = j

(* A slip in new: the wildcards stay in the order of the table.            *)
Unsorted(hosts, rules) == rules

(* The wildcards are sorted by the length of their suffixes, and the sort  *)
(* is stable.                                                              *)
Longest(hosts, rules) ==
  {i \in rules : \A j \in rules :
     Len(WildcardSuffix(hosts[j].key)) <= Len(WildcardSuffix(hosts[i].key))}

(* The rule that decides, or 0: 421 Misdirected Request.  Of two keys that *)
(* name one host, the map of exact hosts keeps the last.                   *)
Resolve(hosts, header) ==
  LET name == NormalizeHost(header)
      exact == ExactRules(hosts, name)
      wildcards == WildcardRules(hosts, name)
  IN  IF name = NoName THEN 0
      ELSE IF exact # {} THEN Max(exact)
      ELSE IF wildcards # {} THEN Min(Longest(hosts, wildcards))
      ELSE IF Globals(hosts) # {} THEN Max(Globals(hosts))
      ELSE 0

------------------------------------------------------------------------------
(* CorsPolicy.  A request's Origin is a URL: its scheme, its host, and     *)
(* whether anything follows the host.                                      *)

RequestOrigin == [https : BOOLEAN, bare : BOOLEAN, host : WrittenHost, default_port : BOOLEAN]

(* parse_https_origin_host: the host of https://host or https://host:443.  *)
HttpsHost(from) ==
  IF from.https /\ from.bare /\ from.default_port
    THEN NormalizeHost([from.host EXCEPT !.port = "none"])
    ELSE NoName

(* A slip in from_manifest: the global rule admits every site.             *)
AllowsGlobal(hosts, origin, from) ==
  LET name == HttpsHost(from) IN
  /\ name # NoName
  /\ \E i \in DOMAIN hosts :
       /\ hosts[i].origin = origin
       /\ IsGlobal(hosts[i].key) \/ i \in ExactRules(hosts, name) \cup WildcardRules(hosts, name)

(* allowed_origin_for: may a page of that site read what this one serves?  *)
Allows(hosts, origin, from) ==
  LET name == HttpsHost(from) IN
  /\ name # NoName
  /\ \E i \in ExactRules(hosts, name) \cup WildcardRules(hosts, name) :
       hosts[i].origin = origin

------------------------------------------------------------------------------
(* What the CDN is told.                                                   *)

(* normalize_cdn_host, where the port of a wildcard is dropped.            *)
CdnHost(key) ==
  IF ~IsWildcard(key) THEN NormalizeHost(key)
  ELSE IF NormalizeHost(BelowStar(key)) = NoName THEN NoName
  ELSE <<Star>> \o NormalizeHost(BelowStar(key))

(* A slip in desired_domains_for_origin: every origin gets every host.     *)
DesiredDomainsOfAll(hosts, origin, include_wildcards) ==
  {CdnHost(hosts[i].key) : i \in {i \in DOMAIN hosts :
     include_wildcards \/ ~IsWildcard(hosts[i].key)}} \ {NoName}

DesiredDomains(hosts, origin, include_wildcards) ==
  {CdnHost(hosts[i].key) : i \in {i \in DOMAIN hosts :
     hosts[i].origin = origin /\ (include_wildcards \/ ~IsWildcard(hosts[i].key))}} \ {NoName}

(* exact_hosts_for_origin, and exact_url_prefixes_for_origin.              *)
ExactHosts(hosts, origin) ==
  {NormalizeHost(hosts[i].key) : i \in {i \in DOMAIN hosts : hosts[i].origin = origin}}
    \ {NoName}

------------------------------------------------------------------------------
(* validate_manifest.  blank holds the fields that are missing or blank,   *)
(* zero where they must be positive, or malformed.                         *)

(* What a provider cannot do without.  The optional settings of a SaaS     *)
(* distribution must not be blank where they are given.                    *)
RequiredSettings(cdn) ==
  CASE cdn.provider = "cloudfront" ->
         {"distribution_id_env"}
           \cup (IF cdn.domains THEN {"origin_domain_env", "certificate_arn_env"} ELSE {})
    [] cdn.provider = "cloudflare" ->
         {"zone_id_env", "api_token_env", "url_prefixes"}
           \cup (IF cdn.domains THEN {"origin_domain_env", "mode"} ELSE {})
    [] cdn.provider = "cloudfront_saas" ->
         {"distribution_id_env", "connection_group_id_env", "parameters_env"}
    [] cdn.provider = "none" -> {}

ValidCdn(cdn) == RequiredSettings(cdn) \cap cdn.blank = {}

OriginSettings == {"id", "bucket", "path", "sync_interval_seconds", "activation_barrier_path"}

OriginIds(site) == {site.origins[i].id : i \in DOMAIN site.origins}

(* The origins, one by one; a slip if it were all that is validated.       *)
ValidOrigins(site) ==
  /\ site.blank = {}
  /\ \A i \in DOMAIN site.origins :
       OriginSettings \cap site.origins[i].blank = {} /\ ValidCdn(site.origins[i].cdn)

ValidManifest(site) ==
  /\ ValidOrigins(site)
  /\ \A i \in DOMAIN site.hosts :
       /\ site.hosts[i].key.labels # << >>
       /\ site.hosts[i].origin \in OriginIds(site)
==============================================================================
