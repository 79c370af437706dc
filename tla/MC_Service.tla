------------------------------ MODULE MC_Service ------------------------------
(* Publication with the instance of MC_Publication; Server with a table in   *)
(* which every kind of key competes, one with CDN domains, and manifests a   *)
(* start ends with.                                                          *)
EXTENDS MC_Publication, Service

CONSTANTS com, shop, SHOP, www, api, ill, web, docs, v1, v2, v3, v4, v5, v6, v7, v8

Host(labels) == [labels |-> labels, port |-> "none"]
MCLabels == {com, shop, SHOP, www, api, ill, Star}
MCLower == [l \in MCLabels |-> IF l = SHOP THEN shop ELSE l]

MCHostHeader ==
  v1 :> Host(<<shop, com>>) @@ v2 :> [labels |-> <<SHOP, com>>, port |-> "digits"]
  @@ v3 :> Host(<<www, shop, com>>) @@ v4 :> Host(<<api, shop, com>>)
  @@ v5 :> Host(<<api, www, shop, com>>) @@ v6 :> Host(<<api, com>>)
  @@ v7 :> Host(<<ill, com>>) @@ v8 :> [labels |-> <<shop, com>>, port |-> "malformed"]

NoCdn == [provider |-> "none", domains |-> FALSE, include_wildcards |-> FALSE, blank |-> {}]
Tenants == [NoCdn EXCEPT !.provider = "cloudfront_saas"]
Domains == [NoCdn EXCEPT !.provider = "cloudfront", !.domains = TRUE, !.include_wildcards = TRUE]
Given(id, cdn) == [id |-> id, blank |-> {}, env |-> TRUE, cdn |-> cdn]
Rule(key, origin) == [key |-> key, origin |-> origin]
Site(origins, hosts) == [blank |-> {}, origins |-> origins, hosts |-> hosts]

MCSites ==
  {Site(<<Given(docs, NoCdn), Given(web, Tenants)>>,
        <<Rule(Host(<<Star>>), docs), Rule(Host(<<Star, shop, com>>), web),
          Rule(Host(<<Star, www, shop, com>>), docs),
          Rule([labels |-> <<SHOP, com>>, port |-> "digits"], docs),
          Rule(Host(<<shop, com>>), web), Rule(Host(<<www, shop, com>>), web)>>),
   Site(<<Given(docs, NoCdn), Given(web, Domains)>>,
        <<Rule(Host(<<Star, SHOP, com>>), web), Rule(Host(<<SHOP, com>>), web),
          Rule(Host(<<api, com>>), docs)>>),
   Site(<<Given(web, [Domains EXCEPT !.blank = {"certificate_arn_env"}])>>, << >>),
   Site(<<Given(web, NoCdn)>>, <<Rule(Host(<<shop, com>>), docs)>>),
   Site(<<Given(docs, NoCdn)>>, <<Rule(Host(<<ill, com>>), docs)>>)}
===============================================================================
