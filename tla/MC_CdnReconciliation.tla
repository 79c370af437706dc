------------------------ MODULE MC_CdnReconciliation ------------------------
EXTENDS CdnReconciliation, TLC

MCHostOrder == <<"a", "b">>
MCTenant(host, enabled) ==
  [distribution |-> "configured", domains |-> {host}, settings |-> "configured",
   certificate |-> "wanted", enabled |-> enabled, owned |-> 1, etag |-> 0]
(* No tenants yet; or one as wanted, and one that has to be enabled.        *)
MCProvisioned ==
  {[id \in Ids |-> NoTenant], <<MCTenant("a", TRUE), MCTenant("b", FALSE)>>}

MCSite(hosts, zone, remove) ==
  [hosts |-> hosts, zone |-> zone, wildcards |-> ~remove, remove |-> remove]
MCRecord(content) == [content |-> content, id |-> 0]
MCNone == [n \in Names |-> NoRecord]
(* The site's own name is there, with the wrong flag; www is missing; one   *)
(* name leads here and is not to, and one is not RenderMesh's.             *)
MCGiven(mail) == [site |-> MCRecord("unproxied"), www |-> NoRecord, shop |-> NoRecord,
                  any |-> MCRecord("ours"), mail |-> MCRecord(mail)]
MCAliases == [site |-> Alias, www |-> NoRecord, shop |-> NoRecord,
              any |-> Alias, mail |-> NoRecord]
MCManifest(o1, o2, provider1, provider2) ==
  [order |-> <<"o1", "o2">>, domains |-> [o1 |-> o1, o2 |-> o2],
   provider |-> [z1 |-> provider1, z2 |-> provider2],
   records |-> [z1 |-> IF provider1 = "cloudfront" THEN MCAliases
                       ELSE MCGiven(IF o1.remove THEN "other" ELSE "address"),
                z2 |-> MCNone],
   configs |-> [z \in {"z1", "z2"} |-> [origin |-> "other", certificate |-> "other"]]]

(* No domains; or two origins, in zones of their own, with extra domains   *)
(* removed in the first, which leaves its wildcard host out; or in one zone*)
(* that keeps extra domains and includes the wildcard host.                *)
MCManifests ==
  {[MCManifest(MCSite({}, "z1", FALSE), MCSite({}, "z2", FALSE), "cloudflare", "cloudflare")
      EXCEPT !.order = << >>]}
  \cup
  {MCManifest(MCSite({"site", "www", "any"}, "z1", TRUE), MCSite({"shop"}, "z2", FALSE), p, q) :
     p \in Providers, q \in Providers}
  \cup
  {MCManifest(MCSite({"site", "any"}, "z1", FALSE), MCSite({"www"}, "z1", FALSE), p, p) :
     p \in Providers}

(* One zone for two origins, which both remove extra domains.              *)
MCSharedZone ==
  {MCManifest(MCSite({"site"}, "z1", TRUE), MCSite({"www"}, "z1", TRUE), p, p) :
     p \in Providers}

(* Processes that run the same program are alike.                          *)
MCSymmetry == Permutations(Replicas)
=============================================================================
