-------------------------- MODULE CdnReconciliation --------------------------
(***************************************************************************)
(* What a start of the program does at the CDN of its origins: an origin   *)
(* with cloudfront_saas has tenants, one with cloudfront or cloudflare may *)
(* have domains.  The two share nothing, so a behaviour has one or the     *)
(* other: domains, if the manifest has origins with cdn.domains.           *)
(***************************************************************************)
EXTENDS DistributionTenants, DomainRecords

WithDomains == manifest.order # << >>

(* With domains the tenants do not matter: any will do.                    *)
CdnInit ==
  /\ TenantInit /\ DomainInit
  /\ WithDomains => tenants = CHOOSE given \in Provisioned : TRUE

CdnNext ==
  \/ ~WithDomains /\ TenantNext /\ UNCHANGED domainVars
  \/ WithDomains /\ DomainNext /\ UNCHANGED tenantVars

CdnSpec == CdnInit /\ [][CdnNext]_<<tenantVars, domainVars>>
=============================================================================
