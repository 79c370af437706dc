\* Two processes start, restart and reconcile, and an operator edits.
SPECIFICATION CdnSpec
CONSTANTS
  Replicas = {r1, r2}
  Ids = {1, 2}
  HostOrder <- MCHostOrder
  Owned = {0, 1}
  NoTenant = NoTenant
  Provisioned <- MCProvisioned
  Managed = TRUE
  PageSize = 1
  MaxActivations = 2
  MaxEdits = 1
  Processes = {r1, r2}
  Origins = {"o1", "o2"}
  Zones = {"z1", "z2"}
  Names = {"site", "www", "shop", "any", "mail"}
  Wildcards = {"any"}
  NoRecord = NoRecord
  ListLimit = 2
  Manifests <- MCManifests
  MaxStarts = 2
  MaxDomainEdits = 1
INVARIANTS
  TenantTypeOK
  SubmittedHostsAreServed
  PurgeReachesTenants
  ListingEnds
  DomainTypeOK
  SubmittedDomainsPointHere
PROPERTIES
  OperatorSettingsSurvive
  OnlyAdoptableTenantsChange
  DesiredDomainsStay
  RecordsMadeSinceStay
  ExtraDomainsStay
SYMMETRY MCSymmetry
CHECK_DEADLOCK FALSE
