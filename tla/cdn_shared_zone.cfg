\* Two origins in one zone, both with remove_extra_domains.
SPECIFICATION CdnSpec
CONSTANTS
  Replicas = {r1, r2}
  Ids = {1, 2}
  HostOrder <- MCHostOrder
  Owned = {0, 1}
  NoTenant = NoTenant
  Provisioned <- MCProvisioned
  Managed = TRUE
  PageSize = 1
  MaxActivations = 2
  MaxEdits = 1
  Processes = {r1, r2}
  Origins = {"o1", "o2"}
  Zones = {"z1", "z2"}
  Names = {"site", "www", "shop", "any", "mail"}
  Wildcards = {"any"}
  NoRecord = NoRecord
  ListLimit = 4
  Manifests <- MCSharedZone
  MaxStarts = 2
  MaxDomainEdits = 0
PROPERTIES
  HostsKeepTheirDomains
SYMMETRY MCSymmetry
CHECK_DEADLOCK FALSE
