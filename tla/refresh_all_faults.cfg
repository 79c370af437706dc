\* Every fault at every point.
SPECIFICATION Spec
CONSTANTS
  cfg = cfg
  page = page
  v1 = v1
  v2 = v2
  bad = bad
  Absent = Absent
  NoIndex = NoIndex
  DefaultConfig = DefaultConfig
  NoBarrier = NoBarrier
  NoTask = NoTask
  NoDir = NoDir
  NoConfig = NoConfig
  Paths <- MCPaths
  Contents = {v1, bad}
  Html <- MCHtml
  EdgeConfigPaths <- MCEdgeConfigPaths
  BadConfigs = {bad}
  BadTemplates = {bad}
  Barrier = NoBarrier
  cfgUrl = cfgUrl
  pageUrl = pageUrl
  rootUrl = rootUrl
  CdnUrls <- MCCdnUrls
  ObjectUrl <- MCObjectUrl
  MadeFrom <- MCMadeFrom
  CdnStrategy = "changed_paths"
  Clients = {c1}
  Faults = {"crash", "purge", "cleanup", "restore", "cancel"}
  MaxGeneration = 2
INVARIANTS
  TypeOK
  RefreshMutex
  LiveFilesWereAccepted
PROPERTIES
  ActivationsAreNumbered
