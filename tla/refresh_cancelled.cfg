\* Manual syncs are cancelled.
SPECIFICATION Spec
CONSTANTS
  cfg = cfg
  page = page
  v1 = v1
  v2 = v2
  bad = bad
  Absent = Absent
  NoIndex = NoIndex
  DefaultConfig = DefaultConfig
  NoBarrier = NoBarrier
  NoTask = NoTask
  NoDir = NoDir
  NoConfig = NoConfig
  Paths <- MCPaths
  Contents = {v1, v2}
  Html <- MCHtml
  EdgeConfigPaths <- MCEdgeConfigPaths
  BadConfigs = {v2}
  BadTemplates = {}
  Barrier = NoBarrier
  cfgUrl = cfgUrl
  pageUrl = pageUrl
  rootUrl = rootUrl
  CdnUrls <- MCCdnUrls
  ObjectUrl <- MCObjectUrl
  MadeFrom <- MCMadeFrom
  CdnStrategy = "changed_paths"
  Clients = {c1}
  Faults = {"cancel"}
  MaxGeneration = 3
INVARIANTS
  ActivatedFilesAreLive
\* No refresh starts beyond MaxGeneration, so the instance stops there.
CHECK_DEADLOCK FALSE
