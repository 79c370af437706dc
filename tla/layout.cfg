\* Any sequence of listings, failures and restarts.
SPECIFICATION Spec
CONSTANTS
  docs = docs
  docs_index = docs_index
  odd_index = odd_index
  folder = folder
  v1 = v1
  v2 = v2
  Absent = Absent
  NoIndex = NoIndex
  NoDir = NoDir
  DefaultConfig = DefaultConfig
  NoBarrier = NoBarrier
  Paths <- MCPaths
  Contents = {v1, v2}
  Html = {}
  EdgeConfigPaths <- MCEdgeConfigPaths
  BadConfigs = {}
  BadTemplates = {}
  Barrier = NoBarrier
  OnDisk <- MCOnDisk
  Folders = {folder}
  Below <- MCBelow
INVARIANTS
  TypeOK
  DirectoriesAreTrees
  MirrorHoldsIndex
