\* A local directory, listed in any order.
SPECIFICATION Spec
CONSTANTS
  edge = edge
  a = a
  b = b
  d1 = d1
  d2 = d2
  d3 = d3
  f1 = f1
  f2 = f2
  f3 = f3
  a1 = a1
  a2 = a2
  b1 = b1
  b2 = b2
  Absent = Absent
  NoIndex = NoIndex
  DefaultConfig = DefaultConfig
  NoBarrier = NoBarrier
  Paths <- MCPaths
  Contents <- MCContents
  Html = {}
  EdgeConfigPaths <- MCEdgeConfigPaths
  BadConfigs = {d1, d2, d3}
  BadTemplates = {}
  Barrier = edge
  Releases <- MCReleases
  Drafts <- MCDrafts
  ListedBefore <- MCAnyOrder
  MaxFailures = 0
INVARIANTS
  NoMixedGeneration
