\* A bucket listed in key order, the barrier first; and servers of two origins.
SPECIFICATION ServiceSpec
CONSTANTS
  edge = edge
  a = a
  b = b
  d1 = d1
  d2 = d2
  d3 = d3
  f1 = f1
  f2 = f2
  f3 = f3
  a1 = a1
  a2 = a2
  b1 = b1
  b2 = b2
  Absent = Absent
  NoIndex = NoIndex
  DefaultConfig = DefaultConfig
  NoBarrier = NoBarrier
  Paths <- MCPaths
  Contents <- MCContents
  Html = {}
  EdgeConfigPaths <- MCEdgeConfigPaths
  BadConfigs = {d1, d2, d3}
  BadTemplates = {}
  Barrier = edge
  Releases <- MCReleases
  Drafts <- MCDrafts
  ListedBefore <- MCKeyOrder
  MaxFailures = 2
  com = com
  shop = shop
  SHOP = SHOP
  www = www
  api = api
  ill = ill
  web = web
  docs = docs
  Star = Star
  NoSite = NoSite
  Labels <- MCLabels
  ValidLabels = {com, shop, SHOP, www, api}
  Lower <- MCLower
  Visitors = {v1, v2, v3, v4, v5, v6, v7, v8}
  HostHeader <- MCHostHeader
  v1 = v1
  v2 = v2
  v3 = v3
  v4 = v4
  v5 = v5
  v6 = v6
  v7 = v7
  v8 = v8
  OriginNames = {web, docs}
  Sites <- MCSites
  Hanging = {docs}
  LastPublished = 2
  MaxFaults = 1
  MaxCrashes = 1
INVARIANTS
  TypeOK
  ServerTypeOK
  RoutedHostsAreServed
  HostsGoToTheMostSpecificRule
  CorsFollowsHosts
  CdnHostsComeBack
  OperatorsSeeEveryOrigin
PROPERTIES
  PublicationIsServed
  ImplementsWholeReleases
  OriginsTakeWholeReleases
  ReleasesOnlyMoveForward
  PublicationsReachVisitors
