\* Requests while the background loop refreshes the origin.
SPECIFICATION FairServingSpec
CONSTANTS
  edge = edge
  home = home
  v1 = v1
  v2 = v2
  v3 = v3
  Absent = Absent
  NoIndex = NoIndex
  DefaultConfig = DefaultConfig
  NoBarrier = NoBarrier
  NoTask = NoTask
  NoDir = NoDir
  NoConfig = NoConfig
  Paths = {edge, home}
  Contents = {v1, v2, v3}
  Html <- MCHtml
  EdgeConfigPaths <- MCEdgeConfigPaths
  BadConfigs = {v3}
  BadTemplates = {}
  Barrier = NoBarrier
  CdnUrls <- MCCdnUrls
  ObjectUrl <- MCObjectUrl
  MadeFrom <- MCMadeFrom
  CdnStrategy = "all"
  Clients = {}
  Faults = {}
  MaxGeneration = 2
  Pieces <- MCPieces
  Slash = "/"
  Wild = "*"
  Splat = ":splat"
  Question = "?"
  Up = ".."
  Dot = "."
  IndexHtml = "index.html"
  Controls = {}
  PrivateDirs = {".rendermesh"}
  MetadataDir = ".rendermesh-meta"
  KeyText <- MCKeyText
  HookFiles <- MCHookFiles
  HookStatuses <- MCHookStatuses
  Urls <- MCUrls
  Rules <- MCRules
INVARIANTS
  ServingTypeOK
PROPERTIES
  QuietAnswersAreOfTheGeneration
  ServerErrorsHaveACause
  OrderOfRulesIsImmaterial
  RequestIsAnswered
