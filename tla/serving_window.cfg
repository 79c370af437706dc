\* A request for a file that two consecutive generations hold.
SPECIFICATION ServingSpec
CONSTANTS
  edge = edge
  home = home
  v1 = v1
  v2 = v2
  v3 = v3
  Absent = Absent
  NoIndex = NoIndex
  DefaultConfig = DefaultConfig
  NoBarrier = NoBarrier
  NoTask = NoTask
  NoDir = NoDir
  NoConfig = NoConfig
  Paths = {home}
  Contents = {v1, v2, v3}
  Html <- MCHtml
  EdgeConfigPaths <- MCNoConfigPaths
  BadConfigs = {v3}
  BadTemplates = {}
  Barrier = NoBarrier
  CdnUrls <- MCCdnUrls
  ObjectUrl <- MCObjectUrl
  MadeFrom <- MCMadeFrom
  CdnStrategy = "all"
  Clients = {}
  Faults = {}
  MaxGeneration = 2
  Pieces <- MCPieces
  Slash = "/"
  Wild = "*"
  Splat = ":splat"
  Question = "?"
  Up = ".."
  Dot = "."
  IndexHtml = "index.html"
  Controls = {}
  PrivateDirs = {".rendermesh"}
  MetadataDir = ".rendermesh-meta"
  KeyText <- MCPageText
  HookFiles <- MCHookFiles
  HookStatuses <- MCHookStatuses
  Urls <- MCPageUrl
  Rules <- MCRules
PROPERTIES
  SteadyFilesAreFound
