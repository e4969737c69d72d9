SPECIFICATION RunSpec
CONSTANTS
  v1 = v1
  v2 = v2
  ssh = ssh
  https = https
  local = local
  copy = copy
  bare = bare
  app = app
  Reviews = {v1, v2}
  Setups <- SetupsMC
  Places <- PlacesMC
  UrlOf <- UrlsMC
  RootOf <- RootsMC
  RepoPaths <- ClonePaths
  Days = 2
  RecentLimit = 1
  MaxTime = 3
  MaxTorn = 1
INVARIANTS
  LogSound
  TrendSound
