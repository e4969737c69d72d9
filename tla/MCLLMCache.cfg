SPECIFICATION FairSpec
CONSTANTS
  p1 = p1
  p2 = p2
  h1 = h1
  Procs = {p1, p2}
  Hosts = {h1}
  HostOf <- SharedHost
  DiskHosts = {h1}
  RemoteProcs = {p1}
  TTLOf <- DifferentTTLs
  Skew <- NoSkew
  MaxTime = 2
  MaxFaults = 1
INVARIANTS
  NoTornEntry
  FreshHit
PROPERTIES
  LookupsRecover
