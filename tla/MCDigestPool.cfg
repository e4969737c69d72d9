SPECIFICATION FairSpec
CONSTANTS
  NRepos = 3
  Concurrency = 2
  a = a
  b = b
  Paths = {a, b}
  EmptyPath = EmptyPath
  PathOf <- MCPathOf
INVARIANTS
  ResultsSound
  NoOrphanGit
PROPERTIES
  WriteOnce
  Returns
