SPECIFICATION TOFairSpec
CONSTANTS
  Objects = {o1}
  Runners = {k1, k2}
  Controllers = {c1, c2}
  Nothing = nothing
  MaxAsks = 3
INVARIANT
  ObjectSafe
PROPERTY
  StopReleases
