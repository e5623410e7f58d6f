SPECIFICATION Spec
CONSTANTS
  Runs = {r1, r2}
  Resumers = {c1, c2}
  Steps = 2
  MaxFaults = 2
INVARIANTS CacheFollowsRow RunIsAlone RunningMeansRun
PROPERTY NeverGoesBack
SYMMETRY Symmetry
CHECK_DEADLOCK FALSE
