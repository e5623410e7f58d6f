SPECIFICATION Spec
CONSTANTS
  Tasks = {t1}
  Runs = {r1, r2}
  Start = 0
  Interval = 1
  MaxClock = 2
  MaxFaults = 1
  MaxRequests = 2
INVARIANTS NoHole NoOverlapUnlessRaced
PROPERTIES DueMeansServed ImplementsCoverage
