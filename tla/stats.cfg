\* Two aggregators, two messages, two failures.
SPECIFICATION Spec
CONSTANTS
  Messages = {m1, m2}
  Instances = {i1, i2}
  MaxTries = 2
  MaxRetries = 1
  MaxFaults = 2
INVARIANTS RowIsTheCommits NoneForgotten DayWithinHours
PROPERTY MarkedIsFinal
SYMMETRY Symmetry
CHECK_DEADLOCK FALSE
