SPECIFICATION Spec
CONSTANTS
  Tasks = {t1, t2}
  Runs = {r1}
  Start = 0
  Interval = 1
  MaxClock = 2
  MaxFaults = 1
  MaxRequests = 2
PROPERTIES DueIsServed
