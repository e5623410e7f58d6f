\* Two navigations race the status check, the timer and the login page.
SPECIFICATION Spec
CONSTANTS
  Navigations = {n1, n2}
  Sites = {"weibo", "jd"}
  Drivers = {"memory", "redis"}
  MaxNews = 1
  MaxFaults = 1
INVARIANTS OneEnding NoContextLeft EndingStored CompletedIsSaved
SYMMETRY Symmetry
CHECK_DEADLOCK FALSE
