SPECIFICATION FairSpec
CONSTANTS
    Nodes <- SearchNodes
    Graphs <- RealGraphs
    Values = {"nextPage", "nextSearch"}
    Drivers = {"execute", "service"}
    Throws = FALSE
    MaxIterations = 10
    MaxResumes = 1
INVARIANT NothingLeftBehind
INVARIANT DeadlockMeansFailure
INVARIANT FreshBranches
PROPERTY NoRepeat
PROPERTY Terminates
PROPERTY EndsUnlessFailure
CHECK_DEADLOCK FALSE
