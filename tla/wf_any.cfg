SPECIFICATION Spec
CONSTANTS
    Nodes <- ThreeNodes
    Graphs <- AllGraphs
    Values = {"go"}
    Drivers = {"execute", "service"}
    Throws = TRUE
    MaxIterations = 6
    MaxResumes = 1
INVARIANT NoFalseDeadlock
INVARIANT FreshInputs
CHECK_DEADLOCK FALSE
