-------------------------- MODULE WorkflowScheduler --------------------------
(***************************************************************************)
(* One execution of a workflow graph: the batch scheduler of               *)
(* packages/workflow-core and the loop around it.                          *)
(*                                                                         *)
(* A graph has nodes and edges.  WorkflowScheduler.schedule runs one       *)
(* iteration: it collects the executable nodes, starts all their handlers  *)
(* at once, waits for all of them with Promise.all and merges the results  *)
(* into the graph.  A handler that finishes puts the targets of its        *)
(* outgoing edges back to "pending" in the graph being executed, which is  *)
(* how a loop in the graph runs again.                                     *)
(*                                                                         *)
(* Two loops drive it.  driver = "execute" is executor.ts: iterate until   *)
(* the graph has a final state.  driver = "service" is WorkflowService:    *)
(* the same with an iteration limit, a check for iterations that change    *)
(* nothing, a record of the outcome in the database and resumeWorkflow.    *)
(*                                                                         *)
(* The data that flows along an edge is abstracted to whether the target   *)
(* has seen the source's latest output (fresh); the properties that edge   *)
(* conditions test are abstracted to one value of each node (out).         *)
(***************************************************************************)
EXTENDS Integers, FiniteSets

CONSTANTS
    Nodes,          \* node ids
    Graphs,         \* the edge sets an execution may start with
    Values,         \* values of a node that edge conditions ask for
    Drivers,        \* the loops that may drive an execution
    Throws,         \* whether a handler may throw
    MaxIterations,  \* MAX_ITERATIONS of the service loop (1000 in the code)
    MaxResumes      \* bound: calls of resumeWorkflow

Always    == "always"        \* an edge without a condition
OnSuccess == "onSuccess"     \* the condition {property: state, value: success}
NoValue   == "noValue"       \* a value no condition asks for
Edges     == [from: Nodes, to: Nodes, when: Values \cup {Always, OnSuccess}]

NodeStates     == {"pending", "success", "fail"}
WorkflowStates == {"pending", "running", "success", "fail"}
MaxUnchanged   == 3          \* MAX_UNCHANGED_ITERATIONS
NoResult       == [state |-> "none", value |-> NoValue]
NoSnapshot     == [n \in Nodes |-> "none"]

ASSUME SchedulerAssumption ==
    /\ IsFiniteSet(Nodes)
    /\ Graphs \subseteq SUBSET Edges
    /\ Values \cap {Always, OnSuccess, NoValue} = {}
    /\ Drivers \subseteq {"execute", "service"}
    /\ Throws \in BOOLEAN
    /\ MaxIterations \in Nat /\ MaxResumes \in Nat

VARIABLES
    edges,      \* ast.edges, fixed for an execution
    driver,     \* "execute" or "service", fixed for an execution
    wf,         \* state of the graph the driver holds (currentWorkflow.state)
    st, out,    \* state and value of each node object in that graph
    phase,      \* "ready" | "batch" | "catching" | "ended": where the driver is
    batch,      \* nodes whose handler runs in the current batch
    results,    \* results already collected by Promise.all
    orphans,    \* handlers of a rejected batch that are still running
    iter, unchanged, snap,  \* iterationCount, unchangedCount, lastStateSnapshot
    outcome,    \* how the driver's loop ended
    saved,      \* status of the execution in the database
    resumes,    \* history: calls of resumeWorkflow so far
    fresh,      \* history: fresh[d][a] iff d's latest start saw a's latest output
    succeeded   \* history: nodes whose handler last returned success and that
                \* no handler has put back to pending since

counters == <<iter, unchanged, snap>>
vars == <<edges, driver, wf, st, out, phase, batch, results, orphans, counters,
          outcome, saved, resumes, fresh, succeeded>>

-----------------------------------------------------------------------------
(* DependencyAnalyzer *)

Incoming(n)      == {e \in edges : e.to = n}
Unconditional(E) == {e \in E : e.when = Always}
Conditional(E)   == {e \in E : e.when # Always}

\* actualValue === edge.condition.value, for a source in state s with value v
ConditionMet(e, s, v) == IF e.when = OnSuccess THEN s = "success" ELSE e.when = v

\* The condition of e holds for its source, which has succeeded.
Satisfied(e, s, o) == s[e.from] = "success" /\ ConditionMet(e, s[e.from], o[e.from])

AllUnconditionalReady(n) ==
    \A e \in Unconditional(Incoming(n)) : st[e.from] = "success"

AllConditionalSourcesPending(n) ==
    \A e \in Conditional(Incoming(n)) : st[e.from] = "pending"

findExecutableNodes ==
    {n \in Nodes :
        /\ st[n] = "pending"
        /\ AllUnconditionalReady(n)
        /\ \/ AllConditionalSourcesPending(n)
           \/ \E e \in Conditional(Incoming(n)) : Satisfied(e, st, out)}

\* Nodes reached from the nodes without incoming edges along edges that are
\* unconditional or satisfied: those in every set closed under both.
ReachClosed(S, s, o) ==
    /\ \A n \in Nodes : Incoming(n) = {} => n \in S
    /\ \A e \in edges : e.from \in S /\ (e.when = Always \/ Satisfied(e, s, o)) => e.to \in S

findReachableNodes(s, o) ==
    {n \in Nodes : \A S \in SUBSET Nodes : ReachClosed(S, s, o) => n \in S}

someReachableNodeCompleted(s, o) ==     \* mutation: some instead of every
    \E n \in findReachableNodes(s, o) : s[n] \in {"success", "fail"}

areAllReachableNodesCompleted(s, o) ==
    \A n \in findReachableNodes(s, o) : s[n] \in {"success", "fail"}

-----------------------------------------------------------------------------
(* WorkflowScheduler *)

DownstreamOfSuccess(n, s, v) ==     \* mutation: a failed handler resets nothing
    {e.to : e \in {x \in edges : s = "success" /\ x.from = n /\ (x.when = Always \/ ConditionMet(x, s, v))}}
UnconditionalDownstream(n, s, v) ==     \* mutation: conditional edges reset nothing
    {e.to : e \in {x \in edges : x.from = n /\ x.when = Always}}

\* The nodes a handler of n that ends in state s with value v puts back to
\* pending.
Downstream(n, s, v) ==
    {e.to : e \in {x \in edges : x.from = n /\ (x.when = Always \/ ConditionMet(x, s, v))}}

Reset(D) == [n \in Nodes |-> IF n \in D THEN "pending" ELSE st[n]]

\* What a handler of n can return as the value its outgoing conditions test.
OutValues(n) == {NoValue} \cup ({e.when : e \in {x \in edges : x.from = n}} \ {Always, OnSuccess})

MergedStateDropsResults == st     \* mutation: the node objects are never replaced
MergedStateDropsBatchOnFailure ==     \* mutation: a failed node discards its batch
    [n \in Nodes |-> IF \/ results[n] = NoResult
                        \/ results[n].state = "success" /\ \E m \in Nodes : results[m].state = "fail"
                     THEN st[n] ELSE results[n].state]

\* StateMerger.mergeNodeStates: the result of an executed node replaces the node.
MergedState == [n \in Nodes |-> IF results[n] = NoResult THEN st[n] ELSE results[n].state]
MergedValue == [n \in Nodes |-> IF results[n] = NoResult THEN out[n] ELSE results[n].value]

FinalState(s, o) ==
    IF ~ areAllReachableNodesCompleted(s, o) THEN "running"
    ELSE IF \E n \in Nodes : s[n] = "fail" THEN "fail" ELSE "success"

SucceededAfter(n, s, v) ==
    (IF s = "success" THEN succeeded \cup {n} ELSE succeeded \ {n}) \ Downstream(n, s, v)

\* allOutputs holds the outputs of the nodes in success.
Saw(a) == st[a] = "success"

Init ==
    /\ edges \in Graphs /\ driver \in Drivers
    /\ wf = "pending"
    /\ st = [n \in Nodes |-> "pending"] /\ out = [n \in Nodes |-> NoValue]
    /\ phase = "ready" /\ batch = {} /\ orphans = {}
    /\ results = [n \in Nodes |-> NoResult]
    /\ iter = 0 /\ unchanged = 0 /\ snap = NoSnapshot
    /\ outcome = "none" /\ saved = "running" /\ resumes = 0
    /\ fresh = [d \in Nodes |-> [a \in Nodes |-> FALSE]] /\ succeeded = {}

NeverOverLimit == FALSE     \* mutation
OverLimit == driver = "service" /\ iter = MaxIterations

\* The driver starts an iteration: the inputs of every executable node are
\* assigned and all their handlers start.
StartIteration ==
    /\ phase = "ready" /\ wf \in {"pending", "running"} /\ ~ OverLimit
    /\ iter' = IF driver = "service" /\ iter < MaxIterations THEN iter + 1 ELSE iter
    /\ phase' = "batch" /\ batch' = findExecutableNodes
    /\ fresh' = [d \in Nodes |-> [a \in Nodes |->
                    IF d \in findExecutableNodes THEN Saw(a) ELSE fresh[d][a]]]
    /\ UNCHANGED <<edges, driver, wf, st, out, results, orphans, unchanged, snap, outcome, saved, resumes, succeeded>>

\* iterationCount > MAX_ITERATIONS: the service gives up.
ExceedLimit ==
    /\ phase = "ready" /\ wf \in {"pending", "running"} /\ OverLimit
    /\ phase' = "catching" /\ outcome' = "limit"
    /\ UNCHANGED <<edges, driver, wf, st, out, batch, results, orphans, counters, saved, resumes, fresh, succeeded>>

\* A handler of the batch returns; the targets of its edges become pending
\* in the graph under execution, before any result is merged.
Settle(n, s, v) ==
    /\ phase = "batch" /\ n \in batch
    /\ batch' = batch \ {n}
    /\ results' = [results EXCEPT ![n] = [state |-> s, value |-> v]]
    /\ st' = Reset(Downstream(n, s, v))
    /\ fresh' = [d \in Nodes |-> [fresh[d] EXCEPT ![n] = FALSE]]
    /\ succeeded' = SucceededAfter(n, s, v)
    /\ UNCHANGED <<edges, driver, wf, out, phase, orphans, counters, outcome, saved, resumes>>

\* A handler throws: Promise.all rejects at once, the results already
\* collected are dropped and the other handlers keep running unobserved.
Throw(n) ==
    /\ Throws /\ phase = "batch" /\ n \in batch
    /\ phase' = IF driver = "service" THEN "catching" ELSE "ended"
    /\ orphans' = IF driver = "service" THEN batch \ {n} ELSE {}
    /\ batch' = {} /\ results' = [m \in Nodes |-> NoResult]
    /\ outcome' = "thrown"
    /\ UNCHANGED <<edges, driver, wf, st, out, counters, saved, resumes, fresh, succeeded>>

\* A handler of the rejected batch returns while the failure is being saved:
\* its result goes nowhere, its downstream nodes still become pending.
OrphanSettles(n, s, v) ==
    /\ phase = "catching" /\ n \in orphans
    /\ orphans' = orphans \ {n}
    /\ st' = Reset(Downstream(n, s, v))
    /\ succeeded' = SucceededAfter(n, s, v)
    /\ UNCHANGED <<edges, driver, wf, out, phase, batch, results, counters, outcome, saved, resumes, fresh>>

SnapshotOfCounts(s) ==     \* mutation: only how many nodes are in each state
    [q \in NodeStates |-> Cardinality({n \in Nodes : s[n] = q})]

\* What the service compares between iterations: the state of every node.
Snapshot(s) == s

\* All handlers of the batch have returned: merge, compute the graph's state,
\* and, in the service, compare the node states with those of the iteration
\* before.
EndBatch ==
    /\ phase = "batch" /\ batch = {}
    /\ st' = MergedState /\ out' = MergedValue
    /\ wf' = FinalState(MergedState, MergedValue)
    /\ results' = [n \in Nodes |-> NoResult]
    /\ IF driver = "service"
         THEN LET same == Snapshot(MergedState) = snap IN
              /\ unchanged' = IF same THEN unchanged + 1 ELSE 0
              /\ snap' = Snapshot(MergedState)
              /\ IF same /\ unchanged + 1 >= MaxUnchanged
                   THEN phase' = "catching" /\ outcome' = "deadlock"
                   ELSE phase' = "ready" /\ outcome' = outcome
         ELSE phase' = "ready" /\ UNCHANGED <<unchanged, snap, outcome>>
    /\ UNCHANGED <<edges, driver, batch, orphans, iter, saved, resumes, fresh, succeeded>>

-----------------------------------------------------------------------------
(* WorkflowService: end of an execution and resumeWorkflow *)

\* The loop ends because the graph is in a final state, which is recorded.
Finish ==
    /\ phase = "ready" /\ wf \in {"success", "fail"}
    /\ phase' = "ended" /\ outcome' = wf
    /\ saved' = IF driver = "service" THEN wf ELSE saved
    /\ UNCHANGED <<edges, driver, wf, st, out, batch, results, orphans, counters, resumes, fresh, succeeded>>

\* The catch block records the failure and the graph as it is now.  Handlers
\* still running hold objects nobody reads any more.
SaveFailure ==
    /\ phase = "catching"
    /\ phase' = "ended" /\ saved' = "fail" /\ orphans' = {}
    /\ UNCHANGED <<edges, driver, wf, st, out, batch, results, counters, outcome, resumes, fresh, succeeded>>

\* resumeWorkflow reloads the recorded graph and enters the loop again.
resumeWorkflow ==
    /\ driver = "service" /\ phase = "ended" /\ saved # "success"
    /\ resumes < MaxResumes /\ resumes' = resumes + 1
    /\ phase' = "ready" /\ saved' = "running" /\ outcome' = "none"
    /\ iter' = 0 /\ unchanged' = 0 /\ snap' = NoSnapshot
    /\ UNCHANGED <<edges, driver, wf, st, out, batch, results, orphans, fresh, succeeded>>

HandlerReturns ==
    \E n \in Nodes, s \in {"success", "fail"} : \E v \in OutValues(n) :
        Settle(n, s, v) \/ OrphanSettles(n, s, v)

Next ==
    \/ StartIteration \/ ExceedLimit \/ EndBatch \/ HandlerReturns
    \/ \E n \in Nodes : Throw(n)
    \/ Finish \/ SaveFailure \/ resumeWorkflow

\* The loops are straight async code: a step that is possible is taken.  A
\* handler is assumed to return or throw; nobody has to call resumeWorkflow.
Progress ==
    \/ StartIteration \/ ExceedLimit \/ EndBatch \/ Finish \/ SaveFailure
    \/ \E n \in Nodes, s \in {"success", "fail"} : \E v \in OutValues(n) : Settle(n, s, v)

Spec == Init /\ [][Next]_vars
FairSpec == Spec /\ WF_vars(Progress)

-----------------------------------------------------------------------------
(* Properties *)

\* The types of the variables; the counters stay within their limits.
TypeOK ==
    /\ edges \subseteq Edges /\ driver \in Drivers
    /\ wf \in WorkflowStates
    /\ st \in [Nodes -> NodeStates]
    /\ out \in [Nodes -> Values \cup {NoValue}]
    /\ phase \in {"ready", "batch", "catching", "ended"}
    /\ batch \subseteq Nodes /\ orphans \subseteq Nodes
    /\ results \in [Nodes -> {NoResult} \cup [state: {"success", "fail"}, value: Values \cup {NoValue}]]
    /\ iter \in 0..MaxIterations /\ unchanged \in 0..MaxUnchanged
    /\ snap \in [Nodes -> NodeStates \cup {"none"}]
    /\ outcome \in {"none", "success", "fail", "thrown", "deadlock", "limit"}
    /\ saved \in {"running", "success", "fail"} /\ resumes \in 0..MaxResumes
    /\ fresh \in [Nodes -> [Nodes -> BOOLEAN]] /\ succeeded \subseteq Nodes

\* The service reports a deadlock only when no node could have been started:
\* the comparison of node states (workflow.service.ts:336-352) never mistakes
\* an iteration that ran something for one that made no progress.
NoFalseDeadlock == outcome = "deadlock" => findExecutableNodes = {}

\* The shapes of graphs on which the verdicts below hold.  No cycle is without
\* a condition: every set of nodes has one that waits for none of the others.
Grounded(G) ==
    \A T \in SUBSET Nodes : T # {} =>
        \E n \in T : \A e \in Unconditional(G) : e.to = n => e.from \notin T

\* A condition leads back, to a node that its source waits for.
LoopsBack(G) ==
    \A c \in Conditional(G) : \E e \in Unconditional(G) : e.from = c.to /\ e.to = c.from

\* Whatever else puts the target of a condition back to pending does the same
\* with its source, or runs once, before either.
RestartsTogether(G) ==
    \A c \in Conditional(G), e \in G : e.to = c.to /\ e.from # c.from =>
        /\ e.when = Always
        /\ \/ \E f \in Unconditional(G) : f.from = e.from /\ f.to = c.from
           \/ \A f \in G : f.to # e.from

\* The nodes that are reached whatever the conditions say; all others are
\* entered from these.
AlwaysReached(G) ==
    {n \in Nodes : \A S \in SUBSET Nodes :
        /\ \A m \in Nodes : (\A e \in G : e.to # m) => m \in S
        /\ \A e \in Unconditional(G) : e.from \in S => e.to \in S
        => n \in S}
EnteredFromReached(G) ==
    \A n \in Nodes \ AlwaysReached(G) : \A e \in G : e.to = n => e.from \in AlwaysReached(G)

\* A node that counts as completed was started after the latest completion of
\* each of its unconditional sources and so worked on their latest outputs,
\* across loops, thrown batches and resumes: the reset of the targets
\* (scheduler.ts:61-73) and the "every" of dependency-analyzer.ts:18-23.
FreshInputs ==
    \A e \in Unconditional(edges) : st[e.to] # "pending" => fresh[e.to][e.from]

\* The same at the end of a successful execution for an edge whose condition
\* holds: its target worked on the latest output of its source
\* (dependency-analyzer.ts:27: a conditional source that is pending "hasn't
\* been reached yet", and resets its target when it is).
FreshBranches ==
    outcome = "success" =>
        \A e \in Conditional(edges) :
            Satisfied(e, st, out) /\ st[e.to] # "pending" => fresh[e.to][e.from]

\* When the execution succeeds no node is left that could still be started.
NothingLeftBehind == outcome = "success" => findExecutableNodes = {}

\* A deadlock is always the consequence of a failed node, in graphs that are
\* Grounded, LoopsBack and RestartsTogether: the wait for conditional sources
\* (dependency-analyzer.ts:27) and the resets of a loop (scheduler.ts:61-73)
\* never leave two nodes waiting for each other.
DeadlockMeansFailure == outcome = "deadlock" => \E n \in Nodes : st[n] = "fail"

\* The service's loop always comes to an end, looping graphs included.
Terminates == (driver = "service" /\ phase # "ended") ~> (phase = "ended")

\* Either loop ends on an acyclic graph without conditions in which no node
\* fails (the runs have no graphs with an unconditional cycle).
EndsUnlessFailure ==
    Conditional(edges) = {} => <>(phase = "ended" \/ \E n \in Nodes : st[n] = "fail")

\* A handler that returned success is not run again unless another handler
\* put its node back to pending (workflow.service.ts:443: resumeWorkflow
\* "resumes and continues" an execution).
NoRepeat == [][\A n \in batch' \ batch : n \notin succeeded]_vars
=============================================================================
