---------------------- MODULE WorkflowScheduler_proofs ----------------------
(***************************************************************************)
(* Proofs about WorkflowScheduler, for every set of nodes, every graph,    *)
(* either driving loop and handlers that fail or throw: the types, that    *)
(* completed nodes have worked on fresh inputs (FreshInputs) and that a    *)
(* reported deadlock is one (NoFalseDeadlock); when handlers do not throw, *)
(* that no work is done twice (NoRepeat); and, for the graphs of the       *)
(* shapes stated with each, what the verdicts of an execution mean         *)
(* (NothingLeftBehind, FreshBranches, DeadlockMeansFailure).               *)
(*                                                                         *)
(* These properties speak about states between batches and depend on what  *)
(* happens inside one: Executed are the nodes started in the current       *)
(* batch, and the invariants say that they were pending when the last      *)
(* snapshot was taken, that their unconditional sources are not in the     *)
(* batch with them, what they have seen and put back to pending, and that  *)
(* nothing was executable if nothing was started.                          *)
(***************************************************************************)
EXTENDS WorkflowScheduler, TLAPS

\* The nodes started in the current batch.
Executed == {n \in Nodes : n \in batch \/ results[n] # NoResult}

\* Outside a batch nothing runs, except the handlers a rejected batch left.
Idle ==
    /\ phase # "batch" => batch = {} /\ \A n \in Nodes : results[n] = NoResult
    /\ orphans # {} => phase = "catching" /\ outcome = "thrown"
    /\ phase \in {"ready", "batch"} => outcome = "none" /\ unchanged < MaxUnchanged

\* Between batches the snapshot is the current state, or none was taken yet;
\* only the service takes any.
SnapshotCurrent ==
    /\ phase = "ready" => snap = st \/ snap = NoSnapshot
    /\ driver # "service" => snap = NoSnapshot

\* A batch consists of nodes that were pending in the last snapshot.
ExecutedWerePending ==
    phase = "batch" => \A n \in Executed : snap[n] \in {"pending", "none"}

\* A node and an unconditional source of it never run in the same batch.
ExecutedAreFresh ==
    phase = "batch" =>
        \A e \in Unconditional(edges) :
            e.to \in Executed => fresh[e.to][e.from] /\ e.from \notin batch

\* A batch without nodes means that no node is executable.
EmptyBatchStuck == phase = "batch" /\ Executed = {} => findExecutableNodes = {}

SchedulerInv ==
    /\ TypeOK /\ Idle
    /\ SnapshotCurrent /\ ExecutedWerePending /\ EmptyBatchStuck
    /\ ExecutedAreFresh /\ FreshInputs
    /\ NoFalseDeadlock

-----------------------------------------------------------------------------
(* The nodes a handler puts back to pending are nodes; values stay values. *)
LEMMA EdgeType ==
    ASSUME TypeOK, NEW e \in edges
    PROVE  e.from \in Nodes /\ e.to \in Nodes /\ e.when \in Values \cup {Always, OnSuccess}
BY DEF TypeOK, Edges

LEMMA OutValuesType ==
    ASSUME TypeOK, NEW n \in Nodes, NEW v \in OutValues(n)
    PROVE  v \in Values \cup {NoValue}
BY EdgeType DEF OutValues

LEMMA ResetType ==
    ASSUME TypeOK, NEW D
    PROVE  /\ Reset(D) \in [Nodes -> NodeStates]
           /\ \A n \in Nodes : Reset(D)[n] # "pending" => Reset(D)[n] = st[n] /\ n \notin D
BY DEF TypeOK, Reset, NodeStates

LEMMA MergedType ==
    ASSUME TypeOK
    PROVE  /\ MergedState \in [Nodes -> NodeStates]
           /\ MergedValue \in [Nodes -> Values \cup {NoValue}]
<1>1. ASSUME NEW n \in Nodes, results[n] # NoResult
      PROVE  /\ results[n].state \in {"success", "fail"}
             /\ results[n].value \in Values \cup {NoValue}
  <2>1. results[n] \in [state: {"success", "fail"}, value: Values \cup {NoValue}]
    BY <1>1 DEF TypeOK
  <2> QED
    BY <2>1
<1>2. st \in [Nodes -> NodeStates] /\ out \in [Nodes -> Values \cup {NoValue}]
  BY DEF TypeOK
<1> QED
  BY <1>1, <1>2 DEF MergedState, MergedValue, NodeStates

LEMMA ExecutableType == findExecutableNodes \subseteq Nodes
BY DEF findExecutableNodes

(* Every step keeps the types. *)
LEMMA TypeStep == TypeOK /\ Idle /\ [Next]_vars => TypeOK'
<1> SUFFICES ASSUME TypeOK, Idle, [Next]_vars
             PROVE  TypeOK'
  OBVIOUS
<1> USE SchedulerAssumption
<1>1. CASE StartIteration
  <2>1. iter' \in 0..MaxIterations
    BY <1>1 DEF StartIteration, TypeOK
  <2>2. batch' \subseteq Nodes
    BY <1>1, ExecutableType DEF StartIteration
  <2>3. fresh' \in [Nodes -> [Nodes -> BOOLEAN]]
    BY <1>1 DEF StartIteration, TypeOK, Saw
  <2> QED
    BY <1>1, <2>1, <2>2, <2>3 DEF StartIteration, TypeOK
<1>2. CASE ExceedLimit
  BY <1>2 DEF ExceedLimit, TypeOK, counters
<1>3. ASSUME NEW n \in Nodes, NEW s \in {"success", "fail"}, NEW v \in OutValues(n), Settle(n, s, v)
      PROVE  TypeOK'
  <2>1. v \in Values \cup {NoValue}
    BY OutValuesType
  <2>2. results' \in [Nodes -> {NoResult} \cup [state: {"success", "fail"}, value: Values \cup {NoValue}]]
    BY <1>3, <2>1 DEF Settle, TypeOK
  <2>3. st' \in [Nodes -> NodeStates]
    BY <1>3, ResetType DEF Settle
  <2>4. fresh' \in [Nodes -> [Nodes -> BOOLEAN]]
    BY <1>3 DEF Settle, TypeOK
  <2>5. succeeded' \subseteq Nodes
    BY <1>3 DEF Settle, SucceededAfter, TypeOK
  <2> QED
    BY <1>3, <2>2, <2>3, <2>4, <2>5 DEF Settle, TypeOK, counters
<1>4. ASSUME NEW n \in Nodes, Throw(n)
      PROVE  TypeOK'
  BY <1>4 DEF Throw, TypeOK, counters
<1>5. ASSUME NEW n \in Nodes, NEW s \in {"success", "fail"}, NEW v, OrphanSettles(n, s, v)
      PROVE  TypeOK'
  <2>1. st' \in [Nodes -> NodeStates]
    BY <1>5, ResetType DEF OrphanSettles
  <2>2. succeeded' \subseteq Nodes
    BY <1>5 DEF OrphanSettles, SucceededAfter, TypeOK
  <2> QED
    BY <1>5, <2>1, <2>2 DEF OrphanSettles, TypeOK, counters
<1>6. CASE EndBatch
  <2>1. wf' \in WorkflowStates
    BY <1>6 DEF EndBatch, FinalState, WorkflowStates
  <2>2. st' \in [Nodes -> NodeStates] /\ out' \in [Nodes -> Values \cup {NoValue}]
    BY <1>6, MergedType DEF EndBatch
  <2>3. snap' \in [Nodes -> NodeStates \cup {"none"}]
    BY <1>6, MergedType DEF EndBatch, TypeOK, Snapshot
  <2>4. unchanged' \in 0..MaxUnchanged
    BY <1>6 DEF EndBatch, TypeOK, Idle, MaxUnchanged
  <2>5. phase' \in {"ready", "batch", "catching", "ended"}
    BY <1>6 DEF EndBatch
  <2>6. outcome' \in {"none", "success", "fail", "thrown", "deadlock", "limit"}
    BY <1>6 DEF EndBatch, TypeOK
  <2> QED
    BY <1>6, <2>1, <2>2, <2>3, <2>4, <2>5, <2>6 DEF EndBatch, TypeOK
<1>7. CASE Finish
  BY <1>7 DEF Finish, TypeOK, counters
<1>8. CASE SaveFailure
  BY <1>8 DEF SaveFailure, TypeOK, counters
<1>9. CASE resumeWorkflow
  BY <1>9 DEF resumeWorkflow, TypeOK, MaxUnchanged, NoSnapshot
<1>10. CASE UNCHANGED vars
  BY <1>10 DEF vars, counters, TypeOK
<1> QED
  BY <1>1, <1>2, <1>3, <1>4, <1>5, <1>6, <1>7, <1>8, <1>9, <1>10 DEF Next, HandlerReturns

(* Every step keeps Idle. *)
LEMMA IdleStep == TypeOK /\ Idle /\ [Next]_vars => Idle'
<1> SUFFICES ASSUME TypeOK, Idle, [Next]_vars
             PROVE  Idle'
  OBVIOUS
<1>1. CASE StartIteration
  BY <1>1 DEF StartIteration, Idle
<1>2. CASE ExceedLimit
  BY <1>2 DEF ExceedLimit, Idle, counters
<1>3. ASSUME NEW n \in Nodes, NEW s, NEW v, Settle(n, s, v)
      PROVE  Idle'
  BY <1>3 DEF Settle, Idle, counters
<1>4. ASSUME NEW n \in Nodes, Throw(n)
      PROVE  Idle'
  BY <1>4 DEF Throw, Idle, counters
<1>5. ASSUME NEW n \in Nodes, NEW s, NEW v, OrphanSettles(n, s, v)
      PROVE  Idle'
  BY <1>5 DEF OrphanSettles, Idle, counters
<1>6. CASE EndBatch
  BY <1>6 DEF EndBatch, Idle, TypeOK, MaxUnchanged
<1>7. CASE Finish
  BY <1>7 DEF Finish, Idle, counters
<1>8. CASE SaveFailure
  BY <1>8 DEF SaveFailure, Idle, counters
<1>9. CASE resumeWorkflow
  BY <1>9 DEF resumeWorkflow, Idle, MaxUnchanged
<1>10. CASE UNCHANGED vars
  BY <1>10 DEF vars, counters, Idle
<1> QED
  BY <1>1, <1>2, <1>3, <1>4, <1>5, <1>6, <1>7, <1>8, <1>9, <1>10 DEF Next, HandlerReturns

-----------------------------------------------------------------------------
(* Fresh inputs *)

(* Started nodes were pending: they are in no unconditional source's place. *)
LEMMA StartedFresh ==
    ASSUME TypeOK, NEW e \in Unconditional(edges), e.to \in findExecutableNodes
    PROVE  st[e.from] = "success" /\ e.from \notin findExecutableNodes /\ st[e.to] = "pending"
<1>1. e \in Unconditional(Incoming(e.to))
  BY DEF Unconditional, Incoming
<1>2. st[e.to] = "pending" /\ st[e.from] = "success"
  BY <1>1 DEF findExecutableNodes, AllUnconditionalReady
<1> QED
  BY <1>2 DEF findExecutableNodes

(* A handler that returns puts the target of an unconditional edge of its    *)
(* node back to pending.                                                     *)
LEMMA UnconditionalReset ==
    ASSUME TypeOK, NEW e \in Unconditional(edges), NEW s, NEW v
    PROVE  Reset(Downstream(e.from, s, v))[e.to] = "pending"
<1>1. e.to \in Downstream(e.from, s, v)
  BY DEF Downstream, Unconditional
<1>2. e.to \in Nodes
  BY EdgeType DEF Unconditional
<1> QED
  BY <1>1, <1>2 DEF Reset

(* Every step keeps FreshInputs, and what it rests on inside a batch. *)
LEMMA FreshStep ==
    TypeOK /\ Idle /\ FreshInputs /\ ExecutedAreFresh /\ [Next]_vars
        => FreshInputs' /\ ExecutedAreFresh'
<1> SUFFICES ASSUME TypeOK, Idle, FreshInputs, ExecutedAreFresh, [Next]_vars
             PROVE  FreshInputs' /\ ExecutedAreFresh'
  OBVIOUS
<1>e. \A e \in Unconditional(edges) : e.from \in Nodes /\ e.to \in Nodes
  BY EdgeType DEF Unconditional
<1>0. ASSUME edges' = edges, st' = st, fresh' = fresh, phase' # "batch"
      PROVE  FreshInputs' /\ ExecutedAreFresh'
  BY <1>0 DEF FreshInputs, ExecutedAreFresh, Unconditional
<1>1. CASE StartIteration
  <2>1. /\ edges' = edges /\ st' = st /\ results' = results
        /\ batch' = findExecutableNodes /\ \A n \in Nodes : results[n] = NoResult
    BY <1>1 DEF StartIteration, Idle
  <2>2. \A d \in Nodes : \A a \in Nodes :
            fresh'[d][a] = IF d \in findExecutableNodes THEN st[a] = "success" ELSE fresh[d][a]
    BY <1>1 DEF StartIteration, Saw
  <2>3. ASSUME NEW e \in Unconditional(edges), e.to \in findExecutableNodes
        PROVE  fresh'[e.to][e.from] /\ e.from \notin findExecutableNodes
    BY <1>e, <2>2, <2>3, StartedFresh
  <2>4. ASSUME NEW e \in Unconditional(edges), st[e.to] # "pending"
        PROVE  fresh'[e.to][e.from]
    <3>1. e.to \notin findExecutableNodes
      BY <2>4 DEF findExecutableNodes
    <3>2. fresh[e.to][e.from]
      BY <2>4 DEF FreshInputs
    <3> QED
      BY <1>e, <2>2, <3>1, <3>2
  <2>5. FreshInputs'
    BY <2>1, <2>4 DEF FreshInputs, Unconditional
  <2>6. Executed' = findExecutableNodes
    BY <2>1, ExecutableType DEF Executed
  <2>7. ExecutedAreFresh'
    BY <2>1, <2>3, <2>6 DEF ExecutedAreFresh, Unconditional
  <2> QED
    BY <2>5, <2>7
<1>2. CASE ExceedLimit
  BY <1>0, <1>2 DEF ExceedLimit
<1>3. ASSUME NEW n \in Nodes, NEW s \in {"success", "fail"}, NEW v \in OutValues(n), Settle(n, s, v)
      PROVE  FreshInputs' /\ ExecutedAreFresh'
  <2>1. /\ edges' = edges /\ phase = "batch" /\ n \in batch /\ batch' = batch \ {n}
        /\ st' = Reset(Downstream(n, s, v))
    BY <1>3 DEF Settle
  <2>2. \A d \in Nodes : \A a \in Nodes : a # n => fresh'[d][a] = fresh[d][a]
    BY <1>3 DEF Settle, TypeOK
  <2>3. \A m \in Nodes : m # n => results'[m] = results[m]
    BY <1>3 DEF Settle, TypeOK
  <2>4. Executed' \subseteq Executed
    BY <2>1, <2>3 DEF Executed
  <2>5. ASSUME NEW e \in Unconditional(edges), st'[e.to] # "pending"
        PROVE  fresh'[e.to][e.from]
    <3>1. e.from # n
      BY <2>1, <2>5, UnconditionalReset
    <3>2. st[e.to] # "pending"
      BY <1>e, <2>1, <2>5, ResetType
    <3> QED
      BY <1>e, <2>2, <3>1, <3>2 DEF FreshInputs
  <2>6. ASSUME NEW e \in Unconditional(edges), e.to \in Executed'
        PROVE  fresh'[e.to][e.from] /\ e.from \notin batch'
    <3>1. fresh[e.to][e.from] /\ e.from \notin batch
      BY <2>1, <2>4, <2>6 DEF ExecutedAreFresh
    <3> QED
      BY <1>e, <2>1, <2>2, <3>1
  <2>7. FreshInputs'
    BY <2>1, <2>5 DEF FreshInputs, Unconditional
  <2>8. ExecutedAreFresh'
    BY <2>1, <2>6 DEF ExecutedAreFresh, Unconditional
  <2> QED
    BY <2>7, <2>8
<1>4. ASSUME NEW n \in Nodes, Throw(n)
      PROVE  FreshInputs' /\ ExecutedAreFresh'
  BY <1>0, <1>4 DEF Throw
<1>5. ASSUME NEW n \in Nodes, NEW s, NEW v, OrphanSettles(n, s, v)
      PROVE  FreshInputs' /\ ExecutedAreFresh'
  <2>1. edges' = edges /\ fresh' = fresh /\ phase' # "batch" /\ st' = Reset(Downstream(n, s, v))
    BY <1>5 DEF OrphanSettles
  <2>2. \A m \in Nodes : st'[m] # "pending" => st[m] # "pending"
    BY <2>1, ResetType
  <2>3. FreshInputs'
    BY <1>e, <2>1, <2>2 DEF FreshInputs, Unconditional
  <2> QED
    BY <2>1, <2>3 DEF ExecutedAreFresh
<1>6. CASE EndBatch
  <2>1. edges' = edges /\ fresh' = fresh /\ phase = "batch" /\ phase' # "batch" /\ st' = MergedState
    BY <1>6 DEF EndBatch
  <2>2. ASSUME NEW e \in Unconditional(edges), st'[e.to] # "pending"
        PROVE  fresh[e.to][e.from]
    <3>1. CASE results[e.to] = NoResult
      <4>1. st[e.to] # "pending"
        BY <1>e, <2>1, <2>2, <3>1 DEF MergedState
      <4> QED
        BY <4>1 DEF FreshInputs
    <3>2. CASE results[e.to] # NoResult
      BY <1>e, <2>1, <3>2 DEF ExecutedAreFresh, Executed
    <3> QED
      BY <3>1, <3>2
  <2>3. FreshInputs'
    BY <2>1, <2>2 DEF FreshInputs, Unconditional
  <2> QED
    BY <2>1, <2>3 DEF ExecutedAreFresh
<1>7. CASE Finish
  BY <1>0, <1>7 DEF Finish
<1>8. CASE SaveFailure
  BY <1>0, <1>8 DEF SaveFailure
<1>9. CASE resumeWorkflow
  BY <1>0, <1>9 DEF resumeWorkflow
<1>10. CASE UNCHANGED vars
  BY <1>10 DEF vars, FreshInputs, ExecutedAreFresh, Executed, Unconditional
<1> QED
  BY <1>1, <1>2, <1>3, <1>4, <1>5, <1>6, <1>7, <1>8, <1>9, <1>10 DEF Next, HandlerReturns

-----------------------------------------------------------------------------
(* Deadlock detection *)

LEMMA SameExecutable ==
    ASSUME edges' = edges, st' = st, out' = out
    PROVE  findExecutableNodes' = findExecutableNodes
BY DEF findExecutableNodes, AllUnconditionalReady, AllConditionalSourcesPending,
       Incoming, Unconditional, Conditional, Satisfied, ConditionMet

(* If the merged states equal the snapshot, the batch was empty: a node that *)
(* ran was pending in the snapshot and has a final state now.                *)
LEMMA UnchangedMeansEmpty ==
    ASSUME TypeOK, phase = "batch", batch = {}, ExecutedWerePending, MergedState = snap
    PROVE  Executed = {}
<1> SUFFICES ASSUME NEW n \in Executed
             PROVE  FALSE
  OBVIOUS
<1>1. n \in Nodes /\ results[n] # NoResult
  BY DEF Executed
<1>2. results[n] \in [state: {"success", "fail"}, value: Values \cup {NoValue}]
  BY <1>1 DEF TypeOK
<1>3. MergedState[n] \in {"success", "fail"}
  BY <1>1, <1>2 DEF MergedState
<1>4. snap[n] \in {"pending", "none"}
  BY DEF ExecutedWerePending
<1> QED
  BY <1>3, <1>4

(* Every step keeps NoFalseDeadlock and what it rests on. *)
LEMMA DeadlockStep ==
    ASSUME TypeOK, Idle, SnapshotCurrent, ExecutedWerePending, EmptyBatchStuck,
           NoFalseDeadlock, [Next]_vars
    PROVE  /\ SnapshotCurrent' /\ ExecutedWerePending' /\ EmptyBatchStuck'
           /\ NoFalseDeadlock'
<1>0. ASSUME phase' \notin {"ready", "batch"}, outcome' # "deadlock", driver' = driver, snap' = snap
      PROVE  /\ SnapshotCurrent' /\ ExecutedWerePending' /\ EmptyBatchStuck'
             /\ NoFalseDeadlock'
  BY <1>0 DEF SnapshotCurrent, ExecutedWerePending, EmptyBatchStuck, NoFalseDeadlock
<1>1. CASE StartIteration
  <2>1. /\ edges' = edges /\ st' = st /\ out' = out /\ results' = results /\ snap' = snap
        /\ driver' = driver /\ batch' = findExecutableNodes /\ phase = "ready" /\ phase' = "batch" /\ outcome' = outcome
    BY <1>1 DEF StartIteration
  <2>2. Executed' = findExecutableNodes
    BY <2>1, ExecutableType DEF Executed, Idle
  <2>3. \A n \in findExecutableNodes : snap[n] \in {"pending", "none"}
    BY <2>1, ExecutableType DEF SnapshotCurrent, NoSnapshot, findExecutableNodes
  <2>4. ExecutedWerePending'
    BY <2>1, <2>2, <2>3 DEF ExecutedWerePending
  <2>5. findExecutableNodes' = findExecutableNodes
    BY <2>1, SameExecutable
  <2>6. EmptyBatchStuck'
    BY <2>2, <2>5 DEF EmptyBatchStuck
  <2>7. outcome' = "none"
    BY <2>1 DEF Idle
  <2> QED
    BY <2>1, <2>4, <2>6, <2>7 DEF SnapshotCurrent, NoFalseDeadlock
<1>2. CASE ExceedLimit
  BY <1>0, <1>2 DEF ExceedLimit, counters
<1>3. ASSUME NEW n \in Nodes, NEW s \in {"success", "fail"}, NEW v \in OutValues(n), Settle(n, s, v)
      PROVE  /\ SnapshotCurrent' /\ ExecutedWerePending' /\ EmptyBatchStuck'
             /\ NoFalseDeadlock'
  <2>1. /\ phase = "batch" /\ phase' = "batch" /\ n \in batch /\ batch' = batch \ {n}
        /\ snap' = snap /\ outcome' = outcome /\ driver' = driver
    BY <1>3 DEF Settle, counters
  <2>2. results' = [results EXCEPT ![n] = [state |-> s, value |-> v]]
    BY <1>3 DEF Settle
  <2>3. results'[n] = [state |-> s, value |-> v] /\ \A m \in Nodes : m # n => results'[m] = results[m]
    BY <2>2 DEF TypeOK
  <2>4. [state |-> s, value |-> v] # NoResult
    <3>1. [state |-> s, value |-> v].state = s /\ NoResult.state = "none"
      BY DEF NoResult
    <3> QED
      BY <3>1
  <2>5. Executed' \subseteq Executed /\ n \in Executed'
    BY <2>1, <2>3, <2>4 DEF Executed
  <2>6. ExecutedWerePending'
    BY <2>1, <2>5 DEF ExecutedWerePending
  <2>7. EmptyBatchStuck'
    BY <2>5 DEF EmptyBatchStuck
  <2>8. outcome' = "none"
    BY <2>1 DEF Idle
  <2> QED
    BY <2>1, <2>6, <2>7, <2>8 DEF SnapshotCurrent, NoFalseDeadlock
<1>4. ASSUME NEW n \in Nodes, Throw(n)
      PROVE  /\ SnapshotCurrent' /\ ExecutedWerePending' /\ EmptyBatchStuck'
             /\ NoFalseDeadlock'
  BY <1>0, <1>4 DEF Throw, counters
<1>5. ASSUME NEW n \in Nodes, NEW s, NEW v, OrphanSettles(n, s, v)
      PROVE  /\ SnapshotCurrent' /\ ExecutedWerePending' /\ EmptyBatchStuck'
             /\ NoFalseDeadlock'
  BY <1>0, <1>5 DEF OrphanSettles, Idle, counters
<1>6. CASE EndBatch
  <2>1. /\ phase = "batch" /\ batch = {} /\ edges' = edges /\ st' = MergedState /\ out' = MergedValue
        /\ phase' # "batch" /\ outcome = "none" /\ driver' = driver
    BY <1>6 DEF EndBatch, Idle
  <2>2. ExecutedWerePending' /\ EmptyBatchStuck'
    BY <2>1 DEF ExecutedWerePending, EmptyBatchStuck
  <2>3. CASE driver = "service"
    <3>1. snap' = MergedState
      BY <1>6, <2>3 DEF EndBatch, Snapshot
    <3>2. SnapshotCurrent'
      BY <2>1, <2>3, <3>1 DEF SnapshotCurrent
    <3>3. ASSUME outcome' = "deadlock"
          PROVE  findExecutableNodes' = {}
      <4>1. MergedState = snap
        BY <1>6, <2>1, <2>3, <3>3 DEF EndBatch, Snapshot
      <4>2. Executed = {}
        BY <2>1, <4>1, UnchangedMeansEmpty
      <4>3. \A n \in Nodes : results[n] = NoResult
        BY <4>2 DEF Executed
      <4>4. MergedState = st /\ MergedValue = out
        BY <4>3 DEF MergedState, MergedValue, TypeOK
      <4>5. findExecutableNodes' = findExecutableNodes
        BY <2>1, <4>4, SameExecutable
      <4> QED
        BY <2>1, <4>2, <4>5 DEF EmptyBatchStuck
    <3> QED
      BY <2>2, <3>2, <3>3 DEF NoFalseDeadlock
  <2>4. CASE driver # "service"
    <3>1. snap' = snap /\ outcome' = outcome
      BY <1>6, <2>4 DEF EndBatch
    <3>2. SnapshotCurrent'
      BY <2>1, <2>4, <3>1 DEF SnapshotCurrent, NoSnapshot
    <3>3. NoFalseDeadlock'
      BY <2>1, <3>1 DEF NoFalseDeadlock
    <3> QED
      BY <2>2, <3>2, <3>3
  <2> QED
    BY <2>3, <2>4
<1>7. CASE Finish
  BY <1>0, <1>7 DEF Finish, counters
<1>8. CASE SaveFailure
  <2>1. /\ phase' = "ended" /\ edges' = edges /\ st' = st /\ out' = out /\ outcome' = outcome
        /\ driver' = driver /\ snap' = snap
    BY <1>8 DEF SaveFailure, counters
  <2>2. findExecutableNodes' = findExecutableNodes
    BY <2>1, SameExecutable
  <2> QED
    BY <2>1, <2>2 DEF SnapshotCurrent, ExecutedWerePending, EmptyBatchStuck, NoFalseDeadlock
<1>9. CASE resumeWorkflow
  BY <1>9 DEF resumeWorkflow, SnapshotCurrent, ExecutedWerePending, EmptyBatchStuck, NoFalseDeadlock
<1>10. CASE UNCHANGED vars
  <2>1. /\ edges' = edges /\ st' = st /\ out' = out /\ outcome' = outcome /\ phase' = phase
        /\ batch' = batch /\ results' = results /\ snap' = snap /\ driver' = driver
    BY <1>10 DEF vars, counters
  <2>2. findExecutableNodes' = findExecutableNodes /\ Executed' = Executed
    BY <2>1, SameExecutable DEF Executed
  <2> QED
    BY <2>1, <2>2 DEF SnapshotCurrent, ExecutedWerePending, EmptyBatchStuck, NoFalseDeadlock
<1> QED
  BY <1>1, <1>2, <1>3, <1>4, <1>5, <1>6, <1>7, <1>8, <1>9, <1>10 DEF Next, HandlerReturns

-----------------------------------------------------------------------------
(* Theorems *)

LEMMA SchedulerInvInit == Init => SchedulerInv
<1> SUFFICES ASSUME Init
             PROVE  SchedulerInv
  OBVIOUS
<1> USE SchedulerAssumption
<1>1. TypeOK
  BY DEF Init, TypeOK, NodeStates, WorkflowStates, MaxUnchanged, NoSnapshot
<1>2. Idle /\ SnapshotCurrent /\ ExecutedWerePending /\ EmptyBatchStuck /\ ExecutedAreFresh
  BY DEF Init, Idle, SnapshotCurrent, ExecutedWerePending, EmptyBatchStuck, ExecutedAreFresh, MaxUnchanged
<1>3. FreshInputs /\ NoFalseDeadlock
  BY EdgeType, <1>1 DEF Init, FreshInputs, NoFalseDeadlock, Unconditional
<1> QED
  BY <1>1, <1>2, <1>3 DEF SchedulerInv

LEMMA SchedulerInvStep == SchedulerInv /\ [Next]_vars => SchedulerInv'
BY TypeStep, IdleStep, FreshStep, DeadlockStep DEF SchedulerInv

(* The inductive invariant holds in every reachable state. *)
LEMMA SchedulerInvariant == Spec => []SchedulerInv
<1>1. Init => SchedulerInv
  BY SchedulerInvInit
<1>2. SchedulerInv /\ [Next]_vars => SchedulerInv'
  BY SchedulerInvStep
<1> QED
  BY <1>1, <1>2, PTL DEF Spec

(* The scheduler's variables keep their types (scheduler.ts,                 *)
(* workflow.service.ts:269-610).                                             *)
THEOREM WorkflowTypeCorrect == Spec => []TypeOK
<1>1. SchedulerInv => TypeOK
  BY DEF SchedulerInv
<1> QED
  BY <1>1, SchedulerInvariant, PTL

(* Whatever the graph, the order in which handlers return, fail or throw,    *)
(* and however often the execution is resumed: a completed node has worked   *)
(* on the latest outputs of its unconditional sources (scheduler.ts:61-73,   *)
(* dependency-analyzer.ts:18-23).                                            *)
THEOREM WorkflowFreshInputs == Spec => []FreshInputs
<1>1. SchedulerInv => FreshInputs
  BY DEF SchedulerInv
<1> QED
  BY <1>1, SchedulerInvariant, PTL

(* The service reports a deadlock only when no node can be started           *)
(* (workflow.service.ts:335-356).                                            *)
THEOREM WorkflowNoFalseDeadlock == Spec => []NoFalseDeadlock
<1>1. SchedulerInv => NoFalseDeadlock
  BY DEF SchedulerInv
<1> QED
  BY <1>1, SchedulerInvariant, PTL

-----------------------------------------------------------------------------
(* Nothing is repeated when handlers do not throw *)

\* A node that counts as succeeded says so in the graph, or in the result that
\* is about to be merged over it.
SuccessKept ==
    \A n \in succeeded :
        IF results[n] = NoResult THEN st[n] = "success" ELSE results[n].state = "success"

RepeatInv == SchedulerInv /\ orphans = {} /\ SuccessKept

(* Without throws no handler outlives its batch, and every step keeps what   *)
(* the succeeded nodes say of themselves: a handler that returns withdraws   *)
(* from them exactly the nodes it puts back to pending.                      *)
LEMMA RepeatStep ==
    ASSUME Throws = FALSE, RepeatInv, [Next]_vars
    PROVE  orphans' = {} /\ SuccessKept'
<1>t. TypeOK /\ Idle /\ orphans = {} /\ SuccessKept
  BY DEF RepeatInv, SchedulerInv
<1>0. ASSUME orphans' = orphans \/ orphans' = {}, st' = st, results' = results, succeeded' = succeeded
      PROVE  orphans' = {} /\ SuccessKept'
  BY <1>0, <1>t DEF SuccessKept
<1>1. CASE StartIteration
  BY <1>0, <1>1 DEF StartIteration
<1>2. CASE ExceedLimit
  BY <1>0, <1>2 DEF ExceedLimit
<1>3. ASSUME NEW n \in Nodes, NEW s \in {"success", "fail"}, NEW v \in OutValues(n), Settle(n, s, v)
      PROVE  orphans' = {} /\ SuccessKept'
  <2>1. /\ orphans' = orphans /\ st' = Reset(Downstream(n, s, v))
        /\ results' = [results EXCEPT ![n] = [state |-> s, value |-> v]]
        /\ succeeded' = SucceededAfter(n, s, v)
    BY <1>3 DEF Settle
  <2>2. results'[n].state = s /\ \A m \in Nodes : m # n => results'[m] = results[m]
    BY <1>t, <2>1 DEF TypeOK
  <2>3. results'[n] # NoResult
    BY <2>2 DEF NoResult
  <2>4. ASSUME NEW m \in succeeded'
        PROVE  IF results'[m] = NoResult THEN st'[m] = "success" ELSE results'[m].state = "success"
    <3>1. m \notin Downstream(n, s, v) /\ (m # n => m \in succeeded) /\ (m = n => s = "success")
      BY <2>1, <2>4 DEF SucceededAfter
    <3>2. m \in Nodes
      BY <1>t, <3>1 DEF TypeOK
    <3>3. st'[m] = st[m]
      BY <2>1, <3>1, <3>2 DEF Reset
    <3>4. CASE m = n
      BY <2>2, <2>3, <3>1, <3>4
    <3>5. CASE m # n
      BY <1>t, <2>2, <3>1, <3>2, <3>3, <3>5 DEF SuccessKept
    <3> QED
      BY <3>4, <3>5
  <2> QED
    BY <1>t, <2>1, <2>4 DEF SuccessKept
<1>4. ASSUME NEW n \in Nodes, Throw(n)
      PROVE  FALSE
  BY <1>4 DEF Throw
<1>5. ASSUME NEW n \in Nodes, NEW s, NEW v, OrphanSettles(n, s, v)
      PROVE  FALSE
  BY <1>5, <1>t DEF OrphanSettles
<1>6. CASE EndBatch
  <2>1. /\ orphans' = orphans /\ st' = MergedState /\ succeeded' = succeeded
        /\ results' = [n \in Nodes |-> NoResult]
    BY <1>6 DEF EndBatch
  <2>2. ASSUME NEW m \in succeeded
        PROVE  results'[m] = NoResult /\ st'[m] = "success"
    <3>1. m \in Nodes
      BY <1>t DEF TypeOK
    <3> QED
      BY <1>t, <2>1, <3>1 DEF SuccessKept, MergedState
  <2> QED
    BY <1>t, <2>1, <2>2 DEF SuccessKept
<1>7. CASE Finish
  BY <1>0, <1>7 DEF Finish
<1>8. CASE SaveFailure
  BY <1>0, <1>8 DEF SaveFailure
<1>9. CASE resumeWorkflow
  BY <1>0, <1>9 DEF resumeWorkflow
<1>10. CASE UNCHANGED vars
  BY <1>0, <1>10 DEF vars
<1> QED
  BY <1>1, <1>2, <1>3, <1>4, <1>5, <1>6, <1>7, <1>8, <1>9, <1>10 DEF Next, HandlerReturns

(* Only pending nodes are started, and between batches a succeeded node is   *)
(* not pending.                                                              *)
LEMMA StartsNothingSucceeded ==
    ASSUME RepeatInv, [Next]_vars, NEW n \in batch' \ batch
    PROVE  n \notin succeeded
<1>t. Idle /\ SuccessKept
  BY DEF RepeatInv, SchedulerInv
<1>1. CASE StartIteration
  <2>1. n \in findExecutableNodes /\ phase = "ready"
    BY <1>1 DEF StartIteration
  <2>2. n \in Nodes /\ st[n] = "pending"
    BY <2>1 DEF findExecutableNodes
  <2>3. results[n] = NoResult
    BY <1>t, <2>1, <2>2 DEF Idle
  <2> QED
    BY <1>t, <2>2, <2>3 DEF SuccessKept
<1>2. CASE ExceedLimit
  BY <1>2 DEF ExceedLimit
<1>3. ASSUME NEW m \in Nodes, NEW s, NEW v, Settle(m, s, v) \/ OrphanSettles(m, s, v)
      PROVE  FALSE
  BY <1>3 DEF Settle, OrphanSettles
<1>4. ASSUME NEW m \in Nodes, Throw(m)
      PROVE  FALSE
  BY <1>4 DEF Throw
<1>5. CASE EndBatch
  BY <1>5 DEF EndBatch
<1>6. CASE Finish \/ SaveFailure \/ resumeWorkflow
  BY <1>6 DEF Finish, SaveFailure, resumeWorkflow
<1>7. CASE UNCHANGED vars
  BY <1>7 DEF vars
<1> QED
  BY <1>1, <1>2, <1>3, <1>4, <1>5, <1>6, <1>7 DEF Next, HandlerReturns

(* When no handler throws, an execution and its resumes never run a handler  *)
(* again that returned success, unless another handler has put its node back *)
(* to pending, whatever the graph and the failures (workflow.service.ts:443, *)
(* scheduler.ts:61-73, state-merger.ts).                                     *)
THEOREM WorkflowNoRepeat ==
    ASSUME Throws = FALSE
    PROVE  Spec => NoRepeat
<1>1. Init => RepeatInv
  <2>1. Init => orphans = {} /\ SuccessKept
    BY DEF Init, SuccessKept
  <2> QED
    BY <2>1, SchedulerInvInit DEF RepeatInv
<1>2. RepeatInv /\ [Next]_vars => RepeatInv'
  BY RepeatStep, SchedulerInvStep DEF RepeatInv
<1>3. RepeatInv /\ [Next]_vars => [\A n \in batch' \ batch : n \notin succeeded]_vars
  BY StartsNothingSucceeded
<1> QED
  BY <1>1, <1>2, <1>3, PTL DEF Spec, NoRepeat

-----------------------------------------------------------------------------
(* What a batch does to the graph *)

\* A result that puts the target of the edge e back to pending.
Fires(e, r) == r # NoResult /\ (e.when = Always \/ ConditionMet(e, r.state, r.value))

\* What runs says "pending" until it is merged, or for good.
ExecutedPending ==
    /\ phase = "batch" => \A n \in Executed : st[n] = "pending"
    /\ \A n \in orphans : st[n] = "pending"

\* The ends of an unconditional edge do not run in the same batch.
NeverBeside ==
    phase = "batch" => \A e \in Unconditional(edges) : e.from \in Executed => e.to \notin Executed

\* What a handler of this batch has put back to pending is still pending.
TargetsReset ==
    phase = "batch" => \A e \in edges : Fires(e, results[e.from]) => st[e.to] = "pending"

\* What runs has seen the outputs of all that had succeeded.
ExecutedSaw ==
    phase = "batch" =>
        \A d \in Executed, a \in Nodes \ Executed : st[a] = "success" => fresh[d][a]

BatchInv == SchedulerInv /\ ExecutedPending /\ NeverBeside /\ TargetsReset /\ ExecutedSaw

\* A step that neither begins a batch, nor ends one, nor ends a handler.
Rests ==
    /\ UNCHANGED <<edges, st, out, fresh>> /\ orphans' \subseteq orphans \cup batch
    /\ phase' = "batch" => phase = "batch" /\ batch' = batch /\ results' = results

LEMMA StepKinds ==
    ASSUME SchedulerInv, [Next]_vars
    PROVE  \/ StartIteration \/ EndBatch \/ Rests
           \/ \E n \in Nodes, s \in {"success", "fail"} : \E v \in OutValues(n) :
                Settle(n, s, v) \/ OrphanSettles(n, s, v)
<1>1. CASE ExceedLimit \/ Finish \/ SaveFailure \/ resumeWorkflow
  BY <1>1 DEF ExceedLimit, Finish, SaveFailure, resumeWorkflow, Rests
<1>2. ASSUME NEW n \in Nodes, Throw(n)
      PROVE  Rests
  BY <1>2 DEF Throw, Rests
<1>3. CASE UNCHANGED vars
  BY <1>3 DEF vars, Rests
<1> QED
  BY <1>1, <1>2, <1>3 DEF Next, HandlerReturns

LEMMA BeginEffect ==
    ASSUME SchedulerInv, StartIteration
    PROVE  /\ phase' = "batch" /\ Executed' = findExecutableNodes
           /\ UNCHANGED <<edges, st, out, orphans, results>> /\ \A n \in Nodes : results[n] = NoResult
           /\ \A d, a \in Nodes : fresh'[d][a] = IF d \in findExecutableNodes THEN st[a] = "success"
                                                                             ELSE fresh[d][a]
<1>1. /\ phase' = "batch" /\ batch' = findExecutableNodes /\ UNCHANGED <<edges, st, out, orphans, results>>
      /\ \A n \in Nodes : results[n] = NoResult
      /\ \A d, a \in Nodes : fresh'[d][a] = IF d \in findExecutableNodes THEN st[a] = "success"
                                                                        ELSE fresh[d][a]
  BY DEF StartIteration, SchedulerInv, Idle, Saw
<1>2. Executed' = findExecutableNodes
  BY <1>1, ExecutableType DEF Executed
<1> QED
  BY <1>1, <1>2

\* What a handler of the batch does that returns.
Returns(n, s, v) ==
    /\ phase = "batch" /\ phase' = "batch" /\ n \in Executed /\ Executed' = Executed
    /\ edges' = edges /\ out' = out /\ orphans' = orphans
    /\ results'[n] # NoResult /\ results'[n].state = s /\ results'[n].value = v
    /\ \A m \in Nodes : m # n => results'[m] = results[m]
    /\ \A m \in Nodes : st'[m] = IF m \in Downstream(n, s, v) THEN "pending" ELSE st[m]
    /\ \A d, a \in Nodes : a # n => fresh'[d][a] = fresh[d][a]

LEMMA ReturnEffect ==
    ASSUME SchedulerInv, NEW n \in Nodes, NEW s \in {"success", "fail"}, NEW v \in OutValues(n),
           Settle(n, s, v)
    PROVE  Returns(n, s, v)
<1>t. TypeOK /\ v \in Values \cup {NoValue}
  BY OutValuesType DEF SchedulerInv
<1>1. /\ phase = "batch" /\ phase' = "batch" /\ n \in batch /\ batch' = batch \ {n}
      /\ UNCHANGED <<edges, out, orphans>>
      /\ results' = [results EXCEPT ![n] = [state |-> s, value |-> v]]
      /\ st' = Reset(Downstream(n, s, v))
      /\ fresh' = [d \in Nodes |-> [fresh[d] EXCEPT ![n] = FALSE]]
  BY DEF Settle
<1>2. /\ results'[n] = [state |-> s, value |-> v]
      /\ \A m \in Nodes : m # n => results'[m] = results[m]
  BY <1>t, <1>1 DEF TypeOK
<1>3. results'[n] # NoResult
  <2>1. results'[n].state = s /\ NoResult.state = "none"
    BY <1>2 DEF NoResult
  <2> QED
    BY <2>1
<1>4. Executed' = Executed /\ n \in Executed
  BY <1>1, <1>2, <1>3 DEF Executed
<1>5. \A d, a \in Nodes : a # n => fresh'[d][a] = fresh[d][a]
  BY <1>t, <1>1 DEF TypeOK
<1>6. results'[n].state = s /\ results'[n].value = v
  BY <1>2
<1> QED
  BY <1>t, <1>1, <1>2, <1>3, <1>4, <1>5, <1>6 DEF Reset, Returns

LEMMA MergeEffect ==
    ASSUME SchedulerInv, EndBatch
    PROVE  /\ phase = "batch" /\ phase' # "batch" /\ UNCHANGED <<edges, fresh>>
           /\ orphans = {} /\ orphans' = {}
           /\ \A m \in Nodes : st'[m] = IF results[m] = NoResult THEN st[m] ELSE results[m].state
           /\ \A m \in Nodes : out'[m] = IF results[m] = NoResult THEN out[m] ELSE results[m].value
           /\ \A m \in Nodes : m \in Executed <=> results[m] # NoResult
BY DEF EndBatch, MergedState, MergedValue, SchedulerInv, Idle, Executed

LEMMA OrphanEffect ==
    ASSUME SchedulerInv, NEW n \in Nodes, NEW s, NEW v, OrphanSettles(n, s, v)
    PROVE  /\ phase = "catching" /\ phase' = "catching" /\ n \in orphans /\ orphans' \subseteq orphans
           /\ UNCHANGED <<edges, out, fresh>>
           /\ \A m \in Nodes : st'[m] = IF m \in Downstream(n, s, v) THEN "pending" ELSE st[m]
BY DEF OrphanSettles, Reset

\* Every step keeps what a batch does to the graph.
LEMMA BatchStep == BatchInv /\ [Next]_vars => BatchInv'
<1> SUFFICES ASSUME BatchInv, [Next]_vars
             PROVE  BatchInv'
  OBVIOUS
<1>t. /\ SchedulerInv /\ TypeOK /\ ExecutedPending /\ NeverBeside /\ TargetsReset /\ ExecutedSaw
      /\ SchedulerInv' /\ \A e \in edges : e.from \in Nodes /\ e.to \in Nodes
  BY SchedulerInvStep, EdgeType DEF BatchInv, SchedulerInv
<1> SUFFICES ExecutedPending' /\ NeverBeside' /\ TargetsReset' /\ ExecutedSaw'
  BY <1>t DEF BatchInv
<1>1. CASE StartIteration
  <2>1. ExecutedPending'
    BY <1>t, <1>1, BeginEffect DEF ExecutedPending, findExecutableNodes
  <2>2. NeverBeside'
    BY <1>t, <1>1, BeginEffect, StartedFresh DEF NeverBeside, Unconditional
  <2>3. TargetsReset'
    BY <1>t, <1>1, BeginEffect DEF TargetsReset, Fires
  <2>4. ExecutedSaw'
    BY <1>t, <1>1, BeginEffect, ExecutableType DEF ExecutedSaw
  <2> QED
    BY <2>1, <2>2, <2>3, <2>4
<1>2. CASE EndBatch
  BY <1>t, <1>2, MergeEffect DEF ExecutedPending, NeverBeside, TargetsReset, ExecutedSaw
<1>3. CASE Rests
  <2>1. batch \subseteq Executed /\ (phase # "batch" => batch = {})
    BY <1>t DEF SchedulerInv, Idle, TypeOK, Executed
  <2>2. phase' = "batch" => Executed' = Executed
    BY <1>3 DEF Rests, Executed
  <2>3. ExecutedPending'
    BY <1>t, <1>3, <2>1, <2>2 DEF Rests, ExecutedPending
  <2>4. NeverBeside' /\ TargetsReset' /\ ExecutedSaw'
    BY <1>t, <1>3, <2>2 DEF Rests, NeverBeside, TargetsReset, ExecutedSaw, Unconditional
  <2> QED
    BY <2>3, <2>4
<1>4. ASSUME NEW n \in Nodes, NEW s \in {"success", "fail"}, NEW v \in OutValues(n), Settle(n, s, v)
      PROVE  ExecutedPending' /\ NeverBeside' /\ TargetsReset' /\ ExecutedSaw'
  <2>0. Returns(n, s, v)
    BY <1>t, <1>4, ReturnEffect
  <2>1. ExecutedPending'
    BY <1>t, <2>0 DEF Returns, ExecutedPending, Executed, TypeOK
  <2>2. NeverBeside'
    BY <1>t, <2>0 DEF Returns, NeverBeside, Unconditional
  <2>3. TargetsReset'
    <3> SUFFICES ASSUME NEW e \in edges, Fires(e, results'[e.from])
                 PROVE  st'[e.to] = "pending"
      <4>1. edges' = edges
        BY <2>0 DEF Returns
      <4> QED
        BY <4>1 DEF TargetsReset, Fires, ConditionMet
    <3>1. CASE e.from = n
      <4>1. e.when = Always \/ ConditionMet(e, s, v)
        BY <1>t, <2>0, <3>1 DEF Returns, Fires
      <4>2. e.to \in Downstream(n, s, v)
        BY <3>1, <4>1 DEF Downstream
      <4> QED
        BY <1>t, <2>0, <4>2 DEF Returns
    <3>2. CASE e.from # n
      BY <1>t, <2>0, <3>2 DEF Returns, TargetsReset
    <3> QED
      BY <3>1, <3>2
  <2>4. ExecutedSaw'
    <3> SUFFICES ASSUME NEW d \in Executed, NEW a \in Nodes \ Executed, st'[a] = "success"
                 PROVE  fresh'[d][a]
      BY <1>t, <2>0 DEF Returns, ExecutedSaw
    <3>1. a # n /\ st[a] = "success" /\ d \in Nodes
      BY <1>t, <2>0 DEF Returns, Executed
    <3>2. fresh[d][a]
      BY <1>t, <2>0, <3>1 DEF Returns, ExecutedSaw
    <3>3. fresh'[d][a] = fresh[d][a]
      BY <2>0, <3>1 DEF Returns
    <3> QED
      BY <3>2, <3>3
  <2> QED
    BY <2>1, <2>2, <2>3, <2>4
<1>5. ASSUME NEW n \in Nodes, NEW s, NEW v, OrphanSettles(n, s, v)
      PROVE  ExecutedPending' /\ NeverBeside' /\ TargetsReset' /\ ExecutedSaw'
  BY <1>t, <1>5, OrphanEffect DEF ExecutedPending, NeverBeside, TargetsReset, ExecutedSaw, TypeOK
<1> QED
  BY <1>t, <1>1, <1>2, <1>3, <1>4, <1>5, StepKinds

LEMMA BatchInit == Init => BatchInv
BY SchedulerInvInit DEF Init, BatchInv, ExecutedPending, NeverBeside, TargetsReset, ExecutedSaw

-----------------------------------------------------------------------------
(* The state of the graph *)

\* The state the driver holds is that of the graph once it is a final one, and
\* also when a batch has changed nothing, so that a deadlock is reported only
\* of a graph that is not completed.
Verdict ==
    /\ phase = "batch" => wf \in {"pending", "running"}
    /\ wf \in {"success", "fail"} => orphans = {} /\ wf = FinalState(st, out)
    /\ phase \in {"ready", "batch"} /\ unchanged > 0 /\ Executed = {} => wf = FinalState(st, out)
    /\ outcome = "deadlock" => ~ areAllReachableNodesCompleted(st, out)
    /\ outcome = "success" => wf = "success"

LEMMA SameVerdict ==
    ASSUME edges' = edges
    PROVE  /\ FinalState(st, out)' = FinalState(st', out')
           /\ areAllReachableNodesCompleted(st, out)' <=> areAllReachableNodesCompleted(st', out')
BY DEF FinalState, areAllReachableNodesCompleted, findReachableNodes, ReachClosed, Satisfied,
       ConditionMet, Incoming

LEMMA FinalStateFacts ==
    ASSUME NEW s, NEW o
    PROVE  /\ FinalState(s, o) \in {"running", "success", "fail"}
           /\ FinalState(s, o) = "running" <=> ~ areAllReachableNodesCompleted(s, o)
           /\ FinalState(s, o) = "success" => \A n \in Nodes : s[n] # "fail"
BY DEF FinalState

LEMMA VerdictStep == SchedulerInv /\ Verdict /\ [Next]_vars => Verdict'
<1> SUFFICES ASSUME SchedulerInv, Verdict, [Next]_vars
             PROVE  Verdict'
  OBVIOUS
<1>t. TypeOK /\ Idle /\ ExecutedWerePending
  BY DEF SchedulerInv
<1>0. ASSUME edges' = edges, st' = st, out' = out
      PROVE  /\ FinalState(st, out)' = FinalState(st, out)
             /\ areAllReachableNodesCompleted(st, out)' <=> areAllReachableNodesCompleted(st, out)
  BY <1>0, SameVerdict
<1>1. CASE StartIteration
  <2>1. /\ phase = "ready" /\ phase' = "batch" /\ wf \in {"pending", "running"}
        /\ UNCHANGED <<edges, st, out, wf, results, unchanged, outcome>>
    BY <1>1 DEF StartIteration
  <2>2. Executed = {} /\ outcome = "none"
    BY <1>t, <2>1 DEF Idle, Executed
  <2> QED
    BY <1>0, <2>1, <2>2 DEF Verdict
<1>2. CASE ExceedLimit
  BY <1>2 DEF ExceedLimit, Verdict, counters
<1>3. ASSUME NEW n \in Nodes, NEW s \in {"success", "fail"}, NEW v \in OutValues(n), Settle(n, s, v)
      PROVE  Verdict'
  <2>1. Executed' # {} /\ phase = "batch" /\ phase' = "batch" /\ UNCHANGED <<wf, outcome>>
    BY <1>3, ReturnEffect DEF Returns, Settle
  <2>2. outcome = "none"
    BY <1>t, <2>1 DEF Idle
  <2> QED
    BY <2>1, <2>2 DEF Verdict
<1>4. ASSUME NEW n \in Nodes, Throw(n)
      PROVE  Verdict'
  BY <1>4 DEF Throw, Verdict
<1>5. ASSUME NEW n \in Nodes, NEW s, NEW v, OrphanSettles(n, s, v)
      PROVE  Verdict'
  BY <1>t, <1>5 DEF OrphanSettles, Verdict, Idle
<1>6. CASE EndBatch
  <2>1. /\ phase = "batch" /\ phase' # "batch" /\ batch = {} /\ edges' = edges /\ orphans' = {}
        /\ st' = MergedState /\ out' = MergedValue /\ wf' = FinalState(MergedState, MergedValue)
        /\ outcome = "none" /\ outcome' \in {"none", "deadlock"}
    BY <1>t, <1>6 DEF EndBatch, Idle
  <2>2. wf' = FinalState(st, out)'
    BY <2>1, SameVerdict
  <2>3. ASSUME outcome' = "deadlock"
        PROVE  ~ areAllReachableNodesCompleted(st, out)'
    <3>1. MergedState = snap /\ unchanged + 1 >= MaxUnchanged
      BY <1>6, <2>1, <2>3 DEF EndBatch, Snapshot
    <3>2. Executed = {} /\ unchanged > 0
      BY <1>t, <2>1, <3>1, UnchangedMeansEmpty DEF TypeOK, MaxUnchanged
    <3>3. \A n \in Nodes : results[n] = NoResult
      BY <3>2 DEF Executed
    <3>4. MergedState = st /\ MergedValue = out
      BY <1>t, <3>3 DEF MergedState, MergedValue, TypeOK
    <3>5. FinalState(st, out) \in {"pending", "running"}
      BY <2>1, <3>2 DEF Verdict
    <3> QED
      BY <1>0, <2>1, <3>4, <3>5, FinalStateFacts
  <2> QED
    BY <2>1, <2>2, <2>3 DEF Verdict
<1>7. CASE Finish
  <2>1. UNCHANGED <<edges, st, out, wf, orphans>> /\ phase' = "ended" /\ outcome' = wf
    BY <1>7 DEF Finish
  <2>2. wf # "deadlock"
    BY <1>7 DEF Finish
  <2> QED
    BY <1>0, <2>1, <2>2 DEF Verdict
<1>8. CASE SaveFailure
  BY <1>0, <1>8 DEF SaveFailure, Verdict
<1>9. CASE resumeWorkflow
  BY <1>0, <1>9 DEF resumeWorkflow, Verdict
<1>10. CASE UNCHANGED vars
  <2>1. Executed' = Executed /\ UNCHANGED <<edges, st, out, wf, orphans, phase, unchanged, outcome>>
    BY <1>10 DEF vars, counters, Executed
  <2> QED
    BY <1>0, <2>1 DEF Verdict
<1> QED
  BY <1>1, <1>2, <1>3, <1>4, <1>5, <1>6, <1>7, <1>8, <1>9, <1>10 DEF Next, HandlerReturns

\* A graph stays what it was at first.
LEMMA GraphStays == edges \in Graphs /\ [Next]_vars => edges' \in Graphs
BY DEF Next, HandlerReturns, StartIteration, ExceedLimit, Settle, OrphanSettles, Throw, EndBatch,
       Finish, SaveFailure, resumeWorkflow, vars

VerdictInv == SchedulerInv /\ Verdict /\ edges \in Graphs

LEMMA VerdictInvariant == Spec => []VerdictInv
<1>1. Init => VerdictInv
  <2>1. Init => Verdict
    BY DEF Init, Verdict
  <2> QED
    BY <2>1, SchedulerInvInit DEF Init, VerdictInv
<1>2. VerdictInv /\ [Next]_vars => VerdictInv'
  BY SchedulerInvStep, VerdictStep, GraphStays DEF VerdictInv
<1> QED
  BY <1>1, <1>2, PTL DEF Spec

-----------------------------------------------------------------------------
(* Nothing is left behind *)

\* What is reached whatever the conditions say is reached.
LEMMA AlwaysReachedFacts ==
    ASSUME NEW s, NEW o
    PROVE  AlwaysReached(edges) \subseteq findReachableNodes(s, o)
BY DEF AlwaysReached, findReachableNodes, ReachClosed, Incoming, Unconditional

\* The target of an edge that is taken is as reachable as its source.
LEMMA ReachedThrough ==
    ASSUME TypeOK, NEW s, NEW o, NEW e \in edges, e.from \in findReachableNodes(s, o),
           e.when = Always \/ Satisfied(e, s, o)
    PROVE  e.to \in findReachableNodes(s, o)
BY EdgeType DEF findReachableNodes, ReachClosed

(* When an execution has succeeded no node is left that could be started, in *)
(* every graph whose nodes are all reached unconditionally, or entered only  *)
(* from such nodes (dependency-analyzer.ts, executor.ts).                    *)
THEOREM WorkflowNothingLeftBehind ==
    ASSUME \A G \in Graphs : EnteredFromReached(G)
    PROVE  Spec => []NothingLeftBehind
<1>1. ASSUME VerdictInv
      PROVE  NothingLeftBehind
  <2> SUFFICES ASSUME outcome = "success", NEW n \in findExecutableNodes
               PROVE  FALSE
    BY DEF NothingLeftBehind
  <2> DEFINE R == findReachableNodes(st, out)
  <2>t. TypeOK /\ n \in Nodes /\ st[n] = "pending" /\ EnteredFromReached(edges)
    BY <1>1 DEF VerdictInv, SchedulerInv, findExecutableNodes
  <2>1. \A m \in R : st[m] \in {"success", "fail"}
    <3>1. FinalState(st, out) = "success"
      BY <1>1 DEF VerdictInv, Verdict
    <3> QED
      BY <3>1, FinalStateFacts DEF areAllReachableNodesCompleted
  <2>2. n \notin R
    BY <2>t, <2>1
  <2>3. \A e \in edges : e.to = n => e.from \in R
    BY <2>t, <2>2, AlwaysReachedFacts DEF EnteredFromReached
  <2>4. \A e \in edges : e.to = n => e.when # Always /\ ~Satisfied(e, st, out)
    BY <2>t, <2>2, <2>3, ReachedThrough
  <2>5. Incoming(n) # {}
    BY <2>t, <2>2 DEF findReachableNodes, ReachClosed
  <2>6. PICK c \in Conditional(Incoming(n)) : TRUE
    BY <2>4, <2>5 DEF Conditional, Incoming
  <2>7. c \in edges /\ c.to = n /\ st[c.from] # "pending"
    BY <2>1, <2>3, <2>6 DEF Conditional, Incoming
  <2>8. AllConditionalSourcesPending(n)
    BY <2>4 DEF findExecutableNodes, Conditional, Incoming
  <2> QED
    BY <2>6, <2>7, <2>8 DEF AllConditionalSourcesPending
<1> QED
  BY <1>1, VerdictInvariant, PTL

-----------------------------------------------------------------------------
(* Fresh branches *)

\* FreshBranches in every state, not at the end only.
Branches ==
    \A c \in Conditional(edges) :
        Satisfied(c, st, out) /\ st[c.to] # "pending" => fresh[c.to][c.from]

BranchInv == BatchInv /\ Branches /\ edges \in Graphs

\* An edge whose condition holds after a node was put back to pending, or none
\* was, held before.
LEMMA StillSatisfied ==
    ASSUME edges' = edges, out' = out, NEW e \in edges,
           st'[e.from] = "success" => st[e.from] = "success", Satisfied(e, st', out')
    PROVE  Satisfied(e, st, out)
BY DEF Satisfied, ConditionMet

LEMMA BranchStep ==
    ASSUME \A G \in Graphs : LoopsBack(G), BranchInv, [Next]_vars
    PROVE  Branches'
<1>t. /\ SchedulerInv /\ ExecutedPending /\ NeverBeside /\ TargetsReset /\ ExecutedSaw /\ Branches
      /\ TypeOK /\ LoopsBack(edges) /\ \A e \in edges : e.from \in Nodes /\ e.to \in Nodes
  BY EdgeType DEF BranchInv, BatchInv, SchedulerInv
<1>1. CASE StartIteration
  <2>0. /\ UNCHANGED <<edges, st, out>>
        /\ \A d, a \in Nodes : d \notin findExecutableNodes => fresh'[d][a] = fresh[d][a]
    BY <1>t, <1>1, BeginEffect
  <2> SUFFICES ASSUME NEW c \in Conditional(edges), Satisfied(c, st, out), st[c.to] # "pending"
               PROVE  fresh'[c.to][c.from]
    BY <2>0 DEF Branches, Conditional, Satisfied, ConditionMet
  <2>1. c.to \notin findExecutableNodes /\ c \in edges
    BY DEF findExecutableNodes, Conditional
  <2> QED
    BY <1>t, <2>0, <2>1 DEF Branches
<1>2. CASE EndBatch
  <2>0. /\ phase = "batch" /\ edges' = edges /\ fresh' = fresh
        /\ \A m \in Nodes : st'[m] = IF m \in Executed THEN results[m].state ELSE st[m]
        /\ \A m \in Nodes : out'[m] = IF m \in Executed THEN results[m].value ELSE out[m]
        /\ \A m \in Executed : results[m] # NoResult
    BY <1>t, <1>2, MergeEffect DEF Executed
  <2> SUFFICES ASSUME NEW c \in Conditional(edges), Satisfied(c, st', out'), st'[c.to] # "pending"
               PROVE  fresh[c.to][c.from]
    BY <2>0 DEF Branches, Conditional, Satisfied, ConditionMet
  <2>1. c \in edges /\ c.from \in Nodes /\ c.to \in Nodes
    BY <1>t DEF Conditional
  <2>2. CASE c.from \in Executed
    <3>1. c.to \notin Executed
      BY <1>t, <2>0, <2>2 DEF LoopsBack, NeverBeside
    <3>2. Fires(c, results[c.from])
      BY <2>0, <2>1, <2>2 DEF Fires, Satisfied, ConditionMet
    <3> QED
      BY <1>t, <2>0, <2>1, <3>1, <3>2 DEF TargetsReset
  <2>3. CASE c.from \notin Executed
    <3>1. Satisfied(c, st, out) /\ st[c.from] = "success"
      BY <2>0, <2>1, <2>3 DEF Satisfied, ConditionMet
    <3> QED
      BY <1>t, <2>0, <2>1, <2>3, <3>1 DEF Branches, ExecutedSaw
  <2> QED
    BY <2>2, <2>3
<1>3. CASE Rests
  BY <1>t, <1>3 DEF Rests, Branches, Conditional, Satisfied, ConditionMet
<1>4. ASSUME NEW n \in Nodes, NEW s \in {"success", "fail"}, NEW v \in OutValues(n), Settle(n, s, v)
      PROVE  Branches'
  <2>0. Returns(n, s, v)
    BY <1>t, <1>4, ReturnEffect
  <2> SUFFICES ASSUME NEW c \in Conditional(edges), Satisfied(c, st', out'), st'[c.to] # "pending"
               PROVE  fresh'[c.to][c.from]
    BY <2>0 DEF Returns, Branches, Conditional, Satisfied, ConditionMet
  <2>1. c \in edges /\ c.from \in Nodes /\ c.to \in Nodes
    BY <1>t DEF Conditional
  <2>2. st'[c.from] = "success" /\ st[c.from] = "success" /\ st[c.to] # "pending"
    BY <2>0, <2>1 DEF Returns, Satisfied
  <2>3. c.from # n
    BY <1>t, <2>0, <2>2 DEF Returns, ExecutedPending
  <2>4. Satisfied(c, st, out)
    BY <2>0, <2>1, <2>2, StillSatisfied DEF Returns
  <2>5. fresh'[c.to][c.from] = fresh[c.to][c.from]
    BY <2>0, <2>1, <2>3 DEF Returns
  <2> QED
    BY <1>t, <2>2, <2>4, <2>5 DEF Branches
<1>5. ASSUME NEW n \in Nodes, NEW s, NEW v, OrphanSettles(n, s, v)
      PROVE  Branches'
  <2>0. /\ edges' = edges /\ out' = out /\ fresh' = fresh
        /\ \A m \in Nodes : st'[m] = IF m \in Downstream(n, s, v) THEN "pending" ELSE st[m]
    BY <1>t, <1>5, OrphanEffect
  <2> SUFFICES ASSUME NEW c \in Conditional(edges), Satisfied(c, st', out'), st'[c.to] # "pending"
               PROVE  fresh[c.to][c.from]
    BY <2>0 DEF Branches, Conditional, Satisfied, ConditionMet
  <2>1. c \in edges /\ c.from \in Nodes /\ c.to \in Nodes
    BY <1>t DEF Conditional
  <2>2. st[c.from] = "success" /\ st[c.to] # "pending"
    BY <2>0, <2>1 DEF Satisfied
  <2>3. Satisfied(c, st, out)
    BY <2>0, <2>1, <2>2, StillSatisfied
  <2> QED
    BY <1>t, <2>2, <2>3 DEF Branches
<1> QED
  BY <1>t, <1>1, <1>2, <1>3, <1>4, <1>5, StepKinds

(* In every graph whose conditions lead back to nodes their sources wait     *)
(* for, the target of a condition that holds has worked on the latest output *)
(* of its source, whatever throws and however often the execution is resumed *)
(* (scheduler.ts:61-73, dependency-analyzer.ts:27).                          *)
THEOREM WorkflowFreshBranches ==
    ASSUME \A G \in Graphs : LoopsBack(G)
    PROVE  Spec => []FreshBranches
<1>1. Init => BranchInv
  <2>1. ASSUME Init
        PROVE  Branches
    BY <2>1, BatchInit, EdgeType DEF Init, Branches, Conditional, BatchInv, SchedulerInv
  <2> QED
    BY <2>1, BatchInit DEF Init, BranchInv
<1>2. BranchInv /\ [Next]_vars => BranchInv'
  BY BatchStep, BranchStep, GraphStays DEF BranchInv
<1>3. BranchInv => FreshBranches
  BY DEF BranchInv, Branches, FreshBranches
<1> QED
  BY <1>1, <1>2, <1>3, PTL DEF Spec

-----------------------------------------------------------------------------
(* Deadlocks *)

LoopGraph(G) == Grounded(G) /\ LoopsBack(G) /\ RestartsTogether(G)

\* x is put back by nobody, and m waits for it, or for a node that does.
Root(x)      == \A f \in edges : f.to # x
Behind(x, m) == \E e \in Unconditional(edges) :
                    e.from = x /\ (e.to = m \/ \E f \in Unconditional(edges) : f.from = e.to /\ f.to = m)

\* Nothing behind a root starts before the root has succeeded.
RootsFirst ==
    \A x, m \in Nodes :
        Root(x) /\ Behind(x, m) /\ st[x] # "success" =>
            st[m] = "pending" /\ (phase = "batch" => m \notin Executed)

\* The condition of an edge beside c holds.
Follows(c)       == \E d \in Conditional(edges) : d.from = c.from /\ d.to = c.to /\ Satisfied(d, st, out)
WillFollow(c, r) == \E d \in Conditional(edges) : d.from = c.from /\ d.to = c.to /\ Fires(d, r)

\* A node waits, while the source of a condition on it has succeeded, only
\* because the condition holds; and so it is while the source runs.
LoopTogether ==
    \A c \in Conditional(edges) :
        st[c.to] = "pending" /\ st[c.from] = "success" => Follows(c)
LoopRunning ==
    phase = "batch" =>
        \A c \in Conditional(edges) :
            st[c.to] = "pending" /\ c.from \in Executed => WillFollow(c, results[c.from])

\* A handler that runs has no result yet.
Running == phase = "batch" => \A n \in batch : results[n] = NoResult

LoopInv ==
    BatchInv /\ Verdict /\ edges \in Graphs /\ RootsFirst /\ LoopTogether /\ LoopRunning /\ Running

LEMMA RootsStep ==
    ASSUME BatchInv, RootsFirst, [Next]_vars
    PROVE  RootsFirst'
<1>t. /\ SchedulerInv /\ ExecutedPending /\ TypeOK
      /\ \A e \in edges : e.from \in Nodes /\ e.to \in Nodes
  BY EdgeType DEF BatchInv, SchedulerInv
<1>0. edges' = edges => \A x, m : (Root(x)' <=> Root(x)) /\ (Behind(x, m)' <=> Behind(x, m))
  BY DEF Root, Behind, Unconditional
<1>1. CASE StartIteration
  <2>0. UNCHANGED <<edges, st>> /\ phase = "ready" /\ Executed' = findExecutableNodes
    BY <1>t, <1>1, BeginEffect DEF StartIteration
  <2> SUFFICES ASSUME NEW x \in Nodes, NEW m \in Nodes, Root(x), Behind(x, m), st[x] # "success"
               PROVE  st[m] = "pending" /\ m \notin findExecutableNodes
    BY <1>0, <2>0 DEF RootsFirst
  <2>1. st[m] = "pending"
    BY DEF RootsFirst
  <2>2. PICK e \in Unconditional(edges) :
          e.from = x /\ (e.to = m \/ \E f \in Unconditional(edges) : f.from = e.to /\ f.to = m)
    BY DEF Behind
  <2>3. CASE e.to = m
    BY <1>t, <2>1, <2>2, <2>3, StartedFresh
  <2>4. CASE \E f \in Unconditional(edges) : f.from = e.to /\ f.to = m
    <3>1. e.to \in Nodes /\ Behind(x, e.to)
      BY <1>t, <2>2 DEF Behind, Unconditional
    <3>2. st[e.to] = "pending"
      BY <3>1 DEF RootsFirst
    <3> QED
      BY <1>t, <2>1, <2>4, <3>2, StartedFresh
  <2> QED
    BY <2>1, <2>2, <2>3, <2>4
<1>2. CASE EndBatch
  <2>0. /\ phase = "batch" /\ phase' # "batch" /\ edges' = edges
        /\ \A m \in Nodes : st'[m] = IF m \in Executed THEN results[m].state ELSE st[m]
    BY <1>t, <1>2, MergeEffect DEF Executed
  <2> SUFFICES ASSUME NEW x \in Nodes, NEW m \in Nodes, Root(x), Behind(x, m), st'[x] # "success"
               PROVE  st'[m] = "pending"
    BY <1>0, <2>0 DEF RootsFirst
  <2>1. st[x] # "success"
    BY <1>t, <2>0 DEF ExecutedPending
  <2> QED
    BY <2>0, <2>1 DEF RootsFirst
<1>3. CASE Rests
  <2>1. phase' = "batch" => Executed' = Executed /\ phase = "batch"
    BY <1>3 DEF Rests, Executed
  <2> QED
    BY <1>0, <1>3, <2>1 DEF Rests, RootsFirst
<1>4. ASSUME NEW n \in Nodes, NEW s \in {"success", "fail"}, NEW v \in OutValues(n),
             Settle(n, s, v) \/ OrphanSettles(n, s, v)
      PROVE  RootsFirst'
  <2>0. /\ edges' = edges /\ (phase' = "batch" => phase = "batch" /\ Executed' = Executed)
        /\ \A m \in Nodes : st'[m] = IF m \in Downstream(n, s, v) THEN "pending" ELSE st[m]
    <3>1. CASE Settle(n, s, v)
      BY <1>t, <3>1, ReturnEffect DEF Returns
    <3>2. CASE OrphanSettles(n, s, v)
      BY <1>t, <3>2, OrphanEffect
    <3> QED
      BY <1>4, <3>1, <3>2
  <2> SUFFICES ASSUME NEW x \in Nodes, NEW m \in Nodes, Root(x), Behind(x, m), st'[x] # "success"
               PROVE  st'[m] = "pending" /\ (phase' = "batch" => m \notin Executed')
    BY <1>0, <2>0 DEF RootsFirst
  <2>1. x \notin Downstream(n, s, v)
    BY DEF Root, Downstream
  <2>2. st[x] # "success"
    BY <2>0, <2>1
  <2> QED
    BY <2>0, <2>2 DEF RootsFirst
<1> QED
  BY <1>t, <1>1, <1>2, <1>3, <1>4, StepKinds

\* A node other than its source that puts back the target of a condition puts
\* back the source, or the source has not run yet.
LEMMA OthersRestart ==
    ASSUME TypeOK, LoopGraph(edges), RootsFirst, ExecutedPending, NeverBeside,
           NEW c \in Conditional(edges), NEW n \in Nodes, NEW s, NEW v, n # c.from,
           c.to \in Downstream(n, s, v), st[n] = "pending"
    PROVE  /\ c.from \in Downstream(n, s, v) \/ st[c.from] = "pending"
           /\ phase = "batch" /\ n \in Executed => c.from \notin Executed
<1>1. PICK e \in edges : e.from = n /\ e.to = c.to
  BY DEF Downstream
<1>2. c \in edges /\ c.from \in Nodes
  BY EdgeType DEF Conditional
<1>3. PICK b \in Unconditional(edges) : b.from = c.to /\ b.to = c.from
  BY DEF LoopGraph, LoopsBack
<1>4. e \in Unconditional(edges)
  BY <1>1 DEF LoopGraph, RestartsTogether, Unconditional
<1>5. CASE \E f \in Unconditional(edges) : f.from = n /\ f.to = c.from
  <2>1. PICK f \in Unconditional(edges) : f.from = n /\ f.to = c.from
    BY <1>5
  <2>2. f.to \in Downstream(n, s, v)
    BY <2>1 DEF Downstream, Unconditional
  <2> QED
    BY <2>1, <2>2 DEF NeverBeside
<1>6. CASE Root(n)
  <2>1. Behind(n, c.from)
    BY <1>1, <1>3, <1>4 DEF Behind
  <2> QED
    BY <1>2, <1>6, <2>1 DEF RootsFirst
<1> QED
  BY <1>1, <1>5, <1>6 DEF LoopGraph, RestartsTogether, Root

\* The source of a condition puts its target back only by that or another
\* condition: without one the two would wait for each other.
LEMMA OwnCondition ==
    ASSUME TypeOK, LoopGraph(edges), NEW c \in Conditional(edges), NEW r, r # NoResult,
           c.to \in Downstream(c.from, r.state, r.value)
    PROVE  WillFollow(c, r)
<1>1. PICK e \in edges :
        e.from = c.from /\ e.to = c.to /\ (e.when = Always \/ ConditionMet(e, r.state, r.value))
  BY DEF Downstream
<1>2. PICK b \in Unconditional(edges) : b.from = c.to /\ b.to = c.from
  BY DEF LoopGraph, LoopsBack
<1>3. e \notin Unconditional(edges)
  <2> SUFFICES ASSUME e \in Unconditional(edges)
               PROVE  FALSE
    OBVIOUS
  <2> DEFINE T == {c.from, c.to}
  <2>1. T \in SUBSET Nodes /\ T # {}
    BY EdgeType DEF Conditional
  <2>2. PICK m \in T : \A f \in Unconditional(edges) : f.to = m => f.from \notin T
    BY <2>1 DEF LoopGraph, Grounded
  <2> QED
    BY <1>1, <1>2, <2>2
<1>4. e \in Conditional(edges) /\ Fires(e, r)
  BY <1>1, <1>3 DEF Conditional, Unconditional, Fires
<1> QED
  BY <1>1, <1>4 DEF WillFollow

LEMMA RunningStep == SchedulerInv /\ Running /\ [Next]_vars => Running'
<1> SUFFICES ASSUME SchedulerInv, Running, [Next]_vars
             PROVE  Running'
  OBVIOUS
<1>1. CASE StartIteration
  BY <1>1, BeginEffect, ExecutableType DEF Running, StartIteration
<1>2. CASE EndBatch \/ Rests
  BY <1>2, MergeEffect DEF Running, Rests
<1>3. ASSUME NEW n \in Nodes, NEW s \in {"success", "fail"}, NEW v \in OutValues(n), Settle(n, s, v)
      PROVE  Running'
  BY <1>3, ReturnEffect DEF Running, Returns, Settle, SchedulerInv, TypeOK
<1>4. ASSUME NEW n \in Nodes, NEW s, NEW v, OrphanSettles(n, s, v)
      PROVE  Running'
  BY <1>4, OrphanEffect DEF Running
<1> QED
  BY <1>1, <1>2, <1>3, <1>4, StepKinds

LEMMA LoopStep ==
    ASSUME LoopGraph(edges), LoopInv, [Next]_vars
    PROVE  LoopTogether' /\ LoopRunning'
<1>t. /\ SchedulerInv /\ TypeOK /\ ExecutedPending /\ NeverBeside /\ RootsFirst
      /\ LoopTogether /\ LoopRunning /\ Running /\ LoopsBack(edges)
      /\ \A e \in edges : e.from \in Nodes /\ e.to \in Nodes
  BY EdgeType DEF LoopInv, BatchInv, SchedulerInv, LoopGraph
<1>1. CASE StartIteration
  <2>0. UNCHANGED <<edges, st, out, results>> /\ Executed' = findExecutableNodes
    BY <1>t, <1>1, BeginEffect
  <2>1. LoopTogether'
    BY <1>t, <2>0 DEF LoopTogether, Follows, Conditional, Satisfied, ConditionMet
  <2>2. ASSUME NEW c \in Conditional(edges), st[c.to] = "pending"
        PROVE  c.from \notin findExecutableNodes
    <3>1. PICK b \in Unconditional(edges) : b.from = c.to /\ b.to = c.from
      BY <1>t DEF LoopsBack
    <3> QED
      BY <1>t, <2>2, <3>1 DEF findExecutableNodes, AllUnconditionalReady, Unconditional, Incoming
  <2> QED
    BY <2>0, <2>1, <2>2 DEF LoopRunning, Conditional
<1>2. CASE EndBatch
  <2>0. /\ phase = "batch" /\ phase' # "batch" /\ edges' = edges
        /\ \A m \in Nodes : st'[m] = IF m \in Executed THEN results[m].state ELSE st[m]
        /\ \A m \in Nodes : out'[m] = IF m \in Executed THEN results[m].value ELSE out[m]
        /\ \A m \in Executed : results[m] # NoResult /\ results[m].state # "pending"
    <3>1. \A m \in Nodes : results[m] # NoResult => results[m].state # "pending"
      BY <1>t DEF TypeOK
    <3> QED
      BY <1>t, <1>2, <3>1, MergeEffect DEF Executed
  <2> SUFFICES ASSUME NEW c \in Conditional(edges), st'[c.to] = "pending", st'[c.from] = "success"
               PROVE  Follows(c)'
    BY <2>0 DEF LoopTogether, LoopRunning, Conditional
  <2>1. c \in edges /\ c.from \in Nodes /\ c.to \in Nodes /\ c.to \notin Executed /\ st[c.to] = "pending"
    BY <1>t, <2>0 DEF Conditional
  <2>2. CASE c.from \in Executed
    <3>1. PICK d \in Conditional(edges) : d.from = c.from /\ d.to = c.to /\ Fires(d, results[c.from])
      BY <1>t, <2>0, <2>1, <2>2 DEF LoopRunning, WillFollow
    <3>2. st'[d.from] = results[c.from].state /\ out'[d.from] = results[c.from].value /\ d.when # Always
      BY <2>0, <2>1, <2>2, <3>1 DEF Conditional
    <3>3. ConditionMet(d, st'[d.from], out'[d.from])
      BY <3>1, <3>2 DEF Fires
    <3> QED
      BY <2>0, <3>1, <3>3 DEF Follows, Conditional, Satisfied, ConditionMet
  <2>3. CASE c.from \notin Executed
    <3>1. PICK d \in Conditional(edges) : d.from = c.from /\ d.to = c.to /\ Satisfied(d, st, out)
      BY <1>t, <2>0, <2>1, <2>3 DEF LoopTogether, Follows
    <3>2. st'[d.from] = st[d.from] /\ out'[d.from] = out[d.from]
      BY <2>0, <2>1, <2>3, <3>1
    <3> QED
      BY <2>0, <3>1, <3>2 DEF Follows, Conditional, Satisfied, ConditionMet
  <2> QED
    BY <2>2, <2>3
<1>3. CASE Rests
  <2>1. phase' = "batch" => phase = "batch" /\ Executed' = Executed /\ results' = results
    BY <1>3 DEF Rests, Executed
  <2>2. LoopTogether'
    BY <1>t, <1>3 DEF Rests, LoopTogether, Follows, Conditional, Satisfied, ConditionMet
  <2>3. LoopRunning'
    BY <1>t, <1>3, <2>1 DEF Rests, LoopRunning, WillFollow, Conditional, Fires, ConditionMet
  <2> QED
    BY <2>2, <2>3
<1>4. ASSUME NEW n \in Nodes, NEW s \in {"success", "fail"}, NEW v \in OutValues(n),
             Settle(n, s, v) \/ OrphanSettles(n, s, v)
      PROVE  LoopTogether' /\ LoopRunning'
  <2>0. /\ edges' = edges /\ out' = out /\ st[n] = "pending"
        /\ \A m \in Nodes : st'[m] = IF m \in Downstream(n, s, v) THEN "pending" ELSE st[m]
        /\ phase' = "batch" =>
             /\ phase = "batch" /\ Executed' = Executed /\ n \in Executed /\ results[n] = NoResult
             /\ results'[n] # NoResult /\ results'[n].state = s /\ results'[n].value = v
             /\ \A m \in Nodes : m # n => results'[m] = results[m]
    <3>1. CASE Settle(n, s, v)
      <4>1. n \in batch /\ Returns(n, s, v)
        BY <1>t, <3>1, ReturnEffect DEF Settle
      <4> QED
        BY <1>t, <4>1 DEF Returns, ExecutedPending, Running
    <3>2. CASE OrphanSettles(n, s, v)
      BY <1>t, <3>2, OrphanEffect DEF ExecutedPending
    <3> QED
      BY <1>4, <3>1, <3>2
  <2>1. Conditional(edges)' = Conditional(edges)
    BY <2>0 DEF Conditional
  <2>2. ASSUME NEW c \in Conditional(edges), st'[c.to] = "pending", st'[c.from] = "success"
        PROVE  Follows(c)'
    <3>1. c.from \in Nodes /\ c.to \in Nodes
      BY <1>t DEF Conditional
    <3>2. st[c.from] = "success" /\ c.from \notin Downstream(n, s, v) /\ n # c.from
      BY <2>0, <2>2, <3>1
    <3>3. c.to \notin Downstream(n, s, v)
      BY <1>t, <2>0, <3>2, OthersRestart
    <3>4. Follows(c)
      BY <1>t, <2>0, <2>2, <3>1, <3>2, <3>3 DEF LoopTogether
    <3>5. PICK d \in Conditional(edges) : d.from = c.from /\ d.to = c.to /\ Satisfied(d, st, out)
      BY <3>4 DEF Follows
    <3>6. Satisfied(d, st', out')
      BY <2>0, <2>2, <3>2, <3>5 DEF Satisfied, ConditionMet
    <3> QED
      BY <2>0, <2>1, <3>5, <3>6 DEF Follows, Satisfied, ConditionMet
  <2>3. ASSUME phase' = "batch", NEW c \in Conditional(edges), st'[c.to] = "pending", c.from \in Executed
        PROVE  WillFollow(c, results'[c.from])
    <3>1. c.from \in Nodes /\ c.to \in Nodes
      BY <1>t DEF Conditional
    <3>2. CASE c.from # n
      <4>1. c.to \notin Downstream(n, s, v)
        BY <1>t, <2>0, <2>3, <3>2, OthersRestart
      <4>2. WillFollow(c, results[c.from])
        BY <1>t, <2>0, <2>3, <3>1, <4>1 DEF LoopRunning
      <4> QED
        BY <2>0, <2>3, <3>1, <3>2, <4>2
    <3>3. CASE c.from = n
      <4>1. ~ WillFollow(c, results[n])
        BY <2>0, <2>3 DEF WillFollow, Fires
      <4>2. c.to \in Downstream(n, s, v)
        BY <1>t, <2>0, <2>3, <3>1, <3>3, <4>1 DEF LoopRunning
      <4> QED
        BY <1>t, <2>0, <2>3, <3>3, <4>2, OwnCondition
    <3> QED
      BY <3>2, <3>3
  <2>4. LoopTogether'
    BY <2>1, <2>2 DEF LoopTogether
  <2> QED
    BY <2>0, <2>1, <2>3, <2>4 DEF LoopRunning, WillFollow, Fires, ConditionMet
<1> QED
  BY <1>t, <1>1, <1>2, <1>3, <1>4, StepKinds

(* In every graph whose unconditional edges have no cycle, whose conditions  *)
(* lead back to nodes their sources wait for, and whose loops are entered    *)
(* together with the source of the condition or once, the service reports a  *)
(* deadlock only after a node has failed (workflow.service.ts:336-352).      *)
THEOREM WorkflowDeadlockMeansFailure ==
    ASSUME \A G \in Graphs : LoopGraph(G)
    PROVE  Spec => []DeadlockMeansFailure
<1>1. Init => LoopInv
  <2>1. ASSUME Init
        PROVE  RootsFirst /\ LoopTogether /\ LoopRunning /\ Running
    BY <2>1, BatchInit, EdgeType
       DEF Init, RootsFirst, LoopTogether, LoopRunning, Running, Conditional, BatchInv, SchedulerInv
  <2>2. Init => Verdict
    BY DEF Init, Verdict
  <2> QED
    BY <2>1, <2>2, BatchInit DEF Init, LoopInv
<1>2. LoopInv /\ [Next]_vars => LoopInv'
  BY BatchStep, VerdictStep, GraphStays, RootsStep, RunningStep, LoopStep DEF LoopInv, BatchInv
<1>3. LoopInv => DeadlockMeansFailure
  <2> SUFFICES ASSUME LoopInv, outcome = "deadlock", \A n \in Nodes : st[n] # "fail"
               PROVE  FALSE
    BY DEF DeadlockMeansFailure
  <2>t. /\ TypeOK /\ LoopTogether /\ LoopGraph(edges) /\ findExecutableNodes = {}
        /\ ~ areAllReachableNodesCompleted(st, out)
    BY DEF LoopInv, BatchInv, SchedulerInv, NoFalseDeadlock, Verdict
  <2> DEFINE T == {n \in Nodes : st[n] = "pending"}
  <2>1. \A n \in Nodes : n \in T \/ st[n] = "success"
    BY <2>t DEF TypeOK, NodeStates
  <2>2. T # {}
    BY <2>1, <2>t DEF areAllReachableNodesCompleted, findReachableNodes
  <2>3. PICK n \in T : \A e \in Unconditional(edges) : e.to = n => e.from \notin T
    BY <2>t, <2>2 DEF LoopGraph, Grounded
  <2>4. AllUnconditionalReady(n)
    BY <2>t, <2>1, <2>3, EdgeType DEF AllUnconditionalReady, Unconditional, Incoming
  <2>5. PICK c \in Conditional(Incoming(n)) : st[c.from] # "pending"
    BY <2>t, <2>3, <2>4 DEF findExecutableNodes, AllConditionalSourcesPending
  <2>6. c \in Conditional(edges) /\ c.to = n /\ st[c.from] = "success"
    BY <2>t, <2>1, <2>5, EdgeType DEF Conditional, Incoming
  <2>7. Follows(c)
    BY <2>t, <2>3, <2>6 DEF LoopTogether
  <2> QED
    BY <2>t, <2>3, <2>4, <2>6, <2>7 DEF Follows, findExecutableNodes, Conditional, Incoming
<1> QED
  BY <1>1, <1>2, <1>3, PTL DEF Spec
=============================================================================
