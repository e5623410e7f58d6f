--------------------------- MODULE WorkflowRecords ---------------------------
(***************************************************************************)
(* packages/workflow-nestjs/src/workflow.service.ts: what WorkflowService  *)
(* keeps of a workflow and of its executions.  The definition is a row     *)
(* with a copy in Redis; each run of runPostDetailWorkflow() writes it     *)
(* anew, runWeiBoKeywordSearchWorkflow() only when there is none.  An      *)
(* execution is a record (its two rows change in one transaction) with a   *)
(* status; resumeWorkflow() goes on from the graph in the record.          *)
(* The graph is WorkflowScheduler's: here it counts steps, and its state   *)
(* says whether they are all done or one has failed.                       *)
(*                                                                         *)
(* Runs and resumptions are promises of processes that share PostgreSQL    *)
(* and Redis.  A transaction reads in one step and writes and commits in   *)
(* another; only upsertWorkflow(), which talks to Redis in between, has    *)
(* its lock and its commit apart.  createWorkflow(), updateWorkflow() and  *)
(* getExecutionState() have no callers; the statuses of executions in      *)
(* Redis, which only the last reads, are left out, the calls are not.      *)
(***************************************************************************)
EXTENDS Naturals, FiniteSets

CONSTANTS
  Runs,        \* runs, each with an execution and a version of the definition
  Resumers,    \* calls of resumeWorkflow()
  Steps,       \* steps of the graph
  MaxFaults    \* bound: calls that fail, crashes, losses of Redis' data

None == "none"

ASSUME RecordsAssumption ==
  /\ Runs \cap Resumers = {} /\ None \notin Runs
  /\ {Steps, MaxFaults} \subseteq Nat /\ Steps > 0

Calls    == Runs \cup Resumers
Places   == {"idle", "lookup", "refresh", "find", "save", "cache", "commit", "create", "open",
             "look", "fill", "resume", "loop", "publish", "catch", "ended"}
Graph    == {g \in [done : 0 .. Steps, state : {"running", "success", "fail"}] :
               g.state = "running" => g.done < Steps}
Fresh    == [done |-> 0, state |-> "running"]
Empty    == [done |-> 0, state |-> None]        \* metadata {}
NoRecord == [status |-> None, meta |-> Empty, retries |-> 0]
Statuses == {None, "running", "success", "fail"}

VARIABLES
  forced,     \* every run writes the definition: the workflow of post details
  row,        \* the definition committed
  lock,       \* the run whose definition is written and not committed
  cache,      \* workflow:<id> in Redis
  at,         \* where each call is
  def,        \* the definition, or its absence, that a run has read
  of,         \* the execution that a resumption is about
  graph,      \* the graph that a call works on
  retries,    \* retryCount in a call's copy of the state
  record,     \* workflow_states and workflow_execution
  faults,     \* counts MaxFaults
  torn,       \* history: a definition was cached and not committed
  raced,      \* history: a reader has cached an older definition than there was
  overlapped, \* history: executions with two calls at once
  lost        \* history: executions whose call ended without writing so

definition == <<forced, row, lock, cache, def, torn, raced>>
execution  == <<of, graph, retries, record, overlapped, lost>>
vars       == <<definition, execution, at, faults>>

Goto(c, place) == at' = [at EXCEPT ![c] = place]
Fault == faults < MaxFaults /\ faults' = faults + 1
About(c) == IF c \in Runs THEN c ELSE of[c]
Idle(c) == at[c] \in {"idle", "ended"}

Init ==
  /\ forced \in BOOLEAN /\ row = None /\ lock = None /\ cache = None
  /\ at = [c \in Calls |-> "idle"] /\ def = [r \in Runs |-> None]
  /\ of = [c \in Resumers |-> None]
  /\ graph = [c \in Calls |-> Fresh] /\ retries = [c \in Calls |-> 0]
  /\ record = [r \in Runs |-> NoRecord]
  /\ faults = 0 /\ torn = FALSE /\ raced = FALSE /\ overlapped = {} /\ lost = {}

-----------------------------------------------------------------------------
(* The definition *)

\* The definition cached last by upsertWorkflow(), committed or about to be.
Newest == IF lock # None /\ at[lock] = "commit" THEN lock ELSE row

Start(r) ==
  /\ at[r] = "idle"
  /\ Goto(r, IF forced THEN "find" ELSE "lookup")
  /\ UNCHANGED <<definition, execution, faults>>

\* getWorkflowBySlug(): the row, then its copy in Redis.
Lookup(r) ==
  /\ at[r] = "lookup"
  /\ def' = [def EXCEPT ![r] = row]
  /\ Goto(r, IF row = None THEN "find" ELSE "refresh")
  /\ UNCHANGED <<forced, row, lock, cache, torn, raced, execution, faults>>
Refresh(r) ==
  /\ at[r] = "refresh" /\ Goto(r, "create")
  /\ cache' = def[r]
  /\ raced' = (raced \/ def[r] # Newest)
  /\ UNCHANGED <<forced, row, lock, def, torn, execution, faults>>

\* upsertWorkflow(): findOne() by slug.
Find(r) ==
  /\ at[r] = "find" /\ Goto(r, "save")
  /\ def' = [def EXCEPT ![r] = row]
  /\ UNCHANGED <<forced, row, lock, cache, torn, raced, execution, faults>>

\* manager.save() waits for whoever has written the row or the slug; a second
\* row with the slug is refused.
Save(r) ==
  /\ at[r] = "save" /\ lock = None
  /\ IF def[r] = None /\ row # None
     THEN lock' = lock /\ Goto(r, "ended")
     ELSE lock' = r /\ Goto(r, "cache")
  /\ UNCHANGED <<forced, row, cache, def, torn, raced, execution, faults>>

\* Redis first, the commit after it.
CacheNew(r) ==                         \* mutation: not when there is one to update
  /\ at[r] = "cache" /\ Goto(r, "commit")
  /\ cache' = IF def[r] = None THEN r ELSE cache
  /\ UNCHANGED <<forced, row, lock, def, torn, raced, execution, faults>>
CacheDefinition(r) ==
  /\ at[r] = "cache" /\ Goto(r, "commit")
  /\ cache' = r
  /\ UNCHANGED <<forced, row, lock, def, torn, raced, execution, faults>>
Commit(r) ==
  /\ at[r] = "commit" /\ Goto(r, "create")
  /\ row' = r /\ lock' = None
  /\ UNCHANGED <<forced, cache, def, torn, raced, execution, faults>>
UpsertThrows(r) ==
  /\ at[r] \in {"cache", "commit"} /\ Fault /\ Goto(r, "ended")
  /\ lock' = None
  /\ torn' = (torn \/ at[r] = "commit")
  /\ UNCHANGED <<forced, row, cache, def, raced, execution>>

LoseRedis ==
  /\ Fault
  /\ cache' = None
  /\ UNCHANGED <<forced, row, lock, def, torn, raced, at, execution>>

-----------------------------------------------------------------------------
(* executeWorkflow() *)

Write(e, status, g, n) == record' = [record EXCEPT ![e] = [status |-> status, meta |-> g, retries |-> n]]

Create(r) ==
  /\ at[r] = "create" /\ Goto(r, "open")
  /\ Write(r, "running", Empty, 0)
  /\ UNCHANGED <<definition, of, graph, retries, overlapped, lost, faults>>

\* The state for Redis, where nobody looks at it, then getWorkflow(): the copy
\* in Redis, or the row, which is copied.  None of this is inside the try.
Open(r) ==
  /\ at[r] = "open"
  /\ IF cache = None
     THEN Goto(r, "look") /\ def' = def
     ELSE Goto(r, "loop") /\ def' = [def EXCEPT ![r] = cache]
  /\ UNCHANGED <<forced, row, lock, cache, torn, raced, execution, faults>>
Look(r) ==
  /\ at[r] = "look" /\ Goto(r, "fill")
  /\ def' = [def EXCEPT ![r] = row]
  /\ UNCHANGED <<forced, row, lock, cache, torn, raced, execution, faults>>
Fill(r) ==
  /\ at[r] = "fill" /\ Goto(r, "loop")
  /\ cache' = def[r]
  /\ raced' = (raced \/ def[r] # Newest)
  /\ UNCHANGED <<forced, row, lock, def, torn, execution, faults>>
OpenThrows(r) ==
  /\ at[r] \in {"open", "look", "fill"} /\ Fault /\ Goto(r, "ended")
  /\ lost' = lost \cup {r}
  /\ UNCHANGED <<definition, of, graph, retries, record, overlapped>>

-----------------------------------------------------------------------------
(* resumeWorkflow() *)

\* Calls that are about e and not over.
Active(e) == {c \in Calls : About(c) = e /\ ~Idle(c)}

ResumeRunning(c, e) ==                 \* mutation: metadata may be empty
  /\ at[c] = "idle"
  /\ record[e].status \notin {None, "success"}
  /\ Goto(c, "resume")
  /\ of' = [of EXCEPT ![c] = e]
  /\ graph' = [graph EXCEPT ![c] = IF record[e].meta = Empty THEN Fresh ELSE record[e].meta]
  /\ retries' = [retries EXCEPT ![c] = record[e].retries + 1]
  /\ overlapped' = IF Active(e) = {} THEN overlapped ELSE overlapped \cup {e}
  /\ UNCHANGED <<definition, record, lost, faults>>
ResumeFinished(c, e) ==                \* mutation: success may be resumed
  /\ at[c] = "idle"
  /\ record[e].meta # Empty
  /\ Goto(c, "resume")
  /\ of' = [of EXCEPT ![c] = e]
  /\ graph' = [graph EXCEPT ![c] = record[e].meta]
  /\ retries' = [retries EXCEPT ![c] = record[e].retries + 1]
  /\ overlapped' = IF Active(e) = {} THEN overlapped ELSE overlapped \cup {e}
  /\ UNCHANGED <<definition, record, lost, faults>>
Resume(c, e) ==
  /\ at[c] = "idle"
  /\ record[e].status \notin {None, "success"} /\ record[e].meta # Empty
  /\ Goto(c, "resume")
  /\ of' = [of EXCEPT ![c] = e]
  /\ graph' = [graph EXCEPT ![c] = record[e].meta]
  /\ retries' = [retries EXCEPT ![c] = record[e].retries + 1]
  /\ overlapped' = IF Active(e) = {} THEN overlapped ELSE overlapped \cup {e}
  /\ UNCHANGED <<definition, record, lost, faults>>

\* save() writes whatever differs from the row, the metadata read too.
ResumeSaves(c) ==
  /\ at[c] = "resume" /\ Goto(c, "loop")
  /\ Write(of[c], "running", graph[c], retries[c])
  /\ UNCHANGED <<definition, of, graph, retries, overlapped, lost, faults>>
ResumeThrows(c) ==
  /\ at[c] = "resume" /\ Fault /\ Goto(c, "ended")
  /\ UNCHANGED <<definition, execution>>

-----------------------------------------------------------------------------
(* The loop of both *)

Later(g) ==
  {[done |-> g.done + 1, state |-> IF g.done + 1 = Steps THEN "success" ELSE "running"],
   [g EXCEPT !.state = "fail"]}

Iterate(c) ==
  /\ at[c] = "loop" /\ graph[c].state = "running"
  /\ \E g \in Later(graph[c]) : graph' = [graph EXCEPT ![c] = g]
  /\ UNCHANGED <<definition, at, of, retries, record, overlapped, lost, faults>>

\* A deadlock, the limit of iterations, a handler that throws, or Redis.
IterationThrows(c) ==
  /\ at[c] = "loop" /\ graph[c].state = "running" /\ Fault /\ Goto(c, "catch")
  /\ graph' \in {graph} \cup {[graph EXCEPT ![c] = g] : g \in Later(graph[c])}
  /\ UNCHANGED <<definition, of, retries, record, overlapped, lost>>

\* The final transaction, then Redis; both inside the try.
Record(c) ==
  /\ at[c] = "loop" /\ graph[c].state # "running" /\ Goto(c, "publish")
  /\ Write(About(c), graph[c].state, graph[c], retries[c])
  /\ UNCHANGED <<definition, of, graph, retries, overlapped, lost, faults>>
RecordThrows(c) ==
  /\ at[c] = "loop" /\ graph[c].state # "running" /\ Fault /\ Goto(c, "catch")
  /\ UNCHANGED <<definition, execution>>
Publish(c) ==
  /\ at[c] = "publish" /\ Goto(c, "ended")
  /\ UNCHANGED <<definition, execution, faults>>
PublishThrows(c) ==
  /\ at[c] = "publish" /\ Fault /\ Goto(c, "catch")
  /\ UNCHANGED <<definition, execution>>

CatchLogs(c) ==                        \* mutation: the failure is not recorded
  /\ at[c] = "catch" /\ Goto(c, "ended")
  /\ UNCHANGED <<definition, execution, faults>>
Catch(c) ==
  /\ at[c] = "catch" /\ Goto(c, "ended")
  /\ Write(About(c), "fail", graph[c], retries[c])
  /\ UNCHANGED <<definition, of, graph, retries, overlapped, lost, faults>>
CatchThrows(c) ==
  /\ at[c] = "catch" /\ Fault /\ Goto(c, "ended")
  /\ lost' = lost \cup {About(c)}
  /\ UNCHANGED <<definition, of, graph, retries, record, overlapped>>

\* The process ends with every call in it; PostgreSQL rolls back.
Crash ==
  /\ Fault
  /\ at' = [c \in Calls |-> IF Idle(c) THEN at[c] ELSE "ended"]
  /\ lock' = None
  /\ torn' = (torn \/ (lock # None /\ at[lock] = "commit"))
  /\ lost' = lost \cup {About(c) : c \in {d \in Calls : ~Idle(d)}}
  /\ UNCHANGED <<forced, row, cache, def, raced, of, graph, retries, record, overlapped>>

-----------------------------------------------------------------------------
Next ==
  \/ \E r \in Runs :
       \/ Start(r) \/ Lookup(r) \/ Refresh(r) \/ Find(r) \/ Save(r) \/ CacheDefinition(r) \/ Commit(r)
       \/ UpsertThrows(r) \/ Create(r) \/ Open(r) \/ Look(r) \/ Fill(r) \/ OpenThrows(r)
  \/ \E c \in Resumers : (\E e \in Runs : Resume(c, e)) \/ ResumeSaves(c) \/ ResumeThrows(c)
  \/ \E c \in Calls :
       \/ Iterate(c) \/ IterationThrows(c) \/ Record(c) \/ RecordThrows(c) \/ Publish(c)
       \/ PublishThrows(c) \/ Catch(c) \/ CatchThrows(c)
  \/ LoseRedis \/ Crash

Spec == Init /\ [][Next]_vars
-----------------------------------------------------------------------------
(* Correctness *)

TypeOK ==
  /\ forced \in BOOLEAN /\ {row, lock, cache} \subseteq Runs \cup {None}
  /\ at \in [Calls -> Places] /\ def \in [Runs -> Runs \cup {None}]
  /\ of \in [Resumers -> Runs \cup {None}]
  /\ graph \in [Calls -> Graph] /\ retries \in [Calls -> Nat]
  /\ record \in [Runs -> [status : Statuses, meta : Graph \cup {Empty}, retries : Nat]]
  /\ faults \in 0 .. MaxFaults /\ torn \in BOOLEAN /\ raced \in BOOLEAN
  /\ overlapped \subseteq Runs /\ lost \subseteq Runs

\* Redis has the definition that was committed last, in whatever order runs
\* write theirs: each holds the row's lock from before it fills the cache
\* until it commits.
CacheFollowsRow == lock = None /\ ~torn /\ ~raced => cache \in {None, row}

\* A resumption never executes beside the run it resumes: the record has no
\* graph before the run's loop is over.
RunIsAlone ==
  \A c \in Resumers : at[c] \in {"resume", "loop"} => at[of[c]] \notin {"open", "look", "fill", "loop"}

\* What is recorded as running is being run, unless the process, or
\* PostgreSQL or Redis at the wrong moment, has let it down.
RunningMeansRun ==
  \A e \in Runs : record[e].status = "running" =>
    \/ e \in lost
    \/ \E c \in Active(e) : at[c] \in {"open", "look", "fill", "loop", "catch"}

\* The record never forgets a step, and success is final as long as Redis
\* takes it, unless two resumptions work on one execution at once.
NeverGoesBack ==
  [][\A e \in Runs \ overlapped' :
       /\ record'[e].meta.done >= record[e].meta.done
       /\ record[e].status = "success" =>
            record'[e].status = "success" \/ \E c \in Active(e) : at[c] = "catch"]_vars
=============================================================================
