------------------------ MODULE SearchTaskScheduler ------------------------
(***************************************************************************)
(* Search tasks: apps/broker's SimpleIntervalScheduler, which turns due    *)
(* tasks into requests to crawl a range of time, and apps/api's            *)
(* WeiboSearchTaskService, which changes the same rows of weibo_search_    *)
(* tasks while the scheduler runs.                                         *)
(*                                                                         *)
(* setInterval starts an execute() every minute whether or not the last    *)
(* one is over, so the calls in progress are a set of runs that interleave *)
(* at every await: the query, the INSERT and the UPDATE of a transaction.  *)
(* producer.next() returns at once and cannot fail the transaction it is   *)
(* called in; what becomes of the message is the publisher's business.     *)
(*                                                                         *)
(* PostgreSQL is external: a statement is one step, a transaction's rows   *)
(* appear when it commits, and the foreign key of an inserted subtask      *)
(* keeps its task from being deleted until then.  All tasks belong to one  *)
(* user and have the same interval and the same start date.                *)
(***************************************************************************)
EXTENDS Integers, FiniteSets

CONSTANTS
  Tasks,        \* ids of search tasks; an id is given to one task only
  Runs,         \* how many calls of execute() may be in progress at once
  Start,        \* startDate of every task, the time of Init
  Interval,     \* crawlInterval of every task
  MaxClock,     \* when the clock stops
  MaxFaults,    \* statements that fail, and exits of the process
  MaxRequests   \* requests of users

ASSUME SearchTaskAssumption ==
  /\ Start \in Nat /\ MaxClock \in Nat /\ Start <= MaxClock
  /\ Interval \in Nat \ {0}
  /\ MaxFaults \in Nat /\ MaxRequests \in Nat

Time == Nat
NULL == -1     \* a column without a value, below every time

VARIABLES
  clock,     \* new Date()
  task,      \* task[t]: its row of weibo_search_tasks
  subtasks,  \* the committed rows of weibo_sub_tasks
  run,       \* run[r]: a call of execute()
  up,        \* is the broker process running, and so its interval?
  asked,     \* the ranges of the messages handed to producer.next()
  edits,     \* calls of update() between their findOne() and their update
  faults,    \* failures so far
  requests,  \* calls of the API so far
  raced      \* history: two runs have held rows they had read at one time

db   == <<task, subtasks>>
vars == <<clock, db, run, up, asked, edits, faults, requests, raced>>

Rows     == [exists : {"no", "yes", "deleted"}, enabled : BOOLEAN,
             nextRunAt : Time \cup {NULL}, latestCrawlTime : Time \cup {NULL}]
Ranges   == [task : Tasks, from : Time, to : Time]
\* What execute() keeps of a row it has read, and update() of its request.
Loaded   == [task : Tasks, from : Time, nextRunAt : Time \cup {NULL}]
Edits    == [task : Tasks, enabled : BOOLEAN, nextRunAt : Time \cup {NULL}]

\* A row that has not been served yet, and a run that holds none.
Row(exists, enabled, next) ==
  [exists |-> exists, enabled |-> enabled, nextRunAt |-> next, latestCrawlTime |-> NULL]
RunAt(at, now) == [at |-> at, now |-> now, todo |-> {}, saved |-> {}]
Idle == RunAt("idle", 0)

Live(t) == task[t].exists = "yes"

\* A failure, and a call of the API.
Fault   == faults < MaxFaults /\ faults' = faults + 1
Request == requests < MaxRequests /\ requests' = requests + 1

\* The where clause of loadPendingTasks, for a query with the time now.
Due(t, now) ==
  /\ Live(t) /\ task[t].enabled
  /\ task[t].nextRunAt <= now     \* NULL, too, is below every time

\* task.latestCrawlTime ?? task.startDate
StartAgain(t) == Start     \* mutation: the progress is not read
RangeStart(t) ==
  IF task[t].latestCrawlTime = NULL THEN Start ELSE task[t].latestCrawlTime

\* ORDER BY nextRunAt ASC, which puts the rows without one last.
Before(a, b) ==
  b.nextRunAt = NULL \/ (a.nextRunAt # NULL /\ a.nextRunAt <= b.nextRunAt)

First(r) == {s \in run[r].todo : \A o \in run[r].todo : Before(s, o)}

\* The end of a range: the time read when execute() began.
ReadAgain(r)  == clock           \* mutation: new Date() wherever it is needed
BeforeNow(r)  == run[r].now - 1  \* mutation: one minute is held back
RangeEnd(r)   == run[r].now

Range(r, s) == [task |-> s.task, from |-> s.from, to |-> RangeEnd(r)]

\* A transaction of some run has inserted a subtask of t.
Referenced(t) == \E r \in Runs : \E s \in run[r].saved : s.task = t

Init ==
  /\ clock = Start
  /\ task \in [Tasks -> {Row("no", FALSE, NULL), Row("yes", TRUE, NULL)}]
  /\ subtasks = {}
  /\ run = [r \in Runs |-> Idle]
  /\ up = FALSE
  /\ asked = {}
  /\ edits = {}
  /\ faults = 0 /\ requests = 0 /\ raced = FALSE

-----------------------------------------------------------------------------
(* The broker process *)

\* bootstrap() and start(): the first execute() begins at once.
StartUp(r) ==
  /\ ~up
  /\ up' = TRUE
  /\ run' = [run EXCEPT ![r] = RunAt("loading", clock)]
  /\ UNCHANGED <<clock, db, asked, edits, faults, requests, raced>>

\* The interval fires; nothing asks whether the last execute() is over.
Tick(r) ==
  /\ up /\ run[r].at = "idle"
  /\ run' = [run EXCEPT ![r] = RunAt("loading", clock)]
  /\ UNCHANGED <<clock, db, up, asked, edits, faults, requests, raced>>

\* The answer of loadPendingTasks.
Load(r) ==
  /\ run[r].at = "loading"
  /\ LET due == {t \in Tasks : Due(t, run[r].now)} IN
       run' = [run EXCEPT ![r] =
         IF due = {} THEN Idle
         ELSE [@ EXCEPT !.at = "looping",
                        !.todo = {[task |-> t, from |-> RangeStart(t),
                                   nextRunAt |-> task[t].nextRunAt] : t \in due}]]
  /\ raced' = (raced \/ \E o \in Runs \ {r} : run[o].at = "looping")
  /\ UNCHANGED <<clock, db, up, asked, edits, faults, requests>>

\* dispatchSubTask up to its second await: the subtask is inserted and its
\* message is handed to the producer, before the transaction commits.
SaveSubTask(r) ==
  /\ run[r].at = "looping" /\ run[r].saved = {}
  /\ \E s \in First(r) :
       /\ Live(s.task)
       /\ run' = [run EXCEPT ![r].todo = @ \ {s}, ![r].saved = {s}]
       /\ asked' = asked \cup {Range(r, s)}
  /\ UNCHANGED <<clock, db, up, edits, faults, requests, raced>>

RetryGone(r) ==     \* mutation: the loop tries the same task again
  /\ run[r].at = "looping" /\ run[r].saved = {}
  /\ \E s \in First(r) : ~Live(s.task)
  /\ UNCHANGED vars

\* The task is gone: the foreign key refuses the subtask, and the exception
\* ends the loop with the remaining tasks unserved.
TaskGone(r) ==
  /\ run[r].at = "looping" /\ run[r].saved = {}
  /\ \E s \in First(r) : ~Live(s.task)
  /\ run' = [run EXCEPT ![r] = Idle]
  /\ UNCHANGED <<clock, db, up, asked, edits, faults, requests, raced>>

\* The rest of dispatchSubTask: the task's row is updated, whatever it holds
\* by now, and the transaction commits.
CommitSubTask(r) ==
  /\ \E s \in run[r].saved :
       /\ task' = [task EXCEPT ![s.task] = [@ EXCEPT
            !.latestCrawlTime = RangeEnd(r), !.nextRunAt = run[r].now + Interval]]
       /\ subtasks' = subtasks \cup {Range(r, s)}
  /\ run' = [run EXCEPT ![r] = IF @.todo = {} THEN Idle ELSE [@ EXCEPT !.saved = {}]]
  /\ UNCHANGED <<clock, up, asked, edits, faults, requests, raced>>

\* A statement fails: the transaction is rolled back, the message is not.
\* safeExecute logs the exception and the remaining tasks are dropped.
StatementFails(r) ==
  /\ run[r].at # "idle"
  /\ Fault
  /\ run' = [run EXCEPT ![r] = Idle]
  /\ UNCHANGED <<clock, db, up, asked, edits, requests, raced>>

\* SIGTERM or a crash: shutdown() stops the intervals and exits at once, so
\* open transactions are rolled back.
Exit ==
  /\ up
  /\ Fault
  /\ up' = FALSE
  /\ run' = [r \in Runs |-> Idle]
  /\ UNCHANGED <<clock, db, asked, edits, requests, raced>>

-----------------------------------------------------------------------------
(* The API *)

Apart == <<clock, subtasks, run, up, asked, faults, raced>>

Create(t) ==
  /\ task[t].exists = "no"
  /\ Request
  /\ task' = [task EXCEPT ![t] = Row("yes", TRUE, clock)]
  /\ UNCHANGED <<Apart, edits>>

\* A foreign key with ON DELETE CASCADE takes the subtasks along, and an
\* uncommitted subtask makes the DELETE wait for its transaction.
Delete(t) ==
  /\ Live(t) /\ ~Referenced(t)
  /\ Request
  /\ task' = [task EXCEPT ![t] = Row("deleted", FALSE, NULL)]
  /\ subtasks' = {s \in subtasks : s.task # t}
  /\ UNCHANGED <<clock, run, up, asked, edits, faults, raced>>

Pause(t) ==
  /\ Live(t)
  /\ Request
  /\ task' = [task EXCEPT ![t].enabled = FALSE]
  /\ UNCHANGED <<Apart, edits>>

\* resume() and runNow() make the same two assignments.
Resume(t) ==
  /\ Live(t)
  /\ Request
  /\ task' = [task EXCEPT ![t] = [@ EXCEPT !.enabled = TRUE, !.nextRunAt = clock]]
  /\ UNCHANGED <<Apart, edits>>

PauseAll ==
  /\ Request
  /\ task' = [t \in Tasks |-> IF Live(t) THEN [task[t] EXCEPT !.enabled = FALSE]
                              ELSE task[t]]
  /\ UNCHANGED <<Apart, edits>>

ResumeAll ==
  /\ Request
  /\ task' = [t \in Tasks |->
       IF Live(t) /\ ~task[t].enabled
         THEN [task[t] EXCEPT !.enabled = TRUE, !.nextRunAt = clock]
         ELSE task[t]]
  /\ UNCHANGED <<Apart, edits>>

\* update() reads the row, decides, and writes by id what it has decided.
Update(t, enabled) ==
  /\ Live(t)
  /\ Request
  /\ edits' = edits \cup
       {[task |-> t, enabled |-> enabled, nextRunAt |-> task[t].nextRunAt]}
  /\ UNCHANGED <<Apart, task>>

FinishUpdate(e) ==
  /\ e \in edits
  /\ edits' = edits \ {e}
  /\ IF Live(e.task)
       THEN task' = [task EXCEPT ![e.task] = [task[e.task] EXCEPT
              !.enabled = e.enabled,
              !.nextRunAt = IF e.enabled /\ e.nextRunAt = NULL THEN clock ELSE @]]
       ELSE UNCHANGED task
  /\ UNCHANGED <<Apart, requests>>

-----------------------------------------------------------------------------
Pass ==
  /\ clock < MaxClock
  /\ clock' = clock + 1
  /\ UNCHANGED <<db, run, up, asked, edits, faults, requests, raced>>

Execute(r) == Load(r) \/ SaveSubTask(r) \/ TaskGone(r) \/ CommitSubTask(r)

Api ==
  \/ \E t \in Tasks : Create(t) \/ Delete(t) \/ Pause(t) \/ Resume(t)
  \/ \E t \in Tasks, enabled \in BOOLEAN : Update(t, enabled)
  \/ \E e \in edits : FinishUpdate(e)
  \/ PauseAll \/ ResumeAll

Next ==
  \/ \E r \in Runs : StartUp(r) \/ Tick(r) \/ Execute(r) \/ StatementFails(r)
  \/ Exit \/ Api \/ Pass

\* Timers fire, statements are answered, time passes, and the
\* container is started again (docker-compose.yml: restart: unless-stopped).
Fairness ==
  /\ \A r \in Runs : WF_vars(Tick(r)) /\ WF_vars(Execute(r))
  /\ WF_vars(\E r \in Runs : StartUp(r))
  /\ WF_vars(\E e \in edits : FinishUpdate(e))
  /\ WF_vars(Pass)

Spec == Init /\ [][Next]_vars /\ Fairness

-----------------------------------------------------------------------------
(* Properties *)

\* The types of the variables; only a run in its loop holds rows.
TypeOK ==
  /\ clock \in Time
  /\ task \in [Tasks -> Rows]
  /\ subtasks \subseteq Ranges
  /\ run \in [Runs -> [at : {"idle", "loading", "looping"}, now : Time,
                       todo : SUBSET Loaded, saved : SUBSET Loaded]]
  /\ up \in BOOLEAN
  /\ asked \subseteq Ranges
  /\ edits \subseteq Edits
  /\ faults \in Nat /\ requests \in Nat
  /\ raced \in BOOLEAN
  /\ \A r \in Runs : run[r].at # "looping" => run[r].todo = {} /\ run[r].saved = {}

\* Whatever runs interleave, statements fail, processes die and users do, the
\* time between startDate and latestCrawlTime has all been asked for.
NoHole ==
  \A t \in Tasks : Live(t) =>
    \A i \in Start .. (RangeStart(t) - 1) :
      \E m \in asked : m.task = t /\ m.from <= i /\ i < m.to

Disjoint(a, b) == a.to <= b.from \/ b.to <= a.from

NoOverlap ==
  \A a, b \in subtasks : a # b /\ a.task = b.task => Disjoint(a, b)

\* No time is crawled twice for one task, unless two runs held rows at once.
NoOverlapUnlessRaced == ~raced => NoOverlap

\* A due task stops being due because its user paused or deleted it or
\* because it was asked for up to the time it became due, unless the run
\* that served it had read the row before it became due that way.
Stale(t) == \E r \in Runs : \E s \in run[r].saved :
              s.task = t /\ s.nextRunAt # task[t].nextRunAt

DueMeansServed ==
  [][\A t \in Tasks :
       /\ Due(t, clock) /\ ~Stale(t)
       /\ Live(t)' /\ task'[t].enabled /\ task'[t].nextRunAt > clock'
       => \E m \in subtasks' : m.task = t /\ m.to >= task[t].nextRunAt]_vars

\* A due task does not stay due, whatever happens to the tasks before it.
DueIsServed == \A t \in Tasks : Due(t, clock) ~> ~Due(t, clock)

\* The requests are those of CrawlCoverage.
Coverage == INSTANCE CrawlCoverage
ImplementsCoverage == Coverage!Spec
=============================================================================
