--------------------- MODULE SearchTaskScheduler_proofs ---------------------
(***************************************************************************)
(* Theorems about SearchTaskScheduler, for any tasks, any number of        *)
(* overlapping runs, any interval, and any number of failures and requests.*)
(***************************************************************************)
EXTENDS SearchTaskScheduler, TLAPS

Held(r) == run[r].todo \cup run[r].saved

\* Every row, and every row a run holds, stands at the end of a request, and
\* the requests leave no hole below any of their ends.
EndsInv ==
  /\ \A t \in Tasks : Live(t) => RangeStart(t) \in Coverage!Ends(t)
  /\ \A r \in Runs : \A s \in Held(r) : s.from \in Coverage!Ends(s.task)
  /\ \A r \in Runs : \A s \in run[r].saved : Range(r, s) \in asked
  /\ Coverage!NoHole

\* The columns and the clock: no row is due before the end of its last range,
\* and no run is given a range that ends before it starts.
ClockInv ==
  /\ Start <= clock
  /\ \A r \in Runs : run[r].at # "idle" => Start <= run[r].now /\ run[r].now <= clock
  /\ \A t \in Tasks : task[t].latestCrawlTime # NULL =>
       /\ task[t].latestCrawlTime <= clock
       /\ task[t].nextRunAt # NULL
       /\ task[t].latestCrawlTime <= task[t].nextRunAt
  /\ \A r \in Runs : \A s \in Held(r) : s.from <= run[r].now

\* A run holds a row once; a task it holds has existed, and exists while its
\* transaction is open; and only existing tasks have subtasks.
HeldInv ==
  /\ \A r \in Runs : \A s, o \in Held(r) : s.task = o.task => s = o
  /\ \A r \in Runs : run[r].todo \cap run[r].saved = {}
  /\ \A r \in Runs : \A s \in Held(r) : task[s.task].exists # "no"
  /\ \A r \in Runs : \A s \in run[r].saved : Live(s.task)
  /\ \A a \in subtasks : Live(a.task)

\* Until two runs hold rows at once, what a run holds is up to date and what
\* is to be crawled next lies behind everything that has been.
FreshInv ==
  ~raced =>
    /\ \A r, o \in Runs : run[r].at = "looping" /\ run[o].at = "looping" => r = o
    /\ \A r \in Runs : \A s \in Held(r) : Live(s.task) => s.from = RangeStart(s.task)
    /\ \A a \in subtasks : a.to <= RangeStart(a.task)
    /\ NoOverlap

TaskInv == TypeOK /\ EndsInv /\ ClockInv /\ HeldInv /\ FreshInv

-----------------------------------------------------------------------------
(* What the types say of a run and of a row, field by field. *)
LEMMA RunType ==
  ASSUME TypeOK, NEW r \in Runs
  PROVE  /\ run[r] = [at |-> run[r].at, now |-> run[r].now,
                      todo |-> run[r].todo, saved |-> run[r].saved]
         /\ run[r].at \in {"idle", "loading", "looping"}
         /\ run[r].now \in Nat
         /\ run[r].todo \subseteq Loaded /\ run[r].saved \subseteq Loaded
         /\ run[r].at # "looping" => Held(r) = {}
BY DEF TypeOK, Held, Time

LEMMA RowType ==
  ASSUME TypeOK, NEW t \in Tasks
  PROVE  /\ task[t].exists \in {"no", "yes", "deleted"}
         /\ task[t].enabled \in BOOLEAN
         /\ task[t].nextRunAt \in Nat \cup {NULL}
         /\ task[t].latestCrawlTime \in Nat \cup {NULL}
         /\ RangeStart(t) \in Nat
<1>1. task[t] \in Rows
  BY DEF TypeOK
<1> QED
  BY <1>1, SearchTaskAssumption DEF Rows, Time, RangeStart

LEMMA HeldType ==
  ASSUME TypeOK, NEW r \in Runs, NEW s \in Held(r)
  PROVE  /\ s \in Loaded
         /\ s.task \in Tasks /\ s.from \in Nat /\ s.nextRunAt \in Nat \cup {NULL}
         /\ run[r].at = "looping"
         /\ Range(r, s) \in Ranges
<1>1. s \in Loaded /\ run[r].at = "looping"
  BY RunType DEF Held
<1>2. s.task \in Tasks /\ s.from \in Nat /\ s.nextRunAt \in Nat \cup {NULL}
  BY <1>1 DEF Loaded, Time
<1> QED
  BY <1>1, <1>2, RunType DEF Range, RangeEnd, Ranges, Time

LEMMA RangeType ==
  ASSUME TypeOK, NEW m \in asked \cup subtasks
  PROVE  m \in Ranges /\ m.task \in Tasks /\ m.from \in Nat /\ m.to \in Nat
BY DEF TypeOK, Ranges, Time

RunStates == [at : {"idle", "loading", "looping"}, now : Time,
              todo : SUBSET Loaded, saved : SUBSET Loaded]

-----------------------------------------------------------------------------
(* Steps of one run change its record only. *)
LEMMA RunTypeStep ==
  ASSUME TypeOK, NEW r \in Runs, NEW x \in RunStates,
         run' = [run EXCEPT ![r] = x],
         x.at # "looping" => x.todo = {} /\ x.saved = {}
  PROVE  /\ run' \in [Runs -> RunStates]
         /\ \A o \in Runs : run'[o].at # "looping" => run'[o].todo = {} /\ run'[o].saved = {}
BY DEF TypeOK, RunStates

LEMMA IdleType ==
  /\ Idle \in RunStates
  /\ Idle = [at |-> "idle", now |-> 0, todo |-> {}, saved |-> {}]
BY DEF Idle, RunAt, RunStates, Time

LEMMA LoadingType ==
  ASSUME TypeOK
  PROVE  RunAt("loading", clock) \in RunStates
BY DEF TypeOK, RunAt, RunStates

LEMMA NewRowType ==
  ASSUME NEW x \in {"no", "yes", "deleted"}, NEW b \in BOOLEAN, NEW n \in Nat \cup {NULL}
  PROVE  /\ Row(x, b, n) \in Rows
         /\ Row(x, b, n) = [exists |-> x, enabled |-> b, nextRunAt |-> n, latestCrawlTime |-> NULL]
BY DEF Row, Rows, Time

LEMMA ExecuteTypeStep ==
  ASSUME TypeOK, NEW r \in Runs, StartUp(r) \/ Tick(r) \/ Execute(r) \/ StatementFails(r)
  PROVE  TypeOK'
<1> USE DEF TypeOK, db
<1>1. CASE StartUp(r) \/ Tick(r)
  <2>1. RunAt("loading", clock).todo = {} /\ RunAt("loading", clock).saved = {}
    BY DEF RunAt
  <2> QED
    BY <1>1, <2>1, RunTypeStep, LoadingType DEF StartUp, Tick, RunStates
<1>2. CASE TaskGone(r) \/ StatementFails(r)
  BY <1>2, RunTypeStep, IdleType DEF TaskGone, StatementFails, RunStates, Fault
<1>3. CASE Load(r)
  <2> DEFINE due == {t \in Tasks : Due(t, run[r].now)}
             read == {[task |-> t, from |-> RangeStart(t), nextRunAt |-> task[t].nextRunAt] : t \in due}
             x == IF due = {} THEN Idle ELSE [run[r] EXCEPT !.at = "looping", !.todo = read]
  <2>1. read \subseteq Loaded
    BY RowType DEF Loaded, Time
  <2>2. x \in RunStates /\ (x.at # "looping" => x.todo = {} /\ x.saved = {})
    BY <2>1, IdleType DEF RunStates
  <2>3. run' = [run EXCEPT ![r] = x]
    BY <1>3 DEF Load
  <2> HIDE DEF x
  <2> QED
    BY <1>3, <2>2, <2>3, RunTypeStep DEF Load, RunStates
<1>4. CASE SaveSubTask(r)
  <2>1. PICK s \in First(r) : SaveSubTask(r)!2!(s)
    BY <1>4 DEF SaveSubTask
  <2> DEFINE x == [run[r] EXCEPT !.todo = @ \ {s}, !.saved = {s}]
  <2>2. s \in Held(r)
    BY DEF First, Held
  <2>3. x \in RunStates /\ x.at = "looping"
    BY <2>2, HeldType, RunType DEF RunStates
  <2>4. run' = [run EXCEPT ![r] = x]
    BY <2>1
  <2>5. asked' \subseteq Ranges
    BY <2>1, <2>2, HeldType
  <2> HIDE DEF x
  <2> QED
    BY <1>4, <2>3, <2>4, <2>5, RunTypeStep DEF SaveSubTask, RunStates
<1>5. CASE CommitSubTask(r)
  <2>1. PICK s \in run[r].saved : CommitSubTask(r)!1!(s)
    BY <1>5 DEF CommitSubTask
  <2> DEFINE x == IF run[r].todo = {} THEN Idle ELSE [run[r] EXCEPT !.saved = {}]
  <2>2. s \in Held(r)
    BY DEF Held
  <2>3. x \in RunStates /\ (x.at # "looping" => x.todo = {} /\ x.saved = {})
    BY <2>2, HeldType, IdleType DEF RunStates
  <2>4. run' = [run EXCEPT ![r] = x]
    BY <1>5 DEF CommitSubTask
  <2>5. subtasks' \subseteq Ranges
    BY <2>1, <2>2, HeldType
  <2>6. task' \in [Tasks -> Rows]
    <3> DEFINE row == [task[s.task] EXCEPT !.latestCrawlTime = RangeEnd(r),
                                           !.nextRunAt = run[r].now + Interval]
    <3>1. RangeEnd(r) \in Nat /\ run[r].now + Interval \in Nat
      BY RunType, SearchTaskAssumption DEF RangeEnd
    <3>2. s.task \in Tasks
      BY <2>2, HeldType
    <3>3. task[s.task] \in Rows
      BY <3>2
    <3>4. row \in Rows
      BY <3>1, <3>3 DEF Rows, Time
    <3>5. task' = [task EXCEPT ![s.task] = row]
      BY <2>1
    <3> HIDE DEF row
    <3> QED
      BY <3>2, <3>4, <3>5
  <2> HIDE DEF x
  <2> QED
    BY <1>5, <2>3, <2>4, <2>5, <2>6, RunTypeStep DEF CommitSubTask, RunStates
<1> QED
  BY <1>1, <1>2, <1>3, <1>4, <1>5 DEF Execute

(* What the calls of the API have in common. *)
LEMMA ApiFrame ==
  ASSUME TypeOK, clock' = clock, run' = run, up' = up, asked' = asked,
         faults' = faults, raced' = raced,
         requests' = requests \/ requests' = requests + 1,
         task' \in [Tasks -> Rows], subtasks' \subseteq subtasks, edits' \subseteq Edits
  PROVE  TypeOK'
BY DEF TypeOK

LEMMA ApiTypeStep ==
  ASSUME TypeOK, Api
  PROVE  TypeOK'
<1>1. CASE \E t \in Tasks : Create(t) \/ Delete(t) \/ Pause(t) \/ Resume(t)
  <2>1. PICK t \in Tasks : Create(t) \/ Delete(t) \/ Pause(t) \/ Resume(t)
    BY <1>1
  <2>2. task' \in [Tasks -> Rows]
    <3>1. CASE Create(t)
      BY <3>1, NewRowType DEF Create, TypeOK, Time
    <3>2. CASE Delete(t)
      BY <3>2, NewRowType DEF Delete, TypeOK
    <3>3. CASE Pause(t)
      BY <3>3 DEF Pause, TypeOK, Rows
    <3>4. CASE Resume(t)
      BY <3>4 DEF Resume, TypeOK, Rows, Time
    <3> QED
      BY <2>1, <3>1, <3>2, <3>3, <3>4
  <2>3. edits' = edits /\ edits \subseteq Edits /\ subtasks' \subseteq subtasks
    BY <2>1 DEF Create, Delete, Pause, Resume, Apart, TypeOK
  <2>4. /\ clock' = clock /\ run' = run /\ up' = up /\ asked' = asked
        /\ faults' = faults /\ raced' = raced /\ requests' = requests + 1
    BY <2>1 DEF Create, Delete, Pause, Resume, Apart, Request
  <2> QED
    BY <2>2, <2>3, <2>4, ApiFrame
<1>2. CASE \E t \in Tasks, enabled \in BOOLEAN : Update(t, enabled)
  <2>1. PICK t \in Tasks, enabled \in BOOLEAN : Update(t, enabled)
    BY <1>2
  <2>2. [task |-> t, enabled |-> enabled, nextRunAt |-> task[t].nextRunAt] \in Edits
    BY RowType DEF Edits, Time
  <2>3. edits' \subseteq Edits
    BY <2>1, <2>2 DEF Update, TypeOK
  <2> QED
    BY <2>1, <2>3, ApiFrame DEF Update, Apart, Request, TypeOK
<1>3. CASE \E e \in edits : FinishUpdate(e)
  <2>1. PICK e \in edits : FinishUpdate(e)
    BY <1>3
  <2>2. e.task \in Tasks /\ e.enabled \in BOOLEAN
    BY DEF Edits, TypeOK
  <2>3. task' \in [Tasks -> Rows]
    <3> DEFINE n == IF e.enabled /\ e.nextRunAt = NULL THEN clock ELSE task[e.task].nextRunAt
               x == [task[e.task] EXCEPT !.enabled = e.enabled, !.nextRunAt = n]
    <3>1. n \in Nat \cup {NULL}
      BY <2>2, RowType DEF TypeOK, Time
    <3>2. x \in Rows
      <4>1. task[e.task] \in Rows
        BY <2>2 DEF TypeOK
      <4> HIDE DEF n
      <4> QED
        BY <2>2, <3>1, <4>1 DEF Rows, Time
    <3>3. task' = IF Live(e.task) THEN [task EXCEPT ![e.task] = x] ELSE task
      BY <2>1 DEF FinishUpdate
    <3> QED
      BY <2>2, <3>2, <3>3 DEF TypeOK
  <2> QED
    BY <2>1, <2>3, ApiFrame DEF FinishUpdate, Apart, TypeOK
<1>4. CASE PauseAll \/ ResumeAll
  <2>1. task' \in [Tasks -> Rows]
    <3>1. ASSUME NEW t \in Tasks
          PROVE  /\ [task[t] EXCEPT !.enabled = FALSE] \in Rows
                 /\ [task[t] EXCEPT !.enabled = TRUE, !.nextRunAt = clock] \in Rows
      BY DEF TypeOK, Rows, Time
    <3> QED
      BY <1>4, <3>1 DEF PauseAll, ResumeAll, TypeOK
  <2> QED
    BY <1>4, <2>1, ApiFrame DEF PauseAll, ResumeAll, Apart, Request, TypeOK
<1> QED
  BY <1>1, <1>2, <1>3, <1>4 DEF Api

LEMMA TypeStep == TypeOK /\ [Next]_vars => TypeOK'
<1> SUFFICES ASSUME TypeOK, [Next]_vars
             PROVE  TypeOK'
  OBVIOUS
<1>1. CASE Exit
  <2>1. \A r \in Runs : run'[r] = Idle
    BY <1>1 DEF Exit
  <2>2. run' \in [Runs -> RunStates]
    BY <1>1, IdleType DEF Exit
  <2>3. \A r \in Runs : run'[r].todo = {} /\ run'[r].saved = {}
    BY <2>1, IdleType
  <2>4. /\ clock' = clock /\ task' = task /\ subtasks' = subtasks /\ asked' = asked
        /\ edits' = edits /\ requests' = requests /\ raced' = raced
        /\ up' = FALSE /\ faults' = faults + 1
    BY <1>1 DEF Exit, db, Fault
  <2>5. run' \in [Runs -> [at : {"idle", "loading", "looping"}, now : Time,
                           todo : SUBSET Loaded, saved : SUBSET Loaded]]
    BY <2>2 DEF RunStates
  <2>6. faults' \in Nat
    BY <2>4 DEF TypeOK
  <2>9. up' \in BOOLEAN
    BY <2>4
  <2>10. raced' \in BOOLEAN
    BY <2>4 DEF TypeOK
  <2>7. clock' \in Time /\ task' \in [Tasks -> Rows] /\ requests' \in Nat
    BY <2>4 DEF TypeOK
  <2>8. subtasks' \subseteq Ranges /\ asked' \subseteq Ranges /\ edits' \subseteq Edits
    BY <2>4 DEF TypeOK
  <2> QED
    BY <2>3, <2>5, <2>6, <2>7, <2>8, <2>9, <2>10 DEF TypeOK
<1>2. CASE Pass
  BY <1>2 DEF Pass, TypeOK, db, Time
<1>3. CASE UNCHANGED vars
  BY <1>3 DEF vars, db, TypeOK
<1> QED
  BY <1>1, <1>2, <1>3, ExecuteTypeStep, ApiTypeStep DEF Next

-----------------------------------------------------------------------------
(* Users: what a call of the API may do to a row. *)
RowStep(t) ==
  \/ /\ Live(t) /\ Live(t)'
     /\ task'[t].latestCrawlTime = task[t].latestCrawlTime
     /\ task'[t].nextRunAt \in {task[t].nextRunAt, clock}
  \/ ~Live(t) /\ task'[t] = task[t]
  \/ /\ task[t].exists = "no" /\ Live(t)'
     /\ task'[t].latestCrawlTime = NULL
  \/ /\ Live(t) /\ ~Referenced(t) /\ task'[t].exists = "deleted"
     /\ task'[t].latestCrawlTime = NULL
     /\ \A a \in subtasks' : a.task # t

LEMMA ApiRows ==
  ASSUME TypeOK, Api
  PROVE  /\ clock' = clock /\ run' = run /\ asked' = asked /\ raced' = raced
         /\ subtasks' \subseteq subtasks
         /\ \A t \in Tasks : RowStep(t)
<1>1. ASSUME NEW u \in Tasks, Create(u) \/ Delete(u) \/ Pause(u) \/ Resume(u),
             NEW t \in Tasks
      PROVE  RowStep(t)
  <2>1. t # u => task'[t] = task[t]
    BY <1>1 DEF Create, Delete, Pause, Resume, TypeOK
  <2>2. CASE Create(u)
    <3>1. task'[u] = Row("yes", TRUE, clock)
      BY <2>2 DEF Create, TypeOK
    <3> QED
      BY <2>1, <2>2, <3>1, NewRowType DEF RowStep, Live, Row, Create
  <2>3. CASE Delete(u)
    <3>1. task'[u] = Row("deleted", FALSE, NULL)
      BY <2>3 DEF Delete, TypeOK
    <3> QED
      BY <2>1, <2>3, <3>1 DEF RowStep, Live, Row, Delete
  <2>4. CASE Pause(u)
    <3>1. task'[u] = [task[u] EXCEPT !.enabled = FALSE]
      BY <2>4 DEF Pause, TypeOK
    <3> QED
      BY <2>1, <2>4, <3>1 DEF RowStep, Live, Pause, TypeOK, Rows
  <2>5. CASE Resume(u)
    <3>1. task'[u] = [task[u] EXCEPT !.enabled = TRUE, !.nextRunAt = clock]
      BY <2>5 DEF Resume, TypeOK
    <3> QED
      BY <2>1, <2>5, <3>1 DEF RowStep, Live, Resume, TypeOK, Rows
  <2> QED
    BY <1>1, <2>2, <2>3, <2>4, <2>5
<1>2. ASSUME NEW e \in edits, FinishUpdate(e), NEW t \in Tasks
      PROVE  RowStep(t)
  <2> DEFINE n == IF e.enabled /\ e.nextRunAt = NULL THEN clock ELSE task[e.task].nextRunAt
  <2>1. CASE Live(e.task) /\ t = e.task
    <3>1. task' = [task EXCEPT ![e.task] = [task[e.task] EXCEPT !.enabled = e.enabled, !.nextRunAt = n]]
      BY <1>2, <2>1 DEF FinishUpdate
    <3>2. n \in {task[t].nextRunAt, clock}
      BY <2>1
    <3> HIDE DEF n
    <3>3. task'[t] = [task[t] EXCEPT !.enabled = e.enabled, !.nextRunAt = n]
      BY <3>1, <2>1 DEF TypeOK
    <3>4. task[t] \in Rows
      BY DEF TypeOK
    <3>5. /\ task'[t].exists = task[t].exists
          /\ task'[t].latestCrawlTime = task[t].latestCrawlTime
          /\ task'[t].nextRunAt = n
      BY <3>3, <3>4 DEF Rows
    <3> QED
      BY <2>1, <3>2, <3>5 DEF RowStep, Live
  <2>2. CASE ~(Live(e.task) /\ t = e.task)
    <3>1. task'[t] = task[t]
      BY <1>2, <2>2 DEF FinishUpdate, TypeOK
    <3> QED
      BY <3>1 DEF RowStep, Live
  <2> QED
    BY <2>1, <2>2
<1>3. ASSUME PauseAll \/ ResumeAll, NEW t \in Tasks
      PROVE  RowStep(t)
  <2>1. \/ task'[t] = task[t]
        \/ Live(t) /\ task'[t] = [task[t] EXCEPT !.enabled = FALSE]
        \/ Live(t) /\ task'[t] = [task[t] EXCEPT !.enabled = TRUE, !.nextRunAt = clock]
    BY <1>3 DEF PauseAll, ResumeAll
  <2>2. task[t] \in Rows
    BY DEF TypeOK
  <2> QED
    BY <2>1, <2>2 DEF RowStep, Live, Rows
<1>4. ASSUME UNCHANGED task, NEW t \in Tasks
      PROVE  RowStep(t)
  BY <1>4 DEF RowStep, Live
<1>5. \A t \in Tasks : RowStep(t)
  BY <1>1, <1>2, <1>3, <1>4 DEF Api, Update
<1>6. clock' = clock /\ run' = run /\ asked' = asked /\ raced' = raced
  BY DEF Api, Create, Delete, Pause, Resume, PauseAll, ResumeAll, Update, FinishUpdate, Apart
<1>7. subtasks' \subseteq subtasks
  BY DEF Api, Create, Delete, Pause, Resume, PauseAll, ResumeAll, Update, FinishUpdate, Apart
<1> QED
  BY <1>5, <1>6, <1>7

LEMMA ApiInv ==
  ASSUME TaskInv, TypeOK', Api
  PROVE  EndsInv' /\ ClockInv' /\ HeldInv' /\ FreshInv'
<1> USE DEF TaskInv
<1>1. /\ clock' = clock /\ run' = run /\ asked' = asked /\ raced' = raced
      /\ subtasks' \subseteq subtasks
      /\ \A t \in Tasks : RowStep(t)
  BY ApiRows
<1>2. \A r \in Runs : Held(r)' = Held(r) /\ \A s \in Held(r) : s.task \in Tasks
  BY <1>1, HeldType DEF Held
<1>3. \A t \in Tasks : Live(t) /\ Live(t)' => RangeStart(t)' = RangeStart(t)
  BY <1>1 DEF RowStep, Live, RangeStart
<1>4. \A t \in Tasks : Live(t)' /\ ~Live(t) => task[t].exists = "no" /\ RangeStart(t)' = Start
  BY <1>1 DEF RowStep, Live, RangeStart
<1>5. \A t \in Tasks : Live(t) /\ ~Live(t)' => ~Referenced(t) /\ \A a \in subtasks' : a.task # t
  BY <1>1 DEF RowStep, Live
<1>6. EndsInv'
  <2>1. \A t \in Tasks : Coverage!Ends(t)' = Coverage!Ends(t) /\ Start \in Coverage!Ends(t)
    BY <1>1 DEF Coverage!Ends
  <2>2. \A t \in Tasks : Live(t)' => RangeStart(t)' \in Coverage!Ends(t)'
    BY <1>3, <1>4, <2>1 DEF EndsInv
  <2>3. \A r \in Runs : \A s \in Held(r)' : s.from \in Coverage!Ends(s.task)'
    BY <1>2, <2>1 DEF EndsInv
  <2>4. \A r \in Runs : \A s \in run'[r].saved : Range(r, s)' \in asked'
    BY <1>1 DEF EndsInv, Range, RangeEnd
  <2>5. Coverage!NoHole'
    BY <1>1 DEF EndsInv, Coverage!NoHole, Coverage!Covered
  <2> QED
    BY <2>2, <2>3, <2>4, <2>5 DEF EndsInv
<1>7. ClockInv'
  <2>1. \A t \in Tasks : task'[t].latestCrawlTime # NULL =>
          /\ task'[t].latestCrawlTime <= clock'
          /\ task'[t].nextRunAt # NULL
          /\ task'[t].latestCrawlTime <= task'[t].nextRunAt
    <3> SUFFICES ASSUME NEW t \in Tasks, task'[t].latestCrawlTime # NULL
                 PROVE  /\ task'[t].latestCrawlTime <= clock
                        /\ task'[t].nextRunAt # NULL
                        /\ task'[t].latestCrawlTime <= task'[t].nextRunAt
      BY <1>1
    <3>1. \/ task'[t] = task[t]
          \/ /\ task'[t].latestCrawlTime = task[t].latestCrawlTime
             /\ task'[t].nextRunAt \in {task[t].nextRunAt, clock}
      BY <1>1 DEF RowStep
    <3>2. clock \in Nat /\ clock # NULL
      BY DEF TypeOK, Time, NULL
    <3> QED
      BY <3>1, <3>2 DEF ClockInv
  <2> QED
    BY <1>1, <1>2, <2>1 DEF ClockInv
<1>8. HeldInv'
  <2>1. \A r \in Runs : \A s \in run'[r].saved : Live(s.task)'
    <3> SUFFICES ASSUME NEW r \in Runs, NEW s \in run[r].saved
                 PROVE  Live(s.task)'
      BY <1>1
    <3>1. Live(s.task) /\ Referenced(s.task) /\ s.task \in Tasks
      BY <1>2 DEF HeldInv, Referenced, Held
    <3> QED
      BY <1>5, <3>1
  <2>2. \A a \in subtasks' : Live(a.task)'
    <3> SUFFICES ASSUME NEW a \in subtasks'
                 PROVE  Live(a.task)'
      OBVIOUS
    <3>1. Live(a.task) /\ a.task \in Tasks
      BY <1>1, RangeType DEF HeldInv
    <3> QED
      BY <1>5, <3>1
  <2>3. \A r \in Runs : \A s \in Held(r) : task'[s.task].exists # "no"
    <3> SUFFICES ASSUME NEW r \in Runs, NEW s \in Held(r)
                 PROVE  task'[s.task].exists # "no"
      OBVIOUS
    <3>1. task[s.task].exists # "no" /\ s.task \in Tasks
      BY <1>2 DEF HeldInv
    <3> QED
      BY <1>1, <3>1 DEF RowStep, Live
  <2> QED
    BY <1>1, <1>2, <2>1, <2>2, <2>3 DEF HeldInv
<1>9. FreshInv'
  <2> SUFFICES ASSUME ~raced
               PROVE  FreshInv'
    BY <1>1 DEF FreshInv
  <2>1. \A r \in Runs : \A s \in Held(r) : Live(s.task)' => s.from = RangeStart(s.task)'
    <3> SUFFICES ASSUME NEW r \in Runs, NEW s \in Held(r), Live(s.task)'
                 PROVE  s.from = RangeStart(s.task)'
      OBVIOUS
    <3>1. s.task \in Tasks /\ task[s.task].exists # "no"
      BY <1>2 DEF HeldInv
    <3> QED
      BY <1>3, <1>4, <3>1 DEF FreshInv
  <2>2. \A a \in subtasks' : a.to <= RangeStart(a.task)'
    <3> SUFFICES ASSUME NEW a \in subtasks'
                 PROVE  a.to <= RangeStart(a.task)'
      OBVIOUS
    <3>1. Live(a.task) /\ a.task \in Tasks /\ a \in subtasks
      BY <1>1, RangeType DEF HeldInv
    <3> QED
      BY <1>3, <1>5, <3>1 DEF FreshInv
  <2>3. NoOverlap'
    BY <1>1 DEF FreshInv, NoOverlap, Disjoint
  <2> QED
    BY <1>1, <1>2, <2>1, <2>2, <2>3 DEF FreshInv
<1> QED
  BY <1>6, <1>7, <1>8, <1>9

-----------------------------------------------------------------------------
(* Runs that begin or end: StartUp, Tick, TaskGone, StatementFails, Exit. *)
LEMMA EmptyRunsInv ==
  ASSUME TaskInv, clock' = clock, task' = task, subtasks' = subtasks,
         asked' = asked, ~raced' => ~raced,
         \A r \in Runs : run'[r] = run[r]
                        \/ run'[r] = Idle \/ run'[r] = RunAt("loading", clock)
  PROVE  EndsInv' /\ ClockInv' /\ HeldInv' /\ FreshInv'
<1> USE DEF TaskInv
<1>1. ASSUME NEW r \in Runs, run'[r] # run[r]
      PROVE  /\ Held(r)' = {} /\ run'[r].saved = {} /\ run'[r].todo = {}
             /\ run'[r].at # "looping"
             /\ run'[r].at # "idle" => run'[r].now = clock
  BY <1>1 DEF Held, Idle, RunAt
<1>2. \A r \in Runs : run'[r] = run[r] => Held(r)' = Held(r)
  BY DEF Held
<1>3. \A t : /\ Live(t)' = Live(t) /\ RangeStart(t)' = RangeStart(t)
            /\ Coverage!Ends(t)' = Coverage!Ends(t)
  BY DEF Live, RangeStart, Coverage!Ends
<1>4. EndsInv'
  <2>1. Coverage!NoHole'
    BY DEF EndsInv, Coverage!NoHole, Coverage!Covered
  <2>2. \A r \in Runs : \A s \in run'[r].saved : Range(r, s)' \in asked'
    BY <1>1 DEF EndsInv, Range, RangeEnd
  <2> QED
    BY <1>1, <1>2, <1>3, <2>1, <2>2 DEF EndsInv
<1>5. ClockInv'
  <2>1. clock \in Nat /\ Start \in Nat
    BY SearchTaskAssumption DEF TypeOK, Time
  <2> QED
    BY <1>1, <1>2, <2>1 DEF ClockInv
<1>6. HeldInv'
  BY <1>1, <1>2, <1>3 DEF HeldInv
<1>7. FreshInv'
  BY <1>1, <1>2, <1>3 DEF FreshInv, NoOverlap, Disjoint
<1> QED
  BY <1>4, <1>5, <1>6, <1>7

(* The answer of the query: the due rows, each with the range that is due. *)
LEMMA LoadInv ==
  ASSUME TaskInv, NEW r \in Runs, Load(r)
  PROVE  EndsInv' /\ ClockInv' /\ HeldInv' /\ FreshInv'
<1> USE DEF TaskInv
<1> DEFINE due == {t \in Tasks : Due(t, run[r].now)}
           read == {[task |-> t, from |-> RangeStart(t), nextRunAt |-> task[t].nextRunAt] : t \in due}
<1>1. /\ clock' = clock /\ task' = task /\ subtasks' = subtasks /\ asked' = asked
      /\ ~raced' => ~raced /\ \A o \in Runs \ {r} : run[o].at # "looping"
  BY DEF Load, db
<1>2. CASE due = {}
  <2>1. \A o \in Runs : run'[o] = run[o] \/ run'[o] = Idle
    BY <1>2 DEF Load, TypeOK
  <2> QED
    BY <1>1, <2>1, EmptyRunsInv
<1>3. CASE due # {}
  <2>1. /\ run'[r].at = "looping" /\ run'[r].now = run[r].now
        /\ run'[r].todo = read /\ run'[r].saved = {} /\ Held(r)' = read
    <3>1. run' = [run EXCEPT ![r] = [run[r] EXCEPT !.at = "looping", !.todo = read]]
      BY <1>3 DEF Load
    <3>2. run'[r] = [run[r] EXCEPT !.at = "looping", !.todo = read]
      BY <3>1 DEF TypeOK
    <3>3. run[r].saved = {}
      BY RunType DEF Load, Held
    <3> HIDE DEF read
    <3> QED
      BY <3>2, <3>3, RunType DEF Held
  <2>2. \A o \in Runs \ {r} : run'[o] = run[o] /\ Held(o)' = Held(o)
    BY DEF Load, TypeOK, Held
  <2>3. \A s \in read : /\ s.task \in Tasks /\ Due(s.task, run[r].now)
                       /\ s.from = RangeStart(s.task)
    OBVIOUS
  <2>4. \A s, o \in read : s.task = o.task => s = o
    OBVIOUS
  <2> HIDE DEF read, due
  <2>5. \A t : /\ Live(t)' = Live(t) /\ RangeStart(t)' = RangeStart(t)
              /\ Coverage!Ends(t)' = Coverage!Ends(t)
    BY <1>1 DEF Live, RangeStart, Coverage!Ends
  <2>6. \A s \in read : Live(s.task)
    BY <2>3 DEF Due
  <2>7. \A s \in read : s.from <= run[r].now
    <3> SUFFICES ASSUME NEW s \in read
                 PROVE  RangeStart(s.task) <= run[r].now
      BY <2>3
    <3>1. s.task \in Tasks /\ task[s.task].nextRunAt <= run[r].now
      BY <2>3 DEF Due
    <3>2. Start <= run[r].now
      BY DEF Load, ClockInv
    <3>3. run[r].now \in Nat
      BY RunType
    <3>4. CASE task[s.task].latestCrawlTime = NULL
      BY <3>2, <3>4 DEF RangeStart
    <3>5. CASE task[s.task].latestCrawlTime # NULL
      <4>1. /\ task[s.task].nextRunAt # NULL
            /\ task[s.task].latestCrawlTime <= task[s.task].nextRunAt
        BY <3>1, <3>5 DEF ClockInv
      <4>2. task[s.task].latestCrawlTime \in Nat /\ task[s.task].nextRunAt \in Nat
        BY <3>1, <3>5, <4>1, RowType
      <4>3. RangeStart(s.task) = task[s.task].latestCrawlTime
        BY <3>5 DEF RangeStart
      <4> QED
        BY <3>1, <3>3, <4>1, <4>2, <4>3
    <3> QED
      BY <3>4, <3>5
  <2>8. EndsInv'
    <3>1. Coverage!NoHole'
      BY <1>1 DEF EndsInv, Coverage!NoHole, Coverage!Covered
    <3>2. \A o \in Runs : \A s \in Held(o)' : s.from \in Coverage!Ends(s.task)'
      BY <2>1, <2>2, <2>3, <2>5, <2>6 DEF EndsInv
    <3>3. \A o \in Runs : \A s \in run'[o].saved : Range(o, s)' \in asked'
      BY <1>1, <2>1, <2>2 DEF EndsInv, Range, RangeEnd
    <3> QED
      BY <1>1, <2>5, <3>1, <3>2, <3>3 DEF EndsInv
  <2>9. ClockInv'
    <3>1. Start <= run[r].now /\ run[r].now <= clock
      BY DEF Load, ClockInv
    <3> QED
      BY <1>1, <2>1, <2>2, <2>7, <3>1 DEF ClockInv
  <2>10. HeldInv'
    <3>1. \A s \in read : task'[s.task].exists # "no"
      BY <1>1, <2>6 DEF Live
    <3> QED
      BY <1>1, <2>1, <2>2, <2>4, <2>5, <3>1 DEF HeldInv
  <2>11. FreshInv'
    BY <1>1, <2>1, <2>2, <2>3, <2>5 DEF FreshInv, NoOverlap, Disjoint
  <2> QED
    BY <2>8, <2>9, <2>10, <2>11
<1> QED
  BY <1>2, <1>3

(* A new request begins where an earlier one ended. *)
LEMMA SaveInv ==
  ASSUME TaskInv, NEW r \in Runs, SaveSubTask(r)
  PROVE  EndsInv' /\ ClockInv' /\ HeldInv' /\ FreshInv'
<1> USE DEF TaskInv
<1>1. PICK s \in First(r) : SaveSubTask(r)!2!(s)
  BY DEF SaveSubTask
<1>2. /\ clock' = clock /\ task' = task /\ subtasks' = subtasks /\ raced' = raced
  BY DEF SaveSubTask, db
<1>3. s \in run[r].todo /\ s \in Held(r) /\ run[r].saved = {} /\ run[r].at = "looping"
  BY DEF First, Held, SaveSubTask
<1>4. /\ run'[r].at = run[r].at /\ run'[r].now = run[r].now
      /\ run'[r].todo = run[r].todo \ {s} /\ run'[r].saved = {s} /\ Held(r)' = Held(r)
  <2> DEFINE x == [run[r] EXCEPT !.todo = @ \ {s}, !.saved = {s}]
  <2>1. run'[r] = x
    BY <1>1 DEF TypeOK
  <2>2. x.at = run[r].at /\ x.now = run[r].now /\ x.todo = run[r].todo \ {s} /\ x.saved = {s}
    BY RunType
  <2> HIDE DEF x
  <2> QED
    BY <1>3, <2>1, <2>2 DEF Held
<1>5. \A o \in Runs \ {r} : run'[o] = run[o] /\ Held(o)' = Held(o)
  BY <1>1 DEF TypeOK, Held
<1>6. \A t : Live(t)' = Live(t) /\ RangeStart(t)' = RangeStart(t)
  BY <1>2 DEF Live, RangeStart
<1>7. asked' = asked \cup {Range(r, s)}
  BY <1>1
<1>8. \A t : Coverage!Ends(t) \subseteq Coverage!Ends(t)'
  BY <1>7 DEF Coverage!Ends
<1>9. EndsInv'
  <2>1. s.from \in Coverage!Ends(s.task) /\ s.from \in Nat /\ s.task \in Tasks
    BY <1>3, HeldType DEF EndsInv
  <2>2. Coverage!NoHole'
    <3> SUFFICES ASSUME NEW m \in asked', NEW i \in Start .. (m.to - 1)
                 PROVE  \E q \in asked' : q.task = m.task /\ q.from <= i /\ i < q.to
      BY DEF Coverage!NoHole, Coverage!Covered
    <3>1. CASE m \in asked
      BY <1>7, <3>1 DEF EndsInv, Coverage!NoHole, Coverage!Covered
    <3>2. CASE m = Range(r, s)
      <4>1. m.task = s.task /\ m.from = s.from /\ m.to = run[r].now /\ m \in asked'
        BY <1>7, <3>2 DEF Range, RangeEnd
      <4>2. i \in Int /\ Start <= i /\ i < m.to
        <5>1. run[r].now \in Nat /\ Start \in Nat
          BY RunType, SearchTaskAssumption
        <5> QED
          BY <4>1, <5>1
      <4>3. CASE s.from <= i
        BY <4>1, <4>2, <4>3
      <4>4. CASE i < s.from
        <5>1. PICK q \in asked : q.task = s.task /\ q.to = s.from
          BY <2>1, <4>2, <4>4, SearchTaskAssumption DEF Coverage!Ends
        <5>2. i \in Start .. (q.to - 1)
          BY <2>1, <4>2, <4>4, <5>1, SearchTaskAssumption
        <5> QED
          BY <1>7, <4>1, <5>1, <5>2 DEF EndsInv, Coverage!NoHole, Coverage!Covered
      <4> QED
        BY <2>1, <4>2, <4>3, <4>4
    <3> QED
      BY <1>7, <3>1, <3>2
  <2>3. \A o \in Runs : \A x \in Held(o)' : x.from \in Coverage!Ends(x.task)'
    BY <1>4, <1>5, <1>8 DEF EndsInv
  <2>4. \A o \in Runs : \A x \in run'[o].saved : Range(o, x)' \in asked'
    BY <1>4, <1>5, <1>7 DEF EndsInv, Range, RangeEnd
  <2> QED
    BY <1>6, <1>8, <2>2, <2>3, <2>4 DEF EndsInv
<1>10. ClockInv'
  BY <1>2, <1>4, <1>5 DEF ClockInv
<1>11. HeldInv'
  <2>1. Live(s.task)
    BY <1>1
  <2> QED
    BY <1>2, <1>4, <1>5, <1>6, <2>1 DEF HeldInv
<1>12. FreshInv'
  BY <1>2, <1>4, <1>5, <1>6 DEF FreshInv, NoOverlap, Disjoint
<1> QED
  BY <1>9, <1>10, <1>11, <1>12

(* A served row moves to the end of its range, which has been asked for. *)
LEMMA CommitInv ==
  ASSUME TaskInv, NEW r \in Runs, CommitSubTask(r)
  PROVE  EndsInv' /\ ClockInv' /\ HeldInv' /\ FreshInv'
<1> USE DEF TaskInv
<1> DEFINE n == run[r].now
<1>1. PICK s \in run[r].saved : CommitSubTask(r)!1!(s)
  BY DEF CommitSubTask
<1>2. clock' = clock /\ asked' = asked /\ raced' = raced
  BY DEF CommitSubTask
<1>3. /\ s \in Held(r) /\ s.task \in Tasks /\ s.from \in Nat /\ n \in Nat
      /\ run[r].at = "looping" /\ Live(s.task) /\ s.from <= n /\ Start <= n /\ n <= clock
  <2>1. s \in Held(r)
    BY DEF Held
  <2>2. run[r].at = "looping"
    BY <2>1, HeldType
  <2> QED
    BY <2>1, <2>2, HeldType, RunType DEF HeldInv, ClockInv
<1>4. /\ run'[r].saved = {} /\ run'[r].todo = run[r].todo
      /\ run'[r].at # "idle" => run'[r].at = run[r].at /\ run'[r].now = n
  <2> DEFINE x == IF run[r].todo = {} THEN Idle ELSE [run[r] EXCEPT !.saved = {}]
  <2>1. run'[r] = x
    BY DEF CommitSubTask, TypeOK
  <2>2. CASE run[r].todo = {}
    BY <2>1, <2>2, IdleType
  <2>3. CASE run[r].todo # {}
    BY <2>1, <2>3, RunType
  <2> QED
    BY <2>2, <2>3
<1>5. Held(r)' \subseteq Held(r) \ {s} /\ \A x \in Held(r)' : x.task # s.task
  BY <1>3, <1>4 DEF Held, HeldInv
<1>6. \A o \in Runs \ {r} : run'[o] = run[o] /\ Held(o)' = Held(o)
  BY DEF CommitSubTask, TypeOK, Held
<1>7. /\ task'[s.task].latestCrawlTime = n /\ task'[s.task].nextRunAt = n + Interval
      /\ task'[s.task].exists = task[s.task].exists
  <2>1. task[s.task] \in Rows
    BY <1>3 DEF TypeOK
  <2>2. task'[s.task] = [task[s.task] EXCEPT !.latestCrawlTime = n, !.nextRunAt = n + Interval]
    BY <1>1, <1>3 DEF TypeOK, RangeEnd
  <2> QED
    BY <2>1, <2>2 DEF Rows
<1>8. \A t \in Tasks \ {s.task} : task'[t] = task[t]
  BY <1>1 DEF TypeOK
<1>9. subtasks' = subtasks \cup {Range(r, s)}
  BY <1>1
<1>10. /\ \A t \in Tasks : Live(t)' = Live(t) /\ Coverage!Ends(t)' = Coverage!Ends(t)
       /\ \A t \in Tasks \ {s.task} : RangeStart(t)' = RangeStart(t)
       /\ RangeStart(s.task)' = n
  <2>1. n # NULL
    BY <1>3 DEF NULL
  <2> QED
    BY <1>2, <1>7, <1>8, <2>1 DEF Live, RangeStart, Coverage!Ends
<1>11. Range(r, s).task = s.task /\ Range(r, s).from = s.from /\ Range(r, s).to = n
  BY DEF Range, RangeEnd
<1>12. EndsInv'
  <2>1. n \in Coverage!Ends(s.task)
    BY <1>11 DEF EndsInv, Coverage!Ends
  <2>2. Coverage!NoHole'
    BY <1>2 DEF EndsInv, Coverage!NoHole, Coverage!Covered
  <2>3. \A o \in Runs : \A x \in Held(o)' : x.from \in Coverage!Ends(x.task)'
    BY <1>5, <1>6, <1>10, HeldType DEF EndsInv
  <2>4. \A o \in Runs : \A x \in run'[o].saved : Range(o, x)' \in asked'
    BY <1>2, <1>4, <1>6 DEF EndsInv, Range, RangeEnd
  <2>5. \A t \in Tasks : Live(t)' => RangeStart(t)' \in Coverage!Ends(t)'
    BY <1>10, <2>1 DEF EndsInv
  <2> QED
    BY <2>2, <2>3, <2>4, <2>5 DEF EndsInv
<1>13. ClockInv'
  <2>1. n + Interval # NULL /\ n <= n + Interval
    BY <1>3, SearchTaskAssumption DEF NULL
  <2>2. \A t \in Tasks : task'[t].latestCrawlTime # NULL =>
          /\ task'[t].latestCrawlTime <= clock
          /\ task'[t].nextRunAt # NULL
          /\ task'[t].latestCrawlTime <= task'[t].nextRunAt
    BY <1>3, <1>7, <1>8, <2>1 DEF ClockInv
  <2>3. \A o \in Runs : run'[o].at # "idle" => Start <= run'[o].now /\ run'[o].now <= clock
    BY <1>3, <1>4, <1>6 DEF ClockInv
  <2>4. \A o \in Runs : \A x \in Held(o)' : x.from <= run'[o].now
    <3> SUFFICES ASSUME NEW o \in Runs, NEW x \in Held(o)'
                 PROVE  x.from <= run'[o].now
      OBVIOUS
    <3>1. CASE o = r
      <4>1. x \in Held(r) /\ run[r].todo # {}
        BY <1>4, <1>5, <3>1 DEF Held
      <4>2. run'[r].now = n
        BY <4>1, RunType DEF CommitSubTask, TypeOK
      <4> QED
        BY <3>1, <4>1, <4>2 DEF ClockInv
    <3>2. CASE o # r
      BY <1>6, <3>2 DEF ClockInv
    <3> QED
      BY <3>1, <3>2
  <2> QED
    BY <1>2, <2>2, <2>3, <2>4 DEF ClockInv
<1>14. HeldInv'
  <2>1. \A t \in Tasks : task'[t].exists = task[t].exists
    BY <1>7, <1>8
  <2>2. \A o \in Runs : \A x \in Held(o)' : x \in Held(o) /\ x.task \in Tasks
    BY <1>5, <1>6, HeldType
  <2>3. \A a \in subtasks' : Live(a.task)'
    BY <1>3, <1>9, <1>10, <1>11, RangeType DEF HeldInv
  <2>4. \A o \in Runs : \A x \in run'[o].saved : Live(x.task)'
    BY <1>4, <1>6, <1>10, <2>2 DEF HeldInv, Held
  <2>5. \A o \in Runs : run'[o].todo \cap run'[o].saved = {}
    BY <1>4, <1>6 DEF HeldInv
  <2>6. \A o \in Runs : \A x, y \in Held(o)' : x.task = y.task => x = y
    BY <2>2 DEF HeldInv
  <2>7. \A o \in Runs : \A x \in Held(o)' : task'[x.task].exists # "no"
    BY <2>1, <2>2 DEF HeldInv
  <2> QED
    BY <2>3, <2>4, <2>5, <2>6, <2>7 DEF HeldInv
<1>15. FreshInv'
  <2> SUFFICES ASSUME ~raced
               PROVE  FreshInv'
    BY <1>2 DEF FreshInv
  <2>1. \A o \in Runs : run'[o].at = "looping" => run[o].at = "looping"
    BY <1>4, <1>6
  <2>2. \A o \in Runs \ {r} : Held(o)' = {}
    BY <1>3, <1>6, RunType DEF FreshInv
  <2>3. s.from = RangeStart(s.task)
    BY <1>3 DEF FreshInv
  <2>4. \A o \in Runs : \A x \in Held(o)' : Live(x.task)' => x.from = RangeStart(x.task)'
    BY <1>5, <1>10, <2>2, HeldType DEF FreshInv
  <2>5. \A a \in subtasks : a.task = s.task => a.to <= s.from
    BY <2>3 DEF FreshInv
  <2>6. \A a \in subtasks' : a.to <= RangeStart(a.task)'
    <3> SUFFICES ASSUME NEW a \in subtasks'
                 PROVE  a.to <= RangeStart(a.task)'
      OBVIOUS
    <3>1. CASE a = Range(r, s)
      BY <1>3, <1>10, <1>11, <3>1
    <3>2. CASE a \in subtasks /\ a.task = s.task
      <4>1. a.to \in Nat /\ a.to <= s.from
        BY <2>5, <3>2, RangeType
      <4> QED
        BY <1>3, <1>10, <3>2, <4>1
    <3>3. CASE a \in subtasks /\ a.task # s.task
      BY <1>10, <3>3, RangeType DEF FreshInv
    <3> QED
      BY <1>9, <3>1, <3>2, <3>3
  <2>7. NoOverlap'
    <3> SUFFICES ASSUME NEW a \in subtasks', NEW b \in subtasks', a # b, a.task = b.task
                 PROVE  a.to <= b.from \/ b.to <= a.from
      BY DEF NoOverlap, Disjoint
    <3>1. CASE a \in subtasks /\ b \in subtasks
      BY <3>1 DEF FreshInv, NoOverlap, Disjoint
    <3>2. CASE a = Range(r, s)
      BY <1>9, <1>11, <2>5, <3>2
    <3>3. CASE b = Range(r, s)
      BY <1>9, <1>11, <2>5, <3>3
    <3> QED
      BY <1>9, <3>1, <3>2, <3>3
  <2>8. \A o, q \in Runs : run'[o].at = "looping" /\ run'[q].at = "looping" => o = q
    BY <2>1 DEF FreshInv
  <2> QED
    BY <2>4, <2>6, <2>7, <2>8 DEF FreshInv
<1> QED
  BY <1>12, <1>13, <1>14, <1>15

(* Time passes. *)
LEMMA PassInv ==
  ASSUME TaskInv, Pass
  PROVE  EndsInv' /\ ClockInv' /\ HeldInv' /\ FreshInv'
<1> USE DEF TaskInv
<1>1. /\ clock' = clock + 1 /\ clock \in Nat /\ run' = run /\ asked' = asked /\ raced' = raced
      /\ task' = task /\ subtasks' = subtasks
  BY DEF Pass, db, TypeOK, Time
<1>2. \A r : Held(r)' = Held(r) /\ \A s : Range(r, s)' = Range(r, s)
  BY <1>1 DEF Held, Range, RangeEnd
<1>3. \A t : /\ Live(t)' = Live(t) /\ RangeStart(t)' = RangeStart(t)
            /\ Coverage!Ends(t)' = Coverage!Ends(t)
  BY <1>1 DEF Live, RangeStart, Coverage!Ends
<1>4. EndsInv'
  <2>1. Coverage!NoHole'
    BY <1>1 DEF EndsInv, Coverage!NoHole, Coverage!Covered
  <2> QED
    BY <1>1, <1>2, <1>3, <2>1 DEF EndsInv
<1>5. ClockInv'
  <2>1. Start <= clock + 1
    BY <1>1, SearchTaskAssumption DEF ClockInv
  <2>2. \A r \in Runs : run[r].at # "idle" => Start <= run[r].now /\ run[r].now <= clock + 1
    <3> SUFFICES ASSUME NEW r \in Runs, run[r].at # "idle"
                 PROVE  Start <= run[r].now /\ run[r].now <= clock + 1
      OBVIOUS
    <3>1. run[r].now \in Nat
      BY RunType
    <3> QED
      BY <1>1, <3>1 DEF ClockInv
  <2>3. \A t \in Tasks : task[t].latestCrawlTime # NULL =>
          /\ task[t].latestCrawlTime <= clock + 1
          /\ task[t].nextRunAt # NULL
          /\ task[t].latestCrawlTime <= task[t].nextRunAt
    <3> SUFFICES ASSUME NEW t \in Tasks, task[t].latestCrawlTime # NULL
                 PROVE  /\ task[t].latestCrawlTime <= clock + 1
                        /\ task[t].nextRunAt # NULL
                        /\ task[t].latestCrawlTime <= task[t].nextRunAt
      OBVIOUS
    <3>1. task[t].latestCrawlTime \in Nat
      BY RowType
    <3>2. task[t].latestCrawlTime <= clock
      BY DEF ClockInv
    <3> QED
      BY <1>1, <3>1, <3>2 DEF ClockInv
  <2> QED
    BY <1>1, <1>2, <2>1, <2>2, <2>3 DEF ClockInv
<1>6. HeldInv'
  BY <1>1, <1>2, <1>3 DEF HeldInv
<1>7. FreshInv'
  BY <1>1, <1>2, <1>3 DEF FreshInv, NoOverlap, Disjoint
<1> QED
  BY <1>4, <1>5, <1>6, <1>7

-----------------------------------------------------------------------------
LEMMA TaskInvInit == Init => TaskInv
<1> SUFFICES ASSUME Init
             PROVE  TaskInv
  OBVIOUS
<1>1. \A r \in Runs : run[r] = Idle /\ Held(r) = {}
  BY IdleType DEF Init, Held
<1>2. \A t \in Tasks : task[t] \in Rows /\ task[t].latestCrawlTime = NULL
  <2>1. ASSUME NEW t \in Tasks
        PROVE  task[t] = Row("no", FALSE, NULL) \/ task[t] = Row("yes", TRUE, NULL)
    <3> DEFINE none == Row("no", FALSE, NULL)
               new  == Row("yes", TRUE, NULL)
    <3>1. task \in [Tasks -> {none, new}]
      BY DEF Init
    <3> HIDE DEF none, new
    <3>2. task[t] = none \/ task[t] = new
      BY <3>1
    <3> QED
      BY <3>2 DEF none, new
  <2>2. /\ Row("no", FALSE, NULL) \in Rows /\ Row("yes", TRUE, NULL) \in Rows
        /\ Row("no", FALSE, NULL).latestCrawlTime = NULL
        /\ Row("yes", TRUE, NULL).latestCrawlTime = NULL
    BY DEF Row, Rows
  <2> QED
    BY <2>1, <2>2, Zenon
<1>3. TypeOK
  <2>1. clock \in Time /\ subtasks = {} /\ asked = {} /\ edits = {} /\ up = FALSE /\ raced = FALSE
    BY SearchTaskAssumption DEF Init, Time
  <2>2. task \in [Tasks -> Rows]
    BY <1>2 DEF Init
  <2>3. run \in [Runs -> RunStates]
    BY IdleType DEF Init
  <2>4. \A r \in Runs : run[r].todo = {} /\ run[r].saved = {}
    BY <1>1, IdleType
  <2>5. faults \in Nat /\ requests \in Nat
    BY DEF Init
  <2> QED
    BY <2>1, <2>2, <2>3, <2>4, <2>5 DEF TypeOK, RunStates
<1>4. EndsInv
  BY <1>1, <1>2, IdleType DEF Init, EndsInv, RangeStart, Coverage!Ends, Coverage!NoHole
<1>5. ClockInv
  <2>1. Start <= clock
    BY SearchTaskAssumption DEF Init
  <2> QED
    BY <1>1, <1>2, <2>1, IdleType DEF ClockInv
<1>6. HeldInv
  BY <1>1, IdleType DEF Init, HeldInv
<1>7. FreshInv
  BY <1>1, IdleType DEF Init, FreshInv, NoOverlap
<1> QED
  BY <1>3, <1>4, <1>5, <1>6, <1>7 DEF TaskInv

LEMMA TaskInvStep == TaskInv /\ [Next]_vars => TaskInv'
<1> SUFFICES ASSUME TaskInv, [Next]_vars
             PROVE  TaskInv'
  OBVIOUS
<1>1. TypeOK'
  BY TypeStep DEF TaskInv
<1>2. ASSUME NEW r \in Runs, StartUp(r) \/ Tick(r) \/ TaskGone(r) \/ StatementFails(r)
      PROVE  EndsInv' /\ ClockInv' /\ HeldInv' /\ FreshInv'
  <2>1. \A o \in Runs : \/ run'[o] = run[o]
                        \/ run'[o] = Idle \/ run'[o] = RunAt("loading", clock)
    BY <1>2 DEF StartUp, Tick, TaskGone, StatementFails, TaskInv, TypeOK
  <2>2. /\ clock' = clock /\ task' = task /\ subtasks' = subtasks /\ asked' = asked
        /\ raced' = raced
    BY <1>2 DEF StartUp, Tick, TaskGone, StatementFails, db
  <2> QED
    BY <2>1, <2>2, EmptyRunsInv
<1>3. CASE Exit \/ UNCHANGED vars
  <2>1. \A o \in Runs : run'[o] = run[o] \/ run'[o] = Idle
    BY <1>3 DEF Exit, vars
  <2>2. /\ clock' = clock /\ task' = task /\ subtasks' = subtasks /\ asked' = asked
        /\ raced' = raced
    BY <1>3 DEF Exit, vars, db
  <2> QED
    BY <1>1, <2>1, <2>2, EmptyRunsInv DEF TaskInv
<1>4. ASSUME NEW r \in Runs, Load(r) \/ SaveSubTask(r) \/ CommitSubTask(r)
      PROVE  EndsInv' /\ ClockInv' /\ HeldInv' /\ FreshInv'
  BY <1>4, LoadInv, SaveInv, CommitInv
<1>5. CASE Api
  BY <1>1, <1>5, ApiInv DEF TaskInv
<1>6. CASE Pass
  BY <1>1, <1>6, PassInv DEF TaskInv
<1> QED
  BY <1>1, <1>2, <1>3, <1>4, <1>5, <1>6 DEF Next, Execute, TaskInv

LEMMA TaskInvariant == Spec => []TaskInv
BY TaskInvInit, TaskInvStep, PTL DEF Spec

-----------------------------------------------------------------------------
(* Theorems *)

\* Every variable stays within its type, and only a run inside the loop of
\* execute() holds rows.
THEOREM SearchTaskTypeCorrect == Spec => []TypeOK
<1>1. TaskInv => TypeOK
  BY DEF TaskInv
<1> QED
  BY <1>1, TaskInvariant, PTL

\* The time up to a task's latestCrawlTime has been asked for without a gap,
\* whatever executes overlap, statements fail, processes exit and users do.
THEOREM SearchTaskNoHole == Spec => []NoHole
<1>1. TaskInv => NoHole
  <2> SUFFICES ASSUME TaskInv, NEW t \in Tasks, Live(t), NEW i \in Start .. (RangeStart(t) - 1)
               PROVE  \E m \in asked : m.task = t /\ m.from <= i /\ i < m.to
    BY DEF NoHole
  <2>1. RangeStart(t) \in Nat /\ Start \in Nat /\ RangeStart(t) \in Coverage!Ends(t)
    BY RowType, SearchTaskAssumption DEF TaskInv, EndsInv
  <2>2. RangeStart(t) # Start
    BY <2>1
  <2>3. PICK q \in asked : q.task = t /\ q.to = RangeStart(t)
    BY <2>1, <2>2 DEF Coverage!Ends
  <2> QED
    BY <2>3 DEF TaskInv, EndsInv, Coverage!NoHole, Coverage!Covered
<1> QED
  BY <1>1, TaskInvariant, PTL

\* Executes that do not overlap never crawl a time of a task twice.
THEOREM SearchTaskNoOverlap == Spec => []NoOverlapUnlessRaced
<1>1. TaskInv => NoOverlapUnlessRaced
  BY DEF TaskInv, FreshInv, NoOverlapUnlessRaced
<1> QED
  BY <1>1, TaskInvariant, PTL

\* Each request the scheduler makes is one that CrawlCoverage allows.
THEOREM SearchTaskImplementsCoverage == Spec => ImplementsCoverage
<1>1. Init => asked = {}
  BY DEF Init
<1>2. ASSUME TaskInv, [Next]_vars
      PROVE  [Coverage!Next]_asked
  <2>1. ASSUME NEW r \in Runs, SaveSubTask(r)
        PROVE  [Coverage!Next]_asked
    <3>1. PICK s \in First(r) : SaveSubTask(r)!2!(s)
      BY <2>1 DEF SaveSubTask
    <3> DEFINE m == Range(r, s)
    <3>2. s \in Held(r)
      BY DEF First, Held
    <3>3. s.from \in Coverage!Ends(s.task) /\ s.task \in Tasks /\ run[r].now \in Nat
      BY <1>2, <3>2, HeldType, RunType DEF TaskInv, EndsInv
    <3>4. m.task = s.task /\ m.from = s.from /\ m.to = run[r].now
      BY DEF Range, RangeEnd
    <3>5. asked' = asked \cup {m}
      BY <3>1
    <3> HIDE DEF m
    <3> QED
      BY <3>3, <3>4, <3>5 DEF Coverage!Next, Coverage!Ask
  <2>2. \/ \E r \in Runs : SaveSubTask(r)
        \/ UNCHANGED asked
    <3>1. Api => UNCHANGED asked
      BY DEF Api, Create, Delete, Pause, Resume, PauseAll, ResumeAll, Update, FinishUpdate, Apart
    <3> QED
      BY <1>2, <3>1 DEF Next, Execute, StartUp, Tick, Load, TaskGone, CommitSubTask,
                        StatementFails, Exit, Pass, vars
  <2> QED
    BY <2>1, <2>2
<1> QED
  BY <1>1, <1>2, TaskInvariant, PTL DEF Spec, ImplementsCoverage, Coverage!Spec

\* A run serves only what was due when it began.
DueInv == \A r \in Runs : \A s \in Held(r) : s.nextRunAt <= run[r].now

LEMMA DueInvStep == TypeOK /\ DueInv /\ [Next]_vars => DueInv'
<1> SUFFICES ASSUME TypeOK, DueInv, [Next]_vars,
                    NEW r \in Runs, NEW s \in Held(r)'
             PROVE  s.nextRunAt <= run'[r].now
  BY DEF DueInv
<1>1. run'[r].at = "looping"
  BY TypeStep, RunType DEF Held, TypeOK
<1>2. CASE run'[r] = run[r]
  BY <1>2 DEF Held, DueInv
<1>3. CASE Load(r)
  <2> DEFINE due == {t \in Tasks : Due(t, run[r].now)}
             read == {[task |-> t, from |-> RangeStart(t), nextRunAt |-> task[t].nextRunAt] : t \in due}
             x == [run[r] EXCEPT !.at = "looping", !.todo = read]
  <2>1. run'[r] = IF due = {} THEN Idle ELSE x
    BY <1>3 DEF Load, TypeOK
  <2>2. run'[r] = x
    BY <1>1, <2>1, IdleType
  <2>3. run'[r].todo = read /\ run'[r].saved = run[r].saved /\ run'[r].now = run[r].now
    BY <2>2, RunType
  <2>4. run[r].saved = {}
    BY <1>3, RunType DEF Load, Held
  <2>5. PICK t \in due : s.nextRunAt = task[t].nextRunAt
    BY <2>3, <2>4 DEF Held
  <2> QED
    BY <2>3, <2>5 DEF Due
<1>4. CASE SaveSubTask(r)
  <2>1. PICK o \in First(r) : SaveSubTask(r)!2!(o)
    BY <1>4 DEF SaveSubTask
  <2>2. run'[r] = [run[r] EXCEPT !.todo = @ \ {o}, !.saved = {o}]
    BY <2>1 DEF TypeOK
  <2>3. run'[r].now = run[r].now /\ s \in Held(r)
    BY <2>2, RunType DEF First, Held
  <2> QED
    BY <2>3 DEF DueInv
<1>5. CASE CommitSubTask(r)
  <2>1. run'[r] = IF run[r].todo = {} THEN Idle ELSE [run[r] EXCEPT !.saved = {}]
    BY <1>5 DEF CommitSubTask, TypeOK
  <2>2. run'[r] = [run[r] EXCEPT !.saved = {}]
    BY <1>1, <2>1, IdleType
  <2>3. run'[r].now = run[r].now /\ s \in Held(r)
    BY <2>2, RunType DEF Held
  <2> QED
    BY <2>3 DEF DueInv
<1>6. \/ run'[r] = run[r] \/ Load(r) \/ SaveSubTask(r) \/ CommitSubTask(r)
  <2>1. ASSUME NEW o \in Runs, StartUp(o) \/ Tick(o) \/ TaskGone(o) \/ StatementFails(o)
        PROVE  run'[r] = run[r]
    <3>1. \/ run'[r] = run[r]
          \/ run'[r] = Idle \/ run'[r] = RunAt("loading", clock)
      BY <2>1 DEF StartUp, Tick, TaskGone, StatementFails, TypeOK
    <3> QED
      BY <1>1, <3>1, IdleType DEF RunAt
  <2>2. ASSUME NEW o \in Runs, o # r, Load(o) \/ SaveSubTask(o) \/ CommitSubTask(o)
        PROVE  run'[r] = run[r]
    BY <2>2 DEF Load, SaveSubTask, CommitSubTask, TypeOK
  <2>3. CASE Exit
    BY <1>1, <2>3, IdleType DEF Exit
  <2>4. CASE Api \/ Pass \/ UNCHANGED vars
    BY <2>4, ApiRows DEF Pass, vars
  <2> QED
    BY <2>1, <2>2, <2>3, <2>4 DEF Next, Execute
<1> QED
  BY <1>2, <1>3, <1>4, <1>5, <1>6

\* A task that was due and is no longer was asked for up to the time it became
\* due, unless its user stopped it or its run had read another row.
THEOREM SearchTaskDueMeansServed == Spec => DueMeansServed
<1>1. Init => DueInv
  BY IdleType DEF Init, DueInv, Held
<1>2. ASSUME TaskInv, DueInv, [Next]_vars, NEW t \in Tasks,
             Due(t, clock), ~Stale(t),
             Live(t)', task'[t].enabled, task'[t].nextRunAt > clock'
      PROVE  \E m \in subtasks' : m.task = t /\ m.to >= task[t].nextRunAt
  <2>0. TypeOK /\ clock \in Nat /\ task[t].nextRunAt \in Nat \cup {NULL}
        /\ task[t].nextRunAt <= clock /\ Live(t)
    BY <1>2, RowType DEF TaskInv, TypeOK, Time, Due
  <2>1. ASSUME NEW r \in Runs, CommitSubTask(r)
        PROVE  \E m \in subtasks' : m.task = t /\ m.to >= task[t].nextRunAt
    <3>1. PICK s \in run[r].saved : CommitSubTask(r)!1!(s)
      BY <2>1 DEF CommitSubTask
    <3>2. s \in Held(r) /\ s.task \in Tasks
      BY <2>0, <3>1, HeldType DEF Held
    <3>3. CASE s.task = t
      <4>1. s.nextRunAt = task[t].nextRunAt
        BY <1>2, <3>3 DEF Stale
      <4>2. task[t].nextRunAt <= run[r].now /\ run[r].now \in Nat
        BY <1>2, <2>0, <3>2, <4>1, RunType DEF DueInv
      <4>3. Range(r, s) \in subtasks'
        BY <3>1
      <4>4. Range(r, s).task = t /\ Range(r, s).to = run[r].now
        BY <3>3 DEF Range, RangeEnd
      <4> QED
        BY <2>0, <4>2, <4>3, <4>4 DEF NULL
    <3>4. CASE s.task # t
      <4>1. task'[t] = task[t] /\ clock' = clock
        BY <2>0, <2>1, <3>1, <3>4 DEF CommitSubTask, TypeOK
      <4> QED
        BY <1>2, <2>0, <4>1 DEF NULL
    <3> QED
      BY <3>3, <3>4
  <2>2. CASE Api
    <3>1. RowStep(t) /\ clock' = clock
      BY <2>0, <2>2, ApiRows
    <3>2. task'[t].nextRunAt \in {task[t].nextRunAt, clock}
      BY <1>2, <2>0, <3>1 DEF RowStep, Live
    <3> QED
      BY <1>2, <2>0, <3>1, <3>2 DEF NULL
  <2>3. CASE UNCHANGED task /\ clock' \in {clock, clock + 1}
    BY <1>2, <2>0, <2>3 DEF NULL
  <2>4. \/ \E r \in Runs : CommitSubTask(r)
        \/ Api
        \/ UNCHANGED task /\ clock' \in {clock, clock + 1}
    BY <1>2 DEF Next, Execute, StartUp, Tick, Load, SaveSubTask, TaskGone,
                StatementFails, Exit, Pass, vars, db
  <2> QED
    BY <2>1, <2>2, <2>3, <2>4
<1>3. ASSUME TaskInv, DueInv, [Next]_vars
      PROVE  [\A t \in Tasks :
                /\ Due(t, clock) /\ ~Stale(t)
                /\ Live(t)' /\ task'[t].enabled /\ task'[t].nextRunAt > clock'
                => \E m \in subtasks' : m.task = t /\ m.to >= task[t].nextRunAt]_vars
  BY <1>2, <1>3
<1>4. TaskInv => TypeOK
  BY DEF TaskInv
<1> QED
  BY <1>1, <1>3, <1>4, TaskInvariant, DueInvStep, PTL DEF Spec, DueMeansServed
=============================================================================
