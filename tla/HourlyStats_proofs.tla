------------------------- MODULE HourlyStats_proofs -------------------------
(***************************************************************************)
(* Proofs about HourlyStats, for any number of messages, processes, tries  *)
(* and failures: the types, that the hour's row counts the committed       *)
(* updates (RowIsTheCommits), that no message is forgotten                 *)
(* (NoneForgotten), that a marked message is not counted again             *)
(* (MarkedIsFinal) and that a day stays within its hours (DayWithinHours). *)
(*                                                                         *)
(* The row: as long as no two transactions were open at once, the one that *)
(* is open has read the row as it is (ReadIsCurrent).  The messages: each  *)
(* place an update is at says what has happened to its message             *)
(* (Accounted), and a message the broker waits for nobody to answer is     *)
(* accounted for or a dead letter (NoneLeft), whoever still works on it    *)
(* after its consumer went deaf.  The marks: one process has a message in  *)
(* hand, and nobody is about to count a message that is marked, also when  *)
(* its mark has expired and is set anew (MarkedIsOver).                    *)
(***************************************************************************)
EXTENDS HourlyStats, TLAPS

\* What is in hand is a message.
HandsFull == \A i \in Instances : Busy(i) => job[i].msg \in Messages

ReadIsCurrent ==
  ~overlap =>
    /\ row.n = counted
    /\ \A i \in Instances : Open(i) => job[i].read = row.n
    /\ \A i, j \in Instances : Open(i) /\ Open(j) => i = j

DayIsBehind ==
  ~overlap =>
    \A m \in Messages :
      /\ daily[m] <= row.n[m]
      /\ \A i \in Instances : rollup[i].at = "fetched" => rollup[i].read[m] <= row.n[m]

Accounted ==
  /\ \A m \in marks : counted[m] > 0
  /\ \A i \in Instances :
       /\ job[i].at \in {"begin", "save", "commit"} => failures[job[i].msg] >= job[i].tries - 1
       /\ job[i].at = "mark" => counted[job[i].msg] > 0
       /\ job[i].at = "ack" => counted[job[i].msg] > 0 \/ failures[job[i].msg] >= MaxTries

\* The processes the broker waits for with m.
Awaited(m) == {i \in InHand(m) : mode[i] # "deaf"}
NoneLeft ==
  \A m \in Messages :
    queue[m] = 0 /\ Awaited(m) = {} =>
      counted[m] > 0 \/ dead[m] > 0 \/ m \in dropped \/ failures[m] >= MaxTries

MarkedIsOver ==
  /\ \A m \in Messages \ together : \A i, j \in InHand(m) : i = j
  /\ \A m \in marks \ (misses \cup together) : \A i \in InHand(m) : job[i].at \notin {"begin", "save", "commit"}

StatsInv ==
  /\ TypeOK /\ HandsFull /\ ReadIsCurrent /\ DayIsBehind /\ Accounted /\ NoneLeft /\ MarkedIsOver
-----------------------------------------------------------------------------
(* Jobs and counts. *)
LEMMA JobFacts ==
  /\ NoRow \in Counts /\ Idle \in Jobs /\ Idle.at = "idle"
  /\ \A p \in Places, m \in Messages \cup {"none"} :
       JobAt(p, m) \in Jobs /\ JobAt(p, m).at = p /\ JobAt(p, m).msg = m
BY DEF NoRow, Counts, Idle, Jobs, Places, JobAt

LEMMA AddFacts ==
  ASSUME NEW n \in Counts, NEW m \in Messages
  PROVE  /\ Add(n, m) \in Counts
         /\ Add(n, m)[m] = n[m] + 1
         /\ \A k \in Messages : n[k] \in Nat /\ Add(n, m)[k] \in Nat /\ Add(n, m)[k] >= n[k]
         /\ \A k \in Messages \ {m} : Add(n, m)[k] = n[k]
BY DEF Add, Counts

(* What the steps do to the job of their process; the others' stay. *)
Others(i) == job' \in [Instances -> Jobs] /\ \A j \in Instances \ {i} : job'[j] = job[j]
Moves(i, p) == Others(i) /\ job'[i].at = p /\ job'[i].msg = job[i].msg
Leaves(i) == Others(i) /\ job'[i] = Idle

LEMMA GotoFacts ==
  ASSUME TypeOK, NEW i \in Instances, NEW p \in Places, Goto(i, p)
  PROVE  Moves(i, p)
<1>1. job[i].msg \in Messages \cup {"none"}
  BY DEF TypeOK, Jobs
<1>2. job' = [job EXCEPT ![i] = JobAt(p, job[i].msg)]
  BY DEF Goto
<1> QED
  BY <1>1, <1>2, JobFacts DEF TypeOK, Moves, Others

LEMMA StartFacts ==
  ASSUME TypeOK, NEW i \in Instances, StartUpdate(i)
  PROVE  Moves(i, "begin") /\ job'[i].tries = 1
<1>1. job[i] \in Jobs
  BY DEF TypeOK
<1>2. job' = [job EXCEPT ![i] = [[[job[i] EXCEPT !.at = "begin"] EXCEPT !.tries = 1] EXCEPT !.txs = 1]]
  BY DEF StartUpdate, TypeOK
<1>3. [[[job[i] EXCEPT !.at = "begin"] EXCEPT !.tries = 1] EXCEPT !.txs = 1] \in Jobs
  BY <1>1 DEF Jobs, Places
<1> QED
  BY <1>1, <1>2, <1>3 DEF TypeOK, Moves, Others, Jobs

LEMMA ThrowFacts ==
  ASSUME TypeOK, HandsFull, NEW i \in Instances, Busy(i), UpdateThrows(i)
  PROVE  /\ failures' = Add(failures, job[i].msg)
         /\ \/ Moves(i, "begin") /\ job'[i].tries = job[i].tries + 1
            \/ Moves(i, "ack") /\ job[i].tries >= MaxTries
<1> USE HourlyStatsAssumption
<1>1. job[i] \in Jobs /\ job[i].msg \in Messages /\ job[i].tries \in Nat
  BY DEF TypeOK, HandsFull, Jobs
<1>2. CASE TriesAgain(job[i])
  <2>1. job' = [job EXCEPT ![i] =
                 [[[job[i] EXCEPT !.at = "begin"] EXCEPT !.tries = job[i].tries + 1] EXCEPT !.txs = 1]]
    BY <1>1, <1>2 DEF UpdateThrows, TypeOK, TriesAgain
  <2> DEFINE n == job[i].tries + 1
  <2>4. n \in Nat
    BY <1>1
  <2>2. [[[job[i] EXCEPT !.at = "begin"] EXCEPT !.tries = n] EXCEPT !.txs = 1] \in Jobs
    <3> HIDE DEF n
    <3> QED
      BY <1>1, <2>4 DEF Jobs, Places
  <2>3. Moves(i, "begin") /\ job'[i].tries = job[i].tries + 1
    BY <1>1, <2>1, <2>2 DEF TypeOK, Moves, Others, Jobs
  <2> QED
    BY <2>3 DEF UpdateThrows
<1>3. CASE ~TriesAgain(job[i])
  <2>1. job' = [job EXCEPT ![i] = JobAt("ack", job[i].msg)]
    BY <1>3 DEF UpdateThrows, TypeOK
  <2>2. Moves(i, "ack") /\ job[i].tries >= MaxTries
    BY <1>1, <1>3, <2>1, JobFacts DEF TypeOK, Moves, Others, TriesAgain, Places
  <2> QED
    BY <2>2 DEF UpdateThrows
<1> QED
  BY <1>2, <1>3

LEMMA BeginFacts ==
  ASSUME TypeOK, NEW i \in Instances, Begin(i)
  PROVE  Moves(i, "save") /\ job'[i].read = row.n /\ job'[i].tries = job[i].tries
<1>1. job[i] \in Jobs /\ row.n \in Counts /\ row.is \in BOOLEAN
  BY DEF TypeOK
<1>2. job' = [job EXCEPT ![i] = [[[job[i] EXCEPT !.at = "save"] EXCEPT !.new = ~row.is] EXCEPT !.read = row.n]]
  BY DEF Begin, ReadRow, TypeOK
<1>3. [[[job[i] EXCEPT !.at = "save"] EXCEPT !.new = ~row.is] EXCEPT !.read = row.n] \in Jobs
  BY <1>1 DEF Jobs, Places
<1> QED
  BY <1>1, <1>2, <1>3 DEF TypeOK, Moves, Others, Jobs

LEMMA SaveFacts ==
  ASSUME TypeOK, NEW i \in Instances, Save(i)
  PROVE  Moves(i, "commit") /\ job'[i].read = job[i].read /\ job'[i].tries = job[i].tries
<1>1. job[i] \in Jobs
  BY DEF TypeOK
<1>2. job' = [job EXCEPT ![i] = [job[i] EXCEPT !.at = "commit"]]
  BY DEF Save, TypeOK
<1>3. [job[i] EXCEPT !.at = "commit"] \in Jobs
  BY <1>1 DEF Jobs, Places
<1> QED
  BY <1>1, <1>2, <1>3 DEF TypeOK, Moves, Others, Jobs

(* A transaction that deadlocked starts again. *)
LEMMA AgainFacts ==
  ASSUME TypeOK, NEW i \in Instances, job' = [job EXCEPT ![i].at = "begin", ![i].txs = @ + 1]
  PROVE  Moves(i, "begin") /\ job'[i].tries = job[i].tries
<1>1. job[i] \in Jobs /\ job[i].txs \in Nat
  BY DEF TypeOK, Jobs
<1>2. job' = [job EXCEPT ![i] = [[job[i] EXCEPT !.at = "begin"] EXCEPT !.txs = job[i].txs + 1]]
  BY <1>1 DEF TypeOK, Jobs
<1> DEFINE n == job[i].txs + 1
<1>4. n \in Nat
  BY <1>1
<1>3. [[job[i] EXCEPT !.at = "begin"] EXCEPT !.txs = n] \in Jobs
  <2> HIDE DEF n
  <2> QED
    BY <1>1, <1>4 DEF Jobs, Places
<1> QED
  BY <1>1, <1>2, <1>3 DEF TypeOK, Moves, Others, Jobs
(* TakeBack() puts at most the message in hand into the queue. *)
LEMMA TakeBackFacts ==
  ASSUME TypeOK, HandsFull, NEW i \in Instances, TakeBack(i)
  PROVE  /\ queue' \in Counts
         /\ \A m \in Messages : queue[m] \in Nat /\ queue'[m] \in Nat /\ queue'[m] >= queue[m]
         /\ Busy(i) /\ mode[i] # "deaf" => queue'[job[i].msg] > 0
<1>1. CASE Busy(i) /\ mode[i] # "deaf"
  <2>1. queue \in Counts /\ job[i].msg \in Messages /\ queue' = Add(queue, job[i].msg)
    BY <1>1 DEF TypeOK, HandsFull, TakeBack
  <2>2. queue[job[i].msg] \in Nat
    BY <2>1 DEF Counts
  <2> QED
    BY <2>1, <2>2, AddFacts
<1>2. CASE ~(Busy(i) /\ mode[i] # "deaf")
  BY <1>2 DEF TypeOK, TakeBack, Counts
<1> QED
  BY <1>1, <1>2

(* A commit counts the message in hand. *)
LEMMA CommitFacts ==
  ASSUME TypeOK, HandsFull, NEW i \in Instances, Busy(i), Committed(i)
  PROVE  /\ row' \in [is : BOOLEAN, n : Counts] /\ counted' \in Counts
         /\ row'.n = Add(job[i].read, job[i].msg) /\ counted' = Add(counted, job[i].msg)
         /\ \A m \in Messages : counted[m] \in Nat /\ counted'[m] >= counted[m]
         /\ counted'[job[i].msg] > 0
         /\ \A m \in Messages \ {job[i].msg} : counted'[m] = counted[m]
<1>1. job[i].msg \in Messages /\ job[i].read \in Counts /\ counted \in Counts
  BY DEF TypeOK, HandsFull, Jobs
<1>2. counted[job[i].msg] \in Nat
  BY <1>1 DEF Counts
<1>3. row' = [is |-> TRUE, n |-> Add(job[i].read, job[i].msg)] /\ counted' = Add(counted, job[i].msg)
  BY DEF Committed
<1> QED
  BY <1>1, <1>2, <1>3, AddFacts

(* Every step keeps the types. *)
LEMMA TypeStep == TypeOK /\ HandsFull /\ [Next]_vars => TypeOK' /\ HandsFull'
<1> SUFFICES ASSUME TypeOK, HandsFull, [Next]_vars
             PROVE  TypeOK' /\ HandsFull'
  OBVIOUS
<1> USE JobFacts, HourlyStatsAssumption
<1>1. ASSUME NEW i \in Instances, NEW p, Moves(i, p), Busy(i)
      PROVE  job' \in [Instances -> Jobs] /\ HandsFull'
  BY <1>1 DEF Moves, Others, HandsFull, Busy
<1>2. ASSUME NEW i \in Instances, NEW m \in Messages, Deliver(i, m)
      PROVE  TypeOK' /\ HandsFull'
  <2>1. queue' \in Counts
    BY <1>2 DEF Deliver, TypeOK, Counts
  <2>2. JobAt("check", m) \in Jobs /\ JobAt("check", m).msg = m
    BY DEF Places
  <2>3. job' \in [Instances -> Jobs] /\ HandsFull'
    BY <1>2, <2>2 DEF Deliver, TypeOK, HandsFull, Busy
  <2> QED
    BY <1>2, <2>1, <2>3 DEF Deliver, TypeOK
<1>3. ASSUME NEW i \in Instances, CheckDuplicate(i)
      PROVE  TypeOK' /\ HandsFull'
  <2>1. Busy(i) /\ job[i].msg \in Messages
    BY <1>3 DEF CheckDuplicate, Busy, HandsFull
  <2>2. Moves(i, "ack") \/ Moves(i, "begin")
    BY <1>3, GotoFacts, StartFacts DEF CheckDuplicate, Places
  <2> QED
    BY <1>1, <1>3, <2>1, <2>2 DEF CheckDuplicate, TypeOK, Fault
<1>4. ASSUME NEW i \in Instances, Begin(i)
      PROVE  TypeOK' /\ HandsFull'
  BY <1>1, <1>4, BeginFacts DEF Begin, TypeOK, Busy
<1>5. ASSUME NEW i \in Instances, Save(i)
      PROVE  TypeOK' /\ HandsFull'
  BY <1>1, <1>5, SaveFacts DEF Save, TypeOK, Busy, history
<1>6. ASSUME NEW i \in Instances, Commit(i)
      PROVE  TypeOK' /\ HandsFull'
  <2>1. Busy(i) /\ Moves(i, "mark")
    BY <1>6, GotoFacts DEF Commit, Busy, Places
  <2> QED
    BY <1>1, <1>6, <2>1, CommitFacts DEF Commit, TypeOK
<1>7. ASSUME NEW i \in Instances, Busy(i), UpdateThrows(i)
      PROVE  failures' \in Counts /\ job' \in [Instances -> Jobs] /\ HandsFull'
  <2>1. failures' \in Counts
    BY <1>7, ThrowFacts, AddFacts DEF TypeOK, HandsFull
  <2> QED
    BY <1>1, <1>7, <2>1, ThrowFacts
<1>8. ASSUME NEW i \in Instances, Collide(i)
      PROVE  TypeOK' /\ HandsFull'
  BY <1>7, <1>8 DEF Collide, TypeOK, Busy
<1>9. ASSUME NEW i \in Instances, Fail(i)
      PROVE  TypeOK' /\ HandsFull'
  <2>1. Busy(i)
    BY <1>9 DEF Fail, Busy
  <2>2. job' \in [Instances -> Jobs] /\ HandsFull' /\ failures' \in Counts
    BY <1>1, <1>7, <1>9, <2>1, AgainFacts DEF Fail, TypeOK
  <2>3. row' \in [is : BOOLEAN, n : Counts] /\ counted' \in Counts
    BY <1>9, <2>1, CommitFacts DEF Fail, TypeOK
  <2> QED
    BY <1>9, <2>2, <2>3 DEF Fail, TypeOK, Fault
<1>10. ASSUME NEW i \in Instances, Mark(i)
      PROVE  TypeOK' /\ HandsFull'
  <2>1. Busy(i) /\ Moves(i, "ack") /\ job[i].msg \in Messages
    BY <1>10, GotoFacts DEF Mark, Busy, Places, HandsFull
  <2> QED
    BY <1>1, <1>10, <2>1 DEF Mark, TypeOK, Fault, history
<1>11. RollupAt("over", NoRow) \in Rollups /\ \A n \in Counts : RollupAt("fetched", n) \in Rollups
  BY DEF RollupAt, Rollups
<1>12. ASSUME NEW i \in Instances, Ack(i)
      PROVE  TypeOK' /\ HandsFull'
  <2>1. job' \in [Instances -> Jobs] /\ HandsFull'
    BY <1>12 DEF Ack, TypeOK, HandsFull, Busy
  <2>2. mode' \in [Instances -> Modes] /\ rollup' \in [Instances -> Rollups]
    BY <1>11, <1>12 DEF Ack, TypeOK, Modes
  <2> QED
    BY <1>12, <2>1, <2>2 DEF Ack, TypeOK, history
<1>13. ASSUME NEW i \in Instances, Fetch(i) \/ WriteDay(i)
      PROVE  TypeOK' /\ HandsFull'
  <2>1. rollup' \in [Instances -> Rollups]
    BY <1>11, <1>13 DEF Fetch, WriteDay, TypeOK
  <2>2. daily' \in Counts
    BY <1>13 DEF Fetch, WriteDay, DayOf, TypeOK, Rollups
  <2> QED
    BY <1>13, <2>1, <2>2 DEF Fetch, WriteDay, TypeOK, HandsFull, Busy, Fault, history
<1>14. ASSUME NEW i \in Instances, Shutdown(i) \/ Start(i)
      PROVE  TypeOK' /\ HandsFull'
  BY <1>14 DEF Shutdown, Start, TypeOK, Modes, HandsFull, Busy, history
<1>15. ASSUME NEW i \in Instances, Stop(i)
      PROVE  TypeOK' /\ HandsFull'
  <2>1. queue' \in Counts
    BY <1>15, TakeBackFacts DEF Stop
  <2>2. job' \in [Instances -> Jobs] /\ HandsFull'
    BY <1>15 DEF Stop, TypeOK, HandsFull, Busy
  <2>3. mode' \in [Instances -> Modes] /\ rollup' \in [Instances -> Rollups]
    BY <1>11, <1>15 DEF Stop, TypeOK, Modes
  <2> QED
    BY <1>15, <2>1, <2>2, <2>3 DEF Stop, TypeOK, Fault, history
<1>16. ASSUME NEW i \in Instances, GoDeaf(i)
      PROVE  TypeOK' /\ HandsFull'
  <2>1. queue' \in Counts
    BY <1>16, TakeBackFacts DEF GoDeaf
  <2> QED
    BY <1>16, <2>1 DEF GoDeaf, TypeOK, Modes, HandsFull, Busy, Fault, history
<1>17. ASSUME NEW m \in Messages, Republish(m)
      PROVE  TypeOK' /\ HandsFull'
  BY <1>17, AddFacts DEF Republish, TypeOK, HandsFull, Busy, Fault, history
<1>18. CASE UNCHANGED vars
  BY <1>18 DEF vars, TypeOK, HandsFull, Busy
<1>19. ASSUME NEW m \in Messages, queue[m] > 0
       PROVE  [queue EXCEPT ![m] = @ - 1] \in Counts
  BY <1>19 DEF TypeOK, Counts
<1>20. ASSUME NEW m \in Messages, dead[m] > 0
       PROVE  [dead EXCEPT ![m] = @ - 1] \in Counts
  BY <1>20 DEF TypeOK, Counts
<1>21. ASSUME NEW m \in Messages, Expire(m) \/ RetryDead(m)
       PROVE  TypeOK' /\ HandsFull'
  <2>1. queue' \in Counts /\ dead' \in Counts
    <3>1. queue \in Counts /\ dead \in Counts
      BY DEF TypeOK
    <3>2. Add(queue, m) \in Counts /\ Add(dead, m) \in Counts
      BY <3>1, AddFacts
    <3>3. CASE Expire(m)
      BY <1>19, <3>2, <3>3 DEF Expire
    <3>4. CASE RetryDead(m)
      BY <1>20, <3>1, <3>2, <3>4 DEF RetryDead
    <3> QED
      BY <1>21, <3>3, <3>4
  <2> QED
    BY <1>21, <2>1 DEF Expire, RetryDead, TypeOK, HandsFull, Busy, Fault, history
<1>22. ASSUME NEW m \in Messages, DeleteDead(m) \/ MarkExpires(m)
       PROVE  TypeOK' /\ HandsFull'
  <2>1. dead' \in Counts
    BY <1>20, <1>22 DEF DeleteDead, MarkExpires, TypeOK
  <2> QED
    BY <1>22, <2>1 DEF DeleteDead, MarkExpires, TypeOK, HandsFull, Busy, Fault, history
<1> QED
  BY <1>2, <1>3, <1>4, <1>5, <1>6, <1>8, <1>9, <1>10, <1>12, <1>13, <1>14, <1>15, <1>16, <1>17, <1>18,
     <1>21, <1>22 DEF Next
-----------------------------------------------------------------------------
(* Steps that open no transaction and commit none. *)
LEMMA ReadKept ==
  ASSUME TypeOK, ReadIsCurrent, NEW i \in Instances, Others(i), ~job'[i].at \in {"save", "commit"},
         row' = row, counted' = counted, overlap' = overlap
  PROVE  ReadIsCurrent'
BY DEF ReadIsCurrent, Others, Open

(* The open transaction has read the row as it is, if it is the only one. *)
LEMMA ReadStep == TypeOK /\ HandsFull /\ ReadIsCurrent /\ [Next]_vars => ReadIsCurrent'
<1> SUFFICES ASSUME TypeOK, HandsFull, ReadIsCurrent, [Next]_vars
             PROVE  ReadIsCurrent'
  OBVIOUS
<1> USE JobFacts
<1>1. ASSUME NEW i \in Instances, NEW m \in Messages, Deliver(i, m)
      PROVE  ReadIsCurrent'
  <2>1. row' = row /\ counted' = counted /\ overlap' = overlap
    BY <1>1 DEF Deliver
  <2>2. CASE job' = job
    BY <2>1, <2>2 DEF ReadIsCurrent, Open
  <2>3. CASE job' = [job EXCEPT ![i] = JobAt("check", m)]
    <3>1. JobAt("check", m) \in Jobs /\ JobAt("check", m).at = "check"
      BY DEF Places
    <3>2. Others(i) /\ job'[i].at = "check"
      BY <2>3, <3>1 DEF TypeOK, Others
    <3> QED
      BY <2>1, <3>2, ReadKept
  <2> QED
    BY <1>1, <2>2, <2>3 DEF Deliver
<1>2. ASSUME NEW i \in Instances, CheckDuplicate(i)
      PROVE  ReadIsCurrent'
  <2>1. Moves(i, "ack") \/ Moves(i, "begin")
    BY <1>2, GotoFacts, StartFacts DEF CheckDuplicate, Places
  <2> QED
    BY <1>2, <2>1, ReadKept DEF CheckDuplicate, Moves
<1>3. ASSUME NEW i \in Instances, Begin(i)
      PROVE  ReadIsCurrent'
  <2>1. Moves(i, "save") /\ job'[i].read = row.n
    BY <1>3, BeginFacts
  <2>2. /\ row' = row /\ counted' = counted
        /\ overlap' = (overlap \/ \E j \in Instances \ {i} : Open(j))
    BY <1>3 DEF Begin
  <2>3. \A j \in Instances \ {i} : job'[j] = job[j]
    BY <2>1 DEF Moves, Others
  <2> SUFFICES ASSUME ~overlap'
               PROVE  /\ row'.n = counted'
                      /\ \A j \in Instances : Open(j)' => j = i /\ job'[j].read = row'.n
    BY DEF ReadIsCurrent
  <2>4. ~overlap /\ \A j \in Instances \ {i} : ~Open(j)
    BY <2>2
  <2>5. \A j \in Instances \ {i} : ~Open(j)'
    BY <2>3, <2>4 DEF Open
  <2> QED
    BY <2>1, <2>2, <2>4, <2>5 DEF ReadIsCurrent
<1>4. ASSUME NEW i \in Instances, Save(i)
      PROVE  ReadIsCurrent'
  <2>1. Moves(i, "commit") /\ job'[i].read = job[i].read
    BY <1>4, SaveFacts
  <2>2. /\ row' = row /\ counted' = counted /\ overlap' = overlap
        /\ job[i].at = "save"
    BY <1>4 DEF Save, history
  <2>3. \A j \in Instances \ {i} : job'[j] = job[j]
    BY <2>1 DEF Moves, Others
  <2>4. \A j \in Instances : Open(j)' => Open(j) /\ job'[j].read = job[j].read
    BY <2>1, <2>2, <2>3 DEF Open, Moves
  <2> QED
    BY <2>2, <2>4 DEF ReadIsCurrent
<1>5. ASSUME NEW i \in Instances, job[i].at = "commit", Committed(i), Others(i),
             ~job'[i].at \in {"save", "commit"}, overlap' = overlap
      PROVE  ReadIsCurrent'
  <2> SUFFICES ASSUME ~overlap
               PROVE  /\ row'.n = counted'
                      /\ \A j \in Instances : ~Open(j)'
    BY <1>5 DEF ReadIsCurrent
  <2>1. row'.n = Add(job[i].read, job[i].msg) /\ counted' = Add(counted, job[i].msg)
    BY <1>5, CommitFacts DEF Busy
  <2>2. job[i].read = counted
    BY <1>5 DEF ReadIsCurrent, Open
  <2>3. \A j \in Instances : ~Open(j)'
    BY <1>5 DEF ReadIsCurrent, Open, Others
  <2> QED
    BY <2>1, <2>2, <2>3
<1>6. ASSUME NEW i \in Instances, Commit(i)
      PROVE  ReadIsCurrent'
  <2>1. Moves(i, "mark")
    BY <1>6, GotoFacts DEF Commit, Places
  <2> QED
    BY <1>5, <1>6, <2>1 DEF Commit, Moves
<1>7. ASSUME NEW i \in Instances, Busy(i), UpdateThrows(i)
      PROVE  Others(i) /\ ~job'[i].at \in {"save", "commit"}
  BY <1>7, ThrowFacts DEF Moves
<1>8. ASSUME NEW i \in Instances, Collide(i)
      PROVE  ReadIsCurrent'
  BY <1>7, <1>8, ReadKept DEF Collide, Busy
<1>9. ASSUME NEW i \in Instances, Fail(i)
      PROVE  ReadIsCurrent'
  <2>1. Busy(i) /\ overlap' = overlap
    BY <1>9 DEF Fail, Busy
  <2>2. CASE UpdateThrows(i) /\ UNCHANGED <<row, counted>>
    BY <1>7, <2>1, <2>2, ReadKept
  <2>3. CASE job[i].at = "commit" /\ Committed(i) /\ UpdateThrows(i)
    BY <1>5, <1>7, <2>1, <2>3
  <2>4. CASE job' = [job EXCEPT ![i].at = "begin", ![i].txs = @ + 1] /\ UNCHANGED <<row, counted>>
    BY <2>1, <2>4, AgainFacts, ReadKept DEF Moves
  <2> QED
    BY <1>9, <2>2, <2>3, <2>4 DEF Fail
<1>10. ASSUME NEW i \in Instances, Mark(i)
      PROVE  ReadIsCurrent'
  <2>1. Moves(i, "ack")
    BY <1>10, GotoFacts DEF Mark, Places
  <2> QED
    BY <1>10, <2>1, ReadKept DEF Mark, Moves, history
<1>11. ASSUME NEW i \in Instances, Ack(i) \/ Stop(i)
      PROVE  ReadIsCurrent'
  <2>1. Others(i) /\ job'[i].at = "idle"
    BY <1>11 DEF Ack, Stop, TypeOK, Others
  <2> QED
    BY <1>11, <2>1, ReadKept DEF Ack, Stop, history
<1>12. CASE UNCHANGED <<job, row, counted, overlap>>
  BY <1>12 DEF ReadIsCurrent, Open
<1>13. ASSUME NEW i \in Instances, Fetch(i) \/ WriteDay(i) \/ Shutdown(i) \/ Start(i) \/ GoDeaf(i)
      PROVE  ReadIsCurrent'
  BY <1>12, <1>13 DEF Fetch, WriteDay, Shutdown, Start, GoDeaf, history
<1>14. ASSUME NEW m \in Messages,
              Republish(m) \/ Expire(m) \/ RetryDead(m) \/ DeleteDead(m) \/ MarkExpires(m)
       PROVE  ReadIsCurrent'
  BY <1>12, <1>14 DEF Republish, Expire, RetryDead, DeleteDead, MarkExpires, history
<1> QED
  BY <1>1, <1>2, <1>3, <1>4, <1>6, <1>8, <1>9, <1>10, <1>11, <1>12, <1>13, <1>14 DEF Next, vars

(* The row of an hour only grows, so what has been fetched from it stays     *)
(* within it.                                                              *)
LEMMA RowGrows ==
  ASSUME TypeOK, HandsFull, ReadIsCurrent, [Next]_vars, ~overlap', NEW m \in Messages
  PROVE  row'.n[m] \in Nat /\ row.n[m] \in Nat /\ row'.n[m] >= row.n[m]
<1>1. row.n[m] \in Nat
  BY DEF TypeOK, Counts
<1>2. CASE row' = row
  BY <1>1, <1>2
<1>3. ASSUME NEW i \in Instances, job[i].at = "commit", Committed(i), overlap' = overlap
      PROVE  row'.n[m] \in Nat /\ row'.n[m] >= row.n[m]
  <2>1. row'.n = Add(row.n, job[i].msg)
    BY <1>3, CommitFacts DEF Busy, ReadIsCurrent, Open
  <2>2. row.n \in Counts /\ job[i].msg \in Messages
    BY <1>3 DEF TypeOK, HandsFull, Busy
  <2> QED
    BY <2>1, <2>2, AddFacts
<1>4. \/ row' = row
      \/ \E i \in Instances : job[i].at = "commit" /\ Committed(i) /\ overlap' = overlap
  BY DEF Next, vars, history, Deliver, CheckDuplicate, Begin, Save, Commit, Collide, Fail, Mark, Ack, Fetch,
         WriteDay, Shutdown, Stop, Start, GoDeaf, Republish, Expire, RetryDead, DeleteDead, MarkExpires
<1> QED
  BY <1>1, <1>2, <1>3, <1>4

(* The day and what is about to become the day. *)
LEMMA DayStep == TypeOK /\ HandsFull /\ ReadIsCurrent /\ DayIsBehind /\ [Next]_vars => DayIsBehind'
<1> SUFFICES ASSUME TypeOK, HandsFull, ReadIsCurrent, DayIsBehind, [Next]_vars, ~overlap',
                    NEW m \in Messages
             PROVE  /\ daily'[m] <= row'.n[m]
                    /\ \A i \in Instances : rollup'[i].at = "fetched" => rollup'[i].read[m] <= row'.n[m]
  BY DEF DayIsBehind
<1>1. ~overlap
  BY DEF Next, vars, history, Deliver, CheckDuplicate, Begin, Save, Commit, Collide, Fail, Mark, Ack, Fetch,
         WriteDay, Shutdown, Stop, Start, GoDeaf, Republish, Expire, RetryDead, DeleteDead, MarkExpires
<1>2. row.n[m] \in Nat /\ row'.n[m] \in Nat /\ row'.n[m] >= row.n[m]
  BY RowGrows
<1>3. daily[m] \in Nat /\ daily[m] <= row.n[m]
  BY <1>1 DEF DayIsBehind, TypeOK, Counts
<1>4. \A i \in Instances : rollup[i].read[m] \in Nat
  BY DEF TypeOK, Rollups, Counts
<1>5. \A i \in Instances : rollup[i].at = "fetched" => rollup[i].read[m] <= row.n[m]
  BY <1>1 DEF DayIsBehind
<1>6. daily'[m] = daily[m] \/ \E i \in Instances : rollup[i].at = "fetched" /\ daily'[m] = rollup[i].read[m]
  BY DEF Next, vars, history, Deliver, CheckDuplicate, Begin, Save, Commit, Collide, Fail, Mark, Ack, Fetch,
         WriteDay, DayOf, Shutdown, Stop, Start, GoDeaf, Republish, Expire, RetryDead, DeleteDead, MarkExpires
<1>7. ASSUME NEW i \in Instances
      PROVE  \/ rollup'[i] = rollup[i] \/ rollup'[i].at = "over"
             \/ rollup'[i].at = "fetched" /\ rollup'[i].read = row.n
  <2>1. \/ rollup' = rollup
        \/ \E j \in Instances : rollup' = [rollup EXCEPT ![j] = RollupAt("over", NoRow)]
        \/ \E j \in Instances : rollup' = [rollup EXCEPT ![j] = RollupAt("fetched", row.n)]
    BY DEF Next, vars, history, Deliver, CheckDuplicate, Begin, Save, Commit, Collide, Fail, Mark, Ack, Fetch,
           WriteDay, Shutdown, Stop, Start, GoDeaf, Republish, Expire, RetryDead, DeleteDead, MarkExpires
  <2>2. RollupAt("over", NoRow).at = "over"
    BY DEF RollupAt
  <2>3. RollupAt("fetched", row.n).at = "fetched" /\ RollupAt("fetched", row.n).read = row.n
    BY DEF RollupAt
  <2>4. DOMAIN rollup = Instances
    BY DEF TypeOK
  <2> QED
    BY <2>1, <2>2, <2>3, <2>4
<1> QED
  BY <1>2, <1>3, <1>4, <1>5, <1>6, <1>7
-----------------------------------------------------------------------------
(* What has been counted, has failed or was dropped stays so. *)
LEMMA Growing ==
  ASSUME TypeOK, HandsFull, [Next]_vars
  PROVE  /\ \A m \in Messages : counted[m] \in Nat /\ counted'[m] \in Nat /\ counted'[m] >= counted[m]
         /\ \A m \in Messages : failures[m] \in Nat /\ failures'[m] \in Nat /\ failures'[m] >= failures[m]
         /\ dropped \subseteq dropped'
<1>1. TypeOK'
  BY TypeStep
<1>2. \A m \in Messages :
        counted[m] \in Nat /\ counted'[m] \in Nat /\ failures[m] \in Nat /\ failures'[m] \in Nat
  BY <1>1 DEF TypeOK, Counts
<1>3. counted' = counted \/ \E i \in Instances : Busy(i) /\ Committed(i)
  BY DEF Next, vars, history, Busy, Deliver, CheckDuplicate, Begin, Save, Commit, Collide, Fail, Mark, Ack,
         Fetch, WriteDay, Shutdown, Stop, Start, GoDeaf, Republish, Expire, RetryDead, DeleteDead, MarkExpires
<1>4. failures' = failures \/ \E i \in Instances : Busy(i) /\ UpdateThrows(i)
  BY DEF Next, vars, history, Busy, Deliver, CheckDuplicate, Begin, Save, Commit, Collide, Fail, Mark, Ack,
         Fetch, WriteDay, Shutdown, Stop, Start, GoDeaf, Republish, Expire, RetryDead, DeleteDead, MarkExpires
<1>5. dropped \subseteq dropped'
  BY DEF Next, vars, history, Deliver, CheckDuplicate, Begin, Save, Commit, Collide, Fail, Mark, Ack,
         Fetch, WriteDay, Shutdown, Stop, Start, GoDeaf, Republish, Expire, RetryDead, DeleteDead, MarkExpires
<1>6. \A m \in Messages : counted'[m] >= counted[m]
  BY <1>2, <1>3, CommitFacts
<1>7. \A m \in Messages : failures'[m] >= failures[m]
  <2>1. ASSUME NEW i \in Instances, Busy(i), UpdateThrows(i), NEW m \in Messages
        PROVE  failures'[m] >= failures[m]
    <3>1. failures' = Add(failures, job[i].msg) /\ failures \in Counts /\ job[i].msg \in Messages
      BY <2>1, ThrowFacts DEF TypeOK, HandsFull
    <3> QED
      BY <3>1, AddFacts
  <2> QED
    BY <1>2, <1>4, <2>1
<1> QED
  BY <1>2, <1>5, <1>6, <1>7

(* A failed update is one failure more than there were tries before it. *)
LEMMA ThrowCounts ==
  ASSUME TypeOK, HandsFull, Accounted, NEW i \in Instances, job[i].at \in {"begin", "save", "commit"},
         UpdateThrows(i)
  PROVE  /\ job'[i].at = "begin" => failures'[job'[i].msg] >= job'[i].tries - 1
         /\ job'[i].at = "ack" => failures'[job'[i].msg] >= MaxTries
         /\ job'[i].at \in {"begin", "ack"}
<1>1. Busy(i) /\ job[i].msg \in Messages /\ failures \in Counts /\ job[i].tries \in Nat
  BY DEF Busy, HandsFull, TypeOK, Jobs
<1>2. failures'[job[i].msg] = failures[job[i].msg] + 1 /\ failures[job[i].msg] \in Nat
  BY <1>1, ThrowFacts, AddFacts
<1>3. failures[job[i].msg] >= job[i].tries - 1
  BY DEF Accounted
<1>4. \/ Moves(i, "begin") /\ job'[i].tries = job[i].tries + 1
      \/ Moves(i, "ack") /\ job[i].tries >= MaxTries
  BY <1>1, ThrowFacts
<1> QED
  BY <1>1, <1>2, <1>3, <1>4, HourlyStatsAssumption DEF Moves

(* Where an update is says what has happened to its message. *)
LEMMA AccountedStep == TypeOK /\ HandsFull /\ Accounted /\ [Next]_vars => Accounted'
<1> SUFFICES ASSUME TypeOK, HandsFull, Accounted, [Next]_vars
             PROVE  Accounted'
  OBVIOUS
<1> USE HourlyStatsAssumption
<1> DEFINE Fine(i) ==
      /\ job'[i].at \in {"begin", "save", "commit"} => failures'[job'[i].msg] >= job'[i].tries - 1
      /\ job'[i].at = "mark" => counted'[job'[i].msg] > 0
      /\ job'[i].at = "ack" => counted'[job'[i].msg] > 0 \/ failures'[job'[i].msg] >= MaxTries
<1>1. ASSUME NEW i \in Instances, job'[i] = job[i]
      PROVE  Fine(i)
  <2>1. CASE job[i].at = "idle"
    BY <1>1, <2>1
  <2>2. CASE job[i].at # "idle"
    <3>1. job[i].msg \in Messages /\ job[i].tries \in Nat
      BY <2>2 DEF HandsFull, Busy, TypeOK, Jobs
    <3> QED
      BY <1>1, <3>1, Growing DEF Accounted
  <2> QED
    BY <2>1, <2>2
<1>2. ASSUME marks' = marks, NEW i \in Instances, Others(i), Fine(i)
      PROVE  Accounted'
  <2>1. \A j \in Instances : Fine(j)
    BY <1>1, <1>2 DEF Others
  <2>2. \A m \in marks' : counted'[m] > 0
    BY <1>2, Growing DEF Accounted, TypeOK
  <2> QED
    BY <2>1, <2>2 DEF Accounted
<1>3. CASE job' = job /\ marks' = marks
  BY <1>1, <1>3, Growing DEF Accounted, TypeOK
<1>4. ASSUME NEW i \in Instances, NEW m \in Messages, Deliver(i, m)
      PROVE  Accounted'
  <2>1. JobAt("check", m) \in Jobs /\ JobAt("check", m).at = "check"
    BY JobFacts DEF Places
  <2>2. job' = job \/ (Others(i) /\ job'[i].at = "check")
    BY <1>4, <2>1 DEF Deliver, TypeOK, Others
  <2>3. marks' = marks
    BY <1>4 DEF Deliver
  <2> QED
    BY <1>2, <1>3, <2>2, <2>3
<1>5. ASSUME NEW i \in Instances, CheckDuplicate(i)
      PROVE  Accounted'
  <2>1. marks' = marks /\ counted' = counted /\ failures' = failures
    BY <1>5 DEF CheckDuplicate
  <2>2. job[i].msg \in Messages
    BY <1>5 DEF CheckDuplicate, HandsFull, Busy
  <2>3. \/ job[i].msg \in marks /\ Moves(i, "ack")
        \/ Moves(i, "begin") /\ job'[i].tries = 1
    BY <1>5, GotoFacts, StartFacts DEF CheckDuplicate, SeenBefore, Places
  <2> QED
    BY <1>2, <2>1, <2>2, <2>3, Growing DEF Accounted, Moves
<1>6. ASSUME NEW i \in Instances, Begin(i)
      PROVE  Accounted'
  <2>1. marks' = marks /\ counted' = counted /\ failures' = failures /\ job[i].at = "begin"
    BY <1>6 DEF Begin
  <2> QED
    BY <1>2, <1>6, <2>1, BeginFacts DEF Accounted, Moves
<1>7. ASSUME NEW i \in Instances, Save(i)
      PROVE  Accounted'
  <2>1. marks' = marks /\ counted' = counted /\ failures' = failures /\ job[i].at = "save"
    BY <1>7 DEF Save, history
  <2> QED
    BY <1>2, <1>7, <2>1, SaveFacts DEF Accounted, Moves
<1>8. ASSUME NEW i \in Instances, Commit(i)
      PROVE  Accounted'
  <2>1. Moves(i, "mark") /\ marks' = marks
    BY <1>8, GotoFacts DEF Commit, Places
  <2>2. counted'[job[i].msg] > 0
    BY <1>8, CommitFacts DEF Commit, Busy
  <2> QED
    BY <1>2, <2>1, <2>2 DEF Moves
<1>9. ASSUME NEW i \in Instances, Collide(i)
      PROVE  Accounted'
  <2>1. Fine(i) /\ marks' = marks
    BY <1>9, ThrowCounts DEF Collide
  <2>2. Others(i)
    BY <1>9, ThrowFacts DEF Collide, Busy, Moves
  <2> QED
    BY <1>2, <2>1, <2>2
<1>10. ASSUME NEW i \in Instances, Fail(i)
      PROVE  Accounted'
  <2>1. marks' = marks /\ Busy(i)
    BY <1>10 DEF Fail, Busy
  <2>2. CASE UpdateThrows(i)
    <3>1. Fine(i)
      BY <1>10, <2>2, ThrowCounts DEF Fail
    <3>2. Others(i)
      BY <2>1, <2>2, ThrowFacts DEF Moves
    <3> QED
      BY <1>2, <2>1, <3>1, <3>2
  <2>3. CASE /\ job[i].at = "save" /\ UNCHANGED <<row, counted, failures>>
             /\ job' = [job EXCEPT ![i].at = "begin", ![i].txs = @ + 1]
    BY <1>2, <2>1, <2>3, AgainFacts DEF Accounted, Moves
  <2> QED
    BY <1>10, <2>2, <2>3 DEF Fail
<1>11. ASSUME NEW i \in Instances, Mark(i)
      PROVE  Accounted'
  <2>1. Moves(i, "ack") /\ counted' = counted
    BY <1>11, GotoFacts DEF Mark, Places, history
  <2>2. counted[job[i].msg] > 0
    BY <1>11 DEF Mark, Accounted
  <2>3. Fine(i) /\ \A j \in Instances \ {i} : Fine(j)
    BY <1>1, <2>1, <2>2 DEF Moves, Others
  <2>4. \A m \in marks' : counted'[m] > 0
    BY <1>11, <2>1, <2>2 DEF Mark, Accounted
  <2> QED
    BY <2>3, <2>4 DEF Accounted
<1>12. ASSUME NEW i \in Instances, Ack(i) \/ Stop(i)
      PROVE  Accounted'
  <2>1. Others(i) /\ job'[i].at = "idle" /\ marks' = marks
    BY <1>12, JobFacts DEF Ack, Stop, TypeOK, Others
  <2> QED
    BY <1>2, <2>1
<1>13. ASSUME NEW i \in Instances, Fetch(i) \/ WriteDay(i) \/ Shutdown(i) \/ Start(i) \/ GoDeaf(i)
      PROVE  Accounted'
  BY <1>3, <1>13 DEF Fetch, WriteDay, Shutdown, Start, GoDeaf
<1>14. ASSUME NEW m \in Messages, Republish(m) \/ Expire(m) \/ RetryDead(m) \/ DeleteDead(m)
       PROVE  Accounted'
  BY <1>3, <1>14 DEF Republish, Expire, RetryDead, DeleteDead
<1>16. ASSUME NEW m \in Messages, MarkExpires(m)
       PROVE  Accounted'
  BY <1>16 DEF MarkExpires, Accounted, history
<1>15. CASE UNCHANGED vars
  BY <1>3, <1>15 DEF vars
<1> QED
  BY <1>4, <1>5, <1>6, <1>7, <1>8, <1>9, <1>10, <1>11, <1>12, <1>13, <1>14, <1>15, <1>16 DEF Next
-----------------------------------------------------------------------------
(* How hands change. *)
LEMMA HandKept ==
  ASSUME NEW i \in Instances, NEW p, Moves(i, p), p # "idle", Busy(i), NEW m
  PROVE  InHand(m)' = InHand(m)
BY DEF Moves, Others, InHand, Busy

(* The steps on a job between its delivery and its answer. *)
Works(i) == Begin(i) \/ Save(i) \/ Commit(i) \/ Collide(i) \/ Fail(i) \/ Mark(i) \/ CheckDuplicate(i)

LEMMA WorksFacts ==
  ASSUME TypeOK, HandsFull, NEW i \in Instances, Works(i)
  PROVE  /\ Busy(i) /\ queue' = queue /\ mode' = mode
         /\ \E p \in Places \ {"idle"} : Moves(i, p)
<1>1. Busy(i) /\ queue' = queue /\ mode' = mode
  BY DEF Works, Begin, Save, Commit, Collide, Fail, Mark, CheckDuplicate, Busy, history
<1>2. CASE \/ Moves(i, "begin") \/ Moves(i, "save") \/ Moves(i, "commit")
           \/ Moves(i, "mark") \/ Moves(i, "ack")
  <2>1. {"begin", "save", "commit", "mark", "ack"} \subseteq Places \ {"idle"}
    BY DEF Places
  <2> QED
    BY <1>1, <1>2, <2>1
<1>3. CASE Begin(i)
  BY <1>2, <1>3, BeginFacts
<1>4. CASE Save(i)
  BY <1>2, <1>4, SaveFacts
<1>5. CASE Commit(i) \/ Mark(i)
  BY <1>2, <1>5, GotoFacts DEF Commit, Mark, Places
<1>6. CASE CheckDuplicate(i)
  BY <1>2, <1>6, StartFacts, GotoFacts DEF CheckDuplicate, Places
<1>7. CASE UpdateThrows(i)
  BY <1>1, <1>2, <1>7, ThrowFacts
<1>8. CASE Fail(i) /\ ~UpdateThrows(i)
  <2>1. job' = [job EXCEPT ![i].at = "begin", ![i].txs = @ + 1]
    BY <1>8 DEF Fail
  <2> QED
    BY <1>2, <2>1, AgainFacts
<1> QED
  BY <1>3, <1>4, <1>5, <1>6, <1>7, <1>8 DEF Works, Collide

(* A message the broker has no copy of and waits for nobody with is         *)
(* accounted for or a dead letter.                                         *)
LEMMA NoneLeftStep == TypeOK /\ HandsFull /\ Accounted /\ NoneLeft /\ [Next]_vars => NoneLeft'
<1> DEFINE Over(m) == counted[m] > 0 \/ dead[m] > 0 \/ m \in dropped \/ failures[m] >= MaxTries
<1> SUFFICES ASSUME TypeOK, HandsFull, Accounted, NoneLeft, [Next]_vars,
                    NEW m \in Messages, queue'[m] = 0, Awaited(m)' = {}
             PROVE  Over(m)'
  BY DEF NoneLeft
<1> USE HourlyStatsAssumption
<1>0. dead'[m] >= dead[m] \/ queue'[m] > 0 \/ m \in dropped'
  <2>1. queue[m] \in Nat /\ dead[m] \in Nat
    BY DEF TypeOK, Counts
  <2>2. CASE dead' = dead
    BY <2>1, <2>2
  <2>3. ASSUME NEW k \in Messages, Expire(k)
        PROVE  dead'[m] >= dead[m]
    BY <2>3, AddFacts DEF Expire, TypeOK
  <2>4. ASSUME NEW k \in Messages, RetryDead(k)
        PROVE  dead'[m] >= dead[m] \/ queue'[m] > 0
    <3>1. CASE k = m
      BY <2>1, <2>4, <3>1, AddFacts DEF RetryDead, TypeOK
    <3>2. CASE k # m
      BY <2>1, <2>4, <3>2 DEF RetryDead, TypeOK, Counts
    <3> QED
      BY <3>1, <3>2
  <2>5. ASSUME NEW k \in Messages, DeleteDead(k)
        PROVE  dead'[m] >= dead[m] \/ m \in dropped'
    <3>1. CASE k = m
      BY <2>5, <3>1 DEF DeleteDead
    <3>2. CASE k # m
      BY <2>1, <2>5, <3>2 DEF DeleteDead, TypeOK, Counts
    <3> QED
      BY <3>1, <3>2
  <2>6. dead' = dead \/ \E k \in Messages : Expire(k) \/ RetryDead(k) \/ DeleteDead(k)
    BY DEF Next, vars, history, Deliver, CheckDuplicate, Begin, Save, Commit, Collide, Fail, Mark, Ack,
           Fetch, WriteDay, Shutdown, Stop, Start, GoDeaf, Republish, MarkExpires
  <2> QED
    BY <2>2, <2>3, <2>4, <2>5, <2>6
<1>1. Over(m) => Over(m)'
  <2>1. queue[m] \in Nat /\ dead[m] \in Nat /\ queue'[m] \in Nat /\ dead'[m] \in Nat
    BY TypeStep DEF TypeOK, Counts
  <2> QED
    BY <1>0, <2>1, Growing
<1>2. CASE queue[m] = 0 /\ Awaited(m) = {}
  BY <1>1, <1>2 DEF NoneLeft
<1>3. CASE queue' = queue /\ \A i \in Awaited(m) : i \in Awaited(m)'
  BY <1>2, <1>3
<1>4. ASSUME NEW i \in Instances, NEW k \in Messages, Deliver(i, k)
      PROVE  Over(m)'
  <2>1. CASE k = m /\ mode[i] = "up"
    <3>1. JobAt("check", m).at = "check" /\ JobAt("check", m).msg = m
      BY JobFacts DEF Places
    <3>2. job'[i].at = "check" /\ job'[i].msg = m /\ mode' = mode
      BY <1>4, <2>1, <3>1 DEF Deliver, TypeOK
    <3>3. i \in Awaited(m)'
      BY <2>1, <3>2 DEF Awaited, InHand, Busy
    <3> QED
      BY <3>3
  <2>2. CASE k = m /\ mode[i] # "up"
    BY <1>4, <2>2 DEF Deliver
  <2>3. CASE k # m
    <3>1. queue'[m] = queue[m] /\ mode' = mode /\ ~Busy(i) /\ \A j \in Instances \ {i} : job'[j] = job[j]
      BY <1>4, <2>3 DEF Deliver, TypeOK, Counts
    <3>2. \A j \in Awaited(m) : j \in Awaited(m)'
      BY <3>1 DEF Awaited, InHand, Busy
    <3> QED
      BY <1>2, <3>1, <3>2
  <2> QED
    BY <2>1, <2>2, <2>3
<1>5. ASSUME NEW i \in Instances, Works(i)
      PROVE  Over(m)'
  <2>1. queue' = queue /\ mode' = mode /\ InHand(m)' = InHand(m)
    BY <1>5, WorksFacts, HandKept
  <2> QED
    BY <1>3, <2>1 DEF Awaited
<1>6. ASSUME NEW i \in Instances, Ack(i)
      PROVE  Over(m)'
  <2>1. CASE i \in InHand(m)
    BY <1>1, <1>6, <2>1 DEF Ack, Accounted, InHand
  <2>2. CASE i \notin InHand(m)
    <3>1. \A j \in Instances \ {i} : job'[j] = job[j] /\ mode'[j] = mode[j]
      BY <1>6 DEF Ack, TypeOK
    <3> QED
      BY <1>3, <1>6, <2>2, <3>1 DEF Ack, Awaited, InHand, Busy
  <2> QED
    BY <2>1, <2>2
<1>7. ASSUME NEW i \in Instances, Stop(i) \/ GoDeaf(i)
      PROVE  Over(m)'
  <2>1. TakeBack(i) /\ \A j \in Instances \ {i} : job'[j] = job[j] /\ mode'[j] = mode[j]
    BY <1>7 DEF Stop, GoDeaf, TypeOK
  <2>2. i \notin Awaited(m)
    BY <2>1, TakeBackFacts DEF Awaited, InHand
  <2>3. queue[m] = 0
    BY <2>1, TakeBackFacts
  <2>4. Awaited(m) = {}
    BY <2>1, <2>2 DEF Awaited, InHand, Busy
  <2> QED
    BY <1>2, <2>3, <2>4
<1>8. ASSUME NEW i \in Instances, Shutdown(i) \/ Start(i) \/ Fetch(i) \/ WriteDay(i)
      PROVE  Over(m)'
  BY <1>3, <1>8 DEF Shutdown, Start, Fetch, WriteDay, Awaited, InHand, Busy, TypeOK
<1>9. ASSUME NEW k \in Messages, Republish(k)
      PROVE  Over(m)'
  <2>1. queue' = Add(queue, k) /\ job' = job /\ mode' = mode
    BY <1>9 DEF Republish
  <2>2. queue[m] = 0
    BY <2>1, AddFacts DEF TypeOK
  <2>3. Awaited(m) = {}
    BY <2>1 DEF Awaited, InHand, Busy
  <2> QED
    BY <1>2, <2>2, <2>3
<1>10. CASE UNCHANGED vars
  BY <1>3, <1>10 DEF vars, Awaited, InHand, Busy
<1>11. ASSUME NEW k \in Messages, Expire(k)
       PROVE  Over(m)'
  <2>1. job' = job /\ mode' = mode /\ queue[k] > 0 /\ dead' = Add(dead, k)
    BY <1>11 DEF Expire
  <2>2. CASE k = m
    <3>1. dead'[m] = dead[m] + 1 /\ dead[m] \in Nat
      BY <2>1, <2>2, AddFacts DEF TypeOK
    <3> QED
      BY <3>1
  <2>3. CASE k # m
    BY <1>2, <1>11, <2>1, <2>3 DEF Expire, Awaited, InHand, Busy, TypeOK, Counts
  <2> QED
    BY <2>2, <2>3
<1>12. ASSUME NEW k \in Messages, RetryDead(k)
       PROVE  Over(m)'
  <2>1. queue' = Add(queue, k) /\ job' = job /\ mode' = mode
    BY <1>12 DEF RetryDead
  <2>2. queue[m] = 0
    BY <2>1, AddFacts DEF TypeOK
  <2>3. Awaited(m) = {}
    BY <2>1 DEF Awaited, InHand, Busy
  <2> QED
    BY <1>2, <2>2, <2>3
<1>13. ASSUME NEW k \in Messages, DeleteDead(k) \/ MarkExpires(k)
       PROVE  Over(m)'
  BY <1>3, <1>13 DEF DeleteDead, MarkExpires, Awaited, InHand, Busy
<1> QED
  BY <1>4, <1>5, <1>6, <1>7, <1>8, <1>9, <1>10, <1>11, <1>12, <1>13 DEF Next, Works

(* One process has a message, and does not count it once it is marked.       *)
LEMMA MarkedStep == TypeOK /\ HandsFull /\ MarkedIsOver /\ [Next]_vars => MarkedIsOver'
<1> SUFFICES ASSUME TypeOK, HandsFull, MarkedIsOver, [Next]_vars
             PROVE  MarkedIsOver'
  OBVIOUS
<1>1. together \subseteq together' /\ misses \subseteq misses'
  BY DEF Next, vars, history, Deliver, CheckDuplicate, Begin, Save, Commit, Collide, Fail, Mark, Ack,
         Fetch, WriteDay, Shutdown, Stop, Start, GoDeaf, Republish, Expire, RetryDead, DeleteDead, MarkExpires
<1>2. ASSUME NEW i \in Instances, NEW k \in Messages, Deliver(i, k)
      PROVE  MarkedIsOver'
  <2>1. CASE job' = job /\ UNCHANGED <<marks, misses, together>>
    BY <2>1 DEF MarkedIsOver, InHand, Busy
  <2>2. CASE /\ job' = [job EXCEPT ![i] = JobAt("check", k)]
             /\ together' = IF InHand(k) = {} THEN together ELSE together \cup {k}
    <3>1. JobAt("check", k).at = "check" /\ JobAt("check", k).msg = k
      BY JobFacts DEF Places
    <3>2. job'[i].at = "check" /\ job'[i].msg = k /\ \A j \in Instances \ {i} : job'[j] = job[j]
      BY <2>2, <3>1 DEF TypeOK
    <3>3. \A m \in Messages : InHand(m)' \subseteq InHand(m) \cup {i}
      BY <3>2 DEF InHand, Busy
    <3>4. \A m \in Messages \ {k} : InHand(m)' = InHand(m)
      BY <1>2, <3>2 DEF Deliver, InHand, Busy
    <3>5. marks' = marks /\ misses' = misses
      BY <1>2 DEF Deliver
    <3>6. ASSUME NEW m \in Messages \ together', NEW a \in InHand(m)', NEW b \in InHand(m)'
          PROVE  a = b
      <4>1. CASE m = k
        BY <2>2, <3>3, <3>6, <4>1
      <4>2. CASE m # k
        BY <1>1, <3>4, <3>6, <4>2 DEF MarkedIsOver
      <4> QED
        BY <4>1, <4>2
    <3>7. ASSUME NEW m \in marks' \ (misses' \cup together'), NEW a \in InHand(m)'
          PROVE  job'[a].at \notin {"begin", "save", "commit"}
      <4>1. m \in Messages /\ m \in marks \ (misses \cup together)
        BY <1>1, <3>5, <3>7 DEF TypeOK
      <4>2. CASE a = i
        BY <3>2, <4>2
      <4>3. CASE a # i
        BY <3>2, <3>3, <3>7, <4>1, <4>3 DEF MarkedIsOver, InHand
      <4> QED
        BY <4>2, <4>3
    <3> QED
      BY <3>6, <3>7 DEF MarkedIsOver
  <2> QED
    BY <1>2, <2>1, <2>2 DEF Deliver
<1>3. ASSUME NEW i \in Instances, Works(i), ~Mark(i), ~CheckDuplicate(i)
      PROVE  MarkedIsOver'
  <2>1. marks' = marks /\ misses' = misses /\ together' = together
    BY <1>3 DEF Works, Begin, Save, Commit, Collide, Fail, history
  <2>2. \A m : InHand(m)' = InHand(m)
    BY <1>3, WorksFacts, HandKept
  <2>3. job[i].at \in {"begin", "save", "commit"} /\ \A j \in Instances \ {i} : job'[j] = job[j]
    BY <1>3, WorksFacts DEF Works, Begin, Save, Commit, Collide, Fail, Moves, Others
  <2>4. MarkedIsOver => \A m \in marks \ (misses \cup together) : i \notin InHand(m)
    BY <2>3 DEF MarkedIsOver
  <2>5. \A a \in Instances : a # i => job'[a] = job[a]
    BY <2>3
  <2> QED
    BY <2>1, <2>2, <2>4, <2>5 DEF MarkedIsOver, InHand
<1>4. ASSUME NEW i \in Instances, CheckDuplicate(i)
      PROVE  MarkedIsOver'
  <2>1. Works(i) /\ marks' = marks /\ together' = together
    BY <1>4 DEF Works, CheckDuplicate
  <2>2. \A m : InHand(m)' = InHand(m)
    BY <2>1, WorksFacts, HandKept
  <2>3. \A j \in Instances \ {i} : job'[j] = job[j]
    BY <2>1, WorksFacts DEF Moves, Others
  <2>4. Moves(i, "ack") \/ job[i].msg \notin marks \/ job[i].msg \in misses'
    BY <1>4, GotoFacts DEF CheckDuplicate, SeenBefore, Places
  <2>5. ASSUME NEW m \in marks' \ (misses' \cup together'), NEW a \in InHand(m)'
        PROVE  job'[a].at \notin {"begin", "save", "commit"}
    <3>1. a \in Instances /\ a \in InHand(m) /\ job[a].msg = m
      BY <2>2, <2>5 DEF InHand
    <3>2. CASE a = i
      BY <2>1, <2>4, <2>5, <3>1, <3>2 DEF Moves
    <3>3. CASE a # i
      BY <1>1, <2>1, <2>3, <2>5, <3>1, <3>3 DEF MarkedIsOver
    <3> QED
      BY <3>2, <3>3
  <2> QED
    BY <2>1, <2>2, <2>5 DEF MarkedIsOver
<1>5. ASSUME NEW i \in Instances, Mark(i)
      PROVE  MarkedIsOver'
  <2>1. Works(i) /\ together' = together /\ misses' = misses /\ marks' \subseteq marks \cup {job[i].msg}
    BY <1>5 DEF Works, Mark, history
  <2>2. \A m : InHand(m)' = InHand(m)
    BY <2>1, WorksFacts, HandKept
  <2>3. Moves(i, "ack")
    BY <1>5, GotoFacts DEF Mark, Places
  <2>4. i \in InHand(job[i].msg) /\ job[i].msg \in Messages
    BY <1>5 DEF Mark, InHand, Busy, HandsFull
  <2>5. ASSUME NEW m \in marks' \ (misses' \cup together'), NEW a \in InHand(m)'
        PROVE  job'[a].at \notin {"begin", "save", "commit"}
    <3>1. CASE a = i
      BY <2>3, <3>1 DEF Moves
    <3>2. CASE a # i
      <4>1. job'[a] = job[a] /\ a \in InHand(m)
        BY <2>2, <2>3, <2>5, <3>2 DEF Moves, Others, InHand
      <4>2. m # job[i].msg
        BY <2>1, <2>4, <2>5, <3>2, <4>1 DEF MarkedIsOver
      <4> QED
        BY <2>1, <2>5, <4>1, <4>2 DEF MarkedIsOver
    <3> QED
      BY <3>1, <3>2
  <2> QED
    BY <2>1, <2>2, <2>5 DEF MarkedIsOver
<1>6. ASSUME NEW i \in Instances, Ack(i) \/ Stop(i)
      PROVE  MarkedIsOver'
  <2>1. /\ marks' = marks /\ misses' = misses /\ together' = together
        /\ job'[i].at = "idle" /\ \A j \in Instances \ {i} : job'[j] = job[j]
    BY <1>6, JobFacts DEF Ack, Stop, TypeOK, history
  <2>2. \A m : InHand(m)' \subseteq InHand(m) /\ i \notin InHand(m)'
    BY <2>1 DEF InHand, Busy
  <2> QED
    BY <2>1, <2>2 DEF MarkedIsOver, InHand
<1>7. CASE UNCHANGED <<job, marks, misses, together>>
  BY <1>7 DEF MarkedIsOver, InHand, Busy
<1>8. ASSUME NEW i \in Instances, Fetch(i) \/ WriteDay(i) \/ Shutdown(i) \/ Start(i) \/ GoDeaf(i)
      PROVE  MarkedIsOver'
  BY <1>7, <1>8 DEF Fetch, WriteDay, Shutdown, Start, GoDeaf, history
<1>9. ASSUME NEW m \in Messages, Republish(m) \/ Expire(m) \/ RetryDead(m) \/ DeleteDead(m)
      PROVE  MarkedIsOver'
  BY <1>7, <1>9 DEF Republish, Expire, RetryDead, DeleteDead, history
<1>11. ASSUME NEW m \in Messages, MarkExpires(m)
       PROVE  MarkedIsOver'
  BY <1>11 DEF MarkExpires, MarkedIsOver, InHand, Busy, history
<1>10. CASE UNCHANGED vars
  BY <1>7, <1>10 DEF vars
<1> QED
  BY <1>2, <1>3, <1>4, <1>5, <1>6, <1>8, <1>9, <1>10, <1>11 DEF Next, Works
-----------------------------------------------------------------------------
(* The invariant. *)
LEMMA StatsInit == Init => StatsInv
<1> SUFFICES ASSUME Init
             PROVE  StatsInv
  OBVIOUS
<1> USE HourlyStatsAssumption
<1>1. \A i \in Instances : job[i] = Idle /\ ~Busy(i) /\ ~Open(i)
  BY JobFacts DEF Init, Busy, Open
<1>2. TypeOK
  <2>1. queue \in Counts /\ dead \in Counts /\ daily \in Counts /\ counted \in Counts /\ failures \in Counts
    BY JobFacts DEF Init, Counts
  <2>2. row \in [is : BOOLEAN, n : Counts]
    BY JobFacts DEF Init
  <2>3. job \in [Instances -> Jobs] /\ mode \in [Instances -> Modes]
    BY JobFacts DEF Init, Modes
  <2>4. rollup \in [Instances -> Rollups]
    BY JobFacts DEF Init, Rollups, RollupAt
  <2>5. faults \in 0 .. MaxFaults
    <3>1. MaxFaults \in Nat
      BY DEF HourlyStatsAssumption
    <3>2. faults = 0
      BY DEF Init
    <3> QED
      BY <3>1, <3>2
  <2>7. overlap \in BOOLEAN
    BY DEF Init
  <2>6. marks \subseteq Messages /\ dropped \subseteq Messages /\ misses \subseteq Messages /\ together \subseteq Messages
    BY DEF Init
  <2> QED
    BY <2>1, <2>2, <2>3, <2>4, <2>5, <2>6, <2>7 DEF TypeOK
<1>3. HandsFull /\ ReadIsCurrent
  BY <1>1 DEF Init, HandsFull, ReadIsCurrent
<1>4. DayIsBehind
  BY DEF Init, DayIsBehind, RollupAt, NoRow
<1>5. Accounted
  BY <1>1, JobFacts DEF Init, Accounted
<1>6. NoneLeft
  BY DEF Init, NoneLeft
<1>7. MarkedIsOver
  BY <1>1 DEF Init, MarkedIsOver, InHand
<1> QED
  BY <1>2, <1>3, <1>4, <1>5, <1>6, <1>7 DEF StatsInv

LEMMA StatsStep == StatsInv /\ [Next]_vars => StatsInv'
BY TypeStep, ReadStep, DayStep, AccountedStep, NoneLeftStep, MarkedStep DEF StatsInv

LEMMA StatsInvariant == Spec => []StatsInv
BY StatsInit, StatsStep, PTL DEF Spec

(* Only a commit counts, and it counts the message in hand.                 *)
LEMMA CountStep ==
  StatsInv /\ [Next]_vars => \A m \in marks \ (misses \cup together) : counted'[m] = counted[m]
<1> SUFFICES ASSUME StatsInv, [Next]_vars, NEW m \in marks \ (misses \cup together)
             PROVE  counted'[m] = counted[m]
  OBVIOUS
<1>1. CASE counted' = counted
  BY <1>1
<1>2. ASSUME NEW i \in Instances, Commit(i) \/ Fail(i), Committed(i), job[i].at = "commit"
      PROVE  counted'[m] = counted[m]
  <2>1. Busy(i) /\ m \in Messages
    BY <1>2 DEF Busy, StatsInv, TypeOK
  <2>2. job[i].msg # m
    BY <1>2, <2>1 DEF StatsInv, MarkedIsOver, InHand
  <2> QED
    BY <1>2, <2>1, <2>2, CommitFacts DEF StatsInv
<1>3. CASE \E i \in Instances : (Commit(i) \/ Fail(i)) /\ Committed(i) /\ job[i].at = "commit"
  BY <1>2, <1>3
<1>4. \/ counted' = counted
      \/ \E i \in Instances : (Commit(i) \/ Fail(i)) /\ Committed(i) /\ job[i].at = "commit"
  BY DEF Next, vars, history, Deliver, CheckDuplicate, Begin, Save, Commit, Collide, Fail, Mark, Ack,
         Fetch, WriteDay, Shutdown, Stop, Start, GoDeaf, Republish, Expire, RetryDead, DeleteDead, MarkExpires
<1> QED
  BY <1>1, <1>3, <1>4

-----------------------------------------------------------------------------
(* The variables of the aggregation keep their types, for any number of     *)
(* messages, processes and failures of the aggregator.                      *)
THEOREM StatsTypeCorrect == Spec => []TypeOK
BY StatsInvariant, PTL DEF StatsInv

(* The row that HourlyAggregatorService saves counts the committed updates, *)
(* while its transactions do not overlap.                                   *)
THEOREM StatsRowIsTheCommits == Spec => []RowIsTheCommits
<1>1. StatsInv => RowIsTheCommits
  BY DEF StatsInv, ReadIsCurrent, RowIsTheCommits
<1> QED
  BY <1>1, StatsInvariant, PTL

(* AnalysisResultConsumer forgets no message: it is counted, a dead letter, *)
(* dropped by a shutdown or a person, or has failed MaxTries times.         *)
THEOREM StatsNoneForgotten == Spec => []NoneForgotten
<1>1. StatsInv => NoneForgotten
  BY DEF StatsInv, NoneLeft, Awaited, NoneForgotten, Settled
<1> QED
  BY <1>1, StatsInvariant, PTL

(* The day that DailyAggregatorService writes stays within its hours.       *)
THEOREM StatsDayWithinHours == Spec => []DayWithinHours
<1>1. StatsInv => DayWithinHours
  BY DEF StatsInv, DayIsBehind, DayWithinHours
<1> QED
  BY <1>1, StatsInvariant, PTL

(* A message that MessageIdempotencyService marked is not counted again     *)
(* while its mark lives, unless Redis denied the mark or two processes had  *)
(* it in hand.                                                              *)
THEOREM StatsMarkedIsFinal == Spec => MarkedIsFinal
<1>1. StatsInv /\ [Next]_vars =>
        [\A m \in marks \ (misses \cup together) : counted'[m] = counted[m]]_vars
  BY CountStep
<1> QED
  BY <1>1, StatsInvariant, PTL DEF Spec, MarkedIsFinal
=============================================================================
