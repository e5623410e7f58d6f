---------------------------- MODULE HourlyStats ----------------------------
(***************************************************************************)
(* apps/aggregator: results of the analysis become counts of an hour, and  *)
(* counts of hours become those of a day.  AnalysisResultConsumer takes    *)
(* one message at a time from the legacy RabbitMQ client,                  *)
(* MessageIdempotencyService asks Redis whether its id has been processed, *)
(* runs the update at most MaxTries times and marks the id;                *)
(* HourlyAggregatorService reads the hour's row, adds to it and saves it   *)
(* in a transaction that TransactionService repeats after a deadlock; and  *)
(* DailyAggregatorService copies hours into the row of their day.          *)
(*                                                                         *)
(* One keyword and one hour with its day.  postCount is kept by message: a *)
(* row says how often each message is in it, so that a lost and a doubled  *)
(* message do not cancel out.  PostgreSQL is external: READ COMMITTED, a   *)
(* written row is locked until its transaction ends, (keyword, hour) is    *)
(* unique.  So are Redis, whose failures CacheService turns into "no", and *)
(* the broker, which gives a message it got no answer for to the next one, *)
(* and to the dead letters what has waited for 30 minutes.                 *)
(***************************************************************************)
EXTENDS Integers, FiniteSets

CONSTANTS
  Messages,    \* ids of AnalysisResultEvents of the hour
  Instances,   \* aggregator processes
  MaxTries,    \* MAX_RETRY_ATTEMPTS, 3
  MaxRetries,  \* maxRetries of the transaction, 3
  MaxFaults    \* bound: failures of Redis, PostgreSQL, processes and broker,
               \* and messages and marks that expire

ASSUME HourlyStatsAssumption ==
  /\ MaxTries \in Nat \ {0} /\ MaxRetries \in Nat /\ MaxFaults \in Nat

NoRow == [m \in Messages |-> 0]

VARIABLES
  queue,     \* queue[m]: copies of m ready in analysis_result_queue
  dead,      \* dead[m]: copies of m in analysis_result_queue.dlq
  mode,      \* mode[i]: the process and its consumer
  job,       \* job[i]: the message in hand and how far it is
  marks,     \* ids with a key msg:processed:<id> in Redis, for 24 hours
  row,       \* hourly_stats: [is: whether it exists, n: what it counts]
  rollup,    \* rollup[i]: the hours rollupFromHourly() has fetched
  daily,     \* daily_stats: what the day's row counts
  faults,    \* failures and expiries so far
  counted,   \* history: how often an update with m has been committed
  dropped,   \* history: messages acknowledged while shutting down, or
             \* deleted from the dead letters by a person
  failures,  \* history: failures of the update with m
  misses,    \* history: processed messages Redis did not know
  overlap,   \* history: two transactions have been open at one time
  together   \* history: messages that were in two hands at one time

vars == <<queue, dead, mode, job, marks, row, rollup, daily, faults,
          counted, dropped, failures, misses, overlap, together>>
history == <<counted, dropped, failures, misses, overlap, together>>

Counts == [Messages -> Nat]
Modes  == {"up", "deaf", "stopping", "down"}
Places == {"idle", "check", "begin", "save", "commit", "mark", "ack"}
Jobs   == [at : Places, msg : Messages \cup {"none"}, tries : Nat, txs : Nat,
           new : BOOLEAN, read : Counts]

Idle == [at |-> "idle", msg |-> "none",
         tries |-> 0, txs |-> 0, new |-> FALSE, read |-> NoRow]
Rollups == [at : {"before", "fetched", "over"}, read : Counts]
RollupAt(at, n) == [at |-> at, read |-> n]

\* A failure or an expiry.
Fault == faults < MaxFaults /\ faults' = faults + 1

Busy(i) == job[i].at # "idle"
InHand(m) == {i \in Instances : Busy(i) /\ job[i].msg = m}

\* Between startTransaction and commit or rollback, the row read.
Open(i) == job[i].at \in {"save", "commit"}

\* The lock on the row, or on its key in the unique index.
Locked == \E i \in Instances : job[i].at = "commit"

Add(n, m) == [n EXCEPT ![m] = @ + 1]

JobAt(at, m) == [Idle EXCEPT !.at = at, !.msg = m]
Goto(i, at)  == job' = [job EXCEPT ![i] = JobAt(at, job[i].msg)]

Init ==
  /\ queue = [m \in Messages |-> 1]
  /\ dead = NoRow
  /\ mode = [i \in Instances |-> "up"]
  /\ job = [i \in Instances |-> Idle]
  /\ marks = {}
  /\ row = [is |-> FALSE, n |-> NoRow]
  /\ rollup = [i \in Instances |-> RollupAt("before", NoRow)]
  /\ daily = NoRow
  /\ faults = 0
  /\ counted = NoRow /\ dropped = {} /\ failures = NoRow /\ misses = {}
  /\ overlap = FALSE /\ together = {}

-----------------------------------------------------------------------------
(* The consumer *)

\* The broker delivers, prefetch 1.  While shutting down the callback
\* returns at once, and the client acknowledges what nobody has counted.
Deliver(i, m) ==
  /\ queue[m] > 0 /\ ~Busy(i)
  /\ queue' = [queue EXCEPT ![m] = @ - 1]
  /\ \/ /\ mode[i] = "up"
        /\ job' = [job EXCEPT ![i] = JobAt("check", m)]
        /\ together' = IF InHand(m) = {} THEN together ELSE together \cup {m}
        /\ UNCHANGED dropped
     \/ /\ mode[i] = "stopping"
        /\ dropped' = dropped \cup {m}
        /\ UNCHANGED <<job, together>>
  /\ UNCHANGED <<dead, mode, marks, row, rollup, daily, faults,
                 counted, failures, misses, overlap>>

\* isDuplicate(): a failing Redis says that the key does not exist.
NeverSeen(m)  == FALSE    \* mutation: the check is skipped
SeenBefore(m) == m \in marks
StartUpdate(i) ==
  job' = [job EXCEPT ![i].at = "begin", ![i].tries = 1, ![i].txs = 1]
CheckDuplicate(i) ==
  /\ job[i].at = "check"
  /\ \/ /\ SeenBefore(job[i].msg) /\ Goto(i, "ack")
        /\ UNCHANGED <<faults, misses>>
     \/ /\ ~SeenBefore(job[i].msg) /\ StartUpdate(i)
        /\ UNCHANGED <<faults, misses>>
     \/ /\ SeenBefore(job[i].msg) /\ StartUpdate(i)
        /\ Fault /\ misses' = misses \cup {job[i].msg}
  /\ UNCHANGED <<queue, dead, mode, marks, row, rollup, daily,
                 counted, dropped, failures, overlap, together>>

\* startTransaction and findOne().
ReadOnce(i) == IF job[i].tries > 1 THEN job[i].read ELSE row.n  \* mutation
ReadRow(i)  == row.n
Begin(i) ==
  /\ job[i].at = "begin"
  /\ job' = [job EXCEPT ![i].at = "save", ![i].new = ~row.is, ![i].read = ReadRow(i)]
  /\ overlap' = (overlap \/ \E j \in Instances \ {i} : Open(j))
  /\ UNCHANGED <<queue, dead, mode, marks, row, rollup, daily, faults,
                 counted, dropped, failures, misses, together>>

\* save() waits for the row's lock and writes what was read, one added.
Save(i) ==
  /\ job[i].at = "save" /\ ~Locked
  /\ ~(job[i].new /\ row.is)
  /\ job' = [job EXCEPT ![i].at = "commit"]
  /\ UNCHANGED <<queue, dead, mode, marks, row, rollup, daily, faults, history>>

\* The transaction's rows appear.
Committed(i) ==
  /\ row' = [is |-> TRUE, n |-> Add(job[i].read, job[i].msg)]
  /\ counted' = Add(counted, job[i].msg)

Commit(i) ==
  /\ job[i].at = "commit"
  /\ Committed(i)
  /\ Goto(i, "mark")
  /\ UNCHANGED <<queue, dead, mode, marks, rollup, daily, faults,
                 dropped, failures, misses, overlap, together>>

\* executeInTransaction() returns without success and the update throws:
\* retryableProcess() tries again, and after the last try
\* processWithIdempotency() reports an error that the consumer only logs,
\* so the message is acknowledged.
TriesOnce(j)  == FALSE    \* mutation: the first failure is the last
TriesAgain(j) == j.tries < MaxTries
UpdateThrows(i) ==
  /\ failures' = Add(failures, job[i].msg)
  /\ job' = [job EXCEPT ![i] =
       IF TriesAgain(job[i])
       THEN [job[i] EXCEPT !.at = "begin", !.tries = job[i].tries + 1, !.txs = 1]
       ELSE JobAt("ack", job[i].msg)]

\* Two first updates of an hour: the second INSERT violates the index.
Collide(i) ==
  /\ job[i].at = "save" /\ ~Locked
  /\ job[i].new /\ row.is
  /\ UpdateThrows(i)
  /\ UNCHANGED <<queue, dead, mode, marks, row, rollup, daily, faults,
                 counted, dropped, misses, overlap, together>>

\* A statement or the commit fails and is rolled back, or the commit happens
\* and its answer is lost; a deadlock has the transaction repeated.
Fail(i) ==
  /\ job[i].at \in {"begin", "save", "commit"} /\ Fault
  /\ \/ UpdateThrows(i) /\ UNCHANGED <<row, counted>>
     \/ job[i].at = "commit" /\ Committed(i) /\ UpdateThrows(i)
     \/ /\ job[i].at = "save" /\ job[i].txs <= MaxRetries
        /\ job' = [job EXCEPT ![i].at = "begin", ![i].txs = @ + 1]
        /\ UNCHANGED <<row, counted, failures>>
  /\ UNCHANGED <<queue, dead, mode, marks, rollup, daily, dropped, misses, overlap, together>>

\* markAsProcessed(): a failing Redis is not noticed.
Mark(i) ==
  /\ job[i].at = "mark"
  /\ Goto(i, "ack")
  /\ \/ marks' = marks \cup {job[i].msg} /\ UNCHANGED faults
     \/ UNCHANGED marks /\ Fault
  /\ UNCHANGED <<queue, dead, mode, row, rollup, daily, history>>

\* channel.ack().  On a channel the broker has closed it throws, and so does
\* the nack() of the handler around it: nobody catches that, and Node ends.
Ack(i) ==
  /\ job[i].at = "ack"
  /\ job' = [job EXCEPT ![i] = Idle]
  /\ IF mode[i] = "deaf"
     THEN /\ mode' = [mode EXCEPT ![i] = "down"]
          /\ rollup' = [rollup EXCEPT ![i] = RollupAt("over", NoRow)]
     ELSE UNCHANGED <<mode, rollup>>
  /\ UNCHANGED <<queue, dead, marks, row, daily, faults, history>>

-----------------------------------------------------------------------------
(* The rollup of the day, at 3 o'clock once in every process then alive *)

Fetch(i) ==
  /\ mode[i] # "down" /\ rollup[i].at = "before"
  /\ row.is     \* without hours it returns
  /\ rollup' = [rollup EXCEPT ![i] = RollupAt("fetched", row.n)]
  /\ UNCHANGED <<queue, dead, mode, job, marks, row, daily, faults, history>>

\* One transaction that overwrites the day's row with what was fetched.
AddUp(i)     == [m \in Messages |-> daily[m] + rollup[i].read[m]]   \* mutation
DayOf(i)     == rollup[i].read
WriteDay(i) ==
  /\ rollup[i].at = "fetched"
  /\ rollup' = [rollup EXCEPT ![i] = RollupAt("over", NoRow)]
  /\ \/ daily' = DayOf(i) /\ UNCHANGED faults
     \/ UNCHANGED daily /\ Fault
  /\ UNCHANGED <<queue, dead, mode, job, marks, row, history>>

-----------------------------------------------------------------------------
(* Processes and the broker *)

\* What was delivered to i and not answered goes back to the queue.
TakeBack(i) ==
  queue' = IF Busy(i) /\ mode[i] # "deaf" THEN Add(queue, job[i].msg) ELSE queue

\* onModuleDestroy(); the message in hand is processed to its end.
Shutdown(i) ==
  /\ mode[i] = "up"
  /\ mode' = [mode EXCEPT ![i] = "stopping"]
  /\ UNCHANGED <<queue, dead, job, marks, row, rollup, daily, faults, history>>

\* The process ends, after a shutdown or by a crash; its transactions are
\* rolled back.
Stop(i) ==
  /\ mode[i] # "down"
  /\ mode' = [mode EXCEPT ![i] = "down"]
  /\ TakeBack(i)
  /\ job' = [job EXCEPT ![i] = Idle]
  /\ rollup' = [rollup EXCEPT ![i] = RollupAt("over", NoRow)]
  /\ IF mode[i] = "stopping" /\ ~Busy(i) THEN UNCHANGED faults ELSE Fault
  /\ UNCHANGED <<dead, marks, row, daily, history>>

Start(i) ==
  /\ mode[i] = "down"
  /\ mode' = [mode EXCEPT ![i] = "up"]
  /\ UNCHANGED <<queue, dead, job, marks, row, rollup, daily, faults, history>>

\* The broker closes the connection.  The legacy client does not notice: it
\* will get no message again, and what it has in hand is delivered to others.
GoDeaf(i) ==
  /\ mode[i] = "up" /\ Fault
  /\ mode' = [mode EXCEPT ![i] = "deaf"]
  /\ TakeBack(i)
  /\ UNCHANGED <<dead, job, marks, row, rollup, daily, history>>

\* The analyzer publishes a result twice.
Republish(m) ==
  /\ Fault
  /\ queue' = Add(queue, m)
  /\ UNCHANGED <<dead, mode, job, marks, row, rollup, daily, history>>

-----------------------------------------------------------------------------
(* What expires: 30 minutes in the queue, 24 hours of a mark *)

\* setupQueue() declares the queue with x-message-ttl and a dead letter
\* exchange: a message that waited too long moves to the .dlq uncounted.
Expire(m) ==
  /\ queue[m] > 0 /\ Fault
  /\ queue' = [queue EXCEPT ![m] = @ - 1]
  /\ dead' = Add(dead, m)
  /\ UNCHANGED <<mode, job, marks, row, rollup, daily, history>>

\* retryMessages(), for a person at the page of the dead letters: send to the
\* queue again, then acknowledge.  Without the second it is in both.
RetryDead(m) ==
  /\ dead[m] > 0
  /\ queue' = Add(queue, m)
  /\ \/ dead' = [dead EXCEPT ![m] = @ - 1] /\ UNCHANGED faults
     \/ UNCHANGED dead /\ Fault
  /\ UNCHANGED <<mode, job, marks, row, rollup, daily, history>>

\* deleteMessages()
DeleteDead(m) ==
  /\ dead[m] > 0
  /\ dead' = [dead EXCEPT ![m] = @ - 1]
  /\ dropped' = dropped \cup {m}
  /\ UNCHANGED <<queue, mode, job, marks, row, rollup, daily, faults,
                 counted, failures, misses, overlap, together>>

\* The key of the mark reaches its TTL.
MarkExpires(m) ==
  /\ m \in marks /\ Fault
  /\ marks' = marks \ {m}
  /\ UNCHANGED <<queue, dead, mode, job, row, rollup, daily, history>>

-----------------------------------------------------------------------------

Next ==
  \/ \E i \in Instances :
       \/ \E m \in Messages : Deliver(i, m)
       \/ CheckDuplicate(i) \/ Begin(i) \/ Save(i) \/ Commit(i) \/ Collide(i)
       \/ Fail(i) \/ Mark(i) \/ Ack(i)
       \/ Fetch(i) \/ WriteDay(i)
       \/ Shutdown(i) \/ Stop(i) \/ Start(i) \/ GoDeaf(i)
  \/ \E m \in Messages :
       Republish(m) \/ Expire(m) \/ RetryDead(m) \/ DeleteDead(m) \/ MarkExpires(m)

Spec == Init /\ [][Next]_vars

-----------------------------------------------------------------------------
(* Correctness *)

TypeOK ==
  /\ queue \in Counts /\ dead \in Counts
  /\ mode \in [Instances -> Modes]
  /\ job \in [Instances -> Jobs]
  /\ marks \subseteq Messages
  /\ row \in [is : BOOLEAN, n : Counts]
  /\ rollup \in [Instances -> Rollups]
  /\ daily \in Counts
  /\ faults \in 0 .. MaxFaults
  /\ counted \in Counts /\ failures \in Counts
  /\ dropped \subseteq Messages /\ misses \subseteq Messages /\ together \subseteq Messages
  /\ overlap \in BOOLEAN

\* As long as no two transactions have been open at once, the hour's row
\* counts exactly the committed updates: a retry after a deadlock, a rolled
\* back or an unconfirmed commit adds nothing and takes nothing away.
RowIsTheCommits == ~overlap => row.n = counted

\* While its mark lives, a message is not counted again, however often it is
\* delivered and wherever processes stop, unless Redis denied the mark or two
\* processes had the message in hand at once.  The mark lives for 24 hours; a
\* message that comes again after that is counted again.
MarkedIsFinal ==
  [][\A m \in marks \ (misses \cup together) : counted'[m] = counted[m]]_vars

\* A message that is in the queue no more and in nobody's hand has been
\* counted, lies in the dead letters, was acknowledged by a process that was
\* shutting down or deleted from the dead letters by a person, or its update
\* failed MaxTries times.
Settled(m) == queue[m] = 0 /\ InHand(m) = {}
NoneForgotten ==
  \A m \in Messages :
    Settled(m) => counted[m] > 0 \/ dead[m] > 0 \/ m \in dropped \/ failures[m] >= MaxTries

\* Rolling a day up again, in another process or after a failure, never makes
\* the day count more than its hours.
DayWithinHours ==
  ~overlap => \A m \in Messages : daily[m] <= row.n[m]
=============================================================================
