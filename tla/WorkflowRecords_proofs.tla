----------------------- MODULE WorkflowRecords_proofs -----------------------
(***************************************************************************)
(* Proofs about WorkflowRecords, for every set of runs and resumptions,    *)
(* every number of steps and any faults: the types, that the copy of the   *)
(* definition follows its row (CacheFollowsRow), that a resumption never   *)
(* executes beside its run (RunIsAlone), that what is recorded as running  *)
(* is run (RunningMeansRun) and that the record never goes back            *)
(* (NeverGoesBack).                                                        *)
(*                                                                         *)
(* The definition's part follows from the lock that a run holds from       *)
(* before it fills the cache until it commits (Locked).  The execution's   *)
(* part follows from where a run is while its record has no graph          *)
(* (Unwritten): no resumption can start before the run is past its loop,   *)
(* and it never returns to it (Resumed).  An execution that no two calls   *)
(* have worked on at once belongs to the one that is active (Alone).       *)
(***************************************************************************)
EXTENDS WorkflowRecords, TLAPS

Before == {"idle", "lookup", "refresh", "find", "save", "cache", "commit", "create"}
Early  == {"open", "look", "fill", "loop"}
Late   == {"publish", "catch", "ended"}

\* The row's lock is held from the write to the commit, by one run; the cache
\* has what was written last.
Locked ==
  /\ lock # None => at[lock] \in {"cache", "commit"}
  /\ \A r \in Runs : at[r] \in {"cache", "commit"} => lock = r
  /\ ~torn /\ ~raced => cache \in {None, Newest}

\* Only resumptions resume, and only runs that are past their loop.
Resumed ==
  /\ \A r \in Runs : at[r] # "resume"
  /\ \A c \in Resumers :
       /\ at[c] \in {"idle", "resume", "loop", "publish", "catch", "ended"}
       /\ ~Idle(c) => of[c] \in Runs /\ at[of[c]] \in Late

\* There is no record before the run creates it, and no graph in it before
\* the run's loop is over.
Unwritten ==
  \A r \in Runs :
    /\ at[r] \in Before => record[r] = NoRecord
    /\ at[r] \in Early => record[r].meta = Empty

\* The one call that works on an execution is ahead of the record, which does
\* not say success while the call is in its loop or before it.
Alone ==
  \A e \in Runs \ overlapped : \A c \in Active(e) :
    /\ \A d \in Active(e) : d = c
    /\ graph[c].done >= record[e].meta.done
    /\ at[c] \in Early \cup {"resume"} => record[e].status # "success"

RecordsInv == TypeOK /\ Locked /\ Resumed /\ Unwritten /\ RunningMeansRun /\ Alone
-----------------------------------------------------------------------------
(* The calls are the runs and the resumptions, which differ. *)
LEMMA CallsFacts ==
  /\ Runs \subseteq Calls /\ Resumers \subseteq Calls /\ Runs \cap Resumers = {}
  /\ \A r \in Runs : r # None
BY RecordsAssumption DEF Calls

(* An active call is about an execution. *)
LEMMA AboutType ==
  ASSUME TypeOK, Resumed, NEW c \in Calls, ~Idle(c)
  PROVE  About(c) \in Runs
BY DEF Resumed, About, Calls

LEMMA GraphFacts ==
  /\ Fresh \in Graph /\ Empty \notin Graph /\ None \in Statuses
  /\ \A g \in Graph : g.state \in {"running", "success", "fail"} /\ g.done \in Nat
  /\ \A g \in Graph : g.state = "running" =>
       \A h \in Later(g) : h \in Graph /\ h.done >= g.done
<1> USE RecordsAssumption
<1>1. /\ Fresh \in Graph /\ Empty \notin Graph /\ None \in Statuses
      /\ \A g \in Graph : g.state \in {"running", "success", "fail"} /\ g.done \in Nat
  BY DEF Graph, Fresh, Empty, None, Statuses
<1>2. ASSUME NEW g \in Graph, g.state = "running", NEW h \in Later(g)
      PROVE  h \in Graph /\ h.done >= g.done
  <2>1. g.done \in 0 .. Steps /\ g.done < Steps
    BY <1>2 DEF Graph
  <2>2. CASE h = [g EXCEPT !.state = "fail"]
    BY <2>1, <2>2 DEF Graph
  <2>3. CASE h = [done |-> g.done + 1,
                  state |-> IF g.done + 1 = Steps THEN "success" ELSE "running"]
    BY <2>1, <2>3 DEF Graph
  <2> QED
    BY <1>2, <2>2, <2>3 DEF Later
<1> QED
  BY <1>1, <1>2
(* A record written has the type of records. *)
LEMMA WriteType ==
  ASSUME TypeOK, NEW e \in Runs, NEW s \in Statuses, NEW g \in Graph \cup {Empty}, NEW n \in Nat,
         Write(e, s, g, n)
  PROVE  record' \in [Runs -> [status : Statuses, meta : Graph \cup {Empty}, retries : Nat]]
BY DEF TypeOK, Write

(* Every step keeps the types. *)
LEMMA TypeStep == TypeOK /\ Resumed /\ [Next]_vars => TypeOK'
<1> SUFFICES ASSUME TypeOK, Resumed, [Next]_vars
             PROVE  TypeOK'
  OBVIOUS
<1> USE CallsFacts, RecordsAssumption
<1>1. ASSUME NEW r \in Runs, Start(r)
      PROVE  TypeOK'
  BY <1>1 DEF Start, TypeOK, definition, execution, Goto, Places
<1>2. ASSUME NEW r \in Runs, Lookup(r)
      PROVE  TypeOK'
  BY <1>2 DEF Lookup, TypeOK, definition, execution, Goto, Places
<1>3. ASSUME NEW r \in Runs, Refresh(r)
      PROVE  TypeOK'
  BY <1>3 DEF Refresh, TypeOK, definition, execution, Goto, Places
<1>4. ASSUME NEW r \in Runs, Find(r)
      PROVE  TypeOK'
  BY <1>4 DEF Find, TypeOK, definition, execution, Goto, Places
<1>5. ASSUME NEW r \in Runs, Save(r)
      PROVE  TypeOK'
  BY <1>5 DEF Save, TypeOK, definition, execution, Goto, Places
<1>6. ASSUME NEW r \in Runs, CacheDefinition(r)
      PROVE  TypeOK'
  BY <1>6 DEF CacheDefinition, TypeOK, definition, execution, Goto, Places
<1>7. ASSUME NEW r \in Runs, Commit(r)
      PROVE  TypeOK'
  BY <1>7 DEF Commit, TypeOK, definition, execution, Goto, Places
<1>8. ASSUME NEW r \in Runs, UpsertThrows(r)
      PROVE  TypeOK'
  BY <1>8 DEF UpsertThrows, TypeOK, definition, execution, Goto, Fault, Places
<1>9. ASSUME NEW r \in Runs, Create(r)
      PROVE  TypeOK'
  <2>1. record' \in [Runs -> [status : Statuses, meta : Graph \cup {Empty}, retries : Nat]]
    BY <1>9, WriteType DEF Create, Statuses
  <2> QED
    BY <1>9, <2>1 DEF Create, TypeOK, definition, Goto, Places
<1>10. ASSUME NEW r \in Runs, Open(r) \/ Look(r)
      PROVE  TypeOK'
  BY <1>10 DEF Open, Look, TypeOK, definition, execution, Goto, Places
<1>11. ASSUME NEW r \in Runs, Fill(r)
      PROVE  TypeOK'
  BY <1>11 DEF Fill, TypeOK, definition, execution, Goto, Places
<1>12. ASSUME NEW r \in Runs, OpenThrows(r)
      PROVE  TypeOK'
  BY <1>12 DEF OpenThrows, TypeOK, definition, execution, Goto, Fault, Places
<1>13. ASSUME NEW c \in Resumers, NEW e \in Runs, Resume(c, e)
      PROVE  TypeOK'
  <2>1. record[e].meta \in Graph /\ record[e].retries \in Nat
    BY <1>13 DEF TypeOK, Resume
  <2> QED
    BY <1>13, <2>1 DEF Resume, TypeOK, definition, Goto, Places
<1>14. ASSUME NEW c \in Resumers, ResumeSaves(c)
      PROVE  TypeOK'
  <2>1. of[c] \in Runs /\ graph[c] \in Graph /\ retries[c] \in Nat
    BY <1>14 DEF TypeOK, ResumeSaves, Resumed, Idle
  <2>2. record' \in [Runs -> [status : Statuses, meta : Graph \cup {Empty}, retries : Nat]]
    BY <1>14, <2>1, WriteType DEF ResumeSaves, Statuses
  <2> QED
    BY <1>14, <2>2 DEF ResumeSaves, TypeOK, definition, Goto, Places
<1>15. ASSUME NEW c \in Resumers, ResumeThrows(c)
      PROVE  TypeOK'
  BY <1>15 DEF ResumeThrows, TypeOK, definition, execution, Goto, Fault, Places
<1>16. ASSUME NEW c \in Calls, Iterate(c)
      PROVE  TypeOK'
  <2>1. PICK g \in Later(graph[c]) : graph' = [graph EXCEPT ![c] = g]
    BY <1>16 DEF Iterate
  <2>2. g \in Graph
    BY <1>16, GraphFacts DEF Iterate, TypeOK
  <2> QED
    BY <1>16, <2>1, <2>2 DEF Iterate, TypeOK, definition
<1>17. ASSUME NEW c \in Calls, IterationThrows(c)
      PROVE  TypeOK'
  <2>1. graph' = graph \/ \E g \in Graph : graph' = [graph EXCEPT ![c] = g]
    BY <1>17, GraphFacts DEF IterationThrows, TypeOK
  <2> QED
    BY <1>17, <2>1 DEF IterationThrows, TypeOK, definition, Goto, Fault, Places
<1>18. ASSUME NEW c \in Calls, Record(c)
      PROVE  TypeOK'
  <2>1. About(c) \in Runs /\ graph[c] \in Graph /\ retries[c] \in Nat
    BY <1>18, AboutType DEF Record, TypeOK, Idle
  <2>2. graph[c].state \in Statuses
    BY <2>1, GraphFacts DEF Statuses
  <2>3. record' \in [Runs -> [status : Statuses, meta : Graph \cup {Empty}, retries : Nat]]
    BY <1>18, <2>1, <2>2, WriteType DEF Record
  <2> QED
    BY <1>18, <2>3 DEF Record, TypeOK, definition, Goto, Places
<1>19. ASSUME NEW c \in Calls, RecordThrows(c)
      PROVE  TypeOK'
  BY <1>19 DEF RecordThrows, TypeOK, definition, execution, Goto, Fault, Places
<1>20. ASSUME NEW c \in Calls, Publish(c)
      PROVE  TypeOK'
  BY <1>20 DEF Publish, TypeOK, definition, execution, Goto, Places
<1>21. ASSUME NEW c \in Calls, PublishThrows(c)
      PROVE  TypeOK'
  BY <1>21 DEF PublishThrows, TypeOK, definition, execution, Goto, Fault, Places
<1>22. ASSUME NEW c \in Calls, Catch(c)
      PROVE  TypeOK'
  <2>1. About(c) \in Runs /\ graph[c] \in Graph /\ retries[c] \in Nat
    BY <1>22, AboutType DEF Catch, TypeOK, Idle
  <2>2. "fail" \in Statuses
    BY <2>1, GraphFacts DEF Statuses
  <2>3. record' \in [Runs -> [status : Statuses, meta : Graph \cup {Empty}, retries : Nat]]
    BY <1>22, <2>1, <2>2, WriteType DEF Catch
  <2> QED
    BY <1>22, <2>3 DEF Catch, TypeOK, definition, Goto, Places
<1>23. ASSUME NEW c \in Calls, CatchThrows(c)
      PROVE  TypeOK'
  <2>1. About(c) \in Runs
    BY <1>23, AboutType DEF CatchThrows, Idle
  <2> QED
    BY <1>23, <2>1 DEF CatchThrows, TypeOK, definition, Goto, Fault, Places
<1>24. CASE LoseRedis
  BY <1>24 DEF LoseRedis, TypeOK, execution, Fault
<1>25. CASE Crash
  <2>1. lost' \subseteq Runs
    BY <1>25, AboutType DEF Crash, TypeOK
  <2>2. at' \in [Calls -> Places]
    BY <1>25 DEF Crash, TypeOK, Places
  <2> QED
    BY <1>25, <2>1, <2>2 DEF Crash, TypeOK, Fault
<1>26. CASE UNCHANGED vars
  BY <1>26 DEF vars, definition, execution, TypeOK
<1> QED
  BY <1>1, <1>2, <1>3, <1>4, <1>5, <1>6, <1>7, <1>8, <1>9, <1>10, <1>11, <1>12, <1>13, <1>14, <1>15, <1>16, <1>17, <1>18, <1>19, <1>20, <1>21, <1>22, <1>23, <1>24, <1>25, <1>26 DEF Next
(* Only runs that write the definition can disturb the lock and the cache. *)
LEMMA LockedStep == TypeOK /\ Locked /\ Resumed /\ [Next]_vars => Locked'
<1> SUFFICES ASSUME TypeOK, Locked, Resumed, [Next]_vars
             PROVE  Locked'
  OBVIOUS
<1> USE CallsFacts DEF TypeOK, Locked, Newest
<1>1. ASSUME NEW r \in Runs, Start(r) \/ Lookup(r) \/ Find(r) \/ Create(r) \/ Open(r) \/ Look(r) \/ OpenThrows(r)
      PROVE  Locked'
  BY <1>1 DEF Start, Lookup, Find, Create, Open, Look, OpenThrows, definition, Goto
<1>2. ASSUME NEW r \in Runs, Refresh(r) \/ Fill(r)
      PROVE  Locked'
  BY <1>2 DEF Refresh, Fill, Goto
<1>3. ASSUME NEW r \in Runs, Save(r)
      PROVE  Locked'
  BY <1>3 DEF Save, Goto
<1>4. ASSUME NEW r \in Runs, CacheDefinition(r) \/ Commit(r) \/ UpsertThrows(r)
      PROVE  Locked'
  <2>1. lock = r
    BY <1>4 DEF CacheDefinition, Commit, UpsertThrows
  <2>2. CASE CacheDefinition(r)
    BY <2>1, <2>2 DEF CacheDefinition, Goto
  <2>3. CASE Commit(r)
    BY <2>1, <2>3 DEF Commit, Goto
  <2>4. CASE UpsertThrows(r)
    BY <2>1, <2>4 DEF UpsertThrows, Goto
  <2> QED
    BY <1>4, <2>2, <2>3, <2>4
<1>5. ASSUME NEW c \in Resumers, ResumeSaves(c) \/ ResumeThrows(c) \/ \E e \in Runs : Resume(c, e)
      PROVE  Locked'
  BY <1>5 DEF ResumeSaves, ResumeThrows, Resume, definition, Goto
<1>6. ASSUME NEW c \in Calls,
             \/ Iterate(c) \/ IterationThrows(c) \/ Record(c) \/ RecordThrows(c) \/ Publish(c)
             \/ PublishThrows(c) \/ Catch(c) \/ CatchThrows(c)
      PROVE  Locked'
  BY <1>6 DEF Iterate, IterationThrows, Record, RecordThrows, Publish, PublishThrows, Catch,
              CatchThrows, definition, Goto
<1>7. CASE LoseRedis
  BY <1>7 DEF LoseRedis
<1>8. CASE Crash
  BY <1>8 DEF Crash, Idle
<1>9. CASE UNCHANGED vars
  BY <1>9 DEF vars, definition
<1> QED
  BY <1>1, <1>2, <1>3, <1>4, <1>5, <1>6, <1>7, <1>8, <1>9 DEF Next

(* A run moves on from its loop and never comes back to it. *)
LEMMA ResumedStep == TypeOK /\ Resumed /\ Unwritten /\ [Next]_vars => Resumed'
<1> SUFFICES ASSUME TypeOK, Resumed, Unwritten, [Next]_vars
             PROVE  Resumed'
  OBVIOUS
<1> USE CallsFacts DEF TypeOK, Resumed, Late, Idle
<1>1. ASSUME NEW r \in Runs,
             \/ Start(r) \/ Lookup(r) \/ Refresh(r) \/ Find(r) \/ Save(r) \/ CacheDefinition(r)
             \/ Commit(r) \/ UpsertThrows(r) \/ Create(r) \/ Open(r) \/ Look(r) \/ Fill(r) \/ OpenThrows(r)
      PROVE  Resumed'
  BY <1>1 DEF Start, Lookup, Refresh, Find, Save, CacheDefinition, Commit, UpsertThrows, Create,
              Open, Look, Fill, OpenThrows, execution, Goto
<1>2. ASSUME NEW c \in Resumers, NEW e \in Runs, Resume(c, e)
      PROVE  Resumed'
  <2>1. at[e] \in Late
    BY <1>2 DEF Resume, Unwritten, Before, Early, NoRecord, Places
  <2> QED
    BY <1>2, <2>1 DEF Resume, Goto
<1>3. ASSUME NEW c \in Resumers, ResumeSaves(c) \/ ResumeThrows(c)
      PROVE  Resumed'
  BY <1>3 DEF ResumeSaves, ResumeThrows, execution, Goto
<1>4. ASSUME NEW c \in Calls,
             \/ Iterate(c) \/ IterationThrows(c) \/ Record(c) \/ RecordThrows(c) \/ Publish(c)
             \/ PublishThrows(c) \/ Catch(c) \/ CatchThrows(c)
      PROVE  Resumed'
  BY <1>4 DEF Iterate, IterationThrows, Record, RecordThrows, Publish, PublishThrows, Catch,
              CatchThrows, execution, Goto
<1>5. CASE LoseRedis
  BY <1>5 DEF LoseRedis, execution
<1>6. CASE Crash
  BY <1>6 DEF Crash
<1>7. CASE UNCHANGED vars
  BY <1>7 DEF vars, execution
<1> QED
  BY <1>1, <1>2, <1>3, <1>4, <1>5, <1>6, <1>7 DEF Next

(* Calls that write the record of a run in its loop or before it are the run. *)
LEMMA UnwrittenStep == TypeOK /\ Resumed /\ Unwritten /\ [Next]_vars => Unwritten'
<1> SUFFICES ASSUME TypeOK, Resumed, Unwritten, [Next]_vars
             PROVE  Unwritten'
  OBVIOUS
<1> USE CallsFacts DEF TypeOK, Unwritten, Before, Early
<1>1. ASSUME NEW r \in Runs,
             \/ Start(r) \/ Lookup(r) \/ Refresh(r) \/ Find(r) \/ Save(r) \/ CacheDefinition(r)
             \/ Commit(r) \/ UpsertThrows(r) \/ Open(r) \/ Look(r) \/ Fill(r) \/ OpenThrows(r)
      PROVE  Unwritten'
  BY <1>1 DEF Start, Lookup, Refresh, Find, Save, CacheDefinition, Commit, UpsertThrows,
              Open, Look, Fill, OpenThrows, execution, Goto
<1>2. ASSUME NEW r \in Runs, Create(r)
      PROVE  Unwritten'
  BY <1>2 DEF Create, Write, Goto
<1>3. ASSUME NEW c \in Resumers, ResumeThrows(c) \/ \E e \in Runs : Resume(c, e)
      PROVE  Unwritten'
  BY <1>3 DEF ResumeThrows, Resume, execution, Goto
<1>4. ASSUME NEW c \in Resumers, ResumeSaves(c)
      PROVE  Unwritten'
  <2>1. of[c] \in Runs /\ at[of[c]] \in Late
    BY <1>4 DEF ResumeSaves, Resumed, Idle
  <2> QED
    BY <1>4, <2>1 DEF ResumeSaves, Write, Goto, Late
<1>5. ASSUME NEW c \in Calls,
             \/ Iterate(c) \/ IterationThrows(c) \/ RecordThrows(c) \/ Publish(c)
             \/ PublishThrows(c) \/ CatchThrows(c)
      PROVE  Unwritten'
  BY <1>5 DEF Iterate, IterationThrows, RecordThrows, Publish, PublishThrows, CatchThrows,
              execution, Goto
<1>6. ASSUME NEW c \in Calls, Record(c) \/ Catch(c)
      PROVE  Unwritten'
  <2>1. CASE c \in Runs
    BY <1>6, <2>1 DEF Record, Catch, Write, About, Goto
  <2>2. CASE c \in Resumers
    <3>1. of[c] \in Runs /\ at[of[c]] \in Late
      BY <1>6, <2>2 DEF Record, Catch, Resumed, Idle
    <3> QED
      BY <1>6, <2>2, <3>1 DEF Record, Catch, Write, About, Goto, Late
  <2> QED
    BY <2>1, <2>2 DEF Calls
<1>7. CASE LoseRedis
  BY <1>7 DEF LoseRedis, execution
<1>8. CASE Crash
  BY <1>8 DEF Crash, Idle
<1>9. CASE UNCHANGED vars
  BY <1>9 DEF vars, execution
<1> QED
  BY <1>1, <1>2, <1>3, <1>4, <1>5, <1>6, <1>7, <1>8, <1>9 DEF Next
(* A call that stops working on an execution writes so, or counts as lost. *)
LEMMA RunningStep == TypeOK /\ Resumed /\ Unwritten /\ RunningMeansRun /\ [Next]_vars => RunningMeansRun'
<1> SUFFICES ASSUME TypeOK, Resumed, Unwritten, RunningMeansRun, [Next]_vars,
                    NEW e \in Runs, record'[e].status = "running", e \notin lost'
             PROVE  \E c \in Active(e)' : at'[c] \in {"open", "look", "fill", "loop", "catch"}
  BY DEF RunningMeansRun
<1> USE CallsFacts DEF TypeOK, RunningMeansRun, Active, About, Idle
<1>1. ASSUME NEW r \in Runs,
             \/ Start(r) \/ Lookup(r) \/ Refresh(r) \/ Find(r) \/ Save(r) \/ CacheDefinition(r)
             \/ Commit(r) \/ UpsertThrows(r) \/ Open(r) \/ Look(r) \/ Fill(r)
      PROVE  \E c \in Active(e)' : at'[c] \in {"open", "look", "fill", "loop", "catch"}
  <2>1. record' = record /\ lost' = lost /\ of' = of
    BY <1>1 DEF Start, Lookup, Refresh, Find, Save, CacheDefinition, Commit, UpsertThrows, Open, Look, Fill,
                execution
  <2>2. \A c \in Calls : at[c] \in {"open", "look", "fill", "loop", "catch"} =>
                          at'[c] \in {"open", "look", "fill", "loop", "catch"}
    BY <1>1 DEF Start, Lookup, Refresh, Find, Save, CacheDefinition, Commit, UpsertThrows, Open, Look, Fill, Goto
  <2>3. PICK c \in Active(e) : at[c] \in {"open", "look", "fill", "loop", "catch"}
    BY <2>1
  <2> QED
    BY <2>1, <2>2, <2>3
<1>2. ASSUME NEW r \in Runs, OpenThrows(r)
      PROVE  \E c \in Active(e)' : at'[c] \in {"open", "look", "fill", "loop", "catch"}
  <2>1. e \notin lost /\ e # r
    BY <1>2 DEF OpenThrows
  <2>2. PICK c \in Active(e) : at[c] \in {"open", "look", "fill", "loop", "catch"}
    BY <1>2, <2>1 DEF OpenThrows
  <2> QED
    BY <1>2, <2>1, <2>2 DEF OpenThrows, Goto
<1>3. ASSUME NEW r \in Runs, Create(r)
      PROVE  \E c \in Active(e)' : at'[c] \in {"open", "look", "fill", "loop", "catch"}
  <2>1. CASE e = r
    <3>1. at'[r] = "open"
      BY <1>3 DEF Create, Goto
    <3> QED
      BY <2>1, <3>1
  <2>2. CASE e # r
    <3>1. PICK c \in Active(e) : at[c] \in {"open", "look", "fill", "loop", "catch"}
      BY <1>3, <2>2 DEF Create, Write
    <3> QED
      BY <1>3, <2>2, <3>1 DEF Create, Goto
  <2> QED
    BY <2>1, <2>2
<1>4. ASSUME NEW c \in Resumers, NEW f \in Runs, Resume(c, f)
      PROVE  \E d \in Active(e)' : at'[d] \in {"open", "look", "fill", "loop", "catch"}
  <2>1. PICK d \in Active(e) : at[d] \in {"open", "look", "fill", "loop", "catch"}
    BY <1>4 DEF Resume
  <2>2. d # c /\ at' = [at EXCEPT ![c] = "resume"] /\ of' = [of EXCEPT ![c] = f]
    BY <1>4, <2>1 DEF Resume, Goto
  <2> QED
    BY <2>1, <2>2
<1>5. ASSUME NEW c \in Resumers, ResumeThrows(c)
      PROVE  \E d \in Active(e)' : at'[d] \in {"open", "look", "fill", "loop", "catch"}
  <2>1. PICK d \in Active(e) : at[d] \in {"open", "look", "fill", "loop", "catch"}
    BY <1>5 DEF ResumeThrows, execution
  <2> QED
    BY <1>5, <2>1 DEF ResumeThrows, execution, Goto
<1>6. ASSUME NEW c \in Resumers, ResumeSaves(c)
      PROVE  \E d \in Active(e)' : at'[d] \in {"open", "look", "fill", "loop", "catch"}
  <2>1. of' = of /\ at' = [at EXCEPT ![c] = "loop"]
    BY <1>6 DEF ResumeSaves, Goto
  <2>2. CASE e = of[c]
    BY <2>1, <2>2
  <2>3. CASE e # of[c]
    <3>1. PICK d \in Active(e) : at[d] \in {"open", "look", "fill", "loop", "catch"}
      BY <1>6, <2>3 DEF ResumeSaves, Write
    <3> QED
      BY <2>1, <3>1
  <2> QED
    BY <2>2, <2>3
<1>7. ASSUME NEW c \in Calls,
             Iterate(c) \/ IterationThrows(c) \/ RecordThrows(c) \/ Publish(c) \/ PublishThrows(c)
      PROVE  \E d \in Active(e)' : at'[d] \in {"open", "look", "fill", "loop", "catch"}
  <2>1. record' = record /\ lost' = lost /\ of' = of
    BY <1>7 DEF Iterate, IterationThrows, RecordThrows, Publish, PublishThrows, execution
  <2>2. \A d \in Calls : at[d] \in {"open", "look", "fill", "loop", "catch"} =>
                          at'[d] \in {"open", "look", "fill", "loop", "catch"}
    BY <1>7 DEF Iterate, IterationThrows, RecordThrows, Publish, PublishThrows, Goto
  <2>3. PICK d \in Active(e) : at[d] \in {"open", "look", "fill", "loop", "catch"}
    BY <2>1
  <2> QED
    BY <2>1, <2>2, <2>3
<1>8. ASSUME NEW c \in Calls, Record(c) \/ Catch(c)
      PROVE  \E d \in Active(e)' : at'[d] \in {"open", "look", "fill", "loop", "catch"}
  <2>1. of' = of /\ lost' = lost /\ \E p \in Places : at' = [at EXCEPT ![c] = p]
    BY <1>8 DEF Record, Catch, Goto, Places
  <2>2. About(c) \in Runs
    BY <1>8, AboutType DEF Record, Catch
  <2>3. e # About(c) /\ record'[e] = record[e]
    <3>1. \E s \in Statuses : s # "running" /\ Write(About(c), s, graph[c], retries[c])
      BY <1>8, GraphFacts DEF Record, Catch, Statuses
    <3> QED
      BY <2>2, <3>1 DEF Write
  <2>4. PICK d \in Active(e) : at[d] \in {"open", "look", "fill", "loop", "catch"}
    BY <2>1, <2>3
  <2> QED
    BY <2>1, <2>3, <2>4
<1>9. ASSUME NEW c \in Calls, CatchThrows(c)
      PROVE  \E d \in Active(e)' : at'[d] \in {"open", "look", "fill", "loop", "catch"}
  <2>1. e # About(c) /\ e \notin lost /\ record' = record /\ of' = of
    BY <1>9 DEF CatchThrows
  <2>2. PICK d \in Active(e) : at[d] \in {"open", "look", "fill", "loop", "catch"}
    BY <2>1
  <2> QED
    BY <1>9, <2>1, <2>2 DEF CatchThrows, Goto
<1>10. CASE LoseRedis \/ UNCHANGED vars
  BY <1>10 DEF LoseRedis, vars, execution
<1>11. CASE Crash
  <2>1. e \notin lost /\ record' = record
    BY <1>11 DEF Crash
  <2>2. PICK c \in Active(e) : at[c] \in {"open", "look", "fill", "loop", "catch"}
    BY <2>1
  <2> QED
    BY <1>11, <2>2 DEF Crash
<1> QED
  BY <1>1, <1>2, <1>3, <1>4, <1>5, <1>6, <1>7, <1>8, <1>9, <1>10, <1>11 DEF Next
(* A call that alone works on an execution is never behind its record. *)
LEMMA AloneStep == TypeOK /\ Resumed /\ Unwritten /\ Alone /\ [Next]_vars => Alone'
<1> SUFFICES ASSUME TypeOK, Resumed, Unwritten, Alone, [Next]_vars,
                    NEW e \in Runs, e \notin overlapped', NEW c \in Active(e)'
             PROVE  /\ \A d \in Active(e)' : d = c
                    /\ graph'[c].done >= record'[e].meta.done
                    /\ at'[c] \in Early \cup {"resume"} => record'[e].status # "success"
  BY DEF Alone
<1> DEFINE Goal == /\ \A d \in Active(e)' : d = c
                   /\ graph'[c].done >= record'[e].meta.done
                   /\ at'[c] \in Early \cup {"resume"} => record'[e].status # "success"
<1> USE CallsFacts DEF TypeOK, Alone, Active, About, Idle, Early
\* Steps of a run before its loop.
<1>1. ASSUME NEW r \in Runs, Start(r)
      PROVE  Goal
  <2>1. /\ at' = [at EXCEPT ![r] = IF forced THEN "find" ELSE "lookup"]
        /\ of' = of /\ graph' = graph /\ record' = record /\ overlapped' = overlapped
    BY <1>1 DEF Start, execution, Goto
  <2>2. CASE e # r
    <3>1. Active(e)' = Active(e)
      BY <2>1, <2>2
    <3> QED
      BY <2>1, <2>2, <3>1
  <2>3. CASE e = r
    <3>1. \A d \in Resumers : Idle(d) \/ of[d] # r
      BY <1>1 DEF Start, Resumed, Late
    <3>2. record[r] = NoRecord
      BY <1>1 DEF Start, Unwritten, Before
    <3>3. c = r /\ \A d \in Active(e)' : d = r
      BY <2>1, <2>3, <3>1 DEF Calls
    <3> QED
      BY <2>1, <2>3, <3>2, <3>3, GraphFacts DEF NoRecord, Empty, None
  <2> QED
    BY <2>2, <2>3
<1>2. ASSUME NEW r \in Runs,
             \/ Lookup(r) \/ Refresh(r) \/ Find(r) \/ Save(r) \/ CacheDefinition(r)
             \/ Commit(r) \/ UpsertThrows(r) \/ Open(r) \/ Look(r) \/ Fill(r) \/ OpenThrows(r)
      PROVE  Goal
  <2>1. /\ \E p \in Places \ {"idle"} : at' = [at EXCEPT ![r] = p]
        /\ of' = of /\ graph' = graph /\ record' = record /\ overlapped' = overlapped
        /\ ~Idle(r)
    BY <1>2 DEF Lookup, Refresh, Find, Save, CacheDefinition, Commit, UpsertThrows, Open, Look, Fill, OpenThrows,
                execution, Goto, Places
  <2>2. Active(e)' \subseteq Active(e)
    BY <2>1
  <2>3. ASSUME c = r, at'[r] \in Early
        PROVE  record[e].status # "success"
    <3>1. e = r
      BY <2>3
    <3>2. at[r] \in {"open", "look", "fill"}
      BY <1>2, <2>3 DEF Lookup, Refresh, Find, Save, CacheDefinition, Commit, UpsertThrows, Open, Look, Fill,
                        OpenThrows, Goto
    <3> QED
      BY <2>1, <2>2, <2>3, <3>1, <3>2
  <2>4. at'[r] # "resume"
    BY <1>2 DEF Lookup, Refresh, Find, Save, CacheDefinition, Commit, UpsertThrows, Open, Look, Fill, OpenThrows, Goto
  <2> QED
    BY <2>1, <2>2, <2>3, <2>4
<1>3. ASSUME NEW r \in Runs, Create(r)
      PROVE  Goal
  <2>1. /\ at' = [at EXCEPT ![r] = "open"] /\ ~Idle(r)
        /\ of' = of /\ graph' = graph /\ overlapped' = overlapped
        /\ record' = [record EXCEPT ![r] = [status |-> "running", meta |-> Empty, retries |-> 0]]
    BY <1>3 DEF Create, Goto, Write
  <2>2. Active(e)' = Active(e)
    BY <2>1
  <2>3. record[r] = NoRecord
    BY <1>3 DEF Create, Unwritten, Before
  <2>4. record'[e].meta.done = record[e].meta.done
    BY <2>1, <2>3 DEF NoRecord
  <2> QED
    BY <2>1, <2>2, <2>4 DEF Resumed
\* Resumptions.
<1>4. ASSUME NEW b \in Resumers, NEW f \in Runs, Resume(b, f)
      PROVE  Goal
  <2>1. /\ at' = [at EXCEPT ![b] = "resume"] /\ Idle(b)
        /\ of' = [of EXCEPT ![b] = f] /\ graph' = [graph EXCEPT ![b] = record[f].meta]
        /\ record' = record /\ record[f].status # "success" /\ record[f].meta \in Graph
        /\ overlapped' = IF Active(f) = {} THEN overlapped ELSE overlapped \cup {f}
    BY <1>4 DEF Resume, Goto
  <2>2. CASE e # f
    <3>1. Active(e)' = Active(e) /\ b \notin Active(e)
      BY <2>1, <2>2
    <3> QED
      BY <2>1, <2>2, <3>1
  <2>3. CASE e = f
    <3>1. Active(f) = {}
      BY <2>1, <2>3
    <3>2. Active(f)' = {b}
      BY <2>1, <3>1
    <3> QED
      BY <2>1, <2>3, <3>2, GraphFacts
  <2> QED
    BY <2>2, <2>3
<1>5. ASSUME NEW b \in Resumers, ResumeThrows(b)
      PROVE  Goal
  <2>1. /\ at' = [at EXCEPT ![b] = "ended"] /\ ~Idle(b)
        /\ of' = of /\ graph' = graph /\ record' = record /\ overlapped' = overlapped
    BY <1>5 DEF ResumeThrows, execution, Goto
  <2>2. Active(e)' \subseteq Active(e) /\ c # b
    BY <2>1
  <2> QED
    BY <2>1, <2>2
<1>6. ASSUME NEW b \in Resumers, ResumeSaves(b)
      PROVE  Goal
  <2>1. /\ at' = [at EXCEPT ![b] = "loop"] /\ at[b] = "resume"
        /\ of' = of /\ graph' = graph /\ overlapped' = overlapped /\ of[b] \in Runs
        /\ record' = [record EXCEPT ![of[b]] =
                        [status |-> "running", meta |-> graph[b], retries |-> retries[b]]]
    BY <1>6 DEF ResumeSaves, Goto, Write, Resumed
  <2>2. Active(e)' = Active(e)
    BY <2>1
  <2>3. CASE e = of[b]
    <3>1. c = b
      BY <2>1, <2>2, <2>3
    <3>2. graph[b].done \in Nat
      BY GraphFacts
    <3> QED
      BY <2>1, <2>2, <2>3, <3>1, <3>2
  <2>4. CASE e # of[b]
    BY <2>1, <2>2, <2>4
  <2> QED
    BY <2>3, <2>4
\* The loop of both.
<1>7. ASSUME NEW b \in Calls, Iterate(b) \/ IterationThrows(b)
      PROVE  Goal
  <2>1. /\ \E p \in {"loop", "catch"} : at' = [at EXCEPT ![b] = p]
        /\ at[b] = "loop" /\ graph[b].state = "running"
        /\ of' = of /\ record' = record /\ overlapped' = overlapped
    BY <1>7 DEF Iterate, IterationThrows, Goto
  <2>2. PICK g : graph' = [graph EXCEPT ![b] = g] /\ g \in Later(graph[b]) \cup {graph[b]}
    BY <1>7 DEF Iterate, IterationThrows
  <2>3. g.done >= graph[b].done /\ g.done \in Nat /\ graph[b].done \in Nat
    BY <2>1, <2>2, GraphFacts
  <2>4. Active(e)' = Active(e)
    BY <2>1
  <2>5. record[e].meta.done \in Nat
    BY GraphFacts DEF Empty
  <2> QED
    BY <2>1, <2>2, <2>3, <2>4, <2>5
<1>8. ASSUME NEW b \in Calls, RecordThrows(b) \/ Publish(b) \/ PublishThrows(b) \/ CatchThrows(b)
      PROVE  Goal
  <2>1. /\ \E p \in {"catch", "ended"} : at' = [at EXCEPT ![b] = p]
        /\ ~Idle(b)
        /\ of' = of /\ graph' = graph /\ record' = record /\ overlapped' = overlapped
    BY <1>8 DEF RecordThrows, Publish, PublishThrows, CatchThrows, execution, Goto
  <2>2. Active(e)' \subseteq Active(e)
    BY <2>1
  <2> QED
    BY <2>1, <2>2
<1>9. ASSUME NEW b \in Calls, Record(b) \/ Catch(b)
      PROVE  Goal
  <2>1. /\ \E p \in {"publish", "ended"} : at' = [at EXCEPT ![b] = p]
        /\ ~Idle(b)
        /\ of' = of /\ graph' = graph /\ overlapped' = overlapped
    BY <1>9 DEF Record, Catch, Goto
  <2>2. About(b) \in Runs /\ b \in Active(About(b))
    BY <2>1, AboutType
  <2>3. \E s : record' = [record EXCEPT ![About(b)] = [status |-> s, meta |-> graph[b], retries |-> retries[b]]]
    BY <1>9 DEF Record, Catch, Write
  <2>4. Active(e)' \subseteq Active(e)
    BY <2>1
  <2>5. CASE e = About(b)
    <3>1. c = b
      BY <2>1, <2>2, <2>4, <2>5
    <3>2. graph[b].done \in Nat
      BY GraphFacts
    <3> QED
      BY <2>1, <2>2, <2>3, <2>4, <2>5, <3>1, <3>2
  <2>6. CASE e # About(b)
    <3>1. record'[e] = record[e] /\ c # b
      BY <2>2, <2>3, <2>4, <2>6
    <3> QED
      BY <2>1, <2>4, <3>1
  <2> QED
    BY <2>5, <2>6
<1>10. CASE LoseRedis \/ UNCHANGED vars
  BY <1>10 DEF LoseRedis, vars, execution
<1>11. CASE Crash
  <2>1. Active(e)' = {}
    BY <1>11 DEF Crash
  <2> QED
    BY <2>1
<1> QED
  BY <1>1, <1>2, <1>3, <1>4, <1>5, <1>6, <1>7, <1>8, <1>9, <1>10, <1>11 DEF Next
LEMMA RecordsInit == Init => RecordsInv
<1> SUFFICES ASSUME Init
             PROVE  RecordsInv
  OBVIOUS
<1> USE CallsFacts, RecordsAssumption DEF Init
<1>1. TypeOK
  <2>1. NoRecord \in [status : Statuses, meta : Graph \cup {Empty}, retries : Nat]
    BY DEF NoRecord, Statuses
  <2>2. faults \in 0 .. MaxFaults
    BY MaxFaults \in Nat
  <2>3. at \in [Calls -> Places] /\ def \in [Runs -> Runs \cup {None}] /\ of \in [Resumers -> Runs \cup {None}]
    BY DEF Places
  <2>4. graph \in [Calls -> Graph] /\ retries \in [Calls -> Nat]
    BY GraphFacts
  <2> QED
    BY <2>1, <2>2, <2>3, <2>4 DEF TypeOK
<1>2. Locked
  BY DEF Locked, Newest
<1>3. Resumed /\ Unwritten
  BY DEF Resumed, Unwritten, Idle, NoRecord, Before, Early
<1>4. \A e \in Runs : Active(e) = {}
  BY DEF Active, Idle
<1>5. RunningMeansRun
  BY DEF RunningMeansRun, NoRecord, None
<1>6. Alone
  BY <1>4 DEF Alone
<1> QED
  BY <1>1, <1>2, <1>3, <1>5, <1>6 DEF RecordsInv

LEMMA RecordsStep == RecordsInv /\ [Next]_vars => RecordsInv'
BY TypeStep, LockedStep, ResumedStep, UnwrittenStep, RunningStep, AloneStep DEF RecordsInv

LEMMA RecordsInvariant == Spec => []RecordsInv
<1>1. Init => RecordsInv
  BY RecordsInit
<1>2. RecordsInv /\ [Next]_vars => RecordsInv'
  BY RecordsStep
<1> QED
  BY <1>1, <1>2, PTL DEF Spec

(* What one step may do to the record of an execution that no two calls have *)
(* worked on at once.                                                       *)
LEMMA ForwardStep ==
  ASSUME RecordsInv, [Next]_vars, NEW e \in Runs, e \notin overlapped'
  PROVE  /\ record'[e].meta.done >= record[e].meta.done
         /\ record[e].status = "success" =>
              record'[e].status = "success" \/ \E c \in Active(e) : at[c] = "catch"
<1> USE CallsFacts DEF RecordsInv, TypeOK
<1> DEFINE Goal == /\ record'[e].meta.done >= record[e].meta.done
                   /\ record[e].status = "success" =>
                        record'[e].status = "success" \/ \E c \in Active(e) : at[c] = "catch"
<1>1. record[e].meta.done \in Nat
  BY GraphFacts DEF Empty
<1>2. CASE record' = record
  BY <1>1, <1>2
<1>3. ASSUME NEW r \in Runs, Create(r)
      PROVE  Goal
  <2>1. record' = [record EXCEPT ![r] = [status |-> "running", meta |-> Empty, retries |-> 0]]
    BY <1>3 DEF Create, Write
  <2>2. record[r] = NoRecord
    BY <1>3 DEF Create, Unwritten, Before
  <2> QED
    BY <1>1, <2>1, <2>2 DEF NoRecord, None
<1>4. ASSUME NEW c \in Calls, NEW s,
             Write(About(c), s, graph[c], retries[c]), ~Idle(c), About(c) \in Runs,
             overlapped' = overlapped, at[c] \in {"resume", "loop", "catch"}
      PROVE  Goal
  <2>1. record' = [record EXCEPT ![About(c)] = [status |-> s, meta |-> graph[c], retries |-> retries[c]]]
    BY <1>4 DEF Write
  <2>2. CASE e = About(c)
    <3>1. c \in Active(e)
      BY <1>4, <2>2 DEF Active
    <3>2. graph[c].done >= record[e].meta.done
      BY <1>4, <3>1 DEF Alone
    <3>3. at[c] # "catch" => record[e].status # "success"
      BY <1>4, <3>1 DEF Alone, Early
    <3> QED
      BY <2>1, <2>2, <3>1, <3>2, <3>3
  <2>3. CASE e # About(c)
    BY <1>1, <2>1, <2>3
  <2> QED
    BY <2>2, <2>3
<1>5. ASSUME NEW c \in Resumers, ResumeSaves(c)
      PROVE  Goal
  <2>1. About(c) = of[c] /\ ~Idle(c)
    BY <1>5 DEF About, ResumeSaves, Idle
  <2>2. About(c) \in Runs
    BY <2>1, AboutType
  <2> QED
    BY <1>4, <1>5, <2>1, <2>2 DEF ResumeSaves
<1>6. ASSUME NEW c \in Calls, Record(c) \/ Catch(c)
      PROVE  Goal
  <2>1. ~Idle(c)
    BY <1>6 DEF Record, Catch, Idle
  <2>2. About(c) \in Runs
    BY <2>1, AboutType
  <2> QED
    BY <1>4, <1>6, <2>1, <2>2 DEF Record, Catch
<1>7. CASE Next
  <2>1. \/ record' = record
        \/ \E r \in Runs : Create(r)
        \/ \E c \in Resumers : ResumeSaves(c)
        \/ \E c \in Calls : Record(c) \/ Catch(c)
    BY <1>7 DEF Next, Start, Lookup, Refresh, Find, Save, CacheDefinition, Commit, UpsertThrows, Open, Look, Fill,
                OpenThrows, Resume, ResumeThrows, Iterate, IterationThrows, RecordThrows, Publish,
                PublishThrows, CatchThrows, LoseRedis, Crash, execution
  <2> QED
    BY <1>2, <1>3, <1>5, <1>6, <2>1
<1> QED
  BY <1>2, <1>7 DEF vars, execution

-----------------------------------------------------------------------------
(* The variables of the records keep their types, for any number of runs,   *)
(* resumptions, steps and faults of WorkflowService.                        *)
THEOREM RecordsTypeCorrect == Spec => []TypeOK
BY RecordsInvariant, PTL DEF RecordsInv

(* upsertWorkflow() and the readers leave in Redis the definition committed  *)
(* last, or none.                                                           *)
THEOREM RecordsCacheFollowsRow == Spec => []CacheFollowsRow
<1>1. RecordsInv => CacheFollowsRow
  BY DEF RecordsInv, Locked, Newest, CacheFollowsRow
<1> QED
  BY <1>1, RecordsInvariant, PTL

(* resumeWorkflow() never executes beside the executeWorkflow() whose        *)
(* execution it resumes.                                                    *)
THEOREM RecordsRunIsAlone == Spec => []RunIsAlone
<1>1. RecordsInv => RunIsAlone
  BY DEF RecordsInv, Resumed, RunIsAlone, Idle, Late
<1> QED
  BY <1>1, RecordsInvariant, PTL

(* An execution recorded as running is being run, or its call was lost.      *)
THEOREM RecordsRunningMeansRun == Spec => []RunningMeansRun
BY RecordsInvariant, PTL DEF RecordsInv

(* The record of an execution forgets no step and keeps its success, while   *)
(* no two calls work on it at once.                                         *)
THEOREM RecordsNeverGoBack == Spec => NeverGoesBack
<1>1. RecordsInv /\ [Next]_vars =>
        [\A e \in Runs \ overlapped' :
           /\ record'[e].meta.done >= record[e].meta.done
           /\ record[e].status = "success" =>
                record'[e].status = "success" \/ \E c \in Active(e) : at[c] = "catch"]_vars
  BY ForwardStep
<1> QED
  BY <1>1, RecordsInvariant, PTL DEF Spec, NeverGoesBack
=============================================================================
