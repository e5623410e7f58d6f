------------------------ MODULE LoginSession_proofs ------------------------
(***************************************************************************)
(* Proofs about LoginSession, for any number of navigations, events and    *)
(* failures: the types, that clients are told one ending and nothing after *)
(* it (OneEnding), that no browser context outlives its session            *)
(* (NoContextLeft), and what the record says in the end (EndingStored,     *)
(* CompletedIsSaved).                                                      *)
(*                                                                         *)
(* OneEnding is inductive once it says that nothing has ended a session    *)
(* that lives, that only a running one lives, and that before it runs      *)
(* nobody has been told anything (Telling).  NoContextLeft is inductive as *)
(* it is: who ends a live session closes its context, and who comes second *)
(* is not the one that is closing it.                                      *)
(*                                                                         *)
(* The record is read and written back by updates that overtake each       *)
(* other: of those on their way, the one whose GET is last writes last     *)
(* (WritesLast).  The invariant says of an ended session who that is: the  *)
(* ending as long as the context is being closed, a status from then on    *)
(* (EventKept, StatusKept).                                                *)
(***************************************************************************)
EXTENDS LoginSession, SequenceTheorems, TLAPS

Telling ==
  /\ live => stage = "running" /\ \A i \in 1 .. Len(told) : told[i] \notin Endings
  /\ stage \in {"none", "recorded", "context"} => told = <<>>

LoginInv == TypeOK /\ Telling /\ OneEnding /\ NoContextLeft

-----------------------------------------------------------------------------
(* Commands and endings. *)
LEMMA CommandFacts ==
  ASSUME NEW events \in Seq(Events), NEW status \in Statuses
  PROVE  GetEvents(events) \in Seq(Commands) /\ GetStatus(status) \in Seq(Commands)
<1>1. \A e \in Events : Get("event", e) \in Commands
  BY DEF Get, Commands, Updates
<1>2. Get("status", status) \in Commands
  BY DEF Get, Commands, Updates
<1>3. Len(events) \in Nat /\ \A i \in 1 .. Len(events) : Get("event", events[i]) \in Commands
  BY <1>1
<1>4. GetEvents(events) \in Seq(Commands)
  <2> DEFINE n == Len(events)
             e(i) == Get("event", events[i])
  <2>1. n \in Nat /\ \A i \in 1 .. n : e(i) \in Commands
    BY <1>3
  <2>2. [i \in 1 .. n |-> e(i)] \in Seq(Commands)
    <3> HIDE DEF n, e
    <3> QED
      BY <2>1
  <2> QED
    BY <2>2 DEF GetEvents
<1> QED
  BY <1>2, <1>4 DEF GetStatus

\* The events of an ending: the last one ends, none before it does.
Ending(events) ==
  /\ events \in Seq(Events) /\ events # <<>> /\ Last(events) \in Endings
  /\ \A i \in 1 .. Len(events) : events[i] \in Endings => i = Len(events)

LEMMA EndingFacts ==
  /\ Ending(<<"news", "expired">>) /\ Ending(<<"news", "error">>)
  /\ Ending(<<"error">>) /\ Ending(<<"success">>)
BY DEF Ending, Events, Endings, Last

LEMMA TellEnding ==
  ASSUME NEW before \in Seq(Events), \A i \in 1 .. Len(before) : before[i] \notin Endings,
         NEW events, Ending(events)
  PROVE  Ending(before \o events)
BY DEF Ending, Last

LEMMA SubscriberFacts ==
  ASSUME TypeOK, NEW events \in Seq(Events), NEW completes \in BOOLEAN, Subscriber(events, completes)
  PROVE  publishing' \in Seq(Events) /\ wire' \in Seq(Commands)
<1> DEFINE completed == IF completes THEN GetStatus("completed") ELSE <<>>
<1>1. publishing \in Seq(Events) /\ wire \in Seq(Commands)
  BY DEF TypeOK
<1>2. GetEvents(events) \in Seq(Commands) /\ completed \in Seq(Commands)
  BY CommandFacts DEF Statuses
<1>3. \/ wire' = wire \o GetEvents(events) \o completed /\ publishing' = publishing
      \/ wire' = wire \o completed \o GetEvents(events) /\ publishing' = publishing
      \/ wire' = wire \o completed /\ publishing' = publishing \o events
  BY DEF Subscriber
<1> HIDE DEF completed
<1>4. \A s, t \in Seq(Commands) : s \o t \in Seq(Commands)
  BY ConcatProperties
<1>5. publishing \o events \in Seq(Events)
  BY <1>1
<1> QED
  BY <1>1, <1>2, <1>3, <1>4, <1>5

(* What Finish() does for the party p.                                      *)
Finishes(p, events) ==
  /\ told' \in Seq(Events) /\ live' = FALSE
  /\ publishing' \in Seq(Events) /\ wire' \in Seq(Commands)
  /\ task' \in [Parties -> Tasks] /\ \A q \in Parties \ {p} : task'[q] = task[q]
  /\ \/ live /\ told' = told \o events /\ task'[p].at = "closing"
     \/ ~live /\ told' = told /\ task'[p].at = "done"

LEMMA FinishFacts ==
  ASSUME TypeOK, NEW p \in Parties, NEW events \in Seq(Events), NEW status \in Statuses,
         Finish(p, events, status)
  PROVE  Finishes(p, events)
<1>1. FinalStatus(status) \in Statuses /\ "completed" \in Statuses
  BY DEF FinalStatus, Statuses
<1>2. /\ told \in Seq(Events) /\ publishing \in Seq(Events) /\ wire \in Seq(Commands)
      /\ task \in [Parties -> Tasks] /\ live \in BOOLEAN
  BY DEF TypeOK
<1>3. GetEvents(events) \in Seq(Commands) /\ GetStatus("completed") \in Seq(Commands)
      /\ GetStatus(FinalStatus(status)) \in Seq(Commands)
  BY <1>1, CommandFacts
<1>4. CASE live
  <2> DEFINE t == [at |-> "closing", final |-> FinalStatus(status)]
  <2>1. t \in Tasks /\ t.at = "closing"
    BY <1>1 DEF Tasks
  <2>2. task' = [task EXCEPT ![p] = t]
    BY <1>4 DEF Finish
  <2>3. task' \in [Parties -> Tasks] /\ task'[p].at = "closing" /\ \A q \in Parties \ {p} : task'[q] = task[q]
    <3> HIDE DEF t
    <3> QED
      BY <1>2, <2>1, <2>2
  <2>4. told' = told \o events /\ live' = FALSE /\ Subscriber(events, TRUE)
    BY <1>4 DEF Finish
  <2>5. publishing' \in Seq(Events) /\ wire' \in Seq(Commands)
    BY <1>2, <2>4, SubscriberFacts
  <2> QED
    BY <1>2, <1>4, <2>3, <2>4, <2>5 DEF Finishes
<1>5. CASE ~live
  <2>1. /\ wire' = IF site = "jd" THEN wire \o GetStatus(FinalStatus(status)) ELSE wire
        /\ task' = [task EXCEPT ![p].at = "done"]
        /\ UNCHANGED <<told, live, publishing>>
    BY <1>5 DEF Finish
  <2>2. task' \in [Parties -> Tasks] /\ task'[p].at = "done" /\ \A q \in Parties \ {p} : task'[q] = task[q]
    BY <1>2, <2>1 DEF Tasks
  <2> QED
    BY <1>2, <1>3, <1>5, <2>1, <2>2 DEF Finishes
<1> QED
  BY <1>4, <1>5

(* The steps that may end a session.                                        *)
Ends(p, events) ==
  /\ Ending(events) /\ Finishes(p, events) /\ (task[p].at # "closing" \/ live)
  /\ Rest /\ saves' = saves /\ faults' \in 0 .. MaxFaults

LEMMA FaultFacts ==
  ASSUME TypeOK, Fault \/ UNCHANGED faults
  PROVE  faults' \in 0 .. MaxFaults
BY LoginAssumption DEF LoginAssumption, TypeOK, Fault

\* The status is "completed" only after the account has been saved.
EndsWith(p, events, status) ==
  /\ Ends(p, events) /\ Finish(p, events, status) /\ status \in {"expired", "completed"}
  /\ status = "completed" => task[p].at = "saved"

LEMMA EndsWithFacts ==
  ASSUME TypeOK,
         \/ CheckExpired \/ GotoFails \/ TimerFires
         \/ \E p \in Navigations : LoginSucceeds(p) \/ LoginFails(p)
  PROVE  \E p \in Parties : \E events, status : EndsWith(p, events, status)
<1>1. Navigations \cup {"check", "goto", "timer"} = Parties /\ {"expired", "completed"} \subseteq Statuses
  BY DEF Parties, Statuses
<1>2. ASSUME NEW p \in Parties, NEW events, Ending(events), NEW status \in {"expired", "completed"},
             status = "completed" => task[p].at = "saved",
             Finish(p, events, status), task[p].at # "closing" \/ live, Rest, saves' = saves,
             Fault \/ UNCHANGED faults
      PROVE  \E q \in Parties : \E evs, final : EndsWith(q, evs, final)
  <2>1. Finishes(p, events)
    BY <1>1, <1>2, FinishFacts DEF Ending
  <2>2. EndsWith(p, events, status)
    BY <1>2, <2>1, FaultFacts DEF Ends, EndsWith
  <2> QED
    BY <2>2
<1>3. CASE CheckExpired
  BY <1>1, <1>2, <1>3, EndingFacts DEF CheckExpired
<1>4. CASE GotoFails
  BY <1>1, <1>2, <1>4, EndingFacts DEF GotoFails, NoFault
<1>5. CASE TimerFires
  BY <1>1, <1>2, <1>5, EndingFacts DEF TimerFires
<1>6. ASSUME NEW p \in Navigations, LoginSucceeds(p)
      PROVE  \E q \in Parties : \E evs, final : EndsWith(q, evs, final)
  BY <1>1, <1>2, <1>6, EndingFacts DEF LoginSucceeds
<1>7. ASSUME NEW p \in Navigations, LoginFails(p)
      PROVE  \E q \in Parties : \E evs, final : EndsWith(q, evs, final)
  BY <1>1, <1>2, <1>7, EndingFacts DEF LoginFails, NoFault
<1> QED
  BY <1>3, <1>4, <1>5, <1>6, <1>7

LEMMA EndsFacts ==
  ASSUME TypeOK,
         \/ CheckExpired \/ GotoFails \/ TimerFires
         \/ \E p \in Navigations : LoginSucceeds(p) \/ LoginFails(p)
  PROVE  \E p \in Parties : \E events : Ends(p, events)
BY EndsWithFacts DEF EndsWith

-----------------------------------------------------------------------------
(* Types. *)

\* A party moves on.
LEMMA PartyMoves ==
  ASSUME TypeOK, NEW p \in Parties, NEW place \in {"idle", "busy", "saved", "closing", "done"},
         task' = [task EXCEPT ![p].at = place]
  PROVE  /\ task' \in [Parties -> Tasks] /\ task'[p].at = place
         /\ \A q \in Parties \ {p} : task'[q] = task[q]
BY DEF TypeOK, Tasks

LEMMA TypeStep == TypeOK /\ [Next]_vars => TypeOK'
<1> SUFFICES ASSUME TypeOK, [Next]_vars
             PROVE  TypeOK'
  OBVIOUS
<1>1. /\ "active" \in Statuses /\ "completed" \in Statuses /\ Navigations \subseteq Parties
      /\ "goto" \in Parties
  BY DEF Statuses, Parties
<1>2. CASE UNCHANGED vars
  BY <1>2 DEF vars, TypeOK
<1>3. CASE CreateRecord
  <2>1. record' \in Records
    BY <1>3 DEF CreateRecord, Records, Statuses
  <2> QED
    BY <1>3, <2>1 DEF CreateRecord, TypeOK
<1>4. CASE NewContext
  <2>1. faults' \in 0 .. MaxFaults
    BY <1>4, FaultFacts DEF NewContext, NoFault
  <2> QED
    BY <1>4, <2>1 DEF NewContext, redis, TypeOK
<1>5. CASE NewPage
  <2>1. faults' \in 0 .. MaxFaults
    BY <1>5, FaultFacts DEF NewPage, NoFault
  <2>2. task' \in [Parties -> Tasks]
    BY <1>1, <1>5, PartyMoves DEF NewPage, TypeOK
  <2> QED
    BY <1>5, <2>1, <2>2 DEF NewPage, redis, TypeOK
<1>6. CASE News
  <2>1. told' \in Seq(Events) /\ <<"news">> \in Seq(Events)
    BY <1>6 DEF News, TypeOK, Events
  <2>2. publishing' \in Seq(Events) /\ wire' \in Seq(Commands)
    BY <1>6, <2>1, SubscriberFacts DEF News
  <2> QED
    BY <1>6, <2>1, <2>2 DEF News, TypeOK
<1>7. ASSUME NEW p \in Parties, NEW events, Ends(p, events)
      PROVE  TypeOK'
  BY <1>7 DEF Ends, Finishes, Rest, TypeOK
<1>8. CASE GotoDone
  <2>1. task' \in [Parties -> Tasks]
    BY <1>1, <1>8, PartyMoves DEF GotoDone
  <2> QED
    BY <1>8, <2>1 DEF GotoDone, Rest, TypeOK
<1>9. ASSUME NEW p \in Navigations, Navigate(p) \/ SaveAccount(p)
      PROVE  TypeOK'
  <2>1. task' \in [Parties -> Tasks]
    BY <1>1, <1>9, PartyMoves DEF Navigate, SaveAccount
  <2>2. saves' \in Nat
    BY <1>9 DEF Navigate, SaveAccount, TypeOK
  <2> QED
    BY <1>9, <2>1, <2>2 DEF Navigate, SaveAccount, Rest, TypeOK
<1>10. ASSUME NEW p \in Parties, ContextClosed(p)
       PROVE  TypeOK'
  <2>1. task' \in [Parties -> Tasks]
    BY <1>10, PartyMoves DEF ContextClosed
  <2>2. GetStatus(task[p].final) \in Seq(Commands)
    BY CommandFacts, EmptySeq DEF TypeOK, Tasks
  <2>3. wire' \in Seq(Commands)
    BY <1>10, <2>2 DEF ContextClosed, TypeOK
  <2> QED
    BY <1>10, <2>1, <2>3 DEF ContextClosed, TypeOK
<1>11. CASE Published
  <2>1. Head(publishing) \in Events /\ Tail(publishing) \in Seq(Events)
    BY <1>11 DEF Published, TypeOK
  <2> DEFINE event == Head(publishing)
  <2>4. <<event>> \in Seq(Events)
    <3>1. event \in Events
      BY <2>1
    <3> HIDE DEF event
    <3> QED
      BY <3>1
  <2>2. GetEvents(<<event>>) \in Seq(Commands)
    BY <1>1, <2>4, CommandFacts
  <2>3. wire' \in Seq(Commands)
    BY <1>11, <2>2 DEF Published, TypeOK
  <2> QED
    BY <1>11, <2>1, <2>3 DEF Published, Rest, TypeOK
<1>12. CASE RedisRuns
  <2> DEFINE c == Head(wire)
  <2>1. c \in Commands /\ Tail(wire) \in Seq(Commands)
    BY <1>12 DEF RedisRuns, TypeOK
  <2>2. GoesOn(c) \in Seq(Commands)
    <3> HIDE DEF c
    <3>1. CASE record = NoRecord
      BY <3>1 DEF GoesOn
    <3>2. CASE record # NoRecord
      <4>1. record \in Records /\ c.update \in Updates
        BY <2>1, <3>2 DEF TypeOK, Commands
      <4>2. Updated(record, c.update) \in Records
        BY <4>1 DEF Updated, Updates, Records
      <4> DEFINE r == Updated(record, c.update)
                 d == [[c EXCEPT !.is = "set"] EXCEPT !.record = r]
      <4>3. d \in Commands
        <5> HIDE DEF r
        <5> QED
          BY <2>1, <4>2 DEF Commands, r
      <4>4. GoesOn(c) = <<d>>
        BY <2>1, <3>2 DEF GoesOn, Commands
      <4> QED
        BY <4>3, <4>4
    <3> QED
      BY <3>1, <3>2
  <2>3. wire' \in Seq(Commands)
    <3>1. wire' = Tail(wire) \o GoesOn(c) \/ wire' = Tail(wire)
      BY <1>12 DEF RedisRuns
    <3>2. \A s, t \in Seq(Commands) : s \o t \in Seq(Commands)
      BY ConcatProperties
    <3> HIDE DEF c
    <3> QED
      BY <2>1, <2>2, <3>1, <3>2
  <2>4. record' \in Records \cup {NoRecord}
    BY <1>12, <2>1 DEF RedisRuns, TypeOK, Commands
  <2>5. faults' \in 0 .. MaxFaults /\ lost' \in BOOLEAN
    BY <1>12, FaultFacts DEF RedisRuns, TypeOK
  <2> QED
    BY <1>12, <2>3, <2>4, <2>5 DEF RedisRuns, TypeOK
<1>13. CASE Ages \/ RecordExpires
  BY <1>13 DEF Ages, RecordExpires, TypeOK
<1>14. CASE Crash
  <2>1. \A p \in Parties : [task[p] EXCEPT !.at = "done"] \in Tasks
    BY DEF TypeOK, Tasks
  <2>2. task' \in [Parties -> Tasks]
    BY <1>14, <2>1 DEF Crash
  <2>3. faults' \in 0 .. MaxFaults
    BY <1>14, FaultFacts DEF Crash
  <2>4. publishing' \in Seq(Events) /\ wire' \in Seq(Commands)
    BY <1>14 DEF Crash
  <2>5. stage' \in {"crashed"} /\ live' \in BOOLEAN /\ context' \in {"none", "closed"}
    BY <1>14 DEF Crash
  <2>6. UNCHANGED <<site, driver, record, old, told, saves, lost, hurried>>
    BY <1>14 DEF Crash
  <2> QED
    BY <2>2, <2>3, <2>4, <2>5, <2>6 DEF TypeOK
<1> QED
  BY <1>2, <1>3, <1>4, <1>5, <1>6, <1>7, <1>8, <1>9, <1>10, <1>11, <1>12, <1>13, <1>14, EndsFacts DEF Next
-----------------------------------------------------------------------------
(* What clients are told. *)
LEMMA TellingStep == TypeOK /\ Telling /\ OneEnding /\ [Next]_vars => Telling' /\ OneEnding'
<1> SUFFICES ASSUME TypeOK, Telling, OneEnding, [Next]_vars
             PROVE  Telling' /\ OneEnding'
  OBVIOUS
<1>1. CASE UNCHANGED <<stage, live, told>>
  BY <1>1 DEF Telling, OneEnding, Ended
<1>2. CASE UNCHANGED told /\ ~live' /\ stage' # "running" /\ (stage' \in {"none", "recorded", "context"} => told = <<>>)
  BY <1>2 DEF Telling, OneEnding, Ended
<1>3. CASE NewPage
  <2>1. /\ told' = <<>>
        /\ \/ stage' = "running" /\ live'
           \/ stage' = "failed" /\ ~live'
    <3>1. told' = <<>> /\ ~live
      BY <1>3 DEF NewPage, Telling
    <3>2. \/ stage' = "running" /\ live' = TRUE
          \/ stage' = "failed" /\ live' = live
      BY <1>3 DEF NewPage
    <3> QED
      BY <3>1, <3>2
  <2>2. Len(told') = 0
    BY <2>1
  <2> QED
    BY <2>1, <2>2 DEF Telling, OneEnding, Ended
<1>4. CASE News
  <2>1. told' = Append(told, "news") /\ told \in Seq(Events) /\ live /\ UNCHANGED <<stage, live>>
    BY <1>4 DEF News, TypeOK
  <2>2. Len(told') = Len(told) + 1 /\ \A i \in 1 .. Len(told') : told'[i] \notin Endings
    BY <2>1 DEF Telling, Endings, Events
  <2> QED
    BY <2>1, <2>2 DEF Telling, OneEnding, Ended
<1>5. ASSUME NEW p \in Parties, NEW events, Ends(p, events)
      PROVE  Telling' /\ OneEnding'
  <2>1. stage' = stage /\ live' = FALSE /\ Ending(events)
    BY <1>5 DEF Ends, Finishes, Rest
  <2>2. CASE live
    <3>1. told' = told \o events
      BY <1>5, <2>2 DEF Ends, Finishes
    <3>2. Ending(told')
      BY <2>1, <2>2, <3>1, TellEnding DEF TypeOK, Telling
    <3> QED
      BY <2>1, <2>2, <3>2 DEF Ending, Telling, OneEnding, Ended
  <2>3. CASE ~live
    BY <1>1, <1>5, <2>1, <2>3 DEF Ends, Finishes, TypeOK
  <2> QED
    BY <2>2, <2>3
<1> QED
  <2>1. CASE CreateRecord \/ NewContext \/ Crash
    BY <1>2, <2>1 DEF CreateRecord, NewContext, Crash, Telling
  <2>2. CASE \/ GotoDone \/ Published \/ RedisRuns \/ Ages \/ RecordExpires \/ UNCHANGED vars
             \/ \E p \in Navigations : Navigate(p) \/ SaveAccount(p)
             \/ \E p \in Parties : ContextClosed(p)
    BY <1>1, <2>2 DEF GotoDone, Published, RedisRuns, Ages, RecordExpires, vars, Navigate, SaveAccount,
                      ContextClosed, Rest
  <2> QED
    BY <1>3, <1>4, <1>5, <2>1, <2>2, EndsFacts DEF Next

-----------------------------------------------------------------------------
(* What becomes of the context. *)
LEMMA ContextStep == TypeOK /\ NoContextLeft /\ [Next]_vars => NoContextLeft'
<1> SUFFICES ASSUME TypeOK, NoContextLeft, [Next]_vars
             PROVE  NoContextLeft'
  OBVIOUS
<1> DEFINE Closing == \E p \in Parties : task[p].at = "closing"
<1>1. CASE UNCHANGED <<context, stage>> /\ (live => live') /\ (Closing => Closing')
  BY <1>1 DEF NoContextLeft
<1>2. CASE context' # "open"
  BY <1>2 DEF NoContextLeft
<1>3. CASE stage' \in {"context", "failed"} \/ live'
  BY <1>3 DEF NoContextLeft
<1>4. ASSUME NEW p \in Parties, NEW place \in {"idle", "busy", "saved", "done"},
             task[p].at # "closing", task' = [task EXCEPT ![p].at = place]
      PROVE  Closing => Closing'
  BY <1>4, PartyMoves
<1>5. ASSUME NEW p \in Parties, NEW events, Ends(p, events)
      PROVE  NoContextLeft'
  <2>1. CASE live
    BY <1>5, <2>1 DEF Ends, Finishes, NoContextLeft
  <2>2. CASE ~live
    <3>1. Closing => Closing'
      BY <1>5, <2>2 DEF Ends, Finishes
    <3> QED
      BY <1>1, <1>5, <2>2, <3>1 DEF Ends, Rest
  <2> QED
    BY <2>1, <2>2
<1>6. CASE CreateRecord
  BY <1>1, <1>6 DEF CreateRecord, NoContextLeft
<1>7. CASE NewContext \/ NewPage
  BY <1>3, <1>7 DEF NewContext, NewPage
<1>8. CASE Crash \/ \E p \in Parties : ContextClosed(p)
  BY <1>2, <1>8 DEF Crash, ContextClosed
<1>9. CASE GotoDone \/ \E p \in Navigations : Navigate(p) \/ SaveAccount(p)
  <2>1. \A p \in Parties, place \in {"busy", "saved", "done"} :
          task[p].at # "closing" /\ task' = [task EXCEPT ![p].at = place] => (Closing => Closing')
    BY <1>4
  <2>2. "goto" \in Parties /\ Navigations \subseteq Parties
    BY DEF Parties
  <2>3. Closing => Closing'
    <3> HIDE DEF Closing
    <3>1. CASE GotoDone
      BY <2>1, <2>2, <3>1 DEF GotoDone
    <3>2. CASE \E p \in Navigations : Navigate(p) \/ SaveAccount(p)
      BY <2>1, <2>2, <3>2 DEF Navigate, SaveAccount
    <3> QED
      BY <1>9, <3>1, <3>2
  <2> QED
    BY <1>1, <1>9, <2>3 DEF GotoDone, Navigate, SaveAccount, Rest
<1>10. CASE News \/ Published \/ RedisRuns \/ Ages \/ RecordExpires \/ UNCHANGED vars
  <2>1. UNCHANGED <<context, stage, live, task>>
    BY <1>10 DEF News, Published, RedisRuns, Ages, RecordExpires, vars, Rest
  <2> QED
    BY <1>1, <2>1
<1> QED
  BY <1>5, <1>6, <1>7, <1>8, <1>9, <1>10, EndsFacts DEF Next

-----------------------------------------------------------------------------
(* The invariant. *)
LEMMA LoginInit == Init => LoginInv
<1> SUFFICES ASSUME Init
             PROVE  LoginInv
  OBVIOUS
<1>1. task \in [Parties -> Tasks]
  <2>1. [at |-> "idle", final |-> "active"] \in Tasks
    BY DEF Tasks, Statuses
  <2> QED
    BY <2>1 DEF Init
<1>2. publishing \in Seq(Events) /\ wire \in Seq(Commands) /\ told \in Seq(Events)
  BY DEF Init
<1>3. faults \in 0 .. MaxFaults /\ saves \in Nat
  BY LoginAssumption DEF LoginAssumption, Init
<1>4. TypeOK
  BY <1>1, <1>2, <1>3 DEF Init, TypeOK
<1>5. Telling /\ OneEnding /\ NoContextLeft
  <2>1. told = <<>> /\ Len(told) = 0 /\ ~live /\ stage = "none" /\ context = "none"
    BY DEF Init
  <2> QED
    BY <2>1 DEF Telling, OneEnding, NoContextLeft, Ended
<1> QED
  BY <1>4, <1>5 DEF LoginInv

LEMMA LoginStep == LoginInv /\ [Next]_vars => LoginInv'
BY TypeStep, TellingStep, ContextStep DEF LoginInv

LEMMA LoginInvariant == Spec => []LoginInv
BY LoginInit, LoginStep, PTL DEF Spec

-----------------------------------------------------------------------------
(* Who writes the record last. *)

\* What an ended session's record may say in the end.
Outcome == IF site = "jd" /\ saves = 0 THEN {"expired"} ELSE {"expired", "completed"}

\* Of the commands w on their way to a record r, the last to write it leaves it
\* in R: it is the last GET, and its update is in U, or there is only what has
\* been written or sent to be.
WritesLast(w, r, U, R) ==
  \/ \E i \in 1 .. Len(w) :
       /\ w[i].is = "get" /\ w[i].update \in U
       /\ \A j \in 1 .. Len(w) : j > i => w[j].is = "set"
  \/ /\ \A j \in 1 .. Len(w) : w[j].is = "set"
     /\ w = <<>> => r \in R
     /\ w # <<>> => w[Len(w)].record \in R

Quiet  == \A p \in Parties : task[p].at # "closing"
Intact == Ended /\ ~old /\ ~lost /\ driver = "memory"

\* One party at most closes the context, and knows the final status; and JD
\* says "completed" only after saving the account.
Closers ==
  /\ site = "jd" => driver = "memory"
  /\ driver = "memory" => publishing = <<>>
  /\ \A p \in Parties : task[p].at = "saved" => saves > 0
  /\ \A p \in Parties : task[p].at = "closing" => Ended /\ task[p].final \in Outcome
  /\ \A p, q \in Parties : task[p].at = "closing" /\ task[q].at = "closing" => p = q

\* What is sent back is a record, and the record itself is still there.
Carried ==
  \A i \in 1 .. Len(wire) : wire[i].is = "set" => wire[i].record \in Records /\ (record = NoRecord => old)

\* The final status is written last, even when others still write theirs.
StatusUpdates(S) == {u \in Updates : u.field = "status" /\ u.value \in S}
StatusRecords(S) == {r \in Records : r.status \in S} \cup {NoRecord}
StatusKept ==
  Intact /\ Quiet => WritesLast(wire, record, StatusUpdates(Outcome), StatusRecords(Outcome))

\* The ending is written last while the context is being closed, and if it
\* has been written by then, no status is written over it.
EventUpdates(e) == {u \in Updates : u.field = "event" /\ u.value = e}
EventRecords(e) == {r \in Records : r.event = e} \cup {NoRecord}
EventWritten ==
  /\ record \in EventRecords(Last(told))
  /\ \A i \in 1 .. Len(wire) :
       /\ wire[i].is = "get" => wire[i].update.field = "status"
       /\ wire[i].is = "set" => wire[i].record \in EventRecords(Last(told))
EventKept ==
  Intact /\ site = "weibo" =>
    /\ ~Quiet => WritesLast(wire, record, EventUpdates(Last(told)), EventRecords(Last(told)))
    /\ Quiet /\ ~hurried => EventWritten

RecordInv == LoginInv /\ Closers /\ Carried /\ StatusKept /\ EventKept

\* What Redis does with the next command, the head c of the queue.
Runs(c) ==
  \/ c.is = "get" /\ record = NoRecord /\ wire' = Tail(wire) /\ record' = record
  \/ /\ c.is = "get" /\ record \in Records /\ record' = record
     /\ \E d \in Commands : d.is = "set" /\ d.record = Updated(record, c.update) /\ wire' = Append(Tail(wire), d)
  \/ c.is = "set" /\ wire' = Tail(wire) /\ record' = c.record

LEMMA UpdatedFacts ==
  ASSUME NEW r \in Records, NEW u \in Updates
  PROVE  /\ Updated(r, u) \in Records
         /\ u.field = "event" => Updated(r, u).event = u.value /\ Updated(r, u).status = r.status
         /\ u.field = "status" => Updated(r, u).status = u.value /\ Updated(r, u).event = r.event
BY DEF Updated, Updates, Records

LEMMA RunsFacts ==
  ASSUME TypeOK, RedisRuns
  PROVE  /\ Runs(Head(wire)) \/ (wire' = Tail(wire) /\ record' = record /\ lost')
         /\ wire # <<>> /\ (lost => lost')
<1> DEFINE c == Head(wire)
<1>1. wire # <<>> /\ c \in Commands /\ Tail(wire) \in Seq(Commands) /\ (lost => lost')
  BY DEF RedisRuns, TypeOK
<1>2. CASE c.is = "get" /\ wire' = Tail(wire) \o GoesOn(c) /\ record' = record
  <2>1. CASE record = NoRecord
    BY <1>1, <1>2, <2>1 DEF GoesOn, Runs
  <2>2. CASE record # NoRecord
    <3> DEFINE r == Updated(record, c.update)
               d == [c EXCEPT !.is = "set", !.record = r]
    <3>1. record \in Records /\ c.update \in Updates
      BY <1>1, <2>2 DEF TypeOK, Commands
    <3>2. r \in Records
      BY <3>1, UpdatedFacts
    <3>3. d \in Commands /\ d.is = "set" /\ d.record = r
      <4> HIDE DEF r, c
      <4> QED
        BY <1>1, <3>2 DEF Commands
    <3>4. wire' = Append(Tail(wire), d)
      <4>1. wire' = Tail(wire) \o <<d>>
        BY <1>2, <2>2 DEF GoesOn
      <4> HIDE DEF d, c
      <4> QED
        BY <1>1, <3>3, <4>1, AppendProperties
    <3>5. \E x \in Commands : x.is = "set" /\ x.record = r /\ wire' = Append(Tail(wire), x)
      <4> HIDE DEF d, r, c
      <4> QED
        BY <3>3, <3>4
    <3> QED
      BY <1>1, <1>2, <3>1, <3>5 DEF Runs
  <2> QED
    BY <2>1, <2>2
<1>3. CASE c.is = "set" /\ wire' = Tail(wire) /\ record' = c.record
  BY <1>1, <1>3 DEF Runs
<1>4. CASE wire' = Tail(wire) /\ record' = record /\ lost'
  BY <1>1, <1>4
<1> QED
  BY <1>1, <1>2, <1>3, <1>4 DEF RedisRuns

\* A write that comes last stays last.
LEMMA StaysLast ==
  ASSUME TypeOK, Carried, ~old, Runs(Head(wire)), wire # <<>>, NEW U, NEW R, NoRecord \in R,
         \A u \in U, r \in Records : Updated(r, u) \in R,
         WritesLast(wire, record, U, R)
  PROVE  WritesLast(wire', record', U, R)
<1> DEFINE c == Head(wire)
           n == Len(wire)
           s == Tail(wire)
<1>t. /\ n \in Nat /\ n > 0 /\ c = wire[1] /\ s \in Seq(Commands) /\ Len(s) = n - 1
      /\ \A j \in 1 .. n - 1 : s[j] = wire[j + 1]
      /\ s = <<>> <=> n = 1
  <2>1. wire \in Seq(Commands)
    BY DEF TypeOK
  <2>2. c = wire[1] /\ s \in Seq(Commands) /\ n \in Nat /\ n > 0 /\ Len(s) = n - 1
    BY <2>1
  <2>3. \A j \in 1 .. n - 1 : s[j] = wire[j + 1]
    BY <2>1
  <2>4. s = <<>> <=> Len(s) = 0
    BY <2>2, EmptySeq
  <2> HIDE DEF s, n
  <2> QED
    BY <2>2, <2>3, <2>4
<1>a. ASSUME NEW d \in Commands
      PROVE  /\ Len(Append(s, d)) = n /\ Append(s, d)[n] = d /\ Append(s, d) # <<>>
             /\ \A j \in 1 .. n - 1 : Append(s, d)[j] = wire[j + 1]
  <2> HIDE DEF s, n
  <2> QED
    BY <1>t, AppendProperties
<1>w. \/ \E i \in 1 .. n : wire[i].is = "get" /\ wire[i].update \in U /\ \A j \in 1 .. n : j > i => wire[j].is = "set"
      \/ (\A j \in 1 .. n : wire[j].is = "set") /\ wire[n].record \in R
  BY DEF WritesLast
<1>c. record = NoRecord => \A j \in 1 .. n : wire[j].is # "set"
  BY DEF Carried
<1>r. \/ c.is = "get" /\ record = NoRecord /\ wire' = s /\ record' = record
      \/ /\ c.is = "get" /\ record \in Records /\ record' = record
         /\ \E d \in Commands : d.is = "set" /\ d.record = Updated(record, c.update) /\ wire' = Append(s, d)
      \/ c.is = "set" /\ wire' = s /\ record' = c.record
  BY DEF Runs
<1> HIDE DEF c, n, s
<1>1. CASE c.is = "get" /\ record = NoRecord /\ wire' = s /\ record' = record
  <2>1. \A j \in 1 .. n : wire[j].is # "set"
    BY <1>1, <1>c
  <2>2. PICK i \in 1 .. n : wire[i].is = "get" /\ wire[i].update \in U /\ \A j \in 1 .. n : j > i => wire[j].is = "set"
    BY <1>t, <1>w, <2>1
  <2>3. i = n
    BY <1>t, <2>1, <2>2
  <2>4. CASE n = 1
    <3>1. wire' = <<>> /\ record' = NoRecord /\ Len(wire') = 0
      BY <1>t, <1>1, <2>4
    <3> QED
      BY <3>1 DEF WritesLast
  <2>5. CASE n > 1
    <3>1. n - 1 \in 1 .. Len(s) /\ s[n - 1] = wire[n] /\ \A j \in 1 .. Len(s) : ~ (j > n - 1)
      BY <1>t, <2>5
    <3> QED
      BY <1>1, <2>2, <2>3, <3>1 DEF WritesLast
  <2> QED
    BY <1>t, <2>4, <2>5
<1>2. ASSUME NEW d \in Commands, c.is = "get", record \in Records, record' = record,
             d.is = "set", d.record = Updated(record, c.update), wire' = Append(s, d)
      PROVE  WritesLast(wire', record', U, R)
  <2>t. Len(wire') = n /\ wire'[n] = d /\ wire' # <<>> /\ \A j \in 1 .. n - 1 : wire'[j] = wire[j + 1]
    BY <1>a, <1>2
  <2>1. PICK i \in 1 .. n : wire[i].is = "get" /\ wire[i].update \in U /\ \A j \in 1 .. n : j > i => wire[j].is = "set"
    BY <1>t, <1>w, <1>2
  <2>2. CASE i = 1
    <3>1. \A j \in 1 .. n : wire'[j].is = "set"
      BY <1>t, <1>2, <2>t, <2>1, <2>2
    <3>2. d.record \in R
      BY <1>t, <1>2, <2>1, <2>2
    <3> QED
      BY <2>t, <3>1, <3>2 DEF WritesLast
  <2>3. CASE i > 1
    <3>1. i - 1 \in 1 .. n /\ wire'[i - 1] = wire[i]
      BY <1>t, <2>t, <2>3
    <3>2. \A j \in 1 .. n : j > i - 1 => wire'[j].is = "set"
      BY <1>t, <1>2, <2>t, <2>1
    <3> QED
      BY <2>t, <2>1, <3>1, <3>2 DEF WritesLast
  <2> QED
    BY <1>t, <2>2, <2>3
<1>3. CASE c.is = "set" /\ wire' = s /\ record' = c.record
  <2>1. ASSUME NEW i \in 1 .. n, wire[i].is = "get", wire[i].update \in U, \A j \in 1 .. n : j > i => wire[j].is = "set"
        PROVE  WritesLast(s, record', U, R)
    <3>1. i > 1
      BY <1>t, <1>3, <2>1
    <3>2. i - 1 \in 1 .. Len(s) /\ s[i - 1] = wire[i]
      BY <1>t, <3>1
    <3>3. \A j \in 1 .. Len(s) : j > i - 1 => s[j].is = "set"
      BY <1>t, <2>1
    <3> QED
      BY <2>1, <3>2, <3>3 DEF WritesLast
  <2>2. ASSUME \A j \in 1 .. n : wire[j].is = "set", wire[n].record \in R
        PROVE  WritesLast(s, record', U, R)
    <3>1. \A j \in 1 .. Len(s) : s[j].is = "set"
      BY <1>t, <2>2
    <3>2. s # <<>> => s[Len(s)] = wire[n]
      BY <1>t
    <3>3. s = <<>> => record' = wire[n].record
      BY <1>t, <1>3
    <3> QED
      BY <2>2, <3>1, <3>2, <3>3 DEF WritesLast
  <2> QED
    BY <1>3, <1>w, <2>1, <2>2
<1> QED
  BY <1>r, <1>1, <1>2, <1>3
\* Only GETs are sent, after what is on its way already.
AddsGets(w, v) ==
  /\ Len(v) >= Len(w) /\ \A i \in 1 .. Len(w) : v[i] = w[i]
  /\ \A i \in 1 .. Len(v) : i > Len(w) => v[i].is = "get"

LEMMA AddsGetsFacts ==
  ASSUME NEW w \in Seq(Commands), NEW x \in Seq(Commands), \A i \in 1 .. Len(x) : x[i].is = "get"
  PROVE  w \o x \in Seq(Commands) /\ AddsGets(w, w) /\ AddsGets(w, w \o x)
<1>1. \A i \in 1 .. Len(w) + Len(x) : i > Len(w) => i - Len(w) \in 1 .. Len(x) /\ (w \o x)[i] = x[i - Len(w)]
  OBVIOUS
<1>2. \A i \in 1 .. Len(w) : (w \o x)[i] = w[i]
  OBVIOUS
<1>3. Len(w \o x) = Len(w) + Len(x) /\ w \o x \in Seq(Commands) /\ Len(w) \in Nat /\ Len(x) \in Nat
  BY ConcatProperties
<1> QED
  BY <1>1, <1>2, <1>3 DEF AddsGets

LEMMA AddsMore ==
  ASSUME NEW w \in Seq(Commands), NEW v \in Seq(Commands), NEW u \in Seq(Commands),
         AddsGets(w, v), AddsGets(v, u)
  PROVE  AddsGets(w, u)
<1>1. Len(w) \in Nat /\ Len(v) \in Nat /\ Len(u) \in Nat
  OBVIOUS
<1>2. ASSUME NEW i \in 1 .. Len(w)
      PROVE  u[i] = w[i]
  BY <1>1 DEF AddsGets
<1>3. ASSUME NEW i \in 1 .. Len(u), i > Len(w)
      PROVE  u[i].is = "get"
  <2>1. CASE i > Len(v)
    BY <2>1 DEF AddsGets
  <2>2. CASE ~ (i > Len(v))
    <3>1. i \in 1 .. Len(v)
      BY <1>1, <2>2
    <3>2. u[i] = v[i] /\ v[i].is = "get"
      BY <1>3, <3>1 DEF AddsGets
    <3> QED
      BY <3>2
  <2> QED
    BY <2>1, <2>2
<1> QED
  BY <1>1, <1>2, <1>3 DEF AddsGets

LEMMA GetsFacts ==
  ASSUME NEW events \in Seq(Events), NEW status \in Statuses
  PROVE  /\ GetEvents(events) \in Seq(Commands) /\ GetStatus(status) \in Seq(Commands)
         /\ \A i \in 1 .. Len(GetEvents(events)) : GetEvents(events)[i].is = "get"
         /\ \A i \in 1 .. Len(GetStatus(status)) : GetStatus(status)[i].is = "get"
         /\ Len(GetEvents(events)) = Len(events)
         /\ events # <<>> => GetEvents(events)[Len(events)] = Get("event", Last(events))
<1>1. Len(GetEvents(events)) = Len(events) /\ \A i \in 1 .. Len(events) : GetEvents(events)[i] = Get("event", events[i])
  BY DEF GetEvents
<1>2. events # <<>> => Len(events) \in 1 .. Len(events) /\ Last(events) = events[Len(events)]
  BY DEF Last
<1>3. \A i \in 1 .. Len(GetStatus(status)) : GetStatus(status)[i].is = "get"
  BY DEF GetStatus, Get
<1>4. \A i \in 1 .. Len(events) : GetEvents(events)[i].is = "get"
  <2>1. \A event : Get("event", event).is = "get"
    BY DEF Get
  <2> QED
    BY <1>1, <2>1
<1> QED
  BY <1>1, <1>2, <1>3, <1>4, CommandFacts

\* What a subscriber sends: at the end, for Weibo, the last of the events.
LEMMA SubscriberSends ==
  ASSUME TypeOK, NEW events \in Seq(Events), NEW completes \in BOOLEAN, Subscriber(events, completes)
  PROVE  /\ AddsGets(wire, wire')
         /\ site # "jd" /\ driver = "memory" /\ events # <<>> =>
              wire' # <<>> /\ wire'[Len(wire')] = Get("event", Last(events))
         /\ driver = "memory" \/ site = "jd" => publishing' = publishing
<1> DEFINE completed == IF completes THEN GetStatus("completed") ELSE <<>>
           got == GetEvents(events)
<1>0. wire \in Seq(Commands) /\ "completed" \in Statuses
  BY DEF TypeOK, Statuses
<1>1. completed \in Seq(Commands) /\ \A i \in 1 .. Len(completed) : completed[i].is = "get"
  BY <1>0, GetsFacts
<1>2. /\ got \in Seq(Commands) /\ \A i \in 1 .. Len(got) : got[i].is = "get"
      /\ Len(got) = Len(events)
      /\ events # <<>> => got[Len(got)] = Get("event", Last(events))
  BY <1>0, GetsFacts
<1>3. \/ site = "jd" /\ wire' = (wire \o got) \o completed /\ publishing' = publishing
      \/ site # "jd" /\ driver = "memory" /\ wire' = (wire \o completed) \o got /\ publishing' = publishing
      \/ site # "jd" /\ driver # "memory" /\ wire' = wire \o completed
  BY DEF Subscriber
<1> HIDE DEF completed, got
<1>4. \A x, y \in Seq(Commands) :
        /\ \A i \in 1 .. Len(x) : x[i].is = "get"
        /\ \A i \in 1 .. Len(y) : y[i].is = "get"
        => AddsGets(wire, wire \o x) /\ AddsGets(wire, (wire \o x) \o y)
  BY <1>0, AddsGetsFacts, AddsMore
<1>5. ASSUME events # <<>>
      PROVE  (wire \o completed) \o got # <<>> /\ ((wire \o completed) \o got)[Len((wire \o completed) \o got)] = Get("event", Last(events))
  <2> DEFINE w == wire \o completed
  <2>1. w \in Seq(Commands)
    BY <1>0, <1>1, ConcatProperties
  <2>2. Len(got) \in Nat /\ Len(got) > 0
    <3>1. Len(events) \in Nat /\ Len(events) > 0
      BY <1>5
    <3> QED
      BY <1>2, <3>1
  <2> HIDE DEF w
  <2>3. Len(w \o got) = Len(w) + Len(got) /\ (w \o got)[Len(w) + Len(got)] = got[Len(got)] /\ w \o got # <<>>
    BY <1>2, <2>1, <2>2
  <2> QED
    BY <1>2, <1>5, <2>3 DEF w
<1> QED
  BY <1>1, <1>2, <1>3, <1>4, <1>5

\* The final status is sent last.
LEMMA StatusSent ==
  ASSUME NEW w \in Seq(Commands), NEW status \in Statuses
  PROVE  /\ AddsGets(w, w \o GetStatus(status))
         /\ \A r, S, R : status \in S => WritesLast(w \o GetStatus(status), r, StatusUpdates(S), R)
<1> DEFINE c == Get("status", status)
           v == w \o GetStatus(status)
<1>1. c \in Commands /\ c.is = "get" /\ c.update \in Updates /\ c.update.field = "status" /\ c.update.value = status
  BY DEF Get, Commands, Updates
<1>2. GetStatus(status) = <<c>>
  BY DEF GetStatus
<1>3. Len(v) = Len(w) + 1 /\ v[Len(w) + 1] = c /\ Len(w) \in Nat
  <2> HIDE DEF c
  <2> QED
    BY <1>1, <1>2
<1>4. AddsGets(w, v)
  <2>1. GetStatus(status) \in Seq(Commands) /\ \A i \in 1 .. Len(GetStatus(status)) : GetStatus(status)[i].is = "get"
    <3>1. <<>> \in Seq(Events)
      OBVIOUS
    <3> QED
      BY <3>1, GetsFacts
  <2> QED
    BY <2>1, AddsGetsFacts
<1>5. ASSUME NEW S, status \in S
      PROVE  c.update \in StatusUpdates(S)
  BY <1>1, <1>5 DEF StatusUpdates
<1> HIDE DEF c, v
<1>6. ASSUME NEW r, NEW S, NEW R, status \in S
      PROVE  WritesLast(v, r, StatusUpdates(S), R)
  <2>1. Len(w) + 1 \in 1 .. Len(v) /\ \A j \in 1 .. Len(v) : ~ (j > Len(w) + 1)
    BY <1>3
  <2> QED
    BY <1>1, <1>3, <1>5, <1>6, <2>1 DEF WritesLast
<1> QED
  BY <1>4, <1>6 DEF v
-----------------------------------------------------------------------------
(* What each step does to the record and to the commands for it. *)

\* What an ending sends: for Weibo the ending last, and nothing when it comes
\* second; a party that comes second with JD sends its status.
Sent(p, events, status) ==
  /\ task' \in [Parties -> Tasks] /\ \A q \in Parties \ {p} : task'[q] = task[q]
  /\ AddsGets(wire, wire') /\ wire' \in Seq(Commands)
  /\ live =>
       /\ task'[p].at = "closing" /\ task'[p].final = FinalStatus(status)
       /\ site # "jd" /\ driver = "memory" =>
            wire' # <<>> /\ wire'[Len(wire')] = Get("event", Last(events))
  /\ ~live =>
       /\ task[p].at # "closing" /\ task'[p].at = "done" /\ told' = told
       /\ site = "jd" => wire' = wire \o GetStatus(status)
       /\ site # "jd" => wire' = wire
  /\ driver = "memory" => publishing' = publishing
  /\ status \in {"expired", "completed"} /\ (status = "completed" => task[p].at = "saved")

LEMMA SentFacts ==
  ASSUME TypeOK, Closers, NEW p \in Parties, NEW events, NEW status, EndsWith(p, events, status)
  PROVE  Sent(p, events, status)
<1>1. /\ Finish(p, events, status) /\ status \in {"expired", "completed"}
      /\ status = "completed" => task[p].at = "saved"
      /\ Finishes(p, events) /\ Ending(events) /\ (task[p].at # "closing" \/ live)
  BY DEF EndsWith, Ends
<1>2. status \in Statuses /\ events \in Seq(Events) /\ events # <<>> /\ wire \in Seq(Commands)
  BY <1>1 DEF Statuses, Ending, TypeOK
<1>3. CASE live
  <2>1. Subscriber(events, TRUE) /\ task' = [task EXCEPT ![p] = [at |-> "closing", final |-> FinalStatus(status)]]
    BY <1>1, <1>3 DEF Finish
  <2>2. task'[p].final = FinalStatus(status)
    BY <2>1 DEF TypeOK
  <2>3. /\ AddsGets(wire, wire')
        /\ site # "jd" /\ driver = "memory" => wire' # <<>> /\ wire'[Len(wire')] = Get("event", Last(events))
        /\ driver = "memory" \/ site = "jd" => publishing' = publishing
    BY <1>2, <2>1, SubscriberSends
  <2> QED
    BY <1>1, <1>3, <2>2, <2>3 DEF Finishes, Sent
<1>4. CASE ~live
  <2>1. publishing' = publishing /\ wire' = IF site = "jd" THEN wire \o GetStatus(FinalStatus(status)) ELSE wire
    BY <1>1, <1>4 DEF Finish
  <2>2. site = "jd" => FinalStatus(status) = status
    BY DEF FinalStatus
  <2>3. AddsGets(wire, wire) /\ AddsGets(wire, wire \o GetStatus(status))
    BY <1>2, StatusSent, AddsGetsFacts, EmptySeq DEF AddsGets
  <2> QED
    BY <1>1, <1>4, <2>1, <2>2, <2>3 DEF Finishes, Sent
<1> QED
  BY <1>3, <1>4

\* A step after which nobody closes the context who did not before.
NoNewCloser ==
  /\ site' = site /\ driver' = driver /\ saves' \in Nat /\ saves' >= saves
  /\ driver = "memory" => publishing' = <<>>
  /\ \A p \in Parties :
       /\ task'[p].at = "closing" => task'[p] = task[p] /\ stage' = stage /\ (~live => ~live')
       /\ task'[p].at = "saved" => task[p].at = "saved" \/ saves' > 0

LEMMA NoNewCloserKeeps == TypeOK /\ Closers /\ NoNewCloser => Closers'
<1> SUFFICES ASSUME TypeOK, Closers, NoNewCloser
             PROVE  Closers'
  OBVIOUS
<1>1. Outcome \subseteq Outcome'
  BY DEF NoNewCloser, Outcome, TypeOK
<1>2. \A p \in Parties : task'[p].at = "closing" => Ended' /\ task'[p].final \in Outcome'
  BY <1>1 DEF NoNewCloser, Closers, Ended
<1>3. \A p \in Parties : task'[p].at = "saved" => saves' > 0
  BY DEF NoNewCloser, Closers, TypeOK
<1> QED
  BY <1>2, <1>3 DEF NoNewCloser, Closers

\* The steps that are not the end of a session.
LEMMA OthersAreNoClosers ==
  ASSUME TypeOK, Closers,
         \/ CreateRecord \/ NewContext \/ NewPage \/ News \/ GotoDone
         \/ \E p \in Navigations : Navigate(p) \/ SaveAccount(p)
         \/ \E p \in Parties : ContextClosed(p)
         \/ Published \/ RedisRuns \/ Ages \/ RecordExpires \/ Crash \/ UNCHANGED vars
  PROVE  NoNewCloser
<1>t. /\ saves \in Nat /\ Navigations \subseteq Parties /\ "goto" \in Parties
      /\ driver = "memory" => publishing = <<>>
      /\ \A p \in Parties : task[p].at = "closing" => Ended
  BY DEF TypeOK, Parties, Closers
<1>1. ASSUME NEW p \in Parties, NEW place \in {"busy", "done"}, task' = [task EXCEPT ![p].at = place]
      PROVE  \A q \in Parties :
               /\ task'[q].at = "closing" => task'[q] = task[q]
               /\ task'[q].at = "saved" => task[q].at = "saved"
  BY <1>1, PartyMoves
<1>2. ASSUME site' = site, driver' = driver, saves' = saves,
             publishing' = publishing \/ driver # "memory" \/ publishing' = <<>>,
             \A q \in Parties :
               /\ task'[q].at = "closing" => task'[q] = task[q] /\ stage' = stage /\ (~live => ~live')
               /\ task'[q].at = "saved" => task[q].at = "saved"
      PROVE  NoNewCloser
  <2>1. driver = "memory" => publishing' = <<>>
    BY <1>t, <1>2
  <2>2. saves' \in Nat /\ saves' >= saves
    BY <1>t, <1>2
  <2> QED
    BY <1>2, <2>1, <2>2 DEF NoNewCloser
<1>3. CASE CreateRecord \/ NewContext
  BY <1>t, <1>2, <1>3 DEF CreateRecord, NewContext, redis, Ended
<1>4. CASE NewPage
  <2>1. stage = "context" /\ UNCHANGED <<site, driver, saves, publishing>>
        /\ (task' = [task EXCEPT !["goto"].at = "busy"] \/ task' = task)
    BY <1>4 DEF NewPage
  <2>2. \A q \in Parties :
          /\ task'[q].at = "closing" => task'[q] = task[q]
          /\ task'[q].at = "saved" => task[q].at = "saved"
    <3>1. CASE task' = [task EXCEPT !["goto"].at = "busy"]
      BY <1>t, <1>1, <3>1
    <3>2. CASE task' = task
      BY <3>2
    <3> QED
      BY <2>1, <3>1, <3>2
  <2>3. \A q \in Parties : task'[q].at # "closing"
    BY <1>t, <2>1, <2>2 DEF Ended
  <2> QED
    BY <1>2, <2>1, <2>2, <2>3
<1>5. CASE News
  <2>1. publishing' = publishing \/ driver # "memory"
    <3>1. Subscriber(<<"news">>, FALSE)
      BY <1>5 DEF News
    <3>2. <<"news">> \in Seq(Events)
      BY DEF Events
    <3> QED
      BY <3>1, <3>2, SubscriberSends
  <2> QED
    BY <1>2, <1>5, <2>1 DEF News
<1>6. CASE GotoDone
  <2>1. task' = [task EXCEPT !["goto"].at = "done"] /\ UNCHANGED <<site, driver, saves, publishing, stage, live>>
    BY <1>6 DEF GotoDone, Rest
  <2> QED
    BY <1>t, <1>1, <1>2, <2>1
<1>7. ASSUME NEW p \in Navigations, Navigate(p)
      PROVE  NoNewCloser
  <2>1. task' = [task EXCEPT ![p].at = "busy"] /\ UNCHANGED <<site, driver, saves, publishing, stage, live>>
    BY <1>7 DEF Navigate, Rest
  <2> QED
    BY <1>t, <1>1, <1>2, <2>1
<1>8. ASSUME NEW p \in Navigations, SaveAccount(p)
      PROVE  NoNewCloser
  <2>1. task' = [task EXCEPT ![p].at = "saved"] /\ UNCHANGED <<site, driver, publishing, stage, live>>
        /\ saves' = saves + 1
    BY <1>8 DEF SaveAccount, Rest
  <2>2. \A q \in Parties : task'[q].at = "closing" => task'[q] = task[q]
    BY <1>t, <2>1, PartyMoves
  <2> QED
    BY <1>t, <2>1, <2>2 DEF NoNewCloser
<1>9. ASSUME NEW p \in Parties, ContextClosed(p)
      PROVE  NoNewCloser
  <2>1. task' = [task EXCEPT ![p].at = "done"] /\ UNCHANGED <<site, driver, saves, publishing, stage, live>>
    BY <1>9 DEF ContextClosed
  <2> QED
    BY <1>1, <1>2, <2>1
<1>10. CASE Published
  BY <1>t, <1>2, <1>10 DEF Published, Rest
<1>11. CASE RedisRuns \/ Ages \/ RecordExpires \/ UNCHANGED vars
  <2>1. UNCHANGED <<site, driver, saves, publishing, task, stage, live>>
    BY <1>11 DEF RedisRuns, Ages, RecordExpires, vars
  <2> QED
    BY <1>2, <2>1
<1>12. CASE Crash
  <2>1. \A q \in Parties : task'[q].at = "done"
    BY <1>12 DEF Crash, TypeOK, Tasks
  <2> QED
    BY <1>2, <1>12, <2>1 DEF Crash
<1> QED
  BY <1>3, <1>4, <1>5, <1>6, <1>7, <1>8, <1>9, <1>10, <1>11, <1>12

LEMMA ClosersStep == TypeOK /\ Telling /\ Closers /\ [Next]_vars => Closers'
<1> SUFFICES ASSUME TypeOK, Telling, Closers, [Next]_vars
             PROVE  Closers'
  OBVIOUS
<1>1. ASSUME NEW p \in Parties, NEW events, NEW status, EndsWith(p, events, status)
      PROVE  Closers'
  <2>1. /\ Sent(p, events, status) /\ live' = FALSE /\ stage' = stage
        /\ UNCHANGED <<site, driver, saves>> /\ Outcome' = Outcome
    BY <1>1, SentFacts DEF EndsWith, Ends, Finishes, Rest, Outcome
  <2>2. driver = "memory" => publishing' = <<>>
    BY <2>1 DEF Sent, Closers
  <2>3. saves \in Nat /\ \A q \in Parties \ {p} : task'[q] = task[q]
    BY <2>1 DEF Sent, TypeOK
  <2>4. CASE live
    <3>1. /\ task'[p].at = "closing" /\ task'[p].final = FinalStatus(status) /\ Ended'
          /\ \A q \in Parties : task[q].at # "closing"
      BY <2>1, <2>4 DEF Sent, Telling, Ended, Closers
    <3>2. FinalStatus(status) \in Outcome
      BY <2>1, <2>3 DEF Sent, FinalStatus, Outcome, Closers
    <3> QED
      BY <2>1, <2>2, <2>3, <3>1, <3>2 DEF Closers
  <2>5. CASE ~live
    <3>1. task'[p].at = "done"
      BY <2>1, <2>5 DEF Sent
    <3>2. NoNewCloser
      BY <2>1, <2>2, <2>3, <2>5, <3>1 DEF NoNewCloser
    <3> QED
      BY <3>2, NoNewCloserKeeps
  <2> QED
    BY <2>4, <2>5
<1> QED
  BY <1>1, OthersAreNoClosers, NoNewCloserKeeps, EndsWithFacts DEF Next
\* A step that leaves the record alone and may send GETs.
Sends == AddsGets(wire, wire') /\ record' = record /\ (old => old')

LEMMA SendsFacts ==
  ASSUME TypeOK, Closers, [Next]_vars
  PROVE  Sends \/ CreateRecord \/ RedisRuns \/ RecordExpires \/ Crash
<1>t. wire \in Seq(Commands) /\ AddsGets(wire, wire) /\ old \in BOOLEAN
  BY AddsGetsFacts, EmptySeq DEF TypeOK, AddsGets
<1>1. CASE wire' = wire /\ record' = record /\ (old => old')
  BY <1>t, <1>1 DEF Sends
<1>2. ASSUME NEW p \in Parties, NEW events, NEW status, EndsWith(p, events, status)
      PROVE  Sends
  BY <1>2, SentFacts DEF EndsWith, Ends, Sent, Rest, Sends
<1>3. CASE News
  <2>1. Subscriber(<<"news">>, FALSE) /\ record' = record /\ old' = old
    BY <1>3 DEF News
  <2>2. <<"news">> \in Seq(Events)
    BY DEF Events
  <2> QED
    BY <2>1, <2>2, SubscriberSends DEF Sends
<1>4. ASSUME NEW p \in Parties, ContextClosed(p)
      PROVE  Sends
  <2>1. wire' = wire \o GetStatus(task[p].final) /\ record' = record /\ old' = old
    BY <1>4 DEF ContextClosed
  <2>2. task[p].final \in Statuses
    BY DEF TypeOK, Tasks
  <2> QED
    BY <1>t, <2>1, <2>2, StatusSent DEF Sends
<1>5. CASE Published
  <2> DEFINE event == Head(publishing)
             one == <<event>>
  <2>1. wire' = wire \o GetEvents(one) /\ record' = record /\ old' = old
    BY <1>5 DEF Published, Rest
  <2>2. event \in Events
    BY <1>5 DEF Published, TypeOK
  <2>3. one \in Seq(Events)
    <3> HIDE DEF event
    <3> QED
      BY <2>2
  <2> HIDE DEF one
  <2>4. GetEvents(one) \in Seq(Commands) /\ \A i \in 1 .. Len(GetEvents(one)) : GetEvents(one)[i].is = "get"
    BY <2>3, GetsFacts DEF Statuses
  <2> QED
    BY <1>t, <2>1, <2>4, AddsGetsFacts DEF Sends
<1>6. CASE \/ NewContext \/ NewPage \/ GotoDone \/ Ages \/ UNCHANGED vars
           \/ \E p \in Navigations : Navigate(p) \/ SaveAccount(p)
  <2>1. wire' = wire /\ record' = record /\ (old => old')
    BY <1>6 DEF NewContext, NewPage, GotoDone, Ages, vars, Navigate, SaveAccount, redis, Rest
  <2> QED
    BY <1>1, <2>1
<1> QED
  BY <1>2, <1>3, <1>4, <1>5, <1>6, EndsWithFacts DEF Next

LEMMA CarriedStep == TypeOK /\ Closers /\ Carried /\ [Next]_vars => Carried'
<1> SUFFICES ASSUME TypeOK, Closers, Carried, [Next]_vars
             PROVE  Carried'
  OBVIOUS
<1>t. wire \in Seq(Commands) /\ Len(wire) \in Nat
  BY DEF TypeOK
<1>1. CASE Sends
  <2> SUFFICES ASSUME NEW i \in 1 .. Len(wire'), wire'[i].is = "set"
               PROVE  wire'[i].record \in Records /\ (record' = NoRecord => old')
    BY DEF Carried
  <2>1. i \in 1 .. Len(wire) /\ wire'[i] = wire[i]
    BY <1>1, <1>t DEF Sends, AddsGets
  <2> QED
    BY <1>1, <2>1 DEF Sends, Carried
<1>2. CASE CreateRecord
  BY <1>2 DEF CreateRecord, Carried, NoRecord
<1>3. CASE RecordExpires
  BY <1>3 DEF RecordExpires, Carried
<1>4. CASE Crash
  BY <1>4 DEF Crash, Carried
<1>5. CASE RedisRuns
  <2> DEFINE c == Head(wire)
             n == Len(wire)
             s == Tail(wire)
  <2>1. wire # <<>> /\ old' = old
    BY <1>5 DEF RedisRuns
  <2>2. /\ n \in Nat /\ n > 0 /\ c = wire[1] /\ s \in Seq(Commands) /\ Len(s) = n - 1
        /\ \A j \in 1 .. Len(s) : s[j] = wire[j + 1] /\ j + 1 \in 1 .. n
        /\ c \in Commands
    BY <1>t, <2>1
  <2>3. \A j \in 1 .. n : wire[j].is = "set" => wire[j].record \in Records /\ (record = NoRecord => old)
    BY DEF Carried
  <2>4. \/ wire' = s /\ record' = record
        \/ /\ record \in Records /\ record' = record
           /\ \E d \in Commands : d.is = "set" /\ d.record = Updated(record, c.update) /\ wire' = Append(s, d)
        \/ c.is = "set" /\ wire' = s /\ record' = c.record
    BY <1>5, RunsFacts DEF Runs
  <2>5. NoRecord \notin Records /\ c.update \in Updates
    BY <2>2 DEF NoRecord, Records, Statuses, Commands
  <2> HIDE DEF c, n, s
  <2>6. CASE wire' = s /\ record' = record
    BY <2>1, <2>2, <2>3, <2>6 DEF Carried
  <2>7. ASSUME record \in Records, record' = record, NEW d \in Commands, d.is = "set",
               d.record = Updated(record, c.update), wire' = Append(s, d)
        PROVE  Carried'
    <3>1. d.record \in Records
      BY <2>5, <2>7, UpdatedFacts
    <3>2. /\ Len(wire') = Len(s) + 1 /\ Len(s) \in Nat /\ wire'[Len(s) + 1] = d
          /\ \A j \in 1 .. Len(s) : wire'[j] = s[j]
      BY <2>2, <2>7, AppendProperties
    <3>3. \A j \in 1 .. Len(wire') : j \in 1 .. Len(s) \/ j = Len(s) + 1
      BY <3>2
    <3> QED
      BY <2>2, <2>3, <2>5, <2>7, <3>1, <3>2, <3>3 DEF Carried
  <2>8. CASE c.is = "set" /\ wire' = s /\ record' = c.record
    <3>1. record' \in Records
      BY <2>2, <2>3, <2>8
    <3> QED
      BY <2>2, <2>3, <2>5, <2>8, <3>1 DEF Carried
  <2> QED
    BY <2>4, <2>6, <2>7, <2>8
<1> QED
  BY <1>1, <1>2, <1>3, <1>4, <1>5, SendsFacts
-----------------------------------------------------------------------------
(* The final status and the ending stay. *)

\* A status is written into records that keep it.
LEMMA StatusWrites ==
  ASSUME NEW S
  PROVE  /\ NoRecord \in StatusRecords(S)
         /\ \A u \in StatusUpdates(S), r \in Records : Updated(r, u) \in StatusRecords(S)
BY UpdatedFacts DEF StatusRecords, StatusUpdates

LEMMA EventWrites ==
  ASSUME NEW e
  PROVE  /\ NoRecord \in EventRecords(e)
         /\ \A u \in EventUpdates(e), r \in Records : Updated(r, u) \in EventRecords(e)
BY UpdatedFacts DEF EventRecords, EventUpdates

\* A step that the record of an ended session does not notice.
Unnoticed ==
  /\ UNCHANGED <<site, driver, stage, live, wire, record, told, hurried>>
  /\ (old => old') /\ (lost => lost') /\ (Quiet' <=> Quiet) /\ Outcome \subseteq Outcome'

\* The steps after which a session has ended.
LEMMA EndedSteps ==
  ASSUME TypeOK, Closers, [Next]_vars, Intact'
  PROVE  \/ \E p \in Parties : \E events, status : EndsWith(p, events, status)
         \/ \E p \in Parties : ContextClosed(p)
         \/ RedisRuns \/ RecordExpires \/ Unnoticed
<1>t. /\ saves \in Nat /\ Navigations \subseteq Parties /\ "goto" \in Parties
      /\ driver = "memory" => publishing = <<>>
  BY DEF TypeOK, Parties, Closers
<1>1. CASE CreateRecord \/ NewContext \/ NewPage \/ News \/ Crash \/ Ages
  <2>1. stage' = "running" /\ ~live' /\ ~old'
    BY DEF Intact, Ended
  <2>2. CASE CreateRecord \/ NewContext \/ Crash
    BY <2>1, <2>2 DEF CreateRecord, NewContext, Crash
  <2>3. CASE NewPage
    BY <2>1, <2>3 DEF NewPage
  <2>4. CASE News
    BY <2>1, <2>4 DEF News
  <2>5. CASE Ages
    BY <2>1, <2>5 DEF Ages
  <2> QED
    BY <1>1, <2>2, <2>3, <2>4, <2>5
<1>2. CASE Published
  BY <1>t, <1>2 DEF Published, Rest, Intact
<1>3. ASSUME NEW p \in Parties, NEW place \in {"busy", "saved", "done"}, task[p].at # "closing",
             task' = [task EXCEPT ![p].at = place],
             UNCHANGED <<site, driver, stage, live, wire, record, old, told, lost, hurried>>,
             saves' \in {saves, saves + 1}
      PROVE  Unnoticed
  <2>1. Quiet' <=> Quiet
    BY <1>3, PartyMoves DEF Quiet
  <2>2. Outcome \subseteq Outcome'
    BY <1>t, <1>3 DEF Outcome
  <2> QED
    BY <1>3, <2>1, <2>2 DEF Unnoticed
<1>4. CASE GotoDone
  <2>1. task["goto"].at # "closing" /\ task' = [task EXCEPT !["goto"].at = "done"]
        /\ UNCHANGED <<site, driver, stage, live, wire, record, old, told, lost, hurried>> /\ saves' = saves
    BY <1>4 DEF GotoDone, Rest
  <2> QED
    BY <1>t, <1>3, <2>1
<1>5. ASSUME NEW p \in Navigations, Navigate(p) \/ SaveAccount(p)
      PROVE  Unnoticed
  <2>1. task[p].at # "closing" /\ UNCHANGED <<site, driver, stage, live, wire, record, old, told, lost, hurried>>
        /\ saves' \in {saves, saves + 1}
        /\ (task' = [task EXCEPT ![p].at = "busy"] \/ task' = [task EXCEPT ![p].at = "saved"])
    BY <1>5 DEF Navigate, SaveAccount, Rest
  <2>2. CASE task' = [task EXCEPT ![p].at = "busy"]
    BY <1>t, <1>3, <2>1, <2>2
  <2>3. CASE task' = [task EXCEPT ![p].at = "saved"]
    BY <1>t, <1>3, <2>1, <2>3
  <2> QED
    BY <2>1, <2>2, <2>3
<1>6. CASE UNCHANGED vars
  BY <1>6 DEF vars, Unnoticed, Quiet, Outcome
<1> QED
  BY <1>1, <1>2, <1>4, <1>5, <1>6, EndsWithFacts DEF Next

LEMMA StatusStep ==
  TypeOK /\ Telling /\ Closers /\ Carried /\ StatusKept /\ [Next]_vars => StatusKept'
<1> SUFFICES ASSUME TypeOK, Telling, Closers, Carried, StatusKept, [Next]_vars, Intact', Quiet'
             PROVE  WritesLast(wire', record', StatusUpdates(Outcome'), StatusRecords(Outcome'))
  BY DEF StatusKept
<1>t. wire \in Seq(Commands) /\ Outcome \subseteq Statuses
  BY DEF TypeOK, Outcome, Statuses
<1>1. ASSUME NEW p \in Parties, NEW events, NEW status, EndsWith(p, events, status)
      PROVE  WritesLast(wire', record', StatusUpdates(Outcome'), StatusRecords(Outcome'))
  <2>1. /\ Sent(p, events, status) /\ live' = FALSE /\ Outcome' = Outcome
        /\ UNCHANGED <<site, driver, stage, record, old, lost>>
    BY <1>1, SentFacts DEF EndsWith, Ends, Finishes, Rest, Outcome
  <2>2. ~live
    BY <2>1 DEF Sent, Quiet
  <2>3. Intact /\ Quiet
    BY <2>1, <2>2 DEF Intact, Ended, Sent, Quiet
  <2>4. CASE site = "jd"
    <3>1. status \in Outcome /\ wire' = wire \o GetStatus(status)
      BY <2>1, <2>2, <2>4 DEF Sent, Outcome, Closers
    <3> QED
      BY <1>t, <2>1, <3>1, StatusSent
  <2>5. CASE site # "jd"
    BY <2>1, <2>2, <2>3, <2>5 DEF Sent, StatusKept
  <2> QED
    BY <2>4, <2>5
<1>2. ASSUME NEW p \in Parties, ContextClosed(p)
      PROVE  WritesLast(wire', record', StatusUpdates(Outcome'), StatusRecords(Outcome'))
  <2>1. /\ wire' = wire \o GetStatus(task[p].final) /\ task[p].final \in Outcome /\ Outcome' = Outcome
    BY <1>2 DEF ContextClosed, Closers, Outcome
  <2> QED
    BY <1>t, <2>1, StatusSent
<1>3. CASE RedisRuns
  <2>1. /\ Runs(Head(wire)) /\ wire # <<>> /\ ~old /\ Intact /\ Quiet /\ Outcome' = Outcome
    <3>1. UNCHANGED <<site, driver, stage, live, task, old, saves>>
      BY <1>3 DEF RedisRuns
    <3> QED
      BY <1>3, <3>1, RunsFacts DEF Intact, Ended, Quiet, Outcome
  <2> DEFINE U == StatusUpdates(Outcome)
             R == StatusRecords(Outcome)
  <2>2. WritesLast(wire, record, U, R)
    BY <2>1 DEF StatusKept
  <2>3. NoRecord \in R /\ \A u \in U, r \in Records : Updated(r, u) \in R
    BY StatusWrites
  <2> HIDE DEF U, R
  <2>4. WritesLast(wire', record', U, R)
    BY <2>1, <2>2, <2>3, StaysLast
  <2> QED
    BY <2>1, <2>4 DEF U, R
<1>4. CASE RecordExpires
  <2>1. wire' = <<>> /\ record' = NoRecord /\ Len(wire') = 0
    BY <1>4 DEF RecordExpires, Intact
  <2> QED
    BY <2>1, StatusWrites DEF WritesLast
<1>5. CASE Unnoticed
  <2>1. /\ Intact /\ Quiet /\ Outcome \subseteq Outcome' /\ wire' = wire /\ record' = record
    BY <1>5 DEF Unnoticed, Intact, Ended
  <2>2. StatusUpdates(Outcome) \subseteq StatusUpdates(Outcome') /\ StatusRecords(Outcome) \subseteq StatusRecords(Outcome')
    BY <2>1 DEF StatusUpdates, StatusRecords
  <2> QED
    BY <2>1, <2>2 DEF StatusKept, WritesLast
<1> QED
  BY <1>1, <1>2, <1>3, <1>4, <1>5, EndedSteps
LEMMA EventStep ==
  TypeOK /\ Telling /\ OneEnding /\ Closers /\ Carried /\ EventKept /\ [Next]_vars => EventKept'
<1> SUFFICES ASSUME TypeOK, Telling, OneEnding, Closers, Carried, EventKept, [Next]_vars,
                    Intact', site' = "weibo"
             PROVE  /\ ~Quiet' => WritesLast(wire', record', EventUpdates(Last(told')), EventRecords(Last(told')))
                    /\ Quiet' /\ ~hurried' => EventWritten'
  BY DEF EventKept
<1>t. wire \in Seq(Commands) /\ Len(wire) \in Nat /\ told \in Seq(Events)
  BY DEF TypeOK
<1>1. ASSUME NEW p \in Parties, NEW events, NEW status, EndsWith(p, events, status)
      PROVE  /\ ~Quiet' => WritesLast(wire', record', EventUpdates(Last(told')), EventRecords(Last(told')))
             /\ Quiet' /\ ~hurried' => EventWritten'
  <2>1. /\ Sent(p, events, status) /\ live' = FALSE /\ Ending(events)
        /\ UNCHANGED <<site, driver, stage, record, old, lost, hurried>> /\ driver = "memory" /\ site # "jd"
    <3>1. driver' = "memory"
      BY DEF Intact
    <3> QED
      BY <1>1, <3>1, SentFacts DEF EndsWith, Ends, Finishes, Rest
  <2>2. CASE live
    <3> DEFINE e == Last(events)
               c == Get("event", e)
    <3>1. task'[p].at = "closing" /\ wire' # <<>> /\ wire'[Len(wire')] = c /\ wire' \in Seq(Commands)
      BY <2>1, <2>2 DEF Sent
    <3>2. told' = told \o events
      BY <1>1, <2>2 DEF EndsWith, Ends, Finishes
    <3>3. e \in Events /\ Last(told') = e
      BY <1>t, <2>1, <3>2 DEF Ending, Last, Endings, Events
    <3>4. c.is = "get" /\ c.update \in EventUpdates(e)
      BY <3>3 DEF Get, EventUpdates, Updates
    <3>5. WritesLast(wire', record', EventUpdates(e), EventRecords(e))
      <4> HIDE DEF c, e
      <4>1. Len(wire') \in 1 .. Len(wire') /\ \A j \in 1 .. Len(wire') : ~ (j > Len(wire'))
        BY <3>1
      <4> QED
        BY <3>1, <3>4, <4>1 DEF WritesLast
    <3> QED
      BY <3>1, <3>3, <3>5 DEF Quiet
  <2>3. CASE ~live
    <3>1. /\ wire' = wire /\ told' = told /\ task[p].at # "closing" /\ task'[p].at = "done"
          /\ \A q \in Parties \ {p} : task'[q] = task[q]
      BY <2>1, <2>3 DEF Sent
    <3>2. (Quiet' <=> Quiet) /\ Intact /\ site = "weibo"
      BY <2>1, <2>3, <3>1 DEF Quiet, Intact, Ended
    <3> QED
      BY <2>1, <3>1, <3>2 DEF EventKept, EventWritten
  <2> QED
    BY <2>2, <2>3
<1>2. ASSUME NEW p \in Parties, ContextClosed(p)
      PROVE  /\ ~Quiet' => WritesLast(wire', record', EventUpdates(Last(told')), EventRecords(Last(told')))
             /\ Quiet' /\ ~hurried' => EventWritten'
  <2>1. /\ task[p].at = "closing" /\ task' = [task EXCEPT ![p].at = "done"]
        /\ wire' = wire \o GetStatus(task[p].final) /\ hurried' = (hurried \/ wire # <<>>)
        /\ UNCHANGED <<site, driver, stage, live, record, old, told, lost>>
    BY <1>2 DEF ContextClosed
  <2>2. Quiet' /\ ~Quiet
    BY <2>1, PartyMoves DEF Quiet, Closers
  <2>3. ASSUME ~hurried'
        PROVE  EventWritten'
    <3>1. wire = <<>> /\ Len(wire) = 0
      BY <2>1, <2>3
    <3>2. WritesLast(wire, record, EventUpdates(Last(told)), EventRecords(Last(told)))
      BY <2>1, <2>2 DEF EventKept, Intact, Ended
    <3>3. record \in EventRecords(Last(told))
      BY <3>1, <3>2 DEF WritesLast
    <3>4. wire' = <<Get("status", task[p].final)>>
      BY <2>1, <3>1 DEF GetStatus
    <3>5. Len(wire') = 1 /\ wire'[1].is = "get" /\ wire'[1].update.field = "status"
      BY <3>4 DEF Get
    <3> QED
      BY <2>1, <3>3, <3>5 DEF EventWritten
  <2> QED
    BY <2>2, <2>3
<1>3. CASE RedisRuns
  <2> DEFINE e == Last(told)
             U == EventUpdates(e)
             R == EventRecords(e)
  <2>1. /\ Runs(Head(wire)) /\ wire # <<>> /\ ~old /\ Intact /\ site = "weibo"
        /\ (Quiet' <=> Quiet) /\ hurried' = hurried /\ told' = told
    <3>1. UNCHANGED <<site, driver, stage, live, task, old, told, hurried>>
      BY <1>3 DEF RedisRuns
    <3> QED
      BY <1>3, <3>1, RunsFacts DEF Intact, Ended, Quiet
  <2>2. NoRecord \in R /\ \A u \in U, r \in Records : Updated(r, u) \in R
    BY EventWrites
  <2>3. ASSUME ~Quiet
        PROVE  WritesLast(wire', record', U, R)
    <3>1. WritesLast(wire, record, U, R)
      BY <2>1, <2>3 DEF EventKept
    <3> HIDE DEF U, R
    <3> QED
      BY <2>1, <2>2, <3>1, StaysLast
  <2>4. ASSUME Quiet, ~hurried
        PROVE  EventWritten'
    <3> DEFINE c == Head(wire)
               n == Len(wire)
               s == Tail(wire)
    <3>1. /\ n \in Nat /\ n > 0 /\ c = wire[1] /\ s \in Seq(Commands) /\ Len(s) = n - 1
          /\ \A j \in 1 .. Len(s) : s[j] = wire[j + 1] /\ j + 1 \in 1 .. n
          /\ c \in Commands
      BY <1>t, <2>1
    <3>2. /\ record \in R
          /\ \A i \in 1 .. n :
               /\ wire[i].is = "get" => wire[i].update.field = "status"
               /\ wire[i].is = "set" => wire[i].record \in R
      BY <2>1, <2>4 DEF EventKept, EventWritten
    <3>3. \/ wire' = s /\ record' = record
          \/ /\ c.is = "get" /\ record \in Records /\ record' = record
             /\ \E d \in Commands : d.is = "set" /\ d.record = Updated(record, c.update) /\ wire' = Append(s, d)
          \/ c.is = "set" /\ wire' = s /\ record' = c.record
      BY <2>1 DEF Runs
    <3>4. ASSUME record' \in R, \A i \in 1 .. Len(wire') :
                   /\ wire'[i].is = "get" => wire'[i].update.field = "status"
                   /\ wire'[i].is = "set" => wire'[i].record \in R
          PROVE  EventWritten'
      BY <2>1, <3>4 DEF EventWritten
    <3>5. c.update \in Updates /\ NoRecord \notin Records
      BY <3>1 DEF Commands, NoRecord, Records, Statuses
    <3>6. ASSUME record \in Records, c.is = "get"
          PROVE  Updated(record, c.update) \in R
      <4>1. c.update.field = "status" /\ record.event = e
        BY <3>1, <3>2, <3>5, <3>6 DEF EventRecords
      <4>2. Updated(record, c.update) \in Records /\ Updated(record, c.update).event = e
        BY <3>5, <3>6, <4>1, UpdatedFacts
      <4> QED
        BY <4>2 DEF EventRecords
    <3> HIDE DEF c, n, s, R
    <3>7. CASE wire' = s /\ record' = record
      BY <3>1, <3>2, <3>4, <3>7
    <3>8. ASSUME c.is = "get", record \in Records, record' = record, NEW d \in Commands, d.is = "set",
                 d.record = Updated(record, c.update), wire' = Append(s, d)
          PROVE  EventWritten'
      <4>1. /\ Len(wire') = Len(s) + 1 /\ Len(s) \in Nat /\ wire'[Len(s) + 1] = d
            /\ \A j \in 1 .. Len(s) : wire'[j] = s[j]
        BY <3>1, <3>8, AppendProperties
      <4>2. \A j \in 1 .. Len(wire') : j \in 1 .. Len(s) \/ j = Len(s) + 1
        BY <4>1
      <4> QED
        BY <3>1, <3>2, <3>4, <3>6, <3>8, <4>1, <4>2
    <3>9. CASE c.is = "set" /\ wire' = s /\ record' = c.record
      BY <3>1, <3>2, <3>4, <3>9
    <3> QED
      BY <3>3, <3>7, <3>8, <3>9
  <2> QED
    BY <2>1, <2>3, <2>4
<1>4. CASE RecordExpires
  <2>1. wire' = <<>> /\ record' = NoRecord /\ Len(wire') = 0
    BY <1>4 DEF RecordExpires, Intact
  <2> QED
    BY <2>1 DEF WritesLast, EventRecords, EventWritten
<1>5. CASE Unnoticed
  BY <1>5 DEF Unnoticed, Intact, Ended, EventKept, EventWritten
<1> QED
  BY <1>1, <1>2, <1>3, <1>4, <1>5, EndedSteps

LEMMA RecordInvariant == Spec => []RecordInv
<1>1. Init => RecordInv
  <2> SUFFICES ASSUME Init
               PROVE  Closers /\ Carried /\ StatusKept /\ EventKept
    BY LoginInit DEF RecordInv
  <2>1. Closers
    BY DEF Init, Closers
  <2>2. Carried
    BY DEF Init, Carried
  <2> QED
    BY <2>1, <2>2 DEF Init, StatusKept, EventKept, Intact, Ended
<1>2. RecordInv /\ [Next]_vars => RecordInv'
  BY LoginStep, ClosersStep, CarriedStep, StatusStep, EventStep DEF RecordInv, LoginInv
<1> QED
  BY <1>1, <1>2, PTL DEF Spec

-----------------------------------------------------------------------------
(* The session, its record and the commands on their way keep their types,   *)
(* for any number of navigations, events and failures of a login.            *)
THEOREM LoginTypeCorrect == Spec => []TypeOK
BY LoginInvariant, PTL DEF LoginInv

(* However cleanupSession() is reached, the clients of a session are told    *)
(* one ending and nothing after it.                                          *)
THEOREM LoginOneEnding == Spec => []OneEnding
BY LoginInvariant, PTL DEF LoginInv

(* However the session ends, somebody closes its browser context.            *)
THEOREM LoginNoContextLeft == Spec => []NoContextLeft
BY LoginInvariant, PTL DEF LoginInv

(* Once everything has settled, the record of an ended session does not say  *)
(* "active", and Weibo's holds the ending if its context took longer to      *)
(* close than the updates, although every writer reads the whole record and  *)
(* writes it back: who writes last is known.                                 *)
THEOREM LoginEndingStored == Spec => []EndingStored
<1>1. RecordInv => EndingStored
  <2> SUFFICES ASSUME RecordInv, Settled, driver = "memory"
               PROVE  /\ record.status # "active"
                      /\ site = "weibo" /\ ~hurried /\ record # NoRecord => record.event = Last(told)
    BY DEF EndingStored
  <2>1. Intact /\ Quiet /\ wire = <<>> /\ Len(wire) = 0
    BY DEF Settled, Intact, Quiet
  <2>2. record \in StatusRecords(Outcome)
    BY <2>1 DEF RecordInv, StatusKept, WritesLast
  <2>3. record.status # "active"
    BY <2>2 DEF StatusRecords, Outcome, NoRecord
  <2>4. site = "weibo" /\ ~hurried => record \in EventRecords(Last(told))
    BY <2>1 DEF RecordInv, EventKept, EventWritten
  <2> QED
    BY <2>3, <2>4 DEF EventRecords
<1> QED
  BY <1>1, RecordInvariant, PTL

(* And JD's says "completed" only if the account has been saved.             *)
THEOREM LoginCompletedIsSaved == Spec => []CompletedIsSaved
<1>1. RecordInv => CompletedIsSaved
  <2> SUFFICES ASSUME RecordInv, Settled, site = "jd", record.status = "completed"
               PROVE  saves > 0
    BY DEF CompletedIsSaved
  <2>1. Intact /\ Quiet /\ wire = <<>> /\ Len(wire) = 0 /\ saves \in Nat
    BY DEF Settled, Intact, Quiet, RecordInv, Closers, LoginInv, TypeOK
  <2>2. record \in StatusRecords(Outcome)
    BY <2>1 DEF RecordInv, StatusKept, WritesLast
  <2> QED
    BY <2>1, <2>2 DEF StatusRecords, Outcome, NoRecord
<1> QED
  BY <1>1, RecordInvariant, PTL
=============================================================================
