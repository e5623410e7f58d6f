---------------------------- MODULE LoginSession ----------------------------
(***************************************************************************)
(* apps/api: one login by QR code.  WeiboAuthService and JdAuthService     *)
(* open a browser context for it, tell what happens on its page as events  *)
(* of an rxjs Subject, save the account once the page has reached the      *)
(* site's home page, and end the session after five minutes at the latest. *)
(* WeiboSessionStorage and JdSessionStorage keep a record of the session   *)
(* in Redis for the other processes: its status and its last event, each   *)
(* written by reading the whole record and writing it back.                *)
(*                                                                         *)
(* The two services differ in what they do first.  JD updates the record   *)
(* as soon as an event is out; Weibo when the event has been published,    *)
(* which the default driver "memory" of PubSubService does at once and the *)
(* driver "redis" after a while.  JD ends with the status "expired" unless *)
(* the login succeeded, Weibo always with "completed".                     *)
(*                                                                         *)
(* Redis and the browser are external.  All commands of a process go over  *)
(* one connection, so Redis runs them, and ioredis settles them, in the    *)
(* order they were sent; what getSession() writes when it meets a record   *)
(* past its time is left out.  The process has no shutdown                 *)
(* hooks: it can only be killed, and its browser with it.                  *)
(***************************************************************************)
EXTENDS Naturals, Sequences, SequencesExt

CONSTANTS
  Navigations,   \* navigations of the page to the site's home page
  Sites,         \* the services, of {"weibo", "jd"}
  Drivers,       \* PUBSUB_DRIVER, of {"memory", "redis"}
  MaxNews,       \* bound: events that do not end the session
  MaxFaults      \* bound: failures of Redis, PostgreSQL, browser and process

ASSUME LoginAssumption ==
  /\ Sites \subseteq {"weibo", "jd"} /\ Drivers \subseteq {"memory", "redis"}
  /\ Navigations \cap {"check", "goto", "timer"} = {}
  /\ MaxNews \in Nat /\ MaxFaults \in Nat

Endings  == {"success", "expired", "error"}
Events   == Endings \cup {"news"}
Statuses == {"active", "expired", "completed"}
Records  == [status : Statuses, event : Events \cup {"none"}]
NoRecord == [status |-> "none", event |-> "none"]

\* What an update writes, and a command of it on its way to Redis or back.
Updates  == [field : {"event"}, value : Events] \cup [field : {"status"}, value : Statuses]
Commands == [is : {"get", "set"}, update : Updates, record : Records \cup {NoRecord}]

\* What runs for a session: a handler per navigation, the handler of a status
\* check that says the code has expired, the opening of the login page, the timer.
Parties  == Navigations \cup {"check", "goto", "timer"}
Tasks    == [at : {"idle", "busy", "saved", "closing", "done"}, final : Statuses]

VARIABLES
  site, driver,  \* which service, how it publishes
  stage,         \* how far createLoginSession() is
  live,          \* in loginSessions: subscribed to, with its timer armed
  context,       \* the browser context
  task,          \* task[p]: how far party p is
  publishing,    \* events of Weibo that pubSub.publish() has not confirmed
  wire,          \* commands sent to Redis
  record,        \* the session's record
  old,           \* expiresAt has passed
  faults,        \* failures so far
  told,          \* history: the events clients have been told
  saves,         \* history: how often the account has been saved
  lost,          \* history: a command of Redis has failed
  hurried        \* history: the context was closed before Redis had done the updates

vars == <<site, driver, stage, live, context, task, publishing, wire,
          record, old, faults, told, saves, lost, hurried>>
redis == <<wire, record, old, lost, hurried>>

Fault == faults < MaxFaults /\ faults' = faults + 1
NoFault == UNCHANGED faults

Init ==
  /\ site \in Sites /\ driver \in Drivers
  /\ site = "jd" => driver = "memory"    \* JD's record does not wait for it
  /\ stage = "none" /\ live = FALSE /\ context = "none"
  /\ task = [p \in Parties |-> [at |-> "idle", final |-> "active"]]
  /\ publishing = <<>> /\ wire = <<>>
  /\ record = NoRecord /\ old = FALSE
  /\ faults = 0 /\ told = <<>> /\ saves = 0 /\ lost = FALSE /\ hurried = FALSE

-----------------------------------------------------------------------------
(* Creating a session *)

\* createSession() writes the record.
CreateRecord ==
  /\ stage = "none"
  /\ stage' = "recorded"
  /\ record' = [status |-> "active", event |-> "none"]
  /\ UNCHANGED <<site, driver, live, context, task, publishing, wire,
                 old, faults, told, saves, lost, hurried>>

\* newContext(), then newPage(); a failure of either rejects the call.
NewContext ==
  /\ stage = "recorded"
  /\ \/ stage' = "context" /\ context' = "open" /\ NoFault
     \/ stage' = "failed" /\ UNCHANGED context /\ Fault
  /\ UNCHANGED <<site, driver, live, task, publishing, redis, told, saves>>

NewPage ==
  /\ stage = "context"
  /\ \/ stage' = "running" /\ live' = TRUE /\ NoFault
        /\ task' = [task EXCEPT !["goto"].at = "busy"]
     \/ stage' = "failed" /\ UNCHANGED <<live, task>> /\ Fault
  /\ UNCHANGED <<site, driver, context, publishing, redis, told, saves>>

-----------------------------------------------------------------------------
(* Events and the end of a session *)

Get(field, value) ==
  [is |-> "get", update |-> [field |-> field, value |-> value], record |-> NoRecord]
GetEvents(events) == [i \in 1 .. Len(events) |-> Get("event", events[i])]
GetStatus(status) == <<Get("status", status)>>

SubscriberAsJd(events, completes) ==  \* mutation: Weibo updates the record at once
  /\ wire' = wire \o GetEvents(events) \o (IF completes THEN GetStatus("completed") ELSE <<>>)
  /\ UNCHANGED publishing

\* subject.next() for each of events, and subject.complete() after them if
\* the session ends: what the subscriber of the service sends to Redis.
Subscriber(events, completes) ==
  LET completed == IF completes THEN GetStatus("completed") ELSE <<>> IN
  IF site = "jd"
  THEN wire' = wire \o GetEvents(events) \o completed /\ UNCHANGED publishing
  ELSE IF driver = "memory"
  THEN wire' = wire \o completed \o GetEvents(events) /\ UNCHANGED publishing
  ELSE wire' = wire \o completed /\ publishing' = publishing \o events

\* An event that does not end the session: a QR code, a scan, a status, or
\* JD's "error" for a status it does not know.
News ==
  /\ live /\ Len(told) < MaxNews
  /\ told' = Append(told, "news")
  /\ Subscriber(<<"news">>, FALSE)
  /\ UNCHANGED <<site, driver, stage, live, context, task,
                 record, old, faults, saves, lost, hurried>>

\* cleanupSession()'s status.  Weibo knows only one.
WithoutFinal(status) == "completed"    \* mutation: as Weibo does
FinalStatus(status)  == IF site = "jd" THEN status ELSE "completed"

\* The events of an ending, complete() and cleanupSession() up to its first
\* await: the session leaves the map, its timer and its subscription end, and
\* the context is being closed.  Who comes second finds no session: its
\* events reach nobody and only JD still writes a status.
TellsTwice(p, events, status) ==      \* mutation: a subject that never stops
  /\ told' = told \o events /\ live' = FALSE
  /\ Subscriber(events, TRUE)
  /\ task' = [task EXCEPT ![p] = [at |-> "closing", final |-> FinalStatus(status)]]
LeavesContext(p, events, status) ==   \* mutation: returns before the close
  /\ told' = (IF live THEN told \o events ELSE told) /\ live' = FALSE
  /\ Subscriber(IF live THEN events ELSE <<>>, live)
  /\ task' = [task EXCEPT ![p].at = "done"]
Finish(p, events, status) ==
  \/ /\ live
     /\ told' = told \o events
     /\ live' = FALSE
     /\ Subscriber(events, TRUE)
     /\ task' = [task EXCEPT ![p] = [at |-> "closing", final |-> FinalStatus(status)]]
  \/ /\ ~live
     /\ wire' = IF site = "jd" THEN wire \o GetStatus(FinalStatus(status)) ELSE wire
     /\ task' = [task EXCEPT ![p].at = "done"]
     /\ UNCHANGED <<told, live, publishing>>

\* The context is closed, and cleanupSession() writes the final status.
ContextClosed(p) ==
  /\ task[p].at = "closing"
  /\ context' = "closed"
  /\ wire' = wire \o GetStatus(task[p].final)
  /\ task' = [task EXCEPT ![p].at = "done"]
  /\ hurried' = (hurried \/ wire # <<>>)
  /\ UNCHANGED <<site, driver, stage, live, publishing,
                 record, old, faults, told, saves, lost>>

Rest == UNCHANGED <<site, driver, stage, context, record, old, lost, hurried>>

\* The check says that the code has expired or, JD's, the login was refused.
CheckExpired ==
  /\ stage = "running" /\ task["check"].at = "idle" /\ context = "open"
  /\ \/ Finish("check", <<"news", "expired">>, "expired")
     \/ site = "jd" /\ Finish("check", <<"news", "error">>, "expired")
  /\ Rest /\ UNCHANGED <<faults, saves>>

\* page.goto() is over, or it fails for good, as it does when the context is
\* closed under it.
GotoDone ==
  /\ task["goto"].at = "busy"
  /\ task' = [task EXCEPT !["goto"].at = "done"]
  /\ Rest /\ UNCHANGED <<live, publishing, wire, faults, told, saves>>
GotoFails ==
  /\ task["goto"].at = "busy"
  /\ Finish("goto", <<"error">>, "expired")
  /\ \/ context = "closed" /\ NoFault
     \/ Fault
  /\ Rest /\ UNCHANGED saves

\* The timer, set after expiresAt had been computed.
TimerFires ==
  /\ live /\ old
  /\ Finish("timer", <<"error">>, "expired")
  /\ Rest /\ UNCHANGED <<faults, saves>>

\* framenavigated: the page has reached the home page.
Navigate(p) ==
  /\ stage = "running" /\ context = "open" /\ task[p].at = "idle"
  /\ task' = [task EXCEPT ![p].at = "busy"]
  /\ Rest /\ UNCHANGED <<live, publishing, wire, faults, told, saves>>

\* Cookies and user have been read and saveAccount() has committed.
SaveAccount(p) ==
  /\ task[p].at = "busy"
  /\ task' = [task EXCEPT ![p].at = "saved"]
  /\ saves' = saves + 1
  /\ Rest /\ UNCHANGED <<live, publishing, wire, faults, told>>

LoginSucceeds(p) ==
  /\ task[p].at = "saved"
  /\ Finish(p, <<"success">>, "completed")
  /\ Rest /\ UNCHANGED <<faults, saves>>

\* Something throws: the context is closed, the user cannot be read, the
\* database fails, or what saveAccount() does after its commit.
LoginFails(p) ==
  /\ \/ task[p].at = "busy" /\ (Fault \/ (context = "closed" /\ NoFault))
     \/ task[p].at = "saved" /\ Fault
  /\ Finish(p, <<"error">>, "expired")
  /\ Rest /\ UNCHANGED saves

-----------------------------------------------------------------------------
(* The record *)

\* publish() is confirmed; only then does Weibo update the record.
Published ==
  /\ publishing # <<>>
  /\ wire' = wire \o GetEvents(<<Head(publishing)>>)
  /\ publishing' = Tail(publishing)
  /\ Rest /\ UNCHANGED <<live, task, faults, told, saves>>

\* Redis runs the next command, or fails.  With the answer to its GET an
\* update goes on: it sends the record back with its field changed.
Updated(r, u) == IF u.field = "event" THEN [r EXCEPT !.event = u.value]
                                      ELSE [r EXCEPT !.status = u.value]
GoesOn(c) == IF record = NoRecord THEN <<>>
             ELSE <<[c EXCEPT !.is = "set", !.record = Updated(record, c.update)]>>
RedisRuns ==
  /\ wire # <<>>
  /\ LET c == Head(wire) IN
     \/ /\ c.is = "get"
        /\ wire' = Tail(wire) \o GoesOn(c)
        /\ UNCHANGED <<record, faults, lost>>
     \/ /\ c.is = "set"
        /\ wire' = Tail(wire) /\ record' = c.record
        /\ UNCHANGED <<faults, lost>>
     \/ /\ Fault /\ lost' = TRUE
        /\ wire' = Tail(wire)
        /\ UNCHANGED record
  /\ UNCHANGED <<site, driver, stage, live, context, task, publishing, old, told, saves, hurried>>

\* expiresAt passes.
Ages ==
  /\ stage # "none" /\ ~old
  /\ old' = TRUE
  /\ UNCHANGED <<site, driver, stage, live, context, task, publishing, wire,
                 record, faults, told, saves, lost, hurried>>

\* The key's time to live is over: that of an active session at expiresAt, that
\* of another after half a minute at least, more than a command takes.
RecordExpires ==
  /\ record # NoRecord
  /\ old \/ (record.status # "active" /\ wire = <<>>)
  /\ record' = NoRecord
  /\ UNCHANGED <<site, driver, stage, live, context, task, publishing, wire,
                 old, faults, told, saves, lost, hurried>>

\* The process is killed.
Crash ==
  /\ stage \notin {"none", "crashed"} /\ Fault
  /\ stage' = "crashed" /\ live' = FALSE
  /\ context' = (IF context = "none" THEN "none" ELSE "closed")
  /\ task' = [p \in Parties |-> [task[p] EXCEPT !.at = "done"]]
  /\ publishing' = <<>> /\ wire' = <<>>
  /\ UNCHANGED <<site, driver, record, old, told, saves, lost, hurried>>

-----------------------------------------------------------------------------

Next ==
  \/ CreateRecord \/ NewContext \/ NewPage
  \/ News \/ CheckExpired \/ GotoDone \/ GotoFails \/ TimerFires
  \/ \E p \in Navigations :
       Navigate(p) \/ SaveAccount(p) \/ LoginSucceeds(p) \/ LoginFails(p)
  \/ \E p \in Parties : ContextClosed(p)
  \/ Published \/ RedisRuns
  \/ Ages \/ RecordExpires
  \/ Crash

Spec == Init /\ [][Next]_vars

-----------------------------------------------------------------------------
(* Correctness *)

TypeOK ==
  /\ site \in Sites /\ driver \in Drivers
  /\ stage \in {"none", "recorded", "context", "running", "failed", "crashed"}
  /\ live \in BOOLEAN /\ context \in {"none", "open", "closed"}
  /\ task \in [Parties -> Tasks]
  /\ publishing \in Seq(Events)
  /\ wire \in Seq(Commands)
  /\ record \in Records \cup {NoRecord} /\ old \in BOOLEAN
  /\ faults \in 0 .. MaxFaults /\ told \in Seq(Events) /\ saves \in Nat
  /\ lost \in BOOLEAN /\ hurried \in BOOLEAN

Ended == stage = "running" /\ ~live

\* Within the five minutes, Redis has not failed, and nothing is under way
\* for the ended session any more.
Settled ==
  /\ Ended /\ ~old /\ ~lost
  /\ publishing = <<>> /\ wire = <<>>
  /\ \A p \in Parties : task[p].at \in {"idle", "done"}

\* However many handlers and timers race to end a session, clients are told
\* one ending and nothing after it.
OneEnding ==
  /\ \A i \in 1 .. Len(told) : told[i] \in Endings => i = Len(told)
  /\ Ended => told # <<>> /\ Last(told) \in Endings

\* No browser context outlives its session, unless no page could be opened
\* in it.
NoContextLeft ==
  context = "open" =>
    \/ stage \in {"context", "failed"} \/ live
    \/ \E p \in Parties : task[p].at = "closing"

\* Once everything has settled, the record of an ended session does not say
\* "active", although each writer writes back the status it has read: the
\* final status is sent last; only Weibo with the driver "redis" may be late
\* with an event.  And then Weibo's record holds the ending, so that a client
\* that asks later gets it, if closing the context has taken longer than the
\* updates.
EndingStored ==
  Settled /\ driver = "memory" =>
    /\ record.status # "active"
    /\ site = "weibo" /\ ~hurried /\ record # NoRecord => record.event = Last(told)

\* And JD's record says "completed" only if the account has been saved.
CompletedIsSaved ==
  Settled /\ site = "jd" /\ record.status = "completed" => saves > 0
=============================================================================
