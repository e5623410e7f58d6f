--------------------------- MODULE ConnectionPool ---------------------------
(***************************************************************************)
(* packages/rabbitmq/src/connection-pool.ts: the pool that owns one amqp   *)
(* connection and one confirm channel, redials five seconds after either   *)
(* of them is lost, and is closed when the service is destroyed.           *)
(*                                                                         *)
(* The k-th call of connect() that gets past its early return is dial k.   *)
(* The connection it opens and the channel it creates on that connection   *)
(* carry the same number.  Every await of the code is a place where an     *)
(* action ends, so the callbacks of amqplib run between any two steps of a *)
(* dial or of close(), never inside one.                                   *)
(*                                                                         *)
(* amqplib is external and is modelled by what the pool can see of it: a   *)
(* dying connection first emits 'error' (unless it was closed on purpose), *)
(* then 'close' on its channel, then 'close' on itself, all in one turn of *)
(* the event loop; a request on a dead or closing object rejects at once;  *)
(* a close() whose peer dies before answering never settles.               *)
(***************************************************************************)
EXTENDS Integers, FiniteSets

CONSTANTS
  MaxDials,      \* how many dials a behaviour may contain
  MaxFaults,     \* how many failures the network and the broker may produce
  ChannelFaults, \* may the broker close a channel and keep its connection?
  HealthCheck    \* does poolConfig ask for a health check interval?

ASSUME PoolAssumption ==
  /\ MaxDials \in Nat \ {0}
  /\ MaxFaults \in Nat
  /\ ChannelFaults \in BOOLEAN
  /\ HealthCheck \in BOOLEAN

Dials == 1 .. MaxDials
None  == 0

PoolState == {"DISCONNECTED", "CONNECTING", "CONNECTED", "RECONNECTING",
              "CLOSING", "CLOSED", "ERROR"}
Life      == {"unused", "open", "closing", "dead"}
Alive     == {"open", "closing"}

Fields == [state : PoolState, connection : Dials \cup {None},
           channel : Dials \cup {None}, timer : BOOLEAN]

VARIABLES
  pool,        \* the fields state, connection, channel and reconnectTimer
  intervals,   \* the health check intervals that tick
  conn,        \* conn[k]: the life of the connection of dial k
  chan,        \* chan[k]: the life of its channel
  dial,        \* dial[k]: where the k-th connect() stands
  target,      \* target[k]: what the close() awaited by dial k closes
  closer,      \* the same two facts about ConnectionPool.close()
  muted,       \* connection and channel whose listeners close() removed
  initialized, \* RabbitMQService.isInitialized
  faults,      \* failures so far
  overtaken    \* history: the dials in flight when close() was called

vars == <<pool, intervals, conn, chan, dial, target, closer, muted,
          initialized, faults, overtaken>>

Unfinished == {"dialing", "opening", "closingChan", "closingConn"}

\* A dial that awaits an answer, and one whose answer will never come.
Hung(k) ==
  \/ dial[k] = "closingChan" /\ chan[target[k]] = "dead"
  \/ dial[k] = "closingConn" /\ conn[target[k]] = "dead"
InFlight == {k \in Dials : dial[k] \in Unfinished /\ ~Hung(k)}

\* A request whose connection died rejects in the turn in which it died, so
\* every other event finds the pool with no such request outstanding.
Settled == \A k \in Dials : dial[k] = "opening" => conn[k] # "dead"

LiveConnections == {k \in Dials : conn[k] \in Alive}
isConnected     == pool.state = "CONNECTED" /\ pool.channel # None

-----------------------------------------------------------------------------
(* The event handlers, as functions from the pool's fields to its fields.  *)

\* One timer at a time; the state is overwritten whatever it was.
scheduleReconnect(p) ==
  IF p.timer THEN p
  ELSE [p EXCEPT !.timer = TRUE, !.state = "RECONNECTING"]

\* channel.on('close'): nulls the current channel, whichever channel closed.
onChannelClose(p) == scheduleReconnect([p EXCEPT !.channel = None])

\* connection.on('close')
onConnectionClose(p) ==
  scheduleReconnect([p EXCEPT !.state = "DISCONNECTED"])

\* The fields after channel k died.
afterChannelEnd(p, k) == IF muted.channel = k THEN p ELSE onChannelClose(p)

\* Mutant: the channel listener is not installed.
afterConnectionEndChannelKept(p, k, byError) ==
  IF muted.connection = k THEN p ELSE onConnectionClose(p)

\* The fields after connection k died, `byError' if it emitted 'error'.
afterConnectionEnd(p, k, byError) ==
  LET heard == muted.connection # k
      p1 == IF heard /\ byError THEN scheduleReconnect(p) ELSE p
      p2 == IF chan[k] \in Alive THEN afterChannelEnd(p1, k) ELSE p1
  IN  IF heard THEN onConnectionClose(p2) ELSE p2

\* A dead connection takes its channel with it.
EndConnection(k) ==
  /\ conn' = [conn EXCEPT ![k] = "dead"]
  /\ chan' = [chan EXCEPT ![k] = IF @ \in Alive THEN "dead" ELSE @]

-----------------------------------------------------------------------------
(* cleanup() and the rest of the catch clause of connect(), for dial k.    *)

\* Mutant: the catch clause does not reschedule.
connectFailedNoRetry(p) ==
  [p EXCEPT !.connection = None, !.state = "ERROR"]

connectFailed(p) ==
  scheduleReconnect([p EXCEPT !.connection = None, !.state = "ERROR"])

\* Mutant: cleanup() forgets the connection without closing it.
CleanupConnectionLeaks(p, k, cs) ==
  /\ pool' = connectFailed(p)
  /\ dial' = [dial EXCEPT ![k] = "failed"]
  /\ conn' = cs
  /\ UNCHANGED target

\* cleanup() from its second `if' on.  cs is conn as cleanup() finds it.
CleanupConnection(p, k, cs) ==
  IF p.connection # None /\ cs[p.connection] = "open"
  THEN /\ pool' = p
       /\ dial' = [dial EXCEPT ![k] = "closingConn"]
       /\ target' = [target EXCEPT ![k] = p.connection]
       /\ conn' = [cs EXCEPT ![p.connection] = "closing"]
  ELSE /\ pool' = connectFailed(p)
       /\ dial' = [dial EXCEPT ![k] = "failed"]
       /\ conn' = cs
       /\ UNCHANGED target

Cleanup(p, k) ==
  IF p.channel # None /\ chan[p.channel] = "open"
  THEN /\ pool' = p
       /\ dial' = [dial EXCEPT ![k] = "closingChan"]
       /\ target' = [target EXCEPT ![k] = p.channel]
       /\ chan' = [chan EXCEPT ![p.channel] = "closing"]
       /\ UNCHANGED conn
  ELSE /\ CleanupConnection([p EXCEPT !.channel = None], k, conn)
       /\ UNCHANGED chan

-----------------------------------------------------------------------------
Init ==
  /\ pool = [state |-> "DISCONNECTED", connection |-> None,
             channel |-> None, timer |-> FALSE]
  /\ intervals = 0
  /\ conn = [k \in Dials |-> "unused"]
  /\ chan = [k \in Dials |-> "unused"]
  /\ dial = [k \in Dials |-> "idle"]
  /\ target = [k \in Dials |-> None]
  /\ closer = [at |-> "idle", target |-> None]
  /\ muted = [connection |-> None, channel |-> None]
  /\ initialized = FALSE
  /\ faults = 0
  /\ overtaken = {}

\* Mutant: the early return also covers a pool that lost its connection.
StartDialNotAfterLoss(p) ==
  \/ /\ p.state \in {"CONNECTED", "RECONNECTING"}
     /\ pool' = p
     /\ UNCHANGED dial
  \/ /\ p.state \notin {"CONNECTED", "RECONNECTING"}
     /\ pool' = [p EXCEPT !.state = "CONNECTING"]
     /\ \E k \in Dials :
          /\ dial[k] = "idle"
          /\ \A j \in Dials : j < k => dial[j] # "idle"
          /\ dial' = [dial EXCEPT ![k] = "dialing"]

\* connect() up to its first await.
StartDial(p) ==
  \/ /\ p.state = "CONNECTED"
     /\ pool' = p
     /\ UNCHANGED dial
  \/ /\ p.state # "CONNECTED"
     /\ pool' = [p EXCEPT !.state = "CONNECTING"]
     /\ \E k \in Dials :
          /\ dial[k] = "idle"
          /\ \A j \in Dials : j < k => dial[j] # "idle"
          /\ dial' = [dial EXCEPT ![k] = "dialing"]

\* RabbitMQService.onInit, which the container calls once.
OnInit ==
  /\ Settled
  /\ \A k \in Dials : dial[k] = "idle"
  /\ StartDial(pool)
  /\ UNCHANGED <<intervals, conn, chan, target, closer, muted, initialized,
                 faults, overtaken>>

\* The reconnect timer expires.
TimerFires ==
  /\ Settled
  /\ pool.timer
  /\ StartDial([pool EXCEPT !.timer = FALSE])
  /\ UNCHANGED <<intervals, conn, chan, target, closer, muted, initialized,
                 faults, overtaken>>

\* amqp.connect resolves: the handlers go onto the new connection.
DialOk(k) ==
  /\ Settled
  /\ dial[k] = "dialing"
  /\ dial' = [dial EXCEPT ![k] = "opening"]
  /\ conn' = [conn EXCEPT ![k] = "open"]
  /\ pool' = [pool EXCEPT !.connection = k]
  /\ UNCHANGED <<intervals, chan, target, closer, muted, initialized, faults,
                 overtaken>>

\* amqp.connect rejects.
DialFail(k) ==
  /\ Settled
  /\ dial[k] = "dialing"
  /\ faults < MaxFaults
  /\ faults' = faults + 1
  /\ Cleanup(pool, k)
  /\ UNCHANGED <<intervals, closer, muted, initialized, overtaken>>

\* createConfirmChannel resolves.  Another interval starts to tick; the
\* first dial is the one RabbitMQService.onInit waits for.
OpenOk(k) ==
  /\ Settled
  /\ dial[k] = "opening"
  /\ conn[k] = "open"
  /\ dial' = [dial EXCEPT ![k] = "connected"]
  /\ chan' = [chan EXCEPT ![k] = "open"]
  /\ pool' = [pool EXCEPT !.channel = k, !.state = "CONNECTED"]
  /\ intervals' = IF HealthCheck THEN intervals + 1 ELSE intervals
  /\ initialized' = (initialized \/ k = 1)
  /\ UNCHANGED <<conn, target, closer, muted, faults, overtaken>>

\* createConfirmChannel rejects: its connection died, or the broker refuses.
OpenFail(k) ==
  /\ dial[k] = "opening"
  /\ \/ conn[k] = "dead" /\ faults' = faults
     \/ conn[k] = "open" /\ faults < MaxFaults /\ faults' = faults + 1
  /\ Cleanup(pool, k)
  /\ UNCHANGED <<intervals, closer, muted, initialized, overtaken>>

\* The broker answers the channel.close() of cleanup(), whose channel an
\* older dial opened.
CleanupChannelClosed(k) ==
  /\ Settled
  /\ dial[k] = "closingChan"
  /\ chan[target[k]] = "closing"
  /\ chan' = [chan EXCEPT ![target[k]] = "dead"]
  /\ CleanupConnection([afterChannelEnd(pool, target[k])
                          EXCEPT !.channel = None], k, conn)
  /\ UNCHANGED <<intervals, closer, muted, initialized, faults, overtaken>>

\* The broker answers the connection.close() of cleanup().
CleanupConnectionClosed(k) ==
  /\ Settled
  /\ dial[k] = "closingConn"
  /\ conn[target[k]] = "closing"
  /\ EndConnection(target[k])
  /\ pool' = connectFailed(afterConnectionEnd(pool, target[k], FALSE))
  /\ dial' = [dial EXCEPT ![k] = "failed"]
  /\ UNCHANGED <<intervals, target, closer, muted, initialized, faults,
                 overtaken>>

-----------------------------------------------------------------------------
(* What the network, the broker and the clock do to a pool.                *)

ConnectionLost(k) ==
  /\ Settled
  /\ conn[k] \in Alive
  /\ faults < MaxFaults
  /\ faults' = faults + 1
  /\ EndConnection(k)
  /\ \E byError \in BOOLEAN : pool' = afterConnectionEnd(pool, k, byError)
  /\ UNCHANGED <<intervals, dial, target, closer, muted, initialized,
                 overtaken>>

\* A channel-level error, such as 406 PRECONDITION_FAILED for a bad tag.
ChannelLost(k) ==
  /\ Settled
  /\ ChannelFaults
  /\ chan[k] \in Alive
  /\ faults < MaxFaults
  /\ faults' = faults + 1
  /\ chan' = [chan EXCEPT ![k] = "dead"]
  /\ pool' = afterChannelEnd(pool, k)
  /\ UNCHANGED <<intervals, conn, dial, target, closer, muted, initialized,
                 overtaken>>

\* checkHealth
HealthTick ==
  /\ Settled
  /\ intervals > 0
  /\ pool.connection = None \/ pool.channel = None
  /\ pool' = scheduleReconnect(pool)
  /\ UNCHANGED <<intervals, conn, chan, dial, target, closer, muted,
                 initialized, faults, overtaken>>

-----------------------------------------------------------------------------
(* close(), called by RabbitMQService.onDestroy of an initialised service. *)

CloseFinished(p, cs, state) ==
  /\ pool' = [p EXCEPT !.state = state]
  /\ conn' = cs
  /\ closer' = [at |-> state, target |-> None]
  /\ initialized' = (initialized /\ state # "CLOSED")

\* close() from its third `if' on.
CloseConnection(p, cs) ==
  CASE p.connection = None -> CloseFinished(p, cs, "CLOSED")
    [] p.connection # None /\ cs[p.connection] = "open" ->
         /\ pool' = p
         /\ conn' = [cs EXCEPT ![p.connection] = "closing"]
         /\ closer' = [at |-> "closingConn", target |-> p.connection]
         /\ UNCHANGED initialized
    [] OTHER -> CloseFinished(p, cs, "ERROR")

\* close() clears the interval it has the handle of, if there is one.
clearHealthTimer(n) == IF n > 0 THEN n - 1 ELSE n

\* Mutant: close() leaves the reconnect timer running.
beginCloseTimerKept(p) == [p EXCEPT !.state = "CLOSING"]

\* The fields as close() leaves them before its first await.
beginClose(p) == [p EXCEPT !.state = "CLOSING", !.timer = FALSE]

\* close() up to its first await; the container calls onDestroy once.
OnDestroy ==
  /\ Settled
  /\ initialized
  /\ closer.at = "idle"
  /\ intervals' = clearHealthTimer(intervals)
  /\ muted' = [connection |-> pool.connection, channel |-> pool.channel]
  /\ overtaken' = InFlight
  /\ LET p == beginClose(pool) IN
       IF p.channel # None
       THEN IF chan[p.channel] = "open"
            THEN /\ pool' = p
                 /\ chan' = [chan EXCEPT ![p.channel] = "closing"]
                 /\ closer' = [at |-> "closingChan", target |-> p.channel]
                 /\ UNCHANGED <<conn, initialized>>
            ELSE CloseFinished(p, conn, "ERROR") /\ UNCHANGED chan
       ELSE CloseConnection(p, conn) /\ UNCHANGED chan
  /\ UNCHANGED <<dial, target, faults>>

CloseChannelClosed ==
  /\ Settled
  /\ closer.at = "closingChan"
  /\ chan[closer.target] = "closing"
  /\ chan' = [chan EXCEPT ![closer.target] = "dead"]
  /\ CloseConnection([afterChannelEnd(pool, closer.target)
                        EXCEPT !.channel = None], conn)
  /\ UNCHANGED <<intervals, dial, target, muted, faults, overtaken>>

CloseConnectionClosed ==
  /\ Settled
  /\ closer.at = "closingConn"
  /\ conn[closer.target] = "closing"
  /\ EndConnection(closer.target)
  /\ pool' = [afterConnectionEnd(pool, closer.target, FALSE)
                EXCEPT !.connection = None, !.state = "CLOSED"]
  /\ closer' = [at |-> "CLOSED", target |-> None]
  /\ initialized' = FALSE
  /\ UNCHANGED <<intervals, dial, target, muted, faults, overtaken>>

-----------------------------------------------------------------------------
DialStep(k) ==
  \/ DialOk(k) \/ DialFail(k) \/ OpenOk(k) \/ OpenFail(k)
  \/ CleanupChannelClosed(k) \/ CleanupConnectionClosed(k)

Next ==
  \/ OnInit \/ TimerFires \/ HealthTick
  \/ OnDestroy \/ CloseChannelClosed \/ CloseConnectionClosed
  \/ \E k \in Dials : DialStep(k) \/ ConnectionLost(k) \/ ChannelLost(k)

\* Timers expire, intervals tick and every request to the broker is answered
\* or fails; nothing is said of faults and of the application's own calls.
Fairness ==
  /\ WF_vars(TimerFires) /\ WF_vars(HealthTick)
  /\ \A k \in Dials : WF_vars(DialStep(k))

Spec     == Init /\ [][Next]_vars
FairSpec == Spec /\ Fairness

-----------------------------------------------------------------------------
\* The types of the variables.
TypeOK ==
  /\ pool \in Fields
  /\ intervals \in Nat
  /\ conn \in [Dials -> Life]
  /\ chan \in [Dials -> Life]
  /\ dial \in [Dials -> {"idle", "connected", "failed"} \cup Unfinished]
  /\ target \in [Dials -> Dials \cup {None}]
  /\ closer \in [at : {"idle", "closingChan", "closingConn", "CLOSED",
                       "ERROR"},
                 target : Dials \cup {None}]
  /\ muted \in [connection : Dials \cup {None},
                channel : Dials \cup {None}]
  /\ initialized \in BOOLEAN
  /\ faults \in 0 .. MaxFaults
  /\ overtaken \subseteq Dials

\* In every environment: getChannel() never hands out a channel that has
\* died, because each death nulls the pool's channel (lines 158-160).
NoDeadChannel ==
  closer.at = "idle" /\ pool.channel # None => chan[pool.channel] \in Alive

\* In every environment: a pool that says it is about to reconnect has a
\* timer, and one that says it is connecting has a dial under way; only the
\* state CONNECTED can be wrong about the channel behind it.
StateTellsTruth ==
  closer.at = "idle" /\ dial[1] # "idle" =>
    /\ pool.state \in {"RECONNECTING", "DISCONNECTED", "ERROR"} => pool.timer
    /\ pool.state = "CONNECTING" => InFlight # {}

\* Automatic reconnection: a pool without a usable channel, and not shutting
\* down, has a timer or a dial that will look for one.
NeverStranded ==
  closer.at = "idle" /\ dial[1] # "idle" /\ ~isConnected
    => pool.timer \/ InFlight # {}

\* Connection reuse: the pool holds one connection at a time and never races
\* with itself to replace it.
ConnectionReuse ==
  /\ Cardinality(LiveConnections) <= 1
  /\ Cardinality(InFlight) <= 1

\* After a close() that succeeded, and that was not called in the middle of a
\* dial, nothing is open and nothing will be opened.
Quiet == LiveConnections = {} /\ InFlight = {} /\ ~pool.timer
CalmCloseIsFinal == closer.at = "CLOSED" /\ overtaken = {} => Quiet

\* A pool that was started is connected again and again, or is closed.
Reconnects == [](dial[1] # "idle" => <>(isConnected \/ closer.at # "idle"))
=============================================================================
