----------------------- MODULE RabbitConsumer_proofs -----------------------
(***************************************************************************)
(* First the pool: what holds of it for every number of dials and faults,  *)
(* with or without channel faults and health checks; and, from SteadyInv   *)
(* on, what holds where there are neither.                                 *)
(*                                                                         *)
(* Then the consumer, for every number of messages, retries, dials and     *)
(* faults, with slow handlers or fast ones: its types, with them that a    *)
(* message is in one place at a time, and what was proved of the pool, now *)
(* with a consumer on top of it whose acknowledgements may have the broker *)
(* close the channel.                                                      *)
(*                                                                         *)
(* A step of the consumer leaves the pool alone or ends the channel that   *)
(* it sends on, and it sends on an open one: so what the pool's steps keep *)
(* is kept (PoolInv).                                                      *)
(*                                                                         *)
(* Last, what holds of fast handlers over a pool whose channels end only   *)
(* with their connection (FastPremise): one handler to a message, the      *)
(* pool's promises, and at-least-once delivery as AtLeastOnce states it.   *)
(***************************************************************************)
EXTENDS RabbitConsumer, FiniteSetTheorems, TLAPS

-----------------------------------------------------------------------------
(* The handlers return fields, and always leave a timer behind.            *)

\* scheduleReconnect changes nothing but the timer and the state.
LEMMA ScheduleReconnect ==
  ASSUME NEW p \in Fields
  PROVE  /\ scheduleReconnect(p) \in Fields
         /\ scheduleReconnect(p).timer = TRUE
         /\ scheduleReconnect(p).channel = p.channel
         /\ scheduleReconnect(p).connection = p.connection
         /\ \/ p.timer = TRUE /\ scheduleReconnect(p).state = p.state
            \/ p.timer = FALSE
                 /\ scheduleReconnect(p).state = "RECONNECTING"
BY DEF scheduleReconnect, Fields, PoolState

\* The end of a channel whose listener is still there nulls the channel.
LEMMA AfterChannelEnd ==
  ASSUME TypeOK, NEW p \in Fields, NEW k
  PROVE  /\ afterChannelEnd(p, k) \in Fields
         /\ \/ muted.channel = k /\ afterChannelEnd(p, k) = p
            \/ /\ muted.channel # k
               /\ afterChannelEnd(p, k).channel = None
               /\ afterChannelEnd(p, k).timer = TRUE
               /\ p.timer = TRUE => afterChannelEnd(p, k).state = p.state
               /\ p.timer = FALSE => afterChannelEnd(p, k).state = "RECONNECTING"
<1> DEFINE q == [p EXCEPT !.channel = None]
<1>1. /\ q \in Fields
      /\ q.channel = None /\ q.timer = p.timer /\ q.state = p.state
  BY DEF Fields
<1>2. afterChannelEnd(p, k)
        = IF muted.channel = k THEN p ELSE scheduleReconnect(q)
  BY DEF afterChannelEnd, onChannelClose
<1> HIDE DEF q
<1>3. /\ scheduleReconnect(q) \in Fields
      /\ scheduleReconnect(q).timer = TRUE
      /\ scheduleReconnect(q).channel = q.channel
      /\ \/ p.timer = TRUE /\ scheduleReconnect(q).state = q.state
         \/ p.timer = FALSE /\ scheduleReconnect(q).state = "RECONNECTING"
  BY <1>1, ScheduleReconnect
<1>4. QED
  BY <1>1, <1>2, <1>3

\* The same of the end of a connection.
LEMMA AfterConnectionEnd ==
  ASSUME TypeOK, NEW p \in Fields, NEW k, NEW byError \in BOOLEAN
  PROVE  LET q == afterConnectionEnd(p, k, byError)
         IN  /\ q \in Fields
             /\ \/ q.channel = p.channel
                \/ q.channel = None
             /\ chan[k] \in Alive /\ muted.channel # k => q.channel = None
             /\ muted.connection # k =>
                  q.timer = TRUE /\ q.state \in {"DISCONNECTED", "RECONNECTING"}
<1> DEFINE p1 == IF muted.connection # k /\ byError
                 THEN scheduleReconnect(p) ELSE p
           p2 == IF chan[k] \in Alive THEN afterChannelEnd(p1, k) ELSE p1
           p3 == [p2 EXCEPT !.state = "DISCONNECTED"]
<1>1. p1 \in Fields /\ p1.channel = p.channel
  BY ScheduleReconnect
<1>2. /\ p2 \in Fields
      /\ p2.channel = p.channel \/ p2.channel = None
      /\ chan[k] \in Alive /\ muted.channel # k => p2.channel = None
  <2> HIDE DEF p1
  <2> QED BY <1>1, AfterChannelEnd
<1>3. /\ p3 \in Fields
      /\ p3.channel = p2.channel
      /\ p3.state = "DISCONNECTED"
  <2> HIDE DEF p2
  <2> QED BY <1>2 DEF Fields, PoolState
<1>4. /\ scheduleReconnect(p3) \in Fields
      /\ scheduleReconnect(p3).channel = p2.channel
      /\ scheduleReconnect(p3).timer = TRUE
      /\ scheduleReconnect(p3).state \in {"DISCONNECTED", "RECONNECTING"}
  <2> HIDE DEF p3
  <2> QED BY <1>3, ScheduleReconnect
<1>5. afterConnectionEnd(p, k, byError)
        = IF muted.connection # k THEN scheduleReconnect(p3) ELSE p2
  BY DEF afterConnectionEnd, onConnectionClose
<1> HIDE DEF p1, p2, p3
<1>6. QED
  BY <1>2, <1>4, <1>5

\* A failed connect() leaves a timer behind.
LEMMA ConnectFailed ==
  ASSUME NEW p \in Fields
  PROVE  /\ connectFailed(p) \in Fields
         /\ connectFailed(p).timer = TRUE
         /\ connectFailed(p).channel = p.channel
         /\ connectFailed(p).state \in {"ERROR", "RECONNECTING"}
<1> DEFINE q == [p EXCEPT !.connection = None, !.state = "ERROR"]
<1>1. q \in Fields /\ q.channel = p.channel /\ q.state = "ERROR"
  BY DEF Fields, PoolState
<1>2. connectFailed(p) = scheduleReconnect(q)
  BY DEF connectFailed
<1> HIDE DEF q
<1>3. /\ scheduleReconnect(q) \in Fields
      /\ scheduleReconnect(q).timer = TRUE
      /\ scheduleReconnect(q).channel = q.channel
      /\ scheduleReconnect(q).state \in {q.state, "RECONNECTING"}
  BY <1>1, ScheduleReconnect
<1>4. QED
  BY <1>1, <1>2, <1>3

-----------------------------------------------------------------------------
(* Type correctness.                                                       *)

\* What the second half of cleanup() leaves: a close() under way, or a
\* failed dial with a timer.
LEMMA CleanupConnectionStep ==
  ASSUME TypeOK, NEW p \in Fields, NEW k \in Dials,
         NEW cs \in [Dials -> Life], CleanupConnection(p, k, cs)
  PROVE  /\ pool' \in Fields
         /\ pool'.channel = p.channel
         /\ conn' \in [Dials -> Life]
         /\ target' \in [Dials -> Dials \cup {None}]
         /\ \/ /\ pool' = p
               /\ dial' = [dial EXCEPT ![k] = "closingConn"]
               /\ conn'[target'[k]] = "closing"
            \/ /\ pool'.timer = TRUE
               /\ pool'.state \in {"ERROR", "RECONNECTING"}
               /\ dial' = [dial EXCEPT ![k] = "failed"]
<1>1. CASE p.connection # None /\ cs[p.connection] = "open"
  <2>1. /\ pool' = p
        /\ dial' = [dial EXCEPT ![k] = "closingConn"]
        /\ target' = [target EXCEPT ![k] = p.connection]
        /\ conn' = [cs EXCEPT ![p.connection] = "closing"]
    BY <1>1 DEF CleanupConnection
  <2>2. p.connection \in Dials /\ target'[k] = p.connection
    BY <1>1, <2>1 DEF Fields, TypeOK
  <2>3. QED
    BY <2>1, <2>2 DEF TypeOK, Life
<1>2. CASE ~(p.connection # None /\ cs[p.connection] = "open")
  <2>1. /\ pool' = connectFailed(p)
        /\ dial' = [dial EXCEPT ![k] = "failed"]
        /\ conn' = cs
        /\ target' = target
    BY <1>2 DEF CleanupConnection
  <2>2. /\ connectFailed(p) \in Fields
        /\ connectFailed(p).timer = TRUE
        /\ connectFailed(p).channel = p.channel
        /\ connectFailed(p).state \in {"ERROR", "RECONNECTING"}
    BY ConnectFailed
  <2>3. QED
    BY <2>1, <2>2 DEF TypeOK
<1>3. QED
  BY <1>1, <1>2

\* The same of the whole of cleanup(), as DialFail and OpenFail call it.
LEMMA CleanupStep ==
  ASSUME TypeOK, NEW k \in Dials, Cleanup(pool, k)
  PROVE  /\ pool' \in Fields
         /\ conn' \in [Dials -> Life]
         /\ chan' \in [Dials -> Life]
         /\ target' \in [Dials -> Dials \cup {None}]
         /\ \/ /\ pool' = pool
               /\ dial' = [dial EXCEPT ![k] = "closingChan"]
               /\ chan' = [chan EXCEPT ![pool.channel] = "closing"]
               /\ chan'[target'[k]] = "closing"
            \/ /\ pool' = [pool EXCEPT !.channel = None]
               /\ dial' = [dial EXCEPT ![k] = "closingConn"]
               /\ conn'[target'[k]] = "closing"
               /\ chan' = chan
            \/ /\ pool'.channel = None
               /\ pool'.timer = TRUE
               /\ pool'.state \in {"ERROR", "RECONNECTING"}
               /\ dial' = [dial EXCEPT ![k] = "failed"]
               /\ chan' = chan
<1>1. CASE pool.channel # None /\ chan[pool.channel] = "open"
  <2>1. /\ pool' = pool
        /\ dial' = [dial EXCEPT ![k] = "closingChan"]
        /\ target' = [target EXCEPT ![k] = pool.channel]
        /\ chan' = [chan EXCEPT ![pool.channel] = "closing"]
        /\ conn' = conn
    BY <1>1 DEF Cleanup
  <2>2. pool.channel \in Dials /\ target'[k] = pool.channel
    BY <1>1, <2>1 DEF Fields, TypeOK
  <2>3. QED
    BY <2>1, <2>2 DEF TypeOK, Life
<1>2. CASE ~(pool.channel # None /\ chan[pool.channel] = "open")
  <2> DEFINE p == [pool EXCEPT !.channel = None]
  <2>1. p \in Fields /\ p.channel = None
    BY DEF TypeOK, Fields
  <2>2. CleanupConnection(p, k, conn) /\ chan' = chan
    BY <1>2 DEF Cleanup
  <2>3. conn \in [Dials -> Life] /\ chan \in [Dials -> Life]
    BY DEF TypeOK
  <2> HIDE DEF p
  <2>4. /\ pool' \in Fields
        /\ pool'.channel = p.channel
        /\ conn' \in [Dials -> Life]
        /\ target' \in [Dials -> Dials \cup {None}]
        /\ \/ /\ pool' = p
              /\ dial' = [dial EXCEPT ![k] = "closingConn"]
              /\ conn'[target'[k]] = "closing"
           \/ /\ pool'.timer = TRUE
              /\ pool'.state \in {"ERROR", "RECONNECTING"}
              /\ dial' = [dial EXCEPT ![k] = "failed"]
    BY <2>1, <2>2, <2>3, CleanupConnectionStep
  <2>5. QED
    BY <2>1, <2>2, <2>3, <2>4 DEF p
<1>3. QED
  BY <1>1, <1>2

\* What EndConnection leaves, whichever connection ended.
LEMMA EndConnectionType ==
  ASSUME TypeOK, NEW k, EndConnection(k)
  PROVE  /\ conn' \in [Dials -> Life]
         /\ chan' \in [Dials -> Life]
BY DEF TypeOK, EndConnection, Life, Alive

\* connect() up to its first await: nothing, or the next dial.
LEMMA StartDialStep ==
  ASSUME TypeOK, NEW p \in Fields, StartDial(p)
  PROVE  /\ pool' \in Fields
         /\ pool'.channel = p.channel
         /\ pool'.timer = p.timer
         /\ \/ pool' = p /\ dial' = dial /\ p.state = "CONNECTED"
            \/ /\ pool'.state = "CONNECTING"
               /\ \E k \in Dials :
                    /\ dial[k] = "idle"
                    /\ \A j \in Dials : j < k => dial[j] # "idle"
                    /\ dial' = [dial EXCEPT ![k] = "dialing"]
BY DEF StartDial, Fields, PoolState

\* How close() ends, with any connections cs and fields p.
LEMMA CloseFinishedType ==
  ASSUME TypeOK, NEW p \in Fields, NEW cs \in [Dials -> Life],
         NEW state \in {"CLOSED", "ERROR"}, CloseFinished(p, cs, state)
  PROVE  /\ pool' \in Fields
         /\ conn' \in [Dials -> Life]
         /\ closer' \in [at : {"closingChan", "closingConn", "CLOSED", "ERROR"},
                         target : Dials \cup {None}]
         /\ initialized' \in BOOLEAN
<1>1. pool' \in Fields /\ conn' \in [Dials -> Life]
  BY DEF CloseFinished, Fields, PoolState
<1>2. closer' \in [at : {"closingChan", "closingConn", "CLOSED", "ERROR"},
                  target : Dials \cup {None}]
  BY DEF CloseFinished
<1>3. initialized' \in BOOLEAN
  BY DEF CloseFinished, TypeOK
<1>4. QED
  BY <1>1, <1>2, <1>3

\* The same of close() from its third `if' on.
LEMMA CloseConnectionType ==
  ASSUME TypeOK, NEW p \in Fields, NEW cs \in [Dials -> Life],
         CloseConnection(p, cs)
  PROVE  /\ pool' \in Fields
         /\ conn' \in [Dials -> Life]
         /\ closer' \in [at : {"closingChan", "closingConn", "CLOSED", "ERROR"},
                         target : Dials \cup {None}]
         /\ initialized' \in BOOLEAN
<1>1. CASE CloseFinished(p, cs, "CLOSED")
  BY <1>1, CloseFinishedType
<1>2. CASE CloseFinished(p, cs, "ERROR")
  BY <1>2, CloseFinishedType
<1>3. CASE /\ p.connection # None
           /\ pool' = p
           /\ conn' = [cs EXCEPT ![p.connection] = "closing"]
           /\ closer' = [at |-> "closingConn", target |-> p.connection]
           /\ UNCHANGED initialized
  BY <1>3 DEF TypeOK, Fields, Life
<1>4. QED
  BY <1>1, <1>2, <1>3 DEF CloseConnection

\* A channel ends under its listeners: it is lost, or, in a module that builds
\* on the pool, the broker ends it over what was sent on it.
ChannelEnds(k) ==
  /\ chan[k] \in Alive
  /\ chan' = [chan EXCEPT ![k] = "dead"]
  /\ pool' = afterChannelEnd(pool, k)
  /\ faults' \in 0 .. MaxFaults
  /\ UNCHANGED <<intervals, conn, dial, target, closer, muted, initialized,
                 overtaken>>
PoolMoves == [Next]_vars \/ \E k \in Dials : ChannelEnds(k)

LEMMA LostEnds ==
  ASSUME TypeOK, NEW k \in Dials, ChannelLost(k)
  PROVE  ChannelEnds(k)
BY PoolAssumption DEF PoolAssumption, TypeOK, ChannelLost, ChannelEnds

\* TypeOK is inductive by itself.
LEMMA TypeStep == TypeOK /\ PoolMoves => TypeOK'
<1> SUFFICES ASSUME TypeOK, PoolMoves PROVE TypeOK'
  OBVIOUS
<1> USE DEF TypeOK
<1>1. ASSUME OnInit PROVE TypeOK'
  <2>1. StartDial(pool) /\ pool \in Fields
    BY <1>1 DEF OnInit
  <2>2. pool' \in Fields
    BY <2>1, StartDialStep
  <2>3. dial' \in [Dials -> {"idle", "connected", "failed"} \cup Unfinished]
    BY <2>1, StartDialStep DEF Unfinished
  <2>4. QED
    BY <1>1, <2>2, <2>3 DEF OnInit
<1>2. ASSUME TimerFires PROVE TypeOK'
  <2> DEFINE p == [pool EXCEPT !.timer = FALSE]
  <2>1. StartDial(p) /\ p \in Fields
    BY <1>2 DEF TimerFires, Fields
  <2> HIDE DEF p
  <2>2. pool' \in Fields
    BY <2>1, StartDialStep
  <2>3. dial' \in [Dials -> {"idle", "connected", "failed"} \cup Unfinished]
    BY <2>1, StartDialStep DEF Unfinished
  <2>4. QED
    BY <1>2, <2>2, <2>3 DEF TimerFires
<1>3. ASSUME HealthTick PROVE TypeOK'
  BY <1>3, ScheduleReconnect DEF HealthTick
<1>4. ASSUME OnDestroy PROVE TypeOK'
  <2> DEFINE p == beginClose(pool)
  <2>1. p \in Fields /\ p.channel = pool.channel
    BY DEF beginClose, Fields, PoolState
  <2>2. /\ intervals' \in Nat
        /\ muted' \in [connection : Dials \cup {None},
                      channel : Dials \cup {None}]
        /\ overtaken' \subseteq Dials
        /\ UNCHANGED <<dial, target, faults>>
    BY <1>4 DEF OnDestroy, clearHealthTimer, InFlight, Fields
  <2>3. \/ /\ p.channel # None
           /\ pool' = p
           /\ chan' = [chan EXCEPT ![p.channel] = "closing"]
           /\ closer' = [at |-> "closingChan", target |-> p.channel]
           /\ UNCHANGED <<conn, initialized>>
        \/ CloseFinished(p, conn, "ERROR") /\ UNCHANGED chan
        \/ CloseConnection(p, conn) /\ UNCHANGED chan
    BY <1>4 DEF OnDestroy
  <2> HIDE DEF p
  <2>4. /\ pool' \in Fields
        /\ conn' \in [Dials -> Life]
        /\ chan' \in [Dials -> Life]
        /\ closer' \in [at : {"closingChan", "closingConn", "CLOSED", "ERROR"},
                        target : Dials \cup {None}]
        /\ initialized' \in BOOLEAN
    BY <2>1, <2>3, CloseFinishedType, CloseConnectionType DEF Fields, Life
  <2>5. QED
    BY <2>2, <2>4
<1>5. ASSUME CloseChannelClosed PROVE TypeOK'
  <2> DEFINE q == afterChannelEnd(pool, closer.target)
             p == [q EXCEPT !.channel = None]
  <2>1. q \in Fields
    BY AfterChannelEnd
  <2>2. CloseConnection(p, conn)
    BY <1>5 DEF CloseChannelClosed
  <2>3. p \in Fields
    <3> HIDE DEF q
    <3> QED BY <2>1 DEF Fields
  <2> HIDE DEF p
  <2>4. /\ pool' \in Fields
        /\ conn' \in [Dials -> Life]
        /\ closer' \in [at : {"closingChan", "closingConn", "CLOSED", "ERROR"},
                        target : Dials \cup {None}]
        /\ initialized' \in BOOLEAN
    BY <2>2, <2>3, CloseConnectionType
  <2>5. QED
    BY <1>5, <2>4 DEF CloseChannelClosed, Life
<1>6. ASSUME CloseConnectionClosed PROVE TypeOK'
  <2> DEFINE q == afterConnectionEnd(pool, closer.target, FALSE)
  <2>1. q \in Fields
    BY AfterConnectionEnd
  <2>2. pool' = [q EXCEPT !.connection = None, !.state = "CLOSED"]
    BY <1>6 DEF CloseConnectionClosed
  <2>3. pool' \in Fields
    <3> HIDE DEF q
    <3> QED BY <2>1, <2>2 DEF Fields, PoolState
  <2>4. conn' \in [Dials -> Life] /\ chan' \in [Dials -> Life]
    BY <1>6, EndConnectionType DEF CloseConnectionClosed
  <2>5. QED
    BY <1>6, <2>3, <2>4 DEF CloseConnectionClosed
<1>7. ASSUME NEW k \in Dials, DialOk(k) PROVE TypeOK'
  BY <1>7 DEF DialOk, Fields, Life, Unfinished
<1>8. ASSUME NEW k \in Dials, DialFail(k) PROVE TypeOK'
  <2>1. /\ pool' \in Fields
        /\ conn' \in [Dials -> Life]
        /\ chan' \in [Dials -> Life]
        /\ target' \in [Dials -> Dials \cup {None}]
        /\ \E s \in {"closingChan", "closingConn", "failed"} :
              dial' = [dial EXCEPT ![k] = s]
    BY <1>8, CleanupStep DEF DialFail
  <2>2. faults' \in 0 .. MaxFaults
    BY <1>8, PoolAssumption DEF DialFail
  <2>3. QED
    BY <1>8, <2>1, <2>2 DEF DialFail, Unfinished
<1>9. ASSUME NEW k \in Dials, OpenOk(k) PROVE TypeOK'
  <2>1. pool' = [pool EXCEPT !.channel = k, !.state = "CONNECTED"]
    BY <1>9 DEF OpenOk
  <2>2. pool' \in Fields
    BY <2>1 DEF Fields, PoolState
  <2>3. intervals' \in {intervals, intervals + 1}
    BY <1>9 DEF OpenOk
  <2>4. initialized' \in BOOLEAN
    BY <1>9 DEF OpenOk
  <2>5. QED
    BY <1>9, <2>2, <2>3, <2>4 DEF OpenOk, Life
<1>10. ASSUME NEW k \in Dials, OpenFail(k) PROVE TypeOK'
  <2>1. /\ pool' \in Fields
        /\ conn' \in [Dials -> Life]
        /\ chan' \in [Dials -> Life]
        /\ target' \in [Dials -> Dials \cup {None}]
        /\ \E s \in {"closingChan", "closingConn", "failed"} :
              dial' = [dial EXCEPT ![k] = s]
    BY <1>10, CleanupStep DEF OpenFail
  <2>2. faults' \in 0 .. MaxFaults
    BY <1>10, PoolAssumption DEF OpenFail
  <2>3. QED
    BY <1>10, <2>1, <2>2 DEF OpenFail, Unfinished
<1>11. ASSUME NEW k \in Dials, CleanupChannelClosed(k) PROVE TypeOK'
  <2> DEFINE q == afterChannelEnd(pool, target[k])
             p == [q EXCEPT !.channel = None]
  <2>1. q \in Fields
    BY AfterChannelEnd
  <2>2. CleanupConnection(p, k, conn)
    BY <1>11 DEF CleanupChannelClosed
  <2>3. p \in Fields
    <3> HIDE DEF q
    <3> QED BY <2>1 DEF Fields
  <2> HIDE DEF p
  <2>4. /\ pool' \in Fields
        /\ conn' \in [Dials -> Life]
        /\ target' \in [Dials -> Dials \cup {None}]
        /\ \E s \in {"closingConn", "failed"} :
              dial' = [dial EXCEPT ![k] = s]
    BY <2>2, <2>3, CleanupConnectionStep
  <2>5. /\ chan' = [chan EXCEPT ![target[k]] = "dead"]
        /\ UNCHANGED <<intervals, closer, muted, initialized, faults,
                       overtaken>>
    BY <1>11 DEF CleanupChannelClosed
  <2>6. chan' \in [Dials -> Life]
    BY <2>5 DEF Life
  <2>7. dial' \in [Dials -> {"idle", "connected", "failed"} \cup Unfinished]
    BY <2>4 DEF Unfinished
  <2>8. QED
    BY <2>4, <2>5, <2>6, <2>7
<1>12. ASSUME NEW k \in Dials, CleanupConnectionClosed(k) PROVE TypeOK'
  <2>1. afterConnectionEnd(pool, target[k], FALSE) \in Fields
    BY AfterConnectionEnd
  <2>2. pool' \in Fields
    BY <1>12, <2>1, ConnectFailed DEF CleanupConnectionClosed
  <2>3. conn' \in [Dials -> Life] /\ chan' \in [Dials -> Life]
    BY <1>12, EndConnectionType DEF CleanupConnectionClosed
  <2>4. QED
    BY <1>12, <2>2, <2>3 DEF CleanupConnectionClosed
<1>13. ASSUME NEW k \in Dials, ConnectionLost(k) PROVE TypeOK'
  <2>1. \A byError \in BOOLEAN : afterConnectionEnd(pool, k, byError) \in Fields
    BY AfterConnectionEnd
  <2>2. conn' \in [Dials -> Life] /\ chan' \in [Dials -> Life]
    BY <1>13, EndConnectionType DEF ConnectionLost
  <2>3. faults' \in 0 .. MaxFaults
    BY <1>13, PoolAssumption DEF ConnectionLost
  <2>4. /\ \E byError \in BOOLEAN :
             pool' = afterConnectionEnd(pool, k, byError)
        /\ UNCHANGED <<intervals, dial, target, closer, muted, initialized,
                       overtaken>>
    BY <1>13 DEF ConnectionLost
  <2>5. QED
    BY <2>1, <2>2, <2>3, <2>4
<1>14. ASSUME NEW k \in Dials, ChannelEnds(k) PROVE TypeOK'
  <2>1. pool' \in Fields
    BY <1>14, AfterChannelEnd DEF ChannelEnds
  <2>2. QED
    BY <1>14, <2>1 DEF ChannelEnds, Life
<1>15. CASE UNCHANGED vars
  BY <1>15 DEF vars
<1>16. QED
  BY <1>1, <1>2, <1>3, <1>4, <1>5, <1>6, <1>7, <1>8, <1>9, <1>10, <1>11,
     <1>12, <1>13, <1>14, <1>15, LostEnds DEF PoolMoves, Next, DialStep

\* The pool starts well typed.
LEMMA PoolTypeInit == Init => TypeOK
<1> SUFFICES ASSUME Init PROVE TypeOK
  OBVIOUS
<1>1. pool \in Fields
  BY DEF Init, Fields, PoolState
<1>2. /\ conn \in [Dials -> Life] /\ chan \in [Dials -> Life]
      /\ dial \in [Dials -> {"idle", "connected", "failed"} \cup Unfinished]
      /\ target \in [Dials -> Dials \cup {None}]
  BY DEF Init, Life
<1>3. closer \in [at : {"idle", "closingChan", "closingConn", "CLOSED",
                      "ERROR"},
                 target : Dials \cup {None}]
  BY DEF Init
<1>4. muted \in [connection : Dials \cup {None},
                channel : Dials \cup {None}]
  BY DEF Init
<1>5. intervals \in Nat /\ faults \in 0 .. MaxFaults /\ overtaken \subseteq Dials
  BY PoolAssumption DEF Init
<1>6. QED
  BY <1>1, <1>2, <1>3, <1>4, <1>5 DEF Init, TypeOK

\* The variables of the pool (fields, connections, channels, dials, timers)
\* keep their types in every behaviour.
THEOREM PoolTypeCorrect == Spec => []TypeOK
<1>1. TypeOK /\ [Next]_vars => TypeOK'
  BY TypeStep DEF PoolMoves
<1>2. QED
  BY <1>1, PoolTypeInit, PTL DEF Spec

-----------------------------------------------------------------------------
(* Dead channels and idle pools.  NoDeadChannel and StateTellsTruth are not *)
(* inductive: both need to know that close() alone removes listeners, that  *)
(* nothing has happened before the first dial, and that no timer runs while *)
(* a dial has put the pool into CONNECTING, for otherwise the loss of a     *)
(* connection would leave that state unchanged.                             *)

ListenersOn ==
  closer.at = "idle" => muted.connection = None /\ muted.channel = None

Untouched ==
  dial[1] = "idle" =>
    /\ pool.timer = FALSE /\ intervals = 0 /\ initialized = FALSE
    /\ closer.at = "idle"
    /\ \A k \in Dials :
         dial[k] = "idle" /\ conn[k] = "unused" /\ chan[k] = "unused"

NoTimerWhileConnecting ==
  closer.at = "idle" /\ pool.state = "CONNECTING" => pool.timer = FALSE

PoolInv == /\ TypeOK /\ ListenersOn /\ Untouched /\ NoTimerWhileConnecting
           /\ NoDeadChannel /\ StateTellsTruth

\* A dial whose answer is still to come is in flight.
LEMMA InFlightWitness ==
  ASSUME NEW k \in Dials,
         \/ dial'[k] \in {"dialing", "opening"}
         \/ dial'[k] = "closingChan" /\ chan'[target'[k]] = "closing"
         \/ dial'[k] = "closingConn" /\ conn'[target'[k]] = "closing"
  PROVE  InFlight' # {}
BY DEF InFlight, Hung, Unfinished

\* Once a dial was started the pool is never untouched again.
LEMMA Touched ==
  ASSUME TypeOK, dial[1] # "idle",
         \/ dial' = dial
         \/ \E k \in Dials, s \in {"dialing", "opening", "connected", "failed",
                                   "closingChan", "closingConn"} :
              dial' = [dial EXCEPT ![k] = s]
  PROVE  dial'[1] # "idle" /\ Untouched'
<1>1. 1 \in Dials
  BY PoolAssumption DEF Dials
<1>2. QED
  BY <1>1 DEF TypeOK, Untouched

\* While the pool is not being closed, the end of a connection leaves a
\* timer; it never leaves the pool a channel that died with it.
LEMMA ConnectionEndsOpen ==
  ASSUME PoolInv, closer.at = "idle", NEW k \in Dials,
         NEW byError \in BOOLEAN, EndConnection(k)
  PROVE  LET q == afterConnectionEnd(pool, k, byError)
         IN  /\ q \in Fields
             /\ q.timer = TRUE /\ q.state \in {"DISCONNECTED", "RECONNECTING"}
             /\ q.channel # None => chan'[q.channel] \in Alive
<1> DEFINE q == afterConnectionEnd(pool, k, byError)
<1>1. k # muted.connection /\ k # muted.channel
  BY DEF PoolInv, ListenersOn, Dials, None
<1>2. TypeOK /\ pool \in Fields
  BY DEF PoolInv, TypeOK
<1>3. /\ q \in Fields
      /\ q.channel = pool.channel \/ q.channel = None
      /\ chan[k] \in Alive => q.channel = None
      /\ q.timer = TRUE /\ q.state \in {"DISCONNECTED", "RECONNECTING"}
  BY <1>1, <1>2, AfterConnectionEnd
<1>4. ASSUME q.channel # None PROVE chan'[q.channel] \in Alive
  <2>1. q.channel = pool.channel /\ q.channel \in Dials /\ chan[k] \notin Alive
    BY <1>3, <1>4 DEF Fields
  <2>2. chan[q.channel] \in Alive
    BY <1>4, <2>1 DEF PoolInv, NoDeadChannel
  <2> HIDE DEF q
  <2>3. QED
    BY <1>2, <2>1, <2>2 DEF EndConnection, TypeOK
<1> HIDE DEF q
<1>5. QED
  BY <1>3, <1>4 DEF q

\* PoolInv is inductive.
LEMMA InvStep == PoolInv /\ PoolMoves => PoolInv'
<1> SUFFICES ASSUME PoolInv, PoolMoves PROVE PoolInv'
  OBVIOUS
<1> DEFINE Rest == /\ ListenersOn /\ Untouched /\ NoTimerWhileConnecting
                   /\ NoDeadChannel /\ StateTellsTruth
<1>a. TypeOK /\ TypeOK' /\ Rest /\ pool \in Fields /\ 1 \in Dials
  BY TypeStep, PoolAssumption DEF PoolInv, TypeOK, Dials
\* What suffices for a step that is not one of close().
<1>b. ASSUME dial'[1] # "idle", Untouched', UNCHANGED <<closer, muted>>,
             closer.at = "idle" =>
               /\ pool'.state \in {"RECONNECTING", "DISCONNECTED", "ERROR"}
                    => pool'.timer = TRUE
               /\ pool'.state = "CONNECTING" =>
                    pool'.timer = FALSE /\ InFlight' # {}
               /\ pool'.channel # None => chan'[pool'.channel] \in Alive
      PROVE  Rest'
  BY <1>a, <1>b DEF ListenersOn, NoTimerWhileConnecting, NoDeadChannel,
                    StateTellsTruth
\* What suffices for a step of close().
<1>c. ASSUME dial[1] # "idle", UNCHANGED dial, closer'.at # "idle"
      PROVE  Rest'
  BY <1>a, <1>c, Touched DEF ListenersOn, NoTimerWhileConnecting,
                             NoDeadChannel, StateTellsTruth
<1>d. ASSUME NEW k \in Dials, dial[k] # "idle"
      PROVE  dial[1] # "idle"
  BY <1>a, <1>d DEF Untouched
<1>1. ASSUME OnInit PROVE Rest'
  <2>1. dial[1] = "idle" /\ pool.timer = FALSE /\ intervals = 0
    BY <1>1, <1>a DEF OnInit, Untouched
  <2>2. /\ UNCHANGED <<intervals, conn, chan, target, closer, muted,
                       initialized, faults, overtaken>>
        /\ StartDial(pool)
    BY <1>1 DEF OnInit
  <2>3. CASE pool' = pool /\ dial' = dial
    <3>1. ListenersOn' /\ Untouched' /\ NoTimerWhileConnecting'
      BY <1>a, <2>2, <2>3 DEF ListenersOn, Untouched, NoTimerWhileConnecting
    <3>2. NoDeadChannel' /\ StateTellsTruth'
      BY <1>a, <2>1, <2>2, <2>3 DEF NoDeadChannel, StateTellsTruth
    <3>3. QED
      BY <3>1, <3>2
  <2>4. CASE /\ pool'.state = "CONNECTING"
             /\ \E k \in Dials :
                  /\ dial[k] = "idle"
                  /\ \A j \in Dials : j < k => dial[j] # "idle"
                  /\ dial' = [dial EXCEPT ![k] = "dialing"]
    <3>1. PICK k \in Dials : /\ \A j \in Dials : j < k => dial[j] # "idle"
                             /\ dial' = [dial EXCEPT ![k] = "dialing"]
      BY <2>4
    <3>2. k = 1
      BY <1>a, <2>1, <3>1 DEF Dials
    <3>3. dial'[1] = "dialing" /\ Untouched'
      BY <1>a, <3>1, <3>2 DEF TypeOK, Untouched
    <3>4. InFlight' # {}
      BY <1>a, <3>3, InFlightWitness
    <3>5. pool'.timer = FALSE /\ pool'.channel = pool.channel
      BY <1>a, <2>1, <2>2, StartDialStep
    <3>6. QED
      BY <1>a, <1>b, <2>2, <2>4, <3>3, <3>4, <3>5 DEF NoDeadChannel
  <2>5. QED
    <3>1. \/ pool' = pool /\ dial' = dial
          \/ /\ pool'.state = "CONNECTING"
             /\ \E k \in Dials :
                  /\ dial[k] = "idle"
                  /\ \A j \in Dials : j < k => dial[j] # "idle"
                  /\ dial' = [dial EXCEPT ![k] = "dialing"]
      BY <1>a, <2>2, StartDialStep
    <3>2. QED
      BY <2>3, <2>4, <3>1
<1>2. ASSUME TimerFires PROVE Rest'
  <2> DEFINE p == [pool EXCEPT !.timer = FALSE]
  <2>1. /\ p \in Fields /\ p.timer = FALSE
        /\ p.channel = pool.channel
    BY <1>a DEF Fields
  <2>2. /\ UNCHANGED <<intervals, conn, chan, target, closer, muted,
                       initialized, faults, overtaken>>
        /\ StartDial(p)
    BY <1>2 DEF TimerFires
  <2>3. pool.timer
    BY <1>2 DEF TimerFires
  <2>4. dial[1] # "idle"
    BY <1>a, <2>3 DEF Untouched
  <2> HIDE DEF p
  <2>5. /\ pool'.channel = p.channel /\ pool'.timer = p.timer
        /\ \/ pool' = p /\ dial' = dial /\ p.state = "CONNECTED"
           \/ /\ pool'.state = "CONNECTING"
              /\ \E k \in Dials : dial' = [dial EXCEPT ![k] = "dialing"]
    BY <1>a, <2>1, <2>2, StartDialStep
  <2>6. dial'[1] # "idle" /\ Untouched'
    BY <1>a, <2>4, <2>5, Touched
  <2>7. pool'.state = "CONNECTING" => InFlight' # {}
    <3> SUFFICES ASSUME pool'.state = "CONNECTING" PROVE InFlight' # {}
      OBVIOUS
    <3>1. PICK k \in Dials : dial' = [dial EXCEPT ![k] = "dialing"]
      BY <2>5
    <3>2. dial'[k] = "dialing"
      BY <1>a, <3>1 DEF TypeOK
    <3>3. QED
      BY <3>2, InFlightWitness
  <2>8. QED
    BY <1>a, <1>b, <2>1, <2>2, <2>5, <2>6, <2>7 DEF NoDeadChannel
<1>3. ASSUME HealthTick PROVE Rest'
  <2>1. /\ UNCHANGED <<intervals, conn, chan, dial, target, closer, muted,
                       initialized, faults, overtaken>>
        /\ pool' = scheduleReconnect(pool)
        /\ intervals > 0
    BY <1>3 DEF HealthTick
  <2>2. dial[1] # "idle"
    BY <1>a, <2>1 DEF Untouched
  <2>3. dial'[1] # "idle" /\ Untouched'
    BY <1>a, <2>1, <2>2, Touched
  <2>4. /\ pool'.timer = TRUE /\ pool'.channel = pool.channel
        /\ \/ pool.timer = TRUE /\ pool'.state = pool.state
           \/ pool'.state = "RECONNECTING"
    BY <1>a, <2>1, ScheduleReconnect
  <2>5. closer.at = "idle" => pool'.state # "CONNECTING"
    BY <1>a, <2>4 DEF NoTimerWhileConnecting
  <2>6. QED
    BY <1>a, <1>b, <2>1, <2>3, <2>4, <2>5 DEF NoDeadChannel
<1>4. ASSUME NEW k \in Dials, DialOk(k) PROVE Rest'
  <2>1. /\ UNCHANGED <<chan, target, closer, muted>>
        /\ dial' = [dial EXCEPT ![k] = "opening"] /\ dial[k] = "dialing"
        /\ pool' = [pool EXCEPT !.connection = k]
    BY <1>4 DEF DialOk
  <2>2. dial'[1] # "idle" /\ dial[1] # "idle" /\ Untouched'
    BY <1>a, <1>d, <2>1, Touched
  <2>3. dial'[k] = "opening" /\ InFlight' # {}
    BY <1>a, <2>1, InFlightWitness DEF TypeOK
  <2>4. /\ pool'.state = pool.state /\ pool'.timer = pool.timer
        /\ pool'.channel = pool.channel
    BY <1>a, <2>1 DEF Fields
  <2>5. QED
    BY <1>a, <1>b, <2>1, <2>2, <2>3, <2>4
       DEF NoDeadChannel, StateTellsTruth, NoTimerWhileConnecting
<1>5. ASSUME NEW k \in Dials, dial[k] # "idle", Cleanup(pool, k),
             UNCHANGED <<closer, muted>>
      PROVE  Rest'
  <2>1. dial[1] # "idle" /\ dial'[1] # "idle" /\ Untouched'
    BY <1>a, <1>d, <1>5, CleanupStep, Touched
  <2>2. CASE /\ pool' = pool
             /\ dial' = [dial EXCEPT ![k] = "closingChan"]
             /\ chan' = [chan EXCEPT ![pool.channel] = "closing"]
             /\ chan'[target'[k]] = "closing"
    <3>1. dial'[k] = "closingChan" /\ InFlight' # {}
      BY <1>a, <2>2, InFlightWitness DEF TypeOK
    <3>2. closer.at = "idle" /\ pool'.channel # None
            => chan'[pool'.channel] \in Alive
      BY <1>a, <2>2 DEF NoDeadChannel, TypeOK, Fields, Alive
    <3>3. QED
      BY <1>a, <1>b, <1>5, <2>1, <2>2, <3>1, <3>2
         DEF StateTellsTruth, NoTimerWhileConnecting
  <2>3. CASE /\ pool' = [pool EXCEPT !.channel = None]
             /\ dial' = [dial EXCEPT ![k] = "closingConn"]
             /\ conn'[target'[k]] = "closing"
    <3>1. dial'[k] = "closingConn" /\ InFlight' # {}
      BY <1>a, <2>3, InFlightWitness DEF TypeOK
    <3>2. /\ pool'.state = pool.state /\ pool'.timer = pool.timer
          /\ pool'.channel = None
      BY <1>a, <2>3 DEF Fields
    <3>3. QED
      BY <1>a, <1>b, <1>5, <2>1, <3>1, <3>2
         DEF StateTellsTruth, NoTimerWhileConnecting
  <2>4. CASE /\ pool'.channel = None
             /\ pool'.timer = TRUE
             /\ pool'.state \in {"ERROR", "RECONNECTING"}
    BY <1>b, <1>5, <2>1, <2>4
  <2>5. QED
    BY <1>a, <1>5, <2>2, <2>3, <2>4, CleanupStep
<1>6. ASSUME NEW k \in Dials, DialFail(k) PROVE Rest'
  BY <1>5, <1>6 DEF DialFail
<1>7. ASSUME NEW k \in Dials, OpenOk(k) PROVE Rest'
  <2>1. /\ UNCHANGED <<closer, muted>> /\ dial[k] = "opening"
        /\ dial' = [dial EXCEPT ![k] = "connected"]
        /\ chan' = [chan EXCEPT ![k] = "open"]
        /\ pool' = [pool EXCEPT !.channel = k, !.state = "CONNECTED"]
    BY <1>7 DEF OpenOk
  <2>2. dial'[1] # "idle" /\ Untouched'
    BY <1>a, <1>d, <2>1, Touched
  <2>3. pool'.channel = k /\ pool'.state = "CONNECTED"
    BY <1>a, <2>1 DEF Fields
  <2>4. chan'[k] \in Alive
    BY <1>a, <2>1 DEF TypeOK, Alive
  <2>5. QED
    BY <1>b, <2>1, <2>2, <2>3, <2>4
<1>8. ASSUME NEW k \in Dials, OpenFail(k) PROVE Rest'
  BY <1>5, <1>8 DEF OpenFail
<1>9. ASSUME NEW k \in Dials, CleanupChannelClosed(k) PROVE Rest'
  <2> DEFINE q == afterChannelEnd(pool, target[k])
             p == [q EXCEPT !.channel = None]
  <2>1. /\ q \in Fields
        /\ \/ q.state = pool.state /\ q.timer = pool.timer
           \/ q.state = pool.state /\ q.timer = TRUE /\ pool.timer = TRUE
           \/ q.state = "RECONNECTING" /\ q.timer = TRUE
    BY <1>a, AfterChannelEnd DEF Fields
  <2>2. /\ dial[k] = "closingChan" /\ UNCHANGED <<closer, muted>>
        /\ CleanupConnection(p, k, conn)
    BY <1>9 DEF CleanupChannelClosed
  <2>3. /\ p \in Fields /\ p.channel = None
        /\ p.state = q.state /\ p.timer = q.timer
    <3> HIDE DEF q
    <3> QED BY <2>1 DEF Fields
  <2>4. conn \in [Dials -> Life]
    BY <1>a DEF TypeOK
  <2> HIDE DEF p, q
  <2>5. /\ pool'.channel = None
        /\ \/ /\ pool' = p
              /\ dial' = [dial EXCEPT ![k] = "closingConn"]
              /\ conn'[target'[k]] = "closing"
           \/ /\ pool'.timer = TRUE
              /\ pool'.state \in {"ERROR", "RECONNECTING"}
              /\ dial' = [dial EXCEPT ![k] = "failed"]
    BY <1>a, <2>2, <2>3, <2>4, CleanupConnectionStep
  <2>6. dial[1] # "idle" /\ dial'[1] # "idle" /\ Untouched'
    BY <1>a, <1>d, <2>2, <2>5, Touched
  <2>7. CASE /\ pool' = p
             /\ dial' = [dial EXCEPT ![k] = "closingConn"]
             /\ conn'[target'[k]] = "closing"
    <3>1. dial'[k] = "closingConn" /\ InFlight' # {}
      BY <1>a, <2>7, InFlightWitness DEF TypeOK
    <3>2. closer.at = "idle" =>
            /\ p.state \in {"RECONNECTING", "DISCONNECTED", "ERROR"}
                 => p.timer = TRUE
            /\ p.state = "CONNECTING" => p.timer = FALSE
      BY <1>a, <2>1, <2>3, <2>6
         DEF StateTellsTruth, NoTimerWhileConnecting
    <3>3. QED
      BY <1>b, <2>2, <2>5, <2>6, <2>7, <3>1, <3>2
  <2>8. CASE /\ pool'.timer = TRUE
             /\ pool'.state \in {"ERROR", "RECONNECTING"}
    BY <1>b, <2>2, <2>5, <2>6, <2>8
  <2>9. QED
    BY <2>5, <2>7, <2>8
<1>10. ASSUME NEW k \in Dials, CleanupConnectionClosed(k) PROVE Rest'
  <2> DEFINE q == afterConnectionEnd(pool, target[k], FALSE)
  <2>1. /\ dial[k] = "closingConn" /\ UNCHANGED <<closer, muted>>
        /\ EndConnection(target[k])
        /\ pool' = connectFailed(q)
        /\ dial' = [dial EXCEPT ![k] = "failed"]
    BY <1>10 DEF CleanupConnectionClosed
  <2>2. q \in Fields /\ (q.channel = pool.channel \/ q.channel = None)
    BY <1>a, AfterConnectionEnd
  <2>3. closer.at = "idle" /\ q.channel # None => chan'[q.channel] \in Alive
    <3>1. CASE target[k] \in Dials
      BY <2>1, <3>1, ConnectionEndsOpen
    <3>2. CASE target[k] \notin Dials
      <4>1. chan' = chan
        BY <1>a, <2>1, <3>2 DEF EndConnection, TypeOK
      <4> HIDE DEF q
      <4>2. QED
        BY <1>a, <2>2, <4>1 DEF NoDeadChannel
    <3>3. QED
      BY <3>1, <3>2
  <2> HIDE DEF q
  <2>4. /\ pool'.timer = TRUE /\ pool'.state \in {"ERROR", "RECONNECTING"}
        /\ pool'.channel = q.channel
    BY <2>1, <2>2, ConnectFailed
  <2>5. dial'[1] # "idle" /\ Untouched'
    BY <1>a, <1>d, <2>1, Touched
  <2>6. QED
    BY <1>b, <2>1, <2>3, <2>4, <2>5
<1>11. ASSUME NEW k \in Dials, ConnectionLost(k) PROVE Rest'
  <2>1. /\ UNCHANGED <<dial, closer, muted>>
        /\ EndConnection(k) /\ conn[k] \in Alive
    BY <1>11 DEF ConnectionLost
  <2>2. PICK byError \in BOOLEAN : pool' = afterConnectionEnd(pool, k, byError)
    BY <1>11 DEF ConnectionLost
  <2>3. dial'[1] # "idle" /\ Untouched'
    BY <1>a, <2>1, Touched DEF Untouched, Alive
  <2>4. closer.at = "idle" =>
          /\ pool'.timer = TRUE
          /\ pool'.state \in {"DISCONNECTED", "RECONNECTING"}
          /\ pool'.channel # None => chan'[pool'.channel] \in Alive
    BY <2>1, <2>2, ConnectionEndsOpen
  <2>5. QED
    BY <1>b, <2>1, <2>3, <2>4
<1>12. ASSUME NEW k \in Dials, ChannelEnds(k) PROVE Rest'
  <2>1. /\ UNCHANGED <<dial, closer, muted>> /\ chan[k] \in Alive
        /\ pool' = afterChannelEnd(pool, k)
    BY <1>12 DEF ChannelEnds
  <2>2. dial'[1] # "idle" /\ dial[1] # "idle" /\ Untouched'
    BY <1>a, <2>1, Touched DEF Untouched, Alive
  <2>3. ASSUME closer.at = "idle"
        PROVE  /\ pool'.channel = None /\ pool'.timer = TRUE
               /\ pool'.state # "CONNECTING"
    <3>1. muted.channel # k
      BY <1>a, <2>3 DEF ListenersOn, Dials, None
    <3>2. /\ pool'.channel = None /\ pool'.timer = TRUE
          /\ \/ pool.timer = TRUE /\ pool'.state = pool.state
             \/ pool'.state = "RECONNECTING"
      BY <1>a, <2>1, <3>1, AfterChannelEnd DEF Fields
    <3>3. QED
      BY <1>a, <2>3, <3>2 DEF NoTimerWhileConnecting
  <2>4. QED
    BY <1>b, <2>1, <2>2, <2>3
<1>13. ASSUME OnDestroy PROVE Rest'
  <2> DEFINE p == beginClose(pool)
  <2>1. p \in Fields /\ conn \in [Dials -> Life]
    BY <1>a DEF beginClose, Fields, PoolState, TypeOK
  <2>2. /\ initialized /\ UNCHANGED dial
        /\ \/ closer' = [at |-> "closingChan", target |-> p.channel]
           \/ CloseFinished(p, conn, "ERROR")
           \/ CloseConnection(p, conn)
    BY <1>13 DEF OnDestroy
  <2>3. dial[1] # "idle"
    BY <1>a, <2>2 DEF Untouched
  <2> HIDE DEF p
  <2>4. closer'.at # "idle"
    BY <1>a, <2>1, <2>2, CloseFinishedType, CloseConnectionType
  <2>5. QED
    BY <1>c, <2>2, <2>3, <2>4
<1>14. ASSUME CloseChannelClosed PROVE Rest'
  <2> DEFINE q == afterChannelEnd(pool, closer.target)
             p == [q EXCEPT !.channel = None]
  <2>1. q \in Fields /\ conn \in [Dials -> Life]
    BY <1>a, AfterChannelEnd DEF TypeOK
  <2>2. /\ UNCHANGED dial /\ closer.at = "closingChan"
        /\ CloseConnection(p, conn)
    BY <1>14 DEF CloseChannelClosed
  <2>3. p \in Fields
    <3> HIDE DEF q
    <3> QED BY <2>1 DEF Fields
  <2>4. dial[1] # "idle"
    BY <1>a, <2>2 DEF Untouched
  <2> HIDE DEF p
  <2>5. closer'.at # "idle"
    BY <1>a, <2>1, <2>2, <2>3, CloseConnectionType
  <2>6. QED
    BY <1>c, <2>2, <2>4, <2>5
<1>15. ASSUME CloseConnectionClosed PROVE Rest'
  <2>1. /\ UNCHANGED dial /\ closer.at = "closingConn"
        /\ closer' = [at |-> "CLOSED", target |-> None]
    BY <1>15 DEF CloseConnectionClosed
  <2>2. dial[1] # "idle"
    BY <1>a, <2>1 DEF Untouched
  <2>3. QED
    BY <1>c, <2>1, <2>2
<1>16. ASSUME UNCHANGED vars PROVE Rest'
  <2>1. UNCHANGED <<pool, intervals, conn, chan, dial, target, closer, muted,
                    initialized>>
    BY <1>16 DEF vars
  <2>2. InFlight' = InFlight
    BY <2>1 DEF InFlight, Hung
  <2>3. ListenersOn' /\ Untouched' /\ NoTimerWhileConnecting'
    BY <1>a, <2>1 DEF ListenersOn, Untouched, NoTimerWhileConnecting
  <2>4. NoDeadChannel' /\ StateTellsTruth'
    BY <1>a, <2>1, <2>2 DEF NoDeadChannel, StateTellsTruth
  <2>5. QED
    BY <2>3, <2>4
<1>17. Rest'
  <2>1. ASSUME NEW k \in Dials, ChannelLost(k) PROVE Rest'
    BY <1>a, <1>12, <2>1, LostEnds
  <2>2. CASE Next
    <3> HIDE DEF Rest
    <3>1. QED
      BY <1>1, <1>2, <1>3, <1>4, <1>6, <1>7, <1>8, <1>9, <1>10, <1>11,
         <1>13, <1>14, <1>15, <2>1, <2>2 DEF Next, DialStep
  <2>3. QED
    BY <1>12, <1>16, <2>2 DEF PoolMoves
<1>18. QED
  BY <1>a, <1>17 DEF PoolInv

\* PoolInv holds in every behaviour.
LEMMA InvInit == Init => PoolInv
<1> SUFFICES ASSUME Init PROVE PoolInv
  OBVIOUS
<1>1. TypeOK
  BY PoolTypeInit
<1>2. ListenersOn /\ Untouched /\ NoTimerWhileConnecting
  BY DEF Init, ListenersOn, Untouched, NoTimerWhileConnecting
<1>3. NoDeadChannel /\ StateTellsTruth
  <2>1. 1 \in Dials
    BY PoolAssumption DEF Dials
  <2>2. QED
    BY <2>1 DEF Init, NoDeadChannel, StateTellsTruth
<1>4. QED
  BY <1>1, <1>2, <1>3 DEF PoolInv

LEMMA PoolInvariant == Spec => []PoolInv
<1>1. PoolInv /\ [Next]_vars => PoolInv'
  BY InvStep DEF PoolMoves
<1>2. QED
  BY <1>1, InvInit, PTL DEF Spec

\* A channel that has died is never handed out by getChannel(), however many
\* connections and channels die and however the deaths interleave with dials,
\* cleanups and health checks, as long as close() was not called.
THEOREM PoolNoDeadChannel == Spec => []NoDeadChannel
<1>1. PoolInv => NoDeadChannel
  BY DEF PoolInv
<1>2. QED
  BY <1>1, PoolInvariant, PTL

\* A pool that shows RECONNECTING, DISCONNECTED or ERROR after its start has
\* a timer, and one that shows CONNECTING has a dial whose answer will come.
THEOREM PoolStateTellsTruth == Spec => []StateTellsTruth
<1>1. PoolInv => StateTellsTruth
  BY DEF PoolInv
<1>2. QED
  BY <1>1, PoolInvariant, PTL
-----------------------------------------------------------------------------
(* One connection at a time.  When a channel ends only with its connection *)
(* and no health check runs, the pool never races with itself: a timer      *)
(* runs only when nothing is open and no dial is under way, a dial begins   *)
(* only when nothing is open, and what is open is what the pool holds.      *)

Dialing == {"dialing", "opening"}

OneConnection ==
  /\ intervals = 0
  /\ \A j, k \in Dials : conn[j] \in Alive /\ conn[k] \in Alive => j = k
  /\ \A k \in Dials : conn[k] \in Alive => pool.connection = k
  /\ \A k \in Dials : chan[k] \in Alive => conn[k] \in Alive
  /\ \A k \in Dials : closer.at = "idle" /\ chan[k] \in Alive => pool.channel = k
  /\ pool.channel # None => dial[pool.channel] = "connected"

OneDial ==
  /\ \A k \in Dials : dial[k] \in Dialing \cup {"idle"} => chan[k] = "unused"
  /\ \A j, k \in Dials : dial[j] \in Dialing /\ dial[k] \in Dialing => j = k
  /\ \A j, k \in Dials : dial[j] = "dialing" => conn[k] \notin Alive
  /\ \A j, k \in Dials : dial[j] = "opening" /\ conn[k] \in Alive => j = k
  /\ \A k \in Dials : dial[k] = "opening" => conn[k] # "unused"
  /\ \A k \in Dials : dial[k] # "closingChan"
  /\ \A k \in Dials : dial[k] = "closingConn" =>
       target[k] = k /\ conn[k] \in {"closing", "dead"}

\* Fields of which the state CONNECTED is not what a timer found.
Sane(p) == p.timer => p.state # "CONNECTED"

TimerIsAlone ==
  /\ Sane(pool)
  /\ pool.timer => \A k \in Dials : conn[k] \notin Alive /\ dial[k] # "dialing"

\* Until close() is called the state is one of a pool in use.
InUse ==
  closer.at = "idle" =>
    /\ pool.state = "CONNECTED" => pool.channel # None
    /\ pool.state \notin {"CLOSING", "CLOSED"}

\* A close() that overtook no dial has muted whatever is still open.
Calm ==
  /\ closer.at = "closingChan" => muted.channel = closer.target
  /\ closer.at = "closingConn" => closer.target # None
  /\ closer.at # "idle" /\ overtaken = {} =>
       /\ ~pool.timer
       /\ \A k \in Dials :
            /\ dial[k] \notin Dialing
            /\ dial[k] = "closingConn" => conn[k] = "dead"
            /\ conn[k] \in Alive => muted.connection = k
            /\ chan[k] \in Alive => muted.channel = k
            /\ closer.at = "CLOSED" => conn[k] \notin Alive

Steady    == OneConnection /\ OneDial /\ TimerIsAlone /\ InUse /\ Calm
SteadyInv == PoolInv /\ Steady

\* The handlers leave the connection alone, and the fields sane.
LEMMA HandlersSane ==
  ASSUME NEW p \in Fields, Sane(p)
  PROVE  /\ scheduleReconnect(p) \in Fields /\ Sane(scheduleReconnect(p))
         /\ scheduleReconnect(p).connection = p.connection
         /\ scheduleReconnect(p).channel = p.channel
         /\ onChannelClose(p) \in Fields /\ Sane(onChannelClose(p))
         /\ onChannelClose(p).connection = p.connection
         /\ onChannelClose(p).channel = None
         /\ onConnectionClose(p) \in Fields /\ Sane(onConnectionClose(p))
         /\ onConnectionClose(p).connection = p.connection
         /\ onConnectionClose(p).channel = p.channel
         /\ onConnectionClose(p).state \in {"DISCONNECTED", "RECONNECTING"}
<1> DEFINE c == [p EXCEPT !.channel = None]
           d == [p EXCEPT !.state = "DISCONNECTED"]
<1>1. /\ c \in Fields /\ c.timer = p.timer /\ c.state = p.state
      /\ c.connection = p.connection /\ c.channel = None
  BY DEF Fields
<1>2. /\ d \in Fields /\ d.timer = p.timer /\ d.state = "DISCONNECTED"
      /\ d.connection = p.connection /\ d.channel = p.channel
  BY DEF Fields, PoolState
<1>3. onChannelClose(p) = scheduleReconnect(c) /\ onConnectionClose(p) = scheduleReconnect(d)
  BY DEF onChannelClose, onConnectionClose
<1> HIDE DEF c, d
<1>4. ASSUME NEW q \in Fields, Sane(q)
      PROVE  /\ scheduleReconnect(q) \in Fields /\ Sane(scheduleReconnect(q))
             /\ scheduleReconnect(q).connection = q.connection
             /\ scheduleReconnect(q).channel = q.channel
             /\ scheduleReconnect(q).state \in {q.state, "RECONNECTING"}
  BY <1>4, ScheduleReconnect DEF Sane
<1>5. Sane(c) /\ Sane(d)
  BY <1>1, <1>2 DEF Sane
<1> QED
  BY <1>1, <1>2, <1>3, <1>4, <1>5

\* The end of a connection, as the pool takes it: if close() has muted both
\* the connection and its channel, not at all.
LEMMA LossSane ==
  ASSUME NEW p \in Fields, Sane(p), NEW k, NEW byError \in BOOLEAN
  PROVE  LET q == afterConnectionEnd(p, k, byError)
         IN  /\ q \in Fields /\ Sane(q)
             /\ q.connection = p.connection
             /\ q.channel \in {p.channel, None}
             /\ muted.connection # k => q.state # "CONNECTED"
             /\ muted.connection # k => q.state \in {"DISCONNECTED", "RECONNECTING"}
             /\ muted.connection = k /\ (chan[k] \in Alive => muted.channel = k) => q = p
<1> DEFINE p1 == IF muted.connection # k /\ byError THEN scheduleReconnect(p) ELSE p
           p2 == IF chan[k] \in Alive THEN afterChannelEnd(p1, k) ELSE p1
<1>1. p1 \in Fields /\ Sane(p1) /\ p1.connection = p.connection /\ p1.channel = p.channel
  BY HandlersSane
<1>2. afterChannelEnd(p1, k) = IF muted.channel = k THEN p1 ELSE onChannelClose(p1)
  BY DEF afterChannelEnd
<1>3. p2 \in Fields /\ Sane(p2) /\ p2.connection = p.connection /\ p2.channel \in {p.channel, None}
  <2> HIDE DEF p1
  <2> QED
    BY <1>1, <1>2, HandlersSane
<1>4. afterConnectionEnd(p, k, byError)
        = IF muted.connection # k THEN onConnectionClose(p2) ELSE p2
  BY DEF afterConnectionEnd
<1>5. muted.connection = k /\ (chan[k] \in Alive => muted.channel = k) => p2 = p
  BY <1>2
<1> HIDE DEF p1, p2
<1> QED
  BY <1>3, <1>4, <1>5, HandlersSane

\* A failed connect() forgets its connection.
LEMMA FailedSane ==
  ASSUME NEW p \in Fields
  PROVE  /\ Sane(connectFailed(p)) /\ connectFailed(p).connection = None
         /\ connectFailed(p).channel = p.channel /\ connectFailed(p).timer = TRUE
         /\ connectFailed(p).state \in {"ERROR", "RECONNECTING"}
<1> DEFINE q == [p EXCEPT !.connection = None, !.state = "ERROR"]
<1>1. q \in Fields /\ Sane(q) /\ q.connection = None
  BY DEF Fields, PoolState, Sane
<1>2. connectFailed(p) = scheduleReconnect(q)
  BY DEF connectFailed
<1> HIDE DEF q
<1> QED
  BY <1>1, <1>2, HandlersSane, ConnectFailed

\* cleanup() closes the connection that the failed dial has opened, or has
\* nothing to close.
LEMMA SteadyCleanup ==
  ASSUME SteadyInv, NEW k \in Dials, dial[k] \in Dialing, conn[k] # "closing",
         Cleanup(pool, k)
  PROVE  /\ chan' = chan /\ pool'.channel = None
         /\ \/ /\ conn[k] = "open" /\ dial[k] = "opening"
               /\ conn' = [conn EXCEPT ![k] = "closing"]
               /\ dial' = [dial EXCEPT ![k] = "closingConn"]
               /\ target' = [target EXCEPT ![k] = k]
               /\ pool'.state = pool.state /\ pool'.timer = pool.timer
               /\ pool'.connection = k
            \/ /\ \A j \in Dials : conn[j] \notin Alive
               /\ conn' = conn /\ target' = target
               /\ dial' = [dial EXCEPT ![k] = "failed"]
               /\ pool'.timer = TRUE /\ pool'.state \in {"ERROR", "RECONNECTING"}
<1> DEFINE p == [pool EXCEPT !.channel = None]
<1>1. TypeOK /\ pool \in Fields /\ OneConnection /\ OneDial
  BY DEF SteadyInv, PoolInv, Steady, TypeOK
<1>2. \A j \in Dials : conn[j] \in Alive => j = k /\ conn[k] = "open" /\ dial[k] = "opening"
                                              /\ pool.connection = k
  BY <1>1 DEF OneConnection, OneDial, Dialing, Alive
<1>3. \A j \in Dials : chan[j] # "open"
  BY <1>1, <1>2 DEF OneConnection, OneDial, Alive
<1>4. CleanupConnection(p, k, conn) /\ chan' = chan
  BY <1>1, <1>3 DEF Cleanup, Fields
<1>5. /\ p \in Fields /\ p.channel = None /\ p.state = pool.state
      /\ p.timer = pool.timer /\ p.connection = pool.connection
  BY <1>1 DEF Fields
<1> HIDE DEF p
<1>6. CASE conn[k] = "open"
  <2>1. p.connection = k /\ k # None /\ dial[k] = "opening"
    BY <1>2, <1>5, <1>6 DEF Alive, Dials, None
  <2> QED
    BY <1>4, <1>5, <1>6, <2>1 DEF CleanupConnection
<1>7. CASE conn[k] # "open"
  <2>1. \A j \in Dials : conn[j] \notin Alive
    BY <1>2, <1>7
  <2>2. ~(p.connection # None /\ conn[p.connection] = "open")
    BY <1>5, <2>1 DEF Fields, Alive
  <2> QED
    BY <1>4, <1>5, <2>1, <2>2, ConnectFailed DEF CleanupConnection
<1> QED
  BY <1>6, <1>7

\* What suffices for a step that leaves close() alone.
LEMMA SteadyFrame ==
  ASSUME SteadyInv, UNCHANGED <<intervals, closer, muted, overtaken>>,
         OneConnection', OneDial', TimerIsAlone', InUse',
         closer.at # "idle" /\ overtaken = {} =>
           /\ pool'.timer = pool.timer /\ dial' = dial
           /\ \A k \in Dials : /\ conn'[k] \in {conn[k], "dead"}
                               /\ chan'[k] \in {chan[k], "dead"}
  PROVE  Steady'
<1>1. Calm
  BY DEF SteadyInv, Steady
<1>2. Calm'
  BY <1>1 DEF Calm, Alive
<1> QED
  BY <1>2 DEF Steady

\* The start of a dial: by a timer, or by the first call.
LEMMA SteadyStart ==
  ASSUME SteadyInv, TypeOK', NEW k \in Dials, dial[k] = "idle",
         dial' = [dial EXCEPT ![k] = "dialing"],
         pool' = [pool EXCEPT !.timer = FALSE, !.state = "CONNECTING"],
         \A j \in Dials : dial[j] \notin Dialing /\ conn[j] \notin Alive,
         closer.at = "idle" \/ pool.timer,
         UNCHANGED <<intervals, conn, chan, target, closer, muted, overtaken>>
  PROVE  Steady'
<1>1. TypeOK /\ OneConnection /\ OneDial /\ InUse /\ Calm
  BY DEF SteadyInv, PoolInv, Steady
<1>2. /\ pool'.timer = FALSE /\ pool'.state = "CONNECTING"
      /\ pool'.connection = pool.connection /\ pool'.channel = pool.channel
  BY <1>1 DEF TypeOK, Fields
<1>3. dial'[k] = "dialing" /\ \A j \in Dials \ {k} : dial'[j] = dial[j]
  BY <1>1 DEF TypeOK
<1>4. OneConnection'
  BY <1>1, <1>2, <1>3 DEF OneConnection, TypeOK, Fields
<1>5. OneDial'
  BY <1>1, <1>3 DEF OneDial, Dialing
<1>6. TimerIsAlone' /\ InUse'
  BY <1>2 DEF TimerIsAlone, Sane, InUse
<1>7. closer.at = "idle" \/ overtaken # {}
  BY <1>1 DEF Calm
<1> QED
  BY <1>4, <1>5, <1>6, <1>7, SteadyFrame

\* The end of a dial that failed.
LEMMA SteadyFail ==
  ASSUME SteadyInv, TypeOK', NEW k \in Dials, dial[k] \in Dialing, conn[k] # "closing",
         Cleanup(pool, k), UNCHANGED <<intervals, closer, muted, overtaken>>
  PROVE  Steady'
<1>1. TypeOK /\ OneConnection /\ OneDial /\ TimerIsAlone /\ InUse /\ Calm /\ NoDeadChannel
  BY DEF SteadyInv, PoolInv, Steady
<1>2. closer.at # "idle" => overtaken # {}
  BY <1>1 DEF Calm
<1>3. closer.at = "idle" => pool.state # "CONNECTED"
  <2> SUFFICES ASSUME closer.at = "idle", pool.state = "CONNECTED"
               PROVE  FALSE
    OBVIOUS
  <2>1. pool.channel # None /\ pool.channel \in Dials /\ chan[pool.channel] \in Alive
    BY <1>1 DEF InUse, NoDeadChannel, TypeOK, Fields
  <2>2. conn[pool.channel] \in Alive /\ chan[pool.channel] # "unused"
    BY <1>1, <2>1 DEF OneConnection, Alive
  <2>3. dial[k] = "opening" /\ pool.channel = k
    BY <1>1, <2>1, <2>2 DEF OneDial, Dialing
  <2> QED
    BY <1>1, <2>2, <2>3 DEF OneDial, Dialing
<1>4. CASE /\ conn[k] = "open" /\ dial[k] = "opening" /\ chan' = chan
           /\ conn' = [conn EXCEPT ![k] = "closing"]
           /\ dial' = [dial EXCEPT ![k] = "closingConn"]
           /\ target' = [target EXCEPT ![k] = k]
           /\ pool'.state = pool.state /\ pool'.timer = pool.timer
           /\ pool'.connection = k /\ pool'.channel = None
  <2>1. /\ conn'[k] = "closing" /\ dial'[k] = "closingConn" /\ target'[k] = k
        /\ \A j \in Dials \ {k} : /\ conn'[j] = conn[j] /\ dial'[j] = dial[j]
                                  /\ target'[j] = target[j]
    BY <1>1, <1>4 DEF TypeOK
  <2>2. \A j \in Dials : conn[j] \in Alive => j = k
    BY <1>1, <1>4 DEF OneDial
  <2>3. \A j \in Dials : chan[j] \notin Alive
    BY <1>1, <1>4, <2>2 DEF OneConnection, OneDial, Dialing, Alive
  <2>4. OneConnection'
    BY <1>1, <1>4, <2>1, <2>2, <2>3 DEF OneConnection
  <2>5. OneDial'
    BY <1>1, <1>4, <2>1, <2>2 DEF OneDial, Dialing
  <2>6. pool.timer = FALSE
    BY <1>1, <1>4 DEF TimerIsAlone, Alive, TypeOK, Fields
  <2>7. TimerIsAlone' /\ InUse'
    BY <1>1, <1>3, <1>4, <2>6 DEF TimerIsAlone, Sane, InUse
  <2> QED
    BY <1>2, <2>4, <2>5, <2>7, SteadyFrame
<1>5. CASE /\ \A j \in Dials : conn[j] \notin Alive
           /\ conn' = conn /\ target' = target /\ chan' = chan /\ pool'.channel = None
           /\ dial' = [dial EXCEPT ![k] = "failed"]
           /\ pool'.timer = TRUE /\ pool'.state \in {"ERROR", "RECONNECTING"}
  <2>1. dial'[k] = "failed" /\ \A j \in Dials \ {k} : dial'[j] = dial[j]
    BY <1>1, <1>5 DEF TypeOK
  <2>2. OneConnection'
    BY <1>1, <1>5 DEF OneConnection
  <2>3. OneDial'
    BY <1>1, <1>5, <2>1 DEF OneDial, Dialing
  <2>4. \A j \in Dials : dial'[j] # "dialing"
    BY <1>1, <2>1 DEF OneDial, Dialing
  <2>5. TimerIsAlone' /\ InUse'
    BY <1>5, <2>4 DEF TimerIsAlone, Sane, InUse
  <2> QED
    BY <1>2, <2>2, <2>3, <2>5, SteadyFrame
<1> QED
  BY <1>4, <1>5, SteadyCleanup

\* The end of the connection k, which is the one the pool holds.
LEMMA SteadyEnd ==
  ASSUME SteadyInv, NEW k \in Dials, conn[k] \in Alive, EndConnection(k)
  PROVE  /\ \A j \in Dials : conn'[j] \notin Alive /\ chan'[j] \notin Alive
         /\ \A j \in Dials : dial[j] # "dialing"
         /\ \A j \in Dials : /\ conn'[j] \in {conn[j], "dead"} /\ chan'[j] \in {chan[j], "dead"}
                             /\ chan[j] = "unused" => chan'[j] = "unused"
                             /\ conn[j] # "unused" => conn'[j] # "unused"
         /\ closer.at # "idle" /\ overtaken = {} =>
              muted.connection = k /\ (chan[k] \in Alive => muted.channel = k)
<1>1. TypeOK /\ OneConnection /\ OneDial /\ Calm
  BY DEF SteadyInv, PoolInv, Steady
<1>2. \A j \in Dials : conn[j] \in Alive => j = k
  BY <1>1 DEF OneConnection
<1>3. \A j \in Dials : chan[j] \in Alive => j = k
  BY <1>1, <1>2 DEF OneConnection
<1>4. /\ conn'[k] = "dead" /\ chan'[k] \notin Alive
      /\ chan'[k] \in {chan[k], "dead"} /\ (chan[k] = "unused" => chan'[k] = "unused")
      /\ \A j \in Dials \ {k} : conn'[j] = conn[j] /\ chan'[j] = chan[j]
  BY <1>1 DEF EndConnection, TypeOK, Alive
<1>5. \A j \in Dials : dial[j] # "dialing"
  BY <1>1 DEF OneDial
<1>6. closer.at # "idle" /\ overtaken = {} =>
        muted.connection = k /\ (chan[k] \in Alive => muted.channel = k)
  BY <1>1 DEF Calm
<1> QED
  BY <1>2, <1>3, <1>4, <1>5, <1>6 DEF Alive

\* What the second half of close() leaves of the fields and connections.
LEMMA SteadyClosing ==
  ASSUME TypeOK, NEW p \in Fields, CloseConnection(p, conn)
  PROVE  /\ pool' \in Fields /\ pool'.timer = p.timer
         /\ pool'.connection = p.connection /\ pool'.channel = p.channel
         /\ pool'.state \in {p.state, "CLOSED", "ERROR"}
         /\ \A j \in Dials : \/ conn'[j] = conn[j]
                             \/ conn[j] = "open" /\ conn'[j] = "closing"
         /\ closer'.at \in {"closingConn", "CLOSED", "ERROR"}
         /\ closer'.at = "closingConn" => closer'.target # None
         /\ closer'.at = "CLOSED" => p.connection = None
<1>1. CASE p.connection = None \/ (p.connection # None /\ conn[p.connection] # "open")
  <2>1. PICK state \in {"CLOSED", "ERROR"} :
          /\ pool' = [p EXCEPT !.state = state]
          /\ conn' = conn /\ closer' = [at |-> state, target |-> None]
          /\ state = "CLOSED" => p.connection = None
    BY <1>1 DEF CloseConnection, CloseFinished
  <2> QED
    BY <2>1 DEF Fields, PoolState
<1>2. CASE p.connection # None /\ conn[p.connection] = "open"
  <2>1. /\ pool' = p /\ conn' = [conn EXCEPT ![p.connection] = "closing"]
        /\ closer' = [at |-> "closingConn", target |-> p.connection]
    BY <1>2 DEF CloseConnection
  <2>2. p.connection \in Dials
    BY <1>2 DEF Fields
  <2> QED
    BY <1>2, <2>1, <2>2 DEF TypeOK
<1> QED
  BY <1>1, <1>2

LEMMA SteadyDestroy ==
  ASSUME SteadyInv, OnDestroy
  PROVE  Steady'
<1>1. /\ TypeOK /\ OneConnection /\ OneDial /\ TimerIsAlone /\ InUse
      /\ pool \in Fields /\ conn \in [Dials -> Life] /\ chan \in [Dials -> Life]
  BY DEF SteadyInv, PoolInv, Steady, TypeOK
<1>2. /\ closer.at = "idle" /\ dial' = dial /\ target' = target /\ overtaken' = InFlight
      /\ intervals' = clearHealthTimer(intervals)
      /\ muted'.connection = pool.connection /\ muted'.channel = pool.channel
  BY DEF OnDestroy
<1>3. intervals' = 0
  BY <1>1, <1>2 DEF OneConnection, clearHealthTimer
<1> DEFINE p == beginClose(pool)
<1>4. /\ p \in Fields /\ p.timer = FALSE /\ p.state = "CLOSING"
      /\ p.connection = pool.connection /\ p.channel = pool.channel
  BY <1>1 DEF beginClose, Fields, PoolState
<1>5. \/ /\ pool' = p /\ chan' = [chan EXCEPT ![p.channel] = "closing"]
         /\ p.channel # None /\ chan[p.channel] = "open" /\ conn' = conn
         /\ closer' = [at |-> "closingChan", target |-> p.channel]
      \/ CloseFinished(p, conn, "ERROR") /\ chan' = chan
      \/ CloseConnection(p, conn) /\ chan' = chan
  BY DEF OnDestroy
<1> HIDE DEF p
<1>6. /\ pool'.timer = FALSE /\ pool'.connection = pool.connection
      /\ pool'.channel = pool.channel
      /\ \A j \in Dials : \/ conn'[j] = conn[j]
                          \/ conn[j] = "open" /\ conn'[j] = "closing"
      /\ \A j \in Dials : \/ chan'[j] = chan[j]
                          \/ chan[j] = "open" /\ chan'[j] = "closing"
      /\ closer'.at # "idle"
      /\ closer'.at = "closingChan" => closer'.target = pool.channel
      /\ closer'.at = "closingConn" => closer'.target # None
      /\ closer'.at = "CLOSED" => pool.connection = None
  <2>1. CASE /\ pool' = p /\ chan' = [chan EXCEPT ![p.channel] = "closing"]
             /\ p.channel # None /\ chan[p.channel] = "open" /\ conn' = conn
             /\ closer' = [at |-> "closingChan", target |-> p.channel]
    BY <1>1, <1>4, <2>1 DEF Fields
  <2>2. CASE CloseFinished(p, conn, "ERROR") /\ chan' = chan
    BY <1>4, <2>2 DEF CloseFinished, Fields, PoolState
  <2>3. CASE CloseConnection(p, conn) /\ chan' = chan
    BY <1>1, <1>4, <2>3, SteadyClosing
  <2> QED
    BY <1>5, <2>1, <2>2, <2>3
<1>7. OneConnection'
  BY <1>1, <1>2, <1>3, <1>6 DEF OneConnection, Alive
<1>8. OneDial'
  BY <1>1, <1>2, <1>6 DEF OneDial, Dialing, Alive
<1>9. TimerIsAlone' /\ InUse'
  BY <1>6 DEF TimerIsAlone, Sane, InUse
<1>10. Calm'
  <2> SUFFICES ASSUME overtaken' = {}, NEW k \in Dials
               PROVE  /\ dial'[k] \notin Dialing
                      /\ dial'[k] = "closingConn" => conn'[k] = "dead"
                      /\ conn'[k] \in Alive => muted'.connection = k
                      /\ chan'[k] \in Alive => muted'.channel = k
                      /\ closer'.at = "CLOSED" => conn'[k] \notin Alive
    BY <1>2, <1>6 DEF Calm
  <2>1. dial[k] \in Unfinished => Hung(k)
    BY <1>2 DEF InFlight
  <2>2. dial[k] \notin Dialing /\ (dial[k] = "closingConn" => conn[k] = "dead")
    BY <1>1, <2>1 DEF Hung, Unfinished, Dialing, OneDial
  <2>3. conn[k] \in Alive => pool.connection = k /\ k # None
    BY <1>1 DEF OneConnection, Dials, None
  <2>4. chan[k] \in Alive => pool.channel = k
    BY <1>1, <1>2 DEF OneConnection
  <2> QED
    BY <1>2, <1>6, <2>2, <2>3, <2>4 DEF Alive
<1> QED
  BY <1>7, <1>8, <1>9, <1>10 DEF Steady

LEMMA SteadyChannelClosed ==
  ASSUME SteadyInv, CloseChannelClosed
  PROVE  Steady'
<1> DEFINE p == [pool EXCEPT !.channel = None]
<1>1. TypeOK /\ OneConnection /\ OneDial /\ TimerIsAlone /\ Calm /\ pool \in Fields
  BY DEF SteadyInv, PoolInv, Steady, TypeOK
<1>2. /\ closer.at = "closingChan" /\ UNCHANGED <<intervals, dial, target, muted, overtaken>>
      /\ chan' = [chan EXCEPT ![closer.target] = "dead"]
      /\ CloseConnection([afterChannelEnd(pool, closer.target) EXCEPT !.channel = None], conn)
  BY DEF CloseChannelClosed
<1>3. afterChannelEnd(pool, closer.target) = pool
  BY <1>1, <1>2 DEF Calm, afterChannelEnd
<1>4. /\ p \in Fields /\ p.timer = pool.timer /\ p.state = pool.state
      /\ p.connection = pool.connection /\ p.channel = None
  BY <1>1 DEF Fields
<1>5. CloseConnection(p, conn)
  BY <1>2, <1>3
<1> HIDE DEF p
<1>6. /\ pool'.timer = pool.timer /\ pool'.connection = pool.connection
      /\ pool'.channel = None /\ pool'.state \in {pool.state, "CLOSED", "ERROR"}
      /\ \A j \in Dials : \/ conn'[j] = conn[j]
                          \/ conn[j] = "open" /\ conn'[j] = "closing"
      /\ closer'.at \in {"closingConn", "CLOSED", "ERROR"}
      /\ closer'.at = "closingConn" => closer'.target # None
      /\ closer'.at = "CLOSED" => pool.connection = None
  BY <1>1, <1>4, <1>5, SteadyClosing
<1>7. \A j \in Dials : chan'[j] = chan[j] \/ (j = closer.target /\ chan'[j] = "dead")
  BY <1>1, <1>2 DEF TypeOK
<1>8. \A j \in Dials : chan[j] = "unused" => chan'[j] = "unused"
  <2>1. chan[closer.target] = "closing"
    BY DEF CloseChannelClosed
  <2> QED
    BY <1>7, <2>1
<1>9. OneConnection'
  BY <1>1, <1>2, <1>6, <1>7 DEF OneConnection, Alive
<1>10. OneDial'
  BY <1>1, <1>2, <1>6, <1>8 DEF OneDial, Dialing, Alive
<1>11. TimerIsAlone' /\ InUse'
  BY <1>1, <1>2, <1>6 DEF TimerIsAlone, Sane, InUse, Alive
<1>12. Calm'
  <2>1. \A j \in Dials : conn[j] \in Alive => pool.connection = j /\ j # None
    BY <1>1 DEF OneConnection, Dials, None
  <2> QED
    BY <1>1, <1>2, <1>6, <1>7, <2>1 DEF Calm, Alive
<1> QED
  BY <1>9, <1>10, <1>11, <1>12 DEF Steady

LEMMA SteadyConnectionClosed ==
  ASSUME SteadyInv, CloseConnectionClosed
  PROVE  Steady'
<1> DEFINE k == closer.target
           q == afterConnectionEnd(pool, k, FALSE)
<1>1. TypeOK /\ OneConnection /\ OneDial /\ TimerIsAlone /\ Calm /\ pool \in Fields
  BY DEF SteadyInv, PoolInv, Steady, TypeOK
<1>2. /\ closer.at = "closingConn" /\ UNCHANGED <<intervals, dial, target, muted, overtaken>>
      /\ conn[k] = "closing" /\ EndConnection(k)
      /\ pool' = [q EXCEPT !.connection = None, !.state = "CLOSED"]
      /\ closer' = [at |-> "CLOSED", target |-> None]
  BY DEF CloseConnectionClosed
<1>3. k \in Dials /\ conn[k] \in Alive
  BY <1>1, <1>2 DEF Calm, TypeOK, Alive
<1>4. /\ \A j \in Dials : conn'[j] \notin Alive /\ chan'[j] \notin Alive
      /\ \A j \in Dials : dial[j] # "dialing"
      /\ \A j \in Dials : /\ conn'[j] \in {conn[j], "dead"} /\ chan'[j] \in {chan[j], "dead"}
                          /\ chan[j] = "unused" => chan'[j] = "unused"
                          /\ conn[j] # "unused" => conn'[j] # "unused"
      /\ closer.at # "idle" /\ overtaken = {} =>
           muted.connection = k /\ (chan[k] \in Alive => muted.channel = k)
  <2> HIDE DEF k
  <2> QED
    BY <1>2, <1>3, SteadyEnd
<1>5. /\ q \in Fields /\ q.channel \in {pool.channel, None}
      /\ closer.at # "idle" /\ overtaken = {} => q = pool
  BY <1>1, <1>4, LossSane DEF TimerIsAlone
<1> HIDE DEF q
<1>6. /\ pool'.channel = q.channel /\ pool'.timer = q.timer /\ pool'.state = "CLOSED"
  BY <1>2, <1>5 DEF Fields, PoolState
<1>7. OneConnection'
  BY <1>1, <1>2, <1>4, <1>5, <1>6 DEF OneConnection
<1>8. OneDial'
  BY <1>1, <1>2, <1>4 DEF OneDial, Dialing
<1>9. TimerIsAlone' /\ InUse'
  BY <1>2, <1>4, <1>6 DEF TimerIsAlone, Sane, InUse
<1>10. Calm'
  BY <1>1, <1>2, <1>4, <1>5, <1>6 DEF Calm
<1> QED
  BY <1>7, <1>8, <1>9, <1>10 DEF Steady

\* The pool of a service without health checks, on a broker that ends no
\* channel by itself.
SteadyPremise == ChannelFaults = FALSE /\ HealthCheck = FALSE

LEMMA SteadyStep ==
  ASSUME SteadyPremise, SteadyInv, [Next]_vars
  PROVE  SteadyInv'
<1>a. /\ PoolInv' /\ TypeOK' /\ TypeOK /\ OneConnection /\ OneDial /\ TimerIsAlone /\ InUse
      /\ Calm /\ Untouched /\ pool \in Fields /\ 1 \in Dials
  BY InvStep, PoolAssumption DEF SteadyInv, PoolInv, PoolMoves, Steady, TypeOK, Dials
<1>1. ASSUME OnInit PROVE Steady'
  <2>1. /\ \A k \in Dials : dial[k] = "idle"
        /\ StartDial(pool)
        /\ UNCHANGED <<intervals, conn, chan, target, closer, muted, overtaken>>
    BY <1>1 DEF OnInit
  <2>2. /\ pool.timer = FALSE /\ closer.at = "idle"
        /\ \A k \in Dials : conn[k] \notin Alive /\ dial[k] \notin Dialing
    BY <1>a, <2>1 DEF Untouched, Alive, Dialing
  <2>3. pool.channel = None
    BY <1>a, <2>1 DEF OneConnection, Fields
  <2>4. pool.state # "CONNECTED"
    BY <1>a, <2>2, <2>3 DEF InUse
  <2>5. PICK k \in Dials : dial' = [dial EXCEPT ![k] = "dialing"]
    BY <2>1, <2>4 DEF StartDial
  <2>6. pool' = [pool EXCEPT !.timer = FALSE, !.state = "CONNECTING"]
    BY <1>a, <2>1, <2>2, <2>4 DEF StartDial, Fields
  <2> QED
    BY <1>a, <2>1, <2>2, <2>5, <2>6, SteadyStart
<1>2. ASSUME TimerFires PROVE Steady'
  <2>1. /\ Settled /\ pool.timer /\ StartDial([pool EXCEPT !.timer = FALSE])
        /\ UNCHANGED <<intervals, conn, chan, target, closer, muted, overtaken>>
    BY <1>2 DEF TimerFires
  <2>2. /\ pool.state # "CONNECTED"
        /\ \A k \in Dials : conn[k] \notin Alive /\ dial[k] # "dialing"
    BY <1>a, <2>1 DEF TimerIsAlone, Sane
  <2>3. \A k \in Dials : dial[k] # "opening"
    BY <1>a, <2>1, <2>2 DEF Settled, OneDial, TypeOK, Life, Alive
  <2>4. [pool EXCEPT !.timer = FALSE].state = pool.state
    BY <1>a DEF Fields
  <2>5. PICK k \in Dials : dial[k] = "idle" /\ dial' = [dial EXCEPT ![k] = "dialing"]
    BY <2>1, <2>2, <2>4 DEF StartDial
  <2>6. pool' = [pool EXCEPT !.timer = FALSE, !.state = "CONNECTING"]
    BY <1>a, <2>1, <2>2, <2>4 DEF StartDial, Fields
  <2> QED
    BY <1>a, <2>1, <2>2, <2>3, <2>5, <2>6, SteadyStart DEF Dialing
<1>3. ASSUME HealthTick PROVE Steady'
  BY <1>a, <1>3 DEF HealthTick, OneConnection
<1>4. ASSUME NEW k \in Dials, DialOk(k) PROVE Steady'
  <2>1. /\ dial[k] = "dialing" /\ UNCHANGED <<intervals, chan, target, closer, muted, overtaken>>
        /\ dial' = [dial EXCEPT ![k] = "opening"] /\ conn' = [conn EXCEPT ![k] = "open"]
        /\ pool' = [pool EXCEPT !.connection = k]
    BY <1>4 DEF DialOk
  <2>2. /\ dial'[k] = "opening" /\ conn'[k] = "open"
        /\ \A j \in Dials \ {k} : dial'[j] = dial[j] /\ conn'[j] = conn[j]
    BY <1>a, <2>1 DEF TypeOK
  <2>3. /\ pool'.connection = k /\ pool'.channel = pool.channel
        /\ pool'.timer = pool.timer /\ pool'.state = pool.state
    BY <1>a, <2>1 DEF Fields
  <2>4. \A j \in Dials : conn[j] \notin Alive /\ chan[j] \notin Alive
    BY <1>a, <2>1 DEF OneDial, OneConnection
  <2>5. OneConnection'
    BY <1>a, <2>1, <2>2, <2>3, <2>4 DEF OneConnection, Fields
  <2>6. OneDial'
    BY <1>a, <2>1, <2>2, <2>4 DEF OneDial, Dialing
  <2>7. ~pool.timer
    BY <1>a, <2>1 DEF TimerIsAlone
  <2>8. TimerIsAlone' /\ InUse'
    BY <1>a, <2>1, <2>3, <2>7 DEF TimerIsAlone, Sane, InUse
  <2>9. closer.at = "idle" \/ overtaken # {}
    BY <1>a, <2>1 DEF Calm, Dialing
  <2> QED
    BY <2>1, <2>5, <2>6, <2>8, <2>9, SteadyFrame
<1>5. ASSUME NEW k \in Dials, DialFail(k) \/ OpenFail(k) PROVE Steady'
  <2>1. /\ dial[k] \in Dialing /\ Cleanup(pool, k)
        /\ UNCHANGED <<intervals, closer, muted, overtaken>>
    BY <1>5 DEF DialFail, OpenFail, Dialing
  <2>2. conn[k] # "closing"
    BY <1>a, <1>5 DEF DialFail, OpenFail, OneDial, Alive
  <2> QED
    BY <1>a, <2>1, <2>2, SteadyFail
<1>6. ASSUME NEW k \in Dials, OpenOk(k) PROVE Steady'
  <2>1. /\ dial[k] = "opening" /\ conn[k] = "open" /\ intervals' = intervals
        /\ UNCHANGED <<conn, target, closer, muted, overtaken>>
        /\ dial' = [dial EXCEPT ![k] = "connected"] /\ chan' = [chan EXCEPT ![k] = "open"]
        /\ pool' = [pool EXCEPT !.channel = k, !.state = "CONNECTED"]
    BY <1>6 DEF OpenOk, SteadyPremise
  <2>2. /\ dial'[k] = "connected" /\ chan'[k] = "open"
        /\ \A j \in Dials \ {k} : dial'[j] = dial[j] /\ chan'[j] = chan[j]
    BY <1>a, <2>1 DEF TypeOK
  <2>3. /\ pool'.connection = pool.connection /\ pool'.channel = k
        /\ pool'.timer = pool.timer /\ pool'.state = "CONNECTED"
    BY <1>a, <2>1 DEF Fields, PoolState
  <2>4. \A j \in Dials : (conn[j] \in Alive => j = k) /\ (chan[j] \in Alive => j = k)
    BY <1>a, <2>1 DEF OneDial, OneConnection
  <2>5. OneConnection'
    BY <1>a, <2>1, <2>2, <2>3, <2>4 DEF OneConnection, Alive
  <2>6. OneDial'
    BY <1>a, <2>1, <2>2 DEF OneDial, Dialing
  <2>7. ~pool.timer
    BY <1>a, <2>1 DEF TimerIsAlone, Alive
  <2>8. TimerIsAlone' /\ InUse'
    BY <2>3, <2>7 DEF TimerIsAlone, Sane, InUse, Dials, None
  <2>9. closer.at = "idle" \/ overtaken # {}
    BY <1>a, <2>1 DEF Calm, Dialing
  <2> QED
    BY <2>1, <2>5, <2>6, <2>8, <2>9, SteadyFrame
<1>7. ASSUME NEW k \in Dials, CleanupChannelClosed(k) PROVE Steady'
  BY <1>a, <1>7 DEF CleanupChannelClosed, OneDial
<1>8. ASSUME NEW k \in Dials, CleanupConnectionClosed(k) PROVE Steady'
  <2> DEFINE q == afterConnectionEnd(pool, k, FALSE)
  <2>1. /\ dial[k] = "closingConn" /\ target[k] = k
        /\ UNCHANGED <<intervals, target, closer, muted, overtaken>>
    BY <1>a, <1>8 DEF CleanupConnectionClosed, OneDial
  <2>2. /\ conn[k] = "closing" /\ EndConnection(k)
        /\ pool' = connectFailed(q) /\ dial' = [dial EXCEPT ![k] = "failed"]
    BY <1>8, <2>1 DEF CleanupConnectionClosed
  <2>3. q \in Fields /\ q.channel \in {pool.channel, None}
    BY <1>a, LossSane DEF TimerIsAlone
  <2> HIDE DEF q
  <2>4. /\ Sane(pool') /\ pool'.channel = q.channel /\ pool'.state \in {"ERROR", "RECONNECTING"}
    BY <2>2, <2>3, FailedSane
  <2>5. /\ \A j \in Dials : conn'[j] \notin Alive /\ chan'[j] \notin Alive
        /\ \A j \in Dials : dial[j] # "dialing"
        /\ \A j \in Dials : /\ conn'[j] \in {conn[j], "dead"}
                            /\ chan[j] = "unused" => chan'[j] = "unused"
                            /\ conn[j] # "unused" => conn'[j] # "unused"
    BY <2>2, SteadyEnd DEF SteadyInv, Alive
  <2>6. dial'[k] = "failed" /\ \A j \in Dials \ {k} : dial'[j] = dial[j]
    BY <1>a, <2>2 DEF TypeOK
  <2>7. OneConnection'
    <3>1. pool'.channel # None => pool.channel \in Dials \ {k} /\ pool'.channel = pool.channel
      BY <1>a, <2>1, <2>3, <2>4 DEF OneConnection, Fields
    <3> QED
      BY <1>a, <2>1, <2>5, <2>6, <3>1 DEF OneConnection
  <2>8. OneDial'
    BY <1>a, <2>1, <2>5, <2>6 DEF OneDial, Dialing
  <2>9. TimerIsAlone' /\ InUse'
    BY <2>4, <2>5, <2>6 DEF TimerIsAlone, InUse
  <2>10. closer.at = "idle" \/ overtaken # {}
    BY <1>a, <2>1, <2>2 DEF Calm
  <2> QED
    BY <2>1, <2>7, <2>8, <2>9, <2>10, SteadyFrame
<1>9. ASSUME NEW k \in Dials, ConnectionLost(k) PROVE Steady'
  <2>1. /\ conn[k] \in Alive /\ EndConnection(k)
        /\ UNCHANGED <<intervals, dial, target, closer, muted, overtaken>>
    BY <1>9 DEF ConnectionLost
  <2>2. PICK byError \in BOOLEAN : pool' = afterConnectionEnd(pool, k, byError)
    BY <1>9 DEF ConnectionLost
  <2>3. /\ \A j \in Dials : conn'[j] \notin Alive /\ chan'[j] \notin Alive
        /\ \A j \in Dials : dial[j] # "dialing"
        /\ \A j \in Dials : /\ conn'[j] \in {conn[j], "dead"} /\ chan'[j] \in {chan[j], "dead"}
                            /\ chan[j] = "unused" => chan'[j] = "unused"
                            /\ conn[j] # "unused" => conn'[j] # "unused"
        /\ closer.at # "idle" /\ overtaken = {} =>
             muted.connection = k /\ (chan[k] \in Alive => muted.channel = k)
    BY <2>1, SteadyEnd
  <2>4. /\ Sane(pool') /\ pool'.channel \in {pool.channel, None}
        /\ muted.connection # k => pool'.state \in {"DISCONNECTED", "RECONNECTING"}
        /\ closer.at # "idle" /\ overtaken = {} => pool' = pool
    BY <1>a, <2>2, <2>3, LossSane DEF TimerIsAlone
  <2>5. closer.at = "idle" => muted.connection # k
    BY DEF SteadyInv, PoolInv, ListenersOn, Dials, None
  <2>6. OneConnection'
    BY <1>a, <2>1, <2>3, <2>4 DEF OneConnection
  <2>7. OneDial'
    BY <1>a, <2>1, <2>3 DEF OneDial, Dialing
  <2>8. TimerIsAlone' /\ InUse'
    BY <2>1, <2>3, <2>4, <2>5 DEF TimerIsAlone, InUse
  <2> QED
    BY <2>1, <2>3, <2>4, <2>6, <2>7, <2>8, SteadyFrame
<1>10. ASSUME NEW k \in Dials, ChannelLost(k) PROVE Steady'
  BY <1>10 DEF ChannelLost, SteadyPremise
<1>11. ASSUME UNCHANGED vars PROVE Steady'
  <2>1. UNCHANGED <<pool, intervals, conn, chan, dial, target, closer, muted, overtaken>>
    BY <1>11 DEF vars
  <2>2. OneConnection' /\ OneDial'
    BY <1>a, <2>1 DEF OneConnection, OneDial
  <2>3. TimerIsAlone' /\ InUse'
    BY <1>a, <2>1 DEF TimerIsAlone, Sane, InUse
  <2>4. Calm'
    BY <1>a, <2>1 DEF Calm
  <2> QED
    BY <2>2, <2>3, <2>4 DEF Steady
<1>12. ASSUME NEW k \in Dials, DialStep(k) \/ ConnectionLost(k) \/ ChannelLost(k)
       PROVE  Steady'
  BY <1>4, <1>5, <1>6, <1>7, <1>8, <1>9, <1>10, <1>12 DEF DialStep
<1>13. ASSUME OnDestroy \/ CloseChannelClosed \/ CloseConnectionClosed
       PROVE  Steady'
  BY <1>13, SteadyDestroy, SteadyChannelClosed, SteadyConnectionClosed
<1>14. Steady'
  BY <1>1, <1>2, <1>3, <1>11, <1>12, <1>13 DEF Next
<1> QED
  BY <1>a, <1>14 DEF SteadyInv

LEMMA SteadyInit == Init => SteadyInv
<1> SUFFICES ASSUME Init PROVE SteadyInv
  OBVIOUS
<1>1. Steady
  BY DEF Init, Steady, OneConnection, OneDial, Dialing, TimerIsAlone, Sane, InUse, Calm, Alive
<1> QED
  BY <1>1, InvInit DEF SteadyInv

\* At most one of a set.
LEMMA AtMostOne ==
  ASSUME NEW S, \A x, y \in S : x = y
  PROVE  Cardinality(S) <= 1
<1>1. CASE S = {}
  BY <1>1, FS_EmptySet
<1>2. CASE S # {}
  <2>1. PICK x \in S : S = {x}
    BY <1>2
  <2> QED
    BY <2>1, FS_Singleton
<1> QED
  BY <1>1, <1>2

\* What the invariant says of the properties.
LEMMA SteadyImplies ==
  ASSUME SteadyInv
  PROVE  ConnectionReuse /\ NeverStranded /\ CalmCloseIsFinal
<1>1. /\ TypeOK /\ StateTellsTruth /\ OneConnection /\ OneDial /\ TimerIsAlone /\ InUse
      /\ Calm /\ pool \in Fields
  BY DEF SteadyInv, PoolInv, Steady, TypeOK
<1>2. ASSUME NEW k \in InFlight
      PROVE  /\ k \in Dials
             /\ dial[k] \in Dialing \/ (dial[k] = "closingConn" /\ conn[k] \in Alive)
  BY <1>1, <1>2 DEF InFlight, Unfinished, Hung, OneDial, Dialing, Alive
<1>3. \A j, k \in InFlight : j = k
  BY <1>1, <1>2 DEF OneDial, OneConnection, Dialing
<1>4. \A j, k \in LiveConnections : j = k
  BY <1>1 DEF OneConnection, LiveConnections
<1>5. ConnectionReuse
  BY <1>3, <1>4, AtMostOne DEF ConnectionReuse
<1>6. NeverStranded
  BY <1>1 DEF NeverStranded, StateTellsTruth, InUse, isConnected, Fields, PoolState
<1>7. CalmCloseIsFinal
  BY <1>1, <1>2 DEF CalmCloseIsFinal, Quiet, Calm, LiveConnections, Alive
<1> QED
  BY <1>5, <1>6, <1>7

LEMMA SteadyInvariant ==
  ASSUME SteadyPremise
  PROVE  Spec => []SteadyInv
<1>1. SteadyInv /\ [Next]_vars => SteadyInv'
  BY SteadyStep
<1> QED
  BY <1>1, SteadyInit, PTL DEF Spec

\* Without health checks, on a broker that ends no channel by itself, the pool
\* holds one connection at a time, never strands its users without a timer or
\* a dial, and a close() that overtook no dial is the end of it.
THEOREM PoolSteady ==
  ASSUME SteadyPremise
  PROVE  Spec => [](ConnectionReuse /\ NeverStranded /\ CalmCloseIsFinal)
<1>1. SteadyInv => ConnectionReuse /\ NeverStranded /\ CalmCloseIsFinal
  BY SteadyImplies
<1> QED
  BY <1>1, SteadyInvariant, PTL

-----------------------------------------------------------------------------
(* The consumer.                                                           *)

ConsumerInv == PoolInv /\ ConsumerTypeOK

-----------------------------------------------------------------------------
(* Deliveries. *)

\* A message is delivered once, or ready, or settled.
OnePlace == /\ unacked \subseteq Delivery /\ ready \subseteq Msgs
            /\ \A d, e \in unacked : d.m = e.m => d = e
            /\ \A d \in unacked : d.m \notin ready

\* Taking deliveries back into the queue, or out of the world.
LEMMA TakenBack ==
  ASSUME OnePlace, NEW D \in SUBSET unacked,
         unacked' = unacked \ D, ready' = ready \/ ready' = ready \cup {d.m : d \in D}
  PROVE  OnePlace'
<1>1. \A d \in D : d.m \in Msgs
  BY DEF OnePlace, Delivery
<1>2. ready' \subseteq Msgs
  BY <1>1 DEF OnePlace
<1>3. \A d \in unacked' : d.m \notin ready'
  BY DEF OnePlace
<1> QED
  BY <1>2, <1>3 DEF OnePlace

\* What ends with a channel.
LEMMA Followed ==
  ASSUME ConsumerTypeOK, BrokerFollows
  PROVE  OnePlace' /\ consumers' \subseteq Call
<1> DEFINE D == {d \in unacked : chan'[d.ch] \notin Alive}
<1>1. unacked' = unacked \ D /\ D = unacked \ unacked'
  BY DEF BrokerFollows
<1>2. ready' = ready \cup {d.m : d \in D}
  BY <1>1 DEF BrokerFollows
<1>3. OnePlace
  BY DEF ConsumerTypeOK, OnePlace
<1>4. D \in SUBSET unacked
  OBVIOUS
<1>5. consumers' \subseteq Call
  BY DEF BrokerFollows, ConsumerTypeOK
<1> HIDE DEF D
<1> QED
  BY <1>1, <1>2, <1>3, <1>4, <1>5, TakenBack

-----------------------------------------------------------------------------
(* Acknowledgements. *)

\* What a verdict leaves: a pool that was left alone or has lost its channel.
Answered ==
  /\ PoolMoves /\ OnePlace' /\ consumers' \subseteq Call
  /\ acked' \subseteq Msgs /\ dead' \subseteq Msgs

LEMMA SendFacts ==
  ASSUME ConsumerInv, NEW ch \in Dials, chan[ch] = "open", NEW tag,
         NEW verdict \in {"ack", "drop", "requeue"}, Send(ch, tag, verdict)
  PROVE  Answered
<1>1. ConsumerTypeOK /\ OnePlace /\ TypeOK
  BY DEF ConsumerInv, ConsumerTypeOK, OnePlace, PoolInv
<1>2. CASE Accept(ch, tag, verdict)
  <2> DEFINE D == Named(ch, tag)
             ms == {d.m : d \in D}
  <2>1. D \in SUBSET unacked /\ ms \subseteq Msgs
    BY <1>1 DEF Named, ConsumerTypeOK, Delivery
  <2>2. unacked' = unacked \ D /\ (ready' = ready \/ ready' = ready \cup ms)
    BY <1>2 DEF Accept
  <2>3. (acked' = acked \/ acked' = acked \cup ms) /\ (dead' = dead \/ dead' = dead \cup ms)
    BY <1>2 DEF Accept
  <2>4. UNCHANGED <<vars, consumers>>
    BY <1>2 DEF Accept
  <2>5. OnePlace'
    <3> HIDE DEF D
    <3> QED
      BY <1>1, <2>1, <2>2, TakenBack
  <2>6. acked \subseteq Msgs /\ dead \subseteq Msgs /\ consumers \subseteq Call
    BY <1>1 DEF ConsumerTypeOK
  <2> HIDE DEF D, ms
  <2> QED
    BY <2>1, <2>3, <2>4, <2>5, <2>6 DEF Answered, PoolMoves
<1>3. CASE Reject(ch, tag)
  <2>1. ChannelEnds(ch)
    BY <1>1, <1>3 DEF Reject, ChannelEnds, Alive, TypeOK
  <2>2. OnePlace' /\ consumers' \subseteq Call
    BY <1>1, <1>3, Followed DEF Reject
  <2> QED
    BY <1>1, <1>3, <2>1, <2>2 DEF Reject, Answered, PoolMoves, ConsumerTypeOK
<1> QED
  BY <1>2, <1>3 DEF Send

LEMMA ErrorFacts ==
  ASSUME ConsumerInv, NEW h, NEW error, handleError(h, error)
  PROVE  Answered
<1>1. CASE ~isConnected \/ chan[pool.channel] # "open"
  BY <1>1 DEF handleError, SendNothing, Answered, PoolMoves, OnePlace, ConsumerInv, ConsumerTypeOK
<1>2. CASE isConnected /\ chan[pool.channel] = "open"
  <2>1. pool.channel \in Dials
    BY <1>2 DEF isConnected, ConsumerInv, PoolInv, TypeOK, Fields
  <2>2. \E verdict \in {"drop", "requeue"} : Send(pool.channel, h.tag, verdict)
    BY <1>2 DEF handleError
  <2> QED
    BY <1>2, <2>1, <2>2, SendFacts
<1> QED
  BY <1>1, <1>2

-----------------------------------------------------------------------------
(* The invariant. *)
LEMMA ConsumerStep == ConsumerInv /\ [ConsumerNext]_allVars => ConsumerInv'
<1> SUFFICES ASSUME ConsumerInv, [ConsumerNext]_allVars
             PROVE  ConsumerInv'
  OBVIOUS
<1> USE ConsumerAssumption DEF ConsumerAssumption
<1>1. PoolInv /\ TypeOK /\ ConsumerTypeOK /\ OnePlace
  BY DEF ConsumerInv, PoolInv, ConsumerTypeOK, OnePlace
\* What suffices.
<1>2. ASSUME PoolMoves, OnePlace', calls' \subseteq Call, consumers' \subseteq Call,
             handlers' \subseteq Handler, nextTag' \in [Dials -> Nat], failures' \in 0 .. MaxFailures,
             handled' \subseteq Msgs, refused' \subseteq Msgs, acked' \subseteq Msgs, dead' \subseteq Msgs
      PROVE  ConsumerInv'
  <2>1. PoolInv'
    BY <1>1, <1>2, InvStep
  <2>2. ConsumerTypeOK'
    BY <1>2 DEF ConsumerTypeOK, OnePlace
  <2> QED
    BY <2>1, <2>2 DEF ConsumerInv
<1>3. UNCHANGED vars => PoolMoves
  BY DEF PoolMoves
<1>4. ASSUME Next, ConnectedListener, BrokerFollows,
             UNCHANGED <<subscribed, nextTag, handlers, failures, handled, refused, acked, dead>>
      PROVE  ConsumerInv'
  <2>1. OnePlace' /\ consumers' \subseteq Call
    BY <1>1, <1>4, Followed
  <2>2. calls' \subseteq Call
    BY <1>1, <1>4 DEF ConnectedListener, ConsumerTypeOK, Call
  <2> QED
    BY <1>1, <1>2, <1>4, <2>1, <2>2 DEF PoolMoves, ConsumerTypeOK
<1>5. CASE PoolStep
  <2>1. Next
    BY <1>5 DEF PoolStep, Redial, During, Next
  <2>2. /\ ConnectedListener /\ BrokerFollows
        /\ UNCHANGED <<subscribed, nextTag, handlers, failures, handled, refused, acked, dead>>
    BY <1>5 DEF PoolStep, Redial, During
  <2> QED
    BY <1>4, <2>1, <2>2
<1>6. CASE Consume
  <2>1. calls' \subseteq Call
    BY <1>1, <1>6 DEF Consume, ConsumerTypeOK, Call, TypeOK, Fields
  <2> QED
    BY <1>1, <1>2, <1>3, <1>6, <2>1 DEF Consume, ConsumerTypeOK, OnePlace
<1>7. ASSUME NEW c \in calls, Subscribed(c)
      PROVE  ConsumerInv'
  <2>1. calls' \subseteq Call /\ consumers' \subseteq Call
    BY <1>1, <1>7 DEF Subscribed, ConsumerTypeOK
  <2> QED
    BY <1>1, <1>2, <1>3, <1>7, <2>1 DEF Subscribed, ConsumerTypeOK, OnePlace
<1>8. ASSUME NEW c \in consumers, NEW m \in ready, Deliver(c, m)
      PROVE  ConsumerInv'
  <2> DEFINE d == [m |-> m, to |-> c, ch |-> c.ch, tag |-> nextTag[c.ch]]
             h == [m |-> m, on |-> c.ch, tag |-> nextTag[c.ch], ch |-> pool.channel, retry |-> 0]
  <2>1. c \in Call /\ c.ch \in Dials /\ nextTag[c.ch] \in Nat /\ m \in Msgs
    BY <1>1 DEF ConsumerTypeOK, Call
  <2>2. d \in Delivery /\ d.m = m
    BY <2>1 DEF Delivery
  <2>3. ready' = ready \ {m} /\ unacked' = unacked \cup {d}
    BY <1>8 DEF Deliver
  <2>4. OnePlace'
    <3> HIDE DEF d
    <3> QED
      BY <1>1, <2>2, <2>3 DEF OnePlace
  <2>5. handlers' \subseteq Handler
    <3>1. handlers' = handlers \/ (pool.channel # None /\ handlers' = handlers \cup {h})
      BY <1>8 DEF Deliver
    <3>2. pool.channel # None => h \in Handler
      BY <1>1, <2>1 DEF Handler, TypeOK, Fields
    <3> HIDE DEF h
    <3> QED
      BY <1>1, <3>1, <3>2 DEF ConsumerTypeOK
  <2>6. nextTag' \in [Dials -> Nat]
    BY <1>1, <1>8, <2>1 DEF Deliver, ConsumerTypeOK
  <2> QED
    BY <1>1, <1>2, <1>3, <1>8, <2>4, <2>5, <2>6 DEF Deliver, ConsumerTypeOK
<1>9. ASSUME NEW h \in handlers, HandlerReturns(h)
      PROVE  ConsumerInv'
  <2>1. h \in Handler /\ h.m \in Msgs /\ h.ch \in Dials
    BY <1>1 DEF ConsumerTypeOK, Handler
  <2>2. Answered
    <3>1. CASE isConnected /\ chan[h.ch] = "open"
      BY <1>9, <2>1, <3>1, SendFacts DEF HandlerReturns
    <3>2. CASE ~(isConnected /\ chan[h.ch] = "open")
      BY <1>9, <3>2, ErrorFacts DEF HandlerReturns
    <3> QED
      BY <3>1, <3>2
  <2> QED
    BY <1>1, <1>2, <1>9, <2>1, <2>2 DEF HandlerReturns, Answered, ConsumerTypeOK
<1>10. ASSUME NEW h \in handlers, HandlerThrows(h)
       PROVE  ConsumerInv'
  <2>1. h.m \in Msgs
    BY <1>1 DEF ConsumerTypeOK, Handler
  <2>2. Answered
    BY <1>10, ErrorFacts DEF HandlerThrows
  <2>3. failures' \in 0 .. MaxFailures /\ refused' \subseteq Msgs
    BY <1>1, <1>10, <2>1 DEF HandlerThrows, ConsumerTypeOK
  <2> QED
    BY <1>1, <1>2, <1>10, <2>2, <2>3 DEF HandlerThrows, Answered, ConsumerTypeOK
<1>11. CASE UNCHANGED allVars
  BY <1>1, <1>2, <1>3, <1>11 DEF allVars, consumerVars, ConsumerTypeOK, OnePlace
<1> QED
  BY <1>5, <1>6, <1>7, <1>8, <1>9, <1>10, <1>11 DEF ConsumerNext

LEMMA ConsumerInitial == ConsumerInit => ConsumerInv
<1> SUFFICES ASSUME ConsumerInit
             PROVE  ConsumerInv
  OBVIOUS
<1>1. PoolInv
  BY InvInit DEF ConsumerInit
<1>2. ConsumerTypeOK
  BY ConsumerAssumption DEF ConsumerAssumption, ConsumerInit, ConsumerTypeOK
<1> QED
  BY <1>1, <1>2 DEF ConsumerInv

LEMMA ConsumerInvariant == ConsumerSpec => []ConsumerInv
BY ConsumerInitial, ConsumerStep, PTL DEF ConsumerSpec

-----------------------------------------------------------------------------
(* Of the consumer's variables: their types, and that the broker has a       *)
(* message in the queue or delivered once, whatever consumer.service.ts      *)
(* answers on which channel.                                                 *)
THEOREM ConsumerTypeCorrect == ConsumerSpec => []ConsumerTypeOK
BY ConsumerInvariant, PTL DEF ConsumerInv

(* With a consumer and the errors its acknowledgements cause on the channel, *)
(* getChannel() still hands out no channel that has died.                    *)
THEOREM ConsumerNoDeadChannel == ConsumerSpec => []NoDeadChannel
<1>1. ConsumerInv => NoDeadChannel
  BY DEF ConsumerInv, PoolInv
<1> QED
  BY <1>1, ConsumerInvariant, PTL

(* And a pool that is not connected still has a timer or a dial under way,   *)
(* as its state says.                                                        *)
THEOREM ConsumerStateTellsTruth == ConsumerSpec => []StateTellsTruth
<1>1. ConsumerInv => StateTellsTruth
  BY DEF ConsumerInv, PoolInv
<1> QED
  BY <1>1, ConsumerInvariant, PTL
-----------------------------------------------------------------------------
(* Fast handlers.  When a handler is over before the pool redials, and the   *)
(* broker ends no channel by itself, a handler in progress keeps the pool    *)
(* from replacing the channel its message came on: it answers with the tag   *)
(* of its own delivery or not at all, the broker never closes a channel over *)
(* a tag, and the pool stays steady (Steady of ConnectionPool_proofs).       *)

Calls == calls \cup consumers \cup {d.to : d \in unacked}

\* A channel is consumed from once, from its dial's success on.
OneCall ==
  /\ \A b, c \in Calls : b.ch = c.ch => b = c
  /\ \A c \in Calls : c.ch \in Dials /\ dial[c.ch] = "connected"
  /\ ~subscribed => Calls = {}

\* A tag names one delivery of its channel.
Tags ==
  /\ \A d \in unacked : d.tag < nextTag[d.ch] /\ d.to.ch = d.ch
  /\ \A d, e \in unacked : d.ch = e.ch /\ d.tag = e.tag => d = e

\* The delivery that h handles.
Answers(h, d) == d.ch = h.on /\ d.tag = h.tag /\ d.m = h.m

\* One handler runs at a time, no channel but its own is open meanwhile, and
\* its delivery lasts as long as that channel.
HandlerAlone ==
  /\ \A g, h \in handlers : g = h
  /\ \A h \in handlers :
       /\ h.retry = 0 /\ dial[h.on] = "connected"
       /\ \A k \in Dials : chan[k] = "open" => k = h.on
       /\ \A k \in Dials : dial[k] \notin Dialing
       /\ chan[h.on] \in Alive => \E d \in unacked : Answers(h, d)

Fast    == OneCall /\ Tags /\ HandlerAlone
FastInv == ConsumerInv /\ Steady /\ Fast

FastPremise == SteadyPremise /\ SlowHandlers = FALSE

\* The steps of the pool that start no dial.
Continues ==
  \/ HealthTick \/ OnDestroy \/ CloseChannelClosed \/ CloseConnectionClosed
  \/ \E k \in Dials : DialStep(k) \/ ConnectionLost(k) \/ ChannelLost(k)

\* How a step of the pool moves a dial and its channel: the dial goes no way
\* back, and the channel opens when the dial succeeds.
Moves(k) ==
  /\ dial'[k] = "connected" /\ dial[k] # "connected" => dial[k] = "opening"
  /\ dial[k] = "connected" => dial'[k] = "connected"
  /\ chan'[k] \in Alive => chan[k] \in Alive \/ dial[k] = "opening"
  /\ chan'[k] = "open" => chan[k] = "open" \/ dial[k] = "opening"

LEMMA PoolStarts ==
  ASSUME TypeOK, OnInit \/ TimerFires, NEW k \in Dials
  PROVE  Moves(k)
<1>1. /\ chan' = chan
      /\ dial' = dial \/ \E j \in Dials : dial[j] = "idle" /\ dial' = [dial EXCEPT ![j] = "dialing"]
  BY DEF OnInit, TimerFires, StartDial
<1> QED
  BY <1>1 DEF Moves, TypeOK

LEMMA PoolContinues ==
  ASSUME SteadyInv, Continues, NEW k \in Dials
  PROVE  Moves(k) /\ (dial'[k] \in Dialing => dial[k] \in Dialing)
<1> DEFINE Moved == Moves(k) /\ (dial'[k] \in Dialing => dial[k] \in Dialing)
<1> USE DEF Moves
<1>a. /\ TypeOK /\ OneConnection /\ OneDial
      /\ dial \in [Dials -> {"idle", "connected", "failed"} \cup Unfinished]
      /\ chan \in [Dials -> Life]
  BY DEF SteadyInv, PoolInv, Steady, TypeOK
<1>2. ASSUME NEW j \in Dials, DialOk(j) PROVE Moved
  BY <1>2, <1>a DEF DialOk, Dialing
<1>3. ASSUME NEW j \in Dials, DialFail(j) \/ OpenFail(j) PROVE Moved
  <2>1. dial[j] \in Dialing /\ Cleanup(pool, j)
    BY <1>3 DEF DialFail, OpenFail, Dialing
  <2>2. conn[j] # "closing"
    BY <1>a, <1>3 DEF DialFail, OpenFail, OneDial, Alive
  <2>3. /\ chan' = chan
        /\ \/ dial' = [dial EXCEPT ![j] = "closingConn"]
           \/ dial' = [dial EXCEPT ![j] = "failed"]
    BY <2>1, <2>2, SteadyCleanup
  <2> QED
    BY <1>a, <2>1, <2>3 DEF Dialing
<1>4. ASSUME NEW j \in Dials, OpenOk(j) PROVE Moved
  BY <1>4, <1>a DEF OpenOk, Dialing
<1>5. ASSUME NEW j \in Dials, CleanupChannelClosed(j) PROVE Moved
  BY <1>5, <1>a DEF CleanupChannelClosed, OneDial
<1>6. ASSUME NEW j \in Dials, CleanupConnectionClosed(j) PROVE Moved
  BY <1>6, <1>a DEF CleanupConnectionClosed, EndConnection, Dialing, Alive
<1>7. ASSUME NEW j \in Dials, ConnectionLost(j) \/ ChannelLost(j) PROVE Moved
  BY <1>7, <1>a DEF ConnectionLost, ChannelLost, EndConnection, Dialing, Alive
<1>8. ASSUME OnDestroy \/ CloseChannelClosed \/ CloseConnectionClosed \/ HealthTick PROVE Moved
  <2>1. dial' = dial
    BY <1>8 DEF OnDestroy, CloseChannelClosed, CloseConnectionClosed, HealthTick
  <2>2. chan'[k] \in {chan[k], "dead"} \/ (chan[k] = "open" /\ chan'[k] = "closing")
    <3>1. CASE HealthTick
      BY <3>1 DEF HealthTick
    <3>2. CASE OnDestroy
      <4>1. chan' = chan \/ \E c : chan[c] = "open" /\ chan' = [chan EXCEPT ![c] = "closing"]
        BY <3>2 DEF OnDestroy
      <4> QED
        BY <1>a, <4>1
    <3>3. CASE CloseChannelClosed
      BY <1>a, <3>3 DEF CloseChannelClosed
    <3>4. CASE CloseConnectionClosed
      BY <1>a, <3>4 DEF CloseConnectionClosed, EndConnection
    <3> QED
      BY <1>8, <3>1, <3>2, <3>3, <3>4
  <2> QED
    BY <2>1, <2>2 DEF Alive
<1> HIDE DEF Moved
<1>9. ASSUME NEW j \in Dials, DialStep(j) \/ ConnectionLost(j) \/ ChannelLost(j) PROVE Moved
  BY <1>2, <1>3, <1>4, <1>5, <1>6, <1>7, <1>9 DEF DialStep
<1>10. Moved
  BY <1>8, <1>9 DEF Continues
<1> QED
  BY <1>10 DEF Moved

\* A step of the pool, with handlers that do not outlive it.
LEMMA FastPoolStep ==
  ASSUME FastInv, FastPremise, PoolStep
  PROVE  Steady' /\ Fast'
<1>a. /\ SteadyInv /\ OneConnection /\ OneDial /\ TypeOK /\ ConsumerTypeOK /\ Fast
      /\ OneCall /\ Tags /\ HandlerAlone
  BY DEF FastInv, ConsumerInv, SteadyInv, Fast, Steady, PoolInv
<1>1. /\ Next /\ ConnectedListener /\ BrokerFollows
      /\ UNCHANGED <<subscribed, nextTag, handlers>>
  BY DEF PoolStep, Redial, During, Next
<1>2. ((OnInit \/ TimerFires) /\ handlers = {}) \/ Continues
  <2>1. CASE OnInit
    <3>1. \A k \in Dials : dial[k] = "idle"
      BY <2>1 DEF OnInit
    <3>2. \A h \in handlers : h.on \in Dials /\ dial[h.on] = "connected"
      BY <1>a DEF HandlerAlone, ConsumerTypeOK, Handler
    <3> QED
      BY <2>1, <3>1, <3>2
  <2>2. CASE Redial
    BY <2>2 DEF Redial, During, FastPremise
  <2>3. OnInit \/ Redial \/ Continues
    BY DEF PoolStep, During, Continues
  <2> QED
    BY <2>1, <2>2, <2>3
<1>3. Steady'
  BY <1>a, <1>1, SteadyStep DEF FastPremise, SteadyInv
<1>4. ASSUME NEW k \in Dials
      PROVE  /\ dial'[k] \in Dialing /\ dial[k] \notin Dialing => handlers = {}
             /\ Moves(k)
  BY <1>a, <1>2, PoolStarts, PoolContinues
<1> USE DEF Moves
<1> DEFINE up == {k \in Dials : dial'[k] = "connected" /\ dial[k] # "connected"}
           new == {[by |-> k, ch |-> k] : k \in up}
<1>5. /\ \A k \in up : dial[k] = "opening" /\ k \in Dials
      /\ \A j, k \in up : j = k
  BY <1>a, <1>4 DEF OneDial, Dialing
<1>6. /\ calls' = calls \/ (subscribed /\ calls' = calls \cup new)
      /\ consumers' \subseteq consumers /\ unacked' \subseteq unacked
  BY <1>1 DEF ConnectedListener, BrokerFollows
<1>7. \A b, c \in new : b = c /\ b.ch \in up
  BY <1>5
<1> HIDE DEF new
<1>8. Calls' \subseteq Calls \cup new /\ (~subscribed => Calls' \subseteq Calls)
  BY <1>6 DEF Calls
<1>9. OneCall'
  <2>1. \A c \in Calls' : c.ch \in Dials /\ dial'[c.ch] = "connected"
    BY <1>a, <1>4, <1>7, <1>8 DEF OneCall
  <2>2. \A b, c \in Calls' : b.ch = c.ch => b = c
    BY <1>a, <1>5, <1>7, <1>8 DEF OneCall
  <2> QED
    BY <1>1, <1>a, <1>8, <2>1, <2>2 DEF OneCall
<1>10. Tags'
  BY <1>1, <1>6, <1>a DEF Tags
<1>11. HandlerAlone'
  <2> SUFFICES ASSUME NEW h \in handlers
               PROVE  /\ h.retry = 0 /\ dial'[h.on] = "connected"
                      /\ \A k \in Dials : chan'[k] = "open" => k = h.on
                      /\ \A k \in Dials : dial'[k] \notin Dialing
                      /\ chan'[h.on] \in Alive => \E d \in unacked' : Answers(h, d)
    BY <1>1, <1>a DEF HandlerAlone, Answers
  <2>1. h.on \in Dials /\ \A k \in Dials : dial[k] \notin Dialing
    BY <1>a DEF HandlerAlone, ConsumerTypeOK, Handler
  <2>2. chan'[h.on] \in Alive => \E d \in unacked' : Answers(h, d)
    <3> SUFFICES ASSUME chan'[h.on] \in Alive
                 PROVE  \E d \in unacked' : Answers(h, d)
      OBVIOUS
    <3>1. chan[h.on] \in Alive
      BY <1>4, <2>1 DEF Dialing
    <3>2. PICK d \in unacked : Answers(h, d)
      BY <1>a, <3>1 DEF HandlerAlone
    <3>3. d \in unacked'
      BY <1>1, <3>2 DEF BrokerFollows, Answers
    <3> QED
      BY <3>2, <3>3
  <2> QED
    BY <1>4, <1>a, <2>1, <2>2 DEF HandlerAlone, Dialing
<1> QED
  BY <1>3, <1>9, <1>10, <1>11 DEF Fast

\* The broker takes the verdict v on the delivery that h handles.
Verdict(h, v) ==
  /\ UNCHANGED <<vars, consumers>>
  /\ \E d \in unacked : d.m = h.m /\ unacked' = unacked \ {d}
  /\ acked' = IF v = "ack" THEN acked \cup {h.m} ELSE acked
  /\ dead'  = IF v = "drop" THEN dead \cup {h.m} ELSE dead
  /\ ready' = IF v = "requeue" THEN ready \cup {h.m} ELSE ready

LEMMA OwnVerdict ==
  ASSUME FastInv, NEW h \in handlers, NEW ch \in Dials, chan[ch] = "open",
         NEW v, Send(ch, h.tag, v)
  PROVE  Verdict(h, v)
<1>1. ch = h.on /\ Tags /\ (chan[h.on] \in Alive => \E d \in unacked : Answers(h, d))
  BY DEF FastInv, Fast, HandlerAlone
<1>2. PICK d \in unacked : d.ch = ch /\ d.tag = h.tag /\ d.m = h.m
  BY <1>1 DEF Answers, Alive
<1>3. Named(ch, h.tag) = {d}
  BY <1>1, <1>2 DEF Named, Tags
<1>4. Accept(ch, h.tag, v)
  BY <1>3 DEF Send, Reject
<1>5. {e.m : e \in Named(ch, h.tag)} = {h.m}
  BY <1>2, <1>3
<1> QED
  BY <1>2, <1>3, <1>4, <1>5 DEF Accept, Verdict

\* handleError() sends nothing, or what the error and the retries ask for.
LEMMA OwnError ==
  ASSUME FastInv, NEW h \in handlers, NEW error, handleError(h, error)
  PROVE  \/ SendNothing
         \/ Verdict(h, IF error = "NoRetryError" \/ 0 >= MaxRetries
                       THEN "drop" ELSE "requeue")
<1>1. h.retry = 0
  BY DEF FastInv, Fast, HandlerAlone
<1>2. isConnected => pool.channel \in Dials
  BY DEF FastInv, ConsumerInv, PoolInv, TypeOK, Fields, isConnected
<1> QED
  BY <1>1, <1>2, OwnVerdict DEF handleError

\* A handler that returns acknowledges its message, or sends nothing, or has
\* it requeued; with retries to spend, one that throws does not lose it.
LEMMA ReturnAnswers ==
  ASSUME FastInv, NEW h \in handlers, HandlerReturns(h)
  PROVE  \/ SendNothing \/ Verdict(h, "ack")
         \/ Verdict(h, IF 0 >= MaxRetries THEN "drop" ELSE "requeue")
<1>1. h.ch \in Dials
  BY DEF FastInv, ConsumerInv, ConsumerTypeOK, Handler
<1>2. CASE isConnected /\ chan[h.ch] = "open"
  BY <1>1, <1>2, OwnVerdict DEF HandlerReturns
<1>3. CASE ~(isConnected /\ chan[h.ch] = "open")
  <2>1. handleError(h, "Error")
    BY <1>3 DEF HandlerReturns
  <2>2. "Error" # "NoRetryError"
    OBVIOUS
  <2> QED
    BY <2>1, <2>2, OwnError
<1> QED
  BY <1>2, <1>3

LEMMA ThrowAnswers ==
  ASSUME FastInv, NEW h \in handlers, HandlerThrows(h)
  PROVE  \/ /\ SendNothing \/ Verdict(h, IF 0 >= MaxRetries THEN "drop" ELSE "requeue")
            /\ refused' = refused
         \/ /\ SendNothing \/ Verdict(h, "drop")
            /\ refused' = refused \cup {h.m}
<1>1. \/ handleError(h, "Error") /\ refused' = refused
      \/ handleError(h, "NoRetryError") /\ refused' = refused \cup {h.m}
  BY DEF HandlerThrows
<1>2. "Error" # "NoRetryError"
  OBVIOUS
<1> QED
  BY <1>1, <1>2, OwnError

\* What suffices for a step that leaves the pool alone.
LEMMA FastFrame ==
  ASSUME FastInv, UNCHANGED vars, Fast'
  PROVE  Steady' /\ Fast'
<1>1. Steady /\ UNCHANGED <<pool, intervals, conn, chan, dial, target, closer, muted, overtaken>>
  BY DEF FastInv, vars
<1>2. OneConnection' /\ OneDial'
  BY <1>1 DEF Steady, OneConnection, OneDial
<1>3. TimerIsAlone' /\ InUse' /\ Calm'
  BY <1>1 DEF Steady, TimerIsAlone, Sane, InUse, Calm
<1> QED
  BY <1>2, <1>3 DEF Steady

LEMMA FastAnswer ==
  ASSUME FastInv, NEW h \in handlers, HandlerReturns(h) \/ HandlerThrows(h)
  PROVE  Steady' /\ Fast'
<1>a. OneCall /\ Tags /\ HandlerAlone
  BY DEF FastInv, Fast
<1>1. UNCHANGED <<vars, consumers>> /\ unacked' \subseteq unacked
  BY ReturnAnswers, ThrowAnswers DEF SendNothing, Verdict
<1>2. /\ handlers' = handlers \ {h} /\ subscribed' = subscribed /\ calls' = calls
      /\ nextTag' = nextTag
  BY DEF HandlerReturns, HandlerThrows
<1>3. handlers' = {}
  BY <1>a, <1>2 DEF HandlerAlone
<1>4. dial' = dial /\ Calls' \subseteq Calls
  BY <1>1, <1>2 DEF vars, Calls
<1>5. Fast'
  BY <1>a, <1>1, <1>2, <1>3, <1>4 DEF Fast, OneCall, Tags, HandlerAlone
<1> QED
  BY <1>1, <1>5, FastFrame

\* prefetch: while a handler runs its consumer is given nothing, and there is
\* no other consumer on an open channel.
LEMMA FastDeliver ==
  ASSUME FastInv, NEW c \in consumers, NEW m \in ready, Deliver(c, m)
  PROVE  Steady' /\ Fast'
<1>a. /\ OneCall /\ Tags /\ HandlerAlone /\ OneConnection /\ OneDial /\ ConsumerTypeOK
  BY DEF FastInv, Fast, Steady, ConsumerInv
<1>b. /\ UNCHANGED vars /\ dial' = dial /\ chan' = chan
      /\ subscribed' = subscribed /\ calls' = calls /\ consumers' = consumers
  BY DEF Deliver, vars
<1>1. c \in Calls /\ c.ch \in Dials /\ dial[c.ch] = "connected" /\ chan[c.ch] = "open"
  BY <1>a DEF Deliver, Calls, OneCall
<1>2. handlers = {}
  <2> SUFFICES ASSUME NEW h \in handlers
               PROVE  FALSE
    OBVIOUS
  <2>1. c.ch = h.on
    BY <1>a, <1>1 DEF HandlerAlone
  <2>2. PICK d \in unacked : d.ch = c.ch
    BY <1>a, <1>1, <2>1 DEF HandlerAlone, Answers, Alive
  <2>3. d.to \in Calls /\ d.to.ch = c.ch
    BY <1>a, <2>2 DEF Calls, Tags
  <2>4. d.to = c
    BY <1>a, <1>1, <2>3 DEF OneCall
  <2> QED
    BY <2>4 DEF Deliver
<1> DEFINE t == nextTag[c.ch]
           d == [m |-> m, to |-> c, ch |-> c.ch, tag |-> t]
           h == [m |-> m, on |-> c.ch, tag |-> t, ch |-> pool.channel, retry |-> 0]
<1>3. /\ unacked' = unacked \cup {d} /\ handlers' \subseteq {h}
      /\ nextTag' = [nextTag EXCEPT ![c.ch] = t + 1]
  BY <1>2 DEF Deliver
<1>4. nextTag'[c.ch] = t + 1 /\ t \in Nat /\ \A k \in Dials \ {c.ch} : nextTag'[k] = nextTag[k]
  BY <1>a, <1>1, <1>3 DEF ConsumerTypeOK
<1>5. d.m = m /\ d.to = c /\ d.ch = c.ch /\ d.tag = t
  OBVIOUS
<1>6. h.m = m /\ h.on = c.ch /\ h.tag = t /\ h.retry = 0
  OBVIOUS
<1> HIDE DEF t, d, h
<1>7. Calls' = Calls
  <2>1. Calls' = calls \cup consumers \cup {e.to : e \in unacked \cup {d}}
    BY <1>b, <1>3 DEF Calls
  <2> QED
    BY <1>5, <2>1 DEF Calls
<1>8. OneCall'
  BY <1>a, <1>b, <1>7 DEF OneCall
<1>9. Tags'
  <2>1. \A e \in unacked : e.ch \in Dials /\ e.tag \in Nat /\ e.tag < nextTag[e.ch] /\ e.to.ch = e.ch
    BY <1>a DEF Tags, ConsumerTypeOK, Delivery
  <2>2. \A e \in unacked' : e.tag < nextTag'[e.ch] /\ e.to.ch = e.ch
    <3>1. ASSUME NEW e \in unacked, e.ch = c.ch PROVE e.tag < nextTag'[e.ch]
      BY <1>4, <2>1, <3>1 DEF t
    <3>2. ASSUME NEW e \in unacked, e.ch # c.ch PROVE e.tag < nextTag'[e.ch]
      BY <1>4, <2>1, <3>2
    <3>3. d.tag < nextTag'[d.ch] /\ d.to.ch = d.ch
      BY <1>4, <1>5
    <3> QED
      BY <1>3, <2>1, <3>1, <3>2, <3>3
  <2>3. \A e \in unacked : ~(e.ch = d.ch /\ e.tag = d.tag)
    BY <1>4, <1>5, <2>1 DEF t
  <2>4. \A e, f \in unacked' : e.ch = f.ch /\ e.tag = f.tag => e = f
    BY <1>a, <1>3, <2>3 DEF Tags
  <2> QED
    BY <2>2, <2>4 DEF Tags
<1>10. HandlerAlone'
  <2>1. \A k \in Dials : chan[k] = "open" => k = c.ch
    BY <1>a, <1>1 DEF OneConnection, Alive
  <2>2. \A k \in Dials : dial[k] \notin Dialing
    BY <1>a, <1>1 DEF OneConnection, OneDial, Dialing, Alive
  <2>3. \E e \in unacked' : Answers(h, e)
    BY <1>3, <1>5, <1>6 DEF Answers
  <2>4. \A g \in handlers' : g = h
    BY <1>3
  <2> QED
    BY <1>b, <1>1, <1>6, <2>1, <2>2, <2>3, <2>4 DEF HandlerAlone, Answers
<1> QED
  BY <1>b, <1>8, <1>9, <1>10, FastFrame DEF Fast

LEMMA FastSubscribe ==
  ASSUME FastInv, Consume \/ \E c \in calls : Subscribed(c)
  PROVE  Steady' /\ Fast'
<1>a. OneCall /\ Tags /\ HandlerAlone /\ OneConnection /\ TypeOK
  BY DEF FastInv, Fast, Steady, ConsumerInv, PoolInv
<1>b. /\ UNCHANGED <<vars, unacked, nextTag, handlers>> /\ dial' = dial /\ chan' = chan
  BY DEF Consume, Subscribed, vars
<1>1. Tags' /\ HandlerAlone'
  BY <1>a, <1>b DEF Tags, HandlerAlone, Answers
<1>2. CASE Consume
  <2> DEFINE new == [by |-> App, ch |-> pool.channel]
  <2>1. Calls = {} /\ subscribed' = TRUE /\ consumers' = consumers
    BY <1>a, <1>2 DEF Consume, OneCall
  <2>2. calls' = calls \/ (pool.channel # None /\ calls' = calls \cup {new})
    BY <1>2 DEF Consume
  <2>3. Calls' \subseteq {new} /\ (pool.channel = None => Calls' = {})
    BY <1>b, <2>1, <2>2 DEF Calls
  <2>4. pool.channel # None => pool.channel \in Dials /\ dial[pool.channel] = "connected"
    BY <1>a DEF OneConnection, TypeOK, Fields
  <2>5. \A c \in Calls' : c.ch = pool.channel /\ pool.channel # None
    BY <2>3
  <2> HIDE DEF new
  <2> QED
    BY <1>b, <1>1, <2>1, <2>3, <2>4, <2>5, FastFrame DEF Fast, OneCall
<1>3. ASSUME NEW c \in calls, Subscribed(c)
      PROVE  Steady' /\ Fast'
  <2>1. Calls' \subseteq Calls /\ subscribed' = subscribed
    BY <1>b, <1>3 DEF Subscribed, Calls
  <2> QED
    BY <1>a, <1>b, <1>1, <2>1, FastFrame DEF Fast, OneCall
<1> QED
  BY <1>2, <1>3

LEMMA FastStep ==
  ASSUME FastPremise, FastInv, [ConsumerNext]_allVars
  PROVE  FastInv'
<1>1. ConsumerInv'
  BY ConsumerStep DEF FastInv
<1>2. ASSUME UNCHANGED allVars
      PROVE  Steady' /\ Fast'
  <2>1. /\ UNCHANGED vars /\ dial' = dial /\ chan' = chan
        /\ UNCHANGED <<subscribed, calls, consumers, unacked, nextTag, handlers>>
    BY <1>2 DEF allVars, vars, consumerVars
  <2>2. Calls' = Calls
    BY <2>1 DEF Calls
  <2>3. Fast'
    BY <2>1, <2>2 DEF FastInv, Fast, OneCall, Tags, HandlerAlone, Answers
  <2> QED
    BY <2>1, <2>3, FastFrame
<1>3. Steady' /\ Fast'
  BY <1>2, FastPoolStep, FastSubscribe, FastDeliver, FastAnswer DEF ConsumerNext
<1> QED
  BY <1>1, <1>3 DEF FastInv

LEMMA FastInitial == ConsumerInit => FastInv
<1> SUFFICES ASSUME ConsumerInit PROVE FastInv
  OBVIOUS
<1>1. ConsumerInv /\ Steady
  BY ConsumerInitial, SteadyInit DEF ConsumerInit, SteadyInv
<1>2. Calls = {}
  BY DEF ConsumerInit, Calls
<1>3. Fast
  BY <1>2 DEF ConsumerInit, Fast, OneCall, Tags, HandlerAlone
<1> QED
  BY <1>1, <1>3 DEF FastInv

LEMMA FastInvariant ==
  ASSUME FastPremise
  PROVE  ConsumerSpec => []FastInv
<1>1. FastInv /\ [ConsumerNext]_allVars => FastInv'
  BY FastStep
<1> QED
  BY <1>1, FastInitial, PTL DEF ConsumerSpec

-----------------------------------------------------------------------------
(* An at-least-once queue.  With a retry to spend, a handler that threw has  *)
(* its message requeued, so that only an acknowledgement or a NoRetryError   *)
(* takes a message from the queue: the steps of AtLeastOnce.                 *)

LEMMA VerdictPromise ==
  ASSUME FastInv, NEW h \in handlers, NEW v, Verdict(h, v)
  PROVE  /\ h.m \in Pending
         /\ v = "requeue" => Pending' = Pending
         /\ v # "requeue" => Pending' = Pending \ {h.m}
<1>1. OnePlace
  BY DEF FastInv, ConsumerInv, ConsumerTypeOK, OnePlace
<1>2. PICK d \in unacked : d.m = h.m /\ unacked' = unacked \ {d}
  BY DEF Verdict
<1>3. {e.m : e \in unacked'} = {e.m : e \in unacked} \ {h.m}
  BY <1>1, <1>2 DEF OnePlace
<1>4. h.m \in {e.m : e \in unacked} /\ h.m \notin ready
  BY <1>1, <1>2 DEF OnePlace
<1>5. ready' = IF v = "requeue" THEN ready \cup {h.m} ELSE ready
  BY DEF Verdict
<1> QED
  BY <1>3, <1>4, <1>5 DEF Pending

LEMMA PromiseReturn ==
  ASSUME FastInv, MaxRetries # 0, NEW h \in handlers, HandlerReturns(h)
  PROVE  Promise!Accepted(h.m)
<1>1. /\ h.m \in Msgs /\ handled' = handled \cup {h.m} /\ refused' = refused
      /\ ~(0 >= MaxRetries)
  BY ConsumerAssumption DEF FastInv, ConsumerInv, ConsumerTypeOK, Handler, HandlerReturns, ConsumerAssumption
<1>2. CASE SendNothing
  BY <1>1, <1>2 DEF SendNothing, Pending, Promise!Accepted
<1>3. CASE Verdict(h, "ack")
  <2>1. h.m \in Pending /\ Pending' = Pending \ {h.m}
    BY <1>3, VerdictPromise
  <2>2. acked' = acked \cup {h.m} /\ dead' = dead
    BY <1>3 DEF Verdict
  <2> QED
    BY <1>1, <2>1, <2>2 DEF Promise!Accepted
<1>4. CASE Verdict(h, "requeue")
  <2>1. Pending' = Pending
    BY <1>4, VerdictPromise
  <2>2. acked' = acked /\ dead' = dead
    BY <1>4 DEF Verdict
  <2> QED
    BY <1>1, <2>1, <2>2 DEF Promise!Accepted
<1> QED
  BY <1>1, <1>2, <1>3, <1>4, ReturnAnswers

LEMMA PromiseThrow ==
  ASSUME FastInv, MaxRetries # 0, NEW h \in handlers, HandlerThrows(h)
  PROVE  Promise!Refused(h.m) \/ UNCHANGED Promise!promiseVars
<1>1. h.m \in Msgs /\ handled' = handled /\ ~(0 >= MaxRetries)
  BY ConsumerAssumption DEF FastInv, ConsumerInv, ConsumerTypeOK, Handler, HandlerThrows, ConsumerAssumption
<1>2. SendNothing => Pending' = Pending /\ acked' = acked /\ dead' = dead
  BY DEF SendNothing, Pending
<1>3. Verdict(h, "requeue") => Pending' = Pending /\ acked' = acked /\ dead' = dead
  BY VerdictPromise DEF Verdict
<1>4. Verdict(h, "drop") => /\ h.m \in Pending /\ Pending' = Pending \ {h.m}
                            /\ acked' = acked /\ dead' = dead \cup {h.m}
  BY VerdictPromise DEF Verdict
<1>5. CASE SendNothing \/ Verdict(h, "requeue")
  <2>1. Pending' = Pending /\ acked' = acked /\ dead' = dead
    BY <1>2, <1>3, <1>5
  <2>2. refused' = refused \/ refused' = refused \cup {h.m}
    BY ThrowAnswers
  <2> QED
    BY <1>1, <2>1, <2>2 DEF Promise!Refused, Promise!promiseVars
<1>6. CASE Verdict(h, "drop") /\ refused' = refused \cup {h.m}
  BY <1>1, <1>4, <1>6 DEF Promise!Refused
<1> QED
  BY <1>1, <1>5, <1>6, ThrowAnswers

LEMMA PromiseStep ==
  ASSUME FastInv, MaxRetries # 0, [ConsumerNext]_allVars
  PROVE  [Promise!Next]_(Promise!promiseVars)
<1>1. CASE PoolStep
  <2>1. BrokerFollows /\ UNCHANGED <<handled, refused, acked, dead>>
    BY <1>1 DEF PoolStep, Redial, During
  <2>2. Pending' = Pending
    BY <2>1 DEF BrokerFollows, Pending
  <2> QED
    BY <2>1, <2>2 DEF Promise!promiseVars
<1>2. CASE Consume \/ (\E c \in calls : Subscribed(c)) \/ UNCHANGED allVars
  BY <1>2 DEF Consume, Subscribed, allVars, consumerVars, Pending, Promise!promiseVars
<1>3. ASSUME NEW c \in consumers, NEW m \in ready, Deliver(c, m)
      PROVE  UNCHANGED Promise!promiseVars
  <2> DEFINE d == [m |-> m, to |-> c, ch |-> c.ch, tag |-> nextTag[c.ch]]
  <2>1. /\ ready' = ready \ {m} /\ unacked' = unacked \cup {d}
        /\ UNCHANGED <<handled, refused, acked, dead>>
    BY <1>3 DEF Deliver
  <2>2. d.m = m
    OBVIOUS
  <2> HIDE DEF d
  <2>3. Pending' = Pending
    BY <2>1, <2>2 DEF Pending
  <2> QED
    BY <2>1, <2>3 DEF Promise!promiseVars
<1>4. ASSUME NEW h \in handlers, HandlerReturns(h) \/ HandlerThrows(h)
      PROVE  [Promise!Next]_(Promise!promiseVars)
  <2>1. h.m \in Msgs
    BY DEF FastInv, ConsumerInv, ConsumerTypeOK, Handler
  <2> QED
    BY <1>4, <2>1, PromiseReturn, PromiseThrow DEF Promise!Next
<1> QED
  BY <1>1, <1>2, <1>3, <1>4 DEF ConsumerNext

-----------------------------------------------------------------------------
(* Theorems about fast handlers. *)

\* One connection at a time: with a consumer on it, whose acknowledgements go
\* to whatever channel the pool holds, the pool never races with itself.
THEOREM ConsumerConnectionReuse ==
  ASSUME FastPremise
  PROVE  ConsumerSpec => []ConnectionReuse
<1>1. FastInv => ConnectionReuse
  BY SteadyImplies DEF FastInv, ConsumerInv, SteadyInv
<1> QED
  BY <1>1, FastInvariant, PTL

\* A pool that lost its channel under a consumer looks for another one.
THEOREM ConsumerNeverStranded ==
  ASSUME FastPremise
  PROVE  ConsumerSpec => []NeverStranded
<1>1. FastInv => NeverStranded
  BY SteadyImplies DEF FastInv, ConsumerInv, SteadyInv
<1> QED
  BY <1>1, FastInvariant, PTL

\* After onDestroy's close() has succeeded, called while no dial was under
\* way, nothing is open and nothing will be, whatever the consumer still does.
THEOREM ConsumerCalmCloseIsFinal ==
  ASSUME FastPremise
  PROVE  ConsumerSpec => []CalmCloseIsFinal
<1>1. FastInv => CalmCloseIsFinal
  BY SteadyImplies DEF FastInv, ConsumerInv, SteadyInv
<1> QED
  BY <1>1, FastInvariant, PTL

\* prefetchCount: across reconnections, never two handlers at once.
THEOREM ConsumerOneHandler ==
  ASSUME FastPremise
  PROVE  ConsumerSpec => []OneHandler
<1>1. FastInv => OneHandler
  BY AtMostOne DEF FastInv, Fast, HandlerAlone, OneHandler
<1> QED
  BY <1>1, FastInvariant, PTL

\* Nothing is acknowledged that no handler accepted and nothing is dropped
\* that none refused, across lost connections, reused tags and close().
THEOREM ConsumerAtLeastOnce ==
  ASSUME FastPremise, MaxRetries # 0
  PROVE  ConsumerSpec => AtLeastOnceDelivery
<1>1. ConsumerInit => Promise!Init
  BY DEF ConsumerInit, Promise!Init, Pending
<1>2. FastInv /\ [ConsumerNext]_allVars => [Promise!Next]_(Promise!promiseVars)
  BY PromiseStep
<1> QED
  BY <1>1, <1>2, FastInvariant, PTL DEF ConsumerSpec, AtLeastOnceDelivery, Promise!Spec
=============================================================================
