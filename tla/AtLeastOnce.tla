---------------------------- MODULE AtLeastOnce ----------------------------
(***************************************************************************)
(* What a queue with acknowledgements promises its application, with no    *)
(* connection, channel or tag in sight: a message stays pending until a    *)
(* handler run that accepted it, or refused it for good, is over; it is    *)
(* then gone once and for all.  RabbitConsumer is meant to implement this. *)
(***************************************************************************)
CONSTANT Msgs

VARIABLES pending, handled, refused, acked, dead

promiseVars == <<pending, handled, refused, acked, dead>>

Init ==
  /\ pending = Msgs
  /\ handled = {} /\ refused = {} /\ acked = {} /\ dead = {}

\* A handler run accepts m; its acknowledgement arrives or is lost.
Accepted(m) ==
  /\ m \in Msgs
  /\ handled' = handled \cup {m}
  /\ \/ /\ m \in pending
        /\ pending' = pending \ {m}
        /\ acked' = acked \cup {m}
     \/ UNCHANGED <<pending, acked>>
  /\ UNCHANGED <<refused, dead>>

\* A handler run refuses m for good; the broker hears of it or does not.
Refused(m) ==
  /\ m \in Msgs
  /\ refused' = refused \cup {m}
  /\ \/ /\ m \in pending
        /\ pending' = pending \ {m}
        /\ dead' = dead \cup {m}
     \/ UNCHANGED <<pending, dead>>
  /\ UNCHANGED <<handled, acked>>

Next == \E m \in Msgs : Accepted(m) \/ Refused(m)

\* Every message is settled in the end.
Settles == <>(pending = {})

Spec == Init /\ [][Next]_promiseVars
=============================================================================
