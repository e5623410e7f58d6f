--------------------------- MODULE RabbitConsumer ---------------------------
(***************************************************************************)
(* packages/rabbitmq/src/consumer.service.ts on top of ConnectionPool: one *)
(* queue, its subscription, the handlers that run for its messages, and    *)
(* the acknowledgements they send.  Every step of the pool is a step here, *)
(* together with what the broker and the consumer make of it.              *)
(*                                                                         *)
(* The broker is external: a message is ready or delivered to a consumer   *)
(* under a tag that counts from 1 on each channel; the end of a channel    *)
(* makes everything delivered on it ready again; an acknowledgement with a *)
(* tag the channel does not know closes the channel (406).  A requeued     *)
(* message comes back with the headers it was published with.              *)
(***************************************************************************)
EXTENDS ConnectionPool

CONSTANTS
  Msgs,         \* the messages published to the queue
  MaxRetries,   \* retryStrategy.maxRetries
  MaxFailures,  \* how many handler runs may throw, in all
  NoRetry,      \* may a handler throw a NoRetryError?
  SlowHandlers  \* may a handler outlive the five seconds before a redial?

ASSUME ConsumerAssumption ==
  /\ MaxRetries \in Nat
  /\ MaxFailures \in Nat
  /\ NoRetry \in BOOLEAN
  /\ SlowHandlers \in BOOLEAN

VARIABLES
  subscribed,  \* does `subscriptions' hold the queue?
  calls,       \* subscribeToQueue() calls that await the broker
  consumers,   \* the consumers the broker knows
  ready,       \* messages in the queue
  unacked,     \* deliveries without an acknowledgement
  nextTag,     \* nextTag[k]: the next delivery tag on channel k
  handlers,    \* handleMessage() calls that await their handler
  failures,    \* handler runs that threw
  handled,     \* history: messages some handler run accepted
  refused,     \* history: messages some handler run refused for good
  acked,       \* messages the broker dropped because of an ack
  dead         \* messages the broker dropped because of a nack

consumerVars == <<subscribed, calls, consumers, ready, unacked, nextTag,
                  handlers, failures, handled, refused, acked, dead>>
allVars == <<vars, consumerVars>>

\* The caller of subscribeToQueue: consume(), or the 'connected' listener
\* that ran for dial k.
App == 0

Call     == [by : Dials \cup {App}, ch : Dials]
Delivery == [m : Msgs, to : Call, ch : Dials, tag : Nat]
\* The channel that delivered, the tag it gave, the channel handleMessage
\* captured, and the x-retry-count header of the message.
Handler  == [m : Msgs, on : Dials, tag : Nat, ch : Dials, retry : Nat]

-----------------------------------------------------------------------------
(* What a step of the pool does to the consumer's side.                    *)

\* Deliveries and consumers end with their channel.
BrokerFollows ==
  /\ consumers' = {c \in consumers : chan'[c.ch] \in Alive}
  /\ unacked' = {d \in unacked : chan'[d.ch] \in Alive}
  /\ ready' = ready \cup {d.m : d \in unacked \ unacked'}

\* Mutant: no listener for 'connected'.
ConnectedListenerIdle == calls' = calls

\* The 'connected' listener resubscribes, unless close() removed it.
ConnectedListener ==
  LET up == {k \in Dials : dial'[k] = "connected" /\ dial[k] # "connected"}
  IN  calls' = IF subscribed /\ closer.at = "idle"
               THEN calls \cup {[by |-> k, ch |-> k] : k \in up} ELSE calls

\* A step A of the pool.
During(A) ==
  /\ A
  /\ ConnectedListener
  /\ BrokerFollows
  /\ UNCHANGED <<subscribed, nextTag, handlers, failures, handled, refused,
                 acked, dead>>

\* The reconnect delay is longer than any handler runs, or it is not.
Redial == During(TimerFires) /\ (SlowHandlers \/ handlers = {})

PoolStep ==
  \/ During(OnInit) \/ Redial \/ During(HealthTick)
  \/ During(OnDestroy) \/ During(CloseChannelClosed)
  \/ During(CloseConnectionClosed)
  \/ \E k \in Dials : \/ During(DialStep(k))
                       \/ During(ConnectionLost(k))
                       \/ During(ChannelLost(k))

-----------------------------------------------------------------------------
(* Subscribing.                                                            *)

\* RabbitMQService.consume: the subscription is recorded before anything can
\* fail; without a channel the call rejects.
Consume ==
  /\ Settled
  /\ initialized
  /\ ~subscribed
  /\ subscribed' = TRUE
  /\ calls' = IF pool.channel = None THEN calls
              ELSE calls \cup {[by |-> App, ch |-> pool.channel]}
  /\ UNCHANGED <<vars, consumers, ready, unacked, nextTag, handlers, failures,
                 handled, refused, acked, dead>>

\* The last await of subscribeToQueue settles.
Subscribed(c) ==
  /\ Settled
  /\ c \in calls
  /\ calls' = calls \ {c}
  /\ consumers' = IF chan[c.ch] = "open" THEN consumers \cup {c}
                  ELSE consumers
  /\ UNCHANGED <<vars, subscribed, ready, unacked, nextTag, handlers,
                 failures, handled, refused, acked, dead>>

-----------------------------------------------------------------------------
(* Delivery: prefetch 1 for each consumer.                                 *)

\* Mutant: subscribeToQueue does not set the prefetch count.
DeliverWithoutPrefetch(c, m) ==
  /\ Settled
  /\ c \in consumers
  /\ chan[c.ch] = "open"
  /\ m \in ready
  /\ ready' = ready \ {m}
  /\ unacked' = unacked \cup
       {[m |-> m, to |-> c, ch |-> c.ch, tag |-> nextTag[c.ch]]}
  /\ nextTag' = [nextTag EXCEPT ![c.ch] = @ + 1]
  /\ handlers' = handlers \cup {[m |-> m, on |-> c.ch, tag |-> nextTag[c.ch],
                                 ch |-> c.ch, retry |-> 0]}
  /\ UNCHANGED <<vars, subscribed, calls, consumers, failures, handled,
                 refused, acked, dead>>

\* handleMessage up to its first await.  It captures the pool's channel, not
\* the one that delivered; with no channel it throws outside its try block
\* and nobody will answer for the message.
Deliver(c, m) ==
  /\ Settled
  /\ c \in consumers
  /\ chan[c.ch] = "open"
  /\ m \in ready
  /\ \A d \in unacked : d.to # c
  /\ ready' = ready \ {m}
  /\ unacked' = unacked \cup
       {[m |-> m, to |-> c, ch |-> c.ch, tag |-> nextTag[c.ch]]}
  /\ nextTag' = [nextTag EXCEPT ![c.ch] = @ + 1]
  /\ handlers' =
       IF pool.channel = None THEN handlers
       ELSE handlers \cup {[m |-> m, on |-> c.ch, tag |-> nextTag[c.ch],
                            ch |-> pool.channel, retry |-> 0]}
  /\ UNCHANGED <<vars, subscribed, calls, consumers, failures, handled,
                 refused, acked, dead>>

-----------------------------------------------------------------------------
(* Acknowledgements.                                                       *)

Named(ch, tag) == {d \in unacked : d.ch = ch /\ d.tag = tag}

\* Mutant: a nack never asks for the message to be requeued.
AcceptNoRequeue(ch, tag, verdict) ==
  /\ Named(ch, tag) # {}
  /\ UNCHANGED <<vars, consumers, ready>>
  /\ unacked' = unacked \ Named(ch, tag)
  /\ LET ms == {d.m : d \in Named(ch, tag)} IN
       /\ acked' = IF verdict = "ack" THEN acked \cup ms ELSE acked
       /\ dead' = IF verdict = "drop" THEN dead \cup ms ELSE dead

\* The broker takes `verdict' for a tag it knows on channel ch.
Accept(ch, tag, verdict) ==
  /\ Named(ch, tag) # {}
  /\ UNCHANGED <<vars, consumers>>
  /\ unacked' = unacked \ Named(ch, tag)
  /\ LET ms == {d.m : d \in Named(ch, tag)} IN
       /\ acked' = IF verdict = "ack" THEN acked \cup ms ELSE acked
       /\ dead' = IF verdict = "drop" THEN dead \cup ms ELSE dead
       /\ ready' = IF verdict = "requeue" THEN ready \cup ms ELSE ready

\* The broker closes the channel over a tag it does not know.
Reject(ch, tag) ==
  /\ Named(ch, tag) = {}
  /\ chan' = [chan EXCEPT ![ch] = "dead"]
  /\ pool' = afterChannelEnd(pool, ch)
  /\ UNCHANGED <<intervals, conn, dial, target, closer, muted, initialized,
                 faults, overtaken>>
  /\ BrokerFollows
  /\ UNCHANGED <<acked, dead>>

Send(ch, tag, verdict) == Accept(ch, tag, verdict) \/ Reject(ch, tag)

SendNothing == UNCHANGED <<vars, consumers, unacked, ready, acked, dead>>

\* handleError: the retry count is raised in the consumer's own copy of the
\* message, and the verdict goes to the channel the pool has now.
handleError(h, error) ==
  IF ~isConnected \/ chan[pool.channel] # "open" THEN SendNothing
  ELSE Send(pool.channel, h.tag,
            IF error = "NoRetryError" \/ h.retry >= MaxRetries
            THEN "drop" ELSE "requeue")

HandlerReturns(h) ==
  /\ Settled
  /\ h \in handlers
  /\ handlers' = handlers \ {h}
  /\ handled' = handled \cup {h.m}
  /\ IF isConnected /\ chan[h.ch] = "open"
     THEN Send(h.ch, h.tag, "ack")
     ELSE handleError(h, "Error")
  /\ UNCHANGED <<subscribed, calls, nextTag, failures, refused>>

HandlerThrows(h) ==
  /\ Settled
  /\ h \in handlers
  /\ failures < MaxFailures
  /\ failures' = failures + 1
  /\ handlers' = handlers \ {h}
  /\ \/ /\ handleError(h, "Error")
        /\ UNCHANGED refused
     \/ /\ NoRetry
        /\ handleError(h, "NoRetryError")
        /\ refused' = refused \cup {h.m}
  /\ UNCHANGED <<subscribed, calls, nextTag, handled>>

-----------------------------------------------------------------------------
ConsumerInit ==
  /\ Init
  /\ subscribed = FALSE
  /\ calls = {} /\ consumers = {}
  /\ ready = Msgs
  /\ unacked = {} /\ handlers = {}
  /\ nextTag = [k \in Dials |-> 1]
  /\ failures = 0
  /\ handled = {} /\ refused = {} /\ acked = {} /\ dead = {}

ConsumerNext ==
  \/ PoolStep
  \/ Consume
  \/ \E c \in calls : Subscribed(c)
  \/ \E c \in consumers, m \in ready : Deliver(c, m)
  \/ \E h \in handlers : HandlerReturns(h) \/ HandlerThrows(h)

ConsumerSpec == ConsumerInit /\ [][ConsumerNext]_allVars

\* Besides what the pool's Fairness says: the broker answers and delivers,
\* and a handler ends.
ConsumerFairness ==
  /\ WF_allVars(Redial)
  /\ \A k \in Dials : WF_allVars(During(DialStep(k)))
  /\ WF_allVars(\E c \in calls : Subscribed(c))
  /\ WF_allVars(\E c \in consumers, m \in ready : Deliver(c, m))
  /\ WF_allVars(\E h \in handlers : HandlerReturns(h) \/ HandlerThrows(h))

FairConsumerSpec == ConsumerSpec /\ ConsumerFairness

-----------------------------------------------------------------------------
Pending == ready \cup {d.m : d \in unacked}

\* The types of the variables; a message is in one place at a time.
ConsumerTypeOK ==
  /\ calls \subseteq Call /\ consumers \subseteq Call
  /\ unacked \subseteq Delivery
  /\ handlers \subseteq Handler
  /\ nextTag \in [Dials -> Nat]
  /\ failures \in 0 .. MaxFailures
  /\ \A S \in {handled, refused, acked, dead, ready} : S \subseteq Msgs
  /\ \A d, e \in unacked : d.m = e.m => d = e
  /\ \A d \in unacked : d.m \notin ready

\* The broker forgets a message on an ack only if a handler run accepted it
\* (an ack is sent for the message that was processed, lines 105-114).
AckedWasHandled == acked \subseteq handled

\* prefetchCount bounds how many handlers run at once (default 1).
OneHandler == Cardinality(handlers) <= 1

\* Seen from the application, the consumer is an at-least-once queue.
Promise == INSTANCE AtLeastOnce WITH pending <- Pending
AtLeastOnceDelivery == Promise!Spec

\* A subscribed service that is not destroyed settles every message, whatever
\* the network did to its connections meanwhile.
Drains == subscribed ~> (Pending = {} \/ closer.at # "idle")
=============================================================================
