\* Handlers end before the pool redials; the network fails three times.
SPECIFICATION FairConsumerSpec
CONSTANTS
  MaxDials = 6
  MaxFaults = 3
  ChannelFaults = FALSE
  HealthCheck = FALSE
  Msgs = {m1, m2}
  MaxRetries = 3
  MaxFailures = 1
  NoRetry = TRUE
  SlowHandlers = FALSE
INVARIANTS OneHandler NeverStranded ConnectionReuse CalmCloseIsFinal
PROPERTIES AtLeastOnceDelivery Drains Reconnects
CHECK_DEADLOCK FALSE
