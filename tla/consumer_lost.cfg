SPECIFICATION ConsumerSpec
CONSTANTS
  MaxDials = 4
  MaxFaults = 2
  ChannelFaults = FALSE
  HealthCheck = FALSE
  Msgs = {m1, m2}
  MaxRetries = 3
  MaxFailures = 0
  NoRetry = FALSE
  SlowHandlers = TRUE
INVARIANT AckedWasHandled
CHECK_DEADLOCK FALSE
