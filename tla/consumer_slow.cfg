\* Handlers outlive reconnections, the broker closes channels, a health check
\* runs.
SPECIFICATION ConsumerSpec
CONSTANTS
  MaxDials = 3
  MaxFaults = 2
  ChannelFaults = TRUE
  HealthCheck = TRUE
  Msgs = {m1}
  MaxRetries = 3
  MaxFailures = 1
  NoRetry = TRUE
  SlowHandlers = TRUE
INVARIANTS NoDeadChannel StateTellsTruth
CHECK_DEADLOCK FALSE
