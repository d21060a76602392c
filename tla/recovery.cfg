\* The reaper and the scheduler bring back what an aborted tick or a failing
\* statement left behind, with the offset the binary starts from. Leases outlast
\* the work they cover.
SPECIFICATION FairSpec
CONSTANTS
  Deliveries = {1, 2}
  NoDelivery = 0
  Endpoints = {e1}
  Tenants = {t1}
  Partitions = {p1}
  Workers = {w1, w2}
  Schedulers = {s1}
  NoEndpoint = noEndpoint
  EndpointOf <- OneEndpoint
  TenantOf <- OneTenant
  PartitionOf <- OnePartition
  CreatedAt <- InOrder
  Responses = {"2xx", "3xx", "429", "4xx", "5xx", "deadline", "transport"}
  Threshold = 2
  MaxAttempts = 2
  BatchSize = 2
  CircuitEnabled = FALSE
  StartOffset = "last"
  MaxSequence = 6
  MaxCopies = 2
  MaxFaults <- BenignFaults
INVARIANTS
  RetryBudget
  AttemptsComplete
PROPERTIES
  NoPostAfterTerminal
  LifecycleRefined
  EventuallyTerminal
