\* A tenant with two endpoints and failing circuit statements in the scheduler.
SPECIFICATION FairSpec
CONSTANTS
  Deliveries = {1, 2, 3}
  NoDelivery = 0
  Endpoints = {1, 2}
  Tenants = {t1}
  Partitions = {p1}
  Workers = {w1}
  Schedulers = {s1}
  NoEndpoint = noEndpoint
  EndpointOf <- Alternating
  TenantOf <- OneTenant
  PartitionOf <- OnePartition
  CreatedAt <- InOrder
  Responses = {"2xx", "4xx", "5xx"}
  Threshold = 2
  MaxAttempts = 3
  BatchSize = 2
  CircuitEnabled = TRUE
  StartOffset = "last"
  MaxSequence = 6
  MaxCopies = 2
  MaxFaults <- ProbeFaults
PROPERTIES
  CircuitRespected
  EventuallyTerminal
  HalfOpenResolves
