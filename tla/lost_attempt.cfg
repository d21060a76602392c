\* One crash of a worker.
SPECIFICATION FairSpec
CONSTANTS
  Deliveries = {1, 2}
  NoDelivery = 0
  Endpoints = {e1}
  Tenants = {t1}
  Partitions = {p1}
  Workers = {w1, w2}
  Schedulers = {s1}
  NoEndpoint = noEndpoint
  EndpointOf <- OneEndpoint
  TenantOf <- OneTenant
  PartitionOf <- OnePartition
  CreatedAt <- InOrder
  Responses = {"2xx", "4xx", "5xx"}
  Threshold = 2
  MaxAttempts = 2
  BatchSize = 2
  CircuitEnabled = FALSE
  StartOffset = "last"
  MaxSequence = 6
  MaxCopies = 2
  MaxFaults <- CrashFault
PROPERTIES
  EventuallyTerminal
