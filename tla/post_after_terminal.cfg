\* One lease that runs out while its message is on the way.
SPECIFICATION Spec
CONSTANTS
  Deliveries = {1, 2}
  NoDelivery = 0
  Endpoints = {e1}
  Tenants = {t1}
  Partitions = {p1}
  Workers = {w1, w2}
  Schedulers = {s1}
  NoEndpoint = noEndpoint
  EndpointOf <- OneEndpoint
  TenantOf <- OneTenant
  PartitionOf <- OnePartition
  CreatedAt <- InOrder
  Responses = {"2xx", "4xx", "5xx"}
  Threshold = 2
  MaxAttempts = 3
  BatchSize = 2
  CircuitEnabled = FALSE
  StartOffset = "first"
  MaxSequence = 6
  MaxCopies = 2
  MaxFaults <- LeaseFault
PROPERTIES
  NoPostAfterTerminal
