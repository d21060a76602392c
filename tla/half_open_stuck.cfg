\* One failing circuit statement of a worker.
SPECIFICATION FairSpec
CONSTANTS
  Deliveries = {1, 2}
  NoDelivery = 0
  Endpoints = {e1}
  Tenants = {t1}
  Partitions = {p1}
  Workers = {w1}
  Schedulers = {s1}
  NoEndpoint = noEndpoint
  EndpointOf <- OneEndpoint
  TenantOf <- OneTenant
  PartitionOf <- OnePartition
  CreatedAt <- InOrder
  Responses = {"2xx", "4xx", "5xx"}
  Threshold = 2
  MaxAttempts = 3
  BatchSize = 2
  CircuitEnabled = TRUE
  StartOffset = "last"
  MaxSequence = 6
  MaxCopies = 2
  MaxFaults <- CircuitUpdateFault
PROPERTIES
  HalfOpenResolves
