\* Two workers and a scheduler on one circuit: duplicate messages, calls that
\* outlast a suspension, and circuit statements of the scheduler that fail.
SPECIFICATION Spec
CONSTANTS
  Deliveries = {1, 2}
  NoDelivery = 0
  Endpoints = {e1}
  Tenants = {t1}
  Partitions = {p1}
  Workers = {w1, w2}
  Schedulers = {s1}
  NoEndpoint = noEndpoint
  EndpointOf <- OneEndpoint
  TenantOf <- OneTenant
  PartitionOf <- OnePartition
  CreatedAt <- InOrder
  Responses = {"2xx", "4xx", "5xx"}
  Threshold = 2
  MaxAttempts = 3
  BatchSize = 2
  CircuitEnabled = TRUE
  StartOffset = "first"
  MaxSequence = 6
  MaxCopies = 2
  MaxFaults <- CircuitFaults
SYMMETRY WorkerSymmetry
INVARIANTS
  CircuitConsistent
