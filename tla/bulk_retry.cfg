\* One original, two calls, two replays at most.
SPECIFICATION Spec
CONSTANTS
  Originals = {o1}
  Deliveries = {o1, n1, n2}
  NoDelivery = noDelivery
  Endpoints = {e1}
  EndpointOf <- OneEndpoint
  Filters <- OneFilter
  Calls = {c1, c2}
  Faults = {}
  MaxRepeats = 0
INVARIANTS
  RetryCreatesNoDuplicate
CHECK_DEADLOCK FALSE
