\* Two calls on one original and the three replays they can create, with a filter that
\* matches and one that does not; a message is delivered again, reads and other
\* statements fail.
SPECIFICATION FairSpec
CONSTANTS
  Originals = {o1}
  Deliveries = {o1, n1, n2, n3}
  NoDelivery = noDelivery
  Endpoints = {e1, e2}
  EndpointOf <- OneEndpoint
  Filters <- EndpointFilters
  Calls = {c1, c2}
  Faults = {"redelivery", "get"}
  MaxRepeats = 1
INVARIANTS
  TypeOK
  OneActiveReplay
  SourceFailed
  BulkCovered
PROPERTIES
  CallsEnd
CHECK_DEADLOCK FALSE
