\* A rotation while a worker has read the secret and not signed with it yet.
SPECIFICATION Spec
CONSTANTS
  Tenants = {t1}
  Endpoints = {e1}
  Requests = {r1}
  Signers = {w1}
  FirstSecret = firstSecret
  None = none
  Faults = {}
  Deliveries = {}
  Times = {}
  Limits = {}
  MaxDepartures = 0
  MixedClients = FALSE
PROPERTIES
  SignedWithActive
CHECK_DEADLOCK FALSE
