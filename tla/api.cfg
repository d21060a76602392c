\* Two requests of any kind and a worker, or one walk through the DLQ, while the
\* server boots, serves and is stopped.
SPECIFICATION FairSpec
CONSTANTS
  Tenants = {t1}
  Endpoints = {e1}
  Requests = {r1, r2}
  Signers = {w1}
  FirstSecret = firstSecret
  None = none
  Faults = {"statement", "unknown", "disconnect"}
  Deliveries = {d1, d2, d3}
  Times = {1, 2, 3}
  Limits = {1, 2}
  MaxDepartures = 1
  MixedClients = FALSE
INVARIANTS
  TypeOK
  LastRotationWins
  ActiveSecretAccounted
  FreshSignatures
  PagesCover
  CleanExitLosesNothing
PROPERTIES
  StopEnds
CHECK_DEADLOCK FALSE
