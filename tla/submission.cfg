\* Two requests, two payloads, two keys that share an advisory lock, and a clock that
\* outlasts two windows, under fairness.
SPECIFICATION FairSpec
CONSTANTS
  Requests = {r1, r2}
  NoRequest = noRequest
  Keys = {k1, k2}
  NoKey = noKey
  Payloads = {x, y}
  LockKeys = {l1}
  lockKey <- OneLock
  Window = 1
  MaxNow = 3
INVARIANTS
  TypeOK
  AnswersExplained
PROPERTIES
  WindowRespected
  EveryRequestAnswered
