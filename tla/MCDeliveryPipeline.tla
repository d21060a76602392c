------------------------- MODULE MCDeliveryPipeline -------------------------
(* Small instances of DeliveryPipeline. *)
EXTENDS DeliveryPipeline, TLC

\* Deliveries are 1..n, created in that order.
InOrder == [d \in Deliveries |-> d]

\* Every delivery goes to the one endpoint.
OneEndpoint == [d \in Deliveries |-> CHOOSE e \in Endpoints : TRUE]

\* Deliveries go to the endpoints 1 and 2 by turns.
Alternating == [d \in Deliveries |-> 2 - (d % 2)]

OneTenant == [e \in Endpoints |-> CHOOSE t \in Tenants : TRUE]
OnePartition == [e \in Endpoints |-> CHOOSE p \in Partitions : TRUE]

WorkerSymmetry == Permutations(Workers)

\* Each of these kinds of fault, once.
Once(kinds) == [k \in FaultKinds |-> IF k \in kinds THEN 1 ELSE 0]

\* What makes a message come back, or a lease run out early.
RedeliveryFaults == Once({"crash", "rebalance", "lease"})

\* What makes messages for one endpoint overlap with probes, and failing circuit
\* statements of the scheduler.
CircuitFaults == Once({"publish", "stall", "probe"})

\* What goes wrong without a message coming back and without a started attempt
\* losing its UPDATE of the delivery.
BenignFaults == Once({"scheduler", "load", "insert", "record", "circuit", "commit"})

\* What may break the assignment of a probe.
ProbeFaults == Once({"probe", "scheduler"})

CircuitUpdateFault == Once({"circuit"})
CrashFault == Once({"crash"})
LeaseFault == Once({"lease"})

\* The retry schedule in seconds, as far as its waits can be enumerated; the theorem of
\* RetrySchedule has the whole of it.
Schedule == INSTANCE RetrySchedule WITH Second <- 1

ASSUME ShortWaitsGrow == \A n \in 2..5 : Schedule!WaitsGrow(n)
=============================================================================
