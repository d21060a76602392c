---------------------------- MODULE CircuitStore -----------------------------
(***************************************************************************)
(* The circuit_* columns of the table `endpoints` and the SQL statements   *)
(* of internal/store/circuit_store.go that change one row. As in           *)
(* DeliveryStore each statement is one atomic UPDATE, whose WHERE clause   *)
(* makes it a no-op on the rows it does not select.                        *)
(*                                                                         *)
(* circuit_suspended_until is abstracted to "none" (NULL), "running" (in   *)
(* the future) and "elapsed" (<= NOW()).                                   *)
(***************************************************************************)
EXTENDS Naturals

CONSTANTS Deliveries,   \* ids a probe may refer to
          NoDelivery,   \* NULL in circuit_probe_delivery_id
          Threshold     \* config.CircuitConfig.Threshold

ASSUME ThresholdAssumption == Threshold \in Nat \ {0}
ASSUME NoDeliveryAssumption == NoDelivery \notin Deliveries

CircuitStates == {"closed", "open", "half_open"}

CircuitRow == [state: CircuitStates,
               failureCount: Nat,
               suspendedUntil: {"none", "running", "elapsed"},
               sensitiveRecovery: BOOLEAN,
               probe: Deliveries \cup {NoDelivery}]

\* The column defaults of migration 006.
InitialCircuit == [state |-> "closed", failureCount |-> 0, suspendedUntil |-> "none",
                   sensitiveRecovery |-> FALSE, probe |-> NoDelivery]

\* No-op on open circuits. The CASE reads the state the row had before.
HandleSuccess(row) ==
  IF row.state = "open"
    THEN row
    ELSE [state |-> "closed", failureCount |-> 0, suspendedUntil |-> "none",
          sensitiveRecovery |-> (row.state = "half_open"), probe |-> NoDelivery]

\* The WHEN branches of HandleTransientFailure that open the circuit.
Trips(row) ==
  \/ row.state = "half_open"
  \/ row.sensitiveRecovery
  \/ row.failureCount + 1 >= Threshold

\* Mutant of HandleTransientFailure: a failed probe reopens the circuit without a new
\* suspension.
HandleTransientFailure_NoSuspension(row) ==
  IF row.state = "open"
    THEN row
    ELSE [state |-> IF Trips(row) THEN "open" ELSE "closed",
          failureCount |-> row.failureCount + 1,
          suspendedUntil |-> IF Trips(row) /\ row.state = "closed" THEN "running"
                                                                   ELSE row.suspendedUntil,
          sensitiveRecovery |-> FALSE,
          probe |-> IF row.state = "half_open" THEN NoDelivery ELSE row.probe]

\* No-op on open circuits.
HandleTransientFailure(row) ==
  IF row.state = "open"
    THEN row
    ELSE [state |-> IF Trips(row) THEN "open" ELSE "closed",
          failureCount |-> row.failureCount + 1,
          suspendedUntil |-> IF Trips(row) THEN "running" ELSE row.suspendedUntil,
          sensitiveRecovery |-> FALSE,
          probe |-> IF row.state = "half_open" THEN NoDelivery ELSE row.probe]

\* WHERE circuit_state = 'half_open'; the counter is not incremented.
HandleProbePermanentFailure(row) ==
  IF row.state = "half_open"
    THEN [row EXCEPT !.state = "open", !.suspendedUntil = "running", !.probe = NoDelivery]
    ELSE row

\* An endpoint ProcessExpiredSuspensions selects.
SuspensionExpired(row) == row.state = "open" /\ row.suspendedUntil = "elapsed"

\* The UPDATE of ProcessExpiredSuspensions; queued: the endpoint has a
\* non-terminal delivery.
ExpireSuspension(row, queued) ==
  IF ~SuspensionExpired(row) THEN row
  ELSE IF queued
    THEN [row EXCEPT !.state = "half_open", !.suspendedUntil = "none"]
    ELSE [row EXCEPT !.state = "closed", !.failureCount = 0, !.suspendedUntil = "none"]

\* Mutant of IsOrphaned: looks for an endpoint whose suspension is over, which a
\* half_open one no longer has.
IsOrphaned_Suspended(row) ==
  row.state = "half_open" /\ row.probe = NoDelivery /\ row.suspendedUntil = "elapsed"

\* OrphanedHalfOpenEndpoints: half_open without a probe.
IsOrphaned(row) == row.state = "half_open" /\ row.probe = NoDelivery

\* Mutant of AssignProbe: WHERE id only.
AssignProbe_AnyState(row, d) == [row EXCEPT !.probe = d]

\* The second statement of SetProbeDelivery.
AssignProbe(row, d) ==
  IF row.state = "half_open" THEN [row EXCEPT !.probe = d] ELSE row

\* The empty-queue fallback of SetProbeDelivery.
CloseEmpty(row) ==
  IF row.state = "half_open"
    THEN [row EXCEPT !.state = "closed", !.failureCount = 0, !.probe = NoDelivery]
    ELSE row

\* The circuit condition of ClaimReady for delivery d.
AdmitsDelivery(row, d) ==
  \/ row.state = "closed"
  \/ row.state = "half_open" /\ row.probe = d
=============================================================================
