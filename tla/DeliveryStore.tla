---------------------------- MODULE DeliveryStore ----------------------------
(***************************************************************************)
(* The rows of the tables `deliveries` and `attempts`, and the SQL         *)
(* statements of internal/store/delivery_store.go that change one row.     *)
(* Every statement is one atomic UPDATE, so each is a function from a row  *)
(* to a row.                                                               *)
(*                                                                         *)
(* Timestamps are abstracted to what the statements compare with NOW():    *)
(*   due    next_attempt_at <= NOW()                                       *)
(*   lease  in_flight_lease_until: "none" (NULL), "live", "expired"        *)
(***************************************************************************)
EXTENDS Naturals

\* The enum delivery_status; "absent" is a row not inserted yet.
Statuses == {"absent", "scheduled", "in_flight", "delivered", "permanently_failed"}

TerminalStatuses == {"delivered", "permanently_failed"}

LeaseStates == {"none", "live", "expired"}

\* The type of a row of `deliveries`.
DeliveryRow == [status: Statuses, attemptCount: Nat, due: BOOLEAN, lease: LeaseStates]

\* The enum attempt_outcome.
AttemptOutcomes == {"success", "permanent_failure", "transient_failure", "timeout"}

\* A row of `attempts`: not inserted, inserted by InsertStarted (completed_at is
\* NULL and outcome a placeholder), or finalised by UpdateOutcome.
AttemptRow == {"absent", "started"} \cup AttemptOutcomes

AbsentRow == [status |-> "absent", attemptCount |-> 0, due |-> FALSE, lease |-> "none"]

\* The INSERT of a submission: scheduled, no attempt, next_attempt_at = NOW().
ScheduledRow == [status |-> "scheduled", attemptCount |-> 0, due |-> TRUE, lease |-> "none"]

\* status IN ('delivered', 'permanently_failed')
IsTerminal(row) == row.status \in TerminalStatuses

\* The row exists and its status is NOT IN ('delivered', 'permanently_failed').
IsNonTerminal(row) == row.status \in {"scheduled", "in_flight"}

\* The UPDATE of ClaimReady.
ClaimRow(row) == [row EXCEPT !.status = "in_flight", !.lease = "live"]

\* The three outcome UPDATEs. Their only condition is WHERE id = $1: they apply
\* whatever the status of the row is.
MarkDelivered(row) ==
  [row EXCEPT !.status = "delivered", !.lease = "none", !.attemptCount = row.attemptCount + 1]

MarkPermanentlyFailed(row) ==
  [row EXCEPT !.status = "permanently_failed", !.lease = "none",
              !.attemptCount = row.attemptCount + 1]

\* next_attempt_at is now + Delay(attemptSeq + 1), which is positive for every
\* attempt after the first: the row is not due when the statement returns.
Reschedule(row) ==
  [row EXCEPT !.status = "scheduled", !.lease = "none", !.due = FALSE,
              !.attemptCount = row.attemptCount + 1]

\* Mutants of ResurrectRow: the lost attempt is counted; a lease that still runs is
\* taken away; the lease is cleared and the status is not.
ResurrectRow_Counts(row) ==
  IF row.status = "in_flight" /\ row.lease = "expired"
    THEN [row EXCEPT !.status = "scheduled", !.lease = "none", !.attemptCount = @ + 1]
    ELSE row

ResurrectRow_AnyLease(row) ==
  IF row.status = "in_flight" THEN [row EXCEPT !.status = "scheduled", !.lease = "none"] ELSE row

ResurrectRow_KeepsStatus(row) ==
  IF row.status = "in_flight" /\ row.lease = "expired" THEN [row EXCEPT !.lease = "none"] ELSE row

\* The reaper's UPDATE: status = 'in_flight' AND in_flight_lease_until < NOW().
\* attempt_count and next_attempt_at are left alone.
ResurrectRow(row) ==
  IF row.status = "in_flight" /\ row.lease = "expired"
    THEN [row EXCEPT !.status = "scheduled", !.lease = "none"]
    ELSE row
=============================================================================
