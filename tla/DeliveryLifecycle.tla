-------------------------- MODULE DeliveryLifecycle --------------------------
(***************************************************************************)
(* The life of a delivery as the domain package promises it: a method of   *)
(* domain.Delivery that finds the delivery in another status than the one  *)
(* it starts from returns ErrInvalidTransition. No method leaves a         *)
(* terminal status, and every method that ends an attempt counts it once.  *)
(* The store does not call these methods: its statements set the status    *)
(* whatever it was. Several deliveries may move in one step, since         *)
(* ClaimReady and ResurrectExpiredLeases update many rows.                 *)
(***************************************************************************)
EXTENDS Naturals

CONSTANT Deliveries

VARIABLE life  \* status and attempt count of each delivery

Init == life = [d \in Deliveries |-> [status |-> "absent", attemptCount |-> 0]]

Create(d) ==
  /\ life[d].status = "absent"
  /\ life'[d] = [status |-> "scheduled", attemptCount |-> 0]

MarkInFlight(d) ==
  /\ life[d].status = "scheduled"
  /\ life'[d] = [life[d] EXCEPT !.status = "in_flight"]

\* The end of an attempt.
Finish(d, status) ==
  /\ life[d].status = "in_flight"
  /\ life'[d] = [status |-> status, attemptCount |-> life[d].attemptCount + 1]

MarkDelivered(d) == Finish(d, "delivered")

MarkPermanentlyFailed(d) == Finish(d, "permanently_failed")

RescheduleAfter(d) == Finish(d, "scheduled")

\* The lease of an attempt that was never made ran out.
Resurrect(d) ==
  /\ life[d].status = "in_flight"
  /\ life'[d] = [life[d] EXCEPT !.status = "scheduled"]

Next ==
  \A d \in Deliveries :
    \/ life'[d] = life[d]
    \/ Create(d) \/ MarkInFlight(d) \/ MarkDelivered(d) \/ MarkPermanentlyFailed(d)
    \/ RescheduleAfter(d) \/ Resurrect(d)

Spec == Init /\ [][Next]_life
=============================================================================
