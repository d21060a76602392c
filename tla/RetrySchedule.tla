---------------------------- MODULE RetrySchedule ---------------------------
(***************************************************************************)
(* domain.Delay: how long a delivery waits before an attempt, in integer   *)
(* arithmetic on durations. rand.Int63n is any value of its range, so a    *)
(* call of Delay is a member of a set.                                     *)
(***************************************************************************)
EXTENDS Integers, Sequences, TLAPS

CONSTANT Second   \* time.Second: the number of units in one second

productionSchedule ==
  <<1, 5, 30, 5 * 60, 30 * 60, 2 * 3600, 8 * 3600, 24 * 3600>>

\* domain.MaxAttempts: one attempt and eight retries.
AttemptBudget == 1 + 8

\* base + rand.Int63n(span) - span/2, or base itself where there is nothing to draw from.
\* In nanoseconds 30 times a day is 2.6 * 10^15: int64 is far from its limit.
applyJitter(base) ==
  LET span == (base * 30) \div 100
  IN IF base <= 0 THEN {0}
     ELSE IF span <= 0 THEN {base}
     ELSE (base - span \div 2) .. (base + span - 1 - span \div 2)

\* The waits before attempt n.
Delay(n) ==
  IF n < 2 \/ n > AttemptBudget THEN {0}
  ELSE applyJitter(productionSchedule[n - 1] * Second)

-----------------------------------------------------------------------------
(* Properties                                                              *)

\* FR-015 of 001-receive-deliver with the jitter of its plan: a retry waits, never as
\* long as the one after it, and within 15 % of its place in the schedule
\* (retry.go:57, 64, 79). The pipeline's Reschedule relies on the first part: a
\* rescheduled delivery is not due at once.
WaitsGrow(n) ==
  LET base == productionSchedule[n - 1] * Second
  IN \A wait \in Delay(n) :
       /\ wait > 0
       /\ 85 * base <= 100 * wait /\ 100 * wait <= 115 * base
       /\ n < AttemptBudget => \A next \in Delay(n + 1) : wait < next

-----------------------------------------------------------------------------
(* Theorems                                                                *)

\* The jitter keeps within 15 % of its base, whatever the unit of time.
LEMMA JitterBounds ==
  ASSUME NEW base \in Nat \ {0}, NEW wait \in applyJitter(base)
  PROVE  /\ wait \in Int
         /\ 85 * base <= 100 * wait
         /\ 100 * wait <= 115 * base
BY DEF applyJitter

\* The entries of the schedule.
LEMMA Entries ==
  /\ productionSchedule[1] = 1 /\ productionSchedule[2] = 5
  /\ productionSchedule[3] = 30 /\ productionSchedule[4] = 300
  /\ productionSchedule[5] = 1800 /\ productionSchedule[6] = 7200
  /\ productionSchedule[7] = 28800 /\ productionSchedule[8] = 86400
BY DEF productionSchedule

\* Every retry of Delay waits, within 15 % of the schedule and less than the next one.
THEOREM RetriesSpreadOut == ASSUME Second \in Nat \ {0} PROVE \A n \in 2..AttemptBudget : WaitsGrow(n)
<1> SUFFICES ASSUME NEW n \in 2..9, NEW wait \in Delay(n)
             PROVE  /\ wait > 0
                    /\ 85 * (productionSchedule[n - 1] * Second) <= 100 * wait
                    /\ 100 * wait <= 115 * (productionSchedule[n - 1] * Second)
                    /\ n < 9 => \A next \in Delay(n + 1) : wait < next
  BY DEF WaitsGrow, AttemptBudget
<1> DEFINE base(k) == productionSchedule[k - 1] * Second
<1>1. ASSUME NEW k \in 2..9
      PROVE  /\ Delay(k) = applyJitter(base(k))
             /\ base(k) \in Nat \ {0}
  <2>1. Delay(k) = applyJitter(base(k))
    BY DEF Delay, AttemptBudget
  <2>2. productionSchedule[k - 1] \in Nat \ {0}
    BY Entries
  <2> QED
    BY <2>1, <2>2
<1>2. ASSUME NEW k \in 2..9, NEW w \in Delay(k)
      PROVE  /\ w \in Int
             /\ 85 * base(k) <= 100 * w
             /\ 100 * w <= 115 * base(k)
  <2> HIDE DEF base
  <2> QED
    BY <1>1, JitterBounds
<1>3. wait > 0
  <2> HIDE DEF base
  <2> QED
    BY <1>1, <1>2
<1>4. ASSUME n < 9, NEW next \in Delay(n + 1)
      PROVE  wait < next
  <2>1. 2 * base(n) <= base(n + 1)
    BY Entries, <1>4
  <2>2. n + 1 \in 2..9
    BY <1>4
  <2> HIDE DEF base
  <2> QED
    BY <1>1, <1>2, <1>4, <2>1, <2>2
<1> QED
  BY <1>2, <1>3, <1>4
=============================================================================
