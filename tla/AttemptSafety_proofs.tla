------------------------ MODULE AttemptSafety_proofs -------------------------
(***************************************************************************)
(* What holds of the attempts and the status of a delivery.                *)
(*                                                                         *)
(* Whatever is redelivered, rebalanced, crashed or leased twice: attempts  *)
(* are serial and numbered without gaps (AttemptInv), a counted attempt    *)
(* lacks its outcome only if its UpdateOutcome failed (LossInv), and the   *)
(* last counted attempt explains the status (OutcomeInv). Few steps matter *)
(* to these: LoadForWorker reads the count, InsertStarted takes the number *)
(* after it (the UNIQUE index turns every other worker away),              *)
(* UpdateOutcome writes the outcome, TransitionDelivery counts. Every      *)
(* other step is a frame step.                                             *)
(*                                                                         *)
(* As long as no message comes back and no lease runs out early: a         *)
(* delivery has one holder at most (HandInv), so the budget is kept, no    *)
(* ended delivery is POSTed and the store implements DeliveryLifecycle.    *)
(***************************************************************************)
EXTENDS OrderSafety_proofs, FiniteSetTheorems

\* Where the seq field of a worker means something.
Numbered == {"insert"} \cup Attempting

\* A step that leaves counts and the presence of attempts alone, and moves no
\* worker into an attempt.
AttemptFrame ==
  /\ \A d \in Deliveries : delivery'[d].attemptCount = delivery[d].attemptCount
  /\ \A d \in Deliveries : \A s \in AttemptNumbers :
       attempts'[d][s] = "absent" <=> attempts[d][s] = "absent"
  /\ \A w \in Workers : worker'[w].pc \in Numbered =>
       /\ worker'[w].delivery = worker[w].delivery
       /\ worker'[w].seq = worker[w].seq
       /\ worker'[w].pc = "insert" <=> worker[w].pc = "insert"
       /\ worker[w].pc \in Numbered

\* The attempt_count of a row is a natural number.
LEMMA CountType ==
  ASSUME TypeOK, NEW d \in Deliveries
  PROVE  delivery[d].attemptCount \in Nat
  BY DEF TypeOK, DeliveryRow

\* The sequence number a worker computed is a natural number.
LEMMA SeqType ==
  ASSUME TypeOK, NEW w \in Workers
  PROVE  worker[w].seq \in Nat
  <1>1. worker[w] \in WorkerCall
    BY DEF TypeOK
  <1> QED
    BY <1>1 DEF WorkerCall

\* A frame step keeps the invariant.
LEMMA FrameKeepsAttemptInv ==
  ASSUME TypeOK, AttemptInv, AttemptFrame
  PROVE  AttemptInv'
  <1> USE DEF AttemptInv, AttemptFrame, Numbered, Attempting
  <1>0. \A w \in Workers : worker[w].pc \in Numbered => worker[w].delivery \in Deliveries
    BY WorkerDelivery
  <1>1. OneAttemptAtATime'
    BY DEF OneAttemptAtATime
  <1>2. AttemptNumbering'
    BY DEF AttemptNumbering
  <1>3. AttemptOwned'
    BY <1>0 DEF AttemptOwned
  <1> QED
    BY <1>1, <1>2, <1>3

\* Worker.process reads a count that is the delivery's.
LEMMA LoadKeepsAttemptInv ==
  ASSUME TypeOK, AttemptInv, NEW w \in Workers, LoadForWorker(w)
  PROVE  AttemptInv'
  <1> DEFINE d == worker[w].delivery
  <1> USE DEF Numbered, Attempting
  <1>0. d \in Deliveries /\ worker[w].pc = "load"
    BY WorkerDelivery DEF LoadForWorker
  <1>1. /\ worker'[w].pc = "insert" /\ worker'[w].delivery = d
        /\ worker'[w].seq = delivery[d].attemptCount + 1
    BY DEF LoadForWorker, WorkerBecomes, TypeOK, WorkerCall
  <1>2. \A v \in Workers : v # w => worker'[v] = worker[v]
    BY DEF LoadForWorker, WorkerBecomes, TypeOK
  <1>3. delivery' = delivery /\ attempts' = attempts
    BY DEF LoadForWorker, store
  <1>4. delivery[d].attemptCount \in Nat /\ delivery[d].attemptCount < MaxSequence
    BY <1>0, CountType DEF LoadForWorker
  <1>5. OneAttemptAtATime'
    BY <1>1, <1>2 DEF AttemptInv, OneAttemptAtATime
  <1>6. AttemptNumbering'
    BY <1>3 DEF AttemptInv, AttemptNumbering
  <1>7. AttemptOwned'
    <2> SUFFICES ASSUME NEW v \in Workers
                 PROVE  LET e == worker'[v].delivery
                            s == worker'[v].seq
                        IN /\ worker'[v].pc \in Numbered => s \in AttemptNumbers
                           /\ worker'[v].pc = "insert" => s <= delivery[e].attemptCount + 1
                           /\ worker'[v].pc \in Attempting =>
                                /\ s = delivery[e].attemptCount + 1
                                /\ attempts[e][s] # "absent"
      BY <1>3, Zenon DEF AttemptOwned
    <2>1. CASE v = w
      BY <1>1, <1>4, <2>1, BoundAssumption DEF AttemptNumbers
    <2>2. CASE v # w
      BY <1>2, <2>2 DEF AttemptInv, AttemptOwned
    <2> QED
      BY <2>1, <2>2
  <1> QED
    BY <1>5, <1>6, <1>7 DEF AttemptInv

\* A worker whose INSERT succeeds takes the number after the count, and was alone.
LEMMA InsertKeepsAttemptInv ==
  ASSUME TypeOK, AttemptInv, NEW w \in Workers, InsertStarted(w)
  PROVE  AttemptInv'
  <1> DEFINE d == worker[w].delivery
             s == worker[w].seq
  <1> USE DEF Numbered, Attempting
  <1>0. d \in Deliveries /\ worker[w].pc = "insert" /\ attempts[d][s] = "absent"
    BY WorkerDelivery DEF InsertStarted
  <1>1. delivery[d].attemptCount \in Nat
    BY <1>0, CountType
  <1>2. s \in AttemptNumbers /\ s <= delivery[d].attemptCount + 1
    BY <1>0 DEF AttemptInv, AttemptOwned
  <1>3. s = delivery[d].attemptCount + 1
    <2>1. ~(s <= delivery[d].attemptCount)
      BY <1>0, <1>2 DEF AttemptInv, AttemptNumbering
    <2>2. s \in Nat
      BY SeqType
    <2> QED
      BY <1>1, <1>2, <2>1, <2>2
  <1>4. \A v \in Workers : worker[v].pc \in Attempting => worker[v].delivery # d
    BY <1>0, <1>3 DEF AttemptInv, AttemptOwned
  <1>5. /\ worker'[w].pc = "post" /\ worker'[w].delivery = d /\ worker'[w].seq = s
        /\ \A v \in Workers : v # w => worker'[v] = worker[v]
    BY DEF InsertStarted, WorkerBecomes, TypeOK, WorkerCall
  <1>6. /\ delivery' = delivery
        /\ attempts' = [attempts EXCEPT ![d][s] = "started"]
    BY DEF InsertStarted
  <1>7. /\ attempts'[d][s] = "started"
        /\ \A e \in Deliveries : \A n \in AttemptNumbers :
             (e # d \/ n # s) => attempts'[e][n] = attempts[e][n]
    BY <1>0, <1>2, <1>6 DEF TypeOK
  <1>8. OneAttemptAtATime'
    BY <1>4, <1>5 DEF AttemptInv, OneAttemptAtATime
  <1>9. AttemptNumbering'
    <2> SUFFICES ASSUME NEW e \in Deliveries, NEW n \in AttemptNumbers
                 PROVE  /\ n <= delivery[e].attemptCount => attempts'[e][n] # "absent"
                        /\ n > delivery[e].attemptCount + 1 => attempts'[e][n] = "absent"
      BY <1>6, Zenon DEF AttemptNumbering
    <2>1. /\ n <= delivery[e].attemptCount => attempts[e][n] # "absent"
          /\ n > delivery[e].attemptCount + 1 => attempts[e][n] = "absent"
      BY DEF AttemptInv, AttemptNumbering
    <2>2. CASE e = d /\ n = s
      <3>1. ~(n > delivery[e].attemptCount + 1)
        BY <1>1, <1>3, <2>2
      <3> QED
        BY <1>7, <2>2, <3>1
    <2>3. CASE e # d \/ n # s
      BY <1>7, <2>1, <2>3
    <2> QED
      BY <2>2, <2>3
  <1>10. AttemptOwned'
    <2> SUFFICES ASSUME NEW v \in Workers
                 PROVE  LET e == worker'[v].delivery
                            n == worker'[v].seq
                        IN /\ worker'[v].pc \in Numbered => n \in AttemptNumbers
                           /\ worker'[v].pc = "insert" => n <= delivery[e].attemptCount + 1
                           /\ worker'[v].pc \in Attempting =>
                                /\ n = delivery[e].attemptCount + 1
                                /\ attempts'[e][n] # "absent"
      BY <1>6, Zenon DEF AttemptOwned
    <2>1. CASE v = w
      BY <1>2, <1>3, <1>5, <1>7, <2>1
    <2>2. CASE v # w
      <3>1. worker'[v] = worker[v]
        BY <1>5, <2>2
      <3>2. worker[v].pc \in Attempting =>
              /\ worker[v].delivery \in Deliveries
              /\ worker[v].delivery # d
        BY <1>4, WorkerDelivery
      <3> QED
        BY <1>7, <3>1, <3>2 DEF AttemptInv, AttemptOwned
    <2> QED
      BY <2>1, <2>2
  <1> QED
    BY <1>8, <1>9, <1>10 DEF AttemptInv

\* The UPDATE that ends an attempt counts exactly the attempt that was started.
LEMMA TransitionKeepsAttemptInv ==
  ASSUME TypeOK, AttemptInv, NEW w \in Workers, TransitionDelivery(w)
  PROVE  AttemptInv'
  <1> DEFINE d == worker[w].delivery
             s == worker[w].seq
  <1> USE DEF Numbered, Attempting
  <1>0. d \in Deliveries /\ worker[w].pc = "mark"
    BY WorkerDelivery DEF TransitionDelivery
  <1>1. delivery[d].attemptCount \in Nat
    BY <1>0, CountType
  <1>2. s \in AttemptNumbers /\ s = delivery[d].attemptCount + 1 /\ attempts[d][s] # "absent"
    BY <1>0 DEF AttemptInv, AttemptOwned
  <1>3. delivery[d] \in DeliveryRow
    BY <1>0 DEF TypeOK
  <1>4. delivery'[d].attemptCount = delivery[d].attemptCount + 1
    <2>1. delivery'[d] = RowAfter(worker[w], delivery[d])
      BY <1>0 DEF TransitionDelivery, TypeOK
    <2> QED
      BY <1>3, <2>1 DEF RowAfter, MarkDelivered, MarkPermanentlyFailed, Reschedule, DeliveryRow
  <1>5. \A e \in Deliveries : e # d => delivery'[e] = delivery[e]
    BY DEF TransitionDelivery, TypeOK
  <1>6. /\ worker'[w].pc = "commit"
        /\ \A v \in Workers : v # w => worker'[v] = worker[v]
        /\ attempts' = attempts
    BY DEF TransitionDelivery, WorkerBecomes, TypeOK, WorkerCall
  <1>7. \A v \in Workers : v # w /\ worker[v].pc \in Attempting => worker[v].delivery # d
    BY <1>0 DEF AttemptInv, OneAttemptAtATime
  <1>8. OneAttemptAtATime'
    BY <1>6 DEF AttemptInv, OneAttemptAtATime
  <1>9. AttemptNumbering'
    <2> SUFFICES ASSUME NEW e \in Deliveries, NEW n \in AttemptNumbers
                 PROVE  /\ n <= delivery'[e].attemptCount => attempts[e][n] # "absent"
                        /\ n > delivery'[e].attemptCount + 1 => attempts[e][n] = "absent"
      BY <1>6, Zenon DEF AttemptNumbering
    <2>1. /\ n <= delivery[e].attemptCount => attempts[e][n] # "absent"
          /\ n > delivery[e].attemptCount + 1 => attempts[e][n] = "absent"
      BY DEF AttemptInv, AttemptNumbering
    <2>2. n \in Nat
      BY BoundAssumption DEF AttemptNumbers
    <2>3. CASE e = d
      BY <1>1, <1>2, <1>4, <2>1, <2>2, <2>3
    <2>4. CASE e # d
      BY <1>5, <2>1, <2>4
    <2> QED
      BY <2>3, <2>4
  <1>10. AttemptOwned'
    <2> SUFFICES ASSUME NEW v \in Workers
                 PROVE  LET e == worker'[v].delivery
                            n == worker'[v].seq
                        IN /\ worker'[v].pc \in Numbered => n \in AttemptNumbers
                           /\ worker'[v].pc = "insert" => n <= delivery'[e].attemptCount + 1
                           /\ worker'[v].pc \in Attempting =>
                                /\ n = delivery'[e].attemptCount + 1
                                /\ attempts[e][n] # "absent"
      BY <1>6, Zenon DEF AttemptOwned
    <2>1. CASE v = w
      BY <1>6, <2>1
    <2>2. CASE v # w /\ worker[v].pc \in Numbered
      <3>1. worker'[v] = worker[v] /\ worker[v].delivery \in Deliveries /\ worker[v].seq \in Nat
        BY <1>6, <2>2, WorkerDelivery, SeqType
      <3>2. CASE worker[v].delivery = d
        BY <1>1, <1>4, <1>7, <2>2, <3>1, <3>2 DEF AttemptInv, AttemptOwned
      <3>3. CASE worker[v].delivery # d
        BY <1>5, <2>2, <3>1, <3>3 DEF AttemptInv, AttemptOwned
      <3> QED
        BY <3>2, <3>3
    <2>3. CASE v # w /\ worker[v].pc \notin Numbered
      BY <1>6, <2>3
    <2> QED
      BY <2>1, <2>2, <2>3
  <1> QED
    BY <1>8, <1>9, <1>10 DEF AttemptInv

\* Steps that change neither attempts nor attempt_count, and take workers only out
\* of an attempt.
LEMMA CountsStillFrame ==
  ASSUME attempts' = attempts,
         \A d \in Deliveries : delivery'[d].attemptCount = delivery[d].attemptCount,
         \A w \in Workers : \/ worker'[w].pc \notin Numbered
                           \/ /\ worker'[w].pc = worker[w].pc
                              /\ worker'[w].delivery = worker[w].delivery
                              /\ worker'[w].seq = worker[w].seq
  PROVE  AttemptFrame
  BY DEF AttemptFrame

\* The steps of submission, scheduler, reaper and clocks.
LEMMA StoreFrame ==
  ASSUME TypeOK, OrderInv,
         \/ \E d \in Deliveries : Submit(d)
         \/ \E s \in Schedulers : \/ SchedulerNext(s) \/ PublishUnacknowledged(s)
                                 \/ AbortTick(s) \/ CircuitStatementFails(s)
         \/ ResurrectExpiredLeases
         \/ \E d \in Deliveries : ExpireLease(d) \/ BackoffElapses(d)
         \/ \E e \in Endpoints : ElapseSuspension(e)
  PROVE  AttemptFrame
  <1> USE DEF SchedulerNext
  <1> DEFINE CountsKept == \A d \in Deliveries :
                             delivery'[d].attemptCount = delivery[d].attemptCount
  <1>1. attempts' = attempts /\ worker' = worker
    BY DEF Submit, FindOrphans, SelectProbe, CloseEmptyCircuit, SetProbe, HurryProbe,
           ProcessExpiredSuspensions, ClaimReady, Publish, PublishUnacknowledged, AbortTick,
           CircuitStatementFails,
           ResurrectExpiredLeases, ExpireLease, BackoffElapses, ElapseSuspension, store
  <1>2. CountsKept
    <2> USE DEF TypeOK, DeliveryRow
    <2>1. ASSUME NEW d \in Deliveries, Submit(d)
          PROVE  CountsKept
      <3>1. delivery[d].attemptCount = 0
        BY <2>1 DEF OrderInv, HistoryInv, Submit
      <3> QED
        BY <2>1, <3>1 DEF Submit, ScheduledRow
    <2>2. ASSUME NEW s \in Schedulers, HurryProbe(s)
          PROVE  CountsKept
      BY <2>2 DEF HurryProbe
    <2>3. ASSUME NEW s \in Schedulers, ClaimReady(s)
          PROVE  CountsKept
      <3>1. PICK batch : delivery' = [d \in Deliveries |->
                            IF d \in batch THEN ClaimRow(delivery[d]) ELSE delivery[d]]
        BY <2>3, Zenon DEF ClaimReady
      <3> QED
        BY <3>1 DEF ClaimRow
    <2>4. ASSUME NEW s \in Schedulers, ~HurryProbe(s), ~ClaimReady(s),
                 \/ SchedulerNext(s) \/ PublishUnacknowledged(s) \/ AbortTick(s)
                 \/ CircuitStatementFails(s)
          PROVE  delivery' = delivery
      BY <2>4 DEF FindOrphans, SelectProbe, CloseEmptyCircuit, SetProbe,
           ProcessExpiredSuspensions, Publish, PublishUnacknowledged, AbortTick,
           CircuitStatementFails, store
    <2>5. CASE ResurrectExpiredLeases
      BY <2>5 DEF ResurrectExpiredLeases, ResurrectRow
    <2>6. ASSUME NEW d \in Deliveries, ExpireLease(d)
          PROVE  CountsKept
      BY <2>6 DEF ExpireLease
    <2>7. ASSUME NEW d \in Deliveries, BackoffElapses(d)
          PROVE  CountsKept
      BY <2>7 DEF BackoffElapses
    <2>8. ASSUME NEW e \in Endpoints, ElapseSuspension(e)
          PROVE  delivery' = delivery
      BY <2>8 DEF ElapseSuspension
    <2> QED
      BY <2>1, <2>2, <2>3, <2>4, <2>5, <2>6, <2>7, <2>8
  <1> QED
    BY <1>1, <1>2, CountsStillFrame

\* The steps of a worker that neither begin nor count an attempt, and those that
\* lose its message.
LEMMA WorkerStepFrame ==
  ASSUME TypeOK, AttemptInv,
         \/ \E w \in Workers : \/ InsertConflict(w) \/ DoHTTP(w) \/ UpdateOutcome(w)
                               \/ UpdateCircuit(w) \/ Commit(w) \/ StatementFails(w)
                               \/ Crash(w) \/ \E d \in Deliveries : FetchMessage(w, d)
         \/ \E p \in Partitions : Rebalance(p)
  PROVE  AttemptFrame
  <1> USE DEF Numbered, Attempting
  <1>1. ASSUME NEW w \in Workers, UpdateOutcome(w)
        PROVE  AttemptFrame
    <2> DEFINE d == worker[w].delivery
               s == worker[w].seq
    <2>1. worker[w] \in WorkerCall /\ worker[w].pc = "record" /\ d \in Deliveries
      BY <1>1, WorkerDelivery DEF UpdateOutcome, TypeOK
    <2>2. s \in AttemptNumbers /\ attempts[d][s] # "absent"
      BY <2>1 DEF AttemptInv, AttemptOwned
    <2>3. worker[w].outcome # "absent"
      BY <2>1 DEF WorkerCall, AttemptOutcomes
    <2>4. \A e \in Deliveries : \A n \in AttemptNumbers :
            attempts'[e][n] = "absent" <=> attempts[e][n] = "absent"
      BY <1>1, <2>1, <2>2, <2>3 DEF UpdateOutcome, TypeOK
    <2>5. /\ worker'[w].pc \in {"circuit", "mark"}
          /\ worker'[w].delivery = d /\ worker'[w].seq = s
          /\ \A v \in Workers : v # w => worker'[v] = worker[v]
      BY <1>1, <2>1 DEF UpdateOutcome, WorkerBecomes, AfterRecord, TypeOK, WorkerCall
    <2>6. delivery' = delivery
      BY <1>1 DEF UpdateOutcome
    <2> QED
      BY <2>1, <2>4, <2>5, <2>6 DEF AttemptFrame
  <1>2. ASSUME NEW w \in Workers, InsertConflict(w) \/ Commit(w) \/ Crash(w)
        PROVE  AttemptFrame
    <2>1. worker' = [worker EXCEPT ![w] = IdleWorker] /\ attempts' = attempts
          /\ delivery' = delivery
      BY <1>2 DEF InsertConflict, Commit, Crash, Abandon, WorkerBecomes, store
    <2> QED
      BY <2>1, CountsStillFrame DEF IdleWorker, TypeOK
  <1>3. ASSUME NEW w \in Workers, NEW d \in Deliveries, FetchMessage(w, d)
        PROVE  AttemptFrame
    <2>1. \A v \in Workers : worker'[v].pc = "load" \/ worker'[v] = worker[v]
      BY <1>3 DEF FetchMessage, WorkerBecomes, IdleWorker, TypeOK
    <2> QED
      BY <1>3, <2>1, CountsStillFrame DEF FetchMessage, store
  <1>4. ASSUME NEW w \in Workers, DoHTTP(w) \/ UpdateCircuit(w) \/ StatementFails(w)
        PROVE  AttemptFrame
    <2>1. worker[w] \in WorkerCall
      BY DEF TypeOK
    <2>2. /\ \A v \in Workers : v # w => worker'[v] = worker[v]
          /\ \/ worker'[w].pc = "idle"
             \/ /\ worker[w].pc \in Attempting /\ worker'[w].pc \in Attempting
                /\ worker'[w].delivery = worker[w].delivery
                /\ worker'[w].seq = worker[w].seq
      <3>1. CASE DoHTTP(w)
        <4>1. worker[w].pc = "post"
          BY <3>1 DEF DoHTTP
        <4>2. PICK outcome :
                WorkerBecomes(w, [worker[w] EXCEPT !.pc = "record", !.outcome = outcome])
          BY <3>1 DEF DoHTTP
        <4> QED
          BY <2>1, <4>1, <4>2 DEF WorkerBecomes, TypeOK, WorkerCall
      <3>2. CASE UpdateCircuit(w)
        BY <2>1, <3>2 DEF UpdateCircuit, WorkerBecomes, TypeOK, WorkerCall
      <3>3. CASE StatementFails(w)
        <4>1. CASE worker[w].pc = "record"
          <5>1. WorkerBecomes(w, [worker[w] EXCEPT !.pc = AfterRecord])
            BY <3>3, <4>1 DEF StatementFails
          <5> QED
            BY <2>1, <4>1, <5>1 DEF WorkerBecomes, TypeOK, WorkerCall, AfterRecord
        <4>2. CASE worker[w].pc = "circuit"
          <5>1. WorkerBecomes(w, [worker[w] EXCEPT !.pc = "mark"])
            BY <3>3, <4>2 DEF StatementFails
          <5> QED
            BY <2>1, <4>2, <5>1 DEF WorkerBecomes, TypeOK, WorkerCall
        <4>3. CASE worker[w].pc \notin {"record", "circuit"}
          <5>1. WorkerBecomes(w, IdleWorker)
            BY <3>3, <4>3 DEF StatementFails
          <5> QED
            BY <5>1 DEF WorkerBecomes, TypeOK, IdleWorker
        <4> QED
          BY <4>1, <4>2, <4>3
      <3> QED
        BY <1>4, <3>1, <3>2, <3>3
    <2>3. attempts' = attempts /\ delivery' = delivery
      BY <1>4 DEF DoHTTP, UpdateCircuit, StatementFails, store
    <2> QED
      BY <2>2, <2>3 DEF AttemptFrame
  <1>5. ASSUME NEW p \in Partitions, Rebalance(p)
        PROVE  AttemptFrame
    <2>1. \A v \in Workers : /\ worker'[v].pc = worker[v].pc
                            /\ worker'[v].delivery = worker[v].delivery
                            /\ worker'[v].seq = worker[v].seq
      BY <1>5 DEF Rebalance, TypeOK, WorkerCall
    <2> QED
      BY <1>5, <2>1, CountsStillFrame DEF Rebalance, store
  <1> QED
    BY <1>1, <1>2, <1>3, <1>4, <1>5

\* With no worker and no attempt the invariant holds.
LEMMA InitAttempt ==
  ASSUME Init
  PROVE  AttemptInv
  BY BoundAssumption
  DEF Init, AttemptInv, OneAttemptAtATime, AttemptNumbering, AttemptOwned, IdleWorker,
      AbsentRow, Attempting, AttemptNumbers

\* Every step preserves the invariant: one case per action that touches attempts, rows or calls.
LEMMA NextAttempt ==
  ASSUME TypeOK, OrderInv, AttemptInv, [Next]_vars
  PROVE  AttemptInv'
  <1>1. ASSUME NEW w \in Workers, ProcessNext(w)
        PROVE  AttemptInv'
    BY <1>1, LoadKeepsAttemptInv, InsertKeepsAttemptInv, TransitionKeepsAttemptInv,
       WorkerStepFrame, FrameKeepsAttemptInv
    DEF ProcessNext
  <1>2. CASE \/ \E d \in Deliveries : Submit(d)
             \/ \E s \in Schedulers : SchedulerNext(s)
             \/ ResurrectExpiredLeases
             \/ TimeNext
    BY <1>2, StoreFrame, FrameKeepsAttemptInv DEF TimeNext, LeaseExpires, SuspensionElapses
  <1>3. CASE \E w \in Workers, d \in Deliveries : FetchMessage(w, d)
    BY <1>3, WorkerStepFrame, FrameKeepsAttemptInv
  <1>4. CASE FaultNext
    BY <1>4, StoreFrame, WorkerStepFrame, FrameKeepsAttemptInv
    DEF FaultNext, LeaseExpiresEarly, SuspensionElapsesEarly
  <1>5. CASE UNCHANGED vars
    BY <1>5, CountsStillFrame, FrameKeepsAttemptInv DEF vars
  <1> QED
    BY <1>1, <1>2, <1>3, <1>4, <1>5 DEF Next

\* The inductive invariant behind the two theorems below.
THEOREM AttemptInvariant == Spec => []AttemptInv
  <1>1. Init => AttemptInv
    BY InitAttempt
  <1>2. TypeOK /\ OrderInv /\ AttemptInv /\ [Next]_vars => AttemptInv'
    BY NextAttempt
  <1> QED
    BY <1>1, <1>2, TypeCorrect, OrderInvariant, PTL DEF Spec

\* However often a message is redelivered, a partition rebalanced or a lease
\* resurrected, no two workers are in an attempt of one delivery at the same time:
\* the UNIQUE index behind worker.go:111 is enough.
THEOREM SerialAttempts == Spec => []OneAttemptAtATime
  <1>1. AttemptInv => OneAttemptAtATime
    BY DEF AttemptInv
  <1> QED
    BY <1>1, AttemptInvariant, PTL

\* Attempts are numbered without gaps and attempt_count never runs ahead of them,
\* nor more than one behind: attempt_count + 1 (delivery_store.go:119-162) is applied
\* once for every attempt whose worker gets that far.
THEOREM GaplessNumbering == Spec => []AttemptNumbering
  <1>1. AttemptInv => AttemptNumbering
    BY DEF AttemptInv
  <1> QED
    BY <1>1, AttemptInvariant, PTL

-----------------------------------------------------------------------------
(* What a step may do to the rows of deliveries and to the calls.          *)

\* The statements of submission, scheduler and reaper move a row along the status
\* machine of domain/delivery.go and count nothing.
RowMoves ==
  \A d \in Deliveries :
    /\ delivery'[d].attemptCount = delivery[d].attemptCount
    /\ \/ delivery'[d].status = delivery[d].status
       \/ /\ delivery[d].status = "absent" /\ delivery'[d].status = "scheduled"
          /\ delivery[d].attemptCount = 0
       \/ delivery[d].status = "scheduled" /\ delivery'[d].status = "in_flight"
       \/ /\ delivery[d].status = "in_flight" /\ delivery'[d].status = "scheduled"
          /\ delivery[d].lease = "expired"

\* A worker goes from one statement of Worker.process to the next, or drops its message.
WorkerMoves(w) ==
  /\ \A v \in Workers : v # w => worker'[v] = worker[v]
  /\ \/ worker'[w].pc = "idle"
     \/ /\ worker'[w].delivery = worker[w].delivery
        /\ \/ worker[w].pc = "load" /\ worker'[w].pc = "insert"
           \/ worker[w].pc = "mark" /\ worker'[w].pc = "commit"
           \/ /\ worker'[w].seq = worker[w].seq
              /\ \/ worker[w].pc = "insert" /\ worker'[w].pc = "post"
                 \/ worker[w].pc = "post" /\ worker'[w].pc = "record"
                 \/ /\ worker'[w].outcome = worker[w].outcome
                    /\ \/ worker[w].pc = "record" /\ worker'[w].pc \in {"circuit", "mark"}
                       \/ worker[w].pc = "circuit" /\ worker'[w].pc = "mark"

\* Steps of submission, scheduler, reaper and clocks.
StoreStep ==
  \/ \E d \in Deliveries : Submit(d)
  \/ \E s \in Schedulers : \/ SchedulerNext(s) \/ PublishUnacknowledged(s)
                           \/ AbortTick(s) \/ CircuitStatementFails(s)
  \/ ResurrectExpiredLeases
  \/ \E d \in Deliveries : LeaseExpires(d) \/ LeaseExpiresEarly(d) \/ BackoffElapses(d)
  \/ \E e \in Endpoints : SuspensionElapses(e) \/ SuspensionElapsesEarly(e)

\* A store step leaves attempts and workers alone and moves rows.
LEMMA StoreStepMoves ==
  ASSUME TypeOK, OrderInv, StoreStep
  PROVE  attempts' = attempts /\ worker' = worker /\ everTerminal' = everTerminal /\ RowMoves
  <1>1. attempts' = attempts /\ worker' = worker /\ everTerminal' = everTerminal
    BY DEF StoreStep, SchedulerNext, Submit, FindOrphans, SelectProbe, CloseEmptyCircuit,
           SetProbe, HurryProbe, ProcessExpiredSuspensions, ClaimReady, Publish,
           PublishUnacknowledged, AbortTick,
           CircuitStatementFails, ResurrectExpiredLeases, LeaseExpires, LeaseExpiresEarly,
           ExpireLease, BackoffElapses, SuspensionElapses, SuspensionElapsesEarly,
           ElapseSuspension, store
  <1>2. RowMoves
    <2> USE DEF TypeOK, DeliveryRow, RowMoves
    <2>1. ASSUME NEW d \in Deliveries, Submit(d)
          PROVE  RowMoves
      <3>1. delivery[d].attemptCount = 0
        BY <2>1 DEF OrderInv, HistoryInv, Submit
      <3> QED
        BY <2>1, <3>1 DEF Submit, ScheduledRow
    <2>2. ASSUME NEW s \in Schedulers, HurryProbe(s)
          PROVE  RowMoves
      BY <2>2 DEF HurryProbe
    <2>3. ASSUME NEW s \in Schedulers, ClaimReady(s)
          PROVE  RowMoves
      <3>1. PICK batch \in SUBSET {d \in Deliveries : Claimable(d)} :
              delivery' = [d \in Deliveries |->
                             IF d \in batch THEN ClaimRow(delivery[d]) ELSE delivery[d]]
        BY <2>3, Zenon DEF ClaimReady
      <3>2. \A d \in batch : delivery[d].status = "scheduled"
        BY DEF Claimable
      <3> QED
        BY <3>1, <3>2 DEF ClaimRow
    <2>4. ASSUME NEW s \in Schedulers, ~HurryProbe(s), ~ClaimReady(s),
                 \/ SchedulerNext(s) \/ PublishUnacknowledged(s) \/ AbortTick(s)
                 \/ CircuitStatementFails(s)
          PROVE  RowMoves
      BY <2>4 DEF SchedulerNext, FindOrphans, SelectProbe, CloseEmptyCircuit, SetProbe,
           ProcessExpiredSuspensions, Publish, PublishUnacknowledged, AbortTick,
           CircuitStatementFails, store
    <2>5. CASE ResurrectExpiredLeases
      BY <2>5 DEF ResurrectExpiredLeases, ResurrectRow
    <2>6. ASSUME NEW d \in Deliveries, LeaseExpires(d) \/ LeaseExpiresEarly(d)
          PROVE  RowMoves
      <3>1. delivery' = [delivery EXCEPT ![d].lease = "expired"]
        BY <2>6 DEF LeaseExpires, LeaseExpiresEarly, ExpireLease
      <3> QED
        BY <3>1
    <2>7. ASSUME NEW d \in Deliveries, BackoffElapses(d)
          PROVE  RowMoves
      BY <2>7 DEF BackoffElapses
    <2>8. ASSUME NEW e \in Endpoints, SuspensionElapses(e) \/ SuspensionElapsesEarly(e)
          PROVE  RowMoves
      BY <2>8 DEF ElapseSuspension, SuspensionElapses, SuspensionElapsesEarly
    <2> HIDE DEF TypeOK, DeliveryRow, RowMoves
    <2> QED
      BY <2>1, <2>2, <2>3, <2>4, <2>5, <2>6, <2>7, <2>8 DEF StoreStep
  <1> QED
    BY <1>1, <1>2

\* The steps of a worker move it, and only TransitionDelivery moves a row.
LEMMA WorkerStepMoves ==
  ASSUME TypeOK, NEW w \in Workers, ProcessNext(w) \/ StatementFails(w) \/ Crash(w)
  PROVE  /\ WorkerMoves(w) /\ scheduler' = scheduler
         /\ TransitionDelivery(w) <=> worker[w].pc = "mark" /\ worker'[w].pc = "commit"
         /\ ~TransitionDelivery(w) => delivery' = delivery /\ everTerminal' = everTerminal
         /\ InsertStarted(w) \/ UpdateOutcome(w) \/ attempts' = attempts
  <1>1. worker[w] \in WorkerCall /\ worker \in [Workers -> WorkerCall]
    BY DEF TypeOK
  <1>2. /\ WorkerMoves(w)
        /\ worker[w].pc = "mark" /\ worker'[w].pc = "commit" => TransitionDelivery(w)
    <2> USE DEF WorkerMoves
    <2>1. ASSUME WorkerBecomes(w, IdleWorker)
          PROVE  WorkerMoves(w) /\ worker'[w].pc = "idle"
      BY <1>1, <2>1 DEF WorkerBecomes, IdleWorker
    <2>2. CASE LoadForWorker(w)
      BY <1>1, <2>2 DEF LoadForWorker, WorkerBecomes, WorkerCall
    <2>3. CASE InsertStarted(w)
      BY <1>1, <2>3 DEF InsertStarted, WorkerBecomes, WorkerCall
    <2>4. CASE InsertConflict(w) \/ Commit(w) \/ Crash(w)
      BY <2>1, <2>4 DEF InsertConflict, Commit, Crash, Abandon
    <2>5. CASE DoHTTP(w)
      BY <1>1, <2>5 DEF DoHTTP, WorkerBecomes, WorkerCall
    <2>6. CASE UpdateOutcome(w)
      BY <1>1, <2>6 DEF UpdateOutcome, WorkerBecomes, WorkerCall, AfterRecord
    <2>7. CASE UpdateCircuit(w)
      BY <1>1, <2>7 DEF UpdateCircuit, WorkerBecomes, WorkerCall
    <2>8. CASE TransitionDelivery(w)
      BY <1>1, <2>8 DEF TransitionDelivery, WorkerBecomes, WorkerCall
    <2>9. CASE StatementFails(w)
      <3>1. CASE worker[w].pc = "record"
        <4>1. WorkerBecomes(w, [worker[w] EXCEPT !.pc = AfterRecord])
          BY <2>9, <3>1 DEF StatementFails
        <4> QED
          BY <1>1, <3>1, <4>1 DEF WorkerBecomes, WorkerCall, AfterRecord
      <3>2. CASE worker[w].pc = "circuit"
        <4>1. WorkerBecomes(w, [worker[w] EXCEPT !.pc = "mark"])
          BY <2>9, <3>2 DEF StatementFails
        <4> QED
          BY <1>1, <3>2, <4>1 DEF WorkerBecomes, WorkerCall
      <3>3. CASE worker[w].pc \notin {"record", "circuit"}
        BY <2>1, <2>9, <3>3 DEF StatementFails
      <3> QED
        BY <3>1, <3>2, <3>3
    <2> QED
      BY <2>2, <2>3, <2>4, <2>5, <2>6, <2>7, <2>8, <2>9 DEF ProcessNext
  <1>3. TransitionDelivery(w) => worker[w].pc = "mark" /\ worker'[w].pc = "commit"
    BY <1>1 DEF TransitionDelivery, WorkerBecomes, WorkerCall
  <1>4. /\ scheduler' = scheduler
        /\ ~TransitionDelivery(w) => delivery' = delivery /\ everTerminal' = everTerminal
        /\ InsertStarted(w) \/ UpdateOutcome(w) \/ attempts' = attempts
    BY DEF ProcessNext, LoadForWorker, InsertStarted, InsertConflict, DoHTTP, UpdateOutcome,
           UpdateCircuit, TransitionDelivery, Commit, StatementFails, Crash, store
  <1> QED
    BY <1>2, <1>3, <1>4

\* A fetch gives an idle worker a message; a rebalance takes no worker's place away.
LEMMA GroupMoves ==
  ASSUME TypeOK
  PROVE  /\ \A w \in Workers, d \in Deliveries : FetchMessage(w, d) =>
              /\ delivery' = delivery /\ attempts' = attempts /\ scheduler' = scheduler
              /\ everTerminal' = everTerminal /\ faults' = faults
              /\ worker[w].pc = "idle" /\ worker'[w].pc = "load" /\ worker'[w].delivery = d
              /\ \A v \in Workers : v # w => worker'[v] = worker[v]
         /\ \A p \in Partitions : Rebalance(p) =>
              /\ delivery' = delivery /\ attempts' = attempts /\ scheduler' = scheduler
              /\ everTerminal' = everTerminal
              /\ \A v \in Workers : /\ worker'[v].pc = worker[v].pc
                                   /\ worker'[v].delivery = worker[v].delivery
                                   /\ worker'[v].seq = worker[v].seq
                                   /\ worker'[v].outcome = worker[v].outcome
  <1>1. worker \in [Workers -> WorkerCall]
    BY DEF TypeOK
  <1>2. ASSUME NEW w \in Workers, NEW d \in Deliveries, FetchMessage(w, d)
        PROVE  /\ delivery' = delivery /\ attempts' = attempts /\ scheduler' = scheduler
               /\ everTerminal' = everTerminal /\ faults' = faults
               /\ worker[w].pc = "idle" /\ worker'[w].pc = "load" /\ worker'[w].delivery = d
               /\ \A v \in Workers : v # w => worker'[v] = worker[v]
    BY <1>1, <1>2 DEF FetchMessage, WorkerBecomes, IdleWorker, store
  <1>3. ASSUME NEW p \in Partitions, Rebalance(p)
        PROVE  /\ delivery' = delivery /\ attempts' = attempts /\ scheduler' = scheduler
               /\ everTerminal' = everTerminal
               /\ \A v \in Workers : /\ worker'[v].pc = worker[v].pc
                                    /\ worker'[v].delivery = worker[v].delivery
                                    /\ worker'[v].seq = worker[v].seq
                                    /\ worker'[v].outcome = worker[v].outcome
    BY <1>1, <1>3 DEF Rebalance, WorkerCall, store
  <1> QED
    BY <1>2, <1>3

\* Every step is one of these.
LEMMA StepKinds ==
  ASSUME [Next]_vars
  PROVE  \/ StoreStep
         \/ \E w \in Workers : ProcessNext(w) \/ StatementFails(w) \/ Crash(w)
         \/ \E w \in Workers, d \in Deliveries : FetchMessage(w, d)
         \/ \E p \in Partitions : Rebalance(p)
         \/ UNCHANGED vars
  BY DEF Next, FaultNext, TimeNext, StoreStep

-----------------------------------------------------------------------------
(* Attempts and their outcomes                                             *)

\* A worker that has executed UpdateOutcome, or had its error logged.
Recorded == {"circuit", "mark"}

\* The attempt n of d lacks its outcome and is counted, or its worker is about to
\* count it.
Lost(d, n) ==
  /\ attempts[d][n] = "started"
  /\ \/ n <= delivery[d].attemptCount
     \/ \E w \in Workers : /\ worker[w].pc \in Recorded
                           /\ worker[w].delivery = d /\ worker[w].seq = n

LostAttempts == {a \in Deliveries \X AttemptNumbers : Lost(a[1], a[2])}

\* What makes AttemptsComplete inductive.
LossInv == IsFiniteSet(LostAttempts) /\ Cardinality(LostAttempts) <= faults["record"]

\* The row of the attempt a worker is in: InsertStarted left it, and UpdateOutcome, if it
\* succeeded, gave it the outcome of the POST.
OutcomeKept ==
  \A w \in Workers :
    LET row == attempts[worker[w].delivery][worker[w].seq]
    IN /\ worker[w].pc \in {"post", "record"} => row = "started"
       /\ worker[w].pc \in Recorded => row \in {"started", worker[w].outcome}

\* The outcome `last` of the attempt that was counted last explains the row.
ExplainedBy(row, last) ==
  /\ row.status = "delivered" => last = "success"
  /\ row.status = "permanently_failed" =>
       \/ last = "permanent_failure"
       \/ last \in {"transient_failure", "timeout"} /\ row.attemptCount >= MaxAttempts
  /\ row.status \in {"scheduled", "in_flight"} => last \in {"transient_failure", "timeout"}

\* Every status is explained by the last counted attempt, unless that one has lost its
\* outcome, and a delivery that goes on has attempts left.
ExplainedUnlessLost ==
  \A d \in Deliveries :
    /\ LET n == delivery[d].attemptCount
       IN n \in AttemptNumbers /\ attempts[d][n] # "started"
            => ExplainedBy(delivery[d], attempts[d][n])
    /\ IsNonTerminal(delivery[d]) => delivery[d].attemptCount < MaxAttempts

OutcomeInv == OutcomeKept /\ ExplainedUnlessLost

\* Faults are counted and never forgotten; an UpdateOutcome that fails is counted.
LEMMA FaultsGrow ==
  ASSUME TypeOK, [Next]_vars
  PROVE  /\ \A k \in FaultKinds : faults'[k] \in Nat /\ faults'[k] >= faults[k]
         /\ \A w \in Workers : StatementFails(w) /\ worker[w].pc = "record"
                                 => faults'["record"] = faults["record"] + 1
  <1>1. faults \in [FaultKinds -> Nat]
    BY DEF TypeOK
  <1>2. faults' = faults \/ \E kind : Fault(kind)
    BY DEF Next, Submit, SchedulerNext, FindOrphans, SelectProbe, CloseEmptyCircuit, SetProbe,
           HurryProbe, ProcessExpiredSuspensions, ClaimReady, Publish, FetchMessage,
           ProcessNext, LoadForWorker, InsertStarted, InsertConflict, DoHTTP, UpdateOutcome,
           UpdateCircuit, TransitionDelivery, Commit, ResurrectExpiredLeases, FaultNext,
           PublishUnacknowledged, AbortTick, CircuitStatementFails, StatementFails, Crash,
           Rebalance, LeaseExpiresEarly, SuspensionElapsesEarly, TimeNext, LeaseExpires,
           BackoffElapses, SuspensionElapses, vars
  <1>3. ASSUME NEW kind, Fault(kind), NEW k \in FaultKinds
        PROVE  faults'[k] \in Nat /\ faults'[k] >= faults[k]
    BY <1>1, <1>3 DEF Fault
  <1>4. ASSUME NEW w \in Workers, StatementFails(w), worker[w].pc = "record"
        PROVE  faults'["record"] = faults["record"] + 1
    BY <1>1, <1>4 DEF StatementFails, Fault, FaultKinds, StatementFaults
  <1>5. ASSUME faults' = faults, NEW k \in FaultKinds
        PROVE  faults'[k] \in Nat /\ faults'[k] >= faults[k]
    BY <1>1, <1>5
  <1> QED
    BY <1>2, <1>3, <1>4, <1>5

\* The row that ends an attempt: counted once, its status chosen by outcome and number.
LEMMA RowAfterFacts ==
  ASSUME NEW call \in WorkerCall, NEW row \in DeliveryRow
  PROVE  LET after == RowAfter(call, row)
         IN /\ after.attemptCount = row.attemptCount + 1
            /\ \/ call.outcome = "success" /\ after.status = "delivered"
               \/ call.outcome = "permanent_failure" /\ after.status = "permanently_failed"
               \/ /\ call.outcome \in {"transient_failure", "timeout"}
                  /\ \/ call.seq >= MaxAttempts /\ after.status = "permanently_failed"
                     \/ ~(call.seq >= MaxAttempts) /\ after.status = "scheduled"
  <1>1. call.outcome \in AttemptOutcomes
    BY DEF WorkerCall
  <1>2. /\ MarkDelivered(row).attemptCount = row.attemptCount + 1
        /\ MarkDelivered(row).status = "delivered"
        /\ MarkPermanentlyFailed(row).attemptCount = row.attemptCount + 1
        /\ MarkPermanentlyFailed(row).status = "permanently_failed"
        /\ Reschedule(row).attemptCount = row.attemptCount + 1
        /\ Reschedule(row).status = "scheduled"
    BY DEF MarkDelivered, MarkPermanentlyFailed, Reschedule, DeliveryRow
  <1>3. CASE call.outcome = "success"
    BY <1>2, <1>3 DEF RowAfter
  <1>4. CASE call.outcome = "permanent_failure"
    BY <1>2, <1>4 DEF RowAfter
  <1>5. CASE call.outcome \in {"transient_failure", "timeout"}
    <2>1. RowAfter(call, row) = IF call.seq >= MaxAttempts THEN MarkPermanentlyFailed(row)
                                                           ELSE Reschedule(row)
      BY <1>5 DEF RowAfter
    <2> QED
      BY <1>2, <1>5, <2>1
  <1> QED
    BY <1>1, <1>3, <1>4, <1>5 DEF AttemptOutcomes

\* The worker that ends an attempt counts it: the number it started is the count now.
LEMMA TransitionFacts ==
  ASSUME TypeOK, AttemptInv, NEW w \in Workers, TransitionDelivery(w)
  PROVE  LET d == worker[w].delivery
         IN /\ d \in Deliveries /\ worker[w].pc = "mark" /\ worker'[w].pc = "commit"
            /\ delivery'[d] = RowAfter(worker[w], delivery[d])
            /\ delivery[d] \in DeliveryRow /\ worker[w] \in WorkerCall
            /\ delivery'[d].attemptCount = worker[w].seq
            /\ worker[w].seq = delivery[d].attemptCount + 1 /\ worker[w].seq \in AttemptNumbers
            /\ \A e \in Deliveries : e # d => delivery'[e] = delivery[e]
            /\ \A v \in Workers : v # w => worker'[v] = worker[v]
            /\ attempts' = attempts /\ scheduler' = scheduler /\ topic' = topic
  <1> DEFINE d == worker[w].delivery
  <1>1. worker[w].pc = "mark" /\ d \in Deliveries
    BY WorkerDelivery DEF TransitionDelivery
  <1>2. delivery[d] \in DeliveryRow /\ worker[w] \in WorkerCall
    BY <1>1 DEF TypeOK
  <1>3. /\ delivery'[d] = RowAfter(worker[w], delivery[d])
        /\ \A e \in Deliveries : e # d => delivery'[e] = delivery[e]
    BY <1>1 DEF TransitionDelivery, TypeOK
  <1>4. worker[w].seq = delivery[d].attemptCount + 1 /\ worker[w].seq \in AttemptNumbers
    BY <1>1 DEF AttemptInv, AttemptOwned, Attempting
  <1>5. delivery'[d].attemptCount = delivery[d].attemptCount + 1
    BY <1>2, <1>3, RowAfterFacts
  <1>6. /\ worker'[w].pc = "commit" /\ \A v \in Workers : v # w => worker'[v] = worker[v]
        /\ attempts' = attempts /\ scheduler' = scheduler /\ topic' = topic
    BY <1>2 DEF TransitionDelivery, WorkerBecomes, TypeOK, WorkerCall, kafka
  <1> QED
    BY <1>1, <1>2, <1>3, <1>4, <1>5, <1>6

\* InsertStarted takes the number after the count, and no other worker is in an attempt
\* of the delivery.
LEMMA InsertFacts ==
  ASSUME TypeOK, AttemptInv, NEW w \in Workers, InsertStarted(w)
  PROVE  LET d == worker[w].delivery
             s == worker[w].seq
         IN /\ d \in Deliveries /\ s \in AttemptNumbers /\ s = delivery[d].attemptCount + 1
            /\ delivery' = delivery /\ worker'[w].pc = "post"
            /\ worker'[w].delivery = d /\ worker'[w].seq = s
            /\ \A v \in Workers : v # w => worker'[v] = worker[v]
            /\ \A v \in Workers : worker[v].pc \in Attempting => worker[v].delivery # d
            /\ attempts'[d][s] = "started"
            /\ \A e \in Deliveries, n \in AttemptNumbers :
                 (e # d \/ n # s) => attempts'[e][n] = attempts[e][n]
  <1> DEFINE d == worker[w].delivery
             s == worker[w].seq
  <1>1. d \in Deliveries /\ worker[w].pc = "insert" /\ attempts[d][s] = "absent"
        /\ s \in Nat /\ delivery[d].attemptCount \in Nat
    BY WorkerDelivery, SeqType, CountType DEF InsertStarted
  <1>2. s \in AttemptNumbers /\ s <= delivery[d].attemptCount + 1
    BY <1>1 DEF AttemptInv, AttemptOwned
  <1>3. ~(s <= delivery[d].attemptCount)
    BY <1>1, <1>2 DEF AttemptInv, AttemptNumbering
  <1>4. s = delivery[d].attemptCount + 1
    BY <1>1, <1>2, <1>3
  <1>5. \A v \in Workers : worker[v].pc \in Attempting => worker[v].delivery # d
    BY <1>1, <1>4 DEF AttemptInv, AttemptOwned
  <1>6. /\ delivery' = delivery /\ worker'[w].pc = "post"
        /\ worker'[w].delivery = d /\ worker'[w].seq = s
        /\ \A v \in Workers : v # w => worker'[v] = worker[v]
    BY DEF InsertStarted, WorkerBecomes, TypeOK, WorkerCall
  <1>7. attempts' = [attempts EXCEPT ![d][s] = "started"]
    BY DEF InsertStarted
  <1>8. /\ attempts'[d][s] = "started"
        /\ \A e \in Deliveries, n \in AttemptNumbers :
             (e # d \/ n # s) => attempts'[e][n] = attempts[e][n]
    BY <1>1, <1>2, <1>7 DEF TypeOK
  <1> QED
    BY <1>1, <1>2, <1>4, <1>5, <1>6, <1>8

\* UpdateOutcome writes the outcome of the POST into the row of the attempt.
LEMMA OutcomeFacts ==
  ASSUME TypeOK, AttemptInv, NEW w \in Workers, UpdateOutcome(w)
  PROVE  LET d == worker[w].delivery
             s == worker[w].seq
         IN /\ d \in Deliveries /\ s \in AttemptNumbers /\ s = delivery[d].attemptCount + 1
            /\ delivery' = delivery /\ worker[w].pc = "record" /\ worker'[w].pc \in Recorded
            /\ worker'[w].delivery = d /\ worker'[w].seq = s
            /\ worker'[w].outcome = worker[w].outcome
            /\ worker[w].outcome \in AttemptOutcomes
            /\ \A v \in Workers : v # w => worker'[v] = worker[v]
            /\ \A v \in Workers : v # w /\ worker[v].pc \in Attempting => worker[v].delivery # d
            /\ attempts'[d][s] = worker[w].outcome
            /\ \A e \in Deliveries, n \in AttemptNumbers :
                 (e # d \/ n # s) => attempts'[e][n] = attempts[e][n]
  <1> DEFINE d == worker[w].delivery
             s == worker[w].seq
  <1>1. d \in Deliveries /\ worker[w].pc = "record" /\ worker[w] \in WorkerCall
    BY WorkerDelivery DEF UpdateOutcome, TypeOK
  <1>2. s \in AttemptNumbers /\ s = delivery[d].attemptCount + 1
    BY <1>1 DEF AttemptInv, AttemptOwned, Attempting
  <1>3. \A v \in Workers : v # w /\ worker[v].pc \in Attempting => worker[v].delivery # d
    BY <1>1 DEF AttemptInv, OneAttemptAtATime, Attempting
  <1>4. /\ delivery' = delivery /\ worker'[w].pc \in Recorded
        /\ worker'[w].delivery = d /\ worker'[w].seq = s /\ worker'[w].outcome = worker[w].outcome
        /\ \A v \in Workers : v # w => worker'[v] = worker[v]
    BY <1>1 DEF UpdateOutcome, WorkerBecomes, TypeOK, WorkerCall, AfterRecord, Recorded
  <1>5. attempts' = [attempts EXCEPT ![d][s] = worker[w].outcome]
    BY DEF UpdateOutcome
  <1>6. /\ attempts'[d][s] = worker[w].outcome
        /\ \A e \in Deliveries, n \in AttemptNumbers :
             (e # d \/ n # s) => attempts'[e][n] = attempts[e][n]
    BY <1>1, <1>2, <1>5 DEF TypeOK
  <1>7. worker[w].outcome \in AttemptOutcomes
    BY <1>1 DEF WorkerCall
  <1> QED
    BY <1>1, <1>2, <1>3, <1>4, <1>6, <1>7

\* The steps of a worker, by what they mean for attempts.
LEMMA AttemptStepKinds ==
  ASSUME TypeOK, NEW w \in Workers, ProcessNext(w) \/ StatementFails(w) \/ Crash(w)
  PROVE  \/ InsertStarted(w) \/ UpdateOutcome(w) \/ TransitionDelivery(w)
         \/ StatementFails(w) /\ worker[w].pc = "record"
         \/ /\ attempts' = attempts /\ delivery' = delivery
            /\ worker'[w].pc \in Recorded => worker[w].pc = "circuit"
  <1>1. worker[w].pc = "record" => \/ UpdateOutcome(w) \/ StatementFails(w)
                                   \/ worker'[w].pc = "idle"
    <2>1. Crash(w) => worker'[w].pc = "idle"
      BY DEF Crash, Abandon, WorkerBecomes, IdleWorker, TypeOK
    <2> QED
      BY <2>1 DEF ProcessNext, LoadForWorker, InsertStarted, InsertConflict, DoHTTP,
                  UpdateCircuit, TransitionDelivery, Commit
  <1>2. worker'[w].pc \in Recorded => worker[w].pc \in {"record", "circuit"}
    BY WorkerStepMoves DEF WorkerMoves, Recorded
  <1> QED
    BY <1>1, <1>2, WorkerStepMoves DEF Recorded

\* A step that counts nothing, starts nothing and brings no worker past UpdateOutcome
\* loses nothing.
LEMMA NothingLost ==
  ASSUME \A d \in Deliveries : delivery'[d].attemptCount = delivery[d].attemptCount,
         attempts' = attempts,
         \A w \in Workers : worker'[w].pc \in Recorded =>
           /\ worker[w].pc \in Recorded
           /\ worker'[w].delivery = worker[w].delivery /\ worker'[w].seq = worker[w].seq
  PROVE  LostAttempts' \subseteq LostAttempts
  <1>1. ASSUME NEW d \in Deliveries, NEW n \in AttemptNumbers, Lost(d, n)'
        PROVE  Lost(d, n)
    BY <1>1 DEF Lost
  <1> QED
    BY <1>1 DEF LostAttempts

\* Only a failing UpdateOutcome loses an outcome, and only one.
LEMMA LossStep ==
  ASSUME TypeOK, OrderInv, AttemptInv, [Next]_vars
  PROVE  \/ LostAttempts' \subseteq LostAttempts
         \/ /\ faults'["record"] = faults["record"] + 1
            /\ \E a : LostAttempts' \subseteq LostAttempts \cup {a}
  <1>1. CASE StoreStep
    <2>1. attempts' = attempts /\ worker' = worker /\ RowMoves
      BY <1>1, StoreStepMoves
    <2> QED
      BY <2>1, NothingLost DEF RowMoves
  <1>2. ASSUME NEW w \in Workers, ProcessNext(w) \/ StatementFails(w) \/ Crash(w)
        PROVE  \/ LostAttempts' \subseteq LostAttempts
               \/ /\ faults'["record"] = faults["record"] + 1
                  /\ \E a : LostAttempts' \subseteq LostAttempts \cup {a}
    <2> DEFINE d == worker[w].delivery
               s == worker[w].seq
    <2>1. CASE InsertStarted(w)
      <3>1. ASSUME NEW e \in Deliveries, NEW n \in AttemptNumbers, Lost(e, n)'
            PROVE  Lost(e, n)
        <4>1. e # d \/ n # s
          <5> SUFFICES ASSUME e = d, n = s
                       PROVE  FALSE
            OBVIOUS
          <5>1. ~(n <= delivery'[e].attemptCount)
            BY <2>1, InsertFacts, CountType
          <5>2. PICK v \in Workers : worker'[v].pc \in Recorded /\ worker'[v].delivery = e
            BY <3>1, <5>1 DEF Lost
          <5>3. v # w
            BY <2>1, <5>2, InsertFacts DEF Recorded
          <5> QED
            BY <2>1, <5>2, <5>3, InsertFacts DEF Recorded, Attempting
        <4>2. \A v \in Workers : worker'[v].pc \in Recorded => worker'[v] = worker[v]
          BY <2>1, InsertFacts DEF Recorded
        <4>3. attempts'[e][n] = attempts[e][n] /\ delivery' = delivery
          BY <2>1, <4>1, InsertFacts
        <4> QED
          BY <3>1, <4>2, <4>3 DEF Lost
      <3> QED
        BY <3>1 DEF LostAttempts
    <2>2. CASE UpdateOutcome(w)
      <3>1. ASSUME NEW e \in Deliveries, NEW n \in AttemptNumbers, Lost(e, n)'
            PROVE  Lost(e, n)
        <4>1. e # d \/ n # s
          BY <2>2, <3>1, OutcomeFacts DEF Lost, AttemptOutcomes
        <4>2. attempts'[e][n] = attempts[e][n] /\ delivery' = delivery
          BY <2>2, <4>1, OutcomeFacts
        <4>3. \A v \in Workers : /\ worker'[v].pc \in Recorded
                                 /\ worker'[v].delivery = e /\ worker'[v].seq = n
                                 => worker'[v] = worker[v]
          BY <2>2, <4>1, OutcomeFacts
        <4> QED
          BY <3>1, <4>2, <4>3 DEF Lost
      <3> QED
        BY <3>1 DEF LostAttempts
    <2>3. CASE TransitionDelivery(w)
      <3>1. ASSUME NEW e \in Deliveries, NEW n \in AttemptNumbers, Lost(e, n)'
            PROVE  Lost(e, n)
        <4>1. attempts' = attempts
          BY <2>3, TransitionFacts
        <4>2. \A v \in Workers : worker'[v].pc \in Recorded => worker'[v] = worker[v]
          BY <2>3, TransitionFacts DEF Recorded
        <4>3. CASE e = d /\ n = s
          BY <2>3, <3>1, <4>1, <4>3, TransitionFacts DEF Lost, Recorded
        <4>4. CASE e # d
          BY <2>3, <3>1, <4>1, <4>2, <4>4, TransitionFacts DEF Lost
        <4>5. CASE e = d /\ n # s
          <5>1. n <= delivery'[e].attemptCount => n <= delivery[e].attemptCount
            BY <2>3, <4>5, TransitionFacts, CountType, BoundAssumption DEF AttemptNumbers
          <5> QED
            BY <3>1, <4>1, <4>2, <5>1 DEF Lost
        <4> QED
          BY <4>3, <4>4, <4>5
      <3> QED
        BY <3>1 DEF LostAttempts
    <2>4. CASE StatementFails(w) /\ worker[w].pc = "record"
      <3>1. attempts' = attempts /\ delivery' = delivery /\ WorkerMoves(w)
        <4>1. ~TransitionDelivery(w) /\ attempts' = attempts
          BY <2>4 DEF TransitionDelivery, StatementFails, store
        <4> QED
          BY <2>4, <4>1, WorkerStepMoves
      <3>2. ASSUME NEW e \in Deliveries, NEW n \in AttemptNumbers, Lost(e, n)'
            PROVE  Lost(e, n) \/ <<e, n>> = <<d, s>>
        BY <2>4, <3>1, <3>2 DEF Lost, WorkerMoves, Recorded
      <3>3. LostAttempts' \subseteq LostAttempts \cup {<<d, s>>}
        BY <3>2 DEF LostAttempts
      <3> QED
        BY <2>4, <3>3, FaultsGrow
    <2>5. CASE /\ attempts' = attempts /\ delivery' = delivery
               /\ worker'[w].pc \in Recorded => worker[w].pc = "circuit"
      <3>1. \A v \in Workers : worker'[v].pc \in Recorded =>
              /\ worker[v].pc \in Recorded
              /\ worker'[v].delivery = worker[v].delivery /\ worker'[v].seq = worker[v].seq
        BY <1>2, <2>5, WorkerStepMoves DEF WorkerMoves, Recorded
      <3> QED
        BY <2>5, <3>1, NothingLost
    <2> QED
      BY <1>2, <2>1, <2>2, <2>3, <2>4, <2>5, AttemptStepKinds
  <1>3. ASSUME NEW w \in Workers, NEW d \in Deliveries, FetchMessage(w, d)
        PROVE  LostAttempts' \subseteq LostAttempts
    BY <1>3, GroupMoves, NothingLost DEF Recorded
  <1>4. ASSUME NEW p \in Partitions, Rebalance(p)
        PROVE  LostAttempts' \subseteq LostAttempts
    BY <1>4, GroupMoves, NothingLost
  <1>5. CASE UNCHANGED vars
    BY <1>5, NothingLost DEF vars
  <1> QED
    BY <1>1, <1>2, <1>3, <1>4, <1>5, StepKinds

\* Nothing is lost before the first step.
LEMMA InitLoss ==
  ASSUME Init
  PROVE  LossInv
  <1>1. LostAttempts = {}
    BY DEF Init, LostAttempts, Lost
  <1>2. faults["record"] = 0
    BY DEF Init, FaultKinds, StatementFaults
  <1> QED
    BY <1>1, <1>2, FS_EmptySet DEF LossInv

\* Every step keeps the number of lost outcomes within the number of failed UpdateOutcomes.
LEMMA NextLoss ==
  ASSUME TypeOK, OrderInv, AttemptInv, LossInv, [Next]_vars
  PROVE  LossInv'
  <1>1. faults["record"] \in Nat /\ faults'["record"] \in Nat
        /\ faults'["record"] >= faults["record"]
    <2>1. "record" \in FaultKinds
      BY DEF FaultKinds, StatementFaults
    <2> QED
      BY <2>1, FaultsGrow DEF TypeOK
  <1>2. IsFiniteSet(LostAttempts) /\ Cardinality(LostAttempts) \in Nat
        /\ Cardinality(LostAttempts) <= faults["record"]
    BY FS_CardinalityType DEF LossInv
  <1>3. CASE LostAttempts' \subseteq LostAttempts
    <2>1. IsFiniteSet(LostAttempts') /\ Cardinality(LostAttempts') <= Cardinality(LostAttempts)
      BY <1>2, <1>3, FS_Subset
    <2>2. Cardinality(LostAttempts') \in Nat
      BY <2>1, FS_CardinalityType
    <2> QED
      BY <1>1, <1>2, <2>1, <2>2 DEF LossInv
  <1>4. ASSUME faults'["record"] = faults["record"] + 1,
               NEW a, LostAttempts' \subseteq LostAttempts \cup {a}
        PROVE  LossInv'
    <2> DEFINE More == LostAttempts \cup {a}
    <2>1. /\ IsFiniteSet(More)
          /\ Cardinality(More) = Cardinality(LostAttempts)
             \/ Cardinality(More) = Cardinality(LostAttempts) + 1
      BY <1>2, FS_AddElement
    <2>2. IsFiniteSet(LostAttempts') /\ Cardinality(LostAttempts') <= Cardinality(More)
      BY <1>4, <2>1, FS_Subset
    <2>3. Cardinality(LostAttempts') \in Nat
      BY <2>2, FS_CardinalityType
    <2> HIDE DEF More
    <2> QED
      BY <1>1, <1>2, <1>4, <2>1, <2>2, <2>3 DEF LossInv
  <1> QED
    BY <1>3, <1>4, LossStep

\* The inductive invariant behind AttemptsComplete.
THEOREM LossInvariant == Spec => []LossInv
  <1>1. Init => LossInv
    BY InitLoss
  <1>2. TypeOK /\ OrderInv /\ AttemptInv /\ LossInv /\ [Next]_vars => LossInv'
    BY NextLoss
  <1> QED
    BY <1>1, <1>2, TypeCorrect, OrderInvariant, AttemptInvariant, PTL DEF Spec

\* For any number of deliveries, workers, retries and faults: at most as many counted
\* attempts lack their outcome as UpdateOutcomes failed (worker.go:134 only logs the
\* error). No crash, rebalance, redelivery or resurrection loses an outcome of a
\* counted attempt.
THEOREM OutcomesComplete == Spec => []AttemptsComplete
  <1>1. TypeOK /\ LossInv => AttemptsComplete
    <2> SUFFICES ASSUME TypeOK, LossInv
                 PROVE  AttemptsComplete
      OBVIOUS
    <2>1. IncompleteAttempts \subseteq LostAttempts
      BY DEF IncompleteAttempts, LostAttempts, Lost
    <2>2. /\ IsFiniteSet(IncompleteAttempts)
          /\ Cardinality(IncompleteAttempts) <= Cardinality(LostAttempts)
          /\ Cardinality(LostAttempts) \in Nat /\ Cardinality(LostAttempts) <= faults["record"]
      BY <2>1, FS_Subset, FS_CardinalityType DEF LossInv
    <2>3. Cardinality(IncompleteAttempts) \in Nat
      BY <2>2, FS_CardinalityType
    <2>4. faults["record"] \in Nat
      BY DEF TypeOK, FaultKinds, StatementFaults
    <2> QED
      BY <2>2, <2>3, <2>4 DEF AttemptsComplete
  <1> QED
    BY <1>1, TypeCorrect, LossInvariant, PTL

\* Only InsertStarted brings a worker to its POST.
LEMMA PostsAfterInsert ==
  ASSUME TypeOK, NEW w \in Workers, ProcessNext(w) \/ StatementFails(w) \/ Crash(w),
         ~InsertStarted(w)
  PROVE  ~(worker[w].pc = "insert" /\ worker'[w].pc = "post")
  <1>1. InsertConflict(w) \/ Crash(w) => worker'[w].pc = "idle"
    BY DEF InsertConflict, Crash, Abandon, WorkerBecomes, IdleWorker, TypeOK
  <1>2. StatementFails(w) /\ worker[w].pc = "insert" => worker'[w].pc = "idle"
    <2> SUFFICES ASSUME StatementFails(w), worker[w].pc = "insert"
                 PROVE  worker'[w].pc = "idle"
      OBVIOUS
    <2>1. WorkerBecomes(w, IdleWorker)
      BY DEF StatementFails
    <2> QED
      BY <2>1 DEF WorkerBecomes, IdleWorker, TypeOK
  <1> QED
    BY <1>1, <1>2 DEF ProcessNext, LoadForWorker, InsertStarted, DoHTTP, UpdateOutcome,
                      UpdateCircuit, TransitionDelivery, Commit

\* The row of the attempt a worker is in holds what that worker left there.
LEMMA NextOutcomeKept ==
  ASSUME TypeOK, OrderInv, AttemptInv, OutcomeKept, [Next]_vars
  PROVE  OutcomeKept'
  <1> USE DEF OutcomeKept, Recorded
  <1>1. ASSUME attempts' = attempts,
               \A v \in Workers : \/ worker'[v].pc \notin {"post", "record"} \cup Recorded
                                  \/ /\ worker'[v].pc = worker[v].pc
                                     /\ worker'[v].delivery = worker[v].delivery
                                     /\ worker'[v].seq = worker[v].seq
                                     /\ worker'[v].outcome = worker[v].outcome
        PROVE  OutcomeKept'
    BY <1>1
  <1>2. CASE StoreStep
    BY <1>1, <1>2, StoreStepMoves
  <1>3. ASSUME NEW w \in Workers, ProcessNext(w) \/ StatementFails(w) \/ Crash(w)
        PROVE  OutcomeKept'
    <2>1. CASE InsertStarted(w)
      <3> SUFFICES ASSUME NEW v \in Workers
                   PROVE  LET row == attempts'[worker'[v].delivery][worker'[v].seq]
                          IN /\ worker'[v].pc \in {"post", "record"} => row = "started"
                             /\ worker'[v].pc \in Recorded =>
                                  row \in {"started", worker'[v].outcome}
        OBVIOUS
      <3>1. CASE v = w
        BY <2>1, <3>1, InsertFacts
      <3>2. CASE v # w /\ worker[v].pc \in Attempting
        <4>1. worker[v].delivery \in Deliveries /\ worker[v].seq \in AttemptNumbers
          BY <3>2, WorkerDelivery DEF AttemptInv, AttemptOwned, Attempting
        <4>2. worker'[v] = worker[v] /\ worker[v].delivery # worker[w].delivery
          BY <2>1, <3>2, InsertFacts
        <4>3. attempts'[worker[v].delivery][worker[v].seq] =
                attempts[worker[v].delivery][worker[v].seq]
          BY <2>1, <4>1, <4>2, InsertFacts
        <4> QED
          BY <4>2, <4>3
      <3>3. CASE v # w /\ worker[v].pc \notin Attempting
        BY <2>1, <3>3, InsertFacts DEF Attempting
      <3> QED
        BY <3>1, <3>2, <3>3
    <2>2. CASE UpdateOutcome(w)
      <3> SUFFICES ASSUME NEW v \in Workers
                   PROVE  LET row == attempts'[worker'[v].delivery][worker'[v].seq]
                          IN /\ worker'[v].pc \in {"post", "record"} => row = "started"
                             /\ worker'[v].pc \in Recorded =>
                                  row \in {"started", worker'[v].outcome}
        OBVIOUS
      <3>1. CASE v = w
        BY <2>2, <3>1, OutcomeFacts
      <3>2. CASE v # w /\ worker[v].pc \in Attempting
        <4>1. worker[v].delivery \in Deliveries /\ worker[v].seq \in AttemptNumbers
          BY <3>2, WorkerDelivery DEF AttemptInv, AttemptOwned, Attempting
        <4>2. worker'[v] = worker[v] /\ worker[v].delivery # worker[w].delivery
          BY <2>2, <3>2, OutcomeFacts
        <4>3. attempts'[worker[v].delivery][worker[v].seq] =
                attempts[worker[v].delivery][worker[v].seq]
          BY <2>2, <4>1, <4>2, OutcomeFacts
        <4> QED
          BY <4>2, <4>3
      <3>3. CASE v # w /\ worker[v].pc \notin Attempting
        BY <2>2, <3>3, OutcomeFacts DEF Attempting
      <3> QED
        BY <3>1, <3>2, <3>3
    <2>3. CASE TransitionDelivery(w)
      BY <1>1, <2>3, TransitionFacts
    <2>4. CASE attempts' = attempts /\ ~InsertStarted(w)
      BY <1>3, <2>4, WorkerStepMoves, PostsAfterInsert DEF WorkerMoves
    <2> QED
      BY <1>3, <2>1, <2>2, <2>3, <2>4, WorkerStepMoves
  <1>4. ASSUME NEW w \in Workers, NEW d \in Deliveries, FetchMessage(w, d)
        PROVE  OutcomeKept'
    BY <1>1, <1>4, GroupMoves
  <1>5. ASSUME NEW p \in Partitions, Rebalance(p)
        PROVE  OutcomeKept'
    BY <1>1, <1>5, GroupMoves
  <1>6. CASE UNCHANGED vars
    BY <1>1, <1>6 DEF vars
  <1> QED
    BY <1>2, <1>3, <1>4, <1>5, <1>6, StepKinds

\* A status is explained by the last counted attempt.
LEMMA NextExplained ==
  ASSUME TypeOK, OrderInv, AttemptInv, OutcomeInv, [Next]_vars
  PROVE  ExplainedUnlessLost'
  <1> DEFINE Explained(row, d, table) ==
               /\ row.attemptCount \in AttemptNumbers /\ table[d][row.attemptCount] # "started"
                    => ExplainedBy(row, table[d][row.attemptCount])
               /\ IsNonTerminal(row) => row.attemptCount < MaxAttempts
  <1>0. \A d \in Deliveries : Explained(delivery[d], d, attempts)
    BY DEF OutcomeInv, ExplainedUnlessLost
  <1>1. ASSUME \A d \in Deliveries : Explained(delivery'[d], d, attempts')
        PROVE  ExplainedUnlessLost'
    BY <1>1 DEF ExplainedUnlessLost
  <1>2. ASSUME delivery' = delivery, attempts' = attempts
        PROVE  ExplainedUnlessLost'
    BY <1>0, <1>1, <1>2
  <1>3. CASE StoreStep
    <2>1. attempts' = attempts /\ RowMoves
      BY <1>3, StoreStepMoves
    <2>2. ASSUME NEW d \in Deliveries
          PROVE  Explained(delivery'[d], d, attempts')
      <3>1. delivery'[d].attemptCount = delivery[d].attemptCount
        BY <2>1 DEF RowMoves
      <3>2. CASE delivery'[d].status = delivery[d].status
        BY <1>0, <2>1, <3>1, <3>2 DEF ExplainedBy, IsNonTerminal
      <3>3. CASE delivery[d].status = "absent" /\ delivery[d].attemptCount = 0
        BY <3>1, <3>3, BoundAssumption, ParameterAssumption DEF AttemptNumbers
      <3>4. CASE /\ delivery[d].status \in {"scheduled", "in_flight"}
                 /\ delivery'[d].status \in {"scheduled", "in_flight"}
        BY <1>0, <2>1, <3>1, <3>4 DEF ExplainedBy, IsNonTerminal
      <3> QED
        BY <2>1, <3>2, <3>3, <3>4 DEF RowMoves
    <2> QED
      BY <1>1, <2>2
  <1>4. ASSUME NEW w \in Workers, ProcessNext(w) \/ StatementFails(w) \/ Crash(w)
        PROVE  ExplainedUnlessLost'
    <2>1. CASE InsertStarted(w) \/ UpdateOutcome(w)
      <3>1. /\ delivery' = delivery
            /\ worker[w].seq = delivery[worker[w].delivery].attemptCount + 1
            /\ \A e \in Deliveries, n \in AttemptNumbers :
                 (e # worker[w].delivery \/ n # worker[w].seq) => attempts'[e][n] = attempts[e][n]
        BY <2>1, InsertFacts, OutcomeFacts
      <3>2. ASSUME NEW d \in Deliveries, delivery[d].attemptCount \in AttemptNumbers
            PROVE  attempts'[d][delivery[d].attemptCount] = attempts[d][delivery[d].attemptCount]
        <4>1. d # worker[w].delivery \/ delivery[d].attemptCount # worker[w].seq
          BY <3>1, CountType
        <4> QED
          BY <3>1, <3>2, <4>1
      <3> QED
        BY <1>0, <1>1, <3>1, <3>2
    <2>2. CASE TransitionDelivery(w)
      <3> DEFINE d == worker[w].delivery
      <3>1. ASSUME NEW e \in Deliveries, e # d
            PROVE  Explained(delivery'[e], e, attempts')
        BY <1>0, <2>2, <3>1, TransitionFacts
      <3>2. Explained(delivery'[d], d, attempts')
        <4>1. /\ delivery'[d] = RowAfter(worker[w], delivery[d])
              /\ delivery[d] \in DeliveryRow /\ worker[w] \in WorkerCall
              /\ delivery'[d].attemptCount = worker[w].seq
              /\ worker[w].seq \in AttemptNumbers /\ attempts' = attempts
              /\ worker[w].pc = "mark"
          BY <2>2, TransitionFacts
        <4>2. attempts[d][worker[w].seq] \in {"started", worker[w].outcome}
          BY <4>1 DEF OutcomeInv, OutcomeKept, Recorded
        <4>3. \/ worker[w].outcome = "success" /\ delivery'[d].status = "delivered"
              \/ /\ worker[w].outcome = "permanent_failure"
                 /\ delivery'[d].status = "permanently_failed"
              \/ /\ worker[w].outcome \in {"transient_failure", "timeout"}
                 /\ \/ worker[w].seq >= MaxAttempts /\ delivery'[d].status = "permanently_failed"
                    \/ ~(worker[w].seq >= MaxAttempts) /\ delivery'[d].status = "scheduled"
          BY <4>1, RowAfterFacts
        <4>4. worker[w].seq \in Nat
          BY SeqType
        <4> QED
          BY <4>1, <4>2, <4>3, <4>4, ParameterAssumption DEF ExplainedBy, IsNonTerminal
      <3> QED
        BY <1>1, <3>1, <3>2
    <2> QED
      BY <1>2, <1>4, <2>1, <2>2, WorkerStepMoves
  <1>5. ASSUME \/ \E w \in Workers, d \in Deliveries : FetchMessage(w, d)
               \/ \E p \in Partitions : Rebalance(p)
               \/ UNCHANGED vars
        PROVE  delivery' = delivery /\ attempts' = attempts
    BY <1>5, GroupMoves DEF vars
  <1> QED
    BY <1>2, <1>3, <1>4, <1>5, StepKinds

\* The inductive invariant behind StatusExplained.
THEOREM OutcomeInvariant == Spec => []OutcomeInv
  <1>1. Init => OutcomeInv
    BY ParameterAssumption, BoundAssumption
    DEF Init, OutcomeInv, OutcomeKept, Recorded, ExplainedUnlessLost, IdleWorker, AbsentRow,
        AttemptNumbers, IsNonTerminal
  <1>2. TypeOK /\ OrderInv /\ AttemptInv /\ OutcomeInv /\ [Next]_vars => OutcomeInv'
    BY NextOutcomeKept, NextExplained DEF OutcomeInv
  <1> QED
    BY <1>1, <1>2, TypeCorrect, OrderInvariant, AttemptInvariant, PTL DEF Spec

\* Until an UpdateOutcome fails, every status is explained by the last counted attempt,
\* whatever else goes wrong: copies of the message, crashes and rebalances between the
\* separate statements (worker.go:134, 174-189), resurrections of a finished delivery.
THEOREM StatusIsExplained == Spec => [](faults["record"] = 0 => StatusExplained)
  <1>1. TypeOK /\ AttemptInv /\ OutcomeInv /\ LossInv => (faults["record"] = 0 => StatusExplained)
    <2> SUFFICES ASSUME TypeOK, AttemptInv, OutcomeInv, LossInv, faults["record"] = 0
                 PROVE  StatusExplained
      OBVIOUS
    <2>1. LostAttempts = {}
      <3>1. IsFiniteSet(LostAttempts) /\ Cardinality(LostAttempts) \in Nat
            /\ Cardinality(LostAttempts) <= 0
        BY FS_CardinalityType DEF LossInv
      <3>2. Cardinality(LostAttempts) = 0
        BY <3>1
      <3> QED
        BY <3>1, <3>2, FS_EmptySet
    <2>2. ASSUME NEW d \in Deliveries, delivery[d].attemptCount \in AttemptNumbers
          PROVE  /\ ExplainedBy(delivery[d], attempts[d][delivery[d].attemptCount])
                 /\ IsNonTerminal(delivery[d]) => delivery[d].attemptCount < MaxAttempts
      <3> DEFINE n == delivery[d].attemptCount
      <3>1. n \in Nat
        BY CountType
      <3>2. <<d, n>> \notin LostAttempts
        BY <2>1
      <3>3. ~Lost(d, n)
        BY <2>2, <3>2 DEF LostAttempts
      <3>4. attempts[d][n] # "started"
        BY <3>1, <3>3 DEF Lost
      <3> QED
        BY <2>2, <3>4 DEF OutcomeInv, ExplainedUnlessLost
    <2> QED
      BY <2>2 DEF StatusExplained, ExplainedBy, IsNonTerminal
  <1> QED
    BY <1>1, TypeCorrect, AttemptInvariant, OutcomeInvariant, LossInvariant, PTL

-----------------------------------------------------------------------------
(* One holder of a delivery                                                *)

\* No message has come back and no lease has run out on somebody's work. Failing
\* statements, aborted ticks and stalled suspensions are still allowed.
MessagesOnce == \A k \in {"crash", "rebalance", "lease", "publish"} : faults[k] = 0

\* From the fetch to the UPDATE of the delivery.
Handling == {"load"} \cup Numbered

Handles(w, d) == worker[w].pc \in Handling /\ worker[w].delivery = d

\* A batch, a message or a worker entitles its holder to one attempt of d.
Held(d) ==
  \/ \E s \in Schedulers : d \in scheduler[s].batch
  \/ topic[d] > 0
  \/ \E w \in Workers : Handles(w, d)

\* d has one holder at most, and is in_flight under a live lease while it has; and if
\* it was terminal it still is.
HandOf(d) ==
  /\ topic[d] <= 1
  /\ \A r, s \in Schedulers : d \in scheduler[r].batch /\ d \in scheduler[s].batch => r = s
  /\ \A v, w \in Workers : Handles(v, d) /\ Handles(w, d) => v = w
  /\ \A s \in Schedulers, w \in Workers : ~(d \in scheduler[s].batch /\ Handles(w, d))
  /\ topic[d] > 0 => ~\E s \in Schedulers : d \in scheduler[s].batch
  /\ topic[d] > 0 => ~\E w \in Workers : Handles(w, d)
  /\ Held(d) => delivery[d].status = "in_flight" /\ delivery[d].lease = "live"
  /\ d \in everTerminal => IsTerminal(delivery[d])

SingleHand == \A d \in Deliveries : HandOf(d)

HandInv == MessagesOnce => SingleHand

\* A step that gives no delivery a new holder.
HandFrame ==
  /\ \A s \in Schedulers : scheduler'[s].batch \subseteq scheduler[s].batch
  /\ topic' = topic /\ everTerminal' = everTerminal
  /\ \A w \in Workers, d \in Deliveries : Handles(w, d)' => Handles(w, d)
  /\ \A d \in Deliveries :
       /\ Held(d) => /\ delivery'[d].status = delivery[d].status
                     /\ delivery'[d].lease = delivery[d].lease
       /\ IsTerminal(delivery[d]) => IsTerminal(delivery'[d])

\* A step without a new holder keeps holders single.
LEMMA FrameKeepsHand ==
  ASSUME SingleHand, HandFrame
  PROVE  SingleHand'
  <1>1. ASSUME NEW d \in Deliveries, Held(d)'
        PROVE  Held(d)
    BY <1>1 DEF Held, HandFrame
  <1> SUFFICES ASSUME NEW d \in Deliveries
               PROVE  HandOf(d)'
    BY DEF SingleHand
  <1>2. HandOf(d)
    BY DEF SingleHand
  <1>3. (Held(d) => delivery[d].status = "in_flight" /\ delivery[d].lease = "live")'
    BY <1>1, <1>2 DEF HandOf, HandFrame
  <1>4. \A w \in Workers : Handles(w, d)' => Handles(w, d)
    BY DEF HandFrame
  <1>5. \A s \in Schedulers : d \in scheduler'[s].batch => d \in scheduler[s].batch
    BY DEF HandFrame
  <1>6. topic' = topic /\ (d \in everTerminal => IsTerminal(delivery[d]))'
    BY <1>2 DEF HandOf, HandFrame
  <1> QED
    BY <1>2, <1>3, <1>4, <1>5, <1>6 DEF HandOf

\* The statements of submission, reaper and scheduler other than ClaimReady and
\* Publish, and the clocks.
LEMMA StoreHandFrame ==
  ASSUME TypeOK, SingleHand, StoreStep, MessagesOnce', \A s \in Schedulers : ~ClaimReady(s),
         \A s \in Schedulers : ~Publish(s)
  PROVE  HandFrame
  <1> DEFINE RowsKept ==
               \A d \in Deliveries :
                 /\ Held(d) => /\ delivery'[d].status = delivery[d].status
                               /\ delivery'[d].lease = delivery[d].lease
                 /\ IsTerminal(delivery[d]) => IsTerminal(delivery'[d])
  <1>1. ASSUME NEW kind \in {"lease", "publish"}
        PROVE  ~Fault(kind)
    BY DEF Fault, MessagesOnce, TypeOK, FaultKinds, StatementFaults
  <1>2. \A d \in Deliveries : Held(d) => /\ delivery[d].status = "in_flight"
                                         /\ delivery[d].lease = "live"
    BY DEF SingleHand, HandOf
  <1>3. ASSUME UNCHANGED <<topic, worker, everTerminal>>, RowsKept,
               \A s \in Schedulers : scheduler'[s].batch \subseteq scheduler[s].batch
        PROVE  HandFrame
    BY <1>3 DEF HandFrame, Handles
  <1>4. delivery' = delivery => RowsKept
    OBVIOUS
  <1>5. ASSUME NEW d \in Deliveries, Submit(d)
        PROVE  HandFrame
    <2>1. \A e \in Deliveries : e # d => delivery'[e] = delivery[e]
      BY <1>5 DEF Submit, TypeOK
    <2>2. RowsKept
      BY <1>2, <1>5, <2>1 DEF Submit, IsTerminal, TerminalStatuses
    <2> QED
      BY <1>3, <1>5, <2>2 DEF Submit, kafka
  <1>6. ASSUME NEW s \in Schedulers, SchedulerNext(s) \/ AbortTick(s) \/ CircuitStatementFails(s)
        PROVE  HandFrame
    <2>1. \A r \in Schedulers : scheduler'[r].batch \subseteq scheduler[r].batch
      BY <1>6, TickKeepsBatches DEF SchedulerNext
    <2>2. RowsKept
      <3>1. CASE HurryProbe(s)
        <4>1. \A e \in Deliveries : /\ delivery'[e].status = delivery[e].status
                                   /\ delivery'[e].lease = delivery[e].lease
          BY <3>1 DEF HurryProbe, TypeOK, DeliveryRow
        <4> QED
          BY <4>1 DEF IsTerminal
      <3>2. CASE ~HurryProbe(s)
        <4>1. delivery' = delivery
          BY <1>6, <3>2 DEF SchedulerNext, FindOrphans, SelectProbe, CloseEmptyCircuit, SetProbe,
                      ProcessExpiredSuspensions, AbortTick, CircuitStatementFails, store
        <4> QED
          BY <1>4, <4>1
      <3> QED
        BY <3>1, <3>2
    <2>3. UNCHANGED <<topic, worker, everTerminal>>
      BY <1>6 DEF SchedulerNext, FindOrphans, SelectProbe, CloseEmptyCircuit, SetProbe, HurryProbe,
                  ProcessExpiredSuspensions, AbortTick, CircuitStatementFails, store, kafka
    <2> QED
      BY <1>3, <2>1, <2>2, <2>3
  <1>7. ASSUME NEW s \in Schedulers
        PROVE  ~PublishUnacknowledged(s)
    BY <1>1 DEF PublishUnacknowledged
  <1>8. CASE ResurrectExpiredLeases
    <2>1. RowsKept
      BY <1>2, <1>8 DEF ResurrectExpiredLeases, ResurrectRow, IsTerminal, TerminalStatuses
    <2> QED
      BY <1>3, <1>8, <2>1 DEF ResurrectExpiredLeases, kafka
  <1>9. ASSUME NEW d \in Deliveries, LeaseExpires(d)
        PROVE  HandFrame
    <2>1. ~Held(d)
      BY <1>9 DEF LeaseExpires, InHand, Held, Handles, Handling, Numbered, Attempting
    <2>2. \A e \in Deliveries : /\ e # d => delivery'[e] = delivery[e]
                               /\ delivery'[e].status = delivery[e].status
      BY <1>9 DEF LeaseExpires, ExpireLease, TypeOK, DeliveryRow
    <2>3. RowsKept
      BY <2>1, <2>2 DEF IsTerminal
    <2> QED
      BY <1>3, <1>9, <2>3 DEF LeaseExpires, ExpireLease, kafka
  <1>10. ASSUME NEW d \in Deliveries
         PROVE  ~LeaseExpiresEarly(d)
    BY <1>1 DEF LeaseExpiresEarly
  <1>11. ASSUME NEW d \in Deliveries, BackoffElapses(d)
         PROVE  HandFrame
    <2>1. \A e \in Deliveries : /\ delivery'[e].status = delivery[e].status
                               /\ delivery'[e].lease = delivery[e].lease
      BY <1>11 DEF BackoffElapses, TypeOK, DeliveryRow
    <2>2. RowsKept
      BY <2>1 DEF IsTerminal
    <2> QED
      BY <1>3, <1>11, <2>2 DEF BackoffElapses, kafka
  <1>12. ASSUME NEW e \in Endpoints, SuspensionElapses(e) \/ SuspensionElapsesEarly(e)
         PROVE  HandFrame
    BY <1>3, <1>4, <1>12 DEF SuspensionElapses, SuspensionElapsesEarly, ElapseSuspension, kafka
  <1> QED
    BY <1>5, <1>6, <1>7, <1>8, <1>9, <1>10, <1>11, <1>12 DEF StoreStep

\* ClaimReady takes rows nobody holds.
LEMMA ClaimKeepsHand ==
  ASSUME TypeOK, SingleHand, NEW s \in Schedulers, ClaimReady(s)
  PROVE  SingleHand'
  <1>1. PICK batch \in SUBSET {d \in Deliveries : Claimable(d)} :
          /\ delivery' = [d \in Deliveries |->
                            IF d \in batch THEN ClaimRow(delivery[d]) ELSE delivery[d]]
          /\ SchedulerBecomes(s, [IdleScheduler EXCEPT
                                    !.pc = IF batch = {} THEN "idle" ELSE "publish",
                                    !.batch = batch])
    BY Zenon DEF ClaimReady
  <1>2. topic' = topic /\ worker' = worker /\ everTerminal' = everTerminal
    BY DEF ClaimReady, kafka
  <1>3. /\ scheduler'[s].batch = batch
        /\ \A r \in Schedulers : r # s => scheduler'[r] = scheduler[r]
    BY <1>1 DEF SchedulerBecomes, IdleScheduler, TypeOK
  <1>4. ASSUME NEW d \in Deliveries
        PROVE  HandOf(d)'
    <2>1. HandOf(d)
      BY DEF SingleHand
    <2>2. \A w \in Workers : Handles(w, d)' <=> Handles(w, d)
      BY <1>2 DEF Handles
    <2>3. CASE d \in batch
      <3>1. delivery[d].status = "scheduled"
        BY <2>3 DEF Claimable
      <3>2. ~Held(d) /\ d \notin everTerminal
        BY <2>1, <3>1 DEF HandOf, IsTerminal, TerminalStatuses
      <3>3. delivery'[d].status = "in_flight" /\ delivery'[d].lease = "live"
        BY <1>1, <2>3 DEF ClaimRow, TypeOK, DeliveryRow
      <3>4. /\ \A w \in Workers : ~Handles(w, d)'
            /\ \A r \in Schedulers : r # s => d \notin scheduler'[r].batch
            /\ ~(topic'[d] > 0)
        BY <1>2, <1>3, <2>2, <3>2 DEF Held
      <3> QED
        BY <1>2, <2>1, <3>2, <3>3, <3>4 DEF HandOf
    <2>4. CASE d \notin batch
      <3>1. delivery'[d] = delivery[d]
        BY <1>1, <2>4
      <3>2. \A r \in Schedulers : d \in scheduler'[r].batch => d \in scheduler[r].batch
        BY <1>3, <2>4
      <3>3. Held(d)' => Held(d)
        BY <1>2, <2>2, <3>2 DEF Held
      <3> QED
        BY <1>2, <2>1, <2>2, <3>1, <3>2, <3>3 DEF HandOf
    <2> QED
      BY <2>3, <2>4
  <1> QED
    BY <1>4 DEF SingleHand

\* Publish hands a delivery of the batch over to the topic.
LEMMA PublishKeepsHand ==
  ASSUME TypeOK, SingleHand, NEW s \in Schedulers, Publish(s)
  PROVE  SingleHand'
  <1>1. PICK d \in scheduler[s].batch :
          /\ topic' = [topic EXCEPT ![d] = @ + 1]
          /\ SchedulerBecomes(s, IF scheduler[s].batch = {d}
                                    THEN IdleScheduler
                                    ELSE [scheduler[s] EXCEPT !.batch = @ \ {d}])
    BY Zenon DEF Publish
  <1>2. delivery' = delivery /\ worker' = worker /\ everTerminal' = everTerminal
    BY DEF Publish, store
  <1>3. scheduler[s] \in SchedulerCall
    BY DEF TypeOK
  <1>4. d \in Deliveries
    BY <1>3 DEF SchedulerCall
  <1>5. /\ scheduler'[s].batch = scheduler[s].batch \ {d}
        /\ \A r \in Schedulers : r # s => scheduler'[r] = scheduler[r]
    BY <1>1, <1>3 DEF SchedulerBecomes, TypeOK, IdleScheduler, SchedulerCall
  <1>6. /\ topic'[d] = topic[d] + 1 /\ topic[d] \in Nat
        /\ \A e \in Deliveries : e # d => topic'[e] = topic[e]
    BY <1>1, <1>4 DEF TypeOK
  <1>7. ASSUME NEW e \in Deliveries
        PROVE  HandOf(e)'
    <2>1. HandOf(e)
      BY DEF SingleHand
    <2>2. \A w \in Workers : Handles(w, e)' <=> Handles(w, e)
      BY <1>2 DEF Handles
    <2>3. \A r \in Schedulers : e \in scheduler'[r].batch => e \in scheduler[r].batch
      BY <1>5
    <2>4. CASE e = d
      <3>1. Held(e)
        BY <2>4 DEF Held
      <3>2. \A r \in Schedulers : e \notin scheduler'[r].batch
        BY <1>5, <2>1, <2>4 DEF HandOf
      <3>3. \A w \in Workers : ~Handles(w, e)'
        BY <2>1, <2>2, <2>4 DEF HandOf
      <3>4. topic'[e] <= 1
        BY <1>6, <2>1, <2>4 DEF HandOf
      <3> QED
        BY <1>2, <2>1, <3>1, <3>2, <3>3, <3>4 DEF HandOf
    <2>5. CASE e # d
      <3>1. topic'[e] = topic[e]
        BY <1>6, <2>5
      <3>2. Held(e)' => Held(e)
        BY <2>2, <2>3, <3>1 DEF Held
      <3> QED
        BY <1>2, <2>1, <2>2, <2>3, <3>1, <3>2 DEF HandOf
    <2> QED
      BY <2>4, <2>5
  <1> QED
    BY <1>7 DEF SingleHand

\* FetchMessage hands the one message over to a worker.
LEMMA FetchKeepsHand ==
  ASSUME TypeOK, SingleHand, NEW w \in Workers, NEW d \in Deliveries, FetchMessage(w, d)
  PROVE  SingleHand'
  <1>1. /\ delivery' = delivery /\ scheduler' = scheduler /\ everTerminal' = everTerminal
        /\ worker[w].pc = "idle" /\ worker'[w].delivery = d
        /\ \A v \in Workers : v # w => worker'[v] = worker[v]
    BY GroupMoves
  <1>2. /\ topic'[d] = topic[d] - 1 /\ topic[d] \in Nat /\ topic[d] > 0
        /\ \A e \in Deliveries : e # d => topic'[e] = topic[e]
    BY DEF FetchMessage, TypeOK
  <1>3. ASSUME NEW e \in Deliveries
        PROVE  HandOf(e)'
    <2>1. HandOf(e)
      BY DEF SingleHand
    <2>2. \A v \in Workers : Handles(v, e)' => Handles(v, e) \/ (v = w /\ e = d)
      BY <1>1 DEF Handles
    <2>3. CASE e = d
      <3>1. Held(e)
        BY <1>2, <2>3 DEF Held
      <3>2. topic'[e] = 0
        BY <1>2, <2>1, <2>3 DEF HandOf
      <3>3. /\ \A v \in Workers : Handles(v, e)' => v = w
            /\ \A s \in Schedulers : e \notin scheduler'[s].batch
        BY <1>1, <1>2, <2>1, <2>2, <2>3 DEF HandOf
      <3> QED
        BY <1>1, <2>1, <3>1, <3>2, <3>3 DEF HandOf
    <2>4. CASE e # d
      <3>1. topic'[e] = topic[e]
        BY <1>2, <2>4
      <3>2. Held(e)' => Held(e)
        BY <1>1, <2>2, <2>4, <3>1 DEF Held
      <3> QED
        BY <1>1, <2>1, <2>2, <2>4, <3>1, <3>2 DEF HandOf
    <2> QED
      BY <2>3, <2>4
  <1> QED
    BY <1>3 DEF SingleHand

\* The worker that ends an attempt was the only holder of the delivery.
LEMMA TransitionKeepsHand ==
  ASSUME TypeOK, AttemptInv, SingleHand, NEW w \in Workers, TransitionDelivery(w)
  PROVE  SingleHand'
  <1> DEFINE d == worker[w].delivery
  <1>1. /\ d \in Deliveries /\ worker[w].pc = "mark" /\ worker'[w].pc = "commit"
        /\ \A e \in Deliveries : e # d => delivery'[e] = delivery[e]
        /\ \A v \in Workers : v # w => worker'[v] = worker[v]
        /\ scheduler' = scheduler /\ topic' = topic
    BY TransitionFacts
  <1>2. everTerminal' = IF IsTerminal(delivery'[d]) THEN everTerminal \cup {d} ELSE everTerminal
    BY <1>1, TransitionFacts DEF TransitionDelivery
  <1>3. Handles(w, d)
    BY <1>1 DEF Handles, Handling, Numbered, Attempting
  <1>4. ASSUME NEW e \in Deliveries
        PROVE  HandOf(e)'
    <2>1. HandOf(e)
      BY DEF SingleHand
    <2>2. \A v \in Workers : Handles(v, e)' => v # w /\ Handles(v, e)
      BY <1>1 DEF Handles, Handling, Numbered, Attempting
    <2>3. CASE e = d
      <3>1. /\ \A v \in Workers : ~Handles(v, e)'
            /\ \A s \in Schedulers : e \notin scheduler'[s].batch
            /\ ~(topic'[e] > 0)
        BY <1>1, <1>3, <2>1, <2>2, <2>3 DEF HandOf
      <3>2. ~Held(e)'
        BY <3>1 DEF Held
      <3>3. e \notin everTerminal
        BY <1>3, <2>1, <2>3 DEF HandOf, Held, IsTerminal, TerminalStatuses
      <3>4. (e \in everTerminal => IsTerminal(delivery[e]))'
        BY <1>2, <2>3, <3>3
      <3> QED
        BY <1>1, <2>1, <3>1, <3>2, <3>4 DEF HandOf
    <2>4. CASE e # d
      <3>1. Held(e)' => Held(e)
        BY <1>1, <2>2 DEF Held
      <3>2. e \in everTerminal' => e \in everTerminal
        BY <1>2, <2>4
      <3> QED
        BY <1>1, <2>1, <2>2, <2>4, <3>1, <3>2 DEF HandOf
    <2> QED
      BY <2>3, <2>4
  <1> QED
    BY <1>4 DEF SingleHand

\* A worker's other steps give nobody a message.
LEMMA WorkerHandFrame ==
  ASSUME TypeOK, NEW w \in Workers, ProcessNext(w) \/ StatementFails(w), ~TransitionDelivery(w)
  PROVE  HandFrame
  <1>1. /\ WorkerMoves(w) /\ scheduler' = scheduler /\ delivery' = delivery
        /\ everTerminal' = everTerminal
    BY WorkerStepMoves
  <1>2. topic' = topic
    BY DEF ProcessNext, LoadForWorker, InsertStarted, InsertConflict, DoHTTP, UpdateOutcome,
           UpdateCircuit, Commit, StatementFails, kafka
  <1>3. ASSUME NEW v \in Workers, NEW d \in Deliveries, Handles(v, d)'
        PROVE  Handles(v, d)
    BY <1>1, <1>3 DEF Handles, WorkerMoves, Handling, Numbered, Attempting
  <1> QED
    BY <1>1, <1>2, <1>3 DEF HandFrame

\* A message that has come back has come back for good.
LEMMA MessagesComeBackForGood ==
  ASSUME TypeOK, [Next]_vars, MessagesOnce'
  PROVE  MessagesOnce
  <1>1. \A k \in {"crash", "rebalance", "lease", "publish"} :
          faults[k] \in Nat /\ faults'[k] = 0 /\ faults'[k] >= faults[k]
    BY FaultsGrow DEF MessagesOnce, TypeOK, FaultKinds, StatementFaults
  <1> QED
    BY <1>1 DEF MessagesOnce

\* Every step keeps holders single, unless it brings a message back.
LEMMA NextHand ==
  ASSUME TypeOK, AttemptInv, HandInv, [Next]_vars
  PROVE  HandInv'
  <1> SUFFICES ASSUME MessagesOnce'
               PROVE  SingleHand'
    BY DEF HandInv
  <1>1. SingleHand
    BY MessagesComeBackForGood DEF HandInv
  <1>2. ASSUME NEW kind \in {"crash", "rebalance"}
        PROVE  ~Fault(kind)
    BY DEF Fault, MessagesOnce, TypeOK, FaultKinds, StatementFaults
  <1>3. CASE StoreStep
    BY <1>1, <1>3, ClaimKeepsHand, PublishKeepsHand, StoreHandFrame, FrameKeepsHand
  <1>4. ASSUME NEW w \in Workers, ProcessNext(w) \/ StatementFails(w) \/ Crash(w)
        PROVE  SingleHand'
    <2>1. ~Crash(w)
      BY <1>2 DEF Crash
    <2> QED
      BY <1>1, <1>4, <2>1, TransitionKeepsHand, WorkerHandFrame, FrameKeepsHand
  <1>5. ASSUME NEW w \in Workers, NEW d \in Deliveries, FetchMessage(w, d)
        PROVE  SingleHand'
    BY <1>1, <1>5, FetchKeepsHand
  <1>6. ASSUME NEW p \in Partitions
        PROVE  ~Rebalance(p)
    BY <1>2 DEF Rebalance
  <1>7. CASE UNCHANGED vars
    BY <1>1, <1>7 DEF SingleHand, HandOf, Held, Handles, vars
  <1> QED
    BY <1>3, <1>4, <1>5, <1>6, <1>7, StepKinds

\* The inductive invariant behind the theorems below: as long as no message comes back
\* and no lease runs out early, every delivery has one holder at most.
THEOREM HandInvariant == Spec => []HandInv
  <1>1. Init => HandInv
    BY DEF Init, HandInv, SingleHand, HandOf, Held, Handles, Handling, Numbered, Attempting,
           IdleScheduler, IdleWorker
  <1>2. TypeOK /\ AttemptInv /\ HandInv /\ [Next]_vars => HandInv'
    BY NextHand
  <1> QED
    BY <1>1, <1>2, TypeCorrect, AttemptInvariant, PTL DEF Spec

\* FR-015 of 001-receive-deliver for any number of attempts the schedule allows: as long
\* as no message comes back and no lease runs out early, no attempt beyond MaxAttempts is
\* started. The budget is only looked at when an attempt ends (worker.go:185); that the
\* next one is never started rests on nobody else holding the delivery.
THEOREM BudgetKept == Spec => [](MessagesOnce => RetryBudget)
  <1> DEFINE Budget == MessagesOnce => RetryBudget
  <1>1. Init => Budget
    BY DEF Init, RetryBudget
  <1>2. TypeOK /\ OrderInv /\ AttemptInv /\ OutcomeInv /\ HandInv /\ Budget /\ [Next]_vars
        => Budget'
    <2> SUFFICES ASSUME TypeOK, OrderInv, AttemptInv, OutcomeInv, HandInv, Budget, [Next]_vars,
                        MessagesOnce'
                 PROVE  RetryBudget'
      OBVIOUS
    <2>1. SingleHand /\ RetryBudget
      <3>1. MessagesOnce
        BY MessagesComeBackForGood
      <3> QED
        BY <3>1 DEF HandInv
    <2>2. attempts' = attempts => RetryBudget'
      BY <2>1 DEF RetryBudget
    <2>3. ASSUME NEW w \in Workers, InsertStarted(w)
          PROVE  RetryBudget'
      <3> DEFINE d == worker[w].delivery
      <3>1. /\ d \in Deliveries /\ worker[w].pc = "insert"
            /\ worker[w].seq = delivery[d].attemptCount + 1
        BY <2>3, InsertFacts DEF InsertStarted
      <3>2. delivery[d].status = "in_flight"
        BY <2>1, <3>1 DEF SingleHand, HandOf, Held, Handles, Handling, Numbered
      <3>3. delivery[d].attemptCount < MaxAttempts
        BY <3>1, <3>2 DEF OutcomeInv, ExplainedUnlessLost, IsNonTerminal
      <3>4. worker[w].seq <= MaxAttempts
        BY <3>1, <3>3, CountType, ParameterAssumption
      <3> QED
        BY <2>1, <2>3, <3>4, InsertFacts DEF RetryBudget
    <2>4. ASSUME NEW w \in Workers, UpdateOutcome(w)
          PROVE  RetryBudget'
      <3> DEFINE d == worker[w].delivery
      <3>1. attempts[d][worker[w].seq] # "absent"
        BY <2>4, OutcomeFacts DEF AttemptInv, AttemptOwned, Attempting
      <3> QED
        BY <2>1, <2>4, <3>1, OutcomeFacts DEF RetryBudget
    <2> QED
      BY <2>2, <2>3, <2>4, StepKinds, StoreStepMoves, WorkerStepMoves, GroupMoves DEF vars
  <1> QED
    BY <1>1, <1>2, TypeCorrect, OrderInvariant, AttemptInvariant, OutcomeInvariant, HandInvariant,
       PTL DEF Spec

\* Without any condition: an attempt beyond the budget belongs to a delivery that had
\* ended before. Crashes, rebalances, early leases and duplicate messages cannot carry
\* the count of an unfinished delivery past MaxAttempts (worker.go:105, 185).
THEOREM BudgetBeforeEnd == Spec => []BudgetUntilEnd
  <1>1. Init => BudgetUntilEnd
    BY DEF Init, BudgetUntilEnd
  <1>2. TypeOK /\ OrderInv /\ AttemptInv /\ OutcomeInv /\ BudgetUntilEnd /\ [Next]_vars
        => BudgetUntilEnd'
    <2> SUFFICES ASSUME TypeOK, OrderInv, AttemptInv, OutcomeInv, BudgetUntilEnd, [Next]_vars
                 PROVE  BudgetUntilEnd'
      OBVIOUS
    <2>1. everTerminal \subseteq everTerminal'
      <3>1. ASSUME NEW w \in Workers, TransitionDelivery(w)
            PROVE  everTerminal \subseteq everTerminal'
        BY <3>1 DEF TransitionDelivery
      <3> QED
        BY <3>1, StepKinds, StoreStepMoves, WorkerStepMoves, GroupMoves DEF vars
    <2>2. attempts' = attempts => BudgetUntilEnd'
      BY <2>1 DEF BudgetUntilEnd
    <2>3. ASSUME NEW w \in Workers, InsertStarted(w)
          PROVE  BudgetUntilEnd'
      <3> DEFINE d == worker[w].delivery
      <3>1. /\ d \in Deliveries /\ worker[w].pc = "insert"
            /\ worker[w].seq = delivery[d].attemptCount + 1
        BY <2>3, InsertFacts DEF InsertStarted
      <3>2. delivery[d].status # "absent" /\ delivery[d].status \in Statuses
        BY <3>1 DEF OrderInv, OnlyReleasedInPipeline, InPipeline, TypeOK, DeliveryRow
      <3>3. delivery[d].attemptCount < MaxAttempts \/ d \in everTerminal
        BY <3>1, <3>2 DEF OutcomeInv, ExplainedUnlessLost, OrderInv, HistoryInv, IsNonTerminal,
                          IsTerminal, TerminalStatuses, Statuses
      <3>4. worker[w].seq > MaxAttempts => d \in everTerminal
        BY <3>1, <3>3, CountType, ParameterAssumption
      <3> QED
        BY <2>1, <2>3, <3>4, InsertFacts DEF BudgetUntilEnd
    <2>4. ASSUME NEW w \in Workers, UpdateOutcome(w)
          PROVE  BudgetUntilEnd'
      <3> DEFINE d == worker[w].delivery
      <3>1. attempts[d][worker[w].seq] # "absent"
        BY <2>4, OutcomeFacts DEF AttemptInv, AttemptOwned, Attempting
      <3> QED
        BY <2>1, <2>4, <3>1, OutcomeFacts DEF BudgetUntilEnd
    <2> QED
      BY <2>2, <2>3, <2>4, StepKinds, StoreStepMoves, WorkerStepMoves, GroupMoves DEF vars
  <1> QED
    BY <1>1, <1>2, TypeCorrect, OrderInvariant, AttemptInvariant, OutcomeInvariant, PTL DEF Spec

\* SC-005 of 001-receive-deliver: as long as no message comes back and no lease runs out
\* early, a delivery that has ended is not POSTed again, although neither worker nor store
\* looks at the status (worker.go:117, delivery_store.go:119-162).
THEOREM EndedStaysSilent == Spec /\ []MessagesOnce => NoPostAfterTerminal
  <1> DEFINE Silent == \A w \in Workers : Posts(w) => ~IsTerminal(delivery[worker[w].delivery])
  <1>1. TypeOK /\ HandInv /\ MessagesOnce => [Silent]_vars
    <2> SUFFICES ASSUME TypeOK, SingleHand, NEW w \in Workers, worker[w].pc = "post"
                 PROVE  ~IsTerminal(delivery[worker[w].delivery])
      BY DEF HandInv, Posts
    <2>1. worker[w].delivery \in Deliveries /\ Handles(w, worker[w].delivery)
      BY WorkerDelivery DEF Handles, Handling, Numbered, Attempting
    <2> QED
      BY <2>1 DEF SingleHand, HandOf, Held, IsTerminal, TerminalStatuses
  <1> QED
    BY <1>1, TypeCorrect, HandInvariant, PTL DEF NoPostAfterTerminal

\* What the abstract specification sees of the rows.
Life == [d \in Deliveries |-> [status |-> delivery[d].status,
                               attemptCount |-> delivery[d].attemptCount]]

\* A row that moves as RowMoves says moves as domain/delivery.go says.
LEMMA RowMovesAreMoves ==
  ASSUME RowMoves
  PROVE  Lifecycle!Next
  <1> SUFFICES ASSUME NEW d \in Deliveries
               PROVE  \/ Life'[d] = Life[d]
                      \/ Lifecycle!Create(d) \/ Lifecycle!MarkInFlight(d)
                      \/ Lifecycle!Resurrect(d)
    BY DEF Lifecycle!Next, Life
  <1> QED
    BY DEF RowMoves, Life, Lifecycle!Create, Lifecycle!MarkInFlight, Lifecycle!Resurrect

\* As long as no message comes back and no lease runs out early, the statements of
\* delivery_store.go implement the status machine of domain/delivery.go:44-86.
THEOREM StoreImplementsLifecycle == Spec /\ []MessagesOnce => LifecycleRefined
  <1>1. Init => Lifecycle!Init
    BY DEF Init, Lifecycle!Init, AbsentRow
  <1>2. TypeOK /\ OrderInv /\ AttemptInv /\ HandInv /\ MessagesOnce /\ [Next]_vars
        => [Lifecycle!Next]_Life
    <2> SUFFICES ASSUME TypeOK, OrderInv, AttemptInv, SingleHand, [Next]_vars
                 PROVE  Lifecycle!Next \/ Life' = Life
      BY DEF HandInv
    <2>1. delivery' = delivery => Life' = Life
      BY DEF Life
    <2>2. CASE StoreStep
      BY <2>2, StoreStepMoves, RowMovesAreMoves
    <2>3. ASSUME NEW w \in Workers, TransitionDelivery(w)
          PROVE  Lifecycle!Next
      <3> DEFINE d == worker[w].delivery
      <3>1. /\ d \in Deliveries /\ worker[w].pc = "mark"
            /\ delivery'[d] = RowAfter(worker[w], delivery[d])
            /\ delivery[d] \in DeliveryRow /\ worker[w] \in WorkerCall
            /\ \A e \in Deliveries : e # d => delivery'[e] = delivery[e]
        BY <2>3, TransitionFacts
      <3>2. delivery[d].status = "in_flight"
        BY <3>1 DEF SingleHand, HandOf, Held, Handles, Handling, Numbered, Attempting
      <3>3. /\ delivery'[d].attemptCount = delivery[d].attemptCount + 1
            /\ delivery'[d].status \in {"delivered", "permanently_failed", "scheduled"}
        BY <3>1, RowAfterFacts
      <3>4. ASSUME NEW e \in Deliveries, e = d
            PROVE  \/ Lifecycle!MarkDelivered(e) \/ Lifecycle!MarkPermanentlyFailed(e)
                   \/ Lifecycle!RescheduleAfter(e)
        BY <3>1, <3>2, <3>3, <3>4
        DEF Lifecycle!MarkDelivered, Lifecycle!MarkPermanentlyFailed,
            Lifecycle!RescheduleAfter, Lifecycle!Finish
      <3>5. \A e \in Deliveries : e # d => Life'[e] = Life[e]
        BY <3>1 DEF Life
      <3> QED
        BY <3>4, <3>5 DEF Lifecycle!Next, Life
    <2> QED
      BY <2>1, <2>2, <2>3, StepKinds, WorkerStepMoves, GroupMoves DEF vars
  <1> QED
    BY <1>1, <1>2, TypeCorrect, OrderInvariant, AttemptInvariant, HandInvariant, PTL
    DEF Spec, LifecycleRefined, Lifecycle!Spec, Life
=============================================================================
