------------------------- MODULE OrderSafety_proofs --------------------------
(***************************************************************************)
(* FR-008: no attempt of a delivery is started before every earlier        *)
(* delivery of its tenant has been terminal. The inductive invariant is    *)
(* OrderInv. Submit adds a row and ClaimReady brings a delivery into the   *)
(* pipeline; every other step only moves what is in it, duplicates and     *)
(* crashes included.                                                       *)
(***************************************************************************)
EXTENDS DeliveryPipeline_proofs

\* A step that brings no delivery into the pipeline and inserts no row.
OrderFrame ==
  /\ \A d \in Deliveries : InPipeline(d)' => InPipeline(d)
  /\ everTerminal \subseteq everTerminal'
  /\ \A d \in Deliveries : IsTerminal(delivery'[d]) => d \in everTerminal'
  /\ \A d \in Deliveries : delivery'[d].status = "absent" <=> delivery[d].status = "absent"
  /\ \A d \in Deliveries : delivery'[d].status = "absent" =>
                             delivery'[d].attemptCount = delivery[d].attemptCount

\* A worker that is not idle works on a delivery.
LEMMA WorkerDelivery ==
  ASSUME TypeOK, NEW w \in Workers, worker[w].pc # "idle"
  PROVE  worker[w].delivery \in Deliveries
  <1>1. worker[w] \in WorkerCall
    BY DEF TypeOK
  <1> QED
    BY <1>1 DEF WorkerCall

\* A step that lets no delivery enter the pipeline keeps the invariant.
LEMMA FrameKeepsOrderInv ==
  ASSUME OrderInv, OrderFrame
  PROVE  OrderInv'
  <1>1. OnlyReleasedInPipeline'
    <2> SUFFICES ASSUME NEW d \in Deliveries, InPipeline(d)'
                 PROVE  Released(d)' /\ delivery'[d].status # "absent"
      BY DEF OnlyReleasedInPipeline
    <2>1. Released(d) /\ delivery[d].status # "absent"
      BY DEF OrderInv, OnlyReleasedInPipeline, OrderFrame
    <2>2. Released(d)'
      BY <2>1 DEF Released, OrderFrame, Earlier, Tenant
    <2> QED
      BY <2>1, <2>2 DEF OrderFrame
  <1>2. HistoryInv'
    BY DEF OrderInv, HistoryInv, OrderFrame, Earlier, Tenant
  <1> QED
    BY <1>1, <1>2 DEF OrderInv

\* Steps that leave the rows of deliveries alone.
LEMMA RowsStillFrame ==
  ASSUME OrderInv, delivery' = delivery, everTerminal' = everTerminal,
         \A d \in Deliveries : InPipeline(d)' => InPipeline(d)
  PROVE  OrderFrame
  BY DEF OrderFrame, OrderInv, HistoryInv

\* Steps that leave the rows of deliveries and all but the scheduler alone.
LEMMA SchedulerFrame ==
  ASSUME OrderInv, UNCHANGED <<delivery, attempts, kafka, worker, everTerminal>>,
         \A s \in Schedulers : scheduler'[s].batch \subseteq scheduler[s].batch
  PROVE  OrderFrame
  <1>1. \A d \in Deliveries : InPipeline(d)' => InPipeline(d)
    BY DEF InPipeline, kafka
  <1> QED
    BY <1>1, RowsStillFrame

\* Worker w stays with its message or drops it; the other workers do nothing.
Stays(w) ==
  /\ worker'[w].pc # "idle" => worker'[w].delivery = worker[w].delivery
  /\ \A v \in Workers : v # w => worker'[v] = worker[v]

\* A worker that moves on within its call, or drops it, stays with its message.
LEMMA CallStays ==
  ASSUME TypeOK, NEW w \in Workers, NEW call, WorkerBecomes(w, call),
         call.pc # "idle" => call.delivery = worker[w].delivery
  PROVE  Stays(w)
  BY DEF WorkerBecomes, TypeOK, Stays

\* Steps of a worker that leave the rows of deliveries alone, and insert attempts
\* of its own delivery only.
LEMMA WorkerFrame ==
  ASSUME OrderInv, NEW w \in Workers, worker[w].pc # "idle", Stays(w),
         UNCHANGED <<delivery, topic, scheduler, everTerminal>>,
         \A d \in Deliveries : uncommitted'[d] > 0 => uncommitted[d] > 0,
         \A d \in Deliveries : d # worker[w].delivery => attempts'[d] = attempts[d]
  PROVE  OrderFrame
  <1>1. ASSUME NEW d \in Deliveries, InPipeline(d)'
        PROVE  InPipeline(d)
    <2>1. CASE d = worker[w].delivery
      BY <2>1 DEF InPipeline
    <2>2. CASE d # worker[w].delivery
      <3>1. (\E v \in Workers : worker'[v].pc # "idle" /\ worker'[v].delivery = d)
            => \E v \in Workers : worker[v].pc # "idle" /\ worker[v].delivery = d
        BY <2>2 DEF Stays
      <3> QED
        BY <1>1, <2>2, <3>1 DEF InPipeline
    <2> QED
      BY <2>1, <2>2
  <1> QED
    BY <1>1, RowsStillFrame

\* Steps that change the rows of deliveries, but neither insert, claim nor end one.
LEMMA RowFrame ==
  ASSUME OrderInv, UNCHANGED <<attempts, kafka, worker, scheduler, everTerminal>>,
         \A d \in Deliveries : \/ delivery'[d].status = delivery[d].status
                              \/ /\ delivery[d].status = "in_flight"
                                 /\ delivery'[d].status = "scheduled",
         \A d \in Deliveries : delivery'[d].attemptCount = delivery[d].attemptCount
  PROVE  OrderFrame
  <1>1. \A d \in Deliveries : InPipeline(d)' => InPipeline(d)
    BY DEF InPipeline, kafka
  <1> QED
    BY <1>1 DEF OrderFrame, OrderInv, HistoryInv, IsTerminal, TerminalStatuses

\* A submission comes after the tenant's earlier ones.
LEMMA SubmitKeepsOrderInv ==
  ASSUME TypeOK, OrderInv, NEW d \in Deliveries, Submit(d)
  PROVE  OrderInv'
  <1>1. /\ delivery'[d] = ScheduledRow
        /\ \A e \in Deliveries : e # d => delivery'[e] = delivery[e]
        /\ UNCHANGED <<attempts, kafka, worker, scheduler, everTerminal>>
    BY DEF Submit, TypeOK
  <1>2. \A e \in Deliveries : InPipeline(e)' => InPipeline(e)
    BY <1>1 DEF InPipeline, kafka, ScheduledRow
  <1>3. OnlyReleasedInPipeline'
    <2> SUFFICES ASSUME NEW e \in Deliveries, InPipeline(e)'
                 PROVE  Released(e)' /\ delivery'[e].status # "absent"
      BY DEF OnlyReleasedInPipeline
    <2>1. Released(e) /\ delivery[e].status # "absent"
      BY <1>2 DEF OrderInv, OnlyReleasedInPipeline
    <2> QED
      BY <1>1, <2>1 DEF Released, Earlier, Tenant, ScheduledRow
  <1>4. HistoryInv'
    <2> SUFFICES ASSUME NEW e \in Deliveries
                 PROVE  /\ IsTerminal(delivery'[e]) => e \in everTerminal'
                        /\ delivery'[e].status = "absent" => delivery'[e].attemptCount = 0
                        /\ delivery'[e].status # "absent" =>
                             \A f \in Deliveries : Earlier(f, e) => delivery'[f].status # "absent"
      BY Zenon DEF HistoryInv, Earlier, Tenant
    <2>1. \A f \in Deliveries : delivery[f].status # "absent" => delivery'[f].status # "absent"
      BY <1>1 DEF ScheduledRow
    <2>2. CASE e = d
      BY <1>1, <2>1, <2>2 DEF Submit, ScheduledRow, IsTerminal, TerminalStatuses
    <2>3. CASE e # d
      BY <1>1, <2>1, <2>3 DEF OrderInv, HistoryInv
    <2> QED
      BY <2>2, <2>3
  <1> QED
    BY <1>3, <1>4 DEF OrderInv

\* ClaimReady takes a delivery only when every earlier one, all of which exist,
\* is terminal at that moment.
LEMMA ClaimKeepsOrderInv ==
  ASSUME TypeOK, OrderInv, NEW s \in Schedulers, ClaimReady(s)
  PROVE  OrderInv'
  <1>1. PICK batch \in SUBSET {d \in Deliveries : Claimable(d)} :
          /\ delivery' = [d \in Deliveries |->
                            IF d \in batch THEN ClaimRow(delivery[d]) ELSE delivery[d]]
          /\ SchedulerBecomes(s, [IdleScheduler EXCEPT
                                    !.pc = IF batch = {} THEN "idle" ELSE "publish",
                                    !.batch = batch])
    BY Zenon DEF ClaimReady
  <1>2. UNCHANGED <<attempts, kafka, worker, everTerminal>>
    BY DEF ClaimReady
  <1>3. \A r \in Schedulers : \A d \in Deliveries :
          d \in scheduler'[r].batch => d \in batch \/ d \in scheduler[r].batch
    BY <1>1 DEF SchedulerBecomes, IdleScheduler, TypeOK
  <1>4. \A d \in Deliveries :
          /\ d \notin batch => delivery'[d] = delivery[d]
          /\ d \in batch => /\ delivery'[d].status = "in_flight"
                            /\ delivery[d].status = "scheduled"
    BY <1>1 DEF ClaimRow, Claimable, TypeOK, DeliveryRow
  <1>5. \A d \in Deliveries : InPipeline(d)' => InPipeline(d) \/ d \in batch
    BY <1>2, <1>3, <1>4 DEF InPipeline, kafka
  <1>6. ASSUME NEW d \in batch
        PROVE  Released(d)
    <2> SUFFICES ASSUME NEW e \in Deliveries, Earlier(e, d)
                 PROVE  e \in everTerminal
      BY DEF Released
    <2>1. ~IsNonTerminal(delivery[e]) /\ delivery[d].status = "scheduled"
      BY DEF Claimable
    <2>2. delivery[e].status # "absent"
      BY <2>1 DEF OrderInv, HistoryInv
    <2>3. delivery[e].status \in Statuses
      BY DEF TypeOK, DeliveryRow
    <2> QED
      BY <2>1, <2>2, <2>3
      DEF OrderInv, HistoryInv, IsTerminal, IsNonTerminal, TerminalStatuses, Statuses
  <1>7. OnlyReleasedInPipeline'
    <2> SUFFICES ASSUME NEW d \in Deliveries, InPipeline(d)'
                 PROVE  Released(d)' /\ delivery'[d].status # "absent"
      BY DEF OnlyReleasedInPipeline
    <2>1. Released(d)
      BY <1>5, <1>6 DEF OrderInv, OnlyReleasedInPipeline
    <2>2. Released(d)'
      BY <1>2, <2>1 DEF Released, Earlier, Tenant
    <2>3. d \notin batch => delivery[d].status # "absent"
      BY <1>5 DEF OrderInv, OnlyReleasedInPipeline
    <2> QED
      BY <1>4, <2>2, <2>3
  <1>8. HistoryInv'
    <2>1. \A d \in Deliveries :
            /\ delivery'[d].status = "absent" <=> delivery[d].status = "absent"
            /\ delivery'[d].status = "absent" => delivery'[d] = delivery[d]
            /\ IsTerminal(delivery'[d]) => IsTerminal(delivery[d])
      BY <1>4 DEF IsTerminal, TerminalStatuses
    <2> QED
      BY <1>2, <2>1 DEF OrderInv, HistoryInv, Earlier, Tenant
  <1> QED
    BY <1>7, <1>8 DEF OrderInv

\* A tick that claims nothing adds nothing to a batch.
LEMMA TickKeepsBatches ==
  ASSUME TypeOK, NEW s \in Schedulers,
         \/ FindOrphans(s) \/ SelectProbe(s) \/ CloseEmptyCircuit(s) \/ SetProbe(s)
         \/ HurryProbe(s) \/ ProcessExpiredSuspensions(s) \/ AbortTick(s)
         \/ CircuitStatementFails(s)
  PROVE  \A r \in Schedulers : scheduler'[r].batch \subseteq scheduler[r].batch
  <1>0. scheduler[s] \in SchedulerCall
    BY DEF TypeOK
  <1>1. ASSUME NEW call, SchedulerBecomes(s, call), call.batch \subseteq scheduler[s].batch
        PROVE  \A r \in Schedulers : scheduler'[r].batch \subseteq scheduler[r].batch
    BY <1>1 DEF SchedulerBecomes, TypeOK
  <1>2. CASE FindOrphans(s)
    BY <1>1, <1>2 DEF FindOrphans, IdleScheduler
  <1>3. CASE SelectProbe(s)
    BY <1>0, <1>1, <1>3 DEF SelectProbe, SchedulerCall
  <1>4. ASSUME NextEndpoint(s)
        PROVE  \A r \in Schedulers : scheduler'[r].batch \subseteq scheduler[r].batch
    BY <1>0, <1>1, <1>4 DEF NextEndpoint, SchedulerCall
  <1>5. CASE CloseEmptyCircuit(s) \/ HurryProbe(s)
    BY <1>4, <1>5 DEF CloseEmptyCircuit, HurryProbe
  <1>6. CASE SetProbe(s)
    BY <1>0, <1>1, <1>6 DEF SetProbe, SchedulerCall
  <1>7. CASE ProcessExpiredSuspensions(s)
    BY <1>0, <1>1, <1>7 DEF ProcessExpiredSuspensions, SchedulerCall
  <1>8. CASE AbortTick(s)
    BY <1>1, <1>8 DEF AbortTick, IdleScheduler
  <1>9. CASE CircuitStatementFails(s)
    BY <1>0, <1>1, <1>4, <1>9 DEF CircuitStatementFails, SchedulerCall, IdleScheduler
  <1> QED
    BY <1>2, <1>3, <1>5, <1>6, <1>7, <1>8, <1>9

\* A tick that claims nothing only lets go of deliveries.
LEMMA TickFrame ==
  ASSUME TypeOK, OrderInv, NEW s \in Schedulers,
         \/ FindOrphans(s) \/ SelectProbe(s) \/ CloseEmptyCircuit(s) \/ SetProbe(s)
         \/ HurryProbe(s) \/ ProcessExpiredSuspensions(s) \/ AbortTick(s)
         \/ CircuitStatementFails(s)
  PROVE  OrderFrame
  <1>1. \A r \in Schedulers : scheduler'[r].batch \subseteq scheduler[r].batch
    BY TickKeepsBatches
  <1>2. CASE HurryProbe(s)
    <2>1. \A d \in Deliveries : /\ delivery'[d].status = delivery[d].status
                               /\ delivery'[d].attemptCount = delivery[d].attemptCount
      BY <1>2 DEF HurryProbe, TypeOK, DeliveryRow
    <2>2. \A d \in Deliveries : InPipeline(d)' => InPipeline(d)
      BY <1>1, <1>2, <2>1 DEF InPipeline, HurryProbe, kafka
    <2> QED
      BY <1>2, <2>1, <2>2
      DEF OrderFrame, OrderInv, HistoryInv, HurryProbe, IsTerminal, TerminalStatuses
  <1>3. CASE ~HurryProbe(s)
    <2>1. UNCHANGED <<delivery, attempts, kafka, worker, everTerminal>>
      BY <1>3 DEF FindOrphans, SelectProbe, CloseEmptyCircuit, SetProbe,
                  ProcessExpiredSuspensions, AbortTick, CircuitStatementFails, store
    <2> QED
      BY <1>1, <2>1, SchedulerFrame
  <1> QED
    BY <1>2, <1>3

\* Publish moves a delivery from the batch to the topic.
LEMMA PublishFrame ==
  ASSUME TypeOK, OrderInv, NEW s \in Schedulers, Publish(s)
  PROVE  OrderFrame
  <1>1. PICK d \in scheduler[s].batch :
          /\ topic' = [topic EXCEPT ![d] = @ + 1]
          /\ SchedulerBecomes(s, IF scheduler[s].batch = {d}
                                    THEN IdleScheduler
                                    ELSE [scheduler[s] EXCEPT !.batch = @ \ {d}])
    BY Zenon DEF Publish
  <1>2. scheduler[s] \in SchedulerCall
    BY DEF TypeOK
  <1>3. \A r \in Schedulers : scheduler'[r].batch \subseteq scheduler[r].batch
    BY <1>1, <1>2 DEF SchedulerBecomes, TypeOK, IdleScheduler, SchedulerCall
  <1>4. \A e \in Deliveries : e # d => topic'[e] = topic[e]
    BY <1>1 DEF TypeOK
  <1>5. InPipeline(d)
    BY DEF InPipeline
  <1>6. UNCHANGED <<delivery, attempts, uncommitted, worker, everTerminal>>
    BY DEF Publish, store
  <1>7. \A e \in Deliveries : InPipeline(e)' => InPipeline(e)
    BY <1>3, <1>4, <1>5, <1>6 DEF InPipeline
  <1> QED
    BY <1>6, <1>7, RowsStillFrame

\* A copy more of what the batch holds.
LEMMA UnacknowledgedFrame ==
  ASSUME TypeOK, OrderInv, NEW s \in Schedulers, PublishUnacknowledged(s)
  PROVE  OrderFrame
  <1>1. PICK d \in scheduler[s].batch : topic' = [topic EXCEPT ![d] = @ + 1]
    BY Zenon DEF PublishUnacknowledged
  <1>2. InPipeline(d)
    BY DEF InPipeline
  <1>3. \A e \in Deliveries : e # d => topic'[e] = topic[e]
    BY <1>1 DEF TypeOK
  <1>4. UNCHANGED <<delivery, attempts, uncommitted, worker, scheduler, everTerminal>>
    BY DEF PublishUnacknowledged, store
  <1>5. \A e \in Deliveries : InPipeline(e)' => InPipeline(e)
    BY <1>2, <1>3, <1>4 DEF InPipeline
  <1> QED
    BY <1>4, <1>5, RowsStillFrame

\* FetchMessage moves a delivery from the topic to a worker.
LEMMA FetchFrame ==
  ASSUME TypeOK, OrderInv, NEW w \in Workers, NEW d \in Deliveries, FetchMessage(w, d)
  PROVE  OrderFrame
  <1>1. InPipeline(d)
    BY DEF FetchMessage, InPipeline
  <1>2. \A e \in Deliveries : e # d => topic'[e] = topic[e] /\ uncommitted'[e] = uncommitted[e]
    BY DEF FetchMessage, TypeOK
  <1>3. /\ worker'[w].delivery = d
        /\ \A v \in Workers : v # w => worker'[v] = worker[v]
    BY DEF FetchMessage, WorkerBecomes, TypeOK, IdleWorker
  <1>4. UNCHANGED <<delivery, attempts, scheduler, everTerminal>>
    BY DEF FetchMessage, store
  <1>5. \A e \in Deliveries : InPipeline(e)' => InPipeline(e)
    BY <1>1, <1>2, <1>3, <1>4 DEF InPipeline
  <1> QED
    BY <1>4, <1>5, RowsStillFrame

\* The UPDATE that ends an attempt adds a terminal delivery to the history.
LEMMA TransitionFrame ==
  ASSUME TypeOK, OrderInv, NEW w \in Workers, TransitionDelivery(w)
  PROVE  OrderFrame
  <1> DEFINE d == worker[w].delivery
  <1>1. worker[w].pc # "idle" /\ d \in Deliveries
    BY WorkerDelivery DEF TransitionDelivery
  <1>2. InPipeline(d) /\ delivery[d].status # "absent"
    BY <1>1 DEF InPipeline, OrderInv, OnlyReleasedInPipeline
  <1>3. /\ delivery'[d] = RowAfter(worker[w], delivery[d])
        /\ \A e \in Deliveries : e # d => delivery'[e] = delivery[e]
    BY <1>1 DEF TransitionDelivery, TypeOK
  <1>4. delivery'[d].status \in {"delivered", "permanently_failed", "scheduled"}
    BY <1>1, <1>3
    DEF RowAfter, MarkDelivered, MarkPermanentlyFailed, Reschedule, TypeOK, DeliveryRow
  <1>5. /\ everTerminal \subseteq everTerminal'
        /\ IsTerminal(delivery'[d]) => d \in everTerminal'
    BY <1>3 DEF TransitionDelivery
  <1>6. /\ worker'[w].delivery = d
        /\ \A v \in Workers : v # w => worker'[v] = worker[v]
    BY DEF TransitionDelivery, WorkerBecomes, TypeOK, WorkerCall
  <1>7. UNCHANGED <<attempts, kafka, scheduler>>
    BY DEF TransitionDelivery
  <1>8. \A e \in Deliveries : InPipeline(e)' => InPipeline(e)
    BY <1>2, <1>3, <1>6, <1>7 DEF InPipeline, kafka
  <1> QED
    BY <1>2, <1>3, <1>4, <1>5, <1>8 DEF OrderFrame, OrderInv, HistoryInv

\* Every other step of a worker stays with its message or drops it.
LEMMA ProcessFrame ==
  ASSUME TypeOK, OrderInv, NEW w \in Workers,
         ProcessNext(w) \/ StatementFails(w), ~TransitionDelivery(w)
  PROVE  OrderFrame
  <1>1. worker[w] \in WorkerCall /\ worker[w].pc # "idle"
    BY DEF TypeOK, ProcessNext, LoadForWorker, InsertStarted, InsertConflict, DoHTTP,
           UpdateOutcome, UpdateCircuit, Commit, StatementFails, StatementFaults
  <1>2. Stays(w)
    <2>1. \A pc : [worker[w] EXCEPT !.pc = pc].delivery = worker[w].delivery
      BY <1>1 DEF WorkerCall
    <2>2. ASSUME WorkerBecomes(w, IdleWorker)
          PROVE  Stays(w)
      BY <2>2, CallStays DEF IdleWorker
    <2>3. CASE LoadForWorker(w)
      BY <1>1, <2>3, CallStays DEF LoadForWorker, WorkerCall
    <2>4. CASE InsertStarted(w) \/ UpdateOutcome(w) \/ UpdateCircuit(w)
      BY <2>1, <2>4, CallStays DEF InsertStarted, UpdateOutcome, UpdateCircuit
    <2>5. CASE InsertConflict(w) \/ Commit(w)
      BY <2>2, <2>5 DEF InsertConflict, Commit, Abandon
    <2>6. CASE DoHTTP(w)
      BY <1>1, <2>6, CallStays DEF DoHTTP, WorkerCall
    <2>7. CASE StatementFails(w)
      BY <2>1, <2>2, <2>7, CallStays DEF StatementFails
    <2> QED
      BY <2>3, <2>4, <2>5, <2>6, <2>7 DEF ProcessNext
  <1>3. UNCHANGED <<delivery, topic, scheduler, everTerminal>>
    BY DEF ProcessNext, LoadForWorker, InsertStarted, InsertConflict, DoHTTP, UpdateOutcome,
           UpdateCircuit, Commit, StatementFails, store, kafka
  <1>4. \A d \in Deliveries : uncommitted'[d] > 0 => uncommitted[d] > 0
    <2>1. CASE Commit(w)
      BY <2>1 DEF Commit
    <2>2. CASE ~Commit(w)
      BY <2>2 DEF ProcessNext, LoadForWorker, InsertStarted, InsertConflict, DoHTTP,
                  UpdateOutcome, UpdateCircuit, StatementFails, kafka
    <2> QED
      BY <2>1, <2>2
  <1>5. \A d \in Deliveries : d # worker[w].delivery => attempts'[d] = attempts[d]
    BY DEF ProcessNext, LoadForWorker, InsertStarted, InsertConflict, DoHTTP, UpdateOutcome,
           UpdateCircuit, Commit, StatementFails, store, TypeOK
  <1> QED
    BY <1>1, <1>2, <1>3, <1>4, <1>5, WorkerFrame

\* A rewind makes no message that was not there, fetched or to be fetched.
LEMMA GroupFrame ==
  ASSUME TypeOK, OrderInv,
         \/ \E w \in Workers : Crash(w)
         \/ \E p \in Partitions : Rebalance(p)
  PROVE  OrderFrame
  <1>1. ASSUME NEW p, Rewind(p), NEW d \in Deliveries, topic'[d] > 0 \/ uncommitted'[d] > 0
        PROVE  topic[d] > 0 \/ uncommitted[d] > 0
    BY <1>1, BoundAssumption DEF Rewind, Saturate, TypeOK
  <1>2. ASSUME NEW w \in Workers, Crash(w)
        PROVE  OrderFrame
    <2>1. UNCHANGED <<delivery, attempts, scheduler, everTerminal>>
      BY <1>2 DEF Crash, store
    <2>2. \A d \in Deliveries : topic'[d] > 0 \/ uncommitted'[d] > 0
                               => topic[d] > 0 \/ uncommitted[d] > 0
      BY <1>1, <1>2 DEF Crash, kafka
    <2>3. \A v \in Workers : worker'[v].pc # "idle" => worker'[v] = worker[v]
      BY <1>2 DEF Crash, Abandon, WorkerBecomes, IdleWorker, TypeOK
    <2>4. \A d \in Deliveries : InPipeline(d)' => InPipeline(d)
      BY <2>1, <2>2, <2>3 DEF InPipeline
    <2> QED
      BY <2>1, <2>4, RowsStillFrame
  <1>3. ASSUME NEW p \in Partitions, Rebalance(p)
        PROVE  OrderFrame
    <2>1. UNCHANGED <<delivery, attempts, scheduler, everTerminal>>
      BY <1>3 DEF Rebalance, store
    <2>2. \A d \in Deliveries : topic'[d] > 0 \/ uncommitted'[d] > 0
                               => topic[d] > 0 \/ uncommitted[d] > 0
      BY <1>1, <1>3 DEF Rebalance
    <2>3. \A v \in Workers : /\ worker'[v].pc = worker[v].pc
                            /\ worker'[v].delivery = worker[v].delivery
      BY <1>3 DEF Rebalance, TypeOK, WorkerCall
    <2>4. \A d \in Deliveries : InPipeline(d)' => InPipeline(d)
      BY <2>1, <2>2, <2>3 DEF InPipeline
    <2> QED
      BY <2>1, <2>4, RowsStillFrame
  <1> QED
    BY <1>2, <1>3

\* The reaper and the clocks end no delivery and insert none.
LEMMA TimeFrame ==
  ASSUME TypeOK, OrderInv,
         \/ ResurrectExpiredLeases
         \/ \E d \in Deliveries : ExpireLease(d) \/ BackoffElapses(d)
         \/ \E e \in Endpoints : ElapseSuspension(e)
  PROVE  OrderFrame
  <1>1. CASE ResurrectExpiredLeases
    <2>1. \A d \in Deliveries :
            /\ \/ delivery'[d].status = delivery[d].status
               \/ delivery[d].status = "in_flight" /\ delivery'[d].status = "scheduled"
            /\ delivery'[d].attemptCount = delivery[d].attemptCount
      BY <1>1 DEF ResurrectExpiredLeases, ResurrectRow, TypeOK, DeliveryRow
    <2> QED
      BY <1>1, <2>1, RowFrame DEF ResurrectExpiredLeases
  <1>2. ASSUME NEW d \in Deliveries, ExpireLease(d) \/ BackoffElapses(d)
        PROVE  OrderFrame
    <2>1. \A e \in Deliveries : /\ delivery'[e].status = delivery[e].status
                               /\ delivery'[e].attemptCount = delivery[e].attemptCount
      <3>1. CASE ExpireLease(d)
        BY <3>1 DEF ExpireLease, TypeOK, DeliveryRow
      <3>2. CASE BackoffElapses(d)
        BY <3>2 DEF BackoffElapses, TypeOK, DeliveryRow
      <3> QED
        BY <1>2, <3>1, <3>2
    <2> QED
      BY <1>2, <2>1, RowFrame DEF ExpireLease, BackoffElapses
  <1>3. ASSUME NEW e \in Endpoints, ElapseSuspension(e)
        PROVE  OrderFrame
    BY <1>3, SchedulerFrame DEF ElapseSuspension
  <1> QED
    BY <1>1, <1>2, <1>3

\* With no row and an empty pipeline the invariant holds.
LEMMA InitOrder ==
  ASSUME Init
  PROVE  OrderInv
  <1>1. OnlyReleasedInPipeline
    BY DEF Init, OnlyReleasedInPipeline, InPipeline, AbsentRow, IdleScheduler, IdleWorker
  <1>2. HistoryInv
    BY DEF Init, HistoryInv, AbsentRow, IsTerminal, TerminalStatuses
  <1> QED
    BY <1>1, <1>2 DEF OrderInv

\* Every step preserves the invariant.
LEMMA NextOrder ==
  ASSUME TypeOK, OrderInv, [Next]_vars
  PROVE  OrderInv'
  <1>1. ASSUME NEW d \in Deliveries, Submit(d)
        PROVE  OrderInv'
    BY <1>1, SubmitKeepsOrderInv
  <1>2. ASSUME NEW s \in Schedulers, SchedulerNext(s)
        PROVE  OrderInv'
    BY <1>2, ClaimKeepsOrderInv, TickFrame, PublishFrame, FrameKeepsOrderInv DEF SchedulerNext
  <1>3. ASSUME NEW w \in Workers, NEW d \in Deliveries, FetchMessage(w, d)
        PROVE  OrderInv'
    BY <1>3, FetchFrame, FrameKeepsOrderInv
  <1>4. ASSUME NEW w \in Workers, ProcessNext(w)
        PROVE  OrderInv'
    BY <1>4, TransitionFrame, ProcessFrame, FrameKeepsOrderInv
  <1>5. CASE ResurrectExpiredLeases \/ TimeNext
    BY <1>5, TimeFrame, FrameKeepsOrderInv DEF TimeNext, LeaseExpires, SuspensionElapses
  <1>6. CASE FaultNext
    <2>1. ASSUME NEW s \in Schedulers, AbortTick(s) \/ CircuitStatementFails(s)
          PROVE  OrderFrame
      BY <2>1, TickFrame
    <2>2. ASSUME NEW w \in Workers, StatementFails(w)
          PROVE  OrderFrame
      BY <2>2, TransitionFrame, ProcessFrame
    <2> QED
      BY <1>6, <2>1, <2>2, UnacknowledgedFrame, GroupFrame, TimeFrame, FrameKeepsOrderInv
      DEF FaultNext, LeaseExpiresEarly, SuspensionElapsesEarly
  <1>7. CASE UNCHANGED vars
    BY <1>7, SchedulerFrame, FrameKeepsOrderInv DEF vars, kafka
  <1> QED
    BY <1>1, <1>2, <1>3, <1>4, <1>5, <1>6, <1>7 DEF Next

\* The inductive invariant behind the tenant order holds in every reachable state.
THEOREM OrderInvariant == Spec => []OrderInv
  <1>1. Init => OrderInv
    BY InitOrder
  <1>2. TypeOK /\ OrderInv /\ [Next]_vars => OrderInv'
    BY NextOrder
  <1> QED
    BY <1>1, <1>2, TypeCorrect, PTL DEF Spec

\* FR-008 for any number of deliveries, workers, schedulers and faults: an attempt
\* of a delivery is started (worker.go:111) only after every earlier delivery of its
\* tenant was terminal, although only ClaimReady (delivery_store.go:73-79) looks.
THEOREM TenantOrderHolds == Spec => []TenantOrder
  <1>1. OrderInv => TenantOrder
    BY DEF OrderInv, OnlyReleasedInPipeline, InPipeline, Released, TenantOrder
  <1> QED
    BY <1>1, OrderInvariant, PTL
=============================================================================
