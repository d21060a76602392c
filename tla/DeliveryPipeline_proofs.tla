----------------------- MODULE DeliveryPipeline_proofs -----------------------
(***************************************************************************)
(* Proofs about DeliveryPipeline, for every set of deliveries, endpoints,  *)
(* workers and schedulers, every response of the endpoints and every       *)
(* number of faults.                                                       *)
(***************************************************************************)
EXTENDS DeliveryPipeline, TLAPS

USE DEF WorkerPcs

\* The statements of delivery_store.go that change a row keep its type.
LEMMA DeliveryRows ==
  ASSUME NEW row \in DeliveryRow
  PROVE  /\ ClaimRow(row) \in DeliveryRow
         /\ MarkDelivered(row) \in DeliveryRow
         /\ MarkPermanentlyFailed(row) \in DeliveryRow
         /\ Reschedule(row) \in DeliveryRow
         /\ ResurrectRow(row) \in DeliveryRow
  <1> USE DEF DeliveryRow, Statuses, LeaseStates
  <1>0. row.attemptCount + 1 \in Nat
    OBVIOUS
  <1>1. ClaimRow(row) \in DeliveryRow
    BY DEF ClaimRow
  <1>2. MarkDelivered(row) \in DeliveryRow
    BY <1>0 DEF MarkDelivered
  <1>3. MarkPermanentlyFailed(row) \in DeliveryRow
    BY <1>0 DEF MarkPermanentlyFailed
  <1>4. Reschedule(row) \in DeliveryRow
    BY <1>0 DEF Reschedule
  <1>5. ResurrectRow(row) \in DeliveryRow
    BY DEF ResurrectRow
  <1> QED
    BY <1>1, <1>2, <1>3, <1>4, <1>5

\* The statements of circuit_store.go that change a row keep its type.
LEMMA CircuitRows ==
  ASSUME NEW row \in CircuitRow
  PROVE  /\ HandleSuccess(row) \in CircuitRow
         /\ HandleTransientFailure(row) \in CircuitRow
         /\ HandleProbePermanentFailure(row) \in CircuitRow
         /\ \A queued \in BOOLEAN : ExpireSuspension(row, queued) \in CircuitRow
         /\ \A d \in Deliveries : AssignProbe(row, d) \in CircuitRow
         /\ CloseEmpty(row) \in CircuitRow
  <1> USE DEF CircuitRow, CircuitStates
  <1>0. row.failureCount + 1 \in Nat
    OBVIOUS
  <1>1. HandleSuccess(row) \in CircuitRow
    BY DEF HandleSuccess
  <1>2. HandleTransientFailure(row) \in CircuitRow
    BY <1>0 DEF HandleTransientFailure
  <1>3. HandleProbePermanentFailure(row) \in CircuitRow
    BY DEF HandleProbePermanentFailure
  <1>4. \A queued \in BOOLEAN : ExpireSuspension(row, queued) \in CircuitRow
    BY DEF ExpireSuspension
  <1>5. \A d \in Deliveries : AssignProbe(row, d) \in CircuitRow
    BY DEF AssignProbe
  <1>6. CloseEmpty(row) \in CircuitRow
    BY DEF CloseEmpty
  <1> QED
    BY <1>1, <1>2, <1>3, <1>4, <1>5, <1>6

\* The initial state is well typed.
LEMMA InitType == Init => TypeOK
  BY TopologyAssumption, BoundAssumption
  DEF Init, TypeOK, DeliveryRow, Statuses, LeaseStates, AbsentRow, AttemptRow, CircuitRow,
      CircuitStates, InitialCircuit, WorkerCall, IdleWorker, AttemptOutcomes, SchedulerCall,
      SchedulerPcs, IdleScheduler

\* The row a worker leaves behind, of a delivery and of an endpoint.
LEMMA RowsAfter ==
  ASSUME NEW call \in WorkerCall
  PROVE  /\ \A row \in DeliveryRow : RowAfter(call, row) \in DeliveryRow
         /\ \A row \in CircuitRow : CircuitAfter(call, row) \in CircuitRow
  <1>1. ASSUME NEW row \in DeliveryRow PROVE RowAfter(call, row) \in DeliveryRow
    BY DeliveryRows DEF RowAfter
  <1>2. ASSUME NEW row \in CircuitRow PROVE CircuitAfter(call, row) \in CircuitRow
    <2>1. /\ HandleSuccess(row) \in CircuitRow
          /\ HandleTransientFailure(row) \in CircuitRow
          /\ HandleProbePermanentFailure(row) \in CircuitRow
      BY CircuitRows
    <2> QED
      BY <2>1 DEF CircuitAfter
  <1> QED
    BY <1>1, <1>2

\* The two idle calls are calls.
LEMMA IdleTypes == IdleWorker \in WorkerCall /\ IdleScheduler \in SchedulerCall
  BY DEF IdleWorker, WorkerCall, IdleScheduler, SchedulerCall, SchedulerPcs, CircuitStates,
         AttemptOutcomes

\* A fault keeps the fault counters well typed.
LEMMA FaultType ==
  ASSUME faults \in [FaultKinds -> Nat], NEW kind, Fault(kind)
  PROVE  faults' \in [FaultKinds -> Nat]
  <1>1. kind \in FaultKinds => faults[kind] + 1 \in Nat
    OBVIOUS
  <1> QED
    BY <1>1 DEF Fault

\* Every step keeps the types.
LEMMA NextType == TypeOK /\ [Next]_vars => TypeOK'
  <1> SUFFICES ASSUME TypeOK, [Next]_vars
               PROVE  TypeOK'
    OBVIOUS
  <1> USE DEF TypeOK, store, kafka, WorkerBecomes, SchedulerBecomes
  <1>1. ASSUME NEW d \in Deliveries, Submit(d)
        PROVE  TypeOK'
    <2>1. ScheduledRow \in DeliveryRow
      BY DEF ScheduledRow, DeliveryRow, Statuses, LeaseStates
    <2> QED
      BY <1>1, <2>1 DEF Submit
  <1>2. ASSUME NEW s \in Schedulers, FindOrphans(s)
        PROVE  TypeOK'
    <2> DEFINE orphans == {e \in Endpoints : IsOrphaned(circuit[e])}
               call == [IdleScheduler EXCEPT !.pc = AfterProbe(orphans, "0a"), !.todo = orphans]
    <2>1. call \in SchedulerCall
      BY DEF IdleScheduler, SchedulerCall, SchedulerPcs, AfterProbe
    <2> QED
      BY <1>2, <2>1 DEF FindOrphans
  <1>3. ASSUME NEW s \in Schedulers, SelectProbe(s)
        PROVE  TypeOK'
    <2> PICK e \in scheduler[s].todo :
          \/ SchedulerBecomes(s, [scheduler[s] EXCEPT !.pc = "close", !.endpoint = e,
                                                      !.todo = @ \ {e}])
          \/ \E d \in Oldest(NonTerminalOf(e)) :
               SchedulerBecomes(s, [scheduler[s] EXCEPT !.pc = "assign", !.endpoint = e,
                                                        !.probe = d, !.todo = @ \ {e}])
      BY <1>3 DEF SelectProbe
    <2>0. scheduler[s] \in SchedulerCall
      OBVIOUS
    <2>1. [scheduler[s] EXCEPT !.pc = "close", !.endpoint = e, !.todo = @ \ {e}] \in SchedulerCall
      BY <2>0 DEF SchedulerCall, SchedulerPcs
    <2>2. ASSUME NEW d \in Oldest(NonTerminalOf(e))
          PROVE  [scheduler[s] EXCEPT !.pc = "assign", !.endpoint = e,
                                      !.probe = d, !.todo = @ \ {e}] \in SchedulerCall
      BY <2>0, <2>2 DEF SchedulerCall, SchedulerPcs, Oldest, NonTerminalOf
    <2> QED
      BY <1>3, <2>1, <2>2 DEF SelectProbe
  <1>4. ASSUME NEW s \in Schedulers, NextEndpoint(s)
        PROVE  scheduler' \in [Schedulers -> SchedulerCall]
    <2>1. [scheduler[s] EXCEPT !.pc = AfterProbe(scheduler[s].todo, scheduler[s].step),
                               !.endpoint = NoEndpoint, !.probe = NoDelivery] \in SchedulerCall
      BY DEF SchedulerCall, SchedulerPcs, AfterProbe
    <2> QED
      BY <1>4, <2>1 DEF NextEndpoint
  <1>5. ASSUME NEW s \in Schedulers, CloseEmptyCircuit(s)
        PROVE  TypeOK'
    <2>1. circuit' \in [Endpoints -> CircuitRow]
      <3>1. \A row \in CircuitRow : CloseEmpty(row) \in CircuitRow
        BY DEF CloseEmpty, CircuitRow, CircuitStates
      <3> QED
        BY <1>5, <3>1 DEF CloseEmptyCircuit
    <2> QED
      BY <1>4, <1>5, <2>1 DEF CloseEmptyCircuit
  <1>6. ASSUME NEW s \in Schedulers, SetProbe(s)
        PROVE  TypeOK'
    <2>0. scheduler[s] \in SchedulerCall /\ scheduler[s].pc = "assign"
      BY <1>6 DEF SetProbe
    <2>1. scheduler[s].endpoint \in Endpoints /\ scheduler[s].probe \in Deliveries
      BY <2>0 DEF SchedulerCall
    <2>2. [scheduler[s] EXCEPT !.pc = "hurry"] \in SchedulerCall
      BY <2>0 DEF SchedulerCall, SchedulerPcs
    <2>3. AssignProbe(circuit[scheduler[s].endpoint], scheduler[s].probe) \in CircuitRow
      BY <2>1, CircuitRows
    <2> QED
      BY <1>6, <2>2, <2>3 DEF SetProbe
  <1>7. ASSUME NEW s \in Schedulers, HurryProbe(s)
        PROVE  TypeOK'
    <2>1. delivery' \in [Deliveries -> DeliveryRow]
      BY <1>7 DEF HurryProbe, DeliveryRow
    <2> QED
      BY <1>4, <1>7, <2>1 DEF HurryProbe
  <1>8. ASSUME NEW s \in Schedulers, ProcessExpiredSuspensions(s)
        PROVE  TypeOK'
    <2> DEFINE halfOpen == {e \in Endpoints :
                              SuspensionExpired(circuit[e]) /\ NonTerminalOf(e) # {}}
    <2>1. [scheduler[s] EXCEPT !.pc = AfterProbe(halfOpen, "0b"), !.step = "0b",
                               !.todo = halfOpen] \in SchedulerCall
      <3>1. scheduler[s] \in SchedulerCall
        OBVIOUS
      <3> QED
        BY <3>1 DEF SchedulerCall, SchedulerPcs, AfterProbe
    <2>2. ASSUME NEW e \in Endpoints
          PROVE  ExpireSuspension(circuit[e], NonTerminalOf(e) # {}) \in CircuitRow
      BY DEF ExpireSuspension, CircuitRow, CircuitStates
    <2> QED
      BY <1>8, <2>1, <2>2 DEF ProcessExpiredSuspensions
  <1>9. ASSUME NEW s \in Schedulers, ClaimReady(s)
        PROVE  TypeOK'
    <2>1. PICK batch \in SUBSET Deliveries :
            /\ delivery' = [d \in Deliveries |->
                              IF d \in batch THEN ClaimRow(delivery[d]) ELSE delivery[d]]
            /\ SchedulerBecomes(s, [IdleScheduler EXCEPT
                                      !.pc = IF batch = {} THEN "idle" ELSE "publish",
                                      !.batch = batch])
      BY <1>9, Zenon DEF ClaimReady
    <2>2. [IdleScheduler EXCEPT !.pc = IF batch = {} THEN "idle" ELSE "publish",
                                !.batch = batch] \in SchedulerCall
      BY DEF IdleScheduler, SchedulerCall, SchedulerPcs
    <2>3. \A d \in Deliveries : ClaimRow(delivery[d]) \in DeliveryRow
      BY DeliveryRows
    <2>4. delivery' \in [Deliveries -> DeliveryRow]
      BY <2>1, <2>3
    <2>5. scheduler' \in [Schedulers -> SchedulerCall]
      BY <2>1, <2>2
    <2> QED
      BY <1>9, <2>4, <2>5 DEF ClaimReady
  <1>10. ASSUME NEW s \in Schedulers, Publish(s)
         PROVE  TypeOK'
    <2>1. ASSUME NEW d \in Deliveries
          PROVE  [scheduler[s] EXCEPT !.batch = @ \ {d}] \in SchedulerCall
      <3>1. scheduler[s] \in SchedulerCall
        OBVIOUS
      <3> QED
        BY <3>1 DEF SchedulerCall
    <2>2. scheduler[s].batch \subseteq Deliveries
      BY DEF SchedulerCall
    <2>3. scheduler' \in [Schedulers -> SchedulerCall]
      BY <1>10, <2>1, <2>2, IdleTypes DEF Publish
    <2> QED
      BY <1>10, <2>2, <2>3 DEF Publish
  <1>36. ASSUME NEW s \in Schedulers, PublishUnacknowledged(s)
          PROVE  TypeOK'
    <2>0. scheduler[s].batch \subseteq Deliveries
      BY DEF SchedulerCall
    <2>1. topic' \in [Deliveries -> Nat]
      BY <1>36, <2>0 DEF PublishUnacknowledged
    <2> QED
      BY <1>36, <2>1, FaultType DEF PublishUnacknowledged
  <1>11. ASSUME NEW s \in Schedulers, AbortTick(s)
         PROVE  TypeOK'
    BY <1>11, IdleTypes, FaultType DEF AbortTick
  <1>12. ASSUME NEW s \in Schedulers, CircuitStatementFails(s)
         PROVE  TypeOK'
    <2>0. scheduler[s] \in SchedulerCall
      OBVIOUS
    <2>1. ASSUME NEW e \in scheduler[s].todo
          PROVE  [scheduler[s] EXCEPT
                    !.pc = AfterProbe(scheduler[s].todo \ {e}, scheduler[s].step),
                    !.todo = @ \ {e}] \in SchedulerCall
      BY <2>0 DEF SchedulerCall, SchedulerPcs, AfterProbe
    <2>2. /\ [IdleScheduler EXCEPT !.pc = "expire"] \in SchedulerCall
          /\ [scheduler[s] EXCEPT !.pc = "claim"] \in SchedulerCall
      BY <2>0, IdleTypes DEF SchedulerCall, SchedulerPcs
    <2>3. scheduler' \in [Schedulers -> SchedulerCall]
      BY <1>4, <1>12, <2>1, <2>2 DEF CircuitStatementFails
    <2> QED
      BY <1>12, <2>3, FaultType DEF CircuitStatementFails
  <1>13. ASSUME NEW w \in Workers, NEW d \in Deliveries, FetchMessage(w, d)
         PROVE  TypeOK'
    <2>1. [IdleWorker EXCEPT !.pc = "load", !.delivery = d, !.current = TRUE] \in WorkerCall
      BY DEF IdleWorker, WorkerCall, CircuitStates, AttemptOutcomes
    <2>2. topic' \in [Deliveries -> Nat] /\ uncommitted' \in [Deliveries -> Nat]
      BY <1>13, BoundAssumption DEF FetchMessage, Saturate
    <2> QED
      BY <1>13, <2>1, <2>2 DEF FetchMessage
  <1>14. ASSUME NEW w \in Workers, NEW pc \in WorkerPcs, worker[w].pc # "idle"
         PROVE  [worker[w] EXCEPT !.pc = pc] \in WorkerCall
    <2>1. worker[w] \in WorkerCall
      OBVIOUS
    <2> QED
      BY <1>14, <2>1 DEF WorkerCall
  <1>15. ASSUME NEW w \in Workers, LoadForWorker(w)
         PROVE  TypeOK'
    <2> DEFINE d == worker[w].delivery
    <2>0. worker[w] \in WorkerCall /\ worker[w].pc = "load"
      BY <1>15 DEF LoadForWorker
    <2>1. d \in Deliveries
      BY <2>0 DEF WorkerCall
    <2>2. delivery[d].attemptCount + 1 \in Nat
      BY <2>1 DEF DeliveryRow
    <2>3. circuit[EndpointOf[d]].state \in CircuitStates
      BY <2>1, TopologyAssumption DEF CircuitRow
    <2>4. [worker[w] EXCEPT !.pc = "insert", !.seq = delivery[d].attemptCount + 1,
                            !.circuit = circuit[EndpointOf[d]].state] \in WorkerCall
      BY <2>0, <2>1, <2>2, <2>3 DEF WorkerCall
    <2> QED
      BY <1>15, <2>4 DEF LoadForWorker
  <1>16. ASSUME NEW w \in Workers, InsertStarted(w)
         PROVE  TypeOK'
    <2>1. attempts' \in [Deliveries -> [AttemptNumbers -> AttemptRow]]
      BY <1>16 DEF InsertStarted, AttemptRow
    <2> QED
      BY <1>14, <1>16, <2>1 DEF InsertStarted
  <1>17. ASSUME NEW w \in Workers, InsertConflict(w)
         PROVE  TypeOK'
    BY <1>17, IdleTypes DEF InsertConflict, Abandon
  <1>18. ASSUME NEW w \in Workers, DoHTTP(w)
         PROVE  TypeOK'
    <2>0. worker[w] \in WorkerCall /\ worker[w].pc = "post"
      BY <1>18 DEF DoHTTP
    <2>1. ASSUME NEW r \in Responses
          PROVE  [worker[w] EXCEPT !.pc = "record", !.outcome = Classify(r)] \in WorkerCall
      BY <2>0 DEF WorkerCall, Classify, AttemptOutcomes
    <2> QED
      BY <1>18, <2>1 DEF DoHTTP
  <1>19. ASSUME NEW w \in Workers, UpdateOutcome(w)
         PROVE  TypeOK'
    <2>0. worker[w].outcome \in AttemptRow
      BY DEF WorkerCall, AttemptRow
    <2>1. attempts' \in [Deliveries -> [AttemptNumbers -> AttemptRow]]
      BY <1>19, <2>0 DEF UpdateOutcome
    <2> QED
      BY <1>14, <1>19, <2>1 DEF UpdateOutcome, AfterRecord
  <1>20. ASSUME NEW w \in Workers, UpdateCircuit(w)
         PROVE  TypeOK'
    <2>1. circuit' \in [Endpoints -> CircuitRow]
      <3>1. \A row \in CircuitRow : CircuitAfter(worker[w], row) \in CircuitRow
        BY RowsAfter
      <3> QED
        BY <1>20, <3>1 DEF UpdateCircuit
    <2> QED
      BY <1>14, <1>20, <2>1 DEF UpdateCircuit
  <1>21. ASSUME NEW w \in Workers, TransitionDelivery(w)
         PROVE  TypeOK'
    <2> DEFINE d == worker[w].delivery
    <2>0. worker[w] \in WorkerCall /\ worker[w].pc = "mark"
      BY <1>21 DEF TransitionDelivery
    <2>1. d \in Deliveries
      BY <2>0 DEF WorkerCall
    <2>2. RowAfter(worker[w], delivery[d]) \in DeliveryRow
      BY <2>0, <2>1, RowsAfter
    <2> QED
      BY <1>14, <1>21, <2>1, <2>2 DEF TransitionDelivery
  <1>22. ASSUME NEW w \in Workers, Commit(w)
         PROVE  TypeOK'
    <2>1. committedOnce' \subseteq Partitions
      <3>0. worker[w] \in WorkerCall /\ worker[w].pc = "commit"
        BY <1>22 DEF Commit
      <3>1. worker[w].delivery \in Deliveries
        BY <3>0 DEF WorkerCall
      <3> QED
        BY <1>22, <3>1, TopologyAssumption DEF Commit, Partition
    <2>2. uncommitted' \in [Deliveries -> Nat]
      BY <1>22 DEF Commit
    <2> QED
      BY <1>22, <2>1, <2>2, IdleTypes DEF Commit
  <1>23. ASSUME NEW w \in Workers, StatementFails(w)
         PROVE  TypeOK'
    <2>1. worker' \in [Workers -> WorkerCall]
      BY <1>14, <1>23, IdleTypes DEF StatementFails, AfterRecord
    <2>2. faults' \in [FaultKinds -> Nat]
      BY <1>23, FaultType DEF StatementFails
    <2> QED
      BY <1>23, <2>1, <2>2 DEF StatementFails
  <1>24. ASSUME NEW p, Rewind(p)
         PROVE  /\ topic' \in [Deliveries -> Nat]
                /\ uncommitted' \in [Deliveries -> Nat]
                /\ committedOnce' \subseteq Partitions
    BY <1>24, BoundAssumption DEF Rewind, Saturate
  <1>25. ASSUME NEW w \in Workers, Crash(w)
         PROVE  TypeOK'
    BY <1>24, <1>25, IdleTypes, FaultType DEF Crash, Abandon
  <1>26. ASSUME NEW p \in Partitions, Rebalance(p)
         PROVE  TypeOK'
    <2>1. ASSUME NEW w \in Workers
          PROVE  [worker[w] EXCEPT !.current = FALSE] \in WorkerCall
      <3>1. worker[w] \in WorkerCall
        OBVIOUS
      <3> QED
        BY <3>1 DEF WorkerCall
    <2>2. worker' \in [Workers -> WorkerCall]
      BY <1>26, <2>1 DEF Rebalance
    <2>3. faults' \in [FaultKinds -> Nat]
      BY <1>26, FaultType DEF Rebalance
    <2> QED
      BY <1>24, <1>26, <2>2, <2>3 DEF Rebalance
  <1>27. ASSUME ResurrectExpiredLeases
         PROVE  TypeOK'
    BY <1>27, DeliveryRows DEF ResurrectExpiredLeases
  <1>28. ASSUME NEW d \in Deliveries, ExpireLease(d)
         PROVE  delivery' \in [Deliveries -> DeliveryRow]
    BY <1>28 DEF ExpireLease, DeliveryRow, LeaseStates
  <1>29. ASSUME NEW d \in Deliveries, LeaseExpires(d)
         PROVE  TypeOK'
    BY <1>28, <1>29 DEF LeaseExpires, ExpireLease
  <1>30. ASSUME NEW d \in Deliveries, LeaseExpiresEarly(d)
         PROVE  TypeOK'
    BY <1>28, <1>30, FaultType DEF LeaseExpiresEarly, ExpireLease
  <1>31. ASSUME NEW d \in Deliveries, BackoffElapses(d)
         PROVE  TypeOK'
    <2>1. delivery' \in [Deliveries -> DeliveryRow]
      BY <1>31 DEF BackoffElapses, DeliveryRow
    <2> QED
      BY <1>31, <2>1 DEF BackoffElapses
  <1>32. ASSUME NEW e \in Endpoints, ElapseSuspension(e)
         PROVE  circuit' \in [Endpoints -> CircuitRow]
    BY <1>32 DEF ElapseSuspension, CircuitRow
  <1>33. ASSUME NEW e \in Endpoints, SuspensionElapses(e)
         PROVE  TypeOK'
    BY <1>32, <1>33 DEF SuspensionElapses, ElapseSuspension
  <1>34. ASSUME NEW e \in Endpoints, SuspensionElapsesEarly(e)
         PROVE  TypeOK'
    BY <1>32, <1>34, FaultType DEF SuspensionElapsesEarly, ElapseSuspension
  <1>35. CASE UNCHANGED vars
    BY <1>35 DEF vars
  <1> QED
    BY <1>1, <1>2, <1>3, <1>5, <1>6, <1>7, <1>8, <1>9, <1>10, <1>11, <1>36, <1>12, <1>13, <1>15,
       <1>16, <1>17, <1>18, <1>19, <1>20, <1>21, <1>22, <1>23, <1>25, <1>26, <1>27, <1>29,
       <1>30, <1>31, <1>33, <1>34, <1>35
    DEF Next, SchedulerNext, ProcessNext, FaultNext, TimeNext

\* Every reachable state is well typed, whatever the faults.
THEOREM TypeCorrect == Spec => []TypeOK
  <1>1. Init => TypeOK
    BY InitType
  <1>2. TypeOK /\ [Next]_vars => TypeOK'
    BY NextType
  <1> QED
    BY <1>1, <1>2, PTL DEF Spec

=============================================================================
