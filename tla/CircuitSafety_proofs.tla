------------------------ MODULE CircuitSafety_proofs -------------------------
(***************************************************************************)
(* The columns of a circuit agree in every reachable state, for any        *)
(* threshold and any interleaving. Each statement of circuit_store.go      *)
(* keeps the agreement of one row; SetProbeDelivery spreads over two       *)
(* statements, so the inductive invariant also says which endpoint the     *)
(* probe a scheduler has in hand was selected for.                         *)
(*                                                                         *)
(* And a POST respects the circuit, although only ClaimReady looks at it,  *)
(* as long as one scheduler runs, no message comes back and created_at     *)
(* orders the deliveries of an endpoint: the order of the tenant then      *)
(* leaves one delivery per endpoint on its way (AdmittedInv).              *)
(***************************************************************************)
EXTENDS AttemptSafety_proofs

\* CircuitConsistent for one row, of endpoint e.
RowConsistent(row, e) ==
  /\ row.suspendedUntil # "none" <=> row.state = "open"
  /\ row.probe # NoDelivery => row.state = "half_open" /\ EndpointOf[row.probe] = e
  /\ row.sensitiveRecovery => row.state = "closed"
  /\ row.state = "closed" => row.failureCount < Threshold

\* CircuitConsistent, row by row.
LEMMA ConsistentRows ==
  CircuitConsistent <=> \A e \in Endpoints : RowConsistent(circuit[e], e)
  BY DEF CircuitConsistent, RowConsistent

\* Every statement of circuit_store.go keeps the columns of its row in agreement.
LEMMA StatementsKeepConsistency ==
  ASSUME NEW e \in Endpoints, NEW row \in CircuitRow, RowConsistent(row, e)
  PROVE  /\ RowConsistent(HandleSuccess(row), e)
         /\ RowConsistent(HandleTransientFailure(row), e)
         /\ RowConsistent(HandleProbePermanentFailure(row), e)
         /\ \A queued \in BOOLEAN : RowConsistent(ExpireSuspension(row, queued), e)
         /\ RowConsistent(CloseEmpty(row), e)
         /\ \A d \in Deliveries : EndpointOf[d] = e => RowConsistent(AssignProbe(row, d), e)
         /\ row.suspendedUntil = "running" =>
              RowConsistent([row EXCEPT !.suspendedUntil = "elapsed"], e)
  <1> USE ThresholdAssumption DEF CircuitRow, CircuitStates, RowConsistent
  <1>1. RowConsistent(HandleSuccess(row), e)
    BY DEF HandleSuccess
  <1>2. RowConsistent(HandleTransientFailure(row), e)
    BY DEF HandleTransientFailure, Trips
  <1>3. RowConsistent(HandleProbePermanentFailure(row), e)
    BY DEF HandleProbePermanentFailure
  <1>4. \A queued \in BOOLEAN : RowConsistent(ExpireSuspension(row, queued), e)
    BY DEF ExpireSuspension, SuspensionExpired
  <1>5. RowConsistent(CloseEmpty(row), e)
    BY DEF CloseEmpty
  <1>6. ASSUME NEW d \in Deliveries, EndpointOf[d] = e
        PROVE  RowConsistent(AssignProbe(row, d), e)
    BY <1>6 DEF AssignProbe
  <1>7. row.suspendedUntil = "running" =>
          RowConsistent([row EXCEPT !.suspendedUntil = "elapsed"], e)
    OBVIOUS
  <1> QED
    BY <1>1, <1>2, <1>3, <1>4, <1>5, <1>6, <1>7

\* A step that changes at most the row of endpoint e.
LEMMA OneRow ==
  ASSUME TypeOK, CircuitConsistent, NEW e \in Endpoints, NEW row,
         circuit' = [circuit EXCEPT ![e] = row], RowConsistent(row, e)
  PROVE  CircuitConsistent'
  <1>1. \A f \in Endpoints : RowConsistent(circuit'[f], f)
    BY ConsistentRows DEF TypeOK
  <1> QED
    BY <1>1 DEF CircuitConsistent, RowConsistent

\* The column defaults of migration 006 are consistent.
LEMMA InitCircuit ==
  ASSUME Init
  PROVE  CircuitConsistent /\ ProbeSelected
  BY ThresholdAssumption
  DEF Init, CircuitConsistent, ProbeSelected, InitialCircuit, IdleScheduler

\* SelectProbe picks the oldest unfinished delivery of an endpoint, or finds none.
LEMMA SelectProbeMoves ==
  ASSUME TypeOK, NEW s \in Schedulers, SelectProbe(s)
  PROVE  /\ \A r \in Schedulers : r # s => scheduler'[r] = scheduler[r]
         /\ scheduler'[s].pc = "assign" =>
              /\ scheduler'[s].endpoint \in Endpoints
              /\ scheduler'[s].probe \in Oldest(NonTerminalOf(scheduler'[s].endpoint))
  <1>1. scheduler[s] \in SchedulerCall
    BY DEF TypeOK
  <1>2. PICK e \in scheduler[s].todo :
          \/ SchedulerBecomes(s, [scheduler[s] EXCEPT !.pc = "close", !.endpoint = e,
                                                      !.todo = @ \ {e}])
          \/ \E d \in Oldest(NonTerminalOf(e)) :
               SchedulerBecomes(s, [scheduler[s] EXCEPT !.pc = "assign", !.endpoint = e,
                                                        !.probe = d, !.todo = @ \ {e}])
    BY Zenon DEF SelectProbe
  <1>3. e \in Endpoints
    BY <1>1 DEF SchedulerCall
  <1>4. CASE SchedulerBecomes(s, [scheduler[s] EXCEPT !.pc = "close", !.endpoint = e,
                                                      !.todo = @ \ {e}])
    BY <1>1, <1>4 DEF SchedulerBecomes, TypeOK, SchedulerCall
  <1>5. ASSUME NEW d \in Oldest(NonTerminalOf(e)),
               SchedulerBecomes(s, [scheduler[s] EXCEPT !.pc = "assign", !.endpoint = e,
                                                        !.probe = d, !.todo = @ \ {e}])
        PROVE  /\ \A r \in Schedulers : r # s => scheduler'[r] = scheduler[r]
               /\ scheduler'[s].endpoint = e /\ scheduler'[s].probe = d
    BY <1>1, <1>5 DEF SchedulerBecomes, TypeOK, SchedulerCall
  <1> QED
    BY <1>2, <1>3, <1>4, <1>5

\* No other step of a tick has a probe to assign afterwards.
LEMMA TickLeavesAssign ==
  ASSUME TypeOK, NEW s \in Schedulers,
         SchedulerNext(s) \/ AbortTick(s) \/ CircuitStatementFails(s), ~SelectProbe(s)
  PROVE  /\ \A r \in Schedulers : r # s => scheduler'[r] = scheduler[r]
         /\ scheduler'[s].pc # "assign"
  <1> DEFINE Left == /\ \A r \in Schedulers : r # s => scheduler'[r] = scheduler[r]
                     /\ scheduler'[s].pc # "assign"
  <1>0. scheduler[s] \in SchedulerCall
    BY DEF TypeOK
  <1>1. ASSUME NEW todo, NEW step
        PROVE  AfterProbe(todo, step) # "assign"
    BY DEF AfterProbe
  <1>2. ASSUME NEW call, SchedulerBecomes(s, call), call.pc # "assign"
        PROVE  Left
    BY <1>2 DEF SchedulerBecomes, TypeOK
  <1>3. ASSUME NextEndpoint(s)
        PROVE  Left
    <2>1. [scheduler[s] EXCEPT !.pc = AfterProbe(scheduler[s].todo, scheduler[s].step),
                               !.endpoint = NoEndpoint, !.probe = NoDelivery].pc # "assign"
      BY <1>0, <1>1 DEF SchedulerCall
    <2> QED
      BY <1>2, <1>3, <2>1 DEF NextEndpoint
  <1>4. CASE CloseEmptyCircuit(s) \/ HurryProbe(s)
    BY <1>3, <1>4 DEF CloseEmptyCircuit, HurryProbe
  <1>5. CASE FindOrphans(s) \/ AbortTick(s)
    BY <1>1, <1>2, <1>5 DEF FindOrphans, AbortTick, IdleScheduler
  <1>6. CASE SetProbe(s)
    BY <1>0, <1>2, <1>6 DEF SetProbe, SchedulerCall
  <1>7. CASE ProcessExpiredSuspensions(s)
    BY <1>0, <1>1, <1>2, <1>7 DEF ProcessExpiredSuspensions, SchedulerCall
  <1>8. CASE ClaimReady(s)
    <2>1. PICK batch : SchedulerBecomes(s, [IdleScheduler EXCEPT
                                 !.pc = IF batch = {} THEN "idle" ELSE "publish",
                                 !.batch = batch])
      BY <1>8, Zenon DEF ClaimReady
    <2> QED
      BY <1>2, <2>1 DEF IdleScheduler
  <1>9. CASE Publish(s)
    BY <1>0, <1>2, <1>9 DEF Publish, SchedulerCall, IdleScheduler
  <1>10. CASE CircuitStatementFails(s)
    BY <1>0, <1>1, <1>2, <1>3, <1>10 DEF CircuitStatementFails, SchedulerCall, IdleScheduler
  <1> QED
    BY <1>4, <1>5, <1>6, <1>7, <1>8, <1>9, <1>10 DEF SchedulerNext

\* Through every step of a tick, a selected probe belongs to the endpoint it was selected for.
LEMMA SchedulerKeepsSelection ==
  ASSUME TypeOK, ProbeSelected, NEW s \in Schedulers,
         SchedulerNext(s) \/ AbortTick(s) \/ CircuitStatementFails(s)
  PROVE  ProbeSelected'
  <1>1. CASE SelectProbe(s)
    BY <1>1, SelectProbeMoves DEF ProbeSelected, Oldest, NonTerminalOf
  <1>2. CASE ~SelectProbe(s)
    BY <1>2, TickLeavesAssign DEF ProbeSelected
  <1> QED
    BY <1>1, <1>2

\* Every step preserves the invariant.
LEMMA NextCircuit ==
  ASSUME TypeOK, CircuitConsistent, ProbeSelected, [Next]_vars
  PROVE  CircuitConsistent' /\ ProbeSelected'
  <1> DEFINE Still == circuit' = circuit /\ scheduler' = scheduler
  <1>0. \A e \in Endpoints : circuit[e] \in CircuitRow /\ RowConsistent(circuit[e], e)
    BY ConsistentRows DEF TypeOK
  <1>1. Still => CircuitConsistent' /\ ProbeSelected'
    BY DEF CircuitConsistent, ProbeSelected
  <1>2. circuit' = circuit => CircuitConsistent'
    BY DEF CircuitConsistent
  <1>3. ASSUME NEW s \in Schedulers, CloseEmptyCircuit(s)
        PROVE  CircuitConsistent'
    <2>1. scheduler[s] \in SchedulerCall /\ scheduler[s].pc = "close"
      BY <1>3 DEF CloseEmptyCircuit, TypeOK
    <2>2. scheduler[s].endpoint \in Endpoints
      BY <2>1 DEF SchedulerCall
    <2> QED
      BY <1>0, <1>3, <2>2, OneRow, StatementsKeepConsistency DEF CloseEmptyCircuit
  <1>4. ASSUME NEW s \in Schedulers, SetProbe(s)
        PROVE  CircuitConsistent'
    <2>1. scheduler[s] \in SchedulerCall /\ scheduler[s].pc = "assign"
      BY <1>4 DEF SetProbe, TypeOK
    <2>2. scheduler[s].endpoint \in Endpoints /\ scheduler[s].probe \in Deliveries
      BY <2>1 DEF SchedulerCall
    <2>3. EndpointOf[scheduler[s].probe] = scheduler[s].endpoint
      BY <2>1 DEF ProbeSelected
    <2> QED
      BY <1>0, <1>4, <2>2, <2>3, OneRow, StatementsKeepConsistency DEF SetProbe
  <1>5. ASSUME NEW s \in Schedulers, ProcessExpiredSuspensions(s)
        PROVE  CircuitConsistent'
    <2>1. circuit' = [e \in Endpoints |-> ExpireSuspension(circuit[e], NonTerminalOf(e) # {})]
      BY <1>5 DEF ProcessExpiredSuspensions
    <2>2. \A e \in Endpoints : RowConsistent(circuit'[e], e)
      BY <1>0, <2>1, StatementsKeepConsistency
    <2> QED
      BY <2>2 DEF CircuitConsistent, RowConsistent
  <1>6. ASSUME NEW s \in Schedulers, SchedulerNext(s) \/ AbortTick(s) \/ CircuitStatementFails(s)
        PROVE  CircuitConsistent' /\ ProbeSelected'
    <2>1. \/ CloseEmptyCircuit(s) \/ SetProbe(s) \/ ProcessExpiredSuspensions(s)
          \/ circuit' = circuit
      BY <1>6 DEF SchedulerNext, FindOrphans, SelectProbe, HurryProbe, ClaimReady, Publish,
                  AbortTick, CircuitStatementFails, store
    <2> QED
      BY <1>2, <1>3, <1>4, <1>5, <1>6, <2>1, SchedulerKeepsSelection
  <1>7. ASSUME NEW w \in Workers, UpdateCircuit(w)
        PROVE  CircuitConsistent' /\ ProbeSelected'
    <2> DEFINE e == EndpointOf[worker[w].delivery]
    <2>1. worker[w] \in WorkerCall /\ worker[w].pc = "circuit"
      BY <1>7 DEF UpdateCircuit, TypeOK
    <2>2. e \in Endpoints
      BY <2>1, TopologyAssumption DEF WorkerCall
    <2>3. RowConsistent(CircuitAfter(worker[w], circuit[e]), e)
      BY <1>0, <2>2, StatementsKeepConsistency DEF CircuitAfter
    <2>4. CircuitConsistent'
      BY <1>7, <2>2, <2>3, OneRow DEF UpdateCircuit
    <2> QED
      BY <1>7, <2>4 DEF UpdateCircuit, ProbeSelected
  <1>8. ASSUME NEW w \in Workers, ProcessNext(w), ~UpdateCircuit(w)
        PROVE  Still
    BY <1>8 DEF ProcessNext, LoadForWorker, InsertStarted, InsertConflict, DoHTTP,
                UpdateOutcome, TransitionDelivery, Commit, store
  <1>9. ASSUME NEW e \in Endpoints, ElapseSuspension(e)
        PROVE  CircuitConsistent' /\ ProbeSelected'
    <2>1. circuit' = [circuit EXCEPT ![e] = [circuit[e] EXCEPT !.suspendedUntil = "elapsed"]]
      BY <1>9 DEF ElapseSuspension
    <2>2. RowConsistent([circuit[e] EXCEPT !.suspendedUntil = "elapsed"], e)
      BY <1>0, <1>9, StatementsKeepConsistency DEF ElapseSuspension
    <2>3. CircuitConsistent'
      BY <2>1, <2>2, OneRow
    <2> QED
      BY <1>9, <2>3 DEF ElapseSuspension, ProbeSelected
  <1>10. ASSUME \/ \E d \in Deliveries : \/ Submit(d) \/ ExpireLease(d) \/ BackoffElapses(d)
                                      \/ \E w \in Workers : FetchMessage(w, d)
                \/ \E s \in Schedulers : PublishUnacknowledged(s)
                \/ \E w \in Workers : StatementFails(w) \/ Crash(w)
                \/ \E p \in Partitions : Rebalance(p)
                \/ ResurrectExpiredLeases
                \/ UNCHANGED vars
         PROVE  Still
    BY <1>10 DEF Submit, ExpireLease, BackoffElapses, FetchMessage,
                 PublishUnacknowledged, StatementFails, Crash, Rebalance,
                 ResurrectExpiredLeases, store, vars
  <1> QED
    BY <1>1, <1>6, <1>7, <1>8, <1>9, <1>10
    DEF Next, FaultNext, TimeNext, LeaseExpires, LeaseExpiresEarly, SuspensionElapses,
        SuspensionElapsesEarly

\* For every threshold and every interleaving of worker updates, probe selection,
\* failing statements and clocks, the circuit_* columns of an endpoint agree: a
\* suspension means open, a probe means half_open and belongs to the endpoint, and a
\* closed circuit is below the threshold (circuit_store.go:29-179).
THEOREM CircuitColumnsAgree == Spec => []CircuitConsistent
  <1>1. Init => CircuitConsistent /\ ProbeSelected
    BY InitCircuit
  <1>2. TypeOK /\ CircuitConsistent /\ ProbeSelected /\ [Next]_vars
        => CircuitConsistent' /\ ProbeSelected'
    BY NextCircuit
  <1> QED
    BY <1>1, <1>2, TypeCorrect, PTL DEF Spec

-----------------------------------------------------------------------------
(* No POST past the circuit                                                *)

\* One process runs the tick (webhookd scheduler). With two, a probe one of them has
\* selected and not assigned yet may be stale by several suspensions.
OneScheduler == \A r, s \in Schedulers : r = s

\* No two deliveries of an endpoint have the same created_at, so one is Earlier.
DistinctTimes ==
  \A d, e \in Deliveries : EndpointOf[d] = EndpointOf[e] /\ CreatedAt[d] = CreatedAt[e] => d = e

\* d was claimed and its attempt is not POSTed yet.
Unposted(d) ==
  \/ \E s \in Schedulers : d \in scheduler[s].batch
  \/ topic[d] > 0
  \/ \E w \in Workers : worker[w].pc \in {"load", "insert", "post"} /\ worker[w].delivery = d

\* The circuit still admits what ClaimReady admitted, and a probe about to be assigned is
\* what is on its way to the endpoint, if anything is.
Admitted ==
  /\ \A d \in Deliveries : Unposted(d) => AdmitsDelivery(circuit[EndpointOf[d]], d)
  /\ \A s \in Schedulers, d \in Deliveries :
       /\ scheduler[s].pc = "assign" /\ Unposted(d)
       /\ EndpointOf[d] = scheduler[s].endpoint
       => d = scheduler[s].probe

AdmittedInv == MessagesOnce => Admitted

\* What is unposted is held by somebody.
LEMMA UnpostedHeld ==
  ASSUME NEW d \in Deliveries, Unposted(d)
  PROVE  Held(d)
  BY DEF Unposted, Held, Handles, Handling, Numbered, Attempting

\* A held delivery is the oldest unfinished one of its endpoint.
LEMMA HeldIsOldest ==
  ASSUME OrderInv, SingleHand, NEW d \in Deliveries, NEW e \in Deliveries, Held(d),
         IsNonTerminal(delivery[e]), EndpointOf[d] = EndpointOf[e]
  PROVE  CreatedAt[d] <= CreatedAt[e]
  <1>1. delivery[d].status = "in_flight"
    BY DEF SingleHand, HandOf
  <1>2. Released(d)
    BY <1>1 DEF OrderInv, OnlyReleasedInPipeline, InPipeline
  <1>3. e \notin everTerminal
    BY DEF SingleHand, HandOf, IsTerminal, IsNonTerminal, TerminalStatuses
  <1>4. ~Earlier(e, d)
    BY <1>2, <1>3 DEF Released
  <1>5. CreatedAt[d] \in Nat /\ CreatedAt[e] \in Nat
    BY TopologyAssumption
  <1> QED
    BY <1>4, <1>5 DEF Earlier, Tenant

\* So an endpoint has one held delivery at most.
LEMMA OneHeldPerEndpoint ==
  ASSUME DistinctTimes, OrderInv, SingleHand, NEW d \in Deliveries, NEW e \in Deliveries,
         Held(d), Held(e), EndpointOf[d] = EndpointOf[e]
  PROVE  d = e
  <1>1. IsNonTerminal(delivery[d]) /\ IsNonTerminal(delivery[e])
    BY DEF SingleHand, HandOf, IsNonTerminal
  <1>2. CreatedAt[d] <= CreatedAt[e] /\ CreatedAt[e] <= CreatedAt[d]
    BY <1>1, HeldIsOldest
  <1>3. CreatedAt[d] \in Nat /\ CreatedAt[e] \in Nat
    BY TopologyAssumption
  <1> QED
    BY <1>2, <1>3 DEF DistinctTimes

\* Only ClaimReady brings a delivery on its way to a POST.
LEMMA UnpostedSteps ==
  ASSUME TypeOK, [Next]_vars, SingleHand, MessagesOnce', \A s \in Schedulers : ~ClaimReady(s),
         NEW d \in Deliveries, Unposted(d)'
  PROVE  Unposted(d)
  <1>1. CASE HandFrame /\ \A w \in Workers :
               /\ worker'[w].pc \in {"load", "insert", "post"}
               => /\ worker[w].pc \in {"load", "insert", "post"}
                  /\ worker'[w].delivery = worker[w].delivery
    BY <1>1 DEF HandFrame, Unposted
  <1>2. CASE StoreStep
    <2>1. worker' = worker
      BY <1>2 DEF StoreStep, SchedulerNext, Submit, FindOrphans, SelectProbe, CloseEmptyCircuit,
           SetProbe, HurryProbe, ProcessExpiredSuspensions, ClaimReady, Publish,
           PublishUnacknowledged, AbortTick, CircuitStatementFails, ResurrectExpiredLeases,
           LeaseExpires, LeaseExpiresEarly, ExpireLease, BackoffElapses, SuspensionElapses,
           SuspensionElapsesEarly, ElapseSuspension
    <2>2. ASSUME NEW s \in Schedulers, Publish(s)
          PROVE  Unposted(d)
      <3>1. PICK e \in scheduler[s].batch :
              /\ topic' = [topic EXCEPT ![e] = @ + 1]
              /\ SchedulerBecomes(s, IF scheduler[s].batch = {e}
                                        THEN IdleScheduler
                                        ELSE [scheduler[s] EXCEPT !.batch = @ \ {e}])
        BY <2>2, Zenon DEF Publish
      <3>2. scheduler[s] \in SchedulerCall
        BY DEF TypeOK
      <3>3. \A r \in Schedulers : scheduler'[r].batch \subseteq scheduler[r].batch
        BY <3>1, <3>2 DEF SchedulerBecomes, TypeOK, IdleScheduler, SchedulerCall
      <3>4. d # e => topic'[d] = topic[d]
        BY <3>1 DEF TypeOK
      <3> QED
        BY <2>1, <3>3, <3>4 DEF Unposted
    <2>3. CASE \A s \in Schedulers : ~Publish(s)
      <3>1. HandFrame
        BY <1>2, <2>3, StoreHandFrame
      <3> QED
        BY <1>1, <2>1, <3>1
    <2> QED
      BY <2>2, <2>3
  <1>3. ASSUME NEW w \in Workers, ProcessNext(w) \/ StatementFails(w) \/ Crash(w)
        PROVE  Unposted(d)
    <2>1. ~Crash(w)
      BY DEF Crash, Fault, MessagesOnce, TypeOK, FaultKinds, StatementFaults
    <2>2. WorkerMoves(w) /\ scheduler' = scheduler
      BY <1>3, WorkerStepMoves
    <2>3. topic' = topic
      BY <1>3, <2>1 DEF ProcessNext, LoadForWorker, InsertStarted, InsertConflict, DoHTTP,
           UpdateOutcome, UpdateCircuit, TransitionDelivery, Commit, StatementFails, kafka
    <2> QED
      BY <2>2, <2>3 DEF Unposted, WorkerMoves
  <1>4. ASSUME NEW w \in Workers, NEW e \in Deliveries, FetchMessage(w, e)
        PROVE  Unposted(d)
    <2>1. topic[e] > 0 /\ (d # e => topic'[d] = topic[d])
      BY <1>4 DEF FetchMessage, TypeOK
    <2> QED
      BY <1>4, <2>1, GroupMoves DEF Unposted
  <1>5. ASSUME NEW p \in Partitions
        PROVE  ~Rebalance(p)
    BY DEF Rebalance, Fault, MessagesOnce, TypeOK, FaultKinds, StatementFaults
  <1>6. CASE UNCHANGED vars
    BY <1>6 DEF Unposted, vars
  <1> QED
    BY <1>2, <1>3, <1>4, <1>5, <1>6, StepKinds

\* The steps that write circuits take no admission away from what is on its way.
LEMMA CircuitStepsAdmit ==
  ASSUME DistinctTimes, TypeOK, OrderInv, SingleHand, Admitted, [Next]_vars,
         NEW d \in Deliveries, Unposted(d)
  PROVE  AdmitsDelivery(circuit'[EndpointOf[d]], d)
  <1> DEFINE e == EndpointOf[d]
  <1>0. e \in Endpoints /\ circuit[e] \in CircuitRow /\ AdmitsDelivery(circuit[e], d)
    BY TopologyAssumption DEF TypeOK, Admitted
  <1>1. ASSUME NEW s \in Schedulers, CloseEmptyCircuit(s)
        PROVE  AdmitsDelivery(circuit'[e], d)
    <2>1. circuit'[e] \in {circuit[e], CloseEmpty(circuit[e])}
      BY <1>0, <1>1 DEF CloseEmptyCircuit, TypeOK
    <2> QED
      BY <1>0, <2>1 DEF CloseEmpty, AdmitsDelivery, CircuitRow
  <1>2. ASSUME NEW s \in Schedulers, SetProbe(s)
        PROVE  AdmitsDelivery(circuit'[e], d)
    <2>1. CASE scheduler[s].endpoint = e
      <3>1. scheduler[s].probe = d
        BY <1>2, <2>1 DEF SetProbe, Admitted
      <3>2. circuit'[e] = AssignProbe(circuit[e], d)
        BY <1>0, <1>2, <2>1, <3>1 DEF SetProbe, TypeOK
      <3> QED
        BY <1>0, <3>2 DEF AssignProbe, AdmitsDelivery, CircuitRow
    <2>2. CASE scheduler[s].endpoint # e
      <3>1. circuit'[e] = circuit[e]
        BY <1>0, <1>2, <2>2 DEF SetProbe, TypeOK
      <3> QED
        BY <1>0, <3>1
    <2> QED
      BY <2>1, <2>2
  <1>3. ASSUME NEW s \in Schedulers, ProcessExpiredSuspensions(s)
        PROVE  AdmitsDelivery(circuit'[e], d)
    <2>1. circuit'[e] = ExpireSuspension(circuit[e], NonTerminalOf(e) # {})
      BY <1>0, <1>3 DEF ProcessExpiredSuspensions
    <2>2. circuit'[e] = circuit[e]
      BY <1>0, <2>1 DEF ExpireSuspension, SuspensionExpired, AdmitsDelivery
    <2> QED
      BY <1>0, <2>2
  <1>4. ASSUME NEW w \in Workers, UpdateCircuit(w)
        PROVE  AdmitsDelivery(circuit'[e], d)
    <2> DEFINE f == worker[w].delivery
    <2>1. f \in Deliveries /\ worker[w].pc = "circuit"
      BY <1>4, WorkerDelivery DEF UpdateCircuit
    <2>2. Handles(w, f) /\ Held(f)
      BY <2>1 DEF Handles, Held, Handling, Numbered, Attempting
    <2>3. f # d
      <3> SUFFICES ASSUME f = d
                   PROVE  FALSE
        OBVIOUS
      <3>1. \E v \in Workers : worker[v].pc \in {"load", "insert", "post"} /\ worker[v].delivery = d
        BY <2>2 DEF Unposted, SingleHand, HandOf
      <3>2. PICK v \in Workers : worker[v].pc \in {"load", "insert", "post"} /\ Handles(v, d)
        BY <3>1 DEF Handles, Handling, Numbered, Attempting
      <3>3. v = w
        BY <2>2, <3>2 DEF SingleHand, HandOf
      <3> QED
        BY <2>1, <3>2, <3>3
    <2>4. EndpointOf[f] # e
      BY <2>1, <2>2, <2>3, UnpostedHeld, OneHeldPerEndpoint
    <2>5. circuit'[e] = circuit[e]
      BY <1>0, <1>4, <2>4 DEF UpdateCircuit, TypeOK
    <2> QED
      BY <1>0, <2>5
  <1>5. ASSUME NEW f \in Endpoints, ElapseSuspension(f)
        PROVE  AdmitsDelivery(circuit'[e], d)
    <2>1. circuit'[e] \in {circuit[e], [circuit[e] EXCEPT !.suspendedUntil = "elapsed"]}
      BY <1>0, <1>5 DEF ElapseSuspension, TypeOK
    <2> QED
      BY <1>0, <2>1 DEF AdmitsDelivery, CircuitRow
  <1>6. \/ circuit' = circuit
        \/ \E s \in Schedulers : CloseEmptyCircuit(s) \/ SetProbe(s) \/ ProcessExpiredSuspensions(s)
        \/ \E w \in Workers : UpdateCircuit(w)
        \/ \E f \in Endpoints : ElapseSuspension(f)
    BY DEF Next, Submit, SchedulerNext, FindOrphans, SelectProbe, HurryProbe, ClaimReady, Publish,
           FetchMessage, ProcessNext, LoadForWorker, InsertStarted, InsertConflict, DoHTTP,
           UpdateOutcome, TransitionDelivery, Commit, ResurrectExpiredLeases, FaultNext,
           PublishUnacknowledged, AbortTick, CircuitStatementFails, StatementFails, Crash,
           Rebalance, LeaseExpiresEarly, ExpireLease, SuspensionElapsesEarly, TimeNext,
           LeaseExpires, BackoffElapses, SuspensionElapses, vars, store
  <1> QED
    BY <1>0, <1>1, <1>2, <1>3, <1>4, <1>5, <1>6

\* The scheduler selects what is on its way to the endpoint, if anything is.
LEMMA ProbeIsOnItsWay ==
  ASSUME DistinctTimes, TypeOK, OrderInv, SingleHand, NEW s \in Schedulers, SelectProbe(s),
         scheduler'[s].pc = "assign", NEW d \in Deliveries, Unposted(d),
         EndpointOf[d] = scheduler'[s].endpoint
  PROVE  d = scheduler'[s].probe
  <1> DEFINE e == scheduler'[s].endpoint
             p == scheduler'[s].probe
  <1>1. p \in Oldest(NonTerminalOf(e))
    BY SelectProbeMoves
  <1>2. p \in Deliveries /\ EndpointOf[p] = e /\ IsNonTerminal(delivery[p])
    BY <1>1 DEF Oldest, NonTerminalOf
  <1>3. Held(d)
    BY UnpostedHeld
  <1>4. CreatedAt[d] <= CreatedAt[p]
    BY <1>2, <1>3, HeldIsOldest
  <1>5. d \in NonTerminalOf(e)
    BY <1>3 DEF NonTerminalOf, SingleHand, HandOf, IsNonTerminal
  <1>6. CreatedAt[p] <= CreatedAt[d]
    BY <1>1, <1>5 DEF Oldest
  <1>7. CreatedAt[d] \in Nat /\ CreatedAt[p] \in Nat
    BY <1>2, TopologyAssumption
  <1> QED
    BY <1>2, <1>4, <1>6, <1>7 DEF DistinctTimes

\* ClaimReady sends on what the circuit admits; its scheduler, the only one, has no probe
\* to assign then.
LEMMA ClaimKeepsAdmitted ==
  ASSUME OneScheduler, TypeOK, Admitted, NEW s \in Schedulers, ClaimReady(s)
  PROVE  Admitted'
  <1>1. PICK batch \in SUBSET {d \in Deliveries : Claimable(d)} :
          SchedulerBecomes(s, [IdleScheduler EXCEPT
                                 !.pc = IF batch = {} THEN "idle" ELSE "publish",
                                 !.batch = batch])
    BY Zenon DEF ClaimReady
  <1>2. topic' = topic /\ worker' = worker /\ circuit' = circuit
    BY DEF ClaimReady, kafka
  <1>3. scheduler'[s].batch = batch /\ scheduler'[s].pc # "assign"
    BY <1>1 DEF SchedulerBecomes, IdleScheduler, TypeOK
  <1>4. \A r \in Schedulers : r = s
    BY DEF OneScheduler
  <1>5. ASSUME NEW d \in Deliveries, Unposted(d)'
        PROVE  AdmitsDelivery(circuit'[EndpointOf[d]], d)
    <2>1. Unposted(d) \/ d \in batch
      BY <1>2, <1>3, <1>4, <1>5 DEF Unposted
    <2> QED
      BY <1>2, <2>1 DEF Admitted, Claimable
  <1> QED
    BY <1>3, <1>4, <1>5 DEF Admitted

\* Every step keeps Admitted, unless it brings a message back.
LEMMA NextAdmitted ==
  ASSUME OneScheduler, DistinctTimes, TypeOK, OrderInv, HandInv, AdmittedInv, [Next]_vars
  PROVE  AdmittedInv'
  <1> SUFFICES ASSUME MessagesOnce'
               PROVE  Admitted'
    BY DEF AdmittedInv
  <1>1. SingleHand /\ Admitted
    BY MessagesComeBackForGood DEF HandInv, AdmittedInv
  <1>2. ASSUME NEW s \in Schedulers, ClaimReady(s)
        PROVE  Admitted'
    BY <1>1, <1>2, ClaimKeepsAdmitted
  <1>3. ASSUME \A s \in Schedulers : ~ClaimReady(s)
        PROVE  Admitted'
    <2>1. \A d \in Deliveries : Unposted(d)' => Unposted(d)
      BY <1>1, <1>3, UnpostedSteps
    <2>2. \A d \in Deliveries : Unposted(d)' => AdmitsDelivery(circuit'[EndpointOf[d]], d)
      BY <1>1, <2>1, CircuitStepsAdmit
    <2>3. ASSUME NEW s \in Schedulers, scheduler'[s].pc = "assign", NEW d \in Deliveries,
                 Unposted(d)', EndpointOf[d] = scheduler'[s].endpoint
          PROVE  d = scheduler'[s].probe
      <3>1. CASE SelectProbe(s)
        BY <1>1, <2>1, <2>3, <3>1, ProbeIsOnItsWay
      <3>2. CASE scheduler' = scheduler
        BY <1>1, <2>1, <2>3, <3>2 DEF Admitted
      <3>3. \A r \in Schedulers : r = s
        BY DEF OneScheduler
      <3>4. \/ scheduler' = scheduler
            \/ SchedulerNext(s) \/ AbortTick(s) \/ CircuitStatementFails(s)
        BY <3>3 DEF Next, Submit, FetchMessage, ProcessNext, LoadForWorker, InsertStarted,
             InsertConflict, DoHTTP, UpdateOutcome, UpdateCircuit, TransitionDelivery, Commit,
             ResurrectExpiredLeases, FaultNext, PublishUnacknowledged, StatementFails, Crash,
             Rebalance, LeaseExpiresEarly, ExpireLease, SuspensionElapsesEarly,
             ElapseSuspension, TimeNext, LeaseExpires, BackoffElapses, SuspensionElapses, vars
      <3> QED
        BY <2>3, <3>1, <3>2, <3>4, TickLeavesAssign
    <2> QED
      BY <2>2, <2>3 DEF Admitted
  <1> QED
    BY <1>2, <1>3

\* FR-014 and FR-015 of 003-order-circuit-breaker: with one scheduler, distinct created_at
\* and no message that comes back, every POST (worker.go:117) goes to an endpoint whose
\* circuit is closed, or half_open with this delivery as its probe, although only
\* ClaimReady (delivery_store.go:80-83) looks and every worker of the endpoint, the reaper
\* and the clocks may come in between.
THEOREM CircuitIsRespected ==
  ASSUME OneScheduler, DistinctTimes
  PROVE  Spec /\ []MessagesOnce => CircuitRespected
  <1> DEFINE Respected ==
               \A w \in Workers : Posts(w) =>
                 LET d == worker[w].delivery IN AdmitsDelivery(circuit[EndpointOf[d]], d)
  <1>1. Init => AdmittedInv
    BY DEF Init, AdmittedInv, Admitted, Unposted, IdleScheduler, IdleWorker
  <1>2. TypeOK /\ OrderInv /\ HandInv /\ AdmittedInv /\ [Next]_vars => AdmittedInv'
    BY NextAdmitted
  <1>3. TypeOK /\ AdmittedInv /\ MessagesOnce => [Respected]_vars
    <2> SUFFICES ASSUME TypeOK, Admitted, NEW w \in Workers, worker[w].pc = "post"
                 PROVE  AdmitsDelivery(circuit[EndpointOf[worker[w].delivery]],
                                       worker[w].delivery)
      BY DEF AdmittedInv, Posts
    <2>1. worker[w].delivery \in Deliveries
      BY WorkerDelivery
    <2> QED
      BY <2>1 DEF Admitted, Unposted
  <1> QED
    BY <1>1, <1>2, <1>3, TypeCorrect, OrderInvariant, HandInvariant, PTL DEF Spec, CircuitRespected
=============================================================================
