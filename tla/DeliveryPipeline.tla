-------------------------- MODULE DeliveryPipeline --------------------------
(***************************************************************************)
(* The path of a delivery from its INSERT to a terminal status: the        *)
(* scheduler (internal/scheduler), the Kafka topic as the queue package    *)
(* configures it, the delivery workers (internal/delivery), the circuit    *)
(* breaker they share and the reaper (internal/recovery).                  *)
(*                                                                         *)
(* One step is one SQL statement, one Kafka call or one HTTP call: no      *)
(* component holds a lock or a transaction across two of them.             *)
(*                                                                         *)
(* Kafka is external. A message of the topic is the delivery it names;     *)
(* topic counts the copies a consumer will still fetch, uncommitted the    *)
(* copies fetched since the last commit of their partition. A rebalance    *)
(* rewinds a partition to its committed offset. The order of messages in a *)
(* partition is not modelled, so every order is.                           *)
(*                                                                         *)
(* Faults (crashes, failing statements, rebalances, leases that run out    *)
(* while the message is still on its way) happen at most MaxFaults[kind]   *)
(* times. Backoff, lease and suspension deadlines pass at any moment.      *)
(***************************************************************************)
EXTENDS DeliveryStore, CircuitStore, FiniteSets

CONSTANTS Endpoints,
          Tenants,
          Partitions,
          Workers,
          Schedulers,
          EndpointOf,      \* deliveries.endpoint_id
          TenantOf,        \* endpoints.tenant_id
          PartitionOf,     \* the partition the Hash balancer gives an endpoint's key
          CreatedAt,       \* deliveries.created_at
          Responses,       \* what an endpoint may answer
          MaxAttempts,     \* domain.MaxAttempts
          BatchSize,       \* scheduler.Config.BatchSize
          CircuitEnabled,  \* CircuitStore is wired into worker and scheduler
          StartOffset,     \* ConsumerConfig.StartOffset: "first" or "last"
          NoEndpoint,
          MaxSequence,     \* bound: attempts per delivery
          MaxCopies,       \* bound: copies of one message in the topic
          MaxFaults        \* bound: faults of each kind

AttemptNumbers == 1..MaxSequence

\* Statements of the worker whose error is a fault of its own kind, and the
\* other faults.
StatementFaults == {"load", "insert", "record", "circuit", "mark", "commit"}
FaultKinds == StatementFaults \cup {"crash", "rebalance", "lease", "stall", "scheduler", "probe",
                                 "publish"}

\* Classes of HTTP answers and of transport errors.
AllResponses == {"2xx", "3xx", "429", "4xx", "5xx", "deadline", "transport"}

ASSUME TopologyAssumption ==
  /\ EndpointOf \in [Deliveries -> Endpoints]
  /\ TenantOf \in [Endpoints -> Tenants]
  /\ PartitionOf \in [Endpoints -> Partitions]
  /\ CreatedAt \in [Deliveries -> Nat]
  /\ NoEndpoint \notin Endpoints

ASSUME ParameterAssumption ==
  /\ Responses \subseteq AllResponses
  /\ MaxAttempts \in Nat \ {0}
  /\ BatchSize \in Nat \ {0}
  /\ CircuitEnabled \in BOOLEAN
  /\ StartOffset \in {"first", "last"}

ASSUME BoundAssumption ==
  /\ MaxSequence \in Nat
  /\ MaxCopies \in Nat \ {0}
  /\ MaxFaults \in [FaultKinds -> Nat]

VARIABLES
  delivery,      \* table deliveries
  attempts,      \* table attempts: attempts[d][s] is the row (d, s)
  circuit,       \* table endpoints, the circuit_* columns
  topic,         \* copies of each message still to be fetched
  uncommitted,   \* copies fetched since the last commit of the partition
  committedOnce, \* partitions with a committed offset
  worker,        \* the call of Worker.process each worker is in
  scheduler,     \* the call of Scheduler.Tick each scheduler is in
  faults,        \* faults so far, by kind
  everTerminal   \* history: deliveries that reached a terminal status

store == <<delivery, attempts, circuit>>
kafka == <<topic, uncommitted, committedOnce>>
vars == <<delivery, attempts, circuit, topic, uncommitted, committedOnce,
          worker, scheduler, faults, everTerminal>>

Tenant(d) == TenantOf[EndpointOf[d]]
Partition(d) == PartitionOf[EndpointOf[d]]

\* d2.tenant_id = d.tenant_id AND d2.created_at < d.created_at
Earlier(e, d) == Tenant(e) = Tenant(d) /\ CreatedAt[e] < CreatedAt[d]

WorkerPcs == {"idle", "load", "insert", "post", "record", "circuit", "mark", "commit"}

\* Between its INSERT into attempts and its UPDATE of the delivery.
Attempting == {"post", "record", "circuit", "mark"}

\* A call of Worker.process; idle: waiting in FetchMessage. current: the partition
\* of its message has not been taken away since the fetch.
WorkerCall ==
  {call \in [pc: WorkerPcs,
             delivery: Deliveries \cup {NoDelivery},
             seq: Nat,
             circuit: CircuitStates,
             outcome: AttemptOutcomes,
             current: BOOLEAN] :
     call.pc # "idle" => call.delivery \in Deliveries}

\* The outcome and circuit fields of an idle worker are never read.
IdleWorker == [pc |-> "idle", delivery |-> NoDelivery, seq |-> 0, circuit |-> "closed",
               outcome |-> "success", current |-> FALSE]

SchedulerPcs == {"idle", "select", "close", "assign", "hurry", "expire", "claim", "publish"}

\* A call of Scheduler.Tick. todo: the endpoints the loop over SetProbeDelivery has
\* still to visit; batch: the deliveries claimed and not published yet.
SchedulerCall ==
  {call \in [pc: SchedulerPcs,
             step: {"0a", "0b"},
             todo: SUBSET Endpoints,
             endpoint: Endpoints \cup {NoEndpoint},
             probe: Deliveries \cup {NoDelivery},
             batch: SUBSET Deliveries] :
     /\ call.pc \in {"close", "assign", "hurry"} => call.endpoint \in Endpoints
     /\ call.pc \in {"assign", "hurry"} => call.probe \in Deliveries}

IdleScheduler == [pc |-> "idle", step |-> "0a", todo |-> {}, endpoint |-> NoEndpoint,
                  probe |-> NoDelivery, batch |-> {}]

\* Every variable holds a value of the shape the code gives it.
TypeOK ==
  /\ delivery \in [Deliveries -> DeliveryRow]
  /\ attempts \in [Deliveries -> [AttemptNumbers -> AttemptRow]]
  /\ circuit \in [Endpoints -> CircuitRow]
  /\ topic \in [Deliveries -> Nat] /\ uncommitted \in [Deliveries -> Nat]
  /\ committedOnce \subseteq Partitions
  /\ worker \in [Workers -> WorkerCall]
  /\ scheduler \in [Schedulers -> SchedulerCall]
  /\ faults \in [FaultKinds -> Nat]
  /\ everTerminal \subseteq Deliveries

Init ==
  /\ delivery = [d \in Deliveries |-> AbsentRow]
  /\ attempts = [d \in Deliveries |-> [s \in AttemptNumbers |-> "absent"]]
  /\ circuit = [e \in Endpoints |-> InitialCircuit]
  /\ topic = [d \in Deliveries |-> 0]
  /\ uncommitted = [d \in Deliveries |-> 0]
  /\ committedOnce = {}
  /\ worker = [w \in Workers |-> IdleWorker]
  /\ scheduler = [s \in Schedulers |-> IdleScheduler]
  /\ faults = [k \in FaultKinds |-> 0]
  /\ everTerminal = {}

WorkerBecomes(w, call) == worker' = [worker EXCEPT ![w] = call]
SchedulerBecomes(s, call) == scheduler' = [scheduler EXCEPT ![s] = call]

Fault(kind) ==
  /\ faults[kind] < MaxFaults[kind]
  /\ faults' = [faults EXCEPT ![kind] = @ + 1]

-----------------------------------------------------------------------------
(* Submission                                                              *)

\* The INSERT of EventService.Submit. A tenant's producer has the answer for
\* every earlier delivery before it submits the next one: the order of
\* overlapping submissions is undefined.
Submit(d) ==
  /\ delivery[d].status = "absent"
  /\ \A e \in Deliveries : Earlier(e, d) => delivery[e].status # "absent"
  /\ delivery' = [delivery EXCEPT ![d] = ScheduledRow]
  /\ UNCHANGED <<attempts, circuit, kafka, worker, scheduler, faults, everTerminal>>

-----------------------------------------------------------------------------
(* Scheduler.Tick                                                          *)

NonTerminalOf(e) == {d \in Deliveries : EndpointOf[d] = e /\ IsNonTerminal(delivery[d])}

\* ORDER BY created_at ASC LIMIT 1
Oldest(S) == {d \in S : \A e \in S : CreatedAt[d] <= CreatedAt[e]}

\* Where the loop over SetProbeDelivery goes with the endpoints in todo left.
AfterProbe(todo, step) ==
  IF todo # {} THEN "select" ELSE IF step = "0a" THEN "expire" ELSE "claim"

\* Step 0a: the SELECT of OrphanedHalfOpenEndpoints.
FindOrphans(s) ==
  LET orphans == {e \in Endpoints : IsOrphaned(circuit[e])}
  IN /\ CircuitEnabled
     /\ scheduler[s].pc = "idle"
     /\ SchedulerBecomes(s, [IdleScheduler EXCEPT !.pc = AfterProbe(orphans, "0a"),
                                                  !.todo = orphans])
     /\ UNCHANGED <<store, kafka, worker, faults, everTerminal>>

\* The next endpoint of the loop, and the SELECT of its SetProbeDelivery.
SelectProbe(s) ==
  /\ scheduler[s].pc = "select"
  /\ \E e \in scheduler[s].todo :
       \/ /\ NonTerminalOf(e) = {}
          /\ SchedulerBecomes(s, [scheduler[s] EXCEPT !.pc = "close", !.endpoint = e,
                                                      !.todo = @ \ {e}])
       \/ \E d \in Oldest(NonTerminalOf(e)) :
            SchedulerBecomes(s, [scheduler[s] EXCEPT !.pc = "assign", !.endpoint = e,
                                                     !.probe = d, !.todo = @ \ {e}])
  /\ UNCHANGED <<store, kafka, worker, faults, everTerminal>>

NextEndpoint(s) ==
  SchedulerBecomes(s, [scheduler[s] EXCEPT
                         !.pc = AfterProbe(scheduler[s].todo, scheduler[s].step),
                         !.endpoint = NoEndpoint, !.probe = NoDelivery])

\* The empty-queue fallback of SetProbeDelivery.
CloseEmptyCircuit(s) ==
  /\ scheduler[s].pc = "close"
  /\ circuit' = [circuit EXCEPT ![scheduler[s].endpoint] = CloseEmpty(@)]
  /\ NextEndpoint(s)
  /\ UNCHANGED <<delivery, attempts, kafka, worker, faults, everTerminal>>

\* The UPDATE of circuit_probe_delivery_id.
SetProbe(s) ==
  /\ scheduler[s].pc = "assign"
  /\ circuit' = [circuit EXCEPT ![scheduler[s].endpoint] = AssignProbe(@, scheduler[s].probe)]
  /\ SchedulerBecomes(s, [scheduler[s] EXCEPT !.pc = "hurry"])
  /\ UNCHANGED <<delivery, attempts, kafka, worker, faults, everTerminal>>

\* The UPDATE of the probe's next_attempt_at to NOW().
HurryProbe(s) ==
  /\ scheduler[s].pc = "hurry"
  /\ delivery' = [delivery EXCEPT ![scheduler[s].probe].due = TRUE]
  /\ NextEndpoint(s)
  /\ UNCHANGED <<attempts, circuit, kafka, worker, faults, everTerminal>>

\* Step 0b: one UPDATE over all endpoints, which returns those now half_open.
ProcessExpiredSuspensions(s) ==
  LET halfOpen == {e \in Endpoints : SuspensionExpired(circuit[e]) /\ NonTerminalOf(e) # {}}
  IN /\ scheduler[s].pc = "expire"
     /\ circuit' = [e \in Endpoints |-> ExpireSuspension(circuit[e], NonTerminalOf(e) # {})]
     /\ SchedulerBecomes(s, [scheduler[s] EXCEPT !.pc = AfterProbe(halfOpen, "0b"),
                                                 !.step = "0b", !.todo = halfOpen])
     /\ UNCHANGED <<delivery, attempts, kafka, worker, faults, everTerminal>>

\* Mutants of Claimable: an earlier delivery that is in_flight does not hold back the
\* later ones; any delivery may go to a half_open endpoint.
Claimable_PastInFlight(d) ==
  /\ delivery[d].status = "scheduled" /\ delivery[d].due
  /\ ~\E e \in Deliveries : Earlier(e, d) /\ delivery[e].status = "scheduled"
  /\ AdmitsDelivery(circuit[EndpointOf[d]], d)

Claimable_NoProbe(d) ==
  /\ delivery[d].status = "scheduled" /\ delivery[d].due
  /\ ~\E e \in Deliveries : Earlier(e, d) /\ IsNonTerminal(delivery[e])
  /\ circuit[EndpointOf[d]].state # "open"

\* The WHERE clause of ClaimReady.
Claimable(d) ==
  /\ delivery[d].status = "scheduled" /\ delivery[d].due
  /\ ~\E e \in Deliveries : Earlier(e, d) /\ IsNonTerminal(delivery[e])
  /\ AdmitsDelivery(circuit[EndpointOf[d]], d)

\* Step 1: one UPDATE, at most BatchSize rows.
ClaimReady(s) ==
  LET ready == {d \in Deliveries : Claimable(d)}
  IN /\ scheduler[s].pc = IF CircuitEnabled THEN "claim" ELSE "idle"
     /\ \E batch \in SUBSET ready :
          /\ batch = ready \/ Cardinality(batch) = BatchSize
          /\ Cardinality(batch) <= BatchSize
          /\ delivery' = [d \in Deliveries |->
                            IF d \in batch THEN ClaimRow(delivery[d]) ELSE delivery[d]]
          /\ SchedulerBecomes(s, [IdleScheduler EXCEPT
                                     !.pc = IF batch = {} THEN "idle" ELSE "publish",
                                     !.batch = batch])
     /\ UNCHANGED <<attempts, circuit, kafka, worker, faults, everTerminal>>

\* Mutant of Publish: a published delivery stays in the batch.
Publish_Again(s) ==
  /\ scheduler[s].pc = "publish"
  /\ \E d \in scheduler[s].batch :
       /\ topic[d] < MaxCopies
       /\ topic' = [topic EXCEPT ![d] = @ + 1]
  /\ UNCHANGED <<store, uncommitted, committedOnce, worker, scheduler, faults, everTerminal>>

\* One Publish of the loop over the claimed deliveries.
Publish(s) ==
  /\ scheduler[s].pc = "publish"
  /\ \E d \in scheduler[s].batch :
       /\ topic[d] < MaxCopies
       /\ topic' = [topic EXCEPT ![d] = @ + 1]
       /\ SchedulerBecomes(s, IF scheduler[s].batch = {d}
                                 THEN IdleScheduler
                                 ELSE [scheduler[s] EXCEPT !.batch = @ \ {d}])
  /\ UNCHANGED <<store, uncommitted, committedOnce, worker, faults, everTerminal>>

\* A message is written and its acknowledgement lost. The writer tries again, or
\* gives up and AbortTick follows.
PublishUnacknowledged(s) ==
  /\ scheduler[s].pc = "publish"
  /\ Fault("publish")
  /\ \E d \in scheduler[s].batch :
       /\ topic[d] < MaxCopies
       /\ topic' = [topic EXCEPT ![d] = @ + 1]
  /\ UNCHANGED <<store, uncommitted, committedOnce, worker, scheduler, everTerminal>>

\* The process stops, ClaimReady fails or a Publish fails: what was claimed
\* and not published stays in_flight.
AbortTick(s) ==
  /\ scheduler[s].pc # "idle"
  /\ Fault("scheduler")
  /\ SchedulerBecomes(s, IdleScheduler)
  /\ UNCHANGED <<store, kafka, worker, everTerminal>>

\* A circuit statement of the tick fails: the error is logged, and the tick goes
\* on with the next endpoint or the next step.
CircuitStatementFails(s) ==
  /\ CircuitEnabled
  /\ Fault("probe")
  /\ \/ scheduler[s].pc \in {"close", "assign", "hurry"} /\ NextEndpoint(s)
     \/ /\ scheduler[s].pc = "select"
        /\ \E e \in scheduler[s].todo :
             SchedulerBecomes(s, [scheduler[s] EXCEPT
                                    !.pc = AfterProbe(scheduler[s].todo \ {e}, scheduler[s].step),
                                    !.todo = @ \ {e}])
     \/ /\ scheduler[s].pc = "idle"
        /\ SchedulerBecomes(s, [IdleScheduler EXCEPT !.pc = "expire"])
     \/ /\ scheduler[s].pc = "expire"
        /\ SchedulerBecomes(s, [scheduler[s] EXCEPT !.pc = "claim"])
  /\ UNCHANGED <<store, kafka, worker, everTerminal>>

-----------------------------------------------------------------------------
(* Worker.ProcessOne                                                       *)

Saturate(n) == IF n <= MaxCopies THEN n ELSE MaxCopies

\* w works on a message of partition p and p is still assigned to its consumer.
HoldsPartition(w, p) ==
  worker[w].pc # "idle" /\ worker[w].current /\ Partition(worker[w].delivery) = p

\* A partition is assigned to one consumer, which fetches one message at a time.
FetchMessage(w, d) ==
  /\ worker[w].pc = "idle"
  /\ topic[d] > 0
  /\ ~\E v \in Workers : HoldsPartition(v, Partition(d))
  /\ topic' = [topic EXCEPT ![d] = @ - 1]
  /\ uncommitted' = [uncommitted EXCEPT ![d] = Saturate(@ + 1)]
  /\ WorkerBecomes(w, [IdleWorker EXCEPT !.pc = "load", !.delivery = d, !.current = TRUE])
  /\ UNCHANGED <<store, committedOnce, scheduler, faults, everTerminal>>

\* The SELECT of the row and of the circuit state; the status is not looked at.
LoadForWorker(w) ==
  LET d == worker[w].delivery
  IN /\ worker[w].pc = "load"
     /\ delivery[d].attemptCount < MaxSequence
     /\ WorkerBecomes(w, [worker[w] EXCEPT !.pc = "insert",
                                           !.seq = delivery[d].attemptCount + 1,
                                           !.circuit = circuit[EndpointOf[d]].state])
     /\ UNCHANGED <<store, kafka, scheduler, faults, everTerminal>>

\* process returned an error: the message is not committed, and the consumer
\* goes on with the next one.
Abandon(w) == WorkerBecomes(w, IdleWorker)

\* Mutant of InsertStarted: no UNIQUE (delivery_id, sequence).
InsertStarted_NotUnique(w) ==
  /\ worker[w].pc = "insert"
  /\ attempts' = [attempts EXCEPT ![worker[w].delivery][worker[w].seq] = "started"]
  /\ WorkerBecomes(w, [worker[w] EXCEPT !.pc = "post"])
  /\ UNCHANGED <<delivery, circuit, kafka, scheduler, faults, everTerminal>>

InsertStarted(w) ==
  LET d == worker[w].delivery
      s == worker[w].seq
  IN /\ worker[w].pc = "insert"
     /\ attempts[d][s] = "absent"
     /\ attempts' = [attempts EXCEPT ![d][s] = "started"]
     /\ WorkerBecomes(w, [worker[w] EXCEPT !.pc = "post"])
     /\ UNCHANGED <<delivery, circuit, kafka, scheduler, faults, everTerminal>>

\* The row (d, s) exists: UNIQUE (delivery_id, sequence) rejects the INSERT.
InsertConflict(w) ==
  /\ worker[w].pc = "insert"
  /\ attempts[worker[w].delivery][worker[w].seq] # "absent"
  /\ Abandon(w)
  /\ UNCHANGED <<store, kafka, scheduler, faults, everTerminal>>

\* Mutant of Classify: an outcome the enum attempt_outcome does not have.
Classify_NewOutcome(response) ==
  CASE response \in {"2xx", "3xx"} -> "success"
    [] response = "4xx" -> "rejected"
    [] response = "deadline" -> "timeout"
    [] OTHER -> "transient_failure"

Classify(response) ==
  CASE response \in {"2xx", "3xx"} -> "success"
    [] response = "4xx" -> "permanent_failure"
    [] response = "deadline" -> "timeout"
    [] OTHER -> "transient_failure"

AfterRecord == IF CircuitEnabled THEN "circuit" ELSE "mark"

\* Mutant of DoHTTP: the outcome of a POST that timed out is not recorded.
DoHTTP_TimeoutUnrecorded(w) ==
  /\ worker[w].pc = "post"
  /\ \E r \in Responses :
       WorkerBecomes(w, [worker[w] EXCEPT !.pc = IF r = "deadline" THEN AfterRecord ELSE "record",
                                          !.outcome = Classify(r)])
  /\ UNCHANGED <<store, kafka, scheduler, faults, everTerminal>>

\* The POST, answered or timed out.
DoHTTP(w) ==
  /\ worker[w].pc = "post"
  /\ \E r \in Responses :
       WorkerBecomes(w, [worker[w] EXCEPT !.pc = "record", !.outcome = Classify(r)])
  /\ UNCHANGED <<store, kafka, scheduler, faults, everTerminal>>

UpdateOutcome(w) ==
  /\ worker[w].pc = "record"
  /\ attempts' = [attempts EXCEPT ![worker[w].delivery][worker[w].seq] = worker[w].outcome]
  /\ WorkerBecomes(w, [worker[w] EXCEPT !.pc = AfterRecord])
  /\ UNCHANGED <<delivery, circuit, kafka, scheduler, faults, everTerminal>>

\* The circuit state that decides on a permanent failure is the one loaded
\* before the POST.
CircuitAfter(call, row) ==
  CASE call.outcome = "success" -> HandleSuccess(row)
    [] call.outcome = "permanent_failure" ->
         IF call.circuit = "half_open" THEN HandleProbePermanentFailure(row) ELSE row
    [] OTHER -> HandleTransientFailure(row)

UpdateCircuit(w) ==
  /\ worker[w].pc = "circuit"
  /\ circuit' = [circuit EXCEPT ![EndpointOf[worker[w].delivery]] = CircuitAfter(worker[w], @)]
  /\ WorkerBecomes(w, [worker[w] EXCEPT !.pc = "mark"])
  /\ UNCHANGED <<delivery, attempts, kafka, scheduler, faults, everTerminal>>

\* Mutants of RowAfter: one attempt too many; the budget is compared with the count
\* the row has before the attempt is counted.
RowAfter_OneTooMany(call, row) ==
  CASE call.outcome = "success" -> MarkDelivered(row)
    [] call.outcome = "permanent_failure" -> MarkPermanentlyFailed(row)
    [] OTHER -> IF call.seq > MaxAttempts THEN MarkPermanentlyFailed(row)
                                          ELSE Reschedule(row)

RowAfter_StaleCount(call, row) ==
  CASE call.outcome = "success" -> MarkDelivered(row)
    [] call.outcome = "permanent_failure" -> MarkPermanentlyFailed(row)
    [] OTHER -> IF row.attemptCount >= MaxAttempts THEN MarkPermanentlyFailed(row)
                                                   ELSE Reschedule(row)

\* The budget is compared with the attempt this call started.
RowAfter(call, row) ==
  CASE call.outcome = "success" -> MarkDelivered(row)
    [] call.outcome = "permanent_failure" -> MarkPermanentlyFailed(row)
    [] OTHER -> IF call.seq >= MaxAttempts THEN MarkPermanentlyFailed(row)
                                           ELSE Reschedule(row)

TransitionDelivery(w) ==
  LET d == worker[w].delivery
      row == RowAfter(worker[w], delivery[d])
  IN /\ worker[w].pc = "mark"
     /\ delivery' = [delivery EXCEPT ![d] = row]
     /\ everTerminal' = IF IsTerminal(row) THEN everTerminal \cup {d} ELSE everTerminal
     /\ WorkerBecomes(w, [worker[w] EXCEPT !.pc = "commit"])
     /\ UNCHANGED <<attempts, circuit, kafka, scheduler, faults>>

\* Committing an offset commits every message of the partition fetched before
\* it. The commit of a consumer that lost the partition is rejected.
Commit(w) ==
  LET p == Partition(worker[w].delivery)
  IN /\ worker[w].pc = "commit"
     /\ IF worker[w].current
          THEN /\ uncommitted' = [d \in Deliveries |->
                                    IF Partition(d) = p THEN 0 ELSE uncommitted[d]]
               /\ committedOnce' = committedOnce \cup {p}
          ELSE UNCHANGED <<uncommitted, committedOnce>>
     /\ WorkerBecomes(w, IdleWorker)
     /\ UNCHANGED <<store, topic, scheduler, faults, everTerminal>>

\* A statement of ProcessOne fails. UpdateOutcome and the circuit updates only
\* log their error; every other error ends the call.
StatementFails(w) ==
  /\ worker[w].pc \in StatementFaults
  /\ Fault(worker[w].pc)
  /\ WorkerBecomes(w, CASE worker[w].pc = "record" -> [worker[w] EXCEPT !.pc = AfterRecord]
                         [] worker[w].pc = "circuit" -> [worker[w] EXCEPT !.pc = "mark"]
                         [] OTHER -> IdleWorker)
  /\ UNCHANGED <<store, kafka, scheduler, everTerminal>>

-----------------------------------------------------------------------------
(* The consumer group                                                      *)

\* A new assignment of p starts at its committed offset or, when there is
\* none, where StartOffset says: "last" skips what was published before.
Rewind(p) ==
  /\ topic' = [d \in Deliveries |->
                 IF Partition(d) # p THEN topic[d]
                 ELSE IF p \in committedOnce \/ StartOffset = "first"
                        THEN Saturate(topic[d] + uncommitted[d])
                        ELSE 0]
  /\ uncommitted' = [d \in Deliveries |-> IF Partition(d) = p THEN 0 ELSE uncommitted[d]]
  /\ UNCHANGED committedOnce

\* p moves to another consumer. A worker in the middle of one of its messages
\* goes on, but has lost the partition.
Rebalance(p) ==
  /\ Fault("rebalance")
  /\ Rewind(p)
  /\ worker' = [w \in Workers |-> IF HoldsPartition(w, p)
                                    THEN [worker[w] EXCEPT !.current = FALSE]
                                    ELSE worker[w]]
  /\ UNCHANGED <<store, scheduler, everTerminal>>

\* The process stops in the middle of a message: a crash, or a shutdown, which
\* cancels the context of every statement that follows.
Crash(w) ==
  /\ worker[w].pc # "idle"
  /\ Fault("crash")
  /\ IF worker[w].current THEN Rewind(Partition(worker[w].delivery)) ELSE UNCHANGED kafka
  /\ Abandon(w)
  /\ UNCHANGED <<store, scheduler, everTerminal>>

-----------------------------------------------------------------------------
(* The reaper, and the passing of time                                     *)

\* One UPDATE over all rows.
ResurrectExpiredLeases ==
  /\ delivery' = [d \in Deliveries |-> ResurrectRow(delivery[d])]
  /\ UNCHANGED <<attempts, circuit, kafka, worker, scheduler, faults, everTerminal>>

\* A component still has d in hand: it was claimed and not published yet, its
\* message is to be fetched, or a worker is in it.
InHand(d) ==
  \/ \E s \in Schedulers : d \in scheduler[s].batch
  \/ topic[d] > 0
  \/ \E w \in Workers : worker[w].pc # "idle" /\ worker[w].delivery = d

ExpireLease(d) ==
  /\ delivery[d].lease = "live"
  /\ delivery' = [delivery EXCEPT ![d].lease = "expired"]
  /\ UNCHANGED <<attempts, circuit, kafka, worker, scheduler, everTerminal>>

\* The lease of a delivery nobody works on any more runs out.
LeaseExpires(d) == ~InHand(d) /\ ExpireLease(d) /\ UNCHANGED faults

\* Backlog in the topic, or a slow worker, outlasts the lease.
LeaseExpiresEarly(d) == InHand(d) /\ ExpireLease(d) /\ Fault("lease")

BackoffElapses(d) ==
  /\ delivery[d].status # "absent" /\ ~delivery[d].due
  /\ delivery' = [delivery EXCEPT ![d].due = TRUE]
  /\ UNCHANGED <<attempts, circuit, kafka, worker, scheduler, faults, everTerminal>>

\* A worker call for endpoint e that read the circuit before it opened.
BegunBeforeOpening(e) ==
  \E w \in Workers : /\ worker[w].pc \notin {"idle", "load"}
                     /\ EndpointOf[worker[w].delivery] = e
                     /\ worker[w].circuit # "open"

ElapseSuspension(e) ==
  /\ circuit[e].suspendedUntil = "running"
  /\ circuit' = [circuit EXCEPT ![e].suspendedUntil = "elapsed"]
  /\ UNCHANGED <<delivery, attempts, kafka, worker, scheduler, everTerminal>>

\* The suspension outlasts the calls that were under way when it began.
SuspensionElapses(e) == ~BegunBeforeOpening(e) /\ ElapseSuspension(e) /\ UNCHANGED faults

\* A worker call stalls for longer than the suspension.
SuspensionElapsesEarly(e) == BegunBeforeOpening(e) /\ ElapseSuspension(e) /\ Fault("stall")

-----------------------------------------------------------------------------

SchedulerNext(s) ==
  \/ FindOrphans(s) \/ SelectProbe(s) \/ CloseEmptyCircuit(s) \/ SetProbe(s)
  \/ HurryProbe(s) \/ ProcessExpiredSuspensions(s) \/ ClaimReady(s) \/ Publish(s)

ProcessNext(w) ==
  \/ LoadForWorker(w) \/ InsertStarted(w) \/ InsertConflict(w) \/ DoHTTP(w)
  \/ UpdateOutcome(w) \/ UpdateCircuit(w) \/ TransitionDelivery(w) \/ Commit(w)

FaultNext ==
  \/ \E s \in Schedulers : PublishUnacknowledged(s) \/ AbortTick(s) \/ CircuitStatementFails(s)
  \/ \E w \in Workers : StatementFails(w) \/ Crash(w)
  \/ \E p \in Partitions : Rebalance(p)
  \/ \E d \in Deliveries : LeaseExpiresEarly(d)
  \/ \E e \in Endpoints : SuspensionElapsesEarly(e)

TimeNext ==
  \/ \E d \in Deliveries : LeaseExpires(d) \/ BackoffElapses(d)
  \/ \E e \in Endpoints : SuspensionElapses(e)

Next ==
  \/ \E d \in Deliveries : Submit(d)
  \/ \E s \in Schedulers : SchedulerNext(s)
  \/ \E w \in Workers, d \in Deliveries : FetchMessage(w, d)
  \/ \E w \in Workers : ProcessNext(w)
  \/ ResurrectExpiredLeases
  \/ FaultNext
  \/ TimeNext

Spec == Init /\ [][Next]_vars

(***************************************************************************)
(* Run loops of scheduler, reaper and workers never stop by themselves,    *)
(* every call they make returns (the HTTP client has a timeout), every     *)
(* published message is reached by its consumer, and clocks advance.       *)
(* Faults and submissions are never owed.                                  *)
(***************************************************************************)
Fairness ==
  /\ \A s \in Schedulers : WF_vars(SchedulerNext(s))
  /\ \A d \in Deliveries : WF_vars(\E w \in Workers : FetchMessage(w, d))
  /\ \A w \in Workers : WF_vars(ProcessNext(w))
  /\ WF_vars(ResurrectExpiredLeases)
  /\ \A d \in Deliveries : WF_vars(LeaseExpires(d)) /\ WF_vars(BackoffElapses(d))
  /\ \A e \in Endpoints : WF_vars(SuspensionElapses(e))

FairSpec == Spec /\ Fairness

-----------------------------------------------------------------------------
(* Properties                                                              *)

\* UNIQUE (delivery_id, sequence) is the only thing that keeps two workers off
\* one delivery: whatever is redelivered, rebalanced or leased twice, at most one
\* worker is between the INSERT of its attempt (worker.go:111) and its UPDATE of
\* the delivery, so no delivery is POSTed twice at the same time.
OneAttemptAtATime ==
  \A v, w \in Workers :
    /\ worker[v].pc \in Attempting
    /\ worker[w].pc \in Attempting
    /\ worker[v].delivery = worker[w].delivery
    => v = w

\* The attempts of a delivery are numbered 1, 2, ... without a gap, and
\* attempt_count counts them all but possibly the last one, which was started and
\* has not changed the delivery: the three UPDATEs of delivery_store.go:119-162
\* add one to whatever count they find.
AttemptNumbering ==
  \A d \in Deliveries : \A s \in AttemptNumbers :
    /\ s <= delivery[d].attemptCount => attempts[d][s] # "absent"
    /\ s > delivery[d].attemptCount + 1 => attempts[d][s] = "absent"

\* A worker that started an attempt is the one that will count it, and one that is
\* about to start one has read a count that is not ahead of the delivery's.
AttemptOwned ==
  \A w \in Workers :
    LET d == worker[w].delivery
        s == worker[w].seq
    IN /\ worker[w].pc \in {"insert"} \cup Attempting => s \in AttemptNumbers
       /\ worker[w].pc = "insert" => s <= delivery[d].attemptCount + 1
       /\ worker[w].pc \in Attempting => /\ s = delivery[d].attemptCount + 1
                                         /\ attempts[d][s] # "absent"

\* What makes the two properties above inductive.
AttemptInv == OneAttemptAtATime /\ AttemptNumbering /\ AttemptOwned

\* FR-008 of 003-order-circuit-breaker: no attempt of a delivery is started before
\* every earlier delivery of its tenant has reached a terminal status. Only
\* ClaimReady checks it (delivery_store.go:73-79), minutes before the POST and
\* possibly for another copy of the message.
TenantOrder ==
  \A e, d \in Deliveries :
    /\ Earlier(e, d)
    /\ \E s \in AttemptNumbers : attempts[d][s] # "absent"
    => e \in everTerminal

\* Every earlier delivery of the tenant has reached a terminal status.
Released(d) == \A e \in Deliveries : Earlier(e, d) => e \in everTerminal

\* Some part of the pipeline has, or had, got hold of d.
InPipeline(d) ==
  \/ delivery[d].status = "in_flight"
  \/ \E s \in Schedulers : d \in scheduler[s].batch
  \/ topic[d] > 0 \/ uncommitted[d] > 0
  \/ \E w \in Workers : worker[w].pc # "idle" /\ worker[w].delivery = d
  \/ \E s \in AttemptNumbers : attempts[d][s] # "absent"

\* What the pipeline has got hold of was released when ClaimReady took it, and
\* stays so: the reason for TenantOrder.
OnlyReleasedInPipeline ==
  \A d \in Deliveries : InPipeline(d) => Released(d) /\ delivery[d].status # "absent"

\* The history variable covers the present, and rows are inserted in created_at
\* order.
HistoryInv ==
  \A d \in Deliveries :
    /\ IsTerminal(delivery[d]) => d \in everTerminal
    /\ delivery[d].status = "absent" => delivery[d].attemptCount = 0
    /\ delivery[d].status # "absent" =>
         \A e \in Deliveries : Earlier(e, d) => delivery[e].status # "absent"

OrderInv == OnlyReleasedInPipeline /\ HistoryInv

\* The status of a delivery is explained by its last counted attempt, although
\* attempt and delivery are updated by separate statements (worker.go:134, 174,
\* 177, 186, 189) and a second message of the delivery may be under way. It needs
\* UpdateOutcome not to fail: its error is only logged.
StatusExplained ==
  \A d \in Deliveries :
    LET row == delivery[d]
        last == attempts[d][row.attemptCount]
    IN row.attemptCount \in AttemptNumbers =>
         /\ row.status = "delivered" => last = "success"
         /\ row.status = "permanently_failed" =>
              \/ last = "permanent_failure"
              \/ last \in {"transient_failure", "timeout"} /\ row.attemptCount >= MaxAttempts
         /\ row.status \in {"scheduled", "in_flight"} =>
              /\ last \in {"transient_failure", "timeout"}
              /\ row.attemptCount < MaxAttempts

\* The columns of a circuit agree whatever the interleaving of worker updates and
\* scheduler statements: a suspension exists only while open
\* (domain/circuit_breaker.go:19), a probe only while half_open, sensitive recovery
\* only while closed, and a closed circuit is below the threshold.
CircuitConsistent ==
  \A e \in Endpoints :
    /\ circuit[e].suspendedUntil # "none" <=> circuit[e].state = "open"
    /\ circuit[e].probe # NoDelivery =>
         circuit[e].state = "half_open" /\ EndpointOf[circuit[e].probe] = e
    /\ circuit[e].sensitiveRecovery => circuit[e].state = "closed"
    /\ circuit[e].state = "closed" => circuit[e].failureCount < Threshold

\* A probe the scheduler is about to assign belongs to the endpoint it selected.
ProbeSelected ==
  \A s \in Schedulers :
    scheduler[s].pc = "assign" => EndpointOf[scheduler[s].probe] = scheduler[s].endpoint

\* The step in which worker w gets the answer to its POST.
Posts(w) == worker[w].pc = "post" /\ worker'[w].pc = "record"

\* SC-005 of 001-receive-deliver: no POST for a delivery that is permanently_failed,
\* nor for one that is delivered.
NoPostAfterTerminal ==
  [][\A w \in Workers : Posts(w) => ~IsTerminal(delivery[worker[w].delivery])]_vars

\* FR-014 and FR-015 of 003-order-circuit-breaker: a POST goes only to an endpoint
\* whose circuit is closed, or half_open with this delivery as its probe. ClaimReady
\* checks it; nothing does between the claim and the POST (worker.go:117).
CircuitRespected ==
  [][\A w \in Workers : Posts(w) =>
       LET d == worker[w].delivery IN AdmitsDelivery(circuit[EndpointOf[d]], d)]_vars

\* FR-015 of 001-receive-deliver: a delivery has at most MaxAttempts attempts.
RetryBudget == \A d \in Deliveries : \A s \in AttemptNumbers :
  attempts[d][s] # "absent" => s <= MaxAttempts

\* A message that comes back after the end of its delivery is attempted all the same
\* (worker.go:105 does not look at the status), so FR-015 may be broken then; but never
\* for a delivery that has not ended: only attempt MaxAttempts looks at the budget
\* (worker.go:185), and no copy of the message may carry the count past it.
BudgetUntilEnd == \A d \in Deliveries : \A s \in AttemptNumbers :
  attempts[d][s] # "absent" /\ s > MaxAttempts => d \in everTerminal

\* The counted attempts whose row is still as InsertStarted left it.
IncompleteAttempts ==
  {a \in Deliveries \X AttemptNumbers : /\ a[2] <= delivery[a[1]].attemptCount
                                       /\ attempts[a[1]][a[2]] = "started"}

\* 004-dlq-replay, plan.md:268: every attempt of an ended delivery has its outcome. The
\* error of UpdateOutcome is only logged (worker.go:134) and the delivery moves on, so
\* each failing UpdateOutcome may leave one attempt incomplete; nothing else does, and
\* neither a retry nor a resurrection leaves a counted attempt without its outcome.
AttemptsComplete == Cardinality(IncompleteAttempts) <= faults["record"]

Lifecycle == INSTANCE DeliveryLifecycle
  WITH life <- [d \in Deliveries |-> [status |-> delivery[d].status,
                                     attemptCount |-> delivery[d].attemptCount]]

\* As long as leases outlast the work they cover, the statements of
\* delivery_store.go:119-162, which do not look at the status, make only the moves
\* domain/delivery.go:44-86 allows: no terminal delivery moves again.
LifecycleRefined == Lifecycle!Spec

\* Every submitted delivery ends delivered or permanently_failed: a lease that ran
\* out is resurrected, republished and retried (001-receive-deliver/plan.md:417).
EventuallyTerminal ==
  \A d \in Deliveries : delivery[d].status = "scheduled" ~> IsTerminal(delivery[d])

\* A half_open circuit is left again: its probe is attempted and closes or reopens
\* it, or the queue is empty (FR-016 to FR-018 of 003-order-circuit-breaker).
HalfOpenResolves ==
  \A e \in Endpoints : circuit[e].state = "half_open" ~> circuit[e].state # "half_open"
=============================================================================
