# A TLA+ model of webhook-delivery

webhook-delivery accepts events over HTTP, stores a delivery for each in PostgreSQL, and
POSTs it to the tenant's endpoint until it is answered, rejected or out of attempts. This
directory holds a TLA+ model of the parts that change state, the TLC runs that check it on
small instances, and TLAPS proofs of its main safety properties for every instance.

`PROJECT.json` lists the runs, the source lines behind every definition (`map`), the
hazards the properties aim at, the mutants that show that each property can fail, and the
findings.

## 1. Inventory

| Part | State it keeps | Operations | Interacts with |
|---|---|---|---|
| Event submission (`service/event_service.go`, `store/idempotency_store.go`, `api/handlers_event.go`) | `events`, `deliveries`, `idempotency_records`, advisory locks | `Submit`: one transaction of up to six statements | the pipeline through `deliveries`; the reaper's purge |
| Scheduler (`scheduler/scheduler.go`) | none of its own | `Tick`: circuit steps 0a and 0b, `ClaimReady`, one publish per claimed delivery | workers through Kafka, circuit columns, reaper through leases |
| Queue (`queue/`) | offsets of a Kafka consumer group | publish, fetch, commit | scheduler, workers |
| Worker (`delivery/worker.go`, `outcome.go`) | `attempts`, `deliveries` | `ProcessOne`: load, insert attempt, POST, record, circuit, mark, commit | endpoints over HTTP, circuit columns |
| Circuit breaker (`store/circuit_store.go`) | `circuit_*` columns of `endpoints` | three outcome updates, expiry, probe assignment | called by workers and scheduler |
| Reaper (`recovery/reaper.go`) | none of its own | resurrect expired leases, purge idempotency records | `deliveries`, `idempotency_records` |
| DLQ (`service/dlq_service.go`, `api/handlers_dlq.go`) | `deliveries.source_delivery_id` | `Replay`, `BulkReplay`; `List` reads one page per request, `Detail` one delivery | the pipeline |
| Domain (`domain/`) | - | lifecycle methods, retry schedule | the promise the store is held to |
| Endpoints and tenants (`service/endpoint_service.go`, `service/tenant_service.go`, their stores and handlers) | `endpoints`, `tenants` | `Create`, `Register`, `RotateSecret` | read by submission and worker |
| Signing (`signing/signer.go`, `delivery/worker.go`) | the secret a worker has read | load, sign | `endpoints.signing_secret` |
| API process (`cmd/webhookd/main.go`, `api/server.go`) | listeners, shutdown deadline, connection pool | `runAPI`, `Start`, `shutdown`, exit code | runs the handlers, cuts them off |
| Middleware, configuration, observability | - | parsing, logging, metrics | - |

What is hard here:

- no component holds a transaction across two steps, apart from `Submit`: every pair of
  statements of a tick, of `ProcessOne` or of a bulk replay may be separated by the steps
  of anyone else;
- Kafka gives a message at least once, and the lease gives a delivery a second message;
- outcome UPDATEs do not look at the status they replace;
- the order of a tenant and the state of a circuit are checked at the claim, long before
  the POST;
- several errors are logged and forgotten;
- an answer may be lost, and a statement committed, or committed later, while its handler
  was told of an error;
- a shutdown has ten seconds for whatever the clients are doing;
- expiry is judged by clocks read at different moments;
- the list that is paged changes between two pages, and its sort leaves ties open.

What makes each part correct: attempts of a delivery are serial and counted; tenants are
served in order; the budget is kept; a delivery ends and then stays ended; circuits are
consistent, respected and left again; a key yields one delivery per window and every
answer tells the truth; a delivery has one replay at a time, and an accepted bulk replay
covers what it listed; pages of the DLQ miss nothing that keeps its place; an answered rotation
retires every earlier secret; a process that exits with code 0 has lost no request.

The binary passes no `CircuitStore` to worker and scheduler (`cmd/webhookd/main.go:194`,
`:249`) and leaves the start offset at `LastOffset`. Both are constants of the model, and
runs exist for both values. `runAPI` (`main.go:141-144`) registers neither the DLQ routes nor
the circuit-breaker route; they are modelled as the integration tests register them.

## 2. Modules

```
DeliveryStore   rows of deliveries and attempts, one function per UPDATE
CircuitStore    circuit columns, one function per UPDATE
DeliveryLifecycle   abstract: what domain.Delivery allows
DeliveryPipeline    EXTENDS DeliveryStore, CircuitStore; INSTANCE DeliveryLifecycle
EventSubmission     Submit and the purge
DlqReplay           EXTENDS DeliveryStore
RetrySchedule       domain.Delay as a function, and its theorem
EndpointRegistry    tenants, endpoints, secrets; the handlers that write them; signing
DlqListing          the pages of GET /v1/dlq
ApiServer           start, shutdown and exit of the process
ApiProcess          EXTENDS EndpointRegistry, ApiServer, DlqListing: their composition
MCDeliveryPipeline, MCEventSubmission, MCDlqReplay   instances for TLC
                    (ApiProcess needs no module of its own)
DeliveryPipeline_proofs, AttemptSafety_proofs, OrderSafety_proofs,
CircuitSafety_proofs, EventSubmission_proofs, DlqReplay_proofs,
ApiProcess_proofs   theorems
```

**DeliveryStore, CircuitStore.** An UPDATE with its WHERE clause is a function from a row
to a row. Timestamps keep what the statements compare: `due` is `next_attempt_at <= NOW()`,
`lease` is NULL, live or expired, `suspendedUntil` is NULL, running or elapsed.

**DeliveryPipeline.** One step is one SQL statement, Kafka call or HTTP call.

| Model | Code |
|---|---|
| `Submit` | the INSERTs of `EventService.Submit`, as one step |
| `FindOrphans`, `SelectProbe`, `CloseEmptyCircuit`, `SetProbe`, `HurryProbe`, `ProcessExpiredSuspensions` | steps 0a and 0b of `Tick`; `SetProbeDelivery` is three statements |
| `ClaimReady`, `Publish` | step 1 of `Tick` |
| `PublishUnacknowledged`, `AbortTick`, `CircuitStatementFails` | a lost acknowledgement; an error or stop that ends a tick; an error that is only logged |
| `FetchMessage` ... `Commit` | `ProcessOne`, in the order of `worker.go` |
| `InsertConflict` | `UNIQUE (delivery_id, sequence)` rejects the attempt |
| `StatementFails`, `Crash` | the error paths of `process`; the end of the process |
| `Rewind`, `Rebalance` | the consumer group starts again at its committed offset, or where `StartOffset` says |
| `ResurrectExpiredLeases` | the first half of `Reaper.Tick` |
| `LeaseExpires`, `BackoffElapses`, `SuspensionElapses` (and `...Early`) | the clock |

Kafka is external and modelled from its use: per delivery the number of copies still to be
fetched and of copies fetched since the last commit of the partition. A commit commits all
messages of the partition fetched before; an error leaves the offset where it is and the
consumer goes on. Order within a partition is left open, so every order is covered.

`Submit` assumes that a tenant's producer waits for an answer before it submits the next
event. `created_at` is the start of the transaction, so overlapping submissions may become
visible in the other order; feature 003 defines the order by the acknowledgement, which
does not order overlapping requests.

**DeliveryLifecycle** states the moves the methods of `domain.Delivery` allow, plus the
reaper's. The store never calls those methods. `LifecycleRefined` says that the pipeline
makes only these moves nevertheless.

**EventSubmission.** A request goes through the statements of one READ COMMITTED
transaction; what it writes is visible at `Commit`. `start` is the transaction's `NOW()`, a
little later than the arrival of the request, whose endpoint and tenant are looked up first.
`overtaken` is history: the requests whose record the purge deleted, by a newer clock, before
they looked for it.
`lockKey` may map two keys to one lock. A failing `Commit` may or may not have committed:
`Commit` with answer `error` is the first case, `Fail` the second.

**DlqReplay.** A call goes through the statements of `Replay` or `BulkReplay`; beside it a
coarse pipeline changes statuses. `Redelivered` is what `worker.go` does with a repeated
message (see the finding on `post_after_terminal`). `before`, `after`, `skipped` and
`repeated` are history. A failed replay and its source are both listed, so one bulk replay
may schedule two deliveries of an event (`delivery_store.go:369`); no document says otherwise.

**RetrySchedule.** `Delay(n)` is the set of waits the code may draw before attempt `n`, in
the integer arithmetic of `time.Duration`. It has no state; `WaitsGrow` is proved, and
`MCDeliveryPipeline` has TLC evaluate the entries that can be enumerated.

**EndpointRegistry.** A request is accepted, read (or refused), takes a connection for each
statement, and answers. `InsertTenant`, `CheckTenant`, `InsertEndpoint` and `UpdateSecret`
are the statements of `Create`, `Register` and `RotateSecret`. Random secrets never repeat,
so the secret a request draws is named by the request. A body, name, URL or ID that is not
valid is one nondeterministic branch of `Read`. Three things may go wrong:
`StatementFails` (no effect, handler told), `StatementUnknown` (the connection is lost: the
statement was committed, or it `GoesOn` and `CommitsLate` commits it after the handler was told
of an error), `ResponseLost`. A signer is a worker reduced to what concerns the secret: it takes a
message, loads the secret with the delivery, signs. `after`, `stored` and `retired` are history.

**DlqListing.** `order` is the list without LIMIT and OFFSET; a walk asks for page 1, 2, ...
until a page has no next one. It is sorted by `updated`, descending, and by nothing else:
`TiesSwap` puts two neighbours of one time in the other order, as the sort of the next query
may. Meanwhile deliveries fail (`Fails`, with any time, because `updated_at` is read before
the commit) and repeated messages remove entries (`Departs`) or move them (`FailsAgain`).

**ApiServer.** `runAPI`, `Start` and `shutdown`, from the flags to the exit code. `net/http` and
`pgxpool` are external: `Shutdown` closes the listener and waits for active requests until the
deadline, without stopping them; `Close` refuses new statements and waits for those under way.

**ApiProcess** composes the three: requests and walks start while the listener serves,
statements get a connection while the pool is open, `Shutdown` waits for the active requests,
`pool.Close` for the connections in use, and the exit cuts off what is left.

## 3. Runs

Passing runs:

| Run | Faults and fairness | Properties |
|---|---|---|
| `redelivery` | crash, rebalance, early lease | `TypeOK`, `OneAttemptAtATime`, `AttemptNumbering`, `TenantOrder`, `StatusExplained`, `BudgetUntilEnd` |
| `circuit` | unacknowledged publish, stalled worker, failing scheduler statement | `CircuitConsistent` |
| `recovery` | aborted tick, failing statements of the worker except the final UPDATE; circuits off, start at the last offset; fair | `RetryBudget`, `AttemptsComplete`, `NoPostAfterTerminal`, `LifecycleRefined`, `EventuallyTerminal` |
| `circuit_recovery` | aborted tick, failing circuit statement of the scheduler; fair | `CircuitRespected`, `EventuallyTerminal`, `HalfOpenResolves` |
| `submission` | failing statement at any point, lost commit; fair | `TypeOK`, `AnswersExplained`, `WindowRespected`, `EveryRequestAnswered` |
| `dlq_replay` | failing statements and reads, repeated messages; fair | `TypeOK`, `OneActiveReplay`, `SourceFailed`, `BulkCovered`, `CallsEnd` |
| `api` | failing statements, lost connections and answers, failing boot and listeners, signals, slow clients; fair | `TypeOK`, `LastRotationWins`, `ActiveSecretAccounted`, `FreshSignatures`, `PagesCover`, `CleanExitLosesNothing`, `StopEnds` |

Runs that show a disagreement (`findings` in `PROJECT.json` quotes the lines):

| Run | What it shows |
|---|---|
| `lost_attempt` | After a crash between the INSERT of an attempt and the UPDATE of its delivery, every retry inserts the same sequence number and fails: the delivery, and the tenant behind it, never ends. |
| `post_after_terminal` | A lease that runs out while the message waits leads to a POST for a delivery that has ended: the worker does not look at the status. |
| `half_open_stuck` | A failing circuit UPDATE of a worker leaves an endpoint half_open with a finished probe; nothing replaces it. |
| `bulk_retry` | A repeated bulk replay replays again what the first call replayed, once that replay has ended. |
| `stale_secret` | A worker signs with the secret it loaded before it inserted the attempt; a rotation persisted in between does not reach the signature. `FreshSignatures` states what does hold: a call that begins after the answer never signs with a retired secret. |

More differences are visible in the code without a run. `Claim` sets `expires_at` to
`NOW() + interval '24 hours'`, and `NOW()` is the start of the transaction, while FR-009
(`specs/002-signature-idempotency/spec.md:255`) counts the 24 hours from the response; the
window is shorter by the time the transaction took. `BulkReplay` passes over any error of
`GetByID` in its loop (`dlq_service.go:200`), so a failing query drops a delivery from a call
that is answered 202: `BulkCovered` counts these reads as `skipped` and says that nothing else
is dropped. The plan of 004 (`specs/004-dlq-replay/plan.md:268`) takes every attempt of an ended
delivery to be completed, but a failing `UpdateOutcome` is only logged (`worker.go:134`):
`AttemptsComplete` allows one incomplete attempt for each such failure and no other.

Two properties except a case in which the code misses what a document says, and say that it is
the only one:

- *The purge overtakes a request.* Scenario 5 of user story 2 and SC-003 of 002
  (`specs/002-signature-idempotency/spec.md:86-89`, `:314`) promise the original response to a
  submission that arrives in the window. `Lookup` compares with the `NOW()` of its
  transaction, the purge (`delivery_store.go:423`) with its own. A request that begins at the
  last moment of a window and waits for the advisory lock can find the record purged, and
  creates a second delivery. Without the second disjunct of `WindowRespected`, TLC finds this
  in `submission`: `a` commits, `b` begins in the window and takes the lock, the clock
  passes the end of the window, the purge runs, `b` finds nothing and commits. The
  second delivery always comes after the end of the window.
- *Ties of the list.* `ORDER BY d.updated_at DESC` (`delivery_store.go:296`) does not order
  deliveries of one `updated_at`. PostgreSQL may return them in another order for another
  OFFSET, and a walk then shows one twice and misses the other, although nothing was moved.
  Without `\ walk.swapped`, TLC finds this for `PagesCover` with two deliveries and pages of
  one. `updated_at` has microseconds and each outcome is an UPDATE of one row, so ties are rare.

Hazards that no run covers, checked once by hand with TLC or left open:

- *Stale circuit state* (`worker.go:156`). In the instance of `half_open_stuck` with two
  workers and the faults `publish` and `stall` instead of a failing UPDATE, `HalfOpenResolves`
  is violated: a repeated message is loaded while the circuit is open, the suspension ends, the
  delivery becomes the probe, and its permanent failure is judged by the state loaded before,
  so the circuit stays half_open with a finished probe. The disagreement is the one of
  `half_open_stuck` (FR-016 of 003), reached without a failing statement.
- *Start offset* (`queue/consumer.go:37`). In the instance of `recovery` with the faults
  `rebalance` and `load` and three responses, `EventuallyTerminal` holds with
  `StartOffset = "last"`: what a rebalance before the first commit skips comes back through its
  lease. `recovery` itself has no rebalance, because `NoPostAfterTerminal` and
  `LifecycleRefined` do not hold with one.
- *Source of a replay* (`dlq_service.go:138`). A repeated message may move the source between
  the check of its status and the INSERT; `SourceFailed` excepts such sources.
- *Refused reschedule* (`delivery_store.go:154`). The outcome that is lost when the unique
  index refuses a repeated replay is not modelled (section 6).

The plan of 003 (`specs/003-order-circuit-breaker/plan.md:592`) argues that two schedulers
race safely, from the claim and from `ProcessExpiredSuspensions`. Step 0a is not part of that
argument, and `CircuitRespected` needs one scheduler. With `Schedulers = {s1, s2}`,
`Threshold = 1` and no faults, otherwise the instance of `circuit_recovery`, TLC finds a
violation: one scheduler selects a probe and is slow before the UPDATE; meanwhile that
probe ends, the circuit opens again, becomes half_open with another probe, and the other
scheduler publishes that one; then the late `SetProbe` replaces it, and the POST goes to a half_open
endpoint for a delivery that is not its probe. `CircuitConsistent` holds all the same.

**Bounds.** `MaxFaults` bounds the faults of each kind; one of each kind at a time lets any
two or three kinds combine, which is what the interesting interleavings need. `MaxCopies`
= 2 copies of a message is one more than any single fault creates, and counts saturate
there. `MaxSequence` = 6 is at least twice the attempt budget: no run reaches it, so the guard
in `LoadForWorker` cuts nothing off. Two deliveries of a tenant suffice for order, three on
two endpoints for a probe that waits behind another endpoint. Budget 2 or 3 stands for 9:
the code compares with the budget and uses no other value. Two workers suffice for a race on one
delivery; a third would find the same UNIQUE conflict. In `submission` two requests on keys that
share a lock and a clock of three units with a window of one let a key be used, expire, be
purged or overwritten and be used again while the other request waits; the theorems cover more
requests. In the replay runs two calls and three replays let a call meet another
call's replay and the replay of a replay; `MaxRepeats` bounds the messages that are processed
again. In `api` two requests of any kind overlap on one tenant and one endpoint, and `IdLeft`
keeps INSERTs to the IDs there are; three deliveries with any of three times, pages of one or
two and one entry moved (`MaxDepartures`) give walks of several pages that lose an entry, with
and without ties. `MixedClients = FALSE` keeps walks apart from requests, and signing and walks
apart from the end of the process: they share no variable but the server's, and the theorems
hold for the mixed behaviours too. Workers are
symmetric in `redelivery` and `circuit`, which check no liveness.

**Deadlock** is checked except in the replay and API runs: operators make finitely many calls
in the first, the process exits in the second, and the system may then stop. The pipeline and the submission runs never stop: the
reaper ticks.

**Fairness.** The loops of scheduler, reaper and worker run until the process is told to
stop, and each call they make returns: the HTTP client has a timeout of 30 s, statements and
Kafka calls return or fail. Hence weak fairness of a scheduler's tick, of a worker's call,
of the reaper and of fetching each message that is in the topic (a worker is never kept from
a partition for ever). Clocks advance: a lease nobody works under, a backoff and a
suspension end. Nothing is owed by faults, submissions, early expiries or operators. For a
submission, weak fairness of a request includes taking a free lock: PostgreSQL serves waiters
in order. For the API process: the server's own steps are taken, ten seconds pass, and a
statement that has a connection returns. A client owes nothing, neither the rest of its request
nor reading its answer.

## 4. Proofs

All theorems hold for every value of the constants that satisfies the modules' ASSUMEs
(types, distinct null values, a positive threshold, non-empty payload and endpoint sets), and
for every fault bound. The ones that fail once certain faults have happened (section 3 has
the counterexamples) say so in their statement:

- `faults["record"] = 0`: no `UpdateOutcome` has failed yet. With one failure a counted
  attempt has no outcome that could explain the status.
- `MessagesOnce`: no crash, rebalance, early lease or unacknowledged publish so far. Failing
  statements of the worker, aborted ticks, failing circuit statements of the scheduler and
  stalled workers are still allowed. `post_after_terminal` and `lost_attempt` show what the others do.
- `OneScheduler`, `DistinctTimes` (no two deliveries of an endpoint share `created_at`):
  conditions on the constants, for `CircuitIsRespected` only.

The instances of `recovery` and `circuit_recovery` satisfy the last two conditions in every
behaviour, that of `redelivery` the first.

| Theorem | Module | Inductive invariant |
|---|---|---|
| `TypeCorrect`: `[]TypeOK` | `DeliveryPipeline_proofs` | `TypeOK` itself |
| `SerialAttempts`: `[]OneAttemptAtATime`, `GaplessNumbering`: `[]AttemptNumbering` | `AttemptSafety_proofs` | `AttemptInv` |
| `OutcomesComplete`: `[]AttemptsComplete` | `AttemptSafety_proofs` | `LossInv` |
| `StatusIsExplained`: `[](faults["record"] = 0 => StatusExplained)` | `AttemptSafety_proofs` | `OutcomeInv` and `LossInv` |
| `BudgetBeforeEnd`: `[]BudgetUntilEnd` | `AttemptSafety_proofs` | itself, with `OutcomeInv` |
| `BudgetKept`: `[](MessagesOnce => RetryBudget)` | `AttemptSafety_proofs` | itself, with `OutcomeInv` and `HandInv` |
| `EndedStaysSilent`: `[]MessagesOnce => NoPostAfterTerminal` | `AttemptSafety_proofs` | `HandInv` |
| `StoreImplementsLifecycle`: `[]MessagesOnce => LifecycleRefined` | `AttemptSafety_proofs` | `HandInv`; every step is one of the abstract machine's or a stutter |
| `TenantOrderHolds`: `[]TenantOrder` | `OrderSafety_proofs` | `OrderInv` |
| `CircuitColumnsAgree`: `[]CircuitConsistent` | `CircuitSafety_proofs` | `CircuitConsistent /\ ProbeSelected` |
| `CircuitIsRespected`: `[]MessagesOnce => CircuitRespected`, with `OneScheduler`, `DistinctTimes` | `CircuitSafety_proofs` | `AdmittedInv`, with `HandInv` and `OrderInv` |
| `IdempotentSubmission`: `WindowRespected` | `EventSubmission_proofs` | `SubmissionInv` |
| `AnswersAreExplained`: `[]AnswersExplained` | `EventSubmission_proofs` | `SubmissionInv /\ AnswerInv` |
| `OneActiveReplayHolds`: `[]OneActiveReplay` | `DlqReplay_proofs` | with the types and a chosen target |
| `SourceRemainsFailed`: `[]SourceFailed` | `DlqReplay_proofs` | with what a call has already checked |
| `BulkReplayCovers`: `[]BulkCovered` | `DlqReplay_proofs` | `CoverInv` |
| `ReplayTypeCorrect`, `SubmissionTypeCorrect`, `ApiTypeCorrect`: `[]TypeOK` | the three proof modules | the types; for replays with the target of a call |
| `RotationsTakeEffect`: `[]LastRotationWins`, `SecretsAccounted`: `[]ActiveSecretAccounted` | `ApiProcess_proofs` | `SecretInv` |
| `SignaturesFresh`: `[]FreshSignatures` | `ApiProcess_proofs` | `SecretInv /\ SignerInv` |
| `CleanExits`: `[]CleanExitLosesNothing` | `ApiProcess_proofs` | `ExitInv` |
| `WalksCover`: `[]PagesCover` | `ApiProcess_proofs` | `PagesInv` |
| `RetriesSpreadOut`: every attempt satisfies `WaitsGrow` | `RetrySchedule` | none: arithmetic, with the bounds of the jitter as a lemma |

- *Attempts.* Two workers can exclude each other only through the UNIQUE constraint. The
  invariant adds `AttemptOwned`: a worker in an attempt has number `attempt_count + 1` and its row
  exists, so any other worker that has read the same count will conflict, and the one that
  owns the attempt is the only one that can move the count.
- *Outcomes.* The set of incomplete attempts grows when an attempt is counted, two statements
  after the `UpdateOutcome` that failed. `LossInv` therefore counts an attempt as lost
  as soon as a worker is past `UpdateOutcome` and its row is still started; the count can only
  grow at the failing statement. A second worker cannot add to it: by `AttemptInv` it is not in the
  same attempt.
- *Status.* `OutcomeKept` ties the row of an attempt to the outcome its worker carries to
  the UPDATE of the delivery, `ExplainedUnlessLost` says that the last counted attempt
  explains the status if it has an outcome, and `LossInv` that it has one.
- *One holder.* A batch, a message and a worker before its UPDATE each entitle somebody to one
  attempt. `SingleHand` says that a delivery has at most one of the three, that it is in
  flight under a live lease while it has one, and that an ended delivery remains ended.
  The reaper and `ClaimReady` then cannot create a second one, and the unconditional UPDATEs
  of the worker start from `in_flight`, as the methods of `domain.Delivery` demand.
- *Budget.* An unfinished delivery has counted fewer than `MaxAttempts`
  (`ExplainedUnlessLost`), so the next number is within the budget. That is
  `BudgetUntilEnd`, with every fault; a single holder extends it to ended deliveries, which then
  have no attempt at all.
- *Order.* `TenantOrder` speaks of started attempts, the check is made at the claim.
  `OnlyReleasedInPipeline` carries it over: whatever is in flight, in a batch, in the topic,
  uncommitted, in a worker or attempted was released, and `everTerminal` only grows.
- *Circuit.* `ProbeSelected` is needed because the probe is selected in one step and
  assigned in another.
- *Circuit respected.* Only the claim looks at the circuit, the POST comes many steps later.
  `Admitted` says that what was claimed and is not POSTed yet is still admitted. Nothing
  else moves that circuit: by `HandInv` and the tenant order an endpoint has at
  most one held delivery (`HeldIsOldest`; with equal `created_at` two could be claimed
  together), so no other worker reports an outcome for it. That leaves the scheduler: the
  second conjunct says that a probe selected and not assigned yet is the delivery on its way, if
  there is one.
- *Submission.* The invariant says who may be past the lock (`LockHeld`), that a committed
  record is complete and names a committed request (`RecordsComplete`, `RowOwned`), that the
  record stays while its window lasts (`Retained`), and that a request that has found no live
  record has only ended windows before it (`WindowsOver`). Ended means by the request's own
  clock, or, if the purge has overtaken it, by the clock (`Over`). `Guarded` says the same
  of a request that has not looked yet: every earlier window is over in this sense, or its
  record is there. The purge is the only step that removes a record, and it notes whom it
  overtakes; from the lookup to the commit the lock keeps other requests of the key away.
- *Answers.* `AnswerInv` adds that a committed record carries the key and the payload of the
  delivery it names (`RecordsExplained`), that the row a transaction is about to commit carries
  its own payload (`RowPayload`, which rests on `Vacant`: the claim never meets a live row), and
  that nobody has an answer before the end (`Unanswered`).

- *Replays.* `SourceFailed` excepts a source whose own message was processed again
  (`repeated`), which is the only step that moves a terminal delivery; a call that has read
  its target has seen it failed, and every replay it makes rests on that.
- *Bulk replay.* `SnapshotCovered` says that every listed delivery the loop is done with is
  covered or was skipped. An entry counts as covered when `CreateForReplay` or the unique index shows a
  replay; `BeforeTerminal` says that what had ended when the list was read is still ended unless its
  message came back, so the replay that made the index refuse is one under way during the
  call.
- *Secrets.* A secret is active only if its request is past its statement (`ActiveStored`),
  and the requests that had been answered when a request was accepted are over (`AfterDone`).
  So once a rotation's statement has run, whatever is active was written by a request not
  answered before it began (`Superseded`), except for late commits, which `Settled` excludes.
- *Signatures.* `Retired` only grows, and a signer loads after it has noted what is retired;
  the active secret is never retired, so neither is the loaded one.
- *Exit.* The listener stays closed after the select (`ListenerClosed`), so `Shutdown`
  returning without error means no request is active from then on (`Drained`), and the pool is
  closed after it; an exit code of 0 needs exactly that (`Uncut`).
- *Pages.* The deliveries of the start that are neither shown nor listed behind the pages
  already read (`Hidden`) are at most as many as the entries moved: an entry that fails
  shifts the others backwards, towards pages still to come, and a departure shifts at
  most one across the boundary. Entries that change places move nobody else, and are
  not counted.

Model-checked only: liveness under fairness (`EventuallyTerminal`, `HalfOpenResolves`,
`EveryRequestAnswered`, `CallsEnd`, `StopEnds`), which is out of the prover's reach. Every
invariant and every action property of a passing run is stated by a theorem.

## 5. Not modelled

- Reads without effect: delivery, circuit, endpoint and tenant queries, `Detail`. Where the
  only attempt of a delivery is incomplete, `Detail` reports the zero time as `failed_at` and
  `List` falls back to `updated_at`.
- The start and stop of `worker` and `scheduler`: their loops are in `DeliveryPipeline`, where
  a stop between two statements is a crash or an aborted tick.
- Middleware, response types, environment parsing, logs, metrics, pprof, migrations (but for
  the tables, defaults and constraints the statements rely on).
- The HMAC itself and the syntax of names, URLs and bodies.
- The poison-pill branch of `ProcessOne`: the scheduler is the only publisher.
- Overlapping submissions of one tenant (section 2).

## 6. Plan

Done: `DeliveryStore`, `CircuitStore`, `DeliveryPipeline` and its refinement of
`DeliveryLifecycle`; `EventSubmission`; `DlqReplay`; `RetrySchedule`; the API process with
registration, rotation, signing, DLQ pages and shutdown; the theorems of section 4, which
cover every safety property of the runs.

Left:

1. Replay composed with the pipeline: replays as deliveries with attempts, and the unique
   index refusing a `Reschedule`.
2. Overlapping submissions against `ClaimReady`: what order remains.
3. What two schedulers still guarantee about POSTs to a half_open endpoint.
