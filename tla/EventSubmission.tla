-------------------------- MODULE EventSubmission ---------------------------
(***************************************************************************)
(* POST /v1/events with an Idempotency-Key: the handler, the transaction   *)
(* of EventService.Submit with its advisory lock and its idempotency       *)
(* record, and the reaper's purge of expired records.                      *)
(*                                                                         *)
(* A key stands for a pair (endpoint_id, idempotency_key), a payload for   *)
(* the hash of a raw body. A request creates at most one event and one     *)
(* delivery, so the request names them.                                    *)
(*                                                                         *)
(* Transactions are READ COMMITTED: what one writes is seen by the others  *)
(* when it commits, and NOW() is the moment it began, however long it      *)
(* waited for the lock. The clock counts in units of which Window make up  *)
(* the 24 hours of a record.                                               *)
(***************************************************************************)
EXTENDS Naturals

CONSTANTS Requests,
          NoRequest,
          Keys,
          NoKey,      \* no Idempotency-Key header
          Payloads,
          LockKeys,
          lockKey,    \* the hash that names the advisory lock of each key
          Window,     \* interval '24 hours' of Claim
          MaxNow      \* bound: the clock

ASSUME WindowAssumption == Window \in Nat /\ MaxNow \in Nat
ASSUME NamesAssumption == NoRequest \notin Requests /\ NoKey \notin Keys
\* Two keys may have the same hash.
ASSUME LockAssumption == lockKey \in [Keys -> LockKeys]
ASSUME PayloadAssumption == Payloads # {}

VARIABLES now,
          record,   \* table idempotency_records, as committed
          lock,     \* holder of each advisory lock
          request,  \* the call of eventHandler.Submit each request is in
          created,  \* requests whose event and delivery are committed
          overtaken \* requests whose record was purged before their Lookup, though
                    \* it is valid by their NOW(); history

vars == <<now, record, lock, request, created, overtaken>>

\* A row of idempotency_records. names: the event and the delivery it points to,
\* NoRequest while they are NULL.
Row == [present: BOOLEAN, payload: Payloads, expires: Nat, names: Requests \cup {NoRequest}]

NoRow == [present |-> FALSE, payload |-> CHOOSE p \in Payloads : TRUE, expires |-> 0,
          names |-> NoRequest]

Pcs == {"new", "lock", "lookup", "claim", "insert", "complete", "commit", "done"}

Answers == {"none", "accepted", "conflict", "rejected", "error"}

\* start: NOW() of the transaction; row: the record as the transaction sees it
\* after its Claim; names: the delivery of the answer.
Call == [pc: Pcs, key: Keys \cup {NoKey}, payload: Payloads, start: Nat, row: Row,
         answer: Answers, names: Requests \cup {NoRequest}]

NewCall == [pc |-> "new", key |-> NoKey, payload |-> CHOOSE p \in Payloads : TRUE,
            start |-> 0, row |-> NoRow, answer |-> "none", names |-> NoRequest]

TypeOK ==
  /\ now \in Nat
  /\ record \in [Keys -> Row]
  /\ lock \in [LockKeys -> Requests \cup {NoRequest}]
  /\ request \in [Requests -> Call]
  /\ created \subseteq Requests
  /\ overtaken \subseteq Requests

Init ==
  /\ now = 0
  /\ record = [k \in Keys |-> NoRow]
  /\ lock = [l \in LockKeys |-> NoRequest]
  /\ request = [r \in Requests |-> NewCall]
  /\ created = {}
  /\ overtaken = {}

Becomes(r, call) == request' = [request EXCEPT ![r] = call]

\* Mutant of Release: the lock belongs to the session and outlives the transaction.
Release_Session(r) == UNCHANGED lock

\* The transaction of r ends: its advisory lock is released.
Release(r) == lock' = [l \in LockKeys |-> IF lock[l] = r THEN NoRequest ELSE lock[l]]

\* Mutant of Expired: a record that ends at this moment has expired.
Expired_AtBoundary(row, t) == row.expires <= t

Expired(row, t) == row.expires < t

-----------------------------------------------------------------------------

\* The body, the key, the endpoint or the tenant is not valid.
Reject(r) ==
  /\ request[r].pc = "new"
  /\ Becomes(r, [request[r] EXCEPT !.pc = "done", !.answer = "rejected"])
  /\ UNCHANGED <<now, record, lock, created, overtaken>>

\* The request is valid and the transaction begins.
Begin(r, k, p) ==
  /\ request[r].pc = "new"
  /\ Becomes(r, [request[r] EXCEPT !.pc = IF k = NoKey THEN "insert" ELSE "lock",
                                   !.key = k, !.payload = p, !.start = now])
  /\ UNCHANGED <<now, record, lock, created, overtaken>>

AcquireAdvisoryLock(r) ==
  /\ request[r].pc = "lock"
  /\ lock[lockKey[request[r].key]] = NoRequest
  /\ lock' = [lock EXCEPT ![lockKey[request[r].key]] = r]
  /\ Becomes(r, [request[r] EXCEPT !.pc = "lookup"])
  /\ UNCHANGED <<now, record, created, overtaken>>

\* Mutant of Lookup: the payload hash is not compared.
Lookup_AnyPayload(r) ==
  LET row == record[request[r].key]
      found == row.present /\ ~Expired(row, request[r].start) /\ row.names # NoRequest
  IN /\ request[r].pc = "lookup"
     /\ IF found
          THEN /\ Becomes(r, [request[r] EXCEPT !.pc = "done", !.answer = "accepted",
                                                !.names = row.names])
               /\ Release(r)
          ELSE /\ Becomes(r, [request[r] EXCEPT !.pc = "claim"])
               /\ UNCHANGED lock
     /\ UNCHANGED <<now, record, created, overtaken>>

\* Mutant of Lookup: an expired record has an answer of its own.
Lookup_Gone(r) ==
  LET row == record[request[r].key]
  IN /\ request[r].pc = "lookup"
     /\ IF row.present /\ Expired(row, request[r].start)
          THEN /\ Becomes(r, [request[r] EXCEPT !.pc = "done", !.answer = "gone"])
               /\ Release(r)
          ELSE /\ Becomes(r, [request[r] EXCEPT !.pc = "claim"])
               /\ UNCHANGED lock
     /\ UNCHANGED <<now, record, created, overtaken>>

\* A complete, unexpired record answers the request, with its delivery or with a
\* conflict, and the transaction is rolled back.
Lookup(r) ==
  LET call == request[r]
      row == record[call.key]
      found == row.present /\ ~Expired(row, call.start) /\ row.names # NoRequest
  IN /\ call.pc = "lookup"
     /\ IF found
          THEN /\ Becomes(r, IF row.payload = call.payload
                               THEN [call EXCEPT !.pc = "done", !.answer = "accepted",
                                                 !.names = row.names]
                               ELSE [call EXCEPT !.pc = "done", !.answer = "conflict"])
               /\ Release(r)
          ELSE /\ Becomes(r, [call EXCEPT !.pc = "claim"])
               /\ UNCHANGED lock
     /\ UNCHANGED <<now, record, created, overtaken>>

\* INSERT ... ON CONFLICT DO UPDATE ... WHERE expires_at < NOW().
Claim(r) ==
  LET call == request[r]
      row == record[call.key]
  IN /\ call.pc = "claim"
     /\ Becomes(r, [call EXCEPT
                      !.pc = "insert",
                      !.row = IF row.present /\ ~Expired(row, call.start)
                                THEN row
                                ELSE [present |-> TRUE, payload |-> call.payload,
                                      expires |-> call.start + Window, names |-> NoRequest]])
     /\ UNCHANGED <<now, record, lock, created, overtaken>>

\* The INSERTs into events and deliveries, not visible before the commit.
InsertRows(r) ==
  /\ request[r].pc = "insert"
  /\ Becomes(r, [request[r] EXCEPT !.pc = IF request[r].key = NoKey THEN "commit"
                                                                   ELSE "complete"])
  /\ UNCHANGED <<now, record, lock, created, overtaken>>

Complete(r) ==
  /\ request[r].pc = "complete"
  /\ Becomes(r, [request[r] EXCEPT !.pc = "commit", !.row.names = r])
  /\ UNCHANGED <<now, record, lock, created, overtaken>>

\* What was written becomes visible. The answer may still be an error: the
\* acknowledgement of the commit, or the response, is lost.
Commit(r) ==
  LET call == request[r]
  IN /\ call.pc = "commit"
     /\ created' = created \cup {r}
     /\ record' = IF call.key = NoKey THEN record ELSE [record EXCEPT ![call.key] = call.row]
     /\ Release(r)
     /\ \E answer \in {"accepted", "error"} :
          Becomes(r, [call EXCEPT !.pc = "done", !.answer = answer, !.names = r])
     /\ UNCHANGED <<now, overtaken>>

\* A statement fails, the client goes away or the process stops: the transaction,
\* if one has begun, is rolled back.
Fail(r) ==
  /\ request[r].pc # "done"
  /\ Becomes(r, [request[r] EXCEPT !.pc = "done", !.answer = "error"])
  /\ Release(r)
  /\ UNCHANGED <<now, record, created, overtaken>>

\* The record of k is locked by a transaction that has overwritten it.
RowLocked(k) ==
  \E r \in Requests : /\ request[r].pc \in {"insert", "complete", "commit"}
                      /\ request[r].key = k

\* The DELETE waits for a locked row, and finds that it no longer applies when the
\* other transaction commits.
Purgeable(k) == record[k].present /\ Expired(record[k], now) /\ ~RowLocked(k)

\* The purge of Reaper.Tick. Its NOW() is newer than that of a request that waits.
PurgeExpiredIdempotencyRecords ==
  /\ record' = [k \in Keys |-> IF Purgeable(k) THEN NoRow ELSE record[k]]
  /\ overtaken' = overtaken \cup
       {r \in Requests : /\ request[r].pc \in {"lock", "lookup"} /\ Purgeable(request[r].key)
                         /\ ~Expired(record[request[r].key], request[r].start)}
  /\ UNCHANGED <<now, lock, request, created>>

Tick ==
  /\ now < MaxNow
  /\ now' = now + 1
  /\ UNCHANGED <<record, lock, request, created, overtaken>>

-----------------------------------------------------------------------------

SubmitNext(r) ==
  \/ AcquireAdvisoryLock(r) \/ Lookup(r) \/ Claim(r) \/ InsertRows(r) \/ Complete(r)
  \/ Commit(r)

Next ==
  \/ \E r \in Requests : Reject(r) \/ Fail(r) \/ SubmitNext(r)
  \/ \E r \in Requests, k \in Keys \cup {NoKey}, p \in Payloads : Begin(r, k, p)
  \/ PurgeExpiredIdempotencyRecords
  \/ Tick

Spec == Init /\ [][Next]_vars

\* Every statement returns, and the holder of a lock releases it when it ends.
FairSpec == Spec /\ \A r \in Requests : WF_vars(SubmitNext(r))

-----------------------------------------------------------------------------
(* Properties                                                              *)

\* When the window of a's record ends.
WindowEnd(a) == request[a].start + Window

\* Scenario 5 of user story 2, SC-003 and SC-006 of 002-signature-idempotency: a request
\* that begins in the window of a delivery creates no second one for its key, however
\* long it waits for the lock (idempotency_store.go:55, 75, 102). There is one exception:
\* the purge (delivery_store.go:423) compares with a newer clock, so it may delete the
\* record of a window that ends while the request waits. No delivery is created before
\* the window has ended, even then.
WindowRespected ==
  [][\A b \in created' \ created : \A a \in created :
       request[a].key = request[b].key /\ request[b].key # NoKey =>
         \/ WindowEnd(a) < request[b].start
         \/ b \in overtaken /\ WindowEnd(a) < now]_vars

\* FR-007, FR-008 and FR-010 of 002-signature-idempotency: an accepted request is
\* answered with a delivery that is committed and was submitted under the same key with
\* the same payload, and a conflict means that another payload was accepted for
\* the key (event_service.go:75-82).
AnswersExplained ==
  \A r \in Requests :
    /\ request[r].answer = "accepted" =>
         /\ request[r].names \in created
         /\ request[request[r].names].key = request[r].key
         /\ request[request[r].names].payload = request[r].payload
    /\ request[r].answer = "conflict" =>
         \E a \in created : /\ request[a].key = request[r].key
                            /\ request[a].payload # request[r].payload

\* A request whose transaction began is answered, whoever holds the lock before it.
EveryRequestAnswered ==
  \A r \in Requests : request[r].pc # "new" ~> request[r].pc = "done"
=============================================================================
