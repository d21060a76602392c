----------------------- MODULE EventSubmission_proofs -----------------------
(***************************************************************************)
(* For every number of requests, keys and payloads, every hash of the keys *)
(* to advisory locks and every length of the window: a request that begins *)
(* in the window of a delivery creates no second one for its key, unless   *)
(* the purge overtakes it.                                                 *)
(***************************************************************************)
EXTENDS EventSubmission, TLAPS

\* The transaction of r holds the advisory lock of its key.
Inside(r) == /\ request[r].pc \in {"lookup", "claim", "insert", "complete", "commit"}
             /\ request[r].key # NoKey

\* The lookup of r found no record, and nothing is created for its key before
\* it ends.
Missed(r) == /\ request[r].pc \in {"claim", "insert", "complete", "commit"}
             /\ request[r].key # NoKey

\* r has overwritten the record.
Claimed(r) == /\ request[r].pc \in {"insert", "complete", "commit"}
              /\ request[r].key # NoKey

\* r has begun and has not looked for a record yet.
Waiting(r) == request[r].pc \in {"lock", "lookup"}

\* The window of a had ended when r began, or it has ended since and r was overtaken.
Over(a, r) == \/ WindowEnd(a) < request[r].start
              \/ r \in overtaken /\ WindowEnd(a) < now

\* NOW() of a transaction is not after the clock, and created requests are over.
TimesAgree == /\ \A r \in Requests : request[r].start <= now
              /\ \A a \in created : request[a].pc = "done"

\* Whoever is between the lock and its release holds it.
LockHeld == \A r \in Requests : Inside(r) => lock[lockKey[request[r].key]] = r

\* A waiting request has a key.
KeyPresent == \A r \in Requests : request[r].pc \in {"lock", "lookup", "claim", "complete"}
                                    => request[r].key \in Keys

\* Committed records name a delivery.
RecordsComplete == \A k \in Keys : record[k].present => record[k].names # NoRequest

\* Once its lookup has missed, the record of r's key is absent or has expired.
Vacant == \A r \in Requests : Missed(r) => \/ ~record[request[r].key].present
                                           \/ record[request[r].key].expires < request[r].start

\* Until its lookup, the windows of r's key are over or the record is there to be found.
Guarded == \A r \in Requests : Waiting(r) =>
             \A a \in created : request[a].key = request[r].key =>
               \/ Over(a, r)
               \/ /\ record[request[r].key].present
                  /\ record[request[r].key].expires >= request[r].start

\* Once its lookup has missed, all windows of r's key are over.
WindowsOver == \A r \in Requests : Missed(r) =>
                 \A a \in created : request[a].key = request[r].key => Over(a, r)

\* The row r has written is its own.
RowOwned == \A r \in Requests : Claimed(r) =>
              /\ request[r].row.present
              /\ request[r].row.expires = WindowEnd(r)
              /\ request[r].pc = "commit" => request[r].row.names = r

\* Until its window ends, a created delivery is covered by the record of its key.
Retained == \A a \in created : request[a].key # NoKey =>
              \/ WindowEnd(a) < now
              \/ /\ record[request[a].key].present
                 /\ record[request[a].key].expires >= WindowEnd(a)

SubmissionInv ==
  /\ TypeOK /\ TimesAgree /\ LockHeld /\ KeyPresent /\ RecordsComplete
  /\ Vacant /\ Guarded /\ WindowsOver /\ RowOwned /\ Retained

-----------------------------------------------------------------------------

\* NoRow is a row, and the first call is a call.
LEMMA NewIsCall == NoRow \in Row /\ NewCall \in Call
<1>1. (CHOOSE p \in Payloads : TRUE) \in Payloads
  BY PayloadAssumption
<1>2. NoRow \in Row
  BY <1>1 DEF NoRow, Row
<1>3. QED
  BY <1>1, <1>2 DEF NewCall, Call, Pcs, Answers

\* Updating the call of one request, and releasing its lock, keep their types.
LEMMA UpdateTypes ==
  ASSUME TypeOK, NEW r \in Requests, NEW call \in Call
  PROVE  /\ Becomes(r, call) => request' \in [Requests -> Call]
         /\ Release(r) => lock' \in [LockKeys -> Requests \cup {NoRequest}]
BY DEF TypeOK, Becomes, Release

\* TypeOK is inductive, given that a request that reads a record has a key.
LEMMA TypeStep == TypeOK /\ KeyPresent /\ [Next]_vars => TypeOK'
<1> SUFFICES ASSUME TypeOK, KeyPresent, [Next]_vars PROVE TypeOK'
  OBVIOUS
<1>1. ASSUME NEW r \in Requests, Reject(r) PROVE TypeOK'
  <2>1. [request[r] EXCEPT !.pc = "done", !.answer = "rejected"] \in Call
    BY DEF TypeOK, Call, Pcs, Answers
  <2>2. QED
    BY <1>1, <2>1, UpdateTypes DEF Reject, TypeOK
<1>2. ASSUME NEW r \in Requests, Fail(r) PROVE TypeOK'
  <2>1. [request[r] EXCEPT !.pc = "done", !.answer = "error"] \in Call
    BY DEF TypeOK, Call, Pcs, Answers
  <2>2. QED
    BY <1>2, <2>1, UpdateTypes DEF Fail, TypeOK
<1>3. ASSUME NEW r \in Requests, AcquireAdvisoryLock(r) PROVE TypeOK'
  <2>1. [request[r] EXCEPT !.pc = "lookup"] \in Call
    BY DEF TypeOK, Call, Pcs
  <2>2. lock' \in [LockKeys -> Requests \cup {NoRequest}]
    BY <1>3 DEF AcquireAdvisoryLock, TypeOK
  <2>3. QED
    BY <1>3, <2>1, <2>2, UpdateTypes DEF AcquireAdvisoryLock, TypeOK
<1>4. ASSUME NEW r \in Requests, Lookup(r) PROVE TypeOK'
  <2>1. record[request[r].key].names \in Requests \cup {NoRequest}
    <3>1. request[r].key \in Keys
      BY <1>4 DEF Lookup, KeyPresent
    <3>2. QED
      BY <3>1 DEF TypeOK, Row
  <2>2. [request[r] EXCEPT !.pc = "done", !.answer = "accepted",
                           !.names = record[request[r].key].names] \in Call
    BY <2>1 DEF TypeOK, Call, Pcs, Answers
  <2>3. [request[r] EXCEPT !.pc = "done", !.answer = "conflict"] \in Call
    BY DEF TypeOK, Call, Pcs, Answers
  <2>4. [request[r] EXCEPT !.pc = "claim"] \in Call
    BY DEF TypeOK, Call, Pcs
  <2>5. request' \in [Requests -> Call] /\ lock' \in [LockKeys -> Requests \cup {NoRequest}]
    BY <1>4, <2>2, <2>3, <2>4, UpdateTypes DEF Lookup, TypeOK
  <2>6. QED
    BY <1>4, <2>5 DEF Lookup, TypeOK
<1>5. ASSUME NEW r \in Requests, Claim(r) PROVE TypeOK'
  <2> DEFINE written == [present |-> TRUE, payload |-> request[r].payload,
                         expires |-> request[r].start + Window, names |-> NoRequest]
             kept == record[request[r].key]
             row == IF kept.present /\ ~Expired(kept, request[r].start) THEN kept ELSE written
  <2>1. request[r].key \in Keys
    BY <1>5 DEF Claim, KeyPresent
  <2>2. request[r].start \in Nat /\ request[r].payload \in Payloads
    BY DEF TypeOK, Call
  <2>3. request[r].start + Window \in Nat
    BY <2>2, WindowAssumption
  <2>4. written \in Row
    BY <2>2, <2>3 DEF Row
  <2>5. kept \in Row
    BY <2>1 DEF TypeOK
  <2>6. row \in Row
    BY <2>4, <2>5
  <2>7. Becomes(r, [request[r] EXCEPT !.pc = "insert", !.row = row])
    BY <1>5 DEF Claim
  <2>8. [request[r] EXCEPT !.pc = "insert", !.row = row] \in Call
    <3> HIDE DEF row
    <3> QED
      BY <2>6 DEF TypeOK, Call, Pcs
  <2>9. QED
    BY <1>5, <2>7, <2>8, UpdateTypes DEF Claim, TypeOK
<1>6. ASSUME NEW r \in Requests, InsertRows(r) PROVE TypeOK'
  <2>1. [request[r] EXCEPT !.pc = IF request[r].key = NoKey THEN "commit" ELSE "complete"] \in Call
    BY DEF TypeOK, Call, Pcs
  <2>2. QED
    BY <1>6, <2>1, UpdateTypes DEF InsertRows, TypeOK
<1>7. ASSUME NEW r \in Requests, Complete(r) PROVE TypeOK'
  <2>1. [request[r] EXCEPT !.pc = "commit", !.row.names = r] \in Call
    <3>1. [request[r].row EXCEPT !.names = r] \in Row
      BY DEF TypeOK, Call, Row
    <3>2. [request[r] EXCEPT !.pc = "commit", !.row = [request[r].row EXCEPT !.names = r]] \in Call
      BY <3>1 DEF TypeOK, Call, Pcs
    <3>3. QED
      BY <3>2
  <2>2. QED
    BY <1>7, <2>1, UpdateTypes DEF Complete, TypeOK
<1>8. ASSUME NEW r \in Requests, Commit(r) PROVE TypeOK'
  <2>1. PICK answer \in {"accepted", "error"} :
          Becomes(r, [request[r] EXCEPT !.pc = "done", !.answer = answer, !.names = r])
    BY <1>8, Zenon DEF Commit
  <2>2. [request[r] EXCEPT !.pc = "done", !.answer = answer, !.names = r] \in Call
    BY DEF TypeOK, Call, Pcs, Answers
  <2>3. request' \in [Requests -> Call] /\ lock' \in [LockKeys -> Requests \cup {NoRequest}]
    BY <1>8, <2>1, <2>2, UpdateTypes DEF Commit
  <2>4. record' \in [Keys -> Row]
    <3>1. request[r].row \in Row
      BY DEF TypeOK, Call
    <3>2. QED
      BY <1>8, <3>1 DEF Commit, TypeOK
  <2>5. QED
    BY <1>8, <2>3, <2>4 DEF Commit, TypeOK
<1>9. ASSUME NEW r \in Requests, NEW k \in Keys \cup {NoKey}, NEW p \in Payloads, Begin(r, k, p)
      PROVE  TypeOK'
  <2>1. [request[r] EXCEPT !.pc = IF k = NoKey THEN "insert" ELSE "lock",
                           !.key = k, !.payload = p, !.start = now] \in Call
    BY DEF TypeOK, Call, Pcs
  <2>2. QED
    BY <1>9, <2>1, UpdateTypes DEF Begin, TypeOK
<1>10. CASE PurgeExpiredIdempotencyRecords
  BY <1>10, NewIsCall DEF PurgeExpiredIdempotencyRecords, TypeOK
<1>11. CASE Tick
  BY <1>11 DEF Tick, TypeOK
<1>12. CASE UNCHANGED vars
  BY <1>12 DEF vars, TypeOK
<1>13. QED
  BY <1>1, <1>2, <1>3, <1>4, <1>5, <1>6, <1>7, <1>8, <1>9, <1>10, <1>11, <1>12
     DEF Next, SubmitNext

\* What the steps of r that create nothing have in common: the clock, the records
\* and the deliveries stay, and r keeps its key and its NOW().
StepOf(r) ==
  /\ UNCHANGED <<now, record, created, overtaken>>
  /\ request[r].pc # "done"
  /\ \A s \in Requests \ {r} : request'[s] = request[s]
  /\ request'[r].key = request[r].key
  /\ request'[r].start = request[r].start

\* Such a step leaves the times, the committed records and what covers the created
\* deliveries alone, and what a request knows of the windows unless it learns it now.
LEMMA StepKeeps ==
  ASSUME SubmissionInv, NEW r \in Requests, StepOf(r)
  PROVE  /\ TimesAgree' /\ RecordsComplete' /\ Retained'
         /\ \A a \in created : request'[a] = request[a] /\ WindowEnd(a)' = WindowEnd(a)
         /\ \A a \in created, s \in Requests : Over(a, s) => Over(a, s)'
         /\ (Waiting(r)' => Waiting(r)) => Guarded'
         /\ (Missed(r)' => Missed(r)) => WindowsOver'
<1>1. created \subseteq Requests /\ r \notin created
  BY DEF StepOf, SubmissionInv, TypeOK, TimesAgree
<1>2. \A a \in created : request'[a] = request[a]
  BY <1>1 DEF StepOf
<1>3. TimesAgree'
  BY <1>2 DEF StepOf, SubmissionInv, TimesAgree
<1>4. RecordsComplete'
  BY DEF StepOf, SubmissionInv, RecordsComplete
<1>5. Retained'
  BY <1>2 DEF StepOf, SubmissionInv, Retained, WindowEnd
<1>6. /\ \A s \in Requests : request'[s].key = request[s].key /\ request'[s].start = request[s].start
      /\ \A s \in Requests \ {r} : /\ Waiting(s)' => Waiting(s)
                                   /\ Missed(s)' => Missed(s)
  BY DEF StepOf, Waiting, Missed
<1>7. \A a \in created, s \in Requests : Over(a, s) => Over(a, s)'
  BY <1>2, <1>6 DEF StepOf, Over, WindowEnd
<1>8. (Waiting(r)' => Waiting(r)) => Guarded'
  BY <1>2, <1>6, <1>7 DEF StepOf, SubmissionInv, Guarded
<1>9. (Missed(r)' => Missed(r)) => WindowsOver'
  BY <1>2, <1>6, <1>7 DEF StepOf, SubmissionInv, WindowsOver
<1>10. QED
  BY <1>2, <1>3, <1>4, <1>5, <1>7, <1>8, <1>9 DEF WindowEnd

\* A request that ends without creating anything keeps the invariant.
LEMMA EndKeeps ==
  ASSUME SubmissionInv, TypeOK', NEW r \in Requests, StepOf(r), request'[r].pc = "done",
         Release(r) \/ UNCHANGED lock
  PROVE  SubmissionInv'
<1>1. \A s \in Requests : s # r => request'[s] = request[s]
  BY DEF StepOf
<1>2. LockHeld'
  <2> SUFFICES ASSUME NEW s \in Requests, Inside(s)'
               PROVE  lock'[lockKey[request'[s].key]] = s
    BY DEF LockHeld
  <2>1. s # r /\ request'[s] = request[s]
    BY <1>1 DEF Inside
  <2>2. lock[lockKey[request[s].key]] = s /\ request[s].key \in Keys
    BY <2>1 DEF SubmissionInv, LockHeld, Inside, TypeOK, Call
  <2>3. lockKey[request[s].key] \in LockKeys
    BY <2>2, LockAssumption
  <2>4. QED
    BY <2>1, <2>2, <2>3 DEF Release
<1>3. KeyPresent'
  BY <1>1 DEF SubmissionInv, KeyPresent
<1>4. Vacant' /\ RowOwned'
  <2>1. Vacant'
    BY <1>1 DEF StepOf, SubmissionInv, Vacant, Missed
  <2>2. RowOwned'
    BY <1>1 DEF SubmissionInv, RowOwned, Claimed, WindowEnd
  <2>3. QED
    BY <2>1, <2>2
<1>5. Guarded' /\ WindowsOver'
  BY StepKeeps DEF Waiting, Missed
<1>6. QED
  BY <1>2, <1>3, <1>4, <1>5, StepKeeps DEF SubmissionInv

\* The times of a created delivery are numbers.
LEMMA Numbers ==
  ASSUME TypeOK
  PROVE  /\ now \in Nat
         /\ \A r \in Requests : request[r].start \in Nat /\ WindowEnd(r) \in Nat
         /\ \A k \in Keys : record[k].expires \in Nat
<1>1. \A r \in Requests : request[r].start \in Nat
  BY DEF TypeOK, Call
<1>2. \A r \in Requests : WindowEnd(r) \in Nat
  <2> TAKE r \in Requests
  <2>1. request[r].start \in Nat
    BY <1>1
  <2>2. request[r].start + Window \in Nat
    BY <2>1, WindowAssumption
  <2>3. QED
    BY <2>2 DEF WindowEnd
<1>3. \A k \in Keys : record[k].expires \in Nat
  BY DEF TypeOK, Row
<1>4. QED
  BY <1>1, <1>2, <1>3 DEF TypeOK

\* A window that is over has ended.
LEMMA OverEnds ==
  ASSUME SubmissionInv, NEW a \in Requests, NEW r \in Requests, Over(a, r)
  PROVE  WindowEnd(a) < now
<1>1. /\ now \in Nat /\ WindowEnd(a) \in Nat /\ request[r].start \in Nat
      /\ request[r].start <= now
  BY Numbers DEF SubmissionInv, TimesAgree
<1>2. QED
  BY <1>1 DEF Over

\* Two requests inside with one key are one request.
LEMMA Exclusive ==
  ASSUME SubmissionInv, NEW r \in Requests, NEW s \in Requests, Inside(r), Inside(s),
         request[r].key = request[s].key
  PROVE  r = s
BY DEF SubmissionInv, LockHeld

-----------------------------------------------------------------------------

\* Whoever acquires the lock holds it alone.
LEMMA AcquireStep ==
  ASSUME SubmissionInv, TypeOK', NEW r \in Requests, AcquireAdvisoryLock(r)
  PROVE  SubmissionInv'
<1>1. request' = [request EXCEPT ![r] = [request[r] EXCEPT !.pc = "lookup"]]
  BY DEF AcquireAdvisoryLock, Becomes
<1>2. /\ request'[r].pc = "lookup" /\ request'[r].key = request[r].key
      /\ request'[r].start = request[r].start
      /\ \A s \in Requests : s # r => request'[s] = request[s]
  BY <1>1 DEF SubmissionInv, TypeOK, Call
<1>3. StepOf(r)
  BY <1>2 DEF StepOf, AcquireAdvisoryLock
<1>4. request[r].key \in Keys
  BY DEF AcquireAdvisoryLock, SubmissionInv, KeyPresent
<1>5. LockHeld'
  <2> SUFFICES ASSUME NEW s \in Requests, Inside(s)'
               PROVE  lock'[lockKey[request'[s].key]] = s
    BY DEF LockHeld
  <2>1. lock \in [LockKeys -> Requests \cup {NoRequest}] /\ lockKey[request[r].key] \in LockKeys
    BY <1>4, LockAssumption DEF SubmissionInv, TypeOK
  <2>2. lock' = [lock EXCEPT ![lockKey[request[r].key]] = r]
    BY DEF AcquireAdvisoryLock
  <2>3. CASE s = r
    BY <1>2, <2>1, <2>2, <2>3
  <2>4. CASE s # r
    <3>1. request'[s] = request[s] /\ lock[lockKey[request[s].key]] = s
      BY <1>2, <2>4 DEF SubmissionInv, LockHeld, Inside
    <3>2. lock[lockKey[request[r].key]] = NoRequest /\ s # NoRequest
      BY NamesAssumption DEF AcquireAdvisoryLock
    <3>3. lockKey[request[s].key] # lockKey[request[r].key]
      BY <3>1, <3>2
    <3>4. QED
      BY <2>1, <2>2, <3>1, <3>3
  <2>5. QED
    BY <2>3, <2>4
<1>6. KeyPresent'
  BY <1>2, <1>4 DEF SubmissionInv, KeyPresent
<1>7. Vacant'
  BY <1>2, <1>3 DEF StepOf, SubmissionInv, Vacant, Missed
<1>8. Guarded' /\ WindowsOver'
  BY <1>2, <1>3, StepKeeps DEF AcquireAdvisoryLock, Waiting, Missed
<1>9. RowOwned'
  BY <1>2 DEF SubmissionInv, RowOwned, Claimed, WindowEnd
<1>10. QED
  BY <1>3, <1>5, <1>6, <1>7, <1>8, <1>9, StepKeeps DEF SubmissionInv

\* A step of r that stays inside keeps the lock held.
LEMMA InsideKeeps ==
  ASSUME SubmissionInv, NEW r \in Requests, StepOf(r), Inside(r) \/ ~Inside(r)', UNCHANGED lock
  PROVE  LockHeld'
<1> SUFFICES ASSUME NEW s \in Requests, Inside(s)'
             PROVE  lock'[lockKey[request'[s].key]] = s
  BY DEF LockHeld
<1>1. Inside(s) /\ request'[s].key = request[s].key
  BY DEF StepOf, Inside
<1>2. QED
  BY <1>1 DEF SubmissionInv, LockHeld

\* A lookup that misses sees that every window of its key has ended.
LEMMA LookupStep ==
  ASSUME SubmissionInv, TypeOK', NEW r \in Requests, Lookup(r)
  PROVE  SubmissionInv'
<1> DEFINE row == record[request[r].key]
           found == row.present /\ ~Expired(row, request[r].start) /\ row.names # NoRequest
<1>1. request[r].key \in Keys /\ request[r].pc = "lookup"
  BY DEF Lookup, SubmissionInv, KeyPresent
<1>2. CASE found
  <2>1. PICK call \in {[request[r] EXCEPT !.pc = "done", !.answer = "accepted",
                                          !.names = row.names],
                       [request[r] EXCEPT !.pc = "done", !.answer = "conflict"]} :
          request' = [request EXCEPT ![r] = call]
    BY <1>2 DEF Lookup, Becomes
  <2>2. /\ request'[r].pc = "done" /\ request'[r].key = request[r].key
        /\ request'[r].start = request[r].start
        /\ \A s \in Requests \ {r} : request'[s] = request[s]
    BY <2>1 DEF SubmissionInv, TypeOK, Call
  <2>3. StepOf(r) /\ Release(r)
    BY <1>1, <1>2, <2>2 DEF StepOf, Lookup
  <2>4. QED
    BY <2>2, <2>3, EndKeeps
<1>3. CASE ~found
  <2>1. request' = [request EXCEPT ![r] = [request[r] EXCEPT !.pc = "claim"]] /\ lock' = lock
    BY <1>3 DEF Lookup, Becomes
  <2>2. /\ request'[r].pc = "claim" /\ request'[r].key = request[r].key
        /\ request'[r].start = request[r].start
        /\ \A s \in Requests : s # r => request'[s] = request[s]
    BY <2>1 DEF SubmissionInv, TypeOK, Call
  <2>3. StepOf(r)
    BY <1>1, <2>2 DEF StepOf, Lookup
  <2>4. Inside(r)
    BY <1>1, NamesAssumption DEF Inside
  <2>5. ~row.present \/ row.expires < request[r].start
    BY <1>1, <1>3 DEF SubmissionInv, RecordsComplete, Expired
  <2>6. KeyPresent' /\ RowOwned'
    BY <1>1, <2>2 DEF SubmissionInv, KeyPresent, RowOwned, Claimed, WindowEnd
  <2>7. Vacant'
    BY <2>2, <2>3, <2>5 DEF StepOf, SubmissionInv, Vacant, Missed
  <2>8. Guarded'
    BY <2>2, <2>3, StepKeeps DEF Waiting
  <2>9. WindowsOver'
    <3>1. ASSUME NEW a \in created, request[a].key = request[r].key PROVE Over(a, r)
      <4>1. Over(a, r) \/ (row.present /\ row.expires >= request[r].start)
        BY <1>1, <3>1 DEF SubmissionInv, Guarded, Waiting
      <4>2. row.expires \in Nat /\ request[r].start \in Nat
        BY <1>1, Numbers DEF SubmissionInv
      <4>3. QED
        BY <2>5, <4>1, <4>2
    <3>2. ASSUME NEW s \in Requests, s # r, Missed(s)' PROVE Missed(s)
      BY <2>2, <3>2 DEF Missed
    <3>3. QED
      BY <2>2, <2>3, <3>1, <3>2, StepKeeps DEF StepOf, SubmissionInv, WindowsOver
  <2>10. QED
    BY <2>1, <2>3, <2>4, <2>6, <2>7, <2>8, <2>9, StepKeeps, InsideKeeps DEF SubmissionInv
<1>4. QED
  BY <1>2, <1>3

\* A claim always overwrites: the record it finds is absent or has expired.
LEMMA ClaimStep ==
  ASSUME SubmissionInv, TypeOK', NEW r \in Requests, Claim(r)
  PROVE  SubmissionInv'
<1> DEFINE written == [present |-> TRUE, payload |-> request[r].payload,
                       expires |-> request[r].start + Window, names |-> NoRequest]
<1>1. request[r].key \in Keys /\ request[r].pc = "claim" /\ request[r].key # NoKey
  BY NamesAssumption DEF Claim, SubmissionInv, KeyPresent
<1>2. ~record[request[r].key].present \/ record[request[r].key].expires < request[r].start
  BY <1>1 DEF SubmissionInv, Vacant, Missed
<1>3. request' = [request EXCEPT ![r] = [request[r] EXCEPT !.pc = "insert", !.row = written]]
  BY <1>2 DEF Claim, Becomes, Expired
<1>4. /\ request'[r].pc = "insert" /\ request'[r].key = request[r].key
      /\ request'[r].start = request[r].start /\ request'[r].row = written
      /\ \A s \in Requests : s # r => request'[s] = request[s]
  <2> HIDE DEF written
  <2> QED
    BY <1>3 DEF SubmissionInv, TypeOK, Call
<1>5. StepOf(r) /\ Inside(r) /\ lock' = lock
  BY <1>1, <1>4 DEF StepOf, Claim, Inside
<1>6. KeyPresent'
  BY <1>4 DEF SubmissionInv, KeyPresent
<1>7. RowOwned'
  BY <1>4 DEF SubmissionInv, RowOwned, Claimed, WindowEnd
<1>8. Vacant'
  BY <1>2, <1>4, <1>5 DEF StepOf, SubmissionInv, Vacant, Missed
<1>9. Guarded' /\ WindowsOver'
  BY <1>1, <1>4, <1>5, StepKeeps DEF Waiting, Missed
<1>10. QED
  BY <1>5, <1>6, <1>7, <1>8, <1>9, StepKeeps, InsideKeeps DEF SubmissionInv

\* The INSERTs change nothing the others see.
LEMMA InsertStep ==
  ASSUME SubmissionInv, TypeOK', NEW r \in Requests, InsertRows(r)
  PROVE  SubmissionInv'
<1> DEFINE next == IF request[r].key = NoKey THEN "commit" ELSE "complete"
<1>1. request' = [request EXCEPT ![r] = [request[r] EXCEPT !.pc = next]]
  BY DEF InsertRows, Becomes
<1>2. /\ request'[r].pc = next /\ request'[r].key = request[r].key
      /\ request'[r].start = request[r].start /\ request'[r].row = request[r].row
      /\ \A s \in Requests : s # r => request'[s] = request[s]
  BY <1>1 DEF SubmissionInv, TypeOK, Call
<1>3. StepOf(r) /\ (Inside(r) \/ ~Inside(r)') /\ lock' = lock /\ request[r].pc = "insert"
  BY <1>2 DEF StepOf, InsertRows, Inside
<1>4. KeyPresent'
  BY <1>2 DEF SubmissionInv, KeyPresent, TypeOK, Call
<1>5. RowOwned'
  BY <1>2, <1>3 DEF SubmissionInv, RowOwned, Claimed, WindowEnd
<1>6. Vacant'
  BY <1>2, <1>3 DEF StepOf, SubmissionInv, Vacant, Missed
<1>7. Guarded' /\ WindowsOver'
  BY <1>2, <1>3, StepKeeps DEF Waiting, Missed
<1>8. QED
  BY <1>3, <1>4, <1>5, <1>6, <1>7, StepKeeps, InsideKeeps DEF SubmissionInv

\* The record written by a transaction names its own delivery.
LEMMA CompleteStep ==
  ASSUME SubmissionInv, TypeOK', NEW r \in Requests, Complete(r)
  PROVE  SubmissionInv'
<1>1. request' = [request EXCEPT ![r] = [request[r] EXCEPT
                                           !.pc = "commit",
                                           !.row = [request[r].row EXCEPT !.names = r]]]
  BY DEF Complete, Becomes
<1>2. request[r].row \in Row
  BY DEF SubmissionInv, TypeOK, Call
<1>3. /\ request'[r].pc = "commit" /\ request'[r].key = request[r].key
      /\ request'[r].start = request[r].start
      /\ request'[r].row = [request[r].row EXCEPT !.names = r]
      /\ \A s \in Requests : s # r => request'[s] = request[s]
  BY <1>1 DEF SubmissionInv, TypeOK, Call
<1>4. /\ request'[r].row.names = r /\ request'[r].row.present = request[r].row.present
      /\ request'[r].row.expires = request[r].row.expires
  BY <1>2, <1>3 DEF Row
<1>5. /\ StepOf(r) /\ Inside(r) /\ lock' = lock /\ request[r].pc = "complete"
      /\ request[r].key \in Keys
  BY <1>3, NamesAssumption DEF StepOf, Complete, Inside, SubmissionInv, KeyPresent
<1>6. KeyPresent'
  BY <1>3 DEF SubmissionInv, KeyPresent
<1>7. RowOwned'
  <2>1. request[r].row.present /\ request[r].row.expires = request[r].start + Window
    BY <1>5, NamesAssumption DEF SubmissionInv, RowOwned, Claimed, WindowEnd
  <2>2. \A s \in Requests : s # r /\ Claimed(s)' => Claimed(s) /\ request'[s] = request[s]
    BY <1>3 DEF Claimed
  <2>3. /\ request'[r].row.present /\ request'[r].row.names = r
        /\ request'[r].row.expires = request'[r].start + Window
    BY <1>3, <1>4, <2>1
  <2>4. QED
    BY <2>2, <2>3 DEF SubmissionInv, RowOwned, WindowEnd
<1>8. Vacant'
  BY <1>3, <1>5 DEF StepOf, SubmissionInv, Vacant, Missed
<1>9. Guarded' /\ WindowsOver'
  BY <1>3, <1>5, NamesAssumption, StepKeeps DEF Waiting, Missed
<1>10. QED
  BY <1>5, <1>6, <1>7, <1>8, <1>9, StepKeeps, InsideKeeps DEF SubmissionInv

\* A commit covers its own delivery, and no other request of its key is inside.
LEMMA CommitStep ==
  ASSUME SubmissionInv, TypeOK', NEW r \in Requests, Commit(r)
  PROVE  SubmissionInv'
<1>1. PICK answer \in {"accepted", "error"} :
        request' = [request EXCEPT ![r] = [request[r] EXCEPT !.pc = "done", !.answer = answer,
                                                             !.names = r]]
  BY Zenon DEF Commit, Becomes
<1>2. /\ request'[r].pc = "done" /\ request'[r].key = request[r].key
      /\ request'[r].start = request[r].start
      /\ \A s \in Requests : s # r => request'[s] = request[s]
  BY <1>1 DEF SubmissionInv, TypeOK, Call
<1>3. /\ now' = now /\ overtaken' = overtaken
      /\ request[r].pc = "commit" /\ created' = created \cup {r}
      /\ Release(r) /\ created \subseteq Requests
      /\ record' = IF request[r].key = NoKey THEN record
                   ELSE [record EXCEPT ![request[r].key] = request[r].row]
  BY DEF Commit, SubmissionInv, TypeOK
<1>4. \A a \in Requests : /\ request'[a].key = request[a].key
                           /\ request'[a].start = request[a].start
                           /\ WindowEnd(a)' = WindowEnd(a)
  BY <1>2 DEF WindowEnd
<1>5. request[r].key = NoKey \/ (request[r].key \in Keys /\ Inside(r) /\ Missed(r) /\ Claimed(r))
  BY <1>3 DEF SubmissionInv, TypeOK, Call, Inside, Missed, Claimed
<1>6. record \in [Keys -> Row]
  BY DEF SubmissionInv, TypeOK
<1>7. \A k \in Keys : record'[k] = IF k = request[r].key THEN request[r].row ELSE record[k]
  BY <1>3, <1>5, <1>6, NamesAssumption
<1>8. ASSUME NEW s \in Requests, s # r, Missed(s)
      PROVE  request[s].key \in Keys /\ request[s].key # request[r].key
  <2>1. request[s].key \in Keys /\ Inside(s)
    BY <1>8 DEF SubmissionInv, TypeOK, Call, Inside, Missed
  <2>2. QED
    BY <1>5, <1>8, <2>1, NamesAssumption, Exclusive
<1>9. TimesAgree'
  BY <1>2, <1>3, <1>4 DEF SubmissionInv, TimesAgree
<1>10. LockHeld'
  <2> SUFFICES ASSUME NEW s \in Requests, Inside(s)'
               PROVE  lock'[lockKey[request'[s].key]] = s
    BY DEF LockHeld
  <2>1. s # r /\ request'[s] = request[s]
    BY <1>2 DEF Inside
  <2>2. lock[lockKey[request[s].key]] = s /\ request[s].key \in Keys
    BY <2>1 DEF SubmissionInv, LockHeld, Inside, TypeOK, Call
  <2>3. lockKey[request[s].key] \in LockKeys
    BY <2>2, LockAssumption
  <2>4. QED
    BY <1>3, <2>1, <2>2, <2>3 DEF Release
<1>11. KeyPresent'
  BY <1>2 DEF SubmissionInv, KeyPresent
<1>12. RecordsComplete'
  <2>1. Claimed(r) => request[r].row.names = r /\ r # NoRequest
    BY <1>3, NamesAssumption DEF SubmissionInv, RowOwned
  <2>2. QED
    BY <1>5, <1>7, <2>1, NamesAssumption DEF SubmissionInv, RecordsComplete
<1>13. Vacant'
  <2> SUFFICES ASSUME NEW s \in Requests, Missed(s)'
               PROVE  \/ ~record'[request'[s].key].present
                      \/ record'[request'[s].key].expires < request'[s].start
    BY DEF Vacant
  <2>1. s # r /\ Missed(s) /\ request'[s] = request[s]
    BY <1>2 DEF Missed
  <2>2. record'[request[s].key] = record[request[s].key]
    BY <1>7, <1>8, <2>1
  <2>3. QED
    BY <2>1, <2>2 DEF SubmissionInv, Vacant
<1>14. \A a \in Requests, s \in Requests : Over(a, s)' <=> Over(a, s)
  BY <1>3, <1>4 DEF Over
<1>15. WindowsOver'
  <2> SUFFICES ASSUME NEW s \in Requests, Missed(s)', NEW a \in created',
                      request'[a].key = request'[s].key
               PROVE  Over(a, s)'
    BY DEF WindowsOver
  <2>1. s # r /\ Missed(s) /\ request'[s] = request[s]
    BY <1>2 DEF Missed
  <2>2. a \in Requests /\ request[a].key = request[s].key
    BY <1>3, <1>4
  <2>3. a \in created
    BY <1>3, <1>8, <2>1, <2>2
  <2>4. QED
    BY <1>14, <2>1, <2>2, <2>3 DEF SubmissionInv, WindowsOver
<1>16. Guarded'
  <2> SUFFICES ASSUME NEW s \in Requests, Waiting(s)', NEW a \in created',
                      request'[a].key = request'[s].key, ~Over(a, s)'
               PROVE  /\ record'[request'[s].key].present
                      /\ record'[request'[s].key].expires >= request'[s].start
    BY DEF Guarded
  <2>1. s # r /\ Waiting(s) /\ request'[s] = request[s]
    BY <1>2 DEF Waiting
  <2>2. a \in Requests /\ request[a].key = request[s].key /\ request[s].key \in Keys
    BY <1>3, <1>4, <2>1 DEF SubmissionInv, KeyPresent, Waiting
  <2>3. /\ ~(WindowEnd(a) < request[s].start) /\ WindowEnd(a) \in Nat /\ request[s].start \in Nat
        /\ request[r].start \in Nat /\ WindowEnd(r) = request[r].start + Window
        /\ record[request[s].key].expires \in Nat
    BY <1>14, <2>2, Numbers DEF Over, SubmissionInv, WindowEnd
  <2>4. CASE request[s].key # request[r].key
    <3>1. a \in created /\ record'[request[s].key] = record[request[s].key]
      BY <1>3, <1>7, <2>2, <2>4
    <3>2. QED
      BY <1>14, <2>1, <2>2, <3>1 DEF SubmissionInv, Guarded
  <2>5. CASE request[s].key = request[r].key
    <3>1. /\ record'[request[s].key] = request[r].row
          /\ request[r].row.present /\ request[r].row.expires = WindowEnd(r)
      BY <1>5, <1>7, <2>2, <2>5, NamesAssumption DEF SubmissionInv, RowOwned
    <3>2. CASE a = r
      BY <2>1, <2>3, <3>1, <3>2
    <3>3. CASE a # r
      <4>1. /\ record[request[s].key].present
            /\ record[request[s].key].expires >= request[s].start
        BY <1>3, <1>14, <2>1, <2>2, <3>3 DEF SubmissionInv, Guarded
      <4>2. record[request[s].key].expires < request[r].start
        BY <1>5, <2>2, <2>5, <4>1, NamesAssumption DEF SubmissionInv, Vacant
      <4>3. WindowEnd(r) >= request[s].start
        BY <2>3, <4>1, <4>2, WindowAssumption
      <4>4. QED
        BY <2>1, <3>1, <4>3
    <3>4. QED
      BY <3>2, <3>3
  <2>6. QED
    BY <2>4, <2>5
<1>17. RowOwned'
  BY <1>2 DEF SubmissionInv, RowOwned, Claimed, WindowEnd
<1>18. Retained'
  <2> SUFFICES ASSUME NEW a \in created', request'[a].key # NoKey, ~(WindowEnd(a)' < now')
               PROVE  /\ record'[request'[a].key].present
                      /\ record'[request'[a].key].expires >= WindowEnd(a)'
    BY DEF Retained
  <2>1. a \in Requests /\ request[a].key \in Keys /\ WindowEnd(a) \in Nat
    BY <1>3, <1>4, Numbers DEF SubmissionInv, TypeOK, Call
  <2>2. CASE a = r
    <3>1. request[r].row.present /\ request[r].row.expires = WindowEnd(r)
      BY <1>4, <1>5, <2>1, <2>2, NamesAssumption DEF SubmissionInv, RowOwned
    <3>2. QED
      BY <1>4, <1>7, <2>1, <2>2, <3>1
  <2>3. CASE a # r
    <3>1. a \in created /\ ~(WindowEnd(a) < now)
      BY <1>3, <1>4, <2>1, <2>3
    <3>2. request[a].key # request[r].key
      BY <1>5, <2>1, <3>1, NamesAssumption, OverEnds DEF SubmissionInv, WindowsOver
    <3>3. /\ record[request[a].key].present
          /\ record[request[a].key].expires >= WindowEnd(a)
      BY <2>1, <3>1, NamesAssumption DEF SubmissionInv, Retained
    <3>4. QED
      BY <1>4, <1>7, <2>1, <3>2, <3>3
  <2>4. QED
    BY <2>2, <2>3
<1>19. QED
  BY <1>9, <1>10, <1>11, <1>12, <1>13, <1>15, <1>16, <1>17, <1>18 DEF SubmissionInv

-----------------------------------------------------------------------------

\* The invariant is inductive.
LEMMA SubmissionStep == SubmissionInv /\ [Next]_vars => SubmissionInv'
<1> SUFFICES ASSUME SubmissionInv, [Next]_vars PROVE SubmissionInv'
  OBVIOUS
<1>1. TypeOK'
  BY TypeStep DEF SubmissionInv
<1>2. ASSUME NEW r \in Requests, Reject(r) \/ Fail(r) PROVE SubmissionInv'
  <2>1. PICK answer \in {"rejected", "error"} :
          request' = [request EXCEPT ![r] = [request[r] EXCEPT !.pc = "done", !.answer = answer]]
    BY <1>2 DEF Reject, Fail, Becomes
  <2>2. /\ request'[r].pc = "done" /\ request'[r].key = request[r].key
        /\ request'[r].start = request[r].start
        /\ \A s \in Requests \ {r} : request'[s] = request[s]
    BY <2>1 DEF SubmissionInv, TypeOK, Call
  <2>3. StepOf(r) /\ (Release(r) \/ lock' = lock)
    BY <1>2, <2>2 DEF StepOf, Reject, Fail
  <2>4. QED
    BY <1>1, <2>2, <2>3, EndKeeps
<1>3. ASSUME NEW r \in Requests, NEW k \in Keys \cup {NoKey}, NEW p \in Payloads, Begin(r, k, p)
      PROVE  SubmissionInv'
  <2> DEFINE next == IF k = NoKey THEN "insert" ELSE "lock"
  <2>1. request' = [request EXCEPT ![r] = [request[r] EXCEPT !.pc = next, !.key = k,
                                                             !.payload = p, !.start = now]]
    BY <1>3 DEF Begin, Becomes
  <2>2. /\ request'[r].pc = next /\ request'[r].key = k /\ request'[r].start = now
        /\ \A s \in Requests : s # r => request'[s] = request[s]
    BY <2>1 DEF SubmissionInv, TypeOK, Call
  <2>3. UNCHANGED <<now, record, lock, created, overtaken>> /\ request[r].pc = "new"
    BY <1>3 DEF Begin
  <2>4. /\ created \subseteq Requests /\ r \notin created
        /\ \A a \in created : request'[a] = request[a]
    BY <2>2, <2>3 DEF SubmissionInv, TypeOK, TimesAgree
  <2>5. ~Inside(r)' /\ ~Missed(r)' /\ ~Claimed(r)'
    BY <2>2 DEF Inside, Missed, Claimed
  <2>6. TimesAgree' /\ KeyPresent'
    BY <2>2, <2>3, <2>4 DEF SubmissionInv, TimesAgree, KeyPresent, TypeOK
  <2>7. LockHeld'
    BY <2>2, <2>3, <2>5 DEF SubmissionInv, LockHeld, Inside
  <2>8. RecordsComplete' /\ Vacant'
    BY <2>2, <2>3, <2>5 DEF SubmissionInv, RecordsComplete, Vacant, Missed
  <2>9. WindowsOver'
    BY <2>2, <2>3, <2>4, <2>5 DEF SubmissionInv, WindowsOver, Missed, Over, WindowEnd
  <2>10. RowOwned'
    BY <2>2, <2>5 DEF SubmissionInv, RowOwned, Claimed, WindowEnd
  <2>11. Retained'
    BY <2>3, <2>4 DEF SubmissionInv, Retained, WindowEnd
  <2>12. Guarded'
    <3> SUFFICES ASSUME NEW s \in Requests, Waiting(s)', NEW a \in created,
                        request[a].key = request'[s].key
                 PROVE  \/ Over(a, s)'
                        \/ /\ record[request'[s].key].present
                           /\ record[request'[s].key].expires >= request'[s].start
      BY <2>3, <2>4 DEF Guarded
    <3>1. CASE s # r
      BY <2>2, <2>3, <2>4, <3>1 DEF SubmissionInv, Guarded, Waiting, Over, WindowEnd
    <3>2. CASE s = r
      <4>1. a \in Requests /\ k \in Keys /\ request[a].key = k /\ k # NoKey
        BY <2>2, <2>4, <3>2, NamesAssumption DEF Waiting
      <4>2. WindowEnd(a) < now \/ (record[k].present /\ record[k].expires >= WindowEnd(a))
        BY <4>1 DEF SubmissionInv, Retained
      <4>3. now \in Nat /\ WindowEnd(a) \in Nat /\ record[k].expires \in Nat
        BY <4>1, Numbers DEF SubmissionInv
      <4>4. WindowEnd(a)' = WindowEnd(a)
        BY <2>4 DEF WindowEnd
      <4>5. QED
        BY <2>2, <3>2, <4>2, <4>3, <4>4 DEF Over
    <3>3. QED
      BY <3>1, <3>2
  <2>13. QED
    BY <1>1, <2>6, <2>7, <2>8, <2>9, <2>10, <2>11, <2>12 DEF SubmissionInv
<1>4. CASE PurgeExpiredIdempotencyRecords
  <2>1. UNCHANGED <<now, lock, request, created>>
    BY <1>4 DEF PurgeExpiredIdempotencyRecords
  <2>2. \A k \in Keys : record'[k] = record[k] \/ (~record'[k].present /\ record[k].expires < now)
    BY <1>4 DEF PurgeExpiredIdempotencyRecords, Purgeable, NoRow, Expired
  <2>3. TimesAgree' /\ LockHeld' /\ KeyPresent'
    BY <2>1 DEF SubmissionInv, TimesAgree, LockHeld, Inside, KeyPresent
  <2>4. RecordsComplete'
    BY <2>2 DEF SubmissionInv, RecordsComplete
  <2>5. Vacant'
    <3>1. \A r \in Requests : Missed(r) => request[r].key \in Keys
      BY DEF SubmissionInv, TypeOK, Call, Missed
    <3>2. QED
      BY <2>1, <2>2, <3>1 DEF SubmissionInv, Vacant, Missed
  <2>6. /\ overtaken \subseteq overtaken' /\ RowOwned'
        /\ \A a \in Requests, r \in Requests : Over(a, r) => Over(a, r)'
    BY <1>4, <2>1 DEF PurgeExpiredIdempotencyRecords, SubmissionInv, RowOwned, Claimed, Over,
                      WindowEnd
  <2>7. WindowsOver'
    BY <2>1, <2>6 DEF SubmissionInv, TypeOK, WindowsOver, Missed
  <2>8. Guarded'
    <3> SUFFICES ASSUME NEW r \in Requests, Waiting(r), NEW a \in created,
                        request[a].key = request[r].key, ~Over(a, r)'
                 PROVE  /\ record'[request[r].key].present
                        /\ record'[request[r].key].expires >= request[r].start
      BY <2>1 DEF Guarded, Waiting
    <3> DEFINE k == request[r].key
    <3>1. k \in Keys /\ k # NoKey /\ a \in Requests
      BY NamesAssumption DEF SubmissionInv, KeyPresent, Waiting, TypeOK
    <3>2. record[k].present /\ record[k].expires >= request[r].start
      BY <2>6, <3>1 DEF SubmissionInv, Guarded
    <3>3. /\ now \in Nat /\ WindowEnd(a) \in Nat /\ record[k].expires \in Nat
          /\ request[r].start \in Nat
      BY <3>1, Numbers DEF SubmissionInv
    <3>4. CASE Purgeable(k)
      <4>1. record[k].expires < now /\ r \in overtaken'
        BY <1>4, <3>2, <3>3, <3>4
        DEF PurgeExpiredIdempotencyRecords, Purgeable, Expired, Waiting
      <4>2. WindowEnd(a) < now
        BY <3>1, <3>3, <4>1 DEF SubmissionInv, Retained
      <4>3. QED
        BY <2>1, <4>1, <4>2 DEF Over, WindowEnd
    <3>5. CASE ~Purgeable(k)
      <4>1. record'[k] = record[k]
        BY <1>4, <3>1, <3>5 DEF PurgeExpiredIdempotencyRecords
      <4>2. QED
        BY <3>2, <4>1
    <3>6. QED
      BY <3>4, <3>5
  <2>9. Retained'
    <3> SUFFICES ASSUME NEW a \in created, request[a].key # NoKey, ~(WindowEnd(a) < now)
                 PROVE  /\ record'[request[a].key].present
                        /\ record'[request[a].key].expires >= WindowEnd(a)
      BY <2>1 DEF Retained, WindowEnd
    <3>1. a \in Requests /\ request[a].key \in Keys
      BY DEF SubmissionInv, TypeOK, Call
    <3>2. record[request[a].key].present /\ record[request[a].key].expires >= WindowEnd(a)
      BY DEF SubmissionInv, Retained
    <3>3. now \in Nat /\ WindowEnd(a) \in Nat /\ record[request[a].key].expires \in Nat
      BY <3>1, Numbers DEF SubmissionInv
    <3>4. QED
      BY <2>2, <3>1, <3>2, <3>3
  <2>10. QED
    BY <1>1, <2>3, <2>4, <2>5, <2>6, <2>7, <2>8, <2>9 DEF SubmissionInv
<1>5. CASE Tick
  <2>1. now' = now + 1 /\ UNCHANGED <<record, lock, request, created, overtaken>>
    BY <1>5 DEF Tick
  <2>2. /\ now \in Nat /\ created \subseteq Requests
        /\ \A r \in Requests : request[r].start \in Nat /\ WindowEnd(r) \in Nat
    BY Numbers DEF SubmissionInv, TypeOK
  <2>3. \A t \in Nat : (t < now => t < now') /\ (t <= now => t <= now')
    BY <2>1, <2>2
  <2>4. TimesAgree'
    BY <2>1, <2>2, <2>3 DEF SubmissionInv, TimesAgree
  <2>5. LockHeld' /\ KeyPresent' /\ RecordsComplete'
    BY <2>1 DEF SubmissionInv, LockHeld, Inside, KeyPresent, RecordsComplete
  <2>6. Vacant' /\ RowOwned'
    BY <2>1 DEF SubmissionInv, Vacant, Missed, RowOwned, Claimed, WindowEnd
  <2>7. \A a \in Requests : WindowEnd(a)' = WindowEnd(a)
    BY <2>1 DEF WindowEnd
  <2>8. \A a \in Requests, r \in Requests : Over(a, r) => Over(a, r)'
    BY <2>1, <2>2, <2>3, <2>7 DEF Over
  <2>9. Guarded' /\ WindowsOver'
    <3>1. Guarded'
      BY <2>1, <2>2, <2>8 DEF SubmissionInv, Guarded, Waiting
    <3>2. WindowsOver'
      BY <2>1, <2>2, <2>8 DEF SubmissionInv, WindowsOver, Missed
    <3>3. QED
      BY <3>1, <3>2
  <2>10. Retained'
    BY <2>1, <2>2, <2>3, <2>7 DEF SubmissionInv, Retained
  <2>11. QED
    BY <1>1, <2>4, <2>5, <2>6, <2>9, <2>10 DEF SubmissionInv
<1>6. CASE UNCHANGED vars
  BY <1>1, <1>6 DEF vars, SubmissionInv, TimesAgree, LockHeld, Inside, KeyPresent, RecordsComplete,
                    Vacant, Missed, Guarded, Waiting, WindowsOver, Over, RowOwned, Claimed,
                    Retained, WindowEnd
<1>7. QED
  BY <1>1, <1>2, <1>3, <1>4, <1>5, <1>6, AcquireStep, LookupStep, ClaimStep, InsertStep,
     CompleteStep, CommitStep DEF Next, SubmitNext

\* SubmissionInv holds always: the idempotency record, the advisory lock and the
\* transactions of event_service.go agree, whatever fails and whenever records are purged.
THEOREM SubmissionInvariant == Spec => []SubmissionInv
<1>1. Init => SubmissionInv
  <2> SUFFICES ASSUME Init PROVE SubmissionInv
    OBVIOUS
  <2>1. TypeOK
    BY NewIsCall DEF Init, TypeOK
  <2>2. \A r \in Requests : request[r].pc = "new" /\ request[r].start = 0
    BY DEF Init, NewCall
  <2>3. \A k \in Keys : ~record[k].present
    BY DEF Init, NoRow
  <2>4. TimesAgree /\ LockHeld /\ KeyPresent /\ RecordsComplete
    BY <2>2, <2>3 DEF Init, TimesAgree, LockHeld, Inside, KeyPresent, RecordsComplete
  <2>5. Vacant /\ Guarded /\ WindowsOver /\ RowOwned /\ Retained
    BY <2>2 DEF Init, Vacant, Missed, Guarded, WindowsOver, RowOwned, Claimed, Retained
  <2>6. QED
    BY <2>1, <2>4, <2>5 DEF SubmissionInv
<1>2. QED
  BY <1>1, SubmissionStep, PTL DEF Spec

\* Every reachable state of the submissions is well typed.
THEOREM SubmissionTypeCorrect == Spec => []TypeOK
<1>1. SubmissionInv => TypeOK
  BY DEF SubmissionInv
<1>2. QED
  BY <1>1, SubmissionInvariant, PTL

\* Scenario 5 of user story 2, SC-003 and SC-006 of 002-signature-idempotency, for every
\* number of concurrent requests: EventService.Submit creates no delivery for a key when
\* its transaction began in the window of another, but for the transactions the purge
\* overtakes, and those create none before that window has ended.
THEOREM IdempotentSubmission == Spec => WindowRespected
<1> DEFINE P == \A b \in created' \ created : \A a \in created :
                  request[a].key = request[b].key /\ request[b].key # NoKey =>
                    \/ WindowEnd(a) < request[b].start
                    \/ b \in overtaken /\ WindowEnd(a) < now
<1>1. SubmissionInv /\ [Next]_vars => [P]_vars
  <2> SUFFICES ASSUME SubmissionInv, Next, NEW b \in created' \ created, NEW a \in created,
                      request[a].key = request[b].key, request[b].key # NoKey
               PROVE  Over(a, b)
    BY DEF Over
  <2>1. b \in Requests /\ Commit(b)
    BY DEF Next, SubmitNext, Reject, Fail, AcquireAdvisoryLock, Lookup, Claim, InsertRows, Complete,
           Commit, Begin, PurgeExpiredIdempotencyRecords, Tick
  <2>2. Missed(b)
    BY <2>1 DEF Commit, Missed
  <2>3. QED
    BY <2>1, <2>2 DEF SubmissionInv, WindowsOver
<1>2. QED
  BY <1>1, SubmissionInvariant, PTL DEF Spec, WindowRespected

-----------------------------------------------------------------------------

\* A committed record names a committed delivery of its key and payload.
RecordsExplained == \A k \in Keys : record[k].present =>
                      /\ record[k].names \in created
                      /\ request[record[k].names].key = k
                      /\ request[record[k].names].payload = record[k].payload

\* The row a request has written has the payload of the request.
RowPayload == \A r \in Requests : Claimed(r) => request[r].row.payload = request[r].payload

\* Nobody is answered before the end.
Unanswered == \A r \in Requests : request[r].pc # "done" => request[r].answer = "none"

AnswerInv == RecordsExplained /\ RowPayload /\ Unanswered /\ AnswersExplained

\* What AnswersExplained says of r.
Explained(r) ==
  /\ request[r].answer = "accepted" =>
       /\ request[r].names \in created
       /\ request[request[r].names].key = request[r].key
       /\ request[request[r].names].payload = request[r].payload
  /\ request[r].answer = "conflict" =>
       \E a \in created : /\ request[a].key = request[r].key
                          /\ request[a].payload # request[r].payload

\* Answers stay explained when a request goes on without one.
LEMMA ExplainedKeeps ==
  ASSUME SubmissionInv, AnswerInv, NEW r \in Requests, request[r].pc # "done",
         created \subseteq created',
         \A s \in Requests : s # r => request'[s] = request[s],
         Explained(r)'
  PROVE  AnswersExplained'
<1>1. \A a \in created : a \in Requests /\ request'[a] = request[a]
  BY DEF SubmissionInv, TypeOK, TimesAgree
<1>2. ASSUME NEW s \in Requests, s # r PROVE Explained(s)'
  <2>1. request'[s] = request[s] /\ Explained(s)
    BY <1>2 DEF AnswerInv, AnswersExplained, Explained
  <2>2. QED
    BY <1>1, <2>1 DEF Explained
<1>3. QED
  BY <1>2 DEF AnswersExplained, Explained

\* Committed records stay explained when a request goes on and none is written.
LEMMA RecordsKeep ==
  ASSUME SubmissionInv, AnswerInv, NEW r \in Requests, request[r].pc # "done",
         created \subseteq created',
         \A s \in Requests : s # r => request'[s] = request[s],
         record' = record
  PROVE  RecordsExplained'
<1>1. \A a \in created : request'[a] = request[a]
  BY DEF SubmissionInv, TypeOK, TimesAgree
<1>2. QED
  BY <1>1 DEF AnswerInv, RecordsExplained

\* A request that goes on, or ends, without having created anything.
LEMMA QuietStep ==
  ASSUME SubmissionInv, AnswerInv, NEW r \in Requests, request[r].pc # "done",
         UNCHANGED <<record, created>>,
         \A s \in Requests : s # r => request'[s] = request[s],
         Explained(r)',
         request'[r].pc # "done" => request'[r].answer = "none",
         Claimed(r)' => request'[r].row.payload = request'[r].payload
  PROVE  AnswerInv'
<1>1. RecordsExplained' /\ AnswersExplained'
  BY RecordsKeep, ExplainedKeeps
<1>2. RowPayload'
  BY DEF AnswerInv, RowPayload, Claimed
<1>3. Unanswered'
  BY DEF AnswerInv, Unanswered
<1>4. QED
  BY <1>1, <1>2, <1>3 DEF AnswerInv

\* Every step preserves AnswerInv.
LEMMA AnswerStep == SubmissionInv /\ AnswerInv /\ [Next]_vars => AnswerInv'
<1> SUFFICES ASSUME SubmissionInv, AnswerInv, [Next]_vars PROVE AnswerInv'
  OBVIOUS
<1>0. /\ \A r \in Requests : request[r] \in Call
      /\ \A k \in Keys : record[k] \in Row
      /\ created \subseteq Requests
  BY DEF SubmissionInv, TypeOK
<1>1. ASSUME NEW r \in Requests, Reject(r) \/ Fail(r) PROVE AnswerInv'
  <2>1. PICK answer \in {"rejected", "error"} :
          request' = [request EXCEPT ![r] = [request[r] EXCEPT !.pc = "done", !.answer = answer]]
    BY <1>1 DEF Reject, Fail, Becomes
  <2>2. /\ request'[r].pc = "done" /\ request'[r].answer \in {"rejected", "error"}
        /\ \A s \in Requests : s # r => request'[s] = request[s]
    BY <2>1 DEF SubmissionInv, TypeOK, Call
  <2>3. Explained(r)' /\ ~Claimed(r)'
    BY <2>2 DEF Explained, Claimed
  <2>4. request[r].pc # "done" /\ UNCHANGED <<record, created>>
    BY <1>1 DEF Reject, Fail
  <2>5. QED
    BY <2>2, <2>3, <2>4, QuietStep
<1>2. ASSUME NEW r \in Requests, NEW k \in Keys \cup {NoKey}, NEW p \in Payloads, Begin(r, k, p)
      PROVE  AnswerInv'
  <2> DEFINE next == IF k = NoKey THEN "insert" ELSE "lock"
  <2>1. request' = [request EXCEPT ![r] = [request[r] EXCEPT !.pc = next, !.key = k,
                                                             !.payload = p, !.start = now]]
    BY <1>2 DEF Begin, Becomes
  <2>2. request[r].pc = "new" /\ UNCHANGED <<record, created>>
    BY <1>2 DEF Begin
  <2>3. /\ request'[r].pc = next /\ request'[r].key = k
        /\ request'[r].answer = request[r].answer
        /\ \A s \in Requests : s # r => request'[s] = request[s]
    BY <2>1 DEF SubmissionInv, TypeOK, Call
  <2>4. request'[r].answer = "none"
    BY <2>2, <2>3 DEF AnswerInv, Unanswered
  <2>5. Explained(r)' /\ ~Claimed(r)'
    BY <2>3, <2>4 DEF Explained, Claimed
  <2>6. QED
    BY <2>2, <2>3, <2>4, <2>5, QuietStep
<1>3. ASSUME NEW r \in Requests, AcquireAdvisoryLock(r) PROVE AnswerInv'
  <2>1. /\ request' = [request EXCEPT ![r] = [request[r] EXCEPT !.pc = "lookup"]]
        /\ request[r].pc = "lock" /\ UNCHANGED <<record, created>>
    BY <1>3 DEF AcquireAdvisoryLock, Becomes
  <2>2. /\ request'[r].pc = "lookup" /\ request'[r].answer = request[r].answer
        /\ \A s \in Requests : s # r => request'[s] = request[s]
    BY <2>1 DEF SubmissionInv, TypeOK, Call
  <2>3. request'[r].answer = "none"
    BY <2>1, <2>2 DEF AnswerInv, Unanswered
  <2>4. Explained(r)' /\ ~Claimed(r)'
    BY <2>2, <2>3 DEF Explained, Claimed
  <2>5. QED
    BY <2>1, <2>2, <2>3, <2>4, QuietStep
<1>4. ASSUME NEW r \in Requests, Lookup(r) PROVE AnswerInv'
  <2> DEFINE row == record[request[r].key]
  <2>1. request[r].pc = "lookup" /\ UNCHANGED <<record, created>>
    BY <1>4 DEF Lookup
  <2>2. request[r].key \in Keys /\ request[r].answer = "none"
    BY <2>1 DEF SubmissionInv, KeyPresent, AnswerInv, Unanswered
  <2>3. CASE Becomes(r, [request[r] EXCEPT !.pc = "claim"])
    <3>1. /\ request'[r].pc = "claim" /\ request'[r].answer = "none"
          /\ \A s \in Requests : s # r => request'[s] = request[s]
      BY <2>2, <2>3 DEF Becomes, SubmissionInv, TypeOK, Call
    <3>2. Explained(r)' /\ ~Claimed(r)'
      BY <3>1 DEF Explained, Claimed
    <3>3. QED
      BY <2>1, <3>1, <3>2, QuietStep
  <2>4. CASE /\ row.present /\ row.payload = request[r].payload
             /\ Becomes(r, [request[r] EXCEPT !.pc = "done", !.answer = "accepted",
                                              !.names = row.names])
    <3>1. /\ request'[r].pc = "done" /\ request'[r].key = request[r].key
          /\ request'[r].payload = request[r].payload /\ request'[r].names = row.names
          /\ request'[r].answer = "accepted"
          /\ \A s \in Requests : s # r => request'[s] = request[s]
      BY <2>4 DEF Becomes, SubmissionInv, TypeOK, Call
    <3>2. /\ row.names \in created /\ row.names # r
          /\ request[row.names].key = request[r].key
          /\ request[row.names].payload = request[r].payload
      BY <2>1, <2>2, <2>4 DEF AnswerInv, RecordsExplained, SubmissionInv, TimesAgree
    <3>3. request'[row.names] = request[row.names]
      BY <1>0, <3>1, <3>2
    <3>4. Explained(r)' /\ ~Claimed(r)'
      BY <2>1, <3>1, <3>2, <3>3 DEF Explained, Claimed
    <3>5. QED
      BY <2>1, <3>1, <3>4, QuietStep
  <2>5. CASE /\ row.present /\ row.payload # request[r].payload
             /\ Becomes(r, [request[r] EXCEPT !.pc = "done", !.answer = "conflict"])
    <3>1. /\ request'[r].pc = "done" /\ request'[r].key = request[r].key
          /\ request'[r].payload = request[r].payload /\ request'[r].answer = "conflict"
          /\ \A s \in Requests : s # r => request'[s] = request[s]
      BY <2>5 DEF Becomes, SubmissionInv, TypeOK, Call
    <3>2. /\ row.names \in created /\ row.names # r
          /\ request[row.names].key = request[r].key
          /\ request[row.names].payload # request[r].payload
      BY <2>1, <2>2, <2>5 DEF AnswerInv, RecordsExplained, SubmissionInv, TimesAgree
    <3>3. request'[row.names] = request[row.names]
      BY <1>0, <3>1, <3>2
    <3>4. Explained(r)' /\ ~Claimed(r)'
      BY <2>1, <3>1, <3>2, <3>3 DEF Explained, Claimed
    <3>5. QED
      BY <2>1, <3>1, <3>4, QuietStep
  <2>6. QED
    BY <1>4, <2>3, <2>4, <2>5 DEF Lookup
<1>5. ASSUME NEW r \in Requests, Claim(r) PROVE AnswerInv'
  <2> DEFINE row == [present |-> TRUE, payload |-> request[r].payload,
                     expires |-> request[r].start + Window, names |-> NoRequest]
  <2>1. request[r].pc = "claim" /\ UNCHANGED <<record, created>>
    BY <1>5 DEF Claim
  <2>2. request[r].key \in Keys /\ request[r].answer = "none" /\ Missed(r)
    BY <2>1, NamesAssumption DEF SubmissionInv, KeyPresent, AnswerInv, Unanswered, Missed
  <2>3. ~(record[request[r].key].present /\ ~Expired(record[request[r].key], request[r].start))
    BY <2>2 DEF SubmissionInv, Vacant, Expired
  <2>4. request' = [request EXCEPT ![r] = [request[r] EXCEPT !.pc = "insert", !.row = row]]
    BY <1>5, <2>3 DEF Claim, Becomes
  <2>5. /\ request'[r].pc = "insert" /\ request'[r].answer = "none"
        /\ request'[r].row = row /\ request'[r].payload = request[r].payload
        /\ \A s \in Requests : s # r => request'[s] = request[s]
    BY <2>2, <2>4 DEF SubmissionInv, TypeOK, Call
  <2>6. Explained(r)' /\ request'[r].row.payload = request'[r].payload
    BY <2>5 DEF Explained
  <2>7. QED
    BY <2>1, <2>5, <2>6, QuietStep
<1>6. ASSUME NEW r \in Requests, InsertRows(r) \/ Complete(r) PROVE AnswerInv'
  <2>1. request[r].pc \in {"insert", "complete"} /\ UNCHANGED <<record, created>>
    BY <1>6 DEF InsertRows, Complete
  <2>2. /\ request'[r].pc \in {"complete", "commit"} /\ request'[r].key = request[r].key
        /\ request'[r].payload = request[r].payload /\ request'[r].answer = request[r].answer
        /\ request'[r].row.payload = request[r].row.payload
        /\ \A s \in Requests : s # r => request'[s] = request[s]
    <3>1. CASE InsertRows(r)
      BY <3>1 DEF InsertRows, Becomes, SubmissionInv, TypeOK, Call
    <3>2. CASE Complete(r)
      <4> DEFINE row == [request[r].row EXCEPT !.names = r]
      <4>1. request[r].row \in Row
        BY DEF SubmissionInv, TypeOK, Call
      <4>2. row.payload = request[r].row.payload
        BY <4>1 DEF Row
      <4>3. request' = [request EXCEPT ![r] = [request[r] EXCEPT !.pc = "commit", !.row = row]]
        BY <3>2 DEF Complete, Becomes, SubmissionInv, TypeOK, Call
      <4> HIDE DEF row
      <4>4. QED
        BY <4>2, <4>3 DEF SubmissionInv, TypeOK, Call
    <3>3. QED
      BY <1>6, <3>1, <3>2
  <2>3. request'[r].answer = "none"
    BY <2>1, <2>2 DEF AnswerInv, Unanswered
  <2>4. Explained(r)'
    BY <2>3 DEF Explained
  <2>5. Claimed(r)' => request'[r].row.payload = request'[r].payload
    BY <2>1, <2>2 DEF AnswerInv, RowPayload, Claimed
  <2>6. QED
    BY <2>1, <2>2, <2>3, <2>4, <2>5, QuietStep
<1>7. ASSUME NEW r \in Requests, Commit(r) PROVE AnswerInv'
  <2>1. /\ request[r].pc = "commit" /\ created' = created \cup {r}
        /\ record' = IF request[r].key = NoKey
                        THEN record ELSE [record EXCEPT ![request[r].key] = request[r].row]
    BY <1>7 DEF Commit
  <2>2. /\ request'[r].pc = "done" /\ request'[r].key = request[r].key
        /\ request'[r].payload = request[r].payload /\ request'[r].names = r
        /\ request'[r].answer \in {"accepted", "error"}
        /\ \A s \in Requests : s # r => request'[s] = request[s]
    BY <1>7 DEF Commit, Becomes, SubmissionInv, TypeOK, Call
  <2>3. Explained(r)' /\ ~Claimed(r)'
    BY <2>1, <2>2 DEF Explained, Claimed
  <2>4. RowPayload' /\ Unanswered'
    BY <2>2 DEF AnswerInv, RowPayload, Claimed, Unanswered
  <2>5. AnswersExplained'
    BY <2>1, <2>2, <2>3, ExplainedKeeps
  <2>6. RecordsExplained'
    <3>1. CASE request[r].key = NoKey
      BY <2>1, <2>2, <3>1, RecordsKeep
    <3>2. CASE request[r].key # NoKey
      <4> SUFFICES ASSUME NEW k \in Keys, record'[k].present
                   PROVE  /\ record'[k].names \in created'
                          /\ request'[record'[k].names].key = k
                          /\ request'[record'[k].names].payload = record'[k].payload
        BY DEF RecordsExplained
      <4>1. CASE k = request[r].key
        <5>1. /\ record'[k] = request[r].row /\ request[r].row.names = r
              /\ request[r].row.payload = request[r].payload
          BY <2>1, <3>2, <4>1
          DEF SubmissionInv, TypeOK, RowOwned, Claimed, AnswerInv, RowPayload
        <5>2. QED
          BY <2>1, <2>2, <4>1, <5>1
      <4>2. CASE k # request[r].key
        <5>1. record'[k] = record[k]
          BY <2>1, <3>2, <4>2 DEF SubmissionInv, TypeOK
        <5>2. /\ record[k].names \in created /\ request[record[k].names].key = k
              /\ request[record[k].names].payload = record[k].payload
          BY <5>1 DEF AnswerInv, RecordsExplained
        <5>3. request'[record[k].names] = request[record[k].names]
          BY <1>0, <2>2, <4>2, <5>2
        <5>4. QED
          BY <2>1, <5>1, <5>2, <5>3
      <4>3. QED
        BY <4>1, <4>2
    <3>3. QED
      BY <3>1, <3>2
  <2>7. QED
    BY <2>4, <2>5, <2>6 DEF AnswerInv
<1>8. CASE PurgeExpiredIdempotencyRecords
  <2>1. /\ UNCHANGED <<request, created>>
        /\ \A k \in Keys : record'[k] = record[k] \/ ~record'[k].present
    BY <1>8 DEF PurgeExpiredIdempotencyRecords, NoRow
  <2>2. RecordsExplained'
    BY <2>1 DEF AnswerInv, RecordsExplained
  <2>3. QED
    BY <2>1, <2>2 DEF AnswerInv, RowPayload, Claimed, Unanswered, AnswersExplained
<1>9. CASE Tick \/ UNCHANGED vars
  <2>1. UNCHANGED <<record, request, created>>
    BY <1>9 DEF Tick, vars
  <2>2. QED
    BY <2>1 DEF AnswerInv, RecordsExplained, RowPayload, Claimed, Unanswered, AnswersExplained
<1>10. QED
  BY <1>1, <1>2, <1>3, <1>4, <1>5, <1>6, <1>7, <1>8, <1>9 DEF Next, SubmitNext

\* FR-007, FR-008 and FR-010 of 002-signature-idempotency, for every number of requests:
\* whatever Submit answers from a record (event_service.go:75-82) or from its own commit
\* refers to a committed delivery of the same key and, if accepted, of the same payload.
THEOREM AnswersAreExplained == Spec => []AnswersExplained
<1>1. Init => AnswerInv
  BY DEF Init, NewCall, NoRow, AnswerInv, RecordsExplained, RowPayload, Claimed, Unanswered,
         AnswersExplained
<1>2. QED
  BY <1>1, AnswerStep, SubmissionInvariant, PTL DEF Spec, AnswerInv
=============================================================================
