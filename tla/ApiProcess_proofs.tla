------------------------- MODULE ApiProcess_proofs -------------------------
(***************************************************************************)
(* Safety of the API process for any number of requests, tenants,          *)
(* endpoints and workers: types, what a process that exits with 0 has      *)
(* answered, and which secrets are active and used.                        *)
(*                                                                         *)
(* Requests and secrets are argued about in two steps: RequestMoves and    *)
(* SecretWrites say what any step may do to a request and to the secrets;  *)
(* the invariants use only that.                                           *)
(***************************************************************************)
EXTENDS ApiProcess, FiniteSetTheorems, SequenceTheorems, TLAPS

-----------------------------------------------------------------------------
(* What a step does to the registry                                        *)

RequestStep(r) ==
  \/ \E kind \in Kinds, t \in Tenants, e \in Endpoints : Accept(r, kind, t, e)
  \/ Read(r) \/ Acquire(r) \/ AcquireFails(r) \/ StatementFails(r)
  \/ \E result \in {"ok", "error"} : InsertTenant(r, result)
  \/ CheckTenant(r)
  \/ \E told \in {"yes", "unknown"} : InsertEndpoint(r, told) \/ UpdateSecret(r, told)
  \/ GoesOn(r)
  \/ Respond(r) \/ ResponseLost(r) \/ CommitsLate(r)

\* A step of the process changes the registry by one request, one worker or the exit.
LEMMA RegistryCases ==
  ASSUME [Next]_vars
  PROVE  \/ \E r \in Requests :
              RequestStep(r) /\ (request[r].pc = "new" /\ request[r].stored = "no" => Serving)
         \/ \E w \in Signers : SigningNext(w)
         \/ ExitProcess
         \/ UNCHANGED registry
<1>1. CASE UNCHANGED vars
  BY <1>1 DEF vars
<1>2. CASE \E r \in Requests : \/ AcceptRequest(r) \/ ReadRequest(r) \/ AcquireConn(r)
                               \/ EndStatement(r) \/ WriteResponse(r)
                               \/ RequestFault(r) \/ LateCommit(r)
  <2>1. PICK r \in Requests : \/ AcceptRequest(r) \/ ReadRequest(r) \/ AcquireConn(r)
                              \/ EndStatement(r) \/ WriteResponse(r)
                              \/ RequestFault(r) \/ LateCommit(r)
    BY <1>2
  <2>2. RequestStep(r)
    <3>1. CASE AcceptRequest(r)
      BY <3>1 DEF AcceptRequest, RequestStep
    <3>2. CASE ReadRequest(r) \/ WriteResponse(r) \/ LateCommit(r)
      BY <3>2 DEF ReadRequest, WriteResponse, LateCommit, RequestStep
    <3>3. CASE AcquireConn(r)
      BY <3>3 DEF AcquireConn, RequestStep
    <3>4. CASE EndStatement(r)
      BY <3>4 DEF EndStatement, Statement, RequestStep
    <3>5. CASE RequestFault(r)
      BY <3>5 DEF RequestFault, StatementUnknown, RequestStep
    <3> QED
      BY <2>1, <3>1, <3>2, <3>3, <3>4, <3>5
  <2>3. request[r].pc = "new" /\ request[r].stored = "no" => Serving
    <3>1. CASE AcceptRequest(r)
      BY <3>1 DEF AcceptRequest
    <3>2. CASE ReadRequest(r) \/ WriteResponse(r) \/ LateCommit(r)
      BY <3>2 DEF ReadRequest, WriteResponse, LateCommit, Read, Respond, CommitsLate
    <3>3. CASE AcquireConn(r)
      BY <3>3 DEF AcquireConn, Acquire, AcquireFails, Statements
    <3>4. CASE EndStatement(r)
      BY <3>4 DEF EndStatement, Statement, InsertTenant, CheckTenant, InsertEndpoint,
                  UpdateSecret, InStatement
    <3>5. CASE RequestFault(r)
      BY <3>5 DEF RequestFault, StatementFails, StatementUnknown, ResponseLost, Statements,
                  InsertTenant, InsertEndpoint, UpdateSecret, GoesOn, InStatement
    <3> QED
      BY <2>1, <3>1, <3>2, <3>3, <3>4, <3>5
  <2> QED
    BY <2>2, <2>3
<1>3. CASE BeginWalk \/ ListPage \/ DeliveriesMove
  BY <1>3 DEF BeginWalk, ListPage, DeliveriesMove
<1>4. CASE ServerStep
  BY <1>4 DEF ServerStep, StopApi, StopPool
<1>5. CASE DeadlineStep \/ Disturbance
  BY <1>5 DEF DeadlineStep, Disturbance
<1>6. CASE \E w \in Signers : SigningStep(w)
  BY <1>6 DEF SigningStep
<1> QED
  BY <1>1, <1>2, <1>3, <1>4, <1>5, <1>6 DEF Next

-----------------------------------------------------------------------------
(* What a step does to a request                                           *)

\* What the fields of a request say of each other.
RequestOK(q) ==
  /\ q \in Request
  /\ q.pc # "done" => q.answer = "none"
  /\ q.pc \notin {"respond", "done"} => q.result = "none" /\ q.stored = "no"
  /\ q.pc = "new" => q.after = {}
  /\ q.pc # "new" /\ q.pc # "done" => q.kind \in Kinds
  /\ q.pc = "tenant" => q.kind = "register"
  /\ q.pc = "insert" => q.kind \in {"create_tenant", "register"}
  /\ q.pc = "update" => q.kind = "rotate"
  /\ q.kind = "rotate" => q.endpoint \in Endpoints
  /\ q.kind = "rotate" /\ q.result = "ok" => q.stored = "yes"
  /\ q.stored = "yes" => q.result = "ok"
  /\ q.stored # "no" => q.kind \in {"register", "rotate"} /\ q.endpoint \in Endpoints
  /\ q.answer \in {"none", "lost", "cut", q.result}
  /\ q.result \notin {"lost", "cut"}

RequestsOK == request \in [Requests -> Request] /\ \A r \in Requests : RequestOK(request[r])

\* What becomes of a request q in one step: an ended one keeps its answer, an accepted
\* one its kind, endpoint and history, and only a statement or a late commit changes
\* what is stored.
Move(q, p) ==
  /\ q.pc = "done" => p.pc = "done" /\ p.answer = q.answer
  /\ q.answer # "none" => p.answer = q.answer
  /\ q.pc # "new" => p.kind = q.kind /\ p.after = q.after
  /\ p.after \subseteq q.after \cup Answered
  /\ q.pc # "new" /\ (q.kind = "rotate" \/ q.stored # "no") => p.endpoint = q.endpoint
  /\ \/ p.stored = q.stored
     \/ q.pc \in {"insert", "update"}
     \/ q.stored = "late" /\ p.stored = "unknown"

\* A step of one request.
LEMMA OneMoves ==
  ASSUME RequestsOK, NEW r \in Requests, NEW p, Becomes(r, p),
         RequestOK(p), Move(request[r], p)
  PROVE  RequestsOK' /\ \A s \in Requests : Move(request[s], request'[s])
<1>1. request' = [request EXCEPT ![r] = p]
  BY DEF Becomes
<1>2. p \in Request
  BY DEF RequestOK
<1>3. \A s \in Requests : request'[s] = IF s = r THEN p ELSE request[s]
  BY <1>1 DEF RequestsOK
<1>4. request' \in [Requests -> Request]
  BY <1>1, <1>2 DEF RequestsOK
<1>5. \A s \in Requests : RequestOK(request'[s])
  BY <1>3 DEF RequestsOK
<1>6. \A s \in Requests : Move(request[s], request[s])
  BY DEF Move
<1> QED
  BY <1>3, <1>4, <1>5, <1>6 DEF RequestsOK

\* Every step keeps RequestsOK and moves requests as Move says.
LEMMA RequestMoves ==
  ASSUME RequestsOK, [Next]_vars
  PROVE  RequestsOK' /\ \A s \in Requests : Move(request[s], request'[s])
<1>0. \A s \in Requests : RequestOK(request[s]) /\ request[s] \in Request
  BY DEF RequestsOK, RequestOK
<1>1. ASSUME NEW r \in Requests, RequestStep(r)
      PROVE  RequestsOK' /\ \A s \in Requests : Move(request[s], request'[s])
  <2> DEFINE q == request[r]
  <2>0. RequestOK(q) /\ q \in Request
    BY <1>0
  <2>1. CASE \E kind \in Kinds, t \in Tenants, e \in Endpoints : Accept(r, kind, t, e)
    <3>1. PICK kind \in Kinds, t \in Tenants, e \in Endpoints : Accept(r, kind, t, e)
      BY <2>1
    <3> DEFINE p == [q EXCEPT !.kind = kind, !.pc = "read", !.after = Answered,
                              !.tenant = IF kind = "register" THEN t ELSE None,
                              !.endpoint = IF kind = "rotate" THEN e ELSE None]
    <3>2. Becomes(r, p) /\ q.pc = "new"
      BY <3>1 DEF Accept
    <3>3. Answered \subseteq Requests
      BY DEF Answered
    <3>4. RequestOK(p) /\ Move(q, p)
      BY <2>0, <3>2, <3>3 DEF RequestOK, Move, Request, Kinds, Pcs
    <3> QED
      BY <3>2, <3>4, OneMoves
  <2>2. CASE Read(r)
    <3>1. PICK p \in { [q EXCEPT !.pc = FirstStatement(q.kind)],
                       [q EXCEPT !.pc = "respond", !.result = "rejected"] } : Becomes(r, p)
      BY <2>2 DEF Read
    <3>2. q.pc = "read"
      BY <2>2 DEF Read
    <3>3. RequestOK(p) /\ Move(q, p)
      BY <2>0, <3>1, <3>2 DEF RequestOK, Move, Request, Kinds, Pcs, Answers, FirstStatement
    <3> QED
      BY <3>1, <3>3, OneMoves
  <2>3. CASE Acquire(r)
    <3> DEFINE p == [q EXCEPT !.conn = "held"]
    <3>1. Becomes(r, p)
      BY <2>3 DEF Acquire
    <3>2. RequestOK(p) /\ Move(q, p)
      BY <2>0 DEF RequestOK, Move, Request
    <3> QED
      BY <3>1, <3>2, OneMoves
  <2>4. ASSUME NEW result \in {"ok", "not_found", "error"}, Concludes(r, result),
               q.pc \in Statements, result = "ok" => q.kind = "create_tenant"
        PROVE  RequestsOK' /\ \A s \in Requests : Move(request[s], request'[s])
    <3> DEFINE p == [q EXCEPT !.pc = "respond", !.conn = "none", !.result = result]
    <3>1. Becomes(r, p)
      BY <2>4 DEF Concludes
    <3>2. RequestOK(p) /\ Move(q, p)
      BY <2>0, <2>4 DEF RequestOK, Move, Request, Pcs, Answers, Statements
    <3> QED
      BY <3>1, <3>2, OneMoves
  <2>5. CASE \/ AcquireFails(r) \/ StatementFails(r)
            \/ \E result \in {"ok", "error"} : InsertTenant(r, result)
    BY <2>4, <2>5 DEF AcquireFails, StatementFails, InsertTenant, InStatement, Statements
  <2>6. CASE CheckTenant(r)
    <3>1. CASE Concludes(r, "not_found")
      BY <2>4, <2>6, <3>1 DEF CheckTenant, InStatement, Statements
    <3>2. CASE Becomes(r, [q EXCEPT !.pc = "insert", !.conn = "none"])
      <4> DEFINE p == [q EXCEPT !.pc = "insert", !.conn = "none"]
      <4>1. q.pc = "tenant"
        BY <2>6 DEF CheckTenant, InStatement
      <4>2. RequestOK(p) /\ Move(q, p)
        BY <2>0, <4>1 DEF RequestOK, Move, Request, Pcs
      <4> QED
        BY <3>2, <4>2, OneMoves
    <3> QED
      BY <2>6, <3>1, <3>2 DEF CheckTenant
  <2>7. ASSUME NEW e \in Endpoints, NEW told \in {"yes", "unknown", "late"}, Stored(r, e, told),
               \/ q.pc = "insert" /\ q.kind = "register"
               \/ q.pc = "update" /\ e = q.endpoint
        PROVE  RequestsOK' /\ \A s \in Requests : Move(request[s], request'[s])
    <3> DEFINE p == [q EXCEPT !.pc = "respond", !.conn = "none", !.endpoint = e,
                              !.result = IF told = "yes" THEN "ok" ELSE "error",
                              !.stored = told]
    <3>1. Becomes(r, p)
      BY <2>7 DEF Stored
    <3>2. RequestOK(p) /\ Move(q, p)
      BY <2>0, <2>7 DEF RequestOK, Move, Request, Pcs, Answers
    <3> QED
      BY <3>1, <3>2, OneMoves
  <2>8. ASSUME NEW told \in {"yes", "unknown"}, InsertEndpoint(r, told)
        PROVE  RequestsOK' /\ \A s \in Requests : Move(request[s], request'[s])
    BY <2>7, <2>8 DEF InsertEndpoint, InStatement, FreeEndpoints
  <2>9. ASSUME NEW told \in {"yes", "unknown"}, UpdateSecret(r, told)
        PROVE  RequestsOK' /\ \A s \in Requests : Move(request[s], request'[s])
    <3>1. q.pc = "update" /\ q.endpoint \in Endpoints
      BY <2>0, <2>9 DEF UpdateSecret, InStatement, RequestOK
    <3>2. Stored(r, q.endpoint, told) \/ Concludes(r, "not_found")
      BY <2>9 DEF UpdateSecret
    <3> QED
      BY <2>4, <2>7, <3>1, <3>2 DEF Statements
  <2>10. CASE GoesOn(r)
    <3>1. PICK e \in Endpoints : /\ Stored(r, e, "late")
                                 /\ \/ q.pc = "insert" /\ q.kind = "register"
                                    \/ q.pc = "update" /\ e = q.endpoint
      BY <2>0, <2>10 DEF GoesOn, InStatement, FreeEndpoints, RequestOK
    <3> QED
      BY <2>7, <3>1
  <2>11. CASE Respond(r) \/ ResponseLost(r)
    <3>1. PICK answer \in {q.result, "lost"} :
                 Becomes(r, [q EXCEPT !.pc = "done", !.answer = answer])
      BY <2>11 DEF Respond, ResponseLost
    <3> DEFINE p == [q EXCEPT !.pc = "done", !.answer = answer]
    <3>2. q.pc = "respond"
      BY <2>11 DEF Respond, ResponseLost
    <3>3. answer \in Answers
      BY <2>0 DEF Request, Answers
    <3>4. p \in Request /\ p.pc = "done" /\ p.answer = answer
      BY <2>0, <3>3 DEF Request, Pcs
    <3>5. /\ p.kind = q.kind /\ p.after = q.after /\ p.endpoint = q.endpoint
          /\ p.result = q.result /\ p.stored = q.stored
      BY <2>0 DEF Request
    <3>6. Becomes(r, p)
      BY <3>1
    <3> HIDE DEF p
    <3>7. RequestOK(p) /\ Move(q, p)
      BY <2>0, <3>2, <3>4, <3>5 DEF RequestOK, Move
    <3> QED
      BY <3>6, <3>7, OneMoves
  <2>12. CASE CommitsLate(r)
    <3> DEFINE p == [q EXCEPT !.stored = "unknown"]
    <3>1. Becomes(r, p) /\ q.stored = "late"
      BY <2>12 DEF CommitsLate
    <3>2. RequestOK(p) /\ Move(q, p)
      BY <2>0, <3>1 DEF RequestOK, Move, Request
    <3> QED
      BY <3>1, <3>2, OneMoves
  <2> QED
    BY <1>1, <2>1, <2>2, <2>3, <2>5, <2>6, <2>8, <2>9, <2>10, <2>11, <2>12 DEF RequestStep
<1>2. CASE UNCHANGED request
  BY <1>2 DEF RequestsOK, Move
<1>3. CASE ExitProcess
  <2> DEFINE cut(q) == [q EXCEPT !.pc = "done", !.answer = "cut"]
  <2>1. \A s \in Requests : request'[s] = IF s \in Active THEN cut(request[s]) ELSE request[s]
    BY <1>3 DEF ExitProcess
  <2>2. ASSUME NEW s \in Active
        PROVE  RequestOK(cut(request[s])) /\ Move(request[s], cut(request[s]))
    <3> DEFINE q == request[s]
               p == [q EXCEPT !.pc = "done", !.answer = "cut"]
    <3>1. RequestOK(q) /\ q \in Request /\ q.pc # "new" /\ q.pc # "done"
      BY <1>0 DEF Active
    <3>2. p \in Request /\ p.pc = "done" /\ p.answer = "cut"
      BY <3>1 DEF Request, Pcs, Answers
    <3>3. /\ p.kind = q.kind /\ p.after = q.after /\ p.endpoint = q.endpoint
          /\ p.result = q.result /\ p.stored = q.stored
      BY <3>1 DEF Request
    <3>4. p = cut(request[s])
      OBVIOUS
    <3> HIDE DEF p, q, cut
    <3>5. RequestOK(p) /\ Move(q, p)
      BY <3>1, <3>2, <3>3 DEF RequestOK, Move
    <3> QED
      BY <3>4, <3>5 DEF q
  <2>3. \A s \in Requests : Move(request[s], request[s])
    BY DEF Move
  <2>4. \A s \in Requests : RequestOK(request'[s]) /\ Move(request[s], request'[s])
    BY <1>0, <2>1, <2>2, <2>3
  <2>5. request' = [s \in Requests |-> IF s \in Active THEN cut(request[s]) ELSE request[s]]
    BY <1>3 DEF ExitProcess
  <2>6. \A s \in Requests : request'[s] \in Request
    BY <2>4 DEF RequestOK
  <2> HIDE DEF cut
  <2>7. request' \in [Requests -> Request]
    BY <2>1, <2>5, <2>6
  <2> QED
    BY <2>4, <2>7 DEF RequestsOK
<1> QED
  BY <1>1, <1>2, <1>3, RegistryCases
     DEF SigningNext, BeginSigning, LoadForWorker, Sign, registry

-----------------------------------------------------------------------------
(* What a step does to the secrets                                         *)

SecretTyped == secret \in [Endpoints -> Secrets \cup {None}]

\* The step stores the secret of r.
Wrote(r) ==
  /\ request'[r].endpoint \in Endpoints
  /\ secret' = [secret EXCEPT ![request'[r].endpoint] = r]
  /\ request'[r].stored \in {"yes", "unknown"}
  /\ request[r].pc \in {"insert", "update"} \/ request[r].stored = "late"

\* Secrets change, and count as stored, only by a statement of their request or by its
\* late commit.
LEMMA SecretWrites ==
  ASSUME RequestsOK, [Next]_vars
  PROVE  /\ UNCHANGED secret \/ \E r \in Requests : Wrote(r)
         /\ \A r \in Requests : \/ request'[r].stored = request[r].stored
                                \/ request'[r].stored = "late"
                                \/ Wrote(r)
<1> DEFINE Goal == /\ UNCHANGED secret \/ \E r \in Requests : Wrote(r)
                   /\ \A r \in Requests : \/ request'[r].stored = request[r].stored
                                          \/ request'[r].stored = "late"
                                          \/ Wrote(r)
<1>0. \A r \in Requests : RequestOK(request[r]) /\ request[r] \in Request
  BY DEF RequestsOK
<1>1. ASSUME NEW r \in Requests, RequestStep(r) PROVE Goal
  <2> DEFINE q == request[r]
  <2>0. q \in Request /\ RequestOK(q)
    BY <1>0
  <2>1. ASSUME NEW p, Becomes(r, p)
        PROVE  /\ request'[r] = p
               /\ \A s \in Requests \ {r} : request'[s] = request[s]
    BY <2>1 DEF Becomes, RequestsOK
  <2>2. ASSUME NEW p \in Request, Becomes(r, p), UNCHANGED secret,
               p.stored = q.stored \/ p.stored = "late"
        PROVE  Goal
    BY <2>1, <2>2
  <2>3. ASSUME NEW p \in Request, Becomes(r, p), p.endpoint \in Endpoints,
               secret' = [secret EXCEPT ![p.endpoint] = r], p.stored \in {"yes", "unknown"},
               q.pc \in {"insert", "update"} \/ q.stored = "late"
        PROVE  Goal
    <3>1. Wrote(r)
      BY <2>1, <2>3 DEF Wrote
    <3> QED
      BY <2>1, <2>3, <3>1
  <2>5. CASE \E kind \in Kinds, t \in Tenants, e \in Endpoints : Accept(r, kind, t, e)
    <3>1. PICK kind \in Kinds, t \in Tenants, e \in Endpoints : Accept(r, kind, t, e)
      BY <2>5
    <3> DEFINE p == [q EXCEPT !.kind = kind, !.pc = "read", !.after = Answered,
                              !.tenant = IF kind = "register" THEN t ELSE None,
                              !.endpoint = IF kind = "rotate" THEN e ELSE None]
    <3>2. Becomes(r, p) /\ UNCHANGED secret
      BY <3>1 DEF Accept
    <3>3. p \in Request /\ p.stored = q.stored
      BY <2>0 DEF Request, Pcs, Kinds, Answered
    <3> QED
      BY <2>2, <3>2, <3>3
  <2>6. CASE Read(r)
    <3>1. PICK p \in { [q EXCEPT !.pc = FirstStatement(q.kind)],
                       [q EXCEPT !.pc = "respond", !.result = "rejected"] } : Becomes(r, p)
      BY <2>6 DEF Read
    <3>2. p \in Request /\ p.stored = q.stored
      BY <2>0, <2>6, <3>1 DEF Read, RequestOK, Request, Pcs, Kinds, Answers, FirstStatement
    <3> QED
      BY <2>2, <2>6, <3>1, <3>2 DEF Read
  <2>7. CASE Acquire(r) \/ Respond(r)
    <3>1. PICK p \in { [q EXCEPT !.conn = "held"],
                       [q EXCEPT !.pc = "done", !.answer = q.result] } : Becomes(r, p)
      BY <2>7 DEF Acquire, Respond
    <3>2. p \in Request /\ p.stored = q.stored
      BY <2>0, <3>1 DEF Request, Pcs
    <3> QED
      BY <2>2, <2>7, <3>1, <3>2 DEF Acquire, Respond
  <2>8. CASE ResponseLost(r)
    <3> DEFINE p == [q EXCEPT !.pc = "done", !.answer = "lost"]
    <3>1. p \in Request /\ p.stored = q.stored
      BY <2>0 DEF Request, Pcs, Answers
    <3> QED
      BY <2>2, <2>8, <3>1 DEF ResponseLost
  <2>9. ASSUME NEW result \in Answers, Concludes(r, result), UNCHANGED secret PROVE Goal
    <3> DEFINE p == [q EXCEPT !.pc = "respond", !.conn = "none", !.result = result]
    <3>1. p \in Request /\ p.stored = q.stored
      BY <2>0 DEF Request, Pcs
    <3> QED
      BY <2>2, <2>9, <3>1 DEF Concludes
  <2>10. CASE \/ AcquireFails(r) \/ StatementFails(r)
            \/ \E result \in {"ok", "error"} : InsertTenant(r, result)
    BY <2>9, <2>10 DEF AcquireFails, StatementFails, InsertTenant, Answers
  <2>11. CASE CheckTenant(r)
    <3> DEFINE p == [q EXCEPT !.pc = "insert", !.conn = "none"]
    <3>1. p \in Request /\ p.stored = q.stored
      BY <2>0 DEF Request, Pcs
    <3>2. UNCHANGED secret /\ (Becomes(r, p) \/ Concludes(r, "not_found"))
      BY <2>11 DEF CheckTenant
    <3> QED
      BY <2>2, <2>9, <3>1, <3>2 DEF Answers
  <2>12. ASSUME NEW e \in Endpoints, NEW told \in {"yes", "unknown", "late"}, Stored(r, e, told)
         PROVE  \E p \in Request : Becomes(r, p) /\ p.endpoint = e /\ p.stored = told
    <3> DEFINE result == IF told = "yes" THEN "ok" ELSE "error"
               p == [q EXCEPT !.pc = "respond", !.conn = "none", !.endpoint = e,
                              !.result = result, !.stored = told]
    <3>1. Becomes(r, p)
      BY <2>12 DEF Stored
    <3>2. result \in Answers /\ told \in {"no", "yes", "late", "unknown"}
      BY DEF Answers
    <3> HIDE DEF result
    <3>3. p \in Request /\ p.endpoint = e /\ p.stored = told
      BY <2>0, <3>2 DEF Request, Pcs
    <3> QED
      BY <3>1, <3>3
  <2>13. ASSUME NEW told \in {"yes", "unknown"}, InsertEndpoint(r, told) PROVE Goal
    <3>1. PICK e \in Endpoints : secret' = [secret EXCEPT ![e] = r] /\ Stored(r, e, told)
      BY <2>13 DEF InsertEndpoint, FreeEndpoints
    <3>2. PICK p \in Request : Becomes(r, p) /\ p.endpoint = e /\ p.stored = told
      BY <2>12, <3>1
    <3> QED
      BY <2>3, <2>13, <3>1, <3>2 DEF InsertEndpoint, InStatement
  <2>14. ASSUME NEW told \in {"yes", "unknown"}, UpdateSecret(r, told) PROVE Goal
    <3>1. q.pc = "update" /\ q.endpoint \in Endpoints
      BY <2>0, <2>14 DEF UpdateSecret, InStatement, RequestOK
    <3>2. CASE secret' = [secret EXCEPT ![q.endpoint] = r] /\ Stored(r, q.endpoint, told)
      <4>1. PICK p \in Request : Becomes(r, p) /\ p.endpoint = q.endpoint /\ p.stored = told
        BY <2>12, <3>1, <3>2
      <4> QED
        BY <2>3, <3>1, <3>2, <4>1
    <3>3. CASE Concludes(r, "not_found") /\ UNCHANGED secret
      BY <2>9, <3>3 DEF Answers
    <3> QED
      BY <2>14, <3>2, <3>3 DEF UpdateSecret
  <2>15. CASE GoesOn(r)
    <3>1. PICK e \in Endpoints : Stored(r, e, "late") /\ UNCHANGED secret
      BY <2>0, <2>15 DEF GoesOn, InStatement, FreeEndpoints, RequestOK
    <3>2. PICK p \in Request : Becomes(r, p) /\ p.stored = "late"
      BY <2>12, <3>1
    <3> QED
      BY <2>2, <3>1, <3>2
  <2>16. CASE CommitsLate(r)
    <3> DEFINE p == [q EXCEPT !.stored = "unknown"]
    <3>1. p \in Request /\ p.stored = "unknown" /\ p.endpoint = q.endpoint
      BY <2>0 DEF Request
    <3>2. q.stored = "late" /\ q.endpoint \in Endpoints
      BY <2>0, <2>16 DEF CommitsLate, RequestOK
    <3> QED
      BY <2>3, <2>16, <3>1, <3>2 DEF CommitsLate
  <2> HIDE DEF Goal
  <2> QED
    BY <1>1, <2>5, <2>6, <2>7, <2>8, <2>10, <2>11, <2>13, <2>14, <2>15, <2>16 DEF RequestStep
<1>2. CASE UNCHANGED <<secret, request>>
  BY <1>2
<1>3. CASE ExitProcess
  <2>1. ASSUME NEW s \in Requests PROVE request'[s].stored = request[s].stored
    <3> DEFINE p == [request[s] EXCEPT !.pc = "done", !.answer = "cut"]
    <3>1. p.stored = request[s].stored
      BY <1>0 DEF Request
    <3>2. request'[s] \in {p, request[s]}
      BY <1>3 DEF ExitProcess
    <3> QED
      BY <3>1, <3>2
  <2> QED
    BY <1>3, <2>1 DEF ExitProcess
<1> QED
  BY <1>1, <1>2, <1>3, RegistryCases
     DEF SigningNext, BeginSigning, LoadForWorker, Sign, registry

-----------------------------------------------------------------------------
(* Which secrets are active                                                *)

\* The history of a request names requests that have ended.
AfterDone == \A r \in Requests : \A s \in request[r].after : s \in Requests /\ request[s].pc = "done"

\* An active secret was stored by its request, for this endpoint.
ActiveStored ==
  \A e \in Endpoints : secret[e] \in Requests =>
    request[secret[e]].endpoint = e /\ request[secret[e]].stored \in {"yes", "unknown"}

\* A rotation that is known to be stored has replaced what came before it.
Superseded ==
  \A r \in Requests : request[r].kind = "rotate" /\ request[r].stored = "yes" =>
    /\ secret[request[r].endpoint] # FirstSecret
    /\ secret[request[r].endpoint] \notin request[r].after \cap Settled

SecretInv == RequestsOK /\ SecretTyped /\ AfterDone /\ ActiveStored /\ Superseded

\* The requests that have ended, and whether their outcome is settled, stay so.
LEMMA DoneStays ==
  ASSUME RequestsOK, [Next]_vars, NEW s \in Requests, request[s].pc = "done"
  PROVE  /\ request'[s].pc = "done"
         /\ s \in Settled <=> s \in Settled'
<1>1. Move(request[s], request'[s])
  BY RequestMoves
<1>2. /\ request'[s].pc = "done"
      /\ \/ request'[s].stored = request[s].stored
         \/ request[s].stored = "late" /\ request'[s].stored = "unknown"
  BY <1>1 DEF Move
<1> QED
  BY <1>2 DEF Settled

\* Every step keeps SecretInv.
LEMMA SecretStep == ASSUME SecretInv, [Next]_vars PROVE SecretInv'
<1>0. RequestsOK /\ RequestsOK' /\ \A r \in Requests : Move(request[r], request'[r])
  BY RequestMoves DEF SecretInv
<1>1. /\ UNCHANGED secret \/ \E r \in Requests : Wrote(r)
      /\ \A r \in Requests : \/ request'[r].stored = request[r].stored
                             \/ request'[r].stored = "late"
                             \/ Wrote(r)
  BY SecretWrites DEF SecretInv
<1>2. /\ request \in [Requests -> Request] /\ request' \in [Requests -> Request]
      /\ \A r \in Requests : RequestOK(request[r]) /\ RequestOK(request'[r])
  BY <1>0 DEF RequestsOK
<1>3. SecretTyped'
  <2>1. CASE UNCHANGED secret
    BY <2>1 DEF SecretInv, SecretTyped
  <2>2. ASSUME NEW r \in Requests, Wrote(r) PROVE SecretTyped'
    BY <2>2 DEF SecretInv, SecretTyped, Wrote, Secrets
  <2> QED
    BY <1>1, <2>1, <2>2
<1>4. AfterDone'
  <2> SUFFICES ASSUME NEW r \in Requests, NEW s \in request'[r].after
               PROVE  s \in Requests /\ request'[s].pc = "done"
    BY DEF AfterDone
  <2>1. s \in request[r].after \cup Answered
    BY <1>0 DEF Move
  <2>2. s \in Requests /\ request[s].pc = "done"
    BY <1>2, <2>1 DEF SecretInv, AfterDone, Answered, RequestOK
  <2> QED
    BY <1>0, <2>2, DoneStays
<1>5. ActiveStored'
  <2> SUFFICES ASSUME NEW e \in Endpoints, secret'[e] \in Requests
               PROVE  /\ request'[secret'[e]].endpoint = e
                      /\ request'[secret'[e]].stored \in {"yes", "unknown"}
    BY DEF ActiveStored
  <2>1. CASE secret'[e] = secret[e]
    <3> DEFINE s == secret[e]
    <3>1. s \in Requests /\ request[s].endpoint = e /\ request[s].stored \in {"yes", "unknown"}
      BY <2>1 DEF SecretInv, ActiveStored
    <3>2. request[s].pc \in {"respond", "done"}
      BY <1>2, <3>1 DEF RequestOK
    <3>3. Move(request[s], request'[s])
      BY <1>0, <3>1
    <3>4. request'[s].endpoint = e /\ request'[s].stored \in {"yes", "unknown"}
      BY <3>1, <3>2, <3>3 DEF Move
    <3> QED
      BY <2>1, <3>4
  <2>2. ASSUME NEW r \in Requests, Wrote(r), secret'[e] # secret[e]
        PROVE  /\ request'[secret'[e]].endpoint = e
               /\ request'[secret'[e]].stored \in {"yes", "unknown"}
    <3>1. secret'[e] = r /\ request'[r].endpoint = e
      BY <2>2 DEF Wrote, SecretInv, SecretTyped
    <3> QED
      BY <2>2, <3>1 DEF Wrote
  <2> QED
    BY <1>1, <2>1, <2>2
<1>6. Superseded'
  <2> SUFFICES ASSUME NEW r \in Requests,
                      request'[r].kind = "rotate", request'[r].stored = "yes"
               PROVE  /\ secret'[request'[r].endpoint] # FirstSecret
                      /\ secret'[request'[r].endpoint] \notin request'[r].after \cap Settled'
    BY DEF Superseded
  <2> DEFINE e == request'[r].endpoint
  <2>1. e \in Endpoints
    BY <1>2 DEF RequestOK
  <2>2. \* whoever writes in this step is neither the first secret nor settled before
        ASSUME NEW s \in Requests, Wrote(s), secret'[e] = s
        PROVE  secret'[e] # FirstSecret /\ s \notin request'[r].after \cap Settled'
    <3>1. s # FirstSecret
      BY RegistryAssumption
    <3>2. CASE request[s].pc \in {"insert", "update"}
      <4>1. s \notin request[r].after
        BY <3>2 DEF SecretInv, AfterDone
      <4>2. s \notin Answered
        BY <1>2, <3>2 DEF Answered, RequestOK
      <4>3. request'[r].after \subseteq request[r].after \cup Answered
        BY <1>0 DEF Move
      <4> QED
        BY <2>2, <3>1, <4>1, <4>2, <4>3
    <3>3. CASE request[s].stored = "late"
      <4>1. request[s].pc \notin {"insert", "update"}
        BY <1>2, <3>3 DEF RequestOK
      <4>2. request'[s].stored = "unknown"
        BY <1>0, <2>2, <3>3, <4>1 DEF Move, Wrote
      <4> QED
        BY <2>2, <3>1, <4>2 DEF Settled
    <3> QED
      BY <2>2, <3>2, <3>3 DEF Wrote
  <2>3. CASE request[r].stored # "yes"
    <3>1. Wrote(r)
      BY <1>1, <2>3
    <3>2. secret'[e] = r
      BY <2>1, <3>1 DEF Wrote, SecretInv, SecretTyped
    <3> QED
      BY <2>2, <3>1, <3>2
  <2>4. CASE request[r].stored = "yes"
    <3>1. request[r].pc \in {"respond", "done"}
      BY <1>2, <2>4 DEF RequestOK
    <3>2. request[r].kind = "rotate" /\ request'[r].after = request[r].after
          /\ request[r].endpoint = e
      BY <1>0, <2>4, <3>1 DEF Move
    <3>3. secret[e] # FirstSecret /\ secret[e] \notin request[r].after \cap Settled
      BY <2>4, <3>2 DEF SecretInv, Superseded
    <3>4. CASE secret'[e] = secret[e]
      <4>1. ASSUME secret[e] \in request[r].after PROVE secret[e] \notin Settled'
        <5>1. secret[e] \in Requests /\ request[secret[e]].pc = "done"
          BY <4>1 DEF SecretInv, AfterDone
        <5> QED
          BY <1>0, <3>3, <4>1, <5>1, DoneStays
      <4> QED
        BY <3>2, <3>3, <3>4, <4>1
    <3>5. CASE secret'[e] # secret[e]
      <4>1. PICK s \in Requests : Wrote(s)
        BY <1>1, <3>5
      <4>2. secret'[e] = s
        BY <2>1, <3>5, <4>1 DEF Wrote, SecretInv, SecretTyped
      <4> QED
        BY <2>2, <4>1, <4>2
    <3> QED
      BY <3>4, <3>5
  <2> QED
    BY <2>3, <2>4
<1> QED
  BY <1>0, <1>3, <1>4, <1>5, <1>6 DEF SecretInv

\* SecretInv holds initially.
LEMMA SecretStart == Init => SecretInv
<1> SUFFICES ASSUME Init PROVE SecretInv
  OBVIOUS
<1>1. request = [r \in Requests |-> NewRequest] /\ secret \in [Endpoints -> {FirstSecret, None}]
  BY DEF Init, RegistryInit
<1>2. NewRequest \in Request
  BY DEF NewRequest, Request, Kinds, Pcs, Answers
<1>3. RequestOK(NewRequest) /\ NewRequest.after = {} /\ NewRequest.stored = "no"
  BY <1>2, RegistryAssumption DEF RequestOK, NewRequest, Kinds
<1>4. \A r \in Requests : request[r] = NewRequest
  BY <1>1
<1>5. RequestsOK
  BY <1>1, <1>2, <1>3, <1>4 DEF RequestsOK
<1>6. SecretTyped
  BY <1>1 DEF SecretTyped, Secrets
<1>7. ActiveStored
  BY <1>1, RegistryAssumption DEF ActiveStored
<1>8. AfterDone /\ Superseded
  BY <1>3, <1>4 DEF AfterDone, Superseded
<1> QED
  BY <1>5, <1>6, <1>7, <1>8 DEF SecretInv

\* SecretInv is an invariant.
LEMMA SecretInvariant == Spec => []SecretInv
<1>1. SecretInv /\ [Next]_vars => SecretInv'
  BY SecretStep
<1> QED
  BY <1>1, SecretStart, PTL DEF Spec

\* A rotation that was answered has ended every secret handed out before it began,
\* however many rotations overlap, unless one of them failed with an unknown outcome.
THEOREM RotationsTakeEffect == Spec => []LastRotationWins
<1>1. SecretInv => LastRotationWins
  <2> SUFFICES ASSUME SecretInv, NEW e \in Endpoints, secret[e] \in Retired(e) PROVE FALSE
    BY DEF LastRotationWins
  <2>1. PICK r \in Rotated(e) : secret[e] = FirstSecret \/ secret[e] \in request[r].after \cap Settled
    BY DEF Retired
  <2>2. r \in Requests /\ request[r].kind = "rotate" /\ request[r].endpoint = e /\ request[r].answer = "ok"
    BY DEF Rotated
  <2>3. request[r].stored = "yes"
    BY <2>2 DEF SecretInv, RequestsOK, RequestOK
  <2> QED
    BY <2>1, <2>2, <2>3 DEF SecretInv, Superseded
<1> QED
  BY <1>1, SecretInvariant, PTL

\* Whose secret is active: that of a request that stored it and was not refused.
THEOREM SecretsAccounted == Spec => []ActiveSecretAccounted
<1>1. SecretInv => ActiveSecretAccounted
  BY DEF SecretInv, ActiveStored, RequestsOK, RequestOK, ActiveSecretAccounted
<1> QED
  BY <1>1, SecretInvariant, PTL

-----------------------------------------------------------------------------
(* Which secrets are used                                                  *)

SignerTyped == signer \in [Signers -> Signer]

\* What was retired when a call began is still retired when it reads the secret, and
\* what it has read was not.
SignerOK(w) ==
  /\ signer[w].pc = "load" => /\ signer[w].endpoint \in Endpoints
                              /\ signer[w].retired \subseteq Retired(signer[w].endpoint)
  /\ signer[w].pc = "sign" => signer[w].secret \notin signer[w].retired

SignerInv == SignerTyped /\ \A w \in Signers : SignerOK(w)

\* A retired secret stays retired.
LEMMA RetiredStays ==
  ASSUME SecretInv, [Next]_vars, NEW e \in Endpoints
  PROVE  Retired(e) \subseteq Retired(e)'
<1>0. RequestsOK /\ \A r \in Requests : Move(request[r], request'[r])
  BY RequestMoves DEF SecretInv
<1> SUFFICES ASSUME NEW s \in Retired(e) PROVE s \in Retired(e)'
  OBVIOUS
<1>1. PICK r \in Rotated(e) : s = FirstSecret \/ s \in request[r].after \cap Settled
  BY DEF Retired
<1>2. /\ r \in Requests /\ request[r].kind = "rotate" /\ request[r].endpoint = e
      /\ request[r].answer = "ok"
  BY DEF Rotated
<1>3. request[r].pc = "done"
  BY <1>0, <1>2 DEF RequestsOK, RequestOK
<1>4. /\ request'[r].kind = "rotate" /\ request'[r].endpoint = e
      /\ request'[r].answer = "ok" /\ request'[r].after = request[r].after
  BY <1>0, <1>2, <1>3 DEF Move
<1>5. r \in Rotated(e)'
  BY <1>2, <1>4 DEF Rotated
<1>6. s \in Settled /\ s \in request[r].after => s \in Settled'
  <2> SUFFICES ASSUME s \in Settled, s \in request[r].after PROVE s \in Settled'
    OBVIOUS
  <2>1. s \in Requests /\ request[s].pc = "done"
    BY <1>2 DEF SecretInv, AfterDone
  <2> QED
    BY <1>0, <2>1, DoneStays
<1>7. s \in Secrets
  BY DEF Retired
<1> QED
  BY <1>1, <1>4, <1>5, <1>6, <1>7 DEF Retired, Secrets

\* Every step keeps SignerInv.
LEMMA SignerStep == ASSUME SecretInv, SignerInv, LastRotationWins, [Next]_vars PROVE SignerInv'
<1>1. CASE UNCHANGED signer
  <2>1. SignerTyped'
    BY <1>1 DEF SignerInv, SignerTyped
  <2>2. ASSUME NEW w \in Signers PROVE SignerOK(w)'
    <3>1. CASE signer[w].pc = "load"
      <4>1. PICK e \in Endpoints : e = signer[w].endpoint /\ signer[w].retired \subseteq Retired(e)
        BY <3>1 DEF SignerInv, SignerOK
      <4>2. signer[w].retired \subseteq Retired(e)'
        BY <4>1, RetiredStays
      <4>3. Retired(e)' = Retired(signer[w].endpoint)'
        BY <1>1, <4>1 DEF Retired, Rotated
      <4> QED
        BY <1>1, <3>1, <4>1, <4>2, <4>3 DEF SignerOK
    <3>2. CASE signer[w].pc # "load"
      BY <1>1, <3>2 DEF SignerInv, SignerOK
    <3> QED
      BY <3>1, <3>2
  <2> QED
    BY <2>1, <2>2 DEF SignerInv
<1>2. ASSUME NEW w \in Signers, SigningNext(w) PROVE SignerInv'
  <2> DEFINE c == signer[w]
  <2>0. /\ \A v \in Signers : signer[v] \in Signer
        /\ SecretTyped
    BY DEF SignerInv, SignerTyped, SecretInv
  <2>1. UNCHANGED request
    BY <1>2 DEF SigningNext, BeginSigning, LoadForWorker, Sign
  <2>2. ASSUME NEW p \in Signer, signer' = [signer EXCEPT ![w] = p],
               p.pc = "load" => p.endpoint \in Endpoints /\ p.retired \subseteq Retired(p.endpoint),
               p.pc = "sign" => p.secret \notin p.retired
        PROVE  SignerInv'
    <3>1. \A v \in Signers : signer'[v] = IF v = w THEN p ELSE signer[v]
      BY <2>2 DEF SignerInv, SignerTyped
    <3>2. SignerTyped'
      BY <2>2 DEF SignerInv, SignerTyped
    <3>3. ASSUME NEW v \in Signers PROVE SignerOK(v)'
      <4> DEFINE q == signer'[v]
      <4>1. /\ q.pc = "load" => q.endpoint \in Endpoints /\ q.retired \subseteq Retired(q.endpoint)
            /\ q.pc = "sign" => q.secret \notin q.retired
        BY <2>2, <3>1 DEF SignerInv, SignerOK
      <4>2. Retired(q.endpoint) = Retired(signer[v].endpoint)'
        BY <2>1 DEF Retired, Rotated, Settled
      <4> QED
        BY <4>1, <4>2 DEF SignerOK
    <3> QED
      BY <3>2, <3>3 DEF SignerInv
  <2>3. ASSUME NEW e \in Endpoints, BeginSigning(w, e) PROVE SignerInv'
    <3> DEFINE p == [c EXCEPT !.pc = "load", !.endpoint = e, !.retired = Retired(e)]
    <3>1. signer' = [signer EXCEPT ![w] = p]
      BY <2>3 DEF BeginSigning
    <3>2. Retired(e) \subseteq Secrets
      BY DEF Retired
    <3>3. p \in Signer /\ p.pc = "load" /\ p.endpoint = e /\ p.retired = Retired(e)
      BY <2>0, <3>2 DEF Signer
    <3> HIDE DEF p
    <3> QED
      BY <2>2, <3>1, <3>3
  <2>4. CASE LoadForWorker(w)
    <3> DEFINE p == [c EXCEPT !.pc = "sign", !.secret = secret[c.endpoint]]
    <3>1. signer' = [signer EXCEPT ![w] = p] /\ c.pc = "load"
      BY <2>0, <2>4 DEF LoadForWorker, SignerInv, SignerTyped
    <3>2. c.endpoint \in Endpoints /\ c.retired \subseteq Retired(c.endpoint)
      BY <3>1 DEF SignerInv, SignerOK
    <3>3. secret[c.endpoint] \in Secrets \cup {None}
      BY <2>0, <3>2 DEF SecretTyped
    <3>4. p \in Signer /\ p.pc = "sign" /\ p.retired = c.retired /\ p.secret = secret[c.endpoint]
      BY <2>0, <3>3 DEF Signer
    <3>5. secret[c.endpoint] \notin c.retired
      BY <3>2 DEF LastRotationWins
    <3> HIDE DEF p
    <3> QED
      BY <2>2, <3>1, <3>4, <3>5
  <2>5. CASE Sign(w)
    <3> DEFINE p == [c EXCEPT !.pc = "idle"]
    <3>1. signer' = [signer EXCEPT ![w] = p]
      BY <2>0, <2>5 DEF Sign, SignerInv, SignerTyped
    <3>2. p \in Signer /\ p.pc = "idle"
      BY <2>0 DEF Signer
    <3> HIDE DEF p
    <3> QED
      BY <2>2, <3>1, <3>2
  <2> QED
    BY <1>2, <2>3, <2>4, <2>5 DEF SigningNext
<1>3. ASSUME NEW r \in Requests, RequestStep(r) PROVE UNCHANGED signer
  BY <1>3 DEF RequestStep, Accept, Read, Acquire, AcquireFails, StatementFails, InsertTenant,
              CheckTenant, InsertEndpoint, UpdateSecret, GoesOn, Respond, ResponseLost, CommitsLate
<1> QED
  BY <1>1, <1>2, <1>3, RegistryCases DEF ExitProcess, registry

\* SignerInv is an invariant.
LEMMA SignerInvariant == Spec => []SignerInv
<1>1. Init => SignerInv
  <2> SUFFICES ASSUME Init PROVE SignerInv
    OBVIOUS
  <2>1. signer = [w \in Signers |-> IdleSigner]
    BY DEF Init, RegistryInit
  <2>2. IdleSigner \in Signer /\ IdleSigner.pc = "idle"
    BY DEF IdleSigner, Signer
  <2> HIDE DEF IdleSigner
  <2> QED
    BY <2>1, <2>2 DEF SignerInv, SignerOK, SignerTyped
<1>2. SecretInv /\ LastRotationWins /\ SignerInv /\ [Next]_vars => SignerInv'
  BY SignerStep
<1> QED
  BY <1>1, <1>2, SecretInvariant, RotationsTakeEffect, PTL DEF Spec

\* A worker call never signs with a secret whose replacement was answered before the
\* call began.
THEOREM SignaturesFresh == Spec => []FreshSignatures
<1>1. SignerInv => FreshSignatures
  BY DEF SignerInv, SignerOK, FreshSignatures
<1> QED
  BY <1>1, SignerInvariant, PTL

-----------------------------------------------------------------------------
(* The exit code                                                           *)

\* A step of the process changes the server by one of its own steps, which leave the
\* requests alone, or by the exit.
LEMMA ServerCases ==
  ASSUME [Next]_vars
  PROVE  \/ UNCHANGED lifecycle
         \/ ExitProcess
         \/ /\ UNCHANGED registry
            /\ \/ Boot \/ BootFails \/ Signal \/ ShutdownMetrics
               \/ DeadlinePasses \/ StopApi \/ StopPool
               \/ \E l \in Listeners : Listen(l) \/ ListenFails(l)
               \/ \E cause \in {"signal", "listener"} : TakeCase(cause)
<1>1. CASE UNCHANGED vars
  BY <1>1 DEF vars
<1>2. CASE \E r \in Requests : \/ AcceptRequest(r) \/ ReadRequest(r) \/ AcquireConn(r)
                               \/ EndStatement(r) \/ WriteResponse(r)
                               \/ RequestFault(r) \/ LateCommit(r)
  BY <1>2 DEF AcceptRequest, ReadRequest, AcquireConn, EndStatement, WriteResponse,
              RequestFault, LateCommit
<1>3. CASE BeginWalk \/ ListPage \/ DeliveriesMove
  BY <1>3 DEF BeginWalk, ListPage, DeliveriesMove
<1>4. CASE ServerStep
  BY <1>4 DEF ServerStep, StopApi, StopPool
<1>5. CASE DeadlineStep \/ Disturbance
  BY <1>5 DEF DeadlineStep, Disturbance
<1>6. CASE \E w \in Signers : SigningStep(w)
  BY <1>6 DEF SigningStep
<1> QED
  BY <1>1, <1>2, <1>3, <1>4, <1>5, <1>6 DEF Next

\* Every step keeps the types of the server.
LEMMA ServerTypes == ASSUME ServerTypeOK, [Next]_vars PROVE ServerTypeOK'
<1>1. CASE UNCHANGED lifecycle
  BY <1>1 DEF ServerTypeOK, lifecycle
<1>2. CASE ExitProcess
  BY <1>2 DEF ExitProcess, Exit, ExitCode, ServerTypeOK, Server
<1>3. CASE Boot
  BY <1>3 DEF Boot, ServerTypeOK, Server, Listeners
<1>4. CASE BootFails \/ Signal \/ DeadlinePasses
  BY <1>4 DEF BootFails, Signal, DeadlinePasses, ServerTypeOK, Server
<1>5. CASE StopApi
  BY <1>5 DEF StopApi, ShutdownApi, CloseListener, ServerTypeOK, Server, Listeners
<1>6. CASE ShutdownMetrics
  BY <1>6 DEF ShutdownMetrics, ServerTypeOK, Server, Listeners
<1>7. CASE StopPool
  BY <1>7 DEF StopPool, ClosePool, ServerTypeOK, Server
<1>8. ASSUME NEW l \in Listeners, Listen(l) \/ ListenFails(l) PROVE ServerTypeOK'
  BY <1>8 DEF Listen, ListenFails, ServerTypeOK, Server
<1>9. ASSUME NEW cause \in {"signal", "listener"}, TakeCase(cause) PROVE ServerTypeOK'
  BY <1>9 DEF TakeCase, CloseListener, ServerTypeOK, Server, Listeners
<1> QED
  BY <1>1, <1>2, <1>3, <1>4, <1>5, <1>6, <1>7, <1>8, <1>9, ServerCases

\* Nobody is cut off but by the exit, and nobody is accepted after the listener has
\* closed.
LEMMA OnlyExitCuts ==
  ASSUME RequestsOK, [Next]_vars, ~ExitProcess, NEW r \in Requests
  PROVE  /\ request[r].answer # "cut" => request'[r].answer # "cut"
         /\ ~Serving /\ request[r].pc = "new" => request'[r].pc = "new"
<1>1. CASE UNCHANGED request
  BY <1>1
<1>2. ASSUME NEW s \in Requests, RequestStep(s),
             request[s].pc = "new" /\ request[s].stored = "no" => Serving
      PROVE  /\ request[r].answer # "cut" => request'[r].answer # "cut"
             /\ ~Serving /\ request[r].pc = "new" => request'[r].pc = "new"
  <2>1. CASE r # s
    <3>1. \E p : Becomes(s, p)
      BY <1>2 DEF RequestStep, Accept, Read, Acquire, AcquireFails, StatementFails, InsertTenant,
                  CheckTenant, InsertEndpoint, UpdateSecret, GoesOn, Stored, Concludes, Respond,
                  ResponseLost, CommitsLate
    <3>2. request'[r] = request[r]
      BY <2>1, <3>1 DEF Becomes, RequestsOK
    <3> QED
      BY <3>2
  <2>2. CASE r = s
    <3>1. RequestOK(request[s]) /\ RequestOK(request'[s]) /\ Move(request[s], request'[s])
      BY RequestMoves DEF RequestsOK
    <3>2. ~(~Serving /\ request[r].pc = "new")
      BY <1>2, <2>2, <3>1 DEF RequestOK
    <3>3. ASSUME request[s].answer # "cut" PROVE request'[s].answer # "cut"
      <4>1. CASE Respond(s) \/ ResponseLost(s)
        <5>1. request'[s].answer \in {request[s].result, "lost"}
          <6> DEFINE q == request[s]
                     p(answer) == [q EXCEPT !.pc = "done", !.answer = answer]
          <6>1. request'[s] = p(q.result) \/ request'[s] = p("lost")
            BY <4>1 DEF Respond, ResponseLost, Becomes, RequestsOK
          <6>2. q \in Request
            BY <3>1 DEF RequestOK
          <6>3. \A answer : p(answer).answer = answer
            BY <6>2 DEF Request
          <6> HIDE DEF p
          <6> QED
            BY <6>1, <6>3
        <5> QED
          BY <3>1, <5>1 DEF RequestOK
      <4>2. ASSUME request'[s].pc = "done" => request[s].pc = "done" PROVE request'[s].answer # "cut"
        BY <3>1, <3>3, <4>2 DEF RequestOK, Move
      <4>3. CASE request'[s].pc \in {"read", "tenant", "insert", "update", "respond"}
        BY <4>2, <4>3
      <4>4. CASE request'[s].pc = request[s].pc
        BY <4>2, <4>4
      <4>5. \/ Respond(s) \/ ResponseLost(s)
            \/ request'[s].pc \in {"read", "tenant", "insert", "update", "respond"}
            \/ request'[s].pc = request[s].pc
        <5> USE DEF Becomes, RequestsOK, Request
        <5>1. CASE \E kind \in Kinds, t \in Tenants, e \in Endpoints : Accept(s, kind, t, e)
          BY <5>1 DEF Accept
        <5>2. CASE Read(s)
          <6>1. request[s].kind \in Kinds /\ request[s].pc = "read" /\ request[s] \in Request
            BY <3>1, <5>2 DEF Read, RequestOK
          <6>2. FirstStatement(request[s].kind) \in {"tenant", "insert", "update"}
            BY <6>1 DEF FirstStatement, Kinds
          <6> QED
            BY <5>2, <6>1, <6>2 DEF Read
        <5>3. CASE Acquire(s) \/ CommitsLate(s)
          BY <5>3 DEF Acquire, CommitsLate
        <5>4. CASE \/ AcquireFails(s) \/ StatementFails(s)
                   \/ \E result \in {"ok", "error"} : InsertTenant(s, result)
          BY <5>4 DEF AcquireFails, StatementFails, InsertTenant, Concludes
        <5>5. CASE CheckTenant(s)
          BY <5>5 DEF CheckTenant, Concludes
        <5>6. ASSUME NEW e, NEW told, Stored(s, e, told) PROVE request'[s].pc = "respond"
          BY <5>6 DEF Stored
        <5>7. ASSUME NEW told, InsertEndpoint(s, told) \/ UpdateSecret(s, told)
              PROVE  request'[s].pc = "respond"
          <6>1. CASE Concludes(s, "not_found")
            BY <6>1 DEF Concludes
          <6>2. CASE \E e : Stored(s, e, told)
            BY <5>6, <6>2
          <6> QED
            BY <5>7, <6>1, <6>2 DEF InsertEndpoint, UpdateSecret
        <5>8. CASE GoesOn(s)
          BY <5>6, <5>8 DEF GoesOn
        <5> QED
          BY <1>2, <5>1, <5>2, <5>3, <5>4, <5>5, <5>7, <5>8 DEF RequestStep
      <4> QED
        BY <4>1, <4>3, <4>4, <4>5
    <3> QED
      BY <2>2, <3>2, <3>3
  <2> QED
    BY <2>1, <2>2
<1> QED
  BY <1>1, <1>2, RegistryCases DEF SigningNext, BeginSigning, LoadForWorker, Sign, registry

\* The listener is closed, or was never opened, when no request may come any more.
ListenerClosed ==
  /\ server.pc = "boot" => listener["api"] = "off" /\ Active = {}
  /\ server.pc \notin {"boot", "select"} => listener["api"] \in {"off", "closed"}

\* After a Shutdown that was not late no request is under way, and the pool is closed
\* after it.
Drained ==
  /\ server.pc \in {"boot", "select", "api"} => server.late = {}
  /\ server.pc \in {"boot", "select"} => server.cause = "none"
  /\ server.pc \in {"api", "metrics", "close"} => server.cause # "boot"
  /\ server.pc \in {"metrics", "close", "exit", "exited"} /\ server.cause # "boot"
       /\ "api" \notin server.late => Active = {}
  /\ pool \in {"closing", "closed"} =>
       server.pc \in {"close", "exit", "exited"} /\ server.cause # "boot"

\* The cause of the end is known, and nobody was cut off before it.
Uncut ==
  /\ server.cause = "signal" => signal = "sent"
  /\ server.pc # "exited" => server.exit = "none" /\ \A r \in Requests : request[r].answer # "cut"

\* What the exit code says.
CleanExit ==
  server.exit = "clean" => signal = "sent" /\ \A r \in Requests : request[r].answer # "cut"

ExitInv == RequestsOK /\ ServerTypeOK /\ ListenerClosed /\ Drained /\ Uncut /\ CleanExit

\* Every step keeps ExitInv.
LEMMA ExitStep == ASSUME ExitInv, [Next]_vars PROVE ExitInv'
<1> USE DEF ExitInv
<1>0. RequestsOK' /\ ServerTypeOK' /\ \A r \in Requests : Move(request[r], request'[r])
  BY RequestMoves, ServerTypes
<1>1. CASE ExitProcess
  <2>1. /\ server.pc = "exit" /\ server'.pc = "exited" /\ server'.exit = ExitCode
        /\ server'.cause = server.cause /\ server'.late = server.late
        /\ UNCHANGED <<listener, signal, pool>>
    BY <1>1 DEF ExitProcess, Exit, ServerTypeOK, Server
  <2>2. \A r \in Requests : r \notin Active => request'[r] = request[r]
    BY <1>1 DEF ExitProcess
  <2>3. \A r \in Active : request'[r].pc = "done"
    <3> SUFFICES ASSUME NEW r \in Active PROVE request'[r].pc = "done"
      OBVIOUS
    <3>1. r \in Requests /\ request[r] \in Request
      BY DEF Active, RequestsOK
    <3> DEFINE p == [request[r] EXCEPT !.pc = "done", !.answer = "cut"]
    <3>2. request'[r] = p
      BY <1>1, <3>1 DEF ExitProcess
    <3>3. p.pc = "done"
      BY <3>1 DEF Request
    <3> QED
      BY <3>2, <3>3
  <2>4. Active' = {}
    BY <2>2, <2>3 DEF Active
  <2>5. ListenerClosed' /\ Drained'
    BY <2>1, <2>4 DEF ListenerClosed, Drained
  <2>6. Uncut'
    BY <2>1 DEF Uncut
  <2>7. CleanExit'
    <3> SUFFICES ASSUME server'.exit = "clean"
                 PROVE  signal' = "sent" /\ \A r \in Requests : request'[r].answer # "cut"
      BY DEF CleanExit
    <3>1. server.cause = "signal" /\ server.late = {}
      BY <2>1 DEF ExitCode
    <3>2. Active = {}
      BY <2>1, <3>1 DEF Drained
    <3> QED
      BY <2>1, <2>2, <3>1, <3>2 DEF Uncut
  <2> QED
    BY <1>0, <2>5, <2>6, <2>7
<1>2. CASE ~ExitProcess /\ UNCHANGED lifecycle
  <2>1. UNCHANGED <<server, listener, signal, pool>>
    BY <1>2 DEF lifecycle
  <2>2. \A r \in Requests : request[r].answer # "cut" => request'[r].answer # "cut"
    BY <1>2, OnlyExitCuts
  <2>3. ~Serving => Active' \subseteq Active
    <3> SUFFICES ASSUME ~Serving, NEW r \in Requests, r \in Active' PROVE r \in Active
      BY DEF Active
    <3>1. request[r].pc = "new" => request'[r].pc = "new"
      BY <1>2, OnlyExitCuts
    <3>2. request[r].pc = "done" => request'[r].pc = "done"
      BY <1>0 DEF Move
    <3> QED
      BY <3>1, <3>2 DEF Active
  <2>4. server.pc # "select" => ~Serving
    BY DEF ListenerClosed, Serving
  <2>5. ListenerClosed' /\ Drained'
    BY <2>1, <2>3, <2>4 DEF ListenerClosed, Drained
  <2>6. Uncut' /\ CleanExit'
    BY <2>1, <2>2 DEF Uncut, CleanExit
  <2> QED
    BY <1>0, <2>5, <2>6
<1>3. ASSUME UNCHANGED registry,
             ListenerClosed', Drained',
             server'.cause = "signal" => signal' = "sent",
             server.pc # "exited", server'.exit = server.exit
      PROVE  ExitInv'
  <2>1. UNCHANGED request
    BY <1>3 DEF registry
  <2>2. server.exit = "none" /\ \A r \in Requests : request[r].answer # "cut"
    BY <1>3 DEF Uncut
  <2> QED
    BY <1>0, <1>3, <2>1, <2>2 DEF Uncut, CleanExit
<1>4. ASSUME UNCHANGED registry PROVE Active' = Active
  BY <1>4 DEF registry, Active
<1>5. server \in Server /\ listener \in [Listeners -> {"off", "starting", "serving", "failed", "closed"}]
      /\ "api" \in Listeners
  BY DEF ServerTypeOK, Listeners
<1> USE DEF ListenerClosed, Drained, Server
<1>6. CASE UNCHANGED registry /\ Boot
  <2>1. server.pc = "boot" /\ server' = [server EXCEPT !.pc = "select"]
    BY <1>6 DEF Boot
  <2>2. server'.pc = "select" /\ server'.cause = server.cause /\ server'.late = server.late
        /\ server'.exit = server.exit
    BY <1>5, <2>1
  <2> QED
    BY <1>3, <1>6, <2>1, <2>2 DEF Uncut, Boot
<1>7. CASE UNCHANGED registry /\ BootFails
  <2>1. server.pc = "boot" /\ server'.pc = "exit" /\ server'.cause = "boot"
        /\ server'.late = server.late /\ server'.exit = server.exit /\ UNCHANGED <<listener, signal, pool>>
    BY <1>5, <1>7 DEF BootFails
  <2> QED
    BY <1>3, <1>7, <2>1
<1>8. CASE UNCHANGED registry /\ Signal
  <2>1. UNCHANGED <<server, listener, pool>> /\ signal' = "sent" /\ server.pc # "exited"
    BY <1>8 DEF Signal
  <2> QED
    BY <1>3, <1>4, <1>8, <2>1
<1>9. CASE UNCHANGED registry /\ DeadlinePasses
  <2>1. UNCHANGED <<server, listener, signal, pool>> /\ server.pc # "exited"
    BY <1>9 DEF DeadlinePasses
  <2> QED
    BY <1>3, <1>4, <1>9, <2>1 DEF Uncut
<1>10. CASE UNCHANGED registry /\ StopApi
  <2>1. server.pc = "api" /\ UNCHANGED <<signal, pool>> /\ listener'["api"] = listener["api"]
    BY <1>5, <1>10 DEF StopApi, ShutdownApi, CloseListener
  <2>2. \/ Active = {} /\ server' = [server EXCEPT !.pc = "metrics"]
        \/ server' = [server EXCEPT !.pc = "metrics", !.late = @ \cup {"api"}]
    BY <1>10 DEF StopApi, ShutdownApi
  <2>3. /\ server'.pc = "metrics" /\ server'.cause = server.cause /\ server'.exit = server.exit
        /\ Active = {} \/ "api" \in server'.late
    <3> DEFINE p == [server EXCEPT !.pc = "metrics"]
               late == server.late \cup {"api"}
               q == [server EXCEPT !.pc = "metrics", !.late = late]
    <3>1. (Active = {} /\ server' = p) \/ server' = q
      BY <2>2
    <3>2. p.pc = "metrics" /\ p.cause = server.cause /\ p.exit = server.exit
      BY <1>5
    <3>3. "api" \in late
      OBVIOUS
    <3> HIDE DEF late
    <3>4. q.pc = "metrics" /\ q.cause = server.cause /\ q.exit = server.exit /\ q.late = late
      BY <1>5
    <3> QED
      BY <3>1, <3>2, <3>3, <3>4
  <2>4. ListenerClosed' /\ Drained'
    BY <1>4, <1>10, <2>1, <2>3
  <2> QED
    BY <1>3, <1>10, <2>1, <2>3, <2>4 DEF Uncut
<1>11. CASE UNCHANGED registry /\ ShutdownMetrics
  <2>1. server.pc = "metrics" /\ UNCHANGED <<signal, listener>>
    BY <1>11 DEF ShutdownMetrics
  <2>2. /\ server'.pc = "close" /\ server'.cause = server.cause /\ server'.exit = server.exit
        /\ "api" \in server.late => "api" \in server'.late
    <3> DEFINE p == [server EXCEPT !.pc = "close"]
               late == server.late \cup {"metrics"}
               q == [server EXCEPT !.pc = "close", !.late = late]
    <3>1. server' = p \/ server' = q
      BY <1>11 DEF ShutdownMetrics
    <3>2. p.pc = "close" /\ p.cause = server.cause /\ p.exit = server.exit /\ p.late = server.late
      BY <1>5
    <3>3. "api" \in server.late => "api" \in late
      OBVIOUS
    <3> HIDE DEF late
    <3>4. q.pc = "close" /\ q.cause = server.cause /\ q.exit = server.exit /\ q.late = late
      BY <1>5
    <3> QED
      BY <3>1, <3>2, <3>3, <3>4
  <2>3. ListenerClosed' /\ Drained'
    BY <1>4, <1>11, <2>1, <2>2
  <2> QED
    BY <1>3, <1>11, <2>1, <2>2, <2>3 DEF Uncut
<1>12. CASE UNCHANGED registry /\ StopPool
  <2>1. server.pc = "close" /\ UNCHANGED <<signal, listener>>
    BY <1>12 DEF StopPool, ClosePool
  <2>2. /\ server'.pc = "exit" /\ server'.cause = server.cause /\ server'.exit = server.exit
        /\ server'.late = server.late
    BY <1>5, <1>12 DEF StopPool, ClosePool
  <2>3. ListenerClosed' /\ Drained'
    BY <1>4, <1>12, <2>1, <2>2
  <2> QED
    BY <1>3, <1>12, <2>1, <2>2, <2>3 DEF Uncut
<1>13. ASSUME UNCHANGED registry, NEW l \in Listeners, Listen(l) \/ ListenFails(l) PROVE ExitInv'
  <2>1. /\ UNCHANGED <<server, signal, pool>>
        /\ listener["api"] \in {"starting", "serving"} \/ listener'["api"] = listener["api"]
    BY <1>5, <1>13 DEF Listen, ListenFails
  <2>2. ListenerClosed' /\ Drained'
    BY <1>4, <1>13, <2>1
  <2>3. server.pc # "exited" => ExitInv'
    BY <1>3, <1>13, <2>1, <2>2 DEF Uncut
  <2>4. server.pc = "exited" => ExitInv'
    BY <1>0, <1>13, <2>1, <2>2 DEF Uncut, CleanExit, registry
  <2> QED
    BY <2>3, <2>4
<1>14. ASSUME UNCHANGED registry, NEW cause \in {"signal", "listener"}, TakeCase(cause) PROVE ExitInv'
  <2>1. server.pc = "select" /\ UNCHANGED <<signal, pool>> /\ listener'["api"] = "closed"
        /\ (cause = "signal" => signal = "sent")
    BY <1>5, <1>14 DEF TakeCase, CloseListener
  <2>2. /\ server'.pc = "api" /\ server'.cause = cause /\ server'.exit = server.exit
        /\ server'.late = server.late
    BY <1>5, <1>14 DEF TakeCase
  <2>3. ListenerClosed' /\ Drained'
    BY <2>1, <2>2
  <2> QED
    BY <1>3, <1>14, <2>1, <2>2, <2>3
<1> QED
  BY <1>1, <1>2, <1>6, <1>7, <1>8, <1>9, <1>10, <1>11, <1>12, <1>13, <1>14, ServerCases

\* ExitInv is an invariant.
LEMMA ExitInvariant == Spec => []ExitInv
<1>1. Init => ExitInv
  <2> SUFFICES ASSUME Init PROVE ExitInv
    OBVIOUS
  <2>1. RequestsOK
    BY SecretStart DEF SecretInv
  <2>2. /\ server = [pc |-> "boot", cause |-> "none", late |-> {}, exit |-> "none"]
        /\ listener = [l \in Listeners |-> "off"]
        /\ signal = "none" /\ deadline = "unset" /\ pool = "none"
    BY DEF Init, ServerInit
  <2>3. ServerTypeOK
    BY <2>2 DEF ServerTypeOK, Server
  <2>4. \A r \in Requests : request[r].pc = "new" /\ request[r].answer = "none"
    BY DEF Init, RegistryInit, NewRequest
  <2>5. Active = {}
    BY <2>4 DEF Active
  <2> QED
    BY <2>1, <2>2, <2>3, <2>4, <2>5
       DEF ExitInv, ListenerClosed, Drained, Uncut, CleanExit, Listeners
<1>2. ExitInv /\ [Next]_vars => ExitInv'
  BY ExitStep
<1> QED
  BY <1>1, <1>2, PTL DEF Spec

\* A process that exits with 0 was stopped by a signal and has answered every request it
\* accepted, and the pool outlives the requests that Shutdown waited for.
THEOREM CleanExits == Spec => []CleanExitLosesNothing
<1>1. ExitInv => CleanExitLosesNothing
  BY DEF ExitInv, Drained, CleanExit, CleanExitLosesNothing
<1> QED
  BY <1>1, ExitInvariant, PTL

-----------------------------------------------------------------------------
(* The pages of the DLQ                                                    *)

\* What no later page can show: the deliveries with no place in s behind the first o.
Missed(s, o) == {d \in Deliveries : \A k \in 1..Len(s) : s[k] = d => k <= o}

\* A delivery that joins a list hides nothing.
LEMMA InsertHidesNothing ==
  ASSUME NEW s \in Seq(Deliveries), NEW i \in 0..Len(s), NEW x \in Deliveries, NEW o \in Nat
  PROVE  /\ InsertAfter(s, i, x) \in Seq(Deliveries)
         /\ Missed(InsertAfter(s, i, x), o) \subseteq Missed(s, o)
<1> DEFINE t == InsertAfter(s, i, x)
<1>1. /\ t \in [1..(Len(s) + 1) -> Deliveries]
      /\ \A k \in 1..Len(s) : IF k <= i THEN t[k] = s[k] ELSE t[k + 1] = s[k]
  BY DEF InsertAfter
<1>2. t \in Seq(Deliveries) /\ Len(t) = Len(s) + 1
  BY <1>1, SeqDef
<1> HIDE DEF t
<1>3. ASSUME NEW d \in Missed(t, o), NEW k \in 1..Len(s), s[k] = d PROVE k <= o
  BY <1>1, <1>2, <1>3 DEF Missed
<1> QED
  BY <1>2, <1>3 DEF Missed, t

\* A delivery that leaves a list hides one at most: itself, or the first of the next page.
LEMMA RemovalHidesOne ==
  ASSUME NEW s \in Seq(Deliveries), NEW i \in 1..Len(s), NEW o \in Nat
  PROVE  /\ Without(s, i) \in Seq(Deliveries) /\ Len(Without(s, i)) = Len(s) - 1
         /\ \E x : Missed(Without(s, i), o) \subseteq Missed(s, o) \cup {x}
<1> DEFINE t == Without(s, i)
           x == IF i <= o THEN s[o + 1] ELSE s[i]
<1>1. /\ t \in [1..(Len(s) - 1) -> Deliveries]
      /\ \A k \in 1..Len(s) : /\ k < i => t[k] = s[k]
                              /\ k > i => t[k - 1] = s[k]
  BY DEF Without
<1>2. t \in Seq(Deliveries) /\ Len(t) = Len(s) - 1
  <2>1. Len(s) - 1 \in Nat
    OBVIOUS
  <2> HIDE DEF t
  <2> QED
    BY <1>1, <2>1, SeqDef
<1> HIDE DEF t
<1>3. ASSUME NEW d \in Missed(t, o), d # x, NEW k \in 1..Len(s), s[k] = d PROVE k <= o
  <2>1. CASE k < i
    BY <1>1, <1>2, <1>3, <2>1 DEF Missed
  <2>2. CASE k > i
    <3>1. k - 1 <= o
      BY <1>1, <1>2, <1>3, <2>2 DEF Missed
    <3> QED
      BY <1>3, <2>2, <3>1
  <2>3. CASE k = i
    BY <1>3, <2>3
  <2> QED
    BY <2>1, <2>2, <2>3
<1>4. Missed(t, o) \subseteq Missed(s, o) \cup {x}
  BY <1>3 DEF Missed
<1> QED
  BY <1>2, <1>4 DEF t

\* Deliveries that change places hide nobody but each other.
LEMMA SwapHidesTwo ==
  ASSUME NEW s \in Seq(Deliveries), NEW i \in 1..(Len(s) - 1), NEW o \in Nat
  PROVE  /\ Swapped(s, i) \in Seq(Deliveries)
         /\ Missed(Swapped(s, i), o) \subseteq Missed(s, o) \cup {s[i], s[i + 1]}
<1> DEFINE t == Swapped(s, i)
<1>1. s \in [1..Len(s) -> Deliveries] /\ i \in 1..Len(s) /\ i + 1 \in 1..Len(s)
  OBVIOUS
<1>2. /\ t \in [1..Len(s) -> Deliveries]
      /\ \A k \in 1..Len(s) : s[k] \notin {s[i], s[i + 1]} => t[k] = s[k]
  BY <1>1 DEF Swapped
<1> HIDE DEF t
<1>3. t \in Seq(Deliveries) /\ Len(t) = Len(s)
  BY <1>2, SeqDef
<1>4. ASSUME NEW d \in Missed(t, o), d \notin {s[i], s[i + 1]}, NEW k \in 1..Len(s), s[k] = d
      PROVE  k <= o
  BY <1>2, <1>3, <1>4 DEF Missed
<1> QED
  BY <1>3, <1>4 DEF Missed, t

\* The rows of page p are the entries behind the first o, one more than are shown.
LEMMA PageShown ==
  ASSUME NEW s \in Seq(Deliveries), NEW o \in Nat, NEW l \in Nat \ {0}
  PROVE  LET rows == SubSeq(s, o + 1, Smaller(o + (l + 1), Len(s)))
             shown == SubSeq(rows, 1, Smaller(l, Len(rows)))
         IN /\ shown \in Seq(Deliveries)
            /\ Len(rows) > l <=> Len(s) > o + l
            /\ \A k \in 1..Len(s) : o < k /\ k <= o + l => s[k] \in Range(shown)
<1> DEFINE n == Smaller(o + (l + 1), Len(s))
           rows == SubSeq(s, o + 1, n)
           m == Smaller(l, Len(rows))
           shown == SubSeq(rows, 1, m)
<1>1. n \in Nat /\ n <= Len(s) /\ n <= o + (l + 1) /\ (n = Len(s) \/ n = o + (l + 1))
  BY DEF Smaller
<1> HIDE DEF n
<1>2. /\ rows \in Seq(Deliveries)
      /\ Len(rows) = IF o + 1 <= n THEN n - o ELSE 0
      /\ \A k \in 1..(n - o) : rows[k] = s[o + k]
  <2>1. \A k \in (o + 1)..n : k \in 1..Len(s)
    BY <1>1
  <2>2. o + 1 \in Int /\ n \in Int
    BY <1>1
  <2>3. /\ rows \in Seq(Deliveries)
        /\ Len(rows) = IF o + 1 <= n THEN n - (o + 1) + 1 ELSE 0
        /\ \A k \in 1..(n - (o + 1) + 1) : rows[k] = s[(o + 1) + k - 1]
    BY <1>1, SubSeqProperties
  <2> HIDE DEF rows
  <2> QED
    BY <1>1, <2>3
<1> HIDE DEF rows
<1>3. Len(rows) \in Nat /\ m \in Nat /\ m <= Len(rows) /\ m <= l /\ (m = l \/ m = Len(rows))
  BY <1>1, <1>2 DEF Smaller
<1> HIDE DEF m
<1>4. /\ shown \in Seq(Deliveries)
      /\ Len(shown) = m
      /\ \A k \in 1..m : shown[k] = rows[k]
  <2>1. /\ shown \in Seq(Deliveries)
        /\ Len(shown) = IF 1 <= m THEN m - 1 + 1 ELSE 0
        /\ \A k \in 1..(m - 1 + 1) : shown[k] = rows[1 + k - 1]
    BY <1>2, <1>3, SubSeqProperties
  <2> HIDE DEF shown
  <2> QED
    BY <1>3, <2>1
<1> HIDE DEF shown
<1>5. Len(rows) > l <=> Len(s) > o + l
  BY <1>1, <1>2
<1>6. ASSUME NEW k \in 1..Len(s), o < k, k <= o + l PROVE s[k] \in Range(shown)
  <2>1. k - o \in 1..m /\ k - o \in 1..(n - o)
    BY <1>1, <1>2, <1>3, <1>6
  <2>2. shown[k - o] = s[o + (k - o)]
    BY <1>2, <1>4, <2>1
  <2>3. o + (k - o) = k /\ k - o \in 1..Len(shown)
    BY <1>4, <2>1
  <2>4. shown[k - o] \in Range(shown)
    BY <1>4, <2>3 DEF Range
  <2> QED
    BY <2>2, <2>3, <2>4
<1> QED
  BY <1>4, <1>5, <1>6 DEF n, rows, m, shown

\* What the walk has not shown and no later page can show.
Hidden ==
  ((walk.start \ walk.seen) \ walk.swapped) \cap Missed(order, (walk.page - 1) * walk.limit)

\* While the pages are walked through, a delivery that has kept its place among those of
\* its updated_at is hidden only by a departure.
PagesInv ==
  /\ ListingTypeOK
  /\ walk.page # 0 /\ walk.limit # 0
  /\ walk.pc = "idle" => walk.page = 1 /\ walk.departed = 0
  /\ walk.pc = "list" => Cardinality(Hidden) <= walk.departed
  /\ PagesCover

\* Subsets of the deliveries are finite, and a superset with one element more has at
\* most one element more.
LEMMA Cardinalities ==
  ASSUME NEW S \in SUBSET Deliveries
  PROVE  /\ IsFiniteSet(S) /\ Cardinality(S) \in Nat
         /\ \A T \in SUBSET S : Cardinality(T) <= Cardinality(S)
         /\ \A T \in SUBSET Deliveries : \A x : T \subseteq S \cup {x} => Cardinality(T) <= Cardinality(S) + 1
<1>1. \A T \in SUBSET Deliveries : IsFiniteSet(T) /\ Cardinality(T) \in Nat
  BY ListingAssumption, FS_Subset, FS_CardinalityType
<1>2. \A T \in SUBSET S : Cardinality(T) <= Cardinality(S)
  BY <1>1, FS_Subset
<1>3. ASSUME NEW T \in SUBSET Deliveries, NEW x, T \subseteq S \cup {x}
      PROVE  Cardinality(T) <= Cardinality(S) + 1
  <2>1. IsFiniteSet(S \cup {x}) /\ Cardinality(S \cup {x}) <= Cardinality(S) + 1
    BY <1>1, FS_AddElement
  <2>2. Cardinality(S \cup {x}) \in Nat
    BY <2>1, FS_CardinalityType
  <2>3. Cardinality(T) <= Cardinality(S \cup {x})
    BY <1>3, <2>1, FS_Subset
  <2> QED
    BY <1>1, <2>1, <2>2, <2>3
<1> QED
  BY <1>1, <1>2, <1>3

\* A step of the process changes the pages by one step of DlqListing.
LEMMA ListingCases ==
  ASSUME [Next]_vars
  PROVE  \/ UNCHANGED listing
         \/ \E limit \in Limits : StartWalk(limit)
         \/ List
         \/ \E d \in Deliveries, i \in 0..Len(order), time \in Times : Fails(d, i, time)
         \/ \E i \in 1..Len(order) : Departs(i)
         \/ \E i \in 1..Len(order) : TiesSwap(i)
         \/ \E i \in 1..Len(order), j \in 0..Len(order), time \in Times : FailsAgain(i, j, time)
<1>1. CASE UNCHANGED vars
  BY <1>1 DEF vars
<1>2. CASE \E r \in Requests : \/ AcceptRequest(r) \/ ReadRequest(r) \/ AcquireConn(r)
                               \/ EndStatement(r) \/ WriteResponse(r)
                               \/ RequestFault(r) \/ LateCommit(r)
  BY <1>2 DEF AcceptRequest, ReadRequest, AcquireConn, EndStatement, WriteResponse,
              RequestFault, LateCommit
<1>3. CASE BeginWalk \/ ListPage \/ DeliveriesMove
  BY <1>3 DEF BeginWalk, ListPage, DeliveriesMove, ListChanges
<1>4. CASE ServerStep
  BY <1>4 DEF ServerStep, StopApi, StopPool, ExitProcess
<1>5. CASE DeadlineStep \/ Disturbance
  BY <1>5 DEF DeadlineStep, Disturbance
<1>6. CASE \E w \in Signers : SigningStep(w)
  BY <1>6 DEF SigningStep
<1> QED
  BY <1>1, <1>2, <1>3, <1>4, <1>5, <1>6 DEF Next

\* Every step keeps PagesInv.
LEMMA PagesStep == ASSUME PagesInv, [Next]_vars PROVE PagesInv'
<1> DEFINE o == (walk.page - 1) * walk.limit
           left == (walk.start \ walk.seen) \ walk.swapped
           Updated == [Deliveries -> Times \cup {0}]
<1>0. /\ order \in Seq(Deliveries) /\ updated \in Updated /\ walk \in Walk
      /\ walk.page \in Nat \ {0} /\ walk.limit \in Nat \ {0} /\ walk.departed \in Nat
      /\ walk.start \subseteq Deliveries /\ walk.seen \subseteq Deliveries
      /\ walk.swapped \subseteq Deliveries
      /\ walk.pc \in {"idle", "list", "ended"}
  BY DEF PagesInv, ListingTypeOK, Walk
<1>1. o \in Nat
  <2>1. \A a \in Nat, b \in Nat : a * b \in Nat
    OBVIOUS
  <2>2. walk.page - 1 \in Nat /\ walk.limit \in Nat
    BY <1>0
  <2> QED
    BY <2>1, <2>2
<1>2. Hidden = left \cap Missed(order, o)
  BY DEF Hidden
<1>3. left \subseteq Deliveries /\ \A s, k : Missed(s, k) \subseteq Deliveries
  BY <1>0 DEF Missed
<1> HIDE DEF o, left, Updated
<1>4. CASE UNCHANGED listing
  BY <1>4 DEF listing, PagesInv, ListingTypeOK, Hidden, Missed, PagesCover
<1>5. ASSUME NEW limit \in Limits, StartWalk(limit) PROVE PagesInv'
  <2> DEFINE start == Range(order)
             p == [walk EXCEPT !.pc = "list", !.limit = limit, !.start = start]
  <2>1. walk' = p /\ UNCHANGED <<order, updated>> /\ walk.pc = "idle"
    BY <1>5 DEF StartWalk
  <2>2. limit \in Nat \ {0}
    BY ListingAssumption
  <2>3. start \subseteq Deliveries
    BY <1>0 DEF Range
  <2>4. walk.page = 1 /\ walk.departed = 0
    BY <2>1 DEF PagesInv
  <2>5. start \cap Missed(order, 0) = {}
    BY <1>0 DEF Range, Missed
  <2> HIDE DEF start
  <2>6. /\ p \in Walk /\ p.pc = "list" /\ p.limit = limit /\ p.start = start
        /\ p.page = walk.page /\ p.departed = walk.departed /\ p.seen = walk.seen
        /\ p.swapped = walk.swapped
    BY <1>0, <2>2, <2>3 DEF Walk
  <2> HIDE DEF p
  <2>7. (p.page - 1) * p.limit = 0
    BY <2>2, <2>4, <2>6
  <2>8. Hidden' = {}
    <3>1. Hidden' = ((p.start \ p.seen) \ p.swapped) \cap Missed(order, 0)
      BY <2>1, <2>7 DEF Hidden, Missed
    <3> QED
      BY <2>5, <2>6, <3>1
  <2>9. Cardinality(Hidden') <= walk'.departed
    BY <2>1, <2>4, <2>6, <2>8, FS_EmptySet
  <2> QED
    BY <1>0, <2>1, <2>2, <2>4, <2>6, <2>9 DEF PagesInv, ListingTypeOK, PagesCover, Updated
<1>6. CASE List
  <2> DEFINE l == walk.limit
             rows == SubSeq(order, o + 1, Smaller(o + (l + 1), Len(order)))
             shown == SubSeq(rows, 1, Smaller(l, Len(rows)))
             seen == walk.seen \cup Range(shown)
             pc == IF Len(rows) > l THEN "list" ELSE "ended"
             page == IF Len(rows) > l THEN walk.page + 1 ELSE walk.page
             p == [walk EXCEPT !.pc = pc, !.page = page, !.seen = seen]
  <2>1. ListPermanentlyFailed(walk.page, l + 1) = rows
    <3>1. Offset(walk.page, l + 1) = o
      BY <1>0 DEF Offset, o
    <3> QED
      BY <3>1 DEF ListPermanentlyFailed
  <2>2. walk' = p /\ UNCHANGED <<order, updated>> /\ walk.pc = "list"
    BY <1>6, <2>1 DEF List
  <2>3. /\ shown \in Seq(Deliveries)
        /\ Len(rows) > l <=> Len(order) > o + l
        /\ \A k \in 1..Len(order) : o < k /\ k <= o + l => order[k] \in Range(shown)
    BY <1>0, <1>1, PageShown
  <2> HIDE DEF rows, shown
  <2>4. seen \subseteq Deliveries
    <3>1. \A s \in Seq(Deliveries) : Range(s) \subseteq Deliveries
      BY DEF Range
    <3> QED
      BY <1>0, <2>3, <3>1
  <2>5. pc \in {"list", "ended"} /\ page \in Nat \ {0}
    BY <1>0
  <2>6. /\ pc = "list" => page = walk.page + 1
        /\ pc = "ended" => Len(order) <= o + l
        /\ pc = "list" => (page - 1) * l = o + l
    <3>1. ((walk.page + 1) - 1) * l = o + l
      <4>1. ((walk.page + 1) - 1) * l = (walk.page - 1) * l + l
        BY <1>0
      <4> QED
        BY <4>1 DEF o
    <3>2. Len(order) \in Nat /\ o + l \in Nat
      BY <1>0, <1>1
    <3>3. CASE Len(rows) > l
      BY <3>1, <3>3
    <3>4. CASE ~(Len(rows) > l)
      BY <2>3, <3>2, <3>4
    <3> QED
      BY <3>3, <3>4
  <2>7. left \ Range(shown) = (walk.start \ seen) \ walk.swapped
    BY DEF left
  <2> HIDE DEF pc, page, seen
  <2>8. /\ p \in Walk /\ p.pc = pc /\ p.page = page /\ p.seen = seen
        /\ p.limit = l /\ p.start = walk.start /\ p.departed = walk.departed
        /\ p.swapped = walk.swapped
    BY <1>0, <2>4, <2>5 DEF Walk
  <2> HIDE DEF p
  <2>9. Cardinality(Hidden) <= walk.departed /\ Cardinality(Hidden) \in Nat
    BY <1>2, <1>3, <2>2, Cardinalities DEF PagesInv
  <2>10. ASSUME NEW d \in left \ Range(shown), d \in Missed(order, o + l) PROVE d \in Hidden
    <3>1. ASSUME NEW k \in 1..Len(order), order[k] = d PROVE k <= o
      <4>1. k <= o + l
        BY <2>10, <3>1 DEF Missed
      <4>2. ~(o < k)
        BY <2>3, <2>10, <3>1, <4>1
      <4> QED
        BY <1>1, <4>2
    <3> QED
      BY <1>2, <1>3, <2>10, <3>1 DEF Missed
  <2>11. CASE pc = "list"
    <3>1. Hidden' \subseteq Hidden
      <4>1. Hidden' = ((walk.start \ seen) \ walk.swapped) \cap Missed(order, o + l)
        BY <2>2, <2>6, <2>8, <2>11 DEF Hidden, Missed
      <4> QED
        BY <2>7, <2>10, <4>1
    <3>2. Cardinality(Hidden') <= Cardinality(Hidden) /\ Cardinality(Hidden') \in Nat
      BY <1>2, <1>3, <3>1, Cardinalities
    <3>3. Cardinality(Hidden') <= walk'.departed
      BY <1>0, <2>2, <2>8, <2>9, <3>2
    <3> QED
      BY <1>0, <2>2, <2>5, <2>8, <2>11, <3>3 DEF PagesInv, ListingTypeOK, PagesCover, Updated
  <2>12. CASE pc = "ended"
    <3>1. \A d \in Deliveries : d \in Missed(order, o + l)
      BY <1>0, <1>1, <2>6, <2>12 DEF Missed
    <3> DEFINE missing == (walk.start \ seen) \ walk.swapped
    <3>2. missing \subseteq Hidden
      BY <1>3, <2>7, <2>10, <3>1
    <3>3. Cardinality(missing) <= Cardinality(Hidden) /\ Cardinality(missing) \in Nat
      BY <1>2, <1>3, <3>2, Cardinalities
    <3>4. Cardinality((walk'.start \ walk'.seen) \ walk'.swapped) <= walk'.departed
      BY <1>0, <2>2, <2>8, <2>9, <3>3
    <3> QED
      BY <1>0, <2>2, <2>5, <2>8, <2>12, <3>4 DEF PagesInv, ListingTypeOK, PagesCover, Updated
  <2> QED
    BY <2>5, <2>11, <2>12
<1>7. ASSUME NEW t \in Seq(Deliveries), order' = t, updated' \in Updated, UNCHANGED walk,
             walk.pc = "list", Missed(t, o) \subseteq Missed(order, o)
      PROVE  PagesInv'
  <2>1. Hidden' = left \cap Missed(t, o)
    BY <1>7 DEF Hidden, Missed, left, o
  <2>2. Cardinality(Hidden') <= Cardinality(Hidden) /\ Cardinality(Hidden') \in Nat
    BY <1>2, <1>3, <1>7, <2>1, Cardinalities
  <2>3. Cardinality(Hidden) <= walk.departed /\ Cardinality(Hidden) \in Nat
    BY <1>2, <1>3, <1>7, Cardinalities DEF PagesInv
  <2> QED
    BY <1>0, <1>7, <2>2, <2>3 DEF PagesInv, ListingTypeOK, PagesCover, Updated
<1>8. ASSUME NEW d \in Deliveries, NEW i \in 0..Len(order), NEW time \in Times, Fails(d, i, time)
      PROVE  PagesInv'
  <2>1. /\ InsertAfter(order, i, d) \in Seq(Deliveries)
        /\ Missed(InsertAfter(order, i, d), o) \subseteq Missed(order, o)
    BY <1>0, <1>1, InsertHidesNothing
  <2>2. updated' \in Updated
    BY <1>0, <1>8 DEF Fails, Updated
  <2> QED
    BY <1>7, <1>8, <2>1, <2>2 DEF Fails
<1>9. ASSUME NEW t \in Seq(Deliveries), NEW x, order' = t, updated' \in Updated, walk.pc = "list",
             walk' = [walk EXCEPT !.departed = @ + 1],
             Missed(t, o) \subseteq Missed(order, o) \cup {x}
      PROVE  PagesInv'
  <2> DEFINE departed == walk.departed + 1
             p == [walk EXCEPT !.departed = departed]
  <2>1. walk' = p /\ departed \in Nat
    BY <1>0, <1>9
  <2> HIDE DEF departed
  <2>2. /\ p \in Walk /\ p.pc = walk.pc /\ p.page = walk.page /\ p.seen = walk.seen
        /\ p.limit = walk.limit /\ p.start = walk.start /\ p.departed = departed
        /\ p.swapped = walk.swapped
    BY <1>0, <2>1 DEF Walk
  <2> HIDE DEF p
  <2>3. Hidden' = left \cap Missed(t, o)
    BY <1>9, <2>1, <2>2 DEF Hidden, Missed, left, o
  <2>4. Hidden' \subseteq Hidden \cup {x}
    BY <1>2, <1>9, <2>3
  <2>5. Cardinality(Hidden') <= Cardinality(Hidden) + 1 /\ Cardinality(Hidden') \in Nat
    <3>1. Hidden \in SUBSET Deliveries /\ Hidden' \in SUBSET Deliveries
      BY <1>2, <1>3, <2>3
    <3> QED
      BY <2>4, <3>1, Cardinalities
  <2>6. Cardinality(Hidden) <= walk.departed /\ Cardinality(Hidden) \in Nat
    BY <1>2, <1>3, <1>9, Cardinalities DEF PagesInv
  <2>7. Cardinality(Hidden') <= departed
    BY <1>0, <2>5, <2>6 DEF departed
  <2> QED
    BY <1>0, <1>9, <2>1, <2>2, <2>7 DEF PagesInv, ListingTypeOK, PagesCover, Updated
<1>10. ASSUME NEW i \in 1..Len(order), Departs(i) PROVE PagesInv'
  <2>1. /\ Without(order, i) \in Seq(Deliveries)
        /\ \E x : Missed(Without(order, i), o) \subseteq Missed(order, o) \cup {x}
    BY <1>0, <1>1, RemovalHidesOne
  <2>2. updated' \in Updated
    BY <1>0, <1>10 DEF Departs, Updated
  <2> QED
    BY <1>9, <1>10, <2>1, <2>2 DEF Departs
<1>11. ASSUME NEW i \in 1..Len(order), NEW j \in 0..Len(order), NEW time \in Times,
              FailsAgain(i, j, time)
       PROVE  PagesInv'
  <2> DEFINE s == Without(order, i)
             t == InsertAfter(s, j, order[i])
  <2>1. PICK x : /\ s \in Seq(Deliveries) /\ Len(s) = Len(order) - 1
                 /\ Missed(s, o) \subseteq Missed(order, o) \cup {x}
    BY <1>0, <1>1, RemovalHidesOne
  <2>2. /\ walk.pc = "list" /\ walk' = [walk EXCEPT !.departed = @ + 1] /\ order' = t
        /\ j \in 0..(Len(order) - 1)
    BY <1>11 DEF FailsAgain
  <2> HIDE DEF s
  <2>3. j \in 0..Len(s) /\ order[i] \in Deliveries
    BY <1>0, <2>1, <2>2
  <2>4. t \in Seq(Deliveries) /\ Missed(t, o) \subseteq Missed(s, o)
    BY <1>1, <2>1, <2>3, InsertHidesNothing
  <2>5. updated' \in Updated
    BY <1>0, <1>11 DEF FailsAgain, Updated
  <2> HIDE DEF t
  <2> QED
    BY <1>9, <2>1, <2>2, <2>4, <2>5
<1>12. ASSUME NEW i \in 1..Len(order), TiesSwap(i) PROVE PagesInv'
  <2> DEFINE t == Swapped(order, i)
             swapped == walk.swapped \cup {order[i], order[i + 1]}
             p == [walk EXCEPT !.swapped = swapped]
  <2>1. /\ walk.pc = "list" /\ walk' = p /\ order' = t /\ UNCHANGED updated
        /\ i \in 1..(Len(order) - 1)
    BY <1>12 DEF TiesSwap
  <2>2. t \in Seq(Deliveries) /\ Missed(t, o) \subseteq Missed(order, o) \cup {order[i], order[i + 1]}
    BY <1>0, <1>1, <2>1, SwapHidesTwo
  <2>3. swapped \subseteq Deliveries /\ walk.swapped \cup {order[i], order[i + 1]} \subseteq swapped
    BY <1>0, <2>1
  <2> HIDE DEF t, swapped
  <2>4. /\ p \in Walk /\ p.pc = walk.pc /\ p.page = walk.page /\ p.seen = walk.seen
        /\ p.limit = walk.limit /\ p.start = walk.start /\ p.departed = walk.departed
        /\ p.swapped = swapped
    BY <1>0, <2>3 DEF Walk
  <2> HIDE DEF p
  <2>5. Hidden' = ((walk.start \ walk.seen) \ swapped) \cap Missed(t, o)
    BY <2>1, <2>4 DEF Hidden, Missed, o
  <2>6. Hidden' \subseteq Hidden
    BY <1>2, <2>2, <2>3, <2>5 DEF left
  <2>7. Cardinality(Hidden') <= Cardinality(Hidden) /\ Cardinality(Hidden') \in Nat
    BY <1>2, <1>3, <2>6, Cardinalities
  <2>8. Cardinality(Hidden) <= walk.departed /\ Cardinality(Hidden) \in Nat
    BY <1>2, <1>3, <2>1, Cardinalities DEF PagesInv
  <2>9. Cardinality(Hidden') <= walk'.departed
    BY <1>0, <2>1, <2>4, <2>7, <2>8
  <2> QED
    BY <1>0, <2>1, <2>2, <2>4, <2>9 DEF PagesInv, ListingTypeOK, PagesCover, Updated
<1> QED
  BY <1>4, <1>5, <1>6, <1>8, <1>10, <1>11, <1>12, ListingCases

\* PagesInv is an invariant.
LEMMA PagesInvariant == Spec => []PagesInv
<1>1. Init => PagesInv
  <2> SUFFICES ASSUME Init PROVE PagesInv
    OBVIOUS
  <2>1. walk = [pc |-> "idle", limit |-> 1, page |-> 1, seen |-> {}, start |-> {},
                departed |-> 0, swapped |-> {}]
    BY DEF Init, ListingInit
  <2>2. walk \in Walk /\ walk.pc = "idle" /\ walk.page = 1 /\ walk.limit = 1 /\ walk.departed = 0
    BY <2>1 DEF Walk
  <2>3. order \in Seq(Deliveries) /\ updated \in [Deliveries -> Times \cup {0}]
    <3>1. PICK n \in 0..Cardinality(Deliveries) : order \in [1..n -> Deliveries]
      BY DEF Init, ListingInit
    <3>2. n \in Nat
      BY ListingAssumption, FS_CardinalityType
    <3> QED
      BY <3>1, <3>2, SeqDef DEF Init, ListingInit
  <2> QED
    BY <2>2, <2>3 DEF PagesInv, ListingTypeOK, PagesCover
<1>2. PagesInv /\ [Next]_vars => PagesInv'
  BY PagesStep
<1> QED
  BY <1>1, <1>2, PTL DEF Spec

\* A walk through the pages hides at most one listed delivery for each departure, beside
\* those that changed places with one of the same updated_at, for any number of
\* deliveries and any page size.
THEOREM WalksCover == Spec => []PagesCover
<1>1. PagesInv => PagesCover
  BY DEF PagesInv
<1> QED
  BY <1>1, PagesInvariant, PTL

-----------------------------------------------------------------------------
(* Types                                                                   *)

TenantsTyped == tenants \subseteq Tenants

\* Every reachable state of the API process is well typed.
THEOREM ApiTypeCorrect == Spec => []TypeOK
<1>1. Init => TenantsTyped
  BY DEF Init, RegistryInit, TenantsTyped
<1>2. TenantsTyped /\ [Next]_vars => TenantsTyped'
  <2> SUFFICES ASSUME tenants \subseteq Tenants, [Next]_vars PROVE tenants' \subseteq Tenants
    BY DEF TenantsTyped
  <2>1. ASSUME NEW r \in Requests, RequestStep(r) PROVE tenants' \subseteq Tenants
    BY <2>1 DEF RequestStep, Accept, Read, Acquire, AcquireFails, StatementFails, InsertTenant,
                CheckTenant, InsertEndpoint, UpdateSecret, GoesOn, Respond, ResponseLost, CommitsLate
  <2> QED
    BY <2>1, RegistryCases DEF SigningNext, BeginSigning, LoadForWorker, Sign, ExitProcess, registry
<1>3. Spec => []TenantsTyped
  BY <1>1, <1>2, PTL DEF Spec
<1>4. TenantsTyped /\ SecretInv /\ SignerInv /\ ExitInv /\ PagesInv => TypeOK
  BY DEF SecretInv, SecretTyped, RequestsOK, SignerInv, SignerTyped, ExitInv, PagesInv,
         TypeOK, RegistryTypeOK, TenantsTyped
<1> QED
  BY <1>3, <1>4, SecretInvariant, SignerInvariant, ExitInvariant, PagesInvariant, PTL
=============================================================================
