-------------------------- MODULE EndpointRegistry --------------------------
(***************************************************************************)
(* Tenants, endpoints and their signing secrets: the handlers of           *)
(* /v1/tenants and /v1/endpoints with the services and stores below them,  *)
(* and the worker that reads a secret with a delivery and signs with it.   *)
(*                                                                         *)
(* A request takes a connection of the pool for each statement and gives   *)
(* it back after it. 32 random bytes never repeat: the secret a request    *)
(* draws is named by the request. The server decides when a request is     *)
(* accepted and whether the pool gives connections (ApiProcess).           *)
(***************************************************************************)
EXTENDS Integers, FiniteSets

CONSTANTS Tenants,
          Endpoints,
          Requests,
          Signers,       \* the workers, as far as signing goes
          FirstSecret,   \* the secret of an endpoint registered before
          None,
          Faults         \* "statement", "unknown", "disconnect"

ASSUME RegistryAssumption ==
  /\ FirstSecret \notin Requests
  /\ None \notin Tenants \cup Endpoints \cup Requests \cup {FirstSecret}

VARIABLES tenants,   \* table tenants
          secret,    \* table endpoints, column signing_secret; None: no such row
          request,
          signer

registry == <<tenants, secret, request, signer>>

\* The requests that change something.
Kinds == {"create_tenant", "register", "rotate"}

Secrets == Requests \cup {FirstSecret}

Pcs == {"new", "read", "tenant", "insert", "update", "respond", "done"}

\* The statements a request is about to make or is in.
Statements == {"tenant", "insert", "update"}

Answers == {"none", "ok", "not_found", "rejected", "error", "lost", "cut"}

\* result: what the handler has to answer. stored: whether the statement that writes
\* the secret took effect ("yes"), did so without the handler being told ("unknown") or
\* may still do so ("late"). after: the requests that had been answered when this one
\* was accepted. Both are history.
Request == [kind: Kinds \cup {"none"}, tenant: Tenants \cup {None},
            endpoint: Endpoints \cup {None}, pc: Pcs, conn: {"none", "held"},
            result: Answers, answer: Answers, stored: {"no", "yes", "late", "unknown"},
            after: SUBSET Requests]

NewRequest == [kind |-> "none", tenant |-> None, endpoint |-> None, pc |-> "new",
               conn |-> "none", result |-> "none", answer |-> "none", stored |-> "no",
               after |-> {}]

\* retired: the secrets of the endpoint that had been replaced, and the replacement
\* answered, when the call began; history.
Signer == [pc: {"idle", "load", "sign"}, endpoint: Endpoints \cup {None},
           secret: Secrets \cup {None}, retired: SUBSET Secrets]

IdleSigner == [pc |-> "idle", endpoint |-> None, secret |-> None, retired |-> {}]

RegistryTypeOK ==
  /\ tenants \subseteq Tenants
  /\ secret \in [Endpoints -> Secrets \cup {None}]
  /\ request \in [Requests -> Request]
  /\ signer \in [Signers -> Signer]

\* Some tenants and endpoints exist.
RegistryInit ==
  /\ tenants \in SUBSET Tenants
  /\ secret \in [Endpoints -> {FirstSecret, None}]
  /\ tenants = {} => \A e \in Endpoints : secret[e] = None
  /\ request = [r \in Requests |-> NewRequest]
  /\ signer = [w \in Signers |-> IdleSigner]

Becomes(r, new) == request' = [request EXCEPT ![r] = new]

Answered == {r \in Requests : request[r].answer \notin {"none", "cut"}}

-----------------------------------------------------------------------------
(* Requests                                                                *)

\* IDs that are not those of a row, nor of one that may still be committed.
FreeEndpoints ==
  {e \in Endpoints : /\ secret[e] = None
                     /\ \A r \in Requests : request[r].stored = "late" => request[r].endpoint # e}

\* Bound: the IDs of the instance suffice for the rows that may still be inserted.
IdLeft(kind) ==
  LET inserting == {r \in Requests : /\ request[r].kind = kind
                                     /\ request[r].pc \in {"read", "tenant", "insert"}}
      free == CASE kind = "create_tenant" -> Tenants \ tenants
                [] kind = "register" -> FreeEndpoints
  IN kind # "rotate" => Cardinality(inserting) < Cardinality(free)

\* A request whose connection has become active.
Accept(r, kind, t, e) ==
  /\ request[r].pc = "new" /\ IdLeft(kind)
  /\ Becomes(r, [request[r] EXCEPT
                   !.kind = kind, !.pc = "read", !.after = Answered,
                   !.tenant = IF kind = "register" THEN t ELSE None,
                   !.endpoint = IF kind = "rotate" THEN e ELSE None])
  /\ UNCHANGED <<tenants, secret, signer>>

FirstStatement(kind) ==
  CASE kind = "create_tenant" -> "insert"
    [] kind = "register" -> "tenant"
    [] kind = "rotate" -> "update"

\* The client has sent the whole request. A body, name, URL or ID that does not parse or
\* is not valid is answered without a statement.
Read(r) ==
  /\ request[r].pc = "read"
  /\ \/ Becomes(r, [request[r] EXCEPT !.pc = FirstStatement(request[r].kind)])
     \/ Becomes(r, [request[r] EXCEPT !.pc = "respond", !.result = "rejected"])
  /\ UNCHANGED <<tenants, secret, signer>>

Acquire(r) ==
  /\ request[r].pc \in Statements /\ request[r].conn = "none"
  /\ Becomes(r, [request[r] EXCEPT !.conn = "held"])
  /\ UNCHANGED <<tenants, secret, signer>>

\* The handler answers with result; the connection goes back to the pool.
Concludes(r, result) ==
  Becomes(r, [request[r] EXCEPT !.pc = "respond", !.conn = "none", !.result = result])

InStatement(r, pc) == request[r].pc = pc /\ request[r].conn = "held"

\* TenantStore.Insert.
InsertTenant(r, result) ==
  /\ InStatement(r, "insert") /\ request[r].kind = "create_tenant"
  /\ \E t \in Tenants \ tenants : tenants' = tenants \cup {t}
  /\ Concludes(r, result)
  /\ UNCHANGED <<secret, signer>>

\* Register checks the tenant with a statement of its own.
CheckTenant(r) ==
  /\ InStatement(r, "tenant")
  /\ \/ /\ request[r].tenant \in tenants
        /\ Becomes(r, [request[r] EXCEPT !.pc = "insert", !.conn = "none"])
     \/ request[r].tenant \notin tenants /\ Concludes(r, "not_found")
  /\ UNCHANGED <<tenants, secret, signer>>

\* The statement has stored the secret of r; the handler has, or has not, been told.
Stored(r, e, told) ==
  Becomes(r, [request[r] EXCEPT !.pc = "respond", !.conn = "none", !.endpoint = e,
                                !.result = IF told = "yes" THEN "ok" ELSE "error",
                                !.stored = told])

\* EndpointStore.Insert.
InsertEndpoint(r, told) ==
  /\ InStatement(r, "insert") /\ request[r].kind = "register"
  /\ \E e \in FreeEndpoints : /\ secret' = [secret EXCEPT ![e] = r]
                              /\ Stored(r, e, told)
  /\ UNCHANGED <<tenants, signer>>

\* Mutants of UpdateSecret: a secret that was rotated before is kept; the new secret is
\* stored for an endpoint that does not exist, too.
UpdateSecret_OnlyOnce(r, told) ==
  /\ InStatement(r, "update")
  /\ \/ /\ secret[request[r].endpoint] # None
        /\ secret' = [secret EXCEPT ![request[r].endpoint] = IF @ = FirstSecret THEN r ELSE @]
        /\ Stored(r, request[r].endpoint, told)
     \/ /\ secret[request[r].endpoint] = None
        /\ Concludes(r, "not_found") /\ UNCHANGED secret
  /\ UNCHANGED <<tenants, signer>>

UpdateSecret_Upsert(r, told) ==
  /\ InStatement(r, "update")
  /\ secret' = [secret EXCEPT ![request[r].endpoint] = r]
  /\ IF secret[request[r].endpoint] = None
       THEN Concludes(r, "not_found")
       ELSE Stored(r, request[r].endpoint, told)
  /\ UNCHANGED <<tenants, signer>>

\* UpdateSecret: one UPDATE, whatever the secret is.
UpdateSecret(r, told) ==
  /\ InStatement(r, "update")
  /\ \/ /\ secret[request[r].endpoint] # None
        /\ secret' = [secret EXCEPT ![request[r].endpoint] = r]
        /\ Stored(r, request[r].endpoint, told)
     \/ /\ secret[request[r].endpoint] = None
        /\ Concludes(r, "not_found") /\ UNCHANGED secret
  /\ UNCHANGED <<tenants, signer>>

\* The statement has no effect, and the handler learns of the error.
StatementFails(r) ==
  /\ "statement" \in Faults
  /\ request[r].pc \in Statements /\ request[r].conn = "held"
  /\ Concludes(r, "error")
  /\ UNCHANGED <<tenants, secret, signer>>

\* Mutant of AcquireFails: an answer the handlers do not have.
AcquireFails_Unavailable(r) ==
  /\ request[r].pc \in Statements /\ request[r].conn = "none"
  /\ Concludes(r, "unavailable")
  /\ UNCHANGED <<tenants, secret, signer>>

\* The pool is closed: there is no connection for the next statement.
AcquireFails(r) ==
  /\ request[r].pc \in Statements /\ request[r].conn = "none"
  /\ Concludes(r, "error")
  /\ UNCHANGED <<tenants, secret, signer>>

Respond(r) ==
  /\ request[r].pc = "respond"
  /\ Becomes(r, [request[r] EXCEPT !.pc = "done", !.answer = request[r].result])
  /\ UNCHANGED <<tenants, secret, signer>>

\* The client has gone away: the answer reaches nobody.
ResponseLost(r) ==
  /\ "disconnect" \in Faults
  /\ request[r].pc = "respond"
  /\ Becomes(r, [request[r] EXCEPT !.pc = "done", !.answer = "lost"])
  /\ UNCHANGED <<tenants, secret, signer>>

\* The statement r is in comes to its end.
Statement(r) ==
  \/ InsertTenant(r, "ok") \/ CheckTenant(r)
  \/ InsertEndpoint(r, "yes") \/ UpdateSecret(r, "yes")

\* The connection is lost, and the statement that stores a secret goes on in the
\* database. A tenant that is inserted late has an ID that nobody can ask for, as if the
\* statement had failed.
GoesOn(r) ==
  /\ \/ /\ InStatement(r, "insert") /\ request[r].kind = "register"
        /\ \E e \in FreeEndpoints : Stored(r, e, "late")
     \/ /\ InStatement(r, "update") /\ secret[request[r].endpoint] # None
        /\ Stored(r, request[r].endpoint, "late")
  /\ UNCHANGED <<tenants, secret, signer>>

\* The connection is lost with the statement under way: it was committed, or the
\* database may still commit it.
StatementUnknown(r) ==
  /\ "unknown" \in Faults
  /\ \/ InsertTenant(r, "error") \/ InsertEndpoint(r, "unknown") \/ UpdateSecret(r, "unknown")
     \/ GoesOn(r)

\* The database commits the statement of a request that was told of an error.
CommitsLate(r) ==
  /\ request[r].stored = "late"
  /\ secret' = [secret EXCEPT ![request[r].endpoint] = r]
  /\ Becomes(r, [request[r] EXCEPT !.stored = "unknown"])
  /\ UNCHANGED <<tenants, signer>>

-----------------------------------------------------------------------------
(* Signing                                                                 *)

\* Rotations of e that were answered.
Rotated(e) == {r \in Requests : /\ request[r].kind = "rotate" /\ request[r].endpoint = e
                                /\ request[r].answer = "ok"}

\* The requests whose statement was known to have ended when they were answered.
Settled == {r \in Requests : request[r].stored \in {"no", "yes"}}

\* What must not be the secret of e any more: an answered rotation retires every secret
\* whose request had been answered when the rotation began.
Retired(e) ==
  {s \in Secrets : \E r \in Rotated(e) : s = FirstSecret \/ s \in request[r].after \cap Settled}

\* A worker takes a message for endpoint e.
BeginSigning(w, e) ==
  /\ signer[w].pc = "idle" /\ secret[e] # None
  /\ signer' = [signer EXCEPT ![w] = [@ EXCEPT !.pc = "load", !.endpoint = e,
                                               !.retired = Retired(e)]]
  /\ UNCHANGED <<tenants, secret, request>>

\* Mutant of LoadForWorker: the worker keeps the secret it has read once.
LoadForWorker_Cached(w) ==
  /\ signer[w].pc = "load"
  /\ signer' = [signer EXCEPT ![w].pc = "sign",
                              ![w].secret = IF @ = None THEN secret[signer[w].endpoint] ELSE @]
  /\ UNCHANGED <<tenants, secret, request>>

\* LoadForWorker, whose row has the secret of the endpoint.
LoadForWorker(w) ==
  /\ signer[w].pc = "load"
  /\ signer' = [signer EXCEPT ![w].pc = "sign", ![w].secret = secret[signer[w].endpoint]]
  /\ UNCHANGED <<tenants, secret, request>>

\* doHTTP computes the signature and sends the POST; the call goes on without a secret.
Sign(w) ==
  /\ signer[w].pc = "sign"
  /\ signer' = [signer EXCEPT ![w].pc = "idle"]
  /\ UNCHANGED <<tenants, secret, request>>

SigningNext(w) ==
  \/ \E e \in Endpoints : BeginSigning(w, e)
  \/ LoadForWorker(w) \/ Sign(w)

-----------------------------------------------------------------------------
(* Properties                                                              *)

\* Scenarios 2 and 5 of user story 3 of 002-signature-idempotency: when a rotation has
\* been answered, no secret handed out before it began is active, whatever rotations
\* overlap and whichever of them lose their connection (endpoint_store.go:55). The
\* secret is drawn before the UPDATE and not with it (endpoint_service.go:88, 92).
\* Only a rotation that failed with its outcome unknown can come back.
LastRotationWins == \A e \in Endpoints : secret[e] \notin Retired(e)

\* FR-011 of 002-signature-idempotency: a secret nobody was given is active only if its
\* request is still under way, its answer was lost or cut off, or the outcome of its
\* statement was lost; no refused or failed request has changed a secret
\* (endpoint_service.go:92).
ActiveSecretAccounted ==
  \A e \in Endpoints : secret[e] \in Requests =>
    LET r == request[secret[e]]
    IN /\ r.endpoint = e /\ r.kind \in {"register", "rotate"} /\ r.stored # "no"
       /\ r.answer \in {"none", "ok", "lost", "cut"} \/ r.stored = "unknown"

\* FR-012 of 002-signature-idempotency, as the code keeps it: a worker call that begins
\* after a rotation was answered signs with no secret that rotation retired
\* (worker.go:105, 199), however long the call takes.
FreshSignatures ==
  \A w \in Signers : signer[w].pc = "sign" => signer[w].secret \notin signer[w].retired

\* FR-012 to the letter: the secret a signature is computed with is the active one.
SignedWithActive ==
  [][\A w \in Signers : Sign(w) => signer[w].secret = secret[signer[w].endpoint]]_registry
=============================================================================
