----------------------------- MODULE ApiProcess -----------------------------
(***************************************************************************)
(* The API process: ApiServer accepts the requests of EndpointRegistry and *)
(* DlqListing, gives them connections of the pool while it is open, and    *)
(* cuts off what is still under way when the process exits. The workers    *)
(* that read the secrets are processes of their own. The DLQ is registered *)
(* as the integration tests do; runAPI leaves out RegisterDLQ.             *)
(***************************************************************************)
EXTENDS EndpointRegistry, ApiServer, DlqListing

CONSTANT MixedClients  \* bound: FALSE keeps requests and walks, and the end of the
                       \* process and signing or walking, in behaviours of their own

ASSUME MixedAssumption == MixedClients \in BOOLEAN

vars == <<registry, lifecycle, listing>>

TypeOK == RegistryTypeOK /\ ServerTypeOK /\ ListingTypeOK

Init ==
  /\ RegistryInit /\ ServerInit /\ ListingInit
  /\ MixedClients \/ order = <<>> \/ tenants = {}

Active == {r \in Requests : request[r].pc \notin {"new", "done"}}
InUse == {r \in Requests : request[r].conn = "held"}

Serving == listener["api"] = "serving"
Running == server.pc # "exited"

-----------------------------------------------------------------------------
(* Requests                                                                *)

AcceptRequest(r) ==
  /\ Serving
  /\ MixedClients \/ (order = <<>> /\ walk.pc = "idle")
  /\ \E kind \in Kinds, t \in Tenants, e \in Endpoints : Accept(r, kind, t, e)
  /\ UNCHANGED <<lifecycle, listing>>

\* What the client paces.
ReadRequest(r) == Running /\ Read(r) /\ UNCHANGED <<lifecycle, listing>>

\* pool.Acquire, which fails once Close has been called.
AcquireConn(r) ==
  /\ Running
  /\ IF pool = "open" THEN Acquire(r) ELSE AcquireFails(r)
  /\ UNCHANGED <<lifecycle, listing>>

EndStatement(r) == Running /\ Statement(r) /\ UNCHANGED <<lifecycle, listing>>

WriteResponse(r) == Running /\ Respond(r) /\ UNCHANGED <<lifecycle, listing>>

\* What goes wrong in a request.
RequestFault(r) ==
  /\ Running
  /\ StatementFails(r) \/ StatementUnknown(r) \/ ResponseLost(r)
  /\ UNCHANGED <<lifecycle, listing>>

\* The database goes on by itself.
LateCommit(r) == CommitsLate(r) /\ UNCHANGED <<lifecycle, listing>>

-----------------------------------------------------------------------------
(* Pages of the DLQ                                                        *)

BeginWalk ==
  /\ Serving
  /\ MixedClients \/ (~Stopped /\ tenants = {} /\ \A r \in Requests : request[r].pc = "new")
  /\ \E limit \in Limits : StartWalk(limit)
  /\ UNCHANGED <<registry, lifecycle>>

\* A page that is not answered is asked for again.
ListPage == Serving /\ pool = "open" /\ List /\ UNCHANGED <<registry, lifecycle>>

\* After the last page no change of the list matters.
DeliveriesMove == Serving /\ ListChanges /\ UNCHANGED <<registry, lifecycle>>

-----------------------------------------------------------------------------
(* The process                                                             *)

\* Mutant of StopApi: Shutdown waits for the requests without a deadline.
StopApi_NoDeadline ==
  /\ Active = {}
  /\ ShutdownApi(FALSE)
  /\ UNCHANGED <<registry, listing>>

StopApi == ShutdownApi(Active # {}) /\ UNCHANGED <<registry, listing>>

StopPool == ClosePool(InUse # {}) /\ UNCHANGED <<registry, listing>>

\* os.Exit, or the return of main.
ExitProcess ==
  /\ Exit
  /\ request' = [r \in Requests |-> IF r \in Active
                                      THEN [request[r] EXCEPT !.pc = "done", !.answer = "cut"]
                                      ELSE request[r]]
  /\ UNCHANGED <<tenants, secret, signer, listing>>

\* The steps of runAPI that wait for nothing but what the others promise.
ServerStep ==
  \/ /\ \/ Boot \/ ShutdownMetrics
        \/ \E l \in Listeners : Listen(l)
        \/ \E cause \in {"signal", "listener"} : TakeCase(cause)
     /\ UNCHANGED <<registry, listing>>
  \/ StopApi \/ StopPool \/ ExitProcess

DeadlineStep == DeadlinePasses /\ UNCHANGED <<registry, listing>>

Disturbance ==
  /\ MixedClients \/ (walk.pc = "idle" /\ \A w \in Signers : signer[w] = IdleSigner)
  /\ \/ BootFails \/ Signal
     \/ \E l \in Listeners : ListenFails(l)
  /\ UNCHANGED <<registry, listing>>

SigningStep(w) ==
  /\ MixedClients \/ ~Stopped
  /\ SigningNext(w)
  /\ UNCHANGED <<lifecycle, listing>>

Next ==
  \/ \E r \in Requests : \/ AcceptRequest(r) \/ ReadRequest(r) \/ AcquireConn(r)
                         \/ EndStatement(r) \/ WriteResponse(r)
                         \/ RequestFault(r) \/ LateCommit(r)
  \/ BeginWalk \/ ListPage \/ DeliveriesMove
  \/ ServerStep \/ DeadlineStep \/ Disturbance
  \/ \E w \in Signers : SigningStep(w)

Spec == Init /\ [][Next]_vars

\* The server's own steps are taken, the ten seconds pass and statements return. A
\* client may never finish its request.
FairSpec ==
  /\ Spec
  /\ WF_vars(ServerStep) /\ WF_vars(DeadlineStep)
  /\ \A r \in Requests : WF_vars(EndStatement(r))

-----------------------------------------------------------------------------
(* Properties                                                              *)

\* The exit code tells whether a request was lost: when the process ends with 0, a
\* signal has stopped it and every request it had accepted was answered. The pool stays
\* open until the last request has its answer, unless Shutdown of the API gave up at the
\* deadline (server.go:143-157, main.go:127, 149).
CleanExitLosesNothing ==
  /\ server.exit = "clean" =>
       /\ signal = "sent"
       /\ \A r \in Requests : request[r].answer # "cut"
  /\ pool \in {"closing", "closed"} /\ "api" \notin server.late => Active = {}

\* A signal, or a listener that fails, ends the process, whatever its clients do: the
\* deadline of server.go:144 bounds what Shutdown waits for.
StopEnds == Stopped ~> server.pc = "exited"
=============================================================================
