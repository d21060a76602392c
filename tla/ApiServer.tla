------------------------------ MODULE ApiServer -----------------------------
(***************************************************************************)
(* The life of `webhookd api`: runAPI opens the pool and calls             *)
(* Server.Start, which serves the API and the metrics until a signal or a  *)
(* listener's error, shuts both servers down within one deadline of ten    *)
(* seconds and returns; the deferred pool.Close waits for the connections  *)
(* that are in use, and main exits.                                        *)
(*                                                                         *)
(* net/http and pgxpool are external: Shutdown closes the listener, lets   *)
(* active requests finish and gives up at the deadline without stopping    *)
(* them; Close refuses new statements and waits for those under way.       *)
(***************************************************************************)
EXTENDS Integers

VARIABLES server,    \* where runAPI, Start and shutdown are
          listener,  \* ListenAndServe of each server
          signal,    \* SIGINT or SIGTERM has cancelled the context
          deadline,  \* shutdownCtx
          pool

lifecycle == <<server, listener, signal, deadline, pool>>

Listeners == {"api", "metrics"}

\* cause: the case of the select that was taken. late: the servers whose Shutdown
\* returned the error of the deadline.
Server == [pc: {"boot", "select", "api", "metrics", "close", "exit", "exited"},
           cause: {"none", "signal", "listener", "boot"}, late: SUBSET Listeners,
           exit: {"none", "clean", "error"}]

ServerTypeOK ==
  /\ server \in Server
  /\ listener \in [Listeners -> {"off", "starting", "serving", "failed", "closed"}]
  /\ signal \in {"none", "sent"}
  /\ deadline \in {"unset", "running", "passed"}
  /\ pool \in {"none", "open", "closing", "closed"}

ServerInit ==
  /\ server = [pc |-> "boot", cause |-> "none", late |-> {}, exit |-> "none"]
  /\ listener = [l \in Listeners |-> "off"]
  /\ signal = "none"
  /\ deadline = "unset"
  /\ pool = "none"

-----------------------------------------------------------------------------
(* Start                                                                   *)

\* The configuration is valid and PostgreSQL answers; Start spawns both listeners.
Boot ==
  /\ server.pc = "boot"
  /\ server' = [server EXCEPT !.pc = "select"]
  /\ pool' = "open"
  /\ listener' = [l \in Listeners |-> "starting"]
  /\ UNCHANGED <<signal, deadline>>

\* The flags or the configuration are not valid, or the pool cannot be opened, which
\* is also what a signal this early does.
BootFails ==
  /\ server.pc = "boot"
  /\ server' = [server EXCEPT !.pc = "exit", !.cause = "boot"]
  /\ UNCHANGED <<listener, signal, deadline, pool>>

\* ListenAndServe of a server that is being shut down returns ErrServerClosed.
Listen(l) ==
  /\ listener[l] = "starting"
  /\ listener' = [listener EXCEPT ![l] = "serving"]
  /\ UNCHANGED <<server, signal, deadline, pool>>

\* The port is taken, or accepting connections fails: the error goes to errCh, which
\* nobody reads after the select.
ListenFails(l) ==
  /\ server.pc = "select" /\ listener[l] \in {"starting", "serving"}
  /\ listener' = [listener EXCEPT ![l] = "failed"]
  /\ UNCHANGED <<server, signal, deadline, pool>>

\* The context is not looked at after the select.
Signal ==
  /\ signal = "none" /\ server.pc \in {"boot", "select"}
  /\ signal' = "sent"
  /\ UNCHANGED <<server, listener, deadline, pool>>

\* What the select of Start waits for.
Stopped == signal = "sent" \/ \E l \in Listeners : listener[l] = "failed"

-----------------------------------------------------------------------------
(* shutdown                                                                *)

CloseListener(l) == [listener EXCEPT ![l] = "closed"]

\* The select takes either case when both are ready; shutdown closes the API listener.
TakeCase(cause) ==
  /\ server.pc = "select"
  /\ \/ cause = "signal" /\ signal = "sent"
     \/ cause = "listener" /\ \E l \in Listeners : listener[l] = "failed"
  /\ server' = [server EXCEPT !.pc = "api", !.cause = cause]
  /\ listener' = CloseListener("api")
  /\ deadline' = "running"
  /\ UNCHANGED <<signal, pool>>

DeadlinePasses ==
  /\ deadline = "running" /\ server.pc \in {"api", "metrics"}
  /\ deadline' = "passed"
  /\ UNCHANGED <<server, listener, signal, pool>>

\* Shutdown of the API server returns when no request is active, or at the deadline;
\* shutdown goes on to the metrics server in both cases.
ShutdownApi(active) ==
  /\ server.pc = "api"
  /\ \/ ~active /\ server' = [server EXCEPT !.pc = "metrics"]
     \/ deadline = "passed" /\ server' = [server EXCEPT !.pc = "metrics", !.late = @ \cup {"api"}]
  /\ listener' = CloseListener("metrics")
  /\ UNCHANGED <<signal, deadline, pool>>

\* Shutdown of the metrics server, with what is left of the ten seconds for a scrape
\* that is under way; Start returns and pool.Close is called.
ShutdownMetrics ==
  /\ server.pc = "metrics"
  /\ \/ server' = [server EXCEPT !.pc = "close"]
     \/ /\ deadline = "passed"
        /\ server' = [server EXCEPT !.pc = "close", !.late = @ \cup {"metrics"}]
  /\ pool' = "closing" /\ deadline' = "unset"
  /\ UNCHANGED <<listener, signal>>

\* pool.Close returns when every connection has been given back.
ClosePool(inUse) ==
  /\ server.pc = "close" /\ ~inUse
  /\ server' = [server EXCEPT !.pc = "exit"]
  /\ pool' = "closed"
  /\ UNCHANGED <<listener, signal, deadline>>

\* Mutant of ExitCode: the errors of shutdown are dropped.
ExitCode_ShutdownErrorDropped == IF server.cause = "signal" THEN "clean" ELSE "error"

\* exitOnErr: runAPI returns the error of the boot or of a listener, or else the one of
\* shutdown.
ExitCode == IF server.cause = "signal" /\ server.late = {} THEN "clean" ELSE "error"

Exit ==
  /\ server.pc = "exit"
  /\ server' = [server EXCEPT !.pc = "exited", !.exit = ExitCode]
  /\ UNCHANGED <<listener, signal, deadline, pool>>
=============================================================================
