------------------------------ MODULE Services ------------------------------
(***************************************************************************)
(* The life of a process of this system (run in each main.go of cmd): the steps  *)
(* of its start, each of which ends it if it fails, the sessions of its    *)
(* consumer, the management server in a goroutine of its own beside them,  *)
(* and its end, with the clients it opens and closes on the way.           *)
(***************************************************************************)
EXTENDS Integers, Sequences, FiniteSets

CONSTANTS
  Kinds,      \* the services that are started
  MaxFaults   \* bound on failures

(* The steps at which a start can fail or be interrupted, in the order of  *)
(* each main.  The candidate orchestrator listens to signals only after it *)
(* has its Kafka client.                                                   *)
AsyncWorkerSteps ==
  <<"signals", "manifest", "database", "version", "metadata", "config",
    "producer", "session", "listen">>

ClassifierWorkerSteps ==
  <<"signals", "manifest", "database", "version", "metadata", "config",
    "producer", "session", "listen">>

ResultWriterSteps == <<"signals", "database", "producer", "session", "listen">>

OrchestratorSteps == <<"session", "signals", "listen">>

Steps ==
  [asyncWorker |-> AsyncWorkerSteps, classifierWorker |-> ClassifierWorkerSteps,
   resultWriter |-> ResultWriterSteps, orchestrator |-> OrchestratorSteps]

ASSUME ServicesAssumption == Kinds \subseteq DOMAIN Steps /\ MaxFaults \in Nat

VARIABLES
  service,      \* which of them this process is
  pc,           \* where run stands
  step,         \* the step of the start
  signalled,    \* SIGTERM came
  cancelled,    \* the run context is done
  ready,        \* management.Readiness
  server,       \* the goroutine of the management server
  serveErrors,  \* the channel managementServeErrors
  runnerErr, shutdownErr,
  exit,         \* what run returned, or "killed"
  consumer,     \* the variable consumerClient
  open,         \* the clients that are open
  closedTwice,  \* history: a client was closed that was not open
  faults        \* history: how many faults happened

position == <<service, step>>
errors == <<runnerErr, shutdownErr, exit>>
contexts == <<signalled, cancelled>>
management == <<ready, server, serveErrors>>
clients == <<consumer, open, closedTwice>>

process == <<position, pc, errors, contexts, management, clients>>

serviceVars == <<process, faults>>

Fault == faults < MaxFaults /\ faults' = faults + 1

InitService ==
  /\ service \in Kinds
  /\ pc = "start" /\ step = 1
  /\ signalled = FALSE /\ cancelled = FALSE
  /\ ready = FALSE /\ server = "none" /\ serveErrors = "empty"
  /\ runnerErr = "nil" /\ shutdownErr = "nil" /\ exit = "none"
  /\ consumer = "nil" /\ open = {} /\ closedTwice = FALSE
  /\ faults = 0

-----------------------------------------------------------------------------
(* The clients. *)

Close(some) ==
  /\ open' = open \ some
  /\ closedTwice' = (closedTwice \/ ~(some \subseteq open))

(* What the deferred calls close: the consumer only if the variable is set.*)
Deferred ==
  (open \cap {"pool", "producer"}) \cup (IF consumer = "set" THEN {"consumer"} ELSE {})

-----------------------------------------------------------------------------
(* The start. *)

Step == Steps[service][step]

(* The steps that take the run context. *)
OfContext == {"manifest", "database", "version", "metadata", "config"}

Opens ==
  CASE Step = "database" -> {"pool"}
    [] Step = "producer" -> {"producer"}
    [] Step = "session"  -> {"consumer"}
    [] OTHER             -> {}

Start ==
  /\ pc = "start"
  /\ Step \in OfContext => ~cancelled
  /\ open' = open \cup Opens
  /\ consumer' = IF Step = "session" THEN "set" ELSE consumer
  /\ server' = IF Step = "listen" THEN "running" ELSE server
  /\ IF step < Len(Steps[service]) THEN step' = step + 1 /\ UNCHANGED pc
     ELSE pc' = "ready" /\ UNCHANGED step
  /\ UNCHANGED <<service, errors, contexts, ready, serveErrors, closedTwice, faults>>

(* run returns an error, and its deferred calls are made. *)
Fail ==
  /\ pc = "start"
  /\ pc' = "exited" /\ exit' = "error"
  /\ Close(Deferred)
  /\ UNCHANGED <<position, runnerErr, shutdownErr, contexts, management, consumer>>

StartFails ==
  /\ Fail
  /\ \/ Fault
     \/ Step \in OfContext /\ cancelled /\ UNCHANGED faults

SetReady ==
  /\ pc = "ready" /\ pc' = "run"
  /\ ready' = TRUE
  /\ UNCHANGED <<position, errors, contexts, server, serveErrors, clients, faults>>

-----------------------------------------------------------------------------
(* The signal, and the management server. *)

Listens == "signals" \in {Steps[service][i] : i \in 1 .. step - 1}

(* Before the process listens to it, the signal kills it. *)
Signal ==
  /\ ~signalled /\ pc # "exited"
  /\ signalled' = TRUE
  /\ IF Listens THEN cancelled' = TRUE /\ UNCHANGED <<pc, exit>>
     ELSE pc' = "exited" /\ exit' = "killed" /\ UNCHANGED cancelled
  /\ UNCHANGED <<position, runnerErr, shutdownErr, management, clients, faults>>

(* Mutant: the goroutine cancels the run but reports nothing. *)
ServeFailsSilently ==
  /\ server = "running"
  /\ Fault
  /\ server' = "failed" /\ serveErrors' = "nil"
  /\ UNCHANGED <<position, pc, errors, contexts, ready, clients>>

(* Serve fails: first the error goes into the channel, *)
ServeFails ==
  /\ server = "running"
  /\ Fault
  /\ server' = "failed" /\ serveErrors' = "error"
  /\ UNCHANGED <<position, pc, errors, contexts, ready, clients>>

(* Mutant: nobody cancels the run. *)
ServeStopsOnly ==
  /\ server = "failed" /\ server' = "stopped"
  /\ UNCHANGED <<position, pc, errors, contexts, ready, serveErrors, clients, faults>>

(* then the run is cancelled. *)
ServeCancelsRun ==
  /\ server = "failed" /\ server' = "stopped"
  /\ cancelled' = TRUE
  /\ UNCHANGED <<position, pc, errors, signalled, ready, serveErrors, clients, faults>>

(* Shutdown made Serve return ErrServerClosed. *)
ServeCloses ==
  /\ server = "running" /\ pc \in {"closing", "read"}
  /\ server' = "stopped" /\ serveErrors' = "nil"
  /\ UNCHANGED <<position, pc, errors, contexts, ready, clients, faults>>

-----------------------------------------------------------------------------
(* The sessions.  The orchestrator has one, and its runner never yields.   *)

HasSessions == service # "orchestrator"

(* Mutant: the variable keeps the client that is closed. *)
CloseKeepsConsumer ==
  IF HasSessions THEN Close({"consumer"}) /\ UNCHANGED consumer ELSE UNCHANGED clients

CloseConsumer ==
  IF HasSessions THEN Close({"consumer"}) /\ consumer' = "nil" ELSE UNCHANGED clients

(* The runner returns: nil for a cancelled context, unless that ended a    *)
(* commit; ErrRebalanceYielded, as often as the group rebalances; or an    *)
(* error.                                                                  *)
RunReturns ==
  /\ pc = "run" /\ pc' = "returned"
  /\ \/ cancelled /\ runnerErr' \in {"nil", "error"} /\ UNCHANGED faults
     \/ HasSessions /\ runnerErr' = "yielded" /\ UNCHANGED faults
     \/ runnerErr' = "error" /\ Fault
  /\ CloseConsumer
  /\ UNCHANGED <<position, shutdownErr, exit, contexts, management>>

(* Only a yield that is not the end leads into a new session.              *)
SessionEnds ==
  /\ pc = "returned"
  /\ \/ /\ runnerErr = "yielded" /\ ~cancelled
        /\ \/ /\ pc' = "run" /\ runnerErr' = "nil"
              /\ consumer' = "set" /\ open' = open \cup {"consumer"}
              /\ UNCHANGED <<closedTwice, faults>>
           \/ pc' = "stop" /\ runnerErr' = "error" /\ Fault /\ UNCHANGED clients
     \/ /\ runnerErr # "yielded" \/ cancelled
        /\ pc' = "stop"
        /\ runnerErr' = IF runnerErr = "yielded" THEN "nil" ELSE runnerErr
        /\ UNCHANGED <<clients, faults>>
  /\ UNCHANGED <<position, shutdownErr, exit, contexts, management>>

-----------------------------------------------------------------------------
(* The end. *)

Stop ==
  /\ pc = "stop" /\ pc' = "closing"
  /\ ready' = FALSE /\ cancelled' = TRUE
  /\ UNCHANGED <<position, errors, signalled, server, serveErrors, clients, faults>>

(* Shutdown returns, or its timeout ends it. *)
Shutdown ==
  /\ pc = "closing" /\ pc' = "read"
  /\ \/ UNCHANGED <<shutdownErr, faults>>
     \/ shutdownErr' = "error" /\ Fault
  /\ UNCHANGED <<position, runnerErr, exit, contexts, management, clients>>

(* The goroutine of the server is waited for; any of the three errors is   *)
(* the error of the process.                                               *)
Exit ==
  /\ pc = "read" /\ serveErrors # "empty"
  /\ pc' = "exited"
  /\ exit' = IF "error" \in {runnerErr, serveErrors, shutdownErr} THEN "error" ELSE "nil"
  /\ Close(Deferred)
  /\ UNCHANGED <<position, runnerErr, shutdownErr, contexts, management, consumer, faults>>

Main == SetReady \/ SessionEnds \/ Stop \/ Shutdown \/ Exit

Server == ServeCancelsRun \/ ServeCloses

-----------------------------------------------------------------------------
(* The process ends without an error only if it was told to stop and       *)
(* neither its sessions nor its management server failed: otherwise a      *)
(* service that nobody can observe, or that consumes nothing, would look   *)
(* like one that was stopped (main.go, the precedence of the errors).      *)
CleanExitOnlyOnSignal ==
  exit = "nil" => signalled /\ server = "stopped" /\ serveErrors = "nil" /\ runnerErr = "nil"

(* Every client that was opened is closed once, on every way out: after a  *)
(* failed start, after any number of sessions, and when a new session      *)
(* could not be opened (main.go, the deferred calls and consumerClient).   *)
EveryClientClosedOnce ==
  /\ ~closedTwice
  /\ exit \in {"nil", "error"} => open = {}

(* A service that is told to stop, or whose management server fails, ends, *)
(* from every step of its start and every session.                         *)
ServiceStops == (signalled \/ server = "failed") ~> (pc = "exited")
=============================================================================
