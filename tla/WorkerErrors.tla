---------------------------- MODULE WorkerErrors ----------------------------
(***************************************************************************)
(* How an error inside the handling of a ClassificationCommand gets its    *)
(* class (internal/application/classification_worker_error.go), and which  *)
(* error chain the adapters build for what really happened.                *)
(*                                                                         *)
(* An error chain is the set of the causes errors.Is and errors.As find in *)
(* it; the empty chain is an error with no cause the code knows.           *)
(***************************************************************************)
EXTENDS Integers, Sequences, FiniteSets

Classes == {"RETRYABLE", "PERMANENT", "CANCELLED"}

(* The steps of one attempt, in order. *)
Stages == << "decode-command", "read-light-curve", "select-coarse-mode",
             "resolve-serving-bundle", "classify", "build-run", "build-result",
             "publish-result" >>

Stage == {Stages[i] : i \in 1 .. Len(Stages)}

PermanentCauses ==
  {"invalid command", "light curve not found", "light curve inconsistent",
   "bundle not found", "bundle invalid", "result invalid"}

RetryableCauses == {"light curve not ready", "light curve unavailable"}

(* The order of the tests decides: a context error first, then the causes  *)
(* with a meaning, then the HTTP status, then the network, and for what is *)
(* left the stage.                                                         *)
Class(stage, chain) ==
  IF chain \cap {"context canceled", "deadline exceeded"} # {} THEN "CANCELLED"
  ELSE IF chain \cap PermanentCauses # {} THEN "PERMANENT"
  ELSE IF chain \cap RetryableCauses # {} THEN "RETRYABLE"
  ELSE IF "rejecting status" \in chain THEN "PERMANENT"
  ELSE IF chain \cap {"retryable status", "network"} # {} THEN "RETRYABLE"
  ELSE IF stage \in {"read-light-curve", "select-coarse-mode",
                     "resolve-serving-bundle", "classify", "publish-result"}
       THEN "RETRYABLE"
  ELSE "PERMANENT"

-----------------------------------------------------------------------------
(* What the adapters report.  A timeout of the HTTP client is an error of  *)
(* the network that also counts as an exceeded deadline.                   *)

(* The light curve repository.  Whatever ends the decoding of the body is  *)
(* formatted into the message of an inconsistent revision: the chain of    *)
(* its cause is lost.                                                      *)
LightCurveChain ==
  [status404   |-> {"light curve not found"},
   status409   |-> {"light curve not ready"},
   status422   |-> {"light curve inconsistent"},
   status5xx   |-> {"light curve unavailable"},
   unreachable |-> {"light curve unavailable", "network"},
   timeout     |-> {"light curve unavailable", "network", "deadline exceeded"},
   bodyLost    |-> {"light curve inconsistent"},
   malformed   |-> {"light curve inconsistent"},
   invalid     |-> {"light curve inconsistent"}]

TritonChain ==
  [status4xx   |-> {"rejecting status"},
   status5xx   |-> {"retryable status"},
   unreachable |-> {"network"},
   timeout     |-> {"network", "deadline exceeded"},
   bodyLost    |-> {},
   unusable    |-> {}]

(* The stages that read no network have one way to fail, and the two that  *)
(* read the database or write to Kafka a further one.                      *)
Chains ==
  [stage \in Stage |->
     CASE stage = "decode-command"         -> [malformed |-> {"invalid command"}]
       [] stage = "read-light-curve"       -> LightCurveChain
       [] stage = "select-coarse-mode"     -> [unavailable |-> {},
                                               invalid |-> {"bundle invalid"}]
       [] stage = "resolve-serving-bundle" -> [unknown |-> {"bundle not found"}]
       [] stage = "classify"               -> TritonChain
       [] stage \in {"build-run", "build-result"} -> [invalid |-> {"result invalid"}]
       [] stage = "publish-result"         -> [unavailable |-> {}]]

Faults(stage) == DOMAIN Chains[stage]

(* What an outage of a dependency looks like: it passes. *)
Outages == {"status5xx", "unreachable", "timeout", "bodyLost", "unavailable"}
=============================================================================
