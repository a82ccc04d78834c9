--------------------------- MODULE CommandHandler ---------------------------
(***************************************************************************)
(* The handling of ClassificationCommands by one worker process: the chain *)
(* ClassificationCommandDLQHandler, ClassificationCommandRetryHandler,     *)
(* ClassificationWorkerHandler (internal/application), for commands whose  *)
(* handlers run side by side under one batch context, with the observer    *)
(* they share (internal/observability/commandmetrics).                     *)
(***************************************************************************)
EXTENDS WorkerErrors

CONSTANTS Commands,
          MaxFaults  \* bound on the faults of the dependencies

ASSUME CommandAssumption == IsFiniteSet(Commands) /\ MaxFaults \in Nat

VARIABLES
  pc,          \* "new", "attempt", "waiting", "dead-lettering" or "returned"
  stage,       \* the stage of the attempt, a position in Stages
  result,      \* what Handle returned: "none", "nil" or "error"
  retrying,    \* the local flag of the retry handler
  cancelled,   \* the batch context is done
  published,   \* history: commands whose result is in the result topic
  deadLetters, \* history: commands that are in the dead letter topic
  cause,       \* history: what really made the last attempt fail
  gauge,       \* observer: the number of retrying commands
  since,       \* observer: when the reported retry began, 0 for never
  inflight,    \* observer: attempts in progress
  began,       \* history: when each command entered its retry state, or 0
  clock,       \* history: counts the entries into a retry state
  faults       \* history: how many faults happened

handling == <<pc, stage, result, retrying, cause>>
effects == <<published, deadLetters>>
observer == <<gauge, since, inflight, began, clock>>

vars == <<handling, effects, observer, cancelled, faults>>

Goto(c, from, to) == pc[c] = from /\ pc' = [pc EXCEPT ![c] = to]

Fault == faults < MaxFaults /\ faults' = faults + 1

-----------------------------------------------------------------------------
(* The observer. *)

RetryStarted(c) ==
  /\ clock' = clock + 1
  /\ began' = [began EXCEPT ![c] = clock + 1]
  /\ gauge' = gauge + 1
  /\ since' = IF gauge + 1 = 1 THEN clock + 1 ELSE since

(* Mutant: the first retry that ends clears the start of the others. *)
RetryFinishedForAll(c) ==
  /\ began' = [began EXCEPT ![c] = 0]
  /\ gauge' = gauge - 1
  /\ since' = 0
  /\ UNCHANGED clock

RetryFinished(c) ==
  /\ began' = [began EXCEPT ![c] = 0]
  /\ gauge' = IF gauge > 0 THEN gauge - 1 ELSE gauge
  /\ since' = IF gauge' = 0 THEN 0 ELSE since
  /\ UNCHANGED clock

NoRetryEvent == UNCHANGED <<began, gauge, since, clock>>

(* The deferred call when the retry handler returns. *)
LeaveRetry(c) ==
  /\ IF retrying[c] THEN RetryFinished(c) ELSE NoRetryEvent
  /\ retrying' = [retrying EXCEPT ![c] = FALSE]

-----------------------------------------------------------------------------
Init ==
  /\ pc = [c \in Commands |-> "new"]
  /\ stage = [c \in Commands |-> 1]
  /\ result = [c \in Commands |-> "none"]
  /\ retrying = [c \in Commands |-> FALSE]
  /\ cancelled = FALSE
  /\ published = {}
  /\ deadLetters = {}
  /\ cause = [c \in Commands |-> "none"]
  /\ gauge = 0
  /\ since = 0
  /\ inflight = 0
  /\ began = [c \in Commands |-> 0]
  /\ clock = 0
  /\ faults = 0

Return(c, value) ==
  /\ pc' = [pc EXCEPT ![c] = "returned"]
  /\ result' = [result EXCEPT ![c] = value]

(* Handle looks at the context before it does anything. *)
BeginCancelled(c) ==
  /\ pc[c] = "new"
  /\ cancelled
  /\ Return(c, "error")
  /\ UNCHANGED <<stage, retrying, cause, effects, observer, cancelled, faults>>

Begin(c) ==
  /\ ~cancelled
  /\ Goto(c, "new", "attempt")
  /\ inflight' = inflight + 1
  /\ UNCHANGED <<stage, result, retrying, cause, effects, gauge, since, began,
                 clock, cancelled, faults>>

(* A stage of the worker ends well.  Only after the inference the worker   *)
(* looks at its context itself.                                            *)
StageSucceeds(c) ==
  /\ pc[c] = "attempt"
  /\ stage[c] < Len(Stages)
  /\ Stages[stage[c]] = "classify" => ~cancelled
  /\ stage' = [stage EXCEPT ![c] = @ + 1]
  /\ UNCHANGED <<pc, result, retrying, cause, effects, observer, cancelled, faults>>

(* The last stage publishes the result, and every handler returns nil. *)
PublishSucceeds(c) ==
  /\ pc[c] = "attempt"
  /\ stage[c] = Len(Stages)
  /\ published' = published \cup {c}
  /\ inflight' = inflight - 1
  /\ LeaveRetry(c)
  /\ Return(c, "nil")
  /\ UNCHANGED <<stage, cause, deadLetters, cancelled, faults>>

(* The attempt ends with an error of the given class: the retry handler    *)
(* waits or returns, and what is permanent goes to the dead letter topic.  *)
AttemptFails(c, class) ==
  /\ pc[c] = "attempt"
  /\ inflight' = inflight - 1
  /\ stage' = [stage EXCEPT ![c] = 1]
  /\ \/ /\ class = "RETRYABLE"
        /\ pc' = [pc EXCEPT ![c] = "waiting"]
        /\ IF retrying[c] THEN NoRetryEvent ELSE RetryStarted(c)
        /\ retrying' = [retrying EXCEPT ![c] = TRUE]
        /\ UNCHANGED result
     \/ /\ class = "PERMANENT"
        /\ pc' = [pc EXCEPT ![c] = "dead-lettering"]
        /\ LeaveRetry(c)
        /\ UNCHANGED result
     \/ /\ class = "CANCELLED"
        /\ LeaveRetry(c)
        /\ Return(c, "error")

(* A dependency or the command itself is at fault.  A publish that failed  *)
(* may have reached the topic.                                             *)
StageFails(c) ==
  /\ \E fault \in Faults(Stages[stage[c]]) :
       /\ AttemptFails(c, Class(Stages[stage[c]], Chains[Stages[stage[c]]][fault]))
       /\ cause' = [cause EXCEPT ![c] = fault]
  /\ \/ UNCHANGED published
     \/ stage[c] = Len(Stages) /\ published' = published \cup {c}
  /\ Fault
  /\ UNCHANGED <<deadLetters, cancelled>>

(* The context ends the attempt, in a call or between two.  A cancelled    *)
(* read of the light curve's body loses its cause like any other.          *)
AttemptCancelled(c) ==
  /\ cancelled
  /\ \/ AttemptFails(c, Class(Stages[stage[c]], {"context canceled"}))
     \/ /\ Stages[stage[c]] = "read-light-curve"
        /\ AttemptFails(c, Class(Stages[stage[c]], LightCurveChain["bodyLost"]))
  /\ cause' = [cause EXCEPT ![c] = "context done"]
  /\ \/ UNCHANGED published
     \/ stage[c] = Len(Stages) /\ published' = published \cup {c}
  /\ UNCHANGED <<deadLetters, cancelled, faults>>

WaitCancelled(c) ==
  /\ pc[c] = "waiting"
  /\ cancelled
  /\ LeaveRetry(c)
  /\ Return(c, "error")
  /\ UNCHANGED <<stage, cause, effects, inflight, cancelled, faults>>

(* Mutant: the timer of the wait never fires. *)
WaitEndsNever(c) == WaitCancelled(c)

WaitEnds(c) ==
  /\ ~cancelled
  /\ Goto(c, "waiting", "attempt")
  /\ inflight' = inflight + 1
  /\ UNCHANGED <<stage, result, retrying, cause, effects, gauge, since, began,
                 clock, cancelled, faults>>

(* The dead letter handler returns nil only after the publish. *)
DeadLetter(c) ==
  /\ pc[c] = "dead-lettering"
  /\ deadLetters' = deadLetters \cup {c}
  /\ Return(c, "nil")
  /\ UNCHANGED <<stage, retrying, cause, published, observer, cancelled, faults>>

(* Mutant: the error of the publish is swallowed. *)
DeadLetterFailsSilently(c) ==
  /\ pc[c] = "dead-lettering"
  /\ Fault
  /\ Return(c, "nil")
  /\ UNCHANGED <<stage, retrying, cause, published, deadLetters, observer, cancelled>>

(* The dead letter cannot be built, or its publish fails; a publish that   *)
(* failed may have reached the topic.                                      *)
DeadLetterFails(c) ==
  /\ pc[c] = "dead-lettering"
  /\ IF cancelled THEN UNCHANGED faults ELSE Fault
  /\ deadLetters' \in {deadLetters, deadLetters \cup {c}}
  /\ Return(c, "error")
  /\ UNCHANGED <<stage, retrying, cause, published, observer, cancelled>>

(* A rebalance, a shutdown, or the error of another record of the batch. *)
Cancel ==
  /\ ~cancelled
  /\ cancelled' = TRUE
  /\ UNCHANGED <<handling, effects, observer, faults>>

Done ==
  /\ \A c \in Commands : pc[c] = "returned"
  /\ UNCHANGED vars

Step(c) ==
  \/ BeginCancelled(c) \/ Begin(c) \/ StageSucceeds(c) \/ PublishSucceeds(c)
  \/ AttemptCancelled(c) \/ WaitEnds(c) \/ WaitCancelled(c) \/ DeadLetter(c)

Next ==
  \/ Cancel \/ Done
  \/ \E c \in Commands : Step(c) \/ StageFails(c) \/ DeadLetterFails(c)

Spec == Init /\ [][Next]_vars

(* A handler does what it can do next; dependencies fail a bounded number  *)
(* of times and nobody has to cancel anything.                             *)
FairSpec == Spec /\ \A c \in Commands : WF_vars(Step(c))

-----------------------------------------------------------------------------
(* Handle returns nil only when the result or the dead letter of the       *)
(* command is durable: this is what lets the runners commit on nil.        *)
NilMeansDurable ==
  \A c \in Commands : result[c] = "nil" => c \in published \cup deadLetters

(* The gauges tell the truth with any number of overlapping handlers: as   *)
(* many retries as commands in their retry state, as many attempts as are  *)
(* running, and an age that covers the oldest retry.                       *)
GaugesAreTrue ==
  /\ gauge = Cardinality({c \in Commands : retrying[c]})
  /\ inflight = Cardinality({c \in Commands : pc[c] = "attempt"})
  /\ since = 0 <=> gauge = 0
  /\ \A c \in Commands : began[c] # 0 => since <= began[c]

(* Whatever failed before, a handler whose dependencies recover returns,   *)
(* and a retry is never given up, nor a wait forgotten.                    *)
EveryCommandReturns == \A c \in Commands : <>(pc[c] = "returned")

(* docs/runbooks/dlq-growth.md lists what must not enter the Command DLQ:  *)
(* light curve network, timeout and 5xx failures among them.               *)
OutageNotDeadLettered ==
  \A c \in Commands : c \in deadLetters => cause[c] \notin Outages

(* docs/runbooks/dlq-growth.md keeps the same failures in "retry /         *)
(* no-commit": a timeout of a dependency does not end Handle unless the    *)
(* context of the batch is done as well.                                   *)
TimeoutIsRetried ==
  \A c \in Commands : result[c] = "error" /\ cause[c] = "timeout" => cancelled
=============================================================================
