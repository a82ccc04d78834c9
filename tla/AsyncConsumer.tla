--------------------------- MODULE AsyncConsumer ---------------------------
(***************************************************************************)
(* async-classifier-worker processes sharing one consumer group:           *)
(* AsyncConsumerRunner.Run (internal/adapter/kafka/async_consumer.go) on   *)
(* top of ConsumerSession.                                                 *)
(*                                                                         *)
(* A batch is abstracted to the set of its records: BatchProcessor shows   *)
(* that what processBatch offers for commit is the longest finished prefix *)
(* of each partition.                                                      *)
(***************************************************************************)
EXTENDS ConsumerSession

CONSTANTS Concurrency  \* the limit of a poll

ASSUME ConcurrencyAssumption == Concurrency \in Nat \ {0}

VARIABLES
  failed,   \* a handler of the batch returned an error
  running,  \* records whose handler runs
  ok        \* records of the batch whose handler returned nil

batchVars == <<failed, running, ok>>

vars == <<groupVars, sessionVars, effects, faults, batchVars>>

(* processingContext.Err() # nil *)
Cancelled(w) == ctxDone[w] \/ failed[w] \/ stopping[w]

(* Mutant of PrefixEnd: the highest finished record decides. *)
PrefixEndPastGaps(w, p, next) ==
  /\ next \in start[w][p] .. position[w][p]
  /\ next > start[w][p] => <<p, next - 1>> \in ok[w]
  /\ \A i \in next .. (position[w][p] - 1) : <<p, i>> \notin ok[w]

(* next is the end of the finished prefix of the batch in partition p. *)
PrefixEnd(w, p, next) ==
  /\ next \in start[w][p] .. position[w][p]
  /\ \A i \in start[w][p] .. (next - 1) : <<p, i>> \in ok[w]
  /\ next < position[w][p] => <<p, next>> \notin ok[w]

Committable(w) == {p \in Partitions : ~PrefixEnd(w, p, start[w][p])}

-----------------------------------------------------------------------------
Init ==
  /\ SessionInit
  /\ failed = [w \in Workers |-> FALSE]
  /\ running = [w \in Workers |-> {}]
  /\ ok = [w \in Workers |-> {}]

EndBatch(w) ==
  /\ failed' = [failed EXCEPT ![w] = FALSE]
  /\ running' = [running EXCEPT ![w] = {}]
  /\ ok' = [ok EXCEPT ![w] = {}]

(* One handler of the batch runs on its lane. *)
StartHandler(w, r) ==
  /\ pc[w] = "processing"
  /\ ~Cancelled(w)
  /\ r \in Batch(w) \ (running[w] \cup ok[w])
  /\ \A e \in Batch(w) : SameLaneBefore(e, r) => e \in ok[w]
  /\ running' = [running EXCEPT ![w] = @ \cup {r}]
  /\ NoFault
  /\ UNCHANGED <<groupVars, sessionVars, effects, failed, ok>>

HandlerSucceeds(w, r) ==
  /\ r \in running[w]
  /\ running' = [running EXCEPT ![w] = @ \ {r}]
  /\ ok' = [ok EXCEPT ![w] = @ \cup {r}]
  /\ effects' = effects \cup {r}
  /\ NoFault
  /\ UNCHANGED <<groupVars, sessionVars, failed>>

(* A handler fails because its context was cancelled or for a reason of    *)
(* its own.  The effect may be durable all the same, when only the         *)
(* acknowledgement of the publish was lost.                                *)
HandlerFails(w, r) ==
  /\ r \in running[w]
  /\ running' = [running EXCEPT ![w] = @ \ {r}]
  /\ failed' = [failed EXCEPT ![w] = TRUE]
  /\ effects' \in {effects, effects \cup {r}}
  /\ IF Cancelled(w) THEN NoFault ELSE Fault
  /\ UNCHANGED <<groupVars, sessionVars, ok>>

(* processBatch returns when every lane has. *)
BatchReturns(w) ==
  /\ Goto(w, "processing", "returned")
  /\ running[w] = {}
  /\ Cancelled(w) \/ Batch(w) \subseteq ok[w]
  /\ NoFault
  /\ UNCHANGED <<groupVars, stopping, stale, signal, captured, ctxDone, start, effects,
                 batchVars>>

-----------------------------------------------------------------------------
(* After the batch: yield, or stop, or commit and go on. *)

(* Mutant of Yield: the session that yielded polls on. *)
YieldAndPollOn(w) ==
  /\ stale[w]
  /\ LeaveTurn(w, "returned", "idle")
  /\ EndBatch(w)

Yield(w) ==
  /\ stale[w]
  /\ LeaveTurn(w, "returned", "yielded")
  /\ EndBatch(w)

StopAfterBatch(w) ==
  /\ ~stale[w]
  /\ stopping[w]
  /\ LeaveTurn(w, "returned", "exiting")
  /\ EndBatch(w)

(* Mutant of PrepareCommit: a failed batch commits nothing. *)
PrepareCommitUnlessFailed(w) ==
  /\ ~stale[w]
  /\ ~stopping[w]
  /\ Goto(w, "returned",
          IF failed[w] \/ Committable(w) = {} THEN "releasing" ELSE "committing")
  /\ NoFault
  /\ UNCHANGED <<groupVars, stopping, stale, signal, captured, ctxDone, start, effects,
                 batchVars>>

PrepareCommit(w) ==
  /\ ~stale[w]
  /\ ~stopping[w]
  /\ Goto(w, "returned", IF Committable(w) = {} THEN "releasing" ELSE "committing")
  /\ NoFault
  /\ UNCHANGED <<groupVars, stopping, stale, signal, captured, ctxDone, start, effects,
                 batchVars>>

CommitPrefix(w) ==
  \E next \in Cursors :
    /\ \A p \in Partitions : PrefixEnd(w, p, next[p])
    /\ Commit(w, [p \in Committable(w) |-> next[p]])

CommitSucceeds(w) ==
  /\ Goto(w, "committing", "releasing")
  /\ CommitPrefix(w)
  /\ NoFault
  /\ UNCHANGED <<stopping, stale, signal, captured, ctxDone, start, effects, batchVars>>

(* A failed commit ends the runner.  The broker refuses a member it has    *)
(* thrown out; for any other the commit may have been applied or not.      *)
CommitFails(w) ==
  /\ Goto(w, "committing", "exiting")
  /\ CommitPrefix(w) \/ UNCHANGED groupVars
  /\ IF member[w] = "evicted" \/ stopping[w] THEN NoFault ELSE Fault
  /\ EndTurn(w)
  /\ EndBatch(w)
  /\ UNCHANGED <<stopping, signal, effects>>

(* Mutant of Release: the error of the batch is forgotten. *)
ReleaseAndPollOn(w) ==
  /\ LeaveTurn(w, "releasing", "idle")
  /\ EndBatch(w)

(* After AllowRebalance an error of the batch ends the runner. *)
Release(w) ==
  /\ LeaveTurn(w, "releasing", IF failed[w] THEN "exiting" ELSE "idle")
  /\ EndBatch(w)

-----------------------------------------------------------------------------
LoopStep(w) ==
  \/ SessionStep(w) /\ UNCHANGED batchVars
  \/ BatchReturns(w) \/ Yield(w) \/ StopAfterBatch(w) \/ PrepareCommit(w)
  \/ CommitSucceeds(w) \/ CommitFails(w) \/ Release(w)

PollStep(w) == PollReturns(w, Concurrency) /\ UNCHANGED batchVars

CallbackStep(w) == Callback(w) /\ UNCHANGED batchVars

Handler(w) ==
  \E r \in Records :
    StartHandler(w, r) \/ HandlerSucceeds(w, r) \/ HandlerFails(w, r)

Next ==
  \/ Rebalance /\ UNCHANGED batchVars
  \/ \E w \in Workers :
       \/ LoopStep(w) \/ PollStep(w) \/ Handler(w) \/ CallbackStep(w)
       \/ Surroundings(w) /\ UNCHANGED batchVars
       \/ Crash(w) /\ EndBatch(w)

Spec == Init /\ [][Next]_vars

HandlerReturns(w) == \E r \in Records : HandlerSucceeds(w, r) \/ HandlerFails(w, r)

(* Processes, callbacks and the broker keep going, an exited process is    *)
(* restarted by its orchestrator, and a poll that finds records again and  *)
(* again returns them.  The loop of a worker has at most one step to take. *)
(* Faults, shutdowns and rebalances nobody needs may happen and need not.  *)
Fairness ==
  /\ WF_vars(StartRebalance /\ RebalanceNeeded /\ Rebalance /\ UNCHANGED batchVars)
  /\ WF_vars(CompleteRebalance(Open) /\ Rebalance /\ UNCHANGED batchVars)
  /\ \A w \in Workers :
       /\ WF_vars(LoopStep(w))
       /\ SF_vars(PollStep(w))
       /\ WF_vars(\E r \in Records : StartHandler(w, r))
       /\ WF_vars(Cancelled(w) /\ HandlerReturns(w))
       /\ WF_vars(CallbackBlocked(w) /\ UNCHANGED batchVars)
       /\ WF_vars(Request(w) /\ UNCHANGED batchVars)
       /\ WF_vars(CallCancel(w) /\ UNCHANGED batchVars)
       /\ WF_vars(Expire(w) /\ UNCHANGED batchVars)
       /\ WF_vars(RejoinMember(w) /\ UNCHANGED batchVars)

(* The dependencies a handler retries recover in the end.                  *)
Recovery == \A w \in Workers : WF_vars(HandlerReturns(w))

(* A handler that is not cancelled may retry for ever.                     *)
FairSpec == Spec /\ Fairness

-----------------------------------------------------------------------------
(* Type invariant. *)
TypeOK ==
  /\ SessionTypeOK
  /\ failed \in [Workers -> BOOLEAN]
  /\ running \in [Workers -> SUBSET Records]
  /\ ok \in [Workers -> SUBSET Records]

(* Two members in good standing never run a handler for the same record at *)
(* the same time: a partition is not handed over while a handler of its    *)
(* records runs.                                                           *)
NoConcurrentDuplicate ==
  \A w1, w2 \in Joined : w1 # w2 => running[w1] \cap running[w2] = {}

(* Before a worker in good standing allows the next rebalance, and before  *)
(* an error of the batch ends it, it has committed exactly the finished    *)
(* prefix of each of its partitions: what came before a failed record is   *)
(* kept, what came after it on another lane is not.                        *)
FinishedPrefixIsCommitted ==
  \A w \in Joined : pc[w] = "releasing" =>
    \A r \in Batch(w) : r[1] \in assigned[w] =>
      (r[2] < committed[r[1]] <=>
         \A e \in Batch(w) : e[1] = r[1] /\ e[2] <= r[2] => e \in ok[w])

(* Once the group is stable and dependencies recover, every record is      *)
(* committed, whatever faults came before.                                 *)
EverythingCommitted == Recovery => StableGroupCommits
=============================================================================
