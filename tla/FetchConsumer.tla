--------------------------- MODULE FetchConsumer ---------------------------
(***************************************************************************)
(* candidate-orchestrator processes sharing a consumer group:              *)
(* ConsumerRunner (internal/adapter/kafka/consumer.go) polls whatever the  *)
(* client has fetched, handles the records one after the other and commits *)
(* each before it takes the next.  There is no RebalanceYield: the client  *)
(* is given no callback, so a rebalance waits for the whole poll.          *)
(***************************************************************************)
EXTENDS ConsumerSession

VARIABLES current  \* the partition whose next record is in hand, or NoPartition

CONSTANTS NoPartition

ASSUME NoPartitionAssumption == NoPartition \notin Partitions

fetchVars == <<groupVars, sessionVars, effects, faults, current>>

InHand(w) == {r \in Batch(w) : r[1] = current[w] /\ r[2] = start[w][r[1]]}

FetchInit ==
  /\ SessionInit
  /\ current = [w \in Workers |-> NoPartition]

DropRecord(w) == current' = [current EXCEPT ![w] = NoPartition]

-----------------------------------------------------------------------------
(* processFetches.  "start" moves along: what is before it is committed.   *)

(* The iterator goes through the fetched partitions in any order, and      *)
(* through each to its end.                                                *)
TakeRecord(w) ==
  /\ Goto(w, "polled", "processing")
  /\ \E r \in Batch(w) :
       /\ r[2] = start[w][r[1]]
       /\ \A e \in Batch(w) : e[1] = current[w] => r[1] = current[w]
       /\ current' = [current EXCEPT ![w] = r[1]]
  /\ NoFault
  /\ UNCHANGED <<groupVars, stopping, stale, signal, captured, ctxDone, start, effects>>

CurrentHandled(w) ==
  /\ Goto(w, "processing", "committing")
  /\ effects' = effects \cup InHand(w)
  /\ NoFault
  /\ UNCHANGED <<groupVars, stopping, stale, signal, captured, ctxDone, start, current>>

(* Mutant of CurrentFails: the runner polls on. *)
CurrentFailsPollsOn(w) ==
  /\ Goto(w, "processing", "idle")
  /\ IF stopping[w] THEN NoFault ELSE Fault
  /\ EndTurn(w)
  /\ DropRecord(w)
  /\ UNCHANGED <<groupVars, stopping, signal, effects>>

(* An error of the handler ends processFetches and, once AllowRebalance    *)
(* was called, the runner.                                                 *)
CurrentFails(w) ==
  /\ Goto(w, "processing", "exiting")
  /\ effects' \in {effects, effects \cup InHand(w)}
  /\ IF stopping[w] THEN NoFault ELSE Fault
  /\ EndTurn(w)
  /\ DropRecord(w)
  /\ UNCHANGED <<groupVars, stopping, signal>>

(* Mutant of CommitCurrent: all that was fetched is committed. *)
CommitWholePoll(w) ==
  Commit(w, [p \in {current[w]} |-> position[w][p]])

CommitCurrent(w) ==
  Commit(w, [p \in {current[w]} |-> start[w][p] + 1])

(* The loop goes on with the next record, without a look at the context.   *)
CurrentCommitted(w) ==
  /\ Goto(w, "committing", "polled")
  /\ CommitCurrent(w)
  /\ start' = [start EXCEPT ![w][current[w]] = @ + 1]
  /\ NoFault
  /\ UNCHANGED <<stopping, stale, signal, captured, ctxDone, effects, current>>

CommitCurrentFails(w) ==
  /\ Goto(w, "committing", "exiting")
  /\ CommitCurrent(w) \/ UNCHANGED groupVars
  /\ IF member[w] = "evicted" \/ stopping[w] THEN NoFault ELSE Fault
  /\ EndTurn(w)
  /\ DropRecord(w)
  /\ UNCHANGED <<stopping, signal, effects>>

(* Every record of the poll is committed: AllowRebalance. *)
ReleaseFetches(w) ==
  /\ Batch(w) = {}
  /\ LeaveTurn(w, "polled", "idle")
  /\ DropRecord(w)

-----------------------------------------------------------------------------
FetchLoopStep(w) ==
  \/ /\ \/ ReadGeneration(w) \/ StopBetweenBatches(w)
        \/ CloseSession(w) \/ NewSession(w)
     /\ UNCHANGED current
  \/ TakeRecord(w) \/ CurrentCommitted(w) \/ CommitCurrentFails(w) \/ ReleaseFetches(w)

PollFetches(w) == PollReturns(w, Cardinality(Records)) /\ UNCHANGED current

CurrentReturns(w) == CurrentHandled(w) \/ CurrentFails(w)

FetchNext ==
  \/ Rebalance /\ UNCHANGED current
  \/ \E w \in Workers :
       \/ FetchLoopStep(w) \/ PollFetches(w) \/ CurrentReturns(w)
       \/ Surroundings(w) /\ UNCHANGED current
       \/ Crash(w) /\ DropRecord(w)

FetchSpec == FetchInit /\ [][FetchNext]_fetchVars

(* As in AsyncConsumer.  CandidateHandler has no retry of its own, only    *)
(* the producer's, so it comes back.                                       *)
FetchFairSpec ==
  /\ FetchSpec
  /\ WF_fetchVars(StartRebalance /\ RebalanceNeeded /\ Rebalance /\ UNCHANGED current)
  /\ WF_fetchVars(CompleteRebalance(Open) /\ Rebalance /\ UNCHANGED current)
  /\ \A w \in Workers :
       /\ WF_fetchVars(FetchLoopStep(w)) /\ WF_fetchVars(CurrentReturns(w))
       /\ SF_fetchVars(PollFetches(w))
       /\ WF_fetchVars(Expire(w) /\ UNCHANGED current)
       /\ WF_fetchVars(RejoinMember(w) /\ UNCHANGED current)
=============================================================================
