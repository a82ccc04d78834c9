--------------------------- MODULE SerialConsumer ---------------------------
(***************************************************************************)
(* classifier-worker and classification-result-writer processes sharing a  *)
(* consumer group: RebalanceYieldConsumerRunner                            *)
(* (internal/adapter/kafka/consumer_rebalance_yield.go) polls one record,  *)
(* and its processor (record_processor.go) runs the handler and commits    *)
(* the record, both under the context a rebalance may cancel.              *)
(***************************************************************************)
EXTENDS ConsumerSession

VARIABLES handleErr  \* Process returned an error

serialVars == <<groupVars, sessionVars, effects, faults, handleErr>>

(* recordContext.Err() # nil *)
RecordCancelled(w) == ctxDone[w] \/ stopping[w]

SerialInit ==
  /\ SessionInit
  /\ handleErr = [w \in Workers |-> FALSE]

ForgetError(w) == handleErr' = [handleErr EXCEPT ![w] = FALSE]

-----------------------------------------------------------------------------
(* Process: Handle, then CommitRecords. *)

RecordHandled(w) ==
  /\ Goto(w, "processing", "committing")
  /\ effects' = effects \cup Batch(w)
  /\ NoFault
  /\ UNCHANGED <<groupVars, stopping, stale, signal, captured, ctxDone, start, handleErr>>

(* Mutant of HandleFails: the record is committed all the same. *)
HandleFailsAndCommits(w) ==
  /\ Goto(w, "processing", "committing")
  /\ NoFault
  /\ UNCHANGED <<groupVars, stopping, stale, signal, captured, ctxDone, start, effects,
                 handleErr>>

(* The effect may be durable all the same. *)
HandleFails(w) ==
  /\ Goto(w, "processing", "returned")
  /\ handleErr' = [handleErr EXCEPT ![w] = TRUE]
  /\ effects' \in {effects, effects \cup Batch(w)}
  /\ IF RecordCancelled(w) THEN NoFault ELSE Fault
  /\ UNCHANGED <<groupVars, stopping, stale, signal, captured, ctxDone, start>>

CommitRecord(w) ==
  LET moved == {p \in Partitions : start[w][p] < position[w][p]}
  IN  Commit(w, [p \in moved |-> position[w][p]])

RecordCommitted(w) ==
  /\ Goto(w, "committing", "returned")
  /\ CommitRecord(w)
  /\ NoFault
  /\ UNCHANGED <<stopping, stale, signal, captured, ctxDone, start, effects, handleErr>>

(* The commit of a member the broker has thrown out is refused; any other  *)
(* may have been applied although its answer was lost.                     *)
CommitRecordFails(w) ==
  /\ Goto(w, "committing", "returned")
  /\ handleErr' = [handleErr EXCEPT ![w] = TRUE]
  /\ CommitRecord(w) \/ UNCHANGED groupVars
  /\ IF member[w] = "evicted" \/ RecordCancelled(w) THEN NoFault ELSE Fault
  /\ UNCHANGED <<stopping, stale, signal, captured, ctxDone, start, effects>>

-----------------------------------------------------------------------------
(* The rest of the turn. *)

(* A request to yield comes before everything else, an error of Process    *)
(* included, and is looked for twice.                                      *)
YieldAfterProcess(w) ==
  /\ stale[w]
  /\ LeaveTurn(w, "returned", "yielded") \/ LeaveTurn(w, "releasing", "yielded")
  /\ ForgetError(w)

(* Mutant of ProcessFailed: the runner polls on. *)
ProcessFailedPollsOn(w) ==
  /\ ~stale[w]
  /\ handleErr[w]
  /\ LeaveTurn(w, "returned", "idle")
  /\ ForgetError(w)

(* An error of Process ends the runner, with the error or, when the run    *)
(* context is done, without.                                               *)
ProcessFailed(w) ==
  /\ ~stale[w]
  /\ handleErr[w]
  /\ LeaveTurn(w, "returned", "exiting")
  /\ ForgetError(w)

(* Between the first and the second look for a request. *)
ProcessSucceeded(w) ==
  /\ ~stale[w]
  /\ ~handleErr[w]
  /\ Goto(w, "returned", "releasing")
  /\ NoFault
  /\ UNCHANGED <<groupVars, stopping, stale, signal, captured, ctxDone, start, effects,
                 handleErr>>

ReleaseRecord(w) ==
  /\ ~stale[w]
  /\ LeaveTurn(w, "releasing", "idle")
  /\ UNCHANGED handleErr

-----------------------------------------------------------------------------
SerialLoopStep(w) ==
  \/ SessionStep(w) /\ UNCHANGED handleErr
  \/ RecordCommitted(w) \/ CommitRecordFails(w)
  \/ YieldAfterProcess(w) \/ ProcessFailed(w) \/ ProcessSucceeded(w) \/ ReleaseRecord(w)

PollRecord(w) == PollReturns(w, 1) /\ UNCHANGED handleErr

SerialCallback(w) == Callback(w) /\ UNCHANGED handleErr

HandleReturns(w) == RecordHandled(w) \/ HandleFails(w)

SerialNext ==
  \/ Rebalance /\ UNCHANGED handleErr
  \/ \E w \in Workers :
       \/ SerialLoopStep(w) \/ PollRecord(w) \/ HandleReturns(w) \/ SerialCallback(w)
       \/ Surroundings(w) /\ UNCHANGED handleErr
       \/ Crash(w) /\ ForgetError(w)

SerialSpec == SerialInit /\ [][SerialNext]_serialVars

(* As in AsyncConsumer: a handler that is not cancelled may retry for      *)
(* ever, unless the dependencies it retries recover.                       *)
SerialFairness ==
  /\ WF_serialVars(StartRebalance /\ RebalanceNeeded /\ Rebalance /\ UNCHANGED handleErr)
  /\ WF_serialVars(CompleteRebalance(Open) /\ Rebalance /\ UNCHANGED handleErr)
  /\ \A w \in Workers :
       /\ WF_serialVars(SerialLoopStep(w))
       /\ SF_serialVars(PollRecord(w))
       /\ WF_serialVars(RecordCancelled(w) /\ HandleReturns(w))
       /\ WF_serialVars(CallbackBlocked(w) /\ UNCHANGED handleErr)
       /\ WF_serialVars(Request(w) /\ UNCHANGED handleErr)
       /\ WF_serialVars(CallCancel(w) /\ UNCHANGED handleErr)
       /\ WF_serialVars(Expire(w) /\ UNCHANGED handleErr)
       /\ WF_serialVars(RejoinMember(w) /\ UNCHANGED handleErr)

SerialFairSpec == SerialSpec /\ SerialFairness

SerialRecovery == \A w \in Workers : WF_serialVars(HandleReturns(w))

-----------------------------------------------------------------------------
(* Once the group is stable and dependencies recover, every record is      *)
(* committed, whatever faults came before.                                 *)
EveryRecordCommitted == SerialRecovery => StableGroupCommits
=============================================================================
