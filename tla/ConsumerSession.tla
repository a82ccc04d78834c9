-------------------------- MODULE ConsumerSession --------------------------
(***************************************************************************)
(* What every consumer process of the system has around the handling of    *)
(* records: the poll loop of its runner, the RebalanceYield it shares with *)
(* the client's blocked-rebalance callback                                 *)
(* (internal/adapter/kafka/rebalance_yield.go), the session loop of its    *)
(* main and the life of the process.  AsyncConsumer, SerialConsumer and    *)
(* FetchConsumer add the handling of what a poll returned.                 *)
(*                                                                         *)
(* An "effect" is what a handler leaves behind: a published message or     *)
(* dead letter, a stored run.                                              *)
(***************************************************************************)
EXTENDS ConsumerGroup

CONSTANTS MaxFaults  \* bound on crashes, evictions, errors and shutdowns

ASSUME FaultsAssumption == MaxFaults \in Nat

VARIABLES
  pc,        \* where the session loop of a worker stands
  stopping,  \* the run context was cancelled (SIGTERM)
  stale,     \* the yield generation differs from the one captured
  signal,    \* the client decided to call Request and has not done it yet
  captured,  \* Request holds the cancel function of the bound batch
  ctxDone,   \* the context of the batch was cancelled through it
  start,     \* where the batch begins: it ends at the fetch position
  effects,   \* history: records whose effect is durable
  faults     \* history: how many faults happened

sessionVars == <<pc, stopping, stale, signal, captured, ctxDone, start>>

Fault == faults < MaxFaults /\ faults' = faults + 1

NoFault == UNCHANGED faults

Goto(w, from, to) == pc[w] = from /\ pc' = [pc EXCEPT ![w] = to]

(* Mutants of Window: AllowRebalance right after the poll, or never. *)
WindowClosedEarly(w) == pc[w] = "polled"

WindowNeverClosed(w) ==
  pc[w] \notin {"idle", "closed", "exited", "crashed", "exiting", "yielded"}

(* Between the return of the poll and AllowRebalance. *)
Window(w) == pc[w] \in {"polled", "processing", "returned", "committing", "releasing"}

Open == {w \in Workers : Window(w)}

(* Between Bind and release the yield holds the cancel function. *)
Bound(w) == Window(w) /\ pc[w] # "polled"

(* The captured generation is compared until AllowRebalance. *)
Comparing(w) == pc[w] = "polling" \/ Window(w)

Batch(w) == Span(start[w], position[w])

(* A placeholder of the model where there is no session or no batch. *)
NoStart == [p \in Partitions |-> 1]

SessionInit ==
  /\ GroupInit
  /\ pc = [w \in Workers |-> "idle"]
  /\ stopping = [w \in Workers |-> FALSE]
  /\ stale = [w \in Workers |-> FALSE]
  /\ signal = [w \in Workers |-> FALSE]
  /\ captured = [w \in Workers |-> FALSE]
  /\ ctxDone = [w \in Workers |-> FALSE]
  /\ start = [w \in Workers |-> NoStart]
  /\ effects = {}
  /\ faults = 0

(* The generation and the context of the turn go out of scope. *)
EndTurn(w) ==
  /\ stale' = [stale EXCEPT ![w] = FALSE]
  /\ captured' = [captured EXCEPT ![w] = FALSE]
  /\ ctxDone' = [ctxDone EXCEPT ![w] = FALSE]
  /\ start' = [start EXCEPT ![w] = NoStart]

(* The turn ends: release and AllowRebalance where a window was open. *)
LeaveTurn(w, from, to) ==
  /\ Goto(w, from, to)
  /\ EndTurn(w)
  /\ NoFault
  /\ UNCHANGED <<groupVars, stopping, signal, effects>>

-----------------------------------------------------------------------------
(* The loop up to the batch. *)

ReadGeneration(w) ==
  /\ ~stopping[w]
  /\ Goto(w, "idle", "polling")
  /\ NoFault
  /\ UNCHANGED <<groupVars, stopping, stale, signal, captured, ctxDone, start, effects>>

(* The run context ends the loop before and after a poll. *)
StopBetweenBatches(w) ==
  /\ stopping[w]
  /\ LeaveTurn(w, "idle", "exiting") \/ LeaveTurn(w, "polling", "exiting")

(* The poll returns records: its window opens. *)
PollReturns(w, max) ==
  /\ ~stopping[w]
  /\ Goto(w, "polling", "polled")
  /\ \E upto \in Cursors : Poll(w, max, upto)
  /\ start' = [start EXCEPT ![w] = position[w]]
  /\ NoFault
  /\ UNCHANGED <<stopping, stale, signal, captured, ctxDone, effects>>

(* A poll that returns no record closes its window again and the loop      *)
(* starts a new turn.                                                      *)
PollReturnsNothing(w) == LeaveTurn(w, "polling", "idle")

(* A fetch error ends the runner. *)
PollFails(w) ==
  /\ Goto(w, "polling", "exiting")
  /\ EndTurn(w)
  /\ Fault
  /\ UNCHANGED <<groupVars, stopping, signal, effects>>

(* Mutant of Bind: the generations are not compared. *)
BindUnchecked(w) ==
  /\ Goto(w, "polled", "processing")
  /\ NoFault
  /\ UNCHANGED <<groupVars, stopping, stale, signal, captured, ctxDone, start, effects>>

(* Bind stores the cancel function and compares the generations under one  *)
(* lock: a Request that came since the capture cancels the batch at once.  *)
Bind(w) ==
  /\ Goto(w, "polled", "processing")
  /\ ctxDone' = [ctxDone EXCEPT ![w] = stale[w]]
  /\ NoFault
  /\ UNCHANGED <<groupVars, stopping, stale, signal, captured, start, effects>>

-----------------------------------------------------------------------------
(* The session loop of main and the life of the process. *)

(* CloseAllowingRebalance. *)
CloseSession(w) ==
  /\ \/ Goto(w, "yielded", IF stopping[w] THEN "exited" ELSE "closed")
     \/ Goto(w, "exiting", "exited")
  /\ Leave(w)
  /\ signal' = [signal EXCEPT ![w] = FALSE]
  /\ NoFault
  /\ UNCHANGED <<stopping, stale, captured, ctxDone, start, effects>>

(* A fresh client with a fresh RebalanceYield, in the same process after a *)
(* yield and in a restarted one after an exit.                             *)
NewSession(w) ==
  /\ \/ Goto(w, "closed", "idle") /\ UNCHANGED stopping
     \/ Goto(w, "exited", "idle") /\ stopping' = [stopping EXCEPT ![w] = FALSE]
  /\ Join(w)
  /\ NoFault
  /\ UNCHANGED <<stale, signal, captured, ctxDone, start, effects>>

Shutdown(w) ==
  /\ ~stopping[w]
  /\ pc[w] \notin {"exited", "crashed"}
  /\ stopping' = [stopping EXCEPT ![w] = TRUE]
  /\ Fault
  /\ UNCHANGED <<groupVars, pc, stale, signal, captured, ctxDone, start, effects>>

(* The process dies: what it had published stays, what it knew is gone. *)
Crash(w) ==
  /\ pc[w] \notin {"exited", "crashed"}
  /\ pc' = [pc EXCEPT ![w] = "crashed"]
  /\ member' = [member EXCEPT ![w] = "out"]
  /\ ForgetAssignment(w)
  /\ EndTurn(w)
  /\ stopping' = [stopping EXCEPT ![w] = FALSE]
  /\ signal' = [signal EXCEPT ![w] = FALSE]
  /\ Fault
  /\ UNCHANGED <<committed, owner, rebalancing, effects>>

(* The session of a crashed process times out at the broker. *)
Expire(w) ==
  /\ Goto(w, "crashed", "exited")
  /\ Leave(w)
  /\ NoFault
  /\ UNCHANGED <<stopping, stale, signal, captured, ctxDone, start, effects>>

-----------------------------------------------------------------------------
(* The blocked-rebalance callback. *)

(* A revocation or a loss of partitions finds the poll window open. *)
CallbackBlocked(w) ==
  /\ Window(w)
  /\ \/ rebalancing /\ member[w] = "joined"
     \/ member[w] = "evicted"
  /\ ~signal[w]
  /\ ~stale[w]
  /\ signal' = [signal EXCEPT ![w] = TRUE]
  /\ NoFault
  /\ UNCHANGED <<groupVars, pc, stopping, stale, captured, ctxDone, start, effects>>

(* Request under its lock, at whatever time the callback gets to it: the   *)
(* generation goes up and the cancel function is read.                     *)
Request(w) ==
  /\ signal[w]
  /\ signal' = [signal EXCEPT ![w] = FALSE]
  /\ stale' = [stale EXCEPT ![w] = Comparing(w)]
  /\ captured' = [captured EXCEPT ![w] = Bound(w)]
  /\ NoFault
  /\ UNCHANGED <<groupVars, pc, stopping, ctxDone, start, effects>>

(* Request after its lock: the function it read is called. *)
CallCancel(w) ==
  /\ captured[w]
  /\ captured' = [captured EXCEPT ![w] = FALSE]
  /\ ctxDone' = [ctxDone EXCEPT ![w] = TRUE]
  /\ NoFault
  /\ UNCHANGED <<groupVars, pc, stopping, stale, signal, start, effects>>

-----------------------------------------------------------------------------
(* The broker. *)

Rebalance ==
  /\ StartRebalance \/ CompleteRebalance(Open)
  /\ NoFault
  /\ UNCHANGED <<sessionVars, effects>>

EvictMember(w) ==
  /\ Evict(w)
  /\ Fault
  /\ UNCHANGED <<sessionVars, effects>>

RejoinMember(w) ==
  /\ ~Window(w)
  /\ Rejoin(w)
  /\ NoFault
  /\ UNCHANGED <<sessionVars, effects>>

-----------------------------------------------------------------------------
(* The steps by kind, for the next-state relations of the runners.         *)

(* Steps of the loop and of the session loop that leave the work alone.    *)
SessionStep(w) ==
  \/ ReadGeneration(w) \/ StopBetweenBatches(w) \/ Bind(w)
  \/ CloseSession(w) \/ NewSession(w)

(* The callback. *)
Callback(w) == CallbackBlocked(w) \/ Request(w) \/ CallCancel(w)

(* Steps nobody asked for, and the reaction of the broker and the client.  *)
Surroundings(w) ==
  \/ PollReturnsNothing(w) \/ PollFails(w) \/ Shutdown(w) \/ Expire(w)
  \/ EvictMember(w) \/ RejoinMember(w)

RebalanceNeeded == \E p \in Partitions : owner[p] = NoOwner

SessionTypeOK ==
  /\ GroupTypeOK
  /\ pc \in [Workers -> {"idle", "polling", "polled", "processing", "returned",
                         "committing", "releasing", "yielded", "exiting",
                         "closed", "exited", "crashed"}]
  /\ stopping \in [Workers -> BOOLEAN]
  /\ stale \in [Workers -> BOOLEAN]
  /\ signal \in [Workers -> BOOLEAN]
  /\ captured \in [Workers -> BOOLEAN]
  /\ ctxDone \in [Workers -> BOOLEAN]
  /\ start \in [Workers -> [Partitions -> Nat \ {0}]]
  /\ effects \subseteq Records
  /\ faults \in 0 .. MaxFaults

-----------------------------------------------------------------------------
(* What the three runners have in common to show. *)

(* A session that polls again does so from the committed offset: what a    *)
(* session fetched and did not commit is never skipped by its next poll.   *)
SessionNeverSkips ==
  \A w \in Workers : \A p \in assigned[w] :
    (pc[w] \in {"idle", "polling"} /\ member[w] = "joined")
      => position[w][p] = committed[p]

(* Two members in good standing never have a record in both their batches: *)
(* a partition is not handed over inside a poll window.                    *)
BatchesDisjoint ==
  \A w1, w2 \in Joined :
    (w1 # w2 /\ pc[w1] = "processing" /\ pc[w2] = "processing")
      => Batch(w1) \cap Batch(w2) = {}

(* The workers together are an at-least-once consumer of the topic.        *)
Promise == INSTANCE AtLeastOnce WITH effects <- effects, committed <- committed

Implements == Promise!Spec

(* A rebalance is never blocked for good.  With a RebalanceYield that      *)
(* holds even for handlers that retry for ever: the request to yield is    *)
(* not lost between the capture of the generation, Bind and release, and   *)
(* every batch it reaches comes back.  Without one it holds because every  *)
(* handler comes back and a poll is finite.                                *)
RebalanceUnblocked == rebalancing ~> ~rebalancing

(* Once the group is stable every record is committed, whatever faults     *)
(* came before.                                                            *)
StableGroupCommits ==
  <>[](~rebalancing) => <>[](\A p \in Partitions : committed[p] = End(p))
=============================================================================
