--------------------------- MODULE BatchProcessor ---------------------------
(***************************************************************************)
(* One call of AsyncConsumerRunner.processBatch                            *)
(* (internal/adapter/kafka/async_consumer.go): the polled records are      *)
(* tracked, split into lanes, one goroutine per lane runs the handler on   *)
(* its records in poll order, and the calling goroutine folds completions  *)
(* from a buffered channel into committable offsets until every lane has   *)
(* returned.                                                               *)
(*                                                                         *)
(* The consumer subscribes to one topic, so a record is named by its       *)
(* position in the batch and carries partition, offset and key.            *)
(***************************************************************************)
EXTENDS TrackerState

CONSTANTS Keys,      \* non-empty record keys (object ids)
          NoKey,     \* a record without a key
          Batches    \* the batches PollRecords may return

Record == [partition : Partitions, offset : Offsets, key : Keys \cup {NoKey}]

ASSUME BatchAssumption ==
  /\ NoKey \notin Keys
  /\ Keys \cap Partitions = {}
  /\ Batches \subseteq Seq(Record) \ {<< >>}

VARIABLES
  batch,        \* the records of the batch, in poll order
  pc,           \* "tracking", "collecting" or "returned"
  tracked,      \* how many records the first loop has registered
  trackError,   \* Track refused a record: nothing is processed
  parts,        \* the completion tracker
  status,       \* what became of each record
  exited,       \* lanes whose goroutine has returned
  completions,  \* the completion channel: positions, oldest first
  firstFailure, \* position recorded by failureOnce, 0 if none
  parentDone,   \* the batch context was cancelled from outside
  committable,  \* per partition, the offset kept for the commit, if any
  count         \* committableRecordCount

vars == <<batch, pc, tracked, trackError, parts, status, exited, completions,
          firstFailure, parentDone, committable, count>>

(* No entry in the map "committable". *)
NoOffset == -1

Positions == 1 .. Len(batch)

(* Mutant of LaneOf: one lane per partition. *)
LaneOfPartition(record) == record.partition

(* Lanes: the key where there is one, otherwise the partition. *)
LaneOf(record) == IF record.key # NoKey THEN record.key ELSE record.partition

Lanes == {LaneOf(batch[i]) : i \in Positions}

InLane(l) == {i \in Positions : LaneOf(batch[i]) = l}

Pending(l) == {i \in InLane(l) : status[i] = "pending"}

Busy(l) == \E i \in InLane(l) : status[i] = "running"

(* processingContext.Err() # nil *)
Cancelled == parentDone \/ firstFailure # 0

-----------------------------------------------------------------------------
Init ==
  /\ batch \in Batches
  /\ pc = "tracking"
  /\ tracked = 0
  /\ trackError = FALSE
  /\ parts = [p \in Partitions |-> NewState]
  /\ status = [i \in Positions |-> "pending"]
  /\ exited = {}
  /\ completions = << >>
  /\ firstFailure = 0
  /\ parentDone = FALSE
  /\ committable = [p \in Partitions |-> NoOffset]
  /\ count = 0

(* The first loop registers the records one by one; the first refusal      *)
(* returns with an error and without starting anything.                    *)
TrackRecord ==
  /\ pc = "tracking"
  /\ tracked < Len(batch)
  /\ LET r == batch[tracked + 1]
     IN  IF CanTrack(parts[r.partition], r.offset)
         THEN /\ parts' = [parts EXCEPT ![r.partition] = TrackOffset(@, r.offset)]
              /\ tracked' = tracked + 1
              /\ UNCHANGED <<pc, trackError>>
         ELSE /\ trackError' = TRUE
              /\ pc' = "returned"
              /\ UNCHANGED <<parts, tracked>>
  /\ UNCHANGED <<batch, status, exited, completions, firstFailure, parentDone,
                 committable, count>>

StartLanes ==
  /\ pc = "tracking"
  /\ tracked = Len(batch)
  /\ pc' = "collecting"
  /\ UNCHANGED <<batch, tracked, trackError, parts, status, exited, completions,
                 firstFailure, parentDone, committable, count>>

(* A rebalance yield or a shutdown cancels the context passed in. *)
CancelParent ==
  /\ pc # "returned"
  /\ ~parentDone
  /\ parentDone' = TRUE
  /\ UNCHANGED <<batch, pc, tracked, trackError, parts, status, exited,
                 completions, firstFailure, committable, count>>

-----------------------------------------------------------------------------
(* The goroutine of lane l. *)

StartHandler(l) ==
  /\ pc = "collecting"
  /\ l \in Lanes \ exited
  /\ ~Busy(l)
  /\ ~Cancelled
  /\ \E i \in Pending(l) :
       /\ \A j \in Pending(l) : i <= j
       /\ status' = [status EXCEPT ![i] = "running"]
  /\ UNCHANGED <<batch, pc, tracked, trackError, parts, exited, completions,
                 firstFailure, parentDone, committable, count>>

(* Mutant of LaneReturns: a lane that does not look at the context.        *)
LaneReturnsWhenDone(l) ==
  /\ pc = "collecting"
  /\ l \in Lanes \ exited
  /\ ~Busy(l)
  /\ Pending(l) = {}
  /\ exited' = exited \cup {l}
  /\ UNCHANGED <<batch, pc, tracked, trackError, parts, status, completions,
                 firstFailure, parentDone, committable, count>>

LaneReturns(l) ==
  /\ pc = "collecting"
  /\ l \in Lanes \ exited
  /\ ~Busy(l)
  /\ Cancelled \/ Pending(l) = {}
  /\ exited' = exited \cup {l}
  /\ UNCHANGED <<batch, pc, tracked, trackError, parts, status, completions,
                 firstFailure, parentDone, committable, count>>

(* The handler may still succeed after the context was cancelled. *)
HandlerSucceeds(l) ==
  /\ \E i \in InLane(l) :
       /\ status[i] = "running"
       /\ status' = [status EXCEPT ![i] = "ok"]
       /\ completions' = Append(completions, i)
  /\ UNCHANGED <<batch, pc, tracked, trackError, parts, exited, firstFailure,
                 parentDone, committable, count>>

(* Mutant of HandlerFails: the failure is not recorded. *)
HandlerFailsSilently(l) ==
  /\ \E i \in InLane(l) :
       /\ status[i] = "running"
       /\ status' = [status EXCEPT ![i] = "failed"]
       /\ completions' = Append(completions, i)
  /\ exited' = exited \cup {l}
  /\ UNCHANGED <<batch, pc, tracked, trackError, parts, firstFailure, parentDone,
                 committable, count>>

(* The first failure cancels the whole batch; the lane sends the failed    *)
(* completion and returns.                                                 *)
HandlerFails(l) ==
  /\ \E i \in InLane(l) :
       /\ status[i] = "running"
       /\ status' = [status EXCEPT ![i] = "failed"]
       /\ completions' = Append(completions, i)
       /\ firstFailure' = IF firstFailure = 0 THEN i ELSE firstFailure
  /\ exited' = exited \cup {l}
  /\ UNCHANGED <<batch, pc, tracked, trackError, parts, parentDone, committable,
                 count>>

-----------------------------------------------------------------------------
(* Mutant of CountAfter: one more record for each completion. *)
CountAfterEach(p, o) == count + 1

CountAfter(p, o) == count + AdvancedCount(parts[p], o)

(* The collecting loop takes one completion from the channel.  A failed    *)
(* one is skipped; a successful one advances its partition, or is recorded *)
(* as the failure of the batch when the tracker does not know it.          *)
Collect ==
  /\ pc = "collecting"
  /\ completions # << >>
  /\ completions' = Tail(completions)
  /\ LET i == Head(completions)
         p == batch[i].partition
         o == batch[i].offset
     IN  IF status[i] = "failed"
         THEN UNCHANGED <<parts, firstFailure, committable, count>>
         ELSE IF o \notin Tracked(parts[p])
         THEN /\ firstFailure' = IF firstFailure = 0 THEN i ELSE firstFailure
              /\ UNCHANGED <<parts, committable, count>>
         ELSE /\ parts' = [parts EXCEPT ![p] = MarkOffset(@, o)]
              /\ count' = CountAfter(p, o)
              /\ committable' =
                   IF AdvancedCount(parts[p], o) = 0
                   THEN committable
                   ELSE [committable EXCEPT ![p] = CompletedOffset(parts[p], o)]
              /\ UNCHANGED firstFailure
  /\ UNCHANGED <<batch, pc, tracked, trackError, status, exited, parentDone>>

(* Mutant of Return: the wait for the lanes is missing. *)
ReturnAtOnce ==
  /\ pc = "collecting"
  /\ completions = << >>
  /\ pc' = "returned"
  /\ UNCHANGED <<batch, tracked, trackError, parts, status, exited, completions,
                 firstFailure, parentDone, committable, count>>

(* The channel is closed once every lane has returned, and the loop ends   *)
(* when it has been drained.                                               *)
Return ==
  /\ pc = "collecting"
  /\ completions = << >>
  /\ exited = Lanes
  /\ pc' = "returned"
  /\ UNCHANGED <<batch, tracked, trackError, parts, status, exited, completions,
                 firstFailure, parentDone, committable, count>>

Done ==
  /\ pc = "returned"
  /\ UNCHANGED vars

Lane(l) ==
  \/ StartHandler(l)
  \/ LaneReturns(l)
  \/ HandlerSucceeds(l)
  \/ HandlerFails(l)

Next ==
  \/ TrackRecord
  \/ StartLanes
  \/ CancelParent
  \/ \E l \in Keys \cup Partitions : Lane(l)
  \/ Collect
  \/ Return
  \/ Done

Spec == Init /\ [][Next]_vars

(* Goroutines are scheduled and a handler whose context is cancelled comes *)
(* back; a handler that is not cancelled may retry for ever.               *)
FairSpec ==
  /\ Spec
  /\ WF_vars(TrackRecord) /\ WF_vars(StartLanes)
  /\ WF_vars(Collect) /\ WF_vars(Return)
  /\ \A l \in Keys \cup Partitions :
       /\ WF_vars(StartHandler(l)) /\ WF_vars(LaneReturns(l))
       /\ WF_vars(Cancelled /\ (HandlerSucceeds(l) \/ HandlerFails(l)))

-----------------------------------------------------------------------------
OfPartition(p) == {i \in Positions : batch[i].partition = p}

(* The records of p up to and including position i all succeeded. *)
FinishedThrough(p, i) ==
  \A j \in OfPartition(p) : j <= i => status[j] = "ok"

(* What processBatch returns for commit is, in every partition, the last   *)
(* record of the longest run of successes from the front of the batch:     *)
(* never past a record that failed, was cancelled or never started, and    *)
(* never short of one that could be committed.                             *)
CommitsLongestPrefix ==
  pc = "returned" =>
    \A p \in Partitions :
      committable[p] =
        LET safe == {i \in OfPartition(p) : FinishedThrough(p, i)}
        IN  IF safe = {} THEN NoOffset
            ELSE batch[CHOOSE i \in safe : \A j \in safe : j <= i].offset

(* The number reported to the progress observer is the number of records   *)
(* the commit really covers.                                               *)
CountsCommittedRecords ==
  pc = "returned" =>
    count = Cardinality({i \in Positions :
                           batch[i].offset <= committable[batch[i].partition]})

(* When processBatch has returned no handler is running any more, so the   *)
(* runner may commit and allow a rebalance without a record in flight.     *)
NoHandlerOutlivesBatch ==
  pc = "returned" => \A i \in Positions : status[i] # "running"

(* A return without an error and without a cancelled context means that    *)
(* the whole batch is done: polling again cannot skip a record.            *)
NilErrorMeansWholeBatch ==
  (pc = "returned" /\ ~trackError /\ ~Cancelled) =>
    \A i \in Positions :
      /\ status[i] = "ok"
      /\ batch[i].offset <= committable[batch[i].partition]

(* Records of one object, and keyless records of one partition, are        *)
(* handled one after the other in poll order and not at all behind one     *)
(* that did not succeed.                                                   *)
SameKeyInPollOrder ==
  \A i, j \in Positions :
    /\ i < j
    /\ batch[i].key = batch[j].key
    /\ batch[i].key = NoKey => batch[i].partition = batch[j].partition
    /\ status[j] # "pending"
    => status[i] = "ok"

(* A batch that was cancelled, from outside or by a failing record, comes  *)
(* to an end: a blocked rebalance never waits for a lane that is stuck.    *)
CancelledBatchReturns == Cancelled ~> (pc = "returned")
=============================================================================
