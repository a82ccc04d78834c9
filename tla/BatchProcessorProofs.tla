------------------------ MODULE BatchProcessorProofs ------------------------
(***************************************************************************)
(* For every batch, with any number of partitions, keys and records, and   *)
(* every interleaving of lanes, completions, failures and cancellations:   *)
(* what processBatch offers for commit, in which order it handles records, *)
(* and what is left of it when it returns.                                 *)
(***************************************************************************)
EXTENDS BatchProcessor, FiniteSetTheorems, TLAPS

(* The positions whose completion is in the channel, and of those of each  *)
(* partition that succeeded and were taken out, the offsets.               *)
Waiting == {completions[k] : k \in 1 .. Len(completions)}

MarkedOf(p) ==
  {batch[i].offset : i \in {j \in Positions : /\ batch[j].partition = p
                                              /\ status[j] = "ok"
                                              /\ j \notin Waiting}}

(* The tracker of the batch is the one of CompletionTracker. *)
Tracker ==
  INSTANCE CompletionTrackerProofs
    WITH marked <- [p \in Partitions |-> MarkedOf(p)],
         returned <- [p \in Partitions |-> << >>]

TypeInv ==
  /\ batch \in Seq(Record) \ {<< >>}
  /\ pc \in {"tracking", "collecting", "returned"}
  /\ tracked \in 0 .. Len(batch)
  /\ parts \in [Partitions -> StateType]
  /\ status \in [Positions -> {"pending", "running", "ok", "failed"}]
  /\ exited \subseteq Lanes
  /\ completions \in Seq(Positions)
  /\ firstFailure \in 0 .. Len(batch)
  /\ committable \in [Partitions -> Offsets \cup {NoOffset}]

(* A lane handles its records one by one, and after a failure none; it     *)
(* returns when it has none left, or because the batch is cancelled.       *)
LaneInv ==
  /\ \A i, j \in Positions :
       i < j /\ LaneOf(batch[i]) = LaneOf(batch[j]) /\ status[j] # "pending" => status[i] = "ok"
  /\ \A i \in Positions :
       /\ status[i] = "failed" => LaneOf(batch[i]) \in exited /\ firstFailure # 0
       /\ status[i] = "running" => LaneOf(batch[i]) \notin exited
       /\ status[i] = "pending" /\ LaneOf(batch[i]) \in exited => Cancelled

(* Nothing runs before everything is tracked or after every lane returned. *)
PhaseInv ==
  /\ pc = "tracking" \/ trackError =>
       completions = << >> /\ \A i \in Positions : status[i] = "pending"
  /\ trackError => pc = "returned"
  /\ pc # "tracking" /\ ~trackError => tracked = Len(batch)
  /\ pc = "returned" /\ ~trackError => exited = Lanes /\ completions = << >>

(* A completion is in the channel once, and only of a handler that ended.  *)
ChannelInv ==
  /\ \A k, l \in 1 .. Len(completions) : completions[k] = completions[l] => k = l
  /\ \A i \in Waiting : status[i] \in {"ok", "failed"}

(* The tracker has the records so far, in the order of the batch, ... *)
OffsetsInv ==
  /\ \A p \in Partitions :
       Tracked(parts[p]) = {batch[i].offset : i \in {j \in OfPartition(p) : j <= tracked}}
  /\ \A i, j \in Positions :
       i < j /\ j <= tracked /\ batch[i].partition = batch[j].partition
         => batch[i].offset < batch[j].offset

(* ... agrees with what was marked, and the offset kept for the commit is  *)
(* that of its cursor.                                                     *)
PartitionsInv ==
  \A p \in Partitions :
    /\ Tracker!PartitionInv(parts[p], MarkedOf(p), << >>)
    /\ committable[p] = IF parts[p].next = 0 THEN NoOffset ELSE parts[p].offsets[parts[p].next]

IInv == TypeInv /\ LaneInv /\ PhaseInv /\ ChannelInv /\ OffsetsInv /\ PartitionsInv

(* The records the offsets kept for the commit cover; the loop counts them *)
(* one advance of a cursor at a time.                                      *)
Covered == {i \in Positions : batch[i].offset <= committable[batch[i].partition]}

CountInv == count = Cardinality(Covered)

-----------------------------------------------------------------------------
(* The operators of the tracker are the same in both modules. *)
LEMMA SameTracker ==
  /\ Tracker!OffsetsAssumption
  /\ Tracker!StateType = StateType
  /\ \A st : Tracker!Tracked(st) = Tracked(st)
  /\ \A st, o : Tracker!CanTrack(st, o) <=> CanTrack(st, o)
  /\ \A st, o : Tracker!TrackOffset(st, o) = TrackOffset(st, o)
  /\ \A st, o : Tracker!MarkOffset(st, o) = MarkOffset(st, o)
  /\ \A st, done, n : Tracker!StopsAt(st, done, n) <=> StopsAt(st, done, n)
<1>1. /\ Tracker!OffsetsAssumption
      /\ Tracker!StateType = StateType
      /\ \A st : Tracker!Tracked(st) = Tracked(st)
  BY OffsetsAssumption DEF Tracker!OffsetsAssumption, Tracker!StateType, StateType,
     Tracker!Tracked, Tracked
<1>2. /\ \A st, o : Tracker!CanTrack(st, o) <=> CanTrack(st, o)
      /\ \A st, o : Tracker!TrackOffset(st, o) = TrackOffset(st, o)
  BY <1>1 DEF Tracker!CanTrack, CanTrack, Tracker!TrackOffset, TrackOffset
<1>3. \A st, done, n : Tracker!StopsAt(st, done, n) <=> StopsAt(st, done, n)
  BY Zenon DEF Tracker!StopsAt, StopsAt
<1>4. \A st, done : Tracker!AdvancedNext(st, done) = AdvancedNext(st, done)
  BY Zenon DEF Tracker!AdvancedNext, AdvancedNext, Tracker!StopsAt, StopsAt
<1>5. \A st, o : Tracker!MarkOffset(st, o) = MarkOffset(st, o)
  BY <1>4, Zenon DEF Tracker!MarkOffset, MarkOffset
<1> QED
  BY <1>1, <1>2, <1>3, <1>5

(* What an operation on the tracker of a partition does to its invariant.  *)
LEMMA TrackKeeps ==
  ASSUME NEW st, NEW m, Tracker!PartitionInv(st, m, << >>), NEW o \in Offsets, CanTrack(st, o)
  PROVE  Tracker!PartitionInv(TrackOffset(st, o), m, << >>)
<1>1. Tracker!PartitionInv(Tracker!TrackOffset(st, o), m, << >>)
  <2>1. Tracker!CanTrack(st, o) /\ Tracker!OffsetsAssumption
    BY SameTracker
  <2> QED
    BY <2>1, Tracker!TrackKeepsPartitionInv, Zenon
<1> QED
  BY <1>1, SameTracker

LEMMA MarkKeeps ==
  ASSUME NEW st, NEW m, Tracker!PartitionInv(st, m, << >>), NEW o \in Tracked(st)
  PROVE  Tracker!PartitionInv(MarkOffset(st, o), m \cup {o}, << >>)
<1>1. PICK r : Tracker!PartitionInv(Tracker!MarkOffset(st, o), m \cup {o}, r)
  <2>1. o \in Tracker!Tracked(st) /\ Tracker!OffsetsAssumption
    BY SameTracker
  <2> QED
    BY <2>1, Tracker!MarkKeepsPartitionInv, Zenon
<1>2. Tracker!PartitionInv(Tracker!MarkOffset(st, o), m \cup {o}, << >>)
  <2>1. << >> \in Seq(Offsets) /\ Len(<< >>) = 0
    OBVIOUS
  <2>2. Tracker!ReturnedBehindCursor(Tracker!MarkOffset(st, o), << >>)
    BY <2>1 DEF Tracker!ReturnedBehindCursor
  <2>3. Tracker!Increasing(<< >>)
    BY <2>1 DEF Tracker!Increasing
  <2> QED
    BY <1>1, <2>1, <2>2, <2>3 DEF Tracker!PartitionInv, Tracker!WellTyped
<1> QED
  BY <1>2, SameTracker

LEMMA RecordFacts ==
  ASSUME TypeInv, NEW i \in Positions
  PROVE  /\ batch[i].partition \in Partitions
         /\ batch[i].offset \in Offsets /\ batch[i].offset \in Nat
         /\ LaneOf(batch[i]) \in Lanes
<1>1. batch[i] \in Record
  BY DEF TypeInv, Positions
<1> QED
  BY <1>1, OffsetsAssumption DEF Record, Lanes

LEMMA InitInv == Init /\ BatchAssumption => IInv
<1> SUFFICES ASSUME Init, BatchAssumption PROVE IInv
  OBVIOUS
<1>1. batch \in Seq(Record) \ {<< >>} /\ Len(batch) \in Nat
  BY DEF Init, BatchAssumption
<1>2. NewState \in StateType /\ Tracked(NewState) = {}
  BY DEF NewState, StateType, Tracked
<1>3. TypeInv
  BY <1>1, <1>2 DEF Init, TypeInv, NoOffset
<1>4. LaneInv /\ PhaseInv
  BY DEF Init, LaneInv, PhaseInv
<1>5. completions = << >> /\ Len(completions) = 0
  BY DEF Init
<1>6. ChannelInv
  BY <1>5 DEF ChannelInv, Waiting
<1>7. OffsetsInv
  BY <1>1, <1>2 DEF Init, OffsetsInv, OfPartition, Positions
<1>8. PartitionsInv
  <2>1. ASSUME NEW p \in Partitions
        PROVE  MarkedOf(p) = {} /\ parts[p] = NewState /\ committable[p] = NoOffset
    BY DEF Init, MarkedOf
  <2>2. << >> \in Seq(Offsets) /\ Len(<< >>) = 0
    OBVIOUS
  <2>3. NewState.next = 0 /\ NewState.offsets = << >> /\ NewState.completed = {}
    BY DEF NewState
  <2>4. NewState \in Tracker!StateType /\ Tracker!Tracked(NewState) = {}
    BY <1>2, SameTracker
  <2>5. Tracker!PartitionInv(NewState, {}, << >>)
    BY <2>2, <2>3, <2>4 DEF Tracker!PartitionInv, Tracker!WellTyped, Tracker!Ascending,
       Tracker!LongestPrefix, Tracker!CompletedAgrees, Tracker!ReturnedBehindCursor, Tracker!Increasing
  <2> QED
    BY <2>1, <2>3, <2>5 DEF PartitionsInv
<1> QED
  BY <1>3, <1>4, <1>6, <1>7, <1>8 DEF IInv

-----------------------------------------------------------------------------
(* The first loop. *)

LEMMA TrackRecordInv == ASSUME IInv, TrackRecord PROVE IInv'
<1> DEFINE n == tracked + 1
           p == batch[n].partition
           o == batch[n].offset
<1>1. /\ pc = "tracking" /\ n \in Positions /\ tracked \in Nat
      /\ UNCHANGED <<batch, status, exited, completions, firstFailure, parentDone, committable>>
      /\ ~trackError
  BY DEF TrackRecord, IInv, TypeInv, PhaseInv, Positions
<1>2. p \in Partitions /\ o \in Offsets /\ o \in Nat
  BY <1>1, RecordFacts DEF IInv
<1>3. /\ completions = << >> /\ Waiting = {}
      /\ \A i \in Positions : status[i] = "pending"
  BY <1>1 DEF IInv, PhaseInv, Waiting
<1>4. /\ \A q \in Partitions : MarkedOf(q)' = MarkedOf(q)
      /\ Waiting' = Waiting /\ Positions' = Positions /\ Lanes' = Lanes
  BY <1>1 DEF MarkedOf, Waiting, Positions, Lanes
<1>5. LaneInv' /\ ChannelInv'
  BY <1>1, <1>4 DEF IInv, LaneInv, ChannelInv, Cancelled
<1>6. CASE ~CanTrack(parts[p], o)
  <2>1. trackError' = TRUE /\ pc' = "returned" /\ UNCHANGED <<parts, tracked>>
    BY <1>6 DEF TrackRecord
  <2>2. TypeInv'
    BY <1>1, <1>4, <2>1 DEF IInv, TypeInv
  <2>3. PhaseInv'
    BY <1>1, <1>3, <1>4, <2>1 DEF PhaseInv
  <2>4. OffsetsInv' /\ PartitionsInv'
    BY <1>1, <1>4, <2>1 DEF IInv, OffsetsInv, PartitionsInv, OfPartition
  <2> QED
    BY <1>5, <2>2, <2>3, <2>4 DEF IInv
<1>7. CASE CanTrack(parts[p], o)
  <2>1. /\ parts' = [parts EXCEPT ![p] = TrackOffset(@, o)]
        /\ tracked' = n /\ UNCHANGED <<pc, trackError>>
    BY <1>7 DEF TrackRecord
  <2>2. /\ parts[p] \in StateType /\ parts \in [Partitions -> StateType]
        /\ Tracker!PartitionInv(parts[p], MarkedOf(p), << >>)
        /\ committable[p] =
             IF parts[p].next = 0 THEN NoOffset ELSE parts[p].offsets[parts[p].next]
    BY <1>2 DEF IInv, TypeInv, PartitionsInv
  <2> DEFINE t == TrackOffset(parts[p], o)
  <2>3. /\ t \in StateType /\ t.next = parts[p].next
        /\ Len(t.offsets) = Len(parts[p].offsets) + 1
        /\ t.offsets[Len(parts[p].offsets) + 1] = o
        /\ \A i \in 1 .. Len(parts[p].offsets) : t.offsets[i] = parts[p].offsets[i]
        /\ Tracked(t) = Tracked(parts[p]) \cup {o}
    <3>1. LET u == Tracker!TrackOffset(parts[p], o)
          IN  /\ u \in Tracker!StateType /\ u.next = parts[p].next
              /\ Len(u.offsets) = Len(parts[p].offsets) + 1
              /\ u.offsets[Len(parts[p].offsets) + 1] = o
              /\ \A i \in 1 .. Len(parts[p].offsets) : u.offsets[i] = parts[p].offsets[i]
              /\ Tracker!Tracked(u) = Tracker!Tracked(parts[p]) \cup {o}
      <4>1. parts[p] \in Tracker!StateType /\ Tracker!OffsetsAssumption
        BY <2>2, SameTracker
      <4> QED
        BY <1>2, <4>1, Tracker!TrackOffsetFacts, Zenon
    <3> QED
      BY <3>1, SameTracker
  <2>4. Tracker!PartitionInv(t, MarkedOf(p), << >>)
    BY <1>2, <1>7, <2>2, TrackKeeps
  <2> HIDE DEF t
  <2>5. parts' = [parts EXCEPT ![p] = t]
    BY <2>1 DEF t
  <2>6. TypeInv'
    <3>1. parts' \in [Partitions -> StateType]
      BY <2>2, <2>3, <2>5
    <3>2. tracked' \in 0 .. Len(batch)
      BY <1>1, <2>1 DEF Positions, IInv, TypeInv
    <3> QED
      BY <1>1, <1>4, <2>1, <3>1, <3>2 DEF IInv, TypeInv
  <2>7. PhaseInv'
    BY <1>1, <1>3, <1>4, <2>1 DEF PhaseInv, IInv
  <2>8. committable[p] = IF t.next = 0 THEN NoOffset ELSE t.offsets[t.next]
    <3>1. parts[p].next = 0 \/ parts[p].next \in 1 .. Len(parts[p].offsets)
      BY <2>2 DEF Tracker!PartitionInv, Tracker!WellTyped, StateType
    <3> QED
      BY <2>2, <2>3, <3>1
  <2>9. PartitionsInv'
    <3>1. ASSUME NEW q \in Partitions
          PROVE  /\ Tracker!PartitionInv(parts'[q], MarkedOf(q), << >>)
                 /\ committable[q] =
                      IF parts'[q].next = 0 THEN NoOffset ELSE parts'[q].offsets[parts'[q].next]
      <4>1. CASE q = p
        BY <1>2, <2>2, <2>4, <2>5, <2>8, <4>1
      <4>2. CASE q # p
        BY <2>2, <2>5, <4>2 DEF IInv, PartitionsInv
      <4> QED
        BY <4>1, <4>2
    <3> QED
      BY <1>1, <1>4, <3>1 DEF PartitionsInv
  <2>10. \A q \in Partitions :
           Tracked(parts'[q]) = {batch[i].offset : i \in {j \in OfPartition(q) : j <= n}}
    <3> SUFFICES ASSUME NEW q \in Partitions
                 PROVE  Tracked(parts'[q])
                          = {batch[i].offset : i \in {j \in OfPartition(q) : j <= n}}
      OBVIOUS
    <3>1. {j \in OfPartition(q) : j <= n} =
            {j \in OfPartition(q) : j <= tracked} \cup (IF q = p THEN {n} ELSE {})
      BY <1>1 DEF OfPartition, Positions, IInv, TypeInv
    <3>2. Tracked(parts[q]) = {batch[i].offset : i \in {j \in OfPartition(q) : j <= tracked}}
      BY DEF IInv, OffsetsInv
    <3>3. CASE q = p
      BY <1>2, <2>2, <2>3, <2>5, <3>1, <3>2, <3>3
    <3>4. CASE q # p
      BY <1>2, <2>2, <2>3, <2>5, <3>1, <3>2, <3>4
    <3> QED
      BY <3>3, <3>4
  <2>11. ASSUME NEW i \in Positions, NEW j \in Positions, i < j, j <= n,
                batch[i].partition = batch[j].partition
         PROVE  batch[i].offset < batch[j].offset
    <3>1. CASE j <= tracked
      BY <2>11, <3>1 DEF IInv, OffsetsInv
    <3>2. CASE j = n
      <4>1. i <= tracked /\ i \in OfPartition(p)
        BY <1>1, <2>11, <3>2 DEF OfPartition, Positions
      <4>2. batch[i].offset \in Tracked(parts[p])
        BY <1>2, <4>1 DEF IInv, OffsetsInv
      <4>3. Len(parts[p].offsets) \in Nat
        BY <2>2 DEF StateType
      <4>4. batch[i].offset < o
        <5>1. PICK k \in 1 .. Len(parts[p].offsets) : batch[i].offset = parts[p].offsets[k]
          BY <4>2 DEF Tracked
        <5>2. /\ k < Len(t.offsets) /\ Len(t.offsets) \in Nat
              /\ t.offsets[k] = parts[p].offsets[k] /\ t.offsets[Len(t.offsets)] = o
          BY <2>3, <4>3, <5>1
        <5> QED
          BY <2>4, <4>3, <5>1, <5>2 DEF Tracker!PartitionInv, Tracker!Ascending
      <4> QED
        BY <3>2, <4>4
    <3> QED
      BY <1>1, <2>11, <3>1, <3>2 DEF Positions, IInv, TypeInv
  <2>12. OffsetsInv'
    BY <1>1, <1>4, <2>1, <2>10, <2>11 DEF OffsetsInv, OfPartition
  <2> QED
    BY <1>5, <2>6, <2>7, <2>9, <2>12 DEF IInv
<1> QED
  BY <1>6, <1>7

-----------------------------------------------------------------------------
(* The lanes and the collecting loop.  Only a completion that is taken out *)
(* of the channel touches the tracker.                                     *)

LEMMA OffsetsKept ==
  ASSUME IInv, UNCHANGED <<batch, tracked, parts, committable>>,
         \A i \in Positions :
           status'[i] = "ok" /\ i \notin Waiting' <=> status[i] = "ok" /\ i \notin Waiting
  PROVE  Positions' = Positions /\ Lanes' = Lanes /\ OffsetsInv' /\ PartitionsInv'
<1>1. Positions' = Positions /\ Lanes' = Lanes
  BY DEF Positions, Lanes
<1>2. \A p \in Partitions : MarkedOf(p)' = MarkedOf(p)
  <2>1. \A p \in Partitions :
          {j \in Positions : batch[j].partition = p /\ status'[j] = "ok" /\ j \notin Waiting'}
            = {j \in Positions : batch[j].partition = p /\ status[j] = "ok" /\ j \notin Waiting}
    OBVIOUS
  <2> QED
    BY <1>1, <2>1 DEF MarkedOf
<1>3. OffsetsInv'
  BY <1>1 DEF IInv, OffsetsInv, OfPartition
<1>4. PartitionsInv'
  BY <1>2 DEF IInv, PartitionsInv
<1> QED
  BY <1>1, <1>3, <1>4

LEMMA StartLanesInv == ASSUME IInv, StartLanes PROVE IInv'
<1>1. /\ pc = "tracking" /\ tracked = Len(batch) /\ pc' = "collecting"
      /\ UNCHANGED <<batch, tracked, trackError, parts, status, exited, completions,
                     firstFailure, parentDone, committable>>
      /\ Waiting' = Waiting
  BY DEF StartLanes, Waiting
<1>2. Positions' = Positions /\ Lanes' = Lanes /\ OffsetsInv' /\ PartitionsInv'
  BY <1>1, OffsetsKept
<1>3. TypeInv' /\ LaneInv' /\ ChannelInv'
  BY <1>1, <1>2 DEF IInv, TypeInv, LaneInv, ChannelInv, Cancelled
<1>4. PhaseInv'
  BY <1>1, <1>2 DEF IInv, PhaseInv
<1> QED
  BY <1>2, <1>3, <1>4 DEF IInv

LEMMA CancelParentInv == ASSUME IInv, CancelParent PROVE IInv'
<1>1. /\ parentDone' = TRUE
      /\ UNCHANGED <<batch, pc, tracked, trackError, parts, status, exited, completions,
                     firstFailure, committable>>
      /\ Waiting' = Waiting
  BY DEF CancelParent, Waiting
<1>2. Positions' = Positions /\ Lanes' = Lanes /\ OffsetsInv' /\ PartitionsInv'
  BY <1>1, OffsetsKept
<1>3. TypeInv' /\ PhaseInv' /\ ChannelInv'
  BY <1>1, <1>2 DEF IInv, TypeInv, PhaseInv, ChannelInv
<1>4. LaneInv'
  BY <1>1, <1>2 DEF IInv, LaneInv, Cancelled
<1> QED
  BY <1>2, <1>3, <1>4 DEF IInv

LEMMA StartHandlerInv == ASSUME IInv, NEW l, StartHandler(l) PROVE IInv'
<1>1. /\ pc = "collecting" /\ l \in Lanes \ exited /\ ~Busy(l) /\ ~Cancelled
      /\ UNCHANGED <<batch, pc, tracked, trackError, parts, exited, completions,
                     firstFailure, parentDone, committable>>
      /\ Waiting' = Waiting
  BY DEF StartHandler, Waiting
<1>2. PICK i \in Pending(l) : /\ \A j \in Pending(l) : i <= j
                              /\ status' = [status EXCEPT ![i] = "running"]
  BY DEF StartHandler
<1>3. i \in Positions /\ LaneOf(batch[i]) = l /\ status[i] = "pending" /\ Positions \subseteq Nat
  BY <1>2 DEF Pending, InLane, Positions
<1>4. /\ status'[i] = "running" /\ \A j \in Positions \ {i} : status'[j] = status[j]
      /\ status' \in [Positions -> {"pending", "running", "ok", "failed"}]
  BY <1>2, <1>3 DEF IInv, TypeInv
<1>5. i \notin Waiting
  BY <1>3 DEF IInv, ChannelInv
<1>6. Positions' = Positions /\ Lanes' = Lanes /\ OffsetsInv' /\ PartitionsInv'
  <2>1. \A j \in Positions :
          status'[j] = "ok" /\ j \notin Waiting' <=> status[j] = "ok" /\ j \notin Waiting
    BY <1>1, <1>3, <1>4
  <2> QED
    BY <1>1, <2>1, OffsetsKept
<1>7. TypeInv'
  BY <1>1, <1>4, <1>6 DEF IInv, TypeInv
<1>8. PhaseInv'
  BY <1>1, <1>6 DEF IInv, PhaseInv
<1>9. ChannelInv'
  <2>1. Waiting \subseteq Positions \ {i}
    BY <1>5 DEF IInv, TypeInv, Waiting
  <2>2. \A j \in Waiting' : status'[j] \in {"ok", "failed"}
    BY <1>1, <1>4, <2>1 DEF IInv, ChannelInv
  <2> QED
    BY <1>1, <2>2 DEF IInv, ChannelInv
<1>10. LaneInv'
  <2>1. ASSUME NEW j \in Positions, j < i, LaneOf(batch[j]) = l PROVE status[j] = "ok"
    <3>1. status[j] # "pending"
      BY <1>2, <1>3, <2>1 DEF Pending, InLane
    <3>2. status[j] # "running"
      BY <1>1, <2>1 DEF Busy, InLane
    <3>3. status[j] # "failed"
      BY <1>1, <2>1 DEF IInv, LaneInv
    <3> QED
      BY <3>1, <3>2, <3>3 DEF IInv, TypeInv
  <2>2. ASSUME NEW j \in Positions, NEW k \in Positions, j < k,
               LaneOf(batch[j]) = LaneOf(batch[k]), status'[k] # "pending"
        PROVE  status'[j] = "ok"
    <3>1. status[j] = "ok"
      <4>1. CASE k = i
        BY <1>3, <2>1, <2>2, <4>1
      <4>2. CASE k # i
        BY <1>4, <2>2, <4>2 DEF IInv, LaneInv
      <4> QED
        BY <4>1, <4>2
    <3> QED
      BY <1>3, <1>4, <3>1
  <2>3. ASSUME NEW j \in Positions
        PROVE  /\ status'[j] = "failed" => LaneOf(batch[j]) \in exited /\ firstFailure # 0
               /\ status'[j] = "running" => LaneOf(batch[j]) \notin exited
               /\ status'[j] = "pending" /\ LaneOf(batch[j]) \in exited => Cancelled
    <3>1. CASE j = i
      BY <1>1, <1>3, <1>4, <3>1
    <3>2. CASE j # i
      BY <1>4, <3>2 DEF IInv, LaneInv
    <3> QED
      BY <3>1, <3>2
  <2>4. Cancelled' = Cancelled
    BY <1>1 DEF Cancelled
  <2> QED
    BY <1>1, <1>6, <2>2, <2>3, <2>4 DEF LaneInv
<1> QED
  BY <1>6, <1>7, <1>8, <1>9, <1>10 DEF IInv

LEMMA LaneReturnsInv == ASSUME IInv, NEW l, LaneReturns(l) PROVE IInv'
<1>1. /\ pc = "collecting" /\ l \in Lanes \ exited /\ ~Busy(l)
      /\ Cancelled \/ Pending(l) = {}
      /\ exited' = exited \cup {l}
      /\ UNCHANGED <<batch, pc, tracked, trackError, parts, status, completions,
                     firstFailure, parentDone, committable>>
      /\ Waiting' = Waiting
  BY DEF LaneReturns, Waiting
<1>2. Positions' = Positions /\ Lanes' = Lanes /\ OffsetsInv' /\ PartitionsInv'
  BY <1>1, OffsetsKept
<1>3. TypeInv' /\ PhaseInv' /\ ChannelInv'
  BY <1>1, <1>2 DEF IInv, TypeInv, PhaseInv, ChannelInv
<1>4. LaneInv'
  <2>1. ASSUME NEW j \in Positions
        PROVE  /\ status[j] = "failed" => LaneOf(batch[j]) \in exited' /\ firstFailure # 0
               /\ status[j] = "running" => LaneOf(batch[j]) \notin exited'
               /\ status[j] = "pending" /\ LaneOf(batch[j]) \in exited' => Cancelled
    <3>1. CASE LaneOf(batch[j]) = l
      BY <1>1, <3>1 DEF IInv, LaneInv, Busy, Pending, InLane
    <3>2. CASE LaneOf(batch[j]) # l
      BY <1>1, <3>2 DEF IInv, LaneInv
    <3> QED
      BY <3>1, <3>2
  <2>2. Cancelled' = Cancelled
    BY <1>1 DEF Cancelled
  <2> QED
    BY <1>1, <1>2, <2>1, <2>2 DEF IInv, LaneInv
<1> QED
  BY <1>2, <1>3, <1>4 DEF IInv

(* A handler that ends runs while the loop collects, and its completion is *)
(* the only one of its record.                                             *)
LEMMA HandlerEnds ==
  ASSUME IInv, NEW i \in Positions, status[i] = "running",
         NEW outcome \in {"ok", "failed"}, status' = [status EXCEPT ![i] = outcome],
         completions' = Append(completions, i),
         UNCHANGED <<batch, pc, tracked, trackError, parts, parentDone, committable>>
  PROVE  /\ pc = "collecting" /\ ~trackError
         /\ status'[i] = outcome /\ \A j \in Positions \ {i} : status'[j] = status[j]
         /\ status' \in [Positions -> {"pending", "running", "ok", "failed"}]
         /\ completions' \in Seq(Positions)
         /\ Positions' = Positions /\ Lanes' = Lanes
         /\ OffsetsInv' /\ PartitionsInv' /\ ChannelInv' /\ PhaseInv'
<1>1. /\ status'[i] = outcome /\ \A j \in Positions \ {i} : status'[j] = status[j]
      /\ status' \in [Positions -> {"pending", "running", "ok", "failed"}]
  BY DEF IInv, TypeInv
<1>2. ~trackError /\ pc # "tracking"
  BY DEF IInv, PhaseInv
<1>3. pc = "collecting"
  <2>1. LaneOf(batch[i]) \in Lanes /\ LaneOf(batch[i]) \notin exited
    BY DEF IInv, LaneInv, Lanes
  <2> QED
    BY <1>2, <2>1 DEF IInv, TypeInv, PhaseInv
<1>4. completions' \in Seq(Positions) /\ Len(completions) \in Nat
  BY DEF IInv, TypeInv
<1>5. /\ Len(completions') = Len(completions) + 1
      /\ completions'[Len(completions) + 1] = i
      /\ \A k \in 1 .. Len(completions) : completions'[k] = completions[k]
  BY <1>4 DEF IInv, TypeInv
<1>6. Waiting' = Waiting \cup {i} /\ i \notin Waiting
  <2>1. i \notin Waiting
    BY DEF IInv, ChannelInv
  <2> QED
    BY <1>4, <1>5, <2>1 DEF Waiting
<1>7. Positions' = Positions /\ Lanes' = Lanes /\ OffsetsInv' /\ PartitionsInv'
  <2>1. \A j \in Positions :
          status'[j] = "ok" /\ j \notin Waiting' <=> status[j] = "ok" /\ j \notin Waiting
    BY <1>1, <1>6
  <2> QED
    BY <2>1, OffsetsKept
<1>8. ChannelInv'
  <2>1. ASSUME NEW k \in 1 .. Len(completions'), NEW m \in 1 .. Len(completions'),
               completions'[k] = completions'[m]
        PROVE  k = m
    <3>1. \A n \in 1 .. Len(completions) : completions[n] # i
      BY <1>6 DEF Waiting
    <3> QED
      BY <1>4, <1>5, <2>1, <3>1 DEF IInv, ChannelInv
  <2>2. \A j \in Waiting' : status'[j] \in {"ok", "failed"}
    <3>1. Waiting \subseteq Positions
      BY DEF IInv, TypeInv, Waiting
    <3> QED
      BY <1>1, <1>6, <3>1 DEF IInv, ChannelInv
  <2> QED
    BY <2>1, <2>2 DEF ChannelInv
<1>9. PhaseInv'
  BY <1>2, <1>3 DEF IInv, PhaseInv
<1> QED
  BY <1>1, <1>2, <1>3, <1>4, <1>7, <1>8, <1>9

LEMMA HandlerSucceedsInv == ASSUME IInv, NEW l, HandlerSucceeds(l) PROVE IInv'
<1>1. PICK i \in InLane(l) : /\ status[i] = "running"
                             /\ status' = [status EXCEPT ![i] = "ok"]
                             /\ completions' = Append(completions, i)
  BY DEF HandlerSucceeds
<1>2. /\ i \in Positions
      /\ UNCHANGED <<batch, pc, tracked, trackError, parts, exited, firstFailure,
                     parentDone, committable>>
  BY <1>1 DEF HandlerSucceeds, InLane
<1>3. /\ status'[i] = "ok" /\ \A j \in Positions \ {i} : status'[j] = status[j]
      /\ status' \in [Positions -> {"pending", "running", "ok", "failed"}]
      /\ completions' \in Seq(Positions)
      /\ Positions' = Positions /\ Lanes' = Lanes
      /\ OffsetsInv' /\ PartitionsInv' /\ ChannelInv' /\ PhaseInv'
  BY <1>1, <1>2, HandlerEnds
<1>4. TypeInv'
  BY <1>2, <1>3 DEF IInv, TypeInv
<1>5. LaneInv'
  <2>1. \A j \in Positions : status'[j] # "pending" <=> status[j] # "pending"
    BY <1>1, <1>3
  <2>2. \A j \in Positions : status[j] = "ok" => status'[j] = "ok"
    BY <1>3
  <2>3. Cancelled' = Cancelled
    BY <1>2 DEF Cancelled
  <2> QED
    BY <1>2, <1>3, <2>1, <2>2, <2>3 DEF IInv, LaneInv
<1> QED
  BY <1>3, <1>4, <1>5 DEF IInv

LEMMA HandlerFailsInv == ASSUME IInv, NEW l, HandlerFails(l) PROVE IInv'
<1>1. PICK i \in InLane(l) : /\ status[i] = "running"
                             /\ status' = [status EXCEPT ![i] = "failed"]
                             /\ completions' = Append(completions, i)
                             /\ firstFailure' = IF firstFailure = 0 THEN i ELSE firstFailure
  BY DEF HandlerFails
<1>2. /\ i \in Positions /\ LaneOf(batch[i]) = l /\ l \in Lanes
      /\ exited' = exited \cup {l}
      /\ UNCHANGED <<batch, pc, tracked, trackError, parts, parentDone, committable>>
  BY <1>1 DEF HandlerFails, InLane, Lanes
<1>3. /\ pc = "collecting" /\ ~trackError
      /\ status'[i] = "failed" /\ \A j \in Positions \ {i} : status'[j] = status[j]
      /\ status' \in [Positions -> {"pending", "running", "ok", "failed"}]
      /\ completions' \in Seq(Positions)
      /\ Positions' = Positions /\ Lanes' = Lanes
      /\ OffsetsInv' /\ PartitionsInv' /\ ChannelInv' /\ PhaseInv'
  BY <1>1, <1>2, HandlerEnds
<1>4. firstFailure' \in 1 .. Len(batch)
  BY <1>1, <1>2 DEF IInv, TypeInv, Positions
<1>5. TypeInv'
  <2>1. firstFailure' \in 0 .. Len(batch)
    BY <1>4
  <2> QED
    BY <1>2, <1>3, <2>1 DEF IInv, TypeInv
<1>6. LaneInv'
  <2>1. ASSUME NEW j \in Positions, NEW k \in Positions, j < k,
               LaneOf(batch[j]) = LaneOf(batch[k]), status'[k] # "pending"
        PROVE  status'[j] = "ok"
    <3>1. status[k] # "pending"
      BY <1>1, <1>3, <2>1
    <3>2. status[j] = "ok"
      BY <2>1, <3>1 DEF IInv, LaneInv
    <3> QED
      BY <1>1, <1>3, <3>2
  <2>2. ASSUME NEW j \in Positions, j # i, LaneOf(batch[j]) = l PROVE status[j] # "running"
    <3>1. i < j \/ j < i
      BY <1>2, <2>2 DEF Positions
    <3> QED
      BY <1>1, <1>2, <2>2, <3>1 DEF IInv, LaneInv
  <2>3. firstFailure' # 0 /\ Cancelled'
    BY <1>4 DEF Cancelled
  <2>4. ASSUME NEW j \in Positions
        PROVE  /\ status'[j] = "failed" => LaneOf(batch[j]) \in exited'
               /\ status'[j] = "running" => LaneOf(batch[j]) \notin exited'
    <3>1. CASE j = i
      BY <1>2, <1>3, <3>1
    <3>2. CASE j # i
      BY <1>2, <1>3, <2>2, <3>2 DEF IInv, LaneInv
    <3> QED
      BY <3>1, <3>2
  <2> QED
    BY <1>2, <1>3, <2>1, <2>3, <2>4 DEF LaneInv
<1> QED
  BY <1>3, <1>5, <1>6 DEF IInv

-----------------------------------------------------------------------------
(* The collecting loop. *)

LEMMA Marked ==
  ASSUME NEW st \in StateType, st.next <= Len(st.offsets), NEW o \in Offsets
  PROVE  LET t == MarkOffset(st, o)
         IN  /\ t \in StateType /\ t.offsets = st.offsets
             /\ t.next \in st.next .. Len(st.offsets)
<1>1. LET t == Tracker!MarkOffset(st, o)
          done == st.completed \cup {o}
      IN  t \in Tracker!StateType /\ t.offsets = st.offsets /\ Tracker!StopsAt(st, done, t.next)
  <2>1. st \in Tracker!StateType /\ Tracker!OffsetsAssumption
    BY SameTracker
  <2> QED
    BY <2>1, Tracker!MarkOffsetFacts, Zenon
<1> QED
  BY <1>1, SameTracker DEF Tracker!StopsAt

(* What the loop takes out of the channel. *)
LEMMA Taken ==
  ASSUME TypeInv, ChannelInv, completions # << >>, completions' = Tail(completions)
  PROVE  /\ completions' \in Seq(Positions)
         /\ Head(completions) \in Waiting /\ Head(completions) \in Positions
         /\ Waiting' = Waiting \ {Head(completions)}
         /\ \A k, m \in 1 .. Len(completions') : completions'[k] = completions'[m] => k = m
<1>1. /\ completions \in Seq(Positions) /\ Len(completions) \in Nat \ {0}
      /\ Head(completions) = completions[1] /\ completions' \in Seq(Positions)
      /\ Len(completions') = Len(completions) - 1
      /\ \A k \in 1 .. Len(completions') : completions'[k] = completions[k + 1]
  BY DEF TypeInv
<1>2. Head(completions) \in Waiting /\ Head(completions) \in Positions
  BY <1>1 DEF Waiting
<1>3. \A k, m \in 1 .. Len(completions) : completions[k] = completions[m] => k = m
  BY DEF ChannelInv
<1>4. Waiting' = Waiting \ {Head(completions)}
  <2>1. ASSUME NEW k \in 1 .. Len(completions')
        PROVE  completions'[k] \in Waiting \ {Head(completions)}
    BY <1>1, <1>3, <2>1 DEF Waiting
  <2>2. ASSUME NEW k \in 1 .. Len(completions), completions[k] # Head(completions)
        PROVE  k - 1 \in 1 .. Len(completions') /\ completions'[k - 1] = completions[k]
    BY <1>1, <2>2
  <2>3. ASSUME NEW j \in Waiting, j # Head(completions) PROVE j \in Waiting'
    <3>1. PICK k \in 1 .. Len(completions) : j = completions[k]
      BY DEF Waiting
    <3>2. k - 1 \in 1 .. Len(completions') /\ completions'[k - 1] = j
      BY <2>2, <2>3, <3>1
    <3> QED
      BY <3>2 DEF Waiting
  <2>4. Waiting' \subseteq Waiting \ {Head(completions)}
    BY <2>1 DEF Waiting
  <2> QED
    BY <2>3, <2>4
<1>5. \A k, m \in 1 .. Len(completions') : completions'[k] = completions'[m] => k = m
  BY <1>1, <1>3
<1> QED
  BY <1>1, <1>2, <1>4, <1>5

LEMMA CollectInv == ASSUME IInv, Collect PROVE IInv'
<1>0. PICK i, p, o :
        i = Head(completions) /\ p = batch[i].partition /\ o = batch[i].offset
  OBVIOUS
<1>1. /\ pc = "collecting" /\ completions # << >> /\ completions' = Tail(completions)
      /\ UNCHANGED <<batch, pc, tracked, trackError, status, exited, parentDone>>
  BY DEF Collect
<1>2. /\ completions' \in Seq(Positions) /\ i \in Waiting /\ i \in Positions
      /\ Waiting' = Waiting \ {i}
      /\ \A k, m \in 1 .. Len(completions') : completions'[k] = completions'[m] => k = m
  BY <1>0, <1>1, Taken DEF IInv
<1>3. status[i] \in {"ok", "failed"}
  BY <1>2 DEF IInv, ChannelInv
<1>4. p \in Partitions /\ o \in Offsets /\ o \in Nat
  BY <1>0, <1>2, RecordFacts DEF IInv
<1>5. ~trackError /\ tracked = Len(batch)
  BY <1>1 DEF IInv, PhaseInv
<1>6. o \in Tracked(parts[p])
  <2>1. i \in OfPartition(p) /\ i <= tracked
    BY <1>0, <1>2, <1>5 DEF OfPartition, Positions
  <2> QED
    BY <1>0, <1>4, <2>1 DEF IInv, OffsetsInv
<1>7. UNCHANGED firstFailure
  BY <1>0, <1>6 DEF Collect
<1>8. Positions' = Positions /\ Lanes' = Lanes
  BY <1>1 DEF Positions, Lanes
<1>9. ChannelInv'
  BY <1>1, <1>2 DEF IInv, ChannelInv
<1>10. LaneInv'
  BY <1>1, <1>7, <1>8 DEF IInv, LaneInv, Cancelled
<1>11. PhaseInv'
  BY <1>1, <1>5, <1>8 DEF IInv, PhaseInv
<1>12. CASE status[i] = "failed"
  <2>1. UNCHANGED <<parts, committable>>
    BY <1>0, <1>12 DEF Collect
  <2>2. OffsetsInv' /\ PartitionsInv'
    <3>1. \A j \in Positions :
            status'[j] = "ok" /\ j \notin Waiting' <=> status[j] = "ok" /\ j \notin Waiting
      BY <1>1, <1>2, <1>12
    <3> QED
      BY <1>1, <2>1, <3>1, OffsetsKept
  <2>3. TypeInv'
    BY <1>1, <1>2, <1>7, <1>8, <2>1 DEF IInv, TypeInv
  <2> QED
    BY <1>9, <1>10, <1>11, <2>2, <2>3 DEF IInv
<1>13. CASE status[i] = "ok"
  <2>1. /\ parts' = [parts EXCEPT ![p] = MarkOffset(@, o)]
        /\ committable' = IF AdvancedCount(parts[p], o) = 0 THEN committable
                          ELSE [committable EXCEPT ![p] = CompletedOffset(parts[p], o)]
    BY <1>0, <1>6, <1>13 DEF Collect
  <2>2. /\ parts[p] \in StateType /\ parts \in [Partitions -> StateType]
        /\ committable \in [Partitions -> Offsets \cup {NoOffset}]
        /\ Tracker!PartitionInv(parts[p], MarkedOf(p), << >>)
        /\ committable[p] =
             IF parts[p].next = 0 THEN NoOffset ELSE parts[p].offsets[parts[p].next]
    BY <1>4 DEF IInv, TypeInv, PartitionsInv
  <2>3. parts[p].next <= Len(parts[p].offsets)
    BY <2>2 DEF Tracker!PartitionInv, Tracker!WellTyped
  <2> DEFINE t == MarkOffset(parts[p], o)
  <2>4. /\ t \in StateType /\ t.offsets = parts[p].offsets
        /\ t.next \in parts[p].next .. Len(parts[p].offsets)
    BY <1>4, <2>2, <2>3, Marked
  <2>5. Tracker!PartitionInv(t, MarkedOf(p) \cup {o}, << >>)
    BY <1>6, <2>2, MarkKeeps
  <2>6. /\ parts' = [parts EXCEPT ![p] = t]
        /\ committable' = IF t.next - parts[p].next = 0 THEN committable
                          ELSE [committable EXCEPT ![p] = t.offsets[t.next]]
    BY <2>1, <2>4 DEF AdvancedCount, CompletedOffset, t
  <2> HIDE DEF t
  <2>7. /\ parts[p].next \in Nat /\ Len(parts[p].offsets) \in Nat
        /\ parts[p].offsets \in Seq(Offsets)
    BY <2>2 DEF StateType
  <2>8. /\ committable' \in [Partitions -> Offsets \cup {NoOffset}]
        /\ committable'[p] = IF t.next = 0 THEN NoOffset ELSE t.offsets[t.next]
        /\ \A q \in Partitions \ {p} : committable'[q] = committable[q]
    <3>1. CASE t.next = parts[p].next
      BY <2>2, <2>4, <2>6, <2>7, <3>1
    <3>2. CASE t.next # parts[p].next
      <4>1. t.next - parts[p].next # 0 /\ t.next # 0 /\ t.next \in 1 .. Len(parts[p].offsets)
        BY <2>4, <2>7, <3>2
      <4>2. t.offsets[t.next] \in Offsets
        BY <2>4, <2>7, <4>1
      <4>3. committable' = [committable EXCEPT ![p] = t.offsets[t.next]]
        BY <2>6, <4>1
      <4> QED
        BY <1>4, <2>2, <4>1, <4>2, <4>3
    <3> QED
      BY <3>1, <3>2
  <2>9. TypeInv'
    <3>1. parts' \in [Partitions -> StateType]
      BY <2>2, <2>4, <2>6
    <3> QED
      BY <1>1, <1>2, <1>7, <1>8, <2>8, <3>1 DEF IInv, TypeInv
  <2>10. /\ MarkedOf(p)' = MarkedOf(p) \cup {o}
         /\ \A q \in Partitions \ {p} : MarkedOf(q)' = MarkedOf(q)
    <3>1. ASSUME NEW q \in Partitions
          PROVE  {j \in Positions : batch[j].partition = q /\ status[j] = "ok" /\ j \notin Waiting'}
                   = {j \in Positions : batch[j].partition = q /\ status[j] = "ok" /\ j \notin Waiting}
                       \cup (IF q = p THEN {i} ELSE {})
      BY <1>0, <1>2, <1>13
    <3>2. ASSUME NEW q \in Partitions
          PROVE  MarkedOf(q)' =
                   {batch[k].offset : k \in {j \in Positions : /\ batch[j].partition = q
                                                              /\ status[j] = "ok"
                                                              /\ j \notin Waiting'}}
      BY <1>1, <1>8 DEF MarkedOf
    <3>3. MarkedOf(p)' = MarkedOf(p) \cup {o}
      <4> DEFINE Before == {j \in Positions : /\ batch[j].partition = p
                                              /\ status[j] = "ok"
                                              /\ j \notin Waiting}
      <4>1. {j \in Positions : batch[j].partition = p /\ status[j] = "ok" /\ j \notin Waiting'}
              = Before \cup {i}
        BY <1>4, <3>1
      <4>2. MarkedOf(p)' = {batch[k].offset : k \in Before \cup {i}}
        BY <1>4, <3>2, <4>1
      <4>3. MarkedOf(p) = {batch[k].offset : k \in Before}
        BY DEF MarkedOf
      <4> HIDE DEF Before
      <4> QED
        BY <1>0, <4>2, <4>3
    <3>4. ASSUME NEW q \in Partitions, q # p PROVE MarkedOf(q)' = MarkedOf(q)
      BY <3>1, <3>2, <3>4 DEF MarkedOf
    <3> QED
      BY <3>3, <3>4
  <2>11. PartitionsInv'
    <3>1. ASSUME NEW q \in Partitions
          PROVE  /\ Tracker!PartitionInv(parts'[q], MarkedOf(q)', << >>)
                 /\ committable'[q] =
                      IF parts'[q].next = 0 THEN NoOffset ELSE parts'[q].offsets[parts'[q].next]
      <4>1. CASE q = p
        <5>1. parts'[p] = t
          BY <1>4, <2>2, <2>6
        <5>2. Tracker!PartitionInv(parts'[p], MarkedOf(p)', << >>)
          BY <2>5, <2>10, <5>1, Zenon
        <5>3. committable'[p] =
                IF parts'[p].next = 0 THEN NoOffset ELSE parts'[p].offsets[parts'[p].next]
          BY <2>8, <5>1
        <5> QED
          BY <4>1, <5>2, <5>3, Zenon
      <4>2. CASE q # p
        BY <2>2, <2>6, <2>8, <2>10, <4>2 DEF IInv, PartitionsInv
      <4> QED
        BY <4>1, <4>2
    <3> QED
      BY <3>1 DEF PartitionsInv
  <2>12. OffsetsInv'
    <3>1. \A q \in Partitions : Tracked(parts'[q]) = Tracked(parts[q])
      BY <2>2, <2>4, <2>6 DEF Tracked
    <3>2. batch' = batch /\ tracked' = tracked /\ Positions' = Positions
      BY <1>1, <1>8
    <3>3. \A q \in Partitions : OfPartition(q)' = OfPartition(q)
      BY <3>2, Zenon DEF OfPartition
    <3>4. ASSUME NEW q \in Partitions
          PROVE  Tracked(parts'[q])
                   = {batch'[j].offset : j \in {k \in OfPartition(q)' : k <= tracked'}}
      <4>1. Tracked(parts[q]) = {batch[j].offset : j \in {k \in OfPartition(q) : k <= tracked}}
        BY DEF IInv, OffsetsInv
      <4> QED
        BY <3>1, <3>2, <3>3, <4>1, Zenon
    <3>5. \A j, k \in Positions' :
             j < k /\ k <= tracked' /\ batch'[j].partition = batch'[k].partition
               => batch'[j].offset < batch'[k].offset
      <4>1. \A j, k \in Positions :
               j < k /\ k <= tracked /\ batch[j].partition = batch[k].partition
                 => batch[j].offset < batch[k].offset
        BY DEF IInv, OffsetsInv
      <4> QED
        BY <3>2, <4>1, Zenon
    <3> QED
      BY <3>4, <3>5, Zenon DEF OffsetsInv
  <2> QED
    BY <1>9, <1>10, <1>11, <2>9, <2>11, <2>12 DEF IInv
<1> QED
  BY <1>3, <1>12, <1>13

LEMMA ReturnInv == ASSUME IInv, Return PROVE IInv'
<1>1. /\ pc = "collecting" /\ completions = << >> /\ exited = Lanes /\ pc' = "returned"
      /\ UNCHANGED <<batch, tracked, trackError, parts, status, exited, completions,
                     firstFailure, parentDone, committable>>
      /\ Waiting' = Waiting
  BY DEF Return, Waiting
<1>2. Positions' = Positions /\ Lanes' = Lanes /\ OffsetsInv' /\ PartitionsInv'
  BY <1>1, OffsetsKept
<1>3. TypeInv' /\ LaneInv' /\ ChannelInv'
  BY <1>1, <1>2 DEF IInv, TypeInv, LaneInv, ChannelInv, Cancelled
<1>4. PhaseInv'
  BY <1>1, <1>2 DEF IInv, PhaseInv
<1> QED
  BY <1>2, <1>3, <1>4 DEF IInv

LEMMA StutterInv == ASSUME IInv, UNCHANGED vars PROVE IInv'
<1>1. /\ UNCHANGED <<batch, pc, tracked, trackError, parts, status, exited, completions,
                     firstFailure, parentDone, committable>>
      /\ Waiting' = Waiting
  BY DEF vars, Waiting
<1>2. Positions' = Positions /\ Lanes' = Lanes /\ OffsetsInv' /\ PartitionsInv'
  BY <1>1, OffsetsKept
<1>3. TypeInv' /\ LaneInv' /\ ChannelInv' /\ PhaseInv'
  BY <1>1, <1>2 DEF IInv, TypeInv, LaneInv, ChannelInv, PhaseInv, Cancelled
<1> QED
  BY <1>2, <1>3 DEF IInv

LEMMA StepInv == IInv /\ [Next]_vars => IInv'
<1> SUFFICES ASSUME IInv, [Next]_vars PROVE IInv'
  OBVIOUS
<1>1. CASE TrackRecord
  BY <1>1, TrackRecordInv
<1>2. CASE StartLanes
  BY <1>2, StartLanesInv
<1>3. CASE CancelParent
  BY <1>3, CancelParentInv
<1>4. ASSUME NEW l \in Keys \cup Partitions, Lane(l) PROVE IInv'
  BY <1>4, StartHandlerInv, LaneReturnsInv, HandlerSucceedsInv, HandlerFailsInv DEF Lane
<1>5. CASE Collect
  BY <1>5, CollectInv
<1>6. CASE Return
  BY <1>6, ReturnInv
<1>7. CASE Done \/ UNCHANGED vars
  BY <1>7, StutterInv DEF Done
<1> QED
  BY <1>1, <1>2, <1>3, <1>4, <1>5, <1>6, <1>7 DEF Next

(* The inductive invariant holds in every state. *)
THEOREM Invariant == Spec => []IInv
<1>1. Init => IInv
  BY InitInv, BatchAssumption
<1> QED
  BY <1>1, StepInv, PTL DEF Spec

-----------------------------------------------------------------------------
(* When the batch is back: every lane has returned, the channel is empty,  *)
(* and the marked offsets are those of the records that succeeded.         *)

LEMMA WhenReturned ==
  ASSUME IInv, pc = "returned", NEW p \in Partitions
  PROVE  /\ \A i \in Positions : status[i] # "running"
         /\ ~trackError => tracked = Len(batch)
         /\ MarkedOf(p) = {batch[i].offset : i \in {j \in OfPartition(p) : status[j] = "ok"}}
         /\ trackError => MarkedOf(p) = {}
<1>1. completions = << >> /\ Waiting = {}
  <2>1. completions = << >>
    BY DEF IInv, PhaseInv
  <2> QED
    BY <2>1 DEF Waiting
<1>2. ASSUME NEW i \in Positions PROVE status[i] # "running"
  <2>1. LaneOf(batch[i]) \in Lanes
    BY DEF Lanes
  <2> QED
    BY <2>1 DEF IInv, PhaseInv, LaneInv
<1>3. MarkedOf(p) = {batch[i].offset : i \in {j \in OfPartition(p) : status[j] = "ok"}}
  <2>1. {j \in Positions : batch[j].partition = p /\ status[j] = "ok" /\ j \notin Waiting}
          = {j \in OfPartition(p) : status[j] = "ok"}
    BY <1>1 DEF OfPartition
  <2> QED
    BY <2>1 DEF MarkedOf
<1>4. trackError => MarkedOf(p) = {}
  BY <1>3 DEF IInv, PhaseInv, OfPartition
<1> QED
  BY <1>2, <1>3, <1>4 DEF IInv, PhaseInv

(* Where the cursor of a partition stands. *)
LEMMA Cursor ==
  ASSUME IInv, NEW p \in Partitions
  PROVE  LET st == parts[p]
         IN  /\ Len(st.offsets) \in Nat /\ st.next \in 0 .. Len(st.offsets)
             /\ \A k \in 1 .. Len(st.offsets) : st.offsets[k] \in Nat
             /\ \A k, m \in 1 .. Len(st.offsets) : k < m => st.offsets[k] < st.offsets[m]
             /\ \A k \in 1 .. st.next : st.offsets[k] \in MarkedOf(p)
             /\ st.next < Len(st.offsets) => st.offsets[st.next + 1] \notin MarkedOf(p)
             /\ Tracked(st) = {batch[i].offset : i \in {j \in OfPartition(p) : j <= tracked}}
             /\ MarkedOf(p) \subseteq Tracked(st)
             /\ committable[p] = IF st.next = 0 THEN NoOffset ELSE st.offsets[st.next]
<1>1. /\ Tracker!PartitionInv(parts[p], MarkedOf(p), << >>)
      /\ committable[p] = IF parts[p].next = 0 THEN NoOffset ELSE parts[p].offsets[parts[p].next]
      /\ Tracked(parts[p]) = {batch[i].offset : i \in {j \in OfPartition(p) : j <= tracked}}
  BY DEF IInv, PartitionsInv, OffsetsInv
<1>2. parts[p] \in StateType
  BY DEF IInv, TypeInv
<1>3. /\ Len(parts[p].offsets) \in Nat /\ parts[p].next \in Nat
      /\ \A k \in 1 .. Len(parts[p].offsets) : parts[p].offsets[k] \in Nat
  BY <1>2, OffsetsAssumption DEF StateType
<1>4. parts[p].next <= Len(parts[p].offsets) /\ MarkedOf(p) \subseteq Tracked(parts[p])
  BY <1>1, SameTracker DEF Tracker!PartitionInv, Tracker!WellTyped
<1>5. \A k, m \in 1 .. Len(parts[p].offsets) : k < m => parts[p].offsets[k] < parts[p].offsets[m]
  BY <1>1 DEF Tracker!PartitionInv, Tracker!Ascending
<1>6. /\ \A k \in 1 .. parts[p].next : parts[p].offsets[k] \in MarkedOf(p)
      /\ parts[p].next < Len(parts[p].offsets) =>
           parts[p].offsets[parts[p].next + 1] \notin MarkedOf(p)
  BY <1>1 DEF Tracker!PartitionInv, Tracker!LongestPrefix
<1> QED
  BY <1>1, <1>3, <1>4, <1>5, <1>6

(* Once all records are tracked, the tracker has the offsets of a          *)
(* partition's records and no others, in the order of the records.         *)
LEMMA TrackedRecords ==
  ASSUME IInv, tracked = Len(batch), NEW p \in Partitions
  PROVE  /\ OfPartition(p) \subseteq 1 .. Len(batch) /\ Len(batch) \in Nat
         /\ \A j \in OfPartition(p) :
              /\ batch[j].offset \in Nat
              /\ \E k \in 1 .. Len(parts[p].offsets) : batch[j].offset = parts[p].offsets[k]
         /\ \A k \in 1 .. Len(parts[p].offsets) :
              \E j \in OfPartition(p) : batch[j].offset = parts[p].offsets[k]
         /\ \A j, m \in OfPartition(p) : j < m => batch[j].offset < batch[m].offset
<1>1. OfPartition(p) \subseteq 1 .. Len(batch) /\ Len(batch) \in Nat
  BY DEF OfPartition, Positions, IInv, TypeInv
<1>2. Tracked(parts[p]) = {batch[j].offset : j \in {m \in OfPartition(p) : m <= tracked}}
  BY Cursor
<1>3. ASSUME NEW j \in OfPartition(p)
      PROVE  /\ batch[j].offset \in Nat
             /\ \E k \in 1 .. Len(parts[p].offsets) : batch[j].offset = parts[p].offsets[k]
  <2>1. batch[j].offset \in Tracked(parts[p])
    BY <1>1, <1>2
  <2>2. batch[j].offset \in Nat
    BY RecordFacts DEF IInv, OfPartition
  <2> QED
    BY <2>1, <2>2 DEF Tracked
<1>4. ASSUME NEW k \in 1 .. Len(parts[p].offsets)
      PROVE  \E j \in OfPartition(p) : batch[j].offset = parts[p].offsets[k]
  <2>1. parts[p].offsets[k] \in Tracked(parts[p])
    BY DEF Tracked
  <2> QED
    BY <1>2, <2>1
<1>5. ASSUME NEW j \in OfPartition(p), NEW m \in OfPartition(p), j < m
      PROVE  batch[j].offset < batch[m].offset
  BY <1>1, <1>5 DEF IInv, OffsetsInv, OfPartition
<1> QED
  BY <1>1, <1>3, <1>4, <1>5

(* A record of p is finished with all before it exactly if the cursor of p *)
(* is behind it.                                                           *)
LEMMA SafeIsBehindCursor ==
  ASSUME IInv, pc = "returned", ~trackError, NEW p \in Partitions, NEW i \in OfPartition(p)
  PROVE  FinishedThrough(p, i) <=> batch[i].offset <= committable[p]
<1> DEFINE offs == parts[p].offsets
           n == parts[p].next
<1>1. /\ Len(offs) \in Nat /\ n \in 0 .. Len(offs)
      /\ \A k \in 1 .. Len(offs) : offs[k] \in Nat
      /\ \A k, m \in 1 .. Len(offs) : k < m => offs[k] < offs[m]
      /\ \A k \in 1 .. n : offs[k] \in MarkedOf(p)
      /\ n < Len(offs) => offs[n + 1] \notin MarkedOf(p)
      /\ Tracked(parts[p]) = {batch[j].offset : j \in {m \in OfPartition(p) : m <= tracked}}
      /\ committable[p] = IF n = 0 THEN NoOffset ELSE offs[n]
  BY Cursor
<1>2. /\ tracked = Len(batch)
      /\ MarkedOf(p) = {batch[j].offset : j \in {m \in OfPartition(p) : status[m] = "ok"}}
  BY WhenReturned
<1>3. OfPartition(p) \subseteq 1 .. Len(batch) /\ Len(batch) \in Nat
  BY <1>2, TrackedRecords
<1>4. \A j \in OfPartition(p) : \E k \in 1 .. Len(offs) : batch[j].offset = offs[k]
  BY <1>2, TrackedRecords
<1>5. \A k \in 1 .. Len(offs) : \E j \in OfPartition(p) : batch[j].offset = offs[k]
  BY <1>2, TrackedRecords
<1>6. \A j, m \in OfPartition(p) : j < m => batch[j].offset < batch[m].offset
  BY <1>2, TrackedRecords
<1>7. \A j \in OfPartition(p) : batch[j].offset \in Nat
  BY <1>2, TrackedRecords
<1> HIDE DEF offs, n
<1>8. ASSUME batch[i].offset <= committable[p] PROVE FinishedThrough(p, i)
  <2>1. n # 0 /\ n \in 1 .. Len(offs) /\ committable[p] = offs[n]
    BY <1>1, <1>7, <1>8 DEF NoOffset
  <2>2. ASSUME NEW j \in OfPartition(p), j <= i PROVE status[j] = "ok"
    <3>1. batch[j].offset <= batch[i].offset
      BY <1>3, <1>6, <1>7, <2>2
    <3>2. PICK k \in 1 .. Len(offs) : batch[j].offset = offs[k]
      BY <1>4
    <3>3. offs[k] <= offs[n] /\ offs[k] \in Nat /\ offs[n] \in Nat
      BY <1>1, <1>7, <1>8, <2>1, <3>1, <3>2
    <3>4. k <= n
      <4>1. ~(n < k)
        BY <1>1, <2>1, <3>3
      <4> QED
        BY <1>1, <4>1
    <3>5. offs[k] \in MarkedOf(p)
      BY <1>1, <3>4
    <3>6. PICK m \in OfPartition(p) : status[m] = "ok" /\ batch[m].offset = offs[k]
      BY <1>2, <3>5
    <3>7. ~(m < j) /\ ~(j < m)
      BY <1>6, <1>7, <3>2, <3>6
    <3>8. m = j
      BY <1>3, <3>7
    <3> QED
      BY <3>6, <3>8
  <2> QED
    BY <2>2 DEF FinishedThrough
<1>9. ASSUME FinishedThrough(p, i), ~(batch[i].offset <= committable[p]) PROVE FALSE
  <2>1. PICK k \in 1 .. Len(offs) : batch[i].offset = offs[k]
    BY <1>4
  <2>2. n < k
    <3>1. CASE n = 0
      BY <3>1
    <3>2. CASE n # 0
      <4>1. n \in 1 .. Len(offs) /\ ~(offs[k] <= offs[n])
        BY <1>1, <1>9, <2>1, <3>2
      <4>2. ~(k < n) /\ k # n
        BY <1>1, <4>1
      <4> QED
        BY <1>1, <4>2
    <3> QED
      BY <3>1, <3>2
  <2>3. n + 1 \in 1 .. Len(offs) /\ offs[n + 1] \notin MarkedOf(p)
    BY <1>1, <2>2
  <2>4. PICK j \in OfPartition(p) : batch[j].offset = offs[n + 1]
    BY <1>5, <2>3
  <2>5. offs[n + 1] <= offs[k] /\ offs[n + 1] \in Nat /\ offs[k] \in Nat
    <3>1. n + 1 = k \/ n + 1 < k
      BY <1>1, <2>2
    <3> QED
      BY <1>1, <2>3, <3>1
  <2>6. j <= i
    <3>1. ~(i < j)
      BY <1>6, <1>7, <2>1, <2>4, <2>5
    <3> QED
      BY <1>3, <3>1
  <2>7. status[j] = "ok"
    BY <1>9, <2>6 DEF FinishedThrough
  <2>8. offs[n + 1] \in MarkedOf(p)
    BY <1>2, <2>4, <2>7
  <2> QED
    BY <2>3, <2>8
<1> QED
  BY <1>8, <1>9

-----------------------------------------------------------------------------
(* What the loop counts. *)

(* Between two places of a cursor there are as many records as steps.      *)
LEMMA NewlyCovered ==
  ASSUME IInv, tracked = Len(batch), NEW p \in Partitions,
         NEW m \in parts[p].next .. Len(parts[p].offsets), NEW o,
         o = IF m = 0 THEN NoOffset ELSE parts[p].offsets[m]
  PROVE  LET new == {i \in OfPartition(p) : committable[p] < batch[i].offset /\ batch[i].offset <= o}
         IN  IsFiniteSet(new) /\ Cardinality(new) = m - parts[p].next
<1> DEFINE offs == parts[p].offsets
           n == parts[p].next
           new == {i \in OfPartition(p) : committable[p] < batch[i].offset /\ batch[i].offset <= o}
           f == [k \in (n + 1) .. m |-> CHOOSE i \in OfPartition(p) : batch[i].offset = offs[k]]
<1>1. /\ Len(offs) \in Nat /\ n \in 0 .. Len(offs) /\ m \in n .. Len(offs)
      /\ \A k \in 1 .. Len(offs) : offs[k] \in Nat
      /\ \A k, l \in 1 .. Len(offs) : k < l => offs[k] < offs[l]
      /\ committable[p] = IF n = 0 THEN NoOffset ELSE offs[n]
      /\ o = IF m = 0 THEN NoOffset ELSE offs[m]
  BY Cursor
<1>2. /\ OfPartition(p) \subseteq 1 .. Len(batch) /\ Len(batch) \in Nat
      /\ \A j \in OfPartition(p) :
           batch[j].offset \in Nat /\ \E k \in 1 .. Len(offs) : batch[j].offset = offs[k]
      /\ \A k \in 1 .. Len(offs) : \E j \in OfPartition(p) : batch[j].offset = offs[k]
      /\ \A j, l \in OfPartition(p) : j < l => batch[j].offset < batch[l].offset
  BY TrackedRecords
<1> HIDE DEF offs, n
<1>3. ASSUME NEW k \in (n + 1) .. m
      PROVE  f[k] \in OfPartition(p) /\ batch[f[k]].offset = offs[k]
  <2>1. k \in 1 .. Len(offs)
    BY <1>1
  <2> QED
    BY <1>2, <2>1
<1>4. ASSUME NEW k \in 1 .. Len(offs)
      PROVE  committable[p] < offs[k] /\ offs[k] <= o <=> k \in (n + 1) .. m
  <2>1. committable[p] < offs[k] <=> n < k
    <3>1. CASE n = 0
      BY <1>1, <3>1 DEF NoOffset
    <3>2. CASE n # 0
      <4>1. n \in 1 .. Len(offs) /\ committable[p] = offs[n]
        BY <1>1, <3>2
      <4>2. k < n \/ k = n \/ n < k
        BY <1>1
      <4> QED
        BY <1>1, <4>1, <4>2
    <3> QED
      BY <3>1, <3>2
  <2>2. offs[k] <= o <=> k <= m
    <3>1. CASE m = 0
      BY <1>1, <3>1 DEF NoOffset
    <3>2. CASE m # 0
      <4>1. m \in 1 .. Len(offs) /\ o = offs[m]
        BY <1>1, <3>2
      <4>2. k < m \/ k = m \/ m < k
        BY <1>1
      <4> QED
        BY <1>1, <4>1, <4>2
    <3> QED
      BY <3>1, <3>2
  <2> QED
    BY <1>1, <2>1, <2>2
<1>5. f \in Injection((n + 1) .. m, new)
  <2>1. ASSUME NEW k \in (n + 1) .. m PROVE f[k] \in new
    BY <1>1, <1>3, <1>4
  <2>2. f \in [(n + 1) .. m -> new]
    BY <2>1
  <2>3. ASSUME NEW k \in (n + 1) .. m, NEW l \in (n + 1) .. m, f[k] = f[l] PROVE k = l
    <3>1. offs[k] = offs[l]
      BY <1>3, <2>3
    <3>2. k \in 1 .. Len(offs) /\ l \in 1 .. Len(offs)
      BY <1>1
    <3>3. ~(k < l) /\ ~(l < k)
      BY <1>1, <3>1, <3>2
    <3> QED
      BY <1>1, <3>3
  <2> HIDE DEF f, new
  <2>4. IsInjective(f)
    BY <2>2, <2>3 DEF IsInjective
  <2> QED
    BY <2>2, <2>4 DEF Injection
<1>6. f \in Surjection((n + 1) .. m, new)
  <2>1. ASSUME NEW i \in new PROVE \E k \in (n + 1) .. m : f[k] = i
    <3>0. i \in OfPartition(p)
      OBVIOUS
    <3>1. PICK k \in 1 .. Len(offs) : batch[i].offset = offs[k]
      BY <1>2
    <3>2. k \in (n + 1) .. m
      BY <1>4, <3>1
    <3> HIDE DEF f, new
    <3>3. PICK g \in OfPartition(p) : g = f[k] /\ batch[g].offset = batch[i].offset
      BY <1>3, <3>1, <3>2
    <3>4. g \in Int /\ i \in Int /\ batch[g].offset \in Nat
      BY <1>2, <3>0
    <3>5. ~(g < i) /\ ~(i < g)
      <4>1. g < i => batch[g].offset < batch[i].offset
        BY <1>2, <3>0
      <4>2. i < g => batch[i].offset < batch[g].offset
        BY <1>2, <3>0
      <4> QED
        BY <3>3, <3>4, <4>1, <4>2
    <3> QED
      BY <3>2, <3>3, <3>4, <3>5
  <2>2. f \in [(n + 1) .. m -> new]
    BY <1>5 DEF Injection
  <2> HIDE DEF f, new
  <2> QED
    BY <2>1, <2>2 DEF Surjection
<1> HIDE DEF f, new
<1>7. IsFiniteSet((n + 1) .. m) /\ Cardinality((n + 1) .. m) = m - n
  <2>1. n + 1 \in Int /\ m \in Int /\ n <= m /\ n \in Int
    BY <1>1
  <2>2. /\ IsFiniteSet((n + 1) .. m)
        /\ Cardinality((n + 1) .. m) = IF n + 1 > m THEN 0 ELSE m - (n + 1) + 1
    BY <2>1, FS_Interval
  <2> QED
    BY <2>1, <2>2
<1>8. IsFiniteSet(new) /\ Cardinality(new) = Cardinality((n + 1) .. m)
  <2>1. ExistsBijection((n + 1) .. m, new)
    BY <1>5, <1>6 DEF ExistsBijection, Bijection
  <2> QED
    BY <1>7, <2>1, FS_Bijection
<1> QED
  BY <1>7, <1>8 DEF new, n

(* A completion moves the cursor of one partition, or nothing.             *)
LEMMA CollectAdvances ==
  ASSUME IInv, IInv', Collect
  PROVE  /\ batch' = batch /\ tracked = Len(batch)
         /\ \/ UNCHANGED <<committable, count>>
            \/ \E p \in Partitions :
                 /\ parts'[p].next \in parts[p].next .. Len(parts[p].offsets)
                 /\ count' = count + (parts'[p].next - parts[p].next)
                 /\ committable'[p] = IF parts'[p].next = 0 THEN NoOffset
                                      ELSE parts[p].offsets[parts'[p].next]
                 /\ \A q \in Partitions \ {p} : committable'[q] = committable[q]
<1>0. PICK i, p, o :
        i = Head(completions) /\ p = batch[i].partition /\ o = batch[i].offset
  OBVIOUS
<1>1. batch' = batch /\ tracked = Len(batch) /\ pc = "collecting"
  BY DEF Collect, IInv, PhaseInv
<1>2. i \in Positions
  BY <1>0, Taken DEF IInv, Collect
<1>3. p \in Partitions /\ o \in Offsets
  BY <1>0, <1>2, RecordFacts DEF IInv
<1>4. CASE UNCHANGED <<committable, count>>
  BY <1>1, <1>4
<1>5. CASE ~UNCHANGED <<committable, count>>
  <2>1. /\ parts' = [parts EXCEPT ![p] = MarkOffset(@, o)]
        /\ count' = count + AdvancedCount(parts[p], o)
        /\ committable' = IF AdvancedCount(parts[p], o) = 0 THEN committable
                          ELSE [committable EXCEPT ![p] = CompletedOffset(parts[p], o)]
    BY <1>0, <1>5 DEF Collect, CountAfter
  <2>2. /\ parts[p] \in StateType /\ parts \in [Partitions -> StateType]
        /\ committable \in [Partitions -> Offsets \cup {NoOffset}]
        /\ parts[p].next <= Len(parts[p].offsets)
    BY <1>3, Cursor DEF IInv, TypeInv
  <2>3. /\ parts'[p].offsets = parts[p].offsets
        /\ parts'[p].next \in parts[p].next .. Len(parts[p].offsets)
        /\ count' = count + (parts'[p].next - parts[p].next)
    BY <1>3, <2>1, <2>2, Marked DEF AdvancedCount
  <2>4. committable'[p] = IF parts'[p].next = 0 THEN NoOffset
                          ELSE parts[p].offsets[parts'[p].next]
    BY <1>3, <2>3 DEF IInv, PartitionsInv
  <2>5. \A q \in Partitions \ {p} : committable'[q] = committable[q]
    BY <2>1, <2>2
  <2> QED
    BY <1>1, <1>3, <2>3, <2>4, <2>5
<1> QED
  BY <1>4, <1>5

LEMMA CollectCounts == ASSUME IInv, IInv', CountInv, Collect PROVE CountInv'
<1>1. batch' = batch /\ tracked = Len(batch) /\ Positions' = Positions
  BY CollectAdvances DEF Positions
<1>2. CASE UNCHANGED <<committable, count>>
  BY <1>1, <1>2 DEF CountInv, Covered
<1>3. ASSUME NEW p \in Partitions,
             parts'[p].next \in parts[p].next .. Len(parts[p].offsets),
             count' = count + (parts'[p].next - parts[p].next),
             committable'[p] = IF parts'[p].next = 0 THEN NoOffset
                               ELSE parts[p].offsets[parts'[p].next],
             \A q \in Partitions \ {p} : committable'[q] = committable[q]
      PROVE  CountInv'
  <2> DEFINE new == {i \in OfPartition(p) : /\ committable[p] < batch[i].offset
                                            /\ batch[i].offset <= committable'[p]}
  <2>1. IsFiniteSet(new) /\ Cardinality(new) = parts'[p].next - parts[p].next
    BY <1>1, <1>3, NewlyCovered
  <2>2. Covered' = Covered \cup new /\ Covered \cap new = {}
    <3>1. committable[p] <= committable'[p] /\ committable[p] \in Int /\ committable'[p] \in Int
      <4>1. /\ Len(parts[p].offsets) \in Nat /\ parts[p].next \in 0 .. Len(parts[p].offsets)
            /\ \A k \in 1 .. Len(parts[p].offsets) : parts[p].offsets[k] \in Nat
            /\ \A k, l \in 1 .. Len(parts[p].offsets) :
                 k < l => parts[p].offsets[k] < parts[p].offsets[l]
            /\ committable[p] = IF parts[p].next = 0 THEN NoOffset
                                ELSE parts[p].offsets[parts[p].next]
        BY Cursor
      <4>2. PICK m : m = parts'[p].next
        OBVIOUS
      <4>3. CASE m = parts[p].next
        BY <1>3, <4>1, <4>2, <4>3 DEF NoOffset
      <4>4. CASE m # parts[p].next
        <5>1. m \in 1 .. Len(parts[p].offsets) /\ parts[p].next < m
          BY <1>3, <4>1, <4>2, <4>4
        <5>2. committable'[p] = parts[p].offsets[m] /\ committable'[p] \in Nat
          BY <1>3, <4>1, <4>2, <5>1
        <5>3. CASE parts[p].next = 0
          BY <4>1, <5>2, <5>3 DEF NoOffset
        <5>4. CASE parts[p].next # 0
          <6>1. parts[p].next \in 1 .. Len(parts[p].offsets)
            BY <4>1, <5>4
          <6> QED
            BY <4>1, <5>1, <5>2, <5>4, <6>1
        <5> QED
          BY <5>3, <5>4
      <4> QED
        BY <4>3, <4>4
    <3>2. \A i \in Positions : batch[i].partition \in Partitions /\ batch[i].offset \in Nat
      BY RecordFacts DEF IInv
    <3>3. Covered' = {i \in Positions : batch[i].offset <= committable'[batch[i].partition]}
      BY <1>1 DEF Covered
    <3>4. ASSUME NEW i \in Positions, batch[i].partition # p
          PROVE  i \notin new /\ (i \in Covered' <=> i \in Covered)
      BY <1>3, <3>2, <3>3, <3>4 DEF Covered, OfPartition
    <3>5. ASSUME NEW i \in Positions, batch[i].partition = p
          PROVE  /\ i \in Covered' <=> i \in Covered \/ i \in new
                 /\ ~(i \in Covered /\ i \in new)
      BY <3>1, <3>2, <3>3, <3>5 DEF Covered, OfPartition
    <3>6. new \subseteq Positions /\ Covered \subseteq Positions /\ Covered' \subseteq Positions
      BY <3>3 DEF Covered, OfPartition
    <3> HIDE DEF new
    <3> QED
      BY <3>4, <3>5, <3>6
  <2>3. IsFiniteSet(Covered)
    <3>1. IsFiniteSet(1 .. Len(batch)) /\ Covered \in SUBSET (1 .. Len(batch))
      BY FS_Interval DEF Covered, Positions, IInv, TypeInv
    <3> QED
      BY <3>1, FS_Subset
  <2> HIDE DEF new
  <2>4. Cardinality(Covered') = Cardinality(Covered) + Cardinality(new)
    <3>1. /\ Cardinality(Covered) \in Nat /\ Cardinality(new) \in Nat
          /\ Cardinality(Covered \cup new) =
               Cardinality(Covered) + Cardinality(new) - Cardinality(Covered \cap new)
      BY <2>1, <2>3, FS_Union, FS_CardinalityType
    <3>2. Cardinality(Covered \cap new) = 0
      BY <2>2, FS_EmptySet
    <3> QED
      BY <2>2, <3>1, <3>2
  <2> QED
    BY <1>3, <2>1, <2>4 DEF CountInv
<1> QED
  BY <1>2, <1>3, CollectAdvances

LEMMA CountStep == ASSUME IInv, IInv', CountInv, [Next]_vars PROVE CountInv'
<1>1. CASE Collect
  BY <1>1, CollectCounts
<1>2. CASE UNCHANGED <<batch, committable, count>>
  BY <1>2 DEF CountInv, Covered, Positions
<1>3. ASSUME NEW l, Lane(l) PROVE UNCHANGED <<batch, committable, count>>
  BY <1>3 DEF Lane, StartHandler, LaneReturns, HandlerSucceeds, HandlerFails
<1>4. Collect \/ UNCHANGED <<batch, committable, count>>
  BY <1>3 DEF Next, vars, TrackRecord, StartLanes, CancelParent, Return, Done
<1> QED
  BY <1>1, <1>2, <1>4

LEMMA CountInit == Init /\ BatchAssumption => CountInv
<1> SUFFICES ASSUME Init, BatchAssumption PROVE CountInv
  OBVIOUS
<1>1. TypeInv
  BY InitInv DEF IInv
<1>2. ASSUME NEW i \in Covered PROVE FALSE
  <2>1. batch[i].partition \in Partitions /\ batch[i].offset \in Nat /\ i \in Positions
    BY <1>1, RecordFacts DEF Covered
  <2> QED
    BY <2>1 DEF Covered, Init, NoOffset
<1>3. Covered = {}
  BY <1>2
<1> QED
  BY <1>3, FS_EmptySet DEF CountInv, Init

-----------------------------------------------------------------------------
(* When processBatch returns, no handler runs any more. *)
THEOREM LanesJoined == Spec => []NoHandlerOutlivesBatch
<1>1. IInv => NoHandlerOutlivesBatch
  <2> SUFFICES ASSUME IInv, pc = "returned", NEW i \in Positions PROVE status[i] # "running"
    BY DEF NoHandlerOutlivesBatch
  <2>1. batch[i].partition \in Partitions
    BY RecordFacts DEF IInv
  <2> QED
    BY <2>1, WhenReturned
<1> QED
  BY <1>1, Invariant, PTL

(* Records of one object are handled in the order of the poll, and none    *)
(* behind one that did not succeed.                                        *)
THEOREM PollOrder == Spec => []SameKeyInPollOrder
<1>1. IInv => SameKeyInPollOrder
  BY DEF IInv, LaneInv, SameKeyInPollOrder, LaneOf
<1> QED
  BY <1>1, Invariant, PTL

(* What processBatch offers for commit is the longest prefix of finished   *)
(* records of each partition: never more, and never less.                  *)
THEOREM PrefixCommitted == Spec => []CommitsLongestPrefix
<1>1. IInv => CommitsLongestPrefix
  <2> SUFFICES ASSUME IInv, pc = "returned", NEW p \in Partitions
               PROVE  LET safe == {i \in OfPartition(p) : FinishedThrough(p, i)}
                      IN  committable[p] =
                            IF safe = {} THEN NoOffset
                            ELSE batch[CHOOSE i \in safe : \A j \in safe : j <= i].offset
    BY DEF CommitsLongestPrefix
  <2> DEFINE safe == {i \in OfPartition(p) : FinishedThrough(p, i)}
             offs == parts[p].offsets
             n == parts[p].next
  <2>1. /\ Len(offs) \in Nat /\ n \in 0 .. Len(offs)
        /\ \A k \in 1 .. Len(offs) : offs[k] \in Nat
        /\ \A k \in 1 .. n : offs[k] \in MarkedOf(p)
        /\ committable[p] = IF n = 0 THEN NoOffset ELSE offs[n]
    BY Cursor
  <2>2. OfPartition(p) \subseteq 1 .. Len(batch) /\ Len(batch) \in Nat
    BY DEF OfPartition, Positions, IInv, TypeInv
  <2>3. \A j \in OfPartition(p) : batch[j].offset \in Nat
    BY RecordFacts DEF IInv, OfPartition
  <2>4. CASE trackError
    <3>1. MarkedOf(p) = {} /\ n = 0
      BY <2>1, <2>4, WhenReturned
    <3>2. ASSUME NEW i \in safe PROVE FALSE
      <4>1. status[i] = "ok" /\ i \in Positions
        BY <2>2, <3>2 DEF FinishedThrough, OfPartition
      <4> QED
        BY <2>4, <4>1 DEF IInv, PhaseInv
    <3> QED
      BY <2>1, <3>1, <3>2
  <2>5. CASE ~trackError
    <3>1. safe = {i \in OfPartition(p) : batch[i].offset <= committable[p]}
      BY <2>5, SafeIsBehindCursor
    <3>2. CASE n = 0
      <4>1. safe = {}
        BY <2>1, <2>3, <3>1, <3>2 DEF NoOffset
      <4> QED
        BY <2>1, <3>2, <4>1
    <3>3. CASE n # 0
      <4>1. n \in 1 .. Len(offs) /\ n \in 1 .. n /\ committable[p] = offs[n] /\ offs[n] \in Nat
        BY <2>1, <3>3
      <4>2. PICK m \in OfPartition(p) : batch[m].offset = offs[n]
        BY <2>1, <4>1, WhenReturned
      <4>3. m \in safe
        BY <2>3, <3>1, <4>1, <4>2
      <4>4. ASSUME NEW j \in safe PROVE j <= m
        <5>1. j \in OfPartition(p) /\ batch[j].offset <= batch[m].offset
          BY <3>1, <4>1, <4>2
        <5>2. tracked = Len(batch)
          BY <2>5, WhenReturned
        <5>3. ~(m < j)
          BY <2>2, <2>3, <5>1, <5>2 DEF IInv, OffsetsInv, OfPartition
        <5> QED
          BY <2>2, <5>1, <5>3
      <4> DEFINE c == CHOOSE i \in safe : \A j \in safe : j <= i
      <4>5. c \in safe /\ \A j \in safe : j <= c
        BY <4>3, <4>4
      <4>6. c = m
        <5>1. c <= m /\ m <= c /\ safe \subseteq 1 .. Len(batch)
          BY <2>2, <4>3, <4>4, <4>5
        <5> QED
          BY <2>2, <4>3, <4>5, <5>1
      <4> QED
        BY <4>1, <4>2, <4>3, <4>6
    <3> QED
      BY <3>2, <3>3
  <2> QED
    BY <2>4, <2>5
<1> QED
  BY <1>1, Invariant, PTL

(* Without an error and a cancellation, the whole batch is done and        *)
(* offered for commit.                                                     *)
THEOREM WholeBatch == Spec => []NilErrorMeansWholeBatch
<1>1. IInv => NilErrorMeansWholeBatch
  <2> SUFFICES ASSUME IInv, pc = "returned", ~trackError, ~Cancelled, NEW i \in Positions
               PROVE  status[i] = "ok" /\ batch[i].offset <= committable[batch[i].partition]
    BY DEF NilErrorMeansWholeBatch
  <2>1. ASSUME NEW j \in Positions PROVE status[j] = "ok"
    <3>1. LaneOf(batch[j]) \in exited
      BY DEF IInv, PhaseInv, Lanes
    <3>2. status[j] \notin {"pending", "running", "failed"}
      BY <3>1 DEF IInv, LaneInv, Cancelled
    <3> QED
      BY <3>2 DEF IInv, TypeInv
  <2>2. batch[i].partition \in Partitions
    BY RecordFacts DEF IInv
  <2>3. i \in OfPartition(batch[i].partition) /\ FinishedThrough(batch[i].partition, i)
    BY <2>1 DEF OfPartition, FinishedThrough
  <2> QED
    BY <2>1, <2>2, <2>3, SafeIsBehindCursor
<1> QED
  BY <1>1, Invariant, PTL

(* The number reported to the progress observer is the number of records   *)
(* the offsets returned for the commit cover.                              *)
THEOREM CountCorrect == Spec => []CountsCommittedRecords
<1>1. Init => CountInv
  BY CountInit, BatchAssumption
<1>2. IInv /\ IInv' /\ CountInv /\ [Next]_vars => CountInv'
  BY CountStep
<1>3. CountInv => CountsCommittedRecords
  BY DEF CountInv, Covered, CountsCommittedRecords
<1> QED
  BY <1>1, <1>2, <1>3, Invariant, PTL DEF Spec
=============================================================================
