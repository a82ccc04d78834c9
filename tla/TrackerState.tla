--------------------------- MODULE TrackerState ---------------------------
(***************************************************************************)
(* The state one poll batch keeps for a partition, and the two operations  *)
(* on it (internal/adapter/kafka/partition_completion_tracker.go).  A      *)
(* batch registers its records in poll order and turns completions that    *)
(* arrive in any order into the longest completed prefix, which is all     *)
(* that may be committed.  Offsets need not be contiguous: the prefix is   *)
(* taken along the records that were really polled.                        *)
(***************************************************************************)
EXTENDS Integers, Sequences, FiniteSets

CONSTANTS Partitions,   \* the topic partitions of a batch
          Offsets       \* the record offsets that may appear in a partition

ASSUME OffsetsAssumption == Offsets \subseteq Nat

-----------------------------------------------------------------------------
(* The state of one partition.  The map "index" of the code is the set     *)
(* Tracked(st); a partition that no record named yet is in NewState.       *)

StateType ==
  [offsets : Seq(Offsets), completed : SUBSET Offsets, next : Nat]

NewState == [offsets |-> << >>, completed |-> {}, next |-> 0]

Tracked(st) == {st.offsets[i] : i \in 1..Len(st.offsets)}

(* Mutant of CanTrack: the check of the order is missing. *)
CanTrackAnyOrder(st, o) == o \notin Tracked(st)

(* Track refuses an offset it has seen and one below the last it took. *)
CanTrack(st, o) ==
  /\ o \notin Tracked(st)
  /\ st.offsets # << >> => o >= st.offsets[Len(st.offsets)]

TrackOffset(st, o) ==
  [offsets   |-> Append(st.offsets, o),
   completed |-> st.completed,
   next      |-> st.next]

(* Where the loop of MarkCompleted stops: n records are done and the next  *)
(* one, if there is one, is not.                                           *)
StopsAt(st, done, n) ==
  /\ n \in st.next .. Len(st.offsets)
  /\ \A i \in (st.next + 1) .. n : st.offsets[i] \in done
  /\ n < Len(st.offsets) => st.offsets[n + 1] \notin done

(* Mutants of AdvancedNext: "if" for "for", and gaps in the prefix ignored. *)
AdvancedNextOneStep(st, done) ==
  IF st.next < Len(st.offsets) /\ st.offsets[st.next + 1] \in done
  THEN st.next + 1
  ELSE st.next

AdvancedNextPastGaps(st, done) ==
  CHOOSE n \in st.next .. Len(st.offsets) :
    /\ n > st.next => st.offsets[n] \in done
    /\ \A i \in (n + 1) .. Len(st.offsets) : st.offsets[i] \notin done

AdvancedNext(st, done) ==
  CHOOSE n \in st.next .. Len(st.offsets) : StopsAt(st, done, n)

MarkOffset(st, o) ==
  LET done == st.completed \cup {o}
      n    == AdvancedNext(st, done)
  IN  [offsets   |-> st.offsets,
       completed |-> done \ {st.offsets[i] : i \in (st.next + 1) .. n},
       next      |-> n]

AdvancedCount(st, o) == MarkOffset(st, o).next - st.next

(* The offset MarkCompleted returns; zero when nothing advanced. *)
CompletedOffset(st, o) ==
  IF AdvancedCount(st, o) = 0
  THEN 0
  ELSE st.offsets[MarkOffset(st, o).next]
=============================================================================
