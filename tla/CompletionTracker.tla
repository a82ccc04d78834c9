------------------------- MODULE CompletionTracker -------------------------
(***************************************************************************)
(* The completion tracker driven by every sequence of Track and            *)
(* MarkCompleted calls, legal or refused.                                  *)
(***************************************************************************)
EXTENDS TrackerState

VARIABLES
  parts,     \* the tracked state of each partition
  marked,    \* history: the offsets whose completion was accepted
  returned   \* history: for each partition, the offsets returned as committable

vars == <<parts, marked, returned>>

Init ==
  /\ parts = [p \in Partitions |-> NewState]
  /\ marked = [p \in Partitions |-> {}]
  /\ returned = [p \in Partitions |-> << >>]

Track(p, o) ==
  /\ CanTrack(parts[p], o)
  /\ parts' = [parts EXCEPT ![p] = TrackOffset(@, o)]
  /\ UNCHANGED <<marked, returned>>

(* The error returns of Track change nothing. *)
TrackRejected(p, o) ==
  /\ ~CanTrack(parts[p], o)
  /\ UNCHANGED vars

MarkCompleted(p, o) ==
  /\ o \in Tracked(parts[p])
  /\ parts' = [parts EXCEPT ![p] = MarkOffset(@, o)]
  /\ marked' = [marked EXCEPT ![p] = @ \cup {o}]
  /\ returned' = IF AdvancedCount(parts[p], o) = 0
                 THEN returned
                 ELSE [returned EXCEPT ![p] = Append(@, CompletedOffset(parts[p], o))]

(* ErrOffsetNotTracked changes nothing. *)
MarkRejected(p, o) ==
  /\ o \notin Tracked(parts[p])
  /\ UNCHANGED vars

Next ==
  \E p \in Partitions, o \in Offsets :
    \/ Track(p, o)
    \/ TrackRejected(p, o)
    \/ MarkCompleted(p, o)
    \/ MarkRejected(p, o)

Spec == Init /\ [][Next]_vars

-----------------------------------------------------------------------------
(* Type invariant: every partition state is well formed and the marked     *)
(* offsets were tracked before they were marked.                           *)
TypeOK ==
  /\ parts \in [Partitions -> StateType]
  /\ marked \in [Partitions -> SUBSET Offsets]
  /\ returned \in [Partitions -> Seq(Offsets)]
  /\ \A p \in Partitions : /\ parts[p].next <= Len(parts[p].offsets)
                           /\ marked[p] \subseteq Tracked(parts[p])

(* Offsets are kept in the strictly ascending order of the log, so that    *)
(* "prefix in poll order" and "every smaller offset" mean the same thing.  *)
AscendingOffsets ==
  \A p \in Partitions : \A i, j \in 1 .. Len(parts[p].offsets) :
    i < j => parts[p].offsets[i] < parts[p].offsets[j]

(* The cursor is the longest completed prefix of what was tracked, in      *)
(* whatever order completions came in: never beyond an unfinished record,  *)
(* and never short of a finished one it could pass.                        *)
CursorIsLongestPrefix ==
  \A p \in Partitions :
    LET st == parts[p]
    IN  /\ \A i \in 1 .. st.next : st.offsets[i] \in marked[p]
        /\ st.next < Len(st.offsets) => st.offsets[st.next + 1] \notin marked[p]

(* An offset returned as committable never passes a tracked record that    *)
(* has not completed, even after more records are tracked behind it.       *)
ReturnedNeverPassesUnfinished ==
  \A p \in Partitions : \A k \in 1 .. Len(returned[p]) :
    \A o \in Tracked(parts[p]) : o <= returned[p][k] => o \in marked[p]

(* Committable offsets are handed out in strictly increasing order, so the *)
(* last one the runner keeps for a partition is also the highest.          *)
ReturnedIncreases ==
  \A p \in Partitions : \A i, j \in 1 .. Len(returned[p]) :
    i < j => returned[p][i] < returned[p][j]
=============================================================================
