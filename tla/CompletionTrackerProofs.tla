---------------------- MODULE CompletionTrackerProofs ----------------------
(***************************************************************************)
(* Proofs about the completion tracker, for every set of partitions and    *)
(* every set of offsets.                                                   *)
(***************************************************************************)
EXTENDS CompletionTracker, WellFoundedInduction, TLAPS

(* A non-empty set of naturals has a least element. *)
LEMMA LeastNatural ==
  ASSUME NEW S \in SUBSET Nat, S # {}
  PROVE  \E n \in S : \A m \in S : n <= m
<1> DEFINE Below == {ss \in Nat \X Nat : ss[1] < ss[2]}
<1>1. IsWellFoundedOn(Below, Nat)
  BY NatLessThanWellFounded, Zenon DEF OpToRel
<1>. HIDE DEF Below
<1>2. PICK n \in S : \A m \in S : <<m, n>> \notin Below
  BY <1>1, WFMin, Zenon
<1>3. \A m \in S : ~(m < n)
  BY <1>2 DEF Below
<1>. QED
  BY <1>3

-----------------------------------------------------------------------------
(* Lemmas about the operators. *)

(* The loop of MarkCompleted has exactly one place to stop, whatever set   *)
(* of offsets is done: AdvancedNext is well defined.                       *)
LEMMA AdvancedNextStops ==
  ASSUME NEW st \in StateType, st.next <= Len(st.offsets), NEW done
  PROVE  StopsAt(st, done, AdvancedNext(st, done))
<1> DEFINE Stop == {n \in st.next .. Len(st.offsets) :
                      n < Len(st.offsets) => st.offsets[n + 1] \notin done}
<1>1. /\ st.next \in Nat
      /\ Len(st.offsets) \in Nat
  BY DEF StateType
<1>2. Stop \in SUBSET Nat /\ Len(st.offsets) \in Stop
  BY <1>1
<1>3. PICK n \in Stop : \A m \in Stop : n <= m
  BY <1>2, LeastNatural
<1>4. ASSUME NEW i \in (st.next + 1) .. n, st.offsets[i] \notin done
      PROVE  FALSE
  <2>1. i - 1 \in Stop
    BY <1>1, <1>3, <1>4
  <2>. QED
    BY <1>1, <1>3, <2>1
<1>5. StopsAt(st, done, n)
  BY <1>3, <1>4 DEF StopsAt
<1>6. n \in st.next .. Len(st.offsets)
  BY <1>3
<1>. HIDE DEF Stop
<1>. QED
  BY <1>5, <1>6 DEF AdvancedNext

(* Appending keeps what was tracked and adds the new offset. *)
LEMMA TrackOffsetFacts ==
  ASSUME NEW st \in StateType, NEW o \in Offsets
  PROVE  LET t == TrackOffset(st, o)
         IN  /\ t \in StateType
             /\ t.next = st.next
             /\ t.completed = st.completed
             /\ Len(t.offsets) = Len(st.offsets) + 1
             /\ \A i \in 1 .. Len(st.offsets) : t.offsets[i] = st.offsets[i]
             /\ t.offsets[Len(st.offsets) + 1] = o
             /\ Tracked(t) = Tracked(st) \cup {o}
<1> DEFINE t == TrackOffset(st, o)
<1>1. t \in StateType /\ t.next = st.next /\ t.completed = st.completed
      /\ t.offsets = Append(st.offsets, o)
  BY DEF TrackOffset, StateType
<1>2. /\ Len(t.offsets) = Len(st.offsets) + 1
      /\ \A i \in 1 .. Len(st.offsets) : t.offsets[i] = st.offsets[i]
      /\ t.offsets[Len(st.offsets) + 1] = o
      /\ Len(st.offsets) \in Nat
  BY <1>1 DEF StateType
<1>3. Tracked(t) = Tracked(st) \cup {o}
  <2>1. 1 .. Len(t.offsets) = (1 .. Len(st.offsets)) \cup {Len(st.offsets) + 1}
    BY <1>2
  <2>. QED
    BY <1>2, <2>1 DEF Tracked
<1>. QED
  BY <1>1, <1>2, <1>3

(* Marking moves the cursor to the end of the finished prefix, forgets the *)
(* offsets it passed and leaves the tracked offsets alone.                 *)
LEMMA MarkOffsetFacts ==
  ASSUME NEW st \in StateType, st.next <= Len(st.offsets),
         NEW o \in Offsets
  PROVE  LET t == MarkOffset(st, o)
             done == st.completed \cup {o}
         IN  /\ t \in StateType
             /\ t.offsets = st.offsets
             /\ StopsAt(st, done, t.next)
             /\ t.completed
                  = done \ {st.offsets[i] : i \in (st.next + 1) .. t.next}
<1> DEFINE done == st.completed \cup {o}
<1>1. StopsAt(st, done, AdvancedNext(st, done))
  BY AdvancedNextStops
<1>2. AdvancedNext(st, done) \in Nat
  BY <1>1 DEF StopsAt, StateType
<1>. QED
  BY <1>1, <1>2 DEF MarkOffset, StateType

-----------------------------------------------------------------------------
(* The inductive invariant, one partition at a time.  The longest-prefix   *)
(* property alone is not inductive: the loop reads "completed", so it must *)
(* be known to agree with the history beyond the cursor, and every offset  *)
(* handed out must be the offset of a record behind the cursor.            *)

WellTyped(st, m, r) ==
  /\ st \in StateType
  /\ st.next <= Len(st.offsets)
  /\ m \in SUBSET Tracked(st)
  /\ r \in Seq(Offsets)

Ascending(st) ==
  \A i, j \in 1 .. Len(st.offsets) : i < j => st.offsets[i] < st.offsets[j]

LongestPrefix(st, m) ==
  /\ \A i \in 1 .. st.next : st.offsets[i] \in m
  /\ st.next < Len(st.offsets) => st.offsets[st.next + 1] \notin m

CompletedAgrees(st, m) ==
  /\ st.completed \subseteq m
  /\ \A i \in (st.next + 1) .. Len(st.offsets) :
       st.offsets[i] \in m => st.offsets[i] \in st.completed

ReturnedBehindCursor(st, r) ==
  \A k \in 1 .. Len(r) : \E i \in 1 .. st.next : st.offsets[i] = r[k]

Increasing(r) == \A i, j \in 1 .. Len(r) : i < j => r[i] < r[j]

PartitionInv(st, m, r) ==
  /\ WellTyped(st, m, r)
  /\ Ascending(st)
  /\ LongestPrefix(st, m)
  /\ CompletedAgrees(st, m)
  /\ ReturnedBehindCursor(st, r)
  /\ Increasing(r)

IInv ==
  /\ parts \in [Partitions -> StateType]
  /\ marked \in [Partitions -> SUBSET Offsets]
  /\ returned \in [Partitions -> Seq(Offsets)]
  /\ \A p \in Partitions : PartitionInv(parts[p], marked[p], returned[p])

(* Element i of a well-typed partition is an offset, hence a natural. *)
LEMMA OffsetIsNatural ==
  ASSUME NEW st \in StateType
  PROVE  /\ Len(st.offsets) \in Nat
         /\ st.next \in Nat
         /\ \A i \in 1 .. Len(st.offsets) : /\ st.offsets[i] \in Offsets
                                           /\ st.offsets[i] \in Nat
<1>1. st.offsets \in Seq(Offsets) /\ st.next \in Nat
  BY DEF StateType
<1>2. \A i \in 1 .. Len(st.offsets) : st.offsets[i] \in Offsets
  BY <1>1
<1>3. \A o \in Offsets : o \in Nat
  BY OffsetsAssumption
<1>4. Len(st.offsets) \in Nat
  BY <1>1
<1>. QED
  BY <1>1, <1>2, <1>3, <1>4

(* Tracking a record keeps the invariant: the new offset is above all the  *)
(* others and was never marked, so the cursor still stops where it did.    *)
LEMMA TrackKeepsPartitionInv ==
  ASSUME NEW st, NEW m, NEW r, PartitionInv(st, m, r),
         NEW o \in Offsets, CanTrack(st, o)
  PROVE  PartitionInv(TrackOffset(st, o), m, r)
<1> DEFINE t == TrackOffset(st, o)
<1>1. st \in StateType /\ st.next <= Len(st.offsets) /\ m \in SUBSET Tracked(st)
      /\ r \in Seq(Offsets)
  BY DEF PartitionInv, WellTyped
<1>2. /\ t \in StateType
      /\ t.next = st.next
      /\ t.completed = st.completed
      /\ Len(t.offsets) = Len(st.offsets) + 1
      /\ \A i \in 1 .. Len(st.offsets) : t.offsets[i] = st.offsets[i]
      /\ t.offsets[Len(st.offsets) + 1] = o
      /\ Tracked(t) = Tracked(st) \cup {o}
  BY <1>1, TrackOffsetFacts
<1>. HIDE DEF t
<1>3. /\ Len(st.offsets) \in Nat
      /\ st.next \in Nat
      /\ \A i \in 1 .. Len(st.offsets) : st.offsets[i] \in Nat
  BY <1>1, OffsetIsNatural
<1>4. o \notin m /\ o \notin st.completed /\ o \in Nat
  BY <1>1, OffsetsAssumption DEF CanTrack, PartitionInv, CompletedAgrees
<1>5. \A i \in 1 .. Len(st.offsets) : st.offsets[i] < o
  <2>1. SUFFICES ASSUME NEW i \in 1 .. Len(st.offsets)
                 PROVE  st.offsets[i] < o
    OBVIOUS
  <2>2. Len(st.offsets) \in 1 .. Len(st.offsets) /\ st.offsets # << >>
    BY <1>1, <1>3
  <2>3. st.offsets[Len(st.offsets)] <= o
    BY <1>3, <1>4, <2>2 DEF CanTrack
  <2>4. st.offsets[i] # o
    BY DEF CanTrack, Tracked
  <2>5. st.offsets[i] <= st.offsets[Len(st.offsets)]
    BY <1>3, <2>2 DEF PartitionInv, Ascending
  <2>. QED
    BY <1>3, <1>4, <2>2, <2>3, <2>4, <2>5
<1>6. WellTyped(t, m, r)
  BY <1>1, <1>2, <1>3 DEF WellTyped
<1>7. Ascending(t)
  <2>1. SUFFICES ASSUME NEW i \in 1 .. Len(t.offsets), NEW j \in 1 .. Len(t.offsets),
                        i < j
                 PROVE  t.offsets[i] < t.offsets[j]
    BY DEF Ascending
  <2>2. i \in 1 .. Len(st.offsets) /\ t.offsets[i] = st.offsets[i]
    BY <1>2, <1>3, <2>1
  <2>3. CASE j \in 1 .. Len(st.offsets)
    BY <1>2, <2>1, <2>2, <2>3 DEF Ascending, PartitionInv
  <2>4. CASE j = Len(st.offsets) + 1
    BY <1>2, <1>5, <2>2, <2>4
  <2>. QED
    BY <1>2, <1>3, <2>1, <2>3, <2>4
<1>8. LongestPrefix(t, m)
  <2>1. \A i \in 1 .. st.next : i \in 1 .. Len(st.offsets)
    BY <1>1, <1>3
  <2>2. \A i \in 1 .. t.next : t.offsets[i] \in m
    BY <1>2, <2>1 DEF LongestPrefix, PartitionInv
  <2>3. CASE st.next < Len(st.offsets)
    <3>1. st.next + 1 \in 1 .. Len(st.offsets)
      BY <1>3, <2>3
    <3>. QED
      BY <1>2, <2>2, <2>3, <3>1 DEF LongestPrefix, PartitionInv
  <2>4. CASE st.next = Len(st.offsets)
    BY <1>2, <1>4, <2>2, <2>4 DEF LongestPrefix
  <2>. QED
    BY <1>1, <1>3, <2>3, <2>4
<1>9. CompletedAgrees(t, m)
  <2>1. SUFFICES ASSUME NEW i \in (t.next + 1) .. Len(t.offsets), t.offsets[i] \in m
                 PROVE  t.offsets[i] \in t.completed
    BY <1>2 DEF CompletedAgrees, PartitionInv
  <2>2. i \in (st.next + 1) .. Len(st.offsets)
    BY <1>2, <1>3, <1>4, <2>1
  <2>3. i \in 1 .. Len(st.offsets)
    BY <1>3, <2>2
  <2>. QED
    BY <1>2, <2>1, <2>2, <2>3 DEF CompletedAgrees, PartitionInv
<1>10. ReturnedBehindCursor(t, r)
  BY <1>1, <1>2, <1>3 DEF ReturnedBehindCursor, PartitionInv
<1>. QED
  BY <1>6, <1>7, <1>8, <1>9, <1>10 DEF PartitionInv, t

(* Marking a record keeps the invariant: the cursor moves exactly over the *)
(* records that are done, and the offset returned is the last of them.     *)
LEMMA MarkKeepsPartitionInv ==
  ASSUME NEW st, NEW m, NEW r, PartitionInv(st, m, r),
         NEW o \in Tracked(st)
  PROVE  PartitionInv(MarkOffset(st, o), m \cup {o},
                      IF AdvancedCount(st, o) = 0
                      THEN r
                      ELSE Append(r, CompletedOffset(st, o)))
<1> DEFINE t    == MarkOffset(st, o)
           done == st.completed \cup {o}
           n    == t.next
           k    == Len(st.offsets)
           mm   == m \cup {o}
           rr   == IF n - st.next = 0 THEN r ELSE Append(r, st.offsets[n])
<1>1. st \in StateType /\ st.next <= k /\ m \in SUBSET Tracked(st)
      /\ r \in Seq(Offsets)
  BY DEF PartitionInv, WellTyped
<1>2. /\ k \in Nat
      /\ st.next \in Nat
      /\ \A i \in 1 .. k : st.offsets[i] \in Offsets /\ st.offsets[i] \in Nat
  BY <1>1, OffsetIsNatural
<1>3. o \in Offsets
  BY <1>2 DEF Tracked
<1>4. /\ t \in StateType
      /\ t.offsets = st.offsets
      /\ StopsAt(st, done, n)
      /\ t.completed = done \ {st.offsets[i] : i \in (st.next + 1) .. n}
  BY <1>1, <1>3, MarkOffsetFacts
<1>5. rr = IF AdvancedCount(st, o) = 0 THEN r ELSE Append(r, CompletedOffset(st, o))
  BY DEF AdvancedCount, CompletedOffset
<1>. HIDE DEF t, n
<1>6. /\ n \in Nat
      /\ st.next <= n
      /\ n <= k
      /\ \A i \in (st.next + 1) .. n : st.offsets[i] \in done
      /\ n < k => st.offsets[n + 1] \notin done
  BY <1>2, <1>4 DEF StopsAt
<1>7. t.next = n
  BY DEF n
<1>8. done \subseteq mm
  BY DEF PartitionInv, CompletedAgrees
<1>9. \A i, j \in 1 .. k : i < j => st.offsets[i] < st.offsets[j]
  BY DEF PartitionInv, Ascending
<1>10. \A i \in 1 .. st.next : st.offsets[i] \in m
  BY DEF PartitionInv, LongestPrefix
<1>11. \A i \in (st.next + 1) .. k : st.offsets[i] \in mm => st.offsets[i] \in done
  BY DEF PartitionInv, CompletedAgrees
<1>12. Ascending(t)
  BY <1>4, <1>9 DEF Ascending
<1>13. LongestPrefix(t, mm)
  <2>1. ASSUME NEW i \in 1 .. n
        PROVE  st.offsets[i] \in mm
    <3>1. CASE i \in 1 .. st.next
      BY <1>10, <3>1
    <3>2. CASE i \in (st.next + 1) .. n
      BY <1>6, <1>8, <3>2
    <3>. QED
      BY <1>2, <1>6, <3>1, <3>2
  <2>2. ASSUME n < k, st.offsets[n + 1] \in mm
        PROVE  FALSE
    <3>1. n + 1 \in (st.next + 1) .. k
      BY <1>2, <1>6, <2>2
    <3>. QED
      BY <1>6, <1>11, <2>2, <3>1
  <2>. QED
    BY <1>4, <1>7, <2>1, <2>2 DEF LongestPrefix
<1>14. CompletedAgrees(t, mm)
  <2>1. t.completed \subseteq mm
    BY <1>4, <1>8
  <2>2. ASSUME NEW i \in (n + 1) .. k, st.offsets[i] \in mm
        PROVE  st.offsets[i] \in t.completed
    <3>1. i \in (st.next + 1) .. k /\ i \in 1 .. k
      BY <1>2, <1>6
    <3>2. st.offsets[i] \in done
      BY <1>11, <2>2, <3>1
    <3>3. ASSUME NEW j \in (st.next + 1) .. n
          PROVE  st.offsets[i] # st.offsets[j]
      <4>1. j \in 1 .. k /\ j < i
        BY <1>2, <1>6
      <4>. QED
        BY <1>2, <1>9, <3>1, <4>1
    <3>. QED
      BY <1>4, <3>2, <3>3
  <2>. QED
    BY <1>4, <1>7, <2>1, <2>2 DEF CompletedAgrees
<1>15. CASE n = st.next
  <2>1. rr = r
    BY <1>2, <1>15
  <2>2. WellTyped(t, mm, r)
    BY <1>1, <1>4, <1>6, <1>7 DEF WellTyped, Tracked
  <2>3. ReturnedBehindCursor(t, r) /\ Increasing(r)
    BY <1>4, <1>7, <1>15 DEF PartitionInv, ReturnedBehindCursor
  <2>. QED
    BY <1>5, <1>12, <1>13, <1>14, <2>1, <2>2, <2>3 DEF PartitionInv, t
<1>16. CASE n # st.next
  <2>1. n \in 1 .. k /\ st.next < n
    BY <1>2, <1>6, <1>16
  <2>2. rr = Append(r, st.offsets[n])
    BY <1>2, <1>6, <1>16
  <2>3. /\ rr \in Seq(Offsets)
        /\ Len(rr) = Len(r) + 1
        /\ Len(r) \in Nat
        /\ \A i \in 1 .. Len(r) : rr[i] = r[i]
        /\ rr[Len(r) + 1] = st.offsets[n]
    BY <1>1, <1>2, <2>1, <2>2
  <2>. HIDE DEF rr
  <2>4. WellTyped(t, mm, rr)
    BY <1>1, <1>4, <1>6, <1>7, <2>3 DEF WellTyped, Tracked
  <2>5. ASSUME NEW i \in 1 .. Len(r)
        PROVE  \E j \in 1 .. st.next : st.offsets[j] = r[i]
    BY DEF PartitionInv, ReturnedBehindCursor
  <2>6. ReturnedBehindCursor(t, rr)
    <3>1. SUFFICES ASSUME NEW i \in 1 .. Len(rr)
                   PROVE  \E j \in 1 .. n : st.offsets[j] = rr[i]
      BY <1>4, <1>7 DEF ReturnedBehindCursor
    <3>2. CASE i \in 1 .. Len(r)
      <4>1. PICK j \in 1 .. st.next : st.offsets[j] = r[i]
        BY <2>5, <3>2
      <4>2. j \in 1 .. n
        BY <1>2, <1>6
      <4>. QED
        BY <2>3, <3>2, <4>1, <4>2
    <3>3. CASE i = Len(r) + 1
      <4>1. n \in 1 .. n
        BY <1>2, <2>1
      <4>. QED
        BY <2>3, <3>3, <4>1
    <3>. QED
      BY <2>3, <3>2, <3>3
  <2>7. Increasing(rr)
    <3>1. SUFFICES ASSUME NEW i \in 1 .. Len(rr), NEW j \in 1 .. Len(rr), i < j
                   PROVE  rr[i] < rr[j]
      BY DEF Increasing
    <3>2. i \in 1 .. Len(r)
      BY <2>3, <3>1
    <3>3. CASE j \in 1 .. Len(r)
      BY <2>3, <3>1, <3>2, <3>3 DEF PartitionInv, Increasing
    <3>4. CASE j = Len(r) + 1
      <4>1. PICK h \in 1 .. st.next : st.offsets[h] = r[i]
        BY <2>5, <3>2
      <4>2. h \in 1 .. k /\ h < n
        BY <1>1, <1>2, <2>1
      <4>. QED
        BY <1>9, <2>1, <2>3, <3>2, <3>4, <4>1, <4>2
    <3>. QED
      BY <2>3, <3>3, <3>4
  <2>. QED
    BY <1>5, <1>12, <1>13, <1>14, <2>4, <2>6, <2>7 DEF PartitionInv, t
<1>. QED
  BY <1>15, <1>16

-----------------------------------------------------------------------------
(* An empty tracker satisfies the invariant. *)
LEMMA InitIInv == Init => IInv
<1> SUFFICES ASSUME Init PROVE IInv
  OBVIOUS
<1>1. NewState \in StateType /\ Len(NewState.offsets) = 0 /\ NewState.next = 0
      /\ NewState.completed = {}
  BY DEF NewState, StateType
<1>2. PartitionInv(NewState, {}, << >>)
  BY <1>1 DEF PartitionInv, WellTyped, Ascending, LongestPrefix,
              CompletedAgrees, ReturnedBehindCursor, Increasing
<1>. QED
  BY <1>1, <1>2 DEF Init, IInv

(* Track, MarkCompleted and their rejected calls keep the invariant. *)
LEMMA NextIInv == IInv /\ [Next]_vars => IInv'
<1> SUFFICES ASSUME IInv, [Next]_vars PROVE IInv'
  OBVIOUS
<1>1. CASE UNCHANGED vars
  BY <1>1 DEF IInv, vars
<1>2. ASSUME NEW p \in Partitions, NEW o \in Offsets, Track(p, o)
      PROVE  IInv'
  <2> DEFINE t == TrackOffset(parts[p], o)
  <2>1. PartitionInv(t, marked[p], returned[p])
    BY <1>2, TrackKeepsPartitionInv DEF IInv, Track
  <2>2. t \in StateType
    BY <2>1 DEF PartitionInv, WellTyped
  <2>3. /\ parts' = [parts EXCEPT ![p] = t]
        /\ marked' = marked
        /\ returned' = returned
    BY <1>2 DEF Track
  <2>. HIDE DEF t
  <2>. QED
    BY <2>1, <2>2, <2>3 DEF IInv
<1>3. ASSUME NEW p \in Partitions, NEW o \in Offsets, MarkCompleted(p, o)
      PROVE  IInv'
  <2> DEFINE t  == MarkOffset(parts[p], o)
             mm == marked[p] \cup {o}
             rr == IF AdvancedCount(parts[p], o) = 0
                   THEN returned[p]
                   ELSE Append(returned[p], CompletedOffset(parts[p], o))
  <2>1. PartitionInv(t, mm, rr)
    BY <1>3, MarkKeepsPartitionInv DEF IInv, MarkCompleted
  <2>2. t \in StateType /\ rr \in Seq(Offsets)
    BY <2>1 DEF PartitionInv, WellTyped
  <2>3. mm \in SUBSET Offsets
    BY <1>3 DEF IInv
  <2>4. /\ parts' = [parts EXCEPT ![p] = t]
        /\ marked' = [marked EXCEPT ![p] = mm]
        /\ returned' = [returned EXCEPT ![p] = rr]
    <3>1. returned = [returned EXCEPT ![p] = returned[p]]
      BY DEF IInv
    <3>. QED
      BY <1>3, <3>1 DEF MarkCompleted
  <2>. HIDE DEF t, mm, rr
  <2>. QED
    BY <2>1, <2>2, <2>3, <2>4 DEF IInv
<1>. QED
  BY <1>1, <1>2, <1>3 DEF Next, TrackRejected, MarkRejected

(* Hence the invariant holds after every sequence of calls. *)
LEMMA InvariantHolds == Spec => []IInv
<1>. QED
  BY InitIInv, NextIInv, PTL DEF Spec

(* The invariant gives the four properties of the component. *)
LEMMA IInvImplies ==
  IInv => /\ TypeOK
          /\ AscendingOffsets
          /\ CursorIsLongestPrefix
          /\ ReturnedNeverPassesUnfinished
          /\ ReturnedIncreases
<1> SUFFICES ASSUME IInv
             PROVE  /\ TypeOK
                    /\ AscendingOffsets
                    /\ CursorIsLongestPrefix
                    /\ ReturnedNeverPassesUnfinished
                    /\ ReturnedIncreases
  OBVIOUS
<1>1. TypeOK
  BY DEF IInv, PartitionInv, WellTyped, TypeOK
<1>2. AscendingOffsets
  BY DEF IInv, PartitionInv, Ascending, AscendingOffsets
<1>3. CursorIsLongestPrefix
  BY DEF IInv, PartitionInv, LongestPrefix, CursorIsLongestPrefix
<1>4. ReturnedIncreases
  BY DEF IInv, PartitionInv, Increasing, ReturnedIncreases
<1>5. ReturnedNeverPassesUnfinished
  <2>1. SUFFICES ASSUME NEW p \in Partitions, NEW k \in 1 .. Len(returned[p]),
                        NEW o \in Tracked(parts[p]), o <= returned[p][k]
                 PROVE  o \in marked[p]
    BY DEF ReturnedNeverPassesUnfinished
  <2> DEFINE st == parts[p]
  <2>2. st \in StateType /\ st.next <= Len(st.offsets)
    BY DEF IInv, PartitionInv, WellTyped
  <2>3. /\ Len(st.offsets) \in Nat
        /\ st.next \in Nat
        /\ \A i \in 1 .. Len(st.offsets) : st.offsets[i] \in Nat
    BY <2>2, OffsetIsNatural
  <2>4. PICK i \in 1 .. Len(st.offsets) : st.offsets[i] = o
    BY DEF Tracked
  <2>5. PICK j \in 1 .. st.next : st.offsets[j] = returned[p][k]
    BY DEF IInv, PartitionInv, ReturnedBehindCursor
  <2>6. i <= j
    <3>1. SUFFICES ASSUME j < i PROVE FALSE
      BY <2>3
    <3>2. j \in 1 .. Len(st.offsets)
      BY <2>2, <2>3
    <3>3. st.offsets[j] < st.offsets[i]
      BY <3>1, <3>2 DEF IInv, PartitionInv, Ascending
    <3>. QED
      BY <2>1, <2>3, <2>4, <2>5, <3>2, <3>3
  <2>7. i \in 1 .. st.next
    BY <2>3, <2>6
  <2>. QED
    BY <2>4, <2>7 DEF IInv, PartitionInv, LongestPrefix
<1>. QED
  BY <1>1, <1>2, <1>3, <1>4, <1>5

(* Every call sequence keeps the tracker well typed.                       *)
THEOREM TypeCorrect == Spec => []TypeOK
<1>. QED
  BY InvariantHolds, IInvImplies, PTL

(* MarkCompleted leaves the cursor at the longest completed prefix of what *)
(* Track registered, for any number of records and any completion order.   *)
THEOREM LongestPrefixCorrect == Spec => []CursorIsLongestPrefix
<1>. QED
  BY InvariantHolds, IInvImplies, PTL

(* No offset MarkCompleted ever returns lets a commit pass a record that   *)
(* was polled and has not completed.                                       *)
THEOREM CommitSafety == Spec => []ReturnedNeverPassesUnfinished
<1>. QED
  BY InvariantHolds, IInvImplies, PTL

(* The offsets MarkCompleted returns for a partition strictly increase.    *)
THEOREM ReturnedInOrder == Spec => []ReturnedIncreases
<1>. QED
  BY InvariantHolds, IInvImplies, PTL
=============================================================================
