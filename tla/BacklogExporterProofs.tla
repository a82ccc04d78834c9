----------------------- MODULE BacklogExporterProofs -----------------------
(***************************************************************************)
(* For any number of partitions, records and failures: a snapshot never    *)
(* shows less than the true lag when the ends were read, nor more than the *)
(* true lag when the commits were read with what was produced since.       *)
(***************************************************************************)
EXTENDS BacklogExporter, TLAPS

(* The group never commits beyond the end of the log. *)
LogInv ==
  /\ created \subseteq Partitions
  /\ logStart \in [Partitions -> Nat] /\ logEnd \in [Partitions -> Nat]
  /\ committed \in [Partitions -> Int]
  /\ \A p \in Partitions : logStart[p] <= logEnd[p] /\ committed[p] <= logEnd[p]

(* What would have been read next when the commits were read, which behind *)
(* keeps, is the commit that was read, or else a start of the log no later *)
(* than the given one.                                                     *)
Anchored(p, start) ==
  /\ p \in Partitions
  /\ commits[p] \in Int /\ behind[p] \in Int
  /\ commits[p] <= committed[p] /\ commits[p] <= logEnd[p]
  /\ \/ behind[p] = 0 - commits[p]
     \/ commits[p] < 0 - behind[p] /\ 0 - behind[p] <= start

CommitsInv == pc = "starts" => \A p \in DOMAIN commits : Anchored(p, logStart[p])

StartsInv ==
  pc = "ends" =>
    \A p \in DOMAIN starts \cap DOMAIN commits :
      starts[p] \in Nat /\ starts[p] <= logStart[p] /\ Anchored(p, starts[p])

IInv == LogInv /\ CommitsInv /\ StartsInv /\ bracketed = TRUE

-----------------------------------------------------------------------------
(* The log only grows at both ends, and the group only moves forward. *)
LEMMA LogGrows ==
  ASSUME BacklogAssumption, LogInv, Next
  PROVE  /\ LogInv'
         /\ \A p \in Partitions :
              logStart[p] <= logStart'[p] /\ logEnd[p] <= logEnd'[p] /\ committed[p] <= committed'[p]
<1>1. CASE Outside
  <2>1. PICK p \in Partitions : Produce(p) \/ Compact(p) \/ Commit(p) \/ Trim(p) \/ Create(p)
    BY <1>1 DEF Outside
  <2>2. CASE Produce(p)
    BY <2>2, BacklogAssumption DEF Produce, LogInv, BacklogAssumption
  <2>3. CASE Commit(p)
    <3>1. PICK o \in Shown(p, NextRecord(p)) : committed' = [committed EXCEPT ![p] = o + 1]
      BY <2>3 DEF Commit
    <3>2. /\ logStart[p] \in Nat /\ logEnd[p] \in Nat /\ committed[p] \in Int
          /\ committed[p] <= logEnd[p]
      BY DEF LogInv
    <3>3. NextRecord(p) \in Int /\ committed[p] <= NextRecord(p)
      BY <3>2 DEF NextRecord
    <3>4. o \in Int /\ committed[p] <= o + 1 /\ o + 1 <= logEnd[p]
      BY <3>1, <3>2, <3>3 DEF Shown
    <3> QED
      BY <2>3, <3>1, <3>4 DEF Commit, LogInv
  <2>4. CASE Trim(p)
    BY <2>4 DEF Trim, LogInv
  <2>5. CASE Create(p) \/ Compact(p)
    BY <2>5 DEF Create, Compact, LogInv
  <2> QED
    BY <2>1, <2>2, <2>3, <2>4, <2>5
<1>2. CASE UNCHANGED broker
  BY <1>2 DEF broker, LogInv
<1>3. Outside \/ UNCHANGED broker
  BY DEF Next, Refresh, ReadCommits, ReadStarts, ReadEnds, ReadRecord, ReadTimesOut, Apply, RequestFails, Tick,
         Signal, ServerFails, Shutdown, Done, vars
<1> QED
  BY <1>1, <1>2, <1>3

(* A step that leaves the answers alone leaves what was said of them true. *)
LEMMA AnswersKept ==
  ASSUME IInv, LogInv', UNCHANGED <<commits, starts, behind, bracketed>>,
         pc' = pc \/ pc' \notin {"starts", "ends"},
         \A p \in Partitions :
           logStart[p] <= logStart'[p] /\ logEnd[p] <= logEnd'[p] /\ committed[p] <= committed'[p]
  PROVE  IInv'
<1>1. CommitsInv'
  <2>1. SUFFICES ASSUME pc = "starts", NEW p \in DOMAIN commits PROVE Anchored(p, logStart[p])'
    BY DEF CommitsInv
  <2>2. Anchored(p, logStart[p])
    BY <2>1 DEF IInv, CommitsInv
  <2> QED
    BY <2>2 DEF Anchored, LogInv, IInv
<1>2. StartsInv'
  <2>1. SUFFICES ASSUME pc = "ends", NEW p \in DOMAIN starts \cap DOMAIN commits
                 PROVE  (starts[p] \in Nat /\ starts[p] <= logStart[p] /\ Anchored(p, starts[p]))'
    BY DEF StartsInv
  <2>2. starts[p] \in Nat /\ starts[p] <= logStart[p] /\ Anchored(p, starts[p])
    BY <2>1 DEF IInv, StartsInv
  <2> QED
    BY <2>2 DEF Anchored, LogInv, IInv
<1> QED
  BY <1>1, <1>2 DEF IInv

(* When all answers are there, the lag computed from them is bracketed. *)
LEMMA Bracketed ==
  ASSUME IInv, pc = "ends", Agree, NEW p \in created
  PROVE  logEnd[p] - NextOffset(commits[p], starts[p], logEnd[p])
           \in TrueLag[p] .. behind[p] + logEnd[p]
<1> DEFINE next == NextOffset(commits[p], starts[p], logEnd[p])
<1>1. /\ p \in Partitions /\ starts[p] \in Nat /\ starts[p] <= logStart[p]
      /\ Anchored(p, starts[p])
  BY DEF IInv, StartsInv, Agree, LogInv
<1>2. /\ logStart[p] \in Nat /\ logEnd[p] \in Nat /\ committed[p] \in Int
      /\ logStart[p] <= logEnd[p] /\ committed[p] <= logEnd[p]
  BY <1>1 DEF IInv, LogInv
<1>3. next \in Int /\ 0 - behind[p] <= next
  BY <1>1, <1>2 DEF NextOffset, Anchored
<1>4. NextRecord(p) \in Int /\ next <= NextRecord(p)
  BY <1>1, <1>2 DEF NextOffset, NextRecord, Anchored
<1>5. TrueLag[p] = logEnd[p] - NextRecord(p)
  BY DEF TrueLag
<1>6. behind[p] \in Int
  BY <1>1 DEF Anchored
<1> HIDE DEF next
<1> QED
  BY <1>2, <1>3, <1>4, <1>5, <1>6 DEF next

LEMMA InitInv == BacklogAssumption /\ Init => IInv
  BY DEF BacklogAssumption, Init, IInv, LogInv, CommitsInv, StartsInv

LEMMA StepInv == BacklogAssumption /\ IInv /\ [Next]_vars => IInv'
<1> SUFFICES ASSUME BacklogAssumption, IInv, [Next]_vars PROVE IInv'
  OBVIOUS
<1>1. CASE UNCHANGED vars
  BY <1>1 DEF vars, broker, snapshot, IInv, LogInv, CommitsInv, StartsInv, Anchored
<1>2. CASE Next
  <2>1. LogInv' /\ \A p \in Partitions :
          logStart[p] <= logStart'[p] /\ logEnd[p] <= logEnd'[p] /\ committed[p] <= committed'[p]
    BY <1>2, LogGrows DEF IInv
  <2>2. CASE Outside \/ Tick \/ Signal \/ ServerFails \/ Shutdown \/ Done
    <3>1. UNCHANGED <<commits, starts, behind, bracketed>> /\ (pc' = pc \/ pc' \notin {"starts", "ends"})
      BY <2>2 DEF Outside, Produce, Compact, Commit, Trim, Create, exporter, Tick, Signal, ServerFails,
                  Shutdown, Done, vars, snapshot
    <3> QED
      BY <2>1, <3>1, AnswersKept
  <2>3. CASE ReadCommits
    <3>1. pc' = "starts" /\ bracketed' = TRUE
      BY <2>3 DEF ReadCommits, IInv
    <3>2. ASSUME NEW p \in DOMAIN commits' PROVE Anchored(p, logStart[p])'
      <4>1. p \in created /\ commits'[p] = committed[p]
        BY <2>3, <3>2 DEF ReadCommits, OfTopic
      <4>2. behind'[p] = TrueLag[p] - logEnd[p] /\ TrueLag[p] = logEnd[p] - NextRecord(p)
        BY <2>3, <4>1 DEF ReadCommits, TrueLag
      <4>3. /\ p \in Partitions /\ logStart[p] \in Nat /\ logEnd[p] \in Nat /\ committed[p] \in Int
            /\ committed[p] <= logEnd[p] /\ logStart'[p] = logStart[p]
            /\ logEnd'[p] = logEnd[p] /\ committed'[p] = committed[p]
        BY <2>3, <4>1 DEF ReadCommits, broker, IInv, LogInv
      <4>4. /\ NextRecord(p) \in Int
            /\ \/ NextRecord(p) = committed[p]
               \/ committed[p] < NextRecord(p) /\ NextRecord(p) = logStart[p]
        BY <4>3 DEF NextRecord
      <4>5. behind'[p] = 0 - NextRecord(p)
        BY <4>2, <4>3, <4>4
      <4> QED
        BY <4>1, <4>3, <4>4, <4>5 DEF Anchored
    <3> QED
      BY <2>1, <3>1, <3>2 DEF IInv, CommitsInv, StartsInv
  <2>4. CASE ReadStarts
    <3>1. pc = "starts" /\ pc' = "ends" /\ bracketed' = TRUE /\ UNCHANGED <<broker, commits, behind>>
      BY <2>4 DEF ReadStarts, IInv
    <3>2. ASSUME NEW p \in DOMAIN starts' \cap DOMAIN commits'
          PROVE  (starts[p] \in Nat /\ starts[p] <= logStart[p] /\ Anchored(p, starts[p]))'
      <4>1. p \in created /\ starts'[p] = logStart[p]
        BY <2>4, <3>2 DEF ReadStarts, OfTopic
      <4>2. Anchored(p, logStart[p])
        BY <3>1, <3>2 DEF IInv, CommitsInv
      <4> QED
        BY <3>1, <4>1, <4>2 DEF Anchored, IInv, LogInv, broker
    <3> QED
      BY <2>1, <3>1, <3>2 DEF IInv, CommitsInv, StartsInv
  <2>5. CASE ReadEnds
    <3>1. pc = "ends" /\ pc' \notin {"starts", "ends"}
      BY <2>5 DEF ReadEnds, RefreshFails
    <3>2. bracketed' = TRUE
      <4>1. CASE ~Agree
        BY <2>5, <4>1 DEF ReadEnds, RefreshFails, IInv
      <4>2. CASE Agree
        <5>1. \A p \in created :
                Lag(p)' = logEnd[p] - NextOffset(commits[p], starts[p], logEnd[p])
          BY <2>5, <4>2 DEF ReadEnds, Lag
        <5>2. bracketed' = (\A p \in created : Lag(p)' \in TrueLag[p] .. behind[p] + logEnd[p])
          BY <2>5, <4>2 DEF ReadEnds
        <5> QED
          BY <3>1, <4>2, <5>1, <5>2, Bracketed
      <4> QED
        BY <4>1, <4>2
    <3> QED
      BY <2>1, <3>1, <3>2 DEF IInv, CommitsInv, StartsInv
  <2>6. CASE (\E p \in Partitions : ReadRecord(p) \/ ReadTimesOut(p)) \/ Apply \/ RequestFails
    <3>1. pc' \notin {"starts", "ends"} /\ bracketed' = TRUE
      BY <2>6 DEF ReadRecord, ReadTimesOut, Apply, RequestFails, RefreshFails, IInv
    <3> QED
      BY <2>1, <3>1 DEF IInv, CommitsInv, StartsInv
  <2> QED
    BY <1>2, <2>2, <2>3, <2>4, <2>5, <2>6 DEF Next, Refresh
<1> QED
  BY <1>1, <1>2

-----------------------------------------------------------------------------
(* Every snapshot of PartitionPositions brackets the truth, whatever the   *)
(* group, the producers and retention did between its three requests.      *)
THEOREM Brackets == Spec => []LagBracketsTruth
<1>1. IInv => LagBracketsTruth
  BY DEF IInv, LagBracketsTruth
<1> QED
  BY <1>1, InitInv, StepInv, BacklogAssumption, PTL DEF Spec
=============================================================================
