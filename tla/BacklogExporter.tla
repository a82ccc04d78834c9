-------------------------- MODULE BacklogExporter --------------------------
(***************************************************************************)
(* kafka-backlog-exporter (cmd/kafka-backlog-exporter,                     *)
(* internal/observability/kafkabacklog): a process that tells an           *)
(* autoscaler how far a consumer group is behind.  One refresh asks for    *)
(* the committed offsets, the starts and the ends of the log, and for the  *)
(* oldest record of every partition with a lag, one request after the      *)
(* other, while producers write, the group commits, retention trims the    *)
(* log and partitions are added.  The offsets of a log have holes, which   *)
(* count in every lag and which no consumer is shown.                      *)
(*                                                                         *)
(* The age of the oldest record is left out: it is looked up, and may be   *)
(* gone.                                                                   *)
(***************************************************************************)
EXTENDS Integers, FiniteSets

CONSTANTS
  Partitions,
  Initial,     \* the partitions the topic begins with
  MaxOffset,   \* bound on the records of each partition
  MaxFaults    \* bound on failed requests

ASSUME BacklogAssumption ==
  Initial \subseteq Partitions /\ Initial # {} /\ MaxOffset \in [Partitions -> Nat] /\ MaxFaults \in Nat

VARIABLES
  created,     \* the partitions of the topic
  logStart, logEnd,
  holes,       \* offsets that are no record: compacted, or a transaction's marker
  committed,   \* the offsets of the group, -1 before its first commit
  pc,          \* where the exporter stands
  commits, starts,  \* the answers of PartitionPositions so far
  positions,   \* what it returned: [next, end] by partition
  asked,       \* the partitions whose oldest record is still to be read
  behind,      \* history: true lag less log end, when the commits were read
  lag,         \* the gauges, by partition
  bracketed,   \* history: the last snapshot was right about the lag
  success,     \* snapshot_success
  ready,
  signalled,   \* the run context is done
  serverFailed, \* managementErr holds an error
  faults       \* history: how many requests failed

broker == <<created, logStart, logEnd, holes, committed>>
snapshot == <<commits, starts, positions, asked, behind>>
metrics == <<lag, success>>

process == <<ready, signalled, serverFailed>>

vars == <<broker, pc, snapshot, bracketed, metrics, process, faults>>

Fault == faults < MaxFaults /\ faults' = faults + 1

(* What a consumer of the group would read next: it begins at the start of *)
(* the log if it has no offset, or one out of range.                       *)
NextRecord(p) ==
  IF committed[p] \in logStart[p] .. logEnd[p] THEN committed[p] ELSE logStart[p]

(* The records of the log from an offset on that a consumer is shown. *)
Shown(p, from) == (from .. logEnd[p] - 1) \ holes[p]

TrueLag == [p \in created |-> logEnd[p] - NextRecord(p)]

Empty == [p \in {} |-> 0]

Init ==
  /\ created = Initial
  /\ logStart = [p \in Partitions |-> 0]
  /\ logEnd = [p \in Partitions |-> 0]
  /\ holes = [p \in Partitions |-> {}]
  /\ committed = [p \in Partitions |-> -1]
  /\ pc = "refresh"
  /\ commits = Empty /\ starts = Empty /\ positions = Empty /\ asked = {} /\ behind = Empty
  /\ lag = Empty /\ success = FALSE
  /\ bracketed = TRUE
  /\ ready = FALSE
  /\ signalled = FALSE /\ serverFailed = FALSE
  /\ faults = 0

-----------------------------------------------------------------------------
(* The topic and the group. *)

exporter == <<pc, snapshot, bracketed, metrics, process, faults>>

(* A record, or the marker that ends a transaction. *)
Produce(p) ==
  /\ p \in created /\ logEnd[p] < MaxOffset[p]
  /\ logEnd' = [logEnd EXCEPT ![p] = @ + 1]
  /\ holes' \in {holes, [holes EXCEPT ![p] = @ \cup {logEnd[p]}]}
  /\ UNCHANGED <<created, logStart, committed, exporter>>

(* Compaction takes a record away, but never from the end of the log. *)
Compact(p) ==
  /\ p \in created
  /\ \E o \in Shown(p, logStart[p]) \ {logEnd[p] - 1} :
       holes' = [holes EXCEPT ![p] = @ \cup {o}]
  /\ UNCHANGED <<created, logStart, logEnd, committed, exporter>>

(* The group commits behind the record it is shown next. *)
Commit(p) ==
  /\ p \in created
  /\ \E o \in Shown(p, NextRecord(p)) :
       /\ \A r \in Shown(p, NextRecord(p)) : o <= r
       /\ committed' = [committed EXCEPT ![p] = o + 1]
  /\ UNCHANGED <<created, logStart, logEnd, holes, exporter>>

Trim(p) ==
  /\ p \in created /\ logStart[p] < logEnd[p]
  /\ logStart' = [logStart EXCEPT ![p] = @ + 1]
  /\ holes' = [holes EXCEPT ![p] = @ \ {logStart[p]}]
  /\ UNCHANGED <<created, logEnd, committed, exporter>>

Create(p) ==
  /\ p \notin created
  /\ created' = created \cup {p}
  /\ UNCHANGED <<logStart, logEnd, holes, committed, exporter>>

-----------------------------------------------------------------------------
(* One refresh. *)

(* The answers live as long as the refresh. *)
Forget ==
  /\ commits' = Empty /\ starts' = Empty /\ positions' = Empty
  /\ asked' = {} /\ behind' = Empty

OfTopic(f) == [p \in created |-> f[p]]

ReadCommits ==
  /\ pc = "refresh" /\ ~signalled
  /\ commits' = OfTopic(committed)
  /\ behind' = [p \in created |-> TrueLag[p] - logEnd[p]]
  /\ pc' = "starts"
  /\ UNCHANGED <<broker, starts, positions, asked, bracketed, metrics, process,
                 faults>>

ReadStarts ==
  /\ pc = "starts" /\ ~signalled
  /\ starts' = OfTopic(logStart)
  /\ pc' = "ends"
  /\ UNCHANGED <<broker, commits, positions, asked, behind, bracketed, metrics,
                 process, faults>>

(* Mutant: an offset out of range means that all is read. *)
NextAtEnd(commit, first, last) ==
  IF commit < first \/ commit > last THEN last ELSE commit

NextOffset(commit, first, last) ==
  IF commit < first \/ commit > last THEN first ELSE commit

(* The three answers are about the same partitions, and no end is before   *)
(* its start.                                                              *)
Agree ==
  /\ DOMAIN starts = created
  /\ created \subseteq DOMAIN commits
  /\ \A p \in created : starts[p] \in 0 .. logEnd[p]

Lag(p) == positions[p].end - positions[p].next

(* MarkSnapshotFailure keeps the gauges; what was read is given up. *)
RefreshFails ==
  /\ success' = FALSE /\ UNCHANGED lag
  /\ pc' = "waiting"
  /\ Forget
  /\ UNCHANGED bracketed

(* PartitionPositions returns, and Snapshot finds the partitions with a    *)
(* lag.                                                                    *)
ReadEnds ==
  /\ pc = "ends" /\ ~signalled
  /\ \/ /\ Agree
        /\ positions' = [p \in created |->
                           [next |-> NextOffset(commits[p], starts[p], logEnd[p]),
                            end |-> logEnd[p]]]
        /\ asked' = {p \in created : Lag(p)' > 0}
        /\ bracketed' = (\A p \in created :
                           Lag(p)' \in TrueLag[p] .. behind[p] + logEnd[p])
        /\ commits' = Empty /\ starts' = Empty /\ behind' = Empty
        /\ pc' = "records"
        /\ UNCHANGED metrics
     \/ ~Agree /\ RefreshFails
  /\ UNCHANGED <<broker, process, faults>>

(* The oldest record is read where the lag begins, without a reset.  It    *)
(* may have been trimmed, and the first record from there on may be one    *)
(* that was written after the ends were read: both are errors.             *)
ReadRecord(p) ==
  /\ pc = "records" /\ ~signalled /\ p \in asked
  /\ LET records == Shown(p, positions[p].next)
         trimmed == logStart[p] > positions[p].next
         found == \E o \in records : o < positions[p].end
     IN  \/ /\ ~trimmed /\ found
            /\ asked' = asked \ {p}
            /\ UNCHANGED <<pc, commits, starts, positions, behind, bracketed, metrics>>
         \/ /\ trimmed \/ (records # {} /\ ~found)
            /\ RefreshFails
  /\ UNCHANGED <<broker, process, faults>>

(* There is no record: the poll waits for one until the refresh times out. *)
ReadTimesOut(p) ==
  /\ pc = "records" /\ ~signalled /\ p \in asked
  /\ Shown(p, positions[p].next) = {}
  /\ RefreshFails
  /\ UNCHANGED <<broker, process, faults>>

(* validateSnapshot, once when the snapshot is made and once when it is    *)
(* published.                                                              *)
SnapshotHolds ==
  /\ positions # Empty
  /\ \A p \in DOMAIN positions : positions[p].next >= 0 /\ Lag(p) >= 0

(* Apply publishes the snapshot; the first one makes the process ready. *)
Apply ==
  /\ pc = "records" /\ asked = {}
  /\ SnapshotHolds
  /\ lag' = [p \in DOMAIN positions |-> Lag(p)] /\ success' = TRUE
  /\ ready' = TRUE
  /\ pc' = "waiting"
  /\ Forget
  /\ UNCHANGED <<broker, bracketed, signalled, serverFailed, faults>>

(* A request fails, or the refresh runs into its timeout or the shutdown. *)
RequestFails ==
  /\ pc \in {"refresh", "starts", "ends", "records"}
  /\ IF signalled THEN UNCHANGED faults ELSE Fault
  /\ RefreshFails
  /\ UNCHANGED <<broker, process>>

-----------------------------------------------------------------------------
(* The loop of main: select takes one of the cases that are ready. *)

(* Mutant: a failed refresh is not tried again. *)
TickAfterSuccess ==
  /\ pc = "waiting" /\ success
  /\ pc' = "refresh"
  /\ UNCHANGED <<broker, snapshot, bracketed, metrics, process, faults>>

Tick ==
  /\ pc = "waiting"
  /\ pc' = "refresh"
  /\ UNCHANGED <<broker, snapshot, bracketed, metrics, process, faults>>

(* SIGTERM ends the run context, and with it the requests of a refresh. *)
Signal ==
  /\ ~signalled /\ pc # "exited"
  /\ signalled' = TRUE
  /\ UNCHANGED <<broker, pc, snapshot, bracketed, metrics, ready, serverFailed, faults>>

(* The management server fails: nobody learns of it before the next select.*)
ServerFails ==
  /\ ~serverFailed /\ pc # "exited"
  /\ serverFailed' = TRUE
  /\ Fault
  /\ UNCHANGED <<broker, pc, snapshot, bracketed, metrics, ready, signalled>>

(* Mutant: the context is looked at only after a success. *)
ShutdownAfterSuccess ==
  /\ pc = "waiting" /\ (signalled \/ serverFailed) /\ success
  /\ pc' = "exited" /\ ready' = FALSE
  /\ UNCHANGED <<broker, snapshot, bracketed, metrics, signalled, serverFailed, faults>>

Shutdown ==
  /\ pc = "waiting" /\ (signalled \/ serverFailed)
  /\ pc' = "exited" /\ ready' = FALSE
  /\ UNCHANGED <<broker, snapshot, bracketed, metrics, signalled, serverFailed, faults>>

Done == pc = "exited" /\ UNCHANGED vars

Outside ==
  \E p \in Partitions : Produce(p) \/ Compact(p) \/ Commit(p) \/ Trim(p) \/ Create(p)

Refresh ==
  \/ ReadCommits \/ ReadStarts \/ ReadEnds
  \/ \E p \in Partitions : ReadRecord(p) \/ ReadTimesOut(p)
  \/ Apply

Next == Outside \/ Refresh \/ RequestFails \/ Tick \/ Signal \/ ServerFails \/ Shutdown \/ Done

Spec == Init /\ [][Next]_vars

(* Requests are answered or time out, the ticker ticks, and select, which  *)
(* chooses at random, does not pass over the end of the context for ever.  *)
FairSpec ==
  /\ Spec
  /\ WF_vars(Refresh) /\ WF_vars(RequestFails /\ signalled) /\ WF_vars(Tick)
  /\ SF_vars(Shutdown)

-----------------------------------------------------------------------------
(* No snapshot shows a lag below the true lag at the moment the ends were  *)
(* read, nor above the true lag at the moment the commits were read, but   *)
(* for what was produced in between: although the three answers are of     *)
(* three moments, no commit can be beyond an end that was read later, and  *)
(* the autoscaler is neither put to sleep nor woken up by a race           *)
(* (position_reader.go).                                                   *)
LagBracketsTruth == bracketed

(* A lag of holes only, whose oldest record nobody can read. *)
LagWithoutRecord ==
  \E p \in created : NextRecord(p) < logEnd[p] /\ Shown(p, NextRecord(p)) = {}

(* Once nothing is produced, committed, trimmed or added any more, the     *)
(* gauges come to the truth and stay there, whatever failed before.  Only  *)
(* a partition whose lag has no record makes every refresh time out, and   *)
(* the gauges of all partitions stay what they were.                       *)
LagBecomesTrue ==
  <>[](\/ signalled \/ serverFailed \/ LagWithoutRecord
       \/ ready /\ lag = TrueLag)

(* The process ends when it is told to, or cannot be observed any more,    *)
(* although every tick of its timer competes with the end of its context   *)
(* and with the error of the server.                                       *)
ExporterStops == (signalled \/ serverFailed) ~> pc = "exited"
=============================================================================
