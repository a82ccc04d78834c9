------------------------------ MODULE Pipeline ------------------------------
(***************************************************************************)
(* The way of a candidate through the system: candidate-orchestrator turns *)
(* it into a ClassificationCommand, a worker classifies the light curve    *)
(* revision it names and publishes a ClassificationResult, and a result    *)
(* writer stores the run, from which later runs of the object take their   *)
(* coarse probabilities.                                                   *)
(*                                                                         *)
(* How a process takes records and commits them is the business of the     *)
(* consumer modules, and how one result is stored that of ResultStore:     *)
(* here every process promises AtLeastOnce.  A record is taken when the    *)
(* records of its object before it are done, and, as a fault, once more at *)
(* any time: while another worker still handles it, or after it was done.  *)
(***************************************************************************)
EXTENDS Classification

CONSTANTS
  Candidates,  \* the messages of the candidate topic, a sequence
  Curves,      \* the answers of the light curve service, by object, revision
  Late,        \* the light curves it has only after their candidate
  Bundles, Workers,
  Serves,      \* the bundle of each worker's manifest
  First,       \* the bundle the orchestrator starts with
  NoTask,
  MaxFaults    \* bound on crashes, retries and redeliveries

ASSUME PipelineAssumption ==
  /\ Len(Candidates) \in Nat
  /\ \A i \in 1 .. Len(Candidates) :
       Candidates[i].revision \in Int /\ Candidates[i].candidateRevision \in Int
  /\ Late \subseteq DOMAIN Curves
  /\ Serves \in [Workers -> Bundles]
  /\ First \in Bundles
  /\ MaxFaults \in Nat

VARIABLES
  position,     \* orchestrator: the next candidate
  deployed,     \* orchestrator: the bundle of its policy
  candidateDLQ, \* the candidate dead letter topic
  commands,     \* the command topic
  commandsDone, \* positions of commands whose Handle returned nil
  commandDLQ,   \* the command dead letter topic
  late,         \* the light curves the service does not have yet
  task,         \* worker: [pc, command, selection] or NoTask
  results,      \* the result topic
  resultsDone,  \* positions of results whose Handle returned nil
  resultDLQ,    \* the result dead letter topic
  rows,         \* classification_runs, in the order of persisted_at
  current,      \* current_classifications: the revision of each object, or 0
  faults        \* history: how many faults happened

orchestrator == <<position, deployed, candidateDLQ>>
handled == <<commandsDone, commandDLQ>>
writer == <<resultsDone, resultDLQ, rows, current>>

vars == <<orchestrator, commands, handled, late, task, results, writer, faults>>

Objects == {Candidates[i].object : i \in 1 .. Len(Candidates)}

Fault == faults < MaxFaults /\ faults' = faults + 1

Init ==
  /\ position = 1
  /\ deployed = First
  /\ candidateDLQ = {}
  /\ commands = << >>
  /\ commandsDone = {}
  /\ commandDLQ = {}
  /\ late = Late
  /\ task = [w \in Workers |-> NoTask]
  /\ results = << >>
  /\ resultsDone = {}
  /\ resultDLQ = {}
  /\ rows = << >>
  /\ current = [o \in Objects |-> 0]
  /\ faults = 0

-----------------------------------------------------------------------------
(* candidate-orchestrator *)

HasCandidate == position <= Len(Candidates)

Candidate == Candidates[position]

(* A dead letter is the record as it was read, with the place it was read  *)
(* from and what rejected it.                                              *)
CandidateDeadLetter == [place |-> position, message |-> Candidate]

(* Mutant: the dead letter is published, but the handler returns its error.*)
RejectCandidateWithError ==
  /\ HasCandidate
  /\ ~IsCandidate(Candidate)
  /\ candidateDLQ' = candidateDLQ \cup {CandidateDeadLetter}
  /\ UNCHANGED <<position, deployed, commands, handled, late, task, results, writer, faults>>

(* A message that is no candidate goes to the dead letter topic. *)
RejectCandidate ==
  /\ HasCandidate
  /\ ~IsCandidate(Candidate)
  /\ candidateDLQ' = candidateDLQ \cup {CandidateDeadLetter}
  /\ position' = position + 1
  /\ UNCHANGED <<deployed, commands, handled, late, task, results, writer, faults>>

(* A candidate whose command cannot be built has no step: Handle returns   *)
(* the error, the process exits and reads it again.                        *)
CanCommand == HasCandidate /\ IsCandidate(Candidate) /\ CanBuildCommand(Candidate)

PublishCommand == commands' = Append(commands, CommandFor(Candidate, deployed))

HandleCandidate ==
  /\ CanCommand
  /\ PublishCommand
  /\ position' = position + 1
  /\ UNCHANGED <<deployed, candidateDLQ, handled, late, task, results, writer, faults>>

(* The publish is not acknowledged, or the offset not committed: the       *)
(* candidate is read again.                                                *)
HandleCandidateAgain ==
  /\ CanCommand
  /\ PublishCommand
  /\ Fault
  /\ UNCHANGED <<orchestrator, handled, late, task, results, writer>>

(* The orchestrator restarts with another bundle in its configuration, at  *)
(* most once.                                                              *)
Redeploy ==
  /\ deployed = First
  /\ deployed' \in Bundles \ {First}
  /\ UNCHANGED <<position, candidateDLQ, commands, handled, late, task, results, writer, faults>>

-----------------------------------------------------------------------------
(* The workers *)

InHand(i) == \E w \in Workers : task[w] # NoTask /\ task[w].command = i

(* The commands of the object before this one are done. *)
IsNextCommand(i) ==
  \A j \in 1 .. i - 1 : commands[j].object = commands[i].object => j \in commandsDone

(* Decoding looks at nothing but the message. *)
Begin(w, i) ==
  /\ task[w] = NoTask
  /\ task' = [task EXCEPT ![w] =
                [pc |-> IF IsCommand(commands[i]) THEN "prepare" ELSE "reject",
                 command |-> i, selection |-> Computed("COMPUTE_CURRENT")]]
  /\ UNCHANGED <<orchestrator, commands, handled, late, results, writer>>

Take(w) ==
  /\ \E i \in 1 .. Len(commands) :
       i \notin commandsDone /\ ~InHand(i) /\ IsNextCommand(i) /\ Begin(w, i)
  /\ UNCHANGED faults

(* The command was read by another member, or was not committed in time.   *)
TakeAgain(w) ==
  /\ \E i \in 1 .. Len(commands) :
       (InHand(i) \/ i \in commandsDone) /\ Begin(w, i)
  /\ Fault

Command(w) == commands[task[w].command]

(* The upstream service has the light curve at last. *)
CurveArrives ==
  /\ \E k \in late : late' = late \ {k}
  /\ UNCHANGED <<orchestrator, commands, handled, task, results, writer, faults>>

CurveKey(w) == <<Command(w).object, Command(w).revision>>

Curve(w) == IF CurveKey(w) \in late THEN [status |-> 409] ELSE Curves[CurveKey(w)]

(* What ends in PERMANENT before the inference: the light curve is not     *)
(* there, is not the one of the command, or the worker has another bundle. *)
CanPrepare(w) ==
  /\ ReadsRevision(Curve(w), Command(w).object, Command(w).revision)
  /\ Prepares(Curve(w), Command(w).declaredEpochs)
  /\ Serves[w] = Command(w).bundle

SetTask(w, pc, selection) ==
  task' = [task EXCEPT ![w] =
              [pc |-> pc, command |-> task[w].command, selection |-> selection]]

(* The coarse mode is decided by what is stored now, long before the       *)
(* result is published.  A light curve that may be read later is asked for *)
(* again, for as long as it takes.                                         *)
Prepare(w) ==
  /\ task[w] # NoTask /\ task[w].pc = "prepare"
  /\ ~ReadAgain(Curve(w))
  /\ IF ~CanPrepare(w) THEN SetTask(w, "reject", task[w].selection)
     ELSE LET selection == Select(rows, Command(w), Curve(w).count)
          IN  SetTask(w, IF SelectionHolds(selection, Command(w)) THEN "classify" ELSE "prepare",
                      selection)
  /\ UNCHANGED <<orchestrator, commands, handled, late, results, writer, faults>>

(* The model ran as the mode says: the classifier takes no other answer.   *)
Executed(w) == task[w].selection.coarse # "REUSE_PREVIOUS"

Classify(w) ==
  /\ task[w] # NoTask /\ task[w].pc = "classify"
  /\ SetTask(w, IF CanBuildRun(Command(w), Serves[w], Curve(w), task[w].selection, Executed(w))
                THEN "publish" ELSE "reject",
             task[w].selection)
  /\ UNCHANGED <<orchestrator, commands, handled, late, results, writer, faults>>

PublishResult(w) ==
  results' = Append(results, ResultFor(Run(Command(w), task[w].selection,
                                           Curve(w).count, Executed(w))))

EndTask(w) == task' = [task EXCEPT ![w] = NoTask]

CommandDone(w) == commandsDone' = commandsDone \cup {task[w].command}

Publish(w) ==
  /\ task[w] # NoTask /\ task[w].pc = "publish"
  /\ PublishResult(w)
  /\ CommandDone(w)
  /\ EndTask(w)
  /\ UNCHANGED <<orchestrator, commands, commandDLQ, late, writer, faults>>

CommandDeadLetter(w) == [place |-> task[w].command, message |-> Command(w), by |-> w]

Reject(w) ==
  /\ task[w] # NoTask /\ task[w].pc = "reject"
  /\ commandDLQ' = commandDLQ \cup {CommandDeadLetter(w)}
  /\ CommandDone(w)
  /\ EndTask(w)
  /\ UNCHANGED <<orchestrator, commands, late, results, writer, faults>>

(* A stage fails and the attempt begins anew, or the publish is not        *)
(* acknowledged although the result is in the topic.                       *)
Retry(w) ==
  /\ task[w] # NoTask /\ task[w].pc \in {"classify", "publish"}
  /\ \/ UNCHANGED results
     \/ task[w].pc = "publish" /\ PublishResult(w)
  /\ SetTask(w, "prepare", task[w].selection)
  /\ Fault
  /\ UNCHANGED <<orchestrator, commands, handled, late, writer>>

(* The worker loses its session or dies. *)
Abandon(w) ==
  /\ task[w] # NoTask
  /\ EndTask(w)
  /\ Fault
  /\ UNCHANGED <<orchestrator, commands, handled, late, results, writer>>

-----------------------------------------------------------------------------
(* The result writers *)

IsNextResult(i) ==
  \A j \in 1 .. i - 1 : results[j].key = results[i].key => j \in resultsDone

Stored(run) == \E i \in 1 .. Len(rows) : rows[i].run = run

Advance(r) ==
  current' = IF r.mode = "PRODUCTION" /\ current[r.object] < r.revision
             THEN [current EXCEPT ![r.object] = r.revision] ELSE current

ResultDeadLetter(i) == [place |-> i, message |-> results[i]]

(* A result is dead-lettered, is there already, or is inserted.  One the   *)
(* table refuses has no step: its writer retries it for ever.              *)
WriteResult(i) ==
  /\ LET r == results[i].run
     IN  \/ /\ ~IsResult(results[i])
            /\ resultDLQ' = resultDLQ \cup {ResultDeadLetter(i)}
            /\ UNCHANGED <<rows, current>>
         \/ /\ IsResult(results[i]) /\ TableAccepts(rows, r)
            /\ IF Stored(r.run) THEN UNCHANGED <<rows, current>>
               ELSE rows' = Append(rows, r) /\ Advance(r)
            /\ UNCHANGED resultDLQ
  /\ UNCHANGED <<orchestrator, commands, handled, late, task, results>>

Write ==
  /\ \E i \in 1 .. Len(results) :
       /\ i \notin resultsDone /\ IsNextResult(i)
       /\ WriteResult(i)
       /\ resultsDone' = resultsDone \cup {i}
  /\ UNCHANGED faults

(* The result is read again, before or after it counts as done. *)
WriteAgain ==
  /\ \E i \in 1 .. Len(results) :
       (i \in resultsDone \/ IsNextResult(i)) /\ WriteResult(i)
  /\ Fault
  /\ UNCHANGED resultsDone

-----------------------------------------------------------------------------
Work(w) == Take(w) \/ Prepare(w) \/ Classify(w) \/ Publish(w) \/ Reject(w)

Fails(w) == TakeAgain(w) \/ Retry(w) \/ Abandon(w)

(* Everything is done, but for the candidates behind one that blocks. *)
Done ==
  /\ ~CanCommand /\ (HasCandidate => IsCandidate(Candidate))
  /\ commandsDone = 1 .. Len(commands)
  /\ resultsDone = 1 .. Len(results)
  /\ \A w \in Workers : task[w] = NoTask
  /\ UNCHANGED vars

Progress ==
  \/ RejectCandidate \/ HandleCandidate \/ CurveArrives \/ Write
  \/ \E w \in Workers : Work(w)

Next ==
  \/ Progress \/ HandleCandidateAgain \/ Redeploy \/ WriteAgain \/ Done
  \/ \E w \in Workers : Fails(w)

Spec == Init /\ [][Next]_vars

(* As long as some process can go on, one does, and faults are bounded:    *)
(* since no process goes on for ever, all of them get their turn.          *)
FairSpec == Spec /\ WF_vars(Progress)

-----------------------------------------------------------------------------
(* Type invariant. *)
TypeOK ==
  /\ position \in 1 .. Len(Candidates) + 1
  /\ deployed \in Bundles
  /\ \A d \in candidateDLQ : d.place \in 1 .. position - 1 /\ d.message = Candidates[d.place]
  /\ commandsDone \subseteq 1 .. Len(commands)
  /\ \A d \in commandDLQ :
       d.place \in commandsDone /\ d.message = commands[d.place] /\ d.by \in Workers
  /\ resultsDone \subseteq 1 .. Len(results)
  /\ \A d \in resultDLQ : d.place \in 1 .. Len(results) /\ d.message = results[d.place]
  /\ current \in [Objects -> Nat]
  /\ \A w \in Workers :
       task[w] # NoTask =>
         /\ task[w].pc \in {"prepare", "classify", "publish", "reject"}
         /\ task[w].command \in 1 .. Len(commands)
  /\ late \subseteq Late
  /\ faults \in 0 .. MaxFaults

(* A result that reuses coarse probabilities names a run that is stored,   *)
(* of the same object and bundle, of an older revision, that computed them *)
(* itself, whatever was retried, repeated, or stored in the meantime: the  *)
(* trace of a classification ends after one step (coarse_mode_selector.go, *)
(* findLatestCompatibleCoarseSQL).                                         *)
SourceIsStored ==
  \A i \in 1 .. Len(results) :
    LET r == results[i].run
    IN  r.sourceType = "REUSED_PREVIOUS" =>
          \E k \in 1 .. Len(rows) :
            /\ rows[k].run = r.source
            /\ rows[k].object = r.object /\ rows[k].bundle = r.bundle
            /\ rows[k].revision = r.sourceRevision /\ rows[k].revision < r.revision
            /\ rows[k].epochs = r.sourceEpochs
            /\ rows[k].xgboost

(* What the workers publish, the decoder of the writers and the table both *)
(* take, at every boundary: otherwise a result is lost to the dead letter  *)
(* topic, or its writer retries it for ever and holds up its partition     *)
(* (classification_result_retry_handler.go).                               *)
EveryResultCanBeStored ==
  \A i \in 1 .. Len(results) : IsResult(results[i]) /\ TableAccepts(rows, results[i].run)

(* The command topic and the worker agree: what the orchestrator builds, a *)
(* worker of its bundle rejects for nothing but the light curve.           *)
OnlyCurvesAndBundlesRejected ==
  \A d \in commandDLQ :
    LET c     == d.message
        curve == Curves[<<c.object, c.revision>>]
    IN  \/ ~ReadsRevision(curve, c.object, c.revision)
        \/ ~Prepares(curve, c.declaredEpochs)
        \/ Serves[d.by] # c.bundle

(* A candidate of the zero time, if there is one, blocks the partition: it *)
(* decodes, its command cannot be built, and candidate_handler.go returns  *)
(* that error for ever.                                                    *)
Blocked(i) ==
  \E j \in 1 .. i : IsCandidate(Candidates[j]) /\ Candidates[j].occurredAt = "zero"

CandidateRejected(m) ==
  \E d \in commandDLQ :
    d.message.object = m.object /\ d.message.revision = m.revision

Settled(i) ==
  LET m == Candidates[i]
  IN  \/ \E d \in candidateDLQ : d.place = i
      \/ IsCandidate(m) /\ (CandidateRejected(m) \/ current[m.object] >= m.revision)

(* Every candidate before one of the zero time comes to an end: in a dead  *)
(* letter topic of its own or of its command, or in the current            *)
(* classification of its object, which is then of its revision or newer.   *)
(* No other candidate that decodes may have a command that cannot be       *)
(* built.                                                                  *)
EveryCandidateSettles == <>(\A i \in 1 .. Len(Candidates) : Blocked(i) \/ Settled(i))
=============================================================================
