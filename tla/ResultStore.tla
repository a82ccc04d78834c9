---------------------------- MODULE ResultStore ----------------------------
(***************************************************************************)
(* The result writers and the PostgreSQL tables they share: the chain      *)
(* ClassificationResultDLQHandler, ClassificationResultRetryHandler,       *)
(* ClassificationResultWriterHandler (internal/application) around         *)
(* SaveRunAndMaybeAdvanceCurrent (internal/adapter/postgres), statement by *)
(* statement, with the locks its statements take in a READ COMMITTED       *)
(* transaction.                                                            *)
(*                                                                         *)
(* A result is a message of the result topic:                              *)
(*   [run, job, object, revision, production, valid].                      *)
(* Which writer gets which result, and how often, is the business of       *)
(* SerialConsumer: here a result that Handle did not return nil for is     *)
(* taken again, and one it did, or one in other hands, may be.             *)
(***************************************************************************)
EXTENDS Integers, FiniteSets

CONSTANTS Writers, Results, NoResult,
          MaxFaults  \* bound on errors, timeouts, lost sessions, redeliveries

ASSUME ResultAssumption ==
  /\ NoResult \notin Results
  /\ \A m \in Results : m.revision \in Nat \ {0}
  /\ MaxFaults \in Nat

Objects == {m.object : m \in Results}

VARIABLES
  pc,          \* "idle", "begun", "inserted", "advanced", "inspecting",
               \* "waiting" or "dead-lettering"
  inHand,      \* the result a writer handles, or NoResult
  moves,       \* the open transaction has changed current_classifications
  runs,        \* committed rows of classification_runs
  current,     \* committed rows of current_classifications
  settled,     \* history: results Handle returned nil for
  deadLetters, \* history: results in the dead letter topic
  faults       \* history: how many faults happened

tables == <<runs, current>>
writing == <<pc, inHand, moves>>

vars == <<writing, tables, settled, deadLetters, faults>>

Fault == faults < MaxFaults /\ faults' = faults + 1

SameKey(a, b) == a.run = b.run \/ a.job = b.job

SameRun(a, b) == a.run = b.run /\ a.job = b.job

(* What an open transaction locks: the keys of the row it inserted, then   *)
(* the row of its object, whether the update changed that row or not.      *)
HoldsRun(w) == pc[w] \in {"inserted", "advanced"}

HoldsCurrent(w) == pc[w] = "advanced"

Init ==
  /\ pc = [w \in Writers |-> "idle"]
  /\ inHand = [w \in Writers |-> NoResult]
  /\ moves = [w \in Writers |-> FALSE]
  /\ runs = {}
  /\ current = [o \in Objects |-> NoResult]
  /\ settled = {}
  /\ deadLetters = {}
  /\ faults = 0

-----------------------------------------------------------------------------
(* A result that does not decode fails for good before any transaction. *)
Take(w, m) ==
  /\ pc[w] = "idle"
  /\ pc' = [pc EXCEPT ![w] = IF m.valid THEN "begun" ELSE "dead-lettering"]
  /\ inHand' = [inHand EXCEPT ![w] = m]
  /\ UNCHANGED <<moves, tables, settled, deadLetters>>

InHand == {inHand[w] : w \in Writers}

Receive(w) ==
  /\ \E m \in Results \ (settled \cup InHand) : Take(w, m)
  /\ UNCHANGED faults

(* A writer that lost its partition goes on; an offset that was not        *)
(* committed in time is read again.                                        *)
ReceiveAgain(w) ==
  /\ \E m \in settled \cup (InHand \ {NoResult}) : Take(w, m)
  /\ Fault

(* INSERT ... ON CONFLICT DO NOTHING waits for the transaction that holds  *)
(* a conflicting key, and returns no row if that one commits.              *)
Insert(w) ==
  /\ pc[w] = "begun"
  /\ ~ \E v \in Writers : HoldsRun(v) /\ SameKey(inHand[v], inHand[w])
  /\ pc' = [pc EXCEPT ![w] = IF \E r \in runs : SameKey(r, inHand[w])
                            THEN "inspecting" ELSE "inserted"]
  /\ UNCHANGED <<inHand, moves, tables, settled, deadLetters, faults>>

(* Mutant: the pointer is set once and never replaced. *)
NewerRunNever(o, m) == current[o] = NoResult

(* Mutant: the pointer follows the last writer. *)
NewerRunAlways(o, m) == m.production

(* The condition of the upsert. *)
NewerRun(o, m) == current[o] = NoResult \/ current[o].revision < m.revision

(* The upsert waits for the row of the object, then decides by its latest  *)
(* committed version.                                                      *)
Advance(w) ==
  /\ pc[w] = "inserted"
  /\ inHand[w].production
  /\ ~ \E v \in Writers : HoldsCurrent(v) /\ inHand[v].object = inHand[w].object
  /\ pc' = [pc EXCEPT ![w] = "advanced"]
  /\ moves' = [moves EXCEPT ![w] = NewerRun(inHand[w].object, inHand[w])]
  /\ UNCHANGED <<inHand, tables, settled, deadLetters, faults>>

CanCommit(w) ==
  \/ pc[w] = "advanced"
  \/ pc[w] = "inserted" /\ ~inHand[w].production

CommitTables(w) ==
  /\ runs' = runs \cup {inHand[w]}
  /\ current' = IF moves[w] THEN [current EXCEPT ![inHand[w].object] = inHand[w]]
                ELSE current

(* The transaction is over and the writer goes on elsewhere. *)
EndTo(w, to) ==
  /\ pc' = [pc EXCEPT ![w] = to]
  /\ moves' = [moves EXCEPT ![w] = FALSE]

(* Handle returns, with nil when the result is settled. *)
Return(w) ==
  /\ EndTo(w, "idle")
  /\ inHand' = [inHand EXCEPT ![w] = NoResult]

ReturnNil(w) == Return(w) /\ settled' = settled \cup {inHand[w]}

Commit(w) ==
  /\ CanCommit(w)
  /\ CommitTables(w)
  /\ ReturnNil(w)
  /\ UNCHANGED <<deadLetters, faults>>

(* Mutant: a row with either key counts as this run. *)
IdempotentByKey(m) == \E r \in runs : SameKey(r, m)

(* Mutant: a stored run counts only while the pointer names it. *)
IdempotentIfCurrent(m) == \E r \in runs : SameRun(r, m) /\ current[m.object] = r

Idempotent(m) == \E r \in runs : SameRun(r, m)

(* No row came back: the run is there already, which is a success, or its  *)
(* keys are taken by another one, which is permanent.                      *)
Inspect(w) ==
  /\ pc[w] = "inspecting"
  /\ IF Idempotent(inHand[w]) THEN ReturnNil(w)
     ELSE EndTo(w, "dead-lettering") /\ UNCHANGED <<inHand, settled>>
  /\ UNCHANGED <<tables, deadLetters, faults>>

-----------------------------------------------------------------------------
(* A statement fails, or the timeout of the save ends it, also one that    *)
(* waits for a lock: the transaction rolls back and the retry handler      *)
(* waits.                                                                  *)
SaveFails(w) ==
  /\ pc[w] \in {"begun", "inserted", "advanced", "inspecting"}
  /\ EndTo(w, "waiting")
  /\ UNCHANGED <<inHand, tables, settled, deadLetters>>
  /\ Fault

(* The answer to COMMIT is lost: it was done, and the save fails. *)
CommitAnswerLost(w) ==
  /\ CanCommit(w)
  /\ CommitTables(w)
  /\ EndTo(w, "waiting")
  /\ UNCHANGED <<inHand, settled, deadLetters>>
  /\ Fault

WaitEnds(w) ==
  /\ pc[w] = "waiting"
  /\ pc' = [pc EXCEPT ![w] = "begun"]
  /\ UNCHANGED <<inHand, moves, tables, settled, deadLetters, faults>>

(* Mutant: Handle returns the error of the result it has dead-lettered. *)
DeadLetterStillFails(w) ==
  /\ pc[w] = "dead-lettering"
  /\ deadLetters' = deadLetters \cup {inHand[w]}
  /\ Return(w)
  /\ UNCHANGED <<tables, settled, faults>>

(* A published dead letter settles its result. *)
DeadLetter(w) ==
  /\ pc[w] = "dead-lettering"
  /\ deadLetters' = deadLetters \cup {inHand[w]}
  /\ ReturnNil(w)
  /\ UNCHANGED <<tables, faults>>

(* The dead letter is not published, or its answer is lost: Handle returns *)
(* the error and the process exits.                                        *)
DeadLetterFails(w) ==
  /\ pc[w] = "dead-lettering"
  /\ deadLetters' \in {deadLetters, deadLetters \cup {inHand[w]}}
  /\ Return(w)
  /\ UNCHANGED <<tables, settled>>
  /\ Fault

(* A rebalance or a shutdown cancels the context, or the process dies:     *)
(* the transaction rolls back, unless its COMMIT was on the way.           *)
Abandon(w) ==
  /\ pc[w] # "idle"
  /\ \/ UNCHANGED tables
     \/ CanCommit(w) /\ CommitTables(w)
  /\ Return(w)
  /\ UNCHANGED <<settled, deadLetters>>
  /\ Fault

Handle(w) ==
  \/ Receive(w) \/ Insert(w) \/ Advance(w) \/ Commit(w) \/ Inspect(w)
  \/ WaitEnds(w) \/ DeadLetter(w)

Fails(w) ==
  \/ ReceiveAgain(w) \/ SaveFails(w) \/ CommitAnswerLost(w)
  \/ DeadLetterFails(w) \/ Abandon(w)

Done ==
  /\ settled = Results
  /\ \A w \in Writers : pc[w] = "idle"
  /\ UNCHANGED vars

Next == Done \/ \E w \in Writers : Handle(w) \/ Fails(w)

Spec == Init /\ [][Next]_vars

(* The writers run; PostgreSQL grants a free lock; errors are bounded. *)
FairSpec == Spec /\ \A w \in Writers : WF_vars(Handle(w))

-----------------------------------------------------------------------------
(* Type invariant. *)
TypeOK ==
  /\ pc \in [Writers -> {"idle", "begun", "inserted", "advanced", "inspecting",
                         "waiting", "dead-lettering"}]
  /\ inHand \in [Writers -> Results \cup {NoResult}]
  /\ moves \in [Writers -> BOOLEAN]
  /\ runs \subseteq Results
  /\ current \in [Objects -> Results \cup {NoResult}]
  /\ settled \subseteq Results
  /\ deadLetters \subseteq Results
  /\ faults \in 0 .. MaxFaults
  /\ \A w \in Writers : pc[w] = "idle" <=> inHand[w] = NoResult

(* The pointer of an object is the newest revision of its production runs, *)
(* in whatever order, and however often, the writers save them.            *)
CurrentIsNewest ==
  \A o \in Objects :
    LET production == {r \in runs : r.object = o /\ r.production}
    IN  IF production = {} THEN current[o] = NoResult
        ELSE /\ current[o] \in production
             /\ \A r \in production : r.revision <= current[o].revision

(* A reader of an object's current classification never sees it replaced   *)
(* by an older one, or by another one of the same revision.                *)
CurrentNeverMovesBack ==
  [][\A o \in Objects :
       current[o] # NoResult =>
         \/ current'[o] = current[o]
         \/ current'[o] # NoResult /\ current'[o].revision > current[o].revision]_vars

(* Handle returns nil, which lets the runner commit the offset, only for a *)
(* result that is in the database or in the dead letter topic, a conflict  *)
(* with another run being no exception.                                    *)
SettledIsDurable ==
  \A m \in settled : m \in deadLetters \/ \E r \in runs : SameRun(r, m)

(* A result is dead-lettered only because it does not decode or because    *)
(* another run has one of its keys: never because of its own row, which a  *)
(* lost answer to COMMIT, a redelivery or a second writer left behind, and *)
(* which may no longer be the current one.  No row is a dead letter too.   *)
DeadLetteredForCause ==
  \A m \in deadLetters :
    /\ m \notin runs
    /\ m.valid => \E r \in runs : SameKey(r, m) /\ ~SameRun(r, m)

(* Lost answers, timeouts, locks and conflicts never leave a result        *)
(* unsettled once the faults stop.                                         *)
EveryResultSettles == \A m \in Results : <>(m \in settled)
=============================================================================
