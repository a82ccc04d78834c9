------------------------ MODULE CommandHandlerProofs ------------------------
(***************************************************************************)
(* For every finite set of commands handled side by side, and any number   *)
(* of faults: a handler returns nil only for what is durable, and the      *)
(* observer that the handlers share tells the truth.                       *)
(***************************************************************************)
EXTENDS CommandHandler, FiniteSetTheorems, TLAPS

Retrying == {c \in Commands : retrying[c] = TRUE}

Attempting == {c \in Commands : pc[c] = "attempt"}

TypeInv ==
  /\ pc \in [Commands -> {"new", "attempt", "waiting", "dead-lettering", "returned"}]
  /\ result \in [Commands -> {"none", "nil", "error"}]
  /\ retrying \in [Commands -> BOOLEAN]
  /\ began \in [Commands -> Nat]
  /\ gauge \in Nat /\ inflight \in Nat /\ since \in Nat /\ clock \in Nat

(* A command is in its retry state while it attempts or waits, and since   *)
(* the moment the observer was told.                                       *)
RetryInv ==
  \A c \in Commands :
    /\ retrying[c] = TRUE => pc[c] \in {"attempt", "waiting"}
    /\ retrying[c] = TRUE <=> began[c] # 0
    /\ began[c] <= clock

CountInv ==
  /\ gauge = Cardinality(Retrying)
  /\ inflight = Cardinality(Attempting)

(* The age the observer reports covers every retry. *)
SinceInv ==
  /\ since = 0 <=> gauge = 0
  /\ \A c \in Commands : began[c] # 0 => since <= began[c]

IInv == TypeInv /\ RetryInv /\ CountInv /\ SinceInv /\ NilMeansDurable

-----------------------------------------------------------------------------
(* The sets that the gauges count, when one command joins or leaves. *)

LEMMA CountUp ==
  ASSUME NEW S \in SUBSET Commands, NEW c \in Commands, c \notin S
  PROVE  Cardinality(S \cup {c}) = Cardinality(S) + 1 /\ Cardinality(S) \in Nat
<1>1. IsFiniteSet(S)
  BY CommandAssumption, FS_Subset
<1> QED
  BY <1>1, FS_AddElement, FS_CardinalityType

LEMMA CountDown ==
  ASSUME NEW S \in SUBSET Commands, NEW c \in S
  PROVE  /\ Cardinality(S \ {c}) = Cardinality(S) - 1
         /\ Cardinality(S) \in Nat /\ Cardinality(S) > 0
<1>1. IsFiniteSet(S)
  BY CommandAssumption, FS_Subset
<1>2. /\ Cardinality(S \ {c}) = Cardinality(S) - 1
      /\ Cardinality(S) \in Nat /\ Cardinality(S \ {c}) \in Nat
  BY <1>1, FS_RemoveElement, FS_CardinalityType, FS_Subset
<1> QED
  BY <1>2

LEMMA NoneCounted ==
  ASSUME NEW S \in SUBSET Commands
  PROVE  Cardinality(S) = 0 <=> S = {}
<1>1. IsFiniteSet(S)
  BY CommandAssumption, FS_Subset
<1> QED
  BY <1>1, FS_EmptySet

LEMMA InitInv == Init => IInv
<1> SUFFICES ASSUME Init PROVE IInv
  OBVIOUS
<1>1. Retrying = {} /\ Attempting = {}
  BY DEF Init, Retrying, Attempting
<1>2. CountInv
  BY <1>1, FS_EmptySet DEF Init, CountInv
<1>3. TypeInv /\ RetryInv /\ SinceInv /\ NilMeansDurable
  BY DEF Init, TypeInv, RetryInv, SinceInv, NilMeansDurable
<1> QED
  BY <1>2, <1>3 DEF IInv

-----------------------------------------------------------------------------
(* The steps of one command, seen by the observer: it stays as it is, the  *)
(* command enters its retry state, or leaves it.                           *)

ObserverInv ==
  /\ retrying \in [Commands -> BOOLEAN] /\ began \in [Commands -> Nat]
  /\ gauge \in Nat /\ since \in Nat /\ clock \in Nat
  /\ RetryInv
  /\ gauge = Cardinality(Retrying)
  /\ SinceInv

AttemptsInv ==
  /\ pc \in [Commands -> {"new", "attempt", "waiting", "dead-lettering", "returned"}]
  /\ inflight \in Nat /\ inflight = Cardinality(Attempting)

LEMMA RetryKept ==
  ASSUME ObserverInv, NEW c \in Commands, NEW to, AttemptsInv,
         pc' = [pc EXCEPT ![c] = to], UNCHANGED retrying, NoRetryEvent,
         retrying[c] = TRUE => to \in {"attempt", "waiting"}
  PROVE  ObserverInv'
<1>1. UNCHANGED <<retrying, began, gauge, since, clock>> /\ Retrying' = Retrying
  BY DEF NoRetryEvent, Retrying
<1>2. RetryInv'
  BY <1>1 DEF ObserverInv, AttemptsInv, RetryInv
<1> QED
  BY <1>1, <1>2 DEF ObserverInv, SinceInv

LEMMA RetryEntered ==
  ASSUME ObserverInv, NEW c \in Commands, AttemptsInv,
         pc' = [pc EXCEPT ![c] = "waiting"],
         retrying' = [retrying EXCEPT ![c] = TRUE],
         IF retrying[c] THEN NoRetryEvent ELSE RetryStarted(c)
  PROVE  ObserverInv'
<1>1. CASE retrying[c] = TRUE
  <2>1. UNCHANGED retrying /\ NoRetryEvent
    BY <1>1 DEF ObserverInv
  <2> QED
    BY <2>1, RetryKept
<1>2. CASE retrying[c] = FALSE
  <2>1. /\ clock' = clock + 1 /\ began' = [began EXCEPT ![c] = clock + 1]
        /\ gauge' = gauge + 1
        /\ since' = IF gauge + 1 = 1 THEN clock + 1 ELSE since
    BY <1>2 DEF RetryStarted
  <2>2. /\ retrying \in [Commands -> BOOLEAN] /\ began \in [Commands -> Nat]
        /\ gauge \in Nat /\ since \in Nat /\ clock \in Nat
        /\ gauge = Cardinality(Retrying)
    BY DEF ObserverInv
  <2>3. Retrying' = Retrying \cup {c} /\ c \notin Retrying /\ Retrying \in SUBSET Commands
    BY <1>2, <2>2 DEF Retrying
  <2>4. gauge' = Cardinality(Retrying')
    BY <2>1, <2>2, <2>3, CountUp
  <2>5. RetryInv'
    <3>1. ASSUME NEW d \in Commands
          PROVE  /\ retrying'[d] = TRUE => pc'[d] \in {"attempt", "waiting"}
                 /\ retrying'[d] = TRUE <=> began'[d] # 0
                 /\ began'[d] <= clock'
      <4>1. CASE d = c
        BY <2>1, <2>2, <4>1 DEF AttemptsInv
      <4>2. CASE d # c
        BY <2>1, <2>2, <4>2 DEF ObserverInv, AttemptsInv, RetryInv
      <4> QED
        BY <4>1, <4>2
    <3> QED
      BY <3>1 DEF RetryInv
  <2>6. SinceInv'
    <3>1. CASE gauge = 0
      <4>1. Retrying = {}
        BY <2>2, <2>3, <3>1, NoneCounted
      <4>2. \A d \in Commands \ {c} : began'[d] = 0
        BY <2>1, <2>2, <4>1 DEF ObserverInv, RetryInv, Retrying
      <4> QED
        BY <2>1, <2>2, <3>1, <4>2 DEF SinceInv
    <3>2. CASE gauge # 0
      <4>1. since' = since /\ since # 0 /\ gauge' # 0
        BY <2>1, <2>2, <3>2 DEF ObserverInv, SinceInv
      <4>2. since <= clock
        <5>1. Retrying # {}
          BY <2>2, <2>3, <3>2, NoneCounted
        <5>2. PICK d \in Commands : retrying[d] = TRUE
          BY <5>1 DEF Retrying
        <5>3. began[d] # 0 /\ began[d] <= clock /\ since <= began[d] /\ began[d] \in Nat
          BY <2>2, <5>2 DEF ObserverInv, RetryInv, SinceInv
        <5> QED
          BY <2>2, <5>3
      <4>3. \A d \in Commands : began'[d] # 0 => since <= began'[d]
        BY <2>1, <2>2, <4>2 DEF ObserverInv, SinceInv
      <4> QED
        BY <4>1, <4>3 DEF SinceInv
    <3> QED
      BY <3>1, <3>2
  <2> QED
    BY <2>1, <2>2, <2>4, <2>5, <2>6 DEF ObserverInv
<1> QED
  BY <1>1, <1>2 DEF ObserverInv

LEMMA RetryLeft ==
  ASSUME ObserverInv, NEW c \in Commands, NEW to, AttemptsInv,
         pc' = [pc EXCEPT ![c] = to], LeaveRetry(c)
  PROVE  ObserverInv'
<1>1. CASE retrying[c] = FALSE
  <2>1. UNCHANGED retrying /\ NoRetryEvent
    BY <1>1 DEF ObserverInv, LeaveRetry
  <2> QED
    BY <1>1, <2>1, RetryKept
<1>2. CASE retrying[c] = TRUE
  <2>1. /\ began' = [began EXCEPT ![c] = 0]
        /\ gauge' = IF gauge > 0 THEN gauge - 1 ELSE gauge
        /\ since' = IF gauge' = 0 THEN 0 ELSE since
        /\ clock' = clock
        /\ retrying' = [retrying EXCEPT ![c] = FALSE]
    BY <1>2 DEF LeaveRetry, RetryFinished
  <2>2. /\ retrying \in [Commands -> BOOLEAN] /\ began \in [Commands -> Nat]
        /\ gauge \in Nat /\ since \in Nat /\ clock \in Nat
        /\ gauge = Cardinality(Retrying)
    BY DEF ObserverInv
  <2>3. Retrying' = Retrying \ {c} /\ c \in Retrying /\ Retrying \in SUBSET Commands
    BY <1>2, <2>1, <2>2 DEF Retrying
  <2>4. gauge' = gauge - 1 /\ gauge > 0 /\ gauge' \in Nat /\ gauge' = Cardinality(Retrying')
    <3>1. gauge > 0 /\ Cardinality(Retrying \ {c}) = gauge - 1
      BY <2>2, <2>3, CountDown
    <3> QED
      BY <2>1, <2>2, <2>3, <3>1
  <2>5. RetryInv'
    <3>1. ASSUME NEW d \in Commands
          PROVE  /\ retrying'[d] = TRUE => pc'[d] \in {"attempt", "waiting"}
                 /\ retrying'[d] = TRUE <=> began'[d] # 0
                 /\ began'[d] <= clock'
      <4>1. CASE d = c
        BY <2>1, <2>2, <4>1 DEF AttemptsInv
      <4>2. CASE d # c
        BY <2>1, <2>2, <4>2 DEF ObserverInv, AttemptsInv, RetryInv
      <4> QED
        BY <4>1, <4>2
    <3> QED
      BY <3>1 DEF RetryInv
  <2>6. SinceInv'
    <3>1. CASE gauge' = 0
      <4>1. Retrying' = {}
        BY <2>3, <2>4, <3>1, NoneCounted
      <4>2. \A d \in Commands : began'[d] = 0
        BY <2>5, <4>1 DEF RetryInv, Retrying
      <4> QED
        BY <2>1, <3>1, <4>2 DEF SinceInv
    <3>2. CASE gauge' # 0
      <4>1. since' = since /\ since # 0
        BY <2>1, <2>4, <3>2 DEF ObserverInv, SinceInv
      <4> QED
        BY <2>1, <2>2, <3>2, <4>1 DEF ObserverInv, SinceInv
    <3> QED
      BY <3>1, <3>2
  <2>7. since' \in Nat
    BY <2>1, <2>2
  <2> QED
    BY <2>1, <2>2, <2>4, <2>5, <2>6, <2>7 DEF ObserverInv
<1> QED
  BY <1>1, <1>2 DEF ObserverInv

-----------------------------------------------------------------------------
(* Attempts begin and end. *)

LEMMA AttemptBegins ==
  ASSUME AttemptsInv, NEW c \in Commands, pc[c] # "attempt",
         pc' = [pc EXCEPT ![c] = "attempt"], inflight' = inflight + 1
  PROVE  AttemptsInv'
<1>1. Attempting' = Attempting \cup {c} /\ c \notin Attempting /\ Attempting \in SUBSET Commands
  BY DEF AttemptsInv, Attempting
<1>2. inflight' = Cardinality(Attempting') /\ inflight' \in Nat
  BY <1>1, CountUp DEF AttemptsInv
<1> QED
  BY <1>2 DEF AttemptsInv

LEMMA AttemptEnds ==
  ASSUME AttemptsInv, NEW c \in Commands, pc[c] = "attempt",
         NEW to \in {"waiting", "dead-lettering", "returned"},
         pc' = [pc EXCEPT ![c] = to], inflight' = inflight - 1
  PROVE  AttemptsInv'
<1>1. Attempting' = Attempting \ {c} /\ c \in Attempting /\ Attempting \in SUBSET Commands
  BY DEF AttemptsInv, Attempting
<1>2. inflight' = Cardinality(Attempting') /\ inflight' \in Nat
  BY <1>1, CountDown DEF AttemptsInv
<1> QED
  BY <1>2 DEF AttemptsInv

LEMMA NoAttempt ==
  ASSUME AttemptsInv, NEW c \in Commands, pc[c] # "attempt",
         NEW to \in {"new", "waiting", "dead-lettering", "returned"},
         pc' = [pc EXCEPT ![c] = to], UNCHANGED inflight
  PROVE  AttemptsInv'
<1>1. Attempting' = Attempting
  BY DEF AttemptsInv, Attempting
<1> QED
  BY <1>1 DEF AttemptsInv

(* What is returned. *)
ReturnInv == result \in [Commands -> {"none", "nil", "error"}] /\ NilMeansDurable

LEMMA Returned ==
  ASSUME ReturnInv, NEW c \in Commands, NEW value \in {"nil", "error"},
         result' = [result EXCEPT ![c] = value],
         published \subseteq published', deadLetters \subseteq deadLetters',
         value = "nil" => c \in published' \cup deadLetters'
  PROVE  ReturnInv'
<1>1. ASSUME NEW d \in Commands, result'[d] = "nil" PROVE d \in published' \cup deadLetters'
  <2>1. CASE d = c
    BY <1>1, <2>1 DEF ReturnInv
  <2>2. CASE d # c
    BY <1>1, <2>2 DEF ReturnInv, NilMeansDurable
  <2> QED
    BY <2>1, <2>2
<1> QED
  BY <1>1 DEF ReturnInv, NilMeansDurable

LEMMA NotReturned ==
  ASSUME ReturnInv, UNCHANGED result,
         published \subseteq published', deadLetters \subseteq deadLetters'
  PROVE  ReturnInv'
BY DEF ReturnInv, NilMeansDurable

LEMMA Parts == IInv <=> ObserverInv /\ AttemptsInv /\ ReturnInv
BY DEF IInv, TypeInv, CountInv, ObserverInv, AttemptsInv, ReturnInv

-----------------------------------------------------------------------------
(* The steps. *)

LEMMA BeginInv == ASSUME IInv, NEW c \in Commands, Begin(c) PROVE IInv'
<1>1. /\ pc[c] = "new" /\ pc' = [pc EXCEPT ![c] = "attempt"] /\ inflight' = inflight + 1
      /\ UNCHANGED <<result, retrying, published, deadLetters>> /\ NoRetryEvent
  BY DEF Begin, Goto, NoRetryEvent, effects
<1>2. ObserverInv /\ AttemptsInv /\ ReturnInv
  BY Parts
<1>3. ObserverInv'
  BY <1>1, <1>2, RetryKept
<1>4. AttemptsInv'
  BY <1>1, <1>2, AttemptBegins
<1>5. ReturnInv'
  BY <1>1, <1>2, NotReturned
<1> QED
  BY <1>3, <1>4, <1>5, Parts, PTL

LEMMA WaitEndsInv == ASSUME IInv, NEW c \in Commands, WaitEnds(c) PROVE IInv'
<1>1. /\ pc[c] = "waiting" /\ pc' = [pc EXCEPT ![c] = "attempt"] /\ inflight' = inflight + 1
      /\ UNCHANGED <<result, retrying, published, deadLetters>> /\ NoRetryEvent
  BY DEF WaitEnds, Goto, NoRetryEvent, effects
<1>2. ObserverInv /\ AttemptsInv /\ ReturnInv
  BY Parts
<1>3. ObserverInv'
  BY <1>1, <1>2, RetryKept
<1>4. AttemptsInv'
  BY <1>1, <1>2, AttemptBegins
<1>5. ReturnInv'
  BY <1>1, <1>2, NotReturned
<1> QED
  BY <1>3, <1>4, <1>5, Parts, PTL

(* A return without an attempt or a retry in progress. *)
LEMMA QuietReturn ==
  ASSUME IInv, NEW c \in Commands, NEW value \in {"nil", "error"},
         pc[c] \in {"new", "dead-lettering"}, Return(c, value),
         UNCHANGED <<retrying, observer, published>>, deadLetters \subseteq deadLetters',
         value = "nil" => c \in deadLetters'
  PROVE  IInv'
<1>1. /\ pc' = [pc EXCEPT ![c] = "returned"] /\ result' = [result EXCEPT ![c] = value]
      /\ UNCHANGED <<retrying, inflight, published>> /\ NoRetryEvent
  BY DEF Return, observer, NoRetryEvent
<1>2. ObserverInv /\ AttemptsInv /\ ReturnInv
  BY Parts
<1>3. retrying[c] # TRUE
  BY <1>2 DEF ObserverInv, RetryInv
<1>4. ObserverInv'
  BY <1>1, <1>2, <1>3, RetryKept
<1>5. AttemptsInv'
  BY <1>1, <1>2, NoAttempt
<1>6. ReturnInv'
  BY <1>1, <1>2, Returned
<1> QED
  BY <1>4, <1>5, <1>6, Parts, PTL

LEMMA PublishSucceedsInv == ASSUME IInv, NEW c \in Commands, PublishSucceeds(c) PROVE IInv'
<1>1. /\ pc[c] = "attempt" /\ pc' = [pc EXCEPT ![c] = "returned"] /\ inflight' = inflight - 1
      /\ result' = [result EXCEPT ![c] = "nil"] /\ LeaveRetry(c)
      /\ published' = published \cup {c} /\ UNCHANGED deadLetters
  BY DEF PublishSucceeds, Return
<1>2. ObserverInv /\ AttemptsInv /\ ReturnInv
  BY Parts
<1>3. ObserverInv'
  BY <1>1, <1>2, RetryLeft
<1>4. AttemptsInv'
  BY <1>1, <1>2, AttemptEnds
<1>5. ReturnInv'
  BY <1>1, <1>2, Returned
<1> QED
  BY <1>3, <1>4, <1>5, Parts, PTL

LEMMA AttemptFailsInv ==
  ASSUME IInv, NEW c \in Commands, NEW class, AttemptFails(c, class),
         published \subseteq published', UNCHANGED deadLetters
  PROVE  IInv'
<1>1. pc[c] = "attempt" /\ inflight' = inflight - 1
  BY DEF AttemptFails
<1>2. ObserverInv /\ AttemptsInv /\ ReturnInv
  BY Parts
<1>3. CASE /\ pc' = [pc EXCEPT ![c] = "waiting"]
           /\ IF retrying[c] THEN NoRetryEvent ELSE RetryStarted(c)
           /\ retrying' = [retrying EXCEPT ![c] = TRUE]
           /\ UNCHANGED result
  <2>1. ObserverInv'
    BY <1>2, <1>3, RetryEntered
  <2>2. AttemptsInv'
    BY <1>1, <1>2, <1>3, AttemptEnds
  <2>3. ReturnInv'
    BY <1>2, <1>3, NotReturned
  <2> QED
    BY <2>1, <2>2, <2>3, Parts, PTL
<1>4. CASE pc' = [pc EXCEPT ![c] = "dead-lettering"] /\ LeaveRetry(c) /\ UNCHANGED result
  <2>1. ObserverInv'
    BY <1>2, <1>4, RetryLeft
  <2>2. AttemptsInv'
    BY <1>1, <1>2, <1>4, AttemptEnds
  <2>3. ReturnInv'
    BY <1>2, <1>4, NotReturned
  <2> QED
    BY <2>1, <2>2, <2>3, Parts, PTL
<1>5. CASE LeaveRetry(c) /\ Return(c, "error")
  <2>1. pc' = [pc EXCEPT ![c] = "returned"] /\ result' = [result EXCEPT ![c] = "error"]
    BY <1>5 DEF Return
  <2>2. ObserverInv'
    BY <1>2, <1>5, <2>1, RetryLeft
  <2>3. AttemptsInv'
    BY <1>1, <1>2, <2>1, AttemptEnds
  <2>4. ReturnInv'
    BY <1>2, <2>1, Returned
  <2> QED
    BY <2>2, <2>3, <2>4, Parts, PTL
<1> QED
  BY <1>3, <1>4, <1>5 DEF AttemptFails

LEMMA WaitCancelledInv == ASSUME IInv, NEW c \in Commands, WaitCancelled(c) PROVE IInv'
<1>1. /\ pc[c] = "waiting" /\ pc' = [pc EXCEPT ![c] = "returned"] /\ LeaveRetry(c)
      /\ result' = [result EXCEPT ![c] = "error"]
      /\ UNCHANGED <<inflight, published, deadLetters>>
  BY DEF WaitCancelled, Return, effects
<1>2. ObserverInv /\ AttemptsInv /\ ReturnInv
  BY Parts
<1>3. ObserverInv'
  BY <1>1, <1>2, RetryLeft
<1>4. AttemptsInv'
  BY <1>1, <1>2, NoAttempt
<1>5. ReturnInv'
  BY <1>1, <1>2, Returned
<1> QED
  BY <1>3, <1>4, <1>5, Parts, PTL

(* What leaves all this alone. *)
LEMMA Unaffected ==
  ASSUME IInv, UNCHANGED <<pc, result, retrying, published, deadLetters, observer>>
  PROVE  IInv'
<1>1. /\ UNCHANGED <<pc, result, retrying, published, deadLetters,
                     gauge, since, inflight, began, clock>>
      /\ Retrying' = Retrying /\ Attempting' = Attempting
  BY DEF observer, Retrying, Attempting
<1>2. TypeInv' /\ RetryInv' /\ CountInv' /\ SinceInv' /\ NilMeansDurable'
  BY <1>1 DEF IInv, TypeInv, RetryInv, CountInv, SinceInv, NilMeansDurable
<1> QED
  BY <1>2 DEF IInv

LEMMA StepInv == IInv /\ [Next]_vars => IInv'
<1> SUFFICES ASSUME IInv, [Next]_vars PROVE IInv'
  OBVIOUS
<1>1. CASE Cancel \/ Done \/ UNCHANGED vars
  BY <1>1, Unaffected DEF Cancel, Done, vars, handling, effects
<1>2. ASSUME NEW c \in Commands, Step(c) PROVE IInv'
  <2>1. CASE BeginCancelled(c)
    BY <2>1, QuietReturn DEF BeginCancelled, effects
  <2>2. CASE Begin(c)
    BY <2>2, BeginInv
  <2>3. CASE StageSucceeds(c)
    BY <2>3, Unaffected DEF StageSucceeds, effects
  <2>4. CASE PublishSucceeds(c)
    BY <2>4, PublishSucceedsInv
  <2>5. CASE AttemptCancelled(c)
    <3>1. /\ \E class : AttemptFails(c, class)
          /\ published \subseteq published' /\ UNCHANGED deadLetters
      BY <2>5 DEF AttemptCancelled
    <3> QED
      BY <3>1, AttemptFailsInv
  <2>6. CASE WaitEnds(c)
    BY <2>6, WaitEndsInv
  <2>7. CASE WaitCancelled(c)
    BY <2>7, WaitCancelledInv
  <2>8. CASE DeadLetter(c)
    BY <2>8, QuietReturn DEF DeadLetter
  <2> QED
    BY <1>2, <2>1, <2>2, <2>3, <2>4, <2>5, <2>6, <2>7, <2>8 DEF Step
<1>3. ASSUME NEW c \in Commands, StageFails(c) PROVE IInv'
  <2>1. /\ \E class : AttemptFails(c, class)
        /\ published \subseteq published' /\ UNCHANGED deadLetters
    BY <1>3 DEF StageFails
  <2> QED
    BY <2>1, AttemptFailsInv
<1>4. ASSUME NEW c \in Commands, DeadLetterFails(c) PROVE IInv'
  BY <1>4, QuietReturn DEF DeadLetterFails
<1> QED
  BY <1>1, <1>2, <1>3, <1>4 DEF Next

(* The inductive invariant holds in every state. *)
THEOREM Invariant == Spec => []IInv
BY InitInv, StepInv, PTL DEF Spec

(* Handle returns nil only when the result or the dead letter of its       *)
(* command is durable, whatever failed and was cancelled before.           *)
THEOREM NilDurable == Spec => []NilMeansDurable
<1>1. IInv => NilMeansDurable
  BY DEF IInv
<1> QED
  BY <1>1, Invariant, PTL

(* The observer's gauges count the commands that retry and those that are  *)
(* attempted, and its age covers the oldest retry, with any number of      *)
(* commands side by side.                                                  *)
THEOREM TrueGauges == Spec => []GaugesAreTrue
<1>1. IInv => GaugesAreTrue
  <2> SUFFICES ASSUME IInv PROVE GaugesAreTrue
    OBVIOUS
  <2>1. {c \in Commands : retrying[c]} = Retrying
    <3>1. \A c \in Commands : retrying[c] <=> retrying[c] = TRUE
      BY Zenon DEF IInv, TypeInv
    <3> QED
      BY <3>1, Zenon DEF Retrying
  <2> QED
    BY <2>1 DEF IInv, CountInv, SinceInv, GaugesAreTrue, Attempting
<1> QED
  BY <1>1, Invariant, PTL
=============================================================================
