------------------------- MODULE ResultStoreProofs -------------------------
(***************************************************************************)
(* The current pointer and the durability of what the result writers       *)
(* acknowledge, for every number of writers, results and faults.           *)
(***************************************************************************)
EXTENDS ResultStore, TLAPS

(* What an open transaction has decided stays right until it commits: the  *)
(* row of its object is locked.                                            *)
Locked(w) ==
  /\ moves[w] => pc[w] = "advanced"
  /\ pc[w] = "advanced" =>
       /\ inHand[w].production
       /\ moves[w] <=> NewerRun(inHand[w].object, inHand[w])
       /\ \A v \in Writers \ {w} :
            pc[v] = "advanced" => inHand[v].object # inHand[w].object

(* The newest of the production runs of an object among the rows. *)
Production(rows, o) == {r \in rows : r.object = o /\ r.production}

Newest(rows, o, m) ==
  IF Production(rows, o) = {} THEN m = NoResult
  ELSE /\ m \in Production(rows, o)
       /\ \A r \in Production(rows, o) : r.revision <= m.revision

IInv ==
  /\ TypeOK
  /\ \A w \in Writers : Locked(w)
  /\ \A o \in Objects : Newest(runs, o, current[o])

-----------------------------------------------------------------------------
(* What a result in hand is. *)
LEMMA InHandIsResult ==
  ASSUME TypeOK, NEW w \in Writers, pc[w] # "idle"
  PROVE  /\ inHand[w] \in Results /\ inHand[w] # NoResult
         /\ inHand[w].object \in Objects /\ inHand[w].revision \in Nat
<1>1. inHand[w] \in Results /\ inHand[w] # NoResult
  BY ResultAssumption DEF TypeOK
<1> QED BY <1>1, ResultAssumption DEF Objects

(* The initial state has its types. *)
LEMMA InitType == Init => TypeOK
  BY ResultAssumption DEF Init, TypeOK

(* Every step keeps the types. *)
LEMMA StepType == TypeOK /\ [Next]_vars => TypeOK'
<1> SUFFICES ASSUME TypeOK, [Next]_vars PROVE TypeOK'
  OBVIOUS
<1> USE DEF TypeOK, tables, writing, Fault
<1>1. CASE UNCHANGED vars
  BY <1>1 DEF vars
<1>2. CASE Done
  BY <1>2 DEF Done, vars
<1>3. ASSUME NEW w \in Writers, NEW m \in Results, Take(w, m), UNCHANGED faults \/ Fault
      PROVE  TypeOK'
  BY <1>3, ResultAssumption DEF Take
<1>4. ASSUME NEW w \in Writers, Receive(w) \/ ReceiveAgain(w) PROVE TypeOK'
  <2>1. \A m \in settled \cup (InHand \ {NoResult}) : m \in Results
    BY DEF InHand
  <2> QED BY <1>3, <1>4, <2>1 DEF Receive, ReceiveAgain
<1>5. ASSUME NEW w \in Writers, Insert(w) \/ Advance(w) \/ WaitEnds(w) PROVE TypeOK'
  <2>1. Insert(w) => TypeOK'
    BY <1>5 DEF Insert
  <2>2. Advance(w) => TypeOK'
    <3>1. Advance(w) => NewerRun(inHand[w].object, inHand[w]) \in BOOLEAN
      BY DEF NewerRun
    <3> QED BY <3>1 DEF Advance
  <2>3. WaitEnds(w) => TypeOK'
    BY <1>5 DEF WaitEnds
  <2> QED BY <1>5, <2>1, <2>2, <2>3
<1>6. ASSUME NEW w \in Writers, pc[w] # "idle", CommitTables(w)
      PROVE  runs' \subseteq Results /\ current' \in [Objects -> Results \cup {NoResult}]
  BY <1>6, InHandIsResult DEF CommitTables
<1>7. ASSUME NEW w \in Writers, pc[w] # "idle", Return(w)
      PROVE  /\ pc' \in [Writers -> {"idle", "begun", "inserted", "advanced", "inspecting",
                                     "waiting", "dead-lettering"}]
             /\ inHand' \in [Writers -> Results \cup {NoResult}]
             /\ moves' \in [Writers -> BOOLEAN]
             /\ \A v \in Writers : pc'[v] = "idle" <=> inHand'[v] = NoResult
  BY <1>7 DEF Return, EndTo
<1>8. ASSUME NEW w \in Writers, Commit(w) \/ Inspect(w) \/ DeadLetter(w) PROVE TypeOK'
  <2>1. inHand[w] \in Results /\ pc[w] # "idle"
    BY <1>8, InHandIsResult DEF Commit, CanCommit, Inspect, DeadLetter
  <2>2. Commit(w) => TypeOK'
    BY <1>6, <1>7, <2>1 DEF Commit, ReturnNil
  <2>3. Inspect(w) => TypeOK'
    <3>1. CASE Inspect(w) /\ ReturnNil(w)
      BY <1>7, <2>1, <3>1 DEF Inspect, ReturnNil
    <3>2. CASE Inspect(w) /\ ~ReturnNil(w)
      BY <2>1, <3>2 DEF Inspect, EndTo
    <3> QED BY <3>1, <3>2
  <2>4. DeadLetter(w) => TypeOK'
    BY <1>7, <2>1 DEF DeadLetter, ReturnNil
  <2> QED BY <1>8, <2>2, <2>3, <2>4
<1>9. ASSUME NEW w \in Writers, SaveFails(w) \/ CommitAnswerLost(w) PROVE TypeOK'
  <2>1. SaveFails(w) => TypeOK'
    BY ResultAssumption DEF SaveFails, EndTo
  <2>2. CommitAnswerLost(w) => TypeOK'
    BY <1>6, ResultAssumption DEF CommitAnswerLost, CanCommit, EndTo
  <2> QED BY <1>9, <2>1, <2>2
<1>10. ASSUME NEW w \in Writers, DeadLetterFails(w) \/ Abandon(w) PROVE TypeOK'
  <2>1. inHand[w] \in Results /\ pc[w] # "idle"
    BY <1>10, InHandIsResult DEF DeadLetterFails, Abandon
  <2>2. DeadLetterFails(w) => TypeOK'
    BY <1>7, <2>1, ResultAssumption DEF DeadLetterFails
  <2>3. Abandon(w) => TypeOK'
    BY <1>6, <1>7, <2>1, ResultAssumption DEF Abandon
  <2> QED BY <1>10, <2>2, <2>3
<1> QED BY <1>1, <1>2, <1>4, <1>5, <1>8, <1>9, <1>10 DEF Next, Handle, Fails

(* The variables of the result writers have their types. *)
THEOREM TypeCorrect == Spec => []TypeOK
<1>1. Init => TypeOK
  BY InitType
<1>2. TypeOK /\ [Next]_vars => TypeOK'
  BY StepType
<1> QED BY <1>1, <1>2, PTL DEF Spec

-----------------------------------------------------------------------------
(* Steps and the invariant. *)

(* The writers other than w do nothing. *)
OnlyBy(w) ==
  \A v \in Writers \ {w} :
    pc'[v] = pc[v] /\ inHand'[v] = inHand[v] /\ moves'[v] = moves[v]

(* A step that leaves the tables alone concerns the lock of one writer.    *)
LEMMA TablesKept ==
  ASSUME IInv, TypeOK', NEW w \in Writers, OnlyBy(w), UNCHANGED tables, Locked(w)'
  PROVE  IInv'
<1>1. ASSUME NEW v \in Writers \ {w} PROVE Locked(v)'
  BY <1>1 DEF IInv, OnlyBy, Locked, NewerRun, tables
<1>2. \A o \in Objects : Newest(runs, o, current[o])'
  BY DEF IInv, tables, Newest, Production
<1> QED BY <1>1, <1>2 DEF IInv

(* A commit stores the run and moves the pointer exactly if the run is the *)
(* newest of its object; no other open transaction has decided by the      *)
(* pointer of that object.                                                 *)
LEMMA TablesCommitted ==
  ASSUME IInv, TypeOK', NEW w \in Writers, OnlyBy(w),
         CanCommit(w), CommitTables(w), pc'[w] # "advanced", ~moves'[w]
  PROVE  IInv'
<1> DEFINE m == inHand[w]
<1>1. /\ m \in Results /\ m # NoResult
      /\ m.object \in Objects /\ m.revision \in Nat
  BY InHandIsResult DEF CanCommit, IInv
<1>2. Locked(w) /\ TypeOK
  BY DEF IInv
<1>3. moves[w] => pc[w] = "advanced" /\ m.production
  BY <1>2 DEF Locked
<1>4. \A o \in Objects : current'[o] = IF moves[w] /\ o = m.object THEN m ELSE current[o]
  BY <1>1, <1>2 DEF CommitTables, TypeOK
<1>5. ASSUME NEW v \in Writers \ {w} PROVE Locked(v)'
  <2>1. Locked(v)
    BY DEF IInv
  <2>2. ASSUME pc[v] = "advanced"
        PROVE  NewerRun(inHand[v].object, inHand[v])' <=> NewerRun(inHand[v].object, inHand[v])
    <3>1. inHand[v].object \in Objects
      BY <1>2, <2>2, InHandIsResult
    <3>2. current'[inHand[v].object] = current[inHand[v].object]
      BY <1>2, <1>3, <1>4, <2>2, <3>1 DEF Locked
    <3> QED BY <3>2 DEF NewerRun, OnlyBy
  <2> QED BY <2>1, <2>2 DEF Locked, OnlyBy
<1>6. ASSUME NEW o \in Objects PROVE Newest(runs, o, current[o])'
  <2>1. Newest(runs, o, current[o])
    BY DEF IInv
  <2>2. /\ runs' = runs \cup {m}
        /\ runs \subseteq Results /\ \A r \in Results : r.revision \in Nat
    BY <1>2, ResultAssumption DEF CommitTables, TypeOK
  <2>3. CASE m.object = o /\ m.production
    <3>1. pc[w] = "advanced" /\ (moves[w] <=> NewerRun(o, m))
      BY <1>2, <2>3 DEF CanCommit, Locked
    <3>2. Production(runs', o) = Production(runs, o) \cup {m}
      BY <2>2, <2>3 DEF Production
    <3>3. CASE moves[w]
      <4>1. current'[o] = m
        BY <1>4, <2>3, <3>3
      <4>2. \A r \in Production(runs, o) : r.revision <= m.revision
        <5>1. CASE current[o] = NoResult
          <6>1. Production(runs, o) = {}
            BY <2>1, <2>2, <5>1, ResultAssumption DEF Newest, Production
          <6> QED BY <6>1
        <5>2. CASE current[o] # NoResult
          <6>1. /\ current[o] \in Production(runs, o)
                /\ \A r \in Production(runs, o) : r.revision <= current[o].revision
            BY <2>1, <5>2 DEF Newest
          <6>2. /\ current[o].revision < m.revision
                /\ \A r \in Production(runs, o) : r.revision \in Nat
            BY <2>2, <3>1, <3>3, <5>2 DEF NewerRun, Production
          <6> QED BY <1>1, <6>1, <6>2
        <5> QED BY <5>1, <5>2
      <4> QED BY <1>1, <3>2, <4>1, <4>2 DEF Newest
    <3>4. CASE ~moves[w]
      <4>1. current'[o] = current[o] /\ current[o] # NoResult
        BY <1>4, <3>1, <3>4 DEF NewerRun
      <4>2. /\ current[o] \in Production(runs, o)
            /\ current[o].revision \in Nat
            /\ m.revision <= current[o].revision
        <5>1. current[o] \in Production(runs, o)
          BY <2>1, <4>1 DEF Newest
        <5>2. current[o].revision \in Nat
          BY <2>2, <5>1 DEF Production
        <5>3. ~(current[o].revision < m.revision)
          BY <3>1, <3>4, <4>1 DEF NewerRun
        <5> QED BY <1>1, <5>1, <5>2, <5>3
      <4> QED BY <2>1, <3>2, <4>1, <4>2 DEF Newest
    <3> QED BY <3>3, <3>4
  <2>4. CASE ~(m.object = o /\ m.production)
    <3>1. Production(runs', o) = Production(runs, o)
      BY <2>2, <2>4 DEF Production
    <3>2. current'[o] = current[o]
      BY <1>3, <1>4, <2>4
    <3> QED BY <2>1, <3>1, <3>2 DEF Newest
  <2> QED BY <2>3, <2>4
<1>7. Locked(w)'
  BY DEF Locked
<1> QED BY <1>5, <1>6, <1>7 DEF IInv

(* Before the upsert a transaction has decided nothing. *)
LEMMA Undecided ==
  ASSUME IInv, NEW w \in Writers, pc[w] # "advanced"
  PROVE  moves[w] = FALSE
BY DEF IInv, TypeOK, Locked

(* Every step keeps the invariant. *)
LEMMA StepInv == IInv /\ [Next]_vars => IInv'
<1> SUFFICES ASSUME IInv, [Next]_vars PROVE IInv'
  OBVIOUS
<1> USE DEF writing, tables
<1>1. TypeOK /\ TypeOK'
  BY StepType DEF IInv
<1>2. ASSUME UNCHANGED vars PROVE IInv'
  <2>1. \A w \in Writers : Locked(w)'
    BY <1>2 DEF IInv, vars, Locked, NewerRun
  <2>2. \A o \in Objects : Newest(runs, o, current[o])'
    BY <1>2 DEF IInv, vars, Newest, Production
  <2> QED BY <1>1, <2>1, <2>2 DEF IInv
<1>3. ASSUME NEW w \in Writers, NEW to \in {"idle", "waiting", "dead-lettering"}, EndTo(w, to)
      PROVE  pc'[w] = to /\ moves'[w] = FALSE /\ Locked(w)'
  BY <1>1, <1>3 DEF EndTo, TypeOK, Locked
<1>4. ASSUME NEW w \in Writers, Return(w) \/ (EndTo(w, "waiting") /\ UNCHANGED inHand)
      PROVE  OnlyBy(w) /\ Locked(w)' /\ pc'[w] # "advanced" /\ ~moves'[w]
  BY <1>1, <1>3, <1>4 DEF Return, EndTo, OnlyBy, TypeOK
<1>5. ASSUME NEW w \in Writers, Receive(w) \/ ReceiveAgain(w) \/ Insert(w) \/ WaitEnds(w)
      PROVE  IInv'
  <2>1. pc[w] # "advanced" /\ pc'[w] # "advanced" /\ moves' = moves
    BY <1>1, <1>5 DEF Receive, ReceiveAgain, Take, Insert, WaitEnds, TypeOK
  <2>2. OnlyBy(w) /\ UNCHANGED tables
    BY <1>1, <1>5 DEF Receive, ReceiveAgain, Take, Insert, WaitEnds, OnlyBy, TypeOK
  <2>3. Locked(w)'
    BY <2>1, Undecided DEF Locked
  <2> QED BY <1>1, <2>2, <2>3, TablesKept
<1>6. ASSUME NEW w \in Writers, Advance(w) PROVE IInv'
  <2>1. OnlyBy(w) /\ UNCHANGED tables
    BY <1>1, <1>6 DEF Advance, OnlyBy, TypeOK
  <2>2. Locked(w)'
    <3>1. /\ moves'[w] <=> NewerRun(inHand[w].object, inHand[w])'
          /\ pc'[w] = "advanced" /\ inHand'[w].production
      BY <1>1, <1>6 DEF Advance, NewerRun, TypeOK
    <3>2. \A v \in Writers \ {w} : pc'[v] = "advanced" => inHand'[v].object # inHand'[w].object
      BY <1>6, <2>1 DEF Advance, OnlyBy, HoldsCurrent
    <3> QED BY <3>1, <3>2 DEF Locked
  <2> QED BY <1>1, <2>1, <2>2, TablesKept
<1>7. ASSUME NEW w \in Writers, CanCommit(w), CommitTables(w),
             Return(w) \/ (EndTo(w, "waiting") /\ UNCHANGED inHand)
      PROVE  IInv'
  BY <1>1, <1>4, <1>7, TablesCommitted
<1>8. ASSUME NEW w \in Writers, runs' = runs, current' = current,
             Return(w) \/ (EndTo(w, "waiting") /\ UNCHANGED inHand)
      PROVE  IInv'
  BY <1>1, <1>4, <1>8, TablesKept
<1>9. ASSUME NEW w \in Writers, Inspect(w) PROVE IInv'
  <2>1. ASSUME EndTo(w, "dead-lettering"), UNCHANGED inHand PROVE IInv'
    <3>1. OnlyBy(w) /\ UNCHANGED tables
      BY <1>1, <1>9, <2>1 DEF Inspect, EndTo, OnlyBy, TypeOK
    <3> QED BY <1>1, <1>3, <2>1, <3>1, TablesKept
  <2>2. CASE ReturnNil(w)
    BY <1>8, <1>9, <2>2 DEF Inspect, ReturnNil
  <2> QED BY <1>9, <2>1, <2>2 DEF Inspect
<1>10. ASSUME NEW w \in Writers,
              Commit(w) \/ DeadLetter(w) \/ SaveFails(w) \/ CommitAnswerLost(w)
              \/ DeadLetterFails(w) \/ Abandon(w)
       PROVE  IInv'
  <2>1. ASSUME Commit(w) PROVE IInv'
    <3>1. CanCommit(w) /\ CommitTables(w) /\ Return(w)
      BY <2>1 DEF Commit, ReturnNil
    <3> QED BY <1>7, <3>1
  <2>2. DeadLetter(w) => IInv'
    BY <1>8 DEF DeadLetter, ReturnNil
  <2>3. SaveFails(w) => IInv'
    BY <1>8 DEF SaveFails
  <2>4. CommitAnswerLost(w) => IInv'
    BY <1>7 DEF CommitAnswerLost
  <2>5. DeadLetterFails(w) => IInv'
    BY <1>8 DEF DeadLetterFails
  <2>6. Abandon(w) => IInv'
    BY <1>7, <1>8 DEF Abandon
  <2> QED BY <1>10, <2>1, <2>2, <2>3, <2>4, <2>5, <2>6
<1> QED BY <1>2, <1>5, <1>6, <1>9, <1>10 DEF Next, Handle, Fails, Done

(* No transaction, no row and no pointer at the start. *)
LEMMA InitInv == Init => IInv
<1> SUFFICES ASSUME Init PROVE IInv
  OBVIOUS
<1>1. \A w \in Writers : Locked(w)
  BY DEF Init, Locked
<1>2. \A o \in Objects : Newest(runs, o, current[o])
  BY DEF Init, Newest, Production
<1> QED BY <1>1, <1>2, InitType DEF IInv

(* The inductive invariant holds in every state. *)
THEOREM Invariant == Spec => []IInv
<1>1. Init => IInv
  BY InitInv
<1>2. IInv /\ [Next]_vars => IInv'
  BY StepInv
<1> QED BY <1>1, <1>2, PTL DEF Spec

(* The pointer of an object is the newest revision of its production runs, *)
(* in whatever order, and however often, the writers save them.            *)
THEOREM NewestIsCurrent == Spec => []CurrentIsNewest
<1>1. IInv => CurrentIsNewest
  BY DEF IInv, Newest, Production, CurrentIsNewest
<1> QED BY <1>1, Invariant, PTL

(* The pointer of an object never goes back, and is never replaced by a    *)
(* run of the same revision.                                               *)
THEOREM NeverMovesBack == Spec => CurrentNeverMovesBack
<1>1. ASSUME IInv, IInv', [Next]_vars, NEW o \in Objects, current[o] # NoResult,
             current'[o] # current[o]
      PROVE  current'[o] # NoResult /\ current'[o].revision > current[o].revision
  <2>1. PICK w \in Writers : CanCommit(w) /\ CommitTables(w)
    BY <1>1 DEF vars, writing, tables, Next, Done, Handle, Fails, Receive, ReceiveAgain, Take, Insert,
                Advance, Commit, Inspect, WaitEnds, DeadLetter, SaveFails,
                CommitAnswerLost, DeadLetterFails, Abandon
  <2>2. moves[w] /\ o = inHand[w].object /\ current'[o] = inHand[w]
    BY <1>1, <2>1 DEF CommitTables, IInv, TypeOK
  <2>3. NewerRun(o, inHand[w])
    BY <1>1, <2>2 DEF IInv, Locked
  <2>4. inHand[w] # NoResult /\ inHand[w].revision \in Nat
    BY <1>1, <2>1, InHandIsResult DEF IInv, CanCommit
  <2>5. current[o].revision \in Nat
    BY <1>1, ResultAssumption DEF IInv, TypeOK
  <2> QED BY <1>1, <2>2, <2>3, <2>4, <2>5 DEF NewerRun
<1>2. IInv /\ IInv' /\ [Next]_vars =>
        [\A o \in Objects :
           current[o] # NoResult =>
             \/ current'[o] = current[o]
             \/ current'[o] # NoResult /\ current'[o].revision > current[o].revision]_vars
  BY <1>1
<1> QED BY <1>2, Invariant, PTL DEF Spec, CurrentNeverMovesBack

(* Handle returns nil only for what is in the database or in the dead      *)
(* letter topic: neither is ever undone.                                   *)
THEOREM Durable == Spec => []SettledIsDurable
<1>1. Init => SettledIsDurable
  BY DEF Init, SettledIsDurable
<1>2. ASSUME SettledIsDurable, [Next]_vars PROVE SettledIsDurable'
  <2>1. runs \subseteq runs' /\ deadLetters \subseteq deadLetters'
    BY <1>2 DEF vars, writing, tables, Next, Done, Handle, Fails, Receive, ReceiveAgain, Take, Insert,
                Advance, Commit, CommitTables, Inspect, WaitEnds, DeadLetter, SaveFails,
                CommitAnswerLost, DeadLetterFails, Abandon
  <2>2. ASSUME NEW m \in settled' \ settled
        PROVE  m \in deadLetters' \/ \E r \in runs' : SameRun(r, m)
    <3>1. PICK w \in Writers : Commit(w) \/ Inspect(w) \/ DeadLetter(w)
      BY <1>2, <2>2
      DEF vars, writing, tables, Next, Done, Handle, Fails, Receive, ReceiveAgain, Take, Insert,
          Advance, WaitEnds, SaveFails, CommitAnswerLost, DeadLetterFails, Abandon
    <3>2. m = inHand[w]
      BY <2>2, <3>1 DEF Commit, Inspect, DeadLetter, ReturnNil
    <3>3. Commit(w) => m \in runs' /\ SameRun(m, m)
      BY <3>2 DEF Commit, CommitTables, SameRun
    <3>4. Inspect(w) => \E r \in runs' : SameRun(r, m)
      BY <2>1, <2>2, <3>2 DEF Inspect, Idempotent
    <3>5. DeadLetter(w) => m \in deadLetters'
      BY <3>2 DEF DeadLetter
    <3> QED BY <3>1, <3>3, <3>4, <3>5
  <2> QED BY <1>2, <2>1, <2>2 DEF SettledIsDurable
<1>3. SettledIsDurable /\ [Next]_vars => SettledIsDurable'
  BY <1>2
<1> QED BY <1>1, <1>3, PTL DEF Spec

-----------------------------------------------------------------------------
(* Why a result is dead-lettered. *)

(* A result does not decode, or another run has one of its keys. *)
Cause(m) == m.valid => \E r \in runs : SameKey(r, m) /\ ~SameRun(r, m)

(* What a writer knows of the keys of its result: while its transaction    *)
(* holds them nobody else has them, and what it found taken stays taken.   *)
Keyed(w) ==
  /\ pc[w] \notin {"idle", "dead-lettering"} => inHand[w].valid
  /\ HoldsRun(w) => \A r \in runs : ~SameKey(r, inHand[w])
  /\ HoldsRun(w) => \A v \in Writers \ {w} : HoldsRun(v) => ~SameKey(inHand[v], inHand[w])
  /\ pc[w] = "inspecting" => \E r \in runs : SameKey(r, inHand[w])
  /\ pc[w] = "dead-lettering" => Cause(inHand[w])

(* No two rows share a key, and every row decoded. *)
Rows == (\A a, b \in runs : SameKey(a, b) => a = b) /\ \A r \in runs : r.valid

CauseInv ==
  /\ TypeOK
  /\ Rows
  /\ \A w \in Writers : Keyed(w)
  /\ \A m \in deadLetters : Cause(m)

(* A step of w that leaves the rows alone. *)
LEMMA RowsKept ==
  ASSUME CauseInv, TypeOK', NEW w \in Writers, OnlyBy(w), runs' = runs,
         HoldsRun(w)' => HoldsRun(w) /\ inHand'[w] = inHand[w],
         Keyed(w)',
         \A m \in deadLetters' : m \in deadLetters \/ Cause(m)
  PROVE  CauseInv'
<1>1. ASSUME NEW v \in Writers \ {w} PROVE Keyed(v)'
  BY DEF CauseInv, OnlyBy, Keyed, HoldsRun, Cause
<1>2. Rows' /\ \A m \in deadLetters' : Cause(m)'
  BY DEF CauseInv, Rows, Cause
<1> QED BY <1>1, <1>2 DEF CauseInv

(* The keys a commit adds belong to no row and to no other transaction.    *)
LEMMA RowsAdded ==
  ASSUME CauseInv, TypeOK', NEW w \in Writers, OnlyBy(w),
         HoldsRun(w), CommitTables(w), ~HoldsRun(w)', Keyed(w)', deadLetters' = deadLetters
  PROVE  CauseInv'
<1>1. runs' = runs \cup {inHand[w]} /\ inHand[w].valid
  BY DEF CommitTables, CauseInv, Keyed, HoldsRun
<1>2. \A r \in runs : ~SameKey(r, inHand[w]) /\ ~SameKey(inHand[w], r)
  BY DEF CauseInv, Keyed, SameKey
<1>3. Rows'
  BY <1>1, <1>2 DEF CauseInv, Rows
<1>4. ASSUME NEW m, Cause(m) PROVE Cause(m)'
  BY <1>1, <1>4 DEF Cause
<1>5. ASSUME NEW v \in Writers \ {w} PROVE Keyed(v)'
  <2>1. Keyed(v) /\ pc'[v] = pc[v] /\ inHand'[v] = inHand[v]
    BY DEF CauseInv, OnlyBy
  <2>2. HoldsRun(v) => ~SameKey(inHand[w], inHand[v])
    BY <2>1 DEF Keyed
  <2>3. HoldsRun(v)' => \A u \in Writers \ {v} : HoldsRun(u)' => ~SameKey(inHand[u], inHand[v])'
    BY <2>1 DEF Keyed, OnlyBy, HoldsRun, SameKey
  <2>4. HoldsRun(v)' => \A r \in runs' : ~SameKey(r, inHand'[v])
    BY <1>1, <2>1, <2>2 DEF Keyed, HoldsRun
  <2>5. pc'[v] = "dead-lettering" => Cause(inHand[v])'
    BY <1>4, <2>1 DEF Keyed, Cause
  <2> QED BY <1>1, <2>1, <2>3, <2>4, <2>5 DEF Keyed, SameKey
<1>6. \A m \in deadLetters' : Cause(m)'
  BY <1>4 DEF CauseInv
<1> QED BY <1>3, <1>5, <1>6 DEF CauseInv

(* Every step keeps the reasons. *)
LEMMA StepCause == CauseInv /\ [Next]_vars => CauseInv'
<1> SUFFICES ASSUME CauseInv, [Next]_vars PROVE CauseInv'
  OBVIOUS
<1> USE DEF writing, tables
<1>1. TypeOK /\ TypeOK'
  BY StepType DEF CauseInv
<1>2. CASE UNCHANGED vars
  BY <1>1, <1>2 DEF CauseInv, vars, Keyed, HoldsRun, Rows, Cause
<1>3. ASSUME NEW w \in Writers, Return(w)
      PROVE  OnlyBy(w) /\ pc'[w] = "idle" /\ Keyed(w)' /\ ~HoldsRun(w)'
  BY <1>1, <1>3 DEF Return, EndTo, OnlyBy, TypeOK, Keyed, HoldsRun
<1>4. ASSUME NEW w \in Writers, HoldsRun(w) \/ pc[w] \in {"begun", "inspecting"},
             EndTo(w, "waiting"), UNCHANGED inHand
      PROVE  OnlyBy(w) /\ pc'[w] = "waiting" /\ Keyed(w)' /\ ~HoldsRun(w)'
  BY <1>1, <1>4 DEF CauseInv, EndTo, OnlyBy, TypeOK, Keyed, HoldsRun
<1>5. ASSUME NEW w \in Writers, Receive(w) \/ ReceiveAgain(w) PROVE CauseInv'
  <2>1. PICK m : Take(w, m)
    BY <1>5 DEF Receive, ReceiveAgain
  <2>2. /\ inHand'[w] = m /\ OnlyBy(w) /\ runs' = runs /\ deadLetters' = deadLetters
        /\ pc'[w] = IF m.valid THEN "begun" ELSE "dead-lettering"
    BY <1>1, <2>1 DEF Take, OnlyBy, TypeOK
  <2>3. Keyed(w)' /\ ~HoldsRun(w)'
    BY <2>2 DEF Keyed, HoldsRun, Cause
  <2> QED BY <1>1, <2>2, <2>3, RowsKept
<1>6. ASSUME NEW w \in Writers, Insert(w) PROVE CauseInv'
  <2>1. /\ pc[w] = "begun" /\ OnlyBy(w)
        /\ UNCHANGED <<inHand, runs, deadLetters>>
        /\ pc'[w] = IF \E r \in runs : SameKey(r, inHand[w]) THEN "inspecting" ELSE "inserted"
        /\ \A v \in Writers : HoldsRun(v) => ~SameKey(inHand[v], inHand[w])
    BY <1>1, <1>6 DEF Insert, OnlyBy, TypeOK
  <2>2. inHand[w].valid
    BY <2>1 DEF CauseInv, Keyed
  <2>3. Keyed(w)'
    BY <2>1, <2>2 DEF Keyed, HoldsRun, OnlyBy
  <2>4. ASSUME NEW v \in Writers \ {w} PROVE Keyed(v)'
    <3>1. Keyed(v) /\ pc'[v] = pc[v]
      BY <2>1 DEF CauseInv, OnlyBy
    <3>2. HoldsRun(v)' => \A u \in Writers \ {v} : HoldsRun(u)' => ~SameKey(inHand[u], inHand[v])
      <4>1. \A u \in Writers \ {v, w} : HoldsRun(u)' => HoldsRun(u)
        BY <2>1 DEF OnlyBy, HoldsRun
      <4>2. HoldsRun(v)' => HoldsRun(v) /\ ~SameKey(inHand[w], inHand[v])
        BY <2>1, <3>1 DEF HoldsRun, SameKey
      <4> QED BY <3>1, <4>1, <4>2 DEF Keyed
    <3> QED BY <2>1, <3>1, <3>2 DEF Keyed, HoldsRun, Cause
  <2>5. Rows' /\ \A m \in deadLetters' : Cause(m)'
    BY <2>1 DEF CauseInv, Rows, Cause
  <2> QED BY <1>1, <2>3, <2>4, <2>5 DEF CauseInv
<1>7. ASSUME NEW w \in Writers, Advance(w) \/ WaitEnds(w) PROVE CauseInv'
  <2>1. /\ OnlyBy(w) /\ UNCHANGED <<inHand, runs, deadLetters>>
        /\ \/ pc[w] = "inserted" /\ pc'[w] = "advanced"
           \/ pc[w] = "waiting" /\ pc'[w] = "begun"
    BY <1>1, <1>7 DEF Advance, WaitEnds, OnlyBy, TypeOK
  <2>2. Keyed(w)'
    BY <2>1 DEF CauseInv, Keyed, HoldsRun, OnlyBy
  <2> QED BY <1>1, <2>1, <2>2, RowsKept DEF HoldsRun
<1>8. ASSUME NEW w \in Writers, Inspect(w) PROVE CauseInv'
  <2>1. pc[w] = "inspecting" /\ runs' = runs /\ deadLetters' = deadLetters
    BY <1>8 DEF Inspect
  <2>2. CASE Return(w)
    BY <1>1, <1>3, <2>1, <2>2, RowsKept
  <2>3. CASE ~Idempotent(inHand[w]) /\ EndTo(w, "dead-lettering") /\ UNCHANGED inHand
    <3>1. OnlyBy(w) /\ pc'[w] = "dead-lettering"
      BY <1>1, <2>3 DEF EndTo, OnlyBy, TypeOK
    <3>2. Cause(inHand[w])
      BY <2>1, <2>3 DEF CauseInv, Keyed, Cause, Idempotent
    <3>3. Keyed(w)' /\ ~HoldsRun(w)'
      BY <2>1, <2>3, <3>1, <3>2 DEF Keyed, HoldsRun, Cause
    <3> QED BY <1>1, <2>1, <3>1, <3>3, RowsKept
  <2> QED BY <1>8, <2>2, <2>3 DEF Inspect, ReturnNil
<1>9. ASSUME NEW w \in Writers, CanCommit(w), CommitTables(w), deadLetters' = deadLetters,
             Return(w) \/ (EndTo(w, "waiting") /\ UNCHANGED inHand)
      PROVE  CauseInv'
  <2>1. HoldsRun(w)
    BY <1>9 DEF CanCommit, HoldsRun
  <2> QED BY <1>1, <1>3, <1>4, <1>9, <2>1, RowsAdded
<1>10. ASSUME NEW w \in Writers, DeadLetter(w) \/ DeadLetterFails(w) PROVE CauseInv'
  <2>1. /\ pc[w] = "dead-lettering" /\ Return(w) /\ runs' = runs
        /\ deadLetters' \subseteq deadLetters \cup {inHand[w]}
    BY <1>10 DEF DeadLetter, DeadLetterFails, ReturnNil
  <2>2. Cause(inHand[w])
    BY <2>1 DEF CauseInv, Keyed
  <2> QED BY <1>1, <1>3, <2>1, <2>2, RowsKept
<1>11. ASSUME NEW w \in Writers, Commit(w) \/ CommitAnswerLost(w) \/ SaveFails(w) \/ Abandon(w)
       PROVE  CauseInv'
  <2>1. Commit(w) \/ CommitAnswerLost(w) => CauseInv'
    BY <1>9 DEF Commit, CommitAnswerLost, ReturnNil
  <2>2. SaveFails(w) => CauseInv'
    BY <1>1, <1>4, RowsKept DEF SaveFails, HoldsRun
  <2>3. Abandon(w) => CauseInv'
    BY <1>1, <1>3, <1>9, RowsKept DEF Abandon
  <2> QED BY <1>11, <2>1, <2>2, <2>3
<1> QED BY <1>2, <1>5, <1>6, <1>7, <1>8, <1>10, <1>11 DEF Next, Handle, Fails, Done

(* A result is dead-lettered only because it does not decode or because    *)
(* another stored run has one of its keys, never because of its own row,   *)
(* and no stored run is a dead letter too.                                 *)
THEOREM ForCause == Spec => []DeadLetteredForCause
<1>1. Init => CauseInv
  BY InitType DEF Init, CauseInv, Rows, Keyed, HoldsRun
<1>2. CauseInv => DeadLetteredForCause
  <2> SUFFICES ASSUME CauseInv, NEW m \in deadLetters
               PROVE  m \notin runs /\ (m.valid => \E r \in runs : SameKey(r, m) /\ ~SameRun(r, m))
    BY DEF DeadLetteredForCause
  <2>1. Cause(m)
    BY DEF CauseInv
  <2>2. ASSUME m \in runs PROVE FALSE
    <3>1. m.valid
      BY <2>2 DEF CauseInv, Rows
    <3>2. PICK r \in runs : SameKey(r, m) /\ ~SameRun(r, m)
      BY <2>1, <3>1 DEF Cause
    <3>3. r = m
      BY <2>2, <3>2 DEF CauseInv, Rows
    <3> QED BY <3>2, <3>3 DEF SameRun
  <2> QED BY <2>1, <2>2 DEF Cause
<1> QED BY <1>1, <1>2, StepCause, PTL DEF Spec
=============================================================================
