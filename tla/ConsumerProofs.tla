--------------------------- MODULE ConsumerProofs ---------------------------
(***************************************************************************)
(* The workers of each of the three runners are an at-least-once consumer, *)
(* for every number of workers, partitions, records and faults.            *)
(*                                                                         *)
(* First what ConsumerSession alone keeps (SharedInv), with a lemma for    *)
(* each of its steps and one for each kind of step a runner adds; then the *)
(* runners: what each knows of its work, its inductive invariant, and its  *)
(* refinement of AtLeastOnce.                                              *)
(***************************************************************************)
EXTENDS AsyncConsumer, SerialConsumer, FetchConsumer, FiniteSetTheorems, TLAPS

(* The process is gone, or its session is: the group does not know it.     *)
Gone(w) == pc[w] \in {"closed", "exited", "crashed"}

(* The loop is where a new batch starts from the fetch position.           *)
BetweenBatches(w) == pc[w] \in {"idle", "polling"}

(* Nothing of the batch has been committed yet. *)
Uncommitted(w) == pc[w] \in {"polled", "processing", "committing"}

(* Everything of partition p before position n has had its effect.         *)
Done(p, n) == \A i \in 1 .. Len(Log[p]) : i < n => <<p, i>> \in effects

Before(r) == {e \in Records : SameLaneBefore(e, r)}

-----------------------------------------------------------------------------
(* What the sessions of all three runners keep. *)

Positioned(w) ==
  /\ \A p \in Partitions : position[w][p] <= End(p) /\ start[w][p] <= position[w][p]
  /\ Window(w) => \A p \in Partitions \ assigned[w] : start[w][p] = position[w][p]

Session(w) ==
  /\ Gone(w) <=> member[w] = "out"
  /\ Gone(w) => assigned[w] = {} /\ position[w] = NoStart
  /\ ~Window(w) => start[w] = NoStart
  /\ ~Bound(w) => ~captured[w] /\ ~ctxDone[w]
  /\ captured[w] \/ ctxDone[w] => stale[w]

(* What relates a session to the effects. *)
Delivered(w) ==
  /\ BetweenBatches(w) => \A p \in Partitions : Done(p, position[w][p])
  /\ Window(w) => \A p \in Partitions : Done(p, start[w][p])

(* What relates a session to the broker. *)
Owned(w) ==
  /\ member[w] = "joined" =>
       \A p \in Partitions : p \in assigned[w] <=> owner[p] = w
  /\ member[w] # "joined" /\ pc[w] # "crashed" => \A p \in Partitions : owner[p] # w
  /\ member[w] = "joined" =>
       \A p \in assigned[w] : /\ BetweenBatches(w) => position[w][p] = committed[p]
                              /\ Uncommitted(w) => start[w][p] = committed[p]

Holds(w) == Positioned(w) /\ Session(w) /\ Delivered(w) /\ Owned(w)

SharedInv ==
  /\ SessionTypeOK
  /\ \A p \in Partitions : committed[p] <= End(p) /\ Done(p, committed[p])
  /\ \A w \in Workers : Holds(w)

-----------------------------------------------------------------------------
(* Types. *)

(* Positions of Cursors are positive numbers. *)
LEMMA CursorsType == Cursors \subseteq [Partitions -> Nat \ {0}]
<1>1. \A p \in Partitions : End(p) \in Nat \ {0}
  BY GroupAssumption DEF End
<1>2. UNION {1 .. End(p) : p \in Partitions} \subseteq Nat \ {0}
  BY <1>1
<1> QED BY <1>2 DEF Cursors

(* The positions of a session that has none yet are positions.             *)
LEMMA NoStartType == NoStart \in [Partitions -> Nat \ {0}]
  BY DEF NoStart

(* The initial state of the sessions is well typed. *)
LEMMA SessionInitType == SessionInit => SessionTypeOK
<1> SUFFICES ASSUME SessionInit PROVE SessionTypeOK
  OBVIOUS
<1>1. GroupTypeOK
  <2>1. GroupInit
    BY DEF SessionInit
  <2>2. committed \in [Partitions -> Nat \ {0}]
    BY <2>1 DEF GroupInit
  <2>3. position = [w \in Workers |-> NoStart]
    BY <2>1 DEF GroupInit, NoStart
  <2>4. position \in [Workers -> [Partitions -> Nat \ {0}]]
    BY <2>3, NoStartType
  <2>5. /\ owner \in [Partitions -> Workers \cup {NoOwner}]
        /\ rebalancing \in BOOLEAN
        /\ member \in [Workers -> {"joined", "evicted", "out"}]
    BY <2>1 DEF GroupInit
  <2>6. assigned \in [Workers -> SUBSET Partitions]
    BY <2>1 DEF GroupInit
  <2> QED BY <2>2, <2>4, <2>5, <2>6 DEF GroupTypeOK
<1>2. /\ pc \in [Workers -> {"idle"}]
      /\ stopping \in [Workers -> BOOLEAN]
      /\ stale \in [Workers -> BOOLEAN]
      /\ signal \in [Workers -> BOOLEAN]
      /\ captured \in [Workers -> BOOLEAN]
      /\ ctxDone \in [Workers -> BOOLEAN]
  BY DEF SessionInit
<1>3. start \in [Workers -> [Partitions -> Nat \ {0}]]
  BY NoStartType DEF SessionInit
<1>4. effects \subseteq Records /\ faults \in 0 .. MaxFaults
  BY FaultsAssumption DEF SessionInit
<1> QED BY <1>1, <1>2, <1>3, <1>4 DEF SessionTypeOK

(* The type of what the group keeps is kept by a rebalance. *)
LEMMA RebalanceGroupType ==
  ASSUME GroupTypeOK, StartRebalance \/ CompleteRebalance(Open)
  PROVE  GroupTypeOK'
<1>1. StartRebalance => GroupTypeOK'
  BY DEF StartRebalance, GroupTypeOK
<1>2. ASSUME CompleteRebalance(Open) PROVE GroupTypeOK'
  <2>1. owner' \in [Partitions -> Workers \cup {NoOwner}]
    BY <1>2 DEF CompleteRebalance, Joined
  <2>2. position' \in [Workers -> [Partitions -> Nat \ {0}]]
    BY <1>2 DEF CompleteRebalance, GroupTypeOK
  <2>3. assigned' \in [Workers -> SUBSET Partitions]
    BY <1>2 DEF CompleteRebalance, GroupTypeOK
  <2> QED BY <1>2, <2>1, <2>2, <2>3 DEF CompleteRebalance, GroupTypeOK
<1> QED BY <1>1, <1>2

(* The type of what the group keeps is kept by what happens to a member    *)
(* and by its commits.                                                     *)
LEMMA GroupType ==
  ASSUME GroupTypeOK, NEW w \in Workers
  PROVE  /\ Evict(w) => GroupTypeOK'
         /\ Rejoin(w) => GroupTypeOK'
         /\ Leave(w) => GroupTypeOK'
         /\ Join(w) => GroupTypeOK'
         /\ UNCHANGED groupVars => GroupTypeOK'
         /\ \A n \in [Partitions -> Nat \ {0}], S \in SUBSET Partitions :
              Commit(w, [p \in S |-> n[p]]) => GroupTypeOK'
<1>1. Evict(w) => GroupTypeOK'
  BY DEF Evict, GroupTypeOK, Disowned
<1>2. Rejoin(w) => GroupTypeOK'
  BY DEF Rejoin, GroupTypeOK, ForgetAssignment
<1>3. Leave(w) => GroupTypeOK'
  BY DEF Leave, GroupTypeOK, ForgetAssignment, Disowned
<1>4. Join(w) => GroupTypeOK'
  BY DEF Join, GroupTypeOK
<1>5. UNCHANGED groupVars => GroupTypeOK'
  BY DEF groupVars, GroupTypeOK
<1>6. ASSUME NEW n \in [Partitions -> Nat \ {0}], NEW S \in SUBSET Partitions,
             Commit(w, [p \in S |-> n[p]])
      PROVE  GroupTypeOK'
  BY <1>6 DEF Commit, GroupTypeOK
<1> QED BY <1>1, <1>2, <1>3, <1>4, <1>5, <1>6

(* A rebalance keeps the types. *)
LEMMA RebalanceType == SessionTypeOK /\ Rebalance => SessionTypeOK'
<1> SUFFICES ASSUME SessionTypeOK, Rebalance PROVE SessionTypeOK'
  OBVIOUS
<1>1. GroupTypeOK'
  BY RebalanceGroupType DEF Rebalance, SessionTypeOK
<1> QED BY <1>1 DEF Rebalance, SessionTypeOK, sessionVars, NoFault

(* A step of the loop inside a turn keeps the types. *)
LEMMA InTurnType ==
  ASSUME SessionTypeOK, GroupTypeOK', NEW w \in Workers,
         NEW from, NEW to \in {"polled", "processing", "returned", "committing", "releasing"},
         Goto(w, from, to), Fault \/ NoFault,
         UNCHANGED <<stopping, stale, signal, captured, ctxDone, start>>,
         effects' \subseteq Records
  PROVE  SessionTypeOK'
  BY FaultsAssumption DEF SessionTypeOK, Goto, Fault, NoFault

(* The end of a turn keeps the types. *)
LEMMA TurnEndType ==
  ASSUME SessionTypeOK, GroupTypeOK', NEW w \in Workers,
         NEW from, NEW to \in {"idle", "exiting", "yielded"},
         Goto(w, from, to), Fault \/ NoFault, EndTurn(w),
         UNCHANGED <<stopping, signal>>,
         effects' \subseteq Records
  PROVE  SessionTypeOK'
  BY NoStartType, FaultsAssumption DEF SessionTypeOK, Goto, Fault, NoFault, EndTurn

(* LeaveTurn is such an end. *)
LEMMA LeaveTurnType ==
  ASSUME SessionTypeOK, NEW w \in Workers,
         NEW from, NEW to \in {"idle", "exiting", "yielded"}, LeaveTurn(w, from, to)
  PROVE  SessionTypeOK'
<1>1. GroupTypeOK' /\ effects' \subseteq Records
  BY GroupType DEF LeaveTurn, SessionTypeOK
<1> QED BY <1>1, TurnEndType DEF LeaveTurn

(* The steps of the session that ConsumerSession defines keep the types. *)
LEMMA SessionType ==
  ASSUME SessionTypeOK, NEW w \in Workers, NEW max,
         \/ SessionStep(w) \/ Callback(w) \/ Surroundings(w) \/ Crash(w)
         \/ PollReturns(w, max)
  PROVE  SessionTypeOK'
<1> USE DEF Goto, Fault, NoFault, Window, Comparing, Bound
<1>1. GroupTypeOK
  BY DEF SessionTypeOK
<1>2. ASSUME ReadGeneration(w) \/ Bind(w) \/ Callback(w) \/ Shutdown(w) PROVE SessionTypeOK'
  <2>1. GroupTypeOK'
    BY <1>1, <1>2, GroupType
    DEF ReadGeneration, Bind, Callback, CallbackBlocked, Request, CallCancel, Shutdown
  <2>2. ReadGeneration(w) => SessionTypeOK'
    BY <2>1 DEF ReadGeneration, SessionTypeOK
  <2>3. Bind(w) => SessionTypeOK'
    BY <2>1 DEF Bind, SessionTypeOK
  <2>4. Callback(w) => SessionTypeOK'
    BY <2>1 DEF Callback, CallbackBlocked, Request, CallCancel, SessionTypeOK
  <2>5. Shutdown(w) => SessionTypeOK'
    BY <2>1, FaultsAssumption DEF Shutdown, SessionTypeOK
  <2> QED BY <1>2, <2>2, <2>3, <2>4, <2>5
<1>3. ASSUME CloseSession(w) \/ NewSession(w) \/ Expire(w) PROVE SessionTypeOK'
  <2>1. GroupTypeOK'
    BY <1>1, <1>3, GroupType DEF CloseSession, NewSession, Expire
  <2>2. CloseSession(w) => SessionTypeOK'
    BY <2>1 DEF CloseSession, SessionTypeOK
  <2>3. NewSession(w) => SessionTypeOK'
    BY <2>1 DEF NewSession, SessionTypeOK
  <2>4. Expire(w) => SessionTypeOK'
    BY <2>1 DEF Expire, SessionTypeOK
  <2> QED BY <1>3, <2>2, <2>3, <2>4
<1>4. ASSUME EvictMember(w) \/ RejoinMember(w) PROVE SessionTypeOK'
  <2>1. GroupTypeOK'
    BY <1>1, <1>4, GroupType DEF EvictMember, RejoinMember
  <2> QED BY <1>4, <2>1, FaultsAssumption
      DEF EvictMember, RejoinMember, SessionTypeOK, sessionVars
<1>5. ASSUME PollFails(w) PROVE SessionTypeOK'
  <2>1. GroupTypeOK' /\ effects' \subseteq Records
    BY <1>1, <1>5, GroupType DEF PollFails, SessionTypeOK
  <2> QED BY <1>5, <2>1, TurnEndType DEF PollFails
<1>6. ASSUME PollReturns(w, max) PROVE SessionTypeOK'
  <2>1. PICK upto \in Cursors : Poll(w, max, upto)
    BY <1>6 DEF PollReturns
  <2>2. upto \in [Partitions -> Nat \ {0}]
    BY CursorsType
  <2>3. GroupTypeOK'
    BY <1>1, <2>1, <2>2 DEF GroupTypeOK, Poll
  <2>4. start' \in [Workers -> [Partitions -> Nat \ {0}]]
    BY <1>6 DEF PollReturns, SessionTypeOK, GroupTypeOK
  <2> QED BY <1>6, <2>3, <2>4 DEF PollReturns, SessionTypeOK
<1>7. ASSUME Crash(w) PROVE SessionTypeOK'
  <2>1. GroupTypeOK'
    BY <1>1, <1>7 DEF Crash, GroupTypeOK, ForgetAssignment
  <2> QED BY <1>7, <2>1, NoStartType, FaultsAssumption DEF Crash, SessionTypeOK, EndTurn
<1> QED BY <1>2, <1>3, <1>4, <1>5, <1>6, <1>7, LeaveTurnType
    DEF SessionStep, Surroundings, StopBetweenBatches, PollReturnsNothing

(* The types of the sessions do not change where nothing changes. *)
LEMMA SessionStutterType ==
  SessionTypeOK /\ UNCHANGED <<groupVars, sessionVars, effects, faults>> => SessionTypeOK'
  BY DEF groupVars, sessionVars, SessionTypeOK, GroupTypeOK

-----------------------------------------------------------------------------
(* Frames: who is not concerned by a step keeps what holds of it. *)

(* Nothing SharedInv says of v alone changes. *)
Same(v) ==
  /\ pc'[v] = pc[v] /\ member'[v] = member[v] /\ assigned'[v] = assigned[v]
  /\ position'[v] = position[v] /\ start'[v] = start[v]
  /\ stale'[v] = stale[v] /\ captured'[v] = captured[v] /\ ctxDone'[v] = ctxDone[v]

(* A worker a step leaves alone keeps its part of the invariant when       *)
(* effects are only added, its partitions stay with it, and nobody commits *)
(* for them.                                                               *)
LEMMA Frame ==
  ASSUME NEW v \in Workers, Holds(v), Same(v), effects \subseteq effects',
         \A p \in Partitions : owner'[p] = v <=> owner[p] = v,
         member[v] = "joined" =>
           \A p \in assigned[v] \cap Partitions : committed'[p] = committed[p],
         assigned[v] \subseteq Partitions
  PROVE  Holds(v)'
<1>1. Positioned(v)'
  BY DEF Holds, Positioned, Same, Window
<1>2. Session(v)'
  BY DEF Holds, Session, Same, Window, Gone, Bound
<1>3. Delivered(v)'
  BY DEF Holds, Delivered, Same, Window, BetweenBatches, Done
<1>4. Owned(v)'
  BY DEF Holds, Owned, Same, BetweenBatches, Uncommitted
<1> QED BY <1>1, <1>2, <1>3, <1>4 DEF Holds

(* A step of one worker that neither commits nor changes an owner. *)
LEMMA QuietStep ==
  ASSUME SharedInv, SessionTypeOK', NEW w \in Workers,
         \A v \in Workers \ {w} : Same(v),
         committed' = committed, owner' = owner, effects \subseteq effects',
         Holds(w)'
  PROVE  SharedInv'
<1>1. \A v \in Workers \ {w} : Holds(v)'
  BY Frame DEF SharedInv, SessionTypeOK, GroupTypeOK
<1>2. \A p \in Partitions : committed'[p] <= End(p) /\ Done(p, committed[p])'
  BY DEF SharedInv, Done
<1> QED BY <1>1, <1>2 DEF SharedInv

(* Nothing changes. *)
LEMMA StutterKeeps ==
  ASSUME SharedInv, UNCHANGED <<groupVars, sessionVars, effects, faults>>
  PROVE  SharedInv'
<1>1. SessionTypeOK'
  BY SessionStutterType DEF SharedInv
<1>2. \A w \in Workers : Same(w)
  BY DEF groupVars, sessionVars, Same
<1>3. UNCHANGED <<committed, owner, effects>>
  BY DEF groupVars
<1>4. \A w \in Workers : Holds(w)'
  BY <1>2, <1>3, Frame DEF SharedInv, SessionTypeOK, GroupTypeOK
<1>5. \A p \in Partitions : committed'[p] <= End(p) /\ Done(p, committed[p])'
  BY <1>3 DEF SharedInv, Done
<1> QED BY <1>1, <1>4, <1>5 DEF SharedInv

-----------------------------------------------------------------------------
(* The loop up to the batch and the callback. *)

(* The callback at any point of the loop, and a signal.                    *)
LEMMA CallbackKeeps ==
  ASSUME SharedInv, SessionTypeOK', NEW w \in Workers, Callback(w) \/ Shutdown(w)
  PROVE  SharedInv'
<1> USE DEF SessionTypeOK, GroupTypeOK
<1>1. /\ \A v \in Workers \ {w} : Same(v)
      /\ UNCHANGED <<pc, member, assigned, position, start>>
      /\ UNCHANGED <<committed, owner, effects>>
  BY DEF SharedInv, Callback, CallbackBlocked, Request, CallCancel, Shutdown, Same, groupVars
<1>2. Holds(w)
  BY DEF SharedInv
<1>3. Positioned(w)'
  BY <1>1, <1>2 DEF Holds, Positioned, Window
<1>4. Session(w)'
  <2>1. /\ captured'[w] \/ ctxDone'[w] => stale'[w]
        /\ ~Bound(w) => ~captured'[w] /\ ~ctxDone'[w]
    BY <1>2 DEF Holds, Session, SharedInv, Comparing, Bound,
                Callback, CallbackBlocked, Request, CallCancel, Shutdown
  <2> QED BY <1>1, <1>2, <2>1 DEF Holds, Session, Window, Gone, Bound
<1>5. Delivered(w)'
  BY <1>1, <1>2 DEF Holds, Delivered, Window, BetweenBatches, Done
<1>6. Owned(w)'
  BY <1>1, <1>2 DEF Holds, Owned, BetweenBatches, Uncommitted
<1> QED BY <1>1, <1>3, <1>4, <1>5, <1>6, QuietStep DEF Holds

(* The steps of the loop between two batches. *)
LEMMA TurnKeeps ==
  ASSUME SharedInv, SessionTypeOK', NEW w \in Workers,
         \/ ReadGeneration(w) \/ StopBetweenBatches(w)
         \/ PollReturnsNothing(w) \/ PollFails(w)
  PROVE  SharedInv'
<1> USE DEF SessionTypeOK, GroupTypeOK
<1>1. /\ \A v \in Workers \ {w} : Same(v)
      /\ UNCHANGED <<member, assigned, position, committed, owner, effects>>
  BY DEF SharedInv, ReadGeneration, StopBetweenBatches, PollReturnsNothing, PollFails,
         LeaveTurn, EndTurn, Goto, Same, groupVars
<1>2. Holds(w)
  BY DEF SharedInv
<1>3. /\ pc[w] \in {"idle", "polling"}
      /\ pc'[w] \in {"idle", "polling", "exiting"}
      /\ start'[w] = start[w] \/ start'[w] = NoStart
      /\ ~captured'[w] /\ ~ctxDone'[w]
  BY <1>2 DEF SharedInv, ReadGeneration, StopBetweenBatches, PollReturnsNothing, PollFails,
              LeaveTurn, EndTurn, Goto, Holds, Session, Bound, Window
<1>4. start[w] = NoStart
  BY <1>2, <1>3 DEF Holds, Session, Window
<1>5. Positioned(w)'
  BY <1>1, <1>2, <1>3, <1>4 DEF Holds, Positioned, Window
<1>6. Session(w)'
  BY <1>1, <1>2, <1>3, <1>4 DEF Holds, Session, Window, Gone, Bound
<1>7. Delivered(w)'
  BY <1>1, <1>2, <1>3 DEF Holds, Delivered, Window, BetweenBatches, Done
<1>8. Owned(w)'
  BY <1>1, <1>2, <1>3 DEF Holds, Owned, BetweenBatches, Uncommitted
<1> QED BY <1>1, <1>5, <1>6, <1>7, <1>8, QuietStep DEF Holds

(* Bind: the batch begins cancelled exactly if the generation is stale. *)
LEMMA BindKeeps ==
  ASSUME SharedInv, SessionTypeOK', NEW w \in Workers, Bind(w)
  PROVE  SharedInv'
<1> USE DEF SessionTypeOK, GroupTypeOK
<1>1. /\ \A v \in Workers \ {w} : Same(v)
      /\ UNCHANGED <<member, assigned, position, start, stale, captured>>
      /\ UNCHANGED <<committed, owner, effects>>
  BY DEF SharedInv, Bind, Goto, Same, groupVars
<1>2. Holds(w)
  BY DEF SharedInv
<1>3. pc[w] = "polled" /\ pc'[w] = "processing" /\ (ctxDone'[w] => stale[w])
  BY DEF SharedInv, Bind, Goto
<1>4. Positioned(w)'
  BY <1>1, <1>2, <1>3 DEF Holds, Positioned, Window
<1>5. Session(w)'
  BY <1>1, <1>2, <1>3 DEF Holds, Session, Window, Gone, Bound
<1>6. Delivered(w)'
  BY <1>1, <1>2, <1>3 DEF Holds, Delivered, Window, BetweenBatches, Done
<1>7. Owned(w)'
  BY <1>1, <1>2, <1>3 DEF Holds, Owned, BetweenBatches, Uncommitted
<1> QED BY <1>1, <1>4, <1>5, <1>6, <1>7, QuietStep DEF Holds

(* A poll opens the window at the fetch position, which is the committed   *)
(* offset for a member in good standing.                                   *)
LEMMA PollKeeps ==
  ASSUME SharedInv, SessionTypeOK', NEW w \in Workers, NEW max, PollReturns(w, max)
  PROVE  SharedInv'
<1> USE DEF SessionTypeOK, GroupTypeOK
<1>1. PICK upto \in Cursors : Poll(w, max, upto)
  BY DEF PollReturns
<1>2. /\ \A v \in Workers \ {w} : Same(v)
      /\ UNCHANGED <<member, assigned, stale, captured, ctxDone>>
      /\ UNCHANGED <<committed, owner, effects>>
  BY <1>1 DEF SharedInv, PollReturns, Poll, Goto, Same
<1>3. Holds(w)
  BY DEF SharedInv
<1>4. /\ pc[w] = "polling" /\ pc'[w] = "polled"
      /\ start'[w] = position[w] /\ position'[w] = upto
  BY <1>1 DEF SharedInv, PollReturns, Poll, Goto
<1>5. \A p \in Partitions : IF p \in assigned[w]
                            THEN upto[p] \in position[w][p] .. End(p)
                            ELSE upto[p] = position[w][p]
  BY <1>1 DEF Poll
<1>6. upto \in [Partitions -> Nat \ {0}] /\ \A p \in Partitions : End(p) \in Nat
  BY CursorsType, GroupAssumption DEF End
<1>7. Positioned(w)'
  BY <1>2, <1>3, <1>4, <1>5, <1>6 DEF SharedInv, Holds, Positioned, Window
<1>8. Session(w)'
  BY <1>2, <1>3, <1>4 DEF Holds, Session, Window, Gone, Bound
<1>9. Delivered(w)'
  BY <1>2, <1>3, <1>4 DEF Holds, Delivered, Window, BetweenBatches, Done
<1>10. Owned(w)'
  BY <1>2, <1>3, <1>4 DEF Holds, Owned, BetweenBatches, Uncommitted
<1> QED BY <1>2, <1>7, <1>8, <1>9, <1>10, QuietStep DEF Holds

-----------------------------------------------------------------------------
(* The kinds of steps a runner adds. *)

(* A step of the loop inside the poll window that commits nothing. *)
LEMMA InWindowKeeps ==
  ASSUME SharedInv, SessionTypeOK', NEW w \in Workers, Window(w), Window(w)',
         \A v \in Workers \ {w} : pc'[v] = pc[v],
         UNCHANGED <<groupVars, stale, captured, ctxDone, start>>,
         effects \subseteq effects',
         Bound(w) => Bound(w)',
         Uncommitted(w)' /\ member[w] = "joined" =>
           \A p \in assigned[w] : start[w][p] = committed[p]
  PROVE  SharedInv'
<1> USE DEF SessionTypeOK, GroupTypeOK
<1>1. Holds(w)
  BY DEF SharedInv
<1>2. /\ \A v \in Workers \ {w} : Same(v)
      /\ UNCHANGED <<member, assigned, position, committed, owner>>
  BY DEF SharedInv, Same, groupVars
<1>3. ~Gone(w) /\ ~Gone(w)' /\ ~BetweenBatches(w)' /\ pc[w] # "crashed" /\ pc'[w] # "crashed"
  BY DEF Window, Gone, BetweenBatches
<1>4. Positioned(w)'
  BY <1>1, <1>2 DEF Holds, Positioned
<1>5. Session(w)'
  BY <1>1, <1>2, <1>3 DEF Holds, Session
<1>6. Delivered(w)'
  BY <1>1, <1>2, <1>3 DEF Holds, Delivered, Done
<1>7. Owned(w)'
  BY <1>1, <1>2, <1>3 DEF Holds, Owned
<1> QED BY <1>2, <1>4, <1>5, <1>6, <1>7, QuietStep DEF Holds

(* The turn ends: with a poll only if the whole batch is done and          *)
(* committed.                                                              *)
LEMMA TurnEndHolds ==
  ASSUME SharedInv, SessionTypeOK', NEW w \in Workers, Window(w),
         NEW from, NEW to \in {"idle", "exiting", "yielded"},
         Goto(w, from, to), EndTurn(w),
         UNCHANGED <<member, assigned, position, owner>>,
         to = "idle" =>
           /\ UNCHANGED committed
           /\ \A p \in Partitions : Done(p, position[w][p])'
           /\ member[w] = "joined" => \A p \in assigned[w] : position[w][p] = committed[p]
  PROVE  Holds(w)' /\ \A v \in Workers \ {w} : Same(v)
<1> USE DEF SessionTypeOK, GroupTypeOK
<1>1. Holds(w)
  BY DEF SharedInv
<1>2. \A v \in Workers \ {w} : Same(v)
  BY DEF SharedInv, Same, Goto, EndTurn
<1>3. /\ pc'[w] = to /\ start'[w] = NoStart
      /\ ~stale'[w] /\ ~captured'[w] /\ ~ctxDone'[w]
  BY DEF SharedInv, Goto, EndTurn
<1>4. /\ ~Gone(w) /\ ~Gone(w)' /\ ~Window(w)' /\ ~Uncommitted(w)'
      /\ pc[w] # "crashed" /\ pc'[w] # "crashed"
      /\ BetweenBatches(w)' <=> to = "idle"
  BY <1>3 DEF Window, Gone, BetweenBatches, Uncommitted
<1>5. Positioned(w)'
  BY <1>1, <1>3, <1>4 DEF SharedInv, Holds, Positioned, NoStart
<1>6. Session(w)'
  BY <1>1, <1>3, <1>4 DEF Holds, Session
<1>7. Delivered(w)'
  BY <1>4 DEF Delivered
<1>8. Owned(w)'
  BY <1>1, <1>4 DEF Holds, Owned
<1> QED BY <1>2, <1>5, <1>6, <1>7, <1>8 DEF Holds

(* The same, without a commit. *)
LEMMA TurnEndKeeps ==
  ASSUME SharedInv, SessionTypeOK', NEW w \in Workers, Window(w),
         NEW from, NEW to \in {"idle", "exiting", "yielded"},
         Goto(w, from, to), EndTurn(w), UNCHANGED groupVars, effects \subseteq effects',
         to = "idle" =>
           /\ \A p \in Partitions : Done(p, position[w][p])
           /\ member[w] = "joined" => \A p \in assigned[w] : position[w][p] = committed[p]
  PROVE  SharedInv'
<1>1. UNCHANGED <<member, assigned, position, owner, committed>>
  BY DEF groupVars
<1>2. ASSUME NEW p \in Partitions, Done(p, position[w][p]) PROVE Done(p, position[w][p])'
  BY <1>1, <1>2 DEF Done
<1>3. Holds(w)' /\ \A v \in Workers \ {w} : Same(v)
  BY <1>1, <1>2, TurnEndHolds
<1> QED BY <1>1, <1>3, QuietStep

(* A commit of part of what a batch that is uncommitted has finished goes  *)
(* forward, over finished records, and is of nobody else's partitions.     *)
LEMMA CommitAdvances ==
  ASSUME SharedInv, NEW w \in Workers, pc[w] = "committing",
         NEW n \in [Partitions -> Nat], NEW S \in SUBSET Partitions,
         Commit(w, [p \in S |-> n[p]]),
         \A p \in S : /\ start[w][p] < position[w][p]
                      /\ start[w][p] <= n[p] /\ n[p] <= position[w][p]
                      /\ Done(p, n[p])
  PROVE  /\ \A p \in Partitions : /\ committed'[p] = IF p \in S THEN n[p] ELSE committed[p]
                                  /\ committed[p] <= committed'[p]
                                  /\ committed'[p] <= End(p)
                                  /\ Done(p, committed'[p])
         /\ S \subseteq assigned[w]
         /\ \A v \in Workers \ {w} : member[v] = "joined" =>
              \A p \in assigned[v] \cap Partitions : committed'[p] = committed[p]
<1> USE DEF SessionTypeOK, GroupTypeOK
<1>1. /\ member[w] = "joined"
      /\ \A p \in Partitions : committed'[p] = IF p \in S THEN n[p] ELSE committed[p]
  BY DEF Commit
<1>2. Holds(w) /\ Window(w) /\ Uncommitted(w)
  BY DEF SharedInv, Window, Uncommitted
<1>3. S \subseteq assigned[w]
  BY <1>2 DEF SharedInv, Holds, Positioned
<1>4. ASSUME NEW p \in Partitions
      PROVE  committed[p] <= committed'[p] /\ committed'[p] <= End(p) /\ Done(p, committed'[p])
  <2>1. CASE p \in S
    <3>1. start[w][p] = committed[p]
      BY <1>1, <1>2, <1>3, <2>1 DEF Holds, Owned
    <3>2. position[w][p] <= End(p) /\ position[w][p] \in Nat /\ End(p) \in Nat
      BY <1>2, GroupAssumption DEF SharedInv, Holds, Positioned, End
    <3> QED BY <1>1, <2>1, <3>1, <3>2
  <2>2. CASE p \notin S
    BY <1>1, <2>2 DEF SharedInv
  <2> QED BY <2>1, <2>2
<1>5. ASSUME NEW v \in Workers \ {w}, member[v] = "joined", NEW p \in assigned[v] \cap Partitions
      PROVE  committed'[p] = committed[p]
  <2>1. owner[p] = v
    BY <1>5 DEF SharedInv, Holds, Owned
  <2>2. p \notin S
    BY <1>1, <1>2, <1>3, <2>1 DEF Holds, Owned
  <2> QED BY <1>1, <2>2
<1> QED BY <1>1, <1>3, <1>4, <1>5

(* A step that commits so. *)
LEMMA CommitKeeps ==
  ASSUME SharedInv, SessionTypeOK', NEW w \in Workers, pc[w] = "committing",
         NEW n \in [Partitions -> Nat], NEW S \in SUBSET Partitions,
         Commit(w, [p \in S |-> n[p]]),
         \A p \in S : /\ start[w][p] < position[w][p]
                      /\ start[w][p] <= n[p] /\ n[p] <= position[w][p]
                      /\ Done(p, n[p]),
         \A v \in Workers \ {w} : Same(v), effects' = effects, Holds(w)'
  PROVE  SharedInv'
<1>1. /\ \A p \in Partitions : committed'[p] <= End(p) /\ Done(p, committed'[p])
      /\ \A v \in Workers \ {w} : member[v] = "joined" =>
           \A p \in assigned[v] \cap Partitions : committed'[p] = committed[p]
  BY CommitAdvances
<1>2. owner' = owner
  BY DEF Commit
<1>3. \A v \in Workers \ {w} : Holds(v)'
  BY <1>1, <1>2, Frame DEF SharedInv, SessionTypeOK, GroupTypeOK
<1>4. \A p \in Partitions : committed'[p] <= End(p) /\ Done(p, committed[p])'
  BY <1>1 DEF Done
<1> QED BY <1>3, <1>4 DEF SharedInv

(* Such a commit is an Advance of the promise. *)
LEMMA CommitImplements ==
  ASSUME SharedInv, SessionTypeOK', NEW w \in Workers, pc[w] = "committing",
         NEW n \in [Partitions -> Nat], NEW S \in SUBSET Partitions,
         Commit(w, [p \in S |-> n[p]]),
         \A p \in S : /\ start[w][p] < position[w][p]
                      /\ start[w][p] <= n[p] /\ n[p] <= position[w][p]
                      /\ Done(p, n[p]),
         effects' = effects
  PROVE  Promise!Advance
<1>1. \A p \in Partitions : committed[p] <= committed'[p] /\ Done(p, committed'[p])
  BY CommitAdvances
<1>2. committed' \in [Partitions -> Nat]
  BY DEF SessionTypeOK, GroupTypeOK
<1> QED BY <1>1, <1>2 DEF Promise!Advance, Done

(* A batch all of whose records have had their effect is done to its end.  *)
LEMMA BatchDone ==
  ASSUME SharedInv, NEW w \in Workers, Window(w), Batch(w) \subseteq effects,
         NEW p \in Partitions
  PROVE  Done(p, position[w][p])
<1> USE DEF SessionTypeOK, GroupTypeOK
<1>1. /\ start[w][p] \in Nat /\ position[w][p] \in Nat
      /\ start[w][p] <= position[w][p]
      /\ Done(p, start[w][p])
  BY DEF SharedInv, Holds, Positioned, Delivered
<1>2. ASSUME NEW i \in 1 .. Len(Log[p]), i < position[w][p], start[w][p] <= i
      PROVE  <<p, i>> \in effects
  <2>1. <<p, i>> \in Batch(w)
    BY <1>1, <1>2 DEF Batch, Span, Records
  <2> QED BY <2>1
<1>3. Len(Log[p]) \in Nat
  BY GroupAssumption
<1> QED BY <1>1, <1>2, <1>3 DEF Done

-----------------------------------------------------------------------------
(* The life of sessions and processes, and the broker. *)

(* A step of w that may free its partitions and takes none. *)
LEMMA FreeingStep ==
  ASSUME SharedInv, SessionTypeOK', NEW w \in Workers,
         \A v \in Workers \ {w} : Same(v),
         committed' = committed, effects' = effects,
         owner' = owner \/ owner' = Disowned(w),
         Holds(w)'
  PROVE  SharedInv'
<1>1. ASSUME NEW v \in Workers \ {w}, NEW p \in Partitions
      PROVE  owner'[p] = v <=> owner[p] = v
  <2>1. v # w /\ v # NoOwner
    BY GroupAssumption
  <2> QED BY <2>1 DEF Disowned
<1>2. \A v \in Workers \ {w} : Holds(v)'
  BY <1>1, Frame DEF SharedInv, SessionTypeOK, GroupTypeOK
<1>3. \A p \in Partitions : committed'[p] <= End(p) /\ Done(p, committed[p])'
  BY DEF SharedInv, Done
<1> QED BY <1>2, <1>3 DEF SharedInv

(* Every end of a session leaves a clean one behind. *)
LEMMA SessionEndKeeps ==
  ASSUME SharedInv, SessionTypeOK', NEW w \in Workers,
         CloseSession(w) \/ Expire(w) \/ Crash(w)
  PROVE  SharedInv'
<1> USE DEF SessionTypeOK, GroupTypeOK
<1>1. Holds(w)
  BY DEF SharedInv
<1>2. \A v \in Workers \ {w} : Same(v)
  BY DEF SharedInv, CloseSession, Expire, Crash, Leave, ForgetAssignment, Goto, EndTurn, Same
<1>3. /\ committed' = committed /\ effects' = effects
      /\ owner' = owner \/ owner' = Disowned(w)
  BY DEF CloseSession, Expire, Crash, Leave
<1>4. /\ Gone(w)'
      /\ member'[w] = "out" /\ assigned'[w] = {} /\ position'[w] = NoStart
      /\ pc'[w] = "crashed" \/ owner' = Disowned(w)
  BY DEF SharedInv, CloseSession, Expire, Crash, Leave, ForgetAssignment, Goto, Gone, NoStart
<1>5. start'[w] = NoStart /\ ~captured'[w] /\ ~ctxDone'[w]
  <2>1. CASE Crash(w)
    BY <2>1 DEF SharedInv, Crash, EndTurn
  <2>2. CASE CloseSession(w) \/ Expire(w)
    <3>1. pc[w] \in {"yielded", "exiting", "crashed"}
      BY <2>2 DEF CloseSession, Expire, Goto
    <3> QED BY <1>1, <2>2, <3>1 DEF CloseSession, Expire, Holds, Session, Window, Bound
  <2> QED BY <2>1, <2>2
<1>6. ~Window(w)' /\ ~BetweenBatches(w)' /\ ~Uncommitted(w)'
  BY <1>4 DEF Gone, Window, BetweenBatches, Uncommitted
<1>7. Positioned(w)'
  BY <1>4, <1>5, <1>6, GroupAssumption DEF Positioned, NoStart, End
<1>8. Session(w)'
  BY <1>4, <1>5, <1>6 DEF Session
<1>9. Delivered(w)'
  BY <1>6 DEF Delivered
<1>10. Owned(w)'
  <2>1. ASSUME owner' = Disowned(w), NEW p \in Partitions PROVE owner'[p] # w
    <3>1. w # NoOwner
      BY GroupAssumption
    <3> QED BY <2>1, <3>1 DEF Disowned
  <2> QED BY <1>4, <2>1 DEF Owned
<1> QED BY <1>2, <1>3, <1>7, <1>8, <1>9, <1>10, FreeingStep DEF Holds

(* A new session begins without partitions. *)
LEMMA NewSessionKeeps ==
  ASSUME SharedInv, SessionTypeOK', NEW w \in Workers, NewSession(w)
  PROVE  SharedInv'
<1> USE DEF SessionTypeOK, GroupTypeOK
<1>1. Holds(w)
  BY DEF SharedInv
<1>2. /\ \A v \in Workers \ {w} : Same(v)
      /\ UNCHANGED <<assigned, position, start, captured, ctxDone, stale>>
      /\ UNCHANGED <<committed, owner, effects>>
  BY DEF SharedInv, NewSession, Join, Goto, Same
<1>3. /\ pc[w] \in {"closed", "exited"} /\ pc'[w] = "idle"
      /\ member'[w] = "joined"
  BY DEF SharedInv, NewSession, Join, Goto
<1>4. /\ member[w] = "out" /\ assigned[w] = {} /\ position[w] = NoStart
      /\ start[w] = NoStart
  BY <1>1, <1>3 DEF Holds, Session, Gone, Window
<1>5. Positioned(w)'
  BY <1>1, <1>2, <1>3, <1>4 DEF Holds, Positioned, Window
<1>6. Session(w)'
  BY <1>1, <1>2, <1>3, <1>4 DEF Holds, Session, Gone, Window, Bound
<1>7. Delivered(w)'
  BY <1>1, <1>2, <1>3, <1>4 DEF Delivered, Window, BetweenBatches, Done, NoStart
<1>8. Owned(w)'
  BY <1>1, <1>2, <1>3, <1>4 DEF Holds, Owned, BetweenBatches, Uncommitted
<1> QED BY <1>2, <1>5, <1>6, <1>7, <1>8, QuietStep DEF Holds

(* A member is thrown out, or notices that it was. *)
LEMMA MemberKeeps ==
  ASSUME SharedInv, SessionTypeOK', NEW w \in Workers, EvictMember(w) \/ RejoinMember(w)
  PROVE  SharedInv'
<1> USE DEF SessionTypeOK, GroupTypeOK
<1>1. Holds(w)
  BY DEF SharedInv
<1>2. /\ \A v \in Workers \ {w} : Same(v)
      /\ UNCHANGED <<pc, start, captured, ctxDone, stale, committed, effects>>
      /\ owner' = owner \/ owner' = Disowned(w)
  BY DEF SharedInv, EvictMember, RejoinMember, Evict, Rejoin, ForgetAssignment, Same,
         sessionVars
<1>3. CASE EvictMember(w)
  <2>1. /\ member[w] = "joined" /\ member'[w] = "evicted"
        /\ owner' = Disowned(w) /\ UNCHANGED <<assigned, position>>
    BY <1>3 DEF SharedInv, EvictMember, Evict
  <2>2. Positioned(w)'
    BY <1>1, <1>2, <2>1 DEF Holds, Positioned, Window
  <2>3. Session(w)'
    BY <1>1, <1>2, <2>1 DEF Holds, Session, Window, Gone, Bound
  <2>4. Delivered(w)'
    BY <1>1, <1>2, <2>1 DEF Holds, Delivered, Window, BetweenBatches, Done
  <2>5. Owned(w)'
    BY <2>1, GroupAssumption DEF Owned, Disowned, SharedInv
  <2> QED BY <1>2, <2>2, <2>3, <2>4, <2>5, FreeingStep DEF Holds
<1>4. CASE RejoinMember(w)
  <2>1. /\ member[w] = "evicted" /\ member'[w] = "joined"
        /\ assigned'[w] = {} /\ position'[w] = NoStart
        /\ owner' = owner /\ ~Window(w)
    BY <1>4 DEF SharedInv, RejoinMember, Rejoin, ForgetAssignment, NoStart
  <2>2. start[w] = NoStart /\ ~Gone(w)
    BY <1>1, <2>1 DEF Holds, Session
  <2>3. Positioned(w)'
    BY <1>2, <2>1, <2>2, GroupAssumption DEF Positioned, NoStart, End, Window
  <2>4. Session(w)'
    BY <1>1, <1>2, <2>1, <2>2 DEF Holds, Session, Window, Gone, Bound
  <2>5. Delivered(w)'
    BY <1>2, <2>1, <2>2 DEF Delivered, Window, BetweenBatches, Done, NoStart
  <2>6. Owned(w)'
    BY <1>1, <1>2, <2>1, <2>2 DEF Holds, Owned, BetweenBatches, Uncommitted, Gone
  <2> QED BY <1>2, <2>3, <2>4, <2>5, <2>6, FreeingStep DEF Holds
<1> QED BY <1>3, <1>4

(* A rebalance finds every joined member outside its poll window, with a   *)
(* fetch position that is the committed offset, and leaves it so.          *)
LEMMA RebalanceKeeps ==
  ASSUME SharedInv, SessionTypeOK', Rebalance
  PROVE  SharedInv'
<1> USE DEF SessionTypeOK, GroupTypeOK
<1>1. UNCHANGED <<pc, start, captured, ctxDone, stale, committed, effects, member>>
  BY DEF Rebalance, StartRebalance, CompleteRebalance, sessionVars
<1>2. \A p \in Partitions : committed'[p] <= End(p) /\ Done(p, committed[p])'
  BY <1>1 DEF SharedInv, Done
<1>3. CASE StartRebalance
  <2>1. \A v \in Workers : Holds(v)'
    BY <1>1, <1>3, Frame DEF SharedInv, StartRebalance, Same
  <2> QED BY <1>2, <2>1 DEF SharedInv
<1>4. ASSUME CompleteRebalance(Open), NEW v \in Workers, member[v] # "joined"
      PROVE  Holds(v)'
  <2>1. assigned'[v] = assigned[v] /\ position'[v] = position[v]
    BY <1>4 DEF CompleteRebalance, Joined, SharedInv
  <2>2. \A p \in Partitions : owner'[p] # v
    BY <1>4 DEF CompleteRebalance, Joined
  <2>3. Holds(v)
    BY DEF SharedInv
  <2>4. Positioned(v)'
    BY <1>1, <2>1, <2>3 DEF Holds, Positioned, Window
  <2>5. Session(v)'
    BY <1>1, <2>1, <2>3 DEF Holds, Session, Window, Gone, Bound
  <2>6. Delivered(v)'
    BY <1>1, <2>1, <2>3 DEF Holds, Delivered, Window, BetweenBatches, Done
  <2>7. Owned(v)'
    BY <1>1, <1>4, <2>2 DEF Owned
  <2> QED BY <2>4, <2>5, <2>6, <2>7 DEF Holds
<1>5. ASSUME CompleteRebalance(Open), NEW v \in Workers, member[v] = "joined"
      PROVE  Holds(v)'
  <2>1. Holds(v) /\ ~Window(v)
    BY <1>5 DEF SharedInv, CompleteRebalance, Joined, Open
  <2>2. /\ assigned'[v] = {p \in Partitions : owner'[p] = v}
        /\ \A p \in Partitions :
             position'[v][p] = IF owner'[p] # v THEN 1
                               ELSE IF p \notin assigned[v] THEN committed[p]
                               ELSE position[v][p]
    BY <1>5 DEF CompleteRebalance, Joined
  <2>3. start[v] = NoStart /\ ~Gone(v)
    BY <1>5, <2>1 DEF Holds, Session
  <2>4. \A p \in Partitions : End(p) \in Nat \ {0}
    BY GroupAssumption DEF End
  <2>5. Positioned(v)'
    <3>1. ~Window(v)'
      BY <1>1, <2>1 DEF Window
    <3>2. \A p \in Partitions : start'[v][p] = 1
      BY <1>1, <2>3 DEF NoStart
    <3>3. ASSUME NEW p \in Partitions
          PROVE  position'[v][p] <= End(p) /\ 1 <= position'[v][p]
      <4>1. position[v][p] <= End(p) /\ committed[p] <= End(p)
        BY <2>1 DEF SharedInv, Holds, Positioned
      <4>2. position[v][p] \in Nat \ {0} /\ committed[p] \in Nat \ {0}
        BY DEF SharedInv
      <4>3. position'[v][p] \in {1, committed[p], position[v][p]}
        BY <2>2
      <4>4. End(p) \in Nat \ {0}
        BY <2>4
      <4> HIDE DEF SessionTypeOK, GroupTypeOK
      <4> QED BY <4>1, <4>2, <4>3, <4>4
    <3> QED BY <3>1, <3>2, <3>3 DEF Positioned
  <2>6. Session(v)'
    BY <1>1, <2>1, <2>3 DEF Holds, Session, Window, Gone, Bound
  <2>7. Delivered(v)'
    <3>1. ASSUME BetweenBatches(v), NEW p \in Partitions PROVE Done(p, position'[v][p])
      <4>1. Done(p, committed[p]) /\ Done(p, position[v][p])
        BY <2>1, <3>1 DEF SharedInv, Holds, Delivered
      <4>2. Done(p, 1)
        BY GroupAssumption DEF Done
      <4> QED BY <2>2, <4>1, <4>2
    <3> QED BY <1>1, <2>1, <3>1 DEF Delivered, Window, BetweenBatches, Done
  <2>8. Owned(v)'
    BY <1>1, <1>5, <2>1, <2>2 DEF SharedInv, Holds, Owned, BetweenBatches, Uncommitted, Window
  <2> QED BY <2>5, <2>6, <2>7, <2>8 DEF Holds
<1>6. CASE CompleteRebalance(Open)
  BY <1>2, <1>4, <1>5, <1>6 DEF SharedInv
<1> QED BY <1>3, <1>6 DEF Rebalance

(* Every step ConsumerSession defines keeps what the runners share. *)
LEMMA SessionKeeps ==
  ASSUME SharedInv, SessionTypeOK', NEW w \in Workers, NEW max,
         \/ SessionStep(w) \/ Callback(w) \/ Surroundings(w) \/ Crash(w)
         \/ PollReturns(w, max)
  PROVE  SharedInv'
  BY TurnKeeps, BindKeeps, SessionEndKeeps, NewSessionKeeps, CallbackKeeps, MemberKeeps,
     PollKeeps DEF SessionStep, Surroundings

(* What the runners share holds at the start: nobody has anything.         *)
LEMMA SharedInit == SessionInit => SharedInv
<1> SUFFICES ASSUME SessionInit PROVE SharedInv
  OBVIOUS
<1>1. /\ committed = [p \in Partitions |-> 1] /\ owner = [p \in Partitions |-> NoOwner]
      /\ \A w \in Workers :
           /\ pc[w] = "idle" /\ member[w] = "joined" /\ assigned[w] = {}
           /\ position[w] = NoStart /\ start[w] = NoStart
           /\ ~captured[w] /\ ~ctxDone[w]
  BY DEF SessionInit, GroupInit, NoStart
<1>2. \A p \in Partitions : End(p) \in Nat \ {0} /\ Done(p, 1)
  BY GroupAssumption DEF End, Done
<1>3. \A p \in Partitions : committed[p] <= End(p) /\ Done(p, committed[p])
  BY <1>1, <1>2
<1>4. ASSUME NEW w \in Workers PROVE Holds(w)
  <2>1. Positioned(w)
    BY <1>1, <1>2 DEF Positioned, NoStart, Window
  <2>2. Session(w)
    BY <1>1 DEF Session, Window, Gone, Bound
  <2>3. Delivered(w)
    BY <1>1, <1>2 DEF Delivered, Window, BetweenBatches, NoStart
  <2>4. Owned(w)
    BY <1>1, GroupAssumption DEF Owned
  <2> QED BY <2>1, <2>2, <2>3, <2>4 DEF Holds
<1> QED BY <1>3, <1>4, SessionInitType DEF SharedInv

(* The steps of ConsumerSession deliver and commit nothing. *)
LEMMA SessionSilent ==
  ASSUME NEW w \in Workers, NEW max,
         \/ SessionStep(w) \/ Callback(w) \/ Surroundings(w) \/ Crash(w)
         \/ PollReturns(w, max) \/ Rebalance
  PROVE  UNCHANGED <<effects, committed>>
<1>1. SessionStep(w) \/ Callback(w) => UNCHANGED <<effects, committed>>
  BY DEF SessionStep, ReadGeneration, StopBetweenBatches, Bind, CloseSession,
         NewSession, Callback, CallbackBlocked, Request, CallCancel,
         LeaveTurn, Leave, Join, groupVars
<1>2. Surroundings(w) \/ Crash(w) => UNCHANGED <<effects, committed>>
  BY DEF Surroundings, PollReturnsNothing, PollFails, Shutdown, Expire, EvictMember,
         RejoinMember, Crash, LeaveTurn, Leave, Evict, Rejoin, groupVars
<1>3. PollReturns(w, max) \/ Rebalance => UNCHANGED <<effects, committed>>
  BY DEF PollReturns, Poll, Rebalance, StartRebalance, CompleteRebalance
<1> QED BY <1>1, <1>2, <1>3

(* The steps of ConsumerSession of one worker leave the other workers      *)
(* alone.                                                                  *)
LEMMA SessionOthers ==
  ASSUME SessionTypeOK, NEW w \in Workers, NEW max,
         SessionStep(w) \/ Callback(w) \/ Surroundings(w) \/ PollReturns(w, max),
         NEW v \in Workers \ {w}
  PROVE  /\ pc'[v] = pc[v] /\ member'[v] = member[v] /\ assigned'[v] = assigned[v]
         /\ position'[v] = position[v] /\ start'[v] = start[v]
         /\ stale'[v] = stale[v] /\ stopping'[v] = stopping[v]
         /\ captured'[v] = captured[v] /\ ctxDone'[v] = ctxDone[v]
<1> USE DEF SessionTypeOK, GroupTypeOK
<1>1. CASE SessionStep(w)
  BY <1>1 DEF SessionStep, ReadGeneration, StopBetweenBatches, Bind, CloseSession,
     NewSession, LeaveTurn, EndTurn, Goto, Leave, Join, ForgetAssignment, groupVars
<1>2. CASE Callback(w)
  BY <1>2 DEF Callback, CallbackBlocked, Request, CallCancel, groupVars
<1>3. CASE Surroundings(w)
  BY <1>3 DEF Surroundings, PollReturnsNothing, PollFails, Shutdown, Expire,
     EvictMember, RejoinMember, LeaveTurn, EndTurn, Goto, Leave, Evict, Rejoin,
     ForgetAssignment, groupVars, sessionVars
<1>4. CASE PollReturns(w, max)
  BY <1>4 DEF PollReturns, Poll, Goto
<1> QED BY <1>1, <1>2, <1>3, <1>4

(* What a session fetched and did not commit is not skipped by its next    *)
(* poll.                                                                   *)
LEMMA SharedNeverSkips == SharedInv => SessionNeverSkips
  BY DEF SharedInv, Holds, Owned, BetweenBatches, SessionNeverSkips

(* A record a member in good standing works on is of a partition it owns,  *)
(* and a partition has one owner.                                          *)
LEMMA SharedDisjoint == SharedInv => BatchesDisjoint
<1> USE DEF SessionTypeOK, GroupTypeOK
<1>1. ASSUME SharedInv, NEW w \in Joined, pc[w] = "processing", NEW r \in Batch(w)
      PROVE  owner[r[1]] = w
  <2>1. w \in Workers /\ member[w] = "joined" /\ Holds(w) /\ Window(w)
    BY <1>1 DEF SharedInv, Joined, Window
  <2>2. r[1] \in Partitions /\ start[w][r[1]] <= r[2] /\ r[2] < position[w][r[1]]
    BY <1>1 DEF Batch, Span, Records
  <2>3. r[1] \in assigned[w]
    <3>1. ASSUME r[1] \notin assigned[w] PROVE FALSE
      <4>1. start[w][r[1]] = position[w][r[1]]
        BY <2>1, <2>2, <3>1 DEF Holds, Positioned
      <4>2. r[2] \in Nat /\ start[w][r[1]] \in Nat
        BY <1>1, <2>1, <2>2, GroupAssumption DEF SharedInv, Batch, Span, Records
      <4> QED BY <2>2, <4>1, <4>2
    <3> QED BY <3>1
  <2> QED BY <2>1, <2>2, <2>3 DEF Holds, Owned
<1> SUFFICES ASSUME SharedInv, NEW w1 \in Joined, NEW w2 \in Joined, w1 # w2,
                    pc[w1] = "processing", pc[w2] = "processing",
                    NEW r \in Batch(w1) \cap Batch(w2)
             PROVE  FALSE
  BY DEF BatchesDisjoint
<1> QED BY <1>1

-----------------------------------------------------------------------------
(*                     The async runner: AsyncConsumer                     *)

(* The async runner: handlers run in the order of their lane, a batch      *)
(* without an error is finished when it returns, and before its window     *)
(* closes the finished prefixes are committed, of a failed batch too.      *)
BatchWork(w) ==
  /\ ~Bound(w) => ok[w] = {} /\ running[w] = {} /\ ~failed[w]
  /\ running[w] \subseteq Batch(w)
  /\ ok[w] \subseteq Batch(w) \cap effects
  /\ \A r \in running[w] : Before(r) \subseteq effects
  /\ pc[w] \in {"returned", "committing", "releasing"} => running[w] = {}
  /\ pc[w] = "returned" => stale[w] \/ stopping[w] \/ failed[w] \/ Batch(w) \subseteq ok[w]
  /\ pc[w] \in {"committing", "releasing"} => failed[w] \/ Batch(w) \subseteq ok[w]
  /\ member[w] = "joined" =>
       \A p \in assigned[w] :
         /\ pc[w] = "returned" => start[w][p] = committed[p]
         /\ pc[w] = "releasing" => PrefixEnd(w, p, committed[p])

AsyncInv == TypeOK /\ SharedInv /\ \A w \in Workers : BatchWork(w)

(* The types of a batch that ended. *)
LEMMA EndBatchType ==
  ASSUME TypeOK, NEW w \in Workers, EndBatch(w)
  PROVE  /\ failed' \in [Workers -> BOOLEAN]
         /\ running' \in [Workers -> SUBSET Records]
         /\ ok' \in [Workers -> SUBSET Records]
  BY DEF TypeOK, EndBatch

(* A commit of the finished prefixes, in the form of CommitAdvances.       *)
LEMMA CommitPrefixForm ==
  ASSUME NEW w \in Workers, CommitPrefix(w)
  PROVE  \E n \in [Partitions -> Nat \ {0}] :
           /\ \A p \in Partitions : PrefixEnd(w, p, n[p])
           /\ Commit(w, [p \in Committable(w) |-> n[p]])
           /\ Committable(w) \in SUBSET Partitions
  BY CursorsType DEF CommitPrefix, Committable

(* The steps of the work keep the types. *)
LEMMA WorkType ==
  ASSUME TypeOK, NEW w \in Workers,
         \/ Handler(w) \/ BatchReturns(w) \/ Yield(w) \/ StopAfterBatch(w)
         \/ PrepareCommit(w) \/ CommitSucceeds(w) \/ CommitFails(w) \/ Release(w)
         \/ Crash(w) /\ EndBatch(w)
  PROVE  TypeOK'
<1>1. SessionTypeOK /\ GroupTypeOK /\ effects \subseteq Records
  BY DEF TypeOK, SessionTypeOK
<1>2. ASSUME Handler(w) PROVE TypeOK'
  <2>1. PICK r \in Records : StartHandler(w, r) \/ HandlerSucceeds(w, r) \/ HandlerFails(w, r)
    BY <1>2 DEF Handler
  <2>2. GroupTypeOK'
    BY <1>1, <2>1, GroupType DEF StartHandler, HandlerSucceeds, HandlerFails
  <2>3. SessionTypeOK'
    BY <1>1, <2>1, <2>2, FaultsAssumption
    DEF StartHandler, HandlerSucceeds, HandlerFails, SessionTypeOK, sessionVars, Fault, NoFault
  <2>4. /\ failed' \in [Workers -> BOOLEAN]
        /\ running' \in [Workers -> SUBSET Records]
        /\ ok' \in [Workers -> SUBSET Records]
    <3>1. CASE StartHandler(w, r)
      BY <3>1 DEF TypeOK, StartHandler
    <3>2. CASE HandlerSucceeds(w, r)
      BY <3>2 DEF TypeOK, HandlerSucceeds
    <3>3. CASE HandlerFails(w, r)
      BY <3>3 DEF TypeOK, HandlerFails
    <3> QED BY <2>1, <3>1, <3>2, <3>3
  <2> QED BY <2>3, <2>4 DEF TypeOK
<1>3. ASSUME Yield(w) \/ StopAfterBatch(w) \/ Release(w) PROVE TypeOK'
  BY <1>1, <1>3, EndBatchType, LeaveTurnType DEF Yield, StopAfterBatch, Release, TypeOK
<1>4. CommitPrefix(w) => GroupTypeOK'
  BY <1>1, CommitPrefixForm, GroupType
<1>5. ASSUME BatchReturns(w) \/ PrepareCommit(w) \/ CommitSucceeds(w) PROVE TypeOK'
  <2>1. GroupTypeOK' /\ effects' \subseteq Records
    BY <1>1, <1>4, <1>5, GroupType DEF BatchReturns, PrepareCommit, CommitSucceeds
  <2>2. SessionTypeOK'
    BY <1>1, <1>5, <2>1, InTurnType DEF BatchReturns, PrepareCommit, CommitSucceeds
  <2> QED BY <1>5, <2>2 DEF BatchReturns, PrepareCommit, CommitSucceeds, TypeOK, batchVars
<1>6. ASSUME CommitFails(w) PROVE TypeOK'
  <2>1. GroupTypeOK' /\ effects' \subseteq Records
    BY <1>1, <1>4, <1>6, GroupType DEF CommitFails
  <2>2. SessionTypeOK'
    BY <1>1, <1>6, <2>1, TurnEndType DEF CommitFails
  <2> QED BY <1>6, <2>2, EndBatchType DEF TypeOK, CommitFails
<1>7. ASSUME Crash(w), EndBatch(w) PROVE TypeOK'
  BY <1>1, <1>7, SessionType, EndBatchType DEF TypeOK
<1> QED BY <1>2, <1>3, <1>5, <1>6, <1>7

(* Types are kept by every step. *)
LEMMA StepType == TypeOK /\ [Next]_vars => TypeOK'
<1> SUFFICES ASSUME TypeOK, [Next]_vars PROVE TypeOK'
  OBVIOUS
<1>1. SessionTypeOK
  BY DEF TypeOK
<1>2. ASSUME SessionTypeOK', UNCHANGED batchVars PROVE TypeOK'
  BY <1>2 DEF TypeOK, batchVars
<1>3. CASE UNCHANGED vars
  BY <1>1, <1>2, <1>3, SessionStutterType DEF vars
<1>4. CASE Rebalance /\ UNCHANGED batchVars
  BY <1>1, <1>2, <1>4, RebalanceType
<1>5. ASSUME NEW w \in Workers,
             \/ LoopStep(w) \/ PollStep(w) \/ Handler(w) \/ CallbackStep(w)
             \/ Surroundings(w) /\ UNCHANGED batchVars
             \/ Crash(w) /\ EndBatch(w)
      PROVE  TypeOK'
  BY <1>1, <1>2, <1>5, SessionType, WorkType DEF LoopStep, PollStep, CallbackStep
<1> QED BY <1>3, <1>4, <1>5 DEF Next

(* Every state is well typed: the runner's variables take no other value,  *)
(* and no position or committed offset is below the first one.             *)
THEOREM TypeCorrect == Spec => []TypeOK
<1>1. Init => TypeOK
  BY SessionInitType DEF Init, TypeOK
<1>2. TypeOK /\ [Next]_vars => TypeOK'
  BY StepType
<1> QED BY <1>1, <1>2, PTL DEF Spec

-----------------------------------------------------------------------------
(* What a batch knows is kept. *)

(* A worker whose batch and handlers a step leaves alone.                  *)
LEMMA BatchFrame ==
  ASSUME NEW v \in Workers, BatchWork(v),
         pc'[v] = pc[v], member'[v] = member[v], assigned'[v] = assigned[v],
         position'[v] = position[v], start'[v] = start[v],
         failed'[v] = failed[v], running'[v] = running[v], ok'[v] = ok[v],
         effects \subseteq effects',
         pc[v] = "returned" => (stale[v] => stale'[v]) /\ (stopping[v] => stopping'[v]),
         member[v] = "joined" => \A p \in assigned[v] : committed'[p] = committed[p]
  PROVE  BatchWork(v)'
  BY DEF BatchWork, Bound, Window, Batch, Span, PrefixEnd

(* Outside the poll window there is nothing to know. *)
LEMMA NoBatch ==
  ASSUME NEW v \in Workers, ~Bound(v)',
         ok'[v] = {}, running'[v] = {}, ~failed'[v]
  PROVE  BatchWork(v)'
  BY DEF BatchWork, Bound, Window

(* The steps of ConsumerSession before and after a batch. *)
LEMMA SessionBatch ==
  ASSUME AsyncInv, SessionTypeOK', NEW w \in Workers, UNCHANGED batchVars,
         \/ SessionStep(w) \/ Callback(w) \/ Surroundings(w) \/ PollReturns(w, Concurrency)
  PROVE  \A v \in Workers : BatchWork(v)'
<1> USE DEF SessionTypeOK, GroupTypeOK
<1>1. SessionTypeOK /\ \A v \in Workers : BatchWork(v)
  BY DEF AsyncInv, SharedInv
<1>2. committed' = committed /\ effects' = effects
  BY SessionSilent
<1>3. UNCHANGED <<failed, running, ok>>
  BY DEF batchVars
<1>4. ASSUME NEW v \in Workers \ {w}
      PROVE  /\ pc'[v] = pc[v] /\ member'[v] = member[v] /\ assigned'[v] = assigned[v]
             /\ position'[v] = position[v] /\ start'[v] = start[v]
             /\ stale'[v] = stale[v] /\ stopping'[v] = stopping[v]
  BY <1>1, SessionOthers
<1>5. ASSUME NEW v \in Workers \ {w} PROVE BatchWork(v)'
  BY <1>1, <1>2, <1>3, <1>4, BatchFrame
<1>6. ASSUME ~Bound(w), ~Bound(w)' PROVE BatchWork(w)'
  BY <1>1, <1>3, <1>6, NoBatch DEF BatchWork
<1>7. CASE ReadGeneration(w) \/ StopBetweenBatches(w) \/ CloseSession(w) \/ NewSession(w)
  <2>1. ~Bound(w) /\ ~Bound(w)'
    BY <1>1, <1>7 DEF ReadGeneration, StopBetweenBatches, CloseSession, NewSession,
                      LeaveTurn, Goto, Bound, Window
  <2> QED BY <1>5, <1>6, <2>1
<1>8. CASE PollReturnsNothing(w) \/ PollFails(w) \/ Expire(w) \/ PollReturns(w, Concurrency)
  <2>1. ~Bound(w) /\ ~Bound(w)'
    BY <1>1, <1>8 DEF PollReturnsNothing, PollFails, Expire, PollReturns,
                      LeaveTurn, Goto, Bound, Window
  <2> QED BY <1>5, <1>6, <2>1
<1>9. CASE Bind(w)
  <2>1. /\ pc[w] = "polled" /\ pc'[w] = "processing"
        /\ UNCHANGED <<member, assigned, start, position>>
    BY <1>1, <1>9 DEF Bind, Goto, groupVars
  <2>2. ok[w] = {} /\ running[w] = {} /\ ~failed[w]
    BY <1>1, <2>1 DEF BatchWork, Bound
  <2>3. BatchWork(w)'
    BY <1>3, <2>1, <2>2 DEF BatchWork
  <2> QED BY <1>5, <2>3
<1>10. CASE Callback(w) \/ Shutdown(w) \/ EvictMember(w)
  <2>1. /\ UNCHANGED <<pc, start, position, assigned>>
        /\ member' = member \/ member'[w] = "evicted"
    BY <1>1, <1>10 DEF Callback, CallbackBlocked, Request, CallCancel, Shutdown, EvictMember,
                       Evict, groupVars, sessionVars
  <2>2. pc[w] = "returned" => (stale[w] => stale'[w]) /\ (stopping[w] => stopping'[w])
    BY <1>1, <1>10 DEF Callback, CallbackBlocked, Request, CallCancel, Shutdown, EvictMember,
                       Evict, sessionVars, Comparing, Window
  <2>3. BatchWork(w)'
    BY <1>1, <1>2, <1>3, <2>1, <2>2 DEF BatchWork, Bound, Window, Batch, Span, PrefixEnd
  <2> QED BY <1>5, <2>3
<1>11. CASE RejoinMember(w)
  <2>1. ~Bound(w) /\ ~Bound(w)'
    BY <1>11 DEF RejoinMember, Bound, Window, sessionVars
  <2> QED BY <1>5, <1>6, <2>1
<1> QED BY <1>7, <1>8, <1>9, <1>10, <1>11 DEF SessionStep, Surroundings

(* A rebalance passes by the poll windows of the joined members. *)
LEMMA RebalanceBatch ==
  ASSUME AsyncInv, SessionTypeOK', UNCHANGED batchVars, Rebalance, NEW v \in Workers
  PROVE  BatchWork(v)'
<1> USE DEF SessionTypeOK, GroupTypeOK
<1>1. SessionTypeOK /\ BatchWork(v)
  BY DEF AsyncInv, SharedInv
<1>2. UNCHANGED <<pc, start, stale, stopping, failed, running, ok, committed, effects, member>>
  BY DEF Rebalance, StartRebalance, CompleteRebalance, batchVars, sessionVars
<1>3. CASE (Window(v) /\ member[v] = "joined") \/ member[v] # "joined"
  <2>1. assigned'[v] = assigned[v] /\ position'[v] = position[v]
    BY <1>1, <1>3 DEF Rebalance, StartRebalance, CompleteRebalance, Joined, Open
  <2> QED BY <1>1, <1>2, <2>1, BatchFrame
<1>4. CASE ~Window(v)
  <2>1. ~Bound(v) /\ ~Bound(v)'
    BY <1>2, <1>4 DEF Bound, Window
  <2> QED BY <1>1, <1>2, <2>1, NoBatch DEF BatchWork
<1> QED BY <1>3, <1>4

(* A step of the work of w leaves the batches of others alone. *)
LEMMA OthersBatch ==
  ASSUME AsyncInv, NEW w \in Workers, UNCHANGED <<member, assigned, position>>,
         \A v \in Workers \ {w} :
           /\ pc'[v] = pc[v] /\ start'[v] = start[v]
           /\ stale'[v] = stale[v] /\ stopping'[v] = stopping[v]
           /\ failed'[v] = failed[v] /\ running'[v] = running[v] /\ ok'[v] = ok[v]
           /\ member[v] = "joined" => \A p \in assigned[v] : committed'[p] = committed[p],
         effects \subseteq effects',
         BatchWork(w)'
  PROVE  \A v \in Workers : BatchWork(v)'
<1>1. \A v \in Workers \ {w} : BatchWork(v)'
  BY BatchFrame DEF AsyncInv
<1> QED BY <1>1

-----------------------------------------------------------------------------
(* The batch. *)

(* A record whose turn it is has its predecessors done: they were committed *)
(* before the batch or are finished in it.                                 *)
LEMMA PredecessorsDone ==
  ASSUME AsyncInv, NEW w \in Workers, NEW r \in Records,
         pc[w] = "processing", r \in Batch(w),
         \A e \in Batch(w) : SameLaneBefore(e, r) => e \in ok[w]
  PROVE  Before(r) \subseteq effects
<1>1. SUFFICES ASSUME NEW e \in Records, SameLaneBefore(e, r) PROVE e \in effects
  BY DEF Before
<1>2. Delivered(w) /\ Window(w) /\ ok[w] \subseteq effects
  BY DEF AsyncInv, SharedInv, Holds, Window, BatchWork
<1>3. PICK p \in Partitions : \E i \in 1 .. Len(Log[p]) : e = <<p, i>>
  BY DEF Records
<1>4. PICK i \in 1 .. Len(Log[p]) : e = <<p, i>>
  BY <1>3
<1>5. PICK q \in Partitions : \E j \in 1 .. Len(Log[q]) : r = <<q, j>>
  BY DEF Records
<1>6. PICK j \in 1 .. Len(Log[q]) : r = <<q, j>>
  BY <1>5
<1>7. p = q /\ i < j
  BY <1>1, <1>4, <1>6 DEF SameLaneBefore, Lane
<1>8. start[w][p] \in Nat /\ position[w][p] \in Nat
  BY DEF AsyncInv, SharedInv, SessionTypeOK, GroupTypeOK
<1>9. CASE i < start[w][p]
  BY <1>2, <1>4, <1>9 DEF Delivered, Done
<1>10. CASE start[w][p] <= i
  <2>1. e \in Batch(w)
    BY <1>4, <1>6, <1>7, <1>8, <1>10 DEF Batch, Span
  <2> QED BY <1>1, <1>2, <2>1
<1> QED BY <1>8, <1>9, <1>10

(* The handlers of a batch. *)
LEMMA HandlerKeeps ==
  ASSUME AsyncInv, TypeOK', NEW w \in Workers, NEW r \in Records,
         StartHandler(w, r) \/ HandlerSucceeds(w, r) \/ HandlerFails(w, r)
  PROVE  AsyncInv'
<1> USE DEF TypeOK, SessionTypeOK, GroupTypeOK
<1>1. /\ UNCHANGED <<groupVars, sessionVars>>
      /\ effects \subseteq effects'
      /\ UNCHANGED <<committed, pc, member, assigned, position, start, stale>>
      /\ UNCHANGED <<stopping, captured, ctxDone>>
  BY DEF StartHandler, HandlerSucceeds, HandlerFails, groupVars, sessionVars
<1>2. SharedInv /\ BatchWork(w)
  BY DEF AsyncInv
<1>3. pc[w] = "processing" /\ r \in Batch(w)
  BY <1>2 DEF StartHandler, HandlerSucceeds, HandlerFails, BatchWork, Bound, Window, AsyncInv
<1>4. /\ running'[w] \subseteq running[w] \cup {r}
      /\ ok'[w] \subseteq ok[w] \cup {r}
      /\ ok'[w] = ok[w] \/ r \in effects'
      /\ r \in running'[w] => r \in running[w] \/ Before(r) \subseteq effects
  <2>1. CASE StartHandler(w, r)
    <3>1. Before(r) \subseteq effects
      BY <1>3, <2>1, PredecessorsDone DEF StartHandler
    <3> QED BY <2>1, <3>1 DEF AsyncInv, StartHandler
  <2>2. CASE HandlerSucceeds(w, r)
    BY <2>2 DEF AsyncInv, HandlerSucceeds
  <2>3. CASE HandlerFails(w, r)
    BY <2>3 DEF AsyncInv, HandlerFails
  <2> QED BY <2>1, <2>2, <2>3
<1>5. BatchWork(w)'
  <2>1. Batch(w)' = Batch(w)
    BY <1>1 DEF Batch
  <2>2. ok'[w] \subseteq Batch(w) \cap effects' /\ running'[w] \subseteq Batch(w)
    BY <1>1, <1>2, <1>3, <1>4 DEF BatchWork
  <2>3. \A e \in running'[w] : Before(e) \subseteq effects'
    BY <1>1, <1>2, <1>4 DEF BatchWork
  <2> QED BY <1>1, <1>3, <2>1, <2>2, <2>3 DEF BatchWork, Bound, Window, Before
<1>6. \A v \in Workers \ {w} :
        failed'[v] = failed[v] /\ running'[v] = running[v] /\ ok'[v] = ok[v]
  BY DEF AsyncInv, StartHandler, HandlerSucceeds, HandlerFails
<1>7. \A v \in Workers : BatchWork(v)'
  BY <1>1, <1>5, <1>6, OthersBatch
<1>8. SharedInv'
  <2>1. Window(w) /\ Window(w)' /\ Bound(w)' /\ (Uncommitted(w)' => Uncommitted(w))
    BY <1>1, <1>3 DEF Window, Bound, Uncommitted
  <2>2. member[w] = "joined" /\ Uncommitted(w) =>
          \A p \in assigned[w] : start[w][p] = committed[p]
    BY <1>2 DEF SharedInv, Holds, Owned
  <2> QED BY <1>1, <1>2, <2>1, <2>2, InWindowKeeps
<1> QED BY <1>7, <1>8 DEF AsyncInv

(* A batch whose handlers all returned nil ends in a finished prefix that  *)
(* is the whole batch.                                                     *)
LEMMA WholeBatch ==
  ASSUME SharedInv, NEW w \in Workers, Batch(w) \subseteq ok[w],
         NEW p \in Partitions, NEW n \in Nat, PrefixEnd(w, p, n)
  PROVE  n = position[w][p]
<1> USE DEF SessionTypeOK, GroupTypeOK
<1>1. SUFFICES ASSUME n # position[w][p] PROVE FALSE
  OBVIOUS
<1>2. /\ start[w][p] \in Nat \ {0} /\ position[w][p] \in Nat
      /\ n \in start[w][p] .. position[w][p]
      /\ n < position[w][p] => <<p, n>> \notin ok[w]
  BY DEF SharedInv, PrefixEnd
<1>3. position[w][p] <= Len(Log[p]) + 1 /\ Len(Log[p]) \in Nat
  BY GroupAssumption DEF SharedInv, Holds, Positioned, End
<1>4. n \in 1 .. Len(Log[p]) /\ n < position[w][p]
  BY <1>1, <1>2, <1>3
<1>5. <<p, n>> \in Records
  BY <1>4 DEF Records
<1>6. <<p, n>> \in Batch(w)
  BY <1>2, <1>4, <1>5 DEF Batch, Span
<1> QED BY <1>2, <1>4, <1>6

(* A finished prefix has had its effects. *)
LEMMA PrefixDone ==
  ASSUME SharedInv, NEW w \in Workers, Window(w), ok[w] \subseteq effects,
         NEW p \in Partitions, NEW n \in Nat, PrefixEnd(w, p, n)
  PROVE  Done(p, n) /\ start[w][p] <= n /\ n <= position[w][p]
<1> USE DEF SessionTypeOK, GroupTypeOK
<1>1. Delivered(w)
  BY DEF SharedInv, Holds
<1>2. /\ start[w][p] \in Nat /\ position[w][p] \in Nat
      /\ n \in start[w][p] .. position[w][p]
  BY DEF SharedInv, PrefixEnd
<1>3. ASSUME NEW i \in 1 .. Len(Log[p]), i < n PROVE <<p, i>> \in effects
  <2>1. CASE i < start[w][p]
    BY <1>1, <2>1 DEF Delivered, Done
  <2>2. CASE start[w][p] <= i
    <3>1. i \in start[w][p] .. (n - 1)
      BY <1>2, <1>3, <2>2
    <3> QED BY <3>1 DEF PrefixEnd
  <2> QED BY <1>2, <2>1, <2>2
<1> QED BY <1>2, <1>3 DEF Done

(* What a commit of the finished prefixes offers is as CommitAdvances      *)
(* wants it.                                                               *)
LEMMA PrefixCommit ==
  ASSUME AsyncInv, NEW w \in Workers, pc[w] = "committing", CommitPrefix(w)
  PROVE  \E n \in [Partitions -> Nat], S \in SUBSET Partitions :
           /\ S = Committable(w)
           /\ \A p \in Partitions : PrefixEnd(w, p, n[p])
           /\ Commit(w, [p \in S |-> n[p]])
           /\ \A p \in S : /\ start[w][p] < position[w][p]
                           /\ start[w][p] <= n[p] /\ n[p] <= position[w][p]
                           /\ Done(p, n[p])
<1>1. PICK n \in [Partitions -> Nat \ {0}] :
        /\ \A p \in Partitions : PrefixEnd(w, p, n[p])
        /\ Commit(w, [p \in Committable(w) |-> n[p]])
        /\ Committable(w) \in SUBSET Partitions
  BY CommitPrefixForm
<1>2. SharedInv /\ Window(w) /\ ok[w] \subseteq effects
  BY DEF AsyncInv, BatchWork, Window
<1>3. \A p \in Partitions : /\ Done(p, n[p])
                            /\ start[w][p] <= n[p] /\ n[p] <= position[w][p]
  BY <1>1, <1>2, PrefixDone
<1>4. ASSUME NEW p \in Committable(w) PROVE start[w][p] < position[w][p]
  <2>1. p \in Partitions /\ ~PrefixEnd(w, p, start[w][p])
    BY DEF Committable
  <2>2. /\ start[w][p] \in Nat /\ position[w][p] \in Nat
        /\ start[w][p] <= position[w][p]
    BY <1>2, <2>1 DEF SharedInv, Holds, Positioned, SessionTypeOK, GroupTypeOK
  <2> QED BY <2>1, <2>2 DEF PrefixEnd
<1> QED BY <1>1, <1>3, <1>4

-----------------------------------------------------------------------------
(* After the batch. *)

(* processBatch has returned; the loop decides what to do. *)
LEMMA ReturnKeeps ==
  ASSUME AsyncInv, TypeOK', NEW w \in Workers, BatchReturns(w) \/ PrepareCommit(w)
  PROVE  AsyncInv'
<1> USE DEF TypeOK, SessionTypeOK, GroupTypeOK
<1>1. /\ UNCHANGED <<groupVars, stale, captured, ctxDone, start, stopping, effects>>
      /\ UNCHANGED <<committed, member, assigned, position, failed, running, ok>>
  BY DEF BatchReturns, PrepareCommit, groupVars, batchVars
<1>2. SharedInv /\ Holds(w) /\ BatchWork(w)
  BY DEF AsyncInv, SharedInv
<1>3. /\ \A v \in Workers \ {w} : pc'[v] = pc[v]
      /\ pc[w] \in {"processing", "returned"}
      /\ pc'[w] \in {"returned", "committing", "releasing"}
      /\ pc[w] = "processing" => pc'[w] = "returned"
      /\ running[w] = {}
  BY <1>2 DEF AsyncInv, BatchReturns, PrepareCommit, Goto, BatchWork
<1>4. member[w] = "joined" => \A p \in assigned[w] : start[w][p] = committed[p]
  BY <1>2, <1>3 DEF Holds, Owned, Uncommitted, BatchWork
<1>5. SharedInv'
  <2>1. Window(w) /\ Window(w)' /\ Bound(w)'
    BY <1>3 DEF Window, Bound
  <2> QED BY <1>1, <1>2, <1>3, <1>4, <2>1, InWindowKeeps
<1>6. Batch(w)' = Batch(w)
  BY <1>1 DEF Batch
<1>7. CASE BatchReturns(w)
  <2>1. stale[w] \/ stopping[w] \/ failed[w] \/ Batch(w) \subseteq ok[w]
    BY <1>2, <1>7 DEF BatchReturns, Cancelled, Holds, Session
  <2>2. pc'[w] = "returned"
    BY <1>7 DEF BatchReturns, Goto, AsyncInv
  <2>3. BatchWork(w)'
    BY <1>1, <1>2, <1>3, <1>4, <1>6, <2>1, <2>2 DEF BatchWork, Bound, Window
  <2> QED BY <1>1, <1>3, <1>5, <2>3, OthersBatch DEF AsyncInv
<1>8. CASE PrepareCommit(w)
  <2>1. failed[w] \/ Batch(w) \subseteq ok[w]
    BY <1>2, <1>8 DEF PrepareCommit, Goto, BatchWork
  <2>2. pc'[w] \in {"committing", "releasing"}
    BY <1>8 DEF PrepareCommit, Goto, AsyncInv
  <2>3. ASSUME pc'[w] = "releasing", member[w] = "joined", NEW p \in assigned[w]
        PROVE  PrefixEnd(w, p, committed[p])'
    <3>1. Committable(w) = {}
      BY <1>8, <2>3 DEF PrepareCommit, Goto, AsyncInv
    <3>2. p \in Partitions
      BY DEF AsyncInv
    <3>3. PrefixEnd(w, p, start[w][p])
      BY <3>1, <3>2 DEF Committable
    <3>4. committed'[p] = start[w][p]
      BY <1>1, <1>4, <2>3
    <3> QED BY <1>1, <3>3, <3>4 DEF PrefixEnd
  <2>4. BatchWork(w)'
    BY <1>1, <1>2, <1>3, <1>6, <2>1, <2>2, <2>3 DEF BatchWork, Bound, Window
  <2> QED BY <1>1, <1>3, <1>5, <2>4, OthersBatch DEF AsyncInv
<1> QED BY <1>7, <1>8

(* The turn ends without a commit; only a whole batch is followed by a     *)
(* poll.                                                                   *)
LEMMA LeaveKeeps ==
  ASSUME AsyncInv, TypeOK', NEW w \in Workers,
         Yield(w) \/ StopAfterBatch(w) \/ Release(w)
  PROVE  AsyncInv'
<1> USE DEF TypeOK, SessionTypeOK, GroupTypeOK
<1>1. SharedInv /\ BatchWork(w)
  BY DEF AsyncInv
<1>2. PICK from \in {"returned", "releasing"}, to \in {"idle", "exiting", "yielded"} :
        /\ LeaveTurn(w, from, to)
        /\ to = "idle" => from = "releasing" /\ ~failed[w]
  BY DEF Yield, StopAfterBatch, Release
<1>3. EndBatch(w) /\ Goto(w, from, to) /\ EndTurn(w) /\ UNCHANGED <<groupVars, stopping, effects>>
  BY <1>2 DEF Yield, StopAfterBatch, Release, LeaveTurn
<1>4. /\ UNCHANGED <<committed, member, assigned, position>>
      /\ pc[w] = from /\ pc'[w] = to
      /\ ~failed'[w] /\ running'[w] = {} /\ ok'[w] = {}
      /\ \A v \in Workers \ {w} :
           /\ pc'[v] = pc[v] /\ start'[v] = start[v] /\ stale'[v] = stale[v]
           /\ failed'[v] = failed[v] /\ running'[v] = running[v] /\ ok'[v] = ok[v]
  BY <1>3 DEF AsyncInv, Goto, EndTurn, EndBatch, groupVars
<1>5. Window(w) /\ ~Bound(w)'
  BY <1>2, <1>4 DEF Window, Bound
<1>6. ASSUME to = "idle"
      PROVE  /\ \A p \in Partitions : Done(p, position[w][p])
             /\ member[w] = "joined" => \A p \in assigned[w] : position[w][p] = committed[p]
  <2>1. pc[w] = "releasing" /\ Batch(w) \subseteq ok[w] /\ Batch(w) \subseteq effects
    BY <1>1, <1>2, <1>4, <1>6 DEF BatchWork
  <2>2. ASSUME member[w] = "joined", NEW p \in assigned[w]
        PROVE  position[w][p] = committed[p]
    <3>1. p \in Partitions /\ committed[p] \in Nat
      BY DEF AsyncInv
    <3>2. PrefixEnd(w, p, committed[p])
      BY <1>1, <2>1, <2>2 DEF BatchWork
    <3> QED BY <1>1, <2>1, <3>1, <3>2, WholeBatch
  <2> QED BY <1>1, <1>5, <2>1, <2>2, BatchDone
<1>7. SharedInv'
  BY <1>1, <1>2, <1>3, <1>5, <1>6, TurnEndKeeps
<1>8. \A v \in Workers : BatchWork(v)'
  BY <1>3, <1>4, <1>5, NoBatch, OthersBatch
<1> QED BY <1>7, <1>8 DEF AsyncInv

(* A commit that succeeds moves the committed offsets to the end of the    *)
(* finished prefixes.                                                      *)
LEMMA CommitSucceedsKeeps ==
  ASSUME AsyncInv, TypeOK', NEW w \in Workers, CommitSucceeds(w)
  PROVE  AsyncInv'
<1> USE DEF TypeOK, SessionTypeOK, GroupTypeOK
<1>1. SharedInv /\ Holds(w) /\ BatchWork(w)
  BY DEF AsyncInv, SharedInv
<1>2. pc[w] = "committing" /\ pc'[w] = "releasing" /\ CommitPrefix(w)
  BY DEF AsyncInv, CommitSucceeds, Goto
<1>3. PICK n \in [Partitions -> Nat], S \in SUBSET Partitions :
        /\ S = Committable(w)
        /\ \A p \in Partitions : PrefixEnd(w, p, n[p])
        /\ Commit(w, [p \in S |-> n[p]])
        /\ \A p \in S : /\ start[w][p] < position[w][p]
                        /\ start[w][p] <= n[p] /\ n[p] <= position[w][p]
                        /\ Done(p, n[p])
  BY <1>2, PrefixCommit
<1>4. /\ UNCHANGED <<member, assigned, position, start, stale, captured, stopping, ctxDone>>
      /\ UNCHANGED <<failed, running, ok, owner, effects>>
      /\ \A v \in Workers \ {w} : pc'[v] = pc[v]
  BY <1>3 DEF AsyncInv, CommitSucceeds, Commit, Goto, batchVars
<1>5. \A v \in Workers \ {w} : Same(v)
  BY <1>4 DEF Same
<1>6. Holds(w)'
  <2>1. Positioned(w)'
    BY <1>1, <1>2, <1>4 DEF Holds, Positioned, Window
  <2>2. Session(w)'
    BY <1>1, <1>2, <1>4 DEF Holds, Session, Window, Gone, Bound
  <2>3. Delivered(w)'
    BY <1>1, <1>2, <1>4 DEF Holds, Delivered, Window, BetweenBatches, Done
  <2>4. Owned(w)'
    BY <1>1, <1>2, <1>4 DEF Holds, Owned, BetweenBatches, Uncommitted
  <2> QED BY <2>1, <2>2, <2>3, <2>4 DEF Holds
<1>7. SharedInv'
  BY <1>1, <1>2, <1>3, <1>4, <1>5, <1>6, CommitKeeps
<1>8. /\ \A p \in Partitions : committed'[p] = IF p \in S THEN n[p] ELSE committed[p]
      /\ \A v \in Workers \ {w} : member[v] = "joined" =>
           \A p \in assigned[v] \cap Partitions : committed'[p] = committed[p]
  <2> HIDE DEF TypeOK, SessionTypeOK, GroupTypeOK
  <2> QED BY <1>1, <1>2, <1>3, CommitAdvances
<1>9. ASSUME member[w] = "joined", NEW p \in assigned[w]
      PROVE  PrefixEnd(w, p, committed[p])'
  <2>1. p \in Partitions
    BY DEF AsyncInv
  <2>2. PrefixEnd(w, p, committed'[p])
    <3>1. CASE p \in S
      BY <1>3, <1>8, <2>1, <3>1
    <3>2. CASE p \notin S
      <4>1. PrefixEnd(w, p, start[w][p]) /\ committed'[p] = committed[p]
        BY <1>3, <1>8, <2>1, <3>2 DEF Committable
      <4>2. start[w][p] = committed[p]
        BY <1>1, <1>2, <1>9 DEF Holds, Owned, Uncommitted
      <4> QED BY <4>1, <4>2
    <3> QED BY <3>1, <3>2
  <2> QED BY <1>4, <2>2 DEF PrefixEnd
<1>10. BatchWork(w)'
  <2>1. Batch(w)' = Batch(w)
    BY <1>4 DEF Batch
  <2> QED BY <1>1, <1>2, <1>4, <1>9, <2>1 DEF BatchWork, Bound, Window
<1>11. \A v \in Workers \ {w} : assigned[v] \subseteq Partitions
  BY DEF AsyncInv
<1>12. \A v \in Workers : BatchWork(v)'
  BY <1>4, <1>8, <1>10, <1>11, OthersBatch
<1> QED BY <1>7, <1>12 DEF AsyncInv

(* A commit that fails ends the runner, applied or not. *)
LEMMA CommitFailsKeeps ==
  ASSUME AsyncInv, TypeOK', NEW w \in Workers, CommitFails(w)
  PROVE  AsyncInv'
<1> USE DEF TypeOK, SessionTypeOK, GroupTypeOK
<1>1. SharedInv /\ BatchWork(w) /\ pc[w] = "committing" /\ Window(w)
  BY DEF AsyncInv, CommitFails, Goto, Window
<1>2. Goto(w, "committing", "exiting") /\ EndTurn(w) /\ EndBatch(w)
      /\ UNCHANGED <<stopping, effects>>
  BY DEF CommitFails
<1>3. UNCHANGED <<member, assigned, position, owner>>
  BY DEF CommitFails, CommitPrefix, Commit, groupVars
<1>4. /\ pc'[w] = "exiting"
      /\ ~failed'[w] /\ running'[w] = {} /\ ok'[w] = {}
      /\ \A v \in Workers \ {w} :
           /\ pc'[v] = pc[v] /\ start'[v] = start[v] /\ stale'[v] = stale[v]
           /\ failed'[v] = failed[v] /\ running'[v] = running[v] /\ ok'[v] = ok[v]
  BY <1>2 DEF AsyncInv, Goto, EndTurn, EndBatch
<1>5. BatchWork(w)'
  BY <1>4, NoBatch DEF Bound, Window
<1>6. Holds(w)' /\ \A v \in Workers \ {w} : Same(v)
  BY <1>1, <1>2, <1>3, TurnEndHolds
<1>7. CASE CommitPrefix(w)
  <2>1. PICK n \in [Partitions -> Nat], S \in SUBSET Partitions :
          /\ Commit(w, [p \in S |-> n[p]])
          /\ \A p \in S : /\ start[w][p] < position[w][p]
                          /\ start[w][p] <= n[p] /\ n[p] <= position[w][p]
                          /\ Done(p, n[p])
    BY <1>1, <1>7, PrefixCommit
  <2>2. SharedInv'
    BY <1>1, <1>2, <1>6, <2>1, CommitKeeps
  <2>3. \A v \in Workers \ {w} : member[v] = "joined" =>
          \A p \in assigned[v] \cap Partitions : committed'[p] = committed[p]
    <3> HIDE DEF TypeOK, SessionTypeOK, GroupTypeOK
    <3> QED BY <1>1, <2>1, CommitAdvances
  <2>4. \A v \in Workers \ {w} : assigned[v] \subseteq Partitions
    BY DEF AsyncInv
  <2>5. \A v \in Workers : BatchWork(v)'
    <3>1. \A v \in Workers \ {w} :
            member[v] = "joined" => \A p \in assigned[v] : committed'[p] = committed[p]
      BY <2>3, <2>4
    <3> HIDE DEF TypeOK, SessionTypeOK, GroupTypeOK
    <3> QED BY <1>2, <1>3, <1>4, <1>5, <3>1, OthersBatch
  <2> QED BY <2>2, <2>5 DEF AsyncInv
<1>8. CASE UNCHANGED groupVars
  <2>1. committed' = committed
    BY <1>8 DEF groupVars
  <2>2. SharedInv'
    BY <1>1, <1>2, <1>3, <1>6, <2>1, QuietStep
  <2>3. \A v \in Workers : BatchWork(v)'
    BY <1>2, <1>3, <1>4, <1>5, <2>1, OthersBatch
  <2> QED BY <2>2, <2>3 DEF AsyncInv
<1> QED BY <1>7, <1>8 DEF CommitFails

(* A crash takes the batch with it. *)
LEMMA CrashBatch ==
  ASSUME AsyncInv, TypeOK', NEW w \in Workers, Crash(w), EndBatch(w)
  PROVE  AsyncInv'
<1> USE DEF TypeOK, SessionTypeOK, GroupTypeOK
<1>1. SharedInv'
  BY SessionEndKeeps DEF AsyncInv
<1>2. /\ committed' = committed /\ effects' = effects
      /\ \A v \in Workers \ {w} :
           /\ pc'[v] = pc[v] /\ member'[v] = member[v] /\ assigned'[v] = assigned[v]
           /\ position'[v] = position[v] /\ start'[v] = start[v]
           /\ stale'[v] = stale[v] /\ stopping'[v] = stopping[v]
           /\ failed'[v] = failed[v] /\ running'[v] = running[v] /\ ok'[v] = ok[v]
      /\ pc'[w] = "crashed" /\ ~failed'[w] /\ running'[w] = {} /\ ok'[w] = {}
  BY DEF AsyncInv, Crash, ForgetAssignment, EndTurn, EndBatch
<1>3. BatchWork(w)'
  BY <1>2, NoBatch DEF Bound, Window
<1>4. \A v \in Workers \ {w} : BatchWork(v)'
  BY <1>2, BatchFrame DEF AsyncInv
<1> QED BY <1>1, <1>3, <1>4 DEF AsyncInv

-----------------------------------------------------------------------------
(* The theorems of the async runner. *)

(* The invariant holds at the start. *)
LEMMA InitInv == Init => AsyncInv
<1> SUFFICES ASSUME Init PROVE AsyncInv
  OBVIOUS
<1>1. TypeOK /\ SharedInv
  BY SessionInitType, SharedInit DEF Init, TypeOK
<1>2. \A w \in Workers : BatchWork(w)
  BY DEF Init, SessionInit, BatchWork
<1> QED BY <1>1, <1>2 DEF AsyncInv

(* Every step keeps the invariant. *)
LEMMA StepInv == AsyncInv /\ [Next]_vars => AsyncInv'
<1> SUFFICES ASSUME AsyncInv, [Next]_vars PROVE AsyncInv'
  OBVIOUS
<1>1. TypeOK' /\ SessionTypeOK' /\ SharedInv
  BY StepType DEF AsyncInv, TypeOK
<1>2. CASE UNCHANGED vars
  <2>1. \A v \in Workers : BatchWork(v)'
    BY <1>2, BatchFrame DEF AsyncInv, vars, groupVars, sessionVars, batchVars
  <2> QED BY <1>1, <1>2, <2>1, StutterKeeps DEF AsyncInv, vars
<1>3. CASE Rebalance /\ UNCHANGED batchVars
  BY <1>1, <1>3, RebalanceKeeps, RebalanceBatch DEF AsyncInv
<1>4. ASSUME NEW w \in Workers, UNCHANGED batchVars,
             \/ SessionStep(w) \/ Callback(w) \/ Surroundings(w) \/ PollReturns(w, Concurrency)
      PROVE  AsyncInv'
  BY <1>1, <1>4, SessionKeeps, SessionBatch DEF AsyncInv
<1>5. ASSUME NEW w \in Workers, LoopStep(w) PROVE AsyncInv'
  BY <1>1, <1>4, <1>5, ReturnKeeps, LeaveKeeps, CommitSucceedsKeeps, CommitFailsKeeps
  DEF LoopStep
<1>6. ASSUME NEW w \in Workers, PollStep(w) \/ CallbackStep(w) PROVE AsyncInv'
  BY <1>4, <1>6 DEF PollStep, CallbackStep
<1>7. ASSUME NEW w \in Workers, Handler(w) PROVE AsyncInv'
  BY <1>1, <1>7, HandlerKeeps DEF Handler
<1>8. ASSUME NEW w \in Workers, Crash(w), EndBatch(w) PROVE AsyncInv'
  BY <1>1, <1>8, CrashBatch
<1> QED BY <1>2, <1>3, <1>4, <1>5, <1>6, <1>7, <1>8 DEF Next

(* The inductive invariant holds in every state. *)
THEOREM Invariant == Spec => []AsyncInv
<1>1. Init => AsyncInv
  BY InitInv
<1>2. AsyncInv /\ [Next]_vars => AsyncInv'
  BY StepInv
<1> QED BY <1>1, <1>2, PTL DEF Spec

(* A session that polls again does so from the committed offset: no record *)
(* it fetched and left uncommitted is skipped by its next poll.            *)
THEOREM NeverSkips == Spec => []SessionNeverSkips
<1>1. AsyncInv => SessionNeverSkips
  BY SharedNeverSkips DEF AsyncInv
<1> QED BY <1>1, Invariant, PTL

(* A worker in good standing that is about to close its window has         *)
(* committed exactly the finished prefix of each of its partitions,        *)
(* whether the batch failed or not.                                        *)
THEOREM PrefixKept == Spec => []FinishedPrefixIsCommitted
<1>1. ASSUME AsyncInv, NEW w \in Joined, pc[w] = "releasing", NEW r \in Batch(w),
             r[1] \in assigned[w]
      PROVE  r[2] < committed[r[1]] <=>
               \A e \in Batch(w) : e[1] = r[1] /\ e[2] <= r[2] => e \in ok[w]
  <2> DEFINE p == r[1]
             n == committed[p]
  <2>1. w \in Workers /\ member[w] = "joined" /\ TypeOK /\ SharedInv /\ BatchWork(w)
    BY <1>1 DEF AsyncInv, Joined
  <2>2. PICK q \in Partitions : \E i \in 1 .. Len(Log[q]) : r = <<q, i>>
    BY <1>1 DEF Batch, Span, Records
  <2>3. PICK i \in 1 .. Len(Log[q]) : r = <<q, i>>
    BY <2>2
  <2>4. /\ p = q /\ r[2] = i /\ i \in Nat
        /\ start[w][p] <= i /\ i < position[w][p]
    BY <1>1, <2>2, <2>3, GroupAssumption DEF Batch, Span
  <2>5. n \in Nat /\ start[w][p] \in Nat /\ position[w][p] \in Nat
    BY <2>1, <2>2, <2>4 DEF TypeOK, SessionTypeOK, GroupTypeOK
  <2>6. PrefixEnd(w, p, n)
    BY <1>1, <2>1 DEF BatchWork
  <2>7. ASSUME i < n, NEW e \in Batch(w), e[1] = r[1], e[2] <= r[2]
        PROVE  e \in ok[w]
    <3>1. PICK f \in Partitions : \E j \in 1 .. Len(Log[f]) : e = <<f, j>>
      BY <2>7 DEF Batch, Span, Records
    <3>2. PICK j \in 1 .. Len(Log[f]) : e = <<f, j>>
      BY <3>1
    <3>3. e = <<p, j>> /\ j \in Nat /\ start[w][p] <= j /\ j <= i
      BY <2>4, <2>7, <3>1, <3>2, GroupAssumption DEF Batch, Span
    <3>4. j \in start[w][p] .. (n - 1)
      BY <2>4, <2>5, <2>7, <3>3
    <3> QED BY <2>6, <3>3, <3>4 DEF PrefixEnd
  <2>8. ASSUME n <= i PROVE \E e \in Batch(w) : e[1] = r[1] /\ e[2] <= r[2] /\ e \notin ok[w]
    <3>1. start[w][p] <= n /\ n < position[w][p] /\ <<p, n>> \notin ok[w]
      BY <2>4, <2>5, <2>6, <2>8 DEF PrefixEnd
    <3>2. start[w][p] \in Nat \ {0} /\ n \in 1 .. Len(Log[p])
      BY <2>1, <2>2, <2>3, <2>4, <2>5, <2>8, <3>1, GroupAssumption
      DEF TypeOK, SessionTypeOK, GroupTypeOK
    <3>3. <<p, n>> \in Batch(w)
      BY <2>2, <2>4, <3>1, <3>2 DEF Batch, Span, Records
    <3> QED BY <2>4, <2>8, <3>1, <3>3
  <2> QED BY <2>4, <2>5, <2>7, <2>8
<1>2. AsyncInv => FinishedPrefixIsCommitted
  <2> SUFFICES ASSUME AsyncInv, NEW w \in Joined, pc[w] = "releasing", NEW r \in Batch(w),
                      r[1] \in assigned[w]
               PROVE  r[2] < committed[r[1]] <=>
                        \A e \in Batch(w) : e[1] = r[1] /\ e[2] <= r[2] => e \in ok[w]
    BY DEF FinishedPrefixIsCommitted
  <2> QED BY <1>1
<1> QED BY <1>2, Invariant, PTL

(* Two members in good standing never run a handler for the same record at *)
(* the same time.                                                          *)
THEOREM NoDuplicate == Spec => []NoConcurrentDuplicate
<1>1. ASSUME AsyncInv, NEW w \in Joined, NEW r \in running[w]
      PROVE  pc[w] = "processing" /\ r \in Batch(w)
  <2>1. w \in Workers /\ BatchWork(w) /\ SessionTypeOK
    BY <1>1 DEF AsyncInv, TypeOK, Joined
  <2> QED BY <1>1, <2>1 DEF BatchWork, Bound, Window
<1>2. AsyncInv => BatchesDisjoint
  BY SharedDisjoint DEF AsyncInv
<1>3. AsyncInv => NoConcurrentDuplicate
  <2> SUFFICES ASSUME AsyncInv, NEW w1 \in Joined, NEW w2 \in Joined, w1 # w2,
                      NEW r \in running[w1] \cap running[w2]
               PROVE  FALSE
    BY DEF NoConcurrentDuplicate
  <2>1. /\ pc[w1] = "processing" /\ r \in Batch(w1)
        /\ pc[w2] = "processing" /\ r \in Batch(w2)
    BY <1>1
  <2> QED BY <1>2, <2>1 DEF BatchesDisjoint
<1> QED BY <1>3, Invariant, PTL

(* A handler that ends delivers its record or nothing. *)
LEMMA HandlerImplements ==
  ASSUME AsyncInv, NEW w \in Workers, NEW r \in Records,
         StartHandler(w, r) \/ HandlerSucceeds(w, r) \/ HandlerFails(w, r)
  PROVE  Promise!Deliver(r) \/ UNCHANGED <<effects, committed>>
<1>1. committed' = committed
  BY DEF StartHandler, HandlerSucceeds, HandlerFails, groupVars
<1>2. effects' = effects \/ (r \in running[w] /\ effects' = effects \cup {r})
  BY DEF StartHandler, HandlerSucceeds, HandlerFails
<1>3. ASSUME r \in running[w] PROVE Promise!EarlierInLane(r) \subseteq effects
  <2>1. Before(r) \subseteq effects
    BY <1>3 DEF AsyncInv, BatchWork
  <2>2. Promise!EarlierInLane(r) \subseteq Before(r)
    BY DEF Promise!EarlierInLane, Promise!Records, Records, Before, SameLaneBefore, Lane
  <2> QED BY <2>1, <2>2
<1> QED BY <1>1, <1>2, <1>3 DEF Promise!Deliver

(* Every step of the workers is a step of the promise or none. *)
LEMMA StepImplements ==
  ASSUME AsyncInv, AsyncInv', [Next]_vars
  PROVE  [Promise!Next]_<<effects, committed>>
<1> DEFINE Silent == UNCHANGED <<effects, committed>>
<1>1. UNCHANGED vars => Silent
  BY DEF vars, groupVars
<1>2. ASSUME NEW w \in Workers,
             \/ SessionStep(w) \/ Callback(w) \/ Surroundings(w) \/ Crash(w)
             \/ PollReturns(w, Concurrency)
      PROVE  Silent
  BY <1>2, SessionSilent
<1>3. Rebalance => Silent
  BY DEF Rebalance, StartRebalance, CompleteRebalance
<1>4. ASSUME NEW w \in Workers,
             BatchReturns(w) \/ Yield(w) \/ StopAfterBatch(w) \/ PrepareCommit(w) \/ Release(w)
      PROVE  Silent
  BY <1>4 DEF BatchReturns, Yield, StopAfterBatch, PrepareCommit, Release, LeaveTurn,
              groupVars
<1>5. ASSUME NEW w \in Workers, CommitSucceeds(w) \/ CommitFails(w)
      PROVE  Promise!Advance \/ Silent
  <2>1. pc[w] = "committing" /\ effects' = effects
    BY <1>5 DEF CommitSucceeds, CommitFails, Goto
  <2>2. CASE CommitPrefix(w)
    BY <2>1, <2>2, PrefixCommit, CommitImplements DEF AsyncInv, TypeOK
  <2> QED BY <1>5, <2>1, <2>2 DEF CommitSucceeds, CommitFails, groupVars
<1>6. ASSUME NEW w \in Workers, Handler(w)
      PROVE  (\E r \in Promise!Records : Promise!Deliver(r)) \/ Silent
  BY <1>6, HandlerImplements DEF Handler, Promise!Records, Records
<1> QED BY <1>1, <1>2, <1>3, <1>4, <1>5, <1>6
    DEF Next, LoopStep, PollStep, CallbackStep, Promise!Next

(* The async workers together are an at-least-once consumer of the topic:  *)
(* effects in the order of each lane, commits only over finished records   *)
(* and never back, through rebalances, evictions, crashes and lost answers. *)
THEOREM Implementation == Spec => Implements
<1>1. Init => Promise!Init
  BY DEF Init, SessionInit, GroupInit, Promise!Init
<1>2. AsyncInv /\ AsyncInv' /\ [Next]_vars => [Promise!Next]_(Promise!vars)
  BY StepImplements DEF Promise!vars
<1> QED BY <1>1, <1>2, Invariant, PTL DEF Spec, Implements, Promise!Spec

-----------------------------------------------------------------------------
(*                    The serial runner: SerialConsumer                    *)

(* The serial runner: a batch is one record, and Process without an error  *)
(* has handled and committed it.                                           *)
RecordWork(w) ==
  /\ ~Bound(w) => ~handleErr[w]
  /\ Window(w) => \A r1, r2 \in Batch(w) : r1 = r2
  /\ pc[w] = "committing" => Batch(w) \subseteq effects
  /\ pc[w] = "releasing" => ~handleErr[w]
  /\ pc[w] \in {"returned", "releasing"} /\ ~handleErr[w] =>
       /\ Batch(w) \subseteq effects
       /\ member[w] = "joined" => \A p \in assigned[w] : position[w][p] = committed[p]

SerialTypeOK == SessionTypeOK /\ handleErr \in [Workers -> BOOLEAN]

SerialInv == SerialTypeOK /\ SharedInv /\ \A w \in Workers : RecordWork(w)

(* The topic has finitely many records. *)
LEMMA RecordsFinite == IsFiniteSet(Records)
<1> DEFINE Of(p) == {<<p, i>> : i \in 1 .. Len(Log[p])}
           F == {Of(p) : p \in Partitions}
<1>1. ASSUME NEW p \in Partitions PROVE IsFiniteSet(Of(p))
  <2> DEFINE f == [i \in 1 .. Len(Log[p]) |-> <<p, i>>]
  <2>1. f \in Surjection(1 .. Len(Log[p]), Of(p))
    BY DEF Surjection
  <2>2. IsFiniteSet(1 .. Len(Log[p]))
    BY GroupAssumption, FS_Interval
  <2> QED BY <2>1, <2>2, FS_Surjection
<1>2. IsFiniteSet(F)
  <2> DEFINE g == [p \in Partitions |-> Of(p)]
  <2>1. g \in Surjection(Partitions, F)
    BY DEF Surjection
  <2> QED BY <2>1, FS_Surjection, GroupAssumption
<1>3. IsFiniteSet(UNION F)
  BY <1>1, <1>2, FS_UNION
<1> QED BY <1>3 DEF Records

(* A poll of at most one record returns one record. *)
LEMMA OneRecord ==
  ASSUME NEW from, NEW upto, Cardinality(Span(from, upto)) \in 1 .. 1
  PROVE  \A r1, r2 \in Span(from, upto) : r1 = r2
<1>1. IsFiniteSet(Span(from, upto))
  BY RecordsFinite, FS_Subset DEF Span
<1>2. Cardinality(Span(from, upto)) = 1
  OBVIOUS
<1>3. PICK x : Span(from, upto) = {x}
  BY <1>1, <1>2, FS_Singleton
<1> QED BY <1>3

(* The steps of the runner keep the types. *)
LEMMA SerialStepType == SerialTypeOK /\ [SerialNext]_serialVars => SerialTypeOK'
<1> SUFFICES ASSUME SerialTypeOK, [SerialNext]_serialVars PROVE SerialTypeOK'
  OBVIOUS
<1>1. SessionTypeOK /\ GroupTypeOK /\ effects \subseteq Records
  BY DEF SerialTypeOK, SessionTypeOK
<1>2. ASSUME SessionTypeOK', UNCHANGED handleErr PROVE SerialTypeOK'
  BY <1>2 DEF SerialTypeOK
<1>3. ASSUME NEW w \in Workers, SessionTypeOK', ForgetError(w) PROVE SerialTypeOK'
  BY <1>3 DEF SerialTypeOK, ForgetError
<1>4. CASE UNCHANGED serialVars
  BY <1>1, <1>2, <1>4, SessionStutterType DEF serialVars
<1>5. CASE Rebalance /\ UNCHANGED handleErr
  BY <1>1, <1>2, <1>5, RebalanceType
<1>6. ASSUME NEW w \in Workers, UNCHANGED handleErr,
             SessionStep(w) \/ Callback(w) \/ Surroundings(w) \/ PollReturns(w, 1)
      PROVE  SerialTypeOK'
  BY <1>1, <1>2, <1>6, SessionType
<1>7. ASSUME NEW w \in Workers, HandleReturns(w) PROVE SerialTypeOK'
  <2>1. GroupTypeOK' /\ effects' \subseteq Records
    BY <1>1, <1>7, GroupType DEF HandleReturns, RecordHandled, HandleFails, Batch, Span
  <2>2. SessionTypeOK'
    BY <1>1, <1>7, <2>1, InTurnType DEF HandleReturns, RecordHandled, HandleFails
  <2>3. handleErr' \in [Workers -> BOOLEAN]
    BY <1>7 DEF SerialTypeOK, HandleReturns, RecordHandled, HandleFails
  <2> QED BY <2>2, <2>3 DEF SerialTypeOK
<1>8. ASSUME NEW w \in Workers, RecordCommitted(w) \/ CommitRecordFails(w) PROVE SerialTypeOK'
  <2>1. CommitRecord(w) => GroupTypeOK'
    BY <1>1, GroupType DEF CommitRecord, GroupTypeOK
  <2>2. GroupTypeOK' /\ effects' \subseteq Records
    BY <1>1, <1>8, <2>1, GroupType DEF RecordCommitted, CommitRecordFails
  <2>3. SessionTypeOK'
    BY <1>1, <1>8, <2>2, InTurnType DEF RecordCommitted, CommitRecordFails
  <2>4. handleErr' \in [Workers -> BOOLEAN]
    BY <1>8 DEF SerialTypeOK, RecordCommitted, CommitRecordFails
  <2> QED BY <2>3, <2>4 DEF SerialTypeOK
<1>9. ASSUME NEW w \in Workers, ProcessSucceeded(w) PROVE SerialTypeOK'
  <2>1. GroupTypeOK' /\ effects' \subseteq Records
    BY <1>1, <1>9, GroupType DEF ProcessSucceeded
  <2>2. SessionTypeOK'
    BY <1>1, <1>9, <2>1, InTurnType DEF ProcessSucceeded
  <2> QED BY <1>2, <1>9, <2>2 DEF ProcessSucceeded
<1>10. ASSUME NEW w \in Workers, YieldAfterProcess(w) \/ ProcessFailed(w) \/ ReleaseRecord(w)
       PROVE  SerialTypeOK'
  <2>1. SessionTypeOK'
    BY <1>1, <1>10, LeaveTurnType DEF YieldAfterProcess, ProcessFailed, ReleaseRecord
  <2> QED BY <1>2, <1>3, <1>10, <2>1 DEF YieldAfterProcess, ProcessFailed, ReleaseRecord
<1>11. ASSUME NEW w \in Workers, Crash(w), ForgetError(w) PROVE SerialTypeOK'
  BY <1>1, <1>3, <1>11, SessionType
<1> QED BY <1>4, <1>5, <1>6, <1>7, <1>8, <1>9, <1>10, <1>11
    DEF SerialNext, SerialLoopStep, PollRecord, SerialCallback

-----------------------------------------------------------------------------
(* What is known of the record is kept. *)

(* A worker whose record a step leaves alone. *)
LEMMA RecordFrame ==
  ASSUME NEW v \in Workers, RecordWork(v),
         pc'[v] = pc[v], assigned'[v] = assigned[v],
         position'[v] = position[v], start'[v] = start[v],
         handleErr'[v] = handleErr[v], effects \subseteq effects',
         member'[v] = "joined" => member[v] = "joined",
         member[v] = "joined" => \A p \in assigned[v] : committed'[p] = committed[p]
  PROVE  RecordWork(v)'
  BY DEF RecordWork, Bound, Window, Batch, Span

(* Outside the poll window there is no record. *)
LEMMA NoRecord ==
  ASSUME NEW v \in Workers, ~Window(v)', ~handleErr'[v]
  PROVE  RecordWork(v)'
  BY DEF RecordWork, Bound, Window

(* A step of the work of w leaves the records of others alone. *)
LEMMA OthersRecord ==
  ASSUME SerialInv, NEW w \in Workers, UNCHANGED <<member, assigned, position>>,
         \A v \in Workers \ {w} :
           /\ pc'[v] = pc[v] /\ start'[v] = start[v] /\ handleErr'[v] = handleErr[v]
           /\ member[v] = "joined" => \A p \in assigned[v] : committed'[p] = committed[p],
         effects \subseteq effects',
         RecordWork(w)'
  PROVE  \A v \in Workers : RecordWork(v)'
<1>1. \A v \in Workers \ {w} : RecordWork(v)'
  BY RecordFrame DEF SerialInv
<1> QED BY <1>1

(* The steps of ConsumerSession before and after a record. *)
LEMMA SessionRecord ==
  ASSUME SerialInv, SessionTypeOK', NEW w \in Workers, UNCHANGED handleErr,
         SessionStep(w) \/ Callback(w) \/ Surroundings(w) \/ PollReturns(w, 1)
  PROVE  \A v \in Workers : RecordWork(v)'
<1> USE DEF SessionTypeOK, GroupTypeOK
<1>1. SessionTypeOK /\ \A v \in Workers : RecordWork(v)
  BY DEF SerialInv, SharedInv
<1>2. committed' = committed /\ effects' = effects
  BY SessionSilent
<1>3. ASSUME NEW v \in Workers \ {w}
      PROVE  /\ pc'[v] = pc[v] /\ member'[v] = member[v] /\ assigned'[v] = assigned[v]
             /\ position'[v] = position[v] /\ start'[v] = start[v]
  BY <1>1, SessionOthers
<1>4. ASSUME NEW v \in Workers \ {w} PROVE RecordWork(v)'
  BY <1>1, <1>2, <1>3, RecordFrame
<1>5. ASSUME ~Bound(w), ~Window(w)' PROVE RecordWork(w)'
  BY <1>1, <1>5, NoRecord DEF RecordWork
<1>6. CASE ReadGeneration(w) \/ StopBetweenBatches(w) \/ CloseSession(w) \/ NewSession(w)
  <2>1. ~Bound(w) /\ ~Window(w)'
    BY <1>1, <1>6 DEF ReadGeneration, StopBetweenBatches, CloseSession, NewSession,
                      LeaveTurn, Goto, Bound, Window
  <2> QED BY <1>4, <1>5, <2>1
<1>7. CASE PollReturnsNothing(w) \/ PollFails(w) \/ Expire(w)
  <2>1. ~Bound(w) /\ ~Window(w)'
    BY <1>1, <1>7 DEF PollReturnsNothing, PollFails, Expire, LeaveTurn, Goto, Bound, Window
  <2> QED BY <1>4, <1>5, <2>1
<1>8. CASE PollReturns(w, 1)
  <2>1. PICK upto \in Cursors : Poll(w, 1, upto)
    BY <1>8 DEF PollReturns
  <2>2. /\ pc[w] = "polling" /\ pc'[w] = "polled"
        /\ start'[w] = position[w] /\ position'[w] = upto
    BY <1>1, <1>8, <2>1 DEF PollReturns, Poll, Goto
  <2>3. ~handleErr[w]
    BY <1>1, <2>2 DEF RecordWork, Bound, Window
  <2>4. Batch(w)' = Span(position[w], upto)
    BY <2>2 DEF Batch
  <2>5. \A r1, r2 \in Batch(w)' : r1 = r2
    BY <2>1, <2>4, OneRecord DEF Poll
  <2>6. RecordWork(w)'
    BY <2>2, <2>3, <2>5 DEF RecordWork, Bound
  <2> QED BY <1>4, <2>6
<1>9. CASE Bind(w)
  <2>1. /\ pc[w] = "polled" /\ pc'[w] = "processing"
        /\ UNCHANGED <<member, assigned, start, position>>
    BY <1>1, <1>9 DEF Bind, Goto, groupVars
  <2>2. RecordWork(w)'
    BY <1>1, <2>1 DEF RecordWork, Bound, Window, Batch
  <2> QED BY <1>4, <2>2
<1>10. CASE Callback(w) \/ Shutdown(w) \/ EvictMember(w)
  <2>1. /\ UNCHANGED <<pc, start, position, assigned>>
        /\ member' = member \/ member'[w] = "evicted"
    BY <1>1, <1>10 DEF Callback, CallbackBlocked, Request, CallCancel, Shutdown, EvictMember,
                       Evict, groupVars, sessionVars
  <2>2. RecordWork(w)'
    BY <1>1, <1>2, <2>1, RecordFrame
  <2> QED BY <1>4, <2>2
<1>11. CASE RejoinMember(w)
  <2>1. ~Bound(w) /\ ~Window(w)'
    BY <1>11 DEF RejoinMember, Bound, Window, sessionVars
  <2> QED BY <1>4, <1>5, <2>1
<1> QED BY <1>6, <1>7, <1>8, <1>9, <1>10, <1>11 DEF SessionStep, Surroundings

(* A rebalance passes by the poll windows of the joined members. *)
LEMMA RebalanceRecord ==
  ASSUME SerialInv, SessionTypeOK', UNCHANGED handleErr, Rebalance, NEW v \in Workers
  PROVE  RecordWork(v)'
<1> USE DEF SessionTypeOK, GroupTypeOK
<1>1. SessionTypeOK /\ RecordWork(v)
  BY DEF SerialInv, SharedInv
<1>2. UNCHANGED <<pc, start, committed, effects, member>>
  BY DEF Rebalance, StartRebalance, CompleteRebalance, sessionVars
<1>3. CASE Window(v) \/ member[v] # "joined"
  <2>1. assigned'[v] = assigned[v] /\ position'[v] = position[v]
    BY <1>1, <1>3 DEF Rebalance, StartRebalance, CompleteRebalance, Joined, Open
  <2> QED BY <1>1, <1>2, <2>1, RecordFrame
<1>4. CASE ~Window(v)
  <2>1. ~Bound(v) /\ ~Window(v)'
    BY <1>2, <1>4 DEF Bound, Window
  <2> QED BY <1>1, <2>1, NoRecord DEF RecordWork
<1> QED BY <1>3, <1>4

-----------------------------------------------------------------------------
(* Process. *)

(* The handler returns; its record is durable if it succeeded. *)
LEMMA HandleKeeps ==
  ASSUME SerialInv, SerialTypeOK', NEW w \in Workers, HandleReturns(w)
  PROVE  SerialInv'
<1> USE DEF SerialTypeOK, SessionTypeOK, GroupTypeOK
<1>1. /\ UNCHANGED <<groupVars, stale, captured, ctxDone, start, stopping>>
      /\ UNCHANGED <<committed, member, assigned, position>>
      /\ effects \subseteq effects'
      /\ pc[w] = "processing"
      /\ \A v \in Workers \ {w} : pc'[v] = pc[v] /\ handleErr'[v] = handleErr[v]
  BY DEF SerialInv, HandleReturns, RecordHandled, HandleFails, Goto, groupVars
<1>2. SharedInv /\ Holds(w) /\ RecordWork(w)
  BY DEF SerialInv, SharedInv
<1>3. Batch(w)' = Batch(w)
  BY <1>1 DEF Batch
<1>4. \/ pc'[w] = "committing" /\ Batch(w) \subseteq effects'
      \/ pc'[w] = "returned" /\ handleErr'[w]
  BY DEF SerialInv, HandleReturns, RecordHandled, HandleFails, Goto
<1>5. RecordWork(w)'
  BY <1>1, <1>2, <1>3, <1>4 DEF RecordWork, Bound, Window
<1>6. \A v \in Workers : RecordWork(v)'
  BY <1>1, <1>5, OthersRecord
<1>7. SharedInv'
  <2>1. Window(w) /\ Window(w)' /\ Bound(w)'
    BY <1>1, <1>4 DEF Window, Bound
  <2>2. member[w] = "joined" => \A p \in assigned[w] : start[w][p] = committed[p]
    BY <1>1, <1>2 DEF Holds, Owned, Uncommitted
  <2> QED BY <1>1, <1>2, <2>1, <2>2, InWindowKeeps
<1> QED BY <1>6, <1>7 DEF SerialInv

(* What CommitRecord offers is as CommitAdvances wants it. *)
LEMMA RecordCommit ==
  ASSUME SerialInv, NEW w \in Workers, pc[w] = "committing", CommitRecord(w)
  PROVE  \E n \in [Partitions -> Nat], S \in SUBSET Partitions :
           /\ S = {p \in Partitions : start[w][p] < position[w][p]}
           /\ n = position[w]
           /\ Commit(w, [p \in S |-> n[p]])
           /\ \A p \in S : /\ start[w][p] < position[w][p]
                           /\ start[w][p] <= n[p] /\ n[p] <= position[w][p]
                           /\ Done(p, n[p])
<1> DEFINE S == {p \in Partitions : start[w][p] < position[w][p]}
<1>1. SharedInv /\ Window(w) /\ Batch(w) \subseteq effects
  BY DEF SerialInv, RecordWork, Window
<1>2. /\ position[w] \in [Partitions -> Nat]
      /\ \A p \in Partitions : start[w][p] \in Nat /\ position[w][p] \in Nat
  BY <1>1 DEF SharedInv, SessionTypeOK, GroupTypeOK
<1>3. \A p \in Partitions : Done(p, position[w][p])
  BY <1>1, BatchDone
<1>4. Commit(w, [p \in S |-> position[w][p]])
  BY DEF CommitRecord
<1>5. \A p \in S : start[w][p] <= position[w][p] /\ position[w][p] <= position[w][p]
  BY <1>2
<1> QED BY <1>2, <1>3, <1>4, <1>5

(* The commit of the record, with its answer or without. *)
LEMMA RecordCommitKeeps ==
  ASSUME SerialInv, SerialTypeOK', NEW w \in Workers,
         RecordCommitted(w) \/ CommitRecordFails(w)
  PROVE  SerialInv'
<1> USE DEF SerialTypeOK, SessionTypeOK, GroupTypeOK
<1>1. SharedInv /\ Holds(w) /\ RecordWork(w)
  BY DEF SerialInv, SharedInv
<1>2. /\ pc[w] = "committing" /\ pc'[w] = "returned"
      /\ \A v \in Workers \ {w} : pc'[v] = pc[v] /\ handleErr'[v] = handleErr[v]
      /\ (CommitRecord(w) /\ handleErr'[w] = handleErr[w]) \/ handleErr'[w]
      /\ CommitRecord(w) \/ UNCHANGED groupVars
      /\ UNCHANGED <<start, stale, captured, ctxDone, stopping, effects>>
  BY DEF SerialInv, RecordCommitted, CommitRecordFails, Goto
<1>3. UNCHANGED <<member, assigned, position, owner>>
  BY <1>2 DEF CommitRecord, Commit, groupVars
<1>4. \A v \in Workers \ {w} : Same(v)
  BY <1>2, <1>3 DEF Same
<1>5. Holds(w)'
  <2>1. Positioned(w)'
    BY <1>1, <1>2, <1>3 DEF Holds, Positioned, Window
  <2>2. Session(w)'
    BY <1>1, <1>2, <1>3 DEF Holds, Session, Window, Gone, Bound
  <2>3. Delivered(w)'
    BY <1>1, <1>2, <1>3 DEF Holds, Delivered, Window, BetweenBatches, Done
  <2>4. Owned(w)'
    BY <1>1, <1>2, <1>3 DEF Holds, Owned, BetweenBatches, Uncommitted
  <2> QED BY <2>1, <2>2, <2>3, <2>4 DEF Holds
<1>6. Batch(w)' = Batch(w) /\ \A v \in Workers \ {w} : assigned[v] \subseteq Partitions
  BY <1>2, <1>3 DEF Batch, SerialInv
<1>7. CASE CommitRecord(w)
  <2>1. PICK n \in [Partitions -> Nat], S \in SUBSET Partitions :
          /\ S = {p \in Partitions : start[w][p] < position[w][p]}
          /\ n = position[w]
          /\ Commit(w, [p \in S |-> n[p]])
          /\ \A p \in S : /\ start[w][p] < position[w][p]
                          /\ start[w][p] <= n[p] /\ n[p] <= position[w][p]
                          /\ Done(p, n[p])
    BY <1>2, <1>7, RecordCommit
  <2>2. SharedInv'
    BY <1>1, <1>2, <1>4, <1>5, <2>1, CommitKeeps
  <2>3. /\ \A p \in Partitions : committed'[p] = IF p \in S THEN n[p] ELSE committed[p]
        /\ \A v \in Workers \ {w} : member[v] = "joined" =>
             \A p \in assigned[v] \cap Partitions : committed'[p] = committed[p]
    <3> HIDE DEF SerialTypeOK, SessionTypeOK, GroupTypeOK
    <3> QED BY <1>1, <1>2, <2>1, CommitAdvances
  <2>4. ASSUME member[w] = "joined", NEW p \in assigned[w] PROVE position[w][p] = committed'[p]
    <3>1. p \in Partitions
      BY DEF SerialInv
    <3>2. CASE p \in S
      BY <2>1, <2>3, <3>1, <3>2
    <3>3. CASE p \notin S
      <4>1. start[w][p] = position[w][p]
        <5>1. /\ start[w][p] \in Nat /\ position[w][p] \in Nat
              /\ start[w][p] <= position[w][p]
          BY <1>1, <3>1 DEF SharedInv, Holds, Positioned
        <5>2. ~(start[w][p] < position[w][p])
          BY <2>1, <3>1, <3>3
        <5> HIDE DEF SerialTypeOK, SessionTypeOK, GroupTypeOK
        <5> QED BY <5>1, <5>2
      <4> QED BY <1>1, <1>2, <2>3, <2>4, <3>1, <3>3, <4>1 DEF Holds, Owned, Uncommitted
    <3> QED BY <3>2, <3>3
  <2>5. RecordWork(w)'
    BY <1>1, <1>2, <1>3, <1>6, <2>4 DEF RecordWork, Bound, Window
  <2>6. \A v \in Workers : RecordWork(v)'
    <3>1. \A v \in Workers \ {w} :
            member[v] = "joined" => \A p \in assigned[v] : committed'[p] = committed[p]
      BY <1>6, <2>3
    <3> HIDE DEF SerialTypeOK, SessionTypeOK, GroupTypeOK
    <3> QED BY <1>2, <1>3, <2>5, <3>1, OthersRecord
  <2> QED BY <2>2, <2>6 DEF SerialInv
<1>8. CASE UNCHANGED groupVars /\ handleErr'[w]
  <2>1. committed' = committed
    BY <1>8 DEF groupVars
  <2>2. SharedInv'
    BY <1>1, <1>2, <1>3, <1>4, <1>5, <2>1, QuietStep
  <2>3. RecordWork(w)'
    BY <1>1, <1>2, <1>6, <1>8 DEF RecordWork, Bound, Window
  <2>4. \A v \in Workers : RecordWork(v)'
    BY <1>2, <1>3, <2>1, <2>3, OthersRecord
  <2> QED BY <2>2, <2>4 DEF SerialInv
<1> QED BY <1>2, <1>7, <1>8

(* Between the first and the second look for a request to yield. *)
LEMMA SucceededKeeps ==
  ASSUME SerialInv, SerialTypeOK', NEW w \in Workers, ProcessSucceeded(w)
  PROVE  SerialInv'
<1> USE DEF SerialTypeOK, SessionTypeOK, GroupTypeOK
<1>1. /\ UNCHANGED <<groupVars, stale, captured, ctxDone, start, stopping, effects>>
      /\ UNCHANGED <<committed, member, assigned, position, handleErr>>
      /\ pc[w] = "returned" /\ pc'[w] = "releasing" /\ ~handleErr[w]
      /\ \A v \in Workers \ {w} : pc'[v] = pc[v]
  BY DEF SerialInv, ProcessSucceeded, Goto, groupVars
<1>2. SharedInv /\ RecordWork(w)
  BY DEF SerialInv
<1>3. RecordWork(w)'
  BY <1>1, <1>2 DEF RecordWork, Bound, Window, Batch
<1>4. \A v \in Workers : RecordWork(v)'
  BY <1>1, <1>3, OthersRecord
<1>5. Window(w) /\ Window(w)' /\ Bound(w)' /\ ~Uncommitted(w)'
  BY <1>1 DEF Window, Bound, Uncommitted
<1>6. SharedInv'
  BY <1>1, <1>2, <1>5, InWindowKeeps
<1> QED BY <1>4, <1>6 DEF SerialInv

(* The turn ends: a record that is handled and committed is followed by a  *)
(* poll.                                                                   *)
LEMMA SerialLeaveKeeps ==
  ASSUME SerialInv, SerialTypeOK', NEW w \in Workers,
         YieldAfterProcess(w) \/ ProcessFailed(w) \/ ReleaseRecord(w)
  PROVE  SerialInv'
<1> USE DEF SerialTypeOK, SessionTypeOK, GroupTypeOK
<1>1. SharedInv /\ RecordWork(w)
  BY DEF SerialInv
<1>2. PICK from \in {"returned", "releasing"}, to \in {"idle", "exiting", "yielded"} :
        /\ LeaveTurn(w, from, to)
        /\ to = "idle" => from = "releasing"
  BY DEF YieldAfterProcess, ProcessFailed, ReleaseRecord
<1>3. Goto(w, from, to) /\ EndTurn(w) /\ UNCHANGED <<groupVars, stopping, effects>>
  BY <1>2 DEF LeaveTurn
<1>4. /\ UNCHANGED <<committed, member, assigned, position>>
      /\ pc[w] = from /\ pc'[w] = to
      /\ \A v \in Workers \ {w} : pc'[v] = pc[v] /\ start'[v] = start[v]
  BY <1>3 DEF SerialInv, Goto, EndTurn, groupVars
<1>5. ~handleErr'[w] /\ \A v \in Workers \ {w} : handleErr'[v] = handleErr[v]
  <2>1. ReleaseRecord(w) => ~handleErr[w]
    BY <1>1 DEF ReleaseRecord, LeaveTurn, Goto, RecordWork
  <2> QED BY <2>1 DEF SerialInv, YieldAfterProcess, ProcessFailed, ReleaseRecord, ForgetError
<1>6. Window(w) /\ ~Window(w)'
  BY <1>2, <1>4 DEF Window
<1>7. ASSUME to = "idle"
      PROVE  /\ \A p \in Partitions : Done(p, position[w][p])
             /\ member[w] = "joined" => \A p \in assigned[w] : position[w][p] = committed[p]
  <2>1. Batch(w) \subseteq effects
    BY <1>1, <1>2, <1>4, <1>7 DEF RecordWork
  <2> QED BY <1>1, <1>2, <1>4, <1>6, <1>7, <2>1, BatchDone DEF RecordWork
<1>8. SharedInv'
  BY <1>1, <1>2, <1>3, <1>6, <1>7, TurnEndKeeps
<1>9. \A v \in Workers : RecordWork(v)'
  BY <1>3, <1>4, <1>5, <1>6, NoRecord, OthersRecord
<1> QED BY <1>8, <1>9 DEF SerialInv

(* A crash takes the record with it. *)
LEMMA CrashRecord ==
  ASSUME SerialInv, SerialTypeOK', NEW w \in Workers, Crash(w), ForgetError(w)
  PROVE  SerialInv'
<1> USE DEF SerialTypeOK, SessionTypeOK, GroupTypeOK
<1>1. SharedInv'
  BY SessionEndKeeps DEF SerialInv
<1>2. /\ committed' = committed /\ effects' = effects
      /\ \A v \in Workers \ {w} :
           /\ pc'[v] = pc[v] /\ member'[v] = member[v] /\ assigned'[v] = assigned[v]
           /\ position'[v] = position[v] /\ start'[v] = start[v]
           /\ handleErr'[v] = handleErr[v]
      /\ pc'[w] = "crashed" /\ ~handleErr'[w]
  BY DEF SerialInv, Crash, ForgetAssignment, EndTurn, ForgetError
<1>3. RecordWork(w)'
  BY <1>2, NoRecord DEF Window
<1>4. \A v \in Workers \ {w} : RecordWork(v)'
  BY <1>2, RecordFrame DEF SerialInv
<1> QED BY <1>1, <1>3, <1>4 DEF SerialInv

-----------------------------------------------------------------------------
(* The theorems of the serial runner. *)

(* Every step keeps the invariant. *)
LEMMA SerialStepInv == SerialInv /\ [SerialNext]_serialVars => SerialInv'
<1> SUFFICES ASSUME SerialInv, [SerialNext]_serialVars PROVE SerialInv'
  OBVIOUS
<1>1. SerialTypeOK' /\ SessionTypeOK' /\ SharedInv
  BY SerialStepType DEF SerialInv, SerialTypeOK
<1>2. CASE UNCHANGED serialVars
  <2>1. \A v \in Workers : RecordWork(v)'
    BY <1>2, RecordFrame DEF SerialInv, serialVars, groupVars, sessionVars
  <2> QED BY <1>1, <1>2, <2>1, StutterKeeps DEF SerialInv, serialVars
<1>3. CASE Rebalance /\ UNCHANGED handleErr
  BY <1>1, <1>3, RebalanceKeeps, RebalanceRecord DEF SerialInv
<1>4. ASSUME NEW w \in Workers, UNCHANGED handleErr,
             SessionStep(w) \/ Callback(w) \/ Surroundings(w) \/ PollReturns(w, 1)
      PROVE  SerialInv'
  BY <1>1, <1>4, SessionKeeps, SessionRecord DEF SerialInv
<1>5. ASSUME NEW w \in Workers, SerialLoopStep(w) PROVE SerialInv'
  BY <1>1, <1>4, <1>5, RecordCommitKeeps, SucceededKeeps, SerialLeaveKeeps
  DEF SerialLoopStep
<1>6. ASSUME NEW w \in Workers, PollRecord(w) \/ SerialCallback(w) PROVE SerialInv'
  BY <1>4, <1>6 DEF PollRecord, SerialCallback
<1>7. ASSUME NEW w \in Workers, HandleReturns(w) PROVE SerialInv'
  BY <1>1, <1>7, HandleKeeps
<1>8. ASSUME NEW w \in Workers, Crash(w), ForgetError(w) PROVE SerialInv'
  BY <1>1, <1>8, CrashRecord
<1> QED BY <1>2, <1>3, <1>4, <1>5, <1>6, <1>7, <1>8 DEF SerialNext

(* The inductive invariant holds in every state. *)
THEOREM SerialInvariant == SerialSpec => []SerialInv
<1>1. ASSUME SerialInit PROVE SerialInv
  <2>1. SerialTypeOK /\ SharedInv
    BY <1>1, SessionInitType, SharedInit DEF SerialInit, SerialTypeOK
  <2>2. \A w \in Workers : RecordWork(w)
    BY <1>1 DEF SerialInit, SessionInit, RecordWork, Window
  <2> QED BY <2>1, <2>2 DEF SerialInv
<1>2. SerialInv /\ [SerialNext]_serialVars => SerialInv'
  BY SerialStepInv
<1> QED BY <1>1, <1>2, PTL DEF SerialSpec

(* A serial worker never skips a record it polled and did not commit. *)
THEOREM SerialNeverSkips == SerialSpec => []SessionNeverSkips
<1>1. SerialInv => SessionNeverSkips
  BY SharedNeverSkips DEF SerialInv
<1> QED BY <1>1, SerialInvariant, PTL

(* Two serial workers in good standing never handle the same record at the *)
(* same time.                                                              *)
THEOREM SerialNoDuplicate == SerialSpec => []BatchesDisjoint
<1>1. SerialInv => BatchesDisjoint
  BY SharedDisjoint DEF SerialInv
<1> QED BY <1>1, SerialInvariant, PTL

(* The handler delivers the one record of the batch or nothing.            *)
LEMMA HandleImplements ==
  ASSUME SerialInv, NEW w \in Workers, HandleReturns(w)
  PROVE  (\E r \in Promise!Records : Promise!Deliver(r)) \/ UNCHANGED <<effects, committed>>
<1>1. committed' = committed /\ pc[w] = "processing"
  BY DEF HandleReturns, RecordHandled, HandleFails, Goto, groupVars
<1>2. effects' = effects \/ effects' = effects \cup Batch(w)
  BY DEF HandleReturns, RecordHandled, HandleFails
<1>3. CASE effects' = effects
  BY <1>1, <1>3
<1>4. CASE effects' # effects
  <2>1. PICK r \in Batch(w) : TRUE
    BY <1>2, <1>4
  <2>2. Window(w) /\ RecordWork(w) /\ Delivered(w)
    BY <1>1 DEF SerialInv, SharedInv, Holds, Window
  <2>3. Batch(w) = {r}
    BY <2>1, <2>2 DEF RecordWork
  <2>4. effects' = effects \cup {r} /\ r \in Records
    BY <1>2, <1>4, <2>1, <2>3 DEF Batch, Span
  <2>5. ASSUME NEW e \in Promise!EarlierInLane(r) PROVE e \in effects
    <3>1. e \in Records /\ e[1] = r[1] /\ e[2] < r[2]
      BY <2>5 DEF Promise!EarlierInLane, Promise!Records, Records
    <3>2. PICK p \in Partitions : \E i \in 1 .. Len(Log[p]) : e = <<p, i>>
      BY <3>1 DEF Records
    <3>3. PICK i \in 1 .. Len(Log[p]) : e = <<p, i>>
      BY <3>2
    <3>4. r[2] \in Nat /\ r[2] < position[w][p] /\ i < r[2]
      BY <2>1, <2>4, <3>1, <3>3, GroupAssumption DEF Batch, Span, Records
    <3>5. start[w][p] \in Nat /\ position[w][p] \in Nat
      BY DEF SerialInv, SharedInv, SessionTypeOK, GroupTypeOK
    <3>6. CASE i < start[w][p]
      BY <2>2, <3>3, <3>6 DEF Delivered, Done
    <3>7. CASE start[w][p] <= i
      <4>1. e \in Batch(w)
        BY <3>1, <3>3, <3>4, <3>5, <3>7 DEF Batch, Span
      <4> QED BY <2>3, <3>1, <3>3, <3>4, <4>1
    <3> QED BY <3>5, <3>6, <3>7
  <2> QED BY <1>1, <2>4, <2>5 DEF Promise!Deliver, Promise!Records, Records
<1> QED BY <1>3, <1>4

(* Every step of the workers is a step of the promise or none. *)
LEMMA SerialStepImplements ==
  ASSUME SerialInv, SerialInv', [SerialNext]_serialVars
  PROVE  [Promise!Next]_<<effects, committed>>
<1> DEFINE Silent == UNCHANGED <<effects, committed>>
<1>1. UNCHANGED serialVars => Silent
  BY DEF serialVars, groupVars
<1>2. ASSUME NEW w \in Workers,
             \/ SessionStep(w) \/ Callback(w) \/ Surroundings(w) \/ Crash(w)
             \/ PollReturns(w, 1)
      PROVE  Silent
  BY <1>2, SessionSilent
<1>3. Rebalance => Silent
  BY DEF Rebalance, StartRebalance, CompleteRebalance
<1>4. ASSUME NEW w \in Workers,
             \/ YieldAfterProcess(w) \/ ProcessFailed(w) \/ ProcessSucceeded(w)
             \/ ReleaseRecord(w)
      PROVE  Silent
  BY <1>4 DEF YieldAfterProcess, ProcessFailed, ProcessSucceeded, ReleaseRecord, LeaveTurn,
              groupVars
<1>5. ASSUME NEW w \in Workers, RecordCommitted(w) \/ CommitRecordFails(w)
      PROVE  Promise!Advance \/ Silent
  <2>1. pc[w] = "committing" /\ effects' = effects
    BY <1>5 DEF RecordCommitted, CommitRecordFails, Goto
  <2>2. CASE CommitRecord(w)
    BY <2>1, <2>2, RecordCommit, CommitImplements DEF SerialInv, SerialTypeOK
  <2> QED BY <1>5, <2>1, <2>2 DEF RecordCommitted, CommitRecordFails, groupVars
<1>6. ASSUME NEW w \in Workers, HandleReturns(w)
      PROVE  (\E r \in Promise!Records : Promise!Deliver(r)) \/ Silent
  BY <1>6, HandleImplements
<1> QED BY <1>1, <1>2, <1>3, <1>4, <1>5, <1>6
    DEF SerialNext, SerialLoopStep, PollRecord, SerialCallback, Promise!Next

(* The serial workers together are an at-least-once consumer of the topic. *)
THEOREM SerialImplementation == SerialSpec => Implements
<1>1. SerialInit => Promise!Init
  BY DEF SerialInit, SessionInit, GroupInit, Promise!Init
<1>2. SerialInv /\ SerialInv' /\ [SerialNext]_serialVars => [Promise!Next]_(Promise!vars)
  BY SerialStepImplements DEF Promise!vars
<1> QED BY <1>1, <1>2, SerialInvariant, PTL DEF SerialSpec, Implements, Promise!Spec

-----------------------------------------------------------------------------
(*                     The fetch runner: FetchConsumer                     *)

(* The fetch runner: the record in hand is the next of its partition.      *)
FetchWork(w) ==
  /\ ~captured[w] /\ ~ctxDone[w]
  /\ pc[w] \in {"processing", "committing"} =>
       /\ current[w] \in Partitions
       /\ start[w][current[w]] < position[w][current[w]]
  /\ pc[w] = "committing" => <<current[w], start[w][current[w]]>> \in effects
  /\ pc[w] \notin {"returned", "releasing"}

FetchTypeOK == SessionTypeOK /\ current \in [Workers -> Partitions \cup {NoPartition}]

FetchInv == FetchTypeOK /\ SharedInv /\ \A w \in Workers : FetchWork(w)

(* A commit of the record in hand, in the form of CommitAdvances.          *)
LEMMA CommitCurrentForm ==
  ASSUME FetchTypeOK, NEW w \in Workers, CommitCurrent(w), current[w] \in Partitions
  PROVE  \E n \in [Partitions -> Nat \ {0}], S \in SUBSET Partitions :
           /\ S = {current[w]}
           /\ \A p \in Partitions : n[p] = start[w][p] + 1
           /\ Commit(w, [p \in S |-> n[p]])
<1> DEFINE n == [p \in Partitions |-> start[w][p] + 1]
           S == {current[w]}
<1>1. \A p \in Partitions : start[w][p] \in Nat
  BY DEF FetchTypeOK, SessionTypeOK
<1>2. n \in [Partitions -> Nat \ {0}] /\ S \in SUBSET Partitions
  BY <1>1
<1>3. [p \in S |-> n[p]] = [p \in {current[w]} |-> start[w][p] + 1]
  BY <1>2
<1>4. Commit(w, [p \in S |-> n[p]])
  BY <1>3 DEF CommitCurrent
<1> QED BY <1>2, <1>4

(* The steps of the runner keep the types; FetchWork says that a commit    *)
(* has a record in hand.                                                   *)
LEMMA FetchStepType ==
  ASSUME FetchTypeOK, \A w \in Workers : FetchWork(w), [FetchNext]_fetchVars
  PROVE  FetchTypeOK'
<1>1. SessionTypeOK /\ GroupTypeOK /\ effects \subseteq Records
  BY DEF FetchTypeOK, SessionTypeOK
<1>2. ASSUME SessionTypeOK', UNCHANGED current PROVE FetchTypeOK'
  BY <1>2 DEF FetchTypeOK
<1>3. ASSUME NEW w \in Workers, SessionTypeOK', DropRecord(w) PROVE FetchTypeOK'
  BY <1>3 DEF FetchTypeOK, DropRecord
<1>4. CASE UNCHANGED fetchVars
  BY <1>1, <1>2, <1>4, SessionStutterType DEF fetchVars
<1>5. CASE Rebalance /\ UNCHANGED current
  BY <1>1, <1>2, <1>5, RebalanceType
<1>6. ASSUME NEW w \in Workers, UNCHANGED current,
             SessionStep(w) \/ Surroundings(w) \/ PollReturns(w, Cardinality(Records))
      PROVE  FetchTypeOK'
  BY <1>1, <1>2, <1>6, SessionType
<1>7. ASSUME NEW w \in Workers, TakeRecord(w) PROVE FetchTypeOK'
  <2>1. GroupTypeOK' /\ effects' \subseteq Records
    BY <1>1, <1>7, GroupType DEF TakeRecord
  <2>2. SessionTypeOK'
    BY <1>1, <1>7, <2>1, InTurnType DEF TakeRecord
  <2>3. current' \in [Workers -> Partitions \cup {NoPartition}]
    BY <1>7 DEF FetchTypeOK, TakeRecord, Batch, Span, Records
  <2> QED BY <2>2, <2>3 DEF FetchTypeOK
<1>8. ASSUME NEW w \in Workers, CurrentReturns(w) PROVE FetchTypeOK'
  <2>1. GroupTypeOK' /\ effects' \subseteq Records
    BY <1>1, <1>8, GroupType DEF CurrentReturns, CurrentHandled, CurrentFails, InHand, Batch, Span
  <2>2. CASE CurrentHandled(w)
    <3>1. SessionTypeOK'
      BY <1>1, <2>1, <2>2, InTurnType DEF CurrentHandled
    <3> QED BY <1>2, <2>2, <3>1 DEF CurrentHandled
  <2>3. CASE CurrentFails(w)
    <3>1. SessionTypeOK'
      BY <1>1, <2>1, <2>3, TurnEndType DEF CurrentFails
    <3> QED BY <1>3, <2>3, <3>1 DEF CurrentFails
  <2> QED BY <1>8, <2>2, <2>3 DEF CurrentReturns
<1>9. ASSUME NEW w \in Workers, pc[w] = "committing", CommitCurrent(w) PROVE GroupTypeOK'
  <2>1. current[w] \in Partitions
    BY <1>9 DEF FetchWork
  <2> QED BY <1>1, <1>9, <2>1, CommitCurrentForm, GroupType
<1>10. ASSUME NEW w \in Workers, CurrentCommitted(w) PROVE FetchTypeOK'
  <2>1. GroupTypeOK'
    BY <1>9, <1>10 DEF CurrentCommitted, Goto
  <2>2. start' \in [Workers -> [Partitions -> Nat \ {0}]]
    <3>1. start \in [Workers -> [Partitions -> Nat \ {0}]] /\ current[w] \in Partitions
      BY <1>1, <1>10 DEF SessionTypeOK, FetchWork, CurrentCommitted, Goto
    <3>2. start[w][current[w]] + 1 \in Nat \ {0}
      BY <3>1
    <3>3. start' = [start EXCEPT ![w] = [start[w] EXCEPT ![current[w]] = start[w][current[w]] + 1]]
      BY <1>10, <3>1 DEF CurrentCommitted
    <3> QED BY <3>1, <3>2, <3>3
  <2>3. SessionTypeOK'
    BY <1>1, <1>10, <2>1, <2>2 DEF CurrentCommitted, SessionTypeOK, Goto, NoFault
  <2> QED BY <1>2, <1>10, <2>3 DEF CurrentCommitted
<1>11. ASSUME NEW w \in Workers, CommitCurrentFails(w) PROVE FetchTypeOK'
  <2>1. GroupTypeOK' /\ effects' \subseteq Records
    BY <1>1, <1>9, <1>11, GroupType DEF CommitCurrentFails, Goto
  <2>2. SessionTypeOK'
    BY <1>1, <1>11, <2>1, TurnEndType DEF CommitCurrentFails
  <2> QED BY <1>3, <1>11, <2>2 DEF CommitCurrentFails
<1>12. ASSUME NEW w \in Workers, ReleaseFetches(w) PROVE FetchTypeOK'
  <2>1. SessionTypeOK'
    BY <1>1, <1>12, LeaveTurnType DEF ReleaseFetches
  <2> QED BY <1>3, <1>12, <2>1 DEF ReleaseFetches
<1>13. ASSUME NEW w \in Workers, Crash(w), DropRecord(w) PROVE FetchTypeOK'
  BY <1>1, <1>3, <1>13, SessionType
<1> QED BY <1>4, <1>5, <1>6, <1>7, <1>8, <1>10, <1>11, <1>12, <1>13
    DEF FetchNext, FetchLoopStep, PollFetches, SessionStep

-----------------------------------------------------------------------------
(* What is known of the record in hand is kept. *)

(* A worker whose record in hand a step leaves alone. *)
LEMMA FetchFrame ==
  ASSUME NEW v \in Workers, FetchWork(v),
         pc'[v] = pc[v], position'[v] = position[v], start'[v] = start[v],
         captured'[v] = captured[v], ctxDone'[v] = ctxDone[v],
         current'[v] = current[v], effects \subseteq effects'
  PROVE  FetchWork(v)'
  BY DEF FetchWork

(* Without a record in hand there is nothing to know. *)
LEMMA NothingInHand ==
  ASSUME NEW v \in Workers, ~captured'[v], ~ctxDone'[v],
         pc'[v] \notin {"processing", "committing", "returned", "releasing"}
  PROVE  FetchWork(v)'
  BY DEF FetchWork

(* A step of the work of w leaves the records of others alone. *)
LEMMA OthersFetch ==
  ASSUME FetchInv, NEW w \in Workers, UNCHANGED position,
         \A v \in Workers \ {w} :
           /\ pc'[v] = pc[v] /\ start'[v] = start[v] /\ current'[v] = current[v]
           /\ captured'[v] = captured[v] /\ ctxDone'[v] = ctxDone[v],
         effects \subseteq effects',
         FetchWork(w)'
  PROVE  \A v \in Workers : FetchWork(v)'
<1>1. \A v \in Workers \ {w} : FetchWork(v)'
  BY FetchFrame DEF FetchInv
<1> QED BY <1>1

(* The steps of ConsumerSession this runner has. *)
LEMMA SessionFetch ==
  ASSUME FetchInv, SessionTypeOK', NEW w \in Workers, UNCHANGED current,
         \/ ReadGeneration(w) \/ StopBetweenBatches(w) \/ CloseSession(w) \/ NewSession(w)
         \/ Surroundings(w) \/ PollReturns(w, Cardinality(Records))
  PROVE  \A v \in Workers : FetchWork(v)'
<1> USE DEF SessionTypeOK, GroupTypeOK
<1>1. SessionTypeOK /\ \A v \in Workers : FetchWork(v)
  BY DEF FetchInv, SharedInv
<1>2. effects' = effects
  BY SessionSilent DEF SessionStep
<1>3. ASSUME NEW v \in Workers \ {w} PROVE FetchWork(v)'
  <2>1. /\ pc'[v] = pc[v] /\ position'[v] = position[v] /\ start'[v] = start[v]
        /\ captured'[v] = captured[v] /\ ctxDone'[v] = ctxDone[v]
    BY <1>1, SessionOthers DEF SessionStep
  <2> QED BY <1>1, <1>2, <2>1, FetchFrame
<1>4. ~captured[w] /\ ~ctxDone[w]
  BY <1>1 DEF FetchWork
<1>5. CASE ReadGeneration(w) \/ StopBetweenBatches(w) \/ CloseSession(w) \/ NewSession(w)
  <2>1. /\ ~captured'[w] /\ ~ctxDone'[w]
        /\ pc'[w] \in {"idle", "polling", "exiting", "closed", "exited"}
    BY <1>1, <1>4, <1>5 DEF ReadGeneration, StopBetweenBatches, CloseSession, NewSession,
       LeaveTurn, EndTurn, Goto
  <2> QED BY <1>3, <2>1, NothingInHand
<1>6. CASE PollReturnsNothing(w) \/ PollFails(w) \/ Expire(w)
           \/ PollReturns(w, Cardinality(Records))
  <2>1. /\ ~captured'[w] /\ ~ctxDone'[w]
        /\ pc'[w] \in {"idle", "polled", "exiting", "exited"}
    BY <1>1, <1>4, <1>6 DEF PollReturnsNothing, PollFails, Expire, PollReturns,
       LeaveTurn, EndTurn, Goto
  <2> QED BY <1>3, <2>1, NothingInHand
<1>7. CASE Shutdown(w) \/ EvictMember(w)
  <2>1. UNCHANGED <<pc, start, position, captured, ctxDone>>
    BY <1>7 DEF Shutdown, EvictMember, Evict, groupVars, sessionVars
  <2> QED BY <1>1, <1>2, <1>3, <2>1, FetchFrame
<1>8. CASE RejoinMember(w)
  <2>1. UNCHANGED <<pc, captured, ctxDone>> /\ ~Window(w)
    BY <1>8 DEF RejoinMember, sessionVars
  <2> QED BY <1>3, <1>4, <2>1, NothingInHand DEF Window
<1> QED BY <1>5, <1>6, <1>7, <1>8 DEF Surroundings

(* A rebalance passes by the poll windows of the joined members. *)
LEMMA RebalanceFetch ==
  ASSUME FetchInv, SessionTypeOK', UNCHANGED current, Rebalance, NEW v \in Workers
  PROVE  FetchWork(v)'
<1> USE DEF SessionTypeOK, GroupTypeOK
<1>1. SessionTypeOK /\ FetchWork(v)
  BY DEF FetchInv, SharedInv
<1>2. UNCHANGED <<pc, start, captured, ctxDone, effects>>
  BY DEF Rebalance, StartRebalance, CompleteRebalance, sessionVars
<1>3. CASE Window(v)
  <2>1. position'[v] = position[v]
    BY <1>1, <1>3 DEF Rebalance, StartRebalance, CompleteRebalance, Joined, Open
  <2> QED BY <1>1, <1>2, <2>1, FetchFrame
<1>4. CASE ~Window(v)
  BY <1>1, <1>2, <1>4, NothingInHand DEF Window, FetchWork
<1> QED BY <1>3, <1>4

-----------------------------------------------------------------------------
(* processFetches. *)

(* A record is taken. *)
LEMMA TakeKeeps ==
  ASSUME FetchInv, FetchTypeOK', NEW w \in Workers, TakeRecord(w)
  PROVE  FetchInv'
<1> USE DEF FetchTypeOK, SessionTypeOK, GroupTypeOK
<1>1. /\ UNCHANGED <<groupVars, stale, captured, ctxDone, start, stopping, effects>>
      /\ UNCHANGED <<committed, member, assigned, position>>
      /\ pc[w] = "polled" /\ pc'[w] = "processing"
      /\ \A v \in Workers \ {w} : pc'[v] = pc[v] /\ current'[v] = current[v]
  BY DEF FetchInv, TakeRecord, Goto, groupVars
<1>2. SharedInv /\ Holds(w) /\ FetchWork(w)
  BY DEF FetchInv, SharedInv
<1>3. PICK r \in Batch(w) : r[2] = start[w][r[1]] /\ current'[w] = r[1]
  BY DEF TakeRecord, FetchInv
<1>4. r[1] \in Partitions /\ start[w][r[1]] < position[w][r[1]]
  BY <1>3 DEF Batch, Span, Records
<1>5. FetchWork(w)'
  BY <1>1, <1>2, <1>3, <1>4 DEF FetchWork
<1>6. \A v \in Workers : FetchWork(v)'
  BY <1>1, <1>5, OthersFetch
<1>7. SharedInv'
  <2>1. Window(w) /\ Window(w)' /\ Bound(w)'
    BY <1>1 DEF Window, Bound
  <2>2. member[w] = "joined" => \A p \in assigned[w] : start[w][p] = committed[p]
    BY <1>1, <1>2 DEF Holds, Owned, Uncommitted
  <2> QED BY <1>1, <1>2, <2>1, <2>2, InWindowKeeps
<1> QED BY <1>6, <1>7 DEF FetchInv

(* The record in hand is one record, of the batch. *)
LEMMA OneInHand ==
  ASSUME FetchInv, NEW w \in Workers, pc[w] = "processing"
  PROVE  /\ InHand(w) = {<<current[w], start[w][current[w]]>>}
         /\ <<current[w], start[w][current[w]]>> \in Records
<1> DEFINE c == current[w]
<1>1. c \in Partitions /\ start[w][c] < position[w][c]
  BY DEF FetchInv, FetchWork
<1>2. position[w][c] <= Len(Log[c]) + 1 /\ Len(Log[c]) \in Nat
  BY <1>1, GroupAssumption DEF FetchInv, SharedInv, Holds, Positioned, End
<1>3. start[w][c] \in Nat \ {0} /\ position[w][c] \in Nat
  BY <1>1 DEF FetchInv, FetchTypeOK, SessionTypeOK, GroupTypeOK
<1>4. start[w][c] \in 1 .. Len(Log[c])
  BY <1>1, <1>2, <1>3
<1>5. <<c, start[w][c]>> \in Records
  BY <1>1, <1>4 DEF Records
<1>6. <<c, start[w][c]>> \in InHand(w)
  BY <1>1, <1>3, <1>5 DEF InHand, Batch, Span
<1>7. ASSUME NEW r \in InHand(w) PROVE r = <<c, start[w][c]>>
  <2>1. r \in Records /\ r[1] = c /\ r[2] = start[w][c]
    BY DEF InHand, Batch, Span
  <2>2. PICK p \in Partitions : \E i \in 1 .. Len(Log[p]) : r = <<p, i>>
    BY <2>1 DEF Records
  <2>3. PICK i \in 1 .. Len(Log[p]) : r = <<p, i>>
    BY <2>2
  <2> QED BY <2>1, <2>3
<1> QED BY <1>5, <1>6, <1>7

(* The handler of the record in hand returns. *)
LEMMA CurrentKeeps ==
  ASSUME FetchInv, FetchTypeOK', NEW w \in Workers, CurrentReturns(w)
  PROVE  FetchInv'
<1> USE DEF FetchTypeOK, SessionTypeOK, GroupTypeOK
<1>1. SharedInv /\ Holds(w) /\ FetchWork(w)
  BY DEF FetchInv, SharedInv
<1>2. CASE CurrentHandled(w)
  <2>1. /\ UNCHANGED <<groupVars, stale, captured, ctxDone, start, stopping, current>>
        /\ UNCHANGED <<committed, member, assigned, position>>
        /\ pc[w] = "processing" /\ pc'[w] = "committing"
        /\ \A v \in Workers \ {w} : pc'[v] = pc[v]
        /\ effects' = effects \cup InHand(w)
    BY <1>2 DEF FetchInv, CurrentHandled, Goto, groupVars
  <2>2. <<current[w], start[w][current[w]]>> \in effects'
    BY <2>1, OneInHand
  <2>3. FetchWork(w)'
    BY <1>1, <2>1, <2>2 DEF FetchWork
  <2>4. \A v \in Workers : FetchWork(v)'
    BY <2>1, <2>3, OthersFetch
  <2>5. Window(w) /\ Window(w)' /\ Bound(w)'
    BY <2>1 DEF Window, Bound
  <2>6. member[w] = "joined" => \A p \in assigned[w] : start[w][p] = committed[p]
    BY <1>1, <2>1 DEF Holds, Owned, Uncommitted
  <2>7. SharedInv'
    BY <1>1, <2>1, <2>5, <2>6, InWindowKeeps
  <2> QED BY <2>4, <2>7 DEF FetchInv
<1>3. CASE CurrentFails(w)
  <2>1. /\ Goto(w, "processing", "exiting") /\ EndTurn(w)
        /\ UNCHANGED groupVars /\ effects \subseteq effects'
    BY <1>3 DEF CurrentFails
  <2>2. /\ pc[w] = "processing" /\ pc'[w] = "exiting" /\ ~captured'[w] /\ ~ctxDone'[w]
        /\ position' = position
        /\ \A v \in Workers \ {w} :
             /\ pc'[v] = pc[v] /\ start'[v] = start[v] /\ current'[v] = current[v]
             /\ captured'[v] = captured[v] /\ ctxDone'[v] = ctxDone[v]
    BY <1>3 DEF FetchInv, CurrentFails, Goto, EndTurn, DropRecord, groupVars
  <2>3. SharedInv'
    BY <1>1, <2>1, <2>2, TurnEndKeeps DEF Window
  <2>4. FetchWork(w)'
    BY <2>2, NothingInHand
  <2> QED BY <2>1, <2>2, <2>3, <2>4, OthersFetch DEF FetchInv
<1> QED BY <1>2, <1>3 DEF CurrentReturns

(* What CommitCurrent offers is as CommitAdvances wants it. *)
LEMMA CurrentCommit ==
  ASSUME FetchInv, NEW w \in Workers, pc[w] = "committing", CommitCurrent(w)
  PROVE  \E n \in [Partitions -> Nat], S \in SUBSET Partitions :
           /\ S = {current[w]}
           /\ \A p \in Partitions : n[p] = start[w][p] + 1
           /\ Commit(w, [p \in S |-> n[p]])
           /\ \A p \in S : /\ start[w][p] < position[w][p]
                           /\ start[w][p] <= n[p] /\ n[p] <= position[w][p]
                           /\ Done(p, n[p])
<1>1. SharedInv /\ FetchWork(w) /\ Window(w) /\ Delivered(w)
  BY DEF FetchInv, SharedInv, Holds, Window
<1>2. /\ current[w] \in Partitions
      /\ start[w][current[w]] < position[w][current[w]]
      /\ <<current[w], start[w][current[w]]>> \in effects
  BY <1>1 DEF FetchWork
<1>3. PICK n \in [Partitions -> Nat \ {0}], S \in SUBSET Partitions :
        /\ S = {current[w]}
        /\ \A p \in Partitions : n[p] = start[w][p] + 1
        /\ Commit(w, [p \in S |-> n[p]])
  BY <1>2, CommitCurrentForm DEF FetchInv
<1>4. \A p \in Partitions : start[w][p] \in Nat /\ position[w][p] \in Nat
  BY DEF FetchInv, FetchTypeOK, SessionTypeOK, GroupTypeOK
<1>5. ASSUME NEW p \in S
      PROVE  /\ start[w][p] < position[w][p]
             /\ start[w][p] <= n[p] /\ n[p] <= position[w][p]
             /\ Done(p, n[p])
  <2>1. p = current[w] /\ n[p] = start[w][p] + 1
    BY <1>3
  <2>2. start[w][p] < position[w][p] /\ start[w][p] <= n[p] /\ n[p] <= position[w][p]
    BY <1>2, <1>4, <2>1
  <2>3. Done(p, start[w][p])
    BY <1>1, <1>2, <2>1 DEF Delivered
  <2>4. ASSUME NEW i \in 1 .. Len(Log[p]), i < n[p] PROVE <<p, i>> \in effects
    <3>1. i < start[w][p] \/ i = start[w][p]
      BY <1>2, <1>4, <2>1, <2>4
    <3> QED BY <1>2, <2>1, <2>3, <3>1 DEF Done
  <2> QED BY <2>2, <2>4 DEF Done
<1>6. n \in [Partitions -> Nat]
  OBVIOUS
<1> QED BY <1>3, <1>5, <1>6

(* The record in hand is committed and the next one is taken. *)
LEMMA CurrentCommittedKeeps ==
  ASSUME FetchInv, FetchTypeOK', NEW w \in Workers, CurrentCommitted(w)
  PROVE  FetchInv'
<1> USE DEF FetchTypeOK, SessionTypeOK, GroupTypeOK
<1>1. SharedInv /\ Holds(w) /\ FetchWork(w)
  BY DEF FetchInv, SharedInv
<1>2. pc[w] = "committing" /\ pc'[w] = "polled" /\ CommitCurrent(w)
  BY DEF FetchInv, CurrentCommitted, Goto
<1>3. PICK n \in [Partitions -> Nat], S \in SUBSET Partitions :
        /\ S = {current[w]}
        /\ \A p \in Partitions : n[p] = start[w][p] + 1
        /\ Commit(w, [p \in S |-> n[p]])
        /\ \A p \in S : /\ start[w][p] < position[w][p]
                        /\ start[w][p] <= n[p] /\ n[p] <= position[w][p]
                        /\ Done(p, n[p])
  BY <1>2, CurrentCommit
<1>4. /\ UNCHANGED <<member, assigned, position, stale, captured, ctxDone, owner, effects>>
      /\ UNCHANGED current
      /\ \A v \in Workers \ {w} : pc'[v] = pc[v] /\ start'[v] = start[v]
      /\ member[w] = "joined"
  BY <1>3 DEF FetchInv, CurrentCommitted, Commit, Goto
<1>5. /\ start'[w][current[w]] = start[w][current[w]] + 1
      /\ \A p \in Partitions \ {current[w]} : start'[w][p] = start[w][p]
      /\ current[w] \in Partitions
  <2>1. current[w] \in Partitions
    BY <1>1, <1>2 DEF FetchWork
  <2> QED BY <2>1 DEF FetchInv, CurrentCommitted
<1>6. \A v \in Workers \ {w} : Same(v)
  BY <1>4 DEF Same
<1>7. /\ \A p \in Partitions : committed'[p] = IF p \in S THEN n[p] ELSE committed[p]
      /\ S \subseteq assigned[w]
  <2> HIDE DEF FetchTypeOK, SessionTypeOK, GroupTypeOK
  <2> QED BY <1>1, <1>2, <1>3, CommitAdvances
<1>8. \A p \in Partitions : start'[w][p] = IF p \in S THEN n[p] ELSE start[w][p]
  BY <1>3, <1>5
<1>9. Holds(w)'
  <2>1. Positioned(w)'
    <3>1. \A p \in Partitions : position[w][p] <= End(p) /\ start'[w][p] <= position[w][p]
      BY <1>1, <1>3, <1>8 DEF Holds, Positioned
    <3>2. \A p \in Partitions \ assigned[w] : start'[w][p] = position[w][p]
      BY <1>1, <1>2, <1>7, <1>8 DEF Holds, Positioned, Window
    <3> QED BY <1>4, <3>1, <3>2 DEF Positioned
  <2>2. Session(w)'
    BY <1>1, <1>2, <1>4 DEF Holds, Session, Window, Gone, FetchWork
  <2>3. Delivered(w)'
    <3>1. ASSUME NEW p \in Partitions PROVE Done(p, start'[w][p])
      <4>1. CASE p \in S
        BY <1>3, <1>8, <4>1
      <4>2. CASE p \notin S
        BY <1>1, <1>2, <1>8, <4>2 DEF Holds, Delivered, Window
      <4> QED BY <4>1, <4>2
    <3> QED BY <1>2, <1>4, <3>1 DEF Delivered, BetweenBatches, Done
  <2>4. Owned(w)'
    <3>1. ASSUME NEW p \in assigned[w] PROVE start'[w][p] = committed'[p]
      <4>1. p \in Partitions /\ start[w][p] = committed[p]
        BY <1>1, <1>2, <1>4 DEF FetchInv, Holds, Owned, Uncommitted
      <4> QED BY <1>7, <1>8, <4>1
    <3> QED BY <1>1, <1>2, <1>4, <3>1 DEF Holds, Owned, BetweenBatches, Uncommitted
  <2> QED BY <2>1, <2>2, <2>3, <2>4 DEF Holds
<1>10. SharedInv'
  BY <1>1, <1>2, <1>3, <1>4, <1>6, <1>9, CommitKeeps
<1>11. FetchWork(w)'
  BY <1>1, <1>2, <1>4, NothingInHand DEF FetchWork
<1>12. \A v \in Workers : FetchWork(v)'
  BY <1>4, <1>11, OthersFetch
<1> QED BY <1>10, <1>12 DEF FetchInv

(* A commit that fails ends the runner, applied or not. *)
LEMMA CommitCurrentFailsKeeps ==
  ASSUME FetchInv, FetchTypeOK', NEW w \in Workers, CommitCurrentFails(w)
  PROVE  FetchInv'
<1> USE DEF FetchTypeOK, SessionTypeOK, GroupTypeOK
<1>1. SharedInv /\ pc[w] = "committing" /\ Window(w)
  BY DEF FetchInv, CommitCurrentFails, Goto, Window
<1>2. /\ Goto(w, "committing", "exiting") /\ EndTurn(w)
      /\ CommitCurrent(w) \/ UNCHANGED groupVars
      /\ effects' = effects
  BY DEF CommitCurrentFails
<1>3. UNCHANGED <<member, assigned, position, owner>>
  BY <1>2 DEF CommitCurrent, Commit, groupVars
<1>4. /\ pc'[w] = "exiting" /\ ~captured'[w] /\ ~ctxDone'[w]
      /\ \A v \in Workers \ {w} :
           /\ pc'[v] = pc[v] /\ start'[v] = start[v] /\ current'[v] = current[v]
           /\ captured'[v] = captured[v] /\ ctxDone'[v] = ctxDone[v]
  BY DEF FetchInv, CommitCurrentFails, Goto, EndTurn, DropRecord
<1>5. \A v \in Workers : FetchWork(v)'
  BY <1>2, <1>3, <1>4, NothingInHand, OthersFetch
<1>6. Holds(w)' /\ \A v \in Workers \ {w} : Same(v)
  BY <1>1, <1>2, <1>3, TurnEndHolds
<1>7. CASE CommitCurrent(w)
  <2>1. PICK n \in [Partitions -> Nat], S \in SUBSET Partitions :
          /\ Commit(w, [p \in S |-> n[p]])
          /\ \A p \in S : /\ start[w][p] < position[w][p]
                          /\ start[w][p] <= n[p] /\ n[p] <= position[w][p]
                          /\ Done(p, n[p])
    BY <1>1, <1>7, CurrentCommit
  <2>2. SharedInv'
    BY <1>1, <1>2, <1>6, <2>1, CommitKeeps
  <2> QED BY <1>5, <2>2 DEF FetchInv
<1>8. CASE UNCHANGED groupVars
  <2>1. committed' = committed
    BY <1>8 DEF groupVars
  <2>2. SharedInv'
    BY <1>1, <1>2, <1>3, <1>6, <2>1, QuietStep
  <2> QED BY <1>5, <2>2 DEF FetchInv
<1> QED BY <1>2, <1>7, <1>8

(* Every record of the poll is committed. *)
LEMMA ReleaseKeeps ==
  ASSUME FetchInv, FetchTypeOK', NEW w \in Workers, ReleaseFetches(w)
  PROVE  FetchInv'
<1> USE DEF FetchTypeOK, SessionTypeOK, GroupTypeOK
<1>1. SharedInv /\ Holds(w)
  BY DEF FetchInv, SharedInv
<1>2. /\ Batch(w) = {} /\ Goto(w, "polled", "idle") /\ EndTurn(w)
      /\ UNCHANGED groupVars /\ effects' = effects
  BY DEF ReleaseFetches, LeaveTurn
<1>3. /\ pc[w] = "polled" /\ pc'[w] = "idle" /\ ~captured'[w] /\ ~ctxDone'[w]
      /\ position' = position
      /\ \A v \in Workers \ {w} :
           /\ pc'[v] = pc[v] /\ start'[v] = start[v] /\ current'[v] = current[v]
           /\ captured'[v] = captured[v] /\ ctxDone'[v] = ctxDone[v]
  BY <1>2 DEF FetchInv, ReleaseFetches, Goto, EndTurn, DropRecord, groupVars
<1>4. Window(w)
  BY <1>3 DEF Window
<1>5. \A p \in Partitions : Done(p, position[w][p])
  BY <1>1, <1>2, <1>4, BatchDone
<1>6. ASSUME NEW p \in Partitions PROVE start[w][p] = position[w][p]
  <2>1. /\ start[w][p] \in Nat \ {0} /\ position[w][p] \in Nat
        /\ start[w][p] <= position[w][p]
        /\ position[w][p] <= Len(Log[p]) + 1 /\ Len(Log[p]) \in Nat
    BY <1>1, GroupAssumption DEF SharedInv, Holds, Positioned, End
  <2>2. ASSUME start[w][p] < position[w][p] PROVE FALSE
    <3>1. start[w][p] \in 1 .. Len(Log[p])
      BY <2>1, <2>2
    <3>2. <<p, start[w][p]>> \in Batch(w)
      BY <2>1, <2>2, <3>1 DEF Batch, Span, Records
    <3> QED BY <1>2, <3>2
  <2> QED BY <2>1, <2>2
<1>7. member[w] = "joined" => \A p \in assigned[w] : position[w][p] = committed[p]
  BY <1>1, <1>3, <1>6 DEF FetchInv, Holds, Owned, Uncommitted
<1>8. SharedInv'
  BY <1>1, <1>2, <1>4, <1>5, <1>7, TurnEndKeeps
<1>9. \A v \in Workers : FetchWork(v)'
  BY <1>2, <1>3, NothingInHand, OthersFetch
<1> QED BY <1>8, <1>9 DEF FetchInv

(* A crash takes the record in hand with it. *)
LEMMA CrashFetch ==
  ASSUME FetchInv, FetchTypeOK', NEW w \in Workers, Crash(w), DropRecord(w)
  PROVE  FetchInv'
<1> USE DEF FetchTypeOK, SessionTypeOK, GroupTypeOK
<1>1. SharedInv'
  BY SessionEndKeeps DEF FetchInv
<1>2. /\ effects' = effects
      /\ \A v \in Workers \ {w} :
           /\ pc'[v] = pc[v] /\ position'[v] = position[v] /\ start'[v] = start[v]
           /\ captured'[v] = captured[v] /\ ctxDone'[v] = ctxDone[v]
           /\ current'[v] = current[v]
      /\ pc'[w] = "crashed" /\ ~captured'[w] /\ ~ctxDone'[w]
  BY DEF FetchInv, Crash, ForgetAssignment, EndTurn, DropRecord
<1>3. FetchWork(w)'
  BY <1>2, NothingInHand
<1>4. \A v \in Workers \ {w} : FetchWork(v)'
  BY <1>2, FetchFrame DEF FetchInv
<1> QED BY <1>1, <1>3, <1>4 DEF FetchInv

-----------------------------------------------------------------------------
(* The theorems of the fetch runner. *)

(* Every step keeps the invariant. *)
LEMMA FetchStepInv == FetchInv /\ [FetchNext]_fetchVars => FetchInv'
<1> SUFFICES ASSUME FetchInv, [FetchNext]_fetchVars PROVE FetchInv'
  OBVIOUS
<1>1. FetchTypeOK' /\ SessionTypeOK' /\ SharedInv
  BY FetchStepType DEF FetchInv, FetchTypeOK
<1>2. CASE UNCHANGED fetchVars
  <2>1. \A v \in Workers : FetchWork(v)'
    BY <1>2, FetchFrame DEF FetchInv, fetchVars, groupVars, sessionVars
  <2> QED BY <1>1, <1>2, <2>1, StutterKeeps DEF FetchInv, fetchVars
<1>3. CASE Rebalance /\ UNCHANGED current
  BY <1>1, <1>3, RebalanceKeeps, RebalanceFetch DEF FetchInv
<1>4. ASSUME NEW w \in Workers, UNCHANGED current,
             \/ ReadGeneration(w) \/ StopBetweenBatches(w)
             \/ CloseSession(w) \/ NewSession(w)
             \/ Surroundings(w) \/ PollReturns(w, Cardinality(Records))
      PROVE  FetchInv'
  <2>1. SharedInv'
    BY <1>1, <1>4, SessionKeeps DEF SessionStep
  <2> QED BY <1>1, <1>4, <2>1, SessionFetch DEF FetchInv
<1>5. ASSUME NEW w \in Workers, FetchLoopStep(w) PROVE FetchInv'
  BY <1>1, <1>4, <1>5, TakeKeeps, CurrentCommittedKeeps, CommitCurrentFailsKeeps, ReleaseKeeps
  DEF FetchLoopStep
<1>6. ASSUME NEW w \in Workers, PollFetches(w) PROVE FetchInv'
  BY <1>4, <1>6 DEF PollFetches
<1>7. ASSUME NEW w \in Workers, CurrentReturns(w) PROVE FetchInv'
  BY <1>1, <1>7, CurrentKeeps
<1>8. ASSUME NEW w \in Workers, Crash(w), DropRecord(w) PROVE FetchInv'
  BY <1>1, <1>8, CrashFetch
<1> QED BY <1>2, <1>3, <1>4, <1>5, <1>6, <1>7, <1>8 DEF FetchNext

(* The inductive invariant holds in every state. *)
THEOREM FetchInvariant == FetchSpec => []FetchInv
<1>1. ASSUME FetchInit PROVE FetchInv
  <2>1. FetchTypeOK /\ SharedInv
    BY <1>1, SessionInitType, SharedInit DEF FetchInit, FetchTypeOK
  <2>2. \A w \in Workers : FetchWork(w)
    BY <1>1 DEF FetchInit, SessionInit, FetchWork
  <2> QED BY <2>1, <2>2 DEF FetchInv
<1>2. FetchInv /\ [FetchNext]_fetchVars => FetchInv'
  BY FetchStepInv
<1> QED BY <1>1, <1>2, PTL DEF FetchSpec

(* A fetch worker never skips a record it polled and did not commit. *)
THEOREM FetchNeverSkips == FetchSpec => []SessionNeverSkips
<1>1. FetchInv => SessionNeverSkips
  BY SharedNeverSkips DEF FetchInv
<1> QED BY <1>1, FetchInvariant, PTL

(* Two fetch workers in good standing never handle the same records at the *)
(* same time.                                                              *)
THEOREM FetchNoDuplicate == FetchSpec => []BatchesDisjoint
<1>1. FetchInv => BatchesDisjoint
  BY SharedDisjoint DEF FetchInv
<1> QED BY <1>1, FetchInvariant, PTL

(* The handler delivers the record in hand or nothing. *)
LEMMA CurrentImplements ==
  ASSUME FetchInv, NEW w \in Workers, CurrentReturns(w)
  PROVE  (\E r \in Promise!Records : Promise!Deliver(r)) \/ UNCHANGED <<effects, committed>>
<1> DEFINE c == current[w]
           r == <<c, start[w][c]>>
<1>1. committed' = committed /\ pc[w] = "processing"
  BY DEF CurrentReturns, CurrentHandled, CurrentFails, Goto, groupVars
<1>2. InHand(w) = {r} /\ r \in Records
  BY <1>1, OneInHand
<1>3. effects' = effects \/ effects' = effects \cup {r}
  BY <1>2 DEF CurrentReturns, CurrentHandled, CurrentFails
<1>4. Done(c, start[w][c])
  BY <1>1 DEF FetchInv, FetchWork, SharedInv, Holds, Delivered, Window
<1>5. ASSUME NEW e \in Promise!EarlierInLane(r) PROVE e \in effects
  <2>1. e \in Records /\ e[1] = c /\ e[2] < start[w][c]
    BY <1>5 DEF Promise!EarlierInLane, Promise!Records, Records
  <2>2. PICK p \in Partitions : \E i \in 1 .. Len(Log[p]) : e = <<p, i>>
    BY <2>1 DEF Records
  <2>3. PICK i \in 1 .. Len(Log[p]) : e = <<p, i>>
    BY <2>2
  <2> QED BY <1>4, <2>1, <2>3 DEF Done
<1> HIDE DEF r
<1>6. Promise!Deliver(r) \/ UNCHANGED <<effects, committed>>
  BY <1>1, <1>3, <1>5 DEF Promise!Deliver
<1> QED BY <1>2, <1>6 DEF Promise!Records, Records

(* Every step of the workers is a step of the promise or none. *)
LEMMA FetchStepImplements ==
  ASSUME FetchInv, FetchInv', [FetchNext]_fetchVars
  PROVE  [Promise!Next]_<<effects, committed>>
<1> DEFINE Silent == UNCHANGED <<effects, committed>>
<1>1. UNCHANGED fetchVars => Silent
  BY DEF fetchVars, groupVars
<1>2. ASSUME NEW w \in Workers,
             \/ SessionStep(w) \/ Surroundings(w) \/ Crash(w)
             \/ PollReturns(w, Cardinality(Records))
      PROVE  Silent
  BY <1>2, SessionSilent
<1>3. Rebalance => Silent
  BY DEF Rebalance, StartRebalance, CompleteRebalance
<1>4. ASSUME NEW w \in Workers, TakeRecord(w) \/ ReleaseFetches(w) PROVE Silent
  BY <1>4 DEF TakeRecord, ReleaseFetches, LeaveTurn, groupVars
<1>5. ASSUME NEW w \in Workers, CurrentCommitted(w) \/ CommitCurrentFails(w)
      PROVE  Promise!Advance \/ Silent
  <2>1. pc[w] = "committing" /\ effects' = effects
    BY <1>5 DEF CurrentCommitted, CommitCurrentFails, Goto
  <2>2. CASE CommitCurrent(w)
    BY <2>1, <2>2, CurrentCommit, CommitImplements DEF FetchInv, FetchTypeOK
  <2> QED BY <1>5, <2>1, <2>2 DEF CurrentCommitted, CommitCurrentFails, groupVars
<1>6. ASSUME NEW w \in Workers, CurrentReturns(w)
      PROVE  (\E r \in Promise!Records : Promise!Deliver(r)) \/ Silent
  BY <1>6, CurrentImplements
<1> QED BY <1>1, <1>2, <1>3, <1>4, <1>5, <1>6
    DEF FetchNext, FetchLoopStep, PollFetches, SessionStep, Promise!Next

(* The fetch workers together are an at-least-once consumer of the topic.  *)
THEOREM FetchImplementation == FetchSpec => Implements
<1>1. FetchInit => Promise!Init
  BY DEF FetchInit, SessionInit, GroupInit, Promise!Init
<1>2. FetchInv /\ FetchInv' /\ [FetchNext]_fetchVars => [Promise!Next]_(Promise!vars)
  BY FetchStepImplements DEF Promise!vars
<1> QED BY <1>1, <1>2, FetchInvariant, PTL DEF FetchSpec, Implements, Promise!Spec
=============================================================================
