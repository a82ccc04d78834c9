--------------------------- MODULE ConsumerGroup ---------------------------
(***************************************************************************)
(* The consumer group of one topic as a franz-go client with               *)
(* DisableAutoCommit and BlockRebalanceOnPoll sees it.  The broker and the *)
(* client library are outside the repository; this module is what the      *)
(* runners under internal/adapter/kafka rely on:                           *)
(*                                                                         *)
(*   - a session fetches from the offset committed when it was assigned    *)
(*     the partition, and then from its own fetch position;                *)
(*   - a rebalance completes only when no member holds a poll window, or   *)
(*     without the members the broker has thrown out in the meantime;      *)
(*   - a member that was thrown out goes on until it notices, and its      *)
(*     commits are refused; commits of any other member are accepted.      *)
(*                                                                         *)
(* Log[p] is the partition as the sequence of the lanes (object keys) its  *)
(* records belong to; a committed offset is the position to resume from.   *)
(***************************************************************************)
EXTENDS Integers, Sequences, FiniteSets

CONSTANTS Workers, Partitions, Lanes, Log, NoOwner

ASSUME GroupAssumption ==
  /\ NoOwner \notin Workers
  /\ IsFiniteSet(Partitions)
  /\ Log \in [Partitions -> Seq(Lanes)]

Records == UNION {{<<p, i>> : i \in 1 .. Len(Log[p])} : p \in Partitions}

Lane(r) == <<r[1], Log[r[1]][r[2]]>>

(* r1 comes before r2 in the same lane of the same partition. *)
SameLaneBefore(r1, r2) == Lane(r1) = Lane(r2) /\ r1[2] < r2[2]

End(p) == Len(Log[p]) + 1

Cursors == [Partitions -> UNION {1 .. End(p) : p \in Partitions}]

(* The records from the positions "from" up to, and without, "upto". *)
Span(from, upto) ==
  {r \in Records : from[r[1]] <= r[2] /\ r[2] < upto[r[1]]}

VARIABLES
  committed,    \* broker: the position each partition resumes from
  owner,        \* broker: the member each partition is assigned to
  rebalancing,  \* broker: a rebalance waits for the members
  member,       \* broker: "joined", "evicted" or "out"
  assigned,     \* client: the partitions a session believes it owns
  position      \* client: the fetch position of a session, 1 where it has none

groupVars == <<committed, owner, rebalancing, member, assigned, position>>

Joined == {w \in Workers : member[w] = "joined"}

OwnedBy(w) == {p \in Partitions : owner[p] = w}

Disowned(w) == [p \in Partitions |-> IF owner[p] = w THEN NoOwner ELSE owner[p]]

GroupInit ==
  /\ committed = [p \in Partitions |-> 1]
  /\ owner = [p \in Partitions |-> NoOwner]
  /\ rebalancing = FALSE
  /\ member = [w \in Workers |-> "joined"]
  /\ assigned = [w \in Workers |-> {}]
  /\ position = [w \in Workers |-> [p \in Partitions |-> 1]]

(* The broker may start a rebalance at any time. *)
StartRebalance ==
  /\ ~rebalancing
  /\ rebalancing' = TRUE
  /\ UNCHANGED <<committed, owner, member, assigned, position>>

(* It ends when no joined member holds a poll window ("open").  A session  *)
(* keeps the fetch position of the partitions it keeps and starts at the   *)
(* committed offset of those it gains.                                     *)
CompleteRebalance(open) ==
  /\ rebalancing
  /\ Joined # {}
  /\ Joined \cap open = {}
  /\ rebalancing' = FALSE
  /\ owner' \in [Partitions -> Joined]
  /\ assigned' = [w \in Workers |->
                    IF w \in Joined THEN {p \in Partitions : owner'[p] = w}
                    ELSE assigned[w]]
  /\ position' = [w \in Workers |-> [p \in Partitions |->
                    IF w \in Joined /\ owner'[p] # w THEN 1
                    ELSE IF w \in Joined /\ p \notin assigned[w] THEN committed[p]
                    ELSE position[w][p]]]
  /\ UNCHANGED <<committed, member>>

(* The broker gives up on a member that does not answer. *)
Evict(w) ==
  /\ member[w] = "joined"
  /\ member' = [member EXCEPT ![w] = "evicted"]
  /\ owner' = Disowned(w)
  /\ UNCHANGED <<committed, rebalancing, assigned, position>>

ForgetAssignment(w) ==
  /\ assigned' = [assigned EXCEPT ![w] = {}]
  /\ position' = [position EXCEPT ![w] = [p \in Partitions |-> 1]]

(* The client notices, drops what it believed it owned and joins again. *)
Rejoin(w) ==
  /\ member[w] = "evicted"
  /\ member' = [member EXCEPT ![w] = "joined"]
  /\ ForgetAssignment(w)
  /\ UNCHANGED <<committed, owner, rebalancing>>

(* The session ends; its partitions are free.  A crashed session is out as *)
(* well, only its partitions stay with it until Expire.                    *)
Leave(w) ==
  /\ member' = [member EXCEPT ![w] = "out"]
  /\ ForgetAssignment(w)
  /\ owner' = Disowned(w)
  /\ UNCHANGED <<committed, rebalancing>>

(* A new session joins without any partition. *)
Join(w) ==
  /\ member' = [member EXCEPT ![w] = "joined"]
  /\ UNCHANGED <<committed, owner, rebalancing, assigned, position>>

(* The broker checks the member, not the partition, of a commit. *)
Commit(w, next) ==
  /\ member[w] = "joined"
  /\ committed' = [p \in Partitions |->
                     IF p \in DOMAIN next THEN next[p] ELSE committed[p]]
  /\ UNCHANGED <<owner, rebalancing, member, assigned, position>>

(* A poll of at most "max" records moves the fetch position of assigned    *)
(* partitions to "upto".  While a rebalance is waiting no poll returns.    *)
Poll(w, max, upto) ==
  /\ ~(rebalancing /\ member[w] = "joined")
  /\ \A p \in Partitions : IF p \in assigned[w]
                           THEN upto[p] \in position[w][p] .. End(p)
                           ELSE upto[p] = position[w][p]
  /\ Cardinality(Span(position[w], upto)) \in 1 .. max
  /\ position' = [position EXCEPT ![w] = upto]
  /\ UNCHANGED <<committed, owner, rebalancing, member, assigned>>

GroupTypeOK ==
  /\ committed \in [Partitions -> Nat \ {0}]
  /\ owner \in [Partitions -> Workers \cup {NoOwner}]
  /\ rebalancing \in BOOLEAN
  /\ member \in [Workers -> {"joined", "evicted", "out"}]
  /\ assigned \in [Workers -> SUBSET Partitions]
  /\ position \in [Workers -> [Partitions -> Nat \ {0}]]
=============================================================================
