---------------------------- MODULE AtLeastOnce ----------------------------
(***************************************************************************)
(* What a consumer of the system promises for a topic, whatever runner and *)
(* however many processes do the work: effects become durable in the order *)
(* of each lane, and a position is committed only when everything below it *)
(* has had its effect.  An effect may be repeated, which this module does  *)
(* not see; it is never skipped, and no commit goes back.                  *)
(***************************************************************************)
EXTENDS Integers, Sequences

CONSTANTS Partitions, Log  \* Log[p] is a sequence of lanes

VARIABLES effects, committed

vars == <<effects, committed>>

Records == UNION {{<<p, i>> : i \in 1 .. Len(Log[p])} : p \in Partitions}

EarlierInLane(r) ==
  {e \in Records : /\ e[1] = r[1]
                   /\ e[2] < r[2]
                   /\ Log[e[1]][e[2]] = Log[r[1]][r[2]]}

Init == effects = {} /\ committed = [p \in Partitions |-> 1]

Deliver(r) ==
  /\ EarlierInLane(r) \subseteq effects
  /\ effects' = effects \cup {r}
  /\ UNCHANGED committed

(* One commit request may move several partitions. *)
Advance ==
  /\ committed' \in [Partitions -> Nat]
  /\ \A p \in Partitions :
       /\ committed[p] <= committed'[p]
       /\ \A i \in 1 .. Len(Log[p]) : i < committed'[p] => <<p, i>> \in effects
  /\ UNCHANGED effects

Next == Advance \/ \E r \in Records : Deliver(r)

Spec == Init /\ [][Next]_vars
=============================================================================
