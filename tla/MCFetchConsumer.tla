-------------------------- MODULE MCFetchConsumer --------------------------
EXTENDS FetchConsumer, TLC

CONSTANTS p1, p2, a, b

(* Two records of one object and one of another in a partition of its own. *)
TwoPartitions == p1 :> << a, a >> @@ p2 :> << b >>
=============================================================================
