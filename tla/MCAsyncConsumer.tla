-------------------------- MODULE MCAsyncConsumer --------------------------
EXTENDS AsyncConsumer, TLC

CONSTANTS p1, a, b

(* Two objects in one partition: completions may come out of order.        *)
OnePartition == p1 :> << a, b >>
=============================================================================
