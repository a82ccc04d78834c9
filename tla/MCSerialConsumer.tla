-------------------------- MODULE MCSerialConsumer --------------------------
EXTENDS SerialConsumer, TLC

CONSTANTS p1, a

(* Two records of one object: what is skipped or reordered shows.          *)
TwoRecords == p1 :> << a, a >>
=============================================================================
