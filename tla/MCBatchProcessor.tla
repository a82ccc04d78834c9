-------------------------- MODULE MCBatchProcessor --------------------------
(* Batches of up to four records over two partitions: two objects that     *)
(* interleave in a partition with offset gaps, keyless records, one object *)
(* in two partitions, and two batches the tracker refuses.                 *)
EXTENDS BatchProcessor

CONSTANTS p1, p2, a, b

MCOffsets == {0, 5, 9}

R(p, o, k) == [partition |-> p, offset |-> o, key |-> k]

MCBatches ==
  { << R(p1, 0, a), R(p1, 5, b), R(p1, 9, a), R(p2, 5, b) >>,
    << R(p1, 0, NoKey), R(p1, 5, NoKey), R(p2, 0, NoKey), R(p2, 9, a) >>,
    << R(p1, 0, a), R(p1, 5, b), R(p2, 0, a) >>,
    << R(p1, 5, a), R(p1, 0, b) >>,
    << R(p1, 5, a), R(p1, 5, a) >> }
=============================================================================
