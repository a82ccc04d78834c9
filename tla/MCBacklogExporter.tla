------------------------- MODULE MCBacklogExporter -------------------------
EXTENDS BacklogExporter

CONSTANTS p1, p2

TwoAndOne == [p \in {p1, p2} |-> IF p = p1 THEN 2 ELSE 1]
=============================================================================
