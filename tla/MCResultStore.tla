--------------------------- MODULE MCResultStore ---------------------------
EXTENDS ResultStore, TLC

CONSTANTS w1, w2, o1, r1, r2, r3, j1, j2, j3

Result(run, job, revision, production, valid) ==
  [run |-> run, job |-> job, object |-> o1, revision |-> revision,
   production |-> production, valid |-> valid]

(* Two revisions of one object, a second run for the job of the newer one, *)
(* a run that is not in production and shares that second run's identity,  *)
(* and a message that does not decode.                                     *)
ResultsOfOneObject ==
  {Result(r1, j1, 1, TRUE, TRUE), Result(r2, j2, 2, TRUE, TRUE),
   Result(r3, j2, 2, TRUE, TRUE), Result(r3, j3, 3, FALSE, TRUE),
   Result(r1, j1, 1, TRUE, FALSE)}

WriterSymmetry == Permutations({w1, w2})
=============================================================================
