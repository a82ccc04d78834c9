--------------------------- MODULE Classification ---------------------------
(***************************************************************************)
(* What a worker computes for one ClassificationCommand, and what a result *)
(* writer checks of the result (internal/application and                   *)
(* internal/adapter/postgres): the decoding of commands, the preparation   *)
(* of the light curve, the coarse mode, the run, the decoding of results   *)
(* and the constraints of the table of runs.  The probabilities are left   *)
(* to Inference.                                                           *)
(*                                                                         *)
(* An answer of the light curve service is what the checks tell apart:     *)
(*   [status, complete, object, revision, eligible, count, usable,         *)
(*    distinctTimes]                                                       *)
(* with the HTTP status, whether no required field is missing, the count   *)
(* it declares and the number of epochs it holds, whether every value is   *)
(* finite and every error positive, and whether no two epochs share their  *)
(* time.                                                                   *)
(***************************************************************************)
EXTENDS Candidates

MinimumEpochs == 3
MaximumEpochs == 1024
MaximumComputeCurrentEpochs == 20

Modes == {"PRODUCTION", "SHADOW", "REPROCESS"}

(* DecodeClassificationCommandMessage returns no permanent error. *)
IsCommand(c) ==
  /\ c.candidateRevision > 0
  /\ c.revision > 0
  /\ c.declaredEpochs >= MinimumEligibleEpochCount
  /\ c.mode \in Modes
  /\ c.priority = "REALTIME"
  /\ c.createdAt = "later"
  /\ c.key = c.object
  /\ c.job = JobOf(c.object, c.revision, c.bundle, c.mode)

-----------------------------------------------------------------------------
(* Preparation. *)

(* mapLightCurveHTTPStatus and its classes: every status but these is one  *)
(* of an upstream that may answer later.                                   *)
ReadAgain(answer) == answer.status \notin {200, 404, 422}

(* The answer holds what the contract requires. *)
DecodesCurve(answer) == answer.status = 200 /\ answer.complete

(* The repository and the reader take no other revision than the one that  *)
(* was asked for.                                                          *)
ReadsRevision(answer, object, revision) ==
  /\ DecodesCurve(answer)
  /\ answer.object = object /\ answer.revision = revision

(* PrepareLightCurveRevision accepts the curve: the three counts agree and *)
(* are in range, the values are usable, and no two epochs share a time.    *)
Prepares(curve, declared) ==
  /\ declared = curve.eligible
  /\ curve.eligible = curve.count
  /\ curve.count \in MinimumEpochs .. MaximumEpochs
  /\ curve.usable
  /\ curve.distinctTimes

-----------------------------------------------------------------------------
(* The coarse mode.  The rows of classification_runs are a sequence in the *)
(* order in which they were persisted.                                     *)

NoSource == << >>

(* The name-based UUID of a run. *)
RunOf(job) == << "classification-run-v1", job >>

(* Mutant: runs that reused their coarse probabilities count as well. *)
CompatibleAlsoReused(rows, object, revision, bundle) ==
  {i \in 1 .. Len(rows) :
     rows[i].object = object /\ rows[i].bundle = bundle /\ rows[i].revision < revision}

(* The rows whose coarse probabilities a run may reuse. *)
Compatible(rows, object, revision, bundle) ==
  {i \in 1 .. Len(rows) :
     /\ rows[i].object = object
     /\ rows[i].bundle = bundle
     /\ rows[i].xgboost
     /\ rows[i].revision < revision}

(* ORDER BY light_curve_revision DESC, persisted_at DESC LIMIT 1. *)
IsLatest(rows, found, i) ==
  \A j \in found \ {i} :
    \/ rows[j].revision < rows[i].revision
    \/ rows[j].revision = rows[i].revision /\ j < i

LatestCompatible(rows, object, revision, bundle) ==
  LET found == Compatible(rows, object, revision, bundle)
  IN  rows[CHOOSE i \in found : IsLatest(rows, found, i)]

Computed(mode) ==
  [coarse |-> mode, source |-> NoSource, sourceRevision |-> 0, sourceEpochs |-> 0]

Reused(row) ==
  [coarse |-> "REUSE_PREVIOUS", source |-> row.run,
   sourceRevision |-> row.revision, sourceEpochs |-> row.epochs]

(* Mutant: the boundary belongs to the other side. *)
SelectBelowMaximum(rows, c, epochs) ==
  IF epochs < MaximumComputeCurrentEpochs THEN Computed("COMPUTE_CURRENT")
  ELSE IF Compatible(rows, c.object, c.revision, c.bundle) = {}
  THEN Computed("COMPUTE_BOOTSTRAP")
  ELSE Reused(LatestCompatible(rows, c.object, c.revision, c.bundle))

(* CoarseModeSelector.Select. *)
Select(rows, c, epochs) ==
  IF epochs <= MaximumComputeCurrentEpochs THEN Computed("COMPUTE_CURRENT")
  ELSE IF Compatible(rows, c.object, c.revision, c.bundle) = {}
  THEN Computed("COMPUTE_BOOTSTRAP")
  ELSE Reused(LatestCompatible(rows, c.object, c.revision, c.bundle))

(* The selector takes no source that is not older and in range. *)
SelectionHolds(selection, c) ==
  selection.coarse = "REUSE_PREVIOUS" =>
    /\ selection.sourceRevision \in 1 .. c.revision - 1
    /\ selection.sourceEpochs \in MinimumEpochs .. MaximumEpochs

-----------------------------------------------------------------------------
(* The run and its result. *)

(* validatePreparedClassificationForRun. *)
PreparedForRun(curve) ==
  /\ curve.revision > 0
  /\ curve.count \in MinimumEpochs .. MaximumEpochs
  /\ curve.eligible = curve.count

(* mapClassificationCoarseSource returns no error. *)
SourceMaps(c, selection, epochs, xgboost) ==
  /\ IF selection.coarse = "COMPUTE_CURRENT"
     THEN epochs <= MaximumComputeCurrentEpochs
     ELSE epochs > MaximumComputeCurrentEpochs
  /\ xgboost <=> selection.coarse # "REUSE_PREVIOUS"
  /\ SelectionHolds(selection, c)

(* BuildClassificationRun returns no error for the worker of a bundle. *)
CanBuildRun(c, bundle, curve, selection, xgboost) ==
  /\ c.candidateRevision > 0
  /\ c.mode \in Modes
  /\ PreparedForRun(curve)
  /\ bundle = c.bundle
  /\ SourceMaps(c, selection, curve.count, xgboost)

SourceType ==
  [COMPUTE_CURRENT |-> "COMPUTED_CURRENT", REUSE_PREVIOUS |-> "REUSED_PREVIOUS",
   COMPUTE_BOOTSTRAP |-> "COMPUTED_BOOTSTRAP"]

(* Mutant: a computed run has no source revision. *)
RunWithoutOwnRevision(c, selection, epochs, xgboost) ==
  [run |-> RunOf(c.job), job |-> c.job, object |-> c.object,
   candidateRevision |-> c.candidateRevision, revision |-> c.revision,
   epochs |-> epochs, mode |-> c.mode, bundle |-> c.bundle, xgboost |-> xgboost,
   sourceType |-> SourceType[selection.coarse], source |-> selection.source,
   sourceRevision |-> selection.sourceRevision, sourceEpochs |-> selection.sourceEpochs]

(* BuildClassificationRun: a run that computes is its own source. *)
Run(c, selection, epochs, xgboost) ==
  LET reused == selection.coarse = "REUSE_PREVIOUS"
  IN  [run |-> RunOf(c.job), job |-> c.job, object |-> c.object,
       candidateRevision |-> c.candidateRevision, revision |-> c.revision,
       epochs |-> epochs, mode |-> c.mode, bundle |-> c.bundle, xgboost |-> xgboost,
       sourceType |-> SourceType[selection.coarse], source |-> selection.source,
       sourceRevision |-> IF reused THEN selection.sourceRevision ELSE c.revision,
       sourceEpochs |-> IF reused THEN selection.sourceEpochs ELSE epochs]

(* BuildClassificationResultMessage: the key, and the run field by field. *)
ResultFor(run) == [key |-> run.object, run |-> run]

(* validateDecodedCoarseSource. *)
SourceDecodes(r) ==
  \/ /\ r.sourceType = "COMPUTED_CURRENT"
     /\ r.epochs <= MaximumComputeCurrentEpochs
     /\ r.source = NoSource /\ r.xgboost
     /\ r.sourceRevision = r.revision /\ r.sourceEpochs = r.epochs
  \/ /\ r.sourceType = "COMPUTED_BOOTSTRAP"
     /\ r.epochs > MaximumComputeCurrentEpochs
     /\ r.source = NoSource /\ r.xgboost
     /\ r.sourceRevision = r.revision /\ r.sourceEpochs = r.epochs
  \/ /\ r.sourceType = "REUSED_PREVIOUS"
     /\ r.epochs > MaximumComputeCurrentEpochs
     /\ r.source # NoSource /\ ~r.xgboost
     /\ r.sourceRevision \in 1 .. r.revision - 1
     /\ r.sourceEpochs \in MinimumEpochs .. MaximumEpochs

(* validateDecodedClassificationRun. *)
RunHolds(r) ==
  /\ r.candidateRevision > 0 /\ r.revision > 0
  /\ r.epochs \in MinimumEpochs .. MaximumEpochs
  /\ r.mode \in Modes
  /\ SourceDecodes(r)

(* DecodeClassificationResultMessage returns no permanent error. *)
IsResult(m) ==
  LET r == m.run
  IN  /\ m.key = r.object
      /\ r.job = JobOf(r.object, r.revision, r.bundle, r.mode)
      /\ r.run = RunOf(r.job)
      /\ RunHolds(r)

(* The constraints of classification_runs but for its keys: an insert that *)
(* violates one is an error the writer retries for ever.                   *)
TableAccepts(rows, r) ==
  /\ r.candidateRevision > 0 /\ r.revision > 0 /\ r.sourceRevision > 0
  /\ r.epochs >= 3 /\ r.sourceEpochs >= 3
  /\ r.mode \in Modes
  /\ r.source # r.run
  /\ r.source = NoSource \/ \E i \in 1 .. Len(rows) : rows[i].run = r.source
  /\ IF r.sourceType = "REUSED_PREVIOUS"
     THEN ~r.xgboost /\ r.source # NoSource /\ r.sourceRevision < r.revision
     ELSE /\ r.sourceType \in {"COMPUTED_CURRENT", "COMPUTED_BOOTSTRAP"}
          /\ r.xgboost /\ r.source = NoSource
          /\ r.sourceRevision = r.revision /\ r.sourceEpochs = r.epochs
=============================================================================
