----------------------------- MODULE Inference -----------------------------
(***************************************************************************)
(* The way of the numbers: from the epochs of a light curve into the       *)
(* request to Triton, from its response into the arrays of a run, and      *)
(* through the result message into the table and back                      *)
(* (internal/adapter/triton, internal/application,                         *)
(* internal/adapter/postgres).  Every list of names stands for a list of   *)
(* the source of its own; nothing but these lists holds the positions of   *)
(* the arrays and the meaning of the classes together.                     *)
(*                                                                         *)
(* A tensor is [name, type, shape, data].  A body is a sequence of values  *)
(* instead of bytes, and the size of a tensor the number of its values.    *)
(* A probability is one of the ordered values 0 .. One; NotAProbability    *)
(* stands for NaN, the infinities and what is out of range.                *)
(***************************************************************************)
EXTENDS Integers, Sequences, FiniteSets, SequencesExt

CONSTANT MaximumComputeCurrentEpochs  \* scaled down from 20

ASSUME InferenceAssumption == MaximumComputeCurrentEpochs \in Nat

One == 2
NotAProbability == 9

MinimumEpochs == 3

-----------------------------------------------------------------------------
(* The light curve. *)

(* An order of time, as sort.Slice finds one. *)
Order(epochs) ==
  CHOOSE order \in Bijection(DOMAIN epochs, DOMAIN epochs) :
    \A i \in 2 .. Len(epochs) : epochs[order[i - 1]].time <= epochs[order[i]].time

(* The copy that PrepareLightCurveRevision sorts. *)
Sorted(epochs) ==
  LET order == Order(epochs)
  IN  [i \in DOMAIN epochs |-> epochs[order[i]]]

(* PrepareLightCurveRevision accepts the epochs. *)
Prepares(epochs) ==
  LET sorted == Sorted(epochs)
  IN  /\ Len(epochs) >= MinimumEpochs
      /\ \A i \in DOMAIN epochs : epochs[i].error > 0
      /\ \A i \in 2 .. Len(epochs) : sorted[i - 1].time # sorted[i].time

-----------------------------------------------------------------------------
(* Tensors and messages of the binary protocol. *)

(* tensorElementCount of a shape whose dimensions are positive. *)
Elements(shape) == FoldLeft(LAMBDA n, dimension : n * dimension, 1, shape)

(* validateBinaryTensor. *)
TensorHolds(tensor) ==
  /\ tensor.name # ""
  /\ tensor.type \in {"FP64", "FP32", "INT32", "BOOL"}
  /\ tensor.shape # << >>
  /\ \A d \in DOMAIN tensor.shape : tensor.shape[d] > 0
  /\ Len(tensor.data) = Elements(tensor.shape)
  /\ tensor.type = "BOOL" => \A i \in DOMAIN tensor.data : tensor.data[i] \in {0, 1}

(* The header lists the tensors; their data follow it without a gap.       *)
Header(tensor) ==
  [name |-> tensor.name, type |-> tensor.type, shape |-> tensor.shape,
   size |-> Len(tensor.data)]

Encoded(tensors) ==
  [header |-> [i \in DOMAIN tensors |-> Header(tensors[i])],
   body   |-> FlattenSeq([i \in DOMAIN tensors |-> tensors[i].data])]

(* Where the data of the i-th tensor ends in the body. *)
End(header, i) ==
  LET end[k \in 0 .. Len(header)] ==
        IF k = 0 THEN 0 ELSE end[k - 1] + header[k].size
  IN  end[i]

(* Splits a body as its header says. *)
Split(message) ==
  [i \in DOMAIN message.header |->
     [name |-> message.header[i].name, type |-> message.header[i].type,
      shape |-> message.header[i].shape,
      data |-> SubSeq(message.body, End(message.header, i - 1) + 1, End(message.header, i))]]

-----------------------------------------------------------------------------
(* The request. *)

CoarseModeCode == [COMPUTE_CURRENT |-> 1, REUSE_PREVIOUS |-> 2, COMPUTE_BOOTSTRAP |-> 3]

NoCoarse == << >>

(* validateClassificationInput: coarse probabilities come with the mode    *)
(* that reuses them, and only with it.                                     *)
InputHolds(mode, reused) ==
  IF mode = "REUSE_PREVIOUS"
  THEN Len(reused) = 7 /\ \A i \in DOMAIN reused : reused[i] \in 0 .. One
  ELSE reused = NoCoarse

Vector(name, type, data) ==
  [name |-> name, type |-> type, shape |-> <<Len(data)>>, data |-> data]

(* BuildClassificationInput and buildClassificationInputTensors. *)
Tensors(epochs, mode, reused) ==
  LET prepared == Sorted(epochs)
  IN  << Vector("TIME_MJD", "FP64", [i \in DOMAIN prepared |-> prepared[i].time]),
         Vector("MAGNITUDE", "FP32", [i \in DOMAIN prepared |-> prepared[i].magnitude]),
         Vector("MAGNITUDE_ERROR", "FP32", [i \in DOMAIN prepared |-> prepared[i].error]),
         Vector("COARSE_MODE", "INT32", <<CoarseModeCode[mode]>>),
         Vector("REUSED_COARSE_PROBS", "FP32",
                IF reused = NoCoarse THEN [i \in 1 .. 7 |-> 0] ELSE reused) >>

(* The outputs the request asks for. *)
Requested == <<"COARSE_PROBS", "FINE_CONDITIONAL_PROBS", "LEAF_PROBS", "XGBOOST_EXECUTED">>

(* EncodeBinaryInferRequest returns no error. *)
CanEncode(tensors) ==
  /\ \A i \in DOMAIN tensors : TensorHolds(tensors[i])
  /\ \A i, j \in DOMAIN tensors : tensors[i].name = tensors[j].name => i = j

RequestFor(entrypoint, tensors) ==
  LET encoded == Encoded(tensors)
  IN  [model |-> entrypoint.model, version |-> entrypoint.version,
       outputs |-> Requested, header |-> encoded.header, body |-> encoded.body]

-----------------------------------------------------------------------------
(* The response. *)

CoarseProbs == "COARSE_PROBS"
FineProbs == "FINE_CONDITIONAL_PROBS"
LeafProbs == "LEAF_PROBS"
Executed == "XGBOOST_EXECUTED"

(* What the classifier takes, whatever the manifest says. *)
OutputType == [COARSE_PROBS |-> "FP32", FINE_CONDITIONAL_PROBS |-> "FP32",
               LEAF_PROBS |-> "FP32", XGBOOST_EXECUTED |-> "BOOL"]

OutputCount == [COARSE_PROBS |-> 7, FINE_CONDITIONAL_PROBS |-> 10,
                LEAF_PROBS |-> 12, XGBOOST_EXECUTED |-> 1]

(* DecodeBinaryInferResponse: no tensor goes beyond the body, each holds,  *)
(* and nothing is left over.                                               *)
DecodesResponse(response) ==
  LET header == response.header
      split  == Split(response)
  IN  /\ header # << >>
      /\ \A i \in DOMAIN header :
           /\ header[i].size > 0
           /\ End(header, i) <= Len(response.body)
           /\ TensorHolds(split[i])
      /\ End(header, Len(header)) = Len(response.body)

(* The one output of that name. *)
OutputOf(response, name) ==
  LET i == CHOOSE i \in DOMAIN response.header : response.header[i].name = name
  IN  Split(response)[i].data

(* mapClassificationOutput: the model that was asked, exactly the four     *)
(* outputs, each of its type and shape, probabilities only, and the flag   *)
(* the mode calls for.                                                     *)
MapsOutput(response, entrypoint, mode) ==
  LET header == response.header
  IN  /\ response.model = entrypoint.model
      /\ response.version = entrypoint.version
      /\ Len(header) = 4
      /\ {header[i].name : i \in DOMAIN header} = DOMAIN OutputType
      /\ \A i \in DOMAIN header :
           /\ header[i].type = OutputType[header[i].name]
           /\ header[i].shape = <<OutputCount[header[i].name]>>
      /\ \A name \in {CoarseProbs, FineProbs, LeafProbs} :
           \A i \in DOMAIN OutputOf(response, name) :
             OutputOf(response, name)[i] \in 0 .. One
      /\ (OutputOf(response, Executed)[1] = 1) <=> mode # "REUSE_PREVIOUS"

-----------------------------------------------------------------------------
(* The orders in which the model of the bundle has its classes: they are   *)
(* in its manifest, where no code of the worker compares them with its own *)
(* lists below.                                                            *)

ModelCoarseOrder ==
  <<"Rotating", "Cataclysmic", "EclipsingBinary", "LongPeriod", "Pulsating",
    "RRLyrae", "Supernova">>

ModelFineOrder ==
  <<"ew_given_eclipsing_binary", "ea_given_eclipsing_binary",
    "by_dra_given_rotating", "rs_cvn_given_rotating",
    "rrab_given_rr_lyrae", "rrc_given_rr_lyrae",
    "sr_given_long_period", "mira_given_long_period",
    "dsct_given_pulsating", "cep_given_pulsating">>

ModelLeafOrder ==
  <<"EW", "EA", "ByDra", "RSCvn", "RRAB", "RRC", "SR", "Mira", "DSCT", "CEP",
    "Cataclysmic", "Supernova">>

-----------------------------------------------------------------------------
(* The run. *)

CoarseClassByProbabilityIndex ==
  <<"Rotating", "Cataclysmic", "EclipsingBinary", "LongPeriod", "Pulsating",
    "RRLyrae", "Supernova">>

(* Mutant: two neighbours change places. *)
LeafClassSwapped ==
  <<"EW", "EA", "ByDra", "RSCvn", "RRC", "RRAB", "SR", "Mira", "DSCT", "CEP",
    "Cataclysmic", "Supernova">>

LeafClassByProbabilityIndex ==
  <<"EW", "EA", "ByDra", "RSCvn", "RRAB", "RRC", "SR", "Mira", "DSCT", "CEP",
    "Cataclysmic", "Supernova">>

(* The loop of firstMaximumIndex: a later value must be greater. *)
FirstMaximumIndex(values) ==
  LET maximumIndex[i \in 1 .. Len(values)] ==
        IF i = 1 THEN 1
        ELSE IF values[i] > values[maximumIndex[i - 1]] THEN i
        ELSE maximumIndex[i - 1]
  IN  maximumIndex[Len(values)]

PredictedCoarse(values) == CoarseClassByProbabilityIndex[FirstMaximumIndex(values)]

PredictedLeaf(values) == LeafClassByProbabilityIndex[FirstMaximumIndex(values)]

RunFor(response) ==
  LET coarse == OutputOf(response, CoarseProbs)
      leaf   == OutputOf(response, LeafProbs)
  IN  [coarse |-> coarse, fine |-> OutputOf(response, FineProbs), leaf |-> leaf,
       executed |-> OutputOf(response, Executed)[1] = 1,
       coarseClass |-> PredictedCoarse(coarse), leafClass |-> PredictedLeaf(leaf)]

-----------------------------------------------------------------------------
(* The result message has a field for every probability and a number for   *)
(* every class.                                                            *)

Named(names, values) ==
  [name \in {names[i] : i \in DOMAIN names} |->
     values[CHOOSE i \in DOMAIN names : names[i] = name]]

Positioned(names, fields) == [i \in DOMAIN names |-> fields[names[i]]]

CoarseFields ==
  <<"rotating", "cataclysmic", "eclipsing_binary", "long_period", "pulsating",
    "rr_lyrae", "supernova">>

FineFields ==
  <<"ew_given_eclipsing_binary", "ea_given_eclipsing_binary",
    "by_dra_given_rotating", "rs_cvn_given_rotating",
    "rrab_given_rr_lyrae", "rrc_given_rr_lyrae",
    "sr_given_long_period", "mira_given_long_period",
    "dsct_given_pulsating", "cep_given_pulsating">>

LeafFields ==
  <<"ew", "ea", "by_dra", "rs_cvn", "rrab", "rrc", "sr", "mira", "dsct", "cep",
    "cataclysmic", "supernova">>

CoarseFieldsRead ==
  <<"rotating", "cataclysmic", "eclipsing_binary", "long_period", "pulsating",
    "rr_lyrae", "supernova">>

FineFieldsRead ==
  <<"ew_given_eclipsing_binary", "ea_given_eclipsing_binary",
    "by_dra_given_rotating", "rs_cvn_given_rotating",
    "rrab_given_rr_lyrae", "rrc_given_rr_lyrae",
    "sr_given_long_period", "mira_given_long_period",
    "dsct_given_pulsating", "cep_given_pulsating">>

LeafFieldsRead ==
  <<"ew", "ea", "by_dra", "rs_cvn", "rrab", "rrc", "sr", "mira", "dsct", "cep",
    "cataclysmic", "supernova">>

CoarseClassId ==
  [Pulsating |-> 10, LongPeriod |-> 20, Cataclysmic |-> 30, RRLyrae |-> 40,
   Rotating |-> 50, EclipsingBinary |-> 60, Supernova |-> 70]

LeafClassId ==
  [Cataclysmic |-> 30, Supernova |-> 70, DSCT |-> 1001, CEP |-> 1002, SR |-> 2001,
   Mira |-> 2002, RRAB |-> 4001, RRC |-> 4002, ByDra |-> 5001, RSCvn |-> 5002,
   EW |-> 6001, EA |-> 6002]

MessageFor(run) ==
  [coarse |-> Named(CoarseFields, run.coarse), fine |-> Named(FineFields, run.fine),
   leaf |-> Named(LeafFields, run.leaf), executed |-> run.executed,
   coarseClass |-> CoarseClassId[run.coarseClass], leafClass |-> LeafClassId[run.leafClass]]

(* The writer reads a result and its table has a row for it. *)
RowFor(result) ==
  [command |-> result.command,
   coarse |-> Positioned(CoarseFieldsRead, result.message.coarse),
   fine |-> Positioned(FineFieldsRead, result.message.fine),
   leaf |-> Positioned(LeafFieldsRead, result.message.leaf),
   executed |-> result.message.executed,
   coarseClass |-> result.message.coarseClass, leafClass |-> result.message.leafClass]

(* DecodeClassificationResultMessage decides the classes once more. *)
DecodesResult(row) ==
  /\ row.coarseClass = CoarseClassId[PredictedCoarse(row.coarse)]
  /\ row.leafClass = LeafClassId[PredictedLeaf(row.leaf)]

(* The checks of classification_runs. *)
TableTakes(row) ==
  /\ Len(row.coarse) = 7 /\ Len(row.fine) = 10 /\ Len(row.leaf) = 12
  /\ row.coarseClass \in {10, 20, 30, 40, 50, 60, 70}
  /\ row.leafClass \in {30, 70, 1001, 1002, 2001, 2002, 4001, 4002, 5001, 5002, 6001, 6002}
=============================================================================
