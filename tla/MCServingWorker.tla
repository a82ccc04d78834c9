-------------------------- MODULE MCServingWorker --------------------------
EXTENDS ServingWorker, TLC

Epoch(time, magnitude, error) ==
  [time |-> time, magnitude |-> magnitude, error |-> error]

(* Out of order, unusable for two equal times, and long enough to reuse. *)
ThreeCurves ==
  << << Epoch(3, 13, 1), Epoch(1, 11, 2), Epoch(2, 12, 3) >>,
     << Epoch(1, 11, 1), Epoch(2, 12, 1), Epoch(1, 13, 1) >>,
     << Epoch(4, 14, 1), Epoch(3, 13, 2), Epoch(1, 11, 1), Epoch(2, 12, 2) >> >>

(* One greatest probability, or two, for the classes at those positions. *)
Found(order, top, tie) ==
  [c \in {order[i] : i \in DOMAIN order} |->
     IF c \in {order[top], order[tie]} THEN One ELSE 0]

Fine == Named(ModelFineOrder, <<0, 1, 2, 0, 0, 1, 1, 2, 2, 0>>)

(* Every leaf class is the greatest, alone or before its neighbour. *)
AnswerAt(i, tie) ==
  [coarse |-> Found(ModelCoarseOrder, 1 + (i % 7), 1 + (i % 7)),
   fine |-> Fine, leaf |-> Found(ModelLeafOrder, i, tie)]

AnswersAt(classes) ==
  {AnswerAt(i, IF i % 3 = 0 /\ i < 12 THEN i + 1 ELSE i) : i \in classes}

TwelveAndThreeAnswers == << AnswersAt(1 .. 12), {}, AnswersAt({1, 6, 12}) >>

Input(name, type, dims) == [name |-> name, type |-> type, dims |-> dims, required |-> TRUE]

Output(name, type, count) ==
  [name |-> name, type |-> type, dims |-> <<count>>, required |-> TRUE]

Contract ==
  [model |-> "variable_star_classifier", version |-> "1", backend |-> "python",
   protocol |-> "triton-v2-http", binary |-> TRUE, maxBatch |-> 0,
   inputs |-> << Input("TIME_MJD", "FP64", <<-1>>), Input("MAGNITUDE", "FP32", <<-1>>),
                 Input("MAGNITUDE_ERROR", "FP32", <<-1>>), Input("COARSE_MODE", "INT32", <<1>>),
                 Input("REUSED_COARSE_PROBS", "FP32", <<7>>) >>,
   outputs |-> << Output(CoarseProbs, "FP32", 7), Output(FineProbs, "FP32", 10),
                  Output(LeafProbs, "FP32", 12), Output(Executed, "BOOL", 1) >>]

(* A manifest may name an input the worker does not send. *)
OtherInput == [Contract EXCEPT !.inputs[4].name = "MODE"]

File(entrypoint) ==
  [schema |-> "model-bundle-manifest-v2", status |-> "ACTIVE", bundleId |-> "b",
   bundle |-> "b", entrypoint |-> entrypoint]

Files ==
  { File(Contract), File(OtherInput),
    [File(Contract) EXCEPT !.bundleId = "other"],
    File([Contract EXCEPT !.maxBatch = 8]),
    File([Contract EXCEPT !.outputs[2].dims = <<0>>]) }

(* The model as Triton serves it. *)
Served(entrypoint) ==
  [ready |-> TRUE, name |-> entrypoint.model, versions |-> {"1"},
   backend |-> entrypoint.backend, maxBatch |-> 0,
   inputs |-> [i \in DOMAIN entrypoint.inputs |-> [optional |-> FALSE] @@ entrypoint.inputs[i]],
   outputs |-> entrypoint.outputs]

(* Another version, another type, one output under another      *)
(* name, an optional input, another input.                                 *)
ServedModels ==
  { Served(Contract), Served(OtherInput),
    [Served(Contract) EXCEPT !.versions = {"2"}],
    [Served(Contract) EXCEPT !.outputs[3].type = "FP64"],
    [Served(Contract) EXCEPT !.outputs[2] = Output("OTHER", "FP32", 1)],
    [Served(Contract) EXCEPT !.inputs[5].optional = TRUE] }

TwoOrders == { <<1, 2, 3, 4>>, <<4, 3, 1, 2>> }
=============================================================================
