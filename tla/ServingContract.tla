-------------------------- MODULE ServingContract --------------------------
(***************************************************************************)
(* What a worker checks of a model before it consumes: its serving bundle  *)
(* manifest (internal/adapter/modelbundle) and, against the entrypoint the *)
(* manifest names, what Triton says of the model it serves                 *)
(* (internal/adapter/triton/contract_gate.go).                             *)
(*                                                                         *)
(* A manifest is [schema, status, bundleId, bundle, entrypoint], an        *)
(* entrypoint [model, version, backend, protocol, binary, maxBatch,        *)
(* inputs, outputs], and a tensor of it [name, type, dims, required].  A   *)
(* model of Triton is [ready, name, versions, backend, maxBatch, inputs,   *)
(* outputs], its tensors have optional in place of required.  The empty    *)
(* string stands for every name and version of a wrong form.               *)
(***************************************************************************)
EXTENDS Integers, Sequences

(* validateServingManifest and validateEntrypoint: of the entrypoint, only *)
(* the model and the backend; of the tensors and the class orders,         *)
(* nothing.                                                                *)
ManifestHolds(m) ==
  /\ m.schema = "model-bundle-manifest-v2"
  /\ m.status \in {"DRAFT", "ACTIVE"}
  /\ m.bundleId = m.bundle
  /\ m.entrypoint.model = "variable_star_classifier"
  /\ m.entrypoint.backend = "python"

(* FileServingBundleResolver: the one bundle of the manifest, exactly. *)
Resolves(m, bundle) == ManifestHolds(m) /\ m.bundle = bundle

-----------------------------------------------------------------------------
(* The contract gate. *)

TensorTypes == {"FP64", "FP32", "INT32", "BOOL"}

TensorsHold(tensors) ==
  /\ tensors # << >>
  /\ \A i, j \in DOMAIN tensors : tensors[i].name = tensors[j].name => i = j
  /\ \A i \in DOMAIN tensors :
       /\ tensors[i].name # ""
       /\ tensors[i].type \in TensorTypes
       /\ tensors[i].dims # << >>
       /\ \A d \in DOMAIN tensors[i].dims :
            tensors[i].dims[d] = -1 \/ tensors[i].dims[d] > 0

(* NewVariableStarClassifier takes the entrypoint. *)
ClassifierTakes(e) ==
  /\ e.model # "" /\ e.version # ""
  /\ e.protocol = "triton-v2-http"
  /\ e.binary
  /\ e.maxBatch = 0

(* validateExpectedEntrypoint. *)
ExpectedHolds(e) ==
  /\ ClassifierTakes(e)
  /\ e.backend # ""
  /\ TensorsHold(e.inputs) /\ TensorsHold(e.outputs)

(* The same tensors in the same order. *)
SameTensors(actual, expected) ==
  /\ Len(actual) = Len(expected)
  /\ \A i \in DOMAIN expected :
       /\ actual[i].name = expected[i].name
       /\ actual[i].type = expected[i].type
       /\ actual[i].dims = expected[i].dims

(* verifyReady asks for the version. *)
ServesVersion(model, e) == model.ready /\ e.version \in model.versions

(* validateModelMetadata, where the backend is called the platform. *)
MetadataMatches(model, e) ==
  /\ model.name = e.model
  /\ e.version \in model.versions
  /\ model.backend = e.backend
  /\ SameTensors(model.inputs, e.inputs) /\ SameTensors(model.outputs, e.outputs)

(* validateModelConfig. *)
ConfigMatches(model, e) ==
  /\ model.name = e.model
  /\ model.backend = e.backend
  /\ model.maxBatch = e.maxBatch
  /\ SameTensors(model.inputs, e.inputs) /\ SameTensors(model.outputs, e.outputs)
  /\ \A i \in DOMAIN e.inputs : model.inputs[i].optional # e.inputs[i].required
=============================================================================
