--------------------------- MODULE ServingWorker ---------------------------
(***************************************************************************)
(* A worker process (cmd/async-classifier-worker; cmd/classifier-worker    *)
(* has the same parts) from its manifest to the table: the process itself  *)
(* (Services), the contract gate (ServingContract), the commands it        *)
(* handles and the numbers it sends and gets (Inference), the Triton       *)
(* server it asks, whose model may be replaced at any time, and the table  *)
(* its results end up in.                                                  *)
(*                                                                         *)
(* The commands are revisions of one object, and only one kind of worker   *)
(* is given any: a bound.  How they are taken and committed is the         *)
(* business of the consumer modules, how a failed attempt is classified    *)
(* that of CommandHandler; here it begins anew.                            *)
(***************************************************************************)
EXTENDS Services, Inference, ServingContract

CONSTANTS
  Curves,     \* the epochs of each revision, a sequence of sequences
  Answers,    \* what the model may find in each: [coarse, fine, leaf] by class
  Models,     \* what Triton may serve
  Manifests,  \* what the file of the serving manifest may hold
  Bundle,     \* the configured model bundle
  Orders,     \* the orders of the outputs in a response
  NoJob, NoAnswer

Epochs == [time : Int, magnitude : Int, error : Int]

ASSUME ServingAssumption ==
  /\ Curves \in Seq(Seq(Epochs))
  /\ \A m \in Models : Len(m.outputs) \in Nat /\ DOMAIN m.outputs = 1 .. Len(m.outputs)

VARIABLES
  manifest,     \* the serving manifest
  triton,       \* the model Triton serves
  job,          \* the command in hand or NoJob
  results,      \* the result topic
  rows,         \* classification_runs
  answers       \* history: what the model was asked and found, by command

model == <<manifest, triton>>
work == <<job, results, rows, answers>>

vars == <<serviceVars, model, work>>

Commands == 1 .. Len(Curves)

Init ==
  /\ InitService
  /\ manifest \in Manifests
  /\ triton \in Models
  /\ job = NoJob
  /\ results = << >>
  /\ rows = << >>
  /\ answers = [k \in Commands |-> NoAnswer]

-----------------------------------------------------------------------------
(* The gates of the start. *)

Entrypoint == manifest.entrypoint

(* What has to hold at each step.  The contract gate makes three requests, *)
(* each of which may find another model.                                   *)
Holds ==
  CASE Step = "manifest" -> Resolves(manifest, Bundle)
    [] Step = "version"  -> ExpectedHolds(Entrypoint) /\ ServesVersion(triton, Entrypoint)
    [] Step = "metadata" -> MetadataMatches(triton, Entrypoint)
    [] Step = "config"   -> ConfigMatches(triton, Entrypoint) /\ ClassifierTakes(Entrypoint)
    [] OTHER             -> TRUE

Proceed == Start /\ Holds /\ UNCHANGED <<model, work>>

GateRefuses == pc = "start" /\ ~Holds /\ Fail /\ UNCHANGED <<faults, model, work>>

(* Whatever was in hand is given up when the runner returns. *)
RunnerReturns == RunReturns /\ job' = NoJob /\ UNCHANGED <<model, results, rows, answers>>

-----------------------------------------------------------------------------
(* The commands. *)

Published(k) == \E i \in DOMAIN results : results[i].command = k

(* FindLatestCompatible: the newest row that computed its probabilities. *)
Sources(k) == {i \in DOMAIN rows : rows[i].command < k /\ rows[i].executed}

LatestSource(k) ==
  CHOOSE i \in Sources(k) : \A j \in Sources(k) : rows[j].command <= rows[i].command

ModeOf(k) ==
  IF Len(Curves[k]) <= MaximumComputeCurrentEpochs THEN "COMPUTE_CURRENT"
  ELSE IF Sources(k) = {} THEN "COMPUTE_BOOTSTRAP" ELSE "REUSE_PREVIOUS"

ReusedCoarse(k) ==
  IF ModeOf(k) = "REUSE_PREVIOUS" THEN rows[LatestSource(k)].coarse ELSE NoCoarse

(* The next command is read, the light curve prepared and the request      *)
(* encoded; a command whose curve is not usable is dead-lettered.          *)
Prepare ==
  /\ pc = "run" /\ service = "asyncWorker" /\ ~cancelled /\ job = NoJob
  /\ \E k \in Commands :
       /\ Prepares(Curves[k]) /\ ~Published(k)
       /\ \A j \in 1 .. k - 1 : Prepares(Curves[j]) => Published(j)
       /\ InputHolds(ModeOf(k), ReusedCoarse(k))
       /\ LET tensors == Tensors(Curves[k], ModeOf(k), ReusedCoarse(k))
          IN  /\ CanEncode(tensors)
              /\ job' = [pc |-> "ask", command |-> k, mode |-> ModeOf(k),
                         request |-> RequestFor(Entrypoint, tensors)]
  /\ UNCHANGED <<serviceVars, model, results, rows,
                 answers>>

(* What the model reads under a name. *)
InputOf(request, name) ==
  LET i == CHOOSE i \in DOMAIN request.header : request.header[i].name = name
  IN  Split(request)[i].data

(* The model answers: it computes the coarse probabilities or takes those  *)
(* of the request, and finds the rest.                                     *)
OutputData(answer, coarse, name) ==
  CASE name = CoarseProbs -> coarse
    [] name = FineProbs   -> Positioned(ModelFineOrder, answer.fine)
    [] name = LeafProbs   -> Positioned(ModelLeafOrder, answer.leaf)
    [] name = Executed    -> <<IF answer.executed THEN 1 ELSE 0>>
    [] OTHER              -> <<0>>

ResponseOf(answer, coarse, order) ==
  LET outputs == [i \in DOMAIN triton.outputs |-> triton.outputs[order[i]]]
      data(i) == OutputData(answer, coarse, outputs[i].name)
  IN  [model   |-> triton.name,
       version |-> answer.request.version,
       header  |-> [i \in DOMAIN outputs |->
                      [name |-> outputs[i].name, type |-> outputs[i].type,
                       shape |-> outputs[i].dims, size |-> Len(data(i))]],
       body    |-> FlattenSeq([i \in DOMAIN outputs |-> data(i)])]

(* Triton takes a request for a version it serves whose tensors are the    *)
(* inputs of the model.                                                    *)
TakesRequest(request) ==
  /\ ServesVersion(triton, request)
  /\ Len(request.header) = Len(triton.inputs)
  /\ \A i \in DOMAIN request.header :
       \E k \in DOMAIN triton.inputs :
         LET sent == request.header[i]
             input == triton.inputs[k]
         IN  /\ sent.name = input.name /\ sent.type = input.type
             /\ Len(sent.shape) = Len(input.dims)
             /\ \A d \in DOMAIN input.dims : input.dims[d] \in {-1, sent.shape[d]}

(* What the connection or the server may do to a response: cut it short or *)
(* leave something over, spoil a value, send one output twice, name        *)
(* another version.                                                        *)
Spoilt(answer, coarse, order) ==
  LET response == ResponseOf(answer, coarse, order)
  IN  { [response EXCEPT !.body = SubSeq(@, 1, Len(@) - 1)],
        [response EXCEPT !.body = Append(@, 0)],
        [response EXCEPT !.body = [@ EXCEPT ![1] = NotAProbability]],
        [response EXCEPT !.version = "another"],
        ResponseOf(answer, coarse, [order EXCEPT ![1] = order[2]]) }

(* Triton refuses the request: Do returns an error, and the attempt fails. *)
Refuse ==
  /\ job # NoJob /\ job.pc = "ask"
  /\ ~TakesRequest(job.request)
  /\ job' = NoJob
  /\ UNCHANGED <<serviceVars, model, results, rows,
                 answers>>

Answer ==
  /\ job # NoJob /\ job.pc = "ask"
  /\ TakesRequest(job.request)
  /\ \E found \in Answers[job.command], order \in Orders :
       LET reused == job.mode = "REUSE_PREVIOUS"
           coarse == IF reused THEN InputOf(job.request, "REUSED_COARSE_PROBS")
                     ELSE Positioned(ModelCoarseOrder, found.coarse)
           answer == [mode |-> job.mode, request |-> job.request,
                      coarse |-> Named(ModelCoarseOrder, coarse),
                      fine |-> found.fine, leaf |-> found.leaf, executed |-> ~reused]
       IN  /\ answers' = [answers EXCEPT ![job.command] = answer]
           /\ \/ /\ job' = [pc |-> "decode", command |-> job.command, mode |-> job.mode,
                            response |-> ResponseOf(answer, coarse, order)]
                 /\ UNCHANGED faults
              \/ /\ \E r \in Spoilt(answer, coarse, order) :
                      job' = [pc |-> "decode", command |-> job.command, mode |-> job.mode,
                              response |-> r]
                 /\ Fault
  /\ UNCHANGED <<process, model, results, rows>>

(* The response becomes a run and a result, or the attempt fails and is    *)
(* made again.                                                             *)
Publish ==
  /\ job # NoJob /\ job.pc = "decode"
  /\ IF DecodesResponse(job.response) /\ MapsOutput(job.response, Entrypoint, job.mode)
     THEN results' = Append(results, [command |-> job.command,
                                      message |-> MessageFor(RunFor(job.response))])
     ELSE UNCHANGED results
  /\ job' = NoJob
  /\ UNCHANGED <<serviceVars, model, rows, answers>>

(* A result writer stores the next result. *)
Store ==
  /\ Len(rows) < Len(results)
  /\ rows' = Append(rows, RowFor(results[Len(rows) + 1]))
  /\ UNCHANGED <<serviceVars, model, job, results, answers>>

(* Another model is loaded under the same name. *)
Reload ==
  /\ triton' \in Models \ {triton}
  /\ UNCHANGED manifest
  /\ Fault
  /\ UNCHANGED <<process, work>>

-----------------------------------------------------------------------------
Handle == Prepare \/ Refuse \/ Answer \/ Publish

(* The steps of the process that leave the model and the work alone. *)
Process == (StartFails \/ Main) /\ UNCHANGED <<model, work>>

Goroutine == Server /\ UNCHANGED <<model, work>>

Outside == (ServeFails \/ Signal) /\ UNCHANGED <<model, work>>

Done == pc = "exited" /\ Len(rows) = Len(results) /\ UNCHANGED vars

Next ==
  \/ Proceed \/ GateRefuses \/ Process \/ Goroutine \/ Outside
  \/ RunnerReturns \/ Handle \/ Store \/ Reload \/ Done

Spec == Init /\ [][Next]_vars

(* The goroutines run on; the runner sees a cancelled context in the end,  *)
(* because every handler does (CommandHandler, BatchProcessor).            *)
FairSpec ==
  /\ Spec
  /\ WF_vars(Proceed \/ GateRefuses \/ Process) /\ WF_vars(Goroutine)
  /\ WF_vars(RunnerReturns /\ cancelled)

-----------------------------------------------------------------------------
(* The class of the greatest probability, the first in the model's order. *)
Greatest(order, found) ==
  LET i == CHOOSE i \in DOMAIN order :
             /\ \A j \in DOMAIN order : found[order[j]] <= found[order[i]]
             /\ \A j \in 1 .. i - 1 : found[order[j]] < found[order[i]]
  IN  order[i]

(* The model saw the epochs of the curve, each whole, in the order of time.*)
ModelSawCurve(answer, epochs) ==
  LET time == InputOf(answer.request, "TIME_MJD")
      magnitude == InputOf(answer.request, "MAGNITUDE")
      error == InputOf(answer.request, "MAGNITUDE_ERROR")
  IN  /\ \A i \in 2 .. Len(time) : time[i - 1] < time[i]
      /\ {[time |-> time[i], magnitude |-> magnitude[i], error |-> error[i]] :
            i \in DOMAIN time} = ToSet(epochs)
      /\ Len(time) = Len(epochs)

(* What was found under a class is stored under that class. *)
StoredAsFound(row, answer) ==
  /\ row.coarse = Positioned(ModelCoarseOrder, answer.coarse)
  /\ row.fine = Positioned(ModelFineOrder, answer.fine)
  /\ row.leaf = Positioned(ModelLeafOrder, answer.leaf)
  /\ row.executed = answer.executed
  /\ row.coarseClass = CoarseClassId[Greatest(ModelCoarseOrder, answer.coarse)]
  /\ row.leafClass = LeafClassId[Greatest(ModelLeafOrder, answer.leaf)]

(* A run that reuses coarse probabilities has those of an older row. *)
ReusesStored(row, answer) ==
  answer.mode = "REUSE_PREVIOUS" =>
    \E i \in DOMAIN rows :
      rows[i].command < row.command /\ rows[i].executed /\ rows[i].coarse = row.coarse

(* Every stored run is the model's answer to the curve of its own command, *)
(* under the names the model gives its classes, through every list of      *)
(* names on the way, whatever order Triton answers in, whatever it         *)
(* answered before, and whichever model was loaded after the gate; and no  *)
(* result is refused by the writer or the table.                           *)
StoredIsTheModelsAnswer ==
  /\ \A i \in DOMAIN rows :
       LET answer == answers[rows[i].command]
       IN  /\ ModelSawCurve(answer, Curves[rows[i].command])
           /\ StoredAsFound(rows[i], answer)
           /\ ReusesStored(rows[i], answer)
  /\ \A i \in DOMAIN results :
       DecodesResult(RowFor(results[i])) /\ TableTakes(RowFor(results[i]))
=============================================================================
