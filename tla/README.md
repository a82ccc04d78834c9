# Verification of variable-star-classification

TLA+ models of the workers that classify variable stars, checked with TLC and, for everything but
liveness, proved with TLAPS. Every definition is translated from the Go source; `PROJECT.json` maps
each one to its lines.

## The system

Three Kafka topics carry the work, four kinds of processes do it:

    candidate topic --> candidate-orchestrator --> command topic
    command topic   --> classifier-worker | async-classifier-worker --> result topic
    result topic    --> classification-result-writer --> PostgreSQL

A record that can never be handled goes to the dead letter topic (DLQ) of its stage. The
workers read light curves and call Triton over HTTP and look up earlier results in
PostgreSQL. Every consumer is at-least-once: the effect of a record (a published message, a
stored run, a dead letter) comes first, the commit of its offset second; repeated effects
are absorbed by deterministic identities and by the database.

| component | state | operations | hard because | must hold |
|---|---|---|---|---|
| completion tracker (`partition_completion_tracker.go`) | per partition: tracked offsets, completed set, cursor | `Track`, `MarkCompleted` | completions in any order, repeated, unknown | the offset returned is the end of the longest finished prefix, and grows |
| batch processing (`async_consumer.go`, `processBatch`) | tracker, lanes, completion channel, first failure | one goroutine per lane, a collecting loop | lanes interleave, fail, are cancelled | only finished prefixes are offered; an object's records in order; no handler outlives the batch; a cancelled batch returns |
| runners (`async_consumer.go`, `consumer_rebalance_yield.go`, `record_processor.go`, `consumer.go`) | position, batch in hand, context | poll, handle, commit, `AllowRebalance`, return | rebalance, eviction, crash, errors and signals at any step | at-least-once, never skipping; progress |
| `RebalanceYield` (`rebalance_yield.go`) | generation, cancel function | `Generation`, `Bind`, `Request`, `RequestedSince`, release | the callback races the loop between any two of them | no request to yield is lost |
| session loops (`cmd/*/main.go`) | client, runner, run context | close, recreate, exit | yield, error and signal together | a fresh session resumes at the committed offset |
| command handling (`classification_command_{dlq,retry}_handler.go`, `classification_worker*.go`) | per command: attempt, retry flag | DLQ(Retry(Worker)) | errors are classified by what is left of their chain | nil only for what is durable; outages are retried, not dead-lettered; every command returns |
| command metrics (`commandmetrics/observer.go`) | shared gauges | started, finished, retry started and finished | retries of several commands overlap | the gauges tell the truth |
| result writer and repository (`classification_result_*.go`, `classification_repository.go`) | tables of runs and of current classifications | insert, inspect, upsert, commit; retry; dead letter | concurrent transactions, repeated and late results, lost answers | the pointer is the newest production run and never moves back; nil only for what is durable |
| candidate orchestration (`candidate_handler.go`, `candidate.go`, `classification_policy.go`, `classification_command.go`) | none | decode, policy, command or dead letter | errors that are neither retried nor dead-lettered; repeated publishes; a bundle change between two candidates | every candidate settles; what it builds a worker of its bundle accepts |
| identities, coarse mode, run builder, decoders (`identity.go`, `coarse_mode_selector.go`, `classification_run_builder.go`, `classification_*_decode.go`) | none, reads earlier runs | job and run identity, mode selection, build, decode | the outcome depends on what is stored at that moment, and the publish comes later; four copies of every boundary | a reused run is a stored, older one of the same object and bundle; what is built decodes and meets the table |
| light curve and Triton adapters, contract gate (`lightcurve/repository.go`, `light_curve_preparer.go`, `triton/*.go`, `modelbundle/*.go`) | none, but a model outside that may be replaced | read, prepare, encode, infer, decode; three gate requests at the start | the meaning of a position is repeated in a dozen lists; any order of outputs, spoilt responses | a stored run is the model's answer to the light curve of its own command |
| start-up, readiness and shutdown (`cmd/*/main.go`, `management.go`) | clients, ready flag, run context, error channel | gates, serve, sessions, shut down | signals and failures at every step, a goroutine beside the sessions | a clean exit only on a signal; every client closed once; the process ends |
| backlog exporter (`kafkabacklog/*`) | last good snapshot | read positions, publish, wait | several requests against a moving log; a select that chooses at random | the lag brackets the truth, and comes to it; the process ends |
| capacity bench (`rate_schedule.go`) | schedule, windows | dispatch, check windows | boundaries of windows | every window is checked once |

Left aside: the capacity bench, the mock server, the demonstration web site, generated code,
fakes, model repositories, deployment manifests and dashboards (see `components` in `PROJECT.json`).

## Modules

| module | models | composed with |
|---|---|---|
| `TrackerState` | the state of one partition in a batch and the operators `CanTrack`, `TrackOffset`, `MarkOffset`, `CompletedOffset`: `partition_completion_tracker.go` | extended by the two below |
| `CompletionTracker` | `Track` and `MarkCompleted` as actions, called in every order | |
| `BatchProcessor` | one call of `processBatch`: tracking, lanes, completion channel, first failure, committable offsets | its result is what `AsyncConsumer` assumes of a batch |
| `AtLeastOnce` | abstract: effects in the order of each lane, commits over finished records only, never back | implemented by the three consumers |
| `ConsumerGroup` | external: the broker and the franz-go client as the runners rely on them | extended by `ConsumerSession` |
| `ConsumerSession` | poll loop, `RebalanceYield`, `main`'s session loop, crash, signal; and what the runners have in common to show (`SessionNeverSkips`, `BatchesDisjoint`, `Implements`, `RebalanceUnblocked`, `StableGroupCommits`) | extended by the three consumers |
| `AsyncConsumer` | `AsyncConsumerRunner.Run` of async-classifier-worker | implements `AtLeastOnce` |
| `SerialConsumer` | `RebalanceYieldConsumerRunner.Run` and `RecordProcessor.Process` of classifier-worker and classification-result-writer | implements `AtLeastOnce` |
| `FetchConsumer` | `ConsumerRunner.Run` of candidate-orchestrator | implements `AtLeastOnce` |
| `WorkerErrors` | which class an error chain gets, and which chain the adapters build | extended by `CommandHandler` |
| `CommandHandler` | the handler chain of both classifier workers, several commands at once, with the observer they share | the "handler" of `AsyncConsumer` and `SerialConsumer` |
| `ResultStore` | the handler chain of the result writer and the transaction of the repository | the "handler" of `SerialConsumer` in the result writer |
| `Candidates` | what the orchestrator computes for one message: decoding, policy, the command, the job identity | extended by `Classification` |
| `Classification` | what a worker and a writer compute for one command: decoders, preparation, coarse mode, run, result, table constraints | extended by `Pipeline` |
| `Pipeline` | candidates on their way through orchestrator, workers and writers, with the three topics, the three dead letter topics and the tables | every process promises `AtLeastOnce` |
| `ServingContract` | what is checked of a serving manifest and of the model Triton serves | extended by `ServingWorker` |
| `Inference` | the numbers: epochs, tensors, request, response, arrays of a run, result message, row | extended by `ServingWorker` |
| `Services` | the life of a process of any of the four services: start, sessions, management server, end | extended by `ServingWorker` |
| `ServingWorker` | a worker with its gate, its commands, Triton and the table | composes the three above |
| `BacklogExporter` | a refresh of the exporter request by request, its gauges, the loop of main | |
| `CompletionTrackerProofs`, `BatchProcessorProofs`, `ConsumerProofs`, `CommandHandlerProofs`, `ResultStoreProofs`, `PipelineProofs`, `ServingWorkerProofs`, `BacklogExporterProofs` | theorems | |

`MC...` modules give the constants of a run their values.

### How state and actions correspond to the code

**Tracker.** A partition's state is the record `[offsets, completed, next]` of the Go
struct; its index map is `Tracked`. The loop of `MarkCompleted` is the operator
`AdvancedNext`, which says where the loop stops instead of stepping through it.

**Batch.** A lane is the set of positions of a key, or of a partition for records without
one. `status` says of each record whether its handler is pending, runs, is done or failed; the
buffered channel is the sequence `completions`. Lane goroutines, the collecting loop and the
cancellation from outside interleave freely; the context of the batch is done when the outer
one is or when a first failure was recorded.

**Consumers.** `pc[w]` says where the loop of a process stands: `idle` before
`Generation()`, `polling` in the poll, `polled` with an open window before `Bind`,
`processing` after it, `returned` when the batch is back, `committing`, `releasing` before
release and `AllowRebalance`, then `yielded`, `exiting`, `closed`, `exited` or `crashed`.
`RebalanceYield` is three Booleans: `stale` (the generation differs from the one the loop
captured), `captured` (`Request` has read a cancel function and not called it yet) and
`ctxDone` (it was called). The generation itself only matters through the comparison, so no
counter is needed. `signal` is the callback on its way to `Request`: it may arrive
arbitrarily late. A batch is the span from `start` to `position`, the client's fetch
position. `effects` and `faults` are history.

**Group.** The broker is modelled at the grain the runners depend on. A rebalance waits for
open windows of joined members (`BlockRebalanceOnPoll`); a session starts gained partitions
at the committed offset and keeps its fetch position elsewhere; an evicted member goes on
until it notices and its commits are refused. These are statements about the client library,
not about the repository, and every claim below rests on them.

**Commands.** `stage` is the position in the attempt (decode, light curve, coarse mode,
bundle, Triton, build, publish). A failing stage chooses what really happened, `Chains` gives
the error chain the adapter builds for it, and `Class` is the decision of
`WrapClassificationWorkerError`; retry and dead letter follow from the class. The observer's gauges
are updated inside the same steps because its methods run to completion under its mutex.

**Results.** Each SQL statement is a step. Locks are derived from `pc`: an open transaction
holds the keys of the row it inserted, then the row of its object. `NewerRun` is the condition
of the upsert, evaluated on the latest committed version as READ COMMITTED does after a wait.

**Pipeline.** A topic is a sequence, a dead letter topic a set of letters with the place of the
record they are about. A record is taken when the records of its object before it are done, which is
all that `AtLeastOnce` promises, and, as a fault, once more at any time. A worker's task has the
steps that other processes can come between: `prepare` (decoded; the light curve is read and the
coarse mode selected from the rows that are there now), `classify`, `publish`, `reject`.
`CanPrepare`, `CanBuildRun` and `SelectionHolds` are the error returns on the way, in one conjunct
per check. A light curve that answers "not ready" disables `Prepare` until it arrives: the retry
handler asks again. A candidate whose command cannot be built and a result the table refuses have no
step at all: the code returns the error for ever, and nothing behind them in the partition goes on.
A name-based UUID is the tuple it is made of.

**A worker and its numbers.** `Services` has one step per place at which a start can fail or be
interrupted, read off each `main`; `consumer` is the variable `consumerClient` that the deferred
call looks at, and `open` says which clients really are open. The serve goroutine reports
(`ServeFails`) and cancels (`ServeCancelsRun`) in two steps. `Inference` has a definition of its own
for every list of names in the source, although most are equal today: each of them is mapped to its
list, so that a change of one is a change of one definition. A body is a sequence of values with the
sizes of the header; the model of Triton answers under the class orders of the bundle's manifest in
`models/bundles`. `ServingWorker` puts the start, the three requests of the gate (each may meet
another model), the commands and the table together.

**Exporter.** The three position requests and the reading of each oldest record are steps; the topic
and the group move between any two. `holes` are offsets that count in every lag and are shown to no
consumer (transaction markers, compacted records). The oldest record of a lag may have been trimmed
or lie behind the end that was read (`ReadRecord`), or not exist, which only the timeout of the
refresh ends (`ReadTimesOut`). `behind` keeps, as history, how far the truth was from the end
of the log when the commits were read, so that the published lag can be compared with the truth of
both moments.

## Runs

| run | shows | bounds |
|---|---|---|
| `tracker` | the cursor is the longest finished prefix; no returned offset passes an unfinished record; returned offsets grow | 2 partitions, 3 offsets with gaps: a prefix of length 0 to 3, every order of completion, refused calls |
| `batch` | only finished prefixes are kept for commit and counted; no handler outlives the call; nil means the whole batch; order within an object; a cancelled call returns | five batches of up to 4 records: interleaved objects, keyless records, one object in two partitions, two the tracker refuses |
| `async` | `AtLeastOnce` is implemented; a session never skips; no two healthy members handle one record; a failed batch still commits its finished prefix, and no more; no rebalance is blocked for good; everything is committed in the end | 2 workers, 1 partition, 2 records of different objects in one batch, 1 fault |
| `serial` | `AtLeastOnce` is implemented by the record-by-record runner; no rebalance is blocked for good; everything is committed once the dependencies recover (`EveryRecordCommitted`) | 2 workers, 2 records, 2 faults |
| `fetch` | `AtLeastOnce` is implemented by the runner without a yield; no rebalance is blocked for good; a group that stays as it is commits everything (`StableGroupCommits`) | 2 processes, 2 partitions, 3 records in one poll, 1 fault |
| `commands` | nil is only returned for what is durable; gauges are true; every command returns | 2 overlapping commands, 3 faults, a cancellation at any time |
| `results` | the pointer is the newest production run and never moves back; nil is only returned for what is durable; a dead letter has a cause, which its own row is not; every result settles | 2 writers, 5 results of one object (two revisions, two runs of one job, a run outside production, a malformed message), 2 faults |
| `pipeline` | reused probabilities come from a stored, older run of the same object and bundle; what workers publish is decoded and stored; commands are rejected only for their light curve or bundle; every candidate before one of the zero time settles | 6 messages of 2 objects: revisions of 20, 21 and 1024 epochs, a wrong key, a wrong epoch count, a zero time that blocks the topic; 2 workers of 2 bundles, a bundle change, a light curve that comes late, 1 fault |
| `worker` | a stored run is the model's answer to its own light curve; a clean exit only on a signal; every client is closed once; the process ends | 4 services, 5 manifests, 6 served models, 3 light curves (one not usable) with 12 and 3 answers (every leaf class the greatest, ties), 2 output orders, 1 fault (a failed step, a spoilt response, another model) |
| `backlog` | a snapshot's lag lies between the truths of its two moments; the gauges come to the truth; the process ends | 2 partitions, one added later, of 2 and 1 offsets, each a record or a hole, 1 failed request or server, a signal at any time |

Two more runs, `command_dlq_outage` and `command_timeout`, each violate one property that a
document states, see "Findings".

The bounds suffice for the hazards they are aimed at: losing or skipping a record takes two records
and a position between them; a double owner takes two members; an out-of-order completion takes two
lanes in one batch; a lost yield request takes one rebalance; the hand-over of a partition from an
evicted member takes one fault, and a fault in each of two sessions takes two. A chain of reuse
takes three revisions (compute, bootstrap or reuse, reuse), which `pipeline` has; a stale source
takes a second worker and a repeated command. In `worker` the boundary of 20 epochs is scaled to 3
(`MaximumComputeCurrentEpochs`), the least count a light curve may have; `pipeline` has the true
one. A wrong commit race in `backlog` takes one record and one trim, a
first record behind the end that was read takes a hole and a record, the second partition is there
to be created and to be of another lag. `MaxFaults` (crashes, evictions, fetch, commit and handler
errors, shutdowns, lost answers, redeliveries, spoilt responses), the numbers of records,
candidates, light curves and offsets, and `Concurrency` are the only bounds; nothing else grows.
`async` fires its fault at every point of the loop. For more partitions, batches, workers, records
and faults, and for other light curves, models and answers, the safety properties of all these runs
are proved.

## Findings

- `command_dlq_outage`: when a light curve response breaks off in its body, the network error is
  formatted away, the failure counts as inconsistent data, and the command is dead-lettered
  although the runbook keeps network failures out of the DLQ.
- `command_timeout`: the HTTP client's timeout satisfies `errors.Is(err,
  context.DeadlineExceeded)` and counts as a cancellation; `Handle` returns the error instead
  of retrying, and the process exits. The runbook lists timeouts under retry.

Met while modelling, and harmless or out of a run's reach:

- A request to yield between `RequestedSince` and `CommitRecords` (`async_consumer.go:168-183`) does
  not stop the commit, and the serial runner looks at the generation again only after its commit
  (`consumer_rebalance_yield.go:127-136`). The records are finished and the window is still open.
- The comment at `serving_manifest.go:37` promises a strict validation, but the tensors and the
  class orders of a manifest are not validated. The tensors are compared with Triton later; the
  class orders are compared with nothing, so a bundle that orders its classes differently would pass
  every gate.
- A candidate whose `occurred_at` is the zero time decodes, but its command cannot be built: it
  blocks its partition. `EveryCandidateSettles` is about the candidates before it (`Blocked`) and
  would be violated by any other candidate that decodes and cannot become a command.
- A lag of holes only (the group stands before a transaction's marker at the end of the log) has no
  oldest record: the direct reader waits for one until the refresh times out, every time, and no
  gauge of any partition is updated until a record is written. `LagBecomesTrue` makes an exception
  of it (`LagWithoutRecord`). The producers of this system use no transactions.

## Fairness

Safety properties need none. For progress:

- weak fairness of the steps of a loop, of the callback, of the client noticing an eviction and of
  the broker finishing a rebalance: goroutines are scheduled, and the steps stay enabled until
  taken.
- strong fairness of a poll that returns records: a rebalance disables it for a while, and a client
  that can fetch again and again does.
- a rebalance is started when a partition has no owner (a member left or was thrown out); other
  rebalances may happen and need not.
- an exited process is started again: the manifests are Kubernetes deployments.
- a handler returns once its context is done. That it returns otherwise is *not* assumed for
  `RebalanceUnblocked`, since a retry handler may go on for ever; `EverythingCommitted` (async) and
  `EveryRecordCommitted` (serial) assume it as `Recovery` and `SerialRecovery`, the recovery of the
  dependencies, in the property itself. A candidate's handler has no retry and always returns, so
  `fetch` needs no such assumption for `StableGroupCommits`.
- the three are stated for the time after the last rebalance: rebalances that come faster than the
  longest handler cancel its record every time.
- `Pipeline`: weak fairness of `Progress` as a whole. No process can go on for ever alone, since
  topics are finite and faults bounded, so all of them get their turn.
- `ServingWorker`: weak fairness of the main goroutine and of the server's; the runner returns once
  its context is cancelled, which `CancelledBatchReturns` and `EveryCommandReturns` show. Commands
  and Triton need none.
- `BacklogExporter`: requests are answered or time out and the ticker ticks (weak fairness);
  `Shutdown` needs strong fairness, because `select` chooses at random between the tick and the end
  of the context.
- faults are bounded and never fair.

## Proofs

`CompletionTrackerProofs` (for every set of partitions and of offsets): `TypeCorrect`,
`LongestPrefixCorrect`, `CommitSafety`, `ReturnedInOrder`. `AdvancedNext` is a `CHOOSE`; the lemma
`AdvancedNextStops` shows with the least number principle that there is a place to stop, and
everything else uses only `StopsAt`. The inductive invariant adds to the checked properties that
offsets ascend, that the set `completed` holds the marked offsets behind the cursor, and that what
was returned lies before the cursor: without the last, a later `Track` could slip a smaller offset
under one already returned.

`BatchProcessorProofs` (for every set of batches, partitions and keys, and every interleaving):
`PrefixCommitted`, `PollOrder`, `LanesJoined`, `WholeBatch`, `CountCorrect`. It uses the lemmas of
`CompletionTrackerProofs` about the operators of the tracker: an instance of that module whose
history `marked` is `MarkedOf`, the offsets whose completions were taken out of the channel. The
invariant has six parts: `TypeInv`; `LaneInv` (a lane goes through its records in order, stops at a
failure, and has returned only if it was done or the batch is cancelled); `PhaseInv` (nothing runs
before tracking ends or after every lane returned); `ChannelInv` (a completion is in the channel
once); `OffsetsInv` (the tracker holds the records so far, ascending per partition); `PartitionsInv`
(the tracker's own invariant, and the offset kept for the commit is that of the cursor). The lemma
`SafeIsBehindCursor` turns the cursor of the tracker into the statement about records that
`CommitsLongestPrefix` makes. `CountInv` is a part of its own: the code adds up how far cursors
move, the property counts the records that the offsets cover. The lemma `NewlyCovered` shows the two
equal for one move, by the bijection between the steps of the cursor and the records between its two
places.

`ConsumerProofs` (for every number of workers, records and faults, every finite set of partitions,
and every log): for each of the three runners the type and that a session never skips, that healthy
members have no batch in common, and the refinement of `AtLeastOnce` (`TypeCorrect`, `NeverSkips`,
`PrefixKept` of the async runner, `NoDuplicate`, `Implementation`; `SerialInvariant`,
`SerialNeverSkips`, ...; `FetchInvariant`, ...). The proof is shared as the code is. `SharedInv` is
what `ConsumerSession` keeps whatever the runner does in a batch; it has a part for each pair of
things that have to agree:

- `Positioned`: a batch begins before its end and spans assigned partitions only.
- `Session`: a session that ended is unknown to the group, holds no partition and has no window;
  outside of `Bind`..release no cancel function is held; a cancelled context means a stale
  generation.
- `Delivered`: what lies before the fetch position between two batches, or before the start of a
  batch, has had its effect; so has what the group has committed.
- `Owned`: for a member in good standing, `assigned` and the broker's `owner` agree, and the
  position it polls from, or the start of its uncommitted batch, is the committed offset.

Each runner adds what it knows of the work in hand: `BatchWork` (handlers go in the order of their
lane; a batch without an error is finished; before its window closes the committed offset is the end
of the finished prefix, which `PrefixKept` turns into a statement about records), `RecordWork` (one
record; `Process` without an error has handled and committed it) and `FetchWork` (the record in hand
is the next of its partition, handled before its commit). A step of the shared loop has one lemma
for all three; a step of a runner is of one of two kinds: it commits nothing (`QuietStep`) or is a
commit (`CommitAdvances`, `CommitKeeps`, `CommitImplements`), for which the runner only has to show
what it commits in a common form. The refinement needs all parts: a commit moves `committed` forward
because the batch started there, over finished records because of `Delivered` and the runner's own
part, and for nobody else's partitions because of ownership. `AtLeastOnce` has no state of its own,
so the mapping is the identity on `effects` and `committed`. That partitions are finite is used
once, for the serial runner: a poll of at most one record, a bound on a cardinality, is a poll of
one record (`RecordsFinite`, `OneRecord`). TLC checked the invariants of the three runners as
invariants of their runs before.

`ResultStoreProofs` (for every number of writers, results and faults, from `ResultAssumption`):
`TypeCorrect`, `NewestIsCurrent`, `NeverMovesBack`, `Durable` and `ForCause`. `CurrentIsNewest` is
not inductive: a transaction decides in its upsert and other writers step before it commits. The
invariant adds `Locked` (between `Advance` and the commit a writer is the only one there for its
object, so what it decided about the pointer is still right) and `Newest`, which says the pointer is
a production row and none is newer. The lemma `TablesCommitted` says what every way of committing
does to the tables (an acknowledged commit, one whose answer is lost, an abandoned connection), so
that the proof has one case for the three, and `TablesKept` covers all other steps. `ForCause` has
an invariant of its own: rows have unique keys (`Rows`), and `Keyed` says what a writer knows of the
keys of its result. An open transaction has them for itself; one that got no row back finds a row
with one of them, which is another run if it is not idempotent; and rows stay (`RowsKept`,
`RowsAdded`).

`CommandHandlerProofs` (for every finite set of commands and any number of faults): `NilDurable`,
`TrueGauges`. The invariant ties the observer to the handlers one by one: a command is in its retry
state (`RetryInv`) exactly if the observer was told and has not been told otherwise, the gauges are
the cardinalities of those sets (`CountInv`), and the reported start is none that is later than one
that counts (`SinceInv`). Each of the three kinds of step the observer sees has a lemma
(`RetryKept`, `RetryEntered`, `RetryLeft`).

`PipelineProofs` (for every sequence of candidates, all light curves, workers, bundles and faults,
from `PipelineAssumption`): `TypeCorrect`, `SourcesAreStored`, `ResultsCanBeStored`,
`RejectedForCause`. `SourceIsStored` speaks of results, but what makes it true was decided before:
`WorkInv` says of every task in hand that its light curve is there to stay, its mode fits the count
of epochs and its source is a row, and rows are never taken away (`Grew`). `ResultsInv` and
`LettersInv` carry it into the topics. The lemma `LatestIsCompatible` is about `ORDER BY ... LIMIT
1`: there is a latest row, and it is one of the compatible.

`ServingWorkerProofs` (for every service, any number of sessions and failures): `CleanExit`,
`ClosedOnce`. `CauseInv` is the heart of the first: as long as a process has not ended, a cancelled
run context comes from a signal or from a server error that is in the channel, and a runner that
returned nil did so because of it. `ClientsInv` says that the variable and the client agree.

Its second half is `StoredCorrect`, for any light curves, any models (any number of outputs),
answers and orders, any manifest, however often the model is replaced and a response spoilt;
`ServingAssumption` only says that a light curve is a sequence of epochs and a model's outputs are a
list. It needs what the operators of `Inference` compute, so most of it is lemmas about those:

- `RunsExist`: a function that is defined by recursion over the places of a sequence exists. The
  library's theorem takes an operator, so this is shown from the least number principle for one step
  function; `EndFacts`, `FlattenFacts` and `SplitFacts` use it: a body is framed by the sizes of its
  header, and what is cut out of it is what was put in.
- `FirstMaximumFacts` and `GreatestIsFirst`: the predicted class is the greatest one, and the first
  of equals, by name; `OrderFacts` and `SortedFacts`: `Order` is a permutation, so the tensor has
  every epoch once, in time.
- `NamesKeep`, with a lemma for each pair of lists: values that are named in one order and read in
  the other keep their classes. Here the lists of the source enter, and a list that was changed
  would fail.
- `RequestFacts` and `SeesCurve`: the request shows the model the curve; `SpoiltIsRefused`: a spoilt
  response is refused, unless its header and body are still those of an answer; `AcceptedFacts` and
  `RowFacts`: an answer that is taken becomes a row that holds it, that decodes and that the table
  takes.

`WorkInv` carries that through the steps of a worker: `RequestHolds` and `ResponseHolds` say of the
command in hand what its result will need (the response in hand, if it is taken, is the answer of a
model that saw this curve; reused probabilities are those of an older row), `ResultHolds` says it of
what was published, and rows are the results so far. `JobHolds` also has that nothing was published
of the command in hand yet: otherwise a second question would change `answers` under a stored row.
`LatestIsSource` is again about `ORDER BY ... LIMIT 1`. TLC checked `WorkInv` as an invariant
before.

`BacklogExporterProofs` (for every number of partitions and records): `Brackets`. `Anchored` relates
an answer that was read to the truth at that moment and to the log since: commits only grow and
never pass the end of the log, whatever holes it has, starts only grow, so an answer read earlier
errs on a known side.

Every safety invariant and every action property of the runs is stated by a theorem. The type
invariants are not among the properties of the runs: they are proved. Only
model-checked: everything under fairness (`RebalanceUnblocked`, `EverythingCommitted`,
`EveryRecordCommitted`, `StableGroupCommits`, `CancelledBatchReturns`, `EveryCommandReturns`,
`EveryResultSettles`, `EveryCandidateSettles`, `ServiceStops`, `LagBecomesTrue`, `ExporterStops`),
since neither liveness nor ENABLED can be proved with the installed provers; and the two findings.

## What is not modelled

- Between modules: `AsyncConsumer` takes from `BatchProcessor` that a batch offers its longest
  finished prefixes; handlers in the consumers are one step of effect, and `CommandHandler` and
  `ResultStore` show what nil and an error of that step mean.
- Payloads, except where a decision depends on them: a message is a model value, a result a record
  of the fields the database compares.
- Backoff and jitter: how long a retry waits decides nothing.
- Metrics and logs, except the shared gauges of the retry observer.
- `GetCurrent` of the repository, which no program calls; the age of the oldest record and the start
  of the exporter; metrics, pages and options of the management server.
- The capacity bench (a load generator), the mock server and the web demonstration: they share no
  state with the classification path, and their code is input and output.
- Generated protocol buffers, configuration parsing, manifests of the deployment and dashboards: no
  steps of their own.
- Components listed as not modelled in `PROJECT.json`, each with its reason.

## Plan

What is left, in this order:

1. A theorem that connects `BatchProcessor` with the batch of `AsyncConsumer`: the offsets kept for
   the commit are those of `CommitPrefix` over the records that are finished. Today
   `CommitsLongestPrefix` and `PrefixEnd` say the same in the terms of two modules.
2. `RateSchedule`: dispatch windows of the capacity bench, if the bench becomes part of a release
   gate.
