# Verification of llm-model-explorer

TLA+ models of llm-model-explorer: a Python back end that computes, caches and streams
views of local models, and a TypeScript UI that shows them. The concurrent core, the
protocols between browser and back end, and the analyzer that derives architecture graphs
are checked with TLC; where a result should hold for every instance and is within a
prover's reach, it is proved with TLAPS. Paths are relative to the repository's source;
`B/` is `backend/src/llm_model_explorer/`, `U/` is `ui/src/`.

## The system

| Component | State it keeps | Operations | What makes it correct | Status |
|---|---|---|---|---|
| Operation runtime, `B/operations.py` | flights (one producer per artifact key), consumers with a cursor and an outcome, the tables of both | `subscribe`, `subscribe_source`, `read`, `cancel`, `cancel_session`, `aclose`; `io`, `append`, `dependency` for producers | one production per key; nobody's cancellation ends another's read; "complete" means every byte; everything awaited returns | modelled |
| Device scheduler, `B/operations.py` | an asyncio lock per device | `run` | one job per GPU, the slot never lost, a cancelled job ends at once | modelled |
| Blocking work, `B/execution.py` | a thread pool | `run`, `aclose` | bounded, first in first out, closed last | partly |
| Artifact store, `B/artifacts.py` | directories under the cache root, shared by processes | `lookup`, `begin_write`, `append`, `commit`, `abort` | a hit is intact after any crash; the first valid publication stays | partly |
| Sessions, `B/sessions.py` | pinned models by session id | `create`, `get`, `delete`, `subscribe` | nothing outlives a deleted session; one snapshot per session | modelled |
| LMEX response, `B/streaming.py`, `B/lmex.py` | carry of unaligned bytes | delivery against disconnection | words in place, one truthful terminal frame, the consumer is released | modelled |
| Architecture service, `B/architecture_service.py` | prepared and pending snapshots, a stop flag | `prepare`, `get`, `aclose` | one analysis at a time, answers true of the pinned content, waiters may leave | modelled |
| Model observer, `B/model_events.py` | subscribers, epoch and sequence, back-off | `subscribe`, `unsubscribe`, the polling task | no unquiet state is published, everybody is told in the end | modelled |
| Model catalogue, `B/models.py` and its files | the last stable discovery | `discover`, `observe`, `pin` | only stable scans are published | partly |
| Neuron runtime, `B/neuron_execution/` | one resident model | `run`, `aclose` | a run has its own, clean weights | partly |
| Application and services, `B/services.py`, `B/app.py` | all of the above | startup, drain, teardown | close in order, each whatever the others raise | modelled |
| Architecture analysis, `B/architecture_analysis/` | none: from metadata to a graph | select, build, validate, specialize, annotate, compact | shapes and connections agree; optional annotations never cost the answer | partly |
| Architecture descriptions, same directory | none | one per family of models | the hand-written graph of every admitted configuration is sound | partly |
| UI session controller, `U/app/session-controller.ts` | session, candidate, observation, retries | choose, observe, refresh, close | no session is leaked; the shown one is intended and good | modelled |
| UI stream decoding, `U/api/`, `U/explorers/stream-words.ts` | a stream's position | `push`, end checks | any split of the bytes decodes to the same words | modelled |
| UI API client, `U/api/` | open requests | `stream`, `watchModel`, single calls | cancelled and closed with their owner | partly |
| Materialization, embeddings, tokenization, quantized decoding | artifacts only | numeric producers | reference results | not modelled |
| UI experiments, rendering; contract, CI, acceptance, examples | an epoch; none | | | not modelled |

How they interact: an HTTP handler asks the session registry for a consumer of an
artifact; the registry subscribes at the operation runtime; the runtime's producer
looks the artifact up in the store or writes it, computes in the device scheduler
and the thread pool, and may itself consume another artifact (`dependency`); the
response reads the consumer chunk by chunk and sends frames, which the UI decodes
and draws. Cancellation travels the other way: a disconnection, the deletion of an
operation or of a session, or shutdown cancels consumers; a flight without consumers
is cancelled; its own dependency is cancelled through its parent token.

The UI keeps one session per back end and replaces it when the observer's events say that
the files, or the back end itself, are no longer what they were.

What is hard in it: coroutines interleave at every `await`, threads at any time;
events captured before an `await` are used after it; producers end while readers
join, cancel and leave; processes share a cache directory and may die between two
system calls; shutdown meets all of that. Files change while they
are scanned, hashed, analyzed and read. And the architecture descriptions write down every
intermediate shape by hand, for every configuration they admit, where nothing in the code
checks that a shape is what the operation produces. The hazards are listed, each at its line,
in `PROJECT.json`.

## Modules

| Module | Models | Checked by |
|---|---|---|
| `OperationRuntime` | `B/operations.py:155-520` and the calls it makes to the store | `runtime_*` through `MCOperationRuntime`; TLAPS |
| `SharedProduction` | what the runtime promises, abstractly | implemented by `OperationRuntime` |
| `SharedRuntime` | the refinement mapping | `runtime_chain`; TLAPS |
| `OperationRuntime_proofs` | proofs about `OperationRuntime` and its refinement | TLAPS |
| `DeviceScheduler`, `_proofs` | `B/operations.py:75-141` over `B/execution.py` and `asyncio.Lock` | `scheduler` through `MCDeviceScheduler`; TLAPS |
| `ArtifactStore`, `_proofs` | `B/artifacts.py:266-529`, one numeric key | `store` through `MCArtifactStore`; TLAPS |
| `Delivery`, `_proofs` | a numeric stream from the producer's chunks to the explorer's buffer | `delivery` through `MCDelivery`; TLAPS |
| `ModelCatalogue` | generations and scans of files that change | the next two |
| `ModelObserver` | `B/model_events.py` and its routes, over `ModelCatalogue` | `observer` through `MCModelObserver`; TLAPS |
| `Sessions` | `B/sessions.py` and what is read under a session, over `ModelCatalogue` | `sessions` through `MCSessions`; TLAPS |
| `ModelCatalogue_proofs` | proofs about `ModelCatalogue`, `Sessions` and `ModelObserver` | TLAPS |
| `PinnedFiles` | stamps, fingerprints and snapshots of one model | the next three |
| `ArchitectureService` | `B/architecture_service.py` | `services` |
| `NeuronRuntime` | `B/neuron_execution/runtime.py` | `services` |
| `Services`, `_proofs` | startup, requests, drain and teardown, over both | `services` through `MCServices`; TLAPS |
| `SessionController`, `_proofs` | `U/app/session-controller.ts` with lifetime and event client | `ui_session` through `MCSessionController`; TLAPS |
| `ArchitectureGraph` | nodes, ports, connections, parameters; validation; what operations do to shapes | `architecture` |
| `DenseDescription`, `Qwen35Description`, `DeepseekDescription`, `Glm4Description`, `KimiDescription`, `ClmDescription`, `KevDescription`, `Vjepa2Description`, `SpeechDescription`, `VideoDescription` | one description each | `architecture` |
| `ArchitectureInvocation` | a pass without its cache, in a loop of generation | `architecture` |
| `ArchitectureDescriptions` | the registry: which checkpoint, which graph | `architecture` |
| `RepeatedBodies` | the search for repeated bodies | `architecture` |
| `ArchitectureAnalysis`, `_proofs` | the analyzer from metadata to answer; the proofs are about the three modules above, too | `architecture` through `MCArchitectureAnalysis`; TLAPS |

`PROJECT.json` maps every definition to its lines. A definition named
`X_Something` next to `X` is a mutant: a plausible bug in `X` under which the property
that it belongs to fails. Where a component's type invariant is not a property of its own,
it is a conjunct of the first safety invariant of its run.

### OperationRuntime

A flight is named after the consumer whose subscription created it, so `Consumer` is
the only set of ids. `fpc[f]` is where the producer task of a flight is (`_produce`,
with `io`, `append` and `dependency` of `ProducerContext`), `cpc[c]` where the read or
the subscription of a consumer is. One event loop runs all coroutines, so a step goes
from one `await` to the next; work in a thread is a step of its own wherever somebody
can see its effect before the awaiting coroutine resumes. That is why `Append` (the
bytes are readable) and `Appended` (the loop notifies) are two steps, and `Read` and
what follows an empty read are two steps.

- `flight.changed` is replaced at every notification. A read holds the event it
  captured at the top of its loop; `woken` is the set of reads whose captured event has
  been set, and `Listeners(f)` the reads a `notify()` wakes, those that have captured
  the event but do not sleep yet included.
- `finished` is captured with it: `sawFinished`.
- `file_lock` is held from `lookup` to `begin`, during `commit`, during `abort`, and by
  a read that opens (`Holding`, `LockFree`).
- `interests`, `table`, `registered` and `abandoned` are `flight.interests`, `_flights`,
  `_consumers` and the flights whose cancellation is requested. `Release(C)` is
  `_release` for a set of consumers, so that `cancel_session` and `aclose` are one step
  up to their first `await`, as in the code.
- `Dispose` is `_dispose` and `_forget`; it waits for the read in progress (`_read_lock`).
  A consumer disposed of under a producer that still has it (by the runtime's `aclose`)
  makes that producer's next read raise, which `DepExit` covers.
- A consumer of a session may be cancelled or read at any moment, or never again. A
  client's read is bounded by `max_bytes`: `Read` hands over any positive number of the
  available chunks.
- Abstractions: a payload is counted in `Chunks`; the device scheduler inside
  `compute` is a producer step; a producer has at most one dependency, which it
  consumes before it emits (materialization and statistics do); `read_guard` is one of
  the errors a read may meet; a caller does not read again after an error or the end;
  a producer that returns with a short payload is one of the failures of
  `ProducerFails`. A disposed consumer's links return to `None` only to
  merge states; nobody looks at them again.

### DeviceScheduler

`asyncio.Lock` is modelled as its tasks step, since the interesting part is between
its steps: a release only *promises* the lock to the first waiter, a newcomer may take
the lock only if every waiter is cancelled, and a waiter that is cancelled after the
promise passes it on when its task runs. `_run` waits for the lock or the cancellation,
submits to the pool, checks again on the thread, and releases in `finally`. The
cancellation of the HTTP task that called `run` is the same `Cancel`.

### ArtifactStore

One step per system call of `commit`, with the advisory lock on the cache root, and
one per file that a lookup opens, relative to the directory handle. A directory
remembers which of its files are on stable storage; a power loss may undo the others
and forgets all renames since the last sync of the root (or keeps them: both are
possible). `Init` covers an empty cache, a valid entry and a truncated one.

### SharedProduction and SharedRuntime

`SharedProduction` knows keys, who wants them, and a production that is idle, running,
stopping or over. `SharedRuntime` maps the flight that the table holds for a key to a running
production, to a stopping one from the release that cancels it, and to one that is over once it
has finished and while somebody still wants it. Everything else
of the runtime, dependencies included, is invisible or a step of the abstract one.

### Delivery

Server and browser of one stream. `LMEXResponse` reads chunks cut anywhere, sends whole
words as DATA frames and keeps the rest; the connection cuts the bytes again, anywhere;
`LmexDecoder.push` turns its loop once per step; `StreamWords` puts words into the buffer.
A payload byte is its position in the artifact, so that a lost, doubled or swapped byte
shows. The producer may fail, the source change, the artifact be short, long or unaligned,
the operation be deleted, either side stop, the connection break, the server shut down.

### ModelCatalogue, ModelObserver, Sessions

Two files are enough for the catalogue: the model's own, and a shard in a nested directory
that is looked at only once an index names it. A capture and a scan read them one by one
while other programs change them; a scan is published only between two equal captures, and
the retries are bounded. `ModelObserver` adds the subscribers with their one-frame queues,
the task that the first one starts and the last one waits for, debounce and back-off in
ticks, `request_stop` and `aclose`. `Sessions` adds creation, guarded reads, subscriptions
that suspend in the pool or for a cancelled flight, and deletion; of the runtime it keeps
consumers, their cancellation and the keys that still retire.

### PinnedFiles, ArchitectureService, NeuronRuntime, Services

The files of a model go through versions; a stamp tells versions apart, a fingerprint only
contents. `ArchitectureService` prepares a result per fingerprint in a task that the loop
owns, in one thread at a time, file by file, with a check of the stop flag at each
publication boundary; waiters may leave; the cache may lose entries. `NeuronRuntime` is the
one resident model: a lock raced by cancellation, the guarded load, eviction on every failure.
`Services` composes them with readiness, the drain and the teardown in its order.

A behaviour a reader should know: if the files are touched while their preparation runs,
`analysis_failed` is recorded for that fingerprint until a restart
(`B/architecture_service.py:281` and the handler after it), also for a session whose own
source did not change. No doc says otherwise, and `ToldOfItsContent` allows it; and
`backend/README.md:562-564` still says that only startup prepares, where the code also
prepares on demand.

### SessionController

Handlers run to completion, so each is an operator from the controller's state to its next.
Responses, events of the current subscription, the retry timer, the user and the back end
(which revises a model, removes it, restarts with a new epoch) come in any order. Facts met
on the way, none of which contradicts a doc: a restart between the acceptance of a POST and
the first event of its subscription is noticed only through the inventory, whose failure
starts the recovery (`contentFailure`); choosing another explorer cancels the pending
retry, as `docs/spec/ui/architecture.md:120-125` lets a navigation supersede; after too
many failures the controller waits for the user.

### Architecture analysis

A graph is a set of nodes with shaped ports, connections, groups and parameters. A
dimension is a number or a symbol (batch, tokens of this pass, tokens before it, tokens
routed to an expert, ...; for video a length and how often it was doubled). A description is
an operator from a configuration to a graph, translated from the code that builds it.
`Follows` says what each operation does to the shapes of its inputs and parameters: this is
the semantics the code assumes, and checks nowhere.

- `ArchitectureDescriptions` selects the description, `ArchitectureInvocation` takes the
  cache out and closes the loop of generation, `ArchitectureAnalysis` validates, finds
  templates, runs `RepeatedBodies` step by step, fits the annotations and answers in full,
  compact, or not at all. Giving up annotations resets templates, bodies and the position.
- `no_cache_invocation` is `NoCache`: bookkeeping nodes and state ports go, and what read an
  extended state reads what this pass computed. `CacheApart` is what it requires (its three
  `require`s among it), `CacheRead` what it relies on for no result to be dropped.
- `wrap_generation` is `Generating`: the nodes of the loop, whose ports and shapes it computes,
  and what remains of the pass, in which a reference to an input of the model now means the
  loop's (`Renamed`). `Wrappable` is what the code relies on there and for the most part does
  not check: one group of the model, entered by its roles only and left by one result, names
  and operations of the loop still free, roles and shapes by convention. `Recognized` is
  `validate_generation`.
- The greedy choice of the families that are retained is the solution of an equation,
  `Retained`, of which there is exactly one (`GreedyRetention`).
- Each family has its variations: biases, adapters whose factors are
  complete, missing or orphaned, heads saved with another depth (CLM), targets in one
  kind of layer or in both (Kev), a predictor narrower or wider than the talker (Qwen3-TTS,
  whose result is always partial).
- A storage that does not agree with its description has the three outcomes of the code:
  unsupported, failure, or a partial graph. That a layer with an unresolved parameter is
  not told apart from the others in its signature is left out.
- `checked()` of DeepSeek, GLM and Qwen3-TTS admits bounded geometries around a reference
  checkpoint; the model takes small ones with the same relations between their dimensions, all distinct,
  so that no wrong shape is right by coincidence. Video uses the real widths of
  `video_reference.json` for its five checkpoints, with two layers instead of 24 to 40;
  dtypes, FP8 companions and stored but unused statistics are left out.
- Sizes (the response limit and the work limit) are counted in nodes, labels, formulas and
  provenance are left out.

## Runs

Expected results are in `PROJECT.json`; every run finishes within five minutes with two
workers.

| Run | Instance | Distinct states | Shows |
|---|---|---|---|
| `runtime_shared` | two clients of two sessions; key k1 produced in two chunks and possibly cached, key k2 direct; every fault | 2.4M | safety of delivery, files and outcomes |
| `runtime_chain` | k2 computed from k1, a client of each, a third consumer for the dependency; shutdown | 1.6M | sharing, independence of cancellation, refinement of `SharedProduction` |
| `runtime_live` | two clients of k1, or one of k2 with its dependency; failing appends, shutdown | 222k | what is awaited returns |
| `runtime_abort` | two clients, one key, a failing clean-up | stops early | the finding below |
| `store` | two writers with one of two contents each, one lookup; all faults | 115k | integrity, publication, the lock |
| `scheduler` | three jobs on "cuda:0", "cuda", "cuda:0", one on "cpu", one thread | 151k | exclusion, cancellation, progress |
| `delivery` | two words of three bytes, artifacts of 3, 5, 6 and 9 bytes where 6 are declared; every fault | 254k | decoding, truthfulness, release |
| `observer` | two streams, three versions of the files after the first: one broken, one unreadable, one absent; back-off of up to two ticks | 732k | one observer, newest frame, debounce, everybody told |
| `sessions` | two clients (symmetric), three requests, two sessions, a model with an indexed shard, both replaced at any time | 790k | one snapshot, no orphan |
| `services` | two clients, files touched, then replaced by content that cannot be analyzed, exit at any time | 1.1M | preparation, weights, teardown |
| `ui_session` | two models with two changes between them, of which the first to a model takes it away; one fault or restart, two choices, one retry | 1.8M | no leaked session, the right one shown, recovery |
| `architecture` | ten families with every option above, adapters, contradicting storage, limits around the sizes of the answers, authored layers | 2.7k | sound graphs, repeated bodies, free annotations |

What the properties say:

- `CompleteDelivery`: a consumer told "complete" read every chunk, from whichever file.
  `FilesReleased`: no private file or handle outlives its owner. `NoWorkAfterCancel`:
  a cancelled producer begins no blocking work. `TerminalStable`: an outcome is decided once.
- `SharedWork`: one producer per key, found by the table, cancelled only when unneeded.
  `IndependentCancellation`: no reader ever meets somebody else's cancellation.
  `ImplementsShared`: all of it is one of the behaviours of `SharedProduction`.
- `SubscriptionAnswered`, `ReadReturns`, `CloseReturns`: subscriptions, reads and shutdown
  are answered.
- `HitIntegrity`, `NothingLeftBehind`, `FirstWins`, `CommitEnds`; `DeviceExclusive` (the slot
  is exclusive and not lost), `CancelRespected`, `JobsEnd`.
- `WordsInPlace`: the words decoded are the artifact's, however the bytes were cut.
  `TruthfulOutcome`: success, failure and cancellation are what happened, and no prefix of
  what the server sends violates the protocol. `Released`: the consumer is closed once the
  connection is gone, even if the browser never reads again.
- `OneObserver`, `NewestFrameKept`, `Debounced`, `Informed` (once the files stay, every open
  stream is told the state as it is), `StreamsEnd`.
- `OneSnapshot`, `NoOrphan`, `OnlySnapshotDelivered`.
- `ToldOfItsContent`, `OnePreparation`, `OwnCleanWeights`, `NothingAfterClose`,
  `ExitCompletes`.
- `AbandonedReleased` (every session the controller caused is shown, a candidate, in a
  response or deleted), `ShownIsIntended`, `KeptWhileGood`, `CatchesUp`.
- `GraphSound`: every graph built and published is connected, uses every parameter, drops no
  result, and every shape is what its operation makes of its inputs; where a cache is
  taken out it is apart from the rest, and the pass is then what `wrap_generation` needs; in what is published the loop of generation is
  complete, nothing is left of the cache, and "complete" is answered only for a checkpoint that
  agrees with its description. `BodiesTile`: bodies are
  real, disjoint, of the smallest period. `AnnotationsAreFree`: a response that fits
  without annotations is never refused.

Why the bounds are enough: two clients are what joining, leaving and cancelling each
other need, and a third consumer is the dependency between them; two chunks
separate "the first byte is there" from "all are there", and one is enough where no
property counts them. A key can be produced again after its first flight, because
each client may subscribe after the other left. In the store two writers race and a
lookup meets both; in the scheduler three jobs make a holder, a waiter and a second
waiter, which the promise of a lock needs, and the CPU job competes for the thread. In a
stream the word after the first shows a wrong carry, and the lengths are too short, unaligned,
exact and too long. Two changes of the files between two reads are what a stable scan has to
exclude, and a third version lets a stream miss one. A second content is what a stale
preparation or resident model could be taken for. Two sessions and three requests
let a deletion overlap a creation and a subscription. In the browser two asks and two models make a
choice superseded by another, while one fault and one retry make an attempt fail and be tried
again. The
constraint `EitherPair` of `runtime_live` leaves out two clients and a dependency at work at
once: their liveness would take longer than five minutes, their safety is in `runtime_chain`.

`CHECK_DEADLOCK FALSE`: clients may stop asking, the files stop changing, a server closes and
the ids of an instance run out.

## Fairness

- `OperationRuntime.LiveSpec`: weak fairness of `Internal` as a whole. The event loop
  does not stop while a callback is ready or a thread has work. This is weaker than what
  asyncio gives (each ready task is resumed in turn), so the liveness results hold
  for more schedules than occur. Nothing is assumed of clients, sessions or other
  processes (`External`).
- `DeviceScheduler.Spec`: weak fairness of `Progress(j)` for each job: the event loop
  resumes each ready task and an idle thread takes the next call. A kernel may run for
  ever; the first half of `JobsEnd` (a cancelled job in the queue ends) does not need it to
  return, the second half is conditional on that.
- `ArtifactStore.Spec`: weak fairness of each writer's steps once `commit` has begun: it
  runs in one thread, and the system grants a free advisory lock to some waiter.
- `Delivery.LiveSpec`: weak fairness of the server (`Serve`), which rests on `ReadReturns`. Of
  the browser nothing is assumed, but for the second half of `Released`, whose hypothesis it is.
- `ModelObserver.LiveSpec`: weak fairness of the observer task, of each thread, of each open
  stream that has something to send, and of `aclose` once called. Changes need not happen.
- `Services.LiveSpec`: weak fairness of `Step` as a whole, as in the runtime. Each client asks
  once, so nothing starves anything for ever.
- `SessionController.LiveSpec`: weak fairness of `Progress`: requests are answered (perhaps
  with an error), events of a subscription and timers arrive. Users and files need do nothing.
- `Sessions` and the analyzer are checked for safety only: what the former waits for is what
  `runtime_live` answers, and the latter ends by construction.

## Finding

`_produce` sets `finished` in its `finally` block after `writer.abort()`. If `abort()`
raises (its `rmtree` of the private directory fails), `finished` is never set and the
entry stays in the table, cancelled: every later request for that artifact waits for
ever, where `backend/README.md:302-303` promises that "new requests for that key wait for
retirement before retrying". `runtime_abort` shows the wait that never ends.

Three smaller facts met while modelling, which no doc contradicts: a consumer that
opens a writer which aborted itself gets that writer's `RuntimeError` instead of the
flight's error; a failed sync of the cache root after the rename reports an error
although the artifact is published; and a finished flight that failed stays joinable
while an earlier consumer has not yet read its error.

## Proofs

Each theorem holds for every instance that satisfies the assumptions of its module, which is
all that is assumed:

- `RuntimeAssumption`, `StoreAssumption`, `SchedulerAssumption`, `CostAssumption`,
  `DeliveryAssumption`: names are distinct, bounds are numbers, devices are named, and what is
  declared of a stream, and the most that a DATA frame takes, are whole words.
- `FilesAssumption`, `ServiceAssumption`, `NeuronAssumption`, `ServicesAssumption`: each version
  of the files has a content, each content an outcome, and contents, reasons and answers are
  told apart.
- `CatalogueAssumption`, `SessionsAssumption`: versions are numbered in their order, and there
  are finitely many callers (the ids of sessions run out by a count of them).
- `ObserverAssumption`: bounds are positive, the observer is one of the callers, and `None` is
  neither a stream nor anything that a stream is told.
- `ControllerAssumption`: the model of the remembered session was there when the session was
  made (`Gone` lacks revision 0).
- `CheckpointAssumption`, `DescriptionAssumption`: families have numbers;
  a description has finitely many nodes, its layers are numbered, what is published is made of
  the pass (the graph, or the graph without its cache) and its interfaces, and a graph is whole only if what is stored agrees with it.

| Theorem | States | Module |
|---|---|---|
| `Invariance` | `Spec => []IInv`, on which all about the runtime rest | `OperationRuntime_proofs` |
| `TypeCorrect` | `Spec => []TypeOK` | `OperationRuntime_proofs` |
| `WorkIsShared` | `Spec => []SharedWork` | `OperationRuntime_proofs` |
| `CancellationIsObeyed` | `Spec => NoWorkAfterCancel` | `OperationRuntime_proofs` |
| `OutcomesAreStable` | `Spec => TerminalStable` | `OperationRuntime_proofs` |
| `CancellationIsIndependent` | `Spec => []IndependentCancellation` | `OperationRuntime_proofs` |
| `DeliveryIsComplete` | `Spec => []CompleteDelivery` | `OperationRuntime_proofs` |
| `FilesAreReleased` | `Spec => []FilesReleased` | `OperationRuntime_proofs` |
| `RuntimeImplementsShared` | `Spec => ImplementsShared` | `OperationRuntime_proofs` |
| `HitIntegrityHolds` | `Spec => []HitIntegrity` | `ArtifactStore_proofs` |
| `NothingLeftBehindHolds` | `Spec => []NothingLeftBehind` | `ArtifactStore_proofs` |
| `FirstWinsHolds` | `Spec => FirstWins` | `ArtifactStore_proofs` |
| `DeviceExclusiveHolds` | `Spec => []DeviceExclusive` | `DeviceScheduler_proofs` |
| `CancelRespectedHolds` | `Spec => CancelRespected` | `DeviceScheduler_proofs` |
| `Invariance` | `Spec => []IInv`, on which the next two rest | `Delivery_proofs` |
| `WordsArrive` | `Spec => []WordsInPlace` | `Delivery_proofs` |
| `TruthIsTold` | `Spec => []TruthfulOutcome` | `Delivery_proofs` |
| `Invariance` | `Spec => []IInv`, on which the next three rest | `ModelCatalogue_proofs` |
| `BoundToOneState` | `Spec => []OneSnapshot` | `ModelCatalogue_proofs` |
| `NobodyIsLeft` | `Spec => []NoOrphan` | `ModelCatalogue_proofs` |
| `OnlyTheSnapshot` | `Spec => OnlySnapshotDelivered` | `ModelCatalogue_proofs` |
| `ObserverInvariance` | `ObserverSpec => []ObserverInv`, on which the next three rest | `ModelCatalogue_proofs` |
| `OneServesAll` | `ObserverSpec => []OneObserver` | `ModelCatalogue_proofs` |
| `NewestIsKept` | `ObserverSpec => []NewestFrameKept` | `ModelCatalogue_proofs` |
| `ChangesAreDebounced` | `ObserverSpec => Debounced` | `ModelCatalogue_proofs` |
| `AnswersAreTrue` | `Spec => []ToldOfItsContent` | `Services_proofs` |
| `PreparedOnce` | `Spec => []OnePreparation` | `Services_proofs` |
| `RunsAreClean` | `Spec => []OwnCleanWeights` | `Services_proofs` |
| `NothingIsLeft` | `Spec => NothingAfterClose` | `Services_proofs` |
| `Invariance` | `Spec => []IInv`, on which the next three rest | `SessionController_proofs` |
| `Released` | `Spec => []AbandonedReleased` | `SessionController_proofs` |
| `Intent` | `Spec => []ShownIsIntended` | `SessionController_proofs` |
| `GoodIsKept` | `Spec => KeptWhileGood` | `SessionController_proofs` |
| `BodiesTileHolds` | `BodiesSpec => []BodiesTile` | `ArchitectureAnalysis_proofs` |
| `AnalysisBodiesTile` | `Spec => []BodiesTile` | `ArchitectureAnalysis_proofs` |
| `AnnotationsCostNothing` | `Spec => []AnnotationsAreFree` | `ArchitectureAnalysis_proofs` |
| `GreedyRetention` | one choice of families is retained, and only one | `ArchitectureAnalysis_proofs` |
| `RemovingTheCache` | a pass without its cache stays connected and complete | `ArchitectureAnalysis_proofs` |
| `WrappingKeepsSoundness` | a sound pass gives a sound generation with a complete loop | `ArchitectureAnalysis_proofs` |
| `GraphSoundHolds` | `Spec => []GraphSound`, if what is written down is sound | `ArchitectureAnalysis_proofs` |

*Sharing.* `SharedWork` is not inductive: from it alone one cannot tell that `_release`
finds the flight of its consumer, that nothing joins a flight before it exists, or that
a producer leaving its dependency cancels a consumer of its own. `IInv` adds these facts
of the program counters: `Linked` (a registered consumer has its key and an existing
flight), `Producing` (a flight has a key, and is finished exactly when its task has
ended), `Depending` (a consuming producer and its subscription know each other) and
`Tabled` (the table holds flights with a task). There is one lemma for each kind of
step: a producer step that touches no consumer (`ProducerMoves`), a read step that
decides nothing (`ReadMoves`), a release (`Releases`), each way in (`Attempts`) and each
way out; `NextKeepsIInv` puts them together.

*Outcomes.* A producer gets to blocking work only through `CheckThen` or
`DepSubscribe`, and both look at the cancellation in the same step. An outcome could be
replaced only by a read still under way, and `Undecided` says that nobody reads with an
outcome, but for a cancellation that arrived meanwhile, which the handlers of `_read`
leave alone.

*Independence.* That a cancelled flight has no reader follows from where the error
comes from. `Wanted`: a producer that has not settled is wanted or abandoned. `Doomed`:
only an abandoned flight ends as cancelled. `Dependents`: a producer's own consumer is
cancelled only when the producer's flight is abandoned. The three hold together or not
at all: a dependency's error reaches its reader only if the dependency was abandoned,
which by `SharedWork` it is not while it has a reader, and shutdown, which cancels the
producer's consumer directly, has emptied the interests of every flight in that step.

*Delivery.* `Produced`: a flight that finishes without an error has a complete
artifact, in the cache or in its own file. `Handed`: a read that captured the finished
flag and finds nothing has reached the end. Together they are what the order in `_read`
(flag first, bytes second) and in `_produce` (commit first, flag second) is for.
`Leaving` (the runtime awaits all its consumers) and the same two give `FilesReleased`.

*Refinement.* Which production a consumer waits for is not a field of the runtime. `Found`
says that a wanted flight of a key is the one the table holds, and that a registered
consumer's flight is for its own key; without it a step that ends a flight could not be told
from one that ends the production others wait for. With `IInv`, the independence and delivery
invariants, `Undecided` and `Idle` (who has not been admitted was handed nothing), every step maps to a step of `SharedProduction` or to a stutter.

*The store.* What a lookup returns is sound because of what every directory that was ever at
the key is like (`Sealed`), and it is so because a writer renames nothing it has not sealed, a
fact of where each writer is (`Prepared`). `RemovesInvalid` gives `FirstWins`: what a writer
found invalid under the lock stays so until it removes it, as nobody else publishes. `Read`
ties what a lookup has read to the directory it holds. Power loss is in the steps:
`stable` satisfies the same invariant as the entry.

*The scheduler.* A job in a slot holds the lock (`Holding`) and the lock has one holder
(`OneHolder`); that the next holder is alone too is a fact of the waiters: only the first is
ever promised the lock, and only while it is free (`Promises`, over `Queues`). No slot is lost,
because a lock is taken only while a job holds it (`Taking`). `Moving` adds that a cancelled
job has no way into a kernel.

*The stream.* The bytes on their way are cut anywhere, so no step of the decoder corresponds to
one of the writer. The invariant labels each byte, from the one decoded last to the one sent
last, with its frame and its place there (`Stream`). A cut, a delivery and a loss take labels
away and change none. The decoder is where the first label says (`Decoder`), the writer where
the last one says (`Writer`), for as long as the connection has lost nothing; `Producer` says
that carry and view are the bytes between those taken and those sent, and `Filled` that the
buffer has the words of the bytes received. A terminal frame is `Honest` when it is written,
and the browser decides by it alone.

*Sessions.* A version of a file is a number that only grows, so a look at several files is an
interval. `Looks` says for each stage of a look what it lies before and behind: a scan
between two equal captures therefore read what they found, or the model has left that
generation for good and the check fails. `Bound` carries this to a source (the hash lies between
a discovery and an equal stat) and to the bytes read for a client (`Between`, closed by the check
after them). That nobody is left rests on who waits for whom: a consumer belongs to a request
that streams (`Streaming`), its session lives (`Attended`) or its deletion waits for it
(`Awaited`), and whatever runs is needed (`Needed`).

*The observer.* It is the other user of the catalogue, so its proof rests on the same lemmas, in
the same module. What is added to `Looks` is what a guarded observation
expects (`Expects`): the expected generation lies behind every look until the last, so one that
succeeds has found it; with the one call that the task awaits (`Asking`) this is `Debounced`.
`OneObserver` is not inductive without `Stopping`: a task that has been told to stop is alone, as
whoever told it holds `_lifetime` until it has settled, unless all is being closed. `Newest` ties
the queue, the state and the last delivered frame of each subscriber to each other.

*Services.* A thread records a result long after it has read the files. `Truthful` says of each
of its stages, of each recorded result and of each stored graph what is known of the content;
`Sourced`, that a task works for the content that is its key. `Alone` (until the startup
has ended there are neither tasks nor requests) is what keeps one content from being prepared
twice. For the neuron runs the lock decides: the owner is the one run past it (`Exclusive`), and
what it computes with is its own. `Closing` says what each phase of the teardown leaves behind,
of which `NothingAfterClose` is a consequence step by step.

*The controller.* Its handlers are compositions of parts that the code also has (dispose, retire,
drop, observe, invalidate, refresh, accept). `Good(u, l, m)` is a predicate of a controller,
not of the state: the last choice is `l`, of the model `m`; calls are well formed (`Calls`), no
session is in two places (`Apart`) or in none (`Kept`), what is shown, awaited and candidate is
of `m` (`Focus`), and what it was told is not from the future (`Seen`). Each part takes a
controller that is good to one that is good, and so does each handler. `KeptWhileGood` is
proved alongside (`Replaceable`): a part that gives a session up is reached only with a reason.

*Repeated bodies.* While work is left, every body of a shorter period that could be published
here has been tried, and every longer run of the period at hand (`BodiesTried`); so the body that is
taken is the preferred one, and a layer passed over starts none. Stacks, families, verdicts of
the verification and the budget of work are arbitrary.

In the analysis the search runs between other steps: `Staged` says what there is of graph,
templates and families at each stage, `Looked` that the invariant of the search holds from the
stage in which it starts, and that giving the annotations up leaves no body behind.

*Generation.* The loop that `wrap_generation` adds is the same for every description, so its
soundness is proved for every pass. `Wraps` fixes a pass, an interface and what `Wrappable` says
of them; the new graph is then looked at node by node. A node of the loop has the fields that
were computed for it. A remaining node keeps its own, except that a reference which means a role
comes from the model's input of that role, with the same shape, because `Enters` says that it
can come from nowhere else. From this each part follows on its own: connections
(`GeneratingConnected`), no result dropped and every parameter used (`GeneratingComplete`), shapes
(`GeneratingFollows`), and the pattern that `validate_generation` recognizes
(`GeneratingRecognized`).

*The cache.* A reference to an extended state is replaced by one to what was computed beside it
(`Extending`), and no place from which a kept node reads is such a state (`PlaceApart`); so the
shapes of all references lose the earlier tokens alike (`NowShape`), a port of a group included,
and what is found is what was found (`OfferedNow`). Nothing is dropped because the cache
takes only what it extends states by, and those are read (`CutComplete`). `GraphSoundHolds` brings
both transformations to every state of the analysis.

*What rests on TLC alone.* The hypothesis of `GraphSoundHolds`, `WrittenSoundly`: that the graph
each description writes by hand is sound, its cache can be taken out, the shapes still follow
in the pass without it (that operations keep their law when a symbol is replaced in sequences of
any length needs an induction over these), and the pass can be wrapped. It is about ten families
with their own nodes, folded over layers, and an induction over layers is out of the prover's
reach, too. `GraphSound` contains it for the stage `built`, so the run
`architecture` checks it for each description and option listed above. And all liveness
(`SubscriptionAnswered`, `ReadReturns`, `CloseReturns`, `CommitEnds`, `JobsEnd`, `Released` of a
stream, `Informed`, `StreamsEnd`, `ExitCompletes`, `CatchesUp`), as it rests on fairness and
ENABLED.

## Not modelled

- Model-defined architecture documents: what they say is data of the checkpoint, their
  formulas and schemas text. Authored layers stand for them in the search for repeated
  bodies. The renaming of `packaged.publish_definition` and the lookup of graphs in the store
  (a source check and a validation around the same steps) are left out, too.
- Parsing and validation of model files, tokenization, embeddings, quantized decoding, windows
  and binning of tensors, admission, capture and comparison of neuron runs: sequential and
  numeric, without a protocol of their own, with reference tests in the repository. The life
  cycle of what they produce is that of any artifact.
- The UI's experiment controllers: each fences one request at a time by an epoch, as
  `SessionController` does. The one hazard listed without a property is there
  (`U/architecture-explorer/neuron-experiment-controller.ts:76`). Rendering and layout.
- API contract, conformance and CI scripts, acceptance, examples and skills: not part of the
  running program. Routes and schemas only translate.
- The removal of `.tmp-*` directories left by a crash: the code leaves them on purpose
  (`B/artifacts.py:269-270`).
- Time is modelled only as order, or in ticks where the code counts them.

What would come next: the experiment controllers over their shared fence, and model-defined
documents as a further description.
