# Verification of kube-diagnose

kube-diagnose is a Kubernetes operator. It follows the logs of running pods,
counts recurring error patterns, asks a knowledge base and an LLM what they
mean, and keeps the result in `Incident` objects. This directory holds TLA+
models of the parts of it in which goroutines, controllers, the API server and
failures interact; TLC checks them on small instances, and TLAPS proves the
central invariants for every instance.

`PROJECT.json` lists components, runs, the lines behind each definition,
findings, hazards and theorems. Definitions whose comment begins with "Slip:"
are variants of the definition that follows them, with a plausible programming
error. No specification uses them; they exist to show that each property can
fail.

## 1. Inventory

All paths are relative to `src/`; `internal/` is left out of them.

| Component | State | Operations | Talks to |
|---|---|---|---|
| Log watcher (`logwatcher/watcher.go`) | `watchers` map under a mutex; per stream a goroutine with `attempt` and a context | `StartWatchingPod`, `StopWatchingPod`, `StopAll`; `streamLoop`/`streamOnce` | pod log API, `logCh` |
| Filter, normalizer (`logwatcher/filter.go`, `normalizer.go`) | none | `ShouldProcess`, `Normalize`: JSON or text, level, message | called per line by the stream |
| Pipeline (`controller/logintelligenceplatform_controller.go`) | none of its own | `runLogPipeline`, one analysis goroutine per new incident | `logCh`, store, detector, engine, analyzer |
| Incident store (`aggregator/incident_store.go`) | `records` under an RWMutex | `RecordEvent`, `UpdateSeverityAndAnalysis`, `SyncToKubernetes` every 30 s, `LoadExistingIncidents` | API server through the cached client |
| Pattern detector (`aggregator/pattern_detector.go`) | time stamps per fingerprint and window | `Record`, `GetFrequency`, `IsBursting`, `IsRecurring`, cleanup | called by the pipeline |
| Fingerprinter (`aggregator/fingerprint.go`) | none | 64-bit SimHash of the normalised message | called by the pipeline |
| Analyzer (`llm/analyzer.go`) | cache under an RWMutex; `callsThisHour`, `hourResetAt` under a mutex | `Analyze`, cache purge | providers |
| Providers (`llm/openai.go`, `anthropic.go`, `google.go`) | none | one HTTP request; after a 429 two of them wait a minute and ask once more | LLM services |
| Knowledge base (`rag/engine.go`, `document_loader.go`, `embedder.go`, `qdrant_client.go`) | none of its own: Qdrant keeps the points; an indexing goroutine keeps its batch | load and chunk files, embed with retries, upsert in batches, ensure collections, retrieve | embedding service, Qdrant |
| Platform controller (`controller/logintelligenceplatform_controller.go`) | package variable `platformComponents` | `Reconcile`: tear down, build, publish | everything above |
| Policy controller (`controller/logwatchpolicy_controller.go`) | none | `Reconcile`: start a stream for every running container selected | `platformComponents.Watcher` |
| Incident controller (`controller/incident_controller.go`) | none | `Reconcile`: archive, index, advance the phase | `Incident` objects, engine |
| Dashboard (`dashboard/`) | none | renders the store's records | store, analyzer |
| Manager (`cmd/main.go`) | none | set-up | |

**What is hard, and what makes each part correct.**

- *Watcher.* A stream is started by a controller, ends by itself, by
  cancellation, or for good when the container completes, and its deferred
  delete comes later than all of these. Correct: one stream per container, the
  registered one; an entry never outlives its goroutine; a cancelled goroutine
  ends wherever it is blocked; a running container is always watched again.
- *Streams.* A reconnect replays the tail; the channel is bounded and a full
  one drops. Correct: order within a stream, no gap inside the tail, silence
  after cancellation.
- *Intake.* Regular expressions work on what earlier ones have left of a text,
  the level of a line may stand in several places, and the record a line is
  counted in hangs on a hash. Correct: the events of one error meet in one
  record, whatever their order and form, and cost one analysis.
- *Analyzer.* Check and count of the hourly limit are separate critical
  sections with a network call in between. Correct: the overshoot is bounded by
  the concurrency; a degraded answer is never cached; an analysis ends,
  whatever its providers do.
- *Knowledge base.* Every reload, one every five minutes, cancels the indexing
  goroutine of the one before, however far it has come and though the build
  that follows may fail; a cancelled upsert may still arrive; files change
  while they are indexed; embeddings, upserts and collections may fail one at a
  time, and an embedding may hang. Correct: a run that reports success has left
  out no word of what it read (but for what the scanner drops, see section 5),
  goroutines end, and the newest content gets through once nothing fails and
  five minutes are enough.
- *Store and incident controller.* Both read through an informer cache that
  lags and write merge patches without a resource version; people edit the same
  objects; the process restarts and the platform reloads. Correct: no count
  exceeds what was delivered, nothing persisted is lost by a restart, everything
  recorded is eventually persisted, the phase never claims what did not happen.
  A line that a reconnect or a reload replays is delivered, and counted, again;
  how often is the subject of `Platform`.
- *Pattern detector.* It forgets: reads prune, a cleanup evicts, each as of a
  clock reading older than its lock, and questions overlap. Correct: every answer
  is right as of some moment between its question and itself.
- *Reload.* The platform controller cancels one generation of components and
  publishes another while the policy controller works with the one it read. The
  new store loads what the old one has persisted, and the new streams replay
  the tail. Correct: one live generation, no container left behind, no line of
  the tail missing from the live store, and none counted more often than
  generations and reconnects account for.

## 2. Modules

| Module | Models | State and actions |
|---|---|---|
| `OneStream` | what the watcher promises: no stream or one per container | `streams`; `Begin`, `End` |
| `Watcher` | `watcher.go`, the registry and the goroutine | `registry` is `Watcher.watchers`; `pc`, `key`, `cancelled`, `attempt`, `delay` are the goroutine's place, key, context and locals. Each critical section is one action, and so is each stretch between two looks at the context, the API server or the mutex |
| `LogStream` | `streamOnce`'s scan loop, the filter's verdict, `logCh`, the pipeline's receive | lines are numbered per container; `next` is what the stream yields next |
| `Intake` | a line from the stream to its record: normalizer, filter, fingerprint, `RecordEvent` | a line is a sequence of parts, each of a kind some expression is about; `records`, `analysed`, `passed`; one action, `Arrive`, is the whole way of a line |
| `Analyzer` | `Analyzer.Analyze`, called concurrently, and how the requests of its providers end | one action per critical section, provider request and wait; time is `hourOver`, `expired` and `ctxDone` |
| `Chunking` | `ChunkDocument`, the corrections of its sizes, and where `tokenizeWords` stops | operators only |
| `KnowledgeBase` | `Engine.Initialize`, `IndexDocuments`, `Retrieve`, the loader, the embedder's retries, Qdrant's collections | `version` says what the runbooks hold now; `collection`, `runbooks` and `incidents` are Qdrant's; `todo`, `batch`, `skipped`, `accepted` are the locals of each indexing goroutine, one goroutine per generation; `starting` is how far a reconcile has come; `wire` is an upsert whose sender has given up. One action per request, per document taken from the list and per flush. Retrieval changes nothing and is an operator, `Retrieve` |
| `IncidentStore` | the store, its sync pass, reload and restart | `records`; `crs` are the objects at the API server, `cached` the informer's copies; a pass is `Tick`, then `CreateOrPatch`, `PrepareStatus`, `PatchStatus` per record |
| `IncidentLifecycle` | extends `IncidentStore` by the incident controller and by outside edits | `reconciling` is the phase patch under way; `Reconcile`, `TransitionPhase` |
| `Frequency` | what the detector promises: every event is kept and counted | `history`, `answer`; `Record`, `Answer` |
| `PatternDetector` | `pattern_detector.go` | `data` is the field of that name; `recording`, `asking` (one place for each asker), `cleaning` hold what a call has read from the clock before it gets the lock |
| `OneStore` | what a reload promises: one store at a time owns and writes the Incidents | `owner`, `used`, the lines `written`, how often the owner has counted each (`seen`) and what an Incident was ever given (`saved`); `TakeOver`, `Release`, `Count`, `Save`, `Write` |
| `Platform` | composes both other controllers, the watchers' streams, the channels and the pipelines over several generations | `global` is `platformComponents`; `using` is what a policy reconcile has read; `counted` is how often each store counts each line, `saved` the most an Incident was ever given of it. `Install` includes `LoadExistingIncidents`, `Reconnect` the replay, `SyncRecord` the write to an Incident |
| `*Proofs` | the theorems about the module of that name; those about `Chunking` are in `KnowledgeBaseProofs`, those about `IncidentStore` in `IncidentLifecycleProofs` | |
| `MC*` | symmetry sets, constant functions and lines for TLC | |

`IncidentLifecycle` composes by extension: each of its actions is an action of
the store with the controller's variables unchanged, or the converse, over the
shared `crs` and `cached`. `Platform` describes reconnects and persistence no
further than which lines a store gets to count and how often, and which counts
the next one begins with; how a connection breaks and how a patch is merged are
`Watcher`'s and `IncidentStore`'s subject.

Abstractions worth knowing:

- A goroutine in `Watcher` is a slot that can be used again when idle. A slot
  whose cancel function somebody still holds is not used again, because a Go
  cancel function never reaches a different stream.
- Float-to-integer conversion out of range is implementation-defined in Go;
  `BackoffDuration` offers what arm64 and amd64 do.
- A select with several ready cases may take any of them (`WakeUp`, `Send`,
  `Receive` against `PipelineReturns`).
- A status patch is computed from the copy read and applied field by field to
  the object as it is then (`MergePatch`), as a JSON merge patch is.
- `syncStatus` snapshots the record and reads the object; these are one action,
  since whatever comes between them disturbs only one of the two.
- `DayPasses` needs everything under way on that object to have settled,
  because 24 hours are long against a 30 s sync.
- `Intake` takes a message apart by what the expressions of the fingerprinter
  are about. A kind is erased by an expression, or damaged by it (a piece is
  taken out), and what the earlier expressions did decides what the later ones
  find. `Hash` is any function; TLC uses three bits.
- In `KnowledgeBase` a document is a chunk of a file at a version; reading the
  files is one action, and any of them may be unreadable (`Unread`). A file
  without a word is one empty document. Documents are taken in the order of the
  walk. A cancelled generation may leave an upsert on its way (`LateUpsert`),
  one at a time.
- A reload may come at any time and any number of times, whatever runs.
- In `Platform` a store loads any counts up to the highest an Incident was ever
  given (`Loaded`): the listing may be stale, fail, or skip a resolved one. A
  late patch of a dead generation is one the next store did not see.
- `delivered`, in `IncidentStore`, counts calls of `RecordEvent`; it cannot tell
  a replayed line from a new one, and neither can the code.
- The first listing after a restart is complete: the manager fills its caches
  before the controllers run. A listing at a reload is of a cache that lags,
  and it may fail, which the code answers with a warning.

## 3. Runs

Ten runs pass; two show a disagreement between the code and what its comments
promise.

| Run | Question | Instance | States |
|---|---|---|---|
| `Watcher` | as the operator uses it: one stream per container, registered; refinement of `OneStream`; running is watched, completed is released | 2 containers, 2 goroutines, `attempt` up to 1 | 18 thousand |
| `WatcherAPI` | with `StopWatchingPod` and `StopAll`: entries belong to live goroutines; the cancelled end | 1 container, 2 goroutines | 19 thousand |
| `LogStream` | order, late sends, gaps | 2 containers, 3 lines each (one of them noise), tail of 2, channel of 1, 2 connections each | 389 thousand |
| `Intake` | grouping of the events of one error; one analysis each | 9 lines of every kind of text, 3 of which arrive, 2 pods, 3 bits | 4 thousand |
| `Analyzer` | overshoot, degraded answers, every analysis ends | 2 concurrent calls, 1 key, 2 severities, 3 confidences, 2 providers (one retries a 429), limit 1 | 428 thousand |
| `KnowledgeBase` | completeness of a successful indexing, quality of a search, termination, freshness | 1 file in 2 versions, of 3 words and of 4 with the last too long; chunks of 2 with an overlap of 1, so two; batches of 1, so two; 2 attempts, 2 goroutines, 1 other vector size, `FailsAfter` of 0 | 454 thousand |
| `Store` | persistence across reload and restart, with one record the schema refuses | 2 incidents, of 2 events and 1, 2 sources of an analysis, 1 reload, 1 restart | 128 thousand |
| `Lifecycle` | phase, counts and archiving with all writers | 1 incident, 2 events, 1 reload, 1 restart | 337 thousand |
| `PatternDetector` | refinement of `Frequency`; order of the time stamps | 1 fingerprint, 3 events, windows of 1 and 2, stale after 2, clock to 3, delay of 1, 2 askers | 143 thousand |
| `Platform` | reload: one live generation, refinement of `OneStore`, a bound on recounted lines, no container and no line of the tail left behind | 2 generations, 1 container, 3 lines, tail of 2, channel of 1, 1 reconnect | 444 thousand |

**Why these bounds are enough.** In `Watcher` containers share nothing but the
mutex, so two of them show that one does not disturb the other, and two
goroutines allow the old and the new stream of one container to overlap;
`attempt` saturates, because only "zero or not" guides the loop. `WatcherAPI`
keeps to one container, since stops and late deletes meet on one key. In
`LogStream` a channel of one entry is full and empty within two steps, and a
second connection is the first that can replay. Lines of `Intake` contain each
kind of text that is erased, damaged or kept, in different places, and three
arrivals are enough for two of them to differ and a third to be grouped with
either. Two analyses exceed a limit of one. In `KnowledgeBase` a file of three
words has two chunks that share a word, and each is a batch, so a second batch
may fail after the first; the second version competes with the first and loses
the word that is too long; two goroutines are the cancelled and the current
one, and collections of two kinds meet in a search. A failing `Initialize`
(`FailsAfter`) gets to no collection there; the proofs allow any number. A sync
pass and a reload or restart meet on one incident; two incidents, in `Store`,
show that a failure of one does not hold up the other. Two generations are a
reload; what fails between them (`BuildFails`) may happen any number of times.
One container is enough in `Platform`, since containers share the channel only,
and a line of its own may fill that; `MaxReconnects` allows one replay within a
generation beside the one a reload brings. In `PatternDetector` fingerprints
share nothing but the mutex, and two askers are what it takes for one to prune
what the other is about to count; the clock runs long enough for an eviction
and for new events after it. That the pipeline waits for the lock of `Record`
no longer than `MaxDelay`, less than the shortest window, is an assumption: an
event that is recorded later would be appended to a window that has been cut
off past it. Questions and evictions wait as long as they like. In `LogStream`
and `Platform` there are more lines than the tail holds, so lines do fall out
of it; the properties speak of the last `TailLines` lines written.

`LogStream`, `Intake`, `Store`, `Lifecycle` and `PatternDetector` may stop when
their bounds are used up, so deadlock is not checked there; everywhere else it
is.

**The two disagreements.**

- `IntakeTime`. The fingerprinter turns a message into lower case and then
  strips time stamps with an expression that asks for an upper-case `T`, `Z` or
  month (`fingerprint.go:191`). A text line that starts with an ISO 8601 stamp
  keeps it, as two or three words, and each second makes a new incident and a
  new analysis of the same error.
- `PlatformLeak`. A reload does not end the streams of the old watcher: they
  live on the policy controller's context.

**Fairness, and why the code justifies it.** Goroutines that can run do run.
Timers, tickers and requeues fire (the policy is requeued every two minutes,
the sync ticks every 30 seconds). A request that is repeated for ever is not
refused for ever (strong fairness, since the request comes and goes). The
stream of a container that keeps running may stay open for ever; that of one
that has stopped ends, and not always in an error, since the server closes the
log of a completed container. A call of `Analyze` takes its own steps and its
deadline passes (`OwnStep`, `ContextEnds`); of a provider nothing is assumed,
not even that it answers. In `KnowledgeBase` the goroutines run, the platform
is reconciled every five minutes, Qdrant's client gives up after 30 seconds, and
a request given up by its sender arrives or is lost. An embedding request is
assumed to come back only once its context is cancelled, since the OpenAI client
has no time-out: what frees a goroutine is the next reload. That nothing fails
any more and that no reload cuts an indexing short are premises of `Refreshed`,
not assumptions. Nothing is assumed of pods,
of people, of the manager's shutdown, of new lines, of crashes or of the
decision to reload.

## 4. Proofs

`tlapm` checks every theorem, for all values of the constants that satisfy the
named assumptions (bounds are naturals, channels and limits are positive,
"none" values are outside the sets they stand beside, and
`MaxDelay <= Duration[w] <= StaleThreshold`, which the detector's constants
meet with a minute of delay and a quarter of an hour to spare). Two theorems have the hypothesis
`NamesDiffer` in their statements. Every invariant, every action property and
every refinement of the passing runs is stated by a theorem.

- **`WatcherProofs`.** The inductive invariant for the exported interface says
  of an entry that its goroutine is live and has that key, and of a live
  goroutine that it has a key and of an idle one that it has none; from it
  follows `EntriesAreStreaming`. Without single stops the converse holds as
  well: each live goroutine is the registered one (`SingleStream`). The two
  together make `Exit` delete its own entry, which is the step on which the
  refinement (`Implements`) hinges: `streams[k]` is the set of goroutines with
  that key, `StartWatchingPod` maps to `Begin`, `Exit` to `End`, and all else
  to stuttering.
- **`LogStreamProofs`.** `SilencedAfterOne` needs that who has sent an entry
  after its cancellation is back at the point where the context is looked at.
  `NoGapInTail` needs that only lines that have been written are sent; opening
  a stream goes back to where the tail begins, and receiving moves an entry
  from one sequence to the other without a change to what has been sent
  (`ReceiveSent`). `AscendingRuns` bounds the places at which the entries of a
  container go back (`GoesBack`) by its connections less one. The invariant
  (`RunInv`) adds that an open stream either is ahead of everything its
  container has sent, or still has one connection to spare; only the first
  entry after a reconnect can go back, and the reconnect has paid for it.
- **`IntakeProofs`.** `SameErrorSameFingerprint`: of a recognised message the
  tokens are the words somebody would say it has; votes are cardinalities over
  tokens, so a bijection of the words that preserves them leaves every vote as
  it is, for any hash. The invariant then is that the fingerprint of each line
  that has passed has a record, that its count is the number of such lines and
  its pods include theirs (`Grouped`), and that analysed lines have distinct
  fingerprints (`AnalysedOnce`).
- **`KnowledgeBaseProofs`.** `OnlyDroppedWordsAreLost` and
  `ConsecutiveChunksShareOverlap` hold for any size and overlap, negative ones
  and too long ones included. A word is in what `ChunkDocument` returns if and
  only if it is not behind the place where the scanner stops, or the words up
  to there fit one chunk and the document is left as it is: the corrected step
  is positive, so the chunk that starts at the last multiple of it not after a
  word, or the last chunk, contains the word. `SuccessIsComplete` rests on the first of them and on the
  invariant that each document of what was loaded is to do, in the batch,
  skipped or accepted, and that an embedding has a document; the loop is over
  when nothing is left to do and the batch is empty.
  `RetrievalFindsBest` needs an invariant as well, that what Qdrant stores is
  finite: each collection is asked for more points than the merge keeps, so if
  it holds back a point, one of those it returned did not fit into the answer,
  which is then full of points that match no worse.
- **`AnalyzerProofs`.** `Overshoot` proves that `callsThisHour + |calls under
  way| <= limit - 1 + |Calls|`, waits for a retry included. A call that passes
  the limit sees `callsThisHour < limit`, and the calls under way are at most
  all of them; an answer moves a call from one summand to the other.
  `SequentialLimit` is its corollary for one call at a time. `NoDegradedCached`
  needs the strengthening that a call about to store holds an LLM answer or a
  retrieval that was confident enough.
- **`IncidentLifecycleProofs`.** `NotifiedTruthfully` needs that no copy, no
  patch base and no patch target says Notified without the flag, and that the
  flag, once true, stays so; patches then cannot combine an old phase with a
  newer flag falsely. `NothingUndeliveredCounted` bounds every count in sight
  (records, objects, cached copies, both ends of every patch) by the lines
  delivered, replays included, given that a name belongs to one fingerprint (`NamesDiffer`): with a shared
  name it is false. `PersistedKept` is about the store alone (`StoreSpec`), and
  needs `NamesDiffer` too: until the first reload the cached copy is behind the
  object, the object behind the record, and a patch under way has a base behind
  the object and a target between object and record (`KeptInv`); a merge of
  such a patch moves the object forward only, and what a restart loads is what
  the object says.
- **`PlatformProofs`.** `OneLive` needs that nothing is alive between a
  tear-down and its result, and that a generation that is alive is the global.
  `TailAccounted` needs that a stream is at most one line ahead of what its
  container has written: a new line is then never one that was passed, writing
  only takes lines out of the tail, a start goes back to the tail's first line,
  and a receive moves a line from the channel to the store. It is the safety
  half of `EveryLineCounted`. `Implements` is the refinement of `OneStore`:
  `Install` takes over, a tear-down that finds something alive releases, a
  receive of the live pipeline counts, `SyncRecord` saves, and everything else
  stutters, what an old pipeline or an old stream does included. Its invariant
  (`HandOver`) says that a generation not built yet has no stream and no entry,
  because nobody can have read it in the global, and that only written lines
  wait in a channel. `RecountsAreBounded` adds up, for each generation and line
  (`Recounts`), the count, the copies in the channel and the one copy its stream
  has still to bring: a read moves one copy from the last summand to the
  channel, a receive from there to the count, a reconnect adds at most one and
  pays for it, and a new generation begins with no more than the bound of those
  before it, which is where `HandOver` is needed again. The copies in a channel
  are a cardinality (`Places`); a send adds one at most, and a receive takes
  the one at the head (`SendAddsAPlace`, `ReceiveTakesAPlace`).
- **`PatternDetectorProofs`.** The binary search is a recursive function over
  intervals. Whatever solves its equation agrees with the boundary between the
  events before the cutoff and the others (`RoundIsFound`,
  `SearchFindsBoundary`): if it did not, a shortest interval on which it is wrong would exist, and its
  two halves are shorter. The inductive invariant says that each window is
  complete since some moment, the latest that a question on it or an eviction
  has looked back from (`WindowsComplete`), that the history ascends and ends
  before the time of the recording under way (`HistoryAscends`), and that no
  clock reading in use is later than now, nor that of the recording older than
  `MaxDelay` (`InTime`). Pruning, appending and
  evicting preserve it (`AnswerInv`, `RecordInv`, `CleanupInv`).
  `WindowsAscend` follows, and so does `Implements`: a question that comes
  after one with a later clock finds the window cut off there, and answers as
  of that moment (`AsOf`, `CountsAgree`), which is between its own question and
  its answer, so each answer is one of `Frequency`'s; `Record` maps to
  `Record`, and all else, evictions included, to stuttering.

Only model-checked: the liveness properties (`RunningIsWatched`,
`CompletedIsReleased`, `CancelledStreamEnds`, `AnalysisEnds`, `IndexerEnds`,
`Refreshed`, `EventuallyPersisted`, `ResolvedIsArchived`,
`EveryContainerStreamed`, `EveryLineCounted`), because fairness is out of the
prover's reach. The library's induction theorems take an operator, which the
installed provers cannot instantiate; where a proof needs an induction over
numbers it argues by a least element (`LeastElement`) instead.

## 5. Further divergences met while modelling

These are not runs of their own. Most are behaviour of the models, and can be
reproduced by stating the promise as a property; the others were met while
reading.

Watcher and streams

- *Deleted pod.* `streamOnce`'s comment says that a pod that "is gone/done"
  ends its goroutine (`watcher.go:257`), but the probe's NotFound counts as a
  transient error (`watcher.go:362`): the goroutine of a deleted pod retries
  for ever.
- *Back-off overflow.* From the 35th failed attempt in a row on the product
  does not fit a `Duration`; on amd64 the result is negative
  (`watcher.go:412`), the wait ends at once and the loop spins.
- *Orphaned stream.* After `StopWatchingPod` and a new start of the container,
  the first goroutine's deferred delete removes the second one's entry
  (`watcher.go:200`), so that `StopAll`, which "cancels every active streaming
  goroutine" (`:156`), misses it. The operator never stops single streams.
- *Dropped lines.* `NewWatcher`'s comment says that a stalled consumer blocks
  the goroutine (`:66`); the send has a default case and drops the line
  (`:330`).

Intake

- *Policy settings.* `LogLevels` and `ExclusionPatterns` of a policy
  (`logwatchpolicy_types.go:106`) have no effect: the platform builds one
  filter with four fixed levels and no exclusions
  (`logintelligenceplatform_controller.go:201`).
- *Keyword scan.* It is meant for logs without a level (`filter.go:113`) but
  applies to all, so that an INFO line that mentions an error passes.
- *Identifiers cut in two.* "Order matters: remove more-specific patterns
  before broader ones so that UUIDs are not partially mangled"
  (`fingerprint.go:193`): a UUID that ends with twelve digits is, by the
  expression for time stamps, which comes first.
- *Namespaces share records.* A fingerprint has no namespace: the same error in
  two of them is one record, under the namespace and policy of the first.
- *Nothing to say.* All lines without a significant word share the fingerprint
  0; the suffix of a pod name also matches ordinary hyphenated words
  (`fingerprint.go:52`).

Analyzer and providers

- *Rate limit.* "Enforce an hourly rate limit" (`analyzer.go:93`) holds up to
  the overshoot proved above, and exactly without concurrency. Only answers
  count: requests that fail, or whose answer cannot be parsed, are free, and
  one that waits for its retry counts in the hour in which it is answered.
- *Back-off of Google's provider.* It waits the minute after any transport
  error, too (`google.go:183`), and calls it "rate limited".

Knowledge base

- *Vector sizes.* `Initialize` ensures that collections exist (`engine.go:88`),
  not that they have the size of the embedder in use; after a change of
  embedder every upsert and search is refused.
- *A refused batch.* "error only if all documents fail" (`engine.go:123`): a
  batch that fails ends the indexing at once (`:182`) and leaves out all later
  documents.
- *Shared document IDs.* `documentID` (`document_loader.go:121`) drops the
  extension and joins path elements: `a.md` and `a.txt`, or `a/b` and `a_b`,
  overwrite each other, although an ID is "unique" (`:45`).
- *Old chunks stay.* Points of a file that shrank or was deleted are never
  removed. An upsert that arrives late overwrites newer content until the next
  reload.
- *Loaded twice.* A ConfigMap mount shows its files under `..data` as well.
  `LoadFromConfigMap` and the ConfigMap reference of the platform are not used.
- *Scores.* `normaliseScore` maps a cosine of 0 to 0.5, while the comment at
  `engine.go:271` has scores in [0, 1] already.
- *Too long a word.* `tokenizeWords` never asks its scanner for the error
  (`document_loader.go:327`): at a word of 64 KiB or more, an inline image for
  example, it stops, and if what came before needs chunks, the rest of the
  file is not indexed and success is reported. `Dropped` says what is lost.
- *Embeddings without a time-out.* The OpenAI client has none (`embedder.go:126`)
  and the context no deadline, so a request that hangs holds up the indexing
  until the next reload cancels it.
- *Five minutes.* Each reload cancels the indexing under way
  (`logintelligenceplatform_controller.go:112`), every five minutes (`:531`),
  and a build that then fails (`:122` to `:144`) starts no other: of a base
  that takes longer, the last documents are never indexed. `Refreshed` has it
  as its premise that no indexing is cut short.
- *Silence.* A search whose context is over returns no results and no error;
  `IndexResolvedIncident` is never reached (see below), and nothing fills the
  metadata collection.

Store, incident controller, detector

- *Refused source.* Providers answer with their own name as analysis source
  (`openai.go:108`); the CRD allows rag, llm, cache and unknown
  (`incident_types.go:107`), so every status patch of an incident with such an
  analysis is refused, its count included.
- *Resolution undone.* The sync writes `resolved` from the record
  (`incident_store.go:407`), which nothing sets, over what people have set,
  though it works "so that concurrent controllers do not interfere" (`:261`).
- *Lines counted again.* "Count is the total number of occurrences"
  (`incident_types.go:146`). A reload or restart loads the persisted count
  (`logintelligenceplatform_controller.go:191`, `incident_store.go:500`), the
  new streams replay the last 100 lines (`watcher.go:264`), as every reconnect
  does, and `RecordEvent` adds them to it (`incident_store.go:167`): the count
  of an incident that is still in the tail grows by up to its lines there with
  every reload, without a new occurrence. A line is counted once for each
  generation and each reconnect at most (`CountedOncePerReplay`), and that
  often it can be.
- *Reload from a stale cache.* The new store lists a cache that may lack the
  last patch, or starts empty when the listing fails; its next sync lowers a
  count or removes an analysis (`incident_store.go:500`).
- *Shared name.* 40 characters of the pattern and half of the fingerprint name
  an object (`incident_store.go:443`); two incidents may share it.
- *Analysis lost.* Only a record created by `RecordEvent` is analysed; one
  loaded without an analysis never is.
- *Archived while open.* The archiving patch may cross with the sync of a
  reloaded store and leave an archived incident that is not resolved.
- *Indexing never happens.* The block at `incident_controller.go:75` asks for a
  resolved incident of phase Resolved, which the return at line 71 has taken.
- *Notified does not stay.* The sync recomputes the phase from the count on
  every pass (`incident_store.go:398`).
- *`IsRecurring`* asks for an event in each window, but the windows are nested,
  so one event in the last minute suffices (`pattern_detector.go:194`); the
  comment speaks of a pattern active over 15 minutes "rather than being a
  single transient spike".
- *Unbounded windows.* "Stale events ... are pruned in-place so that memory
  usage is bounded" (`pattern_detector.go:136`), but only by the questions,
  which nothing in the program asks: what keeps firing is kept without end.

Platform and policies

- *Deleted policy.* "Watcher goroutines are context-scoped and will exit"
  (`logwatchpolicy_controller.go:58`): their context is the manager's, so they
  do not.
- *Excluded namespaces* are looked at only when namespaces are listed as well
  (`logwatchpolicy_controller.go:143`).
- *Reload loop.* The platform's status update has a new time in it, in seconds,
  and triggers the next reconcile, which rebuilds everything; no predicate
  filters it. The chain ends when two reconciles in a row write within the same
  second; the next one comes after five minutes, or after 30 seconds if the
  build failed. A store replaced before its first tick never synchronises.

## 6. Not modelled

- The dashboard renders copies of records and changes nothing. Its port changes
  hands at a reload, where one bind may fail; it is not tried again until the
  next one.
- The manager's set-up (flags, certificates, registration) and generated deep
  copies have no state that interleaves.
- Texts: prompts, what an answer is parsed from, the layout of the context for
  a prompt, the rendering of severities and times.
- The health check of the knowledge base, which only logs, and operations the
  program never calls: `LoadFromConfigMap`, `GetOrCreate`, `Similarity`.
- Retries inside the vendors' HTTP clients; to `Analyzer` they are one request.
- Status conditions and status fields of platform and policy, which no
  component reads; the counters that `Stats` shows; memory growth.
- Which pods a policy selects: `Platform` has a fixed set of containers.

## 7. Plan

Done, in this order: `OneStream`, `Watcher`, `LogStream`, `Analyzer`,
`IncidentStore`, `IncidentLifecycle`, `Platform`, `PatternDetector`,
`Chunking`, `KnowledgeBase`, `Intake`, the providers in `Analyzer`, `OneStore`;
proofs of every safety property and refinement of the runs.

Next, in order of what they add:

1. Proofs of what the liveness properties rest on, such as that a pass changes
   no object that agrees with its record.
2. Deletion of policies and pods, and the selection of namespaces, in
   `Platform`.
3. The handover of the dashboard's port.
