# A TLA+ model of vector-extensions

vector-extensions adds sources and sinks to [vector](https://vector.dev): two sinks
that upload files to object stores, a source that names files, a source that subscribes
to the Top SQL streams of a TiDB cluster, and a sink that imports metrics into
VictoriaMetrics. This directory holds TLA+ modules of the parts whose behaviour depends
on order, failure and time, TLC configurations that check them on small instances, and
proofs that TLAPS checks.

    tlc -config Checkpointer.cfg MCCheckpointer.tla     # one of the runs below
    tlapm Checkpointer_proofs.tla                       # the proofs

`PROJECT.json` lists, for tools, the same components, runs, theorems and findings as this
text, and for every definition the lines of the code it stands for. Operators marked
*Mutant of X* are plausible bugs of `X`: put in the place of `X`, they break the property
`PROJECT.json` names for them. No specification uses them.

## The system

| component | state it keeps | operations | talks to |
|---|---|---|---|
| `Checkpointer` (`packages/common/src/checkpointer.rs`) | `checkpoints` (upload and expiry times by key), `last` (state last written or read), the files `checkpoints.new.json` and `checkpoints.json` | `contains`, `update`, `write_checkpoints`, `read_checkpoints` | the disk; called by both upload sinks |
| upload sinks (`processor.rs` of `aws-s3-upload-file`, `gcp-cloud-storage-upload-file`) | `delay_queue`, `pending_uploads` | the two branches of one `select!` loop: an event comes, a delay is over | the input stream and its finalizers, the checkpointer, an uploader |
| S3 uploader (`uploader.rs`, `etag_calculator.rs`) | the calculator's buffers, which outlive a call; per call: part number, completed parts, upload id | `upload`: HEAD, etag, then PUT or create/part.../complete/abort | the file, S3 |
| GCS uploader (`uploader.rs`) | per call: session URI, uploaded bytes | `upload`: HEAD, md5, then create/chunk.../complete/cancel | the file, GCS |
| TopSQL controller (`topsql/src/controller.rs`, `shutdown.rs`) | `components`, `running_components`, the root channel | fetch the topology, start newcomers, stop leavers one by one, shut everything down | the topology fetcher, the sources, vector's shutdown signal |
| TopSQL source (`topsql/src/upstream/`) | `retry_delay`, a subscription, its TLS proxies | connect, forward responses, announce the instance every 30 s, reconnect with backoff | a TiDB or TiKV instance, vector's pipeline |
| topology fetcher (`topsql/src/topology/`) | none | four requests merged into one set of components | PD over HTTP, etcd |
| TopSQL parsers (`topsql/src/upstream/**/parser.rs`) | none | a response to log events | |
| vm-import sink | none of its own | an event to a line of JSON in a batch of its endpoint | vector's batching and HTTP sink |
| filename source | none | list files, send their names, sleep | vector's pipeline |

What is hard in it:

* **The disk and the process fail between any two calls.** A checkpoint is written to a tmp
  file that is renamed over the stable one, and read back preferring the tmp file. Errors
  are logged and the sink carries on, so a failed write is followed by others with the left-overs
  of the first in place.
* **The files change all the time.** An event, the stat, the delay, the start of the upload,
  each read and the end of the upload all see the file at other moments. What decides whether a
  file is uploaded again is a comparison of the *file's* modification time with the
  *upload's* start, across restarts.
* **Requests fail with and without effect.** An object can be in the store although
  the upload was reported as failed. Multi-request uploads leave a session behind if they do
  not clean up.
* **Tasks are cancelled at an await.** `select!` drops the controller's loop wherever it
  is when vector shuts down, the stop of a component included; a source and its proxies
  are separate tasks on a tree of channels whose closing is what is waited for.

* **What is fetched is never one moment.** The topology is put together from four responses, with
  heartbeats judged by the clock while the entries are looked at; anything unreadable fails the whole fetch.
* **Two programs agree on an event by convention.** The parsers build log events with one
  buffer whose labels stay from event to event; the encoder of another sink reads them, and drops silently what
  it does not expect.

What makes each part correct: the checkpointer loses no record it has acknowledged and
invents none; a sink skips a file only if the store has it, and gets there in the end; an
uploader is atomic, says Ok only of what is stored and leaves nothing behind; the controller
has exactly one source per instance of the cluster, and none when it has returned; a source comes
back after every failure, with the right delay, ends when it is told to with all its proxies, and passes on
the series it was sent, as exactly as a float can; a fetch reports nothing that was never up and everything that
always was; the filename source goes on naming files, and neither it nor the sink holds up a shutdown.

## Modules

| module | models | kind |
|---|---|---|
| `CheckpointView` | the data of `checkpointer.rs`: the view, the state, the files | operators |
| `Checkpointer` | `checkpointer.rs` call by call, with crashes and failing calls | state machine |
| `CheckpointView_proofs` | lemmas about the operators of `CheckpointView` | proofs |
| `Checkpointer_proofs`, `UploadSink_proofs`, `S3Upload_proofs`, `GcsUpload_proofs`, `TopSQLController_proofs`, `TopologyFetch_proofs`, `TopSQLSource_proofs` | theorems about the module each is named after, `UploadSink_proofs` also about `UploadPipeline` | proofs |
| `UploadSink` | the event loop of both sinks with checkpoints, files and store | state machine, uses `CheckpointView` |
| `AtomicUpload` | what `upload` promises the event loop | abstract specification |
| `S3Upload` | the S3 uploader and its etag calculator, request by request | state machine, implements `AtomicUpload` |
| `GcsUpload` | the GCS uploader, request by request | state machine, implements `AtomicUpload` |
| `UploadPipeline` | the filename source, the channel and an upload sink | composition, extends `UploadSink` |
| `Topology` | what a component is, addresses, `topsql_address` | operators |
| `UpComponents` | what `get_up_components` promises the controller | abstract specification, uses `Topology` |
| `TopologyFetch` | one call of `get_up_components` over a changing cluster | state machine, uses `Topology`, implements `UpComponents` |
| `TopSQLController` | the controller, the shutdown channels, the life of the sources | state machine, uses `Topology`, each slot a `SourceLife` |
| `TopSQLEvents` | the parsers of both upstreams and the buffer they share | operators |
| `VMImport` | the encoder of the vm-import sink and the request it makes | operators, uses `TopSQLEvents` |
| `SourceLife` | what the controller relies on of a source | abstract specification |
| `TopSQLSource` | one source task and its TLS proxies, down to the lines that reach VictoriaMetrics | state machine, uses `VMImport`, implements `SourceLife` |
| `MC*` | instances for TLC | |

### CheckpointView, Checkpointer

`checkpoints` is a record of two functions like the two hash maps of `CheckPointsView`; a key
that is missing maps to `NoTime`. A state is a set of `Record`s. A path holds no file, a whole
state, or garbage (an empty, cut or torn file: all that matters is that it does not parse).
The operators translate the methods of the same name; `get_state` keeps its fallback to the
clock and `set_state` is an insertion over what is there, so that whether the two maps agree
is a result and not an assumption.

`write_checkpoints` is the actions `BeginWrite` (expire, compare with `last`), `CreateTmp`,
`WriteTmp`, `SyncTmp`, `RenameTmp`, each followed by a point where the process may die and
each with the failure its `?` returns. Before `sync_all` has returned, a crash or a failed sync may leave the
tmp file torn. `read_checkpoints` is `RestartFromTmp` and `RestartFromStable`. `Faults` names
the calls that may fail. Not modelled: a rename that is lost because the directory was
not synced, which the code does not ask for either.

`acked`, `latest` and `found` are history variables: the state write_checkpoints last returned Ok for,
the start of the upload recorded last, and what the call that is running has found on disk and in `last`.
`CallLooksAtomic` compares what a call leaves with that: it is what lets `UploadSink` take a call for one step.

### UploadSink

The two `processor.rs` are one program with different uploaders, and one module. The
actions of the input branch are what an event can meet: a checkpoint, a pending upload, neither, no
file. The stat and the decision are one step: nothing else of the loop runs in between, and
what the file does after the stat it could do after the step as well. The delay branch is
`StartUpload`, the outline of `upload` (HEAD, read and hash the file, compare, read again and send), and
`Persist`, which is `write_checkpoints` after every upload, failed or not. Its intermediate states
are those of `Checkpointer`; here it is one step with the outcomes `WriteSucceeds`,
`WriteFailures`, and the same outcomes at a crash (`CallsAreSteps` proves that a call has no others).
`Restart` is `build_processor`, whose `read_checkpoints` either works (`Recover`) or meets a fault that is
only logged (`RecoverBadly`): the tmp file is not moved, or it, or both files, cannot be read.

A file's content is the version written last, an object is a sequence of the versions its chunks were read
from, so an object read while the file changed differs from every file. The assumptions
about the environment are those the code makes without saying so:

* the clock does not go back, and a write moves the modification time to the clock's present (moving an *older* file
  into place is not covered: `contains` would take it for uploaded);
* a write has a later timestamp than the steps before it (`CoarseMtime = FALSE`), or not
  (`TRUE`): then a record of exactly the file's time says nothing, and `CheckpointSound`
  speaks of younger ones;
* every key has its own object and only the sink writes it;
* a request in flight when the process dies takes effect by then or never.

`delivered` is a history variable: the newest version a *Delivered* status vouched for on the strength of a
checkpoint or a finished upload. The code also answers *Delivered* for an event of a file that
is already pending; that answer comes before the upload and is not taken back if it fails.
It is not counted in `delivered` until the upload is done (`queue` remembers the version).

### UploadPipeline

`UploadSink` lets any event come at any time. `UploadPipeline` puts the filename source in front of
it: `List` is one call of `paths` with the filter for files, `SendNext` an event of `send_batch`
as the channel has room, then the source sleeps, and only there does it look at the shutdown signal
(`SourceStops`). `TakeEvent` is the sink's input branch, with what `UploadSink` says an event meets;
the sink's input ends when the source is done and the channel is empty (`InputEnds`). A process that
has ended or died is started again with a new source. Every step is one of `UploadSink` or leaves it alone: the source and the signal are state of their own, and a shutdown is the end of the sink's input, not a fault. The order in which `paths` names files is left open.

### AtomicUpload, S3Upload, GcsUpload

`AtomicUpload` lets the object be replaced by the whole file, at any moment of a call and
however often, or not at all; `Ok` requires that it is the file as it was when the call began or
grown since. Growing is a step of its own because a log file that is appended to is the normal case.

Both uploaders are written request by request, each with its success, its failure without
effect and, where it matters, its effect without an answer. Sizes count in units of half a
chunk. A digest is what it was taken of, so two digests are equal exactly if the bytes are
(no bytes hash alike in every version). In `S3Upload` an object's etag depends on the parts it was
uploaded in, the calculator's `concat_md5` outlives a call like the field it
models, and S3 refuses a short part in the middle. A response without an upload id is treated as a failed
creation. In `GcsUpload` a session persists a prefix of a chunk when a request fails.
`excused` is a history variable: why a session was left open. It is the lost answer of a creation or a failed abort or cancel
and, in `GcsUpload`, a file that cannot be opened or read once the session is there: the code sends no cancel then (`uploader.rs:162`, `171`),
and `NoSessionLeft` takes that as it is.

A file is replaced only between calls in these two modules; replacement during an upload is the
subject of `UploadSink`, where an upload is not assumed to be atomic in that sense.

### TopSQLController

A start of a component is a *slot*: the channel `extend` makes, the source task, its proxies.
`held` is the controller's sender, `sent` that `shutdown` was called. A task is told to
stop by its channel, by the loss of its sender, or by the root channel, as `done` waits for
each; `wait_for_exit` returns when no receiver is left, proxies' included. The root channel has
the controller's own receiver and one inside every subscriber. `fetch_and_update` is `FetchFails`, or
`FetchSucceeds` (start the newcomers: there is no await between them) followed by
`StopLeaver` and `LeaverStopped` for one leaver after the other. `CancelLoop` is the other branch of `run`'s
`select!`: it drops the loop at any of its awaits and with it the notifier of the component
that is being stopped. A source may panic, which nobody notices. The constructor comes first
(`Created`, `CreationFails`), and no shutdown signal is looked at until it has returned.

Components are those of `Topology`, so that two of them may have one Top SQL address. A fetch takes time: between
its begin and its end the cluster may change, and `Fetched` is every set that is `Truthful`: right about each component
that has neither come nor gone meanwhile. `UpComponents` states that promise, and `TopologyFetch` implements it.

### Topology, TopologyFetch

The cluster is an environment that changes between any two steps: members of PD, stores,
and under `/topology/tidb/` an `info` and a `ttl` entry per address, other kinds and keys without one,
each with a value that may be `Garbage`: not UTF-8, or under `info` and `ttl` a text that does not parse. `extract_kv_str`
takes the value of every entry for UTF-8 before its kind is looked at, so `Garbage` fails the fetch under a key of any kind (`Unreadable`). Texts are abstract: an address is a host and a port, either of which may be missing,
and `Parses` is when `parse_host_port` returns. The four requests are `FetchHealth`,
`FetchMembers`, `FetchTopologyKvs` and `FetchStores`; the loop over the entries is one `TakeEntry` each in
any order, with the clock running, and `EntriesDone` joins the two halves. `RequestFails` is a request without
a usable answer, every other `?` is in the action that meets it. A component is
what the code makes of a response, and `UpNow` says independently what the cluster itself would call
up. Its heartbeat is judged by the entry of that moment *or* of the beginning of the call for "all the while",
since an entry that is renewed during the call may be read before or after.
`UpComponents` is the same call seen from the controller: a cluster that changes, a call, an answer or an error. A
component is `unsteady` there once it has come or gone since the call began; in `TopologyFetch` that is `everUp \ alwaysUp`.
An answer may be wrong about unsteady components only (`KeepsPromise`). One change of the cluster here may be several of
`up` in the controller, whose `Fetched` has no other limit than `Truthful`.

### TopSQLEvents, VMImport

The parsers are operators with the names of the code's functions. `Buf` is a record threaded through
`AppendAll`, which stands for the macro and for the loop over the TiKV instances, so a label that stays from an
earlier event stays in the model too. `Kept` is what `filter_map` leaves. A vector value carries its type, because the encoder at the other end looks at it. Times and counts have `WordBits` bits. A time is cast to signed and is a date only within
`LastTime`; `parse_panics` says when `from_timestamp` panics. A count is cast to a float of `FloatBits` bits, which rounds it to the nearest,
of two to the even one (`AsF64`); with the 53 bits of an `f64` that changes counts above 2^53. Hex encoding is an
injective function, tags arrive decoded or not at all. `VMImport` filters, encodes and
groups events by endpoint; a batch whose endpoint is in `NotUris` makes no request and is lost, as `build_request` fails.
`ExpectedSeries` in `TopSQLSource` says without buffers, events or casts which series a response has,
and `LinesFaithful` that each becomes one line at its endpoint: a time comes out as the date its bits stand for (`Dates`, not the code's
cast), a count within one part in 2^`FloatBits` (`Approximates`, not the code's rounding). It also looks at a source that has panicked: the response
it panicked on has a series with a time that is no date. `IsResponse` is the shape prost gives a response; an instance named in it has its
place in `InstanceOrder`, the order of the code's `BTreeSet`.

### SourceLife, TopSQLSource

`SourceLife` is the part of `TopSQLController` that is a source: its actions are `SpawnProxy`, `SourceExits`,
`SourcePanics`, `ProxyEnds` there, with the fairness the controller relies on. `TopSQLSource` implements it with
`source <- Alive` and the number of proxies; in `TopSQLController` each use of a slot is one such life
(`SlotLives`), which is told to end by its channel, its notifier or the root.

`pc` is the await `run_loop` is at. `RetryDelay` doubles the delay before the sleep, `Subscribe` resets
it (`on_connected`), `RetryNow` goes round without one. Over TLS a proxy task is made before the client
connects to it: `listening`, then `open`, then one half closed, then gone; it may outlive the connection and the
source. `Handle` parses a response or ticks the instance stream, and `Sent` waits for `out`.


## Runs

| run | bounds | shows |
|---|---|---|
| `checkpointer` | 2 keys, 5 instants, expiry 2; calls of a write may fail | `Durable`, `TmpIsNewer`, `TypeOK` |
| `checkpointer_all_faults` | 2 keys, 4 instants; the recovery may fail too | `NoInventedUpload`, `StableStaysValid`, `CallLooksAtomic` |
| `checkpointer_recover_fault` | 2 instants; only the recovery rename fails | violates `AlwaysRecoverable`, see Findings |
| `upload_sink` | `UploadPipeline`: 1 file, a channel of 1, 3 writes or deletions, 2 faults, 1 shutdown, 2 chunks, 1 tick besides the writes, expiry 1, fair | `DeliveredCovered`, `PipelineConverges`, `TypeOK` |
| `upload_sink_two_files` | 2 files, 3 writes, 2 faults, coarse timestamps | `QueueMatchesPending`, `CheckpointSound` |
| `upload_sink_expiry` | 1 write, no faults | violates `ExpiredNeverSuppresses`, see Findings |
| `s3_upload` | chunks of 2 units, at most 2 parts, files of up to 6 units, 3 calls, 2 faults, fair | `ImplementsAtomicUpload`, `NoSessionLeft`, `NoRedundantUpload`, `UploadReturns`, `TypeOK` |
| `s3_upload_memory` | the same, no faults | violates `KeepsLittle`, see Findings |
| `gcs_upload` | chunks of 2 units, files of up to 5 units, 3 faults, fair | `ImplementsAtomicUpload`, `RangesMeet`, `NoSessionLeft`, `UploadReturns`, `TypeOK` |
| `controller` | a TiDB instance, the same with another SQL port, and a PD; 2 proxies each, 4 changes, 1 panic, fair | `OneSourcePerComponent`, `OneSourcePerAddress`, `NoOrphan`, `ExitClean`, `OnlyLeaversAreStopped`, `SlotLives`, `ShutdownCompletes`, `FollowsTopology`, `TypeOK` |
| `topology` | 2 members of PD, 2 TiDB addresses, 2 stores, one of each sound and one not; 3 instants, 2 changes | `FetchedWasUp`, `SteadyIsFetched`, `VerdictHasCause`, `KeepsPromise`, `TypeOK` |
| `topsql_source` | both kinds of server, 6 responses of each, words of 4 bits and floats of 3, one endpoint that is no URI, first delays of 0, 1 and 5 with a limit of 4, 3 proxies, fair | `LinesFaithful`, `DelayFollowsFailures`, `ImplementsSourceLife`, `Resubscribes`, `TypeOK` |

Why the bounds are enough. *Checkpointer*: a loss needs a left-over of one write, a second
write and a restart; with 2 keys one record can expire while the other lives, and with an expiry of 2 in 5
instants a record is made, written, expires and is made again. The calls themselves
are not counted: any number of writes, failures and crashes fits into the bounds. *UploadSink*, *UploadPipeline*: 3 versions let a file
change before, during and after an upload or between two uploads, with 2 faults for a
failure and a crash and any number of ends of the input (in `UploadPipeline` one shutdown); a channel of one is full whenever it is not empty; two chunks are enough for an object that mixes versions; writes move the clock as well as ticks, so that with an expiry of 1
a record of the first instant has expired before the last. *Uploaders*: files of
0, half, one, one and a half, ... chunks, up to one and a half chunks over the part limit; three calls are an error that leaves
something behind, a call that meets it and one more. *Controller*: four changes are an instance that leaves and comes back, twice or
next to another, or that changes its port and changes it back; a slot per start, and a second one that shows an overlap.
*TopologyFetch*: two changes are a member that goes and one that comes, or an entry that is replaced and one that breaks, at
any moments of any number of calls; with a heartbeat that counts for 1 of 3 instants, each `ttl` is before, at
and past its boundary. *TopSQLSource*: the responses have zero and positive counts, a
metric and an instance that is missing from an item, a tag of every shape, a time that
wraps and two that are no date, counts that are rounded up, down and at a tie, a line whose endpoint is no URI; a first delay of 0, one that takes two doublings to the limit, and one
above it; with `MaxLeaks` of 1 a proxy whose client never came stays beside those of two connections.

A check for deadlocks is off only in the S3 runs, whose number of calls is bounded: there the system
rests in the end. The controller's end is a step of its own (`Terminated`).

### Fairness

* `UploadPipeline`: the source and the upload in progress go on (requests are answered or fail, the runtime polls a woken
  task), a process that is down is started again. Taking an event, the end of the input, the start of a due upload and the
  source's look at the shutdown signal are strongly fair: `select!` picks among ready
  branches at random, so none starves another. Events come because the source sends
  them, not by assumption. Faults and shutdowns are bounded, so they end.
* `S3Upload`, `GcsUpload`: the steps of a call are weakly fair. The file need not stop growing for the
  call to return: TLC's bound on its size stands for growth that ends, and the part
  limit for growth that does not (S3).
* `TopSQLController`: the controller and every task that has been told to stop are weakly fair. `CancelLoop` is
  strongly fair because each poll of `run`'s `select!` looks at the signal, and
  `FetchSucceeds` because a fetch tried for ever succeeds now and then. The constructor of the controller returns (it looks at no shutdown signal, and `ShutdownCompletes` says nothing of one that hangs). Nothing makes a connection end by itself.
* `TopSQLSource`: the steps of the source and of its proxies are weakly fair, each poll looks at the shutdown signal. `Subscribe` is
  strongly fair: a server that stays reachable does not drop every connection before the subscription. It closes a
  connection its client has closed; without that proxies would fill `MaxProxies`, which is a bound of the model. Neither `out` nor the end of a stream is fair:
  `Resubscribes` assumes what it needs of them.
* `TopologyFetch` states none: whether a fetch returns is up to PD and etcd.

## Proofs

A theorem holds for every value of the constants that satisfies the assumptions of its module, and for
runs of any length: the bounds of the runs (`MaxTime`, `MaxFaults`, ...) are constants like the others.
Each invariant below was checked with TLC as an invariant of a run before it was proved. The second column is what
the run shows on a small instance.

| theorem | states | module, hypothesis |
|---|---|---|
| `TypeCorrect` | `TypeOK` | `Checkpointer_proofs` |
| `RecordsAreSound` | `NoInventedUpload` | |
| `AcknowledgedStateSurvives` | `Durable` | reading back and the recovery rename do not fail |
| `TmpIsNeverBehind` | `TmpIsNewer` | the same |
| `StableIsNeverTorn` | `StableStaysValid` (action property) | |
| `CallsAreSteps` | `CallLooksAtomic` (action property) | |
| `SinkTypeCorrect` | `TypeOK` | `UploadSink_proofs` |
| `OneEntryPerPendingKey` | `QueueMatchesPending` | |
| `CheckpointsAnswerForObjects` | `CheckpointSound` | |
| `DeliveredMeansStored` | `DeliveredCovered` | `~CoarseMtime` |
| `PipelineImplementsSink` | `PipelineSpec => Spec` (refinement of `UploadSink`) | |
| `PipelineCheckpointsAnswer` | `CheckpointSound` under `PipelineSpec` | |
| `PipelineDeliveredMeansStored` | `DeliveredCovered` under `PipelineSpec` | `~CoarseMtime` |
| `S3TypeCorrect` | `TypeOK` | `S3Upload_proofs` |
| `SessionsAreAborted` | `NoSessionLeft` | |
| `S3UploadIsAtomic` | `ImplementsAtomicUpload` (refinement) | |
| `StoredFilesAreSkipped` | `NoRedundantUpload` (action property) | |
| `GcsTypeCorrect` | `TypeOK` | `GcsUpload_proofs` |
| `NoGapNoOverlap` | `RangesMeet` | |
| `SessionsAreCancelled` | `NoSessionLeft` | |
| `GcsUploadIsAtomic` | `ImplementsAtomicUpload` (refinement) | |
| `ControllerTypeCorrect` | `TypeOK` | `TopSQLController_proofs` |
| `NeverSubscribedTwice` | `OneSourcePerComponent` | |
| `EverySourceIsReached` | `NoOrphan` | |
| `OverlapEndsWithRound` | `OneSourcePerAddress` | |
| `ExitLeavesNothing` | `ExitClean` | |
| `RefreshSparesTheRest` | `OnlyLeaversAreStopped` (action property) | |
| `SlotsAreSourceLives` | `SlotLives` (action property) | |
| `EverySourceLifeIsServed` | a step of `SourceLife` in a slot is a `TaskStep` | |
| `FetchTypeCorrect` | `TypeOK` | `TopologyFetch_proofs` |
| `ReportedWasUp` | `FetchedWasUp` | |
| `FailuresAreExplained` | `VerdictHasCause` | |
| `SteadyIsReported` | `SteadyIsFetched` | `DistinctMembers` |
| `CallKeepsPromise` | `KeepsPromise` (refinement of `UpComponents`) | `DistinctMembers` |
| `SourceTypeCorrect` | `TypeOK` | `TopSQLSource_proofs` |
| `SourceLivesOnce` | the safety half of `ImplementsSourceLife` (refinement) | |
| `DelayDoubles` | `DelayFollowsFailures` | |
| `LinesAreFaithful` | `LinesFaithful` | |

The hypotheses: without the first two of `Checkpointer_proofs` the statements are false (see Findings). `CoarseMtime` is the
environment in which two writes may share a timestamp, and *Delivered* then may rest on the wrong one. `DistinctMembers` says that
no two members of PD have one URL: the fetcher joins the answers about health and members by id, and TLC shows
that it misses a component whose URL passes, between the two requests, from one member to another that has it at the same time.

The provers have no rule for induction and cannot use the library's, which take an operator. `TopSQLSource_proofs` proves it
for sets from the well-foundedness of `<` on the natural numbers (`Least`, `Induct`) and derives from it what a recursive
function over them is (`Recursion`); the powers of two, `Kept` and `AppendAll` rest on these.

### Checkpointer

`NoInventedUpload` is not inductive: a file is written from `writing`, that from the view,
the view from a file. `SoundInv` says of all of them that they hold one record per key, none after
`latest`, each with its own expiry, and that the view's two maps have the same keys. That is also what makes
the clock fallback of `get_state` dead code.

`Durable` is about the file a restart picks. `DurableInv` adds what carries it from call to call: in an up process
`last` is the stable file's state and the view covers it, so comparing with `last` is as good as
writing; inside a write, `writing` covers the stable file and the view covers `writing`; after the
write of the tmp file it is exactly `writing`. *Covers* is up to records that have expired, and the lemmas
`CoversTransitive`, `CoversLater`, `WriteCovers`, `StateCovered`, `LoadCovers` and `UpdateCovers` say
how it composes with time and with the operators of the view. `StableStaysValid` needs only that the tmp file parses
from the end of its writing to the rename (`TmpIsWritten`). `CallLooksAtomic` follows what a running call has done to what it has found
(`CallInv`): nothing yet, an empty tmp file, or a tmp file with the new state.

`CheckpointView_proofs` has what the operators return for a view whose two maps have the same keys (`Whole`):
`UpdateViewExact`, `RemoveExpiredForgets`, `GetStateExact`, `SetStateExact`. The proofs of the checkpointer and
of the sink cite them.

### UploadSink

`CheckpointSound` speaks of records, and a record is made at the end of an upload from what its start remembered.
`SinkInv` says: views are `Whole` (`WholeRecords`); no record, start or etag is of a time to come (`ClaimsAreOld`);
what has been read, hashed or found in the store since the job started is the file, as long as the file's time
does not lie after that start (`ReadsAreFresh`, `HashIsCurrent`); and so every record that would suppress an upload
tells of an object that is the file (`ClaimsHold`). A write breaks the premise of all of them at once, because it moves the time past every
claim; only a read under `CoarseMtime` may tie. `DeliveredInv` does the same for the versions reported: what
an event has seen is no newer than the file (`SeenIsOld`), and what is read after that is no older (`ReadsCover`).

The pipeline inherits all of it: `PipelineMoves` maps its steps to steps of the sink or stutters, so `PipelineSpec` implies `UploadSink`'s
`Spec`. The run `upload_sink` checks `DeliveredCovered` under `PipelineSpec`; `CheckpointSound` is checked of the sink alone, with any events and timestamps that tie.

### S3Upload, GcsUpload

That a file changes only by growing during a call makes *the bytes read are the bytes of the file* stable
(`InFile`, `SinceBegun`). In `GcsInv`, `RangesMeet` carries that across chunks: what the session has is what was read. In `S3Inv`, a
list of parts is `WellCut` if the parts follow one another from 0, all but the last a whole chunk. The uploader's list is, whatever grows under it
(`Sending`, `WholeChunks`), and so is the calculator's unless an error left digests of another call in front (`Hashing`). Two well-cut lists with the same
etag are of the same bytes (`EqualEtags`, `SameEtag`), which is what a skipped upload relies on, and a stored object
that is the file and evenly cut has the etag the calculator makes of it (`OneCut`), which is why it *is* skipped. The refinement maps
every request to a stutter but the one that puts or completes the object, the end of the call and the growth of the file.

### TopSQLController

`OneSourcePerComponent` needs to know why a slot is free when a newcomer takes it. `ControllerInv`: the controller holds
the sender of exactly the slots in `running` or awaited, and has used that of the awaited one (`HeldSlots`); a component outside `components`
has nothing left of any start, one inside has at most one slot in use (`OneSlot`); outside a shutdown `components` and
`running` agree but for the component being stopped, and those missing from `latest` are still to be stopped (`Books`); what belongs to a
shutdown happens after the signal (`ShutdownOrder`). The steps of all the tasks are one lemma: a task's step changes one slot that has a task and leaves its sender alone.

### TopologyFetch

A step of the cluster only observes, a step of the call leaves the cluster alone (`ClusterMoves`, `CallLeavesCluster`). `HistoryCovers`: while
a call runs, what is up now is in `everUp` and contains `alwaysUp`, and a heartbeat is no older than the one there was at the beginning. `Found` adds that
the two halves of a server in hand, or still in the response, belong to a component that was up: heartbeats count less and less as the clock runs, so one that counts when
it is looked at counted when it was fetched. `Steady` is the converse, down to the boundary of 45 s: the beat in hand is at least as young as the one at the beginning, and that one still counts.
`Causes` follows what cannot be read in the same way, entries of other kinds included.

A call keeps its promise because the two readings of the history agree: `alwaysUp` is a part of what is up now, that a part of `everUp`,
and what has come or gone is in the second without being in the first. `CallKeepsPromise` then rests on `ReportedWasUp` and `SteadyIsReported`.

### TopSQLSource

Types, with the proxy owned exactly while connected over TLS (`Owned`); a step moves at most one proxy, so the number of live proxies moves by at most
one (`OneProxyMoves`), which is a step of `SourceLife`. `DelayFollowsFailures` rests on `CutTwice`: to double, cut, double and cut is to double twice and cut once.

`LinesFaithful` is about every response at once. `Kept` has what stands at the places kept, each at its rank (`KeptPlaces`, `KeptSet`), so the
points of a series are those of the positive counts in their order (`SeriesOfItems`). A series leaves the buffer without points and with the labels it set (`OneSeries`). By induction along `AppendAll`
(`Chain`, `RightNext`, `AllSeries`) the log then holds one event for each series with a point and no other, each with the labels of the record and its own name or instance (`Emits`).
An event with as many values as times, both not empty, becomes the line that says the same (`EventLine`), and requests are what the lines come to by endpoint (`RequestsOfLog`). What is left is that
names of metrics and instances differ, so that no two series are one line (`MetricLines`, `InstancesNamed`, `KvLinesEmitted`).
So far both sides speak of the times and counts the code has cast. `CountsApproximate` bounds what the rounding changes: at most half of the last place, which is nothing if that is 1, and
2^`FloatBits` last places are otherwise no more than twice the count. `OneDate` says that the cast of a time is its only date,
if there is one, and `LinesShow` puts the two in: the lines show the series, and by `LinesDiffer` no line shows two.
`PanicHasCause` finds the series of a panic.
That a batch waiting to be sent is what its response parses to, and that a response a source panicked on is one `parse` panics on, is the invariant (`Parsed`).

### What the proofs say together

Three places in which one module takes for granted what another models are theorems. The event loop of the sinks takes a write of
checkpoints for one step, and a call has no other outcomes (`CallsAreSteps`). The controller takes a fetch for a truthful answer, and
the fetcher gives no other, unless two members of PD share a URL (`CallKeepsPromise`). The controller starts sources in slots: each is one life of `SourceLife` (`SlotsAreSourceLives`), everything such a life may do
can happen there, panics up to their bound (`EverySourceLifeIsServed`), and a source does nothing else (`SourceLivesOnce`). The event loop's view of an upload is looser than `AtomicUpload`, because its files may be replaced
while they are read; that the uploaders' steps are steps of the loop is not stated.

### Only model-checked

Liveness, which is out of the prover's reach: `PipelineConverges`, both `UploadReturns`, `ShutdownCompletes`,
`FollowsTopology`, `Resubscribes`, the fair half of `ImplementsSourceLife`. Every invariant and every action property the runs check is
proved. Three properties are violated by the code, see Findings.

## Findings

* `read_checkpoints` ignores a failed rename of the recovered tmp file (`checkpointer.rs:57`). It remembers the state as `last`, so nothing is
  written until something changes; that write then truncates the tmp file, which is the only valid
  file, and a crash leaves none. The comment of the rename in `write_checkpoints` says there should always be one.
* An expired record goes on suppressing uploads until some upload ends, since `contains` does
  not look at the expiry and only `write_checkpoints` removes records. The option's text says
  the expiry limits that. It costs nothing but precision: `CheckpointSound` holds without the expiry.
* A file over the part limit makes the etag calculator return early without clearing `concat_md5`,
  so the memory the end of the function limits is kept, and grows with every attempt. The model also shows what it does *not* do:
  a wrong etag only ever causes an upload too many (`ImplementsAtomicUpload`).

## Plan

1. Done: all components that have a state of their own or that two parts must agree on, with the
   compositions `UploadPipeline` and, by assumption and guarantee, `TopologyFetch` and `TopSQLSource` under
   `TopSQLController`.
2. Done: the type invariants and the safety properties of every component for every value of its constants, the refinements of `AtomicUpload` by both
   uploaders, of `UploadSink` by `UploadPipeline`, of `UpComponents` by `TopologyFetch`, and the safety half of `SourceLife` by `TopSQLSource`; that
   the slots of `TopSQLController` are lives of `SourceLife`, that a write of checkpoints is a step of the sinks, and what parsers and encoder make of every response.
3. Left: that the uploads of `UploadSink`, whose files may be replaced while they are read, are those of the uploaders.

## Not modelled

Generated protobuf bindings; the option structs, `validate_tls` and the health checks, which are decided before there is any
state or are data of requests; how TLS settings, HTTP and etcd clients are built, of which only the failure
shows (`CreationFails`); the mock servers of the tests; `main.rs`, which starts vector. vector itself, its buffers,
batches, retries and acknowledgements, S3, GCS, PD and etcd appear only as what this code sees of them. The overflow of
`ttl + 45 s` in `u128` needs a number no clock reaches and is outside the model's range.
