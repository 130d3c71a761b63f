# A TLA+ model of datacrate

datacrate is a Rust workspace for data pipelines with compile-time schemas. This
directory holds TLA+ modules for the parts of it that decide something: threads,
stores, failures and crashes, but also contracts, queries, generated programs and the
comparisons its programs make; the TLC configurations that check them on small
instances; and proofs, checked by TLAPS, that the most important properties hold for
every value of the constants. Paths below are relative to the repository; `P` stands
for `crates/pipeline/src`.

1. [The system](#1-the-system)
2. [Modules](#2-modules)
3. [How modules correspond to the code](#3-how-modules-correspond-to-the-code)
4. [Runs](#4-runs)
5. [Bounds](#5-bounds)
6. [Fairness](#6-fairness)
7. [Proofs](#7-proofs)
8. [What is only model-checked](#8-what-is-only-model-checked)
9. [Where the code and its words differ](#9-where-the-code-and-its-words-differ)
10. [Assumptions about the outside](#10-assumptions-about-the-outside)
11. [What is not modelled](#11-what-is-not-modelled)
12. [Plan](#12-plan)

## 1. The system

A *bounded run* reads a CSV file in one thread, validates and batches its rows,
sends the batches through a channel to the calling thread, which transforms and
writes them to a Parquet file that is staged beside the output and then published
by a rename. A *remote run* surrounds this with an object store: it downloads the
input, runs locally, uploads the result under a staging key, copies it to the
output key, and writes a completion record that readers rely on.

A *contract pipeline* connects a source, transforms and a sink whose schemas are
types: the build compares the last output with the sink's contract under a policy, and
every batch a callback returns is validated before it goes on. Such programs can be
*generated* from a schema found in a Parquet footer, a Delta log, a dbt document or an
Erwin export. *Queries* over two small tables, an Int32 *kernel* and several *layouts*
of the same data are written in more than one way, so that the ways can be compared.

| Component | State it keeps | Operations | Talks to |
|---|---|---|---|
| Budgeted transport (`P/bounded/transport.rs`) | one mutex-protected `State` (queue, bytes admitted, peak, who is alive, cancelled), one condition variable; a reservation inside each message or lease | `send`, `recv`, `BatchLease::transform`, the drops of sender, receiver and reservation, `Control::cancel` | producer thread, writer thread, token |
| Cancellation token (`P/bounded.rs` 77–119) | an atomic flag, a registry of weak references to the controls of budgeted runs | `cancel`, `is_cancelled`, `register` | every run that holds a clone; `Control::cancel` |
| Bounded run (`P/bounded.rs`) | a chunk of rows, the channel, the writer, counters, the staged file | `run_bounded_pipeline`, `produce_batches`, `consume_batches` | transport or `sync_channel`, token, staging |
| Local staging (`P/staging.rs`) | an owned temporary file beside the output | create, write, close, synchronize, rename, synchronize the directory, drop | file system |
| Remote publication (`P/publication.rs`, tail of `P/bounded.rs`) | a staging object, the output object, the completion record, the captured identity | upload, invalidate, copy, head, complete, clean up | object store, token, local run |
| Object-store I/O (`P/object_store_io.rs`) | captured metadata and offset of a download; parts in flight of an upload | `download_to_temp`, `download_captured`, `upload_from_temp`, `write_multipart`, `download_completed_output`, single requests | object store |
| Completion manifest (`P/manifest.rs`) | a running count and fingerprint; a record | accumulate, build, encode, decode, validate | bounded run, publication, readers |
| CSV ingestion, batch contract (`P/lib.rs`, `P/batch_contract.rs`, the row parsers of `P/datafusion_query.rs`) | rows read so far, the current chunk | parse, batch, check, write and read Parquet | bounded run, builders, queries |
| Typestate builders (`crates/typestate/src/lib.rs`) | which of three stages is supplied, as types | supply, `build` | callbacks, bounded run |
| Contract policies (`crates/contracts`) | a fixed number of differences, a verdict | compare two shapes, map a shape to Arrow | contract pipeline, generated programs |
| Contract pipeline (`crates/typestate/src/contract_pipeline.rs`) | a report, a session's one table | drive a source through transforms into a sink | policies, validators, query engine |
| Batch validation (`crates/contracts/src/arrow/validation.rs`) | none: a prepared tree of checks | validate a batch | contract pipeline |
| Query engine (`P/datafusion_query.rs`, `P/ballista_app.rs`) | sessions, accumulators, a scheduler process | register, query, cap, merge, supervise | DataFusion, Ballista |
| Kernel and layouts (`P/simd_add.rs`, `P/layout.rs`, `P/ipc_mmap.rs`, comparison programs in `P/bin`) | slices, offsets, sums | add, decode, transpose, sum, compare | Arrow |
| Code generation (`crates/schema-codegen`, `crates/scaffold-cli`, the derives) | none that outlives a call | read a schema, render structs and a program | the program when it is run |
| `csv-select` (`crates/csv-cli`) | the writer's buffer | copy one column | standard output |
| Teaching crates, benchmarks, book | | | |

What is hard in it, and where:

* **Interleaving.** Four parties meet in the transport without a common order: the
  sender, the receiver, whoever returns the bytes of a reservation, and a canceller
  that empties the queue under the lock and destroys it after. `register` and
  `cancel` pass each other with the flag and the registry apart.
* **Sleeping and waking.** Sender and receiver share a condition variable, and on a
  rendezvous channel a send waits first for a waiting receiver and then for its
  message to be taken. Each path that changes the state must notify.
* **One end for many causes.** The end of the input, a bad row, a refused budget, a
  broken channel and a cancellation all end the same stream. A run must not publish
  what precedes a failure as if it were everything.
* **Failure after effect.** A rename whose directory cannot be synchronized, a copy
  or PUT whose answer is lost, an abort that fails: the result must say no more than
  is known.
* **Crashes.** A machine or process may stop between any two phases of local or
  remote publication; what a later run, or a reader, finds must make sense.
* **Replacement during a read.** Objects are read in ranges while others replace them.
* **Two ways to one answer.** A file read whole and in batches, a query in SQL and by
  the DataFrame API, a kernel by vectors and tail, a declaration written by hand and
  one generated, a verdict and the report of it: at some nesting, length or null the
  two may part.
* **Untrusted callbacks.** What a transform or a sink returns is checked each time, and
  errors and counters must belong to the batch that was really delivered.

The properties that make each component correct are the ones under
[Runs](#4-runs); `PROJECT.json` lists each hazard at its line with the properties
that catch it.

## 2. Modules

| Module | About | Built from |
|---|---|---|
| `BudgetedChannel` | What a channel promises: a sequence of messages, a charge within a budget, room, closing. The abstract specification. | |
| `ByteTransport` | `bounded/transport.rs`, one action per critical section | implements `BudgetedChannel` |
| `CancellationToken` | `CancellationToken` | |
| `BoundedPipeline` | `run_bounded_pipeline` with both threads and local publication, for each of `Configs` | composes producer, writer and staging over `BudgetedChannel` |
| `StagedOutput` | `LocalStagedOutput`, several runs, crashes | |
| `RemotePublication` | `publish`, the remote run around it, the completion reader, crashes, strangers | |
| `SnapshotDownload`, `MultipartUpload` | the two transfers | |
| `ObjectTransfers` | a run's download and then its upload | both transfers |
| `FixtureRows` | CSV records to rows and batches: both readers | |
| `CsvSelect` | `csv-select` | `FixtureRows` |
| `CompletionRecord` | what a completion record says, how it is written and decoded, what a reader asks of it | |
| `BatchContract` | the validation of a batch against the ingest schema | |
| `LocalPipeline` | the builders, the local run between two callbacks, `write_parquet`, `read_parquet` | `BatchContract` |
| `Ingestion` | a fixture on its way through all of these | `FixtureRows`, `CsvSelect`, `CompletionRecord`, `LocalPipeline` |
| `ContractPolicy` | shapes, their comparison under each policy, differences, the mapping to Arrow | |
| `ContractPipeline` | preparation and the loop over batches | |
| `BatchValidation` | what a validator reads of the arrays of a batch | |
| `GatedPipeline` | a pipeline from its declarations to its report | `ContractPolicy`, `ContractPipeline`, `BatchValidation` |
| `AmountRange` | the aggregate's accumulators and partial states | |
| `OrdersQueries` | the queries, in both forms, and the cap on their results | `AmountRange` |
| `Kernels` | the Int32 kernel and the forms its column comes in | |
| `Layouts` | rows and columns, nested lists, files | |
| `BallistaApp` | the supervision of scheduler and executor | |
| `QueryEngine` | the programs around the engine | the five above |
| `SchemaCodegen` | a schema document to the contract a generated program declares | |
| `GeneratedRun` | the generated program, run | `SchemaCodegen` |
| `Transport_proofs` | theorems and their proofs | `ByteTransport`, `CancellationToken` |
| `Publication_proofs` | theorems and their proofs | `StagedOutput`, `RemotePublication` |
| `BoundedPipeline_proofs`, `ObjectTransfers_proofs`, `GatedPipeline_proofs`, `Ingestion_proofs`, `QueryEngine_proofs` | theorems and their proofs | the module of that name |
| `NatRecursion` | what a recursive function on the natural numbers is, and a fold of a sequence, for any base and step | instantiated by the proofs |

Detail is layered. `BoundedPipeline` does not repeat mutexes and wakeups: it uses the
operations of `BudgetedChannel`, and `ByteTransport` is shown, by TLC and by proof, to
implement that module. `RemotePublication` treats an upload as one request that may
fail after it took effect; `MultipartUpload` looks inside and shows that the object
appears only as a whole. `RemotePublication` reads an output range by range and
`SnapshotDownload` looks into each range. `BoundedPipeline` says when a batch moves,
`Ingestion` what is in it. `ContractPipeline` takes for granted that the sink's
contract and the last output's have one physical schema, and `GatedPipeline` checks it
with the comparison of `ContractPolicy`; the validators that `ContractPipeline` asks are
`BatchValidation`.

Constants are given values in the `.cfg` files; sets that take more than a line are
operators of the modules whose names end in `MC`. A definition whose name says what it
does wrong (`GrownUncharged`, `TailFromNarrow`, ...) is a plausible bug of the
definition it stands beside; it is not used by the specification, and `PROJECT.json`
pairs it with the property that must catch it.

## 3. How modules correspond to the code

`PROJECT.json` maps every definition to its lines. Here is the idea of each module.

### ByteTransport

The variables of `state` are the fields of `State`. `waiting` is the set of threads
inside `Condvar::wait`: `notify_all` empties it, and a spurious wakeup may remove a
thread at any time. `senderPc` and `receiverPc` say between which critical sections a
thread is. `lease` is the `BatchLease` in the writer's hands; `dropping` and `taken`
are queues that the receiver's drop and `cancel` have taken out and not yet
destroyed, whose reservations go back one at a time.

`send` is `SendRejects` (too large; refused before locking), or `SendBegins` and then
`SendRefused`, `SendBlocks`, `SendEnqueues`, and on a rendezvous channel
`HandoffBlocks` and `HandoffEnds`. `recv` is `RecvCancelled`, `RecvMessage`,
`RecvEnd`, `RecvBlocks`. `transform` is one of four actions by how its callback and
the growth turn out. A charge is computed in words of `MaxWord`: a batch whose
columns add up to more is refused by `checked_charge` and is never wrapped.

The client is that of `bounded.rs`: one message is sent at a time; one lease is held
at a time; the receiver is dropped at the end or on an error.

`accepted`, `received`, `admitted` and the fields `id` and `base` of a message are
history. `base` is the charge of all messages before a message, so the charge of a
contiguous piece of queue is a difference and not a recursive sum, which is what
makes conservation provable.

### CancellationToken

`cancel` is `SetFlag`, `Drain` (upgrade and take the registry under its lock),
`Visit` (close one control after another, without a lock) and `Return`; a run is
`Refuse` or `Create`, `Push` and `Check` (the two halves of `register`), `Finish`.
`closed` is what `Control::cancel` does to a run; that a second call to it changes
nothing is `ByteTransport`'s business.

### BoundedPipeline

`config` is the `PipelineConfig` of the run, chosen once from `Configs`. Each record
of the CSV file is a number; a file has some good rows and then ends, has a bad row, or
cannot be opened. The producer reads rows into `chunk`, checks the flag at every row,
and sends when the chunk is full. The writer's loop is `RecvCancelled`, `RecvMessage`
or `RecvEnd`, then `CheckCancelled`, a transform, `Write`, `ReleaseLease`. `Joined` is
the order in which the two results are considered: a broken channel in the producer is
only the consequence of the writer's error. `Decide` looks at the flag once more; then
come the phases of `staging.rs`.

In budgeted mode a cancellation closes the channel (`CancelCloses`), some time after
the flag is set. In count mode it does not: a writer asleep in `recv` is woken only
because the producer sees the flag and hangs up.

### StagedOutput

`data` is what a file holds, `durable` the files whose contents were synchronized.
A rename changes the directory in memory; `possible` is the set of files the output
path could name after a crash, reset to one by synchronizing the directory. `MachineCrash`
picks one of them, and a file whose contents were not synchronized is not whole.

### RemotePublication

`phase` is the next remote operation. A failed request has taken effect or not
(`Request`). `failure` and `outcome` are the error variants with what the code
documents about each: `NotPublished`, `PublicationUnknown`,
`PublishedWithoutCompletion`, `CompletionUnknown`, cleanup failures. `Crash` ends a
run between any two requests and keeps the store. The reader (`ReadMarker`,
`ReadHead`, `ReadRange`) follows a completion record at its own pace; what the head
request told it, `captured`, is what its ranges are asked for and checked by. Whether an
object gets a version is chosen at each write of the output key (`Replaced`): a bucket may
begin and cease to keep versions. `Overwrite`, by a stranger, may come at any moment but
one, between a run's copy and its head.

### SnapshotDownload, MultipartUpload, ObjectTransfers

An object is a number and a size; a unit of the file is the object it came from and
its place. The store may know versions, ETags, or neither; a backend may ignore
the condition of a request and answer with whatever is there now, for another range or
another key, with a body that is too short, too long, or breaks off. The checks of
`download_captured` are `SizeMatches`, `IdentityMatches`, the range asked for,
`BodyTooLong` and `BodyComplete`.

In the upload, `readTo` is how much of the file was read and `filled` how much of it is
in the buffer. Reads are as short as they like. `sent` is the parts handed to
`put_part`, as ranges of the file. A part may arrive at the store at any time while its
future exists (`Arrives`) and its result is taken in any order (`Awaits`). `Fails` drops
the remaining futures, then `Abort`.

`ObjectTransfers` is a remote run's view of both: the upload begins when the download
has succeeded, and the input may be replaced all the while.

### FixtureRows, CsvSelect, CompletionRecord, Ingestion

A cell is a text that is compared as a whole, or a decimal numeral with its sign, whole
digits, point and fraction: that is what `parse_amount` looks at. `ParseRow`,
`ParseOrderRow` and `ParseShipmentRow` are the parsers field by field, so that the error
of a record is that of its first bad field. The whole reader (`rows`) and the batched
one (`chunk`, `sent`) take each record together: what one has at the end is compared
with what the other has sent.

`CsvSelect` adds the state of the `csv-select` command: the writer's buffer, which is
written out when it is full (`WriteBuffer`), when it is flushed, and when it is dropped
after an error, so that an error may follow part of the answer.

In `CompletionRecord` a row's hash is a member of a small set of words and the digest
their sum modulo `Modulus`, accumulated batch by batch. A record's text is its fields:
`Decode` refuses one that lacks a field and ignores fields it does not know, then `ManifestViolation`
takes the checks of `validate` in their order. `PutManifest` is the writer's half,
`ReaderAnswer` what `download_completed_output` asks of a record, of the key and of the
identity the store answers with.

`Ingestion` sends a fixture down one of the ways a program has for it: through the
local builder with its two callbacks, through a remote run that reads it in batches and
leaves a record, through the readers of the query tables, or through `csv-select`; or
nothing is ingested, and a reader meets a file or a record of another writer.

### BatchContract, LocalPipeline

A batch is its columns and the number of its rows; a column is what the contract looks
at (name, type, nullability, whether there are nulls, whether the array is of the usual
class). `Violation` is the first thing `validate_ingest_batch` complains of, in the
order of its loops. `LocalPipeline` has the typestate builder (`supplied` is its type
parameters: `Build` is possible in one state only), and the local run between the
transform and the sink, each of whose answers is checked. `WriteParquet` and
`ReadParquet` keep a result and read a file of any origin.

### ContractPolicy

A shape is a tree of at most `Nesting` levels. A name is a pair of its lower-case form
and its spelling, so that the two equalities of the policies differ. Where the code
recurses into a shape, an operator (`CompareShapes`, `ShapeEq`, `MapField`, `PhysicalOf`)
takes what was found for the shapes below it as its last argument, and a function of the
number of levels (`Differences`, `Same`, `Mappable`, `Physical`) ties it to itself:
its value at `n` comes from that at `n - 1`. `Record` keeps the first `MaxDiffs`
differences that the policy rejects, and `MapField` has the mapping's limit of nesting.
The reference the verdict is compared with is not about differences at all: `Values` are
the records that a declaration allows, and `Readable` those that a reader finds what it
expects in, who knows only the contract and the policy.

### ContractPipeline, BatchValidation, GatedPipeline

Declaration 0 is the source's output and declaration `k` that of transform `k`. A batch
is the input item it came from, its number of rows, and the declarations it fits: a
callback may return one that fits anything. `Prepare` maps declarations stage by stage
before the source is opened; `Receive`, `CallTransform` (or `RegisterBatch` and
`RunQuery` for a SQL transform), `CheckCounts`, `CallSink` and `Count` are one turn of
the loop. A counter that would pass `MaxCount` is an error before the sink is called.
`taken` and `delivered` are history on the sink's side of the call.

`BatchValidation` is the prepared tree of checks against arrays: representation,
validity of the slots, children, and for lists and maps the window of each row. A
sliced array's window does not begin at its first value, and a null slot may have
anything behind it; `Unreadable` is the independent statement of what a reader of the
batch would meet. Fields, arrays and nodes have at most `Levels` levels, and the check
descends through them as `ContractPolicy` does through shapes.

`GatedPipeline` is one connection from declaration to report: compared under every
policy; built when it compiles under `ExactOrdered`; run for the producers in `Run`;
its validators given batches for those in `Arrivals`.

### AmountRange, OrdersQueries, Kernels, Layouts, BallistaApp, QueryEngine

An accumulator of `AmountRange` reads rows, gives up its partial state and takes in
others', in any grouping. Its state carries, as history, the rows it stands for.

`OrdersQueries` has each query twice, as the SQL text and as the chain of DataFrame
calls, over tables in batches. The engine is external: what a query does not order
comes in any order. `Optimize` applies the row-cap rule (`Guard`) to a plan up to
`MaxPasses` times, as the engine may. `Repartition` is the table of one batch written in
two halves.

In `Kernels` integers have `Width` bits and wrap; `AddVector` and `AddTail` write a
vector and an element of the output slice. A column comes as an array with an offset and
nulls, as the argument of the query function, in an encoding, in rows, or from an IPC
file. `Codes` are the implementations that the comparison programs time, and
`KernelsAgree` is what those programs compare. `Layouts` is the same for transpositions,
nested lists, row and column orientation, and file formats.

`BallistaApp` has `run`'s `select!` as two actions (`TakeExecutor`, `WatchScheduler`)
with the poll's timer, then kill and wait. `autoReaped` says that the program was started
with SIGCHLD ignored, so that asking for an ended child is an error. `Unwind` is a panic
in the executor, or a caller that drops the future: the scheduler is left running, and
the properties speak of runs that return.

The programs share no state: a behaviour of `QueryEngine` is one program's.

### SchemaCodegen, GeneratedRun

`SchemaCodegen` is the command from its arguments to the text it writes: reading a
schema (footer, Delta log, dbt or Erwin document), rendering each struct with the name
made of its path, and the transform and the locations. `program` is the rendered
program as a value. `MapField` and `StructFields` read it back as the derive and
`arrow::schema` do, and `GeneratedDeclaresTheFieldsRead` compares that with the schema that
was read from the document: everything must be there, except for what a contract has no
words for (the name of a list's item, the width of offsets) and for what the renderer
leaves out though a contract could say it, that the items of a list may be null (`DeclaredFor`,
[§9](#9-where-the-code-and-its-words-differ)).
`GeneratedRun` compiles and runs it: `Collect` cuts the source into batches, `Deliver`
transforms and writes one, `TransformFails` and `Report` end the run. Both recurse over
types.

## 4. Runs

| Run | Module, configuration | Properties |
|---|---|---|
| `transport_buffered` | `ByteTransport`, `ByteTransport_buffered.cfg` | `AccountIsExact`, `AnswersAreTrue`, `ImplementsChannel`, `EverythingReturns` |
| `transport_rendezvous` | `ByteTransport`, `ByteTransport_rendezvous.cfg` | `NoOneStuck`, `AnswersAreTrue`, `EverythingReturns` |
| `token` | `CancellationToken`, `CancellationToken.cfg` | `NoRunMissed`, `RegistryServesRuns` |
| `pipeline` | `BoundedPipelineMC`, `BoundedPipeline.cfg` | `ResultIsTrue`, `WorkIsBounded`, `Terminates` |
| `staging` | `StagedOutput`, `StagedOutput.cfg` | `SurvivesCrashes`, `StagingResultIsTrue` |
| `remote` | `RemotePublication`, `RemotePublication.cfg` | `RecordIsTrue`, `ReadIsWhatWasCompleted`, `ResultIsTrue` |
| `transfers` | `ObjectTransfers`, `ObjectTransfers.cfg` | `SnapshotIsWhole`, `ResultIsTrue`, `BuffersBounded` |
| `contract` | `GatedPipelineMC`, `GatedPipeline.cfg` | `VerdictIsReadability`, `PoliciesNest`, `RefusalNamesAField`, `SinkNeedsNoCheckOfItsOwn`, `SinkAndReportAgree`, `ValidatorReadsWhatIsVisible`, `ErrorLocatesTheFailure` |
| `ingestion` | `IngestionMC`, `Ingestion.cfg` | `EveryReaderIsTrue`, `AmountsAreExact`, `FingerprintIsOfTheMultiset`, `RecordServesReaders`, `OnlyContractBatchesPass` |
| `queries` | `QueryEngineMC`, `QueryEngine.cfg` | `QueriesAgree`, `CapIsAPrefix`, `RangeIsOfTheWholeGroup`, `EveryPathAgrees`, `NoChildLeftBehind`, `AppReturns` |
| `codegen` | `GeneratedRunMC`, `SchemaCodegen.cfg` | `GeneratedDeclaresTheFieldsRead`, `BatchesAreTransformedAsAsked` |
| `generated` | `GeneratedRunMC`, `GeneratedRun.cfg` | `ResultIsOfTheWholeSource`, which is **violated** ([§9](#9-where-the-code-and-its-words-differ)) |

Several properties are conjunctions of named parts:

| Property | Parts |
|---|---|
| `AccountIsExact` | `TypeOK`, `Conservation`, `WithinBudget`, `LeaseCoversBatch` |
| `AnswersAreTrue` | `EndMeansAllReceived`, `AckMeansReceived` |
| `NoOneStuck` | `NoLostWakeup`, `NoMutualWait` |
| `EverythingReturns` | `SendReturns`, `RecvReturns`, `EventuallyReleased` |
| `RegistryServesRuns` | `RegistryPruned`, `EveryRunHears` |
| `ResultIsTrue` of `BoundedPipeline` | `PublishedIsComplete`, `OutcomeTellsVisibility`, `CancelledIsTrue`, `ReportsNothingAdmitted` |
| `WorkIsBounded` | `TypeOK`, `MemoryBounded`, `StopsWriting` |
| `SurvivesCrashes` | `OutputIsWhole`, `PublishedIsDurable` |
| `StagingResultIsTrue` | `StagingOutcomeIsTrue`, `OwnStagedFile` |
| `ResultIsTrue` of `RemotePublication` | `OutcomeIsTrue`, `StagingOwned` |
| `RecordIsTrue` | `RecordDescribesRun`, `RecordIsCurrent` |
| `ResultIsTrue` of `MultipartUpload` | `ObjectIsFile`, `OutcomeIsTrue` |
| `SinkAndReportAgree` | `ReportIsWhatTheSinkTook`, `DeliveredInOrder` |
| `EveryReaderIsTrue` | `StreamIsTheWholeRead`, `SelectionIsTheColumn` |
| `RecordServesReaders` | `PublishedCanBeRead`, `ReadIsIdentified` |
| `EveryPathAgrees` | `KernelsAgree`, `LayoutsAgree` |

What they show:

* **Transport.** Every admitted byte has exactly one owner (queue, lease, a queue
  being destroyed) and all of them together are within the limit, whatever is
  cancelled, dropped or refused in between. A thread that sleeps has nothing to do, the
  two sides never sleep at once, every `send` and `recv` returns, and in the end
  nothing is admitted. A rendezvous send is acknowledged only when its message was
  taken. The end of the stream is reported only when everything was received. Each
  critical section is one operation of `BudgetedChannel`, or none.
* **Token.** When a `cancel()` has returned, no live run of the token is open that no
  other `cancel()` still holds. (While one canceller walks over the controls it took,
  a second `cancel()` may already have returned: the runs are closed by the first.)
  The registry keeps only live entries when a run registers, and every run hears.
* **Pipeline.** Only a complete output appears at the output path, and the result
  tells whether it does. A run is called cancelled only if it was. At most
  `Capacity + 2` batches are alive, whatever the input's size; after a cancellation at
  most the batch in hand is written; a successful run reports no bytes left admitted;
  every run returns.
* **Staging.** The output is whole at every moment and after a crash; what was
  reported as published survives; an error tells whether the output was replaced.
* **Remote.** A completion record names a run whose rows and bytes it describes, and
  no run leaves a new output under the record of an old one. What a reader gets is the
  one output that was completed, never a mixture. Error variants are true.
* **Transfers.** The file is the beginning of one object, all of it on
  success. An object appears only as the whole file, built from full parts except the
  last; buffers do not depend on the file; `Ok` and errors tell what is in the store.
* **Contract.** A connection compiles under a policy exactly when every value of the
  one shape can be read as the other in the policy's sense; a stricter policy accepts no
  more; a refusal names a field that exists; the sink's physical schema is the last
  output's, so that it needs no validation of its own. What the sink took, the report
  and the index in an error agree whichever step fails, also between the sink's answer
  and the count. A validator passes exactly the batches whose visible values are as
  declared, through slices, nulls and windows.
* **Ingestion.** Reading in batches is reading whole; an amount is exactly the
  numeral's or an error; what a run records is the multiset of the rows it wrote,
  however batched; every record a run publishes can be read, and only a record with an
  identity is; only batches of the contract get past a callback. `csv-select`
  succeeds only after all of its column, and an error leaves a beginning of it.
* **Queries.** Both forms of each query answer alike up to what its order leaves open;
  the cap returns a beginning of what the query alone returns, also with a LIMIT and
  an OFFSET of its own and after several passes; the range is that of the whole group;
  all implementations of a kernel and all layouts agree; the Ballista application
  returns, and kills and reaps its scheduler whichever of the two ended.
* **Codegen.** A generated program that compiles declares, at every depth, the fields that
  were read, with their names, types and nullability; it does not keep whether the items
  of a list may be null, and declares them all non-null. A document is refused only for a
  field that cannot be said. A run that ends well has made of each batch what the command
  line asks for.

Deadlock is checked where threads, stores or readers may wait for one another
(transport, token, pipeline, staging, remote, transfers): where a run of the
program is over, these specifications have an explicit step that changes nothing,
guarded by all threads having finished. The other five configurations turn it off,
because a sequential program stops at its end: `GatedPipeline.cfg`, `Ingestion.cfg`,
`QueryEngine.cfg`, `SchemaCodegen.cfg`, `GeneratedRun.cfg`.

## 5. Bounds

Parameters of the code are constants with small values; true bounds (there is no such
number in the code) are named in the module that uses them: `MaxSends`, `maxRows` of a
configuration, `MaxRuns`, `MaxStrange`, `MaxObjects`, `MaxSize`, `Slots`, `Items`,
`MaxRows`, `MaxItems`, `MaxPasses`, `MaxFile`, `Run`, `Arrivals`, `Batches`, `Executed`,
`Cells`, and the sets of inputs in the MC modules.

* **Transport.** Three sends fill a channel of two and leave one waiting; the sizes
  (1, 2, 4, 5) are below, at, and above the limit of 3, and 5 does not fit the word.
* **Token.** Two registrations can pass one cancellation; two cancellers can pass each
  other, and the third run prunes what the first left.
* **Pipeline.** Five configurations: budgeted with capacity 1, 2 and 0, counted with
  capacity 2 and 1. Each input is as many batches as fill the channel and both hands,
  one more, and a rest: nine rows in batches of two, ten in batches of three. The
  charges are below, at and above the limits.
* **Staging, remote.** A third run is what it takes for the second one to leave
  something behind that is then found; two contents (`Variety`) for three runs make
  equal bytes come back, which an ETag cannot tell apart; a stranger overwrites once,
  during a run or between two (`MaxStrange`); two `Ranges` are the least that can be mixed.
* **Transfers.** Five units in ranges of two have a short last range, four do not, none
  needs no range. Three objects are the captured one and two replacements. Nine units
  in parts of two fill the two buffers twice and end in a short part.
* **Contract.** Two fields over three names, two of which differ by case, reach every
  branch of matching by name and by index; `MaxDiffs`, `MaxPathDepth` and `MaxDepth` are
  small enough that shapes of three levels and three differences pass them. `Nesting` 6
  is the deepest declaration that is compared, `Levels` 12 the depth its physical fields can
  have, as a map is two of them; neither cuts anything off. A list or a map of up to two
  items (`MaxItems`) tells a reader that looks at each from one that looks at the first. Two
  transforms, one of them SQL, are the least with a stage in the middle; `MaxCount` is
  reached by two batches or two rows. Two slots and two items make all windows:
  empty, shared, reversed, beyond the values.
* **Ingestion.** Up to four records in batches of two end in, at and after a full batch.
  One of the output keys is blank: its identity is usable, and its record is refused by the
  writer's own validation, which is the one such failure.
  Every numeral of up to three digits on either side is tried against a limit of four
  digits. A modulus of 8 makes hashes of 5 and 6 wrap, and the sets of hashes have zero
  and equal ones. Foreign records are all combinations of the identity fields, one field
  missing, one too many.
* **Queries.** Up to three orders in two batches with equal keys, nulls, no, one and two
  shipments. A cap is zero, one, or none, against every combination of limit and offset.
  Lengths of columns are below, at and above one and two vectors of both widths; `Width`
  6 makes sums overflow. Three rows and two accumulators split and merge every way.
  Decoder batches end within a row group and with it.
* **Codegen, generated.** Types nest three deep, so that each kind is within each other
  kind, and a struct's name is made of two parts; `MaxFile` 3 rows are cut into up to
  three batches.

## 6. Fairness

Liveness is checked under weak fairness of each party's next step, which the code
justifies as follows. Threads are scheduled by the operating system, critical sections
are short and contain no calls out, and the mutex is granted to each thread that keeps
asking: no step depends on another thread standing still. Callbacks, reads and writes
return (they may fail). `consume_batches` drops its receiver on all paths, so a
receiver either goes on receiving or leaves; the fairness of `ReceiverStep` and
`RunStep` says that.

Nothing is assumed of the canceller except that destroying a queue it has taken ends
(`CancelDropsQueued`). In particular, the time between setting the flag and closing the
channel of a run may be unbounded in `BoundedPipeline`, and `Terminates` holds
nevertheless. Spurious wakeups are possible and never needed. In `CancellationToken` a
call in `register` and a call in `cancel` go on; a run need not finish.

`AppFairness` of `BallistaApp` says that a killed child ends, that a timer fires, and
that a task that is ready is polled. The scheduler and the executor owe nothing: either
may run for ever, and `AppReturns` promises that `run` returns once one of them has
ended.

All other modules state safety only: how long a request takes is the store's business
and there is no retry, and a sequential program's steps are not in doubt.

## 7. Proofs

All theorems hold for every value of the constants that satisfies the named
assumptions (capacities are natural numbers, the limit is positive and fits a word,
parts and ranges have at least one unit, and so on; section 10 lists those about data). Each follows one pattern: an
inductive invariant, shown of the initial states and preserved by each action, one
lemma or step per action, and the property from the invariant.

* **`Transport_proofs`.** Of the transport, `IInv` adds to the properties what a lease holds
  (`HoldsLease`), where each thread can be (`Phases`), that only a closed channel has
  had its queue taken (`Taken`), that queued messages are linked by their history
  (`Links`: each begins at the charge at which the one before it ends, so the charge of a
  queue is `Span`, a difference of two ends), and how they are numbered (`Numbering`).
  Without `Links` conservation is not inductive: nothing would relate the reservations in
  a queue to the counter. Theorems: `TypeCorrect` (no counter goes below zero),
  `AccountExact`, `Backpressure` (`CapacityRespected` and `AheadByCapacity`: what `send` has
  returned `Ok` for is at most the capacity ahead of what was received, at a rendezvous not
  at all),
  `NothingHidden`, `DeadlockFree`, `Ordered`, and `Refinement`:
  `Spec => ImplementsChannel`, step by step. Of the token, `Registered`: before the flag
  is set every open run is in the registry. Theorems `CancellationReaches` and `RegistrationPrunes`, for any
  number of runs and cancellers.
* **`BoundedPipeline_proofs`.** For every configuration, input and set of charges. The
  argument is about where the rows are: those written (`Handed` with those in the
  writer's hands), those in the channel (`InFlight`: there are cuts such that each
  message is the rows from one cut to the next), those being sent and those in the chunk
  are the input up to the reader's next row, one after the other (`Flow`, `Ends`). Cuts
  instead of a concatenation need no recursion, and taking the first message or adding
  one moves one cut; `ChargedFor` says the same of the charges. `Flow` holds unless the
  run is cancelled (a closed channel loses messages) or a batch was refused, and
  `Closing`, `FailureSent` and `Settled` see to it that then nothing is published: a
  faulty input's last message is its error (`FailureSent`), and a writer that has seen
  the end of the stream of a successful producer has written the whole input
  (`Settled`). `Threads`, `Hands` and `Producing` say where the two threads can be,
  `Published` what the end of a run has done, `Waiting` and `LastBatch` make
  `MemoryBounded` and `StopsWriting` inductive. Theorems `RunIsTrue` and `RunIsBounded`.
* **`Publication_proofs`.** Of a local publication, `Contents` says that what a crash could leave at the path
  is synchronized, `Places` where each run's file is, `Durability` that no file in
  `possible` is older than one reported durable. Theorems `CrashSafe` and
  `OutcomesAreTrue`, for any set of runs. Of a remote one, `Versioned` and `Recorded` say that a record is that
  of an object that existed, `Phases` what the store looks like at each phase, `Failing`
  what a primary error already implies while the run cleans up, `Staging` whose the
  staging objects are, `Reading` that all bytes received so far are one run's. Theorems
  `CompletionIsSound`, `ReadersGetOneOutput`, `ReportIsTrue`.
* **`ObjectTransfers_proofs`.** `DownloadProgress` relates the length of the file to the
  offset and to what was received of the range. `UploadChain` says that the parts handed
  over are the file up to what is in the buffer, and that all are full while the loop goes
  on; `UploadPhases` that each part handed over is in flight or stored until the transfer
  fails, so that at completion the stored parts are all of them. Theorems
  `DownloadIsSnapshot`, `UploadIsWhole`, and `TransfersAreWhole` for one after the other.
* **`GatedPipeline_proofs`.** For any declarations, however deep and wide, any number of
  transforms, any source, any batches and any failures. There are four parts.

  The run: `Mapping` and `Position` say where preparation and the loop are, `Checks` that
  the batch in hand fits the declaration it was validated against, `Counters` relates the
  sink's history to the report, with the one batch between them while it is being counted,
  `InOrder` and `Course` the order of delivery and the error. Theorems
  `DeliveryIsReported` and `FailureIsNamed`.

  The comparison: `ShapesFit` says when two shapes fit under a policy, by the pairs of
  shapes below them that do. `VerdictByLevel` is the step from the traversal to it, under
  every policy that rejects anything: the differences found are refused exactly when the
  shapes do not fit, and each of them is below the path it was looked for at
  (`ComparesBelow`). `ValuesBelow` is the step from the relation to values: two shapes
  fit exactly when all values of the one are among those a reader of the other accepts. It
  needs that every declaration has a value, and for structs that by-name matching of
  distinct names is the matching of entries (`FitByName`). Then the policies are compared as
  relations (`StepNests`, `StepExchanges`), and shapes that fit under `ExactOrdered` have the
  same mapping and the same physical type. `GateInv` carries all that to the connection:
  theorems `AcceptedIsReadable`, `PoliciesAreNested`, `RefusalIsNamed`, `SinkIsCovered`.

  The validator: at each level of fields and arrays, what it meets at the slots of a view
  are the very things that a reader of the view can reach (`MeetsAndSees`), with a path of
  nodes on one side and of fields on the other, and windows of a child's slots for lists and
  maps; and names, nullability and types match exactly when the two fields, stripped of
  the rest, are equal. `PhysicalFits` brings the fields of a mapped declaration within the
  levels the validator descends (`2 * Nesting <= Levels`), and `ArrivalInv` says which
  validator a batch has arrived at. Theorem `ValidatorSeesAll`.

  The whole: each step of the gated pipeline is one of `ContractPipeline` or leaves it
  alone (`GatedIsAPipeline`), so that what holds of the run holds behind the gate
  (`GatedRunIsReported`).
* **`Ingestion_proofs`.** For any files, batch size, keys, metadata and hashes, and any
  answers of the callbacks. There is one invariant for each way a fixture can go.
  `StreamInv`: the whole reader has the values of the records up to `at`, all of which
  parsed, and the batched reader has sent all but the chunk it is filling; when either
  stops, it is for the record at `at` (`ReadersAreTrue`; the half about `csv-select` is
  `SelectInv`: what is on the standard output and in the buffer is the column up to
  `line`, and after an error a beginning of it). `AmountsAreKept` is about the parser alone:
  `AmountIsExact` compares what the scaling computes with the number the digits write.
  `ContractInv` says of each phase of the local builder which batches have passed the
  contract; that what is stored or returned meets it follows for any two callbacks
  (`ContractIsKept`). `RecordInv` follows a record from the identity that was captured to
  what a reader makes of it (`RecordsServe`). `RunInv` has the running digest as the total
  over the rows written, modulo `Modulus`, and the rows written as those of the batches
  taken; with `StreamInv` they are the file's (`FingerprintIsKept`). That the sum does not
  depend on the order, nor on where the batches are cut, is `TotalOfOneMore`: one row more
  changes how often one row occurs, and with it one summand.
* **`QueryEngine_proofs`.** `RangeInv`: each accumulator's state, also of none, of
  one whose rows were all null, or of a merged one, describes the rows it stands for, and
  merging is union; `RangeIsRight` for the aggregate by itself, `RangeOfTheTable` in a
  session of queries. `KernelInv`: what the kernel has written is the sum, element by
  element and in place, and `at` is a multiple of the lanes until the tail begins, for
  every length, width and constant (`EachElementOnce`). `KernelTrue` adds that no program
  has found a mismatch and that a refused column has no values to give; it rests on a
  lemma for each form a column comes in, that what is decoded from it is what a reader of
  the form would see (`FormsAgree`): theorem `FormsAreOne`. `SessionInv`: after a pass over the plan, `plan` lets through
  the first `cap` rows of what `own`, the query's limits, would, whatever the rows are
  (`Planned`). The invariant speaks of all rows because the plan is rewritten before the
  query has an answer. Applying the cap twice is applying it once (`CapOfCap`), and what
  the engine may do to two limits in between does not change what they let through
  (`TwoCuts`, `RewritingKeeps`): theorem `CapIsKept`. `AppInv` says how far the scheduler
  is at each place `run` can be in; theorem `ChildIsWaitedFor`.

  `LayoutInv` says what a comparison of layouts holds in each of its states. On the way to
  rows and back it is the batch, its values in the order of the rows, or those
  transformed, and an index leads back to its row and column (`IndexOfRow`,
  `ThereAndBack`). Of a list, there is a number `b` of elements per level of which
  the builders have exactly the first ones: `b` of a level is where the offsets of the level
  above end (`Reached`), a row moves it to the end of the windows under that row
  (`RowIsReached`, `RowIsAppended`), and at the last row it is the whole list
  (`AllIsBuilt`). That the generated offsets do end where the next level and the leaves end
  is `ListsFit` and `WrappersFit`. A filtered sum is the sum of what each value adds,
  whether rows, columns, or pieces of them are added up (`RowsIsASum`, `ColumnarOfFlatten`),
  and the pieces a decoder yields are the column (`PiecesAreWhole`). With `FormsAreOne`
  this is all of `EveryPathAgrees`: theorem `PathsAreOne`.

A fold or a recursive function is `CHOOSE` of something that satisfies an equation, and says
nothing until that is known to exist. `FoldExists`, `SumExists` and `RecursionExists` build
it, `NatSetInduction` and `SetInduction` (over a set, as the provers cannot instantiate an
operator) go through it, and from then on proofs use the equation. `NatRecursion` does this
once for functions of a level: a module's function is `Recursive` of an instance of it, with
the function's step for `Step`, and `Unfolds` is its equation; `FoldTakesTheLast` is that of
the library's `FoldLeft`, and `FlattenUnfolds` that of its `FlattenSeq`.

`CapacityRespected`, `AheadByCapacity`, `InOrder` and the invariants' parts that no configuration names are
proved and have no run of their own.

## 8. What is only model-checked

* Liveness (`EverythingReturns`, `EveryRunHears`, `Terminates`, `AppReturns`): the proof
  system has no rule for fairness and `ENABLED`.
* What the generated program declares and does (`GeneratedDeclaresTheFieldsRead`,
  `BatchesAreTransformedAsAsked`). `SchemaCodegen` and `GeneratedRun` read texts and
  documents by recursive operators, of which the provers know nothing; these modules carry
  no theorems.
* `QueriesAgree`: that the two forms of a query select, join, sort and sum alike depends
  on the library's `SelectSeq`, of which the provers have no facts, and on sorting by
  enumeration of the orders.

## 9. Where the code and its words differ

One difference is a run, `generated`. The README (lines 220–225) says of the program
that `pipeline` renders that it "filters and aggregates it, and writes the result to
another", and the book (`book/src/contracts.md:474`) that it computes the "total
quantity shipped" per region. The program (`crates/schema-codegen/src/pipeline_template.rs:207`)
gives each collected batch to the transform by itself and each result to a sink that
writes the one path of `--sink-parquet`. On a source that is collected into two
batches, the file ends up with the groups of the last one. TLC shows it on a source of
a few rows.

Others were met in passing; the models follow the code.

* `crates/contracts/src/lib.rs:221`: shapes that are not structs are said to be compared
  for exact equality whatever the policy; `Full` rejects no difference of theirs
  either (430).
* `P/lib.rs:516`: `read_parquet` checks the schema of every batch, so a file with no
  batches passes whatever its schema (534).
* `P/datafusion_query.rs:394`: the documentation's `CAST(x / y AS BIGINT)` truncates
  towards zero; the code floors (444), which differs for dates before 1970.
* `crates/schema-codegen/src/lib.rs:70`: `RenderStruct` is said to be a bug and never a
  problem of the input; a field whose name is a keyword passes the check of names (284)
  and ends in it.
* `crates/schema-codegen/src/lib.rs:365`: nested structs are said to be separately named;
  the concatenation of their path (334) can give two of them one name, and then the
  generated program does not compile.
* `crates/schema-codegen/src/lib.rs:363`: the struct is said to match the schema; a list is
  rendered as `Vec<T>` whether or not its items may be null (317–322). A derived
  `Vec<Option<T>>` would declare nullable items (`crates/contracts/src/arrow.rs:136`), and the
  readers mostly yield such: `array<...>` in a dbt or Erwin document always does
  (`crates/schema-codegen/src/text_types.rs:73`), a Parquet footer unless it says otherwise. The
  contract of the program then leaves out data that its source's schema allows.
* `crates/schema-codegen/src/pipeline_template.rs:61`: without a target no transform
  stage is said to be emitted; one that was asked for is rendered all the same (242).
* `crates/schema-codegen/src/text_types.rs:65`: a precision is said to be ignored; inside
  `struct<...>` its comma is taken for one between fields (77).
* `P/ballista_app.rs:58`: an error is promised if the scheduler exits first; within the
  200 milliseconds of a poll the executor's `Ok` wins.

## 10. Assumptions about the outside

* A panic in a callback or a thread is treated like its failure; unwinding drops what
  a failure drops. The exception is `BallistaApp`, where it leaves the scheduler behind.
* A mutex is poisoned only by a panic inside a critical section, and there is no code
  in one that panics.
* In `BoundedPipeline` transformed rows keep their identity; a transform may change the
  size of a batch, and may fail. `batch_from_rows` cannot fail on rows that were parsed.
* The file system: a rename is atomic, its order with other renames is kept, and
  after `sync_all` of the directory it survives. The contents of a file survive after
  `sync_all` of the file. A mapped file does not change while it is mapped.
* The store: a request that returned an error has taken effect by then or never will;
  a part whose future was dropped has no effect afterwards; aborting a completed
  upload does not remove the object; the ETag of an object is determined by its bytes;
  versions are never reused; a conditional read either honours its condition or is caught
  by the check of the response.
* Runs that publish to one output key do not overlap, as the documentation of
  `publication.rs` demands. A stranger's overwrite, which the same documentation excludes, is
  excluded only where it would do harm to the record: between the copy and the head that
  captures the output's identity (`P/publication.rs:145–149`). Without that guard of `Overwrite`,
  `RecordIsTrue` fails: the record names the stranger's object as the run's. A process that
  dies in the middle of an upload leaves an incomplete multipart upload to the bucket's
  expiry rules.
* Arrow, DataFusion, Parquet and the csv crate do what the code expects of them:
  selection, join, grouping, sorting and merging of partial states without reading a row
  twice; decoders that return the rows in order, in batches of their own size; a csv
  writer that, once a write has failed, writes nothing more.
* What the theorems assume of data is what the types of the code say. A file is records of
  cells under a header or without records (`FilesAssumption`: a csv reader yields no record
  without one), a column's number is an unsigned argument (`ColumnsAssumption`), batches and
  files are sequences of columns (`BatchesAssumption`), the rows that are hashed are those
  the parser yields (`RowsAssumption`), a hash is a word (`HashAssumption`), rows
  of the tables have the non-null columns of `orders_schema` and `shipments_schema`
  (`TablesAssumption`), declarations are trees (`ShapesAssumption`), a batch has a column for
  each field, all of as many rows, whose lists and maps have windows in their children
  (`BatchesAssumption` of `BatchValidation`; what a nested array holds is not trusted), the limits of messages and lists
  are at least one (`BoundsAssumption`), a list that is generated has at least one element
  and a decoder's batch at least one row (`LayoutAssumption`), a limit and an offset are not
  negative, and neither is a cap, which
  `MaxRowsGuardrail::new` refuses otherwise (`LimitsAssumption`). That a run's id is in no
  record of another writer (`ForeignAssumption`) rests on the 24 random characters of the
  directory it is named after (`publication.rs:92`).
* `LiteralsAssumption` is about the logic only: the names and markers that `ContractPolicy`
  writes as literals are strings.
* Sources that are run in `GeneratedRun` have no two columns that differ only by case.

## 11. What is not modelled

* Encodings (Parquet, CSV quoting, JSON, Arrow IPC) and digests of contents: data. Text
  is modelled as far as a decision looks at it.
* Wording of messages, logging, timing and measurements.
* `publish_staged_object`, which the protocol of `publication.rs` replaced, and the guard
  of `block_on` against a nested runtime.
* Physical plans, partitioned execution and the shuffles of the distributed engine, and
  the Flight hand-off: they belong to DataFusion, Ballista and Arrow.
* The `schema` command of the scaffold and the template of a new project: they write text
  and decide nothing.
* What the compiler decides of derives: attributes, generics, and the programs that must
  not compile. The meaning of a derived declaration is in `ContractPolicy`.
* Benchmarks and the drivers that print them, the Scala oracle, the teaching crates, and
  the book.

## 12. Plan

Done: the modules and proofs above. What would come next, in this order:

1. `QueriesAgree`, with filters and sums whose equations are proved as those of `Layouts`
   are.
2. `SchemaCodegen` by functions of a level, as `ContractPolicy` is, so that
   `GeneratedDeclaresTheFieldsRead` can be proved for documents of any depth.
3. `RemotePublication` as an implementation of an atomic completion: a reader sees the
   old output, nothing, or the new one.
4. `publish_staged_object` beside the protocol that replaced it, should it come back into
   use.
