-------------------------- MODULE ContractPipeline --------------------------
(***************************************************************************)
(* The streaming composition of crates/typestate/src/contract_pipeline.rs: *)
(* a source, transforms 1..N and a sink, prepared before any input is read *)
(* and then run one batch at a time.                                       *)
(*                                                                         *)
(* Declaration 0 is the source's output and declaration k transform k's;   *)
(* the sink's is N again, which the compile-time ExactOrdered check makes  *)
(* the same physical schema (ContractPolicy).  A batch is the input item   *)
(* it was made from, its rows and the declarations it satisfies.  Every    *)
(* callback may fail, and may return a batch that satisfies anything.      *)
(***************************************************************************)
EXTENDS Integers, Sequences

CONSTANTS
    N,         \* how many transforms
    Sql,       \* the transforms that run a query on the shared context
    MaxCount,  \* usize::MAX
    MaxRows    \* the rows a batch may have

ASSUME NAssumption == N \in Nat
ASSUME SqlAssumption == Sql \subseteq 1..N
ASSUME CountAssumption == MaxCount \in Nat
ASSUME RowsAssumption == MaxRows \in Nat

VARIABLES
    phase,      \* where build and run are
    mappable,   \* the declarations with an Arrow representation
    step,       \* the stage being prepared, or the transform about to run
    received,   \* input items taken from the source's iterator
    batch,      \* the batch in hand
    table,      \* what the shared context has under the name "batch"
    next,       \* the counters checked before the sink is called
    report,     \* the ContractRunReport so far
    taken,      \* what the sink has accepted, as the sink would count it
    delivered,  \* the batches the sink has accepted
    error       \* the ContractPipelineError returned

vars == <<phase, mappable, step, received, batch, table, next, report, taken,
          delivered, error>>

-----------------------------------------------------------------------------

Batch == [origin : Nat, rows : 0..MaxRows, fits : SUBSET (0..N)]
NoBatch == [origin |-> 0, rows |-> 0, fits |-> {}]
Counts == [batches : Nat, rows : Nat]
Zero == [batches |-> 0, rows |-> 0]

(* Stage: the source's factory, its output, transforms 1..N, the sink. *)
SourceFactory == -1
Source == 0
Sink == N + 1
NoError == [stage |-> SourceFactory, index |-> -1, failure |-> "none"]

(* BatchValidator::validate against declaration d. *)
Validates(d, b) == d \in b.fits

Fail(stage, index, failure) ==
    /\ phase' = "failed"
    /\ error' = [stage |-> stage, index |-> index, failure |-> failure]

CheckedFromOne(k, b) ==
    /\ batch' = b
    /\ IF Validates(k, b)
       THEN phase' = "stepping" /\ step' = k + 1 /\ UNCHANGED error
       ELSE Fail(k, report.batches + 1, "Validation") /\ UNCHANGED step

(* A result in hand for transform k, or for the source if k is 0. *)
Checked(k, b) ==
    /\ batch' = b
    /\ IF Validates(k, b)
       THEN phase' = "stepping" /\ step' = k + 1 /\ UNCHANGED error
       ELSE Fail(k, report.batches, "Validation") /\ UNCHANGED step

-----------------------------------------------------------------------------

(* The context is the caller's: an earlier run may have left its table. *)
Init ==
    /\ phase = "preparing"
    /\ mappable \in SUBSET (0..N)
    /\ step = Source
    /\ received = 0
    /\ batch = NoBatch
    /\ table \in {<<>>, <<NoBatch>>}
    /\ next = Zero /\ report = Zero /\ taken = Zero
    /\ delivered = <<>>
    /\ error = NoError

Declaration(stage) == IF stage = Sink THEN N ELSE stage

(* build: one stage's declaration is mapped, in order. *)
Prepare ==
    /\ phase = "preparing"
    /\ IF Declaration(step) \in mappable
       THEN /\ phase' = IF step = Sink THEN "built" ELSE "preparing"
            /\ step' = IF step = Sink THEN Source ELSE step + 1
            /\ UNCHANGED error
       ELSE Fail(step, -1, "Mapping") /\ UNCHANGED step
    /\ UNCHANGED <<mappable, received, batch, table, next, report, taken, delivered>>

Open ==
    /\ phase = "built"
    /\ \/ phase' = "reading" /\ UNCHANGED error
       \/ Fail(SourceFactory, -1, "Callback")
    /\ UNCHANGED <<mappable, step, received, batch, table, next, report, taken, delivered>>

(* The iterator ends. *)
Finish ==
    /\ phase = "reading"
    /\ phase' = "done"
    /\ UNCHANGED <<mappable, step, received, batch, table, next, report, taken,
                   delivered, error>>

(* The iterator yields an error, or a batch the source's validator checks. *)
Receive ==
    /\ phase = "reading"
    /\ received' = received + 1
    /\ \/ Fail(Source, report.batches, "Callback") /\ UNCHANGED <<step, batch>>
       \/ \E b \in [origin : {received + 1}, rows : 0..MaxRows, fits : SUBSET (0..N)] :
             Checked(Source, b)
    /\ UNCHANGED <<mappable, table, next, report, taken, delivered>>

(* A Rust closure: any rows, any schema, made from the batch it was given. *)
CallTransform ==
    /\ phase = "stepping" /\ step \in (1..N) \ Sql
    /\ \/ Fail(step, report.batches, "Callback") /\ UNCHANGED <<step, batch>>
       \/ \E b \in [origin : {batch.origin}, rows : 0..MaxRows, fits : SUBSET (0..N)] :
             Checked(step, b)
    /\ UNCHANGED <<mappable, received, table, next, report, taken, delivered>>

(* run_via_dataframe up to the query: the old table is dropped and the     *)
(* batch put in its place; each call may fail.                             *)
RegisterBatch ==
    /\ phase = "stepping" /\ step \in Sql
    /\ \/ Fail(step, report.batches, "Callback") /\ UNCHANGED table
       \/ Fail(step, report.batches, "Callback") /\ table' = <<>>
       \/ phase' = "querying" /\ table' = <<batch>> /\ UNCHANGED error
    /\ UNCHANGED <<mappable, step, received, batch, next, report, taken, delivered>>

(* The query reads the table, which stays registered after it. *)
RunQuery ==
    /\ phase = "querying"
    /\ \/ Fail(step, report.batches, "Callback") /\ UNCHANGED <<step, batch>>
       \/ \E b \in [origin : {table[1].origin}, rows : 0..MaxRows, fits : SUBSET (0..N)] :
             Checked(step, b)
    /\ UNCHANGED <<mappable, received, table, next, report, taken, delivered>>

OverflowsByBatchesOnly == report.batches + 1 > MaxCount

Overflows == report.batches + 1 > MaxCount \/ report.rows + batch.rows > MaxCount

(* Both counters are checked before the sink is called. *)
CheckCounts ==
    /\ phase = "stepping" /\ step = Sink
    /\ IF Overflows
       THEN Fail(Sink, report.batches, "CountOverflow") /\ UNCHANGED next
       ELSE /\ phase' = "delivering"
            /\ next' = [batches |-> (report.batches + 1) % (MaxCount + 1),
                        rows |-> (report.rows + batch.rows) % (MaxCount + 1)]
            /\ UNCHANGED error
    /\ UNCHANGED <<mappable, step, received, batch, table, report, taken, delivered>>

CallSink ==
    /\ phase = "delivering"
    /\ \/ Fail(Sink, report.batches, "Callback") /\ UNCHANGED <<taken, delivered>>
       \/ /\ phase' = "delivered"
          /\ delivered' = Append(delivered, batch)
          /\ taken' = [batches |-> taken.batches + 1, rows |-> taken.rows + batch.rows]
          /\ UNCHANGED error
    /\ UNCHANGED <<mappable, step, received, batch, table, next, report>>

Count ==
    /\ phase = "delivered"
    /\ report' = next
    /\ phase' = "reading"
    /\ UNCHANGED <<mappable, step, received, batch, table, next, taken, delivered, error>>

Next ==
    \/ Prepare \/ Open \/ Finish \/ Receive \/ CallTransform
    \/ RegisterBatch \/ RunQuery \/ CheckCounts \/ CallSink \/ Count

Spec == Init /\ [][Next]_vars

-----------------------------------------------------------------------------
(* Properties *)

Phases == {"preparing", "built", "reading", "stepping", "querying", "delivering",
           "delivered", "done", "failed"}

(* The ranges of the state of build and run. *)
TypeOK ==
    /\ phase \in Phases
    /\ mappable \in SUBSET (0..N)
    /\ step \in Source..Sink
    /\ received \in Nat
    /\ batch \in Batch
    /\ table \in Seq(Batch) /\ Len(table) <= 1
    /\ next \in Counts /\ report \in Counts /\ taken \in Counts
    /\ delivered \in Seq(Batch)
    /\ error \in [stage : SourceFactory..Sink, index : Nat \union {-1}, failure :
                    {"none", "Mapping", "Validation", "Callback", "CountOverflow"}]

(* The report counts what the sink accepted, exactly: whatever fails       *)
(* between the check of the counters, the sink's call and their update,    *)
(* and however close to usize::MAX the rows are.                           *)
ReportIsWhatTheSinkTook ==
    phase # "delivered" => report = taken

(* The sink gets the batches of the source in the source's order, one for  *)
(* one, each made from its own item by every transform (a query never      *)
(* reads the batch another stage or an earlier run left on the shared      *)
(* context), and each satisfies the sink's declaration though nothing      *)
(* checks it there.                                                        *)
DeliveredInOrder ==
    /\ \A i \in DOMAIN delivered :
          delivered[i].origin = i /\ Validates(N, delivered[i])
    /\ phase = "done" => Len(delivered) = received

(* A failure's batch index is the item it happened on, every item before   *)
(* it having been delivered; without one, no item had been read, and a     *)
(* declaration that cannot be mapped is found before the source is opened. *)
ErrorLocatesTheFailure ==
    phase = "failed" =>
        /\ error.index = -1 => received = 0
        /\ error.index # -1 => received = error.index + 1 /\ Len(delivered) = error.index
        /\ error.index # -1 => mappable = 0..N
(* What the caller is told and what the sink was given agree: the report   *)
(* counts the accepted batches, which are the source's, in order, each     *)
(* fit for the sink.                                                       *)
SinkAndReportAgree == ReportIsWhatTheSinkTook /\ DeliveredInOrder
=============================================================================
