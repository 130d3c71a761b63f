------------------------------ MODULE Ingestion ------------------------------
(***************************************************************************)
(* A fixture on its way through the system.  The local builder reads it    *)
(* whole and passes one batch through its callbacks (LocalPipeline); the   *)
(* remote one hands it to a run that reads it in batches (FixtureRows),    *)
(* transforms, checks and writes each, and publishes a record of what it   *)
(* wrote (CompletionRecord); the queries only read their own tables, and   *)
(* csv-select copies one column (CsvSelect).  A reader takes what some     *)
(* other writer left: a Parquet file or a record.                          *)
(* (When a batch moves and when a record is put are BoundedPipeline's and  *)
(* RemotePublication's; here is what the batches and the record say.)      *)
(***************************************************************************)
EXTENDS CsvSelect, CompletionRecord, BatchContract

CONSTANTS
    Batches, ParquetFiles  \* see LocalPipeline

(* IngestRows are the rows that the records of the ingest table parse to.  *)
ASSUME RowsAssumption ==
    \A f \in Files : f.table = "ingest" =>
        \A i \in DOMAIN f.records :
            ParseRecord(f, f.records[i]).ok =>
                ParseRecord(f, f.records[i]).value \in IngestRows

(* What a callback returns, and what a file holds, is a sequence of columns.*)
ASSUME BatchesAssumption ==
    \A b \in Batches \union ParquetFiles :
        b.columns \in Seq({b.columns[i] : i \in DOMAIN b.columns})

VARIABLES
    kind, supplied, phase, batch, sinkGot, error, stored, answer,
    taken   \* the batches the remote run has written

local == <<kind, supplied, phase, batch, sinkGot, error, stored, answer>>

Local == INSTANCE LocalPipeline

-----------------------------------------------------------------------------

(* Only the remote run and the reader have to do with a key and a record   *)
(* (bound: the others start with one choice of them), and the queries'     *)
(* tables are read by the queries alone.                                   *)
Entry ==
    /\ Init /\ taken = 0
    /\ \/ file.table = "ingest" /\ Local!Init /\ kind # "reader"
       \/ file.records = <<>> /\ file.header = 3 /\ Local!Init /\ kind = "reader"
       \/ /\ kind = IF file.table = "ingest" THEN "select" ELSE "query"
          /\ stored = Local!NoBatch /\ Local!Unbuilt
    /\ IF kind = "select" THEN SelectInit ELSE SelectIdle
    /\ hash \in IF kind = "remote" THEN Hashes ELSE {CHOOSE h \in Hashes : TRUE}
    /\ key \in IF kind \in {"remote", "reader"} THEN Keys ELSE {CHOOSE k \in Keys : TRUE}
    /\ NoRun(IF kind = "reader" /\ stored = Local!NoBatch THEN Foreign ELSE {NoRecord})

Supply ==
    /\ kind \in {"local", "remote"}
    /\ \E stage \in Local!Stages : Local!Supply(stage)
    /\ UNCHANGED <<vars, recordVars, taken, selectVars>>

(* A record of the file is read: by a query, by the local build, or by the *)
(* producer of the remote run.                                             *)
ReadFile ==
    /\ \/ kind = "query"
       \/ kind = "local" /\ Local!Ready
       \/ phase = "handed over"
    /\ Next
    /\ UNCHANGED <<local, recordVars, taken, selectVars>>

(* The local build has its rows, or the error of the first bad record. *)
BuildLocal ==
    /\ kind = "local" /\ outcome.done
    /\ IF outcome.ok THEN Local!Build(Len(rows)) ELSE Local!SourceFails
    /\ UNCHANGED <<vars, recordVars, taken, selectVars>>

LocalStep ==
    /\ \/ Local!BuildRemote
       \/ Local!Transform \/ Local!ValidateTransformed
       \/ Local!CallSink \/ Local!ValidateResult
       \/ Local!WriteParquet \/ Local!ReadParquet
    /\ UNCHANGED <<vars, recordVars, taken, selectVars>>

(* What a transform may make of a batch it does not spoil (bound). *)
Transformed(b) == {b, Reverse(b), <<>>}

(* consume_batches: the next batch is transformed, checked, written and    *)
(* counted; a transform's failure, a batch that does not meet the contract *)
(* and the producer's error end the run.                                   *)
Consume ==
    /\ phase = "handed over" /\ taken < Len(sent)
    /\ taken' = taken + 1
    /\ \E b \in Transformed(sent[taken + 1]) : WriteBatch(b)
    /\ UNCHANGED <<vars, local, selectVars>>

ConsumeFails ==
    /\ phase = "handed over"
    /\ IF taken < Len(sent) THEN Local!RemoteFails
       ELSE outcome.done /\ ~outcome.ok /\ Local!SourceFails
    /\ UNCHANGED <<vars, recordVars, taken, selectVars>>

(* Once the producer has ended and all is written, the output is put at    *)
(* its key and its record after it.                                        *)
Publish ==
    /\ phase = "handed over"
    /\ outcome.done /\ outcome.ok /\ taken = Len(sent)
    /\ Capture \/ PutManifest
    /\ UNCHANGED <<vars, local, taken, selectVars>>

Select == kind = "select" /\ SelectNext /\ UNCHANGED <<vars, local, recordVars, taken>>

ReadRemote == Download /\ UNCHANGED <<vars, local, taken, selectVars>>

Step ==
    \/ Supply \/ Select \/ ReadFile \/ BuildLocal \/ LocalStep
    \/ Consume \/ ConsumeFails \/ Publish \/ ReadRemote

IngestionSpec == Entry /\ [][Step]_<<vars, local, recordVars, taken, selectVars>>

-----------------------------------------------------------------------------
(* Properties *)

(* What the local builder lets through, in the composition. *)
OnlyContractBatchesPass == Local!OnlyContractBatchesPass

(* A file gives every reader the same records up to the first that is bad, *)
(* whether it is read whole, in batches, or for one of its columns.        *)
EveryReaderIsTrue == StreamIsTheWholeRead /\ SelectionIsTheColumn

(* What the record says is what the fixture held: the fingerprint is of    *)
(* the multiset of rows written, whatever the order and the batch bounds,  *)
(* and if the transform dropped none, of those of the file; a run that     *)
(* failed has no record.                                                   *)
FingerprintIsOfTheMultiset ==
    /\ CountsAreOfTheMultiset
    /\ kind = "remote" /\ record # NoRecord =>
         /\ phase = "handed over" /\ outcome.ok
         /\ record.rowCount = Len(file.records) =>
              \A row \in IngestRows : Times(written, row) = Times(rows, row)
=============================================================================
