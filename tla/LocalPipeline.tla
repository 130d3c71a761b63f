---------------------------- MODULE LocalPipeline ----------------------------
(***************************************************************************)
(* The builders of crates/typestate/src/lib.rs, the run of the local one   *)
(* between two untrusted callbacks, whose batches BatchContract checks,    *)
(* and write_parquet and read_parquet (crates/pipeline/src/lib.rs), with   *)
(* which a result is kept and a file of any origin is read.                *)
(*                                                                         *)
(* A fixture is read whole for the local builder; the remote one hands     *)
(* over to a run that takes it in batches.  Ingestion has both readings.   *)
(***************************************************************************)
EXTENDS BatchContract

CONSTANTS
    Batches,       \* what a callback may return
    ParquetFiles   \* files of other origins: columns and row count

VARIABLES kind, supplied, phase, batch, sinkGot, error, stored, answer

vars == <<kind, supplied, phase, batch, sinkGot, error, stored, answer>>

-----------------------------------------------------------------------------

Stages == {"source", "transform", "sink"}
NoBatch == [columns |-> <<>>, rows |-> 0]
NoError == [by |-> "none"]
NoAnswer == [kind |-> "none"]

Unbuilt ==
    /\ supplied = {}
    /\ phase = "building"
    /\ batch = NoBatch /\ sinkGot = <<>>
    /\ error = NoError
    /\ answer = NoAnswer

Init ==
    /\ kind \in {"local", "remote", "reader"}
    /\ stored \in {NoBatch} \union (IF kind = "reader" THEN ParquetFiles ELSE {})
    /\ Unbuilt

(* source, transform and sink: each exists only while its stage is Missing.*)
Supply(stage) ==
    /\ phase = "building" /\ stage \notin supplied
    /\ supplied' = supplied \union {stage}
    /\ UNCHANGED <<kind, phase, batch, sinkGot, error, stored, answer>>

Fail(cause) ==
    /\ phase' = "failed"
    /\ error' = cause

(* build exists only when every stage is Present; it reads the fixture.    *)
Ready == phase = "building" /\ supplied = Stages

Build(n) ==
    /\ Ready /\ kind = "local"
    /\ batch' = [columns |-> IngestFields, rows |-> n]
    /\ phase' = "read"
    /\ UNCHANGED <<kind, supplied, sinkGot, error, stored, answer>>

(* The fixture is not read, locally or by the remote run. *)
SourceFails ==
    /\ phase \in {"building", "handed over"}
    /\ Fail([by |-> "source"])
    /\ UNCHANGED <<kind, supplied, batch, sinkGot, stored, answer>>

(* The remote builder's build passes everything to run_bounded_pipeline_s3.*)
BuildRemote ==
    /\ Ready /\ kind = "remote"
    /\ phase' = "handed over"
    /\ UNCHANGED <<kind, supplied, batch, sinkGot, error, stored, answer>>

(* A callback returns any batch, or an error, which is wrapped. *)
Calls(stage, from, to) ==
    /\ phase = from
    /\ \/ Fail([by |-> stage]) /\ UNCHANGED batch
       \/ batch' \in Batches /\ phase' = to /\ UNCHANGED error
    /\ UNCHANGED <<kind, supplied, stored, answer>>

(* A batch of the remote run goes through the transform, and is checked    *)
(* before it is written.                                                   *)
RemoteFails ==
    /\ phase = "handed over"
    /\ \/ Fail([by |-> "transform"]) /\ UNCHANGED batch
       \/ /\ batch' \in Batches /\ Violation(batch') # <<>>
          /\ Fail([by |-> "contract", violation |-> Violation(batch')])
    /\ UNCHANGED <<kind, supplied, sinkGot, stored, answer>>

Transform == Calls("transform", "read", "transformed") /\ UNCHANGED sinkGot

CallSink == Calls("sink", "transform checked", "sunk") /\ sinkGot' = <<batch>>

Validates(from, to) ==
    /\ phase = from
    /\ IF Violation(batch) = <<>>
       THEN phase' = to /\ UNCHANGED error
       ELSE Fail([by |-> "contract", violation |-> Violation(batch)])
    /\ UNCHANGED <<kind, supplied, batch, sinkGot, stored, answer>>

ValidateTransformed == Validates("transformed", "transform checked")
ValidateResult == Validates("sunk", "built")

(* write_parquet: the file has the batch's own schema. *)
WriteParquet ==
    /\ phase = "built"
    /\ stored' = batch
    /\ phase' = "stored"
    /\ answer' = NoAnswer
    /\ UNCHANGED <<kind, supplied, batch, sinkGot, error>>

(* The decoded batches, of which a file without rows has none. *)
Decoded(f) == IF f.rows = 0 THEN {} ELSE {f}

(* read_parquet: every decoded batch must have the schema; then they are   *)
(* concatenated under it.  A file that cannot be opened or decoded is      *)
(* another error.                                                          *)
ReadParquet ==
    /\ phase \in {"building", "stored"} /\ stored # NoBatch /\ answer = NoAnswer
    /\ \/ answer' = [kind |-> "unreadable"]
       \/ LET drifted == \E b \in Decoded(stored) : Fields(b.columns) # Fields(IngestFields)
          IN  answer' = IF drifted THEN [kind |-> "drifted"]
                        ELSE [kind |-> "read",
                              batch |-> [columns |-> IngestFields, rows |-> stored.rows]]
    /\ UNCHANGED <<kind, supplied, phase, batch, sinkGot, error, stored>>

-----------------------------------------------------------------------------
(* Properties *)

(* A batch that the contract describes, whatever produced it. *)
MeetsContract(b) ==
    /\ Fields(b.columns) = Fields(IngestFields)
    /\ \A i \in DOMAIN b.columns :
          /\ b.columns[i].concrete
          /\ b.columns[i].nulls => b.columns[i].nullable

(* Neither callback is trusted: the sink is only ever given a batch that   *)
(* meets the contract, a result is returned only if it meets it too, both  *)
(* having been called once, and a refusal is of the first column that does *)
(* not meet it.  What is returned can be written and read back, and what   *)
(* read_parquet concatenates under the schema's positions has the schema.  *)
OnlyContractBatchesPass ==
    /\ \A i \in DOMAIN sinkGot : MeetsContract(sinkGot[i])
    /\ phase \in {"built", "stored"} => MeetsContract(batch) /\ Len(sinkGot) = 1
    /\ phase = "failed" /\ error.by = "contract" =>
         /\ ~MeetsContract(batch)
         /\ \A i \in 1..(error.violation[2] - 1) :
               Field(batch.columns[i]) = Field(IngestFields[i])
    /\ phase = "stored" => answer.kind # "drifted"
    /\ answer.kind = "read" =>
         \A b \in Decoded(stored) : Fields(b.columns) = Fields(answer.batch.columns)
=============================================================================
