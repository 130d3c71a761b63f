-------------------------- MODULE CompletionRecord --------------------------
(***************************************************************************)
(* The contents of a completion manifest (crates/pipeline/src/manifest.rs):*)
(* the row count and order-free fingerprint a run accumulates over the     *)
(* batches it writes, the output identity the record is bound to, and what *)
(* the reader of object_store_io.rs requires of a record before it reads.  *)
(* (RemotePublication models when the record is put; here is what it says. *)
(* Ingestion has the run whose batches are written.)                       *)
(*                                                                         *)
(* An optional text is a sequence of at most one of "", " " and other      *)
(* words; the first two are blank.                                         *)
(***************************************************************************)
EXTENDS Integers, Sequences, FiniteSets, SequencesExt

CONSTANTS
    IngestRows,  \* the distinct rows
    Modulus,     \* 2^64
    Hashes,      \* the row hashes considered: IngestRows -> 0..Modulus-1
    Keys,        \* object keys
    Foreign      \* records other writers may have left

ASSUME HashAssumption ==
    /\ IsFiniteSet(IngestRows) /\ Modulus \in Nat \ {0}
    /\ Hashes \subseteq [IngestRows -> 0..(Modulus - 1)]

(* Run ids are unique: no other writer's record has this run's. *)
ASSUME ForeignAssumption ==
    \A r \in Foreign : "runId" \in DOMAIN r => r.runId # <<"run">>

VARIABLES recordPhase, hash, written, running, count, key, meta, record, readerAnswer

recordVars == <<recordPhase, hash, written, running, count, key, meta, record, readerAnswer>>

-----------------------------------------------------------------------------

Texts == {<<>>, <<"">>, <<" ">>, <<"x">>, <<"y">>}
Blank(t) == t \in {<<"">>, <<" ">>}
Present(t) == t # <<>> /\ ~Blank(t)
Legacy == <<"legacy-ahash-wrapping-sum-v1">>

Metas == [location : Keys, eTag : Texts, version : Texts]
NoMeta == [location |-> "none", eTag |-> <<>>, version |-> <<>>]

NoManifest ==
    [schema |-> 0, rowCount |-> 0, digest |-> 0, runId |-> <<>>, outputKey |-> <<>>,
     eTag |-> <<>>, version |-> <<>>, scheme |-> <<>>]
Optional == {"runId", "outputKey", "eTag", "version", "scheme"}

(* The text of a manifest, by its fields: an absent text has none. *)
NoRecord == <<>>
Serialized(r) == [f \in {g \in DOMAIN r : g \in Optional => r[g] # <<>>} |-> r[f]]

(* CompletionManifest::validate: the first requirement that is not met. *)
ManifestViolation(r) ==
    CASE r.schema = 1 -> "none"
      [] r.schema \notin {1, 2} -> "UnsupportedManifestVersion"
      [] ~Present(r.runId) -> "MissingRunId"
      [] ~Present(r.outputKey) -> "MissingOutputKey"
      [] r.eTag = <<>> /\ r.version = <<>> -> "MissingOutputIdentity"
      [] Blank(r.eTag) \/ Blank(r.version) -> "EmptyOutputIdentity"
      [] ~Present(r.scheme) -> "MissingDigestScheme"
      [] r.scheme # Legacy -> "UnsupportedDigestScheme"
      [] OTHER -> "none"

(* decode_completion_manifest: what is required must be there, an optional *)
(* text that is not is absent, and what else there is does not matter.     *)
Wire(text) ==
    [f \in DOMAIN NoManifest |-> IF f \in DOMAIN text THEN text[f] ELSE <<>>]
Decode(text) ==
    IF ~(DOMAIN NoManifest \ Optional \subseteq DOMAIN text) THEN "ReadManifest"
    ELSE ManifestViolation(Wire(text))

(* Hashes combined by exclusive or, which equal rows cancel (modulus 8). *)
AccumulateBatchDigestXor(acc, batch) ==
    LET bit(n, k) == (n \div 2^k) % 2
        xor(m, n) == FoldSet(LAMBDA k, sum : sum + 2^k * ((bit(m, k) + bit(n, k)) % 2),
                             0, 0..2)
    IN  FoldLeft(LAMBDA sum, row : xor(sum, hash[row]), acc, batch)

(* hash_row folded over the rows of a batch with wrapping addition. *)
AccumulateBatchDigest(acc, batch) ==
    FoldLeft(LAMBDA sum, row : (sum + hash[row]) % Modulus, acc, batch)

NonBlankAsReported(t) == t

NonBlank(t) == IF Blank(t) THEN <<>> ELSE t

(* OutputIdentity::new *)
IdentityUsable(k, m) ==
    m.location = k /\ (Present(m.version) \/ Present(m.eTag))

(* CompletionManifest::new_v2 *)
NewV2(k, m) ==
    [schema |-> 2, rowCount |-> count, digest |-> running, runId |-> <<"run">>,
     outputKey |-> <<k>>, eTag |-> NonBlank(m.eTag), version |-> NonBlank(m.version),
     scheme |-> Legacy]

-----------------------------------------------------------------------------

(* Nothing has been written, or another writer's record is there.  The     *)
(* object at the key answers with whatever metadata its store keeps.       *)
NoRun(records) ==
    /\ hash \in Hashes
    /\ written = <<>> /\ running = 0 /\ count = 0
    /\ key \in Keys
    /\ meta = NoMeta
    /\ readerAnswer = "none"
    /\ record \in records
    /\ recordPhase = IF record = NoRecord THEN "writing" ELSE "published"

(* A batch is written and then counted. *)
WriteBatch(batch) ==
    /\ recordPhase = "writing"
    /\ written' = written \o batch
    /\ running' = AccumulateBatchDigest(running, batch)
    /\ count' = count + Len(batch)
    /\ UNCHANGED <<recordPhase, hash, key, meta, record, readerAnswer>>

(* The output is at its key; its metadata is captured and must identify it.*)
Capture ==
    /\ recordPhase = "writing"
    /\ \E m \in Metas :
          /\ meta' = m
          /\ recordPhase' = IF IdentityUsable(key, m) THEN "captured" ELSE "failed"
    /\ UNCHANGED <<hash, written, running, count, key, record, readerAnswer>>

(* The record is made, validated, validated again and put. *)
PutManifest ==
    /\ recordPhase = "captured"
    /\ LET r == NewV2(key, meta) IN
       IF ManifestViolation(r) = "none"
       THEN record' = Serialized(r) /\ recordPhase' = "published"
       ELSE recordPhase' = "failed" /\ UNCHANGED record
    /\ UNCHANGED <<hash, written, running, count, key, meta, readerAnswer>>

(* What the record's identity asks of the store's answer, which is looked  *)
(* at again (download_completed_output).                                   *)
IdentityMatches(r, m) ==
    IF r.version # <<>> THEN m.version = r.version ELSE m.eTag = r.eTag

(* What the range requests can be bound to (download_captured). *)
Bindable(k, m) ==
    /\ m.location = k
    /\ m.version \notin {<<>>, <<"">>} \/ m.eTag \notin {<<>>, <<"">>}

ReaderAnswer(text, k, m) ==
    LET r == Wire(text)
    IN  CASE Decode(text) # "none" -> Decode(text)
          [] r.schema # 2 -> "CompletionIdentityRequired"
          [] r.outputKey # <<k>> -> "OutputKeyMismatch"
          [] ~IdentityMatches(r, m) \/ ~Bindable(k, m) -> "InvalidSnapshot"
          [] OTHER -> "reads"

(* A reader of the key; the object is as it was captured, or, where the    *)
(* record is another writer's, as it happens to be.                        *)
Download ==
    /\ recordPhase = "published"
    /\ \E m \in IF meta = NoMeta THEN Metas ELSE {meta} :
          /\ meta' = m
          /\ readerAnswer' = ReaderAnswer(record, key, m)
    /\ recordPhase' = "read"
    /\ UNCHANGED <<hash, written, running, count, key, record>>

-----------------------------------------------------------------------------
(* Properties *)

(* How often a row occurs in a sequence of rows. *)
Times(s, row) == Cardinality({i \in DOMAIN s : s[i] = row})

(* The fingerprint is of the multiset of rows: whatever the order and the  *)
(* batch boundaries, each distinct row contributes its hash once for every *)
(* time it was written, so that equal contents have equal fingerprints and *)
(* rows do not cancel.                                                     *)
CountsAreOfTheMultiset ==
    LET total == FoldSet(LAMBDA row, sum : sum + Times(written, row) * hash[row],
                         0, IngestRows)
    IN  running = total % Modulus /\ count = Len(written)

OfThisRun == "runId" \in DOMAIN record /\ record.runId = <<"run">>

(* What a run publishes can be read: as long as the object is the one that *)
(* was captured, every check the reader makes accepts the record the       *)
(* writer made, whatever blank or missing identities the store reports; a  *)
(* run whose output can be identified never fails for its record, unless   *)
(* the key itself is blank.                                                *)
PublishedCanBeRead ==
    /\ recordPhase = "read" /\ OfThisRun => readerAnswer = "reads"
    /\ recordPhase = "failed" => ~IdentityUsable(key, meta) \/ Blank(<<key>>)

(* A reader never downloads on a record that does not identify the output: *)
(* what it reads is bound to an identity the record states, of the key it  *)
(* was asked for, whoever wrote the record and whatever it left out.       *)
ReadIsIdentified ==
    readerAnswer = "reads" =>
        /\ {"schema", "rowCount", "digest", "outputKey"} \subseteq DOMAIN record
        /\ record.schema = 2 /\ record.outputKey = <<key>> /\ meta.location = key
        /\ \E id \in {"version", "eTag"} \intersect DOMAIN record :
              Present(record[id]) /\ meta[id] = record[id]

(* The writer's record and the reader's checks fit together: every record  *)
(* a run publishes is accepted while its output is there, and none is      *)
(* accepted that does not identify an output.                              *)
RecordServesReaders == PublishedCanBeRead /\ ReadIsIdentified
=============================================================================
