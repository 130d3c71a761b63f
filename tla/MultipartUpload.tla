--------------------------- MODULE MultipartUpload ---------------------------
(***************************************************************************)
(* upload_from_temp and write_multipart of                                 *)
(* crates/pipeline/src/object_store_io.rs: a local file is read into       *)
(* parts of one size, a few of which are on their way to the store at a    *)
(* time and arrive in any order; then the upload is completed, or, after   *)
(* whatever failed, aborted.                                               *)
(***************************************************************************)
EXTENDS Integers, Sequences, FiniteSets

CONSTANTS
    PartUnits,   \* CHUNK_BYTES, in units that a read may deliver
    MaxParts,    \* MAX_UPLOAD_PARTS
    MaxSize      \* bound: units in the file

ASSUME PartAssumption == PartUnits \in Nat \ {0} /\ MaxParts \in Nat \ {0}
ASSUME FileAssumption == MaxSize \in Nat

VARIABLES
    size,      \* the units in the file
    writer,    \* where write_multipart is
    readTo,    \* the units read from the file
    filled,    \* those of them in the buffer
    sent,      \* the parts handed to put_part, as ranges of the file
    parts,     \* the parts whose futures are not finished
    stored,    \* the parts the store keeps for this upload
    upload,    \* the upload in the store
    object,    \* the parts that make up the object
    failure,   \* the error that ended the transfer
    outcome     \* what upload_from_temp returned

local == <<size, readTo, filled, sent>>
store == <<stored, upload, object>>
uploadVars == <<local, writer, parts, store, failure, outcome>>

UploadInit ==
    /\ size \in 0..MaxSize
    /\ writer = "open" /\ readTo = 0 /\ filled = 0 /\ sent = <<>> /\ parts = {}
    /\ stored = {} /\ upload = "none" /\ object = <<>>
    /\ failure = "None" /\ outcome = "None"

-----------------------------------------------------------------------------

Reports(value) == writer' = "returned" /\ outcome' = value

\* The futures of the remaining parts are dropped before the upload is aborted.
PartsLeft == {}

Fails(value) ==
    /\ writer' = "abort" /\ failure' = value /\ parts' = PartsLeft
    /\ UNCHANGED outcome

\* The local file and put_multipart.
Open ==
    /\ writer = "open"
    /\ \/ Reports("OpenInput") /\ UNCHANGED upload
       \/ Reports("UploadObject") /\ upload' \in {"none", "open"}
       \/ writer' = "admit" /\ upload' = "open" /\ UNCHANGED outcome
    /\ UNCHANGED <<local, parts, stored, object, failure>>

AtLimitOffByOne == Cardinality(parts) > MaxParts
AtLimit == Cardinality(parts) = MaxParts

\* One part is finished, whichever it is. One that fails may have been stored.
Awaits(to) ==
    \E i \in parts :
        \/ /\ stored' = stored \cup {i} /\ parts' = parts \ {i} /\ writer' = to
           /\ UNCHANGED <<failure, outcome>>
        \/ stored' \in {stored, stored \cup {i}} /\ Fails("UploadObject")

Admit ==
    /\ writer = "admit"
    /\ \/ AtLimit /\ Awaits("fill")
       \/ ~AtLimit /\ writer' = "fill" /\ UNCHANGED <<parts, stored, failure, outcome>>
    /\ UNCHANGED <<local, upload, object>>

\* A read delivers what it likes of what is left.
Read ==
    /\ writer = "fill" /\ filled < PartUnits
    /\ \E units \in 1..(size - readTo) :
        /\ filled + units <= PartUnits
        /\ filled' = filled + units /\ readTo' = readTo + units
    /\ UNCHANGED <<size, sent, writer, parts, store, failure, outcome>>

ReadFails ==
    /\ writer = "fill" /\ filled < PartUnits
    /\ Fails("OpenInput")
    /\ UNCHANGED <<local, store>>

\* A short read is not the end of a part, or of the file.
PartReadAfterOneRead == filled > 0 \/ readTo = size
PartRead == filled = PartUnits \/ readTo = size

PutPart ==
    /\ writer = "fill" /\ PartRead
    /\ IF filled # 0
       THEN /\ sent' = Append(sent, [from |-> readTo - filled, to |-> readTo])
            /\ parts' = parts \cup {Len(sent')}
       ELSE UNCHANGED <<sent, parts>>
    /\ writer' = IF filled < PartUnits THEN "drain" ELSE "admit"
    /\ filled' = 0
    /\ UNCHANGED <<size, readTo, store, failure, outcome>>

Drain ==
    /\ writer = "drain"
    /\ \/ parts # {} /\ Awaits("drain")
       \/ parts = {} /\ writer' = "complete" /\ UNCHANGED <<parts, stored, failure, outcome>>
    /\ UNCHANGED <<local, upload, object>>

\* The store joins the parts it has by their numbers. The request may fail
\* after that.
Joined ==
    /\ upload' = "completed" /\ stored' = {}
    /\ object' = [i \in stored |-> sent[i]]

Complete ==
    /\ writer = "complete"
    /\ \/ Joined /\ Reports("Ok") /\ UNCHANGED <<parts, failure>>
       \/ (Joined \/ UNCHANGED store) /\ Fails("UploadObject")
    /\ UNCHANGED local

\* Aborting discards the stored parts. An upload that was completed is not
\* there to be aborted.
Abort ==
    /\ writer = "abort"
    /\ \/ /\ upload = "open" /\ upload' = "aborted" /\ stored' = {}
          /\ Reports(failure) \/ Reports("MultipartAbort")
       \/ UNCHANGED <<upload, stored>> /\ Reports("MultipartAbort")
       \/ upload = "completed" /\ UNCHANGED <<upload, stored>> /\ Reports(failure)
    /\ UNCHANGED <<local, parts, object, failure>>

\* A part arrives at the store at any time while its future exists.
Arrives ==
    /\ \E i \in parts \ stored : stored' = stored \cup {i}
    /\ UNCHANGED <<local, writer, parts, upload, object, failure, outcome>>

-----------------------------------------------------------------------------

UploadNext ==
    \/ Open \/ Admit \/ Read \/ ReadFails \/ PutPart \/ Drain \/ Complete \/ Abort \/ Arrives
    \/ writer = "returned" /\ UNCHANGED uploadVars

UploadSpec == UploadInit /\ [][UploadNext]_uploadVars

-----------------------------------------------------------------------------
(* Properties *)

\* What parts 1 to n are: the file from its beginning up to some unit, each part
\* beginning where the one before it ends. Only the last one may be short, as
\* stores insist.
Consecutive(ranges, n, upto) ==
    /\ IF n = 0 THEN upto = 0 ELSE ranges[1].from = 0 /\ ranges[n].to = upto
    /\ \A i \in 1..n :
          /\ ranges[i].from < ranges[i].to /\ ranges[i].to <= ranges[i].from + PartUnits
          /\ i < n => /\ ranges[i].to = ranges[i].from + PartUnits
                      /\ ranges[i + 1].from = ranges[i].to

\* An object appears only as a whole: its parts, which were read in short reads
\* and arrived in any order, are the file from its beginning to its end.
ObjectIsFile ==
    upload = "completed" =>
        \E n \in 0..size : DOMAIN object = 1..n /\ Consecutive(object, n, size)

\* Memory does not depend on the file: the buffers in flight and the one being
\* filled are at most MAX_UPLOAD_PARTS together.
BuffersBounded ==
    Cardinality(parts) + (IF writer = "fill" THEN 1 ELSE 0) <= MaxParts

\* Ok means the object is there. An error means that nothing was left in the
\* store, unless it says that aborting failed, or the object came to be in spite
\* of it, or the error was that of creating the upload.
OutcomeIsTrue ==
    writer = "returned" =>
        /\ outcome = "Ok" => upload = "completed"
        /\ outcome # "MultipartAbort" => stored = {}
        /\ upload = "open" => outcome = "MultipartAbort" \/ failure = "None"
\* What appears in the store is the whole file, and what is returned tells
\* whether it did.
ResultIsTrue == ObjectIsFile /\ OutcomeIsTrue
=============================================================================
