-------------------------- MODULE RemotePublication --------------------------
(***************************************************************************)
(* The completion protocol of crates/pipeline/src/publication.rs, the tail *)
(* of run_bounded_pipeline_s3 that leads to it, and the reader that trusts *)
(* it, download_completed_output of object_store_io.rs.                    *)
(*                                                                         *)
(* One output key is published over and over by runs that do not overlap:  *)
(* single-writer coordination is the protocol's precondition. A run may    *)
(* crash between any two requests. A request that returns an error may     *)
(* have taken effect, by the time the error is returned. A stranger may    *)
(* overwrite the output key at any time but between a run's copy and its   *)
(* head. A reader runs at its own pace through all of this.                *)
(***************************************************************************)
EXTENDS Integers

CONSTANTS
    MaxRuns,     \* bound: runs
    MaxStrange,  \* bound: overwrites by a stranger
    Variety,     \* run r writes the bytes r % Variety: equal bytes come back
    Ranges       \* the ranges the output is read in

ASSUME StoreAssumption == Variety \in Nat \ {0}
ASSUME BoundAssumption == MaxRuns \in Nat /\ MaxStrange \in Nat /\ Ranges \in Nat \ {0}

VARIABLES
    final,      \* the object at the output key
    versions,   \* every object that ever was at the output key
    puts,       \* how often the output key was written
    marker,     \* the completion record at the manifest key
    staged,     \* the runs whose staging object exists
    run,        \* the latest run
    phase,      \* its next remote operation
    cancelled,  \* the flag of its token
    identity,   \* its OutputIdentity
    failure,    \* its primary error, and then whether cleaning up failed as well
    outcome,    \* what run_bounded_pipeline_s3 returned
    before,     \* history: the store when the run began
    strange,    \* how often a stranger has overwritten the output
    readPc,     \* where the reader is
    readMarker, \* the completion record it decoded
    captured,   \* the object whose metadata it was told
    ranges,     \* the ranges it has still to read
    bytes,      \* the different contents it has received
    readResult  \* what download_completed_output returned

store == <<final, versions, puts, marker, staged>>
writer == <<run, phase, cancelled, identity, failure, outcome, before>>
reader == <<readPc, readMarker, captured, ranges, bytes, readResult>>
vars == <<store, writer, strange, reader>>

-----------------------------------------------------------------------------
(* Objects. The ETag of an object is determined by its bytes. The store may   *)
(* keep and report versions or not (0), and may begin and cease to between    *)
(* two writes.                                                                *)

Foreign == Variety
Legacy == Variety + 1
Content(r) == r % Variety

NoObject == [data |-> Legacy + 1, version |-> 0]
Object(data, version) == [data |-> data, version |-> version]

NoMarker == [schema |-> 0, run |-> 0, eTag |-> 0, version |-> 0]
Version1 == [NoMarker EXCEPT !.schema = 1]
Completion(r, object) ==
    [schema |-> 2, run |-> r, eTag |-> object.data, version |-> object.version]

IdentityOf(object) == [eTag |-> object.data, version |-> object.version]

\* The version decides, if there is one, and otherwise the ETag. What is looked
\* for is a completion record, or the identity in captured metadata.
IdentityMatchesAny(sought, object) == TRUE
IdentityMatches(sought, object) ==
    IF sought.version # 0 THEN object.version = sought.version ELSE object.data = sought.eTag

Replaced(data) ==
    /\ puts' = puts + 1
    /\ \E version \in {0, puts + 1} : final' = Object(data, version)
    /\ versions' = versions \cup {final'}

Init ==
    /\ final \in {NoObject, Object(Legacy, 0)} /\ versions = {final} /\ puts = 0
    /\ marker \in {NoMarker, Version1}
    /\ marker = NoMarker \/ final # NoObject
    /\ staged = {}
    /\ run = 0 /\ phase = "idle" /\ cancelled = FALSE
    /\ identity = NoObject /\ failure = "None" /\ outcome = "None"
    /\ before = [final |-> final, marker |-> marker, staged |-> staged]
    /\ strange = 0
    /\ readPc = "idle" /\ readMarker = NoMarker /\ captured = NoObject
    /\ ranges = 0 /\ bytes = {}
    /\ readResult = "None"

-----------------------------------------------------------------------------
(* run_bounded_pipeline_s3 *)

Begin ==
    /\ phase = "idle" /\ run < MaxRuns
    /\ run' = run + 1 /\ phase' = "local" /\ outcome' = "None"
    /\ cancelled' \in BOOLEAN
    /\ identity' = NoObject /\ failure' = "None"
    /\ before' = [final |-> final, marker |-> marker, staged |-> staged]
    /\ UNCHANGED <<store, strange, reader>>

Cancel ==
    /\ phase # "idle" /\ ~cancelled /\ cancelled' = TRUE
    /\ UNCHANGED <<store, run, phase, identity, failure, outcome, before, strange, reader>>

Advance(to) == phase' = to /\ UNCHANGED <<failure, outcome>>
Finish(value) == phase' = "idle" /\ outcome' = value /\ UNCHANGED failure

RunUnchanged == UNCHANGED <<run, cancelled, before, strange, reader>>

\* The download and the local pipeline leave the store alone.
RunLocal ==
    /\ phase = "local"
    /\ \/ cancelled /\ Finish("Cancelled")
       \/ Finish("Io")
       \/ Advance("check")
    /\ UNCHANGED <<store, identity>> /\ RunUnchanged

\* RemoteStagedOutput::new may fail before anything is requested.
LastCheck ==
    /\ phase = "check"
    /\ IF cancelled THEN Finish("Cancelled") ELSE Advance("upload") \/ Finish("Io")
    /\ UNCHANGED <<store, identity>> /\ RunUnchanged

-----------------------------------------------------------------------------
(* publish. Each step is one request to the store. *)

\* The primary error is kept while the staging object is removed.
Fails(value) == phase' = "abandon" /\ failure' = value /\ UNCHANGED outcome

\* A request takes effect and succeeds, or fails and has had its effect or not.
Request(effect, none, onSuccess, onError) ==
    \/ effect /\ onSuccess
    \/ (effect \/ none) /\ onError

Upload ==
    /\ phase = "upload"
    /\ Request(staged' = staged \cup {run}, UNCHANGED staged,
               Advance("invalidate"), Fails("NotPublished"))
    /\ UNCHANGED <<final, versions, puts, marker, identity>> /\ RunUnchanged

\* The output is not replaced as long as the old record may be there.
InvalidationFailedGoesOn == Advance("copy")
InvalidationFailed == Fails("NotPublished")

Invalidate ==
    /\ phase = "invalidate"
    /\ Request(marker' = NoMarker, UNCHANGED marker, Advance("copy"), InvalidationFailed)
    /\ UNCHANGED <<final, versions, puts, staged, identity>> /\ RunUnchanged

CopyFailed == Fails("PublicationUnknown")

Copy ==
    /\ phase = "copy"
    /\ Request(Replaced(Content(run)), UNCHANGED <<final, versions, puts>>,
               Advance("head"), CopyFailed)
    /\ UNCHANGED <<marker, staged, identity>> /\ RunUnchanged

\* An object without a version and without an ETag is refused as well.
Head ==
    /\ phase = "head"
    /\ \/ identity' = final /\ Advance("complete")
       \/ UNCHANGED identity /\ Fails("PublishedWithoutCompletion")
    /\ UNCHANGED store /\ RunUnchanged

CompletionOutcomeCertain == "PublishedWithoutCompletion"
CompletionOutcome == "CompletionUnknown"

\* The record may also turn out to be invalid before anything is requested.
WriteCompletion ==
    /\ phase = "complete"
    /\ \/ Request(marker' = Completion(run, identity), UNCHANGED marker,
                  Advance("cleanup"), Fails(CompletionOutcome))
       \/ UNCHANGED marker /\ Fails("PublishedWithoutCompletion")
    /\ UNCHANGED <<final, versions, puts, staged, identity>> /\ RunUnchanged

\* Only the staging object of this run is ever deleted.
CleanupStaging ==
    /\ phase = "cleanup"
    /\ Request(staged' = staged \ {run}, UNCHANGED staged,
               Finish("Ok"), Finish("CompletedCleanupUnknown"))
    /\ UNCHANGED <<final, versions, puts, marker, identity>> /\ RunUnchanged

\* After a failure the same is tried; its own failure is a second error.
Abandon ==
    /\ phase = "abandon"
    /\ \/ staged' = staged \ {run} /\ Finish(failure)
       \/ (staged' = staged \ {run} \/ UNCHANGED staged)
          /\ phase' = "idle" /\ outcome' = failure /\ failure' = "Cleanup"
    /\ UNCHANGED <<final, versions, puts, marker, identity>> /\ RunUnchanged

Crash ==
    /\ phase # "idle"
    /\ phase' = "idle" /\ outcome' = "Crashed" /\ UNCHANGED failure
    /\ UNCHANGED <<store, identity>> /\ RunUnchanged

\* Somebody else's object between a run's copy and its head would be taken for
\* the run's own: that is what single-writer coordination has to exclude.
Overwrite ==
    /\ phase # "head" /\ strange < MaxStrange
    /\ Replaced(Foreign) /\ strange' = strange + 1
    /\ UNCHANGED <<marker, staged, writer, reader>>

-----------------------------------------------------------------------------
(* download_completed_output *)

ReaderUnchanged == UNCHANGED <<store, writer, strange>>

ReadReturns(value) == readPc' = "idle" /\ readResult' = value

ReadMarker ==
    /\ readPc = "idle"
    /\ readMarker' = marker /\ captured' = NoObject /\ ranges' = Ranges /\ bytes' = {}
    /\ \/ ReadReturns("DownloadObject")
       \/ marker.schema = 1 /\ ReadReturns("CompletionIdentityRequired")
       \/ marker.schema = 2 /\ readPc' = "head" /\ readResult' = "Pending"
    /\ ReaderUnchanged

\* What a conditional request can be answered with: the object it asks for, or,
\* by a backend that does not heed the condition, the current one.
Answers(sought) ==
    {object \in versions \ {NoObject} :
        object = final \/ (sought.version # 0 /\ object.version = sought.version)}

\* The metadata under the recorded identity, checked again when it arrives.
ReadHead ==
    /\ readPc = "head"
    /\ \/ (ReadReturns("SnapshotPrecondition") \/ ReadReturns("DownloadObject"))
          /\ UNCHANGED captured
       \/ \E object \in Answers(readMarker) :
            IF IdentityMatches(readMarker, object)
            THEN captured' = object /\ readPc' = "ranges" /\ UNCHANGED readResult
            ELSE ReadReturns("InvalidSnapshot") /\ UNCHANGED captured
    /\ UNCHANGED <<readMarker, ranges, bytes>> /\ ReaderUnchanged

LastRange == ranges = 1

\* Each range is asked for, and its answer checked, by what the head request
\* told: by a version, if the object had one, also under a record without.
ReadRange ==
    /\ readPc = "ranges"
    /\ \/ (ReadReturns("SnapshotPrecondition") \/ ReadReturns("DownloadObject"))
          /\ UNCHANGED <<ranges, bytes>>
       \/ \E object \in Answers(IdentityOf(captured)) :
            IF IdentityMatches(IdentityOf(captured), object)
            THEN /\ bytes' = bytes \cup {object.data} /\ ranges' = ranges - 1
                 /\ IF LastRange THEN ReadReturns("Ok") ELSE UNCHANGED <<readPc, readResult>>
            ELSE ReadReturns("InvalidSnapshot") /\ UNCHANGED <<ranges, bytes>>
    /\ UNCHANGED <<readMarker, captured>> /\ ReaderUnchanged

-----------------------------------------------------------------------------

PublishStep ==
    \/ Upload \/ Invalidate \/ Copy \/ Head \/ WriteCompletion \/ CleanupStaging \/ Abandon

Next ==
    \/ Begin \/ Cancel \/ RunLocal \/ LastCheck \/ PublishStep \/ Crash \/ Overwrite
    \/ ReadMarker \/ ReadHead \/ ReadRange

Spec == Init /\ [][Next]_vars

-----------------------------------------------------------------------------
(* Properties *)

Outcomes == {"None", "Ok", "Io", "Cancelled", "Crashed", "NotPublished",
             "PublicationUnknown", "PublishedWithoutCompletion", "CompletionUnknown",
             "CompletedCleanupUnknown"}

TypeOK ==
    LET Objects == [data : 0..(Legacy + 1), version : Nat]
        Markers == [schema : 0..2, run : 0..MaxRuns, eTag : 0..(Legacy + 1), version : Nat]
    IN /\ final \in versions /\ versions \subseteq Objects /\ puts \in Nat
       /\ marker \in Markers /\ staged \subseteq 1..run
       /\ run \in 0..MaxRuns /\ strange \in 0..MaxStrange /\ cancelled \in BOOLEAN
       /\ phase \in {"idle", "local", "check", "upload", "invalidate", "copy", "head",
                     "complete", "cleanup", "abandon"}
       /\ identity \in Objects /\ outcome \in Outcomes
       /\ before \in [final : Objects, marker : Markers, staged : SUBSET (1..run)]
       /\ failure \in Outcomes \cup {"Cleanup"}
       /\ readPc \in {"idle", "head", "ranges"} /\ readMarker \in Markers
       /\ captured \in Objects /\ ranges \in 0..Ranges /\ bytes \subseteq 0..(Legacy + 1)

\* A completion record describes the bytes its run wrote: the identity that was
\* captured by a separate request after the copy is that of this run's output.
RecordDescribesRun ==
    marker.schema = 2 =>
        /\ marker.eTag = Content(marker.run)
        /\ \E object \in versions :
              object.data = Content(marker.run) /\ IdentityMatches(marker, object)

\* As long as only runs write, the output next to a completion record is the
\* one the record is about: wherever a run fails or crashes, an output that
\* was replaced does not stay under the old record.
RecordIsCurrent ==
    marker.schema = 2 /\ final.data # Foreign => final.data = Content(marker.run)

\* A reader that succeeds has received one object, and it is what the run named
\* in the completion record wrote, whatever happened to the output meanwhile.
ReadIsWhatWasCompleted ==
    readResult = "Ok" => bytes = {Content(readMarker.run)}

\* RemotePublicationOutcome, and Cancelled, claim no more than is so.
OutcomeIsTrue ==
    phase = "idle" /\ final.data # Foreign =>
        /\ outcome \in {"NotPublished", "Cancelled", "Io"} => final = before.final
        /\ outcome \in {"Cancelled", "Io"} => marker = before.marker /\ staged = before.staged
        /\ outcome = "PublicationUnknown" => marker = NoMarker
        /\ outcome = "PublishedWithoutCompletion" =>
              final.data = Content(run) /\ marker = NoMarker
        /\ outcome = "CompletionUnknown" =>
              final.data = Content(run) /\ marker \in {NoMarker, Completion(run, final)}
        /\ outcome \in {"Ok", "CompletedCleanupUnknown"} =>
              final.data = Content(run) /\ marker = Completion(run, final)

\* A run that returns leaves no staging object behind, unless it says that
\* removing it failed; nobody touches the staging objects of other runs.
StagingOwned ==
    /\ phase = "idle" /\ outcome \notin {"CompletedCleanupUnknown", "Crashed"}
          /\ failure # "Cleanup" => run \notin staged
    /\ before.staged \subseteq staged
\* A completion record is true of the run it names and of the output beside it.
RecordIsTrue == RecordDescribesRun /\ RecordIsCurrent

\* What a run returns is true of the output, the record and the staged objects.
ResultIsTrue == OutcomeIsTrue /\ StagingOwned
=============================================================================
