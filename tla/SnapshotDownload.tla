-------------------------- MODULE SnapshotDownload --------------------------
(***************************************************************************)
(* download_to_temp and download_captured of                               *)
(* crates/pipeline/src/object_store_io.rs: the metadata of an object is    *)
(* captured once, and the object is then read range by range into a local  *)
(* file, while others may replace it. Every response is checked against    *)
(* what was captured and what was asked for, and nothing is retried.       *)
(***************************************************************************)
EXTENDS Integers, Sequences

CONSTANTS
    RangeUnits,   \* CHUNK_BYTES, in units that a body may deliver
    Sizes,        \* the sizes of the objects
    MaxObjects    \* bound: objects put at the key

ASSUME RangeAssumption == RangeUnits \in Nat \ {0}
ASSUME SizesAssumption == Sizes \subseteq Nat
ASSUME BoundAssumption == MaxObjects \in Nat \ {0}

VARIABLES
    backend,   \* what the store identifies objects by
    current,   \* the object at the key
    pc,        \* where the download is
    captured,  \* the object whose metadata were captured
    offset,    \* the units that are complete in the file
    answer,    \* the object whose body is being received
    received,  \* the units received of the range
    file,      \* the units in the destination, each of some object
    result     \* what download_to_temp returned

world == <<backend, current>>
vars == <<world, pc, captured, offset, answer, received, file, result>>

\* Contents are told apart by a number; objects with equal contents are one.
NoObject == [id |-> 0, size |-> 0]
Unit(object, k) == <<object.id, k>>

Init ==
    /\ backend \in {"version", "etag", "neither"}
    /\ \E size \in Sizes : current = [id |-> 1, size |-> size]
    /\ pc = "create" /\ captured = NoObject /\ offset = 0
    /\ answer = NoObject /\ received = 0 /\ file = <<>> /\ result = "None"

-----------------------------------------------------------------------------

Replace ==
    /\ current.id < MaxObjects
    /\ \E size \in Sizes : current' = [id |-> current.id + 1, size |-> size]
    /\ UNCHANGED <<backend, pc, captured, offset, answer, received, file, result>>

Returns(value) == pc' = "returned" /\ result' = value
GoesOn(to) == pc' = to /\ UNCHANGED result

CreateFile ==
    /\ pc = "create"
    /\ Returns("OpenOutput") \/ GoesOn("head")
    /\ UNCHANGED <<world, captured, offset, answer, received, file>>

\* Metadata that name another object, or that do not identify it, are refused.
Capture ==
    /\ pc = "head"
    /\ \/ Returns("DownloadObject") /\ UNCHANGED captured
       \/ /\ captured' = current
          /\ Returns("InvalidSnapshot") \/ (backend # "neither" /\ GoesOn("range"))
    /\ UNCHANGED <<world, offset, answer, received, file>>

RangeEnd ==
    IF captured.size <= offset + RangeUnits THEN captured.size ELSE offset + RangeUnits
RangeLength == RangeEnd - offset

\* An object under a version stays readable; an ETag only names the current
\* one. A backend that ignores the condition answers with the current one.
Answers == {current} \cup (IF backend = "version" THEN {captured} ELSE {})

SizeMatches(object) == object.size = captured.size
IdentityMatchesAny(object) == TRUE
IdentityMatches(object) == object.id = captured.id

\* The response may also be about another key or another range.
Request ==
    /\ pc = "range" /\ offset < captured.size
    /\ \/ (Returns("SnapshotPrecondition") \/ Returns("DownloadObject"))
          /\ UNCHANGED <<answer, received>>
       \/ \E object \in Answers, asked \in BOOLEAN :
            IF SizeMatches(object) /\ IdentityMatches(object) /\ asked
            THEN answer' = object /\ received' = 0 /\ GoesOn("body")
            ELSE Returns("InvalidSnapshot") /\ UNCHANGED <<answer, received>>
    /\ UNCHANGED <<world, captured, offset, file>>

\* A chunk of the body, which may be longer than it should be.
BodyTooLong(total) == total > RangeLength

Receive ==
    /\ pc = "body"
    /\ \E units \in 1..(RangeUnits + 1) :
        LET total == received + units IN
        /\ total <= RangeUnits + 1
        /\ IF BodyTooLong(total)
           THEN /\ Returns("InvalidSnapshot")
                /\ UNCHANGED <<received, file>>
           ELSE \/ /\ received' = total /\ GoesOn("body")
                   /\ file' = file \o
                        [k \in 1..units |-> Unit(answer, offset + received + k)]
                \/ Returns("OpenOutput") /\ UNCHANGED <<received, file>>
    /\ UNCHANGED <<world, captured, offset, answer>>

BodyFails ==
    /\ pc = "body" /\ Returns("DownloadObject")
    /\ UNCHANGED <<world, captured, offset, answer, received, file>>

\* The body may end at any time: the length decides.
BodyComplete == received = RangeLength

BodyEnds ==
    /\ pc = "body"
    /\ IF BodyComplete
       THEN offset' = RangeEnd /\ GoesOn("range")
       ELSE Returns("InvalidSnapshot") /\ UNCHANGED offset
    /\ UNCHANGED <<world, captured, answer, received, file>>

Finish ==
    /\ pc = "range" /\ offset >= captured.size
    /\ Returns("Ok")
    /\ UNCHANGED <<world, captured, offset, answer, received, file>>

-----------------------------------------------------------------------------

Next ==
    \/ Replace
    \/ CreateFile \/ Capture \/ Request \/ Receive \/ BodyFails \/ BodyEnds \/ Finish
    \/ pc = "returned" /\ UNCHANGED vars

Spec == Init /\ [][Next]_vars

-----------------------------------------------------------------------------
(* Properties *)

\* The file is the beginning of one object, the one whose metadata are
\* returned, and all of it when the download succeeds: no range of another
\* object, no gap and no overlap, however responses are cut and however often
\* the object is replaced meanwhile.
SnapshotIsWhole ==
    /\ Len(file) <= captured.size
    /\ file = [k \in 1..Len(file) |-> Unit(captured, k)]
    /\ result = "Ok" => Len(file) = captured.size
=============================================================================
