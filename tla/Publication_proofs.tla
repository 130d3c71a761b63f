------------------------- MODULE Publication_proofs -------------------------
(***************************************************************************)
(* Proofs about the two ways in which an output is published: to a path,   *)
(* by a rename of a staged file (StagedOutput), for every set of runs, and *)
(* to an object store, by requests (RemotePublication), for any number of  *)
(* runs, of strangers and of ranges, with and without versions.            *)
(***************************************************************************)
EXTENDS RemotePublication, StagedOutput, TLAPS

-----------------------------------------------------------------------------
(* To a path. The invariant says what a crash could leave before it        *)
(* happens: every file the output path could name has synchronized         *)
(* contents, and none of them is older than a file whose publication was   *)
(* reported as durable.                                                    *)

\* A file is complete before it is synchronized, and synchronized before it
\* can be found at the output path.
Contents ==
    /\ ~crashed => \A o \in Owners : pc[o] = "sync" => data[o] = "all"
    /\ \A o \in durable : data[o] = "all"
    /\ \A o \in Owners : pc[o] \in {"rename", "syncParent"} => o \in durable
    /\ possible \subseteq durable \cup {Old}

\* The renames are numbered, and the output path names the latest of them.
Places ==
    /\ \A f \in Owners \cup {Old} : place[f] <= renames
    /\ place[Old] = 0
    /\ ~crashed => place[entry] = renames
    /\ \A o \in Owners : place[o] > 0 <=>
          pc[o] = "syncParent" \/ result[o] \in {"Ok", "PublishedDurabilityUncertain"}
    /\ \A o \in Owners : result[o] = "None" <=> pc[o] # "done"

\* Nothing a crash could bring back is older than what was reported durable.
Durability ==
    \A o \in Owners : result[o] = "Ok" => \A f \in possible : place[o] <= place[f]

StagingIInv == StagingTypeOK /\ Contents /\ Places /\ Durability /\ OwnStagedFile

LEMMA StagingInitialStep == StagingInit => StagingIInv
<1> SUFFICES ASSUME StagingInit PROVE StagingIInv
  OBVIOUS
<1>1. StagingTypeOK
  BY DEF StagingInit, StagingTypeOK
<1>2. Contents /\ OwnStagedFile
  BY DEF StagingInit, Contents, OwnStagedFile
<1>3. Places /\ Durability
  BY OldAssumption DEF StagingInit, Places, Durability
<1> QED
  BY <1>1, <1>2, <1>3 DEF StagingIInv

\* A failure only drops the staged file: the output is as it was.
LEMMA StagingFailsStep ==
    ASSUME StagingIInv, NEW o \in Owners, NEW failed, StagingFails(o, failed), UNCHANGED crashed,
           \/ failed # "ParentSync" /\ pc[o] \in {"start", "write", "sync", "rename"}
           \/ failed = "ParentSync" /\ pc[o] = "syncParent"
    PROVE  StagingIInv'
<1> USE DEF StagingIInv, StagingFails, Returns, Outcome, files
<1>1. StagingTypeOK'
  BY DEF StagingTypeOK
<1>2. Contents'
  BY DEF StagingTypeOK, Contents
<1>3. Places'
  BY DEF StagingTypeOK, Places
<1>4. Durability'
  BY DEF StagingTypeOK, Durability
<1>5. OwnStagedFile'
  BY DEF StagingTypeOK, OwnStagedFile
<1> QED
  BY <1>1, <1>2, <1>3, <1>4, <1>5

LEMMA StagingInductiveStep == StagingIInv /\ [StagingNext]_stagingVars => StagingIInv'
<1> SUFFICES ASSUME StagingIInv, [StagingNext]_stagingVars PROVE StagingIInv'
  OBVIOUS
<1>1. ASSUME NEW o \in Owners, Create(o) PROVE StagingIInv'
  <2>1. CASE StagingFails(o, "Create")
    BY <1>1, <2>1, StagingFailsStep DEF Create, At
  <2>2. CASE ~StagingFails(o, "Create")
    BY <1>1, <2>2
       DEF Create, At, Goes, files, StagingIInv, StagingTypeOK, Contents, Places, Durability, OwnStagedFile
  <2> QED
    BY <2>1, <2>2
<1>2. ASSUME NEW o \in Owners, WriteAndClose(o) PROVE StagingIInv'
  <2>1. CASE StagingFails(o, "Write")
    BY <1>2, <2>1, StagingFailsStep DEF WriteAndClose, At
  <2>2. CASE StagingFails(o, "Close")
    BY <1>2, <2>2, StagingFailsStep DEF WriteAndClose, At
  <2>3. CASE ~StagingFails(o, "Write") /\ ~StagingFails(o, "Close")
    BY <1>2, <2>3
       DEF WriteAndClose, At, Goes, directory, StagingIInv, StagingTypeOK, Contents, Places, Durability,
           OwnStagedFile
  <2> QED
    BY <2>1, <2>2, <2>3
<1>3. ASSUME NEW o \in Owners, SyncFile(o) PROVE StagingIInv'
  <2>1. CASE StagingFails(o, "FileSync")
    BY <1>3, <2>1, StagingFailsStep DEF SyncFile, At
  <2>2. CASE ~StagingFails(o, "FileSync")
    BY <1>3, <2>2
       DEF SyncFile, At, Goes, directory, StagingIInv, StagingTypeOK, Contents, Places, Durability,
           OwnStagedFile
  <2> QED
    BY <2>1, <2>2
<1>4. ASSUME NEW o \in Owners, Persist(o) PROVE StagingIInv'
  <2>1. CASE StagingFails(o, "Rename")
    BY <1>4, <2>1, StagingFailsStep DEF Persist, At
  <2>2. CASE ~StagingFails(o, "Rename")
    <3> USE <1>4, <2>2, OldAssumption DEF Persist, At, Goes, Renamed, files, StagingIInv
    <3>1. StagingTypeOK'
      BY DEF StagingTypeOK
    <3>2. Contents'
      BY DEF StagingTypeOK, Contents
    <3>3. Places'
      BY DEF StagingTypeOK, Places
    <3>4. Durability'
      BY DEF StagingTypeOK, Places, Durability
    <3>5. OwnStagedFile'
      BY DEF StagingTypeOK, OwnStagedFile
    <3> QED
      BY <3>1, <3>2, <3>3, <3>4, <3>5
  <2> QED
    BY <2>1, <2>2
<1>5. ASSUME NEW o \in Owners, SyncParent(o) PROVE StagingIInv'
  <2>1. CASE StagingFails(o, "ParentSync")
    BY <1>5, <2>1, StagingFailsStep DEF SyncParent, At
  <2>2. CASE ~StagingFails(o, "ParentSync")
    <3> USE <1>5, <2>2 DEF SyncParent, At, Returns, files, StagingIInv
    <3>1. StagingTypeOK'
      BY DEF StagingTypeOK
    <3>2. Contents'
      BY DEF StagingTypeOK, Contents
    <3>3. Places'
      BY DEF StagingTypeOK, Places
    <3>4. Durability'
      BY DEF StagingTypeOK, Places, Durability
    <3>5. OwnStagedFile'
      BY DEF StagingTypeOK, OwnStagedFile
    <3> QED
      BY <3>1, <3>2, <3>3, <3>4, <3>5
  <2> QED
    BY <2>1, <2>2
<1>6. CASE MachineCrash
  <2> USE <1>6 DEF MachineCrash, StagingIInv
  <2>1. StagingTypeOK'
    BY DEF StagingTypeOK
  <2>2. Contents'
    BY DEF StagingTypeOK, Contents
  <2>3. Places'
    BY DEF StagingTypeOK, Places
  <2>4. Durability' /\ OwnStagedFile'
    BY DEF Durability, OwnStagedFile
  <2> QED
    BY <2>1, <2>2, <2>3, <2>4
<1>7. CASE UNCHANGED stagingVars
  BY <1>7 DEF stagingVars, files, directory, StagingIInv, StagingTypeOK, Contents, Places, Durability, OwnStagedFile
<1> QED
  BY <1>1, <1>2, <1>3, <1>4, <1>5, <1>6, <1>7 DEF StagingNext

THEOREM StagingInvariance == StagingSpec => []StagingIInv
  BY StagingInitialStep, StagingInductiveStep, PTL DEF StagingSpec

\* Publication is atomic and durable, for any number of runs that publish to
\* the same path (StagedFile::publish): the output is a whole file before and
\* after a crash, and one reported as published is not undone by it.
THEOREM CrashSafe == StagingSpec => [](StagingTypeOK /\ SurvivesCrashes)
<1>1. StagingIInv => OutputIsWhole
  BY DEF StagingIInv, StagingTypeOK, Contents, OutputIsWhole
<1>2. StagingIInv => PublishedIsDurable
  BY DEF StagingIInv, StagingTypeOK, Durability, PublishedIsDurable
<1>3. StagingIInv => StagingTypeOK /\ SurvivesCrashes
  BY <1>1, <1>2 DEF StagingIInv, SurvivesCrashes
<1> QED
  BY <1>3, StagingInvariance, PTL

\* The outcome a run reports (LocalPublicationOutcome) is true of the output, and
\* every run removes its own staged file and no other.
THEOREM OutcomesAreTrue == StagingSpec => []StagingResultIsTrue
<1>1. StagingIInv => StagingOutcomeIsTrue
  BY DEF StagingIInv, StagingTypeOK, Places, StagingOutcomeIsTrue
<1>2. StagingIInv => StagingResultIsTrue
  BY <1>1 DEF StagingIInv, StagingResultIsTrue
<1> QED
  BY <1>2, StagingInvariance, PTL

-----------------------------------------------------------------------------
(* To an object store. *)

\* A record names an object that was at the output key, with its run's bytes.
Known(record) ==
    record.schema = 2 =>
        /\ record.run \in Nat /\ record.eTag = Content(record.run)
        /\ [data |-> record.eTag, version |-> record.version] \in versions

\* Versions identify objects.
Versioning ==
    /\ \A object \in versions : object.version <= puts
    /\ \A a, b \in versions : a.version # 0 /\ a.version = b.version => a = b

Recorded == Known(marker) /\ RecordIsCurrent

\* A stranger's object is at the output key: there is no more to say of it.
Strange == final.data = Foreign

\* How far a run has come tells what the store looks like.
Phases ==
    /\ phase # "idle" => run > 0
    /\ phase \in {"local", "check"} => marker = before.marker /\ staged = before.staged
    /\ phase \in {"local", "check", "upload", "invalidate"} => final = before.final \/ Strange
    /\ phase \in {"copy", "head", "complete"} => marker = NoMarker
    /\ phase = "head" => final.data = Content(run)
    /\ phase \in {"complete", "cleanup"} =>
          /\ identity \in versions /\ identity.data = Content(run)
          /\ final = identity \/ Strange
    /\ phase = "cleanup" => marker = Completion(run, identity)

\* What the primary error says is so already while the run cleans up.
Failing ==
    phase = "abandon" =>
        /\ failure \in {"NotPublished", "PublicationUnknown", "PublishedWithoutCompletion",
                        "CompletionUnknown"}
        /\ failure = "NotPublished" => final = before.final \/ Strange
        /\ failure = "PublicationUnknown" => marker = NoMarker
        /\ failure = "PublishedWithoutCompletion" =>
              (final.data = Content(run) \/ Strange) /\ marker = NoMarker
        /\ failure = "CompletionUnknown" =>
              \/ Strange
              \/ final.data = Content(run) /\ marker \in {NoMarker, Completion(run, final)}

Staging ==
    /\ StagingOwned
    /\ run \notin before.staged
    /\ phase \in {"local", "check", "upload"} => run \notin staged

\* What the reader has been told and has received so far comes from one run.
Reading ==
    /\ Known(readMarker)
    /\ readPc # "idle" => readMarker.schema = 2 /\ readResult # "Ok"
    /\ readPc = "head" => bytes = {} /\ ranges = Ranges
    /\ readPc = "ranges" =>
          /\ captured \in versions /\ captured.data = Content(readMarker.run)
          /\ bytes \subseteq {Content(readMarker.run)} /\ ranges > 0
          /\ ranges < Ranges => bytes = {Content(readMarker.run)}
    /\ ReadIsWhatWasCompleted

IInv ==
    /\ TypeOK /\ Versioning /\ Recorded /\ Phases /\ Failing /\ OutcomeIsTrue /\ Staging
    /\ Reading

LEMMA ContentIsData ==
    \A r \in Nat : Content(r) \in Nat /\ Content(r) < Foreign /\ Content(r) # Foreign
  BY StoreAssumption DEF Content, Foreign

LEMMA InductiveStep == IInv /\ [Next]_vars => IInv'
<1> SUFFICES ASSUME IInv, [Next]_vars PROVE IInv'
  OBVIOUS
<1> USE StoreAssumption, BoundAssumption, ContentIsData
<1>1. CASE Begin
  <2> USE <1>1 DEF Begin, store, reader, IInv
  <2>1. TypeOK'
    BY DEF TypeOK, Phases, Strange, Failing, Foreign, Legacy, Outcomes, NoObject, NoMarker
  <2>2. Versioning'
    BY DEF TypeOK, Versioning
  <2>3. Recorded'
    BY DEF TypeOK, Recorded, Known, RecordIsCurrent, Phases, Strange, NoMarker
  <2>4. Phases'
    BY DEF TypeOK, Phases, Strange, NoMarker, Completion
  <2>5. Failing'
    BY DEF TypeOK, Failing, Phases, Strange, Completion, NoMarker
  <2>6. OutcomeIsTrue'
    BY DEF TypeOK, OutcomeIsTrue, Phases, Strange, Failing, Completion, NoMarker
  <2>7. Staging'
    BY DEF TypeOK, Staging, StagingOwned, Phases, Strange
  <2>8. Reading'
    BY DEF TypeOK, Reading, Recorded, Versioning, Known, IdentityMatches, ReadIsWhatWasCompleted
  <2> QED
    BY <2>1, <2>2, <2>3, <2>4, <2>5, <2>6, <2>7, <2>8
<1>2. CASE Cancel
  <2> USE <1>2 DEF Cancel, store, reader, IInv
  <2>1. TypeOK'
    BY DEF TypeOK, Phases, Strange, Failing, Foreign, Legacy, Outcomes, NoObject, NoMarker
  <2>2. Versioning'
    BY DEF TypeOK, Versioning
  <2>3. Recorded'
    BY DEF TypeOK, Recorded, Known, RecordIsCurrent, Phases, Strange, NoMarker
  <2>4. Phases'
    BY DEF TypeOK, Phases, Strange, NoMarker, Completion
  <2>5. Failing'
    BY DEF TypeOK, Failing, Phases, Strange, Completion, NoMarker
  <2>6. OutcomeIsTrue'
    BY DEF TypeOK, OutcomeIsTrue, Phases, Strange, Failing, Completion, NoMarker
  <2>7. Staging'
    BY DEF TypeOK, Staging, StagingOwned, Phases, Strange
  <2>8. Reading'
    BY DEF TypeOK, Reading, Recorded, Versioning, Known, IdentityMatches, ReadIsWhatWasCompleted
  <2> QED
    BY <2>1, <2>2, <2>3, <2>4, <2>5, <2>6, <2>7, <2>8
<1>3. CASE RunLocal
  <2> USE <1>3 DEF RunLocal, Request, Advance, Fails, Finish, RunUnchanged, store, reader, IInv
  <2>1. TypeOK'
    BY DEF TypeOK, Phases, Strange, Failing, Foreign, Legacy, Outcomes, NoObject, NoMarker
  <2>2. Versioning'
    BY DEF TypeOK, Versioning
  <2>3. Recorded'
    BY DEF TypeOK, Recorded, Known, RecordIsCurrent, Phases, Strange, NoMarker
  <2>4. Phases'
    BY DEF TypeOK, Phases, Strange, NoMarker, Completion
  <2>5. Failing'
    BY DEF TypeOK, Failing, Phases, Strange, Completion, NoMarker
  <2>6. OutcomeIsTrue'
    BY DEF TypeOK, OutcomeIsTrue, Phases, Strange, Failing, Completion, NoMarker
  <2>7. Staging'
    BY DEF TypeOK, Staging, StagingOwned, Phases, Strange
  <2>8. Reading'
    BY DEF TypeOK, Reading, Recorded, Versioning, Known, IdentityMatches, ReadIsWhatWasCompleted
  <2> QED
    BY <2>1, <2>2, <2>3, <2>4, <2>5, <2>6, <2>7, <2>8
<1>4. CASE LastCheck
  <2> USE <1>4 DEF LastCheck, Request, Advance, Fails, Finish, RunUnchanged, store, reader, IInv
  <2>1. TypeOK'
    BY DEF TypeOK, Phases, Strange, Failing, Foreign, Legacy, Outcomes, NoObject, NoMarker
  <2>2. Versioning'
    BY DEF TypeOK, Versioning
  <2>3. Recorded'
    BY DEF TypeOK, Recorded, Known, RecordIsCurrent, Phases, Strange, NoMarker
  <2>4. Phases'
    BY DEF TypeOK, Phases, Strange, NoMarker, Completion
  <2>5. Failing'
    BY DEF TypeOK, Failing, Phases, Strange, Completion, NoMarker
  <2>6. OutcomeIsTrue'
    BY DEF TypeOK, OutcomeIsTrue, Phases, Strange, Failing, Completion, NoMarker
  <2>7. Staging'
    BY DEF TypeOK, Staging, StagingOwned, Phases, Strange
  <2>8. Reading'
    BY DEF TypeOK, Reading, Recorded, Versioning, Known, IdentityMatches, ReadIsWhatWasCompleted
  <2> QED
    BY <2>1, <2>2, <2>3, <2>4, <2>5, <2>6, <2>7, <2>8
<1>5. CASE Upload
  <2> USE <1>5 DEF Upload, Request, Advance, Fails, Finish, RunUnchanged, store, reader, IInv
  <2>1. TypeOK'
    <3>1. run \in 1..run /\ staged \subseteq 1..run
      BY DEF TypeOK, Phases, Strange
    <3>2. staged' \subseteq 1..run
      BY <3>1
    <3> QED
      BY <3>2 DEF TypeOK, Outcomes
  <2>2. Versioning'
    BY DEF TypeOK, Versioning
  <2>3. Recorded'
    BY DEF TypeOK, Recorded, Known, RecordIsCurrent, Phases, Strange, NoMarker
  <2>4. Phases'
    BY DEF TypeOK, Phases, Strange, NoMarker, Completion
  <2>5. Failing'
    BY DEF TypeOK, Failing, Phases, Strange, Completion, NoMarker
  <2>6. OutcomeIsTrue'
    BY DEF TypeOK, OutcomeIsTrue, Phases, Strange, Failing, Completion, NoMarker
  <2>7. Staging'
    BY DEF TypeOK, Staging, StagingOwned, Phases, Strange
  <2>8. Reading'
    BY DEF TypeOK, Reading, Recorded, Versioning, Known, IdentityMatches, ReadIsWhatWasCompleted
  <2> QED
    BY <2>1, <2>2, <2>3, <2>4, <2>5, <2>6, <2>7, <2>8
<1>6. CASE Invalidate
  <2> USE <1>6 DEF Invalidate, Request, Advance, Fails, Finish, RunUnchanged, store, reader, InvalidationFailed, IInv
  <2>1. TypeOK'
    BY DEF TypeOK, Phases, Strange, Failing, Foreign, Legacy, Outcomes, NoObject, NoMarker
  <2>2. Versioning'
    BY DEF TypeOK, Versioning
  <2>3. Recorded'
    BY DEF TypeOK, Recorded, Known, RecordIsCurrent, Phases, Strange, NoMarker
  <2>4. Phases'
    BY DEF TypeOK, Phases, Strange, NoMarker, Completion
  <2>5. Failing'
    BY DEF TypeOK, Failing, Phases, Strange, Completion, NoMarker
  <2>6. OutcomeIsTrue'
    BY DEF TypeOK, OutcomeIsTrue, Phases, Strange, Failing, Completion, NoMarker
  <2>7. Staging'
    BY DEF TypeOK, Staging, StagingOwned, Phases, Strange
  <2>8. Reading'
    BY DEF TypeOK, Reading, Recorded, Versioning, Known, IdentityMatches, ReadIsWhatWasCompleted
  <2> QED
    BY <2>1, <2>2, <2>3, <2>4, <2>5, <2>6, <2>7, <2>8
<1>7. CASE Copy
  <2> USE <1>7 DEF Copy, Request, Advance, Fails, Finish, RunUnchanged, store, reader, CopyFailed, Replaced, Object, IInv
  <2>1. TypeOK'
    BY DEF TypeOK, Phases, Strange, Failing, Foreign, Legacy, Outcomes, NoObject, NoMarker
  <2>2. Versioning'
    BY DEF TypeOK, Versioning
  <2>3. Recorded'
    BY DEF TypeOK, Recorded, Known, RecordIsCurrent, Phases, Strange, NoMarker
  <2>4. Phases'
    BY DEF TypeOK, Phases, Strange, NoMarker, Completion
  <2>5. Failing'
    BY DEF TypeOK, Failing, Phases, Strange, Completion, NoMarker
  <2>6. OutcomeIsTrue'
    BY DEF TypeOK, OutcomeIsTrue, Phases, Strange, Failing, Completion, NoMarker
  <2>7. Staging'
    BY DEF TypeOK, Staging, StagingOwned, Phases, Strange
  <2>8. Reading'
    BY DEF TypeOK, Reading, Recorded, Versioning, Known, IdentityMatches, ReadIsWhatWasCompleted
  <2> QED
    BY <2>1, <2>2, <2>3, <2>4, <2>5, <2>6, <2>7, <2>8
<1>8. CASE Head
  <2> USE <1>8 DEF Head, Request, Advance, Fails, Finish, RunUnchanged, store, reader, IInv
  <2>1. TypeOK'
    BY DEF TypeOK, Phases, Strange, Failing, Foreign, Legacy, Outcomes, NoObject, NoMarker
  <2>2. Versioning'
    BY DEF TypeOK, Versioning
  <2>3. Recorded'
    BY DEF TypeOK, Recorded, Known, RecordIsCurrent, Phases, Strange, NoMarker
  <2>4. Phases'
    BY DEF TypeOK, Phases, Strange, NoMarker, Completion
  <2>5. Failing'
    BY DEF TypeOK, Failing, Phases, Strange, Completion, NoMarker
  <2>6. OutcomeIsTrue'
    BY DEF TypeOK, OutcomeIsTrue, Phases, Strange, Failing, Completion, NoMarker
  <2>7. Staging'
    BY DEF TypeOK, Staging, StagingOwned, Phases, Strange
  <2>8. Reading'
    BY DEF TypeOK, Reading, Recorded, Versioning, Known, IdentityMatches, ReadIsWhatWasCompleted
  <2> QED
    BY <2>1, <2>2, <2>3, <2>4, <2>5, <2>6, <2>7, <2>8
<1>9. CASE WriteCompletion
  <2> USE <1>9 DEF WriteCompletion, Request, Advance, Fails, Finish, RunUnchanged, store, reader, CompletionOutcome, Completion, IInv
  <2>1. TypeOK'
    BY DEF TypeOK, Phases, Strange, Failing, Foreign, Legacy, Outcomes, NoObject, NoMarker
  <2>2. Versioning'
    BY DEF TypeOK, Versioning
  <2>3. Recorded'
    BY DEF TypeOK, Recorded, Known, RecordIsCurrent, Phases, Strange, NoMarker
  <2>4. Phases'
    BY DEF TypeOK, Phases, Strange, NoMarker, Completion
  <2>5. Failing'
    BY DEF TypeOK, Failing, Phases, Strange, Completion, NoMarker
  <2>6. OutcomeIsTrue'
    BY DEF TypeOK, OutcomeIsTrue, Phases, Strange, Failing, Completion, NoMarker
  <2>7. Staging'
    BY DEF TypeOK, Staging, StagingOwned, Phases, Strange
  <2>8. Reading'
    BY DEF TypeOK, Reading, Recorded, Versioning, Known, IdentityMatches, ReadIsWhatWasCompleted
  <2> QED
    BY <2>1, <2>2, <2>3, <2>4, <2>5, <2>6, <2>7, <2>8
<1>10. CASE CleanupStaging
  <2> USE <1>10 DEF CleanupStaging, Request, Advance, Fails, Finish, RunUnchanged, store, reader, IInv
  <2>1. TypeOK'
    BY DEF TypeOK, Phases, Strange, Failing, Foreign, Legacy, Outcomes, NoObject, NoMarker
  <2>2. Versioning'
    BY DEF TypeOK, Versioning
  <2>3. Recorded'
    BY DEF TypeOK, Recorded, Known, RecordIsCurrent, Phases, Strange, NoMarker
  <2>4. Phases'
    BY DEF TypeOK, Phases, Strange, NoMarker, Completion
  <2>5. Failing'
    BY DEF TypeOK, Failing, Phases, Strange, Completion, NoMarker
  <2>6. OutcomeIsTrue'
    BY DEF TypeOK, OutcomeIsTrue, Phases, Strange, Failing, Completion, NoMarker
  <2>7. Staging'
    BY DEF TypeOK, Staging, StagingOwned, Phases, Strange
  <2>8. Reading'
    BY DEF TypeOK, Reading, Recorded, Versioning, Known, IdentityMatches, ReadIsWhatWasCompleted
  <2> QED
    BY <2>1, <2>2, <2>3, <2>4, <2>5, <2>6, <2>7, <2>8
<1>11. CASE Abandon
  <2> USE <1>11 DEF Abandon, Request, Advance, Fails, Finish, RunUnchanged, store, reader, IInv
  <2>1. TypeOK'
    BY DEF TypeOK, Phases, Strange, Failing, Foreign, Legacy, Outcomes, NoObject, NoMarker
  <2>2. Versioning'
    BY DEF TypeOK, Versioning
  <2>3. Recorded'
    BY DEF TypeOK, Recorded, Known, RecordIsCurrent, Phases, Strange, NoMarker
  <2>4. Phases'
    BY DEF TypeOK, Phases, Strange, NoMarker, Completion
  <2>5. Failing'
    BY DEF TypeOK, Failing, Phases, Strange, Completion, NoMarker
  <2>6. OutcomeIsTrue'
    BY DEF TypeOK, OutcomeIsTrue, Phases, Strange, Failing, Completion, NoMarker
  <2>7. Staging'
    BY DEF TypeOK, Staging, StagingOwned, Phases, Strange
  <2>8. Reading'
    BY DEF TypeOK, Reading, Recorded, Versioning, Known, IdentityMatches, ReadIsWhatWasCompleted
  <2> QED
    BY <2>1, <2>2, <2>3, <2>4, <2>5, <2>6, <2>7, <2>8
<1>12. CASE Crash
  <2> USE <1>12 DEF Crash, Request, Advance, Fails, Finish, RunUnchanged, store, reader, IInv
  <2>1. TypeOK'
    BY DEF TypeOK, Phases, Strange, Failing, Foreign, Legacy, Outcomes, NoObject, NoMarker
  <2>2. Versioning'
    BY DEF TypeOK, Versioning
  <2>3. Recorded'
    BY DEF TypeOK, Recorded, Known, RecordIsCurrent, Phases, Strange, NoMarker
  <2>4. Phases'
    BY DEF TypeOK, Phases, Strange, NoMarker, Completion
  <2>5. Failing'
    BY DEF TypeOK, Failing, Phases, Strange, Completion, NoMarker
  <2>6. OutcomeIsTrue'
    BY DEF TypeOK, OutcomeIsTrue, Phases, Strange, Failing, Completion, NoMarker
  <2>7. Staging'
    BY DEF TypeOK, Staging, StagingOwned, Phases, Strange
  <2>8. Reading'
    BY DEF TypeOK, Reading, Recorded, Versioning, Known, IdentityMatches, ReadIsWhatWasCompleted
  <2> QED
    BY <2>1, <2>2, <2>3, <2>4, <2>5, <2>6, <2>7, <2>8
<1>13. CASE Overwrite
  <2> USE <1>13 DEF Overwrite, Replaced, Object, writer, reader, IInv
  <2>1. TypeOK'
    BY DEF TypeOK, Phases, Strange, Failing, Foreign, Legacy, Outcomes, NoObject, NoMarker
  <2>2. Versioning'
    BY DEF TypeOK, Versioning
  <2>3. Recorded'
    BY DEF TypeOK, Recorded, Known, RecordIsCurrent, Phases, Strange, NoMarker
  <2>4. Phases'
    BY DEF TypeOK, Phases, Strange, NoMarker, Completion
  <2>5. Failing'
    BY DEF TypeOK, Failing, Phases, Strange, Completion, NoMarker
  <2>6. OutcomeIsTrue'
    BY DEF TypeOK, OutcomeIsTrue, Phases, Strange, Failing, Completion, NoMarker
  <2>7. Staging'
    BY DEF TypeOK, Staging, StagingOwned, Phases, Strange
  <2>8. Reading'
    BY DEF TypeOK, Reading, Recorded, Versioning, Known, IdentityMatches, ReadIsWhatWasCompleted
  <2> QED
    BY <2>1, <2>2, <2>3, <2>4, <2>5, <2>6, <2>7, <2>8
<1>14. CASE ReadMarker
  <2> USE <1>14 DEF ReadMarker, ReaderUnchanged, ReadReturns, store, writer, IInv
  <2>1. TypeOK'
    BY DEF TypeOK, Phases, Strange, Failing, Foreign, Legacy, Outcomes, NoObject, NoMarker
  <2>2. Versioning'
    BY DEF TypeOK, Versioning
  <2>3. Recorded'
    BY DEF TypeOK, Recorded, Known, RecordIsCurrent, Phases, Strange, NoMarker
  <2>4. Phases'
    BY DEF TypeOK, Phases, Strange, NoMarker, Completion
  <2>5. Failing'
    BY DEF TypeOK, Failing, Phases, Strange, Completion, NoMarker
  <2>6. OutcomeIsTrue'
    BY DEF TypeOK, OutcomeIsTrue, Phases, Strange, Failing, Completion, NoMarker
  <2>7. Staging'
    BY DEF TypeOK, Staging, StagingOwned, Phases, Strange
  <2>8. Reading'
    BY DEF TypeOK, Reading, Recorded, Versioning, Known, IdentityMatches, ReadIsWhatWasCompleted
  <2> QED
    BY <2>1, <2>2, <2>3, <2>4, <2>5, <2>6, <2>7, <2>8
<1>15. CASE ReadHead
  <2> USE <1>15 DEF ReadHead, ReaderUnchanged, ReadReturns, store, writer, Answers, IInv
  <2>1. TypeOK'
    BY DEF TypeOK, Phases, Strange, Failing, Foreign, Legacy, Outcomes, NoObject, NoMarker
  <2>2. Versioning'
    BY DEF TypeOK, Versioning
  <2>3. Recorded'
    BY DEF TypeOK, Recorded, Known, RecordIsCurrent, Phases, Strange, NoMarker
  <2>4. Phases'
    BY DEF TypeOK, Phases, Strange, NoMarker, Completion
  <2>5. Failing'
    BY DEF TypeOK, Failing, Phases, Strange, Completion, NoMarker
  <2>6. OutcomeIsTrue'
    BY DEF TypeOK, OutcomeIsTrue, Phases, Strange, Failing, Completion, NoMarker
  <2>7. Staging'
    BY DEF TypeOK, Staging, StagingOwned, Phases, Strange
  <2>8. Reading'
    BY DEF TypeOK, Reading, Recorded, Versioning, Known, IdentityMatches, ReadIsWhatWasCompleted
  <2> QED
    BY <2>1, <2>2, <2>3, <2>4, <2>5, <2>6, <2>7, <2>8
<1>16. CASE ReadRange
  <2> USE <1>16 DEF ReaderUnchanged, store, writer, IInv
  <2>1. /\ readMarker.schema = 2 /\ readMarker.run \in Nat /\ ranges > 0
        /\ (ranges < Ranges => bytes = {Content(readMarker.run)})
        /\ bytes \subseteq {Content(readMarker.run)}
    BY DEF ReadRange, Reading, Known
  <2>2. \A object \in Answers(IdentityOf(captured)) :
           IdentityMatches(IdentityOf(captured), object) =>
              object.data = Content(readMarker.run)
    BY <2>1 DEF ReadRange, Answers, IdentityMatches, IdentityOf, Reading, Versioning, TypeOK
  <2>3. \/ /\ readPc' = "idle" /\ UNCHANGED <<ranges, bytes>>
           /\ readResult' \in {"SnapshotPrecondition", "DownloadObject", "InvalidSnapshot"}
        \/ /\ bytes' = {Content(readMarker.run)} /\ ranges' = ranges - 1
           /\ \/ ranges = 1 /\ readPc' = "idle" /\ readResult' = "Ok"
              \/ ranges # 1 /\ UNCHANGED <<readPc, readResult>>
    BY <2>1, <2>2 DEF ReadRange, ReadReturns, LastRange
  <2>4. UNCHANGED <<readMarker, captured>> /\ readPc = "ranges" /\ ReaderUnchanged
    BY DEF ReadRange
  <2>5. TypeOK'
    <3>1. Content(readMarker.run) \in 0..(Legacy + 1)
      BY <2>1 DEF Foreign, Legacy
    <3>2. bytes' \subseteq 0..(Legacy + 1)
      BY <2>1, <2>3, <3>1
    <3>3. ranges \in 0..Ranges /\ Ranges \in Nat
      BY DEF TypeOK
    <3>4. ranges' \in 0..Ranges
      BY <2>1, <2>3, <3>3
    <3> QED
      BY <2>3, <2>4, <3>2, <3>4 DEF TypeOK
  <2>6. (Versioning /\ Recorded /\ Phases /\ Failing /\ OutcomeIsTrue /\ Staging)'
    BY <2>4 DEF Versioning, Recorded, Known, RecordIsCurrent, Phases, Strange, Completion, Failing,
                OutcomeIsTrue, Staging, StagingOwned
  <2>7. Reading'
    BY <2>1, <2>3, <2>4 DEF TypeOK, Reading, Known, ReadIsWhatWasCompleted
  <2> QED
    BY <2>5, <2>6, <2>7
<1>17. CASE UNCHANGED vars
  BY <1>17 DEF vars, store, writer, reader, IInv, TypeOK, Versioning, Recorded, Known, RecordIsCurrent, Phases, Strange, Failing, OutcomeIsTrue, Completion, Staging, StagingOwned, Reading, ReadIsWhatWasCompleted
<1> QED
  BY <1>1, <1>2, <1>3, <1>4, <1>5, <1>6, <1>7, <1>8, <1>9, <1>10, <1>11, <1>12, <1>13, <1>14, <1>15, <1>16, <1>17 DEF Next, PublishStep

LEMMA InitialStep == Init => IInv
<1> SUFFICES ASSUME Init PROVE IInv
  OBVIOUS
<1> USE StoreAssumption, BoundAssumption DEF Init
<1>1. TypeOK
  <2>1. Legacy \in Nat
    BY DEF Legacy
  <2>2. final \in [data : 0..(Legacy + 1), version : Nat]
    BY <2>1 DEF Object, NoObject
  <2>3. NoObject \in [data : 0..(Legacy + 1), version : Nat]
    BY <2>1 DEF NoObject
  <2>4. /\ NoMarker \in [schema : 0..2, run : 0..MaxRuns, eTag : 0..(Legacy + 1), version : Nat]
        /\ Version1 \in [schema : 0..2, run : 0..MaxRuns, eTag : 0..(Legacy + 1), version : Nat]
    BY <2>1 DEF NoMarker, Version1
  <2>5. /\ final \in versions
        /\ versions \subseteq [data : 0..(Legacy + 1), version : Nat]
        /\ marker \in [schema : 0..2, run : 0..MaxRuns, eTag : 0..(Legacy + 1), version : Nat]
        /\ puts \in Nat /\ staged \subseteq 1..run
    BY <2>2, <2>4
  <2>6. before \in [final : [data : 0..(Legacy + 1), version : Nat],
                    marker : [schema : 0..2, run : 0..MaxRuns,
                              eTag : 0..(Legacy + 1), version : Nat],
                    staged : SUBSET (1..run)]
    BY <2>2, <2>5
  <2>7. /\ run = 0 /\ strange = 0 /\ cancelled = FALSE
        /\ phase = "idle" /\ outcome \in Outcomes /\ failure \in Outcomes
        /\ readPc = "idle" /\ ranges = 0 /\ bytes = {}
    BY DEF Outcomes
  <2>8. identity = NoObject /\ captured = NoObject /\ readMarker = NoMarker
    OBVIOUS
  <2> HIDE DEF Init
  <2>9. run \in 0..MaxRuns /\ strange \in 0..MaxStrange /\ ranges \in 0..Ranges
    BY <2>7
  <2>10. /\ identity \in [data : 0..(Legacy + 1), version : Nat]
         /\ captured \in [data : 0..(Legacy + 1), version : Nat]
         /\ readMarker \in [schema : 0..2, run : 0..MaxRuns,
                            eTag : 0..(Legacy + 1), version : Nat]
    BY <2>3, <2>4, <2>8
  <2>11. bytes \subseteq 0..(Legacy + 1) /\ cancelled \in BOOLEAN
    BY <2>7
  <2> QED
    BY <2>5, <2>6, <2>7, <2>9, <2>10, <2>11 DEF TypeOK
<1>2. Versioning
  BY DEF Versioning, Object, NoObject
<1>3. Recorded
  BY DEF Recorded, Known, RecordIsCurrent, NoMarker, Version1
<1>4. Phases /\ Failing /\ OutcomeIsTrue
  BY DEF Phases, Failing, OutcomeIsTrue
<1>5. Staging
  BY DEF Staging, StagingOwned
<1>6. Reading
  BY DEF Reading, Known, ReadIsWhatWasCompleted, NoMarker
<1> QED
  BY <1>1, <1>2, <1>3, <1>4, <1>5, <1>6 DEF IInv

THEOREM Invariance == Spec => []IInv
  BY InitialStep, InductiveStep, PTL DEF Spec

\* Whoever finds a completion record finds it true of the run it names, and, as
\* long as only runs write, of the output next to it.
THEOREM CompletionIsSound == Spec => [](TypeOK /\ RecordIsTrue)
<1>1. IInv => RecordDescribesRun
  BY DEF IInv, TypeOK, Recorded, Known, RecordDescribesRun, IdentityMatches
<1>2. IInv => TypeOK /\ RecordIsTrue
  BY <1>1 DEF IInv, Recorded, RecordIsTrue
<1> QED
  BY <1>2, Invariance, PTL

\* A reader that follows the protocol (download_completed_output) receives what
\* the run of the record wrote, all of it from one object, whoever replaces the
\* output in the meantime.
THEOREM ReadersGetOneOutput == Spec => []ReadIsWhatWasCompleted
<1>1. IInv => ReadIsWhatWasCompleted
  BY DEF IInv, Reading
<1> QED
  BY <1>1, Invariance, PTL

\* What a run reports after a failure is so, whichever request failed and
\* whether or not it had its effect; and it cleans up after itself only.
THEOREM ReportIsTrue == Spec => []ResultIsTrue
<1>1. IInv => ResultIsTrue
  BY DEF IInv, Staging, ResultIsTrue
<1> QED
  BY <1>1, Invariance, PTL
=============================================================================
