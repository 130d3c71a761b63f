---------------------------- MODULE StagedOutput ----------------------------
(***************************************************************************)
(* Owned local staging, LocalStagedOutput of crates/pipeline/src/staging.rs:*)
(* several runs write files of their own beside one output path and rename *)
(* them onto it, and the machine may crash at any moment. What a crash     *)
(* leaves of a file that was not synchronized, and of renames since the    *)
(* directory was last synchronized, is up to the file system.              *)
(***************************************************************************)
EXTENDS Naturals

CONSTANTS
    Owners,   \* the runs, each with a staged file of its own
    Old       \* the file at the output path before them

ASSUME OldAssumption == Old \notin Owners

VARIABLES
    pc,        \* where each run is
    result,    \* what each run's publication returned
    data,      \* how much has been written of each file: part of it, or all
    durable,   \* the files whose contents have been synchronized
    staging,   \* the staged files that exist
    entry,     \* the file at the output path
    possible,  \* the files that would be there after a crash
    renames,   \* history: number of renames
    place,     \* history: which rename put each file there
    crashed    \* the machine has crashed, and `entry' is what is found

files == <<data, durable>>
directory == <<staging, entry, possible, renames, place>>
stagingVars == <<pc, result, files, directory, crashed>>

StagingInit ==
    /\ pc = [o \in Owners |-> "start"] /\ result = [o \in Owners |-> "None"]
    /\ data = [o \in Owners |-> "part"] /\ durable = {}
    /\ staging = {} /\ entry = Old /\ possible = {Old}
    /\ renames = 0 /\ place = [f \in Owners \cup {Old} |-> 0]
    /\ crashed = FALSE

-----------------------------------------------------------------------------

At(o, phase) == ~crashed /\ pc[o] = phase
Goes(o, to) == pc' = [pc EXCEPT ![o] = to] /\ UNCHANGED result
Returns(o, value) == pc' = [pc EXCEPT ![o] = "done"] /\ result' = [result EXCEPT ![o] = value]

\* failure(): what is known of the output after a failed phase.
OutcomeNotPublished(phase) == "NotPublished"
Outcome(phase) ==
    IF phase = "ParentSync" THEN "PublishedDurabilityUncertain" ELSE "NotPublished"

\* Dropping the owner removes its staged file, if it was not renamed.
StagingFails(o, phase) ==
    /\ Returns(o, Outcome(phase))
    /\ staging' = staging \ {o}
    /\ UNCHANGED <<files, entry, possible, renames, place>>

Create(o) ==
    /\ At(o, "start")
    /\ \/ StagingFails(o, "Create")
       \/ /\ Goes(o, "write") /\ staging' = staging \cup {o}
          /\ UNCHANGED <<files, entry, possible, renames, place>>
    /\ UNCHANGED crashed

\* The run writes and closes the file, or gives up for whatever reason.
WriteAndClose(o) ==
    /\ At(o, "write")
    /\ \/ StagingFails(o, "Write") \/ StagingFails(o, "Close")
       \/ /\ Goes(o, "sync") /\ data' = [data EXCEPT ![o] = "all"]
          /\ UNCHANGED <<durable, directory>>
    /\ UNCHANGED crashed

SyncFile(o) ==
    /\ At(o, "sync")
    /\ \/ StagingFails(o, "FileSync")
       \/ /\ Goes(o, "rename") /\ durable' = durable \cup {o}
          /\ UNCHANGED <<data, directory>>
    /\ UNCHANGED crashed

\* The file system's rename.
Renamed(o) ==
    /\ entry' = o /\ possible' = possible \cup {o}
    /\ renames' = renames + 1 /\ place' = [place EXCEPT ![o] = renames']

Persist(o) ==
    /\ At(o, "rename")
    /\ \/ StagingFails(o, "Rename")
       \/ Goes(o, "syncParent") /\ Renamed(o) /\ staging' = staging \ {o} /\ UNCHANGED files
    /\ UNCHANGED crashed

\* The directory is opened and synchronized, with everybody's renames in it.
SyncParentSkipped(o) ==
    /\ At(o, "syncParent") /\ Returns(o, "Ok")
    /\ UNCHANGED <<files, directory, crashed>>
SyncParent(o) ==
    /\ At(o, "syncParent")
    /\ \/ StagingFails(o, "ParentSync")
       \/ /\ Returns(o, "Ok") /\ possible' = {entry}
          /\ UNCHANGED <<files, staging, entry, renames, place>>
    /\ UNCHANGED crashed

\* Contents that were not synchronized may be lost.
MachineCrash ==
    /\ ~crashed /\ crashed' = TRUE
    /\ entry' \in possible
    /\ data' \in {found \in [Owners -> {"part", "all"}] :
                    \A o \in durable : found[o] = data[o]}
    /\ UNCHANGED <<pc, result, durable, staging, possible, renames, place>>

Finished == crashed \/ \A o \in Owners : pc[o] = "done"

StagingNext ==
    \/ \E o \in Owners :
          Create(o) \/ WriteAndClose(o) \/ SyncFile(o) \/ Persist(o) \/ SyncParent(o)
    \/ MachineCrash
    \/ Finished /\ UNCHANGED stagingVars

StagingSpec == StagingInit /\ [][StagingNext]_stagingVars

-----------------------------------------------------------------------------
(* Properties *)

\* Types; and what is at the output path could also be found there later.
StagingTypeOK ==
    /\ pc \in [Owners -> {"start", "write", "sync", "rename", "syncParent", "done"}]
    /\ result \in [Owners -> {"None", "Ok", "NotPublished", "PublishedDurabilityUncertain"}]
    /\ data \in [Owners -> {"part", "all"}] /\ durable \subseteq Owners
    /\ staging \subseteq Owners /\ possible \subseteq Owners \cup {Old}
    /\ entry \in possible /\ renames \in Nat
    /\ place \in [Owners \cup {Old} -> Nat] /\ crashed \in BOOLEAN

\* The output is the old file or all of a new one, before a crash and after.
OutputIsWhole == entry # Old => data[entry] = "all"

\* An output reported as published outlives a crash: what is found is that
\* file, or one that was renamed onto it later.
PublishedIsDurable ==
    \A o \in Owners : result[o] = "Ok" => place[o] <= place[entry]

\* The outcome tells whether the output was replaced: a failed synchronization
\* of the directory is not reported as if nothing had happened.
StagingOutcomeIsTrue ==
    \A o \in Owners : pc[o] = "done" =>
        (place[o] > 0 <=> result[o] \in {"Ok", "PublishedDurabilityUncertain"})

\* A run that has returned has no staged file, and one that is still running
\* has not lost its own to another one's failure.
OwnStagedFile ==
    \A o \in Owners : o \in staging <=> pc[o] \in {"write", "sync", "rename"}
\* Publication is atomic and durable: the output is whole before and after a
\* crash at any moment, and what was reported published is still there.
SurvivesCrashes == OutputIsWhole /\ PublishedIsDurable

\* What a run returns is true of the output and of the staged files.
StagingResultIsTrue == StagingOutcomeIsTrue /\ OwnStagedFile
=============================================================================
