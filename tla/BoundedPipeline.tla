--------------------------- MODULE BoundedPipeline ---------------------------
(***************************************************************************)
(* run_bounded_pipeline of crates/pipeline/src/bounded.rs: the calling     *)
(* thread stages a file, spawns a producer that reads the input row by row *)
(* and sends batches through a channel, consumes the batches itself, waits *)
(* for the producer, and publishes. Anybody may cancel at any moment, and  *)
(* every stage may fail.                                                   *)
(*                                                                         *)
(* The channel is BudgetedChannel: the budgeted transport, which           *)
(* implements it (ByteTransport), or std::sync::mpsc::sync_channel, for    *)
(* which nothing is charged and which a cancellation does not close.       *)
(***************************************************************************)
EXTENDS Integers, Sequences

CONSTANTS
    Configs,     \* the PipelineConfigs considered
    Sizes        \* the charges a batch can have

\* max_admitted_bytes may be unset; maxRows is a bound: the rows of the input.
ASSUME ConfigAssumption ==
    Configs \subseteq [budgeted : BOOLEAN, capacity : Nat, limit : Nat \ {0},
                       batchSize : Nat \ {0}, maxRows : Nat]
ASSUME SizesAssumption == Sizes \subseteq Nat

VARIABLES
    config,      \* the PipelineConfig of the run
    input,       \* the input file: its good rows, and what is wrong with it
    cancelled,   \* the flag of the CancellationToken
    chan, charged, open, ended,   \* the channel
    prodPc,      \* where produce_batches is
    nextRow,     \* the next record of the reader
    chunk,       \* rows read and not yet made a batch
    outgoing,    \* the message being sent
    production,  \* what produce_batches returned
    runPc,       \* where run_bounded_pipeline and consume_batches are
    lease,       \* the message in the writer's hands
    consumed,    \* what consume_batches returned
    written,     \* the rows in the staged file
    batches,     \* PipelineReport::batches_written
    footer,      \* whether the staged file was closed
    staging,     \* whether the owned staged file exists
    output,      \* what is at the output path
    reported,    \* PipelineReport::admitted_bytes
    result,      \* what run_bounded_pipeline returned
    late         \* history: the batches written when the flag was set

channel == <<chan, charged, open, ended>>
producer == <<prodPc, nextRow, chunk, outgoing, production>>
file == <<written, batches, footer, staging, output>>
consumer == <<runPc, lease, consumed, reported, result>>
token == <<cancelled, late>>
vars == <<config, input, token, channel, producer, file, consumer>>

-----------------------------------------------------------------------------

Rows == [i \in 1..input.rows |-> i]

Budgeted == config.budgeted
Capacity == config.capacity
Limit == config.limit
BatchSize == config.batchSize

Inputs == [rows : 0..config.maxRows, fault : {"none", "row"}] \cup {[rows |-> 0, fault |-> "open"]}

\* `last' marks the message after which produce_batches returns.
Batch(rows, size, last) == [kind |-> "batch", rows |-> rows, size |-> size, last |-> last]
Failure == [kind |-> "error", rows |-> <<>>, size |-> 0, last |-> TRUE]
NoMessage == [kind |-> "none", rows |-> <<>>, size |-> 0, last |-> FALSE]

Messages == [kind : {"batch", "error"}, rows : Seq(Nat), size : Nat, last : BOOLEAN]

\* Without a budget nothing is charged.
Charges == IF Budgeted THEN Sizes ELSE {0}

OldOutput == [rows |-> <<>>, footer |-> FALSE]

Channel == INSTANCE BudgetedChannel WITH capacity <- Capacity, limit <- Limit

Init ==
    /\ config \in Configs
    /\ input \in Inputs
    /\ cancelled = FALSE /\ late = 0
    /\ Channel!Init
    /\ prodPc = "none" /\ nextRow = 1 /\ chunk = <<>>
    /\ outgoing = NoMessage /\ production = "None"
    /\ runPc = "start" /\ lease = NoMessage /\ consumed = "None"
    /\ written = <<>> /\ batches = 0 /\ footer = FALSE
    /\ staging = FALSE /\ output = OldOutput
    /\ reported = 0 /\ result = "None"

-----------------------------------------------------------------------------
(* CancellationToken::cancel: the flag first, the transport after it. *)

Cancel ==
    /\ ~cancelled /\ cancelled' = TRUE /\ late' = batches
    /\ UNCHANGED <<input, channel, producer, file, consumer>>

Registered == Budgeted /\ prodPc # "none"

CancelCloses ==
    /\ cancelled /\ Registered /\ open
    /\ Channel!Close
    /\ UNCHANGED <<input, token, producer, file, consumer>>

\* Whoever closed the channel destroys what was in it afterwards, and returns
\* the charges one by one.
DiscardedReturned ==
    /\ ~open
    /\ \E total \in lease.size..(charged - 1) : Channel!Return(total)
    /\ UNCHANGED <<input, token, producer, file, consumer>>

-----------------------------------------------------------------------------
(* produce_batches *)

ProduceUnchanged == UNCHANGED <<input, token, file, consumer>>

\* The sender is dropped when produce_batches returns.
ProduceReturns(value) ==
    /\ production' = value /\ prodPc' = "done"
    /\ Channel!HangUp

Sends(message) ==
    /\ outgoing' = message /\ prodPc' = "send"
    /\ UNCHANGED <<channel, production>>

\* A batch larger than the whole budget ends the producer, not the channel.
SendsBatch(rows, last) ==
    \E size \in Charges :
        IF size > Limit
        THEN ProduceReturns("BatchTooLarge") /\ UNCHANGED outgoing
        ELSE Sends(Batch(rows, size, last))

OpenInput ==
    /\ prodPc = "open"
    /\ IF input.fault = "open"
       THEN Sends(Failure)
       ELSE prodPc' = "read" /\ UNCHANGED <<channel, outgoing, production>>
    /\ UNCHANGED <<nextRow, chunk>> /\ ProduceUnchanged

AtEnd == nextRow > input.rows /\ input.fault # "row"

ReadCancelled ==
    /\ prodPc = "read" /\ ~AtEnd /\ cancelled
    /\ ProduceReturns("Ok")
    /\ UNCHANGED <<nextRow, chunk, outgoing>> /\ ProduceUnchanged

ReadBadRow ==
    /\ prodPc = "read" /\ ~AtEnd /\ ~cancelled
    /\ nextRow > input.rows
    /\ Sends(Failure)
    /\ UNCHANGED <<nextRow, chunk>> /\ ProduceUnchanged

BatchFull(rows) == Len(rows) = BatchSize

ReadRow ==
    /\ prodPc = "read" /\ ~AtEnd /\ ~cancelled
    /\ nextRow <= input.rows
    /\ nextRow' = nextRow + 1
    /\ LET rows == Append(chunk, nextRow)
       IN IF BatchFull(rows)
          THEN chunk' = <<>> /\ SendsBatch(rows, FALSE)
          ELSE chunk' = rows /\ UNCHANGED <<channel, prodPc, outgoing, production>>
    /\ ProduceUnchanged

\* The rows left over at the end of the input.
Flush ==
    /\ prodPc = "read" /\ AtEnd
    /\ IF chunk # <<>> /\ ~cancelled
       THEN SendsBatch(chunk, TRUE) /\ chunk' = <<>>
       ELSE ProduceReturns("Ok") /\ UNCHANGED <<chunk, outgoing>>
    /\ UNCHANGED nextRow /\ ProduceUnchanged

\* A rendezvous needs the receiver to be waiting.
SendAccepted ==
    /\ prodPc = "send"
    /\ Capacity = 0 => runPc = "recv"
    /\ Channel!Accept(outgoing)
    /\ prodPc' = "accepted"
    /\ UNCHANGED <<nextRow, chunk, outgoing, production>> /\ ProduceUnchanged

SendRefused ==
    /\ prodPc = "send" /\ ~open
    /\ ProduceReturns("Cancelled")
    /\ UNCHANGED <<nextRow, chunk, outgoing>> /\ ProduceUnchanged

\* A rendezvous send returns once the message was taken, or will never be.
SendReturns ==
    /\ prodPc = "accepted"
    /\ Capacity = 0 => chan = <<>>
    /\ IF Capacity = 0 /\ Budgeted /\ ~open
       THEN ProduceReturns("Cancelled")
       ELSE IF outgoing.last
            THEN ProduceReturns("Ok")
            ELSE prodPc' = "read" /\ UNCHANGED <<channel, production>>
    /\ outgoing' = NoMessage
    /\ UNCHANGED <<nextRow, chunk>> /\ ProduceUnchanged

ProducerStep ==
    \/ OpenInput \/ ReadCancelled \/ ReadBadRow \/ ReadRow \/ Flush
    \/ SendAccepted \/ SendRefused \/ SendReturns

-----------------------------------------------------------------------------
(* run_bounded_pipeline up to the spawn *)

\* What the calling thread makes of the flag, here and in consume_batches.
Stopped == cancelled

Go(from, to) == runPc = from /\ runPc' = to

\* Returning drops the staged file if it was not renamed.
Returns(value) == runPc' = "returned" /\ result' = value /\ staging' = FALSE

Start ==
    /\ runPc = "start"
    /\ IF Stopped
       THEN Returns("Cancelled")
       ELSE runPc' = "stage" /\ UNCHANGED <<staging, result>>
    /\ UNCHANGED <<input, token, channel, producer, written, batches, footer, output,
                   lease, consumed, reported>>

\* LocalStagedOutput::new, reopening the file, and the Parquet header.
Stage ==
    /\ runPc = "stage"
    /\ \/ Returns("NotPublished")
       \/ runPc' = "spawn" /\ staging' = TRUE /\ UNCHANGED result
    /\ UNCHANGED <<input, token, channel, producer, written, batches, footer, output,
                   lease, consumed, reported>>

\* The channel is made and registered with the token, whose flag may be set.
Spawn ==
    /\ Go("spawn", "enter") /\ prodPc' = "open"
    /\ IF Budgeted /\ cancelled THEN Channel!Close ELSE UNCHANGED channel
    /\ UNCHANGED <<input, token, nextRow, chunk, outgoing, production, file,
                   lease, consumed, reported, result>>

-----------------------------------------------------------------------------
(* consume_batches *)

ConsumeUnchanged == UNCHANGED <<input, token, producer, output, staging, reported, result>>

LeavesWith(value) == runPc' = "leaving" /\ consumed' = value
GoesOn(to) == runPc' = to /\ UNCHANGED consumed

Enter ==
    /\ runPc = "enter"
    /\ IF Stopped THEN LeavesWith("Cancelled") ELSE GoesOn("recv")
    /\ UNCHANGED <<channel, lease, written, batches, footer>> /\ ConsumeUnchanged

\* Only the budgeted receiver is told of a cancellation.
RecvCancelled ==
    /\ runPc = "recv" /\ ~open
    /\ LeavesWith("Cancelled")
    /\ UNCHANGED <<channel, lease, written, batches, footer>> /\ ConsumeUnchanged

RecvMessage ==
    /\ runPc = "recv" /\ Channel!Deliver
    /\ IF Head(chan).kind = "batch"
       THEN lease' = Head(chan) /\ GoesOn("check")
       ELSE LeavesWith("Io") /\ UNCHANGED lease
    /\ UNCHANGED <<written, batches, footer>> /\ ConsumeUnchanged

RecvEnd ==
    /\ runPc = "recv" /\ open /\ chan = <<>> /\ ended
    /\ GoesOn("finish")
    /\ UNCHANGED <<channel, lease, written, batches, footer>> /\ ConsumeUnchanged

CheckCancelled ==
    /\ runPc = "check"
    /\ IF Stopped THEN LeavesWith("Cancelled") ELSE GoesOn("transform")
    /\ UNCHANGED <<channel, lease, written, batches, footer>> /\ ConsumeUnchanged

\* The callback or the contract check of its result fails.
TransformFails ==
    /\ runPc = "transform" /\ LeavesWith("Io")
    /\ UNCHANGED <<channel, lease, written, batches, footer>> /\ ConsumeUnchanged

\* The lease covers the transformed batch, and keeps what it does not need.
TransformFits ==
    /\ runPc = "transform" /\ GoesOn("write")
    /\ UNCHANGED <<channel, lease, written, batches, footer>> /\ ConsumeUnchanged

TransformGrows ==
    /\ runPc = "transform"
    /\ \E size \in Charges :
        /\ size > lease.size
        /\ IF size - lease.size <= Limit - charged
           THEN /\ Channel!Grow(charged + (size - lease.size))
                /\ lease' = [lease EXCEPT !.size = size]
                /\ GoesOn("write")
           ELSE LeavesWith("BatchGrowthExceedsBudget") /\ UNCHANGED <<channel, lease>>
    /\ UNCHANGED <<written, batches, footer>> /\ ConsumeUnchanged

Write ==
    /\ runPc = "write"
    /\ \/ LeavesWith("NotPublished") /\ UNCHANGED <<written, batches>>
       \/ written' = written \o lease.rows /\ batches' = batches + 1 /\ GoesOn("release")
    /\ UNCHANGED <<channel, lease, footer>> /\ ConsumeUnchanged

Returned(amount) == Channel!Return(charged - amount)

\* The reservation is dropped at the end of each turn, however it ends.
ReleaseLease ==
    /\ runPc = "release" \/ (runPc = "leaving" /\ lease # NoMessage)
    /\ Returned(lease.size) /\ lease' = NoMessage
    /\ GoesOn(IF runPc = "release" THEN "recv" ELSE "leaving")
    /\ UNCHANGED <<written, batches, footer>> /\ ConsumeUnchanged

\* The flag is looked at once more before the footer is written.
CloseWriter ==
    /\ runPc = "finish"
    /\ \/ Stopped /\ LeavesWith("Cancelled") /\ UNCHANGED footer
       \/ ~Stopped /\ LeavesWith("NotPublished") /\ UNCHANGED footer
       \/ ~Stopped /\ LeavesWith("Ok") /\ footer' = TRUE
    /\ UNCHANGED <<channel, lease, written, batches>> /\ ConsumeUnchanged

\* Every way out of consume_batches drops the receiver.
LeaveKeepingReceiver ==
    /\ runPc = "leaving" /\ lease = NoMessage
    /\ GoesOn("join")
    /\ UNCHANGED <<channel, lease, written, batches, footer>> /\ ConsumeUnchanged
Leave ==
    /\ runPc = "leaving" /\ lease = NoMessage
    /\ Channel!Close
    /\ GoesOn("join")
    /\ UNCHANGED <<lease, written, batches, footer>> /\ ConsumeUnchanged

-----------------------------------------------------------------------------
(* The end of run_bounded_pipeline *)

PublishUnchanged ==
    UNCHANGED <<input, token, channel, producer, written, batches, footer, lease, consumed>>

\* consume_batches' error, or else the producer's.
JoinedByConsumer == consumed
Joined == IF consumed # "Ok" THEN consumed ELSE production

\* thread::scope returns when the producer has.
Join ==
    /\ runPc = "join" /\ prodPc = "done"
    /\ IF Joined = "Ok"
       THEN runPc' = "decide" /\ reported' = charged /\ UNCHANGED <<staging, result>>
       ELSE Returns(Joined) /\ UNCHANGED reported
    /\ UNCHANGED output /\ PublishUnchanged

Decide ==
    /\ runPc = "decide"
    /\ IF Stopped
       THEN Returns("Cancelled")
       ELSE runPc' = "sync" /\ UNCHANGED <<staging, result>>
    /\ UNCHANGED <<output, reported>> /\ PublishUnchanged

\* LocalPublicationOutcome of a failed publication phase.
Outcome(phase) ==
    IF phase = "ParentSync" THEN "PublishedDurabilityUncertain" ELSE "NotPublished"

SyncFile ==
    /\ runPc = "sync"
    /\ \/ Returns(Outcome("FileSync"))
       \/ runPc' = "rename" /\ UNCHANGED <<staging, result>>
    /\ UNCHANGED <<output, reported>> /\ PublishUnchanged

Rename ==
    /\ runPc = "rename"
    /\ \/ Returns(Outcome("Rename")) /\ UNCHANGED output
       \/ /\ output' = [rows |-> written, footer |-> footer] /\ staging' = FALSE
          /\ runPc' = "syncParent" /\ UNCHANGED result
    /\ UNCHANGED reported /\ PublishUnchanged

SyncParent ==
    /\ runPc = "syncParent"
    /\ Returns(Outcome("ParentSync")) \/ Returns("Ok")
    /\ UNCHANGED <<output, reported>> /\ PublishUnchanged

RunStep ==
    \/ Start \/ Stage \/ Spawn \/ Enter
    \/ RecvCancelled \/ RecvMessage \/ RecvEnd \/ CheckCancelled
    \/ TransformFails \/ TransformFits \/ TransformGrows
    \/ Write \/ ReleaseLease \/ CloseWriter \/ Leave
    \/ Join \/ Decide \/ SyncFile \/ Rename \/ SyncParent

-----------------------------------------------------------------------------

Step ==
    \/ ProducerStep \/ RunStep
    \/ Cancel \/ CancelCloses \/ DiscardedReturned

Next ==
    \/ Step /\ UNCHANGED config
    \/ runPc = "returned" /\ UNCHANGED vars

\* The two threads keep running, and a thread that asks for room in the channel
\* gets it when there is room. A cancellation may come or not, and the thread
\* that cancels may stop between setting the flag and closing the transport;
\* but charges that were taken out of the channel are returned.
Fairness ==
    /\ WF_vars(ProducerStep /\ UNCHANGED config)
    /\ WF_vars(RunStep /\ UNCHANGED config)
    /\ WF_vars(DiscardedReturned /\ UNCHANGED config)

Spec == Init /\ [][Next]_vars
FairSpec == Spec /\ Fairness

-----------------------------------------------------------------------------
(* Properties *)

Results == {"None", "Ok", "Cancelled", "Io", "BatchTooLarge", "BatchGrowthExceedsBudget",
            "NotPublished", "PublishedDurabilityUncertain"}

\* Types, the budget, and the rows the producer holds: fewer than a batch.
TypeOK ==
    /\ config \in Configs /\ input \in Inputs /\ cancelled \in BOOLEAN
    /\ chan \in Seq(Messages) /\ charged \in 0..Limit
    /\ open \in BOOLEAN /\ ended \in BOOLEAN
    /\ prodPc \in {"none", "open", "read", "send", "accepted", "done"}
    /\ nextRow \in 1..(config.maxRows + 1) /\ chunk \in Seq(Nat) /\ Len(chunk) < BatchSize
    /\ outgoing \in Messages \cup {NoMessage} /\ production \in Results
    /\ runPc \in {"start", "stage", "spawn", "enter", "recv", "check", "transform", "write",
                  "release", "finish", "leaving", "join", "decide", "sync", "rename",
                  "syncParent", "returned"}
    /\ lease \in Messages \cup {NoMessage} /\ consumed \in Results
    /\ written \in Seq(Nat) /\ batches \in Nat /\ footer \in BOOLEAN
    /\ staging \in BOOLEAN /\ reported \in Nat /\ result \in Results /\ late \in Nat

\* What appears at the output path is the whole input, in order, closed with
\* its footer: not the batches before a failure, before a cancellation or
\* before a batch the budget refused, all of which end the stream the same way.
PublishedIsComplete ==
    output # OldOutput =>
        output = [rows |-> Rows, footer |-> TRUE] /\ input.fault = "none"

\* The result tells whether the output was replaced, and nothing staged is left.
OutcomeTellsVisibility ==
    runPc = "returned" =>
        /\ output # OldOutput <=> result \in {"Ok", "PublishedDurabilityUncertain"}
        /\ ~staging

\* A run that nobody cancelled is not reported as cancelled: the producer's
\* broken channel is not mistaken for the cause of the failure.
CancelledIsTrue == result = "Cancelled" => cancelled

\* Memory does not depend on the input: at most Capacity + 2 batches are alive,
\* the one being filled or sent and the one being written among them.
ResidentBatches ==
    Len(chan) + (IF chunk # <<>> \/ prodPc = "send" THEN 1 ELSE 0)
              + (IF lease # NoMessage THEN 1 ELSE 0)
MemoryBounded == ResidentBatches <= Capacity + 2

\* After a cancellation at most the batch in the writer's hands is written.
StopsWriting == cancelled => batches <= late + 1

\* A successful run reports that all it admitted was returned.
ReportsNothingAdmitted == result = "Ok" => reported = 0

\* What a run returns is true of what it leaves: a replaced output is complete,
\* an error says whether it was replaced, a cancellation was asked for, and
\* nothing admitted is still out.
ResultIsTrue ==
    PublishedIsComplete /\ OutcomeTellsVisibility /\ CancelledIsTrue /\ ReportsNothingAdmitted

\* What a run holds does not grow with its input, nor its work after a
\* cancellation.
WorkIsBounded == TypeOK /\ MemoryBounded /\ StopsWriting

\* Every run returns: whichever of the two threads fails first, the other is
\* not left waiting at the channel, with or without a cancellation.
Terminates == <>(runPc = "returned")
=============================================================================
