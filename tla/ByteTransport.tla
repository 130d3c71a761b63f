---------------------------- MODULE ByteTransport ----------------------------
(***************************************************************************)
(* The budgeted channel of crates/pipeline/src/bounded/transport.rs: one   *)
(* mutex, one condition variable, a queue of batches each of which carries *)
(* a reservation against a byte limit, and the three parties that meet at  *)
(* it: the producer thread (Sender), the writer thread (Receiver and the   *)
(* BatchLease it holds) and whoever calls CancellationToken::cancel.       *)
(*                                                                         *)
(* Every action is one critical section, or one step between two of them.  *)
(* A thread inside Condvar::wait is in `waiting'; notify_all empties the   *)
(* set, so a state change that forgets to notify leaves a thread asleep.   *)
(***************************************************************************)
EXTENDS Integers, Sequences

CONSTANTS
    Capacity,     \* channel_capacity: 0 is a rendezvous channel
    Limit,        \* max_admitted_bytes
    MaxWord,      \* usize::MAX
    BatchSizes,   \* the sizes, in bytes, a batch can have
    MaxSends,     \* bound: messages the producer gets accepted
    Cancellable   \* whether somebody else holds a clone of the token

ASSUME CapacityAssumption == Capacity \in Nat
ASSUME LimitAssumption == Limit \in Nat \ {0} /\ MaxWord \in Nat /\ Limit <= MaxWord
ASSUME SizesAssumption == BatchSizes \subseteq Nat
ASSUME BoundAssumption == MaxSends \in Nat /\ Cancellable \in BOOLEAN

VARIABLES
    queue,            \* State::queue: the messages accepted and not yet received
    bytes,            \* State::bytes: the charge of all live reservations
    peak,             \* State::peak
    receiverWaiting,  \* State::receiver_waiting
    receiverAlive,    \* State::receiver_alive
    senderAlive,      \* State::sender_alive
    cancelled,        \* State::cancelled
    waiting,          \* the threads asleep on Control::changed
    senderPc,         \* where the producer thread is in Sender::send
    outgoing,         \* the message of the latest send call
    sendResult,       \* what the latest send call returned
    receiverPc,       \* where the writer thread is
    lease,            \* the BatchLease the writer thread holds
    recvResult,       \* what the latest recv or transform call returned
    dropping,         \* the queue Receiver::drop took, not yet destroyed
    taken,            \* the queues Control::cancel took, not yet destroyed
    accepted,         \* history: number of messages pushed
    received,         \* history: number of messages popped
    admitted          \* history: charge of all messages ever pushed

state == <<queue, bytes, peak, receiverWaiting, receiverAlive, senderAlive, cancelled>>
sender == <<senderPc, outgoing, sendResult>>
receiver == <<receiverPc, lease, recvResult>>
orphans == <<dropping, taken>>
history == <<accepted, received, admitted>>
vars == <<state, waiting, sender, receiver, orphans, history>>

-----------------------------------------------------------------------------
(* What travels: a batch of some size, or the producer's failure. *)

NoMessage == [kind |-> "none", size |-> 0]
Failure == [kind |-> "error", size |-> 0]
Batches == [kind : {"batch"}, size : BatchSizes]

\* A message in the queue: its reservation, and (history) its position in the
\* stream and the charge of all messages before it.
Queued == [kind : {"batch", "error"}, size : Nat, bytes : Nat, id : Nat, base : Nat]

NoLease == [size |-> 0, retained |-> 0]
Leases == [size : Nat, retained : Nat]

Larger(a, b) == IF a >= b THEN a ELSE b

\* checked_charge: usize arithmetic, refused when the sum of the column sizes
\* does not fit.
Charge(size) == size % (MaxWord + 1)
ChargeOverflows(size) == size > MaxWord

TooLarge(size) == Charge(size) > Limit

\* No further delivery: the sender gives up when it sees it.
Closed == cancelled \/ ~receiverAlive

CountAvailable ==
    IF Capacity = 0 THEN receiverWaiting /\ queue = <<>> ELSE Len(queue) < Capacity

AdmissibleByCountOnly == CountAvailable
Admissible == CountAvailable /\ Charge(outgoing.size) <= Limit - bytes

\* A rendezvous send is not acknowledged by an empty slot alone.
HandoffPendingNever == FALSE
HandoffPending == queue # <<>> /\ ~Closed

\* recv asks for the end of the stream only after it has found nothing queued.
StreamEndedUnordered == ~senderAlive
StreamEnded == queue = <<>> /\ ~senderAlive

Pushed(message) == Append(queue, message)

\* The total after a lease has grown to the charge of its transformed batch.
GrownUncharged(size) == bytes
Grown(size) == bytes + (Charge(size) - lease.retained)

Awake(thread) == thread \notin waiting
NotifyAll == waiting' = {}
Sleep(thread) == waiting' = waiting \cup {thread}
NotifyAndSleepSilently(thread) == Sleep(thread)
NotifyAndSleep(thread) == waiting' = {thread}

\* Reservation::drop. An error message has no reservation.
Release(amount) == bytes' = bytes - amount /\ NotifyAll

ReleaseMessage(message) ==
    IF message.kind = "batch" THEN Release(message.bytes) ELSE UNCHANGED <<bytes, waiting>>

-----------------------------------------------------------------------------
(* channel() *)

Init ==
    /\ queue = <<>> /\ bytes = 0 /\ peak = 0
    /\ receiverWaiting = FALSE /\ receiverAlive = TRUE
    /\ senderAlive = TRUE /\ cancelled = FALSE
    /\ waiting = {}
    /\ senderPc = "idle" /\ outgoing = NoMessage /\ sendResult = "None"
    /\ receiverPc = "idle" /\ lease = NoLease /\ recvResult = "None"
    /\ dropping = <<>> /\ taken = <<>>
    /\ accepted = 0 /\ received = 0 /\ admitted = 0

-----------------------------------------------------------------------------
(* Sender. produce_batches calls send again only after an Ok, and not after *)
(* it has sent an error.                                                    *)

MaySend ==
    /\ senderPc = "idle" /\ accepted < MaxSends
    /\ sendResult \in {"None", "Ok"} /\ outgoing.kind # "error"

\* The charge is computed, and an impossible one refused, before locking.
SendRejects(message) ==
    /\ MaySend
    /\ \/ ChargeOverflows(message.size) /\ sendResult' = "ByteChargeOverflow"
       \/ /\ ~ChargeOverflows(message.size) /\ TooLarge(message.size)
          /\ sendResult' = "BatchTooLarge"
    /\ UNCHANGED <<state, waiting, senderPc, outgoing, receiver, orphans, history>>

SendBegins(message) ==
    /\ MaySend
    /\ ~ChargeOverflows(message.size) /\ ~TooLarge(message.size)
    /\ outgoing' = message /\ senderPc' = "admit" /\ sendResult' = "Pending"
    /\ UNCHANGED <<state, waiting, receiver, orphans, history>>

SendRefused ==
    /\ senderPc = "admit" /\ Awake("sender") /\ Closed
    /\ senderPc' = "idle" /\ sendResult' = "Cancelled"
    /\ UNCHANGED <<state, waiting, outgoing, receiver, orphans, history>>

SendBlocks ==
    /\ senderPc = "admit" /\ Awake("sender") /\ ~Closed /\ ~Admissible
    /\ Sleep("sender")
    /\ UNCHANGED <<state, sender, receiver, orphans, history>>

\* On a rendezvous channel the sender goes to sleep in the same critical
\* section, until the receiver has taken the message.
SendEnqueues ==
    /\ senderPc = "admit" /\ Awake("sender") /\ ~Closed /\ Admissible
    /\ bytes' = bytes + Charge(outgoing.size)
    /\ peak' = Larger(peak, bytes')
    /\ queue' = Pushed([kind |-> outgoing.kind, size |-> outgoing.size,
                        bytes |-> Charge(outgoing.size),
                        id |-> accepted + 1, base |-> admitted])
    /\ accepted' = accepted + 1 /\ admitted' = admitted + Charge(outgoing.size)
    /\ IF Capacity = 0
       THEN NotifyAndSleep("sender") /\ senderPc' = "handoff" /\ UNCHANGED sendResult
       ELSE NotifyAll /\ senderPc' = "idle" /\ sendResult' = "Ok"
    /\ UNCHANGED <<receiverWaiting, receiverAlive, senderAlive, cancelled, outgoing,
                   receiver, orphans, received>>

HandoffBlocks ==
    /\ senderPc = "handoff" /\ Awake("sender") /\ HandoffPending
    /\ Sleep("sender")
    /\ UNCHANGED <<state, sender, receiver, orphans, history>>

HandoffEnds ==
    /\ senderPc = "handoff" /\ Awake("sender") /\ ~HandoffPending
    /\ senderPc' = "idle"
    /\ sendResult' = IF Closed THEN "Cancelled" ELSE "Ok"
    /\ UNCHANGED <<state, waiting, outgoing, receiver, orphans, history>>

DropSender ==
    /\ senderPc = "idle"
    /\ senderPc' = "dropped" /\ senderAlive' = FALSE /\ NotifyAll
    /\ UNCHANGED <<queue, bytes, peak, receiverWaiting, receiverAlive, cancelled,
                   outgoing, sendResult, receiver, orphans, history>>

SenderStep ==
    \/ \E message \in Batches \cup {Failure} : SendRejects(message) \/ SendBegins(message)
    \/ SendRefused \/ SendBlocks \/ SendEnqueues
    \/ HandoffBlocks \/ HandoffEnds \/ DropSender

-----------------------------------------------------------------------------
(* Receiver. consume_batches leaves its loop, and drops the receiver, at    *)
(* the first result that is not a batch.                                    *)

MayRecv ==
    /\ receiverPc \in {"idle", "recv"} /\ Awake("receiver")
    /\ recvResult \in {"None", "Ok"}

RecvCancelled ==
    /\ MayRecv /\ cancelled
    /\ receiverPc' = "idle" /\ recvResult' = "Cancelled"
    /\ UNCHANGED <<state, waiting, sender, lease, orphans, history>>

RecvMessage ==
    /\ MayRecv /\ ~cancelled /\ queue # <<>>
    /\ queue' = Tail(queue) /\ receiverWaiting' = FALSE /\ NotifyAll
    /\ received' = Head(queue).id
    /\ \/ /\ Head(queue).kind = "batch"
          /\ lease' = [size |-> Head(queue).size, retained |-> Head(queue).bytes]
          /\ receiverPc' = "holding" /\ recvResult' = "Ok"
       \/ /\ Head(queue).kind = "error"
          /\ receiverPc' = "idle" /\ recvResult' = "Io" /\ UNCHANGED lease
    /\ UNCHANGED <<bytes, peak, receiverAlive, senderAlive, cancelled,
                   sender, orphans, accepted, admitted>>

RecvEnd ==
    /\ MayRecv /\ ~cancelled /\ StreamEnded
    /\ receiverPc' = "idle" /\ recvResult' = "End"
    /\ UNCHANGED <<state, waiting, sender, lease, orphans, history>>

RecvBlocks ==
    /\ MayRecv /\ ~cancelled /\ queue = <<>> /\ senderAlive
    /\ receiverPc' = "recv" /\ receiverWaiting' = TRUE
    /\ NotifyAndSleep("receiver")
    /\ UNCHANGED <<queue, bytes, peak, receiverAlive, senderAlive, cancelled,
                   sender, lease, recvResult, orphans, history>>

-----------------------------------------------------------------------------
(* BatchLease::transform, at most once per lease. *)

\* The callback fails, or the charge of what it returned overflows.
TransformFails ==
    /\ receiverPc = "holding"
    /\ receiverPc' = "discarding" /\ recvResult' = "Failed"
    /\ UNCHANGED <<state, waiting, sender, lease, orphans, history>>

\* Shrinking keeps the charge.
TransformFits(size) ==
    /\ receiverPc = "holding"
    /\ ~ChargeOverflows(size) /\ Charge(size) <= lease.retained
    /\ lease' = [lease EXCEPT !.size = size] /\ receiverPc' = "writing"
    /\ UNCHANGED <<state, waiting, sender, recvResult, orphans, history>>

TransformGrows(size) ==
    /\ receiverPc = "holding"
    /\ ~ChargeOverflows(size) /\ Charge(size) > lease.retained
    /\ Charge(size) - lease.retained <= Limit - bytes
    /\ bytes' = Grown(size)
    /\ peak' = Larger(peak, bytes')
    /\ lease' = [size |-> size, retained |-> Charge(size)] /\ receiverPc' = "writing"
    /\ UNCHANGED <<queue, receiverWaiting, receiverAlive, senderAlive, cancelled, waiting,
                   sender, recvResult, orphans, history>>

\* The lock is given back before the refused lease releases its reservation.
TransformRefused(size) ==
    /\ receiverPc = "holding"
    /\ ~ChargeOverflows(size) /\ Charge(size) > lease.retained
    /\ Charge(size) - lease.retained > Limit - bytes
    /\ receiverPc' = "discarding" /\ recvResult' = "Failed"
    /\ UNCHANGED <<state, waiting, sender, lease, orphans, history>>

\* The reservation is dropped once the batch is written, or on the way out.
DropLease ==
    /\ receiverPc \in {"holding", "writing", "discarding"}
    /\ Release(lease.retained)
    /\ lease' = NoLease /\ receiverPc' = "idle"
    /\ UNCHANGED <<queue, peak, receiverWaiting, receiverAlive, senderAlive, cancelled,
                   sender, recvResult, orphans, history>>

\* The queue is taken under the lock and destroyed after it: a reservation left
\* in it would keep the Control that owns the queue alive.
DropReceiverKeepsQueue ==
    /\ receiverPc = "idle"
    /\ receiverPc' = "dropped" /\ receiverAlive' = FALSE /\ receiverWaiting' = FALSE
    /\ NotifyAll
    /\ UNCHANGED <<queue, bytes, peak, senderAlive, cancelled,
                   sender, lease, recvResult, dropping, taken, history>>
DropReceiver ==
    /\ receiverPc = "idle"
    /\ receiverPc' = "dropped" /\ receiverAlive' = FALSE /\ receiverWaiting' = FALSE
    /\ dropping' = queue /\ queue' = <<>> /\ NotifyAll
    /\ UNCHANGED <<bytes, peak, senderAlive, cancelled,
                   sender, lease, recvResult, taken, history>>

ReceiverDropsQueued ==
    /\ dropping # <<>>
    /\ ReleaseMessage(Head(dropping)) /\ dropping' = Tail(dropping)
    /\ UNCHANGED <<queue, peak, receiverWaiting, receiverAlive, senderAlive, cancelled,
                   sender, receiver, taken, history>>

ReceiverStep ==
    \/ RecvCancelled \/ RecvMessage \/ RecvEnd \/ RecvBlocks
    \/ TransformFails
    \/ \E size \in BatchSizes :
          TransformFits(size) \/ TransformGrows(size) \/ TransformRefused(size)
    \/ DropLease \/ DropReceiver \/ ReceiverDropsQueued

-----------------------------------------------------------------------------
(* Control::cancel: the flag and the queue in one critical section, the     *)
(* leases one by one after it.                                              *)

Cancel ==
    /\ Cancellable
    /\ cancelled' = TRUE
    /\ taken' = taken \o queue /\ queue' = <<>> /\ NotifyAll
    /\ UNCHANGED <<bytes, peak, receiverWaiting, receiverAlive, senderAlive,
                   sender, receiver, dropping, history>>

CancelDropsQueued ==
    /\ taken # <<>>
    /\ ReleaseMessage(Head(taken)) /\ taken' = Tail(taken)
    /\ UNCHANGED <<queue, peak, receiverWaiting, receiverAlive, senderAlive, cancelled,
                   sender, receiver, dropping, history>>

\* Condvar::wait may return without a notification.
SpuriousWakeup ==
    \E thread \in waiting :
        /\ waiting' = waiting \ {thread}
        /\ UNCHANGED <<state, sender, receiver, orphans, history>>

-----------------------------------------------------------------------------

Finished ==
    /\ senderPc = "dropped" /\ receiverPc = "dropped"
    /\ dropping = <<>> /\ taken = <<>>

Next ==
    \/ SenderStep \/ ReceiverStep
    \/ Cancel \/ CancelDropsQueued \/ SpuriousWakeup
    \/ Finished /\ UNCHANGED vars

\* Both threads and a cancel in progress keep running: each critical section
\* is short and the mutex is granted to every thread that keeps asking.
\* Nobody has to cancel, and nothing has to wake a sleeper up but notify_all.
Fairness ==
    /\ WF_vars(SenderStep) /\ WF_vars(ReceiverStep) /\ WF_vars(CancelDropsQueued)

Spec == Init /\ [][Next]_vars
FairSpec == Spec /\ Fairness

-----------------------------------------------------------------------------
(* Properties *)

\* Every variable keeps its type: in particular the unsigned counters never
\* go below zero, which `state.bytes -= bytes' would turn into a panic or a wrap.
TypeOK ==
    /\ queue \in Seq(Queued) /\ dropping \in Seq(Queued) /\ taken \in Seq(Queued)
    /\ bytes \in Nat /\ peak \in Nat
    /\ receiverWaiting \in BOOLEAN /\ receiverAlive \in BOOLEAN
    /\ senderAlive \in BOOLEAN /\ cancelled \in BOOLEAN
    /\ waiting \subseteq {"sender", "receiver"}
    /\ senderPc \in {"idle", "admit", "handoff", "dropped"}
    /\ outgoing \in [kind : {"none", "batch", "error"}, size : Nat]
    /\ sendResult \in {"None", "Pending", "Ok", "Cancelled", "BatchTooLarge", "ByteChargeOverflow"}
    /\ receiverPc \in {"idle", "recv", "holding", "writing", "discarding", "dropped"}
    /\ lease \in Leases
    /\ recvResult \in {"None", "Ok", "Io", "End", "Cancelled", "Failed"}
    /\ accepted \in Nat /\ received \in Nat /\ admitted \in Nat

\* The charge of a run of consecutive messages, without adding it up.
Span(messages) ==
    IF messages = <<>> THEN 0
    ELSE messages[Len(messages)].base + messages[Len(messages)].bytes - messages[1].base

\* Every reserved byte has exactly one owner: a queued message, the lease in
\* the writer's hands, or a queue that a cancel or a receiver drop took and is
\* still destroying. None leaks and none is returned twice, in any interleaving
\* of send, transform, cancel and the two drops.
Conservation == bytes = Span(queue) + lease.retained + Span(dropping) + Span(taken)

\* What is admitted stays within max_admitted_bytes, so `limit - state.bytes'
\* (send and transform) cannot underflow; peak is a high-water mark within it.
WithinBudget == bytes <= peak /\ peak <= Limit

\* A reservation covers the batch it was made for, through transformation.
LeaseCoversBatch ==
    /\ \A i \in DOMAIN queue : queue[i].size <= queue[i].bytes
    /\ lease.size <= lease.retained

\* The channel holds at most the configured number of messages; a rendezvous
\* channel holds one only while its sender is still waiting for the handoff.
CapacityRespected ==
    IF Capacity = 0
    THEN Len(queue) <= 1 /\ (queue # <<>> => senderPc = "handoff")
    ELSE Len(queue) <= Capacity

\* While the channel is open, the sender has been told of at most `Capacity'
\* more messages than were taken: on a rendezvous channel of none.
Acknowledged == IF senderPc = "handoff" THEN accepted - 1 ELSE accepted
AheadByCapacity == ~Closed => Acknowledged - received <= Capacity

\* No lost wakeup: a thread asleep on the condition variable has nothing to
\* do. Whatever makes its condition true must have notified it.
NoLostWakeup ==
    /\ "sender" \in waiting =>
          \/ senderPc = "admit" /\ ~Closed /\ ~Admissible
          \/ senderPc = "handoff" /\ HandoffPending
    /\ "receiver" \in waiting =>
          receiverPc = "recv" /\ ~cancelled /\ queue = <<>> /\ senderAlive

\* The two threads never wait for each other.
NoMutualWait == waiting # {"sender", "receiver"}

\* recv reports the end of the stream only when every accepted message has
\* been received: closing the sender, cancelling or draining cannot hide one.
EndMeansAllReceived == recvResult = "End" => received = accepted

\* A rendezvous send reports Ok only for a message the receiver has taken.
AckMeansReceived ==
    Capacity = 0 /\ senderPc # "handoff" /\ sendResult = "Ok" => received = accepted

\* Messages are received in the order they were accepted, without a gap.
InOrder == [][received' \in {received, received + 1}]_received

\* A send call always returns: when the receiver leaves, when somebody
\* cancels, and when room and budget become available.
SendReturns == senderPc \in {"admit", "handoff"} ~> senderPc = "idle"

\* A recv call always returns.
RecvReturns == receiverPc = "recv" ~> receiverPc # "recv"

\* Everything charged is released in the end.
EventuallyReleased == <>[](bytes = 0)

\* The account of admitted bytes is exact: nothing wraps, nothing is owned
\* twice or by nobody, nothing exceeds the budget or its own reservation.
AccountIsExact == TypeOK /\ Conservation /\ WithinBudget /\ LeaseCoversBatch

\* What send and recv answer about the other end is so: neither the end of the
\* stream nor a rendezvous acknowledgement comes before its time.
AnswersAreTrue == EndMeansAllReceived /\ AckMeansReceived

\* Nobody sleeps on the condition variable with something to do, and the two
\* ends never sleep at once.
NoOneStuck == NoLostWakeup /\ NoMutualWait

\* Every call returns, and every admitted byte.
EverythingReturns == SendReturns /\ RecvReturns /\ EventuallyReleased

-----------------------------------------------------------------------------
(* What the transport is for its two ends, when its lock, its condition      *)
(* variable and the way reservations are returned are looked away from.      *)

Channel == INSTANCE BudgetedChannel WITH
    capacity <- Capacity, limit <- Limit,
    Messages <- Batches \cup {Failure},
    chan <- [i \in DOMAIN queue |-> [kind |-> queue[i].kind, size |-> queue[i].size]],
    charged <- bytes, open <- ~Closed, ended <- ~senderAlive

\* Every critical section is one operation of the abstract channel, or none.
ImplementsChannel == Channel!Spec
=============================================================================
