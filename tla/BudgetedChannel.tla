--------------------------- MODULE BudgetedChannel ---------------------------
(***************************************************************************)
(* What a channel between the producer and the writer promises, one step   *)
(* per operation and without its lock: messages come out in the order they *)
(* went in; no more than the capacity are in it; what is admitted and not  *)
(* yet returned stays within the limit; and closing it is final, discards  *)
(* what is in it and returns the charges in its own time.                  *)
(* ByteTransport implements it, and BoundedPipeline is built on it.        *)
(***************************************************************************)
EXTENDS Integers, Sequences

CONSTANT
    Messages    \* the messages, each with its size

VARIABLES
    capacity,   \* messages in the channel; a rendezvous (0) passes one at a time
    limit,      \* bytes admitted at once
    chan,       \* the messages accepted and not yet delivered
    charged,    \* the bytes admitted and not yet returned
    open,       \* neither cancelled nor left by the receiver
    ended       \* left by the sender

bounds == <<capacity, limit>>
channel == <<chan, charged, open, ended>>

Init == chan = <<>> /\ charged = 0 /\ open = TRUE /\ ended = FALSE

RoomOffByOne == Len(chan) <= (IF capacity = 0 THEN 1 ELSE capacity)
Room == Len(chan) < (IF capacity = 0 THEN 1 ELSE capacity)

Accept(message) ==
    /\ open /\ ~ended /\ Room /\ charged + message.size <= limit
    /\ chan' = Append(chan, message) /\ charged' = charged + message.size
    /\ UNCHANGED <<open, ended>>

Deliver ==
    /\ open /\ chan # <<>>
    /\ chan' = Tail(chan)
    /\ UNCHANGED <<charged, open, ended>>

\* A delivered batch takes up more than it was admitted with.
Grow(total) ==
    /\ total \in charged..limit
    /\ charged' = total
    /\ UNCHANGED <<chan, open, ended>>

\* Batches that are done with, or were discarded, return their charge.
Return(total) ==
    /\ total \in 0..charged
    /\ charged' = total
    /\ UNCHANGED <<chan, open, ended>>

HangUp ==
    /\ ended' = TRUE
    /\ UNCHANGED <<chan, charged, open>>

Close ==
    /\ open' = FALSE /\ chan' = <<>>
    /\ UNCHANGED <<charged, ended>>

Operation ==
    \/ \E message \in Messages : Accept(message)
    \/ Deliver
    \/ \E total \in 0..limit : Grow(total) \/ Return(total)
    \/ HangUp \/ Close

\* A channel is made with its bounds, and keeps them.
Next == Operation /\ UNCHANGED bounds

Spec == Init /\ [][Next]_<<bounds, channel>>
=============================================================================
