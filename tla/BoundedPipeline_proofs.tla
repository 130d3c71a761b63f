------------------------ MODULE BoundedPipeline_proofs ------------------------
(***************************************************************************)
(* A run of run_bounded_pipeline, for any configuration, any input and any *)
(* charges: what it returns is true of what it leaves, and what it holds   *)
(* does not grow with its input. The invariant says which rows are where:  *)
(* written, in the writer's hands, in the channel, in the message being    *)
(* sent and in the chunk, one after the other up to the reader's next row. *)
(***************************************************************************)
EXTENDS BoundedPipeline, SequenceTheorems, TLAPS

-----------------------------------------------------------------------------
(* Rows and charges in the channel *)

\* The rows n + 1 to m of the input.
Run(n, m) == [i \in 1..(m - n) |-> n + i]

\* The messages hold the rows from n + 1 to m, at[i] before the i-th of them.
InFlight(messages, n, m) ==
    \E at \in [1..(Len(messages) + 1) -> 0..m] :
        /\ at[1] = n /\ at[Len(messages) + 1] = m
        /\ \A i \in 1..Len(messages) :
            at[i] <= at[i + 1] /\ messages[i].rows = Run(at[i], at[i + 1])

\* The messages were admitted with total bytes, rest[i] from the i-th on.
ChargedFor(messages, total) ==
    \E rest \in [1..(Len(messages) + 1) -> Nat] :
        /\ rest[1] = total /\ rest[Len(messages) + 1] = 0
        /\ \A i \in 1..Len(messages) : rest[i] = messages[i].size + rest[i + 1]

LEMMA RunIsSequence ==
    ASSUME NEW n \in Nat, NEW m \in Nat, n <= m
    PROVE  /\ Run(n, m) \in Seq(Nat) /\ Len(Run(n, m)) = m - n
           /\ DOMAIN Run(n, m) = 1..(m - n)
           /\ \A i \in 1..(m - n) : Run(n, m)[i] = n + i
BY DEF Run

LEMMA EmptyRun ==
    ASSUME NEW n \in Nat
    PROVE  Run(n, n) = <<>>
BY EmptySeq DEF Run

LEMMA RunOfNext ==
    ASSUME NEW n \in Nat, NEW m \in Nat, n <= m
    PROVE  Append(Run(n, m), m + 1) = Run(n, m + 1)
<1>1. /\ Run(n, m) \in Seq(Nat) /\ Len(Run(n, m)) = m - n
      /\ \A i \in 1..(m - n) : Run(n, m)[i] = n + i
  BY RunIsSequence
<1>2. /\ Run(n, m + 1) \in Seq(Nat) /\ Len(Run(n, m + 1)) = m + 1 - n
      /\ \A i \in 1..(m + 1 - n) : Run(n, m + 1)[i] = n + i
  BY RunIsSequence
<1>3. Append(Run(n, m), m + 1) \in Seq(Nat) /\ Len(Append(Run(n, m), m + 1)) = m + 1 - n
  BY <1>1
<1>4. ASSUME NEW i \in 1..(m + 1 - n)
      PROVE  Append(Run(n, m), m + 1)[i] = n + i
  <2>1. CASE i = m + 1 - n
    BY <1>1, <2>1
  <2>2. CASE i # m + 1 - n
    BY <1>1, <2>2
  <2> QED
    BY <2>1, <2>2
<1> QED
  BY <1>2, <1>3, <1>4, SeqEqual

LEMMA RunsInARow ==
    ASSUME NEW n \in Nat, NEW m \in Nat, NEW k \in Nat, n <= m, m <= k
    PROVE  Run(n, m) \o Run(m, k) = Run(n, k)
<1>1. /\ Run(n, m) \in Seq(Nat) /\ Len(Run(n, m)) = m - n
      /\ \A i \in 1..(m - n) : Run(n, m)[i] = n + i
  BY RunIsSequence
<1>2. /\ Run(m, k) \in Seq(Nat) /\ Len(Run(m, k)) = k - m
      /\ \A i \in 1..(k - m) : Run(m, k)[i] = m + i
  BY RunIsSequence
<1>3. /\ Run(n, k) \in Seq(Nat) /\ Len(Run(n, k)) = k - n
      /\ \A i \in 1..(k - n) : Run(n, k)[i] = n + i
  BY RunIsSequence
<1>4. Run(n, m) \o Run(m, k) \in Seq(Nat) /\ Len(Run(n, m) \o Run(m, k)) = k - n
  <2>1. Run(n, m) \in Seq(Nat) /\ Run(m, k) \in Seq(Nat)
    BY <1>1, <1>2
  <2>2. /\ Run(n, m) \o Run(m, k) \in Seq(Nat)
        /\ Len(Run(n, m) \o Run(m, k)) = Len(Run(n, m)) + Len(Run(m, k))
    BY <2>1, ConcatProperties
  <2> QED
    BY <1>1, <1>2, <2>2
<1>5. ASSUME NEW i \in 1..(k - n)
      PROVE  (Run(n, m) \o Run(m, k))[i] = n + i
  <2>1. CASE i <= m - n
    BY <1>1, <1>2, <2>1
  <2>2. CASE i > m - n
    <3>1. i - (m - n) \in 1..(k - m)
      BY <2>2
    <3>2. (Run(n, m) \o Run(m, k))[i] = Run(m, k)[i - (m - n)]
      BY <1>1, <1>2, <2>2
    <3> QED
      BY <1>2, <3>1, <3>2
  <2>3. i <= m - n \/ i > m - n
    OBVIOUS
  <2> QED
    BY <2>1, <2>2, <2>3
<1> QED
  BY <1>3, <1>4, <1>5, SeqEqual

LEMMA NothingInFlight ==
    ASSUME NEW n \in Nat
    PROVE  /\ InFlight(<<>>, n, n)
           /\ \A m \in Nat : InFlight(<<>>, n, m) => n = m
           /\ ChargedFor(<<>>, 0)
           /\ \A total \in Nat : ChargedFor(<<>>, total) => total = 0
<1>1. InFlight(<<>>, n, n)
  <2> DEFINE at == [i \in 1..1 |-> n]
  <2>1. at \in [1..(Len(<<>>) + 1) -> 0..n] /\ at[1] = n /\ at[Len(<<>>) + 1] = n
    OBVIOUS
  <2> HIDE DEF at
  <2> QED
    BY <2>1 DEF InFlight
<1>2. ChargedFor(<<>>, 0)
  <2> DEFINE rest == [i \in 1..1 |-> 0]
  <2>1. rest \in [1..(Len(<<>>) + 1) -> Nat] /\ rest[1] = 0 /\ rest[Len(<<>>) + 1] = 0
    OBVIOUS
  <2> HIDE DEF rest
  <2> QED
    BY <2>1 DEF ChargedFor
<1> QED
  BY <1>1, <1>2 DEF InFlight, ChargedFor

LEMMA OneMoreInFlight ==
    ASSUME NEW messages \in Seq(Messages), NEW message \in Messages,
           NEW n \in Nat, NEW m \in Nat, NEW k \in Nat, m <= k,
           InFlight(messages, n, m), message.rows = Run(m, k)
    PROVE  InFlight(Append(messages, message), n, k)
<1> DEFINE more == Append(messages, message)
           len == Len(messages)
<1>1. /\ len \in Nat /\ more \in Seq(Messages) /\ Len(more) = len + 1
      /\ more[len + 1] = message /\ \A i \in 1..len : more[i] = messages[i]
  OBVIOUS
<1> HIDE DEF more
<1>2. PICK at \in [1..(len + 1) -> 0..m] :
        /\ at[1] = n /\ at[len + 1] = m
        /\ \A i \in 1..len : at[i] <= at[i + 1] /\ messages[i].rows = Run(at[i], at[i + 1])
  BY DEF InFlight
<1> HIDE DEF len
<1> DEFINE to == [i \in 1..(len + 2) |-> IF i = len + 2 THEN k ELSE at[i]]
<1>3. to \in [1..(len + 2) -> 0..k]
  <2> SUFFICES ASSUME NEW i \in 1..(len + 2)
               PROVE  to[i] \in 0..k
    OBVIOUS
  <2>1. i # len + 2 => i \in 1..(len + 1)
    BY <1>1
  <2> QED
    BY <1>1, <1>2, <2>1
<1>4. to[1] = n /\ to[len + 2] = k
  BY <1>1, <1>2
<1>5. ASSUME NEW i \in 1..(len + 1)
      PROVE  to[i] <= to[i + 1] /\ more[i].rows = Run(to[i], to[i + 1])
  <2>1. CASE i = len + 1
    BY <1>1, <1>2, <2>1
  <2>2. CASE i # len + 1
    <3>1. i \in 1..len /\ i + 1 \in 1..(len + 1)
      BY <1>1, <2>2
    <3>2. to[i] = at[i] /\ to[i + 1] = at[i + 1]
      BY <1>1, <3>1
    <3> QED
      BY <1>1, <1>2, <3>1, <3>2
  <2> QED
    BY <2>1, <2>2
<1> HIDE DEF to
<1> QED
  <2>1. len + 2 = Len(more) + 1 /\ len + 1 = Len(more)
    BY <1>1
  <2>2. /\ to \in [1..(Len(more) + 1) -> 0..k] /\ to[1] = n /\ to[Len(more) + 1] = k
        /\ \A i \in 1..Len(more) : to[i] <= to[i + 1] /\ more[i].rows = Run(to[i], to[i + 1])
    BY <1>3, <1>4, <1>5, <2>1
  <2>3. InFlight(more, n, k)
    BY <2>2 DEF InFlight
  <2> QED
    BY <2>3 DEF more

LEMMA FirstInFlight ==
    ASSUME NEW messages \in Seq(Messages), messages # <<>>,
           NEW n \in Nat, NEW m \in Nat, InFlight(messages, n, m)
    PROVE  \E k \in Nat :
              /\ n <= k /\ Head(messages).rows = Run(n, k)
              /\ InFlight(Tail(messages), k, m)
<1> DEFINE rest == Tail(messages)
           len == Len(rest)
<1>1. /\ len \in Nat /\ rest \in Seq(Messages) /\ Len(messages) = len + 1
      /\ \A i \in 1..len : rest[i] = messages[i + 1]
      /\ Head(messages) = messages[1]
  BY HeadTailProperties
<1> HIDE DEF rest
<1>2. PICK at \in [1..(len + 2) -> 0..m] :
        /\ at[1] = n /\ at[len + 2] = m
        /\ \A i \in 1..(len + 1) :
            at[i] <= at[i + 1] /\ messages[i].rows = Run(at[i], at[i + 1])
  BY <1>1 DEF InFlight
<1> HIDE DEF len
<1> DEFINE to == [i \in 1..(len + 1) |-> at[i + 1]]
<1>3. to \in [1..(len + 1) -> 0..m]
  BY <1>1, <1>2
<1>4. to[1] = at[2] /\ to[len + 1] = m /\ at[2] \in Nat
  BY <1>1, <1>2
<1>5. ASSUME NEW i \in 1..len
      PROVE  to[i] <= to[i + 1] /\ rest[i].rows = Run(to[i], to[i + 1])
  <2>1. i + 1 \in 1..(len + 1) /\ to[i] = at[i + 1] /\ to[i + 1] = at[i + 2]
    BY <1>1
  <2> QED
    BY <1>1, <1>2, <2>1
<1>6. n <= at[2] /\ Head(messages).rows = Run(n, at[2])
  BY <1>1, <1>2
<1> HIDE DEF to
<1>7. InFlight(rest, at[2], m)
  BY <1>3, <1>4, <1>5 DEF InFlight, len
<1> QED
  BY <1>4, <1>6, <1>7 DEF rest

LEMMA OneMoreCharged ==
    ASSUME NEW messages \in Seq(Messages), NEW message \in Messages,
           NEW total \in Nat, ChargedFor(messages, total)
    PROVE  ChargedFor(Append(messages, message), total + message.size)
<1> DEFINE more == Append(messages, message)
           len == Len(messages)
           sum == total + message.size
<1>1. /\ len \in Nat /\ more \in Seq(Messages) /\ Len(more) = len + 1
      /\ more[len + 1] = message /\ \A i \in 1..len : more[i] = messages[i]
      /\ message.size \in Nat /\ sum \in Nat
  BY DEF Messages
<1> HIDE DEF more
<1>2. PICK rest \in [1..(len + 1) -> Nat] :
        /\ rest[1] = total /\ rest[len + 1] = 0
        /\ \A i \in 1..len : rest[i] = messages[i].size + rest[i + 1]
  BY DEF ChargedFor
<1>8. ASSUME NEW i \in 1..len
      PROVE  messages[i].size \in Nat
  <2>1. messages[i] \in Messages
    BY ElementOfSeq
  <2> QED
    BY <2>1 DEF Messages
<1> HIDE DEF len
<1> DEFINE left == [i \in 1..(len + 2) |->
                        IF i = len + 2 THEN 0 ELSE rest[i] + message.size]
<1>3. left \in [1..(len + 2) -> Nat]
  <2> SUFFICES ASSUME NEW i \in 1..(len + 2)
               PROVE  left[i] \in Nat
    OBVIOUS
  <2>1. i # len + 2 => i \in 1..(len + 1)
    BY <1>1
  <2> QED
    BY <1>1, <1>2, <2>1
<1>4. left[1] = sum /\ left[len + 2] = 0
  BY <1>1, <1>2
<1>5. ASSUME NEW i \in 1..(len + 1)
      PROVE  left[i] = more[i].size + left[i + 1]
  <2>1. CASE i = len + 1
    BY <1>1, <1>2, <2>1
  <2>2. CASE i # len + 1
    <3>1. i \in 1..len /\ i + 1 \in 1..(len + 1)
      BY <1>1, <2>2
    <3>2. left[i] = rest[i] + message.size /\ left[i + 1] = rest[i + 1] + message.size
      BY <1>1, <3>1
    <3>3. /\ rest[i] \in Nat /\ rest[i + 1] \in Nat /\ more[i].size \in Nat
          /\ rest[i] = more[i].size + rest[i + 1]
      BY <1>1, <1>2, <1>8, <3>1
    <3> QED
      BY <1>1, <3>2, <3>3
  <2> QED
    BY <2>1, <2>2
<1> HIDE DEF left
<1> QED
  <2>1. len + 2 = Len(more) + 1 /\ len + 1 = Len(more)
    BY <1>1
  <2>2. /\ left \in [1..(Len(more) + 1) -> Nat] /\ left[1] = sum /\ left[Len(more) + 1] = 0
        /\ \A i \in 1..Len(more) : left[i] = more[i].size + left[i + 1]
    BY <1>3, <1>4, <1>5, <2>1
  <2>3. ChargedFor(more, sum)
    BY <2>2 DEF ChargedFor
  <2> QED
    BY <2>3 DEF more

LEMMA FirstCharged ==
    ASSUME NEW messages \in Seq(Messages), messages # <<>>,
           NEW total \in Nat, ChargedFor(messages, total)
    PROVE  /\ Head(messages).size \in 0..total
           /\ ChargedFor(Tail(messages), total - Head(messages).size)
<1> DEFINE others == Tail(messages)
           len == Len(others)
<1>1. /\ len \in Nat /\ others \in Seq(Messages) /\ Len(messages) = len + 1
      /\ \A i \in 1..len : others[i] = messages[i + 1]
      /\ Head(messages) = messages[1] /\ messages[1] \in Messages
  BY HeadTailProperties
<1> HIDE DEF others
<1>2. PICK rest \in [1..(len + 2) -> Nat] :
        /\ rest[1] = total /\ rest[len + 2] = 0
        /\ \A i \in 1..(len + 1) : rest[i] = messages[i].size + rest[i + 1]
  BY <1>1 DEF ChargedFor
<1>3. messages[1].size \in Nat
  BY <1>1 DEF Messages
<1>4. rest[2] \in Nat /\ total = messages[1].size + rest[2]
  BY <1>1, <1>2
<1> DEFINE most == total - Head(messages).size
<1>5. Head(messages).size \in 0..total /\ most = rest[2]
  BY <1>1, <1>3, <1>4
<1> HIDE DEF len
<1> DEFINE left == [i \in 1..(len + 1) |-> rest[i + 1]]
<1>6. left \in [1..(len + 1) -> Nat] /\ left[1] = rest[2] /\ left[len + 1] = 0
  BY <1>1, <1>2
<1>7. ASSUME NEW i \in 1..len
      PROVE  left[i] = others[i].size + left[i + 1]
  <2>1. i + 1 \in 1..(len + 1) /\ left[i] = rest[i + 1] /\ left[i + 1] = rest[i + 2]
    BY <1>1
  <2> QED
    BY <1>1, <1>2, <2>1
<1> HIDE DEF left
<1>8. ChargedFor(others, rest[2])
  BY <1>1, <1>6, <1>7 DEF ChargedFor, len
<1> QED
  BY <1>5, <1>8 DEF others

-----------------------------------------------------------------------------
(* The inductive invariant *)

Before == {"start", "stage", "spawn"}
Taking == {"check", "transform", "write"}
Consuming == Before \cup Taking \cup {"enter", "recv", "release"}
Publishing == {"decide", "sync", "rename", "syncParent"}

Handed == Len(written) + (IF runPc \in Taking THEN Len(lease.rows) ELSE 0)
Pending == IF prodPc = "send" THEN Len(outgoing.rows) ELSE 0
Sent == nextRow - 1 - Len(chunk) - Pending

\* Where the two threads can be, and what they have returned by then.
Threads ==
    /\ runPc \in Before => prodPc = "none"
    /\ ended <=> prodPc = "done"
    /\ prodPc # "done" <=> production = "None"
    /\ production \in {"None", "Ok", "Cancelled", "BatchTooLarge"}
    /\ runPc \in Consuming \cup {"finish"} => consumed = "None"
    /\ runPc \in {"leaving", "join"} => consumed # "None"
    /\ consumed \in {"None", "Ok", "Cancelled", "Io", "BatchGrowthExceedsBudget",
                     "NotPublished"}
    /\ runPc \in Publishing => consumed = "Ok" /\ production = "Ok"
    /\ runPc # "returned" => result = "None"
    /\ runPc = "returned" => ~staging

\* The message in the writer's hands.
Hands ==
    /\ lease # NoMessage => runPc \in Taking \cup {"release", "leaving"}
    /\ runPc \in Taking \cup {"release"} => lease.kind = "batch"

\* A closed channel, and what is called cancelled, comes of a cancellation or of
\* the writer's leaving.
Closing ==
    /\ ~open => cancelled \/ runPc \in {"join", "returned"} \cup Publishing
    /\ production = "Cancelled" => ~open
    /\ consumed = "Cancelled" => cancelled
    /\ runPc = "finish" \/ consumed = "Ok" => production \notin {"None", "Cancelled"}

\* What the producer is sending, and what it left unread when it was done.
Producing ==
    /\ nextRow <= input.rows + 1
    /\ prodPc \in {"none", "open"} => nextRow = 1 /\ chunk = <<>>
    /\ prodPc = "read" => input.fault # "open"
    /\ prodPc \in {"send", "accepted"} =>
        \/ outgoing = Failure /\ input.fault # "none"
        \/ /\ outgoing.kind = "batch" /\ outgoing \in Messages /\ input.fault # "open"
           /\ outgoing.last =>
                nextRow = input.rows + 1 /\ chunk = <<>> /\ input.fault = "none"
    /\ production = "Ok" =>
        \/ cancelled \/ input.fault # "none"
        \/ nextRow = input.rows + 1 /\ chunk = <<>>

\* Unless the run is cancelled, the error that ends a faulty input is the last
\* message, and the writer has not seen the end of the stream before it.
FailureSent ==
    input.fault # "none" /\ ~cancelled /\ runPc \in Consuming
        /\ (production = "Ok" \/ (prodPc = "accepted" /\ outgoing = Failure))
    => chan # <<>> /\ chan[Len(chan)].kind = "error"

\* The rows the producer holds end at the reader's next row.
Ends ==
    /\ chunk = Run(nextRow - 1 - Len(chunk), nextRow - 1)
    /\ prodPc = "send" => outgoing.rows = Run(Sent, Sent + Pending)
    /\ Len(chunk) + Pending < nextRow

\* Unless the run is cancelled, the charges admitted are the lease's and the
\* channel's; and unless a batch was refused, the rows written, leased and in the
\* channel are the input's, up to what the producer holds.
Flow ==
    ~cancelled /\ runPc \in Consuming =>
        /\ lease.size <= charged /\ ChargedFor(chan, charged - lease.size)
        /\ production # "BatchTooLarge" =>
            /\ written = Run(0, Len(written))
            /\ runPc \in Taking => lease.rows = Run(Len(written), Handed)
            /\ InFlight(chan, Handed, Sent)

\* A writer that has seen the end of the stream has seen all of the input.
Settled ==
    (runPc = "finish" /\ ~cancelled) \/ consumed = "Ok" =>
        /\ charged = 0 /\ lease = NoMessage
        /\ consumed = "Ok" => footer
        /\ production = "Ok" => input.fault = "none" /\ written = Rows

\* What the run's end does, one phase after the other.
Published ==
    /\ runPc \notin {"syncParent", "returned"} => output = OldOutput
    /\ runPc = "syncParent" => output # OldOutput
    /\ runPc \in Publishing => reported = 0

\* Room in the channel: a rendezvous passes one message to empty hands.
Waiting ==
    IF Capacity = 0
    THEN Len(chan) <= 1 /\ (chan # <<>> => lease = NoMessage)
    ELSE Len(chan) <= Capacity

\* The batch that was past the check when the flag was set is the last one.
LastBatch == cancelled /\ runPc \in {"transform", "write"} => batches <= late

IInv ==
    /\ ResultIsTrue /\ WorkIsBounded
    /\ Threads /\ Hands /\ Closing /\ Producing /\ FailureSent
    /\ Ends /\ Flow /\ Settled /\ Published /\ Waiting /\ LastBatch

-----------------------------------------------------------------------------
(* What a step leaves alone *)

\* The producer touches its own state and the channel.
LEMMA ProducerFrame ==
    ASSUME ProducerStep
    PROVE  /\ input' = input /\ cancelled' = cancelled /\ late' = late
           /\ runPc' = runPc /\ lease' = lease /\ consumed' = consumed
           /\ reported' = reported /\ result' = result
           /\ written' = written /\ batches' = batches /\ footer' = footer
           /\ staging' = staging /\ output' = output
BY DEF ProducerStep, ProduceUnchanged, token, file, consumer, OpenInput, ReadCancelled,
       ReadBadRow, ReadRow, Flush, SendAccepted, SendRefused, SendReturns

\* The calling thread touches neither the flag nor the producer's state, except
\* that it spawns it.
LEMMA CallerFrame ==
    ASSUME RunStep
    PROVE  /\ input' = input /\ cancelled' = cancelled /\ late' = late
           /\ nextRow' = nextRow /\ chunk' = chunk /\ outgoing' = outgoing
           /\ production' = production /\ ended' = ended
           /\ prodPc' = prodPc \/ (runPc = "spawn" /\ prodPc' = "open")
<1>1. CASE Start
  BY <1>1 DEF Start, Returns, Stopped, token, channel, producer
<1>2. CASE Stage
  BY <1>2 DEF Stage, Returns, token, channel, producer
<1>3. CASE Spawn
  BY <1>3 DEF Spawn, Go, Channel!Close, token, channel, producer
<1>4. CASE Enter
  BY <1>4 DEF Enter, LeavesWith, GoesOn, Stopped, ConsumeUnchanged, token, channel,
     producer
<1>5. CASE RecvCancelled
  BY <1>5 DEF RecvCancelled, LeavesWith, ConsumeUnchanged, token, channel, producer
<1>6. CASE RecvMessage
  BY <1>6 DEF RecvMessage, Channel!Deliver, GoesOn, LeavesWith, ConsumeUnchanged,
     token, channel, producer
<1>7. CASE RecvEnd
  BY <1>7 DEF RecvEnd, GoesOn, ConsumeUnchanged, token, channel, producer
<1>8. CASE CheckCancelled
  BY <1>8 DEF CheckCancelled, LeavesWith, GoesOn, Stopped, ConsumeUnchanged, token,
     channel, producer
<1>9. CASE TransformFails
  BY <1>9 DEF TransformFails, LeavesWith, ConsumeUnchanged, token, channel, producer
<1>10. CASE TransformFits
  BY <1>10 DEF TransformFits, GoesOn, ConsumeUnchanged, token, channel, producer
<1>11. CASE TransformGrows
  BY <1>11 DEF TransformGrows, Channel!Grow, GoesOn, LeavesWith, ConsumeUnchanged,
     token, channel, producer
<1>12. CASE Write
  BY <1>12 DEF Write, LeavesWith, GoesOn, ConsumeUnchanged, token, channel, producer
<1>13. CASE ReleaseLease
  BY <1>13 DEF ReleaseLease, Returned, Channel!Return, GoesOn, NoMessage,
     ConsumeUnchanged, token, channel, producer
<1>14. CASE CloseWriter
  BY <1>14 DEF CloseWriter, Stopped, LeavesWith, ConsumeUnchanged, token, channel,
     producer
<1>15. CASE Leave
  BY <1>15 DEF Leave, Channel!Close, GoesOn, ConsumeUnchanged, token, channel,
     producer
<1>16. CASE Join
  BY <1>16 DEF Join, Joined, Returns, PublishUnchanged, token, channel, producer
<1>17. CASE Decide
  BY <1>17 DEF Decide, Stopped, Returns, PublishUnchanged, token, channel, producer
<1>18. CASE SyncFile
  BY <1>18 DEF SyncFile, Returns, Outcome, PublishUnchanged, token, channel,
     producer
<1>19. CASE Rename
  BY <1>19 DEF Rename, Returns, Outcome, PublishUnchanged, token, channel, producer
<1>20. CASE SyncParent
  BY <1>20 DEF SyncParent, Returns, Outcome, PublishUnchanged, token, channel,
     producer
<1> QED
  BY <1>1, <1>2, <1>3, <1>4, <1>5, <1>6, <1>7, <1>8, <1>9, <1>10, <1>11, <1>12,
     <1>13, <1>14, <1>15, <1>16, <1>17, <1>18, <1>19, <1>20 DEF RunStep

\* Nobody else touches anything but the flag and the channel.
LEMMA OthersFrame ==
    ASSUME Cancel \/ CancelCloses \/ DiscardedReturned
    PROVE  /\ UNCHANGED <<input, prodPc, nextRow, chunk, outgoing, production>>
           /\ UNCHANGED <<written, batches, footer, staging, output>>
           /\ UNCHANGED <<runPc, lease, consumed, reported, result, ended>>
           /\ \/ /\ cancelled' = TRUE /\ late' = batches /\ Cancel
                 /\ UNCHANGED <<chan, charged, open>>
              \/ /\ open' = FALSE /\ chan' = <<>> /\ charged' = charged
                 /\ UNCHANGED <<cancelled, late>> /\ CancelCloses
              \/ /\ ~open /\ UNCHANGED <<open, chan, cancelled, late>> /\ DiscardedReturned
BY DEF Cancel, CancelCloses, DiscardedReturned, Channel!Close, Channel!Return, channel,
       token, producer, file, consumer

LEMMA Parameters ==
    ASSUME TypeOK
    PROVE  /\ Capacity \in Nat /\ Limit \in Nat \ {0} /\ BatchSize \in Nat \ {0}
           /\ config.maxRows \in Nat /\ Charges \subseteq Nat
           /\ input.rows \in 0..config.maxRows /\ input.fault \in {"none", "row", "open"}
<1>1. config \in [budgeted : BOOLEAN, capacity : Nat, limit : Nat \ {0},
                  batchSize : Nat \ {0}, maxRows : Nat]
  BY ConfigAssumption DEF TypeOK
<1> QED
  BY <1>1, SizesAssumption DEF TypeOK, Inputs, Charges, Capacity, Limit, BatchSize, Budgeted

\* The messages there are.
LEMMA MessageTypes ==
    /\ Failure \in Messages /\ Failure.rows = <<>> /\ Failure.size = 0 /\ Failure.last
    /\ Failure.kind = "error" /\ Failure # NoMessage
    /\ NoMessage \notin Messages /\ NoMessage.rows = <<>> /\ NoMessage.size = 0
    /\ \A rows \in Seq(Nat), size \in Nat, last \in BOOLEAN :
        /\ Batch(rows, size, last) \in Messages /\ Batch(rows, size, last) # Failure
        /\ Batch(rows, size, last).kind = "batch" /\ Batch(rows, size, last).rows = rows
        /\ Batch(rows, size, last).size = size /\ Batch(rows, size, last).last = last
<1>1. <<>> \in Seq(Nat)
  OBVIOUS
<1> QED
  BY <1>1 DEF Failure, NoMessage, Messages, Batch

\* A batch is sent, unless it is larger than the whole budget.
LEMMA BatchSent ==
    ASSUME TypeOK, NEW rows \in Seq(Nat), NEW last \in BOOLEAN, SendsBatch(rows, last)
    PROVE  /\ UNCHANGED <<chan, charged, open>>
           /\ \/ /\ production' = "BatchTooLarge" /\ prodPc' = "done" /\ ended' = TRUE
                 /\ outgoing' = outgoing
              \/ /\ production' = production /\ prodPc' = "send" /\ ended' = ended
                 /\ outgoing' \in Messages /\ outgoing' # Failure
                 /\ outgoing'.kind = "batch" /\ outgoing'.rows = rows
                 /\ outgoing'.last = last
<1>1. PICK size \in Charges :
        IF size > Limit
        THEN ProduceReturns("BatchTooLarge") /\ UNCHANGED outgoing
        ELSE Sends(Batch(rows, size, last))
  BY DEF SendsBatch
<1>2. size \in Nat
  BY Parameters
<1> QED
  BY <1>1, <1>2, MessageTypes DEF ProduceReturns, Channel!HangUp, Sends, channel

\* A row completes a batch or is added to the chunk.
LEMMA RowRead ==
    ASSUME TypeOK, ReadRow
    PROVE  LET rows == Append(chunk, nextRow)
           IN /\ rows \in Seq(Nat) /\ nextRow' = nextRow + 1
              /\ \/ chunk' = <<>> /\ SendsBatch(rows, FALSE)
                 \/ /\ chunk' = rows /\ Len(rows) # BatchSize
                    /\ UNCHANGED <<channel, prodPc, outgoing, production>>
<1> DEFINE rows == Append(chunk, nextRow)
<1>1. rows \in Seq(Nat)
  BY Parameters DEF TypeOK
<1> QED
  BY <1>1 DEF ReadRow, BatchFull

LEMMA ChunkFlushed ==
    ASSUME TypeOK, Flush
    PROVE  /\ nextRow' = nextRow /\ nextRow > input.rows /\ input.fault # "row"
           /\ \/ /\ chunk' = <<>> /\ SendsBatch(chunk, TRUE) /\ chunk \in Seq(Nat)
              \/ /\ chunk = <<>> \/ cancelled
                 /\ chunk' = chunk /\ outgoing' = outgoing
                 /\ production' = "Ok" /\ prodPc' = "done" /\ ended' = TRUE
                 /\ UNCHANGED <<chan, charged, open>>
BY DEF TypeOK, Flush, AtEnd, ProduceReturns, Channel!HangUp

\* A step leaves the channel as it is, or closes it, or is one of five.
LEMMA ChannelSteps ==
    ASSUME Step
    PROVE  \/ UNCHANGED <<chan, charged, open>>
           \/ chan' = <<>> /\ open' = FALSE /\ charged' = charged
           \/ SendAccepted \/ RecvMessage \/ TransformGrows
           \/ ReleaseLease \/ DiscardedReturned
<1>1. CASE OpenInput
  BY <1>1 DEF OpenInput, Sends, Failure, ProduceUnchanged, channel
<1>2. CASE ReadCancelled
  BY <1>2 DEF ReadCancelled, ProduceReturns, Channel!HangUp, AtEnd,
     ProduceUnchanged, channel
<1>3. CASE ReadBadRow
  BY <1>3 DEF ReadBadRow, Sends, Failure, AtEnd, ProduceUnchanged, channel
<1>4. CASE ReadRow
  BY <1>4 DEF ReadRow, SendsBatch, Sends, Batch, ProduceReturns, Channel!HangUp,
     AtEnd, BatchFull, ProduceUnchanged, channel
<1>5. CASE Flush
  BY <1>5 DEF Flush, SendsBatch, Sends, Batch, ProduceReturns, Channel!HangUp,
     AtEnd, ProduceUnchanged, channel
<1>6. CASE SendRefused
  BY <1>6 DEF SendRefused, ProduceReturns, Channel!HangUp, ProduceUnchanged, channel
<1>7. CASE SendReturns
  BY <1>7 DEF SendReturns, ProduceReturns, Channel!HangUp, NoMessage,
     ProduceUnchanged, channel
<1>8. CASE Start
  BY <1>8 DEF Start, Returns, Stopped, channel
<1>9. CASE Stage
  BY <1>9 DEF Stage, Returns, channel
<1>10. CASE Spawn
  BY <1>10 DEF Spawn, Go, Channel!Close, channel
<1>11. CASE Enter
  BY <1>11 DEF Enter, LeavesWith, GoesOn, Stopped, ConsumeUnchanged, channel
<1>12. CASE RecvCancelled
  BY <1>12 DEF RecvCancelled, LeavesWith, ConsumeUnchanged, channel
<1>13. CASE RecvEnd
  BY <1>13 DEF RecvEnd, GoesOn, ConsumeUnchanged, channel
<1>14. CASE CheckCancelled
  BY <1>14 DEF CheckCancelled, LeavesWith, GoesOn, Stopped, ConsumeUnchanged,
     channel
<1>15. CASE TransformFails
  BY <1>15 DEF TransformFails, LeavesWith, ConsumeUnchanged, channel
<1>16. CASE TransformFits
  BY <1>16 DEF TransformFits, GoesOn, ConsumeUnchanged, channel
<1>17. CASE Write
  BY <1>17 DEF Write, LeavesWith, GoesOn, ConsumeUnchanged, channel
<1>18. CASE CloseWriter
  BY <1>18 DEF CloseWriter, Stopped, LeavesWith, ConsumeUnchanged, channel
<1>19. CASE Leave
  BY <1>19 DEF Leave, Channel!Close, GoesOn, ConsumeUnchanged, channel
<1>20. CASE Join
  BY <1>20 DEF Join, Joined, Returns, PublishUnchanged, channel
<1>21. CASE Decide
  BY <1>21 DEF Decide, Stopped, Returns, PublishUnchanged, channel
<1>22. CASE SyncFile
  BY <1>22 DEF SyncFile, Returns, Outcome, PublishUnchanged, channel
<1>23. CASE Rename
  BY <1>23 DEF Rename, Returns, Outcome, PublishUnchanged, channel
<1>24. CASE SyncParent
  BY <1>24 DEF SyncParent, Returns, Outcome, PublishUnchanged, channel
<1>25. CASE Cancel
  BY <1>25 DEF Cancel, channel
<1>26. CASE CancelCloses
  BY <1>26 DEF CancelCloses, Registered, Channel!Close, channel
<1> QED
  BY <1>1, <1>2, <1>3, <1>4, <1>5, <1>6, <1>7, <1>8, <1>9, <1>10, <1>11, <1>12,
     <1>13, <1>14, <1>15, <1>16, <1>17, <1>18, <1>19, <1>20, <1>21, <1>22, <1>23,
     <1>24, <1>25, <1>26 DEF Step, ProducerStep, RunStep

-----------------------------------------------------------------------------
(* The parts of the invariant, one lemma each *)

ChannelTypes ==
    /\ chan \in Seq(Messages) /\ charged \in 0..Limit /\ open \in BOOLEAN
ProducerTypes ==
    /\ prodPc \in {"none", "open", "read", "send", "accepted", "done"}
    /\ nextRow \in 1..(config.maxRows + 1) /\ chunk \in Seq(Nat) /\ Len(chunk) < BatchSize
    /\ outgoing \in Messages \cup {NoMessage} /\ production \in Results
    /\ ended \in BOOLEAN
PlaceTypes ==
    runPc \in {"start", "stage", "spawn", "enter", "recv", "check", "transform", "write",
               "release", "finish", "leaving", "join", "decide", "sync", "rename",
               "syncParent", "returned"}
ValueTypes ==
    /\ lease \in Messages \cup {NoMessage} /\ consumed \in Results
    /\ written \in Seq(Nat) /\ batches \in Nat /\ footer \in BOOLEAN
    /\ staging \in BOOLEAN /\ reported \in Nat /\ result \in Results

\* A lease in the transform is a batch. It grows with its charge, or the writer leaves.
LEMMA LeaseGrown ==
    ASSUME TypeOK, Hands, TransformGrows
    PROVE  /\ lease \in Messages /\ UNCHANGED <<chan, open, ended, written, batches, footer>>
           /\ \/ /\ charged' = charged /\ lease' = lease /\ runPc' = "leaving"
                 /\ consumed' = "BatchGrowthExceedsBudget"
              \/ /\ runPc' = "write" /\ consumed' = consumed
                 /\ lease' \in Messages /\ lease' # NoMessage
                 /\ lease'.kind = lease.kind /\ lease'.rows = lease.rows
                 /\ charged' - lease'.size = charged - lease.size
                 /\ charged' \in charged..Limit
<1>1. PICK size \in Charges :
        /\ size > lease.size
        /\ IF size - lease.size <= Limit - charged
           THEN /\ Channel!Grow(charged + (size - lease.size))
                /\ lease' = [lease EXCEPT !.size = size]
                /\ GoesOn("write")
           ELSE LeavesWith("BatchGrowthExceedsBudget") /\ UNCHANGED <<channel, lease>>
  BY DEF TransformGrows
<1>2. size \in Nat /\ Limit \in Nat /\ charged \in Nat
  BY Parameters DEF TypeOK
<1>3. lease \in Messages
  BY MessageTypes DEF TypeOK, Hands, TransformGrows, Taking, NoMessage
<1>4. lease.size \in Nat
  BY <1>3 DEF Messages
<1>5. /\ [lease EXCEPT !.size = size] \in Messages
      /\ [lease EXCEPT !.size = size].kind = lease.kind
      /\ [lease EXCEPT !.size = size].rows = lease.rows
      /\ [lease EXCEPT !.size = size].size = size
  BY <1>2, <1>3 DEF Messages
<1>6. CASE size - lease.size <= Limit - charged
  <2>1. charged' = charged + (size - lease.size) /\ charged' \in charged..Limit
    BY <1>1, <1>2, <1>4, <1>6 DEF Channel!Grow
  <2>2. charged' - size = charged - lease.size
    BY <1>2, <1>4, <2>1
  <2>3. UNCHANGED <<chan, open, ended, written, batches, footer>>
    BY <1>1, <1>6 DEF TransformGrows, Channel!Grow
  <2>4. lease' = [lease EXCEPT !.size = size] /\ runPc' = "write" /\ consumed' = consumed
    BY <1>1, <1>6 DEF GoesOn
  <2> QED
    BY <1>3, <1>5, <2>1, <2>2, <2>3, <2>4, MessageTypes
<1>7. CASE ~(size - lease.size <= Limit - charged)
  BY <1>1, <1>3, <1>7 DEF TransformGrows, LeavesWith, channel
<1> QED
  BY <1>6, <1>7

LEMMA TypeStep ==
    ASSUME TypeOK, Threads, Hands, Producing, Step, UNCHANGED config
    PROVE  TypeOK'
<1>0. /\ Capacity \in Nat /\ Limit \in Nat \ {0} /\ BatchSize \in Nat \ {0}
      /\ config.maxRows \in Nat /\ Charges \subseteq Nat
      /\ input.rows \in 0..config.maxRows
  BY Parameters
<1> UNCHANGED <<Inputs, Limit, BatchSize>>
  BY DEF Inputs, Limit, BatchSize
<1>1. ChannelTypes'
  <2>0. ChannelTypes
    BY DEF TypeOK, ChannelTypes
  <2>1. CASE SendAccepted
    <3>1. outgoing \in Messages /\ outgoing.size \in Nat
      BY <2>1, MessageTypes DEF SendAccepted, Producing, Messages
    <3> QED
      BY <1>0, <2>0, <2>1, <3>1 DEF ChannelTypes, SendAccepted, Channel!Accept
  <2>2. CASE RecvMessage
    BY <2>0, <2>2, HeadTailProperties DEF ChannelTypes, RecvMessage, Channel!Deliver
  <2>3. CASE TransformGrows
    BY <1>0, <2>0, <2>3 DEF ChannelTypes, TransformGrows, Channel!Grow, channel
  <2>4. CASE ReleaseLease \/ DiscardedReturned
    BY <1>0, <2>0, <2>4
    DEF ChannelTypes, ReleaseLease, Returned, DiscardedReturned, Channel!Return
  <2>5. <<>> \in Seq(Messages)
    BY EmptySeq
  <2> QED
    BY <1>0, <2>0, <2>1, <2>2, <2>3, <2>4, <2>5, ChannelSteps DEF ChannelTypes
<1>2. ProducerTypes'
  <2>0. ProducerTypes
    BY DEF TypeOK, ProducerTypes
  <2>1. CASE OpenInput
    BY <1>0, <2>0, <2>1, MessageTypes DEF channel, ProducerTypes, Results, OpenInput, Sends
  <2>2. CASE ReadCancelled
    BY <1>0, <2>0, <2>2 DEF ProducerTypes, Results, ReadCancelled, ProduceReturns,
       Channel!HangUp, AtEnd
  <2>3. CASE ReadBadRow
    BY <1>0, <2>0, <2>3, MessageTypes DEF channel, ProducerTypes, Results, ReadBadRow, Sends,
       AtEnd
  <2>4. CASE ReadRow
    <3>1. Len(Append(chunk, nextRow)) = Len(chunk) + 1 /\ <<>> \in Seq(Nat)
      BY <2>0, EmptySeq DEF ProducerTypes
    <3>2. nextRow' \in 1..(config.maxRows + 1)
      BY <1>0, <2>0, <2>4 DEF ProducerTypes, ReadRow
    <3>3. CASE chunk' = <<>> /\ SendsBatch(Append(chunk, nextRow), FALSE)
      <4>1. /\ prodPc' \in {"done", "send"} /\ ended' \in BOOLEAN
            /\ outgoing' \in Messages \cup {outgoing}
            /\ production' \in {"BatchTooLarge", production}
        BY <2>0, <2>4, <3>3, RowRead, BatchSent DEF ProducerTypes
      <4> QED
        BY <1>0, <2>0, <3>1, <3>2, <3>3, <4>1 DEF ProducerTypes, Results
    <3>4. CASE /\ chunk' = Append(chunk, nextRow) /\ Len(chunk') # BatchSize
               /\ UNCHANGED <<channel, prodPc, outgoing, production>>
      <4>1. chunk' \in Seq(Nat) /\ Len(chunk') < BatchSize
        BY <1>0, <2>0, <2>4, <3>1, <3>4, RowRead DEF ProducerTypes
      <4> QED
        BY <1>0, <2>0, <3>2, <3>4, <4>1 DEF ProducerTypes, channel
    <3> QED
      BY <2>4, <3>3, <3>4, RowRead
  <2>5. CASE Flush
    <3>1. <<>> \in Seq(Nat)
      BY EmptySeq
    <3>2. CASE chunk' = <<>> /\ SendsBatch(chunk, TRUE)
      <4>1. /\ prodPc' \in {"done", "send"} /\ ended' \in BOOLEAN
            /\ outgoing' \in Messages \cup {outgoing}
            /\ production' \in {"BatchTooLarge", production}
        BY <2>0, <2>5, <3>2, BatchSent DEF ProducerTypes
      <4> QED
        BY <1>0, <2>0, <2>5, <3>1, <3>2, <4>1, ChunkFlushed DEF ProducerTypes, Results
    <3> QED
      BY <2>0, <2>5, <3>1, <3>2, ChunkFlushed DEF ProducerTypes, Results
  <2>6. CASE SendAccepted
    BY <1>0, <2>0, <2>6 DEF ProducerTypes, Results, SendAccepted, Channel!Accept,
       Channel!Room
  <2>7. CASE SendRefused
    BY <1>0, <2>0, <2>7 DEF ProducerTypes, Results, SendRefused, ProduceReturns,
       Channel!HangUp
  <2>8. CASE SendReturns
    BY <1>0, <2>0, <2>8, MessageTypes DEF channel, ProducerTypes, Results, SendReturns,
       ProduceReturns, Channel!HangUp
  <2>9. CASE RunStep
    BY <2>0, <2>9, CallerFrame DEF ProducerTypes
  <2>10. CASE Cancel \/ CancelCloses \/ DiscardedReturned
    BY <2>0, <2>10, OthersFrame DEF ProducerTypes
  <2> QED
    BY <2>1, <2>2, <2>3, <2>4, <2>5, <2>6, <2>7, <2>8, <2>9, <2>10 DEF Step, ProducerStep
<1>3. PlaceTypes'
  <2>0. PlaceTypes
    BY DEF TypeOK, PlaceTypes
  <2>1. CASE Start
    BY <2>0, <2>1 DEF PlaceTypes, Start, Returns
  <2>2. CASE Stage
    BY <2>0, <2>2 DEF PlaceTypes, Stage, Returns
  <2>3. CASE Spawn
    BY <2>0, <2>3 DEF PlaceTypes, Spawn, Go
  <2>4. CASE Enter
    BY <2>0, <2>4 DEF PlaceTypes, Enter, LeavesWith, GoesOn
  <2>5. CASE RecvCancelled
    BY <2>0, <2>5 DEF PlaceTypes, RecvCancelled, LeavesWith
  <2>6. CASE RecvMessage
    BY <2>0, <2>6 DEF PlaceTypes, RecvMessage, GoesOn, LeavesWith
  <2>7. CASE RecvEnd
    BY <2>0, <2>7 DEF PlaceTypes, RecvEnd, GoesOn
  <2>8. CASE CheckCancelled
    BY <2>0, <2>8 DEF PlaceTypes, CheckCancelled, LeavesWith, GoesOn
  <2>9. CASE TransformFails
    BY <2>0, <2>9 DEF PlaceTypes, TransformFails, LeavesWith
  <2>10. CASE TransformFits
    BY <2>0, <2>10 DEF PlaceTypes, TransformFits, GoesOn
  <2>11. CASE TransformGrows
    BY <2>0, <2>11 DEF PlaceTypes, TransformGrows, GoesOn, LeavesWith
  <2>12. CASE Write
    BY <2>0, <2>12 DEF PlaceTypes, Write, LeavesWith, GoesOn
  <2>13. CASE ReleaseLease
    BY <2>0, <2>13 DEF PlaceTypes, ReleaseLease, GoesOn
  <2>14. CASE CloseWriter
    BY <2>0, <2>14 DEF PlaceTypes, CloseWriter, LeavesWith
  <2>15. CASE Leave
    BY <2>0, <2>15 DEF PlaceTypes, Leave, GoesOn
  <2>16. CASE Join
    BY <2>0, <2>16 DEF PlaceTypes, Join, Returns
  <2>17. CASE Decide
    BY <2>0, <2>17 DEF PlaceTypes, Decide, Returns
  <2>18. CASE SyncFile
    BY <2>0, <2>18 DEF PlaceTypes, SyncFile, Returns
  <2>19. CASE Rename
    BY <2>0, <2>19 DEF PlaceTypes, Rename, Returns
  <2>20. CASE SyncParent
    BY <2>0, <2>20 DEF PlaceTypes, SyncParent, Returns
  <2>21. CASE ProducerStep
    BY <2>0, <2>21, ProducerFrame DEF PlaceTypes
  <2>22. CASE Cancel \/ CancelCloses \/ DiscardedReturned
    BY <2>0, <2>22, OthersFrame DEF PlaceTypes
  <2> QED
    BY <2>1, <2>2, <2>3, <2>4, <2>5, <2>6, <2>7, <2>8, <2>9, <2>10, <2>11, <2>12,
       <2>13, <2>14, <2>15, <2>16, <2>17, <2>18, <2>19, <2>20, <2>21, <2>22 DEF
       Step, RunStep
<1>4. ValueTypes'
  <2>0. ValueTypes
    BY DEF TypeOK, ValueTypes
  <2>31. chan # <<>> => Head(chan) \in Messages
    BY HeadTailProperties DEF TypeOK
  <2>32. lease.rows \in Seq(Nat) /\ lease.size \in Nat
    <3>1. lease \in Messages => lease.rows \in Seq(Nat) /\ lease.size \in Nat
      BY DEF Messages
    <3>2. <<>> \in Seq(Nat)
      BY EmptySeq
    <3>3. NoMessage.rows \in Seq(Nat) /\ NoMessage.size \in Nat
      BY <3>2, MessageTypes
    <3> QED
      BY <2>0, <3>1, <3>3 DEF ValueTypes
  <2>33. charged \in Nat /\ production \in Results
    BY <1>0 DEF TypeOK
  <2>1. CASE Start
    BY <2>0, <2>1 DEF ValueTypes, Results, Start, Returns, token, channel, producer,
       file, consumer
  <2>2. CASE Stage
    BY <2>0, <2>2 DEF ValueTypes, Results, Stage, Returns, token, channel, producer,
       file, consumer
  <2>3. CASE Spawn
    BY <2>0, <2>3 DEF ValueTypes, Results, Spawn, token, channel, producer, file,
       consumer
  <2>4. CASE Enter
    BY <2>0, <2>4 DEF ValueTypes, Results, Enter, LeavesWith, GoesOn,
       ConsumeUnchanged
  <2>5. CASE RecvCancelled
    BY <2>0, <2>5 DEF ValueTypes, Results, RecvCancelled, LeavesWith,
       ConsumeUnchanged
  <2>6. CASE RecvMessage
    BY <2>0, <2>6, <2>31
    DEF ValueTypes, Results, RecvMessage, Channel!Deliver, GoesOn, LeavesWith,
       ConsumeUnchanged
  <2>7. CASE RecvEnd
    BY <2>0, <2>7 DEF ValueTypes, Results, RecvEnd, GoesOn, ConsumeUnchanged
  <2>8. CASE CheckCancelled
    BY <2>0, <2>8 DEF ValueTypes, Results, CheckCancelled, LeavesWith, GoesOn,
       ConsumeUnchanged
  <2>9. CASE TransformFails
    BY <2>0, <2>9 DEF ValueTypes, Results, TransformFails, LeavesWith,
       ConsumeUnchanged
  <2>10. CASE TransformFits
    BY <2>0, <2>10 DEF ValueTypes, Results, TransformFits, GoesOn, ConsumeUnchanged
  <2>11. CASE TransformGrows
    BY <2>0, <2>11, LeaseGrown DEF ValueTypes, Results, TransformGrows, ConsumeUnchanged
  <2>12. CASE Write
    <3>1. written \o lease.rows \in Seq(Nat)
      BY <2>0, <2>32, ConcatProperties DEF ValueTypes
    <3>2. \/ consumed' = "NotPublished" /\ written' = written /\ batches' = batches
          \/ consumed' = consumed /\ written' = written \o lease.rows /\ batches' = batches + 1
      BY <2>12 DEF Write, LeavesWith, GoesOn
    <3>3. written' \in Seq(Nat)
      BY <2>0, <3>1, <3>2 DEF ValueTypes
    <3> QED
      BY <2>0, <2>12, <3>2, <3>3 DEF ValueTypes, Results, Write, ConsumeUnchanged
  <2>13. CASE ReleaseLease
    BY <2>0, <2>13 DEF ValueTypes, Results, ReleaseLease, GoesOn, ConsumeUnchanged
  <2>14. CASE CloseWriter
    BY <2>0, <2>14 DEF ValueTypes, Results, CloseWriter, LeavesWith,
       ConsumeUnchanged
  <2>15. CASE Leave
    BY <2>0, <2>15 DEF ValueTypes, Results, Leave, GoesOn, ConsumeUnchanged
  <2>16. CASE Join
    BY <2>0, <2>16, <2>33 DEF ValueTypes, Results, Join, Joined, Returns,
       PublishUnchanged
  <2>17. CASE Decide
    BY <2>0, <2>17 DEF ValueTypes, Results, Decide, Returns, PublishUnchanged
  <2>18. CASE SyncFile
    BY <2>0, <2>18 DEF ValueTypes, Results, SyncFile, Returns, Outcome,
       PublishUnchanged
  <2>19. CASE Rename
    BY <2>0, <2>19 DEF ValueTypes, Results, Rename, Returns, Outcome,
       PublishUnchanged
  <2>20. CASE SyncParent
    BY <2>0, <2>20 DEF ValueTypes, Results, SyncParent, Returns, Outcome,
       PublishUnchanged
  <2>21. CASE ProducerStep
    BY <2>0, <2>21, ProducerFrame DEF ValueTypes
  <2>22. CASE Cancel \/ CancelCloses \/ DiscardedReturned
    BY <2>0, <2>22, OthersFrame DEF ValueTypes
  <2> QED
    BY <2>1, <2>2, <2>3, <2>4, <2>5, <2>6, <2>7, <2>8, <2>9, <2>10, <2>11, <2>12,
       <2>13, <2>14, <2>15, <2>16, <2>17, <2>18, <2>19, <2>20, <2>21, <2>22 DEF
       Step, RunStep
<1>5. config' \in Configs /\ input' \in Inputs' /\ cancelled' \in BOOLEAN /\ late' \in Nat
  <2>1. CASE ProducerStep \/ RunStep
    BY <2>1, ProducerFrame, CallerFrame DEF TypeOK
  <2>2. CASE Cancel \/ CancelCloses \/ DiscardedReturned
    BY <2>2, OthersFrame DEF TypeOK
  <2> QED
    BY <2>1, <2>2 DEF Step
<1> QED
  BY <1>1, <1>2, <1>3, <1>4, <1>5
  DEF TypeOK, ChannelTypes, ProducerTypes, PlaceTypes, ValueTypes

LEMMA ThreadsStep ==
    ASSUME TypeOK, Threads, Producing, Step, UNCHANGED config
    PROVE  Threads'
<1>0. PlaceTypes
  BY DEF TypeOK, PlaceTypes
<1>1. CASE OpenInput
  BY <1>1, <1>0 DEF Threads, PlaceTypes, Consuming, Before, Taking, Publishing,
     OpenInput, Sends, ProduceUnchanged, token, channel, producer, file, consumer
<1>2. CASE ReadCancelled
  BY <1>2, <1>0 DEF Threads, PlaceTypes, Consuming, Before, Taking, Publishing,
     ReadCancelled, ProduceReturns, Channel!HangUp, ProduceUnchanged, token,
     channel, producer, file, consumer
<1>3. CASE ReadBadRow
  BY <1>3, <1>0 DEF Threads, PlaceTypes, Consuming, Before, Taking, Publishing,
     ReadBadRow, Sends, ProduceUnchanged, token, channel, producer, file, consumer
<1>4. CASE ReadRow
  <2>1. \/ UNCHANGED <<production, prodPc, ended>>
        \/ production' = "BatchTooLarge" /\ prodPc' = "done" /\ ended' = TRUE
        \/ production' = production /\ prodPc' = "send" /\ ended' = ended
    BY <1>4, RowRead, BatchSent DEF channel
  <2> QED
    BY <1>4, <2>1 DEF Threads, Before, ReadRow, ProduceUnchanged, file, consumer
<1>5. CASE Flush
  BY <1>5, ChunkFlushed, BatchSent DEF Threads, Consuming, Before, Taking, Publishing, Flush,
     ProduceUnchanged, file, consumer
<1>6. CASE SendAccepted
  BY <1>6, <1>0 DEF Threads, PlaceTypes, Consuming, Before, Taking, Publishing,
     SendAccepted, Channel!Accept, Channel!Room, ProduceUnchanged, token, channel,
     producer, file, consumer
<1>7. CASE SendRefused
  BY <1>7, <1>0 DEF Threads, PlaceTypes, Consuming, Before, Taking, Publishing,
     SendRefused, ProduceReturns, Channel!HangUp, ProduceUnchanged, token, channel,
     producer, file, consumer
<1>8. CASE SendReturns
  BY <1>8, <1>0 DEF Threads, PlaceTypes, Consuming, Before, Taking, Publishing,
     SendReturns, ProduceReturns, Channel!HangUp, ProduceUnchanged, token, channel,
     producer, file, consumer
<1>9. CASE Start
  BY <1>9, <1>0 DEF Threads, PlaceTypes, Consuming, Before, Taking, Publishing,
     Start, Returns, Stopped, token, channel, producer, file, consumer
<1>10. CASE Stage
  BY <1>10, <1>0 DEF Threads, PlaceTypes, Consuming, Before, Taking, Publishing,
     Stage, Returns, token, channel, producer, file, consumer
<1>11. CASE Spawn
  BY <1>11, <1>0 DEF Threads, PlaceTypes, Consuming, Before, Taking, Publishing,
     Spawn, Go, Channel!Close, token, channel, producer, file, consumer
<1>12. CASE Enter
  BY <1>12, <1>0 DEF Threads, PlaceTypes, Consuming, Before, Taking, Publishing,
     Enter, LeavesWith, GoesOn, Stopped, ConsumeUnchanged, token, channel, producer,
     file, consumer
<1>13. CASE RecvCancelled
  BY <1>13, <1>0 DEF Threads, PlaceTypes, Consuming, Before, Taking, Publishing,
     RecvCancelled, LeavesWith, ConsumeUnchanged, token, channel, producer, file,
     consumer
<1>14. CASE RecvMessage
  BY <1>14, <1>0 DEF Threads, PlaceTypes, Consuming, Before, Taking, Publishing,
     RecvMessage, Channel!Deliver, GoesOn, LeavesWith, ConsumeUnchanged, token,
     channel, producer, file, consumer
<1>15. CASE RecvEnd
  BY <1>15, <1>0 DEF Threads, PlaceTypes, Consuming, Before, Taking, Publishing,
     RecvEnd, GoesOn, ConsumeUnchanged, token, channel, producer, file, consumer
<1>16. CASE CheckCancelled
  BY <1>16, <1>0 DEF Threads, PlaceTypes, Consuming, Before, Taking, Publishing,
     CheckCancelled, LeavesWith, GoesOn, Stopped, ConsumeUnchanged, token, channel,
     producer, file, consumer
<1>17. CASE TransformFails
  BY <1>17, <1>0 DEF Threads, PlaceTypes, Consuming, Before, Taking, Publishing,
     TransformFails, LeavesWith, ConsumeUnchanged, token, channel, producer, file,
     consumer
<1>18. CASE TransformFits
  BY <1>18, <1>0 DEF Threads, PlaceTypes, Consuming, Before, Taking, Publishing,
     TransformFits, GoesOn, ConsumeUnchanged, token, channel, producer, file,
     consumer
<1>19. CASE TransformGrows
  BY <1>19, <1>0 DEF Threads, PlaceTypes, Consuming, Before, Taking, Publishing,
     TransformGrows, Channel!Grow, GoesOn, LeavesWith, ConsumeUnchanged, token,
     channel, producer, file, consumer
<1>20. CASE Write
  BY <1>20, <1>0 DEF Threads, PlaceTypes, Consuming, Before, Taking, Publishing,
     Write, LeavesWith, GoesOn, ConsumeUnchanged, token, channel, producer, file,
     consumer
<1>21. CASE ReleaseLease
  BY <1>21, <1>0 DEF Threads, PlaceTypes, Consuming, Before, Taking, Publishing,
     ReleaseLease, Returned, Channel!Return, GoesOn, ConsumeUnchanged, token,
     channel, producer, file, consumer
<1>22. CASE CloseWriter
  BY <1>22, <1>0 DEF Threads, PlaceTypes, Consuming, Before, Taking, Publishing,
     CloseWriter, Stopped, LeavesWith, ConsumeUnchanged, token, channel, producer,
     file, consumer
<1>23. CASE Leave
  BY <1>23, <1>0 DEF Threads, PlaceTypes, Consuming, Before, Taking, Publishing,
     Leave, Channel!Close, GoesOn, ConsumeUnchanged, token, channel, producer, file,
     consumer
<1>24. CASE Join
  BY <1>24, <1>0 DEF Threads, PlaceTypes, Consuming, Before, Taking, Publishing,
     Join, Joined, Returns, PublishUnchanged, token, channel, producer, file,
     consumer
<1>25. CASE Decide
  BY <1>25, <1>0 DEF Threads, PlaceTypes, Consuming, Before, Taking, Publishing,
     Decide, Stopped, Returns, PublishUnchanged, token, channel, producer, file,
     consumer
<1>26. CASE SyncFile
  BY <1>26, <1>0 DEF Threads, PlaceTypes, Consuming, Before, Taking, Publishing,
     SyncFile, Returns, PublishUnchanged, token, channel, producer, file, consumer
<1>27. CASE Rename
  BY <1>27, <1>0 DEF Threads, PlaceTypes, Consuming, Before, Taking, Publishing,
     Rename, Returns, PublishUnchanged, token, channel, producer, file, consumer
<1>28. CASE SyncParent
  BY <1>28, <1>0 DEF Threads, PlaceTypes, Consuming, Before, Taking, Publishing,
     SyncParent, Returns, PublishUnchanged, token, channel, producer, file, consumer
<1>29. CASE Cancel \/ CancelCloses \/ DiscardedReturned
  <2>1. UNCHANGED <<runPc, prodPc, ended, production, consumed, result, staging>>
    BY <1>29, OthersFrame
  <2> QED
    BY <2>1 DEF Threads
<1> QED
  BY <1>1, <1>2, <1>3, <1>4, <1>5, <1>6, <1>7, <1>8, <1>9, <1>10, <1>11, <1>12,
     <1>13, <1>14, <1>15, <1>16, <1>17, <1>18, <1>19, <1>20, <1>21, <1>22, <1>23,
     <1>24, <1>25, <1>26, <1>27, <1>28, <1>29 DEF Step, ProducerStep, RunStep

LEMMA HandsStep ==
    ASSUME TypeOK, Hands, Step
    PROVE  Hands' 
<1>1. CASE Start
  BY <1>1 DEF Hands, Taking, Start, Returns, token, channel, producer, file,
     consumer
<1>2. CASE Stage
  BY <1>2 DEF Hands, Taking, Stage, Returns, token, channel, producer, file,
     consumer
<1>3. CASE Spawn
  BY <1>3 DEF Hands, Taking, Spawn, Go, token, channel, producer, file, consumer
<1>4. CASE Enter
  BY <1>4 DEF Hands, Taking, Enter, LeavesWith, GoesOn, ConsumeUnchanged, token,
     channel, producer, file, consumer
<1>5. CASE RecvCancelled
  BY <1>5 DEF Hands, Taking, RecvCancelled, LeavesWith, ConsumeUnchanged, token,
     channel, producer, file, consumer
<1>6. CASE RecvMessage
  BY <1>6 DEF Hands, Taking, RecvMessage, Channel!Deliver, GoesOn, LeavesWith,
     ConsumeUnchanged, token, channel, producer, file, consumer
<1>7. CASE RecvEnd
  BY <1>7 DEF Hands, Taking, RecvEnd, GoesOn, ConsumeUnchanged, token, channel,
     producer, file, consumer
<1>8. CASE CheckCancelled
  BY <1>8 DEF Hands, Taking, CheckCancelled, LeavesWith, GoesOn, ConsumeUnchanged,
     token, channel, producer, file, consumer
<1>9. CASE TransformFails
  BY <1>9 DEF Hands, Taking, TransformFails, LeavesWith, ConsumeUnchanged, token,
     channel, producer, file, consumer
<1>10. CASE TransformFits
  BY <1>10 DEF Hands, Taking, TransformFits, GoesOn, ConsumeUnchanged, token,
     channel, producer, file, consumer
<1>11. CASE TransformGrows
  <2>1. \/ lease' = lease /\ runPc' = "leaving"
        \/ lease'.kind = lease.kind /\ runPc' = "write"
    BY <1>11, LeaseGrown
  <2> QED
    BY <1>11, <2>1 DEF Hands, Taking, TransformGrows
<1>12. CASE Write
  BY <1>12 DEF Hands, Taking, Write, LeavesWith, GoesOn, ConsumeUnchanged, token,
     channel, producer, file, consumer
<1>13. CASE ReleaseLease
  BY <1>13 DEF Hands, Taking, ReleaseLease, GoesOn, NoMessage, ConsumeUnchanged,
     token, channel, producer, file, consumer
<1>14. CASE CloseWriter
  BY <1>14 DEF Hands, Taking, CloseWriter, LeavesWith, ConsumeUnchanged, token,
     channel, producer, file, consumer
<1>15. CASE Leave
  BY <1>15 DEF Hands, Taking, Leave, GoesOn, ConsumeUnchanged, token, channel,
     producer, file, consumer
<1>16. CASE Join
  BY <1>16 DEF Hands, Taking, Join, Joined, Returns, PublishUnchanged, token,
     channel, producer, file, consumer
<1>17. CASE Decide
  BY <1>17 DEF Hands, Taking, Decide, Returns, PublishUnchanged, token, channel,
     producer, file, consumer
<1>18. CASE SyncFile
  BY <1>18 DEF Hands, Taking, SyncFile, Returns, PublishUnchanged, token, channel,
     producer, file, consumer
<1>19. CASE Rename
  BY <1>19 DEF Hands, Taking, Rename, Returns, PublishUnchanged, token, channel,
     producer, file, consumer
<1>20. CASE SyncParent
  BY <1>20 DEF Hands, Taking, SyncParent, Returns, PublishUnchanged, token, channel,
     producer, file, consumer
<1>21. CASE ProducerStep
  BY <1>21, ProducerFrame DEF Hands
<1>22. CASE Cancel \/ CancelCloses \/ DiscardedReturned
  <2>1. UNCHANGED <<runPc, lease>>
    BY <1>22, OthersFrame
  <2> QED
    BY <2>1 DEF Hands
<1> QED
  BY <1>1, <1>2, <1>3, <1>4, <1>5, <1>6, <1>7, <1>8, <1>9, <1>10, <1>11, <1>12,
     <1>13, <1>14, <1>15, <1>16, <1>17, <1>18, <1>19, <1>20, <1>21, <1>22 DEF Step,
     RunStep

LEMMA ClosingStep ==
    ASSUME Threads, Closing, Step
    PROVE  Closing' 
<1>1. CASE OpenInput
  BY <1>1 DEF Threads, Closing, Consuming, Before, Taking, Publishing, OpenInput,
     Sends, ProduceUnchanged, token, channel, producer, file, consumer
<1>2. CASE ReadCancelled
  BY <1>2 DEF Threads, Closing, Consuming, Before, Taking, Publishing,
     ReadCancelled, ProduceReturns, Channel!HangUp, ProduceUnchanged, token,
     channel, producer, file, consumer
<1>3. CASE ReadBadRow
  BY <1>3 DEF Threads, Closing, Consuming, Before, Taking, Publishing, ReadBadRow,
     Sends, ProduceUnchanged, token, channel, producer, file, consumer
<1>4. CASE ReadRow
  BY <1>4 DEF Threads, Closing, Consuming, Before, Taking, Publishing, ReadRow,
     SendsBatch, Sends, ProduceReturns, Channel!HangUp, ProduceUnchanged, token,
     channel, producer, file, consumer
<1>5. CASE Flush
  BY <1>5 DEF Threads, Closing, Consuming, Before, Taking, Publishing, Flush,
     SendsBatch, Sends, ProduceReturns, Channel!HangUp, ProduceUnchanged, token,
     channel, producer, file, consumer
<1>6. CASE SendAccepted
  BY <1>6 DEF Threads, Closing, Consuming, Before, Taking, Publishing, SendAccepted,
     Channel!Accept, ProduceUnchanged, token, channel, producer, file, consumer
<1>7. CASE SendRefused
  BY <1>7 DEF Threads, Closing, Consuming, Before, Taking, Publishing, SendRefused,
     ProduceReturns, Channel!HangUp, ProduceUnchanged, token, channel, producer,
     file, consumer
<1>8. CASE SendReturns
  BY <1>8 DEF Threads, Closing, Consuming, Before, Taking, Publishing, SendReturns,
     ProduceReturns, Channel!HangUp, ProduceUnchanged, token, channel, producer,
     file, consumer
<1>9. CASE Start
  BY <1>9 DEF Threads, Closing, Consuming, Before, Taking, Publishing, Start,
     Returns, Stopped, token, channel, producer, file, consumer
<1>10. CASE Stage
  BY <1>10 DEF Threads, Closing, Consuming, Before, Taking, Publishing, Stage,
     Returns, token, channel, producer, file, consumer
<1>11. CASE Spawn
  BY <1>11 DEF Threads, Closing, Consuming, Before, Taking, Publishing, Spawn, Go,
     Channel!Close, token, channel, producer, file, consumer
<1>12. CASE Enter
  BY <1>12 DEF Threads, Closing, Consuming, Before, Taking, Publishing, Enter,
     LeavesWith, GoesOn, Stopped, ConsumeUnchanged, token, channel, producer, file,
     consumer
<1>13. CASE RecvCancelled
  BY <1>13 DEF Threads, Closing, Consuming, Before, Taking, Publishing,
     RecvCancelled, LeavesWith, ConsumeUnchanged, token, channel, producer, file,
     consumer
<1>14. CASE RecvMessage
  BY <1>14 DEF Threads, Closing, Consuming, Before, Taking, Publishing, RecvMessage,
     Channel!Deliver, GoesOn, LeavesWith, ConsumeUnchanged, token, channel,
     producer, file, consumer
<1>15. CASE RecvEnd
  BY <1>15 DEF Threads, Closing, Consuming, Before, Taking, Publishing, RecvEnd,
     GoesOn, ConsumeUnchanged, token, channel, producer, file, consumer
<1>16. CASE CheckCancelled
  BY <1>16 DEF Threads, Closing, Consuming, Before, Taking, Publishing,
     CheckCancelled, LeavesWith, GoesOn, Stopped, ConsumeUnchanged, token, channel,
     producer, file, consumer
<1>17. CASE TransformFails
  BY <1>17 DEF Threads, Closing, Consuming, Before, Taking, Publishing,
     TransformFails, LeavesWith, ConsumeUnchanged, token, channel, producer, file,
     consumer
<1>18. CASE TransformFits
  BY <1>18 DEF Threads, Closing, Consuming, Before, Taking, Publishing,
     TransformFits, GoesOn, ConsumeUnchanged, token, channel, producer, file,
     consumer
<1>19. CASE TransformGrows
  BY <1>19 DEF Threads, Closing, Consuming, Before, Taking, Publishing,
     TransformGrows, Channel!Grow, GoesOn, LeavesWith, ConsumeUnchanged, token,
     channel, producer, file, consumer
<1>20. CASE Write
  BY <1>20 DEF Threads, Closing, Consuming, Before, Taking, Publishing, Write,
     LeavesWith, GoesOn, ConsumeUnchanged, token, channel, producer, file, consumer
<1>21. CASE ReleaseLease
  BY <1>21 DEF Threads, Closing, Consuming, Before, Taking, Publishing,
     ReleaseLease, Returned, Channel!Return, GoesOn, ConsumeUnchanged, token,
     channel, producer, file, consumer
<1>22. CASE CloseWriter
  BY <1>22 DEF Threads, Closing, Consuming, Before, Taking, Publishing, CloseWriter,
     Stopped, LeavesWith, ConsumeUnchanged, token, channel, producer, file, consumer
<1>23. CASE Leave
  BY <1>23 DEF Threads, Closing, Consuming, Before, Taking, Publishing, Leave,
     Channel!Close, GoesOn, ConsumeUnchanged, token, channel, producer, file,
     consumer
<1>24. CASE Join
  BY <1>24 DEF Threads, Closing, Consuming, Before, Taking, Publishing, Join,
     Joined, Returns, PublishUnchanged, token, channel, producer, file, consumer
<1>25. CASE Decide
  BY <1>25 DEF Threads, Closing, Consuming, Before, Taking, Publishing, Decide,
     Stopped, Returns, PublishUnchanged, token, channel, producer, file, consumer
<1>26. CASE SyncFile
  BY <1>26 DEF Threads, Closing, Consuming, Before, Taking, Publishing, SyncFile,
     Returns, PublishUnchanged, token, channel, producer, file, consumer
<1>27. CASE Rename
  BY <1>27 DEF Threads, Closing, Consuming, Before, Taking, Publishing, Rename,
     Returns, PublishUnchanged, token, channel, producer, file, consumer
<1>28. CASE SyncParent
  BY <1>28 DEF Threads, Closing, Consuming, Before, Taking, Publishing, SyncParent,
     Returns, PublishUnchanged, token, channel, producer, file, consumer
<1>29. CASE Cancel \/ CancelCloses \/ DiscardedReturned
  <2>1. UNCHANGED <<runPc, production, consumed>>
        /\ \/ cancelled' = TRUE /\ open' = open
           \/ open' = FALSE /\ UNCHANGED <<cancelled, late>> /\ CancelCloses
           \/ open' = open /\ cancelled' = cancelled
    BY <1>29, OthersFrame
  <2> QED
    BY <2>1 DEF Closing, CancelCloses
<1> QED
  BY <1>1, <1>2, <1>3, <1>4, <1>5, <1>6, <1>7, <1>8, <1>9, <1>10, <1>11, <1>12,
     <1>13, <1>14, <1>15, <1>16, <1>17, <1>18, <1>19, <1>20, <1>21, <1>22, <1>23,
     <1>24, <1>25, <1>26, <1>27, <1>28, <1>29 DEF Step, ProducerStep, RunStep

\* Only three steps change what is in the writer's hands.
LEMMA LeaseSteps ==
    ASSUME Step
    PROVE  lease' = lease \/ RecvMessage \/ TransformGrows \/ ReleaseLease
<1>1. CASE Start
  BY <1>1 DEF Start
<1>2. CASE Stage
  BY <1>2 DEF Stage
<1>3. CASE Spawn
  BY <1>3 DEF Spawn
<1>4. CASE Enter
  BY <1>4 DEF Enter
<1>5. CASE RecvCancelled
  BY <1>5 DEF RecvCancelled
<1>6. CASE RecvEnd
  BY <1>6 DEF RecvEnd
<1>7. CASE CheckCancelled
  BY <1>7 DEF CheckCancelled
<1>8. CASE TransformFails
  BY <1>8 DEF TransformFails
<1>9. CASE TransformFits
  BY <1>9 DEF TransformFits
<1>10. CASE Write
  BY <1>10 DEF Write
<1>11. CASE CloseWriter
  BY <1>11 DEF CloseWriter
<1>12. CASE Leave
  BY <1>12 DEF Leave
<1>13. CASE Join
  BY <1>13 DEF Join, PublishUnchanged
<1>14. CASE Decide
  BY <1>14 DEF Decide, PublishUnchanged
<1>15. CASE SyncFile
  BY <1>15 DEF SyncFile, PublishUnchanged
<1>16. CASE Rename
  BY <1>16 DEF Rename, PublishUnchanged
<1>17. CASE SyncParent
  BY <1>17 DEF SyncParent, PublishUnchanged
<1>18. CASE ProducerStep
  BY <1>18, ProducerFrame
<1>19. CASE Cancel \/ CancelCloses \/ DiscardedReturned
  BY <1>19, OthersFrame
<1> QED
  BY <1>1, <1>2, <1>3, <1>4, <1>5, <1>6, <1>7, <1>8, <1>9, <1>10, <1>11, <1>12,
     <1>13, <1>14, <1>15, <1>16, <1>17, <1>18, <1>19 DEF Step, RunStep

LEMMA WaitingStep ==
    ASSUME TypeOK, Hands, Waiting, Step, UNCHANGED config
    PROVE  Waiting'
<1>0. Capacity \in Nat /\ Len(chan) \in Nat /\ UNCHANGED Capacity
  BY Parameters DEF TypeOK, Capacity
<1>1. CASE SendAccepted
  <2>1. Len(chan') = Len(chan) + 1
    BY <1>1 DEF SendAccepted, Channel!Accept, TypeOK
  <2>2. lease' = lease /\ (Capacity = 0 => lease = NoMessage)
    BY <1>1, ProducerFrame DEF ProducerStep, SendAccepted, Hands, Taking
  <2> QED
    BY <1>0, <1>1, <2>1, <2>2 DEF Waiting, SendAccepted, Channel!Accept, Channel!Room
<1>2. CASE RecvMessage
  <2>1. chan # <<>> /\ chan' = Tail(chan)
    BY <1>2 DEF RecvMessage, Channel!Deliver
  <2>2. Len(chan') = Len(chan) - 1 /\ (Len(chan') = 0 => chan' = <<>>)
    BY <2>1, HeadTailProperties, EmptySeq DEF TypeOK
  <2> QED
    BY <1>0, <2>1, <2>2 DEF Waiting
<1>3. CASE TransformGrows
  <2>1. chan' = chan /\ lease # NoMessage
    BY <1>3, LeaseGrown, MessageTypes
  <2> QED
    BY <1>0, <2>1 DEF Waiting
<1>4. CASE ReleaseLease
  BY <1>0, <1>4 DEF ReleaseLease, Returned, Channel!Return, Waiting
<1>5. CASE /\ lease' = lease
           /\ UNCHANGED <<chan, charged, open>> \/ chan' = <<>> \/ DiscardedReturned
  <2>1. chan' \in {chan, <<>>}
    BY <1>5 DEF DiscardedReturned, Channel!Return
  <2> QED
    BY <1>0, <1>5, <2>1, EmptySeq DEF Waiting
<1> QED
  BY <1>1, <1>2, <1>3, <1>4, <1>5, ChannelSteps, LeaseSteps

LEMMA WaitingBounds ==
    ASSUME TypeOK, Waiting
    PROVE  MemoryBounded
<1>1. Capacity \in Nat /\ Len(chan) \in Nat /\ (chan = <<>> => Len(chan) = 0)
  BY Parameters DEF TypeOK
<1> DEFINE held == IF lease # NoMessage THEN 1 ELSE 0
           pending == IF chunk # <<>> \/ prodPc = "send" THEN 1 ELSE 0
<1>2. held \in 0..1 /\ pending \in 0..1 /\ Len(chan) + held <= Capacity + 1
  BY <1>1 DEF Waiting
<1>3. ResidentBatches = Len(chan) + pending + held
  BY DEF ResidentBatches
<1> HIDE DEF held, pending
<1> QED
  BY <1>1, <1>2, <1>3 DEF MemoryBounded

LEMMA LastBatchStep ==
    ASSUME TypeOK, LastBatch, StopsWriting, Step
    PROVE  LastBatch' /\ StopsWriting'
<1>0. batches \in Nat /\ late \in Nat
  BY DEF TypeOK
<1>1. CASE Start
  BY <1>0, <1>1 DEF LastBatch, StopsWriting, Start, Returns, Stopped, token, file
<1>2. CASE Stage
  BY <1>0, <1>2 DEF LastBatch, StopsWriting, Stage, Returns, token, file
<1>3. CASE Spawn
  BY <1>0, <1>3 DEF LastBatch, StopsWriting, Spawn, Go, token, file
<1>4. CASE Enter
  BY <1>0, <1>4 DEF LastBatch, StopsWriting, Enter, LeavesWith, GoesOn, Stopped,
     ConsumeUnchanged, token, file
<1>5. CASE RecvCancelled
  BY <1>0, <1>5 DEF LastBatch, StopsWriting, RecvCancelled, LeavesWith,
     ConsumeUnchanged, token, file
<1>6. CASE RecvMessage
  BY <1>0, <1>6 DEF LastBatch, StopsWriting, RecvMessage, GoesOn, LeavesWith,
     ConsumeUnchanged, token, file
<1>7. CASE RecvEnd
  BY <1>0, <1>7 DEF LastBatch, StopsWriting, RecvEnd, GoesOn, ConsumeUnchanged,
     token, file
<1>8. CASE CheckCancelled
  BY <1>0, <1>8 DEF LastBatch, StopsWriting, CheckCancelled, LeavesWith, GoesOn,
     Stopped, ConsumeUnchanged, token, file
<1>9. CASE TransformFails
  BY <1>0, <1>9 DEF LastBatch, StopsWriting, TransformFails, LeavesWith,
     ConsumeUnchanged, token, file
<1>10. CASE TransformFits
  BY <1>0, <1>10 DEF LastBatch, StopsWriting, TransformFits, GoesOn,
     ConsumeUnchanged, token, file
<1>11. CASE TransformGrows
  BY <1>0, <1>11 DEF LastBatch, StopsWriting, TransformGrows, GoesOn, LeavesWith,
     ConsumeUnchanged, token, file
<1>12. CASE Write
  BY <1>0, <1>12 DEF LastBatch, StopsWriting, Write, LeavesWith, GoesOn,
     ConsumeUnchanged, token, file
<1>13. CASE ReleaseLease
  BY <1>0, <1>13 DEF LastBatch, StopsWriting, ReleaseLease, GoesOn,
     ConsumeUnchanged, token, file
<1>14. CASE CloseWriter
  BY <1>0, <1>14 DEF LastBatch, StopsWriting, CloseWriter, Stopped, LeavesWith,
     ConsumeUnchanged, token, file
<1>15. CASE Leave
  BY <1>0, <1>15 DEF LastBatch, StopsWriting, Leave, GoesOn, ConsumeUnchanged,
     token, file
<1>16. CASE Join
  BY <1>0, <1>16 DEF LastBatch, StopsWriting, Join, Returns, PublishUnchanged,
     token, file
<1>17. CASE Decide
  BY <1>0, <1>17 DEF LastBatch, StopsWriting, Decide, Stopped, Returns,
     PublishUnchanged, token, file
<1>18. CASE SyncFile
  BY <1>0, <1>18 DEF LastBatch, StopsWriting, SyncFile, Returns, PublishUnchanged,
     token, file
<1>19. CASE Rename
  BY <1>0, <1>19 DEF LastBatch, StopsWriting, Rename, Returns, PublishUnchanged,
     token, file
<1>20. CASE SyncParent
  BY <1>0, <1>20 DEF LastBatch, StopsWriting, SyncParent, Returns, PublishUnchanged,
     token, file
<1>21. CASE ProducerStep
  <2>1. UNCHANGED <<cancelled, late, runPc, batches>>
    BY <1>21, ProducerFrame
  <2> QED
    BY <2>1 DEF LastBatch, StopsWriting
<1>22. CASE Cancel \/ CancelCloses \/ DiscardedReturned
  <2>1. UNCHANGED <<runPc, batches>> /\ (late' = batches \/ UNCHANGED <<cancelled, late>>)
    BY <1>22, OthersFrame
  <2> QED
    BY <1>0, <2>1 DEF LastBatch, StopsWriting
<1> QED
  BY <1>1, <1>2, <1>3, <1>4, <1>5, <1>6, <1>7, <1>8, <1>9, <1>10, <1>11, <1>12,
     <1>13, <1>14, <1>15, <1>16, <1>17, <1>18, <1>19, <1>20, <1>21, <1>22 DEF Step,
     RunStep

LEMMA PublishedStep ==
    ASSUME TypeOK, Threads, Closing, Settled, Published, ResultIsTrue, Step
    PROVE  Published' /\ ResultIsTrue'
<1>0. /\ (output # OldOutput) <=> output # OldOutput
      /\ [rows |-> Rows, footer |-> TRUE] # OldOutput
  BY DEF OldOutput
<1>1. CASE Start
  BY <1>0, <1>1 DEF ResultIsTrue, PublishedIsComplete, OutcomeTellsVisibility,
     CancelledIsTrue, ReportsNothingAdmitted, Published, Publishing, Start, Returns,
     Stopped, token, file, Rows
<1>2. CASE Stage
  BY <1>0, <1>2 DEF ResultIsTrue, PublishedIsComplete, OutcomeTellsVisibility,
     CancelledIsTrue, ReportsNothingAdmitted, Published, Publishing, Stage, Returns,
     token, file, Rows
<1>3. CASE Spawn
  BY <1>0, <1>3 DEF ResultIsTrue, PublishedIsComplete, OutcomeTellsVisibility,
     CancelledIsTrue, ReportsNothingAdmitted, Published, Publishing, Spawn, Go,
     token, file, Rows
<1>4. CASE Enter
  BY <1>0, <1>4 DEF ResultIsTrue, PublishedIsComplete, OutcomeTellsVisibility,
     CancelledIsTrue, ReportsNothingAdmitted, Published, Publishing, Enter,
     LeavesWith, GoesOn, Stopped, ConsumeUnchanged, token, file, Rows
<1>5. CASE RecvCancelled
  BY <1>0, <1>5 DEF ResultIsTrue, PublishedIsComplete, OutcomeTellsVisibility,
     CancelledIsTrue, ReportsNothingAdmitted, Published, Publishing, RecvCancelled,
     LeavesWith, ConsumeUnchanged, token, file, Rows
<1>6. CASE RecvMessage
  BY <1>0, <1>6 DEF ResultIsTrue, PublishedIsComplete, OutcomeTellsVisibility,
     CancelledIsTrue, ReportsNothingAdmitted, Published, Publishing, RecvMessage,
     GoesOn, LeavesWith, ConsumeUnchanged, token, file, Rows
<1>7. CASE RecvEnd
  BY <1>0, <1>7 DEF ResultIsTrue, PublishedIsComplete, OutcomeTellsVisibility,
     CancelledIsTrue, ReportsNothingAdmitted, Published, Publishing, RecvEnd,
     GoesOn, ConsumeUnchanged, token, file, Rows
<1>8. CASE CheckCancelled
  BY <1>0, <1>8 DEF ResultIsTrue, PublishedIsComplete, OutcomeTellsVisibility,
     CancelledIsTrue, ReportsNothingAdmitted, Published, Publishing, CheckCancelled,
     LeavesWith, GoesOn, Stopped, ConsumeUnchanged, token, file, Rows
<1>9. CASE TransformFails
  BY <1>0, <1>9 DEF ResultIsTrue, PublishedIsComplete, OutcomeTellsVisibility,
     CancelledIsTrue, ReportsNothingAdmitted, Published, Publishing, TransformFails,
     LeavesWith, ConsumeUnchanged, token, file, Rows
<1>10. CASE TransformFits
  BY <1>0, <1>10 DEF ResultIsTrue, PublishedIsComplete, OutcomeTellsVisibility,
     CancelledIsTrue, ReportsNothingAdmitted, Published, Publishing, TransformFits,
     GoesOn, ConsumeUnchanged, token, file, Rows
<1>11. CASE TransformGrows
  BY <1>0, <1>11 DEF ResultIsTrue, PublishedIsComplete, OutcomeTellsVisibility,
     CancelledIsTrue, ReportsNothingAdmitted, Published, Publishing, TransformGrows,
     GoesOn, LeavesWith, ConsumeUnchanged, token, file, Rows
<1>12. CASE Write
  BY <1>0, <1>12 DEF ResultIsTrue, PublishedIsComplete, OutcomeTellsVisibility,
     CancelledIsTrue, ReportsNothingAdmitted, Published, Publishing, Write,
     LeavesWith, GoesOn, ConsumeUnchanged, token, file, Rows
<1>13. CASE ReleaseLease
  BY <1>0, <1>13 DEF ResultIsTrue, PublishedIsComplete, OutcomeTellsVisibility,
     CancelledIsTrue, ReportsNothingAdmitted, Published, Publishing, ReleaseLease,
     GoesOn, ConsumeUnchanged, token, file, Rows
<1>14. CASE CloseWriter
  BY <1>0, <1>14 DEF ResultIsTrue, PublishedIsComplete, OutcomeTellsVisibility,
     CancelledIsTrue, ReportsNothingAdmitted, Published, Publishing, CloseWriter,
     Stopped, LeavesWith, ConsumeUnchanged, token, file, Rows
<1>15. CASE Leave
  BY <1>0, <1>15 DEF ResultIsTrue, PublishedIsComplete, OutcomeTellsVisibility,
     CancelledIsTrue, ReportsNothingAdmitted, Published, Publishing, Leave, GoesOn,
     ConsumeUnchanged, token, file, Rows
<1>16. CASE Join
  BY <1>0, <1>16 DEF ResultIsTrue, PublishedIsComplete, OutcomeTellsVisibility,
     CancelledIsTrue, ReportsNothingAdmitted, Published, Publishing, Threads,
     Closing, Settled, Join, Joined, Returns, PublishUnchanged, token, file, Rows
<1>17. CASE Decide
  BY <1>0, <1>17 DEF ResultIsTrue, PublishedIsComplete, OutcomeTellsVisibility,
     CancelledIsTrue, ReportsNothingAdmitted, Published, Publishing, Threads,
     Closing, Settled, Decide, Stopped, Returns, PublishUnchanged, token, file, Rows
<1>18. CASE SyncFile
  BY <1>0, <1>18 DEF ResultIsTrue, PublishedIsComplete, OutcomeTellsVisibility,
     CancelledIsTrue, ReportsNothingAdmitted, Published, Publishing, Threads,
     Closing, Settled, SyncFile, Returns, Outcome, PublishUnchanged, token, file,
     Rows
<1>19. CASE Rename
  BY <1>0, <1>19 DEF ResultIsTrue, PublishedIsComplete, OutcomeTellsVisibility,
     CancelledIsTrue, ReportsNothingAdmitted, Published, Publishing, Threads,
     Closing, Settled, Rename, Returns, Outcome, PublishUnchanged, token, file, Rows
<1>20. CASE SyncParent
  BY <1>0, <1>20 DEF ResultIsTrue, PublishedIsComplete, OutcomeTellsVisibility,
     CancelledIsTrue, ReportsNothingAdmitted, Published, Publishing, Threads,
     Closing, Settled, SyncParent, Returns, Outcome, PublishUnchanged, token, file,
     Rows
<1>21. CASE ProducerStep
  <2>1. UNCHANGED <<input, cancelled, runPc, reported, result, staging, output>>
    BY <1>21, ProducerFrame
  <2> QED
    BY <2>1
    DEF ResultIsTrue, PublishedIsComplete, OutcomeTellsVisibility, CancelledIsTrue,
        ReportsNothingAdmitted, Published, Rows
<1>22. CASE Cancel \/ CancelCloses \/ DiscardedReturned
  <2>1. /\ UNCHANGED <<input, runPc, reported, result, staging, output>>
        /\ cancelled' = TRUE \/ cancelled' = cancelled
    BY <1>22, OthersFrame
  <2> QED
    BY <2>1
    DEF ResultIsTrue, PublishedIsComplete, OutcomeTellsVisibility, CancelledIsTrue,
        ReportsNothingAdmitted, Published, Rows
<1> QED
  BY <1>1, <1>2, <1>3, <1>4, <1>5, <1>6, <1>7, <1>8, <1>9, <1>10, <1>11, <1>12,
     <1>13, <1>14, <1>15, <1>16, <1>17, <1>18, <1>19, <1>20, <1>21, <1>22 DEF Step,
     RunStep

LEMMA ProducingStep ==
    ASSUME TypeOK, Threads, Producing, Step
    PROVE  Producing'
<1>0. /\ input.rows \in Nat /\ nextRow \in Nat /\ input.fault \in {"none", "row", "open"}
      /\ Failure.last
  BY Parameters, MessageTypes DEF TypeOK
<1>1. CASE RunStep
  <2>1. /\ UNCHANGED <<input, cancelled, nextRow, chunk, outgoing, production>>
        /\ prodPc' = prodPc \/ (prodPc = "none" /\ prodPc' = "open")
    BY <1>1, CallerFrame DEF Threads, Before
  <2> QED
    BY <2>1 DEF Producing
<1>2. CASE Cancel \/ CancelCloses \/ DiscardedReturned
  <2>1. /\ UNCHANGED <<input, nextRow, chunk, outgoing, production, prodPc>>
        /\ cancelled' = TRUE \/ cancelled' = cancelled
    BY <1>2, OthersFrame
  <2> QED
    BY <2>1 DEF Producing
<1>3. ASSUME ProducerStep
      PROVE  input' = input /\ cancelled' = cancelled
  BY <1>3, ProducerFrame
<1>4. CASE OpenInput
  BY <1>0, <1>3, <1>4 DEF Producing, Threads, ProducerStep, OpenInput, Sends, channel
<1>5. CASE ReadCancelled
  BY <1>0, <1>3, <1>5 DEF Producing, Threads, ProducerStep, ReadCancelled, ProduceReturns
<1>6. CASE ReadBadRow
  BY <1>0, <1>3, <1>6 DEF Producing, Threads, ProducerStep, ReadBadRow, Sends, AtEnd
<1>7. CASE ReadRow
  <2>1. /\ prodPc = "read" /\ nextRow <= input.rows /\ nextRow' = nextRow + 1
        /\ UNCHANGED <<input, cancelled>>
    BY <1>3, <1>7 DEF ProducerStep, ReadRow
  <2>2. \/ UNCHANGED <<prodPc, production>>
        \/ prodPc' = "done" /\ production' = "BatchTooLarge"
        \/ /\ prodPc' = "send" /\ production' = production
           /\ outgoing' \in Messages /\ outgoing'.kind = "batch" /\ outgoing'.last = FALSE
    BY <1>7, RowRead, BatchSent DEF channel
  <2> QED
    BY <1>0, <2>1, <2>2 DEF Producing, Threads
<1>8. CASE Flush
  <2>1. /\ prodPc = "read" /\ nextRow' = nextRow /\ nextRow > input.rows
        /\ input.fault # "row" /\ UNCHANGED <<input, cancelled>>
    BY <1>3, <1>8, ChunkFlushed DEF ProducerStep, Flush
  <2>2. \/ /\ chunk' = <<>> /\ prodPc' = "done" /\ production' = "BatchTooLarge"
        \/ /\ chunk' = <<>> /\ prodPc' = "send" /\ production' = production
           /\ outgoing' \in Messages /\ outgoing'.kind = "batch"
        \/ /\ chunk' = <<>> \/ cancelled
           /\ prodPc' = "done" /\ production' = "Ok"
    BY <1>8, ChunkFlushed, BatchSent
  <2> QED
    BY <1>0, <2>1, <2>2 DEF Producing, Threads
<1>9. CASE SendAccepted
  BY <1>3, <1>9 DEF Producing, ProducerStep, SendAccepted
<1>10. CASE SendRefused
  BY <1>3, <1>10 DEF Producing, Threads, ProducerStep, SendRefused, ProduceReturns
<1>11. CASE SendReturns
  BY <1>0, <1>3, <1>11
  DEF Producing, Threads, ProducerStep, SendReturns, ProduceReturns, channel
<1> QED
  BY <1>1, <1>2, <1>4, <1>5, <1>6, <1>7, <1>8, <1>9, <1>10, <1>11 DEF Step, ProducerStep

\* What happens to the last message in the channel.
LEMMA LastMessage ==
    ASSUME NEW messages \in Seq(Messages)
    PROVE  /\ \A message \in Messages :
                LET more == Append(messages, message)
                IN more # <<>> /\ more[Len(more)] = message
           /\ messages # <<>> /\ messages[Len(messages)] # Head(messages) =>
                /\ Tail(messages) # <<>>
                /\ Tail(messages)[Len(Tail(messages))] = messages[Len(messages)]
<1>1. ASSUME NEW message \in Messages
      PROVE  LET more == Append(messages, message)
             IN more # <<>> /\ more[Len(more)] = message
  OBVIOUS
<1>2. ASSUME messages # <<>>, messages[Len(messages)] # Head(messages)
      PROVE  /\ Tail(messages) # <<>>
             /\ Tail(messages)[Len(Tail(messages))] = messages[Len(messages)]
  <2>1. /\ Len(messages) \in Nat \ {0} /\ Head(messages) = messages[1]
        /\ Tail(messages) \in Seq(Messages) /\ Len(Tail(messages)) = Len(messages) - 1
        /\ \A i \in 1..Len(Tail(messages)) : Tail(messages)[i] = messages[i + 1]
    BY <1>2, EmptySeq, HeadTailProperties
  <2>2. Len(messages) # 1
    BY <1>2, <2>1
  <2>3. Len(Tail(messages)) \in 1..Len(Tail(messages)) /\ Len(Tail(messages)) # 0
    BY <2>1, <2>2
  <2>4. Len(Tail(messages)) + 1 = Len(messages)
    BY <2>1
  <2>5. Tail(messages)[Len(Tail(messages))] = messages[Len(messages)]
    BY <2>1, <2>3, <2>4
  <2> QED
    BY <2>3, <2>5, EmptySeq
<1> QED
  BY <1>1, <1>2

\* The writer does not come back to the loop.
LEMMA StillConsuming ==
    ASSUME RunStep, runPc' \in Consuming
    PROVE  runPc \in Consuming
BY DEF RunStep, Consuming, Before, Taking, Start, Stage, Spawn, Go, Enter, LeavesWith, GoesOn,
       RecvCancelled, RecvMessage, RecvEnd, CheckCancelled, TransformFails, TransformFits,
       TransformGrows, Write, ReleaseLease, CloseWriter, Leave, Join, Decide, SyncFile,
       Rename, SyncParent, Returns

LEMMA FailureSentStep ==
    ASSUME TypeOK, Threads, Hands, Closing, Producing, FailureSent, Step
    PROVE  FailureSent'
<1> SUFFICES ASSUME input'.fault # "none", ~cancelled', runPc' \in Consuming,
                    production' = "Ok" \/ (prodPc' = "accepted" /\ outgoing' = Failure)
             PROVE  chan' # <<>> /\ chan'[Len(chan')].kind = "error"
  BY DEF FailureSent
<1>0. input.fault # "none" /\ ~cancelled /\ input' = input /\ cancelled' = cancelled
  <2>1. CASE ProducerStep \/ RunStep
    BY <2>1, ProducerFrame, CallerFrame
  <2>2. CASE Cancel \/ CancelCloses \/ DiscardedReturned
    <3>1. input' = input /\ (cancelled' = TRUE \/ cancelled' = cancelled)
      BY <2>2, OthersFrame
    <3> QED
      BY <3>1
  <2> QED
    BY <2>1, <2>2 DEF Step
<1>1. CASE RunStep
  <2>1. production = "Ok" \/ (prodPc = "accepted" /\ outgoing = Failure)
    BY <1>1, CallerFrame
  <2>2. runPc \in Consuming
    BY <1>1, StillConsuming
  <2>3. chan # <<>> /\ chan[Len(chan)].kind = "error"
    BY <1>0, <2>1, <2>2 DEF FailureSent
  <2>4. CASE RecvMessage
    <3>1. chan' = Tail(chan) /\ Head(chan).kind = "batch"
      BY <2>4
      DEF RecvMessage, Channel!Deliver, LeavesWith, GoesOn, Consuming, Before, Taking
    <3> QED
      BY <2>3, <3>1, LastMessage DEF TypeOK
  <2>5. CASE Spawn
    BY <1>0, <2>3, <2>5 DEF Spawn, channel
  <2>6. CASE ~RecvMessage /\ ~Spawn
    <3>1. chan' = chan
      BY <1>1, <2>6
      DEF RunStep, Consuming, Before, Taking, Start, Stage, Enter, RecvCancelled, RecvEnd,
          CheckCancelled, TransformFails, TransformFits, TransformGrows, Channel!Grow, Write,
          ReleaseLease, Returned, Channel!Return, CloseWriter, Leave, GoesOn, Join, Decide,
          SyncFile, Rename, SyncParent, PublishUnchanged, channel
    <3> QED
      BY <2>3, <3>1
  <2> QED
    BY <2>4, <2>5, <2>6
<1>2. CASE Cancel \/ CancelCloses \/ DiscardedReturned
  BY <1>0, <1>2, OthersFrame DEF FailureSent, CancelCloses
<1>3. CASE ProducerStep
  <2>0. runPc \in Consuming
    BY <1>3, ProducerFrame
  <2>1. CASE SendAccepted
    <3>1. chan' = Append(chan, outgoing) /\ outgoing' = outgoing /\ production = "None"
      BY <2>1 DEF SendAccepted, Channel!Accept, Threads
    <3>2. outgoing = Failure
      BY <2>1, <3>1 DEF SendAccepted
    <3> QED
      BY <3>1, <3>2, MessageTypes, LastMessage DEF TypeOK
  <2>2. CASE SendReturns
    BY <1>0, <2>0, <2>2, MessageTypes
    DEF SendReturns, ProduceReturns, Channel!HangUp, FailureSent, Producing, Threads, channel
  <2>3. CASE Flush
    <3>1. prodPc = "read" /\ production = "None" /\ input.fault # "row"
      BY <2>3, ChunkFlushed DEF Flush, Threads
    <3> QED
      BY <1>0, <3>1, Parameters DEF Producing
  <2>4. CASE ReadRow
    BY <2>4, RowRead, BatchSent DEF ReadRow, Threads, channel
  <2>5. CASE OpenInput \/ ReadCancelled \/ ReadBadRow \/ SendRefused
    BY <1>0, <2>5
    DEF OpenInput, ReadCancelled, ReadBadRow, SendRefused, Sends, ProduceReturns, Threads,
        channel
  <2> QED
    BY <1>3, <2>1, <2>2, <2>3, <2>4, <2>5 DEF ProducerStep
<1> QED
  BY <1>1, <1>2, <1>3 DEF Step

LEMMA Amounts ==
    ASSUME TypeOK, Ends
    PROVE  /\ nextRow \in Nat \ {0} /\ Len(chunk) \in Nat /\ Pending \in Nat /\ Sent \in Nat
           /\ Sent = nextRow - 1 - Len(chunk) - Pending
           /\ Len(written) \in Nat /\ charged \in Nat
           /\ prodPc # "send" => Pending = 0
<1>1. nextRow \in Nat \ {0} /\ Len(chunk) \in Nat /\ Len(written) \in Nat /\ charged \in Nat
  BY Parameters DEF TypeOK
<1>2. Pending \in Nat /\ (prodPc # "send" => Pending = 0)
  <2>1. outgoing.rows \in Seq(Nat)
    BY MessageTypes, EmptySeq DEF TypeOK, Messages
  <2> QED
    BY <2>1 DEF Pending
<1> QED
  BY <1>1, <1>2 DEF Sent, Ends

LEMMA EndsStep ==
    ASSUME TypeOK, Threads, Producing, Ends, Step
    PROVE  Ends'
<1>0. /\ nextRow \in Nat \ {0} /\ Len(chunk) \in Nat /\ chunk \in Seq(Nat)
      /\ prodPc # "send" => Pending = 0
      /\ Len(chunk) + Pending < nextRow
  BY Amounts DEF Ends, TypeOK
<1>1. CASE /\ UNCHANGED <<nextRow, chunk>> /\ prodPc' # "send"
           /\ Pending \in Nat
  <2>1. Pending' = 0
    BY <1>1 DEF Pending
  <2>2. chunk' = Run(nextRow' - 1 - Len(chunk'), nextRow' - 1)
    BY <1>1 DEF Ends
  <2>3. Len(chunk') + Pending' < nextRow'
    BY <1>0, <1>1, <2>1
  <2> QED
    BY <1>1, <2>2, <2>3 DEF Ends
<1>2. CASE /\ UNCHANGED <<nextRow, chunk>> /\ prodPc' = "send" /\ prodPc # "send"
           /\ outgoing' = Failure
  <2>1. Pending' = 0 /\ Sent' = nextRow - 1 - Len(chunk) /\ Sent' \in Nat
    BY <1>0, <1>2, MessageTypes DEF Pending, Sent
  <2>2. outgoing'.rows = Run(Sent', Sent' + Pending')
    BY <1>2, <2>1, MessageTypes, EmptyRun
  <2>3. chunk' = Run(nextRow' - 1 - Len(chunk'), nextRow' - 1)
    BY <1>2 DEF Ends
  <2>4. Len(chunk') + Pending' < nextRow'
    BY <1>0, <1>2, <2>1
  <2> QED
    BY <2>2, <2>3, <2>4 DEF Ends
<1>3. ASSUME NEW rows \in Seq(Nat), Len(rows) <= nextRow' - 1, chunk' = <<>>,
             nextRow' \in Nat \ {0}, rows = Run(nextRow' - 1 - Len(rows), nextRow' - 1),
             prodPc' = "done" \/ (prodPc' = "send" /\ outgoing'.rows = rows)
      PROVE  Ends'
  <2>1. Len(chunk') = 0 /\ Run(nextRow' - 1, nextRow' - 1) = <<>>
    BY <1>3, EmptyRun
  <2>2. CASE prodPc' = "done"
    <3>1. Pending' = 0
      BY <2>2 DEF Pending
    <3> QED
      BY <1>3, <2>1, <2>2, <3>1 DEF Ends
  <2>3. CASE prodPc' = "send" /\ outgoing'.rows = rows
    <3>1. Pending' = Len(rows) /\ Sent' = nextRow' - 1 - Len(rows)
      BY <1>3, <2>1, <2>3 DEF Pending, Sent
    <3>2. outgoing'.rows = Run(Sent', Sent' + Pending')
      BY <1>3, <2>3, <3>1
    <3>3. chunk' = Run(nextRow' - 1 - Len(chunk'), nextRow' - 1)
      BY <1>3, <2>1
    <3> QED
      BY <1>3, <2>1, <3>1, <3>2, <3>3 DEF Ends
  <2> QED
    BY <1>3, <2>2, <2>3
<1>4. CASE ReadRow
  <2> DEFINE rows == Append(chunk, nextRow)
  <2>1. /\ rows \in Seq(Nat) /\ Len(rows) = Len(chunk) + 1 /\ nextRow' = nextRow + 1
        /\ prodPc = "read"
    BY <1>0, <1>4, RowRead DEF ReadRow
  <2>2. rows = Run(nextRow - 1 - Len(chunk), nextRow)
    <3>1. Append(Run(nextRow - 1 - Len(chunk), nextRow - 1), nextRow - 1 + 1)
            = Run(nextRow - 1 - Len(chunk), nextRow - 1 + 1)
      <4>1. nextRow - 1 \in Nat /\ nextRow - 1 - Len(chunk) \in Nat
        BY <1>0, <2>1
      <4>2. nextRow - 1 - Len(chunk) <= nextRow - 1
        BY <1>0
      <4> QED
        BY <4>1, <4>2, RunOfNext
    <3>2. chunk = Run(nextRow - 1 - Len(chunk), nextRow - 1) /\ nextRow - 1 + 1 = nextRow
      BY <1>0 DEF Ends
    <3> QED
      BY <3>1, <3>2
  <2>3. /\ nextRow' - 1 - Len(rows) = nextRow - 1 - Len(chunk) /\ nextRow' - 1 = nextRow
        /\ Len(rows) <= nextRow' - 1 /\ nextRow' \in Nat \ {0}
    BY <1>0, <2>1
  <2>4. rows = Run(nextRow' - 1 - Len(rows), nextRow' - 1)
    BY <2>2, <2>3
  <2>5. CASE chunk' = <<>> /\ SendsBatch(rows, FALSE)
    <3>1. prodPc' = "done" \/ (prodPc' = "send" /\ outgoing'.rows = rows)
      BY <2>1, <2>5, BatchSent
    <3> HIDE DEF rows
    <3> QED
      BY <1>3, <2>1, <2>3, <2>4, <2>5, <3>1
  <2>6. CASE chunk' = rows /\ prodPc' = prodPc
    <3>1. Pending' = 0
      BY <2>1, <2>6 DEF Pending
    <3> HIDE DEF rows
    <3> QED
      BY <2>1, <2>3, <2>4, <2>6, <3>1 DEF Ends
  <2> QED
    BY <1>4, <2>5, <2>6, RowRead
<1>5. CASE Flush
  <2>1. CASE chunk' = <<>> /\ SendsBatch(chunk, TRUE)
    <3>1. prodPc' = "done" \/ (prodPc' = "send" /\ outgoing'.rows = chunk)
      BY <1>0, <2>1, BatchSent
    <3>2. nextRow' = nextRow
      BY <1>5, ChunkFlushed
    <3>3. Len(chunk) <= nextRow' - 1 /\ chunk = Run(nextRow' - 1 - Len(chunk), nextRow' - 1)
      BY <1>0, <1>5, <3>2 DEF Ends, Flush
    <3> QED
      BY <1>0, <1>3, <2>1, <3>1, <3>2, <3>3
  <2> QED
    BY <1>0, <1>1, <1>5, <2>1, ChunkFlushed, Amounts
<1>6. CASE OpenInput \/ ReadCancelled \/ ReadBadRow
  BY <1>1, <1>2, <1>6, Amounts
  DEF OpenInput, ReadCancelled, ReadBadRow, Sends, ProduceReturns
<1>7. CASE SendAccepted \/ SendRefused \/ SendReturns
  BY <1>1, <1>7, Amounts DEF SendAccepted, SendRefused, SendReturns, ProduceReturns, channel
<1>8. CASE RunStep \/ Cancel \/ CancelCloses \/ DiscardedReturned
  <2>1. /\ UNCHANGED <<nextRow, chunk, outgoing>>
        /\ prodPc' = prodPc \/ (prodPc = "none" /\ prodPc' = "open")
    BY <1>8, CallerFrame, OthersFrame DEF Threads, Before
  <2>2. Pending' = Pending
    BY <2>1 DEF Pending
  <2> QED
    BY <2>1, <2>2 DEF Ends, Sent
<1> QED
  BY <1>4, <1>5, <1>6, <1>7, <1>8 DEF Step, ProducerStep

\* The producer's steps move rows between its hands, but only a send that is
\* accepted puts any of them into the channel.
LEMMA SentStays ==
    ASSUME TypeOK, Threads, Producing, Ends, ProducerStep, ~SendAccepted,
           production' \in {"None", "Ok"}
    PROVE  Sent' = Sent /\ production = "None" /\ UNCHANGED <<chan, charged>>
<1>0. /\ nextRow \in Nat \ {0} /\ Len(chunk) \in Nat /\ chunk \in Seq(Nat)
      /\ prodPc # "send" => Pending = 0
  BY Amounts DEF TypeOK
<1>1. CASE OpenInput \/ ReadBadRow
  <2>1. /\ prodPc # "send" /\ outgoing' = Failure /\ production = "None"
        /\ UNCHANGED <<nextRow, chunk, chan, charged>>
        \/ /\ prodPc # "send" /\ prodPc' # "send" /\ production = "None"
           /\ UNCHANGED <<nextRow, chunk, chan, charged>>
    BY <1>1 DEF OpenInput, ReadBadRow, Sends, Threads, channel
  <2>2. Pending' = 0
    BY <2>1, MessageTypes DEF Pending
  <2> QED
    BY <1>0, <2>1, <2>2 DEF Sent
<1>2. CASE ReadCancelled \/ SendReturns
  <2>1. /\ prodPc # "send" /\ prodPc' # "send" /\ production = "None"
        /\ UNCHANGED <<nextRow, chunk, chan, charged>>
    BY <1>2 DEF ReadCancelled, SendReturns, ProduceReturns, Channel!HangUp, Threads, channel
  <2>2. Pending' = 0
    BY <2>1 DEF Pending
  <2> QED
    BY <1>0, <2>1, <2>2 DEF Sent
<1>3. CASE SendRefused
  BY <1>3 DEF SendRefused, ProduceReturns
<1>4. CASE ReadRow
  <2> DEFINE rows == Append(chunk, nextRow)
  <2>1. /\ rows \in Seq(Nat) /\ Len(rows) = Len(chunk) + 1 /\ nextRow' = nextRow + 1
        /\ prodPc = "read" /\ production = "None"
    BY <1>0, <1>4, RowRead DEF ReadRow, Threads
  <2>2. CASE chunk' = <<>> /\ SendsBatch(rows, FALSE)
    <3>1. /\ prodPc' = "send" /\ outgoing'.rows = rows /\ UNCHANGED <<chan, charged>>
      BY <2>1, <2>2, BatchSent
    <3>2. Pending' = Len(chunk) + 1 /\ Len(chunk') = 0
      BY <2>1, <2>2, <3>1 DEF Pending
    <3>3. Sent' = nextRow + 1 - 1 - 0 - (Len(chunk) + 1)
      BY <2>1, <3>2 DEF Sent
    <3> QED
      BY <1>0, <2>1, <3>1, <3>3 DEF Sent
  <2>3. CASE chunk' = rows /\ UNCHANGED <<channel, prodPc, outgoing, production>>
    <3>1. Pending' = 0 /\ Len(chunk') = Len(chunk) + 1
      BY <2>1, <2>3 DEF Pending
    <3>2. Sent' = nextRow + 1 - 1 - (Len(chunk) + 1) - 0
      BY <2>1, <3>1 DEF Sent
    <3> QED
      BY <1>0, <2>1, <2>3, <3>2 DEF Sent, channel
  <2> QED
    BY <1>4, <2>2, <2>3, RowRead
<1>5. CASE Flush
  <2>1. prodPc = "read" /\ production = "None" /\ nextRow' = nextRow
    BY <1>5, ChunkFlushed DEF Flush, Threads
  <2>2. CASE chunk' = <<>> /\ SendsBatch(chunk, TRUE)
    <3>1. /\ prodPc' = "send" /\ outgoing'.rows = chunk /\ UNCHANGED <<chan, charged>>
      BY <2>2, BatchSent DEF TypeOK
    <3>2. Pending' = Len(chunk) /\ Len(chunk') = 0
      BY <2>2, <3>1 DEF Pending
    <3>3. Sent' = nextRow - 1 - 0 - Len(chunk)
      BY <2>1, <3>2 DEF Sent
    <3> QED
      BY <1>0, <2>1, <3>1, <3>3 DEF Sent
  <2>3. CASE prodPc' = "done" /\ chunk' = chunk /\ UNCHANGED <<chan, charged>>
    <3>1. Pending' = 0
      BY <2>3 DEF Pending
    <3> QED
      BY <1>0, <2>1, <2>3, <3>1 DEF Sent
  <2> QED
    BY <1>5, <2>2, <2>3, ChunkFlushed
<1> QED
  BY <1>1, <1>2, <1>3, <1>4, <1>5 DEF ProducerStep

\* A message that is taken is the next one of the input.
LEMMA FlowRecv ==
    ASSUME TypeOK, Hands, Ends, Flow, ~cancelled, RecvMessage, runPc' = "check",
           UNCHANGED <<cancelled, production, written>>, Sent' = Sent
    PROVE  Flow'
<1>1. /\ runPc = "recv" /\ runPc \in Consuming /\ runPc \notin Taking
      /\ lease = NoMessage /\ chan # <<>> /\ lease' = Head(chan)
      /\ chan' = Tail(chan) /\ charged' = charged
  BY DEF RecvMessage, Channel!Deliver, Consuming, Before, Taking, Hands, GoesOn, LeavesWith
<1>2. /\ chan \in Seq(Messages) /\ Head(chan) \in Messages /\ charged \in Nat
      /\ Len(written) \in Nat /\ Sent \in Nat
  BY <1>1, Amounts, HeadTailProperties DEF TypeOK
<1>3. ChargedFor(chan, charged) /\ Handed = Len(written) /\ Handed \in Nat
  BY <1>1, <1>2, MessageTypes DEF Flow, Handed
<1>4. lease'.size \in 0..charged /\ ChargedFor(chan', charged - lease'.size)
  BY <1>1, <1>2, <1>3, FirstCharged
<1>5. ASSUME production # "BatchTooLarge"
      PROVE  /\ written' = Run(0, Len(written')) /\ lease'.rows = Run(Len(written'), Handed')
             /\ InFlight(chan', Handed', Sent')
  <2>1. written = Run(0, Len(written)) /\ InFlight(chan, Handed, Sent)
    BY <1>1, <1>5 DEF Flow
  <2>2. PICK k \in Nat : /\ Handed <= k /\ Head(chan).rows = Run(Handed, k)
                         /\ InFlight(Tail(chan), k, Sent)
    BY <1>1, <1>2, <1>3, <2>1, FirstInFlight
  <2>3. Len(lease'.rows) = k - Handed
    BY <1>1, <1>3, <2>2, RunIsSequence
  <2>4. Handed' = k
    BY <1>2, <1>3, <2>2, <2>3 DEF Handed, Taking
  <2> QED
    BY <1>1, <1>3, <2>1, <2>2, <2>4
<1> QED
  BY <1>1, <1>4, <1>5 DEF Flow

LEMMA FlowStep ==
    ASSUME TypeOK, Threads, Hands, Closing, Producing, Ends, Flow, Step
    PROVE  Flow'
<1> SUFFICES ASSUME ~cancelled', runPc' \in Consuming
             PROVE  Flow'
  BY DEF Flow
<1>0. ~cancelled /\ runPc \in Consuming /\ cancelled' = cancelled
  <2>1. CASE ProducerStep \/ RunStep
    BY <2>1, ProducerFrame, CallerFrame, StillConsuming
  <2>2. CASE Cancel \/ CancelCloses \/ DiscardedReturned
    <3>1. runPc' = runPc /\ (cancelled' = TRUE \/ cancelled' = cancelled)
      BY <2>2, OthersFrame
    <3> QED
      BY <3>1
  <2> QED
    BY <2>1, <2>2 DEF Step
<1>1. open
  BY <1>0 DEF Closing, Consuming, Before, Taking, Publishing
<1>2. /\ lease.size \in Nat /\ charged \in Nat /\ Len(written) \in Nat /\ Sent \in Nat
      /\ lease.rows \in Seq(Nat) /\ written \in Seq(Nat) /\ Handed \in Nat
  <2>1. lease.size \in Nat /\ lease.rows \in Seq(Nat)
    <3>1. NoMessage.size \in Nat /\ NoMessage.rows \in Seq(Nat)
      BY MessageTypes, EmptySeq
    <3> QED
      BY <3>1 DEF TypeOK, Messages
  <2>2. Len(written) \in Nat /\ charged \in Nat /\ Sent \in Nat
    BY Amounts
  <2> QED
    BY <2>1, <2>2 DEF Handed, TypeOK
<1>3. CASE SendAccepted
  <2>1. /\ prodPc = "send" /\ prodPc' = "accepted" /\ production = "None"
        /\ chan' = Append(chan, outgoing) /\ charged' = charged + outgoing.size
        /\ UNCHANGED <<nextRow, chunk, production>>
    BY <1>3 DEF SendAccepted, Channel!Accept, Threads
  <2>2. UNCHANGED <<runPc, lease, written>> /\ Handed' = Handed
    BY <1>3, ProducerFrame DEF ProducerStep, Handed
  <2>3. outgoing \in Messages /\ outgoing.size \in Nat /\ chan \in Seq(Messages)
    BY <2>1, MessageTypes DEF Producing, TypeOK, Messages
  <2>4. Pending' = 0 /\ Sent' = Sent + Pending /\ Pending \in Nat
    BY <2>1, Amounts DEF Pending, Sent
  <2>5. outgoing.rows = Run(Sent, Sent')
    BY <2>1, <2>4 DEF Ends
  <2>6. /\ lease.size <= charged /\ ChargedFor(chan, charged - lease.size)
        /\ written = Run(0, Len(written)) /\ InFlight(chan, Handed, Sent)
        /\ runPc \in Taking => lease.rows = Run(Len(written), Handed)
    BY <1>0, <2>1 DEF Flow
  <2>7. InFlight(chan', Handed', Sent')
    BY <1>2, <2>1, <2>2, <2>3, <2>4, <2>5, <2>6, OneMoreInFlight
  <2>8. lease.size <= charged' /\ ChargedFor(chan', charged' - lease.size)
    <3>1. charged - lease.size \in Nat
      BY <1>2, <2>6
    <3>2. ChargedFor(chan', (charged - lease.size) + outgoing.size)
      BY <2>1, <2>3, <2>6, <3>1, OneMoreCharged
    <3>3. charged' - lease.size = (charged - lease.size) + outgoing.size
      <4>1. charged' = charged + outgoing.size
        BY <2>1
      <4>2. charged \in Nat /\ lease.size \in Nat /\ outgoing.size \in Nat
        BY <1>2, <2>3
      <4> QED
        BY <4>1, <4>2
    <3> QED
      BY <1>2, <2>1, <2>3, <2>6, <3>2, <3>3
  <2> QED
    BY <2>2, <2>6, <2>7, <2>8 DEF Flow
<1>4. CASE ProducerStep /\ ~SendAccepted
  <2>1. UNCHANGED <<runPc, lease, written>> /\ Handed' = Handed
    BY <1>4, ProducerFrame DEF Handed
  <2>2. production' # "Cancelled"
    BY <1>1, <1>4
    DEF ProducerStep, OpenInput, ReadCancelled, ReadBadRow, ReadRow, Flush, SendRefused,
        SendReturns, SendsBatch, Sends, ProduceReturns, Threads
  <2>3. UNCHANGED <<chan, charged>>
    BY <1>4, ChannelSteps, RowRead, ChunkFlushed, BatchSent
    DEF ProducerStep, OpenInput, ReadCancelled, ReadBadRow, SendRefused, SendReturns, Sends,
        ProduceReturns, Channel!HangUp, channel
  <2>4. production' # "BatchTooLarge" => Sent' = Sent /\ production = "None"
    BY <1>4, <2>2, SentStays
    DEF ProducerStep, OpenInput, ReadCancelled, ReadBadRow, ReadRow, Flush, SendRefused,
        SendReturns, SendsBatch, Sends, ProduceReturns, Threads
  <2> QED
    BY <1>0, <2>1, <2>3, <2>4 DEF Flow
<1>5. CASE RunStep
  <2>0. /\ Sent' = Sent /\ UNCHANGED <<cancelled, production>>
    <3>1. /\ UNCHANGED <<nextRow, chunk, outgoing, production, cancelled>>
          /\ prodPc' = prodPc \/ (prodPc = "none" /\ prodPc' = "open")
      BY <1>5, CallerFrame DEF Threads, Before
    <3> QED
      BY <3>1 DEF Sent, Pending
  <2>1. CASE RecvMessage
    <3>1. runPc' = "check" /\ written' = written
      BY <1>0, <2>1 DEF RecvMessage, LeavesWith, GoesOn, Consuming, Before, Taking
    <3> QED
      BY <1>0, <2>0, <2>1, <3>1, FlowRecv
  <2>2. CASE Write
    <3>1. /\ runPc = "write" /\ runPc' = "release" /\ written' = written \o lease.rows
          /\ UNCHANGED <<chan, charged, lease>>
      BY <2>2 DEF Write, LeavesWith, GoesOn, Consuming, Before, Taking, channel
    <3>2. Handed = Len(written) + Len(lease.rows)
      BY <3>1 DEF Handed, Taking
    <3>3. Len(written') = Handed /\ Handed' = Handed
      <4>1. Len(written') = Len(written) + Len(lease.rows)
        BY <1>2, <3>1, ConcatProperties
      <4> QED
        BY <3>1, <3>2, <4>1 DEF Handed, Taking
    <3>4. ASSUME production # "BatchTooLarge"
          PROVE  written' = Run(0, Len(written'))
      <4>1. written = Run(0, Len(written)) /\ lease.rows = Run(Len(written), Handed)
        BY <1>0, <3>1, <3>4 DEF Flow, Taking
      <4>2. 0 <= Len(written) /\ Len(written) <= Handed
        BY <1>2, <3>2
      <4>3. Run(0, Len(written)) \o Run(Len(written), Handed) = Run(0, Handed)
        BY <1>2, <4>2, RunsInARow
      <4> QED
        BY <3>1, <3>3, <4>1, <4>3
    <3> QED
      BY <1>0, <2>0, <3>1, <3>3, <3>4 DEF Flow, Taking
  <2>3. CASE TransformGrows
    <3>1. /\ runPc = "transform" /\ runPc' = "write" /\ written' = written /\ chan' = chan
          /\ lease'.rows = lease.rows /\ lease'.size \in Nat
          /\ charged' - lease'.size = charged - lease.size /\ charged' \in Nat
      <4>1. runPc = "transform" /\ Limit \in Nat
        BY <2>3, Parameters DEF TransformGrows
      <4> QED
        BY <1>2, <2>3, <4>1, LeaseGrown DEF Consuming, Before, Taking, Messages
    <3>2. Handed' = Handed
      BY <3>1 DEF Handed, Taking
    <3>3. lease'.size <= charged'
      BY <1>0, <1>2, <3>1 DEF Flow
    <3> QED
      BY <1>0, <2>0, <3>1, <3>2, <3>3 DEF Flow, Taking
  <2>4. CASE ReleaseLease
    <3>1. /\ runPc = "release" /\ runPc' = "recv" /\ chan' = chan /\ written' = written
          /\ charged' = charged - lease.size /\ lease' = NoMessage
      BY <1>0, <2>4
      DEF ReleaseLease, Returned, Channel!Return, GoesOn, Consuming, Before, Taking
    <3>2. Handed' = Handed
      BY <3>1 DEF Handed, Taking
    <3>3. lease'.size = 0 /\ charged' - lease'.size = charged - lease.size /\ 0 <= charged'
      BY <1>0, <1>2, <3>1, MessageTypes DEF Flow
    <3> QED
      BY <1>0, <2>0, <3>1, <3>2, <3>3 DEF Flow, Taking
  <2>5. CASE Start \/ Stage \/ Spawn \/ Enter \/ CheckCancelled \/ TransformFits
    <3>1. /\ UNCHANGED <<chan, charged, lease, written>>
          /\ runPc \in Taking <=> runPc' \in Taking
      BY <1>0, <2>5
      DEF Start, Returns, Stage, Spawn, Go, Enter, LeavesWith, GoesOn, CheckCancelled,
          TransformFits, Stopped, Taking, Consuming, Before, channel, file
    <3>2. Handed' = Handed
      BY <3>1 DEF Handed
    <3> QED
      BY <1>0, <2>0, <3>1, <3>2 DEF Flow
  <2> QED
    BY <1>5, <2>1, <2>2, <2>3, <2>4, <2>5
    DEF RunStep, RecvCancelled, RecvEnd, TransformFails, CloseWriter, Leave, Join, Decide,
        SyncFile, Rename, SyncParent, Go, GoesOn, LeavesWith, Returns, Consuming, Before,
        Taking
<1> QED
  BY <1>0, <1>1, <1>3, <1>4, <1>5, OthersFrame
  DEF Step, Cancel, CancelCloses, DiscardedReturned

\* At the end of the stream the writer has everything.
LEMMA EndSettles ==
    ASSUME TypeOK, Threads, Hands, Closing, Producing, FailureSent, Ends, Flow,
           RecvEnd, ~cancelled
    PROVE  /\ charged = 0 /\ lease = NoMessage
           /\ production = "Ok" => input.fault = "none" /\ written = Rows
<1>1. /\ runPc = "recv" /\ runPc \in Consuming /\ runPc \notin Taking
      /\ lease = NoMessage /\ chan = <<>> /\ prodPc = "done"
  BY DEF RecvEnd, Consuming, Before, Taking, Hands, Threads
<1>2. /\ charged \in Nat /\ Len(written) \in Nat /\ Sent \in Nat /\ input.rows \in Nat
      /\ Handed = Len(written) /\ Sent = nextRow - 1 - Len(chunk)
  BY <1>1, Amounts, Parameters DEF Handed
<1>3. charged = 0
  BY <1>1, <1>2, MessageTypes, NothingInFlight DEF Flow
<1>4. ASSUME production = "Ok"
      PROVE  input.fault = "none" /\ written = Rows
  <2>1. input.fault = "none"
    BY <1>1, <1>4 DEF FailureSent
  <2>2. nextRow = input.rows + 1 /\ chunk = <<>>
    BY <1>4, <2>1 DEF Producing
  <2>3. Sent = input.rows
    BY <1>2, <2>2
  <2>4. written = Run(0, Len(written)) /\ InFlight(<<>>, Len(written), Sent)
    BY <1>1, <1>2, <1>4 DEF Flow
  <2>5. written = Run(0, input.rows)
    BY <1>2, <2>3, <2>4, NothingInFlight
  <2>6. Run(0, input.rows) = Rows
    <3>1. input.rows - 0 = input.rows /\ \A i \in 1..input.rows : 0 + i = i
      BY <1>2
    <3> QED
      BY <3>1 DEF Run, Rows
  <2> QED
    BY <2>1, <2>5, <2>6
<1> QED
  BY <1>1, <1>3, <1>4

LEMMA SettledStep ==
    ASSUME TypeOK, Threads, Hands, Closing, Producing, FailureSent, Ends, Flow, Settled, Step
    PROVE  Settled'
<1> DEFINE Over == (runPc = "finish" /\ ~cancelled) \/ consumed = "Ok"
<1>1. CASE ProducerStep
  <2>1. UNCHANGED <<input, cancelled, runPc, consumed, lease, footer, written>>
    BY <1>1, ProducerFrame
  <2>2. ASSUME Over
        PROVE  FALSE
    <3>1. prodPc = "done"
      BY <2>2 DEF Closing, Threads
    <3> QED
      BY <1>1, <3>1
      DEF ProducerStep, OpenInput, ReadCancelled, ReadBadRow, ReadRow, Flush, SendAccepted,
          SendRefused, SendReturns
  <2> QED
    BY <2>1, <2>2 DEF Settled
<1>2. CASE Cancel \/ CancelCloses \/ DiscardedReturned
  <2>1. /\ UNCHANGED <<input, runPc, consumed, lease, footer, written, production>>
        /\ cancelled' = TRUE \/ cancelled' = cancelled
        /\ charged' = charged \/ DiscardedReturned
    BY <1>2, OthersFrame
  <2>2. ASSUME Over
        PROVE  charged' = charged
    <3>1. charged = 0 /\ lease = NoMessage
      BY <2>2 DEF Settled
    <3>2. ~DiscardedReturned
      BY <3>1, MessageTypes DEF DiscardedReturned
    <3> QED
      BY <2>1, <3>2
  <2> QED
    BY <2>1, <2>2 DEF Settled, Rows
<1>3. CASE RecvEnd
  <2>1. UNCHANGED <<input, cancelled, charged, lease, consumed, written, production>>
    BY <1>3, CallerFrame DEF RunStep, RecvEnd, GoesOn, ConsumeUnchanged, channel
  <2>2. consumed = "None"
    BY <1>3 DEF RecvEnd, Threads, Consuming
  <2> QED
    BY <1>3, <2>1, <2>2, EndSettles DEF Settled, Rows
<1>4. CASE CloseWriter
  <2>1. /\ UNCHANGED <<input, cancelled, charged, lease, written, production>>
        /\ runPc = "finish" /\ runPc' = "leaving"
        /\ consumed' = "Ok" => ~cancelled /\ footer'
    BY <1>4, CallerFrame DEF RunStep, CloseWriter, Stopped, LeavesWith, channel
  <2> QED
    BY <2>1 DEF Settled, Rows
<1>5. CASE RunStep /\ ~RecvEnd /\ ~CloseWriter
  <2>1. /\ UNCHANGED <<input, cancelled, production>>
        /\ runPc' # "finish"
    BY <1>5, CallerFrame
    DEF RunStep, Start, Returns, Stage, Spawn, Go, Enter, LeavesWith, GoesOn, RecvCancelled,
        RecvMessage, CheckCancelled, TransformFails, TransformFits, TransformGrows, Write,
        ReleaseLease, Leave, Join, Decide, SyncFile, Rename, SyncParent
  <2>2. consumed' = "Ok" => consumed = "Ok"
    BY <1>5
    DEF RunStep, Start, Stage, Spawn, Enter, LeavesWith, GoesOn, RecvCancelled,
        RecvMessage, CheckCancelled, TransformFails, TransformFits, TransformGrows, Write,
        ReleaseLease, Leave, Join, Decide, SyncFile, Rename, SyncParent, PublishUnchanged
  <2>3. ASSUME consumed = "Ok"
        PROVE  UNCHANGED <<charged, lease, footer, written>>
    <3>1. runPc \notin Consuming /\ runPc # "finish" /\ lease = NoMessage
      BY <2>3 DEF Threads, Settled
    <3> QED
      BY <1>5, <3>1
      DEF RunStep, Consuming, Before, Taking, Start, Stage, Spawn, Go, Enter, RecvCancelled,
          RecvMessage, RecvEnd, CheckCancelled, TransformFails, TransformFits, TransformGrows,
          Write, ReleaseLease, CloseWriter, Leave, Channel!Close, Join, Decide, SyncFile,
          Rename, SyncParent, PublishUnchanged, channel
  <2> QED
    BY <2>1, <2>2, <2>3 DEF Settled, Rows
<1> QED
  BY <1>1, <1>2, <1>3, <1>4, <1>5 DEF Step

-----------------------------------------------------------------------------
(* The theorems *)

LEMMA Initial ==
    ASSUME Init
    PROVE  IInv
<1>1. /\ config \in Configs /\ input \in Inputs
      /\ Capacity \in Nat /\ Limit \in Nat \ {0} /\ BatchSize \in Nat \ {0}
      /\ config.maxRows \in Nat /\ input.rows \in 0..config.maxRows
  <2>1. config \in [budgeted : BOOLEAN, capacity : Nat, limit : Nat \ {0},
                    batchSize : Nat \ {0}, maxRows : Nat]
    BY ConfigAssumption DEF Init
  <2> QED
    BY <2>1 DEF Init, Inputs, Capacity, Limit, BatchSize
<1>2. /\ <<>> \in Seq(Nat) /\ <<>> \in Seq(Messages) /\ Len(<<>>) = 0
      /\ Run(0, 0) = <<>> /\ InFlight(<<>>, 0, 0) /\ ChargedFor(<<>>, 0)
  BY EmptySeq, EmptyRun, NothingInFlight
<1>3. TypeOK
  <2>1. ChannelTypes
    <3>1. 0 \in 0..Limit
      BY <1>1
    <3> QED
      BY <1>2, <3>1 DEF Init, Channel!Init, ChannelTypes
  <2>2. ProducerTypes
    <3>1. 1 \in 1..(config.maxRows + 1) /\ Len(<<>>) < BatchSize /\ "None" \in Results
      BY <1>1, <1>2 DEF Results
    <3>2. /\ prodPc = "none" /\ nextRow = 1 /\ chunk = <<>> /\ outgoing = NoMessage
          /\ production = "None" /\ ended = FALSE
      BY DEF Init, Channel!Init
    <3> QED
      BY <1>2, <3>1, <3>2 DEF ProducerTypes
  <2>3. PlaceTypes
    BY DEF Init, PlaceTypes
  <2>4. ValueTypes /\ late \in Nat /\ cancelled \in BOOLEAN
    BY <1>2 DEF Init, ValueTypes, Results
  <2> QED
    BY <1>1, <2>1, <2>2, <2>3, <2>4
    DEF TypeOK, ChannelTypes, ProducerTypes, PlaceTypes, ValueTypes
<1>4. Waiting /\ StopsWriting /\ LastBatch
  BY <1>1, <1>2 DEF Init, Channel!Init, Waiting, StopsWriting, LastBatch
<1>5. ResultIsTrue /\ Published
  BY DEF Init, ResultIsTrue, PublishedIsComplete, OutcomeTellsVisibility, CancelledIsTrue,
         ReportsNothingAdmitted, Published, Publishing
<1>6. Threads /\ Hands /\ Closing /\ Producing /\ FailureSent /\ Settled
  BY <1>1
  DEF Init, Channel!Init, Threads, Hands, Closing, Producing, FailureSent, Settled, Consuming,
      Before, Taking, Publishing
<1>7. Ends
  <2>1. Pending = 0 /\ nextRow = 1 /\ chunk = <<>> /\ prodPc = "none"
    BY DEF Init, Pending
  <2> QED
    BY <1>2, <2>1 DEF Ends
<1>8. Flow
  <2>1. /\ runPc \notin Taking /\ prodPc # "send" /\ written = <<>> /\ chan = <<>>
        /\ charged = 0 /\ nextRow = 1 /\ chunk = <<>> /\ lease = NoMessage
    BY DEF Init, Channel!Init, Taking
  <2>2. lease.size = 0 /\ Handed = 0 /\ Pending = 0
    BY <1>2, <2>1, MessageTypes DEF Handed, Pending
  <2>3. Sent = 0
    <3>1. Len(chunk) = 0 /\ nextRow = 1 /\ Pending = 0
      BY <1>2, <2>1, <2>2
    <3>2. Sent = 1 - 1 - 0 - 0
      BY <3>1, Zenon DEF Sent
    <3> QED
      BY <3>2
  <2> QED
    BY <1>2, <2>1, <2>2, <2>3 DEF Flow
<1> QED
  BY <1>3, <1>4, <1>5, <1>6, <1>7, <1>8, WaitingBounds DEF IInv, WorkIsBounded

LEMMA Stuttering ==
    ASSUME IInv, UNCHANGED vars
    PROVE  IInv'
<1>1. /\ config' = config /\ input' = input /\ cancelled' = cancelled /\ late' = late
      /\ chan' = chan /\ charged' = charged /\ open' = open /\ ended' = ended
      /\ prodPc' = prodPc /\ nextRow' = nextRow /\ chunk' = chunk /\ outgoing' = outgoing
      /\ production' = production
      /\ written' = written /\ batches' = batches /\ footer' = footer
      /\ staging' = staging /\ output' = output
      /\ runPc' = runPc /\ lease' = lease /\ consumed' = consumed
      /\ reported' = reported /\ result' = result
  BY DEF vars, token, channel, producer, file, consumer
<1>2. TypeOK'
  BY <1>1 DEF IInv, WorkIsBounded, TypeOK, Limit, BatchSize, Inputs
<1>3. MemoryBounded' /\ StopsWriting' /\ Waiting' /\ LastBatch'
  BY <1>1
  DEF IInv, WorkIsBounded, MemoryBounded, ResidentBatches, StopsWriting, Waiting, LastBatch,
      Capacity
<1>4. ResultIsTrue'
  BY <1>1
  DEF IInv, ResultIsTrue, PublishedIsComplete, OutcomeTellsVisibility, CancelledIsTrue,
      ReportsNothingAdmitted, Rows
<1>5. Threads' /\ Hands' /\ Closing' /\ Producing' /\ FailureSent' /\ Published'
  BY <1>1 DEF IInv, Threads, Hands, Closing, Producing, FailureSent, Published
<1>6. Settled'
  BY <1>1 DEF IInv, Settled, Rows
<1>7. Handed' = Handed /\ Pending' = Pending
  BY <1>1 DEF Handed, Pending
<1>8. Sent' = Sent
  BY <1>1, <1>7 DEF Sent
<1>9. Ends' /\ Flow'
  BY <1>1, <1>7, <1>8 DEF IInv, Ends, Flow
<1> QED
  BY <1>2, <1>3, <1>4, <1>5, <1>6, <1>9 DEF IInv, WorkIsBounded

LEMMA Inductive ==
    ASSUME IInv, Next
    PROVE  IInv'
<1>1. CASE Step /\ UNCHANGED config
  <2>1. TypeOK' /\ Threads' /\ Hands' /\ Closing' /\ Producing' /\ FailureSent'
    BY <1>1, TypeStep, ThreadsStep, HandsStep, ClosingStep, ProducingStep, FailureSentStep
    DEF IInv, WorkIsBounded
  <2>2. Ends' /\ Flow' /\ Settled' /\ Published' /\ ResultIsTrue' /\ Waiting'
    BY <1>1, EndsStep, FlowStep, SettledStep, PublishedStep, WaitingStep
    DEF IInv, WorkIsBounded
  <2>3. LastBatch' /\ StopsWriting'
    BY <1>1, LastBatchStep DEF IInv, WorkIsBounded
  <2>4. MemoryBounded'
    BY <2>1, <2>2, WaitingBounds, PTL
  <2> QED
    BY <2>1, <2>2, <2>3, <2>4 DEF IInv, WorkIsBounded
<1>2. CASE UNCHANGED vars
  BY <1>2, Stuttering
<1> QED
  BY <1>1, <1>2 DEF Next

LEMMA Invariance == Spec => []IInv
<1>1. Init => IInv
  BY Initial
<1>2. IInv /\ [Next]_vars => IInv'
  <2> SUFFICES ASSUME IInv, [Next]_vars
               PROVE  IInv'
    OBVIOUS
  <2>1. CASE Next
    BY <2>1, Inductive
  <2>2. CASE UNCHANGED vars
    BY <2>2, Stuttering
  <2> QED
    BY <2>1, <2>2
<1> QED
  BY <1>1, <1>2, PTL DEF Spec

\* Whatever the two threads do, fail at or are told in the meantime: a replaced
\* output is the whole input with its footer, the result tells whether it was
\* replaced, a run is called cancelled only if it was, and a successful one has
\* given back all it admitted.
THEOREM RunIsTrue == Spec => []ResultIsTrue
<1>1. IInv => ResultIsTrue
  BY DEF IInv
<1> QED
  BY <1>1, Invariance, PTL

\* For inputs of every length: at most the capacity and two batches are alive,
\* the charges are within the budget, and after a cancellation at most the batch
\* in the writer's hands is written.
THEOREM RunIsBounded == Spec => []WorkIsBounded
<1>1. IInv => WorkIsBounded
  BY DEF IInv
<1> QED
  BY <1>1, Invariance, PTL
===============================================================================
