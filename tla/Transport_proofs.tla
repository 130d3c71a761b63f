--------------------------- MODULE Transport_proofs ---------------------------
(***************************************************************************)
(* Proofs about ByteTransport for every capacity, limit, set of batch      *)
(* sizes and number of messages: the byte account is exact and within the  *)
(* limit, no wakeup is lost, and the two threads never wait for each other.*)
(* The registration with the shared token, CancellationToken, comes last.  *)
(***************************************************************************)
EXTENDS ByteTransport, CancellationToken, SequenceTheorems, TLAPS

-----------------------------------------------------------------------------
(* A run of consecutive messages: each starts where the one before it ends. *)

End(message) == message.base + message.bytes

Linked(messages) ==
    /\ \A i \in 1..Len(messages) :
          messages[i].kind = "error" => messages[i].bytes = 0
    /\ \A i, j \in 1..Len(messages) : i < j => End(messages[i]) <= messages[j].base
    /\ \A i, j \in 1..Len(messages) : j = i + 1 => messages[j].base = End(messages[i])

\* The charge that checked_charge did not refuse is the size itself.
LEMMA ChargeIsSize ==
    ASSUME NEW size \in Nat, ~ChargeOverflows(size)
    PROVE  Charge(size) = size
BY LimitAssumption DEF ChargeOverflows, Charge

LEMMA SpanOfLinked ==
    ASSUME NEW messages \in Seq(Queued), Linked(messages)
    PROVE  /\ Span(messages) \in Nat
           /\ messages # <<>> => Head(messages).bytes <= Span(messages)
<1>1. CASE messages = <<>>
  BY <1>1 DEF Span
<1>2. CASE messages # <<>>
  <2> DEFINE n == Len(messages)
  <2>1. n \in Nat /\ n >= 1 /\ 1 \in 1..n /\ n \in 1..n
    BY <1>2
  <2>2. messages[1] \in Queued /\ messages[n] \in Queued
    BY <2>1
  <2>3. messages[1].base \in Nat /\ messages[1].bytes \in Nat
        /\ messages[n].base \in Nat /\ messages[n].bytes \in Nat
    BY <2>2 DEF Queued
  <2>4. ASSUME n # 1
        PROVE  End(messages[1]) <= messages[n].base
    <3>1. ASSUME NEW k \in Nat, k >= 1, k # 1
          PROVE  1 < k
      BY <3>1
    <3>2. 1 < n
      BY <2>1, <2>4, <3>1
    <3> QED
      BY <2>1, <3>2 DEF Linked
  <2>5. Span(messages) = messages[n].base + messages[n].bytes - messages[1].base
    BY <1>2 DEF Span
  <2> QED
    BY <2>1, <2>3, <2>4, <2>5 DEF End
<1> QED
  BY <1>1, <1>2

LEMMA SpanOfTail ==
    ASSUME NEW messages \in Seq(Queued), Linked(messages), messages # <<>>
    PROVE  /\ Tail(messages) \in Seq(Queued)
           /\ Linked(Tail(messages))
           /\ Span(Tail(messages)) = Span(messages) - Head(messages).bytes
<1> DEFINE n == Len(messages)
           t == Tail(messages)
<1>1. n \in Nat /\ n >= 1 /\ t \in Seq(Queued) /\ Len(t) = n - 1
  OBVIOUS
<1>2. \A i \in 1..(n - 1) : t[i] = messages[i + 1] /\ i + 1 \in 1..n
  BY <1>1
<1>3. Linked(t)
  <2>1. \A i \in 1..Len(t) : t[i].kind = "error" => t[i].bytes = 0
    BY <1>1, <1>2 DEF Linked
  <2>2. \A i, j \in 1..Len(t) : i < j => End(t[i]) <= t[j].base
    BY <1>1, <1>2 DEF Linked
  <2>3. \A i, j \in 1..Len(t) : j = i + 1 => t[j].base = End(t[i])
    BY <1>1, <1>2 DEF Linked
  <2> QED
    BY <2>1, <2>2, <2>3 DEF Linked
<1>4. Span(t) = Span(messages) - Head(messages).bytes
  <2>1. messages[1] \in Queued /\ messages[n] \in Queued
    BY <1>1
  <2>2. messages[1].base \in Nat /\ messages[1].bytes \in Nat
        /\ messages[n].base \in Nat /\ messages[n].bytes \in Nat
    BY <2>1 DEF Queued
  <2>3. Span(messages) = messages[n].base + messages[n].bytes - messages[1].base
    BY DEF Span
  <2>4. CASE n = 1
    <3>1. t \in Seq(Queued) /\ Len(t) = 0
      BY <1>1, <2>4
    <3>2. t = <<>>
      BY <3>1, EmptySeq
    <3> QED
      BY <2>2, <2>3, <2>4, <3>2 DEF Span
  <2>5. CASE n > 1
    <3>1. t # <<>> /\ t[1] = messages[2] /\ t[Len(t)] = messages[n]
      BY <1>1, <1>2, <2>5
    <3>2. messages[2].base = messages[1].base + messages[1].bytes
      BY <1>1, <2>5 DEF Linked, End
    <3>3. Span(t) = messages[n].base + messages[n].bytes - messages[2].base
      BY <3>1 DEF Span
    <3> QED
      BY <2>2, <2>3, <3>2, <3>3
  <2> QED
    BY <1>1, <2>4, <2>5
<1> QED
  BY <1>1, <1>3, <1>4

LEMMA SpanOfAppend ==
    ASSUME NEW messages \in Seq(Queued), Linked(messages), NEW message \in Queued,
           message.kind = "error" => message.bytes = 0,
           messages # <<>> => message.base = End(messages[Len(messages)])
    PROVE  /\ Append(messages, message) \in Seq(Queued)
           /\ Linked(Append(messages, message))
           /\ Span(Append(messages, message)) = Span(messages) + message.bytes
<1> DEFINE n == Len(messages)
           a == Append(messages, message)
<1>1. n \in Nat /\ a \in Seq(Queued) /\ Len(a) = n + 1 /\ a[n + 1] = message
      /\ a # <<>>
  OBVIOUS
<1>2. \A i \in 1..n : a[i] = messages[i] /\ messages[i] \in Queued
  OBVIOUS
<1>3. \A i \in 1..(n + 1) : i = n + 1 \/ i \in 1..n
  BY <1>1
<1>4. \A i \in 1..n : messages[i].base \in Nat /\ messages[i].bytes \in Nat
  BY <1>2 DEF Queued
<1>5. message.base \in Nat /\ message.bytes \in Nat
  BY DEF Queued
<1>6. \A i \in 1..n : End(messages[i]) <= message.base
  <2> TAKE i \in 1..n
  <2>1. messages # <<>> /\ n \in 1..n
    BY <1>1
  <2>2. i = n \/ End(messages[i]) <= messages[n].base
    BY <1>1, <2>1 DEF Linked
  <2>3. i \in Nat /\ messages[n].base <= message.base
        /\ End(messages[i]) \in Nat /\ messages[n].base \in Nat
    BY <1>4, <1>5, <2>1 DEF End
  <2> QED
    BY <2>1, <2>2, <2>3, <1>5
<1>7. Linked(a)
  <2>1. \A i \in 1..Len(a) : a[i].kind = "error" => a[i].bytes = 0
    BY <1>1, <1>2, <1>3 DEF Linked
  <2>2. ASSUME NEW i \in 1..Len(a), NEW j \in 1..Len(a), i < j
        PROVE  End(a[i]) <= a[j].base
    <3>1. i \in 1..n
      BY <1>1, <2>2
    <3>2. CASE j = n + 1
      BY <1>1, <1>2, <1>6, <3>1, <3>2
    <3>3. CASE j \in 1..n
      BY <1>2, <2>2, <3>1, <3>3 DEF Linked
    <3> QED
      BY <1>1, <1>3, <3>2, <3>3
  <2>3. ASSUME NEW i \in 1..Len(a), NEW j \in 1..Len(a), j = i + 1
        PROVE  a[j].base = End(a[i])
    <3>1. i \in 1..n
      BY <1>1, <2>3
    <3>2. CASE j = n + 1
      BY <1>1, <1>2, <2>3, <3>1, <3>2
    <3>3. CASE j \in 1..n
      BY <1>2, <2>3, <3>1, <3>3 DEF Linked
    <3> QED
      BY <1>1, <1>3, <3>2, <3>3
  <2> QED
    BY <2>1, <2>2, <2>3 DEF Linked
<1>8. Span(a) = Span(messages) + message.bytes
  <2>1. Span(a) = message.base + message.bytes - a[1].base
    BY <1>1 DEF Span
  <2>2. CASE messages = <<>>
    <3>1. a[1] = message
      BY <1>1, <2>2
    <3> QED
      BY <1>5, <2>1, <2>2, <3>1 DEF Span
  <2>3. CASE messages # <<>>
    <3>1. 1 \in 1..n /\ n \in 1..n /\ a[1] = messages[1]
      BY <1>1, <1>2, <2>3
    <3>2. message.base = messages[n].base + messages[n].bytes
      BY <2>3 DEF End
    <3>3. Span(messages) = messages[n].base + messages[n].bytes - messages[1].base
      BY <2>3 DEF Span
    <3> QED
      BY <1>4, <1>5, <2>1, <3>1, <3>2, <3>3
  <2> QED
    BY <2>2, <2>3
<1> QED
  BY <1>1, <1>7, <1>8

-----------------------------------------------------------------------------
(* The inductive invariant: the properties of ByteTransport, strengthened   *)
(* with where each thread can be and how the queued messages are numbered.  *)

HoldsLease == receiverPc \in {"holding", "writing", "discarding"}

Phases ==
    /\ senderAlive <=> senderPc # "dropped"
    /\ receiverAlive <=> receiverPc # "dropped"
    /\ ~HoldsLease => lease = NoLease
    /\ receiverPc = "recv" => receiverWaiting
    /\ senderPc \in {"admit", "handoff"} => sendResult = "Pending"
    /\ senderPc = "handoff" => Capacity = 0
    /\ ~ChargeOverflows(outgoing.size) /\ ~TooLarge(outgoing.size)
    /\ outgoing.kind = "error" => outgoing.size = 0
    /\ senderPc = "admit" => outgoing \in Batches \cup {Failure}

\* Only a closed channel has had its queue taken out.
Taken ==
    /\ Closed => queue = <<>>
    /\ taken # <<>> => cancelled
    /\ dropping # <<>> => ~receiverAlive

Links ==
    /\ Linked(queue) /\ Linked(dropping) /\ Linked(taken)
    /\ queue # <<>> => End(queue[Len(queue)]) = admitted

Numbering ==
    /\ \A i \in 1..Len(queue) : queue[i].id = received + i
    /\ ~Closed => accepted = received + Len(queue)
    /\ recvResult = "End" => ~senderAlive

IInv ==
    /\ TypeOK /\ Phases /\ Taken /\ Links /\ Numbering
    /\ Conservation /\ WithinBudget /\ LeaseCoversBatch /\ CapacityRespected
    /\ NoLostWakeup /\ EndMeansAllReceived /\ AckMeansReceived

-----------------------------------------------------------------------------
\* Every owner's share is part of the account.
LEMMA Shares ==
    ASSUME IInv
    PROVE  /\ Span(queue) \in Nat /\ Span(dropping) \in Nat /\ Span(taken) \in Nat
           /\ lease \in Leases /\ lease.size \in Nat /\ lease.retained \in Nat
           /\ bytes \in Nat /\ bytes <= Limit
           /\ bytes = Span(queue) + lease.retained + Span(dropping) + Span(taken)
<1>1. Span(queue) \in Nat /\ Span(dropping) \in Nat /\ Span(taken) \in Nat
  BY SpanOfLinked DEF IInv, TypeOK, Links
<1>2. lease \in Leases /\ lease.size \in Nat /\ lease.retained \in Nat
  BY DEF IInv, TypeOK, Leases
<1>3. bytes \in Nat /\ peak \in Nat /\ bytes <= peak /\ peak <= Limit /\ Limit \in Nat
  BY LimitAssumption DEF IInv, TypeOK, WithinBudget
<1> QED
  BY <1>1, <1>2, <1>3 DEF IInv, Conservation

LEMMA SpanOfEmpty == Span(<<>>) = 0 /\ Linked(<<>>)
BY DEF Span, Linked

\* What a step of the calling thread alone disturbs.
LEMMA SendBeginsStep ==
    ASSUME IInv, NEW message \in Batches \cup {Failure}, SendBegins(message)
    PROVE  IInv'
<1> USE DEF vars, state, sender, receiver, orphans, history, SendBegins
<1>1. message \in [kind : {"batch", "error"}, size : Nat]
  <2>1. CASE message \in Batches
    BY <2>1, SizesAssumption DEF Batches
  <2>2. CASE message = Failure
    BY <2>2 DEF Failure
  <2> QED
    BY <2>1, <2>2
<1>2. message.kind = "error" => message.size = 0
  BY DEF Batches, Failure
<1>3. TypeOK'
  BY <1>1 DEF IInv, TypeOK
<1>4. Phases'
  BY <1>1, <1>2 DEF IInv, Phases, HoldsLease, MaySend
<1> QED
  BY <1>3, <1>4
     DEF IInv, Taken, Links, Numbering, Conservation, WithinBudget, LeaseCoversBatch,
         CapacityRespected, NoLostWakeup, EndMeansAllReceived, AckMeansReceived,
         Closed, HandoffPending, MaySend, Admissible, CountAvailable, Phases, TypeOK

LEMMA SendEnqueuesStep ==
    ASSUME IInv, SendEnqueues
    PROVE  IInv'
<1> DEFINE message == [kind |-> outgoing.kind, size |-> outgoing.size,
                       bytes |-> Charge(outgoing.size),
                       id |-> accepted + 1, base |-> admitted]
<1>1. /\ outgoing.kind \in {"batch", "error"} /\ outgoing.size \in Nat
      /\ accepted \in Nat /\ admitted \in Nat /\ queue \in Seq(Queued)
      /\ queue' = Append(queue, message)
      /\ ~Closed
  BY DEF IInv, TypeOK, Phases, SendEnqueues, Pushed, Batches, Failure
<1>2. Charge(outgoing.size) = outgoing.size
  BY <1>1, ChargeIsSize DEF IInv, Phases
<1>3. message \in Queued /\ message.bytes = outgoing.size /\ message.base = admitted
      /\ message.id = accepted + 1 /\ message.size = outgoing.size
      /\ message.kind = outgoing.kind
  BY <1>1, <1>2 DEF Queued
<1>4. message.kind = "error" => message.bytes = 0
  BY <1>3 DEF IInv, Phases
<1>5. queue # <<>> => message.base = End(queue[Len(queue)])
  BY <1>3 DEF IInv, Links
<1>6. /\ queue' \in Seq(Queued) /\ Linked(queue')
      /\ Span(queue') = Span(queue) + outgoing.size
  <2> HIDE DEF message
  <2> QED
    BY <1>1, <1>3, <1>4, <1>5, SpanOfAppend DEF IInv, Links
<1>7. /\ bytes' = bytes + outgoing.size /\ bytes' <= Limit /\ bytes' \in Nat
      /\ peak' = (IF peak >= bytes' THEN peak ELSE bytes') /\ peak' \in Nat
  <2>1. outgoing.size <= Limit - bytes
    BY <1>2 DEF SendEnqueues, Admissible
  <2>2. bytes' = bytes + outgoing.size
        /\ peak' = (IF peak >= bytes' THEN peak ELSE bytes')
    BY <1>2 DEF SendEnqueues, Larger
  <2>3. peak \in Nat
    BY DEF IInv, TypeOK
  <2>4. bytes' \in Nat /\ bytes' <= Limit
    <3>1. outgoing.size \in Nat
      BY <1>1
    <3>2. bytes \in Nat /\ Limit \in Nat
      BY Shares, LimitAssumption
    <3> HIDE DEF message
    <3> QED
      BY <2>1, <2>2, <3>1, <3>2
  <2> QED
    BY <2>2, <2>3, <2>4
<1>8. /\ Len(queue) \in Nat /\ Len(queue') = Len(queue) + 1
      /\ queue'[Len(queue) + 1] = message
      /\ \A i \in 1..Len(queue) : queue'[i] = queue[i]
      /\ queue' # <<>>
  BY <1>1, <1>3
<1>9. accepted' = accepted + 1 /\ admitted' = admitted + outgoing.size
      /\ received' = received /\ received \in Nat
      /\ UNCHANGED <<receiverWaiting, receiverAlive, senderAlive, cancelled, outgoing,
                     receiverPc, lease, recvResult, dropping, taken>>
  BY <1>2 DEF SendEnqueues, receiver, orphans, IInv, TypeOK
<1>10. /\ Capacity = 0 => waiting' = {"sender"} /\ senderPc' = "handoff"
                          /\ sendResult' = sendResult
       /\ Capacity # 0 => waiting' = {} /\ senderPc' = "idle" /\ sendResult' = "Ok"
       /\ senderPc = "admit" /\ CountAvailable
  BY DEF SendEnqueues, NotifyAll, NotifyAndSleep, Admissible
<1> HIDE DEF message
<1>11. TypeOK'
  BY <1>1, <1>6, <1>7, <1>9, <1>10 DEF IInv, TypeOK
<1>12. Phases' /\ Taken'
  BY <1>1, <1>9, <1>10 DEF IInv, Phases, Taken, HoldsLease, Closed
<1>13. Links'
  BY <1>1, <1>3, <1>6, <1>8, <1>9 DEF IInv, Links, End
<1>14. Numbering'
  <2>1. accepted = received + Len(queue)
    BY <1>1 DEF IInv, Numbering
  <2>2. ASSUME NEW i \in 1..Len(queue')
        PROVE  queue'[i].id = received' + i
    <3>1. CASE i \in 1..Len(queue)
      BY <1>8, <1>9, <3>1 DEF IInv, Numbering
    <3>2. CASE i = Len(queue) + 1
      BY <1>3, <1>8, <1>9, <2>1, <3>2
    <3> QED
      BY <1>8, <3>1, <3>2
  <2>3. accepted' = received' + Len(queue')
    BY <1>8, <1>9, <2>1
  <2>4. recvResult' = "End" => ~senderAlive'
    BY <1>9 DEF IInv, Numbering
  <2> QED
    BY <2>2, <2>3, <2>4 DEF Numbering
<1>15. Conservation'
  <2>1. lease' = lease /\ dropping' = dropping /\ taken' = taken
    BY <1>9
  <2>2. outgoing.size \in Nat /\ Span(queue') = Span(queue) + outgoing.size
        /\ bytes' = bytes + outgoing.size
    BY <1>1, <1>6, <1>7
  <2>3. bytes' = Span(queue') + lease.retained + Span(dropping) + Span(taken)
    BY <2>2, Shares
  <2> QED
    BY <2>1, <2>3 DEF Conservation
<1>16. WithinBudget'
  BY <1>7, LimitAssumption DEF WithinBudget, IInv, TypeOK
<1>17. LeaseCoversBatch'
  <2>1. ASSUME NEW i \in DOMAIN queue'
        PROVE  queue'[i].size <= queue'[i].bytes
    <3>1. i \in 1..(Len(queue) + 1)
      BY <1>6, <1>8
    <3>2. CASE i \in 1..Len(queue)
      BY <1>1, <1>8, <3>2 DEF IInv, LeaseCoversBatch
    <3>3. CASE i = Len(queue) + 1
      BY <1>1, <1>3, <1>8, <3>3
    <3> QED
      BY <1>8, <3>1, <3>2, <3>3
  <2>2. lease'.size <= lease'.retained
    BY <1>9 DEF IInv, LeaseCoversBatch
  <2> QED
    BY <2>1, <2>2 DEF LeaseCoversBatch
<1>18. CapacityRespected'
  <2>1. CASE Capacity = 0
    <3>1. queue = <<>>
      BY <1>10, <2>1 DEF CountAvailable
    <3>2. Len(queue') = 1
      BY <1>8, <3>1
    <3> QED
      BY <1>10, <2>1, <3>2 DEF CapacityRespected
  <2>2. CASE Capacity # 0
    BY <1>8, <1>10, <2>2, CapacityAssumption DEF CapacityRespected, CountAvailable
  <2> QED
    BY <2>1, <2>2
<1>19. NoLostWakeup'
  BY <1>1, <1>8, <1>9, <1>10 DEF NoLostWakeup, HandoffPending, Closed
<1>20. EndMeansAllReceived' /\ AckMeansReceived'
  <2>1. recvResult # "End"
    BY <1>10 DEF IInv, Numbering, Phases
  <2> QED
    BY <1>9, <1>10, <2>1 DEF EndMeansAllReceived, AckMeansReceived
<1> QED
  BY <1>11, <1>12, <1>13, <1>14, <1>15, <1>16, <1>17, <1>18, <1>19, <1>20 DEF IInv

LEMMA RecvMessageStep ==
    ASSUME IInv, RecvMessage
    PROVE  IInv'
<1> DEFINE message == Head(queue)
<1>1. /\ queue \in Seq(Queued) /\ queue # <<>> /\ Linked(queue)
      /\ queue' = Tail(queue) /\ message \in Queued /\ message = queue[1]
      /\ Len(queue) \in Nat /\ Len(queue) >= 1 /\ 1 \in 1..Len(queue)
  BY DEF RecvMessage, IInv, TypeOK, Links
<1>2. message.bytes \in Nat /\ message.size \in Nat /\ message.id \in Nat
      /\ message.kind \in {"batch", "error"}
  BY <1>1 DEF Queued
<1>3. /\ queue' \in Seq(Queued) /\ Linked(queue')
      /\ Span(queue') = Span(queue) - message.bytes
  BY <1>1, SpanOfTail
<1>4. /\ Len(queue') = Len(queue) - 1
      /\ \A i \in 1..Len(queue') : queue'[i] = queue[i + 1] /\ i + 1 \in 1..Len(queue)
  BY <1>1
<1>5. /\ lease = NoLease /\ ~cancelled /\ receiverAlive /\ ~Closed
      /\ receiverPc \in {"idle", "recv"}
  BY DEF RecvMessage, MayRecv, IInv, Phases, HoldsLease, Closed
<1>6. /\ received' = message.id /\ waiting' = {} /\ receiverWaiting' = FALSE
      /\ UNCHANGED <<bytes, peak, receiverAlive, senderAlive, cancelled,
                     senderPc, outgoing, sendResult, dropping, taken, accepted, admitted>>
  BY DEF RecvMessage, NotifyAll, sender, orphans
<1>7. message.id = received + 1 /\ accepted = received + Len(queue)
      /\ received \in Nat /\ accepted \in Nat
  BY <1>1, <1>5 DEF IInv, Numbering, TypeOK
<1>8. /\ lease' \in Leases /\ lease'.retained = message.bytes
      /\ lease'.size <= lease'.retained
      /\ recvResult' \in {"Ok", "Io"} /\ receiverPc' \in {"holding", "idle"}
      /\ receiverPc' = "idle" => lease' = NoLease
  <2>1. CASE message.kind = "batch"
    <3>1. lease' = [size |-> message.size, retained |-> message.bytes]
          /\ receiverPc' = "holding" /\ recvResult' = "Ok"
      BY <2>1 DEF RecvMessage
    <3>2. message.size <= message.bytes
      BY <1>1 DEF IInv, LeaseCoversBatch
    <3> QED
      BY <1>2, <3>1, <3>2 DEF Leases
  <2>2. CASE message.kind = "error"
    <3>1. lease' = NoLease /\ receiverPc' = "idle" /\ recvResult' = "Io"
      BY <1>5, <2>2 DEF RecvMessage
    <3>2. message.bytes = 0
      BY <1>1, <2>2 DEF Linked
    <3> QED
      BY <3>1, <3>2 DEF Leases, NoLease
  <2> QED
    BY <1>2, <2>1, <2>2
<1> HIDE DEF message
<1>9. TypeOK'
  <2>1. received' \in Nat /\ queue' \in Seq(Queued)
    BY <1>2, <1>3, <1>6
  <2>2. receiverPc' \in {"idle", "recv", "holding", "writing", "discarding", "dropped"}
        /\ recvResult' \in {"None", "Ok", "Io", "End", "Cancelled", "Failed"}
    BY <1>8
  <2> QED
    BY <1>6, <1>8, <2>1, <2>2, ZenonT(60) DEF IInv, TypeOK
<1>10. Phases' /\ Taken'
  BY <1>5, <1>6, <1>8 DEF IInv, Phases, Taken, HoldsLease, Closed
<1>11. Links'
  <2>1. ASSUME queue' # <<>>
        PROVE  queue'[Len(queue')] = queue[Len(queue)]
    <3>1. Len(queue') \in Nat \ {0}
      BY <1>3, <2>1, EmptySeq
    <3>2. Len(queue') \in 1..Len(queue') /\ Len(queue') + 1 = Len(queue)
      BY <1>1, <1>4, <3>1
    <3> QED
      BY <1>4, <3>2
  <2> QED
    BY <1>1, <1>3, <1>6, <2>1 DEF IInv, Links
<1>12. Numbering'
  <2>1. ASSUME NEW i \in 1..Len(queue')
        PROVE  queue'[i].id = received' + i
    <3>1. queue'[i] = queue[i + 1] /\ i + 1 \in 1..Len(queue)
      BY <1>4
    <3>2. queue[i + 1].id = received + (i + 1)
      BY <3>1 DEF IInv, Numbering
    <3> QED
      BY <1>6, <1>7, <3>1, <3>2
  <2>2. accepted' = received' + Len(queue')
    BY <1>1, <1>4, <1>6, <1>7
  <2> QED
    BY <1>8, <2>1, <2>2 DEF Numbering
<1>13. Conservation'
  <2>1. lease.retained = 0
    BY <1>5 DEF NoLease
  <2>2. bytes' = Span(queue') + lease'.retained + Span(dropping) + Span(taken)
    BY <1>2, <1>3, <1>6, <1>8, <2>1, Shares
  <2> QED
    BY <1>6, <2>2 DEF Conservation
<1>14. WithinBudget'
  BY <1>6 DEF IInv, WithinBudget
<1>15. LeaseCoversBatch'
  <2>1. DOMAIN queue' = 1..Len(queue') /\ DOMAIN queue = 1..Len(queue)
    BY <1>1, <1>3
  <2> QED
    BY <1>4, <1>8, <2>1 DEF IInv, LeaseCoversBatch
<1>16. CapacityRespected'
  <2>1. Len(queue') <= Len(queue) /\ (Len(queue) <= 1 => queue' = <<>>)
    BY <1>1, <1>3, <1>4, EmptySeq
  <2> QED
    BY <1>1, <1>3, <1>4, <2>1, CapacityAssumption DEF IInv, CapacityRespected
<1>17. NoLostWakeup'
  BY <1>6 DEF NoLostWakeup
<1>18. EndMeansAllReceived'
  BY <1>8 DEF EndMeansAllReceived
<1>19. AckMeansReceived'
  <2>1. Capacity = 0 => senderPc = "handoff"
    BY <1>1 DEF IInv, CapacityRespected
  <2> QED
    BY <1>6, <2>1 DEF AckMeansReceived
<1> QED
  BY <1>9, <1>10, <1>11, <1>12, <1>13, <1>14, <1>15, <1>16, <1>17, <1>18, <1>19 DEF IInv

LEMMA TransformFitsStep ==
    ASSUME IInv, NEW size \in BatchSizes, TransformFits(size)
    PROVE  IInv'
<1>1. /\ size \in Nat /\ lease' = [lease EXCEPT !.size = size]
      /\ Charge(size) <= lease.retained /\ Charge(size) = size
  BY SizesAssumption, ChargeIsSize DEF TransformFits
<1>2. lease' \in Leases /\ lease'.size = size /\ lease'.retained = lease.retained
  BY <1>1, Shares DEF Leases
<1>3. TypeOK' /\ LeaseCoversBatch'
  BY <1>1, <1>2 DEF TransformFits, state, sender, orphans, history, IInv, TypeOK, LeaseCoversBatch
<1>4. Conservation' /\ Phases'
  BY <1>2 DEF TransformFits, state, sender, orphans, history, IInv, Conservation, Phases, HoldsLease
<1> QED
  BY <1>3, <1>4
     DEF TransformFits, state, sender, orphans, history, IInv, Taken, Links, Numbering,
         WithinBudget, CapacityRespected, NoLostWakeup, EndMeansAllReceived,
         AckMeansReceived, Closed, HandoffPending, Admissible, CountAvailable

LEMMA TransformGrowsStep ==
    ASSUME IInv, NEW size \in BatchSizes, TransformGrows(size)
    PROVE  IInv'
<1>1. /\ size \in Nat /\ Charge(size) = size
      /\ lease' = [size |-> size, retained |-> size]
      /\ size > lease.retained /\ size - lease.retained <= Limit - bytes
      /\ bytes' = bytes + (size - lease.retained)
      /\ peak' = (IF peak >= bytes' THEN peak ELSE bytes')
      /\ receiverPc' = "writing"
      /\ UNCHANGED <<queue, receiverWaiting, receiverAlive, senderAlive, cancelled, waiting,
                     senderPc, outgoing, sendResult, recvResult, dropping, taken,
                     accepted, received, admitted>>
  BY SizesAssumption, ChargeIsSize
     DEF TransformGrows, Grown, Larger, sender, orphans, history
<1>2. lease' \in Leases /\ lease'.size = size /\ lease'.retained = size
  BY <1>1 DEF Leases
<1>3. bytes' \in Nat /\ bytes' <= Limit /\ bytes <= bytes'
  BY <1>1, Shares, LimitAssumption
<1>4. peak' \in Nat /\ bytes' <= peak' /\ peak' <= Limit
  <2>1. peak \in Nat /\ peak <= Limit /\ Limit \in Nat
    BY LimitAssumption DEF IInv, TypeOK, WithinBudget
  <2> QED
    BY <1>1, <1>3, <2>1
<1>5. TypeOK'
  BY <1>1, <1>2, <1>3, <1>4 DEF IInv, TypeOK
<1>6. Phases' /\ receiverPc = "holding"
  BY <1>1 DEF TransformGrows, IInv, Phases, HoldsLease
<1>7. Conservation'
  <2>1. bytes' = Span(queue) + lease'.retained + Span(dropping) + Span(taken)
    BY <1>1, <1>2, Shares
  <2> QED
    BY <1>1, <2>1 DEF Conservation
<1>8. WithinBudget'
  BY <1>4 DEF WithinBudget
<1>9. LeaseCoversBatch'
  BY <1>1, <1>2 DEF IInv, LeaseCoversBatch
<1>10. NoLostWakeup'
  <2>1. ASSUME ~Admissible
        PROVE  ~Admissible'
    <3>1. Charge(outgoing.size) \in Nat
      BY ChargeIsSize DEF IInv, Phases, TypeOK
    <3>2. Charge(outgoing.size) <= Limit - bytes' => Charge(outgoing.size) <= Limit - bytes
      BY <1>3, <3>1, Shares, LimitAssumption
    <3>3. Admissible' <=> CountAvailable /\ Charge(outgoing.size) <= Limit - bytes'
      BY <1>1 DEF Admissible, CountAvailable
    <3> QED
      BY <2>1, <3>2, <3>3 DEF Admissible
  <2>2. (Closed' <=> Closed) /\ (HandoffPending' <=> HandoffPending)
    BY <1>1 DEF Closed, HandoffPending
  <2> QED
    BY <1>1, <1>6, <2>1, <2>2 DEF IInv, NoLostWakeup
<1> QED
  BY <1>1, <1>5, <1>6, <1>7, <1>8, <1>9, <1>10
     DEF IInv, Taken, Links, Numbering, CapacityRespected, EndMeansAllReceived,
         AckMeansReceived, Closed

LEMMA DropLeaseStep ==
    ASSUME IInv, DropLease
    PROVE  IInv'
<1>1. /\ bytes' = bytes - lease.retained /\ waiting' = {}
      /\ lease' = NoLease /\ receiverPc' = "idle"
      /\ UNCHANGED <<queue, peak, receiverWaiting, receiverAlive, senderAlive, cancelled,
                     senderPc, outgoing, sendResult, recvResult, dropping, taken,
                     accepted, received, admitted>>
  BY DEF DropLease, Release, NotifyAll, sender, orphans, history
<1>2. bytes' \in Nat /\ bytes' <= bytes
  BY <1>1, Shares
<1>3. lease' \in Leases /\ lease'.size = 0 /\ lease'.retained = 0
  BY <1>1 DEF NoLease, Leases
<1>4. TypeOK'
  BY <1>1, <1>2, <1>3 DEF IInv, TypeOK
<1>5. Phases'
  BY <1>1 DEF DropLease, IInv, Phases, HoldsLease
<1>6. Conservation'
  <2>1. bytes' = Span(queue) + lease'.retained + Span(dropping) + Span(taken)
    BY <1>1, <1>3, Shares
  <2> QED
    BY <1>1, <2>1 DEF Conservation
<1>7. WithinBudget'
  <2>1. bytes <= peak /\ peak <= Limit /\ peak \in Nat
    BY DEF IInv, TypeOK, WithinBudget
  <2>2. bytes' <= peak
    BY <1>2, <2>1, Shares
  <2> QED
    BY <1>1, <2>1, <2>2 DEF WithinBudget
<1>8. LeaseCoversBatch'
  BY <1>1, <1>3 DEF IInv, LeaseCoversBatch
<1> QED
  BY <1>1, <1>4, <1>5, <1>6, <1>7, <1>8
     DEF IInv, Taken, Links, Numbering, CapacityRespected, NoLostWakeup,
         EndMeansAllReceived, AckMeansReceived, Closed

LEMMA DropReceiverStep ==
    ASSUME IInv, DropReceiver
    PROVE  IInv'
<1>1. /\ receiverPc = "idle" /\ receiverPc' = "dropped"
      /\ receiverAlive' = FALSE /\ receiverWaiting' = FALSE
      /\ dropping' = queue /\ queue' = <<>> /\ waiting' = {}
      /\ UNCHANGED <<bytes, peak, senderAlive, cancelled, senderPc, outgoing, sendResult,
                     lease, recvResult, taken, accepted, received, admitted>>
  BY DEF DropReceiver, NotifyAll, sender, history
<1>2. receiverAlive /\ dropping = <<>>
  BY <1>1 DEF IInv, Phases, Taken
<1>3. TypeOK'
  <2>1. queue' \in Seq(Queued) /\ dropping' \in Seq(Queued)
    BY <1>1, EmptySeq DEF IInv, TypeOK
  <2> QED
    BY <1>1, <2>1, ZenonT(60) DEF IInv, TypeOK
<1>4. Phases' /\ Taken'
  BY <1>1 DEF IInv, Phases, Taken, HoldsLease, Closed
<1>5. Links'
  BY <1>1, SpanOfEmpty DEF IInv, Links
<1>6. Numbering'
  BY <1>1 DEF IInv, Numbering, Closed
<1>7. Conservation'
  <2>1. Span(dropping) = 0 /\ Span(queue') = 0 /\ Span(dropping') = Span(queue)
    BY <1>1, <1>2, SpanOfEmpty
  <2>2. bytes' = Span(queue') + lease.retained + Span(dropping') + Span(taken)
    BY <1>1, <2>1, Shares
  <2> QED
    BY <1>1, <2>2 DEF Conservation
<1>8. LeaseCoversBatch' /\ CapacityRespected'
  BY <1>1, CapacityAssumption DEF IInv, LeaseCoversBatch, CapacityRespected
<1> QED
  BY <1>1, <1>3, <1>4, <1>5, <1>6, <1>7, <1>8
     DEF IInv, WithinBudget, NoLostWakeup, EndMeansAllReceived, AckMeansReceived

\* Destroying the first message of a taken queue returns exactly its share.
LEMMA ReleaseStep ==
    ASSUME IInv, NEW messages \in Seq(Queued), messages # <<>>, Linked(messages),
           Span(messages) <= bytes, ReleaseMessage(Head(messages))
    PROVE  /\ bytes' = bytes - (Span(messages) - Span(Tail(messages)))
           /\ bytes' \in Nat /\ bytes' <= bytes
           /\ Tail(messages) \in Seq(Queued) /\ Linked(Tail(messages))
           /\ Span(messages) \in Nat /\ Span(Tail(messages)) \in Nat
           /\ waiting' = {} \/ (waiting' = waiting /\ bytes' = bytes)
<1>1. /\ Tail(messages) \in Seq(Queued) /\ Linked(Tail(messages))
      /\ Span(Tail(messages)) = Span(messages) - Head(messages).bytes
  BY SpanOfTail
<1>2. Span(messages) \in Nat /\ Head(messages).bytes <= Span(messages)
      /\ Span(Tail(messages)) \in Nat
  BY <1>1, SpanOfLinked
<1>3. Head(messages) \in Queued /\ Head(messages) = messages[1] /\ 1 \in 1..Len(messages)
  OBVIOUS
<1>4. Head(messages).bytes \in Nat /\ Head(messages).kind \in {"batch", "error"}
  BY <1>3 DEF Queued
<1>5. /\ bytes' = bytes - Head(messages).bytes
      /\ waiting' = {} \/ (waiting' = waiting /\ bytes' = bytes)
  <2>1. CASE Head(messages).kind = "batch"
    <3>1. Release(Head(messages).bytes)
      BY <2>1 DEF ReleaseMessage
    <3>2. bytes' = bytes - Head(messages).bytes /\ waiting' = {}
      BY <3>1 DEF Release, NotifyAll
    <3> QED
      BY <3>2
  <2>2. CASE Head(messages).kind = "error"
    <3>1. Head(messages).bytes = 0
      BY <1>3, <2>2 DEF Linked
    <3>2. bytes' = bytes /\ waiting' = waiting
      BY <2>2 DEF ReleaseMessage
    <3> QED
      BY <3>1, <3>2, Shares
  <2> QED
    BY <1>4, <2>1, <2>2
<1>6. bytes \in Nat
  BY Shares
<1>7. bytes' = bytes - (Span(messages) - Span(Tail(messages)))
      /\ bytes' \in Nat /\ bytes' <= bytes
  <2>1. bytes' = bytes - Head(messages).bytes
    BY <1>5
  <2> QED
    BY <1>1, <1>2, <1>4, <1>6, <2>1
<1> QED
  BY <1>1, <1>2, <1>5, <1>7

\* Returning bytes outside the receiver wakes everybody it could matter to.
LEMMA ReturnedBytes ==
    ASSUME IInv, bytes' \in Nat, bytes' <= bytes,
           waiting' = {} \/ (waiting' = waiting /\ bytes' = bytes),
           UNCHANGED <<queue, peak, receiverWaiting, receiverAlive, senderAlive, cancelled,
                       sender, receiver, history>>
    PROVE  /\ Phases' /\ Numbering' /\ WithinBudget' /\ LeaseCoversBatch'
           /\ CapacityRespected' /\ NoLostWakeup' /\ EndMeansAllReceived' /\ AckMeansReceived'
<1> USE DEF sender, receiver, history
<1>1. WithinBudget'
  <2>1. bytes <= peak /\ peak <= Limit /\ peak \in Nat /\ bytes \in Nat
    BY DEF IInv, TypeOK, WithinBudget
  <2>2. bytes' <= peak
    BY <2>1
  <2> QED
    BY <2>1, <2>2 DEF WithinBudget
<1>2. NoLostWakeup'
  BY DEF IInv, NoLostWakeup, Closed, Admissible, CountAvailable, HandoffPending
<1>3. Phases' /\ Numbering' /\ LeaseCoversBatch' /\ CapacityRespected'
  BY DEF IInv, Phases, HoldsLease, Numbering, Closed, LeaseCoversBatch, CapacityRespected
<1>4. EndMeansAllReceived' /\ AckMeansReceived'
  BY DEF IInv, EndMeansAllReceived, AckMeansReceived
<1> QED
  BY <1>1, <1>2, <1>3, <1>4

LEMMA ReceiverDropsQueuedStep ==
    ASSUME IInv, ReceiverDropsQueued
    PROVE  IInv'
<1>1. dropping \in Seq(Queued) /\ dropping # <<>> /\ Linked(dropping)
      /\ dropping' = Tail(dropping) /\ taken' = taken /\ queue' = queue /\ lease' = lease
      /\ ReleaseMessage(Head(dropping))
  BY DEF ReceiverDropsQueued, IInv, TypeOK, Links, receiver
<1>2. Span(dropping) <= bytes
  BY Shares
<1>3. /\ bytes' = bytes - (Span(dropping) - Span(dropping'))
      /\ bytes' \in Nat /\ bytes' <= bytes
      /\ dropping' \in Seq(Queued) /\ Linked(dropping')
      /\ Span(dropping) \in Nat /\ Span(dropping') \in Nat
      /\ waiting' = {} \/ (waiting' = waiting /\ bytes' = bytes)
  BY <1>1, <1>2, ReleaseStep
<1>4. /\ Phases' /\ Numbering' /\ WithinBudget' /\ LeaseCoversBatch'
      /\ CapacityRespected' /\ NoLostWakeup' /\ EndMeansAllReceived' /\ AckMeansReceived'
  BY <1>3, ReturnedBytes DEF ReceiverDropsQueued
<1>5. TypeOK'
  <2>1. waiting' \subseteq {"sender", "receiver"}
    BY <1>3 DEF IInv, TypeOK
  <2> QED
    BY <1>1, <1>3, <2>1 DEF ReceiverDropsQueued, IInv, TypeOK, sender, receiver, history
<1>6. Taken' /\ Links'
  BY <1>1, <1>3 DEF ReceiverDropsQueued, IInv, Taken, Links, Closed, history
<1>7. Conservation'
  <2>1. bytes' = Span(queue) + lease.retained + Span(dropping') + Span(taken)
    BY <1>3, Shares
  <2> QED
    BY <1>1, <2>1 DEF Conservation
<1> QED
  BY <1>4, <1>5, <1>6, <1>7 DEF IInv

LEMMA CancelStep ==
    ASSUME IInv, Cancel
    PROVE  IInv'
<1>1. /\ cancelled' = TRUE /\ taken' = taken \o queue /\ queue' = <<>> /\ waiting' = {}
      /\ UNCHANGED <<bytes, peak, receiverWaiting, receiverAlive, senderAlive,
                     senderPc, outgoing, sendResult, receiverPc, lease, recvResult,
                     dropping, accepted, received, admitted>>
      /\ queue \in Seq(Queued) /\ taken \in Seq(Queued)
  BY DEF Cancel, NotifyAll, sender, receiver, history, IInv, TypeOK
\* A second cancel finds nothing: only one queue is ever taken.
<1>2. (taken' = taken /\ queue = <<>>) \/ (taken' = queue /\ taken = <<>>)
  <2>1. taken = <<>> \/ queue = <<>>
    BY DEF IInv, Taken, Closed
  <2>2. CASE taken = <<>>
    BY <1>1, <2>2, ConcatEmptySeq
  <2>3. CASE queue = <<>>
    <3>1. taken \o <<>> = taken
      BY <1>1, ConcatEmptySeq
    <3> QED
      BY <1>1, <2>3, <3>1
  <2> QED
    BY <2>1, <2>2, <2>3
<1>3. TypeOK'
  BY <1>1, <1>2 DEF IInv, TypeOK
<1>4. Phases' /\ Taken'
  BY <1>1 DEF IInv, Phases, Taken, HoldsLease, Closed
<1>5. Links'
  BY <1>1, <1>2, SpanOfEmpty DEF IInv, Links
<1>6. Numbering'
  BY <1>1 DEF IInv, Numbering, Closed
<1>7. Conservation'
  <2>1. Span(queue') = 0 /\ Span(taken') = Span(queue) + Span(taken)
    <3>1. CASE taken' = taken /\ queue = <<>>
      BY <1>1, <3>1, SpanOfEmpty, Shares
    <3>2. CASE taken' = queue /\ taken = <<>>
      <4>1. Span(taken) = 0 /\ Span(taken') = Span(queue) /\ Span(queue') = 0
        BY <1>1, <3>2, SpanOfEmpty
      <4> QED
        BY <4>1, Shares
    <3> QED
      BY <1>2, <3>1, <3>2
  <2>2. bytes' = Span(queue') + lease.retained + Span(dropping) + Span(taken')
    BY <1>1, <2>1, Shares
  <2> QED
    BY <1>1, <2>2 DEF Conservation
<1>8. LeaseCoversBatch' /\ CapacityRespected'
  BY <1>1, CapacityAssumption DEF IInv, LeaseCoversBatch, CapacityRespected
<1> QED
  BY <1>1, <1>3, <1>4, <1>5, <1>6, <1>7, <1>8
     DEF IInv, WithinBudget, NoLostWakeup, EndMeansAllReceived, AckMeansReceived

LEMMA CancelDropsQueuedStep ==
    ASSUME IInv, CancelDropsQueued
    PROVE  IInv'
<1>1. taken \in Seq(Queued) /\ taken # <<>> /\ Linked(taken)
      /\ taken' = Tail(taken) /\ dropping' = dropping /\ queue' = queue /\ lease' = lease
      /\ ReleaseMessage(Head(taken))
  BY DEF CancelDropsQueued, IInv, TypeOK, Links, receiver
<1>2. Span(taken) <= bytes
  BY Shares
<1>3. /\ bytes' = bytes - (Span(taken) - Span(taken'))
      /\ bytes' \in Nat /\ bytes' <= bytes
      /\ taken' \in Seq(Queued) /\ Linked(taken')
      /\ Span(taken) \in Nat /\ Span(taken') \in Nat
      /\ waiting' = {} \/ (waiting' = waiting /\ bytes' = bytes)
  BY <1>1, <1>2, ReleaseStep
<1>4. /\ Phases' /\ Numbering' /\ WithinBudget' /\ LeaseCoversBatch'
      /\ CapacityRespected' /\ NoLostWakeup' /\ EndMeansAllReceived' /\ AckMeansReceived'
  BY <1>3, ReturnedBytes DEF CancelDropsQueued
<1>5. TypeOK'
  <2>1. waiting' \subseteq {"sender", "receiver"}
    BY <1>3 DEF IInv, TypeOK
  <2> QED
    BY <1>1, <1>3, <2>1 DEF CancelDropsQueued, IInv, TypeOK, sender, receiver, history
<1>6. Taken' /\ Links'
  BY <1>1, <1>3 DEF CancelDropsQueued, IInv, Taken, Links, Closed, history
<1>7. Conservation'
  <2>1. bytes' = Span(queue) + lease.retained + Span(dropping) + Span(taken')
    BY <1>3, Shares
  <2> QED
    BY <1>1, <2>1 DEF Conservation
<1> QED
  BY <1>4, <1>5, <1>6, <1>7 DEF IInv

\* Steps that move a thread, or put it to sleep, and touch no message.
LEMMA ControlStep ==
    ASSUME IInv,
           \/ \E message \in Batches \cup {Failure} : SendRejects(message)
           \/ SendRefused \/ SendBlocks \/ HandoffBlocks \/ HandoffEnds \/ DropSender
           \/ RecvCancelled \/ RecvEnd \/ RecvBlocks \/ TransformFails
           \/ \E size \in BatchSizes : TransformRefused(size)
           \/ SpuriousWakeup \/ UNCHANGED vars
    PROVE  IInv'
<1> USE DEF vars, state, sender, receiver, orphans, history, Awake, MaySend, MayRecv,
            IInv, TypeOK, Phases, HoldsLease, Taken, Links, Numbering, Conservation,
            WithinBudget, LeaseCoversBatch, CapacityRespected, NoLostWakeup,
            EndMeansAllReceived, AckMeansReceived, Closed, Admissible, CountAvailable,
            HandoffPending
<1>1. ASSUME NEW message \in Batches \cup {Failure}, SendRejects(message)
      PROVE  IInv'
  BY <1>1 DEF SendRejects
<1>2. CASE SendRefused
  BY <1>2 DEF SendRefused
<1>3. CASE SendBlocks
  BY <1>3 DEF SendBlocks, Sleep
<1>4. CASE HandoffBlocks
  BY <1>4 DEF HandoffBlocks, Sleep
<1>5. CASE HandoffEnds
  BY <1>5 DEF HandoffEnds
<1>6. CASE DropSender
  <2>1. TypeOK'
    BY <1>6, ZenonT(60) DEF DropSender, NotifyAll
  <2>2. Phases'
    BY <1>6 DEF DropSender, NotifyAll
  <2>3. Taken' /\ Links' /\ Numbering'
    BY <1>6 DEF DropSender, NotifyAll
  <2>4. Conservation' /\ WithinBudget' /\ LeaseCoversBatch' /\ CapacityRespected'
    BY <1>6 DEF DropSender, NotifyAll
  <2>5. NoLostWakeup' /\ EndMeansAllReceived' /\ AckMeansReceived'
    BY <1>6 DEF DropSender, NotifyAll
  <2> QED
    BY <2>1, <2>2, <2>3, <2>4, <2>5
<1>7. CASE RecvCancelled
  BY <1>7 DEF RecvCancelled
<1>8. CASE RecvEnd
  BY <1>8 DEF RecvEnd, StreamEnded
<1>9. CASE RecvBlocks
  BY <1>9 DEF RecvBlocks, NotifyAndSleep
<1>10. CASE TransformFails
  BY <1>10 DEF TransformFails
<1>11. ASSUME NEW size \in BatchSizes, TransformRefused(size)
      PROVE  IInv'
  BY <1>11 DEF TransformRefused
<1>12. CASE SpuriousWakeup
  BY <1>12 DEF SpuriousWakeup
<1>13. CASE UNCHANGED vars
  BY <1>13
<1> QED
  BY <1>1, <1>2, <1>3, <1>4, <1>5, <1>6, <1>7, <1>8, <1>9, <1>10, <1>11, <1>12, <1>13

LEMMA InductiveStep == IInv /\ [Next]_vars => IInv'
<1> SUFFICES ASSUME IInv, [Next]_vars
             PROVE  IInv'
  OBVIOUS
<1>1. ASSUME NEW message \in Batches \cup {Failure}, SendBegins(message)
      PROVE  IInv'
  BY <1>1, SendBeginsStep
<1>2. CASE SendEnqueues
  BY <1>2, SendEnqueuesStep
<1>3. CASE RecvMessage
  BY <1>3, RecvMessageStep
<1>4. ASSUME NEW size \in BatchSizes, TransformFits(size)
      PROVE  IInv'
  BY <1>4, TransformFitsStep
<1>5. ASSUME NEW size \in BatchSizes, TransformGrows(size)
      PROVE  IInv'
  BY <1>5, TransformGrowsStep
<1>6. CASE DropLease
  BY <1>6, DropLeaseStep
<1>7. CASE DropReceiver
  BY <1>7, DropReceiverStep
<1>8. CASE ReceiverDropsQueued
  BY <1>8, ReceiverDropsQueuedStep
<1>9. CASE Cancel
  BY <1>9, CancelStep
<1>10. CASE CancelDropsQueued
  BY <1>10, CancelDropsQueuedStep
<1> QED
  BY <1>1, <1>2, <1>3, <1>4, <1>5, <1>6, <1>7, <1>8, <1>9, <1>10, ControlStep
     DEF Next, SenderStep, ReceiverStep

LEMMA InitialStep == Init => IInv
<1> SUFFICES ASSUME Init
             PROVE  IInv
  OBVIOUS
<1>1. TypeOK
  <2>1. queue \in Seq(Queued) /\ dropping \in Seq(Queued) /\ taken \in Seq(Queued)
    BY EmptySeq DEF Init
  <2> QED
    BY <2>1 DEF Init, TypeOK, NoMessage, NoLease, Leases
<1>2. Phases
  <2>1. Charge(0) = 0 /\ ~ChargeOverflows(0) /\ ~TooLarge(0)
    BY LimitAssumption DEF Charge, ChargeOverflows, TooLarge
  <2> QED
    BY <2>1 DEF Init, Phases, HoldsLease, NoMessage
<1>3. Links /\ Conservation
  BY SpanOfEmpty DEF Init, Links, Conservation, NoLease
<1>4. Taken /\ Numbering
  BY DEF Init, Taken, Numbering
<1>5. WithinBudget /\ LeaseCoversBatch /\ CapacityRespected
  BY LimitAssumption, CapacityAssumption
     DEF Init, WithinBudget, LeaseCoversBatch, CapacityRespected, NoLease
<1>6. NoLostWakeup /\ EndMeansAllReceived /\ AckMeansReceived
  BY DEF Init, NoLostWakeup, EndMeansAllReceived, AckMeansReceived
<1> QED
  BY <1>1, <1>2, <1>3, <1>4, <1>5, <1>6 DEF IInv

THEOREM Invariance == Spec => []IInv
BY InitialStep, InductiveStep, PTL DEF Spec

-----------------------------------------------------------------------------
(* What follows for every instance of the transport. *)

\* The state keeps its types: the unsigned byte counter never underflows when a
\* reservation is returned.
THEOREM TypeCorrect == Spec => []TypeOK
<1>1. IInv => TypeOK
  BY DEF IInv
<1> QED
  BY <1>1, Invariance, PTL

\* The byte account is exact, and stays within the configured limit.
THEOREM AccountExact == Spec => []AccountIsExact
<1>1. IInv => AccountIsExact
  BY DEF IInv, AccountIsExact
<1> QED
  BY <1>1, Invariance, PTL

\* Count backpressure (CountAvailable, HandoffPending): the queue holds no more than
\* it was configured for, a rendezvous channel a message only while its sender waits,
\* and what send has returned Ok for is never further ahead of the receiver than that.
THEOREM Backpressure == Spec => [](CapacityRespected /\ AheadByCapacity)
<1>1. IInv => AheadByCapacity
  <2> SUFFICES ASSUME IInv, ~Closed
               PROVE  Acknowledged - received <= Capacity
    BY DEF AheadByCapacity
  <2>1. /\ accepted \in Nat /\ received \in Nat /\ Len(queue) \in Nat
        /\ accepted = received + Len(queue)
    BY DEF IInv, TypeOK, Numbering
  <2>2. CASE Capacity = 0
    <3>1. CASE queue = <<>>
      BY <2>1, <2>2, <3>1 DEF Acknowledged
    <3>2. CASE queue # <<>>
      BY <2>1, <2>2, <3>2 DEF IInv, CapacityRespected, Acknowledged
    <3> QED
      BY <3>1, <3>2
  <2>3. CASE Capacity # 0
    BY <2>1, <2>3, CapacityAssumption DEF IInv, Phases, CapacityRespected, Acknowledged
  <2> QED
    BY <2>2, <2>3
<1>2. IInv => CapacityRespected /\ AheadByCapacity
  BY <1>1 DEF IInv
<1> QED
  BY <1>2, Invariance, PTL

\* The end of the stream is reported only when all of it has been received, and
\* a rendezvous channel acknowledges only what was taken.
THEOREM NothingHidden == Spec => []AnswersAreTrue
<1>1. IInv => AnswersAreTrue
  BY DEF IInv, AnswersAreTrue
<1> QED
  BY <1>1, Invariance, PTL

\* Every change that ends a wait notifies the one who waits for it, and the
\* producer and the writer never sleep at the same time. If both did, the
\* queue would be empty and nothing cancelled or dropped, so no byte would be
\* charged: the message the sender waits with, which is no larger than the
\* limit, would be admissible.
THEOREM DeadlockFree == Spec => []NoOneStuck
<1>1. IInv => NoMutualWait
  <2> SUFFICES ASSUME IInv, waiting = {"sender", "receiver"}
               PROVE  FALSE
    BY DEF NoMutualWait
  <2>1. receiverPc = "recv" /\ ~cancelled /\ queue = <<>> /\ senderAlive
    BY DEF IInv, NoLostWakeup
  <2>2. senderPc = "admit" /\ ~Closed /\ ~Admissible
    BY <2>1 DEF IInv, NoLostWakeup, HandoffPending
  <2>3. taken = <<>> /\ dropping = <<>>
    BY <2>1, <2>2 DEF IInv, Taken, Closed
  <2>4. bytes = 0
    <3>1. lease.retained = 0
      BY <2>1 DEF IInv, Phases, HoldsLease, NoLease
    <3> QED
      BY <2>1, <2>3, <3>1, SpanOfEmpty, Shares
  <2>5. CountAvailable
    BY <2>1, CapacityAssumption DEF IInv, Phases, CountAvailable
  <2>6. Charge(outgoing.size) <= Limit
    <3>1. Charge(outgoing.size) \in Nat /\ ~(Charge(outgoing.size) > Limit)
      BY ChargeIsSize DEF IInv, Phases, TypeOK, TooLarge
    <3> QED
      BY <3>1, LimitAssumption
  <2> QED
    BY <2>2, <2>4, <2>5, <2>6, LimitAssumption DEF Admissible
<1>2. IInv => NoOneStuck
  BY <1>1 DEF IInv, NoOneStuck
<1> QED
  BY <1>2, Invariance, PTL

\* Messages are received in the order they were accepted, none skipped.
THEOREM Ordered == Spec => InOrder
<1>1. IInv /\ [Next]_vars => [received' \in {received, received + 1}]_received
  <2> SUFFICES ASSUME IInv, [Next]_vars, received' # received
               PROVE  received' \in {received, received + 1}
    OBVIOUS
  <2>1. RecvMessage
    BY DEF Next, SenderStep, ReceiverStep, SendRejects, SendBegins, SendRefused, SendBlocks,
           SendEnqueues, HandoffBlocks, HandoffEnds, DropSender, RecvCancelled, RecvEnd,
           RecvBlocks, TransformFails, TransformFits, TransformGrows, TransformRefused,
           DropLease, DropReceiver, ReceiverDropsQueued, Cancel, CancelDropsQueued,
           SpuriousWakeup, vars, history
  <2>2. received' = queue[1].id /\ 1 \in 1..Len(queue)
    BY <2>1 DEF RecvMessage, IInv, TypeOK
  <2> QED
    BY <2>2 DEF IInv, Numbering
<1> QED
  BY <1>1, Invariance, PTL DEF Spec, InOrder

-----------------------------------------------------------------------------
(* The transport implements the abstract channel. *)

\* The abstract contents, as ByteTransport substitutes them.
Plain(message) == [kind |-> message.kind, size |-> message.size]
Contents(messages) == [i \in DOMAIN messages |-> Plain(messages[i])]

Plains == [kind : {"batch", "error"}, size : Nat]

LEMMA ContentsProperties ==
    ASSUME NEW messages \in Seq(Queued)
    PROVE  /\ Contents(messages) \in Seq(Plains)
           /\ Len(Contents(messages)) = Len(messages)
           /\ \A i \in 1..Len(messages) : Contents(messages)[i] = Plain(messages[i])
           /\ Contents(messages) = <<>> <=> messages = <<>>
<1> DEFINE n == Len(messages)
           contents == Contents(messages)
<1>1. n \in Nat /\ DOMAIN messages = 1..n
  OBVIOUS
<1>2. contents = [i \in 1..n |-> Plain(messages[i])]
  BY <1>1 DEF Contents
<1>3. \A i \in 1..n : Plain(messages[i]) \in Plains
  <2>1. \A i \in 1..n : messages[i] \in Queued
    OBVIOUS
  <2>2. \A message \in Queued : Plain(message) \in Plains
    BY DEF Queued, Plain, Plains
  <2> QED
    BY <2>1, <2>2
<1> HIDE DEF contents
<1>4. contents \in Seq(Plains) /\ Len(contents) = n
  BY <1>1, <1>2, <1>3
<1>5. contents = <<>> <=> messages = <<>>
  BY <1>1, <1>4, EmptySeq
<1> QED
  BY <1>2, <1>4, <1>5 DEF contents

LEMMA ContentsOfTail ==
    ASSUME NEW messages \in Seq(Queued), messages # <<>>
    PROVE  Contents(Tail(messages)) = Tail(Contents(messages))
<1> DEFINE n == Len(messages)
           t == Tail(messages)
           c == Contents(messages)
<1>1. n \in Nat /\ n >= 1 /\ t \in Seq(Queued) /\ Len(t) = n - 1
      /\ \A i \in 1..Len(t) : t[i] = messages[i + 1] /\ i + 1 \in 1..n
  OBVIOUS
<1>2. c \in Seq(Plains) /\ c # <<>> /\ Len(c) = n
      /\ \A i \in 1..n : c[i] = Plain(messages[i])
  BY ContentsProperties
<1>3. Contents(t) \in Seq(Plains) /\ Len(Contents(t)) = n - 1
      /\ \A i \in 1..(n - 1) : Contents(t)[i] = Plain(t[i])
  BY <1>1, ContentsProperties
<1> HIDE DEF t, c, n
<1>4. Tail(c) \in Seq(Plains) /\ Len(Tail(c)) = n - 1
      /\ \A i \in 1..(n - 1) : Tail(c)[i] = c[i + 1]
  BY <1>1, <1>2, HeadTailProperties
<1>5. \A i \in 1..(n - 1) : Contents(t)[i] = Tail(c)[i]
  BY <1>1, <1>2, <1>3, <1>4
<1> QED
  BY <1>3, <1>4, <1>5, SeqEqual DEF t, c

LEMMA ContentsOfAppend ==
    ASSUME NEW messages \in Seq(Queued), NEW message \in Queued
    PROVE  Contents(Append(messages, message)) = Append(Contents(messages), Plain(message))
<1> DEFINE n == Len(messages)
           a == Append(messages, message)
           c == Contents(messages)
<1>1. n \in Nat /\ a \in Seq(Queued) /\ Len(a) = n + 1 /\ a[n + 1] = message
      /\ \A i \in 1..n : a[i] = messages[i]
  OBVIOUS
<1>2. c \in Seq(Plains) /\ Len(c) = n /\ \A i \in 1..n : c[i] = Plain(messages[i])
  BY ContentsProperties
<1>3. Contents(a) \in Seq(Plains) /\ Len(Contents(a)) = n + 1
      /\ \A i \in 1..(n + 1) : Contents(a)[i] = Plain(a[i])
  BY <1>1, ContentsProperties
<1>4. Plain(message) \in Plains
  BY DEF Plain, Plains, Queued
<1> HIDE DEF a, c, n
<1>5. /\ Append(c, Plain(message)) \in Seq(Plains)
      /\ Len(Append(c, Plain(message))) = n + 1
      /\ \A i \in 1..n : Append(c, Plain(message))[i] = c[i]
      /\ Append(c, Plain(message))[n + 1] = Plain(message)
  BY <1>2, <1>4, AppendProperties
<1>6. \A i \in 1..(n + 1) : i \in 1..n \/ i = n + 1
  BY <1>1
<1>7. \A i \in 1..(n + 1) : Contents(a)[i] = Append(c, Plain(message))[i]
  BY <1>1, <1>2, <1>3, <1>5, <1>6
<1> QED
  BY <1>3, <1>5, <1>7, SeqEqual DEF a, c

\* Every critical section maps to one operation of the abstract channel.
LEMMA RefinementStep == IInv /\ IInv' /\ [Next]_vars => [Channel!Operation]_(Channel!channel)
<1> SUFFICES ASSUME IInv, IInv', [Next]_vars
             PROVE  [Channel!Operation]_(Channel!channel)
  OBVIOUS
<1> DEFINE chan == [i \in DOMAIN queue |-> [kind |-> queue[i].kind, size |-> queue[i].size]]
<1>1. chan = Contents(queue) /\ chan' = Contents(queue')
  BY DEF Contents, Plain
<1>2. /\ queue \in Seq(Queued) /\ queue' \in Seq(Queued)
      /\ bytes \in Nat /\ bytes' \in Nat /\ bytes <= Limit /\ bytes' <= Limit /\ Limit \in Nat
  <2>1. bytes <= peak /\ peak <= Limit /\ bytes' <= peak' /\ peak' <= Limit
    BY DEF IInv, WithinBudget
  <2> QED
    BY <2>1, LimitAssumption DEF IInv, TypeOK
<1> HIDE DEF chan
<1>3. CASE SendEnqueues
  <2> DEFINE message == [kind |-> outgoing.kind, size |-> outgoing.size,
                         bytes |-> Charge(outgoing.size),
                         id |-> accepted + 1, base |-> admitted]
  <2>1. /\ outgoing.kind \in {"batch", "error"} /\ outgoing.size \in Nat
        /\ accepted \in Nat /\ admitted \in Nat /\ Charge(outgoing.size) = outgoing.size
    BY <1>3, ChargeIsSize DEF SendEnqueues, IInv, TypeOK, Phases, Batches, Failure
  <2>2. message \in Queued /\ Plain(message) = Plain(outgoing)
    BY <2>1 DEF Queued, Plain
  <2>3. queue' = Append(queue, message)
    BY <1>3 DEF SendEnqueues, Pushed
  <2> HIDE DEF message
  <2>4. chan' = Append(chan, Plain(outgoing))
    BY <1>1, <1>2, <2>2, <2>3, ContentsOfAppend
  <2>5. Plain(outgoing) \in Batches \cup {Failure}
    <3>1. outgoing \in Batches \cup {Failure}
      BY <1>3 DEF SendEnqueues, IInv, Phases
    <3>2. Plain(outgoing) = outgoing
      BY <3>1 DEF Plain, Batches, Failure
    <3> QED
      BY <3>1, <3>2
  <2>6. Plain(outgoing).size = outgoing.size
    BY DEF Plain
  <2>7. outgoing.size <= Limit - bytes /\ bytes' = bytes + outgoing.size
    BY <1>3, <2>1 DEF SendEnqueues, Admissible
  <2>8. bytes + outgoing.size <= Limit
    BY <1>2, <2>1, <2>7
  <2>9. ~Closed /\ ~Closed' /\ senderAlive /\ senderAlive'
    BY <1>3 DEF SendEnqueues, Closed, IInv, Phases
  <2>10. Len(chan) < (IF Capacity = 0 THEN 1 ELSE Capacity)
    <3>1. Len(chan) = Len(queue) /\ (queue = <<>> => Len(chan) = 0)
      BY <1>1, <1>2, ContentsProperties
    <3> QED
      BY <1>3, <3>1 DEF SendEnqueues, Admissible, CountAvailable
  <2> PICK sent \in Batches \cup {Failure} : sent = Plain(outgoing)
    BY <2>5
  <2>11. Channel!Accept(sent)
    BY <2>4, <2>6, <2>7, <2>8, <2>9, <2>10 DEF Channel!Accept, Channel!Room, chan
  <2> QED
    BY <2>11 DEF Channel!Operation
<1>4. CASE RecvMessage
  <2>1. queue # <<>> /\ queue' = Tail(queue) /\ bytes' = bytes
        /\ ~Closed /\ (Closed' <=> Closed) /\ senderAlive' = senderAlive
    BY <1>4 DEF RecvMessage, MayRecv, Closed, IInv, Phases
  <2>2. chan' = Tail(chan) /\ chan # <<>>
    BY <1>1, <1>2, <2>1, ContentsOfTail, ContentsProperties
  <2> QED
    BY <2>1, <2>2 DEF Channel!Operation, Channel!Deliver, chan
<1>5. ASSUME NEW size \in BatchSizes, TransformGrows(size)
      PROVE  Channel!Operation
  <2>1. /\ queue' = queue /\ (Closed' <=> Closed) /\ senderAlive' = senderAlive
        /\ size \in Nat /\ size > lease.retained /\ bytes' = bytes + (size - lease.retained)
    BY <1>5, SizesAssumption, ChargeIsSize DEF TransformGrows, Grown, Closed
  <2>2. bytes' \in bytes..Limit /\ bytes' \in 0..Limit
    BY <1>2, <2>1, Shares
  <2> QED
    BY <2>1, <2>2 DEF Channel!Operation, Channel!Grow
<1>6. CASE DropLease \/ ReceiverDropsQueued \/ CancelDropsQueued
  <2>1. queue' = queue /\ (Closed' <=> Closed) /\ senderAlive' = senderAlive
    BY <1>6 DEF DropLease, ReceiverDropsQueued, CancelDropsQueued, Closed, sender
  <2>2. bytes' <= bytes
    <3>1. CASE DropLease
      BY <1>2, <3>1, Shares DEF DropLease, Release
    <3>2. CASE ReceiverDropsQueued
      <4>1. dropping \in Seq(Queued) /\ dropping # <<>> /\ Linked(dropping)
            /\ ReleaseMessage(Head(dropping))
        BY <3>2 DEF ReceiverDropsQueued, IInv, TypeOK, Links
      <4>2. Span(dropping) <= bytes
        BY Shares
      <4> QED
        BY <4>1, <4>2, ReleaseStep
    <3>3. CASE CancelDropsQueued
      <4>1. taken \in Seq(Queued) /\ taken # <<>> /\ Linked(taken)
            /\ ReleaseMessage(Head(taken))
        BY <3>3 DEF CancelDropsQueued, IInv, TypeOK, Links
      <4>2. Span(taken) <= bytes
        BY Shares
      <4> QED
        BY <4>1, <4>2, ReleaseStep
    <3> QED
      BY <1>6, <3>1, <3>2, <3>3
  <2>3. bytes' \in 0..bytes /\ bytes' \in 0..Limit
    BY <1>2, <2>2
  <2> QED
    BY <2>1, <2>3 DEF Channel!Operation, Channel!Return
<1>7. CASE DropSender
  BY <1>7 DEF DropSender, Closed, Channel!Operation, Channel!HangUp
<1>8. CASE DropReceiver \/ Cancel
  <2>1. queue' = <<>> /\ Closed' /\ bytes' = bytes /\ senderAlive' = senderAlive
    BY <1>8 DEF DropReceiver, Cancel, Closed
  <2>2. chan' = <<>>
    BY <1>1, <1>2, <2>1, ContentsProperties
  <2> QED
    BY <2>1, <2>2 DEF Channel!Operation, Channel!Close, chan
<1>9. CASE UNCHANGED <<queue, bytes, cancelled, receiverAlive, senderAlive>>
  BY <1>9 DEF Channel!channel, Closed
<1> QED
  BY <1>3, <1>4, <1>5, <1>6, <1>7, <1>8, <1>9
     DEF Next, SenderStep, ReceiverStep, SendRejects, SendBegins, SendRefused, SendBlocks,
         HandoffBlocks, HandoffEnds, RecvCancelled, RecvEnd, RecvBlocks, TransformFails,
         TransformFits, TransformRefused, SpuriousWakeup, vars, state

\* The channel with its lock, condition variable and deferred reservations is
\* an implementation of the abstract one.
THEOREM Refinement == Spec => ImplementsChannel
<1>1. Init => Channel!Init
  BY DEF Init, Channel!Init, Closed
<1>2. ASSUME IInv, IInv', [Next]_vars
      PROVE  [Channel!Next]_<<Channel!bounds, Channel!channel>>
  <2>1. [Channel!Operation]_(Channel!channel)
    BY <1>2, RefinementStep
  <2>2. UNCHANGED Channel!bounds
    BY DEF Channel!bounds
  <2> QED
    BY <2>1, <2>2 DEF Channel!Next
<1> QED
  BY <1>1, <1>2, Invariance, PTL DEF Spec, ImplementsChannel, Channel!Spec

-----------------------------------------------------------------------------
(* The token that wakes the transports up, for any number of runs that     *)
(* share it and any number of threads that cancel it.                      *)

\* Before the flag is set, every registered run that is still open is in the
\* registry: the second look at the flag is needed only by the later ones.
Registered ==
    \A r \in Runs :
        ~flag /\ runPc[r] \in {"pushed", "running"} /\ r \notin closed => r \in registry

TokenIInv == TokenTypeOK /\ Registered /\ NoRunMissed

LEMMA RunPreserves ==
    ASSUME TokenIInv, NEW r \in Runs, RunStep(r) \/ Finish(r)
    PROVE  TokenIInv'
<1> USE DEF TokenIInv, TokenTypeOK, Registered, NoRunMissed, MoveRun, flagAndRegistry, cancelVars
<1>1. CASE Refuse(r)
  BY <1>1 DEF Refuse
<1>2. CASE Create(r)
  BY <1>2 DEF Create
<1>3. CASE Push(r)
  BY <1>3 DEF Push, Retained, Live
<1>4. CASE Check(r)
  BY <1>4 DEF Check
<1>5. CASE Finish(r)
  BY <1>5 DEF Finish
<1> QED
  BY <1>1, <1>2, <1>3, <1>4, <1>5 DEF RunStep

LEMMA CancelPreserves ==
    ASSUME TokenIInv, NEW c \in Cancellers, SetFlag(c) \/ CancelGoesOn(c)
    PROVE  TokenIInv'
<1> USE DEF TokenIInv, TokenTypeOK, Registered, NoRunMissed, MoveCancel, flagAndRegistry
<1>1. CASE SetFlag(c)
  BY <1>1 DEF SetFlag
<1>2. CASE Drain(c)
  BY <1>2 DEF Drain, Retained, Live
<1>3. CASE Visit(c)
  BY <1>3 DEF Visit
<1>4. CASE Return(c)
  BY <1>4 DEF Return
<1> QED
  BY <1>1, <1>2, <1>3, <1>4 DEF CancelGoesOn

LEMMA TokenInvariance == TokenSpec => []TokenIInv
<1>1. TokenInit => TokenIInv
  BY DEF TokenInit, TokenIInv, TokenTypeOK, Registered, NoRunMissed
<1>2. TokenIInv /\ [TokenNext]_tokenVars => TokenIInv'
  <2>1. TokenIInv /\ UNCHANGED tokenVars => TokenIInv'
    BY DEF tokenVars, TokenIInv, TokenTypeOK, Registered, NoRunMissed
  <2> QED
    BY <2>1, RunPreserves, CancelPreserves DEF TokenNext
<1> QED
  BY <1>1, <1>2, PTL DEF TokenSpec

\* However registrations and cancellations interleave, no live run of a
\* cancelled token is forgotten.
THEOREM CancellationReaches == TokenSpec => []NoRunMissed
<1>1. TokenIInv => NoRunMissed
  BY DEF TokenIInv
<1> QED
  BY <1>1, TokenInvariance, PTL

\* A long-lived token does not collect the runs that ended: whatever
\* registration adds an entry keeps only live ones beside it.
THEOREM RegistrationPrunes == TokenSpec => RegistryPruned
<1>1. TokenIInv /\ [TokenNext]_tokenVars =>
        [\A r \in registry' \ registry : \A other \in registry' : Live(other)']_tokenVars
  <2> SUFFICES ASSUME TokenIInv, TokenNext, NEW r \in registry' \ registry, NEW other \in registry'
               PROVE  Live(other)'
    BY DEF tokenVars
  <2>1. PICK s \in Runs : Push(s)
    BY DEF TokenNext, RunStep, Refuse, Create, Check, Finish, CancelGoesOn, SetFlag, Drain,
           Visit, Return, tokenVars, flagAndRegistry
  <2>2. other = s \/ (other \in registry /\ Live(other))
    BY <2>1 DEF Push, Retained
  <2>3. runPc' = [runPc EXCEPT ![s] = "pushed"] /\ visit' = visit /\ other \in Runs
    BY <2>1, <2>2 DEF Push, MoveRun, cancelVars, TokenIInv, TokenTypeOK
  <2> QED
    BY <2>2, <2>3 DEF Live, TokenIInv, TokenTypeOK
<1> QED
  BY <1>1, TokenInvariance, PTL DEF TokenSpec, RegistryPruned
=============================================================================
