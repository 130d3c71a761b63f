------------------------ MODULE ObjectTransfers_proofs ------------------------
(***************************************************************************)
(* Proofs about the two transfers of a remote run, for every object, file, *)
(* size of a range or a part, any number of parts in flight and any number *)
(* of replacements: the file of a download that succeeds is one object, an *)
(* upload puts the whole file or nothing, and so they do one after the     *)
(* other, as in ObjectTransfers.                                           *)
(***************************************************************************)
EXTENDS ObjectTransfers, FiniteSetTheorems, TLAPS

-----------------------------------------------------------------------------
(* The download *)

Objects == [id : Nat, size : Nat]

\* Types of what the download works with.
DownloadTypeOK ==
    /\ current \in Objects /\ captured \in Objects /\ answer \in Objects
    /\ offset \in Nat /\ received \in Nat
    /\ file \in Seq(Nat \X Nat)
    /\ pc \in {"create", "head", "range", "body", "returned"}

\* How much is in the file at each phase, and that a body belongs to the object
\* that was captured.
DownloadProgress ==
    /\ pc \in {"create", "head"} =>
          offset = 0 /\ file = <<>>
    /\ pc = "range" => Len(file) = offset /\ offset <= captured.size
    /\ pc = "body" =>
          /\ offset < captured.size /\ answer.id = captured.id
          /\ Len(file) = offset + received
          /\ received <= RangeLength
    /\ pc # "returned" => result = "None"

DownloadInv == DownloadTypeOK /\ DownloadProgress /\ SnapshotIsWhole

-----------------------------------------------------------------------------
(* The range that is asked for. *)

\* The next range ends within the object, and is never empty.
LEMMA RangeWithinObject ==
    ASSUME DownloadTypeOK, offset < captured.size
    PROVE  /\ RangeEnd \in Nat /\ RangeLength \in Nat
           /\ offset < RangeEnd /\ RangeEnd <= captured.size
           /\ RangeEnd = offset + RangeLength
<1>1. offset \in Nat /\ captured.size \in Nat /\ RangeUnits \in Nat /\ RangeUnits > 0
  BY RangeAssumption DEF DownloadTypeOK, Objects
<1> QED
  BY <1>1 DEF RangeEnd, RangeLength

\* The first units of an object, and the units that follow the first n.
Beginning(s, source) == s \in Seq(Nat \X Nat) /\ s = [k \in 1..Len(s) |-> Unit(source, k)]
Following(source, n, units) == [k \in 1..units |-> Unit(source, n + k)]

\* Appending the units that follow keeps the file a beginning of the object.
LEMMA UnitsAppended ==
    ASSUME NEW source \in Objects, NEW units \in Nat, NEW s, Beginning(s, source)
    PROVE  /\ Beginning(s \o Following(source, Len(s), units), source)
           /\ Len(s \o Following(source, Len(s), units)) = Len(s) + units
<1> DEFINE t == s \o Following(source, Len(s), units)
<1> DEFINE new == [k \in 1..units |-> Unit(source, Len(s) + k)]
<1>1. Len(s) \in Nat /\ source.id \in Nat /\ s \in Seq(Nat \X Nat)
  BY DEF Objects, Beginning
<1>2. new \in Seq(Nat \X Nat) /\ Len(new) = units
  BY <1>1 DEF Unit
<1>3. t = s \o new /\ t \in Seq(Nat \X Nat) /\ Len(t) = Len(s) + units
  BY <1>1, <1>2 DEF Following
<1> HIDE DEF t
<1>4. ASSUME NEW k \in 1..Len(t)
      PROVE  t[k] = Unit(source, k)
  <2>1. CASE k <= Len(s)
    <3>1. t[k] = s[k]
      BY <1>1, <1>2, <1>3, <2>1
    <3> QED
      BY <1>1, <2>1, <3>1 DEF Beginning
  <2>2. CASE k > Len(s)
    <3>1. t[k] = new[k - Len(s)] /\ k - Len(s) \in 1..units
      BY <1>1, <1>2, <1>3, <2>2
    <3>2. Len(s) + (k - Len(s)) = k
      BY <1>1
    <3> QED
      BY <3>1, <3>2
  <2> QED
    BY <1>1, <2>1, <2>2
<1>5. t = [k \in 1..Len(t) |-> t[k]]
  BY <1>3
<1> HIDE DEF new
<1>6. t = [k \in 1..Len(t) |-> Unit(source, k)]
  BY <1>4, <1>5, Zenon
<1> QED
  BY <1>3, <1>6 DEF Beginning, t

-----------------------------------------------------------------------------
(* The inductive invariant. *)

\* A download begins with an empty file.
LEMMA DownloadInitial == Init => DownloadInv
<1> SUFFICES ASSUME Init PROVE DownloadInv
  OBVIOUS
<1>1. current \in Objects /\ NoObject \in Objects
  BY SizesAssumption DEF Init, Objects, NoObject
<1>2. <<>> \in Seq(Nat \X Nat) /\ Len(<<>>) = 0
  OBVIOUS
<1>3. <<>> = [k \in 1..0 |-> Unit(NoObject, k)]
  OBVIOUS
<1> QED
  BY <1>1, <1>2, <1>3
  DEF Init, DownloadInv, DownloadTypeOK, DownloadProgress, SnapshotIsWhole, NoObject

\* Every step keeps it: a body is accepted only for the captured identity, its
\* units go where the file ends, and a range counts when it is complete.
LEMMA DownloadStep == DownloadInv /\ [Next]_vars => DownloadInv'
<1> SUFFICES ASSUME DownloadInv, [Next]_vars PROVE DownloadInv'
  OBVIOUS
<1> USE DEF world, Returns, GoesOn
<1>1. CASE Replace
  <2>1. current' \in Objects
    BY <1>1, SizesAssumption DEF Replace, DownloadInv, DownloadTypeOK, Objects
  <2> QED
    BY <1>1, <2>1
    DEF Replace, DownloadInv, DownloadTypeOK, DownloadProgress, SnapshotIsWhole, RangeLength,
        RangeEnd
<1>2. CASE CreateFile
  BY <1>2 DEF CreateFile, DownloadInv, DownloadTypeOK, DownloadProgress, SnapshotIsWhole
<1>3. CASE Capture
  <2>1. CASE captured' = captured /\ pc' = "returned" /\ result' = "DownloadObject"
    BY <1>3, <2>1 DEF Capture, DownloadInv, DownloadTypeOK, DownloadProgress, SnapshotIsWhole
  <2>2. CASE /\ captured' = current
             /\ \/ pc' = "returned" /\ result' = "InvalidSnapshot"
                \/ pc' = "range" /\ result' = result
    <3>1. file' = <<>> /\ offset' = 0 /\ captured'.size \in Nat
      BY <1>3, <2>2 DEF Capture, DownloadInv, DownloadTypeOK, DownloadProgress, Objects
    <3>2. file' = [k \in 1..Len(file') |-> Unit(captured, k)']
      BY <3>1
    <3>3. SnapshotIsWhole'
      BY <1>3, <2>2, <3>1, <3>2
      DEF Capture, DownloadInv, DownloadProgress, SnapshotIsWhole, Unit
    <3> QED
      BY <1>3, <2>2, <3>1, <3>3 DEF Capture, DownloadInv, DownloadTypeOK, DownloadProgress
  <2> QED
    BY <1>3, <2>1, <2>2 DEF Capture
<1>4. CASE Request
  <2>1. UNCHANGED <<current, captured, offset, file>> /\ pc = "range" /\ offset < captured.size
    BY <1>4 DEF Request
  <2>2. \/ pc' = "returned" /\ result' # "Ok" /\ UNCHANGED <<answer, received>>
        \/ /\ pc' = "body" /\ result' = result /\ received' = 0
           /\ answer' \in Objects /\ answer'.id = captured.id
    BY <1>4 DEF Request, Answers, IdentityMatches, DownloadInv, DownloadTypeOK
  <2>3. RangeLength \in Nat
    BY <2>1, RangeWithinObject DEF DownloadInv
  <2>4. RangeLength' = RangeLength
    BY <2>1 DEF RangeLength, RangeEnd
  <2>5. DownloadTypeOK' /\ SnapshotIsWhole'
    BY <2>1, <2>2 DEF DownloadInv, DownloadTypeOK, DownloadProgress, SnapshotIsWhole
  <2>6. DownloadProgress'
    BY <2>1, <2>2, <2>3, <2>4 DEF DownloadInv, DownloadTypeOK, DownloadProgress, Objects
  <2> QED
    BY <2>5, <2>6 DEF DownloadInv
<1>5. CASE Receive
  <2>1. /\ UNCHANGED <<current, captured, offset, answer>> /\ pc = "body"
        /\ offset < captured.size /\ answer.id = captured.id
        /\ Len(file) = offset + received /\ result = "None"
    BY <1>5 DEF Receive, DownloadInv, DownloadProgress
  <2>2. CASE pc' = "returned" /\ result' # "Ok" /\ UNCHANGED <<received, file>>
    BY <2>1, <2>2 DEF DownloadInv, DownloadTypeOK, DownloadProgress, SnapshotIsWhole
  <2>3. ASSUME NEW units \in 1..(RangeUnits + 1),
               received + units <= RangeLength, received' = received + units,
               pc' = "body", result' = result,
               file' = file \o [k \in 1..units |-> Unit(answer, offset + received + k)]
        PROVE  DownloadInv'
    <3>1. units \in Nat /\ received' \in Nat /\ Len(file) \in Nat
      BY <2>3, RangeAssumption DEF DownloadInv, DownloadTypeOK
    <3>2. file' = file \o Following(captured, Len(file), units)
      BY <2>1, <2>3 DEF Unit, Following
    <3>3. Beginning(file', captured) /\ Len(file') = Len(file) + units
      <4>1. Beginning(file, captured) /\ captured \in Objects
        BY DEF DownloadInv, DownloadTypeOK, SnapshotIsWhole, Beginning
      <4> QED
        BY <3>1, <3>2, <4>1, UnitsAppended
    <3>4. Len(file') = offset + received' /\ Len(file') <= captured.size
      <4>1. offset \in Nat /\ received \in Nat /\ captured.size \in Nat
        BY DEF DownloadInv, DownloadTypeOK, Objects
      <4>2. /\ RangeLength \in Nat /\ RangeEnd \in Nat /\ RangeEnd <= captured.size
            /\ RangeEnd = offset + RangeLength
        BY <2>1, RangeWithinObject DEF DownloadInv
      <4>3. /\ Len(file') = Len(file) + units /\ Len(file) = offset + received
            /\ received' = received + units /\ received + units <= RangeLength
        BY <2>1, <2>3, <3>3
      <4> QED
        BY <3>1, <4>1, <4>2, <4>3
    <3>5. RangeLength' = RangeLength
      BY <2>1 DEF RangeLength, RangeEnd
    <3>6. DownloadTypeOK'
      BY <2>1, <2>3, <3>1, <3>3 DEF DownloadInv, DownloadTypeOK, Beginning
    <3>7. DownloadProgress'
      BY <2>1, <2>3, <3>4, <3>5 DEF DownloadProgress
    <3>8. SnapshotIsWhole'
      BY <2>1, <2>3, <3>3, <3>4 DEF SnapshotIsWhole, Unit, Beginning
    <3> QED
      BY <3>6, <3>7, <3>8 DEF DownloadInv
  <2> QED
    <3>1. RangeLength \in Nat /\ received \in Nat /\ RangeUnits \in Nat
      BY <2>1, RangeWithinObject, RangeAssumption DEF DownloadInv, DownloadTypeOK
    <3>2. PICK units \in 1..(RangeUnits + 1) :
            \/ pc' = "returned" /\ result' # "Ok" /\ UNCHANGED <<received, file>>
            \/ /\ ~(received + units > RangeLength)
               /\ received' = received + units /\ pc' = "body" /\ result' = result
               /\ file' = file \o [k \in 1..units |-> Unit(answer, offset + received + k)]
      BY <1>5 DEF Receive, BodyTooLong
    <3>3. received + units > RangeLength \/ received + units <= RangeLength
      BY <3>1
    <3> QED
      BY <2>2, <2>3, <3>2, <3>3
<1>6. CASE BodyFails
  BY <1>6 DEF BodyFails, DownloadInv, DownloadTypeOK, DownloadProgress, SnapshotIsWhole
<1>7. CASE BodyEnds
  <2>1. /\ UNCHANGED <<current, captured, answer, received, file>> /\ pc = "body"
        /\ offset < captured.size /\ Len(file) = offset + received /\ result = "None"
    BY <1>7 DEF BodyEnds, DownloadInv, DownloadProgress
  <2>2. \/ pc' = "returned" /\ result' # "Ok" /\ offset' = offset
        \/ /\ received = RangeLength /\ offset' = RangeEnd
           /\ pc' = "range" /\ result' = result
    BY <1>7 DEF BodyEnds, BodyComplete
  <2>3. /\ RangeEnd \in Nat /\ RangeEnd <= captured.size
        /\ RangeEnd = offset + RangeLength
    BY <2>1, RangeWithinObject DEF DownloadInv
  <2>4. DownloadTypeOK' /\ SnapshotIsWhole'
    BY <2>1, <2>2, <2>3 DEF DownloadInv, DownloadTypeOK, SnapshotIsWhole, Unit
  <2>5. DownloadProgress'
    BY <2>1, <2>2, <2>3 DEF DownloadProgress
  <2> QED
    BY <2>4, <2>5 DEF DownloadInv
<1>8. CASE Finish
  <2>1. Len(file) = offset /\ offset = captured.size
    BY <1>8 DEF Finish, DownloadInv, DownloadTypeOK, DownloadProgress, Objects
  <2> QED
    BY <1>8, <2>1
    DEF Finish, DownloadInv, DownloadTypeOK, DownloadProgress, SnapshotIsWhole, Unit
<1>9. CASE UNCHANGED vars
  BY <1>9
  DEF vars, DownloadInv, DownloadTypeOK, DownloadProgress, SnapshotIsWhole, RangeLength,
      RangeEnd, Unit
<1> QED
  BY <1>1, <1>2, <1>3, <1>4, <1>5, <1>6, <1>7, <1>8, <1>9 DEF Next

-----------------------------------------------------------------------------

\* A download that succeeds has received one object, whole, and it is the one
\* whose metadata it returns.
THEOREM DownloadIsSnapshot == Spec => []SnapshotIsWhole
<1>1. DownloadInv => SnapshotIsWhole
  BY DEF DownloadInv
<1> QED
  BY <1>1, DownloadInitial, DownloadStep, PTL DEF Spec

-----------------------------------------------------------------------------
(* The upload *)

Ranges == [from : Nat, to : Nat]

\* Types of what the transfer works with.
UploadTypeOK ==
    /\ size \in Nat /\ readTo \in 0..size
    /\ filled \in 0..PartUnits /\ filled <= readTo
    /\ sent \in Seq(Ranges)
    /\ parts \subseteq 1..Len(sent) /\ IsFiniteSet(parts)
    /\ stored \subseteq 1..Len(sent)
    /\ writer \in {"open", "admit", "fill", "drain", "complete", "abort", "returned"}
    /\ upload \in {"none", "open", "completed", "aborted"}

\* The parts handed over are the file up to what is in the buffer, none of them
\* is empty, and a short one is the last.
UploadChain ==
    /\ Consecutive(sent, Len(sent), readTo - filled)
    /\ Len(sent) <= readTo - filled
    /\ writer \in {"open", "admit", "fill"} =>
          \A i \in 1..Len(sent) : sent[i].to = sent[i].from + PartUnits
    /\ writer \in {"drain", "complete"} => readTo = size /\ filled = 0

\* While the transfer goes on every part handed over is in flight or stored;
\* afterwards none is in flight.
UploadPhases ==
    /\ writer = "open" => upload = "none" /\ sent = <<>> /\ failure = "None"
    /\ writer \in {"admit", "fill", "drain", "complete"} =>
          /\ upload = "open" /\ 1..Len(sent) \subseteq parts \cup stored
    /\ writer \in {"open", "complete", "abort", "returned"} => parts = {}
    /\ writer # "returned" => upload # "aborted"
    /\ upload = "completed" => stored = {} /\ writer \in {"abort", "returned"}
    /\ writer = "abort" => failure \notin {"None", "Ok"}
    /\ writer = "open" => stored = {}

UploadInv == UploadTypeOK /\ UploadChain /\ UploadPhases /\ ObjectIsFile /\ BuffersBounded /\ OutcomeIsTrue

-----------------------------------------------------------------------------
(* Counting the parts in flight. *)

\* Handing one part over, and taking the outcome of one.
LEMMA InFlight ==
    ASSUME NEW S, IsFiniteSet(S)
    PROVE  /\ Cardinality(S) \in Nat
           /\ \A x : IsFiniteSet(S \cup {x}) /\ Cardinality(S \cup {x}) <= Cardinality(S) + 1
           /\ \A x \in S : /\ IsFiniteSet(S \ {x})
                           /\ Cardinality(S \ {x}) = Cardinality(S) - 1
<1>1. Cardinality(S) \in Nat
  BY FS_CardinalityType
<1>2. ASSUME NEW x
      PROVE  IsFiniteSet(S \cup {x}) /\ Cardinality(S \cup {x}) <= Cardinality(S) + 1
  BY <1>1, FS_AddElement
<1>3. ASSUME NEW x \in S
      PROVE  IsFiniteSet(S \ {x}) /\ Cardinality(S \ {x}) = Cardinality(S) - 1
  BY FS_RemoveElement
<1> QED
  BY <1>1, <1>2, <1>3

-----------------------------------------------------------------------------
(* The inductive invariant. *)

\* Nothing is handed over before the upload is created.
LEMMA UploadInitial == UploadInit => UploadInv
<1> SUFFICES ASSUME UploadInit PROVE UploadInv
  OBVIOUS
<1>1. <<>> \in Seq(Ranges) /\ Len(<<>>) = 0
  OBVIOUS
<1>2. size \in Nat /\ PartUnits \in Nat /\ PartUnits > 0 /\ MaxParts \in Nat /\ MaxParts > 0
  BY FileAssumption, PartAssumption DEF UploadInit
<1>3. IsFiniteSet({}) /\ Cardinality({}) = 0
  BY FS_EmptySet
<1>4. UploadTypeOK
  BY <1>1, <1>2, <1>3 DEF UploadInit, UploadTypeOK
<1>5. UploadChain
  BY <1>1, <1>2 DEF UploadInit, UploadChain, Consecutive
<1>6. UploadPhases /\ ObjectIsFile /\ BuffersBounded /\ OutcomeIsTrue
  BY <1>1, <1>2, <1>3 DEF UploadInit, UploadPhases, ObjectIsFile, BuffersBounded, OutcomeIsTrue
<1> QED
  BY <1>4, <1>5, <1>6 DEF UploadInv

\* A failure lets go of the parts in flight.
LEMMA FailsStep ==
    ASSUME UploadInv, NEW value \in {"UploadObject", "OpenInput"}, Fails(value),
           writer \in {"admit", "fill", "drain", "complete"},
           stored' \subseteq 1..Len(sent), upload' = "open",
           UNCHANGED <<local, object>>
    PROVE  UploadInv'
<1>1. /\ writer' = "abort" /\ failure' = value /\ parts' = {} /\ UNCHANGED outcome
      /\ UNCHANGED <<size, readTo, filled, sent, object>>
  BY DEF Fails, PartsLeft, local
<1>2. IsFiniteSet({}) /\ Cardinality({}) = 0 /\ MaxParts \in Nat
  BY FS_EmptySet, PartAssumption
<1>3. UploadTypeOK'
  BY <1>1, <1>2 DEF UploadInv, UploadTypeOK
<1>4. UploadChain'
  BY <1>1 DEF UploadInv, UploadChain, Consecutive
<1>5. UploadPhases' /\ ObjectIsFile' /\ OutcomeIsTrue'
  BY <1>1 DEF UploadInv, UploadPhases, ObjectIsFile, OutcomeIsTrue
<1>6. BuffersBounded'
  BY <1>1, <1>2 DEF BuffersBounded
<1> QED
  BY <1>3, <1>4, <1>5, <1>6 DEF UploadInv

\* A part that arrived leaves room for another one.
LEMMA AwaitsStep ==
    ASSUME UploadInv, NEW to,
           \/ writer = "admit" /\ to = "fill" /\ AtLimit
           \/ writer = "drain" /\ to = "drain",
           Awaits(to), UNCHANGED <<local, upload, object>>
    PROVE  UploadInv'
<1>1. PICK i \in parts :
        \/ /\ stored' = stored \cup {i} /\ parts' = parts \ {i} /\ writer' = to
           /\ UNCHANGED <<failure, outcome>>
        \/ stored' \in {stored, stored \cup {i}} /\ Fails("UploadObject")
  BY DEF Awaits
<1>2. UNCHANGED <<size, readTo, filled, sent, upload, object>> /\ i \in 1..Len(sent)
  BY <1>1 DEF local, UploadInv, UploadTypeOK
<1>3. CASE stored' \in {stored, stored \cup {i}} /\ Fails("UploadObject")
  <2>1. stored' \subseteq 1..Len(sent) /\ upload' = "open"
    BY <1>2, <1>3 DEF UploadInv, UploadTypeOK, UploadPhases
  <2> QED
    BY <1>3, <2>1, FailsStep
<1>4. CASE stored' = stored \cup {i} /\ parts' = parts \ {i} /\ writer' = to
           /\ UNCHANGED <<failure, outcome>>
  <2>1. IsFiniteSet(parts') /\ Cardinality(parts') = Cardinality(parts) - 1
        /\ Cardinality(parts) \in Nat
    BY <1>4, InFlight DEF UploadInv, UploadTypeOK
  <2>2. UploadTypeOK'
    BY <1>2, <1>4, <2>1 DEF UploadInv, UploadTypeOK
  <2>3. UploadChain'
    BY <1>2, <1>4 DEF UploadInv, UploadChain, Consecutive
  <2>4. UploadPhases' /\ ObjectIsFile' /\ OutcomeIsTrue'
    BY <1>2, <1>4 DEF UploadInv, UploadPhases, ObjectIsFile, OutcomeIsTrue
  <2>5. BuffersBounded'
    <3>1. Cardinality(parts) <= MaxParts /\ MaxParts \in Nat
      BY PartAssumption, <2>1 DEF UploadInv, BuffersBounded
    <3> QED
      BY <1>4, <2>1, <3>1 DEF BuffersBounded
  <2> QED
    BY <2>2, <2>3, <2>4, <2>5 DEF UploadInv
<1> QED
  BY <1>1, <1>3, <1>4

\* The next part begins where the last one ended. It is full, unless the file
\* ended with it.
LEMMA PutPartStep == UploadInv /\ PutPart => UploadInv'
<1> SUFFICES ASSUME UploadInv, PutPart PROVE UploadInv'
  OBVIOUS
<1> DEFINE part == [from |-> readTo - filled, to |-> readTo]
<1>1. /\ writer = "fill" /\ (filled = PartUnits \/ readTo = size)
      /\ writer' = (IF filled < PartUnits THEN "drain" ELSE "admit") /\ filled' = 0
      /\ UNCHANGED <<size, readTo, stored, upload, object, failure, outcome>>
  BY DEF PutPart, PartRead, store
<1>2. /\ PartUnits \in Nat /\ PartUnits > 0 /\ MaxParts \in Nat
      /\ size \in Nat /\ readTo \in Nat /\ readTo <= size
      /\ filled \in Nat /\ filled <= PartUnits /\ filled <= readTo
      /\ sent \in Seq(Ranges) /\ Len(sent) \in Nat
  BY PartAssumption DEF UploadInv, UploadTypeOK
<1>3. /\ upload = "open" /\ 1..Len(sent) \subseteq parts \cup stored
      /\ parts \subseteq 1..Len(sent) /\ stored \subseteq 1..Len(sent)
      /\ IsFiniteSet(parts) /\ Cardinality(parts) \in Nat
      /\ Cardinality(parts) + 1 <= MaxParts
  BY <1>1, FS_CardinalityType DEF UploadInv, UploadTypeOK, UploadPhases, BuffersBounded
<1>4. ObjectIsFile' /\ OutcomeIsTrue'
  BY <1>1, <1>3 DEF ObjectIsFile, OutcomeIsTrue
<1>5. writer' = "drain" => readTo' = size' /\ filled' = 0
  BY <1>1, <1>2
<1>6. writer' \in {"admit", "drain"}
  BY <1>1
<1>7. CASE filled = 0
  <2>1. UNCHANGED <<sent, parts>>
    BY <1>7 DEF PutPart
  <2>2. UploadTypeOK'
    BY <1>1, <1>2, <1>3, <1>6, <2>1 DEF UploadTypeOK
  <2>3. UploadChain'
    BY <1>1, <1>2, <1>5, <1>6, <1>7, <2>1 DEF UploadInv, UploadChain, Consecutive
  <2>4. UploadPhases' /\ BuffersBounded'
    <3>1. UploadPhases'
      BY <1>1, <1>3, <1>6, <2>1 DEF UploadPhases
    <3>2. BuffersBounded'
      BY <1>2, <1>3, <1>6, <2>1 DEF BuffersBounded
    <3> QED
      BY <3>1, <3>2
  <2> QED
    BY <1>4, <2>2, <2>3, <2>4 DEF UploadInv
<1>8. CASE filled # 0
  <2>1. sent' = Append(sent, part) /\ parts' = parts \cup {Len(sent')}
    BY <1>8 DEF PutPart
  <2>2. part \in Ranges /\ part.from = readTo - filled /\ part.to = readTo
    BY <1>2 DEF Ranges
  <2>3. /\ sent' \in Seq(Ranges) /\ Len(sent') = Len(sent) + 1
        /\ sent'[Len(sent) + 1] = part
        /\ \A i \in 1..Len(sent) : sent'[i] = sent[i]
    BY <1>2, <2>1, <2>2
  <2>4. IsFiniteSet(parts') /\ Cardinality(parts') <= Cardinality(parts) + 1
        /\ Cardinality(parts') \in Nat
    BY <1>3, <2>1, InFlight
  <2>5. UploadTypeOK'
    <3>1. parts' \subseteq 1..Len(sent') /\ stored' \subseteq 1..Len(sent')
      <4>1. 1..Len(sent) \subseteq 1..Len(sent') /\ Len(sent') \in 1..Len(sent')
        BY <1>2, <2>3
      <4> QED
        BY <1>1, <1>3, <2>1, <4>1
    <3>2. /\ size' \in Nat /\ readTo' \in 0..size'
          /\ filled' \in 0..PartUnits /\ filled' <= readTo'
      BY <1>1, <1>2
    <3>3. upload' = "open"
      BY <1>1, <1>3
    <3> QED
      BY <1>6, <2>3, <2>4, <3>1, <3>2, <3>3 DEF UploadTypeOK
  <2>6. UploadPhases' /\ BuffersBounded'
    <3>1. 1..Len(sent') \subseteq parts' \cup stored'
      BY <1>1, <1>2, <1>3, <2>1, <2>3
    <3>2. UploadPhases'
      BY <1>1, <1>3, <1>6, <3>1 DEF UploadPhases
    <3>3. BuffersBounded'
      BY <1>2, <1>3, <1>6, <2>4 DEF BuffersBounded
    <3> QED
      BY <3>2, <3>3
  <2>7. /\ Consecutive(sent, Len(sent), readTo - filled)
        /\ Len(sent) <= readTo - filled
        /\ \A i \in 1..Len(sent) : sent[i].to = sent[i].from + PartUnits
    BY <1>1 DEF UploadInv, UploadChain
  <2>8. Consecutive(sent', Len(sent'), readTo' - filled')
    <3>1. sent'[1].from = 0 /\ sent'[Len(sent')].to = readTo' - filled'
      BY <1>1, <1>2, <2>2, <2>3, <2>7 DEF Consecutive
    <3>2. ASSUME NEW i \in 1..Len(sent')
          PROVE  sent'[i].from < sent'[i].to /\ sent'[i].to <= sent'[i].from + PartUnits
      <4>1. CASE i = Len(sent) + 1
        BY <1>2, <1>8, <2>2, <2>3, <4>1
      <4>2. CASE i \in 1..Len(sent)
        BY <2>3, <2>7, <4>2 DEF Consecutive
      <4> QED
        BY <1>2, <2>3, <4>1, <4>2
    <3>3. ASSUME NEW i \in 1..Len(sent'), i < Len(sent')
          PROVE  sent'[i].to = sent'[i].from + PartUnits /\ sent'[i + 1].from = sent'[i].to
      <4>1. i \in 1..Len(sent) /\ (i = Len(sent) \/ i < Len(sent))
        BY <1>2, <2>3, <3>3
      <4>2. sent'[i].to = sent'[i].from + PartUnits
        BY <2>3, <2>7, <4>1
      <4>3. CASE i = Len(sent)
        <5>1. sent[Len(sent)].to = readTo - filled
          BY <1>2, <2>7, <4>1, <4>3 DEF Consecutive
        <5> QED
          BY <2>2, <2>3, <4>1, <4>2, <4>3, <5>1
      <4>4. CASE i < Len(sent)
        <5>1. i + 1 \in 1..Len(sent) /\ sent[i + 1].from = sent[i].to
          BY <1>2, <2>7, <4>1, <4>4 DEF Consecutive
        <5> QED
          BY <2>3, <4>1, <4>2, <5>1
      <4> QED
        BY <4>1, <4>3, <4>4
    <3> QED
      BY <1>2, <2>3, <3>1, <3>2, <3>3 DEF Consecutive
  <2>9. Len(sent') <= readTo' - filled'
    BY <1>1, <1>2, <1>8, <2>3, <2>7
  <2>10. writer' = "admit" => \A i \in 1..Len(sent') : sent'[i].to = sent'[i].from + PartUnits
    <3>1. writer' = "admit" => part.to = part.from + PartUnits
      BY <1>1, <1>2, <2>2
    <3> QED
      BY <1>2, <2>3, <2>7, <3>1
  <2>11. UploadChain'
    BY <1>5, <1>6, <2>8, <2>9, <2>10 DEF UploadChain
  <2> QED
    BY <1>4, <2>5, <2>6, <2>11 DEF UploadInv
<1> QED
  BY <1>7, <1>8

\* When the upload is completed every part has arrived, and they are the file.
LEMMA CompleteStep == UploadInv /\ Complete => UploadInv'
<1> SUFFICES ASSUME UploadInv, Complete PROVE UploadInv'
  OBVIOUS
<1>1. /\ writer = "complete" /\ UNCHANGED <<size, readTo, filled, sent>>
      /\ upload = "open" /\ parts = {} /\ readTo = size /\ filled = 0
  BY DEF UploadInv, UploadPhases, UploadChain, Complete, local
<1>2. stored = 1..Len(sent)
  BY <1>1 DEF UploadInv, UploadTypeOK, UploadPhases
<1>3. Joined \/ (UNCHANGED <<stored, upload, object>> /\ Fails("UploadObject"))
  BY DEF Complete, store
<1>4. CASE UNCHANGED <<stored, upload, object>> /\ Fails("UploadObject")
  BY <1>1, <1>2, <1>4, FailsStep DEF local
<1>5. CASE Joined
  <2>1. /\ upload' = "completed" /\ stored' = {}
        /\ object' = [i \in 1..Len(sent) |-> sent[i]]
    BY <1>2, <1>5 DEF Joined
  <2>2. /\ writer' \in {"returned", "abort"} /\ parts' = {}
        /\ writer' = "abort" => failure' = "UploadObject"
    BY <1>1 DEF Complete, Reports, Fails, PartsLeft
  <2>3. IsFiniteSet({}) /\ Cardinality({}) = 0 /\ MaxParts \in Nat /\ MaxParts > 0
    BY FS_EmptySet, PartAssumption
  <2>4. UploadTypeOK'
    BY <1>1, <2>1, <2>2, <2>3 DEF UploadInv, UploadTypeOK
  <2>5. UploadChain'
    BY <1>1, <2>2 DEF UploadInv, UploadChain, Consecutive
  <2>6. UploadPhases' /\ BuffersBounded' /\ OutcomeIsTrue'
    <3>1. UploadPhases'
      BY <2>1, <2>2 DEF UploadPhases
    <3>2. BuffersBounded'
      BY <2>2, <2>3 DEF BuffersBounded
    <3>3. OutcomeIsTrue'
      BY <2>1 DEF OutcomeIsTrue
    <3> QED
      BY <3>1, <3>2, <3>3
  <2>7. ObjectIsFile'
    <3>1. size \in Nat /\ Len(sent) \in Nat /\ Len(sent) <= size
          /\ Consecutive(sent, Len(sent), size)
      BY <1>1 DEF UploadInv, UploadTypeOK, UploadChain
    <3>2. Len(sent) \in 0..size' /\ DOMAIN object' = 1..Len(sent) /\ size' = size
      BY <1>1, <2>1, <3>1
    <3>3. \A i \in 1..Len(sent) : object'[i] = sent[i]
      BY <2>1
    <3>4. Consecutive(object', Len(sent), size)
      BY <3>1, <3>3 DEF Consecutive
    <3> QED
      BY <3>2, <3>4 DEF ObjectIsFile
  <2> QED
    BY <2>4, <2>5, <2>6, <2>7 DEF UploadInv
<1> QED
  BY <1>3, <1>4, <1>5

\* Every step keeps the invariant.
LEMMA UploadStep == UploadInv /\ [UploadNext]_uploadVars => UploadInv'
<1> SUFFICES ASSUME UploadInv, [UploadNext]_uploadVars PROVE UploadInv'
  OBVIOUS
<1>1. IsFiniteSet({}) /\ Cardinality({}) = 0 /\ MaxParts \in Nat /\ MaxParts > 0
      /\ PartUnits \in Nat /\ PartUnits > 0
  BY FS_EmptySet, PartAssumption
<1>2. CASE Open
  <2>1. /\ writer = "open" /\ parts = {} /\ sent = <<>> /\ stored = {}
        /\ upload = "none" /\ failure = "None"
    BY <1>2 DEF Open, UploadInv, UploadPhases
  <2>2. /\ UNCHANGED <<size, readTo, filled, sent, parts, stored, object, failure>>
        /\ upload' \in {"none", "open"}
        /\ \/ writer' = "returned" /\ outcome' \in {"OpenInput", "UploadObject"}
           \/ writer' = "admit" /\ upload' = "open"
    BY <1>2, <2>1 DEF Open, Reports, local
  <2>3. UploadTypeOK'
    BY <2>2 DEF UploadInv, UploadTypeOK
  <2>4. UploadChain'
    BY <2>1, <2>2 DEF UploadInv, UploadChain, Consecutive
  <2>5. UploadPhases' /\ ObjectIsFile' /\ OutcomeIsTrue'
    BY <2>1, <2>2 DEF UploadPhases, ObjectIsFile, OutcomeIsTrue
  <2>6. BuffersBounded'
    BY <1>1, <2>1, <2>2 DEF BuffersBounded
  <2> QED
    BY <2>3, <2>4, <2>5, <2>6 DEF UploadInv
<1>3. CASE Admit
  <2>1. CASE AtLimit /\ Awaits("fill")
    BY <1>3, <2>1, AwaitsStep DEF Admit
  <2>2. CASE ~AtLimit /\ writer' = "fill" /\ UNCHANGED <<parts, stored, failure, outcome>>
    <3>1. /\ writer = "admit" /\ UNCHANGED <<size, readTo, filled, sent, upload, object>>
          /\ UNCHANGED <<parts, stored, failure, outcome>> /\ writer' = "fill"
      BY <1>3, <2>2 DEF Admit, local
    <3>2. UploadTypeOK'
      BY <3>1 DEF UploadInv, UploadTypeOK
    <3>3. UploadChain'
      BY <3>1 DEF UploadInv, UploadChain, Consecutive
    <3>4. UploadPhases' /\ ObjectIsFile' /\ OutcomeIsTrue'
      BY <3>1 DEF UploadInv, UploadPhases, ObjectIsFile, OutcomeIsTrue
    <3>5. BuffersBounded'
      <4>1. Cardinality(parts) \in Nat /\ Cardinality(parts) <= MaxParts
            /\ Cardinality(parts) # MaxParts
        BY <1>1, <2>2, <3>1, FS_CardinalityType
        DEF UploadInv, UploadTypeOK, BuffersBounded, AtLimit
      <4> QED
        BY <1>1, <3>1, <4>1 DEF BuffersBounded
    <3> QED
      BY <3>2, <3>3, <3>4, <3>5 DEF UploadInv
  <2> QED
    BY <1>3, <2>1, <2>2 DEF Admit
<1>4. CASE Read
  <2>1. PICK units \in 1..(size - readTo) :
          /\ filled + units <= PartUnits
          /\ filled' = filled + units /\ readTo' = readTo + units
    BY <1>4 DEF Read
  <2>2. /\ writer = "fill"
        /\ UNCHANGED <<size, sent, writer, parts, stored, upload, object, failure, outcome>>
    BY <1>4 DEF Read, store
  <2>3. /\ units \in Nat /\ units > 0 /\ readTo + units <= size
        /\ readTo \in Nat /\ filled \in Nat /\ filled <= readTo /\ size \in Nat
    BY <2>1 DEF UploadInv, UploadTypeOK
  <2>4. /\ readTo' - filled' = readTo - filled /\ readTo' \in 0..size'
        /\ filled' \in 0..PartUnits /\ filled' <= readTo'
    BY <1>1, <2>1, <2>2, <2>3
  <2>5. UploadTypeOK'
    BY <2>2, <2>4 DEF UploadInv, UploadTypeOK
  <2>6. UploadChain'
    BY <2>2, <2>4 DEF UploadInv, UploadChain, Consecutive
  <2>7. UploadPhases' /\ ObjectIsFile' /\ BuffersBounded' /\ OutcomeIsTrue'
    BY <2>2 DEF UploadInv, UploadPhases, ObjectIsFile, BuffersBounded, OutcomeIsTrue
  <2> QED
    BY <2>5, <2>6, <2>7 DEF UploadInv
<1>5. CASE ReadFails
  <2>1. writer = "fill" /\ Fails("OpenInput") /\ UNCHANGED <<local, stored, upload, object>>
    BY <1>5 DEF ReadFails, store
  <2>2. stored' \subseteq 1..Len(sent) /\ upload' = "open"
    BY <2>1 DEF UploadInv, UploadTypeOK, UploadPhases
  <2> QED
    BY <2>1, <2>2, FailsStep
<1>6. CASE PutPart
  BY <1>6, PutPartStep
<1>7. CASE Drain
  <2>1. CASE parts # {} /\ Awaits("drain")
    BY <1>7, <2>1, AwaitsStep DEF Drain
  <2>2. CASE parts = {} /\ writer' = "complete" /\ UNCHANGED <<parts, stored, failure, outcome>>
    <3>1. /\ writer = "drain" /\ UNCHANGED <<size, readTo, filled, sent, upload, object>>
          /\ UNCHANGED <<parts, stored, failure, outcome>> /\ writer' = "complete"
      BY <1>7, <2>2 DEF Drain, local
    <3>2. UploadTypeOK'
      BY <3>1 DEF UploadInv, UploadTypeOK
    <3>3. UploadChain'
      BY <3>1 DEF UploadInv, UploadChain, Consecutive
    <3>4. UploadPhases' /\ ObjectIsFile' /\ OutcomeIsTrue'
      BY <2>2, <3>1 DEF UploadInv, UploadPhases, ObjectIsFile, OutcomeIsTrue
    <3>5. BuffersBounded'
      BY <3>1 DEF UploadInv, BuffersBounded
    <3> QED
      BY <3>2, <3>3, <3>4, <3>5 DEF UploadInv
  <2> QED
    BY <1>7, <2>1, <2>2 DEF Drain
<1>8. CASE Complete
  BY <1>8, CompleteStep
<1>9. CASE Abort
  <2>1. /\ writer = "abort" /\ writer' = "returned" /\ failure \notin {"None", "Ok"}
        /\ UNCHANGED <<size, readTo, filled, sent, parts, object, failure>>
    BY <1>9 DEF Abort, Reports, local, UploadInv, UploadPhases
  <2>2. \/ upload = "open" /\ upload' = "aborted" /\ stored' = {}
           /\ outcome' \in {failure, "MultipartAbort"}
        \/ UNCHANGED <<upload, stored>> /\ outcome' = "MultipartAbort"
        \/ upload = "completed" /\ UNCHANGED <<upload, stored>> /\ outcome' = failure
    BY <1>9 DEF Abort, Reports
  <2>3. UploadTypeOK'
    BY <2>1, <2>2 DEF UploadInv, UploadTypeOK
  <2>4. UploadChain'
    BY <2>1 DEF UploadInv, UploadChain, Consecutive
  <2>5. UploadPhases' /\ OutcomeIsTrue'
    BY <2>1, <2>2 DEF UploadInv, UploadPhases, OutcomeIsTrue
  <2>6. ObjectIsFile' /\ BuffersBounded'
    BY <2>1, <2>2 DEF UploadInv, ObjectIsFile, BuffersBounded
  <2> QED
    BY <2>3, <2>4, <2>5, <2>6 DEF UploadInv
<1>10. CASE Arrives
  <2>1. PICK i \in parts \ stored : stored' = stored \cup {i}
    BY <1>10 DEF Arrives
  <2>2. UNCHANGED <<size, readTo, filled, sent, writer, parts, upload, object, failure, outcome>>
    BY <1>10 DEF Arrives, local
  <2>3. UploadTypeOK'
    BY <2>1, <2>2 DEF UploadInv, UploadTypeOK
  <2>4. UploadChain'
    BY <2>2 DEF UploadInv, UploadChain, Consecutive
  <2>5. UploadPhases' /\ ObjectIsFile' /\ BuffersBounded' /\ OutcomeIsTrue'
    BY <2>1, <2>2
    DEF UploadInv, UploadTypeOK, UploadPhases, ObjectIsFile, BuffersBounded, OutcomeIsTrue
  <2> QED
    BY <2>3, <2>4, <2>5 DEF UploadInv
<1>11. CASE UNCHANGED uploadVars
  BY <1>11
  DEF uploadVars, local, store, UploadInv, UploadTypeOK, UploadChain, Consecutive,
      UploadPhases, ObjectIsFile,
      BuffersBounded, OutcomeIsTrue
<1> QED
  BY <1>2, <1>3, <1>4, <1>5, <1>6, <1>7, <1>8, <1>9, <1>10, <1>11 DEF UploadNext

\* write_multipart: an object appears only as the whole file, whatever the reads
\* delivered and in whatever order the parts arrived; the buffers are bounded
\* whatever the file's size; and what is returned tells what is left in the store.
THEOREM UploadIsWhole == UploadSpec => [](ResultIsTrue /\ BuffersBounded)
<1>1. UploadInv => ResultIsTrue /\ BuffersBounded
  BY DEF UploadInv, ResultIsTrue
<1> QED
  BY UploadInitial, UploadStep, <1>1, PTL DEF UploadSpec

-----------------------------------------------------------------------------
(* One after the other *)

\* run_bounded_pipeline_s3: neither transfer disturbs what the other promises, and
\* the input may go on being replaced during the upload.
THEOREM TransfersAreWhole ==
    TransfersSpec => [](SnapshotIsWhole /\ ResultIsTrue /\ BuffersBounded)
<1> DEFINE Both == DownloadInv /\ UploadInv
<1>1. TransfersInit => Both
  BY DownloadInitial, UploadInitial DEF TransfersInit
<1>2. Both /\ [Downloading \/ Uploading]_<<vars, uploadVars>> => Both'
  <2> SUFFICES ASSUME Both, [Downloading \/ Uploading]_<<vars, uploadVars>>
               PROVE  Both'
    OBVIOUS
  <2>1. [Next]_vars /\ [UploadNext]_uploadVars
    BY DEF Downloading, Uploading
  <2> QED
    BY <2>1, DownloadStep, UploadStep
<1>3. Both => SnapshotIsWhole /\ ResultIsTrue /\ BuffersBounded
  BY DEF DownloadInv, UploadInv, ResultIsTrue
<1> QED
  BY <1>1, <1>2, <1>3, PTL DEF TransfersSpec
=============================================================================
