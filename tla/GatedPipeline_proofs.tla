------------------------ MODULE GatedPipeline_proofs ------------------------
(***************************************************************************)
(* Proofs about a contract pipeline, from its declarations to its report.  *)
(***************************************************************************)
EXTENDS GatedPipeline, SequenceTheorems, TLAPS

-----------------------------------------------------------------------------
(* The run *)

(* A batch is in hand: received, and not yet with the sink. *)
Working == {"stepping", "querying", "delivering"}

(* build stops at the first declaration that cannot be mapped. *)
Mapping ==
    /\ phase = "preparing" => \A d \in 0..N : d < step => d \in mappable
    /\ phase \notin {"preparing", "failed"} => mappable = 0..N
    /\ phase \in {"preparing", "built"} => received = 0

(* Where the run is in its input. *)
Position ==
    /\ phase \notin Working \union {"failed"} => received = Len(delivered)
    /\ phase \in Working => received = Len(delivered) + 1 /\ batch.origin = received

(* What has been validated, and which batch the query will read. *)
Checks ==
    /\ phase = "stepping" => step \in 1..Sink /\ Validates(step - 1, batch)
    /\ phase = "querying" => step \in 1..N /\ table = <<batch>>
    /\ phase = "delivering" => Validates(N, batch)

(* The counters before, during and after the sink's call. *)
Counters ==
    /\ taken.batches = Len(delivered)
    /\ phase # "delivered" => report = taken
    /\ phase = "delivering" => next = [batches |-> report.batches + 1,
                                       rows |-> report.rows + batch.rows]
    /\ phase = "delivered" => next = taken

InOrder == \A i \in DOMAIN delivered :
              delivered[i].origin = i /\ Validates(N, delivered[i])

IInv == /\ TypeOK /\ Mapping /\ Position /\ Checks /\ Counters /\ InOrder
        /\ ErrorLocatesTheFailure

-----------------------------------------------------------------------------

\* checked_add is exact where it does not overflow.
LEMMA NoWrap ==
    ASSUME NEW n \in Nat, NEW x \in Nat, x <= n
    PROVE  x % (n + 1) = x
OBVIOUS

\* A failure with a batch in hand, or an item just received, names that item.
LEMMA FailureIsLocated ==
    ASSUME IInv, NEW stage, NEW failure, Fail(stage, report.batches, failure),
           UNCHANGED <<mappable, delivered>>, mappable = 0..N,
           received' = Len(delivered) + 1, report = taken
    PROVE  ErrorLocatesTheFailure'
BY DEF IInv, TypeOK, Counts, Counters, Fail, ErrorLocatesTheFailure

\* The shared context has one batch, or none.
LEMMA TableOfOne ==
    ASSUME NEW b \in Batch
    PROVE  /\ <<b>> \in Seq(Batch) /\ Len(<<b>>) = 1
           /\ <<>> \in Seq(Batch) /\ Len(<<>>) = 0
<1>1. <<b>> \in Seq(Batch) /\ Len(<<b>>) = 1
  OBVIOUS
<1>2. <<>> \in Seq(Batch) /\ Len(<<>>) = 0
  OBVIOUS
<1> QED
  BY <1>1, <1>2

\* The state build starts in.
LEMMA InitialStep == Init => IInv
<1> SUFFICES ASSUME Init PROVE IInv
  OBVIOUS
<1>1. NoBatch \in Batch /\ Zero \in Counts
  BY RowsAssumption DEF NoBatch, Batch, Zero, Counts
<1>2. NoError \in [stage : SourceFactory..Sink, index : Nat \union {-1}, failure :
                     {"none", "Mapping", "Validation", "Callback", "CountOverflow"}]
  BY NAssumption DEF NoError, SourceFactory, Sink
<1>3. table \in Seq(Batch) /\ Len(table) <= 1
  <2>1. CASE table = <<>>
    BY <1>1, <2>1, TableOfOne
  <2>2. CASE table = <<NoBatch>>
    BY <1>1, <2>2, TableOfOne
  <2> QED
    BY <2>1, <2>2 DEF Init
<1>4. step \in Source..Sink
  BY NAssumption DEF Init, Source, Sink
<1>5. TypeOK
  BY <1>1, <1>2, <1>3, <1>4 DEF Init, TypeOK, Phases
<1>6. Mapping /\ Position /\ Checks /\ Counters
  BY DEF Init, Mapping, Position, Checks, Counters, Working, Source, Zero
<1>7. InOrder /\ ErrorLocatesTheFailure
  BY DEF Init, InOrder, ErrorLocatesTheFailure
<1> QED
  BY <1>5, <1>6, <1>7 DEF IInv

-----------------------------------------------------------------------------
(* The types, one action at a time *)

\* What a failure writes into error.
LEMMA FailureIsTyped ==
    ASSUME NEW stage \in SourceFactory..Sink, NEW index \in Nat \union {-1},
           NEW failure \in {"Mapping", "Validation", "Callback", "CountOverflow"},
           Fail(stage, index, failure)
    PROVE  /\ phase' \in Phases
           /\ error' \in [stage : SourceFactory..Sink, index : Nat \union {-1}, failure :
                          {"none", "Mapping", "Validation", "Callback", "CountOverflow"}]
BY DEF Fail, Phases

\* A result that a stage's validator has looked at.
LEMMA CheckedIsTyped ==
    ASSUME TypeOK, NEW k \in 0..N, NEW b \in Batch, Checked(k, b)
    PROVE  /\ phase' \in Phases /\ batch' \in Batch /\ step' \in Source..Sink
           /\ error' \in [stage : SourceFactory..Sink, index : Nat \union {-1}, failure :
                          {"none", "Mapping", "Validation", "Callback", "CountOverflow"}]
<1>1. CASE Validates(k, b)
  BY <1>1, NAssumption DEF Checked, TypeOK, Phases, Source, Sink
<1>2. CASE ~Validates(k, b)
  <2>1. Fail(k, report.batches, "Validation") /\ step' = step /\ batch' = b
    BY <1>2 DEF Checked
  <2>2. k \in SourceFactory..Sink /\ report.batches \in Nat \union {-1}
    BY NAssumption DEF TypeOK, Counts, SourceFactory, Sink
  <2> QED
    BY <2>1, <2>2, FailureIsTyped DEF TypeOK
<1> QED
  BY <1>1, <1>2

\* The state keeps its types.
LEMMA TypeStep ==
    ASSUME IInv, Next
    PROVE  TypeOK'
<1> USE DEF IInv
<1>1. CASE Prepare
  <2>1. step \in SourceFactory..Sink /\ step + 1 \in Source..(Sink + 1)
    BY NAssumption DEF TypeOK, SourceFactory, Source, Sink
  <2>2. CASE Fail(step, -1, "Mapping") /\ step' = step
    BY <1>1, <2>1, <2>2, FailureIsTyped DEF Prepare, TypeOK
  <2>3. CASE phase' \in {"built", "preparing"} /\ step' \in Source..Sink /\ error' = error
    BY <1>1, <2>3 DEF Prepare, TypeOK, Phases
  <2> QED
    BY <1>1, <2>1, <2>2, <2>3, NAssumption DEF Prepare, TypeOK, Source, Sink
<1>2. CASE Open
  <2>1. SourceFactory \in SourceFactory..Sink
    BY NAssumption DEF SourceFactory, Sink
  <2> QED
    BY <1>2, <2>1, FailureIsTyped DEF Open, TypeOK, Phases
<1>3. CASE Finish
  BY <1>3 DEF Finish, TypeOK, Phases
<1>4. CASE Receive
  <2>1. Source \in SourceFactory..Sink /\ Source \in 0..N /\ report.batches \in Nat \union {-1}
    BY NAssumption DEF TypeOK, Counts, SourceFactory, Sink, Source
  <2>2. received' \in Nat
    BY <1>4 DEF Receive, TypeOK
  <2>3. CASE Fail(Source, report.batches, "Callback") /\ UNCHANGED <<step, batch>>
    BY <1>4, <2>1, <2>2, <2>3, FailureIsTyped DEF Receive, TypeOK
  <2>4. ASSUME NEW b \in [origin : {received + 1}, rows : 0..MaxRows, fits : SUBSET (0..N)],
               Checked(Source, b)
        PROVE  TypeOK'
    <3>1. b \in Batch
      BY DEF TypeOK, Batch
    <3> QED
      BY <1>4, <2>1, <2>2, <2>4, <3>1, CheckedIsTyped DEF Receive, TypeOK
  <2> QED
    BY <1>4, <2>3, <2>4 DEF Receive
<1>5. CASE CallTransform
  <2>1. step \in SourceFactory..Sink /\ step \in 0..N /\ report.batches \in Nat \union {-1}
    BY <1>5, NAssumption DEF CallTransform, TypeOK, Counts, SourceFactory, Sink
  <2>2. CASE Fail(step, report.batches, "Callback") /\ UNCHANGED <<step, batch>>
    BY <1>5, <2>1, <2>2, FailureIsTyped DEF CallTransform, TypeOK
  <2>3. ASSUME NEW b \in [origin : {batch.origin}, rows : 0..MaxRows, fits : SUBSET (0..N)],
               Checked(step, b)
        PROVE  TypeOK'
    <3>1. b \in Batch
      BY DEF TypeOK, Batch
    <3> QED
      BY <1>5, <2>1, <2>3, <3>1, CheckedIsTyped DEF CallTransform, TypeOK
  <2> QED
    BY <1>5, <2>2, <2>3 DEF CallTransform
<1>6. CASE RegisterBatch
  <2>1. step \in SourceFactory..Sink /\ report.batches \in Nat \union {-1}
    BY NAssumption DEF TypeOK, Counts, SourceFactory, Source, Sink
  <2>2. table' \in {table, <<>>, <<batch>>}
    BY <1>6 DEF RegisterBatch
  <2>3. table' \in Seq(Batch) /\ Len(table') <= 1
    <3>1. batch \in Batch /\ table \in Seq(Batch) /\ Len(table) <= 1
      BY DEF TypeOK
    <3>2. CASE table' = <<>>
      BY <3>1, <3>2, TableOfOne
    <3>3. CASE table' = <<batch>>
      BY <3>1, <3>3, TableOfOne
    <3> QED
      BY <2>2, <3>1, <3>2, <3>3
  <2>4. CASE Fail(step, report.batches, "Callback")
    BY <1>6, <2>1, <2>3, <2>4, FailureIsTyped DEF RegisterBatch, TypeOK
  <2>5. CASE phase' = "querying" /\ error' = error
    BY <1>6, <2>3, <2>5 DEF RegisterBatch, TypeOK, Phases
  <2> QED
    BY <1>6, <2>4, <2>5 DEF RegisterBatch
<1>7. CASE RunQuery
  <2>1. step \in SourceFactory..Sink /\ report.batches \in Nat \union {-1}
    BY NAssumption DEF TypeOK, Counts, SourceFactory, Source, Sink
  <2>2. CASE Fail(step, report.batches, "Callback") /\ UNCHANGED <<step, batch>>
    BY <1>7, <2>1, <2>2, FailureIsTyped DEF RunQuery, TypeOK
  <2>3. ASSUME NEW b \in [origin : {table[1].origin}, rows : 0..MaxRows, fits : SUBSET (0..N)],
               Checked(step, b)
        PROVE  TypeOK'
    <3>1. step \in 1..N /\ table = <<batch>>
      BY <1>7 DEF RunQuery, Checks
    <3>2. b \in Batch
      BY <3>1 DEF TypeOK, Batch
    <3> QED
      BY <1>7, <2>3, <3>1, <3>2, CheckedIsTyped DEF RunQuery, TypeOK
  <2> QED
    BY <1>7, <2>2, <2>3 DEF RunQuery
<1>8. CASE CheckCounts
  <2>1. Sink \in SourceFactory..Sink /\ report.batches \in Nat \union {-1}
    BY NAssumption DEF TypeOK, Counts, SourceFactory, Sink
  <2>2. CASE Overflows
    BY <1>8, <2>1, <2>2, FailureIsTyped DEF CheckCounts, TypeOK
  <2>3. CASE ~Overflows
    <3>1. report.batches \in Nat /\ report.rows \in Nat /\ batch.rows \in Nat
      BY RowsAssumption DEF TypeOK, Counts, Batch
    <3>2. /\ (report.batches + 1) % (MaxCount + 1) \in Nat
          /\ (report.rows + batch.rows) % (MaxCount + 1) \in Nat
      BY <2>3, <3>1, NoWrap, CountAssumption DEF Overflows
    <3>3. next' \in Counts
      BY <1>8, <2>3, <3>2 DEF CheckCounts, Counts
    <3> QED
      BY <1>8, <2>3, <3>3 DEF CheckCounts, TypeOK, Phases
  <2> QED
    BY <2>2, <2>3
<1>9. CASE CallSink
  <2>1. Sink \in SourceFactory..Sink /\ report.batches \in Nat \union {-1}
    BY NAssumption DEF TypeOK, Counts, SourceFactory, Sink
  <2>2. CASE Fail(Sink, report.batches, "Callback") /\ UNCHANGED <<taken, delivered>>
    BY <1>9, <2>1, <2>2, FailureIsTyped DEF CallSink, TypeOK
  <2>3. CASE /\ phase' = "delivered"
             /\ delivered' = Append(delivered, batch)
             /\ taken' = [batches |-> taken.batches + 1, rows |-> taken.rows + batch.rows]
             /\ UNCHANGED error
    <3>1. taken' \in Counts
      <4>1. taken.batches \in Nat /\ taken.rows \in Nat
        BY DEF TypeOK, Counts
      <4>2. batch.rows \in Nat
        BY RowsAssumption DEF TypeOK, Batch
      <4>3. taken.batches + 1 \in Nat /\ taken.rows + batch.rows \in Nat
        BY <4>1, <4>2
      <4> QED
        BY <2>3, <4>3 DEF Counts
    <3>2. delivered' \in Seq(Batch)
      BY <2>3 DEF TypeOK
    <3> QED
      BY <1>9, <2>3, <3>1, <3>2 DEF CallSink, TypeOK, Phases
  <2> QED
    BY <1>9, <2>2, <2>3 DEF CallSink
<1>10. CASE Count
  BY <1>10 DEF Count, TypeOK, Phases
<1> QED
  BY <1>1, <1>2, <1>3, <1>4, <1>5, <1>6, <1>7, <1>8, <1>9, <1>10 DEF Next
-----------------------------------------------------------------------------
(* The rest of the invariant, one action at a time *)

(* All but the types and what was delivered. *)
Course == Mapping /\ Position /\ Checks /\ Counters /\ ErrorLocatesTheFailure

\* A stage's result: the batch keeps its item, and is validated or the run fails.
LEMMA CheckedStep ==
    ASSUME IInv, NEW k \in 0..N, NEW b \in Batch, Checked(k, b), mappable = 0..N,
           b.origin = received', received' = Len(delivered) + 1, report = taken,
           UNCHANGED <<mappable, report, taken, delivered>>
    PROVE  Course'
<1>1. CASE Validates(k, b)
  <2>1. phase' = "stepping" /\ step' = k + 1 /\ batch' = b /\ error' = error
    BY <1>1 DEF Checked
  <2>2. Checks'
    BY <1>1, <2>1, NAssumption DEF Checks, Validates, Sink
  <2>3. Mapping' /\ Position' /\ Counters' /\ ErrorLocatesTheFailure'
    BY <2>1 DEF IInv, Mapping, Position, Working, Counters, ErrorLocatesTheFailure
  <2> QED
    BY <2>2, <2>3 DEF Course
<1>2. CASE ~Validates(k, b)
  <2>1. Fail(k, report.batches, "Validation")
    BY <1>2 DEF Checked
  <2>2. ErrorLocatesTheFailure'
    BY <2>1, FailureIsLocated
  <2>3. Mapping' /\ Position' /\ Checks' /\ Counters'
    BY <2>1 DEF IInv, Fail, Mapping, Position, Working, Checks, Counters
  <2> QED
    BY <2>2, <2>3 DEF Course
<1> QED
  BY <1>1, <1>2

\* A failure with an item received and not delivered.
LEMMA FailStep ==
    ASSUME IInv, NEW stage, NEW failure, Fail(stage, report.batches, failure), mappable = 0..N,
           received' = Len(delivered) + 1, report = taken,
           UNCHANGED <<mappable, report, taken, delivered>>
    PROVE  Course'
<1>1. ErrorLocatesTheFailure'
  BY FailureIsLocated
<1> QED
  BY <1>1 DEF IInv, Course, Fail, Mapping, Position, Working, Checks, Counters

\* Every action keeps the course of the run.
LEMMA CourseStep ==
    ASSUME IInv, Next
    PROVE  Course'
<1> USE DEF IInv
<1>1. CASE Prepare
  <2>1. phase = "preparing" /\ received = 0 /\ report = taken /\ taken.batches = Len(delivered)
        /\ Len(delivered) = 0
    BY <1>1 DEF Prepare, Mapping, Counters, Position, Working
  <2>2. UNCHANGED <<mappable, received, report, taken, delivered>>
    BY <1>1 DEF Prepare
  <2>3. CASE Declaration(step) \in mappable /\ step = Sink
    <3>1. \A d \in 0..N : d \in mappable
      BY <2>1, <2>3, NAssumption DEF Mapping, Sink
    <3>2. mappable = 0..N
      BY <3>1 DEF TypeOK
    <3>3. phase' = "built" /\ error' = error
      BY <1>1, <2>3 DEF Prepare
    <3> QED
      BY <2>1, <2>2, <3>2, <3>3 DEF Course, Mapping, Position, Working, Checks, Counters,
         ErrorLocatesTheFailure
  <2>4. CASE Declaration(step) \in mappable /\ step # Sink
    <3>1. phase' = "preparing" /\ step' = step + 1 /\ error' = error /\ step \in mappable
      BY <1>1, <2>4 DEF Prepare, Declaration
    <3>2. ASSUME NEW d \in 0..N, d < step' PROVE d \in mappable
      <4>1. step \in Int /\ (d < step \/ d = step)
        BY <3>1, <3>2, NAssumption DEF TypeOK, Source, Sink
      <4> QED
        BY <2>1, <3>1, <4>1 DEF Mapping
    <3>3. Mapping'
      BY <2>1, <2>2, <3>1, <3>2 DEF Mapping
    <3> QED
      BY <2>1, <2>2, <3>1, <3>3 DEF Course, Position, Working, Checks, Counters,
         ErrorLocatesTheFailure
  <2>5. CASE Declaration(step) \notin mappable
    BY <1>1, <2>1, <2>2, <2>5 DEF Prepare, Fail, Course, Mapping, Position, Working, Checks,
       Counters, ErrorLocatesTheFailure
  <2> QED
    BY <2>3, <2>4, <2>5
<1>2. CASE Open
  BY <1>2 DEF Open, Fail, Course, Mapping, Position, Working, Checks, Counters,
     ErrorLocatesTheFailure
<1>3. CASE Finish
  BY <1>3 DEF Finish, Course, Mapping, Position, Working, Checks, Counters,
     ErrorLocatesTheFailure
<1>4. CASE Receive
  <2>1. mappable = 0..N /\ report = taken /\ received' = Len(delivered) + 1
        /\ received' = received + 1
    BY <1>4 DEF Receive, Mapping, Position, Working, Counters
  <2>2. CASE Fail(Source, report.batches, "Callback")
    BY <1>4, <2>1, <2>2, FailStep DEF Receive
  <2>3. ASSUME NEW b \in [origin : {received + 1}, rows : 0..MaxRows, fits : SUBSET (0..N)],
               Checked(Source, b)
        PROVE  Course'
    <3>1. b \in Batch /\ b.origin = received' /\ Source \in 0..N
      BY <2>1, NAssumption DEF TypeOK, Batch, Source
    <3> QED
      BY <1>4, <2>1, <2>3, <3>1, CheckedStep DEF Receive
  <2> QED
    BY <1>4, <2>2, <2>3 DEF Receive
<1>5. CASE CallTransform
  <2>1. mappable = 0..N /\ report = taken /\ received' = Len(delivered) + 1
        /\ batch.origin = received'
    BY <1>5 DEF CallTransform, Mapping, Position, Working, Counters
  <2>2. CASE Fail(step, report.batches, "Callback")
    BY <1>5, <2>1, <2>2, FailStep DEF CallTransform
  <2>3. ASSUME NEW b \in [origin : {batch.origin}, rows : 0..MaxRows, fits : SUBSET (0..N)],
               Checked(step, b)
        PROVE  Course'
    <3>1. b \in Batch /\ b.origin = received' /\ step \in 0..N
      BY <1>5, <2>1, NAssumption DEF CallTransform, TypeOK, Batch
    <3> QED
      BY <1>5, <2>1, <2>3, <3>1, CheckedStep DEF CallTransform
  <2> QED
    BY <1>5, <2>2, <2>3 DEF CallTransform
<1>6. CASE RegisterBatch
  <2>1. mappable = 0..N /\ report = taken /\ received' = Len(delivered) + 1
        /\ batch.origin = received'
    BY <1>6 DEF RegisterBatch, Mapping, Position, Working, Counters
  <2>2. CASE Fail(step, report.batches, "Callback")
    BY <1>6, <2>1, <2>2, FailStep DEF RegisterBatch
  <2>3. CASE phase' = "querying" /\ table' = <<batch>> /\ UNCHANGED error
    BY <1>6, <2>1, <2>3, SqlAssumption DEF RegisterBatch, Course, Mapping, Position, Working,
       Checks, Counters, ErrorLocatesTheFailure
  <2> QED
    BY <1>6, <2>2, <2>3 DEF RegisterBatch
<1>7. CASE RunQuery
  <2>1. mappable = 0..N /\ report = taken /\ received' = Len(delivered) + 1
        /\ batch.origin = received' /\ table = <<batch>> /\ step \in 1..N
    BY <1>7 DEF RunQuery, Mapping, Position, Working, Counters, Checks
  <2>2. CASE Fail(step, report.batches, "Callback")
    BY <1>7, <2>1, <2>2, FailStep DEF RunQuery
  <2>3. ASSUME NEW b \in [origin : {table[1].origin}, rows : 0..MaxRows, fits : SUBSET (0..N)],
               Checked(step, b)
        PROVE  Course'
    <3>1. b \in Batch /\ b.origin = received' /\ step \in 0..N
      BY <2>1, NAssumption DEF TypeOK, Batch
    <3> QED
      BY <1>7, <2>1, <2>3, <3>1, CheckedStep DEF RunQuery
  <2> QED
    BY <1>7, <2>2, <2>3 DEF RunQuery
<1>8. CASE CheckCounts
  <2>1. mappable = 0..N /\ report = taken /\ received' = Len(delivered) + 1
        /\ batch.origin = received' /\ Validates(N, batch)
    BY <1>8, NAssumption DEF CheckCounts, Mapping, Position, Working, Counters, Checks, Sink
  <2>2. CASE Overflows
    BY <1>8, <2>1, <2>2, FailStep DEF CheckCounts
  <2>3. CASE ~Overflows
    <3>1. report.batches \in Nat /\ report.rows \in Nat /\ batch.rows \in Nat
      BY RowsAssumption DEF TypeOK, Counts, Batch
    <3>2. /\ (report.batches + 1) % (MaxCount + 1) = report.batches + 1
          /\ (report.rows + batch.rows) % (MaxCount + 1) = report.rows + batch.rows
      <4>1. report.batches + 1 \in Nat /\ report.rows + batch.rows \in Nat
        BY <3>1
      <4>2. report.batches + 1 <= MaxCount /\ report.rows + batch.rows <= MaxCount
        BY <2>3, <3>1, CountAssumption DEF Overflows
      <4>3. (report.batches + 1) % (MaxCount + 1) = report.batches + 1
        BY <4>1, <4>2, NoWrap, CountAssumption
      <4>4. (report.rows + batch.rows) % (MaxCount + 1) = report.rows + batch.rows
        BY <4>1, <4>2, NoWrap, CountAssumption
      <4> QED
        BY <4>3, <4>4
    <3>3. next' = [batches |-> report.batches + 1, rows |-> report.rows + batch.rows]
      BY <1>8, <2>3, <3>2 DEF CheckCounts
    <3> QED
      BY <1>8, <2>1, <2>3, <3>3 DEF CheckCounts, Course, Mapping, Position, Working, Checks,
         Validates, Counters, ErrorLocatesTheFailure
  <2> QED
    BY <2>2, <2>3
<1>9. CASE CallSink
  <2>1. mappable = 0..N /\ report = taken /\ received' = Len(delivered) + 1
    BY <1>9 DEF CallSink, Mapping, Position, Working, Counters
  <2>2. CASE Fail(Sink, report.batches, "Callback") /\ UNCHANGED <<taken, delivered>>
    BY <1>9, <2>1, <2>2, FailStep DEF CallSink
  <2>3. CASE /\ phase' = "delivered"
             /\ delivered' = Append(delivered, batch)
             /\ taken' = [batches |-> taken.batches + 1, rows |-> taken.rows + batch.rows]
             /\ UNCHANGED error
    <3>1. Len(delivered') = Len(delivered) + 1
      BY <2>3 DEF TypeOK
    <3>2. next' = taken'
      BY <1>9, <2>1, <2>3 DEF CallSink, Counters
    <3>3. taken'.batches = Len(delivered')
      BY <2>3, <3>1 DEF Counters
    <3> QED
      BY <1>9, <2>1, <2>3, <3>1, <3>2, <3>3 DEF CallSink, Course, Mapping, Position, Working,
         Checks, Counters, ErrorLocatesTheFailure
  <2> QED
    BY <1>9, <2>2, <2>3 DEF CallSink
<1>10. CASE Count
  BY <1>10 DEF Count, Course, Mapping, Position, Working, Checks, Counters,
     ErrorLocatesTheFailure
<1> QED
  BY <1>1, <1>2, <1>3, <1>4, <1>5, <1>6, <1>7, <1>8, <1>9, <1>10 DEF Next

\* What the sink gets next is the item after the last, fit for the sink.
LEMMA OrderStep ==
    ASSUME IInv, Next
    PROVE  InOrder'
<1> USE DEF IInv
<1>1. CASE delivered' = delivered
  BY <1>1 DEF InOrder, Validates
<1>2. CASE delivered' # delivered
  <2>1. CallSink /\ delivered' = Append(delivered, batch)
    BY <1>2 DEF Next, Prepare, Open, Finish, Receive, CallTransform, RegisterBatch, RunQuery,
       CheckCounts, CallSink, Count
  <2>2. batch.origin = Len(delivered) + 1 /\ Validates(N, batch)
    BY <2>1 DEF CallSink, Position, Working, Checks
  <2>3. delivered \in Seq(Batch) /\ batch \in Batch
    BY DEF TypeOK
  <2>4. ASSUME NEW i \in DOMAIN delivered'
        PROVE  delivered'[i].origin = i /\ Validates(N, delivered'[i])
    <3>1. CASE i = Len(delivered) + 1
      <4>1. delivered'[i] = batch
        BY <2>1, <2>3, <3>1
      <4> QED
        BY <2>2, <3>1, <4>1
    <3>2. CASE i # Len(delivered) + 1
      <4>1. i \in DOMAIN delivered /\ delivered'[i] = delivered[i]
        BY <2>1, <2>3, <3>2
      <4> QED
        BY <4>1 DEF InOrder
    <3> QED
      BY <3>1, <3>2
  <2> QED
    BY <2>4 DEF InOrder, Validates
<1> QED
  BY <1>1, <1>2

\* The whole invariant, by every step.
LEMMA InductiveStep == IInv /\ [Next]_vars => IInv'
<1> SUFFICES ASSUME IInv, [Next]_vars PROVE IInv'
  OBVIOUS
<1>1. CASE Next
  BY <1>1, TypeStep, CourseStep, OrderStep DEF IInv, Course
<1>2. CASE UNCHANGED vars
  BY <1>2 DEF vars, IInv, TypeOK, Mapping, Position, Working, Checks, Validates, Counters,
     InOrder, ErrorLocatesTheFailure
<1> QED
  BY <1>1, <1>2

-----------------------------------------------------------------------------

\* ContractRunReport counts the batches and rows the sink accepted, exactly,
\* and they are the source's items, in order, each fit for the sink: for any
\* number of transforms, whatever the callbacks return and wherever one fails.
THEOREM DeliveryIsReported == Spec => [](TypeOK /\ SinkAndReportAgree)
<1>1. IInv => TypeOK /\ SinkAndReportAgree
  BY DEF IInv, Counters, InOrder, Position, Working, SinkAndReportAgree,
     ReportIsWhatTheSinkTook, DeliveredInOrder
<1> QED
  BY <1>1, InitialStep, InductiveStep, PTL DEF Spec

\* ContractPipelineError names the item a run failed on, everything before it
\* having been delivered, or says that no input was read.
THEOREM FailureIsNamed == Spec => []ErrorLocatesTheFailure
<1>1. IInv => ErrorLocatesTheFailure
  BY DEF IInv
<1> QED
  BY <1>1, InitialStep, InductiveStep, PTL DEF Spec

-----------------------------------------------------------------------------
(* The recursive functions of the levels, and their equations *)

ShapesStep(n, below) == TypeShapes(below)
ShapeLevels == INSTANCE NatRecursion WITH Base <- {}, Step <- ShapesStep

\* The shapes, by level (TypeShape).
LEMMA ShapesUnfold ==
    /\ ShapesTo[0] = {}
    /\ \A n \in Nat : ShapesTo[n + 1] = TypeShapes(ShapesTo[n])
<1>1. ShapesTo = ShapeLevels!Recursive
  BY DEF ShapesTo, ShapeLevels!Recursive, ShapesStep
<1>2. \A n \in Nat : n + 1 \in Nat /\ n + 1 # 0 /\ (n + 1) - 1 = n
  OBVIOUS
<1>3. ShapesTo[0] = {} /\ \A n \in Nat : n # 0 => ShapesTo[n] = ShapesStep(n, ShapesTo[n - 1])
  BY <1>1, ShapeLevels!Unfolds
<1> QED
  BY <1>2, <1>3, Zenon DEF ShapesStep

SameStep(n, below) == {ab \in ShapesTo[n] \X ShapesTo[n] : ShapeEq(ab[1], ab[2], below)}
SameLevels == INSTANCE NatRecursion WITH Base <- {}, Step <- SameStep

\* The pairs of equal shapes, by level (shape_eq).
LEMMA SameUnfolds ==
    /\ Same[0] = {}
    /\ \A n \in Nat : \A a, b \in ShapesTo[n + 1] :
          <<a, b>> \in Same[n + 1] <=> ShapeEq(a, b, Same[n])
<1>1. Same = SameLevels!Recursive
  BY DEF Same, SameLevels!Recursive, SameStep
<1>2. \A n \in Nat : n + 1 \in Nat /\ n + 1 # 0 /\ (n + 1) - 1 = n
  OBVIOUS
<1>3. Same[0] = {} /\ \A n \in Nat : n # 0 => Same[n] = SameStep(n, Same[n - 1])
  BY <1>1, SameLevels!Unfolds
<1>4. \A n \in Nat : Same[n + 1] = SameStep(n + 1, Same[n])
  BY <1>2, <1>3, Zenon
<1>5. \A n \in Nat : \A ab \in ShapesTo[n + 1] \X ShapesTo[n + 1] :
        ab \in Same[n + 1] <=> ShapeEq(ab[1], ab[2], Same[n])
  BY <1>4, Zenon DEF SameStep
<1>6. ASSUME NEW n \in Nat, NEW a \in ShapesTo[n + 1], NEW b \in ShapesTo[n + 1]
      PROVE  <<a, b>> \in Same[n + 1] <=> ShapeEq(a, b, Same[n])
  <2>1. <<a, b>> \in ShapesTo[n + 1] \X ShapesTo[n + 1] /\ <<a, b>>[1] = a /\ <<a, b>>[2] = b
    OBVIOUS
  <2> DEFINE ab == <<a, b>>
  <2>2. ab \in Same[n + 1] <=> ShapeEq(ab[1], ab[2], Same[n])
    BY <1>5, <2>1, Zenon
  <2> QED
    BY <2>1, <2>2, Zenon
<1> QED
  BY <1>3, <1>6, Zenon

DifferencesStep(n, below) ==
    [mode \in Modes |-> [p \in ShapesTo[n] |-> [c \in ShapesTo[n] |->
        [path \in Paths |-> CompareShapes(p, c, path, mode, below[mode])]]]]
DifferenceLevels == INSTANCE NatRecursion WITH Base <- <<>>, Step <- DifferencesStep

\* The differences, by level (compare_shapes).
LEMMA DifferencesUnfold ==
    \A n \in Nat, mode \in Modes : \A p, c \in ShapesTo[n + 1], path \in Paths :
        Differences[n + 1][mode][p][c][path]
            = CompareShapes(p, c, path, mode, Differences[n][mode])
<1>1. Differences = DifferenceLevels!Recursive
  BY DEF Differences, DifferenceLevels!Recursive, DifferencesStep
<1>2. \A n \in Nat : n + 1 \in Nat /\ n + 1 # 0 /\ (n + 1) - 1 = n
  OBVIOUS
<1>3. \A n \in Nat : n # 0 => Differences[n] = DifferencesStep(n, Differences[n - 1])
  BY <1>1, DifferenceLevels!Unfolds
<1>4. \A n \in Nat : Differences[n + 1] = DifferencesStep(n + 1, Differences[n])
  BY <1>2, <1>3, Zenon
<1>5. \A n \in Nat, mode \in Modes :
        Differences[n + 1][mode] = [p \in ShapesTo[n + 1] |-> [c \in ShapesTo[n + 1] |->
            [path \in Paths |-> CompareShapes(p, c, path, mode, Differences[n][mode])]]]
  BY <1>4, Zenon DEF DifferencesStep
<1>6. ASSUME NEW n \in Nat, NEW mode \in Modes,
             NEW p \in ShapesTo[n + 1], NEW c \in ShapesTo[n + 1], NEW path \in Paths
      PROVE  Differences[n + 1][mode][p][c][path]
                 = CompareShapes(p, c, path, mode, Differences[n][mode])
  <2> DEFINE At(q) == [d \in ShapesTo[n + 1] |->
            [at \in Paths |-> CompareShapes(q, d, at, mode, Differences[n][mode])]]
  <2>0. Differences[n + 1][mode] = [q \in ShapesTo[n + 1] |-> At(q)]
    BY <1>5, Zenon
  <2>3. Differences[n + 1][mode][p] = At(p)
    <3> HIDE DEF At
    <3> QED
      BY <2>0, Zenon
  <2>1. Differences[n + 1][mode][p] = [d \in ShapesTo[n + 1] |->
            [at \in Paths |-> CompareShapes(p, d, at, mode, Differences[n][mode])]]
    BY <2>3, Zenon
  <2>2. Differences[n + 1][mode][p][c]
            = [at \in Paths |-> CompareShapes(p, c, at, mode, Differences[n][mode])]
    BY <2>1, Zenon
  <2> QED
    BY <2>2, Zenon
<1> QED
  BY <1>6, Zenon

MappableStep(n, below) ==
    [depth \in Nat |-> {shape \in ShapesTo[n] : MapField(shape, depth, below)}]
MappableLevels ==
    INSTANCE NatRecursion WITH Base <- [depth \in Nat |-> {}], Step <- MappableStep

\* What can be mapped to Arrow, by level (map_field).
LEMMA MappableUnfolds ==
    /\ \A depth \in Nat : Mappable[0][depth] = {}
    /\ \A n, depth \in Nat : Mappable[n + 1][depth]
          = {shape \in ShapesTo[n + 1] : MapField(shape, depth, Mappable[n])}
<1>1. Mappable = MappableLevels!Recursive
  BY DEF Mappable, MappableLevels!Recursive, MappableStep
<1>2. \A n \in Nat : n + 1 \in Nat /\ n + 1 # 0 /\ (n + 1) - 1 = n
  OBVIOUS
<1>3. /\ Mappable[0] = [depth \in Nat |-> {}]
      /\ \A n \in Nat : n # 0 => Mappable[n] = MappableStep(n, Mappable[n - 1])
  BY <1>1, MappableLevels!Unfolds
<1>4. \A n \in Nat : Mappable[n + 1] = MappableStep(n + 1, Mappable[n])
  BY <1>2, <1>3, Zenon
<1>5. \A depth \in Nat : Mappable[0][depth] = {}
  BY <1>3, Zenon
<1>6. ASSUME NEW n \in Nat, NEW depth \in Nat
      PROVE  Mappable[n + 1][depth]
                 = {shape \in ShapesTo[n + 1] : MapField(shape, depth, Mappable[n])}
  <2> DEFINE At(d) == {shape \in ShapesTo[n + 1] : MapField(shape, d, Mappable[n])}
  <2>1. Mappable[n + 1] = [d \in Nat |-> At(d)]
    BY <1>4, Zenon DEF MappableStep
  <2>2. Mappable[n + 1][depth] = At(depth)
    <3> HIDE DEF At
    <3> QED
      BY <2>1, ZenonT(30)
  <2> QED
    BY <2>2, Zenon
<1> QED
  BY <1>5, <1>6, Zenon

PhysicalStep(n, below) == [shape \in ShapesTo[n] |-> PhysicalOf(shape, below)]
PhysicalLevels == INSTANCE NatRecursion WITH Base <- <<>>, Step <- PhysicalStep

\* The physical types, by level (map_field).
LEMMA PhysicalUnfolds ==
    \A n \in Nat : \A shape \in ShapesTo[n + 1] :
        Physical[n + 1][shape] = PhysicalOf(shape, Physical[n])
<1>1. Physical = PhysicalLevels!Recursive
  BY DEF Physical, PhysicalLevels!Recursive, PhysicalStep
<1>2. \A n \in Nat : n + 1 \in Nat /\ n + 1 # 0 /\ (n + 1) - 1 = n
  OBVIOUS
<1>3. \A n \in Nat : n # 0 => Physical[n] = PhysicalStep(n, Physical[n - 1])
  BY <1>1, PhysicalLevels!Unfolds
<1>4. \A n \in Nat : Physical[n + 1] = PhysicalStep(n + 1, Physical[n])
  BY <1>2, <1>3, Zenon
<1> QED
  BY <1>4, Zenon DEF PhysicalStep

ValuesToStep(n, below) == ValuesOver(below)
ValueLevels == INSTANCE NatRecursion WITH Base <- {}, Step <- ValuesToStep

\* The values, by level.
LEMMA ValuesToUnfolds == \A n \in Nat : ValuesTo[n + 1] = ValuesOver(ValuesTo[n])
<1>1. ValuesTo = ValueLevels!Recursive
  BY DEF ValuesTo, ValueLevels!Recursive, ValuesToStep
<1>2. \A n \in Nat : n + 1 \in Nat /\ n + 1 # 0 /\ (n + 1) - 1 = n
  OBVIOUS
<1>3. \A n \in Nat : n # 0 => ValuesTo[n] = ValuesToStep(n, ValuesTo[n - 1])
  BY <1>1, ValueLevels!Unfolds
<1> QED
  BY <1>2, <1>3, Zenon DEF ValuesToStep

ValuesStep(n, below) == [shape \in ShapesTo[n] |-> ValuesOf(shape, below)]
ValuesLevels == INSTANCE NatRecursion WITH Base <- <<>>, Step <- ValuesStep

\* The values a declaration allows, by level.
LEMMA ValuesUnfold ==
    \A n \in Nat : \A shape \in ShapesTo[n + 1] :
        Values[n + 1][shape] = ValuesOf(shape, Values[n])
<1>1. Values = ValuesLevels!Recursive
  BY DEF Values, ValuesLevels!Recursive, ValuesStep
<1>2. \A n \in Nat : n + 1 \in Nat /\ n + 1 # 0 /\ (n + 1) - 1 = n
  OBVIOUS
<1>3. \A n \in Nat : n # 0 => Values[n] = ValuesStep(n, Values[n - 1])
  BY <1>1, ValuesLevels!Unfolds
<1>4. \A n \in Nat : Values[n + 1] = ValuesStep(n + 1, Values[n])
  BY <1>2, <1>3, Zenon
<1> QED
  BY <1>4, Zenon DEF ValuesStep

ReadableStep(n, below) ==
    [pol \in Policies |-> [c \in ShapesTo[n] |->
        ReadableAs(c, pol, below[pol], ValuesTo[n - 1])]]
ReadableLevels == INSTANCE NatRecursion WITH Base <- <<>>, Step <- ReadableStep

\* The values a contract reads, by level.
LEMMA ReadableUnfolds ==
    \A n \in Nat, pol \in Policies : \A c \in ShapesTo[n + 1] :
        Readable[n + 1][pol][c] = ReadableAs(c, pol, Readable[n][pol], ValuesTo[n])
<1>1. Readable = ReadableLevels!Recursive
  BY DEF Readable, ReadableLevels!Recursive, ReadableStep
<1>2. \A n \in Nat : n + 1 \in Nat /\ n + 1 # 0 /\ (n + 1) - 1 = n
  OBVIOUS
<1>3. \A n \in Nat : n # 0 => Readable[n] = ReadableStep(n, Readable[n - 1])
  BY <1>1, ReadableLevels!Unfolds
<1>4. \A n \in Nat : Readable[n + 1] = ReadableStep(n + 1, Readable[n])
  BY <1>2, <1>3, Zenon
<1>5. ASSUME NEW n \in Nat, NEW pol \in Policies, NEW c \in ShapesTo[n + 1]
      PROVE  Readable[n + 1][pol][c] = ReadableAs(c, pol, Readable[n][pol], ValuesTo[n])
  <2> DEFINE Of(r, d) == ReadableAs(d, r, Readable[n][r], ValuesTo[(n + 1) - 1])
             By(r) == [d \in ShapesTo[n + 1] |-> Of(r, d)]
  <2>1. Readable[n + 1] = [r \in Policies |-> By(r)]
    BY <1>4, Zenon DEF ReadableStep
  <2>2. Readable[n + 1][pol] = By(pol)
    <3> HIDE DEF By
    <3> QED
      BY <2>1, Zenon
  <2>3. Readable[n + 1][pol][c] = Of(pol, c)
    <3> HIDE DEF Of
    <3> QED
      BY <2>2, Zenon
  <2> QED
    BY <1>2, <2>3, Zenon
<1> QED
  BY <1>5, Zenon

-----------------------------------------------------------------------------
(* Sequences of sequences *)

\* What flattening does up to the k-th of the sequences.
Flattened(ss, k, g) == g = [i \in 1..k |-> IF i = 1 THEN ss[i] ELSE g[i - 1] \o ss[i]]

\* Concatenation from the left exists for any sequence of sequences.
LEMMA FlattenedExists ==
    ASSUME NEW n \in Nat, NEW ss
    PROVE  \E g : Flattened(ss, n, g)
<1> DEFINE S == {k \in Nat : \E g : Flattened(ss, k, g)}
<1>1. 0 \in S
  <2> DEFINE g == [i \in 1..0 |-> ss[i]]
  <2>1. g = [i \in 1..0 |-> IF i = 1 THEN ss[i] ELSE g[i - 1] \o ss[i]]
    OBVIOUS
  <2> QED
    BY <2>1 DEF Flattened
<1>2. ASSUME NEW k \in Nat, k \in S PROVE k + 1 \in S
  <2>1. PICK g : Flattened(ss, k, g)
    BY <1>2
  <2> DEFINE last == IF k + 1 = 1 THEN ss[k + 1] ELSE g[k] \o ss[k + 1]
             h == [i \in 1..(k + 1) |-> IF i = k + 1 THEN last ELSE g[i]]
             f == [i \in 1..(k + 1) |-> IF i = 1 THEN ss[i] ELSE h[i - 1] \o ss[i]]
  <2>2. ASSUME NEW i \in 1..(k + 1) PROVE h[i] = f[i]
    <3>1. CASE i = k + 1
      <4>1. CASE i = 1
        BY <3>1, <4>1
      <4>2. CASE i # 1
        <5>1. i - 1 = k /\ i - 1 \in 1..(k + 1) /\ i - 1 # k + 1
          BY <3>1, <4>2
        <5>2. h[i - 1] = g[k]
          BY <5>1
        <5> HIDE DEF h
        <5>3. f[i] = h[i - 1] \o ss[i]
          BY <4>2
        <5>4. last = g[k] \o ss[i]
          BY <3>1, <4>2
        <5>5. h[i] = last
          BY <3>1 DEF h
        <5> QED
          BY <5>2, <5>3, <5>4, <5>5
      <4> QED
        BY <4>1, <4>2
    <3>2. CASE i # k + 1
      <4>1. i \in 1..k
        BY <3>2
      <4>2. g[i] = IF i = 1 THEN ss[i] ELSE g[i - 1] \o ss[i]
        BY <2>1, <4>1, Zenon DEF Flattened
      <4>3. i # 1 => i - 1 \in 1..(k + 1) /\ i - 1 # k + 1
        BY <4>1
      <4>4. i # 1 => h[i - 1] = g[i - 1]
        BY <4>3
      <4>5. h[i] = g[i]
        BY <3>2
      <4> HIDE DEF h
      <4>6. f[i] = IF i = 1 THEN ss[i] ELSE h[i - 1] \o ss[i]
        OBVIOUS
      <4> QED
        BY <4>2, <4>4, <4>5, <4>6
    <3> QED
      BY <3>1, <3>2
  <2>3. h = f
    BY <2>2, Zenon
  <2> HIDE DEF h
  <2>4. Flattened(ss, k + 1, h)
    BY <2>3 DEF Flattened
  <2> QED
    BY <2>4
<1> HIDE DEF S
<1>3. Nat \subseteq S
  BY <1>1, <1>2, ShapeLevels!NatSetInduction
<1> QED
  BY <1>3 DEF S

\* FlattenSeq is that concatenation.
LEMMA FlattenUnfolds ==
    ASSUME NEW T, NEW n \in Nat \ {0}, NEW ss \in [1..n -> Seq(T)]
    PROVE  \E g : Flattened(ss, n, g) /\ FlattenSeq(ss) = g[n]
<1> DEFINE w == CHOOSE g : g = [i \in 1..n |-> IF i = 1 THEN ss[i] ELSE g[i - 1] \o ss[i]]
<1>1. ss \in Seq(Seq(T)) /\ Len(ss) = n
  OBVIOUS
<1>2. FlattenSeq(ss) = w[n]
  BY <1>1 DEF FlattenSeq
<1>3. \E g : g = [i \in 1..n |-> IF i = 1 THEN ss[i] ELSE g[i - 1] \o ss[i]]
  BY FlattenedExists DEF Flattened
<1>4. w = [i \in 1..n |-> IF i = 1 THEN ss[i] ELSE w[i - 1] \o ss[i]]
  BY <1>3, Zenon
<1> HIDE DEF w
<1> QED
  BY <1>2, <1>4 DEF Flattened

\* A concatenation has the members of both, and begins with the first that is
\* not empty.
LEMMA ConcatSet ==
    ASSUME NEW T, NEW a \in Seq(T), NEW b \in Seq(T)
    PROVE  /\ a \o b \in Seq(T) /\ ToSet(a \o b) = ToSet(a) \union ToSet(b)
           /\ a # <<>> => (a \o b)[1] = a[1]
           /\ a = <<>> => a \o b = b
<1>1. a \o b \in Seq(T) /\ Len(a \o b) = Len(a) + Len(b)
  OBVIOUS
<1>2. \A i \in 1..Len(a) : i \in 1..Len(a \o b) /\ (a \o b)[i] = a[i]
  OBVIOUS
<1>3. \A i \in 1..Len(b) : Len(a) + i \in 1..Len(a \o b) /\ (a \o b)[Len(a) + i] = b[i]
  OBVIOUS
<1>4. \A i \in 1..Len(a \o b) :
        \/ i \in 1..Len(a)
        \/ \E k \in 1..Len(b) : i = Len(a) + k
  <2> TAKE i \in 1..Len(a \o b)
  <2>1. CASE i <= Len(a)
    BY <2>1
  <2>2. CASE ~(i <= Len(a))
    <3>1. i - Len(a) \in 1..Len(b) /\ i = Len(a) + (i - Len(a))
      BY <1>1, <2>2
    <3> QED
      BY <3>1
  <2> QED
    BY <2>1, <2>2
<1>5. DOMAIN a = 1..Len(a) /\ DOMAIN b = 1..Len(b) /\ DOMAIN (a \o b) = 1..Len(a \o b)
  BY <1>1
<1> DEFINE c == a \o b
<1> HIDE DEF c
<1>6. ToSet(c) = ToSet(a) \union ToSet(b)
  <2>1. /\ \A x : x \in ToSet(a) <=> \E i \in 1..Len(a) : x = a[i]
        /\ \A x : x \in ToSet(b) <=> \E i \in 1..Len(b) : x = b[i]
        /\ \A x : x \in ToSet(c) <=> \E i \in 1..Len(c) : x = c[i]
    BY <1>5, Zenon DEF ToSet, c
  <2>2. ASSUME NEW x \in ToSet(a) PROVE x \in ToSet(c)
    <3>1. PICK i \in 1..Len(a) : x = a[i]
      BY <2>1
    <3>2. i \in 1..Len(c) /\ x = c[i]
      BY <1>2, <3>1, Zenon DEF c
    <3> QED
      BY <2>1, <3>2
  <2>3. ASSUME NEW x \in ToSet(b) PROVE x \in ToSet(c)
    <3>1. PICK i \in 1..Len(b) : x = b[i]
      BY <2>1
    <3>2. Len(a) + i \in 1..Len(c) /\ x = c[Len(a) + i]
      BY <1>3, <3>1, Zenon DEF c
    <3> QED
      BY <2>1, <3>2, Zenon
  <2>4. ASSUME NEW x \in ToSet(c) PROVE x \in ToSet(a) \union ToSet(b)
    <3>1. PICK i \in 1..Len(c) : x = c[i]
      BY <2>1
    <3>2. CASE i \in 1..Len(a)
      <4>1. x = a[i]
        BY <1>2, <3>1, <3>2, Zenon DEF c
      <4> QED
        BY <2>1, <3>2, <4>1
    <3>3. CASE \E k \in 1..Len(b) : i = Len(a) + k
      <4>1. PICK k \in 1..Len(b) : i = Len(a) + k
        BY <3>3
      <4>2. x = b[k]
        BY <1>3, <3>1, <4>1, ZenonT(30) DEF c
      <4> QED
        BY <2>1, <4>2
    <3> QED
      BY <1>4, <3>1, <3>2, <3>3, Zenon DEF c
  <2> QED
    BY <2>2, <2>3, <2>4
<1>7. a # <<>> => (a \o b)[1] = a[1]
  BY <1>2
<1> QED
  BY <1>1, <1>6, <1>7 DEF c

\* The i-th sequence is the first that is not empty.
FirstIn(ss, n, i) == i \in 1..n /\ ss[i] # <<>> /\ \A j \in 1..(i - 1) : ss[j] = <<>>

\* A flattened sequence has the members of all of them, and begins with the
\* first of those that are not empty.
LEMMA FlattenMembers ==
    ASSUME NEW T, NEW n \in Nat, NEW ss \in [1..n -> Seq(T)]
    PROVE  /\ FlattenSeq(ss) \in Seq(T)
           /\ ToSet(FlattenSeq(ss)) = UNION {ToSet(ss[i]) : i \in 1..n}
           /\ \A i : FirstIn(ss, n, i) => FlattenSeq(ss)[1] = ss[i][1]
<1>1. CASE n = 0
  <2>1. ss = <<>>
    BY <1>1
  <2>2. FlattenSeq(ss) = <<>>
    BY <2>1 DEF FlattenSeq
  <2>3. \A i : ~FirstIn(ss, n, i)
    BY <1>1 DEF FirstIn
  <2>4. FlattenSeq(ss) \in Seq(T) /\ ToSet(FlattenSeq(ss)) = UNION {ToSet(ss[i]) : i \in 1..n}
    BY <1>1, <2>2 DEF ToSet
  <2> QED
    BY <2>3, <2>4
<1>2. CASE n # 0
  <2>1. PICK g : Flattened(ss, n, g) /\ FlattenSeq(ss) = g[n]
    BY <1>2, FlattenUnfolds
  <2>2. \A i \in 1..n : g[i] = IF i = 1 THEN ss[i] ELSE g[i - 1] \o ss[i]
    BY <2>1, Zenon DEF Flattened
  <2> DEFINE Upto(k) ==
               /\ g[k] \in Seq(T)
               /\ ToSet(g[k]) = UNION {ToSet(ss[i]) : i \in 1..k}
               /\ (\A j \in 1..k : ss[j] = <<>>) => g[k] = <<>>
               /\ \A i \in 1..k : ss[i] # <<>> /\ (\A j \in 1..(i - 1) : ss[j] = <<>>)
                     => g[k] # <<>> /\ g[k][1] = ss[i][1]
             S == {k \in Nat : k + 1 <= n => Upto(k + 1)}
  <2>3. 0 \in S
    <3>1. 1 \in 1..n /\ 1..1 = {1} /\ 0 + 1 = 1 /\ 1..(1 - 1) = {}
      BY <1>2
    <3>2. g[1] = ss[1] /\ ss[1] \in Seq(T)
      BY <2>2, <3>1
    <3>3. UNION {ToSet(ss[i]) : i \in {1}} = ToSet(ss[1])
      OBVIOUS
    <3> QED
      BY <3>1, <3>2, <3>3
  <2>4. ASSUME NEW k \in Nat, k \in S PROVE k + 1 \in S
    <3> SUFFICES ASSUME (k + 1) + 1 <= n PROVE Upto((k + 1) + 1)
      OBVIOUS
    <3> DEFINE m == k + 1
    <3>1. m \in 1..n /\ m + 1 \in 1..n /\ m + 1 # 1 /\ (m + 1) - 1 = m /\ m + 1 = (k + 1) + 1
      OBVIOUS
    <3>2. Upto(m)
      BY <2>4
    <3> HIDE DEF m
    <3>3. g[m + 1] = g[m] \o ss[m + 1] /\ ss[m + 1] \in Seq(T)
      BY <2>2, <3>1
    <3>4. g[m] \in Seq(T)
      BY <3>2
    <3> DEFINE a == g[m]  b == ss[m + 1]
    <3>5. /\ a \o b \in Seq(T) /\ ToSet(a \o b) = ToSet(a) \union ToSet(b)
          /\ a # <<>> => (a \o b)[1] = a[1]
          /\ a = <<>> => a \o b = b
      BY <3>3, <3>4, ConcatSet
    <3>6. 1..(m + 1) = (1..m) \union {m + 1}
      BY <3>1
    <3>7. ToSet(g[m + 1]) = UNION {ToSet(ss[i]) : i \in 1..(m + 1)}
      BY <3>2, <3>3, <3>5, <3>6
    <3>8. (\A j \in 1..(m + 1) : ss[j] = <<>>) => g[m + 1] = <<>>
      BY <3>2, <3>3, <3>5, <3>6
    <3>9. ASSUME NEW i \in 1..(m + 1), ss[i] # <<>>, \A j \in 1..(i - 1) : ss[j] = <<>>
          PROVE  g[m + 1] # <<>> /\ g[m + 1][1] = ss[i][1]
      <4>1. CASE i = m + 1
        <5>1. \A j \in 1..m : ss[j] = <<>>
          BY <3>1, <3>9, <4>1
        <5>2. g[m] = <<>>
          BY <3>2, <5>1
        <5> QED
          BY <3>3, <3>5, <3>9, <4>1, <5>2
      <4>2. CASE i \in 1..m
        <5>1. a # <<>> /\ a[1] = ss[i][1]
          BY <3>2, <3>9, <4>2
        <5>2. (a \o b)[1] = ss[i][1]
          BY <3>5, <5>1
        <5>3. a \o b # <<>>
          BY <3>3, <3>4, <5>1
        <5> QED
          BY <3>3, <5>2, <5>3
      <4> QED
        BY <3>6, <4>1, <4>2
    <3> QED
      BY <3>1, <3>3, <3>5, <3>7, <3>8, <3>9
  <2> HIDE DEF S
  <2>5. Nat \subseteq S
    BY <2>3, <2>4, ShapeLevels!NatSetInduction
  <2>6. Upto(n)
    <3>1. n - 1 \in Nat /\ (n - 1) + 1 = n
      BY <1>2
    <3>2. n - 1 \in S
      BY <2>5, <3>1
    <3> QED
      BY <3>1, <3>2 DEF S
  <2>7. \A i : FirstIn(ss, n, i) => g[n][1] = ss[i][1]
    BY <2>6 DEF FirstIn
  <2> QED
    BY <2>1, <2>6, <2>7
<1> QED
  BY <1>1, <1>2

-----------------------------------------------------------------------------
(* What a comparison finds, and what a policy refuses *)

\* The differences a comparison finds.
Diff == [kind : {"Missing", "Extra", "Mismatch"}, path : Paths, tolerable : BOOLEAN]
\* The fields of a struct over a set of shapes.
FieldShapes(S) == [name : Name, shape : S, default : BOOLEAN]

\* One of the differences is one the policy rejects.
Refuses(found, pol) == \E d \in ToSet(found) : Rejects(d, pol)

\* Differences, each of which is at one of the fields or places in heads.
FoundAt(found, heads) ==
    found \in Seq(Diff) /\ \A d \in ToSet(found) : d.path[1] \in heads

\* The results for the shapes below: what is found is below the path, and it is
\* refused unless the two shapes fit.
ComparesBelow(below, S, pol, fit) ==
    \A p, c \in S, path \in Paths :
        /\ below[p][c][path] \in Seq(Diff)
        /\ path # <<>> => FoundAt(below[p][c][path], {path[1]})
        /\ Refuses(below[p][c][path], pol) <=> <<p, c>> \notin fit

\* No two fields share a name, as the policy compares names.
Distinct(fields, pol) ==
    \A i, k \in DOMAIN fields :
        SameName(fields[i].name, fields[k].name, FoldsCase(pol)) => i = k

\* The fields fit index by index: ordered policies and by position.
FitInOrder(p, c, pol, fit) ==
    /\ Len(p) = Len(c)
    /\ \A i \in 1..Len(c) : Named(p[i].name, c[i], pol) /\ <<p[i].shape, c[i].shape>> \in fit

\* The fields fit by name, in any order.
FitByName(p, c, pol, fit) ==
    /\ Distinct(p, pol) /\ Distinct(c, pol)
    /\ \A i \in 1..Len(c) :
          \/ /\ MayBeAbsent(c[i], pol)
             /\ \A j \in 1..Len(p) : ~Named(p[j].name, c[i], pol)
          \/ \E j \in 1..Len(p) :
                Named(p[j].name, c[i], pol) /\ <<p[j].shape, c[i].shape>> \in fit
    /\ \A j \in 1..Len(p) :
          MayBeUnknown(pol) \/ \E i \in 1..Len(c) : Named(p[j].name, c[i], pol)

\* The fields of two structs fit under the policy.
FieldsFit(p, c, pol, fit) ==
    IF ByIndex(pol) THEN FitInOrder(p, c, pol, fit) ELSE FitByName(p, c, pol, fit)

\* The shapes that fit, from the pairs of shapes below that do.
ShapesFit(p, c, pol, fit) ==
    /\ p.kind = c.kind
    /\ CASE p.kind = "Primitive" -> p.name = c.name
         [] p.kind = "Map" -> <<p.key, c.key>> \in fit /\ <<p.value, c.value>> \in fit
         [] p.kind = "Struct" -> FieldsFit(p.fields, c.fields, pol, fit)
         [] OTHER -> <<p.of, c.of>> \in fit

\* The policies that reject something.
Enforced == Policies \ {"Full"}

\* How a policy compares is one of the modes.
LEMMA ModeFacts ==
    ASSUME NEW pol \in Policies
    PROVE  /\ Mode(pol) \in Modes
           /\ Mode(pol).ci <=> FoldsCase(pol)
           /\ Mode(pol).byPos \/ Mode(pol).ordered <=> ByIndex(pol)
           /\ Mode(pol).ordered <=> ByIndex(pol) /\ pol # "ExactByPosition"
           /\ Mode(pol).byPos <=> pol = "ExactByPosition"
<1> DEFINE ci == pol \in {"Exact", "ExactUnorderedCI", "ExactOrderedCI"}
           ordered == pol \in {"ExactOrdered", "ExactOrderedCI"}
           byPos == pol = "ExactByPosition"
<1>1. ci \in BOOLEAN /\ ordered \in BOOLEAN /\ byPos \in BOOLEAN
  OBVIOUS
<1>2. /\ ci <=> FoldsCase(pol)
      /\ byPos \/ ordered <=> ByIndex(pol)
      /\ ordered <=> ByIndex(pol) /\ pol # "ExactByPosition"
      /\ byPos <=> pol = "ExactByPosition"
  BY DEF Policies, FoldsCase, ByIndex
<1>3. Mode(pol) = [ci |-> ci, ordered |-> ordered, byPos |-> byPos]
  BY DEF Mode
<1> HIDE DEF ci, ordered, byPos
<1>4. /\ Mode(pol) \in Modes
      /\ Mode(pol).ci = ci /\ Mode(pol).ordered = ordered /\ Mode(pol).byPos = byPos
  BY <1>1, <1>3 DEF Modes
<1> QED
  BY <1>1, <1>2, <1>4

\* Equality of names is symmetric, and two names that equal a third are equal.
LEMMA NameFacts ==
    ASSUME NEW ci \in BOOLEAN, NEW a, NEW b
    PROVE  /\ SameName(a, b, ci) <=> SameName(b, a, ci)
           /\ \A x : SameName(a, x, ci) /\ SameName(b, x, ci) => SameName(a, b, ci)
BY DEF SameName

\* Appending a segment keeps a path's head, and gives an empty path its own.
LEMMA PathFacts ==
    ASSUME NEW path \in Paths, NEW segment \in Name
    PROVE  /\ AppendSegment(path, segment) \in Paths
           /\ AppendSegment(path, segment) # <<>>
           /\ path # <<>> => AppendSegment(path, segment)[1] = path[1]
           /\ path = <<>> => AppendSegment(path, segment)[1] = segment
<1>1. path \in Seq(Name) /\ Len(path) \in Nat /\ MaxPathDepth \in Nat \ {0}
  BY BoundsAssumption DEF Paths
<1>2. CASE Len(path) < MaxPathDepth
  <2> DEFINE q == Append(path, segment)
  <2>1. /\ q \in Seq(Name) /\ Len(q) = Len(path) + 1 /\ q # <<>>
        /\ path # <<>> => q[1] = path[1]
        /\ path = <<>> => q[1] = segment
    BY <1>1
  <2> HIDE DEF q
  <2>2. Len(q) <= MaxPathDepth
    BY <1>1, <1>2, <2>1
  <2>3. AppendSegment(path, segment) = q
    BY <1>2 DEF AppendSegment, q
  <2> QED
    BY <2>1, <2>2, <2>3 DEF Paths
<1>3. CASE ~(Len(path) < MaxPathDepth)
  <2>1. AppendSegment(path, segment) = path
    BY <1>3 DEF AppendSegment
  <2>2. path # <<>>
    BY <1>1, <1>3
  <2> QED
    BY <2>1, <2>2
<1> QED
  BY <1>2, <1>3

\* The three constructors make differences.
LEMMA DiffFacts ==
    ASSUME NEW path \in Paths, NEW pol \in Enforced
    PROVE  /\ Extra(path) \in Diff /\ Mismatch(path) \in Diff
           /\ Extra(path).path = path /\ Mismatch(path).path = path
           /\ Rejects(Mismatch(path), pol)
           /\ Rejects(Extra(path), pol) <=> ~MayBeUnknown(pol)
           /\ \A S : \A field \in FieldShapes(S) :
                 /\ Missing(path, field) \in Diff
                 /\ Missing(path, field).path = path
                 /\ Rejects(Missing(path, field), pol) <=> ~MayBeAbsent(field, pol)
<1>1. Extra(path) \in Diff /\ Mismatch(path) \in Diff
  BY DEF Extra, Mismatch, Diff
<1>2. /\ Rejects(Mismatch(path), pol)
      /\ Rejects(Extra(path), pol) <=> ~MayBeUnknown(pol)
  BY DEF Rejects, Mismatch, Extra, MayBeUnknown, Enforced, Policies
<1>3. ASSUME NEW S, NEW field \in FieldShapes(S)
      PROVE  /\ Missing(path, field) \in Diff
             /\ Missing(path, field).path = path
             /\ Rejects(Missing(path, field), pol) <=> ~MayBeAbsent(field, pol)
  <2>1. (IsOptional(field.shape) \/ field.default) \in BOOLEAN
    BY DEF FieldShapes
  <2>2. Missing(path, field) \in Diff
    BY <2>1 DEF Missing, Diff
  <2>3. Rejects(Missing(path, field), pol) <=> ~MayBeAbsent(field, pol)
    BY <2>1 DEF Rejects, Missing, MayBeAbsent, Enforced, Policies
  <2> QED
    BY <2>2, <2>3 DEF Missing
<1> QED
  BY <1>1, <1>2, <1>3 DEF Extra, Mismatch

\* One difference, none, and two sequences of them.
LEMMA FoundFacts ==
    ASSUME NEW pol, NEW heads
    PROVE  /\ FoundAt(<<>>, heads) /\ ~Refuses(<<>>, pol)
           /\ \A d \in Diff : d.path[1] \in heads => FoundAt(<<d>>, heads)
           /\ \A d \in Diff : Refuses(<<d>>, pol) <=> Rejects(d, pol)
           /\ \A a, b \in Seq(Diff) :
                 /\ Refuses(a \o b, pol) <=> Refuses(a, pol) \/ Refuses(b, pol)
                 /\ FoundAt(a, heads) /\ FoundAt(b, heads) => FoundAt(a \o b, heads)
<1>1. ToSet(<<>>) = {} /\ <<>> \in Seq(Diff)
  BY DEF ToSet
<1>2. ASSUME NEW d \in Diff PROVE ToSet(<<d>>) = {d} /\ <<d>> \in Seq(Diff)
  BY DEF ToSet
<1>3. ASSUME NEW a \in Seq(Diff), NEW b \in Seq(Diff)
      PROVE  a \o b \in Seq(Diff) /\ ToSet(a \o b) = ToSet(a) \union ToSet(b)
  BY ConcatSet
<1>4. FoundAt(<<>>, heads) /\ ~Refuses(<<>>, pol)
  BY <1>1 DEF FoundAt, Refuses
<1>5. ASSUME NEW d \in Diff
      PROVE  /\ d.path[1] \in heads => FoundAt(<<d>>, heads)
             /\ Refuses(<<d>>, pol) <=> Rejects(d, pol)
  BY <1>2 DEF FoundAt, Refuses
<1>6. ASSUME NEW a \in Seq(Diff), NEW b \in Seq(Diff)
      PROVE  /\ Refuses(a \o b, pol) <=> Refuses(a, pol) \/ Refuses(b, pol)
             /\ FoundAt(a, heads) /\ FoundAt(b, heads) => FoundAt(a \o b, heads)
  BY <1>3 DEF FoundAt, Refuses
<1> QED
  BY <1>4, <1>5, <1>6

\* What is found over several places is refused when one of them is.
LEMMA FlattenFound ==
    ASSUME NEW pol, NEW heads, NEW n \in Nat, NEW ss,
           ss = [i \in 1..n |-> ss[i]], \A i \in 1..n : FoundAt(ss[i], heads)
    PROVE  /\ FoundAt(FlattenSeq(ss), heads)
           /\ Refuses(FlattenSeq(ss), pol) <=> \E i \in 1..n : Refuses(ss[i], pol)
<1>1. ss \in [1..n -> Seq(Diff)]
  BY DEF FoundAt
<1>2. /\ FlattenSeq(ss) \in Seq(Diff)
      /\ ToSet(FlattenSeq(ss)) = UNION {ToSet(ss[i]) : i \in 1..n}
  BY <1>1, FlattenMembers
<1> DEFINE found == FlattenSeq(ss)
<1> HIDE DEF found
<1>3. \A d : d \in ToSet(found) <=> \E i \in 1..n : d \in ToSet(ss[i])
  BY <1>2, Zenon DEF found
<1>4. \A d \in ToSet(found) : d.path[1] \in heads
  BY <1>3, Zenon DEF FoundAt
<1>5. FoundAt(found, heads)
  BY <1>2, <1>4, Zenon DEF FoundAt, found
<1>6. Refuses(found, pol) <=> \E i \in 1..n : Refuses(ss[i], pol)
  BY <1>3, ZenonT(30) DEF Refuses
<1> QED
  BY <1>5, <1>6 DEF found

\* Names are compared as the policy says.
LEMMA SameNameMode ==
    ASSUME NEW pol \in Policies, NEW a, NEW b
    PROVE  SameName(a, b, Mode(pol).ci) <=> SameName(a, b, FoldsCase(pol))
BY ModeFacts DEF SameName

\* By position a name plays no part; elsewhere names are compared.
LEMMA NamedFacts ==
    ASSUME NEW pol \in Policies, NEW name, NEW field
    PROVE  /\ ~ByIndex(pol) =>
                (Named(name, field, pol) <=> SameName(name, field.name, FoldsCase(pol)))
           /\ pol # "ExactByPosition" =>
                (Named(name, field, pol) <=> SameName(name, field.name, FoldsCase(pol)))
           /\ pol = "ExactByPosition" => Named(name, field, pol)
BY DEF Named, ByIndex

\* A set of numbers has a least one.
LEMMA LeastExists ==
    ASSUME NEW S, S \subseteq Nat, S # {}
    PROVE  Min(S) \in S /\ \A j \in S : Min(S) <= j
<1> DEFINE Lower == {n \in Nat : \A j \in S : n < j}
<1>1. PICK e \in S : TRUE
  OBVIOUS
<1>2. e \notin Lower /\ e \in Nat
  BY <1>1
<1>3. \E i \in S : \A j \in S : i <= j
  <2>1. CASE 0 \in S
    BY <2>1
  <2>2. CASE 0 \notin S
    <3>1. 0 \in Lower
      BY <2>2
    <3>2. ~(Nat \subseteq Lower)
      BY <1>2
    <3>3. \E n \in Nat : n \in Lower /\ n + 1 \notin Lower
      <4> HIDE DEF Lower
      <4> QED
        BY <3>1, <3>2, ShapeLevels!NatSetInduction
    <3>4. PICK n \in Nat : n \in Lower /\ n + 1 \notin Lower
      BY <3>3
    <3>5. PICK j \in S : ~(n + 1 < j)
      BY <3>4
    <3>6. j = n + 1
      BY <3>4, <3>5
    <3>7. \A k \in S : j <= k
      BY <3>4, <3>6
    <3> QED
      BY <3>7
  <2> QED
    BY <2>1, <2>2
<1>4. Min(S) = CHOOSE i \in S : \A j \in S : i <= j
  BY DEF Min
<1> QED
  BY <1>3, <1>4

\* The places of a name are indices of its fields.
LEMMA PlacesFacts ==
    ASSUME NEW S, NEW pol \in Policies, ~ByIndex(pol), NEW p \in Seq(FieldShapes(S)),
           NEW field
    PROVE  LET places == Places(p, field.name, Mode(pol).ci)
           IN  /\ places \subseteq 1..Len(p)
               /\ \A j \in 1..Len(p) : j \in places <=> Named(p[j].name, field, pol)
               /\ places # {} => Min(places) \in places
               /\ Distinct(p, pol) => \A i, j \in places : i = j
<1> DEFINE places == Places(p, field.name, Mode(pol).ci)
<1>1. DOMAIN p = 1..Len(p) /\ Len(p) \in Nat
  OBVIOUS
<1>2. \A j : j \in places <=> j \in 1..Len(p) /\ SameName(p[j].name, field.name, Mode(pol).ci)
  BY <1>1 DEF Places
<1>3. \A j : j \in places <=> j \in 1..Len(p) /\ SameName(p[j].name, field.name, FoldsCase(pol))
  BY <1>2, SameNameMode
<1> HIDE DEF places
<1>4. \A j \in 1..Len(p) : j \in places <=> Named(p[j].name, field, pol)
  BY <1>3, NamedFacts
<1>5. places \subseteq 1..Len(p) /\ places \subseteq Nat
  BY <1>1, <1>3
<1>6. places # {} => Min(places) \in places
  BY <1>5, LeastExists
<1>7. ASSUME Distinct(p, pol), NEW i \in places, NEW j \in places PROVE i = j
  <2>1. FoldsCase(pol) \in BOOLEAN
    BY DEF FoldsCase
  <2>2. SameName(p[i].name, p[j].name, FoldsCase(pol))
    BY <1>3, <2>1, NameFacts
  <2> QED
    BY <1>1, <1>5, <1>7, <2>2 DEF Distinct
<1> QED
  BY <1>4, <1>5, <1>6, <1>7 DEF places

\* A contract's field finds a difference that is refused exactly when its match
\* does not fit.
LEMMA MatchedFacts ==
    ASSUME NEW S, NEW pol \in Enforced, ~ByIndex(pol), NEW fit, NEW below,
           ComparesBelow(below, S, pol, fit), NEW p \in Seq(FieldShapes(S)), Distinct(p, pol),
           NEW field \in FieldShapes(S), NEW path \in Paths, NEW heads,
           AppendSegment(path, field.name)[1] \in heads
    PROVE  /\ FoundAt(Matched(p, field, path, Mode(pol), below), heads)
           /\ Refuses(Matched(p, field, path, Mode(pol), below), pol) <=>
                ~ \/ /\ MayBeAbsent(field, pol)
                     /\ \A j \in 1..Len(p) : ~Named(p[j].name, field, pol)
                  \/ \E j \in 1..Len(p) :
                        Named(p[j].name, field, pol) /\ <<p[j].shape, field.shape>> \in fit
<1> DEFINE places == Places(p, field.name, Mode(pol).ci)
           at == AppendSegment(path, field.name)
           found == Matched(p, field, path, Mode(pol), below)
<1>1. pol \in Policies /\ field.name \in Name /\ field.shape \in S
  BY DEF Enforced, FieldShapes
<1>2. /\ places \subseteq 1..Len(p)
      /\ \A j \in 1..Len(p) : j \in places <=> Named(p[j].name, field, pol)
      /\ places # {} => Min(places) \in places
      /\ \A i, j \in places : i = j
  BY <1>1, PlacesFacts
<1>3. at \in Paths /\ at # <<>> /\ at[1] \in heads
  BY <1>1, PathFacts
<1>4. found = IF places = {} THEN <<Missing(at, field)>>
              ELSE below[p[Min(places)].shape][field.shape][at]
  BY DEF Matched
<1> HIDE DEF places, at, found
<1>5. CASE places = {}
  <2>1. /\ Missing(at, field) \in Diff /\ Missing(at, field).path = at
        /\ Rejects(Missing(at, field), pol) <=> ~MayBeAbsent(field, pol)
    BY <1>3, DiffFacts
  <2>2. /\ FoundAt(<<Missing(at, field)>>, heads)
        /\ Refuses(<<Missing(at, field)>>, pol) <=> ~MayBeAbsent(field, pol)
    BY <1>3, <2>1, FoundFacts
  <2>3. \A j \in 1..Len(p) : ~Named(p[j].name, field, pol)
    BY <1>2, <1>5
  <2> QED
    BY <1>4, <1>5, <2>2, <2>3 DEF found
<1>6. CASE places # {}
  <2> DEFINE m == Min(places)
  <2>1. m \in places /\ m \in 1..Len(p)
    BY <1>2, <1>6
  <2> HIDE DEF m
  <2>0. p[m] \in FieldShapes(S)
    BY <2>1
  <2>2. p[m].shape \in S
    BY <2>0 DEF FieldShapes
  <2> DEFINE b == below[p[m].shape][field.shape][at]
  <2>3. /\ b \in Seq(Diff) /\ FoundAt(b, {at[1]})
        /\ Refuses(b, pol) <=> <<p[m].shape, field.shape>> \notin fit
    BY <1>1, <1>3, <2>2 DEF ComparesBelow
  <2>4. found = b
    BY <1>4, <1>6 DEF m
  <2>5. \A j \in 1..Len(p) : Named(p[j].name, field, pol) <=> j = m
    BY <1>2, <2>1
  <2> HIDE DEF b
  <2>6. FoundAt(b, heads)
    BY <1>3, <2>3 DEF FoundAt
  <2> QED
    BY <2>1, <2>3, <2>4, <2>5, <2>6 DEF found
<1> QED
  BY <1>5, <1>6

\* A producer's field that has no match is an Extra difference.
LEMMA UnmatchedFacts ==
    ASSUME NEW S, NEW pol \in Enforced, ~ByIndex(pol), NEW c \in Seq(FieldShapes(S)),
           NEW field \in FieldShapes(S), NEW path \in Paths, NEW heads,
           AppendSegment(path, field.name)[1] \in heads
    PROVE  /\ FoundAt(Unmatched(c, field, path, Mode(pol)), heads)
           /\ Refuses(Unmatched(c, field, path, Mode(pol)), pol) <=>
                ~(MayBeUnknown(pol) \/ \E i \in 1..Len(c) : Named(field.name, c[i], pol))
<1> DEFINE places == Places(c, field.name, Mode(pol).ci)
           at == AppendSegment(path, field.name)
<1>1. pol \in Policies /\ field.name \in Name
  BY DEF Enforced, FieldShapes
<1>2. /\ places \subseteq 1..Len(c)
      /\ \A j \in 1..Len(c) : j \in places <=> Named(c[j].name, field, pol)
  BY <1>1, PlacesFacts
<1>3. at \in Paths /\ at[1] \in heads
  BY <1>1, PathFacts
<1>4. FoldsCase(pol) \in BOOLEAN
  BY DEF FoldsCase
<1>5. \A j \in 1..Len(c) : Named(c[j].name, field, pol) <=> Named(field.name, c[j], pol)
  BY <1>1, <1>4, NamedFacts, NameFacts
<1>6. places = {} <=> ~ \E i \in 1..Len(c) : Named(field.name, c[i], pol)
  BY <1>2, <1>5
<1>7. Unmatched(c, field, path, Mode(pol)) = IF places = {} THEN <<Extra(at)>> ELSE <<>>
  BY DEF Unmatched
<1> HIDE DEF places, at
<1>8. /\ Extra(at) \in Diff /\ Extra(at).path = at
      /\ Rejects(Extra(at), pol) <=> ~MayBeUnknown(pol)
  BY <1>3, DiffFacts
<1>9. /\ FoundAt(<<Extra(at)>>, heads) /\ FoundAt(<<>>, heads) /\ ~Refuses(<<>>, pol)
      /\ Refuses(<<Extra(at)>>, pol) <=> ~MayBeUnknown(pol)
  BY <1>3, <1>8, FoundFacts
<1> QED
  BY <1>6, <1>7, <1>9

\* duplicate_field_name finds a field whenever two of them share a name.
LEMMA DuplicatesFound ==
    ASSUME NEW S, NEW pol \in Policies, NEW fields \in Seq(FieldShapes(S))
    PROVE  \/ Distinct(fields, pol) /\ DuplicateNames(fields, Mode(pol).ci) = <<>>
           \/ /\ ~Distinct(fields, pol)
              /\ \E i \in 1..Len(fields) :
                    DuplicateNames(fields, Mode(pol).ci) = <<fields[i].name>>
<1> DEFINE ci == Mode(pol).ci
           repeated == {i \in DOMAIN fields : Repeats(fields, i, ci) # {}}
<1>1. DOMAIN fields = 1..Len(fields) /\ Len(fields) \in Nat
  OBVIOUS
<1>2. \A i \in 1..Len(fields) : \A j : j \in Repeats(fields, i, ci) <=>
         j \in 1..Len(fields) /\ i < j
         /\ SameName(fields[i].name, fields[j].name, FoldsCase(pol))
  BY <1>1, SameNameMode DEF Repeats
<1>3. DuplicateNames(fields, ci) =
        IF repeated = {} THEN <<>> ELSE <<fields[Min(Repeats(fields, Min(repeated), ci))].name>>
  BY DEF DuplicateNames
<1>4. FoldsCase(pol) \in BOOLEAN
  BY DEF FoldsCase
<1>5. repeated = {} <=> Distinct(fields, pol)
  <2>1. ASSUME Distinct(fields, pol), NEW i \in repeated PROVE FALSE
    BY <1>1, <1>2, <2>1 DEF Distinct
  <2>2. ASSUME repeated = {}, NEW i \in 1..Len(fields), NEW k \in 1..Len(fields),
               SameName(fields[i].name, fields[k].name, FoldsCase(pol)), i # k
        PROVE  FALSE
    <3>1. SameName(fields[k].name, fields[i].name, FoldsCase(pol))
      BY <1>4, <2>2, NameFacts
    <3>2. k \in Repeats(fields, i, ci) \/ i \in Repeats(fields, k, ci)
      BY <1>1, <1>2, <2>2, <3>1
    <3> QED
      BY <1>1, <2>2, <3>2
  <2> QED
    BY <1>1, <2>1, <2>2 DEF Distinct
<1>6. CASE repeated = {}
  BY <1>3, <1>5, <1>6
<1>7. CASE repeated # {}
  <2>1. repeated \subseteq Nat
    BY <1>1
  <2> DEFINE i == Min(repeated)
             j == Min(Repeats(fields, i, ci))
  <2> HIDE DEF ci
  <2>2. i \in repeated
    BY <1>7, <2>1, LeastExists
  <2>3. i \in 1..Len(fields) /\ Repeats(fields, i, ci) # {}
    BY <1>1, <2>2
  <2> HIDE DEF repeated, i
  <2>4. Repeats(fields, i, ci) \subseteq 1..Len(fields)
    BY <1>2, <2>3
  <2>5. Repeats(fields, i, ci) \subseteq Nat
    BY <1>1, <2>4
  <2>6. j \in Repeats(fields, i, ci)
    BY <2>3, <2>5, LeastExists
  <2>7. j \in 1..Len(fields) /\ DuplicateNames(fields, ci) = <<fields[j].name>>
    BY <1>3, <1>7, <2>4, <2>6 DEF i
  <2> QED
    BY <1>5, <1>7, <2>7 DEF ci
<1> QED
  BY <1>6, <1>7

\* The fields of a struct at a path lie at heads.
HeadsOf(fields, path, heads) ==
    \A i \in 1..Len(fields) : AppendSegment(path, fields[i].name)[1] \in heads

\* The parts of a field.
LEMMA FieldFacts ==
    ASSUME NEW S, NEW fields \in Seq(FieldShapes(S))
    PROVE  \A i \in 1..Len(fields) :
              /\ fields[i] \in FieldShapes(S) /\ fields[i].name \in Name
              /\ fields[i].shape \in S /\ fields[i].default \in BOOLEAN
<1> TAKE i \in 1..Len(fields)
<1>1. fields[i] \in FieldShapes(S)
  OBVIOUS
<1> QED
  BY <1>1, Zenon DEF FieldShapes

\* A duplicate name is one of the fields' names.
LEMMA DuplicateHead ==
    ASSUME NEW S, NEW pol \in Enforced, NEW p \in Seq(FieldShapes(S)),
           NEW c \in Seq(FieldShapes(S)), NEW path \in Paths, NEW heads,
           HeadsOf(p, path, heads), HeadsOf(c, path, heads)
    PROVE  LET ci == Mode(pol).ci
               duplicates == DuplicateNames(p, ci) \o DuplicateNames(c, ci)
           IN  /\ duplicates = <<>> <=> Distinct(p, pol) /\ Distinct(c, pol)
               /\ duplicates # <<>> =>
                    /\ FoundAt(<<Mismatch(AppendSegment(path, duplicates[1]))>>, heads)
                    /\ Refuses(<<Mismatch(AppendSegment(path, duplicates[1]))>>, pol)
<1> DEFINE ci == Mode(pol).ci
           a == DuplicateNames(p, ci)
           b == DuplicateNames(c, ci)
<1>0. pol \in Policies
  BY DEF Enforced
<1>1. \/ Distinct(p, pol) /\ a = <<>>
      \/ ~Distinct(p, pol) /\ \E i \in 1..Len(p) : a = <<p[i].name>>
  BY <1>0, DuplicatesFound
<1>2. \/ Distinct(c, pol) /\ b = <<>>
      \/ ~Distinct(c, pol) /\ \E i \in 1..Len(c) : b = <<c[i].name>>
  BY <1>0, DuplicatesFound
<1> HIDE DEF a, b
<1>3. \A i \in 1..Len(p) : p[i].name \in Name
  BY FieldFacts
<1>4. \A i \in 1..Len(c) : c[i].name \in Name
  BY FieldFacts
<1>5. a \in Seq(Name) /\ b \in Seq(Name)
  <2>1. <<>> \in Seq(Name) /\ \A n \in Name : <<n>> \in Seq(Name)
    OBVIOUS
  <2>2. a \in Seq(Name)
    BY <1>1, <1>3, <2>1, Zenon
  <2>3. b \in Seq(Name)
    BY <1>2, <1>4, <2>1, Zenon
  <2> QED
    BY <2>2, <2>3
<1>6. /\ a \o b = <<>> <=> a = <<>> /\ b = <<>>
      /\ a # <<>> => (a \o b)[1] = a[1]
      /\ a = <<>> => a \o b = b
  BY <1>5
<1>7. a \o b = <<>> <=> Distinct(p, pol) /\ Distinct(c, pol)
  <2>1. \A n : <<n>> # <<>>
    OBVIOUS
  <2> QED
    BY <1>1, <1>2, <1>6, <2>1, Zenon
<1>8. ASSUME a \o b # <<>>
      PROVE  \E segment \in Name :
                (a \o b)[1] = segment /\ AppendSegment(path, segment)[1] \in heads
  <2>1. CASE a # <<>>
    <3>1. PICK i \in 1..Len(p) : a = <<p[i].name>>
      BY <1>1, <2>1
    <3>2. (a \o b)[1] = p[i].name
      BY <1>6, <2>1, <3>1
    <3> QED
      BY <1>3, <3>1, <3>2 DEF HeadsOf
  <2>2. CASE a = <<>>
    <3>1. b # <<>> /\ a \o b = b
      BY <1>6, <1>8, <2>2
    <3>2. PICK i \in 1..Len(c) : b = <<c[i].name>>
      BY <1>2, <3>1
    <3>3. (a \o b)[1] = c[i].name
      BY <3>1, <3>2
    <3> QED
      BY <1>4, <3>2, <3>3 DEF HeadsOf
  <2> QED
    BY <2>1, <2>2
<1>9. ASSUME a \o b # <<>>
      PROVE  /\ FoundAt(<<Mismatch(AppendSegment(path, (a \o b)[1]))>>, heads)
             /\ Refuses(<<Mismatch(AppendSegment(path, (a \o b)[1]))>>, pol)
  <2>1. PICK segment \in Name :
            (a \o b)[1] = segment /\ AppendSegment(path, segment)[1] \in heads
    BY <1>8, <1>9
  <2> DEFINE at == AppendSegment(path, segment)
  <2>2. at \in Paths
    BY PathFacts
  <2>3. at[1] \in heads
    BY <2>1
  <2> HIDE DEF at
  <2>4. /\ Mismatch(at) \in Diff /\ Mismatch(at).path = at /\ Rejects(Mismatch(at), pol)
    BY <2>2, DiffFacts
  <2>5. FoundAt(<<Mismatch(at)>>, heads) /\ Refuses(<<Mismatch(at)>>, pol)
    BY <2>3, <2>4, FoundFacts
  <2> QED
    BY <2>1, <2>5 DEF at
<1> QED
  BY <1>7, <1>9 DEF a, b

\* The comparison by name refuses exactly the fields that do not fit by name.
LEMMA ByNameFinds ==
    ASSUME NEW S, NEW pol \in Enforced, ~ByIndex(pol), NEW fit, NEW below,
           ComparesBelow(below, S, pol, fit), NEW p \in Seq(FieldShapes(S)),
           NEW c \in Seq(FieldShapes(S)), NEW path \in Paths, NEW heads,
           HeadsOf(p, path, heads), HeadsOf(c, path, heads)
    PROVE  LET found == CompareByName(p, c, path, Mode(pol), below)
           IN  FoundAt(found, heads) /\ (Refuses(found, pol) <=> ~FitByName(p, c, pol, fit))
<1> DEFINE mode == Mode(pol)
           duplicates == DuplicateNames(p, mode.ci) \o DuplicateNames(c, mode.ci)
           ms == [i \in DOMAIN c |-> Matched(p, c[i], path, mode, below)]
           us == [i \in DOMAIN p |-> Unmatched(c, p[i], path, mode)]
           found == CompareByName(p, c, path, mode, below)
<1>1. /\ duplicates = <<>> <=> Distinct(p, pol) /\ Distinct(c, pol)
      /\ duplicates # <<>> =>
            /\ FoundAt(<<Mismatch(AppendSegment(path, duplicates[1]))>>, heads)
            /\ Refuses(<<Mismatch(AppendSegment(path, duplicates[1]))>>, pol)
  BY DuplicateHead
<1>2. found = IF duplicates # <<>> THEN <<Mismatch(AppendSegment(path, duplicates[1]))>>
              ELSE FlattenSeq(ms) \o FlattenSeq(us)
  BY DEF CompareByName
<1>3. DOMAIN c = 1..Len(c) /\ DOMAIN p = 1..Len(p) /\ Len(c) \in Nat /\ Len(p) \in Nat
  OBVIOUS
<1> HIDE DEF duplicates, found, mode
<1>4. CASE duplicates # <<>>
  BY <1>1, <1>2, <1>4, Zenon DEF FitByName, found, mode
<1>5. CASE duplicates = <<>>
  <2>1. Distinct(p, pol) /\ Distinct(c, pol)
    BY <1>1, <1>5
  <2> DEFINE MatchedOK(i) ==
               \/ /\ MayBeAbsent(c[i], pol)
                  /\ \A j \in 1..Len(p) : ~Named(p[j].name, c[i], pol)
               \/ \E j \in 1..Len(p) :
                     Named(p[j].name, c[i], pol) /\ <<p[j].shape, c[i].shape>> \in fit
             KnownOK(j) == MayBeUnknown(pol) \/ \E i \in 1..Len(c) : Named(p[j].name, c[i], pol)
  <2>2. ASSUME NEW i \in 1..Len(c)
        PROVE  FoundAt(ms[i], heads) /\ (Refuses(ms[i], pol) <=> ~MatchedOK(i))
    <3>1. c[i] \in FieldShapes(S) /\ AppendSegment(path, c[i].name)[1] \in heads
      BY DEF HeadsOf
    <3> DEFINE field == c[i]
    <3>2. ms[i] = Matched(p, field, path, Mode(pol), below)
      BY <1>3 DEF mode
    <3> HIDE DEF field, ms
    <3>3. /\ FoundAt(Matched(p, field, path, Mode(pol), below), heads)
          /\ Refuses(Matched(p, field, path, Mode(pol), below), pol) <=>
                ~ \/ /\ MayBeAbsent(field, pol)
                     /\ \A j \in 1..Len(p) : ~Named(p[j].name, field, pol)
                  \/ \E j \in 1..Len(p) :
                        Named(p[j].name, field, pol) /\ <<p[j].shape, field.shape>> \in fit
      BY <2>1, <3>1, MatchedFacts DEF field
    <3> QED
      BY <3>2, <3>3 DEF field
  <2>3. ASSUME NEW j \in 1..Len(p)
        PROVE  FoundAt(us[j], heads) /\ (Refuses(us[j], pol) <=> ~KnownOK(j))
    <3>1. p[j] \in FieldShapes(S) /\ AppendSegment(path, p[j].name)[1] \in heads
      BY DEF HeadsOf
    <3> DEFINE field == p[j]
    <3>2. us[j] = Unmatched(c, field, path, Mode(pol))
      BY <1>3 DEF mode
    <3> HIDE DEF field, us
    <3>3. /\ FoundAt(Unmatched(c, field, path, Mode(pol)), heads)
          /\ Refuses(Unmatched(c, field, path, Mode(pol)), pol) <=>
                ~(MayBeUnknown(pol) \/ \E i \in 1..Len(c) : Named(field.name, c[i], pol))
      BY <3>1, UnmatchedFacts DEF field
    <3> QED
      BY <3>2, <3>3 DEF field
  <2>4. ms = [i \in 1..Len(c) |-> ms[i]] /\ us = [i \in 1..Len(p) |-> us[i]]
    BY <1>3
  <2> HIDE DEF ms, us, MatchedOK, KnownOK
  <2>5. /\ FoundAt(FlattenSeq(ms), heads)
        /\ Refuses(FlattenSeq(ms), pol) <=> \E i \in 1..Len(c) : Refuses(ms[i], pol)
    BY <1>3, <2>2, <2>4, FlattenFound
  <2>6. /\ FoundAt(FlattenSeq(us), heads)
        /\ Refuses(FlattenSeq(us), pol) <=> \E i \in 1..Len(p) : Refuses(us[i], pol)
    BY <1>3, <2>3, <2>4, FlattenFound
  <2>7. /\ FoundAt(FlattenSeq(ms) \o FlattenSeq(us), heads)
        /\ Refuses(FlattenSeq(ms) \o FlattenSeq(us), pol)
              <=> Refuses(FlattenSeq(ms), pol) \/ Refuses(FlattenSeq(us), pol)
    BY <2>5, <2>6, FoundFacts DEF FoundAt
  <2>8. FitByName(p, c, pol, fit) <=>
            (\A i \in 1..Len(c) : MatchedOK(i)) /\ (\A j \in 1..Len(p) : KnownOK(j))
    BY <2>1 DEF FitByName, MatchedOK, KnownOK
  <2>9. found = FlattenSeq(ms) \o FlattenSeq(us)
    BY <1>2, <1>5
  <2>10. FoundAt(found, heads) /\ (Refuses(found, pol) <=> ~FitByName(p, c, pol, fit))
    BY <2>2, <2>3, <2>5, <2>6, <2>7, <2>8, <2>9
  <2> QED
    BY <2>10 DEF found, mode
<1> QED
  BY <1>4, <1>5

\* A marker is a name.
LEMMA MarkerFacts == \A text \in Markers : Marker(text) \in Name
<1> TAKE text \in Markers
<1>1. text \in STRING
  BY LiteralsAssumption
<1>2. <<text, text>> \in STRING \X STRING
  BY <1>1
<1> QED
  BY <1>2 DEF Marker, Name

\* Two fields at one place: the name under an ordered policy, then the shapes.
LEMMA PairedFinds ==
    ASSUME NEW S, NEW pol \in Enforced, ByIndex(pol), NEW fit, NEW below,
           ComparesBelow(below, S, pol, fit), NEW p \in FieldShapes(S),
           NEW c \in FieldShapes(S), NEW path \in Paths, NEW heads,
           AppendSegment(path, p.name)[1] \in heads, AppendSegment(path, c.name)[1] \in heads
    PROVE  LET found == Paired(p, c, path, Mode(pol), below)
           IN  /\ FoundAt(found, heads)
               /\ Refuses(found, pol)
                    <=> ~(Named(p.name, c, pol) /\ <<p.shape, c.shape>> \in fit)
<1> DEFINE mode == Mode(pol)
           segment == IF mode.byPos THEN p.name ELSE c.name
           at == AppendSegment(path, segment)
           renamed == mode.ordered /\ ~SameName(p.name, c.name, mode.ci)
           spot == AppendSegment(at, Marker("(name)"))
           name == IF renamed THEN <<Mismatch(spot)>> ELSE <<>>
           shapes == below[p.shape][c.shape][at]
<1>0. pol \in Policies
  BY DEF Enforced
<1>1. p.name \in Name /\ c.name \in Name /\ p.shape \in S /\ c.shape \in S
  BY DEF FieldShapes
<1>2. segment \in Name /\ AppendSegment(path, segment)[1] \in heads
  BY <1>1
<1>3. at \in Paths /\ at # <<>> /\ at[1] \in heads
  BY <1>2, PathFacts
<1>4. Marker("(name)") \in Name
  BY MarkerFacts DEF Markers
<1> HIDE DEF segment, at
<1>5. spot \in Paths /\ spot[1] = at[1]
  BY <1>3, <1>4, PathFacts
<1>6. renamed <=> ~Named(p.name, c, pol)
  <2>1. CASE pol = "ExactByPosition"
    BY <1>0, <2>1, ModeFacts, NamedFacts
  <2>2. CASE pol # "ExactByPosition"
    <3>1. mode.ordered
      BY <1>0, <2>2, ModeFacts
    <3>2. SameName(p.name, c.name, mode.ci) <=> SameName(p.name, c.name, FoldsCase(pol))
      BY <1>0, SameNameMode
    <3>3. Named(p.name, c, pol) <=> SameName(p.name, c.name, FoldsCase(pol))
      BY <1>0, <2>2, NamedFacts
    <3> HIDE DEF mode
    <3> QED
      BY <3>1, <3>2, <3>3
  <2> QED
    BY <2>1, <2>2
<1> HIDE DEF renamed, spot
<1>7. FoundAt(name, heads) /\ (Refuses(name, pol) <=> ~Named(p.name, c, pol))
  <2>1. Mismatch(spot) \in Diff /\ Mismatch(spot).path = spot /\ Rejects(Mismatch(spot), pol)
    BY <1>5, DiffFacts
  <2>2. /\ FoundAt(<<Mismatch(spot)>>, heads) /\ Refuses(<<Mismatch(spot)>>, pol)
        /\ FoundAt(<<>>, heads) /\ ~Refuses(<<>>, pol)
    BY <1>3, <1>5, <2>1, FoundFacts
  <2> QED
    BY <1>6, <2>2
<1> HIDE DEF name
<1>8. FoundAt(shapes, heads) /\ (Refuses(shapes, pol) <=> <<p.shape, c.shape>> \notin fit)
  <2>1. /\ FoundAt(shapes, {at[1]})
        /\ Refuses(shapes, pol) <=> <<p.shape, c.shape>> \notin fit
    BY <1>1, <1>3 DEF ComparesBelow
  <2> HIDE DEF shapes
  <2> QED
    BY <1>3, <2>1 DEF FoundAt
<1>9. Paired(p, c, path, Mode(pol), below) = name \o shapes
  BY DEF Paired, name, renamed, spot, at, segment
<1> HIDE DEF shapes
<1>10. /\ FoundAt(name \o shapes, heads)
       /\ Refuses(name \o shapes, pol) <=> Refuses(name, pol) \/ Refuses(shapes, pol)
  BY <1>7, <1>8, FoundFacts DEF FoundAt
<1> QED
  BY <1>7, <1>8, <1>9, <1>10

\* A sequence of single differences.
LEMMA SinglesFind ==
    ASSUME NEW n \in Nat, NEW found, found = [i \in 1..n |-> found[i]], NEW pol, NEW heads,
           \A i \in 1..n : found[i] \in Diff /\ found[i].path[1] \in heads
    PROVE  /\ FoundAt(found, heads)
           /\ Refuses(found, pol) <=> \E i \in 1..n : Rejects(found[i], pol)
<1>1. found \in Seq(Diff) /\ DOMAIN found = 1..n
  OBVIOUS
<1>2. ToSet(found) = {found[i] : i \in 1..n}
  BY <1>1 DEF ToSet
<1> QED
  BY <1>1, <1>2 DEF FoundAt, Refuses

\* The comparison by index refuses exactly the fields that do not fit in order.
LEMMA ByIndexFinds ==
    ASSUME NEW S, NEW pol \in Enforced, ByIndex(pol), NEW fit, NEW below,
           ComparesBelow(below, S, pol, fit), NEW p \in Seq(FieldShapes(S)),
           NEW c \in Seq(FieldShapes(S)), NEW path \in Paths, NEW heads,
           HeadsOf(p, path, heads), HeadsOf(c, path, heads)
    PROVE  LET found == CompareByIndex(p, c, path, Mode(pol), below)
           IN  FoundAt(found, heads) /\ (Refuses(found, pol) <=> ~FitInOrder(p, c, pol, fit))
<1> DEFINE mode == Mode(pol)
           shared == IF Len(p) < Len(c) THEN Len(p) ELSE Len(c)
           at(f) == AppendSegment(path, f.name)
           pairs == [i \in 1..shared |-> Paired(p[i], c[i], path, mode, below)]
           lacks == [i \in 1..(Len(c) - shared) |-> Missing(at(c[shared + i]), c[shared + i])]
           more == [i \in 1..(Len(p) - shared) |-> Extra(at(p[shared + i]))]
           found == CompareByIndex(p, c, path, Mode(pol), below)
<1>0. pol \in Policies
  BY DEF Enforced
<1>1. /\ shared \in Nat /\ Len(c) - shared \in Nat /\ Len(p) - shared \in Nat
      /\ shared <= Len(p) /\ shared <= Len(c)
      /\ \A i \in 1..shared : i \in 1..Len(p) /\ i \in 1..Len(c)
      /\ \A i \in 1..(Len(c) - shared) : shared + i \in 1..Len(c)
      /\ \A i \in 1..(Len(p) - shared) : shared + i \in 1..Len(p)
      /\ Len(p) = Len(c) <=> Len(c) - shared = 0 /\ Len(p) - shared = 0
      /\ Len(p) = Len(c) => shared = Len(c)
  OBVIOUS
<1>2. found = FlattenSeq(pairs) \o lacks \o more
  BY DEF CompareByIndex
<1> HIDE DEF shared, found
<1>3. \A i \in 1..Len(p) : p[i] \in FieldShapes(S) /\ at(p[i]) \in Paths /\ at(p[i])[1] \in heads
  BY FieldFacts, PathFacts DEF HeadsOf
<1>4. \A i \in 1..Len(c) : c[i] \in FieldShapes(S) /\ at(c[i]) \in Paths /\ at(c[i])[1] \in heads
  BY FieldFacts, PathFacts DEF HeadsOf
<1>5. ASSUME NEW i \in 1..shared
      PROVE  /\ FoundAt(pairs[i], heads)
             /\ Refuses(pairs[i], pol)
                  <=> ~(Named(p[i].name, c[i], pol) /\ <<p[i].shape, c[i].shape>> \in fit)
  <2> DEFINE f == p[i]  g == c[i]
  <2>1. /\ f \in FieldShapes(S) /\ g \in FieldShapes(S)
        /\ AppendSegment(path, f.name)[1] \in heads /\ AppendSegment(path, g.name)[1] \in heads
    BY <1>1, <1>3, <1>4
  <2>2. pairs[i] = Paired(f, g, path, Mode(pol), below)
    OBVIOUS
  <2> HIDE DEF f, g, pairs
  <2>3. /\ FoundAt(Paired(f, g, path, Mode(pol), below), heads)
        /\ Refuses(Paired(f, g, path, Mode(pol), below), pol)
             <=> ~(Named(f.name, g, pol) /\ <<f.shape, g.shape>> \in fit)
    BY <2>1, PairedFinds
  <2> QED
    BY <2>2, <2>3 DEF f, g
<1>6. ASSUME NEW i \in 1..(Len(c) - shared)
      PROVE  /\ lacks[i] \in Diff /\ lacks[i].path[1] \in heads /\ Rejects(lacks[i], pol)
  <2> DEFINE f == c[shared + i]
  <2>1. f \in FieldShapes(S) /\ at(f) \in Paths /\ at(f)[1] \in heads
    BY <1>1, <1>4
  <2>2. lacks[i] = Missing(at(f), f)
    OBVIOUS
  <2>3. ~MayBeAbsent(f, pol)
    BY DEF MayBeAbsent, ByIndex
  <2> HIDE DEF f, at, lacks
  <2>4. /\ Missing(at(f), f) \in Diff /\ Missing(at(f), f).path = at(f)
        /\ Rejects(Missing(at(f), f), pol)
    BY <2>1, <2>3, DiffFacts
  <2> QED
    BY <2>1, <2>2, <2>4
<1>7. ASSUME NEW i \in 1..(Len(p) - shared)
      PROVE  /\ more[i] \in Diff /\ more[i].path[1] \in heads /\ Rejects(more[i], pol)
  <2> DEFINE f == p[shared + i]
  <2>1. at(f) \in Paths /\ at(f)[1] \in heads
    BY <1>1, <1>3
  <2>2. more[i] = Extra(at(f))
    OBVIOUS
  <2>3. ~MayBeUnknown(pol)
    BY DEF MayBeUnknown, ByIndex
  <2> HIDE DEF f, at, more
  <2>4. /\ Extra(at(f)) \in Diff /\ Extra(at(f)).path = at(f) /\ Rejects(Extra(at(f)), pol)
    BY <2>1, <2>3, DiffFacts
  <2> QED
    BY <2>1, <2>2, <2>4
<1>8. /\ pairs = [i \in 1..shared |-> pairs[i]]
      /\ lacks = [i \in 1..(Len(c) - shared) |-> lacks[i]]
      /\ more = [i \in 1..(Len(p) - shared) |-> more[i]]
  OBVIOUS
<1> HIDE DEF pairs, lacks, more
<1>9. /\ FoundAt(FlattenSeq(pairs), heads)
      /\ Refuses(FlattenSeq(pairs), pol) <=> \E i \in 1..shared : Refuses(pairs[i], pol)
  BY <1>1, <1>5, <1>8, FlattenFound
<1>10. /\ FoundAt(lacks, heads)
       /\ Refuses(lacks, pol) <=> \E i \in 1..(Len(c) - shared) : Rejects(lacks[i], pol)
  <2> DEFINE n == Len(c) - shared
  <2>1. n \in Nat /\ lacks = [i \in 1..n |-> lacks[i]]
        /\ \A i \in 1..n : lacks[i] \in Diff /\ lacks[i].path[1] \in heads
    BY <1>1, <1>6, <1>8
  <2> HIDE DEF n
  <2>2. /\ FoundAt(lacks, heads)
        /\ Refuses(lacks, pol) <=> \E i \in 1..n : Rejects(lacks[i], pol)
    BY <2>1, SinglesFind
  <2> QED
    BY <2>2 DEF n
<1>11. /\ FoundAt(more, heads)
       /\ Refuses(more, pol) <=> \E i \in 1..(Len(p) - shared) : Rejects(more[i], pol)
  <2> DEFINE n == Len(p) - shared
  <2>1. n \in Nat /\ more = [i \in 1..n |-> more[i]]
        /\ \A i \in 1..n : more[i] \in Diff /\ more[i].path[1] \in heads
    BY <1>1, <1>7, <1>8
  <2> HIDE DEF n
  <2>2. /\ FoundAt(more, heads)
        /\ Refuses(more, pol) <=> \E i \in 1..n : Rejects(more[i], pol)
    BY <2>1, SinglesFind
  <2> QED
    BY <2>2 DEF n
<1>12. /\ FoundAt(found, heads)
       /\ Refuses(found, pol) <=>
            Refuses(FlattenSeq(pairs), pol) \/ Refuses(lacks, pol) \/ Refuses(more, pol)
  <2> DEFINE a == FlattenSeq(pairs)
  <2>1. a \in Seq(Diff) /\ lacks \in Seq(Diff) /\ more \in Seq(Diff)
    BY <1>9, <1>10, <1>11 DEF FoundAt
  <2> HIDE DEF a
  <2>2. /\ FoundAt(a \o lacks, heads)
        /\ Refuses(a \o lacks, pol) <=> Refuses(a, pol) \/ Refuses(lacks, pol)
    BY <1>9, <1>10, <2>1, FoundFacts DEF a
  <2>3. a \o lacks \in Seq(Diff)
    BY <2>1
  <2> DEFINE b == a \o lacks
  <2> HIDE DEF b
  <2>4. FoundAt(b, heads) /\ b \in Seq(Diff)
    BY <2>2, <2>3 DEF b
  <2>5. /\ FoundAt(b \o more, heads)
        /\ Refuses(b \o more, pol) <=> Refuses(b, pol) \/ Refuses(more, pol)
    BY <1>11, <2>1, <2>4, FoundFacts
  <2> QED
    BY <1>2, <2>2, <2>5 DEF a, b
<1>13. Refuses(lacks, pol) \/ Refuses(more, pol) <=> Len(p) # Len(c)
  <2>1. \A n \in Nat : (\E i \in 1..n : TRUE) <=> n # 0
    <3>1. \A n \in Nat : n # 0 => 1 \in 1..n
      OBVIOUS
    <3> QED
      BY <3>1
  <2>2. Refuses(lacks, pol) <=> Len(c) - shared # 0
    BY <1>1, <1>6, <1>10, <2>1
  <2>3. Refuses(more, pol) <=> Len(p) - shared # 0
    BY <1>1, <1>7, <1>11, <2>1
  <2> QED
    BY <1>1, <2>2, <2>3
<1>14. Len(p) = Len(c) =>
          (Refuses(FlattenSeq(pairs), pol) <=> ~FitInOrder(p, c, pol, fit))
  BY <1>1, <1>5, <1>9 DEF FitInOrder
<1>15. Len(p) # Len(c) => ~FitInOrder(p, c, pol, fit)
  BY DEF FitInOrder
<1>16. FoundAt(found, heads) /\ (Refuses(found, pol) <=> ~FitInOrder(p, c, pol, fit))
  BY <1>12, <1>13, <1>14, <1>15
<1> QED
  BY <1>16 DEF found

\* The comparison of fields refuses exactly those that do not fit.
LEMMA FieldsFind ==
    ASSUME NEW S, NEW pol \in Enforced, NEW fit, NEW below,
           ComparesBelow(below, S, pol, fit), NEW p \in Seq(FieldShapes(S)),
           NEW c \in Seq(FieldShapes(S)), NEW path \in Paths, NEW heads,
           HeadsOf(p, path, heads), HeadsOf(c, path, heads)
    PROVE  LET found == CompareFields(p, c, path, Mode(pol), below)
           IN  FoundAt(found, heads) /\ (Refuses(found, pol) <=> ~FieldsFit(p, c, pol, fit))
<1>1. Mode(pol).byPos \/ Mode(pol).ordered <=> ByIndex(pol)
  BY ModeFacts DEF Enforced
<1>2. CASE ByIndex(pol)
  BY <1>1, <1>2, ByIndexFinds DEF CompareFields, FieldsFit
<1>3. CASE ~ByIndex(pol)
  BY <1>1, <1>3, ByNameFinds DEF CompareFields, FieldsFit
<1> QED
  BY <1>2, <1>3

\* A shape is of one of five kinds, and is made of its parts.
LEMMA KindFacts ==
    ASSUME NEW S, NEW s \in TypeShapes(S)
    PROVE  \/ s.kind = "Primitive" /\ s.name \in STRING /\ s = Primitive(s.name)
           \/ s.kind = "Optional" /\ s.of \in S /\ s = Optional(s.of)
           \/ s.kind = "Sequence" /\ s.of \in S /\ s = Sequence(s.of)
           \/ s.kind = "Map" /\ s.key \in S /\ s.value \in S /\ s = MapOf(s.key, s.value)
           \/ s.kind = "Struct" /\ s.fields \in Seq(FieldShapes(S)) /\ s = Struct(s.fields)
BY DEF TypeShapes, FieldShapes, Primitive, Optional, Sequence, MapOf, Struct

\* The comparison of two structs refuses exactly those that do not fit, at one
\* of their fields.
LEMMA StructsFind ==
    ASSUME NEW S, NEW pol \in Enforced, NEW fit, NEW below,
           ComparesBelow(below, S, pol, fit), NEW p \in TypeShapes(S), NEW c \in TypeShapes(S),
           p.kind = "Struct", c.kind = "Struct", NEW path \in Paths
    PROVE  LET found == CompareShapes(p, c, path, Mode(pol), below)
           IN  /\ found \in Seq(Diff)
               /\ path # <<>> => FoundAt(found, {path[1]})
               /\ Refuses(found, pol) <=> ~ShapesFit(p, c, pol, fit)
               /\ \A heads : HeadsOf(p.fields, path, heads) /\ HeadsOf(c.fields, path, heads)
                                => FoundAt(found, heads)
<1> DEFINE found == CompareFields(p.fields, c.fields, path, Mode(pol), below)
<1>1. CompareShapes(p, c, path, Mode(pol), below) = found
  BY DEF CompareShapes
<1>2. p.fields \in Seq(FieldShapes(S)) /\ c.fields \in Seq(FieldShapes(S))
  BY KindFacts
<1>3. ShapesFit(p, c, pol, fit) <=> FieldsFit(p.fields, c.fields, pol, fit)
  BY DEF ShapesFit
<1> HIDE DEF found
<1>4. ASSUME NEW heads, HeadsOf(p.fields, path, heads), HeadsOf(c.fields, path, heads)
      PROVE  FoundAt(found, heads) /\ (Refuses(found, pol) <=> ~ShapesFit(p, c, pol, fit))
  BY <1>2, <1>3, <1>4, FieldsFind DEF found
<1>5. \A i \in 1..Len(p.fields) : p.fields[i].name \in Name
  BY <1>2, FieldFacts
<1>6. \A i \in 1..Len(c.fields) : c.fields[i].name \in Name
  BY <1>2, FieldFacts
<1>7. found \in Seq(Diff) /\ (Refuses(found, pol) <=> ~ShapesFit(p, c, pol, fit))
  <2> DEFINE heads == {AppendSegment(path, name)[1] : name \in Name}
  <2>1. HeadsOf(p.fields, path, heads) /\ HeadsOf(c.fields, path, heads)
    BY <1>5, <1>6 DEF HeadsOf
  <2> HIDE DEF heads
  <2> QED
    BY <1>4, <2>1 DEF FoundAt
<1>8. ASSUME path # <<>> PROVE FoundAt(found, {path[1]})
  <2>1. HeadsOf(p.fields, path, {path[1]}) /\ HeadsOf(c.fields, path, {path[1]})
    BY <1>5, <1>6, <1>8, PathFacts DEF HeadsOf
  <2> QED
    BY <1>4, <2>1
<1> QED
  BY <1>1, <1>4, <1>7, <1>8

\* The comparison of two shapes refuses exactly those that do not fit.
LEMMA ShapesFind ==
    ASSUME NEW S, NEW pol \in Enforced, NEW fit, NEW below,
           ComparesBelow(below, S, pol, fit), NEW p \in TypeShapes(S), NEW c \in TypeShapes(S),
           NEW path \in Paths
    PROVE  LET found == CompareShapes(p, c, path, Mode(pol), below)
           IN  /\ found \in Seq(Diff)
               /\ path # <<>> => FoundAt(found, {path[1]})
               /\ Refuses(found, pol) <=> ~ShapesFit(p, c, pol, fit)
<1> DEFINE found == CompareShapes(p, c, path, Mode(pol), below)
           Finds(d) == /\ d \in Seq(Diff)
                       /\ path # <<>> => FoundAt(d, {path[1]})
                       /\ Refuses(d, pol) <=> ~ShapesFit(p, c, pol, fit)
<1>1. ASSUME NEW d, d = <<Mismatch(path)>>, ~ShapesFit(p, c, pol, fit) PROVE Finds(d)
  <2>1. /\ Mismatch(path) \in Diff /\ Mismatch(path).path = path
        /\ Rejects(Mismatch(path), pol)
    BY DiffFacts
  <2>2. Refuses(<<Mismatch(path)>>, pol) /\ FoundAt(<<Mismatch(path)>>, {path[1]})
    BY <2>1, FoundFacts
  <2> QED
    BY <1>1, <2>2 DEF FoundAt
<1>2. CASE p.kind # c.kind
  <2>1. found = <<Mismatch(path)>>
    BY <1>2 DEF CompareShapes
  <2>2. ~ShapesFit(p, c, pol, fit)
    BY <1>2 DEF ShapesFit
  <2> HIDE DEF found, Finds
  <2>3. Finds(found)
    BY <1>1, <2>1, <2>2
  <2> QED
    BY <2>3 DEF found, Finds
<1>3. CASE p.kind = c.kind /\ p.kind = "Primitive"
  <2>1. CASE p.name # c.name
    <3>1. found = <<Mismatch(path)>>
      BY <1>3, <2>1 DEF CompareShapes
    <3>2. ~ShapesFit(p, c, pol, fit)
      BY <1>3, <2>1 DEF ShapesFit
    <3> HIDE DEF found, Finds
    <3>3. Finds(found)
      BY <1>1, <3>1, <3>2
    <3> QED
      BY <3>3 DEF found, Finds
  <2>2. CASE p.name = c.name
    <3>1. found = <<>>
      BY <1>3, <2>2 DEF CompareShapes
    <3>2. ShapesFit(p, c, pol, fit)
      BY <1>3, <2>2 DEF ShapesFit
    <3>3. FoundAt(<<>>, {path[1]}) /\ ~Refuses(<<>>, pol)
      BY FoundFacts
    <3> HIDE DEF found
    <3>4. Finds(found)
      BY <3>1, <3>2, <3>3 DEF FoundAt
    <3> QED
      BY <3>4 DEF found
  <2> QED
    BY <2>1, <2>2
<1>4. CASE p.kind = c.kind /\ p.kind = "Optional"
  <2>1. p.of \in S /\ c.of \in S
    BY <1>4, KindFacts
  <2>2. found = below[p.of][c.of][path]
    BY <1>4 DEF CompareShapes
  <2>3. ShapesFit(p, c, pol, fit) <=> <<p.of, c.of>> \in fit
    BY <1>4 DEF ShapesFit
  <2> HIDE DEF found
  <2>4. Finds(found)
    BY <2>1, <2>2, <2>3 DEF ComparesBelow
  <2> QED
    BY <2>4 DEF found
<1>5. CASE p.kind = c.kind /\ p.kind = "Sequence"
  <2>1. p.of \in S /\ c.of \in S
    BY <1>5, KindFacts
  <2> DEFINE at == AppendSegment(path, Marker("[]"))
  <2>2. found = below[p.of][c.of][at]
    BY <1>5 DEF CompareShapes
  <2>3. ShapesFit(p, c, pol, fit) <=> <<p.of, c.of>> \in fit
    BY <1>5 DEF ShapesFit
  <2>4. at \in Paths /\ at # <<>> /\ (path # <<>> => at[1] = path[1])
    BY PathFacts, MarkerFacts DEF Markers
  <2> HIDE DEF found, at
  <2>5. Finds(found)
    BY <2>1, <2>2, <2>3, <2>4 DEF ComparesBelow
  <2> QED
    BY <2>5 DEF found
<1>6. CASE p.kind = c.kind /\ p.kind = "Map"
  <2>1. p.key \in S /\ c.key \in S /\ p.value \in S /\ c.value \in S
    BY <1>6, KindFacts
  <2> DEFINE atKey == AppendSegment(path, Marker("<key>"))
             atValue == AppendSegment(path, Marker("<value>"))
             a == below[p.key][c.key][atKey]
             b == below[p.value][c.value][atValue]
  <2>2. found = a \o b
    BY <1>6 DEF CompareShapes
  <2>3. ShapesFit(p, c, pol, fit) <=> <<p.key, c.key>> \in fit /\ <<p.value, c.value>> \in fit
    BY <1>6 DEF ShapesFit
  <2>4. /\ atKey \in Paths /\ atKey # <<>> /\ (path # <<>> => atKey[1] = path[1])
        /\ atValue \in Paths /\ atValue # <<>> /\ (path # <<>> => atValue[1] = path[1])
    BY PathFacts, MarkerFacts DEF Markers
  <2> HIDE DEF found, atKey, atValue
  <2>5. /\ a \in Seq(Diff) /\ FoundAt(a, {atKey[1]})
        /\ Refuses(a, pol) <=> <<p.key, c.key>> \notin fit
    BY <2>1, <2>4 DEF ComparesBelow
  <2>6. /\ b \in Seq(Diff) /\ FoundAt(b, {atValue[1]})
        /\ Refuses(b, pol) <=> <<p.value, c.value>> \notin fit
    BY <2>1, <2>4 DEF ComparesBelow
  <2> HIDE DEF a, b
  <2>7. /\ a \o b \in Seq(Diff)
        /\ Refuses(a \o b, pol) <=> Refuses(a, pol) \/ Refuses(b, pol)
    <3>1. a \in Seq(Diff) /\ b \in Seq(Diff)
      BY <2>5, <2>6
    <3>2. Refuses(a \o b, pol) <=> Refuses(a, pol) \/ Refuses(b, pol)
      BY <3>1, FoundFacts, Zenon
    <3> QED
      BY <3>1, <3>2
  <2>9. ASSUME path # <<>> PROVE FoundAt(a \o b, {path[1]})
    <3>1. FoundAt(a, {path[1]}) /\ FoundAt(b, {path[1]})
      BY <2>4, <2>5, <2>6, <2>9
    <3> QED
      BY <2>5, <2>6, <3>1, FoundFacts
  <2>8. Finds(found)
    BY <2>2, <2>3, <2>5, <2>6, <2>7, <2>9
  <2> QED
    BY <2>8 DEF found
<1>7. CASE p.kind = c.kind /\ p.kind = "Struct"
  BY <1>7, StructsFind
<1> QED
  BY <1>2, <1>3, <1>4, <1>5, <1>6, <1>7, KindFacts

-----------------------------------------------------------------------------
(* The verdict, level by level *)

\* The pairs of shapes of at most n levels that the policy accepts.
Fits(n, pol) ==
    {pc \in ShapesTo[n] \X ShapesTo[n] :
        ~Refuses(Differences[n][Mode(pol)][pc[1]][pc[2]][<<>>], pol)}

\* A comparison starts at the empty path.
LEMMA NoPath == <<>> \in Paths
<1>1. <<>> \in Seq(Name) /\ Len(<<>>) = 0 /\ 0 <= MaxPathDepth
  BY BoundsAssumption
<1> QED
  BY <1>1 DEF Paths

\* What fits are pairs of shapes.
LEMMA FitsPairs ==
    ASSUME NEW n, NEW pol, NEW p \in ShapesTo[n], NEW c \in ShapesTo[n]
    PROVE  <<p, c>> \in Fits(n, pol)
             <=> ~Refuses(Differences[n][Mode(pol)][p][c][<<>>], pol)
<1>1. <<p, c>> \in ShapesTo[n] \X ShapesTo[n] /\ <<p, c>>[1] = p /\ <<p, c>>[2] = c
  OBVIOUS
<1> DEFINE pc == <<p, c>>
<1>2. pc \in Fits(n, pol)
        <=> ~Refuses(Differences[n][Mode(pol)][pc[1]][pc[2]][<<>>], pol)
  BY <1>1, Zenon DEF Fits
<1> QED
  BY <1>1, <1>2, Zenon

\* By level: a comparison is refused exactly when the shapes do not fit.
LEMMA VerdictByLevel ==
    ASSUME NEW pol \in Enforced
    PROVE  \A n \in Nat : ComparesBelow(Differences[n][Mode(pol)], ShapesTo[n], pol, Fits(n, pol))
<1> DEFINE S == {n \in Nat :
                    ComparesBelow(Differences[n][Mode(pol)], ShapesTo[n], pol, Fits(n, pol))}
<1>1. 0 \in S
  BY ShapesUnfold DEF ComparesBelow
<1>2. ASSUME NEW n \in Nat, n \in S PROVE n + 1 \in S
  <2> DEFINE below == Differences[n][Mode(pol)]
             found(p, c, path) == Differences[n + 1][Mode(pol)][p][c][path]
  <2>1. ComparesBelow(below, ShapesTo[n], pol, Fits(n, pol))
    BY <1>2
  <2>2. Mode(pol) \in Modes
    BY ModeFacts DEF Enforced
  <2>3. n + 1 \in Nat /\ ShapesTo[n + 1] = TypeShapes(ShapesTo[n])
    BY ShapesUnfold
  <2>4. ASSUME NEW p \in ShapesTo[n + 1], NEW c \in ShapesTo[n + 1], NEW path \in Paths
        PROVE  /\ found(p, c, path) \in Seq(Diff)
               /\ path # <<>> => FoundAt(found(p, c, path), {path[1]})
               /\ Refuses(found(p, c, path), pol) <=> ~ShapesFit(p, c, pol, Fits(n, pol))
    <3>1. found(p, c, path) = CompareShapes(p, c, path, Mode(pol), below)
      BY <2>2, DifferencesUnfold
    <3>2. p \in TypeShapes(ShapesTo[n]) /\ c \in TypeShapes(ShapesTo[n])
      BY <2>3
    <3> HIDE DEF found, below
    <3> QED
      BY <2>1, <3>1, <3>2, ShapesFind
  <2> HIDE DEF found
  <2>5. ASSUME NEW p \in ShapesTo[n + 1], NEW c \in ShapesTo[n + 1]
        PROVE  <<p, c>> \in Fits(n + 1, pol) <=> ShapesFit(p, c, pol, Fits(n, pol))
    BY <2>4, NoPath, FitsPairs DEF found
  <2>6. ComparesBelow(Differences[n + 1][Mode(pol)], ShapesTo[n + 1], pol, Fits(n + 1, pol))
    BY <2>4, <2>5 DEF ComparesBelow, found
  <2> QED
    BY <2>3, <2>6
<1> HIDE DEF S
<1>3. Nat \subseteq S
  BY <1>1, <1>2, ShapeLevels!NatSetInduction
<1> QED
  BY <1>3 DEF S

\* What an enforced policy accepts, from what it accepts a level below.
LEMMA FitsUnfold ==
    ASSUME NEW pol \in Enforced, NEW n \in Nat,
           NEW p \in ShapesTo[n + 1], NEW c \in ShapesTo[n + 1]
    PROVE  <<p, c>> \in Fits(n + 1, pol) <=> ShapesFit(p, c, pol, Fits(n, pol))
<1> DEFINE below == Differences[n][Mode(pol)]
           found == Differences[n + 1][Mode(pol)][p][c][<<>>]
<1>1. ComparesBelow(below, ShapesTo[n], pol, Fits(n, pol))
  BY VerdictByLevel
<1>2. found = CompareShapes(p, c, <<>>, Mode(pol), below)
  BY NoPath, ModeFacts, DifferencesUnfold DEF Enforced
<1>3. p \in TypeShapes(ShapesTo[n]) /\ c \in TypeShapes(ShapesTo[n])
  BY ShapesUnfold
<1> HIDE DEF below, found
<1>4. Refuses(found, pol) <=> ~ShapesFit(p, c, pol, Fits(n, pol))
  BY <1>1, <1>2, <1>3, NoPath, ShapesFind
<1> QED
  BY <1>4, FitsPairs DEF found

-----------------------------------------------------------------------------
(* The policies, level by level *)

\* Whatever fits under one policy fits under another, or fits exchanged, if it
\* does a level below.
StepNests(pol, wider) ==
    \A S, fit, fits :
        (\A a, b \in S : <<a, b>> \in fit => <<a, b>> \in fits)
          => \A p, c \in TypeShapes(S) : ShapesFit(p, c, pol, fit) => ShapesFit(p, c, wider, fits)

\* What fits under a policy fits under the other with the ends exchanged, at
\* one level.
StepExchanges(pol, other) ==
    \A S, fit, fits :
        (\A a, b \in S : <<a, b>> \in fit => <<b, a>> \in fits)
          => \A p, c \in TypeShapes(S) : ShapesFit(p, c, pol, fit) => ShapesFit(c, p, other, fits)

\* What fits under a policy fits under a wider one, at every level.
LEMMA FitsNest ==
    ASSUME NEW pol \in Enforced, NEW wider \in Enforced, StepNests(pol, wider)
    PROVE  \A n \in Nat : \A p, c \in ShapesTo[n] :
                <<p, c>> \in Fits(n, pol) => <<p, c>> \in Fits(n, wider)
<1> DEFINE Nests(n) == \A p, c \in ShapesTo[n] :
                            <<p, c>> \in Fits(n, pol) => <<p, c>> \in Fits(n, wider)
           S == {n \in Nat : Nests(n)}
<1>1. 0 \in S
  BY ShapesUnfold
<1>2. ASSUME NEW n \in Nat, n \in S PROVE n + 1 \in S
  <2>1. ShapesTo[n + 1] = TypeShapes(ShapesTo[n]) /\ n + 1 \in Nat
    BY ShapesUnfold
  <2>2. Nests(n)
    BY <1>2
  <2>3. \A p, c \in TypeShapes(ShapesTo[n]) :
            ShapesFit(p, c, pol, Fits(n, pol)) => ShapesFit(p, c, wider, Fits(n, wider))
    BY <2>2, Zenon DEF StepNests
  <2>4. Nests(n + 1)
    BY <2>1, <2>3, FitsUnfold
  <2> QED
    BY <2>1, <2>4
<1> HIDE DEF S
<1>3. Nat \subseteq S
  BY <1>1, <1>2, ShapeLevels!NatSetInduction
<1> QED
  BY <1>3 DEF S

\* What fits under a policy fits the other way under its converse, at every
\* level.
LEMMA FitsExchange ==
    ASSUME NEW pol \in Enforced, NEW other \in Enforced, StepExchanges(pol, other)
    PROVE  \A n \in Nat : \A p, c \in ShapesTo[n] :
                <<p, c>> \in Fits(n, pol) => <<c, p>> \in Fits(n, other)
<1> DEFINE Exchanged(n) == \A p, c \in ShapesTo[n] :
                            <<p, c>> \in Fits(n, pol) => <<c, p>> \in Fits(n, other)
           S == {n \in Nat : Exchanged(n)}
<1>1. 0 \in S
  BY ShapesUnfold
<1>2. ASSUME NEW n \in Nat, n \in S PROVE n + 1 \in S
  <2>1. ShapesTo[n + 1] = TypeShapes(ShapesTo[n]) /\ n + 1 \in Nat
    BY ShapesUnfold
  <2>2. Exchanged(n)
    BY <1>2
  <2>3. \A p, c \in TypeShapes(ShapesTo[n]) :
            ShapesFit(p, c, pol, Fits(n, pol)) => ShapesFit(c, p, other, Fits(n, other))
    BY <2>2, Zenon DEF StepExchanges
  <2>4. Exchanged(n + 1)
    BY <2>1, <2>3, FitsUnfold
  <2> QED
    BY <2>1, <2>4
<1> HIDE DEF S
<1>3. Nat \subseteq S
  BY <1>1, <1>2, ShapeLevels!NatSetInduction
<1> QED
  BY <1>3 DEF S

\* ExactOrdered is within ExactOrderedCI, and that within ExactByPosition.
LEMMA OrderedNests ==
    /\ StepNests("ExactOrdered", "ExactOrderedCI")
    /\ StepNests("ExactOrderedCI", "ExactByPosition")
<1>1. ASSUME NEW pol, NEW wider, NEW S, NEW fit, NEW fits, ByIndex(pol), ByIndex(wider),
             \A name, field : Named(name, field, pol) => Named(name, field, wider),
             \A a, b \in S : <<a, b>> \in fit => <<a, b>> \in fits,
             NEW p \in TypeShapes(S), NEW c \in TypeShapes(S), ShapesFit(p, c, pol, fit)
      PROVE  ShapesFit(p, c, wider, fits)
  <2>0. p.kind = c.kind
    BY <1>1 DEF ShapesFit
  <2>1. CASE p.kind = "Primitive"
    BY <1>1, <2>1 DEF ShapesFit
  <2>2. CASE p.kind = "Optional"
    BY <1>1, <2>0, <2>2, KindFacts DEF ShapesFit
  <2>3. CASE p.kind = "Sequence"
    BY <1>1, <2>0, <2>3, KindFacts DEF ShapesFit
  <2>4. CASE p.kind = "Map"
    BY <1>1, <2>0, <2>4, KindFacts DEF ShapesFit
  <2>5. CASE p.kind = "Struct"
    <3> DEFINE ps == p.fields  cs == c.fields
    <3>1. ps \in Seq(FieldShapes(S)) /\ cs \in Seq(FieldShapes(S))
      BY <2>0, <2>5, KindFacts
    <3>2. FitInOrder(ps, cs, pol, fit)
      BY <1>1, <2>5 DEF ShapesFit, FieldsFit
    <3> HIDE DEF ps, cs
    <3>3. FitInOrder(ps, cs, wider, fits)
      BY <1>1, <3>1, <3>2, FieldFacts DEF FitInOrder
    <3> QED
      BY <1>1, <2>0, <2>5, <3>3 DEF ShapesFit, FieldsFit, ps, cs
  <2> QED
    BY <2>1, <2>2, <2>3, <2>4, <2>5, KindFacts
<1>2. /\ ByIndex("ExactOrdered") /\ ByIndex("ExactOrderedCI") /\ ByIndex("ExactByPosition")
      /\ \A name, field :
            /\ Named(name, field, "ExactOrdered") => Named(name, field, "ExactOrderedCI")
            /\ Named(name, field, "ExactOrderedCI") => Named(name, field, "ExactByPosition")
  BY DEF ByIndex, Named, SameName, FoldsCase
<1>3. StepNests("ExactOrdered", "ExactOrderedCI")
  BY <1>1, <1>2, Zenon DEF StepNests
<1>4. StepNests("ExactOrderedCI", "ExactByPosition")
  BY <1>1, <1>2, Zenon DEF StepNests
<1> QED
  BY <1>3, <1>4

\* Exact and ExactUnorderedCI accept the same.
LEMMA ByNameNests ==
    /\ StepNests("Exact", "ExactUnorderedCI")
    /\ StepNests("ExactUnorderedCI", "Exact")
<1>1. ASSUME NEW pol, NEW wider, NEW S, NEW fit, NEW fits, ~ByIndex(pol), ~ByIndex(wider),
             \A name, field : Named(name, field, pol) <=> Named(name, field, wider),
             \A field : MayBeAbsent(field, pol) => MayBeAbsent(field, wider),
             MayBeUnknown(pol) => MayBeUnknown(wider), FoldsCase(pol) = FoldsCase(wider),
             \A a, b \in S : <<a, b>> \in fit => <<a, b>> \in fits,
             NEW p \in TypeShapes(S), NEW c \in TypeShapes(S), ShapesFit(p, c, pol, fit)
      PROVE  ShapesFit(p, c, wider, fits)
  <2>0. p.kind = c.kind
    BY <1>1 DEF ShapesFit
  <2>1. CASE p.kind = "Primitive"
    BY <1>1, <2>1 DEF ShapesFit
  <2>2. CASE p.kind = "Optional"
    BY <1>1, <2>0, <2>2, KindFacts DEF ShapesFit
  <2>3. CASE p.kind = "Sequence"
    BY <1>1, <2>0, <2>3, KindFacts DEF ShapesFit
  <2>4. CASE p.kind = "Map"
    BY <1>1, <2>0, <2>4, KindFacts DEF ShapesFit
  <2>5. CASE p.kind = "Struct"
    <3> DEFINE ps == p.fields  cs == c.fields
    <3>1. ps \in Seq(FieldShapes(S)) /\ cs \in Seq(FieldShapes(S))
      BY <2>0, <2>5, KindFacts
    <3>2. FitByName(ps, cs, pol, fit)
      BY <1>1, <2>5 DEF ShapesFit, FieldsFit
    <3> HIDE DEF ps, cs
    <3>3. Distinct(ps, wider) /\ Distinct(cs, wider)
      BY <1>1, <3>2 DEF FitByName, Distinct
    <3>4. ASSUME NEW i \in 1..Len(cs)
          PROVE  \/ /\ MayBeAbsent(cs[i], wider)
                    /\ \A j \in 1..Len(ps) : ~Named(ps[j].name, cs[i], wider)
                 \/ \E j \in 1..Len(ps) :
                       Named(ps[j].name, cs[i], wider) /\ <<ps[j].shape, cs[i].shape>> \in fits
      <4>1. \A j \in 1..Len(ps) : ps[j].shape \in S
        BY <3>1, FieldFacts
      <4>2. cs[i].shape \in S
        BY <3>1, FieldFacts
      <4> QED
        BY <1>1, <3>2, <4>1, <4>2, Zenon DEF FitByName
    <3>5. \A j \in 1..Len(ps) :
             MayBeUnknown(wider) \/ \E i \in 1..Len(cs) : Named(ps[j].name, cs[i], wider)
      BY <1>1, <3>2, Zenon DEF FitByName
    <3>6. FitByName(ps, cs, wider, fits)
      BY <3>3, <3>4, <3>5 DEF FitByName
    <3> QED
      BY <1>1, <2>0, <2>5, <3>6 DEF ShapesFit, FieldsFit, ps, cs
  <2> QED
    BY <2>1, <2>2, <2>3, <2>4, <2>5, KindFacts
<1>2. /\ ~ByIndex("Exact") /\ ~ByIndex("ExactUnorderedCI")
      /\ \A name, field :
            Named(name, field, "Exact") <=> Named(name, field, "ExactUnorderedCI")
      /\ \A field : ~MayBeAbsent(field, "Exact") /\ ~MayBeAbsent(field, "ExactUnorderedCI")
      /\ ~MayBeUnknown("Exact") /\ ~MayBeUnknown("ExactUnorderedCI")
      /\ FoldsCase("Exact") = FoldsCase("ExactUnorderedCI")
  BY DEF ByIndex, Named, SameName, FoldsCase, MayBeAbsent, MayBeUnknown
<1>3. StepNests("Exact", "ExactUnorderedCI")
  BY <1>1, <1>2, Zenon DEF StepNests
<1>4. StepNests("ExactUnorderedCI", "Exact")
  BY <1>1, <1>2, Zenon DEF StepNests
<1> QED
  BY <1>3, <1>4

\* Exact is its own converse, and Forward that of Backward.
LEMMA ByNameExchanges ==
    /\ StepExchanges("Exact", "Exact")
    /\ StepExchanges("Forward", "Backward")
<1>1. ASSUME NEW pol \in Policies, NEW other \in Policies, NEW S, NEW fit, NEW fits,
             ~ByIndex(pol), ~ByIndex(other), FoldsCase(pol) = FoldsCase(other),
             ~MayBeUnknown(pol), MayBeUnknown(other) \/ \A field : ~MayBeAbsent(field, pol),
             \A a, b \in S : <<a, b>> \in fit => <<b, a>> \in fits,
             NEW p \in TypeShapes(S), NEW c \in TypeShapes(S), ShapesFit(p, c, pol, fit)
      PROVE  ShapesFit(c, p, other, fits)
  <2>0. p.kind = c.kind
    BY <1>1 DEF ShapesFit
  <2>1. CASE p.kind = "Primitive"
    BY <1>1, <2>1 DEF ShapesFit
  <2>2. CASE p.kind = "Optional"
    BY <1>1, <2>0, <2>2, KindFacts DEF ShapesFit
  <2>3. CASE p.kind = "Sequence"
    BY <1>1, <2>0, <2>3, KindFacts DEF ShapesFit
  <2>4. CASE p.kind = "Map"
    BY <1>1, <2>0, <2>4, KindFacts DEF ShapesFit
  <2>5. CASE p.kind = "Struct"
    <3> DEFINE ps == p.fields  cs == c.fields  ci == FoldsCase(pol)
    <3>1. ps \in Seq(FieldShapes(S)) /\ cs \in Seq(FieldShapes(S))
      BY <2>0, <2>5, KindFacts
    <3>2. FitByName(ps, cs, pol, fit)
      BY <1>1, <2>5 DEF ShapesFit, FieldsFit
    <3>3. \A a, b : /\ Named(a.name, b, pol) <=> SameName(a.name, b.name, ci)
                    /\ Named(a.name, b, other) <=> SameName(a.name, b.name, ci)
      BY <1>1, NamedFacts
    <3>4. ci \in BOOLEAN
      BY DEF FoldsCase
    <3> HIDE DEF ps, cs, ci
    <3>5. \A i \in 1..Len(ps) : ps[i].shape \in S
      BY <3>1, FieldFacts
    <3>6. \A i \in 1..Len(cs) : cs[i].shape \in S
      BY <3>1, FieldFacts
    <3>7. ASSUME NEW i \in 1..Len(ps)
          PROVE  \E j \in 1..Len(cs) :
                    Named(cs[j].name, ps[i], other) /\ <<cs[j].shape, ps[i].shape>> \in fits
      <4>1. PICK j \in 1..Len(cs) : SameName(ps[i].name, cs[j].name, ci)
        BY <1>1, <3>2, <3>3 DEF FitByName
      <4>2. PICK k \in 1..Len(ps) :
                SameName(ps[k].name, cs[j].name, ci) /\ <<ps[k].shape, cs[j].shape>> \in fit
        BY <3>2, <3>3, <4>1 DEF FitByName
      <4>3. SameName(ps[i].name, ps[k].name, ci) /\ SameName(cs[j].name, ps[i].name, ci)
        BY <3>4, <4>1, <4>2, NameFacts
      <4>4. DOMAIN ps = 1..Len(ps)
        BY <3>1
      <4>5. i = k
        BY <3>2, <4>3, <4>4 DEF FitByName, Distinct, ci
      <4> QED
        BY <1>1, <3>3, <3>5, <3>6, <4>2, <4>3, <4>5
    <3>8. ASSUME ~MayBeUnknown(other), NEW j \in 1..Len(cs)
          PROVE  \E i \in 1..Len(ps) : Named(cs[j].name, ps[i], other)
      <4>1. PICK i \in 1..Len(ps) : SameName(ps[i].name, cs[j].name, ci)
        BY <1>1, <3>2, <3>3, <3>8 DEF FitByName
      <4> QED
        BY <3>3, <3>4, <4>1, NameFacts
    <3>9. Distinct(ps, other) /\ Distinct(cs, other)
      BY <1>1, <3>2 DEF FitByName, Distinct
    <3>10. FitByName(cs, ps, other, fits)
      BY <3>7, <3>8, <3>9 DEF FitByName
    <3> QED
      BY <1>1, <2>0, <2>5, <3>10 DEF ShapesFit, FieldsFit, ps, cs
  <2> QED
    BY <2>1, <2>2, <2>3, <2>4, <2>5, KindFacts
<1>2. /\ ~ByIndex("Exact") /\ ~ByIndex("Forward") /\ ~ByIndex("Backward")
      /\ FoldsCase("Forward") = FoldsCase("Backward")
      /\ \A field : ~MayBeAbsent(field, "Exact")
      /\ ~MayBeUnknown("Exact") /\ ~MayBeUnknown("Forward") /\ MayBeUnknown("Backward")
  BY DEF ByIndex, FoldsCase, MayBeAbsent, MayBeUnknown
<1>3. "Exact" \in Policies /\ "Forward" \in Policies /\ "Backward" \in Policies
  BY DEF Policies
<1>4. StepExchanges("Exact", "Exact")
  BY <1>1, <1>2, <1>3, Zenon DEF StepExchanges
<1>5. StepExchanges("Forward", "Backward")
  BY <1>1, <1>2, <1>3, Zenon DEF StepExchanges
<1> QED
  BY <1>4, <1>5

\* shape_eq is what the traversal finds nothing in under ExactOrdered.
LEMMA SameFits ==
    \A n \in Nat : \A p, c \in ShapesTo[n] :
        <<p, c>> \in Same[n] <=> <<p, c>> \in Fits(n, "ExactOrdered")
<1> DEFINE fits(n) == Fits(n, "ExactOrdered")
           Agree(n) == \A p, c \in ShapesTo[n] : <<p, c>> \in Same[n] <=> <<p, c>> \in fits(n)
           S == {n \in Nat : Agree(n)}
<1>1. 0 \in S
  BY ShapesUnfold
<1>2. ASSUME NEW n \in Nat, n \in S PROVE n + 1 \in S
  <2> DEFINE same == Same[n]  fit == fits(n)  T == ShapesTo[n]
  <2>0. n + 1 \in Nat
    OBVIOUS
  <2>1. ShapesTo[n + 1] = TypeShapes(T) /\ n + 1 \in Nat
    BY <2>0, ShapesUnfold, Zenon
  <2>2. \A a, b \in T : <<a, b>> \in same <=> <<a, b>> \in fit
    BY <1>2
  <2>3. ASSUME NEW p \in TypeShapes(T), NEW c \in TypeShapes(T)
        PROVE  ShapeEq(p, c, same) <=> ShapesFit(p, c, "ExactOrdered", fit)
    <3> HIDE DEF same, fit, T
    <3>1. CASE p.kind # c.kind
      BY <3>1 DEF ShapeEq, ShapesFit
    <3>2. CASE p.kind = c.kind /\ p.kind = "Primitive"
      BY <3>2 DEF ShapeEq, ShapesFit
    <3>3. CASE p.kind = c.kind /\ p.kind = "Optional"
      BY <2>2, <3>3, KindFacts DEF ShapeEq, ShapesFit
    <3>4. CASE p.kind = c.kind /\ p.kind = "Sequence"
      BY <2>2, <3>4, KindFacts DEF ShapeEq, ShapesFit
    <3>5. CASE p.kind = c.kind /\ p.kind = "Map"
      BY <2>2, <3>5, KindFacts DEF ShapeEq, ShapesFit
    <3>6. CASE p.kind = c.kind /\ p.kind = "Struct"
      <4> DEFINE ps == p.fields  cs == c.fields
      <4>1. ps \in Seq(FieldShapes(T)) /\ cs \in Seq(FieldShapes(T))
        BY <3>6, KindFacts
      <4>2. ShapeEq(p, c, same) <=>
                /\ Len(ps) = Len(cs)
                /\ \A i \in DOMAIN ps :
                      ps[i].name = cs[i].name /\ <<ps[i].shape, cs[i].shape>> \in same
        BY <3>6 DEF ShapeEq
      <4>3. ShapesFit(p, c, "ExactOrdered", fit) <=> FitInOrder(ps, cs, "ExactOrdered", fit)
        BY <3>6 DEF ShapesFit, FieldsFit, ByIndex
      <4> HIDE DEF ps, cs
      <4>4. \A a, b : Named(a.name, b, "ExactOrdered") <=> a.name = b.name
        BY DEF Named, SameName, FoldsCase
      <4>5. DOMAIN ps = 1..Len(ps)
        BY <4>1
      <4>6. \A i \in 1..Len(ps) : ps[i].shape \in T
        BY <4>1, FieldFacts
      <4>7. \A i \in 1..Len(cs) : cs[i].shape \in T
        BY <4>1, FieldFacts
      <4>8. FitInOrder(ps, cs, "ExactOrdered", fit) <=>
                /\ Len(ps) = Len(cs)
                /\ \A i \in 1..Len(cs) :
                      ps[i].name = cs[i].name /\ <<ps[i].shape, cs[i].shape>> \in fit
        BY <4>4 DEF FitInOrder
      <4> QED
        BY <2>2, <4>2, <4>3, <4>5, <4>6, <4>7, <4>8
    <3> QED
      BY <3>1, <3>2, <3>3, <3>4, <3>5, <3>6, KindFacts
  <2>4. "ExactOrdered" \in Enforced
    BY DEF Enforced, Policies
  <2>5. Agree(n + 1)
    BY <2>1, <2>3, <2>4, SameUnfolds, FitsUnfold
  <2> QED
    BY <2>1, <2>5
<1> HIDE DEF S
<1>3. Nat \subseteq S
  BY <1>1, <1>2, ShapeLevels!NatSetInduction
<1> QED
  BY <1>3 DEF S

\* Equality of shapes is symmetric.
LEMMA SameExchanges ==
    \A n \in Nat : \A p, c \in ShapesTo[n] : <<p, c>> \in Same[n] => <<c, p>> \in Same[n]
<1> DEFINE S == {n \in Nat :
                    \A p, c \in ShapesTo[n] : <<p, c>> \in Same[n] => <<c, p>> \in Same[n]}
<1>1. 0 \in S
  BY ShapesUnfold
<1>2. ASSUME NEW n \in Nat, n \in S PROVE n + 1 \in S
  <2> DEFINE same == Same[n]  T == ShapesTo[n]
  <2>0. n + 1 \in Nat
    OBVIOUS
  <2>1. ShapesTo[n + 1] = TypeShapes(T) /\ n + 1 \in Nat
    BY <2>0, ShapesUnfold, Zenon
  <2>2. \A a, b \in T : <<a, b>> \in same => <<b, a>> \in same
    BY <1>2
  <2>3. ASSUME NEW p \in TypeShapes(T), NEW c \in TypeShapes(T), ShapeEq(p, c, same)
        PROVE  ShapeEq(c, p, same)
    <3> HIDE DEF same, T
    <3>0. p.kind = c.kind
      BY <2>3 DEF ShapeEq
    <3>2. CASE p.kind = "Primitive"
      BY <2>3, <3>0, <3>2 DEF ShapeEq
    <3>3. CASE p.kind = "Optional"
      BY <2>2, <2>3, <3>0, <3>3, KindFacts DEF ShapeEq
    <3>4. CASE p.kind = "Sequence"
      BY <2>2, <2>3, <3>0, <3>4, KindFacts DEF ShapeEq
    <3>5. CASE p.kind = "Map"
      BY <2>2, <2>3, <3>0, <3>5, KindFacts DEF ShapeEq
    <3>6. CASE p.kind = "Struct"
      <4> DEFINE ps == p.fields  cs == c.fields
      <4>1. ps \in Seq(FieldShapes(T)) /\ cs \in Seq(FieldShapes(T))
        BY <3>0, <3>6, KindFacts
      <4>2. /\ Len(ps) = Len(cs)
            /\ \A i \in DOMAIN ps :
                  ps[i].name = cs[i].name /\ <<ps[i].shape, cs[i].shape>> \in same
        BY <2>3, <3>6 DEF ShapeEq
      <4> HIDE DEF ps, cs
      <4>5. DOMAIN ps = 1..Len(ps) /\ DOMAIN cs = 1..Len(cs)
        BY <4>1
      <4>6. \A i \in 1..Len(ps) : ps[i].shape \in T
        BY <4>1, FieldFacts
      <4>7. \A i \in 1..Len(cs) : cs[i].shape \in T
        BY <4>1, FieldFacts
      <4>8. /\ Len(cs) = Len(ps)
            /\ \A i \in DOMAIN cs :
                  cs[i].name = ps[i].name /\ <<cs[i].shape, ps[i].shape>> \in same
        BY <2>2, <4>2, <4>5, <4>6, <4>7
      <4> QED
        BY <3>0, <3>6, <4>8 DEF ShapeEq, ps, cs
    <3> QED
      BY <3>2, <3>3, <3>4, <3>5, <3>6, KindFacts
  <2>5. \A p, c \in ShapesTo[n + 1] : <<p, c>> \in Same[n + 1] => <<c, p>> \in Same[n + 1]
    BY <2>1, <2>3, SameUnfolds
  <2> QED
    BY <2>1, <2>5
<1> HIDE DEF S
<1>3. Nat \subseteq S
  BY <1>1, <1>2, ShapeLevels!NatSetInduction
<1> QED
  BY <1>3 DEF S

-----------------------------------------------------------------------------
(* What a comparison leaves *)

\* A record rejects when one of the differences is rejected, and then names
\* some.
LEMMA RecordFacts ==
    ASSUME NEW found \in Seq(Diff), NEW pol \in Policies
    PROVE  LET kept == Record(found, pol)
           IN  /\ kept.rejected \in BOOLEAN
               /\ kept.rejected <=> Refuses(found, pol)
               /\ kept.rejected <=> kept.diffs # <<>>
               /\ kept.diffs \in Seq(Diff) /\ Len(kept.diffs) <= MaxDiffs
               /\ \A i \in DOMAIN kept.diffs : kept.diffs[i] \in ToSet(found)
<1> DEFINE n == Len(found)
           ss == [i \in 1..n |-> IF Rejects(found[i], pol) THEN <<found[i]>> ELSE <<>>]
           rejected == FlattenSeq(ss)
           named == IF Len(rejected) < MaxDiffs THEN Len(rejected) ELSE MaxDiffs
           diffs == SubSeq(rejected, 1, named)
           some == rejected # <<>>
<1>1. DOMAIN found = 1..n /\ n \in Nat
  OBVIOUS
<1>2. Record(found, pol) = [rejected |-> some, diffs |-> diffs]
  BY <1>1 DEF Record
<1>3. ss \in [1..n -> Seq(Diff)]
  <2>1. ASSUME NEW i \in 1..n
        PROVE  (IF Rejects(found[i], pol) THEN <<found[i]>> ELSE <<>>) \in Seq(Diff)
    <3>1. found[i] \in Diff
      OBVIOUS
    <3> QED
      BY <3>1
  <2> QED
    BY <2>1
<1>4. \A i \in 1..n : ToSet(ss[i]) = IF Rejects(found[i], pol) THEN {found[i]} ELSE {}
  BY DEF ToSet
<1>5. ToSet(found) = {found[i] : i \in 1..n}
  BY <1>1 DEF ToSet
<1> HIDE DEF ss, n
<1>6. rejected \in Seq(Diff) /\ ToSet(rejected) = UNION {ToSet(ss[i]) : i \in 1..n}
  BY <1>1, <1>3, FlattenMembers
<1>7. \A d : d \in ToSet(rejected) <=> d \in ToSet(found) /\ Rejects(d, pol)
  <2>1. \A d : d \in ToSet(rejected) <=> \E i \in 1..n : d \in ToSet(ss[i])
    BY <1>6, Zenon
  <2>2. \A i \in 1..n : \A d :
            d \in ToSet(ss[i]) <=> d = found[i] /\ Rejects(d, pol)
    BY <1>4
  <2> HIDE DEF rejected
  <2> QED
    BY <1>5, <2>1, <2>2, Zenon
<1> HIDE DEF rejected
<1>8. some <=> ToSet(rejected) # {}
  <2>1. rejected = <<>> => ToSet(rejected) = {}
    BY DEF ToSet
  <2>2. rejected # <<>> => rejected[1] \in ToSet(rejected)
    <3>1. rejected # <<>> => 1 \in DOMAIN rejected
      BY <1>6
    <3> QED
      BY <3>1 DEF ToSet
  <2> QED
    BY <2>1, <2>2
<1>9. /\ named \in Nat /\ named <= Len(rejected) /\ named <= MaxDiffs
      /\ named = 0 <=> Len(rejected) = 0
  BY <1>6, BoundsAssumption
<1>10. /\ diffs \in Seq(Diff) /\ Len(diffs) = named
       /\ \A i \in 1..named : diffs[i] = rejected[i] /\ i \in DOMAIN rejected
  <2> HIDE DEF named
  <2> QED
    BY <1>6, <1>9
<1> HIDE DEF named, diffs
<1>11. \A i \in DOMAIN diffs : diffs[i] \in ToSet(found)
  <2>1. DOMAIN diffs = 1..named
    BY <1>9, <1>10
  <2>2. \A i \in DOMAIN diffs : diffs[i] \in ToSet(rejected)
    BY <1>10, <2>1 DEF ToSet
  <2> QED
    BY <1>7, <2>2
<1>12. some <=> diffs # <<>>
  <2>1. rejected = <<>> <=> Len(rejected) = 0
    BY <1>6
  <2>2. diffs = <<>> <=> Len(diffs) = 0
    BY <1>10
  <2> QED
    BY <1>9, <1>10, <2>1, <2>2
<1>13. some <=> Refuses(found, pol)
  BY <1>7, <1>8 DEF Refuses
<1>14. some \in BOOLEAN
  OBVIOUS
<1> HIDE DEF some
<1>15. Record(found, pol).rejected = some /\ Record(found, pol).diffs = diffs
  BY <1>2
<1> QED
  BY <1>9, <1>10, <1>11, <1>12, <1>13, <1>14, <1>15

\* Each end's own fields, or the place of the whole.
Heads(s) == IF s.kind = "Struct"
            THEN {s.fields[i].name : i \in DOMAIN s.fields} ELSE {Marker("<root>")}

\* The policy under which two shapes are compared.
Reader(p, c, pol) == IF BothStructs(p, c) THEN pol ELSE "ExactOrdered"

\* The differences of two declarations under a policy.
Found(p, c, pol) ==
    IF BothStructs(p, c) THEN Differences[Nesting][Mode(pol)][p][c][<<>>]
    ELSE IF <<p, c>> \in Same[Nesting] THEN <<>> ELSE <<Mismatch(<<Marker("<root>")>>)>>

\* The declarations are shapes of at most Nesting levels.
LEMMA NestingFacts ==
    /\ Nesting \in Nat /\ Producers \subseteq ShapesTo[Nesting]
    /\ Contracts \subseteq ShapesTo[Nesting]
    /\ \A s \in ShapesTo[Nesting] :
          \E n \in Nat : Nesting = n + 1 /\ s \in TypeShapes(ShapesTo[n])
<1>1. /\ Nesting \in Nat /\ Producers \subseteq ShapesTo[Nesting]
      /\ Contracts \subseteq ShapesTo[Nesting]
  BY ShapesAssumption
<1>2. ASSUME NEW s \in ShapesTo[Nesting]
      PROVE  \E n \in Nat : Nesting = n + 1 /\ s \in TypeShapes(ShapesTo[n])
  <2>1. Nesting # 0
    BY ShapesUnfold
  <2>2. Nesting - 1 \in Nat /\ Nesting = (Nesting - 1) + 1
    BY <1>1, <2>1
  <2> DEFINE n == Nesting - 1
  <2>3. n \in Nat /\ Nesting = n + 1
    BY <2>2
  <2> HIDE DEF n
  <2> QED
    BY <2>3, ShapesUnfold
<1> QED
  BY <1>1, <1>2

\* What is found between two structs is at one of their fields, and refused
\* when they do not fit.
LEMMA StructsFound ==
    ASSUME NEW p \in ShapesTo[Nesting], NEW c \in ShapesTo[Nesting], BothStructs(p, c),
           NEW pol \in Enforced
    PROVE  /\ FoundAt(Found(p, c, pol), Heads(p) \union Heads(c))
           /\ Refuses(Found(p, c, pol), pol) <=> <<p, c>> \notin Fits(Nesting, pol)
<1>1. PICK n \in Nat : Nesting = n + 1 /\ p \in TypeShapes(ShapesTo[n])
  BY NestingFacts
<1>2. c \in TypeShapes(ShapesTo[n])
  BY <1>1, ShapesUnfold
<1> DEFINE below == Differences[n][Mode(pol)]  found == Found(p, c, pol)
           heads == Heads(p) \union Heads(c)
<1>3. ComparesBelow(below, ShapesTo[n], pol, Fits(n, pol))
  BY VerdictByLevel
<1>4. found = Differences[Nesting][Mode(pol)][p][c][<<>>]
  BY DEF Found
<1>5. found = CompareShapes(p, c, <<>>, Mode(pol), below)
  <2> HIDE DEF found
  <2>1. Mode(pol) \in Modes
    BY ModeFacts DEF Enforced
  <2> QED
    BY <1>1, <1>4, <2>1, NoPath, DifferencesUnfold
<1>6. p.kind = "Struct" /\ c.kind = "Struct"
  BY DEF BothStructs
<1>7. /\ p.fields \in Seq(FieldShapes(ShapesTo[n])) /\ c.fields \in Seq(FieldShapes(ShapesTo[n]))
      /\ DOMAIN p.fields = 1..Len(p.fields) /\ DOMAIN c.fields = 1..Len(c.fields)
  BY <1>1, <1>2, <1>6, KindFacts
<1>8. HeadsOf(p.fields, <<>>, heads)
  <2>1. ASSUME NEW i \in 1..Len(p.fields)
        PROVE  AppendSegment(<<>>, p.fields[i].name)[1] \in heads
    <3>1. p.fields[i].name \in Name /\ p.fields[i].name \in heads
      BY <1>6, <1>7, FieldFacts DEF Heads
    <3> HIDE DEF heads
    <3> QED
      BY <3>1, NoPath, PathFacts
  <2> QED
    BY <2>1 DEF HeadsOf
<1>9. HeadsOf(c.fields, <<>>, heads)
  <2>1. ASSUME NEW i \in 1..Len(c.fields)
        PROVE  AppendSegment(<<>>, c.fields[i].name)[1] \in heads
    <3>1. c.fields[i].name \in Name /\ c.fields[i].name \in heads
      BY <1>6, <1>7, FieldFacts DEF Heads
    <3> HIDE DEF heads
    <3> QED
      BY <3>1, NoPath, PathFacts
  <2> QED
    BY <2>1 DEF HeadsOf
<1> HIDE DEF below, heads, found
<1>10. FoundAt(found, heads)
  BY <1>1, <1>2, <1>3, <1>5, <1>6, <1>8, <1>9, NoPath, StructsFind
<1>11. Refuses(found, pol) <=> <<p, c>> \notin Fits(Nesting, pol)
  BY <1>4, FitsPairs
<1> QED
  BY <1>10, <1>11 DEF found, heads

\* A comparison rejects exactly what does not fit, and names a field of an end.
LEMMA ComparisonFacts ==
    ASSUME NEW p \in ShapesTo[Nesting], NEW c \in ShapesTo[Nesting], NEW pol \in Policies
    PROVE  LET kept == Compare(p, c, pol)
           IN  /\ kept.rejected \in BOOLEAN
               /\ kept.rejected <=> kept.diffs # <<>>
               /\ kept.diffs \in Seq(Diff) /\ Len(kept.diffs) <= MaxDiffs
               /\ \A i \in DOMAIN kept.diffs : kept.diffs[i].path[1] \in Heads(p) \union Heads(c)
               /\ pol \in Enforced =>
                    (kept.rejected <=> <<p, c>> \notin Fits(Nesting, Reader(p, c, pol)))
<1> DEFINE found == Found(p, c, pol)  kept == Compare(p, c, pol)
           heads == Heads(p) \union Heads(c)
<1>1. kept = Record(found, pol)
  BY DEF Compare, Found
<1>2. FoundAt(found, heads) /\ (pol \in Enforced =>
            (Refuses(found, pol) <=> <<p, c>> \notin Fits(Nesting, Reader(p, c, pol))))
  <2>1. CASE BothStructs(p, c) /\ pol \in Enforced
    BY <2>1, StructsFound DEF Reader
  <2>2. CASE BothStructs(p, c) /\ pol \notin Enforced
    <3>1. pol = "Full" /\ "Backward" \in Enforced
      BY <2>2 DEF Enforced, Policies
    <3>2. Mode("Full") = Mode("Backward")
      BY DEF Mode
    <3>3. found = Found(p, c, "Backward")
      BY <3>1, <3>2 DEF Found
    <3> HIDE DEF found
    <3> QED
      BY <2>2, <3>1, <3>3, StructsFound
  <2>3. CASE ~BothStructs(p, c)
    <3> DEFINE root == <<Marker("<root>")>>
    <3>1. root \in Paths /\ root[1] = Marker("<root>")
      <4>1. Marker("<root>") \in Name
        BY MarkerFacts DEF Markers
      <4>2. root \in Seq(Name) /\ Len(root) = 1 /\ root[1] = Marker("<root>")
        BY <4>1
      <4>3. 1 <= MaxPathDepth
        BY BoundsAssumption
      <4> QED
        BY <4>2, <4>3 DEF Paths
    <3> HIDE DEF root
    <3>2. root[1] \in heads
      BY <2>3, <3>1 DEF Heads, BothStructs
    <3>3. found = IF <<p, c>> \in Same[Nesting] THEN <<>> ELSE <<Mismatch(root)>>
      BY <2>3 DEF Found, root
    <3>4. Mismatch(root) \in Diff /\ Mismatch(root).path = root
      BY <3>1 DEF Mismatch, Diff
    <3>5. pol \in Enforced => Rejects(Mismatch(root), pol)
      BY <3>1, DiffFacts
    <3> DEFINE m == <<Mismatch(root)>>
    <3>6. FoundAt(m, heads) /\ (Refuses(m, pol) <=> Rejects(Mismatch(root), pol))
      BY <3>2, <3>4, FoundFacts
    <3>7. FoundAt(<<>>, heads) /\ ~Refuses(<<>>, pol)
      BY FoundFacts
    <3>8. Reader(p, c, pol) = "ExactOrdered"
      BY <2>3 DEF Reader
    <3>9. <<p, c>> \in Same[Nesting] <=> <<p, c>> \in Fits(Nesting, "ExactOrdered")
      BY NestingFacts, SameFits
    <3> HIDE DEF m, found, heads
    <3> QED
      BY <3>3, <3>5, <3>6, <3>7, <3>8, <3>9 DEF m
  <2> QED
    BY <2>1, <2>2, <2>3
<1> HIDE DEF found, kept, heads
<1>3. found \in Seq(Diff) /\ \A d \in ToSet(found) : d.path[1] \in heads
  BY <1>2 DEF FoundAt
<1>4. /\ kept.rejected \in BOOLEAN
      /\ kept.rejected <=> Refuses(found, pol)
      /\ kept.rejected <=> kept.diffs # <<>>
      /\ kept.diffs \in Seq(Diff) /\ Len(kept.diffs) <= MaxDiffs
      /\ \A i \in DOMAIN kept.diffs : kept.diffs[i] \in ToSet(found)
  BY <1>1, <1>3, RecordFacts
<1>5. /\ kept.rejected \in BOOLEAN
      /\ kept.rejected <=> kept.diffs # <<>>
      /\ kept.diffs \in Seq(Diff) /\ Len(kept.diffs) <= MaxDiffs
      /\ \A i \in DOMAIN kept.diffs : kept.diffs[i].path[1] \in heads
      /\ pol \in Enforced =>
           (kept.rejected <=> <<p, c>> \notin Fits(Nesting, Reader(p, c, pol)))
  BY <1>2, <1>3, <1>4
<1> QED
  BY <1>5 DEF kept, heads

-----------------------------------------------------------------------------
(* What values a shape has, and which of them can be read *)

\* Lists are sequences; the empty one is there, and those of one item.
LEMMA ListFacts ==
    ASSUME NEW S
    PROVE  /\ \A items \in ListsOf(S) : items \in Seq(S)
           /\ <<>> \in ListsOf(S)
           /\ \A x \in S : <<x>> \in ListsOf(S)
<1>1. MaxItems \in Nat /\ 0 \in 0..MaxItems /\ 1 \in 0..MaxItems
  BY BoundsAssumption
<1>2. \A items \in ListsOf(S) : items \in Seq(S)
  <2> TAKE items \in ListsOf(S)
  <2>1. PICK k \in 0..MaxItems : items \in [1..k -> S]
    BY DEF ListsOf
  <2> QED
    BY <2>1
<1>3. <<>> \in ListsOf(S)
  <2>1. <<>> \in [1..0 -> S]
    OBVIOUS
  <2> QED
    BY <1>1, <2>1 DEF ListsOf
<1>4. \A x \in S : <<x>> \in ListsOf(S)
  <2> TAKE x \in S
  <2>1. <<x>> \in [1..1 -> S]
    OBVIOUS
  <2> QED
    BY <1>1, <2>1 DEF ListsOf
<1> QED
  BY <1>2, <1>3, <1>4

\* The entries of a struct: each under its field's name, with a value of it.
LEMMA EntriesFacts ==
    ASSUME NEW S, NEW fields \in Seq(FieldShapes(S)), NEW below
    PROVE  \A es : es \in Entries(fields, below) <=>
              /\ es = [i \in 1..Len(fields) |-> es[i]]
              /\ \A i \in 1..Len(fields) :
                    /\ es[i] = <<fields[i].name, es[i][2]>>
                    /\ es[i][2] \in below[fields[i].shape]
<1> DEFINE n == Len(fields)
           types == {fields[i].shape : i \in 1..n}
           all == UNION {below[t] : t \in types}
           named(values) == [i \in 1..n |-> <<fields[i].name, values[i]>>]
           ok(values) == \A i \in 1..n : values[i] \in below[fields[i].shape]
<1>1. DOMAIN fields = 1..n
  OBVIOUS
<1>2. Entries(fields, below) = {named(values) : values \in {f \in [1..n -> all] : ok(f)}}
  BY <1>1, Zenon DEF Entries
<1>3. ASSUME NEW values \in [1..n -> all], ok(values)
      PROVE  LET es == named(values)
             IN  /\ es = [i \in 1..n |-> es[i]]
                 /\ \A i \in 1..n : /\ es[i] = <<fields[i].name, es[i][2]>>
                                    /\ es[i][2] \in below[fields[i].shape]
  BY <1>3
<1>4. ASSUME NEW es, es = [i \in 1..n |-> es[i]],
             \A i \in 1..n : /\ es[i] = <<fields[i].name, es[i][2]>>
                             /\ es[i][2] \in below[fields[i].shape]
      PROVE  \E values \in [1..n -> all] : ok(values) /\ es = named(values)
  <2> DEFINE values == [i \in 1..n |-> es[i][2]]
  <2>1. \A i \in 1..n : es[i][2] \in all
    BY <1>4
  <2>2. values \in [1..n -> all] /\ \A i \in 1..n : values[i] = es[i][2]
    BY <2>1
  <2> HIDE DEF values
  <2>3. ok(values)
    BY <1>4, <2>2
  <2>4. named(values) = [i \in 1..n |-> es[i]]
    BY <1>4, <2>2
  <2> QED
    BY <1>4, <2>2, <2>3, <2>4
<1> HIDE DEF all
<1>5. \A es : es \in Entries(fields, below)
                <=> \E values \in [1..n -> all] : ok(values) /\ es = named(values)
  BY <1>2
<1> HIDE DEF named, ok
<1>6. ASSUME NEW es, es \in Entries(fields, below)
      PROVE  /\ es = [i \in 1..n |-> es[i]]
             /\ \A i \in 1..n : /\ es[i] = <<fields[i].name, es[i][2]>>
                                /\ es[i][2] \in below[fields[i].shape]
  <2>1. PICK values \in [1..n -> all] : ok(values) /\ es = named(values)
    BY <1>5, <1>6
  <2> QED
    BY <1>3, <2>1
<1> QED
  BY <1>4, <1>5, <1>6

\* The values of a shape, by its kind.
LEMMA ValuesAre ==
    ASSUME NEW S, NEW s \in TypeShapes(S), NEW below
    PROVE  /\ s.kind = "Primitive" =>
                \A v : v \in ValuesOf(s, below) <=> v = Scalar(s.name)
           /\ s.kind = "Optional" =>
                \A v : v \in ValuesOf(s, below) <=>
                    \/ v = None
                    \/ v = [is |-> "some", value |-> v.value] /\ v.value \in below[s.of]
           /\ s.kind = "Sequence" =>
                \A v : v \in ValuesOf(s, below) <=>
                    v = [is |-> "list", items |-> v.items] /\ v.items \in ListsOf(below[s.of])
           /\ s.kind = "Map" =>
                \A v : v \in ValuesOf(s, below) <=>
                    /\ v = [is |-> "map", pairs |-> v.pairs]
                    /\ v.pairs \in ListsOf(below[s.key] \X below[s.value])
           /\ s.kind = "Struct" =>
                \A v : v \in ValuesOf(s, below) <=>
                    /\ v = [is |-> "struct", entries |-> v.entries]
                    /\ v.entries \in Entries(s.fields, below)
<1>1. CASE s.kind = "Primitive"
  BY <1>1 DEF ValuesOf
<1>2. CASE s.kind = "Optional"
  <2>1. ValuesOf(s, below) = {None} \union [is : {"some"}, value : below[s.of]]
    BY <1>2 DEF ValuesOf
  <2>2. \A v : v \in [is : {"some"}, value : below[s.of]]
                 <=> v = [is |-> "some", value |-> v.value] /\ v.value \in below[s.of]
    OBVIOUS
  <2> QED
    BY <1>2, <2>1, <2>2
<1>3. CASE s.kind = "Sequence"
  <2>1. ValuesOf(s, below) = [is : {"list"}, items : ListsOf(below[s.of])]
    BY <1>3 DEF ValuesOf
  <2> QED
    BY <1>3, <2>1
<1>4. CASE s.kind = "Map"
  <2>1. ValuesOf(s, below) = [is : {"map"}, pairs : ListsOf(below[s.key] \X below[s.value])]
    BY <1>4 DEF ValuesOf
  <2> QED
    BY <1>4, <2>1
<1>5. CASE s.kind = "Struct"
  <2>1. ValuesOf(s, below) = [is : {"struct"}, entries : Entries(s.fields, below)]
    BY <1>5 DEF ValuesOf
  <2> QED
    BY <1>5, <2>1
<1> QED
  BY <1>1, <1>2, <1>3, <1>4, <1>5, KindFacts

\* Every shape has a value.
HasValues(S, below) == \A s \in S : below[s] # {}
\* The values of the shapes are values.
ValuesIn(S, below, any) == \A s \in S : below[s] \subseteq any

\* Every shape has values, a struct's field any of its own.
LEMMA EntryWith ==
    ASSUME NEW S, NEW fields \in Seq(FieldShapes(S)), NEW below,
           HasValues(S, below)
    PROVE  /\ Entries(fields, below) # {}
           /\ \A i \in 1..Len(fields) : \A x \in below[fields[i].shape] :
                 \E es \in Entries(fields, below) : es[i][2] = x
<1> DEFINE n == Len(fields)
           any(i) == CHOOSE x \in below[fields[i].shape] : TRUE
           first == [i \in 1..n |-> <<fields[i].name, any(i)>>]
<1>1. \A i \in 1..n : any(i) \in below[fields[i].shape]
  <2> TAKE i \in 1..n
  <2>1. fields[i].shape \in S
    BY FieldFacts
  <2>2. \E x \in below[fields[i].shape] : TRUE
    BY <2>1 DEF HasValues
  <2> QED
    BY <2>2, Zenon
<1> HIDE DEF any
<1>2. first \in Entries(fields, below)
  <2>1. /\ first = [i \in 1..n |-> first[i]]
        /\ \A i \in 1..n : first[i] = <<fields[i].name, first[i][2]>> /\ first[i][2] = any(i)
    OBVIOUS
  <2> HIDE DEF first
  <2> QED
    BY <1>1, <2>1, EntriesFacts
<1>3. ASSUME NEW i \in 1..n, NEW x \in below[fields[i].shape]
      PROVE  \E es \in Entries(fields, below) : es[i][2] = x
  <2> DEFINE value(k) == IF k = i THEN x ELSE any(k)
             es == [k \in 1..n |-> <<fields[k].name, value(k)>>]
  <2>1. \A k \in 1..n : value(k) \in below[fields[k].shape]
    BY <1>1, <1>3
  <2>2. value(i) = x
    OBVIOUS
  <2> HIDE DEF value
  <2>3. /\ es = [k \in 1..n |-> es[k]]
        /\ \A k \in 1..n : es[k] = <<fields[k].name, es[k][2]>> /\ es[k][2] = value(k)
    OBVIOUS
  <2> HIDE DEF es
  <2>4. es \in Entries(fields, below)
    BY <2>1, <2>3, EntriesFacts
  <2> QED
    BY <2>2, <2>3, <2>4
<1> QED
  BY <1>2, <1>3

\* The entries of a struct are a sequence of its names with values.
LEMMA EntrySeq ==
    ASSUME NEW S, NEW fields \in Seq(FieldShapes(S)), NEW below, NEW any,
           ValuesIn(S, below, any), NEW es \in Entries(fields, below)
    PROVE  /\ es \in Seq(Name \X any) /\ Len(es) = Len(fields)
           /\ DOMAIN es = 1..Len(fields)
           /\ \A i \in 1..Len(fields) :
                 es[i][1] = fields[i].name /\ es[i][2] \in below[fields[i].shape]
<1> DEFINE n == Len(fields)
<1>1. /\ es = [i \in 1..n |-> es[i]]
      /\ \A i \in 1..n : /\ es[i] = <<fields[i].name, es[i][2]>>
                         /\ es[i][2] \in below[fields[i].shape]
  BY EntriesFacts
<1>2. \A i \in 1..n : fields[i].name \in Name /\ fields[i].shape \in S
  BY FieldFacts
<1>3. \A i \in 1..n : es[i][2] \in any
  BY <1>1, <1>2 DEF ValuesIn
<1>4. ASSUME NEW i \in 1..n PROVE es[i] \in Name \X any /\ es[i][1] = fields[i].name
  <2> DEFINE a == fields[i].name  b == es[i][2]
  <2>1. a \in Name /\ b \in any /\ es[i] = <<a, b>>
    BY <1>1, <1>2, <1>3
  <2> HIDE DEF a, b
  <2>2. <<a, b>> \in Name \X any /\ <<a, b>>[1] = a
    BY <2>1
  <2> QED
    BY <2>1, <2>2 DEF a
<1>5. n \in Nat
  OBVIOUS
<1> HIDE DEF n
<1>6. es \in Seq(Name \X any) /\ Len(es) = n /\ DOMAIN es = 1..n
  BY <1>1, <1>4, <1>5
<1> QED
  BY <1>1, <1>4, <1>6 DEF n

\* The values a shape reads, by its kind.
LEMMA ReadableAre ==
    ASSUME NEW S, NEW c \in TypeShapes(S), NEW pol, NEW below, NEW any
    PROVE  /\ c.kind = "Primitive" =>
                \A v : v \in ReadableAs(c, pol, below, any) <=> v = Scalar(c.name)
           /\ c.kind = "Optional" =>
                \A v : v \in ReadableAs(c, pol, below, any) <=>
                    \/ v = None
                    \/ v = [is |-> "some", value |-> v.value] /\ v.value \in below[c.of]
           /\ c.kind = "Sequence" =>
                \A v : v \in ReadableAs(c, pol, below, any) <=>
                    v = [is |-> "list", items |-> v.items] /\ v.items \in Seq(below[c.of])
           /\ c.kind = "Map" =>
                \A v : v \in ReadableAs(c, pol, below, any) <=>
                    /\ v = [is |-> "map", pairs |-> v.pairs]
                    /\ v.pairs \in Seq(below[c.key] \X below[c.value])
           /\ c.kind = "Struct" =>
                \A v : v \in ReadableAs(c, pol, below, any) <=>
                    /\ v = [is |-> "struct", entries |-> v.entries]
                    /\ v.entries \in Seq(Name \X any)
                    /\ IF ByIndex(pol) THEN ReadsInOrder(v.entries, c.fields, pol, below)
                       ELSE ReadsByName(v.entries, c.fields, pol, below)
<1>1. CASE c.kind = "Primitive"
  BY <1>1 DEF ReadableAs
<1>2. CASE c.kind = "Optional"
  <2>1. ReadableAs(c, pol, below, any) = {None} \union [is : {"some"}, value : below[c.of]]
    BY <1>2 DEF ReadableAs
  <2>2. \A v : v \in [is : {"some"}, value : below[c.of]]
                 <=> v = [is |-> "some", value |-> v.value] /\ v.value \in below[c.of]
    OBVIOUS
  <2> QED
    BY <1>2, <2>1, <2>2
<1>3. CASE c.kind = "Sequence"
  <2>1. ReadableAs(c, pol, below, any) = [is : {"list"}, items : Seq(below[c.of])]
    BY <1>3 DEF ReadableAs
  <2> QED
    BY <1>3, <2>1
<1>4. CASE c.kind = "Map"
  <2>1. ReadableAs(c, pol, below, any)
            = [is : {"map"}, pairs : Seq(below[c.key] \X below[c.value])]
    BY <1>4 DEF ReadableAs
  <2> QED
    BY <1>4, <2>1
<1>5. CASE c.kind = "Struct"
  <2> DEFINE Reads(es) == IF ByIndex(pol) THEN ReadsInOrder(es, c.fields, pol, below)
                          ELSE ReadsByName(es, c.fields, pol, below)
             All == [is : {"struct"}, entries : Seq(Name \X any)]
  <2>1. ReadableAs(c, pol, below, any) = {w \in All : Reads(w.entries)}
    BY <1>5 DEF ReadableAs
  <2>2. \A v : v \in All <=> v = [is |-> "struct", entries |-> v.entries]
                             /\ v.entries \in Seq(Name \X any)
    OBVIOUS
  <2> HIDE DEF Reads, All
  <2>3. \A v : v \in ReadableAs(c, pol, below, any)
          <=> /\ v = [is |-> "struct", entries |-> v.entries]
              /\ v.entries \in Seq(Name \X any) /\ Reads(v.entries)
    BY <2>1, <2>2
  <2> QED
    BY <1>5, <2>3 DEF Reads
<1> QED
  BY <1>1, <1>2, <1>3, <1>4, <1>5, KindFacts

\* The values below: all shapes have some, the ones that fit are read.
ValuesBelow(S, fit, vals, reads, any) ==
    \A p, c \in S :
        /\ vals[p] # {} /\ vals[p] \subseteq any
        /\ <<p, c>> \in fit <=> vals[p] \subseteq reads[c]

\* A struct reads another in order exactly when their fields fit in order.
LEMMA InOrderReads ==
    ASSUME NEW S, NEW pol, NEW fit, NEW vals, NEW reads, NEW any,
           ValuesBelow(S, fit, vals, reads, any),
           NEW p \in Seq(FieldShapes(S)), NEW c \in Seq(FieldShapes(S))
    PROVE  FitInOrder(p, c, pol, fit)
             <=> \A es \in Entries(p, vals) : ReadsInOrder(es, c, pol, reads)
<1>1. /\ DOMAIN p = 1..Len(p) /\ DOMAIN c = 1..Len(c)
      /\ \A i \in 1..Len(p) : p[i].shape \in S
      /\ \A i \in 1..Len(c) : c[i].shape \in S
  BY FieldFacts
<1>2. HasValues(S, vals) /\ ValuesIn(S, vals, any)
  BY DEF ValuesBelow, HasValues, ValuesIn
<1>3. ASSUME NEW es \in Entries(p, vals)
      PROVE  /\ Len(es) = Len(p)
             /\ \A i \in 1..Len(p) : es[i][1] = p[i].name /\ es[i][2] \in vals[p[i].shape]
  BY <1>2, EntrySeq
<1>4. /\ Entries(p, vals) # {}
      /\ \A i \in 1..Len(p) : \A x \in vals[p[i].shape] :
            \E es \in Entries(p, vals) : es[i][2] = x
  BY <1>2, EntryWith
<1>5. ASSUME FitInOrder(p, c, pol, fit), NEW es \in Entries(p, vals)
      PROVE  ReadsInOrder(es, c, pol, reads)
  <2>1. Len(es) = Len(c) /\ Len(p) = Len(c)
    BY <1>3, <1>5 DEF FitInOrder
  <2>2. ASSUME NEW i \in 1..Len(c)
        PROVE  Named(es[i][1], c[i], pol) /\ es[i][2] \in reads[c[i].shape]
    <3>1. Named(p[i].name, c[i], pol) /\ <<p[i].shape, c[i].shape>> \in fit
      BY <1>5 DEF FitInOrder
    <3>2. es[i][1] = p[i].name /\ es[i][2] \in vals[p[i].shape]
      BY <1>3, <2>1
    <3>3. vals[p[i].shape] \subseteq reads[c[i].shape]
      BY <1>1, <2>1, <3>1 DEF ValuesBelow
    <3> QED
      BY <3>1, <3>2, <3>3
  <2> QED
    BY <1>1, <2>1, <2>2 DEF ReadsInOrder
<1>6. ASSUME \A es \in Entries(p, vals) : ReadsInOrder(es, c, pol, reads)
      PROVE  FitInOrder(p, c, pol, fit)
  <2>1. PICK e \in Entries(p, vals) : ReadsInOrder(e, c, pol, reads)
    BY <1>4, <1>6
  <2>2. Len(p) = Len(c)
    BY <1>3, <2>1 DEF ReadsInOrder
  <2>3. ASSUME NEW i \in 1..Len(c)
        PROVE  Named(p[i].name, c[i], pol) /\ <<p[i].shape, c[i].shape>> \in fit
    <3>1. Named(p[i].name, c[i], pol)
      BY <1>1, <1>3, <2>1, <2>2 DEF ReadsInOrder
    <3>2. ASSUME NEW x \in vals[p[i].shape] PROVE x \in reads[c[i].shape]
      <4>1. PICK es \in Entries(p, vals) : es[i][2] = x
        BY <1>4, <2>2
      <4> QED
        BY <1>1, <1>6, <4>1 DEF ReadsInOrder
    <3> QED
      BY <1>1, <2>2, <3>1, <3>2 DEF ValuesBelow
  <2> QED
    BY <2>2, <2>3 DEF FitInOrder
<1> QED
  BY <1>5, <1>6

\* A struct reads another by name exactly when their fields fit by name.
LEMMA ByNameReads ==
    ASSUME NEW S, NEW pol \in Policies, ~ByIndex(pol), NEW fit, NEW vals, NEW reads, NEW any,
           ValuesBelow(S, fit, vals, reads, any),
           NEW p \in Seq(FieldShapes(S)), NEW c \in Seq(FieldShapes(S))
    PROVE  FitByName(p, c, pol, fit)
             <=> \A es \in Entries(p, vals) : ReadsByName(es, c, pol, reads)
<1>1. /\ DOMAIN p = 1..Len(p) /\ DOMAIN c = 1..Len(c)
      /\ \A i \in 1..Len(p) : p[i].shape \in S
      /\ \A i \in 1..Len(c) : c[i].shape \in S
  BY FieldFacts
<1>2. HasValues(S, vals) /\ ValuesIn(S, vals, any)
  BY DEF ValuesBelow, HasValues, ValuesIn
<1>3. ASSUME NEW es \in Entries(p, vals)
      PROVE  /\ DOMAIN es = 1..Len(p)
             /\ \A i \in 1..Len(p) : es[i][1] = p[i].name /\ es[i][2] \in vals[p[i].shape]
  BY <1>2, EntrySeq
<1>4. /\ Entries(p, vals) # {}
      /\ \A i \in 1..Len(p) : \A x \in vals[p[i].shape] :
            \E es \in Entries(p, vals) : es[i][2] = x
  BY <1>2, EntryWith
<1>5. ASSUME FitByName(p, c, pol, fit), NEW es \in Entries(p, vals)
      PROVE  ReadsByName(es, c, pol, reads)
  <2>1. /\ DOMAIN es = 1..Len(p)
        /\ \A i \in 1..Len(p) : es[i][1] = p[i].name /\ es[i][2] \in vals[p[i].shape]
    BY <1>3
  <2>2. Distinct(p, pol) /\ Distinct(c, pol)
    BY <1>5 DEF FitByName
  <2>3. \A j, k \in DOMAIN es : SameName(es[j][1], es[k][1], FoldsCase(pol)) => j = k
    BY <1>1, <2>1, <2>2 DEF Distinct
  <2>4. \A i, k \in DOMAIN c : SameName(c[i].name, c[k].name, FoldsCase(pol)) => i = k
    BY <2>2 DEF Distinct
  <2>5. ASSUME NEW i \in DOMAIN c
        PROVE  \/ /\ MayBeAbsent(c[i], pol)
                  /\ \A j \in DOMAIN es : ~Named(es[j][1], c[i], pol)
               \/ \E j \in DOMAIN es : Named(es[j][1], c[i], pol) /\ es[j][2] \in reads[c[i].shape]
    <3>1. \/ /\ MayBeAbsent(c[i], pol)
             /\ \A j \in 1..Len(p) : ~Named(p[j].name, c[i], pol)
          \/ \E j \in 1..Len(p) :
                Named(p[j].name, c[i], pol) /\ <<p[j].shape, c[i].shape>> \in fit
      BY <1>1, <1>5 DEF FitByName
    <3>2. \A j \in 1..Len(p) : <<p[j].shape, c[i].shape>> \in fit => es[j][2] \in reads[c[i].shape]
      BY <1>1, <2>1 DEF ValuesBelow
    <3> QED
      BY <2>1, <3>1, <3>2
  <2>6. \A j \in DOMAIN es : MayBeUnknown(pol) \/ \E i \in DOMAIN c : Named(es[j][1], c[i], pol)
    BY <1>1, <1>5, <2>1 DEF FitByName
  <2> QED
    BY <2>3, <2>4, <2>5, <2>6 DEF ReadsByName
<1>6. ASSUME \A es \in Entries(p, vals) : ReadsByName(es, c, pol, reads)
      PROVE  FitByName(p, c, pol, fit)
  <2>1. PICK e \in Entries(p, vals) : ReadsByName(e, c, pol, reads)
    BY <1>4, <1>6
  <2>2. DOMAIN e = 1..Len(p) /\ \A i \in 1..Len(p) : e[i][1] = p[i].name
    BY <1>3
  <2>3. Distinct(p, pol) /\ Distinct(c, pol)
    BY <1>1, <2>1, <2>2 DEF ReadsByName, Distinct
  <2>4. ASSUME NEW i \in 1..Len(c)
        PROVE  \/ /\ MayBeAbsent(c[i], pol)
                  /\ \A j \in 1..Len(p) : ~Named(p[j].name, c[i], pol)
               \/ \E j \in 1..Len(p) :
                     Named(p[j].name, c[i], pol) /\ <<p[j].shape, c[i].shape>> \in fit
    <3>1. CASE \A j \in 1..Len(p) : ~Named(p[j].name, c[i], pol)
      BY <1>1, <2>1, <2>2, <3>1 DEF ReadsByName
    <3>2. CASE \E j \in 1..Len(p) : Named(p[j].name, c[i], pol)
      <4>1. PICK j \in 1..Len(p) : Named(p[j].name, c[i], pol)
        BY <3>2
      <4>2. ASSUME NEW x \in vals[p[j].shape] PROVE x \in reads[c[i].shape]
        <5>1. PICK es \in Entries(p, vals) : es[j][2] = x
          BY <1>4
        <5>2. /\ DOMAIN es = 1..Len(p) /\ \A k \in 1..Len(p) : es[k][1] = p[k].name
              /\ ReadsByName(es, c, pol, reads)
          BY <1>3, <1>6
        <5>3. PICK k \in 1..Len(p) : Named(p[k].name, c[i], pol) /\ es[k][2] \in reads[c[i].shape]
          BY <1>1, <4>1, <5>2 DEF ReadsByName
        <5>4. SameName(p[k].name, p[j].name, FoldsCase(pol))
          <6>1. FoldsCase(pol) \in BOOLEAN
            BY DEF FoldsCase
          <6>2. /\ SameName(p[k].name, c[i].name, FoldsCase(pol))
                /\ SameName(p[j].name, c[i].name, FoldsCase(pol))
            BY <4>1, <5>3, NamedFacts
          <6> QED
            BY <6>1, <6>2, NameFacts
        <5>5. k = j
          BY <1>1, <2>3, <5>4 DEF Distinct
        <5> QED
          BY <5>1, <5>3, <5>5
      <4>3. <<p[j].shape, c[i].shape>> \in fit
        BY <1>1, <4>2 DEF ValuesBelow
      <4> QED
        BY <4>1, <4>3
    <3> QED
      BY <3>1, <3>2
  <2>5. \A j \in 1..Len(p) :
           MayBeUnknown(pol) \/ \E i \in 1..Len(c) : Named(p[j].name, c[i], pol)
    BY <1>1, <2>1, <2>2 DEF ReadsByName
  <2> QED
    BY <2>3, <2>4, <2>5 DEF FitByName
<1> QED
  BY <1>5, <1>6

\* What a scalar and an absent value say they are.
LEMMA ValueKinds ==
    /\ \A name : Scalar(name).is = "scalar" /\ Scalar(name).type = name
    /\ None.is = "none"
BY DEF Scalar, None

\* A shape has a value of its own kind.
LEMMA ValuesOfAllKinds ==
    ASSUME NEW S, NEW s \in TypeShapes(S), NEW vals, HasValues(S, vals)
    PROVE  \E v \in ValuesOf(s, vals) :
              v.is = CASE s.kind = "Primitive" -> "scalar"
                       [] s.kind = "Optional" -> "none"
                       [] s.kind = "Sequence" -> "list"
                       [] s.kind = "Map" -> "map"
                       [] s.kind = "Struct" -> "struct"
<1>1. CASE s.kind = "Primitive"
  <2>1. Scalar(s.name) \in ValuesOf(s, vals)
    BY <1>1, ValuesAre, Zenon
  <2> QED
    BY <1>1, <2>1, ValueKinds
<1>2. CASE s.kind = "Optional"
  <2>1. None \in ValuesOf(s, vals)
    BY <1>2, ValuesAre, Zenon
  <2> QED
    BY <1>2, <2>1, ValueKinds
<1>3. CASE s.kind = "Sequence"
  <2> DEFINE v == [is |-> "list", items |-> <<>>]
  <2>1. v.is = "list" /\ v.items = <<>> /\ v = [is |-> "list", items |-> v.items]
    OBVIOUS
  <2> HIDE DEF v
  <2>2. v.items \in ListsOf(vals[s.of])
    BY <2>1, ListFacts
  <2>3. v \in ValuesOf(s, vals)
    BY <1>3, <2>1, <2>2, ValuesAre, Zenon
  <2> QED
    BY <1>3, <2>1, <2>3
<1>4. CASE s.kind = "Map"
  <2> DEFINE v == [is |-> "map", pairs |-> <<>>]
  <2>1. v.is = "map" /\ v.pairs = <<>> /\ v = [is |-> "map", pairs |-> v.pairs]
    OBVIOUS
  <2> HIDE DEF v
  <2>2. v.pairs \in ListsOf(vals[s.key] \X vals[s.value])
    BY <2>1, ListFacts
  <2>3. v \in ValuesOf(s, vals)
    BY <1>4, <2>1, <2>2, ValuesAre, Zenon
  <2> QED
    BY <1>4, <2>1, <2>3
<1>5. CASE s.kind = "Struct"
  <2>1. PICK es : es \in Entries(s.fields, vals)
    BY <1>5, KindFacts, EntryWith
  <2> DEFINE v == [is |-> "struct", entries |-> es]
  <2>2. v.is = "struct" /\ v.entries = es /\ v = [is |-> "struct", entries |-> v.entries]
    OBVIOUS
  <2> HIDE DEF v
  <2>3. v \in ValuesOf(s, vals)
    BY <1>5, <2>1, <2>2, ValuesAre
  <2> QED
    BY <1>5, <2>2, <2>3
<1> QED
  BY <1>1, <1>2, <1>3, <1>4, <1>5, KindFacts

\* A shape reads values of its own kind only.
LEMMA ReadableKinds ==
    ASSUME NEW S, NEW c \in TypeShapes(S), NEW pol, NEW below, NEW any
    PROVE  \A v \in ReadableAs(c, pol, below, any) :
                \/ c.kind = "Primitive" /\ v.is = "scalar"
                \/ c.kind = "Optional" /\ v.is \in {"none", "some"}
                \/ c.kind = "Sequence" /\ v.is = "list"
                \/ c.kind = "Map" /\ v.is = "map"
                \/ c.kind = "Struct" /\ v.is = "struct"
<1> DEFINE R == ReadableAs(c, pol, below, any)
<1>1. CASE c.kind = "Primitive"
  <2>1. \A v : v \in R <=> v = Scalar(c.name)
    BY <1>1, ReadableAre, Zenon
  <2> QED
    BY <1>1, <2>1, ValueKinds
<1>2. CASE c.kind = "Optional"
  <2>1. \A v : v \in R <=>
            \/ v = None
            \/ v = [is |-> "some", value |-> v.value] /\ v.value \in below[c.of]
    BY <1>2, ReadableAre, Zenon
  <2> QED
    BY <1>2, <2>1, ValueKinds
<1>3. CASE c.kind = "Sequence"
  <2>1. \A v : v \in R <=>
            v = [is |-> "list", items |-> v.items] /\ v.items \in Seq(below[c.of])
    BY <1>3, ReadableAre, Zenon
  <2> QED
    BY <1>3, <2>1
<1>4. CASE c.kind = "Map"
  <2>1. \A v : v \in R <=> /\ v = [is |-> "map", pairs |-> v.pairs]
                           /\ v.pairs \in Seq(below[c.key] \X below[c.value])
    BY <1>4, ReadableAre, Zenon
  <2> QED
    BY <1>4, <2>1
<1>5. CASE c.kind = "Struct"
  <2>1. R \subseteq [is : {"struct"}, entries : Seq(Name \X any)]
    BY <1>5 DEF ReadableAs
  <2> QED
    BY <1>5, <2>1
<1> QED
  BY <1>1, <1>2, <1>3, <1>4, <1>5, KindFacts

\* Two shapes fit exactly when all the values of one are read as the other.
LEMMA ReadsStep ==
    ASSUME NEW S, NEW pol \in Enforced, NEW fit, NEW vals, NEW reads, NEW any,
           ValuesBelow(S, fit, vals, reads, any),
           NEW p \in TypeShapes(S), NEW c \in TypeShapes(S)
    PROVE  ShapesFit(p, c, pol, fit)
             <=> ValuesOf(p, vals) \subseteq ReadableAs(c, pol, reads, any)
<1> DEFINE V == ValuesOf(p, vals)  R == ReadableAs(c, pol, reads, any)
<1>0. HasValues(S, vals) /\ ValuesIn(S, vals, any)
  BY DEF ValuesBelow, HasValues, ValuesIn
<1>1. CASE p.kind # c.kind
  <2>1. PICK v \in V :
            v.is = CASE p.kind = "Primitive" -> "scalar"
                     [] p.kind = "Optional" -> "none"
                     [] p.kind = "Sequence" -> "list"
                     [] p.kind = "Map" -> "map"
                     [] p.kind = "Struct" -> "struct"
    BY <1>0, ValuesOfAllKinds
  <2>2. v \in R => \/ c.kind = "Primitive" /\ v.is = "scalar"
                   \/ c.kind = "Optional" /\ v.is \in {"none", "some"}
                   \/ c.kind = "Sequence" /\ v.is = "list"
                   \/ c.kind = "Map" /\ v.is = "map"
                   \/ c.kind = "Struct" /\ v.is = "struct"
    BY ReadableKinds
  <2>3. v \notin R
    BY <1>1, <2>1, <2>2, KindFacts
  <2> QED
    BY <1>1, <2>1, <2>3 DEF ShapesFit
<1>2. CASE p.kind = c.kind /\ p.kind = "Primitive"
  <2>1. \A v : v \in V <=> v = Scalar(p.name)
    BY <1>2, ValuesAre, Zenon
  <2>2. \A v : v \in R <=> v = Scalar(c.name)
    BY <1>2, ReadableAre, Zenon
  <2>3. Scalar(p.name) = Scalar(c.name) <=> p.name = c.name
    BY ValueKinds
  <2>4. ShapesFit(p, c, pol, fit) <=> p.name = c.name
    BY <1>2 DEF ShapesFit
  <2> DEFINE x == Scalar(p.name)  y == Scalar(c.name)
  <2>5. (\A v : v \in V <=> v = x) /\ (\A v : v \in R <=> v = y)
    BY <2>1, <2>2, Zenon
  <2> HIDE DEF V, R, x, y
  <2>6. V \subseteq R <=> x = y
    <3>1. x \in V /\ (x \in R <=> x = y)
      BY <2>5, Zenon
    <3>2. V \subseteq R => x = y
      BY <3>1
    <3>3. x = y => V \subseteq R
      BY <2>5, Zenon
    <3> QED
      BY <3>2, <3>3
  <2> QED
    BY <2>3, <2>4, <2>6 DEF V, R, x, y
<1>3. CASE p.kind = c.kind /\ p.kind = "Optional"
  <2>1. p.of \in S /\ c.of \in S
    BY <1>3, KindFacts
  <2>2. ShapesFit(p, c, pol, fit) <=> vals[p.of] \subseteq reads[c.of]
    BY <1>3, <2>1 DEF ShapesFit, ValuesBelow
  <2>3. \A v : v \in V <=> \/ v = None
                           \/ v = [is |-> "some", value |-> v.value] /\ v.value \in vals[p.of]
    BY <1>3, ValuesAre, Zenon
  <2>4. \A v : v \in R <=> \/ v = None
                           \/ v = [is |-> "some", value |-> v.value] /\ v.value \in reads[c.of]
    BY <1>3, ReadableAre, Zenon
  <2>5. ASSUME V \subseteq R, NEW x \in vals[p.of] PROVE x \in reads[c.of]
    <3> DEFINE v == [is |-> "some", value |-> x]
    <3>1. v.is = "some" /\ v.value = x /\ v = [is |-> "some", value |-> v.value]
      OBVIOUS
    <3> HIDE DEF v
    <3>2. v \in V
      BY <2>3, <3>1
    <3>3. v \in R /\ v # None
      BY <2>5, <3>1, <3>2, ValueKinds
    <3> QED
      BY <2>4, <3>1, <3>3
  <2>6. ASSUME vals[p.of] \subseteq reads[c.of] PROVE V \subseteq R
    BY <2>3, <2>4, <2>6
  <2> QED
    BY <2>2, <2>5, <2>6
<1>4. CASE p.kind = c.kind /\ p.kind = "Sequence"
  <2>1. p.of \in S /\ c.of \in S
    BY <1>4, KindFacts
  <2> DEFINE X == vals[p.of]  Y == reads[c.of]
  <2>2. ShapesFit(p, c, pol, fit) <=> X \subseteq Y
    BY <1>4, <2>1 DEF ShapesFit, ValuesBelow
  <2>3. \A v : v \in V <=> v = [is |-> "list", items |-> v.items] /\ v.items \in ListsOf(X)
    BY <1>4, ValuesAre, Zenon
  <2>4. \A v : v \in R <=> v = [is |-> "list", items |-> v.items] /\ v.items \in Seq(Y)
    BY <1>4, ReadableAre, Zenon
  <2> HIDE DEF X, Y
  <2>5. ASSUME V \subseteq R, NEW x \in X PROVE x \in Y
    <3> DEFINE v == [is |-> "list", items |-> <<x>>]
    <3>1. v.items = <<x>> /\ v = [is |-> "list", items |-> v.items]
      OBVIOUS
    <3> HIDE DEF v
    <3>2. v \in V
      BY <2>3, <3>1, ListFacts
    <3>3. <<x>> \in Seq(Y)
      BY <2>4, <2>5, <3>1, <3>2
    <3>4. <<x>>[1] \in Y
      BY <3>3
    <3> QED
      BY <3>4
  <2>6. ASSUME X \subseteq Y PROVE V \subseteq R
    <3>1. \A items \in Seq(X) : items \in Seq(Y)
      BY <2>6
    <3> QED
      BY <2>3, <2>4, <3>1, ListFacts
  <2> QED
    BY <2>2, <2>5, <2>6
<1>5. CASE p.kind = c.kind /\ p.kind = "Map"
  <2>1. p.key \in S /\ c.key \in S /\ p.value \in S /\ c.value \in S
    BY <1>5, KindFacts
  <2> DEFINE XK == vals[p.key]  YK == reads[c.key]  XV == vals[p.value]  YV == reads[c.value]
             X == XK \X XV  Y == YK \X YV
  <2>2. ShapesFit(p, c, pol, fit) <=> XK \subseteq YK /\ XV \subseteq YV
    BY <1>5, <2>1 DEF ShapesFit, ValuesBelow
  <2>3. \A v : v \in V <=> v = [is |-> "map", pairs |-> v.pairs] /\ v.pairs \in ListsOf(X)
    BY <1>5, ValuesAre, Zenon
  <2>4. \A v : v \in R <=> v = [is |-> "map", pairs |-> v.pairs] /\ v.pairs \in Seq(Y)
    BY <1>5, ReadableAre, Zenon
  <2>7. XK # {} /\ XV # {}
    BY <1>0, <2>1 DEF HasValues
  <2> HIDE DEF XK, YK, XV, YV
  <2>5. ASSUME V \subseteq R, NEW k \in XK, NEW x \in XV PROVE k \in YK /\ x \in YV
    <3> DEFINE v == [is |-> "map", pairs |-> << <<k, x>> >>]
    <3>1. v.pairs = << <<k, x>> >> /\ v = [is |-> "map", pairs |-> v.pairs]
      OBVIOUS
    <3>2. <<k, x>> \in X
      OBVIOUS
    <3> HIDE DEF v, X, Y
    <3>3. v \in V
      BY <2>3, <3>1, <3>2, ListFacts
    <3>4. << <<k, x>> >> \in Seq(Y)
      BY <2>4, <2>5, <3>1, <3>3
    <3>5. << <<k, x>> >>[1] \in Y
      BY <3>4
    <3>6. <<k, x>> \in Y
      BY <3>5
    <3> QED
      BY <3>6 DEF Y
  <2>6. ASSUME XK \subseteq YK, XV \subseteq YV PROVE V \subseteq R
    <3>1. X \subseteq Y
      BY <2>6
    <3> HIDE DEF X, Y
    <3>2. \A pairs \in Seq(X) : pairs \in Seq(Y)
      BY <3>1
    <3> QED
      BY <2>3, <2>4, <3>2, ListFacts
  <2>8. ASSUME V \subseteq R PROVE XK \subseteq YK /\ XV \subseteq YV
    BY <2>5, <2>7, <2>8
  <2> QED
    BY <2>2, <2>6, <2>8
<1>6. CASE p.kind = c.kind /\ p.kind = "Struct"
  <2> DEFINE ps == p.fields  cs == c.fields
             Reads(es) == IF ByIndex(pol) THEN ReadsInOrder(es, cs, pol, reads)
                          ELSE ReadsByName(es, cs, pol, reads)
  <2>1. ps \in Seq(FieldShapes(S)) /\ cs \in Seq(FieldShapes(S))
    BY <1>6, KindFacts
  <2>2. ShapesFit(p, c, pol, fit) <=> FieldsFit(ps, cs, pol, fit)
    BY <1>6 DEF ShapesFit
  <2>3. \A v : v \in V <=> v = [is |-> "struct", entries |-> v.entries]
                           /\ v.entries \in Entries(ps, vals)
    BY <1>6, ValuesAre, Zenon
  <2>4. \A v : v \in R <=> /\ v = [is |-> "struct", entries |-> v.entries]
                           /\ v.entries \in Seq(Name \X any) /\ Reads(v.entries)
    BY <1>6, ReadableAre, Zenon
  <2> HIDE DEF ps, cs, V, R
  <2>5. FieldsFit(ps, cs, pol, fit) <=> \A es \in Entries(ps, vals) : Reads(es)
    <3>1. CASE ByIndex(pol)
      BY <2>1, <3>1, InOrderReads DEF FieldsFit
    <3>2. CASE ~ByIndex(pol)
      BY <2>1, <3>2, ByNameReads DEF FieldsFit, Enforced
    <3> QED
      BY <3>1, <3>2
  <2>6. \A es \in Entries(ps, vals) : es \in Seq(Name \X any)
    BY <1>0, <2>1, EntrySeq
  <2> HIDE DEF Reads
  <2>7. ASSUME V \subseteq R, NEW es \in Entries(ps, vals) PROVE Reads(es)
    <3> DEFINE v == [is |-> "struct", entries |-> es]
    <3>1. v.entries = es /\ v = [is |-> "struct", entries |-> v.entries]
      OBVIOUS
    <3> HIDE DEF v
    <3>2. v \in V
      BY <2>3, <3>1
    <3> QED
      BY <2>4, <2>7, <3>1, <3>2
  <2>8. ASSUME \A es \in Entries(ps, vals) : Reads(es) PROVE V \subseteq R
    BY <2>3, <2>4, <2>6, <2>8
  <2>9. ShapesFit(p, c, pol, fit) <=> V \subseteq R
    BY <2>2, <2>5, <2>7, <2>8
  <2> QED
    BY <2>9 DEF V, R
<1> QED
  BY <1>1, <1>2, <1>3, <1>4, <1>5, <1>6, KindFacts

\* By level: every shape has a value, and its values are values.
LEMMA ValuesInside ==
    ASSUME NEW S, NEW s \in TypeShapes(S), NEW vals, NEW any, ValuesIn(S, vals, any)
    PROVE  ValuesOf(s, vals) \subseteq ValuesOver(any)
<1> SUFFICES ASSUME NEW v \in ValuesOf(s, vals) PROVE v \in ValuesOver(any)
  OBVIOUS
<1>1. CASE s.kind = "Primitive"
  <2>1. v = [is |-> "scalar", type |-> s.name] /\ s.name \in STRING
    BY <1>1, ValuesAre, KindFacts DEF Scalar
  <2>2. v \in [is : {"scalar"}, type : STRING]
    BY <2>1
  <2> QED
    BY <2>2 DEF ValuesOver
<1>2. CASE s.kind = "Optional"
  <2>1. \/ v = None
        \/ v = [is |-> "some", value |-> v.value] /\ v.value \in vals[s.of]
    BY <1>2, ValuesAre, Zenon
  <2>2. vals[s.of] \subseteq any
    BY <1>2, KindFacts DEF ValuesIn
  <2>3. v = None \/ v \in [is : {"some"}, value : any]
    BY <2>1, <2>2
  <2> QED
    BY <2>3 DEF ValuesOver
<1>3. CASE s.kind = "Sequence"
  <2>1. v = [is |-> "list", items |-> v.items] /\ v.items \in Seq(vals[s.of])
    BY <1>3, ValuesAre, ListFacts
  <2>2. vals[s.of] \subseteq any
    BY <1>3, KindFacts DEF ValuesIn
  <2>3. v.items \in Seq(any)
    BY <2>1, <2>2
  <2>4. v \in [is : {"list"}, items : Seq(any)]
    BY <2>1, <2>3
  <2> QED
    BY <2>4 DEF ValuesOver
<1>4. CASE s.kind = "Map"
  <2>1. v = [is |-> "map", pairs |-> v.pairs] /\ v.pairs \in Seq(vals[s.key] \X vals[s.value])
    BY <1>4, ValuesAre, ListFacts
  <2>2. vals[s.key] \subseteq any /\ vals[s.value] \subseteq any
    BY <1>4, KindFacts DEF ValuesIn
  <2>3. vals[s.key] \X vals[s.value] \subseteq any \X any
    BY <2>2
  <2> DEFINE X == vals[s.key] \X vals[s.value]  Y == any \X any
  <2> HIDE DEF X, Y
  <2>4. v.pairs \in Seq(Y)
    <3>1. v.pairs \in Seq(X) /\ X \subseteq Y
      BY <2>1, <2>3 DEF X, Y
    <3> QED
      BY <3>1
  <2>5. v \in [is : {"map"}, pairs : Seq(Y)]
    BY <2>1, <2>4
  <2> QED
    BY <2>5 DEF ValuesOver, Y
<1>5. CASE s.kind = "Struct"
  <2>1. v = [is |-> "struct", entries |-> v.entries] /\ v.entries \in Entries(s.fields, vals)
    BY <1>5, ValuesAre, Zenon
  <2>2. v.entries \in Seq(Name \X any)
    BY <1>5, <2>1, KindFacts, EntrySeq
  <2>3. v \in [is : {"struct"}, entries : Seq(Name \X any)]
    BY <2>1, <2>2
  <2> QED
    BY <2>3 DEF ValuesOver
<1> QED
  BY <1>1, <1>2, <1>3, <1>4, <1>5, KindFacts

\* By level: a shape fits another exactly when its values can be read by it.
LEMMA ReadsByLevel ==
    ASSUME NEW pol \in Enforced
    PROVE  \A n \in Nat : ValuesBelow(ShapesTo[n], Fits(n, pol), Values[n],
                                      Readable[n][pol], ValuesTo[n])
<1> DEFINE S == {n \in Nat : ValuesBelow(ShapesTo[n], Fits(n, pol), Values[n],
                                         Readable[n][pol], ValuesTo[n])}
<1>1. 0 \in S
  BY ShapesUnfold DEF ValuesBelow
<1>2. ASSUME NEW n \in Nat, n \in S PROVE n + 1 \in S
  <2> DEFINE T == ShapesTo[n]  fit == Fits(n, pol)  vals == Values[n]
             reads == Readable[n][pol]  any == ValuesTo[n]
  <2>0. n + 1 \in Nat
    OBVIOUS
  <2>1. ShapesTo[n + 1] = TypeShapes(T) /\ ValuesTo[n + 1] = ValuesOver(any)
    BY ShapesUnfold, ValuesToUnfolds, Zenon
  <2>2. ValuesBelow(T, fit, vals, reads, any)
    BY <1>2
  <2>3. HasValues(T, vals) /\ ValuesIn(T, vals, any)
    BY <2>2 DEF ValuesBelow, HasValues, ValuesIn
  <2>4. pol \in Policies
    BY DEF Enforced
  <2>5. ASSUME NEW p \in ShapesTo[n + 1], NEW c \in ShapesTo[n + 1]
        PROVE  /\ Values[n + 1][p] # {}
               /\ Values[n + 1][p] \subseteq ValuesTo[n + 1]
               /\ <<p, c>> \in Fits(n + 1, pol)
                    <=> Values[n + 1][p] \subseteq Readable[n + 1][pol][c]
    <3>1. Values[n + 1][p] = ValuesOf(p, vals)
      BY ValuesUnfold, Zenon
    <3>2. Readable[n + 1][pol][c] = ReadableAs(c, pol, reads, any)
      BY <2>4, ReadableUnfolds, Zenon
    <3>3. <<p, c>> \in Fits(n + 1, pol) <=> ShapesFit(p, c, pol, fit)
      BY FitsUnfold, Zenon
    <3>4. p \in TypeShapes(T) /\ c \in TypeShapes(T)
      BY <2>1, Zenon
    <3> HIDE DEF T, fit, vals, reads, any
    <3>5. ValuesOf(p, vals) # {}
      BY <2>3, <3>4, ValuesOfAllKinds
    <3>6. ValuesOf(p, vals) \subseteq ValuesOver(any)
      BY <2>3, <3>4, ValuesInside
    <3>7. ShapesFit(p, c, pol, fit) <=> ValuesOf(p, vals) \subseteq ReadableAs(c, pol, reads, any)
      BY <2>2, <3>4, ReadsStep
    <3> QED
      BY <2>1, <3>1, <3>2, <3>3, <3>5, <3>6, <3>7
  <2>6. ValuesBelow(ShapesTo[n + 1], Fits(n + 1, pol), Values[n + 1],
                    Readable[n + 1][pol], ValuesTo[n + 1])
    BY <2>5, Zenon DEF ValuesBelow
  <2> QED
    BY <2>0, <2>6
<1> HIDE DEF S
<1>3. Nat \subseteq S
  BY <1>1, <1>2, ShapeLevels!NatSetInduction
<1> QED
  BY <1>3 DEF S

-----------------------------------------------------------------------------
(* Shapes that are the same have one mapping *)

\* Equal shapes are of one kind.
LEMMA SameKinds ==
    ASSUME NEW n \in Nat, NEW a \in ShapesTo[n], NEW b \in ShapesTo[n], <<a, b>> \in Same[n]
    PROVE  a.kind = b.kind /\ (a.kind = "Primitive" => a.name = b.name)
<1>1. n # 0
  BY ShapesUnfold
<1>2. PICK m \in Nat : n = m + 1
  <2>1. n - 1 \in Nat /\ n = (n - 1) + 1
    BY <1>1
  <2> QED
    BY <2>1
<1>3. ShapeEq(a, b, Same[m])
  BY <1>2, SameUnfolds
<1> QED
  BY <1>3 DEF ShapeEq

\* Equal shapes have one physical type.
LEMMA SamePhysical ==
    \A n \in Nat : \A p, c \in ShapesTo[n] :
        <<p, c>> \in Same[n] => Physical[n][p] = Physical[n][c]
<1> DEFINE S == {n \in Nat : \A p, c \in ShapesTo[n] :
                    <<p, c>> \in Same[n] => Physical[n][p] = Physical[n][c]}
<1>1. 0 \in S
  BY ShapesUnfold
<1>2. ASSUME NEW n \in Nat, n \in S PROVE n + 1 \in S
  <2> DEFINE T == ShapesTo[n]  same == Same[n]  below == Physical[n]
  <2>0. n + 1 \in Nat
    OBVIOUS
  <2>1. ShapesTo[n + 1] = TypeShapes(T)
    BY ShapesUnfold, Zenon
  <2>2. \A a, b \in T : <<a, b>> \in same => below[a] = below[b]
    BY <1>2
  <2>3. ASSUME NEW p \in TypeShapes(T), NEW c \in TypeShapes(T), ShapeEq(p, c, same)
        PROVE  PhysicalOf(p, below) = PhysicalOf(c, below)
    <3> HIDE DEF T, same, below
    <3>0. p.kind = c.kind
      BY <2>3 DEF ShapeEq
    <3>1. CASE p.kind = "Primitive"
      <4>1. p = Primitive(p.name) /\ c = Primitive(c.name) /\ p.name = c.name
        BY <2>3, <3>0, <3>1, KindFacts DEF ShapeEq
      <4>2. p = c
        BY <4>1
      <4> QED
        BY <4>2
    <3>2. CASE p.kind = "Optional"
      <4>1. below[p.of] = below[c.of]
        BY <2>2, <2>3, <3>0, <3>2, KindFacts DEF ShapeEq
      <4>2. PhysicalOf(p, below) = [below[p.of] EXCEPT !.nullable = TRUE]
        BY <3>2 DEF PhysicalOf
      <4>3. PhysicalOf(c, below) = [below[c.of] EXCEPT !.nullable = TRUE]
        BY <3>0, <3>2 DEF PhysicalOf
      <4> QED
        BY <4>1, <4>2, <4>3
    <3>3. CASE p.kind = "Sequence"
      <4>1. below[p.of] = below[c.of]
        BY <2>2, <2>3, <3>0, <3>3, KindFacts DEF ShapeEq
      <4>2. PhysicalOf(p, below) = Required("Sequence", <<Field(Marker("item"), below[p.of])>>)
        BY <3>3 DEF PhysicalOf
      <4>3. PhysicalOf(c, below) = Required("Sequence", <<Field(Marker("item"), below[c.of])>>)
        BY <3>0, <3>3 DEF PhysicalOf
      <4> QED
        BY <4>1, <4>2, <4>3
    <3>4. CASE p.kind = "Map"
      <4>1. below[p.key] = below[c.key] /\ below[p.value] = below[c.value]
        BY <2>2, <2>3, <3>0, <3>4, KindFacts DEF ShapeEq
      <4> DEFINE entries(k, v) == Required("Map", <<Field(Marker("entries"),
                    Required("Struct", <<Field(Marker("key"), k), Field(Marker("value"), v)>>))>>)
      <4>2. PhysicalOf(p, below) = entries(below[p.key], below[p.value])
        BY <3>4 DEF PhysicalOf
      <4>3. PhysicalOf(c, below) = entries(below[c.key], below[c.value])
        BY <3>0, <3>4 DEF PhysicalOf
      <4> HIDE DEF entries
      <4> QED
        BY <4>1, <4>2, <4>3
    <3>5. CASE p.kind = "Struct"
      <4> DEFINE ps == p.fields  cs == c.fields
                 made(fs) == [i \in DOMAIN fs |-> Field(fs[i].name, below[fs[i].shape])]
      <4>1. ps \in Seq(FieldShapes(T)) /\ cs \in Seq(FieldShapes(T))
        BY <3>0, <3>5, KindFacts
      <4>2. /\ Len(ps) = Len(cs)
            /\ \A i \in DOMAIN ps :
                  ps[i].name = cs[i].name /\ <<ps[i].shape, cs[i].shape>> \in same
        BY <2>3, <3>5 DEF ShapeEq
      <4>3. PhysicalOf(p, below) = Required("Struct", made(ps))
        BY <3>5 DEF PhysicalOf
      <4>4. PhysicalOf(c, below) = Required("Struct", made(cs))
        BY <3>0, <3>5 DEF PhysicalOf
      <4> HIDE DEF ps, cs
      <4>5. DOMAIN ps = 1..Len(ps) /\ DOMAIN cs = DOMAIN ps
        BY <4>1, <4>2
      <4>6. \A i \in DOMAIN ps : below[ps[i].shape] = below[cs[i].shape]
        BY <2>2, <4>1, <4>2, <4>5, FieldFacts
      <4>7. made(ps) = made(cs)
        BY <4>2, <4>5, <4>6
      <4> QED
        BY <4>3, <4>4, <4>7
    <3> QED
      BY <3>1, <3>2, <3>3, <3>4, <3>5, KindFacts
  <2>4. \A p, c \in ShapesTo[n + 1] :
            <<p, c>> \in Same[n + 1] => Physical[n + 1][p] = Physical[n + 1][c]
    <3> TAKE p \in ShapesTo[n + 1], c \in ShapesTo[n + 1]
    <3> HAVE <<p, c>> \in Same[n + 1]
    <3>1. ShapeEq(p, c, same)
      BY SameUnfolds
    <3>2. Physical[n + 1][p] = PhysicalOf(p, below) /\ Physical[n + 1][c] = PhysicalOf(c, below)
      BY PhysicalUnfolds, Zenon
    <3> QED
      BY <2>1, <2>3, <3>1, <3>2
  <2> QED
    BY <2>0, <2>4
<1> HIDE DEF S
<1>3. Nat \subseteq S
  BY <1>1, <1>2, ShapeLevels!NatSetInduction
<1> QED
  BY <1>3 DEF S

\* Of two equal shapes, both can be mapped or neither.
LEMMA SameMappable ==
    \A n \in Nat : \A p, c \in ShapesTo[n], depth \in Nat :
        <<p, c>> \in Same[n] /\ p \in Mappable[n][depth] => c \in Mappable[n][depth]
<1> DEFINE S == {n \in Nat : \A p, c \in ShapesTo[n], depth \in Nat :
                    <<p, c>> \in Same[n] /\ p \in Mappable[n][depth] => c \in Mappable[n][depth]}
<1>1. 0 \in S
  BY ShapesUnfold
<1>2. ASSUME NEW n \in Nat, n \in S PROVE n + 1 \in S
  <2> DEFINE T == ShapesTo[n]  same == Same[n]  below == Mappable[n]
  <2>0. n + 1 \in Nat
    OBVIOUS
  <2>1. ShapesTo[n + 1] = TypeShapes(T)
    BY ShapesUnfold, Zenon
  <2>2. \A a, b \in T, depth \in Nat :
            <<a, b>> \in same /\ a \in below[depth] => b \in below[depth]
    BY <1>2
  <2>3. \A a, b \in T :
            <<a, b>> \in same => a.kind = b.kind /\ (a.kind = "Primitive" => a.name = b.name)
    BY SameKinds, Zenon
  <2>4. ASSUME NEW p \in TypeShapes(T), NEW c \in TypeShapes(T), NEW depth \in Nat,
               ShapeEq(p, c, same), MapField(p, depth, below)
        PROVE  MapField(c, depth, below)
    <3> HIDE DEF T, same, below
    <3>0. p.kind = c.kind /\ depth <= MaxDepth /\ depth + 1 \in Nat
      BY <2>4 DEF ShapeEq, MapField
    <3>1. CASE p.kind = "Primitive"
      <4>1. p = Primitive(p.name) /\ c = Primitive(c.name) /\ p.name = c.name
        BY <2>4, <3>0, <3>1, KindFacts DEF ShapeEq
      <4>2. p = c
        BY <4>1
      <4> QED
        BY <2>4, <4>2
    <3>2. CASE p.kind = "Optional"
      <4>1. p.of \in T /\ c.of \in T /\ <<p.of, c.of>> \in same
        BY <2>4, <3>0, <3>2, KindFacts DEF ShapeEq
      <4>2. p.of.kind # "Optional" /\ p.of \in below[depth]
        BY <2>4, <3>2 DEF MapField, IsOptional
      <4>3. c.of.kind # "Optional" /\ c.of \in below[depth]
        BY <2>2, <2>3, <4>1, <4>2
      <4> QED
        BY <3>0, <3>2, <4>3 DEF MapField, IsOptional
    <3>3. CASE p.kind = "Sequence"
      <4>1. p.of \in T /\ c.of \in T /\ <<p.of, c.of>> \in same
        BY <2>4, <3>0, <3>3, KindFacts DEF ShapeEq
      <4>2. p.of \in below[depth + 1]
        BY <2>4, <3>3 DEF MapField
      <4>3. c.of \in below[depth + 1]
        BY <2>2, <3>0, <4>1, <4>2
      <4> QED
        BY <3>0, <3>3, <4>3 DEF MapField
    <3>4. CASE p.kind = "Map"
      <4>1. /\ p.key \in T /\ c.key \in T /\ <<p.key, c.key>> \in same
            /\ p.value \in T /\ c.value \in T /\ <<p.value, c.value>> \in same
        BY <2>4, <3>0, <3>4, KindFacts DEF ShapeEq
      <4>2. /\ p.key.kind = "Primitive" /\ p.key.name \in AtomicKeys
            /\ p.key \in below[depth + 1] /\ p.value \in below[depth + 1]
        BY <2>4, <3>4 DEF MapField
      <4>3. /\ c.key.kind = "Primitive" /\ c.key.name \in AtomicKeys
            /\ c.key \in below[depth + 1] /\ c.value \in below[depth + 1]
        BY <2>2, <2>3, <3>0, <4>1, <4>2
      <4> QED
        BY <3>0, <3>4, <4>3 DEF MapField
    <3>5. CASE p.kind = "Struct"
      <4> DEFINE ps == p.fields  cs == c.fields
      <4>1. ps \in Seq(FieldShapes(T)) /\ cs \in Seq(FieldShapes(T))
        BY <3>0, <3>5, KindFacts
      <4>2. /\ Len(ps) = Len(cs)
            /\ \A i \in DOMAIN ps :
                  ps[i].name = cs[i].name /\ <<ps[i].shape, cs[i].shape>> \in same
        BY <2>4, <3>5 DEF ShapeEq
      <4>3. /\ \A i, j \in DOMAIN ps : ps[i].name = ps[j].name => i = j
            /\ \A i \in DOMAIN ps : ps[i].shape \in below[depth + 1]
        BY <2>4, <3>5 DEF MapField
      <4> HIDE DEF ps, cs
      <4>4. DOMAIN ps = 1..Len(ps) /\ DOMAIN cs = DOMAIN ps
        BY <4>1, <4>2
      <4>5. \A i \in DOMAIN ps : ps[i].shape \in T /\ cs[i].shape \in T
        BY <4>1, <4>2, <4>4, FieldFacts
      <4>6. /\ \A i, j \in DOMAIN cs : cs[i].name = cs[j].name => i = j
            /\ \A i \in DOMAIN cs : cs[i].shape \in below[depth + 1]
        BY <2>2, <3>0, <4>2, <4>3, <4>4, <4>5
      <4> QED
        BY <3>0, <3>5, <4>6 DEF MapField, cs
    <3> QED
      BY <3>1, <3>2, <3>3, <3>4, <3>5, KindFacts
  <2>5. ASSUME NEW p \in ShapesTo[n + 1], NEW c \in ShapesTo[n + 1], NEW depth \in Nat,
               <<p, c>> \in Same[n + 1], p \in Mappable[n + 1][depth]
        PROVE  c \in Mappable[n + 1][depth]
    <3>1. ShapeEq(p, c, same)
      BY <2>5, SameUnfolds
    <3>2. Mappable[n + 1][depth] = {s \in ShapesTo[n + 1] : MapField(s, depth, below)}
      BY MappableUnfolds, Zenon
    <3> HIDE DEF below, same
    <3>3. MapField(p, depth, below)
      BY <2>5, <3>2
    <3>4. MapField(c, depth, below)
      BY <2>1, <2>4, <3>1, <3>3
    <3> QED
      BY <3>2, <3>4
  <2> QED
    BY <2>0, <2>5
<1> HIDE DEF S
<1>3. Nat \subseteq S
  BY <1>1, <1>2, ShapeLevels!NatSetInduction
<1> QED
  BY <1>3 DEF S

-----------------------------------------------------------------------------
(* The connection: what the gate has let through *)

\* What the gate decided and prepared is what the declarations say.
GateInv ==
    /\ producer \in Producers /\ contract \in Contracts /\ policy \in Policies
    /\ gate \in {"declared", "refused", "built", "source ready", "ready",
                  "source unmapped", "sink unmapped"}
    /\ comparison = IF gate = "declared" THEN [rejected |-> FALSE, diffs |-> <<>>]
                    ELSE Compare(producer, contract, policy)
    /\ gate # "declared" => (comparison.rejected <=> gate = "refused")
    /\ gate \notin {"declared", "refused", "built"} => policy = "ExactOrdered"
    /\ gate \in {"source ready", "ready", "sink unmapped"} =>
          Prepared(producer) /\ schemas[1] = Schema(producer)
    /\ gate = "source ready" => schemas = <<Schema(producer)>>
    /\ gate = "ready" => schemas[2] = Schema(contract)
    /\ gate = "sink unmapped" => ~Prepared(contract)

\* The gate's invariant holds at the start.
LEMMA GateInit == Declare => GateInv
BY DEF Declare, GateInv

\* The two parts of a pair made by appending.
LEMMA AppendToOne ==
    ASSUME NEW a, NEW b
    PROVE  Append(<<a>>, b)[1] = a /\ Append(<<a>>, b)[2] = b
<1> DEFINE T == {a, b}  one == <<a>>
<1>1. a \in T /\ b \in T
  OBVIOUS
<1> HIDE DEF T
<1>2. one \in Seq(T) /\ Len(one) = 1 /\ one[1] = a
  BY <1>1
<1> HIDE DEF one
<1>3. 1 \in 1..Len(one) /\ 2 = Len(one) + 1
  BY <1>2
<1>4. Append(one, b)[1] = a
  BY <1>1, <1>2, <1>3
<1>5. Append(one, b)[Len(one) + 1] = b
  BY <1>1, <1>2, AppendProperties
<1>6. Append(one, b)[2] = b
  BY <1>3, <1>5, Zenon
<1> QED
  BY <1>4, <1>6 DEF one

\* The gate's invariant is kept by every step of the gate.
LEMMA GateStep == GateInv /\ [GateNext]_gateVars => GateInv'
<1> SUFFICES ASSUME GateInv, [GateNext]_gateVars PROVE GateInv'
  OBVIOUS
<1>1. CASE Check
  <2> DEFINE found == Compare(producer, contract, policy)
  <2>1. found.rejected \in BOOLEAN
    BY NestingFacts, ComparisonFacts DEF GateInv
  <2> HIDE DEF found
  <2>2. comparison' = found /\ gate' = (IF found.rejected THEN "refused" ELSE "built")
        /\ UNCHANGED <<producer, contract, policy>>
    BY <1>1 DEF Check, found
  <2> QED
    BY <2>1, <2>2 DEF GateInv, found
<1>2. CASE MapSource
  <2> DEFINE schema == Schema(producer)
  <2>1. <<schema>>[1] = schema
    OBVIOUS
  <2>2. CASE Prepared(producer)
    <3>1. gate' = "source ready" /\ schemas' = <<schema>>
      BY <1>2, <2>2 DEF MapSource
    <3>2. schemas'[1] = schema
      BY <2>1, <3>1
    <3> HIDE DEF schema
    <3> QED
      BY <1>2, <2>2, <3>1, <3>2 DEF MapSource, GateInv, schema, Schema, Prepared
  <2>3. CASE ~Prepared(producer)
    BY <1>2, <2>3 DEF MapSource, GateInv
  <2> QED
    BY <2>2, <2>3
<1>3. CASE MapSink
  <2>1. CASE Prepared(contract)
    <3> DEFINE first == Schema(producer)  last == Schema(contract)
    <3>1. gate' = "ready" /\ schemas' = Append(<<first>>, last) /\ Prepared(producer)
      BY <1>3, <2>1 DEF MapSink, GateInv
    <3> HIDE DEF first, last
    <3>2. Append(<<first>>, last)[1] = first /\ Append(<<first>>, last)[2] = last
      BY AppendToOne
    <3>3. schemas'[1] = first /\ schemas'[2] = last
      BY <3>1, <3>2
    <3> QED
      BY <1>3, <3>1, <3>3 DEF MapSink, GateInv, first, last, Schema, Prepared
  <2>2. CASE ~Prepared(contract)
    BY <1>3, <2>2 DEF MapSink, GateInv
  <2> QED
    BY <2>1, <2>2
<1>4. CASE UNCHANGED gateVars
  BY <1>4 DEF gateVars, GateInv
<1> QED
  BY <1>1, <1>2, <1>3, <1>4 DEF GateNext

\* Every step of a gated pipeline is one of the gate, or leaves it alone.
LEMMA GatedSteps == [GatedNext]_<<vars, gateVars, batchVars>> => [GateNext]_gateVars
<1> SUFFICES ASSUME [GatedNext]_<<vars, gateVars, batchVars>> PROVE [GateNext]_gateVars
  OBVIOUS
<1>1. CASE Compile
  BY <1>1 DEF Compile, GateNext
<1>2. CASE PrepareEarlier
  BY <1>2 DEF PrepareEarlier
<1>3. CASE PrepareLast
  BY <1>3 DEF PrepareLast, GateNext
<1>4. CASE PrepareSink
  BY <1>4 DEF PrepareSink, GateNext
<1>5. CASE RunStep
  BY <1>5 DEF RunStep
<1>6. CASE Validated
  BY <1>6 DEF Validated
<1>7. CASE UNCHANGED <<vars, gateVars, batchVars>>
  BY <1>7
<1> QED
  BY <1>1, <1>2, <1>3, <1>4, <1>5, <1>6, <1>7 DEF GatedNext

\* The gate's invariant holds of a gated pipeline.
LEMMA GateHolds == GatedSpec => []GateInv
<1>1. GatedInit => GateInv
  BY GateInit DEF GatedInit
<1>2. GateInv /\ [GatedNext]_<<vars, gateVars, batchVars>> => GateInv'
  BY GateStep, GatedSteps
<1> QED
  BY <1>1, <1>2, PTL DEF GatedSpec

\* The build accepts a connection under an enforced policy exactly when all the
\* values the producer's declaration allows can be read by the contract, for any
\* declarations of any depth.
THEOREM AcceptedIsReadable == GatedSpec => []VerdictIsReadability
<1>1. GateInv => VerdictIsReadability
  <2> SUFFICES ASSUME GateInv, gate # "declared", policy # "Full"
               PROVE  LET reader == IF BothStructs(producer, contract) THEN policy
                                    ELSE "ExactOrdered"
                      IN  ~comparison.rejected <=>
                            Values[Nesting][producer] \subseteq Readable[Nesting][reader][contract]
    BY DEF VerdictIsReadability
  <2> DEFINE reader == Reader(producer, contract, policy)
  <2>1. /\ producer \in ShapesTo[Nesting] /\ contract \in ShapesTo[Nesting]
        /\ Nesting \in Nat /\ policy \in Policies /\ policy \in Enforced
    BY NestingFacts DEF GateInv, Enforced
  <2>2. reader \in Enforced /\ reader = IF BothStructs(producer, contract) THEN policy
                                        ELSE "ExactOrdered"
    BY <2>1 DEF Reader, Enforced, Policies
  <2>3. comparison.rejected <=> <<producer, contract>> \notin Fits(Nesting, reader)
    BY <2>1, ComparisonFacts DEF GateInv
  <2> HIDE DEF reader
  <2>4. ValuesBelow(ShapesTo[Nesting], Fits(Nesting, reader), Values[Nesting],
                    Readable[Nesting][reader], ValuesTo[Nesting])
    BY <2>1, <2>2, ReadsByLevel
  <2>5. <<producer, contract>> \in Fits(Nesting, reader)
          <=> Values[Nesting][producer] \subseteq Readable[Nesting][reader][contract]
    BY <2>1, <2>4 DEF ValuesBelow
  <2> QED
    BY <2>2, <2>3, <2>5
<1> QED
  BY <1>1, GateHolds, PTL

\* The order of the policies in the documentation is that of what they accept.
THEOREM PoliciesAreNested == GatedSpec => []PoliciesNest
<1>1. GateInv => PoliciesNest
  <2> SUFFICES ASSUME GateInv, gate # "declared", ~comparison.rejected
               PROVE
        /\ policy = "ExactOrdered" => Conforms(producer, contract, "ExactOrderedCI")
        /\ policy = "ExactOrderedCI" => Conforms(producer, contract, "ExactByPosition")
        /\ policy = "Exact" => /\ Conforms(producer, contract, "ExactUnorderedCI")
                               /\ Conforms(contract, producer, "Exact")
        /\ policy = "ExactUnorderedCI" => Conforms(producer, contract, "Exact")
        /\ policy = "Forward" => Conforms(contract, producer, "Backward")
    BY DEF PoliciesNest
  <2> DEFINE S == ShapesTo[Nesting]
  <2>1. producer \in S /\ contract \in S /\ Nesting \in Nat
    BY NestingFacts DEF GateInv
  <2>2. {"Exact", "ExactUnorderedCI", "ExactOrdered", "ExactOrderedCI", "ExactByPosition",
         "Backward", "Forward"} = Enforced
    BY DEF Enforced, Policies
  <2>3. Enforced \subseteq Policies
    BY DEF Enforced
  <2>4. ASSUME NEW p \in S, NEW c \in S, NEW pol \in Enforced
        PROVE  Conforms(p, c, pol) <=> <<p, c>> \in Fits(Nesting, Reader(p, c, pol))
    BY <2>3, <2>4, ComparisonFacts DEF Conforms
  <2>5. Conforms(producer, contract, policy)
    BY DEF GateInv, Conforms
  <2>6. ASSUME NEW pol \in Enforced, NEW wider \in Enforced, StepNests(pol, wider),
               policy = pol
        PROVE  Conforms(producer, contract, wider)
    <3>1. <<producer, contract>> \in Fits(Nesting, Reader(producer, contract, pol))
      BY <2>1, <2>4, <2>5, <2>6
    <3>2. CASE BothStructs(producer, contract)
      <4>1. <<producer, contract>> \in Fits(Nesting, pol)
        BY <3>1, <3>2 DEF Reader
      <4>2. <<producer, contract>> \in Fits(Nesting, wider)
        BY <2>1, <2>6, <4>1, FitsNest
      <4> QED
        BY <2>1, <2>4, <3>2, <4>2 DEF Reader
    <3>3. CASE ~BothStructs(producer, contract)
      BY <2>1, <2>4, <3>1, <3>3 DEF Reader
    <3> QED
      BY <3>2, <3>3
  <2>7. ASSUME NEW pol \in Enforced, NEW other \in Enforced, StepExchanges(pol, other),
               policy = pol
        PROVE  Conforms(contract, producer, other)
    <3>1. <<producer, contract>> \in Fits(Nesting, Reader(producer, contract, pol))
      BY <2>1, <2>4, <2>5, <2>7
    <3>0. BothStructs(contract, producer) <=> BothStructs(producer, contract)
      BY DEF BothStructs
    <3>2. CASE BothStructs(producer, contract)
      <4>1. <<producer, contract>> \in Fits(Nesting, pol)
        BY <3>1, <3>2 DEF Reader
      <4>2. <<contract, producer>> \in Fits(Nesting, other)
        BY <2>1, <2>7, <4>1, FitsExchange
      <4> QED
        BY <2>1, <2>4, <3>0, <3>2, <4>2 DEF Reader
    <3>3. CASE ~BothStructs(producer, contract)
      <4>1. <<producer, contract>> \in Same[Nesting]
        BY <2>1, <3>1, <3>3, SameFits DEF Reader
      <4>2. <<contract, producer>> \in Fits(Nesting, "ExactOrdered")
        BY <2>1, <4>1, SameExchanges, SameFits
      <4> QED
        BY <2>1, <2>4, <3>0, <3>3, <4>2 DEF Reader
    <3> QED
      BY <3>2, <3>3
  <2> QED
    BY <2>2, <2>6, <2>7, OrderedNests, ByNameNests, ByNameExchanges
<1> QED
  BY <1>1, GateHolds, PTL

\* A refused build names a difference, at a field of one of the two
\* declarations, however many differences there are and however deep.
THEOREM RefusalIsNamed == GatedSpec => []RefusalNamesAField
<1>1. GateInv => RefusalNamesAField
  <2> SUFFICES ASSUME GateInv, gate # "declared"
               PROVE  /\ comparison.rejected <=> comparison.diffs # <<>>
                      /\ \A i \in DOMAIN comparison.diffs :
                            comparison.diffs[i].path[1] \in Heads(producer) \union Heads(contract)
    BY DEF RefusalNamesAField, Heads
  <2>1. producer \in ShapesTo[Nesting] /\ contract \in ShapesTo[Nesting]
    BY NestingFacts DEF GateInv
  <2>2. comparison = Compare(producer, contract, policy) /\ policy \in Policies
    BY DEF GateInv
  <2> QED
    BY <2>1, <2>2, ComparisonFacts
<1> QED
  BY <1>1, GateHolds, PTL

\* What the comparison under ExactOrdered accepts has one physical schema at
\* both ends, which the sink's end can always map once the source's has.
THEOREM SinkIsCovered == GatedSpec => []SinkNeedsNoCheckOfItsOwn
<1>1. GateInv => SinkNeedsNoCheckOfItsOwn
  <2> SUFFICES ASSUME GateInv, gate \in {"source ready", "ready", "sink unmapped"}
               PROVE  /\ gate = "ready" => schemas[1] = schemas[2]
                      /\ gate # "sink unmapped"
    BY DEF SinkNeedsNoCheckOfItsOwn
  <2>1. /\ producer \in ShapesTo[Nesting] /\ contract \in ShapesTo[Nesting] /\ Nesting \in Nat
        /\ policy = "ExactOrdered" /\ "ExactOrdered" \in Enforced /\ policy \in Policies
    BY NestingFacts DEF GateInv, Enforced, Policies
  <2>2. ~Compare(producer, contract, policy).rejected
    BY DEF GateInv
  <2>3. Reader(producer, contract, "ExactOrdered") = "ExactOrdered"
    BY DEF Reader
  <2>4. <<producer, contract>> \in Fits(Nesting, "ExactOrdered")
    BY <2>1, <2>2, <2>3, ComparisonFacts
  <2>5. <<producer, contract>> \in Same[Nesting]
    BY <2>1, <2>4, SameFits
  <2>6. Schema(producer) = Schema(contract)
    BY <2>1, <2>5, SamePhysical DEF Schema
  <2>7. Prepared(producer)
    BY DEF GateInv
  <2>8. Prepared(contract)
    <3>1. producer.kind = contract.kind
      BY <2>1, <2>5, SameKinds
    <3>2. contract \in Mappable[Nesting][0]
      BY <2>1, <2>5, <2>7, SameMappable DEF Prepared
    <3> QED
      BY <2>7, <3>1, <3>2 DEF Prepared
  <2> QED
    BY <2>6, <2>8 DEF GateInv
<1> QED
  BY <1>1, GateHolds, PTL

-----------------------------------------------------------------------------
(* The levels of fields, arrays and nodes *)

FieldsStep(n, below) == Fields(below)
FieldLevels == INSTANCE NatRecursion WITH Base <- {}, Step <- FieldsStep

\* The fields, by level.
LEMMA FieldsUnfold == FieldsTo[0] = {} /\ \A n \in Nat : FieldsTo[n + 1] = Fields(FieldsTo[n])
<1>1. FieldsTo = FieldLevels!Recursive
  BY DEF FieldsTo, FieldLevels!Recursive, FieldsStep
<1>2. \A n \in Nat : n + 1 \in Nat /\ n + 1 # 0 /\ (n + 1) - 1 = n
  OBVIOUS
<1>3. FieldsTo[0] = {} /\ \A n \in Nat : n # 0 => FieldsTo[n] = FieldsStep(n, FieldsTo[n - 1])
  BY <1>1, FieldLevels!Unfolds
<1> QED
  BY <1>2, <1>3, Zenon DEF FieldsStep

ArraysStep(n, below) == Arrays(below)
ArrayLevels == INSTANCE NatRecursion WITH Base <- {}, Step <- ArraysStep

\* The arrays, by level.
LEMMA ArraysUnfold == ArraysTo[0] = {} /\ \A n \in Nat : ArraysTo[n + 1] = Arrays(ArraysTo[n])
<1>1. ArraysTo = ArrayLevels!Recursive
  BY DEF ArraysTo, ArrayLevels!Recursive, ArraysStep
<1>2. \A n \in Nat : n + 1 \in Nat /\ n + 1 # 0 /\ (n + 1) - 1 = n
  OBVIOUS
<1>3. ArraysTo[0] = {} /\ \A n \in Nat : n # 0 => ArraysTo[n] = ArraysStep(n, ArraysTo[n - 1])
  BY <1>1, ArrayLevels!Unfolds
<1> QED
  BY <1>2, <1>3, Zenon DEF ArraysStep

NodesStep(n, below) == Nodes(below)
NodesLevels == INSTANCE NatRecursion WITH Base <- {}, Step <- NodesStep

\* The nodes, by level.
LEMMA NodesUnfold == \A n \in Nat : NodesTo[n + 1] = Nodes(NodesTo[n])
<1>1. NodesTo = NodesLevels!Recursive
  BY DEF NodesTo, NodesLevels!Recursive, NodesStep
<1>2. \A n \in Nat : n + 1 \in Nat /\ n + 1 # 0 /\ (n + 1) - 1 = n
  OBVIOUS
<1>3. \A n \in Nat : n # 0 => NodesTo[n] = NodesStep(n, NodesTo[n - 1])
  BY <1>1, NodesLevels!Unfolds
<1> QED
  BY <1>2, <1>3, Zenon DEF NodesStep

ArrayOfStep(n, below) == {af \in ArraysTo[n] \X FieldsTo[n] : IsArrayOf(af[1], af[2], below)}
ArrayOfLevels == INSTANCE NatRecursion WITH Base <- {}, Step <- ArrayOfStep

\* The arrays of a field, by level.
LEMMA ArrayOfUnfolds ==
    \A n \in Nat : \A array \in ArraysTo[n + 1], field \in FieldsTo[n + 1] :
        <<array, field>> \in ArrayOf[n + 1] <=> IsArrayOf(array, field, ArrayOf[n])
<1>1. ArrayOf = ArrayOfLevels!Recursive
  BY DEF ArrayOf, ArrayOfLevels!Recursive, ArrayOfStep
<1>2. \A n \in Nat : n + 1 \in Nat /\ n + 1 # 0 /\ (n + 1) - 1 = n
  OBVIOUS
<1>3. \A n \in Nat : n # 0 => ArrayOf[n] = ArrayOfStep(n, ArrayOf[n - 1])
  BY <1>1, ArrayOfLevels!Unfolds
<1>4. \A n \in Nat : ArrayOf[n + 1] = ArrayOfStep(n + 1, ArrayOf[n])
  BY <1>2, <1>3, Zenon
<1>5. \A n \in Nat : \A af \in ArraysTo[n + 1] \X FieldsTo[n + 1] :
        af \in ArrayOf[n + 1] <=> IsArrayOf(af[1], af[2], ArrayOf[n])
  BY <1>4, Zenon DEF ArrayOfStep
<1>6. ASSUME NEW n \in Nat, NEW a \in ArraysTo[n + 1], NEW b \in FieldsTo[n + 1]
      PROVE  <<a, b>> \in ArrayOf[n + 1] <=> IsArrayOf(a, b, ArrayOf[n])
  <2>1. /\ <<a, b>> \in ArraysTo[n + 1] \X FieldsTo[n + 1]
        /\ <<a, b>>[1] = a /\ <<a, b>>[2] = b
    OBVIOUS
  <2> DEFINE ab == <<a, b>>
  <2>2. ab \in ArrayOf[n + 1] <=> IsArrayOf(ab[1], ab[2], ArrayOf[n])
    BY <1>5, <2>1, Zenon
  <2> QED
    BY <2>1, <2>2, Zenon
<1> QED
  BY <1>6, Zenon

MatchingStep(n, below) ==
    {ab \in FieldsTo[n] \X FieldsTo[n] : FieldMatches(ab[1], ab[2], below)}
MatchingLevels == INSTANCE NatRecursion WITH Base <- {}, Step <- MatchingStep

\* The fields that match, by level.
LEMMA MatchingUnfolds ==
    \A n \in Nat : \A a, b \in FieldsTo[n + 1] :
        <<a, b>> \in Matching[n + 1] <=> FieldMatches(a, b, Matching[n])
<1>1. Matching = MatchingLevels!Recursive
  BY DEF Matching, MatchingLevels!Recursive, MatchingStep
<1>2. \A n \in Nat : n + 1 \in Nat /\ n + 1 # 0 /\ (n + 1) - 1 = n
  OBVIOUS
<1>3. \A n \in Nat : n # 0 => Matching[n] = MatchingStep(n, Matching[n - 1])
  BY <1>1, MatchingLevels!Unfolds
<1>4. \A n \in Nat : Matching[n + 1] = MatchingStep(n + 1, Matching[n])
  BY <1>2, <1>3, Zenon
<1>5. \A n \in Nat : \A ab \in FieldsTo[n + 1] \X FieldsTo[n + 1] :
        ab \in Matching[n + 1] <=> FieldMatches(ab[1], ab[2], Matching[n])
  BY <1>4, Zenon DEF MatchingStep
<1>6. ASSUME NEW n \in Nat, NEW a \in FieldsTo[n + 1], NEW b \in FieldsTo[n + 1]
      PROVE  <<a, b>> \in Matching[n + 1] <=> FieldMatches(a, b, Matching[n])
  <2>1. /\ <<a, b>> \in FieldsTo[n + 1] \X FieldsTo[n + 1]
        /\ <<a, b>>[1] = a /\ <<a, b>>[2] = b
    OBVIOUS
  <2> DEFINE ab == <<a, b>>
  <2>2. ab \in Matching[n + 1] <=> FieldMatches(ab[1], ab[2], Matching[n])
    BY <1>5, <2>1, Zenon
  <2> QED
    BY <2>1, <2>2, Zenon
<1> QED
  BY <1>6, Zenon

NodeStep(n, below) ==
    [field \in FieldsTo[n] |-> [path \in Seq(Segment) |-> NodeOf(field, path, below)]]
NodeLevels == INSTANCE NatRecursion WITH Base <- <<>>, Step <- NodeStep

\* The node of a field, by level (Node::from_field).
LEMMA NodeUnfolds ==
    \A n \in Nat : \A field \in FieldsTo[n + 1], path \in Seq(Segment) :
        Node[n + 1][field][path] = NodeOf(field, path, Node[n])
<1>1. Node = NodeLevels!Recursive
  BY DEF Node, NodeLevels!Recursive, NodeStep
<1>2. \A n \in Nat : n + 1 \in Nat /\ n + 1 # 0 /\ (n + 1) - 1 = n
  OBVIOUS
<1>3. \A n \in Nat : n # 0 => Node[n] = NodeStep(n, Node[n - 1])
  BY <1>1, NodeLevels!Unfolds
<1>4. \A n \in Nat : Node[n + 1] = NodeStep(n + 1, Node[n])
  BY <1>2, <1>3, Zenon
<1>5. ASSUME NEW n \in Nat, NEW field \in FieldsTo[n + 1], NEW path \in Seq(Segment)
      PROVE  Node[n + 1][field][path] = NodeOf(field, path, Node[n])
  <2> DEFINE At(f) == [at \in Seq(Segment) |-> NodeOf(f, at, Node[n])]
  <2>1. Node[n + 1] = [f \in FieldsTo[n + 1] |-> At(f)]
    BY <1>4, Zenon DEF NodeStep
  <2>2. Node[n + 1][field] = At(field)
    <3> HIDE DEF At
    <3> QED
      BY <2>1, Zenon
  <2> QED
    BY <2>2, Zenon
<1> QED
  BY <1>5, Zenon

ViolationsStep(n, below) ==
    [node \in NodesTo[n] |-> [array \in ArraysTo[n] |-> [row \in Nat |->
        Met(node, array, row, below)]]]
ViolationLevels == INSTANCE NatRecursion WITH Base <- <<>>, Step <- ViolationsStep

\* The violations of a slot, by level (Node::validate).
LEMMA ViolationsUnfold ==
    \A n \in Nat : \A node \in NodesTo[n + 1], array \in ArraysTo[n + 1], row \in Nat :
        Violations[n + 1][node][array][row] = Met(node, array, row, Violations[n])
<1>1. Violations = ViolationLevels!Recursive
  BY DEF Violations, ViolationLevels!Recursive, ViolationsStep
<1>2. \A n \in Nat : n + 1 \in Nat /\ n + 1 # 0 /\ (n + 1) - 1 = n
  OBVIOUS
<1>3. \A n \in Nat : n # 0 => Violations[n] = ViolationsStep(n, Violations[n - 1])
  BY <1>1, ViolationLevels!Unfolds
<1>4. \A n \in Nat : Violations[n + 1] = ViolationsStep(n + 1, Violations[n])
  BY <1>2, <1>3, Zenon
<1>5. ASSUME NEW n \in Nat, NEW node \in NodesTo[n + 1], NEW array \in ArraysTo[n + 1],
             NEW row \in Nat
      PROVE  Violations[n + 1][node][array][row] = Met(node, array, row, Violations[n])
  <2> DEFINE Of(d, a) == [r \in Nat |-> Met(d, a, r, Violations[n])]
             At(d) == [a \in ArraysTo[n + 1] |-> Of(d, a)]
  <2>1. Violations[n + 1] = [d \in NodesTo[n + 1] |-> At(d)]
    BY <1>4, Zenon DEF ViolationsStep
  <2>2. Violations[n + 1][node] = At(node)
    <3> HIDE DEF At
    <3> QED
      BY <2>1, Zenon
  <2>3. Violations[n + 1][node][array] = Of(node, array)
    <3> HIDE DEF Of
    <3> QED
      BY <2>2, Zenon
  <2> QED
    BY <2>3, Zenon
<1> QED
  BY <1>5, Zenon

UnreadableStep(n, below) ==
    [field \in FieldsTo[n] |-> [path \in Seq(Segment) |-> [array \in ArraysTo[n] |->
        [view \in SUBSET Nat |-> Reached(field, path, array, view, below)]]]]
UnreadableLevels == INSTANCE NatRecursion WITH Base <- <<>>, Step <- UnreadableStep

\* What a reader cannot read, by level.
LEMMA UnreadableUnfolds ==
    \A n \in Nat : \A field \in FieldsTo[n + 1], path \in Seq(Segment),
                      array \in ArraysTo[n + 1], view \in SUBSET Nat :
        Unreadable[n + 1][field][path][array][view]
            = Reached(field, path, array, view, Unreadable[n])
<1>1. Unreadable = UnreadableLevels!Recursive
  BY DEF Unreadable, UnreadableLevels!Recursive, UnreadableStep
<1>2. \A n \in Nat : n + 1 \in Nat /\ n + 1 # 0 /\ (n + 1) - 1 = n
  OBVIOUS
<1>3. \A n \in Nat : n # 0 => Unreadable[n] = UnreadableStep(n, Unreadable[n - 1])
  BY <1>1, UnreadableLevels!Unfolds
<1>4. \A n \in Nat : Unreadable[n + 1] = UnreadableStep(n + 1, Unreadable[n])
  BY <1>2, <1>3, Zenon
<1>5. ASSUME NEW n \in Nat, NEW field \in FieldsTo[n + 1], NEW path \in Seq(Segment),
             NEW array \in ArraysTo[n + 1], NEW view \in SUBSET Nat
      PROVE  Unreadable[n + 1][field][path][array][view]
                 = Reached(field, path, array, view, Unreadable[n])
  <2> DEFINE From(f, at, a) == [w \in SUBSET Nat |-> Reached(f, at, a, w, Unreadable[n])]
             Of(f, at) == [a \in ArraysTo[n + 1] |-> From(f, at, a)]
             At(f) == [at \in Seq(Segment) |-> Of(f, at)]
  <2>1. Unreadable[n + 1] = [f \in FieldsTo[n + 1] |-> At(f)]
    BY <1>4, Zenon DEF UnreadableStep
  <2>2. Unreadable[n + 1][field] = At(field)
    <3> HIDE DEF At
    <3> QED
      BY <2>1, Zenon
  <2>3. Unreadable[n + 1][field][path] = Of(field, path)
    <3> HIDE DEF Of
    <3> QED
      BY <2>2, Zenon
  <2>4. Unreadable[n + 1][field][path][array] = From(field, path, array)
    <3> HIDE DEF From
    <3> QED
      BY <2>3, Zenon
  <2> QED
    BY <2>4, Zenon
<1> QED
  BY <1>5, Zenon

StrippedStep(n, below) == [field \in FieldsTo[n] |-> Strip(field, below)]
StrippedLevels == INSTANCE NatRecursion WITH Base <- <<>>, Step <- StrippedStep

\* The fields without metadata, by level.
LEMMA StrippedUnfolds ==
    \A n \in Nat : \A field \in FieldsTo[n + 1] :
        Stripped[n + 1][field] = Strip(field, Stripped[n])
<1>1. Stripped = StrippedLevels!Recursive
  BY DEF Stripped, StrippedLevels!Recursive, StrippedStep
<1>2. \A n \in Nat : n + 1 \in Nat /\ n + 1 # 0 /\ (n + 1) - 1 = n
  OBVIOUS
<1>3. \A n \in Nat : n # 0 => Stripped[n] = StrippedStep(n, Stripped[n - 1])
  BY <1>1, StrippedLevels!Unfolds
<1>4. \A n \in Nat : Stripped[n + 1] = StrippedStep(n + 1, Stripped[n])
  BY <1>2, <1>3, Zenon
<1> QED
  BY <1>4, Zenon DEF StrippedStep

-----------------------------------------------------------------------------
(* What a validator meets is what a reader reaches *)

\* Where a child is, is a path again.
LEMMA BelowIsPath ==
    ASSUME NEW S, NEW field \in Fields(S), NEW path \in Seq(Segment),
           NEW child, child.name \in Segment
    PROVE  Below(field, path, child) \in Seq(Segment)
<1>1. Brackets \in Segment
  <2>1. "[]" \in STRING
    BY LiteralsAssumption DEF Markers
  <2> QED
    BY <2>1 DEF Brackets, Segment
<1> QED
  BY <1>1 DEF Below

\* The parts of a field, an array and a node.
LEMMA FieldParts ==
    ASSUME NEW S, NEW field \in Fields(S)
    PROVE  /\ field.name \in Segment /\ field.nullable \in BOOLEAN /\ field.type \in STRING
           /\ field.children \in Seq(S)
           /\ DOMAIN field.children = 1..Len(field.children) /\ Len(field.children) \in Nat
           /\ \A i \in DOMAIN field.children : field.children[i] \in S
           /\ field.type \in {"Sequence", "Map"} => Len(field.children) = 1
BY DEF Fields

\* The parts of an array.
LEMMA ArrayParts ==
    ASSUME NEW S, NEW array \in Arrays(S)
    PROVE  /\ array.valid \in Seq(BOOLEAN) /\ array.offsets \in Seq(Nat)
           /\ array.children \in Seq(S)
           /\ DOMAIN array.valid = 1..Len(array.valid) /\ Len(array.valid) \in Nat
           /\ DOMAIN array.offsets = 1..Len(array.offsets) /\ Len(array.offsets) \in Nat
           /\ DOMAIN array.children = 1..Len(array.children) /\ Len(array.children) \in Nat
           /\ \A i \in DOMAIN array.children : array.children[i] \in S
           /\ \A i \in DOMAIN array.offsets : array.offsets[i] \in Nat
BY DEF Arrays

\* A field has a name at every level.
LEMMA LevelsHaveNames == \A n \in Nat : \A field \in FieldsTo[n] : field.name \in Segment
<1> SUFFICES ASSUME NEW n \in Nat, NEW field \in FieldsTo[n] PROVE field.name \in Segment
  OBVIOUS
<1>1. n # 0
  BY FieldsUnfold
<1>2. n - 1 \in Nat /\ n = (n - 1) + 1
  BY <1>1
<1>3. FieldsTo[n] = Fields(FieldsTo[n - 1])
  BY <1>2, FieldsUnfold, Zenon
<1> QED
  BY <1>3, FieldParts

\* A node has the levels of its field.
LEMMA NodesTyped ==
    \A n \in Nat : \A field \in FieldsTo[n], path \in Seq(Segment) :
        Node[n][field][path] \in NodesTo[n]
<1> DEFINE S == {n \in Nat : \A field \in FieldsTo[n], path \in Seq(Segment) :
                    Node[n][field][path] \in NodesTo[n]}
<1>1. 0 \in S
  BY FieldsUnfold
<1>2. ASSUME NEW n \in Nat, n \in S PROVE n + 1 \in S
  <2>1. FieldsTo[n + 1] = Fields(FieldsTo[n]) /\ NodesTo[n + 1] = Nodes(NodesTo[n])
    BY FieldsUnfold, NodesUnfold, Zenon
  <2> DEFINE F == FieldsTo[n]  below == Node[n]  D == NodesTo[n]
  <2>2. \A f \in F, at \in Seq(Segment) : below[f][at] \in D
    BY <1>2
  <2>3. \A f \in F : f.name \in Segment
    BY LevelsHaveNames
  <2>4. ASSUME NEW field \in Fields(F), NEW path \in Seq(Segment)
        PROVE  NodeOf(field, path, below) \in Nodes(D)
    <3> HIDE DEF F, below, D
    <3> DEFINE child(i) == below[field.children[i]][Below(field, path, field.children[i])]
               kids == IF field.type \notin Nested THEN <<>>
                       ELSE [i \in DOMAIN field.children |-> child(i)]
    <3>1. /\ field.nullable \in BOOLEAN /\ field.type \in STRING
          /\ DOMAIN field.children = 1..Len(field.children) /\ Len(field.children) \in Nat
          /\ \A i \in DOMAIN field.children : field.children[i] \in F
      BY FieldParts
    <3>2. \A i \in DOMAIN field.children : child(i) \in D
      BY <2>2, <2>3, <3>1, BelowIsPath
    <3> HIDE DEF child
    <3>3. [i \in 1..Len(field.children) |-> child(i)] \in Seq(D)
      BY <3>1, <3>2
    <3>4. kids \in Seq(D)
      BY <3>1, <3>3
    <3> HIDE DEF kids
    <3>5. [nullable |-> field.nullable, path |-> path, type |-> field.type, children |-> kids]
            \in Nodes(D)
      BY <3>1, <3>4 DEF Nodes
    <3> QED
      BY <3>5 DEF NodeOf, kids, child
  <2>5. ASSUME NEW field \in FieldsTo[n + 1], NEW path \in Seq(Segment)
        PROVE  Node[n + 1][field][path] \in NodesTo[n + 1]
    <3>1. Node[n + 1][field][path] = NodeOf(field, path, Node[n])
      BY NodeUnfolds
    <3> QED
      BY <2>1, <2>4, <3>1
  <2>6. n + 1 \in Nat
    OBVIOUS
  <2> QED
    BY <2>5, <2>6
<1> HIDE DEF S
<1>3. Nat \subseteq S
  BY <1>1, <1>2, ShapeLevels!NatSetInduction
<1> QED
  BY <1>3 DEF S

\* The violations a validator can report.
Wrongs == [kind : {"RequiredNull", "Representation"}, path : Seq(Segment), row : Nat]

\* What the validator meets in an array, for a field at a path.
MetIn(field, path, array, node, viol) == viol[node[field][path]][array]
\* What is met in the i-th child.
MetBelow(field, path, array, i, node, viol) ==
    MetIn(field.children[i], Below(field, path, field.children[i]), array.children[i],
          node, viol)

\* The slots of a list's or a map's window.
SlotsOf(array, row) == (array.offsets[row] + 1)..array.offsets[row + 1]

\* The arrays of a level are validated without surprise.
MeetsWrongs(F, A, arrays, node, viol) ==
    \A field \in F, path \in Seq(Segment), array \in A :
        <<array, field>> \in arrays =>
            \A row \in DOMAIN array.valid :
                MetIn(field, path, array, node, viol)[row] \in Seq(Wrongs)

\* The children of an array: for each field one, of as many slots or with a
\* window for each slot.
ChildrenFit(F, A, arrays, field, array) ==
    /\ \A i \in DOMAIN field.children :
          /\ field.children[i] \in F /\ array.children[i] \in A
          /\ <<array.children[i], field.children[i]>> \in arrays
          /\ field.type = "Struct" => DOMAIN array.children[i].valid = DOMAIN array.valid
    /\ field.type # "Struct" =>
          /\ DOMAIN field.children = {1}
          /\ \A row \in DOMAIN array.valid :
                /\ array.offsets[row] \in Nat /\ array.offsets[row + 1] \in Nat
                /\ array.offsets[row] <= array.offsets[row + 1]
                /\ SlotsOf(array, row) \subseteq DOMAIN array.children[1].valid

\* The arrays below an array of a field are arrays of the fields below it.
LEMMA ChildArrays ==
    ASSUME NEW F, NEW A, NEW arrays, NEW field \in Fields(F), NEW array \in Arrays(A),
           \A a \in A : a.valid \in Seq(BOOLEAN),
           IsArrayOf(array, field, arrays), field.type \in Nested, array.holds = field.type
    PROVE  ChildrenFit(F, A, arrays, field, array)
<1>1. /\ Len(array.children) = Len(field.children)
      /\ \A i \in DOMAIN field.children : <<array.children[i], field.children[i]>> \in arrays
      /\ IF field.type = "Struct"
         THEN \A i \in DOMAIN array.children : Len(array.children[i].valid) = Len(array.valid)
         ELSE HasWindows(array, array.children[1])
  BY DEF IsArrayOf
<1>2. /\ DOMAIN field.children = 1..Len(field.children) /\ Len(field.children) \in Nat
      /\ \A i \in DOMAIN field.children : field.children[i] \in F
      /\ field.type \in {"Sequence", "Map"} => Len(field.children) = 1
  BY FieldParts
<1>3. /\ DOMAIN array.valid = 1..Len(array.valid) /\ Len(array.valid) \in Nat
      /\ DOMAIN array.offsets = 1..Len(array.offsets)
      /\ DOMAIN array.children = 1..Len(array.children)
      /\ \A i \in DOMAIN array.children : array.children[i] \in A
      /\ \A i \in DOMAIN array.offsets : array.offsets[i] \in Nat
  BY ArrayParts
<1>4. \A a \in A : DOMAIN a.valid = 1..Len(a.valid) /\ Len(a.valid) \in Nat
  OBVIOUS
<1>5. ASSUME NEW i \in DOMAIN field.children
      PROVE  /\ field.children[i] \in F /\ array.children[i] \in A
             /\ <<array.children[i], field.children[i]>> \in arrays
             /\ field.type = "Struct" => DOMAIN array.children[i].valid = DOMAIN array.valid
  <2>1. i \in DOMAIN array.children
    BY <1>1, <1>2, <1>3, <1>5
  <2> QED
    BY <1>1, <1>2, <1>3, <1>4, <2>1
<1>6. ASSUME field.type # "Struct"
      PROVE  /\ DOMAIN field.children = {1}
             /\ \A row \in DOMAIN array.valid :
                   /\ array.offsets[row] \in Nat /\ array.offsets[row + 1] \in Nat
                   /\ array.offsets[row] <= array.offsets[row + 1]
                   /\ SlotsOf(array, row) \subseteq DOMAIN array.children[1].valid
  <2>1. Len(field.children) = 1 /\ Len(array.children) = 1
    BY <1>1, <1>2, <1>6 DEF Nested
  <2>2. DOMAIN field.children = {1} /\ array.children[1] \in A
    BY <1>2, <1>3, <2>1
  <2>3. /\ Len(array.offsets) = Len(array.valid) + 1
        /\ \A i \in DOMAIN array.valid : array.offsets[i] <= array.offsets[i + 1]
        /\ \A i \in DOMAIN array.offsets : array.offsets[i] <= Len(array.children[1].valid)
    BY <1>1, <1>6 DEF HasWindows
  <2>4. ASSUME NEW row \in DOMAIN array.valid
        PROVE  /\ array.offsets[row] \in Nat /\ array.offsets[row + 1] \in Nat
               /\ array.offsets[row] <= array.offsets[row + 1]
               /\ SlotsOf(array, row) \subseteq DOMAIN array.children[1].valid
    <3>1. row \in DOMAIN array.offsets /\ row + 1 \in DOMAIN array.offsets
      BY <1>3, <2>3, <2>4
    <3>2. array.offsets[row] \in Nat /\ array.offsets[row + 1] \in Nat
      BY <1>3, <3>1
    <3>3. array.offsets[row + 1] <= Len(array.children[1].valid)
      BY <2>3, <3>1
    <3>4. DOMAIN array.children[1].valid = 1..Len(array.children[1].valid)
          /\ Len(array.children[1].valid) \in Nat
      BY <1>4, <2>2
    <3>5. SlotsOf(array, row) \subseteq DOMAIN array.children[1].valid
      BY <3>2, <3>3, <3>4 DEF SlotsOf
    <3> QED
      BY <2>3, <2>4, <3>2, <3>5
  <2> QED
    BY <2>2, <2>4
<1> QED
  BY <1>5, <1>6 DEF ChildrenFit

\* What is wrong with a slot: it is null and may not be, or it is nested and of
\* another representation, or something below it is wrong.
WrongAt(field, path, array, row, v, node, viol) ==
    \/ ~array.valid[row] /\ ~field.nullable /\ v = RequiredNull(path, row)
    \/ /\ array.valid[row] /\ field.type \in Nested /\ array.holds # field.type
       /\ v = Representation(path)
    \/ /\ array.valid[row] /\ field.type = "Struct" /\ array.holds = field.type
       /\ \E i \in DOMAIN field.children :
             v \in ToSet(MetBelow(field, path, array, i, node, viol)[row])
    \/ /\ array.valid[row] /\ field.type \in Nested \ {"Struct"} /\ array.holds = field.type
       /\ \E slot \in SlotsOf(array, row) :
             v \in ToSet(MetBelow(field, path, array, 1, node, viol)[slot])

\* The two constructors make violations.
LEMMA WrongsAre ==
    ASSUME NEW path \in Seq(Segment), NEW row \in Nat
    PROVE  /\ RequiredNull(path, row) \in Wrongs /\ Representation(path) \in Wrongs
           /\ <<RequiredNull(path, row)>> \in Seq(Wrongs)
           /\ <<Representation(path)>> \in Seq(Wrongs)
           /\ \A v : v \in ToSet(<<RequiredNull(path, row)>>) <=> v = RequiredNull(path, row)
           /\ \A v : v \in ToSet(<<Representation(path)>>) <=> v = Representation(path)
<1>1. RequiredNull(path, row) \in Wrongs /\ Representation(path) \in Wrongs
  BY DEF RequiredNull, Representation, Wrongs
<1> DEFINE a == RequiredNull(path, row)  b == Representation(path)
<1> HIDE DEF a, b
<1>2. <<a>> \in Seq(Wrongs) /\ <<b>> \in Seq(Wrongs)
  BY <1>1 DEF a, b
<1>3. (\A v : v \in ToSet(<<a>>) <=> v = a) /\ (\A v : v \in ToSet(<<b>>) <=> v = b)
  <2>1. \A e : DOMAIN <<e>> = {1} /\ <<e>>[1] = e
    OBVIOUS
  <2> QED
    BY <2>1, Zenon DEF ToSet
<1> QED
  BY <1>1, <1>2, <1>3 DEF a, b

\* The empty sequence has no members.
LEMMA NothingIn == <<>> \in Seq(Wrongs) /\ \A v : v \notin ToSet(<<>>)
BY DEF ToSet

\* What is met in a slot is what is wrong at it.
LEMMA MetFacts ==
    ASSUME NEW F, NEW A, NEW arrays, NEW node, NEW viol,
           \A f \in F : f.name \in Segment, \A a \in A : a.valid \in Seq(BOOLEAN),
           MeetsWrongs(F, A, arrays, node, viol),
           NEW field \in Fields(F), NEW path \in Seq(Segment), NEW array \in Arrays(A),
           IsArrayOf(array, field, arrays), NEW row \in DOMAIN array.valid
    PROVE  LET met == Met(NodeOf(field, path, node), array, row, viol)
           IN  /\ met \in Seq(Wrongs)
               /\ \A v : v \in ToSet(met) <=> WrongAt(field, path, array, row, v, node, viol)
<1> DEFINE d == NodeOf(field, path, node)
           met == Met(d, array, row, viol)
           Below1(i) == MetBelow(field, path, array, i, node, viol)
           Is(v) == WrongAt(field, path, array, row, v, node, viol)
<1> SUFFICES met \in Seq(Wrongs) /\ \A v : v \in ToSet(met) <=> Is(v)
  BY Zenon
<1>0. row \in Nat /\ array.valid[row] \in BOOLEAN
  BY ArrayParts
<1>1. /\ d.nullable = field.nullable /\ d.path = path /\ d.type = field.type
      /\ field.type \in Nested =>
            /\ DOMAIN d.children = DOMAIN field.children
            /\ \A i \in DOMAIN field.children :
                  d.children[i] = node[field.children[i]][Below(field, path, field.children[i])]
  BY DEF NodeOf
<1>2. /\ \A i \in DOMAIN field.children : field.children[i] \in F
      /\ DOMAIN field.children = 1..Len(field.children) /\ Len(field.children) \in Nat
  BY FieldParts
<1>3. \A i \in DOMAIN field.children : Below(field, path, field.children[i]) \in Seq(Segment)
  BY <1>2, BelowIsPath
<1> HIDE DEF d
<1>4. CASE ~array.valid[row] /\ field.nullable
  <2>1. met = <<>>
    BY <1>1, <1>4 DEF Met
  <2>2. \A v : ~Is(v)
    BY <1>4 DEF WrongAt
  <2> QED
    BY <2>1, <2>2, NothingIn, Zenon
<1>5. CASE ~array.valid[row] /\ ~field.nullable
  <2>1. met = <<RequiredNull(path, row)>>
    BY <1>1, <1>5 DEF Met
  <2>2. \A v : Is(v) <=> v = RequiredNull(path, row)
    BY <1>5 DEF WrongAt
  <2> QED
    BY <1>0, <2>1, <2>2, WrongsAre, Zenon
<1>6. CASE array.valid[row] /\ field.type \notin Nested
  <2>1. met = <<>>
    BY <1>1, <1>6 DEF Met
  <2>2. \A v : ~Is(v)
    BY <1>6 DEF WrongAt, Nested
  <2> QED
    BY <2>1, <2>2, NothingIn, Zenon
<1>7. CASE array.valid[row] /\ field.type \in Nested /\ array.holds # field.type
  <2>1. met = <<Representation(path)>>
    BY <1>1, <1>7 DEF Met
  <2>2. \A v : Is(v) <=> v = Representation(path)
    BY <1>7 DEF WrongAt
  <2> QED
    BY <1>0, <2>1, <2>2, WrongsAre, Zenon
<1>8. ASSUME array.valid[row], field.type \in Nested, array.holds = field.type
      PROVE  /\ \A i \in DOMAIN field.children :
                   /\ viol[d.children[i]][array.children[i]] = Below1(i)
                   /\ \A slot \in DOMAIN array.children[i].valid :
                         Below1(i)[slot] \in Seq(Wrongs)
             /\ \A i \in DOMAIN field.children : field.type = "Struct" =>
                   row \in DOMAIN array.children[i].valid
             /\ field.type # "Struct" =>
                   /\ DOMAIN field.children = {1}
                   /\ array.offsets[row] \in Nat /\ array.offsets[row + 1] \in Nat
                   /\ array.offsets[row] <= array.offsets[row + 1]
                   /\ SlotsOf(array, row) \subseteq DOMAIN array.children[1].valid
  <2>0. ChildrenFit(F, A, arrays, field, array)
    BY <1>8, ChildArrays
  <2>1. /\ \A i \in DOMAIN field.children :
              /\ field.children[i] \in F /\ array.children[i] \in A
              /\ <<array.children[i], field.children[i]>> \in arrays
              /\ field.type = "Struct" => DOMAIN array.children[i].valid = DOMAIN array.valid
        /\ field.type # "Struct" =>
              /\ DOMAIN field.children = {1}
              /\ \A r \in DOMAIN array.valid :
                    /\ array.offsets[r] \in Nat /\ array.offsets[r + 1] \in Nat
                    /\ array.offsets[r] <= array.offsets[r + 1]
                    /\ SlotsOf(array, r) \subseteq DOMAIN array.children[1].valid
    BY <2>0, Zenon DEF ChildrenFit
  <2>2. ASSUME NEW i \in DOMAIN field.children
        PROVE  /\ viol[d.children[i]][array.children[i]] = Below1(i)
               /\ \A slot \in DOMAIN array.children[i].valid : Below1(i)[slot] \in Seq(Wrongs)
    <3>1. viol[d.children[i]][array.children[i]] = Below1(i)
      BY <1>1, <1>8, <2>2 DEF MetBelow, MetIn
    <3>2. \A slot \in DOMAIN array.children[i].valid :
              MetIn(field.children[i], Below(field, path, field.children[i]),
                    array.children[i], node, viol)[slot] \in Seq(Wrongs)
      BY <1>3, <2>1, <2>2, Zenon DEF MeetsWrongs
    <3> QED
      BY <3>1, <3>2 DEF MetBelow
  <2> QED
    BY <2>1, <2>2
<1>9. CASE array.valid[row] /\ field.type = "Struct" /\ array.holds = field.type
  <2> DEFINE n == Len(field.children)
             ss == [i \in 1..n |-> Below1(i)[row]]
  <2>1. field.type \in Nested
    BY <1>9 DEF Nested
  <2>2. met = FlattenSeq([i \in DOMAIN d.children |->
                    viol[d.children[i]][array.children[i]][row]])
    BY <1>1, <1>9, <2>1 DEF Met
  <2>3. \A i \in 1..n : viol[d.children[i]][array.children[i]][row] = Below1(i)[row]
                        /\ Below1(i)[row] \in Seq(Wrongs)
    BY <1>2, <1>8, <1>9, <2>1
  <2>4. DOMAIN d.children = 1..n
    BY <1>1, <1>2, <2>1
  <2> HIDE DEF Below1
  <2>5. met = FlattenSeq(ss)
    BY <2>2, <2>3, <2>4
  <2>6. ss \in [1..n -> Seq(Wrongs)] /\ n \in Nat
    BY <1>2, <2>3
  <2>7. \A i \in 1..n : ss[i] = Below1(i)[row]
    OBVIOUS
  <2> HIDE DEF ss, n
  <2>8. met \in Seq(Wrongs) /\ ToSet(met) = UNION {ToSet(ss[i]) : i \in 1..n}
    BY <2>5, <2>6, FlattenMembers
  <2>9. \A v : Is(v) <=> \E i \in DOMAIN field.children : v \in ToSet(Below1(i)[row])
    BY <1>9, <2>1 DEF WrongAt, Below1
  <2>10. DOMAIN field.children = 1..n
    BY <1>2 DEF n
  <2> QED
    BY <2>7, <2>8, <2>9, <2>10
<1>10. CASE array.valid[row] /\ field.type \in Nested \ {"Struct"} /\ array.holds = field.type
  <2> DEFINE first == array.offsets[row]  n == array.offsets[row + 1] - first
             ss == [k \in 1..n |-> Below1(1)[first + k]]
             slots == Window(array, row)
  <2>1. field.type \in Nested /\ field.type # "Struct"
    BY <1>10
  <2>2. met = FlattenSeq([k \in DOMAIN slots |->
                    viol[d.children[1]][array.children[1]][slots[k]]])
    BY <1>1, <1>10, <2>1 DEF Met
  <2>3. /\ viol[d.children[1]][array.children[1]] = Below1(1)
        /\ \A slot \in DOMAIN array.children[1].valid : Below1(1)[slot] \in Seq(Wrongs)
        /\ first \in Nat /\ array.offsets[row + 1] \in Nat /\ first <= array.offsets[row + 1]
        /\ SlotsOf(array, row) \subseteq DOMAIN array.children[1].valid
    BY <1>8, <1>10, <2>1
  <2>4. n \in Nat /\ array.offsets[row + 1] = first + n
    BY <2>3
  <2>5. DOMAIN slots = 1..n /\ \A k \in 1..n : slots[k] = first + k
    BY DEF Window
  <2>6. SlotsOf(array, row) = (first + 1)..(first + n)
    BY <2>4 DEF SlotsOf
  <2> HIDE DEF Below1, n, slots, first
  <2>7. met = FlattenSeq(ss)
    BY <2>2, <2>3, <2>5
  <2>8. \A k \in 1..n : first + k \in SlotsOf(array, row)
    BY <2>3, <2>4, <2>6
  <2>9. ss \in [1..n -> Seq(Wrongs)] /\ \A k \in 1..n : ss[k] = Below1(1)[first + k]
    BY <2>3, <2>8
  <2> HIDE DEF ss
  <2>10. met \in Seq(Wrongs) /\ ToSet(met) = UNION {ToSet(ss[k]) : k \in 1..n}
    <3>1. n \in Nat /\ ss \in [1..n -> Seq(Wrongs)] /\ met = FlattenSeq(ss)
      BY <2>4, <2>7, <2>9
    <3> HIDE DEF met
    <3> QED
      BY <3>1, FlattenMembers
  <2>11. \A v : Is(v) <=> \E slot \in SlotsOf(array, row) : v \in ToSet(Below1(1)[slot])
    BY <1>10 DEF WrongAt, Below1
  <2>12. \A slot \in SlotsOf(array, row) : \E k \in 1..n : slot = first + k
    <3> TAKE slot \in SlotsOf(array, row)
    <3>1. slot - first \in 1..n /\ slot = first + (slot - first)
      BY <2>3, <2>4, <2>6
    <3> QED
      BY <3>1
  <2> QED
    BY <2>8, <2>9, <2>10, <2>11, <2>12
<1> QED
  BY <1>0, <1>4, <1>5, <1>6, <1>7, <1>9, <1>10 DEF Nested

\* A reader of some slots of an array reaches just what the validator meets there.
SeesWrongs(F, A, arrays, node, viol, unread) ==
    \A field \in F, path \in Seq(Segment), array \in A : <<array, field>> \in arrays =>
        \A view \in SUBSET DOMAIN array.valid : \A v :
            v \in unread[field][path][array][view] <=>
                \E row \in view : v \in ToSet(MetIn(field, path, array, node, viol)[row])

\* What a reader reaches from a view is what is wrong at one of its slots.
LEMMA ReachedFacts ==
    ASSUME NEW F, NEW A, NEW arrays, NEW node, NEW viol, NEW unread,
           \A f \in F : f.name \in Segment, \A a \in A : a.valid \in Seq(BOOLEAN),
           SeesWrongs(F, A, arrays, node, viol, unread),
           NEW field \in Fields(F), NEW path \in Seq(Segment), NEW array \in Arrays(A),
           IsArrayOf(array, field, arrays), NEW view \in SUBSET DOMAIN array.valid, NEW v
    PROVE  v \in Reached(field, path, array, view, unread) <=>
                \E row \in view : WrongAt(field, path, array, row, v, node, viol)
<1> DEFINE live == Live(array, view)
           inner == IF field.type = "Struct" THEN live ELSE Windows(array, live)
           child(i) == unread[field.children[i]][Below(field, path, field.children[i])]
                             [array.children[i]][inner]
           null == {RequiredNull(path, r) : r \in IF field.nullable THEN {} ELSE view \ live}
           deep == IF field.type \notin Nested \/ live = {} THEN {}
                   ELSE IF array.holds # field.type THEN {Representation(path)}
                   ELSE UNION {child(i) : i \in DOMAIN field.children}
           met(i) == MetBelow(field, path, array, i, node, viol)
<1>1. Reached(field, path, array, view, unread) = null \union deep
  BY DEF Reached
<1>2. \A r \in view : array.valid[r] \in BOOLEAN /\ (r \in live <=> array.valid[r])
  BY ArrayParts DEF Live
<1>3. live \subseteq view
  BY DEF Live
<1>4. /\ \A i \in DOMAIN field.children : field.children[i] \in F
      /\ field.nullable \in BOOLEAN
  BY FieldParts
<1>5. \A i \in DOMAIN field.children : Below(field, path, field.children[i]) \in Seq(Segment)
  BY <1>4, BelowIsPath
<1>6. v \in null <=> \E row \in view :
            ~array.valid[row] /\ ~field.nullable /\ v = RequiredNull(path, row)
  BY <1>2, <1>4
<1>7. ASSUME field.type \in Nested, array.holds = field.type
      PROVE  /\ \A i \in DOMAIN field.children : inner \subseteq DOMAIN array.children[i].valid
                    => (v \in child(i) <=> \E slot \in inner : v \in ToSet(met(i)[slot]))
             /\ ChildrenFit(F, A, arrays, field, array)
  <2>1. ChildrenFit(F, A, arrays, field, array)
    BY <1>7, ChildArrays
  <2>2. ASSUME NEW i \in DOMAIN field.children, inner \subseteq DOMAIN array.children[i].valid
        PROVE  v \in child(i) <=> \E slot \in inner : v \in ToSet(met(i)[slot])
    <3>1. field.children[i] \in F /\ array.children[i] \in A
          /\ <<array.children[i], field.children[i]>> \in arrays
      BY <2>1, <2>2, Zenon DEF ChildrenFit
    <3>2. inner \in SUBSET DOMAIN array.children[i].valid
      BY <2>2
    <3> HIDE DEF inner
    <3>3. v \in child(i) <=>
            \E slot \in inner : v \in ToSet(
                MetIn(field.children[i], Below(field, path, field.children[i]),
                      array.children[i], node, viol)[slot])
      BY <1>5, <3>1, <3>2, Zenon DEF SeesWrongs
    <3> QED
      BY <3>3 DEF MetBelow
  <2> QED
    BY <2>1, <2>2, Zenon
<1> DEFINE Deep(row) ==
      \/ /\ array.valid[row] /\ field.type \in Nested /\ array.holds # field.type
         /\ v = Representation(path)
      \/ /\ array.valid[row] /\ field.type = "Struct" /\ array.holds = field.type
         /\ \E i \in DOMAIN field.children : v \in ToSet(met(i)[row])
      \/ /\ array.valid[row] /\ field.type \in Nested \ {"Struct"} /\ array.holds = field.type
         /\ \E slot \in SlotsOf(array, row) : v \in ToSet(met(1)[slot])
<1>8. v \in deep <=> \E row \in view : Deep(row)
  <2>1. CASE field.type \notin Nested \/ live = {}
    <3>1. "Struct" \in Nested
      BY DEF Nested
    <3>2. \A row \in view : ~Deep(row)
      BY <1>2, <2>1, <3>1
    <3>3. deep = {}
      BY <2>1
    <3> QED
      BY <3>2, <3>3
  <2>2. CASE field.type \in Nested /\ live # {} /\ array.holds # field.type
    <3>1. deep = {Representation(path)}
      BY <2>2
    <3>2. \A row \in view : Deep(row) <=> array.valid[row] /\ v = Representation(path)
      BY <2>2
    <3>3. \E row \in view : array.valid[row]
      BY <1>2, <1>3, <2>2
    <3> QED
      BY <3>1, <3>2, <3>3
  <2>3. CASE field.type = "Struct" /\ live # {} /\ array.holds = field.type
    <3>1. field.type \in Nested
      BY <2>3 DEF Nested
    <3>2. inner = live /\ deep = UNION {child(i) : i \in DOMAIN field.children}
      BY <2>3, <3>1
    <3>3. \A i \in DOMAIN field.children : DOMAIN array.children[i].valid = DOMAIN array.valid
      BY <1>7, <2>3, <3>1 DEF ChildrenFit
    <3>4. \A i \in DOMAIN field.children : inner \subseteq DOMAIN array.children[i].valid
      BY <1>3, <3>2, <3>3
    <3> HIDE DEF child, met, inner, live
    <3>5. \A i \in DOMAIN field.children :
                v \in child(i) <=> \E row \in live : v \in ToSet(met(i)[row])
      BY <1>7, <2>3, <3>1, <3>2, <3>4
    <3>6. v \in deep <=> \E i \in DOMAIN field.children : v \in child(i)
      BY <3>2
    <3>7. \A row \in view : Deep(row) <=>
                row \in live /\ \E i \in DOMAIN field.children : v \in ToSet(met(i)[row])
      BY <1>2, <2>3
    <3> HIDE DEF deep, Deep
    <3> QED
      BY <1>3, <3>5, <3>6, <3>7
  <2>4. CASE field.type \in Nested \ {"Struct"} /\ live # {} /\ array.holds = field.type
    <3>1. field.type \in Nested /\ field.type # "Struct"
      BY <2>4
    <3>2. inner = Windows(array, live) /\ deep = UNION {child(i) : i \in DOMAIN field.children}
      BY <2>4, <3>1
    <3>3. /\ DOMAIN field.children = {1}
          /\ \A row \in DOMAIN array.valid :
                SlotsOf(array, row) \subseteq DOMAIN array.children[1].valid
      BY <1>7, <2>4, <3>1 DEF ChildrenFit
    <3>4. inner = UNION {SlotsOf(array, r) : r \in live}
      BY <3>2 DEF Windows, SlotsOf
    <3>5. inner \subseteq DOMAIN array.children[1].valid
      BY <1>3, <3>3, <3>4
    <3> HIDE DEF child, met, inner, live
    <3>6. v \in child(1) <=> \E slot \in inner : v \in ToSet(met(1)[slot])
      BY <1>7, <2>4, <3>1, <3>3, <3>5
    <3>7. v \in deep <=> v \in child(1)
      BY <3>2, <3>3
    <3>8. \A row \in view : Deep(row) <=>
                row \in live /\ \E slot \in SlotsOf(array, row) : v \in ToSet(met(1)[slot])
      BY <1>2, <2>4
    <3> HIDE DEF deep, Deep
    <3> QED
      BY <1>3, <3>4, <3>6, <3>7, <3>8
  <2> QED
    BY <2>1, <2>2, <2>3, <2>4
<1>9. \A row \in view : WrongAt(field, path, array, row, v, node, viol) <=>
        \/ ~array.valid[row] /\ ~field.nullable /\ v = RequiredNull(path, row)
        \/ Deep(row)
  BY DEF WrongAt
<1> HIDE DEF null, deep, Deep
<1> QED
  BY <1>1, <1>6, <1>8, <1>9

\* An array has slots at every level.
LEMMA LevelsHaveSlots == \A n \in Nat : \A array \in ArraysTo[n] : array.valid \in Seq(BOOLEAN)
<1> SUFFICES ASSUME NEW n \in Nat, NEW array \in ArraysTo[n]
             PROVE  array.valid \in Seq(BOOLEAN)
  OBVIOUS
<1>1. n # 0
  BY ArraysUnfold
<1>2. n - 1 \in Nat /\ n = (n - 1) + 1
  BY <1>1
<1>3. ArraysTo[n] = Arrays(ArraysTo[n - 1])
  BY <1>2, ArraysUnfold, Zenon
<1> QED
  BY <1>3, ArrayParts

\* What is met in a slot is what the validator's node yields for it.
LEMMA MetUnfolds ==
    ASSUME NEW n \in Nat, NEW field \in FieldsTo[n + 1], NEW path \in Seq(Segment),
           NEW array \in ArraysTo[n + 1], NEW row \in Nat
    PROVE  MetIn(field, path, array, Node[n + 1], Violations[n + 1])[row]
               = Met(NodeOf(field, path, Node[n]), array, row, Violations[n])
<1> DEFINE d == Node[n + 1][field][path]
<1>0. n + 1 \in Nat
  OBVIOUS
<1>1. d \in NodesTo[n + 1]
  BY <1>0, NodesTyped, Zenon
<1>2. d = NodeOf(field, path, Node[n])
  BY NodeUnfolds
<1> HIDE DEF d
<1>3. Violations[n + 1][d][array][row] = Met(d, array, row, Violations[n])
  BY <1>1, ViolationsUnfold, Zenon
<1> QED
  BY <1>2, <1>3 DEF MetIn, d

\* At every level, what is met is what is reached.
MeetsAndSees(n) ==
    /\ MeetsWrongs(FieldsTo[n], ArraysTo[n], ArrayOf[n], Node[n], Violations[n])
    /\ SeesWrongs(FieldsTo[n], ArraysTo[n], ArrayOf[n], Node[n], Violations[n], Unreadable[n])

\* One level: the validator meets what a reader reaches.
LEMMA MeetsAndSeesStep ==
    ASSUME NEW n \in Nat, MeetsAndSees(n) PROVE MeetsAndSees(n + 1)
<1>1. FieldsTo[n + 1] = Fields(FieldsTo[n]) /\ ArraysTo[n + 1] = Arrays(ArraysTo[n])
  BY FieldsUnfold, ArraysUnfold, Zenon
<1>2. \A f \in FieldsTo[n] : f.name \in Segment
  BY LevelsHaveNames
<1>3. \A a \in ArraysTo[n] : a.valid \in Seq(BOOLEAN)
  BY LevelsHaveSlots
<1> DEFINE F == FieldsTo[n]  A == ArraysTo[n]  arrays == ArrayOf[n]
           node == Node[n]  viol == Violations[n]  unread == Unreadable[n]
<1>4. ASSUME NEW field \in FieldsTo[n + 1], NEW path \in Seq(Segment),
             NEW array \in ArraysTo[n + 1], <<array, field>> \in ArrayOf[n + 1],
             NEW row \in DOMAIN array.valid
      PROVE  LET met == MetIn(field, path, array, Node[n + 1], Violations[n + 1])[row]
             IN  /\ met \in Seq(Wrongs)
                 /\ \A v : v \in ToSet(met) <=> WrongAt(field, path, array, row, v, node, viol)
  <2>1. field \in Fields(F) /\ array \in Arrays(A)
    BY <1>1
  <2>2. IsArrayOf(array, field, arrays)
    BY <1>4, ArrayOfUnfolds, Zenon
  <2>3. row \in Nat
    BY <2>1, ArrayParts
  <2>4. MeetsWrongs(F, A, arrays, node, viol)
    BY DEF MeetsAndSees
  <2>5. MetIn(field, path, array, Node[n + 1], Violations[n + 1])[row]
            = Met(NodeOf(field, path, node), array, row, viol)
    BY <2>3, MetUnfolds
  <2> HIDE DEF F, A, arrays, node, viol
  <2>6. LET met == Met(NodeOf(field, path, node), array, row, viol)
        IN  /\ met \in Seq(Wrongs)
            /\ \A v : v \in ToSet(met) <=> WrongAt(field, path, array, row, v, node, viol)
    <3>1. (\A f \in F : f.name \in Segment) /\ (\A a \in A : a.valid \in Seq(BOOLEAN))
      BY <1>2, <1>3 DEF F, A
    <3> QED
      BY <2>1, <2>2, <2>4, <3>1, MetFacts
  <2> QED
    BY <2>5, <2>6
<1>5. ASSUME NEW field \in FieldsTo[n + 1], NEW path \in Seq(Segment),
             NEW array \in ArraysTo[n + 1], <<array, field>> \in ArrayOf[n + 1],
             NEW view \in SUBSET DOMAIN array.valid, NEW v
      PROVE  v \in Unreadable[n + 1][field][path][array][view] <=>
                \E row \in view : WrongAt(field, path, array, row, v, node, viol)
  <2>1. field \in Fields(F) /\ array \in Arrays(A)
    BY <1>1
  <2>2. IsArrayOf(array, field, arrays)
    BY <1>5, ArrayOfUnfolds, Zenon
  <2>3. view \in SUBSET Nat
    BY <2>1, ArrayParts
  <2>4. SeesWrongs(F, A, arrays, node, viol, unread)
    BY DEF MeetsAndSees
  <2>5. Unreadable[n + 1][field][path][array][view] = Reached(field, path, array, view, unread)
    BY <2>3, UnreadableUnfolds
  <2>6. (\A f \in F : f.name \in Segment) /\ (\A a \in A : a.valid \in Seq(BOOLEAN))
    BY <1>2, <1>3
  <2> HIDE DEF F, A, arrays, node, viol, unread
  <2>7. v \in Reached(field, path, array, view, unread) <=>
                \E row \in view : WrongAt(field, path, array, row, v, node, viol)
    BY <2>1, <2>2, <2>4, <2>6, ReachedFacts
  <2> QED
    BY <2>5, <2>7
<1>6. MeetsWrongs(FieldsTo[n + 1], ArraysTo[n + 1], ArrayOf[n + 1], Node[n + 1], Violations[n + 1])
  BY <1>4, Zenon DEF MeetsWrongs
<1>7. SeesWrongs(FieldsTo[n + 1], ArraysTo[n + 1], ArrayOf[n + 1], Node[n + 1],
                 Violations[n + 1], Unreadable[n + 1])
  <2>1. ASSUME NEW field \in FieldsTo[n + 1], NEW path \in Seq(Segment),
               NEW array \in ArraysTo[n + 1], <<array, field>> \in ArrayOf[n + 1],
               NEW view \in SUBSET DOMAIN array.valid, NEW v
        PROVE  v \in Unreadable[n + 1][field][path][array][view] <=>
                 \E row \in view :
                    v \in ToSet(MetIn(field, path, array, Node[n + 1], Violations[n + 1])[row])
    <3>1. \A row \in view : row \in DOMAIN array.valid
      BY <2>1
    <3> HIDE DEF node, viol
    <3>2. \A row \in view :
            v \in ToSet(MetIn(field, path, array, Node[n + 1], Violations[n + 1])[row])
                <=> WrongAt(field, path, array, row, v, node, viol)
      BY <1>4, <2>1, <3>1, Zenon
    <3>3. v \in Unreadable[n + 1][field][path][array][view] <=>
                \E row \in view : WrongAt(field, path, array, row, v, node, viol)
      BY <1>5, <2>1, Zenon
    <3> QED
      BY <3>2, <3>3, Zenon
  <2> QED
    BY <2>1, Zenon DEF SeesWrongs
<1> QED
  BY <1>6, <1>7 DEF MeetsAndSees

\* At every level the validator meets what a reader reaches.
LEMMA MeetsByLevel == \A n \in Nat : MeetsAndSees(n)
<1> DEFINE S == {n \in Nat : MeetsAndSees(n)}
<1>1. 0 \in S
  BY FieldsUnfold, Zenon DEF MeetsAndSees, MeetsWrongs, SeesWrongs
<1>2. \A n \in Nat : n \in S => n + 1 \in S
  BY MeetsAndSeesStep
<1> HIDE DEF S
<1>3. Nat \subseteq S
  BY <1>1, <1>2, ShapeLevels!NatSetInduction
<1> QED
  BY <1>3 DEF S

-----------------------------------------------------------------------------
(* The schema of a batch *)

\* Two mapped sequences are equal when they are, index by index.
LEMMA MappedEqual ==
    ASSUME NEW S, NEW T, NEW a \in Seq(S), NEW b \in Seq(T), NEW f
    PROVE  [i \in DOMAIN a |-> f[a[i]]] = [i \in DOMAIN b |-> f[b[i]]] <=>
               Len(a) = Len(b) /\ \A i \in DOMAIN a : f[a[i]] = f[b[i]]
<1> DEFINE map(s) == [i \in DOMAIN s |-> f[s[i]]]
<1>1. /\ DOMAIN a = 1..Len(a) /\ Len(a) \in Nat
      /\ DOMAIN b = 1..Len(b) /\ Len(b) \in Nat
  OBVIOUS
<1>2. ASSUME map(a) = map(b) PROVE Len(a) = Len(b) /\ \A i \in DOMAIN a : f[a[i]] = f[b[i]]
  <2>1. DOMAIN map(a) = DOMAIN a /\ DOMAIN map(b) = DOMAIN b
    OBVIOUS
  <2>2. DOMAIN a = DOMAIN b
    BY <1>2, <2>1
  <2>3. Len(a) = Len(b)
    <3>1. 1..Len(a) = 1..Len(b)
      BY <1>1, <2>2
    <3> DEFINE x == Len(a)  y == Len(b)
    <3>2. x \in Nat /\ y \in Nat
      BY <1>1
    <3> HIDE DEF x, y, map
    <3>3. 1..x = 1..y
      BY <3>1 DEF x, y
    <3>4. x = y
      BY <3>2, <3>3
    <3> QED
      BY <3>4 DEF x, y
  <2>4. /\ \A i \in DOMAIN a : map(a)[i] = f[a[i]]
        /\ \A i \in DOMAIN b : map(b)[i] = f[b[i]]
    OBVIOUS
  <2> HIDE DEF map
  <2> QED
    BY <1>2, <2>2, <2>3, <2>4
<1>3. ASSUME Len(a) = Len(b), \A i \in DOMAIN a : f[a[i]] = f[b[i]] PROVE map(a) = map(b)
  <2>1. DOMAIN a = DOMAIN b
    BY <1>1, <1>3
  <2> QED
    BY <1>3, <2>1
<1> QED
  BY <1>2, <1>3

\* Two fields match when they are the same but for their metadata.
LEMMA StripStep ==
    ASSUME NEW S, NEW a \in Fields(S), NEW b \in Fields(S), NEW below, NEW matches,
           \A f, g \in S : <<f, g>> \in matches <=> below[f] = below[g]
    PROVE  FieldMatches(a, b, matches) <=> Strip(a, below) = Strip(b, below)
<1> DEFINE kids(f) == [i \in DOMAIN f.children |-> below[f.children[i]]]
           plain(f, k) == [name |-> f.name, nullable |-> f.nullable, type |-> f.type,
                           children |-> k]
<1>1. /\ \A i \in DOMAIN a.children : a.children[i] \in S
      /\ DOMAIN a.children = 1..Len(a.children) /\ Len(a.children) \in Nat
      /\ \A i \in DOMAIN b.children : b.children[i] \in S
      /\ DOMAIN b.children = 1..Len(b.children) /\ Len(b.children) \in Nat
  BY FieldParts
<1>2. kids(a) = kids(b) <=>
        /\ Len(a.children) = Len(b.children)
        /\ \A i \in DOMAIN a.children : <<a.children[i], b.children[i]>> \in matches
  <2>1. kids(a) = kids(b) <=>
            /\ Len(a.children) = Len(b.children)
            /\ \A i \in DOMAIN a.children : below[a.children[i]] = below[b.children[i]]
    <3>1. a.children \in Seq(S) /\ b.children \in Seq(S)
      BY FieldParts
    <3> QED
      BY <3>1, MappedEqual
  <2>2. Len(a.children) = Len(b.children) => \A i \in DOMAIN a.children :
            (<<a.children[i], b.children[i]>> \in matches <=>
                below[a.children[i]] = below[b.children[i]])
    BY <1>1
  <2> HIDE DEF kids
  <2> QED
    BY <2>1, <2>2
<1>3. Strip(a, below) = plain(a, kids(a)) /\ Strip(b, below) = plain(b, kids(b))
  BY DEF Strip
<1> HIDE DEF kids
<1>4. plain(a, kids(a)) = plain(b, kids(b)) <=>
        a.name = b.name /\ a.nullable = b.nullable /\ a.type = b.type /\ kids(a) = kids(b)
  OBVIOUS
<1> HIDE DEF plain
<1> QED
  BY <1>2, <1>3, <1>4 DEF FieldMatches

\* Fields match exactly when they are the same but for their metadata.
LEMMA MatchIsStripped ==
    \A n \in Nat : \A a, b \in FieldsTo[n] :
        <<a, b>> \in Matching[n] <=> Stripped[n][a] = Stripped[n][b]
<1> DEFINE S == {n \in Nat : \A a, b \in FieldsTo[n] :
                    <<a, b>> \in Matching[n] <=> Stripped[n][a] = Stripped[n][b]}
<1>1. 0 \in S
  BY FieldsUnfold
<1>2. ASSUME NEW n \in Nat, n \in S PROVE n + 1 \in S
  <2>1. FieldsTo[n + 1] = Fields(FieldsTo[n])
    BY FieldsUnfold, Zenon
  <2>2. \A f, g \in FieldsTo[n] : <<f, g>> \in Matching[n] <=> Stripped[n][f] = Stripped[n][g]
    BY <1>2
  <2>3. ASSUME NEW a \in FieldsTo[n + 1], NEW b \in FieldsTo[n + 1]
        PROVE  <<a, b>> \in Matching[n + 1] <=> Stripped[n + 1][a] = Stripped[n + 1][b]
    <3>1. <<a, b>> \in Matching[n + 1] <=> FieldMatches(a, b, Matching[n])
      BY MatchingUnfolds, Zenon
    <3>2. Stripped[n + 1][a] = Strip(a, Stripped[n]) /\ Stripped[n + 1][b] = Strip(b, Stripped[n])
      BY StrippedUnfolds, Zenon
    <3>3. FieldMatches(a, b, Matching[n]) <=> Strip(a, Stripped[n]) = Strip(b, Stripped[n])
      BY <2>1, <2>2, <2>3, StripStep
    <3> QED
      BY <3>1, <3>2, <3>3
  <2>4. n + 1 \in Nat
    OBVIOUS
  <2> QED
    BY <2>3, <2>4
<1> HIDE DEF S
<1>3. Nat \subseteq S
  BY <1>1, <1>2, ShapeLevels!NatSetInduction
<1> QED
  BY <1>3 DEF S

\* An array that declares a field is one of every field that matches it.
LEMMA ArraysMatch ==
    \A n \in Nat : \A field, found \in FieldsTo[n], array \in ArraysTo[n] :
        <<field, found>> \in Matching[n] /\ <<array, found>> \in ArrayOf[n]
            => <<array, field>> \in ArrayOf[n]
<1> DEFINE S == {n \in Nat : \A field, found \in FieldsTo[n], array \in ArraysTo[n] :
                    <<field, found>> \in Matching[n] /\ <<array, found>> \in ArrayOf[n]
                        => <<array, field>> \in ArrayOf[n]}
<1>1. 0 \in S
  BY FieldsUnfold
<1>2. ASSUME NEW n \in Nat, n \in S PROVE n + 1 \in S
  <2>1. FieldsTo[n + 1] = Fields(FieldsTo[n]) /\ ArraysTo[n + 1] = Arrays(ArraysTo[n])
    BY FieldsUnfold, ArraysUnfold, Zenon
  <2> DEFINE F == FieldsTo[n]  A == ArraysTo[n]  matches == Matching[n]  arrays == ArrayOf[n]
  <2>2. \A f, g \in F, a \in A : <<f, g>> \in matches /\ <<a, g>> \in arrays
            => <<a, f>> \in arrays
    BY <1>2
  <2>3. ASSUME NEW field \in Fields(F), NEW found \in Fields(F), NEW array \in Arrays(A),
               FieldMatches(field, found, matches), IsArrayOf(array, found, arrays)
        PROVE  IsArrayOf(array, field, arrays)
    <3> HIDE DEF F, A, matches, arrays
    <3>1. /\ field.type = found.type /\ Len(field.children) = Len(found.children)
          /\ \A i \in DOMAIN field.children :
                <<field.children[i], found.children[i]>> \in matches
      BY <2>3 DEF FieldMatches
    <3>2. /\ \A i \in DOMAIN field.children : field.children[i] \in F
          /\ DOMAIN field.children = 1..Len(field.children)
          /\ \A i \in DOMAIN found.children : found.children[i] \in F
          /\ DOMAIN found.children = 1..Len(found.children)
      BY FieldParts
    <3>3. /\ \A i \in DOMAIN array.children : array.children[i] \in A
          /\ DOMAIN array.children = 1..Len(array.children)
      BY ArrayParts
    <3>4. ASSUME field.type \in Nested, array.holds = field.type
          PROVE  /\ Len(array.children) = Len(field.children)
                 /\ \A i \in DOMAIN field.children :
                       <<array.children[i], field.children[i]>> \in arrays
                 /\ IF field.type = "Struct"
                    THEN \A i \in DOMAIN array.children :
                            Len(array.children[i].valid) = Len(array.valid)
                    ELSE HasWindows(array, array.children[1])
      <4>1. /\ Len(array.children) = Len(found.children)
            /\ \A i \in DOMAIN found.children :
                  <<array.children[i], found.children[i]>> \in arrays
            /\ IF found.type = "Struct"
               THEN \A i \in DOMAIN array.children :
                       Len(array.children[i].valid) = Len(array.valid)
               ELSE HasWindows(array, array.children[1])
        BY <2>3, <3>1, <3>4 DEF IsArrayOf
      <4>2. \A i \in DOMAIN field.children :
                <<array.children[i], field.children[i]>> \in arrays
        <5> TAKE i \in DOMAIN field.children
        <5>1. i \in DOMAIN found.children /\ i \in DOMAIN array.children
          BY <3>1, <3>2, <3>3, <4>1
        <5>2. field.children[i] \in F /\ found.children[i] \in F /\ array.children[i] \in A
          BY <3>2, <3>3, <5>1
        <5> QED
          BY <2>2, <3>1, <4>1, <5>1, <5>2
      <4> QED
        BY <3>1, <4>1, <4>2
    <3> QED
      BY <3>4 DEF IsArrayOf
  <2>4. ASSUME NEW field \in FieldsTo[n + 1], NEW found \in FieldsTo[n + 1],
               NEW array \in ArraysTo[n + 1],
               <<field, found>> \in Matching[n + 1], <<array, found>> \in ArrayOf[n + 1]
        PROVE  <<array, field>> \in ArrayOf[n + 1]
    <3>1. FieldMatches(field, found, Matching[n])
      BY <2>4, MatchingUnfolds, Zenon
    <3>2. IsArrayOf(array, found, ArrayOf[n])
      BY <2>4, ArrayOfUnfolds, Zenon
    <3>3. IsArrayOf(array, field, ArrayOf[n])
      BY <2>1, <2>3, <3>1, <3>2
    <3> QED
      BY <3>3, ArrayOfUnfolds, Zenon
  <2>5. n + 1 \in Nat
    OBVIOUS
  <2> QED
    BY <2>4, <2>5
<1> HIDE DEF S
<1>3. Nat \subseteq S
  BY <1>1, <1>2, ShapeLevels!NatSetInduction
<1> QED
  BY <1>3 DEF S

\* A sequence is empty when it has no members.
LEMMA NoMembers ==
    ASSUME NEW T, NEW s \in Seq(T)
    PROVE  /\ s = <<>> <=> ToSet(s) = {}
           /\ s # <<>> => s[1] \in ToSet(s)
<1>1. DOMAIN s = 1..Len(s) /\ Len(s) \in Nat /\ (s = <<>> <=> Len(s) = 0)
  BY EmptySeq
<1>2. Len(s) # 0 => 1 \in DOMAIN s
  BY <1>1
<1>3. Len(s) = 0 => DOMAIN s = {}
  BY <1>1
<1> QED
  BY <1>1, <1>2, <1>3 DEF ToSet

\* A column's violations are what a reader of all its rows can reach.
LEMMA ColumnFacts ==
    ASSUME NEW field \in FieldsTo[Levels], NEW array \in ArraysTo[Levels],
           <<array, field>> \in ArrayOf[Levels]
    PROVE  /\ Column(field, array) \in Seq(Wrongs)
           /\ ToSet(Column(field, array))
                = Unreadable[Levels][field][<<field.name>>][array][DOMAIN array.valid]
<1>1. Levels \in Nat
  BY BatchesAssumption
<1> DEFINE path == <<field.name>>
           met(row) == MetIn(field, path, array, Node[Levels], Violations[Levels])[row]
           rows == DOMAIN array.valid
           n == Len(array.valid)
           ss == [row \in 1..n |-> met(row)]
<1>2. path \in Seq(Segment)
  <2>1. field.name \in Segment
    BY <1>1, LevelsHaveNames
  <2> QED
    BY <2>1
<1>3. rows = 1..n /\ n \in Nat
  <2>1. array.valid \in Seq(BOOLEAN)
    BY <1>1, LevelsHaveSlots
  <2> QED
    BY <2>1
<1>4. MeetsAndSees(Levels)
  BY <1>1, MeetsByLevel
<1> HIDE DEF path
<1>5. \A row \in rows : met(row) \in Seq(Wrongs)
  BY <1>2, <1>4, Zenon DEF MeetsAndSees, MeetsWrongs
<1>6. \A v : v \in Unreadable[Levels][field][path][array][rows] <=>
            \E row \in rows : v \in ToSet(met(row))
  <2>1. rows \in SUBSET rows
    OBVIOUS
  <2> QED
    BY <1>2, <1>4, <2>1, Zenon DEF MeetsAndSees, SeesWrongs
<1>7. Column(field, array) = FlattenSeq(ss)
  BY <1>3 DEF Column, MetIn, path
<1> HIDE DEF met, n, rows
<1>8. ss \in [1..n -> Seq(Wrongs)] /\ \A row \in 1..n : ss[row] = met(row)
  BY <1>3, <1>5
<1> HIDE DEF ss
<1>9. FlattenSeq(ss) \in Seq(Wrongs) /\ ToSet(FlattenSeq(ss)) = UNION {ToSet(ss[i]) : i \in 1..n}
  BY <1>3, <1>8, FlattenMembers
<1>10. ToSet(FlattenSeq(ss)) = Unreadable[Levels][field][path][array][rows]
  BY <1>3, <1>6, <1>8, <1>9
<1> QED
  BY <1>7, <1>9, <1>10 DEF path, rows

\* The schemas of a batch match when they are the same but for their metadata.
LEMMA SchemasMatch ==
    ASSUME NEW expected \in Seq(FieldsTo[Levels]), NEW found \in Seq(FieldsTo[Levels])
    PROVE  FieldsMatch(expected, found) <=>
                [i \in DOMAIN found |-> Stripped[Levels][found[i]]]
                    = [i \in DOMAIN expected |-> Stripped[Levels][expected[i]]]
<1> DEFINE f == Stripped[Levels]
<1>1. [i \in DOMAIN found |-> f[found[i]]] = [i \in DOMAIN expected |-> f[expected[i]]] <=>
            Len(found) = Len(expected) /\ \A i \in DOMAIN found : f[found[i]] = f[expected[i]]
  <2> HIDE DEF f
  <2> QED
    BY MappedEqual
<1>2. Levels \in Nat
  BY BatchesAssumption
<1>3. DOMAIN expected = 1..Len(expected) /\ DOMAIN found = 1..Len(found)
  OBVIOUS
<1>4. ASSUME Len(found) = Len(expected), NEW i \in DOMAIN expected
      PROVE  <<expected[i], found[i]>> \in Matching[Levels] <=> f[found[i]] = f[expected[i]]
  <2>1. expected[i] \in FieldsTo[Levels] /\ found[i] \in FieldsTo[Levels]
    BY <1>3, <1>4
  <2>2. <<expected[i], found[i]>> \in Matching[Levels] <=> f[expected[i]] = f[found[i]]
    BY <1>2, <2>1, MatchIsStripped, Zenon
  <2> QED
    BY <2>2
<1> HIDE DEF f
<1>5. FieldsMatch(expected, found) <=>
        Len(found) = Len(expected) /\ \A i \in DOMAIN expected : f[found[i]] = f[expected[i]]
  BY <1>4 DEF FieldsMatch
<1> QED
  BY <1>1, <1>3, <1>5 DEF f

\* What validate returns is what a reader of the batch finds.
LEMMA VerdictIsVisible ==
    ASSUME NEW expected \in Seq(FieldsTo[Levels]), arrived \in Batches,
           verdict = Validate(expected, arrived)
    PROVE  ReadsWhatIsVisible(expected)
<1> DEFINE fields == arrived.fields  columns == arrived.columns  n == Len(expected)
           wrong(i) == Unreadable[Levels][expected[i]][<<expected[i].name>>]
                            [columns[i]][DOMAIN columns[i].valid]
           bad == {i \in DOMAIN expected : wrong(i) # {}}
           ss == [i \in DOMAIN expected |-> Column(expected[i], columns[i])]
<1>1. /\ Levels \in Nat
      /\ fields \in Seq(FieldsTo[Levels]) /\ columns \in Seq(ArraysTo[Levels])
      /\ Len(columns) = Len(fields)
      /\ \A i \in DOMAIN fields : <<columns[i], fields[i]>> \in ArrayOf[Levels]
  BY BatchesAssumption
<1>2. DOMAIN expected = 1..n /\ n \in Nat
  OBVIOUS
<1>3. FieldsMatch(expected, fields) <=>
            [i \in DOMAIN fields |-> Stripped[Levels][fields[i]]]
                = [i \in DOMAIN expected |-> Stripped[Levels][expected[i]]]
  BY <1>1, SchemasMatch
<1>4. CASE ~FieldsMatch(expected, fields)
  <2>1. verdict = SchemaMismatch
    BY <1>4 DEF Validate
  <2> QED
    BY <1>3, <1>4, <2>1 DEF ReadsWhatIsVisible
<1>5. CASE FieldsMatch(expected, fields)
  <2>1. verdict = IF FlattenSeq(ss) = <<>> THEN Accepted ELSE FlattenSeq(ss)[1]
    BY <1>5 DEF Validate
  <2>2. ASSUME NEW i \in DOMAIN expected
        PROVE  ss[i] \in Seq(Wrongs) /\ ToSet(ss[i]) = wrong(i)
    <3>1. /\ i \in DOMAIN fields /\ i \in DOMAIN columns
          /\ <<expected[i], fields[i]>> \in Matching[Levels]
      BY <1>1, <1>5 DEF FieldsMatch
    <3>2. /\ expected[i] \in FieldsTo[Levels] /\ fields[i] \in FieldsTo[Levels]
          /\ columns[i] \in ArraysTo[Levels] /\ <<columns[i], fields[i]>> \in ArrayOf[Levels]
      <4> HIDE DEF fields, columns
      <4>1. fields[i] \in FieldsTo[Levels] /\ columns[i] \in ArraysTo[Levels]
        BY <1>1, <3>1
      <4>2. expected[i] \in FieldsTo[Levels]
        BY <2>2
      <4> QED
        BY <1>1, <3>1, <4>1, <4>2
    <3>3. <<columns[i], expected[i]>> \in ArrayOf[Levels]
      BY <1>1, <3>1, <3>2, ArraysMatch, Zenon
    <3>4. ss[i] = Column(expected[i], columns[i])
      OBVIOUS
    <3> QED
      BY <3>2, <3>3, <3>4, ColumnFacts
  <2>3. ss \in [1..n -> Seq(Wrongs)]
    <3>1. DOMAIN ss = 1..n /\ ss = [i \in DOMAIN ss |-> ss[i]]
      BY <1>2
    <3> HIDE DEF ss
    <3> QED
      BY <1>2, <2>2, <3>1
  <2> DEFINE flat == FlattenSeq(ss)
  <2> HIDE DEF ss, wrong, n
  <2>4. /\ flat \in Seq(Wrongs) /\ ToSet(flat) = UNION {ToSet(ss[i]) : i \in 1..n}
        /\ \A i : FirstIn(ss, n, i) => flat[1] = ss[i][1]
    <3>1. n \in Nat
      BY <1>2
    <3>2. flat \in Seq(Wrongs) /\ ToSet(flat) = UNION {ToSet(ss[i]) : i \in 1..n}
      BY <2>3, <3>1, FlattenMembers
    <3>3. \A i : FirstIn(ss, n, i) => flat[1] = ss[i][1]
      BY <2>3, <3>1, FlattenMembers
    <3> QED
      BY <3>2, <3>3
  <2> HIDE DEF flat
  <2>5. \A i \in 1..n : ss[i] = <<>> <=> wrong(i) = {}
    <3> TAKE i \in 1..n
    <3>1. ss[i] \in Seq(Wrongs) /\ ToSet(ss[i]) = wrong(i)
      BY <1>2, <2>2
    <3> QED
      BY <3>1, NoMembers
  <2>6. CASE bad = {}
    <3>1. \A i \in 1..n : wrong(i) = {} /\ ToSet(ss[i]) = wrong(i)
      BY <1>2, <2>2, <2>6
    <3>2. ToSet(flat) = {}
      BY <2>4, <3>1
    <3>3. flat = <<>>
      BY <2>4, <3>2, NoMembers
    <3>4. verdict = Accepted
      BY <2>1, <3>3 DEF flat
    <3> QED
      BY <1>3, <1>5, <2>6, <3>4 DEF ReadsWhatIsVisible, wrong
  <2>7. CASE bad # {}
    <3>1. bad \subseteq Nat
      BY <1>2
    <3> DEFINE m == Min(bad)
    <3>2. m \in bad /\ \A j \in bad : m <= j
      BY <2>7, <3>1, LeastExists
    <3> HIDE DEF m
    <3>3. m \in 1..n /\ wrong(m) # {}
      BY <1>2, <3>2
    <3>4. \A j \in 1..(m - 1) : ss[j] = <<>>
      <4> TAKE j \in 1..(m - 1)
      <4>1. j \in 1..n /\ ~(m <= j)
        BY <1>2, <3>3
      <4>2. wrong(j) = {}
        BY <1>2, <3>2, <4>1
      <4> QED
        BY <2>5, <4>1, <4>2
    <3>5. ss[m] # <<>> /\ ss[m] \in Seq(Wrongs) /\ ToSet(ss[m]) = wrong(m)
      BY <1>2, <2>2, <2>5, <3>3
    <3>6. flat[1] = ss[m][1]
      <4>1. FirstIn(ss, n, m)
        BY <3>3, <3>4, <3>5 DEF FirstIn
      <4> QED
        BY <2>4, <4>1
    <3>7. ss[m][1] \in wrong(m)
      <4>1. ss[m][1] \in ToSet(ss[m])
        BY <3>5, NoMembers
      <4> QED
        BY <3>5, <4>1
    <3>8. flat # <<>>
      <4>1. ss[m][1] \in ToSet(flat)
        BY <2>4, <3>3, <3>5, <3>7
      <4> QED
        BY <2>4, <4>1, NoMembers
    <3>9. verdict \in wrong(m)
      BY <2>1, <3>6, <3>7, <3>8 DEF flat
    <3>10. \E i \in bad : (\A j \in bad : i <= j) /\ verdict \in wrong(i)
      BY <3>2, <3>9
    <3> QED
      BY <1>3, <1>5, <2>7, <3>10 DEF ReadsWhatIsVisible, wrong
  <2> QED
    BY <2>6, <2>7
<1> QED
  BY <1>4, <1>5

-----------------------------------------------------------------------------
(* A declaration that can be mapped has a physical schema of enough levels *)

\* The physical types over a set of fields.
PhysicalsOver(S) ==
    {physical \in [nullable : BOOLEAN, type : STRING, children : Seq(S)] :
        physical.type \in {"Sequence", "Map"} => Len(physical.children) = 1}

\* Fields of fewer levels are fields of more.
LEMMA SequencesGrow ==
    ASSUME NEW S, NEW T, S \subseteq T
    PROVE  Seq(S) \subseteq Seq(T)
<1> SUFFICES ASSUME NEW s \in Seq(S) PROVE s \in Seq(T)
  OBVIOUS
<1>1. Len(s) \in Nat /\ DOMAIN s = 1..Len(s) /\ s = [i \in 1..Len(s) |-> s[i]]
  OBVIOUS
<1>2. \A i \in 1..Len(s) : s[i] \in T
  OBVIOUS
<1>3. s \in [1..Len(s) -> T]
  BY <1>1, <1>2
<1> QED
  BY <1>1, <1>3 DEF Seq

\* More fields below make more fields.
LEMMA FieldsGrow ==
    ASSUME NEW S, NEW T, S \subseteq T
    PROVE  Fields(S) \subseteq Fields(T) /\ PhysicalsOver(S) \subseteq PhysicalsOver(T)
<1>1. Seq(S) \subseteq Seq(T)
  BY SequencesGrow
<1>2. Fields(S) \subseteq Fields(T)
  BY <1>1 DEF Fields
<1>3. PhysicalsOver(S) \subseteq PhysicalsOver(T)
  BY <1>1 DEF PhysicalsOver
<1> QED
  BY <1>2, <1>3

\* A level has the fields of the one before.
LEMMA FieldLevelsGrow == \A n \in Nat : FieldsTo[n] \subseteq FieldsTo[n + 1]
<1> DEFINE S == {n \in Nat : FieldsTo[n] \subseteq FieldsTo[n + 1]}
<1>1. 0 \in S
  BY FieldsUnfold
<1>2. ASSUME NEW n \in Nat, n \in S PROVE n + 1 \in S
  <2>1. FieldsTo[n] \subseteq FieldsTo[n + 1]
    BY <1>2
  <2>2. n + 1 \in Nat
    OBVIOUS
  <2>3. FieldsTo[n + 1] = Fields(FieldsTo[n]) /\ FieldsTo[(n + 1) + 1] = Fields(FieldsTo[n + 1])
    BY <2>2, FieldsUnfold
  <2>4. FieldsTo[n + 1] \subseteq FieldsTo[(n + 1) + 1]
    BY <2>1, <2>3, FieldsGrow
  <2> QED
    BY <2>2, <2>4
<1> HIDE DEF S
<1>3. Nat \subseteq S
  BY <1>1, <1>2, ShapeLevels!NatSetInduction
<1> QED
  BY <1>3 DEF S

\* A level has the fields of all those before.
LEMMA FieldLevelsNest == \A n, d \in Nat : FieldsTo[n] \subseteq FieldsTo[n + d]
<1> SUFFICES ASSUME NEW n \in Nat PROVE \A d \in Nat : FieldsTo[n] \subseteq FieldsTo[n + d]
  OBVIOUS
<1> DEFINE S == {d \in Nat : FieldsTo[n] \subseteq FieldsTo[n + d]}
<1>1. 0 \in S
  <2>1. n + 0 = n
    OBVIOUS
  <2> QED
    BY <2>1
<1>2. ASSUME NEW d \in Nat, d \in S PROVE d + 1 \in S
  <2>1. n + d \in Nat /\ n + (d + 1) = (n + d) + 1 /\ d + 1 \in Nat
    OBVIOUS
  <2>2. FieldsTo[n + d] \subseteq FieldsTo[(n + d) + 1]
    BY <2>1, FieldLevelsGrow
  <2>3. FieldsTo[n] \subseteq FieldsTo[n + d]
    BY <1>2
  <2>4. FieldsTo[n] \subseteq FieldsTo[n + (d + 1)]
    BY <2>1, <2>2, <2>3
  <2> QED
    BY <2>1, <2>4
<1> HIDE DEF S
<1>3. Nat \subseteq S
  BY <1>1, <1>2, ShapeLevels!NatSetInduction
<1> QED
  BY <1>3 DEF S

\* A field of a physical type is one level above the fields of the type.
LEMMA FieldIsField ==
    ASSUME NEW S, NEW name \in Name, NEW physical \in PhysicalsOver(S)
    PROVE  Field(name, physical) \in Fields(S)
<1>1. "" \in STRING
  BY LiteralsAssumption
<1>2. name \in Segment
  BY DEF Name, Segment
<1> QED
  BY <1>1, <1>2 DEF Field, Fields, PhysicalsOver

\* A type with its children is a physical type.
LEMMA RequiredIsPhysical ==
    ASSUME NEW S, NEW type \in Types, NEW children \in Seq(S),
           type \in {"Sequence", "Map"} => Len(children) = 1
    PROVE  Required(type, children) \in PhysicalsOver(S)
<1>1. type \in STRING
  BY LiteralsAssumption
<1> QED
  BY <1>1 DEF Required, PhysicalsOver

\* One field, or two, make a sequence.
LEMMA OneOrTwo ==
    ASSUME NEW S, NEW a \in S, NEW b \in S
    PROVE  <<a>> \in Seq(S) /\ Len(<<a>>) = 1 /\ <<a, b>> \in Seq(S)
OBVIOUS

\* The physical type of a shape has the fields of two more levels.
LEMMA PhysicalStep1 ==
    ASSUME NEW shapes, NEW S, NEW mapped, NEW below,
           S \subseteq Fields(S),
           \A s \in shapes : \A d \in Nat : s \in mapped[d] => below[s] \in PhysicalsOver(S),
           NEW shape \in TypeShapes(shapes), NEW depth \in Nat, MapField(shape, depth, mapped)
    PROVE  PhysicalOf(shape, below) \in PhysicalsOver(Fields(Fields(S)))
<1> DEFINE T == Fields(S)  U == Fields(T)
<1>1. S \subseteq T /\ T \subseteq U
  BY FieldsGrow
<1>2. PhysicalsOver(S) \subseteq PhysicalsOver(T) /\ PhysicalsOver(T) \subseteq PhysicalsOver(U)
  BY <1>1, FieldsGrow
<1>3. depth + 1 \in Nat
  OBVIOUS
<1>4. \A s \in shapes : s \in mapped[depth] \/ s \in mapped[depth + 1]
                          => below[s] \in PhysicalsOver(S)
  BY <1>3
<1>5. \A name \in Name, physical \in PhysicalsOver(S) : Field(name, physical) \in T
  BY FieldIsField
<1>6. \A name \in Name, physical \in PhysicalsOver(T) : Field(name, physical) \in U
  BY FieldIsField
<1>7. {"Struct", "Sequence", "Map", "Int64", "Boolean", "Utf8"} \subseteq Types
  BY DEF Types
<1>8. Marker("item") \in Name /\ Marker("key") \in Name /\ Marker("value") \in Name
      /\ Marker("entries") \in Name
  BY MarkerFacts DEF Markers
<1> HIDE DEF T, U
<1>9. CASE shape.kind = "Primitive"
  <2> DEFINE type == ArrowPrimitive[shape.name]
  <2>1. shape.name \in DOMAIN ArrowPrimitive
    BY <1>9 DEF MapField
  <2>2. type \in {"Int64", "Boolean", "Utf8"}
    BY <2>1 DEF ArrowPrimitive
  <2>3. <<>> \in Seq(U) /\ type \in Types /\ type \notin {"Sequence", "Map"}
    BY <1>7, <2>2
  <2> HIDE DEF type
  <2>4. Required(type, <<>>) \in PhysicalsOver(U)
    BY <2>3, RequiredIsPhysical
  <2> QED
    BY <1>9, <2>4 DEF PhysicalOf, type, U, T
<1>10. CASE shape.kind = "Optional"
  <2> DEFINE physical == below[shape.of]
  <2>1. shape.of \in shapes /\ shape.of \in mapped[depth]
    BY <1>10, KindFacts DEF MapField
  <2>2. physical \in PhysicalsOver(U)
    BY <1>2, <1>4, <2>1
  <2> HIDE DEF physical
  <2>3. [physical EXCEPT !.nullable = TRUE] \in PhysicalsOver(U)
    BY <2>2 DEF PhysicalsOver
  <2> QED
    BY <1>10, <2>3 DEF PhysicalOf, physical, U, T
<1>11. CASE shape.kind = "Sequence"
  <2> DEFINE field == Field(Marker("item"), below[shape.of])
  <2>1. shape.of \in shapes /\ shape.of \in mapped[depth + 1]
    BY <1>11, KindFacts DEF MapField
  <2>2. field \in U
    BY <1>1, <1>4, <1>5, <1>8, <2>1
  <2> HIDE DEF field
  <2>3. <<field>> \in Seq(U) /\ Len(<<field>>) = 1
    BY <2>2, OneOrTwo
  <2>4. Required("Sequence", <<field>>) \in PhysicalsOver(U)
    BY <1>7, <2>3, RequiredIsPhysical
  <2> QED
    BY <1>11, <2>4 DEF PhysicalOf, field, U, T
<1>12. CASE shape.kind = "Struct"
  <2> DEFINE children == [i \in DOMAIN shape.fields |->
                Field(shape.fields[i].name, below[shape.fields[i].shape])]
  <2>1. shape.fields \in Seq(FieldShapes(shapes))
    BY <1>12, KindFacts
  <2>2. ASSUME NEW i \in DOMAIN shape.fields
        PROVE  Field(shape.fields[i].name, below[shape.fields[i].shape]) \in U
    <3>1. shape.fields[i] \in FieldShapes(shapes)
      BY <2>1
    <3>2. shape.fields[i].name \in Name /\ shape.fields[i].shape \in shapes
      BY <3>1 DEF FieldShapes
    <3>3. shape.fields[i].shape \in mapped[depth + 1]
      BY <1>12 DEF MapField
    <3> QED
      BY <1>1, <1>4, <1>5, <3>2, <3>3
  <2>3. children \in Seq(U)
    <3>1. DOMAIN shape.fields = 1..Len(shape.fields) /\ Len(shape.fields) \in Nat
      BY <2>1
    <3>2. children \in [1..Len(shape.fields) -> U]
      BY <2>2, <3>1
    <3> QED
      BY <3>1, <3>2 DEF Seq
  <2> HIDE DEF children
  <2>4. Required("Struct", children) \in PhysicalsOver(U)
    BY <1>7, <2>3, RequiredIsPhysical
  <2> QED
    BY <1>12, <2>4 DEF PhysicalOf, children, U, T
<1>13. CASE shape.kind = "Map"
  <2> DEFINE k == Field(Marker("key"), below[shape.key])
             v == Field(Marker("value"), below[shape.value])
             entries == Field(Marker("entries"), Required("Struct", <<k, v>>))
  <2>1. /\ shape.key \in shapes /\ shape.key \in mapped[depth + 1]
        /\ shape.value \in shapes /\ shape.value \in mapped[depth + 1]
    BY <1>13, KindFacts DEF MapField
  <2>2. k \in T /\ v \in T
    BY <1>4, <1>5, <1>8, <2>1
  <2> HIDE DEF k, v
  <2>3. <<k, v>> \in Seq(T)
    BY <2>2, OneOrTwo
  <2>4. Required("Struct", <<k, v>>) \in PhysicalsOver(T)
    BY <1>7, <2>3, RequiredIsPhysical
  <2>5. entries \in U
    BY <1>6, <1>8, <2>4
  <2> HIDE DEF entries
  <2>6. <<entries>> \in Seq(U) /\ Len(<<entries>>) = 1
    BY <2>5, OneOrTwo
  <2>7. Required("Map", <<entries>>) \in PhysicalsOver(U)
    BY <1>7, <2>6, RequiredIsPhysical
  <2> QED
    BY <1>13, <2>7 DEF PhysicalOf, entries, k, v, U, T
<1> QED
  BY <1>9, <1>10, <1>11, <1>12, <1>13, KindFacts

\* By level: what can be mapped has a schema of twice as many levels.
PhysicalFits(n) ==
    \A shape \in ShapesTo[n], depth \in Nat :
        shape \in Mappable[n][depth] => Physical[n][shape] \in PhysicalsOver(FieldsTo[2 * n])

\* At every level, what can be mapped has a schema of twice as many levels.
LEMMA PhysicalsFit == \A n \in Nat : PhysicalFits(n)
<1> DEFINE S == {n \in Nat : PhysicalFits(n)}
<1>1. 0 \in S
  BY ShapesUnfold DEF PhysicalFits
<1>2. ASSUME NEW n \in Nat, n \in S PROVE n + 1 \in S
  <2>1. n + 1 \in Nat /\ 2 * n \in Nat /\ 2 * n + 1 \in Nat /\ 2 * (n + 1) = (2 * n + 1) + 1
    OBVIOUS
  <2> DEFINE F == FieldsTo[2 * n]
  <2>2. /\ FieldsTo[2 * n + 1] = Fields(F) /\ F \subseteq FieldsTo[2 * n + 1]
        /\ FieldsTo[(2 * n + 1) + 1] = Fields(FieldsTo[2 * n + 1])
    BY <2>1, FieldsUnfold, FieldLevelsGrow
  <2>3. F \subseteq Fields(F) /\ FieldsTo[2 * (n + 1)] = Fields(Fields(F))
    BY <2>1, <2>2
  <2>4. \A s \in ShapesTo[n] : \A d \in Nat :
            s \in Mappable[n][d] => Physical[n][s] \in PhysicalsOver(F)
    BY <1>2 DEF PhysicalFits
  <2> HIDE DEF F
  <2>5. ASSUME NEW shape \in ShapesTo[n + 1], NEW depth \in Nat, shape \in Mappable[n + 1][depth]
        PROVE  Physical[n + 1][shape] \in PhysicalsOver(FieldsTo[2 * (n + 1)])
    <3>1. shape \in TypeShapes(ShapesTo[n])
      BY ShapesUnfold
    <3>2. MapField(shape, depth, Mappable[n])
      BY <2>5, MappableUnfolds
    <3>3. Physical[n + 1][shape] = PhysicalOf(shape, Physical[n])
      BY PhysicalUnfolds
    <3>4. PhysicalOf(shape, Physical[n]) \in PhysicalsOver(Fields(Fields(F)))
      BY <2>3, <2>4, <3>1, <3>2, PhysicalStep1
    <3> QED
      BY <2>3, <3>3, <3>4
  <2>6. PhysicalFits(n + 1)
    BY <2>5 DEF PhysicalFits
  <2> QED
    BY <2>1, <2>6
<1> HIDE DEF S
<1>3. Nat \subseteq S
  BY <1>1, <1>2, ShapeLevels!NatSetInduction
<1> QED
  BY <1>3 DEF S

\* The schema prepared for a declaration is one the validator's levels reach.
LEMMA PreparedFields ==
    ASSUME NEW shape \in ShapesTo[Nesting], Prepared(shape)
    PROVE  Schema(shape) \in Seq(FieldsTo[Levels])
<1>1. Nesting \in Nat /\ Levels \in Nat /\ 2 * Nesting <= Levels
  BY NestingFacts, BatchesAssumption, LevelsAssumption
<1>2. 0 \in Nat /\ 2 * Nesting \in Nat /\ Levels - 2 * Nesting \in Nat
      /\ 2 * Nesting + (Levels - 2 * Nesting) = Levels
  BY <1>1
<1>3. Physical[Nesting][shape] \in PhysicalsOver(FieldsTo[2 * Nesting])
  BY <1>1, <1>2, PhysicalsFit DEF PhysicalFits, Prepared
<1>4. Schema(shape) \in Seq(FieldsTo[2 * Nesting])
  BY <1>3 DEF PhysicalsOver, Schema
<1>5. FieldsTo[2 * Nesting] \subseteq FieldsTo[Levels]
  <2> DEFINE a == 2 * Nesting  b == Levels - 2 * Nesting
  <2>1. a \in Nat /\ b \in Nat /\ a + b = Levels
    BY <1>2
  <2> HIDE DEF a, b
  <2>2. FieldsTo[a] \subseteq FieldsTo[a + b]
    BY <2>1, FieldLevelsNest
  <2> QED
    BY <2>1, <2>2 DEF a
<1> QED
  BY <1>4, <1>5, SequencesGrow

-----------------------------------------------------------------------------
(* What arrives at a prepared validator *)

\* A batch has arrived only at a validator that is prepared, and its verdict is
\* that of the fields it was prepared with.
ArrivalInv ==
    arrived # Nothing =>
        /\ gate = "ready"
        /\ arrived \in Batches
        /\ verdict = Validate(DeclaredFields, arrived)

\* No batch has arrived at the start.
LEMMA ArrivalInit == GatedInit => ArrivalInv
BY DEF GatedInit, NoArrival, ArrivalInv

\* Every step keeps what is known of the batch that arrived.
LEMMA ArrivalStep ==
    ArrivalInv /\ [GatedNext]_<<vars, gateVars, batchVars>> => ArrivalInv'
<1> SUFFICES ASSUME ArrivalInv, [GatedNext]_<<vars, gateVars, batchVars>> PROVE ArrivalInv'
  OBVIOUS
<1>1. CASE gate # "ready" /\ UNCHANGED batchVars
  BY <1>1 DEF ArrivalInv, batchVars
<1>2. CASE UNCHANGED <<gateVars, batchVars>>
  BY <1>2, Zenon DEF ArrivalInv, batchVars, gateVars, DeclaredFields, Validate, Column
<1>3. CASE Validated
  <2>1. UNCHANGED schemas /\ gate' = "ready"
    BY <1>3 DEF Validated, gateVars
  <2>2. PICK b \in Batches : arrived' = b /\ verdict' = Validate(DeclaredFields, b)
    BY <1>3, Zenon DEF Validated, Arrive
  <2>3. DeclaredFields' = DeclaredFields
    BY <2>1 DEF DeclaredFields
  <2>4. verdict' = Validate(DeclaredFields', arrived')
    BY <2>2, <2>3
  <2>5. Validate(DeclaredFields', arrived') = Validate(DeclaredFields, arrived)'
    BY DEF Validate, Column, FieldsMatch
  <2> QED
    BY <2>1, <2>2, <2>4, <2>5 DEF ArrivalInv
<1>4. CASE Compile
  BY <1>1, <1>4 DEF Compile, Check
<1>5. CASE PrepareEarlier
  BY <1>2, <1>5 DEF PrepareEarlier
<1>6. CASE PrepareLast
  BY <1>1, <1>6 DEF PrepareLast, MapSource
<1>7. CASE PrepareSink
  BY <1>1, <1>7 DEF PrepareSink, MapSink
<1>8. CASE RunStep
  BY <1>2, <1>8 DEF RunStep
<1>9. CASE UNCHANGED <<vars, gateVars, batchVars>>
  BY <1>2, <1>9
<1> QED
  BY <1>3, <1>4, <1>5, <1>6, <1>7, <1>8, <1>9 DEF GatedNext

\* A batch passes the check of the last output's declaration exactly when it
\* has the declared schema and everything a reader of it can reach is there; a
\* refusal is of one of the places that are not (Node::validate).
THEOREM ValidatorSeesAll == GatedSpec => []ValidatorReadsWhatIsVisible
<1>1. GatedInit => ArrivalInv
  BY ArrivalInit
<1>2. ArrivalInv /\ [GatedNext]_<<vars, gateVars, batchVars>> => ArrivalInv'
  BY ArrivalStep
<1>3. GateInv /\ ArrivalInv => ValidatorReadsWhatIsVisible
  <2> SUFFICES ASSUME GateInv, ArrivalInv, arrived # Nothing
               PROVE  ReadsWhatIsVisible(DeclaredFields)
    BY DEF ValidatorReadsWhatIsVisible
  <2>1. gate = "ready" /\ arrived \in Batches /\ verdict = Validate(DeclaredFields, arrived)
    BY DEF ArrivalInv
  <2>2. /\ producer \in ShapesTo[Nesting] /\ Prepared(producer)
        /\ DeclaredFields = Schema(producer)
    BY <2>1, NestingFacts DEF GateInv, DeclaredFields
  <2>3. DeclaredFields \in Seq(FieldsTo[Levels])
    BY <2>2, PreparedFields
  <2> QED
    BY <2>1, <2>3, VerdictIsVisible
<1> QED
  BY <1>1, <1>2, <1>3, GateHolds, PTL DEF GatedSpec

-----------------------------------------------------------------------------
(* A pipeline behind its gate is a contract pipeline *)

\* With the gate and the arrivals left out, what is built and run is the contract
\* pipeline of its declarations.
THEOREM GatedIsAPipeline == GatedSpec => Spec
<1>1. GatedInit => Init
  BY DEF GatedInit
<1>2. [GatedNext]_<<vars, gateVars, batchVars>> => [Next]_vars
  <2> SUFFICES ASSUME [GatedNext]_<<vars, gateVars, batchVars>> PROVE [Next]_vars
    OBVIOUS
  <2>1. CASE PrepareEarlier \/ PrepareLast \/ PrepareSink
    BY <2>1, Zenon DEF PrepareEarlier, PrepareLast, PrepareSink, Next
  <2>2. CASE RunStep
    BY <2>2, Zenon DEF RunStep, Next
  <2>3. CASE Compile \/ Validated \/ UNCHANGED <<vars, gateVars, batchVars>>
    BY <2>3 DEF Compile, Validated
  <2> QED
    BY <2>1, <2>2, <2>3, Zenon DEF GatedNext
<1> QED
  BY <1>1, <1>2, PTL DEF GatedSpec, Spec

\* Behind the gate too the report counts what the sink took, and a failure names
\* the item it happened on.
THEOREM GatedRunIsReported == GatedSpec => [](SinkAndReportAgree /\ ErrorLocatesTheFailure)
BY GatedIsAPipeline, DeliveryIsReported, FailureIsNamed, PTL
=============================================================================
