--------------------------- MODULE Ingestion_proofs ---------------------------
(***************************************************************************)
(* A fixture on its way, for any files, batch size, row hashes, modulus,   *)
(* keys, foreign records and callbacks: the two readers of a file agree,   *)
(* csv-select copies a prefix of its column, an amount is what its text    *)
(* says, only a batch of the contract passes, and a record says what was   *)
(* written and can be read.                                                *)
(*                                                                         *)
(* One inductive invariant each: StreamInv for the readers of a file,      *)
(* SelectInv for csv-select, ContractInv for the local builder, RecordInv  *)
(* for the record, and RunInv, which needs the first and the fourth, for   *)
(* what the record says of the file.  What FoldLeft and FoldSet compute is *)
(* taken from the equation that defines them: FoldExists and SumExists     *)
(* build a function that satisfies it, FoldTakes and SetInduction go       *)
(* through one that does.                                                  *)
(***************************************************************************)
EXTENDS Ingestion, SequenceTheorems, FiniteSetTheorems, TLAPS

-----------------------------------------------------------------------------
(* Natural numbers *)

\* The library's induction theorem takes an operator; this one takes a set.
LEMMA NatSetInduction ==
    ASSUME NEW S, 0 \in S, \A n \in Nat : n \in S => n + 1 \in S
    PROVE  Nat \subseteq S
<1> DEFINE R == OpToRel(<, Nat)
           Out == {n \in Nat : n \notin S}
<1>1. IsWellFoundedOn(R, Nat)
  BY NatLessThanWellFounded
<1>2. \A x, y \in Nat : y < x => <<y, x>> \in R
  BY DEF OpToRel
<1> HIDE DEF R
<1>3. ASSUME Out # {} PROVE FALSE
  <2>1. PICK n \in Out : \A m \in Out : ~ (<<m, n>> \in R)
    BY <1>1, <1>3, WFMin
  <2>2. n # 0 /\ n - 1 \in Nat /\ n - 1 < n
    BY <2>1
  <2>3. n - 1 \in S
    BY <1>2, <2>1, <2>2
  <2> QED
    BY <2>1, <2>2, <2>3
<1> QED
  BY <1>3

LEMMA LeastExists ==
    ASSUME NEW S, S \subseteq Nat, S # {}
    PROVE  \E i \in S : \A j \in S : i <= j
<1> DEFINE Below == {n \in Nat : \A j \in S : n < j}
<1>1. PICK e \in S : TRUE
  OBVIOUS
<1>2. e \notin Below /\ e \in Nat
  BY <1>1
<1>3. CASE 0 \in S
  BY <1>3
<1>4. CASE 0 \notin S
  <2>1. 0 \in Below
    BY <1>4
  <2>2. PICK n \in Nat : n \in Below /\ n + 1 \notin Below
    BY <1>2, <2>1, NatSetInduction
  <2>3. PICK j \in S : ~(n + 1 < j)
    BY <2>2
  <2>4. j = n + 1
    BY <2>2, <2>3
  <2>5. \A k \in S : j <= k
    BY <2>2, <2>4
  <2> QED
    BY <2>5
<1> QED
  BY <1>3, <1>4

LEMMA MinOfNaturals ==
    ASSUME NEW S, S \subseteq Nat, S # {}
    PROVE  Min(S) \in S /\ \A j \in S : Min(S) <= j
BY LeastExists DEF Min

-----------------------------------------------------------------------------
(* Arithmetic of batches *)

LEMMA Quotient ==
    ASSUME NEW q \in Nat, NEW B \in Nat \ {0}, NEW r \in Nat, r < B
    PROVE  (q * B + r) \div B = q
OBVIOUS

LEMMA Multiples ==
    ASSUME NEW i \in Nat, NEW q \in Nat, NEW B \in Nat
    PROVE  /\ i * B \in Nat /\ (i + 1) * B = i * B + B /\ (i - 1) * B = i * B - B
           /\ i <= q => i * B <= q * B
           /\ i < q => i * B + B <= q * B
<1>1. i * B \in Nat /\ (i + 1) * B = i * B + B /\ (i - 1) * B = i * B - B
  OBVIOUS
<1>2. i <= q => i * B <= q * B
  OBVIOUS
<1>3. i < q => i * B + B <= q * B
  OBVIOUS
<1> QED
  BY <1>1, <1>2, <1>3

\* The rows of the i-th full batch.
Slice(rs, i) == SubSeq(rs, (i - 1) * BatchSize + 1, i * BatchSize)
Rest(rs, q) == SubSeq(rs, q * BatchSize + 1, Len(rs))

LEMMA SliceProperties ==
    ASSUME NEW V, NEW rs \in Seq(V), NEW q \in Nat, q * BatchSize <= Len(rs), NEW i \in 1..q
    PROVE  /\ Slice(rs, i) \in Seq(V) /\ Len(Slice(rs, i)) = BatchSize
           /\ \A j \in 1..BatchSize : Slice(rs, i)[j] = rs[(i - 1) * BatchSize + j]
           /\ (i - 1) * BatchSize \in Nat /\ (i - 1) * BatchSize + BatchSize <= q * BatchSize
<1> DEFINE m == (i - 1) * BatchSize
           k == i * BatchSize
<1>1. BatchSize \in Nat /\ Len(rs) \in Nat /\ q * BatchSize \in Nat
  BY BoundsAssumption
<1>2. m \in Nat /\ k = m + BatchSize /\ k <= q * BatchSize
  BY <1>1, Multiples
<1>3. Slice(rs, i) = SubSeq(rs, m + 1, k)
  BY DEF Slice
<1> HIDE DEF m, k
<1>4. \A j \in (m + 1)..k : rs[j] \in V
  BY <1>1, <1>2, ElementOfSeq
<1>5. /\ SubSeq(rs, m + 1, k) \in Seq(V)
      /\ Len(SubSeq(rs, m + 1, k)) = IF m + 1 <= k THEN k - (m + 1) + 1 ELSE 0
      /\ \A j \in 1..(k - (m + 1) + 1) : SubSeq(rs, m + 1, k)[j] = rs[m + 1 + j - 1]
  BY <1>1, <1>2, <1>4, SubSeqProperties
<1>6. /\ Len(Slice(rs, i)) = BatchSize
      /\ \A j \in 1..BatchSize : Slice(rs, i)[j] = rs[m + j]
  BY <1>1, <1>2, <1>3, <1>5
<1> QED
  BY <1>1, <1>2, <1>3, <1>5, <1>6 DEF m

LEMMA ChunksOfRows ==
    ASSUME NEW V, NEW rs \in Seq(V), NEW q \in Nat, NEW r \in Nat, r < BatchSize,
           Len(rs) = q * BatchSize + r
    PROVE  Chunks(rs) = [i \in 1..(IF r = 0 THEN q ELSE q + 1) |->
                            IF i <= q THEN Slice(rs, i) ELSE Rest(rs, q)]
<1>1. BatchSize \in Nat \ {0} /\ q * BatchSize \in Nat
  BY BoundsAssumption
<1>2. (Len(rs) + BatchSize - 1) \div BatchSize = IF r = 0 THEN q ELSE q + 1
  <2>1. CASE r = 0
    <3>1. Len(rs) + BatchSize - 1 = q * BatchSize + (BatchSize - 1)
      BY <1>1, <2>1
    <3> QED
      BY <1>1, <2>1, <3>1, Quotient
  <2>2. CASE r # 0
    <3>1. (q + 1) * BatchSize = q * BatchSize + BatchSize
      BY <1>1, Multiples
    <3>2. Len(rs) + BatchSize - 1 = (q + 1) * BatchSize + (r - 1)
      BY <1>1, <2>2, <3>1
    <3>3. q + 1 \in Nat /\ r - 1 \in Nat /\ r - 1 < BatchSize
      BY <1>1, <2>2
    <3>4. ((q + 1) * BatchSize + (r - 1)) \div BatchSize = q + 1
      BY <1>1, <3>3, Quotient
    <3> QED
      BY <2>2, <3>2, <3>4
  <2> QED
    BY <2>1, <2>2
<1>3. ASSUME NEW i \in 1..(IF r = 0 THEN q ELSE q + 1)
      PROVE  SubSeq(rs, (i - 1) * BatchSize + 1,
                    IF i * BatchSize < Len(rs) THEN i * BatchSize ELSE Len(rs))
               = IF i <= q THEN Slice(rs, i) ELSE Rest(rs, q)
  <2>1. CASE i <= q
    <3>1. i * BatchSize <= q * BatchSize /\ i * BatchSize \in Nat
      BY <1>1, <2>1, Multiples
    <3>2. (IF i * BatchSize < Len(rs) THEN i * BatchSize ELSE Len(rs)) = i * BatchSize
      BY <1>1, <3>1
    <3> QED
      BY <2>1, <3>2 DEF Slice
  <2>2. CASE ~(i <= q)
    <3>1. i = q + 1 /\ i * BatchSize = q * BatchSize + BatchSize
      BY <1>1, <2>2, Multiples
    <3>2. (i - 1) * BatchSize = q * BatchSize /\ ~(i * BatchSize < Len(rs))
      BY <1>1, <3>1
    <3> QED
      BY <2>2, <3>2 DEF Rest
  <2> QED
    BY <2>1, <2>2
<1> QED
  BY <1>2, <1>3 DEF Chunks

LEMMA FunctionIsSequence ==
    ASSUME NEW S, NEW n \in Nat, NEW f \in [1..n -> S]
    PROVE  f \in Seq(S) /\ Len(f) = n
OBVIOUS

LEMMA RestProperties ==
    ASSUME NEW V, NEW rs \in Seq(V), NEW q \in Nat, q * BatchSize <= Len(rs)
    PROVE  /\ Rest(rs, q) \in Seq(V) /\ Len(Rest(rs, q)) = Len(rs) - q * BatchSize
           /\ \A j \in 1..(Len(rs) - q * BatchSize) : Rest(rs, q)[j] = rs[q * BatchSize + j]
<1> DEFINE m == q * BatchSize
<1>1. BatchSize \in Nat /\ Len(rs) \in Nat /\ m \in Nat /\ m <= Len(rs)
  BY BoundsAssumption
<1> HIDE DEF m
<1>2. \A j \in (m + 1)..Len(rs) : rs[j] \in V
  BY <1>1, ElementOfSeq
<1>3. /\ SubSeq(rs, m + 1, Len(rs)) \in Seq(V)
      /\ Len(SubSeq(rs, m + 1, Len(rs))) =
           IF m + 1 <= Len(rs) THEN Len(rs) - (m + 1) + 1 ELSE 0
      /\ \A j \in 1..(Len(rs) - (m + 1) + 1) :
            SubSeq(rs, m + 1, Len(rs))[j] = rs[m + 1 + j - 1]
  BY <1>1, <1>2, SubSeqProperties
<1>4. /\ SubSeq(rs, m + 1, Len(rs)) \in Seq(V)
      /\ Len(SubSeq(rs, m + 1, Len(rs))) = Len(rs) - m
      /\ \A j \in 1..(Len(rs) - m) : SubSeq(rs, m + 1, Len(rs))[j] = rs[m + j]
  BY <1>1, <1>3
<1> QED
  BY <1>4 DEF Rest, m

LEMMA SliceOfLonger ==
    ASSUME NEW V, NEW rs \in Seq(V), NEW q \in Nat, q * BatchSize <= Len(rs), NEW i \in 1..q,
           NEW longer \in Seq(V), Len(rs) <= Len(longer),
           \A j \in 1..Len(rs) : longer[j] = rs[j]
    PROVE  Slice(longer, i) = Slice(rs, i)
<1> DEFINE m == (i - 1) * BatchSize
<1>1. BatchSize \in Nat /\ q * BatchSize \in Nat
  BY BoundsAssumption
<1>2. q * BatchSize <= Len(longer)
  BY <1>1
<1>3. /\ Slice(rs, i) \in Seq(V) /\ Len(Slice(rs, i)) = BatchSize
      /\ \A j \in 1..BatchSize : Slice(rs, i)[j] = rs[m + j]
      /\ m \in Nat /\ m + BatchSize <= q * BatchSize
  BY SliceProperties
<1>4. /\ Slice(longer, i) \in Seq(V) /\ Len(Slice(longer, i)) = BatchSize
      /\ \A j \in 1..BatchSize : Slice(longer, i)[j] = longer[m + j]
  BY <1>2, SliceProperties
<1> HIDE DEF m
<1>5. \A j \in 1..BatchSize : Slice(longer, i)[j] = Slice(rs, i)[j]
  <2> SUFFICES ASSUME NEW j \in 1..BatchSize
               PROVE  longer[m + j] = rs[m + j]
    BY <1>3, <1>4
  <2>1. m + j \in 1..Len(rs)
    BY <1>1, <1>3
  <2> QED
    BY <2>1
<1> QED
  BY <1>3, <1>4, <1>5, SeqEqual

-----------------------------------------------------------------------------
(* What a record parses to *)

IsResult(r, errors) == r.ok = TRUE \/ (r.ok = FALSE /\ r.error \in errors)

LEMMA ResultOfRow ==
    ASSUME NEW results, NEW n \in Nat, DOMAIN results = 1..n, NEW errors,
           \A i \in 1..n : IsResult(results[i], errors)
    PROVE  /\ IsResult(RowOf(results), errors)
           /\ RowOf(results).ok =>
                /\ \A i \in 1..n : results[i].ok
                /\ RowOf(results).value = [i \in 1..n |-> results[i].value]
           /\ ~RowOf(results).ok =>
                \E i \in 1..n : ~results[i].ok /\ RowOf(results) = results[i]
<1> DEFINE bad == {i \in 1..n : ~results[i].ok}
<1>1. RowOf(results) = IF bad # {} THEN results[Min(bad)]
                       ELSE Parsed([i \in 1..n |-> results[i].value])
  BY DEF RowOf
<1>2. bad \subseteq Nat
  OBVIOUS
<1>3. bad # {} => Min(bad) \in bad
  BY <1>2, MinOfNaturals
<1>4. CASE bad # {}
  BY <1>1, <1>3, <1>4 DEF IsResult
<1>5. CASE bad = {}
  <2>1. RowOf(results) = [ok |-> TRUE, value |-> [i \in 1..n |-> results[i].value]]
    BY <1>1, <1>5 DEF Parsed
  <2>2. \A i \in 1..n : results[i].ok
    BY <1>5
  <2> QED
    BY <2>1, <2>2 DEF IsResult
<1> QED
  BY <1>4, <1>5

CellErrors == {"InvalidId", "InvalidAmount", "InvalidTimestamp"}

LEMMA TupleOfThree ==
    ASSUME NEW a, NEW b, NEW c
    PROVE  DOMAIN <<a, b, c>> = 1..3 /\ \A i \in 1..3 : <<a, b, c>>[i] \in {a, b, c}
OBVIOUS

LEMMA TupleOfFour ==
    ASSUME NEW a, NEW b, NEW c, NEW d
    PROVE  DOMAIN <<a, b, c, d>> = 1..4 /\ \A i \in 1..4 : <<a, b, c, d>>[i] \in {a, b, c, d}
OBVIOUS

LEMMA ResultOfCell ==
    /\ \A r : IsResult(ParseId(r), {"InvalidId"})
    /\ \A cell : /\ IsResult(ParseTimestamp(cell), {"InvalidTimestamp"})
                 /\ IsResult(ParseAmount(cell), {"InvalidAmount"})
    /\ \A value : IsResult(Parsed(value), {})
<1>1. \A value : Parsed(value).ok = TRUE
  BY DEF Parsed
<1>2. \A cause : Failed(cause).ok = FALSE /\ Failed(cause).error = cause
  BY DEF Failed
<1>3. \A r : IsResult(ParseId(r), {"InvalidId"})
  BY <1>1, <1>2 DEF ParseId, IsResult
<1>4. \A cell : IsResult(ParseTimestamp(cell), {"InvalidTimestamp"})
  BY <1>1, <1>2 DEF ParseTimestamp, IsResult
<1>5. \A cell : IsResult(ParseAmount(cell), {"InvalidAmount"})
  BY <1>1, <1>2 DEF ParseAmount, IsResult
<1>6. \A value : IsResult(Parsed(value), {})
  BY <1>1 DEF IsResult
<1> QED
  BY <1>3, <1>4, <1>5, <1>6

LEMMA ResultOfRecord ==
    ASSUME NEW f \in Files, NEW cells
    PROVE  LET row == ParseRecord(f, cells)
           IN  /\ IsResult(row, CellErrors \union {"ReadRecord"})
               /\ ~row.ok => (row.error # "ReadRecord" <=> Len(cells) = f.header)
<1> DEFINE row == ParseRecord(f, cells)
<1>1. \A cause : Failed(cause).ok = FALSE /\ Failed(cause).error = cause
  BY DEF Failed
<1>2. CASE Len(cells) # f.header
  BY <1>1, <1>2 DEF ParseRecord, IsResult
<1>3. CASE Len(cells) = f.header
  <2>1. f.table \in {"ingest", "orders", "shipments"}
    BY FilesAssumption
  <2>2. row \in {ParseRow(cells), ParseOrderRow(cells), ParseShipmentRow(cells)}
    BY <1>3, <2>1 DEF ParseRecord
  <2>3. \A r, errors : errors \subseteq CellErrors /\ IsResult(r, errors) => IsResult(r, CellErrors)
    BY DEF IsResult
  <2>4. \A c, v : /\ IsResult(ParseId(c), CellErrors) /\ IsResult(ParseTimestamp(c), CellErrors)
                 /\ IsResult(ParseAmount(c), CellErrors) /\ IsResult(Parsed(v), CellErrors)
    BY <2>3, ResultOfCell DEF CellErrors
  <2>5. \A a, b, c : /\ DOMAIN <<a, b, c>> = 1..3
                    /\ \A i \in 1..3 : <<a, b, c>>[i] \in {a, b, c}
    BY TupleOfThree
  <2>7. \A a, b, c, d : /\ DOMAIN <<a, b, c, d>> = 1..4
                       /\ \A i \in 1..4 : <<a, b, c, d>>[i] \in {a, b, c, d}
    BY TupleOfFour
  <2>8. IsResult(ParseRow(cells), CellErrors)
    <3> DEFINE results == <<ParseId(cells), Parsed(Cell(cells, 2)), Parsed(NoteOf(Cell(cells, 3)))>>
    <3>1. DOMAIN results = 1..3
      BY <2>5
    <3>2. \A i \in 1..3 : IsResult(results[i], CellErrors)
      BY <2>5, <2>4
    <3>3. ParseRow(cells) = RowOf(results)
      BY DEF ParseRow
    <3> HIDE DEF results
    <3> QED
      BY <3>1, <3>2, <3>3, ResultOfRow
  <2>9. IsResult(ParseOrderRow(cells), CellErrors)
    <3> DEFINE results == <<ParseId(cells), ParseAmount(Cell(cells, 2)),
                        ParseTimestamp(Cell(cells, 3)), Parsed(NoteOf(Cell(cells, 4)))>>
    <3>1. DOMAIN results = 1..4
      BY <2>7
    <3>2. \A i \in 1..4 : IsResult(results[i], CellErrors)
      BY <2>7, <2>4
    <3>3. ParseOrderRow(cells) = RowOf(results)
      BY DEF ParseOrderRow
    <3> HIDE DEF results
    <3> QED
      BY <3>1, <3>2, <3>3, ResultOfRow
  <2>10. IsResult(ParseShipmentRow(cells), CellErrors)
    <3> DEFINE results == <<ParseId(cells), Parsed(Cell(cells, 2)), ParseTimestamp(Cell(cells, 3))>>
    <3>1. DOMAIN results = 1..3
      BY <2>5
    <3>2. \A i \in 1..3 : IsResult(results[i], CellErrors)
      BY <2>5, <2>4
    <3>3. ParseShipmentRow(cells) = RowOf(results)
      BY DEF ParseShipmentRow
    <3> HIDE DEF results
    <3> QED
      BY <3>1, <3>2, <3>3, ResultOfRow
  <2>6. IsResult(row, CellErrors)
    BY <2>2, <2>8, <2>9, <2>10
  <2> QED
    BY <1>3, <2>6 DEF IsResult, CellErrors
<1> QED
  BY <1>2, <1>3

-----------------------------------------------------------------------------
(* A sequence of rows in full batches and a rest *)

\* ss are the full batches of the rows rs, and c is what is left of them.
Batched(V, rs, ss, c) ==
    /\ rs \in Seq(V) /\ ss \in Seq(Seq(V)) /\ c \in Seq(V)
    /\ Len(rs) = Len(ss) * BatchSize + Len(c) /\ Len(c) < BatchSize
    /\ \A i \in 1..Len(ss) : ss[i] = Slice(rs, i)
    /\ c = Rest(rs, Len(ss))

LEMMA BatchedEmpty ==
    ASSUME NEW V
    PROVE  Batched(V, <<>>, <<>>, <<>>)
<1>1. BatchSize \in Nat \ {0}
  BY BoundsAssumption
<1>2. Rest(<<>>, 0) = <<>>
  <2>1. <<>> \in Seq(V) /\ 0 \in Nat /\ 0 * BatchSize = 0 /\ Len(<<>>) = 0 /\ 0 <= 0 /\ 0 - 0 = 0
    BY <1>1
  <2>2. Rest(<<>>, 0) \in Seq(V) /\ Len(Rest(<<>>, 0)) = Len(<<>>) - 0 * BatchSize
    BY <2>1, RestProperties
  <2>3. Len(Rest(<<>>, 0)) = 0
    BY <2>1, <2>2
  <2> QED
    BY <2>2, <2>3, EmptySeq
<1>3. <<>> \in Seq(V) /\ <<>> \in Seq(Seq(V)) /\ Len(<<>>) = 0
  OBVIOUS
<1>4. Len(<<>>) * BatchSize = 0
  BY <1>1
<1> QED
  BY <1>1, <1>2, <1>3, <1>4 DEF Batched

LEMMA BatchedAppend ==
    ASSUME NEW V, NEW rs, NEW ss, NEW c, Batched(V, rs, ss, c), NEW v \in V
    PROVE  IF Len(Append(c, v)) = BatchSize
           THEN Batched(V, Append(rs, v), Append(ss, Append(c, v)), <<>>)
           ELSE Batched(V, Append(rs, v), ss, Append(c, v))
<1> DEFINE q == Len(ss)
           m == q * BatchSize
           longer == Append(c, v)
           all == Append(rs, v)
<1>1. BatchSize \in Nat \ {0}
  BY BoundsAssumption
<1>2. /\ rs \in Seq(V) /\ ss \in Seq(Seq(V)) /\ c \in Seq(V)
      /\ Len(rs) = m + Len(c) /\ Len(c) < BatchSize
      /\ \A i \in 1..q : ss[i] = Slice(rs, i)
      /\ c = Rest(rs, q)
  BY DEF Batched
<1>3. q \in Nat /\ m \in Nat /\ Len(c) \in Nat /\ Len(rs) \in Nat /\ m <= Len(rs)
  BY <1>1, <1>2
<1>4. /\ longer \in Seq(V) /\ Len(longer) = Len(c) + 1
      /\ \A j \in 1..Len(c) : longer[j] = c[j]
      /\ longer[Len(c) + 1] = v
  BY <1>2
<1>5. /\ all \in Seq(V) /\ Len(all) = Len(rs) + 1
      /\ \A j \in 1..Len(rs) : all[j] = rs[j]
      /\ all[Len(rs) + 1] = v
  BY <1>2
<1> HIDE DEF m
<1>6. \A j \in 1..Len(c) : c[j] = rs[m + j]
  <2>1. \A j \in 1..(Len(rs) - m) : Rest(rs, q)[j] = rs[m + j]
    BY <1>2, <1>3, RestProperties DEF m
  <2>2. Len(rs) - m = Len(c)
    BY <1>2, <1>3
  <2> QED
    BY <1>2, <2>1, <2>2
<1>7. \A j \in 1..Len(longer) : longer[j] = all[m + j]
  <2> SUFFICES ASSUME NEW j \in 1..Len(longer) PROVE longer[j] = all[m + j]
    OBVIOUS
  <2>1. CASE j \in 1..Len(c)
    <3>1. m + j \in 1..Len(rs)
      BY <1>2, <1>3, <2>1
    <3> QED
      BY <1>4, <1>5, <1>6, <2>1, <3>1
  <2>2. CASE j = Len(c) + 1
    <3>1. m + j = Len(rs) + 1
      BY <1>2, <1>3, <2>2
    <3> QED
      BY <1>4, <1>5, <2>2, <3>1
  <2>3. j \in 1..Len(c) \/ j = Len(c) + 1
    <3>1. j \in 1..(Len(c) + 1) /\ Len(c) \in Nat
      BY <1>3, <1>4
    <3> QED
      BY <3>1
  <2> QED
    BY <2>1, <2>2, <2>3
<1>8. \A i \in 1..q : ss[i] = Slice(all, i)
  <2> SUFFICES ASSUME NEW i \in 1..q PROVE Slice(all, i) = Slice(rs, i)
    BY <1>2
  <2>1. q * BatchSize <= Len(rs) /\ Len(rs) <= Len(all)
    BY <1>3, <1>5 DEF m
  <2> HIDE DEF q, all
  <2> QED
    BY <1>2, <1>3, <1>5, <2>1, SliceOfLonger
<1>9. CASE Len(longer) = BatchSize
  <2> DEFINE more == Append(ss, longer)
  <2>1. /\ more \in Seq(Seq(V)) /\ Len(more) = q + 1
        /\ \A i \in 1..q : more[i] = ss[i]
        /\ more[q + 1] = longer
    BY <1>2, <1>4
  <2>2. (q + 1) * BatchSize = m + BatchSize
    BY <1>1, <1>3, Multiples DEF m
  <2>3. (q + 1) * BatchSize = Len(all)
    BY <1>2, <1>3, <1>4, <1>5, <1>9, <2>2
  <2>4. Slice(all, q + 1) = longer
    <3>1. /\ Slice(all, q + 1) \in Seq(V) /\ Len(Slice(all, q + 1)) = BatchSize
          /\ \A j \in 1..BatchSize : Slice(all, q + 1)[j] = all[((q + 1) - 1) * BatchSize + j]
      <4>1. (q + 1) * BatchSize <= Len(all) /\ q + 1 \in Nat /\ q + 1 \in 1..(q + 1)
        BY <1>3, <2>3, <1>5
      <4> DEFINE n == q + 1
      <4>2. all \in Seq(V) /\ n \in Nat /\ n * BatchSize <= Len(all) /\ n \in 1..n
        BY <1>5, <4>1
      <4> HIDE DEF n, q, all
      <4>3. /\ Slice(all, n) \in Seq(V) /\ Len(Slice(all, n)) = BatchSize
            /\ \A j \in 1..BatchSize : Slice(all, n)[j] = all[(n - 1) * BatchSize + j]
        BY <4>2, SliceProperties
      <4> QED
        BY <4>3 DEF n
    <3>2. ((q + 1) - 1) * BatchSize = m
      BY <1>3 DEF m
    <3> HIDE DEF q, all, longer
    <3>3. \A j \in 1..BatchSize : Slice(all, q + 1)[j] = longer[j]
      BY <1>7, <1>9, <3>1, <3>2
    <3> QED
      BY <1>4, <1>9, <3>1, <3>3, SeqEqual
  <2>5. Rest(all, q + 1) = <<>>
    <3>1. (q + 1) * BatchSize <= Len(all) /\ q + 1 \in Nat /\ Len(all) \in Nat
      BY <1>3, <1>5, <2>3
    <3>2. Rest(all, q + 1) \in Seq(V)
          /\ Len(Rest(all, q + 1)) = Len(all) - (q + 1) * BatchSize
      <4> HIDE DEF q, all
      <4> QED
        BY <1>5, <3>1, RestProperties
    <3>3. Len(Rest(all, q + 1)) = 0
      BY <2>3, <3>1, <3>2
    <3> QED
      BY <3>2, <3>3, EmptySeq
  <2>6. \A i \in 1..(q + 1) : more[i] = Slice(all, i)
    <3> HIDE DEF q, all, more, longer
    <3>1. \A i \in 1..(q + 1) : i \in 1..q \/ i = q + 1
      BY <1>3
    <3> QED
      BY <1>8, <2>1, <2>4, <3>1
  <2>7. Len(all) = Len(more) * BatchSize + 0 /\ <<>> \in Seq(V) /\ Len(<<>>) = 0 /\ 0 < BatchSize
    BY <1>1, <1>3, <1>5, <2>1, <2>3
  <2>8. Batched(V, all, more, <<>>)
    <3> HIDE DEF q, all, more, longer
    <3> QED
      BY <1>5, <2>1, <2>5, <2>6, <2>7 DEF Batched
  <2> QED
    BY <1>9, <2>8
<1>10. CASE Len(longer) # BatchSize
  <2>1. Len(longer) < BatchSize /\ Len(all) = q * BatchSize + Len(longer)
    BY <1>1, <1>2, <1>3, <1>4, <1>5, <1>10 DEF m
  <2>2. Rest(all, q) = longer
    <3> HIDE DEF q, all, longer
    <3>1. q * BatchSize <= Len(all) /\ Len(all) - q * BatchSize = Len(longer) /\ Len(longer) \in Nat
      BY <1>1, <1>3, <1>4, <2>1 DEF m
    <3>2. Rest(all, q) \in Seq(V) /\ Len(Rest(all, q)) = Len(longer)
          /\ \A j \in 1..Len(longer) : Rest(all, q)[j] = all[m + j]
      BY <1>3, <1>5, <3>1, RestProperties DEF m
    <3> QED
      BY <1>4, <1>7, <3>2, SeqEqual
  <2>3. Batched(V, all, ss, longer)
    <3> HIDE DEF all, longer
    <3> QED
      BY <1>2, <1>4, <1>5, <1>8, <2>1, <2>2 DEF Batched
  <2> QED
    BY <1>10, <2>3
<1> QED
  BY <1>9, <1>10

LEMMA BatchedEnds ==
    ASSUME NEW V, NEW rs, NEW ss, NEW c, Batched(V, rs, ss, c)
    PROVE  Chunks(rs) = IF c = <<>> THEN ss ELSE Append(ss, c)
<1> DEFINE q == Len(ss)
           r == Len(c)
<1>1. /\ rs \in Seq(V) /\ ss \in Seq(Seq(V)) /\ c \in Seq(V)
      /\ Len(rs) = q * BatchSize + r /\ r < BatchSize
      /\ \A i \in 1..q : ss[i] = Slice(rs, i)
      /\ c = Rest(rs, q)
      /\ q \in Nat /\ r \in Nat
  BY DEF Batched
<1>2. Chunks(rs) = [i \in 1..(IF r = 0 THEN q ELSE q + 1) |->
                       IF i <= q THEN Slice(rs, i) ELSE Rest(rs, q)]
  <2> HIDE DEF q, r
  <2> QED
    BY <1>1, ChunksOfRows
<1>3. CASE c = <<>>
  <2>1. Chunks(rs) = [i \in 1..q |-> IF i <= q THEN Slice(rs, i) ELSE Rest(rs, q)]
    BY <1>2, <1>3
  <2>2. ss = [i \in 1..q |-> ss[i]]
    BY <1>1
  <2>3. \A i \in 1..q : (IF i <= q THEN Slice(rs, i) ELSE Rest(rs, q)) = ss[i]
    BY <1>1
  <2> HIDE DEF q
  <2>4. [i \in 1..q |-> IF i <= q THEN Slice(rs, i) ELSE Rest(rs, q)] = [i \in 1..q |-> ss[i]]
    BY <2>3, Zenon
  <2> QED
    BY <1>3, <2>1, <2>2, <2>4
<1>4. CASE c # <<>>
  <2>1. r # 0
    BY <1>1, <1>4, EmptySeq
  <2>2. Chunks(rs) = [i \in 1..(q + 1) |-> IF i <= q THEN Slice(rs, i) ELSE Rest(rs, q)]
    BY <1>2, <2>1
  <2> DEFINE more == Append(ss, c)
  <2>3. /\ more \in Seq(Seq(V)) /\ Len(more) = q + 1
        /\ \A i \in 1..q : more[i] = ss[i]
        /\ more[q + 1] = c
    BY <1>1
  <2> HIDE DEF q, more
  <2>4. more = [i \in 1..(q + 1) |-> more[i]]
    BY <2>3
  <2>5. \A i \in 1..(q + 1) : (IF i <= q THEN Slice(rs, i) ELSE Rest(rs, q)) = more[i]
    BY <1>1, <2>3
  <2>6. [i \in 1..(q + 1) |-> IF i <= q THEN Slice(rs, i) ELSE Rest(rs, q)]
          = [i \in 1..(q + 1) |-> more[i]]
    BY <2>5, Zenon
  <2> QED
    BY <1>4, <2>2, <2>4, <2>6 DEF more
<1> QED
  BY <1>3, <1>4

LEMMA BatchedFails ==
    ASSUME NEW V, NEW rs, NEW ss, NEW c, Batched(V, rs, ss, c)
    PROVE  ss = Chunks(SubSeq(rs, 1, (Len(rs) \div BatchSize) * BatchSize))
<1> DEFINE q == Len(ss)
           m == q * BatchSize
           whole == SubSeq(rs, 1, m)
<1>1. /\ rs \in Seq(V) /\ ss \in Seq(Seq(V)) /\ c \in Seq(V)
      /\ Len(rs) = m + Len(c) /\ Len(c) < BatchSize
      /\ \A i \in 1..q : ss[i] = Slice(rs, i)
      /\ q \in Nat /\ Len(c) \in Nat /\ Len(rs) \in Nat
  BY DEF Batched
<1>2. BatchSize \in Nat \ {0} /\ m \in Nat /\ m <= Len(rs)
  BY <1>1, BoundsAssumption
<1>3. Len(rs) \div BatchSize = q
  <2> HIDE DEF q
  <2> QED
    BY <1>1, <1>2, Quotient
<1>4. /\ whole \in Seq(V) /\ Len(whole) = m
      /\ \A j \in 1..m : whole[j] = rs[j]
  <2> HIDE DEF m
  <2>1. \A j \in 1..m : rs[j] \in V
    BY <1>1, <1>2, ElementOfSeq
  <2>2. /\ SubSeq(rs, 1, m) \in Seq(V)
        /\ Len(SubSeq(rs, 1, m)) = IF 1 <= m THEN m - 1 + 1 ELSE 0
        /\ \A j \in 1..(m - 1 + 1) : SubSeq(rs, 1, m)[j] = rs[1 + j - 1]
    BY <1>2, <2>1, SubSeqProperties
  <2>3. \A j \in 1..m : 1 + j - 1 = j /\ m - 1 + 1 = m
    BY <1>2
  <2> QED
    BY <1>2, <2>2, <2>3
<1>5. Chunks(whole) = [i \in 1..q |-> IF i <= q THEN Slice(whole, i) ELSE Rest(whole, q)]
  <2>1. Len(whole) = q * BatchSize + 0
    BY <1>2, <1>4
  <2>2. 0 < BatchSize /\ 0 \in Nat
    BY <1>2
  <2> HIDE DEF q, whole
  <2> QED
    BY <1>1, <1>4, <2>1, <2>2, ChunksOfRows
<1>6. \A i \in 1..q : (IF i <= q THEN Slice(whole, i) ELSE Rest(whole, q)) = ss[i]
  <2> SUFFICES ASSUME NEW i \in 1..q PROVE Slice(whole, i) = ss[i]
    OBVIOUS
  <2>1. q * BatchSize <= Len(whole) /\ Len(whole) <= Len(rs)
    BY <1>2, <1>4
  <2>2. \A j \in 1..Len(whole) : rs[j] = whole[j]
    BY <1>4
  <2> HIDE DEF q, whole
  <2>3. Slice(rs, i) = Slice(whole, i)
    BY <1>1, <1>4, <2>1, <2>2, SliceOfLonger
  <2> QED
    BY <1>1, <2>3
<1>7. ss = [i \in 1..q |-> ss[i]]
  BY <1>1
<1>8. [i \in 1..q |-> IF i <= q THEN Slice(whole, i) ELSE Rest(whole, q)] = [i \in 1..q |-> ss[i]]
  <2> HIDE DEF q, whole
  <2> QED
    BY <1>6, Zenon
<1> QED
  BY <1>3, <1>5, <1>7, <1>8

-----------------------------------------------------------------------------
(* The stream and the whole read *)

LEMMA AppendNext ==
    ASSUME NEW V, NEW n \in Nat, NEW f \in [1..(n + 1) -> V]
    PROVE  Append([i \in 1..n |-> f[i]], f[n + 1]) = f
<1> DEFINE g == [i \in 1..n |-> f[i]]
           h == Append(g, f[n + 1])
<1>1. g \in Seq(V) /\ Len(g) = n /\ \A i \in 1..n : g[i] = f[i]
  OBVIOUS
<1>2. f \in Seq(V) /\ Len(f) = n + 1 /\ f[n + 1] \in V
  OBVIOUS
<1> HIDE DEF g
<1>3. /\ h \in Seq(V) /\ Len(h) = n + 1
      /\ \A i \in 1..n : h[i] = g[i]
      /\ h[n + 1] = f[n + 1]
  BY <1>1, <1>2
<1> HIDE DEF h
<1>4. \A i \in 1..(n + 1) : i \in 1..n \/ i = n + 1
  OBVIOUS
<1>5. \A i \in 1..(n + 1) : h[i] = f[i]
  BY <1>1, <1>3, <1>4
<1>6. h = f
  BY <1>2, <1>3, <1>5, SeqEqual
<1> QED
  BY <1>6 DEF h, g

RowAt(f, i) == ParseRecord(f, f.records[i])
Whole(f, n) == [i \in 1..n |-> RowAt(f, i).value]
ValuesOf(f) == {RowAt(f, i).value : i \in 1..Len(f.records)}

LEMMA WholeGrows ==
    ASSUME NEW f, NEW n \in Nat, n + 1 <= Len(f.records), Len(f.records) \in Nat
    PROVE  /\ Whole(f, n + 1) = Append(Whole(f, n), RowAt(f, n + 1).value)
           /\ RowAt(f, n + 1).value \in ValuesOf(f)
<1> DEFINE g == Whole(f, n + 1)
<1>1. \A i \in 1..(n + 1) : RowAt(f, i).value \in ValuesOf(f)
  BY DEF ValuesOf
<1>2. g \in [1..(n + 1) -> ValuesOf(f)] /\ \A i \in 1..(n + 1) : g[i] = RowAt(f, i).value
  BY <1>1 DEF Whole
<1> HIDE DEF g
<1>3. Append([i \in 1..n |-> g[i]], g[n + 1]) = g
  BY <1>2, AppendNext
<1>4. [i \in 1..n |-> g[i]] = Whole(f, n) /\ g[n + 1] = RowAt(f, n + 1).value
  BY <1>2 DEF Whole
<1> QED
  BY <1>1, <1>3, <1>4 DEF g

LEMMA LengthOfWhole ==
    ASSUME NEW f, NEW n \in Nat
    PROVE  Len(Whole(f, n)) = n
BY DEF Whole

Reading == outcome.done = FALSE /\ Batched(ValuesOf(file), rows, sent, chunk)
Ended ==
    /\ outcome.done = TRUE /\ outcome.ok = TRUE
    /\ at = Len(file.records) + 1 /\ sent = Chunks(rows)
Stopped ==
    /\ outcome.done = TRUE /\ outcome.ok = FALSE
    /\ at <= Len(file.records) /\ Batched(ValuesOf(file), rows, sent, chunk)
    /\ RowAt(file, at).ok = FALSE
    /\ outcome.row = at - 1 /\ outcome.error = RowAt(file, at).error

\* Every record before the current one parsed, and the rows are theirs; they are
\* in full batches and a rest until the file ends or a record fails.
StreamInv ==
    /\ file \in Files
    /\ at \in 1..(Len(file.records) + 1)
    /\ rows = Whole(file, at - 1)
    /\ \A i \in 1..(at - 1) : RowAt(file, i).ok = TRUE
    /\ Reading \/ Ended \/ Stopped

LEMMA FileFields ==
    ASSUME NEW f \in Files
    PROVE  /\ f.records \in Seq(Seq(Cells)) /\ Len(f.records) \in Nat /\ f.header \in Nat
           /\ \A i \in 1..Len(f.records) : f.records[i] \in Seq(Cells)
           /\ f.header = 0 => f.records = <<>>
<1>1. f.records \in Seq(Seq(Cells)) /\ f.header \in Nat /\ (f.header = 0 => f.records = <<>>)
  BY FilesAssumption
<1> QED
  BY <1>1

LEMMA StreamInit == ASSUME Init PROVE StreamInv
<1>1. /\ file \in Files /\ at = 1 /\ rows = <<>> /\ chunk = <<>> /\ sent = <<>>
      /\ outcome.done = FALSE
  BY DEF Init
<1>2. Len(file.records) \in Nat
  BY <1>1, FileFields
<1>3. rows = Whole(file, at - 1)
  <2>1. Whole(file, 0) = <<>>
    BY DEF Whole
  <2> QED
    BY <1>1, <2>1
<1>4. Reading
  BY <1>1, BatchedEmpty DEF Reading
<1> QED
  BY <1>1, <1>2, <1>3, <1>4 DEF StreamInv

LEMMA StreamReads == ASSUME StreamInv, ReadRecord PROVE StreamInv'
<1> DEFINE row == RowAt(file, at)
<1>1. /\ file \in Files /\ at \in Nat /\ at >= 1 /\ Len(file.records) \in Nat
      /\ at <= Len(file.records) /\ rows = Whole(file, at - 1)
      /\ \A i \in 1..(at - 1) : RowAt(file, i).ok = TRUE
      /\ Batched(ValuesOf(file), rows, sent, chunk) /\ outcome.done = FALSE
  <2>1. file \in Files /\ at \in 1..(Len(file.records) + 1) /\ ~outcome.done
        /\ at <= Len(file.records)
    BY DEF StreamInv, ReadRecord, InFile
  <2>2. Len(file.records) \in Nat
    BY <2>1, FileFields
  <2>3. Reading
    BY <2>1 DEF StreamInv, Ended, Stopped
  <2> QED
    BY <2>1, <2>2, <2>3 DEF StreamInv, Reading
<1>2. /\ row.ok /\ rows' = Append(rows, row.value)
      /\ IF Len(Append(chunk, row.value)) = BatchSize
         THEN sent' = Append(sent, Append(chunk, row.value)) /\ chunk' = <<>>
         ELSE chunk' = Append(chunk, row.value) /\ sent' = sent
      /\ at' = at + 1 /\ file' = file /\ outcome' = outcome
  BY DEF ReadRecord, ChunkFull, RowAt
<1>3. row.ok = TRUE
  <2>1. IsResult(row, CellErrors \union {"ReadRecord"})
    BY <1>1, ResultOfRecord DEF RowAt
  <2> QED
    BY <1>2, <2>1 DEF IsResult
<1>4. /\ Whole(file, at) = Append(Whole(file, at - 1), row.value)
      /\ row.value \in ValuesOf(file)
  <2> DEFINE n == at - 1
  <2>1. n \in Nat /\ n + 1 = at
    BY <1>1
  <2> HIDE DEF n
  <2>2. /\ Whole(file, n + 1) = Append(Whole(file, n), RowAt(file, n + 1).value)
        /\ RowAt(file, n + 1).value \in ValuesOf(file)
    BY <1>1, <2>1, WholeGrows
  <2> QED
    BY <2>1, <2>2 DEF n
<1>5. Batched(ValuesOf(file), rows', sent', chunk')
  <2> HIDE DEF row
  <2> QED
    BY <1>1, <1>2, <1>4, BatchedAppend
<1>6. Reading'
  <2>1. outcome'.done = FALSE /\ Batched(ValuesOf(file'), rows', sent', chunk')
    BY <1>1, <1>2, <1>5
  <2>2. Batched(ValuesOf(file), rows, sent, chunk)'
          <=> Batched(ValuesOf(file'), rows', sent', chunk')
    BY <1>2 DEF Batched, ValuesOf, RowAt, ParseRecord, Slice, Rest
  <2> QED
    BY <2>1, <2>2 DEF Reading
<1>7. /\ file' \in Files /\ at' \in 1..(Len(file'.records) + 1)
      /\ rows' = Whole(file', at' - 1)
  BY <1>1, <1>2, <1>4
<1>8. \A i \in 1..(at' - 1) : RowAt(file', i).ok = TRUE
  <2>1. \A i \in 1..(at' - 1) : i \in 1..(at - 1) \/ i = at
    BY <1>1, <1>2
  <2> QED
    BY <1>1, <1>2, <1>3, <2>1
<1> QED
  BY <1>6, <1>7, <1>8 DEF StreamInv, Whole, RowAt

LEMMA StreamFails == ASSUME StreamInv, FailRecord PROVE StreamInv'
<1> DEFINE row == RowAt(file, at)
<1>1. /\ file \in Files /\ at \in 1..(Len(file.records) + 1)
      /\ at <= Len(file.records) /\ ~outcome.done
  BY DEF StreamInv, FailRecord, InFile
<1>2. Batched(ValuesOf(file), rows, sent, chunk)
  BY <1>1 DEF StreamInv, Reading, Ended, Stopped
<1>3. /\ ~row.ok
      /\ outcome' = [done |-> TRUE, ok |-> FALSE, error |-> row.error, row |-> at - 1]
      /\ file' = file /\ at' = at /\ rows' = rows /\ chunk' = chunk /\ sent' = sent
  BY DEF FailRecord, RowAt
<1>4. row.ok = FALSE
  <2>1. IsResult(row, CellErrors \union {"ReadRecord"})
    BY <1>1, ResultOfRecord DEF RowAt
  <2> QED
    BY <1>3, <2>1 DEF IsResult
<1>5. outcome'.done = TRUE /\ outcome'.ok = FALSE /\ outcome'.error = row.error
      /\ outcome'.row = at - 1
  BY <1>3
<1>6. Stopped'
  <2>1. Batched(ValuesOf(file), rows, sent, chunk)'
    BY <1>2, <1>3 DEF Batched, ValuesOf, RowAt, Slice, Rest
  <2>2. RowAt(file, at)' = row
    BY <1>3 DEF RowAt
  <2> HIDE DEF row
  <2> QED
    BY <1>1, <1>3, <1>4, <1>5, <2>1, <2>2 DEF Stopped
<1> QED
  BY <1>3, <1>6 DEF StreamInv, Whole, RowAt

LEMMA StreamEnds == ASSUME StreamInv, EndOfFile PROVE StreamInv'
<1>1. /\ file \in Files /\ at \in 1..(Len(file.records) + 1)
      /\ ~outcome.done /\ at > Len(file.records) /\ Len(file.records) \in Nat
  BY FileFields DEF StreamInv, EndOfFile
<1>2. Batched(ValuesOf(file), rows, sent, chunk)
  BY <1>1 DEF StreamInv, Reading, Ended, Stopped
<1>3. /\ sent' = IF chunk = <<>> THEN sent ELSE Append(sent, chunk)
      /\ outcome' = [done |-> TRUE, ok |-> TRUE]
      /\ file' = file /\ at' = at /\ rows' = rows
  BY DEF EndOfFile
<1>4. Chunks(rows') = sent'
  BY <1>2, <1>3, BatchedEnds
<1>5. Ended'
  BY <1>1, <1>3, <1>4 DEF Ended, Chunks
<1> QED
  BY <1>3, <1>5 DEF StreamInv, Whole, RowAt

LEMMA StreamStep == ASSUME StreamInv, [Step]_<<vars, local, recordVars, taken, selectVars>>
                    PROVE  StreamInv'
<1>1. CASE ReadRecord
  BY <1>1, StreamReads
<1>2. CASE FailRecord
  BY <1>2, StreamFails
<1>3. CASE EndOfFile
  BY <1>3, StreamEnds
<1>4. CASE UNCHANGED vars
  <2>1. file' = file /\ at' = at /\ rows' = rows /\ chunk' = chunk /\ sent' = sent
        /\ outcome' = outcome
    BY <1>4 DEF vars
  <2> QED
    BY <2>1 DEF StreamInv, Whole, RowAt, Reading, Ended, Stopped, Batched, ValuesOf,
                Slice, Rest, Chunks
<1>5. ReadRecord \/ FailRecord \/ EndOfFile \/ UNCHANGED vars
  BY DEF Step, Supply, Select, ReadFile, BuildLocal, LocalStep, Consume, ConsumeFails, Publish,
         ReadRemote, Next
<1> QED
  BY <1>1, <1>2, <1>3, <1>4, <1>5

LEMMA StreamIsTrue == ASSUME StreamInv PROVE StreamIsTheWholeRead
<1> DEFINE before == [i \in 1..(at - 1) |-> ParseRecord(file, file.records[i]).value]
           whole == (Len(before) \div BatchSize) * BatchSize
<1>1. before = rows /\ Len(before) = at - 1
  <2>1. before = Whole(file, at - 1) /\ at - 1 \in Nat
    BY FileFields DEF StreamInv, Whole, RowAt
  <2> HIDE DEF before
  <2> QED
    BY <2>1, LengthOfWhole DEF StreamInv
<1>2. ASSUME outcome.done, outcome.ok PROVE sent = Chunks(before) /\ rows = before
  <2>1. Ended
    BY <1>2 DEF StreamInv, Reading, Stopped
  <2> HIDE DEF before
  <2> QED
    BY <1>1, <2>1 DEF Ended
<1>3. ASSUME outcome.done, ~outcome.ok
      PROVE  /\ sent = Chunks(SubSeq(before, 1, whole))
             /\ outcome.row = Len(before)
             /\ outcome.error # "ReadRecord" <=> Len(file.records[at]) = file.header
  <2>1. Stopped
    BY <1>3 DEF StreamInv, Reading, Ended
  <2> HIDE DEF before
  <2>2. sent = Chunks(SubSeq(before, 1, whole))
    BY <1>1, <2>1, BatchedFails DEF Stopped
  <2>3. outcome.error # "ReadRecord" <=> Len(file.records[at]) = file.header
    BY <2>1, ResultOfRecord DEF Stopped, StreamInv, RowAt
  <2> QED
    BY <1>1, <2>1, <2>2, <2>3 DEF Stopped
<1> QED
  BY <1>2, <1>3 DEF StreamIsTheWholeRead

-----------------------------------------------------------------------------
(* One column of a file *)

ColumnOf(n) == [i \in 1..n |-> FieldOf(Selected[i])]
ColumnFields == {FieldOf(Selected[i]) : i \in 1..Len(Selected)}
Refusals == {"ReadRecord", "ColumnOutOfRange"}

\* What is out is the column of the first records, all of those before the line
\* while it runs, and none of them was in trouble.
SelectInv ==
    /\ file \in Files
    /\ args.column \in Nat
    /\ line \in 1..(Len(Selected) + 1)
    /\ \A i \in 1..(line - 1) : Trouble(Selected[i]) = "none"
    /\ stdout \in Seq(ColumnFields) /\ buffered \in Seq(ColumnFields)
    /\ exit = "none" => stdout \o buffered = ColumnOf(line - 1)
    /\ exit # "none" => buffered = <<>> /\ \E n \in 0..(line - 1) : stdout = ColumnOf(n)
    /\ exit = "success" => line = Len(Selected) + 1 /\ stdout = ColumnOf(line - 1)
    /\ exit \in Refusals => line <= Len(Selected) /\ Trouble(Selected[line]) = exit

LEMMA SelectedRecords ==
    ASSUME NEW f \in Files
    PROVE  LET all == <<HeaderOf(f)>> \o f.records
           IN  /\ Len(all) = Len(f.records) + 1
               /\ all[1] = HeaderOf(f) /\ Len(HeaderOf(f)) = f.header
               /\ \A i \in 1..Len(f.records) : all[i + 1] = f.records[i]
<1>1. f.records \in Seq(Seq(Cells)) /\ f.header \in Nat
  BY FileFields
<1>2. Len(HeaderOf(f)) = f.header /\ HeaderOf(f) \in Seq({Text("name")})
  BY <1>1 DEF HeaderOf
<1>3. <<HeaderOf(f)>> \in Seq(Seq(Cells) \union {HeaderOf(f)})
      /\ f.records \in Seq(Seq(Cells) \union {HeaderOf(f)})
  BY <1>1
<1> DEFINE all == <<HeaderOf(f)>> \o f.records
<1>4. /\ Len(all) = 1 + Len(f.records)
      /\ all[1] = HeaderOf(f)
      /\ \A i \in 1..Len(f.records) : all[i + 1] = f.records[i]
  BY <1>1, <1>3
<1> QED
  BY <1>1, <1>2, <1>4

LEMMA ColumnPrefix ==
    ASSUME NEW V, NEW s \in Seq(V), NEW b \in Seq(V), NEW m \in Nat, NEW n \in 0..Len(b),
           s \o b = ColumnOf(m)
    PROVE  Len(s) + n \in 0..m /\ s \o SubSeq(b, 1, n) = ColumnOf(Len(s) + n)
<1> DEFINE c == ColumnOf(m)
           k == Len(s) + n
           t == s \o SubSeq(b, 1, n)
<1>1. Len(s) \in Nat /\ Len(b) \in Nat /\ n \in Nat /\ n <= Len(b) /\ k \in Nat
  OBVIOUS
<1>2. /\ SubSeq(b, 1, n) \in Seq(V) /\ Len(SubSeq(b, 1, n)) = n
      /\ \A i \in 1..n : SubSeq(b, 1, n)[i] = b[i]
  BY <1>1
<1>3. /\ c \in Seq(V) /\ Len(c) = Len(s) + Len(b)
      /\ \A i \in 1..Len(s) : c[i] = s[i]
      /\ \A i \in 1..Len(b) : c[Len(s) + i] = b[i]
  <2>1. s \o b \in Seq(V) /\ Len(s \o b) = Len(s) + Len(b)
        /\ \A i \in 1..(Len(s) + Len(b)) :
              (s \o b)[i] = IF i <= Len(s) THEN s[i] ELSE b[i - Len(s)]
    BY ConcatProperties
  <2> HIDE DEF c
  <2>2. \A i \in 1..Len(s) : (s \o b)[i] = s[i]
    BY <1>1, <2>1
  <2>3. \A i \in 1..Len(b) : (s \o b)[Len(s) + i] = b[i]
    BY <1>1, <2>1
  <2> QED
    BY <2>1, <2>2, <2>3 DEF c
<1>4. Len(c) = m /\ \A i \in 1..m : c[i] = FieldOf(Selected[i])
  BY DEF ColumnOf
<1>5. m = Len(s) + Len(b) /\ k \in 0..m
  <2>1. m = Len(s) + Len(b)
    BY <1>3, <1>4
  <2> QED
    BY <1>1, <2>1
<1>6. /\ t \in Seq(V) /\ Len(t) = k
      /\ \A i \in 1..k : t[i] = IF i <= Len(s) THEN s[i] ELSE SubSeq(b, 1, n)[i - Len(s)]
  BY <1>2, ConcatProperties
<1> HIDE DEF c, t
<1>7. \A i \in 1..k : t[i] = FieldOf(Selected[i])
  <2> SUFFICES ASSUME NEW i \in 1..k PROVE t[i] = FieldOf(Selected[i])
    OBVIOUS
  <2>1. i \in 1..m
    BY <1>1, <1>5
  <2>2. CASE i <= Len(s)
    BY <1>1, <1>3, <1>4, <1>6, <2>1, <2>2
  <2>3. CASE ~(i <= Len(s))
    <3> DEFINE j == i - Len(s)
    <3>1. j \in 1..n /\ j \in 1..Len(b) /\ Len(s) + j = i
      BY <1>1, <2>3
    <3>2. t[i] = SubSeq(b, 1, n)[j]
      BY <1>6, <2>3
    <3> HIDE DEF j
    <3>3. c[Len(s) + j] = b[j]
      BY <1>3, <3>1
    <3>4. t[i] = b[j]
      BY <1>2, <3>1, <3>2
    <3> QED
      BY <1>4, <2>1, <3>1, <3>3, <3>4
  <2> QED
    BY <2>2, <2>3
<1>8. t = [i \in 1..k |-> t[i]]
  BY <1>6
<1>9. t = ColumnOf(k)
  <2> HIDE DEF k
  <2>1. [i \in 1..k |-> t[i]] = [i \in 1..k |-> FieldOf(Selected[i])]
    BY <1>7, Zenon
  <2> QED
    BY <1>8, <2>1 DEF ColumnOf
<1> QED
  BY <1>5, <1>9 DEF t

LEMMA ColumnIsPrefix ==
    ASSUME NEW m \in Nat, NEW n \in 0..m
    PROVE  IsPrefix(ColumnOf(n), ColumnOf(m))
<1> DEFINE V == {FieldOf(Selected[i]) : i \in 1..m}
           s == ColumnOf(n)
           t == ColumnOf(m)
<1>1. /\ s \in Seq(V) /\ Len(s) = n /\ \A i \in 1..n : s[i] = FieldOf(Selected[i])
      /\ t \in Seq(V) /\ Len(t) = m /\ \A i \in 1..m : t[i] = FieldOf(Selected[i])
      /\ n \in Nat /\ n <= m
  BY DEF ColumnOf
<1> HIDE DEF s, t, V
<1>2. /\ SubSeq(s, 1, n) \in Seq(V) /\ Len(SubSeq(s, 1, n)) = n
      /\ \A i \in 1..n : SubSeq(s, 1, n)[i] = s[i]
  BY <1>1
<1>3. /\ SubSeq(t, 1, n) \in Seq(V) /\ Len(SubSeq(t, 1, n)) = n
      /\ \A i \in 1..n : SubSeq(t, 1, n)[i] = t[i]
  BY <1>1
<1>4. \A i \in 1..n : SubSeq(s, 1, n)[i] = SubSeq(t, 1, n)[i]
  BY <1>1, <1>2, <1>3
<1>5. SubSeq(s, 1, n) = SubSeq(t, 1, n)
  BY <1>2, <1>3, <1>4, SeqEqual
<1>6. Len(s) <= Len(t) /\ SubSeq(s, 1, Len(s)) = SubSeq(t, 1, Len(s))
  BY <1>1, <1>5
<1>7. IsPrefix(s, t)
  BY <1>6 DEF IsPrefix
<1> QED
  BY <1>7 DEF s, t

LEMMA SelectStays ==
    ASSUME file' = file, args' = args
    PROVE  /\ Selected' = Selected /\ ColumnFields' = ColumnFields
           /\ \A n : ColumnOf(n)' = ColumnOf(n)
           /\ \A r : Trouble(r)' = Trouble(r)
<1>1. Selected' = Selected
  BY DEF Selected, HeaderOf
<1>2. \A r : FieldOf(r)' = FieldOf(r)
  BY DEF FieldOf
<1>3. \A n : ColumnOf(n)' = ColumnOf(n)
  BY <1>1, <1>2 DEF ColumnOf, FieldOf
<1>4. ColumnFields' = ColumnFields
  BY <1>1, <1>2 DEF ColumnFields, FieldOf
<1>5. \A r : Trouble(r)' = Trouble(r)
  BY <1>1 DEF Trouble
<1> QED
  BY <1>1, <1>3, <1>4, <1>5

LEMMA SelectedLength ==
    ASSUME file \in Files
    PROVE  Len(Selected) \in Nat
<1>1. Len(<<HeaderOf(file)>> \o file.records) \in Nat
  BY SelectedRecords, FileFields
<1>2. Len(<<>>) = 0 /\ Len(<< <<>> >>) = 1
  OBVIOUS
<1> QED
  BY <1>1, <1>2 DEF Selected

LEMMA SelectStarts ==
    ASSUME file \in Files, args.column \in Nat, Unread
    PROVE  SelectInv
<1>1. line = 1 /\ buffered = <<>> /\ stdout = <<>> /\ exit = "none"
  BY DEF Unread
<1>2. ColumnOf(0) = <<>>
  BY DEF ColumnOf
<1>3. /\ stdout \in Seq(ColumnFields) /\ buffered \in Seq(ColumnFields)
      /\ stdout \o buffered = ColumnOf(line - 1)
  BY <1>1, <1>2
<1>4. line \in 1..(Len(Selected) + 1) /\ \A i \in 1..(line - 1) : Trouble(Selected[i]) = "none"
  BY <1>1, SelectedLength
<1> QED
  BY <1>1, <1>3, <1>4 DEF SelectInv, Refusals

LEMMA SelectWrites == ASSUME SelectInv, SelectAndWrite, file' = file PROVE SelectInv'
<1> DEFINE field == FieldOf(Selected[line])
<1>1. /\ file \in Files /\ args.column \in Nat /\ line \in Nat /\ line >= 1
      /\ Len(Selected) \in Nat /\ line <= Len(Selected)
      /\ \A i \in 1..(line - 1) : Trouble(Selected[i]) = "none"
      /\ stdout \in Seq(ColumnFields) /\ buffered \in Seq(ColumnFields)
      /\ stdout \o buffered = ColumnOf(line - 1)
      /\ exit = "none" /\ Trouble(Selected[line]) = "none"
  BY SelectedLength DEF SelectInv, SelectAndWrite
<1>2. /\ buffered' = Append(buffered, field) /\ line' = line + 1
      /\ args' = args /\ stdout' = stdout /\ exit' = exit
  BY DEF SelectAndWrite
<1>3. field \in ColumnFields
  BY <1>1 DEF ColumnFields
<1>4. buffered' \in Seq(ColumnFields)
  BY <1>1, <1>2, <1>3
<1>5. stdout \o Append(buffered, field) = Append(ColumnOf(line - 1), field)
  <2> HIDE DEF field
  <2>1. Append(buffered, field) = buffered \o <<field>> /\ <<field>> \in Seq(ColumnFields)
    BY <1>1, <1>3, AppendIsConcat
  <2>2. stdout \o buffered \in Seq(ColumnFields)
    BY <1>1, ConcatProperties
  <2>3. (stdout \o buffered) \o <<field>> = stdout \o (buffered \o <<field>>)
    <3> DEFINE S == ColumnFields
               u == <<field>>
    <3>1. stdout \in Seq(S) /\ buffered \in Seq(S) /\ u \in Seq(S)
      BY <1>1, <2>1
    <3> HIDE DEF S, u
    <3>2. (stdout \o buffered) \o u = stdout \o (buffered \o u)
      BY <3>1, ConcatAssociative
    <3> QED
      BY <3>2 DEF u
  <2>4. Append(stdout \o buffered, field) = (stdout \o buffered) \o <<field>>
    BY <1>3, <2>2, AppendIsConcat
  <2> QED
    BY <1>1, <2>1, <2>3, <2>4
<1>6. Append(ColumnOf(line - 1), field) = ColumnOf(line)
  <2> DEFINE n == line - 1
             f == ColumnOf(n + 1)
  <2>1. n \in Nat /\ n + 1 = line
    BY <1>1
  <2>2. f \in [1..(n + 1) -> ColumnFields] /\ \A i \in 1..(n + 1) : f[i] = FieldOf(Selected[i])
    BY <1>1, <2>1 DEF ColumnOf, ColumnFields
  <2>3. [i \in 1..n |-> f[i]] = ColumnOf(n) /\ f[n + 1] = field
    BY <2>1 DEF ColumnOf
  <2> HIDE DEF n, f
  <2>4. Append([i \in 1..n |-> f[i]], f[n + 1]) = f
    BY <2>1, <2>2, AppendNext
  <2> QED
    BY <2>1, <2>3, <2>4 DEF n, f
<1>7. stdout' \o buffered' = ColumnOf(line' - 1)
  BY <1>1, <1>2, <1>5, <1>6
<1>8. /\ Selected' = Selected /\ ColumnFields' = ColumnFields
      /\ \A n : ColumnOf(n)' = ColumnOf(n)
      /\ \A r : Trouble(r)' = Trouble(r)
  BY <1>2, SelectStays
<1>9. \A i \in 1..(line' - 1) : Trouble(Selected[i]) = "none"
  <2>1. \A i \in 1..(line' - 1) : i \in 1..(line - 1) \/ i = line
    BY <1>1, <1>2
  <2> QED
    BY <1>1, <2>1
<1>10. line' \in 1..(Len(Selected) + 1)
  BY <1>1, <1>2
<1> QED
  BY <1>1, <1>2, <1>4, <1>7, <1>8, <1>9, <1>10 DEF SelectInv, Refusals

(* What is true of the file, the column and the line does not change when  *)
(* these do not.                                                           *)
LEMMA SelectFrame ==
    ASSUME SelectInv, file' = file, args' = args, line' = line,
           stdout' \in Seq(ColumnFields), buffered' \in Seq(ColumnFields),
           exit' = "none" => stdout' \o buffered' = ColumnOf(line - 1),
           exit' # "none" => buffered' = <<>> /\ \E n \in 0..(line - 1) : stdout' = ColumnOf(n),
           exit' = "success" => line = Len(Selected) + 1 /\ stdout' = ColumnOf(line - 1),
           exit' \in Refusals => line <= Len(Selected) /\ Trouble(Selected[line]) = exit'
    PROVE  SelectInv'
<1>1. /\ Selected' = Selected /\ ColumnFields' = ColumnFields
      /\ \A n : ColumnOf(n)' = ColumnOf(n)
      /\ \A r : Trouble(r)' = Trouble(r)
  BY SelectStays
<1>2. /\ file' \in Files /\ args'.column \in Nat /\ line' \in 1..(Len(Selected) + 1)
      /\ \A i \in 1..(line' - 1) : Trouble(Selected[i]) = "none"
  BY DEF SelectInv
<1> QED
  BY <1>1, <1>2 DEF SelectInv, Refusals

LEMMA SelectRuns ==
    ASSUME SelectInv, exit = "none"
    PROVE  /\ line - 1 \in Nat /\ Len(Selected) \in Nat
           /\ line \in 1..(Len(Selected) + 1)
           /\ stdout \in Seq(ColumnFields) /\ buffered \in Seq(ColumnFields)
           /\ stdout \o buffered \in Seq(ColumnFields)
           /\ stdout \o buffered = ColumnOf(line - 1)
<1>1. Len(Selected) \in Nat /\ line \in 1..(Len(Selected) + 1)
      /\ stdout \in Seq(ColumnFields) /\ buffered \in Seq(ColumnFields)
      /\ stdout \o buffered = ColumnOf(line - 1)
  BY SelectedLength DEF SelectInv
<1>2. stdout \o buffered \in Seq(ColumnFields)
  BY <1>1, ConcatProperties
<1> QED
  BY <1>1, <1>2

LEMMA PartlyIsAPrefix ==
    ASSUME SelectInv, exit = "none", Partly
    PROVE  stdout' \in Seq(ColumnFields) /\ \E n \in 0..(line - 1) : stdout' = ColumnOf(n)
<1>1. PICK n \in 0..Len(buffered) : stdout' = stdout \o SubSeq(buffered, 1, n)
  BY DEF Partly
<1>2. /\ line - 1 \in Nat /\ stdout \in Seq(ColumnFields) /\ buffered \in Seq(ColumnFields)
      /\ stdout \o buffered = ColumnOf(line - 1)
  BY SelectRuns
<1>3. /\ Len(stdout) + n \in 0..(line - 1)
      /\ stdout \o SubSeq(buffered, 1, n) = ColumnOf(Len(stdout) + n)
  BY <1>2, ColumnPrefix
<1>4. SubSeq(buffered, 1, n) \in Seq(ColumnFields)
  BY <1>2
<1>5. stdout' \in Seq(ColumnFields)
  BY <1>1, <1>2, <1>4, ConcatProperties
<1> QED
  BY <1>1, <1>3, <1>5

LEMMA SelectStep ==
    ASSUME SelectInv, [Step]_<<vars, local, recordVars, taken, selectVars>>
    PROVE  SelectInv'
<1>1. file' = file
  <2>1. ReadRecord \/ FailRecord \/ EndOfFile \/ UNCHANGED vars
    BY DEF Step, Supply, Select, ReadFile, BuildLocal, LocalStep, Consume, ConsumeFails,
           Publish, ReadRemote, Next
  <2> QED
    BY <2>1 DEF ReadRecord, FailRecord, EndOfFile, vars
<1>2. CASE OpenFails
  <2>1. /\ stdout = <<>> /\ buffered = <<>> /\ line = 1 /\ exit = "none"
        /\ exit' = "OpenInput" /\ args' = args /\ line' = line
        /\ buffered' = buffered /\ stdout' = stdout
    BY <1>2 DEF OpenFails, Unread
  <2>2. ColumnOf(0) = <<>>
    BY DEF ColumnOf
  <2>3. stdout' \in Seq(ColumnFields) /\ buffered' \in Seq(ColumnFields)
        /\ buffered' = <<>> /\ stdout' = ColumnOf(0) /\ 0 \in 0..(line - 1)
    BY <2>1, <2>2
  <2> QED
    BY <1>1, <2>1, <2>3, SelectFrame DEF Refusals
<1>3. CASE SelectAndWrite
  BY <1>1, <1>3, SelectWrites
<1>4. CASE WriteBuffer
  <2>1. /\ exit = "none" /\ exit' = exit /\ args' = args /\ line' = line
        /\ stdout' = stdout \o buffered /\ buffered' = <<>>
    BY <1>4 DEF WriteBuffer
  <2>2. /\ stdout' \in Seq(ColumnFields) /\ buffered' \in Seq(ColumnFields)
        /\ stdout' = ColumnOf(line - 1)
    BY <2>1, SelectRuns
  <2>3. stdout' \o buffered' = stdout'
    BY <2>1, <2>2, ConcatEmptySeq
  <2> QED
    BY <1>1, <2>1, <2>2, <2>3, SelectFrame DEF Refusals
<1>5. CASE WriteFails
  <2>1. /\ exit = "none" /\ exit' = "WriteOutput" /\ args' = args /\ line' = line
        /\ Partly /\ buffered' = <<>> /\ buffered' \in Seq(ColumnFields)
    BY <1>5 DEF WriteFails
  <2>2. stdout' \in Seq(ColumnFields) /\ \E n \in 0..(line - 1) : stdout' = ColumnOf(n)
    BY <2>1, PartlyIsAPrefix
  <2> QED
    BY <1>1, <2>1, <2>2, SelectFrame DEF Refusals
<1>6. CASE SelectFails
  <2>1. /\ exit = "none" /\ exit' = Trouble(Selected[line]) /\ args' = args /\ line' = line
        /\ Partly /\ buffered' = <<>> /\ buffered' \in Seq(ColumnFields)
        /\ line <= Len(Selected) /\ Trouble(Selected[line]) # "none"
    BY <1>6 DEF SelectFails
  <2>2. stdout' \in Seq(ColumnFields) /\ \E n \in 0..(line - 1) : stdout' = ColumnOf(n)
    BY <2>1, PartlyIsAPrefix
  <2>3. exit' \in Refusals
    BY <2>1 DEF Trouble, Refusals
  <2> QED
    BY <1>1, <2>1, <2>2, <2>3, SelectFrame DEF Refusals
<1>7. CASE Flush
  <2>1. /\ exit = "none" /\ exit' = "success" /\ args' = args /\ line' = line
        /\ stdout' = stdout \o buffered /\ buffered' = <<>>
        /\ line > Len(Selected)
    BY <1>7 DEF Flush
  <2>2. /\ stdout' \in Seq(ColumnFields) /\ buffered' \in Seq(ColumnFields)
        /\ stdout' = ColumnOf(line - 1)
        /\ line = Len(Selected) + 1 /\ line - 1 \in 0..(line - 1)
    BY <2>1, SelectRuns
  <2> QED
    BY <1>1, <2>1, <2>2, SelectFrame DEF Refusals
<1>8. CASE UNCHANGED selectVars
  <2>1. /\ args' = args /\ line' = line /\ buffered' = buffered /\ stdout' = stdout
        /\ exit' = exit
    BY <1>8 DEF selectVars
  <2> QED
    BY <1>1, <2>1, SelectFrame DEF SelectInv
<1>9. SelectNext \/ UNCHANGED selectVars
  BY DEF Step, Supply, Select, ReadFile, BuildLocal, LocalStep, Consume, ConsumeFails,
         Publish, ReadRemote
<1> QED
  BY <1>2, <1>3, <1>4, <1>5, <1>6, <1>7, <1>8, <1>9 DEF SelectNext

LEMMA TroubleOfRecord ==
    ASSUME file \in Files, file.header # 0
    PROVE  /\ Len(Selected) = Len(file.records) + 1 /\ Len(Selected[1]) = file.header
           /\ \A i \in 1..Len(file.records) :
                 Trouble(Selected[i + 1]) # "ReadRecord" <=>
                    Len(file.records[i]) = file.header
<1>1. Selected = <<HeaderOf(file)>> \o file.records
  BY DEF Selected
<1>2. /\ Len(Selected) = Len(file.records) + 1 /\ Len(Selected[1]) = file.header
      /\ \A i \in 1..Len(file.records) : Selected[i + 1] = file.records[i]
  BY <1>1, SelectedRecords
<1>3. \A r : Trouble(r) # "ReadRecord" <=> Len(r) = file.header
  BY <1>2 DEF Trouble
<1> QED
  BY <1>2, <1>3

LEMMA SelectIsTrue == ASSUME SelectInv PROVE SelectionIsTheColumn
<1> DEFINE bad == {i \in DOMAIN file.records : Len(file.records[i]) # file.header}
           column == ColumnOf(line - 1)
<1>1. /\ file \in Files /\ args.column \in Nat /\ line - 1 \in Nat
      /\ line \in 1..(Len(Selected) + 1) /\ Len(Selected) \in Nat
      /\ \A i \in 1..(line - 1) : Trouble(Selected[i]) = "none"
      /\ stdout \in Seq(ColumnFields)
  BY SelectedLength DEF SelectInv
<1>2. DOMAIN file.records = 1..Len(file.records) /\ Len(file.records) \in Nat
  BY <1>1, FileFields
<1>3. file.header = 0 => file.records = <<>> /\ bad = {}
  BY <1>1, FileFields
<1>4. IsPrefix(stdout \o buffered, column)
  <2>1. CASE exit = "none"
    <3>1. stdout \o buffered = column /\ line - 1 \in 0..(line - 1)
      BY <1>1, <2>1 DEF SelectInv
    <3> QED
      BY <1>1, <3>1, ColumnIsPrefix
  <2>2. CASE exit # "none"
    <3>1. PICK n \in 0..(line - 1) : stdout = ColumnOf(n)
      BY <2>2 DEF SelectInv
    <3>2. stdout \o buffered = stdout
      BY <1>1, <2>2, ConcatEmptySeq DEF SelectInv
    <3> QED
      BY <1>1, <3>1, <3>2, ColumnIsPrefix
  <2> QED
    BY <2>1, <2>2
<1>5. ASSUME exit = "success" PROVE stdout = column /\ line = Len(Selected) + 1 /\ bad = {}
  <2>1. stdout = column /\ line = Len(Selected) + 1
    BY <1>5 DEF SelectInv
  <2>2. bad = {}
    <3>1. CASE file.header = 0
      BY <1>3, <3>1
    <3>2. CASE file.header # 0
      <4>1. \A i \in 1..Len(file.records) : i + 1 \in 1..(line - 1)
        BY <1>1, <1>2, <2>1, <3>2, TroubleOfRecord
      <4>2. \A i \in 1..Len(file.records) : Len(file.records[i]) = file.header
        BY <1>1, <3>2, <4>1, TroubleOfRecord
      <4> QED
        BY <1>2, <4>2
    <3> QED
      BY <3>1, <3>2
  <2> QED
    BY <2>1, <2>2
<1>6. ASSUME exit = "ColumnOutOfRange" PROVE line = 1 /\ args.column >= file.header
  <2>1. line <= Len(Selected) /\ Trouble(Selected[line]) = "ColumnOutOfRange"
    BY <1>6 DEF SelectInv, Refusals
  <2>2. Len(Selected[line]) = Len(Selected[1]) /\ args.column >= Len(Selected[1])
    BY <2>1 DEF Trouble
  <2>3. Trouble(Selected[1]) # "none"
    BY <2>2 DEF Trouble
  <2>4. line = 1
    BY <1>1, <2>3
  <2>5. Len(Selected[1]) = file.header
    <3>1. CASE file.header = 0
      <4>1. Selected = << <<>> >>
        BY <1>1, <2>1, <3>1, <2>4 DEF Selected
      <4> QED
        BY <3>1, <4>1
    <3> QED
      BY <1>1, <3>1, TroubleOfRecord
  <2> QED
    BY <2>2, <2>4, <2>5
<1>7. ASSUME exit = "ReadRecord" PROVE line - 1 \in bad /\ \A i \in bad : line - 1 <= i
  <2>1. line <= Len(Selected) /\ Trouble(Selected[line]) = "ReadRecord"
    BY <1>7 DEF SelectInv, Refusals
  <2>2. line # 1
    BY <2>1 DEF Trouble
  <2>3. file.header # 0
    <3> SUFFICES ASSUME file.header = 0 PROVE FALSE
      OBVIOUS
    <3>1. Len(Selected) <= 1
      BY DEF Selected
    <3> QED
      BY <1>1, <2>1, <2>2, <3>1
  <2>4. /\ line - 1 \in 1..Len(file.records) /\ (line - 1) + 1 = line
    BY <1>1, <1>2, <2>1, <2>2, <2>3, TroubleOfRecord
  <2>5. line - 1 \in bad
    <3> DEFINE n == line - 1
    <3> HIDE DEF n
    <3>1. n \in 1..Len(file.records) /\ Trouble(Selected[n + 1]) = "ReadRecord"
      BY <2>1, <2>4 DEF n
    <3>2. n \in bad
      BY <1>1, <1>2, <2>3, <3>1, TroubleOfRecord
    <3> QED
      BY <3>2 DEF n
  <2>6. ASSUME NEW i \in bad PROVE line - 1 <= i
    <3> SUFFICES ASSUME i < line - 1 PROVE FALSE
      BY <1>1, <1>2
    <3>1. i \in 1..Len(file.records) /\ i + 1 \in 1..(line - 1)
      BY <1>1, <1>2
    <3>2. Trouble(Selected[i + 1]) = "none"
      BY <1>1, <3>1
    <3>3. Len(file.records[i]) = file.header
      BY <1>1, <2>3, <3>1, <3>2, TroubleOfRecord
    <3> QED
      BY <3>3
  <2> QED
    BY <2>5, <2>6
<1>8. exit = "none" => stdout \o buffered = column
  BY DEF SelectInv
<1> HIDE DEF bad, column
<1>9. /\ IsPrefix(stdout \o buffered, column)
      /\ exit = "none" => stdout \o buffered = column
      /\ exit = "success" => stdout = column /\ line = Len(Selected) + 1 /\ bad = {}
      /\ exit = "ColumnOutOfRange" => line = 1 /\ args.column >= file.header
      /\ exit = "ReadRecord" => line - 1 \in bad /\ \A i \in bad : line - 1 <= i
  BY <1>4, <1>5, <1>6, <1>7, <1>8
<1> QED
  BY <1>9 DEF SelectionIsTheColumn, bad, column, ColumnOf

\* Reading a file whole, in batches and for one of its columns (read_csv_rows,
\* produce_batches, select_and_write) gives the same records up to the first
\* that is bad, whatever the batch size: no batch is empty or too long, and no
\* reader goes past a record that another refuses.
THEOREM ReadersAreTrue == IngestionSpec => []EveryReaderIsTrue
<1>1. Entry => StreamInv /\ SelectInv
  <2> SUFFICES ASSUME Entry PROVE StreamInv /\ SelectInv
    OBVIOUS
  <2>1. file \in Files
    BY DEF Entry, Init
  <2>2. SelectInit \/ SelectIdle
    BY DEF Entry
  <2>3. args.column \in Nat /\ Unread
    <3>1. SelectIdle => args.column \in Nat /\ Unread
      BY DEF SelectIdle
    <3>2. SelectInit => args.column \in SelectColumns /\ Unread
      BY DEF SelectInit
    <3>3. args.column \in Nat
      BY <2>2, <3>1, <3>2, ColumnsAssumption, Zenon
    <3>4. Unread
      BY <2>2, <3>1, <3>2, Zenon
    <3> QED
      BY <3>3, <3>4
  <2> QED
    BY <2>1, <2>3, StreamInit, SelectStarts DEF Entry
<1>2. StreamInv /\ SelectInv /\ [Step]_<<vars, local, recordVars, taken, selectVars>>
        => (StreamInv /\ SelectInv)'
  BY StreamStep, SelectStep
<1>3. StreamInv /\ SelectInv => EveryReaderIsTrue
  BY StreamIsTrue, SelectIsTrue DEF EveryReaderIsTrue
<1> QED
  BY <1>1, <1>2, <1>3, PTL DEF IngestionSpec

-----------------------------------------------------------------------------
(* Folds of sequences *)

LEMMA MaxOfNaturals ==
    ASSUME NEW n \in Nat, NEW S, S \subseteq 1..n, S # {}
    PROVE  Max(S) \in S /\ \A j \in S : j <= Max(S)
<1> DEFINE T == {n - j : j \in S}
<1>1. T \subseteq Nat /\ T # {}
  <2>1. \A j \in S : n - j \in Nat
    OBVIOUS
  <2>2. PICK e \in S : TRUE
    OBVIOUS
  <2> QED
    BY <2>1, <2>2
<1>2. PICK t \in T : \A u \in T : t <= u
  BY <1>1, LeastExists
<1>3. PICK k \in S : t = n - k
  BY <1>2
<1>4. \A j \in S : n - k <= n - j
  BY <1>2, <1>3
<1>5. \A j \in S : k >= j
  BY <1>4
<1>6. \E x \in S : \A y \in S : x >= y
  BY <1>5
<1>7. Max(S) \in S /\ \A j \in S : Max(S) >= j
  BY <1>6 DEF Max
<1> QED
  BY <1>7

LEMMA MaxOfInterval ==
    ASSUME NEW k \in Nat, NEW S, S \subseteq 1..(k + 1), k + 1 \in S
    PROVE  Max(S) = k + 1
<1>1. k + 1 \in Nat /\ S # {}
  OBVIOUS
<1> DEFINE m == Max(S)
<1>2. m \in S /\ \A j \in S : j <= m
  BY <1>1, MaxOfNaturals
<1> HIDE DEF m
<1>3. m \in 1..(k + 1) /\ k + 1 <= m
  BY <1>2
<1>4. m = k + 1
  BY <1>3
<1> QED
  BY <1>4 DEF m

(* A fold that takes the largest index first exists: it is built up from   *)
(* the sets of smaller indices.                                            *)
FoldsFrom(n, base, op, g) ==
    \A s \in SUBSET (1..n) :
        g[s] = IF s = {} THEN base ELSE op[<<Max(s), g[s \ {Max(s)}]>>]

LEMMA FoldGrows ==
    ASSUME NEW A, NEW base \in A, NEW m \in Nat, NEW n \in Nat, m + 1 <= n,
           NEW op \in [(1..n) \X A -> A],
           NEW g \in [SUBSET (1..m) -> A], FoldsFrom(m, base, op, g)
    PROVE  \E h \in [SUBSET (1..(m + 1)) -> A] : FoldsFrom(m + 1, base, op, h)
<1> DEFINE k == m + 1
           h == [s \in SUBSET (1..k) |->
                    IF k \in s THEN op[<<k, g[s \ {k}]>>] ELSE g[s]]
<1>1. k \in Nat /\ k \in 1..n
  OBVIOUS
<1>2. \A s \in SUBSET (1..k) : s \ {k} \in SUBSET (1..m) /\ (k \notin s => s \ {k} = s)
  OBVIOUS
<1>3. \A s \in SUBSET (1..k) : k \in s => Max(s) = k
  BY MaxOfInterval
<1>4. \A s \in SUBSET (1..k) : k \notin s /\ s # {} => Max(s) \in s /\ Max(s) # k
  BY <1>1, MaxOfNaturals
<1> HIDE DEF k
<1>5. h \in [SUBSET (1..k) -> A]
  <2> SUFFICES ASSUME NEW s \in SUBSET (1..k)
               PROVE  (IF k \in s THEN op[<<k, g[s \ {k}]>>] ELSE g[s]) \in A
    OBVIOUS
  <2>1. g[s \ {k}] \in A /\ (k \notin s => g[s] \in A)
    BY <1>2
  <2>2. <<k, g[s \ {k}]>> \in (1..n) \X A
    BY <1>1, <2>1
  <2>3. op[<<k, g[s \ {k}]>>] \in A
    BY <2>2
  <2> QED
    BY <2>1, <2>3
<1>6. ASSUME NEW s \in SUBSET (1..k)
      PROVE  h[s] = IF s = {} THEN base ELSE op[<<Max(s), h[s \ {Max(s)}]>>]
  <2>1. CASE k \in s
    <3>1. Max(s) = k /\ s # {} /\ s \ {k} \in SUBSET (1..m) /\ k \notin s \ {k}
      BY <1>2, <1>3, <2>1
    <3>2. s \ {k} \in SUBSET (1..k)
      OBVIOUS
    <3>3. h[s \ {k}] = g[s \ {k}]
      BY <3>1, <3>2
    <3>4. h[s] = op[<<k, g[s \ {k}]>>]
      BY <2>1
    <3> HIDE DEF h
    <3> QED
      BY <3>1, <3>3, <3>4
  <2>2. CASE k \notin s
    <3>1. s \in SUBSET (1..m)
      BY <1>2, <2>2
    <3>2. h[s] = g[s]
      BY <2>2
    <3>3. g[s] = IF s = {} THEN base ELSE op[<<Max(s), g[s \ {Max(s)}]>>]
      BY <3>1 DEF FoldsFrom
    <3>4. h[s \ {Max(s)}] = g[s \ {Max(s)}]
      BY <2>2
    <3> HIDE DEF h
    <3> QED
      BY <3>2, <3>3, <3>4
  <2> QED
    BY <2>1, <2>2
<1> HIDE DEF h
<1>7. FoldsFrom(k, base, op, h)
  BY <1>6 DEF FoldsFrom
<1> QED
  BY <1>5, <1>7 DEF k

LEMMA FoldExists ==
    ASSUME NEW A, NEW base \in A, NEW n \in Nat, NEW op \in [(1..n) \X A -> A]
    PROVE  \E g \in [SUBSET (1..n) -> A] : FoldsFrom(n, base, op, g)
<1> DEFINE Built(m) == \E g \in [SUBSET (1..m) -> A] : FoldsFrom(m, base, op, g)
           S == {m \in Nat : m > n \/ Built(m)}
<1>1. 0 \in S
  <2> DEFINE g == [s \in SUBSET (1..0) |-> base]
  <2>1. g \in [SUBSET (1..0) -> A] /\ \A s \in SUBSET (1..0) : s = {} /\ g[s] = base
    OBVIOUS
  <2> HIDE DEF g
  <2>2. FoldsFrom(0, base, op, g)
    BY <2>1 DEF FoldsFrom
  <2>3. Built(0)
    BY <2>1, <2>2
  <2> HIDE DEF Built
  <2> QED
    BY <2>3
<1>2. ASSUME NEW m \in Nat, m \in S PROVE m + 1 \in S
  <2>1. CASE m + 1 > n
    BY <2>1
  <2>2. CASE m + 1 <= n
    <3>1. Built(m)
      <4> HIDE DEF Built
      <4> QED
        BY <1>2, <2>2
    <3>2. Built(m + 1)
      BY <2>2, <3>1, FoldGrows
    <3> HIDE DEF Built
    <3> QED
      BY <3>2
  <2> HIDE DEF S
  <2> QED
    BY <2>1, <2>2
<1> HIDE DEF S
<1>3. n \in S
  BY <1>1, <1>2, NatSetInduction
<1>4. Built(n)
  <2> HIDE DEF Built
  <2> QED
    BY <1>3 DEF S
<1> QED
  BY <1>4

(* Whatever satisfies the equation takes the indices one after the other.  *)
IsFold(A, base, n, op, g) ==
    /\ base \in A /\ n \in Nat /\ op \in [(1..n) \X A -> A]
    /\ g[{}] = base
    /\ \A s \in SUBSET (1..n) :
          s # {} /\ g[s \ {Max(s)}] \in A => g[s] = op[<<Max(s), g[s \ {Max(s)}]>>]

\* u goes from base to the result, an index at a time.
Takes(A, base, n, op, result, u) ==
    /\ u \in [0..n -> A] /\ u[0] = base /\ result = u[n]
    /\ \A k \in 0..(n - 1) : u[k + 1] = op[<<k + 1, u[k]>>]

LEMMA FoldTakes ==
    ASSUME NEW A, NEW base, NEW n, NEW op, NEW g, IsFold(A, base, n, op, g)
    PROVE  \E u : Takes(A, base, n, op, g[1..n], u)
<1> USE DEF IsFold
<1>1. \A k \in 0..(n - 1) : /\ g[1..k] \in A => g[1..(k + 1)] = op[<<k + 1, g[1..k]>>]
                            /\ \A a \in A : op[<<k + 1, a>>] \in A
  <2> SUFFICES ASSUME NEW k \in 0..(n - 1)
               PROVE  /\ g[1..k] \in A => g[1..(k + 1)] = op[<<k + 1, g[1..k]>>]
                      /\ \A a \in A : op[<<k + 1, a>>] \in A
    OBVIOUS
  <2> DEFINE s == 1..(k + 1)
  <2>1. k \in Nat /\ k + 1 \in s /\ s \in SUBSET (1..n) /\ k + 1 \in 1..n
    OBVIOUS
  <2>2. Max(s) = k + 1
    BY <2>1, MaxOfInterval
  <2>3. s \ {k + 1} = 1..k
    BY <2>1
  <2> HIDE DEF s
  <2>4. g[1..k] \in A => g[s] = op[<<k + 1, g[1..k]>>]
    BY <2>1, <2>2, <2>3
  <2>5. \A a \in A : <<k + 1, a>> \in (1..n) \X A
    BY <2>1
  <2> QED
    BY <2>4, <2>5 DEF s
<1>2. 1..0 = {}
  OBVIOUS
<1> DEFINE S == {k \in Nat : k > n \/ g[1..k] \in A}
<1>3. \A k \in Nat : k \in S
  <2>1. 0 \in S
    BY <1>2
  <2>2. ASSUME NEW k \in Nat, k \in S PROVE k + 1 \in S
    <3>1. CASE k + 1 > n
      BY <3>1
    <3>2. CASE k + 1 <= n
      <4>1. k \in 0..(n - 1) /\ g[1..k] \in A
        BY <2>2, <3>2
      <4>2. g[1..(k + 1)] \in A
        BY <1>1, <4>1
      <4> QED
        BY <4>2
    <3> QED
      BY <3>1, <3>2
  <2> HIDE DEF S
  <2> QED
    BY <2>1, <2>2, NatSetInduction
<1>4. \A k \in 0..n : g[1..k] \in A
  BY <1>3
<1> DEFINE u == [k \in 0..n |-> g[1..k]]
<1>5. u \in [0..n -> A] /\ \A k \in 0..n : u[k] = g[1..k]
  BY <1>4
<1> HIDE DEF u, S
<1>6. 0 \in 0..n /\ n \in 0..n /\ \A k \in 0..(n - 1) : k \in 0..n /\ k + 1 \in 0..n
  OBVIOUS
<1>7. u[0] = base /\ g[1..n] = u[n]
  BY <1>2, <1>5, <1>6
<1>8. \A k \in 0..(n - 1) : u[k + 1] = op[<<k + 1, u[k]>>]
  BY <1>1, <1>4, <1>5, <1>6
<1> QED
  BY <1>5, <1>7, <1>8 DEF Takes

-----------------------------------------------------------------------------
(* What a numeral says *)

LEMMA DigitsAreAFold ==
    ASSUME NEW ds \in Seq(Int)
    PROVE  \E u \in [0..Len(ds) -> Int] :
              /\ u[0] = 0
              /\ \A k \in 0..(Len(ds) - 1) : u[k + 1] = 10 * u[k] + ds[k + 1]
              /\ Digits(ds) = u[Len(ds)]
<1> DEFINE n == Len(ds)
           G(g) == g = [s \in SUBSET DOMAIN ds |->
                           IF s = {} THEN 0 ELSE 10 * g[s \ {Max(s)}] + ds[Max(s)]]
           op == [p \in (1..n) \X Int |-> 10 * p[2] + ds[p[1]]]
<1>1. DOMAIN ds = 1..n /\ n \in Nat /\ 0 \in Int /\ \A i \in 1..n : ds[i] \in Int
  OBVIOUS
<1>2. Digits(ds) = (CHOOSE g : G(g))[DOMAIN ds]
  BY DEF Digits, FoldLeft, MapThenFoldSet
<1>3. op \in [(1..n) \X Int -> Int]
  BY <1>1
<1>4. \A i \in 1..n, a \in Int : op[<<i, a>>] = 10 * a + ds[i]
  OBVIOUS
<1>5. PICK h \in [SUBSET (1..n) -> Int] : FoldsFrom(n, 0, op, h)
  <2> HIDE DEF op, n
  <2> QED
    BY <1>1, <1>3, FoldExists, Zenon
<1>6. \A s \in SUBSET (1..n) :
         s # {} => Max(s) \in 1..n /\ s \ {Max(s)} \in SUBSET (1..n)
  BY <1>1, MaxOfNaturals
<1>7. \A s \in SUBSET (1..n) :
         h[s] = IF s = {} THEN 0 ELSE 10 * h[s \ {Max(s)}] + ds[Max(s)]
  <2> HIDE DEF op, n
  <2> QED
    BY <1>4, <1>5, <1>6 DEF FoldsFrom
<1>8. G(h)
  <2> HIDE DEF op, n
  <2>1. h = [s \in SUBSET (1..n) |-> h[s]]
    BY <1>5
  <2>2. [s \in SUBSET (1..n) |-> h[s]]
          = [s \in SUBSET (1..n) |->
                IF s = {} THEN 0 ELSE 10 * h[s \ {Max(s)}] + ds[Max(s)]]
    BY <1>7, Zenon
  <2> QED
    BY <1>1, <2>1, <2>2, Zenon
<1> DEFINE g == CHOOSE g : G(g)
<1>9. G(g)
  <2> HIDE DEF G
  <2> QED
    BY <1>8
<1>10. \A s \in SUBSET (1..n) :
          g[s] = IF s = {} THEN 0 ELSE 10 * g[s \ {Max(s)}] + ds[Max(s)]
  <2> HIDE DEF g
  <2>1. g = [s \in SUBSET (1..n) |->
                IF s = {} THEN 0 ELSE 10 * g[s \ {Max(s)}] + ds[Max(s)]]
    BY <1>1, <1>9, Zenon
  <2> HIDE DEF n, G
  <2> QED
    BY <2>1, Zenon
<1>11. Digits(ds) = g[1..n]
  BY <1>1, <1>2
<1> HIDE DEF g, op, n, G
<1>12. {} \in SUBSET (1..n)
  OBVIOUS
<1>13. IsFold(Int, 0, n, op, g)
  BY <1>1, <1>3, <1>4, <1>6, <1>10, <1>12 DEF IsFold
<1>14. PICK u : Takes(Int, 0, n, op, g[1..n], u)
  BY <1>13, FoldTakes
<1>15. \A k \in 0..(n - 1) : u[k + 1] = 10 * u[k] + ds[k + 1]
  <2>1. \A k \in 0..(n - 1) : k + 1 \in 1..n /\ u[k] \in Int
    BY <1>1, <1>14 DEF Takes
  <2> QED
    BY <1>4, <1>14, <2>1 DEF Takes
<1> QED
  BY <1>11, <1>14, <1>15 DEF n, Takes

LEMMA DigitsOfHundredths ==
    ASSUME NEW w \in Seq(Int), NEW f \in Seq(Int), Len(f) = 2
    PROVE  /\ Digits(w) \in Int /\ Digits(f) \in Int
           /\ Digits(w \o f) = 100 * Digits(w) + Digits(f)
<1> DEFINE n == Len(w)
           all == w \o f
<1>1. n \in Nat
  OBVIOUS
<1>2. /\ all \in Seq(Int) /\ Len(all) = n + 2
      /\ \A i \in 1..(n + 2) : all[i] = IF i <= n THEN w[i] ELSE f[i - n]
  <2>1. /\ all \in Seq(Int) /\ Len(all) = n + Len(f)
        /\ \A i \in 1..(n + Len(f)) : all[i] = IF i <= n THEN w[i] ELSE f[i - n]
    BY ConcatProperties
  <2> QED
    BY <2>1, Zenon
<1> HIDE DEF all, n
<1>3. /\ \A i \in 1..n : all[i] = w[i]
      /\ all[n + 1] = f[1] /\ all[n + 2] = f[2]
  <2>1. \A i \in 1..n : all[i] = w[i]
    BY <1>1, <1>2
  <2>2. \A i, j : i \in 1..(n + 2) /\ ~(i <= n) /\ i - n = j => all[i] = f[j]
    BY <1>2
  <2>3. /\ n + 1 \in 1..(n + 2) /\ ~(n + 1 <= n) /\ (n + 1) - n = 1
        /\ n + 2 \in 1..(n + 2) /\ ~(n + 2 <= n) /\ (n + 2) - n = 2
    BY <1>1
  <2> QED
    BY <2>1, <2>2, <2>3
<1>4. f[1] \in Int /\ f[2] \in Int
  <2>1. 1 \in 1..Len(f) /\ 2 \in 1..Len(f)
    OBVIOUS
  <2> QED
    BY <2>1, ElementOfSeq, Zenon
<1>5. PICK u \in [0..n -> Int] :
         /\ u[0] = 0
         /\ \A k \in 0..(n - 1) : u[k + 1] = 10 * u[k] + w[k + 1]
         /\ Digits(w) = u[n]
  BY DigitsAreAFold DEF n
<1>6. PICK v \in [0..2 -> Int] :
         /\ v[0] = 0
         /\ \A k \in 0..(2 - 1) : v[k + 1] = 10 * v[k] + f[k + 1]
         /\ Digits(f) = v[2]
  BY DigitsAreAFold
<1>7. PICK t \in [0..(n + 2) -> Int] :
         /\ t[0] = 0
         /\ \A k \in 0..((n + 2) - 1) : t[k + 1] = 10 * t[k] + all[k + 1]
         /\ Digits(all) = t[n + 2]
  <2> DEFINE m == Len(all)
  <2>1. \E t \in [0..m -> Int] : /\ t[0] = 0
                                 /\ \A k \in 0..(m - 1) : t[k + 1] = 10 * t[k] + all[k + 1]
                                 /\ Digits(all) = t[m]
    BY <1>2, DigitsAreAFold
  <2>2. m = n + 2
    BY <1>2
  <2> QED
    BY <2>1, <2>2, Zenon
<1> DEFINE S == {k \in Nat : k > n \/ t[k] = u[k]}
<1>8. n \in S
  <2>1. 0 \in S
    BY <1>5, <1>7
  <2>2. ASSUME NEW k \in Nat, k \in S PROVE k + 1 \in S
    <3>1. CASE k + 1 > n
      BY <3>1
    <3>2. CASE k + 1 <= n
      <4>1. k \in 0..(n - 1) /\ t[k] = u[k] /\ k \in 0..((n + 2) - 1) /\ k + 1 \in 1..n
        BY <1>1, <2>2, <3>2
      <4>2. t[k + 1] = 10 * t[k] + all[k + 1] /\ u[k + 1] = 10 * u[k] + w[k + 1]
        BY <1>5, <1>7, <4>1
      <4>3. t[k + 1] = u[k + 1]
        BY <1>3, <4>1, <4>2
      <4> QED
        BY <4>3
    <3> QED
      BY <1>1, <3>1, <3>2
  <2> HIDE DEF S
  <2> QED
    BY <1>1, <2>1, <2>2, NatSetInduction
<1>9. t[n] = u[n] /\ t[n] \in Int
  BY <1>1, <1>7, <1>8
<1>10. t[n + 1] = 10 * t[n] + f[1] /\ t[(n + 1) + 1] = 10 * t[n + 1] + all[(n + 1) + 1]
  <2>1. n \in 0..((n + 2) - 1) /\ n + 1 \in 0..((n + 2) - 1)
    BY <1>1
  <2> QED
    BY <1>3, <1>7, <2>1
<1>11. t[n + 2] = 10 * t[n + 1] + f[2]
  <2>1. (n + 1) + 1 = n + 2
    BY <1>1
  <2> QED
    BY <1>3, <1>10, <2>1
<1>12. v[0 + 1] = 10 * v[0] + f[0 + 1] /\ v[1 + 1] = 10 * v[1] + f[1 + 1]
  <2>1. 0 \in 0..(2 - 1) /\ 1 \in 0..(2 - 1)
    OBVIOUS
  <2> QED
    BY <1>6, <2>1
<1>13. v[1] = f[1] /\ v[2] = 10 * f[1] + f[2]
  BY <1>4, <1>6, <1>12
<1>14. t[n + 2] = 100 * t[n] + (10 * f[1] + f[2])
  BY <1>4, <1>9, <1>10, <1>11
<1>15. Digits(w) \in Int /\ Digits(f) \in Int
  <2>1. u[n] \in Int /\ v[2] \in Int
    BY <1>1, <1>5, <1>6
  <2> QED
    BY <1>5, <1>6, <2>1
<1> QED
  BY <1>5, <1>6, <1>7, <1>9, <1>13, <1>14, <1>15 DEF all

LEMMA CellKinds ==
    ASSUME NEW cells \in Seq(Cells), NEW i
    PROVE  LET c == Cell(cells, i)
           IN  \/ "text" \in DOMAIN c /\ "whole" \notin DOMAIN c
               \/ /\ "whole" \in DOMAIN c /\ c.sign \in {"", "-", "+"}
                  /\ c.whole \in Seq(0..9) /\ c.frac \in Seq(0..9) /\ c.point \in BOOLEAN
<1> DEFINE c == Cell(cells, i)
           Kind(x) == \/ "text" \in DOMAIN x /\ "whole" \notin DOMAIN x
                      \/ /\ "whole" \in DOMAIN x /\ x.sign \in {"", "-", "+"}
                         /\ x.whole \in Seq(0..9) /\ x.frac \in Seq(0..9) /\ x.point \in BOOLEAN
<1>1. \A x \in Cells : Kind(x)
  <2>1. \A x \in [text : STRING] : DOMAIN x = {"text"}
    OBVIOUS
  <2>2. \A x \in [sign : {"", "-", "+"}, whole : Seq(0..9), point : BOOLEAN, frac : Seq(0..9)] :
           /\ "whole" \in DOMAIN x /\ x.sign \in {"", "-", "+"}
           /\ x.whole \in Seq(0..9) /\ x.frac \in Seq(0..9) /\ x.point \in BOOLEAN
    OBVIOUS
  <2> QED
    BY <2>1, <2>2 DEF Cells
<1>2. Kind(Text(""))
  BY DEF Text
<1>3. c \in Cells \/ c = Text("")
  <2>1. \A k \in DOMAIN cells : cells[k] \in Cells
    OBVIOUS
  <2> QED
    BY <2>1, Zenon DEF Cell
<1> HIDE DEF Kind, c
<1>4. Kind(c)
  BY <1>1, <1>2, <1>3
<1> QED
  BY <1>4 DEF Kind, c

SignOf(c) == IF c.sign = "-" THEN -1 ELSE 1
AmountOf(c) == SignOf(c) * Digits(c.whole \o c.frac)

LEMMA AmountIsExact ==
    ASSUME NEW cells \in Seq(Cells), NEW i
    PROVE  LET c == Cell(cells, i)
               r == ParseAmount(c)
           IN  /\ r.ok = TRUE => r.value = AmountOf(c) /\ AmountOf(c) \in -AmountLimit..AmountLimit
               /\ r.ok = FALSE => \/ "text" \in DOMAIN c \/ ~c.point \/ c.whole = <<>>
                                  \/ Len(c.frac) # 2 \/ AmountOf(c) \notin -AmountLimit..AmountLimit
<1> DEFINE c == Cell(cells, i)
           r == ParseAmount(c)
<1>1. \/ "text" \in DOMAIN c /\ "whole" \notin DOMAIN c
      \/ /\ "whole" \in DOMAIN c /\ c.sign \in {"", "-", "+"}
         /\ c.whole \in Seq(0..9) /\ c.frac \in Seq(0..9) /\ c.point \in BOOLEAN
  BY CellKinds
<1>2. (\A v : Parsed(v).ok = TRUE /\ Parsed(v).value = v) /\ \A e : Failed(e).ok = FALSE
  BY DEF Parsed, Failed
<1> DEFINE Written == "whole" \in DOMAIN c /\ c.point /\ c.whole # <<>> /\ Len(c.frac) = 2
           amount == 100 * (SignOf(c) * Digits(c.whole)) + SignOf(c) * Digits(c.frac)
<1>3. r = IF ~Written THEN Failed("InvalidAmount")
          ELSE IF amount \in -AmountLimit..AmountLimit THEN Parsed(amount)
               ELSE Failed("InvalidAmount")
  BY DEF ParseAmount, SignOf
<1> HIDE DEF c, r
<1>4. ASSUME Written PROVE amount = AmountOf(c)
  <2>1. c.whole \in Seq(Int) /\ c.frac \in Seq(Int) /\ Len(c.frac) = 2
    <3>1. 0..9 \subseteq Int
      OBVIOUS
    <3>2. c.whole \in Seq(0..9) /\ c.frac \in Seq(0..9) /\ Len(c.frac) = 2
      BY <1>1, <1>4
    <3> QED
      BY <3>1, <3>2, SeqMonotonic, Zenon
  <2>2. /\ Digits(c.whole) \in Int /\ Digits(c.frac) \in Int
        /\ Digits(c.whole \o c.frac) = 100 * Digits(c.whole) + Digits(c.frac)
    BY <2>1, DigitsOfHundredths
  <2>3. \A a, b \in Int : /\ 100 * (1 * a) + 1 * b = 1 * (100 * a + b)
                         /\ 100 * ((-1) * a) + (-1) * b = (-1) * (100 * a + b)
    OBVIOUS
  <2>4. SignOf(c) = 1 \/ SignOf(c) = -1
    BY DEF SignOf
  <2>5. amount = SignOf(c) * Digits(c.whole \o c.frac)
    BY <2>2, <2>3, <2>4
  <2> QED
    BY <2>5 DEF AmountOf
<1> HIDE DEF amount, Written
<1>5. r.ok = TRUE => r.value = AmountOf(c) /\ AmountOf(c) \in -AmountLimit..AmountLimit
  BY <1>2, <1>3, <1>4
<1>6. r.ok = FALSE => ~Written \/ AmountOf(c) \notin -AmountLimit..AmountLimit
  BY <1>2, <1>3, <1>4
<1>7. ~Written => "text" \in DOMAIN c \/ ~c.point \/ c.whole = <<>> \/ Len(c.frac) # 2
  BY <1>1 DEF Written
<1> QED
  BY <1>5, <1>6, <1>7 DEF c, r

LEMMA AmountOfOrder ==
    ASSUME NEW f \in Files, f.table = "orders", NEW cells \in Seq(Cells)
    PROVE  LET row == ParseRecord(f, cells)
               c == Cell(cells, 2)
           IN  /\ row.ok = TRUE => /\ row.value[2] = AmountOf(c)
                                   /\ AmountOf(c) \in -AmountLimit..AmountLimit
               /\ row.ok = FALSE /\ row.error = "InvalidAmount" =>
                     \/ "text" \in DOMAIN c \/ ~c.point \/ c.whole = <<>>
                     \/ Len(c.frac) # 2 \/ AmountOf(c) \notin -AmountLimit..AmountLimit
<1> DEFINE row == ParseRecord(f, cells)
           c == Cell(cells, 2)
           results == <<ParseId(cells), ParseAmount(Cell(cells, 2)),
                        ParseTimestamp(Cell(cells, 3)), Parsed(NoteOf(Cell(cells, 4)))>>
<1>1. (\A v : Parsed(v).ok = TRUE) /\ \A e : Failed(e).ok = FALSE /\ Failed(e).error = e
  BY DEF Parsed, Failed
<1>2. CASE Len(cells) # f.header
  BY <1>1, <1>2 DEF ParseRecord
<1>3. CASE Len(cells) = f.header
  <2>1. row = RowOf(results)
    BY <1>3 DEF ParseRecord, ParseOrderRow
  <2>2. DOMAIN results = 1..4 /\ results[1] = ParseId(cells) /\ results[2] = ParseAmount(c)
        /\ results[3] = ParseTimestamp(Cell(cells, 3))
        /\ results[4] = Parsed(NoteOf(Cell(cells, 4)))
    OBVIOUS
  <2> HIDE DEF results, c, row
  <2>3. \A e, s, t : s \subseteq t /\ IsResult(e, s) => IsResult(e, t)
    BY DEF IsResult
  <2>4. /\ IsResult(results[1], {"InvalidId"}) /\ IsResult(results[2], {"InvalidAmount"})
        /\ IsResult(results[3], {"InvalidTimestamp"}) /\ IsResult(results[4], {})
    BY <2>2, ResultOfCell
  <2>5. /\ IsResult(results[1], CellErrors) /\ IsResult(results[2], CellErrors)
        /\ IsResult(results[3], CellErrors) /\ IsResult(results[4], CellErrors)
    BY <2>3, <2>4 DEF CellErrors
  <2>6. \A i \in 1..4 : i = 1 \/ i = 2 \/ i = 3 \/ i = 4
    OBVIOUS
  <2>7. \A i \in 1..4 : IsResult(results[i], CellErrors)
    BY <2>5, <2>6
  <2>8. /\ row.ok => /\ \A i \in 1..4 : results[i].ok
                     /\ row.value = [i \in 1..4 |-> results[i].value]
        /\ ~row.ok => \E i \in 1..4 : ~results[i].ok /\ row = results[i]
    BY <2>1, <2>2, <2>7, ResultOfRow
  <2>9. row.ok = TRUE => ParseAmount(c).ok = TRUE /\ row.value[2] = ParseAmount(c).value
    <3> SUFFICES ASSUME row.ok = TRUE
                 PROVE  ParseAmount(c).ok = TRUE /\ row.value[2] = ParseAmount(c).value
      OBVIOUS
    <3>1. results[2].ok /\ row.value = [i \in 1..4 |-> results[i].value]
      BY <2>8
    <3>2. row.value[2] = results[2].value
      BY <3>1
    <3>3. results[2].ok = TRUE
      BY <2>4, <3>1 DEF IsResult
    <3> QED
      BY <2>2, <3>2, <3>3
  <2>10. row.ok = FALSE /\ row.error = "InvalidAmount" => ParseAmount(c).ok = FALSE
    <3> SUFFICES ASSUME row.ok = FALSE, row.error = "InvalidAmount"
                 PROVE  ParseAmount(c).ok = FALSE
      OBVIOUS
    <3>1. PICK i \in 1..4 : ~results[i].ok /\ row = results[i]
      BY <2>8
    <3>2. i = 2
      BY <2>4, <2>6, <3>1 DEF IsResult
    <3> QED
      BY <2>2, <3>1, <3>2
  <2>11. /\ ParseAmount(c).ok = TRUE =>
              ParseAmount(c).value = AmountOf(c) /\ AmountOf(c) \in -AmountLimit..AmountLimit
         /\ ParseAmount(c).ok = FALSE =>
              \/ "text" \in DOMAIN c \/ ~c.point \/ c.whole = <<>>
              \/ Len(c.frac) # 2 \/ AmountOf(c) \notin -AmountLimit..AmountLimit
    BY AmountIsExact DEF c
  <2> QED
    BY <2>9, <2>10, <2>11 DEF row, c
<1> QED
  BY <1>2, <1>3

\* The amount of every order read (parse_order_row, parse_amount) is the number of
\* hundredths its text writes, with the text's sign, and within the decimal's
\* bounds; a well-formed one that fits is never refused.
THEOREM AmountsAreKept == IngestionSpec => []AmountsAreExact
<1>1. Entry => StreamInv
  BY StreamInit DEF Entry
<1>2. StreamInv /\ [Step]_<<vars, local, recordVars, taken, selectVars>> => StreamInv'
  BY StreamStep
<1>3. StreamInv => AmountsAreExact
  <2> SUFFICES ASSUME StreamInv, file.table = "orders" PROVE AmountsAreExact
    BY DEF AmountsAreExact
  <2> DEFINE cell(i) == Cell(file.records[i], 2)
             value(i) == (IF cell(i).sign = "-" THEN -1 ELSE 1)
                         * Digits(cell(i).whole \o cell(i).frac)
             fits(i) == value(i) \in -AmountLimit..AmountLimit
  <2>1. /\ file \in Files /\ Len(file.records) \in Nat /\ at \in 1..(Len(file.records) + 1)
        /\ \A i \in 1..Len(file.records) : file.records[i] \in Seq(Cells)
    BY FileFields DEF StreamInv
  <2>2. \A i : AmountOf(cell(i)) = value(i)
    BY DEF AmountOf, SignOf
  <2>3. \A i \in 1..Len(file.records) :
           /\ RowAt(file, i).ok = TRUE => RowAt(file, i).value[2] = value(i) /\ fits(i)
           /\ RowAt(file, i).ok = FALSE /\ RowAt(file, i).error = "InvalidAmount" =>
                "text" \in DOMAIN cell(i) \/ ~cell(i).point \/ cell(i).whole = <<>>
                \/ Len(cell(i).frac) # 2 \/ ~fits(i)
    <3> SUFFICES ASSUME NEW i \in 1..Len(file.records)
                 PROVE
           /\ RowAt(file, i).ok = TRUE => RowAt(file, i).value[2] = value(i) /\ fits(i)
           /\ RowAt(file, i).ok = FALSE /\ RowAt(file, i).error = "InvalidAmount" =>
                "text" \in DOMAIN cell(i) \/ ~cell(i).point \/ cell(i).whole = <<>>
                \/ Len(cell(i).frac) # 2 \/ ~fits(i)
      OBVIOUS
    <3>1. value(i) = AmountOf(cell(i))
      BY <2>2
    <3> DEFINE c == cell(i)
               v == value(i)
               cells == file.records[i]
    <3>2. c = Cell(cells, 2) /\ cells \in Seq(Cells) /\ RowAt(file, i) = ParseRecord(file, cells)
      BY <2>1 DEF RowAt
    <3> HIDE DEF c, v, cells
    <3>3. /\ RowAt(file, i).ok = TRUE => /\ RowAt(file, i).value[2] = AmountOf(c)
                                         /\ AmountOf(c) \in -AmountLimit..AmountLimit
          /\ RowAt(file, i).ok = FALSE /\ RowAt(file, i).error = "InvalidAmount" =>
                "text" \in DOMAIN c \/ ~c.point \/ c.whole = <<>>
                \/ Len(c.frac) # 2 \/ AmountOf(c) \notin -AmountLimit..AmountLimit
      BY <2>1, <3>2, AmountOfOrder
    <3> QED
      BY <3>1, <3>3 DEF c
  <2> HIDE DEF value, cell
  <2>4. \A i \in 1..(at - 1) : rows[i][2] = value(i) /\ fits(i)
    <3> SUFFICES ASSUME NEW i \in 1..(at - 1) PROVE rows[i][2] = value(i) /\ fits(i)
      OBVIOUS
    <3>1. rows = Whole(file, at - 1) /\ RowAt(file, i).ok = TRUE
      BY DEF StreamInv
    <3>2. rows[i] = RowAt(file, i).value
      BY <3>1 DEF Whole
    <3>3. i \in 1..Len(file.records)
      BY <2>1
    <3> QED
      BY <2>3, <3>1, <3>2, <3>3
  <2>5. ASSUME outcome.done, ~outcome.ok, outcome.error = "InvalidAmount"
        PROVE  "text" \in DOMAIN cell(at) \/ ~cell(at).point \/ cell(at).whole = <<>>
               \/ Len(cell(at).frac) # 2 \/ ~fits(at)
    <3>1. Stopped
      BY <2>5 DEF StreamInv, Reading, Ended
    <3>2. /\ at \in 1..Len(file.records) /\ RowAt(file, at).ok = FALSE
          /\ RowAt(file, at).error = "InvalidAmount"
      BY <2>1, <2>5, <3>1 DEF Stopped
    <3> QED
      BY <2>3, <3>2
  <2> QED
    BY <2>4, <2>5 DEF AmountsAreExact, value, cell
<1> QED
  BY <1>1, <1>2, <1>3, PTL DEF IngestionSpec

-----------------------------------------------------------------------------
(* What the contract's check answers *)

IsSequence(s) == s \in Seq({s[i] : i \in DOMAIN s})

LEMMA LengthOfSequence ==
    ASSUME NEW s, IsSequence(s)
    PROVE  Len(s) \in Nat /\ DOMAIN s = 1..Len(s)
BY DEF IsSequence

LEMMA ContractFields ==
    /\ IsSequence(Local!IngestFields)
    /\ Len(Local!IngestFields) = 3 /\ DOMAIN Local!IngestFields = 1..3
    /\ \A i \in 1..3 : /\ Local!IngestFields[i].nullable \in BOOLEAN
                       /\ Local!IngestFields[i].concrete
                       /\ ~Local!IngestFields[i].nulls
<1>1. Len(Local!IngestFields) = 3 /\ DOMAIN Local!IngestFields = 1..3
  BY DEF Local!IngestFields
<1>2. /\ Local!IngestFields[1] = Local!Column("id", "Int64", FALSE)
      /\ Local!IngestFields[2] = Local!Column("name", "Utf8", FALSE)
      /\ Local!IngestFields[3] = Local!Column("note", "Utf8", TRUE)
  BY DEF Local!IngestFields
<1>3. \A f \in {Local!IngestFields[1], Local!IngestFields[2], Local!IngestFields[3]} :
        f.nullable \in BOOLEAN /\ f.concrete = TRUE /\ f.nulls = FALSE
  <2>1. \A name, type : \A nullable \in BOOLEAN :
          LET f == Local!Column(name, type, nullable)
          IN  f.nullable = nullable /\ f.concrete = TRUE /\ f.nulls = FALSE
    BY DEF Local!Column
  <2> QED
    BY <1>2, <2>1
<1>4. \A i \in 1..3 : i = 1 \/ i = 2 \/ i = 3
  OBVIOUS
<1>5. \A i \in 1..3 :
        /\ Local!IngestFields[i].nullable \in BOOLEAN
        /\ Local!IngestFields[i].concrete = TRUE
        /\ Local!IngestFields[i].nulls = FALSE
  BY <1>3, <1>4
<1>6. IsSequence(Local!IngestFields)
  <2> DEFINE S == {Local!IngestFields[j] : j \in DOMAIN Local!IngestFields}
  <2>1. Local!IngestFields[1] \in S /\ Local!IngestFields[2] \in S /\ Local!IngestFields[3] \in S
    BY <1>1
  <2>2. Local!IngestFields =
          <<Local!IngestFields[1], Local!IngestFields[2], Local!IngestFields[3]>>
    BY DEF Local!IngestFields
  <2> HIDE DEF S
  <2>3. \A a, b, c \in S : <<a, b, c>> \in Seq(S)
    OBVIOUS
  <2>4. Local!IngestFields \in Seq(S)
    BY <2>1, <2>2, <2>3, Zenon
  <2> QED
    BY <2>4 DEF S, IsSequence
<1> QED
  BY <1>1, <1>5, <1>6

LEMMA SingletonSequence ==
    ASSUME NEW e
    PROVE  Len(<<e>>) = 1 /\ DOMAIN <<e>> = {1} /\ <<e>>[1] = e
OBVIOUS

LEMMA AnswerOfRead ==
    ASSUME NEW r, NEW c, NEW n,
           r = [kind |-> "read", batch |-> [columns |-> c, rows |-> n]]
    PROVE  r.kind = "read" /\ r.batch.columns = c
OBVIOUS

LEMMA LeastColumn ==
    ASSUME NEW S, S \subseteq 1..3, S # {}
    PROVE  Local!Least(S) \in S /\ \A j \in S : Local!Least(S) <= j
<1>1. \E i \in S : \A j \in S : i <= j
  <2>1. CASE 1 \in S
    BY <2>1
  <2>2. CASE 1 \notin S /\ 2 \in S
    BY <2>2
  <2>3. CASE 1 \notin S /\ 2 \notin S
    <3>1. \A j \in S : j \in 1..3 /\ j # 1 /\ j # 2
      BY <2>3
    <3>2. \A j \in S : j = 3
      BY <3>1
    <3>3. PICK i \in S : TRUE
      OBVIOUS
    <3>4. i = 3 /\ \A j \in S : i <= j
      BY <3>2
    <3> QED
      BY <3>4
  <2> QED
    BY <2>1, <2>2, <2>3
<1> QED
  BY <1>1 DEF Local!Least

LEMMA ColumnMeets ==
    ASSUME NEW c, NEW i \in 1..3
    PROVE  Local!ColumnViolations(i, c) = <<>> <=>
             /\ Local!Field(c) = Local!Field(Local!IngestFields[i])
             /\ c.nulls => c.nullable
<1> DEFINE e == Local!IngestFields[i]
           s1 == IF c.name # e.name THEN <<"FieldName">> ELSE <<>>
           s2 == IF c.type # e.type THEN <<"DataType">> ELSE <<>>
           s3 == IF c.nullable # e.nullable THEN <<"Nullability">> ELSE <<>>
           s4 == IF ~e.nullable /\ c.nulls THEN <<"NullValues">> ELSE <<>>
           T == {"FieldName", "DataType", "Nullability", "NullValues"}
<1>1. s1 \in Seq(T) /\ s2 \in Seq(T) /\ s3 \in Seq(T) /\ s4 \in Seq(T)
  <2>1. \A t \in T : <<t>> \in Seq(T)
    OBVIOUS
  <2>2. <<>> \in Seq(T)
    OBVIOUS
  <2> QED
    BY <2>1, <2>2
<1>2. Local!ColumnViolations(i, c) = s1 \o s2 \o s3 \o s4
  BY DEF Local!ColumnViolations
<1>3. e.nullable \in BOOLEAN
  BY ContractFields
<1>4. /\ s1 = <<>> <=> c.name = e.name
      /\ s2 = <<>> <=> c.type = e.type
      /\ s3 = <<>> <=> c.nullable = e.nullable
      /\ s4 = <<>> <=> (c.nulls => e.nullable)
  <2>1. \A t : <<t>> # <<>>
    OBVIOUS
  <2> QED
    BY <2>1, <1>3
<1> HIDE DEF s1, s2, s3, s4, e, T
<1>5. s1 \o s2 \o s3 \o s4 = <<>> <=> s1 = <<>> /\ s2 = <<>> /\ s3 = <<>> /\ s4 = <<>>
  <2>1. s1 \o s2 \in Seq(T) /\ s1 \o s2 \o s3 \in Seq(T)
    BY <1>1, ConcatProperties
  <2>2. \A s, t \in Seq(T) : s \o t = <<>> <=> s = <<>> /\ t = <<>>
    BY ConcatEqualIffEmpty
  <2> QED
    BY <1>1, <2>1, <2>2
<1>6. Local!Field(c) = Local!Field(e) <=>
        c.name = e.name /\ c.type = e.type /\ c.nullable = e.nullable
  BY DEF Local!Field
<1> QED
  BY <1>2, <1>3, <1>4, <1>5, <1>6 DEF e

\* The check answers nothing exactly for the batches that the contract
\* describes, and otherwise a column before which the fields are as declared.
LEMMA ViolationIsTrue ==
    ASSUME NEW b, IsSequence(b.columns)
    PROVE  /\ Local!Violation(b) = <<>> <=> Local!MeetsContract(b)
           /\ Local!Violation(b) # <<>> =>
                \A i \in 1..(Local!Violation(b)[2] - 1) :
                    Local!Field(b.columns[i]) = Local!Field(Local!IngestFields[i])
<1> DEFINE columns == b.columns
           I == 1..3
           wrong == {i \in I : Local!ColumnViolations(i, columns[i]) # <<>>}
           opaque == {i \in I : ~columns[i].concrete}
<1>1. DOMAIN Local!IngestFields = I /\ Len(Local!IngestFields) = 3
  BY ContractFields
<1>2. Local!Violation(b) =
        IF Len(columns) # 3 THEN <<"ColumnCount", 0>>
        ELSE IF wrong # {}
             THEN <<Local!ColumnViolations(Local!Least(wrong),
                                           columns[Local!Least(wrong)])[1], Local!Least(wrong)>>
        ELSE IF opaque # {} THEN <<"ArrayRepresentation", Local!Least(opaque)>>
        ELSE <<>>
  BY <1>1 DEF Local!Violation
<1>3. \A i \in I : i \notin wrong <=>
        /\ Local!Field(columns[i]) = Local!Field(Local!IngestFields[i])
        /\ columns[i].nulls => columns[i].nullable
  BY ColumnMeets
<1>4. Local!MeetsContract(b) <=>
        /\ Len(columns) = 3
        /\ \A i \in I : /\ Local!Field(columns[i]) = Local!Field(Local!IngestFields[i])
                        /\ columns[i].concrete
                        /\ columns[i].nulls => columns[i].nullable
  <2>1. DOMAIN columns = 1..Len(columns) /\ Len(columns) \in Nat
    BY LengthOfSequence
  <2>2. ASSUME Local!Fields(columns) = Local!Fields(Local!IngestFields)
        PROVE  /\ Len(columns) = 3
               /\ \A i \in I :
                    Local!Field(columns[i]) = Local!Field(Local!IngestFields[i])
    <3>1. DOMAIN columns = I
      BY <1>1, <2>2 DEF Local!Fields
    <3>2. \A n \in Nat : 1..n = 1..3 => n = 3
      <4>1. \A n \in Nat : 1..n = 1..3 => 3 \in 1..n /\ 4 \notin 1..n
        OBVIOUS
      <4> QED
        BY <4>1
    <3>3. \A i \in I : Local!Field(columns[i]) = Local!Fields(columns)[i]
      BY <3>1 DEF Local!Fields
    <3>4. \A i \in I : Local!Field(Local!IngestFields[i]) = Local!Fields(Local!IngestFields)[i]
      BY <1>1 DEF Local!Fields
    <3> QED
      BY <3>1, <3>2, <3>3, <3>4, <2>1, <2>2
  <2>3. ASSUME Len(columns) = 3,
               \A i \in I : Local!Field(columns[i]) = Local!Field(Local!IngestFields[i])
        PROVE  Local!Fields(columns) = Local!Fields(Local!IngestFields)
    BY <1>1, <2>1, <2>3 DEF Local!Fields
  <2> QED
    BY <2>1, <2>2, <2>3 DEF Local!MeetsContract
<1>5. wrong \subseteq 1..3 /\ opaque \subseteq 1..3
  OBVIOUS
<1> HIDE DEF wrong
<1>6. CASE Len(columns) # 3
  BY <1>2, <1>4, <1>6
<1>7. CASE Len(columns) = 3 /\ wrong # {}
  <2> DEFINE i == Local!Least(wrong)
  <2>1. i \in wrong /\ \A j \in wrong : i <= j
    BY <1>5, <1>7, LeastColumn
  <2>3. Local!Violation(b) = <<Local!ColumnViolations(i, columns[i])[1], i>>
    BY <1>2, <1>7
  <2> HIDE DEF i
  <2>2. i \in 1..3 /\ \A j \in 1..(i - 1) : j \in I /\ j \notin wrong
    <3>1. i \in 1..3
      BY <1>5, <2>1
    <3> QED
      BY <3>1, <2>1
  <2>4. Local!Violation(b) # <<>> /\ Local!Violation(b)[2] = i
    BY <2>3
  <2>5. ~Local!MeetsContract(b)
    BY <1>3, <1>4, <1>5, <2>1
  <2> QED
    BY <1>3, <2>2, <2>4, <2>5
<1>8. CASE Len(columns) = 3 /\ wrong = {} /\ opaque # {}
  BY <1>2, <1>3, <1>4, <1>5, <1>8, LeastColumn
<1>9. CASE Len(columns) = 3 /\ wrong = {} /\ opaque = {}
  BY <1>2, <1>3, <1>4, <1>9
<1> QED
  BY <1>6, <1>7, <1>8, <1>9

-----------------------------------------------------------------------------
(* The contract between the callbacks *)

\* After a check the batch meets the contract, and a refusal is what the check says
\* of the batch; what is stored was built, and what was read has the contract's
\* fields.
ContractInv ==
    /\ IsSequence(batch.columns) /\ IsSequence(stored.columns)
    /\ \A i \in DOMAIN sinkGot : Local!MeetsContract(sinkGot[i])
    /\ phase = "transform checked" => Local!MeetsContract(batch)
    /\ phase = "sunk" => Len(sinkGot) = 1
    /\ phase \in {"built", "stored"} => Local!MeetsContract(batch) /\ Len(sinkGot) = 1
    /\ phase = "failed" /\ error.by = "contract" =>
         Local!Violation(batch) # <<>> /\ error.violation = Local!Violation(batch)
    /\ phase = "stored" => stored = batch /\ answer.kind # "drifted"
    /\ answer.kind = "read" =>
         /\ answer.batch.columns = Local!IngestFields
         /\ \A b \in Local!Decoded(stored) :
               Local!Fields(b.columns) = Local!Fields(Local!IngestFields)

LEMMA ContractInit == Entry => ContractInv
<1> SUFFICES ASSUME Entry PROVE ContractInv
  OBVIOUS
<1>1. Local!Unbuilt /\ stored \in {Local!NoBatch} \union ParquetFiles
  BY DEF Entry, Local!Init
<1>2. IsSequence(Local!NoBatch.columns)
  BY DEF Local!NoBatch, IsSequence
<1>3. batch = Local!NoBatch /\ phase = "building" /\ sinkGot = <<>>
      /\ answer.kind = "none"
  BY <1>1 DEF Local!Unbuilt, Local!NoAnswer
<1>4. IsSequence(stored.columns)
  BY <1>1, <1>2, BatchesAssumption DEF IsSequence
<1> QED
  BY <1>2, <1>3, <1>4 DEF ContractInv

LEMMA CallKeepsSequence ==
    ASSUME NEW b \in Batches
    PROVE  IsSequence(b.columns)
BY BatchesAssumption DEF IsSequence

LEMMA ContractStep ==
    ASSUME ContractInv, [Step]_<<vars, local, recordVars, taken, selectVars>>
    PROVE  ContractInv'
<1>1. CASE UNCHANGED local
  <2>1. batch' = batch /\ stored' = stored /\ sinkGot' = sinkGot /\ phase' = phase
        /\ error' = error /\ answer' = answer
    BY <1>1 DEF local
  <2> QED
    BY <2>1 DEF ContractInv, Local!MeetsContract, Local!Violation, Local!Decoded
<1> USE DEF ContractInv
<1>2. CASE Supply
  BY <1>2 DEF Supply, Local!Supply
<1>3. CASE BuildLocal
  <2>1. CASE Local!Build(Len(rows))
    <3>1. IsSequence(Local!IngestFields)
      BY ContractFields
    <3> QED
      BY <2>1, <3>1 DEF Local!Build
  <2>2. CASE Local!SourceFails
    BY <2>2 DEF Local!SourceFails, Local!Fail
  <2> QED
    BY <1>3, <2>1, <2>2 DEF BuildLocal
<1>4. CASE LocalStep
  <2>1. CASE Local!BuildRemote
    BY <2>1 DEF Local!BuildRemote
  <2>2. CASE Local!Transform
    <3>1. phase = "read" /\ UNCHANGED <<sinkGot, stored, answer>>
      BY <2>2 DEF Local!Transform, Local!Calls
    <3>2. CASE Local!Fail([by |-> "transform"]) /\ UNCHANGED batch
      BY <3>1, <3>2 DEF Local!Fail
    <3>3. CASE batch' \in Batches /\ phase' = "transformed" /\ UNCHANGED error
      BY <3>1, <3>3, CallKeepsSequence
    <3> QED
      BY <2>2, <3>2, <3>3 DEF Local!Transform, Local!Calls
  <2>3. CASE Local!CallSink
    <3>1. phase = "transform checked" /\ sinkGot' = <<batch>> /\ UNCHANGED <<stored, answer>>
      BY <2>3 DEF Local!CallSink, Local!Calls
    <3>2. Len(sinkGot') = 1 /\ \A i \in DOMAIN sinkGot' : Local!MeetsContract(sinkGot'[i])
      <4>1. Len(sinkGot') = 1 /\ \A i \in DOMAIN sinkGot' : sinkGot'[i] = batch
        BY <3>1, SingletonSequence, Zenon
      <4>2. Local!MeetsContract(batch)
        BY <3>1
      <4> QED
        BY <4>1, <4>2, Zenon
    <3>3. CASE Local!Fail([by |-> "sink"]) /\ UNCHANGED batch
      BY <3>1, <3>2, <3>3 DEF Local!Fail
    <3>4. CASE batch' \in Batches /\ phase' = "sunk" /\ UNCHANGED error
      BY <3>1, <3>2, <3>4, CallKeepsSequence
    <3> QED
      BY <2>3, <3>3, <3>4 DEF Local!CallSink, Local!Calls
  <2>4. ASSUME NEW from \in {"transformed", "sunk"},
               NEW to \in {"transform checked", "built"},
               to = "built" => from = "sunk", Local!Validates(from, to)
        PROVE  ContractInv'
    <3>1. phase = from /\ UNCHANGED <<batch, sinkGot, stored, answer>>
      BY <2>4 DEF Local!Validates
    <3>2. CASE Local!Violation(batch) = <<>>
      <4>1. phase' = to /\ UNCHANGED error /\ Local!MeetsContract(batch)
        BY <2>4, <3>2, ViolationIsTrue DEF Local!Validates
      <4> QED
        BY <2>4, <3>1, <4>1
    <3>3. CASE Local!Violation(batch) # <<>>
      <4>1. phase' = "failed" /\ error' = [by |-> "contract", violation |-> Local!Violation(batch)]
        BY <2>4, <3>3 DEF Local!Validates, Local!Fail
      <4>2. error'.violation = Local!Violation(batch)'
        BY <3>1, <4>1 DEF Local!Violation
      <4>3. Local!Violation(batch)' # <<>>
        BY <3>1, <3>3 DEF Local!Violation
      <4> QED
        BY <3>1, <4>1, <4>2, <4>3
    <3> QED
      BY <3>2, <3>3
  <2>5. CASE Local!WriteParquet
    BY <2>5 DEF Local!WriteParquet, Local!NoAnswer, Local!MeetsContract, Local!Decoded
  <2>6. CASE Local!ReadParquet
    <3> DEFINE drifted == \E b \in Local!Decoded(stored) :
                            Local!Fields(b.columns) # Local!Fields(Local!IngestFields)
    <3>1. UNCHANGED <<phase, batch, sinkGot, error, stored>>
      BY <2>6 DEF Local!ReadParquet
    <3>2. phase = "stored" => ~drifted
      BY DEF Local!Decoded, Local!MeetsContract
    <3>3. \/ answer' = [kind |-> "unreadable"]
          \/ drifted /\ answer' = [kind |-> "drifted"]
          \/ /\ ~drifted
             /\ answer' = [kind |-> "read",
                           batch |-> [columns |-> Local!IngestFields, rows |-> stored.rows]]
      BY <2>6 DEF Local!ReadParquet
    <3> HIDE DEF drifted
    <3>4. answer'.kind = "read" => ~drifted /\ answer'.batch.columns = Local!IngestFields
      <4>1. [kind |-> "unreadable"].kind # "read" /\ [kind |-> "drifted"].kind # "read"
        OBVIOUS
      <4>2. \A r : r = [kind |-> "read",
                       batch |-> [columns |-> Local!IngestFields, rows |-> stored.rows]] =>
                    r.batch.columns = Local!IngestFields
        BY AnswerOfRead, Zenon
      <4> QED
        BY <3>3, <4>1, <4>2, Zenon
    <3> USE DEF drifted
    <3>5. phase = "stored" => answer'.kind # "drifted"
      BY <3>2, <3>3
    <3> QED
      BY <3>1, <3>4, <3>5 DEF Local!Decoded
  <2> QED
    BY <1>4, <2>1, <2>2, <2>3, <2>4, <2>5, <2>6
       DEF LocalStep, Local!ValidateTransformed, Local!ValidateResult
<1>5. CASE ConsumeFails
  <2>1. CASE Local!RemoteFails
    <3>1. phase = "handed over" /\ UNCHANGED <<sinkGot, stored, answer>>
      BY <2>1 DEF Local!RemoteFails
    <3>2. CASE Local!Fail([by |-> "transform"]) /\ UNCHANGED batch
      BY <3>1, <3>2 DEF Local!Fail
    <3>3. CASE /\ batch' \in Batches /\ Local!Violation(batch') # <<>>
               /\ Local!Fail([by |-> "contract", violation |-> Local!Violation(batch')])
      BY <3>1, <3>3, CallKeepsSequence DEF Local!Fail, Local!Violation
    <3> QED
      BY <2>1, <3>2, <3>3 DEF Local!RemoteFails
  <2>2. CASE Local!SourceFails
    BY <2>2 DEF Local!SourceFails, Local!Fail
  <2> QED
    BY <1>5, <2>1, <2>2 DEF ConsumeFails
<1> QED
  BY <1>1, <1>2, <1>3, <1>4, <1>5
     DEF Step, Select, ReadFile, Consume, Publish, ReadRemote

\* The local builder trusts neither callback (LocalPipeline::build): the sink is
\* called once, with a batch of the contract, a result is one too, a refusal is of
\* the first column that does not meet it, and a stored result can be read back.
THEOREM ContractIsKept == IngestionSpec => []OnlyContractBatchesPass
<1>1. ContractInv => OnlyContractBatchesPass
  <2> SUFFICES ASSUME ContractInv PROVE Local!OnlyContractBatchesPass
    BY DEF OnlyContractBatchesPass
  <2>1. Local!Violation(batch) # <<>> =>
          /\ ~Local!MeetsContract(batch)
          /\ \A i \in 1..(Local!Violation(batch)[2] - 1) :
                Local!Field(batch.columns[i]) = Local!Field(Local!IngestFields[i])
    BY ViolationIsTrue DEF ContractInv
  <2> QED
    BY <2>1 DEF ContractInv, Local!OnlyContractBatchesPass
<1> QED
  BY <1>1, ContractInit, ContractStep, PTL DEF IngestionSpec

-----------------------------------------------------------------------------
(* What the writer's record says and what the reader makes of it *)

ManifestFields ==
    {"schema", "rowCount", "digest", "runId", "outputKey", "eTag", "version", "scheme"}

LEMMA FieldsOfManifest ==
    /\ DOMAIN NoManifest = ManifestFields
    /\ \A k, m : DOMAIN NewV2(k, m) = ManifestFields
BY DEF NoManifest, NewV2, ManifestFields

LEMMA OneText ==
    ASSUME NEW s, NEW t
    PROVE  <<s>> # <<>> /\ (<<s>> = <<t>> <=> s = t)
OBVIOUS

LEMMA NonBlankText ==
    ASSUME NEW t \in Texts
    PROVE  /\ ~Blank(NonBlank(t))
           /\ NonBlank(t) = IF Present(t) THEN t ELSE <<>>
           /\ Present(t) => t \notin {<<>>, <<"">>}
           /\ ~Present(<<>>) /\ ~Blank(<<>>)
<1>1. <<"">> # <<>> /\ <<" ">> # <<>>
  BY OneText
<1> QED
  BY <1>1 DEF NonBlank, Present, Blank, Texts

\* A record survives its serialization: what is absent is absent again.
LEMMA WireOfSerialized ==
    ASSUME NEW r, r = [f \in ManifestFields |-> r[f]]
    PROVE  /\ Wire(Serialized(r)) = r
           /\ DOMAIN Serialized(r) =
                {f \in ManifestFields : f \in Optional => r[f] # <<>>}
<1>1. DOMAIN r = ManifestFields
  OBVIOUS
<1> DEFINE text == Serialized(r)
<1>2. /\ DOMAIN text = {f \in ManifestFields : f \in Optional => r[f] # <<>>}
      /\ \A f \in DOMAIN text : text[f] = r[f]
  BY <1>1 DEF Serialized
<1> HIDE DEF text
<1>3. Wire(text) = [f \in ManifestFields |-> r[f]]
  BY <1>2, FieldsOfManifest DEF Wire
<1> QED
  BY <1>2, <1>3 DEF text

LEMMA WriterRecord ==
    ASSUME NEW k, NEW m \in Metas, IdentityUsable(k, m), ~Blank(<<k>>)
    PROVE  /\ ManifestViolation(NewV2(k, m)) = "none"
           /\ ReaderAnswer(Serialized(NewV2(k, m)), k, m) = "reads"
<1> DEFINE r == NewV2(k, m)
<1>1. m.eTag \in Texts /\ m.version \in Texts
  BY DEF Metas
<1>2. /\ r.schema = 2 /\ r.runId = <<"run">> /\ r.outputKey = <<k>> /\ r.scheme = Legacy
      /\ r.eTag = NonBlank(m.eTag) /\ r.version = NonBlank(m.version)
  BY DEF NewV2
<1>3. r = [f \in ManifestFields |-> r[f]]
  BY FieldsOfManifest DEF NewV2
<1> HIDE DEF r
<1>4. /\ ~Blank(r.eTag) /\ ~Blank(r.version)
      /\ r.version = IF Present(m.version) THEN m.version ELSE <<>>
      /\ r.eTag = IF Present(m.eTag) THEN m.eTag ELSE <<>>
      /\ Present(m.version) \/ Present(m.eTag)
      /\ Present(m.version) => m.version \notin {<<>>, <<"">>}
      /\ Present(m.eTag) => m.eTag \notin {<<>>, <<"">>}
  BY <1>1, <1>2, NonBlankText DEF IdentityUsable
<1>5. Present(<<"run">>) /\ Present(<<k>>) /\ Present(Legacy)
  BY OneText DEF Present, Blank, Legacy
<1>6. ManifestViolation(r) = "none"
  BY <1>2, <1>4, <1>5 DEF ManifestViolation
<1>7. Wire(Serialized(r)) = r /\ {"schema", "rowCount", "digest"} \subseteq DOMAIN Serialized(r)
  BY <1>3, WireOfSerialized DEF ManifestFields, Optional
<1>8. Decode(Serialized(r)) = "none"
  BY <1>6, <1>7, FieldsOfManifest DEF Decode, ManifestFields, Optional
<1>9. IdentityMatches(r, m) /\ Bindable(k, m)
  BY <1>4 DEF IdentityMatches, Bindable, IdentityUsable
<1>10. ReaderAnswer(Serialized(r), k, m) = "reads"
  BY <1>2, <1>7, <1>8, <1>9 DEF ReaderAnswer
<1> QED
  BY <1>6, <1>10 DEF r

LEMMA ReaderAccepts ==
    ASSUME NEW text, NEW k, NEW m, ReaderAnswer(text, k, m) = "reads"
    PROVE  /\ {"schema", "rowCount", "digest", "outputKey"} \subseteq DOMAIN text
           /\ text.schema = 2 /\ text.outputKey = <<k>> /\ m.location = k
           /\ \E id \in {"version", "eTag"} \intersect DOMAIN text :
                 Present(text[id]) /\ m[id] = text[id]
<1> DEFINE r == Wire(text)
<1>1. /\ Decode(text) = "none"
      /\ r.schema = 2 /\ r.outputKey = <<k>>
      /\ IdentityMatches(r, m) /\ Bindable(k, m)
  <2>1. /\ "CompletionIdentityRequired" # "reads" /\ "OutputKeyMismatch" # "reads"
        /\ "InvalidSnapshot" # "reads" /\ "ReadManifest" # "reads" /\ "none" # "reads"
    OBVIOUS
  <2>2. Decode(text) # "reads"
    <3>1. ManifestViolation(r) # "reads"
      BY DEF ManifestViolation
    <3> QED
      BY <2>1, <3>1 DEF Decode
  <2> QED
    BY <2>1, <2>2 DEF ReaderAnswer
<1>2. /\ {"schema", "rowCount", "digest"} \subseteq DOMAIN text
      /\ ManifestViolation(r) = "none"
  BY <1>1, FieldsOfManifest DEF Decode, ManifestFields, Optional
<1>3. \A f \in ManifestFields : r[f] = IF f \in DOMAIN text THEN text[f] ELSE <<>>
  BY FieldsOfManifest DEF Wire
<1> HIDE DEF r
<1>4. /\ r.eTag # <<>> \/ r.version # <<>>
      /\ ~Blank(r.eTag) /\ ~Blank(r.version)
  BY <1>1, <1>2 DEF ManifestViolation
<1>5. r.version = <<>> => r.eTag # <<>> /\ m.eTag = r.eTag
  BY <1>1, <1>4 DEF IdentityMatches
<1>6. r.version # <<>> => m.version = r.version
  BY <1>1 DEF IdentityMatches
<1>7. {"schema", "outputKey", "version", "eTag"} \subseteq ManifestFields
  BY DEF ManifestFields
<1>8. "outputKey" \in DOMAIN text /\ text.outputKey = <<k>> /\ text.schema = 2
  BY <1>1, <1>2, <1>3, <1>7, OneText
<1>11. m.location = k
  BY <1>1 DEF Bindable
<1>9. CASE r.version # <<>>
  <2>1. "version" \in DOMAIN text /\ text["version"] = r.version /\ m["version"] = r.version
    BY <1>3, <1>6, <1>7, <1>9
  <2>2. Present(text["version"])
    BY <1>4, <1>9, <2>1 DEF Present
  <2> QED
    BY <1>2, <1>8, <1>11, <2>1, <2>2
<1>10. CASE r.version = <<>>
  <2>1. "eTag" \in DOMAIN text /\ text["eTag"] = r.eTag /\ m["eTag"] = r.eTag
    BY <1>3, <1>5, <1>7, <1>10
  <2>2. Present(text["eTag"])
    BY <1>4, <1>5, <1>10, <2>1 DEF Present
  <2> QED
    BY <1>2, <1>8, <1>11, <2>1, <2>2
<1> QED
  BY <1>9, <1>10

-----------------------------------------------------------------------------
(* The record and its readers *)

\* A record of this run is the one that its key and the captured metadata make.
RecordInv ==
    /\ recordPhase \in {"writing", "captured", "published", "read", "failed"}
    /\ recordPhase \in {"writing", "captured", "failed"} => record = NoRecord
    /\ recordPhase # "read" => readerAnswer = "none"
    /\ recordPhase = "captured" => meta \in Metas /\ IdentityUsable(key, meta)
    /\ OfThisRun =>
         /\ meta \in Metas /\ IdentityUsable(key, meta) /\ ~Blank(<<key>>)
         /\ record = Serialized(NewV2(key, meta))
    /\ PublishedCanBeRead /\ ReadIsIdentified

LEMMA NoRecordIsOfNoRun ==
    /\ OfThisRun => record # NoRecord
    /\ OfThisRun' => record' # NoRecord
<1>1. "runId" \notin DOMAIN NoRecord
  BY DEF NoRecord
<1> QED
  BY <1>1 DEF OfThisRun

LEMMA RecordInit == Entry => RecordInv
<1> SUFFICES ASSUME Entry PROVE RecordInv
  OBVIOUS
<1>1. PICK records \in {Foreign, {NoRecord}} : NoRun(records)
  BY DEF Entry
<1>2. ~OfThisRun
  BY <1>1, ForeignAssumption, NoRecordIsOfNoRun DEF NoRun, OfThisRun
<1> QED
  BY <1>1, <1>2 DEF NoRun, RecordInv, PublishedCanBeRead, ReadIsIdentified

LEMMA RecordStep ==
    ASSUME RecordInv, [Step]_<<vars, local, recordVars, taken, selectVars>>
    PROVE  RecordInv'
<1>1. CASE UNCHANGED recordVars
  BY <1>1 DEF recordVars, RecordInv, PublishedCanBeRead, ReadIsIdentified, OfThisRun, NewV2
<1>2. ASSUME NEW b, WriteBatch(b) PROVE RecordInv'
  <2>1. recordPhase = "writing" /\ UNCHANGED <<recordPhase, key, meta, record, readerAnswer>>
    BY <1>2 DEF WriteBatch
  <2>2. ~OfThisRun' /\ readerAnswer = "none"
    BY <2>1, NoRecordIsOfNoRun DEF RecordInv
  <2> QED
    BY <2>1, <2>2 DEF RecordInv, PublishedCanBeRead, ReadIsIdentified
<1>3. CASE Capture
  <2>1. /\ recordPhase = "writing" /\ UNCHANGED <<key, record, readerAnswer>>
        /\ meta' \in Metas
        /\ recordPhase' = IF IdentityUsable(key, meta') THEN "captured" ELSE "failed"
    BY <1>3 DEF Capture
  <2>2. ~OfThisRun' /\ readerAnswer = "none"
    BY <2>1, NoRecordIsOfNoRun DEF RecordInv
  <2> QED
    BY <2>1, <2>2 DEF RecordInv, PublishedCanBeRead, ReadIsIdentified
<1>4. CASE PutManifest
  <2> DEFINE r == NewV2(key, meta)
  <2>1. /\ recordPhase = "captured" /\ UNCHANGED <<count, running, key, meta, readerAnswer>>
        /\ meta \in Metas /\ IdentityUsable(key, meta) /\ readerAnswer = "none"
        /\ record = NoRecord
    BY <1>4 DEF PutManifest, RecordInv
  <2>2. r' = r /\ IdentityUsable(key, meta)' /\ Blank(<<key>>)' = Blank(<<key>>)
    BY <2>1 DEF NewV2, IdentityUsable, Blank
  <2>3. CASE ManifestViolation(r) = "none"
    <3>1. record' = Serialized(r) /\ recordPhase' = "published"
      BY <1>4, <2>3 DEF PutManifest
    <3>2. ~Blank(<<key>>)
      <4>1. r.outputKey = <<key>> /\ r.schema = 2
        BY DEF NewV2
      <4> HIDE DEF r
      <4>2. Present(r.outputKey)
        BY <2>3, <4>1 DEF ManifestViolation
      <4> QED
        BY <4>1, <4>2 DEF Present
    <3> QED
      BY <2>1, <2>2, <3>1, <3>2 DEF RecordInv, PublishedCanBeRead, ReadIsIdentified
  <2>4. CASE ManifestViolation(r) # "none"
    <3>1. recordPhase' = "failed" /\ record' = record
      BY <1>4, <2>4 DEF PutManifest
    <3>2. Blank(<<key>>)'
      BY <2>1, <2>2, <2>4, WriterRecord
    <3>3. ~OfThisRun'
      BY <2>1, <3>1, NoRecordIsOfNoRun
    <3> QED
      BY <2>1, <3>1, <3>2, <3>3 DEF RecordInv, PublishedCanBeRead, ReadIsIdentified
  <2> QED
    BY <2>3, <2>4
<1>5. CASE Download
  <2>1. /\ recordPhase = "published" /\ recordPhase' = "read"
        /\ UNCHANGED <<count, running, key, record>>
        /\ readerAnswer' = ReaderAnswer(record, key, meta')
        /\ meta # NoMeta => meta' = meta
    BY <1>5 DEF Download
  <2>2. ReadIsIdentified'
    <3> SUFFICES ASSUME ReaderAnswer(record, key, meta') = "reads"
                 PROVE  ReadIsIdentified'
      BY <2>1 DEF ReadIsIdentified
    <3> QED
      BY <2>1, ReaderAccepts DEF ReadIsIdentified
  <2>3. ASSUME OfThisRun'
        PROVE  /\ meta' = meta /\ meta \in Metas /\ IdentityUsable(key, meta)
               /\ ~Blank(<<key>>) /\ record = Serialized(NewV2(key, meta))
    <3>1. /\ meta \in Metas /\ IdentityUsable(key, meta)
          /\ ~Blank(<<key>>) /\ record = Serialized(NewV2(key, meta))
      BY <2>1, <2>3 DEF RecordInv, OfThisRun
    <3>2. meta # NoMeta
      <4>1. ~Present(<<>>)
        BY DEF Present
      <4> QED
        BY <3>1, <4>1 DEF IdentityUsable, NoMeta
    <3> QED
      BY <2>1, <3>1, <3>2
  <2>4. OfThisRun' => readerAnswer' = "reads"
    BY <2>1, <2>3, WriterRecord
  <2>5. OfThisRun' => (NewV2(key, meta))' = NewV2(key, meta)
    BY <2>1, <2>3 DEF NewV2
  <2>6. OfThisRun' => /\ meta' \in Metas' /\ IdentityUsable(key, meta)' /\ ~Blank(<<key>>)'
                      /\ record' = Serialized(NewV2(key, meta))'
    BY <2>1, <2>3, <2>5 DEF IdentityUsable, Blank, Metas
  <2> QED
    BY <2>1, <2>2, <2>4, <2>6 DEF RecordInv, PublishedCanBeRead
<1> QED
  BY <1>1, <1>2, <1>3, <1>4, <1>5
     DEF Step, Supply, BuildLocal, LocalStep, ConsumeFails, Select, ReadFile, Consume,
         Publish, ReadRemote

\* Every record a run publishes is accepted by download_completed_output while its
\* output is there, a run with an identified output and a key that is not blank
\* never fails for its record, and no record, whoever wrote it, is accepted that
\* does not identify an output of the key.
THEOREM RecordsServe == IngestionSpec => []RecordServesReaders
<1>1. RecordInv => RecordServesReaders
  BY DEF RecordInv, RecordServesReaders
<1> QED
  BY <1>1, RecordInit, RecordStep, PTL DEF IngestionSpec

-----------------------------------------------------------------------------
(* How often a row occurs *)

Places(s, row) == {i \in 1..Len(s) : s[i] = row}

LEMMA TimesIsANumber ==
    ASSUME NEW V, NEW s \in Seq(V), NEW row
    PROVE  /\ Times(s, row) \in Nat
           /\ IsFiniteSet(Places(s, row))
           /\ Times(s, row) = Cardinality(Places(s, row))
<1> DEFINE A == Places(s, row)
<1>1. Len(s) \in Int /\ 1 \in Int /\ DOMAIN s = 1..Len(s) /\ A \in SUBSET (1..Len(s))
  BY DEF Places
<1>2. IsFiniteSet(1..Len(s))
  BY <1>1, FS_Interval
<1>3. IsFiniteSet(A)
  BY <1>1, <1>2, FS_Subset
<1>4. Times(s, row) = Cardinality(A)
  BY <1>1 DEF Times, Places
<1> QED
  BY <1>3, <1>4, FS_CardinalityType

AreInverse(S, T, f, b) ==
    /\ f \in [S -> T] /\ \A x \in S : b[f[x]] = x
    /\ b \in [T -> S] /\ \A y \in T : f[b[y]] = y

LEMMA BijectionCounts ==
    ASSUME NEW S, NEW T, IsFiniteSet(S), NEW f, NEW b, AreInverse(S, T, f, b)
    PROVE  IsFiniteSet(T) /\ Cardinality(T) = Cardinality(S)
<1> USE DEF AreInverse
<1>1. \A x, y \in S : f[x] = f[y] => x = y
  OBVIOUS
<1>2. \A y \in T : \E x \in S : f[x] = y
  OBVIOUS
<1>3. f \in Bijection(S, T)
  BY <1>1, <1>2 DEF Bijection, Injection, Surjection, IsInjective
<1>4. ExistsBijection(S, T)
  BY <1>3 DEF ExistsBijection
<1> QED
  BY <1>4, FS_Bijection

LEMMA TimesOfReverse ==
    ASSUME NEW V, NEW s \in Seq(V), NEW row
    PROVE  /\ Reverse(s) \in Seq(V) /\ Len(Reverse(s)) = Len(s)
           /\ Times(Reverse(s), row) = Times(s, row)
<1> DEFINE n == Len(s)
           t == Reverse(s)
           A == {i \in 1..n : s[i] = row}
           B == {i \in 1..n : t[i] = row}
           f == [i \in A |-> n - i + 1]
           b == [i \in B |-> n - i + 1]
<1>1. n \in Nat /\ t \in Seq(V) /\ Len(t) = n /\ \A i \in 1..n : t[i] = s[(n - i) + 1]
  BY DEF Reverse
<1>2. \A i \in 1..n : n - i + 1 \in 1..n /\ n - (n - i + 1) + 1 = i
  BY <1>1
<1> HIDE DEF n, t
<1>3. \A i \in 1..n : t[n - i + 1] = s[i]
  BY <1>1, <1>2
<1>4. f \in [A -> B] /\ b \in [B -> A]
  BY <1>1, <1>2, <1>3
<1>5. (\A i \in A : b[f[i]] = i) /\ \A i \in B : f[b[i]] = i
  BY <1>2, <1>4
<1>6. IsFiniteSet(A) /\ Cardinality(A) = Times(s, row)
  BY TimesIsANumber DEF n, Places
<1>7. Cardinality(B) = Times(t, row)
  <2>1. Times(t, row) = Cardinality(Places(t, row))
    BY <1>1, TimesIsANumber
  <2> QED
    BY <1>1, <2>1 DEF Places
<1> HIDE DEF A, B, f, b
<1>8. Cardinality(B) = Cardinality(A)
  <2>1. AreInverse(A, B, f, b)
    BY <1>4, <1>5 DEF AreInverse
  <2> QED
    BY <1>6, <2>1, BijectionCounts
<1> QED
  BY <1>1, <1>6, <1>7, <1>8 DEF n, t

LEMMA TimesOfConcat ==
    ASSUME NEW V, NEW s \in Seq(V), NEW t \in Seq(V), NEW row
    PROVE  Times(s \o t, row) = Times(s, row) + Times(t, row)
<1> DEFINE m == Len(s)
           n == Len(t)
           u == s \o t
           A == {i \in 1..m : s[i] = row}
           B == {i \in 1..n : t[i] = row}
           C == {i \in (m + 1)..(m + n) : u[i] = row}
           D == {i \in 1..(m + n) : u[i] = row}
           f == [i \in B |-> m + i]
           b == [i \in C |-> i - m]
<1>1. /\ m \in Nat /\ n \in Nat /\ u \in Seq(V) /\ Len(u) = m + n
      /\ \A i \in 1..(m + n) : u[i] = IF i <= m THEN s[i] ELSE t[i - m]
  BY ConcatProperties
<1> HIDE DEF u, m, n
<1>2. /\ IsFiniteSet(A) /\ Cardinality(A) = Times(s, row) /\ Times(s, row) \in Nat
      /\ IsFiniteSet(B) /\ Cardinality(B) = Times(t, row) /\ Times(t, row) \in Nat
      /\ Cardinality(D) = Times(u, row)
  <2>1. /\ IsFiniteSet(A) /\ Cardinality(A) = Times(s, row) /\ Times(s, row) \in Nat
        /\ IsFiniteSet(B) /\ Cardinality(B) = Times(t, row) /\ Times(t, row) \in Nat
    BY TimesIsANumber DEF m, n, Places
  <2>2. Times(u, row) = Cardinality(Places(u, row))
    BY <1>1, TimesIsANumber
  <2>3. Places(u, row) = D
    BY <1>1 DEF Places
  <2> QED
    BY <2>1, <2>2, <2>3
<1>3. \A i \in 1..m : u[i] = s[i]
  BY <1>1
<1>4. \A i \in 1..n : m + i \in (m + 1)..(m + n) /\ u[m + i] = t[i]
  <2> SUFFICES ASSUME NEW i \in 1..n PROVE m + i \in (m + 1)..(m + n) /\ u[m + i] = t[i]
    OBVIOUS
  <2> DEFINE j == m + i
  <2>1. j \in (m + 1)..(m + n) /\ j \in 1..(m + n) /\ ~(j <= m) /\ j - m = i
    BY <1>1
  <2> HIDE DEF j
  <2>2. u[j] = t[i]
    BY <1>1, <2>1
  <2> QED
    BY <2>1, <2>2 DEF j
<1>5. \A i \in (m + 1)..(m + n) : i - m \in 1..n /\ u[i] = t[i - m]
  <2>1. \A i \in (m + 1)..(m + n) : i - m \in 1..n /\ i \in 1..(m + n) /\ ~(i <= m)
    BY <1>1
  <2> QED
    BY <1>1, <2>1
<1>6. f \in [B -> C] /\ b \in [C -> B]
  BY <1>4, <1>5
<1>7. \A i \in B : b[f[i]] = i
  <2>1. \A i \in B : f[i] = m + i /\ f[i] \in C /\ (m + i) - m = i
    BY <1>1, <1>6
  <2>2. \A j \in C : b[j] = j - m
    OBVIOUS
  <2> HIDE DEF b, f, C
  <2> QED
    BY <2>1, <2>2
<1>8. \A i \in C : f[b[i]] = i
  <2>1. \A i \in C : b[i] = i - m /\ b[i] \in B /\ m + (i - m) = i
    BY <1>1, <1>6
  <2>2. \A j \in B : f[j] = m + j
    OBVIOUS
  <2> HIDE DEF b, f, C, B
  <2> QED
    BY <2>1, <2>2
<1>9. D = A \union C /\ A \intersect C = {}
  <2>1. 1..(m + n) = (1..m) \union ((m + 1)..(m + n))
    BY <1>1
  <2>2. \A i \in 1..m : i \notin (m + 1)..(m + n)
    BY <1>1
  <2> QED
    BY <1>3, <2>1, <2>2
<1> HIDE DEF A, B, C, D, f, b
<1>10. IsFiniteSet(C) /\ Cardinality(C) = Cardinality(B)
  <2>1. AreInverse(B, C, f, b)
    BY <1>6, <1>7, <1>8 DEF AreInverse
  <2> QED
    BY <1>2, <2>1, BijectionCounts
<1>11. Cardinality(A \union C) = Cardinality(A) + Cardinality(C) - Cardinality(A \intersect C)
  BY <1>2, <1>10, FS_Union
<1>12. Cardinality(A \intersect C) = 0
  BY <1>9, FS_EmptySet
<1>13. Cardinality(D) = Times(s, row) + Times(t, row)
  BY <1>2, <1>9, <1>10, <1>11, <1>12
<1> QED
  BY <1>2, <1>13 DEF u

LEMMA TimesOfOne ==
    ASSUME NEW x, NEW row
    PROVE  Times(<<x>>, row) = IF x = row THEN 1 ELSE 0
<1> DEFINE A == {i \in DOMAIN <<x>> : <<x>>[i] = row}
<1>1. DOMAIN <<x>> = {1} /\ <<x>>[1] = x
  OBVIOUS
<1>2. CASE x = row
  <2>1. A = {1}
    BY <1>1, <1>2
  <2> QED
    BY <1>2, <2>1, FS_Singleton DEF Times
<1>3. CASE x # row
  <2>1. A = {}
    BY <1>1, <1>3
  <2> QED
    BY <1>3, <2>1, FS_EmptySet DEF Times
<1> QED
  BY <1>2, <1>3

-----------------------------------------------------------------------------
(* Wrapping addition *)

LEMMA Remainder ==
    ASSUME NEW a \in Nat, NEW M \in Nat \ {0}
    PROVE  /\ a \div M \in Nat /\ a % M \in 0..(M - 1)
           /\ (a \div M) * M \in Nat /\ a = (a \div M) * M + (a % M)
<1>1. a \div M \in Nat /\ a % M \in 0..(M - 1)
  OBVIOUS
<1>2. a = (a \div M) * M + (a % M)
  OBVIOUS
<1>3. (a \div M) * M \in Nat
  BY <1>1
<1> QED
  BY <1>1, <1>2, <1>3

LEMMA RemainderOfMultiple ==
    ASSUME NEW q \in Nat, NEW M \in Nat \ {0}, NEW r \in 0..(M - 1)
    PROVE  (q * M + r) % M = r
OBVIOUS

LEMMA SumOfMultiples ==
    ASSUME NEW p \in Nat, NEW q \in Nat, NEW M \in Nat
    PROVE  p * M + q * M = (p + q) * M
OBVIOUS

LEMMA WrapsOnce ==
    ASSUME NEW a \in Nat, NEW b \in Nat, NEW M \in Nat \ {0}
    PROVE  ((a % M) + b) % M = (a + b) % M
<1> DEFINE q == a \div M
           r == a % M
           p == (r + b) \div M
           t == (r + b) % M
<1>1. q \in Nat /\ r \in 0..(M - 1) /\ q * M \in Nat /\ a = q * M + r
  BY Remainder
<1> HIDE DEF q, r
<1>2. r + b \in Nat
  BY <1>1
<1>3. p \in Nat /\ t \in 0..(M - 1) /\ p * M \in Nat /\ r + b = p * M + t
  BY <1>2, Remainder
<1> HIDE DEF p, t
<1>4. q * M + p * M = (q + p) * M /\ q + p \in Nat
  BY <1>1, <1>3, SumOfMultiples
<1>5. a + b = (q + p) * M + t
  BY <1>1, <1>3, <1>4
<1>6. ((q + p) * M + t) % M = t
  BY <1>3, <1>4, RemainderOfMultiple
<1> QED
  BY <1>5, <1>6 DEF t, r

-----------------------------------------------------------------------------
(* The sum over the distinct rows *)

Some(s) == CHOOSE x \in s : TRUE

\* g sums c over the sets of D, taking an element out at a time.
IsSum(D, c, g) ==
    \A s \in D : g[s] = IF s = {} THEN 0 ELSE g[s \ {Some(s)}] + c[Some(s)]

Small(n) == {s \in SUBSET IngestRows : Cardinality(s) <= n}

LEMMA OneLess ==
    ASSUME NEW s \in SUBSET IngestRows
    PROVE  /\ Cardinality(s) \in Nat /\ (Cardinality(s) = 0 <=> s = {})
           /\ s # {} => /\ Some(s) \in s /\ Some(s) \in IngestRows
                        /\ s \ {Some(s)} \in SUBSET IngestRows
                        /\ Cardinality(s \ {Some(s)}) = Cardinality(s) - 1
<1>1. IsFiniteSet(s)
  BY HashAssumption, FS_Subset
<1>2. s # {} => Some(s) \in s
  BY DEF Some
<1>3. s # {} => Cardinality(s \ {Some(s)}) = Cardinality(s) - 1
  BY <1>1, <1>2, FS_RemoveElement
<1>4. Cardinality(s) \in Nat
  BY <1>1, FS_CardinalityType
<1>5. Cardinality(s) = 0 <=> s = {}
  BY <1>1, FS_EmptySet
<1> QED
  BY <1>2, <1>3, <1>4, <1>5

LEMMA SumGrows ==
    ASSUME NEW c \in [IngestRows -> Nat], NEW n \in Nat,
           NEW g \in [Small(n) -> Nat], IsSum(Small(n), c, g)
    PROVE  \E h \in [Small(n + 1) -> Nat] : IsSum(Small(n + 1), c, h)
<1> DEFINE h == [s \in Small(n + 1) |-> IF s = {} THEN 0 ELSE g[s \ {Some(s)}] + c[Some(s)]]
<1>1. ASSUME NEW s \in Small(n + 1), s # {}
      PROVE  /\ s \ {Some(s)} \in Small(n) /\ s \ {Some(s)} \in Small(n + 1)
             /\ Some(s) \in IngestRows
  <2>1. s \in SUBSET IngestRows /\ Cardinality(s) <= n + 1
    BY DEF Small
  <2>2. Cardinality(s \ {Some(s)}) <= n /\ Cardinality(s \ {Some(s)}) <= n + 1
    BY <1>1, <2>1, OneLess
  <2> QED
    BY <1>1, <2>1, <2>2, OneLess DEF Small
<1>2. h \in [Small(n + 1) -> Nat]
  BY <1>1
<1>3. ASSUME NEW s \in Small(n) PROVE h[s] = g[s]
  <2>1. s \in Small(n + 1)
    <3>1. s \in SUBSET IngestRows /\ Cardinality(s) <= n
      BY DEF Small
    <3>2. Cardinality(s) \in Nat
      BY <3>1, OneLess
    <3> QED
      BY <3>1, <3>2 DEF Small
  <2> QED
    BY <2>1 DEF IsSum
<1>4. \A s \in Small(n + 1) :
         h[s] = IF s = {} THEN 0 ELSE g[s \ {Some(s)}] + c[Some(s)]
  OBVIOUS
<1> HIDE DEF h
<1>5. IsSum(Small(n + 1), c, h)
  BY <1>1, <1>3, <1>4 DEF IsSum
<1> QED
  BY <1>2, <1>5

LEMMA SumExists ==
    ASSUME NEW c \in [IngestRows -> Nat]
    PROVE  \E g \in [SUBSET IngestRows -> Nat] : IsSum(SUBSET IngestRows, c, g)
<1> DEFINE Built(n) == \E g \in [Small(n) -> Nat] : IsSum(Small(n), c, g)
           S == {n \in Nat : Built(n)}
<1>1. Built(0)
  <2> DEFINE g == [s \in Small(0) |-> 0]
  <2>1. \A s \in Small(0) : s = {}
    <3> SUFFICES ASSUME NEW s \in Small(0) PROVE s = {}
      OBVIOUS
    <3>1. s \in SUBSET IngestRows /\ Cardinality(s) <= 0
      BY DEF Small
    <3>2. Cardinality(s) \in Nat /\ (Cardinality(s) = 0 <=> s = {})
      BY <3>1, OneLess
    <3> QED
      BY <3>1, <3>2
  <2>2. g \in [Small(0) -> Nat] /\ IsSum(Small(0), c, g)
    BY <2>1 DEF IsSum
  <2> HIDE DEF g
  <2> QED
    BY <2>2
<1>2. ASSUME NEW n \in Nat, Built(n) PROVE Built(n + 1)
  BY <1>2, SumGrows
<1> HIDE DEF Built
<1>3. Cardinality(IngestRows) \in Nat
  BY OneLess
<1>4. Built(Cardinality(IngestRows))
  <2>1. 0 \in S /\ \A n \in Nat : n \in S => n + 1 \in S
    BY <1>1, <1>2
  <2> HIDE DEF S
  <2>2. Cardinality(IngestRows) \in S
    BY <1>3, <2>1, NatSetInduction
  <2> QED
    BY <2>2 DEF S
<1>5. Small(Cardinality(IngestRows)) = SUBSET IngestRows
  BY HashAssumption, FS_Subset DEF Small
<1> QED
  BY <1>4, <1>5 DEF Built

LEMMA SumOfNone ==
    ASSUME NEW c, NEW g, IsSum(SUBSET IngestRows, c, g)
    PROVE  g[{}] = 0
<1>1. {} \in SUBSET IngestRows
  OBVIOUS
<1> QED
  BY <1>1, Zenon DEF IsSum

LEMMA SetInduction ==
    ASSUME NEW P, {} \in P,
           \A s \in SUBSET IngestRows : s # {} /\ s \ {Some(s)} \in P => s \in P
    PROVE  \A s \in SUBSET IngestRows : s \in P
<1> DEFINE S == {n \in Nat : \A s \in SUBSET IngestRows : Cardinality(s) = n => s \in P}
<1>1. 0 \in S
  BY OneLess
<1>2. ASSUME NEW n \in Nat, n \in S PROVE n + 1 \in S
  <2> SUFFICES ASSUME NEW s \in SUBSET IngestRows, Cardinality(s) = n + 1
               PROVE  s \in P
    OBVIOUS
  <2>1. s # {} /\ s \ {Some(s)} \in SUBSET IngestRows /\ Cardinality(s \ {Some(s)}) = n
    <3>1. s # {}
      <4>1. Cardinality(s) # 0
        OBVIOUS
      <4> QED
        BY <4>1, OneLess
    <3>2. s \ {Some(s)} \in SUBSET IngestRows
          /\ Cardinality(s \ {Some(s)}) = Cardinality(s) - 1
      BY <3>1, OneLess
    <3> QED
      BY <3>1, <3>2
  <2>2. s \ {Some(s)} \in P
    BY <1>2, <2>1
  <2> QED
    BY <2>1, <2>2
<1> HIDE DEF S
<1>3. \A n \in Nat : n \in S
  BY <1>1, <1>2, NatSetInduction
<1> QED
  BY <1>3, OneLess DEF S

\* The sum that CountsAreOfTheMultiset takes the fingerprint for.
Total(w) == FoldSet(LAMBDA row, sum : sum + Times(w, row) * hash[row], 0, IngestRows)
Share(w) == [row \in IngestRows |-> Times(w, row) * hash[row]]

LEMMA ShareOfRow ==
    ASSUME NEW w \in Seq(IngestRows), hash \in [IngestRows -> Nat]
    PROVE  Share(w) \in [IngestRows -> Nat]
<1>1. \A row \in IngestRows : Times(w, row) \in Nat /\ hash[row] \in Nat
  BY TimesIsANumber
<1>2. \A a, b \in Nat : a * b \in Nat
  OBVIOUS
<1>3. \A row \in IngestRows : Times(w, row) * hash[row] \in Nat
  BY <1>1, <1>2
<1> QED
  BY <1>3 DEF Share

LEMMA TotalIsASum ==
    ASSUME NEW w \in Seq(IngestRows), hash \in [IngestRows -> Nat]
    PROVE  \E g : /\ \A s \in SUBSET IngestRows : g[s] \in Nat
                  /\ IsSum(SUBSET IngestRows, Share(w), g)
                  /\ Total(w) = g[IngestRows]
<1> DEFINE D == SUBSET IngestRows
           G(g) == g = [s \in D |-> IF s = {} THEN 0
                                    ELSE g[s \ {CHOOSE x \in s : TRUE}]
                                         + Times(w, CHOOSE x \in s : TRUE)
                                           * hash[CHOOSE x \in s : TRUE]]
           g == CHOOSE g : G(g)
<1>1. Total(w) = g[IngestRows]
  BY DEF Total, FoldSet, MapThenFoldSet
<1>2. Share(w) \in [IngestRows -> Nat]
  BY ShareOfRow
<1>3. PICK h \in [D -> Nat] : IsSum(D, Share(w), h)
  BY <1>2, SumExists
<1>4. \A s \in D : s # {} => Share(w)[Some(s)] = Times(w, CHOOSE x \in s : TRUE)
                                                 * hash[CHOOSE x \in s : TRUE]
  BY OneLess DEF Share, Some
<1>5. G(h)
  <2>1. h = [s \in D |-> h[s]]
    BY <1>3
  <2>2. \A s \in D : h[s] = IF s = {} THEN 0
                            ELSE h[s \ {CHOOSE x \in s : TRUE}]
                                 + Times(w, CHOOSE x \in s : TRUE) * hash[CHOOSE x \in s : TRUE]
    <3> SUFFICES ASSUME NEW s \in D
                 PROVE  h[s] = IF s = {} THEN 0
                            ELSE h[s \ {CHOOSE x \in s : TRUE}]
                                 + Times(w, CHOOSE x \in s : TRUE) * hash[CHOOSE x \in s : TRUE]
      OBVIOUS
    <3>1. h[s] = IF s = {} THEN 0 ELSE h[s \ {Some(s)}] + Share(w)[Some(s)]
      BY <1>3 DEF IsSum
    <3> QED
      BY <1>4, <3>1 DEF Some
  <2> HIDE DEF D
  <2> QED
    BY <2>1, <2>2, Zenon
<1>6. G(g)
  <2> HIDE DEF G
  <2> QED
    BY <1>5
<1>7. IsSum(D, Share(w), g)
  <2> HIDE DEF g
  <2>1. g = [s \in D |-> IF s = {} THEN 0
                         ELSE g[s \ {CHOOSE x \in s : TRUE}]
                              + Times(w, CHOOSE x \in s : TRUE) * hash[CHOOSE x \in s : TRUE]]
    BY <1>6, Zenon
  <2> HIDE DEF D, G
  <2>2. \A s \in D : g[s] = IF s = {} THEN 0
                            ELSE g[s \ {CHOOSE x \in s : TRUE}]
                                 + Times(w, CHOOSE x \in s : TRUE) * hash[CHOOSE x \in s : TRUE]
    BY <2>1, Zenon
  <2> SUFFICES ASSUME NEW s \in D
               PROVE  g[s] = IF s = {} THEN 0 ELSE g[s \ {Some(s)}] + Share(w)[Some(s)]
    BY DEF IsSum
  <2> QED
    BY <1>4, <2>2 DEF Some
<1> HIDE DEF g
<1>8. \A s \in D : g[s] \in Nat
  <2> DEFINE P == {s \in D : g[s] \in Nat}
  <2>1. {} \in P
    <3>1. g[{}] = 0
      BY <1>7, SumOfNone
    <3> QED
      BY <3>1
  <2>2. ASSUME NEW s \in SUBSET IngestRows, s # {}, s \ {Some(s)} \in P PROVE s \in P
    <3>1. g[s] = g[s \ {Some(s)}] + Share(w)[Some(s)]
      BY <1>7, <2>2 DEF IsSum
    <3>2. g[s \ {Some(s)}] \in Nat /\ Share(w)[Some(s)] \in Nat
      BY <1>2, <2>2, OneLess
    <3> QED
      BY <3>1, <3>2
  <2> HIDE DEF P
  <2>3. \A s \in SUBSET IngestRows : s \in P
    BY <2>1, <2>2, SetInduction
  <2> QED
    BY <2>3 DEF P
<1> QED
  BY <1>1, <1>7, <1>8

LEMMA TotalIsANumber ==
    ASSUME NEW w \in Seq(IngestRows), hash \in [IngestRows -> Nat]
    PROVE  Total(w) \in Nat
BY TotalIsASum

LEMMA TotalOfOneMore ==
    ASSUME NEW w \in Seq(IngestRows), NEW x \in IngestRows, hash \in [IngestRows -> Nat]
    PROVE  /\ w \o <<x>> \in Seq(IngestRows)
           /\ Total(w \o <<x>>) = Total(w) + hash[x]
<1> DEFINE v == w \o <<x>>
           extra(s) == IF x \in s THEN hash[x] ELSE 0
<1>1. v \in Seq(IngestRows) /\ <<x>> \in Seq(IngestRows) /\ hash[x] \in Nat
  OBVIOUS
<1>2. \A row \in IngestRows : Share(v)[row] = Share(w)[row] + (IF x = row THEN hash[x] ELSE 0)
  <2> SUFFICES ASSUME NEW row \in IngestRows
               PROVE  Share(v)[row] = Share(w)[row] + (IF x = row THEN hash[x] ELSE 0)
    OBVIOUS
  <2>1. Times(v, row) = Times(w, row) + (IF x = row THEN 1 ELSE 0)
    <3>1. Times(v, row) = Times(w, row) + Times(<<x>>, row)
      BY <1>1, TimesOfConcat
    <3> QED
      BY <3>1, TimesOfOne
  <2>2. Share(v)[row] = Times(v, row) * hash[row] /\ Share(w)[row] = Times(w, row) * hash[row]
    BY DEF Share
  <2>3. Times(w, row) \in Nat /\ hash[row] \in Nat
    BY TimesIsANumber
  <2>4. \A a, b \in Nat : (a + 1) * b = a * b + b /\ (a + 0) * b = a * b + 0
    OBVIOUS
  <2> HIDE DEF v
  <2>5. CASE x = row
    BY <2>1, <2>2, <2>3, <2>4, <2>5
  <2>6. CASE x # row
    BY <2>1, <2>2, <2>3, <2>4, <2>6
  <2> QED
    BY <2>5, <2>6
<1> HIDE DEF v
<1>3. PICK g : /\ \A s \in SUBSET IngestRows : g[s] \in Nat
               /\ IsSum(SUBSET IngestRows, Share(w), g) /\ Total(w) = g[IngestRows]
  BY TotalIsASum
<1>4. PICK h : /\ \A s \in SUBSET IngestRows : h[s] \in Nat
               /\ IsSum(SUBSET IngestRows, Share(v), h) /\ Total(v) = h[IngestRows]
  BY <1>1, TotalIsASum
<1> DEFINE P == {s \in SUBSET IngestRows : h[s] = g[s] + extra(s)}
<1>5. {} \in P
  <2>1. g[{}] = 0 /\ h[{}] = 0
    BY <1>3, <1>4, SumOfNone
  <2> QED
    BY <2>1
<1>6. ASSUME NEW s \in SUBSET IngestRows, s # {}, s \ {Some(s)} \in P PROVE s \in P
  <2> DEFINE e == Some(s)
             r == s \ {e}
  <2>1. /\ g[s] = g[r] + Share(w)[e] /\ h[s] = h[r] + Share(v)[e]
        /\ h[r] = g[r] + extra(r)
    BY <1>3, <1>4, <1>6 DEF IsSum
  <2>2. e \in s /\ e \in IngestRows /\ r \in SUBSET IngestRows
    BY <1>6, OneLess
  <2>3. Share(v)[e] = Share(w)[e] + (IF x = e THEN hash[x] ELSE 0)
    BY <1>2, <2>2
  <2>4. g[r] \in Nat /\ Share(w)[e] \in Nat
    BY <1>3, <2>2, ShareOfRow
  <2>5. extra(s) = extra(r) + (IF x = e THEN hash[x] ELSE 0)
    BY <1>1, <2>2
  <2>6. extra(r) \in Nat
    BY <1>1
  <2> HIDE DEF e, r, extra
  <2>7. h[s] = g[s] + extra(s)
    BY <1>1, <2>1, <2>3, <2>4, <2>5, <2>6
  <2> QED
    BY <2>7 DEF extra
<1> HIDE DEF P
<1>7. IngestRows \in P
  BY <1>5, <1>6, SetInduction
<1>8. h[IngestRows] = g[IngestRows] + hash[x]
  BY <1>7 DEF P
<1> QED
  BY <1>1, <1>3, <1>4, <1>8 DEF v

-----------------------------------------------------------------------------
(* The running fingerprint *)

LEMMA AccumulateIsAFold ==
    ASSUME NEW acc \in Nat, NEW b \in Seq(IngestRows), hash \in [IngestRows -> Nat]
    PROVE  \E u \in [0..Len(b) -> Nat] :
              /\ u[0] = acc
              /\ \A k \in 0..(Len(b) - 1) : u[k + 1] = (u[k] + hash[b[k + 1]]) % Modulus
              /\ AccumulateBatchDigest(acc, b) = u[Len(b)]
<1> DEFINE n == Len(b)
           G(g) == g = [s \in SUBSET DOMAIN b |->
                           IF s = {} THEN acc ELSE (g[s \ {Max(s)}] + hash[b[Max(s)]]) % Modulus]
           op == [p \in (1..n) \X Nat |-> (p[2] + hash[b[p[1]]]) % Modulus]
<1>1. DOMAIN b = 1..n /\ n \in Nat /\ \A i \in 1..n : hash[b[i]] \in Nat
  OBVIOUS
<1>2. AccumulateBatchDigest(acc, b) = (CHOOSE g : G(g))[DOMAIN b]
  BY DEF AccumulateBatchDigest, FoldLeft, MapThenFoldSet
<1>3. op \in [(1..n) \X Nat -> Nat]
  <2>1. Modulus \in Nat \ {0}
    BY HashAssumption
  <2>2. \A a, c \in Nat : (a + c) % Modulus \in Nat
    BY <2>1
  <2>3. \A p \in (1..n) \X Nat : p[1] \in 1..n /\ p[2] \in Nat
    OBVIOUS
  <2>4. \A p \in (1..n) \X Nat : (p[2] + hash[b[p[1]]]) % Modulus \in Nat
    BY <1>1, <2>2, <2>3
  <2> QED
    BY <2>4
<1>4. \A i \in 1..n, a \in Nat : op[<<i, a>>] = (a + hash[b[i]]) % Modulus
  OBVIOUS
<1>5. PICK h \in [SUBSET (1..n) -> Nat] : FoldsFrom(n, acc, op, h)
  <2> HIDE DEF op, n
  <2> QED
    BY <1>1, <1>3, FoldExists, Zenon
<1>6. \A s \in SUBSET (1..n) :
         s # {} => Max(s) \in 1..n /\ s \ {Max(s)} \in SUBSET (1..n)
  BY <1>1, MaxOfNaturals
<1>7. \A s \in SUBSET (1..n) :
         h[s] = IF s = {} THEN acc ELSE (h[s \ {Max(s)}] + hash[b[Max(s)]]) % Modulus
  <2> HIDE DEF op, n
  <2> QED
    BY <1>4, <1>5, <1>6 DEF FoldsFrom
<1>8. G(h)
  <2> HIDE DEF op, n
  <2>1. h = [s \in SUBSET (1..n) |-> h[s]]
    BY <1>5
  <2>2. [s \in SUBSET (1..n) |-> h[s]]
          = [s \in SUBSET (1..n) |->
                IF s = {} THEN acc ELSE (h[s \ {Max(s)}] + hash[b[Max(s)]]) % Modulus]
    BY <1>7, Zenon
  <2> QED
    BY <1>1, <2>1, <2>2, Zenon
<1> DEFINE g == CHOOSE g : G(g)
<1>9. G(g)
  <2> HIDE DEF G
  <2> QED
    BY <1>8
<1>10. \A s \in SUBSET (1..n) :
          g[s] = IF s = {} THEN acc ELSE (g[s \ {Max(s)}] + hash[b[Max(s)]]) % Modulus
  <2> HIDE DEF g
  <2>1. g = [s \in SUBSET (1..n) |->
                IF s = {} THEN acc ELSE (g[s \ {Max(s)}] + hash[b[Max(s)]]) % Modulus]
    BY <1>1, <1>9, Zenon
  <2> HIDE DEF n, G
  <2> QED
    BY <2>1, Zenon
<1>11. AccumulateBatchDigest(acc, b) = g[1..n]
  BY <1>1, <1>2
<1> HIDE DEF g, op, n, G
<1>12. {} \in SUBSET (1..n)
  OBVIOUS
<1>13. IsFold(Nat, acc, n, op, g)
  BY <1>1, <1>3, <1>4, <1>6, <1>10, <1>12 DEF IsFold
<1>14. PICK u : Takes(Nat, acc, n, op, g[1..n], u)
  BY <1>13, FoldTakes
<1>15. \A k \in 0..(n - 1) : u[k + 1] = (u[k] + hash[b[k + 1]]) % Modulus
  <2>1. \A k \in 0..(n - 1) : k + 1 \in 1..n /\ u[k] \in Nat
    BY <1>1, <1>14 DEF Takes
  <2> QED
    BY <1>4, <1>14, <2>1 DEF Takes
<1> QED
  BY <1>11, <1>14, <1>15 DEF n, Takes

LEMMA AccumulateAddsTotal ==
    ASSUME NEW w \in Seq(IngestRows), NEW b \in Seq(IngestRows), hash \in [IngestRows -> Nat]
    PROVE  AccumulateBatchDigest(Total(w) % Modulus, b) = Total(w \o b) % Modulus
<1> DEFINE n == Len(b)
           acc == Total(w) % Modulus
           pre(k) == [i \in 1..k |-> b[i]]
<1>1. n \in Nat /\ \A k \in 1..n : b[k] \in IngestRows
  OBVIOUS
<1>2. Modulus \in Nat \ {0}
  BY HashAssumption
<1>3. acc \in Nat
  BY <1>2, TotalIsANumber
<1> HIDE DEF acc
<1>4. PICK u \in [0..n -> Nat] :
         /\ u[0] = acc
         /\ \A k \in 0..(n - 1) : u[k + 1] = (u[k] + hash[b[k + 1]]) % Modulus
         /\ AccumulateBatchDigest(acc, b) = u[n]
  BY <1>3, AccumulateIsAFold
<1>5. \A k \in 0..n : pre(k) \in Seq(IngestRows)
  OBVIOUS
<1> DEFINE S == {k \in Nat : k > n \/ u[k] = Total(w \o pre(k)) % Modulus}
<1>6. 0 \in S
  <2>1. pre(0) = <<>>
    OBVIOUS
  <2>2. w \o pre(0) = w
    BY <2>1, ConcatEmptySeq
  <2> QED
    BY <1>4, <2>2 DEF acc
<1>7. ASSUME NEW k \in Nat, k \in S PROVE k + 1 \in S
  <2>1. CASE k + 1 > n
    BY <2>1
  <2>2. CASE k + 1 <= n
    <3> DEFINE x == b[k + 1]
               v == w \o pre(k)
    <3>1. k \in 0..(n - 1) /\ k \in 0..n /\ k + 1 \in 1..n
      BY <1>1, <2>2
    <3>2. u[k] = Total(v) % Modulus
      BY <1>7, <3>1
    <3>3. x \in IngestRows /\ pre(k) \in Seq(IngestRows) /\ <<x>> \in Seq(IngestRows)
      BY <1>1, <1>5, <3>1
    <3>4. v \in Seq(IngestRows)
      BY <3>3, ConcatProperties
    <3>5. pre(k + 1) = Append(pre(k), x)
      <4> DEFINE f == pre(k + 1)
      <4>1. f \in [1..(k + 1) -> IngestRows] /\ \A i \in 1..(k + 1) : f[i] = b[i]
        BY <1>1, <3>1
      <4>2. [i \in 1..k |-> f[i]] = pre(k) /\ f[k + 1] = x
        BY <4>1
      <4> HIDE DEF f, x
      <4>3. Append([i \in 1..k |-> f[i]], f[k + 1]) = f
        BY <4>1, AppendNext
      <4> QED
        BY <4>2, <4>3 DEF f
    <3> HIDE DEF pre, x
    <3>6. w \o pre(k + 1) = v \o <<x>>
      <4>1. Append(pre(k), x) = pre(k) \o <<x>>
        BY <3>3, AppendIsConcat
      <4>2. (w \o pre(k)) \o <<x>> = w \o (pre(k) \o <<x>>)
        <5> DEFINE p == pre(k)
                   y == <<x>>
        <5>1. w \in Seq(IngestRows) /\ p \in Seq(IngestRows) /\ y \in Seq(IngestRows)
          BY <3>3
        <5> HIDE DEF p, y
        <5>2. (w \o p) \o y = w \o (p \o y)
          BY <5>1, ConcatAssociative
        <5> QED
          BY <5>2 DEF p, y
      <4> QED
        BY <3>5, <4>1, <4>2
    <3> HIDE DEF v
    <3>7. Total(v \o <<x>>) = Total(v) + hash[x] /\ Total(v) \in Nat /\ hash[x] \in Nat
      BY <3>3, <3>4, TotalOfOneMore, TotalIsANumber
    <3>8. u[k + 1] = ((Total(v) % Modulus) + hash[x]) % Modulus
      BY <1>4, <3>1, <3>2 DEF x
    <3>9. u[k + 1] = (Total(v) + hash[x]) % Modulus
      BY <1>2, <3>7, <3>8, WrapsOnce
    <3>10. u[k + 1] = Total(w \o pre(k + 1)) % Modulus
      BY <3>6, <3>7, <3>9
    <3> QED
      BY <3>10 DEF pre
  <2> HIDE DEF S
  <2> QED
    BY <1>1, <2>1, <2>2
<1> HIDE DEF S
<1>8. n \in S
  BY <1>1, <1>6, <1>7, NatSetInduction
<1>9. u[n] = Total(w \o pre(n)) % Modulus
  BY <1>1, <1>8 DEF S
<1>10. pre(n) = b
  BY <1>1
<1> QED
  BY <1>4, <1>9, <1>10 DEF acc

-----------------------------------------------------------------------------
(* The rows a run has taken *)

\* The rows in the first k batches.
Upto(k) == IF k * BatchSize <= Len(rows) THEN k * BatchSize ELSE Len(rows)

LEMMA RowsRead ==
    ASSUME StreamInv
    PROVE  /\ rows \in Seq(ValuesOf(file)) /\ Len(rows) = at - 1 /\ Len(rows) \in Nat
           /\ sent \in Seq(Seq(ValuesOf(file))) /\ Len(sent) \in Nat
<1>1. rows = Whole(file, at - 1) /\ at - 1 \in Nat /\ at - 1 <= Len(file.records)
      /\ Len(file.records) \in Nat
  BY FileFields DEF StreamInv
<1>2. Whole(file, at - 1) \in [1..(at - 1) -> ValuesOf(file)]
  BY <1>1 DEF Whole, ValuesOf
<1>3. rows \in Seq(ValuesOf(file)) /\ Len(rows) = at - 1
  BY <1>1, <1>2
<1>4. sent \in Seq(Seq(ValuesOf(file)))
  <2>1. CASE Ended
    <3> DEFINE n == (Len(rows) + BatchSize - 1) \div BatchSize
    <3>1. n \in Nat
      BY <1>1, <1>3, BoundsAssumption
    <3>2. \A i \in 1..n :
             SubSeq(rows, (i - 1) * BatchSize + 1,
                    IF i * BatchSize < Len(rows) THEN i * BatchSize ELSE Len(rows))
               \in Seq(ValuesOf(file))
      <4> SUFFICES ASSUME NEW i \in 1..n
                   PROVE  SubSeq(rows, (i - 1) * BatchSize + 1,
                            IF i * BatchSize < Len(rows) THEN i * BatchSize ELSE Len(rows))
                            \in Seq(ValuesOf(file))
        OBVIOUS
      <4> DEFINE a == (i - 1) * BatchSize + 1
                 z == IF i * BatchSize < Len(rows) THEN i * BatchSize ELSE Len(rows)
      <4>1. i - 1 \in Nat /\ i \in Nat /\ BatchSize \in Nat
        BY <3>1, BoundsAssumption
      <4>2. (i - 1) * BatchSize \in Nat /\ i * BatchSize \in Nat
        BY <4>1, Multiples
      <4>3. a \in Nat /\ a >= 1 /\ z \in Nat /\ z <= Len(rows)
        BY <1>1, <1>3, <4>2
      <4> HIDE DEF a, z
      <4>4. \A j \in a..z : rows[j] \in ValuesOf(file)
        BY <1>3, <4>3, ElementOfSeq
      <4>5. SubSeq(rows, a, z) \in Seq(ValuesOf(file))
        BY <4>3, <4>4, SubSeqProperties
      <4> QED
        BY <4>5 DEF a, z
    <3>3. sent = [i \in 1..n |->
             SubSeq(rows, (i - 1) * BatchSize + 1,
                    IF i * BatchSize < Len(rows) THEN i * BatchSize ELSE Len(rows))]
      BY <2>1 DEF Ended, Chunks
    <3> HIDE DEF n
    <3>4. sent \in [1..n -> Seq(ValuesOf(file))]
      BY <3>2, <3>3
    <3> QED
      BY <3>1, <3>4, FunctionIsSequence
  <2>2. CASE Reading \/ Stopped
    BY <2>2 DEF Reading, Stopped, Batched
  <2> QED
    BY <2>1, <2>2 DEF StreamInv
<1> QED
  BY <1>1, <1>3, <1>4

LEMMA SentBatch ==
    ASSUME StreamInv, NEW k \in Nat, k < Len(sent)
    PROVE  /\ k * BatchSize \in Nat /\ k * BatchSize <= Upto(k + 1)
           /\ Upto(k + 1) \in Nat /\ Upto(k + 1) <= Len(rows)
           /\ Upto(k) = k * BatchSize
           /\ sent[k + 1] = SubSeq(rows, k * BatchSize + 1, Upto(k + 1))
<1>1. /\ BatchSize \in Nat \ {0} /\ k * BatchSize \in Nat /\ (k + 1) * BatchSize \in Nat
      /\ (k + 1) * BatchSize = k * BatchSize + BatchSize
      /\ Len(rows) \in Nat /\ Len(sent) \in Nat
  BY RowsRead, BoundsAssumption, Multiples
<1>2. k * BatchSize <= Len(rows)
      /\ sent[k + 1] = SubSeq(rows, k * BatchSize + 1, Upto(k + 1))
  <2>1. CASE Reading \/ Stopped
    <3>1. Batched(ValuesOf(file), rows, sent, chunk)
      BY <2>1 DEF Reading, Stopped
    <3>2. /\ Len(rows) = Len(sent) * BatchSize + Len(chunk) /\ Len(chunk) \in Nat
          /\ \A i \in 1..Len(sent) : sent[i] = Slice(rows, i)
      BY <3>1 DEF Batched
    <3>3. k * BatchSize + BatchSize <= Len(sent) * BatchSize /\ Len(sent) * BatchSize \in Nat
      BY <1>1, Multiples
    <3>4. (k + 1) * BatchSize <= Len(rows)
      BY <1>1, <3>2, <3>3
    <3>5. k + 1 \in 1..Len(sent) /\ (k + 1) - 1 = k
      BY <1>1
    <3>6. sent[k + 1] = SubSeq(rows, k * BatchSize + 1, (k + 1) * BatchSize)
      BY <3>2, <3>5 DEF Slice
    <3> QED
      BY <1>1, <3>4, <3>6 DEF Upto
  <2>2. CASE Ended
    <3> DEFINE n == (Len(rows) + BatchSize - 1) \div BatchSize
               c == [i \in 1..n |->
                       SubSeq(rows, (i - 1) * BatchSize + 1,
                              IF i * BatchSize < Len(rows) THEN i * BatchSize ELSE Len(rows))]
    <3>1. sent = c
      BY <2>2 DEF Ended, Chunks
    <3>2. n \in Nat /\ n * BatchSize <= Len(rows) + BatchSize - 1
      <4>1. Len(rows) + BatchSize - 1 \in Nat
        BY <1>1
      <4> DEFINE x == Len(rows) + BatchSize - 1
      <4> HIDE DEF x
      <4>2. /\ x \div BatchSize \in Nat /\ x % BatchSize \in 0..(BatchSize - 1)
            /\ (x \div BatchSize) * BatchSize \in Nat
            /\ x = (x \div BatchSize) * BatchSize + (x % BatchSize)
        BY <1>1, <4>1, Remainder DEF x
      <4>3. (x \div BatchSize) * BatchSize <= x
        BY <1>1, <4>2
      <4> QED
        BY <4>2, <4>3 DEF x
    <3>3. Len(c) = n
      BY <3>2
    <3>4. k < n
      BY <3>1, <3>3
    <3> HIDE DEF n
    <3>5. k * BatchSize + BatchSize <= n * BatchSize /\ n * BatchSize \in Nat
      BY <1>1, <3>2, <3>4, Multiples
    <3>6. k * BatchSize <= Len(rows)
      BY <1>1, <3>2, <3>5
    <3>7. k + 1 \in 1..n /\ (k + 1) - 1 = k
      BY <3>2, <3>4
    <3>8. sent[k + 1] = SubSeq(rows, k * BatchSize + 1,
              IF (k + 1) * BatchSize < Len(rows) THEN (k + 1) * BatchSize ELSE Len(rows))
      BY <3>1, <3>7
    <3>9. (IF (k + 1) * BatchSize < Len(rows) THEN (k + 1) * BatchSize ELSE Len(rows))
             = Upto(k + 1)
      BY <1>1 DEF Upto
    <3> QED
      BY <3>6, <3>8, <3>9
  <2> QED
    BY <2>1, <2>2 DEF StreamInv
<1> QED
  BY <1>1, <1>2 DEF Upto

LEMMA NothingSent == ASSUME StreamInv, NEW k \in Nat PROVE Upto(k) \in 0..Len(rows)
<1>1. k * BatchSize \in Nat /\ Len(rows) \in Nat
  BY RowsRead, BoundsAssumption, Multiples
<1> QED
  BY <1>1 DEF Upto

LEMMA AllSent == ASSUME StreamInv, Ended PROVE Upto(Len(sent)) = Len(rows)
<1>1. BatchSize \in Nat \ {0} /\ Len(rows) \in Nat
  BY RowsRead, BoundsAssumption
<1> DEFINE x == Len(rows) + BatchSize - 1
           n == x \div BatchSize
<1>2. x \in Nat
  BY <1>1
<1>3. n \in Nat /\ x % BatchSize \in 0..(BatchSize - 1) /\ n * BatchSize \in Nat
      /\ x = n * BatchSize + (x % BatchSize)
  <2> HIDE DEF x
  <2> QED
    BY <1>1, <1>2, Remainder
<1>4. Len(sent) = n
  <2>1. sent = Chunks(rows)
    BY DEF Ended
  <2>2. Len(Chunks(rows)) = n
    BY <1>3 DEF Chunks
  <2> QED
    BY <2>1, <2>2
<1> HIDE DEF n
<1>5. n * BatchSize >= Len(rows)
  BY <1>1, <1>3 DEF x
<1>6. n * BatchSize <= Len(rows) => n * BatchSize = Len(rows)
  BY <1>1, <1>3, <1>5
<1> QED
  BY <1>4, <1>6 DEF Upto

LEMMA IngestRowsRead ==
    ASSUME StreamInv, file.table = "ingest"
    PROVE  rows \in Seq(IngestRows)
<1>1. /\ file \in Files /\ Len(file.records) \in Nat /\ DOMAIN file.records = 1..Len(file.records)
      /\ at \in 1..(Len(file.records) + 1) /\ rows = Whole(file, at - 1)
      /\ \A i \in 1..(at - 1) : RowAt(file, i).ok = TRUE
  BY FileFields DEF StreamInv
<1>2. \A i \in 1..(at - 1) : RowAt(file, i).value \in IngestRows
  BY <1>1, RowsAssumption DEF RowAt
<1>3. Whole(file, at - 1) \in [1..(at - 1) -> IngestRows]
  BY <1>2 DEF Whole
<1> QED
  BY <1>1, <1>3, FunctionIsSequence

LEMMA TransformedBatch ==
    ASSUME NEW V, NEW c \in Seq(V), NEW b \in Transformed(c)
    PROVE  /\ b \in Seq(V) /\ Len(b) \in Nat /\ Len(c) \in Nat /\ Len(b) <= Len(c)
           /\ Len(b) = Len(c) => \A row : Times(b, row) = Times(c, row)
<1>1. b = c \/ b = Reverse(c) \/ b = <<>>
  BY DEF Transformed
<1>2. Len(c) \in Nat
  OBVIOUS
<1>3. CASE b = c
  BY <1>2, <1>3
<1>4. CASE b = Reverse(c)
  BY <1>2, <1>4, TimesOfReverse
<1>5. CASE b = <<>>
  <2>1. <<>> \in Seq(V) /\ Len(<<>>) = 0
    OBVIOUS
  <2>2. Len(c) = 0 => c = <<>>
    BY EmptySeq
  <2> QED
    BY <1>2, <1>5, <2>1, <2>2
<1> QED
  BY <1>1, <1>3, <1>4, <1>5

-----------------------------------------------------------------------------
(* What the record says of the run *)

\* w holds each row as often as the first n of from do.
Kept(w, from, n) == \A row \in IngestRows : Times(w, row) = Times(SubSeq(from, 1, n), row)

WrittenIsTaken ==
    /\ taken \in 0..Len(sent)
    /\ Len(written) <= Upto(taken)
    /\ Len(written) = Upto(taken) => Kept(written, rows, Upto(taken))

Completed ==
    /\ phase = "handed over" /\ taken = Len(sent)
    /\ outcome.done = TRUE /\ outcome.ok = TRUE

\* The fingerprint is of what was written; what was written is, if nothing was
\* dropped, what was taken of the rows; and the record comes after all of it.
RunInv ==
    /\ hash \in Hashes
    /\ phase = "handed over" => kind = "remote"
    /\ kind = "remote" => file.table = "ingest"
    /\ written \in Seq(IngestRows)
    /\ count = Len(written) /\ running = Total(written) % Modulus
    /\ WrittenIsTaken
    /\ kind = "remote" /\ recordPhase \in {"captured", "published", "read"} => Completed
    /\ kind = "remote" /\ record # NoRecord => record.rowCount = count

LEMMA HashOfRows == ASSUME hash \in Hashes PROVE hash \in [IngestRows -> Nat]
<1>1. hash \in [IngestRows -> 0..(Modulus - 1)] /\ Modulus \in Nat \ {0}
  BY HashAssumption
<1> QED
  BY <1>1

LEMMA NothingKept ==
    ASSUME NEW from, NEW w, Len(w) = 0, w = <<>>
    PROVE  Kept(w, from, 0)
<1>1. SubSeq(from, 1, 0) = <<>>
  OBVIOUS
<1> QED
  BY <1>1 DEF Kept

LEMMA TotalOfNone == ASSUME hash \in Hashes PROVE Total(<<>>) % Modulus = 0
<1> DEFINE w == <<>>
<1>1. w \in Seq(IngestRows) /\ hash \in [IngestRows -> Nat] /\ Modulus \in Nat \ {0}
  BY HashOfRows, HashAssumption
<1>2. PICK g : /\ \A s \in SUBSET IngestRows : g[s] \in Nat
               /\ IsSum(SUBSET IngestRows, Share(w), g) /\ Total(w) = g[IngestRows]
  BY <1>1, TotalIsASum
<1>3. \A row \in IngestRows : Times(w, row) = 0
  <2> SUFFICES ASSUME NEW row \in IngestRows PROVE Times(w, row) = 0
    OBVIOUS
  <2>1. {i \in DOMAIN w : w[i] = row} = {}
    OBVIOUS
  <2> QED
    BY <2>1, FS_EmptySet DEF Times
<1>4. \A row \in IngestRows : Share(w)[row] = 0
  BY <1>1, <1>3 DEF Share
<1> DEFINE P == {s \in SUBSET IngestRows : g[s] = 0}
<1>5. {} \in P
  BY <1>2, SumOfNone
<1>6. ASSUME NEW s \in SUBSET IngestRows, s # {}, s \ {Some(s)} \in P PROVE s \in P
  <2>1. g[s] = g[s \ {Some(s)}] + Share(w)[Some(s)] /\ g[s \ {Some(s)}] = 0
    BY <1>2, <1>6 DEF IsSum
  <2>2. Share(w)[Some(s)] = 0
    BY <1>4, <1>6, OneLess
  <2> QED
    BY <2>1, <2>2
<1> HIDE DEF P
<1>7. IngestRows \in P
  BY <1>5, <1>6, SetInduction
<1>8. Total(w) = 0
  BY <1>2, <1>7 DEF P
<1> QED
  BY <1>1, <1>8

LEMMA RunInit == ASSUME Entry PROVE RunInv
<1>1. StreamInv /\ taken = 0 /\ sent = <<>> /\ rows = <<>>
  BY StreamInit DEF Entry, Init
<1>2. /\ hash \in Hashes /\ written = <<>> /\ running = 0 /\ count = 0
      /\ phase = "building"
      /\ kind = "remote" => file.table = "ingest"
  BY DEF Entry, NoRun, Local!Init, Local!Unbuilt
<1>3. kind = "remote" => record = NoRecord /\ recordPhase = "writing"
  BY DEF Entry, NoRun
<1>4. written \in Seq(IngestRows) /\ Len(written) = 0 /\ Len(sent) = 0 /\ Len(rows) = 0
  BY <1>1, <1>2
<1>5. Upto(taken) = 0
  BY <1>1, <1>4, BoundsAssumption DEF Upto
<1>6. Kept(written, rows, 0)
  BY <1>2, <1>4, NothingKept
<1>7. WrittenIsTaken
  BY <1>1, <1>4, <1>5, <1>6 DEF WrittenIsTaken
<1>8. running = Total(written) % Modulus
  BY <1>2, TotalOfNone
<1> QED
  BY <1>2, <1>3, <1>4, <1>7, <1>8 DEF RunInv

-----------------------------------------------------------------------------
(* The steps of the run *)

TakenStays ==
    /\ Upto(taken)' = Upto(taken) /\ taken \in 0..Len(sent')
    /\ SubSeq(rows', 1, Upto(taken)) = SubSeq(rows, 1, Upto(taken))

LEMMA ReadingTakesNothing ==
    ASSUME StreamInv, StreamInv', taken \in 0..Len(sent), taken' = taken,
           ReadRecord \/ FailRecord \/ EndOfFile
    PROVE  TakenStays
<1>1. /\ rows \in Seq(ValuesOf(file)) /\ Len(rows) \in Nat
      /\ sent \in Seq(Seq(ValuesOf(file))) /\ Len(sent) \in Nat
      /\ taken \in Nat /\ taken <= Len(sent)
      /\ BatchSize \in Nat \ {0}
  BY RowsRead, BoundsAssumption
<1>2. CASE FailRecord
  BY <1>2 DEF FailRecord, Upto, TakenStays
<1>3. CASE EndOfFile
  <2>1. rows' = rows /\ (sent' = sent \/ sent' = Append(sent, chunk))
    BY <1>3 DEF EndOfFile
  <2>2. ~(outcome.done = TRUE)
    BY <1>3 DEF EndOfFile
  <2>3. chunk \in Seq(ValuesOf(file))
    BY <2>2 DEF StreamInv, Reading, Ended, Stopped, Batched
  <2>4. Len(Append(sent, chunk)) = Len(sent) + 1
    BY <1>1, <2>3
  <2>5. taken \in 0..Len(sent')
    BY <1>1, <2>1, <2>4
  <2> QED
    BY <2>1, <2>5 DEF Upto, TakenStays
<1>4. CASE ReadRecord
  <2> DEFINE row == RowAt(file, at)
             m == taken * BatchSize
  <2>1. /\ rows' = Append(rows, row.value)
        /\ sent' = sent \/ sent' = Append(sent, Append(chunk, row.value))
        /\ ~(outcome.done = TRUE) /\ at <= Len(file.records)
    BY <1>4 DEF ReadRecord, RowAt, InFile
  <2>2. Batched(ValuesOf(file), rows, sent, chunk) /\ at \in 1..(Len(file.records) + 1)
        /\ Len(file.records) \in Nat
    BY <2>1, FileFields DEF StreamInv, Reading, Ended, Stopped
  <2>3. row.value \in ValuesOf(file)
    BY <2>1, <2>2 DEF ValuesOf
  <2> HIDE DEF row
  <2>4. Len(rows) = Len(sent) * BatchSize + Len(chunk) /\ chunk \in Seq(ValuesOf(file))
        /\ Len(chunk) \in Nat
    BY <2>2 DEF Batched
  <2>5. m \in Nat /\ m <= Len(sent) * BatchSize /\ Len(sent) * BatchSize \in Nat
    <3>1. BatchSize \in Nat
      BY <1>1
    <3> QED
      BY <1>1, <3>1, Multiples
  <2>6. m <= Len(rows)
    BY <2>4, <2>5
  <2>7. /\ rows' \in Seq(ValuesOf(file)) /\ Len(rows') = Len(rows) + 1
        /\ \A j \in 1..Len(rows) : rows'[j] = rows[j]
    BY <1>1, <2>1, <2>3
  <2> HIDE DEF m
  <2>8. SubSeq(rows', 1, m) = SubSeq(rows, 1, m)
    <3>1. /\ \A j \in 1..m : rows[j] \in ValuesOf(file)
          /\ \A j \in 1..m : rows'[j] = rows[j]
      BY <1>1, <2>5, <2>6, <2>7
    <3> QED
      BY <2>5, <3>1
  <2>9. Upto(taken) = m /\ Upto(taken)' = m
    BY <1>1, <2>6, <2>7 DEF Upto, m
  <2>10. Append(chunk, row.value) \in Seq(ValuesOf(file))
    BY <2>3, <2>4
  <2>11. taken \in 0..Len(sent')
    <3> DEFINE c == Append(chunk, row.value)
    <3> HIDE DEF c
    <3>1. Len(Append(sent, c)) = Len(sent) + 1
      BY <1>1, <2>10 DEF c
    <3> QED
      BY <1>1, <2>1, <3>1 DEF c
  <2> QED
    BY <2>8, <2>9, <2>11 DEF TakenStays
<1> QED
  BY <1>2, <1>3, <1>4

LEMMA WrittenStays ==
    ASSUME WrittenIsTaken, TakenStays, written' = written, taken' = taken
    PROVE  WrittenIsTaken'
<1>1. /\ taken' \in 0..Len(sent') /\ Len(written') <= Upto(taken)'
      /\ Len(written') = Upto(taken)' => Kept(written, rows, Upto(taken))
  BY DEF WrittenIsTaken, TakenStays
<1>2. Kept(written, rows, Upto(taken)) => Kept(written', rows', Upto(taken)')
  BY DEF Kept, TakenStays
<1> QED
  BY <1>1, <1>2 DEF WrittenIsTaken

\* A batch that was taken is counted, whatever its transform left of it.
LEMMA BatchIsTaken ==
    ASSUME StreamInv, RunInv, kind = "remote", taken < Len(sent),
           NEW b \in Transformed(sent[taken + 1]), WriteBatch(b), taken' = taken + 1,
           UNCHANGED vars
    PROVE  /\ written' \in Seq(IngestRows)
           /\ count' = Len(written') /\ running' = Total(written') % Modulus
           /\ WrittenIsTaken'
<1> DEFINE k == taken
           m == k * BatchSize
           z == Upto(k + 1)
           c == sent[k + 1]
<1>1. /\ rows \in Seq(IngestRows) /\ Len(rows) \in Nat /\ Len(sent) \in Nat
      /\ k \in Nat /\ k < Len(sent) /\ taken' \in 0..Len(sent)
  BY RowsRead, IngestRowsRead DEF RunInv, WrittenIsTaken
<1>2. /\ m \in Nat /\ z \in Nat /\ m <= z /\ z <= Len(rows)
      /\ Upto(k) = m /\ c = SubSeq(rows, m + 1, z)
  BY <1>1, SentBatch
<1>3. /\ written \in Seq(IngestRows) /\ count = Len(written)
      /\ running = Total(written) % Modulus /\ hash \in [IngestRows -> Nat]
      /\ Len(written) <= Upto(k) /\ (Len(written) = Upto(k) => Kept(written, rows, Upto(k)))
  BY HashOfRows DEF RunInv, WrittenIsTaken
<1>4. /\ written' = written \o b /\ running' = AccumulateBatchDigest(running, b)
      /\ count' = count + Len(b) /\ hash' = hash
  BY DEF WriteBatch
<1>5. rows' = rows /\ sent' = sent
  BY DEF vars
<1>6. b \in Transformed(c) /\ taken' = k + 1
  OBVIOUS
<1> HIDE DEF m, z, c, k
<1>7. c \in Seq(IngestRows) /\ Len(c) = z - m
  <2>1. \A i \in (m + 1)..z : rows[i] \in IngestRows
    BY <1>1, <1>2
  <2>2. /\ SubSeq(rows, m + 1, z) \in Seq(IngestRows)
        /\ Len(SubSeq(rows, m + 1, z)) = IF m + 1 <= z THEN z - (m + 1) + 1 ELSE 0
    BY <1>2, <2>1, SubSeqProperties
  <2> QED
    BY <1>2, <2>2
<1>8. /\ b \in Seq(IngestRows) /\ Len(b) \in Nat /\ Len(b) <= Len(c)
      /\ Len(b) = Len(c) => \A row : Times(b, row) = Times(c, row)
  BY <1>6, <1>7, TransformedBatch
<1>9. /\ written' \in Seq(IngestRows) /\ Len(written') = Len(written) + Len(b)
      /\ Len(written) \in Nat
  BY <1>3, <1>4, <1>8, ConcatProperties
<1>10. running' = Total(written') % Modulus
  <2>1. running' = Total(written \o b) % Modulus
    BY <1>3, <1>4, <1>8, AccumulateAddsTotal
  <2> QED
    BY <1>4, <2>1
<1>11. SubSeq(rows, 1, z) = SubSeq(rows, 1, m) \o c
  BY <1>1, <1>2, ConcatAdjacentSubSeq
<1>12. ASSUME Len(written') = z PROVE Kept(written', rows, z)
  <2>1. Len(written) = m /\ Len(b) = Len(c)
    <3>1. \A x, y, v \in Nat : x <= m /\ y <= v /\ v = z - m /\ x + y = z => x = m /\ y = v
      BY <1>2
    <3>2. /\ Len(written) <= m /\ Len(c) \in Nat
          /\ Len(written) + Len(b) = z
      BY <1>2, <1>3, <1>7, <1>9, <1>12
    <3> QED
      BY <1>7, <1>8, <1>9, <3>1, <3>2
  <2>2. SubSeq(rows, 1, m) \in Seq(IngestRows)
    <3>1. \A i \in 1..m : rows[i] \in IngestRows
      BY <1>1, <1>2
    <3> QED
      BY <1>2, <3>1, SubSeqProperties
  <2>3. \A row \in IngestRows : Times(written, row) = Times(SubSeq(rows, 1, m), row)
    BY <1>2, <1>3, <2>1 DEF Kept
  <2>4. \A row : Times(written \o b, row) = Times(written, row) + Times(b, row)
    BY <1>3, <1>8, TimesOfConcat
  <2>5. \A row : Times(SubSeq(rows, 1, z), row) = Times(SubSeq(rows, 1, m), row) + Times(c, row)
    <3> DEFINE p == SubSeq(rows, 1, m)
    <3> HIDE DEF p
    <3>1. \A row : Times(p \o c, row) = Times(p, row) + Times(c, row)
      BY <1>7, <2>2, TimesOfConcat DEF p
    <3> QED
      BY <1>11, <3>1 DEF p
  <2>6. \A row : Times(b, row) = Times(c, row)
    BY <1>8, <2>1
  <2> QED
    BY <1>4, <2>3, <2>4, <2>5, <2>6 DEF Kept
<1>13. WrittenIsTaken'
  <2>1. Upto(taken)' = z
    BY <1>5, <1>6 DEF Upto, z
  <2>2. Len(written') <= z
    BY <1>2, <1>3, <1>7, <1>8, <1>9
  <2>3. taken' \in 0..Len(sent')
    BY <1>1, <1>5
  <2>4. Kept(written', rows, z) => Kept(written', rows', z)
    BY <1>5
  <2> QED
    BY <1>12, <2>1, <2>2, <2>3, <2>4 DEF WrittenIsTaken, Kept
<1>14. count' = Len(written')
  BY <1>3, <1>4, <1>9
<1> QED
  BY <1>9, <1>10, <1>13, <1>14

LEMMA RowCountOfRecord == (Serialized(NewV2(key, meta))).rowCount = count
<1> DEFINE r == NewV2(key, meta)
<1>1. r = [f \in ManifestFields |-> r[f]] /\ r.rowCount = count
  BY FieldsOfManifest DEF NewV2
<1> HIDE DEF r
<1>2. DOMAIN r = ManifestFields
  BY <1>1
<1>3. "rowCount" \in ManifestFields /\ "rowCount" \notin Optional
  BY DEF ManifestFields, Optional
<1>4. Serialized(r).rowCount = r.rowCount
  BY <1>2, <1>3 DEF Serialized
<1> QED
  BY <1>1, <1>4 DEF r

LEMMA TotalStays ==
    ASSUME hash' = hash
    PROVE  /\ written' = written => Total(written)' = Total(written)
           /\ Total(written)' = Total(written')
<1>1. written' = written => Total(written)' = Total(written)
  BY DEF Total, FoldSet, MapThenFoldSet, Times
<1>2. Total(written)' = Total(written')
  BY DEF Total, FoldSet, MapThenFoldSet, Times
<1> QED
  BY <1>1, <1>2

LEMMA RunStays ==
    ASSUME RunInv, UNCHANGED <<vars, recordVars, taken>>
    PROVE  /\ hash' \in Hashes /\ written' \in Seq(IngestRows)
           /\ count' = Len(written') /\ (running = Total(written) % Modulus)'
           /\ WrittenIsTaken'
<1>1. /\ rows' = rows /\ sent' = sent /\ hash' = hash /\ written' = written
      /\ running' = running /\ count' = count
  BY DEF vars, recordVars
<1>2. (running = Total(written) % Modulus)'
  BY <1>1, TotalStays DEF RunInv
<1> QED
  BY <1>1, <1>2 DEF RunInv, WrittenIsTaken, Upto, Kept

LEMMA RunReads ==
    ASSUME StreamInv, StreamInv', RunInv, ReadFile
    PROVE  RunInv'
<1>1. /\ ReadRecord \/ FailRecord \/ EndOfFile
      /\ UNCHANGED <<local, recordVars, taken>>
  BY DEF ReadFile, Next
<1>2. ~outcome.done /\ file' = file
  BY <1>1 DEF ReadRecord, FailRecord, EndOfFile, InFile
<1>3. TakenStays
  BY <1>1, ReadingTakesNothing DEF RunInv, WrittenIsTaken
<1>4. /\ kind' = kind /\ phase' = phase /\ taken' = taken
      /\ recordPhase' = recordPhase /\ hash' = hash /\ written' = written
      /\ running' = running /\ count' = count /\ record' = record
  BY <1>1 DEF local, recordVars
<1>5. WrittenIsTaken'
  BY <1>3, <1>4, WrittenStays DEF RunInv
<1>6. (running = Total(written) % Modulus)'
  BY <1>4, TotalStays DEF RunInv
<1>7. ~(kind = "remote" /\ recordPhase \in {"captured", "published", "read"})
  BY <1>2 DEF RunInv, Completed
<1> QED
  BY <1>2, <1>4, <1>5, <1>6, <1>7 DEF RunInv

LEMMA RunCallsBack ==
    ASSUME RunInv, Supply \/ BuildLocal \/ LocalStep \/ ConsumeFails
    PROVE  RunInv'
<1>1. UNCHANGED <<vars, recordVars, taken>>
  BY DEF Supply, BuildLocal, LocalStep, ConsumeFails
<1>2. /\ file' = file /\ outcome' = outcome /\ sent' = sent /\ taken' = taken
      /\ recordPhase' = recordPhase /\ count' = count /\ record' = record
  BY <1>1 DEF vars, recordVars
<1>3. kind' = kind
  BY DEF Supply, BuildLocal, LocalStep, ConsumeFails, Local!Supply, Local!Build,
         Local!SourceFails, Local!BuildRemote, Local!Transform, Local!ValidateTransformed,
         Local!CallSink, Local!ValidateResult, Local!WriteParquet, Local!ReadParquet,
         Local!Calls, Local!Validates, Local!RemoteFails
<1>4. (phase = "handed over")' => kind' = "remote"
  BY <1>3 DEF RunInv, Supply, BuildLocal, LocalStep, ConsumeFails, Local!Supply, Local!Build,
         Local!SourceFails, Local!BuildRemote, Local!Transform, Local!ValidateTransformed,
         Local!CallSink, Local!ValidateResult, Local!WriteParquet, Local!ReadParquet,
         Local!Calls, Local!Validates, Local!RemoteFails, Local!Fail, Local!Ready
<1>5. Completed /\ kind = "remote" => phase' = phase
  <2> SUFFICES ASSUME Completed, kind = "remote" PROVE phase' = phase
    OBVIOUS
  <2>1. /\ phase = "handed over" /\ ~(taken < Len(sent)) /\ ~(outcome.done /\ ~outcome.ok)
    <3>1. taken \in 0..Len(sent) /\ taken = Len(sent)
      BY DEF Completed, RunInv, WrittenIsTaken
    <3>2. ~(taken < Len(sent))
      BY <3>1
    <3> QED
      BY <3>2 DEF Completed
  <2>2. ~ConsumeFails /\ ~BuildLocal
    BY <2>1 DEF ConsumeFails, BuildLocal
  <2> QED
    BY <2>1, <2>2 DEF Supply, LocalStep, Local!Supply, Local!BuildRemote, Local!Ready,
       Local!Transform, Local!ValidateTransformed, Local!CallSink, Local!ValidateResult,
       Local!WriteParquet, Local!ReadParquet, Local!Calls, Local!Validates
<1>6. kind = "remote" /\ Completed => Completed'
  BY <1>2, <1>5 DEF Completed
<1>7. /\ hash' \in Hashes /\ written' \in Seq(IngestRows)
      /\ count' = Len(written') /\ (running = Total(written) % Modulus)'
      /\ WrittenIsTaken'
  BY <1>1, RunStays
<1> QED
  BY <1>2, <1>3, <1>4, <1>6, <1>7 DEF RunInv

LEMMA RunPublishes ==
    ASSUME RunInv, RecordInv, Publish \/ ReadRemote
    PROVE  RunInv'
<1>1. UNCHANGED <<vars, local, taken>> /\ UNCHANGED <<hash, written, running, count>>
  BY DEF Publish, ReadRemote, Capture, PutManifest, Download
<1>2. /\ file' = file /\ outcome' = outcome /\ sent' = sent /\ rows' = rows
      /\ taken' = taken /\ phase' = phase /\ kind' = kind
  BY <1>1 DEF vars, local
<1>3. /\ hash' \in Hashes /\ written' \in Seq(IngestRows)
      /\ count' = Len(written') /\ (running = Total(written) % Modulus)'
      /\ WrittenIsTaken'
  BY <1>1, <1>2, TotalStays DEF RunInv, WrittenIsTaken, Upto, Kept
<1>4. kind = "remote" /\ recordPhase' \in {"captured", "published", "read"} => Completed'
  <2>1. CASE Publish
    <3>1. phase = "handed over" /\ outcome.done /\ outcome.ok /\ taken = Len(sent)
      BY <2>1 DEF Publish
    <3> QED
      BY <1>2, <3>1 DEF Completed
  <2>2. CASE ReadRemote
    BY <1>2, <2>2 DEF ReadRemote, Download, RunInv, Completed
  <2> QED
    BY <2>1, <2>2
<1>5. kind = "remote" /\ record' # NoRecord => record'.rowCount = count'
  <2>1. CASE record' = record
    BY <1>1, <2>1 DEF RunInv
  <2>2. CASE record' # record
    <3>1. record' = Serialized(NewV2(key, meta))
      BY <2>2 DEF Publish, ReadRemote, Capture, PutManifest, Download
    <3> QED
      BY <1>1, <3>1, RowCountOfRecord
  <2> QED
    BY <2>1, <2>2
<1> QED
  BY <1>2, <1>3, <1>4, <1>5 DEF RunInv

LEMMA RunStep ==
    ASSUME StreamInv, StreamInv', RecordInv, RunInv,
           [Step]_<<vars, local, recordVars, taken, selectVars>>
    PROVE  RunInv'
<1>1. CASE Supply \/ BuildLocal \/ LocalStep \/ ConsumeFails
  BY <1>1, RunCallsBack
<1>2. CASE ReadFile
  BY <1>2, RunReads
<1>3. CASE Publish \/ ReadRemote
  BY <1>3, RunPublishes
<1>4. CASE Consume
  <2>1. /\ phase = "handed over" /\ taken < Len(sent) /\ taken' = taken + 1
        /\ UNCHANGED <<vars, local>>
    BY <1>4 DEF Consume
  <2>2. PICK b \in Transformed(sent[taken + 1]) : WriteBatch(b)
    BY <1>4 DEF Consume
  <2>3. kind = "remote" /\ kind' = kind /\ phase' = phase /\ file' = file
    BY <2>1 DEF RunInv, vars, local
  <2>4. /\ written' \in Seq(IngestRows)
        /\ count' = Len(written') /\ running' = Total(written') % Modulus
        /\ WrittenIsTaken'
    BY <2>1, <2>2, <2>3, BatchIsTaken
  <2>5. /\ recordPhase = "writing" /\ recordPhase' = "writing"
        /\ hash' = hash /\ record' = record
    BY <2>2 DEF WriteBatch
  <2>6. record = NoRecord
    BY <2>5 DEF RecordInv
  <2>7. (running = Total(written) % Modulus)'
    BY <2>4, <2>5, TotalStays
  <2> QED
    BY <2>3, <2>4, <2>5, <2>6, <2>7 DEF RunInv
<1>5. CASE Select \/ UNCHANGED <<vars, local, recordVars, taken, selectVars>>
  <2>1. UNCHANGED <<vars, local, recordVars, taken>>
    BY <1>5 DEF Select
  <2>2. /\ kind' = kind /\ phase' = phase /\ file' = file /\ outcome' = outcome
        /\ sent' = sent /\ taken' = taken /\ recordPhase' = recordPhase
        /\ count' = count /\ record' = record
    BY <2>1 DEF vars, local, recordVars
  <2>3. /\ hash' \in Hashes /\ written' \in Seq(IngestRows)
        /\ count' = Len(written') /\ (running = Total(written) % Modulus)'
        /\ WrittenIsTaken'
    BY <2>1, RunStays
  <2> QED
    BY <2>2, <2>3 DEF RunInv, Completed
<1> QED
  BY <1>1, <1>2, <1>3, <1>4, <1>5 DEF Step

LEMMA RecordIsOfTheRun ==
    ASSUME StreamInv, RecordInv, RunInv
    PROVE  FingerprintIsOfTheMultiset
<1>1. CountsAreOfTheMultiset
  BY DEF RunInv, CountsAreOfTheMultiset, Total
<1>2. ASSUME kind = "remote", record # NoRecord
      PROVE  /\ phase = "handed over" /\ outcome.ok
             /\ record.rowCount = Len(file.records) =>
                  \A row \in IngestRows : Times(written, row) = Times(rows, row)
  <2>1. recordPhase \in {"published", "read"}
    BY <1>2 DEF RecordInv
  <2>2. Completed /\ record.rowCount = Len(written)
    BY <1>2, <2>1 DEF RunInv
  <2>3. Ended
    BY <2>2 DEF Completed, StreamInv, Reading, Stopped
  <2>4. rows \in Seq(ValuesOf(file)) /\ Len(rows) = Len(file.records)
    <3>1. /\ rows \in Seq(ValuesOf(file)) /\ Len(rows) = at - 1
          /\ at = Len(file.records) + 1 /\ Len(file.records) \in Nat
      BY <2>3, RowsRead, FileFields DEF Ended, StreamInv
    <3> QED
      BY <3>1
  <2>5. Upto(taken) = Len(rows)
    BY <2>2, <2>3, AllSent DEF Completed
  <2>6. SubSeq(rows, 1, Len(rows)) = rows
    BY <2>4, SubSeqFull
  <2>7. Len(written) = Len(rows) => Kept(written, rows, Len(rows))
    BY <2>5 DEF RunInv, WrittenIsTaken
  <2> QED
    BY <2>2, <2>4, <2>6, <2>7 DEF Completed, Kept
<1> QED
  BY <1>1, <1>2 DEF FingerprintIsOfTheMultiset

\* The row count and digest of a record (accumulate_batch_digest) are those of the
\* multiset of rows written, wrapping modulo 2^64, whatever the order and the
\* batches; and if as many were written as the file holds, they are the file's.
THEOREM FingerprintIsKept == IngestionSpec => []FingerprintIsOfTheMultiset
<1> DEFINE I == StreamInv /\ RecordInv /\ RunInv
<1>1. Entry => I
  BY StreamInit, RecordInit, RunInit DEF Entry
<1>2. I /\ [Step]_<<vars, local, recordVars, taken, selectVars>> => I'
  BY StreamStep, RecordStep, RunStep
<1>3. I => FingerprintIsOfTheMultiset
  BY RecordIsOfTheRun
<1> QED
  BY <1>1, <1>2, <1>3, PTL DEF IngestionSpec
=============================================================================
