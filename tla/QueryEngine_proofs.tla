------------------------- MODULE QueryEngine_proofs --------------------------
(* What the query engine is proved to answer, for every value of its        *)
(* constants: the amount_range aggregate of a group however the group is    *)
(* split and merged; the Int32 kernel on columns of every length, and that  *)
(* its four forms are one; that the engine an application starts as a child *)
(* is waited for whatever happens; that no query hands out more rows, or    *)
(* other rows, than its cap, with the aggregate's range and the shape of    *)
(* the plan it ran; and that batches, lists and files give what they hold   *)
(* whichever layout they go through.                                        *)
(* The inductive invariants: RangeInv of the aggregate, AppInv of the       *)
(* application and its child, SessionInv of a query's plan through the      *)
(* guard and the rewriting, RangeInv again for the table, KernelTrue of     *)
(* the kernel's cursor, and LayoutInv of what a comparison holds.  A        *)
(* function defined by recursion or by a fold is unfolded through its       *)
(* defining equation, which is proved to hold first.                        *)
EXTENDS QueryEngine, NaturalsInduction, SequenceTheorems, FiniteSetTheorems, TLAPS

RangeInv == RangeTypeOK /\ StatesDescribeTheirRows /\ RangeIsOfTheWholeGroup

-----------------------------------------------------------------------------
(* One state, whatever holds it *)

\* Taking in one value keeps the smallest of them, and the largest.
LEMMA LesserIsLeast ==
    ASSUME NEW current \in Amounts \union {Null}, NEW value \in Amounts
    PROVE  /\ Lesser(current, value) \in Amounts
           /\ Lesser(current, value) <= value
           /\ current # Null => Lesser(current, value) <= current
           /\ \/ Lesser(current, value) = value
              \/ (current # Null /\ Lesser(current, value) = current)
<1>1. CASE current = Null
  BY <1>1, LimitAssumption DEF Lesser, Amounts
<1>2. CASE current # Null
  BY <1>2, LimitAssumption DEF Lesser, Amounts
<1> QED
  BY <1>1, <1>2

\* The same of the larger of two.
LEMMA GreaterIsGreatest ==
    ASSUME NEW current \in Amounts \union {Null}, NEW value \in Amounts
    PROVE  /\ Greater(current, value) \in Amounts
           /\ value <= Greater(current, value)
           /\ current # Null => current <= Greater(current, value)
           /\ \/ Greater(current, value) = value
              \/ (current # Null /\ Greater(current, value) = current)
<1>1. CASE current = Null
  BY <1>1, LimitAssumption DEF Greater, Amounts
<1>2. CASE current # Null
  BY <1>2, LimitAssumption DEF Greater, Amounts
<1> QED
  BY <1>1, <1>2

\* What a state says of its rows, one extreme at a time.
Least(m, of) ==
    /\ (m = Null) <=> (\A r \in of : amount[r] = Null)
    /\ m # Null => /\ \E r \in of : amount[r] = m
                   /\ \A r \in of : amount[r] # Null => m <= amount[r]

Greatest(m, of) ==
    /\ (m = Null) <=> (\A r \in of : amount[r] = Null)
    /\ m # Null => /\ \E r \in of : amount[r] = m
                   /\ \A r \in of : amount[r] # Null => amount[r] <= m

\* A state describes its rows when each of its two fields does.
LEMMA ExtremesAre ==
    ASSUME NEW s
    PROVE  Extremes(s) <=> Least(s.min, s.rows) /\ Greatest(s.max, s.rows)
BY DEF Extremes, Least, Greatest

\* The rows of two states together: the less of the two least values is least.
LEMMA LeastOfBoth ==
    ASSUME amount \in [Rows -> Amounts \union {Null}],
           NEW R \in SUBSET Rows, NEW S \in SUBSET Rows,
           NEW m \in Amounts \union {Null}, NEW n \in Amounts \union {Null},
           Least(m, R), Least(n, S)
    PROVE  Least(IF n = Null THEN m ELSE Lesser(m, n), R \union S)
<1>1. CASE n = Null
  BY <1>1 DEF Least
<1>2. CASE n # Null /\ m = Null
  <2>1. Lesser(m, n) = n
    BY <1>2 DEF Lesser
  <2> QED
    BY <1>2, <2>1 DEF Least
<1>3. CASE n # Null /\ m # Null
  <2> DEFINE l == Lesser(m, n)
  <2>1. l \in Amounts /\ l <= m /\ l <= n /\ (l = m \/ l = n)
    BY <1>3, LesserIsLeast
  <2>2. l # Null
    BY <2>1, NullAssumption, LimitAssumption DEF Amounts
  <2>3. \E r \in R \union S : amount[r] = l
    BY <1>3, <2>1 DEF Least
  <2>4. ASSUME NEW r \in R \union S, amount[r] # Null
        PROVE  l <= amount[r]
    <3>1. amount[r] \in Amounts
      BY <2>4
    <3>2. m <= amount[r] \/ n <= amount[r]
      BY <1>3, <2>4 DEF Least
    <3> QED
      BY <1>3, <2>1, <3>1, <3>2, LimitAssumption DEF Amounts
  <2> QED
    BY <1>3, <2>2, <2>3, <2>4 DEF Least
<1> QED
  BY <1>1, <1>2, <1>3

\* And the greater of the two greatest values is greatest.
LEMMA GreatestOfBoth ==
    ASSUME amount \in [Rows -> Amounts \union {Null}],
           NEW R \in SUBSET Rows, NEW S \in SUBSET Rows,
           NEW m \in Amounts \union {Null}, NEW n \in Amounts \union {Null},
           Greatest(m, R), Greatest(n, S)
    PROVE  Greatest(IF n = Null THEN m ELSE Greater(m, n), R \union S)
<1>1. CASE n = Null
  BY <1>1 DEF Greatest
<1>2. CASE n # Null /\ m = Null
  <2>1. Greater(m, n) = n
    BY <1>2 DEF Greater
  <2> QED
    BY <1>2, <2>1 DEF Greatest
<1>3. CASE n # Null /\ m # Null
  <2> DEFINE g == Greater(m, n)
  <2>1. g \in Amounts /\ m <= g /\ n <= g /\ (g = m \/ g = n)
    BY <1>3, GreaterIsGreatest
  <2>2. g # Null
    BY <2>1, NullAssumption, LimitAssumption DEF Amounts
  <2>3. \E r \in R \union S : amount[r] = g
    BY <1>3, <2>1 DEF Greatest
  <2>4. ASSUME NEW r \in R \union S, amount[r] # Null
        PROVE  amount[r] <= g
    <3>1. amount[r] \in Amounts
      BY <2>4
    <3>2. amount[r] <= m \/ amount[r] <= n
      BY <1>3, <2>4 DEF Greatest
    <3> QED
      BY <1>3, <2>1, <3>1, <3>2, LimitAssumption DEF Amounts
  <2> QED
    BY <1>3, <2>2, <2>3, <2>4 DEF Greatest
<1> QED
  BY <1>1, <1>2, <1>3

\* What a merge makes of two states, as one operator.
Both(s, t) ==
    [min |-> IF t.min = Null THEN s.min ELSE Lesser(s.min, t.min),
     max |-> IF t.max = Null THEN s.max ELSE Greater(s.max, t.max),
     rows |-> s.rows \union t.rows]

\* merge_batch: two states that describe their rows make one that describes all.
LEMMA BothDescribesBoth ==
    ASSUME amount \in [Rows -> Amounts \union {Null}],
           NEW s \in State, NEW t \in State, Extremes(s), Extremes(t)
    PROVE  Both(s, t) \in State /\ Extremes(Both(s, t))
<1>1. s.min \in Amounts \union {Null} /\ s.max \in Amounts \union {Null} /\ s.rows \in SUBSET Rows
  BY DEF State
<1>2. t.min \in Amounts \union {Null} /\ t.max \in Amounts \union {Null} /\ t.rows \in SUBSET Rows
  BY DEF State
<1>3. Least(Both(s, t).min, Both(s, t).rows)
  BY <1>1, <1>2, ExtremesAre, LeastOfBoth DEF Both
<1>4. Greatest(Both(s, t).max, Both(s, t).rows)
  BY <1>1, <1>2, ExtremesAre, GreatestOfBoth DEF Both
<1>5. Both(s, t).min \in Amounts \union {Null}
  BY <1>1, <1>2, LesserIsLeast DEF Both
<1>6. Both(s, t).max \in Amounts \union {Null}
  BY <1>1, <1>2, GreaterIsGreatest DEF Both
<1>7. Both(s, t).rows \in SUBSET Rows
  BY <1>1, <1>2 DEF Both
<1> QED
  BY <1>3, <1>4, <1>5, <1>6, <1>7, ExtremesAre DEF Both, State

\* A row taken in is a state of its own, merged.
OfRow(r) == [min |-> amount[r], max |-> amount[r], rows |-> {r}]

\* update_batch: a row is described by its own amount, null or not.
LEMMA RowIsState ==
    ASSUME amount \in [Rows -> Amounts \union {Null}], NEW r \in Rows
    PROVE  OfRow(r) \in State /\ Extremes(OfRow(r))
<1>1. amount[r] \in Amounts \union {Null}
  OBVIOUS
<1>2. OfRow(r) \in State
  BY <1>1 DEF OfRow, State
<1>3. amount[r] # Null => amount[r] <= amount[r]
  BY <1>1, LimitAssumption DEF Amounts
<1> QED
  BY <1>2, <1>3 DEF OfRow, Extremes

-----------------------------------------------------------------------------
(* The accumulators and the partial states between them *)

\* Every state anywhere is one, and says what is so of its rows.
LEMMA RangeStep ==
    ASSUME RangeInv, RangeNext
    PROVE  RangeInv'
<1> USE DEF RangeInv
<1>1. amount' = amount /\ amount \in [Rows -> Amounts \union {Null}]
  BY DEF RangeNext, Update, GiveUp, Merge, Evaluate, RangeTypeOK
<1>2. \A s : Extremes(s) => Extremes(s)'
  BY <1>1 DEF Extremes
<1>3. ASSUME range' = range PROVE RangeIsOfTheWholeGroup'
  BY <1>1, <1>3 DEF RangeIsOfTheWholeGroup
<1>4. PICK a \in Accumulators :
         \/ \E row \in unread : Update(a, row)
         \/ GiveUp(a)
         \/ \E s \in partial : Merge(a, s)
         \/ Evaluate(a)
  BY DEF RangeNext
<1>5. acc[a] \in State /\ Extremes(acc[a])
  BY DEF RangeTypeOK, StatesDescribeTheirRows
<1>6. ASSUME NEW t \in State, Extremes(t), acc' = [acc EXCEPT ![a] = Both(acc[a], t)]
      PROVE  acc' \in [Accumulators -> State] /\ (\A b \in Accumulators : Extremes(acc[b])')
  <2>1. Both(acc[a], t) \in State /\ Extremes(Both(acc[a], t))
    BY <1>1, <1>5, <1>6, BothDescribesBoth
  <2>2. acc' \in [Accumulators -> State]
    BY <1>6, <2>1 DEF RangeTypeOK
  <2>3. ASSUME NEW b \in Accumulators PROVE Extremes(acc[b])'
    <3>1. acc'[b] \in {acc[b], Both(acc[a], t)}
      BY <1>6 DEF RangeTypeOK
    <3>2. Extremes(acc'[b])
      BY <2>1, <3>1 DEF StatesDescribeTheirRows
    <3> QED
      BY <1>1, <3>2 DEF Extremes
  <2> QED
    BY <2>2, <2>3
<1>7. ASSUME NEW row \in unread, Update(a, row) PROVE RangeInv'
  <2>1. row \in Rows
    BY DEF RangeTypeOK
  <2>2. acc' = [acc EXCEPT ![a] = Both(acc[a], OfRow(row))]
    BY <1>7 DEF Update, Both, OfRow
  <2>3. acc' \in [Accumulators -> State] /\ (\A b \in Accumulators : Extremes(acc[b])')
    BY <1>1, <1>6, <2>1, <2>2, RowIsState
  <2>4. partial' = partial /\ range' = range /\ unread' \in SUBSET Rows
    BY <1>7 DEF Update, RangeTypeOK
  <2>5. StatesDescribeTheirRows'
    BY <1>2, <2>3, <2>4 DEF StatesDescribeTheirRows
  <2>6. RangeTypeOK'
    BY <1>1, <2>3, <2>4 DEF RangeTypeOK
  <2> QED
    BY <1>3, <2>4, <2>5, <2>6
<1>8. ASSUME GiveUp(a) PROVE RangeInv'
  <2>1. Fresh \in State /\ Extremes(Fresh)
    BY DEF Fresh, State, Extremes
  <2>2. acc' = [acc EXCEPT ![a] = Fresh] /\ partial' = partial \union {acc[a]}
        /\ range' = range /\ unread' = unread
    BY <1>8 DEF GiveUp
  <2>3. RangeTypeOK'
    BY <1>1, <1>5, <2>1, <2>2 DEF RangeTypeOK
  <2>4. ASSUME NEW b \in Accumulators PROVE Extremes(acc[b])'
    <3>1. Extremes(acc'[b])
      BY <2>1, <2>2 DEF RangeTypeOK, StatesDescribeTheirRows
    <3> QED
      BY <1>1, <3>1 DEF Extremes
  <2>5. ASSUME NEW s \in partial' PROVE Extremes(s)'
    BY <1>2, <1>5, <2>2, <2>5 DEF StatesDescribeTheirRows
  <2>6. StatesDescribeTheirRows'
    BY <2>4, <2>5 DEF StatesDescribeTheirRows
  <2> QED
    BY <1>3, <2>2, <2>3, <2>6
<1>9. ASSUME NEW s \in partial, Merge(a, s) PROVE RangeInv'
  <2>1. s \in State /\ Extremes(s)
    BY DEF RangeTypeOK, StatesDescribeTheirRows
  <2>2. acc' = [acc EXCEPT ![a] = Both(acc[a], s)]
    BY <1>9 DEF Merge, Both
  <2>3. acc' \in [Accumulators -> State] /\ (\A b \in Accumulators : Extremes(acc[b])')
    BY <1>6, <2>1, <2>2
  <2>4. partial' \subseteq partial /\ range' = range /\ unread' = unread
    BY <1>9 DEF Merge
  <2>5. StatesDescribeTheirRows'
    BY <1>2, <2>3, <2>4 DEF StatesDescribeTheirRows
  <2>6. RangeTypeOK'
    BY <1>1, <2>3, <2>4 DEF RangeTypeOK
  <2> QED
    BY <1>3, <2>4, <2>5, <2>6
<1>10. ASSUME Evaluate(a) PROVE RangeInv'
  <2> DEFINE lo == acc[a].min
             hi == acc[a].max
  <2>1. lo \in Amounts \union {Null} /\ hi \in Amounts \union {Null} /\ acc[a].rows = Rows
    BY <1>5, <1>10 DEF State, Evaluate
  <2>2. acc' = acc /\ partial' = partial /\ unread' = unread
    BY <1>10 DEF Evaluate
  <2>3. Least(lo, Rows) /\ Greatest(hi, Rows)
    BY <1>5, <2>1, ExtremesAre
  <2>4. StatesDescribeTheirRows'
    BY <1>1, <2>2 DEF StatesDescribeTheirRows, Extremes
  <2>5. CASE lo = Null
    <3>1. range' = {Null}
      BY <1>10, <2>5 DEF Evaluate
    <3>2. \A r \in Rows : amount[r] = Null
      BY <2>3, <2>5 DEF Least
    <3>3. RangeIsOfTheWholeGroup'
      BY <1>1, <3>1, <3>2 DEF RangeIsOfTheWholeGroup
    <3> QED
      BY <1>1, <2>2, <2>4, <3>1, <3>3 DEF RangeTypeOK
  <2>6. CASE lo # Null
    <3>1. hi # Null
      BY <2>3, <2>6 DEF Least, Greatest
    <3>2. range' = {hi - lo}
      BY <1>10, <2>6, <3>1 DEF Evaluate
    <3>3. lo \in Int /\ hi \in Int /\ -Limit <= lo /\ hi <= Limit
      BY <2>1, <2>6, <3>1, LimitAssumption DEF Amounts
    <3>4. PICK r \in Rows : amount[r] = lo
      BY <2>3, <2>6 DEF Least
    <3>5. PICK q \in Rows : amount[q] = hi
      BY <2>3, <3>1 DEF Greatest
    <3>6. lo <= hi
      BY <2>3, <3>1, <3>4, <2>6 DEF Greatest
    <3>7. hi - lo \in 0..(2 * Limit) /\ hi - lo # Null
      BY <3>3, <3>6, LimitAssumption, NullAssumption
    <3>8. ASSUME NEW p \in Rows, NEW t \in Rows, amount[p] # Null, amount[t] # Null
          PROVE  amount[p] - amount[t] <= hi - lo
      <4>1. amount[p] \in Int /\ amount[t] \in Int
        BY <1>1, <3>8, LimitAssumption DEF Amounts
      <4>2. amount[p] <= hi /\ lo <= amount[t]
        BY <2>3, <2>6, <3>1, <3>8 DEF Least, Greatest
      <4> QED
        BY <3>3, <4>1, <4>2
    <3>9. ~ \A p \in Rows : amount[p] = Null
      BY <3>4, <2>6
    <3>10. \E p, t \in Rows :
              amount[p] # Null /\ amount[t] # Null /\ hi - lo = amount[p] - amount[t]
      BY <2>6, <3>1, <3>4, <3>5
    <3>11. RangeIsOfTheWholeGroup'
      BY <1>1, <3>2, <3>7, <3>8, <3>9, <3>10 DEF RangeIsOfTheWholeGroup
    <3>12. range' \in SUBSET (Int \union {Null})
      BY <3>2, <3>3
    <3> QED
      BY <1>1, <2>2, <2>4, <3>11, <3>12 DEF RangeTypeOK
  <2> QED
    BY <2>5, <2>6
<1> QED
  BY <1>4, <1>7, <1>8, <1>9, <1>10

LEMMA RangeStarts ==
    ASSUME RangeInit
    PROVE  RangeInv
<1>1. Fresh \in State /\ Extremes(Fresh)
  BY DEF Fresh, State, Extremes
<1>2. RangeTypeOK
  BY <1>1 DEF RangeInit, Idle, RangeTypeOK
<1>3. StatesDescribeTheirRows /\ RangeIsOfTheWholeGroup
  BY <1>1 DEF RangeInit, Idle, StatesDescribeTheirRows, RangeIsOfTheWholeGroup
<1> QED
  BY <1>2, <1>3 DEF RangeInv

LEMMA RangeStays ==
    ASSUME RangeInv, UNCHANGED rangeVars
    PROVE  RangeInv'
<1>1. amount' = amount /\ acc' = acc /\ partial' = partial /\ range' = range
      /\ unread' = unread
  BY DEF rangeVars
<1>2. StatesDescribeTheirRows'
  BY <1>1 DEF RangeInv, StatesDescribeTheirRows, Extremes
<1> QED
  BY <1>1, <1>2 DEF RangeInv, RangeTypeOK, RangeIsOfTheWholeGroup

\* amount_range answers for the whole group, however the engine's partitions,
\* spills and merges cut it into partial states, for any rows and amounts.
THEOREM RangeIsRight == RangeSpec => [](RangeTypeOK /\ RangeIsOfTheWholeGroup)
<1>1. RangeInit => RangeInv
  BY RangeStarts
<1>2. RangeInv /\ [RangeNext]_rangeVars => RangeInv'
  BY RangeStep, RangeStays
<1>3. RangeInv => RangeTypeOK /\ RangeIsOfTheWholeGroup
  BY DEF RangeInv
<1> QED
  BY <1>1, <1>2, <1>3, PTL DEF RangeSpec

-----------------------------------------------------------------------------
(* The columns the kernel is given *)

\* Every form a column comes in has a length for each array it decodes to.
LEMMA DecodedHasLength ==
    ASSUME NEW c \in Columns, NEW a \in Decoded(c)
    PROVE  a.length \in Nat
<1> USE KernelAssumption
<1>1. \A b, s : \A n \in Nat, o \in Nat : Array(b, o, n, s).length \in Nat
  BY DEF Array
<1>2. \A s \in Slices : s.form = "array" /\ s.array.length \in Nat
  BY DEF Slices, Array
<1>3. CASE c \in Slices
  BY <1>2, <1>3 DEF Decoded
<1>4. CASE c \in Encodings
  <2>1. CASE c.form = "dictionary"
    <3>1. PICK n, d : n \in Nat /\ c = Dictionary(n, d)
      BY <1>4, <2>1 DEF Encodings, RunEndEncoded
    <3>2. a = DecodeDictionary(c)
      BY <2>1 DEF Decoded
    <3> QED
      BY <3>1, <3>2 DEF Dictionary, DecodeDictionary, Plain, Array
  <2>2. CASE c.form # "dictionary"
    <3>1. PICK n \in Nat, r \in {2, 5} : c = RunEndEncoded(n, r)
      BY <1>4, <2>2 DEF Encodings, Dictionary
    <3>2. c.form = "runs" /\ c.length = n
      BY <3>1 DEF RunEndEncoded
    <3>3. a = DecodeRunArray(c)
      BY <3>2 DEF Decoded
    <3> QED
      BY <3>2, <3>3 DEF DecodeRunArray, Plain, Array
  <2> QED
    BY <2>1, <2>2
<1>5. CASE c \in {SourceRows(n) : n \in Lengths}
  <2>1. PICK n \in Nat : c = SourceRows(n)
    BY <1>5
  <2>2. c.form = "rows" /\ DOMAIN c.rows = 1..n
    BY <2>1 DEF SourceRows
  <2>3. a = MaterializeValueColumn(c)
    BY <2>2 DEF Decoded
  <2> QED
    BY <2>2, <2>3 DEF MaterializeValueColumn, Plain, Array
<1>6. CASE c \in {File("read", b) : b \in FileBatches}
                  \union {File("mapped", b) : b \in FileBatches}
  <2>1. \A n \in Nat : \A k \in Nat : k > 0 => Batch(n, k)[1].length = n
    BY DEF Batch, Plain, Array, Generated
  <2>2. \A n \in Nat : \A k \in Nat : Len(Batch(n, k)) = k
    BY DEF Batch
  <2>3. PICK b \in FileBatches : \E r : c = File(r, b)
    BY <1>6
  <2>5. b # <<>> => \E n, k \in Nat : b[1] = Batch(n, k)
    <3>1. CASE b \in {<<Batch(n, 1)>> : n \in Lengths}
      <4>1. PICK n \in Nat : b = <<Batch(n, 1)>>
        BY <3>1
      <4>2. b[1] = Batch(n, 1) /\ 1 \in Nat
        BY <4>1
      <4> QED
        BY <4>2
    <3>2. CASE b \in {<<Batch(3, 0)>>, <<Batch(3, 2)>>}
      BY <3>2
    <3>3. CASE b = <<Batch(1, 1), Batch(3, 1)>>
      BY <3>3
    <3> QED
      BY <3>1, <3>2, <3>3 DEF FileBatches
  <2>4. c.form = "file" /\ c.batches = b
    BY <2>3 DEF File
  <2>6. a = b[1][1] /\ b # <<>> /\ Len(b[1]) = 1
    BY <2>4 DEF Decoded, MappedColumn, ReadColumn
  <2> QED
    BY <2>1, <2>2, <2>5, <2>6
<1>7. CASE c \in {Call(args) : args \in Arguments}
  <2>1. PICK args \in Arguments : c = Call(args)
    BY <1>7
  <2>2. c.form = "call" /\ c.args = args
    BY <2>1 DEF Call
  <2>3. a = args[1].array /\ args[1].is = "array"
    BY <2>2 DEF Decoded, ArgumentsInScope
  <2>4. PICK s \in Slices : args[1] = ArrayArgument(s.array)
    BY <2>1, <2>3 DEF Arguments, Literal
  <2> QED
    BY <1>2, <2>3, <2>4 DEF ArrayArgument
<1> QED
  BY <1>3, <1>4, <1>5, <1>6, <1>7 DEF Columns

-----------------------------------------------------------------------------
(* The kernel *)

\* The kernel works on the values of a, and what it has written is right.
Progress(a) ==
    /\ NullCount(a) = 0 /\ src = Values(a)
    /\ dst = [i \in 1..a.length |-> dst[i]]
    /\ at \in 0..a.length
    /\ \A i \in 1..at : dst[i] = Wrap(src[i] + constant)
    /\ stage \in {"done", "success", "failure"} => at = a.length
    /\ stage \in {"vectors", "tail"} => code \in DOMAIN LANES
    /\ stage = "vectors" => at % LANES[code] = 0 /\ at <= Chunks(a.length) * LANES[code]

\* Once the kernel has begun, it works on an array that the column decodes to.
KernelInv ==
    /\ column \in Columns
    /\ code \in Codes
    /\ stage \in {"column", "refused", "vectors", "loop", "tail", "done", "success", "failure"}
    /\ stage \in {"vectors", "loop", "tail", "done", "success", "failure"} =>
         \E a \in Decoded(column) : Progress(a)
    /\ stage = "column" => at = 0

\* The vectors cover whole vectors and no more: the arithmetic of chunks.
LEMMA WholeVectors ==
    ASSUME code \in DOMAIN LANES, NEW n \in Nat
    PROVE  /\ LANES[code] \in Nat \ {0}
           /\ Chunks(n) * LANES[code] \in 0..n
           /\ 0 % LANES[code] = 0
           /\ \A m \in Nat : m % LANES[code] = 0 =>
                /\ m < Chunks(n) * LANES[code] => m + LANES[code] <= Chunks(n) * LANES[code]
                /\ (m + LANES[code]) % LANES[code] = 0
<1>1. CASE code = "avx2"
  <2>1. LANES[code] = 8
    BY <1>1 DEF LANES
  <2> QED
    BY <2>1 DEF Chunks
<1>2. CASE code = "sse2"
  <2>1. LANES[code] = 4
    BY <1>2 DEF LANES
  <2> QED
    BY <2>1 DEF Chunks
<1> QED
  BY <1>1, <1>2 DEF LANES

\* The kernel begins with an array it may work on, and nothing written.
LEMMA KernelBegins ==
    ASSUME KernelInv, Begin
    PROVE  KernelInv'
<1>1. PICK a \in Decoded(column) : /\ NullCount(a) = 0 /\ src' = Values(a)
                                   /\ dst' = [i \in DOMAIN Values(a) |-> 0]
  BY DEF Begin
<1>2. column \in Columns /\ a.length \in Nat
  BY DecodedHasLength DEF KernelInv
<1>3. dst' = [i \in 1..a.length |-> dst'[i]]
  BY <1>1 DEF Values
<1>4. column' = column /\ code' = code /\ code \in Codes /\ at' = 0
  BY DEF Begin, KernelInv
<1>5. CASE code \in DOMAIN LANES
  <2>1. stage' = "vectors"
    BY <1>5 DEF Begin
  <2>2. 0 % LANES[code] = 0 /\ Chunks(a.length) * LANES[code] \in 0..a.length
    BY <1>2, <1>5, WholeVectors
  <2>3. Chunks(a.length)' = Chunks(a.length)
    BY <1>4 DEF Chunks
  <2>4. Progress(a)'
    BY <1>1, <1>2, <1>3, <1>4, <1>5, <2>1, <2>2, <2>3 DEF Progress
  <2> QED
    BY <1>2, <1>4, <2>1, <2>4 DEF KernelInv
<1>6. CASE code \notin DOMAIN LANES
  <2>1. stage' = "loop"
    BY <1>6 DEF Begin
  <2>2. Progress(a)'
    BY <1>1, <1>2, <1>3, <1>4, <2>1 DEF Progress
  <2> QED
    BY <1>2, <1>4, <2>1, <2>2 DEF KernelInv
<1> QED
  BY <1>5, <1>6

\* What Added writes between two points is right there and leaves the rest alone.
LEMMA AddedIsRight ==
    ASSUME NEW a, a.length \in Nat, src = Values(a),
           dst = [i \in 1..a.length |-> dst[i]],
           NEW from \in 0..a.length, NEW to \in 0..a.length,
           \A i \in 1..from : dst[i] = Wrap(src[i] + constant)
    PROVE  /\ Added(from, to) = [i \in 1..a.length |-> Added(from, to)[i]]
           /\ \A i \in 1..to : Added(from, to)[i] = Wrap(src[i] + constant)
<1>1. DOMAIN dst = 1..a.length
  OBVIOUS
<1>2. Added(from, to) = [i \in 1..a.length |->
          IF i \in (from + 1)..to THEN Wrap(src[i] + constant) ELSE dst[i]]
  BY <1>1 DEF Added
<1>3. ASSUME NEW i \in 1..to PROVE Added(from, to)[i] = Wrap(src[i] + constant)
  <2>1. i \in 1..a.length
    OBVIOUS
  <2>2. CASE i \in (from + 1)..to
    BY <1>2, <2>1, <2>2
  <2>3. CASE i \notin (from + 1)..to
    <3>1. i \in 1..from
      BY <2>3
    <3> QED
      BY <1>2, <2>1, <2>3, <3>1
  <2> QED
    BY <2>2, <2>3
<1> QED
  BY <1>2, <1>3

\* Every other step goes on with the same array.
LEMMA KernelGoesOn ==
    ASSUME KernelInv,
           \/ AddEach \/ AddAvx2 \/ AddSse2 \/ BeginTail \/ AddTail \/ Return
           \/ CheckEncoding \/ CheckHandoff \/ CheckCells \/ CheckImplementations
    PROVE  KernelInv'
<1> DEFINE Begun == {"vectors", "loop", "tail", "done", "success", "failure"}
<1>1. /\ stage \in Begun /\ stage' \in Begun \ {"loop"}
      /\ UNCHANGED <<column, constant, code, src>>
  BY DEF AddEach, AddAvx2, AddSse2, AddVector, BeginTail, AddTail, Return, CheckEncoding,
         CheckHandoff, CheckCells, CheckImplementations, Exit
<1>2. PICK a \in Decoded(column) : Progress(a)
  BY <1>1 DEF KernelInv
<1>3. a.length \in Nat
  BY DecodedHasLength DEF KernelInv
<1>4. Len(src) = a.length
  BY <1>2, <1>3 DEF Progress, Values
<1>5. /\ src = Values(a) /\ dst = [i \in 1..a.length |-> dst[i]]
      /\ 0 \in 0..a.length /\ a.length \in 0..a.length
      /\ \A i \in 1..0 : dst[i] = Wrap(src[i] + constant)
      /\ \A i \in 1..at : dst[i] = Wrap(src[i] + constant)
  BY <1>2, <1>3 DEF Progress
<1>6. ASSUME NEW to \in 0..a.length
      PROVE  /\ Added(at, to) = [i \in 1..a.length |-> Added(at, to)[i]]
             /\ \A i \in 1..to : Added(at, to)[i] = Wrap(src[i] + constant)
  <2>1. at \in 0..a.length
    BY <1>2 DEF Progress
  <2> QED
    BY <1>3, <1>5, <2>1, AddedIsRight
<1>7. SUFFICES Progress(a)'
  BY <1>1 DEF KernelInv
<1>8. Chunks(a.length)' = Chunks(a.length) /\ LANES' = LANES
  BY <1>1 DEF Chunks, LANES
<1>9. CASE AddEach
  <2>1. stage' = "done" /\ dst' = Added(0, a.length) /\ at' = a.length
    BY <1>4, <1>9 DEF AddEach
  <2>2. /\ dst' = [i \in 1..a.length |-> dst'[i]]
        /\ \A i \in 1..a.length : dst'[i] = Wrap(src[i] + constant)
    <3> HIDE DEF Added
    <3> QED
      BY <1>3, <1>5, <2>1, AddedIsRight
  <2> QED
    BY <1>1, <1>2, <1>3, <2>1, <2>2 DEF Progress
<1>10. CASE AddVector
  <2>1. /\ stage = "vectors" /\ stage' = "vectors" /\ at < Chunks(a.length) * LANES[code]
        /\ dst' = Added(at, at + LANES[code]) /\ at' = at + LANES[code]
    BY <1>4, <1>10 DEF AddVector
  <2>2. code \in DOMAIN LANES /\ at \in 0..a.length /\ at % LANES[code] = 0
    BY <1>2, <2>1 DEF Progress
  <2>3. /\ LANES[code] \in Nat \ {0}
        /\ at + LANES[code] <= Chunks(a.length) * LANES[code]
        /\ (at + LANES[code]) % LANES[code] = 0
        /\ Chunks(a.length) * LANES[code] \in 0..a.length
    BY <1>3, <2>1, <2>2, WholeVectors
  <2>4. at + LANES[code] \in 0..a.length
    BY <1>3, <2>2, <2>3
  <2>5. /\ dst' = [i \in 1..a.length |-> dst'[i]]
        /\ \A i \in 1..(at + LANES[code]) : dst'[i] = Wrap(src[i] + constant)
    BY <1>6, <2>1, <2>4
  <2> QED
    BY <1>1, <1>2, <1>8, <2>1, <2>2, <2>3, <2>4, <2>5 DEF Progress
<1>11. CASE BeginTail
  <2>1. /\ stage = "vectors" /\ stage' = "tail" /\ dst' = dst /\ at' = at
    BY <1>4, <1>11 DEF BeginTail, TailFrom
  <2> QED
    BY <1>1, <1>2, <2>1 DEF Progress
<1>12. CASE AddTail
  <2>1. stage = "tail" /\ stage' = "tail" /\ at < a.length
        /\ dst' = Added(at, at + 1) /\ at' = at + 1
    BY <1>4, <1>12 DEF AddTail
  <2>2. at \in 0..a.length /\ at + 1 \in 0..a.length
    BY <1>2, <1>3, <2>1 DEF Progress
  <2>3. /\ dst' = [i \in 1..a.length |-> dst'[i]]
        /\ \A i \in 1..(at + 1) : dst'[i] = Wrap(src[i] + constant)
    BY <1>6, <2>1, <2>2
  <2> QED
    BY <1>1, <1>2, <2>1, <2>2, <2>3 DEF Progress
<1>13. CASE Return
  <2>1. stage = "tail" /\ stage' = "done" /\ at >= a.length /\ dst' = dst /\ at' = at
    BY <1>4, <1>13 DEF Return
  <2>2. at = a.length
    BY <1>2, <1>3, <2>1 DEF Progress
  <2> QED
    BY <1>1, <1>2, <2>1, <2>2 DEF Progress
<1>14. CASE CheckEncoding \/ CheckHandoff \/ CheckCells \/ CheckImplementations
  <2>1. /\ stage = "done" /\ stage' \in {"success", "failure"}
        /\ dst' = dst /\ at' = at
    BY <1>14 DEF CheckEncoding, CheckHandoff, CheckCells, CheckImplementations, Exit
  <2> QED
    BY <1>1, <1>2, <2>1 DEF Progress
<1> QED
  BY <1>9, <1>10, <1>11, <1>12, <1>13, <1>14 DEF AddAvx2, AddSse2

\* No step of the kernel or of its callers spoils what it has written.
LEMMA KernelStep ==
    ASSUME KernelInv, [KernelNext]_kernelVars
    PROVE  KernelInv'
<1>1. CASE UNCHANGED kernelVars
  <2>1. \A a : Progress(a) => Progress(a)'
    BY <1>1 DEF kernelVars, Progress, Chunks
  <2> QED
    BY <1>1, <2>1 DEF kernelVars, KernelInv
<1>2. CASE Refuse
  BY <1>2 DEF Refuse, KernelInv
<1>3. CASE Begin
  BY <1>3, KernelBegins
<1> QED
  BY <1>1, <1>2, <1>3, KernelGoesOn DEF KernelNext

LEMMA KernelIsRight ==
    ASSUME KernelInv
    PROVE  KernelIsElementwise
<1> SUFFICES ASSUME stage \in {"done", "success", "failure"}
             PROVE  \E a \in Decoded(column) :
                       /\ NullCount(a) = 0
                       /\ dst = [i \in 1..a.length |-> Wrap(Values(a)[i] + constant)]
  BY DEF KernelIsElementwise
<1>1. PICK a \in Decoded(column) : Progress(a)
  BY DEF KernelInv
<1>2. dst = [i \in 1..a.length |-> dst[i]] /\ at = a.length
  BY <1>1 DEF Progress
<1>3. \A i \in 1..a.length : dst[i] = Wrap(Values(a)[i] + constant)
  BY <1>1, <1>2 DEF Progress
<1>4. dst = [i \in 1..a.length |-> Wrap(Values(a)[i] + constant)]
  BY <1>2, <1>3
<1>5. NullCount(a) = 0
  BY <1>1 DEF Progress
<1> QED
  BY <1>4, <1>5

\* Whichever instructions add, and whatever the length leaves for the tail, the
\* kernel adds to each element once and in its place.
THEOREM EachElementOnce == KernelSpec => []KernelIsElementwise
<1>1. KernelInit => KernelInv
  BY DEF KernelInit, KernelInv
<1>2. KernelInv /\ [KernelNext]_kernelVars => KernelInv'
  BY KernelStep
<1>3. KernelInv => KernelIsElementwise
  BY KernelIsRight
<1> QED
  BY <1>1, <1>2, <1>3, PTL DEF KernelSpec

-----------------------------------------------------------------------------
(* The distributed engine and the child it starts *)

\* How far the child is, for each place run can be in; and what a verdict says.
AppInv ==
    /\ autoReaped \in BOOLEAN
    /\ app \in {"none", "start"} =>
         scheduler = "unborn" /\ executor = "none" /\ verdict = "none" /\ timer = "off"
    /\ app = "select" => scheduler \in {"running", Ended} /\ verdict = "none"
    /\ app = "unwound" => verdict = "none"
    /\ app = "kill" => scheduler \in {"running", Ended, "reaped"}
    /\ app = "wait" => scheduler \in {"killed", Ended, "reaped"}
    /\ app \in {"kill", "wait"} => verdict \in {"ok", "err", "scheduler_exited", "poll_failed"}
    /\ scheduler \in {"exited", "reaped"} => ~autoReaped
    /\ scheduler = "gone" => autoReaped
    /\ NoChildLeftBehind

\* No step of run, of the child or of the executor spoils it.
LEMMA AppStep ==
    ASSUME AppInv, [AppNext]_appVars
    PROVE  AppInv'
<1> USE DEF AppInv, NoChildLeftBehind, Ended
<1>1. CASE SchedulerExits
  BY <1>1 DEF SchedulerExits
<1>2. CASE SchedulerDies
  BY <1>2 DEF SchedulerDies
<1>3. CASE ExecutorEnds
  BY <1>3 DEF ExecutorEnds
<1>4. CASE TimerFires
  BY <1>4 DEF TimerFires
<1>5. CASE Unwind
  BY <1>5 DEF Unwind
<1>6. CASE Spawn
  BY <1>6 DEF Spawn
<1>7. CASE SpawnFails
  BY <1>7 DEF SpawnFails
<1>8. CASE TakeExecutor
  BY <1>8 DEF TakeExecutor
<1>9. CASE WatchScheduler
  <2>1. CASE Sleep
    BY <1>9, <2>1 DEF WatchScheduler, Sleep
  <2>2. CASE Exited
    BY <1>9, <2>2 DEF WatchScheduler, Exited
  <2>3. CASE PollFails
    BY <1>9, <2>3 DEF WatchScheduler, PollFails
  <2> QED
    BY <1>9, <2>1, <2>2, <2>3 DEF WatchScheduler
<1>10. CASE Kill
  BY <1>10 DEF Kill
<1>11. CASE Wait
  BY <1>11 DEF Wait
<1>12. CASE UNCHANGED appVars
  BY <1>12 DEF appVars
<1> QED
  BY <1>1, <1>2, <1>3, <1>4, <1>5, <1>6, <1>7, <1>8, <1>9, <1>10, <1>11, <1>12 DEF AppNext

LEMMA AppStarts ==
    ASSUME AppInit \/ AppIdle
    PROVE  AppInv
BY DEF AppInit, AppIdle, AppInv, NoChildLeftBehind, Ended

\* When run of the distributed engine returns, the child it started has ended and
\* been waited for, and its verdict is the truth, whatever ended first and whether
\* SIGCHLD is ignored or not.
THEOREM ChildIsWaitedFor == EngineSpec => []NoChildLeftBehind
<1>1. EngineInit => AppInv
  BY AppStarts DEF EngineInit
<1>2. AppInv /\ [EngineNext]_engineVars => AppInv'
  <2>1. [EngineNext]_engineVars => [AppNext]_appVars
    BY DEF EngineNext, engineVars
  <2> QED
    BY <2>1, AppStep
<1>3. AppInv => NoChildLeftBehind
  BY DEF AppInv
<1> QED
  BY <1>1, <1>2, <1>3, PTL DEF EngineSpec

-----------------------------------------------------------------------------
(* Induction, and what a recursive function computes *)

\* The library's induction theorem takes an operator; this one takes a set.
LEMMA NatSetInduction ==
    ASSUME NEW S, 0 \in S, \A n \in Nat : n \in S => n + 1 \in S
    PROVE  Nat \subseteq S
<1> DEFINE R == OpToRel(<, Nat)
           Out == {n \in Nat : n \notin S}
<1>1. IsWellFoundedOn(R, Nat)
  BY NatLessThanWellFounded
<1>2. \A x, y \in Nat : y < x => <<y, x>> \in R
  BY DEF OpToRel
<1> HIDE DEF R
<1>3. ASSUME Out # {} PROVE FALSE
  <2>1. PICK n \in Out : \A m \in Out : ~ (<<m, n>> \in R)
    BY <1>1, <1>3, WFMin
  <2>2. n # 0 /\ n - 1 \in Nat /\ n - 1 < n
    BY <2>1
  <2>3. n - 1 \in S
    BY <1>2, <2>1, <2>2
  <2> QED
    BY <2>1, <2>2, <2>3
<1> QED
  BY <1>3

\* h goes from base on, one application of op at a time.
Recursion(A, base, n, op, h) ==
    /\ h \in [0..n -> A] /\ h[0] = base
    /\ \A k \in 0..(n - 1) : h[k + 1] = op[<<k + 1, h[k]>>]

\* There is such a function, whatever the operation.
LEMMA RecursionExists ==
    ASSUME NEW A, NEW base \in A, NEW n \in Nat, NEW op \in [(1..n) \X A -> A]
    PROVE  \E h : Recursion(A, base, n, op, h)
<1> DEFINE S == {m \in Nat : m > n \/ \E h : Recursion(A, base, m, op, h)}
<1>1. 0 \in S
  <2> DEFINE h == [k \in 0..0 |-> base]
  <2>1. Recursion(A, base, 0, op, h)
    BY DEF Recursion
  <2> QED
    BY <2>1
<1>2. ASSUME NEW m \in Nat, m \in S PROVE m + 1 \in S
  <2>1. CASE m + 1 > n
    BY <2>1
  <2>2. CASE m + 1 <= n
    <3>1. PICK h : Recursion(A, base, m, op, h)
      BY <1>2, <2>2
    <3>2. h \in [0..m -> A] /\ h[0] = base /\ h[m] \in A
      BY <3>1 DEF Recursion
    <3>3. <<m + 1, h[m]>> \in (1..n) \X A
      BY <2>2, <3>2
    <3>4. op[<<m + 1, h[m]>>] \in A
      BY <3>3
    <3> DEFINE e == op[<<m + 1, h[m]>>]
               f == [k \in 0..(m + 1) |-> IF k = m + 1 THEN e ELSE h[k]]
    <3> HIDE DEF e
    <3>5. f \in [0..(m + 1) -> A] /\ f[0] = base /\ f[m + 1] = e
      BY <3>2, <3>4 DEF e
    <3>6. \A k \in 0..m : f[k] = h[k]
      OBVIOUS
    <3> HIDE DEF f
    <3>7. ASSUME NEW k \in 0..m PROVE f[k + 1] = op[<<k + 1, f[k]>>]
      <4>1. CASE k = m
        BY <3>5, <3>6, <4>1 DEF e
      <4>2. CASE k # m
        <5>1. k \in 0..(m - 1) /\ k + 1 \in 0..m
          BY <4>2
        <5> QED
          BY <3>1, <3>6, <5>1 DEF Recursion
      <4> QED
        BY <4>1, <4>2
    <3>8. Recursion(A, base, m + 1, op, f)
      BY <3>5, <3>7 DEF Recursion
    <3> QED
      BY <3>8
  <2> QED
    BY <2>1, <2>2
<1> HIDE DEF S
<1>3. n \in S
  BY <1>1, <1>2, NatSetInduction
<1> QED
  BY <1>3 DEF S

\* And every function that satisfies the same equation has its values.
Follows(A, base, n, op, g) ==
    /\ g[0] = base
    /\ \A k \in 0..(n - 1) : g[k] \in A => g[k + 1] = op[<<k + 1, g[k]>>]

LEMMA RecursionIsOne ==
    ASSUME NEW A, NEW base, NEW n \in Nat, NEW op, NEW h, Recursion(A, base, n, op, h),
           NEW g, Follows(A, base, n, op, g)
    PROVE  \A k \in 0..n : g[k] = h[k]
<1> DEFINE S == {k \in Nat : k > n \/ g[k] = h[k]}
<1>1. 0 \in S
  BY DEF Recursion, Follows
<1>2. ASSUME NEW k \in Nat, k \in S PROVE k + 1 \in S
  <2>1. CASE k + 1 > n
    BY <2>1
  <2>2. CASE k + 1 <= n
    <3>1. g[k] = h[k] /\ k \in 0..(n - 1) /\ k \in 0..n
      BY <1>2, <2>2
    <3>2. h[k] \in A /\ h[k + 1] = op[<<k + 1, h[k]>>]
      BY <3>1 DEF Recursion
    <3>3. g[k + 1] = h[k + 1]
      BY <3>1, <3>2 DEF Follows
    <3> QED
      BY <3>3
  <2> QED
    BY <2>1, <2>2
<1> HIDE DEF S
<1>3. \A k \in Nat : k \in S
  BY <1>1, <1>2, NatSetInduction
<1> QED
  BY <1>3 DEF S

-----------------------------------------------------------------------------
(* Limits *)

\* Where a limit ends in rows of that number.
CutEnd(l, length) ==
    IF l.fetch = Unlimited \/ l.skip + l.fetch > length THEN length ELSE l.skip + l.fetch

CutLength(l, length) ==
    IF l.skip < CutEnd(l, length) THEN CutEnd(l, length) - l.skip ELSE 0

LEMMA CutProperties ==
    ASSUME NEW S, NEW rs \in Seq(S), NEW l \in Limited
    PROVE  /\ Cut(l, rs) \in Seq(S) /\ Len(Cut(l, rs)) = CutLength(l, Len(rs))
           /\ \A i \in 1..CutLength(l, Len(rs)) : Cut(l, rs)[i] = rs[l.skip + i]
<1> DEFINE e == CutEnd(l, Len(rs))
           m == l.skip
<1>1. m \in Nat /\ e \in Nat /\ e <= Len(rs) /\ Len(rs) \in Nat
  BY DEF Limited, CutEnd
<1>2. Cut(l, rs) = SubSeq(rs, m + 1, e)
  BY DEF Cut, CutEnd
<1>3. CutLength(l, Len(rs)) = IF m < e THEN e - m ELSE 0
  BY DEF CutLength
<1> HIDE DEF e, m
<1>4. \A j \in (m + 1)..e : rs[j] \in S
  BY <1>1, ElementOfSeq
<1>5. /\ SubSeq(rs, m + 1, e) \in Seq(S)
      /\ Len(SubSeq(rs, m + 1, e)) = IF m + 1 <= e THEN e - (m + 1) + 1 ELSE 0
      /\ \A i \in 1..(e - (m + 1) + 1) : SubSeq(rs, m + 1, e)[i] = rs[m + 1 + i - 1]
  BY <1>1, <1>4, SubSeqProperties
<1>6. Len(SubSeq(rs, m + 1, e)) = IF m < e THEN e - m ELSE 0
  BY <1>1, <1>5
<1>7. ASSUME NEW i \in 1..(IF m < e THEN e - m ELSE 0)
      PROVE  SubSeq(rs, m + 1, e)[i] = rs[m + i]
  <2>1. i \in 1..(e - (m + 1) + 1) /\ m + 1 + i - 1 = m + i
    BY <1>1
  <2> QED
    BY <1>5, <2>1
<1>8. \A i \in 1..CutLength(l, Len(rs)) : Cut(l, rs)[i] = rs[m + i]
  BY <1>2, <1>3, <1>7
<1> QED
  BY <1>2, <1>3, <1>5, <1>6, <1>8 DEF m

\* The recursion that Window is, over the limits of p from the innermost on.
CutsOf(p, S) ==
    [x \in (1..Len(p)) \X Seq(S) |-> Cut(p[Len(p) + 1 - x[1]], x[2])]

LEMMA CutsOfProperties ==
    ASSUME NEW S, NEW p \in Seq(Limited)
    PROVE  /\ CutsOf(p, S) \in [(1..Len(p)) \X Seq(S) -> Seq(S)]
           /\ \A k \in 0..(Len(p) - 1), a \in Seq(S) :
                 CutsOf(p, S)[<<k + 1, a>>] = Cut(p[Len(p) - k], a)
<1> DEFINE n == Len(p)
<1>1. n \in Nat /\ \A i \in 1..n : p[n + 1 - i] \in Limited
  <2>1. \A i \in 1..n : n + 1 - i \in 1..n
    OBVIOUS
  <2> QED
    BY <2>1
<1> HIDE DEF n
<1>2. \A i \in 1..n, a \in Seq(S) : Cut(p[n + 1 - i], a) \in Seq(S)
  BY <1>1, CutProperties
<1>3. CutsOf(p, S) = [x \in (1..n) \X Seq(S) |-> Cut(p[n + 1 - x[1]], x[2])]
  BY DEF CutsOf, n
<1>4. \A x \in (1..n) \X Seq(S) : Cut(p[n + 1 - x[1]], x[2]) \in Seq(S)
  BY <1>2
<1>5. CutsOf(p, S) \in [(1..n) \X Seq(S) -> Seq(S)]
  BY <1>3, <1>4
<1>6. ASSUME NEW k \in 0..(n - 1), NEW a \in Seq(S)
      PROVE  CutsOf(p, S)[<<k + 1, a>>] = Cut(p[n - k], a)
  <2>1. k + 1 \in 1..n /\ n + 1 - (k + 1) = n - k
    BY <1>1
  <2>2. <<k + 1, a>> \in (1..n) \X Seq(S)
    BY <2>1
  <2>3. CutsOf(p, S)[<<k + 1, a>>] = Cut(p[n + 1 - (k + 1)], a)
    BY <1>3, <2>2
  <2> QED
    BY <2>1, <2>3
<1> QED
  BY <1>5, <1>6 DEF n

LEMMA WindowIsRecursion ==
    ASSUME NEW S, NEW rs \in Seq(S), NEW p \in Seq(Limited)
    PROVE  \E u : /\ Recursion(Seq(S), rs, Len(p), CutsOf(p, S), u)
                  /\ Window(p, rs) = u[Len(p)]
<1> DEFINE n == Len(p)
           F(g) == [k \in 0..n |-> IF k = 0 THEN rs ELSE Cut(p[n + 1 - k], g[k - 1])]
           w == CHOOSE g : g = F(g)
<1>1. n \in Nat
  OBVIOUS
<1>2. Window(p, rs) = w[n]
  BY DEF Window
<1>3. PICK u : Recursion(Seq(S), rs, n, CutsOf(p, S), u)
  <2>1. CutsOf(p, S) \in [(1..n) \X Seq(S) -> Seq(S)]
    BY CutsOfProperties
  <2> QED
    BY <1>1, <2>1, RecursionExists
<1>4. \A k \in 0..(n - 1), a \in Seq(S) : CutsOf(p, S)[<<k + 1, a>>] = Cut(p[n - k], a)
  BY CutsOfProperties
<1> HIDE DEF n
<1>5. ASSUME NEW k \in 0..n, k # 0 PROVE u[k] = Cut(p[n + 1 - k], u[k - 1])
  <2>1. k - 1 \in 0..(n - 1) /\ k - 1 \in 0..n /\ (k - 1) + 1 = k /\ n - (k - 1) = n + 1 - k
    BY <1>1, <1>5
  <2>2. u[k - 1] \in Seq(S) /\ u[(k - 1) + 1] = CutsOf(p, S)[<<(k - 1) + 1, u[k - 1]>>]
    BY <1>3, <2>1 DEF Recursion
  <2>3. CutsOf(p, S)[<<(k - 1) + 1, u[k - 1]>>] = Cut(p[n - (k - 1)], u[k - 1])
    BY <1>4, <2>1, <2>2
  <2> QED
    BY <2>1, <2>2, <2>3
<1>6. u = F(u)
  <2>1. u = [k \in 0..n |-> u[k]] /\ u[0] = rs
    BY <1>3 DEF Recursion
  <2>2. \A k \in 0..n : u[k] = IF k = 0 THEN rs ELSE Cut(p[n + 1 - k], u[k - 1])
    BY <1>5, <2>1
  <2>3. [k \in 0..n |-> u[k]]
          = [k \in 0..n |-> IF k = 0 THEN rs ELSE Cut(p[n + 1 - k], u[k - 1])]
    BY <2>2, Zenon
  <2> QED
    BY <2>1, <2>3, Zenon
<1>7. w = F(w)
  <2> HIDE DEF F
  <2> QED
    BY <1>6
<1> HIDE DEF w
<1>8. \A k \in 0..n : w[k] = IF k = 0 THEN rs ELSE Cut(p[n + 1 - k], w[k - 1])
  BY <1>7, Zenon
<1>9. ASSUME NEW k \in 0..(n - 1), w[k] \in Seq(S)
      PROVE  w[k + 1] = CutsOf(p, S)[<<k + 1, w[k]>>]
  <2>1. k + 1 \in 0..n /\ k + 1 # 0 /\ (k + 1) - 1 = k /\ n + 1 - (k + 1) = n - k
    BY <1>1
  <2>2. w[k + 1] = Cut(p[n + 1 - (k + 1)], w[(k + 1) - 1])
    BY <1>8, <2>1
  <2> QED
    BY <1>4, <1>9, <2>1, <2>2
<1>10. w[0] = rs /\ n \in 0..n
  BY <1>1, <1>8
<1>11. w[n] = u[n]
  <2>1. Follows(Seq(S), rs, n, CutsOf(p, S), w)
    BY <1>9, <1>10 DEF Follows
  <2> QED
    BY <1>1, <1>3, <1>10, <2>1, RecursionIsOne
<1> QED
  BY <1>2, <1>3, <1>11 DEF n

\* What a stack lets through is what its outermost limit takes of the others'.
LEMMA WindowUnfolds ==
    ASSUME NEW S, NEW rs \in Seq(S), NEW p \in Seq(Limited)
    PROVE  /\ Window(p, rs) \in Seq(S)
           /\ p = <<>> => Window(p, rs) = rs
           /\ p # <<>> => /\ Tail(p) \in Seq(Limited) /\ p[1] \in Limited
                          /\ Window(p, rs) = Cut(p[1], Window(Tail(p), rs))
<1> DEFINE n == Len(p)
<1>1. PICK u : Recursion(Seq(S), rs, n, CutsOf(p, S), u) /\ Window(p, rs) = u[n]
  BY WindowIsRecursion
<1>2. n \in Nat /\ n \in 0..n /\ 0 \in 0..n
  OBVIOUS
<1>3. u \in [0..n -> Seq(S)] /\ u[0] = rs
  BY <1>1 DEF Recursion
<1>4. CASE p = <<>>
  <2>1. n = 0
    BY <1>4
  <2> QED
    BY <1>1, <1>3, <1>4, <2>1
<1>5. CASE p # <<>>
  <2>1. /\ Tail(p) \in Seq(Limited) /\ p[1] \in Limited /\ Len(Tail(p)) = n - 1
        /\ n \in Nat \ {0} /\ \A i \in 1..(n - 1) : Tail(p)[i] = p[i + 1]
    BY <1>5
  <2> DEFINE m == n - 1
  <2>2. m \in Nat /\ n = m + 1 /\ Len(Tail(p)) = m /\ m \in 0..(n - 1)
    BY <2>1
  <2> HIDE DEF n, m
  <2>3. PICK t : /\ Recursion(Seq(S), rs, m, CutsOf(Tail(p), S), t)
                 /\ Window(Tail(p), rs) = t[m]
    BY <2>1, <2>2, WindowIsRecursion
  <2>4. \A k \in 0..(n - 1), a \in Seq(S) : CutsOf(p, S)[<<k + 1, a>>] = Cut(p[n - k], a)
    BY CutsOfProperties DEF n
  <2>5. \A k \in 0..(m - 1), a \in Seq(S) :
           CutsOf(Tail(p), S)[<<k + 1, a>>] = Cut(Tail(p)[m - k], a)
    <3>1. PICK q \in Seq(Limited) : q = Tail(p)
      BY <2>1
    <3>2. \A k \in 0..(Len(q) - 1), a \in Seq(S) :
             CutsOf(q, S)[<<k + 1, a>>] = Cut(q[Len(q) - k], a)
      BY CutsOfProperties
    <3>3. Len(q) = m
      BY <2>2, <3>1
    <3> QED
      BY <3>1, <3>2, <3>3, Zenon
  <2>6. ASSUME NEW k \in 0..(m - 1), u[k] \in Seq(S)
        PROVE  u[k + 1] = CutsOf(Tail(p), S)[<<k + 1, u[k]>>]
    <3>1. k \in 0..(n - 1) /\ m - k \in 1..(n - 1) /\ (m - k) + 1 = n - k
      BY <2>2
    <3>2. Tail(p)[m - k] = p[n - k]
      BY <2>1, <3>1
    <3>3. u[k + 1] = CutsOf(p, S)[<<k + 1, u[k]>>]
      BY <1>1, <3>1 DEF Recursion
    <3>4. CutsOf(p, S)[<<k + 1, u[k]>>] = Cut(p[n - k], u[k])
      BY <2>4, <2>6, <3>1
    <3>5. CutsOf(Tail(p), S)[<<k + 1, u[k]>>] = Cut(Tail(p)[m - k], u[k])
      BY <2>5, <2>6
    <3> QED
      BY <3>2, <3>3, <3>4, <3>5
  <2>7. u[m] = t[m]
    <3>1. m \in 0..m
      BY <2>2
    <3>2. Follows(Seq(S), rs, m, CutsOf(Tail(p), S), u)
      BY <1>3, <2>6 DEF Follows
    <3> QED
      BY <2>2, <2>3, <3>1, <3>2, RecursionIsOne
  <2>8. u[m] \in Seq(S) /\ u[m + 1] = CutsOf(p, S)[<<m + 1, u[m]>>]
    <3>1. m \in 0..n
      BY <2>2
    <3> QED
      BY <1>1, <1>3, <2>2, <3>1 DEF Recursion
  <2>9. n - m = 1
    BY <2>2
  <2>10. u[n] = Cut(p[1], u[m])
    BY <2>2, <2>4, <2>8, <2>9, ZenonT(60)
  <2>11. u[n] \in Seq(S)
    BY <1>2, <1>3
  <2> QED
    BY <1>1, <1>5, <2>1, <2>3, <2>7, <2>10, <2>11
<1> QED
  BY <1>4, <1>5

\* A limit over a limit is one limit.
Merged(a, b) ==
    [skip |-> a.skip + b.skip,
     fetch |-> IF b.fetch = Unlimited THEN a.fetch
               ELSE Smaller(a.fetch, IF b.fetch < a.skip THEN 0 ELSE b.fetch - a.skip)]

LEMMA MergedLengths ==
    ASSUME NEW a \in Limited, NEW b \in Limited, NEW n \in Nat
    PROVE  /\ Merged(a, b) \in Limited /\ Merged(a, b).skip = a.skip + b.skip
           /\ CutLength(a, CutLength(b, n)) = CutLength(Merged(a, b), n)
           /\ CutLength(b, n) \in Nat
           /\ \A i \in 1..CutLength(a, CutLength(b, n)) : a.skip + i \in 1..CutLength(b, n)
<1>1. /\ a.skip \in Nat /\ a.fetch \in Nat \union {Unlimited}
      /\ b.skip \in Nat /\ b.fetch \in Nat \union {Unlimited}
      /\ Unlimited \notin Nat
  BY LimitsAssumption DEF Limited
<1>2. Merged(a, b).skip = a.skip + b.skip
  BY DEF Merged
<1>3. CASE a.fetch = Unlimited /\ b.fetch = Unlimited
  <2>1. Merged(a, b).fetch = Unlimited
    BY <1>3 DEF Merged
  <2>2. Merged(a, b) \in Limited
    BY <1>1, <1>3 DEF Merged, Limited
  <2> QED
    BY <1>1, <1>2, <1>3, <2>1, <2>2 DEF CutLength, CutEnd
<1>4. CASE a.fetch \in Nat /\ b.fetch = Unlimited
  <2>1. Merged(a, b).fetch = a.fetch
    BY <1>4 DEF Merged
  <2>2. Merged(a, b) \in Limited
    BY <1>1, <1>4 DEF Merged, Limited
  <2> QED
    BY <1>1, <1>2, <1>4, <2>1, <2>2 DEF CutLength, CutEnd
<1>5. CASE b.fetch \in Nat
  <2> DEFINE left == IF b.fetch < a.skip THEN 0 ELSE b.fetch - a.skip
  <2>1. left \in Nat /\ b.fetch # Unlimited
    BY <1>1, <1>5
  <2>2. Merged(a, b).fetch = Smaller(a.fetch, left)
    BY <2>1 DEF Merged
  <2>3. Smaller(a.fetch, left) = IF a.fetch \in Nat /\ a.fetch <= left THEN a.fetch ELSE left
    BY <1>1, <2>1 DEF Smaller
  <2>4. Merged(a, b).fetch \in Nat
    BY <1>1, <2>1, <2>2, <2>3
  <2>5. Merged(a, b) \in Limited
    BY <1>1, <1>2, <2>4 DEF Merged, Limited
  <2>6. CASE a.fetch = Unlimited
    <3>1. Merged(a, b).fetch = left
      BY <1>1, <2>2, <2>3, <2>6
    <3> QED
      BY <1>1, <1>2, <1>5, <2>5, <2>6, <3>1 DEF CutLength, CutEnd
  <2>7. CASE a.fetch \in Nat
    <3>1. Merged(a, b).fetch = IF a.fetch <= left THEN a.fetch ELSE left
      BY <2>2, <2>3, <2>7
    <3>2. a.fetch # Unlimited /\ b.fetch # Unlimited /\ Merged(a, b).fetch # Unlimited
      BY <1>1, <2>4, <2>7, <1>5
    <3> DEFINE f == a.fetch
               g == b.fetch
               s == a.skip
               r == b.skip
               e == IF r + g > n THEN n ELSE r + g
               c == IF r < e THEN e - r ELSE 0
    <3>3. CutLength(b, n) = c
      BY <3>2 DEF CutLength, CutEnd
    <3>4. c \in Nat /\ f \in Nat /\ g \in Nat /\ s \in Nat /\ r \in Nat
      BY <1>1, <1>5, <2>7
    <3>5. CutLength(a, c) = LET d == IF s + f > c THEN c ELSE s + f
                            IN  IF s < d THEN d - s ELSE 0
      BY <3>2 DEF CutLength, CutEnd
    <3> DEFINE h == Merged(a, b).fetch
    <3>6. CutLength(Merged(a, b), n) = LET d == IF (s + r) + h > n THEN n ELSE (s + r) + h
                                       IN  IF s + r < d THEN d - (s + r) ELSE 0
      BY <1>2, <3>2 DEF CutLength, CutEnd
    <3>7. h = IF f <= (IF g < s THEN 0 ELSE g - s) THEN f ELSE (IF g < s THEN 0 ELSE g - s)
      BY <3>1
    <3>8. c = LET d == IF r + g > n THEN n ELSE r + g IN IF r < d THEN d - r ELSE 0
      OBVIOUS
    <3> HIDE DEF f, g, s, r, c, h
    <3>9. CutLength(a, c) = CutLength(Merged(a, b), n)
      BY <3>4, <3>5, <3>6, <3>7, <3>8
    <3>10. \A i \in 1..CutLength(a, c) : s + i \in 1..c
      BY <3>4, <3>5
    <3> QED
      BY <1>2, <2>5, <3>3, <3>4, <3>9, <3>10 DEF s
  <2> QED
    BY <1>1, <2>6, <2>7
<1> QED
  BY <1>1, <1>3, <1>4, <1>5

LEMMA TwoCuts ==
    ASSUME NEW S, NEW rs \in Seq(S), NEW a \in Limited, NEW b \in Limited
    PROVE  Merged(a, b) \in Limited /\ Cut(a, Cut(b, rs)) = Cut(Merged(a, b), rs)
<1> DEFINE n == Len(rs)
           c == Cut(b, rs)
           m == Merged(a, b)
<1>1. /\ n \in Nat /\ m \in Limited /\ m.skip = a.skip + b.skip
      /\ CutLength(a, CutLength(b, n)) = CutLength(m, n)
      /\ \A i \in 1..CutLength(a, CutLength(b, n)) : a.skip + i \in 1..CutLength(b, n)
  BY MergedLengths
<1>2. /\ c \in Seq(S) /\ Len(c) = CutLength(b, n)
      /\ \A i \in 1..CutLength(b, n) : c[i] = rs[b.skip + i]
  BY CutProperties
<1> HIDE DEF c, m
<1>3. /\ Cut(a, c) \in Seq(S) /\ Len(Cut(a, c)) = CutLength(m, n)
      /\ \A i \in 1..CutLength(m, n) : Cut(a, c)[i] = c[a.skip + i]
  <2>1. /\ Cut(a, c) \in Seq(S) /\ Len(Cut(a, c)) = CutLength(a, Len(c))
        /\ \A i \in 1..CutLength(a, Len(c)) : Cut(a, c)[i] = c[a.skip + i]
    BY <1>2, CutProperties
  <2>2. CutLength(a, Len(c)) = CutLength(m, n)
    BY <1>1, <1>2
  <2> QED
    BY <2>1, <2>2
<1>4. /\ Cut(m, rs) \in Seq(S) /\ Len(Cut(m, rs)) = CutLength(m, n)
      /\ \A i \in 1..CutLength(m, n) : Cut(m, rs)[i] = rs[m.skip + i]
  BY <1>1, CutProperties
<1>5. ASSUME NEW i \in 1..CutLength(m, n) PROVE Cut(a, c)[i] = Cut(m, rs)[i]
  <2>1. a.skip + i \in 1..CutLength(b, n)
    BY <1>1
  <2>2. a.skip \in Nat /\ b.skip \in Nat /\ i \in Int
    BY DEF Limited
  <2>3. b.skip + (a.skip + i) = m.skip + i
    BY <1>1, <2>2
  <2> QED
    BY <1>2, <1>3, <1>4, <2>1, <2>3
<1>6. Cut(a, c) = Cut(m, rs)
  BY <1>3, <1>4, <1>5, SeqEqual
<1> QED
  BY <1>1, <1>6 DEF c, m

\* A limit put on top of a stack takes its part of what the stack lets through.
LEMMA WindowOfTop ==
    ASSUME NEW S, NEW rs \in Seq(S), NEW l \in Limited, NEW q \in Seq(Limited)
    PROVE  /\ <<l>> \o q \in Seq(Limited)
           /\ Window(<<l>> \o q, rs) = Cut(l, Window(q, rs))
<1> DEFINE p == <<l>> \o q
<1>1. p \in Seq(Limited) /\ p # <<>> /\ p[1] = l /\ Tail(p) = q
  OBVIOUS
<1> HIDE DEF p
<1>2. Window(p, rs) = Cut(p[1], Window(Tail(p), rs))
  BY <1>1, WindowUnfolds
<1> QED
  BY <1>1, <1>2 DEF p

\* The limit that max_rows is.
CapLimit(c) == [skip |-> 0, fetch |-> c]

LEMMA CapLimits ==
    ASSUME NEW c \in Nat, NEW l \in Limited
    PROVE  /\ CapLimit(c) \in Limited
           /\ Merged(CapLimit(c), l) =
                IF l.fetch # Unlimited /\ l.fetch <= c THEN l ELSE [l EXCEPT !.fetch = c]
<1>1. l = [skip |-> l.skip, fetch |-> l.fetch] /\ l.skip \in Nat
      /\ l.fetch \in Nat \union {Unlimited} /\ Unlimited \notin Nat
  BY LimitsAssumption DEF Limited
<1>2. 0 + l.skip = l.skip /\ (l.fetch \in Nat => l.fetch - 0 = l.fetch /\ ~(l.fetch < 0))
  BY <1>1
<1>3. CapLimit(c) \in Limited
  BY DEF CapLimit, Limited
<1>4. [l EXCEPT !.fetch = c] = [skip |-> l.skip, fetch |-> c]
  BY <1>1
<1>5. CASE l.fetch = Unlimited
  BY <1>1, <1>2, <1>3, <1>4, <1>5 DEF Merged, CapLimit
<1>6. CASE l.fetch \in Nat
  <2>1. l.fetch # Unlimited /\ c # Unlimited
    BY <1>1, <1>6
  <2>2. Merged(CapLimit(c), l) = [skip |-> l.skip, fetch |-> Smaller(c, l.fetch)]
    BY <1>2, <1>6, <2>1 DEF Merged, CapLimit
  <2>3. Smaller(c, l.fetch) = IF c <= l.fetch THEN c ELSE l.fetch
    BY <2>1 DEF Smaller
  <2>4. CASE l.fetch <= c
    <3>1. Smaller(c, l.fetch) = l.fetch
      BY <1>6, <2>3, <2>4
    <3> QED
      BY <1>1, <1>3, <2>1, <2>2, <2>4, <3>1
  <2>5. CASE ~(l.fetch <= c)
    <3>1. Smaller(c, l.fetch) = c
      BY <1>6, <2>3, <2>5
    <3> QED
      BY <1>3, <1>4, <2>2, <2>5, <3>1
  <2> QED
    BY <2>4, <2>5
<1> QED
  BY <1>1, <1>5, <1>6

\* A cap of a cap is that cap.
LEMMA CapOfCap ==
    ASSUME NEW S, NEW rs \in Seq(S), NEW c \in Nat
    PROVE  Cut(CapLimit(c), Cut(CapLimit(c), rs)) = Cut(CapLimit(c), rs)
<1>1. CapLimit(c) \in Limited /\ CapLimit(c).fetch = c /\ c # Unlimited /\ c <= c
  BY LimitsAssumption DEF CapLimit, Limited
<1>2. Merged(CapLimit(c), CapLimit(c)) = CapLimit(c)
  BY <1>1, CapLimits
<1> QED
  BY <1>1, <1>2, TwoCuts

\* What the rule makes of a plan lets through the first max_rows of what the plan
\* let through, whether it puts a limit on top, replaces one or leaves it.
LEMMA GuardCaps ==
    ASSUME NEW S, NEW rs \in Seq(S), NEW p \in Seq(Limited), cap \in Nat
    PROVE  /\ Guard(p) \in Seq(Limited)
           /\ Window(Guard(p), rs) = Cut(CapLimit(cap), Window(p, rs))
<1>1. CapLimit(cap) \in Limited
  BY DEF CapLimit, Limited
<1>2. CASE p = <<>>
  <2>1. Guard(p) = <<CapLimit(cap)>> \o p
    BY <1>2 DEF Guard, CapLimit
  <2> QED
    BY <1>1, <2>1, WindowOfTop
<1>3. CASE p # <<>>
  <2> DEFINE l == p[1]
             q == Tail(p)
             m == Merged(CapLimit(cap), l)
  <2>1. q \in Seq(Limited) /\ l \in Limited /\ Window(p, rs) = Cut(l, Window(q, rs))
        /\ Window(q, rs) \in Seq(S)
    BY <1>3, WindowUnfolds
  <2>2. p = <<l>> \o q
    BY <1>3
  <2>3. m = IF l.fetch # Unlimited /\ l.fetch <= cap THEN l ELSE [l EXCEPT !.fetch = cap]
    BY <2>1, CapLimits
  <2>4. Guard(p) = <<m>> \o q
    BY <1>3, <2>2, <2>3 DEF Guard
  <2>5. m \in Limited /\ Cut(CapLimit(cap), Cut(l, Window(q, rs))) = Cut(m, Window(q, rs))
    BY <1>1, <2>1, TwoCuts
  <2> HIDE DEF l, q, m
  <2> QED
    BY <2>1, <2>4, <2>5, WindowOfTop
<1> QED
  BY <1>2, <1>3

\* The engine's own rules keep what a plan lets through.
LEMMA RewritingKeeps ==
    ASSUME NEW S, NEW rs \in Seq(S), NEW p \in Seq(Limited), NEW q \in Rewritten(p)
    PROVE  q \in Seq(Limited) /\ Window(q, rs) = Window(p, rs)
<1>1. CASE q = p
  BY <1>1
<1>2. CASE q # p
  <2> DEFINE r == SubSeq(p, 3, Len(p))
             a == p[1]
             b == p[2]
             t == Tail(p)
  <2>1. Len(p) \in Nat /\ ~(Len(p) < 2) /\ q = <<Merged(a, b)>> \o r
    BY <1>2 DEF Rewritten, Merged
  <2>2. /\ p # <<>> /\ t \in Seq(Limited) /\ t # <<>> /\ t[1] = b
        /\ Len(t) = Len(p) - 1 /\ \A i \in 1..(Len(p) - 1) : t[i] = p[i + 1]
        /\ a \in Limited /\ b \in Limited
    <3>1. p # <<>> /\ 1 \in 1..Len(p) /\ 2 \in 1..Len(p)
      BY <2>1
    <3>2. a \in Limited /\ b \in Limited
      BY <3>1, ElementOfSeq
    <3>3. /\ t \in Seq(Limited) /\ Len(t) = Len(p) - 1
          /\ \A i \in 1..(Len(p) - 1) : t[i] = p[i + 1]
      BY <3>1
    <3>4. 1 \in 1..(Len(p) - 1) /\ 1 + 1 = 2
      BY <2>1
    <3> HIDE DEF t
    <3>5. t[1] = b /\ t # <<>>
      BY <3>3, <3>4
    <3> QED
      BY <3>1, <3>2, <3>3, <3>5
  <2> HIDE DEF t
  <2>3. /\ Tail(t) \in Seq(Limited) /\ Len(Tail(t)) = Len(p) - 2
        /\ \A i \in 1..(Len(p) - 2) : Tail(t)[i] = p[i + 2]
    <3>1. /\ Tail(t) \in Seq(Limited) /\ Len(Tail(t)) = Len(t) - 1
          /\ \A i \in 1..(Len(t) - 1) : Tail(t)[i] = t[i + 1]
      BY <2>2
    <3>2. ASSUME NEW i \in 1..(Len(p) - 2) PROVE Tail(t)[i] = p[i + 2]
      <4>1. i \in 1..(Len(t) - 1) /\ i + 1 \in 1..(Len(p) - 1) /\ (i + 1) + 1 = i + 2
        BY <2>1, <2>2
      <4> QED
        BY <2>2, <3>1, <4>1
    <3> QED
      BY <2>1, <2>2, <3>1, <3>2
  <2>4. Tail(t) = r
    <3>1. /\ r \in Seq(Limited) /\ Len(r) = Len(p) - 2
          /\ \A i \in 1..(Len(p) - 2) : r[i] = p[i + 2]
      <4>1. \A j \in 3..Len(p) : p[j] \in Limited
        BY ElementOfSeq
      <4>2. /\ r \in Seq(Limited)
            /\ Len(r) = IF 3 <= Len(p) THEN Len(p) - 3 + 1 ELSE 0
            /\ \A i \in 1..(Len(p) - 3 + 1) : r[i] = p[3 + i - 1]
        BY <2>1, <4>1, SubSeqProperties
      <4>3. \A i \in 1..(Len(p) - 2) : i \in 1..(Len(p) - 3 + 1) /\ 3 + i - 1 = i + 2
        BY <2>1
      <4> HIDE DEF r
      <4>4. Len(r) = Len(p) - 2
        <5>1. \A n \in Nat : \A k : ~(n < 2) /\ k = (IF 3 <= n THEN n - 3 + 1 ELSE 0) => k = n - 2
          OBVIOUS
        <5> QED
          BY <2>1, <4>2, <5>1, Zenon
      <4>5. \A i \in 1..(Len(p) - 2) : r[i] = p[i + 2]
        BY <4>2, <4>3
      <4> QED
        BY <4>2, <4>4, <4>5
    <3> HIDE DEF r
    <3> QED
      BY <2>3, <3>1, SeqEqual
  <2>5. Window(p, rs) = Cut(a, Window(t, rs))
    BY <2>2, WindowUnfolds DEF t
  <2>6. Window(t, rs) = Cut(b, Window(r, rs)) /\ r \in Seq(Limited)
    BY <2>2, <2>4, WindowUnfolds
  <2>7. Window(r, rs) \in Seq(S)
    BY <2>6, WindowUnfolds
  <2> HIDE DEF r, a, b
  <2>8. Merged(a, b) \in Limited
        /\ Cut(a, Cut(b, Window(r, rs))) = Cut(Merged(a, b), Window(r, rs))
    BY <2>2, <2>7, TwoCuts
  <2> QED
    BY <2>1, <2>5, <2>6, <2>8, WindowOfTop
<1> QED
  BY <1>1, <1>2

-----------------------------------------------------------------------------
(* What the engine returns is a sequence of rows *)

IsSeq(s) == \E S : s \in Seq(S)

LEMMA FunctionIsSeq ==
    ASSUME NEW n \in Nat, NEW s, s = [i \in 1..n |-> s[i]]
    PROVE  IsSeq(s)
<1>1. s \in Seq({s[i] : i \in 1..n})
  OBVIOUS
<1> QED
  BY <1>1 DEF IsSeq

LEMMA SeqHasLength ==
    ASSUME NEW s, IsSeq(s)
    PROVE  Len(s) \in Nat /\ DOMAIN s = 1..Len(s) /\ s = [i \in 1..Len(s) |-> s[i]]
<1>1. PICK S : s \in Seq(S)
  BY DEF IsSeq
<1> QED
  BY <1>1

\* f goes from nothing to all of ss, one sequence at a time.
Flattens(S, n, ss, f) ==
    /\ f \in [0..n -> Seq(S)] /\ f[0] = <<>> /\ FlattenSeq(ss) = f[n]
    /\ \A i \in 1..n : f[i] = f[i - 1] \o ss[i]

\* The sequences are put one after the other, in order.
LEMMA FlattenUnfolds ==
    ASSUME NEW S, NEW n \in Nat, NEW ss \in [1..n -> Seq(S)]
    PROVE  \E f : Flattens(S, n, ss, f)
<1> DEFINE F(g) == [i \in 1..n |-> IF i = 1 THEN ss[i] ELSE g[i - 1] \o ss[i]]
           w == CHOOSE g : g = F(g)
           op == [x \in (1..n) \X Seq(S) |-> x[2] \o ss[x[1]]]
<1>1. ss \in Seq(Seq(S)) /\ Len(ss) = n
  OBVIOUS
<1>2. FlattenSeq(ss) = IF n = 0 THEN ss ELSE w[n]
  BY <1>1 DEF FlattenSeq
<1>3. \A a, b \in Seq(S) : a \o b \in Seq(S)
  OBVIOUS
<1>4. op \in [(1..n) \X Seq(S) -> Seq(S)]
  BY <1>3
<1>5. \A i \in 1..n, a \in Seq(S) : op[<<i, a>>] = a \o ss[i]
  OBVIOUS
<1>6. <<>> \in Seq(S) /\ \A a \in Seq(S) : <<>> \o a = a
  OBVIOUS
<1> HIDE DEF op
<1>7. PICK h : Recursion(Seq(S), <<>>, n, op, h)
  BY <1>4, <1>6, RecursionExists
<1>8. h \in [0..n -> Seq(S)] /\ h[0] = <<>>
  BY <1>7 DEF Recursion
<1>9. ASSUME NEW i \in 1..n PROVE h[i] = h[i - 1] \o ss[i]
  <2>1. i - 1 \in 0..(n - 1) /\ i - 1 \in 0..n /\ (i - 1) + 1 = i
    OBVIOUS
  <2>2. h[i - 1] \in Seq(S) /\ h[(i - 1) + 1] = op[<<(i - 1) + 1, h[i - 1]>>]
    BY <1>7, <2>1 DEF Recursion
  <2> QED
    BY <1>5, <2>1, <2>2
<1>10. FlattenSeq(ss) = h[n]
  <2>1. CASE n = 0
    <3>1. ss = <<>>
      BY <1>1, <2>1
    <3> QED
      BY <1>2, <1>8, <2>1, <3>1
  <2>2. CASE n # 0
    <3> DEFINE v == [i \in 1..n |-> h[i]]
    <3>1. ASSUME NEW i \in 1..n
          PROVE  v[i] = IF i = 1 THEN ss[i] ELSE v[i - 1] \o ss[i]
      <4>1. CASE i = 1
        <5>1. i - 1 = 0 /\ ss[i] \in Seq(S)
          BY <4>1
        <5>2. h[i] = <<>> \o ss[i]
          BY <1>8, <1>9, <5>1
        <5> QED
          BY <1>6, <4>1, <5>1, <5>2
      <4>2. CASE i # 1
        <5>1. i - 1 \in 1..n
          BY <4>2
        <5> QED
          BY <1>9, <4>2, <5>1
      <4> QED
        BY <4>1, <4>2
    <3>2. v = F(v)
      <4>1. v = [i \in 1..n |-> v[i]]
        OBVIOUS
      <4> HIDE DEF v
      <4>2. [i \in 1..n |-> v[i]]
              = [i \in 1..n |-> IF i = 1 THEN ss[i] ELSE v[i - 1] \o ss[i]]
        BY <3>1, Zenon
      <4> QED
        BY <4>1, <4>2, Zenon
    <3>3. w = F(w)
      <4> HIDE DEF F, v
      <4> QED
        BY <3>2
    <3> HIDE DEF w
    <3>4. \A i \in 1..n : w[i] = IF i = 1 THEN ss[i] ELSE w[i - 1] \o ss[i]
      BY <3>3, Zenon
    <3> DEFINE T == {k \in Nat : k + 1 <= n => w[k + 1] = v[k + 1]}
    <3>5. 0 \in T
      <4> HIDE DEF v
      <4>1. 1 \in 1..n /\ 0 + 1 = 1
        BY <2>2
      <4>2. w[1] = v[1]
        BY <3>1, <3>4, <4>1
      <4> QED
        BY <4>1, <4>2
    <3>6. ASSUME NEW k \in Nat, k \in T PROVE k + 1 \in T
      <4> SUFFICES ASSUME (k + 1) + 1 <= n PROVE w[(k + 1) + 1] = v[(k + 1) + 1]
        OBVIOUS
      <4>1. w[k + 1] = v[k + 1]
        BY <3>6
      <4> HIDE DEF v
      <4> DEFINE i == (k + 1) + 1
      <4>2. i \in 1..n /\ i # 1 /\ i - 1 = k + 1
        OBVIOUS
      <4> HIDE DEF i
      <4>3. w[i] = v[i]
        BY <3>1, <3>4, <4>1, <4>2
      <4> QED
        BY <4>3 DEF i
    <3> HIDE DEF T
    <3>7. n - 1 \in Nat /\ (n - 1) + 1 = n /\ n \in 1..n
      BY <2>2
    <3>8. n - 1 \in T
      BY <3>5, <3>6, <3>7, NatSetInduction
    <3>9. w[n] = v[n]
      BY <3>7, <3>8 DEF T
    <3> QED
      BY <1>2, <2>2, <3>7, <3>9
  <2> QED
    BY <2>1, <2>2
<1> QED
  BY <1>8, <1>9, <1>10 DEF Flattens

\* Of sequences over S it makes a sequence over S.
LEMMA FlattenIsSeq ==
    ASSUME NEW S, NEW n \in Nat, NEW ss \in [1..n -> Seq(S)]
    PROVE  FlattenSeq(ss) \in Seq(S)
<1>1. PICK f : Flattens(S, n, ss, f)
  BY FlattenUnfolds
<1>2. n \in 0..n
  OBVIOUS
<1> QED
  BY <1>1, <1>2 DEF Flattens

LEMMA FlattenOfSeqs ==
    ASSUME NEW n \in Nat, NEW ss, ss = [i \in 1..n |-> ss[i]], \A i \in 1..n : IsSeq(ss[i])
    PROVE  IsSeq(FlattenSeq(ss))
<1> DEFINE S == UNION {{ss[i][j] : j \in DOMAIN ss[i]} : i \in 1..n}
<1>1. ASSUME NEW i \in 1..n PROVE ss[i] \in Seq(S)
  <2>1. Len(ss[i]) \in Nat /\ DOMAIN ss[i] = 1..Len(ss[i])
        /\ ss[i] = [j \in 1..Len(ss[i]) |-> ss[i][j]]
    BY SeqHasLength
  <2>2. \A j \in 1..Len(ss[i]) : ss[i][j] \in S
    BY <2>1
  <2> HIDE DEF S
  <2> QED
    BY <2>1, <2>2
<1> HIDE DEF S
<1>2. ss \in [1..n -> Seq(S)]
  BY <1>1
<1>3. FlattenSeq(ss) \in Seq(S)
  BY <1>2, FlattenIsSeq
<1> QED
  BY <1>3 DEF IsSeq

\* An order that the rows are put in is a sequence, whatever the order.
LEMMA ArrangedIsSeq ==
    ASSUME NEW rs, IsSeq(rs), NEW s, NEW p, s = [i \in DOMAIN rs |-> rs[p[i]]]
    PROVE  IsSeq(s)
<1>1. Len(rs) \in Nat /\ DOMAIN rs = 1..Len(rs)
  BY SeqHasLength
<1>2. s = [i \in 1..Len(rs) |-> s[i]]
  BY <1>1
<1> QED
  BY <1>1, <1>2, FunctionIsSeq

LEMMA OrdersIsSeq ==
    ASSUME IsSeq(FlattenSeq(batches))
    PROVE  IsSeq(Orders)
<1> DEFINE all == FlattenSeq(batches)
<1>1. Len(all) \in Nat /\ DOMAIN all = 1..Len(all)
  BY SeqHasLength
<1>2. Orders = [i \in DOMAIN all |-> [c \in {"id", "amount", "placed_at", "note"} |-> all[i][c]]]
  BY DEF Orders, Scan
<1> HIDE DEF all
<1>3. Orders = [i \in 1..Len(all) |-> Orders[i]]
  BY <1>1, <1>2
<1> QED
  BY <1>1, <1>3, FunctionIsSeq

LEMMA ShortIsSeq == IsSeq(<<>>) /\ \A x : IsSeq(<<x>>)
<1>1. <<>> \in Seq({}) /\ \A x : <<x>> \in Seq({x})
  OBVIOUS
<1> QED
  BY <1>1 DEF IsSeq

LEMMA SelectedIsSeq ==
    ASSUME IsSeq(Orders)
    PROVE  IsSeq(Selected)
<1> DEFINE n == Len(Orders)
           ss == [i \in 1..n |-> IF Above(Orders[i]) THEN <<Orders[i]>> ELSE <<>>]
<1>1. n \in Nat /\ DOMAIN Orders = 1..n
  BY SeqHasLength
<1>2. Selected = FlattenSeq(ss)
  BY <1>1 DEF Selected, Where
<1>3. \A i \in 1..n : IsSeq(ss[i])
  BY ShortIsSeq
<1>4. ss = [i \in 1..n |-> ss[i]]
  OBVIOUS
<1> HIDE DEF ss, n
<1> QED
  BY <1>1, <1>2, <1>3, <1>4, FlattenOfSeqs

LEMMA ShipmentsOfIsSeq ==
    ASSUME IsSeq(shipments), NEW o
    PROVE  IsSeq(ShipmentsOf(o))
<1> DEFINE n == Len(shipments)
           ss == [i \in 1..n |-> IF shipments[i].order_id = o.id THEN <<shipments[i]>> ELSE <<>>]
<1>1. n \in Nat /\ DOMAIN shipments = 1..n
  BY SeqHasLength
<1>2. ShipmentsOf(o) = FlattenSeq(ss)
  BY <1>1 DEF ShipmentsOf, Where
<1>3. \A i \in 1..n : IsSeq(ss[i])
  BY ShortIsSeq
<1>4. ss = [i \in 1..n |-> ss[i]]
  OBVIOUS
<1> HIDE DEF ss, n
<1> QED
  BY <1>1, <1>2, <1>3, <1>4, FlattenOfSeqs

LEMMA PairsIsSeq ==
    ASSUME IsSeq(shipments), NEW o, NEW keep \in BOOLEAN
    PROVE  IsSeq(Pairs(o, keep))
<1> DEFINE theirs == ShipmentsOf(o)
<1>1. Len(theirs) \in Nat /\ DOMAIN theirs = 1..Len(theirs)
  BY ShipmentsOfIsSeq, SeqHasLength
<1>2. CASE theirs = <<>> /\ keep
  <2>1. \E x : Pairs(o, keep) = <<x>>
    BY <1>2 DEF Pairs
  <2> QED
    BY <2>1, ShortIsSeq
<1>3. CASE ~(theirs = <<>> /\ keep)
  <2>1. Pairs(o, keep) = [i \in DOMAIN theirs |->
            [id |-> o.id, amount |-> o.amount,
             carrier |-> theirs[i].carrier, shipped_at |-> theirs[i].shipped_at]]
    BY <1>3 DEF Pairs
  <2> HIDE DEF theirs
  <2>2. Pairs(o, keep) = [i \in 1..Len(theirs) |-> Pairs(o, keep)[i]]
    BY <1>1, <2>1
  <2> QED
    BY <1>1, <2>2, FunctionIsSeq
<1> QED
  BY <1>2, <1>3

LEMMA JoinedIsSeq ==
    ASSUME IsSeq(shipments), NEW os, IsSeq(os), NEW keep \in BOOLEAN
    PROVE  IsSeq(Joined(os, keep))
<1> DEFINE n == Len(os)
           ss == [i \in 1..n |-> Pairs(os[i], keep)]
<1>1. n \in Nat /\ DOMAIN os = 1..n
  BY SeqHasLength
<1>2. Joined(os, keep) = FlattenSeq(ss)
  BY <1>1 DEF Joined
<1>3. \A i \in 1..n : IsSeq(ss[i])
  BY PairsIsSeq
<1>4. ss = [i \in 1..n |-> ss[i]]
  OBVIOUS
<1> HIDE DEF ss, n
<1> QED
  BY <1>1, <1>2, <1>3, <1>4, FlattenOfSeqs

\* The buckets of a table are finitely many.
LEMMA GroupsAreFinite ==
    ASSUME IsSeq(Orders)
    PROVE  IsFiniteSet(Groups)
<1> DEFINE n == Len(Orders)
           f == [i \in 1..n |-> GroupOf(Rem(Orders[i].id, Buckets))]
<1>1. n \in Nat /\ DOMAIN Orders = 1..n
  BY SeqHasLength
<1>2. f \in [1..n -> Groups] /\ \A g \in Groups : \E i \in 1..n : f[i] = g
  BY <1>1 DEF Groups
<1> HIDE DEF f, n
<1>3. f \in Surjection(1..n, Groups)
  BY <1>2 DEF Surjection
<1>4. IsFiniteSet(1..n)
  BY <1>1, FS_Interval
<1> QED
  BY <1>3, <1>4, FS_Surjection

\* Every query returns a sequence of rows.
LEMMA SqlIsSeq ==
    ASSUME IsSeq(FlattenSeq(batches)), IsSeq(shipments),
           NEW q \in Queries \ {"range"}, NEW r \in Sql(q)
    PROVE  IsSeq(r)
<1>1. IsSeq(Orders) /\ IsSeq(Selected) /\ IsSeq(Joined(Orders, TRUE))
  BY OrdersIsSeq, SelectedIsSeq, JoinedIsSeq
<1>2. CASE q = "row"
  <2>1. PICK p : r = [i \in DOMAIN Selected |-> Selected[p[i]]]
    BY <1>2 DEF Sql, RowSql, Sorted
  <2> QED
    BY <1>1, <2>1, ArrangedIsSeq
<1>3. CASE q = "join"
  <2> DEFINE joined == Joined(Orders, TRUE)
  <2>1. PICK p : r = [i \in DOMAIN joined |-> joined[p[i]]]
    BY <1>3 DEF Sql, JoinSql, Sorted
  <2> QED
    BY <1>1, <2>1, ArrangedIsSeq
<1>4. CASE q \in {"aggregate", "join_aggregate", "multi"}
  <2>1. \E x : r = <<x>>
    BY <1>4 DEF Sql, AggregateSql, JoinAggregate, MultiSql
  <2> QED
    BY <2>1, ShortIsSeq
<1>5. CASE q \in {"rank", "days", "percent", "region"}
  <2>1. \E rs, p : DOMAIN rs = DOMAIN Orders /\ r = [i \in DOMAIN rs |-> rs[p[i]]]
    <3>1. CASE q = "rank"
      <4>1. DOMAIN Ranked = DOMAIN Orders
        BY DEF Ranked, Mapped
      <4>2. \E p : r = [i \in DOMAIN Ranked |-> Ranked[p[i]]]
        BY <3>1 DEF Sql, WindowSql, Sorted
      <4> QED
        BY <4>1, <4>2
    <3>2. CASE q = "days"
      BY <3>2 DEF Sql, DaysQuery, Sorted, Mapped
    <3>3. CASE q = "percent"
      <4>1. \A rs : r \in Unsorted(rs) => \E p : r = [i \in DOMAIN rs |-> rs[p[i]]]
        BY DEF Unsorted, Sorted
      <4>2. PICK rs : DOMAIN rs = DOMAIN Orders /\ r \in Unsorted(rs)
        BY <3>3 DEF Sql, PercentQuery, Mapped
      <4> QED
        BY <4>1, <4>2
    <3>4. CASE q = "region"
      BY <3>4 DEF Sql, RegionQuery, Sorted, Mapped
    <3> QED
      BY <1>5, <3>1, <3>2, <3>3, <3>4
  <2>2. PICK rs, p : DOMAIN rs = DOMAIN Orders /\ r = [i \in DOMAIN rs |-> rs[p[i]]]
    BY <2>1
  <2>3. Len(Orders) \in Nat /\ DOMAIN Orders = 1..Len(Orders)
    BY <1>1, SeqHasLength
  <2>4. r = [i \in 1..Len(Orders) |-> r[i]]
    BY <2>2, <2>3
  <2> QED
    BY <2>3, <2>4, FunctionIsSeq
<1>6. CASE q = "bucket"
  <2>1. Cardinality(Groups) \in Nat
    BY <1>1, GroupsAreFinite, FS_CardinalityType
  <2>2. r \in [1..Cardinality(Groups) -> Groups]
    BY <1>6 DEF Sql, BucketSql
  <2>3. r \in Seq(Groups)
    BY <2>1, <2>2
  <2> QED
    BY <2>3 DEF IsSeq
<1> QED
  BY <1>2, <1>3, <1>4, <1>5, <1>6 DEF Queries, Twice

-----------------------------------------------------------------------------
(* A session *)

LEMMA TableIsSeq ==
    ASSUME batches \in Seq(Seq(OrderRow))
    PROVE  FlattenSeq(batches) \in Seq(OrderRow)
<1>1. Len(batches) \in Nat /\ batches \in [1..Len(batches) -> Seq(OrderRow)]
  OBVIOUS
<1> QED
  BY <1>1, FlattenIsSeq

\* The two files hold rows of the table.
LEMMA HalvesIsSeq ==
    ASSUME NEW rs, IsSeq(rs)
    PROVE  IsSeq(FlattenSeq(Halves(rs)))
<1> DEFINE midpoint == Len(rs) \div 2
           a == SubSeq(rs, 1, midpoint)
           b == SubSeq(rs, midpoint + 1, Len(rs))
<1>1. PICK S : rs \in Seq(S)
  BY DEF IsSeq
<1>2. Len(rs) \in Nat /\ midpoint \in Nat /\ midpoint <= Len(rs)
  BY <1>1
<1> HIDE DEF midpoint
<1>3. a \in Seq(S)
  <2>1. \A j \in 1..midpoint : rs[j] \in S
    BY <1>1, <1>2, ElementOfSeq
  <2> QED
    BY <1>1, <1>2, <2>1, SubSeqProperties
<1>4. b \in Seq(S)
  <2>1. \A j \in (midpoint + 1)..Len(rs) : rs[j] \in S
    BY <1>1, <1>2, ElementOfSeq
  <2> QED
    BY <1>1, <1>2, <2>1, SubSeqProperties
<1>5. Halves(rs) = <<a, b>>
  BY DEF Halves, midpoint
<1> HIDE DEF a, b
<1>6. <<a, b>> \in [1..2 -> Seq(S)]
  BY <1>3, <1>4
<1>7. FlattenSeq(<<a, b>>) \in Seq(S)
  BY <1>6, FlattenIsSeq
<1> QED
  BY <1>5, <1>7 DEF IsSeq

\* After a pass the plan lets through the first max_rows of what the query asks
\* for, of any rows; with no pass, or no cap, it is still the query's own.
Planned ==
    IF passes = 0 \/ cap = Unlimited THEN plan = own
    ELSE \A S : \A rs \in Seq(S) : Window(plan, rs) = Cut(CapLimit(cap), Window(own, rs))

SessionInv ==
    /\ IsSeq(FlattenSeq(batches)) /\ IsSeq(shipments) /\ IsSeq(rows)
    /\ cap \in Nat \union {Unlimited}
    /\ own \in Seq(Limited) /\ plan \in Seq(Limited) /\ passes \in Nat
    /\ query = "none" => passes = 0
    /\ query \notin {"none", "answered"} /\ cap = Unlimited => passes >= MaxPasses
    /\ Planned
    /\ CapIsAPrefix

LEMMA CapIsSubSeq ==
    ASSUME NEW S, NEW rs \in Seq(S), NEW c \in Nat
    PROVE  Cut(CapLimit(c), rs) = SubSeq(rs, 1, IF c < Len(rs) THEN c ELSE Len(rs))
<1>1. Len(rs) \in Nat /\ c # Unlimited /\ 0 + 1 = 1 /\ 0 + c = c
  BY LimitsAssumption
<1>2. (IF c > Len(rs) THEN Len(rs) ELSE c) = (IF c < Len(rs) THEN c ELSE Len(rs))
  BY <1>1
<1>3. CapLimit(c).skip = 0 /\ CapLimit(c).fetch = c
  BY DEF CapLimit
<1>4. Cut(CapLimit(c), rs) = SubSeq(rs, 1, IF c > Len(rs) THEN Len(rs) ELSE c)
  BY <1>1, <1>3 DEF Cut
<1> QED
  BY <1>2, <1>4

\* One pass of the optimizer.
LEMMA PlannedAfter ==
    ASSUME SessionInv, Optimize
    PROVE  plan' \in Seq(Limited) /\ Planned'
<1>1. cap' = cap /\ own' = own /\ passes' = passes + 1 /\ passes < MaxPasses
      /\ query \notin {"none", "answered"}
  BY DEF Optimize
<1>2. MaxPasses \in Nat /\ passes \in Nat
  BY ConstantsAssumption DEF SessionInv
<1>3. cap \in Nat /\ cap # Unlimited
  BY <1>1, <1>2, LimitsAssumption DEF SessionInv
<1>4. PICK p \in Rewritten(plan) : plan' = Guard(p)
  BY DEF Optimize
<1>5. plan \in Seq(Limited) /\ own \in Seq(Limited)
  BY DEF SessionInv
<1>6. ASSUME NEW S, NEW rs \in Seq(S)
      PROVE  /\ plan' \in Seq(Limited)
             /\ Window(plan', rs) = Cut(CapLimit(cap), Window(own, rs))
  <2>1. p \in Seq(Limited) /\ Window(p, rs) = Window(plan, rs)
    BY <1>5, RewritingKeeps
  <2>2. /\ plan' \in Seq(Limited)
        /\ Window(plan', rs) = Cut(CapLimit(cap), Window(plan, rs))
    BY <1>3, <1>4, <2>1, GuardCaps
  <2>3. CASE passes = 0
    BY <1>3, <2>2, <2>3 DEF SessionInv, Planned
  <2>4. CASE passes # 0
    <3>1. Window(plan, rs) = Cut(CapLimit(cap), Window(own, rs))
      BY <1>3, <2>4 DEF SessionInv, Planned
    <3>2. Window(own, rs) \in Seq(S)
      BY <1>5, WindowUnfolds
    <3>3. Cut(CapLimit(cap), Cut(CapLimit(cap), Window(own, rs)))
            = Cut(CapLimit(cap), Window(own, rs))
      BY <1>3, <3>2, CapOfCap
    <3> QED
      BY <2>2, <3>1, <3>3
  <2> QED
    BY <2>3, <2>4
<1>7. plan' \in Seq(Limited)
  <2>1. <<>> \in Seq({})
    OBVIOUS
  <2> QED
    BY <1>6, <2>1
<1>8. passes' # 0 /\ cap' # Unlimited
  BY <1>1, <1>2, <1>3
<1>9. Planned'
  BY <1>1, <1>6, <1>8 DEF Planned
<1> QED
  BY <1>7, <1>9

LEMMA SessionStep ==
    ASSUME SessionInv, [Next]_vars
    PROVE  SessionInv'
<1>1. ASSUME Repartition PROVE SessionInv'
  <2>1. IsSeq(FlattenSeq(batches'))
    BY <1>1, HalvesIsSeq DEF Repartition, SessionInv
  <2>2. UNCHANGED <<shipments, query, cap, own, plan, passes, rows>> /\ query = "none"
    BY <1>1 DEF Repartition
  <2> QED
    BY <2>1, <2>2 DEF SessionInv, Planned, CapIsAPrefix
<1>2. ASSUME Ask PROVE SessionInv'
  <2>1. UNCHANGED <<batches, shipments, cap>> /\ query' \notin {"none", "answered"}
    BY <1>2 DEF Ask, Queries, Twice
  <2>2. IsSeq(rows')
    <3>1. \E q \in Queries \ {"range"} : rows' \in Sql(q)
      BY <1>2 DEF Ask
    <3> QED
      BY <3>1, SqlIsSeq DEF SessionInv
  <2>3. own' \in Seq(Limited) /\ plan' = own'
    BY <1>2, LimitsAssumption DEF Ask
  <2>4. passes' = (IF cap = Unlimited THEN MaxPasses ELSE 0) /\ MaxPasses \in Nat
    BY <1>2, ConstantsAssumption DEF Ask
  <2>5. Planned'
    BY <2>1, <2>3, <2>4 DEF Planned
  <2>6. CapIsAPrefix'
    BY <2>1 DEF CapIsAPrefix
  <2> QED
    BY <2>1, <2>2, <2>3, <2>4, <2>5, <2>6 DEF SessionInv
<1>3. ASSUME AskRange PROVE SessionInv'
  <2>1. UNCHANGED <<batches, shipments, cap, own, plan, rows>> /\ query' = "range"
        /\ query = "none"
    BY <1>3 DEF AskRange
  <2>2. passes' = (IF cap = Unlimited THEN MaxPasses ELSE 0) /\ MaxPasses \in Nat
    BY <1>3, ConstantsAssumption DEF AskRange
  <2>3. plan = own
    BY <2>1 DEF SessionInv, Planned
  <2>4. Planned'
    BY <2>1, <2>2, <2>3 DEF Planned
  <2>5. CapIsAPrefix'
    BY <2>1 DEF CapIsAPrefix
  <2> QED
    BY <2>1, <2>2, <2>4, <2>5 DEF SessionInv
<1>4. ASSUME Optimize PROVE SessionInv'
  <2>1. /\ UNCHANGED <<batches, shipments, query, cap, own, rows>> /\ passes' = passes + 1
        /\ query \notin {"none", "answered"}
    BY <1>4 DEF Optimize
  <2>2. plan' \in Seq(Limited) /\ Planned'
    BY <1>4, PlannedAfter
  <2>3. CapIsAPrefix'
    BY <2>1 DEF CapIsAPrefix
  <2>4. passes \in Nat /\ MaxPasses \in Nat
    BY ConstantsAssumption DEF SessionInv
  <2> QED
    BY <2>1, <2>2, <2>3, <2>4 DEF SessionInv
<1>5. ASSUME Aggregate PROVE SessionInv'
  <2>1. UNCHANGED <<batches, shipments, query, cap, own, plan, passes>> /\ query = "range"
    BY <1>5 DEF Aggregate
  <2>2. IsSeq(rows')
    BY <1>5, ShortIsSeq DEF Aggregate, SessionInv
  <2>3. Planned' /\ CapIsAPrefix'
    BY <2>1 DEF SessionInv, Planned, CapIsAPrefix
  <2> QED
    BY <2>1, <2>2, <2>3 DEF SessionInv
<1>6. ASSUME Execute PROVE SessionInv'
  <2>1. /\ UNCHANGED <<batches, shipments, cap, own, plan, passes, rows>>
        /\ query' = "answered" /\ result' = Window(plan, rows) /\ passes > 0
    BY <1>6 DEF Execute
  <2>2. passes # 0 /\ Planned'
    BY <2>1 DEF SessionInv, Planned
  <2>3. PICK S : rows \in Seq(S)
    BY DEF SessionInv, IsSeq
  <2>4. Window(own, rows) \in Seq(S)
    BY <2>3, WindowUnfolds DEF SessionInv
  <2>5. CapIsAPrefix'
    <3>1. CASE cap = Unlimited
      BY <2>1, <3>1 DEF SessionInv, Planned, CapIsAPrefix
    <3>2. CASE cap # Unlimited
      <4>1. result' = Cut(CapLimit(cap), Window(own, rows))
        BY <2>1, <2>2, <2>3, <3>2 DEF SessionInv, Planned
      <4>2. cap \in Nat
        BY <3>2 DEF SessionInv
      <4> QED
        BY <2>1, <2>4, <3>2, <4>1, <4>2, CapIsSubSeq DEF CapIsAPrefix
    <3> QED
      BY <3>1, <3>2
  <2> QED
    BY <2>1, <2>2, <2>5 DEF SessionInv
<1>7. CASE UNCHANGED vars
  BY <1>7 DEF vars, session, SessionInv, Planned, CapIsAPrefix
<1> QED
  BY <1>1, <1>2, <1>3, <1>4, <1>5, <1>6, <1>7 DEF Next

LEMMA SessionStarts ==
    ASSUME Init \/ SessionIdle
    PROVE  SessionInv /\ amount \in [Rows -> Amounts \union {Null}]
<1>1. <<>> \in Seq(Limited) /\ IsSeq(<<>>) /\ 0 \in Nat
  BY ShortIsSeq
<1>2. own = <<>> /\ plan = <<>> /\ passes = 0 /\ rows = <<>> /\ result = <<>>
  BY DEF Init, SessionIdle
<1>3. Planned
  BY <1>2 DEF Planned
<1>4. CASE Init
  <2>1. batches \in Seq(Seq(OrderRow)) /\ shipments \in Seq(ShipmentRow)
        /\ cap \in Nat \union {Unlimited} /\ query = "none"
    BY <1>4, TablesAssumption, LimitsAssumption DEF Init
  <2>2. FlattenSeq(batches) \in Seq(OrderRow)
    BY <2>1, TableIsSeq
  <2>3. IsSeq(FlattenSeq(batches)) /\ IsSeq(shipments)
    BY <2>1, <2>2 DEF IsSeq
  <2>4. SessionInv
    BY <1>1, <1>2, <1>3, <2>1, <2>3 DEF SessionInv, CapIsAPrefix
  <2>5. ASSUME NEW i \in DOMAIN Orders PROVE Orders[i].amount \in Amounts
    <3> DEFINE all == FlattenSeq(batches)
    <3>1. Orders = [j \in DOMAIN all |->
                       [c \in {"id", "amount", "placed_at", "note"} |-> all[j][c]]]
      BY DEF Orders, Scan
    <3>2. \A j \in DOMAIN all : all[j] \in OrderRow
      BY <2>2
    <3> HIDE DEF all
    <3>3. i \in DOMAIN all /\ Orders[i].amount = all[i].amount
      BY <3>1
    <3> QED
      BY <3>2, <3>3 DEF OrderRow
  <2>6. amount = [i \in Rows |-> IF i \in DOMAIN Orders THEN Orders[i].amount ELSE Null]
    BY <1>4 DEF Init
  <2> QED
    BY <2>4, <2>5, <2>6
<1>5. CASE SessionIdle
  <2>1. batches = <<>> /\ shipments = <<>> /\ cap = Unlimited /\ query = "answered"
    BY <1>5 DEF SessionIdle
  <2>2. IsSeq(FlattenSeq(batches))
    BY <1>1, <2>1 DEF FlattenSeq
  <2>3. Window(own, rows) = <<>>
    <3>1. <<>> \in Seq({})
      OBVIOUS
    <3> QED
      BY <1>1, <1>2, <3>1, WindowUnfolds
  <2>4. CapIsAPrefix
    BY <1>2, <2>1, <2>3 DEF CapIsAPrefix
  <2>5. SessionInv
    BY <1>1, <1>2, <1>3, <2>1, <2>2, <2>4 DEF SessionInv
  <2> QED
    BY <1>5, <2>5 DEF SessionIdle
<1> QED
  BY <1>4, <1>5

\* The cap is the first max_rows of what the query asks for, for any tables, limits
\* and caps, any number of passes and whatever the optimizer does between them.
THEOREM CapIsKept == EngineSpec => []CapIsAPrefix
<1>1. EngineInit => SessionInv
  BY SessionStarts DEF EngineInit
<1>2. SessionInv /\ [EngineNext]_engineVars => SessionInv'
  <2>1. [EngineNext]_engineVars => [Next]_vars
    BY DEF EngineNext, engineVars
  <2> QED
    BY <2>1, SessionStep
<1>3. SessionInv => CapIsAPrefix
  BY DEF SessionInv
<1> QED
  BY <1>1, <1>2, <1>3, PTL DEF EngineSpec

\* amount_range is asked for a table, and answers for all of it: for any tables,
\* accumulators and row limits of its session, and any order of its steps.
THEOREM RangeOfTheTable == EngineSpec => []RangeIsOfTheWholeGroup
<1>1. EngineInit => RangeInv
  <2> SUFFICES ASSUME EngineInit PROVE RangeInv
    OBVIOUS
  <2>1. amount \in [Rows -> Amounts \union {Null}] /\ Idle
    BY SessionStarts DEF EngineInit, Init, SessionIdle
  <2> QED
    BY <2>1, RangeStarts DEF RangeInit
<1>2. RangeInv /\ [EngineNext]_engineVars => RangeInv'
  <2> SUFFICES ASSUME RangeInv, [EngineNext]_engineVars PROVE RangeInv'
    OBVIOUS
  <2>1. RangeNext \/ UNCHANGED rangeVars
    BY DEF EngineNext, engineVars, vars, Next, Repartition, Ask, AskRange, Optimize,
           Aggregate, Execute
  <2> QED
    BY <2>1, RangeStep, RangeStays
<1>3. RangeInv => RangeIsOfTheWholeGroup
  BY DEF RangeInv
<1> QED
  BY <1>1, <1>2, <1>3, PTL DEF EngineSpec

-----------------------------------------------------------------------------
(* Each form of a column, decoded, is what a reader of the form has *)

\* What is decoded is read so by the form; what is refused, the form does not give.
Agreed(c) ==
    /\ \A a \in Decoded(c) : NullCount(a) = 0 => Values(a) \in Logical(c)
    /\ (\A a \in Decoded(c) : NullCount(a) > 0) => Logical(c) = {}

LEMMA PlainProperties ==
    ASSUME NEW n \in Nat, NEW v, v = [i \in 1..n |-> v[i]]
    PROVE  /\ Values(Plain(v)) = v /\ NullCount(Plain(v)) = 0 /\ Plain(v).length = n
           /\ Plain(v).nulls = {}
<1>1. v \in Seq({v[i] : i \in 1..n}) /\ Len(v) = n
  OBVIOUS
<1>2. Plain(v) = [buffer |-> v, offset |-> 0, length |-> n, nulls |-> {}]
  BY <1>1 DEF Plain, Array
<1> DEFINE a == Plain(v)
<1>3. a.buffer = v /\ a.offset = 0 /\ a.length = n /\ a.nulls = {}
  BY <1>2
<1> HIDE DEF a
<1>4. Values(a) = v
  <2>1. \A i \in 1..n : v[a.offset + i] = v[i]
    BY <1>3
  <2>2. Values(a) = [i \in 1..n |-> v[a.offset + i]]
    BY <1>3 DEF Values
  <2>3. [i \in 1..n |-> v[a.offset + i]] = [i \in 1..n |-> v[i]]
    BY <2>1, Zenon
  <2> QED
    BY <2>2, <2>3, Zenon
<1>5. NullCount(a) = 0
  <2>1. a.nulls \intersect (a.offset + 1)..(a.offset + a.length) = {} /\ Cardinality({}) = 0
    BY <1>3, FS_EmptySet
  <2> QED
    BY <2>1 DEF NullCount
<1> QED
  BY <1>3, <1>4, <1>5 DEF a

LEMMA GeneratedProperties ==
    ASSUME NEW n \in Nat
    PROVE  /\ Generated(n) = [i \in 1..n |-> Generated(n)[i]] /\ DOMAIN Generated(n) = 1..n
           /\ \A i \in 1..n : Generated(n)[i] = Wrap((i - 1) % Cycle)
BY DEF Generated

ArrayAgrees(a) ==
    /\ NullCount(a) = 0 <=> a.nulls \intersect (a.offset + 1)..(a.offset + a.length) = {}
    /\ NullCount(a) \in Nat
    /\ Values(a) = [i \in 1..a.length |-> Wrap((a.offset + i - 1) % Cycle)]

LEMMA ArraysAgree ==
    ASSUME NEW o \in Nat, NEW n \in Nat, NEW nulls \in {{}, {1}, {3}}, NEW a,
           a = Array(Generated(o + n + 1), o, n, nulls)
    PROVE  ArrayAgrees(a)
<1>1. a.offset = o /\ a.length = n /\ a.nulls = nulls /\ a.buffer = Generated(o + n + 1)
  BY DEF Array
<1> DEFINE S == a.nulls \intersect (a.offset + 1)..(a.offset + a.length)
<1>2. IsFiniteSet(S)
  <2>1. IsFiniteSet((o + 1)..(o + n))
    BY FS_Interval
  <2> QED
    BY <1>1, <2>1, FS_Subset
<1>3. NullCount(a) = Cardinality(S)
  BY DEF NullCount
<1> HIDE DEF S
<1>4. NullCount(a) \in Nat /\ (NullCount(a) = 0 <=> S = {})
  BY <1>2, <1>3, FS_CardinalityType, FS_EmptySet
<1>5. \A i \in 1..n : o + i \in 1..(o + n + 1) /\ o + n + 1 \in Nat
  OBVIOUS
<1>6. \A i \in 1..n : Generated(o + n + 1)[o + i] = Wrap((o + i - 1) % Cycle)
  BY <1>5, GeneratedProperties
<1>7. Values(a) = [i \in 1..n |-> Wrap((o + i - 1) % Cycle)]
  BY <1>1, <1>6 DEF Values
<1> QED
  BY <1>1, <1>4, <1>7 DEF S, ArrayAgrees

\* A slice of a longer array: its own nulls, its own values.
LEMMA SlicesAgree ==
    ASSUME NEW c \in Slices
    PROVE  Agreed(c)
<1>1. PICK o \in Offsets, n \in Lengths, nulls \in {{}, {1}, {3}} :
         c = [form |-> "array", array |-> Array(Generated(o + n + 1), o, n, nulls)]
  BY DEF Slices
<1> DEFINE a == c.array
<1>2. c.form = "array" /\ a = Array(Generated(o + n + 1), o, n, nulls) /\ o \in Nat /\ n \in Nat
  BY <1>1, KernelAssumption
<1>3. ArrayAgrees(a)
  <2> HIDE DEF a
  <2> QED
    BY <1>2, ArraysAgree
<1>4. Decoded(c) = {a}
  BY <1>2 DEF Decoded
<1>5. Logical(c) = IF a.nulls \intersect (a.offset + 1)..(a.offset + a.length) # {} THEN {}
                   ELSE {[i \in 1..a.length |-> Wrap((a.offset + i - 1) % Cycle)]}
  BY <1>2 DEF Logical
<1> HIDE DEF a
<1> QED
  BY <1>3, <1>4, <1>5 DEF Agreed, ArrayAgrees

\* An argument of the query function: an array and a literal, or nothing.
LEMMA CallsAgree ==
    ASSUME NEW args \in Arguments
    PROVE  Agreed(Call(args))
<1> DEFINE c == Call(args)
           a == args[1].array
<1>1. c.form = "call" /\ c.args = args
  BY DEF Call
<1>2. Len(args) = 2
  BY DEF Arguments
<1>3. CASE args[1].is = "array" /\ args[2].is = "literal" /\ args[2].value # {}
  <2>1. PICK s \in Slices : args[1] = ArrayArgument(s.array)
    BY <1>3 DEF Arguments, Literal
  <2>2. PICK o \in Nat, n \in Nat, nulls \in {{}, {1}, {3}} :
           a = Array(Generated(o + n + 1), o, n, nulls)
    <3>1. a = s.array
      BY <2>1 DEF ArrayArgument
    <3>2. PICK o \in Offsets, n \in Lengths, nulls \in {{}, {1}, {3}} :
             s = [form |-> "array", array |-> Array(Generated(o + n + 1), o, n, nulls)]
      BY DEF Slices
    <3>3. s.array = Array(Generated(o + n + 1), o, n, nulls) /\ o \in Nat /\ n \in Nat
      BY <3>2, KernelAssumption
    <3> HIDE DEF a
    <3> QED
      BY <3>1, <3>3
  <2>3. ArrayAgrees(a)
    <3> HIDE DEF a
    <3> QED
      BY <2>2, ArraysAgree
  <2>4. Decoded(c) = {a}
    BY <1>1, <1>2, <1>3 DEF Decoded, ArgumentsInScope
  <2>5. Logical(c) = IF a.nulls \intersect (a.offset + 1)..(a.offset + a.length) # {} THEN {}
                     ELSE {[i \in 1..a.length |-> Wrap((a.offset + i - 1) % Cycle)]}
    BY <1>1, <1>3 DEF Logical
  <2> HIDE DEF a, c
  <2>6. Agreed(c)
    BY <2>3, <2>4, <2>5 DEF Agreed, ArrayAgrees
  <2> QED
    BY <2>6 DEF c
<1>4. CASE ~(args[1].is = "array" /\ args[2].is = "literal" /\ args[2].value # {})
  <2>1. Decoded(c) = {}
    BY <1>1, <1>4 DEF Decoded, ArgumentsInScope
  <2>2. Logical(c) = {}
    BY <1>1, <1>4 DEF Logical
  <2> HIDE DEF c
  <2>3. Agreed(c)
    BY <2>1, <2>2 DEF Agreed
  <2> QED
    BY <2>3 DEF c
<1> QED
  BY <1>3, <1>4

\* Materialized rows hold the values they were made of.
LEMMA RowsAgree ==
    ASSUME NEW n \in Nat
    PROVE  Agreed(SourceRows(n))
<1> DEFINE c == SourceRows(n)
           v == Generated(n)
<1>1. c.form = "rows" /\ c.rows = [i \in 1..n |-> [id |-> i, value |-> v[i]]]
  BY DEF SourceRows
<1>2. c.rows \in Seq({[id |-> i, value |-> v[i]] : i \in 1..n}) /\ Len(c.rows) = n
  BY <1>1
<1>3. v = [i \in 1..n |-> v[i]]
  BY GeneratedProperties
<1>4. MaterializeValueColumn(c) = Plain(v)
  <2>1. [i \in DOMAIN c.rows |-> c.rows[i].value] = [i \in 1..n |-> v[i]]
    BY <1>1
  <2> QED
    BY <1>3, <2>1 DEF MaterializeValueColumn
<1>5. Decoded(c) = {Plain(v)}
  BY <1>1, <1>4 DEF Decoded
<1>6. Logical(c) = {v}
  BY <1>1, <1>2 DEF Logical
<1>7. Values(Plain(v)) = v /\ NullCount(Plain(v)) = 0
  BY <1>3, PlainProperties
<1> HIDE DEF c, v
<1>8. Agreed(c)
  BY <1>5, <1>6, <1>7 DEF Agreed
<1> QED
  BY <1>8 DEF c

\* A dictionary with its keys looked up.
LEMMA DictionariesAgree ==
    ASSUME NEW n \in Nat, NEW d \in Nat \ {0}
    PROVE  Agreed(Dictionary(n, d))
<1> DEFINE c == Dictionary(n, d)
           v == [i \in 1..n |-> (i - 1) % d]
<1>1. /\ c.form = "dictionary" /\ c.keys = [i \in 1..n |-> (i - 1) % d]
      /\ c.values = [i \in 1..d |-> i - 1]
  BY DEF Dictionary
<1>2. Len(c.values) = d /\ DOMAIN c.keys = 1..n
  BY <1>1
<1>3. \A i \in 1..n : ((i - 1) % d) + 1 \in 1..d /\ (((i - 1) % d) + 1) - 1 = (i - 1) % d
  OBVIOUS
<1>4. \A i \in 1..n : c.values[c.keys[i] + 1] = (i - 1) % d
  BY <1>1, <1>3
<1>5. DecodeDictionary(c) = Plain(v)
  <2>1. [i \in DOMAIN c.keys |-> c.values[c.keys[i] + 1]] = v
    BY <1>2, <1>4
  <2> QED
    BY <2>1 DEF DecodeDictionary
<1>6. Decoded(c) = {Plain(v)}
  BY <1>1, <1>5 DEF Decoded
<1>7. Logical(c) = {v}
  BY <1>1, <1>2 DEF Logical
<1>8. Values(Plain(v)) = v /\ NullCount(Plain(v)) = 0
  <2>1. v = [i \in 1..n |-> v[i]]
    OBVIOUS
  <2> HIDE DEF v
  <2> QED
    BY <2>1, PlainProperties
<1> HIDE DEF c, v
<1>9. Agreed(c)
  BY <1>6, <1>7, <1>8 DEF Agreed
<1> QED
  BY <1>9 DEF c

\* Runs: the one that holds an index is the quotient's.
LEMMA RunsAgree ==
    ASSUME NEW n \in Nat, NEW r \in {2, 5}
    PROVE  Agreed(RunEndEncoded(n, r))
<1> DEFINE c == RunEndEncoded(n, r)
           m == (n + r - 1) \div r
           v == [i \in 1..n |-> (i - 1) \div r]
<1>1. /\ c.form = "runs" /\ c.length = n
      /\ c.ends = [q \in 1..m |-> IF q * r < n THEN q * r ELSE n]
      /\ c.values = [q \in 1..m |-> q - 1]
  BY DEF RunEndEncoded
<1>2. m \in Nat
  OBVIOUS
<1>3. ASSUME NEW i \in 0..(n - 1)
      PROVE  c.values[PhysicalIndex(c, i)] = i \div r
  <2> DEFINE q == i \div r + 1
             Holds(j) == c.ends[j] > i /\ \A h \in 1..(j - 1) : c.ends[h] <= i
  <2>1. /\ q \in 1..m /\ q * r > i /\ n > i
        /\ \A h \in 1..(q - 1) : h \in 1..m /\ h * r <= i /\ h * r < n
        /\ \A h \in 1..m : h * r > i => h >= q
    <3>1. CASE r = 2
      BY <3>1
    <3>2. CASE r = 5
      BY <3>2
    <3> QED
      BY <3>1, <3>2
  <2> HIDE DEF q, m
  <2>2. c.ends[q] > i
    BY <1>1, <2>1
  <2>3. \A h \in 1..(q - 1) : c.ends[h] <= i
    BY <1>1, <2>1
  <2>4. DOMAIN c.ends = 1..m
    BY <1>1
  <2>5. Holds(q) /\ q \in DOMAIN c.ends
    BY <2>1, <2>2, <2>3, <2>4
  <2>6. \A j \in DOMAIN c.ends : Holds(j) => j = q
    <3> SUFFICES ASSUME NEW j \in 1..m, Holds(j) PROVE j = q
      BY <2>4
    <3>1. j >= q
      <4>1. c.ends[j] > i /\ (c.ends[j] = j * r \/ c.ends[j] = n)
        BY <1>1
      <4>2. ASSUME j < q PROVE FALSE
        <5>1. j \in 1..(q - 1)
          BY <1>2, <2>1, <4>2
        <5>2. c.ends[j] <= i
          BY <2>3, <5>1
        <5>3. c.ends[j] \in Int
          BY <1>1, <2>1, <5>1
        <5> QED
          BY <4>1, <5>2, <5>3
      <4> QED
        BY <1>2, <2>1, <4>2
    <3>2. ASSUME q < j PROVE FALSE
      <4>1. q \in 1..(j - 1)
        BY <1>2, <2>1, <3>2
      <4>2. c.ends[q] <= i
        BY <4>1
      <4>3. c.ends[q] \in Int
        <5>1. c.ends[q] = q * r \/ c.ends[q] = n
          BY <1>1, <2>1
        <5>2. q * r \in Int
          BY <1>2, <2>1
        <5> QED
          BY <5>1, <5>2
      <4> QED
        BY <2>2, <4>2, <4>3
    <3> QED
      BY <1>2, <2>1, <3>1, <3>2
  <2>7. PhysicalIndex(c, i) = q
    <3>1. PhysicalIndex(c, i) = CHOOSE j \in DOMAIN c.ends : Holds(j)
      BY DEF PhysicalIndex
    <3> HIDE DEF Holds
    <3> QED
      BY <2>5, <2>6, <3>1
  <2>8. c.values[q] = q - 1
    BY <1>1, <2>1
  <2>9. q - 1 = i \div r
    <3>1. i \div r \in Int
      OBVIOUS
    <3> QED
      BY <3>1 DEF q
  <2> QED
    BY <2>7, <2>8, <2>9
<1>4. DecodeRunArray(c) = Plain(v)
  <2>1. \A i \in 1..n : i - 1 \in 0..(n - 1)
    OBVIOUS
  <2> HIDE DEF c, m
  <2>2. [i \in 1..n |-> c.values[PhysicalIndex(c, i - 1)]] = v
    BY <1>3, <2>1
  <2> QED
    BY <1>1, <2>2 DEF DecodeRunArray
<1>5. Decoded(c) = {Plain(v)}
  BY <1>1, <1>4 DEF Decoded
<1>6. Logical(c) = {v}
  <2>1. ASSUME NEW i \in 1..n PROVE (i - 1) \div c.ends[1] = (i - 1) \div r
    <3>1. 1 \in 1..m
      BY <1>2
    <3>2. c.ends[1] = IF r < n THEN r ELSE n
      BY <1>1, <3>1
    <3>3. ~(r < n) => (i - 1) \div n = 0 /\ (i - 1) \div r = 0
      OBVIOUS
    <3> QED
      BY <3>2, <3>3
  <2> HIDE DEF c, m
  <2>2. [i \in 1..n |-> (i - 1) \div c.ends[1]] = v
    BY <2>1
  <2> QED
    BY <1>1, <2>2 DEF Logical
<1>7. Values(Plain(v)) = v /\ NullCount(Plain(v)) = 0
  <2>1. v = [i \in 1..n |-> v[i]]
    OBVIOUS
  <2> HIDE DEF v
  <2> QED
    BY <2>1, PlainProperties
<1> HIDE DEF c, v
<1>8. Agreed(c)
  BY <1>5, <1>6, <1>7 DEF Agreed
<1> QED
  BY <1>8 DEF c

\* A file of one batch of one column, or whatever of it a reader takes.
LEMMA FilesAgree ==
    ASSUME NEW b \in FileBatches, NEW reader \in {"read", "mapped"}
    PROVE  Agreed(File(reader, b))
<1> DEFINE c == File(reader, b)
<1>1. c.form = "file" /\ c.reader = reader /\ c.batches = b
  BY DEF File
<1>2. Len(b) \in Nat /\ (b = <<>> <=> Len(b) = 0)
  BY DEF FileBatches
<1>3. b # <<>> /\ Len(b[1]) = 1 => \E n \in Nat : b[1][1] = Plain(Generated(n))
  <2>1. \A n, k \in Nat : k > 0 => Batch(n, k)[1] = Plain(Generated(n))
    BY DEF Batch
  <2>2. \A n, k \in Nat : Len(Batch(n, k)) = k
    BY DEF Batch
  <2>3. b # <<>> => \E n, k \in Nat : b[1] = Batch(n, k)
    <3>1. CASE b \in {<<Batch(n, 1)>> : n \in Lengths}
      <4>1. PICK n \in Nat : b = <<Batch(n, 1)>>
        BY <3>1, KernelAssumption
      <4>2. b[1] = Batch(n, 1) /\ 1 \in Nat
        BY <4>1
      <4> QED
        BY <4>2
    <3>2. CASE b \in {<<Batch(3, 0)>>, <<Batch(3, 2)>>}
      BY <3>2
    <3>3. CASE b = <<Batch(1, 1), Batch(3, 1)>>
      BY <3>3
    <3> QED
      BY <3>1, <3>2, <3>3 DEF FileBatches
  <2>4. SUFFICES ASSUME b # <<>>, Len(b[1]) = 1
                 PROVE  \E n \in Nat : b[1][1] = Plain(Generated(n))
    OBVIOUS
  <2>5. PICK n \in Nat, k \in Nat : b[1] = Batch(n, k)
    BY <2>3, <2>4
  <2>6. k = 1
    BY <2>2, <2>4, <2>5
  <2> QED
    BY <2>1, <2>5, <2>6
<1>4. CASE b = <<>> \/ (reader = "mapped" /\ Len(b) > 1) \/ Len(b[1]) # 1
  <2>1. Logical(c) = {}
    BY <1>1, <1>4 DEF Logical
  <2>2. Decoded(c) = {}
    <3>1. reader = "mapped" => MappedColumn(b) = {}
      <4>1. ~(Len(b) = 1 /\ Len(b[1]) = 1) \/ reader # "mapped"
        <5>1. \A k \in Nat : k = 0 \/ k > 1 => k # 1
          OBVIOUS
        <5> QED
          BY <1>2, <1>4, <5>1, Zenon
      <4> QED
        BY <4>1 DEF MappedColumn
    <3>2. reader = "read" => ReadColumn(b) = {}
      BY <1>4 DEF ReadColumn
    <3> QED
      BY <1>1, <3>1, <3>2 DEF Decoded
  <2> HIDE DEF c
  <2>3. Agreed(c)
    BY <2>1, <2>2 DEF Agreed
  <2> QED
    BY <2>3 DEF c
<1>5. CASE b # <<>> /\ ~(reader = "mapped" /\ Len(b) > 1) /\ Len(b[1]) = 1
  <2>1. PICK n \in Nat : b[1][1] = Plain(Generated(n))
    BY <1>3, <1>5
  <2>2. /\ Values(b[1][1]) = Generated(n) /\ NullCount(b[1][1]) = 0 /\ b[1][1].length = n
    BY <2>1, GeneratedProperties, PlainProperties
  <2>3. Logical(c) = {Generated(n)}
    BY <1>1, <1>5, <2>2 DEF Logical
  <2>4. Decoded(c) = {b[1][1]}
    <3>1. reader = "mapped" => MappedColumn(b) = {b[1][1]}
      <4>1. Len(b) = 1 \/ reader # "mapped"
        <5>1. \A k \in Nat : k # 0 /\ ~(k > 1) => k = 1
          OBVIOUS
        <5> QED
          BY <1>2, <1>5, <5>1, Zenon
      <4> QED
        BY <1>5, <4>1 DEF MappedColumn
    <3>2. reader = "read" => ReadColumn(b) = {b[1][1]}
      BY <1>5 DEF ReadColumn
    <3> QED
      BY <1>1, <3>1, <3>2 DEF Decoded
  <2> HIDE DEF c
  <2>5. Agreed(c)
    BY <2>2, <2>3, <2>4 DEF Agreed
  <2> QED
    BY <2>5 DEF c
<1> QED
  BY <1>4, <1>5

LEMMA FormsAgree ==
    ASSUME NEW c \in Columns
    PROVE  Agreed(c)
<1>1. CASE c \in Slices
  BY <1>1, SlicesAgree
<1>2. CASE c \in Encodings
  <2>1. CASE \E n, d : n \in Nat /\ d \in Nat \ {0} /\ c = Dictionary(n, d)
    BY <2>1, DictionariesAgree
  <2>2. CASE \E n \in Nat, r \in {2, 5} : c = RunEndEncoded(n, r)
    BY <2>2, RunsAgree
  <2> QED
    BY <1>2, <2>1, <2>2, KernelAssumption DEF Encodings
<1>3. CASE \E n \in Lengths : c = SourceRows(n)
  BY <1>3, RowsAgree, KernelAssumption
<1>4. CASE \E b \in FileBatches : c = File("read", b) \/ c = File("mapped", b)
  BY <1>4, FilesAgree
<1>5. CASE \E args \in Arguments : c = Call(args)
  BY <1>5, CallsAgree
<1> QED
  BY <1>1, <1>2, <1>3, <1>4, <1>5 DEF Columns

-----------------------------------------------------------------------------
(* What the kernel answers, and what its callers compare it with *)

\* The kernel's invariant, no mismatch so far, and only a column that its form
\* gives no values for is refused.
KernelTrue ==
    /\ KernelInv
    /\ stage # "failure"
    /\ stage = "refused" => Logical(column) = {}

\* A result is of the values the form gives.
LEMMA ResultIsOfLogical ==
    ASSUME KernelInv, stage \in {"done", "success"}
    PROVE  \E a \in Decoded(column) : /\ src = Values(a) /\ src \in Logical(column)
                                      /\ dst = Reference(src)
<1>1. PICK a \in Decoded(column) : Progress(a)
  BY DEF KernelInv
<1>2. /\ NullCount(a) = 0 /\ src = Values(a) /\ dst = [i \in 1..a.length |-> dst[i]]
      /\ \A i \in 1..a.length : dst[i] = Wrap(src[i] + constant)
  BY <1>1 DEF Progress
<1>3. src \in Logical(column)
  BY <1>2, FormsAgree DEF KernelInv, Agreed
<1>4. DOMAIN src = 1..a.length
  BY <1>2 DEF Values
<1>5. dst = [i \in 1..a.length |-> Wrap(src[i] + constant)]
  BY <1>2
<1>6. dst = Reference(src)
  BY <1>4, <1>5 DEF Reference
<1> QED
  BY <1>2, <1>3, <1>6

\* No comparison of a program fails.
LEMMA NoMismatch ==
    ASSUME KernelInv,
           CheckEncoding \/ CheckHandoff \/ CheckCells \/ CheckImplementations
    PROVE  stage' = "success"
<1>1. stage = "done"
  BY DEF CheckEncoding, CheckHandoff, CheckCells, CheckImplementations, Exit
<1>2. PICK a \in Decoded(column) : /\ src = Values(a) /\ src \in Logical(column)
                                   /\ dst = Reference(src)
  BY <1>1, ResultIsOfLogical
<1>3. CASE CheckEncoding
  <2>1. CASE column.form = "dictionary"
    <3> DEFINE oracle == [i \in DOMAIN column.keys |-> (i - 1) % Len(column.values)]
    <3>1. Logical(column) = {oracle}
      BY <2>1 DEF Logical
    <3>2. Exit(src = oracle /\ dst = Reference(oracle))
      BY <1>3, <2>1 DEF CheckEncoding
    <3> HIDE DEF oracle
    <3>3. src = oracle
      BY <1>2, <3>1
    <3> QED
      BY <1>2, <3>2, <3>3 DEF Exit
  <2>2. CASE column.form = "runs"
    <3> DEFINE oracle == [i \in 1..column.length |-> (i - 1) \div column.ends[1]]
    <3>1. Logical(column) = {oracle}
      BY <2>2 DEF Logical
    <3>2. Exit(src = oracle /\ dst = Reference(oracle))
      BY <1>3, <2>2 DEF CheckEncoding
    <3> HIDE DEF oracle
    <3>3. src = oracle
      BY <1>2, <3>1
    <3> QED
      BY <1>2, <3>2, <3>3 DEF Exit
  <2> QED
    BY <1>3, <2>1, <2>2 DEF CheckEncoding
<1>4. CASE CheckHandoff
  <2>1. column.form = "file" /\ Exit(dst = Reference(Generated(column.batches[1][1].length)))
    BY <1>4 DEF CheckHandoff
  <2>2. src = Generated(column.batches[1][1].length)
    BY <1>2, <2>1 DEF Logical
  <2> QED
    BY <1>2, <2>1, <2>2 DEF Exit
<1>5. CASE CheckCells
  <2>1. column.form = "rows" /\ Exit(dst = Reference(Generated(Len(column.rows))))
    BY <1>5 DEF CheckCells
  <2>2. src = Generated(Len(column.rows))
    BY <1>2, <2>1 DEF Logical
  <2> QED
    BY <1>2, <2>1, <2>2 DEF Exit
<1>6. CASE CheckImplementations
  <2>1. column.form = "array" /\ Exit(dst = Reference(Values(column.array)))
    BY <1>6 DEF CheckImplementations
  <2>2. src = Values(column.array)
    BY <1>2, <2>1 DEF Decoded
  <2> QED
    BY <1>2, <2>1, <2>2 DEF Exit
<1> QED
  BY <1>3, <1>4, <1>5, <1>6

LEMMA KernelTrueStep ==
    ASSUME KernelTrue, [KernelNext]_kernelVars
    PROVE  KernelTrue'
<1>1. KernelInv'
  BY KernelStep DEF KernelTrue
<1>2. CASE UNCHANGED kernelVars
  BY <1>1, <1>2 DEF KernelTrue, kernelVars, Logical, Generated, Wrap
<1>3. CASE Refuse
  <2>1. stage' = "refused" /\ column' = column /\ \A a \in Decoded(column) : NullCount(a) > 0
    BY <1>3 DEF Refuse
  <2>2. Logical(column) = {}
    BY <2>1, FormsAgree DEF KernelTrue, KernelInv, Agreed
  <2>3. Logical(column)' = Logical(column)
    BY <2>1 DEF Logical
  <2> QED
    BY <1>1, <2>1, <2>2, <2>3 DEF KernelTrue
<1>4. CASE Begin \/ AddEach \/ AddAvx2 \/ AddSse2 \/ BeginTail \/ AddTail \/ Return
  <2>1. stage' \notin {"failure", "refused"}
    BY <1>4 DEF KernelTrue, Begin, AddEach, AddAvx2, AddSse2, AddVector, BeginTail, AddTail,
                Return
  <2> QED
    BY <1>1, <2>1 DEF KernelTrue
<1>5. CASE CheckEncoding \/ CheckHandoff \/ CheckCells \/ CheckImplementations
  BY <1>1, <1>5, NoMismatch DEF KernelTrue
<1> QED
  BY <1>2, <1>3, <1>4, <1>5 DEF KernelNext

LEMMA KernelTrueIsEnough ==
    ASSUME KernelTrue
    PROVE  KernelsAgree
<1>1. KernelIsElementwise
  BY KernelIsRight DEF KernelTrue
<1>2. stage \in {"done", "success"} =>
         \E l \in Logical(column) : dst = [i \in DOMAIN l |-> Wrap(l[i] + constant)]
  BY ResultIsOfLogical DEF KernelTrue, Reference
<1> QED
  BY <1>1, <1>2 DEF KernelsAgree, KernelTrue

\* Whatever implementation runs and whatever form the column comes in, the kernel
\* answers with each of the values a reader of that form has, plus the constant,
\* refuses exactly what has none to give, and no program reports a mismatch: for
\* columns, offsets and constants of every size.
THEOREM FormsAreOne == EngineSpec => []KernelsAgree
<1> DEFINE K == KernelTrue \/ KernelIdle
<1>1. EngineInit => K
  <2>1. KernelInit => KernelTrue
    BY DEF KernelInit, KernelTrue, KernelInv
  <2> QED
    BY <2>1 DEF EngineInit
<1>2. K /\ [EngineNext]_engineVars => K'
  <2>1. [EngineNext]_engineVars => [KernelNext]_kernelVars
    BY DEF EngineNext, engineVars
  <2>2. KernelIdle => ~KernelNext
    BY DEF KernelIdle, KernelNext, Refuse, Begin, AddEach, AddAvx2, AddSse2, AddVector,
           BeginTail, AddTail, Return, CheckEncoding, CheckHandoff, CheckCells,
           CheckImplementations, Exit
  <2>3. KernelIdle /\ UNCHANGED kernelVars => KernelIdle'
    BY DEF KernelIdle, kernelVars
  <2> QED
    BY <2>1, <2>2, <2>3, KernelTrueStep
<1>3. K => KernelsAgree
  <2>1. KernelIdle => KernelsAgree
    BY DEF KernelIdle, KernelsAgree, KernelIsElementwise
  <2> QED
    BY <2>1, KernelTrueIsEnough
<1> HIDE DEF K
<1> QED
  BY <1>1, <1>2, <1>3, PTL DEF EngineSpec

-----------------------------------------------------------------------------
(* Sums *)

Plus(total, v) == total + v
Total == INSTANCE NatRecursion WITH Base <- 0, Step <- Plus

\* A sum, one value after the other (sum_all).
LEMMA SumTakes ==
    /\ \A s : DOMAIN s = 1..0 => SumAll(s) = 0
    /\ \A s, t : \A n \in Nat :
          DOMAIN s = 1..(n + 1) /\ DOMAIN t = 1..n /\ (\A i \in 1..n : s[i] = t[i]) =>
             SumAll(s) = SumAll(t) + s[n + 1]
<1>1. \A s : SumAll(s) = Total!Folded(s)
  BY Zenon DEF SumAll, Plus, FoldLeft, MapThenFoldSet, Max,
               Total!Folded, Total!FoldLeft, Total!MapThenFoldSet, Total!Max
<1>2. /\ \A s : DOMAIN s = 1..0 => SumAll(s) = 0
      /\ \A s, t : \A n \in Nat :
            DOMAIN s = 1..(n + 1) /\ DOMAIN t = 1..n /\ (\A i \in 1..n : s[i] = t[i]) =>
               SumAll(s) = Plus(SumAll(t), s[n + 1])
  BY <1>1, Total!FoldTakesTheLast, Zenon
<1> QED
  BY <1>2 DEF Plus

\* The first k values, and one more.
LEMMA SumOfPrefix ==
    ASSUME NEW s
    PROVE  /\ SumAll([i \in 1..0 |-> s[i]]) = 0
           /\ \A k \in Nat : SumAll([i \in 1..(k + 1) |-> s[i]])
                                = SumAll([i \in 1..k |-> s[i]]) + s[k + 1]
<1>1. SumAll([i \in 1..0 |-> s[i]]) = 0
  BY SumTakes
<1>2. ASSUME NEW k \in Nat
      PROVE  SumAll([i \in 1..(k + 1) |-> s[i]]) = SumAll([i \in 1..k |-> s[i]]) + s[k + 1]
  <2> DEFINE t == [i \in 1..(k + 1) |-> s[i]]
             u == [i \in 1..k |-> s[i]]
  <2>1. DOMAIN t = 1..(k + 1) /\ DOMAIN u = 1..k /\ t[k + 1] = s[k + 1]
        /\ \A i \in 1..k : t[i] = u[i]
    OBVIOUS
  <2> HIDE DEF t, u
  <2>2. SumAll(t) = SumAll(u) + t[k + 1]
    BY <2>1, SumTakes
  <2> QED
    BY <2>1, <2>2 DEF t, u
<1> QED
  BY <1>1, <1>2

\* A sum of integers is one.
LEMMA SumIsInt ==
    ASSUME NEW n \in Nat, NEW s, \A i \in 1..n : s[i] \in Int
    PROVE  SumAll([i \in 1..n |-> s[i]]) \in Int
<1> DEFINE P(k) == SumAll([i \in 1..k |-> s[i]])
           T == {k \in Nat : k <= n => P(k) \in Int}
<1>1. P(0) = 0 /\ \A k \in Nat : P(k + 1) = P(k) + s[k + 1]
  BY SumOfPrefix
<1> HIDE DEF P
<1>2. 0 \in T
  BY <1>1
<1>3. ASSUME NEW k \in Nat, k \in T PROVE k + 1 \in T
  BY <1>1, <1>3
<1> HIDE DEF T
<1>4. n \in T
  BY <1>2, <1>3, NatSetInduction
<1>5. P(n) \in Int
  BY <1>4 DEF T
<1> QED
  BY <1>5 DEF P

\* Values that are not negative: so are the sums, and none is past the last.
LEMMA SumsGrow ==
    ASSUME NEW n \in Nat, NEW s, \A i \in 1..n : s[i] \in Nat
    PROVE  \A k, m \in 0..n : k <= m =>
              /\ SumAll([i \in 1..k |-> s[i]]) \in Nat
              /\ SumAll([i \in 1..k |-> s[i]]) <= SumAll([i \in 1..m |-> s[i]])
<1> DEFINE P(k) == SumAll([i \in 1..k |-> s[i]])
           T == {m \in Nat : m <= n => P(m) \in Nat /\ \A k \in 0..m : P(k) \in Nat /\ P(k) <= P(m)}
<1>1. P(0) = 0 /\ \A k \in Nat : P(k + 1) = P(k) + s[k + 1]
  BY SumOfPrefix
<1> HIDE DEF P
<1>2. 0 \in T
  BY <1>1
<1>3. ASSUME NEW m \in Nat, m \in T PROVE m + 1 \in T
  <2> SUFFICES ASSUME m + 1 <= n
               PROVE  P(m + 1) \in Nat /\ \A k \in 0..(m + 1) : P(k) \in Nat /\ P(k) <= P(m + 1)
    OBVIOUS
  <2>1. P(m) \in Nat /\ \A k \in 0..m : P(k) \in Nat /\ P(k) <= P(m)
    BY <1>3
  <2>2. P(m + 1) = P(m) + s[m + 1] /\ s[m + 1] \in Nat
    BY <1>1
  <2>3. P(m + 1) \in Nat /\ P(m) <= P(m + 1)
    BY <2>1, <2>2
  <2> QED
    BY <2>1, <2>3
<1> HIDE DEF T
<1>4. \A m \in Nat : m \in T
  BY <1>2, <1>3, NatSetInduction
<1>5. ASSUME NEW k \in 0..n, NEW m \in 0..n, k <= m PROVE P(k) \in Nat /\ P(k) <= P(m)
  <2>1. m \in Nat /\ m \in T /\ k \in 0..m
    BY <1>4, <1>5
  <2> QED
    BY <2>1 DEF T
<1> QED
  BY <1>5 DEF P

\* Facts about sequences, stated for a set that is not named: the provers find
\* their instances then.
LEMMA SeqIsFunction ==
    ASSUME NEW S, NEW s \in Seq(S)
    PROVE  s = [i \in 1..Len(s) |-> s[i]]
OBVIOUS

LEMMA BothIsSeq ==
    ASSUME NEW S, NEW s \in Seq(S), NEW t \in Seq(S)
    PROVE  s \o t \in Seq(S) /\ Len(s \o t) = Len(s) + Len(t)
OBVIOUS

\* Two sequences, one after the other, by index.
LEMMA BothByIndex ==
    ASSUME NEW S, NEW s \in Seq(S), NEW t \in Seq(S)
    PROVE  /\ Len(s) \in Nat /\ Len(t) \in Nat
           /\ s \o t \in Seq(S) /\ Len(s \o t) = Len(s) + Len(t)
           /\ s \o t = [i \in 1..(Len(s) + Len(t)) |-> (s \o t)[i]]
           /\ s = [i \in 1..Len(s) |-> s[i]] /\ t = [i \in 1..Len(t) |-> t[i]]
           /\ \A i \in 1..Len(s) : s[i] \in S
           /\ \A i \in 1..Len(t) : t[i] \in S
           /\ \A i \in 1..Len(s) : (s \o t)[i] = s[i]
           /\ \A i \in 1..Len(t) : (s \o t)[Len(s) + i] = t[i]
<1>1. Len(s) \in Nat /\ Len(t) \in Nat /\ s \o t \in Seq(S) /\ Len(s \o t) = Len(s) + Len(t)
  OBVIOUS
<1>2. s \o t = [i \in 1..(Len(s) + Len(t)) |-> (s \o t)[i]]
  <2>1. PICK u : u = s \o t
    OBVIOUS
  <2>2. u \in Seq(S) /\ Len(u) = Len(s) + Len(t)
    BY <1>1, <2>1
  <2>3. u = [i \in 1..Len(u) |-> u[i]]
    BY <2>2
  <2> QED
    BY <2>1, <2>2, <2>3, Zenon
<1>3. s = [i \in 1..Len(s) |-> s[i]] /\ t = [i \in 1..Len(t) |-> t[i]]
  OBVIOUS
<1>4. (\A i \in 1..Len(s) : s[i] \in S) /\ (\A i \in 1..Len(t) : t[i] \in S)
  OBVIOUS
<1>5. \A i \in 1..Len(s) : (s \o t)[i] = s[i]
  OBVIOUS
<1>6. \A i \in 1..Len(t) : (s \o t)[Len(s) + i] = t[i]
  OBVIOUS
<1> QED
  BY <1>1, <1>2, <1>3, <1>4, <1>5, <1>6

\* A sum over two sequences, one after the other.
LEMMA SumOfBoth ==
    ASSUME NEW s \in Seq(Int), NEW t \in Seq(Int)
    PROVE  SumAll(s \o t) = SumAll(s) + SumAll(t)
<1> DEFINE m == Len(s)
           n == Len(t)
           b == s \o t
           P(k) == SumAll([i \in 1..k |-> t[i]])
           Q(k) == SumAll([i \in 1..k |-> b[i]])
           T == {k \in Nat : k <= n => Q(m + k) = SumAll(s) + P(k)}
<1>1. /\ m \in Nat /\ n \in Nat /\ b = [i \in 1..(m + n) |-> b[i]]
      /\ s = [i \in 1..m |-> s[i]] /\ t = [i \in 1..n |-> t[i]]
      /\ \A i \in 1..m : s[i] \in Int
      /\ \A i \in 1..n : t[i] \in Int
      /\ \A i \in 1..m : b[i] = s[i]
      /\ \A i \in 1..n : b[m + i] = t[i]
  BY BothByIndex
<1>2. P(0) = 0 /\ \A k \in Nat : P(k + 1) = P(k) + t[k + 1]
  BY SumOfPrefix
<1>3. \A k \in Nat : Q(k + 1) = Q(k) + b[k + 1]
  BY SumOfPrefix
<1>4. Q(m) = SumAll(s)
  <2>1. [i \in 1..m |-> b[i]] = s
    BY <1>1
  <2> QED
    BY <2>1
<1>5. SumAll(s) \in Int
  <2> HIDE DEF m
  <2>1. SumAll([i \in 1..m |-> s[i]]) \in Int
    BY <1>1, SumIsInt
  <2> QED
    BY <1>1, <2>1
<1>6. \A k \in 0..n : P(k) \in Int
  <2> SUFFICES ASSUME NEW k \in 0..n PROVE P(k) \in Int
    OBVIOUS
  <2> HIDE DEF n
  <2>1. k \in Nat /\ \A i \in 1..k : t[i] \in Int
    BY <1>1
  <2> QED
    BY <2>1, SumIsInt
<1>7. P(n) = SumAll(t) /\ Q(m + n) = SumAll(b)
  <2>1. [i \in 1..n |-> t[i]] = t /\ [i \in 1..(m + n) |-> b[i]] = b
    BY <1>1
  <2> HIDE DEF m, n, b
  <2> QED
    BY <2>1
<1> HIDE DEF m, n, b, P, Q
<1>8. 0 \in T
  <2>1. m + 0 = m /\ SumAll(s) + 0 = SumAll(s)
    BY <1>1, <1>5
  <2> QED
    BY <1>2, <1>4, <2>1
<1>9. ASSUME NEW k \in Nat, k \in T PROVE k + 1 \in T
  <2> SUFFICES ASSUME k + 1 <= n PROVE Q(m + (k + 1)) = SumAll(s) + P(k + 1)
    OBVIOUS
  <2>1. Q(m + k) = SumAll(s) + P(k)
    BY <1>1, <1>9
  <2>2. m + k \in Nat /\ (m + k) + 1 = m + (k + 1) /\ k \in 0..n /\ k + 1 \in 1..n
    BY <1>1
  <2>3. Q(m + (k + 1)) = Q(m + k) + b[m + (k + 1)]
    BY <1>3, <2>2
  <2>4. b[m + (k + 1)] = t[k + 1] /\ t[k + 1] \in Int /\ P(k) \in Int
    BY <1>1, <1>6, <2>2
  <2>5. P(k + 1) = P(k) + t[k + 1]
    BY <1>2
  <2> QED
    BY <1>5, <2>1, <2>3, <2>4, <2>5
<1> HIDE DEF T
<1>10. n \in T
  BY <1>1, <1>8, <1>9, NatSetInduction
<1>11. Q(m + n) = SumAll(s) + P(n)
  BY <1>1, <1>10 DEF T
<1> QED
  BY <1>7, <1>11 DEF b

-----------------------------------------------------------------------------
(* Sequences put together *)

\* One sequence after the other, by what is put together so far.
LEMMA FlattenOfPrefix ==
    ASSUME NEW S, NEW n \in Nat, NEW ss, \A i \in 1..n : ss[i] \in Seq(S)
    PROVE  /\ FlattenSeq([i \in 1..0 |-> ss[i]]) = <<>>
           /\ \A k \in 0..n : FlattenSeq([i \in 1..k |-> ss[i]]) \in Seq(S)
           /\ \A k \in 0..(n - 1) : FlattenSeq([i \in 1..(k + 1) |-> ss[i]])
                                      = FlattenSeq([i \in 1..k |-> ss[i]]) \o ss[k + 1]
<1> DEFINE Put(k) == FlattenSeq([i \in 1..k |-> ss[i]])
           Steps(k, f) == /\ f \in [0..k -> Seq(S)] /\ f[0] = <<>> /\ Put(k) = f[k]
                          /\ \A i \in 1..k : f[i] = f[i - 1] \o ss[i]
<1>1. ASSUME NEW k \in 0..n PROVE \E f : Steps(k, f)
  <2> DEFINE rr == [i \in 1..k |-> ss[i]]
  <2>1. k \in Nat /\ rr \in [1..k -> Seq(S)] /\ \A i \in 1..k : rr[i] = ss[i]
    OBVIOUS
  <2> HIDE DEF rr
  <2>2. PICK f : Flattens(S, k, rr, f)
    BY <2>1, FlattenUnfolds
  <2>3. Put(k) = f[k]
    BY <2>2 DEF rr, Flattens
  <2> HIDE DEF Put
  <2>4. Steps(k, f)
    BY <2>1, <2>2, <2>3 DEF Flattens
  <2> QED
    BY <2>4
<1> HIDE DEF Put
<1>2. Put(0) = <<>>
  <2>1. 0 \in 0..n
    OBVIOUS
  <2> QED
    BY <1>1, <2>1
<1>3. \A k \in 0..n : Put(k) \in Seq(S)
  <2> SUFFICES ASSUME NEW k \in 0..n PROVE Put(k) \in Seq(S)
    OBVIOUS
  <2>1. PICK f : Steps(k, f)
    BY <1>1
  <2>2. k \in 0..k
    OBVIOUS
  <2> QED
    BY <2>1, <2>2
<1>4. ASSUME NEW k \in 0..(n - 1) PROVE Put(k + 1) = Put(k) \o ss[k + 1]
  <2>1. k \in 0..n /\ k + 1 \in 0..n /\ k \in Nat
    OBVIOUS
  <2>2. PICK f : Steps(k, f)
    BY <1>1, <2>1
  <2>3. PICK g : Steps(k + 1, g)
    BY <1>1, <2>1
  <2> DEFINE T == {i \in Nat : i <= k => f[i] = g[i]}
  <2>4. 0 \in T
    BY <2>2, <2>3
  <2>5. ASSUME NEW i \in Nat, i \in T PROVE i + 1 \in T
    <3> SUFFICES ASSUME i + 1 <= k PROVE f[i + 1] = g[i + 1]
      OBVIOUS
    <3>1. i + 1 \in 1..k /\ i + 1 \in 1..(k + 1) /\ (i + 1) - 1 = i /\ f[i] = g[i]
      BY <2>1, <2>5
    <3>2. f[i + 1] = f[i] \o ss[i + 1] /\ g[i + 1] = g[i] \o ss[i + 1]
      BY <2>2, <2>3, <3>1
    <3> QED
      BY <3>1, <3>2
  <2> HIDE DEF T
  <2>6. k \in T
    BY <2>1, <2>4, <2>5, NatSetInduction
  <2>7. f[k] = g[k]
    BY <2>1, <2>6 DEF T
  <2>8. k + 1 \in 1..(k + 1) /\ (k + 1) - 1 = k
    BY <2>1
  <2>9. g[k + 1] = g[k] \o ss[k + 1]
    BY <2>3, <2>8
  <2> QED
    BY <2>2, <2>3, <2>7, <2>9
<1> QED
  BY <1>2, <1>3, <1>4 DEF Put

\* What is put together is as long as its parts are.
LEMMA LenOfFlatten ==
    ASSUME NEW S, NEW n \in Nat, NEW ss, \A i \in 1..n : ss[i] \in Seq(S)
    PROVE  /\ FlattenSeq([i \in 1..n |-> ss[i]]) \in Seq(S)
           /\ Len(FlattenSeq([i \in 1..n |-> ss[i]])) = SumAll([i \in 1..n |-> Len(ss[i])])
<1> DEFINE Put(k) == FlattenSeq([i \in 1..k |-> ss[i]])
           l == [i \in 1..n |-> Len(ss[i])]
           P(k) == SumAll([i \in 1..k |-> l[i]])
           T == {k \in Nat : k <= n => Len(Put(k)) = P(k)}
<1>1. /\ Put(0) = <<>> /\ \A k \in 0..n : Put(k) \in Seq(S)
      /\ \A k \in 0..(n - 1) : Put(k + 1) = Put(k) \o ss[k + 1]
  BY FlattenOfPrefix
<1>2. P(0) = 0 /\ \A k \in Nat : P(k + 1) = P(k) + l[k + 1]
  <2> HIDE DEF l
  <2> QED
    BY SumOfPrefix
<1>3. P(n) = SumAll([i \in 1..n |-> Len(ss[i])])
  <2>1. [i \in 1..n |-> l[i]] = [i \in 1..n |-> Len(ss[i])]
    OBVIOUS
  <2> HIDE DEF l
  <2> QED
    BY <2>1
<1>4. \A i \in 1..n : l[i] = Len(ss[i]) /\ l[i] \in Nat
  OBVIOUS
<1> HIDE DEF P, Put, l
<1>5. 0 \in T
  BY <1>1, <1>2
<1>6. ASSUME NEW k \in Nat, k \in T PROVE k + 1 \in T
  <2> SUFFICES ASSUME k + 1 <= n PROVE Len(Put(k + 1)) = P(k + 1)
    OBVIOUS
  <2>1. Len(Put(k)) = P(k) /\ k \in 0..(n - 1) /\ k \in 0..n /\ k + 1 \in 1..n
    BY <1>6
  <2>2. Put(k + 1) = Put(k) \o ss[k + 1] /\ Put(k) \in Seq(S) /\ ss[k + 1] \in Seq(S)
    BY <1>1, <2>1
  <2>3. Len(Put(k + 1)) = Len(Put(k)) + Len(ss[k + 1])
    BY <2>2
  <2>4. P(k + 1) = P(k) + Len(ss[k + 1])
    BY <1>2, <1>4, <2>1
  <2> QED
    BY <2>1, <2>3, <2>4
<1> HIDE DEF T
<1>7. n \in T
  BY <1>5, <1>6, NatSetInduction
<1>8. Len(Put(n)) = P(n) /\ n \in 0..n
  BY <1>7 DEF T
<1> QED
  BY <1>1, <1>3, <1>8 DEF Put

\* And its sum is that of the sums of the parts.
LEMMA SumOfFlatten ==
    ASSUME NEW n \in Nat, NEW ss, \A i \in 1..n : ss[i] \in Seq(Int)
    PROVE  SumAll(FlattenSeq([i \in 1..n |-> ss[i]])) = SumAll([i \in 1..n |-> SumAll(ss[i])])
<1> DEFINE Put(k) == FlattenSeq([i \in 1..k |-> ss[i]])
           l == [i \in 1..n |-> SumAll(ss[i])]
           P(k) == SumAll([i \in 1..k |-> l[i]])
           T == {k \in Nat : k <= n => SumAll(Put(k)) = P(k)}
<1>1. /\ Put(0) = <<>> /\ \A k \in 0..n : Put(k) \in Seq(Int)
      /\ \A k \in 0..(n - 1) : Put(k + 1) = Put(k) \o ss[k + 1]
  BY FlattenOfPrefix, ZenonT(60)
<1>2. P(0) = 0 /\ \A k \in Nat : P(k + 1) = P(k) + l[k + 1]
  <2> HIDE DEF l
  <2> QED
    BY SumOfPrefix
<1>3. P(n) = SumAll([i \in 1..n |-> SumAll(ss[i])])
  <2>1. [i \in 1..n |-> l[i]] = [i \in 1..n |-> SumAll(ss[i])]
    OBVIOUS
  <2> HIDE DEF l
  <2> QED
    BY <2>1
<1>4. \A i \in 1..n : l[i] = SumAll(ss[i])
  OBVIOUS
<1>5. SumAll(<<>>) = 0
  <2>1. DOMAIN <<>> = 1..0
    OBVIOUS
  <2> QED
    BY <2>1, SumTakes
<1> HIDE DEF P, Put, l
<1>6. 0 \in T
  BY <1>1, <1>2, <1>5
<1>7. ASSUME NEW k \in Nat, k \in T PROVE k + 1 \in T
  <2> SUFFICES ASSUME k + 1 <= n PROVE SumAll(Put(k + 1)) = P(k + 1)
    OBVIOUS
  <2>1. SumAll(Put(k)) = P(k) /\ k \in 0..(n - 1) /\ k \in 0..n /\ k + 1 \in 1..n
    BY <1>7
  <2>2. Put(k + 1) = Put(k) \o ss[k + 1] /\ Put(k) \in Seq(Int) /\ ss[k + 1] \in Seq(Int)
    BY <1>1, <2>1
  <2>3. SumAll(Put(k + 1)) = SumAll(Put(k)) + SumAll(ss[k + 1])
    BY <2>2, SumOfBoth
  <2>4. P(k + 1) = P(k) + SumAll(ss[k + 1])
    BY <1>2, <1>4, <2>1
  <2> QED
    BY <2>1, <2>3, <2>4
<1> HIDE DEF T
<1>8. n \in T
  BY <1>6, <1>7, NatSetInduction
<1>9. SumAll(Put(n)) = P(n)
  BY <1>8 DEF T
<1> QED
  BY <1>3, <1>9 DEF Put

-----------------------------------------------------------------------------
(* A filtered sum over rows, over a column, and over a column at once *)

\* What a value adds.
Over(a) == IF a > AmountThreshold THEN a ELSE 0

LEMMA OverIsInt == \A a \in Int : Over(a) \in Int
BY DEF Over

\* The values over the threshold, zero in the place of the others.
LEMMA OversAreSeq ==
    ASSUME NEW n \in Nat, NEW s, \A i \in 1..n : s[i] \in Int
    PROVE  /\ [i \in 1..n |-> Over(s[i])] \in Seq(Int)
           /\ Len([i \in 1..n |-> Over(s[i])]) = n
<1> DEFINE os == [i \in 1..n |-> Over(s[i])]
<1>1. os \in [1..n -> Int]
  BY OverIsInt
<1> HIDE DEF os
<1>2. os \in Seq(Int) /\ Len(os) = n
  BY <1>1
<1> QED
  BY <1>2 DEF os

\* The sum of what is kept (sum_amount_over_threshold_columnar).
LEMMA ColumnarIsASum ==
    ASSUME NEW n \in Nat, NEW s, s = [i \in 1..n |-> s[i]], \A i \in 1..n : s[i] \in Int
    PROVE  /\ SumColumnar(s) = SumAll([i \in 1..n |-> Over(s[i])])
           /\ SumColumnar(s) \in Int
<1> DEFINE ks == [i \in 1..n |-> IF s[i] > AmountThreshold THEN <<s[i]>> ELSE <<>>]
           os == [i \in 1..n |-> Over(s[i])]
<1>1. DOMAIN s = 1..n
  <2> DEFINE u == [i \in 1..n |-> s[i]]
  <2>1. DOMAIN u = 1..n
    OBVIOUS
  <2> HIDE DEF u
  <2> QED
    BY <2>1 DEF u
<1>2. Kept(s) = FlattenSeq(ks)
  BY <1>1 DEF Kept
<1>3. ks = [i \in 1..n |-> ks[i]]
  OBVIOUS
<1>4. \A i \in 1..n : ks[i] \in Seq(Int)
  OBVIOUS
<1>5. ASSUME NEW i \in 1..n PROVE SumAll(ks[i]) = Over(s[i])
  <2>1. CASE s[i] > AmountThreshold
    <3>1. ks[i] = <<s[i]>> /\ s[i] \in Int
      BY <2>1
    <3> DEFINE t == <<s[i]>>
    <3>2. DOMAIN t = 1..(0 + 1) /\ DOMAIN <<>> = 1..0 /\ t[0 + 1] = s[i] /\ \A j \in 1..0 : FALSE
      OBVIOUS
    <3>3. 0 \in Nat
      OBVIOUS
    <3> HIDE DEF t
    <3>4. SumAll(t) = SumAll(<<>>) + t[0 + 1] /\ SumAll(<<>>) = 0
      BY <3>2, <3>3, SumTakes
    <3>5. SumAll(t) = s[i]
      BY <3>1, <3>2, <3>4
    <3> QED
      BY <2>1, <3>1, <3>5 DEF Over, t
  <2>2. CASE ~ (s[i] > AmountThreshold)
    <3>1. ks[i] = <<>> /\ DOMAIN <<>> = 1..0
      BY <2>2
    <3>2. SumAll(<<>>) = 0
      BY <3>1, SumTakes
    <3> QED
      BY <2>2, <3>1, <3>2 DEF Over
  <2> QED
    BY <2>1, <2>2
<1> HIDE DEF ks
<1>6. SumAll(FlattenSeq([i \in 1..n |-> ks[i]])) = SumAll([i \in 1..n |-> SumAll(ks[i])])
  BY <1>4, SumOfFlatten
<1>7. [i \in 1..n |-> SumAll(ks[i])] = os
  BY <1>5
<1>8. SumAll(os) \in Int
  <2>1. os = [i \in 1..n |-> os[i]] /\ \A i \in 1..n : os[i] \in Int
    BY OverIsInt
  <2> HIDE DEF os
  <2>2. SumAll([i \in 1..n |-> os[i]]) \in Int
    BY <2>1, SumIsInt
  <2> QED
    BY <2>1, <2>2
<1> QED
  BY <1>2, <1>3, <1>6, <1>7, <1>8 DEF SumColumnar

FusedStep(total, a) == IF a > AmountThreshold THEN total + a ELSE total
Fused == INSTANCE NatRecursion WITH Base <- 0, Step <- FusedStep

\* The same in one pass (sum_amount_over_threshold_columnar_fused).
LEMMA FusedIsASum ==
    ASSUME NEW n \in Nat, NEW s, s = [i \in 1..n |-> s[i]], \A i \in 1..n : s[i] \in Int
    PROVE  SumFused(s) = SumAll([i \in 1..n |-> Over(s[i])])
<1> DEFINE os == [i \in 1..n |-> Over(s[i])]
           P(k) == SumAll([i \in 1..k |-> os[i]])
           F(k) == SumFused([i \in 1..k |-> s[i]])
           T == {k \in Nat : k <= n => F(k) = P(k)}
<1>1. \A u : SumFused(u) = Fused!Folded(u)
  BY Zenon DEF SumFused, FusedStep, FoldLeft, MapThenFoldSet, Max,
               Fused!Folded, Fused!FoldLeft, Fused!MapThenFoldSet, Fused!Max
<1>2. /\ \A u : DOMAIN u = 1..0 => SumFused(u) = 0
      /\ \A u, v : \A k \in Nat :
            DOMAIN u = 1..(k + 1) /\ DOMAIN v = 1..k /\ (\A i \in 1..k : u[i] = v[i]) =>
               SumFused(u) = FusedStep(SumFused(v), u[k + 1])
  BY <1>1, Fused!FoldTakesTheLast, Zenon
<1>3. F(0) = 0
  BY <1>2
<1>4. ASSUME NEW k \in Nat PROVE F(k + 1) = FusedStep(F(k), s[k + 1])
  <2> DEFINE u == [i \in 1..(k + 1) |-> s[i]]
             v == [i \in 1..k |-> s[i]]
  <2>1. DOMAIN u = 1..(k + 1) /\ DOMAIN v = 1..k /\ u[k + 1] = s[k + 1]
        /\ \A i \in 1..k : u[i] = v[i]
    OBVIOUS
  <2> HIDE DEF u, v
  <2>2. SumFused(u) = FusedStep(SumFused(v), u[k + 1])
    BY <1>2, <2>1
  <2> QED
    BY <2>1, <2>2 DEF u, v
<1>5. P(0) = 0 /\ \A k \in Nat : P(k + 1) = P(k) + os[k + 1]
  <2> HIDE DEF os
  <2> QED
    BY SumOfPrefix
<1>6. \A i \in 1..n : os[i] = Over(s[i]) /\ os[i] \in Int
  BY OverIsInt
<1>7. \A k \in 0..n : P(k) \in Int
  <2> SUFFICES ASSUME NEW k \in 0..n PROVE P(k) \in Int
    OBVIOUS
  <2> HIDE DEF os
  <2>1. k \in Nat /\ \A i \in 1..k : os[i] \in Int
    BY <1>6
  <2> QED
    BY <2>1, SumIsInt
<1>8. P(n) = SumAll(os) /\ F(n) = SumFused(s)
  <2>1. os = [i \in 1..n |-> os[i]]
    OBVIOUS
  <2> HIDE DEF os
  <2> QED
    BY <2>1
<1> HIDE DEF P, F, os
<1>9. 0 \in T
  BY <1>3, <1>5
<1>10. ASSUME NEW k \in Nat, k \in T PROVE k + 1 \in T
  <2> SUFFICES ASSUME k + 1 <= n PROVE F(k + 1) = P(k + 1)
    OBVIOUS
  <2>1. F(k) = P(k) /\ k \in 0..n /\ k + 1 \in 1..n
    BY <1>10
  <2>2. F(k + 1) = FusedStep(P(k), s[k + 1]) /\ s[k + 1] \in Int /\ P(k) \in Int
    BY <1>4, <1>7, <2>1
  <2>3. P(k + 1) = P(k) + Over(s[k + 1])
    BY <1>5, <1>6, <2>1
  <2> QED
    BY <2>2, <2>3 DEF FusedStep, Over
<1> HIDE DEF T
<1>11. n \in T
  BY <1>9, <1>10, NatSetInduction
<1>12. F(n) = P(n)
  BY <1>11 DEF T
<1> QED
  BY <1>8, <1>12 DEF os

RowStep(total, r) == IF r.amount > AmountThreshold THEN total + r.amount ELSE total
ByRow == INSTANCE NatRecursion WITH Base <- 0, Step <- RowStep

\* The same over rows (sum_amount_over_threshold_rows).
LEMMA RowsIsASum ==
    ASSUME NEW n \in Nat, NEW rs, rs = [i \in 1..n |-> rs[i]],
           \A i \in 1..n : rs[i].amount \in Int
    PROVE  SumRows(rs) = SumAll([i \in 1..n |-> Over(rs[i].amount)])
<1> DEFINE os == [i \in 1..n |-> Over(rs[i].amount)]
           P(k) == SumAll([i \in 1..k |-> os[i]])
           F(k) == SumRows([i \in 1..k |-> rs[i]])
           T == {k \in Nat : k <= n => F(k) = P(k)}
<1>1. \A u : SumRows(u) = ByRow!Folded(u)
  BY Zenon DEF SumRows, RowStep, FoldLeft, MapThenFoldSet, Max,
               ByRow!Folded, ByRow!FoldLeft, ByRow!MapThenFoldSet, ByRow!Max
<1>2. /\ \A u : DOMAIN u = 1..0 => SumRows(u) = 0
      /\ \A u, v : \A k \in Nat :
            DOMAIN u = 1..(k + 1) /\ DOMAIN v = 1..k /\ (\A i \in 1..k : u[i] = v[i]) =>
               SumRows(u) = RowStep(SumRows(v), u[k + 1])
  BY <1>1, ByRow!FoldTakesTheLast, Zenon
<1>3. F(0) = 0
  BY <1>2
<1>4. ASSUME NEW k \in Nat PROVE F(k + 1) = RowStep(F(k), rs[k + 1])
  <2> DEFINE u == [i \in 1..(k + 1) |-> rs[i]]
             v == [i \in 1..k |-> rs[i]]
  <2>1. DOMAIN u = 1..(k + 1) /\ DOMAIN v = 1..k /\ u[k + 1] = rs[k + 1]
        /\ \A i \in 1..k : u[i] = v[i]
    OBVIOUS
  <2> HIDE DEF u, v
  <2>2. SumRows(u) = RowStep(SumRows(v), u[k + 1])
    BY <1>2, <2>1
  <2> QED
    BY <2>1, <2>2 DEF u, v
<1>5. P(0) = 0 /\ \A k \in Nat : P(k + 1) = P(k) + os[k + 1]
  <2> HIDE DEF os
  <2> QED
    BY SumOfPrefix
<1>6. \A i \in 1..n : os[i] = Over(rs[i].amount) /\ os[i] \in Int
  BY OverIsInt
<1>7. \A k \in 0..n : P(k) \in Int
  <2> SUFFICES ASSUME NEW k \in 0..n PROVE P(k) \in Int
    OBVIOUS
  <2> HIDE DEF os
  <2>1. k \in Nat /\ \A i \in 1..k : os[i] \in Int
    BY <1>6
  <2> QED
    BY <2>1, SumIsInt
<1>8. P(n) = SumAll(os) /\ F(n) = SumRows(rs)
  <2>1. os = [i \in 1..n |-> os[i]]
    OBVIOUS
  <2> HIDE DEF os
  <2> QED
    BY <2>1
<1> HIDE DEF P, F, os
<1>9. 0 \in T
  BY <1>3, <1>5
<1>10. ASSUME NEW k \in Nat, k \in T PROVE k + 1 \in T
  <2> SUFFICES ASSUME k + 1 <= n PROVE F(k + 1) = P(k + 1)
    OBVIOUS
  <2>1. F(k) = P(k) /\ k \in 0..n /\ k + 1 \in 1..n
    BY <1>10
  <2>2. F(k + 1) = RowStep(P(k), rs[k + 1]) /\ rs[k + 1].amount \in Int /\ P(k) \in Int
    BY <1>4, <1>7, <2>1
  <2>3. P(k + 1) = P(k) + Over(rs[k + 1].amount)
    BY <1>5, <1>6, <2>1
  <2> QED
    BY <2>2, <2>3 DEF RowStep, Over
<1> HIDE DEF T
<1>11. n \in T
  BY <1>9, <1>10, NatSetInduction
<1>12. F(n) = P(n)
  BY <1>11 DEF T
<1> QED
  BY <1>8, <1>12 DEF os

LEMMA OversOfBoth ==
    ASSUME NEW s \in Seq(Int), NEW t \in Seq(Int), NEW so \in Seq(Int), NEW to \in Seq(Int),
           Len(so) = Len(s), Len(to) = Len(t),
           \A i \in 1..Len(s) : so[i] = Over(s[i]), \A i \in 1..Len(t) : to[i] = Over(t[i])
    PROVE  so \o to = [i \in 1..(Len(s) + Len(t)) |-> Over((s \o t)[i])]
<1>1. PICK m \in Nat, n \in Nat : m = Len(s) /\ n = Len(t)
  OBVIOUS
<1>2. PICK b : b = s \o t
  OBVIOUS
<1>3. PICK u : u = so \o to
  OBVIOUS
<1>4. \A i \in 1..m : so[i] = Over(s[i])
  BY <1>1
<1>5. /\ \A i \in 1..m : b[i] = s[i]
      /\ \A i \in 1..n : b[m + i] = t[i]
  BY <1>1, <1>2, BothByIndex
<1>51. /\ \A i \in 1..m : u[i] = so[i]
      /\ \A i \in 1..n : u[m + i] = to[i]
  BY <1>1, <1>3, BothByIndex
<1>52. u = [i \in 1..(m + n) |-> u[i]]
  <2>1. u \in Seq(Int) /\ Len(u) = m + n
    <3>1. so \o to \in Seq(Int) /\ Len(so \o to) = Len(so) + Len(to)
      BY BothIsSeq, Zenon
    <3> QED
      BY <1>1, <1>3, <3>1, Zenon
  <2>2. u = [i \in 1..Len(u) |-> u[i]]
    BY <2>1, SeqIsFunction
  <2> QED
    BY <2>1, <2>2, Zenon
<1>6. ASSUME NEW i \in 1..(m + n) PROVE u[i] = Over(b[i])
  <2>1. CASE i <= m
    <3>1. i \in 1..m
      BY <2>1
    <3> QED
      BY <1>4, <1>5, <1>51, <3>1
  <2>2. CASE i > m
    <3>1. PICK j \in 1..n : m + j = i
      <4>1. i - m \in 1..n /\ m + (i - m) = i
        BY <2>2
      <4> QED
        BY <4>1
    <3>2. to[j] = Over(t[j])
      BY <1>1
    <3> QED
      BY <1>5, <1>51, <3>1, <3>2
  <2> QED
    BY <2>1, <2>2
<1>8. u = [i \in 1..(m + n) |-> Over(b[i])]
  BY <1>52, <1>6
<1> QED
  BY <1>1, <1>2, <1>3, <1>8

\* A filtered sum over two columns, one after the other.
LEMMA ColumnarOfBoth ==
    ASSUME NEW s \in Seq(Int), NEW t \in Seq(Int)
    PROVE  SumColumnar(s \o t) = SumColumnar(s) + SumColumnar(t)
<1>1. PICK m \in Nat, n \in Nat : m = Len(s) /\ n = Len(t)
  OBVIOUS
<1>2. PICK so \in Seq(Int) : so = [i \in 1..m |-> Over(s[i])] /\ Len(so) = m
  <2>1. \A i \in 1..m : s[i] \in Int
    BY <1>1
  <2> QED
    BY <2>1, OversAreSeq
<1>3. PICK to \in Seq(Int) : to = [i \in 1..n |-> Over(t[i])] /\ Len(to) = n
  <2>1. \A i \in 1..n : t[i] \in Int
    BY <1>1
  <2> QED
    BY <2>1, OversAreSeq
<1>4. PICK b : b = s \o t
  OBVIOUS
<1>5. /\ s = [i \in 1..m |-> s[i]] /\ t = [i \in 1..n |-> t[i]] /\ b = [i \in 1..(m + n) |-> b[i]]
      /\ \A i \in 1..m : s[i] \in Int
      /\ \A i \in 1..n : t[i] \in Int
      /\ m + n \in Nat
  BY <1>1, <1>4, BothByIndex
<1>6. \A i \in 1..(m + n) : b[i] \in Int
  BY <1>1, <1>4
<1>7. SumColumnar(s) = SumAll(so)
  BY <1>2, <1>5, ColumnarIsASum
<1>8. SumColumnar(t) = SumAll(to)
  BY <1>3, <1>5, ColumnarIsASum
<1>9. SumColumnar(b) = SumAll([i \in 1..(m + n) |-> Over(b[i])])
  BY <1>5, <1>6, ColumnarIsASum
<1>10. so \o to = [i \in 1..(m + n) |-> Over(b[i])]
  <2>1. (\A i \in 1..m : so[i] = Over(s[i])) /\ (\A i \in 1..n : to[i] = Over(t[i]))
    BY <1>2, <1>3
  <2> QED
    BY <1>1, <1>2, <1>3, <1>4, <2>1, OversOfBoth
<1>11. SumAll(so \o to) = SumAll(so) + SumAll(to)
  BY SumOfBoth
<1> QED
  BY <1>4, <1>7, <1>8, <1>9, <1>10, <1>11

-----------------------------------------------------------------------------
(* Files *)

\* A filtered sum over columns put together is that of their filtered sums.
LEMMA ColumnarOfFlatten ==
    ASSUME NEW n \in Nat, NEW ss, \A i \in 1..n : ss[i] \in Seq(Int)
    PROVE  SumColumnar(FlattenSeq([i \in 1..n |-> ss[i]]))
              = SumAll([i \in 1..n |-> SumColumnar(ss[i])])
<1> DEFINE Put(k) == FlattenSeq([i \in 1..k |-> ss[i]])
           l == [i \in 1..n |-> SumColumnar(ss[i])]
           P(k) == SumAll([i \in 1..k |-> l[i]])
           T == {k \in Nat : k <= n => SumColumnar(Put(k)) = P(k)}
<1>1. /\ Put(0) = <<>> /\ \A k \in 0..n : Put(k) \in Seq(Int)
      /\ \A k \in 0..(n - 1) : Put(k + 1) = Put(k) \o ss[k + 1]
  BY FlattenOfPrefix
<1>2. P(0) = 0 /\ \A k \in Nat : P(k + 1) = P(k) + l[k + 1]
  <2> HIDE DEF l
  <2> QED
    BY SumOfPrefix
<1>3. P(n) = SumAll([i \in 1..n |-> SumColumnar(ss[i])])
  <2>1. [i \in 1..n |-> l[i]] = [i \in 1..n |-> SumColumnar(ss[i])]
    OBVIOUS
  <2> HIDE DEF l
  <2> QED
    BY <2>1
<1>4. \A i \in 1..n : l[i] = SumColumnar(ss[i])
  OBVIOUS
<1>5. SumColumnar(<<>>) = 0
  <2> DEFINE s == <<>>
  <2>1. s = [i \in 1..0 |-> s[i]] /\ 0 \in Nat /\ \A i \in 1..0 : s[i] \in Int
    OBVIOUS
  <2> HIDE DEF s
  <2>2. SumColumnar(s) = SumAll([i \in 1..0 |-> Over(s[i])])
    BY <2>1, ColumnarIsASum
  <2>3. SumAll([i \in 1..0 |-> Over(s[i])]) = 0
    BY SumTakes
  <2> QED
    BY <2>2, <2>3 DEF s
<1> HIDE DEF P, Put, l
<1>6. 0 \in T
  BY <1>1, <1>2, <1>5
<1>7. ASSUME NEW k \in Nat, k \in T PROVE k + 1 \in T
  <2> SUFFICES ASSUME k + 1 <= n PROVE SumColumnar(Put(k + 1)) = P(k + 1)
    OBVIOUS
  <2>1. SumColumnar(Put(k)) = P(k) /\ k \in 0..(n - 1) /\ k \in 0..n /\ k + 1 \in 1..n
    BY <1>7
  <2>2. Put(k + 1) = Put(k) \o ss[k + 1] /\ Put(k) \in Seq(Int) /\ ss[k + 1] \in Seq(Int)
    BY <1>1, <2>1
  <2>3. SumColumnar(Put(k + 1)) = SumColumnar(Put(k)) + SumColumnar(ss[k + 1])
    BY <2>2, ColumnarOfBoth
  <2>4. P(k + 1) = P(k) + SumColumnar(ss[k + 1])
    BY <1>2, <1>4, <2>1
  <2> QED
    BY <2>1, <2>3, <2>4
<1> HIDE DEF T
<1>8. n \in T
  BY <1>6, <1>7, NatSetInduction
<1>9. SumColumnar(Put(n)) = P(n)
  BY <1>8 DEF T
<1> QED
  BY <1>3, <1>9 DEF Put

\* Multiplying by what is not negative keeps the order.
LEMMA TimesGrows ==
    ASSUME NEW a \in Int, NEW b \in Int, NEW c \in Nat, a <= b
    PROVE  a * c <= b * c
<1>1. (b - a) * c >= 0
  BY b - a >= 0
<1>2. (b - a) * c = b * c - a * c
  OBVIOUS
<1> QED
  BY <1>1, <1>2

\* Pieces of one size cover the values, and none begins past them.
LEMMA PieceBounds ==
    ASSUME NEW n \in Nat, NEW size \in Nat \ {0}
    PROVE  LET m == (n + size - 1) \div size IN
           /\ m \in Nat /\ n <= m * size
           /\ \A p \in 1..m : (p - 1) * size < n
<1> DEFINE m == (n + size - 1) \div size
<1>1. /\ m \in Int
      /\ m * size <= n + size - 1 /\ n + size - 1 < m * size + size
  OBVIOUS
<1> HIDE DEF m
<1>2. n <= m * size
  BY <1>1
<1>3. m \in Nat
  <2>1. ASSUME m <= -1 PROVE FALSE
    <3>1. m * size <= (-1) * size
      BY <1>1, <2>1, TimesGrows
    <3> QED
      BY <1>1, <3>1
  <2> QED
    BY <1>1, <2>1
<1>4. ASSUME NEW p \in 1..m PROVE (p - 1) * size < n
  <2>1. (p - 1) * size <= (m - 1) * size
    BY <1>3, TimesGrows
  <2>2. (m - 1) * size = m * size - size /\ m * size \in Int /\ (p - 1) * size \in Int
    BY <1>3
  <2> QED
    BY <1>1, <2>1, <2>2
<1> QED
  BY <1>2, <1>3, <1>4 DEF m

\* ss has what is between one of the places e and the next.
CutAt(values, m, e, ss) ==
    /\ e[0] = 0 /\ e[m] = Len(values) /\ \A k \in 0..m : e[k] \in 0..Len(values)
    /\ \A k \in 1..m : e[k - 1] <= e[k] /\ ss[k] = SubSeq(values, e[k - 1] + 1, e[k])

\* ss has sequences that are s when they are put together.
PutBack(S, s, m, ss) ==
    /\ \A i \in 1..m : ss[i] \in Seq(S)
    /\ FlattenSeq([i \in 1..m |-> ss[i]]) = s

\* What is cut at increasing places is whole again when it is put together.
LEMMA CutAndPut ==
    ASSUME NEW S, NEW values \in Seq(S), NEW m \in Nat, NEW e, NEW ss,
           CutAt(values, m, e, ss)
    PROVE  PutBack(S, values, m, ss)
<1> USE DEF CutAt
<1> DEFINE Put(k) == FlattenSeq([i \in 1..k |-> ss[i]])
           T == {k \in Nat : k <= m => Put(k) = SubSeq(values, 1, e[k])}
<1>1. \A i \in 1..m : ss[i] \in Seq(S)
  <2> SUFFICES ASSUME NEW i \in 1..m PROVE ss[i] \in Seq(S)
    OBVIOUS
  <2>1. i - 1 \in 0..m /\ i \in 0..m
    OBVIOUS
  <2>2. e[i - 1] + 1 \in 1..(Len(values) + 1) /\ e[i] \in 0..Len(values)
    BY <2>1
  <2>3. \A a \in 1..(Len(values) + 1), b \in 0..Len(values) : SubSeq(values, a, b) \in Seq(S)
    OBVIOUS
  <2> QED
    BY <2>2, <2>3
<1>2. /\ Put(0) = <<>>
      /\ \A k \in 0..m : Put(k) \in Seq(S)
      /\ \A k \in 0..(m - 1) : Put(k + 1) = Put(k) \o ss[k + 1]
  BY <1>1, FlattenOfPrefix
<1>3. /\ SubSeq(values, 1, 0) = <<>> /\ SubSeq(values, 1, Len(values)) = values
      /\ \A a, b \in Nat : a <= b /\ b <= Len(values) =>
            SubSeq(values, 1, a) \o SubSeq(values, a + 1, b) = SubSeq(values, 1, b)
  OBVIOUS
<1> HIDE DEF Put
<1>4. 0 \in T
  BY <1>2, <1>3
<1>5. ASSUME NEW k \in Nat, k \in T PROVE k + 1 \in T
  <2> SUFFICES ASSUME k + 1 <= m PROVE Put(k + 1) = SubSeq(values, 1, e[k + 1])
    OBVIOUS
  <2>1. /\ k \in 0..(m - 1) /\ k \in 0..m /\ k + 1 \in 1..m /\ k + 1 \in 0..m
        /\ (k + 1) - 1 = k
    OBVIOUS
  <2>2. Put(k) = SubSeq(values, 1, e[k])
    BY <1>5
  <2>3. Put(k + 1) = SubSeq(values, 1, e[k]) \o SubSeq(values, e[k] + 1, e[k + 1])
    BY <1>2, <2>1, <2>2
  <2>4. e[k] \in Nat /\ e[k + 1] \in Nat /\ e[k] <= e[k + 1] /\ e[k + 1] <= Len(values)
    BY <2>1
  <2> QED
    BY <1>3, <2>3, <2>4
<1> HIDE DEF T
<1>6. m \in T
  BY <1>4, <1>5, NatSetInduction
<1>7. Put(m) = SubSeq(values, 1, e[m])
  BY <1>6 DEF T
<1> QED
  BY <1>1, <1>3, <1>7 DEF Put, PutBack

\* The pieces, put together, are the values (ParquetRecordBatchReader).
LEMMA PiecesAreWhole ==
    ASSUME NEW values \in Seq(Int), NEW size \in Nat \ {0}
    PROVE  \E m \in Nat : \E ss :
              Pieces(values, size) = [p \in 1..m |-> ss[p]] /\ PutBack(Int, values, m, ss)
<1>1. PICK n \in Nat : n = Len(values)
  OBVIOUS
<1>2. PICK m \in Nat : /\ m = (n + size - 1) \div size /\ n <= m * size
                       /\ \A p \in 1..m : (p - 1) * size < n
  BY PieceBounds
<1> DEFINE End(k) == IF k * size < n THEN k * size ELSE n
<1>3. PICK e : e = [k \in 0..m |-> End(k)]
  OBVIOUS
<1>4. PICK ss : ss = [p \in 1..m |-> SubSeq(values, (p - 1) * size + 1, End(p))]
  OBVIOUS
<1>5. Pieces(values, size) = ss
  BY <1>1, <1>2, <1>4 DEF Pieces
<1>6. ss = [p \in 1..m |-> ss[p]]
  BY <1>4
<1>7. \A k \in Nat : k * size \in Nat /\ End(k) \in 0..n
  <2>1. \A k \in Nat : k * size \in Nat
    OBVIOUS
  <2> QED
    BY <2>1
<1>8. End(0) = 0 /\ End(m) = n
  <2>1. 0 * size = 0 /\ m * size \in Nat
    OBVIOUS
  <2> QED
    BY <1>2, <2>1
<1>9. ASSUME NEW p \in 1..m PROVE End(p - 1) = (p - 1) * size /\ End(p - 1) <= End(p)
  <2>1. p - 1 \in Nat /\ p \in Nat /\ (p - 1) * size < n
    BY <1>2
  <2>2. (p - 1) * size <= p * size
    BY <2>1, TimesGrows
  <2>3. (p - 1) * size \in Nat /\ p * size \in Nat
    BY <2>1
  <2> QED
    BY <2>1, <2>2, <2>3
<1> HIDE DEF End
<1>10. e[0] = 0 /\ e[m] = Len(values)
  BY <1>1, <1>3, <1>8
<1>11. \A k \in 0..m : e[k] \in 0..Len(values)
  BY <1>1, <1>3, <1>7
<1>12. ASSUME NEW k \in 1..m
       PROVE  e[k - 1] <= e[k] /\ ss[k] = SubSeq(values, e[k - 1] + 1, e[k])
  <2>1. k - 1 \in 0..m /\ k \in 0..m
    OBVIOUS
  <2>2. e[k - 1] = End(k - 1) /\ e[k] = End(k)
    BY <1>3, <2>1
  <2>3. ss[k] = SubSeq(values, (k - 1) * size + 1, End(k))
    BY <1>4
  <2> QED
    BY <1>9, <2>2, <2>3
<1>13. CutAt(values, m, e, ss)
  BY <1>10, <1>11, <1>12 DEF CutAt
<1>14. PutBack(Int, values, m, ss)
  BY <1>13, CutAndPut
<1> QED
  BY <1>5, <1>6, <1>14

\* What is generated: n rows, with a number each.
LEMMA AmountsAreInts ==
    ASSUME NEW n \in Nat
    PROVE  LET rs == GenerateRows(n) IN
           /\ rs = [i \in 1..n |-> rs[i]] /\ \A i \in 1..n : rs[i].amount \in Int
           /\ AmountColumn(rs) = [i \in 1..n |-> rs[i].amount]
           /\ AmountColumn(rs) \in Seq(Int) /\ Len(AmountColumn(rs)) = n
<1> DEFINE rs == GenerateRows(n)
<1>1. rs = [i \in 1..n |-> rs[i]] /\ DOMAIN rs = 1..n
  BY DEF GenerateRows
<1>2. \A i \in 1..n : rs[i].amount \in Int
  BY DEF GenerateRows
<1> HIDE DEF rs
<1>3. AmountColumn(rs) = [i \in 1..n |-> rs[i].amount]
  BY <1>1 DEF AmountColumn
<1>4. PICK amounts : amounts = [i \in 1..n |-> rs[i].amount]
  OBVIOUS
<1>5. amounts \in [1..n -> Int]
  BY <1>2, <1>4
<1>6. amounts \in Seq(Int) /\ Len(amounts) = n
  BY <1>5
<1> QED
  BY <1>1, <1>2, <1>3, <1>4, <1>6 DEF rs

\* The sum of the rows is that of their column, all at once or not.
LEMMA OrientationsAgree ==
    ASSUME NEW n \in Nat
    PROVE  LET rs == GenerateRows(n) IN
           /\ SumColumnar(AmountColumn(rs)) = SumRows(rs)
           /\ SumFused(AmountColumn(rs)) = SumRows(rs)
<1>1. PICK rs : rs = GenerateRows(n)
  OBVIOUS
<1>2. PICK amounts : amounts = AmountColumn(rs)
  OBVIOUS
<1>3. /\ rs = [i \in 1..n |-> rs[i]] /\ \A i \in 1..n : rs[i].amount \in Int
      /\ amounts = [i \in 1..n |-> rs[i].amount]
  BY <1>1, <1>2, AmountsAreInts, Zenon
<1>4. amounts = [i \in 1..n |-> amounts[i]] /\ \A i \in 1..n : amounts[i] \in Int
  BY <1>3
<1>5. [i \in 1..n |-> Over(amounts[i])] = [i \in 1..n |-> Over(rs[i].amount)]
  BY <1>3
<1>6. SumRows(rs) = SumAll([i \in 1..n |-> Over(rs[i].amount)])
  BY <1>3, RowsIsASum
<1>7. SumColumnar(amounts) = SumAll([i \in 1..n |-> Over(amounts[i])])
  BY <1>4, ColumnarIsASum
<1>8. SumFused(amounts) = SumAll([i \in 1..n |-> Over(amounts[i])])
  BY <1>4, FusedIsASum
<1> QED
  BY <1>1, <1>2, <1>5, <1>6, <1>7, <1>8

\* Whichever way a file is read, the sum is that of the rows it was made of.
LEMMA ReadersAgree ==
    ASSUME NEW n \in Nat, NEW size \in Nat \ {0}
    PROVE  LET batch == GenerateBatch(n) IN
           /\ Len(batch[1]) = n
           /\ ReadIpcFull(batch, size) = SumRows(GenerateRows(n))
           /\ ReadIpcNarrow(batch, size) = ReadIpcFull(batch, size)
           /\ ReadParquetFull(batch, size) = ReadIpcFull(batch, size)
           /\ ReadParquetNarrow(batch, size) = ReadIpcFull(batch, size)
<1>1. PICK rs : rs = GenerateRows(n)
  OBVIOUS
<1>2. PICK amounts : amounts = AmountColumn(rs)
  OBVIOUS
<1>3. PICK batch : batch = GenerateBatch(n)
  OBVIOUS
<1>4. batch[1] = [i \in 1..n |-> rs[i].id] /\ batch[AMOUNT_COLUMN_INDEX + 1] = amounts
  BY <1>1, <1>2, <1>3 DEF GenerateBatch, AMOUNT_COLUMN_INDEX
<1>5. Len(batch[1]) = n
  <2>1. PICK ids : ids = [i \in 1..n |-> rs[i].id]
    OBVIOUS
  <2>2. Len(ids) = n
    BY <2>1
  <2> QED
    BY <1>4, <2>1, <2>2
<1>6. amounts \in Seq(Int)
  BY <1>1, <1>2, AmountsAreInts, Zenon
<1>7. Yielded("ipc", amounts, size)[1] = amounts
  BY DEF Yielded
<1>8. ReadIpcFull(batch, size) = SumColumnar(amounts)
  BY <1>4, <1>7, Zenon DEF ReadIpcFull
<1>9. ReadIpcNarrow(batch, size) = SumColumnar(amounts)
  <2>1. <<amounts>>[1] = amounts
    OBVIOUS
  <2> QED
    BY <1>4, <1>7, <2>1, Zenon DEF ReadIpcNarrow
<1>10. Yielded("parquet", amounts, size) = Pieces(amounts, size)
  BY DEF Yielded
<1>11. PICK m \in Nat : \E ss : Pieces(amounts, size) = [p \in 1..m |-> ss[p]]
                                /\ PutBack(Int, amounts, m, ss)
  BY <1>6, PiecesAreWhole
<1>12. PICK ss : /\ Pieces(amounts, size) = [p \in 1..m |-> ss[p]]
                /\ PutBack(Int, amounts, m, ss)
  BY <1>11
<1>13. /\ \A i \in 1..m : ss[i] \in Seq(Int)
       /\ FlattenSeq([i \in 1..m |-> ss[i]]) = amounts
  BY <1>12 DEF PutBack
<1>14. ReadParquetFull(batch, size) = SumColumnar(amounts)
  BY <1>4, <1>10, <1>12, <1>13, Zenon DEF ReadParquetFull
<1>15. ReadParquetNarrow(batch, size) = SumColumnar(amounts)
  <2>1. PICK pieces : pieces = [p \in 1..m |-> ss[p]]
    OBVIOUS
  <2>2. [p \in DOMAIN pieces |-> SumColumnar(pieces[p])] = [i \in 1..m |-> SumColumnar(ss[i])]
    BY <2>1
  <2>3. <<amounts>>[1] = amounts
    OBVIOUS
  <2>4. ReadParquetNarrow(batch, size) = SumAll([p \in DOMAIN pieces |-> SumColumnar(pieces[p])])
    BY <1>4, <1>10, <1>12, <2>1, <2>3, Zenon DEF ReadParquetNarrow
  <2>5. SumColumnar(FlattenSeq([i \in 1..m |-> ss[i]]))
          = SumAll([i \in 1..m |-> SumColumnar(ss[i])])
    BY <1>13, ColumnarOfFlatten
  <2> QED
    BY <1>13, <2>2, <2>4, <2>5, Zenon
<1>16. SumColumnar(amounts) = SumRows(rs)
  BY <1>1, <1>2, OrientationsAgree, Zenon
<1> QED
  BY <1>1, <1>3, <1>5, <1>8, <1>9, <1>14, <1>15, <1>16

-----------------------------------------------------------------------------
(* Columns to rows and back *)

\* As many columns as C says, each of R values.
IsGrid(columns, R, C) ==
    /\ R \in Nat /\ C \in Nat /\ columns = [c \in 1..C |-> columns[c]]
    /\ \A c \in 1..C : columns[c] = [r \in 1..R |-> columns[c][r]]

\* The rows, one after the other (to_row_major).
RowMajor(columns, R, C) ==
    [i \in 1..(R * C) |-> columns[((i - 1) % C) + 1][((i - 1) \div C) + 1]]

\* Where a row begins, and how far into it, are found again from an index.
LEMMA IndexOfRow ==
    ASSUME NEW C \in Nat \ {0}, NEW R \in Nat, NEW r \in 1..R, NEW c \in 1..C
    PROVE  LET i == (r - 1) * C + c IN
           i \in 1..(R * C) /\ (i - 1) % C = c - 1 /\ (i - 1) \div C = r - 1
<1>1. PICK x \in Nat : x = (r - 1) * C + (c - 1)
  <2>1. r - 1 \in Nat /\ c - 1 \in Nat
    OBVIOUS
  <2>2. (r - 1) * C \in Nat
    BY <2>1
  <2> QED
    BY <2>1, <2>2
<1>2. PICK q \in Int, m \in 0..(C - 1) : q = x \div C /\ m = x % C /\ x = q * C + m
  <2>1. x \div C \in Int
    OBVIOUS
  <2>2. x % C \in 0..(C - 1)
    OBVIOUS
  <2>3. x = C * (x \div C) + (x % C)
    OBVIOUS
  <2>4. C * (x \div C) = (x \div C) * C
    BY <2>1
  <2> QED
    BY <2>1, <2>2, <2>3, <2>4
<1>3. q = r - 1
  <2>1. q * C \in Int /\ (r - 1) * C \in Int /\ q * C - (r - 1) * C = (c - 1) - m
    BY <1>1, <1>2
  <2>2. ASSUME q <= r - 2 PROVE FALSE
    <3>1. q * C <= (r - 2) * C
      BY <2>2, TimesGrows
    <3>2. (r - 2) * C = (r - 1) * C - C
      OBVIOUS
    <3> QED
      BY <2>1, <3>1, <3>2
  <2>3. ASSUME q >= r PROVE FALSE
    <3>1. r * C <= q * C
      BY <2>3, TimesGrows
    <3>2. r * C = (r - 1) * C + C
      OBVIOUS
    <3> QED
      BY <2>1, <3>1, <3>2
  <2> QED
    BY <2>2, <2>3
<1>4. m = c - 1
  BY <1>1, <1>2, <1>3
<1>5. x < R * C
  <2>1. r * C <= R * C
    BY TimesGrows
  <2>2. r * C = (r - 1) * C + C /\ (r - 1) * C \in Int /\ R * C \in Int
    OBVIOUS
  <2> QED
    BY <1>1, <2>1, <2>2
<1>6. (r - 1) * C + c = x + 1 /\ R * C \in Nat
  <2>1. (r - 1) * C \in Int
    OBVIOUS
  <2> QED
    BY <1>1, <2>1
<1> QED
  BY <1>2, <1>3, <1>4, <1>5, <1>6

\* Each value is transformed once, and is where it was (RowBatch::to_columnar).
LEMMA ThereAndBack ==
    ASSUME NEW R, NEW C, NEW columns, IsGrid(columns, R, C), NEW buffer,
           buffer = Transformed(RowMajor(columns, R, C))
    PROVE  [c \in 1..C |-> [r \in 1..R |-> buffer[(r - 1) * C + c]]] = TransformColumns(columns)
<1>1. PICK major : major = RowMajor(columns, R, C)
  OBVIOUS
<1>2. R \in Nat /\ C \in Nat /\ columns = [c \in 1..C |-> columns[c]]
  BY DEF IsGrid
<1>3. DOMAIN major = 1..(R * C)
  BY <1>1 DEF RowMajor
<1>4. ASSUME NEW c \in 1..C, NEW r \in 1..R
      PROVE  buffer[(r - 1) * C + c] = Transformed(columns[c])[r]
  <2>1. C \in Nat \ {0}
    BY <1>2
  <2>2. PICK i : i = (r - 1) * C + c
    OBVIOUS
  <2>3. i \in 1..(R * C) /\ (i - 1) % C = c - 1 /\ (i - 1) \div C = r - 1
    BY <1>2, <2>1, <2>2, IndexOfRow
  <2>4. (c - 1) + 1 = c /\ (r - 1) + 1 = r
    BY <1>2
  <2>5. major[i] = columns[((i - 1) % C) + 1][((i - 1) \div C) + 1]
    BY <1>1, <2>3 DEF RowMajor
  <2>6. major[i] = columns[c][r]
    BY <2>3, <2>4, <2>5
  <2>7. buffer[i] = columns[c][r] + 2
    BY <1>1, <1>3, <2>3, <2>6 DEF Transformed
  <2>8. DOMAIN columns[c] = 1..R
    BY DEF IsGrid
  <2>9. Transformed(columns[c])[r] = columns[c][r] + 2
    BY <2>8 DEF Transformed
  <2> QED
    BY <2>2, <2>7, <2>9
<1>5. ASSUME NEW c \in 1..C
      PROVE  Transformed(columns[c]) = [r \in 1..R |-> Transformed(columns[c])[r]]
  BY DEF IsGrid, Transformed
<1>6. TransformColumns(columns) = [c \in 1..C |-> Transformed(columns[c])]
  BY <1>2 DEF TransformColumns
<1>7. ASSUME NEW c \in 1..C
      PROVE  [r \in 1..R |-> buffer[(r - 1) * C + c]] = Transformed(columns[c])
  <2>1. PICK t : t = Transformed(columns[c])
    OBVIOUS
  <2>2. t = [r \in 1..R |-> t[r]] /\ \A r \in 1..R : buffer[(r - 1) * C + c] = t[r]
    BY <1>4, <1>5, <2>1
  <2> QED
    BY <2>1, <2>2
<1> QED
  BY <1>6, <1>7

-----------------------------------------------------------------------------
(* Lists: what the offsets of a level are, and how a row extends them *)

\* The offsets of n elements that have m between them.
IsOffsets(o, n, m) ==
    /\ n \in Nat /\ m \in Nat /\ o \in [1..(n + 1) -> 0..m]
    /\ o[1] = 0 /\ o[n + 1] = m
    /\ \A i, j \in 1..(n + 1) : i <= j => o[i] <= o[j]

\* A prefix, by its indices.
LEMMA PrefixIsSubSeq ==
    ASSUME NEW S, NEW s \in Seq(S), NEW k \in 0..Len(s)
    PROVE  SubSeq(s, 1, k) = [i \in 1..k |-> s[i]]
<1>1. PICK u : u = SubSeq(s, 1, k)
  OBVIOUS
<1>2. u \in Seq(S) /\ Len(u) = k /\ \A i \in 1..k : u[i] = s[i]
  BY <1>1
<1>3. u = [i \in 1..Len(u) |-> u[i]]
  BY <1>2, SeqIsFunction
<1>4. [i \in 1..k |-> u[i]] = [i \in 1..k |-> s[i]]
  BY <1>2
<1> QED
  BY <1>1, <1>2, <1>3, <1>4

\* The offsets of as many elements as there are lengths.
LEMMA OffsetsOfAreOffsets ==
    ASSUME NEW lengths \in Seq(Nat)
    PROVE  IsOffsets(OffsetsOf(lengths), Len(lengths), SumAll(lengths))
<1>1. PICK n \in Nat : n = Len(lengths)
  OBVIOUS
<1> DEFINE P(k) == SumAll([i \in 1..k |-> lengths[i]])
<1>2. \A i \in 1..n : lengths[i] \in Nat
  BY <1>1
<1>3. \A k, m \in 0..n : k <= m => P(k) \in Nat /\ P(k) <= P(m)
  BY <1>2, SumsGrow
<1>4. P(0) = 0 /\ P(n) = SumAll(lengths)
  <2>1. lengths = [i \in 1..n |-> lengths[i]]
    BY <1>1
  <2> QED
    BY <2>1, SumOfPrefix
<1>5. PICK o : o = OffsetsOf(lengths)
  OBVIOUS
<1>6. o = [i \in 1..(n + 1) |-> SumAll(SubSeq(lengths, 1, i - 1))]
  BY <1>1, <1>5 DEF OffsetsOf
<1>7. ASSUME NEW i \in 1..(n + 1) PROVE SumAll(SubSeq(lengths, 1, i - 1)) = P(i - 1)
  <2>1. i - 1 \in 0..Len(lengths)
    BY <1>1
  <2> QED
    BY <2>1, PrefixIsSubSeq
<1> HIDE DEF P
<1>8. DOMAIN o = 1..(n + 1) /\ \A i \in 1..(n + 1) : o[i] = P(i - 1)
  BY <1>6, <1>7
<1>9. \A i \in 1..(n + 1) : i - 1 \in 0..n
  OBVIOUS
<1>10. \A i, j \in 1..(n + 1) : i <= j => P(i - 1) <= P(j - 1) /\ P(i - 1) \in Nat
  BY <1>3, <1>9
<1>11. P(n) \in Nat /\ o[1] = 0 /\ o[n + 1] = P(n)
  BY <1>3, <1>4, <1>8
<1>12. ASSUME NEW i \in 1..(n + 1) PROVE o[i] \in 0..P(n)
  <2>1. i <= n + 1 /\ n + 1 \in 1..(n + 1) /\ (n + 1) - 1 = n
    OBVIOUS
  <2>2. P(i - 1) <= P(n) /\ P(i - 1) \in Nat
    BY <1>10, <2>1
  <2> QED
    BY <1>8, <1>11, <2>2
<1>13. o \in [1..(n + 1) -> 0..P(n)]
  BY <1>6, <1>12
<1>14. \A i, j \in 1..(n + 1) : i <= j => o[i] <= o[j]
  BY <1>8, <1>10
<1> QED
  BY <1>1, <1>4, <1>5, <1>11, <1>13, <1>14 DEF IsOffsets

\* Differences add up to the difference of the ends.
LEMMA SumOfDifferences ==
    ASSUME NEW a \in Nat, NEW k \in Nat, NEW o,
           \A i \in 1..(a + k + 1) : o[i] \in Int
    PROVE  SumAll([i \in 1..k |-> o[a + i + 1] - o[a + i]]) = o[a + k + 1] - o[a + 1]
<1>1. PICK d : d = [i \in 1..k |-> o[a + i + 1] - o[a + i]]
  OBVIOUS
<1> DEFINE P(j) == SumAll([i \in 1..j |-> d[i]])
           T == {j \in Nat : j <= k => P(j) = o[a + j + 1] - o[a + 1]}
<1>2. P(0) = 0 /\ \A j \in Nat : P(j + 1) = P(j) + d[j + 1]
  BY SumOfPrefix
<1> HIDE DEF P
<1>3. 0 \in T
  <2>1. a + 1 \in 1..(a + k + 1) /\ a + 0 + 1 = a + 1
    OBVIOUS
  <2> QED
    BY <1>2, <2>1
<1>4. ASSUME NEW j \in Nat, j \in T PROVE j + 1 \in T
  <2> SUFFICES ASSUME j + 1 <= k PROVE P(j + 1) = o[a + (j + 1) + 1] - o[a + 1]
    OBVIOUS
  <2>1. P(j) = o[a + j + 1] - o[a + 1] /\ j + 1 \in 1..k
    BY <1>4
  <2>2. d[j + 1] = o[a + (j + 1) + 1] - o[a + (j + 1)] /\ a + (j + 1) = a + j + 1
    BY <1>1, <2>1
  <2>3. a + 1 \in 1..(a + k + 1) /\ a + j + 1 \in 1..(a + k + 1) /\ a + (j + 1) + 1 \in 1..(a + k + 1)
    OBVIOUS
  <2>4. o[a + 1] \in Int /\ o[a + j + 1] \in Int /\ o[a + (j + 1) + 1] \in Int
    BY <2>3
  <2> QED
    BY <1>2, <2>1, <2>2, <2>4
<1> HIDE DEF T
<1>5. k \in T
  BY <1>3, <1>4, NatSetInduction
<1>6. P(k) = o[a + k + 1] - o[a + 1]
  BY <1>5 DEF T
<1>7. [i \in 1..k |-> d[i]] = d
  BY <1>1
<1> QED
  BY <1>1, <1>6, <1>7 DEF P

\* The builders extend the offsets so far by those of the next elements
\* (append_wrapper and append_item).
LEMMA OffsetsExtend ==
    ASSUME NEW o, NEW n, NEW m, IsOffsets(o, n, m), NEW a \in 0..n, NEW c \in 0..n, a <= c
    PROVE  Appended([i \in 1..(a + 1) |-> o[i]],
                    [i \in 1..(c - a) |-> o[a + i + 1] - o[a + i]])
              = [i \in 1..(c + 1) |-> o[i]]
<1>1. /\ n \in Nat /\ m \in Nat /\ a \in Nat /\ c \in Nat /\ c - a \in Nat
      /\ \A i \in 1..(n + 1) : o[i] \in Int
  BY DEF IsOffsets
<1>2. PICK before : before = [i \in 1..(a + 1) |-> o[i]]
  OBVIOUS
<1>3. PICK lengths : lengths = [i \in 1..(c - a) |-> o[a + i + 1] - o[a + i]]
  OBVIOUS
<1>4. before \in Seq(Int) /\ Len(before) = a + 1
  <2>1. before \in [1..(a + 1) -> Int]
    BY <1>1, <1>2
  <2> QED
    BY <1>1, <2>1
<1>5. lengths \in Seq(Int) /\ Len(lengths) = c - a
  <2>1. ASSUME NEW i \in 1..(c - a) PROVE o[a + i + 1] - o[a + i] \in Int
    <3>1. a + i + 1 \in 1..(n + 1) /\ a + i \in 1..(n + 1)
      BY <1>1
    <3> QED
      BY <1>1, <3>1
  <2>2. lengths \in [1..(c - a) -> Int]
    BY <1>3, <2>1
  <2> QED
    BY <1>1, <2>2
<1>6. Last(before) = o[a + 1]
  BY <1>1, <1>2, <1>4 DEF Last
<1>7. ASSUME NEW i \in 1..(c - a)
      PROVE  Last(before) + SumAll(SubSeq(lengths, 1, i)) = o[a + 1 + i]
  <2>1. i \in 0..Len(lengths) /\ i \in Nat
    BY <1>1, <1>5
  <2>2. SubSeq(lengths, 1, i) = [j \in 1..i |-> lengths[j]]
    BY <1>5, <2>1, PrefixIsSubSeq
  <2>3. [j \in 1..i |-> lengths[j]] = [j \in 1..i |-> o[a + j + 1] - o[a + j]]
    BY <1>1, <1>3
  <2>4. \A j \in 1..(a + i + 1) : o[j] \in Int
    <3>1. \A j \in 1..(a + i + 1) : j \in 1..(n + 1)
      BY <1>1
    <3> QED
      BY <1>1, <3>1
  <2>5. SumAll([j \in 1..i |-> o[a + j + 1] - o[a + j]]) = o[a + i + 1] - o[a + 1]
    BY <1>1, <2>1, <2>4, SumOfDifferences
  <2>6. o[a + 1] \in Int /\ o[a + i + 1] \in Int /\ a + i + 1 = a + 1 + i
    <3>1. a + 1 \in 1..(a + i + 1) /\ a + i + 1 \in 1..(a + i + 1)
      BY <1>1, <2>1
    <3> QED
      BY <1>1, <2>1, <2>4, <3>1
  <2>7. SumAll(SubSeq(lengths, 1, i)) = o[a + i + 1] - o[a + 1]
    BY <2>2, <2>3, <2>5
  <2> QED
    BY <1>6, <2>6, <2>7
<1>8. PICK after : after = [i \in 1..(c - a) |-> o[a + 1 + i]]
  OBVIOUS
<1>9. after \in Seq(Int) /\ Len(after) = c - a
  <2>1. ASSUME NEW i \in 1..(c - a) PROVE o[a + 1 + i] \in Int
    <3>1. a + 1 + i \in 1..(n + 1)
      BY <1>1
    <3> QED
      BY <1>1, <3>1
  <2>2. after \in [1..(c - a) -> Int]
    BY <1>8, <2>1
  <2> QED
    BY <1>1, <2>2
<1>10. Appended(before, lengths) = before \o after
  <2>1. DOMAIN lengths = 1..(c - a)
    BY <1>3
  <2>2. [i \in DOMAIN lengths |-> Last(before) + SumAll(SubSeq(lengths, 1, i))] = after
    BY <1>7, <1>8, <2>1
  <2> QED
    BY <2>2 DEF Appended
<1>11. PICK u : u = before \o after
  OBVIOUS
<1>12. u \in Seq(Int) /\ Len(u) = c + 1
  <2>1. before \o after \in Seq(Int) /\ Len(before \o after) = Len(before) + Len(after)
    BY <1>4, <1>9, BothIsSeq, Zenon
  <2> QED
    BY <1>1, <1>4, <1>9, <1>11, <2>1
<1>13. ASSUME NEW i \in 1..(c + 1) PROVE u[i] = o[i]
  <2>1. CASE i <= a + 1
    <3>1. i \in 1..(a + 1)
      BY <1>1, <2>1
    <3>2. u[i] = before[i]
      BY <1>4, <1>9, <1>11, <3>1, BothByIndex
    <3> QED
      BY <1>2, <3>1, <3>2
  <2>2. CASE i > a + 1
    <3>1. PICK j \in 1..(c - a) : (a + 1) + j = i
      <4>1. i - (a + 1) \in 1..(c - a) /\ (a + 1) + (i - (a + 1)) = i
        BY <1>1, <2>2
      <4> QED
        BY <4>1
    <3>2. u[(a + 1) + j] = after[j]
      BY <1>4, <1>9, <1>11, BothByIndex
    <3> QED
      BY <1>8, <3>1, <3>2
  <2> QED
    BY <1>1, <2>1, <2>2
<1>14. u = [i \in 1..Len(u) |-> u[i]]
  BY <1>12, SeqIsFunction
<1>15. u = [i \in 1..(c + 1) |-> o[i]]
  BY <1>12, <1>13, <1>14
<1> QED
  BY <1>2, <1>3, <1>10, <1>11, <1>15

-----------------------------------------------------------------------------
(* Lists: those that are generated have the elements their offsets say *)

\* N has how many elements there are on each level, the leaves last.
IsList(list, D, N) ==
    /\ D \in Nat \ {0} /\ list = [offsets |-> list.offsets, leaf |-> list.leaf]
    /\ list.offsets = [l \in 1..D |-> list.offsets[l]]
    /\ \A l \in 1..D : IsOffsets(list.offsets[l], N[l], N[l + 1])
    /\ list.leaf \in Seq(Int) /\ Len(list.leaf) = N[D + 1]

\* As many lengths as n.
LEMMA LengthsAreSeq ==
    ASSUME NEW n \in Nat, NEW a, \A r \in 1..n : a[r] \in Nat
    PROVE  [r \in 1..n |-> a[r]] \in Seq(Nat) /\ Len([r \in 1..n |-> a[r]]) = n
<1>1. PICK u : u = [r \in 1..n |-> a[r]]
  OBVIOUS
<1>2. u \in [1..n -> Nat]
  BY <1>1
<1>3. u \in Seq(Nat) /\ Len(u) = n
  BY <1>2
<1> QED
  BY <1>1, <1>3

LEMMA NatsAreInts == Seq(Nat) \subseteq Seq(Int)
OBVIOUS

\* Lists of numbers (generate_nested_column of nested-transpose-cost).
LEMMA ListsFit ==
    ASSUME NEW n \in Nat, NEW max_len \in Nat \ {0}
    PROVE  \E N : N[1] = n /\ IsList(GenerateLists(n, max_len), 1, N)
<1>1. PICK a : a = [r \in 1..n |-> ((r - 1) % max_len) + 1]
  OBVIOUS
<1>2. \A r \in 1..n : a[r] \in Nat
  BY <1>1
<1>3. PICK ss : ss = [r \in 1..n |-> [i \in 1..a[r] |-> 2 * (r + i - 2)]]
  OBVIOUS
<1>4. ASSUME NEW r \in 1..n PROVE ss[r] \in Seq(Int) /\ Len(ss[r]) = a[r]
  <2>1. PICK u : u = [i \in 1..a[r] |-> 2 * (r + i - 2)]
    OBVIOUS
  <2>2. u \in [1..a[r] -> Int] /\ a[r] \in Nat
    BY <1>2, <2>1
  <2>3. u \in Seq(Int) /\ Len(u) = a[r]
    BY <2>2
  <2> QED
    BY <1>3, <2>1, <2>3
<1>5. PICK list : list = GenerateLists(n, max_len)
  OBVIOUS
<1>6. list = [offsets |-> <<OffsetsOf(a)>>, leaf |-> FlattenSeq(ss)]
  <2>1. [r \in 1..n |-> [i \in 1..(((r - 1) % max_len) + 1) |-> 2 * (r + i - 2)]] = ss
    BY <1>1, <1>3
  <2>2. list.offsets = <<OffsetsOf([r \in 1..n |-> ((r - 1) % max_len) + 1])>>
    BY <1>5 DEF GenerateLists
  <2>3. list.leaf = FlattenSeq([r \in 1..n |->
                       [i \in 1..(((r - 1) % max_len) + 1) |-> 2 * (r + i - 2)]])
    BY <1>5 DEF GenerateLists
  <2>4. list = [offsets |-> list.offsets, leaf |-> list.leaf]
    BY <1>5 DEF GenerateLists
  <2> QED
    BY <1>1, <2>1, <2>2, <2>3, <2>4
<1>7. a = [r \in 1..n |-> a[r]] /\ ss = [r \in 1..n |-> ss[r]]
  BY <1>1, <1>3
<1>8. a \in Seq(Nat) /\ Len(a) = n
  BY <1>2, <1>7, LengthsAreSeq
<1>9. IsOffsets(OffsetsOf(a), n, SumAll(a))
  BY <1>8, OffsetsOfAreOffsets
<1>10. FlattenSeq(ss) \in Seq(Int) /\ Len(FlattenSeq(ss)) = SumAll(a)
  <2>1. PICK S : S = Int
    OBVIOUS
  <2>2. \A i \in 1..n : ss[i] \in Seq(S)
    BY <1>4, <2>1
  <2>4. /\ FlattenSeq([i \in 1..n |-> ss[i]]) \in Seq(S)
        /\ Len(FlattenSeq([i \in 1..n |-> ss[i]])) = SumAll([i \in 1..n |-> Len(ss[i])])
    BY ONLY n \in Nat, <2>2, LenOfFlatten, ZenonT(60)
  <2>3. [i \in 1..n |-> Len(ss[i])] = a
    BY <1>4, <1>7
  <2> QED
    BY <1>7, <2>1, <2>3, <2>4
<1>11. PICK N : N = <<n, SumAll(a)>>
  OBVIOUS
<1>12. N[1] = n /\ N[1 + 1] = SumAll(a)
  BY <1>11
<1>13. list.offsets = [l \in 1..1 |-> list.offsets[l]] /\ list.offsets[1] = OffsetsOf(a)
  BY <1>6
<1>14. \A l \in 1..1 : IsOffsets(list.offsets[l], N[l], N[l + 1])
  BY <1>9, <1>12, <1>13
<1>15. IsList(list, 1, N)
  BY <1>6, <1>10, <1>12, <1>13, <1>14 DEF IsList
<1> QED
  BY <1>5, <1>12, <1>15

\* Two levels of sequences put together, as many as a says, and what they add up to.
AllIn(S, n, a, x) == \A r \in 1..n : a[r] \in Nat /\ \A w \in 1..a[r] : x[r][w] \in Seq(S)
TwoLevels(n, a, x) == FlattenSeq([r \in 1..n |-> FlattenSeq([w \in 1..a[r] |-> x[r][w]])])
AllOfThem(n, a, x) == SumAll([r \in 1..n |-> SumAll([w \in 1..a[r] |-> Len(x[r][w])])])
SumOfThem(n, a, x) == SumAll([r \in 1..n |-> SumAll([w \in 1..a[r] |-> SumAll(x[r][w])])])

\* What is put together of two levels, of as many sequences as a says.
LEMMA LenOfNested ==
    ASSUME NEW S, NEW n \in Nat, NEW a, NEW x,
           AllIn(S, n, a, x)
    PROVE  TwoLevels(n, a, x) \in Seq(S) /\ Len(TwoLevels(n, a, x)) = AllOfThem(n, a, x)
<1>1. PICK ss : ss = [r \in 1..n |-> FlattenSeq([w \in 1..a[r] |-> x[r][w]])]
  OBVIOUS
<1>2. ASSUME NEW r \in 1..n
      PROVE  ss[r] \in Seq(S) /\ Len(ss[r]) = SumAll([w \in 1..a[r] |-> Len(x[r][w])])
  <2>1. PICK y, m : y = x[r] /\ m = a[r]
    OBVIOUS
  <2>2. m \in Nat /\ \A i \in 1..m : y[i] \in Seq(S)
    BY <2>1 DEF AllIn
  <2>3. /\ FlattenSeq([i \in 1..m |-> y[i]]) \in Seq(S)
        /\ Len(FlattenSeq([i \in 1..m |-> y[i]])) = SumAll([i \in 1..m |-> Len(y[i])])
    BY <2>2, LenOfFlatten
  <2> QED
    BY <1>1, <2>1, <2>3
<1>3. /\ FlattenSeq([i \in 1..n |-> ss[i]]) \in Seq(S)
      /\ Len(FlattenSeq([i \in 1..n |-> ss[i]])) = SumAll([i \in 1..n |-> Len(ss[i])])
  <2>1. \A i \in 1..n : ss[i] \in Seq(S)
    BY <1>2
  <2> QED
    BY <2>1, LenOfFlatten
<1>4. [i \in 1..n |-> Len(ss[i])] = [r \in 1..n |-> SumAll([w \in 1..a[r] |-> Len(x[r][w])])]
  BY <1>2
<1>5. [i \in 1..n |-> ss[i]] = ss
  BY <1>1
<1> QED
  BY <1>1, <1>3, <1>4, <1>5 DEF TwoLevels, AllOfThem

\* And what they add up to.
LEMMA SumOfNested ==
    ASSUME NEW n \in Nat, NEW a, NEW x,
           AllIn(Int, n, a, x)
    PROVE  SumAll(TwoLevels(n, a, x)) = SumOfThem(n, a, x)
<1>1. PICK ss : ss = [r \in 1..n |-> FlattenSeq([w \in 1..a[r] |-> x[r][w]])]
  OBVIOUS
<1>2. ASSUME NEW r \in 1..n
      PROVE  ss[r] \in Seq(Int) /\ SumAll(ss[r]) = SumAll([w \in 1..a[r] |-> SumAll(x[r][w])])
  <2>1. PICK y, m : y = x[r] /\ m = a[r]
    OBVIOUS
  <2>2. m \in Nat /\ \A i \in 1..m : y[i] \in Seq(Int)
    BY <2>1 DEF AllIn
  <2>3. FlattenSeq([i \in 1..m |-> y[i]]) \in Seq(Int)
    BY <2>2, LenOfFlatten
  <2>4. SumAll(FlattenSeq([i \in 1..m |-> y[i]])) = SumAll([i \in 1..m |-> SumAll(y[i])])
    BY <2>2, SumOfFlatten
  <2> QED
    BY <1>1, <2>1, <2>3, <2>4
<1>3. SumAll(FlattenSeq([i \in 1..n |-> ss[i]])) = SumAll([i \in 1..n |-> SumAll(ss[i])])
  <2>1. \A i \in 1..n : ss[i] \in Seq(Int)
    BY <1>2
  <2> QED
    BY <2>1, SumOfFlatten
<1>4. [i \in 1..n |-> SumAll(ss[i])]
        = [r \in 1..n |-> SumAll([w \in 1..a[r] |-> SumAll(x[r][w])])]
  BY <1>2
<1>5. [i \in 1..n |-> ss[i]] = ss
  BY <1>1
<1> QED
  BY <1>1, <1>3, <1>4, <1>5 DEF TwoLevels, SumOfThem

\* As many ones as n add up to n.
LEMMA SumOfOnes ==
    ASSUME NEW n \in Nat, NEW s, \A i \in 1..n : s[i] = 1
    PROVE  SumAll([i \in 1..n |-> s[i]]) = n
<1> DEFINE P(k) == SumAll([i \in 1..k |-> s[i]])
           T == {k \in Nat : k <= n => P(k) = k}
<1>1. P(0) = 0 /\ \A k \in Nat : P(k + 1) = P(k) + s[k + 1]
  BY SumOfPrefix
<1> HIDE DEF P
<1>2. 0 \in T
  BY <1>1
<1>3. ASSUME NEW k \in Nat, k \in T PROVE k + 1 \in T
  <2> SUFFICES ASSUME k + 1 <= n PROVE P(k + 1) = k + 1
    OBVIOUS
  <2>1. P(k) = k /\ s[k + 1] = 1
    BY <1>3
  <2> QED
    BY <1>1, <2>1
<1> HIDE DEF T
<1>4. n \in T
  BY <1>2, <1>3, NatSetInduction
<1>5. P(n) = n
  BY <1>4 DEF T
<1> QED
  BY <1>5 DEF P

LEMMA SumOfOne ==
    ASSUME NEW v \in Int
    PROVE  SumAll(<<v>>) = v
<1>1. PICK s : s = <<v>>
  OBVIOUS
<1>2. s[1] = v /\ [i \in 1..1 |-> s[i]] = s
  BY <1>1
<1>3. SumAll([i \in 1..0 |-> s[i]]) = 0
  BY SumOfPrefix
<1>4. SumAll([i \in 1..(0 + 1) |-> s[i]]) = SumAll([i \in 1..0 |-> s[i]]) + s[0 + 1]
  BY SumOfPrefix
<1>5. 0 + 1 = 1 /\ 0 + v = v
  OBVIOUS
<1> QED
  BY <1>1, <1>2, <1>3, <1>4, <1>5

\* What the three levels of a list within lists are made of, row by row:
\* a has the wrappers, b the items, c the lengths, x the leaves.
Made(n, a, b, c, x) ==
    \A r \in 1..n : /\ a[r] \in Nat
                    /\ \A w \in 1..a[r] :
                         /\ b[r][w] \in Nat
                         /\ \A k \in 1..b[r][w] :
                              /\ c[r][w][k] \in Nat
                              /\ x[r][w][k] \in Seq(Int) /\ Len(x[r][w][k]) = c[r][w][k]

\* Per row and wrapper: b2 has the number of items, c2 their lengths, x2 their leaves.
Gathered(n, a, b, c, x, b2, c2, x2) ==
    \A r \in 1..n : \A w \in 1..a[r] :
        /\ b2[r][w] = <<b[r][w]>>
        /\ c2[r][w] = [k \in 1..b[r][w] |-> c[r][w][k]]
        /\ x2[r][w] = FlattenSeq([k \in 1..b[r][w] |-> x[r][w][k]])

\* The three levels: how many there are on each is what the level above adds up to.
LEMMA ThreeLevelsFit ==
    ASSUME NEW n \in Nat, NEW a, NEW b, NEW c, NEW x, Made(n, a, b, c, x),
           NEW b2, NEW c2, NEW x2, Gathered(n, a, b, c, x, b2, c2, x2),
           NEW l1, NEW l2, NEW l3, NEW leaf, l1 = a, a = [r \in 1..n |-> a[r]],
           l2 = TwoLevels(n, a, b2), l3 = TwoLevels(n, a, c2), leaf = TwoLevels(n, a, x2)
    PROVE  /\ l1 \in Seq(Nat) /\ Len(l1) = n
           /\ l2 \in Seq(Nat) /\ Len(l2) = SumAll(l1)
           /\ l3 \in Seq(Nat) /\ Len(l3) = SumAll(l2)
           /\ leaf \in Seq(Int) /\ Len(leaf) = SumAll(l3)
<1>1. \A r \in 1..n : a[r] \in Nat
  BY DEF Made
<1>2. \A r \in 1..n : \A w \in 1..a[r] : b[r][w] \in Nat
  BY DEF Made
<1>3. l1 \in Seq(Nat) /\ Len(l1) = n
  BY <1>1, LengthsAreSeq
<1>4. ASSUME NEW r \in 1..n, NEW w \in 1..a[r]
      PROVE  /\ b2[r][w] \in Seq(Nat) /\ Len(b2[r][w]) = 1 /\ SumAll(b2[r][w]) = b[r][w]
             /\ b2[r][w] \in Seq(Int)
  <2>1. PICK v \in Nat : v = b[r][w]
    BY <1>2
  <2>2. <<v>> \in Seq(Nat) /\ Len(<<v>>) = 1 /\ SumAll(<<v>>) = v /\ <<v>> \in Seq(Int)
    BY SumOfOne
  <2>3. b2[r][w] = <<v>>
    BY <2>1 DEF Gathered
  <2> QED
    BY <2>1, <2>2, <2>3
<1>5. ASSUME NEW r \in 1..n, NEW w \in 1..a[r]
      PROVE  /\ c2[r][w] \in Seq(Nat) /\ Len(c2[r][w]) = b[r][w] /\ c2[r][w] \in Seq(Int)
             /\ x2[r][w] \in Seq(Int) /\ Len(x2[r][w]) = SumAll(c2[r][w])
  <2>1. PICK m \in Nat : m = b[r][w]
    BY <1>2
  <2>0. m \in Nat
    OBVIOUS
  <2>2. PICK d, y : d = c[r][w] /\ y = x[r][w]
    OBVIOUS
  <2>3. \A k \in 1..m : d[k] \in Nat /\ y[k] \in Seq(Int) /\ Len(y[k]) = d[k]
    BY <2>1, <2>2 DEF Made
  <2>4. [k \in 1..m |-> d[k]] \in Seq(Nat) /\ Len([k \in 1..m |-> d[k]]) = m
    BY <2>3, LengthsAreSeq
  <2>5. PICK S : S = Int
    OBVIOUS
  <2>6. \A k \in 1..m : y[k] \in Seq(S)
    BY <2>3, <2>5
  <2>7. /\ FlattenSeq([k \in 1..m |-> y[k]]) \in Seq(S)
        /\ Len(FlattenSeq([k \in 1..m |-> y[k]])) = SumAll([k \in 1..m |-> Len(y[k])])
    BY ONLY <2>0, <2>6, LenOfFlatten
  <2>8. [k \in 1..m |-> Len(y[k])] = [k \in 1..m |-> d[k]]
    BY <2>3
  <2>9. c2[r][w] = [k \in 1..m |-> d[k]] /\ x2[r][w] = FlattenSeq([k \in 1..m |-> y[k]])
    <3>1. /\ c2[r][w] = [k \in 1..b[r][w] |-> c[r][w][k]]
          /\ x2[r][w] = FlattenSeq([k \in 1..b[r][w] |-> x[r][w][k]])
      BY DEF Gathered
    <3> QED
      BY <2>1, <2>2, <3>1
  <2> QED
    BY <2>1, <2>4, <2>5, <2>7, <2>8, <2>9, NatsAreInts
<1>6. PICK S : S = Nat
  OBVIOUS
<1>7. PICK I : I = Int
  OBVIOUS
<1>8. /\ AllIn(S, n, a, b2) /\ AllIn(S, n, a, c2) /\ AllIn(I, n, a, x2)
      /\ AllIn(Int, n, a, b2) /\ AllIn(Int, n, a, c2)
  BY <1>1, <1>4, <1>5, <1>6, <1>7 DEF AllIn
<1>9. l2 \in Seq(S) /\ Len(l2) = AllOfThem(n, a, b2)
  BY <1>8, LenOfNested
<1>10. l3 \in Seq(S) /\ Len(l3) = AllOfThem(n, a, c2)
  BY <1>8, LenOfNested
<1>12. SumAll(l2) = SumOfThem(n, a, b2)
  BY <1>8, SumOfNested, Zenon
<1>13. SumAll(l3) = SumOfThem(n, a, c2)
  BY <1>8, SumOfNested, Zenon
<1>11. leaf \in Seq(I) /\ Len(leaf) = AllOfThem(n, a, x2)
  BY <1>8, LenOfNested
<1>14. AllOfThem(n, a, b2) = SumAll(l1)
  <2>1. ASSUME NEW r \in 1..n PROVE SumAll([w \in 1..a[r] |-> Len(b2[r][w])]) = a[r]
    <3>1. PICK m \in Nat : m = a[r]
      BY <1>1
    <3>2. PICK ones : ones = [w \in 1..m |-> Len(b2[r][w])]
      OBVIOUS
    <3>3. \A w \in 1..m : ones[w] = 1
      BY <1>4, <3>1, <3>2
    <3>4. SumAll([w \in 1..m |-> ones[w]]) = m
      BY <3>3, SumOfOnes
    <3>5. [w \in 1..m |-> ones[w]] = ones
      BY <3>2
    <3> QED
      BY <3>1, <3>2, <3>4, <3>5
  <2>2. [r \in 1..n |-> SumAll([w \in 1..a[r] |-> Len(b2[r][w])])] = l1
    BY <2>1
  <2> QED
    BY <2>2 DEF AllOfThem
<1>15. AllOfThem(n, a, c2) = SumOfThem(n, a, b2)
  <2>1. ASSUME NEW r \in 1..n
        PROVE [w \in 1..a[r] |-> Len(c2[r][w])] = [w \in 1..a[r] |-> SumAll(b2[r][w])]
    BY <1>4, <1>5
  <2>2. [r \in 1..n |-> SumAll([w \in 1..a[r] |-> Len(c2[r][w])])]
          = [r \in 1..n |-> SumAll([w \in 1..a[r] |-> SumAll(b2[r][w])])]
    BY <2>1
  <2> QED
    BY <2>2 DEF AllOfThem, SumOfThem
<1>16. AllOfThem(n, a, x2) = SumOfThem(n, a, c2)
  <2>1. ASSUME NEW r \in 1..n
        PROVE [w \in 1..a[r] |-> Len(x2[r][w])] = [w \in 1..a[r] |-> SumAll(c2[r][w])]
    BY <1>5
  <2>2. [r \in 1..n |-> SumAll([w \in 1..a[r] |-> Len(x2[r][w])])]
          = [r \in 1..n |-> SumAll([w \in 1..a[r] |-> SumAll(c2[r][w])])]
    BY <2>1
  <2> QED
    BY <2>2 DEF AllOfThem, SumOfThem
<1>17. l2 \in Seq(Nat) /\ l3 \in Seq(Nat) /\ leaf \in Seq(Int)
  BY <1>6, <1>7, <1>9, <1>10, <1>11
<1>18. Len(l2) = SumAll(l1) /\ Len(l3) = SumAll(l2) /\ Len(leaf) = SumAll(l3)
  BY <1>9, <1>10, <1>11, <1>12, <1>13, <1>14, <1>15, <1>16
<1> QED
  BY <1>3, <1>17, <1>18

\* Wrappers of items of numbers (generate_nested_column of
\* heavily-nested-transpose-cost).
LEMMA WrappersFit ==
    ASSUME NEW n \in Nat, NEW max \in Seq(Nat \ {0}), Len(max) = 3
    PROVE  \E N : N[1] = n /\ IsList(GenerateWrappers(n, max), 3, N)
<1>1. max[1] \in Nat \ {0} /\ max[2] \in Nat \ {0} /\ max[3] \in Nat \ {0}
  OBVIOUS
<1>2. PICK list : list = GenerateWrappers(n, max)
  OBVIOUS
<1>3. PICK a : a = [r \in 1..n |-> ((r - 1) % max[1]) + 1]
  OBVIOUS
<1>4. PICK b : b = [r \in 1..n |-> [w \in 1..a[r] |-> (((r - 1) + (w - 1)) % max[2]) + 1]]
  OBVIOUS
<1>5. PICK c : c = [r \in 1..n |-> [w \in 1..a[r] |-> [k \in 1..b[r][w] |->
                       (((r - 1) + (w - 1) + (k - 1)) % max[3]) + 1]]]
  OBVIOUS
<1>6. PICK x : x = [r \in 1..n |-> [w \in 1..a[r] |-> [k \in 1..b[r][w] |->
                       [i \in 1..c[r][w][k] |-> 2 * ((r - 1) + (w - 1) + k + i - 2)]]]]
  OBVIOUS
<1>7. PICK b2 : b2 = [r \in 1..n |-> [w \in 1..a[r] |-> <<b[r][w]>>]]
  OBVIOUS
<1>8. PICK x2 : x2 = [r \in 1..n |-> [w \in 1..a[r] |-> FlattenSeq([k \in 1..b[r][w] |-> x[r][w][k]])]]
  OBVIOUS
<1>9. \A r \in 1..n : a[r] = ((r - 1) % max[1]) + 1
  BY <1>3
<1>10. \A r \in 1..n : \A w \in 1..a[r] :
         /\ b[r][w] = (((r - 1) + (w - 1)) % max[2]) + 1
         /\ b2[r][w] = <<(((r - 1) + (w - 1)) % max[2]) + 1>>
  BY <1>4, <1>7
<1>11. ASSUME NEW r \in 1..n, NEW w \in 1..a[r]
       PROVE  /\ c[r][w] = [k \in 1..((((r - 1) + (w - 1)) % max[2]) + 1) |->
                              (((r - 1) + (w - 1) + (k - 1)) % max[3]) + 1]
              /\ c[r][w] = [k \in 1..b[r][w] |-> c[r][w][k]]
  BY <1>5, <1>10
<1>12. ASSUME NEW r \in 1..n, NEW w \in 1..a[r]
       PROVE  [k \in 1..b[r][w] |-> x[r][w][k]]
                = [k \in 1..((((r - 1) + (w - 1)) % max[2]) + 1) |->
                     [i \in 1..((((r - 1) + (w - 1) + (k - 1)) % max[3]) + 1) |->
                        2 * ((r - 1) + (w - 1) + k + i - 2)]]
  <2>1. ASSUME NEW k \in 1..b[r][w]
        PROVE  x[r][w][k] = [i \in 1..((((r - 1) + (w - 1) + (k - 1)) % max[3]) + 1) |->
                                2 * ((r - 1) + (w - 1) + k + i - 2)]
    <3>1. c[r][w][k] = (((r - 1) + (w - 1) + (k - 1)) % max[3]) + 1
      BY <1>5
    <3>2. x[r][w][k] = [i \in 1..c[r][w][k] |-> 2 * ((r - 1) + (w - 1) + k + i - 2)]
      BY <1>6
    <3> QED
      BY <3>1, <3>2
  <2>2. b[r][w] = (((r - 1) + (w - 1)) % max[2]) + 1
    BY <1>10
  <2> QED
    BY <2>1, <2>2
<1>13. ASSUME NEW r \in 1..n
       PROVE  /\ a[r] \in Nat
              /\ \A w \in 1..a[r] :
                   /\ b[r][w] \in Nat
                   /\ \A k \in 1..b[r][w] :
                        /\ c[r][w][k] \in Nat
                        /\ x[r][w][k] \in Seq(Int) /\ Len(x[r][w][k]) = c[r][w][k]
  <2>1. a[r] \in Nat
    <3>1. r - 1 \in Int /\ max[1] \in Nat \ {0}
      BY <1>1
    <3>2. (r - 1) % max[1] \in Nat
      BY <3>1
    <3> QED
      BY <1>9, <3>2
  <2>2. ASSUME NEW w \in 1..a[r]
        PROVE  /\ b[r][w] \in Nat
               /\ \A k \in 1..b[r][w] :
                        /\ c[r][w][k] \in Nat
                        /\ x[r][w][k] \in Seq(Int) /\ Len(x[r][w][k]) = c[r][w][k]
    <3>1. w \in Nat /\ r \in Nat
      BY <2>1
    <3>2. b[r][w] \in Nat
      <4>1. ((r - 1) + (w - 1)) % max[2] \in Nat
        BY <1>1, <3>1
      <4> QED
        BY <1>10, <4>1
    <3>3. ASSUME NEW k \in 1..b[r][w]
          PROVE  /\ c[r][w][k] \in Nat
                 /\ x[r][w][k] \in Seq(Int) /\ Len(x[r][w][k]) = c[r][w][k]
      <4>1. c[r][w][k] = (((r - 1) + (w - 1) + (k - 1)) % max[3]) + 1
        BY <1>5
      <4>2. k \in Nat
        BY <3>2
      <4>3. ((r - 1) + (w - 1) + (k - 1)) % max[3] \in Nat
        BY <1>1, <3>1, <4>2
      <4>4. PICK m \in Nat : m = c[r][w][k]
        BY <4>1, <4>3
      <4>5. PICK u : u = [i \in 1..m |-> 2 * ((r - 1) + (w - 1) + k + i - 2)]
        OBVIOUS
      <4>6. u \in [1..m -> Int]
        BY <3>1, <4>2, <4>5
      <4>7. u \in Seq(Int) /\ Len(u) = m
        BY <4>6
      <4>8. x[r][w][k] = u
        BY <1>6, <4>4, <4>5
      <4> QED
        BY <4>4, <4>7, <4>8
    <3> QED
      BY <3>2, <3>3
  <2> QED
    BY <2>1, <2>2
<1>14. Made(n, a, b, c, x)
  BY <1>13 DEF Made
<1>15. PICK l1 : l1 = a
  OBVIOUS
<1>16. PICK l2 : l2 = TwoLevels(n, a, b2)
  OBVIOUS
<1>17. PICK l3 : l3 = TwoLevels(n, a, c)
  OBVIOUS
<1>18. PICK leaf : leaf = TwoLevels(n, a, x2)
  OBVIOUS
<1>19. /\ l1 \in Seq(Nat) /\ Len(l1) = n
       /\ l2 \in Seq(Nat) /\ Len(l2) = SumAll(l1)
       /\ l3 \in Seq(Nat) /\ Len(l3) = SumAll(l2)
       /\ leaf \in Seq(Int) /\ Len(leaf) = SumAll(l3)
  <2>1. Gathered(n, a, b, c, x, b2, c, x2)
    BY <1>7, <1>8, <1>11 DEF Gathered
  <2>2. a = [r \in 1..n |-> a[r]]
    BY <1>3
  <2> QED
    BY <1>14, <1>15, <1>16, <1>17, <1>18, <2>1, <2>2, ThreeLevelsFit
<1>20. list.offsets[1] = OffsetsOf(l1)
  <2>1. [r \in 1..n |-> ((r - 1) % max[1]) + 1] = l1
    BY <1>3, <1>15
  <2>2. list.offsets[1] = OffsetsOf([r \in 1..n |-> ((r - 1) % max[1]) + 1])
    BY <1>2 DEF GenerateWrappers
  <2> QED
    BY <2>1, <2>2
<1>21. list.offsets[2] = OffsetsOf(l2)
  <2>1. ASSUME NEW r \in 1..n
        PROVE  FlattenSeq([w \in 1..(((r - 1) % max[1]) + 1) |->
                  <<(((r - 1) + (w - 1)) % max[2]) + 1>>]) = FlattenSeq([w \in 1..a[r] |-> b2[r][w]])
    <3>1. [w \in 1..(((r - 1) % max[1]) + 1) |-> <<(((r - 1) + (w - 1)) % max[2]) + 1>>]
            = [w \in 1..a[r] |-> b2[r][w]]
      BY <1>9, <1>10
    <3> QED
      BY <3>1
  <2>2. [r \in 1..n |-> FlattenSeq([w \in 1..(((r - 1) % max[1]) + 1) |->
                           <<(((r - 1) + (w - 1)) % max[2]) + 1>>])]
          = [r \in 1..n |-> FlattenSeq([w \in 1..a[r] |-> b2[r][w]])]
    BY <2>1
  <2>3. list.offsets[2] = OffsetsOf(FlattenSeq([r \in 1..n |->
                FlattenSeq([w \in 1..(((r - 1) % max[1]) + 1) |->
                  <<(((r - 1) + (w - 1)) % max[2]) + 1>>])]))
    BY <1>2 DEF GenerateWrappers
  <2> QED
    BY <1>16, <2>2, <2>3 DEF TwoLevels
<1>22. list.offsets[3] = OffsetsOf(l3)
  <2>1. ASSUME NEW r \in 1..n
        PROVE  FlattenSeq([w \in 1..(((r - 1) % max[1]) + 1) |->
                  [k \in 1..((((r - 1) + (w - 1)) % max[2]) + 1) |->
                     (((r - 1) + (w - 1) + (k - 1)) % max[3]) + 1]])
                 = FlattenSeq([w \in 1..a[r] |-> c[r][w]])
    <3>1. [w \in 1..(((r - 1) % max[1]) + 1) |->
                  [k \in 1..((((r - 1) + (w - 1)) % max[2]) + 1) |->
                     (((r - 1) + (w - 1) + (k - 1)) % max[3]) + 1]]
            = [w \in 1..a[r] |-> c[r][w]]
      BY <1>9, <1>11
    <3> QED
      BY <3>1
  <2>2. [r \in 1..n |-> FlattenSeq([w \in 1..(((r - 1) % max[1]) + 1) |->
                  [k \in 1..((((r - 1) + (w - 1)) % max[2]) + 1) |->
                     (((r - 1) + (w - 1) + (k - 1)) % max[3]) + 1]])]
          = [r \in 1..n |-> FlattenSeq([w \in 1..a[r] |-> c[r][w]])]
    BY <2>1
  <2>3. list.offsets[3] = OffsetsOf(FlattenSeq([r \in 1..n |->
                FlattenSeq([w \in 1..(((r - 1) % max[1]) + 1) |->
                  [k \in 1..((((r - 1) + (w - 1)) % max[2]) + 1) |->
                     (((r - 1) + (w - 1) + (k - 1)) % max[3]) + 1]])]))
    BY <1>2 DEF GenerateWrappers
  <2> QED
    BY <1>17, <2>2, <2>3 DEF TwoLevels
<1>23. list.leaf = leaf
  <2>1. ASSUME NEW r \in 1..n
        PROVE  FlattenSeq([w \in 1..(((r - 1) % max[1]) + 1) |->
                  FlattenSeq([k \in 1..((((r - 1) + (w - 1)) % max[2]) + 1) |->
                     [i \in 1..((((r - 1) + (w - 1) + (k - 1)) % max[3]) + 1) |->
                        2 * ((r - 1) + (w - 1) + k + i - 2)]])])
                 = FlattenSeq([w \in 1..a[r] |-> x2[r][w]])
    <3>1. ASSUME NEW w \in 1..a[r]
          PROVE  FlattenSeq([k \in 1..((((r - 1) + (w - 1)) % max[2]) + 1) |->
                     [i \in 1..((((r - 1) + (w - 1) + (k - 1)) % max[3]) + 1) |->
                        2 * ((r - 1) + (w - 1) + k + i - 2)]]) = x2[r][w]
      BY <1>8, <1>12
    <3>2. [w \in 1..(((r - 1) % max[1]) + 1) |->
                  FlattenSeq([k \in 1..((((r - 1) + (w - 1)) % max[2]) + 1) |->
                     [i \in 1..((((r - 1) + (w - 1) + (k - 1)) % max[3]) + 1) |->
                        2 * ((r - 1) + (w - 1) + k + i - 2)]])]
            = [w \in 1..a[r] |-> x2[r][w]]
      BY <1>9, <3>1
    <3> QED
      BY <3>2
  <2>2. [r \in 1..n |-> FlattenSeq([w \in 1..(((r - 1) % max[1]) + 1) |->
                  FlattenSeq([k \in 1..((((r - 1) + (w - 1)) % max[2]) + 1) |->
                     [i \in 1..((((r - 1) + (w - 1) + (k - 1)) % max[3]) + 1) |->
                        2 * ((r - 1) + (w - 1) + k + i - 2)]])])]
          = [r \in 1..n |-> FlattenSeq([w \in 1..a[r] |-> x2[r][w]])]
    BY <2>1
  <2>3. list.leaf = FlattenSeq([r \in 1..n |->
                FlattenSeq([w \in 1..(((r - 1) % max[1]) + 1) |->
                  FlattenSeq([k \in 1..((((r - 1) + (w - 1)) % max[2]) + 1) |->
                     [i \in 1..((((r - 1) + (w - 1) + (k - 1)) % max[3]) + 1) |->
                        2 * ((r - 1) + (w - 1) + k + i - 2)]])])])
    BY <1>2 DEF GenerateWrappers
  <2> QED
    BY <1>18, <2>2, <2>3 DEF TwoLevels
<1>24. PICK N : N = <<n, SumAll(l1), SumAll(l2), SumAll(l3)>>
  OBVIOUS
<1>25. N[1] = n /\ N[2] = SumAll(l1) /\ N[3] = SumAll(l2) /\ N[4] = SumAll(l3)
  BY <1>24
<1>26. /\ IsOffsets(list.offsets[1], N[1], N[2])
       /\ IsOffsets(list.offsets[2], N[2], N[3])
       /\ IsOffsets(list.offsets[3], N[3], N[4])
  BY <1>19, <1>20, <1>21, <1>22, <1>25, OffsetsOfAreOffsets
<1>27. \A l \in 1..3 : IsOffsets(list.offsets[l], N[l], N[l + 1])
  BY <1>26
<1>28. /\ list = [offsets |-> list.offsets, leaf |-> list.leaf]
       /\ list.offsets = [l \in 1..3 |-> list.offsets[l]]
  <2>1. list = [offsets |-> list.offsets, leaf |-> list.leaf]
    BY <1>2 DEF GenerateWrappers
  <2>2. list.offsets = [l \in 1..3 |-> list.offsets[l]]
    BY <1>2 DEF GenerateWrappers
  <2> QED
    BY <2>1, <2>2
<1>29. list.leaf \in Seq(Int) /\ Len(list.leaf) = N[3 + 1]
  BY <1>19, <1>23, <1>25
<1>30. IsList(list, 3, N)
  BY <1>27, <1>28, <1>29 DEF IsList
<1> QED
  BY <1>2, <1>25, <1>30

\* How long a tuple that is given by its elements is.
LEMMA LenOfTuple ==
    ASSUME NEW n \in Nat, NEW x, x = [i \in 1..n |-> x[i]]
    PROVE  Len(x) = n /\ DOMAIN x = 1..n
<1>1. x \in [1..n -> {x[i] : i \in 1..n}]
  OBVIOUS
<1> QED
  BY <1>1

\* What is under row i on each level, from the level above.
Windows(list, D, i, u) ==
    /\ u[1] = <<i, i + 1>>
    /\ \A l \in 1..D : u[l + 1] = <<list.offsets[l][u[l][1] + 1], list.offsets[l][u[l][2] + 1]>>

LEMMA UnderUnfolds ==
    ASSUME NEW D \in {1, 3}, NEW list, list.offsets = [l \in 1..D |-> list.offsets[l]], NEW i,
           NEW u, u = Under(list, i)
    PROVE  Windows(list, D, i, u)
<1> DEFINE W(f) == [l \in 1..(D + 1) |->
                      IF l = 1 THEN <<i, i + 1>>
                      ELSE <<list.offsets[l - 1][f[l - 1][1] + 1],
                             list.offsets[l - 1][f[l - 1][2] + 1]>>]
<1>1. Len(list.offsets) = D
  BY LenOfTuple, SMTT(30)
<1>2. Under(list, i) = CHOOSE f : f = W(f)
  BY <1>1 DEF Under
<1>3. PICK f1 : f1 = [l \in 1..(D + 1) |-> <<i, i + 1>>]
  OBVIOUS
<1>4. PICK f2 : f2 = W(f1)
  OBVIOUS
<1>5. PICK f3 : f3 = W(f2)
  OBVIOUS
<1>6. PICK f4 : f4 = W(f3)
  OBVIOUS
<1>7. f4 = W(f4)
  <2>0. 1 \in 1..(D + 1)
    OBVIOUS
  <2>1. f1[1] = <<i, i + 1>> /\ f2[1] = f1[1] /\ f3[1] = f1[1] /\ f4[1] = f1[1]
    <3>1. f1[1] = <<i, i + 1>>
      BY <1>3, <2>0
    <3>2. f2[1] = <<i, i + 1>>
      BY <1>4, <2>0
    <3>3. f3[1] = <<i, i + 1>>
      BY <1>5, <2>0, Zenon
    <3>4. f4[1] = <<i, i + 1>>
      BY <1>6, <2>0
    <3> QED
      BY <3>1, <3>2, <3>3, <3>4
  <2>2. CASE D = 1
    <3>1. \A l \in 1..(D + 1) : l # 1 => l - 1 = 1
      BY <2>2
    <3>2. \A l \in 1..(D + 1) : l # 1 => f3[l - 1] = f4[l - 1]
      BY <2>1, <3>1
    <3>3. W(f3) = W(f4)
      BY <3>2
    <3> QED
      BY <1>6, <3>3
  <2>3. CASE D = 3
    <3>1. f2[2] = <<list.offsets[1][f1[1][1] + 1], list.offsets[1][f1[1][2] + 1]>>
      BY <1>4, <2>3
    <3>2. f3[2] = <<list.offsets[1][f2[1][1] + 1], list.offsets[1][f2[1][2] + 1]>>
      BY <1>5, <2>3
    <3>3. f4[2] = <<list.offsets[1][f3[1][1] + 1], list.offsets[1][f3[1][2] + 1]>>
      BY <1>6, <2>3
    <3>4. f2[2] = f3[2] /\ f3[2] = f4[2]
      BY <2>1, <3>1, <3>2, <3>3
    <3>5. f3[3] = <<list.offsets[2][f2[2][1] + 1], list.offsets[2][f2[2][2] + 1]>>
      BY <1>5, <2>3
    <3>6. f4[3] = <<list.offsets[2][f3[2][1] + 1], list.offsets[2][f3[2][2] + 1]>>
      BY <1>6, <2>3
    <3>7. f3[3] = f4[3]
      BY <3>4, <3>5, <3>6
    <3>8. \A l \in 1..(D + 1) : l # 1 => l - 1 \in {1, 2, 3}
      BY <2>3
    <3>9. \A l \in 1..(D + 1) : l # 1 => f3[l - 1] = f4[l - 1]
      BY <2>1, <3>4, <3>7, <3>8
    <3>10. W(f3) = W(f4)
      BY <3>9
    <3> QED
      BY <1>6, <3>10
  <2> QED
    BY <2>2, <2>3
<1>9. u = W(u)
  <2> HIDE DEF W
  <2> QED
    BY <1>2, <1>7
<1>10. u[1] = <<i, i + 1>>
  <2>1. 1 \in 1..(D + 1)
    OBVIOUS
  <2> QED
    BY <1>9, <2>1, SMTT(30)
<1>11. ASSUME NEW l \in 1..D
       PROVE  u[l + 1] = <<list.offsets[l][u[l][1] + 1], list.offsets[l][u[l][2] + 1]>>
  <2>1. l + 1 \in 1..(D + 1) /\ l + 1 # 1 /\ (l + 1) - 1 = l
    OBVIOUS
  <2> QED
    BY <1>9, <2>1
<1> QED
  BY <1>10, <1>11 DEF Windows

\* What is transformed piece by piece is transformed.
LEMMA TransformedExtends ==
    ASSUME NEW s \in Seq(Int), NEW a \in 0..Len(s), NEW c \in 0..Len(s), a <= c
    PROVE  Transformed(SubSeq(s, 1, a)) \o Transformed(SubSeq(s, a + 1, c))
              = Transformed(SubSeq(s, 1, c))
<1>1. PICK x : x = SubSeq(s, 1, a)
  OBVIOUS
<1>2. PICK y : y = SubSeq(s, a + 1, c)
  OBVIOUS
<1>3. PICK z : z = SubSeq(s, 1, c)
  OBVIOUS
<1>4. /\ a \in Nat /\ c \in Nat
      /\ x \in Seq(Int) /\ Len(x) = a /\ \A i \in 1..a : x[i] = s[i]
      /\ y \in Seq(Int) /\ Len(y) = c - a /\ \A i \in 1..(c - a) : y[i] = s[a + i]
      /\ z \in Seq(Int) /\ Len(z) = c /\ \A i \in 1..c : z[i] = s[i]
  <2>1. Len(s) \in Nat /\ a \in Nat /\ c \in Nat
    OBVIOUS
  <2>2. x \in Seq(Int) /\ Len(x) = a /\ \A i \in 1..a : x[i] = s[i]
    BY <1>1, <2>1
  <2>3. y \in Seq(Int) /\ Len(y) = c - a
    BY <1>2, <2>1
  <2>4. \A i \in 1..(c - a) : y[i] = s[a + i]
    BY <1>2, <2>1, <2>3
  <2>5. z \in Seq(Int) /\ Len(z) = c /\ \A i \in 1..c : z[i] = s[i]
    BY <1>3, <2>1
  <2> QED
    BY <2>1, <2>2, <2>3, <2>4, <2>5
<1>5. PICK X : X = Transformed(x)
  OBVIOUS
<1>6. PICK Y : Y = Transformed(y)
  OBVIOUS
<1>7. PICK Z : Z = Transformed(z)
  OBVIOUS
<1>8. X \in Seq(Int) /\ Len(X) = a /\ \A i \in 1..a : X[i] = s[i] + 2
  <2>1. X = [i \in 1..a |-> x[i] + 2] /\ \A i \in 1..a : x[i] \in Int
    BY <1>4, <1>5 DEF Transformed
  <2>2. X \in [1..a -> Int] /\ a \in Nat
    BY <1>4, <2>1
  <2>3. X \in Seq(Int) /\ Len(X) = a
    BY <2>2
  <2>4. \A i \in 1..a : X[i] = s[i] + 2
    BY <1>4, <2>1
  <2> QED
    BY <2>3, <2>4
<1>9. Y \in Seq(Int) /\ Len(Y) = c - a /\ \A i \in 1..(c - a) : Y[i] = s[a + i] + 2
  <2>0. PICK m \in Nat : m = c - a
    <3>1. c - a \in Nat
      BY <1>4
    <3> QED
      BY <3>1
  <2>1. Y = [i \in 1..m |-> y[i] + 2] /\ \A i \in 1..m : y[i] \in Int
    BY <1>4, <1>6, <2>0 DEF Transformed
  <2>2. Y \in [1..m -> Int]
    BY <2>1
  <2>3. Y \in Seq(Int) /\ Len(Y) = m
    BY <2>2
  <2>4. \A i \in 1..m : Y[i] = s[a + i] + 2
    BY <1>4, <2>0, <2>1
  <2> QED
    BY <2>0, <2>3, <2>4
<1>10. Z = [i \in 1..c |-> s[i] + 2]
  BY <1>4, <1>7 DEF Transformed
<1>11. PICK u : u = X \o Y
  OBVIOUS
<1>12. u \in Seq(Int) /\ Len(u) = c
  <2>1. X \o Y \in Seq(Int) /\ Len(X \o Y) = Len(X) + Len(Y)
    BY <1>8, <1>9, BothIsSeq, Zenon
  <2> QED
    BY <1>4, <1>8, <1>9, <1>11, <2>1
<1>13. ASSUME NEW i \in 1..c PROVE u[i] = s[i] + 2
  <2>1. CASE i <= a
    <3>1. i \in 1..a
      BY <1>4, <2>1
    <3>2. u[i] = X[i]
      BY <1>8, <1>9, <1>11, <3>1, BothByIndex
    <3> QED
      BY <1>8, <3>1, <3>2
  <2>2. CASE i > a
    <3>1. PICK j \in 1..(c - a) : a + j = i
      <4>1. i - a \in 1..(c - a) /\ a + (i - a) = i
        BY <1>4, <2>2
      <4> QED
        BY <4>1
    <3>2. u[a + j] = Y[j]
      <4>1. j \in 1..Len(Y)
        BY <1>9
      <4>2. PICK S : X \in Seq(S) /\ Y \in Seq(S)
        BY <1>8, <1>9
      <4>3. \A k \in 1..Len(Y) : (X \o Y)[Len(X) + k] = Y[k]
        BY ONLY <4>2, BothByIndex, SMTT(30)
      <4> QED
        BY <1>8, <1>11, <4>1, <4>3
    <3> QED
      BY <1>9, <3>1, <3>2
  <2> QED
    BY <1>4, <2>1, <2>2
<1>14. u = [i \in 1..Len(u) |-> u[i]]
  BY <1>12, SeqIsFunction
<1>15. u = [i \in 1..c |-> s[i] + 2]
  BY <1>12, <1>13, <1>14
<1> QED
  BY <1>1, <1>2, <1>3, <1>5, <1>6, <1>7, <1>10, <1>11, <1>15

\* b has how many elements of each level are built: those under the first rows.
Reached(list, D, N, b) ==
    /\ \A l \in 1..(D + 1) : b[l] \in 0..N[l]
    /\ \A l \in 1..D : b[l + 1] = list.offsets[l][b[l] + 1]

Built(list, D, b) ==
    [offsets |-> [l \in 1..D |-> [i \in 1..(b[l] + 1) |-> list.offsets[l][i]]],
     leaf |-> Transformed(SubSeq(list.leaf, 1, b[D + 1]))]

\* u has the window of each level, from b on.
WindowsFrom(D, b, c, u) == \A l \in 1..(D + 1) : u[l] = <<b[l], c[l]>> /\ b[l] <= c[l]

\* What the builders make of the row whose windows u has.
WithRow(list, D, built, u) ==
    [offsets |-> [l \in 1..D |-> Appended(built.offsets[l],
                    [i \in 1..(u[l][2] - u[l][1]) |->
                        list.offsets[l][u[l][1] + i + 1] - list.offsets[l][u[l][1] + i]])],
     leaf |-> built.leaf \o Transformed(SubSeq(list.leaf, u[D + 1][1] + 1, u[D + 1][2]))]

\* The windows of the next row begin where what is built ends.
LEMMA RowIsReached ==
    ASSUME NEW D \in {1, 3}, NEW list, NEW N, NEW b, IsList(list, D, N), Reached(list, D, N, b),
           b[1] < N[1], NEW u, u = Under(list, b[1])
    PROVE  \E c : Reached(list, D, N, c) /\ c[1] = b[1] + 1 /\ WindowsFrom(D, b, c, u)
<1>1. D \in Nat \ {0} /\ 1 \in 1..(D + 1)
  OBVIOUS
<1>2. /\ u[1] = <<b[1], b[1] + 1>>
      /\ \A l \in 1..D : u[l + 1] = <<list.offsets[l][u[l][1] + 1],
                                      list.offsets[l][u[l][2] + 1]>>
  <2>1. list.offsets = [l \in 1..D |-> list.offsets[l]]
    BY DEF IsList
  <2>2. Windows(list, D, b[1], u)
    BY <2>1, UnderUnfolds
  <2> QED
    BY <2>2 DEF Windows
<1>3. PICK c : c = [l \in 1..(D + 1) |-> u[l][2]]
  OBVIOUS
<1>4. \A l \in 1..(D + 1) : c[l] = u[l][2]
  BY <1>3
<1>5. /\ \A l \in 1..(D + 1) : b[l] \in 0..N[l]
      /\ \A l \in 1..D : b[l + 1] = list.offsets[l][b[l] + 1]
  BY DEF Reached
<1>6. \A l \in 1..D : IsOffsets(list.offsets[l], N[l], N[l + 1])
  BY DEF IsList
<1> DEFINE T == {l \in Nat : l + 1 \in 1..(D + 1) =>
                    /\ u[l + 1] = <<b[l + 1], c[l + 1]>>
                    /\ c[l + 1] \in 0..N[l + 1] /\ b[l + 1] <= c[l + 1]}
<1>7. 0 \in T
  <2>1. N[1] \in Nat
    <3>1. 1 \in 1..D
      BY <1>1
    <3> QED
      BY <1>6, <3>1 DEF IsOffsets
  <2>2. b[1] \in 0..N[1] /\ c[1] = b[1] + 1
    BY <1>1, <1>2, <1>4, <1>5
  <2>3. b[1] + 1 \in 0..N[1] /\ b[1] <= b[1] + 1
    BY <2>1, <2>2
  <2> QED
    BY <1>2, <2>2, <2>3
<1>8. ASSUME NEW k \in Nat, k \in T PROVE k + 1 \in T
  <2>1. PICK l : l = k + 1
    OBVIOUS
  <2> SUFFICES ASSUME l + 1 \in 1..(D + 1)
               PROVE  /\ u[l + 1] = <<b[l + 1], c[l + 1]>>
                      /\ c[l + 1] \in 0..N[l + 1] /\ b[l + 1] <= c[l + 1]
    BY <2>1
  <2>2. l \in 1..D /\ l \in 1..(D + 1)
    BY <1>1, <2>1
  <2>3. u[l] = <<b[l], c[l]>> /\ c[l] \in 0..N[l] /\ b[l] <= c[l]
    BY <1>8, <2>1, <2>2
  <2>4. PICK o, n, m : o = list.offsets[l] /\ n = N[l] /\ m = N[l + 1]
    OBVIOUS
  <2>5. IsOffsets(o, n, m)
    BY <1>6, <2>2, <2>4
  <2>6. u[l + 1] = <<o[b[l] + 1], o[c[l] + 1]>>
    BY <1>2, <2>2, <2>3, <2>4
  <2>7. c[l + 1] = o[c[l] + 1] /\ b[l + 1] = o[b[l] + 1]
    BY <1>4, <1>5, <2>2, <2>4, <2>6
  <2>8. b[l] + 1 \in 1..(n + 1) /\ c[l] + 1 \in 1..(n + 1) /\ b[l] + 1 <= c[l] + 1
    <3>1. n \in Nat /\ b[l] \in 0..n
      BY <1>5, <2>2, <2>4, <2>5 DEF IsOffsets
    <3> QED
      BY <2>3, <2>4, <3>1
  <2>9. o[c[l] + 1] \in 0..m /\ o[b[l] + 1] <= o[c[l] + 1]
    BY <2>5, <2>8 DEF IsOffsets
  <2> QED
    BY <2>4, <2>6, <2>7, <2>9
<1> HIDE DEF T
<1>9. \A k \in Nat : k \in T
  BY <1>7, <1>8, NatSetInduction
<1>10. ASSUME NEW l \in 1..(D + 1)
       PROVE  u[l] = <<b[l], c[l]>> /\ c[l] \in 0..N[l] /\ b[l] <= c[l]
  <2>1. PICK k \in Nat : k + 1 = l
    <3>1. l - 1 \in Nat /\ (l - 1) + 1 = l
      BY <1>1
    <3> QED
      BY <3>1
  <2>2. k \in T
    BY <1>9
  <2> QED
    BY <2>1, <2>2 DEF T
<1>11. ASSUME NEW l \in 1..D PROVE c[l + 1] = list.offsets[l][c[l] + 1]
  <2>1. l \in 1..(D + 1) /\ l + 1 \in 1..(D + 1)
    BY <1>1
  <2>2. u[l][2] = c[l]
    BY <1>10, <2>1
  <2> QED
    BY <1>2, <1>4, <2>1, <2>2
<1>12. Reached(list, D, N, c)
  BY <1>10, <1>11 DEF Reached
<1>13. c[1] = b[1] + 1
  BY <1>1, <1>2, <1>4
<1> QED
  BY <1>10, <1>12, <1>13 DEF WindowsFrom

\* How many rows there are, and how many are built.
LEMMA RowsReached ==
    ASSUME NEW D \in {1, 3}, NEW list, NEW N, NEW b, IsList(list, D, N), Reached(list, D, N, b)
    PROVE  /\ RowsOf(list) = N[1] /\ RowsOf(Built(list, D, b)) = b[1]
           /\ N[1] \in Nat /\ b[1] \in Nat /\ Len(list.offsets) = D
<1>1. D \in Nat \ {0} /\ 1 \in 1..D /\ 1 \in 1..(D + 1)
  OBVIOUS
<1>2. IsOffsets(list.offsets[1], N[1], N[1 + 1]) /\ b[1] \in 0..N[1]
  BY <1>1 DEF IsList, Reached
<1>3. PICK n, o, k : n = N[1] /\ o = list.offsets[1] /\ k = b[1]
  OBVIOUS
<1>4. n \in Nat /\ o \in [1..(n + 1) -> Int] /\ k \in Nat /\ k <= n
  BY <1>2, <1>3 DEF IsOffsets
<1>5. o \in Seq(Int) /\ Len(o) = n + 1
  BY <1>4
<1>6. PICK p : p = [i \in 1..(k + 1) |-> o[i]]
  OBVIOUS
<1>7. p \in [1..(k + 1) -> Int]
  BY <1>4, <1>6
<1>8. Len(p) = k + 1
  BY <1>4, <1>7
<1>9. Built(list, D, b).offsets[1] = p
  BY <1>1, <1>3, <1>6 DEF Built
<1>10. Len(list.offsets) = D
  BY <1>1, LenOfTuple, SMTT(30) DEF IsList
<1> QED
  BY <1>3, <1>4, <1>5, <1>8, <1>9, <1>10, SMTT(30) DEF RowsOf

\* A row is appended to every level (transform_row_round_trip).
LEMMA RowIsAppended ==
    ASSUME NEW D \in {1, 3}, NEW list, NEW N, NEW b, NEW c, IsList(list, D, N),
           Reached(list, D, N, b), Reached(list, D, N, c),
           NEW u, WindowsFrom(D, b, c, u)
    PROVE  WithRow(list, D, Built(list, D, b), u) = Built(list, D, c)
<1>1. D \in Nat \ {0}
  OBVIOUS
<1>2. ASSUME NEW l \in 1..D
      PROVE  Appended(Built(list, D, b).offsets[l],
                  [i \in 1..(u[l][2] - u[l][1]) |->
                      list.offsets[l][u[l][1] + i + 1] - list.offsets[l][u[l][1] + i]])
                = [i \in 1..(c[l] + 1) |-> list.offsets[l][i]]
  <2>1. PICK o, n, m, x, y : /\ o = list.offsets[l] /\ n = N[l] /\ m = N[l + 1]
                             /\ x = b[l] /\ y = c[l]
    OBVIOUS
  <2>2. l \in 1..(D + 1)
    BY <1>1
  <2>3. IsOffsets(o, n, m)
    BY <2>1 DEF IsList
  <2>4. x \in 0..n /\ y \in 0..n /\ x <= y /\ u[l] = <<x, y>>
    BY <2>1, <2>2 DEF Reached, WindowsFrom
  <2>5. Appended([i \in 1..(x + 1) |-> o[i]], [i \in 1..(y - x) |-> o[x + i + 1] - o[x + i]])
          = [i \in 1..(y + 1) |-> o[i]]
    BY <2>3, <2>4, OffsetsExtend
  <2>6. Built(list, D, b).offsets[l] = [i \in 1..(x + 1) |-> o[i]]
    BY <2>1 DEF Built
  <2>7. u[l][1] = x /\ u[l][2] = y
    BY <2>4
  <2> QED
    BY <2>1, <2>5, <2>6, <2>7
<1>3. Built(list, D, c).offsets = [l \in 1..D |-> [i \in 1..(c[l] + 1) |-> list.offsets[l][i]]]
  BY DEF Built
<1>4. Built(list, D, b).leaf
                \o Transformed(SubSeq(list.leaf, u[D + 1][1] + 1, u[D + 1][2]))
                = Built(list, D, c).leaf
  <2>1. PICK s, x, y : s = list.leaf /\ x = b[D + 1] /\ y = c[D + 1]
    OBVIOUS
  <2>2. D + 1 \in 1..(D + 1)
    BY <1>1
  <2>3. s \in Seq(Int) /\ Len(s) = N[D + 1]
    BY <2>1 DEF IsList
  <2>4. x \in 0..Len(s) /\ y \in 0..Len(s) /\ x <= y /\ u[D + 1] = <<x, y>>
    BY <2>1, <2>2, <2>3 DEF Reached, WindowsFrom
  <2>5. Transformed(SubSeq(s, 1, x)) \o Transformed(SubSeq(s, x + 1, y))
          = Transformed(SubSeq(s, 1, y))
    BY <2>3, <2>4, TransformedExtends
  <2>6. u[D + 1][1] = x /\ u[D + 1][2] = y
    BY <2>4
  <2> QED
    BY <2>1, <2>5, <2>6 DEF Built
<1>5. Built(list, D, c) = [offsets |-> Built(list, D, c).offsets, leaf |-> Built(list, D, c).leaf]
  BY DEF Built
<1> QED
  BY <1>2, <1>3, <1>4, <1>5 DEF WithRow

\* At the last row, all of every level is built.
LEMMA AllIsBuilt ==
    ASSUME NEW D \in {1, 3}, NEW list, NEW N, NEW b, IsList(list, D, N), Reached(list, D, N, b),
           b[1] = N[1]
    PROVE  Built(list, D, b) = TransformLeaves(list)
<1>1. D \in Nat \ {0}
  OBVIOUS
<1>2. \A l \in 1..D : IsOffsets(list.offsets[l], N[l], N[l + 1])
  BY DEF IsList
<1> DEFINE T == {l \in Nat : l + 1 \in 1..(D + 1) => b[l + 1] = N[l + 1]}
<1>3. 0 \in T
  OBVIOUS
<1>4. ASSUME NEW k \in Nat, k \in T PROVE k + 1 \in T
  <2>1. PICK l : l = k + 1
    OBVIOUS
  <2> SUFFICES ASSUME l + 1 \in 1..(D + 1) PROVE b[l + 1] = N[l + 1]
    BY <2>1
  <2>2. l \in 1..D /\ l \in 1..(D + 1)
    BY <1>1, <2>1
  <2>3. b[l] = N[l]
    BY <1>4, <2>1, <2>2
  <2>4. b[l + 1] = list.offsets[l][b[l] + 1]
    BY <2>2 DEF Reached
  <2> QED
    BY <1>2, <2>2, <2>3, <2>4 DEF IsOffsets
<1> HIDE DEF T
<1>5. \A k \in Nat : k \in T
  BY <1>3, <1>4, NatSetInduction
<1>6. ASSUME NEW l \in 1..(D + 1) PROVE b[l] = N[l]
  <2>1. PICK k \in Nat : k + 1 = l
    <3>1. l - 1 \in Nat /\ (l - 1) + 1 = l
      BY <1>1
    <3> QED
      BY <3>1
  <2>2. k \in T
    BY <1>5
  <2> QED
    BY <2>1, <2>2 DEF T
<1>7. ASSUME NEW l \in 1..D PROVE [i \in 1..(b[l] + 1) |-> list.offsets[l][i]] = list.offsets[l]
  <2>1. b[l] = N[l]
    BY <1>1, <1>6
  <2>2. list.offsets[l] \in [1..(N[l] + 1) -> 0..N[l + 1]]
    BY <1>2 DEF IsOffsets
  <2> QED
    BY <2>1, <2>2
<1>8. Built(list, D, b).offsets = list.offsets
  <2>1. list.offsets = [l \in 1..D |-> list.offsets[l]]
    BY DEF IsList
  <2>2. Built(list, D, b).offsets = [l \in 1..D |-> [i \in 1..(b[l] + 1) |-> list.offsets[l][i]]]
    BY DEF Built
  <2> QED
    BY <1>7, <2>1, <2>2
<1>9. Built(list, D, b).leaf = Transformed(list.leaf)
  <2>1. PICK s : s = list.leaf
    OBVIOUS
  <2>2. s \in Seq(Int) /\ Len(s) = b[D + 1]
    BY <1>1, <1>6, <2>1 DEF IsList
  <2>3. SubSeq(s, 1, Len(s)) = s
    BY <2>2
  <2> QED
    BY <2>1, <2>2, <2>3 DEF Built
<1>10. list = [offsets |-> list.offsets, leaf |-> list.leaf]
  BY DEF IsList
<1> QED
  BY <1>8, <1>9, <1>10 DEF Built, TransformLeaves

-----------------------------------------------------------------------------
(* What every state of a comparison is *)

\* A batch on its way to rows and back.
Transposing(x, columns, R, C) ==
    \/ \E m \in Nat : x = [at |-> "columns", rows |-> m, columns |-> columns]
    \/ x = [at |-> "columnar", rows |-> R, columns |-> columns]
    \/ x = [at |-> "row_major", rows |-> R, cols |-> C, of |-> columns,
            buffer |-> RowMajor(columns, R, C)]
    \/ x = [at |-> "rows", rows |-> R, cols |-> C, of |-> columns,
            buffer |-> Transformed(RowMajor(columns, R, C))]
    \/ x = [at |-> "back", of |-> columns, columns |-> TransformColumns(columns)]

IsTransposition(x) == \E columns, R, C : IsGrid(columns, R, C) /\ Transposing(x, columns, R, C)

\* Lists of which the first rows are built.
IsBuilding(x) ==
    \E D \in {1, 3} : \E list, N, b :
        /\ IsList(list, D, N) /\ Reached(list, D, N, b)
        /\ x = [at |-> "lists", list |-> list, built |-> Built(list, D, b)]

\* Rows, as they are or in a file, before they are read.
IsUnread(x) ==
    \E n \in Nat : \/ x = [at |-> "rows_or_columns", data |-> GenerateRows(n)]
                   \/ \E d \in Nat \ {0} : x = [at |-> "file", batch |-> GenerateBatch(n), size |-> d]

IsAtRest(x) == x.at \in {"idle", "mismatch", "exit"} /\ (x.at = "exit" => x.ok)

LayoutTrue(x) == IsTransposition(x) \/ IsBuilding(x) \/ IsUnread(x) \/ IsAtRest(x)
LayoutInv == LayoutTrue(bench)

\* A comparison that agrees.
LEMMA ConcludedAtRest ==
    ASSUME NEW ok, ok
    PROVE  IsAtRest(Concluded(ok))
BY DEF IsAtRest, Concluded

\* The batches that are generated are grids (generate_columns).
LEMMA GridsFit ==
    ASSUME NEW R \in Nat, NEW C \in Nat
    PROVE  IsGrid(GenerateColumns(R, C), R, C)
<1>1. PICK g : g = [c \in 1..C |-> [r \in 1..R |-> 2 * (r + c)]]
  OBVIOUS
<1>2. g = [c \in 1..C |-> g[c]]
  BY <1>1
<1>3. ASSUME NEW c \in 1..C PROVE g[c] = [r \in 1..R |-> g[c][r]]
  BY <1>1
<1> QED
  BY <1>1, <1>2, <1>3 DEF IsGrid, GenerateColumns

\* Where each comparison starts.
LEMMA TranspositionStarts == ASSUME NEW x \in ColumnarBatches PROVE IsTransposition(x)
<1>1. PICK s \in BatchShapes, n \in {t[1] : t \in BatchShapes} :
        x = [at |-> "columns", rows |-> n, columns |-> GenerateColumns(s[1], s[2])]
  BY DEF ColumnarBatches
<1>2. s[1] \in Nat /\ s[2] \in Nat /\ n \in Nat
  BY LayoutAssumption DEF LayoutAssumption
<1>3. PICK columns, R, C : columns = GenerateColumns(s[1], s[2]) /\ R = s[1] /\ C = s[2]
  OBVIOUS
<1>4. IsGrid(columns, R, C)
  BY <1>2, <1>3, GridsFit
<1>5. Transposing(x, columns, R, C)
  BY <1>1, <1>2, <1>3 DEF Transposing
<1> QED
  BY <1>4, <1>5 DEF IsTransposition

LEMMA UnreadStarts == ASSUME NEW x \in Orderings \union Files PROVE IsUnread(x)
<1>1. RowCounts \subseteq Nat /\ DecoderBatches \subseteq Nat \ {0}
  BY LayoutAssumption DEF LayoutAssumption
<1>2. CASE x \in Orderings
  BY <1>1, <1>2 DEF Orderings, IsUnread
<1>3. CASE x \in Files
  BY <1>1, <1>3 DEF Files, IsUnread
<1> QED
  BY <1>2, <1>3

\* Nothing is built of a list at first.
LEMMA NothingIsBuilt ==
    ASSUME NEW D \in {1, 3}, NEW list, NEW N, IsList(list, D, N)
    PROVE  \E b : Reached(list, D, N, b) /\
             Built(list, D, b) = [offsets |-> [l \in 1..D |-> <<0>>], leaf |-> <<>>]
<1>1. PICK b : b = [l \in 1..(D + 1) |-> 0]
  OBVIOUS
<1>2. D \in Nat \ {0} /\ \A l \in 1..D : IsOffsets(list.offsets[l], N[l], N[l + 1])
  BY DEF IsList
<1>3. \A l \in 1..D : N[l] \in Nat /\ N[l + 1] \in Nat /\ list.offsets[l][1] = 0
  BY <1>2 DEF IsOffsets
<1>4. ASSUME NEW l \in 1..(D + 1) PROVE b[l] \in 0..N[l] /\ b[l] = 0
  <2>1. CASE l \in 1..D
    BY <1>1, <1>3, <2>1
  <2>2. CASE l = D + 1
    <3>1. D \in 1..D
      BY <1>2
    <3> QED
      BY <1>1, <1>3, <2>2, <3>1
  <2> QED
    BY <1>2, <2>1, <2>2
<1>5. ASSUME NEW l \in 1..D PROVE b[l + 1] = list.offsets[l][b[l] + 1]
  <2>1. l \in 1..(D + 1) /\ l + 1 \in 1..(D + 1)
    BY <1>2
  <2>2. b[l] = 0 /\ b[l + 1] = 0 /\ 0 + 1 = 1
    BY <1>4, <2>1
  <2> QED
    BY <1>3, <2>2
<1>6. Reached(list, D, N, b)
  BY <1>4, <1>5 DEF Reached
<1>7. ASSUME NEW l \in 1..D PROVE [i \in 1..(b[l] + 1) |-> list.offsets[l][i]] = <<0>>
  <2>1. l \in 1..(D + 1)
    BY <1>2
  <2>2. b[l] + 1 = 1
    BY <1>4, <2>1
  <2>3. PICK o : o = list.offsets[l]
    OBVIOUS
  <2>4. [i \in 1..1 |-> o[i]] = <<0>>
    BY <1>3, <2>3
  <2> QED
    BY <2>2, <2>3, <2>4
<1>8. Transformed(SubSeq(list.leaf, 1, b[D + 1])) = <<>>
  <2>1. D + 1 \in 1..(D + 1)
    BY <1>2
  <2>2. b[D + 1] = 0
    BY <1>4, <2>1
  <2>3. SubSeq(list.leaf, 1, 0) = <<>>
    BY DEF IsList
  <2> QED
    BY <2>2, <2>3 DEF Transformed
<1>9. [l \in 1..D |-> [i \in 1..(b[l] + 1) |-> list.offsets[l][i]]] = [l \in 1..D |-> <<0>>]
  BY <1>7
<1> QED
  BY <1>6, <1>8, <1>9 DEF Built

LEMMA BuildingStarts == ASSUME NEW x \in Lists PROVE IsBuilding(x)
<1>1. PICK n \in RowCounts, s \in ListShapes :
        x = [at |-> "lists", list |-> IF Len(s) = 1 THEN GenerateLists(n, s[1])
                                                    ELSE GenerateWrappers(n, s),
             built |-> [offsets |-> [l \in 1..Len(s) |-> <<0>>], leaf |-> <<>>]]
  BY DEF Lists
<1>2. n \in Nat /\ s \in Seq(Nat \ {0}) /\ Len(s) \in {1, 3}
  BY LayoutAssumption DEF LayoutAssumption
<1>3. PICK list : list = IF Len(s) = 1 THEN GenerateLists(n, s[1]) ELSE GenerateWrappers(n, s)
  OBVIOUS
<1>4. PICK D \in {1, 3} : D = Len(s)
  BY <1>2
<1>5. \E N : IsList(list, D, N)
  <2>1. CASE D = 1
    <3>1. 1 \in 1..Len(s)
      BY <1>4, <2>1
    <3>2. s[1] \in Nat \ {0}
      BY <1>2, <3>1
    <3>3. list = GenerateLists(n, s[1])
      BY <1>3, <1>4, <2>1
    <3>4. PICK m \in Nat \ {0} : m = s[1]
      BY <3>2
    <3>5. \E N : N[1] = n /\ IsList(GenerateLists(n, m), 1, N)
      BY <1>2, ListsFit
    <3> QED
      BY <2>1, <3>3, <3>4, <3>5
  <2>2. CASE D = 3
    <3>1. list = GenerateWrappers(n, s) /\ Len(s) = 3
      BY <1>3, <1>4, <2>2
    <3>2. \E N : N[1] = n /\ IsList(GenerateWrappers(n, s), 3, N)
      BY <1>2, <3>1, WrappersFit, Zenon
    <3> QED
      BY <2>2, <3>1, <3>2
  <2> QED
    BY <2>1, <2>2
<1>6. PICK N : IsList(list, D, N)
  BY <1>5
<1>7. PICK b : Reached(list, D, N, b) /\
             Built(list, D, b) = [offsets |-> [l \in 1..D |-> <<0>>], leaf |-> <<>>]
  BY <1>6, NothingIsBuilt
<1>8. x = [at |-> "lists", list |-> list, built |-> Built(list, D, b)]
  BY <1>1, <1>3, <1>4, <1>7
<1> QED
  BY <1>6, <1>7, <1>8 DEF IsBuilding

LEMMA LayoutStarts == LayoutInit => LayoutInv
BY TranspositionStarts, UnreadStarts, BuildingStarts
   DEF LayoutInit, LayoutInv, LayoutTrue

\* Each state of a transposition has one next state, and keeps what the batch was.
LEMMA GridSteps ==
    ASSUME IsTransposition(bench), LayoutNext
    PROVE  LayoutTrue(bench')
<1>1. PICK columns, R, C : IsGrid(columns, R, C) /\ Transposing(bench, columns, R, C)
  BY DEF IsTransposition
<1>2. /\ R \in Nat /\ C \in Nat /\ columns = [c \in 1..C |-> columns[c]]
      /\ \A c \in 1..C : columns[c] = [r \in 1..R |-> columns[c][r]]
  BY <1>1 DEF IsGrid
<1>3. Len(columns) = C /\ DOMAIN columns = 1..C
  BY <1>2, LenOfTuple
<1>4. ASSUME NEW m \in Nat, bench = [at |-> "columns", rows |-> m, columns |-> columns]
      PROVE  LayoutTrue(bench')
  <2>1. TryNewColumnar
    BY <1>4 DEF LayoutNext, TryNewColumnar, ToRowMajor, TryNewRows, ToColumnar,
         CompareTransposition, AppendRow, CompareLists, CompareOrientations, CompareFormats
  <2>2. CASE \A c \in DOMAIN columns : Len(columns[c]) = m
    <3>1. bench' = [at |-> "columnar", rows |-> m, columns |-> columns]
      BY <1>4, <2>1, <2>2 DEF TryNewColumnar
    <3>2. ASSUME NEW c \in 1..C PROVE columns[c] = [r \in 1..m |-> columns[c][r]]
      <4>1. PICK x : x = columns[c]
        OBVIOUS
      <4>2. x = [r \in 1..R |-> x[r]] /\ Len(x) = m
        BY <1>2, <1>3, <2>2, <4>1
      <4>3. Len(x) = R
        BY <1>2, <4>2, LenOfTuple
      <4> QED
        BY <4>1, <4>2, <4>3
    <3>3. IsGrid(columns, m, C)
      BY <1>2, <1>4, <3>2 DEF IsGrid
    <3>4. Transposing(bench', columns, m, C)
      BY <3>1 DEF Transposing
    <3> QED
      BY <3>3, <3>4 DEF LayoutTrue, IsTransposition
  <2>3. CASE ~\A c \in DOMAIN columns : Len(columns[c]) = m
    <3>1. bench' = [at |-> "mismatch", of |-> bench]
      BY <1>4, <2>1, <2>3 DEF TryNewColumnar
    <3> QED
      BY <3>1 DEF LayoutTrue, IsAtRest
  <2> QED
    BY <2>2, <2>3
<1>5. ASSUME bench = [at |-> "columnar", rows |-> R, columns |-> columns]
      PROVE  LayoutTrue(bench')
  <2>1. ToRowMajor
    BY <1>5 DEF LayoutNext, TryNewColumnar, ToRowMajor, TryNewRows, ToColumnar,
         CompareTransposition, AppendRow, CompareLists, CompareOrientations, CompareFormats
  <2>2. bench' = [at |-> "row_major", rows |-> R, cols |-> C, of |-> columns,
                  buffer |-> RowMajor(columns, R, C)]
    BY <1>3, <1>5, <2>1 DEF ToRowMajor, RowMajor
  <2>3. Transposing(bench', columns, R, C)
    BY <2>2 DEF Transposing
  <2> QED
    BY <1>1, <2>3 DEF LayoutTrue, IsTransposition
<1>6. ASSUME bench = [at |-> "row_major", rows |-> R, cols |-> C, of |-> columns,
                      buffer |-> RowMajor(columns, R, C)]
      PROVE  LayoutTrue(bench')
  <2>1. TryNewRows
    BY <1>6 DEF LayoutNext, TryNewColumnar, ToRowMajor, TryNewRows, ToColumnar,
         CompareTransposition, AppendRow, CompareLists, CompareOrientations, CompareFormats
  <2>2. \/ bench' = [at |-> "rows", rows |-> R, cols |-> C, of |-> columns,
                     buffer |-> Transformed(RowMajor(columns, R, C))]
        \/ bench' = [at |-> "mismatch", of |-> bench]
    BY <1>6, <2>1 DEF TryNewRows
  <2>3. CASE bench' = [at |-> "mismatch", of |-> bench]
    BY <2>3 DEF LayoutTrue, IsAtRest
  <2>4. CASE bench' = [at |-> "rows", rows |-> R, cols |-> C, of |-> columns,
                       buffer |-> Transformed(RowMajor(columns, R, C))]
    <3>1. Transposing(bench', columns, R, C)
      BY <2>4 DEF Transposing
    <3> QED
      BY <1>1, <3>1 DEF LayoutTrue, IsTransposition
  <2> QED
    BY <2>2, <2>3, <2>4
<1>7. ASSUME bench = [at |-> "rows", rows |-> R, cols |-> C, of |-> columns,
                      buffer |-> Transformed(RowMajor(columns, R, C))]
      PROVE  LayoutTrue(bench')
  <2>1. ToColumnar
    BY <1>7 DEF LayoutNext, TryNewColumnar, ToRowMajor, TryNewRows, ToColumnar,
         CompareTransposition, AppendRow, CompareLists, CompareOrientations, CompareFormats
  <2>2. PICK buffer : buffer = Transformed(RowMajor(columns, R, C))
    OBVIOUS
  <2>3. bench' = [at |-> "back", of |-> columns,
                  columns |-> [c \in 1..C |-> [r \in 1..R |-> buffer[(r - 1) * C + c]]]]
    BY <1>7, <2>1, <2>2 DEF ToColumnar
  <2>4. [c \in 1..C |-> [r \in 1..R |-> buffer[(r - 1) * C + c]]] = TransformColumns(columns)
    BY <1>1, <2>2, ThereAndBack
  <2>5. Transposing(bench', columns, R, C)
    BY <2>3, <2>4 DEF Transposing
  <2> QED
    BY <1>1, <2>5 DEF LayoutTrue, IsTransposition
<1>8. ASSUME bench = [at |-> "back", of |-> columns, columns |-> TransformColumns(columns)]
      PROVE  LayoutTrue(bench')
  <2>1. CompareTransposition
    BY <1>8 DEF LayoutNext, TryNewColumnar, ToRowMajor, TryNewRows, ToColumnar,
         CompareTransposition, AppendRow, CompareLists, CompareOrientations, CompareFormats
  <2>2. bench' = Concluded(SumAll(FlattenSeq(TransformColumns(bench.of)))
                           = SumAll(FlattenSeq(bench.columns)))
    BY <2>1 DEF CompareTransposition
  <2>3. SumAll(FlattenSeq(TransformColumns(bench.of))) = SumAll(FlattenSeq(bench.columns))
    BY <1>8
  <2> QED
    BY <2>2, <2>3, ConcludedAtRest DEF LayoutTrue
<1> QED
  BY <1>1, <1>4, <1>5, <1>6, <1>7, <1>8 DEF Transposing

\* A list row by row: as long as rows are left, the next is what is appended; then
\* all of it is built.
LEMMA ListSteps ==
    ASSUME IsBuilding(bench), LayoutNext
    PROVE  LayoutTrue(bench')
<1>1. PICK D \in {1, 3} : \E list, N, b :
        /\ IsList(list, D, N) /\ Reached(list, D, N, b)
        /\ bench = [at |-> "lists", list |-> list, built |-> Built(list, D, b)]
  BY DEF IsBuilding
<1>2. PICK list, N, b :
        /\ IsList(list, D, N) /\ Reached(list, D, N, b)
        /\ bench = [at |-> "lists", list |-> list, built |-> Built(list, D, b)]
  BY <1>1
<1>3. /\ RowsOf(list) = N[1] /\ RowsOf(Built(list, D, b)) = b[1]
      /\ N[1] \in Nat /\ b[1] \in Nat /\ Len(list.offsets) = D
  BY <1>2, RowsReached
<1>4. bench.at = "lists" /\ bench.list = list /\ bench.built = Built(list, D, b)
  BY <1>2
<1>5. AppendRow \/ CompareLists
  BY <1>4 DEF LayoutNext, TryNewColumnar, ToRowMajor, TryNewRows, ToColumnar,
       CompareTransposition, CompareOrientations, CompareFormats
<1>6. CASE AppendRow
  <2>1. b[1] < N[1]
    BY <1>3, <1>4, <1>6 DEF AppendRow
  <2>2. PICK u : u = Under(list, b[1])
    OBVIOUS
  <2>3. PICK c : Reached(list, D, N, c) /\ c[1] = b[1] + 1 /\ WindowsFrom(D, b, c, u)
    BY <1>2, <2>1, <2>2, RowIsReached
  <2>4. WithRow(list, D, Built(list, D, b), u) = Built(list, D, c)
    BY <1>2, <2>3, RowIsAppended
  <2>5. bench' = [bench EXCEPT
          !.built.offsets = [l \in 1..D |-> Appended(@[l],
                  [i \in 1..(u[l][2] - u[l][1]) |->
                      list.offsets[l][u[l][1] + i + 1] - list.offsets[l][u[l][1] + i]])],
          !.built.leaf = @ \o Transformed(SubSeq(list.leaf, u[D + 1][1] + 1, u[D + 1][2]))]
    BY <1>3, <1>4, <1>6, <2>2, SMTT(30) DEF AppendRow
  <2>6. bench' = [at |-> "lists", list |-> list, built |-> WithRow(list, D, Built(list, D, b), u)]
    BY <1>2, <2>5 DEF Built, WithRow
  <2>7. bench' = [at |-> "lists", list |-> list, built |-> Built(list, D, c)]
    BY <2>4, <2>6
  <2> QED
    BY <1>2, <2>3, <2>7 DEF LayoutTrue, IsBuilding
<1>7. CASE CompareLists
  <2>1. b[1] = N[1]
    BY <1>3, <1>4, <1>7 DEF CompareLists
  <2>2. bench.built = TransformLeaves(bench.list)
    BY <1>2, <1>4, <2>1, AllIsBuilt
  <2>3. bench' = Concluded(SumAll(TransformLeaves(bench.list).leaf) = SumAll(bench.built.leaf))
    BY <1>7 DEF CompareLists
  <2>4. SumAll(TransformLeaves(bench.list).leaf) = SumAll(bench.built.leaf)
    BY <2>2
  <2> QED
    BY <2>3, <2>4, ConcludedAtRest DEF LayoutTrue
<1> QED
  BY <1>5, <1>6, <1>7

\* Rows and files are read once, and every reader has the same answer.
LEMMA ReadSteps ==
    ASSUME IsUnread(bench), LayoutNext
    PROVE  LayoutTrue(bench')
<1>1. PICK n \in Nat : \/ bench = [at |-> "rows_or_columns", data |-> GenerateRows(n)]
                       \/ \E d \in Nat \ {0} :
                            bench = [at |-> "file", batch |-> GenerateBatch(n), size |-> d]
  BY DEF IsUnread
<1>2. CASE bench = [at |-> "rows_or_columns", data |-> GenerateRows(n)]
  <2>1. CompareOrientations /\ bench.data = GenerateRows(n)
    BY <1>2 DEF LayoutNext, TryNewColumnar, ToRowMajor, TryNewRows, ToColumnar,
         CompareTransposition, AppendRow, CompareLists, CompareOrientations, CompareFormats
  <2>2. PICK rs : rs = GenerateRows(n)
    OBVIOUS
  <2>3. SumColumnar(AmountColumn(rs)) = SumRows(rs) /\ SumFused(AmountColumn(rs)) = SumRows(rs)
    BY <2>2, OrientationsAgree, Zenon
  <2>4. bench' = Concluded(/\ SumRows(rs) = SumColumnar(AmountColumn(rs))
                           /\ SumRows(rs) = SumFused(AmountColumn(rs)))
    BY <2>1, <2>2 DEF CompareOrientations
  <2> QED
    BY <2>3, <2>4, ConcludedAtRest DEF LayoutTrue
<1>3. ASSUME NEW d \in Nat \ {0}, bench = [at |-> "file", batch |-> GenerateBatch(n), size |-> d]
      PROVE  LayoutTrue(bench')
  <2>1. CompareFormats /\ bench.batch = GenerateBatch(n) /\ bench.size = d
    BY <1>3 DEF LayoutNext, TryNewColumnar, ToRowMajor, TryNewRows, ToColumnar,
         CompareTransposition, AppendRow, CompareLists, CompareOrientations, CompareFormats
  <2>2. PICK batch : batch = GenerateBatch(n)
    OBVIOUS
  <2>3. /\ ReadIpcNarrow(batch, d) = ReadIpcFull(batch, d)
        /\ ReadParquetFull(batch, d) = ReadIpcFull(batch, d)
        /\ ReadParquetNarrow(batch, d) = ReadIpcFull(batch, d)
    BY <2>2, ReadersAgree, Zenon
  <2>4. bench' = Concluded(/\ ReadIpcNarrow(batch, d) = ReadIpcFull(batch, d)
                           /\ ReadParquetFull(batch, d) = ReadIpcFull(batch, d)
                           /\ ReadParquetNarrow(batch, d) = ReadIpcFull(batch, d))
    BY <2>1, <2>2 DEF CompareFormats
  <2> QED
    BY <2>3, <2>4, ConcludedAtRest DEF LayoutTrue
<1> QED
  BY <1>1, <1>2, <1>3

\* The invariant is inductive.
LEMMA LayoutStep ==
    ASSUME LayoutInv, [LayoutNext]_bench
    PROVE  LayoutInv'
<1>1. CASE bench' = bench
  BY <1>1 DEF LayoutInv
<1>2. CASE LayoutNext
  <2>1. ~IsAtRest(bench)
    BY <1>2 DEF IsAtRest, LayoutNext, TryNewColumnar, ToRowMajor, TryNewRows, ToColumnar,
         CompareTransposition, AppendRow, CompareLists, CompareOrientations, CompareFormats
  <2> QED
    BY <1>2, <2>1, Zenon, GridSteps, ListSteps, ReadSteps DEF LayoutInv, LayoutTrue
<1> QED
  BY <1>1, <1>2

\* It implies what the programs compare, and what their sums would not notice.
LEMMA LayoutTrueIsEnough ==
    ASSUME LayoutInv
    PROVE  LayoutsAgree
<1>1. CASE IsTransposition(bench)
  <2>1. bench.at \notin {"exit", "lists", "file"}
    BY <1>1 DEF IsTransposition, Transposing
  <2>2. bench.at = "back" => bench.columns = TransformColumns(bench.of)
    BY <1>1 DEF IsTransposition, Transposing
  <2> QED
    BY <2>1, <2>2 DEF LayoutsAgree
<1>2. CASE IsBuilding(bench)
  <2>1. PICK D \in {1, 3} : \E list, N, b :
        /\ IsList(list, D, N) /\ Reached(list, D, N, b)
        /\ bench = [at |-> "lists", list |-> list, built |-> Built(list, D, b)]
    BY <1>2 DEF IsBuilding
  <2>2. PICK list, N, b :
        /\ IsList(list, D, N) /\ Reached(list, D, N, b)
        /\ bench = [at |-> "lists", list |-> list, built |-> Built(list, D, b)]
    BY <2>1
  <2>3. bench.at = "lists" /\ bench.list = list /\ bench.built = Built(list, D, b)
    BY <2>2
  <2>4. RowsOf(bench.built) = RowsOf(bench.list) => bench.built = TransformLeaves(bench.list)
    BY <2>2, <2>3, RowsReached, AllIsBuilt
  <2> QED
    BY <2>3, <2>4 DEF LayoutsAgree
<1>3. CASE IsUnread(bench)
  <2>1. PICK n \in Nat : \/ bench = [at |-> "rows_or_columns", data |-> GenerateRows(n)]
                         \/ \E d \in Nat \ {0} :
                              bench = [at |-> "file", batch |-> GenerateBatch(n), size |-> d]
    BY <1>3 DEF IsUnread
  <2>2. CASE bench = [at |-> "rows_or_columns", data |-> GenerateRows(n)]
    BY <2>2 DEF LayoutsAgree
  <2>3. ASSUME NEW d \in Nat \ {0},
               bench = [at |-> "file", batch |-> GenerateBatch(n), size |-> d]
        PROVE  LayoutsAgree
    <3>1. PICK batch : batch = GenerateBatch(n)
      OBVIOUS
    <3>2. Len(batch[1]) = n /\ ReadIpcFull(batch, d) = SumRows(GenerateRows(n))
      BY <3>1, ReadersAgree, Zenon
    <3>3. bench.at = "file" /\ bench.batch = batch /\ bench.size = d
      BY <2>3, <3>1
    <3> QED
      BY <3>2, <3>3 DEF LayoutsAgree
  <2> QED
    BY <2>1, <2>2, <2>3
<1>4. CASE IsAtRest(bench)
  BY <1>4 DEF IsAtRest, LayoutsAgree
<1> QED
  BY <1>1, <1>2, <1>3, <1>4 DEF LayoutInv, LayoutTrue

\* The same values give the same result whichever instructions, encoding, file,
\* layout or order of reading they went through, and no comparison ever fails: for
\* batches, lists, files and decoders of every size.
THEOREM PathsAreOne == EngineSpec => []EveryPathAgrees
<1> DEFINE L == LayoutInv
<1>1. EngineInit => L
  <2>1. LayoutIdle => L
    BY DEF LayoutIdle, LayoutInv, LayoutTrue, IsAtRest
  <2> QED
    BY <2>1, LayoutStarts DEF EngineInit
<1>2. L /\ [EngineNext]_engineVars => L'
  <2>1. [EngineNext]_engineVars => [LayoutNext]_bench
    BY DEF EngineNext, engineVars
  <2> QED
    BY <2>1, LayoutStep
<1>3. L => LayoutsAgree
  BY LayoutTrueIsEnough
<1>4. KernelsAgree /\ LayoutsAgree => EveryPathAgrees
  BY DEF EveryPathAgrees
<1>5. EngineSpec => []KernelsAgree
  BY FormsAreOne
<1> HIDE DEF L
<1>6. EngineSpec => []LayoutsAgree
  BY <1>1, <1>2, <1>3, PTL DEF EngineSpec
<1> QED
  BY <1>4, <1>5, <1>6, PTL
=============================================================================
