------------------------------ MODULE Kernels -------------------------------
(***************************************************************************)
(* The Int32 kernel of crates/pipeline/src/simd_add.rs and what stands     *)
(* between it and a column: a slice, the arguments of the query function   *)
(* of simd_add_udf.rs, an encoding that has to be decoded first, rows that *)
(* have to be materialized, or an Arrow IPC file that is read or mapped    *)
(* (ipc_mmap.rs).  The programs that time it compare what it answers with  *)
(* an oracle of their own.                                                 *)
(*                                                                         *)
(* Integers have Width bits.  What the code panics on and what it answers  *)
(* with an error are both a refusal.  A mapped file is taken not to change *)
(* while it is mapped, which is what the code asks of its callers; whether *)
(* the decoder copied is then of no consequence.                           *)
(***************************************************************************)
EXTENDS Integers, Sequences, FiniteSets

CONSTANTS
    Width,       \* bits of an integer
    Cycle,       \* the generated values repeat after as many
    Lengths,     \* lengths of the columns
    Offsets,     \* how far into its buffer a slice begins
    Constants    \* what is added

ASSUME KernelAssumption ==
    /\ Width \in Nat \ {0} /\ Cycle \in Nat \ {0}
    /\ Lengths \subseteq Nat /\ Offsets \subseteq Nat /\ Constants \subseteq Int

VARIABLES
    column,     \* the column, in the form it comes in
    constant,   \* k
    code,       \* the implementation that runs
    stage,
    src, dst,   \* the slices the kernel works on
    at          \* how much of dst is written

kernelVars == <<column, constant, code, stage, src, dst, at>>

Wrap(x) == ((x + 2^(Width - 1)) % 2^Width) - 2^(Width - 1)

-----------------------------------------------------------------------------
(* Arrow (external): an array is a window of a buffer *)

Array(buffer, offset, length, nulls) ==
    [buffer |-> buffer, offset |-> offset, length |-> length, nulls |-> nulls]
Plain(values) == Array(values, 0, Len(values), {})

Values(a) == [i \in 1..a.length |-> a.buffer[a.offset + i]]
NullCount(a) == Cardinality(a.nulls \intersect (a.offset + 1)..(a.offset + a.length))

(* The run that holds index i: the first that ends after it. *)
PhysicalIndex(runs, i) ==
    CHOOSE j \in DOMAIN runs.ends :
        runs.ends[j] > i /\ \A h \in 1..(j - 1) : runs.ends[h] <= i

-----------------------------------------------------------------------------
(* The forms a column comes in *)

(* generate_input: value i is i, modulo a cycle. *)
Generated(n) == [i \in 1..n |-> Wrap((i - 1) % Cycle)]

Slices ==
    {[form |-> "array", array |-> Array(Generated(o + n + 1), o, n, nulls)] :
        o \in Offsets, n \in Lengths, nulls \in {{}, {1}, {3}}}

(* dictionary_low_cardinality, and with as many values as keys the other. *)
Dictionary(n, distinct) ==
    [form |-> "dictionary", keys |-> [i \in 1..n |-> (i - 1) % distinct],
     values |-> [i \in 1..distinct |-> i - 1]]

RunEndEncoded(n, run_length) ==
    LET run_count == (n + run_length - 1) \div run_length
        end(r) == IF r * run_length < n THEN r * run_length ELSE n
    IN  [form |-> "runs", length |-> n,
         ends |-> [r \in 1..run_count |-> end(r)],
         values |-> [r \in 1..run_count |-> r - 1]]

SourceRows(n) ==
    [form |-> "rows", rows |-> [i \in 1..n |-> [id |-> i, value |-> Generated(n)[i]]]]

(* An IPC file of some batches, each of some columns, read or mapped. *)
Batch(n, columns) == [c \in 1..columns |-> Plain(Generated(n))]
File(reader, batches) == [form |-> "file", reader |-> reader, batches |-> batches]

(* The arguments of a call in a query.  The engine sees to their number    *)
(* and their type.                                                         *)
ArrayArgument(a) == [is |-> "array", array |-> a]
Literal(values) == [is |-> "literal", value |-> values]
Call(args) == [form |-> "call", args |-> args]

Encodings ==
    {Dictionary(n, d) : n \in Lengths, d \in {1, 3}}
    \union {Dictionary(n, n) : n \in Lengths \ {0}}
    \union {RunEndEncoded(n, r) : n \in Lengths, r \in {2, 5}}

FileBatches ==
    {<<>>, <<Batch(3, 0)>>, <<Batch(3, 2)>>, <<Batch(1, 1), Batch(3, 1)>>}
    \union {<<Batch(n, 1)>> : n \in Lengths}

Arguments ==
    ({ArrayArgument(s.array) : s \in Slices} \union {Literal({1})})
        \X {Literal({2}), Literal({}), ArrayArgument(Plain(<<2>>))}

Columns ==
    Slices \union Encodings
    \union {SourceRows(n) : n \in Lengths}
    \union {File("read", b) : b \in FileBatches} \union {File("mapped", b) : b \in FileBatches}
    \union {Call(args) : args \in Arguments}

-----------------------------------------------------------------------------
(* From those forms to a plain array: at most one, none if it is refused *)

(* decode_dictionary *)
DecodeDictionary(d) ==
    Plain([i \in DOMAIN d.keys |-> d.values[d.keys[i] + 1]])

(* decode_run_array *)
DecodeRunArray(r) ==
    Plain([i \in 1..r.length |-> r.values[PhysicalIndex(r, i - 1)]])

MaterializeValueColumn(r) == Plain([i \in DOMAIN r.rows |-> r.rows[i].value])

(* mmap_decode_single_i32_column: one batch of one column. *)
MappedColumn(batches) ==
    IF Len(batches) = 1 /\ Len(batches[1]) = 1 THEN {batches[1][1]} ELSE {}

(* arrow-interop-kernel takes the first batch, and cannot put its result   *)
(* in the place of more than one column.                                   *)
ReadColumn(batches) ==
    IF batches # <<>> /\ Len(batches[1]) = 1 THEN {batches[1][1]} ELSE {}

(* invoke_wrapping_add_simd *)
ArgumentsInScope(args) ==
    /\ Len(args) = 2
    /\ args[2].is = "literal" /\ args[2].value # {}
    /\ args[1].is = "array"

Decoded(c) ==
    CASE c.form = "array" -> {c.array}
      [] c.form = "dictionary" -> {DecodeDictionary(c)}
      [] c.form = "runs" -> {DecodeRunArray(c)}
      [] c.form = "rows" -> {MaterializeValueColumn(c)}
      [] c.form = "file" -> IF c.reader = "mapped" THEN MappedColumn(c.batches)
                                                   ELSE ReadColumn(c.batches)
      [] c.form = "call" -> IF ArgumentsInScope(c.args) THEN {c.args[1].array} ELSE {}

-----------------------------------------------------------------------------
(* The kernel *)

Codes == {"avx2", "sse2", "portable", "scalar", "reference"}

(* Elements per instruction. *)
LANES == [avx2 |-> 8, sse2 |-> 4]
Chunks(n) == n \div LANES[code]

(* A tail that begins where that of the narrower instructions does. *)
TailFromNarrow(n) == (n \div 4) * 4

(* Where the elements begin that no vector holds. *)
TailFrom(n) == Chunks(n) * LANES[code]

(* SimdAddError::Nullable, and whatever has no plain array. *)
Refuse ==
    /\ stage = "column"
    /\ \A a \in Decoded(column) : NullCount(a) > 0
    /\ stage' = "refused"
    /\ UNCHANGED <<column, constant, code, src, dst, at>>

(* The column is decoded, reject_nulls has looked at it, and the code that *)
(* the processor has instructions for begins.                              *)
Begin ==
    /\ stage = "column"
    /\ \E a \in Decoded(column) :
          /\ NullCount(a) = 0
          /\ src' = Values(a)
          /\ dst' = [i \in DOMAIN Values(a) |-> 0]
    /\ stage' = IF code \in DOMAIN LANES THEN "vectors" ELSE "loop"
    /\ constant' = IF column.form = "call" THEN CHOOSE k \in column.args[2].value : TRUE
                   ELSE constant
    /\ UNCHANGED <<column, code, at>>

Added(from, to) ==
    [i \in DOMAIN dst |-> IF i \in (from + 1)..to THEN Wrap(src[i] + constant) ELSE dst[i]]

(* The iterator chain of wrapping_add_scalar; the oracle and the fallback  *)
(* do the same.                                                            *)
AddEach ==
    /\ stage = "loop"
    /\ dst' = Added(0, Len(src))
    /\ at' = Len(src) /\ stage' = "done"
    /\ UNCHANGED <<column, constant, code, src>>

AddVector ==
    /\ stage = "vectors" /\ at < Chunks(Len(src)) * LANES[code]
    /\ dst' = Added(at, at + LANES[code])
    /\ at' = at + LANES[code]
    /\ UNCHANGED <<column, constant, code, stage, src>>

AddAvx2 == code = "avx2" /\ AddVector
AddSse2 == code = "sse2" /\ AddVector

BeginTail ==
    /\ stage = "vectors" /\ at = Chunks(Len(src)) * LANES[code]
    /\ at' = TailFrom(Len(src))
    /\ stage' = "tail"
    /\ UNCHANGED <<column, constant, code, src, dst>>

AddTail ==
    /\ stage = "tail" /\ at < Len(src)
    /\ dst' = Added(at, at + 1)
    /\ at' = at + 1
    /\ UNCHANGED <<column, constant, code, stage, src>>

Return ==
    /\ stage = "tail" /\ at >= Len(src)
    /\ stage' = "done"
    /\ UNCHANGED <<column, constant, code, src, dst, at>>

-----------------------------------------------------------------------------
(* What the programs compare it with *)

(* wrapping_add_reference, of a column without nulls. *)
Reference(values) == [i \in DOMAIN values |-> Wrap(values[i] + constant)]

(* The exit code. *)
Exit(ok) ==
    /\ stage = "done"
    /\ stage' = IF ok THEN "success" ELSE "failure"
    /\ UNCHANGED <<column, constant, code, src, dst, at>>

(* encodings-and-kernel: the formula the fixture was made by, against what *)
(* was decoded and against what was added.                                 *)
CheckEncoding ==
    \/ /\ column.form = "dictionary"
       /\ LET oracle == [i \in DOMAIN column.keys |-> (i - 1) % Len(column.values)]
          IN  Exit(src = oracle /\ dst = Reference(oracle))
    \/ /\ column.form = "runs" /\ column.length > 0
       /\ LET oracle == [i \in 1..column.length |-> (i - 1) \div column.ends[1]]
          IN  Exit(src = oracle /\ dst = Reference(oracle))

(* mmap-ipc-handoff: the batch that was published, not the one mapped. *)
CheckHandoff ==
    /\ column.form = "file" /\ column.reader = "mapped"
    /\ Exit(dst = Reference(Generated(column.batches[1][1].length)))

(* materialization-vs-handoff: the other source of the same column. *)
CheckCells ==
    /\ column.form = "rows"
    /\ Exit(dst = Reference(Generated(Len(column.rows))))

(* simd-wrapping-add: the other implementations on the same array. *)
CheckImplementations ==
    /\ column.form = "array" /\ column.array.offset = 0
    /\ Exit(dst = Reference(Values(column.array)))

-----------------------------------------------------------------------------

KernelIdle ==
    /\ column = [form |-> "none"] /\ constant = 0 /\ code = "reference" /\ stage = "idle"
    /\ src = <<>> /\ dst = <<>> /\ at = 0

KernelInit ==
    /\ column \in Columns /\ constant \in Constants /\ code \in Codes
    /\ column.form \in {"call", "file"} => code \in {"avx2", "sse2", "portable"}
    /\ stage = "column" /\ src = <<>> /\ dst = <<>> /\ at = 0

KernelNext ==
    \/ Refuse \/ Begin \/ AddEach \/ AddAvx2 \/ AddSse2 \/ BeginTail \/ AddTail \/ Return
    \/ CheckEncoding \/ CheckHandoff \/ CheckCells \/ CheckImplementations

KernelSpec == KernelInit /\ [][KernelNext]_kernelVars

-----------------------------------------------------------------------------
(* Properties *)

(* The column as a reader of the form itself has it: a value per index,    *)
(* and nothing where the form has none to give.  Of a file that is read,   *)
(* not mapped, the column is that of the first batch.                      *)
Logical(c) ==
    LET slice(a) == IF a.nulls \intersect (a.offset + 1)..(a.offset + a.length) # {} THEN {}
                    ELSE {[i \in 1..a.length |-> Wrap((a.offset + i - 1) % Cycle)]}
    IN  CASE c.form = "array" -> slice(c.array)
          [] c.form = "call" ->
               IF c.args[1].is = "array" /\ c.args[2].is = "literal" /\ c.args[2].value # {}
               THEN slice(c.args[1].array) ELSE {}
          [] c.form = "dictionary" ->
               {[i \in DOMAIN c.keys |-> (i - 1) % Len(c.values)]}
          [] c.form = "runs" -> {[i \in 1..c.length |-> (i - 1) \div c.ends[1]]}
          [] c.form = "rows" -> {Generated(Len(c.rows))}
          [] c.form = "file" ->
               IF c.batches = <<>> \/ (c.reader = "mapped" /\ Len(c.batches) > 1) THEN {}
               ELSE IF Len(c.batches[1]) # 1 THEN {} ELSE {Generated(c.batches[1][1].length)}

(* The kernel's own part of it: what it answers is of an array the column  *)
(* is decoded to, has the length of that array, and no vector, tail or     *)
(* boundary between them leaves an element out or adds to it twice.        *)
KernelIsElementwise ==
    stage \in {"done", "success", "failure"} =>
        \E a \in Decoded(column) :
            /\ NullCount(a) = 0
            /\ dst = [i \in 1..a.length |-> Wrap(Values(a)[i] + constant)]

(* Whatever implementation runs, whatever the length leaves for the tail   *)
(* and whatever form the column came in, the result is each of its values  *)
(* plus the constant, modulo the width, in their order; the kernel refuses *)
(* exactly the columns that have nulls of their own (not those of the      *)
(* buffer around them) and the forms it was not made for, and no program   *)
(* reports a mismatch.                                                     *)
KernelsAgree ==
    /\ KernelIsElementwise
    /\ stage # "failure"
    /\ stage \in {"done", "success"} =>
         \E l \in Logical(column) : dst = [i \in DOMAIN l |-> Wrap(l[i] + constant)]
    /\ stage = "refused" => Logical(column) = {}
=============================================================================
