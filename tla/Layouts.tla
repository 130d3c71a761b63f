------------------------------ MODULE Layouts -------------------------------
(***************************************************************************)
(* The programs that compare layouts of the same data: a transposition to  *)
(* rows and back (crates/pipeline/src/layout.rs, bin/transpose-cost.rs),   *)
(* lists within lists transformed in their flat buffer or row by row       *)
(* (bin/nested-transpose-cost.rs, bin/heavily-nested-transpose-cost.rs), a *)
(* filtered sum over rows or columns (bin/row-vs-columnar.rs), and one     *)
(* over a file of a format that is read in pieces, whole or by the one     *)
(* column (bin/ipc-vs-parquet.rs).  Each ends with a comparison of sums.   *)
(*                                                                         *)
(* Numbers are halves: all of them, and their sums, are exact in Float64.  *)
(* A list's nulls and fields, which are handed on as they are, are left    *)
(* out.                                                                    *)
(***************************************************************************)
EXTENDS Integers, Sequences, FiniteSets, SequencesExt

CONSTANTS
    RowCounts,       \* rows of the generated data
    BatchShapes,     \* rows and columns of the batches that are transposed
    ListShapes,      \* for each program with lists, the longest per level
    DecoderBatches,  \* rows a Parquet decoder puts in a batch
    AmountThreshold

ASSUME LayoutAssumption ==
    /\ RowCounts \subseteq Nat /\ BatchShapes \subseteq Nat \X Nat
    /\ \A s \in ListShapes : s \in Seq(Nat \ {0}) /\ Len(s) \in {1, 3}
    /\ DecoderBatches \subseteq Nat \ {0} /\ AmountThreshold \in Int

VARIABLE bench  \* the program and what it holds

SumAll(values) == FoldLeft(LAMBDA total, v : total + v, 0, values)
Transformed(values) == [i \in DOMAIN values |-> values[i] + 2]

(* The exit code. *)
Concluded(ok) == [at |-> "exit", of |-> bench, ok |-> ok]

-----------------------------------------------------------------------------
(* Columns to rows and back *)

(* generate_columns; a row count is given apart from the columns. *)
GenerateColumns(rows, cols) == [c \in 1..cols |-> [r \in 1..rows |-> 2 * (r + c)]]

ColumnarBatches ==
    {[at |-> "columns", rows |-> n, columns |-> GenerateColumns(s[1], s[2])] :
        s \in BatchShapes, n \in {t[1] : t \in BatchShapes}}

(* ColumnarBatch::try_new *)
TryNewColumnar ==
    /\ bench.at = "columns"
    /\ bench' = IF \A c \in DOMAIN bench.columns : Len(bench.columns[c]) = bench.rows
                THEN [bench EXCEPT !.at = "columnar"]
                ELSE [at |-> "mismatch", of |-> bench]

(* ColumnarBatch::to_row_major: element (r, c) goes to r * cols + c. *)
ToRowMajor ==
    /\ bench.at = "columnar"
    /\ LET cols == Len(bench.columns) IN
       bench' = [at |-> "row_major", rows |-> bench.rows, cols |-> cols,
                 of |-> bench.columns,
                 buffer |-> [i \in 1..(bench.rows * cols) |->
                                bench.columns[((i - 1) % cols) + 1][((i - 1) \div cols) + 1]]]

(* RowBatch::try_new, of the transformed buffer. *)
TryNewRows ==
    /\ bench.at = "row_major"
    /\ bench' = IF Len(bench.buffer) = bench.rows * bench.cols
                THEN [bench EXCEPT !.at = "rows", !.buffer = Transformed(@)]
                ELSE [at |-> "mismatch", of |-> bench]

(* RowBatch::to_columnar *)
ToColumnar ==
    /\ bench.at = "rows"
    /\ bench' = [at |-> "back", of |-> bench.of,
                 columns |-> [c \in 1..bench.cols |-> [r \in 1..bench.rows |->
                                 bench.buffer[(r - 1) * bench.cols + c]]]]

(* transform_columnar *)
TransformColumns(columns) == [c \in DOMAIN columns |-> Transformed(columns[c])]

CompareTransposition ==
    /\ bench.at = "back"
    /\ bench' = Concluded(SumAll(FlattenSeq(TransformColumns(bench.of)))
                         = SumAll(FlattenSeq(bench.columns)))

-----------------------------------------------------------------------------
(* Lists: the offsets of each level, the outermost first, and the leaves *)

(* Where each element begins, and where the last ends. *)
OffsetsOf(lengths) ==
    [i \in 1..(Len(lengths) + 1) |-> SumAll(SubSeq(lengths, 1, i - 1))]

(* generate_nested_column, of lists of numbers. *)
GenerateLists(rows, max_len) ==
    LET len(r) == (r % max_len) + 1
    IN  [offsets |-> <<OffsetsOf([r \in 1..rows |-> len(r - 1)])>>,
         leaf |-> FlattenSeq([r \in 1..rows |-> [i \in 1..len(r - 1) |-> 2 * (r + i - 2)]])]

(* generate_nested_column, of lists of wrappers of lists of items of lists *)
(* of numbers.                                                             *)
GenerateWrappers(rows, max) ==
    LET wrappers(r) == (r % max[1]) + 1
        items(r, w) == ((r + w) % max[2]) + 1
        len(r, w, it) == ((r + w + it) % max[3]) + 1
        eachRow(F(_)) == FlattenSeq([r \in 1..rows |-> F(r - 1)])
        eachWrapper(F(_, _)) ==
            eachRow(LAMBDA r : FlattenSeq([w \in 1..wrappers(r) |-> F(r, w - 1)]))
    IN  [offsets |->
           <<OffsetsOf([r \in 1..rows |-> wrappers(r - 1)]),
             OffsetsOf(eachWrapper(LAMBDA r, w : <<items(r, w)>>)),
             OffsetsOf(eachWrapper(LAMBDA r, w : [it \in 1..items(r, w) |-> len(r, w, it - 1)]))>>,
         leaf |-> eachWrapper(LAMBDA r, w : FlattenSeq([it \in 1..items(r, w) |->
                     [i \in 1..len(r, w, it - 1) |-> 2 * (r + w + it + i - 2)]]))]

Lists ==
    {[at |-> "lists", list |-> IF Len(s) = 1 THEN GenerateLists(n, s[1])
                                             ELSE GenerateWrappers(n, s),
      built |-> [offsets |-> [l \in 1..Len(s) |-> <<0>>], leaf |-> <<>>]] :
        n \in RowCounts, s \in ListShapes}

RowsOf(list) == Len(list.offsets[1]) - 1

(* transform_columnar: the same offsets around the transformed leaves. *)
TransformLeaves(list) == [list EXCEPT !.leaf = Transformed(@)]

(* Which elements of each level are under row i: a window per level. *)
Under(list, i) ==
    LET window[l \in 1..(Len(list.offsets) + 1)] ==
            IF l = 1 THEN <<i, i + 1>>
            ELSE LET w == window[l - 1]
                 IN  <<list.offsets[l - 1][w[1] + 1], list.offsets[l - 1][w[2] + 1]>>
    IN  window

(* append_wrapper and append_item: what the builders do to one level. *)
Appended(offsets, lengths) ==
    offsets \o [i \in DOMAIN lengths |-> Last(offsets) + SumAll(SubSeq(lengths, 1, i))]

(* transform_row_round_trip, of the first row that is not built yet.       *)
AppendRow ==
    /\ bench.at = "lists" /\ RowsOf(bench.built) < RowsOf(bench.list)
    /\ LET list == bench.list
           under == Under(list, RowsOf(bench.built))
           lengths(l) == [i \in 1..(under[l][2] - under[l][1]) |->
               list.offsets[l][under[l][1] + i + 1] - list.offsets[l][under[l][1] + i]]
           depth == Len(list.offsets)
       IN  bench' = [bench EXCEPT
              !.built.offsets = [l \in 1..depth |-> Appended(@[l], lengths(l))],
              !.built.leaf = @ \o Transformed(SubSeq(list.leaf, under[depth + 1][1] + 1,
                                                     under[depth + 1][2]))]

CompareLists ==
    /\ bench.at = "lists" /\ RowsOf(bench.built) = RowsOf(bench.list)
    /\ bench' = Concluded(SumAll(TransformLeaves(bench.list).leaf) = SumAll(bench.built.leaf))

-----------------------------------------------------------------------------
(* A filtered sum over rows, over a column, and over a column at once *)

(* generate_rows; the amounts of ipc-vs-parquet are the same. *)
GenerateRows(n) == [i \in 1..n |-> [id |-> i - 1, amount |-> 2 * ((i - 1) % 100) + 1]]
AmountColumn(rs) == [i \in DOMAIN rs |-> rs[i].amount]

SumRows(rs) ==
    FoldLeft(LAMBDA total, r : IF r.amount > AmountThreshold THEN total + r.amount ELSE total,
             0, rs)

(* filter(gt(amounts, threshold)) *)
Kept(amounts) ==
    FlattenSeq([i \in DOMAIN amounts |->
                   IF amounts[i] > AmountThreshold THEN <<amounts[i]>> ELSE <<>>])

(* The sum of what is kept, nothing being zero. *)
SumColumnar(amounts) == SumAll(Kept(amounts))

SumFused(amounts) ==
    FoldLeft(LAMBDA total, a : IF a > AmountThreshold THEN total + a ELSE total, 0, amounts)

Orderings == {[at |-> "rows_or_columns", data |-> GenerateRows(n)] : n \in RowCounts}

CompareOrientations ==
    /\ bench.at = "rows_or_columns"
    /\ LET byRow == SumRows(bench.data)
           amounts == AmountColumn(bench.data)
       IN  bench' = Concluded(byRow = SumColumnar(amounts) /\ byRow = SumFused(amounts))

-----------------------------------------------------------------------------
(* Files *)

AMOUNT_COLUMN_INDEX == 1

(* generate_batch: four columns. *)
GenerateBatch(n) ==
    LET rs == GenerateRows(n) IN
    <<[i \in 1..n |-> rs[i].id], AmountColumn(rs), [i \in 1..n |-> i], [i \in 1..n |-> 0 - i]>>

(* The batches a reader yields (external): those that were written to an   *)
(* IPC file; of a Parquet row group, pieces of the decoder's size.         *)
Pieces(values, size) ==
    [p \in 1..((Len(values) + size - 1) \div size) |->
        SubSeq(values, (p - 1) * size + 1, IF p * size < Len(values) THEN p * size ELSE Len(values))]

Yielded(format, values, size) ==
    IF format = "ipc" THEN <<values>> ELSE Pieces(values, size)

(* read_ipc_full_scan: the first batch. *)
ReadIpcFull(batch, size) ==
    SumColumnar(Yielded("ipc", batch[AMOUNT_COLUMN_INDEX + 1], size)[1])

(* read_ipc_narrow_projection: the projected column is the first. *)
ReadIpcNarrow(batch, size) ==
    LET projected == <<batch[AMOUNT_COLUMN_INDEX + 1]>>
    IN  SumColumnar(Yielded("ipc", projected[1], size)[1])

(* read_parquet_full_scan: the batches put together. *)
ReadParquetFull(batch, size) ==
    SumColumnar(FlattenSeq(Yielded("parquet", batch[AMOUNT_COLUMN_INDEX + 1], size)))

(* A reader that stops after the first batch. *)
ReadParquetFirst(batch, size) ==
    LET pieces == Yielded("parquet", batch[AMOUNT_COLUMN_INDEX + 1], size)
    IN  IF pieces = <<>> THEN 0 ELSE SumColumnar(pieces[1])

(* read_parquet_narrow_projection: the sums of the batches. *)
ReadParquetNarrow(batch, size) ==
    LET projected == <<batch[AMOUNT_COLUMN_INDEX + 1]>>
        pieces == Yielded("parquet", projected[1], size)
    IN  SumAll([p \in DOMAIN pieces |-> SumColumnar(pieces[p])])

Files ==
    {[at |-> "file", batch |-> GenerateBatch(n), size |-> d] :
        n \in RowCounts, d \in DecoderBatches}

CompareFormats ==
    /\ bench.at = "file"
    /\ LET answer == ReadIpcFull(bench.batch, bench.size) IN
       bench' = Concluded(/\ ReadIpcNarrow(bench.batch, bench.size) = answer
                       /\ ReadParquetFull(bench.batch, bench.size) = answer
                       /\ ReadParquetNarrow(bench.batch, bench.size) = answer)

-----------------------------------------------------------------------------

LayoutIdle == bench = [at |-> "idle"]

LayoutInit == bench \in ColumnarBatches \union Lists \union Orderings \union Files

LayoutNext ==
    \/ TryNewColumnar \/ ToRowMajor \/ TryNewRows \/ ToColumnar \/ CompareTransposition
    \/ AppendRow \/ CompareLists \/ CompareOrientations \/ CompareFormats

LayoutSpec == LayoutInit /\ [][LayoutNext]_bench

-----------------------------------------------------------------------------
(* Properties *)

(* No program reports a mismatch; and what its sums would not notice, the  *)
(* layouts keep: a batch that goes to rows and back has each value         *)
(* transformed once and where it was, a list built row by row has the      *)
(* offsets of every level and the leaves of the one transformed in its     *)
(* flat buffer, and a sum over a file is that of the rows it was made of.  *)
LayoutsAgree ==
    /\ bench.at = "exit" => bench.ok
    /\ bench.at = "back" => bench.columns = TransformColumns(bench.of)
    /\ bench.at = "lists" /\ RowsOf(bench.built) = RowsOf(bench.list) =>
         bench.built = TransformLeaves(bench.list)
    /\ bench.at = "file" =>
         ReadIpcFull(bench.batch, bench.size) = SumRows(GenerateRows(Len(bench.batch[1])))
=============================================================================
