----------------------------- MODULE FixtureRows -----------------------------
(***************************************************************************)
(* CSV fixtures to typed rows and batches: read_csv_rows and the row       *)
(* parsers of crates/pipeline/src/lib.rs and datafusion_query.rs, which    *)
(* read a whole file before anything is built, and the loop of             *)
(* produce_batches (bounded.rs), which sends a batch as soon as it is full.*)
(* (BoundedPipeline has the stream's channel, budget and cancellation.)    *)
(*                                                                         *)
(* A cell is a text that is compared as a whole, or a decimal numeral (an  *)
(* amount): its sign, its digits before the point, whether there is a      *)
(* point, and the digits after it.                                         *)
(***************************************************************************)
EXTENDS Integers, Sequences, SequencesExt

CONSTANTS
    Files,        \* [table, header: number of columns, records: cells]
    BatchSize,    \* rows of a full batch
    AmountLimit   \* the largest unscaled amount (9_999_999_999)

ASSUME BoundsAssumption == BatchSize \in Nat \ {0} /\ AmountLimit \in Nat

Cells ==
    [text : STRING]
    \union [sign : {"", "-", "+"}, whole : Seq(0..9), point : BOOLEAN, frac : Seq(0..9)]

(* A file without a header has no records either. *)
ASSUME FilesAssumption ==
    /\ Files \subseteq [table : {"ingest", "orders", "shipments"}, header : Nat,
                        records : Seq(Seq(Cells))]
    /\ \A f \in Files : f.header = 0 => f.records = <<>>

VARIABLES file, at, rows, chunk, sent, outcome

vars == <<file, at, rows, chunk, sent, outcome>>

-----------------------------------------------------------------------------

Text(t) == [text |-> t]
Numeral(sign, whole, point, frac) ==
    [sign |-> sign, whole |-> whole, point |-> point, frac |-> frac]

Null == [null |-> TRUE]
Ints == [zero |-> 0, one |-> 1, two |-> 2]
Instants == [t0 |-> 0, t1 |-> 1]

(* record.get(i).unwrap_or_default() *)
Cell(record, i) == IF i \in DOMAIN record THEN record[i] ELSE Text("")

Parsed(value) == [ok |-> TRUE, value |-> value]
Failed(error) == [ok |-> FALSE, error |-> error]

ParseId(record) ==
    LET cell == Cell(record, 1)
    IN  IF "text" \in DOMAIN cell /\ cell.text \in DOMAIN Ints
        THEN Parsed(Ints[cell.text]) ELSE Failed("InvalidId")

ParseTimestamp(cell) ==
    IF "text" \in DOMAIN cell /\ cell.text \in DOMAIN Instants
    THEN Parsed(Instants[cell.text]) ELSE Failed("InvalidTimestamp")

(* The number that a sequence of digits writes. *)
Digits(ds) == FoldLeft(LAMBDA n, d : 10 * n + d, 0, ds)

ParseAmountSignOfWhole(cell) ==
    IF ~("whole" \in DOMAIN cell /\ cell.point /\ cell.whole # <<>> /\ Len(cell.frac) = 2)
    THEN Failed("InvalidAmount")
    ELSE LET whole == (IF cell.sign = "-" THEN -1 ELSE 1) * Digits(cell.whole)
             amount == 100 * whole + (IF whole < 0 THEN -1 ELSE 1) * Digits(cell.frac)
         IN  IF amount \in -AmountLimit..AmountLimit
             THEN Parsed(amount) ELSE Failed("InvalidAmount")

(* The sign goes to both parts: the whole one parses with it, the fraction *)
(* takes it from the text, as a whole part of -0 has lost it.              *)
ParseAmount(cell) ==
    IF ~("whole" \in DOMAIN cell /\ cell.point /\ cell.whole # <<>> /\ Len(cell.frac) = 2)
    THEN Failed("InvalidAmount")
    ELSE LET sign == IF cell.sign = "-" THEN -1 ELSE 1
             whole == sign * Digits(cell.whole)
             amount == 100 * whole + sign * Digits(cell.frac)
         IN  IF amount \in -AmountLimit..AmountLimit
             THEN Parsed(amount) ELSE Failed("InvalidAmount")

NoteOf(cell) == IF cell = Text("") THEN Null ELSE cell

(* The first of the results that failed, or the row of their values. *)
RowOf(results) ==
    LET bad == {i \in DOMAIN results : ~results[i].ok}
    IN  IF bad # {} THEN results[Min(bad)]
        ELSE Parsed([i \in DOMAIN results |-> results[i].value])

ParseRow(record) ==
    RowOf(<<ParseId(record), Parsed(Cell(record, 2)), Parsed(NoteOf(Cell(record, 3)))>>)

ParseOrderRow(record) ==
    RowOf(<<ParseId(record), ParseAmount(Cell(record, 2)),
            ParseTimestamp(Cell(record, 3)), Parsed(NoteOf(Cell(record, 4)))>>)

ParseShipmentRow(record) ==
    RowOf(<<ParseId(record), Parsed(Cell(record, 2)), ParseTimestamp(Cell(record, 3))>>)

(* The csv reader refuses a record that is not as wide as the header. *)
ParseRecord(f, record) ==
    IF Len(record) # f.header THEN Failed("ReadRecord")
    ELSE CASE f.table = "ingest" -> ParseRow(record)
           [] f.table = "orders" -> ParseOrderRow(record)
           [] f.table = "shipments" -> ParseShipmentRow(record)

(* slice::chunks: the rows in batches of BatchSize, the last one shorter. *)
Chunks(rs) ==
    [i \in 1..((Len(rs) + BatchSize - 1) \div BatchSize) |->
        SubSeq(rs, (i - 1) * BatchSize + 1,
               IF i * BatchSize < Len(rs) THEN i * BatchSize ELSE Len(rs))]

-----------------------------------------------------------------------------

Init ==
    /\ file \in Files
    /\ at = 1
    /\ rows = <<>> /\ chunk = <<>> /\ sent = <<>>
    /\ outcome = [done |-> FALSE]

InFile == ~outcome.done /\ at <= Len(file.records)

ChunkFullOffByOne(c) == Len(c) > BatchSize

ChunkFull(c) == Len(c) = BatchSize

(* One record of read_csv_rows, and of the loop of produce_batches. *)
ReadRecord ==
    /\ InFile
    /\ LET row == ParseRecord(file, file.records[at])
           longer == Append(chunk, row.value)
       IN  /\ row.ok
           /\ rows' = Append(rows, row.value)
           /\ IF ChunkFull(longer)
              THEN sent' = Append(sent, longer) /\ chunk' = <<>>
              ELSE chunk' = longer /\ UNCHANGED sent
    /\ at' = at + 1
    /\ UNCHANGED <<file, outcome>>

(* The whole read fails; the stream sends the error after its full batches.*)
FailRecord ==
    /\ InFile
    /\ LET row == ParseRecord(file, file.records[at])
       IN  ~row.ok /\ outcome' = [done |-> TRUE, ok |-> FALSE,
                                  error |-> row.error, row |-> at - 1]
    /\ UNCHANGED <<file, at, rows, chunk, sent>>

(* The end of the file: the stream sends what is left. *)
EndOfFile ==
    /\ ~outcome.done /\ at > Len(file.records)
    /\ sent' = IF chunk = <<>> THEN sent ELSE Append(sent, chunk)
    /\ chunk' = <<>>
    /\ outcome' = [done |-> TRUE, ok |-> TRUE]
    /\ UNCHANGED <<file, at, rows>>

Next == ReadRecord \/ FailRecord \/ EndOfFile

Spec == Init /\ [][Next]_vars

-----------------------------------------------------------------------------
(* Properties *)

(* Reading a file in batches and reading it whole are the same: a stream   *)
(* that ends has sent the chunks of all rows, neither an empty one nor one *)
(* too long, and one that fails has sent the full batches before the       *)
(* record that fails, which is the first the whole read fails at too.      *)
StreamIsTheWholeRead ==
    LET before == [i \in 1..(at - 1) |-> ParseRecord(file, file.records[i]).value]
        whole == (Len(before) \div BatchSize) * BatchSize
    IN  /\ outcome.done /\ outcome.ok => sent = Chunks(before) /\ rows = before
        /\ outcome.done /\ ~outcome.ok =>
             /\ sent = Chunks(SubSeq(before, 1, whole))
             /\ outcome.row = Len(before)
             /\ outcome.error # "ReadRecord" <=> Len(file.records[at]) = file.header

(* An order's amount is exactly what its text says, read as one number of  *)
(* hundredths with the text's sign (-0.50 is not 0.50), and an amount is   *)
(* refused only if it is no numeral, has no digit before the point, not    *)
(* two after it, or more than Decimal128(10, 2) holds.                     *)
AmountsAreExact ==
    LET cell(i) == Cell(file.records[i], 2)
        value(i) == (IF cell(i).sign = "-" THEN -1 ELSE 1)
                    * Digits(cell(i).whole \o cell(i).frac)
        fits(i) == value(i) \in -AmountLimit..AmountLimit
    IN  file.table = "orders" =>
            /\ \A i \in 1..(at - 1) : rows[i][2] = value(i) /\ fits(i)
            /\ outcome.done /\ ~outcome.ok /\ outcome.error = "InvalidAmount" =>
                  "text" \in DOMAIN cell(at) \/ ~cell(at).point \/ cell(at).whole = <<>>
                  \/ Len(cell(at).frac) # 2 \/ ~fits(at)
=============================================================================
