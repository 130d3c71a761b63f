------------------------------ MODULE CsvSelect ------------------------------
(***************************************************************************)
(* csv-select (crates/csv-cli/src/bin/csv-select.rs): one column of a CSV  *)
(* file, copied to the standard output record by record, so that an error  *)
(* comes after part of the answer.                                         *)
(*                                                                         *)
(* The writer's buffer is written when it is full, when it is flushed and, *)
(* whatever comes of it, when it is dropped.                               *)
(***************************************************************************)
EXTENDS FixtureRows

CONSTANT SelectColumns  \* the columns asked for, from zero

ASSUME ColumnsAssumption == SelectColumns \subseteq Nat

VARIABLES
    args,      \* the column, and whether the first record is data
    line,      \* the record that is read next
    buffered,  \* the fields the writer holds
    stdout,    \* the fields written
    exit       \* "none" while it runs, "success", or the error

selectVars == <<args, line, buffered, stdout, exit>>

HeaderOf(f) == [i \in 1..f.header |-> Text("name")]

(* The records that are selected from: the headers and then the rest,      *)
(* which is every record of the file either way, but an empty file still   *)
(* has headers, of no column.                                              *)
Selected ==
    IF file.header = 0 THEN IF args.no_headers THEN <<>> ELSE <<<<>>>>
    ELSE <<HeaderOf(file)>> \o file.records

FieldOf(record) == record[args.column + 1]

(* What is wrong with a record: the reader asks for the width of the first *)
(* one, then select_field for the column.                                  *)
Trouble(record) ==
    IF Len(record) # Len(Selected[1]) THEN "ReadRecord"
    ELSE IF args.column >= Len(record) THEN "ColumnOutOfRange" ELSE "none"

-----------------------------------------------------------------------------

Unread == line = 1 /\ buffered = <<>> /\ stdout = <<>> /\ exit = "none"

SelectIdle == args = [column |-> 0, no_headers |-> FALSE] /\ Unread

SelectInit == args \in [column : SelectColumns, no_headers : BOOLEAN] /\ Unread

OpenFails ==
    /\ Unread
    /\ exit' = "OpenInput"
    /\ UNCHANGED <<args, line, buffered, stdout>>

(* select_and_write *)
SelectAndWrite ==
    /\ exit = "none" /\ line <= Len(Selected)
    /\ Trouble(Selected[line]) = "none"
    /\ buffered' = Append(buffered, FieldOf(Selected[line]))
    /\ line' = line + 1
    /\ UNCHANGED <<args, stdout, exit>>

(* The writer's buffer is full. *)
WriteBuffer ==
    /\ exit = "none" /\ buffered # <<>>
    /\ stdout' = stdout \o buffered
    /\ buffered' = <<>>
    /\ UNCHANGED <<args, line, exit>>

(* Part of the buffer may be out, and nothing else will follow. *)
Partly == \E n \in 0..Len(buffered) : stdout' = stdout \o SubSeq(buffered, 1, n)

WriteFails ==
    /\ exit = "none" /\ buffered # <<>>
    /\ Partly /\ buffered' = <<>>
    /\ exit' = "WriteOutput"
    /\ UNCHANGED <<args, line>>

(* The error of a record; the writer is dropped, and what it held goes out *)
(* or is lost without another error.                                       *)
SelectFails ==
    /\ exit = "none" /\ line <= Len(Selected)
    /\ Trouble(Selected[line]) # "none"
    /\ exit' = Trouble(Selected[line])
    /\ Partly /\ buffered' = <<>>
    /\ UNCHANGED <<args, line>>

Flush ==
    /\ exit = "none" /\ line > Len(Selected)
    /\ stdout' = stdout \o buffered /\ buffered' = <<>>
    /\ exit' = "success"
    /\ UNCHANGED <<args, line>>

SelectNext ==
    OpenFails \/ SelectAndWrite \/ WriteBuffer \/ WriteFails \/ SelectFails \/ Flush

SelectSpec == Init /\ SelectInit /\ [][SelectNext /\ UNCHANGED vars]_<<vars, selectVars>>

-----------------------------------------------------------------------------
(* Properties *)

(* What is on the standard output is always the column of the beginning of *)
(* the file, and of all of it if the program says so.  A column that does  *)
(* not exist is reported before any field is written, as a record that is  *)
(* too short for it is refused by the reader; and the first record of      *)
(* another width is where the typed readers stop too.                      *)
SelectionIsTheColumn ==
    LET bad == {i \in DOMAIN file.records : Len(file.records[i]) # file.header}
        column == [i \in 1..(line - 1) |-> FieldOf(Selected[i])]
    IN  /\ IsPrefix(stdout \o buffered, column)
        /\ exit = "none" => stdout \o buffered = column
        /\ exit = "success" => stdout = column /\ line = Len(Selected) + 1 /\ bad = {}
        /\ exit = "ColumnOutOfRange" => line = 1 /\ args.column >= file.header
        /\ exit = "ReadRecord" => line - 1 \in bad /\ \A i \in bad : line - 1 <= i
=============================================================================
