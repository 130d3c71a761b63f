---------------------------- MODULE BatchContract ----------------------------
(***************************************************************************)
(* The ingest contract and what a batch is checked for against it          *)
(* (crates/pipeline/src/batch_contract.rs).                                *)
(*                                                                         *)
(* A batch is its columns and the number of its rows.  A column has what   *)
(* the contract looks at: its field's name, type and nullability, whether  *)
(* values are null, and whether the array is of the type's usual class.    *)
(***************************************************************************)
EXTENDS Integers, Sequences

Column(name, type, nullable) ==
    [name |-> name, type |-> type, nullable |-> nullable,
     nulls |-> FALSE, concrete |-> TRUE]

IngestFields ==
    <<Column("id", "Int64", FALSE), Column("name", "Utf8", FALSE),
      Column("note", "Utf8", TRUE)>>

Field(c) == <<c.name, c.type, c.nullable>>
Fields(columns) == [i \in DOMAIN columns |-> Field(columns[i])]

(* The checks of one column, in their order. *)
ColumnViolations(i, c) ==
    LET expected == IngestFields[i]
    IN  (IF c.name # expected.name THEN <<"FieldName">> ELSE <<>>)
        \o (IF c.type # expected.type THEN <<"DataType">> ELSE <<>>)
        \o (IF c.nullable # expected.nullable THEN <<"Nullability">> ELSE <<>>)
        \o (IF ~expected.nullable /\ c.nulls THEN <<"NullValues">> ELSE <<>>)

Least(S) == CHOOSE i \in S : \A j \in S : i <= j

(* validated_columns by names and types alone. *)
ViolationOfFields(b) ==
    LET columns == b.columns
        wrong == {i \in DOMAIN IngestFields :
                    i \in DOMAIN columns /\ Field(columns[i]) # Field(IngestFields[i])}
    IN  IF Len(columns) # Len(IngestFields) THEN <<"ColumnCount", 0>>
        ELSE IF wrong # {} THEN <<"FieldName", Least(wrong)>>
        ELSE <<>>

(* validated_columns: the first violation and its column, or none. *)
Violation(b) ==
    LET columns == b.columns
        wrong == {i \in DOMAIN IngestFields : ColumnViolations(i, columns[i]) # <<>>}
        opaque == {i \in DOMAIN IngestFields : ~columns[i].concrete}
    IN  IF Len(columns) # Len(IngestFields) THEN <<"ColumnCount", 0>>
        ELSE IF wrong # {}
             THEN LET i == Least(wrong) IN <<ColumnViolations(i, columns[i])[1], i>>
        ELSE IF opaque # {} THEN <<"ArrayRepresentation", Least(opaque)>>
        ELSE <<>>
=============================================================================
