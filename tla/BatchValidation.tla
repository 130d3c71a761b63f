-------------------------- MODULE BatchValidation --------------------------
(***************************************************************************)
(* The prepared check of a batch (crates/contracts/src/arrow/validation.rs)*)
(* against the physical fields of a declaration: the schema first, then    *)
(* every value that is visible, column by column and row by row.           *)
(*                                                                         *)
(* A field is [name, nullable, type, metadata, children].  An array holds  *)
(* a representation, the validity of its slots, and its children: for a    *)
(* struct one array of as many slots per field, for a list or a map one    *)
(* array of which slot r has the window offsets[r]+1 .. offsets[r+1].      *)
(* Slots count from 1.  What an array holds is not trusted: arrays made    *)
(* outside the safe constructors arrive here.                              *)
(*                                                                         *)
(* As in ContractPolicy, an operator takes the results for the fields and  *)
(* arrays below as its last argument, and a function of the levels ties it *)
(* to itself.                                                              *)
(***************************************************************************)
EXTENDS Integers, Sequences, SequencesExt

CONSTANTS
    Levels,  \* the levels of the deepest field
    Batches  \* the batches that may arrive

VARIABLES
    arrived,  \* the batch: its fields, its columns
    verdict   \* what validate returns

batchVars == <<arrived, verdict>>

-----------------------------------------------------------------------------
(* Fields and arrays *)

Nested == {"Struct", "Sequence", "Map"}
Segment == STRING \X STRING

Fields(below) ==
    {field \in [name : Segment, nullable : BOOLEAN, type : STRING, metadata : STRING,
                children : Seq(below)] :
        field.type \in {"Sequence", "Map"} => Len(field.children) = 1}
FieldsTo[n \in Nat] == IF n = 0 THEN {} ELSE Fields(FieldsTo[n - 1])

Arrays(below) ==
    [holds : STRING, valid : Seq(BOOLEAN), offsets : Seq(Nat), children : Seq(below)]
ArraysTo[n \in Nat] == IF n = 0 THEN {} ELSE Arrays(ArraysTo[n - 1])

(* A list or a map of as many windows as slots, in order, over its child. *)
HasWindows(array, child) ==
    /\ Len(array.offsets) = Len(array.valid) + 1
    /\ \A i \in DOMAIN array.valid : array.offsets[i] <= array.offsets[i + 1]
    /\ \A i \in DOMAIN array.offsets : array.offsets[i] <= Len(child.valid)

(* An array that declares the field's type: one of the standard nested     *)
(* implementations, or any other.                                          *)
IsArrayOf(array, field, below) ==
    field.type \in Nested /\ array.holds = field.type =>
        /\ Len(array.children) = Len(field.children)
        /\ \A i \in DOMAIN field.children :
              <<array.children[i], field.children[i]>> \in below
        /\ IF field.type = "Struct"
           THEN \A i \in DOMAIN array.children :
                   Len(array.children[i].valid) = Len(array.valid)
           ELSE HasWindows(array, array.children[1])
ArrayOf[n \in Nat] ==
    IF n = 0 THEN {}
    ELSE {af \in ArraysTo[n] \X FieldsTo[n] : IsArrayOf(af[1], af[2], ArrayOf[n - 1])}

(* RecordBatch: a column for each field, all of as many rows. *)
ASSUME BatchesAssumption ==
    /\ Levels \in Nat
    /\ \A b \in Batches :
          /\ b.fields \in Seq(FieldsTo[Levels]) /\ b.columns \in Seq(ArraysTo[Levels])
          /\ Len(b.columns) = Len(b.fields)
          /\ \A i \in DOMAIN b.fields : <<b.columns[i], b.fields[i]>> \in ArrayOf[Levels]
          /\ \A i, j \in DOMAIN b.fields : Len(b.columns[i].valid) = Len(b.columns[j].valid)

-----------------------------------------------------------------------------
(* Nodes: a field with its path and the nodes below it *)

Brackets == <<"[]", "[]">>

Nodes(below) ==
    [nullable : BOOLEAN, path : Seq(Segment), type : STRING, children : Seq(below)]
NodesTo[n \in Nat] == IF n = 0 THEN {} ELSE Nodes(NodesTo[n - 1])

(* Where the child of a field is. *)
Below(field, path, child) ==
    CASE field.type = "Struct" -> Append(path, child.name)
      [] field.type = "Sequence" -> Append(path, Brackets)
      [] OTHER -> path

NodeOf(field, path, below) ==
    [nullable |-> field.nullable, path |-> path, type |-> field.type,
     children |->
        IF field.type \notin Nested THEN <<>>
        ELSE [i \in DOMAIN field.children |->
                below[field.children[i]][Below(field, path, field.children[i])]]]
Node[n \in Nat] ==
    IF n = 0 THEN <<>>
    ELSE [field \in FieldsTo[n] |-> [path \in Seq(Segment) |-> NodeOf(field, path, Node[n - 1])]]

(* Names, nullability and types, at every level; metadata is not read. *)
FieldMatches(a, b, below) ==
    /\ a.name = b.name /\ a.nullable = b.nullable /\ a.type = b.type
    /\ Len(a.children) = Len(b.children)
    /\ \A i \in DOMAIN a.children : <<a.children[i], b.children[i]>> \in below
Matching[n \in Nat] ==
    IF n = 0 THEN {}
    ELSE {ab \in FieldsTo[n] \X FieldsTo[n] : FieldMatches(ab[1], ab[2], Matching[n - 1])}

FieldsMatch(expected, found) ==
    /\ Len(expected) = Len(found)
    /\ \A i \in DOMAIN expected : <<expected[i], found[i]>> \in Matching[Levels]

-----------------------------------------------------------------------------
(* The check *)

Accepted == [kind |-> "Ok", path |-> <<>>, row |-> 0]
SchemaMismatch == [kind |-> "SchemaMismatch", path |-> <<>>, row |-> 0]
RequiredNull(path, row) == [kind |-> "RequiredNull", path |-> path, row |-> row]
Representation(path) == [kind |-> "Representation", path |-> path, row |-> 0]

(* The slots of the values of a list or a map. *)
WindowRebased(array, row) ==
    [k \in 1..(array.offsets[row + 1] - array.offsets[row]) |-> k]
Window(array, row) ==
    [k \in 1..(array.offsets[row + 1] - array.offsets[row]) |-> array.offsets[row] + k]

(* Node::validate: the violations of one slot, in the order met. *)
Met(node, array, row, below) ==
    IF ~array.valid[row]
    THEN IF node.nullable THEN <<>> ELSE <<RequiredNull(node.path, row)>>
    ELSE IF node.type \notin Nested THEN <<>>
    ELSE IF array.holds # node.type THEN <<Representation(node.path)>>
    ELSE IF node.type = "Struct"
    THEN FlattenSeq([i \in DOMAIN node.children |->
            below[node.children[i]][array.children[i]][row]])
    ELSE LET slots == Window(array, row)
         IN  FlattenSeq([k \in DOMAIN slots |->
                below[node.children[1]][array.children[1]][slots[k]]])
Violations[n \in Nat] ==
    IF n = 0 THEN <<>>
    ELSE [node \in NodesTo[n] |-> [array \in ArraysTo[n] |-> [row \in Nat |->
            Met(node, array, row, Violations[n - 1])]]]

(* BatchValidator::validate: the first violation, or none. *)
Column(field, array) ==
    LET node == Node[Levels][field][<<field.name>>]
    IN  FlattenSeq([row \in DOMAIN array.valid |-> Violations[Levels][node][array][row]])

Validate(expected, batch) ==
    LET found == FlattenSeq([i \in DOMAIN expected |-> Column(expected[i], batch.columns[i])])
    IN  IF ~FieldsMatch(expected, batch.fields) THEN SchemaMismatch
        ELSE IF found = <<>> THEN Accepted ELSE found[1]

Nothing == [fields |-> <<>>, columns |-> <<>>]

NoArrival == arrived = Nothing /\ verdict = Accepted

(* A batch of the source reaches its validator. *)
Arrive(expected) ==
    \E b \in Batches : arrived' = b /\ verdict' = Validate(expected, b)

-----------------------------------------------------------------------------
(* What a reader of the columns can reach: from the slots of an array that *)
(* are in view, the ones that are null though the field is required, and   *)
(* the nested ones of another representation.                              *)

Live(array, view) == {r \in view : array.valid[r]}
Windows(array, view) == UNION {(array.offsets[r] + 1)..array.offsets[r + 1] : r \in view}

Reached(field, path, array, view, below) ==
    LET live == Live(array, view)
        inner == IF field.type = "Struct" THEN live ELSE Windows(array, live)
    IN  {RequiredNull(path, r) : r \in IF field.nullable THEN {} ELSE view \ live}
        \union
        IF field.type \notin Nested \/ live = {} THEN {}
        ELSE IF array.holds # field.type THEN {Representation(path)}
        ELSE UNION {below[field.children[i]][Below(field, path, field.children[i])]
                         [array.children[i]][inner] : i \in DOMAIN field.children}
Unreadable[n \in Nat] ==
    IF n = 0 THEN <<>>
    ELSE [field \in FieldsTo[n] |-> [path \in Seq(Segment) |-> [array \in ArraysTo[n] |->
            [view \in SUBSET Nat |-> Reached(field, path, array, view, Unreadable[n - 1])]]]]

(* A field without what a schema says beyond names, nullability and types. *)
Strip(field, below) ==
    [name |-> field.name, nullable |-> field.nullable, type |-> field.type,
     children |-> [i \in DOMAIN field.children |-> below[field.children[i]]]]
Stripped[n \in Nat] ==
    IF n = 0 THEN <<>> ELSE [field \in FieldsTo[n] |-> Strip(field, Stripped[n - 1])]

(* A batch passes exactly when it has the declared schema, metadata apart, *)
(* and everything a reader can reach through live parents and collection   *)
(* windows is there; a refusal names one of the places that are not, in    *)
(* the first column that has one.  What only a null parent or an unused    *)
(* window hides never counts, and what a window past the first begins with *)
(* does.                                                                   *)
ReadsWhatIsVisible(expected) ==
    LET plain(fields) == [i \in DOMAIN fields |-> Stripped[Levels][fields[i]]]
        wrong(i) == Unreadable[Levels][expected[i]][<<expected[i].name>>]
                        [arrived.columns[i]][DOMAIN arrived.columns[i].valid]
        bad == {i \in DOMAIN expected : wrong(i) # {}}
    IN  IF plain(arrived.fields) # plain(expected) THEN verdict = SchemaMismatch
        ELSE IF bad = {} THEN verdict = Accepted
        ELSE \E i \in bad : (\A j \in bad : i <= j) /\ verdict \in wrong(i)
=============================================================================
