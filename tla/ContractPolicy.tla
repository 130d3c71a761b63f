--------------------------- MODULE ContractPolicy ---------------------------
(***************************************************************************)
(* The schema contracts of crates/contracts: the shape of a declaration,   *)
(* the comparison of a producer's shape with a contract's under a policy   *)
(* (lib.rs), and the mapping of a declaration to an Arrow schema           *)
(* (arrow.rs), which both ends of a contract pipeline prepare.             *)
(*                                                                         *)
(* A name is a pair of its lower-case form and its spelling, so that exact *)
(* equality and ASCII case-insensitive equality differ.  One behaviour is  *)
(* one connection: the build evaluates the comparison, then the pipeline   *)
(* prepares the physical schema of both ends.                              *)
(*                                                                         *)
(* The code recurses into a shape.  Here an operator takes the results for *)
(* the shapes below as its last argument, and a function of the levels of  *)
(* nesting ties it to itself: what it yields at level n comes from n - 1.  *)
(***************************************************************************)
EXTENDS Integers, Sequences, FiniteSets, SequencesExt

CONSTANTS
    Producers, Contracts,  \* the declared shapes
    Nesting,               \* the levels of the deepest of them
    MaxDiffs,              \* MAX_DIFFS: differences a message can name
    MaxPathDepth,          \* MAX_PATH_DEPTH: segments a path can hold
    MaxDepth,              \* the nesting arrow::schema supports (128)
    MaxItems               \* the items a list or a map of a record may have

VARIABLES producer, contract, policy, comparison, schemas, gate

gateVars == <<producer, contract, policy, comparison, schemas, gate>>

-----------------------------------------------------------------------------
(* Shapes *)

Primitive(name) == [kind |-> "Primitive", name |-> name]
Optional(shape) == [kind |-> "Optional", of |-> shape]
Sequence(shape) == [kind |-> "Sequence", of |-> shape]
MapOf(key, value) == [kind |-> "Map", key |-> key, value |-> value]
Struct(fields) == [kind |-> "Struct", fields |-> fields]
FieldShape(name, shape, default) ==
    [name |-> name, shape |-> shape, default |-> default]

Name == STRING \X STRING

(* TypeShape, to any depth: the shapes of at most n levels. *)
TypeShapes(below) ==
    [kind : {"Primitive"}, name : STRING]
    \union [kind : {"Optional", "Sequence"}, of : below]
    \union [kind : {"Map"}, key : below, value : below]
    \union [kind : {"Struct"}, fields : Seq([name : Name, shape : below, default : BOOLEAN])]
ShapesTo[n \in Nat] == IF n = 0 THEN {} ELSE TypeShapes(ShapesTo[n - 1])

ASSUME ShapesAssumption ==
    /\ Nesting \in Nat /\ Producers \subseteq ShapesTo[Nesting]
    /\ Contracts \subseteq ShapesTo[Nesting]
ASSUME BoundsAssumption ==
    /\ MaxDiffs \in Nat \ {0} /\ MaxPathDepth \in Nat \ {0} /\ MaxDepth \in Nat
    /\ MaxItems \in Nat \ {0}

IsOptional(shape) == shape.kind = "Optional"

(* Names are compared as written, or by their lower-case form. *)
SameName(a, b, ci) == IF ci THEN a[1] = b[1] ELSE a = b

(* shape_eq: the pairs of shapes of at most n levels that are the same. *)
ShapeEq(a, b, below) ==
    /\ a.kind = b.kind
    /\ CASE a.kind = "Primitive" -> a.name = b.name
         [] a.kind = "Map" -> <<a.key, b.key>> \in below /\ <<a.value, b.value>> \in below
         [] a.kind = "Struct" ->
              /\ Len(a.fields) = Len(b.fields)
              /\ \A i \in DOMAIN a.fields :
                    /\ a.fields[i].name = b.fields[i].name
                    /\ <<a.fields[i].shape, b.fields[i].shape>> \in below
         [] OTHER -> <<a.of, b.of>> \in below
Same[n \in Nat] ==
    IF n = 0 THEN {}
    ELSE {ab \in ShapesTo[n] \X ShapesTo[n] : ShapeEq(ab[1], ab[2], Same[n - 1])}

-----------------------------------------------------------------------------
(* Policies *)

Policies == {"Exact", "ExactUnorderedCI", "ExactOrdered", "ExactOrderedCI",
             "ExactByPosition", "Backward", "Forward", "Full"}

Modes == [ci : BOOLEAN, ordered : BOOLEAN, byPos : BOOLEAN]
ModeExactByCase(p) == [ci |-> p \in {"ExactUnorderedCI", "ExactOrderedCI"},
                       ordered |-> p \in {"ExactOrdered", "ExactOrderedCI"},
                       byPos |-> p = "ExactByPosition"]
Mode(p) == [ci |-> p \in {"Exact", "ExactUnorderedCI", "ExactOrderedCI"},
            ordered |-> p \in {"ExactOrdered", "ExactOrderedCI"},
            byPos |-> p = "ExactByPosition"]

Rejects(diff, p) ==
    CASE p = "Full" -> FALSE
      [] p = "Backward" -> \/ diff.kind = "Mismatch"
                           \/ diff.kind = "Missing" /\ ~diff.tolerable
      [] p = "Forward" -> diff.kind # "Missing"
      [] OTHER -> TRUE

-----------------------------------------------------------------------------
(* The traversal: the differences between two shapes, in the order found *)

(* A segment is a name, or a marker for a place that has none. *)
Marker(text) == <<text, text>>
Markers == {"(name)", "[]", "<key>", "<value>", "<root>", "item", "key", "value", "entries"}

(* A literal is a string: the provers do not know it. *)
Types == {"Int64", "Boolean", "Utf8", "Struct", "Sequence", "Map"}
ASSUME LiteralsAssumption == Markers \union Types \union {""} \subseteq STRING

Paths == {path \in Seq(Name) : Len(path) <= MaxPathDepth}
AppendSegment(path, segment) ==
    IF Len(path) < MaxPathDepth THEN Append(path, segment) ELSE path

Missing(path, field) ==
    [kind |-> "Missing", path |-> path,
     tolerable |-> IsOptional(field.shape) \/ field.default]
Extra(path) == [kind |-> "Extra", path |-> path, tolerable |-> FALSE]
Mismatch(path) == [kind |-> "Mismatch", path |-> path, tolerable |-> FALSE]

(* The later field of the first pair of fields that share a name. *)
Repeats(fields, i, ci) ==
    {j \in DOMAIN fields : i < j /\ SameName(fields[i].name, fields[j].name, ci)}
DuplicateNames(fields, ci) ==
    LET repeated == {i \in DOMAIN fields : Repeats(fields, i, ci) # {}}
    IN  IF repeated = {} THEN <<>>
        ELSE <<fields[Min(Repeats(fields, Min(repeated), ci))].name>>

(* Where the fields of a name are: find_field takes the first. *)
Places(fields, name, ci) == {i \in DOMAIN fields : SameName(fields[i].name, name, ci)}

(* What a contract's field is compared with. *)
Matched(p, field, path, mode, below) ==
    LET places == Places(p, field.name, mode.ci)
        at == AppendSegment(path, field.name)
    IN  IF places = {} THEN <<Missing(at, field)>>
        ELSE below[p[Min(places)].shape][field.shape][at]

Unmatched(c, field, path, mode) ==
    IF Places(c, field.name, mode.ci) = {}
    THEN <<Extra(AppendSegment(path, field.name))>> ELSE <<>>

(* Without the duplicates check, the first field of a name hides the rest. *)
CompareByNameFirstWins(p, c, path, mode, below) ==
    FlattenSeq([i \in DOMAIN c |-> Matched(p, c[i], path, mode, below)])
    \o FlattenSeq([i \in DOMAIN p |-> Unmatched(c, p[i], path, mode)])

CompareByName(p, c, path, mode, below) ==
    LET duplicates == DuplicateNames(p, mode.ci) \o DuplicateNames(c, mode.ci)
    IN  IF duplicates # <<>>
        THEN <<Mismatch(AppendSegment(path, duplicates[1]))>>
        ELSE FlattenSeq([i \in DOMAIN c |-> Matched(p, c[i], path, mode, below)])
             \o FlattenSeq([i \in DOMAIN p |-> Unmatched(c, p[i], path, mode)])

(* compare_ordered and compare_by_position: index by index, then the tails. *)
PairedUnnamed(p, c, path, mode, below) ==
    below[p.shape][c.shape][AppendSegment(path, c.name)]
Paired(p, c, path, mode, below) ==
    LET at == AppendSegment(path, IF mode.byPos THEN p.name ELSE c.name)
    IN  (IF mode.ordered /\ ~SameName(p.name, c.name, mode.ci)
         THEN <<Mismatch(AppendSegment(at, Marker("(name)")))>> ELSE <<>>)
        \o below[p.shape][c.shape][at]

CompareByIndex(p, c, path, mode, below) ==
    LET shared == IF Len(p) < Len(c) THEN Len(p) ELSE Len(c)
        at(f) == AppendSegment(path, f.name)
    IN  FlattenSeq([i \in 1..shared |-> Paired(p[i], c[i], path, mode, below)])
        \o [i \in 1..(Len(c) - shared) |-> Missing(at(c[shared + i]), c[shared + i])]
        \o [i \in 1..(Len(p) - shared) |-> Extra(at(p[shared + i]))]

CompareFields(p, c, path, mode, below) ==
    IF mode.byPos \/ mode.ordered
    THEN CompareByIndex(p, c, path, mode, below)
    ELSE CompareByName(p, c, path, mode, below)

CompareShapes(p, c, path, mode, below) ==
    IF p.kind # c.kind THEN <<Mismatch(path)>>
    ELSE CASE p.kind = "Primitive" ->
                IF p.name = c.name THEN <<>> ELSE <<Mismatch(path)>>
           [] p.kind = "Map" ->
                below[p.key][c.key][AppendSegment(path, Marker("<key>"))]
                \o below[p.value][c.value][AppendSegment(path, Marker("<value>"))]
           [] p.kind = "Optional" -> below[p.of][c.of][path]
           [] p.kind = "Sequence" -> below[p.of][c.of][AppendSegment(path, Marker("[]"))]
           [] p.kind = "Struct" -> CompareFields(p.fields, c.fields, path, mode, below)

(* The differences of shapes of at most n levels, under a mode, at a path. *)
Differences[n \in Nat] ==
    IF n = 0 THEN <<>>
    ELSE [mode \in Modes |-> [p \in ShapesTo[n] |-> [c \in ShapesTo[n] |->
            [path \in Paths |-> CompareShapes(p, c, path, mode, Differences[n - 1][mode])]]]]

(* The capacity taken by differences the policy tolerates. *)
RecordUnfiltered(found, p) ==
    LET kept == SubSeq(found, 1, IF Len(found) < MaxDiffs THEN Len(found) ELSE MaxDiffs)
        rejected(d) == Rejects(d, p)
    IN  [rejected |-> SelectSeq(found, rejected) # <<>>,
         diffs |-> SelectSeq(kept, rejected)]

(* What a push of each difference leaves: the verdict, and the named ones. *)
Record(found, p) ==
    LET rejected == FlattenSeq([i \in DOMAIN found |->
                        IF Rejects(found[i], p) THEN <<found[i]>> ELSE <<>>])
        named == IF Len(rejected) < MaxDiffs THEN Len(rejected) ELSE MaxDiffs
    IN  [rejected |-> rejected # <<>>, diffs |-> SubSeq(rejected, 1, named)]

BothStructs(p, c) == p.kind = "Struct" /\ c.kind = "Struct"

Compare(p, c, pol) ==
    Record(IF BothStructs(p, c) THEN Differences[Nesting][Mode(pol)][p][c][<<>>]
           ELSE IF <<p, c>> \in Same[Nesting] THEN <<>>
           ELSE <<Mismatch(<<Marker("<root>")>>)>>,
           pol)

Conforms(p, c, pol) == ~Compare(p, c, pol).rejected

-----------------------------------------------------------------------------
(* The Arrow mapping *)

ArrowPrimitive ==
    [i64 |-> "Int64", bool |-> "Boolean", str |-> "Utf8", String |-> "Utf8"]

AtomicKeys == {"bool", "String", "i64", "u128"}

(* map_field succeeds on a shape at a depth. *)
MapField(shape, depth, below) ==
    /\ depth <= MaxDepth
    /\ CASE shape.kind = "Optional" -> ~IsOptional(shape.of) /\ shape.of \in below[depth]
         [] shape.kind = "Primitive" -> shape.name \in DOMAIN ArrowPrimitive
         [] shape.kind = "Sequence" -> shape.of \in below[depth + 1]
         [] shape.kind = "Struct" ->
              /\ \A i, j \in DOMAIN shape.fields :
                    shape.fields[i].name = shape.fields[j].name => i = j
              /\ \A i \in DOMAIN shape.fields : shape.fields[i].shape \in below[depth + 1]
         [] shape.kind = "Map" ->
              /\ shape.key.kind = "Primitive" /\ shape.key.name \in AtomicKeys
              /\ shape.key \in below[depth + 1] /\ shape.value \in below[depth + 1]
Mappable[n \in Nat] ==
    IF n = 0 THEN [depth \in Nat |-> {}]
    ELSE [depth \in Nat |-> {shape \in ShapesTo[n] : MapField(shape, depth, Mappable[n - 1])}]

(* The physical type of a mappable shape, and the field of a name with it. *)
Required(type, children) == [nullable |-> FALSE, type |-> type, children |-> children]
Field(name, physical) ==
    [name |-> name, nullable |-> physical.nullable, type |-> physical.type,
     metadata |-> "", children |-> physical.children]

PhysicalOf(shape, below) ==
    CASE shape.kind = "Optional" -> [below[shape.of] EXCEPT !.nullable = TRUE]
      [] shape.kind = "Primitive" -> Required(ArrowPrimitive[shape.name], <<>>)
      [] shape.kind = "Sequence" ->
           Required("Sequence", <<Field(Marker("item"), below[shape.of])>>)
      [] shape.kind = "Struct" ->
           Required("Struct", [i \in DOMAIN shape.fields |->
                Field(shape.fields[i].name, below[shape.fields[i].shape])])
      [] shape.kind = "Map" ->
           LET entry == <<Field(Marker("key"), below[shape.key]),
                          Field(Marker("value"), below[shape.value])>>
           IN  Required("Map", <<Field(Marker("entries"), Required("Struct", entry))>>)
Physical[n \in Nat] ==
    IF n = 0 THEN <<>> ELSE [shape \in ShapesTo[n] |-> PhysicalOf(shape, Physical[n - 1])]

(* BatchValidator::new: the root must be a struct that is not optional. *)
Prepared(shape) == shape.kind = "Struct" /\ shape \in Mappable[Nesting][0]
Schema(shape) == Physical[Nesting][shape].children

-----------------------------------------------------------------------------
(* One connection *)

Declare ==
    /\ producer \in Producers /\ contract \in Contracts /\ policy \in Policies
    /\ comparison = [rejected |-> FALSE, diffs |-> <<>>]
    /\ schemas = <<>>
    /\ gate = "declared"

(* SchemaConforms::CHECK, evaluated by the build: a rejection stops it. *)
Check ==
    /\ gate = "declared"
    /\ comparison' = Compare(producer, contract, policy)
    /\ gate' = IF comparison'.rejected THEN "refused" ELSE "built"
    /\ UNCHANGED <<producer, contract, policy, schemas>>

(* A contract pipeline checks its connections under ExactOrdered.  One     *)
(* whose only connection is this prepares its source's validator, then its *)
(* sink's; the first mapping error ends it.                                *)
MapSource ==
    /\ gate = "built" /\ policy = "ExactOrdered"
    /\ IF Prepared(producer)
       THEN gate' = "source ready" /\ schemas' = <<Schema(producer)>>
       ELSE gate' = "source unmapped" /\ UNCHANGED schemas
    /\ UNCHANGED <<producer, contract, policy, comparison>>

MapSink ==
    /\ gate = "source ready"
    /\ IF Prepared(contract)
       THEN gate' = "ready" /\ schemas' = Append(schemas, Schema(contract))
       ELSE gate' = "sink unmapped" /\ UNCHANGED schemas
    /\ UNCHANGED <<producer, contract, policy, comparison>>

GateNext == Check \/ MapSource \/ MapSink

GateSpec == Declare /\ [][GateNext]_gateVars

-----------------------------------------------------------------------------
(* What a value of a shape looks like to a reader that knows only the      *)
(* contract: scalars carry their type, optional values their presence, and *)
(* a struct is the sequence of its named entries.                          *)

Scalar(type) == [is |-> "scalar", type |-> type]
None == [is |-> "none"]

ValuesOver(below) ==
    [is : {"scalar"}, type : STRING] \union {None}
    \union [is : {"some"}, value : below]
    \union [is : {"list"}, items : Seq(below)]
    \union [is : {"map"}, pairs : Seq(below \X below)]
    \union [is : {"struct"}, entries : Seq(Name \X below)]
ValuesTo[n \in Nat] == IF n = 0 THEN {} ELSE ValuesOver(ValuesTo[n - 1])

(* The values a declaration allows. *)
ListsOf(S) == UNION {[1..k -> S] : k \in 0..MaxItems}
Entries(fields, below) ==
    LET types == {fields[i].shape : i \in DOMAIN fields}
    IN  {[i \in DOMAIN fields |-> <<fields[i].name, values[i]>>] :
            values \in {f \in [DOMAIN fields -> UNION {below[t] : t \in types}] :
                            \A i \in DOMAIN fields : f[i] \in below[fields[i].shape]}}
ValuesOf(shape, below) ==
    CASE shape.kind = "Primitive" -> {Scalar(shape.name)}
      [] shape.kind = "Optional" -> {None} \union [is : {"some"}, value : below[shape.of]]
      [] shape.kind = "Sequence" -> [is : {"list"}, items : ListsOf(below[shape.of])]
      [] shape.kind = "Map" ->
           [is : {"map"}, pairs : ListsOf(below[shape.key] \X below[shape.value])]
      [] shape.kind = "Struct" -> [is : {"struct"}, entries : Entries(shape.fields, below)]
Values[n \in Nat] ==
    IF n = 0 THEN <<>> ELSE [shape \in ShapesTo[n] |-> ValuesOf(shape, Values[n - 1])]

(* The reader's policy: how it finds the entry of a field, which absent    *)
(* fields it fills in, and whether it passes over entries it does not know.*)
ByIndex(pol) == pol \in {"ExactOrdered", "ExactOrderedCI", "ExactByPosition"}
FoldsCase(pol) == pol \in {"Exact", "ExactUnorderedCI", "ExactOrderedCI"}
Named(name, field, pol) ==
    pol = "ExactByPosition" \/ SameName(name, field.name, FoldsCase(pol))

MayBeAbsent(field, pol) ==
    CASE pol = "Backward" -> IsOptional(field.shape) \/ field.default
      [] pol = "Forward" -> TRUE
      [] OTHER -> FALSE

MayBeUnknown(pol) == pol = "Backward"

ReadsInOrder(entries, fields, pol, below) ==
    /\ Len(entries) = Len(fields)
    /\ \A i \in DOMAIN fields :
          Named(entries[i][1], fields[i], pol) /\ entries[i][2] \in below[fields[i].shape]

ReadsByName(entries, fields, pol, below) ==
    /\ \A i, k \in DOMAIN fields :
          SameName(fields[i].name, fields[k].name, FoldsCase(pol)) => i = k
    /\ \A j, k \in DOMAIN entries :
          SameName(entries[j][1], entries[k][1], FoldsCase(pol)) => j = k
    /\ \A i \in DOMAIN fields :
          \/ /\ MayBeAbsent(fields[i], pol)
             /\ \A j \in DOMAIN entries : ~Named(entries[j][1], fields[i], pol)
          \/ \E j \in DOMAIN entries :
                /\ Named(entries[j][1], fields[i], pol)
                /\ entries[j][2] \in below[fields[i].shape]
    /\ \A j \in DOMAIN entries :
          MayBeUnknown(pol) \/ \E i \in DOMAIN fields : Named(entries[j][1], fields[i], pol)

(* The values that can be decoded by the contract, nothing in them left    *)
(* over that the policy does not let the reader pass over.                 *)
ReadableAs(c, pol, below, any) ==
    CASE c.kind = "Primitive" -> {Scalar(c.name)}
      [] c.kind = "Optional" -> {None} \union [is : {"some"}, value : below[c.of]]
      [] c.kind = "Sequence" -> [is : {"list"}, items : Seq(below[c.of])]
      [] c.kind = "Map" -> [is : {"map"}, pairs : Seq(below[c.key] \X below[c.value])]
      [] c.kind = "Struct" ->
           {v \in [is : {"struct"}, entries : Seq(Name \X any)] :
               IF ByIndex(pol) THEN ReadsInOrder(v.entries, c.fields, pol, below)
               ELSE ReadsByName(v.entries, c.fields, pol, below)}
Readable[n \in Nat] ==
    IF n = 0 THEN <<>>
    ELSE [pol \in Policies |-> [c \in ShapesTo[n] |->
            ReadableAs(c, pol, Readable[n - 1][pol], ValuesTo[n - 1])]]

-----------------------------------------------------------------------------
(* Properties *)

(* The phases and the bounds of what a comparison keeps.                   *)
GateTypeOK ==
    /\ producer \in Producers /\ contract \in Contracts /\ policy \in Policies
    /\ comparison.rejected \in BOOLEAN
    /\ Len(comparison.diffs) <= MaxDiffs
    /\ \A i \in DOMAIN comparison.diffs : Len(comparison.diffs[i].path) <= MaxPathDepth
    /\ gate \in {"declared", "refused", "built", "source ready", "ready",
                  "source unmapped", "sink unmapped"}

(* The compile-time verdict is about values: under every policy but Full,  *)
(* the build accepts a connection exactly when every value the producer's  *)
(* declaration allows can be read by the contract under the policy.  (The  *)
(* traversal works on types, returns early on duplicate names, and         *)
(* recurses with one mode at every level.)  Two roots that are not both    *)
(* structs are compared as written, as "conforms" says: whatever the       *)
(* policy, their reader is ExactOrdered's.                                 *)
VerdictIsReadability ==
    LET reader == IF BothStructs(producer, contract) THEN policy ELSE "ExactOrdered"
    IN  gate # "declared" /\ policy # "Full" =>
            (~comparison.rejected <=>
                Values[Nesting][producer] \subseteq Readable[Nesting][reader][contract])

(* The policies nest as their documentation orders them, whatever the      *)
(* shapes: what is built under an ordered policy would be under the next   *)
(* of the list; Exact and ExactUnorderedCI are one; what is built under    *)
(* Exact would be with the two ends exchanged, and what is built under     *)
(* Forward would be, exchanged, under Backward.                            *)
PoliciesNest ==
    gate # "declared" /\ ~comparison.rejected =>
        /\ policy = "ExactOrdered" => Conforms(producer, contract, "ExactOrderedCI")
        /\ policy = "ExactOrderedCI" => Conforms(producer, contract, "ExactByPosition")
        /\ policy = "Exact" => /\ Conforms(producer, contract, "ExactUnorderedCI")
                               /\ Conforms(contract, producer, "Exact")
        /\ policy = "ExactUnorderedCI" => Conforms(producer, contract, "Exact")
        /\ policy = "Forward" => Conforms(contract, producer, "Backward")

(* A refused build names a difference, a build that goes on names none,    *)
(* and what it names is at a field of one of the two declarations, however *)
(* many differences and however deep they are (the message has room for    *)
(* MAX_DIFFS of them and MAX_PATH_DEPTH segments each).                    *)
RefusalNamesAField ==
    LET names(s) == IF s.kind = "Struct"
                    THEN {s.fields[i].name : i \in DOMAIN s.fields} ELSE {Marker("<root>")}
    IN  gate # "declared" =>
            /\ comparison.rejected <=> comparison.diffs # <<>>
            /\ \A i \in DOMAIN comparison.diffs :
                  comparison.diffs[i].path[1] \in names(producer) \union names(contract)

(* A contract pipeline does not validate the batches it hands to the sink: *)
(* it relies on the source's check.  Under ExactOrdered both ends then     *)
(* have the same physical schema, and the sink's mapping cannot fail once  *)
(* the source's has succeeded.                                             *)
SinkNeedsNoCheckOfItsOwn ==
    /\ gate = "ready" => schemas[1] = schemas[2]
    /\ gate # "sink unmapped"
=============================================================================
