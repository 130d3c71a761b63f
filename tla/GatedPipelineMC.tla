--------------------------- MODULE GatedPipelineMC ---------------------------
(* Small declarations: up to two fields over three names, two of which     *)
(* differ only by case, and shapes in which optionality, element type,     *)
(* nesting and the two spellings of a string type can differ.              *)
EXTENDS GatedPipeline

CONSTANTS
    Slots,  \* bound: the rows of a batch
    Items   \* bound: the values behind a list or a map

name1 == <<"a", "a">>
name2 == <<"a", "A">>
name3 == <<"b", "b">>

I64 == Primitive("i64")
Inner(name, shape, default) == Struct(<<FieldShape(name, shape, default)>>)

ProducerShapes ==
    {I64, Primitive("str"), Optional(I64), Inner(name1, I64, FALSE)}

ContractShapes ==
    {I64, Primitive("String"), Optional(I64), Inner(name2, I64, TRUE)}

Structs(fields) ==
    {Struct(<<>>)} \union {Struct(<<f>>) : f \in fields}
    \union {Struct(<<f, g>>) : f, g \in fields}

(* Deeper, wider and odd declarations, each compared with all the others.  *)
Others ==
    {I64, Optional(Inner(name1, I64, FALSE)), Sequence(I64), Sequence(Optional(I64)),
     Sequence(Inner(name1, I64, FALSE)), Sequence(Inner(name2, I64, FALSE)),
     Inner(name1, MapOf(Primitive("i64"), Optional(I64)), FALSE),
     Inner(name1, MapOf(Primitive("i64"), I64), FALSE),
     Inner(name1, MapOf(Primitive("str"), I64), FALSE),
     Inner(name1, Primitive("char"), FALSE),
     Inner(name1, Optional(Optional(I64)), FALSE),
     Inner(name1, Inner(name3, Inner(name1, I64, FALSE), FALSE), FALSE),
     Inner(name1, Inner(name3, Inner(name1, Primitive("bool"), FALSE), FALSE), FALSE),
     Inner(name1, Inner(name3, Inner(name2, I64, FALSE), FALSE), FALSE),
     Inner(name1, Inner(name3, Inner(name3, Optional(I64), FALSE), FALSE), FALSE),
     Inner(name1, Inner(name3, Sequence(Inner(name1, Sequence(I64), FALSE)), FALSE), FALSE),
     Struct(<<FieldShape(name1, I64, FALSE), FieldShape(name3, I64, TRUE),
              FieldShape(name2, Primitive("bool"), FALSE)>>)}

(* One field below the root, of every nesting a validator tells apart.     *)
MCArrivals ==
    {Inner(name1, MapOf(Primitive("i64"), Optional(I64)), FALSE),
     Inner(name1, Sequence(I64), FALSE),
     Inner(name1, Optional(Sequence(Inner(name3, Optional(I64), FALSE))), FALSE),
     Struct(<<FieldShape(name1, Optional(Inner(name3, I64, FALSE)), FALSE),
              FieldShape(name3, I64, FALSE)>>)}

MCProducers ==
    Structs({FieldShape(n, s, FALSE) : n \in {name1, name2, name3}, s \in ProducerShapes})
    \union Others \union MCArrivals
MCContracts ==
    Structs({FieldShape(n, s, n = name3) : n \in {name1, name2, name3}, s \in ContractShapes})
    \union Others \union MCArrivals

(* A pipeline is run for one declaration. *)
MCRun == {Inner(name1, I64, FALSE)}

-----------------------------------------------------------------------------
(* The batches that arrive: of a declaration in MCArrivals with every      *)
(* content, and without rows of the schemas near it.                       *)

Validity(n) == [1..n -> BOOLEAN]

Offsets(n) ==
    {o \in [1..(n + 1) -> 0..Items] : \A i \in 1..n : o[i] <= o[i + 1]}

Flat(valid) == [holds |-> "values", valid |-> valid, offsets |-> <<>>, children |-> <<>>]

(* An array that declares the field's type and is none of the standard     *)
(* implementations.                                                        *)
Custom(n) == Flat([i \in 1..n |-> TRUE])

(* The choices of one member of each of a sequence of sets. *)
Selections(sets) == {f \in [DOMAIN sets -> UNION {sets[i] : i \in DOMAIN sets}] :
                    \A i \in DOMAIN sets : f[i] \in sets[i]}

(* Every array of n slots for a field; what a map has below it is always a *)
(* struct array.                                                           *)
RECURSIVE MCArrays(_, _)
MCArrays(field, n) ==
    LET made(valid, offsets, children) ==
            [holds |-> field.type, valid |-> valid, offsets |-> offsets,
             children |-> children]
        entries == {a \in MCArrays(field.children[1], Items) : a.holds = "Struct"}
    IN  IF field.type \notin Nested THEN {Flat(v) : v \in Validity(n)}
        ELSE {Custom(n)} \union
             CASE field.type = "Struct" ->
                    {made(v, <<>>, c) : v \in Validity(n),
                        c \in Selections([i \in DOMAIN field.children |->
                                            MCArrays(field.children[i], n)])}
               [] field.type = "Sequence" ->
                    {made(v, o, <<a>>) : v \in Validity(n), o \in Offsets(n),
                        a \in MCArrays(field.children[1], Items)}
               [] field.type = "Map" ->
                    {made(v, o, <<a>>) : v \in Validity(n), o \in Offsets(n), a \in entries}

(* A field with metadata, and those one attribute of one field away. *)
Annotated(field) == [field EXCEPT !.metadata = "comment"]

RECURSIVE Deviations(_)
Deviations(field) ==
    {[field EXCEPT !.nullable = ~@], [field EXCEPT !.name = <<"other", "other">>],
     [field EXCEPT !.type = "other"]}
    \union UNION {{[field EXCEPT !.children[i] = d] : d \in Deviations(field.children[i])} :
                    i \in DOMAIN field.children}

BatchesOf(fields) ==
    LET near == UNION {{[fields EXCEPT ![i] = d] : d \in Deviations(fields[i])} :
                        i \in DOMAIN fields}
                \union {Front(fields), Append(fields, fields[1])}
    IN  {[fields |-> [i \in DOMAIN fields |-> Annotated(fields[i])], columns |-> c] :
            c \in Selections([i \in DOMAIN fields |-> MCArrays(fields[i], Slots)])}
        \union {[fields |-> fs, columns |-> [i \in DOMAIN fs |-> Custom(0)]] : fs \in near}

MCBatches == UNION {BatchesOf(Schema(s)) : s \in MCArrivals}
=============================================================================
