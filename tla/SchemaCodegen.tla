---------------------------- MODULE SchemaCodegen ----------------------------
(***************************************************************************)
(* scaffold-cli and crates/schema-codegen: a schema read from a Parquet    *)
(* footer, a Delta log, a dbt document or an Erwin export is rendered as   *)
(* the structs of a program, whose contract and connector derives map them *)
(* back to the Arrow schema the program registers its source with.         *)
(*                                                                         *)
(* A type is a tree; the text a program or a document holds is the tree it *)
(* stands for, and a name of a generated struct the concatenation the code *)
(* makes of its parts, as two structs may end up with one name.            *)
(***************************************************************************)
EXTENDS Naturals, Sequences, FiniteSets, SequencesExt

CONSTANTS
    Arguments,       \* of the command: what its schema specs lead to, the
                     \* locations [format |-> by suffix, s3 |-> ...], the
                     \* format and the transform options
    Identifiers, Keywords, \* field names of ASCII letters; Rust's own words
    Pascal,          \* field names in PascalCase
    Alias,           \* declared type names, lower case -> Arrow primitives
    None

Primitives ==
    {"bool", "i8", "i16", "i32", "i64", "u8", "u16", "u32", "u64", "f32", "f64", "String"}

ASSUME ConstantsAssumption ==
    /\ Keywords \subseteq Identifiers /\ Identifiers \subseteq DOMAIN Pascal
    /\ \A a \in DOMAIN Alias : Alias[a] \in Primitives

VARIABLES args, phase, source, target, data, transform, program, error

vars == <<args, phase, source, target, data, transform, program, error>>

Field(name, type, nullable) == [name |-> name, type |-> type, nullable |-> nullable]
Primitive(p) == [kind |-> "primitive", of |-> p]
ListOf(item) == [kind |-> "list", item |-> item]
StructOf(fields) == [kind |-> "struct", fields |-> fields]

Failed(r) == r.error # None

-----------------------------------------------------------------------------
(* Documents to schemas *)

(* split_top_level_commas sees no parentheses: a field whose type has two  *)
(* arguments is cut in the middle, and its second half has no colon.       *)
SplitFails(fields) ==
    \E i \in DOMAIN fields : fields[i].type.kind = "token" /\ fields[i].type.args = 2

(* declared_type_to_arrow: None if some part has no mapping.  Items and    *)
(* the fields of a nested struct are nullable.                             *)
RECURSIVE DeclaredTypeToArrow(_)
DeclaredTypeToArrow(declared) ==
    CASE declared.kind = "token" ->
           IF declared.word \in DOMAIN Alias THEN Primitive(Alias[declared.word]) ELSE None
      [] declared.kind = "array" ->
           LET item == DeclaredTypeToArrow(declared.inner)
           IN  IF item = None THEN None ELSE ListOf(Field("item", item, TRUE))
      [] declared.kind = "struct" ->
           LET types == [i \in DOMAIN declared.fields |->
                            DeclaredTypeToArrow(declared.fields[i].type)]
           IN  IF SplitFails(declared.fields) \/ None \in Range(types) THEN None
               ELSE StructOf([i \in DOMAIN types |->
                                 Field(declared.fields[i].name, types[i], TRUE)])

(* The first model (entity) of the name asked for, column by column.       *)
FromDeclarations(doc, nullable) ==
    LET named == SelectSeq(doc.models, LAMBDA m : m.name = doc.asked)
        columns == Head(named).columns
        type(c) == IF c.type = None THEN None ELSE DeclaredTypeToArrow(c.type)
        bad == {i \in DOMAIN columns : type(columns[i]) = None}
    IN  IF named = <<>> THEN [error |-> "not found", schema |-> <<>>]
        ELSE IF bad # {} THEN [error |-> "unsupported declared type", schema |-> <<>>]
        ELSE [error |-> None,
              schema |-> [i \in DOMAIN columns |->
                  Field(columns[i].name, type(columns[i]), nullable[columns[i]])]]

Declared(doc) == UNION {Range(m.columns) : m \in Range(doc.models)}

(* A column is nullable unless a test of it is, or is configured as,       *)
(* not_null; an attribute is nullable if it says so or says nothing.       *)
ParseDbtSchemaYml(doc) ==
    FromDeclarations(doc, [c \in Declared(doc) |->
        Range(c.tests) \intersect {"not_null", "not_null: ..."} = {}])
ParseErwinXml(doc) ==
    FromDeclarations(doc, [c \in Declared(doc) |-> c.nullable \in {"true", None}])

ResolveSchema(doc) ==
    CASE doc.kind \in {"parquet", "delta"} -> [error |-> None, schema |-> doc.fields]
      [] doc.kind = "dbt" -> ParseDbtSchemaYml(doc)
      [] doc.kind = "erwin" -> ParseErwinXml(doc)
      [] doc.kind = "broken" -> [error |-> "unreadable", schema |-> <<>>]
      [] doc.kind = "invalid" -> [error |-> "invalid spec", schema |-> <<>>]

-----------------------------------------------------------------------------
(* Schemas to structs *)

Optional(type) == [kind |-> "option", of |-> type]
OptionalIf(nullable, type) == IF nullable THEN Optional(type) ELSE type

(* OptionalIf with the nullability of the fields of nested structs lost. *)
RenderedFieldFlat(path, f, type) ==
    [name |-> f.name, type |-> IF Len(path) > 1 THEN type ELSE OptionalIf(f.nullable, type)]

RenderedField(path, f, type) == [name |-> f.name, type |-> OptionalIf(f.nullable, type)]

(* field_type_tokens: the structs a type needs, innermost first, and the   *)
(* type itself; or the first of a struct's fields that fails.              *)
RECURSIVE FieldTypeTokens(_, _, _)
FieldTypeTokens(path, hint, type) ==
    LET said(items, t) == [items |-> items, type |-> t, error |-> None, at |-> <<>>]
        no(why, where) == [items |-> <<>>, type |-> None, error |-> why, at |-> where]
        children == CASE type.kind = "struct" -> type.fields
                      [] type.kind = "primitive" -> <<>>
                      [] OTHER -> <<type.item>>
        at(f) == Append(path, IF type.kind = "struct" THEN f.name ELSE "[]")
        part(f) == hint \o IF type.kind = "struct" THEN Pascal[f.name] ELSE "Item"
        tokens == [i \in DOMAIN children |->
            IF type.kind = "struct" /\ children[i].name \notin Identifiers
            THEN no("invalid field name", at(children[i]))
            ELSE FieldTypeTokens(at(children[i]), part(children[i]), children[i].type)]
        bad == {i \in DOMAIN children : Failed(tokens[i])}
        items == FlattenSeq([i \in DOMAIN children |-> tokens[i].items])
        fields == [i \in DOMAIN children |->
                      RenderedField(at(children[i]), children[i], tokens[i].type)]
    IN  CASE bad # {} -> tokens[CHOOSE i \in bad : \A j \in bad : i <= j]
          [] type.kind = "primitive" ->
               IF type.of \in Primitives THEN said(<<>>, type)
               ELSE no("unsupported Arrow type", path)
          [] type.kind = "struct" ->
               said(Append(items, [name |-> hint, fields |-> fields]),
                    [kind |-> "named", of |-> hint])
          [] OTHER -> said(items, [kind |-> "vec", of |-> tokens[1].type])

(* A struct one of whose fields is a word of the language is not parsed.   *)
StructSource(name, schema) ==
    LET r == FieldTypeTokens(<<>>, name, StructOf(schema))
    IN  IF Failed(r) THEN [error |-> r.error, items |-> <<>>]
        ELSE IF \E i \in DOMAIN r.items : \E j \in DOMAIN r.items[i].fields :
                    r.items[i].fields[j].name \in Keywords
        THEN [error |-> "render struct", items |-> <<>>]
        ELSE [error |-> None, items |-> r.items]

(* rustc: no two structs of one name (external). *)
Compiles(items) == Len(items) = Cardinality({items[i].name : i \in DOMAIN items})

(* #[derive(Contract)] and contracts::arrow::map_field, of a type and of   *)
(* the struct of a name.                                                   *)
RECURSIVE MapField(_, _, _)
MapField(items, name, shape) ==
    LET nullable == shape.kind = "option"
        bare == IF nullable THEN shape.of ELSE shape
        item == CHOOSE i \in Range(items) : i.name = bare.of
    IN  Field(name,
              CASE bare.kind = "primitive" -> bare
                [] bare.kind = "vec" -> ListOf(MapField(items, "item", bare.of))
                [] bare.kind = "named" ->
                     StructOf([j \in DOMAIN item.fields |->
                         MapField(items, item.fields[j].name, item.fields[j].type)]),
              nullable)

StructFields(items, name) ==
    MapField(items, name, [kind |-> "named", of |-> name]).type.fields

-----------------------------------------------------------------------------
(* The program *)

(* Where the source's data is, and in which format; Parquet files and      *)
(* Delta tables say so themselves unless the arguments do.                 *)
ResolveSourceData(doc, given, format) ==
    LET location == IF given # None THEN given
                    ELSE IF doc.kind \in {"parquet", "delta"}
                         THEN [format |-> doc.kind, s3 |-> FALSE] ELSE None
    IN  IF location = None THEN [error |-> "missing source data"]
        ELSE IF format = None /\ location.format = None THEN [error |-> "unknown source format"]
        ELSE [error |-> None, at |-> location,
              format |-> IF format # None THEN format ELSE location.format]

(* The first of i64, f64 and bool that reads the text, else a string. *)
ParseLiteral(value) ==
    CASE "int" \in value.reads -> "int" [] "float" \in value.reads -> "float"
      [] "bool" \in value.reads -> "bool" [] OTHER -> "string"

AggFns == {"sum", "count", "avg", "min", "max"}

ParseDfOp(op) ==
    CASE op.kind = "select" -> op
      [] op.kind = "filter" /\ op.cmp \in {"eq", "ne", "gt", "lt", "ge", "le"} ->
           [op EXCEPT !.value = [type |-> ParseLiteral(op.value), is |-> op.value.is]]
      [] op.kind = "aggregate" /\ (\A i \in DOMAIN op.aggs : op.aggs[i].func \in AggFns) -> op
      [] op.kind = "sort" /\ (\A i \in DOMAIN op.keys : op.keys[i].direction \in {"asc", "desc"}) ->
           [kind |-> "sort",
            keys |-> [i \in DOMAIN op.keys |-> [column |-> op.keys[i].column,
                                               ascending |-> op.keys[i].direction = "asc"]]]
      [] op.kind = "limit" /\ op.n \in Nat -> op
      [] OTHER -> None

ParseTransform(t) ==
    LET ops == [i \in DOMAIN t.df |-> ParseDfOp(t.df[i])]
    IN  CASE t.sql # None /\ t.df # <<>> -> [error |-> "conflicting transform", stage |-> None]
          [] t.sql # None /\ t.df = <<>> -> [error |-> None, stage |-> [sql |-> t.sql, ops |-> <<>>]]
          [] t.sql = None /\ t.df = <<>> -> [error |-> None, stage |-> None]
          [] OTHER -> IF None \in Range(ops) THEN [error |-> "invalid transform", stage |-> None]
                      ELSE [error |-> None, stage |-> [sql |-> None, ops |-> ops]]

(* pipeline_source: the structs, what is registered as the table "batch"   *)
(* and with whose schema, the stage, and the contract of the sink.         *)
PipelineSource ==
    LET of(name, s) == StructSource(name, s.schema)
        from == of("Source", source)
        to == IF target = None THEN [error |-> None, items |-> <<>>] ELSE of("Target", target)
    IN  IF Failed(from) THEN from
        ELSE IF Failed(to) THEN to
        ELSE [error |-> None, items |-> from.items \o to.items,
              stores |-> {l \in {data.at, args.sink} : l.s3},
              registered |-> IF data.format = "delta" THEN "the table's" ELSE "Source",
              stage |-> transform.stage,
              sink |-> IF target = None THEN "Source" ELSE "Target"]

-----------------------------------------------------------------------------

Init ==
    /\ args \in Arguments
    /\ phase = "source"
    /\ source = None /\ target = None /\ data = None /\ transform = None
    /\ program = None /\ error = None

(* Each step of run_pipeline goes on to the next or ends the run. *)
Step(from, to, result) ==
    /\ phase = from
    /\ error' = result.error
    /\ phase' = IF Failed(result) THEN "failed" ELSE to

ReadSource ==
    /\ Step("source", "target", ResolveSchema(args.source))
    /\ source' = ResolveSchema(args.source)
    /\ UNCHANGED <<args, target, data, transform, program>>

ReadTarget ==
    /\ IF args.target = None
       THEN Step("target", "data", [error |-> None]) /\ target' = None
       ELSE /\ Step("target", "data", ResolveSchema(args.target))
            /\ target' = ResolveSchema(args.target)
    /\ UNCHANGED <<args, source, data, transform, program>>

Locate ==
    /\ Step("data", "transform", ResolveSourceData(args.source, args.data, args.format))
    /\ data' = ResolveSourceData(args.source, args.data, args.format)
    /\ UNCHANGED <<args, source, target, transform, program>>

ReadTransform ==
    /\ Step("transform", "render", ParseTransform(args.transform))
    /\ transform' = ParseTransform(args.transform)
    /\ UNCHANGED <<args, source, target, data, program>>

(* The text is rendered as a whole before the output is opened. *)
Generate ==
    /\ LET text == PipelineSource
       IN  /\ Step("render", "write", text)
           /\ program' = IF Failed(text) THEN None ELSE text
    /\ UNCHANGED <<args, source, target, data, transform>>

WriteOutput ==
    /\ \E outcome \in {None, "write output"} : Step("write", "written", [error |-> outcome])
    /\ UNCHANGED <<args, source, target, data, transform, program>>

Next == ReadSource \/ ReadTarget \/ Locate \/ ReadTransform \/ Generate \/ WriteOutput

Spec == Init /\ [][Next]_vars

-----------------------------------------------------------------------------
(* Properties *)

(* The type a program declares for a type that was read: fields keep their *)
(* order, names and nullability, lists their items' type.  A contract has  *)
(* no name for an item and one width of offsets.  It could say that items  *)
(* are nullable, Vec<Option<T>>, but no rendered program does: whatever    *)
(* was read, null items are outside of the declaration.                    *)
RECURSIVE DeclaredFor(_, _)
DeclaredFor(declared, read) ==
    CASE read.kind = "primitive" -> declared = read
      [] read.kind = "struct" ->
           /\ declared.kind = "struct" /\ Len(declared.fields) = Len(read.fields)
           /\ \A i \in DOMAIN read.fields :
                 LET field == declared.fields[i]
                 IN  /\ field.name = read.fields[i].name
                     /\ field.nullable = read.fields[i].nullable
                     /\ DeclaredFor(field.type, read.fields[i].type)
      [] OTHER ->
           /\ declared.kind = "list" /\ declared.item.name = "item"
           /\ ~declared.item.nullable
           /\ DeclaredFor(declared.item.type, read.item.type)

(* Whether a field, at some depth, has a name or a type without a Rust     *)
(* counterpart.                                                            *)
RECURSIVE Unmapped(_)
Unmapped(type) ==
    CASE type.kind = "primitive" -> type.of \notin Primitives
      [] type.kind = "struct" ->
           \E i \in DOMAIN type.fields :
              type.fields[i].name \notin Identifiers \ Keywords \/ Unmapped(type.fields[i].type)
      [] OTHER -> Unmapped(type.item.type)

(* A program that is written declares, once it is compiled, the fields of  *)
(* the schemas that were read, in order and at every depth, with their     *)
(* types and nullability, and its sink those of the target; the items of   *)
(* its lists it declares non-null, also if they were read as nullable.  A  *)
(* program is refused by the renderer if and only if some field, at some   *)
(* depth of the source or the target, has a name or a type without a Rust  *)
(* counterpart.                                                            *)
GeneratedDeclaresTheFieldsRead ==
    LET declares(name, read) ==
            DeclaredFor(StructOf(StructFields(program.items, name)), StructOf(read.schema))
        unmapped == \E r \in {source, target} \ {None} : Unmapped(StructOf(r.schema))
    IN  /\ phase \in {"write", "written"} =>
             /\ ~unmapped
             /\ Compiles(program.items) =>
                  /\ declares("Source", source)
                  /\ declares(program.sink, IF target = None THEN source ELSE target)
        /\ (phase = "failed" /\ transform # None /\ ~Failed(transform) /\ program = None)
             => unmapped
=============================================================================
