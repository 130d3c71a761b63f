--------------------------- MODULE GeneratedRunMC ---------------------------
(* Footers with every kind of type, nested three deep; documents with each *)
(* way of declaring a column; names that collide in PascalCase, one that   *)
(* is a word of the language and one that is no identifier; and programs   *)
(* that are run.                                                           *)
EXTENDS GeneratedRun

MCIdentifiers == {"a", "b", "B", "a_b", "ab", "type"}
MCKeywords == {"type"}
MCPascal == [n \in MCIdentifiers \union {"a b"} |->
    CASE n = "a" -> "A" [] n \in {"b", "B"} -> "B" [] n = "a_b" -> "AB" [] n = "ab" -> "Ab"
      [] n = "type" -> "Type" [] n = "a b" -> "A b"]
MCAlias == [t \in {"integer", "bigint", "varchar", "float"} |->
    CASE t = "integer" -> "i32" [] t = "bigint" -> "i64" [] t = "varchar" -> "String"
      [] t = "float" -> "f32"]

I64 == Primitive("i64")
Types1 ==
    {I64, Primitive("decimal"), ListOf(Field("item", I64, TRUE)),
     [kind |-> "large list", item |-> Field("element", I64, FALSE)]}
    \union {StructOf(<<Field(n, I64, nullable)>>) : n \in {"b", "type", "a b"}, nullable \in BOOLEAN}
Types2 ==
    Types1
    \union {ListOf(Field("item", t, FALSE)) : t \in Types1}
    \union {StructOf(<<Field("b", t, TRUE), Field("a", I64, FALSE)>>) : t \in Types1}

Footers ==
    {[kind |-> "parquet", fields |-> <<Field("a", t, nullable), Field(n, u, FALSE)>>] :
        t \in Types2, nullable \in BOOLEAN, n \in {"b", "a_b", "type", "a b"},
        u \in {I64, StructOf(<<Field("b", I64, FALSE)>>)}}
    \union {[kind |-> "delta", fields |-> <<Field("a", I64, TRUE)>>]}

Token(word, n) == [kind |-> "token", word |-> word, args |-> n]
DeclaredTypes ==
    {Token("varchar", 1), Token("float", 2), Token("decimal", 2),
     [kind |-> "array", inner |-> Token("bigint", 0)]}
    \union {[kind |-> "struct", fields |-> <<[name |-> "b", type |-> t]>>] :
              t \in {Token("float", 2), Token("integer", 0), Token("xml", 0),
                     [kind |-> "array", inner |-> Token("float", 2)]}}

Columns ==
    {[name |-> "a", type |-> t, tests |-> s, nullable |-> v] :
        t \in DeclaredTypes \union {None},
        s \in {<<>>, <<"unique">>, <<"unique", "not_null: ...">>}, v \in {None, "true", "TRUE"}}
Plain == [name |-> "ab", type |-> Token("integer", 0), tests |-> <<"not_null">>, nullable |-> "false"]

Declarations ==
    {[kind |-> k, asked |-> "m",
      models |-> <<[name |-> n, columns |-> <<Plain, c>>], [name |-> "m", columns |-> <<Plain>>]>>] :
        k \in {"dbt", "erwin"}, n \in {"m", "l"}, c \in Columns}
    \union {[kind |-> "dbt", asked |-> "m", models |-> <<>>]}

Documents == Footers \union Declarations \union {[kind |-> "broken"], [kind |-> "invalid"]}

Local(format) == [format |-> format, s3 |-> FALSE]
Locations == {Local("parquet"), [format |-> None, s3 |-> TRUE]}

Filter(cmp, reads) == [kind |-> "filter", column |-> "a", cmp |-> cmp, value |-> [reads |-> reads, is |-> 1]]
Transforms ==
    {[sql |-> s, df |-> d] : s \in {None, "SELECT"},
        d \in {<<>>, <<Filter("gt", {"int", "float"}), [kind |-> "limit", n |-> 5]>>,
               <<[kind |-> "select", columns |-> <<"a">>], Filter("like", {})>>}}

Few == {d \in Documents : d.kind \in {"broken", "invalid", "delta"}}
       \union {[kind |-> "parquet", fields |-> <<Field("a", t, FALSE)>>] :
                  t \in {I64, Primitive("decimal"), StructOf(<<Field("b", I64, TRUE)>>)}}
       \union {[kind |-> k, asked |-> "m", models |-> <<[name |-> "m", columns |-> <<Plain>>]>>] :
                  k \in {"dbt", "erwin"}}

(* Sources of two integer columns whose programs are run, with what their  *)
(* command lines ask for and the declaration of the target.                *)
MCLower == [n \in MCIdentifiers |-> IF n = "B" THEN "b" ELSE n]
Flat(name) == [kind |-> "parquet", fields |-> <<Field("a", I64, FALSE), Field(name, I64, TRUE)>>]

Where(cmp, column, n) ==
    [kind |-> "filter", column |-> column, cmp |-> cmp, value |-> [reads |-> {"int"}, is |-> n]]
Sort(column, direction) ==
    [kind |-> "sort", keys |-> <<[column |-> column, direction |-> direction],
                                 [column |-> "a", direction |-> "asc"]>>]
Limit(n) == [kind |-> "limit", n |-> n]
Aggregate(group, aggs) == [kind |-> "aggregate", group |-> group, aggs |-> aggs]
Agg(func, column, alias) == [func |-> func, column |-> column, alias |-> alias]

Totals == [kind |-> "parquet", fields |-> <<Field("a", I64, FALSE), Field("ab", I64, TRUE)>>]
Counts == [kind |-> "parquet", fields |-> <<Field("ab", I64, FALSE), Field("a", I64, TRUE)>>]

Totalling == <<Where("ge", "b", 1), Aggregate(<<"a">>, <<Agg("sum", "b", "ab")>>)>>

Jobs ==
    {<<Flat("b"), None, <<>>>>, <<Flat("b"), Totals, <<>>>>, <<Flat("b"), Totals, Totalling>>,
     <<Flat("b"), Counts, <<Aggregate(<<>>, <<Agg("count", "b", "ab"), Agg("max", "a", "a")>>)>>>>,
     <<Flat("b"), Counts, Totalling>>,
     <<Flat("B"), None, <<Where("eq", "B", 1)>>>>,
     <<Flat("b"), None, <<Where("le", "a", 0), Sort("b", "desc"), Limit(1)>>>>,
     <<Flat("b"), None, <<Where("ne", "b", 0), [kind |-> "select", columns |-> <<"a", "b">>]>>>>}

Arguments1(jobs, sinks) ==
    {[source |-> j[1], target |-> j[2], data |-> Local("parquet"), format |-> None,
      transform |-> [sql |-> None, df |-> j[3]], sink |-> l] : j \in jobs, l \in sinks}

MCExecuted == Arguments1(Jobs, Locations)

(* Every document as a source; and a few with every other argument. *)
MCArguments ==
    [source : Documents, target : {None}, data : {Local("parquet")}, format : {None},
     transform : {[sql |-> None, df |-> <<>>]}, sink : Locations]
    \union [source : Few, target : Few \union {None}, data : Locations \union {None},
            format : {None, "csv"}, transform : Transforms, sink : Locations]
    \union MCExecuted

(* The example of the README, on a source of a few rows.                   *)
READMEArguments == Arguments1({<<Flat("b"), Totals, Totalling>>}, {[format |-> None, s3 |-> TRUE]})
=============================================================================
