---------------------------- MODULE GeneratedRun ----------------------------
(***************************************************************************)
(* The program that the pipeline command renders (pipeline_template.rs),   *)
(* compiled and run: it registers the source under the declared schema,    *)
(* collects it into batches, and gives each batch to a contract pipeline   *)
(* whose transform is the rendered chain of DataFrame operations           *)
(* (dataframe_ops.rs) and whose sink writes one Parquet file.              *)
(*                                                                         *)
(* All columns are integers or null here, None.  How the engine cuts the   *)
(* source into batches, and in which order it collects them, is its own.   *)
(* The callbacks and counters of the contract pipeline are modelled in     *)
(* ContractPipeline.                                                       *)
(***************************************************************************)
EXTENDS SchemaCodegen, Integers

CONSTANTS
    Executed,  \* bound: the arguments whose program is run
    Cells,     \* bound: the values of a column that is not null
    MaxFile,   \* bound: the rows of a source
    Lower      \* names in lower case

VARIABLES
    run,      \* where main is
    input,    \* the rows of the source
    batches,  \* what collect returned
    handled,  \* batches the pipeline is done with
    sink,     \* the file at the sink's path
    report    \* the ContractRunReport

runVars == <<run, input, batches, handled, sink, report>>

Table(fields, rows) == [fields |-> fields, rows |-> rows]

-----------------------------------------------------------------------------
(* Operations to method calls *)

MethodNameStrict(cmp) ==
    [eq |-> "eq", ne |-> "not_eq", gt |-> "gt", lt |-> "lt", ge |-> "gt", le |-> "lt"][cmp]
MethodName(cmp) ==
    [eq |-> "eq", ne |-> "not_eq", gt |-> "gt", lt |-> "lt", ge |-> "gt_eq", le |-> "lt_eq"][cmp]

OpTokens(op) ==
    CASE op.kind = "select" -> [call |-> "select", columns |-> op.columns]
      [] op.kind = "filter" ->
           [call |-> "filter", column |-> op.column, method |-> MethodName(op.cmp),
            lit |-> op.value.is]
      [] op.kind = "aggregate" -> [call |-> "aggregate", group |-> op.group, aggs |-> op.aggs]
      [] op.kind = "sort" ->
           [call |-> "sort",
            keys |-> [i \in DOMAIN op.keys |-> op.keys[i] @@ [nullsFirst |-> FALSE]]]
      [] op.kind = "limit" -> [call |-> "limit", skip |-> 0, fetch |-> op.n]

ChainTokens(ops) == [i \in DOMAIN ops |-> OpTokens(ops[i])]

-----------------------------------------------------------------------------
(* What a call makes of a table (external: DataFusion).  The results are a *)
(* set, empty when the plan is refused: groups come in any order, and so   *)
(* do rows that no sort key tells apart.                                   *)

(* col() reads its text as an identifier without quotes.                   *)
Col(name) == Lower[name]

Resolve(fields, names) ==
    /\ \A n \in Range(names) : \E f \in Range(fields) : f.name = Col(n)
    /\ \A i, j \in DOMAIN names : Col(names[i]) = Col(names[j]) => i = j

FieldsOf(fields, names) ==
    [i \in DOMAIN names |-> CHOOSE f \in Range(fields) : f.name = Col(names[i])]

Compare(method, v, w) ==
    /\ v # None
    /\ CASE method = "eq" -> v = w [] method = "not_eq" -> v # w
         [] method = "gt" -> v > w [] method = "gt_eq" -> v >= w
         [] method = "lt" -> v < w [] method = "lt_eq" -> v <= w

(* The rows of a group, by their positions in the table. *)
AggregateOf(agg, rows, group) ==
    LET c == Col(agg.column)
        seen == {i \in group : rows[i][c] # None}
        values == {rows[i][c] : i \in seen}
    IN  CASE agg.func = "count" -> Cardinality(seen)
          [] agg.func # "count" /\ seen = {} -> None
          [] agg.func = "sum" /\ seen # {} -> MapThenSumSet(LAMBDA i : rows[i][c], seen)
          [] agg.func = "min" /\ seen # {} -> CHOOSE v \in values : \A w \in values : v <= w
          [] agg.func = "max" /\ seen # {} -> CHOOSE v \in values : \A w \in values : w <= v

Grouped(t, names) ==
    LET key(i) == [n \in {Col(m) : m \in Range(names)} |-> t.rows[i][n]]
        keys == {key(i) : i \in DOMAIN t.rows} \union (IF names = <<>> THEN {<<>>} ELSE {})
    IN  {[key |-> k, rows |-> {i \in DOMAIN t.rows : names = <<>> \/ key(i) = k}] : k \in keys}

SortsBefore(key, v, w) ==
    CASE v = None -> key.nullsFirst /\ w # None
      [] w = None -> ~key.nullsFirst /\ v # None
      [] OTHER -> IF key.ascending THEN v < w ELSE w < v

Precedes(keys, r, s) ==
    \E k \in DOMAIN keys :
        /\ SortsBefore(keys[k], r[Col(keys[k].column)], s[Col(keys[k].column)])
        /\ \A l \in 1..(k - 1) : r[Col(keys[l].column)] = s[Col(keys[l].column)]

Results(call, t) ==
    CASE call.call = "select" ->
           IF ~Resolve(t.fields, call.columns) THEN {}
           ELSE LET kept == FieldsOf(t.fields, call.columns)
                IN  {Table(kept, [i \in DOMAIN t.rows |->
                        [n \in {kept[j].name : j \in DOMAIN kept} |-> t.rows[i][n]]])}
      [] call.call = "filter" ->
           IF ~Resolve(t.fields, <<call.column>>) THEN {}
           ELSE {[t EXCEPT !.rows = SelectSeq(@, LAMBDA r :
                    Compare(call.method, r[Col(call.column)], call.lit))]}
      [] call.call = "aggregate" ->
           LET column(i) == call.aggs[i].column
               alias(i) == call.aggs[i].alias
               fields == FieldsOf(t.fields, call.group) \o [i \in DOMAIN call.aggs |->
                            Field(alias(i), Primitive("i64"), call.aggs[i].func # "count")]
               row(g) == g.key @@ [a \in {alias(i) : i \in DOMAIN call.aggs} |->
                   AggregateOf(CHOOSE agg \in Range(call.aggs) : agg.alias = a, t.rows, g.rows)]
           IN  IF ~Resolve(t.fields, call.group)
                  \/ \E i \in DOMAIN call.aggs : ~Resolve(t.fields, <<column(i)>>)
               THEN {}
               ELSE {Table(fields, [i \in DOMAIN p |-> row(p[i])]) :
                        p \in SetToSeqs(Grouped(t, call.group))}
      [] call.call = "sort" ->
           IF ~Resolve(t.fields, [i \in DOMAIN call.keys |-> call.keys[i].column]) THEN {}
           ELSE {Table(t.fields, [i \in DOMAIN p |-> t.rows[p[i]]]) :
                    p \in {q \in SetToSeqs(DOMAIN t.rows) : \A i, j \in DOMAIN q :
                              i < j => ~Precedes(call.keys, t.rows[q[j]], t.rows[q[i]])}}
      [] call.call = "limit" ->
           {[t EXCEPT !.rows = SubSeq(@, call.skip + 1,
                IF Len(@) < call.skip + call.fetch THEN Len(@) ELSE call.skip + call.fetch)]}

RECURSIVE ChainResults(_, _)
ChainResults(calls, t) ==
    IF calls = <<>> THEN {t}
    ELSE UNION {ChainResults(Tail(calls), u) : u \in Results(Head(calls), t)}

-----------------------------------------------------------------------------
(* main *)

SourceFields == StructFields(program.items, "Source")
SinkFields == StructFields(program.items, program.sink)

(* rustc: the structs, and the connection to the sink of a pipeline        *)
(* without a transform, which must be ExactOrdered.                        *)
Builds ==
    Compiles(program.items) /\ (program.stage = None => SourceFields = SinkFields)

Rows(fields) ==
    {r \in [{fields[i].name : i \in DOMAIN fields} -> Cells \union {None}] :
        \A i \in DOMAIN fields : fields[i].nullable \/ r[fields[i].name] # None}

Chunkings(rows) ==
    LET spans == {<<i, j>> \in (DOMAIN rows) \X (DOMAIN rows) : i <= j}
        covers == {c \in SUBSET spans :
                     \A k \in DOMAIN rows : Cardinality({s \in c : k \in s[1]..s[2]}) = 1}
    IN  UNION {{[k \in DOMAIN p |-> SubSeq(rows, p[k][1], p[k][2])] : p \in SetToSeqs(c)} :
                  c \in covers}

NoFile == [state |-> "absent", rows |-> <<>>]
Torn == [state |-> "torn", rows |-> <<>>]
Whole(rows) == [state |-> "whole", rows |-> rows]

NotRun ==
    /\ run = "not run" /\ input = <<>> /\ batches = <<>> /\ handled = 0
    /\ sink = NoFile /\ report = [batches |-> 0, rows |-> 0]

(* The stores, the registration and the scan; any of them may fail. *)
Collect ==
    /\ phase = "written" /\ args \in Executed /\ Builds /\ run = "not run"
    /\ \/ run' = "failed" /\ UNCHANGED <<input, batches>>
       \/ /\ run' = "running"
          /\ \E n \in 0..MaxFile : input' \in [1..n -> Rows(SourceFields)]
          /\ batches' \in Chunkings(input')
    /\ UNCHANGED <<handled, sink, report>>

(* The transform's results for one batch; none if there is an error. *)
Transformed(batch) ==
    LET t == Table(SourceFields, batch)
    IN  IF program.stage = None THEN {t} ELSE ChainResults(ChainTokens(program.stage.ops), t)

(* A file is created, then written; an upload replaces the object or does  *)
(* not, and its failure does not tell which.                               *)
AfterSinkFailure(rows) ==
    IF args.sink.s3 THEN {sink, Whole(rows)} ELSE {sink, Torn}

Deliver ==
    /\ run = "running" /\ handled < Len(batches)
    /\ \E out \in Transformed(batches[handled + 1]) :
        /\ out.fields = SinkFields
        /\ \/ /\ sink' = Whole(out.rows) /\ handled' = handled + 1
              /\ report' = [batches |-> report.batches + 1, rows |-> report.rows + Len(out.rows)]
              /\ UNCHANGED run
           \/ run' = "failed" /\ sink' \in AfterSinkFailure(out.rows)
              /\ UNCHANGED <<handled, report>>
    /\ UNCHANGED <<input, batches>>

(* The plan is refused, or the result is not of the target's declaration. *)
TransformFails ==
    /\ run = "running" /\ handled < Len(batches)
    /\ LET outs == Transformed(batches[handled + 1])
       IN  outs = {} \/ \E out \in outs : out.fields # SinkFields
    /\ run' = "failed"
    /\ UNCHANGED <<input, batches, handled, sink, report>>

Report ==
    /\ run = "running" /\ handled = Len(batches)
    /\ run' = "done"
    /\ UNCHANGED <<input, batches, handled, sink, report>>

RunInit == Init /\ NotRun

RunNext ==
    \/ Next /\ UNCHANGED runVars
    \/ (Collect \/ Deliver \/ TransformFails \/ Report) /\ UNCHANGED vars

RunSpec == RunInit /\ [][RunNext]_<<vars, runVars>>

-----------------------------------------------------------------------------
(* Properties *)

(* What the arguments ask for, in the words of the command line: the rows  *)
(* a filter keeps, by the sides of the literal it allows, and the order of *)
(* a sort, nulls at the end.                                               *)
Sides(v, w) ==
    {"ne"} \union IF v < w THEN {"lt", "le"} ELSE IF w < v THEN {"gt", "ge"} ELSE {}

Keeps(cmp, v, w) ==
    v # None /\ IF v = w THEN cmp \in {"eq", "ge", "le"} ELSE cmp \in Sides(v, w)

InOrder(keys, r, s) ==
    LET differ == {k \in DOMAIN keys : r[keys[k].column] # s[keys[k].column]}
        first == CHOOSE k \in differ : \A l \in differ : k <= l
        v == r[keys[first].column]  w == s[keys[first].column]
    IN  differ # {} =>
            w = None \/ (v # None /\ IF keys[first].direction = "asc" THEN v < w ELSE w < v)

RECURSIVE Wanted(_, _)
Wanted(ops, t) ==
    LET op == Head(ops)
        filtered == SelectSeq(t.rows, LAMBDA r : Keeps(op.cmp, r[op.column], op.value.is))
        sorted == {p \in SetToSeqs(DOMAIN t.rows) :
                     \A i, j \in DOMAIN p :
                        i < j => InOrder(op.keys, t.rows[p[i]], t.rows[p[j]])}
        next == CASE op.kind = "filter" -> {[t EXCEPT !.rows = filtered]}
                  [] op.kind = "sort" ->
                       {[t EXCEPT !.rows = [i \in DOMAIN p |-> @[p[i]]]] : p \in sorted}
                  [] OTHER -> Results(OpTokens(op), t)
    IN  IF ops = <<>> THEN {t} ELSE UNION {Wanted(Tail(ops), u) : u \in next}

WantedOf(rows) == {t.rows : t \in Wanted(args.transform.df, Table(SourceFields, rows))}

(* Operations that treat each row by itself. *)
RowByRow == \A i \in DOMAIN args.transform.df : args.transform.df[i].kind \in {"select", "filter"}

(* A generated program that ends well has made of each batch exactly what  *)
(* the operations on the command line ask for, comparison by comparison    *)
(* and with nulls last: the file is the result for the last batch          *)
(* collected, so for a source of one batch it is the result.  The report   *)
(* counts every batch; if the operations treat rows one by one, its rows   *)
(* are those of the result for the whole source.                           *)
BatchesAreTransformedAsAsked ==
    run = "done" =>
        /\ report.batches = Len(batches)
        /\ IF batches = <<>> THEN sink = NoFile
           ELSE sink.state = "whole" /\ sink.rows \in WantedOf(batches[Len(batches)])
        /\ RowByRow => \A rows \in WantedOf(input) : report.rows = Len(rows)

(* README.md:222: the generated pipeline "filters and aggregates it, and   *)
(* writes the result to another".                                          *)
ResultIsOfTheWholeSource ==
    run = "done" /\ batches # <<>> => sink.state = "whole" /\ sink.rows \in WantedOf(input)
=============================================================================
