---------------------------- MODULE OrdersQueries ----------------------------
(***************************************************************************)
(* The queries of crates/pipeline/src/datafusion_query.rs over the tables  *)
(* orders and shipments, each written once in SQL and once through the     *)
(* DataFrame API, its scalar, window and asynchronous functions, and the   *)
(* optimizer rule that caps what a query returns.                          *)
(*                                                                         *)
(* Selection, join, grouping and sorting are the engine's (external): rows *)
(* that a query's ORDER BY does not tell apart come in any order.  What is *)
(* modelled is what the code asks of the engine.  Amounts are unscaled;    *)
(* the Float64 literal of the DataFrame variants and the Decimal one of    *)
(* the SQL variants select the same ones, as every unscaled value of ten   *)
(* digits has a Float64 of its own.                                        *)
(*                                                                         *)
(* The amounts that the query "range" aggregates go to AmountRange's       *)
(* accumulators; a row the table does not have is one without an amount.   *)
(***************************************************************************)
EXTENDS AmountRange, Sequences, FiniteSets, SequencesExt

CONSTANTS
    OrderTables, ShipmentTables,  \* contents: batches of orders, shipments
    Limits,                       \* a query's own LIMIT and OFFSET, if any
    Caps,                         \* max_rows, or none
    Threshold, Buckets, MicrosPerDay,
    MaxPasses,                    \* the optimizer's passes over a plan
    Unlimited

(* A row of each table; of a limit, fetch is none if only OFFSET is given. *)
OrderRow ==
    [id : Int, amount : Amounts, placed_at : Int, note : STRING \union {Null}]
ShipmentRow == [order_id : Int, carrier : Int, shipped_at : Int]
Limited == [skip : Nat, fetch : Nat \union {Unlimited}]

ASSUME ConstantsAssumption ==
    /\ Threshold \in Int /\ Buckets \in Nat \ {0} /\ MicrosPerDay \in Nat \ {0}
    /\ MaxPasses \in Nat \ {0}
    /\ \A t \in OrderTables : DOMAIN FlattenSeq(t) \subseteq Rows

ASSUME TablesAssumption ==
    OrderTables \subseteq Seq(Seq(OrderRow)) /\ ShipmentTables \subseteq Seq(ShipmentRow)

ASSUME LimitsAssumption ==
    /\ Unlimited \notin Nat
    /\ Limits \subseteq Seq(Limited) /\ Caps \subseteq Nat \union {Unlimited}

VARIABLES batches, shipments, query, cap, own, plan, passes, rows, result

session == <<batches, shipments, query, cap, own, plan, passes, rows, result>>
vars == <<session, rangeVars>>

-----------------------------------------------------------------------------
(* What the engine is asked to do (external) *)

(* A filter: the rows that pass, in their order. *)
Where(rs, Test(_)) ==
    FlattenSeq([i \in DOMAIN rs |-> IF Test(rs[i]) THEN <<rs[i]>> ELSE <<>>])

(* The rows in every order that puts none after one it must precede. *)
Sorted(rs, Before(_, _)) ==
    {s \in {[i \in DOMAIN rs |-> rs[p[i]]] : p \in SetToSeqs(DOMAIN rs)} :
        \A i, j \in DOMAIN s : i < j => ~Before(s[j], s[i])}

NullsLast(a, b) == a # Null /\ (b = Null \/ a < b)

TotalOf(rs) == FoldLeft(LAMBDA total, r : total + r.amount, 0, rs)

(* COUNT and SUM over all rows: a row even if there are none. *)
CountAndSum(rs) ==
    [count |-> Len(rs), sum |-> IF rs = <<>> THEN Null ELSE TotalOf(rs)]

(* The remainder with the sign of the dividend. *)
Rem(a, b) == IF a < 0 THEN -((-a) % b) ELSE a % b

Unsorted(rs) == Sorted(rs, LAMBDA a, b : FALSE)

-----------------------------------------------------------------------------
(* The tables *)

(* OrdersMemoryExec::execute: the batches one after the other, projected. *)
Scan(columns) ==
    LET all == FlattenSeq(batches)
    IN  [i \in DOMAIN all |-> [c \in columns |-> all[i][c]]]

Orders == Scan({"id", "amount", "placed_at", "note"})

Above(o) == o.amount > Threshold
Selected == Where(Orders, Above)

ShipmentsOf(o) == Where(shipments, LAMBDA s : s.order_id = o.id)

(* The pairs of an order and its shipments; a left join also keeps an      *)
(* order that has none.                                                    *)
Pairs(o, keep) ==
    LET theirs == ShipmentsOf(o)
        row(carrier, at) == [id |-> o.id, amount |-> o.amount,
                             carrier |-> carrier, shipped_at |-> at]
    IN  IF theirs = <<>> /\ keep THEN <<row(Null, Null)>>
        ELSE [i \in DOMAIN theirs |-> row(theirs[i].carrier, theirs[i].shipped_at)]

Joined(os, keep) == FlattenSeq([i \in DOMAIN os |-> Pairs(os[i], keep)])

InJoinOrder(a, b) == a.id < b.id \/ (a.id = b.id /\ NullsLast(a.carrier, b.carrier))

(* Dates before the epoch belong to the day they are in. *)
DaysSinceEpoch(micros) == micros \div MicrosPerDay

(* RegionMultiplierUdf::lookup, in tenths. *)
Lookup(id) ==
    CASE id \in {1, 4, 8} -> 15
      [] id \in {5, 6} -> 8
      [] OTHER -> 10

-----------------------------------------------------------------------------
(* The queries: for each, the results the engine may return *)

Twice == {"row", "aggregate", "join", "rank", "bucket", "multi"}
Queries == Twice \union {"join_aggregate", "days", "percent", "region", "range"}

Placed(a, b) == a.placed_at < b.placed_at
ById(a, b) == a.id < b.id
ByRank(a, b) == a.rank < b.rank \/ (a.rank = b.rank /\ ById(a, b))
ByBucket(a, b) == a.bucket < b.bucket
Noted(o) == o.note # Null

(* Each row of a table with what a function makes of it. *)
Mapped(rs, F(_)) == [i \in DOMAIN rs |-> F(rs[i])]

(* RANK() over the amounts, the largest first. *)
Ranked == Mapped(Orders, LAMBDA r :
    [id |-> r.id, amount |-> r.amount,
     rank |-> 1 + Len(SelectSeq(Orders, LAMBDA o : o.amount > r.amount))])

(* The groups of a table by the bucket of each id. *)
GroupOf(b) ==
    [bucket |-> b, of |-> CountAndSum(SelectSeq(Orders, LAMBDA o : Rem(o.id, Buckets) = b))]
Groups == {GroupOf(b) : b \in {Rem(Orders[i].id, Buckets) : i \in DOMAIN Orders}}

RowSql == Sorted(Selected, Placed)
AggregateSql == {<<CountAndSum(Selected)>>}
JoinSql == Sorted(Joined(Orders, TRUE), InJoinOrder)
JoinAggregate == {<<CountAndSum(SelectSeq(Joined(Orders, FALSE), Above))>>}
WindowSql == Sorted(Ranked, ByRank)
BucketSql ==
    {s \in [1..Cardinality(Groups) -> Groups] :
        \A i, j \in DOMAIN s : i < j => ByBucket(s[i], s[j])}
MultiSql == {<<CountAndSum(SelectSeq(Orders, LAMBDA o : Above(o) /\ Noted(o)))>>}

DaysQuery == Sorted(Mapped(Orders, LAMBDA o :
    [id |-> o.id, days |-> DaysSinceEpoch(o.placed_at)]), ById)
PercentQuery == Unsorted(Mapped(Orders, LAMBDA o :
    [id |-> o.id, part |-> o.amount, of |-> TotalOf(Orders)]))
RegionQuery == Sorted(Mapped(Orders, LAMBDA o :
    [id |-> o.id, multiplier |-> Lookup(o.id)]), ById)

(* The same queries, asked for one step at a time. *)
RowDataFrame ==
    LET filtered == SelectSeq(Orders, Above)
    IN  Sorted(filtered, Placed)

AggregateDataFrame ==
    LET filtered == SelectSeq(Orders, Above)
    IN  {<<CountAndSum(filtered)>>}

JoinDataFrameInner == Sorted(Joined(Orders, FALSE), InJoinOrder)

JoinDataFrame ==
    LET joined == Joined(Orders, TRUE)
    IN  Sorted(joined, InJoinOrder)

WindowDataFrame ==
    LET ranked == Ranked
    IN  Sorted(ranked, ByRank)

BucketDataFrame ==
    LET bucketed == Mapped(Orders, LAMBDA o : [b |-> Rem(o.id, Buckets), o |-> o])
        rowsOf(b) == SelectSeq(bucketed, LAMBDA r : r.b = b)
        grouped == {[bucket |-> b, of |-> CountAndSum(Mapped(rowsOf(b), LAMBDA r : r.o))] :
                       b \in {r.b : r \in ToSet(bucketed)}}
    IN  Sorted(SetToSeq(grouped), ByBucket)

MultiDataFrame ==
    LET both(o) == Above(o) /\ Noted(o)
        filtered == SelectSeq(Orders, both)
    IN  {<<CountAndSum(filtered)>>}

Sql(q) ==
    CASE q = "row" -> RowSql
      [] q = "aggregate" -> AggregateSql
      [] q = "join" -> JoinSql
      [] q = "join_aggregate" -> JoinAggregate
      [] q = "rank" -> WindowSql
      [] q = "bucket" -> BucketSql
      [] q = "multi" -> MultiSql
      [] q = "days" -> DaysQuery
      [] q = "percent" -> PercentQuery
      [] q = "region" -> RegionQuery

DataFrame(q) ==
    CASE q = "row" -> RowDataFrame
      [] q = "aggregate" -> AggregateDataFrame
      [] q = "join" -> JoinDataFrame
      [] q = "rank" -> WindowDataFrame
      [] q = "bucket" -> BucketDataFrame
      [] q = "multi" -> MultiDataFrame

-----------------------------------------------------------------------------
(* Limits: a plan is a stack of them over the query, the outermost first *)

Smaller(a, b) == IF b = Unlimited \/ (a # Unlimited /\ a <= b) THEN a ELSE b

Cut(l, rs) ==
    SubSeq(rs, l.skip + 1, IF l.fetch = Unlimited \/ l.skip + l.fetch > Len(rs)
                           THEN Len(rs) ELSE l.skip + l.fetch)

(* The rows a stack of limits lets through, the innermost k of them first. *)
Window(limits, rs) ==
    LET n == Len(limits)
        through[k \in 0..n] ==
            IF k = 0 THEN rs ELSE Cut(limits[n + 1 - k], through[k - 1])
    IN  through[n]

(* MaxRowsGuardrail::rewrite, without the check for a smaller limit. *)
GuardReplacing(p) ==
    IF p = <<>> THEN <<[skip |-> 0, fetch |-> cap]>> ELSE <<[p[1] EXCEPT !.fetch = cap]>> \o Tail(p)

(* MaxRowsGuardrail::rewrite, of the top of the plan. *)
Guard(p) ==
    IF p = <<>> THEN <<[skip |-> 0, fetch |-> cap]>>
    ELSE IF p[1].fetch # Unlimited /\ p[1].fetch <= cap THEN p
    ELSE <<[p[1] EXCEPT !.fetch = cap]>> \o Tail(p)

(* What the engine's own rules may make of a plan between two rewrites: a  *)
(* limit over a limit becomes one, a limit without an offset may be taken  *)
(* over by the sort or the scan below it.                                  *)
Rewritten(p) ==
    {p} \union
    (IF Len(p) < 2 THEN {}
     ELSE {<<[skip |-> p[1].skip + p[2].skip,
              fetch |-> IF p[2].fetch = Unlimited THEN p[1].fetch
                        ELSE Smaller(p[1].fetch, IF p[2].fetch < p[1].skip THEN 0
                                                 ELSE p[2].fetch - p[1].skip)]>>
             \o SubSeq(p, 3, Len(p))})

-----------------------------------------------------------------------------

Init ==
    /\ batches \in OrderTables /\ shipments \in ShipmentTables
    /\ cap \in Caps
    /\ query = "none" /\ own = <<>> /\ plan = <<>> /\ passes = 0
    /\ rows = <<>> /\ result = <<>>
    /\ amount = [i \in Rows |-> IF i \in DOMAIN Orders THEN Orders[i].amount ELSE Null]
    /\ Idle

(* No session: no table, and no query can be asked for. *)
SessionIdle ==
    /\ batches = <<>> /\ shipments = <<>> /\ cap = Unlimited
    /\ query = "answered" /\ own = <<>> /\ plan = <<>> /\ passes = 0
    /\ rows = <<>> /\ result = <<>>
    /\ amount = [i \in Rows |-> Null]
    /\ Idle

(* The two halves a table is written as before a distributed scan. *)
Halves(rs) ==
    LET midpoint == Len(rs) \div 2
    IN  <<SubSeq(rs, 1, midpoint), SubSeq(rs, midpoint + 1, Len(rs))>>

(* write_two_partition_orders: the table becomes two files, of which one   *)
(* may be empty.                                                           *)
Repartition ==
    /\ query = "none"
    /\ batches' = Halves(FlattenSeq(batches))
    /\ UNCHANGED <<shipments, query, cap, own, plan, passes, rows, result, rangeVars>>

(* A query is planned; which of the admitted row orders it will have is up *)
(* to the engine.                                                          *)
Ask ==
    /\ query = "none"
    /\ \E q \in Queries \ {"range"}, l \in Limits :
          /\ query' = q
          /\ own' = l /\ plan' = l
          /\ rows' \in Sql(q)
    /\ passes' = IF cap = Unlimited THEN MaxPasses ELSE 0
    /\ UNCHANGED <<batches, shipments, cap, result, rangeVars>>

(* The range is asked for as such (bound: with no limit of its own).       *)
AskRange ==
    /\ query = "none"
    /\ query' = "range"
    /\ passes' = IF cap = Unlimited THEN MaxPasses ELSE 0
    /\ UNCHANGED <<batches, shipments, cap, own, plan, rows, result, rangeVars>>

(* One pass of the optimizer, the rule coming last. *)
Optimize ==
    /\ query \notin {"none", "answered"} /\ passes < MaxPasses /\ Idle
    /\ \E p \in Rewritten(plan) : plan' = Guard(p)
    /\ passes' = passes + 1
    /\ UNCHANGED <<batches, shipments, query, cap, own, rows, result, rangeVars>>

(* The optimizer may stop early, but not before its first pass; then the   *)
(* accumulators are at work.                                               *)
Aggregate ==
    /\ query = "range" /\ passes > 0
    /\ RangeNext
    /\ rows' = IF range' = {} THEN rows ELSE <<CHOOSE x \in range' : TRUE>>
    /\ UNCHANGED <<batches, shipments, query, cap, own, plan, passes, result>>

Execute ==
    /\ query \notin {"none", "answered"} /\ passes > 0
    /\ query = "range" => range # {}
    /\ result' = Window(plan, rows)
    /\ query' = "answered"
    /\ UNCHANGED <<batches, shipments, cap, own, plan, passes, rows, rangeVars>>

Next == Repartition \/ Ask \/ AskRange \/ Optimize \/ Aggregate \/ Execute

Spec == Init /\ [][Next]_vars

-----------------------------------------------------------------------------
(* Properties *)

(* The two ways of writing a query admit the same results, rows and order, *)
(* and the queries tell one story of the tables: the left join has a row   *)
(* for every shipment and one for every order without any; the aggregate   *)
(* of the inner join is that of its shipped rows above the threshold (an   *)
(* order counts once per shipment); the buckets add up to the table; the   *)
(* aggregates are those of the rows the row query returns; the per-row     *)
(* functions give each order one row, and each date the day it is in.  A   *)
(* table written in two halves is the table that was read.                 *)
QueriesAgree ==
    LET shipped(rs) == SelectSeq(rs, LAMBDA r : r.carrier # Null)
        sumOf(rs) == FoldLeft(LAMBDA n, r : n + r, 0, rs)
        times(id) == Len(SelectSeq(Orders, LAMBDA o : o.id = id))
        sent(id) == Len(SelectSeq(shipments, LAMBDA s : s.order_id = id))
    IN  /\ query = "none" =>
             /\ \A i \in DOMAIN Orders : amount[i] = Orders[i].amount
             /\ \A i \in Rows \ DOMAIN Orders : amount[i] = Null
        /\ query = "none" => \A q \in Twice : Sql(q) = DataFrame(q)
        /\ query = "join" =>
             /\ \A i \in DOMAIN Orders :
                   LET id == Orders[i].id IN
                   Len(SelectSeq(rows, LAMBDA r : r.id = id))
                       = times(id) * (IF sent(id) = 0 THEN 1 ELSE sent(id))
             /\ Sql("join_aggregate") = {<<CountAndSum(SelectSeq(shipped(rows), Above))>>}
        /\ query = "bucket" =>
             /\ sumOf([i \in DOMAIN rows |-> rows[i].of.count]) = Len(Orders)
             /\ sumOf([i \in DOMAIN rows |-> rows[i].of.sum]) = TotalOf(Orders)
        /\ query = "row" =>
             /\ Sql("aggregate") = {<<CountAndSum(rows)>>}
             /\ Sql("multi") = {<<CountAndSum(SelectSeq(rows, LAMBDA r : r.note # Null))>>}
        /\ query \in {"rank", "days", "percent", "region"} =>
             \A i \in DOMAIN Orders :
                Len(SelectSeq(rows, LAMBDA r : r.id = Orders[i].id)) = times(Orders[i].id)
        /\ query = "days" =>
             \A i \in DOMAIN rows : \E j \in DOMAIN Orders :
                /\ Orders[j].id = rows[i].id
                /\ Orders[j].placed_at - rows[i].days * MicrosPerDay \in 0..(MicrosPerDay - 1)

(* The cap is a cap and nothing else: whatever limit and offset the query  *)
(* has, and whatever the optimizer's own rules make of the plan between    *)
(* two of its passes, the result is the first max_rows of the rows the     *)
(* query asked for.                                                        *)
CapIsAPrefix ==
    LET asked == Window(own, rows)
    IN  query = "answered" =>
            result = IF cap = Unlimited THEN asked
                     ELSE SubSeq(asked, 1, IF cap < Len(asked) THEN cap ELSE Len(asked))
=============================================================================
