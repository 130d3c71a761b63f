---------------------------- MODULE QueryEngineMC ----------------------------
(* Tables of up to three orders in up to two batches, with repeated and    *)
(* negative ids, amounts around the threshold, dates before the epoch, and *)
(* orders with none, one or two shipments; a table of one batch, to be     *)
(* written in two halves of which one is empty.  Columns of lengths below, *)
(* at and above one vector and two of either width; lists of one and of    *)
(* three levels; row groups that end within a decoder's batch and with it. *)
EXTENDS QueryEngine

Order(id, value, placed_at, note) ==
    [id |-> id, amount |-> value, placed_at |-> placed_at, note |-> note]

SomeOrders ==
    {Order(1, 5000, 0, "n"), Order(1, 5001, -1, Null), Order(-3, 5001, 2, "n"),
     Order(2, -7000, -4, Null), Order(5, 9000, 2, Null)}

MCOrderTables ==
    {<<>>, <<<<Order(2, -7000, -4, Null)>>>>}
    \union {<<<<a, Order(1, 5000, 0, "n")>>, <<b>>>> :
                  a \in SomeOrders, b \in SomeOrders \ {Order(1, 5000, 0, "n"), Order(2, -7000, -4, Null)}}

Shipment(id, carrier) == [order_id |-> id, carrier |-> carrier, shipped_at |-> 1]

MCShipmentTables ==
    {<<>>} \union {<<Shipment(i, 1), Shipment(1, c)>> : i, c \in {1, 2}}

MCLimits ==
    {<<>>} \union {<<[skip |-> s, fetch |-> f]>> : s \in 0..1, f \in {0, 2, 9, Unlimited}}
    \union {<<[skip |-> 1, fetch |-> f], [skip |-> 0, fetch |-> 2]>> :
                f \in {1, Unlimited}}

MCLengths == {0, 1, 3, 4, 7, 8, 9, 12, 15, 16, 19}
MCConstants == {7, 30, -31}
MCBatchShapes == {<<0, 3>>, <<2, 0>>, <<2, 2>>, <<3, 2>>, <<1, 3>>}
MCListShapes == {<<1>>, <<3>>, <<2, 3, 2>>, <<3, 2, 4>>}

MCCaps == {0, 1, Unlimited}
=============================================================================
