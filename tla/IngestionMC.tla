----------------------------- MODULE IngestionMC -----------------------------
(* Files of up to four records with every kind of bad cell, order files    *)
(* whose amounts are every short numeral; batches that differ from the     *)
(* contract in one respect of any of their columns, in the number of       *)
(* columns or in their order; rows whose hashes include zero, equal and    *)
(* wrapping values, and every combination of identity fields another       *)
(* writer may leave, with a field missing or one too many.                 *)
EXTENDS Ingestion

MCIngest ==
    LET good == {<<Text("one"), Text("n"), Text("")>>, <<Text("two"), Text(""), Text("n")>>}
        bad == {<<Text("x"), Text("n"), Text("n")>>, <<Text("one"), Text("n")>>}
    IN  {[table |-> "ingest", header |-> 3, records |-> r] :
            r \in UNION {[1..n -> good \union bad] : n \in 0..4}}
        \union {[table |-> "ingest", header |-> 2, records |-> r] :
            r \in UNION {[1..n -> bad] : n \in 0..2}}
        \union {[table |-> "ingest", header |-> 0, records |-> <<>>]}

MCNumerals ==
    {Numeral(s, w, p, f) :
        s \in {"", "-", "+"}, w \in UNION {[1..n -> {0, 4, 9}] : n \in 0..3},
        p \in BOOLEAN, f \in UNION {[1..n -> {0, 5, 9}] : n \in 1..3}}

MCOrders ==
    LET order(amount, placed, note) == <<Text("one"), amount, Text(placed), Text(note)>>
    IN  {[table |-> "orders", header |-> 4, records |-> <<order(a, "t1", "")>>] :
            a \in MCNumerals \union {Text("")}}
        \union {[table |-> "orders", header |-> 4, records |-> <<order(a, t, "n"), order(b, "t0", "")>>] :
            a, b \in {Numeral("-", <<0>>, TRUE, <<5, 0>>), Numeral("", <<9>>, TRUE, <<9>>)},
            t \in {"t0", "x"}}

MCShipments ==
    {[table |-> "shipments", header |-> 3,
      records |-> <<<<Text(i), Text("ups"), Text(t)>>, <<Text("two"), Text(""), Text("t0")>>>>] :
        i \in {"one", ""}, t \in {"t1", "x"}}

MCFiles == MCIngest \union MCOrders \union MCShipments

Variants(c) ==
    {c, [c EXCEPT !.name = "other"], [c EXCEPT !.type = "Float64"],
     [c EXCEPT !.nullable = ~c.nullable], [c EXCEPT !.nulls = TRUE],
     [c EXCEPT !.concrete = FALSE]}

MCColumns ==
    {<<a, b, c>> : a \in Variants(IngestFields[1]), b \in Variants(IngestFields[2]),
                   c \in Variants(IngestFields[3])}
    \union {<<>>, SubSeq(IngestFields, 1, 2), Append(IngestFields, IngestFields[3]),
            <<IngestFields[2], IngestFields[1], IngestFields[3]>>}

MCBatches == {[columns |-> columns, rows |-> 1] : columns \in MCColumns}

MCParquetFiles ==
    {[columns |-> columns, rows |-> n] : n \in 0..2,
        columns \in {IngestFields, SubSeq(IngestFields, 1, 2),
                     <<IngestFields[2], IngestFields[1], IngestFields[3]>>}}

RowOne == <<1, Text("n"), Null>>
RowTwo == <<2, Text(""), Text("n")>>
MCIngestRows == {RowOne, RowTwo}

MCHashes ==
    {[r \in MCIngestRows |-> IF r = RowOne THEN pair[1] ELSE pair[2]] :
        pair \in {<<5, 6>>, <<0, 3>>, <<7, 7>>}}

MCManifests ==
    [schema : 1..3, rowCount : {1}, digest : {2}, runId : {<<>>, <<" ">>, <<"x">>},
     outputKey : {<<>>, <<"k1">>, <<"k2">>}, eTag : Texts, version : Texts,
     scheme : {<<>>, <<"new">>, Legacy}]

MCWhole ==
    Serialized([schema |-> 2, rowCount |-> 1, digest |-> 2, runId |-> <<"x">>,
                outputKey |-> <<"k1">>, eTag |-> <<"x">>, version |-> <<>>, scheme |-> Legacy])

MCForeign ==
    {Serialized(r) : r \in MCManifests}
    \union {[f \in DOMAIN MCWhole \ {g} |-> MCWhole[f]] : g \in DOMAIN MCWhole}
    \union {[f \in DOMAIN MCWhole \union {"note"} |-> IF f = "note" THEN <<"x">> ELSE MCWhole[f]]}
=============================================================================
