----------------------------- MODULE MCDiscovery -----------------------------
(***************************************************************************)
(* A small instance of Discovery for TLC: two source collections, one with *)
(* a field that changes its type and one that stays empty.                 *)
(***************************************************************************)
EXTENDS Discovery, TLC

CONSTANTS r1, r2, p1, d1, d2, d3

Num(n) == Value("Integer", n, "none")
Numeral(n) == Value("String", n, "canonical")

A == top_level(<<"a">>)

MCCollections == {"customers", "orders"}
MCRank == "customers" :> 1 @@ "orders" :> 2

\* A field of customers is a number or a numeral; orders is there and empty.
MCDocuments ==
    "customers" :> {A :> Num(1), A :> Numeral(1)} @@ "orders" :> {}

NumberDocuments == "customers" :> {A :> Num(1)} @@ "orders" :> {}

Name(text) == [text |-> text, padded |-> FALSE]
Padded(text) == [text |-> text, padded |-> TRUE]

\* The legacy setting is not looked at where there is a list.
Both == [list |-> <<Padded("orders"), Name("customers")>>,
         legacy |-> {Name(METADATA_COLLECTION)}]

Legacy == [list |-> <<Padded("")>>, legacy |-> {Name("customers")}]

\* Settings in either form, and each fault.
MCEnvironments ==
    {Both, Legacy,
     [list |-> <<Name("customers"), Name(METADATA_COLLECTION)>>, legacy |-> {}],
     [list |-> <<Name("customers"), Padded("customers")>>, legacy |-> {}],
     [list |-> <<Name("customers"), Name("")>>, legacy |-> {}]}

BothCollections == {Both}

Symmetry == Permutations(Runs) \cup Permutations(Ids)

=============================================================================
