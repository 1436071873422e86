-------------------------- MODULE MCResolverService --------------------------
(***************************************************************************)
(* Writes, providers and model answers for TLC.  The profile has a mixed   *)
(* field at the top level and below, and nested fields that are missing:   *)
(* among them one under an empty key, one under a very long key, and one   *)
(* 65 levels down.                                                         *)
(***************************************************************************)
EXTENDS ResolverService, TLC

Num(n) == Value("Integer", n, "none")
Float(n) == Value("FloatingPoint", n, "none")
Numeral(n) == Value("String", n, "canonical")
Padded(n) == Value("String", n, "padded")

K  == top_level(<<"k">>)
A  == top_level(<<"a">>)           \* integer or string
B  == top_level(<<"b">>)
BA == child(B, <<"a">>)            \* integer or string, in every document
BC == child(B, <<"c">>)            \* an integer, missing here and there
BF == child(B, <<"f">>)            \* a floating-point number, likewise
BE == child(B, <<"">>)             \* an integer under an empty key, likewise
BL == child(B, <<"long">>)         \* an integer under a key of more than 255 characters
Deep == [i \in 1 .. 65 |-> <<"d">>] \* an integer 65 levels down, likewise

MCSamples ==
    {<< K :> Num(1) @@ A :> Num(5) @@ B :> DocumentValue @@ BA :> Num(1)
         @@ BC :> Num(1) @@ BF :> Float(1) @@ BE :> Num(1) @@ BL :> Num(1)
         @@ Deep :> Num(1) @@ [q \in Ancestors(Deep) |-> DocumentValue],
       K :> Num(1) @@ A :> Numeral(7) @@ B :> DocumentValue @@ BA :> Numeral(1) >>}

Set(path, value) == [path |-> path, value |-> value]
Where(path, value) == {{Leaf(path, "Equal", {value})}}
Update(path, value) ==
    [kind |-> "Update", assignments |-> <<Set(path, value)>>, filter |-> Where(K, Num(1))]
Insert(columns, row) == [kind |-> "Insert", columns |-> columns, rows |-> <<row>>]

TopLevelPlans ==
    {Update(A, Numeral(6)), Update(A, Padded(6)), Update(A, Numeral(MaxInt + 1)), Update(A, Num(6)),
     Update(BC, Num(2)), Update(BF, Float(2)),
     [kind |-> "Delete", filter |-> Where(BC, Num(1))],
     Insert(<<K, BC>>, <<Num(2), Num(4)>>), Insert(<<K, A>>, <<Num(2), Num(4)>>)}

NestedMixedPlans == {Update(BA, Num(6)), Update(BA, Numeral(6))}
LongFloatPlans == {Update(BF, Float(LargestShortFloat + 1)),
                   Insert(<<K, BF>>, <<Num(2), Float(LargestShortFloat + 1)>>)}

UnusualPathPlans == {Update(BE, Num(2)), Update(BL, Num(2)), Update(Deep, Num(2))}

MCLongSegments == {<<"long">>}

MCPlans == TopLevelPlans \cup NestedMixedPlans \cup LongFloatPlans \cup UnusualPathPlans

MCProviders ==
    {[name |-> "deterministic", key |-> FALSE], [name |-> "google", key |-> TRUE],
     [name |-> "openai", key |-> FALSE], [name |-> "other", key |-> TRUE]}

Answer(candidate) ==
    [contract_version |-> "v2", schema_profile_version |-> 1, operation |-> "same",
     target_path |-> "same", candidate |-> candidate,
     confidence |-> [neg |-> FALSE, bp |-> 8000], rationale |-> [chars |-> 1, bytes |-> 1]]

\* Every candidate, and each field wrong or at a bound of it.
MCModelAnswers ==
    {Answer(c) : c \in ResolutionCandidates}
    \cup {[Answer("UseNestedPath") EXCEPT !.confidence = [neg |-> n, bp |-> b]] :
             n \in BOOLEAN, b \in {0, 7999, 10000, 10001}}
    \cup {[Answer("UseNestedPath") EXCEPT !.rationale = [chars |-> length[1], bytes |-> length[2]]] :
             length \in {<<0, 0>>, <<500, 500>>, <<500, 501>>, <<501, 501>>}}
    \cup {[Answer("UseNestedPath") EXCEPT !.contract_version = "v1"],
          [Answer("UseNestedPath") EXCEPT !.schema_profile_version = 2],
          [Answer("UseNestedPath") EXCEPT !.operation = "other"],
          [Answer("UseNestedPath") EXCEPT !.target_path = "other"]}

=============================================================================
