------------------------------ MODULE MCWriteGate ------------------------------
(***************************************************************************)
(* Instances of WriteGate for TLC: documents, plans and resolver responses *)
(* for every case of the gate.                                             *)
(***************************************************************************)
EXTENDS WriteGate, TLC

CONSTANTS d1, d2, d3

Num(n) == Value("Integer", n, "none")
Numeral(n) == Value("String", n, "canonical")
Padded(n) == Value("String", n, "padded")
Null == Value("Null", 0, "none")
Placeholder == Value("Placeholder", 1, "none")

K   == top_level(<<"k">>)          \* an integer in every document
A   == top_level(<<"a">>)          \* an integer here, a string there
B   == top_level(<<"b">>)
BC  == child(B, <<"c">>)           \* a nested integer, missing here and there
XY  == top_level(<<"x", "y">>)     \* a literal dotted key
X   == top_level(<<"x">>)
X_Y == child(X, <<"y">>)           \* a nested field of the same joined name
N   == top_level(<<"n">>)          \* null in every document
BD  == child(B, <<"c", "e">>)      \* a literal dotted key inside a document

Doc(fields, contents) ==
    [q \in ToSet(fields) |-> contents[CHOOSE i \in DOMAIN fields : fields[i] = q]]

Nested     == Doc(<<K, N, A, XY, B, BC>>,
                  <<Num(1), Null, Num(5), Num(0), DocumentValue, Num(1)>>)
ScalarB    == Doc(<<K, N, A, XY, B>>, <<Num(2), Null, Numeral(7), Num(0), Num(9)>>)
WithoutB   == Doc(<<K, N, A, XY, X, X_Y>>,
                  <<Num(2), Null, Numeral(7), Num(0), DocumentValue, Num(1)>>)

MCCollections ==
    {d1 :> Nested @@ d2 :> ScalarB, d1 :> Nested @@ d2 :> WithoutB}

\* A third document, so that discovery misses one and what it knows depends on
\* which: BC may be missing here and there, always there, or unknown.
PartialCollections == {d1 :> Nested @@ d2 :> ScalarB @@ d3 :> WithoutB}

Set(path, value) == [path |-> path, value |-> value]
Update(assignments, filter) ==
    [kind |-> "Update", assignments |-> assignments, filter |-> filter]
Delete(filter) == [kind |-> "Delete", filter |-> filter]
Insert(columns, tuples) == [kind |-> "Insert", columns |-> columns, rows |-> tuples]

Where(path, operator, value) == {{Leaf(path, operator, {value})}}
EveryK == Where(K, "GreaterThanOrEqual", Num(1))

\* Clear plans.
ClearPlans ==
    {Update(<<Set(K, Num(2))>>, Where(K, "Equal", Num(1))),
     Update(<<Set(N, Num(2))>>, Where(K, "Equal", Num(2))),
     Delete(Where(K, "Equal", Num(2))),
     Insert(<<K>>, << <<Num(1)>>, <<Num(2)>> >>)}

\* Plans with one ambiguity that a candidate may resolve.
GatedPlans ==
    {Update(<<Set(A, Numeral(6))>>, EveryK),
     Update(<<Set(A, Padded(6))>>, Where(K, "Equal", Num(1))),
     Update(<<Set(A, Num(6))>>, Where(K, "Equal", Num(1))),
     Update(<<Set(A, Numeral(MaxInt + 1))>>, Where(K, "Equal", Num(1))),
     Update(<<Set(BC, Num(2))>>, EveryK),
     Delete(Where(BC, "Equal", Num(1))),
     Insert(<<K, BC>>, << <<Num(2), Num(4)>> >>)}

\* Plans that are refused: by the type policy, by the gate, by the executor.
RefusedPlans ==
    {Update(<<Set(K, Numeral(2))>>, EveryK),
     Update(<<Set(K, Num(2))>>, Where(K, "Equal", Null)),
     Update(<<Set(A, Num(6)), Set(BC, Num(2))>>, EveryK),
     Update(<<Set(A, Num(6))>>, Where(A, "Equal", Num(5))),
     Update(<<Set(K, Placeholder)>>, EveryK),
     Update(<<Set(XY, Num(1))>>, EveryK),
     Update(<<Set(B, Num(2))>>, EveryK),
     Update(<<Set(K, Num(2)), Set(K, Num(3))>>, EveryK),
     Update(<<Set(BC, Placeholder)>>, EveryK)}

\* For the violation run of a dotted key inside a document.
NestedDotted == {d1 :> Doc(<<K, B, BD>>, <<Num(1), DocumentValue, Num(1)>>)}
NestedDottedPlans == {Update(<<Set(BD, Num(2))>>, EveryK)}

MCPlans == ClearPlans \cup GatedPlans \cup RefusedPlans

\* Plans that write, or fail, in different places.
PairPlans ==
    {Update(<<Set(K, Num(2))>>, Where(K, "Equal", Num(1))),
     Delete(Where(K, "Equal", Num(2))),
     Insert(<<K>>, << <<Num(1)>>, <<Num(2)>> >>),
     Update(<<Set(A, Numeral(6))>>, EveryK),
     Update(<<Set(BC, Num(2))>>, EveryK),
     Delete(Where(BC, "Equal", Num(1))),
     Insert(<<K, BC>>, << <<Num(2), Num(4)>> >>),
     Update(<<Set(K, Numeral(2))>>, EveryK),
     Update(<<Set(XY, Num(1))>>, EveryK),
     Update(<<Set(BC, Placeholder)>>, EveryK)}

\* A bound of the run with every plan: where there are two statements, both
\* have plans of PairPlans.
SmallPairs ==
    \/ \E s \in Statements : \A t \in Statements \ {s} : plan'[t] = NoPlan
    \/ \A s \in Statements : plan'[s] \in PairPlans

\* A gated update, an update of the field of two types and an INSERT, for the
\* temporal properties.
PartialPlans ==
    {Update(<<Set(BC, Num(2))>>, Where(K, "Equal", Num(2))),
     Update(<<Set(A, Num(6))>>, Where(K, "Equal", Num(1))),
     Insert(<<K>>, << <<Num(1)>>, <<Num(2)>> >>)}

\* One plan of each kind, for a violation run: the update and the INSERT are gated.
FewPlans ==
    {Delete(Where(K, "Equal", Num(2))),
     Update(<<Set(BC, Num(2))>>, EveryK),
     Insert(<<K, BC>>, << <<Num(2), Num(4)>>, <<Num(3), Num(4)>> >>)}

Confidence(neg, bp) == [neg |-> neg, bp |-> bp]

Response(candidate, confidence) ==
    [contract_version |-> "v2", schema_profile_version |-> 1, operation |-> "same",
     target_path |-> "same", candidate |-> candidate, confidence |-> confidence,
     rationale |-> 1]

\* Any candidate, and every way to fail validation.
MCResponses ==
    LET sure == Confidence(FALSE, 8000)
        good == Response("UseNestedPath", sure)
    IN  {Response(c, sure) : c \in ResolutionCandidates}
        \cup {Response("UseNestedPath", Confidence(FALSE, 7999)),
              Response("UseNestedPath", Confidence(FALSE, 10001)),
              Response("UseNestedPath", Confidence(TRUE, 0)),
              [good EXCEPT !.contract_version = "v1"],
              [good EXCEPT !.schema_profile_version = 2],
              [good EXCEPT !.operation = "other"],
              [good EXCEPT !.target_path = "other"],
              [good EXCEPT !.rationale = 0],
              [good EXCEPT !.rationale = 501]}

FewResponses ==
    {Response("UseNestedPath", Confidence(FALSE, 8000)),
     Response("UseNestedPath", Confidence(TRUE, 0)),
     Response("Reject", Confidence(FALSE, 8000))}

Symmetry == Permutations(Statements)

=============================================================================
