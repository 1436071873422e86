--------------------------- MODULE MCExtendedQuery ---------------------------
(***************************************************************************)
(* Instances of ExtendedQuery for TLC: one session, statements with        *)
(* placeholders in every position, and values of every encoding.           *)
(***************************************************************************)
EXTENDS ExtendedQuery, TLC

\* The largest integers, in place of those of 16, 32 and 64 bits.
MCLargest == [INT2 |-> 1, INT4 |-> 3, INT8 |-> 7]

K == top_level(<<"k">>)    \* an integer
S == top_level(<<"s">>)    \* a string, missing in one document
A == top_level(<<"a">>)    \* an integer here, a string there
N == top_level(<<"n">>)    \* only ever null
T == top_level(<<"t">>)    \* a boolean or null
F == top_level(<<"f">>)    \* a floating point number
U == top_level(<<"u">>)    \* unknown to the profile

Of(type, int) == Value(type, int, IF type = "String" THEN "word" ELSE "none")
Parameter(n) == Value("Placeholder", n, "none")

\* The sample as a set of functions from path to value.
MCDocuments ==
    ("d1" :> (K :> Of("Integer", 1) @@ S :> Of("String", 0) @@ A :> Of("Integer", 1)
              @@ N :> Of("Null", 0) @@ T :> Of("Boolean", 1) @@ F :> Of("FloatingPoint", 1)))
    @@ ("d2" :> (K :> Of("Integer", 2) @@ A :> Of("String", 0)
                 @@ N :> Of("Null", 0) @@ T :> Of("Null", 0) @@ F :> Of("FloatingPoint", 2)))

Set(path, value) == [path |-> path, value |-> value]
Select(filter) == [kind |-> "Select", filter |-> filter]
Update(assignments, filter) == [kind |-> "Update", assignments |-> assignments, filter |-> filter]
Delete(filter) == [kind |-> "Delete", filter |-> filter]
Insert(columns, rows) == [kind |-> "Insert", columns |-> columns, rows |-> rows]
Where(path, op, values) == {{Leaf(path, op, values)}}

Plans ==
    {Select({}),
     Select(Where(K, "In", {Parameter(1), Of("Integer", 2)})),
     Select(Where(A, "Equal", {Of("Integer", 1)})),
     Select(Where(U, "Equal", {Of("Integer", 1)})),
     Update(<<Set(S, Parameter(1))>>, Where(K, "Equal", {Parameter(2)})),
     Update(<<Set(K, Parameter(1))>>, Where(K, "Equal", {Parameter(1)})),
     Update(<<Set(S, Parameter(1))>>, Where(K, "Equal", {Parameter(1)})),
     Update(<<Set(K, Parameter(2))>>, Where(S, "IsNotNull", {})),
     Update(<<Set(T, Parameter(1))>>, Where(F, "LessThan", {Parameter(2)})),
     Update(<<Set(N, Parameter(1))>>, Where(K, "Equal", {Of("Integer", 1)})),
     Delete({{Leaf(K, "GreaterThan", {Parameter(1)})}, {Leaf(A, "Equal", {Parameter(2)})}}),
     Insert(<<K, S>>, << <<Parameter(1), Parameter(2)>>, <<Parameter(3), Of("String", 0)>> >>),
     Insert(<<K>>, << <<Parameter(0)>> >>)}

MCTexts ==
    [catalog : {FALSE}, plan : Plans]
    \cup {[catalog |-> TRUE, plan |-> NoPlan],
          [catalog |-> TRUE, plan |-> Insert(<<S>>, << <<Of("String", 0)>> >>)]}

MCTypeLists ==
    {<<>>, <<"INT2">>, <<"TEXT">>, <<"DATE">>, <<"VARCHAR", "INT4">>, <<"BOOL", "UNKNOWN">>}

Characters(n, form) == [int |-> n, size |-> 0, form |-> form]
Bytes(size, n) == [int |-> n, size |-> size, form |-> "none"]
Infinity == [int |-> 0, size |-> 8, form |-> "nonfinite"]

One == Characters(1, "canonical")
Two == Characters(2, "padded")
Word == Characters(0, "word")

Supply(values, codes) == [values |-> values, codes |-> codes]

MCSupplies ==
    {Supply(<<>>, <<>>), Supply(<<One>>, <<>>), Supply(<<Two>>, <<>>), Supply(<<Word>>, <<>>),
     Supply(<<NullParameter>>, <<>>),
     Supply(<<Bytes(2, 1)>>, <<"binary">>), Supply(<<Bytes(8, -1)>>, <<"binary">>),
     Supply(<<Bytes(8, -1)>>, <<>>),
     Supply(<<Word, One>>, <<>>), Supply(<<NullParameter, Bytes(4, 3)>>, <<"text", "binary">>),
     Supply(<<One, NullParameter>>, <<>>),
     Supply(<<Bytes(1, 1), Infinity>>, <<"binary">>),
     Supply(<<One, Word, Two>>, <<>>), Supply(<<One, Word, Two>>, <<"text", "binary">>)}

=============================================================================
