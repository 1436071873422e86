-------------------------------- MODULE MCReads --------------------------------
(***************************************************************************)
(* Instances of Reads for TLC: two collections whose field names and types *)
(* get in each other's way.                                                *)
(***************************************************************************)
EXTENDS Reads

Of(type, int) == Value(type, int, IF type = "String" THEN "word" ELSE "none")
Num(n) == Of("Integer", n)
Word == Of("String", 0)
Null == Of("Null", 0)

C == <<"c">>    \* two collections; the first has a field of its own name
P == <<"p">>

K   == top_level(<<"k">>)          \* an integer in C, a string in P
CX  == top_level(<<"c">>)
CK  == child(CX, <<"k">>)          \* c.k, spelled like the field k of C
M   == top_level(<<"m">>)          \* an integer here, a string there
N   == top_level(<<"n">>)          \* an integer, null or missing
S   == top_level(<<"s">>)          \* a string
D   == top_level(<<"d">>)          \* a date
XY  == top_level(<<"x", "y">>)     \* a literal dotted key
X   == top_level(<<"x">>)
X_Y == child(X, <<"y">>)           \* a nested field of the same joined name
LIT == top_level(<<"l", "t">>)     \* a literal dotted key, alone

Doc(fields, contents) ==
    [q \in ToSet(fields) |-> contents[CHOOSE i \in DOMAIN fields : fields[i] = q]]

First  == Doc(<<K, CX, CK, M, N, S, XY>>,
              <<Num(1), DocumentValue, Num(5), Num(1), Num(1), Word, Num(0)>>)
Second == Doc(<<K, CX, CK, M, N, S, X, X_Y, D, LIT>>,
              <<Num(2), DocumentValue, Num(6), Word, Null, Word, DocumentValue, Num(1),
                Of("DateTime", 0), Num(0)>>)
Other  == Doc(<<K, S>>, <<Word, Null>>)

MCSamples ==
    [c \in {C, P} |-> IF c = C THEN [id \in {1, 2} |-> <<First, Second>>[id]]
                                ELSE [id \in {1} |-> Other]]

Plain(path) == Spelled(path, FALSE)
Named(names, op, values) == [names |-> names, op |-> op, values |-> values]
Where(path, op, values) == {{Named(Plain(path), op, values)}}

Select(c, projection, filter, limit) ==
    [kind |-> "Select", collection |-> c, projection |-> projection, filter |-> filter, limit |-> limit]
Update(assignments, filter) ==
    [kind |-> "Update", collection |-> C, assignments |-> assignments, filter |-> filter]
Set(path, value) == [names |-> Plain(path), value |-> value]
Insert(names, row) == [kind |-> "Insert", collection |-> C, columns |-> names, row |-> row]
Quoted(path) == Ident(display_name(path), TRUE)

Selects1 ==
    {Select(C, <<>>, {}, {}),
     Select(P, <<>>, {}, {}),
     Select(<<"u">>, <<>>, {}, {}),
     Select(C, <<Plain(K), Plain(N), Plain(M)>>, Where(K, "Equal", {Num(1)}), {Num(1)}),
     Select(C, <<Plain(X), Plain(X_Y)>>, {}, {}),
     Select(C, <<Plain(X_Y), <<Quoted(XY)>> >>, {}, {}),
     Select(C, <<Plain(CK), Plain(CX)>>, {}, {}),
     Select(C, <<Spelled(CK, TRUE), Plain(S)>>,
            {{Named(Plain(K), "In", {Num(1), Num(3)}), Named(Plain(S), "IsNotNull", {})}}, {Num(2)}),
     Select(C, <<Plain(S)>>, {{Named(Plain(K), "GreaterThan", {Num(1)})},
                              {Named(Plain(N), "IsNotNull", {}), Named(Plain(M), "Equal", {Word})}}, {}),
     Select(C, <<>>, {{Named(Plain(N), "NotEqual", {Num(2)}), Named(Plain(K), "LessThanOrEqual", {Num(2)})}}, {}),
     Select(C, <<Plain(N)>>, Where(N, "IsNull", {}), {}),
     Select(C, <<Plain(N)>>, Where(N, "NotIn", {Num(1)}), {}),
     Select(C, <<>>, Where(K, "Equal", {Word}), {}),
     Select(C, <<>>, {}, {Num(-1)}),
     Select(C, <<Plain(K)>>, {}, {Num(0)}),
     Select(P, <<Plain(K)>>, Where(K, "Equal", {Word}), {Num(1)})}

Writes1 ==
    {Update(<<Set(N, Num(2)), Set(K, Num(3))>>, Where(K, "Equal", {Num(1)})),
     Update(<<Set(X_Y, Num(2))>>, Where(N, "NotEqual", {Num(1)})),
     Update(<<Set(CX, Null)>>, Where(K, "Equal", {Num(1)})),
     Update(<<Set(S, Null)>>, Where(M, "NotIn", {Num(1)})),
     Update(<<Set(S, Num(1))>>, Where(K, "Equal", {Num(1)})),
     Insert(<<Quoted(K), Quoted(X_Y)>>, <<Num(2), Num(1)>>),
     Insert(<<Quoted(K), Quoted(CK)>>, <<Num(2), Num(1)>>),
     Insert(<<Ident(<<"c", "k">>, TRUE), Quoted(S)>>, <<Num(5), Word>>),
     Insert(<<Quoted(LIT)>>, <<Num(5)>>),
     Insert(<<Quoted(S), Quoted(M), Quoted(N)>>, <<Word, Word, Null>>),
     [kind |-> "Delete", collection |-> C, filter |-> Where(CK, "GreaterThanOrEqual", {Num(6)})],
     [kind |-> "Delete", collection |-> C,
      filter |-> {{Named(<<Quoted(LIT)>>, "Equal", {Num(0)}), Named(Plain(S), "IsNotNull", {})}}],
     [kind |-> "Delete", collection |-> P, filter |-> {}],
     [kind |-> "Delete", collection |-> P, filter |-> Where(S, "IsNull", {})]}

MCStatements == Selects1 \cup Writes1

=============================================================================
