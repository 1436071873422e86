--------------------------- MODULE MongoWritesProofs ---------------------------
(***************************************************************************)
(* Lemmas about field paths and about documents after a write, and the two *)
(* facts about writes that the systems which use them rest on:             *)
(* a write keeps a document a document, and each value it holds afterwards *)
(* was there before, was given for its path, or encloses one that was.     *)
(*                                                                         *)
(* The operators are recursive functions.  What such a function computes   *)
(* is shown with the smallest index at which it would be something else,   *)
(* which NatMinimum provides.                                              *)
(***************************************************************************)
EXTENDS MongoWrites, FiniteSetTheorems, SequenceTheorems, WellFoundedInduction, TLAPS

-----------------------------------------------------------------------------
(* The least number *)

\* A set of numbers has a least one, because finite sets cannot shrink for ever.
LEMMA NatMinimum ==
  ASSUME NEW S \in SUBSET Nat, S # {}
  PROVE  \E n \in S : \A m \in S : n =< m
  <1> DEFINE T == {0 .. n : n \in S}
             R == StrictSubsetOrdering(Nat)
  <1>1. T \subseteq FiniteSubsetsOf(Nat) /\ T # {}
    <2>1. ASSUME NEW n \in S
          PROVE  0 .. n \in SUBSET Nat /\ IsFiniteSet(0 .. n)
      BY FS_Interval
    <2> QED
      BY <2>1 DEF FiniteSubsetsOf
  <1>2. IsWellFoundedOn(R, FiniteSubsetsOf(Nat))
    BY FS_StrictSubsetOrderingWellFounded
  <1>3. \E x \in T : \A y \in T : ~ (<<y, x>> \in R)
    <2> HIDE DEF T, R
    <2> QED
      BY <1>1, <1>2, WFMin
  <1>4. PICK n \in S : \A y \in T : ~ (<<y, 0 .. n>> \in R)
    BY <1>3
  <1>5. ASSUME NEW m \in S, m < n
        PROVE  FALSE
    <2>1. 0 .. m \in SUBSET Nat /\ 0 .. n \in SUBSET Nat /\ 0 .. m \subseteq 0 .. n
      BY <1>5
    <2>2. 0 .. m # 0 .. n
      <3>1. n \in 0 .. n /\ n \notin 0 .. m
        BY <1>5
      <3> QED
        BY <3>1
    <2>3. <<0 .. m, 0 .. n>> \in R
      BY <2>1, <2>2 DEF StrictSubsetOrdering
    <2> QED
      BY <1>4, <2>3
  <1> QED
    BY <1>5

-----------------------------------------------------------------------------
(* Recursive functions *)

\* What FlattenSeq makes of the first n of a list of sequences, for each n.
IsFlatten(g, seqs, n) == g = [i \in 1 .. n |-> IF i = 1 THEN seqs[i] ELSE g[i - 1] \o seqs[i]]

\* The function behind FlattenSeq exists.
LEMMA FlattenExists ==
  ASSUME NEW S, NEW seqs \in Seq(Seq(S)), NEW n \in 0 .. Len(seqs)
  PROVE  \E g : /\ IsFlatten(g, seqs, n)
                /\ \A i \in 1 .. n : g[i] \in Seq(S)
  <1> DEFINE Is(g, m) == IsFlatten(g, seqs, m) /\ \A i \in 1 .. m : g[i] \in Seq(S)
             Missing == {m \in 0 .. n : ~ \E g : Is(g, m)}
  <1> SUFFICES \E g : Is(g, n)
    OBVIOUS
  <1> HIDE DEF Is
  <1>1. (~ \E g : Is(g, n)) => n \in Missing
    <2>1. n \in 0 .. n
      OBVIOUS
    <2> QED
      BY <2>1, Zenon
  <1>2. SUFFICES ASSUME Missing # {} PROVE FALSE
    BY <1>1
  <1>3. Missing \in SUBSET Nat
    OBVIOUS
  <1>4. PICK m \in Missing : \A k \in Missing : m =< k
    <2> HIDE DEF Missing
    <2> QED
      BY <1>2, <1>3, NatMinimum
  <1>5. m \in Nat /\ m =< n /\ ~ \E g : Is(g, m)
    BY <1>4
  <1>6. m # 0
    <2>1. Is([i \in 1 .. 0 |-> <<>>], 0)
      BY DEF Is, IsFlatten
    <2> QED
      BY <1>5, <2>1
  <1>7. m - 1 \in 0 .. n /\ m - 1 \notin Missing
    BY <1>4, <1>5, <1>6
  <1>8. PICK g : Is(g, m - 1)
    BY <1>7
  <1> DEFINE h == [i \in 1 .. m |-> IF i < m THEN g[i]
                                   ELSE IF m = 1 THEN seqs[m] ELSE g[m - 1] \o seqs[m]]
  <1>9. \A i \in 1 .. m - 1 : h[i] = g[i]
    BY <1>5, <1>6
  <1>10. \A i \in 1 .. m : seqs[i] \in Seq(S)
    BY <1>5
  <1>11. \A i \in 1 .. m : h[i] \in Seq(S)
    <2>1. \A i \in 1 .. m - 1 : g[i] \in Seq(S)
      BY <1>8 DEF Is
    <2> QED
      BY <1>5, <1>6, <1>10, <2>1
  <1>12. ASSUME NEW i \in 1 .. m
         PROVE  h[i] = IF i = 1 THEN seqs[i] ELSE h[i - 1] \o seqs[i]
    <2>1. CASE i < m
      <3>1. i \in 1 .. m - 1 /\ h[i] = g[i]
        BY <1>5, <1>9, <2>1
      <3>2. g[i] = IF i = 1 THEN seqs[i] ELSE g[i - 1] \o seqs[i]
        BY <1>8, <3>1 DEF Is, IsFlatten
      <3>3. i # 1 => i - 1 \in 1 .. m - 1 /\ h[i - 1] = g[i - 1]
        BY <1>5, <1>9, <2>1
      <3> QED
        BY <3>1, <3>2, <3>3
    <2>2. CASE i = m
      <3>1. i # 1 => i - 1 \in 1 .. m - 1 /\ h[i - 1] = g[i - 1]
        BY <1>5, <1>9, <2>2
      <3> QED
        BY <1>5, <2>2, <3>1
    <2> QED
      BY <1>5, <2>1, <2>2
  <1>13. h = [i \in 1 .. m |-> IF i = 1 THEN seqs[i] ELSE h[i - 1] \o seqs[i]]
    <2>1. h = [i \in 1 .. m |-> h[i]]
      OBVIOUS
    <2> HIDE DEF h
    <2> QED
      BY <1>12, <2>1
  <1>14. Is(h, m)
    <2> HIDE DEF h
    <2> QED
      BY <1>11, <1>13 DEF Is, IsFlatten
  <1> QED
    BY <1>5, <1>14
\* There is only one.
LEMMA FlattenUnique ==
  ASSUME NEW seqs, NEW n \in Nat, NEW f, NEW g,
         IsFlatten(f, seqs, n), IsFlatten(g, seqs, n)
  PROVE  f = g
  <1> DEFINE Differs == {m \in 1 .. n : f[m] # g[m]}
  <1>1. ASSUME NEW m \in 1 .. n
        PROVE  /\ f[m] = IF m = 1 THEN seqs[m] ELSE f[m - 1] \o seqs[m]
               /\ g[m] = IF m = 1 THEN seqs[m] ELSE g[m - 1] \o seqs[m]
    BY Zenon DEF IsFlatten
  <1>2. Differs = {}
    <2> SUFFICES ASSUME Differs # {} PROVE FALSE
      OBVIOUS
    <2>1. Differs \in SUBSET Nat
      OBVIOUS
    <2>2. PICK m \in Differs : \A k \in Differs : m =< k
      <3> HIDE DEF Differs
      <3> QED
        BY <2>1, NatMinimum
    <2>3. m \in 1 .. n /\ f[m] # g[m]
      OBVIOUS
    <2>4. m # 1
      BY <1>1, <2>3
    <2>5. m - 1 \in 1 .. n /\ m - 1 \notin Differs
      BY <2>2, <2>3, <2>4
    <2>6. f[m - 1] = g[m - 1]
      BY <2>5
    <2>7. f[m] = f[m - 1] \o seqs[m] /\ g[m] = g[m - 1] \o seqs[m]
      BY <1>1, <2>3, <2>4, Zenon
    <2> QED
      BY <2>3, <2>6, <2>7, Zenon
  <1>3. \A m \in 1 .. n : f[m] = g[m]
    BY <1>2
  <1>4. f = [i \in 1 .. n |-> f[i]] /\ g = [i \in 1 .. n |-> g[i]]
    <2>1. DOMAIN f = 1 .. n /\ DOMAIN g = 1 .. n
      BY Zenon DEF IsFlatten
    <2>2. f = [i \in DOMAIN f |-> f[i]] /\ g = [i \in DOMAIN g |-> g[i]]
      BY Zenon DEF IsFlatten
    <2> QED
      BY <2>1, <2>2, Zenon
  <1> QED
    BY <1>3, <1>4, Zenon

\* A function that satisfies the equation gives what FlattenSeq returns.
LEMMA FlattenIs ==
  ASSUME NEW S, NEW seqs \in Seq(Seq(S)), Len(seqs) # 0, NEW g,
         IsFlatten(g, seqs, Len(seqs))
  PROVE  FlattenSeq(seqs) = g[Len(seqs)]
  <1> DEFINE F == CHOOSE f :
                f = [i \in 1 .. Len(seqs) |-> IF i = 1 THEN seqs[i] ELSE f[i - 1] \o seqs[i]]
  <1>1. FlattenSeq(seqs) = F[Len(seqs)]
    BY DEF FlattenSeq
  <1>2. IsFlatten(F, seqs, Len(seqs))
    BY Zenon DEF IsFlatten
  <1>3. Len(seqs) \in Nat
    OBVIOUS
  <1>4. F = g
    <2> HIDE DEF F
    <2> QED
      BY <1>2, <1>3, FlattenUnique, Zenon
  <1> QED
    BY <1>1, <1>4

-----------------------------------------------------------------------------
(* Names *)

\* Joining the segments of a path gives a list of atoms.
LEMMA DisplayNameType ==
  ASSUME NEW path \in Paths
  PROVE  display_name(path) \in Seq(STRING)
  <1>1. path \in Seq(Seq(STRING))
    BY DEF Paths
  <1>2. CASE Len(path) = 0
    BY <1>1, <1>2 DEF display_name, FlattenSeq
  <1>3. CASE Len(path) # 0
    <2>1. Len(path) \in 0 .. Len(path) /\ Len(path) \in 1 .. Len(path)
      BY <1>1, <1>3
    <2>2. PICK g : /\ IsFlatten(g, path, Len(path))
                   /\ \A i \in 1 .. Len(path) : g[i] \in Seq(STRING)
      BY <1>1, <2>1, FlattenExists, Zenon
    <2>3. FlattenSeq(path) = g[Len(path)]
      BY <1>1, <1>3, <2>2, FlattenIs, Zenon
    <2> QED
      BY <2>1, <2>2, <2>3 DEF display_name
  <1> QED
    BY <1>2, <1>3

\* The name of a path of one segment is the segment.
LEMMA TopLevelName ==
  ASSUME NEW segment \in Seq(STRING)
  PROVE  display_name(top_level(segment)) = segment
  <1> DEFINE g == [i \in 1 .. 1 |-> segment]
             path == <<segment>>
  <1>1. path \in Seq(Seq(STRING)) /\ Len(path) = 1 /\ path[1] = segment
    OBVIOUS
  <1>2. IsFlatten(g, path, 1)
    <2>1. \A i \in 1 .. 1 : i = 1
      OBVIOUS
    <2>2. \A i \in 1 .. 1 : segment = IF i = 1 THEN path[i] ELSE g[i - 1] \o path[i]
      BY <1>1, <2>1, Zenon
    <2> QED
      BY <2>2, Zenon DEF IsFlatten
  <1>3. g[1] = segment
    OBVIOUS
  <1>4. FlattenSeq(path) = g[1]
    <2> HIDE DEF g, path
    <2>1. Len(path) # 0
      BY <1>1
    <2> QED
      BY <1>1, <1>2, <2>1, FlattenIs, Zenon
  <1> QED
    BY <1>3, <1>4 DEF display_name, top_level

\* A path none of whose segments has a dot in it.
PlainPath(path) == \A i \in DOMAIN path : Len(path[i]) = 1

\* MongoDB reads the name of a plain path as the path.
LEMMA PlainPathIsKept ==
  ASSUME NEW path \in Paths, PlainPath(path)
  PROVE  MongoPath(path) = path
  <1> DEFINE n == Len(path)
             g == [i \in 1 .. n |-> [k \in 1 .. i |-> path[k][1]]]
  <1>1. path \in Seq(Seq(STRING)) /\ n \in Nat /\ path = [i \in 1 .. n |-> path[i]]
    BY DEF Paths
  <1>2. \A i \in 1 .. n : path[i] \in Seq(STRING) /\ Len(path[i]) = 1 /\ path[i] = <<path[i][1]>>
    BY <1>1 DEF PlainPath
  <1>3. CASE n = 0
    <2>1. path = <<>> /\ display_name(path) = <<>>
      BY <1>1, <1>3 DEF display_name, FlattenSeq
    <2> QED
      BY <2>1 DEF MongoPath
  <1>4. CASE n # 0
    <2>1. ASSUME NEW i \in 1 .. n
          PROVE  g[i] = IF i = 1 THEN path[i] ELSE g[i - 1] \o path[i]
      <3>1. g[i] = [k \in 1 .. i |-> path[k][1]]
        OBVIOUS
      <3>2. CASE i = 1
        <4>1. g[i] = <<path[1][1]>>
          BY <3>1, <3>2
        <4> QED
          BY <1>2, <3>2, <4>1
      <3>3. CASE i # 1
        <4> DEFINE shorter == [k \in 1 .. i - 1 |-> path[k][1]]
        <4>1. i - 1 \in 1 .. n /\ g[i - 1] = shorter
          BY <1>1, <3>3
        <4>2. shorter \in Seq(STRING) /\ Len(shorter) = i - 1
          <5>1. \A k \in 1 .. i - 1 : path[k][1] \in STRING
            BY <1>1, <1>2
          <5>2. i - 1 \in Nat
            BY <1>1
          <5>3. shorter \in [1 .. i - 1 -> STRING]
            BY <5>1, Zenon
          <5> HIDE DEF shorter
          <5> QED
            BY <5>2, <5>3
        <4>3. path[i] = <<path[i][1]>> /\ path[i][1] \in STRING
          BY <1>2
        <4>4. \A k \in 1 .. i - 1 : shorter[k] = path[k][1]
          OBVIOUS
        <4>5. shorter \o <<path[i][1]>> = [k \in 1 .. i |-> path[k][1]]
          <5> DEFINE e == path[i][1]
                     one == <<e>>
                     longer == shorter \o one
          <5>1. i \in Nat \ {0} /\ one \in Seq(STRING) /\ Len(one) = 1 /\ one[1] = e
            BY <1>1, <4>3
          <5> HIDE DEF shorter, e, one
          <5>2. /\ longer \in Seq(STRING) /\ Len(longer) = Len(shorter) + Len(one)
                /\ \A k \in 1 .. Len(shorter) + Len(one) :
                      longer[k] = IF k <= Len(shorter) THEN shorter[k] ELSE one[k - Len(shorter)]
            BY <4>2, <5>1, ConcatProperties
          <5> HIDE DEF longer
          <5>3. Len(longer) = i /\ \A k \in 1 .. i - 1 : longer[k] = shorter[k]
            BY <4>2, <5>1, <5>2
          <5>4. longer[i] = e
            BY <4>2, <5>1, <5>2
          <5>5. \A k \in 1 .. i : longer[k] = path[k][1]
            <6>1. \A k \in 1 .. i : k \in 1 .. i - 1 \/ k = i
              BY <5>1
            <6> QED
              BY <4>4, <5>3, <5>4, <6>1 DEF e
          <5>6. longer = [k \in 1 .. i |-> longer[k]]
            BY <5>1, <5>2, <5>3
          <5>7. longer = [k \in 1 .. i |-> path[k][1]]
            BY <5>5, <5>6, Zenon
          <5> QED
            BY <5>7 DEF longer, one, e
        <4>6. g[i] = g[i - 1] \o path[i]
          BY <3>1, <4>1, <4>3, <4>5, Zenon
        <4> QED
          BY <3>3, <4>6, Zenon
      <3> QED
        BY <3>2, <3>3
    <2>2. IsFlatten(g, path, n)
      <3>1. g = [i \in 1 .. n |-> g[i]]
        OBVIOUS
      <3> HIDE DEF g, n
      <3> QED
        BY <2>1, <3>1, Zenon DEF IsFlatten
    <2>3. FlattenSeq(path) = g[n]
      <3> HIDE DEF g
      <3> QED
        BY <1>1, <1>4, <2>2, FlattenIs, Zenon
    <2>4. n \in 1 .. n /\ g[n] = [k \in 1 .. n |-> path[k][1]]
      BY <1>1, <1>4
    <2>5. display_name(path) = [k \in 1 .. n |-> path[k][1]]
      BY <2>3, <2>4 DEF display_name
    <2>6. Len(display_name(path)) = n /\ \A k \in 1 .. n : display_name(path)[k] = path[k][1]
      <3> DEFINE name == display_name(path)
      <3>1. name \in Seq(STRING)
        BY DisplayNameType
      <3>2. DOMAIN name = 1 .. n /\ \A k \in 1 .. n : name[k] = path[k][1]
        BY <2>5, Zenon
      <3> HIDE DEF n, name
      <3>3. Len(name) = n
        BY <1>1, <3>1, <3>2
      <3> QED
        BY <3>2, <3>3 DEF name
    <2>7. MongoPath(path) = [i \in 1 .. n |-> <<path[i][1]>>]
      <3> HIDE DEF n
      <3> QED
        BY <2>6, Zenon DEF MongoPath
    <2> QED
      <3> HIDE DEF n
      <3> QED
        BY <1>1, <1>2, <2>7
  <1> QED
    BY <1>3, <1>4
\* Spelling a plain path with dots and splitting it there gives the path.
LEMMA PlainPathIsSpelled ==
  ASSUME NEW path \in Paths, PlainPath(path)
  PROVE  MongoPath(top_level(display_name(path))) = path
  <1>1. display_name(top_level(display_name(path))) = display_name(path)
    BY DisplayNameType, TopLevelName
  <1>2. MongoPath(top_level(display_name(path))) = MongoPath(path)
    BY <1>1, Zenon DEF MongoPath
  <1> QED
    BY <1>2, PlainPathIsKept

-----------------------------------------------------------------------------
(* Enclosing paths *)

\* What encloses a path is a shorter beginning of it.
LEMMA AncestorIsPrefix ==
  ASSUME NEW path \in Paths, NEW q \in Ancestors(path)
  PROVE  /\ q \in Paths \ {<<>>} /\ q # path /\ path # <<>>
         /\ Len(q) \in 1 .. Len(path) - 1 /\ q = SubSeq(path, 1, Len(q))
         /\ IsPrefix(q, path) /\ ~IsPrefix(path, q)
  <1>1. path \in Seq(Seq(STRING)) /\ Len(path) \in Nat
    BY DEF Paths
  <1>2. PICK n \in 1 .. Len(path) - 1 : q = SubSeq(path, 1, n)
    BY DEF Ancestors
  <1>3. q \in Seq(Seq(STRING)) /\ Len(q) = n
    BY <1>1, <1>2
  <1>4. n \in Nat /\ n >= 1 /\ n < Len(path)
    BY <1>1
  <1>5. SubSeq(q, 1, Len(q)) = q
    BY <1>3, <1>4
  <1>6. q = SubSeq(path, 1, Len(q)) /\ Len(q) \in 1 .. Len(path) - 1
    BY <1>2, <1>3
  <1>7. IsPrefix(q, path) /\ ~IsPrefix(path, q)
    BY <1>1, <1>3, <1>4, <1>5, <1>6 DEF IsPrefix
  <1>8. q # path /\ q # <<>> /\ path # <<>>
    <2>1. Len(<<>>) = 0
      OBVIOUS
    <2> QED
      BY <1>1, <1>3, <1>4, <2>1
  <1> QED
    BY <1>3, <1>6, <1>7, <1>8 DEF Paths

\* A beginning of a beginning.
LEMMA BeginningOfBeginning ==
  ASSUME NEW S, NEW s \in Seq(S), NEW n \in 0 .. Len(s), NEW m \in 0 .. n
  PROVE  SubSeq(SubSeq(s, 1, n), 1, m) = SubSeq(s, 1, m)
  <1> DEFINE long == SubSeq(s, 1, n)
             left == SubSeq(long, 1, m)
             right == SubSeq(s, 1, m)
  <1>1. /\ long \in Seq(S) /\ Len(long) = n
        /\ \A i \in 1 .. n : long[i] = s[i]
    OBVIOUS
  <1>2. /\ right \in Seq(S) /\ Len(right) = m
        /\ \A i \in 1 .. m : right[i] = s[i]
    OBVIOUS
  <1> HIDE DEF long, right
  <1>3. /\ left \in Seq(S) /\ Len(left) = m
        /\ \A i \in 1 .. m : left[i] = long[i]
    BY <1>1
  <1> HIDE DEF left
  <1>4. \A i \in 1 .. m : left[i] = right[i]
    BY <1>1, <1>2, <1>3
  <1>5. left = right
    BY <1>2, <1>3, <1>4
  <1> QED
    BY <1>5 DEF left, right, long

\* What encloses an enclosing document encloses the path as well.
LEMMA AncestorsNest ==
  ASSUME NEW path \in Paths, NEW q \in Ancestors(path), NEW r \in Ancestors(q)
  PROVE  r \in Ancestors(path)
  <1>1. path \in Seq(Seq(STRING)) /\ Len(path) \in Nat
    BY DEF Paths
  <1>2. q \in Paths /\ Len(q) \in 1 .. Len(path) - 1 /\ q = SubSeq(path, 1, Len(q))
    BY AncestorIsPrefix
  <1>3. Len(r) \in 1 .. Len(q) - 1 /\ r = SubSeq(q, 1, Len(r))
    BY <1>2, AncestorIsPrefix
  <1>4. r = SubSeq(path, 1, Len(r))
    <2> DEFINE n == Len(q)
               m == Len(r)
    <2>1. n \in 0 .. Len(path) /\ m \in 0 .. n
      BY <1>1, <1>2, <1>3
    <2>2. SubSeq(SubSeq(path, 1, n), 1, m) = SubSeq(path, 1, m)
      <3> HIDE DEF n, m
      <3> QED
        BY <1>1, <2>1, BeginningOfBeginning
    <2> QED
      BY <1>2, <1>3, <2>2
  <1>5. Len(r) \in 1 .. Len(path) - 1
    BY <1>1, <1>2, <1>3
  <1> QED
    BY <1>4, <1>5 DEF Ancestors

\* What is below a path stays below it further down.
LEMMA PrefixOfAncestor ==
  ASSUME NEW path \in Paths, NEW q \in Ancestors(path), NEW top \in Paths, IsPrefix(top, q)
  PROVE  IsPrefix(top, path)
  <1>1. path \in Seq(Seq(STRING)) /\ Len(path) \in Nat /\ Len(top) \in Nat
    BY DEF Paths
  <1>2. Len(q) \in 1 .. Len(path) - 1 /\ q = SubSeq(path, 1, Len(q))
    BY AncestorIsPrefix
  <1> DEFINE n == Len(q)
             m == Len(top)
  <1>3. m =< n /\ SubSeq(top, 1, m) = SubSeq(q, 1, m)
    BY DEF IsPrefix
  <1>4. n \in 0 .. Len(path) /\ m \in 0 .. n /\ m =< Len(path)
    BY <1>1, <1>2, <1>3
  <1>5. SubSeq(SubSeq(path, 1, n), 1, m) = SubSeq(path, 1, m)
    <2> HIDE DEF n, m
    <2> QED
      BY <1>1, <1>4, BeginningOfBeginning
  <1> QED
    BY <1>2, <1>3, <1>4, <1>5 DEF IsPrefix

\* MongoDB reads every name as a path.
LEMMA MongoPathType ==
  ASSUME NEW path \in Paths
  PROVE  MongoPath(path) \in Paths
  <1> DEFINE atoms == display_name(path)
  <1>1. atoms \in Seq(STRING) /\ Len(atoms) \in Nat
    BY DisplayNameType
  <1>2. \A i \in 1 .. Len(atoms) : <<atoms[i]>> \in Seq(STRING)
    BY <1>1
  <1>3. MongoPath(path) = [i \in 1 .. Len(atoms) |-> <<atoms[i]>>]
    BY DEF MongoPath
  <1> HIDE DEF atoms
  <1> QED
    BY <1>1, <1>2, <1>3 DEF Paths

-----------------------------------------------------------------------------
(* One value stored *)

\* Where the fields of a document come from after the values of a write were
\* stored: they were there, were given, or enclose what was given.
Origin(result, document, paths, values) ==
    \A q \in DOMAIN result :
        \/ q \in DOMAIN document /\ result[q] = document[q]
        \/ \E i \in 1 .. Len(paths) : q = paths[i] /\ result[q] = values[i]
        \/ \E i \in 1 .. Len(paths) : q \in Ancestors(paths[i]) /\ result[q] = DocumentValue

\* One more value stored.
LEMMA StoredOrigin ==
  ASSUME NEW document, NEW paths, NEW values, NEW i \in 1 .. Len(paths), NEW before,
         Origin(before, document, paths, values)
  PROVE  Origin(Stored(before, paths[i], values[i]), document, paths, values)
  <1> DEFINE after == Stored(before, paths[i], values[i])
  <1>1. ASSUME NEW q \in DOMAIN after
        PROVE  \/ q = paths[i] /\ after[q] = values[i]
               \/ q \in DOMAIN before /\ after[q] = before[q]
               \/ q \in Ancestors(paths[i]) /\ after[q] = DocumentValue
    BY <1>1 DEF Stored
  <1> HIDE DEF after
  <1>2. ASSUME NEW q \in DOMAIN after
        PROVE  \/ q \in DOMAIN document /\ after[q] = document[q]
               \/ \E k \in 1 .. Len(paths) : q = paths[k] /\ after[q] = values[k]
               \/ \E k \in 1 .. Len(paths) : q \in Ancestors(paths[k]) /\ after[q] = DocumentValue
    BY <1>1, <1>2 DEF Origin
  <1> QED
    BY <1>2 DEF Origin, after

\* A document stays one when no value that is no document encloses the path.
LEMMA StoredIsDocument ==
  ASSUME NEW document, IsDocument(document), NEW path \in Paths, NEW value,
         \A q \in Ancestors(path) \cap DOMAIN document : document[q].type = "Document"
  PROVE  IsDocument(Stored(document, path, value))
  <1> DEFINE after == Stored(document, path, value)
  <1>1. DOMAIN after = {r \in DOMAIN document : ~IsPrefix(path, r)} \cup Ancestors(path) \cup {path}
    BY DEF Stored
  <1>2. \A q \in Ancestors(path) : after[q].type = "Document"
    <2>1. ASSUME NEW q \in Ancestors(path)
          PROVE  after[q] = IF q \in DOMAIN document THEN document[q] ELSE DocumentValue
      <3>1. q # path
        BY <2>1, AncestorIsPrefix
      <3> QED
        BY <3>1 DEF Stored
    <2> QED
      BY <2>1 DEF DocumentValue, Value
  <1>3. ASSUME NEW q \in DOMAIN document, ~IsPrefix(path, q), document[q].type = "Document"
        PROVE  q \in DOMAIN after /\ after[q].type = "Document"
    <2>1. q # path
      BY <1>3 DEF IsPrefix, Paths
    <2> QED
      BY <1>3, <2>1 DEF Stored
  <1>4. \A p \in DOMAIN after : p \in Paths
    BY <1>1, AncestorIsPrefix DEF IsDocument
  <1>5. ASSUME NEW p \in DOMAIN after, NEW q \in Ancestors(p)
        PROVE  q \in DOMAIN after /\ after[q].type = "Document"
    <2>1. CASE p = path \/ p \in Ancestors(path)
      <3>1. q \in Ancestors(path)
        BY <1>5, <2>1, AncestorsNest
      <3> QED
        BY <1>1, <1>2, <3>1
    <2>2. CASE p \in DOMAIN document /\ ~IsPrefix(path, p)
      <3>1. q \in DOMAIN document /\ document[q].type = "Document" /\ p \in Paths
        BY <1>5, <2>2 DEF IsDocument
      <3>2. ~IsPrefix(path, q)
        BY <1>5, <2>2, <3>1, PrefixOfAncestor
      <3> QED
        BY <1>3, <3>1, <3>2
    <2> QED
      BY <1>1, <1>5, <2>1, <2>2
  <1> HIDE DEF after
  <1>6. IsDocument(after)
    BY <1>4, <1>5 DEF IsDocument
  <1> QED
    BY <1>6 DEF after
-----------------------------------------------------------------------------
(* The values of a write stored one after the other *)

\* The documents that StoredAll goes through.
IsStoring(g, document, paths, values, n) ==
    g = [i \in 0 .. n |-> IF i = 0 THEN document ELSE Stored(g[i - 1], paths[i], values[i])]

\* The function behind StoredAll exists.
LEMMA StoringExists ==
  ASSUME NEW document, NEW paths, NEW values, NEW n \in Nat
  PROVE  \E g : IsStoring(g, document, paths, values, n)
  <1> DEFINE Is(g, m) == IsStoring(g, document, paths, values, m)
             Missing == {m \in 0 .. n : ~ \E g : Is(g, m)}
  <1> SUFFICES \E g : Is(g, n)
    OBVIOUS
  <1> HIDE DEF Is
  <1>1. (~ \E g : Is(g, n)) => n \in Missing
    <2>1. n \in 0 .. n
      OBVIOUS
    <2> QED
      BY <2>1, Zenon
  <1>2. SUFFICES ASSUME Missing # {} PROVE FALSE
    BY <1>1
  <1>3. Missing \in SUBSET Nat
    OBVIOUS
  <1>4. PICK m \in Missing : \A k \in Missing : m =< k
    <2> HIDE DEF Missing
    <2> QED
      BY <1>2, <1>3, NatMinimum
  <1>5. m \in Nat /\ m =< n /\ ~ \E g : Is(g, m)
    BY <1>4
  <1>6. m # 0
    <2>1. Is([i \in 0 .. 0 |-> document], 0)
      BY DEF Is, IsStoring
    <2> QED
      BY <1>5, <2>1
  <1>7. m - 1 \in 0 .. n /\ m - 1 \notin Missing
    BY <1>4, <1>5, <1>6
  <1>8. PICK g : Is(g, m - 1)
    BY <1>7
  <1> DEFINE h == [i \in 0 .. m |-> IF i < m THEN g[i] ELSE Stored(g[m - 1], paths[m], values[m])]
  <1>9. \A i \in 0 .. m - 1 : h[i] = g[i]
    BY <1>5, <1>6
  <1>10. h[m] = Stored(g[m - 1], paths[m], values[m])
    BY <1>5
  <1>11. h = [i \in 0 .. m |-> h[i]]
    OBVIOUS
  <1> HIDE DEF h
  <1>12. ASSUME NEW i \in 0 .. m
         PROVE  h[i] = IF i = 0 THEN document ELSE Stored(h[i - 1], paths[i], values[i])
    <2>1. CASE i # m
      <3>1. i \in 0 .. m - 1 /\ h[i] = g[i]
        BY <1>5, <1>9, <2>1
      <3>2. g[i] = IF i = 0 THEN document ELSE Stored(g[i - 1], paths[i], values[i])
        BY <1>8, <3>1 DEF Is, IsStoring
      <3>3. i # 0 => i - 1 \in 0 .. m - 1 /\ h[i - 1] = g[i - 1]
        BY <1>5, <1>9
      <3> QED
        BY <3>1, <3>2, <3>3
    <2>2. CASE i = m
      <3>1. m - 1 \in 0 .. m - 1 /\ h[m - 1] = g[m - 1]
        BY <1>5, <1>6, <1>9
      <3> QED
        BY <1>6, <1>10, <2>2, <3>1
    <2> QED
      BY <2>1, <2>2
  <1>13. Is(h, m)
    BY <1>11, <1>12, Zenon DEF Is, IsStoring
  <1> QED
    BY <1>5, <1>13

\* StoredAll returns the last of them.
LEMMA StoringIs ==
  ASSUME NEW document, NEW paths, NEW values, Len(paths) \in Nat
  PROVE  \E g : /\ StoredAll(document, paths, values) = g[Len(paths)]
                /\ g[0] = document
                /\ \A i \in 1 .. Len(paths) : g[i] = Stored(g[i - 1], paths[i], values[i])
  <1> DEFINE n == Len(paths)
             G == CHOOSE g : g = [i \in 0 .. n |-> IF i = 0 THEN document
                                                  ELSE Stored(g[i - 1], paths[i], values[i])]
  <1>1. StoredAll(document, paths, values) = G[n]
    BY DEF StoredAll
  <1>2. \E g : IsStoring(g, document, paths, values, n)
    <2> HIDE DEF n
    <2> QED
      BY StoringExists DEF n
  <1>3. IsStoring(G, document, paths, values, n)
    BY <1>2, Zenon DEF IsStoring
  <1> HIDE DEF G, n
  <1>4. \A i \in 0 .. n : G[i] = IF i = 0 THEN document ELSE Stored(G[i - 1], paths[i], values[i])
    BY <1>3, Zenon DEF IsStoring
  <1>5. n \in Nat
    BY DEF n
  <1>6. G[0] = document /\ \A i \in 1 .. n : G[i] = Stored(G[i - 1], paths[i], values[i])
    <2>1. 0 \in 0 .. n /\ \A i \in 1 .. n : i \in 0 .. n /\ i # 0
      BY <1>5
    <2> QED
      BY <1>4, <2>1
  <1> QED
    BY <1>1, <1>6 DEF n

\* What holds of the documents one after the other holds of the last: the form
\* of the arguments below.
LEMMA LastOfAll ==
  ASSUME NEW n \in Nat, NEW Good \in SUBSET Nat, 0 \in Good,
         \A i \in 1 .. n : i - 1 \in Good => i \in Good
  PROVE  n \in Good
  <1> DEFINE Bad == {m \in 0 .. n : m \notin Good}
  <1>1. SUFFICES ASSUME Bad # {} PROVE FALSE
    <2>1. n \in 0 .. n
      OBVIOUS
    <2> QED
      BY <2>1
  <1>2. Bad \in SUBSET Nat
    OBVIOUS
  <1>3. PICK m \in Bad : \A k \in Bad : m =< k
    <2> HIDE DEF Bad
    <2> QED
      BY <1>1, <1>2, NatMinimum
  <1>4. m \in 0 .. n /\ m # 0
    OBVIOUS
  <1>5. m - 1 \in 0 .. n /\ m - 1 \notin Bad
    BY <1>3, <1>4
  <1>6. m \in 1 .. n /\ m - 1 \in Good
    BY <1>4, <1>5
  <1> QED
    BY <1>6

\* Every field of the result was there, was given, or encloses a given one.
LEMMA StoredAllOrigin ==
  ASSUME NEW document, NEW paths, NEW values, Len(paths) \in Nat
  PROVE  Origin(StoredAll(document, paths, values), document, paths, values)
  <1> DEFINE n == Len(paths)
  <1>1. PICK g : /\ StoredAll(document, paths, values) = g[n]
                 /\ g[0] = document
                 /\ \A i \in 1 .. n : g[i] = Stored(g[i - 1], paths[i], values[i])
    BY StoringIs
  <1> DEFINE Good == {i \in Nat : Origin(g[i], document, paths, values)}
  <1>2. 0 \in Good
    BY <1>1 DEF Origin
  <1>3. \A i \in 1 .. n : i - 1 \in Good => i \in Good
    <2>1. ASSUME NEW i \in 1 .. n, i - 1 \in Good
          PROVE  i \in Good
      <3>1. Origin(Stored(g[i - 1], paths[i], values[i]), document, paths, values)
        BY <2>1, StoredOrigin
      <3> QED
        BY <1>1, <3>1
    <2> QED
      BY <2>1
  <1>4. n \in Nat /\ Good \in SUBSET Nat
    OBVIOUS
  <1>5. n \in Good
    <2> HIDE DEF Good, n
    <2> QED
      BY <1>2, <1>3, <1>4, LastOfAll
  <1> QED
    BY <1>1, <1>5

\* Whether the values can be stored in a document at all: no field is set inside
\* another one that is set, nor inside a value of the document.
CanStore(document, paths) ==
    \A i \in 1 .. Len(paths) :
        /\ paths[i] \in Paths
        /\ \A j \in 1 .. Len(paths) : paths[j] \notin Ancestors(paths[i])
        /\ \A q \in Ancestors(paths[i]) \cap DOMAIN document : document[q].type = "Document"

\* A write keeps a document a document.
LEMMA StoredAllIsDocument ==
  ASSUME NEW document, IsDocument(document), NEW paths, Len(paths) \in Nat, NEW values,
         CanStore(document, paths)
  PROVE  IsDocument(StoredAll(document, paths, values))
  <1> DEFINE n == Len(paths)
  <1>1. PICK g : /\ StoredAll(document, paths, values) = g[n]
                 /\ g[0] = document
                 /\ \A i \in 1 .. n : g[i] = Stored(g[i - 1], paths[i], values[i])
    BY StoringIs
  <1> DEFINE Good == {i \in Nat : /\ IsDocument(g[i])
                                  /\ Origin(g[i], document, paths, values)}
  <1>2. 0 \in Good
    BY <1>1 DEF Origin
  <1>3. \A i \in 1 .. n : i - 1 \in Good => i \in Good
    <2>1. ASSUME NEW i \in 1 .. n, i - 1 \in Good
          PROVE  i \in Good
      <3> DEFINE before == g[i - 1]
      <3>1. IsDocument(before) /\ Origin(before, document, paths, values)
        BY <2>1
      <3>2. paths[i] \in Paths
        BY DEF CanStore
      <3>3. ASSUME NEW q \in Ancestors(paths[i]) \cap DOMAIN before
            PROVE  before[q].type = "Document"
        <4>1. \A k \in 1 .. Len(paths) : q # paths[k]
          BY <3>3 DEF CanStore
        <4>2. CASE q \in DOMAIN document /\ before[q] = document[q]
          BY <3>3, <4>2 DEF CanStore
        <4>3. CASE before[q] = DocumentValue
          BY <4>3 DEF DocumentValue, Value
        <4> QED
          BY <3>1, <3>3, <4>1, <4>2, <4>3 DEF Origin
      <3>4. IsDocument(Stored(before, paths[i], values[i]))
        <4> HIDE DEF before
        <4> QED
          BY <3>1, <3>2, <3>3, StoredIsDocument
      <3>5. Origin(Stored(before, paths[i], values[i]), document, paths, values)
        BY <3>1, StoredOrigin
      <3> QED
        BY <1>1, <3>4, <3>5
    <2> QED
      BY <2>1
  <1>4. n \in Nat /\ Good \in SUBSET Nat
    OBVIOUS
  <1>5. n \in Good
    <2> HIDE DEF Good, n
    <2> QED
      BY <1>2, <1>3, <1>4, LastOfAll
  <1> QED
    BY <1>1, <1>5
-----------------------------------------------------------------------------
(* INSERT and UPDATE *)

\* An UPDATE that MongoDB can apply keeps a document a document.
LEMMA UpdateKeepsDocument ==
  ASSUME NEW document, IsDocument(document),
         NEW assignments, Len(assignments) \in Nat, DOMAIN assignments = 1 .. Len(assignments),
         \A i \in DOMAIN assignments : assignments[i].path \in Paths,
         ~CannotSet(assignments, document)
  PROVE  IsDocument(update_document(assignments, document))
  <1> DEFINE paths == SetPaths(assignments)
             values == [i \in DOMAIN assignments |-> assignments[i].value]
  <1>1. /\ DOMAIN paths = 1 .. Len(assignments)
        /\ \A i \in DOMAIN paths : paths[i] \in Paths
    BY MongoPathType DEF SetPaths
  <1>2. Len(paths) = Len(assignments)
    <2> HIDE DEF paths
    <2> QED
      BY <1>1
  <1>3. CanStore(document, paths)
    <2>1. \A i, j \in 1 .. Len(paths) : paths[j] \notin Ancestors(paths[i])
      BY <1>1, <1>2 DEF CannotSet, SetConflict
    <2>2. \A i \in 1 .. Len(paths) : \A q \in Ancestors(paths[i]) \cap DOMAIN document :
             document[q].type = "Document"
      BY <1>1, <1>2 DEF CannotSet
    <2> HIDE DEF paths
    <2> QED
      BY <1>1, <1>2, <2>1, <2>2 DEF CanStore
  <1>4. IsDocument(StoredAll(document, paths, values))
    <2> HIDE DEF paths, values
    <2> QED
      BY <1>2, <1>3, StoredAllIsDocument
  <1> QED
    BY <1>4 DEF update_document

\* The i-th item of a list that translates is not an error.
LEMMA NoFirstErrors ==
  ASSUME NEW errors, NEW n \in Nat, DOMAIN errors = 1 .. n, FirstErrors(errors) = {}
  PROVE  \A i \in 1 .. n : errors[i] = {}
  <1> DEFINE Wrong == {i \in 1 .. n : errors[i] # {}}
  <1> SUFFICES ASSUME Wrong # {} PROVE FALSE
    OBVIOUS
  <1>1. Wrong \in SUBSET Nat
    OBVIOUS
  <1>2. PICK i \in Wrong : \A k \in Wrong : i =< k
    <2> HIDE DEF Wrong
    <2> QED
      BY <1>1, NatMinimum
  <1>3. i \in 1 .. n /\ errors[i] # {}
    OBVIOUS
  <1>4. \A k \in 1 .. i - 1 : errors[k] = {}
    <2>1. ASSUME NEW k \in 1 .. i - 1
          PROVE  k \notin Wrong /\ k \in 1 .. n
      BY <1>2, <1>3
    <2> QED
      BY <2>1
  <1> QED
    BY <1>3, <1>4 DEF FirstErrors

\* The rows of an INSERT that translates do.
LEMMA TranslatedRows ==
  ASSUME NEW plan, plan.kind = "Insert", TranslationErrors(plan) = {},
         Len(plan.rows) \in Nat, DOMAIN plan.rows = 1 .. Len(plan.rows),
         NEW r \in DOMAIN plan.rows
  PROVE  build_insert_document_errors(plan.columns, plan.rows[r]) = {}
  <1> DEFINE rows == plan.rows
             all == [k \in DOMAIN rows |-> build_insert_document_errors(plan.columns, rows[k])]
  <1>1. FirstErrors(all) = {}
    BY Zenon DEF TranslationErrors
  <1>2. all[r] = {}
    <2>1. DOMAIN all = 1 .. Len(rows) /\ r \in 1 .. Len(rows)
      OBVIOUS
    <2> HIDE DEF all, rows
    <2> QED
      BY <1>1, <2>1, NoFirstErrors DEF rows
  <1> QED
    BY <1>2

\* A row that translates has a value for every column, and no column is inside
\* another one or a literal dotted key.
LEMMA TranslatedRow ==
  ASSUME NEW columns \in Seq(Paths), NEW row, build_insert_document_errors(columns, row) = {},
         NEW i \in DOMAIN columns
  PROVE  /\ ~is_literal_dotted_key(columns[i])
         /\ row[i].type # "Placeholder"
         /\ \A j \in 1 .. i - 1 : ~paths_overlap(columns[i], columns[j])
  <1> DEFINE errors == [k \in DOMAIN columns |-> ItemErrors(columns, row, k, FALSE)]
  <1>1. Len(columns) \in Nat /\ DOMAIN columns = 1 .. Len(columns)
    OBVIOUS
  <1>2. FirstErrors(errors) = {}
    BY Zenon DEF build_insert_document_errors
  <1>3. errors[i] = {}
    <2>1. DOMAIN errors = 1 .. Len(columns) /\ i \in 1 .. Len(columns)
      BY <1>1
    <2> HIDE DEF errors
    <2> QED
      BY <1>1, <1>2, <2>1, NoFirstErrors
  <1>4. errors[i] = ItemErrors(columns, row, i, FALSE)
    OBVIOUS
  <1> QED
    BY <1>3, <1>4 DEF ItemErrors

\* So has an UPDATE that translates.
LEMMA TranslatedAssignments ==
  ASSUME NEW plan, plan.kind = "Update", TranslationErrors(plan) = {},
         Len(plan.assignments) \in Nat, DOMAIN plan.assignments = 1 .. Len(plan.assignments),
         NEW i \in DOMAIN plan.assignments
  PROVE  /\ ~is_literal_dotted_key(plan.assignments[i].path)
         /\ plan.assignments[i].value.type # "Placeholder"
  <1> DEFINE list == plan.assignments
             paths == [k \in DOMAIN list |-> list[k].path]
             values == [k \in DOMAIN list |-> list[k].value]
             Bad(k) == \E segment \in ToSet(paths[k]) : BadSegment(segment)
             errors == [k \in DOMAIN list |-> ItemErrors(paths, values, k, Bad(k))]
  <1>1. update_document_errors(list) = {}
    BY Zenon DEF TranslationErrors
  <1>2. FirstErrors(errors) = {}
    BY <1>1, Zenon DEF update_document_errors
  <1>3. errors[i] = {}
    <2>1. DOMAIN errors = 1 .. Len(list) /\ i \in 1 .. Len(list)
      OBVIOUS
    <2> HIDE DEF errors, list
    <2> QED
      BY <1>2, <2>1, NoFirstErrors DEF list
  <1>4. errors[i] = ItemErrors(paths, values, i, Bad(i))
    BY Zenon
  <1>5. paths[i] = list[i].path /\ values[i] = list[i].value
    OBVIOUS
  <1>6. ~is_literal_dotted_key(paths[i]) /\ values[i].type # "Placeholder"
    <2> HIDE DEF paths, values, Bad, errors
    <2> QED
      BY <1>3, <1>4, Zenon DEF ItemErrors
  <1> QED
    BY <1>5, <1>6

\* A row that translates is built into a document.
LEMMA InsertBuildsDocument ==
  ASSUME NEW columns \in Seq(Paths), NEW row, build_insert_document_errors(columns, row) = {}
  PROVE  IsDocument(build_insert_document(columns, row))
  <1> DEFINE n == Len(columns)
             errors == [i \in DOMAIN columns |-> ItemErrors(columns, row, i, FALSE)]
  <1>1. n \in Nat /\ DOMAIN columns = 1 .. n /\ \A i \in 1 .. n : columns[i] \in Paths
    OBVIOUS
  <1>2. FirstErrors(errors) = {} /\ DOMAIN errors = 1 .. n
    BY <1>1 DEF build_insert_document_errors
  <1>3. \A i \in 1 .. n : errors[i] = {}
    <2> HIDE DEF errors, n
    <2> QED
      BY <1>1, <1>2, NoFirstErrors
  <1>4. \A i \in 1 .. n : \A j \in 1 .. i - 1 : ~paths_overlap(columns[i], columns[j])
    BY <1>1, <1>3 DEF ItemErrors
  <1>5. ASSUME NEW i \in 1 .. n, NEW j \in 1 .. n
        PROVE  columns[j] \notin Ancestors(columns[i])
    <2> SUFFICES ASSUME columns[j] \in Ancestors(columns[i]) PROVE FALSE
      OBVIOUS
    <2>1. IsPrefix(columns[j], columns[i]) /\ columns[j] # columns[i]
      BY <1>1, AncestorIsPrefix
    <2>2. CASE j < i
      BY <1>1, <1>4, <2>1, <2>2 DEF paths_overlap
    <2>3. CASE i < j
      BY <1>1, <1>4, <2>1, <2>3 DEF paths_overlap
    <2> QED
      BY <1>1, <2>1, <2>2, <2>3
  <1>6. IsDocument(EmptyDocument) /\ DOMAIN EmptyDocument = {}
    BY DEF EmptyDocument, IsDocument
  <1>7. CanStore(EmptyDocument, columns)
    BY <1>1, <1>5, <1>6 DEF CanStore
  <1> QED
    BY <1>1, <1>6, <1>7, StoredAllIsDocument DEF build_insert_document

-----------------------------------------------------------------------------
(* Profiles *)

\* A field of a profile was seen with some types and shapes, inside documents.
ProfiledField(path, sch) ==
    /\ path \in Paths
    /\ PlainPath(path) \/ is_literal_dotted_key(path)
    /\ sch[path].observed_types \subseteq ObservedTypes /\ sch[path].observed_types # {}
    /\ sch[path].observed_shapes \subseteq {"Document", "Array", "Scalar"}
    /\ sch[path].observed_shapes # {}
    /\ \A q \in Ancestors(path) : q \in DOMAIN sch /\ "Document" \in sch[q].observed_types

Profiled(sch) == IsFiniteSet(DOMAIN sch) /\ \A path \in DOMAIN sch : ProfiledField(path, sch)

\* There are finitely many types that discovery tells apart.
LEMMA ObservedTypesFinite == IsFiniteSet(ObservedTypes)
  <1> DEFINE One(t) == {t}
             some == One("Null") \cup (One("Boolean") \cup (One("Integer") \cup One("FloatingPoint")))
             others == One("String") \cup (One("DateTime") \cup (One("ObjectId")
                       \cup (One("Document") \cup One("Array"))))
  <1>1. \A t : IsFiniteSet(One(t))
    BY FS_Singleton
  <1>2. ObservedTypes = some \cup others
    BY DEF ObservedTypes, ScalarTypes
  <1>3. IsFiniteSet(some)
    <2> HIDE DEF One
    <2> QED
      BY <1>1, FS_Union
  <1>4. IsFiniteSet(others)
    <2> HIDE DEF One
    <2> QED
      BY <1>1, FS_Union
  <1> HIDE DEF some, others
  <1> QED
    BY <1>2, <1>3, <1>4, FS_Union

\* There are finitely many shapes.
LEMMA ShapesFinite == IsFiniteSet({"Document", "Array", "Scalar"})
  <1> DEFINE One(t) == {t}
  <1>1. \A t : IsFiniteSet(One(t))
    BY FS_Singleton
  <1>2. {"Document", "Array", "Scalar"} = One("Document") \cup (One("Array") \cup One("Scalar"))
    OBVIOUS
  <1> HIDE DEF One
  <1>3. IsFiniteSet(One("Document") \cup (One("Array") \cup One("Scalar")))
    BY <1>1, FS_Union
  <1> QED
    BY <1>2, <1>3

\* The fields of finitely many documents are finitely many.
LEMMA FieldsFinite ==
  ASSUME NEW samples, IsFiniteSet(DOMAIN samples),
         \A d \in DOMAIN samples : IsFiniteSet(DOMAIN samples[d])
  PROVE  IsFiniteSet(DOMAIN infer(samples))
  <1> DEFINE ids == DOMAIN samples
             fields == {DOMAIN samples[d] : d \in ids}
             f == [d \in ids |-> DOMAIN samples[d]]
  <1>1. f \in Surjection(ids, fields)
    BY DEF Surjection
  <1>2. IsFiniteSet(fields)
    <2> HIDE DEF f, fields
    <2> QED
      BY <1>1, FS_Surjection
  <1>3. IsFiniteSet(UNION fields)
    BY <1>2, FS_UNION
  <1>4. DOMAIN infer(samples) = UNION fields
    BY DEF infer
  <1> QED
    BY <1>3, <1>4

\* What a profile says of a field is what some document held.
LEMMA InferredField ==
  ASSUME NEW samples, NEW path \in DOMAIN infer(samples)
  PROVE  \E holders \in SUBSET DOMAIN samples :
            /\ holders # {}
            /\ holders = {d \in DOMAIN samples : path \in DOMAIN samples[d]}
            /\ infer(samples)[path].observed_types = {samples[d][path].type : d \in holders}
            /\ infer(samples)[path].observed_shapes =
                  {observed_shape(samples[d][path]) : d \in holders}
  <1> DEFINE holders == {d \in DOMAIN samples : path \in DOMAIN samples[d]}
             values == {samples[d][path] : d \in holders}
  <1>1. /\ infer(samples)[path].observed_types = {v.type : v \in values}
        /\ infer(samples)[path].observed_shapes = {observed_shape(v) : v \in values}
        /\ path \in UNION {DOMAIN samples[d] : d \in DOMAIN samples}
    BY DEF infer
  <1>2. holders # {}
    BY <1>1
  <1>3. /\ {v.type : v \in values} = {samples[d][path].type : d \in holders}
        /\ {observed_shape(v) : v \in values} = {observed_shape(samples[d][path]) : d \in holders}
    OBVIOUS
  <1> HIDE DEF values
  <1> QED
    BY <1>1, <1>2, <1>3

\* A profile of documents without dotted names inside them.
LEMMA InferredIsProfiled ==
  ASSUME NEW samples, IsFiniteSet(DOMAIN samples),
         \A d \in DOMAIN samples :
            /\ IsDocument(samples[d]) /\ IsFiniteSet(DOMAIN samples[d])
            /\ \A path \in DOMAIN samples[d] :
                  /\ samples[d][path].type \in ObservedTypes
                  /\ PlainPath(path) \/ is_literal_dotted_key(path)
  PROVE  Profiled(infer(samples))
  <1> DEFINE sch == infer(samples)
  <1>1. IsFiniteSet(DOMAIN sch)
    BY FieldsFinite
  <1>2. \A d \in DOMAIN samples : DOMAIN samples[d] \subseteq DOMAIN sch
    BY DEF infer
  <1>3. ASSUME NEW d \in DOMAIN samples, NEW path \in DOMAIN samples[d]
        PROVE  samples[d][path].type \in sch[path].observed_types
    <2>1. path \in DOMAIN sch
      BY <1>2, <1>3
    <2> QED
      BY <1>3, <2>1, InferredField
  <1>4. ASSUME NEW path \in DOMAIN sch
        PROVE  ProfiledField(path, sch)
    <2>1. PICK holders \in SUBSET DOMAIN samples :
             /\ holders # {}
             /\ holders = {d \in DOMAIN samples : path \in DOMAIN samples[d]}
             /\ sch[path].observed_types = {samples[d][path].type : d \in holders}
             /\ sch[path].observed_shapes = {observed_shape(samples[d][path]) : d \in holders}
      BY <1>4, InferredField
    <2>2. PICK d \in DOMAIN samples : path \in DOMAIN samples[d]
      BY <2>1
    <2>3. /\ path \in Paths
          /\ PlainPath(path) \/ is_literal_dotted_key(path)
          /\ \A q \in Ancestors(path) : q \in DOMAIN samples[d] /\ samples[d][q].type = "Document"
      BY <2>2 DEF IsDocument
    <2>4. \A q \in Ancestors(path) : q \in DOMAIN sch /\ "Document" \in sch[q].observed_types
      BY <1>2, <1>3, <2>2, <2>3
    <2>5. sch[path].observed_types \subseteq ObservedTypes /\ sch[path].observed_types # {}
      BY <2>1
    <2>6. /\ sch[path].observed_shapes \subseteq {"Document", "Array", "Scalar"}
          /\ sch[path].observed_shapes # {}
      <3>1. \A v : observed_shape(v) \in {"Document", "Array", "Scalar"}
        BY DEF observed_shape
      <3> QED
        BY <2>1, <3>1
    <2> HIDE DEF sch
    <2> QED
      BY <2>3, <2>4, <2>5, <2>6 DEF ProfiledField
  <1> QED
    BY <1>1, <1>4 DEF Profiled

=============================================================================
