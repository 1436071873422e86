------------------------------ MODULE FieldPaths ------------------------------
(***************************************************************************)
(* Field paths of crates/schema-discovery/src/lib.rs.                      *)
(*                                                                         *)
(* A path is a sequence of segments, one per nesting level.  A segment is  *)
(* the name of one BSON key; it is itself a sequence of atoms, the pieces  *)
(* of the name between its dots, so the key "a" is <<"a">> and the literal *)
(* dotted key "a.b" is <<"a", "b">>.  Joining segments with "." is then    *)
(* concatenation of their atoms, and two paths have equal display names    *)
(* exactly when their atoms are equal.                                     *)
(***************************************************************************)
EXTENDS Sequences, SequencesExt, Naturals

Paths == Seq(Seq(STRING))

top_level(segment) == <<segment>>

child(path, segment) == Append(path, segment)

display_name(path) == FlattenSeq(path)

\* Only a path of one segment counts, whatever dots a nested segment holds.
is_literal_dotted_key(path) == Len(path) = 1 /\ Len(path[1]) > 1

\* The strict prefixes of a path: the documents that enclose the field.
Ancestors(path) == {SubSeq(path, 1, n) : n \in 1 .. Len(path) - 1}

\* Equal paths, or one of them encloses the other.
paths_overlap(left, right) == IsPrefix(left, right) \/ IsPrefix(right, left)

\* How MongoDB reads a dotted field name in a filter or in $set (external):
\* every dot descends one level, whatever segments the name was joined from.
MongoPath(path) ==
    LET atoms == display_name(path) IN [i \in 1 .. Len(atoms) |-> <<atoms[i]>>]

=============================================================================
