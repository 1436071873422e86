------------------------------- MODULE SqlNames -------------------------------
(***************************************************************************)
(* From the identifiers of a statement to field paths                      *)
(* (crates/sql-engine/src/resolve.rs).                                     *)
(*                                                                         *)
(* An identifier is [value, quoted]; its value is a segment as in          *)
(* FieldPaths, so "a.b" in quotes is one identifier of two atoms.  The     *)
(* fields are the paths of a profile.  A result is a set of at most one    *)
(* path: empty is an error.                                                *)
(***************************************************************************)
EXTENDS FieldPaths

Identifiers == [value : Seq(STRING), quoted : BOOLEAN]

Names == Seq(Identifiers)

Ident(value, quoted) == [value |-> value, quoted |-> quoted]

\* Every segment of the path as an identifier of its own, in quotes or not.
Spelled(path, quoted) == [i \in DOMAIN path |-> Ident(path[i], quoted)]

\* Mutant: the collection is taken off in quotes as well.
resolve_field_any_quotes(identifiers, collection, fields) ==
    LET named == IF identifiers[1].value = collection THEN Tail(identifiers) ELSE identifiers
    IN  {[i \in DOMAIN named |-> named[i].value]} \cap fields

\* A leading collection name is taken off when it is not in quotes: Ident::new
\* is unquoted, and the comparison of identifiers is of the quotes as well.
resolve_field(identifiers, collection, fields) ==
    LET qualifier == <<Ident(collection, FALSE)>>
        named == IF IsPrefix(qualifier, identifiers) THEN Tail(identifiers) ELSE identifiers
    IN  {[i \in DOMAIN named |-> named[i].value]} \cap fields

\* Mutant: the dots of a column name always separate segments.
resolve_insert_column_split(identifier, collection, fields) ==
    {MongoPath(top_level(identifier.value))} \cap fields

\* One identifier: an exact top-level key, else the path its dots spell.
resolve_insert_column(identifier, collection, fields) ==
    LET exact  == top_level(identifier.value)
        nested == MongoPath(exact)
    IN  IF exact \in fields THEN {exact}
        ELSE IF nested \in fields THEN {nested}
        ELSE resolve_field(<<identifier>>, collection, fields)

=============================================================================
