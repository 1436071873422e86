-------------------------------- MODULE Catalog --------------------------------
(***************************************************************************)
(* Tables and columns projected from profiles (crates/catalog/src/lib.rs)  *)
(* and the values that rows carry (crates/proxy/src/lib.rs).               *)
(*                                                                         *)
(* Columns follow each other in the order of their names.  No property     *)
(* tells one order from another, so it is any fixed one.                   *)
(***************************************************************************)
EXTENDS SchemaProfiles

SqlTypeNames == {"Boolean", "BigInt", "DoublePrecision", "Text", "TimestampWithTimeZone", "Jsonb"}

\* FieldProfile::is_ambiguous: NULL counts as a type of its own here.
is_ambiguous(field) ==
    \/ Cardinality(field.observed_types) > 1
    \/ Cardinality(field.observed_shapes) > 1
    \/ field.has_dotted_key_collision

\* The SQL type of one observed type.
SqlTypeOf ==
    [Boolean |-> "Boolean", Integer |-> "BigInt", FloatingPoint |-> "DoublePrecision",
     String |-> "Text", ObjectId |-> "Text", DateTime |-> "TimestampWithTimeZone",
     Document |-> "Jsonb", Array |-> "Jsonb", Null |-> "Jsonb"]

\* The first of the observed types; a field that is not ambiguous has one.
sql_type_for_observations(types) == SqlTypeOf[CHOOSE type \in types : TRUE]

\* Mutant: a field of several types gets the type of one that is not NULL.
column_from_fields_first_type(name, paths, schema) ==
    LET types == UNION {NonNullTypes(schema[p]) : p \in paths}
    IN  [column_name |-> name, is_nullable |-> TRUE, is_ambiguous |-> TRUE, source_paths |-> paths,
         sql_type |-> IF types = {} THEN "Jsonb" ELSE sql_type_for_observations(types)]

column_from_fields(name, paths, schema) ==
    LET ambiguous == Cardinality(paths) > 1 \/ \E p \in paths : is_ambiguous(schema[p])
    IN  [column_name  |-> name,
         is_nullable  |-> \E p \in paths : \/ schema[p].missing_documents > 0
                                           \/ "Null" \in schema[p].observed_types,
         sql_type     |-> IF ambiguous THEN "Jsonb"
                          ELSE sql_type_for_observations(UNION {schema[p].observed_types : p \in paths}),
         is_ambiguous |-> ambiguous,
         source_paths |-> paths]

\* The members of a set one after the other.
InSomeOrder(S) == FoldSet(LAMBDA x, listed : Append(listed, x), <<>>, S)

\* One column for every name: fields that share theirs share the column.
project_collection(schema) ==
    LET names == InSomeOrder({display_name(p) : p \in DOMAIN schema})
    IN  [i \in DOMAIN names |->
            column_from_fields(names[i], {p \in DOMAIN schema : display_name(p) = names[i]}, schema)]

project_public_collections(profiles) ==
    [collection \in DOMAIN profiles |-> project_collection(profiles[collection])]

-----------------------------------------------------------------------------
(* Rows *)

\* The value at a path whose parents are documents: none when it is missing.
value_at_path(document, path) == {document[q] : q \in {path} \cap DOMAIN document}

Wire(kind, value) == [kind |-> kind, value |-> value]
NoValue == Wire("Null", DocumentValue)

\* Text as it is stored, whatever the column; documents and arrays as JSON in a
\* Jsonb column and as text (of the bson library) in any other.
bson_to_wire_value(value, sql_type) ==
    CASE value.type = "Null" -> NoValue
      [] value.type \in {"Boolean", "Integer", "FloatingPoint"} -> Wire(value.type, value)
      [] value.type \in {"String", "ObjectId", "DateTime"} -> Wire("Text", value)
      [] OTHER -> Wire(IF sql_type = "Jsonb" THEN "Json" ELSE "Text", value)

value_from_document(document, path, sql_type) ==
    IF value_at_path(document, path) = {} THEN NoValue
    ELSE bson_to_wire_value(CHOOSE value \in value_at_path(document, path) : TRUE, sql_type)

=============================================================================
