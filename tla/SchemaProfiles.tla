---------------------------- MODULE SchemaProfiles ----------------------------
(***************************************************************************)
(* Sampled documents and the profile inferred from them                    *)
(* (crates/schema-discovery/src/lib.rs).                                   *)
(*                                                                         *)
(* A document is a function from every path it holds to the value there; a *)
(* nested document is a value of type "Document" and its fields are paths  *)
(* below it.  A profile is a function from field path to what was observed *)
(* at that path, so schema.field(p) is Some exactly when p is in DOMAIN.   *)
(***************************************************************************)
EXTENDS FieldPaths, FiniteSets, Integers

ScalarTypes == {"Null", "Boolean", "Integer", "FloatingPoint", "String",
                "DateTime", "ObjectId"}

ObservedTypes == ScalarTypes \cup {"Document", "Array"}

\* The content of a value: a number, and for text whether it is the canonical
\* numeral of that number, a padded one ("007", "+7") or no numeral at all.
Value(type, int, form) == [type |-> type, int |-> int, form |-> form]

DocumentValue == Value("Document", 0, "none")

\* A document of MongoDB: whatever encloses a field is a document.
IsDocument(document) ==
    \A path \in DOMAIN document :
        /\ path \in Paths
        /\ \A q \in Ancestors(path) : q \in DOMAIN document /\ document[q].type = "Document"

observed_shape(value) ==
    IF value.type \in {"Document", "Array"} THEN value.type ELSE "Scalar"

\* BTreeMap order and the vector of fields are abstracted to a function.
infer(documents) ==
    LET ids    == DOMAIN documents
        fields == UNION {DOMAIN documents[d] : d \in ids}
        FieldProfile(path) ==
            LET holders == {d \in ids : path \in DOMAIN documents[d]}
                values  == {documents[d][path] : d \in holders}
            IN  [present_documents |-> Cardinality(holders),
                 missing_documents |-> Cardinality(ids) - Cardinality(holders),
                 observed_types    |-> {v.type : v \in values},
                 observed_shapes   |-> {observed_shape(v) : v \in values},
                 has_dotted_key_collision |->
                    \E other \in fields \ {path} :
                        display_name(other) = display_name(path)]
    IN  [path \in fields |-> FieldProfile(path)]

\* SchemaProfile::infer writes this constant into every profile.
profile_version == 1

NonNullTypes(field) == field.observed_types \ {"Null"}

=============================================================================
