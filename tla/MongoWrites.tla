------------------------------ MODULE MongoWrites ------------------------------
(***************************************************************************)
(* The deterministic executor (crates/mongo-executor/src/lib.rs): which    *)
(* plans it refuses to translate, and what the operations it builds do to  *)
(* one document.  What MongoDB does with an operation is external and is   *)
(* modelled from the filter and update documents the executor constructs.  *)
(***************************************************************************)
EXTENDS SqlPlans

-----------------------------------------------------------------------------
(* Translation errors.  Each operator gives the set of error kinds that the *)
(* executor may report before it calls MongoDB; empty means it translates.  *)

OperatorAtoms == {"$set"}

\* A segment that is empty or begins with a dollar sign.
BadSegment(segment) == segment = <<"">> \/ segment[1] \in OperatorAtoms

\* Mutant: a literal dotted key in a filter is handed to MongoDB.
LeafErrors_dotted(leaf) == {"InvalidInput" : v \in {w \in leaf.values : w.type = "Placeholder"}}

\* mongo_field_name first, then bson_value for each value.
LeafErrors(leaf) ==
    IF is_literal_dotted_key(leaf.path)
    THEN {"FeatureNotSupported"}
    ELSE {"InvalidInput" : v \in {w \in leaf.values : w.type = "Placeholder"}}

predicate_document_errors(filter) ==
    UNION {LeafErrors(leaf) : leaf \in Leaves(filter)}

\* The error of the i-th item when the items before it were accepted.
ItemErrors(paths, values, i, pathIsBad) ==
    IF is_literal_dotted_key(paths[i])
    THEN {"FeatureNotSupported"}
    ELSE IF \/ pathIsBad
            \/ values[i].type = "Placeholder"
            \/ \E j \in 1 .. i - 1 : paths_overlap(paths[i], paths[j])
         THEN {"InvalidInput"}
         ELSE {}

\* The errors of the first item that has any: the loop returns there.
FirstErrors(errors) ==
    UNION {errors[i] : i \in {j \in DOMAIN errors : /\ errors[j] # {}
                                                    /\ \A k \in 1 .. j - 1 : errors[k] = {}}}

update_document_errors(assignments) ==
    LET paths  == [i \in DOMAIN assignments |-> assignments[i].path]
        values == [i \in DOMAIN assignments |-> assignments[i].value]
    IN  FirstErrors([i \in DOMAIN assignments |->
                        ItemErrors(paths, values, i,
                                   \E segment \in ToSet(paths[i]) : BadSegment(segment))])

build_insert_document_errors(columns, row) ==
    FirstErrors([i \in DOMAIN columns |-> ItemErrors(columns, row, i, FALSE)])

\* Filters are translated before assignments, rows in order.
TranslationErrors(plan) ==
    CASE plan.kind = "Insert" ->
            FirstErrors([r \in DOMAIN plan.rows |->
                            build_insert_document_errors(plan.columns, plan.rows[r])])
      [] plan.kind = "Update" ->
            IF predicate_document_errors(plan.filter) # {}
            THEN predicate_document_errors(plan.filter)
            ELSE update_document_errors(plan.assignments)
      [] plan.kind = "Delete" -> predicate_document_errors(plan.filter)

-----------------------------------------------------------------------------
(* MongoDB's reading of the filter (external).  $gt and its relatives only  *)
(* compare numbers with numbers here; text is only tested for equality.     *)

Numeric(value) == value.type \in {"Integer", "FloatingPoint"}

BsonEqual(left, right) ==
    \/ left = right
    \/ Numeric(left) /\ Numeric(right) /\ left.int = right.int

Compares(op, left, right) ==
    /\ Numeric(left) /\ Numeric(right)
    /\ CASE op = "GreaterThan"        -> left.int > right.int
         [] op = "GreaterThanOrEqual" -> left.int >= right.int
         [] op = "LessThan"           -> left.int < right.int
         [] op = "LessThanOrEqual"    -> left.int =< right.int

\* The values a document offers to a predicate on a path: none when missing.
ValuesAt(document, path) ==
    {document[q] : q \in {MongoPath(path)} \cap DOMAIN document}

predicate_document(leaf, document) ==
    LET found == ValuesAt(document, leaf.path)
        EqualsOne == \E f \in found, v \in leaf.values : BsonEqual(f, v)
    IN  CASE leaf.op \in {"Equal", "In"}       -> EqualsOne
          [] leaf.op \in {"NotEqual", "NotIn"} -> ~EqualsOne
          [] leaf.op = "IsNull"    -> \E f \in found : f.type = "Null"
          [] leaf.op = "IsNotNull" -> \E f \in found : f.type # "Null"
          [] OTHER -> \E f \in found, v \in leaf.values : Compares(leaf.op, f, v)

\* Mutant: AND and OR in each other's place.
Matches_swapped(filter, document) ==
    \A alternative \in filter :
        \E leaf \in alternative : predicate_document(leaf, document)

Matches(filter, document) ==
    \E alternative \in filter :
        \A leaf \in alternative : predicate_document(leaf, document)

-----------------------------------------------------------------------------
(* Documents after a write *)

\* Mutant: an enclosing document that is missing is not created.
Stored_alone(document, path, value) ==
    [q \in {r \in DOMAIN document : ~IsPrefix(path, r)} \cup {path} |->
        IF q = path THEN value ELSE document[q]]

\* The document with value at path, enclosing documents created as needed
\* and whatever was below the path gone.
Stored(document, path, value) ==
    [q \in {r \in DOMAIN document : ~IsPrefix(path, r)} \cup Ancestors(path) \cup {path} |->
        IF q = path THEN value
        ELSE IF q \in DOMAIN document THEN document[q] ELSE DocumentValue]

\* Values stored one after the other.
StoredAll(document, paths, values) ==
    LET after[i \in 0 .. Len(paths)] ==
            IF i = 0 THEN document ELSE Stored(after[i - 1], paths[i], values[i])
    IN  after[Len(paths)]

EmptyDocument == [q \in {} |-> DocumentValue]

\* Mutant: a nested field is stored under its joined name.
build_insert_document_flat(columns, row) ==
    StoredAll(EmptyDocument, [i \in DOMAIN columns |-> top_level(display_name(columns[i]))], row)

\* insert_nested_value keeps the segments of the path apart.
build_insert_document(columns, row) == StoredAll(EmptyDocument, columns, row)

\* $set names its fields with display_name; MongoDB splits the name at the dots.
SetPaths(assignments) == [i \in DOMAIN assignments |-> MongoPath(assignments[i].path)]

update_document(assignments, document) ==
    StoredAll(document, SetPaths(assignments), [i \in DOMAIN assignments |-> assignments[i].value])

\* MongoDB refuses to set a field and one inside it (external).
SetConflict(assignments) ==
    \E i, j \in DOMAIN assignments :
        SetPaths(assignments)[i] \in Ancestors(SetPaths(assignments)[j])

\* It cannot create a field inside a value that is not a document either: the
\* update of this document fails.
CannotSet(assignments, document) ==
    \/ SetConflict(assignments)
    \/ \E i \in DOMAIN assignments :
          \E q \in Ancestors(SetPaths(assignments)[i]) \cap DOMAIN document :
              document[q].type # "Document"

=============================================================================
