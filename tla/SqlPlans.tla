------------------------------- MODULE SqlPlans -------------------------------
(***************************************************************************)
(* Typed write plans (crates/sql-engine/src/plan.rs) and the checks that   *)
(* lowering makes on them (lowering.rs, resolve.rs, type_policy.rs).       *)
(*                                                                         *)
(* A plan is one of                                                        *)
(*   [kind |-> "Insert", columns |-> <<path>>, rows |-> << <<value>> >>]   *)
(*   [kind |-> "Update", assignments |-> << [path, value] >>, filter]      *)
(*   [kind |-> "Delete", filter]                                           *)
(* Predicates have AND and OR but no NOT, so a filter is kept in           *)
(* disjunctive form: a set of alternatives, each a set of leaves           *)
(* [path, op, values].  No leaf of the tree is lost.                       *)
(***************************************************************************)
EXTENDS SchemaProfiles

SqlTypes == {"Null", "Boolean", "Integer", "FloatingPoint", "String", "Placeholder"}

SqlValues == [type : SqlTypes, int : Int, form : {"none", "canonical", "padded", "word"}]

Operators == {"Equal", "NotEqual", "GreaterThan", "GreaterThanOrEqual", "LessThan",
              "LessThanOrEqual", "In", "NotIn", "IsNull", "IsNotNull"}

Leaf(path, op, values) == [path |-> path, op |-> op, values |-> values]

\* The parser builds no empty AND or OR.
IsFilter(filter) ==
    /\ Cardinality(filter) >= 1
    /\ \A alternative \in filter :
          /\ Cardinality(alternative) >= 1
          /\ \A leaf \in alternative :
                leaf \in [path : Paths, op : Operators, values : SUBSET SqlValues]

IsInsert(p) ==
    /\ p = [kind |-> "Insert", columns |-> p.columns, rows |-> p.rows]
    /\ p.columns \in Seq(Paths)
    /\ p.rows \in Seq([DOMAIN p.columns -> SqlValues])

IsUpdate(p) ==
    /\ p = [kind |-> "Update", assignments |-> p.assignments, filter |-> p.filter]
    /\ p.assignments \in Seq([path : Paths, value : SqlValues])
    /\ IsFilter(p.filter)

IsDelete(p) == p = [kind |-> "Delete", filter |-> p.filter] /\ IsFilter(p.filter)

Leaves(filter) == UNION filter

PredicatePaths(filter) == {leaf.path : leaf \in Leaves(filter)}

AssignedPaths(plan) ==
    CASE plan.kind = "Insert" -> ToSet(plan.columns)
      [] plan.kind = "Update" -> {a.path : a \in ToSet(plan.assignments)}
      [] plan.kind = "Delete" -> {}

FilterPaths(plan) == IF plan.kind = "Insert" THEN {} ELSE PredicatePaths(plan.filter)

\* Every (path, value) pair an INSERT or an UPDATE stores.
AssignedValues(plan) ==
    CASE plan.kind = "Insert" ->
            {[path |-> plan.columns[i], value |-> plan.rows[r][i]] :
                r \in DOMAIN plan.rows, i \in DOMAIN plan.columns}
      [] plan.kind = "Update" -> ToSet(plan.assignments)
      [] plan.kind = "Delete" -> {}

-----------------------------------------------------------------------------
(* type_policy.rs *)

\* Mutant: every SQL literal is accepted.
is_compatible_any(value, type) == TRUE

is_compatible(value, type) ==
    value.type = type /\ type \in {"Boolean", "Integer", "FloatingPoint", "String"}

\* The one type a literal must have: empty when the profile does not give one.
validate_field_shape(field) ==
    IF \/ field.has_dotted_key_collision
       \/ Cardinality(field.observed_shapes) # 1
       \/ Cardinality(NonNullTypes(field)) # 1
    THEN {}
    ELSE NonNullTypes(field)

validate_value(field, value, null_is_allowed) ==
    \/ value.type = "Placeholder"
    \/ value.type = "Null" /\ null_is_allowed
    \/ /\ value.type # "Null"
       /\ \A type \in validate_field_shape(field) : is_compatible(value, type)

validate_write_value(assignment, schema) ==
    validate_value(schema[assignment.path], assignment.value, TRUE)

validate_write_predicate(filter, schema) ==
    \A leaf \in Leaves(filter) :
        \A value \in leaf.values : validate_value(schema[leaf.path], value, FALSE)

\* What parse_insert, parse_update and parse_delete accept: known fields only,
\* then values and predicates of the inferred types.
lower_statement(plan, schema) ==
    /\ AssignedPaths(plan) \cup FilterPaths(plan) \subseteq DOMAIN schema
    /\ \A a \in AssignedValues(plan) : validate_write_value(a, schema)
    /\ plan.kind # "Insert" => validate_write_predicate(plan.filter, schema)

=============================================================================
