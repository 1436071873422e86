------------------------------ MODULE Parameters ------------------------------
(***************************************************************************)
(* Parameters of the extended query protocol: the types that preparation   *)
(* announces (crates/proxy/src/lib.rs infer_parameter_types), the decoding *)
(* of wire values (crates/proxy/src/parameters.rs) and their binding to a  *)
(* plan (crates/sql-engine/src/binding.rs).                                *)
(*                                                                         *)
(* Besides the write plans there is [kind |-> "Select", filter], with an   *)
(* empty filter for none.  A placeholder $n is a value of type Placeholder *)
(* whose int is n; a malformed one and $0 have int 0.  Results are sets of *)
(* at most one element: empty is an error, and every error reaches the     *)
(* client before anything is executed.                                     *)
(***************************************************************************)
EXTENDS SqlPlans

\* The largest integer of each width (i16, i32 and i64 in the code).
CONSTANT Largest

IntegerTypes == {"INT2", "INT4", "INT8"}
FloatTypes   == {"FLOAT4", "FLOAT8"}
TextTypes    == {"TEXT", "VARCHAR", "BPCHAR"}

\* The PostgreSQL types that decode_parameter knows.
DecodableTypes == {"BOOL"} \cup IntegerTypes \cup FloatTypes \cup TextTypes

ASSUME LargestAssumption == Largest \in [IntegerTypes -> Nat]

-----------------------------------------------------------------------------
(* Where a plan has values *)

AssignedSites(plan) ==
    IF plan.kind \in {"Insert", "Update"} THEN AssignedValues(plan) ELSE {}

ComparedSites(plan) ==
    IF plan.kind = "Insert" THEN {}
    ELSE UNION {{[path |-> leaf.path, value |-> v] : v \in leaf.values} :
                    leaf \in Leaves(plan.filter)}

PlaceholderSites(plan) ==
    {site \in AssignedSites(plan) \cup ComparedSites(plan) : site.value.type = "Placeholder"}

PlaceholderIndexes(plan) == {site.value.int : site \in PlaceholderSites(plan)}

\* parse_select and the three write statements: known fields and typed values.
lower(plan, schema) ==
    IF plan.kind = "Select"
    THEN /\ PredicatePaths(plan.filter) \subseteq DOMAIN schema
         /\ validate_write_predicate(plan.filter, schema)
    ELSE lower_statement(plan, schema)

-----------------------------------------------------------------------------
(* Preparation *)

infer_field_parameter_type(field) ==
    LET wire == [Boolean |-> "BOOL", Integer |-> "INT8", FloatingPoint |-> "FLOAT8",
                 String |-> "TEXT"]
    IN  IF field.has_dotted_key_collision \/ field.observed_shapes # {"Scalar"}
           \/ Cardinality(NonNullTypes(field)) # 1
        THEN {}
        ELSE {wire[type] : type \in NonNullTypes(field) \cap DOMAIN wire}

\* Every placeholder stands at fields of one type, and the indexes have no gap.
infer_parameter_types(plan, schema) ==
    LET indexes == PlaceholderIndexes(plan)
        sites(i) == {site \in PlaceholderSites(plan) : site.value.int = i}
        types(i) == UNION {infer_field_parameter_type(schema[site.path]) : site \in sites(i)}
        inferable == /\ indexes = 1 .. Cardinality(indexes)
                     /\ \A site \in PlaceholderSites(plan) :
                           infer_field_parameter_type(schema[site.path]) # {}
                     /\ \A i \in indexes : Cardinality(types(i)) = 1
    IN  IF inferable
        THEN {[i \in 1 .. Cardinality(indexes) |-> CHOOSE t \in types(i) : TRUE]}
        ELSE {}

\* Mutant: any declared type that can be decoded is taken.
compatible_parameter_type_any(requested, inferred) == requested \in DecodableTypes

compatible_parameter_type(requested, inferred) ==
    CASE inferred = "INT8"   -> requested \in IntegerTypes
      [] inferred = "FLOAT8" -> requested \in FloatTypes
      [] inferred = "TEXT"   -> requested \in TextTypes
      [] OTHER               -> requested = inferred

\* Mutant: UNKNOWN is compatible with everything and stays.
reconcile_keeps_unknown(requested, inferred) ==
    {t \in {requested} : Len(requested) = Len(inferred)}

\* No declared types: those of the schema.  UNKNOWN leaves one to the schema.
reconcile_parameter_types(requested, inferred) ==
    IF requested = <<>> THEN {inferred}
    ELSE {t \in {[i \in DOMAIN inferred |->
                    IF requested[i] = "UNKNOWN" THEN inferred[i] ELSE requested[i]] :
                        r \in {requested} \cap [DOMAIN inferred -> STRING]} :
             \A i \in DOMAIN t : compatible_parameter_type(t[i], inferred[i])}

-----------------------------------------------------------------------------
(* Decoding.  A wire value is NULL, characters (size 0: a numeral in one of *)
(* the forms of a value, or a word), or the size bytes of a binary number;  *)
(* form "nonfinite" marks an infinity or NaN of either kind.  Characters    *)
(* are taken to be of another length than any binary number, and the bytes  *)
(* of a negative number not to be valid UTF-8.                              *)

NullParameter == [int |-> 0, size |-> -1, form |-> "none"]

Signed(type) == -(Largest[type] + 1) .. Largest[type]

ByteSize == [BOOL |-> 1, INT2 |-> 2, INT4 |-> 4, INT8 |-> 8, FLOAT4 |-> 4, FLOAT8 |-> 8]

AsText(wire) ==
    {Value("String", w.int, w.form) : w \in {x \in {wire} : x.size = 0}}
    \cup {Value("String", 0, "word") : w \in {x \in {wire} : x.size > 0 /\ x.int >= 0}}

decode_text(wire, type) ==
    LET numerals == {n \in {wire.int} : wire.size = 0 /\ wire.form \in {"canonical", "padded"}}
    IN  CASE type = "BOOL" ->
                {Value("Boolean", n, "none") :
                    n \in numerals \cap {i \in 0 .. 1 : wire.form = "canonical"}}
          [] type \in IntegerTypes ->
                {Value("Integer", n, "none") : n \in numerals \cap Signed(type)}
          [] type \in FloatTypes -> {Value("FloatingPoint", n, "none") : n \in numerals}
          [] type \in TextTypes -> AsText(wire)

decode_binary(wire, type) ==
    LET numbers == {n \in {wire.int} : wire.size = ByteSize[type]}
    IN  CASE type = "BOOL" -> {Value("Boolean", n, "none") : n \in numbers \cap 0 .. 1}
          [] type \in IntegerTypes -> {Value("Integer", n, "none") : n \in numbers}
          [] type \in FloatTypes ->
                {Value("FloatingPoint", n, "none") : n \in {m \in numbers : wire.form # "nonfinite"}}
          [] type \in TextTypes -> AsText(wire)

\* No codes: text.  One code is for all parameters, and several are one each.
parameter_format(codes, i) ==
    IF codes = <<>> THEN {"text"}
    ELSE IF Len(codes) = 1 THEN {codes[1]}
    ELSE {codes[j] : j \in {i} \cap DOMAIN codes}

decode_parameter(wire, type, format) ==
    IF wire = NullParameter THEN {Value("Null", 0, "none")}
    ELSE IF format = "binary" THEN decode_binary(wire, type)
    ELSE decode_text(wire, type)

DecodedAt(types, values, codes, i) ==
    UNION {decode_parameter(values[i], types[i], format) : format \in parameter_format(codes, i)}

\* As many values as announced types, and each of them decodes.
portal_parameters(types, values, codes) ==
    {[i \in DOMAIN types |-> CHOOSE v \in DecodedAt(types, values, codes, i) : TRUE] :
        t \in {t \in {types} : /\ Len(values) = Len(t)
                               /\ \A i \in DOMAIN t : DecodedAt(t, values, codes, i) # {}}}

-----------------------------------------------------------------------------
(* Binding *)

bind_value(value, parameters) ==
    IF value.type = "Placeholder" THEN parameters[value.int] ELSE value

bind_predicate(filter, parameters) ==
    {{[leaf EXCEPT !.values = {bind_value(v, parameters) : v \in @}] : leaf \in alternative} :
        alternative \in filter}

bind_plan(plan, parameters) ==
    CASE plan.kind = "Insert" ->
            [plan EXCEPT !.rows = [r \in DOMAIN @ |->
                [i \in DOMAIN @[r] |-> bind_value(@[r][i], parameters)]]]
      [] plan.kind = "Update" ->
            [plan EXCEPT !.assignments = [i \in DOMAIN @ |->
                            [path |-> @[i].path, value |-> bind_value(@[i].value, parameters)]],
                         !.filter = bind_predicate(@, parameters)]
      [] OTHER -> [plan EXCEPT !.filter = bind_predicate(@, parameters)]

maximum_placeholder_index(plan) ==
    CHOOSE n \in PlaceholderIndexes(plan) \cup {0} :
        \A i \in PlaceholderIndexes(plan) : i =< n

validate_bound_plan(plan, schema) ==
    /\ \A site \in AssignedSites(plan) : validate_write_value(site, schema)
    /\ plan.kind # "Insert" => validate_write_predicate(plan.filter, schema)

\* Mutant: bound values are trusted to have the announced types.
bind_parameters_unvalidated(plan, parameters, schema) ==
    {bound \in {bind_plan(p, parameters) :
                   p \in {q \in {plan} : Len(parameters) = maximum_placeholder_index(q)}} : TRUE}

bind_parameters(plan, parameters, schema) ==
    {bound \in {bind_plan(p, parameters) :
                   p \in {q \in {plan} : /\ 0 \notin PlaceholderIndexes(q)
                                         /\ Len(parameters) = maximum_placeholder_index(q)}} :
        validate_bound_plan(bound, schema)}

=============================================================================
