--------------------------- MODULE AmbiguityPolicy ---------------------------
(***************************************************************************)
(* The deterministic policy around an ambiguous write                      *)
(* (crates/ambiguity-policy/src/lib.rs and audit.rs).                      *)
(*                                                                         *)
(* A resolver confidence, an f64 in the code, is [neg, bp]: a sign and a   *)
(* magnitude in basis points.  The sign is kept apart because -0.0 is a    *)
(* number of its own in what the code does with it.  Results are records   *)
(* with an "ok" field; Option values are sets of at most one element.      *)
(***************************************************************************)
EXTENDS SqlPlans

\* The largest integer of the modelled width (i64 in the code).
CONSTANT MaxInt

ASSUME MaxIntAssumption == MaxInt \in Nat

ResolutionCandidates ==
    {"KeepString", "ParseIntegerLosslessly", "KeepInteger",
     "FormatIntegerAsString", "UseNestedPath", "Reject"}

RESOLUTION_CONTRACT_VERSION == "v2"

-----------------------------------------------------------------------------
(* Detection *)

WriteAmbiguity(path, kinds, field) ==
    [field_path        |-> path,
     kinds             |-> kinds,
     observed_types    |-> field.observed_types,
     observed_shapes   |-> field.observed_shapes,
     missing_documents |-> field.missing_documents]

AmbiguityKinds(field) ==
    {kind \in {"MixedBsonTypes", "MixedShapes", "DottedPathCollision",
               "MissingFromSampledDocuments"} :
        CASE kind = "MixedBsonTypes"      -> Cardinality(NonNullTypes(field)) > 1
          [] kind = "MixedShapes"         -> Cardinality(field.observed_shapes) > 1
          [] kind = "DottedPathCollision" -> field.has_dotted_key_collision
          [] OTHER                        -> field.missing_documents > 0}

detect_write_ambiguities(plan, schema) ==
    {WriteAmbiguity(path, AmbiguityKinds(schema[path]), schema[path]) :
        path \in {p \in AssignedPaths(plan) \cup FilterPaths(plan) :
                      AmbiguityKinds(schema[p]) # {}}}

-----------------------------------------------------------------------------
(* The candidates that Rust offers *)

\* Mutant: any text that parses is accepted, as with a bare parse::<i64>().
parse_integer_leniently(value) ==
    {n \in {value.int} : value.form \in {"canonical", "padded"} /\ n \in -(MaxInt + 1) .. MaxInt}

\* The canonical numeral of an Int64: padded numerals and words do not parse
\* back to the same text, and an out-of-range numeral does not parse at all.
parse_integer_losslessly(value) ==
    {n \in {value.int} : value.form = "canonical" /\ n \in -(MaxInt + 1) .. MaxInt}

\* The evidence under which the mixed-type candidates exist.
IsMixedIntegerString(ambiguity) ==
    /\ ambiguity.kinds = {"MixedBsonTypes"}
    /\ ambiguity.observed_types = {"Integer", "String"}
    /\ ambiguity.observed_shapes = {"Scalar"}
    /\ ambiguity.missing_documents = 0
    /\ ~is_literal_dotted_key(ambiguity.field_path)

\* The value of the only assignment of an UPDATE that does not filter on its target.
SoleAssignment(plan, path) ==
    IF /\ plan.kind = "Update"
       /\ path \notin PredicatePaths(plan.filter)
       /\ Len(plan.assignments) = 1
       /\ plan.assignments[1].path = path
    THEN {plan.assignments[1].value}
    ELSE {}

mixed_type_assignment_value(plan, ambiguity) ==
    IF IsMixedIntegerString(ambiguity)
    THEN SoleAssignment(plan, ambiguity.field_path)
    ELSE {}

NestedPathIsSafe(ambiguity) ==
    /\ ambiguity.kinds = {"MissingFromSampledDocuments"}
    /\ ~is_literal_dotted_key(ambiguity.field_path)
    /\ Len(ambiguity.field_path) >= 2

allowed_candidates(plan, ambiguity) ==
    LET assigned == mixed_type_assignment_value(plan, ambiguity)
        Has(type) == \E v \in assigned : v.type = type
    IN  {c \in ResolutionCandidates :
            CASE c = "Reject"                 -> TRUE
              [] c = "UseNestedPath"          -> NestedPathIsSafe(ambiguity)
              [] c = "KeepString"             -> Has("String")
              [] c = "ParseIntegerLosslessly" ->
                    \E v \in assigned :
                        v.type = "String" /\ parse_integer_losslessly(v) # {}
              [] OTHER                        -> Has("Integer")}

has_executable_candidate(candidates) == candidates \ {"Reject"} # {}

-----------------------------------------------------------------------------
(* The request and the checks on the response *)

resolver_request(plan, ambiguity) ==
    [schema_profile_version |-> profile_version,
     operation              |-> plan.kind,
     target_path            |-> ambiguity.field_path,
     allowed_candidates     |-> allowed_candidates(plan, ambiguity)]

\* 1.0 in basis points.
FullConfidence == 10000

Ratio(confidence) == IF confidence.neg THEN -confidence.bp ELSE confidence.bp

\* Rounding to basis points goes through text: "-0" is not an unsigned number.
from_ratio(confidence) ==
    {bp \in {confidence.bp} :
        Ratio(confidence) \in 0 .. FullConfidence /\ ~(confidence.neg /\ confidence.bp = 0)}

\* Mutant: the configured minimum is not compared.
ConfidenceAccepted_any(confidence, minimum) == Ratio(confidence) \in 0 .. FullConfidence

ConfidenceAccepted(confidence, minimum) ==
    Ratio(confidence) >= minimum /\ Ratio(confidence) <= FullConfidence

validate_resolver_response(request, response, minimum) ==
    /\ response.contract_version = RESOLUTION_CONTRACT_VERSION
    /\ response.schema_profile_version = request.schema_profile_version
    /\ response.operation = request.operation
    /\ response.target_path = request.target_path
    /\ ConfidenceAccepted(response.confidence, minimum)
    /\ response.rationale \in 1 .. 500
    /\ response.candidate \in request.allowed_candidates

validation_failure(request, response, minimum) ==
    IF response.schema_profile_version # request.schema_profile_version
    THEN "StaleSchemaProfile"
    ELSE IF ~ConfidenceAccepted(response.confidence, minimum)
         THEN "LowConfidence"
         ELSE "InvalidResolverResponse"

-----------------------------------------------------------------------------
(* Applying an accepted candidate *)

Retyped(plan, type, form) ==
    [plan EXCEPT !.assignments[1].value = Value(type, @.int, form)]

\* Whether the plan is one the candidate may be applied to.
CandidateApplies(plan, path, candidate) ==
    CASE candidate = "Reject" -> FALSE
      [] candidate = "UseNestedPath" ->
            /\ ~is_literal_dotted_key(path)
            /\ Len(path) >= 2
            /\ path \in AssignedPaths(plan)
      [] OTHER ->
            /\ ~is_literal_dotted_key(path)
            /\ \E v \in SoleAssignment(plan, path) :
                CASE candidate = "KeepString" -> v.type = "String"
                  [] candidate = "ParseIntegerLosslessly" ->
                        v.type = "String" /\ parse_integer_losslessly(v) # {}
                  [] OTHER -> v.type = "Integer"

apply_resolution(plan, path, candidate) ==
    CASE candidate = "ParseIntegerLosslessly" -> Retyped(plan, "Integer", "none")
      [] candidate = "FormatIntegerAsString"  -> Retyped(plan, "String", "canonical")
      [] OTHER                                -> plan

=============================================================================
