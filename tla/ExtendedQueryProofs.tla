-------------------------- MODULE ExtendedQueryProofs --------------------------
(***************************************************************************)
(* Proofs about ExtendedQuery for every sample, every set of statements,   *)
(* declared types and supplied parameters, and all names and portals.      *)
(*                                                                         *)
(* SessionInv carries what preparation established to the execution of a   *)
(* portal, however often names are prepared and bound again in between:    *)
(* which types the statement's placeholders were announced with, and from  *)
(* which fields of the profile they came.                                  *)
(***************************************************************************)
EXTENDS ExtendedQuery, FiniteSetTheorems, TLAPS

\* The announced types that infer_field_parameter_type gives.
WireTypes == {"BOOL", "INT8", "FLOAT8", "TEXT"}

\* Every placeholder was announced with a type compatible with the one type of
\* its field.
AnnouncedFor(site, types) ==
    \E inferred \in WireTypes :
        /\ infer_field_parameter_type(schema[site.path]) = {inferred}
        /\ compatible_parameter_type(types[site.value.int], inferred)

\* What preparation knows of a text and of the types announced for it.
Announced(text, types) ==
    /\ text \in Texts
    /\ types \in Seq(DecodableTypes)
    /\ text.catalog => types = <<>>
    /\ ~text.catalog =>
          /\ Lowers(text)
          /\ PlaceholderIndexes(text.plan) = 1 .. Len(types)
          /\ \A site \in PlaceholderSites(text.plan) : AnnouncedFor(site, types)

StoredStatements ==
    {stored \in [text : Texts, parameter_types : Seq(DecodableTypes)] :
        Announced(stored.text, stored.parameter_types)}

BoundPortals ==
    [statement : StoredStatements, values : {supply.values : supply \in Supplies},
     codes : {supply.codes : supply \in Supplies}]

\* What Execute may answer for a portal.
Answers(portal) ==
    LET answers == {execute_bound(portal.statement.text, parameters) :
                       parameters \in PortalValues(portal)}
    IN  IF answers = {} THEN {Refused} ELSE answers

\* Portals hold what was prepared, and the last answer is one of its portal's.
SessionInv ==
    /\ statements \in [Names -> {{}} \cup {{stored} : stored \in StoredStatements}]
    /\ portals \in [Portals -> {{}} \cup {{portal} : portal \in BoundPortals}]
    /\ reply.answer.result \in {"none", "error", "catalog", "executed"}
    /\ reply.portal \subseteq BoundPortals
    /\ \A portal \in reply.portal : reply.answer \in Answers(portal)

-----------------------------------------------------------------------------
(* Announced types *)

\* Only four types are inferred, and all of them can be decoded.
LEMMA InferredAreWireTypes ==
  ASSUME NEW field
  PROVE  infer_field_parameter_type(field) \subseteq WireTypes
  BY DEF infer_field_parameter_type, WireTypes

LEMMA WireTypesFinite == IsFiniteSet(WireTypes)
  <1>1. IsFiniteSet({"BOOL"}) /\ IsFiniteSet({"INT8"}) /\ IsFiniteSet({"FLOAT8"})
        /\ IsFiniteSet({"TEXT"})
    BY FS_Singleton
  <1>2. WireTypes = {"BOOL"} \cup ({"INT8"} \cup ({"FLOAT8"} \cup {"TEXT"}))
    BY DEF WireTypes
  <1> QED
    BY <1>1, <1>2, FS_Union

\* A plan has finitely many placeholders (PlansAssumption).
LEMMA PlaceholdersFinite ==
  ASSUME NEW text \in Texts, text.plan # NoPlan
  PROVE  IsFiniteSet(PlaceholderIndexes(text.plan))
  <1> DEFINE sites == PlaceholderSites(text.plan)
             index == [site \in sites |-> site.value.int]
  <1>1. IsFiniteSet(AssignedSites(text.plan) \cup ComparedSites(text.plan))
    BY PlansAssumption
  <1>2. IsFiniteSet(sites)
    BY <1>1, FS_Subset DEF PlaceholderSites
  <1>3. index \in Surjection(sites, PlaceholderIndexes(text.plan))
    BY DEF Surjection, PlaceholderIndexes
  <1> QED
    BY <1>2, <1>3, FS_Surjection

\* infer_parameter_types: indexes 1 .. n, and for each the type of its fields.
LEMMA InferredTypes ==
  ASSUME NEW text \in Texts, text.plan # NoPlan,
         NEW inferred \in infer_parameter_types(text.plan, schema)
  PROVE  \E n \in Nat :
            /\ PlaceholderIndexes(text.plan) = 1 .. n
            /\ inferred \in [1 .. n -> WireTypes]
            /\ \A site \in PlaceholderSites(text.plan) :
                  infer_field_parameter_type(schema[site.path]) = {inferred[site.value.int]}
  <1> DEFINE indexes == PlaceholderIndexes(text.plan)
             n == Cardinality(indexes)
             sites(i) == {site \in PlaceholderSites(text.plan) : site.value.int = i}
             types(i) == UNION {infer_field_parameter_type(schema[site.path]) : site \in sites(i)}
  <1>1. n \in Nat
    BY PlaceholdersFinite, FS_CardinalityType
  <1>2. /\ indexes = 1 .. n
        /\ \A site \in PlaceholderSites(text.plan) :
              infer_field_parameter_type(schema[site.path]) # {}
        /\ \A i \in indexes : Cardinality(types(i)) = 1
        /\ inferred = [i \in 1 .. n |-> CHOOSE t \in types(i) : TRUE]
    BY DEF infer_parameter_types
  <1>3. ASSUME NEW i \in indexes
        PROVE  \E t \in WireTypes : types(i) = {t}
    <2>1. types(i) \subseteq WireTypes
      BY InferredAreWireTypes
    <2>2. IsFiniteSet(types(i))
      BY <2>1, WireTypesFinite, FS_Subset
    <2>3. \E t : types(i) = {t}
      BY <1>2, <2>2, FS_Singleton
    <2> QED
      BY <2>1, <2>3
  <1>4. ASSUME NEW i \in indexes
        PROVE  inferred[i] \in WireTypes /\ types(i) = {inferred[i]}
    <2>1. PICK t \in WireTypes : types(i) = {t}
      BY <1>3
    <2>2. inferred[i] = CHOOSE u \in types(i) : TRUE
      BY <1>2
    <2>3. (CHOOSE u \in types(i) : TRUE) \in types(i)
      BY <2>1
    <2> QED
      BY <2>1, <2>2, <2>3
  <1>5. inferred \in [1 .. n -> WireTypes]
    BY <1>2, <1>4
  <1>6. ASSUME NEW site \in PlaceholderSites(text.plan)
        PROVE  infer_field_parameter_type(schema[site.path]) = {inferred[site.value.int]}
    <2>1. site.value.int \in indexes
      BY DEF PlaceholderIndexes
    <2>2. site \in sites(site.value.int)
      OBVIOUS
    <2>3. infer_field_parameter_type(schema[site.path]) \subseteq types(site.value.int)
      BY <2>2
    <2>4. types(site.value.int) = {inferred[site.value.int]}
      BY <1>4, <2>1
    <2>5. infer_field_parameter_type(schema[site.path]) # {}
      BY <1>2
    <2> HIDE DEF types
    <2> QED
      BY <2>3, <2>4, <2>5
  <1> QED
    BY <1>1, <1>2, <1>5, <1>6

\* reconcile_parameter_types: a type for each placeholder, compatible with the
\* inferred one and known to decode_parameter.
LEMMA ReconciledTypes ==
  ASSUME NEW requested, NEW n \in Nat, NEW inferred \in [1 .. n -> WireTypes],
         NEW types \in reconcile_parameter_types(requested, inferred)
  PROVE  /\ types \in [1 .. n -> DecodableTypes]
         /\ \A i \in 1 .. n : compatible_parameter_type(types[i], inferred[i])
  <1>1. CASE requested = <<>>
    <2>1. types = inferred
      BY <1>1 DEF reconcile_parameter_types
    <2>2. \A t \in WireTypes : t \in DecodableTypes /\ compatible_parameter_type(t, t)
      BY DEF WireTypes, DecodableTypes, compatible_parameter_type, IntegerTypes, FloatTypes,
             TextTypes
    <2> QED
      BY <2>1, <2>2
  <1>2. CASE requested # <<>>
    <2>1. DOMAIN types = 1 .. n
      BY <1>2 DEF reconcile_parameter_types
    <2>2. types = [i \in 1 .. n |-> types[i]]
      BY <1>2 DEF reconcile_parameter_types
    <2>3. \A i \in 1 .. n : compatible_parameter_type(types[i], inferred[i])
      BY <1>2, <2>1 DEF reconcile_parameter_types
    <2>4. \A i \in 1 .. n : types[i] \in DecodableTypes
      BY <2>3 DEF WireTypes, DecodableTypes, compatible_parameter_type, IntegerTypes,
                  FloatTypes, TextTypes
    <2> QED
      BY <2>2, <2>3, <2>4
  <1> QED
    BY <1>1, <1>2

\* What preparation announces is what Announced says.
LEMMA PreparationAnnounces ==
  ASSUME NEW text \in Texts, NEW requested \in TypeLists,
         NEW types \in AnnouncedTypes[text][requested]
  PROVE  Announced(text, types)
  <1>1. types \in prepare_statement(text, requested)
    BY DEF AnnouncedTypes
  <1>2. CASE text.catalog
    <2>1. types = <<>>
      BY <1>1, <1>2 DEF prepare_statement
    <2>2. types \in Seq(DecodableTypes)
      BY <2>1
    <2> QED
      BY <1>2, <2>1, <2>2 DEF Announced
  <1>3. CASE ~text.catalog
    <2>1. Lowers(text)
      BY <1>1, <1>3 DEF prepare_statement
    <2>2. PICK inferred \in infer_parameter_types(text.plan, schema) :
             types \in reconcile_parameter_types(requested, inferred)
      BY <1>1, <1>3 DEF prepare_statement
    <2>3. text.plan # NoPlan
      BY <2>1 DEF Lowers
    <2>4. PICK n \in Nat :
             /\ PlaceholderIndexes(text.plan) = 1 .. n
             /\ inferred \in [1 .. n -> WireTypes]
             /\ \A site \in PlaceholderSites(text.plan) :
                   infer_field_parameter_type(schema[site.path]) = {inferred[site.value.int]}
      BY <2>3, InferredTypes
    <2>5. /\ types \in [1 .. n -> DecodableTypes]
          /\ \A i \in 1 .. n : compatible_parameter_type(types[i], inferred[i])
      BY <2>2, <2>4, ReconciledTypes
    <2>6. types \in Seq(DecodableTypes) /\ Len(types) = n
      BY <2>4, <2>5
    <2>7. ASSUME NEW site \in PlaceholderSites(text.plan)
          PROVE  AnnouncedFor(site, types)
      <3>1. site.value.int \in 1 .. n
        BY <2>4 DEF PlaceholderIndexes
      <3>2. inferred[site.value.int] \in WireTypes
        BY <2>4, <3>1
      <3> QED
        BY <2>4, <2>5, <3>1, <3>2 DEF AnnouncedFor
    <2> QED
      BY <1>3, <2>1, <2>4, <2>6, <2>7 DEF Announced
  <1> QED
    BY <1>2, <1>3

-----------------------------------------------------------------------------
(* Answers *)

\* Values decode in at most one way, into as many parameters as were announced.
LEMMA OneDecoding ==
  ASSUME NEW portal \in BoundPortals, NEW parameters \in PortalValues(portal)
  PROVE  LET types == portal.statement.parameter_types
         IN  /\ PortalValues(portal) = {parameters}
             /\ parameters = [i \in DOMAIN types |->
                   CHOOSE v \in DecodedAt(types, portal.values, portal.codes, i) : TRUE]
             /\ \A i \in DOMAIN types : DecodedAt(types, portal.values, portal.codes, i) # {}
             /\ Len(parameters) = Len(types)
  <1> DEFINE types == portal.statement.parameter_types
             decoded == [i \in DOMAIN types |->
                           CHOOSE v \in DecodedAt(types, portal.values, portal.codes, i) : TRUE]
  <1>1. /\ parameters = decoded
        /\ PortalValues(portal) \subseteq {decoded}
        /\ \A i \in DOMAIN types : DecodedAt(types, portal.values, portal.codes, i) # {}
    BY DEF PortalValues, portal_parameters
  <1>2. types \in Seq(DecodableTypes)
    BY DEF BoundPortals, StoredStatements
  <1>3. DOMAIN types = 1 .. Len(types) /\ Len(types) \in Nat
    BY <1>2
  <1>4. Len(parameters) = Len(types)
    <2>1. DOMAIN parameters = 1 .. Len(types)
      BY <1>1, <1>3
    <2>2. parameters = [i \in 1 .. Len(types) |-> parameters[i]]
      BY <1>1, <1>3
    <2> HIDE DEF types, decoded
    <2> QED
      BY <1>3, <2>1, <2>2
  <1> QED
    BY <1>1, <1>4

\* A portal is executed in one way.
LEMMA OneAnswer ==
  ASSUME NEW portal \in BoundPortals, NEW parameters \in PortalValues(portal)
  PROVE  Answers(portal) = {execute_bound(portal.statement.text, parameters)}
  <1>1. PortalValues(portal) = {parameters}
    BY OneDecoding
  <1> QED
    BY <1>1 DEF Answers

\* execute_bound gives an error, rows of the catalog or a bound plan.
LEMMA AnswerKinds ==
  ASSUME NEW text \in Texts, NEW parameters
  PROVE  LET answer == execute_bound(text, parameters)
         IN  \/ answer = Refused
             \/ text.catalog /\ answer = CatalogRows
             \/ /\ ~text.catalog
                /\ Lowers(text)
                /\ answer = HandedOver(bind_plan(text.plan, parameters))
  <1>1. CASE text.catalog
    BY <1>1 DEF execute_bound
  <1>2. CASE ~text.catalog
    <2>1. bind_parameters(text.plan, parameters, schema) \subseteq {bind_plan(text.plan, parameters)}
      BY DEF bind_parameters
    <2>2. CASE bind_parameters(text.plan, parameters, schema) = {}
      BY <1>2, <2>2 DEF execute_bound
    <2>3. CASE bind_parameters(text.plan, parameters, schema) # {}
      <3>1. bind_parameters(text.plan, parameters, schema) = {bind_plan(text.plan, parameters)}
        BY <2>1, <2>3
      <3> HIDE DEF bind_parameters
      <3> QED
        BY <1>2, <3>1 DEF execute_bound
    <2> QED
      BY <2>2, <2>3
  <1> QED
    BY <1>1, <1>2

-----------------------------------------------------------------------------
(* Binding *)

\* The statements a text can be lowered to.
LEMMA PlanShapes ==
  ASSUME NEW text \in Texts, text.plan # NoPlan
  PROVE  /\ text.plan.kind \in {"Insert", "Update", "Delete", "Select"}
         /\ text.plan.kind = "Insert" => IsInsert(text.plan)
         /\ text.plan.kind = "Update" => IsUpdate(text.plan)
         /\ text.plan.kind = "Delete" => IsDelete(text.plan)
         /\ text.plan.kind = "Select" =>
               text.plan = [kind |-> "Select", filter |-> text.plan.filter]
         /\ text.plan.kind # "Insert" => text.plan.filter = {} \/ IsFilter(text.plan.filter)
  <1>1. /\ \/ text.plan.kind = "Insert" /\ IsInsert(text.plan)
           \/ text.plan.kind = "Update" /\ IsUpdate(text.plan)
           \/ text.plan.kind = "Delete" /\ IsDelete(text.plan)
           \/ /\ text.plan = [kind |-> "Select", filter |-> text.plan.filter]
              /\ text.plan.filter = {} \/ IsFilter(text.plan.filter)
    BY PlansAssumption
  <1>2. text.plan = [kind |-> "Select", filter |-> text.plan.filter] => text.plan.kind = "Select"
    OBVIOUS
  <1> QED
    BY <1>1, <1>2 DEF IsUpdate, IsDelete

\* Every leaf of the predicate is bound in its place, and there are no others.
LEMMA BoundLeaves ==
  ASSUME NEW filter, filter = {} \/ IsFilter(filter), NEW parameters
  PROVE  LET Bound(leaf) == Leaf(leaf.path, leaf.op, {bind_value(v, parameters) : v \in leaf.values})
         IN  Leaves(bind_predicate(filter, parameters)) = {Bound(leaf) : leaf \in Leaves(filter)}
  <1> DEFINE Bound(leaf) == Leaf(leaf.path, leaf.op, {bind_value(v, parameters) : v \in leaf.values})
             BoundIn(leaf) == [leaf EXCEPT !.values = {bind_value(v, parameters) : v \in @}]
  <1>1. \A alternative \in filter : \A leaf \in alternative : BoundIn(leaf) = Bound(leaf)
    <2>1. ASSUME NEW alternative \in filter, NEW leaf \in alternative
          PROVE  leaf \in [path : Paths, op : Operators, values : SUBSET SqlValues]
      BY <2>1 DEF IsFilter
    <2>2. \A leaf \in [path : Paths, op : Operators, values : SUBSET SqlValues] :
             BoundIn(leaf) = Bound(leaf)
      <3> DEFINE T == SUBSET SqlValues
      <3> HIDE DEF T
      <3>1. \A leaf \in [path : Paths, op : Operators, values : T] : BoundIn(leaf) = Bound(leaf)
        BY DEF Leaf
      <3> QED
        BY <3>1 DEF T
    <2> HIDE DEF Bound, BoundIn
    <2> QED
      BY <2>1, <2>2
  <1>2. bind_predicate(filter, parameters) =
           {{BoundIn(leaf) : leaf \in alternative} : alternative \in filter}
    BY DEF bind_predicate
  <1> HIDE DEF Bound, BoundIn
  <1>3. Leaves(bind_predicate(filter, parameters)) = {Bound(leaf) : leaf \in Leaves(filter)}
    BY <1>1, <1>2 DEF Leaves
  <1> QED
    BY <1>3 DEF Bound

\* Binding changes no path of a predicate.
LEMMA BoundPredicatePaths ==
  ASSUME NEW filter, filter = {} \/ IsFilter(filter), NEW parameters
  PROVE  PredicatePaths(bind_predicate(filter, parameters)) = PredicatePaths(filter)
  <1> DEFINE Bound(leaf) == Leaf(leaf.path, leaf.op, {bind_value(v, parameters) : v \in leaf.values})
  <1>1. Leaves(bind_predicate(filter, parameters)) = {Bound(leaf) : leaf \in Leaves(filter)}
    BY BoundLeaves
  <1>2. \A leaf : Bound(leaf).path = leaf.path
    BY DEF Leaf
  <1> HIDE DEF Bound
  <1> QED
    BY <1>1, <1>2 DEF PredicatePaths

\* What a bound plan is, statement by statement.
LEMMA BoundPlans ==
  ASSUME NEW text \in Texts, text.plan # NoPlan, NEW parameters
  PROVE  LET plan  == text.plan
             bound == bind_plan(plan, parameters)
         IN  /\ bound.kind = plan.kind
             /\ plan.kind = "Insert" =>
                   /\ bound.columns = plan.columns
                   /\ bound.rows = [r \in DOMAIN plan.rows |->
                         [i \in DOMAIN plan.rows[r] |-> bind_value(plan.rows[r][i], parameters)]]
             /\ plan.kind = "Update" =>
                   bound.assignments = [i \in DOMAIN plan.assignments |->
                         [path |-> plan.assignments[i].path,
                          value |-> bind_value(plan.assignments[i].value, parameters)]]
             /\ plan.kind # "Insert" => bound.filter = bind_predicate(plan.filter, parameters)
  <1> DEFINE plan  == text.plan
             bound == bind_plan(plan, parameters)
  <1>1. CASE plan.kind = "Insert"
    <2> DEFINE rows == [r \in DOMAIN plan.rows |->
                         [i \in DOMAIN plan.rows[r] |-> bind_value(plan.rows[r][i], parameters)]]
    <2>1. bound = [plan EXCEPT !.rows = rows]
      BY <1>1 DEF bind_plan
    <2>2. plan = [kind |-> "Insert", columns |-> plan.columns, rows |-> plan.rows]
      BY <1>1, PlanShapes DEF IsInsert
    <2> HIDE DEF rows, bound, plan
    <2>3. bound = [kind |-> "Insert", columns |-> plan.columns, rows |-> rows]
      BY <2>1, <2>2
    <2>4. bound.kind = plan.kind /\ bound.columns = plan.columns /\ bound.rows = rows
      BY <1>1, <2>3
    <2> QED
      BY <1>1, <2>4 DEF rows, plan, bound
  <1>2. CASE plan.kind = "Update"
    <2> DEFINE assignments == [i \in DOMAIN plan.assignments |->
                                 [path |-> plan.assignments[i].path,
                                  value |-> bind_value(plan.assignments[i].value, parameters)]]
               filter == bind_predicate(plan.filter, parameters)
               once == [plan EXCEPT !.assignments = assignments]
    <2>1. bound = [once EXCEPT !.filter = filter]
      BY <1>2 DEF bind_plan
    <2>2. plan = [kind |-> "Update", assignments |-> plan.assignments, filter |-> plan.filter]
      BY <1>2, PlanShapes DEF IsUpdate
    <2> HIDE DEF assignments, filter, bound, plan
    <2>3. once = [kind |-> "Update", assignments |-> assignments, filter |-> plan.filter]
      BY <2>2
    <2> HIDE DEF once
    <2>4. bound = [kind |-> "Update", assignments |-> assignments, filter |-> filter]
      BY <2>1, <2>3
    <2>5. bound.kind = plan.kind /\ bound.assignments = assignments /\ bound.filter = filter
      BY <1>2, <2>4
    <2> QED
      BY <1>2, <2>5 DEF assignments, filter, plan, bound
  <1>3. CASE plan.kind \in {"Delete", "Select"}
    <2> DEFINE filter == bind_predicate(plan.filter, parameters)
    <2>1. bound = [plan EXCEPT !.filter = filter]
      BY <1>3 DEF bind_plan
    <2>2. plan = [kind |-> plan.kind, filter |-> plan.filter]
      BY <1>3, PlanShapes DEF IsDelete
    <2> HIDE DEF filter, bound, plan
    <2>3. bound = [kind |-> plan.kind, filter |-> filter]
      BY <2>1, <2>2
    <2>4. bound.kind = plan.kind /\ bound.filter = filter
      BY <2>3
    <2> QED
      BY <1>3, <2>4 DEF filter, plan, bound
  <1> QED
    BY <1>1, <1>2, <1>3, PlanShapes

\* A lowered plan has known fields, so a bound one is checked as its literal is.
LEMMA LiteralsAreValidated ==
  ASSUME NEW text \in Texts, Lowers(text), NEW parameters
  PROVE  LET literal == bind_plan(text.plan, parameters)
         IN  lower(literal, schema) <=> validate_bound_plan(literal, schema)
  <1> DEFINE plan == text.plan
             literal == bind_plan(plan, parameters)
  <1> SUFFICES lower(literal, schema) <=> validate_bound_plan(literal, schema)
    OBVIOUS
  <1>1. plan # NoPlan /\ lower(plan, schema)
    BY DEF Lowers
  <1>2. literal.kind = plan.kind
    BY <1>1, BoundPlans
  <1>3. ASSUME plan.kind # "Insert"
        PROVE  PredicatePaths(literal.filter) = PredicatePaths(plan.filter)
    <2>1. plan.filter = {} \/ IsFilter(plan.filter)
      BY <1>1, <1>3, PlanShapes
    <2>2. literal.filter = bind_predicate(plan.filter, parameters)
      BY <1>1, <1>3, BoundPlans
    <2> HIDE DEF plan, literal
    <2> QED
      BY <2>1, <2>2, BoundPredicatePaths
  <1>4. CASE plan.kind = "Insert"
    <2>1. AssignedPaths(literal) \cup FilterPaths(literal)
             = AssignedPaths(plan) \cup FilterPaths(plan)
      BY <1>1, <1>2, <1>4, BoundPlans DEF AssignedPaths, FilterPaths
    <2> HIDE DEF plan, literal
    <2> QED
      BY <1>1, <1>2, <1>4, <2>1 DEF lower, lower_statement, validate_bound_plan, AssignedSites
  <1>5. CASE plan.kind = "Update"
    <2>1. AssignedPaths(literal) = AssignedPaths(plan)
      <3> DEFINE assignments == [i \in DOMAIN plan.assignments |->
                         [path |-> plan.assignments[i].path,
                          value |-> bind_value(plan.assignments[i].value, parameters)]]
      <3>1. literal.assignments = assignments
        BY <1>1, <1>5, BoundPlans
      <3>2. {a.path : a \in ToSet(assignments)} = {a.path : a \in ToSet(plan.assignments)}
        <4> DEFINE old == plan.assignments
        <4>1. /\ DOMAIN assignments = DOMAIN old
              /\ \A i \in DOMAIN old : assignments[i].path = old[i].path
          OBVIOUS
        <4> HIDE DEF assignments, old
        <4>2. {a.path : a \in ToSet(assignments)} = {a.path : a \in ToSet(old)}
          BY <4>1 DEF ToSet
        <4> QED
          BY <4>2 DEF old
      <3> HIDE DEF plan, literal, assignments
      <3> QED
        BY <1>2, <1>5, <3>1, <3>2 DEF AssignedPaths
    <2>2. FilterPaths(literal) = FilterPaths(plan)
      BY <1>2, <1>3, <1>5 DEF FilterPaths
    <2> HIDE DEF plan, literal
    <2> QED
      BY <1>1, <1>2, <1>5, <2>1, <2>2
      DEF lower, lower_statement, validate_bound_plan, AssignedSites
  <1>6. CASE plan.kind = "Delete"
    <2>1. AssignedValues(literal) = {} /\ AssignedPaths(literal) = AssignedPaths(plan)
      BY <1>2, <1>6 DEF AssignedValues, AssignedPaths
    <2>2. FilterPaths(literal) = FilterPaths(plan)
      BY <1>2, <1>3, <1>6 DEF FilterPaths
    <2> HIDE DEF plan, literal
    <2> QED
      BY <1>1, <1>2, <1>6, <2>1, <2>2
      DEF lower, lower_statement, validate_bound_plan, AssignedSites
  <1>7. CASE plan.kind = "Select"
    <2> HIDE DEF plan, literal
    <2> QED
      BY <1>1, <1>2, <1>3, <1>7 DEF lower, validate_bound_plan, AssignedSites
  <1> QED
    BY <1>1, <1>4, <1>5, <1>6, <1>7, PlanShapes

-----------------------------------------------------------------------------
(* Decoded values *)

\* The type of the values that a wire type announces.
ValueType == [BOOL |-> "Boolean", INT8 |-> "Integer", FLOAT8 |-> "FloatingPoint",
              TEXT |-> "String"]

\* A value decoded under an announced type has the type of its field, and is
\* NULL only if NULL was supplied.
LEMMA DecodedType ==
  ASSUME NEW type, NEW inferred \in WireTypes, compatible_parameter_type(type, inferred),
         NEW wire, NEW format, NEW v \in decode_parameter(wire, type, format)
  PROVE  v.type = IF wire = NullParameter THEN "Null" ELSE ValueType[inferred]
  <1>1. CASE wire = NullParameter
    BY <1>1 DEF decode_parameter, Value
  <1>2. CASE wire # NullParameter
    <2>1. v \in decode_binary(wire, type) \/ v \in decode_text(wire, type)
      BY <1>2 DEF decode_parameter
    <2> DEFINE numerals == {n \in {wire.int} : wire.size = 0 /\ wire.form \in {"canonical", "padded"}}
               numbers == {n \in {wire.int} : wire.size = ByteSize[type]}
    <2>2. CASE inferred = "BOOL"
      <3>1. type = "BOOL" /\ type \notin IntegerTypes /\ type \notin FloatTypes /\ type \notin TextTypes
        BY <2>2 DEF compatible_parameter_type, IntegerTypes, FloatTypes, TextTypes
      <3>2. decode_text(wire, type) = {Value("Boolean", n, "none") :
                n \in numerals \cap {i \in 0 .. 1 : wire.form = "canonical"}}
        BY <3>1, Zenon DEF decode_text
      <3>3. decode_binary(wire, type) = {Value("Boolean", n, "none") : n \in numbers \cap 0 .. 1}
        BY <3>1, Zenon DEF decode_binary
      <3> HIDE DEF numerals, numbers
      <3> QED
        BY <1>2, <2>1, <2>2, <3>2, <3>3 DEF Value, ValueType
    <2>3. CASE inferred = "INT8"
      <3>1. type # "BOOL" /\ type \in IntegerTypes /\ type \notin FloatTypes /\ type \notin TextTypes
        BY <2>3 DEF compatible_parameter_type, IntegerTypes, FloatTypes, TextTypes
      <3>2. decode_text(wire, type) = {Value("Integer", n, "none") : n \in numerals \cap Signed(type)}
        BY <3>1, Zenon DEF decode_text
      <3>3. decode_binary(wire, type) = {Value("Integer", n, "none") : n \in numbers}
        BY <3>1, Zenon DEF decode_binary
      <3> HIDE DEF numerals, numbers
      <3> QED
        BY <1>2, <2>1, <2>3, <3>2, <3>3 DEF Value, ValueType
    <2>4. CASE inferred = "FLOAT8"
      <3>1. type # "BOOL" /\ type \notin IntegerTypes /\ type \in FloatTypes /\ type \notin TextTypes
        BY <2>4 DEF compatible_parameter_type, IntegerTypes, FloatTypes, TextTypes
      <3>2. decode_text(wire, type) = {Value("FloatingPoint", n, "none") : n \in numerals}
        BY <3>1, Zenon DEF decode_text
      <3>3. decode_binary(wire, type) = {Value("FloatingPoint", n, "none") :
                n \in {m \in numbers : wire.form # "nonfinite"}}
        BY <3>1, Zenon DEF decode_binary
      <3> HIDE DEF numerals, numbers
      <3> QED
        BY <1>2, <2>1, <2>4, <3>2, <3>3 DEF Value, ValueType
    <2>5. CASE inferred = "TEXT"
      <3>1. type \in TextTypes
        BY <2>5 DEF compatible_parameter_type
      <3>2. v \in AsText(wire)
        BY <2>1, <3>1
        DEF decode_binary, decode_text, IntegerTypes, FloatTypes, TextTypes
      <3>3. v.type = "String"
        BY <3>2 DEF AsText, Value
      <3> QED
        BY <1>2, <2>5, <3>3 DEF ValueType
    <2> QED
      BY <2>2, <2>3, <2>4, <2>5 DEF WireTypes
  <1> QED
    BY <1>1, <1>2

\* Profiles hold the types that discovery knows (DocumentsAssumption).
LEMMA ProfiledTypes ==
  ASSUME NEW path \in DOMAIN schema
  PROVE  IsFiniteSet(NonNullTypes(schema[path]))
  <1>1. schema[path].observed_types \subseteq ObservedTypes
    BY DocumentsAssumption DEF schema, infer
  <1>2. IsFiniteSet(ObservedTypes)
    <2> DEFINE One(t) == {t}
    <2>1. \A t : IsFiniteSet(One(t))
      BY FS_Singleton
    <2>2. ObservedTypes =
             One("Null") \cup (One("Boolean") \cup (One("Integer") \cup (One("FloatingPoint")
             \cup (One("String") \cup (One("DateTime") \cup (One("ObjectId")
             \cup (One("Document") \cup One("Array"))))))))
      BY DEF ObservedTypes, ScalarTypes
    <2> HIDE DEF One
    <2> QED
      BY <2>1, <2>2, FS_Union
  <1>3. NonNullTypes(schema[path]) \subseteq ObservedTypes
    BY <1>1 DEF NonNullTypes
  <1> QED
    BY <1>2, <1>3, FS_Subset

\* Where a type is announced, validation asks for values of exactly that type.
LEMMA AnnouncedFieldShape ==
  ASSUME NEW path \in DOMAIN schema, NEW inferred \in WireTypes,
         infer_field_parameter_type(schema[path]) = {inferred}
  PROVE  validate_field_shape(schema[path]) = {ValueType[inferred]}
  <1> DEFINE field == schema[path]
             wire == [Boolean |-> "BOOL", Integer |-> "INT8", FloatingPoint |-> "FLOAT8",
                      String |-> "TEXT"]
  <1>1. /\ ~field.has_dotted_key_collision
        /\ field.observed_shapes = {"Scalar"}
        /\ Cardinality(NonNullTypes(field)) = 1
        /\ {wire[type] : type \in NonNullTypes(field) \cap DOMAIN wire} = {inferred}
    BY DEF infer_field_parameter_type
  <1>2. PICK type : NonNullTypes(field) = {type}
    BY <1>1, ProfiledTypes, FS_Singleton
  <1>3. type \in DOMAIN wire /\ wire[type] = inferred
    BY <1>1, <1>2
  <1>4. type = ValueType[inferred]
    BY <1>3 DEF ValueType
  <1>5. Cardinality(field.observed_shapes) = 1
    BY <1>1, FS_Singleton
  <1> HIDE DEF field
  <1>6. validate_field_shape(field) = NonNullTypes(field)
    BY <1>1, <1>5 DEF validate_field_shape
  <1> QED
    BY <1>2, <1>4, <1>6 DEF field

\* Lowering knows the field of every value.
LEMMA KnownSites ==
  ASSUME NEW text \in Texts, Lowers(text),
         NEW site \in AssignedSites(text.plan) \cup ComparedSites(text.plan)
  PROVE  site.path \in DOMAIN schema
  <1> DEFINE plan == text.plan
  <1>1. plan # NoPlan /\ lower(plan, schema)
    BY DEF Lowers
  <1>2. ASSUME NEW s \in AssignedSites(plan)
        PROVE  s.path \in AssignedPaths(plan) /\ plan.kind \in {"Insert", "Update"}
    <2>1. CASE plan.kind = "Insert"
      BY <1>2, <2>1 DEF AssignedSites, AssignedValues, AssignedPaths, ToSet
    <2>2. CASE plan.kind = "Update"
      BY <1>2, <2>2 DEF AssignedSites, AssignedValues, AssignedPaths
    <2> QED
      BY <1>2, <2>1, <2>2 DEF AssignedSites
  <1>3. ASSUME NEW s \in ComparedSites(plan)
        PROVE  s.path \in PredicatePaths(plan.filter) /\ plan.kind # "Insert"
    BY <1>3 DEF ComparedSites, PredicatePaths
  <1> HIDE DEF plan
  <1> QED
    BY <1>1, <1>2, <1>3 DEF plan, lower, lower_statement, FilterPaths

\* Lowering validated every value where it stands.
LEMMA LoweredSites ==
  ASSUME NEW text \in Texts, Lowers(text)
  PROVE  /\ \A site \in AssignedSites(text.plan) : validate_write_value(site, schema)
         /\ \A site \in ComparedSites(text.plan) :
               validate_value(schema[site.path], site.value, FALSE)
  <1> DEFINE plan == text.plan
  <1>1. plan # NoPlan /\ lower(plan, schema)
    BY DEF Lowers
  <1>2. plan.kind # "Insert" => validate_write_predicate(plan.filter, schema)
    BY <1>1 DEF lower, lower_statement
  <1>3. \A site \in AssignedSites(plan) : validate_write_value(site, schema)
    BY <1>1 DEF lower, lower_statement, AssignedSites
  <1>4. ASSUME NEW site \in ComparedSites(plan)
        PROVE  validate_value(schema[site.path], site.value, FALSE)
    <2>1. plan.kind # "Insert"
      BY DEF ComparedSites
    <2>2. PICK leaf \in Leaves(plan.filter) : \E v \in leaf.values :
             site = [path |-> leaf.path, value |-> v]
      BY <2>1 DEF ComparedSites
    <2>3. site.path = leaf.path /\ site.value \in leaf.values
      BY <2>2
    <2> HIDE DEF plan
    <2> QED
      BY <1>2, <2>1, <2>2, <2>3 DEF validate_write_predicate
  <1> QED
    BY <1>3, <1>4

\* Every value of a bound plan stands where one of the plan stands.
LEMMA BoundSites ==
  ASSUME NEW text \in Texts, text.plan # NoPlan, NEW parameters
  PROVE  LET literal == bind_plan(text.plan, parameters)
         IN  /\ \A bound \in AssignedSites(literal) : \E site \in AssignedSites(text.plan) :
                   bound.path = site.path /\ bound.value = bind_value(site.value, parameters)
             /\ literal.kind # "Insert" =>
                   \A leaf \in Leaves(literal.filter) : \A value \in leaf.values :
                      \E site \in ComparedSites(text.plan) :
                         leaf.path = site.path /\ value = bind_value(site.value, parameters)
  <1> DEFINE plan == text.plan
             literal == bind_plan(plan, parameters)
  <1>1. literal.kind = plan.kind
    BY BoundPlans
  <1>2. ASSUME NEW bound \in AssignedSites(literal)
        PROVE  \E site \in AssignedSites(plan) :
                   bound.path = site.path /\ bound.value = bind_value(site.value, parameters)
    <2>1. CASE plan.kind = "Insert"
      <3>1. /\ literal.columns = plan.columns
            /\ literal.rows = [r \in DOMAIN plan.rows |->
                  [i \in DOMAIN plan.rows[r] |-> bind_value(plan.rows[r][i], parameters)]]
        BY <2>1, BoundPlans
      <3>2. \A r \in DOMAIN plan.rows : DOMAIN plan.rows[r] = DOMAIN plan.columns
        <4> DEFINE rows == plan.rows
        <4>1. rows \in Seq([DOMAIN plan.columns -> SqlValues])
          BY <2>1, PlanShapes DEF IsInsert
        <4> HIDE DEF rows
        <4>2. \A r \in DOMAIN rows : rows[r] \in [DOMAIN plan.columns -> SqlValues]
          BY <4>1
        <4> QED
          BY <4>2 DEF rows
      <3> HIDE DEF plan, literal
      <3>3. PICK r \in DOMAIN literal.rows : \E i \in DOMAIN literal.columns :
               bound = [path |-> literal.columns[i], value |-> literal.rows[r][i]]
        BY <1>1, <2>1 DEF AssignedSites, AssignedValues
      <3>4. PICK i \in DOMAIN literal.columns :
               bound = [path |-> literal.columns[i], value |-> literal.rows[r][i]]
        BY <3>3
      <3>5. r \in DOMAIN plan.rows /\ i \in DOMAIN plan.columns /\ i \in DOMAIN plan.rows[r]
        BY <3>1, <3>2, <3>3, <3>4
      <3>6. /\ bound.path = plan.columns[i]
            /\ bound.value = bind_value(plan.rows[r][i], parameters)
        BY <3>1, <3>4, <3>5
      <3> DEFINE site == [path |-> plan.columns[i], value |-> plan.rows[r][i]]
      <3>7. site \in AssignedSites(plan)
        BY <2>1, <3>5 DEF AssignedSites, AssignedValues
      <3> QED
        BY <3>6, <3>7
    <2>2. CASE plan.kind = "Update"
      <3> DEFINE old == plan.assignments
                 new == literal.assignments
      <3>1. new = [i \in DOMAIN old |->
                     [path |-> old[i].path, value |-> bind_value(old[i].value, parameters)]]
        BY <2>2, BoundPlans
      <3>2. AssignedSites(plan) = {old[i] : i \in DOMAIN old}
        BY <2>2 DEF AssignedSites, AssignedValues, ToSet
      <3>3. AssignedSites(literal) = {new[i] : i \in DOMAIN new}
        <4> HIDE DEF plan, literal
        <4> QED
          BY <1>1, <2>2 DEF AssignedSites, AssignedValues, ToSet
      <3> HIDE DEF plan, literal, old, new
      <3>4. PICK i \in DOMAIN new : bound = new[i]
        BY <3>3
      <3>5. i \in DOMAIN old /\ bound.path = old[i].path
            /\ bound.value = bind_value(old[i].value, parameters)
        BY <3>1, <3>4
      <3> QED
        BY <3>2, <3>5
    <2> QED
      BY <1>1, <1>2, <2>1, <2>2 DEF AssignedSites
  <1>3. ASSUME literal.kind # "Insert", NEW leaf \in Leaves(literal.filter), NEW value \in leaf.values
        PROVE  \E site \in ComparedSites(plan) :
                   leaf.path = site.path /\ value = bind_value(site.value, parameters)
    <2> DEFINE Bound(l) == Leaf(l.path, l.op, {bind_value(v, parameters) : v \in l.values})
    <2>1. plan.filter = {} \/ IsFilter(plan.filter)
      BY <1>1, <1>3, PlanShapes
    <2>2. literal.filter = bind_predicate(plan.filter, parameters)
      BY <1>1, <1>3, BoundPlans
    <2> HIDE DEF plan, literal
    <2>3. Leaves(literal.filter) = {Bound(l) : l \in Leaves(plan.filter)}
      <3>1. Leaves(bind_predicate(plan.filter, parameters)) = {Bound(l) : l \in Leaves(plan.filter)}
        BY <2>1, BoundLeaves
      <3> QED
        BY <2>2, <3>1
    <2>4. PICK old \in Leaves(plan.filter) : leaf = Bound(old)
      BY <2>3
    <2>5. leaf.path = old.path /\ leaf.values = {bind_value(v, parameters) : v \in old.values}
      BY <2>4 DEF Leaf
    <2>6. PICK v \in old.values : value = bind_value(v, parameters)
      BY <2>5
    <2> DEFINE site == [path |-> old.path, value |-> v]
    <2>7. site \in ComparedSites(plan)
      BY <1>1, <1>3 DEF ComparedSites
    <2> QED
      BY <2>5, <2>6, <2>7
  <1> QED
    BY <1>2, <1>3

\* A parameter takes the place of a literal of its field's type, or is NULL
\* because NULL was supplied.
LEMMA ParametersFit ==
  ASSUME NEW portal \in BoundPortals, ~portal.statement.text.catalog,
         NEW parameters \in PortalValues(portal),
         NEW site \in PlaceholderSites(portal.statement.text.plan)
  PROVE  LET v == parameters[site.value.int]
         IN  \/ validate_value(schema[site.path], v, FALSE)
             \/ v.type = "Null" /\ portal.values[site.value.int] = NullParameter
  <1> DEFINE text  == portal.statement.text
             types == portal.statement.parameter_types
             i     == site.value.int
             v     == parameters[i]
  <1>1. text \in Texts /\ Announced(text, types)
    BY DEF BoundPortals, StoredStatements
  <1>2. /\ types \in Seq(DecodableTypes)
        /\ Lowers(text)
        /\ PlaceholderIndexes(text.plan) = 1 .. Len(types)
        /\ AnnouncedFor(site, types)
    BY <1>1 DEF Announced
  <1>3. i \in DOMAIN types
    BY <1>2 DEF PlaceholderIndexes
  <1>4. v \in DecodedAt(types, portal.values, portal.codes, i)
    <2>1. /\ parameters = [j \in DOMAIN types |->
                CHOOSE w \in DecodedAt(types, portal.values, portal.codes, j) : TRUE]
          /\ \A j \in DOMAIN types : DecodedAt(types, portal.values, portal.codes, j) # {}
      BY OneDecoding
    <2> HIDE DEF types, i
    <2> QED
      BY <1>3, <2>1
  <1>5. PICK format : v \in decode_parameter(portal.values[i], types[i], format)
    BY <1>4 DEF DecodedAt
  <1>6. PICK inferred \in WireTypes :
           /\ infer_field_parameter_type(schema[site.path]) = {inferred}
           /\ compatible_parameter_type(types[i], inferred)
    BY <1>2 DEF AnnouncedFor
  <1>7. v.type = IF portal.values[i] = NullParameter THEN "Null" ELSE ValueType[inferred]
    BY <1>5, <1>6, DecodedType
  <1>8. site.path \in DOMAIN schema
    BY <1>1, <1>2, KnownSites DEF PlaceholderSites
  <1>9. validate_field_shape(schema[site.path]) = {ValueType[inferred]}
    BY <1>6, <1>8, AnnouncedFieldShape
  <1>10. ValueType[inferred] \in {"Boolean", "Integer", "FloatingPoint", "String"}
    BY DEF ValueType, WireTypes
  <1> HIDE DEF v, i
  <1>11. \/ validate_value(schema[site.path], v, FALSE)
         \/ v.type = "Null" /\ portal.values[i] = NullParameter
    BY <1>7, <1>9, <1>10 DEF validate_value, is_compatible
  <1> QED
    BY <1>11 DEF v, i

-----------------------------------------------------------------------------
(* The answers of a portal *)

\* Placeholders without a gap need as many parameters as the largest index.
LEMMA LargestIndex ==
  ASSUME NEW plan, NEW n \in Nat, PlaceholderIndexes(plan) = 1 .. n
  PROVE  maximum_placeholder_index(plan) = n
  <1> DEFINE Bounds(m) == \A i \in 1 .. n : i =< m
  <1>1. n \in (1 .. n) \cup {0} /\ Bounds(n)
    OBVIOUS
  <1>2. \A m \in (1 .. n) \cup {0} : Bounds(m) => m = n
    <2>1. CASE n = 0
      BY <2>1
    <2>2. CASE n # 0
      BY <2>2
    <2> QED
      BY <2>1, <2>2
  <1>3. maximum_placeholder_index(plan) = CHOOSE m \in (1 .. n) \cup {0} : Bounds(m)
    BY DEF maximum_placeholder_index
  <1> HIDE DEF Bounds
  <1> QED
    BY <1>1, <1>2, <1>3

\* The parameters of a prepared statement are as many as its plan needs, so
\* binding fails only if a value is refused where it stands.
LEMMA PreparedExecution ==
  ASSUME NEW portal \in BoundPortals, ~portal.statement.text.catalog,
         NEW parameters \in PortalValues(portal)
  PROVE  LET literal == bind_plan(portal.statement.text.plan, parameters)
         IN  execute_bound(portal.statement.text, parameters)
                = IF validate_bound_plan(literal, schema) THEN HandedOver(literal) ELSE Refused
  <1> DEFINE text    == portal.statement.text
             types   == portal.statement.parameter_types
             literal == bind_plan(text.plan, parameters)
             bound   == bind_parameters(text.plan, parameters, schema)
  <1>1. Announced(text, types)
    BY DEF BoundPortals, StoredStatements
  <1>2. /\ types \in Seq(DecodableTypes)
        /\ Lowers(text)
        /\ PlaceholderIndexes(text.plan) = 1 .. Len(types)
    BY <1>1 DEF Announced
  <1>3. Len(types) \in Nat /\ Len(parameters) = Len(types)
    BY <1>2, OneDecoding
  <1>4. Len(parameters) = maximum_placeholder_index(text.plan)
    BY <1>2, <1>3, LargestIndex
  <1>5. 0 \notin PlaceholderIndexes(text.plan)
    <2> DEFINE n == Len(types)
    <2>1. n \in Nat /\ PlaceholderIndexes(text.plan) = 1 .. n
      BY <1>2, <1>3
    <2> HIDE DEF n
    <2> QED
      BY <2>1
  <1>6. bound = {b \in {literal} : validate_bound_plan(b, schema)}
    BY <1>4, <1>5 DEF bind_parameters
  <1>7. execute_bound(text, parameters)
           = IF bound # {} THEN HandedOver(CHOOSE b \in bound : TRUE) ELSE Refused
    BY <1>2 DEF execute_bound
  <1> HIDE DEF bound, literal
  <1>8. execute_bound(text, parameters)
           = IF validate_bound_plan(literal, schema) THEN HandedOver(literal) ELSE Refused
    <2>1. CASE validate_bound_plan(literal, schema)
      <3>1. bound = {literal}
        BY <1>6, <2>1
      <3>2. (CHOOSE b \in bound : TRUE) = literal
        BY <3>1
      <3> QED
        BY <1>7, <2>1, <3>1, <3>2
    <2>2. CASE ~validate_bound_plan(literal, schema)
      BY <1>6, <1>7, <2>2
    <2> QED
      BY <2>1, <2>2
  <1> QED
    BY <1>8 DEF literal

\* Decoded values are accepted everywhere, if none is NULL where it is compared.
LEMMA ParametersAreAccepted ==
  ASSUME NEW portal \in BoundPortals, ~portal.statement.text.catalog,
         NEW parameters \in PortalValues(portal),
         \A i \in ComparedIndexes(portal.statement.text.plan) : portal.values[i] # NullParameter
  PROVE  validate_bound_plan(bind_plan(portal.statement.text.plan, parameters), schema)
  <1> DEFINE text    == portal.statement.text
             plan    == text.plan
             literal == bind_plan(plan, parameters)
  <1>1. text \in Texts /\ Lowers(text) /\ plan # NoPlan
    BY DEF BoundPortals, StoredStatements, Announced, Lowers
  <1>2. ASSUME NEW bound \in AssignedSites(literal)
        PROVE  validate_write_value(bound, schema)
    <2>1. PICK site \in AssignedSites(plan) :
             bound.path = site.path /\ bound.value = bind_value(site.value, parameters)
      BY <1>1, <1>2, BoundSites
    <2>2. validate_write_value(site, schema)
      BY <1>1, LoweredSites
    <2>3. CASE site.value.type = "Placeholder"
      <3>1. site \in PlaceholderSites(plan)
        BY <2>3 DEF PlaceholderSites
      <3>2. bound.value = parameters[site.value.int]
        BY <2>1, <2>3 DEF bind_value
      <3>3. \/ validate_value(schema[site.path], bound.value, FALSE)
            \/ bound.value.type = "Null"
        BY <3>1, <3>2, ParametersFit
      <3> HIDE DEF literal, plan, text
      <3> QED
        BY <2>1, <3>3 DEF validate_write_value, validate_value
    <2>4. CASE site.value.type # "Placeholder"
      <3>1. bound.value = site.value
        BY <2>1, <2>4 DEF bind_value
      <3> HIDE DEF literal, plan, text
      <3> QED
        BY <2>1, <2>2, <3>1 DEF validate_write_value
    <2> QED
      BY <2>3, <2>4
  <1>3. ASSUME literal.kind # "Insert", NEW leaf \in Leaves(literal.filter), NEW value \in leaf.values
        PROVE  validate_value(schema[leaf.path], value, FALSE)
    <2>1. PICK site \in ComparedSites(plan) :
             leaf.path = site.path /\ value = bind_value(site.value, parameters)
      BY <1>1, <1>3, BoundSites
    <2>2. validate_value(schema[site.path], site.value, FALSE)
      BY <1>1, LoweredSites
    <2>3. CASE site.value.type = "Placeholder"
      <3>1. site \in PlaceholderSites(plan) /\ site.value.int \in ComparedIndexes(plan)
        BY <2>3 DEF PlaceholderSites, ComparedIndexes
      <3>2. value = parameters[site.value.int]
        BY <2>1, <2>3 DEF bind_value
      <3>3. validate_value(schema[site.path], value, FALSE)
        BY <3>1, <3>2, ParametersFit
      <3> QED
        BY <2>1, <3>3
    <2>4. CASE site.value.type # "Placeholder"
      BY <2>1, <2>2, <2>4 DEF bind_value
    <2> QED
      BY <2>3, <2>4
  <1> HIDE DEF literal
  <1>4. validate_bound_plan(literal, schema)
    BY <1>2, <1>3 DEF validate_bound_plan, validate_write_predicate
  <1> QED
    BY <1>4 DEF literal

-----------------------------------------------------------------------------
(* The inductive invariant *)

\* The four results of an answer.
LEMMA AnswerResults ==
  /\ \A plan : HandedOver(plan).result = "executed"
  /\ Refused.result = "error" /\ CatalogRows.result = "catalog" /\ Nothing.result = "none"
  BY DEF HandedOver, Refused, CatalogRows, Nothing

\* Every way to execute a portal has one of those results.
LEMMA PortalAnswers ==
  ASSUME NEW portal \in BoundPortals, NEW answer \in Answers(portal)
  PROVE  answer.result \in {"error", "catalog", "executed"}
  <1> DEFINE text == portal.statement.text
  <1>1. text \in Texts
    BY DEF BoundPortals, StoredStatements
  <1>2. answer = Refused \/ \E parameters \in PortalValues(portal) :
                               answer = execute_bound(text, parameters)
    BY DEF Answers
  <1> HIDE DEF text
  <1> QED
    BY <1>1, <1>2, AnswerKinds, AnswerResults

LEMMA SessionInit == Init => SessionInv
  <1> SUFFICES ASSUME Init PROVE SessionInv
    OBVIOUS
  <1>1. statements \in [Names -> {{}} \cup {{stored} : stored \in StoredStatements}]
    BY DEF Init
  <1>2. portals \in [Portals -> {{}} \cup {{portal} : portal \in BoundPortals}]
    BY DEF Init
  <1>3. reply.answer = Nothing /\ reply.portal = {}
    BY DEF Init, Reply
  <1> QED
    BY <1>1, <1>2, <1>3, AnswerResults DEF SessionInv

LEMMA SessionNext == SessionInv /\ [Next]_vars => SessionInv'
  <1> SUFFICES ASSUME SessionInv, [Next]_vars PROVE SessionInv'
    OBVIOUS
  <1>1. /\ statements \in [Names -> {{}} \cup {{stored} : stored \in StoredStatements}]
        /\ portals \in [Portals -> {{}} \cup {{portal} : portal \in BoundPortals}]
    BY DEF SessionInv
  <1>2. ASSUME NEW n \in Names, NEW text \in Texts, NEW requested \in TypeLists,
               Parse(n, text, requested)
        PROVE  SessionInv'
    <2>1. PICK types \in AnnouncedTypes[text][requested] :
             statements' = [statements EXCEPT ![n] = {[text |-> text, parameter_types |-> types]}]
      BY <1>2 DEF Parse
    <2> DEFINE stored == [text |-> text, parameter_types |-> types]
    <2>2. Announced(text, types)
      BY PreparationAnnounces
    <2>3. stored \in StoredStatements
      BY <2>2 DEF StoredStatements, Announced
    <2>4. statements' = [statements EXCEPT ![n] = {stored}]
      BY <2>1
    <2> HIDE DEF stored
    <2>5. statements' \in [Names -> {{}} \cup {{s} : s \in StoredStatements}]
      BY <1>1, <2>3, <2>4
    <2>6. reply'.answer = Nothing /\ reply'.portal = {} /\ portals' = portals
      BY <1>2 DEF Parse, Reply
    <2> QED
      BY <1>1, <2>5, <2>6, AnswerResults DEF SessionInv
  <1>3. ASSUME NEW n \in Names, NEW text \in Texts, NEW requested \in TypeLists,
               ParseRefused(n, text, requested)
        PROVE  SessionInv'
    <2>1. /\ reply'.answer = Refused /\ reply'.portal = {}
          /\ statements' = statements /\ portals' = portals
      BY <1>3 DEF ParseRefused, Reply
    <2> QED
      BY <1>1, <2>1, AnswerResults DEF SessionInv
  <1>4. ASSUME NEW p \in Portals, NEW n \in Names, NEW supply \in Supplies, Bind(p, n, supply)
        PROVE  SessionInv'
    <2>1. PICK stored \in statements[n] :
             portals' = [portals EXCEPT ![p] =
                {[statement |-> stored, values |-> supply.values, codes |-> supply.codes]}]
      BY <1>4 DEF Bind
    <2> DEFINE portal == [statement |-> stored, values |-> supply.values, codes |-> supply.codes]
    <2>2. stored \in StoredStatements
      BY <1>1, <2>1
    <2>3. portal \in BoundPortals
      BY <2>2 DEF BoundPortals
    <2>4. portals' = [portals EXCEPT ![p] = {portal}]
      BY <2>1
    <2> HIDE DEF portal
    <2>5. portals' \in [Portals -> {{}} \cup {{b} : b \in BoundPortals}]
      BY <1>1, <2>3, <2>4
    <2>6. reply'.answer = Nothing /\ reply'.portal = {} /\ statements' = statements
      BY <1>4 DEF Bind, Reply
    <2> QED
      BY <1>1, <2>5, <2>6, AnswerResults DEF SessionInv
  <1>5. ASSUME NEW p \in Portals, Execute(p)
        PROVE  SessionInv'
    <2>1. PICK portal \in portals[p] : \E answer \in Answers(portal) :
             reply' = Reply(answer, {portal}, {portal.statement.text})
      BY <1>5 DEF Execute, Answers
    <2>2. PICK answer \in Answers(portal) :
             reply' = Reply(answer, {portal}, {portal.statement.text})
      BY <2>1
    <2>3. portal \in BoundPortals
      BY <1>1, <2>1
    <2>4. reply'.answer = answer /\ reply'.portal = {portal}
      BY <2>2 DEF Reply
    <2>5. answer.result \in {"error", "catalog", "executed"}
      BY <2>3, PortalAnswers
    <2>6. statements' = statements /\ portals' = portals
      BY <1>5 DEF Execute
    <2> QED
      BY <1>1, <2>3, <2>4, <2>5, <2>6 DEF SessionInv
  <1>6. ASSUME NEW text \in Texts, SimpleQuery(text)
        PROVE  SessionInv'
    <2>1. /\ \/ reply'.answer \in {CatalogRows, Refused}
             \/ reply'.answer = HandedOver(text.plan)
          /\ reply'.portal = {}
          /\ statements' = statements /\ portals' = portals
      BY <1>6 DEF SimpleQuery, Reply
    <2> QED
      BY <1>1, <2>1, AnswerResults DEF SessionInv
  <1>7. ASSUME UNCHANGED vars
        PROVE  SessionInv'
    BY <1>7 DEF vars, SessionInv
  <1> QED
    BY <1>2, <1>3, <1>4, <1>5, <1>6, <1>7 DEF Next

LEMMA SessionInvariant == Spec => []SessionInv
  BY SessionInit, SessionNext, PTL DEF Spec

-----------------------------------------------------------------------------
(* Theorems *)

\* Stores hold at most one item per name, and whatever a client declares, every
\* announced type of a statement or of a portal's statement can be decoded.
THEOREM SessionIsTyped == Spec => []SessionTypeOK
  <1>1. SessionInv => SessionTypeOK
    <2> SUFFICES ASSUME SessionInv PROVE SessionTypeOK
      OBVIOUS
    <2>1. /\ statements \in [Names -> {{}} \cup {{stored} : stored \in StoredStatements}]
          /\ portals \in [Portals -> {{}} \cup {{portal} : portal \in BoundPortals}]
      BY DEF SessionInv
    <2>2. \A x : Cardinality({x}) = 1
      BY FS_Singleton
    <2>3. ASSUME NEW n \in Names
          PROVE  Cardinality(statements[n]) =< 1 /\ statements[n] \subseteq StoredStatements
      <3>1. statements[n] = {} \/ \E stored \in StoredStatements : statements[n] = {stored}
        BY <2>1
      <3>2. Cardinality(statements[n]) \in {0, 1}
        BY <2>2, <3>1, FS_EmptySet, Zenon
      <3> QED
        BY <3>1, <3>2
    <2>4. ASSUME NEW p \in Portals
          PROVE  Cardinality(portals[p]) =< 1 /\ portals[p] \subseteq BoundPortals
      <3>1. portals[p] = {} \/ \E portal \in BoundPortals : portals[p] = {portal}
        BY <2>1
      <3>2. Cardinality(portals[p]) \in {0, 1}
        BY <2>2, <3>1, FS_EmptySet, Zenon
      <3> QED
        BY <3>1, <3>2
    <2>5. PreparedStatements \subseteq StoredStatements
      <3>1. \A portal \in BoundPortals : portal.statement \in StoredStatements
        BY DEF BoundPortals
      <3>2. UNION {portals[p] : p \in Portals} \subseteq BoundPortals
        BY <2>4
      <3>3. UNION {statements[n] : n \in Names} \subseteq StoredStatements
        BY <2>3
      <3> QED
        <4> DEFINE held == UNION {portals[p] : p \in Portals}
                   named == UNION {statements[n] : n \in Names}
        <4>1. PreparedStatements = named \cup {portal.statement : portal \in held}
          BY DEF PreparedStatements
        <4> HIDE DEF held, named
        <4> QED
          BY <3>1, <3>2, <3>3, <4>1 DEF held, named
    <2>6. \A stored \in PreparedStatements : stored.parameter_types \in Seq(DecodableTypes)
      BY <2>5 DEF StoredStatements
    <2> QED
      BY <2>3, <2>4, <2>6 DEF SessionTypeOK, SessionInv
  <1> QED
    BY <1>1, SessionInvariant, PTL

\* Bound values get the same validation as literals: what a portal hands over
\* is its plan with the decoded values in place, and it does so exactly when
\* lowering accepts that plan.
THEOREM BoundValuesAreLiterals == Spec => []BoundLikeLiterals
  <1>1. SessionInv => BoundLikeLiterals
    <2> SUFFICES ASSUME SessionInv, NEW portal \in reply.portal,
                        NEW parameters \in PortalValues(portal), ~portal.statement.text.catalog
                 PROVE  LET literal == bind_plan(portal.statement.text.plan, parameters)
                        IN  reply.answer = IF lower(literal, schema) THEN HandedOver(literal)
                                           ELSE Refused
      BY DEF BoundLikeLiterals
    <2>1. portal \in BoundPortals /\ reply.answer \in Answers(portal)
      BY DEF SessionInv
    <2>2. reply.answer = execute_bound(portal.statement.text, parameters)
      BY <2>1, OneAnswer
    <2>3. portal.statement.text \in Texts /\ Lowers(portal.statement.text)
      BY <2>1 DEF BoundPortals, StoredStatements, Announced
    <2> QED
      BY <2>1, <2>2, <2>3, PreparedExecution, LiteralsAreValidated
  <1> QED
    BY <1>1, SessionInvariant, PTL

\* The announced types are enough: parameters that decode under them, and are
\* not NULL where they are compared, are never refused.
THEOREM AnnouncedTypesAreEnough == Spec => []AnnouncedTypesSuffice
  <1>1. SessionInv => AnnouncedTypesSuffice
    <2> SUFFICES ASSUME SessionInv, NEW portal \in reply.portal,
                        PortalValues(portal) # {},
                        \/ portal.statement.text.catalog
                        \/ \A i \in ComparedIndexes(portal.statement.text.plan) :
                              portal.values[i] # NullParameter
                 PROVE  reply.answer # Refused
      BY DEF AnnouncedTypesSuffice
    <2>1. portal \in BoundPortals /\ reply.answer \in Answers(portal)
      BY DEF SessionInv
    <2>2. PICK parameters : parameters \in PortalValues(portal)
      OBVIOUS
    <2>3. reply.answer = execute_bound(portal.statement.text, parameters)
      BY <2>1, <2>2, OneAnswer
    <2>4. CASE portal.statement.text.catalog
      <3>1. portal.statement.parameter_types = <<>>
        BY <2>1, <2>4 DEF BoundPortals, StoredStatements, Announced
      <3>2. parameters = <<>>
        <4>1. DOMAIN portal.statement.parameter_types = {}
          BY <3>1
        <4>2. parameters = [i \in DOMAIN portal.statement.parameter_types |->
                  CHOOSE v \in DecodedAt(portal.statement.parameter_types, portal.values,
                                         portal.codes, i) : TRUE]
          BY <2>1, <2>2, OneDecoding
        <4>3. DOMAIN parameters = {} /\ parameters = [i \in {} |-> parameters[i]]
          BY <4>1, <4>2
        <4> QED
          BY <4>3
      <3>3. reply.answer = CatalogRows
        BY <2>3, <2>4, <3>2 DEF execute_bound
      <3> QED
        BY <3>3 DEF CatalogRows, Refused
    <2>5. CASE ~portal.statement.text.catalog
      <3>1. validate_bound_plan(bind_plan(portal.statement.text.plan, parameters), schema)
        BY <2>1, <2>2, <2>5, ParametersAreAccepted
      <3>2. reply.answer = HandedOver(bind_plan(portal.statement.text.plan, parameters))
        BY <2>1, <2>2, <2>3, <2>5, <3>1, PreparedExecution
      <3> QED
        BY <3>2 DEF HandedOver, Refused
    <2> QED
      BY <2>4, <2>5
  <1> QED
    BY <1>1, SessionInvariant, PTL

\* A portal that is not refused returns rows exactly when its description said
\* so, also when its text only mentions a catalog view.
THEOREM DescriptionsHold == Spec => []DescribedAsExecuted
  <1>1. SessionInv => DescribedAsExecuted
    <2> SUFFICES ASSUME SessionInv, NEW portal \in reply.portal, reply.answer # Refused
                 PROVE  (describe(portal.statement.text) = "rows")
                           = (reply.answer = CatalogRows \/ reply.answer.plan.kind = "Select")
      BY DEF DescribedAsExecuted
    <2> DEFINE text == portal.statement.text
    <2>1. portal \in BoundPortals /\ reply.answer \in Answers(portal)
      BY DEF SessionInv
    <2>2. text \in Texts
      BY <2>1 DEF BoundPortals, StoredStatements
    <2>3. PICK parameters \in PortalValues(portal) : reply.answer = execute_bound(text, parameters)
      BY <2>1 DEF Answers
    <2>4. CASE text.catalog /\ reply.answer = CatalogRows
      BY <2>4 DEF describe
    <2>5. CASE /\ ~text.catalog
               /\ Lowers(text)
               /\ reply.answer = HandedOver(bind_plan(text.plan, parameters))
      <3>1. reply.answer.plan.kind = text.plan.kind
        <4>1. bind_plan(text.plan, parameters).kind = text.plan.kind
          BY <2>2, <2>5, BoundPlans DEF Lowers
        <4>2. reply.answer.plan = bind_plan(text.plan, parameters)
          BY <2>5 DEF HandedOver
        <4> QED
          BY <4>1, <4>2
      <3>2. reply.answer # CatalogRows
        BY <2>5 DEF HandedOver, CatalogRows
      <3> QED
        BY <2>5, <3>1, <3>2 DEF describe
    <2> QED
      BY <2>2, <2>3, <2>4, <2>5, AnswerKinds
  <1> QED
    BY <1>1, SessionInvariant, PTL

=============================================================================
