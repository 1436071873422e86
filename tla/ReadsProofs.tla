------------------------------ MODULE ReadsProofs ------------------------------
(***************************************************************************)
(* Proofs about Reads for any samples, statements and documents.           *)
(*                                                                         *)
(* ReadsInv says that every stored document is one, that the profiles and  *)
(* the catalog are still those of the samples, and of an answer with rows  *)
(* that its plan reads known fields with literals that are not NULL and    *)
(* that the rows are those MongoDB found, none of which was written since. *)
(* Three invariants stand on it: of the types of what is stored            *)
(* (DocumentsFit), of the document of an INSERT (InsertedIsBuilt) and of   *)
(* the documents that an UPDATE or DELETE reached (WritesReach).           *)
(***************************************************************************)
EXTENDS Reads, MongoWritesProofs

-----------------------------------------------------------------------------
(* Definitions *)

\* The types of the state, and what never changes.
ReadsTyped ==
    /\ profiles = [c \in Collections |-> infer(Samples[c])]
    /\ catalog = project_public_collections(profiles)
    /\ DOMAIN documents = Collections
    /\ \A c \in Collections :
          /\ DOMAIN documents[c] \subseteq Ids
          /\ \A id \in DOMAIN documents[c] : IsDocument(documents[c][id])
    /\ reply.kind \in {"none", "error", "rows", "written"}

\* A filter that was lowered for a SELECT and translated.
ReadableFilter(filter, c) ==
    \A leaf \in Leaves(filter) :
        /\ leaf.path \in Fields(c)
        /\ ~is_literal_dotted_key(leaf.path)
        /\ \A value \in leaf.values : value.type # "Null"

Found(plan) ==
    {id \in DOMAIN documents[plan.collection] : Selects(plan, documents[plan.collection][id])}

\* The rows of an answer are documents its filter selects now.
RowsAreFound ==
    reply.kind = "rows" =>
        /\ reply.plan.collection \in Collections
        /\ ReadableFilter(reply.plan.filter, reply.plan.collection)
        /\ reply.plan.limit \subseteq Int
        /\ DOMAIN reply.rows \in Limited(reply.plan, Found(reply.plan))

ReadsInv == ReadsTyped /\ RowsAreFound

\* No name of a field inside a document has a dot in it.
PlainNames ==
    \A c \in Collections : \A id \in DOMAIN Samples[c] : \A path \in DOMAIN Samples[c][id] :
        PlainPath(path) \/ is_literal_dotted_key(path)

-----------------------------------------------------------------------------
(* Profiles *)

\* The fields of a profile are the paths of the samples.
LEMMA InferredFields ==
  ASSUME NEW samples
  PROVE  DOMAIN infer(samples) = UNION {DOMAIN samples[d] : d \in DOMAIN samples}
  BY DEF infer

\* They are paths, and plain when the names in the samples are.
LEMMA FieldsArePaths ==
  ASSUME ReadsTyped, NEW c \in Collections
  PROVE  /\ Fields(c) \subseteq Paths
         /\ PlainNames => \A path \in Fields(c) : PlainPath(path) \/ is_literal_dotted_key(path)
  <1>1. Fields(c) = UNION {DOMAIN Samples[c][id] : id \in DOMAIN Samples[c]}
    BY InferredFields DEF ReadsTyped, Fields
  <1> QED
    BY <1>1, SamplesAssumption DEF PlainNames, IsDocument, Collections

-----------------------------------------------------------------------------
(* Lowered statements *)

\* A name resolves to a field of the profile.
LEMMA ResolvedNames ==
  ASSUME NEW names, NEW c, NEW fields
  PROVE  resolve_field(names, c, fields) \subseteq fields
  BY DEF resolve_field

\* So does the column of an INSERT.
LEMMA ResolvedColumns ==
  ASSUME NEW identifier, NEW c, NEW fields
  PROVE  resolve_insert_column(identifier, c, fields) \subseteq fields
  BY ResolvedNames DEF resolve_insert_column

\* The leaves of a lowered filter are at fields of the profile.
LEMMA FilterFields ==
  ASSUME NEW c, NEW parsed, NEW filter \in parse_predicate(parsed, c), NEW leaf \in Leaves(filter)
  PROVE  leaf.path \in Fields(c)
  <1> DEFINE resolved(x) ==
                {Leaf(p, x.op, x.values) : p \in resolve_field(x.names, c, Fields(c))}
  <1>1. filter = {UNION {resolved(x) : x \in alternative} : alternative \in parsed}
    BY DEF parse_predicate
  <1>2. PICK some \in filter : leaf \in some
    BY DEF Leaves
  <1>3. PICK alternative \in parsed : some = UNION {resolved(x) : x \in alternative}
    BY <1>1
  <1>4. PICK x \in alternative : leaf \in resolved(x)
    <2> HIDE DEF resolved
    <2> QED
      BY <1>2, <1>3
  <1>5. PICK p \in resolve_field(x.names, c, Fields(c)) : leaf = Leaf(p, x.op, x.values)
    BY <1>4
  <1> QED
    BY <1>5, ResolvedNames DEF Leaf

\* What is known of a SELECT that was lowered.
LEMMA LoweredSelect ==
  ASSUME NEW s \in StatementsOf({"Select"}), NEW plan \in parse_sql_for_profiles(s)
  PROVE  /\ s \in Statements /\ s.collection \in Collections
         /\ plan.kind = "Select" /\ plan.collection = s.collection
         /\ plan.projection \in parse_projection(s.projection, s.collection)
         /\ plan.filter \in parse_predicate(s.filter, s.collection)
         /\ validate_read_predicate(plan.filter, profiles[s.collection])
         /\ plan.limit = {v.int : v \in s.limit}
         /\ plan.limit \subseteq Int
  <1>1. s \in Statements /\ s.kind = "Select" /\ s.collection \in Collections
    BY DEF StatementsOf, parse_sql_for_profiles
  <1>2. plan \in parse_select(s)
    BY <1>1 DEF parse_sql_for_profiles
  <1>3. PICK projection \in parse_projection(s.projection, s.collection),
             filter \in {f \in parse_predicate(s.filter, s.collection) :
                            /\ validate_read_predicate(f, profiles[s.collection])
                            /\ parse_limit(s.limit)} :
           plan = [kind |-> "Select", collection |-> s.collection, all |-> s.projection = <<>>,
                   projection |-> projection, filter |-> filter, limit |-> {v.int : v \in s.limit}]
    BY <1>2 DEF parse_select
  <1>4. s.limit \subseteq SqlValues
    BY <1>1, StatementsAssumption
  <1>5. {v.int : v \in s.limit} \subseteq Int
    BY <1>4 DEF SqlValues
  <1> QED
    BY <1>1, <1>3, <1>5

-----------------------------------------------------------------------------
(* Type correctness *)

\* It holds of the samples, before any statement.
LEMMA ReadsInit == Init => ReadsInv
  BY SamplesAssumption DEF Init, ReadsInv, ReadsTyped, RowsAreFound, EmptyReply, Collections

\* The rows of a SELECT are found at its only step.
LEMMA SelectStep ==
  ASSUME ReadsTyped, NEW s \in StatementsOf({"Select"}), execute_select(s)
  PROVE  ReadsInv'
  <1>1. PICK plan \in parse_sql_for_profiles(s) :
           /\ SelectErrors(plan) = {}
           /\ \E ids \in Limited(plan, {id \in DOMAIN documents[plan.collection] :
                                           Selects(plan, documents[plan.collection][id])}) :
                 reply' = [EmptyReply EXCEPT !.kind = "rows", !.plan = plan,
                                             !.fields = select_fields(plan),
                                             !.rows = [id \in ids |->
                                                Row(documents[plan.collection][id], plan)]]
           /\ UNCHANGED <<profiles, catalog, documents>>
    BY DEF execute_select
  <1>2. PICK ids \in Limited(plan, Found(plan)) :
           /\ reply'.kind = "rows" /\ reply'.plan = plan
           /\ DOMAIN reply'.rows = ids
    BY <1>1 DEF Found, EmptyReply
  <1>3. /\ plan.collection \in Collections /\ plan.limit \subseteq Int
        /\ plan.filter \in parse_predicate(s.filter, plan.collection)
        /\ validate_read_predicate(plan.filter, profiles[plan.collection])
    BY LoweredSelect
  <1>4. ReadableFilter(plan.filter, plan.collection)
    <2>1. ASSUME NEW leaf \in Leaves(plan.filter)
          PROVE  ~is_literal_dotted_key(leaf.path)
      BY <1>1 DEF SelectErrors, predicate_document_errors, LeafErrors
    <2>2. ASSUME NEW leaf \in Leaves(plan.filter), NEW value \in leaf.values
          PROVE  value.type # "Null"
      BY <1>3 DEF validate_read_predicate, validate_value
    <2>3. ASSUME NEW leaf \in Leaves(plan.filter)
          PROVE  leaf.path \in Fields(plan.collection)
      BY <1>3, FilterFields
    <2> QED
      BY <2>1, <2>2, <2>3 DEF ReadableFilter
  <1>5. ReadsTyped'
    BY <1>1, <1>2 DEF ReadsTyped
  <1>6. RowsAreFound'
    BY <1>1, <1>2, <1>3, <1>4
       DEF RowsAreFound, ReadableFilter, Found, Fields
  <1> QED
    BY <1>5, <1>6 DEF ReadsInv
\* What is known of an INSERT, UPDATE or DELETE that was lowered.
LEMMA LoweredWrite ==
  ASSUME ReadsTyped, NEW s \in Statements, s.kind # "Select",
         NEW plan \in parse_sql_for_profiles(s)
  PROVE  /\ plan.kind = s.kind /\ plan.collection = s.collection /\ s.collection \in Collections
         /\ lower_statement(plan, profiles[s.collection])
         /\ s.kind = "Insert" => /\ plan.columns \in Seq(Paths)
                                 /\ plan.rows = <<s.row>>
         /\ s.kind # "Insert" => /\ plan.filter \in parse_predicate(s.filter, s.collection)
                                 /\ plan.filter # {}
         /\ s.kind = "Update" => /\ DOMAIN plan.assignments = 1 .. Len(s.assignments)
                                 /\ Len(plan.assignments) = Len(s.assignments)
                                 /\ \A i \in DOMAIN plan.assignments :
                                       plan.assignments[i].path \in Paths
  <1> DEFINE c == s.collection
  <1>1. s.kind \in {"Insert", "Update", "Delete"}
    BY StatementsAssumption
  <1>2. c \in Collections
    BY DEF parse_sql_for_profiles
  <1>3. /\ s.kind = "Insert" => plan \in parse_insert(s)
        /\ s.kind = "Update" => plan \in parse_update(s)
        /\ s.kind = "Delete" => plan \in parse_delete(s)
        /\ lower_statement(plan, profiles[c])
    <2>1. CASE s.kind = "Insert"
      <3>1. plan \in {p \in parse_insert(s) : lower_statement(p, profiles[c])}
        BY <1>2, <2>1 DEF parse_sql_for_profiles
      <3> QED
        BY <2>1, <3>1
    <2>2. CASE s.kind = "Update"
      <3>1. plan \in {p \in parse_update(s) : lower_statement(p, profiles[c])}
        BY <1>2, <2>2 DEF parse_sql_for_profiles
      <3> QED
        BY <2>2, <3>1
    <2>3. CASE s.kind = "Delete"
      <3>1. plan \in {p \in parse_delete(s) : lower_statement(p, profiles[c])}
        BY <1>2, <2>3 DEF parse_sql_for_profiles
      <3> QED
        BY <2>3, <3>1
    <2> QED
      BY <1>1, <2>1, <2>2, <2>3
  <1>4. Fields(c) \subseteq Paths
    BY <1>2, FieldsArePaths
  <1>5. CASE s.kind = "Insert"
    <2> DEFINE found == [i \in DOMAIN s.columns |->
                            resolve_insert_column(s.columns[i], c, Fields(c))]
               chosen == [i \in DOMAIN found |-> CHOOSE path \in found[i] : TRUE]
    <2>1. /\ plan = [kind |-> "Insert", collection |-> c, rows |-> <<s.row>>, columns |-> chosen]
          /\ \A i \in DOMAIN found : found[i] # {}
      BY <1>3, <1>5 DEF parse_insert
    <2>2. s.columns \in Seq(Identifiers)
      BY <1>5, StatementsAssumption
    <2>3. DOMAIN chosen = 1 .. Len(s.columns) /\ Len(s.columns) \in Nat
      BY <2>2
    <2>4. \A i \in 1 .. Len(s.columns) : chosen[i] \in Paths
      <3>1. ASSUME NEW i \in 1 .. Len(s.columns)
            PROVE  chosen[i] \in Paths
        <4>1. found[i] # {} /\ found[i] \subseteq Fields(c) /\ i \in DOMAIN found
          BY <2>1, <2>3, ResolvedColumns
        <4>2. chosen[i] \in found[i]
          BY <4>1
        <4> QED
          BY <1>4, <4>1, <4>2
      <3> QED
        BY <3>1
    <2>5. chosen \in Seq(Paths)
      <3> DEFINE n == Len(s.columns)
      <3>1. n \in Nat /\ DOMAIN chosen = 1 .. n /\ \A i \in 1 .. n : chosen[i] \in Paths
        BY <2>3, <2>4
      <3>2. chosen = [i \in DOMAIN chosen |-> chosen[i]]
        OBVIOUS
      <3> HIDE DEF chosen, n
      <3>3. chosen \in [1 .. n -> Paths]
        BY <3>1, <3>2
      <3> QED
        BY <3>1, <3>3
    <2> QED
      BY <1>2, <1>3, <1>5, <2>1, <2>5
  <1>6. CASE s.kind = "Update"
    <2> DEFINE names == [i \in DOMAIN s.assignments |-> s.assignments[i].names]
               found == [i \in DOMAIN names |-> resolve_field(names[i], c, Fields(c))]
               paths == [i \in DOMAIN found |-> CHOOSE path \in found[i] : TRUE]
               list == [i \in DOMAIN paths |->
                           [path |-> paths[i], value |-> s.assignments[i].value]]
    <2>1. PICK filter \in parse_write_predicate(s.filter, c) :
             /\ plan = [kind |-> "Update", collection |-> c, filter |-> filter, assignments |-> list]
             /\ \A i \in DOMAIN found : found[i] # {}
      <3>1. PICK all \in ResolvedAll(names, c), filter \in parse_write_predicate(s.filter, c) :
               plan = [kind |-> "Update", collection |-> c, filter |-> filter,
                       assignments |-> [i \in DOMAIN all |->
                                           [path |-> all[i], value |-> s.assignments[i].value]]]
        <4> HIDE DEF names
        <4>1. plan \in parse_update(s)
          BY <1>3, <1>6
        <4>2. parse_update(s) =
                 {[kind |-> "Update", collection |-> c, filter |-> filter,
                   assignments |-> [i \in DOMAIN all |->
                                       [path |-> all[i], value |-> s.assignments[i].value]]] :
                     all \in ResolvedAll(names, c), filter \in parse_write_predicate(s.filter, c)}
          BY DEF parse_update, names
        <4> QED
          BY <4>1, <4>2
      <3>2. all = paths /\ \A i \in DOMAIN found : found[i] # {}
        <4> HIDE DEF names
        <4> QED
          BY <3>1 DEF ResolvedAll
      <3> HIDE DEF paths, found
      <3> QED
        BY <3>1, <3>2
    <2>2. s.assignments \in Seq([names : Names, value : SqlValues])
      BY <1>6, StatementsAssumption
    <2>3. DOMAIN list = 1 .. Len(s.assignments) /\ Len(s.assignments) \in Nat
      BY <2>2
    <2>4. ASSUME NEW i \in DOMAIN list
          PROVE  list[i].path \in Paths
      <3>1. i \in DOMAIN found /\ found[i] # {} /\ found[i] \subseteq Fields(c)
        BY <2>1, ResolvedNames
      <3>2. paths[i] \in found[i] /\ list[i].path = paths[i]
        BY <3>1
      <3> QED
        BY <1>4, <3>1, <3>2
    <2>5. Len(list) = Len(s.assignments)
      <3> DEFINE n == Len(s.assignments)
      <3>1. n \in Nat /\ DOMAIN list = 1 .. n
        BY <2>3
      <3> HIDE DEF list, n
      <3>2. Len(list) = n
        BY <3>1
      <3> QED
        BY <3>2 DEF n
    <2> QED
      <3> HIDE DEF list
      <3> QED
        BY <1>2, <1>3, <1>6, <2>1, <2>3, <2>4, <2>5 DEF parse_write_predicate
  <1>7. CASE s.kind = "Delete"
    BY <1>2, <1>3, <1>7 DEF parse_delete, parse_write_predicate
  <1> QED
    BY <1>1, <1>5, <1>6, <1>7

\* An INSERT that was lowered and translated, and what it does.
InsertPlan(plan) ==
    /\ plan.kind = "Insert" /\ plan.collection \in Collections
    /\ lower_statement(plan, profiles[plan.collection])
    /\ plan.columns \in Seq(Paths) /\ DOMAIN plan.rows = {1}
    /\ build_insert_document_errors(plan.columns, plan.rows[1]) = {}

Inserts(plan, new) ==
    /\ documents' = [documents EXCEPT ![plan.collection] =
          [id \in DOMAIN documents[plan.collection] \cup {new} |->
              IF id = new THEN build_insert_document(plan.columns, plan.rows[1])
              ELSE documents[plan.collection][id]]]
    /\ reply' = [EmptyReply EXCEPT !.kind = "written", !.plan = plan,
                                   !.touched = [id \in {new} |-> EmptyDocument]]
    /\ UNCHANGED <<profiles, catalog>>

\* Every INSERT that is executed is one of these.
LEMMA InsertEffect ==
  ASSUME ReadsTyped, NEW s \in StatementsOf({"Insert"}), execute_insert(s)
  PROVE  \E plan \in parse_sql_for_profiles(s), new \in Ids :
            InsertPlan(plan) /\ Inserts(plan, new)
  <1>1. s \in Statements /\ s.kind = "Insert"
    BY DEF StatementsOf
  <1>2. PICK plan \in parse_sql_for_profiles(s) :
           /\ TranslationErrors(plan) = {}
           /\ Ids # DOMAIN documents[plan.collection]
           /\ LET held == documents[plan.collection]
                  new  == CHOOSE id \in Ids \ DOMAIN held : TRUE
              IN  /\ documents' = [documents EXCEPT ![plan.collection] =
                       [id \in DOMAIN held \cup {new} |->
                           IF id = new THEN build_insert_document(plan.columns, plan.rows[1])
                           ELSE held[id]]]
                  /\ reply' = [EmptyReply EXCEPT !.kind = "written", !.plan = plan,
                                                 !.touched = [id \in {new} |-> EmptyDocument]]
           /\ UNCHANGED <<profiles, catalog>>
    BY DEF execute_insert
  <1>3. /\ plan.kind = "Insert" /\ plan.collection \in Collections /\ plan.columns \in Seq(Paths)
        /\ plan.rows = <<s.row>> /\ lower_statement(plan, profiles[plan.collection])
    BY <1>1, LoweredWrite
  <1>4. build_insert_document_errors(plan.columns, plan.rows[1]) = {}
    <2>1. Len(plan.rows) = 1 /\ DOMAIN plan.rows = 1 .. 1 /\ 1 \in DOMAIN plan.rows
      BY <1>3
    <2> QED
      BY <1>2, <1>3, <2>1, TranslatedRows
  <1>5. (CHOOSE id \in Ids \ DOMAIN documents[plan.collection] : TRUE) \in Ids
    BY <1>2, <1>3 DEF ReadsTyped
  <1>6. DOMAIN plan.rows = {1}
    BY <1>3
  <1> QED
    BY <1>2, <1>3, <1>4, <1>5, <1>6 DEF InsertPlan, Inserts

\* An INSERT stores documents.
LEMMA InsertStep ==
  ASSUME ReadsTyped, NEW s \in StatementsOf({"Insert"}), execute_insert(s)
  PROVE  ReadsInv'
  <1>1. PICK plan \in parse_sql_for_profiles(s), new \in Ids : InsertPlan(plan) /\ Inserts(plan, new)
    BY InsertEffect
  <1> DEFINE c == plan.collection
             built == build_insert_document(plan.columns, plan.rows[1])
  <1>2. c \in Collections /\ IsDocument(built)
    BY <1>1, InsertBuildsDocument DEF InsertPlan
  <1>3. ASSUME NEW d \in Collections
        PROVE  /\ DOMAIN documents'[d] \subseteq Ids
               /\ \A id \in DOMAIN documents'[d] : IsDocument(documents'[d][id])
    <2> HIDE DEF built
    <2>1. CASE d = c
      BY <1>1, <1>2, <2>1 DEF ReadsTyped, built, Inserts
    <2>2. CASE d # c
      BY <1>1, <2>2 DEF ReadsTyped, Inserts
    <2> QED
      BY <2>1, <2>2
  <1> QED
    BY <1>1, <1>3 DEF ReadsInv, ReadsTyped, RowsAreFound, Inserts, EmptyReply

\* An UPDATE or DELETE that was lowered and translated, and what it does to
\* some documents.
RewritePlan(plan) ==
    /\ plan.kind \in {"Update", "Delete"} /\ plan.collection \in Collections
    /\ lower_statement(plan, profiles[plan.collection])
    /\ TranslationErrors(plan) = {}
    /\ plan.filter # {} /\ ReadableFilter(plan.filter, plan.collection)
    /\ plan.kind = "Update" => /\ Len(plan.assignments) \in Nat
                              /\ DOMAIN plan.assignments = 1 .. Len(plan.assignments)
                              /\ \A i \in DOMAIN plan.assignments :
                                    plan.assignments[i].path \in Paths

Matched(plan) ==
    {id \in DOMAIN documents[plan.collection] : Matches(plan.filter, documents[plan.collection][id])}

Rewrites(plan, ids) ==
    /\ ids \subseteq Matched(plan)
    /\ \A id \in ids : \/ plan.kind = "Delete"
                      \/ ~CannotSet(plan.assignments, documents[plan.collection][id])
    /\ documents' = [documents EXCEPT ![plan.collection] =
          IF plan.kind = "Delete"
          THEN [id \in DOMAIN documents[plan.collection] \ ids |-> documents[plan.collection][id]]
          ELSE [id \in DOMAIN documents[plan.collection] |->
                   IF id \in ids
                   THEN update_document(plan.assignments, documents[plan.collection][id])
                   ELSE documents[plan.collection][id]]]
    /\ reply'.kind \in {"written", "error"} /\ reply'.plan = plan /\ reply'.rows = <<>>
    /\ reply'.kind = "written" => ids = Matched(plan)
    /\ reply'.touched = [id \in ids |-> documents[plan.collection][id]]
    /\ UNCHANGED <<profiles, catalog>>

\* Every one that is executed is one of these.
LEMMA UpdateOrDeleteEffect ==
  ASSUME ReadsTyped, NEW s \in StatementsOf({"Update", "Delete"}), execute_update_or_delete(s)
  PROVE  \E plan, ids : plan \in parse_sql_for_profiles(s) /\ RewritePlan(plan) /\ Rewrites(plan, ids)
  <1>1. s \in Statements /\ s.kind \in {"Update", "Delete"}
    BY DEF StatementsOf
  <1>2. PICK plan \in parse_sql_for_profiles(s) :
           /\ TranslationErrors(plan) = {}
           /\ LET held    == documents[plan.collection]
                  matched == {id \in DOMAIN held : Matches(plan.filter, held[id])}
                  able    == {id \in matched : \/ plan.kind = "Delete"
                                               \/ ~CannotSet(plan.assignments, held[id])}
              IN  \E ids \in SUBSET able :
                     /\ documents' = [documents EXCEPT ![plan.collection] =
                           IF plan.kind = "Delete" THEN [id \in DOMAIN held \ ids |-> held[id]]
                           ELSE [id \in DOMAIN held |->
                                    IF id \in ids THEN update_document(plan.assignments, held[id])
                                    ELSE held[id]]]
                     /\ reply' = [EmptyReply EXCEPT
                                    !.kind = IF ids = matched THEN "written" ELSE "error",
                                    !.plan = plan,
                                    !.touched = [id \in ids |-> held[id]]]
           /\ UNCHANGED <<profiles, catalog>>
    BY DEF execute_update_or_delete
  <1> DEFINE c == plan.collection
             held == documents[c]
  <1>3. /\ plan.kind = s.kind /\ c \in Collections /\ lower_statement(plan, profiles[c])
        /\ plan.filter \in parse_predicate(s.filter, c) /\ plan.filter # {}
        /\ s.kind = "Update" => /\ Len(plan.assignments) \in Nat
                                /\ DOMAIN plan.assignments = 1 .. Len(plan.assignments)
                                /\ \A i \in DOMAIN plan.assignments :
                                      plan.assignments[i].path \in Paths
    <2>1. s.kind = "Update" => Len(s.assignments) \in Nat
      BY <1>1, StatementsAssumption
    <2> QED
      BY <1>1, <2>1, LoweredWrite
  <1>4. PICK ids \in SUBSET Matched(plan) :
           /\ \A id \in ids : plan.kind = "Delete" \/ ~CannotSet(plan.assignments, held[id])
           /\ documents' = [documents EXCEPT ![c] =
                 IF plan.kind = "Delete" THEN [id \in DOMAIN held \ ids |-> held[id]]
                 ELSE [id \in DOMAIN held |->
                          IF id \in ids THEN update_document(plan.assignments, held[id])
                          ELSE held[id]]]
           /\ reply'.kind \in {"written", "error"} /\ reply'.plan = plan /\ reply'.rows = <<>>
           /\ reply'.kind = "written" => ids = Matched(plan)
           /\ reply'.touched = [id \in ids |-> held[id]]
    BY <1>2 DEF EmptyReply, Matched
  <1>5. ReadableFilter(plan.filter, c)
    <2>1. predicate_document_errors(plan.filter) = {}
      BY <1>1, <1>2, <1>3 DEF TranslationErrors
    <2>2. validate_write_predicate(plan.filter, profiles[c])
      BY <1>1, <1>3 DEF lower_statement
    <2>3. ASSUME NEW leaf \in Leaves(plan.filter)
          PROVE  /\ leaf.path \in Fields(c)
                 /\ ~is_literal_dotted_key(leaf.path)
                 /\ \A value \in leaf.values : value.type # "Null"
      <3>1. leaf.path \in Fields(c)
        BY <1>3, FilterFields
      <3>2. ~is_literal_dotted_key(leaf.path)
        BY <2>1 DEF predicate_document_errors, LeafErrors
      <3>3. \A value \in leaf.values : value.type # "Null"
        BY <2>2 DEF validate_write_predicate, validate_value
      <3> QED
        BY <3>1, <3>2, <3>3
    <2> QED
      BY <2>3 DEF ReadableFilter
  <1>6. RewritePlan(plan)
    BY <1>1, <1>2, <1>3, <1>5 DEF RewritePlan
  <1>7. Rewrites(plan, ids)
    BY <1>2, <1>4 DEF Rewrites
  <1> QED
    BY <1>6, <1>7

\* An UPDATE or DELETE keeps documents.
LEMMA UpdateOrDeleteStep ==
  ASSUME ReadsTyped, NEW s \in StatementsOf({"Update", "Delete"}), execute_update_or_delete(s)
  PROVE  ReadsInv'
  <1>1. PICK plan, ids : plan \in parse_sql_for_profiles(s) /\ RewritePlan(plan) /\ Rewrites(plan, ids)
    BY UpdateOrDeleteEffect
  <1> DEFINE c == plan.collection
             held == documents[c]
  <1>2. \A id \in DOMAIN held : IsDocument(held[id])
    BY <1>1 DEF ReadsTyped, RewritePlan
  <1>3. ASSUME NEW id \in ids, plan.kind # "Delete"
        PROVE  IsDocument(update_document(plan.assignments, held[id]))
    <2> DEFINE old == held[id]
               list == plan.assignments
    <2>1. /\ IsDocument(old) /\ ~CannotSet(list, old) /\ Len(list) \in Nat
          /\ DOMAIN list = 1 .. Len(list) /\ \A i \in DOMAIN list : list[i].path \in Paths
      BY <1>1, <1>2, <1>3 DEF RewritePlan, Rewrites, Matched
    <2> HIDE DEF old, list
    <2>2. IsDocument(update_document(list, old))
      BY <2>1, UpdateKeepsDocument
    <2> QED
      BY <2>2 DEF old, list
  <1>4. ASSUME NEW d \in Collections
        PROVE  /\ DOMAIN documents'[d] \subseteq Ids
               /\ \A id \in DOMAIN documents'[d] : IsDocument(documents'[d][id])
    <2>1. CASE d = c /\ plan.kind = "Delete"
      BY <1>1, <1>2, <2>1 DEF ReadsTyped, RewritePlan, Rewrites
    <2>2. CASE d = c /\ plan.kind # "Delete"
      <3>1. documents'[c] = [id \in DOMAIN held |->
                                IF id \in ids THEN update_document(plan.assignments, held[id])
                                ELSE held[id]]
        BY <1>1, <2>2 DEF ReadsTyped, RewritePlan, Rewrites
      <3> QED
        BY <1>1, <1>2, <1>3, <2>2, <3>1 DEF ReadsTyped, RewritePlan
    <2>3. CASE d # c
      BY <1>1, <2>3 DEF ReadsTyped, Rewrites
    <2> QED
      BY <2>1, <2>2, <2>3
  <1> QED
    BY <1>1, <1>4 DEF ReadsInv, ReadsTyped, RowsAreFound, Rewrites

\* A refused statement only changes the answer.
LEMMA RefuseStep ==
  ASSUME ReadsTyped, NEW s \in Statements, Refuse(s)
  PROVE  ReadsInv'
  <1>1. reply'.kind = "error" /\ UNCHANGED <<profiles, catalog, documents>>
    BY DEF Refuse, EmptyReply
  <1> QED
    BY <1>1 DEF ReadsInv, ReadsTyped, RowsAreFound

\* It holds in every state that statements lead to.
LEMMA ReadsInvariant == Spec => []ReadsInv
<1>1. ReadsInv /\ [Next]_vars => ReadsInv'
  <2> SUFFICES ASSUME ReadsInv, [Next]_vars PROVE ReadsInv'
    OBVIOUS
  <2>1. CASE \E s \in StatementsOf({"Select"}) : execute_select(s)
    BY <2>1, SelectStep DEF ReadsInv
  <2>2. CASE \E s \in StatementsOf({"Update", "Delete"}) : execute_update_or_delete(s)
    BY <2>2, UpdateOrDeleteStep DEF ReadsInv
  <2>3. CASE \E s \in StatementsOf({"Insert"}) : execute_insert(s)
    BY <2>3, InsertStep DEF ReadsInv
  <2>4. CASE \E s \in Statements : Refuse(s)
    BY <2>4, RefuseStep DEF ReadsInv
  <2>5. CASE UNCHANGED vars
    BY <2>5 DEF vars, ReadsInv, ReadsTyped, RowsAreFound, ReadableFilter, Found, Fields
  <2> QED
    BY <2>1, <2>2, <2>3, <2>4, <2>5 DEF Next
<1>2. QED
  BY <1>1, ReadsInit, PTL DEF Spec

\* The proxy's writes leave documents behind, whatever statements there are: no
\* value is stored inside another one that is not a document.
THEOREM WritesKeepDocuments == Spec => []ReadsTypeOK
<1>1. ReadsInv => ReadsTypeOK
  BY DEF ReadsInv, ReadsTyped, ReadsTypeOK, IsDocument
<1>2. QED
  BY <1>1, ReadsInvariant, PTL
-----------------------------------------------------------------------------
(* The rows of a SELECT *)

\* Up to NULL and missing fields MongoDB reads a leaf as SQL does, when it looks
\* for the field where the row shows it.
LEMMA LeafIsSql ==
  ASSUME NEW document, NEW leaf, MongoPath(leaf.path) = leaf.path,
         \A value \in leaf.values : value.type # "Null"
  PROVE  /\ predicate_document(leaf, document) /\ leaf.op \notin {"NotEqual", "NotIn"}
               => SqlTrue(leaf, document)
         /\ SqlTrue(leaf, document) /\ leaf.op # "IsNull" => predicate_document(leaf, document)
  <1> DEFINE found == {document[q] : q \in {leaf.path} \cap DOMAIN document}
             shown == {v \in found : v.type # "Null"}
             EqualsOne == \E f \in found, v \in leaf.values : BsonEqual(f, v)
  <1>1. ValuesAt(document, leaf.path) = found /\ value_at_path(document, leaf.path) = found
    BY DEF ValuesAt, value_at_path
  <1>2. \A x, y \in found : x = y
    OBVIOUS
  <1> HIDE DEF found
  <1>3. \A f \in found, v \in leaf.values : BsonEqual(f, v) => f \in shown
    BY DEF BsonEqual, Numeric
  <1>4. \A f \in found, v \in leaf.values : Compares(leaf.op, f, v) => f \in shown
    BY DEF Compares, Numeric
  <1>5. CASE leaf.op \in {"Equal", "In"}
    <2>1. predicate_document(leaf, document) <=> EqualsOne
      BY <1>1, <1>5, Zenon DEF predicate_document
    <2>2. SqlTrue(leaf, document) <=> \E x \in shown, v \in leaf.values : BsonEqual(x, v)
      <3>1. leaf.op # "IsNull" /\ leaf.op # "IsNotNull"
        BY <1>5
      <3> QED
        BY <1>1, <1>5, <3>1, Zenon DEF SqlTrue
    <2> QED
      BY <1>3, <1>5, <2>1, <2>2
  <1>6. CASE leaf.op \in {"NotEqual", "NotIn"}
    <2>1. predicate_document(leaf, document) <=> ~EqualsOne
      <3>1. leaf.op \notin {"Equal", "In"}
        BY <1>6
      <3> QED
        BY <1>1, <1>6, <3>1, Zenon DEF predicate_document
    <2>2. SqlTrue(leaf, document) <=> \E x \in shown : \A v \in leaf.values : ~BsonEqual(x, v)
      <3>1. leaf.op # "IsNull" /\ leaf.op # "IsNotNull" /\ leaf.op \notin {"Equal", "In"}
        BY <1>6
      <3> QED
        BY <1>1, <1>6, <3>1, Zenon DEF SqlTrue
    <2> QED
      BY <1>2, <1>6, <2>1, <2>2
  <1>7. CASE leaf.op = "IsNull"
    <2>1. predicate_document(leaf, document) <=> \E f \in found : f.type = "Null"
      <3>1. leaf.op \notin {"Equal", "In"} /\ leaf.op \notin {"NotEqual", "NotIn"}
        BY <1>7
      <3> QED
        BY <1>1, <1>7, <3>1, Zenon DEF predicate_document
    <2>2. SqlTrue(leaf, document) <=> shown = {}
      BY <1>1, <1>7, Zenon DEF SqlTrue
    <2> QED
      BY <1>2, <1>7, <2>1, <2>2
  <1>8. CASE leaf.op = "IsNotNull"
    <2>1. predicate_document(leaf, document) <=> \E f \in found : f.type # "Null"
      <3>1. leaf.op \notin {"Equal", "In"} /\ leaf.op \notin {"NotEqual", "NotIn"} /\ leaf.op # "IsNull"
        BY <1>8
      <3> QED
        BY <1>1, <1>8, <3>1, Zenon DEF predicate_document
    <2>2. SqlTrue(leaf, document) <=> shown # {}
      <3>1. leaf.op # "IsNull"
        BY <1>8
      <3> QED
        BY <1>1, <1>8, <3>1, Zenon DEF SqlTrue
    <2> QED
      BY <1>8, <2>1, <2>2
  <1>9. CASE /\ leaf.op \notin {"Equal", "In"} /\ leaf.op \notin {"NotEqual", "NotIn"}
             /\ leaf.op # "IsNull" /\ leaf.op # "IsNotNull"
    <2>1. predicate_document(leaf, document)
             <=> \E f \in found, v \in leaf.values : Compares(leaf.op, f, v)
      BY <1>1, <1>9, Zenon DEF predicate_document
    <2>2. SqlTrue(leaf, document)
             <=> \E x \in shown, v \in leaf.values : Compares(leaf.op, x, v)
      BY <1>1, <1>9, Zenon DEF SqlTrue
    <2> HIDE DEF shown
    <2>3. shown \subseteq found
      BY DEF shown
    <2> QED
      BY <1>4, <1>9, <2>1, <2>2, <2>3
  <1> QED
    BY <1>5, <1>6, <1>7, <1>8, <1>9

\* A filter of such leaves selects what the WHERE clause does.
LEMMA FilterIsSql ==
  ASSUME NEW document, NEW filter,
         \A leaf \in Leaves(filter) : /\ MongoPath(leaf.path) = leaf.path
                                      /\ \A value \in leaf.values : value.type # "Null"
  PROVE  LET selected == filter = {} \/ Matches(filter, document)
         IN  /\ selected => Uses(filter, {"NotEqual", "NotIn"}) \/ SqlSelects(filter, document)
             /\ SqlSelects(filter, document) /\ ~Uses(filter, {"IsNull"}) => selected
  <1>1. ASSUME NEW alternative \in filter, NEW leaf \in alternative
        PROVE  /\ leaf \in Leaves(filter)
               /\ predicate_document(leaf, document) /\ leaf.op \notin {"NotEqual", "NotIn"}
                     => SqlTrue(leaf, document)
               /\ SqlTrue(leaf, document) /\ leaf.op # "IsNull" => predicate_document(leaf, document)
    <2>1. leaf \in Leaves(filter)
      BY DEF Leaves
    <2> QED
      BY <2>1, LeafIsSql
  <1>2. ASSUME filter # {}, Matches(filter, document), ~Uses(filter, {"NotEqual", "NotIn"})
        PROVE  SqlSelects(filter, document)
    BY <1>1, <1>2 DEF Matches, SqlSelects, Uses
  <1>3. ASSUME filter # {}, SqlSelects(filter, document), ~Uses(filter, {"IsNull"})
        PROVE  Matches(filter, document)
    BY <1>1, <1>3 DEF Matches, SqlSelects, Uses
  <1> QED
    BY <1>2, <1>3 DEF SqlSelects

\* MongoDB looks where the filter names a field, when no dot is inside a name.
LEMMA ReadableIsKept ==
  ASSUME PlainNames, ReadsTyped, NEW c \in Collections, NEW filter, ReadableFilter(filter, c),
         NEW leaf \in Leaves(filter)
  PROVE  /\ MongoPath(leaf.path) = leaf.path
         /\ \A value \in leaf.values : value.type # "Null"
  <1>1. leaf.path \in Paths /\ PlainPath(leaf.path)
    BY FieldsArePaths DEF ReadableFilter
  <1> QED
    BY <1>1, PlainPathIsKept DEF ReadableFilter

\* A limit of more than zero is not exceeded, and without one nothing is left out.
LEMMA LimitIsKept ==
  ASSUME NEW plan, NEW found, IsFiniteSet(found), plan.limit \subseteq Int,
         NEW ids \in Limited(plan, found)
  PROVE  /\ ids \subseteq found
         /\ plan.limit = {} => ids = found
         /\ \A n \in plan.limit \ {0} : Cardinality(ids) =< n
  <1>1. Cardinality(found) \in Nat
    BY FS_CardinalityType
  <1>2. CASE plan.limit \subseteq {0}
    BY <1>2 DEF Limited
  <1>3. CASE ~(plan.limit \subseteq {0})
    <2>1. /\ ids \subseteq found
          /\ \A n \in plan.limit : Cardinality(ids) = IF n < Cardinality(found) THEN n
                                                      ELSE Cardinality(found)
      BY <1>3 DEF Limited
    <2>2. ASSUME NEW n \in plan.limit
          PROVE  Cardinality(ids) =< n
      BY <1>1, <2>1
    <2> QED
      BY <1>3, <2>1, <2>2
  <1> QED
    BY <1>2, <1>3

\* Up to its reading of NULL and missing fields a SELECT returns what its WHERE
\* clause selects, for every table whose names of fields inside documents have no
\* dots: MongoDB looks for such a field somewhere else.
THEOREM SelectsAreSql == ASSUME PlainNames PROVE Spec => []RowsAreSql
<1>1. ASSUME ReadsInv PROVE RowsAreSql
  <2> DEFINE plan == reply.plan
             c == plan.collection
             held == documents[c]
             filter == plan.filter
  <2> SUFFICES ASSUME reply.kind = "rows"
               PROVE  /\ \A id \in DOMAIN reply.rows :
                            Uses(filter, {"NotEqual", "NotIn"}) \/ SqlSelects(filter, held[id])
                      /\ \A id \in DOMAIN held :
                            SqlSelects(filter, held[id]) /\ ~Uses(filter, {"IsNull"}) /\ plan.limit = {}
                                => id \in DOMAIN reply.rows
                      /\ \A n \in plan.limit \ {0} : Cardinality(DOMAIN reply.rows) =< n
    BY DEF RowsAreSql
  <2>1. /\ c \in Collections /\ ReadableFilter(filter, c) /\ plan.limit \subseteq Int
        /\ DOMAIN reply.rows \in Limited(plan, Found(plan))
    BY <1>1 DEF ReadsInv, RowsAreFound
  <2>2. \A leaf \in Leaves(filter) : /\ MongoPath(leaf.path) = leaf.path
                                     /\ \A value \in leaf.values : value.type # "Null"
    BY <1>1, <2>1, ReadableIsKept DEF ReadsInv
  <2>3. \A id : /\ Selects(plan, held[id]) =>
                      Uses(filter, {"NotEqual", "NotIn"}) \/ SqlSelects(filter, held[id])
                /\ SqlSelects(filter, held[id]) /\ ~Uses(filter, {"IsNull"}) => Selects(plan, held[id])
    BY <2>2, FilterIsSql DEF Selects
  <2>4. IsFiniteSet(Found(plan))
    <3>1. Found(plan) \subseteq Ids
      BY <1>1, <2>1 DEF ReadsInv, ReadsTyped, Found
    <3> QED
      BY <3>1, IdsAssumption, FS_Subset
  <2>5. /\ DOMAIN reply.rows \subseteq Found(plan)
        /\ plan.limit = {} => DOMAIN reply.rows = Found(plan)
        /\ \A n \in plan.limit \ {0} : Cardinality(DOMAIN reply.rows) =< n
    BY <2>1, <2>4, LimitIsKept
  <2> QED
    BY <2>3, <2>5 DEF Found
<1>2. ReadsInv => RowsAreSql
  BY <1>1
<1>3. QED
  BY <1>2, ReadsInvariant, PTL

-----------------------------------------------------------------------------
(* The rows of an UPDATE or DELETE *)

\* The documents of the last one were those that MongoDB matched, all of them if
\* it was reported as done.
WritesReach ==
    reply.plan.kind \in {"Update", "Delete"} =>
        /\ reply.plan.collection \in Collections
        /\ reply.plan.filter # {} /\ ReadableFilter(reply.plan.filter, reply.plan.collection)
        /\ \A id \in DOMAIN reply.touched : Matches(reply.plan.filter, reply.touched[id])
        /\ reply.kind = "written" =>
              \A id \in DOMAIN documents[reply.plan.collection] \ DOMAIN reply.touched :
                  ~Matches(reply.plan.filter, documents[reply.plan.collection][id])

\* Only an UPDATE or DELETE has to be looked at.
LEMMA WritesReachStep ==
  ASSUME ReadsTyped, WritesReach, [Next]_vars
  PROVE  WritesReach'
  <1>1. ASSUME reply'.plan.kind \notin {"Update", "Delete"}
        PROVE  WritesReach'
    BY <1>1 DEF WritesReach
  <1>2. ASSUME NEW s \in StatementsOf({"Select"}), execute_select(s)
        PROVE  WritesReach'
    <2>1. PICK plan \in parse_sql_for_profiles(s) : reply'.plan = plan
      BY <1>2 DEF execute_select, EmptyReply
    <2>2. plan.kind = "Select"
      BY LoweredSelect
    <2> QED
      BY <1>1, <2>1, <2>2
  <1>3. ASSUME NEW s \in StatementsOf({"Insert"}), execute_insert(s)
        PROVE  WritesReach'
    <2>1. PICK plan \in parse_sql_for_profiles(s), new \in Ids : InsertPlan(plan) /\ Inserts(plan, new)
      BY <1>3, InsertEffect
    <2>2. reply'.plan.kind = "Insert"
      BY <2>1 DEF InsertPlan, Inserts, EmptyReply
    <2> QED
      BY <1>1, <2>2
  <1>4. ASSUME NEW s \in StatementsOf({"Update", "Delete"}), execute_update_or_delete(s)
        PROVE  WritesReach'
    <2>1. PICK plan, ids : plan \in parse_sql_for_profiles(s) /\ RewritePlan(plan) /\ Rewrites(plan, ids)
      BY <1>4, UpdateOrDeleteEffect
    <2> DEFINE c == plan.collection
               held == documents[c]
    <2>2. /\ c \in Collections /\ c \in DOMAIN documents
          /\ plan.filter # {} /\ ReadableFilter(plan.filter, c)
      BY <2>1 DEF RewritePlan, ReadsTyped
    <2>3. /\ reply'.plan = plan /\ profiles' = profiles
          /\ reply'.touched = [id \in ids |-> held[id]]
          /\ \A id \in ids : Matches(plan.filter, held[id])
          /\ reply'.kind = "written" => ids = Matched(plan)
      BY <2>1 DEF Rewrites, Matched
    <2>4. ReadableFilter(plan.filter, c)'
      BY <2>2, <2>3 DEF ReadableFilter, Fields
    <2>5. ASSUME NEW id \in DOMAIN documents'[c] \ ids
          PROVE  id \in DOMAIN held /\ documents'[c][id] = held[id]
      <3>1. CASE plan.kind = "Delete"
        BY <2>1, <2>2, <2>5, <3>1 DEF Rewrites
      <3>2. CASE plan.kind # "Delete"
        BY <2>1, <2>2, <2>5, <3>2 DEF Rewrites
      <3> QED
        BY <3>1, <3>2
    <2>6. ASSUME reply'.kind = "written", NEW id \in DOMAIN documents'[c] \ ids
          PROVE  ~Matches(plan.filter, documents'[c][id])
      BY <2>3, <2>5, <2>6 DEF Matched
    <2> QED
      BY <2>2, <2>3, <2>4, <2>6 DEF WritesReach
  <1>5. ASSUME NEW s \in Statements, Refuse(s)
        PROVE  WritesReach'
    BY <1>1, <1>5 DEF Refuse, EmptyReply, NoPlan
  <1>6. ASSUME UNCHANGED vars
        PROVE  WritesReach'
    BY <1>6 DEF vars, WritesReach, ReadableFilter, Fields
  <1> QED
    BY <1>2, <1>3, <1>4, <1>5, <1>6 DEF Next

\* mongo-executor/src/lib.rs:146: but for <>, NOT IN and IS NULL, an UPDATE or
\* DELETE that is done reached the rows of its WHERE clause and no others, and one
\* that stopped half way no others, where no name of a nested field has a dot in it.
THEOREM WritesReachTheirRows == ASSUME PlainNames PROVE Spec => []WritesAreSql
<1>1. ASSUME ReadsInv, WritesReach PROVE WritesAreSql
  <2> DEFINE c == reply.plan.collection
             filter == reply.plan.filter
  <2> SUFFICES ASSUME reply.plan.kind \in {"Update", "Delete"}
               PROVE  /\ \A id \in DOMAIN reply.touched :
                            Uses(filter, {"NotEqual", "NotIn"}) \/ SqlSelects(filter, reply.touched[id])
                      /\ reply.kind = "written" /\ ~Uses(filter, {"IsNull"}) =>
                            \A id \in DOMAIN documents[c] \ DOMAIN reply.touched :
                                ~SqlSelects(filter, documents[c][id])
    BY DEF WritesAreSql
  <2>1. c \in Collections /\ filter # {} /\ ReadableFilter(filter, c)
    BY <1>1 DEF WritesReach
  <2>2. \A leaf \in Leaves(filter) : /\ MongoPath(leaf.path) = leaf.path
                                     /\ \A value \in leaf.values : value.type # "Null"
    BY <1>1, <2>1, ReadableIsKept DEF ReadsInv
  <2>3. \A document :
           /\ Matches(filter, document) =>
                 Uses(filter, {"NotEqual", "NotIn"}) \/ SqlSelects(filter, document)
           /\ SqlSelects(filter, document) /\ ~Uses(filter, {"IsNull"}) => Matches(filter, document)
    BY <2>1, <2>2, FilterIsSql
  <2> QED
    BY <1>1, <2>3 DEF WritesReach
<1>2. Init => WritesReach
  BY DEF Init, WritesReach, EmptyReply, NoPlan
<1>3. ReadsInv /\ WritesReach /\ [Next]_vars => WritesReach'
  BY WritesReachStep DEF ReadsInv
<1>4. ReadsInv /\ WritesReach => WritesAreSql
  BY <1>1
<1>5. QED
  BY <1>2, <1>3, <1>4, ReadsInvariant, PTL DEF Spec

-----------------------------------------------------------------------------
(* Names *)

\* A list of one item.
LEMMA OneItem ==
  ASSUME NEW S, NEW s \in Seq(S), Len(s) = 1
  PROVE  s[1] \in S /\ s = <<s[1]>>
  <1>1. DOMAIN s = 1 .. 1 /\ s = [i \in 1 .. 1 |-> s[i]] /\ s[1] \in S
    <2>1. DOMAIN s = 1 .. Len(s) /\ s \in [1 .. Len(s) -> S]
      BY LenProperties, Zenon
    <2>2. DOMAIN s = 1 .. 1 /\ s \in [1 .. 1 -> S]
      BY <2>1, Zenon
    <2>3. 1 \in 1 .. 1
      OBVIOUS
    <2> QED
      BY <2>2, <2>3, Zenon
  <1>2. \A i \in 1 .. 1 : s[i] = s[1]
    OBVIOUS
  <1>3. s = [i \in 1 .. 1 |-> s[1]]
    BY <1>1, <1>2, Zenon
  <1>4. <<s[1]>> = [i \in 1 .. 1 |-> s[1]]
    OBVIOUS
  <1> QED
    BY <1>1, <1>3, <1>4, Zenon

\* Lists that begin with a given item.
LEMMA OneItemPrefix ==
  ASSUME NEW S, NEW s \in Seq(S), NEW t \in Seq(S), Len(s) = 1
  PROVE  IsPrefix(s, t) <=> Len(t) >= 1 /\ t[1] = s[1]
  <1>1. Len(t) \in Nat
    OBVIOUS
  <1>2. ASSUME Len(t) >= 1
        PROVE  SubSeq(s, 1, 1) = SubSeq(t, 1, 1) <=> t[1] = s[1]
    <2> DEFINE a == SubSeq(s, 1, 1)
               b == SubSeq(t, 1, 1)
    <2>1. a \in Seq(S) /\ Len(a) = 1 /\ a[1] = s[1]
      OBVIOUS
    <2>2. b \in Seq(S) /\ Len(b) = 1 /\ b[1] = t[1]
      BY <1>1, <1>2
    <2> HIDE DEF a, b
    <2>3. a = <<s[1]>> /\ b = <<t[1]>>
      BY <2>1, <2>2, OneItem
    <2>4. a = b <=> t[1] = s[1]
      BY <2>1, <2>2, <2>3
    <2> QED
      BY <2>4 DEF a, b
  <1> QED
    BY <1>1, <1>2 DEF IsPrefix

\* Putting an item before a list and taking it off again.
LEMMA TailOfConcat ==
  ASSUME NEW S, NEW one \in Seq(S), Len(one) = 1, NEW rest \in Seq(S)
  PROVE  IsPrefix(one, one \o rest) /\ Tail(one \o rest) = rest
  <1> DEFINE long == one \o rest
             n == Len(rest)
             tail == Tail(long)
  <1>1. /\ long \in Seq(S) /\ Len(long) = Len(one) + n
        /\ \A i \in 1 .. Len(one) + n : long[i] = IF i <= Len(one) THEN one[i]
                                                  ELSE rest[i - Len(one)]
    BY ConcatProperties
  <1>2. n \in Nat /\ rest = [i \in 1 .. n |-> rest[i]]
    OBVIOUS
  <1> HIDE DEF long
  <1>3. Len(long) = n + 1 /\ long[1] = one[1] /\ \A i \in 1 .. n : long[i + 1] = rest[i]
    <2> HIDE DEF n
    <2>1. /\ Len(long) = 1 + n
          /\ \A i \in 1 .. 1 + n : long[i] = IF i <= 1 THEN one[i] ELSE rest[i - 1]
      BY <1>1, Zenon
    <2> HIDE DEF long
    <2>2. long[1] = one[1]
      <3>1. 1 \in 1 .. 1 + n /\ 1 <= 1
        BY <1>2
      <3> QED
        BY <2>1, <3>1, Zenon
    <2>3. ASSUME NEW i \in 1 .. n PROVE long[i + 1] = rest[i]
      <3>1. i + 1 \in 1 .. 1 + n /\ ~(i + 1 <= 1) /\ (i + 1) - 1 = i
        BY <1>2
      <3>2. long[i + 1] = rest[(i + 1) - 1]
        BY <2>1, <3>1
      <3> QED
        BY <3>1, <3>2
    <2> QED
      BY <1>2, <2>1, <2>2, <2>3
  <1>4. IsPrefix(one, long)
    <2> HIDE DEF n
    <2>1. Len(long) >= 1
      BY <1>2, <1>3
    <2> QED
      BY <1>1, <1>3, <2>1, OneItemPrefix
  <1>5. tail \in Seq(S) /\ Len(tail) = n /\ \A i \in 1 .. n : tail[i] = long[i + 1]
    <2> HIDE DEF n
    <2>1. long # <<>>
      BY <1>2, <1>3
    <2> QED
      BY <1>1, <1>2, <1>3, <2>1, HeadTailProperties
  <1>6. tail = rest
    <2> HIDE DEF tail
    <2>1. tail = [i \in 1 .. n |-> tail[i]]
      BY <1>5
    <2> QED
      BY <1>2, <1>3, <1>5, <2>1
  <1> QED
    BY <1>4, <1>6 DEF long

\* The values of identifiers that spell a path are the path.
LEMMA SpelledBack ==
  ASSUME NEW path \in Paths, NEW S, NEW list, list = [i \in DOMAIN path |-> list[i]],
         \A i \in DOMAIN path : list[i] \in S /\ list[i].value = path[i]
  PROVE  /\ list \in Seq(S) /\ Len(list) = Len(path)
         /\ [i \in DOMAIN list |-> list[i].value] = path
  <1> DEFINE n == Len(path)
  <1>1. n \in Nat /\ DOMAIN path = 1 .. n /\ path = [i \in 1 .. n |-> path[i]]
    BY DEF Paths
  <1> HIDE DEF n
  <1>2. DOMAIN list = 1 .. n /\ list \in [1 .. n -> S]
    BY <1>1
  <1>3. list \in Seq(S) /\ Len(list) = n
    BY <1>1, <1>2
  <1> QED
    BY <1>1, <1>2, <1>3 DEF n

\* The ways to name a field: each name quoted, behind the bare name of its
\* collection, and by the name that the catalog lists.
Quoted(path) == Spelled(path, TRUE)
Qualified(c, path) == <<Ident(c, FALSE)>> \o Spelled(path, FALSE)
Listed(path) == Ident(display_name(path), TRUE)

\* Spelling a field gives its path back, with or without the collection.
LEMMA SpelledResolves ==
  ASSUME NEW c, NEW fields, NEW path \in fields, path \in Paths
  PROVE  /\ resolve_field(Quoted(path), c, fields) = {path}
         /\ resolve_field(Qualified(c, path), c, fields) = {path}
  <1> DEFINE first == Ident(c, FALSE)
             qualifier == <<first>>
             quotes == Spelled(path, TRUE)
             bare == Spelled(path, FALSE)
             all == {first} \cup {quotes[i] : i \in DOMAIN path} \cup {bare[i] : i \in DOMAIN path}
  <1>1. /\ quotes = [i \in DOMAIN path |-> quotes[i]]
        /\ \A i \in DOMAIN path : quotes[i].value = path[i] /\ quotes[i] # first
    BY DEF Spelled, Ident
  <1>2. /\ bare = [i \in DOMAIN path |-> bare[i]]
        /\ \A i \in DOMAIN path : bare[i].value = path[i]
    BY DEF Spelled, Ident
  <1> HIDE DEF first, quotes, bare
  <1>3. /\ quotes \in Seq(all) /\ Len(quotes) = Len(path)
        /\ [i \in DOMAIN quotes |-> quotes[i].value] = path
    <2>1. \A i \in DOMAIN path : quotes[i] \in all /\ quotes[i].value = path[i]
      BY <1>1
    <2> HIDE DEF all
    <2> QED
      BY <1>1, <2>1, SpelledBack
  <1>4. /\ bare \in Seq(all) /\ [i \in DOMAIN bare |-> bare[i].value] = path
    <2>1. \A i \in DOMAIN path : bare[i] \in all /\ bare[i].value = path[i]
      BY <1>2
    <2> HIDE DEF all
    <2> QED
      BY <1>2, <2>1, SpelledBack
  <1>5. qualifier \in Seq(all) /\ Len(qualifier) = 1 /\ qualifier[1] = first
    <2>1. first \in all
      OBVIOUS
    <2> HIDE DEF all
    <2> QED
      BY <2>1
  <1> HIDE DEF all, qualifier
  <1>6. ~IsPrefix(qualifier, quotes)
    <2>1. Len(path) >= 1 => 1 \in DOMAIN path
      BY DEF Paths
    <2>2. IsPrefix(qualifier, quotes) <=> Len(quotes) >= 1 /\ quotes[1] = qualifier[1]
      BY <1>3, <1>5, OneItemPrefix
    <2> QED
      BY <1>1, <1>3, <1>5, <2>1, <2>2
  <1>7. IsPrefix(qualifier, qualifier \o bare) /\ Tail(qualifier \o bare) = bare
    BY <1>4, <1>5, TailOfConcat
  <1>8. resolve_field(quotes, c, fields) = {path}
    <2>1. resolve_field(quotes, c, fields) = {[i \in DOMAIN quotes |-> quotes[i].value]} \cap fields
      BY <1>6 DEF resolve_field, qualifier, first
    <2> QED
      BY <1>3, <2>1
  <1>9. resolve_field(qualifier \o bare, c, fields) = {path}
    <2>1. resolve_field(qualifier \o bare, c, fields)
             = {[i \in DOMAIN bare |-> bare[i].value]} \cap fields
      BY <1>7 DEF resolve_field, qualifier, first
    <2> QED
      BY <1>4, <2>1
  <1> QED
    BY <1>8, <1>9 DEF Quoted, Qualified, quotes, qualifier, bare, first

\* The name that the catalog lists for a field reaches a field of that name.
LEMMA ListedNameReaches ==
  ASSUME NEW c, NEW fields \in SUBSET Paths, NEW path \in fields,
         PlainPath(path) \/ is_literal_dotted_key(path)
  PROVE  /\ resolve_insert_column(Listed(path), c, fields) # {}
         /\ \A q \in resolve_insert_column(Listed(path), c, fields) :
               q \in fields /\ display_name(q) = display_name(path)
  <1> DEFINE name == display_name(path)
             exact == top_level(name)
             nested == MongoPath(exact)
             reached == resolve_insert_column(Listed(path), c, fields)
  <1>1. name \in Seq(STRING) /\ path \in Seq(Seq(STRING))
    BY DisplayNameType DEF Paths
  <1>2. display_name(exact) = name
    BY <1>1, TopLevelName
  <1>3. Listed(path).value = name
    BY DEF Listed, Ident
  <1>4. PlainPath(path) => nested = path
    BY PlainPathIsSpelled
  <1>5. is_literal_dotted_key(path) => exact = path
    <2> SUFFICES ASSUME Len(path) = 1 PROVE exact = path
      BY DEF is_literal_dotted_key
    <2>1. path = <<path[1]>> /\ path[1] \in Seq(STRING)
      BY <1>1, OneItem
    <2>2. name = path[1]
      BY <2>1, TopLevelName DEF top_level
    <2> QED
      BY <2>1, <2>2 DEF top_level
  <1> SUFFICES reached # {} /\ \A q \in reached : q \in fields /\ display_name(q) = name
    OBVIOUS
  <1> HIDE DEF name, nested
  <1>6. CASE exact \in fields
    BY <1>2, <1>3, <1>6 DEF resolve_insert_column
  <1>7. CASE exact \notin fields
    <2>1. nested = path
      BY <1>4, <1>5, <1>7
    <2>2. reached = {nested}
      BY <1>3, <1>7, <2>1 DEF resolve_insert_column, nested
    <2> QED
      BY <2>1, <2>2 DEF name
  <1> QED
    BY <1>6, <1>7

\* Fields whose name no other field has.
LEMMA NameIsUnique ==
  ASSUME ReadsTyped, NEW c \in Collections, NEW path \in Fields(c), NEW q \in Fields(c),
         ~profiles[c][path].has_dotted_key_collision, display_name(q) = display_name(path)
  PROVE  q = path
  <1> DEFINE samples == Samples[c]
             fields == UNION {DOMAIN samples[d] : d \in DOMAIN samples}
  <1>1. Fields(c) = fields /\ profiles[c] = infer(samples)
    BY InferredFields DEF ReadsTyped, Fields
  <1>2. infer(samples)[path].has_dotted_key_collision <=>
           \E other \in fields \ {path} : display_name(other) = display_name(path)
    BY <1>1 DEF infer
  <1> QED
    BY <1>1, <1>2

\* Every field can be named, whatever the collection and the other fields are
\* called, unless the name of a field inside a document has a dot in it.
THEOREM FieldsAreNamed == ASSUME PlainNames PROVE Spec => []FieldsCanBeNamed
<1>1. ASSUME ReadsInv PROVE FieldsCanBeNamed
  <2>1. ReadsTyped
    BY <1>1 DEF ReadsInv
  <2>2. ASSUME NEW c \in Collections, NEW p \in Fields(c)
        PROVE  LET reached == resolve_insert_column(Ident(display_name(p), TRUE), c, Fields(c))
               IN  /\ resolve_field(Spelled(p, TRUE), c, Fields(c)) = {p}
                   /\ resolve_field(<<Ident(c, FALSE)>> \o Spelled(p, FALSE), c, Fields(c)) = {p}
                   /\ reached # {} /\ \A q \in reached : display_name(q) = display_name(p)
                   /\ ~profiles[c][p].has_dotted_key_collision => reached = {p}
    <3> DEFINE fields == Fields(c)
               reached == resolve_insert_column(Listed(p), c, fields)
    <3>1. fields \in SUBSET Paths /\ p \in fields /\ p \in Paths
      BY <2>1, FieldsArePaths
    <3>2. PlainPath(p) \/ is_literal_dotted_key(p)
      BY <2>1, FieldsArePaths
    <3> HIDE DEF fields
    <3>3. reached # {} /\ \A q \in reached : q \in fields /\ display_name(q) = display_name(p)
      BY <3>1, <3>2, ListedNameReaches
    <3>4. resolve_field(Quoted(p), c, fields) = {p} /\ resolve_field(Qualified(c, p), c, fields) = {p}
      BY <3>1, SpelledResolves
    <3> HIDE DEF reached
    <3>5. ~profiles[c][p].has_dotted_key_collision => \A q \in reached : q = p
      BY <2>1, <3>3, NameIsUnique DEF fields
    <3>6. ~profiles[c][p].has_dotted_key_collision => reached = {p}
      BY <3>3, <3>5
    <3> QED
      BY <3>3, <3>4, <3>6, Zenon DEF fields, reached, Quoted, Qualified, Listed
  <2> QED
    BY <2>2 DEF FieldsCanBeNamed
<1>2. ReadsInv => FieldsCanBeNamed
  BY <1>1
<1>3. QED
  BY <1>2, ReadsInvariant, PTL

-----------------------------------------------------------------------------
(* Lists of the members of a set *)

First(set) == CHOOSE x \in set : TRUE

\* What InSomeOrder makes of the subsets of S that have at most n members.
IsListing(g, S, n) ==
    g = [set \in {t \in SUBSET S : Cardinality(t) =< n} |->
            IF set = {} THEN <<>> ELSE Append(g[set \ {First(set)}], First(set))]

\* A finite set loses one member with its first.
LEMMA WithoutFirst ==
  ASSUME NEW set, IsFiniteSet(set), set # {}
  PROVE  /\ First(set) \in set /\ IsFiniteSet(set \ {First(set)})
         /\ Cardinality(set) \in Nat \ {0}
         /\ Cardinality(set \ {First(set)}) = Cardinality(set) - 1
  <1>1. First(set) \in set
    BY DEF First
  <1>2. Cardinality(set) \in Nat /\ Cardinality(set) # 0
    BY FS_CardinalityType, FS_EmptySet
  <1> QED
    BY <1>1, <1>2, FS_RemoveElement

\* The function behind InSomeOrder exists.
LEMMA ListingExists ==
  ASSUME NEW S, IsFiniteSet(S), NEW n \in Nat
  PROVE  \E g : IsListing(g, S, n)
  <1> DEFINE Upto(m) == {t \in SUBSET S : Cardinality(t) =< m}
             Unfold(g, set) == IF set = {} THEN <<>>
                             ELSE Append(g[set \ {First(set)}], First(set))
             Good == {m \in Nat : \E g : IsListing(g, S, m)}
  <1>1. \A set \in SUBSET S : IsFiniteSet(set) /\ Cardinality(set) \in Nat
    BY FS_Subset, FS_CardinalityType
  <1>2. 0 \in Good
    <2> DEFINE g == [set \in Upto(0) |-> <<>>]
    <2>1. \A set \in Upto(0) : set = {}
      BY <1>1, FS_EmptySet
    <2>2. g = [set \in Upto(0) |-> Unfold(g, set)]
      BY <2>1
    <2> QED
      BY <2>2 DEF IsListing
  <1>3. ASSUME NEW m \in 1 .. n, m - 1 \in Good
        PROVE  m \in Good
    <2>1. PICK g : g = [set \in Upto(m - 1) |-> Unfold(g, set)]
      BY <1>3, Zenon DEF IsListing
    <2> DEFINE h == [set \in Upto(m) |-> Unfold(g, set)]
    <2>2. ASSUME NEW set \in Upto(m), set # {}
          PROVE  h[set \ {First(set)}] = g[set \ {First(set)}]
      <3> DEFINE rest == set \ {First(set)}
      <3>1. rest \in Upto(m - 1) /\ rest \in Upto(m)
        BY <1>1, <2>2, WithoutFirst
      <3>2. h[rest] = Unfold(g, rest)
        BY <3>1
      <3>3. g[rest] = Unfold(g, rest)
        <4> HIDE DEF rest, Unfold, Upto
        <4> QED
          BY <2>1, <3>1
      <3> QED
        BY <3>2, <3>3
    <2>3. \A set \in Upto(m) : Unfold(g, set) = Unfold(h, set)
      <3> HIDE DEF h, Upto
      <3> QED
        BY <2>2
    <2>4. h = [set \in Upto(m) |-> Unfold(h, set)]
      <3> HIDE DEF Upto, Unfold
      <3>1. h = [set \in Upto(m) |-> Unfold(g, set)]
        OBVIOUS
      <3> HIDE DEF h
      <3> QED
        BY <2>3, <3>1
    <2>5. IsListing(h, S, m)
      <3> HIDE DEF h
      <3> QED
        BY <2>4, Zenon DEF IsListing
    <2> QED
      <3> HIDE DEF h
      <3> QED
        BY <2>5
  <1>4. n \in Good
    <2> HIDE DEF Good
    <2>1. Good \in SUBSET Nat
      BY DEF Good
    <2> QED
      BY <1>2, <1>3, <2>1, LastOfAll
  <1> QED
    BY <1>4

\* The members of a list with one more at its end.
LEMMA AppendMembers ==
  ASSUME NEW S, NEW list \in Seq(S), NEW x \in S
  PROVE  Append(list, x) \in Seq(S) /\ ToSet(Append(list, x)) = ToSet(list) \cup {x}
  <1> DEFINE n == Len(list)
             longer == Append(list, x)
  <1>1. /\ n \in Nat /\ longer \in Seq(S) /\ Len(longer) = n + 1
        /\ longer[n + 1] = x /\ \A i \in 1 .. n : longer[i] = list[i]
        /\ DOMAIN list = 1 .. n /\ DOMAIN longer = 1 .. n + 1
    OBVIOUS
  <1> HIDE DEF longer, n
  <1>2. \A i \in 1 .. n + 1 : i = n + 1 \/ i \in 1 .. n
    BY <1>1
  <1>3. \A i \in 1 .. n : i \in 1 .. n + 1
    BY <1>1
  <1>4. n + 1 \in 1 .. n + 1
    BY <1>1
  <1>5. ToSet(longer) = ToSet(list) \cup {x}
    BY <1>1, <1>2, <1>3, <1>4, Zenon DEF ToSet
  <1> QED
    BY <1>1, <1>5 DEF longer

\* A list of a finite set has its members and no others.
LEMMA ListedMembers ==
  ASSUME NEW S, IsFiniteSet(S)
  PROVE  InSomeOrder(S) \in Seq(S) /\ ToSet(InSomeOrder(S)) = S
  <1> DEFINE Unfold(g, set) == IF set = {} THEN <<>>
                             ELSE Append(g[set \ {First(set)}], First(set))
             G == CHOOSE g : g = [set \in SUBSET S |-> Unfold(g, set)]
             size == Cardinality(S)
  <1>1. InSomeOrder(S) = G[S]
    BY Zenon DEF InSomeOrder, FoldSet, MapThenFoldSet, First
  <1>2. size \in Nat /\ \A set \in SUBSET S : IsFiniteSet(set) /\ Cardinality(set) \in 0 .. size
    BY FS_CardinalityType, FS_Subset
  <1>3. G = [set \in SUBSET S |-> Unfold(G, set)]
    <2>1. SUBSET S = {t \in SUBSET S : Cardinality(t) =< size}
      BY <1>2
    <2>2. \E g : g = [set \in SUBSET S |-> Unfold(g, set)]
      <3>1. PICK g : IsListing(g, S, size)
        <4> HIDE DEF size
        <4> QED
          BY <1>2, ListingExists
      <3>2. g = [set \in SUBSET S |-> Unfold(g, set)]
        BY <2>1, <3>1, Zenon DEF IsListing
      <3> QED
        BY <3>2
    <2> HIDE DEF Unfold
    <2> QED
      BY <2>2, Zenon
  <1> HIDE DEF G
  <1> DEFINE Right(set) == G[set] \in Seq(S) /\ ToSet(G[set]) = set
             Good == {n \in Nat : \A set \in SUBSET S : Cardinality(set) =< n => Right(set)}
  <1>4. G[{}] = <<>>
    BY <1>3
  <1>5. Right({})
    BY <1>4 DEF ToSet
  <1>6. 0 \in Good
    <2>1. \A set \in SUBSET S : Cardinality(set) =< 0 => set = {}
      BY <1>2, FS_EmptySet
    <2> HIDE DEF Right
    <2> QED
      BY <1>5, <2>1
  <1>7. ASSUME NEW n \in 1 .. size, n - 1 \in Good
        PROVE  n \in Good
    <2> SUFFICES ASSUME NEW set \in SUBSET S, Cardinality(set) =< n, set # {}
                 PROVE  Right(set)
      <3> HIDE DEF Right
      <3> QED
        BY <1>5
    <2> DEFINE rest == set \ {First(set)}
    <2>1. /\ First(set) \in set /\ rest \in SUBSET S
          /\ Cardinality(rest) = Cardinality(set) - 1 /\ Cardinality(set) \in Nat
      BY <1>2, WithoutFirst
    <2>2. Right(rest)
      <3>1. Cardinality(rest) =< n - 1
        BY <2>1
      <3> HIDE DEF Right, rest
      <3> QED
        BY <1>7, <2>1, <3>1
    <2>3. G[set] = Append(G[rest], First(set))
      BY <1>3
    <2>4. set = rest \cup {First(set)} /\ First(set) \in S
      BY <2>1
    <2> HIDE DEF rest
    <2>5. /\ Append(G[rest], First(set)) \in Seq(S)
          /\ ToSet(Append(G[rest], First(set))) = ToSet(G[rest]) \cup {First(set)}
      <3>1. G[rest] \in Seq(S)
        BY <2>2
      <3> HIDE DEF Right
      <3> QED
        BY <2>4, <3>1, AppendMembers
    <2> QED
      BY <2>2, <2>3, <2>4, <2>5, Zenon
  <1>8. Right(S)
    <2> HIDE DEF Right
    <2>1. size \in Good
      <3>1. Good \in SUBSET Nat
        OBVIOUS
      <3> HIDE DEF Good, size
      <3> QED
        BY <1>2, <1>6, <1>7, <3>1, LastOfAll
    <2> QED
      BY <2>1, <1>2
  <1> QED
    BY <1>1, <1>8

-----------------------------------------------------------------------------
(* What profiles and the catalog say of a field *)

\* A finite set of a member and no more than one has no other.
LEMMA OnlyMember ==
  ASSUME NEW S, IsFiniteSet(S), ~(Cardinality(S) > 1), NEW x \in S
  PROVE  S = {x} /\ Cardinality(S) = 1
  <1>1. Cardinality(S) \in Nat /\ Cardinality(S) # 0
    BY FS_CardinalityType, FS_EmptySet
  <1>2. Cardinality(S) = 1
    BY <1>1
  <1>3. PICK y : S = {y}
    BY <1>2, FS_Singleton
  <1> QED
    BY <1>2, <1>3

\* A field was seen with some types and shapes of finitely many, inside documents
\* of the sample.
LEMMA FieldObserved ==
  ASSUME ReadsTyped, NEW c \in Collections, NEW path \in Fields(c)
  PROVE  /\ profiles[c][path].observed_types \subseteq ObservedTypes
         /\ profiles[c][path].observed_types # {}
         /\ IsFiniteSet(profiles[c][path].observed_types)
         /\ profiles[c][path].observed_shapes # {}
         /\ IsFiniteSet(profiles[c][path].observed_shapes)
         /\ \A q \in Ancestors(path) : /\ q \in Fields(c)
                                       /\ "Document" \in profiles[c][q].observed_types
  <1> DEFINE samples == Samples[c]
             field == profiles[c][path]
  <1>1. profiles[c] = infer(samples) /\ Fields(c) = DOMAIN infer(samples)
    BY DEF ReadsTyped, Fields
  <1>2. \A d \in DOMAIN samples : /\ IsDocument(samples[d])
                                  /\ \A p \in DOMAIN samples[d] : samples[d][p].type \in ObservedTypes
    BY SamplesAssumption DEF Collections
  <1>3. PICK holders \in SUBSET DOMAIN samples :
           /\ holders # {}
           /\ holders = {d \in DOMAIN samples : path \in DOMAIN samples[d]}
           /\ field.observed_types = {samples[d][path].type : d \in holders}
           /\ field.observed_shapes = {observed_shape(samples[d][path]) : d \in holders}
    BY <1>1, InferredField
  <1>4. field.observed_types \subseteq ObservedTypes /\ field.observed_types # {}
    <2>1. \A d \in holders : samples[d][path].type \in ObservedTypes
      BY <1>2, <1>3
    <2> HIDE DEF field, samples
    <2> QED
      BY <1>3, <2>1
  <1>5. field.observed_shapes \subseteq {"Document", "Array", "Scalar"} /\ field.observed_shapes # {}
    BY <1>3 DEF observed_shape
  <1>6. PICK d \in holders : TRUE
    BY <1>3
  <1>7. \A q \in Ancestors(path) : q \in DOMAIN samples[d] /\ samples[d][q].type = "Document"
    BY <1>2, <1>3, <1>6 DEF IsDocument
  <1>8. ASSUME NEW q \in Ancestors(path)
        PROVE  q \in Fields(c) /\ "Document" \in profiles[c][q].observed_types
    <2>1. q \in DOMAIN samples[d] /\ samples[d][q].type = "Document" /\ d \in DOMAIN samples
      BY <1>3, <1>6, <1>7
    <2>2. q \in DOMAIN infer(samples)
      BY <2>1, InferredFields
    <2>3. PICK others \in SUBSET DOMAIN samples :
             /\ others = {e \in DOMAIN samples : q \in DOMAIN samples[e]}
             /\ profiles[c][q].observed_types = {samples[e][q].type : e \in others}
      BY <1>1, <2>2, InferredField
    <2> QED
      BY <1>1, <2>1, <2>2, <2>3
  <1> HIDE DEF field, samples
  <1>9. IsFiniteSet(field.observed_types) /\ IsFiniteSet(field.observed_shapes)
    BY <1>4, <1>5, ObservedTypesFinite, ShapesFinite, FS_Subset
  <1> QED
    BY <1>4, <1>5, <1>8, <1>9 DEF field

\* A profile has finitely many fields.
LEMMA ReadFieldsFinite ==
  ASSUME ReadsTyped, NEW c \in Collections
  PROVE  IsFiniteSet(Fields(c))
  <1>1. /\ DOMAIN Samples[c] \subseteq Ids
        /\ \A d \in DOMAIN Samples[c] : IsFiniteSet(DOMAIN Samples[c][d])
    BY SamplesAssumption DEF Collections
  <1>2. IsFiniteSet(DOMAIN Samples[c])
    BY <1>1, IdsAssumption, FS_Subset
  <1>3. Fields(c) = DOMAIN infer(Samples[c])
    BY DEF ReadsTyped, Fields
  <1> QED
    BY <1>1, <1>2, <1>3, FieldsFinite

\* The fields that share the name of a field, and their column.
Namesakes(c, name) == {q \in Fields(c) : display_name(q) = name}
ColumnNamed(c, name) == column_from_fields(name, Namesakes(c, name), profiles[c])
FieldNames(c) == {display_name(p) : p \in Fields(c)}

\* A table has the columns of its names, and finitely many.
LEMMA CatalogColumns ==
  ASSUME ReadsTyped, NEW c \in Collections
  PROVE  /\ ToSet(catalog[c]) = {ColumnNamed(c, name) : name \in FieldNames(c)}
         /\ IsFiniteSet(ToSet(catalog[c]))
  <1> DEFINE fields == Fields(c)
             names == FieldNames(c)
             listed == InSomeOrder(names)
  <1>1. IsFiniteSet(names)
    <2>1. [p \in fields |-> display_name(p)] \in Surjection(fields, names)
      BY DEF Surjection, FieldNames
    <2> QED
      BY <2>1, ReadFieldsFinite, FS_Surjection
  <1>2. listed \in Seq(names) /\ ToSet(listed) = names
    <2> HIDE DEF names
    <2> QED
      BY <1>1, ListedMembers
  <1>3. catalog[c] = [i \in DOMAIN listed |-> ColumnNamed(c, listed[i])]
    <2>1. catalog[c] = project_collection(profiles[c])
      BY DEF ReadsTyped, project_public_collections
    <2>2. names = {display_name(p) : p \in DOMAIN profiles[c]}
      BY DEF FieldNames, Fields
    <2> QED
      BY <2>1, <2>2 DEF project_collection, ColumnNamed, Namesakes, Fields
  <1> HIDE DEF listed, names
  <1>4. ToSet(catalog[c]) = {ColumnNamed(c, name) : name \in names}
    <2>1. ToSet(catalog[c]) = {ColumnNamed(c, listed[i]) : i \in DOMAIN listed}
      BY <1>3 DEF ToSet
    <2>2. names = {listed[i] : i \in DOMAIN listed}
      BY <1>2 DEF ToSet
    <2> QED
      BY <2>1, <2>2
  <1>5. IsFiniteSet({ColumnNamed(c, name) : name \in names})
    <2> DEFINE columns == {ColumnNamed(c, name) : name \in names}
    <2>1. [name \in names |-> ColumnNamed(c, name)] \in Surjection(names, columns)
      BY DEF Surjection
    <2> HIDE DEF columns
    <2>2. IsFiniteSet(columns)
      BY <1>1, <2>1, FS_Surjection
    <2> QED
      BY <2>2 DEF columns
  <1> QED
    BY <1>4, <1>5 DEF names

\* A column belongs to a name, and the other way round.
LEMMA NameOfColumn ==
  ASSUME NEW c, NEW name
  PROVE  /\ ColumnNamed(c, name).column_name = name
         /\ ColumnNamed(c, name).source_paths = Namesakes(c, name)
  BY DEF ColumnNamed, column_from_fields

\* A column of SELECT * is the one of a field that shares its name with no other.
LEMMA WildcardColumn ==
  ASSUME ReadsTyped, NEW c \in Collections, NEW i \in DOMAIN WildcardColumns(c)
  PROVE  \E path \in Fields(c) :
            /\ Namesakes(c, display_name(path)) = {path}
            /\ WildcardColumns(c)[i] = ColumnNamed(c, display_name(path))
            /\ WildcardColumns(c)[i].source_paths = {path}
  <1> DEFINE single == {column \in ToSet(catalog[c]) : Cardinality(column.source_paths) = 1}
             columns == WildcardColumns(c)
  <1>1. IsFiniteSet(single)
    BY CatalogColumns, FS_Subset
  <1>2. columns \in Seq(single)
    <2> HIDE DEF single
    <2>1. InSomeOrder(single) \in Seq(single)
      BY <1>1, ListedMembers
    <2> QED
      BY <2>1 DEF WildcardColumns, single
  <1>3. columns[i] \in single
    <2> HIDE DEF single, columns
    <2> QED
      BY <1>2 DEF columns
  <1>4. PICK name \in FieldNames(c) : columns[i] = ColumnNamed(c, name)
    BY <1>3, CatalogColumns
  <1>5. columns[i].source_paths = Namesakes(c, name) /\ Cardinality(Namesakes(c, name)) = 1
    BY <1>3, <1>4, NameOfColumn
  <1>6. IsFiniteSet(Namesakes(c, name))
    BY ReadFieldsFinite, FS_Subset DEF Namesakes
  <1>7. PICK path : Namesakes(c, name) = {path}
    BY <1>5, <1>6, FS_Singleton
  <1>8. path \in Fields(c) /\ display_name(path) = name
    BY <1>7 DEF Namesakes
  <1> QED
    BY <1>4, <1>5, <1>7, <1>8

\* The column that a named field is announced with.
LEMMA NamedColumn ==
  ASSUME ReadsTyped, NEW c \in Collections, NEW path \in Fields(c)
  PROVE  (CHOOSE column \in ToSet(catalog[c]) : column.column_name = display_name(path))
            = ColumnNamed(c, display_name(path))
  <1> DEFINE name == display_name(path)
             columns == ToSet(catalog[c])
  <1>1. ColumnNamed(c, name) \in columns
    BY CatalogColumns DEF FieldNames
  <1>2. \A column \in columns : column.column_name = name => column = ColumnNamed(c, name)
    BY CatalogColumns, NameOfColumn
  <1>3. ColumnNamed(c, name).column_name = name
    BY NameOfColumn
  <1> HIDE DEF name, columns
  <1> QED
    BY <1>1, <1>2, <1>3, Zenon DEF name, columns

-----------------------------------------------------------------------------
(* Documents and their profiles *)

\* A value that the announced type of a field allows.
FieldFits(field, value) ==
    \/ is_ambiguous(field)
    \/ value.type \in field.observed_types \cup {"Null"}
    \/ field.observed_types = {"Null"}

Known(sch, path, value) == path \in DOMAIN sch /\ FieldFits(sch[path], value)

DocumentFits(sch, document) == \A path \in DOMAIN document : Known(sch, path, document[path])

DocumentsFit ==
    \A c \in Collections : \A id \in DOMAIN documents[c] :
        DocumentFits(profiles[c], documents[c][id])

\* The type policy lets nothing else into a field.
LEMMA PolicyFits ==
  ASSUME ReadsTyped, NEW c \in Collections, NEW a, a.path \in Fields(c),
         validate_write_value(a, profiles[c]), a.value.type # "Placeholder"
  PROVE  Known(profiles[c], a.path, a.value)
  <1> DEFINE field == profiles[c][a.path]
             types == field.observed_types
             shapes == field.observed_shapes
  <1>1. /\ types # {} /\ IsFiniteSet(types)
        /\ shapes # {} /\ IsFiniteSet(shapes)
    BY FieldObserved
  <1>2. a.path \in DOMAIN profiles[c]
    BY DEF Fields
  <1>3. validate_value(field, a.value, TRUE)
    BY DEF validate_write_value
  <1> HIDE DEF field
  <1>4. ASSUME ~is_ambiguous(field), types # {"Null"}
        PROVE  a.value.type \in types \cup {"Null"}
    <2>1. ~(Cardinality(types) > 1) /\ ~(Cardinality(shapes) > 1) /\ ~field.has_dotted_key_collision
      BY <1>4, Zenon DEF is_ambiguous
    <2>2. PICK type \in types : TRUE
      BY <1>1
    <2>3. types = {type} /\ Cardinality(types) = 1
      BY <1>1, <2>1, <2>2, OnlyMember
    <2>4. Cardinality(shapes) = 1
      <3>1. PICK shape \in shapes : TRUE
        BY <1>1
      <3> QED
        BY <1>1, <2>1, <3>1, OnlyMember
    <2>5. NonNullTypes(field) = types
      BY <1>4, <2>3 DEF NonNullTypes
    <2>6. validate_field_shape(field) = types
      BY <2>1, <2>3, <2>4, <2>5 DEF validate_field_shape
    <2>7. \/ a.value.type = "Null"
          \/ \A t \in types : is_compatible(a.value, t)
      BY <1>3, <2>6 DEF validate_value
    <2> QED
      BY <2>2, <2>7 DEF is_compatible
  <1> QED
    BY <1>2, <1>4 DEF Known, FieldFits, field

\* A document that a write creates fits in the fields that enclose its own.
LEMMA EnclosingFits ==
  ASSUME ReadsTyped, NEW c \in Collections, NEW path \in Fields(c), NEW q \in Ancestors(path)
  PROVE  Known(profiles[c], q, DocumentValue)
  <1>1. q \in Fields(c) /\ "Document" \in profiles[c][q].observed_types
    BY FieldObserved
  <1> QED
    BY <1>1 DEF Known, FieldFits, Fields, DocumentValue, Value

\* Storing values that fit.
LEMMA StoredAllFits ==
  ASSUME ReadsTyped, NEW c \in Collections, NEW document, DocumentFits(profiles[c], document),
         NEW paths, NEW values, Len(paths) \in Nat,
         \A i \in 1 .. Len(paths) : Known(profiles[c], paths[i], values[i])
  PROVE  DocumentFits(profiles[c], StoredAll(document, paths, values))
  <1> DEFINE result == StoredAll(document, paths, values)
             sch == profiles[c]
  <1>1. Origin(result, document, paths, values)
    BY StoredAllOrigin
  <1> HIDE DEF result
  <1>2. ASSUME NEW q \in DOMAIN result
        PROVE  Known(sch, q, result[q])
    <2>1. CASE q \in DOMAIN document /\ result[q] = document[q]
      BY <2>1 DEF DocumentFits
    <2>2. CASE \E i \in 1 .. Len(paths) : q = paths[i] /\ result[q] = values[i]
      BY <2>2
    <2>3. CASE \E i \in 1 .. Len(paths) : q \in Ancestors(paths[i]) /\ result[q] = DocumentValue
      <3>1. PICK i \in 1 .. Len(paths) : q \in Ancestors(paths[i])
        BY <2>3
      <3>2. paths[i] \in Fields(c)
        BY DEF Known, Fields
      <3> QED
        BY <2>3, <3>1, <3>2, EnclosingFits
    <2> QED
      BY <1>1, <2>1, <2>2, <2>3 DEF Origin
  <1> QED
    BY <1>2 DEF DocumentFits, result

\* The samples have the types that discovery saw in them.
LEMMA SamplesFit == Init => DocumentsFit
  <1> SUFFICES ASSUME Init, NEW c \in Collections, NEW id \in DOMAIN documents[c],
                      NEW path \in DOMAIN documents[c][id]
               PROVE  Known(profiles[c], path, documents[c][id][path])
    BY DEF DocumentsFit, DocumentFits
  <1> DEFINE samples == Samples[c]
  <1>1. profiles[c] = infer(samples) /\ documents[c] = samples
    BY DEF Init
  <1>2. path \in DOMAIN infer(samples)
    BY <1>1, InferredFields
  <1>3. PICK holders \in SUBSET DOMAIN samples :
           /\ holders = {d \in DOMAIN samples : path \in DOMAIN samples[d]}
           /\ infer(samples)[path].observed_types = {samples[d][path].type : d \in holders}
    BY <1>2, InferredField
  <1>4. samples[id][path].type \in infer(samples)[path].observed_types
    BY <1>1, <1>3
  <1> QED
    BY <1>1, <1>2, <1>4 DEF Known, FieldFits

\* Every value of a plan that was lowered fits in its field.
LEMMA LoweredValueFits ==
  ASSUME ReadsTyped, NEW plan, plan.kind \in {"Insert", "Update"}, plan.collection \in Collections,
         lower_statement(plan, profiles[plan.collection]),
         NEW a \in AssignedValues(plan), a.path \in AssignedPaths(plan), a.value.type # "Placeholder"
  PROVE  Known(profiles[plan.collection], a.path, a.value)
  <1>1. a.path \in Fields(plan.collection) /\ validate_write_value(a, profiles[plan.collection])
    BY DEF lower_statement, Fields
  <1> QED
    BY <1>1, PolicyFits

\* The document of an INSERT fits its profile.
LEMMA InsertedDocumentFits ==
  ASSUME ReadsTyped, NEW plan, InsertPlan(plan)
  PROVE  DocumentFits(profiles[plan.collection], build_insert_document(plan.columns, plan.rows[1]))
  <1> DEFINE c == plan.collection
             columns == plan.columns
             row == plan.rows[1]
  <1>1. /\ plan.kind = "Insert" /\ c \in Collections /\ columns \in Seq(Paths)
        /\ lower_statement(plan, profiles[c]) /\ 1 \in DOMAIN plan.rows
        /\ build_insert_document_errors(columns, row) = {}
    BY DEF InsertPlan
  <1>2. Len(columns) \in Nat /\ DOMAIN columns = 1 .. Len(columns)
    BY <1>1
  <1>3. ASSUME NEW i \in 1 .. Len(columns)
        PROVE  Known(profiles[c], columns[i], row[i])
    <2> DEFINE a == [path |-> columns[i], value |-> row[i]]
    <2>1. AssignedValues(plan) = {[path |-> plan.columns[k], value |-> plan.rows[r][k]] :
                                     r \in DOMAIN plan.rows, k \in DOMAIN plan.columns}
      BY <1>1 DEF AssignedValues
    <2>2. a \in AssignedValues(plan)
      <3>1. i \in DOMAIN plan.columns /\ 1 \in DOMAIN plan.rows
        BY <1>1, <1>2
      <3> QED
        BY <2>1, <3>1
    <2>3. columns[i] \in AssignedPaths(plan)
      BY <1>1, <1>2 DEF AssignedPaths, ToSet
    <2>4. row[i].type # "Placeholder"
      BY <1>1, <1>2, TranslatedRow
    <2>5. a.path = columns[i] /\ a.value = row[i]
      OBVIOUS
    <2> HIDE DEF a
    <2> QED
      BY <1>1, <2>2, <2>3, <2>4, <2>5, LoweredValueFits
  <1>4. DocumentFits(profiles[c], EmptyDocument)
    BY DEF DocumentFits, EmptyDocument
  <1>5. DocumentFits(profiles[c], StoredAll(EmptyDocument, columns, row))
    <2> HIDE DEF columns, row
    <2> QED
      BY <1>1, <1>2, <1>3, <1>4, StoredAllFits
  <1> QED
    BY <1>5 DEF build_insert_document

\* $set splits a name at its dots: with them inside a name it would create fields
\* and documents in other places than the plan's.
LEMMA UpdatedDocumentFits ==
  ASSUME PlainNames, ReadsTyped, NEW plan, RewritePlan(plan), plan.kind = "Update",
         NEW document, DocumentFits(profiles[plan.collection], document)
  PROVE  DocumentFits(profiles[plan.collection], update_document(plan.assignments, document))
  <1> DEFINE c == plan.collection
             list == plan.assignments
             paths == SetPaths(list)
             values == [i \in DOMAIN list |-> list[i].value]
  <1>1. /\ c \in Collections /\ lower_statement(plan, profiles[c]) /\ TranslationErrors(plan) = {}
        /\ Len(list) \in Nat /\ DOMAIN list = 1 .. Len(list)
        /\ \A i \in DOMAIN list : list[i].path \in Paths
    BY DEF RewritePlan
  <1>2. DOMAIN paths = 1 .. Len(list) /\ Len(paths) = Len(list)
    BY <1>1 DEF SetPaths
  <1>3. ASSUME NEW i \in 1 .. Len(list)
        PROVE  Known(profiles[c], paths[i], values[i])
    <2>1. i \in DOMAIN list
      BY <1>1
    <2>2. list[i] \in AssignedValues(plan) /\ list[i].path \in AssignedPaths(plan)
      <3>1. list[i] \in ToSet(list)
        BY <2>1 DEF ToSet
      <3>2. AssignedValues(plan) = ToSet(list) /\ AssignedPaths(plan) = {a.path : a \in ToSet(list)}
        BY DEF AssignedValues, AssignedPaths
      <3> HIDE DEF list
      <3> QED
        BY <3>1, <3>2
    <2>3. ~is_literal_dotted_key(list[i].path) /\ list[i].value.type # "Placeholder"
      BY <1>1, <2>1, TranslatedAssignments
    <2>4. Known(profiles[c], list[i].path, list[i].value)
      BY <1>1, <2>2, <2>3, LoweredValueFits
    <2>5. list[i].path \in Paths /\ PlainPath(list[i].path)
      <3>1. list[i].path \in Fields(c)
        BY <2>4 DEF Known, Fields
      <3> QED
        BY <1>1, <2>3, <3>1, FieldsArePaths
    <2>6. paths[i] = list[i].path
      BY <2>1, <2>5, PlainPathIsKept DEF SetPaths
    <2>7. values[i] = list[i].value
      BY <2>1
    <2> QED
      BY <2>4, <2>6, <2>7
  <1>4. DocumentFits(profiles[c], StoredAll(document, paths, values))
    <2> HIDE DEF list, paths, values
    <2> QED
      BY <1>1, <1>2, <1>3, StoredAllFits
  <1> QED
    BY <1>4 DEF update_document

\* No write of the proxy brings in a value that the announced types do not allow.
LEMMA DocumentsFitStep ==
  ASSUME PlainNames, ReadsTyped, DocumentsFit, [Next]_vars
  PROVE  DocumentsFit'
  <1>1. ASSUME NEW s \in StatementsOf({"Insert"}), execute_insert(s)
        PROVE  DocumentsFit'
    <2>1. PICK plan \in parse_sql_for_profiles(s), new \in Ids : InsertPlan(plan) /\ Inserts(plan, new)
      BY <1>1, InsertEffect
    <2>2. /\ plan.collection \in Collections
          /\ DocumentFits(profiles[plan.collection],
                          build_insert_document(plan.columns, plan.rows[1]))
      BY <2>1, InsertedDocumentFits DEF InsertPlan
    <2>3. ASSUME NEW c \in Collections, NEW id \in DOMAIN documents'[c]
          PROVE  DocumentFits(profiles'[c], documents'[c][id])
      <3>1. profiles' = profiles /\ c \in DOMAIN documents
        BY <2>1 DEF Inserts, ReadsTyped
      <3>2. CASE c = plan.collection
        BY <2>1, <2>2, <2>3, <3>1, <3>2 DEF Inserts, DocumentsFit
      <3>3. CASE c # plan.collection
        BY <2>1, <2>3, <3>1, <3>3 DEF Inserts, DocumentsFit
      <3> QED
        BY <3>2, <3>3
    <2> QED
      BY <2>3 DEF DocumentsFit
  <1>2. ASSUME NEW s \in StatementsOf({"Update", "Delete"}), execute_update_or_delete(s)
        PROVE  DocumentsFit'
    <2>1. PICK plan, ids : plan \in parse_sql_for_profiles(s) /\ RewritePlan(plan) /\ Rewrites(plan, ids)
      BY <1>2, UpdateOrDeleteEffect
    <2> DEFINE held == documents[plan.collection]
    <2>2. ASSUME plan.kind # "Delete", NEW id \in DOMAIN held
          PROVE  DocumentFits(profiles[plan.collection], update_document(plan.assignments, held[id]))
      <3>1. plan.kind = "Update" /\ plan.collection \in Collections
        BY <2>1, <2>2 DEF RewritePlan
      <3>2. DocumentFits(profiles[plan.collection], held[id])
        BY <2>2, <3>1 DEF DocumentsFit
      <3> QED
        BY <2>1, <3>1, <3>2, UpdatedDocumentFits
    <2>3. ASSUME NEW c \in Collections, NEW id \in DOMAIN documents'[c]
          PROVE  DocumentFits(profiles'[c], documents'[c][id])
      <3>1. profiles' = profiles /\ c \in DOMAIN documents
        BY <2>1 DEF Rewrites, ReadsTyped
      <3>2. CASE c = plan.collection /\ plan.kind = "Delete"
        BY <2>1, <2>3, <3>1, <3>2 DEF Rewrites, DocumentsFit
      <3>3. CASE c = plan.collection /\ plan.kind # "Delete"
        <4>1. documents'[c] = [k \in DOMAIN held |-> IF k \in ids
                                                     THEN update_document(plan.assignments, held[k])
                                                     ELSE held[k]]
          BY <2>1, <3>1, <3>3 DEF Rewrites
        <4>2. id \in DOMAIN held /\ DocumentFits(profiles[c], held[id])
          BY <2>3, <3>3, <4>1 DEF DocumentsFit
        <4> QED
          BY <2>2, <3>1, <3>3, <4>1, <4>2
      <3>4. CASE c # plan.collection
        BY <2>1, <2>3, <3>1, <3>4 DEF Rewrites, DocumentsFit
      <3> QED
        BY <3>2, <3>3, <3>4
    <2> QED
      BY <2>3 DEF DocumentsFit
  <1>3. ASSUME UNCHANGED <<profiles, documents>>
        PROVE  DocumentsFit'
    BY <1>3 DEF DocumentsFit
  <1>4. ASSUME NEW s, execute_select(s) \/ Refuse(s)
        PROVE  UNCHANGED <<profiles, documents>>
    BY <1>4 DEF execute_select, Refuse
  <1> QED
    BY <1>1, <1>2, <1>3, <1>4 DEF Next, vars

-----------------------------------------------------------------------------
(* Rows and the announced types *)

\* A NULL apart, a client gets a value as it is stored.
LEMMA WireValue ==
  ASSUME NEW value, NEW sql_type
  PROVE  \/ bson_to_wire_value(value, sql_type).kind = "Null"
         \/ bson_to_wire_value(value, sql_type).value = value /\ value.type # "Null"
  BY DEF bson_to_wire_value, NoValue, Wire

\* What is at a path of a document.
LEMMA ShownValue ==
  ASSUME NEW document, NEW path, NEW sql_type
  PROVE  value_from_document(document, path, sql_type)
            = IF path \in DOMAIN document THEN bson_to_wire_value(document[path], sql_type) ELSE NoValue
  <1>1. CASE path \in DOMAIN document
    <2>1. value_at_path(document, path) = {document[path]}
      BY <1>1 DEF value_at_path
    <2>2. (CHOOSE value \in {document[path]} : TRUE) = document[path]
      OBVIOUS
    <2> QED
      BY <1>1, <2>1, <2>2 DEF value_from_document
  <1>2. CASE path \notin DOMAIN document
    BY <1>2 DEF value_from_document, value_at_path
  <1> QED
    BY <1>1, <1>2

\* A find returns a part of the document as it is.
LEMMA ProjectedPart ==
  ASSUME NEW document, NEW plan, NEW path \in DOMAIN Projected(document, plan)
  PROVE  path \in DOMAIN document /\ Projected(document, plan)[path] = document[path]
  <1>1. CASE plan.all
    BY <1>1 DEF Projected
  <1>2. CASE ~plan.all
    BY <1>2 DEF Projected
  <1> QED
    BY <1>1, <1>2

\* The column of a field has the type of every value that fits in the field.
LEMMA ColumnTypeFits ==
  ASSUME ReadsTyped, NEW c \in Collections, NEW path \in Fields(c),
         NEW value, FieldFits(profiles[c][path], value),
         NEW sql_type, sql_type = ColumnNamed(c, display_name(path)).sql_type
  PROVE  Fits(bson_to_wire_value(value, sql_type), sql_type)
  <1> DEFINE field == profiles[c][path]
             types == field.observed_types
             same == Namesakes(c, display_name(path))
             ambiguous == Cardinality(same) > 1 \/ \E p \in same : is_ambiguous(profiles[c][p])
  <1>1. sql_type = IF ambiguous THEN "Jsonb"
                   ELSE sql_type_for_observations(UNION {profiles[c][p].observed_types : p \in same})
    BY DEF ColumnNamed, column_from_fields
  <1>2. CASE ambiguous
    BY <1>1, <1>2 DEF Fits
  <1>3. CASE ~ambiguous
    <2>1. path \in same /\ IsFiniteSet(same)
      BY ReadFieldsFinite, FS_Subset DEF Namesakes
    <2>2. same = {path}
      <3> HIDE DEF same
      <3> QED
        BY <1>3, <2>1, OnlyMember
    <2>3. ~is_ambiguous(field)
      BY <1>3, <2>1
    <2>4. PICK type \in ObservedTypes : types = {type}
      <3>1. types \subseteq ObservedTypes /\ types # {} /\ IsFiniteSet(types)
        BY FieldObserved
      <3>2. ~(Cardinality(types) > 1)
        BY <2>3 DEF is_ambiguous
      <3>3. PICK type \in types : TRUE
        BY <3>1
      <3> HIDE DEF types
      <3> QED
        BY <3>1, <3>2, <3>3, OnlyMember
    <2>5. sql_type = SqlTypeOf[type]
      <3>1. UNION {profiles[c][p].observed_types : p \in same} = {type}
        BY <2>2, <2>4
      <3>2. (CHOOSE t \in {type} : TRUE) = type
        OBVIOUS
      <3> HIDE DEF same, ambiguous
      <3> QED
        BY <1>1, <1>3, <3>1, <3>2 DEF sql_type_for_observations
    <2>6. value.type \in {type, "Null"} \/ type = "Null"
      BY <2>3, <2>4 DEF FieldFits
    <2>7. CASE type = "Null"
      BY <2>5, <2>7 DEF SqlTypeOf, Fits
    <2>8. CASE value.type \in {type, "Null"}
      BY <2>5, <2>8, WireValue DEF Fits
    <2> QED
      BY <2>6, <2>7, <2>8
  <1> QED
    BY <1>2, <1>3

\* The names of a projection are those of fields.
LEMMA ResolvedFields ==
  ASSUME NEW names, NEW c, NEW paths \in ResolvedAll(names, c), NEW i \in DOMAIN paths
  PROVE  paths[i] \in Fields(c)
  <1> DEFINE found == [k \in DOMAIN names |-> resolve_field(names[k], c, Fields(c))]
  <1>1. paths = [k \in DOMAIN found |-> CHOOSE path \in found[k] : TRUE]
        /\ \A k \in DOMAIN found : found[k] # {}
    BY DEF ResolvedAll
  <1>2. i \in DOMAIN found /\ found[i] \subseteq Fields(c)
    BY <1>1, ResolvedNames
  <1> HIDE DEF found
  <1> QED
    BY <1>1, <1>2

\* What a SELECT reads are fields, each announced with the type of its column.
LEMMA SelectedFields ==
  ASSUME ReadsTyped, NEW s \in StatementsOf({"Select"}), NEW plan \in parse_sql_for_profiles(s)
  PROVE  /\ DOMAIN selected_paths(plan) = DOMAIN select_fields(plan)
         /\ \A i \in DOMAIN select_fields(plan) :
               /\ selected_paths(plan)[i] \in Fields(plan.collection)
               /\ select_fields(plan)[i]
                     = ColumnNamed(plan.collection, display_name(selected_paths(plan)[i])).sql_type
  <1> DEFINE c == plan.collection
  <1>1. c \in Collections /\ plan.projection \in ResolvedAll(s.projection, c)
    BY LoweredSelect DEF parse_projection
  <1>2. CASE ~plan.all
    <2>1. selected_paths(plan) = plan.projection
      BY <1>2 DEF selected_paths
    <2>2. select_fields(plan) = [i \in DOMAIN plan.projection |->
             (CHOOSE column \in ToSet(catalog[c]) :
                 column.column_name = display_name(plan.projection[i])).sql_type]
      BY <1>2 DEF select_fields
    <2>3. ASSUME NEW i \in DOMAIN plan.projection
          PROVE  /\ plan.projection[i] \in Fields(c)
                 /\ select_fields(plan)[i] = ColumnNamed(c, display_name(plan.projection[i])).sql_type
      <3>1. plan.projection[i] \in Fields(c)
        BY <1>1, ResolvedFields
      <3> QED
        BY <1>1, <2>2, <3>1, NamedColumn
    <2> QED
      BY <2>1, <2>2, <2>3
  <1>3. CASE plan.all
    <2> DEFINE columns == WildcardColumns(c)
    <2>1. selected_paths(plan) = [i \in DOMAIN columns |-> CHOOSE p \in columns[i].source_paths : TRUE]
      BY <1>3 DEF selected_paths
    <2>2. select_fields(plan) = [i \in DOMAIN columns |-> columns[i].sql_type]
      BY <1>3 DEF select_fields
    <2> HIDE DEF columns
    <2>3. ASSUME NEW i \in DOMAIN columns
          PROVE  /\ selected_paths(plan)[i] \in Fields(c)
                 /\ select_fields(plan)[i] = ColumnNamed(c, display_name(selected_paths(plan)[i])).sql_type
      <3>1. PICK path \in Fields(c) : /\ columns[i] = ColumnNamed(c, display_name(path))
                                      /\ columns[i].source_paths = {path}
        BY <1>1, WildcardColumn DEF columns
      <3>2. (CHOOSE p \in {path} : TRUE) = path
        OBVIOUS
      <3>3. selected_paths(plan)[i] = path
        BY <2>1, <3>1, <3>2
      <3> QED
        BY <2>2, <3>1, <3>3
    <2> QED
      BY <2>1, <2>2, <2>3
  <1> QED
    BY <1>2, <1>3

\* A row of a document that fits has a value of the announced type everywhere.
LEMMA RowFits ==
  ASSUME ReadsTyped, NEW s \in StatementsOf({"Select"}), NEW plan \in parse_sql_for_profiles(s),
         NEW document, DocumentFits(profiles[plan.collection], document)
  PROVE  /\ DOMAIN Row(document, plan) = DOMAIN select_fields(plan)
         /\ \A i \in DOMAIN select_fields(plan) :
               Fits(Row(document, plan)[i], select_fields(plan)[i])
  <1> DEFINE c == plan.collection
             paths == selected_paths(plan)
             fields == select_fields(plan)
             part == Projected(document, plan)
             row == Row(document, plan)
  <1>1. c \in Collections
    BY LoweredSelect
  <1>2. /\ DOMAIN paths = DOMAIN fields
        /\ \A i \in DOMAIN fields : /\ paths[i] \in Fields(c)
                                    /\ fields[i] = ColumnNamed(c, display_name(paths[i])).sql_type
    BY SelectedFields
  <1>3. row = [i \in DOMAIN paths \cap DOMAIN fields |-> value_from_document(part, paths[i], fields[i])]
    BY DEF Row
  <1>4. \A q \in DOMAIN part : q \in DOMAIN document /\ part[q] = document[q]
    BY ProjectedPart
  <1> HIDE DEF paths, fields, part, row
  <1>5. ASSUME NEW i \in DOMAIN fields
        PROVE  Fits(row[i], fields[i])
    <2>1. row[i] = IF paths[i] \in DOMAIN part THEN bson_to_wire_value(part[paths[i]], fields[i])
                   ELSE NoValue
      BY <1>2, <1>3, ShownValue
    <2>2. CASE paths[i] \notin DOMAIN part
      BY <2>1, <2>2 DEF NoValue, Wire, Fits
    <2>3. CASE paths[i] \in DOMAIN part
      <3>1. FieldFits(profiles[c][paths[i]], part[paths[i]])
        BY <1>4, <2>3 DEF DocumentFits, Known
      <3> QED
        BY <1>1, <1>2, <2>1, <2>3, <3>1, ColumnTypeFits
    <2> QED
      BY <2>2, <2>3
  <1> QED
    BY <1>2, <1>3, <1>5 DEF row, fields

\* An answer with rows is of documents that fit.
LEMMA AnnouncedStep ==
  ASSUME ReadsTyped, DocumentsFit, AnnouncedTypesFit, [Next]_vars
  PROVE  AnnouncedTypesFit'
  <1>1. ASSUME NEW s \in StatementsOf({"Select"}), execute_select(s)
        PROVE  AnnouncedTypesFit'
    <2>1. PICK plan \in parse_sql_for_profiles(s) :
             \E ids \in Limited(plan, {id \in DOMAIN documents[plan.collection] :
                                          Selects(plan, documents[plan.collection][id])}) :
                reply' = [EmptyReply EXCEPT !.kind = "rows", !.plan = plan,
                                            !.fields = select_fields(plan),
                                            !.rows = [id \in ids |->
                                               Row(documents[plan.collection][id], plan)]]
      BY <1>1 DEF execute_select
    <2> DEFINE held == documents[plan.collection]
    <2>2. PICK ids \in SUBSET DOMAIN held :
             /\ reply'.fields = select_fields(plan)
             /\ reply'.rows = [id \in ids |-> Row(held[id], plan)]
      BY <2>1 DEF Limited, EmptyReply
    <2>3. plan.collection \in Collections
      BY LoweredSelect
    <2>4. ASSUME NEW id \in ids
          PROVE  /\ DOMAIN Row(held[id], plan) = DOMAIN select_fields(plan)
                 /\ \A i \in DOMAIN select_fields(plan) :
                       Fits(Row(held[id], plan)[i], select_fields(plan)[i])
      <3>1. DocumentFits(profiles[plan.collection], held[id])
        BY <2>3 DEF DocumentsFit
      <3> QED
        BY <3>1, RowFits
    <2> QED
      BY <2>2, <2>4 DEF AnnouncedTypesFit
  <1>2. ASSUME reply'.rows = <<>>
        PROVE  AnnouncedTypesFit'
    BY <1>2 DEF AnnouncedTypesFit
  <1>3. ASSUME NEW s \in StatementsOf({"Insert"}), execute_insert(s)
        PROVE  AnnouncedTypesFit'
    <2>1. reply'.rows = <<>>
      BY <1>3, InsertEffect DEF Inserts, EmptyReply
    <2> QED
      BY <1>2, <2>1
  <1>4. ASSUME NEW s \in StatementsOf({"Update", "Delete"}), execute_update_or_delete(s)
        PROVE  AnnouncedTypesFit'
    <2>1. reply'.rows = <<>>
      BY <1>4, UpdateOrDeleteEffect DEF Rewrites
    <2> QED
      BY <1>2, <2>1
  <1>5. ASSUME NEW s \in Statements, Refuse(s)
        PROVE  AnnouncedTypesFit'
    <2>1. reply'.rows = <<>>
      BY <1>5 DEF Refuse, EmptyReply
    <2> QED
      BY <1>2, <2>1
  <1>6. ASSUME UNCHANGED vars
        PROVE  AnnouncedTypesFit'
    BY <1>6 DEF vars, AnnouncedTypesFit
  <1> QED
    BY <1>1, <1>3, <1>4, <1>5, <1>6 DEF Next

\* catalog/src/lib.rs: the columns that discovery announces and the type policy of
\* writes agree: a table that is written through the proxy alone never shows a
\* value of another type than its column has, nor a row of another width, where no
\* name of a nested field has a dot in it.  A $set of such a field creates others,
\* in places where discovery may have seen another type.
THEOREM AnnouncedTypesHold == ASSUME PlainNames PROVE Spec => []AnnouncedTypesFit
<1>1. Init => DocumentsFit /\ AnnouncedTypesFit
  BY SamplesFit DEF Init, AnnouncedTypesFit, EmptyReply
<1>2. ReadsInv /\ DocumentsFit /\ AnnouncedTypesFit /\ [Next]_vars
         => DocumentsFit' /\ AnnouncedTypesFit'
  BY DocumentsFitStep, AnnouncedStep DEF ReadsInv
<1>3. QED
  BY <1>1, <1>2, ReadsInvariant, PTL DEF Spec

-----------------------------------------------------------------------------
(* What an INSERT wrote *)

\* Values that are stored in places apart from each other stay.
LEMMA StoredAllGiven ==
  ASSUME NEW document, NEW paths \in Seq(Paths), NEW values,
         \A i, k \in 1 .. Len(paths) : i # k => ~paths_overlap(paths[i], paths[k]),
         NEW j \in 1 .. Len(paths)
  PROVE  /\ paths[j] \in DOMAIN StoredAll(document, paths, values)
         /\ StoredAll(document, paths, values)[paths[j]] = values[j]
  <1> DEFINE n == Len(paths)
             Holds(d) == paths[j] \in DOMAIN d /\ d[paths[j]] = values[j]
  <1>1. n \in Nat
    OBVIOUS
  <1>2. PICK g : /\ StoredAll(document, paths, values) = g[n]
                 /\ g[0] = document
                 /\ \A i \in 1 .. n : g[i] = Stored(g[i - 1], paths[i], values[i])
    BY <1>1, StoringIs
  <1> DEFINE Good == {i \in Nat : j =< i => Holds(g[i])}
  <1>3. ASSUME NEW i \in 1 .. n, i - 1 \in Good
        PROVE  i \in Good
    <2>1. CASE i = j
      <3>1. Holds(Stored(g[i - 1], paths[j], values[j]))
        BY DEF Stored
      <3> QED
        BY <1>2, <2>1, <3>1
    <2>2. CASE j < i
      <3> DEFINE before == g[i - 1]
      <3>1. Holds(before)
        BY <1>3, <2>2
      <3>2. ~IsPrefix(paths[i], paths[j]) /\ paths[i] # paths[j]
        <4>1. ~paths_overlap(paths[i], paths[j]) /\ paths[j] \in Paths
          BY <2>2
        <4>2. IsPrefix(paths[j], paths[j])
          BY <4>1 DEF IsPrefix, Paths
        <4> QED
          BY <4>1, <4>2 DEF paths_overlap
      <3>3. Holds(Stored(before, paths[i], values[i]))
        <4> HIDE DEF before
        <4> QED
          BY <3>1, <3>2 DEF Stored
      <3> QED
        BY <1>2, <3>3
    <2>3. CASE i < j
      BY <2>3
    <2> QED
      BY <2>1, <2>2, <2>3
  <1>4. 0 \in Good
    OBVIOUS
  <1>5. n \in Good
    <2>1. Good \in SUBSET Nat
      OBVIOUS
    <2> HIDE DEF Good, n
    <2> QED
      BY <1>1, <1>3, <1>4, <2>1, LastOfAll
  <1> QED
    BY <1>2, <1>5

\* A document has every value that it was built of.
LEMMA BuiltHolds ==
  ASSUME NEW columns \in Seq(Paths), NEW row, build_insert_document_errors(columns, row) = {},
         NEW j \in DOMAIN columns
  PROVE  /\ columns[j] \in DOMAIN build_insert_document(columns, row)
         /\ build_insert_document(columns, row)[columns[j]] = row[j]
  <1>1. DOMAIN columns = 1 .. Len(columns) /\ Len(columns) \in Nat
    OBVIOUS
  <1>2. ASSUME NEW i \in 1 .. Len(columns), NEW k \in 1 .. Len(columns), i # k
        PROVE  ~paths_overlap(columns[i], columns[k])
    <2>1. CASE k < i
      BY <1>1, <2>1, TranslatedRow
    <2>2. CASE i < k
      <3>1. ~paths_overlap(columns[k], columns[i])
        BY <1>1, <2>2, TranslatedRow
      <3> QED
        BY <3>1 DEF paths_overlap
    <2> QED
      BY <1>2, <2>1, <2>2
  <1> QED
    BY <1>1, <1>2, StoredAllGiven DEF build_insert_document

\* It has no field apart from them.
LEMMA BuiltLacks ==
  ASSUME NEW columns \in Seq(Paths), NEW row, NEW path \in Paths,
         \A q \in ToSet(columns) : ~paths_overlap(path, q)
  PROVE  path \notin DOMAIN build_insert_document(columns, row)
  <1> SUFFICES ASSUME path \in DOMAIN build_insert_document(columns, row)
               PROVE  FALSE
    OBVIOUS
  <1>1. DOMAIN columns = 1 .. Len(columns) /\ Len(columns) \in Nat
    OBVIOUS
  <1>2. path \notin DOMAIN EmptyDocument
    BY DEF EmptyDocument
  <1>3. Origin(build_insert_document(columns, row), EmptyDocument, columns, row)
    BY <1>1, StoredAllOrigin DEF build_insert_document
  <1>4. PICK i \in 1 .. Len(columns) : path = columns[i] \/ path \in Ancestors(columns[i])
    BY <1>2, <1>3 DEF Origin
  <1>5. columns[i] \in ToSet(columns) /\ columns[i] \in Paths
    BY <1>1 DEF ToSet
  <1>6. IsPrefix(path, columns[i])
    <2>1. IsPrefix(path, path)
      BY DEF IsPrefix, Paths
    <2> QED
      BY <1>4, <1>5, <2>1, AncestorIsPrefix
  <1> QED
    BY <1>5, <1>6 DEF paths_overlap

\* Until the next statement, the document of an INSERT is the one it was built as.
InsertedIsBuilt ==
    reply.plan.kind = "Insert" =>
        /\ reply.plan.collection \in Collections
        /\ reply.plan.columns \in Seq(Paths)
        /\ build_insert_document_errors(reply.plan.columns, reply.plan.rows[1]) = {}
        /\ \A id \in DOMAIN reply.touched :
              documents[reply.plan.collection][id]
                 = build_insert_document(reply.plan.columns, reply.plan.rows[1])

\* Only an INSERT has to be looked at.
LEMMA InsertedIsBuiltStep ==
  ASSUME ReadsTyped, InsertedIsBuilt, [Next]_vars
  PROVE  InsertedIsBuilt'
  <1>1. ASSUME reply'.plan.kind # "Insert"
        PROVE  InsertedIsBuilt'
    BY <1>1 DEF InsertedIsBuilt
  <1>2. ASSUME NEW s \in StatementsOf({"Select"}), execute_select(s)
        PROVE  InsertedIsBuilt'
    <2>1. PICK plan \in parse_sql_for_profiles(s) : reply'.plan = plan
      BY <1>2 DEF execute_select, EmptyReply
    <2>2. plan.kind = "Select"
      BY LoweredSelect
    <2> QED
      BY <1>1, <2>1, <2>2
  <1>3. ASSUME NEW s \in StatementsOf({"Insert"}), execute_insert(s)
        PROVE  InsertedIsBuilt'
    <2>1. PICK plan \in parse_sql_for_profiles(s), new \in Ids : InsertPlan(plan) /\ Inserts(plan, new)
      BY <1>3, InsertEffect
    <2>2. reply'.plan = plan /\ DOMAIN reply'.touched = {new}
      BY <2>1 DEF Inserts, EmptyReply
    <2>3. documents'[plan.collection][new] = build_insert_document(plan.columns, plan.rows[1])
      BY <2>1 DEF InsertPlan, Inserts, ReadsTyped
    <2> QED
      BY <2>1, <2>2, <2>3 DEF InsertedIsBuilt, InsertPlan
  <1>4. ASSUME NEW s \in StatementsOf({"Update", "Delete"}), execute_update_or_delete(s)
        PROVE  InsertedIsBuilt'
    <2>1. PICK plan, ids : plan \in parse_sql_for_profiles(s) /\ RewritePlan(plan) /\ Rewrites(plan, ids)
      BY <1>4, UpdateOrDeleteEffect
    <2> QED
      BY <1>1, <2>1 DEF RewritePlan, Rewrites
  <1>5. ASSUME NEW s \in Statements, Refuse(s)
        PROVE  InsertedIsBuilt'
    BY <1>1, <1>5 DEF Refuse, EmptyReply, NoPlan
  <1>6. ASSUME UNCHANGED vars
        PROVE  InsertedIsBuilt'
    BY <1>6 DEF vars, InsertedIsBuilt
  <1> QED
    BY <1>2, <1>3, <1>4, <1>5, <1>6 DEF Next

\* What a SELECT * shows of a document: its own fields.
LEMMA WildcardRow ==
  ASSUME ReadsTyped, NEW c \in Collections, NEW document, NEW star,
         star.all, star.collection = c,
         NEW i \in DOMAIN WildcardColumns(c), NEW path, WildcardColumns(c)[i].source_paths = {path}
  PROVE  Row(document, star)[i]
            = IF path \in DOMAIN document
              THEN bson_to_wire_value(document[path], WildcardColumns(c)[i].sql_type) ELSE NoValue
  <1> DEFINE columns == WildcardColumns(c)
  <1>1. selected_paths(star) = [k \in DOMAIN columns |-> CHOOSE p \in columns[k].source_paths : TRUE]
    BY DEF selected_paths
  <1>2. select_fields(star) = [k \in DOMAIN columns |-> columns[k].sql_type]
    BY DEF select_fields
  <1>3. Projected(document, star) = document
    BY DEF Projected
  <1>4. (CHOOSE p \in {path} : TRUE) = path
    OBVIOUS
  <1>5. Row(document, star)[i] = value_from_document(document, path, columns[i].sql_type)
    <2> HIDE DEF columns
    <2> QED
      BY <1>1, <1>2, <1>3, <1>4 DEF Row, columns
  <1> QED
    BY <1>5, ShownValue

\* docs/WRITE_SEMANTICS.md:9-10: right after an INSERT, a SELECT * shows its values
\* and nothing else, whatever the columns, their nesting and their order are.
THEOREM InsertsAreSelected == Spec => []InsertedIsSelected
<1>1. ASSUME ReadsInv, InsertedIsBuilt PROVE InsertedIsSelected
  <2> SUFFICES ASSUME NEW id \in DOMAIN reply.touched, reply.plan.kind = "Insert",
                      NEW i \in DOMAIN WildcardColumns(reply.plan.collection),
                      NEW p \in WildcardColumns(reply.plan.collection)[i].source_paths,
                      NEW star, star = [kind |-> "Select", collection |-> reply.plan.collection,
                                        all |-> TRUE, projection |-> <<>>, filter |-> {}, limit |-> {}]
               PROVE  LET given == {reply.plan.rows[1][j] :
                                       j \in {k \in DOMAIN reply.plan.columns : reply.plan.columns[k] = p}}
                          shown == Row(documents[reply.plan.collection][id], star)[i]
                          type  == WildcardColumns(reply.plan.collection)[i].sql_type
                      IN  /\ \A value \in given : shown = bson_to_wire_value(value, type)
                          /\ (\A q \in ToSet(reply.plan.columns) : ~paths_overlap(p, q))
                                => shown = NoValue
    BY DEF InsertedIsSelected
  <2> DEFINE c == reply.plan.collection
             columns == reply.plan.columns
             row == reply.plan.rows[1]
             document == documents[c][id]
             shown == Row(document, star)[i]
             type == WildcardColumns(c)[i].sql_type
  <2>1. /\ c \in Collections /\ columns \in Seq(Paths)
        /\ build_insert_document_errors(columns, row) = {}
        /\ document = build_insert_document(columns, row)
    BY <1>1 DEF InsertedIsBuilt
  <2>2. p \in Fields(c) /\ WildcardColumns(c)[i].source_paths = {p}
    BY <1>1, <2>1, WildcardColumn DEF ReadsInv
  <2>3. shown = IF p \in DOMAIN document THEN bson_to_wire_value(document[p], type) ELSE NoValue
    <3>1. star.all /\ star.collection = c
      OBVIOUS
    <3> QED
      BY <1>1, <2>1, <2>2, <3>1, WildcardRow DEF ReadsInv
  <2> HIDE DEF shown, document
  <2>4. ASSUME NEW j \in DOMAIN columns, columns[j] = p
        PROVE  shown = bson_to_wire_value(row[j], type)
    <3>1. p \in DOMAIN document /\ document[p] = row[j]
      BY <2>1, <2>4, BuiltHolds
    <3> QED
      BY <2>3, <3>1
  <2>5. ASSUME \A q \in ToSet(columns) : ~paths_overlap(p, q)
        PROVE  shown = NoValue
    <3>1. p \in Paths
      BY <1>1, <2>1, <2>2, FieldsArePaths DEF ReadsInv
    <3>2. p \notin DOMAIN document
      BY <2>1, <2>5, <3>1, BuiltLacks
    <3> QED
      BY <2>3, <3>2
  <2> QED
    BY <2>4, <2>5 DEF shown, document
<1>2. Init => InsertedIsBuilt
  BY DEF Init, InsertedIsBuilt, EmptyReply, NoPlan
<1>3. ReadsInv /\ InsertedIsBuilt /\ [Next]_vars => InsertedIsBuilt'
  BY InsertedIsBuiltStep DEF ReadsInv
<1>4. ReadsInv /\ InsertedIsBuilt => InsertedIsSelected
  BY <1>1
<1>5. QED
  BY <1>2, <1>3, <1>4, ReadsInvariant, PTL DEF Spec

=============================================================================
