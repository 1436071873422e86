--------------------------------- MODULE Reads ---------------------------------
(***************************************************************************)
(* SELECT statements against tables that change only through the proxy:    *)
(* name resolution and lowering (crates/sql-engine), the find operation    *)
(* (crates/mongo-executor) and the rows a client sees (crates/proxy).      *)
(*                                                                         *)
(* Statements are parsed texts whose fields are still lists of identifiers *)
(* (SqlNames).  A projection of <<>> is the wildcard, a limit is a set of  *)
(* at most one literal.  A filter has the form of SqlPlans, its leaves     *)
(* with names in place of a path; an empty one is no WHERE clause.         *)
(*                                                                         *)
(* One step stands for a whole statement.  A find sees the documents of    *)
(* one moment.  Writes are those of MongoWrites, without the ambiguity     *)
(* gate of WriteGate: it refuses some of them and puts an observed type    *)
(* in place of another, both of which are steps of this module as well.    *)
(***************************************************************************)
EXTENDS Catalog, MongoWrites, SqlNames

CONSTANTS
    Samples,    \* collection -> the documents it held when it was discovered
    Statements,
    Ids         \* what identifies documents

\* The samples are documents of finitely many fields, of the types that discovery
\* knows.
ASSUME SamplesAssumption ==
    \A c \in DOMAIN Samples :
        /\ DOMAIN Samples[c] \subseteq Ids
        /\ \A id \in DOMAIN Samples[c] :
              /\ IsDocument(Samples[c][id])
              /\ IsFiniteSet(DOMAIN Samples[c][id])
              /\ \A path \in DOMAIN Samples[c][id] : Samples[c][id][path].type \in ObservedTypes

ASSUME IdsAssumption == IsFiniteSet(Ids)

\* What the parser makes of the lists of a statement.
ASSUME StatementsAssumption ==
    \A s \in Statements :
        /\ s.kind \in {"Select", "Insert", "Update", "Delete"}
        /\ s.kind = "Select" => s.projection \in Seq(Names) /\ s.limit \subseteq SqlValues
        /\ s.kind = "Insert" => /\ s.columns \in Seq(Identifiers)
                               /\ s.row \in [DOMAIN s.columns -> SqlValues]
        /\ s.kind = "Update" => s.assignments \in Seq([names : Names, value : SqlValues])

VARIABLES
    profiles,   \* what the proxy loaded at startup, never changed
    catalog,    \* the tables projected from it, never changed either
    documents,  \* collection -> id -> document
    reply       \* the last statement, what it read or wrote, and its answer

vars == <<profiles, catalog, documents, reply>>

Collections == DOMAIN Samples

NoPlan == [kind |-> "None"]
EmptyReply == [kind |-> "none", plan |-> NoPlan, fields |-> <<>>, rows |-> <<>>, touched |-> <<>>]

Fields(c) == DOMAIN profiles[c]

-----------------------------------------------------------------------------
(* Lowering *)

parse_predicate(filter, c) ==
    LET resolved(leaf) ==
            {Leaf(p, leaf.op, leaf.values) : p \in resolve_field(leaf.names, c, Fields(c))}
    IN  {{UNION {resolved(leaf) : leaf \in alternative} : alternative \in f} :
            f \in {g \in {filter} : \A leaf \in Leaves(g) : resolved(leaf) # {}}}

\* UPDATE and DELETE are refused without a WHERE clause.
parse_write_predicate(filter, c) == {f \in parse_predicate(filter, c) : f # {}}

validate_read_predicate(filter, schema) ==
    \A leaf \in Leaves(filter) :
        \A value \in leaf.values : validate_value(schema[leaf.path], value, FALSE)

\* Every name of a list, or nothing when one of them is unknown.
ResolvedAll(names, c) ==
    LET paths == [i \in DOMAIN names |-> resolve_field(names[i], c, Fields(c))]
    IN  {[i \in DOMAIN p |-> CHOOSE path \in p[i] : TRUE] :
            p \in {q \in {paths} : \A i \in DOMAIN q : q[i] # {}}}

\* A non-negative integer literal; zero is one.
parse_limit(limit) == \A value \in limit : value.type = "Integer" /\ value.int >= 0

parse_projection(projection, c) == ResolvedAll(projection, c)

parse_select(s) ==
    {[kind |-> "Select", collection |-> s.collection, all |-> s.projection = <<>>,
      projection |-> projection, filter |-> filter, limit |-> {v.int : v \in s.limit}] :
        projection \in parse_projection(s.projection, s.collection),
        filter \in {f \in parse_predicate(s.filter, s.collection) :
                       /\ validate_read_predicate(f, profiles[s.collection])
                       /\ parse_limit(s.limit)}}

parse_insert(s) ==
    LET c == s.collection
        columns == [i \in DOMAIN s.columns |-> resolve_insert_column(s.columns[i], c, Fields(c))]
    IN  {[kind |-> "Insert", collection |-> c, rows |-> <<s.row>>,
          columns |-> [i \in DOMAIN x |-> CHOOSE path \in x[i] : TRUE]] :
            x \in {y \in {columns} : \A i \in DOMAIN y : y[i] # {}}}

parse_update(s) ==
    LET names == [i \in DOMAIN s.assignments |-> s.assignments[i].names]
    IN  {[kind |-> "Update", collection |-> s.collection, filter |-> filter,
          assignments |-> [i \in DOMAIN paths |->
                              [path |-> paths[i], value |-> s.assignments[i].value]]] :
            paths \in ResolvedAll(names, s.collection),
            filter \in parse_write_predicate(s.filter, s.collection)}

parse_delete(s) ==
    {[kind |-> "Delete", collection |-> s.collection, filter |-> filter] :
        filter \in parse_write_predicate(s.filter, s.collection)}

\* The plan of a statement on a configured collection: none on an error.
parse_sql_for_profiles(s) ==
    IF s.collection \notin Collections THEN {}
    ELSE IF s.kind = "Select" THEN parse_select(s)
    ELSE {plan \in CASE s.kind = "Insert" -> parse_insert(s)
                     [] s.kind = "Update" -> parse_update(s)
                     [] s.kind = "Delete" -> parse_delete(s) :
             lower_statement(plan, profiles[s.collection])}

-----------------------------------------------------------------------------
(* Execution of a SELECT *)

\* Columns of one source path; two paths in one column are in no SELECT *.
WildcardColumns(c) ==
    InSomeOrder({column \in ToSet(catalog[c]) : Cardinality(column.source_paths) = 1})

\* Mutant: every column, with one of its paths.
selected_paths_all(plan) ==
    IF ~plan.all THEN plan.projection
    ELSE LET columns == catalog[plan.collection]
         IN  [i \in DOMAIN columns |-> CHOOSE p \in columns[i].source_paths : TRUE]

selected_paths(plan) ==
    IF ~plan.all THEN plan.projection
    ELSE LET columns == WildcardColumns(plan.collection)
         IN  [i \in DOMAIN columns |-> CHOOSE p \in columns[i].source_paths : TRUE]

\* A named field has the type of the column of its name, which always exists.
select_fields(plan) ==
    IF ~plan.all
    THEN [i \in DOMAIN plan.projection |->
             (CHOOSE column \in ToSet(catalog[plan.collection]) :
                 column.column_name = display_name(plan.projection[i])).sql_type]
    ELSE LET columns == WildcardColumns(plan.collection)
         IN  [i \in DOMAIN columns |-> columns[i].sql_type]

\* What the find asks for: nothing for a wildcard.
projection_document(plan) == {MongoPath(p) : p \in ToSet(plan.projection)}

SelectErrors(plan) ==
    predicate_document_errors(plan.filter)
    \cup {"FeatureNotSupported" : p \in {q \in ToSet(plan.projection) : is_literal_dotted_key(q)}}

\* MongoDB refuses a projection of a field and of one inside it (external).
PathCollision(plan) ==
    \E p, q \in projection_document(plan) : p # q /\ paths_overlap(p, q)

\* The part of a document that MongoDB returns (external).
Projected(document, plan) ==
    IF plan.all THEN document
    ELSE [q \in {r \in DOMAIN document : \E p \in projection_document(plan) : paths_overlap(p, r)} |->
             document[q]]

Row(document, plan) ==
    [i \in DOMAIN selected_paths(plan) \cap DOMAIN select_fields(plan) |->
        value_from_document(Projected(document, plan), selected_paths(plan)[i], select_fields(plan)[i])]

Selects(plan, document) == plan.filter = {} \/ Matches(plan.filter, document)

\* Which of the found documents a find with a limit returns (external): any of
\* them, as many as there are up to the limit, and all for a limit of zero.
Limited(plan, found) ==
    IF plan.limit \subseteq {0} THEN {found}
    ELSE {some \in SUBSET found :
             \A n \in plan.limit : Cardinality(some) = IF n < Cardinality(found) THEN n
                                                       ELSE Cardinality(found)}

-----------------------------------------------------------------------------
(* Steps *)

Init ==
    /\ profiles = [c \in Collections |-> infer(Samples[c])]
    /\ catalog = project_public_collections(profiles)
    /\ documents = Samples
    /\ reply = EmptyReply

execute_select(s) ==
    \E plan \in parse_sql_for_profiles(s) :
        /\ SelectErrors(plan) = {}
        /\ ~PathCollision(plan)
        /\ LET held  == documents[plan.collection]
               found == {id \in DOMAIN held : Selects(plan, held[id])}
           IN  \E ids \in Limited(plan, found) :
                  reply' = [EmptyReply EXCEPT !.kind = "rows", !.plan = plan,
                                              !.fields = select_fields(plan),
                                              !.rows = [id \in ids |-> Row(held[id], plan)]]
        /\ UNCHANGED <<profiles, catalog, documents>>

\* Not lowered, not translated, or refused by MongoDB.
Refuse(s) ==
    /\ \A plan \in parse_sql_for_profiles(s) :
          IF plan.kind = "Select" THEN SelectErrors(plan) # {} \/ PathCollision(plan)
          ELSE \/ TranslationErrors(plan) # {}
               \/ plan.kind = "Update" /\ SetConflict(plan.assignments)
    /\ reply' = [EmptyReply EXCEPT !.kind = "error"]
    /\ UNCHANGED <<profiles, catalog, documents>>

\* An UPDATE or DELETE may stop after some of the documents it matches, and at
\* one in which MongoDB cannot set the field.
execute_update_or_delete(s) ==
    \E plan \in parse_sql_for_profiles(s) :
        /\ TranslationErrors(plan) = {}
        /\ plan.kind = "Update" => ~SetConflict(plan.assignments)
        /\ LET held    == documents[plan.collection]
               matched == {id \in DOMAIN held : Matches(plan.filter, held[id])}
               able    == {id \in matched : plan.kind = "Delete" \/ ~CannotSet(plan.assignments, held[id])}
           IN  \E ids \in SUBSET able :
                  /\ documents' = [documents EXCEPT ![plan.collection] =
                        IF plan.kind = "Delete" THEN [id \in DOMAIN held \ ids |-> held[id]]
                        ELSE [id \in DOMAIN held |->
                                 IF id \in ids THEN update_document(plan.assignments, held[id]) ELSE held[id]]]
                  /\ reply' = [EmptyReply EXCEPT !.kind = IF ids = matched THEN "written" ELSE "error",
                                                 !.plan = plan,
                                                 !.touched = [id \in ids |-> held[id]]]
        /\ UNCHANGED <<profiles, catalog>>

execute_insert(s) ==
    \E plan \in parse_sql_for_profiles(s) :
        /\ TranslationErrors(plan) = {}
        /\ Ids # DOMAIN documents[plan.collection]
        /\ LET held == documents[plan.collection]
               new  == CHOOSE id \in Ids \ DOMAIN held : TRUE
           IN  /\ documents' = [documents EXCEPT ![plan.collection] =
                    [id \in DOMAIN held \cup {new} |->
                        IF id = new THEN build_insert_document(plan.columns, plan.rows[1]) ELSE held[id]]]
               /\ reply' = [EmptyReply EXCEPT !.kind = "written", !.plan = plan,
                                              !.touched = [id \in {new} |-> EmptyDocument]]
        /\ UNCHANGED <<profiles, catalog>>

StatementsOf(kinds) == {s \in Statements : s.kind \in kinds}

Next ==
    \/ \E s \in StatementsOf({"Select"}) : execute_select(s)
    \/ \E s \in StatementsOf({"Update", "Delete"}) : execute_update_or_delete(s)
    \/ \E s \in StatementsOf({"Insert"}) : execute_insert(s)
    \/ \E s \in Statements : Refuse(s)

Spec == Init /\ [][Next]_vars

-----------------------------------------------------------------------------
(* Properties *)

\* Every stored document is one: what encloses a field is a document.
ReadsTypeOK ==
    /\ DOMAIN documents = Collections
    /\ \A c \in Collections :
          /\ DOMAIN documents[c] \subseteq Ids
          /\ \A id \in DOMAIN documents[c] : \A p \in DOMAIN documents[c][id] :
                \A q \in Ancestors(p) :
                    q \in DOMAIN documents[c][id] /\ documents[c][id][q].type = "Document"
    /\ reply.kind \in {"none", "error", "rows", "written"}

\* SQL's three-valued reading of a leaf on a row that shows NULL where a field is
\* null or missing: TRUE, or else FALSE or unknown.
SqlTrue(leaf, document) ==
    LET shown == {v \in value_at_path(document, leaf.path) : v.type # "Null"}
    IN  CASE leaf.op = "IsNull"    -> shown = {}
          [] leaf.op = "IsNotNull" -> shown # {}
          [] leaf.op \in {"Equal", "In"} ->
                \E x \in shown, v \in leaf.values : BsonEqual(x, v)
          [] leaf.op \in {"NotEqual", "NotIn"} ->
                \E x \in shown : \A v \in leaf.values : ~BsonEqual(x, v)
          [] OTHER -> \E x \in shown, v \in leaf.values : Compares(leaf.op, x, v)

SqlSelects(filter, document) ==
    \/ filter = {}
    \/ \E alternative \in filter : \A leaf \in alternative : SqlTrue(leaf, document)

Uses(filter, operators) == \E leaf \in Leaves(filter) : leaf.op \in operators

\* predicate_document: up to its reading of null and missing fields, the filter
\* is the WHERE clause.  Without <> and NOT IN every returned row satisfies it,
\* without IS NULL and LIMIT every row that satisfies it is returned, and with a
\* LIMIT of more than zero no more rows than that.
RowsAreSql ==
    reply.kind = "rows" =>
        LET filter == reply.plan.filter
            held   == documents[reply.plan.collection]
        IN  /\ \A id \in DOMAIN reply.rows :
                  Uses(filter, {"NotEqual", "NotIn"}) \/ SqlSelects(filter, held[id])
            /\ \A id \in DOMAIN held :
                  SqlSelects(filter, held[id]) /\ ~Uses(filter, {"IsNull"}) /\ reply.plan.limit = {}
                      => id \in DOMAIN reply.rows
            /\ \A n \in reply.plan.limit \ {0} : Cardinality(DOMAIN reply.rows) =< n

\* mongo-executor/src/lib.rs:146: "Every matching document is updated".  Without <>
\* and NOT IN, an UPDATE or DELETE reaches only rows of its WHERE clause; without
\* IS NULL, one that is reported as done reached every row of it.
WritesAreSql ==
    reply.plan.kind \in {"Update", "Delete"} =>
        LET filter == reply.plan.filter
            held   == documents[reply.plan.collection]
        IN  /\ \A id \in DOMAIN reply.touched :
                  Uses(filter, {"NotEqual", "NotIn"}) \/ SqlSelects(filter, reply.touched[id])
            /\ reply.kind = "written" /\ ~Uses(filter, {"IsNull"}) =>
                  \A id \in DOMAIN held \ DOMAIN reply.touched : ~SqlSelects(filter, held[id])

\* What a client that was told the type of a column can read.  A Jsonb column
\* may hold anything: a string in it goes out as bare text, which is no JSON.
Fits(wire, sql_type) ==
    \/ wire.kind = "Null"
    \/ sql_type = "Jsonb"
    \/ sql_type = SqlTypeOf[wire.value.type]

\* catalog/src/lib.rs: a column is announced with a type only when discovery can
\* prove it.  While the table changes through the proxy alone, every value of
\* every row has the announced type, and a row has a value for every column: the
\* type policy of writes and the catalog of reads agree.
AnnouncedTypesFit ==
    \A id \in DOMAIN reply.rows :
        /\ DOMAIN reply.rows[id] = DOMAIN reply.fields
        /\ \A i \in DOMAIN reply.fields : Fits(reply.rows[id][i], reply.fields[i])

\* resolve.rs: every field of a profile can be named, whatever the collection and
\* the other fields are called: by its segments in quotes, and by its segments
\* after the name of the collection.  An INSERT reaches a column by the name the
\* catalog lists, and the one field of a column that has one.
FieldsCanBeNamed ==
    \A c \in Collections : \A p \in Fields(c) :
        LET reached == resolve_insert_column(Ident(display_name(p), TRUE), c, Fields(c))
        IN  /\ resolve_field(Spelled(p, TRUE), c, Fields(c)) = {p}
            /\ resolve_field(<<Ident(c, FALSE)>> \o Spelled(p, FALSE), c, Fields(c)) = {p}
            /\ reached # {} /\ \A q \in reached : display_name(q) = display_name(p)
            /\ ~profiles[c][p].has_dotted_key_collision => reached = {p}

\* docs/WRITE_SEMANTICS.md:9-10: an INSERT creates documents from its columns and
\* values only, nested where a path is: a SELECT * of the new row shows the
\* values it was given and NULL in every column that has no field of it.
InsertedIsSelected ==
    \A id \in DOMAIN reply.touched :
        reply.plan.kind = "Insert" =>
            LET c       == reply.plan.collection
                columns == WildcardColumns(c)
                star    == [kind |-> "Select", collection |-> c, all |-> TRUE, projection |-> <<>>,
                            filter |-> {}, limit |-> {}]
            IN  \A i \in DOMAIN columns : \A p \in columns[i].source_paths :
                    LET given == {reply.plan.rows[1][j] :
                                     j \in {k \in DOMAIN reply.plan.columns : reply.plan.columns[k] = p}}
                        shown == Row(documents[c][id], star)[i]
                    IN  /\ \A value \in given : shown = bson_to_wire_value(value, columns[i].sql_type)
                        /\ (\A q \in ToSet(reply.plan.columns) : ~paths_overlap(p, q)) => shown = NoValue

\* mongo-executor/src/lib.rs:146: "Every matching document is updated, mirroring
\* SQL `UPDATE` semantics": whatever an UPDATE touches satisfies its WHERE clause.
UpdatesMirrorSql ==
    \A id \in DOMAIN reply.touched :
        reply.plan.kind = "Update" => SqlSelects(reply.plan.filter, reply.touched[id])

=============================================================================
