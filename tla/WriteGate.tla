------------------------------ MODULE WriteGate ------------------------------
(***************************************************************************)
(* One SQL write from the client's statement to its answer: lowering and   *)
(* type policy, ambiguity gate, resolver call, executor, MongoDB, audit    *)
(* (crates/proxy/src/lib.rs execute_plan, crates/proxy/src/ambiguity.rs).  *)
(*                                                                         *)
(* Every session is its own tokio task and they share the collection and   *)
(* the audit vector.  A task runs without yielding between two awaits, so  *)
(* an action is the code from one await to the next: the two awaits are    *)
(* the resolver's HTTP call and the MongoDB operation.  A statement of     *)
(* Statements is one client statement; statements of one session are       *)
(* those that start after the earlier one was answered.                    *)
(*                                                                         *)
(* MongoDB writes document by document and interleaves operations; an      *)
(* operation whose reply is lost goes on.  The proxy may crash, which      *)
(* empties the audit vector: it is held in memory only.                    *)
(***************************************************************************)
EXTENDS AmbiguityPolicy, MongoWrites

CONSTANTS
    Statements,         \* statement instances
    Plans,              \* the write plans a client may submit
    Collections,        \* the collection contents the system may start from
    SampleSize,         \* documents read by schema discovery
    MinimumConfidence,  \* AMBIGUITY_RESOLVER_MIN_CONFIDENCE, in basis points
    Responses,          \* what the resolver may answer, target path apart
    MaxRows,            \* rows of an INSERT
    MaxCrashes          \* bound on proxy crashes

ASSUME SampleAssumption == SampleSize \in Nat \ {0}
ASSUME ConfidenceAssumption == MinimumConfidence \in 0 .. FullConfidence
ASSUME BoundsAssumption == MaxCrashes \in Nat /\ MaxRows \in Nat

\* Lowered plans are of one of three shapes, and an INSERT has at least one row.
ASSUME PlansAssumption ==
    \A p \in Plans :
        /\ p.kind \in {"Insert", "Update", "Delete"}
        /\ p.kind = "Insert" => IsInsert(p) /\ Len(p.rows) \in 1 .. MaxRows
        /\ p.kind = "Update" => IsUpdate(p)
        /\ p.kind = "Delete" => IsDelete(p)

\* A response is any JSON object of the right fields: the path and the operation
\* are those of the request or others, the rationale is given by its length.
ASSUME ResponsesAssumption ==
    Responses \subseteq
        [contract_version       : STRING,
         schema_profile_version : Nat,
         operation              : {"same", "other"},
         target_path            : {"same", "other"},
         candidate              : ResolutionCandidates,
         confidence             : [neg : BOOLEAN, bp : Nat],
         rationale              : Nat]

\* Collections hold documents of finitely many fields, of types that discovery knows.
ASSUME CollectionsAssumption ==
    \A c \in Collections : \A d \in DOMAIN c :
        /\ IsDocument(c[d]) /\ IsFiniteSet(DOMAIN c[d])
        /\ \A path \in DOMAIN c[d] : c[d][path].type \in ObservedTypes

ASSUME FinitenessAssumption ==
    IsFiniteSet(Statements) /\ IsFiniteSet(UNION {DOMAIN c : c \in Collections})

VARIABLES
    schema,     \* the profile loaded at startup
    coll,       \* document id -> document
    pc,         \* where each statement is
    plan,       \* the lowered plan of each statement
    sent,       \* the plan handed to MongoDB
    context,    \* the audit context carried to completion: at most one
    op,         \* the MongoDB operation of each statement
    todo,       \* documents the operation has yet to reach
    hits,       \* how often the operation wrote each document
    answer,     \* what the client was told
    rows,       \* the affected rows of a successful answer
    audit,      \* audit_records
    forgotten,  \* statements begun before the last crash
    crashes

mongoVars == <<coll, op, todo, hits>>
vars == <<schema, coll, pc, plan, sent, context, op, todo, hits, answer, rows,
          audit, forgotten, crashes>>

-----------------------------------------------------------------------------

InitialIds == UNION {DOMAIN c : c \in Collections}
RowIds(s) == {<<s, i>> : i \in 1 .. MaxRows}
DocIds == InitialIds \cup UNION {RowIds(s) : s \in Statements}

NoPlan == [kind |-> "None"]

\* Errors reported before MongoDB was called; Database and a lost connection
\* leave the outcome open.
CleanErrors == {"InvalidInput", "FeatureNotSupported", "AmbiguousWrite", "Dependency"}
Answers == CleanErrors \cup {"none", "ok", "Database", "ConnectionLost"}

AuditFailures == {"NoSafeResolution", "ResolverRejected", "ResolverUnavailable",
                  "InvalidResolverResponse", "StaleSchemaProfile", "LowConfidence",
                  "MongoExecutionFailed"}

Ambiguities(p, sch) == detect_write_ambiguities(p, sch)

\* The statement is stopped by the gate unless a resolution is validated.
NeedsResolution(p, sch) == lower_statement(p, sch) /\ Ambiguities(p, sch) # {}

SoleAmbiguity(p, sch) == CHOOSE a \in Ambiguities(p, sch) : TRUE

Request(p, sch) == resolver_request(p, SoleAmbiguity(p, sch))

\* Exactly one ambiguity, and Rust offers something other than Reject for it.
Resolvable(p, sch) ==
    /\ Cardinality(Ambiguities(p, sch)) = 1
    /\ has_executable_candidate(Request(p, sch).allowed_candidates)

AllowedCandidates(p, sch) ==
    IF Cardinality(Ambiguities(p, sch)) = 1
    THEN Request(p, sch).allowed_candidates
    ELSE {"Reject"}

\* The redacted ambiguities of a record are those of its plan and are left out;
\* stmt, which the code does not record, tells the records apart here.
AuditRecord(s, p, sch, ctx, outcome, count) ==
    [stmt               |-> s,
     operation          |-> p.kind,
     allowed_candidates |-> AllowedCandidates(p, sch),
     selected_candidate |-> {c.selected_candidate : c \in ctx},
     confidence         |-> {c.confidence : c \in ctx},
     outcome            |-> outcome,
     count              |-> count]

Affected(s) == {d \in DocIds : hits[s][d] > 0}

-----------------------------------------------------------------------------

Init ==
    /\ coll \in Collections
    /\ \E sample \in SUBSET DOMAIN coll :
          /\ \/ Cardinality(sample) = SampleSize
             \/ sample = DOMAIN coll /\ Cardinality(sample) < SampleSize
          /\ schema = infer([d \in sample |-> coll[d]])
    /\ pc = [s \in Statements |-> "new"]
    /\ plan = [s \in Statements |-> NoPlan]
    /\ sent = [s \in Statements |-> NoPlan]
    /\ context = [s \in Statements |-> {}]
    /\ op = [s \in Statements |-> "none"]
    /\ todo = [s \in Statements |-> {}]
    /\ hits = [s \in Statements |-> [d \in DocIds |-> 0]]
    /\ answer = [s \in Statements |-> "none"]
    /\ rows = [s \in Statements |-> 0]
    /\ audit = <<>>
    /\ forgotten = {}
    /\ crashes = 0

-----------------------------------------------------------------------------
(* Steps shared by the handlers *)

Answer(s, what) ==
    /\ pc' = [pc EXCEPT ![s] = "answered"]
    /\ answer' = [answer EXCEPT ![s] = what]

\* record_execution and record_mongo_execution_failure: nothing without a context.
RecordIfGated(s, p, ctx, outcome, count) ==
    audit' = IF ctx = {} THEN audit
             ELSE Append(audit, AuditRecord(s, p, schema, ctx, outcome, count))

record_blocked(s, p, failure) ==
    audit' = Append(audit, AuditRecord(s, p, schema, {}, failure, 0))

\* Mutant: rows are numbered from zero.
Targets_zero_based(s, p) ==
    IF p.kind = "Insert" THEN {<<s, i - 1>> : i \in DOMAIN p.rows} ELSE DOMAIN coll

\* insert_many takes the rows; update_many and delete_many visit the collection.
Targets(s, p) ==
    IF p.kind = "Insert" THEN {<<s, i>> : i \in DOMAIN p.rows} ELSE DOMAIN coll

\* execute_write up to the await: the operation goes to MongoDB.
Dispatch(s, p, ctx) ==
    /\ TranslationErrors(p) = {}
    /\ pc' = [pc EXCEPT ![s] = "executing"]
    /\ sent' = [sent EXCEPT ![s] = p]
    /\ context' = [context EXCEPT ![s] = ctx]
    /\ op' = [op EXCEPT ![s] = "running"]
    /\ todo' = [todo EXCEPT ![s] = Targets(s, p)]
    /\ UNCHANGED <<coll, hits, answer, rows, audit>>

\* execute_write fails before MongoDB is called.
RefuseTranslation(s, p, original, ctx) ==
    /\ \E kind \in TranslationErrors(p) : Answer(s, kind)
    /\ RecordIfGated(s, original, ctx, "MongoExecutionFailed", 0)
    /\ UNCHANGED <<mongoVars, sent, context, rows>>

-----------------------------------------------------------------------------
(* The client's statement, up to the first await *)

Submit(s, p) ==
    /\ pc[s] = "new"
    /\ plan' = [plan EXCEPT ![s] = p]
    /\ UNCHANGED <<schema, forgotten, crashes>>

\* Lowering or the type policy refuses the statement.
SubmitInvalid(s, p) ==
    /\ Submit(s, p)
    /\ ~lower_statement(p, schema)
    /\ Answer(s, "InvalidInput")
    /\ UNCHANGED <<mongoVars, sent, context, rows, audit>>

\* Several ambiguities, or one that only Reject could answer.
SubmitBlocked(s, p) ==
    /\ Submit(s, p)
    /\ NeedsResolution(p, schema)
    /\ ~Resolvable(p, schema)
    /\ record_blocked(s, p, "NoSafeResolution")
    /\ Answer(s, "AmbiguousWrite")
    /\ UNCHANGED <<mongoVars, sent, context, rows>>

SubmitAmbiguous(s, p) ==
    /\ Submit(s, p)
    /\ NeedsResolution(p, schema)
    /\ Resolvable(p, schema)
    /\ pc' = [pc EXCEPT ![s] = "resolving"]
    /\ UNCHANGED <<mongoVars, sent, context, answer, rows, audit>>

\* No ambiguity: the resolver is not contacted.
SubmitClear(s, p) ==
    /\ Submit(s, p)
    /\ lower_statement(p, schema)
    /\ ~NeedsResolution(p, schema)
    /\ Dispatch(s, p, {}) \/ RefuseTranslation(s, p, p, {})

-----------------------------------------------------------------------------
(* The resolver answers, or the HTTP call fails or times out *)

\* A response as it arrives: it may name another path than the request's.
ResponseFor(s, r) ==
    [r EXCEPT !.target_path = IF r.target_path = "same"
                              THEN Request(plan[s], schema).target_path ELSE <<>>,
              !.operation = IF r.operation = "same" THEN plan[s].kind ELSE "other"]

Accepted(s, r) ==
    validate_resolver_response(Request(plan[s], schema), ResponseFor(s, r), MinimumConfidence)

Applicable(s, r) ==
    CandidateApplies(plan[s], Request(plan[s], schema).target_path, r.candidate)

ResolverReply(s) ==
    /\ pc[s] = "resolving"
    /\ UNCHANGED <<schema, plan, forgotten, crashes>>

RejectResponse(s, r) ==
    /\ ResolverReply(s)
    /\ ~Accepted(s, r)
    /\ record_blocked(s, plan[s], validation_failure(Request(plan[s], schema),
                                                     ResponseFor(s, r), MinimumConfidence))
    /\ Answer(s, "AmbiguousWrite")
    /\ UNCHANGED <<mongoVars, sent, context, rows>>

\* Reject was chosen, or the candidate does not fit the plan.
RejectResolution(s, r) ==
    /\ ResolverReply(s)
    /\ Accepted(s, r)
    /\ ~Applicable(s, r)
    /\ record_blocked(s, plan[s], "ResolverRejected")
    /\ Answer(s, "AmbiguousWrite")
    /\ UNCHANGED <<mongoVars, sent, context, rows>>

\* The confidence is checked for the audit last, and this error is not recorded.
RejectConfidence(s, r) ==
    /\ ResolverReply(s)
    /\ Accepted(s, r)
    /\ Applicable(s, r)
    /\ from_ratio(r.confidence) = {}
    /\ Answer(s, "AmbiguousWrite")
    /\ UNCHANGED <<mongoVars, sent, context, rows, audit>>

AcceptResolution(s, r) ==
    /\ ResolverReply(s)
    /\ Accepted(s, r)
    /\ Applicable(s, r)
    /\ from_ratio(r.confidence) # {}
    /\ LET path == Request(plan[s], schema).target_path
           p    == apply_resolution(plan[s], path, r.candidate)
           ctx  == {[selected_candidate |-> r.candidate, confidence |-> bp] :
                       bp \in from_ratio(r.confidence)}
       IN  Dispatch(s, p, ctx) \/ RefuseTranslation(s, p, plan[s], ctx)

\* Mutant: the failed call returns early, before record_blocked.
ResolverFail_unrecorded(s) ==
    /\ ResolverReply(s)
    /\ Answer(s, "Dependency")
    /\ UNCHANGED <<mongoVars, sent, context, rows, audit>>

ResolverFail(s) ==
    /\ ResolverReply(s)
    /\ record_blocked(s, plan[s], "ResolverUnavailable")
    /\ Answer(s, "Dependency")
    /\ UNCHANGED <<mongoVars, sent, context, rows>>

-----------------------------------------------------------------------------
(* MongoDB (external): one document at a time, whatever became of the proxy *)

proxyVars == <<schema, pc, plan, sent, context, answer, rows, audit, forgotten, crashes>>

\* The operation finds nothing to do at this document.
MongoSkip(s, d) ==
    /\ op[s] = "running"
    /\ d \in todo[s]
    /\ sent[s].kind # "Insert"
    /\ d \in DOMAIN coll => ~Matches(sent[s].filter, coll[d])
    /\ todo' = [todo EXCEPT ![s] = @ \ {d}]
    /\ UNCHANGED <<proxyVars, coll, op, hits>>

\* A scan visits the documents there were at its start, and it may or may not
\* meet one that another operation inserted since.
MongoReaches(s, d) ==
    /\ op[s] = "running"
    /\ \/ d \in todo[s]
       \/ sent[s].kind # "Insert" /\ d \in DOMAIN coll \ InitialIds /\ hits[s][d] = 0
    /\ sent[s].kind # "Insert" => d \in DOMAIN coll /\ Matches(sent[s].filter, coll[d])

MongoWrite(s, d) ==
    /\ MongoReaches(s, d)
    /\ CASE sent[s].kind = "Insert" ->
              /\ \A i \in 1 .. d[2] - 1 : <<s, i>> \notin todo[s]
              /\ coll' = [e \in DOMAIN coll \cup {d} |->
                            IF e = d
                            THEN build_insert_document(sent[s].columns, sent[s].rows[d[2]])
                            ELSE coll[e]]
         [] sent[s].kind = "Update" ->
              /\ ~CannotSet(sent[s].assignments, coll[d])
              /\ coll' = [coll EXCEPT ![d] = update_document(sent[s].assignments, @)]
         [] sent[s].kind = "Delete" ->
              coll' = [e \in DOMAIN coll \ {d} |-> coll[e]]
    /\ todo' = [todo EXCEPT ![s] = @ \ {d}]
    /\ hits' = [hits EXCEPT ![s][d] = @ + 1]
    /\ UNCHANGED <<proxyVars, op>>

\* A document cannot take the update: the operation stops there.
MongoCannotSet(s, d) ==
    /\ MongoReaches(s, d)
    /\ sent[s].kind = "Update"
    /\ CannotSet(sent[s].assignments, coll[d])
    /\ op' = [op EXCEPT ![s] = "failed"]
    /\ UNCHANGED <<proxyVars, coll, todo, hits>>

MongoFinish(s) ==
    /\ op[s] = "running"
    /\ todo[s] = {}
    /\ sent[s].kind = "Update" => ~SetConflict(sent[s].assignments)
    /\ op' = [op EXCEPT ![s] = "done"]
    /\ UNCHANGED <<proxyVars, coll, todo, hits>>

\* Any other server-side failure; also a request that never arrived.
MongoFail(s) ==
    /\ op[s] = "running"
    /\ op' = [op EXCEPT ![s] = "failed"]
    /\ UNCHANGED <<proxyVars, coll, todo, hits>>

-----------------------------------------------------------------------------
(* The driver's result, up to the answer *)

\* Mutant: a reply that comes after the answer is handled like one in time.
Completion_late(s) ==
    /\ pc[s] = "executing" \/ answer[s] = "Database"
    /\ UNCHANGED <<mongoVars, schema, plan, sent, context, forgotten, crashes>>

Completion(s) ==
    /\ pc[s] = "executing"
    /\ UNCHANGED <<mongoVars, schema, plan, sent, context, forgotten, crashes>>

\* Mutant: unacknowledged writes, the driver returns at once.
ExecuteOk_unacknowledged(s) ==
    /\ Completion(s)
    /\ RecordIfGated(s, plan[s], context[s], "Executed", Cardinality(Affected(s)))
    /\ rows' = [rows EXCEPT ![s] = Cardinality(Affected(s))]
    /\ Answer(s, "ok")

ExecuteOk(s) ==
    /\ Completion(s)
    /\ op[s] = "done"
    /\ RecordIfGated(s, plan[s], context[s], "Executed", Cardinality(Affected(s)))
    /\ rows' = [rows EXCEPT ![s] = Cardinality(Affected(s))]
    /\ Answer(s, "ok")

\* Mutant: a failed operation is not reported to the waiting task.
ExecuteError_swallowed(s) == FALSE /\ Completion(s) /\ UNCHANGED vars

ExecuteError(s) ==
    /\ Completion(s)
    /\ op[s] = "failed"
    /\ RecordIfGated(s, plan[s], context[s], "MongoExecutionFailed", 0)
    /\ Answer(s, "Database")
    /\ UNCHANGED rows

\* Mutant: the write is issued again.
NetworkError_retry(s) ==
    /\ pc[s] = "executing"
    /\ op' = [op EXCEPT ![s] = "running"]
    /\ todo' = [todo EXCEPT ![s] = Targets(s, sent[s])]
    /\ UNCHANGED <<proxyVars, coll, hits>>

\* Mutant: write_error maps to Dependency, as a connection failure elsewhere.
NetworkError_dependency(s) ==
    /\ Completion(s)
    /\ RecordIfGated(s, plan[s], context[s], "MongoExecutionFailed", 0)
    /\ Answer(s, "Dependency")
    /\ UNCHANGED rows

\* The connection breaks: the driver reports an error and, with retry_writes
\* off and no application retry, nobody sends the operation again.
NetworkError(s) ==
    /\ Completion(s)
    /\ RecordIfGated(s, plan[s], context[s], "MongoExecutionFailed", 0)
    /\ Answer(s, "Database")
    /\ UNCHANGED rows

-----------------------------------------------------------------------------

\* Mutant: what was in flight is submitted again after the restart.
Crash_resubmits ==
    /\ crashes < MaxCrashes
    /\ crashes' = crashes + 1
    /\ pc' = [s \in Statements |-> IF pc[s] = "executing" THEN "new" ELSE pc[s]]
    /\ audit' = <<>>
    /\ forgotten' = {s \in Statements : pc[s] # "new"}
    /\ UNCHANGED <<mongoVars, schema, plan, sent, context, answer, rows>>

\* The proxy process dies and is started again on the same stored profile.
Crash ==
    /\ crashes < MaxCrashes
    /\ crashes' = crashes + 1
    /\ LET inFlight == {s \in Statements : pc[s] \in {"resolving", "executing"}}
       IN  /\ pc' = [s \in Statements |-> IF s \in inFlight THEN "answered" ELSE pc[s]]
           /\ answer' = [s \in Statements |->
                            IF s \in inFlight THEN "ConnectionLost" ELSE answer[s]]
    /\ audit' = <<>>
    /\ forgotten' = {s \in Statements : pc[s] # "new"}
    /\ UNCHANGED <<mongoVars, schema, plan, sent, context, rows>>

ClientStep(s) ==
    \E p \in Plans :
        SubmitInvalid(s, p) \/ SubmitBlocked(s, p) \/ SubmitAmbiguous(s, p) \/ SubmitClear(s, p)

ResolverStep(s) ==
    \/ \E r \in Responses :
          \/ RejectResponse(s, r) \/ RejectResolution(s, r)
          \/ RejectConfidence(s, r) \/ AcceptResolution(s, r)
    \/ ResolverFail(s)

MongoStep(s) ==
    \/ \E d \in DocIds : MongoSkip(s, d) \/ MongoWrite(s, d) \/ MongoCannotSet(s, d)
    \/ MongoFinish(s) \/ MongoFail(s)

DriverStep(s) == ExecuteOk(s) \/ ExecuteError(s)

Next ==
    \/ \E s \in Statements :
          ClientStep(s) \/ ResolverStep(s) \/ MongoStep(s) \/ DriverStep(s) \/ NetworkError(s)
    \/ Crash

\* The resolver call fails in time unless it was answered, MongoDB works on what
\* it accepted and the driver delivers its reply; nothing makes a client submit
\* or a proxy crash.
Fairness ==
    \A s \in Statements :
        WF_vars(ResolverFail(s)) /\ WF_vars(MongoStep(s)) /\ WF_vars(DriverStep(s))

Spec == Init /\ [][Next]_vars

FairSpec == Spec /\ Fairness

-----------------------------------------------------------------------------
(* Properties *)

AuditOutcomes == AuditFailures \cup {"Executed"}

AuditContexts == [selected_candidate : ResolutionCandidates, confidence : 0 .. FullConfidence]

AuditRecords ==
    [stmt               : Statements,
     operation          : {"Insert", "Update", "Delete"},
     allowed_candidates : SUBSET ResolutionCandidates,
     selected_candidate : SUBSET ResolutionCandidates,
     confidence         : SUBSET (0 .. FullConfidence),
     outcome            : AuditOutcomes,
     count              : Nat]

\* The types of the state: an operation only targets documents there are or
\* that its rows create, and every audit record is well formed.
TypeOK ==
    /\ pc \in [Statements -> {"new", "resolving", "executing", "answered"}]
    /\ op \in [Statements -> {"none", "running", "done", "failed"}]
    /\ answer \in [Statements -> Answers]
    /\ rows \in [Statements -> Nat]
    /\ plan \in [Statements -> Plans \cup {NoPlan}]
    /\ DOMAIN sent = Statements
    /\ context \in [Statements -> SUBSET AuditContexts]
    /\ DOMAIN coll \subseteq DocIds
    /\ todo \in [Statements -> SUBSET DocIds]
    /\ hits \in [Statements -> [DocIds -> Nat]]
    /\ audit \in Seq(AuditRecords)
    /\ forgotten \subseteq Statements
    /\ crashes \in 0 .. MaxCrashes

\* An error other than Database tells the client that nothing was written,
\* and nothing will be: no operation of the statement is or was at MongoDB.
CleanErrorHasNoEffect ==
    \A s \in Statements :
        answer[s] \in CleanErrors => op[s] = "none" /\ \A d \in DocIds : hits[s][d] = 0

\* No statement writes one document twice: a write is never issued again
\* after an unclear outcome.
AtMostOncePerDocument ==
    \A s \in Statements, d \in DocIds : hits[s][d] \in {0, 1}

\* A success means that the operation has ended, and the command tag counts
\* exactly the documents it wrote, whatever other sessions did meanwhile.
SuccessIsComplete ==
    \A s \in Statements :
        answer[s] = "ok" =>
            op[s] = "done" /\ todo[s] = {} /\ rows[s] = Cardinality(Affected(s))

\* Every answered attempt that needed a resolution has exactly one audit
\* record, and no other statement has any (the record outlives no crash).
AuditedOnce ==
    /\ \A i, j \in DOMAIN audit : audit[i].stmt = audit[j].stmt => i = j
    /\ \A i \in DOMAIN audit :
          pc[audit[i].stmt] = "answered" /\ NeedsResolution(plan[audit[i].stmt], schema)
    /\ \A s \in Statements \ forgotten :
          pc[s] = "answered" /\ NeedsResolution(plan[s], schema) =>
              \E i \in DOMAIN audit : audit[i].stmt = s

\* What a record says is so: an executed one gives the offered candidate, a
\* sufficient confidence and the number of documents written; any other one
\* without a selected candidate belongs to a statement that never reached MongoDB.
AuditIsTrue ==
    \A i \in DOMAIN audit :
        LET rec == audit[i] IN
        /\ rec.outcome = "Executed" =>
              /\ rec.selected_candidate \subseteq rec.allowed_candidates \ {"Reject"}
              /\ rec.selected_candidate # {}
              /\ \A bp \in rec.confidence : bp >= MinimumConfidence
              /\ answer[rec.stmt] = "ok"
              /\ rec.count = Cardinality(Affected(rec.stmt))
        /\ rec.selected_candidate = {} => op[rec.stmt] = "none"

\* Whether two values are one value in two notations: the same number, as an
\* integer and as its canonical numeral.
SameNumeral(v, w) ==
    /\ {v.type, w.type} = {"Integer", "String"}
    /\ v.int = w.int
    /\ \A u \in {v, w} : u.type = "String" => u.form = "canonical"

\* Nothing reaches MongoDB past the gate: a clear plan goes out as it was
\* lowered, an ambiguous one only with its one ambiguity decided, and then
\* with the same paths, filter and values up to the notation of a number.
OnlyAuthorisedWrites ==
    \A s \in Statements :
        op[s] # "none" =>
            IF NeedsResolution(plan[s], schema)
            THEN /\ Cardinality(Ambiguities(plan[s], schema)) = 1
                 /\ context[s] # {}
                 /\ \/ sent[s] = plan[s]
                    \/ /\ Len(sent[s].assignments) = 1
                       /\ SameNumeral(sent[s].assignments[1].value, plan[s].assignments[1].value)
                       /\ sent[s] = [plan[s] EXCEPT !.assignments[1].value =
                                                      sent[s].assignments[1].value]
            ELSE sent[s] = plan[s] /\ context[s] = {}

\* Whether a step put a new value at a path of a document.
Writes(d, path) ==
    /\ d \in DOMAIN coll' /\ path \in DOMAIN coll'[d]
    /\ d \in DOMAIN coll /\ path \in DOMAIN coll[d] => coll'[d][path] # coll[d][path]

\* The proxy brings no type into a field that discovery did not see there:
\* every value it stores is null or of a type the profile lists for its path.
\* A field that discovery saw only as null is the exception: it takes any type.
NoTypeDrift ==
    [][\A d \in DOMAIN coll' : \A path \in DOMAIN coll'[d] :
          Writes(d, path) =>
              /\ path \in DOMAIN schema
              /\ \/ coll'[d][path].type \in schema[path].observed_types \cup {"Null"}
                 \/ schema[path].observed_types = {"Null"}]_vars

\* Every statement is answered (a crash answers with a lost connection), and
\* every operation MongoDB was given comes to an end, answered or not.
EveryStatementAnswered ==
    \A s \in Statements :
        /\ pc[s] \in {"resolving", "executing"} ~> pc[s] = "answered"
        /\ op[s] = "running" ~> op[s] \in {"done", "failed"}

-----------------------------------------------------------------------------
(* The inductive invariant behind the safety properties *)

Kinds == {"Insert", "Update", "Delete"}

\* What each place in the handler knows of the statement, its operation and
\* the answer: an answer is given once, and a clean one before any operation.
PhaseOf(s) ==
    /\ answer[s] = "none" <=> pc[s] # "answered"
    /\ pc[s] \in {"new", "resolving"} => op[s] = "none"
    /\ pc[s] = "executing" => op[s] # "none"
    /\ answer[s] \in CleanErrors => op[s] = "none"
    /\ pc[s] # "new" => plan[s] \in Plans
    /\ pc[s] = "resolving" => NeedsResolution(plan[s], schema)
    /\ pc[s] = "executing" => (context[s] # {} <=> NeedsResolution(plan[s], schema))

\* A document yet to be reached was not written, a finished operation has
\* reached every document it had to, and a success has counted them.
OperationOf(s) ==
    /\ op[s] # "none" => sent[s].kind \in Kinds
    /\ op[s] \in {"none", "done"} => todo[s] = {}
    /\ op[s] = "none" => \A d \in DocIds : hits[s][d] = 0
    /\ \A d \in DocIds : hits[s][d] \in {0, 1}
    /\ \A d \in todo[s] : hits[s][d] = 0
    /\ answer[s] = "ok" => op[s] = "done" /\ rows[s] = Cardinality(Affected(s))

PhaseInv == \A s \in Statements : PhaseOf(s)

OperationInv == \A s \in Statements : OperationOf(s)

GateInv == TypeOK /\ PhaseInv /\ OperationInv

-----------------------------------------------------------------------------
(* The abstract specification *)

\* What the client knows of a statement.
Status(s) ==
    CASE pc[s] = "new" -> "new"
      [] pc[s] \in {"resolving", "executing"} -> "pending"
      [] pc[s] = "answered" /\ answer[s] = "ok" -> "done"
      [] pc[s] = "answered" /\ answer[s] \in CleanErrors -> "refused"
      [] OTHER -> "unknown"

Contract == INSTANCE WriteContract WITH
    Documents <- DocIds,
    status    <- [s \in Statements |-> Status(s)],
    written   <- [s \in Statements |-> Affected(s)],
    reported  <- rows

\* The answers of the proxy keep the write contract: a clean error is a
\* refusal, a success is final and counted, a database error leaves it open.
KeepsContract == Contract!Spec

-----------------------------------------------------------------------------
(* What documents and comments say, and the code does not do *)

\* audit.rs:112, of Blocked: "Execution was prevented by a known fail-closed
\* condition."
BlockedMeansNotExecuted ==
    \A i \in DOMAIN audit :
        audit[i].outcome # "Executed" => Affected(audit[i].stmt) = {}

\* schema-discovery lib.rs:68: "literal dotted keys are never conflated with
\* nested document paths": an update stores its value at the path it names.
UpdateReachesItsField ==
    [][\A s \in Statements, d \in DocIds :
          hits'[s][d] > hits[s][d] /\ sent[s].kind = "Update" =>
              \A a \in ToSet(sent[s].assignments) :
                  a.path \in DOMAIN coll'[d] /\ coll'[d][a.path] = a.value]_vars

=============================================================================
