# Mongres: TLA+ models, checks and proofs

Mongres is a PostgreSQL wire-protocol proxy in front of MongoDB. A client sends SQL;
the proxy lowers it to a typed plan against a schema profile inferred from sampled
documents, and executes the plan with the MongoDB driver. A write that touches a field
whose evidence is ambiguous is held at a gate: an external service (which may ask a
language model) selects one of the candidates the Rust code computed, and Rust validates
the selection before anything is written. `docs/WRITE_SEMANTICS.md` of the repository
states what clients may rely on.

This directory models in TLA+ how a connection starts, how statements are prepared, read
and write, how a write is held and resolved, and where the schema profiles come from;
model-checks all of it with TLC; and proves every safety property of the passing runs with TLAPS.

- [1. Inventory](#1-inventory)
- [2. Modules](#2-modules)
- [3. Runs](#3-runs)
- [4. Proofs](#4-proofs)
- [5. Disagreements between code and documentation](#5-disagreements-between-code-and-documentation)
- [6. Abstractions and what is not modelled](#6-abstractions-and-what-is-not-modelled)
- [7. Plan](#7-plan)

## 1. Inventory

### Components

| component | state | operations | modelled in |
|---|---|---|---|
| Write path and gate (`proxy/src/ambiguity.rs`, `proxy/src/lib.rs` `execute_plan`) | `audit_records` (a mutex-protected vector shared by all sessions), immutable profiles and catalogs | `resolve_write_plan`, `record_execution`, `record_mongo_execution_failure`, `record_blocked`, `execute_plan` | `WriteGate` |
| Ambiguity policy (`ambiguity-policy`) | none: pure | detection, candidate allowlist, request, response validation, applying a candidate, confidence conversion, audit record | `AmbiguityPolicy`, records in `WriteGate` |
| Deterministic executor (`mongo-executor`) | none of its own; the collections are MongoDB's | `execute_write`, `execute_select` | `MongoWrites`, `WriteGate`, `Reads` |
| SQL engine (`sql-engine`) | none: pure | lowering, resolution of names, type policy, projections, LIMIT; binding | `SqlPlans`, `SqlNames`, `Reads`, `Parameters` |
| Schema discovery (`schema-discovery/src/lib.rs`) | metadata collection with one record per collection | allowlist, sampling, inference, upsert, loading | `Discovery`, `SchemaProfiles`, `FieldPaths` |
| Discovery command (`schema-discovery/src/main.rs`) | environment of a run | one run over its collections, ended by success, failure or a kill | `Discovery` |
| Start of the proxy (`proxy/src/lib.rs` `run_server`) | profiles loaded so far | reading the configured profiles, refusing to start | `Discovery` |
| Resolver client (`resolver-client`) | an HTTP client | one call under a whole-request timeout | `WriteGate`, `ResolverService` |
| Resolver service (`services/ambiguity-resolver`) | none | validation of a request, choice and call of a provider, validation of its answer | `ResolverService` |
| Wire handlers (`proxy/src/lib.rs`, `parameters.rs`, `binding.rs`) | prepared statements and portals of a session | simple and extended query, describe, catalog interception, parameter types, decoding, rows | `ExtendedQuery`, `Parameters`, `Reads` |
| Startup authentication (`proxy/src/auth.rs`) | connection state | trust and cleartext password startup | `StartupAuth` |
| Catalog (`catalog`) | none: pure | profiles to tables and columns with types | `Catalog`, used by `Reads` |
| Errors (`common`) | none | error kinds | `Answers` of `WriteGate` |

### How they interact

A process starts by loading one persisted profile per configured collection; profiles do
not change while it runs. Every client connection is a tokio task. The tasks share the
MongoDB client, the resolver client and the audit vector. For a write, a task

1. lowers the statement against the profile, applying the type policy (`lowering.rs`,
   `type_policy.rs`); a refusal is `InvalidInput`;
2. detects the ambiguities of the plan. None: the plan goes to the executor. More than
   one, or one for which only `Reject` could be offered: blocked, recorded, answered
   `AmbiguousWrite`. Exactly one otherwise: it calls the resolver — *first await*;
3. validates the response, applies the candidate, converts the confidence for the audit.
   Each failure is recorded as blocked, with one exception (section 5, `-0.0`);
4. translates the plan to MongoDB documents and calls `insert_many`, `update_many` or
   `delete_many` — *second await* — with majority acknowledgement and `retry_writes` off;
5. records the outcome, if a resolution was needed, and answers the client.

An extended query adds steps before the first: a statement is prepared (its parameter
types are inferred from the schema, or those the client declares are reconciled with it),
bound to a portal with wire values, described and executed. Only at execution are the
values decoded, the text lowered a second time and the placeholders replaced. Before
anything else each of these steps looks for the name of a catalog view or session function
in the text and, if it finds one, answers with rows of the proxy's own.

The profiles come from another process. A discovery run validates its list of collections,
then takes them one after another in sorted order: it reads at most the sample size of
documents through a cursor, infers a profile and upserts it under the collection's name.
Nothing keeps two runs apart, and an upsert that was sent goes on when its run is killed. A
starting proxy reads one record per configured collection, refuses to start when one is
missing, and never reads again.

The resolver service is a third process, in another language. It checks the request
against its own copy of the contract, asks the configured provider, checks the answer
against the request and returns it to Rust, which checks it once more. Its refusals and
failures are all the same to the gate: no resolution.

A connection passes through startup before any of this. In cleartext mode it has to give
the configured name and password; the library chooses the handler by the connection's
state.

Between two awaits a task does not yield, so the five steps of a write are three atomic pieces of
code, and everything else that happens in the system may happen between
them: other statements, MongoDB writing document by document, a lost connection, the
death of the process.

### What is hard about it, and what makes it correct

- *Interleaving.* Another session changes the collection between the decision and the
  write, and while the write runs. The command tag must still count this statement's
  documents (`SuccessIsComplete`), and the records of all sessions, in one vector, must
  each be of the statement that caused them, once (`AuditedOnce`, `AuditIsTrue`).
- *Partial failure and lost replies.* A multi-document write may stop half way, or go on
  after the client was told of an error. An error that invites a retry must mean that
  nothing was and will be written (`CleanErrorHasNoEffect`, `KeepsContract`); nothing may
  reissue a write (`AtMostOncePerDocument`).
- *An untrusted decision maker.* The resolver may answer anything: another version, path
  or operation, a candidate that was not offered, a confidence that is low, above one or
  negative zero, or nothing in time. What reaches MongoDB must be the client's plan, with
  at most the notation of one number changed, and only under an accepted decision
  (`OnlyAuthorisedWrites`).
- *Stale or partial evidence.* The profile describes a sample taken earlier. Writes must
  not bring types into a field that the sample did not have there (`NoTypeDrift`).
- *Liveness.* Whatever fails, the client gets an answer (`EveryStatementAnswered`).
- *Dots in names.* A path is joined with dots for MongoDB, which splits it again
  (`UpdateReachesItsField`, which does not hold).

- *Two passes over one text.* Preparation announces types from a plan that is thrown away;
  execution lowers the text again and validates what was decoded under those types.
  The passes must agree: accept the same statements as with literals
  (`BoundLikeLiterals`), never refuse what was announced as acceptable
  (`AnnouncedTypesSuffice`), return rows exactly when they were described
  (`DescribedAsExecuted`) and execute what they acknowledge (`InsertsAreExecuted`, which
  does not hold).

- *Discovery under way.* Documents change under the cursor, runs fail between two
  collections or with an upsert on the server, and runs may overlap. Profiles must say what
  their own collection held (`ProfilesAreObserved`, `SmallCollectionsKnown`), a run must
  have refreshed a prefix of its list (`RefreshIsPrefix`) and nothing under a wrong list
  (`InvalidAllowlistChangesNothing`), and a start must take what was persisted last, which
  holds of a collection with one record only (`KeepsRegister`, `ServingIsComplete`), and be
  decided (`RunsAndStartsEnd`).
- *Two languages, one contract.* What Rust sends, the service must take
  (`OtherRequestsTaken`), and what the service returns, Rust must accept
  (`AnswersPassTwice`, `LocalAdviceResolves`), each with exceptions that the code has.
- *Two readings of one profile.* Columns are typed by the catalog, writes are checked by the
  type policy, names are resolved in two ways and values are zipped with columns computed
  elsewhere. They must agree (`AnnouncedTypesFit`, `FieldsCanBeNamed`,
  `InsertedIsSelected`), and a MongoDB filter must be the WHERE clause it came from
  (`RowsAreSql`, `WritesAreSql`; `UpdatesMirrorSql`, which does not hold).
- *Messages in any order.* A client may send a password first, twice, after a refusal or
  under another name (`ServedIsAuthenticated`).

`PROJECT.json` lists each of these hazards at its line, including those a property covers
only up to an exception, or not at all.

## 2. Modules

```
FieldPaths <- SqlNames
FieldPaths <- SchemaProfiles <- Catalog
              SchemaProfiles <- SqlPlans <- AmbiguityPolicy
                                SqlPlans <- MongoWrites <- MongoWritesProofs
                                SqlPlans <- Parameters

state machines                                proofs                                 TLC

AmbiguityPolicy, MongoWrites  <- WriteGate        <- WriteGateProofs                 MCWriteGate
                                                     <- WriteGateDecisions, which also
                                                        extends MongoWritesProofs
Parameters                    <- ExtendedQuery    <- ExtendedQueryProofs             MCExtendedQuery
Catalog, MongoWrites,
SqlNames                      <- Reads            <- ReadsProofs, which also         MCReads
                                                     extends MongoWritesProofs
SchemaProfiles                <- Discovery        <- DiscoveryProofs                 MCDiscovery
AmbiguityPolicy               <- ResolverService  <- ResolverServiceProofs           MCResolverService
                                 StartupAuth      <- StartupAuthProofs               MCStartupAuth
```

`X <- Y` reads "Y extends X"; `WriteContract` and `ProfileRegister` are instantiated, by `WriteGate` and
`Discovery`.

**FieldPaths** — `FieldPath` of schema discovery. A path is a sequence of segments and a
segment is the sequence of the atoms between its dots, so that the literal key `a.b` and
the nested path `a`, `b` are different paths with equal display names, as in the code.
`MongoPath` is what MongoDB makes of a joined name.

**SchemaProfiles** — documents as functions from path to value, and `infer`: presence
counts, observed types and shapes, and dotted-key collisions of a sample. Profile versions
are the code's constant.

**SqlPlans** — the three write plans and every check lowering makes on them: unknown
fields, the single inferred type, NULL in comparisons, placeholders. There is no NOT in
the code's predicates, so a filter is kept in disjunctive form.

**AmbiguityPolicy** — `detect_write_ambiguities`, `allowed_candidates`, the request,
`validate_resolver_response` and `validation_failure`, `CandidateApplies` and
`apply_resolution` (the code's one function, split into its condition and its result), and
`from_ratio`. A confidence is a sign and a magnitude in basis points: the sign is separate
because the code treats `-0.0` as inside the interval and then cannot convert it. Text is
a number with its form (canonical numeral, padded numeral, word), which is what the
lossless conversion distinguishes.

**MongoWrites** — which plans the executor refuses, in its order of checks, and what its
filter, `$set` and insert documents do to one document. MongoDB's reading of these is
external and marked so.

**WriteGate** — the state machine. Its state corresponds to the code as follows.

| variable | in the code |
|---|---|
| `schema` | the profile loaded at startup |
| `coll` | the collection in MongoDB |
| `pc[s]` | `new`, `resolving` (in the resolver await), `executing` (in the MongoDB await), `answered` |
| `plan[s]`, `sent[s]` | the lowered plan; the plan handed to the driver, after the resolution |
| `context[s]` | `Option<AmbiguityExecutionContext>`: a set of at most one record |
| `op[s]`, `todo[s]`, `hits[s]` | the MongoDB operation: running, done or failed; documents it has yet to reach; how often it wrote each |
| `answer[s]`, `rows[s]` | the error kind or `ok`; the affected rows of the command tag |
| `audit` | `audit_records` |
| `forgotten`, `crashes` | statements begun before the last crash; the bound on crashes |

| actions | code |
|---|---|
| `SubmitInvalid`, `SubmitBlocked`, `SubmitAmbiguous`, `SubmitClear` | from the statement to the first await: lowering, `resolve_write_plan` up to the resolver call, or `execute_write` up to the driver call |
| `RejectResponse`, `RejectResolution`, `RejectConfidence`, `AcceptResolution`, `ResolverFail` | `resolve_write_plan` after the resolver await, on to the driver call when it accepts |
| `MongoSkip`, `MongoWrite`, `MongoCannotSet`, `MongoFinish`, `MongoFail` | MongoDB, one document at a time (external) |
| `ExecuteOk`, `ExecuteError`, `NetworkError` | the driver's result: audit record and answer |
| `Crash` | the proxy dies and restarts on the same stored profile; the audit vector is lost, MongoDB is not |

**WriteContract** — the abstract specification: what a client may conclude from an answer
and nothing about how the proxy works. A refused statement never has an effect; a
completed one wrote exactly the number of documents it reports and writes no more; an
unknown one may have written some and may go on. `WriteGate` implements it under the
mapping `Status`, `Affected`, `rows`.

**Parameters** — what happens to a placeholder: `infer_parameter_types` and
`reconcile_parameter_types` of preparation, `decode_text` and `decode_binary` of the wire
values, `bind_parameters` with its count check and its second validation. A wire value is
NULL, characters, or a binary number of some size; a result is a set of at most one
element, empty for an error.

**ExtendedQuery** — the handlers of a session as a state machine. `statements` and
`portals` are the stores of the pgwire library, of at most one item per name; `reply` is
the last request with its answer. `Parse` and `ParseRefused` are `parse_sql` of the query
parser, `Bind` stores a portal without looking at its values, as the library does,
`Execute` is `do_query` of the extended handler with `execute_bound` behind it, and
`SimpleQuery` is `execute`. The plan that is handed over is where `WriteGate` begins.
Since a portal keeps the statement it was bound to, executing a portal after its statement
was prepared again under the same name is among the behaviours.

**Discovery** — the discovery runs, the server's side of their upserts, the starts of
proxies and the clients that change the source collections, each MongoDB call an action.

| variable | in the code |
|---|---|
| `source`, `metadata` | the source collections and the records of `__pgproxy_schema` in MongoDB |
| `asked` | the environment a run or a proxy found |
| `run[r]`, `names[r]` | where `discover_and_persist_collections` is; the collections it has yet to finish |
| `cursor[r]`, `profile[r]` | the cursor with the documents read, the inferred profile |
| `upsert[r]` | `replace_one` on the server: sent, found no record and inserting, applied |
| `proxy[p]`, `wanted[p]`, `loaded[p]` | the start of a proxy: its place, the collections it has yet to load, its profiles |
| `held`, `latest`, `wrote` | history: documents ever held, the profile persisted last, what a run wrote |

| actions | code |
|---|---|
| `BeginRun` | environment and `validated_collection_names`; refused or on to the first collection |
| `OpenCursor`, `SampleDocument`, `FinishSample` | `discover_collection`, one document at a time, then `infer` |
| `UpsertReplace`, `UpsertMiss`, `UpsertInsert` | MongoDB's `replace_one` with upsert (external): without a unique index, finding none and inserting are two steps |
| `PersistOk`, `RunFail` | the acknowledgement and the next collection; an error or a kill at any place, with the upsert going on or never arriving |
| `StartProxy`, `LoadProfile`, `LoadMissing`, `LoadFail`, `StopProxy` | `run_server` up to listening, and its end |
| `StoreDocument`, `RemoveDocument` | clients (external) |

**ProfileRegister** — the abstract specification of persisted profiles: one register per
collection that is replaced in one step and that a starting proxy reads. The promise begins
when a collection is *settled*, which only a persisted profile of it can bring about, and holds
for ever after; before that a start may take any profile. `Discovery` implements it, whether
or not runs overlap, with `register` mapped to `latest`, the profile that the server applied
last, and a collection settled when it has one record and no upsert that found none has yet to
insert another (`Settled`).

**ResolverService** — one call of the resolver. `Ask` is the gate with a request it really
sends (one ambiguity, something to choose), `RefuseRequest` and `TakeRequest` are the
validators of `contract.py`, `ProviderFail`, `AdviseLocally` and `AdviseByModel` the provider
and `validate_recommendation`, `Receive` is `resolve_single_ambiguity` with the client's
result, `TimeOut` the client's timeout, after which the service goes on. It shares
`AmbiguityPolicy` with `WriteGate`, so that the same request and the same validation are on
both sides.

**SqlNames**, **Catalog** — pure: from identifiers to paths (`resolve_field`,
`resolve_insert_column`), and from profiles to columns with their types, and stored values to
the values of a row.

**Reads** — SELECT against tables that the proxy itself writes. A step is a whole statement:
`execute_select` lowers it, refuses or finds, and makes the rows; `execute_insert` and
`execute_update_or_delete` change the documents as `MongoWrites` says, the latter possibly
stopping half way; `Refuse` is every refusal. `reply` holds the last plan, the announced
columns, the rows or what was touched.

**StartupAuth** — `parse` of the settings and the handler of startup and password messages.
`trust_startup`, `cleartext_startup` and `PasswordMessage` are `on_startup` for its messages,
and `QueryMessage` a statement of a connection that pgwire finds ready.

**MCWriteGate**, **MCExtendedQuery**, **MCDiscovery**, **MCResolverService**, **MCReads**,
**MCStartupAuth** — documents, plans, settings, statements and answers for TLC.
**WriteGateProofs**, **WriteGateDecisions**, **DiscoveryProofs**, **ResolverServiceProofs**,
**ExtendedQueryProofs**, **ReadsProofs**, **StartupAuthProofs** — the theorems of section 4;
**MongoWritesProofs** — lemmas about paths, inferred profiles, translated plans and written
documents.

Definitions whose comment begins with "Mutant" are faulty variants of the definition after
them. No specification uses them; each exists to show that a property notices the fault.

## 3. Runs

A run's configuration is named after its module and itself; run one with
`tlc -workers 2 -config WriteGate_gate.cfg MCWriteGate` or
`tlc -workers 2 -config ExtendedQuery_session.cfg MCExtendedQuery`.

| run | what it asks | result |
|---|---|---|
| `gate` | all plans, ten of them in two concurrent statements, all responses, a crash: types, clean errors, at most once, counts, audit trail, authorised writes, type drift | holds, 163,520 distinct states |
| `contract` | with a crash, a threshold of zero and a sample that misses a document: does `WriteGate` implement `WriteContract`, is every statement answered, and do types drift | holds, 27,587 |
| `session` | a session that prepares, binds, executes, prepares again: do announced types, decoding, binding, describing and lowering agree | holds, 36,509 |
| `discover` | discovery commands one after the other, every setting, a changing collection, a start of a proxy: what is in the profiles, and what does a proxy serve | holds, 1,609,929 |
| `races` | two overlapping runs that may stop anywhere, and a proxy that starts twice: what a run has refreshed, does `Discovery` implement `ProfileRegister`, and do runs and starts end | holds, 142,074 |
| `tables` | every SELECT against two tables written through the proxy: rows read and rows written against the WHERE clause, announced types, names, inserted values | holds, 7,901 |
| `service` | every request of the gate, provider and answer: do the two languages agree, does the local advisor resolve | holds, 542 |
| `auth` | two clients, messages in any order, every setting: who is served | holds, 10,192 |
| `catalog`, `blocked`, `dotted`, `mirror` | a statement of a comment or document each (section 5) | violated |

**Bounds of `gate` and `contract`.** *Two statements*: every property speaks of one
statement, of a pair of audit records, or of a statement against a concurrent writer, and two
give all of these. The statements are interchangeable and `gate` uses that symmetry. *Two
documents plus two rows per INSERT* (three documents in `contract`): the least with which an
operation can stop half way, miss one document and meet a document another session inserted.
*Collections*: an integer field, a field that is an integer in one document and a string in
the other, a field that was only ever null, a literal dotted key with or without a nested
field of the same joined name, and a nested field whose parent is a document, and in the other
document a scalar or missing: every ambiguity kind, and an update MongoDB cannot perform on
one of its documents. *Plans*: `ClearPlans`, `GatedPlans` and `RefusedPlans` have one plan per
way through lowering, gate and executor; among them an in-range canonical numeral, a padded
one, and one a unit beyond the largest integer, with `MaxInt = 7` in the place of the 64-bit
bound. Each of them is the plan of a statement alone; two statements at a time have the ten
plans of `PairPlans`, which write or fail in different places (the bound `SmallPairs`, an
action constraint: what tells the other plans apart is decided in steps of their own
statement). `contract` has three plans, as temporal checking is costlier. *Sample*: in
`contract` discovery sees two documents of three, so that one holds types and fields nobody
knows of. *Responses*: every candidate, and a response
for each field that can be wrong, with confidences one basis point below the threshold, above
1.0 and negative zero. *Crashes*: one; a crash empties the audit vector and answers what is in
flight, and a second adds only another such step.

**Bounds of `discover` and `races`.** *Two runs and one proxy*: a race needs two upserts, and
a proxy only reads, so that another would see no more. Without overlap (`discover`) the
second command begins when the first has ended, whose upsert may still be on the server and be
applied at any later time; with it (`races`) they interleave everywhere. *Documents*: up to
three ids with a sample of two in `discover`, so that a collection is smaller than, equal to or
larger than the sample and changes once while it is read, in a field of two types; `orders`
exists and is empty, which is what a buffer carried over from `customers` would show in.
`races` has one document, which may come or go once, so that two runs infer different
profiles: its properties are about names, places of runs and which of two profiles is read.
*Settings*: a list with a padded name in front of a
reserved legacy name, a blank list before a legacy name, and a list with each fault behind a
good name. Runs and ids are interchangeable and `discover` uses that symmetry; `races` checks
liveness and uses none. *Stops*: a proxy may be stopped and started once more in `races`.

**Bounds of `tables`, `service`, `auth`.** The two collections of `tables` share field names
with other types; one has a field of its own name with a field below it, a literal dotted key
and a nested field of the same joined name, a dotted key alone, a field of two types, and one
that is an integer, null or missing. Statements: every operator but `<`, LIMIT 0, 1, 2 and
negative, conflicting projections, unknown names and tables, a DELETE without a WHERE clause
and one on a dotted key, both refused. Three ids leave room for one INSERT before a DELETE.
`service` has one write per kind of candidate, a mixed field at the top level and below, a
number that prints too long (`LargestShortFloat = 9` in the place of 128 digits), a provider
with its key, one without, an unknown one and the local one, and answers with each field wrong
or at its bound. `auth` has two clients and texts that are empty, the name or the password for
every setting and message.

**Bounds of `session`.** *One statement name and one portal*, since a store of the library treats
each name alone, and the session is one task, so that only replacing a name under a live
portal relates two entries. *Statements*: placeholders as assigned, compared and inserted
values, repeated, with a gap and malformed, at fields of each type, of two types and of
none, beside statements that lowering refuses and two with a catalog name in the text.
*Declared types*: none, too few or too many for most statements, compatible, incompatible,
unknown to the proxy, and `UNKNOWN`. *Values*: NULL, numerals, words and binary numbers, of
the right size and not, for right and wrong types, with every way to give format codes.
*Widths*: 1, 3 and 7 are the largest integers in the place of those of 16, 32 and 64 bits.

**Deadlock** is checked in the runs of `MCExtendedQuery`, `MCReads` and `MCStartupAuth`,
where a client can always send something more. It is not in those of `MCWriteGate`,
`MCDiscovery` and `MCResolverService`: an instance has finitely many statements, runs or
calls, and when all have ended it stops, as it should. That nothing stops earlier is what
`EveryStatementAnswered` and `RunsAndStartsEnd` show for the first two.

**Fairness.** `WriteGate` has weak fairness, per statement, of `ResolverFail`, of MongoDB's
steps and of the driver's. The first is the whole-request timeout of the resolver client
(`resolver-client/src/lib.rs:72`), which is required to be positive: while the call is
pending its failure stays possible, so that a response or a failure arrives. The second says
that MongoDB works on, or fails, an operation it accepted, and the third that the driver hands
a reply on to the task that waits for it, as tokio schedules a woken task. Clients need not
submit, the proxy need not crash and connections need not break. `Discovery` has weak fairness
of a run's MongoDB calls, of the server's work on an upsert and of a proxy's reads: MongoDB
answers and the processes take up the answers. No command need be given, no run need fail, no
proxy need start and no document need change.

## 4. Proofs

`tlapm` on each of the eight proof modules checks every proof. The theorems hold for any finite
number of statements, runs, proxies and clients, any finite collections, any samples, plans,
settings and answers, any threshold, sample size and bounds.

| theorem | module | states |
|---|---|---|
| `GateInvariant` | `WriteGateProofs` | `Spec => []GateInv` |
| `TypeCorrect` | `WriteGateProofs` | `Spec => []TypeOK` |
| `CleanErrorsAreClean` | `WriteGateProofs` | `Spec => []CleanErrorHasNoEffect` |
| `AtMostOnce` | `WriteGateProofs` | `Spec => []AtMostOncePerDocument` |
| `SuccessCounts` | `WriteGateProofs` | `Spec => []SuccessIsComplete` |
| `EveryGatedWriteAudited` | `WriteGateProofs` | `MinimumConfidence > 0` implies `Spec => []AuditedOnce` |
| `ContractKept` | `WriteGateProofs` | `Spec => KeepsContract` |
| `OnlyAuthorisedWritesReachMongo` | `WriteGateDecisions` | `Spec => []OnlyAuthorisedWrites` |
| `AuditTellsTheTruth` | `WriteGateDecisions` | `Spec => []AuditIsTrue` |
| `TypesDoNotDrift` | `WriteGateDecisions` | `PlainNames` implies `Spec => NoTypeDrift` |
| `RefreshesArePrefixes` | `DiscoveryProofs` | `Spec => []RefreshIsPrefix` |
| `FaultyListsChangeNothing` | `DiscoveryProofs` | `Spec => []InvalidAllowlistChangesNothing` |
| `ServedTablesAreConfigured` | `DiscoveryProofs` | `Spec => []ServingIsComplete` |
| `DiscoveryKeepsRegister` | `DiscoveryProofs` | `Spec => KeepsRegister` |
| `DiscoveryIsTyped` | `DiscoveryProofs` | `Spec => []TypeOK` |
| `StoredProfilesAreObserved` | `DiscoveryProofs` | `Spec => []ProfilesAreObserved` |
| `SmallCollectionsAreKnown` | `DiscoveryProofs` | `Spec => []SmallCollectionsKnown` |
| `AnswersAgree` | `ResolverServiceProofs` | `Spec => []AnswersPassTwice` |
| `ServiceIsTyped` | `ResolverServiceProofs` | `Spec => []TypeOK` |
| `RequestsAreTaken` | `ResolverServiceProofs` | `Spec => []OtherRequestsTaken` |
| `LocalAdviceWorks` | `ResolverServiceProofs` | `Spec => []LocalAdviceResolves` |
| `SessionIsTyped` | `ExtendedQueryProofs` | `Spec => []SessionTypeOK` |
| `BoundValuesAreLiterals` | `ExtendedQueryProofs` | `Spec => []BoundLikeLiterals` |
| `AnnouncedTypesAreEnough` | `ExtendedQueryProofs` | `Spec => []AnnouncedTypesSuffice` |
| `DescriptionsHold` | `ExtendedQueryProofs` | `Spec => []DescribedAsExecuted` |
| `WritesKeepDocuments` | `ReadsProofs` | `Spec => []ReadsTypeOK` |
| `SelectsAreSql` | `ReadsProofs` | `PlainNames` implies `Spec => []RowsAreSql` |
| `WritesReachTheirRows` | `ReadsProofs` | `PlainNames` implies `Spec => []WritesAreSql` |
| `FieldsAreNamed` | `ReadsProofs` | `PlainNames` implies `Spec => []FieldsCanBeNamed` |
| `AnnouncedTypesHold` | `ReadsProofs` | `PlainNames` implies `Spec => []AnnouncedTypesFit` |
| `InsertsAreSelected` | `ReadsProofs` | `Spec => []InsertedIsSelected` |
| `StartupIsTyped` | `StartupAuthProofs` | `Spec => []StartupTypeOK` |
| `OnlyAuthenticatedAreServed` | `StartupAuthProofs` | `Spec => []ServedIsAuthenticated` |

**Assumptions.** The named ones of the modules: `PlansAssumption` (lowered plans have one
of the three shapes, an INSERT has at least one row and at most `MaxRows`),
`ResponsesAssumption` (a response has the fields its JSON type has), `SampleAssumption`,
`ConfidenceAssumption`, `BoundsAssumption`, `FinitenessAssumption`, `MaxIntAssumption` and
`CollectionsAssumption` (collections hold documents of finitely many fields, of the types that
discovery knows) for the gate; `CollectionsAssumption` (sorted order is strict), `ProcessesAssumption`,
`SampleSizeAssumption` (`discover_collection` refuses zero) and `EnvironmentsAssumption` (settings are
names, and the names that are not at fault exist in MongoDB) for discovery;
`ServiceAssumption`, `SamplesAssumption` (a field has a name), `PlansAssumption` and
`ModelAnswersAssumption` (an answer has the contract's fields, a character at least one byte)
for the resolver; `DocumentsAssumption`, `TextsAssumption`, `PlansAssumption` and
`LargestAssumption` for sessions; `SamplesAssumption` (samples are documents of finitely many
fields, of the types that discovery knows: the parent of a field is there and is a document),
`IdsAssumption` and `StatementsAssumption` (what the parser
makes of the lists of a statement) for reads; `TextsAssumption` for startup. TLC evaluates
them in every run.

Six theorems have a hypothesis of their own, and none is a convenience: without it the
statement is false (section 5). `EveryGatedWriteAudited` assumes a positive threshold.
`TypesDoNotDrift`, `SelectsAreSql`, `WritesReachTheirRows`, `FieldsAreNamed` and
`AnnouncedTypesHold` assume `PlainNames`, that no name of a field inside a document has a dot
in it. (At the top level such names are fields of
their own, which the executor refuses.) MongoDB splits the path of a `$set`, a filter or a
projection at every dot, so a field `a."b.c"` is written and looked for inside `a.b`, and the
catalog has the same column name for it and for `a.b.c`. A `$set` of it creates a document
`a.b`, which a column announced as text may show. `InsertsAreSelected` needs no hypothesis: an
INSERT builds its documents segment by segment and `SELECT *` reads them so.

**The invariant of the gate.** None of the safety properties is inductive as it stands. That an answer
with a clean error never gets an effect needs to know that no operation exists before
`Dispatch`, and that an answer is given once; that a success counted every document needs
to know that a finished operation has nothing left to do; that a document is not written
twice needs to know that documents yet to be reached were not written. `GateInv` is
`TypeOK` with `PhaseInv` (what each place in the handler knows of operation and answer) and
`OperationInv` (how `op`, `todo` and `hits` fit together). `GateInvNext` proves that
every action preserves it: lemmas `RefusalStep`, `DispatchStep` and
`CompletionStep` treat the three shapes most handlers share, and `DocumentStep`,
`MongoWriteStep` and `CrashStep` the others.

`AuditedOnce` is proved on top of `GateInv`. Every answered statement had either its record
appended in the step that answered it or was not gated: `Recorded` and `Unrecorded` are the
two ways a handler may end, and `ConfidenceAlwaysConverts` closes the third, an accepted
response whose confidence does not convert, for positive thresholds.

**Refinement.** `ContractKept` maps each step: a submission is `Begin` (or `Refuse` when it
is answered at once), a rejected resolution is `Refuse`, `MongoWrite` is `Write`,
`ExecuteOk` is `Complete`, database errors and crashes are `GiveUp`, everything else
stutters. `GateInv` supplies what the abstract guards ask for: nothing written at a
refusal, a count that is the number of written documents at a completion.

**Decisions.** `OnlyAuthorisedWrites` follows from `DecisionInv`, which keeps for every operation
what allowed it: a clear plan is sent as it is and without an audit context, an ambiguous
one has one ambiguity and a context, the context names an offered candidate and enough
confidence, and what is sent is the client's plan or that plan with its one number in the
other notation. `ResolutionIsRenoted` is the lemma on `apply_resolution`.
`AuditIsTrue` is kept by the later steps because no step of another statement touches an
answer, and no step of the same one follows it: `TruthInv` says of every record, in a
vector to which all sessions append, what its statement's final state is.

`TypesDoNotDrift` follows a value from the type policy to the document. `SentInv` says of every
plan at MongoDB that it translates and that each of its values `Fits` the profile.
`ClearValueFits` is why a clear field does: without a mixed type or shape the policy asks for
its one type, or the field was only ever null. `OneAmbiguity` and `ResolvedPlanFits` are about a
decided plan: no other field has a conflict, and the decided one was only missing somewhere or
takes integers and text alike. `TranslatedInsert` and `TranslatedUpdate` exclude placeholders and
dotted keys, and `StoredFits` covers the documents that a write creates around a field: the
profile knows them as documents, since it was inferred from documents (`Profiled`).

**Discovery.** `RefreshIsPrefix` says nothing of a run that is under way. `Progress(r)` says
for every place of a run what it has written: what is no longer on its list, and, between the
upsert's effect and its acknowledgement, the first of the list as well. `FirstExtendsPrefix` is
where sorted order is used, and `ProgressFrame` that another run, whatever it overwrites, does
not disturb this one. `ConfiguredIsGiven` is about the settings: what they are read as is what
they name, and only if none of it is at fault. `StartProgress` does the same for a proxy.

`DiscoveryKeepsRegister` needs that the record of a settled collection is what was persisted
last, since a proxy reads records and not `latest`: `RecordsAgree`. `RegisterInv` has besides it
`RunsInOrder` (when an upsert can be on the server) and `StartsAreFresh` (a load is of something
not loaded yet). What is settled stays so: `StoreSettles` is about an upsert that stores (one
that found a record replaces it, one that inserts is not of a settled collection before),
`MissKeepsRegister` about one that finds nothing, and `UndisturbedAgrees` about every other
step. Nothing is assumed of which runs overlap or fail.

`SampledInv` follows a profile back to documents: every document of a sample under way was in
the collection at some moment (`held`), a sample holds each document once and at most
`SampleSize` of them, and every profile, on its way, stored or loaded, was inferred from such a
sample. `InferredIsObserved` counts them. `SmallCollectionsKnown` needs besides that a cursor
that came to its end over a collection that did not change has met every document.

**Resolver and startup.** `AnswersPassTwice` speaks of what the client made of an answer;
`CallInv` says of the reply that the service validated it for the one write that is held, and
`TwoReasons` compares the two validations field by field. `ServiceInv` ties the place of the
service and the reply of its local provider to the write that is held. `TakenUnlessRefusable`
goes through the request field by field, and `LocalAdviceResolves` needs that what
`DeterministicAdvisor` answers is among the candidates that the one ambiguity of the plan
offers. `StartupInv` says of every ready connection what `ServedIsAuthenticated` says of a served one.

**Sessions.** `SessionInv` carries what preparation established to the execution of a portal:
the text lowers, its placeholders are numbered without a gap and each was announced with the
type of the one field type it is compared or assigned to (`AnnouncedFor`). Binding is then
followed site by site: `execute_bound` is a plan that lowering accepts, with the values that
a literal would have had.

**Reads.** `ReadsInv` says that stored documents remain documents and, of the last answer, that
its rows are what `MongoDB` selects with known fields and literals that are not NULL. Against
SQL the proof goes leaf by leaf through the filter. That a write keeps a document a document
is an induction over the assignments of an update. The theorems for induction cannot be
instantiated here, so `MongoWritesProofs` does it by hand: if a recursive function over an
initial segment of `Nat` went wrong there would be a least place where it does (`NatMinimum`,
from the well-foundedness of finite sets), and it did not go wrong there.
It needs what MongoDB enforces: a `$set` of a field and of one inside it is refused
(`SetConflict`), and so is a `$set` inside a value that is not a document (`CannotSet`).
`FieldsAreNamed` shows that the name the catalog gives a field is resolved to that field, and
to none of the others, whatever the fields and the collection are called.

`WritesAreSql` speaks of documents as they were before the statement and of documents as they
are after it. `WritesReach` keeps what connects them: what a write touched is what its filter
selected, and a write that is done left nothing untouched that the filter selects. The filter is
then compared with the WHERE clause as for a SELECT.

`AnnouncedTypesFit` is the meeting of two components that never call each other, the catalog
and the type policy. `DocumentsFit` says of every stored document that each of its fields was
observed by discovery and has a type that was observed there, up to null. The type policy gives
this for the values of a statement (`PolicyFits`), `StoredAllFits` extends it to the documents
that a write creates around them, and `ColumnTypeFits` draws the conclusion: where a column has a
type of its own, every value that fits the profile has that type. A column that is only null or
has several types is jsonb. Rows and columns come from two functions that number the columns
of a wildcard alike, each listing the names in one order. `ListingExists` and `ListedMembers`
say that `InSomeOrder` lists the members of a finite set and nothing else, again by an induction
by hand, on the number of members.

`InsertedIsBuilt` says of an INSERT that was just answered that the document it left has the
values of the row at their paths (`StoredAllGiven`, `BuiltHolds`) and nothing elsewhere
(`BuiltLacks`). `WildcardRow` says what `SELECT *` shows of a document.

**Only model-checked.** `EveryStatementAnswered` and `RunsAndStartsEnd`, which depend on
fairness and are outside the prover's reach. The counterexamples of the four runs that
expect a violation are TLC's.

## 5. Disagreements between code and documentation

Each of the four runs checks the quoted statement as a property and TLC finds a
counterexample.

- `catalog`: `docs/WRITE_SEMANTICS.md:24` says that INSERT reports the count of inserted
  IDs returned by MongoDB. `catalog_or_session_query` searches the whole text, literals
  included, for names of catalog views; an INSERT of such a text is answered with the
  catalog listing, without an error, and nothing is inserted.
- `blocked`: `audit.rs:112` says of a `Blocked` outcome "Execution was prevented by a known
  fail-closed condition"; `record_mongo_execution_failure` records it for any error of
  the execution, also after documents were changed.
- `dotted`: `schema-discovery/src/lib.rs:68` says dotted keys are never conflated with
  nested paths. A dotted key below the top level is not recognised as one, and an UPDATE
  writes a different, nested path.
- `mirror`: `mongo-executor/src/lib.rs:146` says that an UPDATE mirrors SQL. `<>` and
  `NOT IN` become `$ne` and `$nin`, which also match documents in which the field is null or
  missing, where SQL's comparison is unknown. `WritesAreSql` confines it: a statement
  without the two reaches no row that its WHERE clause does not select.

The properties that hold except these further cases, each of them visible in the modules and
excepted by name in the comment of the property:

- `LocalAdviceResolves`: `UseNestedPath` is offered for a path that only the filter names
  (`ambiguity-policy/src/lib.rs:172`), where applying it always fails, although
  `providers.py:206` calls every offered candidate executable. The write is refused.
- `AuditedOnce`: `ambiguity.rs:42` says every refusal is recorded. With a threshold of zero
  and a confidence of `-0.0` the conversion fails and the refusal is not recorded.
- `NoTypeDrift`: `type_policy.rs:30` says all non-null literals must match the one inferred
  type. A field seen only as null has none; literals of any type pass, unasked.
- `KeepsRegister`: `schema-discovery/src/lib.rs:301` says the most recently persisted profile
  is loaded, and `lib.rs:270` that there is one per source collection. Until a collection has
  its first record two upserts may both find none (`lib.rs:288`, with no unique index) and each
  insert one; after that a start reads either, for good, since every later upsert replaces only
  one of them. Overlap is not needed: a command that is killed with its upsert on the server
  and started again (`docs/INSTALLATION.md:41`) can meet the first one's insert. TLC shows this in
  16 states when it is asked, with `Overlap = FALSE`, whether a start loads `latest`.
  Besides, the last profile is the one that the server applied last: the upsert of a dead
  command, applied late, replaces the profile of a newer sample, which the property allows and
  nothing in the record would tell.
- `RowsAreSql`, and for IS NULL `WritesAreSql`: LIMIT 0 (`resolve.rs:109`) is MongoDB's limit
  of zero, which is none; and IS NULL does not find documents in which the field is missing,
  though their rows show NULL.
- `AnnouncedTypesFit`: a string in a column announced as jsonb goes out as bare text
  (`proxy/src/lib.rs:1074`).
- `InsertedIsSelected` looks at `SELECT *`: a dotted key inside a document is asked for under
  its joined name when it is selected by name (`mongo-executor/src/lib.rs:314`) and shows NULL.
- `FieldsCanBeNamed`: an INSERT column that is both a literal dotted key and a nested path
  goes to the literal key, where the comment at `resolve.rs:190` has it win only alone.
- `OtherRequestsTaken`: type candidates for a nested field are offered by Rust and refused by
  `contract.py:148`, so that such a write is never resolved; so is a number that prints in
  more than 128 characters (`ambiguity-policy/src/lib.rs:305`, `contract.py:102`), and a path
  with more than 64 segments, an empty one or one of more than 255 characters
  (`contract.py:111`, `contract.py:120`).
- `TypeOK` of `ResolverService` has 500 among the statuses, and 422 for a failed call.
  `providers.py:33` has one error for every "transport or response failure", which `main.py:79`
  answers with 502, but a body cut short or a bad status line (an `HTTPException` of
  `http.client`, `providers.py:316`) and items of a response that are no objects (an
  `AttributeError`, `providers.py:329` and `providers.py:359`) are caught nowhere, and bytes
  that are no text are a `ValueError` (`main.py:81`). Rust takes every one of them for an
  unavailable resolver and refuses the write.
- `AnswersPassTwice`: a rationale is bounded by 500 bytes in Rust
  (`ambiguity-policy/src/lib.rs:339`) and by 500 characters in the service.

## 6. Abstractions and what is not modelled

- The SQL grammar is abstracted. `WriteGate` starts from plans, `Reads` from statements
  whose names are still identifiers, and `ExtendedQuery` sees of a text only whether it has a
  catalog or session marker in it. `WriteGate` has one collection: a plan names one collection
  and its profile, and nothing is shared between collections but the audit vector. `Reads`
  has several.
- A session is not a state of its own: a statement of `Statements` is one statement, and
  statements of a session are those that start after the previous answer. Any two may
  overlap, which includes every arrangement of sessions.
- The stores of statements and portals, their framing and the messages Sync, Flush and
  Close are pgwire's. A failed request leaves the stores alone. Catalog listings, the encoding of
  values in wire formats and log redaction are left out.
- Of boolean spellings 0 and 1 stand for all; a 32-bit float keeps its value; text is
  taken to differ in length from any binary number it could be mistaken for.
- In `WriteGate` a restart loads the same profile; where profiles come from is in
  `Discovery`. The profile version is a format version, a constant of the code.
- In `Reads` a statement is one step and a find sees the documents of one moment: it relates
  what is written to what is read, and interleavings of writes are those of `WriteGate`. The
  gate is left out: it refuses some of these writes or puts one observed type in the place of
  another, and both are steps of the module as well. `_id` is left out, and the columns of a
  wildcard have any one fixed order in the place of the alphabetical one. BSON types beyond
  the ten of `SchemaProfiles` are folded into String by the code and left out.
- In `Discovery` a cursor is a scan that meets each document at most once, in any order, as
  it is when it is met; documents inserted meanwhile may be met or not. A killed command and a
  failed call are the same step. In production MongoDB a `find` without an order may also
  return a moved document twice, which no property here would notice.
- In `ResolverService` the length of a name is whether it is in `LongSegments`. The vendors'
  HTTP formats are left out; a language model answers any object of the contract's types, an
  unparsable answer being a failed call.
- In `StartupAuth` TLS, protocol versions and the library's framing are left out.
- The redacted ambiguities of an audit record are a function of its plan and left out; a
  ghost field `stmt` identifies the statement, which the code does not record. Lock
  poisoning of the audit vector, which needs a panic, is left out.
- `modified_count` is not modelled: the command tag uses the matched count for an UPDATE.
- Predicates on array elements and order comparisons of strings are not modelled; arrays
  are a shape and a type.
- The prompt text, evidence counts and column comments in a resolver request decide
  nothing in Rust. The resolver may answer anything of the right JSON shape; anything else
  is a failed call.
- MongoDB is external. An unordered scan, documents it may or may not meet when they are
  inserted meanwhile, and a failure at any point are as weak as its documentation allows;
  no transaction, index or unique constraint is assumed. `insert_many` is ordered, the
  driver's default.

Not modelled: container files and manifests, which have no behaviour of the program; the
contents of catalog listings and the encodings of values, which are formatting; the SQL
grammar, which is `sqlparser`'s.

## 7. Plan

What is left, in the order of importance.

1. **Composition** — `WriteGate` with a profile that changes at a restart, so that a response
   to a request under the older profile, a crash and a discovery run meet in one model. Each
   of the three is modelled; a product of them needs smaller plans than `gate` has.
2. **Catalog listings** — the rows that the intercepted statements get, as a function of the
   profiles, against the columns `Catalog` projects.
3. **Reads under writes** — a find as a scan, beside the document-by-document writes of
   `WriteGate`.
