---------------------------- MODULE WriteGateProofs ----------------------------
(***************************************************************************)
(* Proofs about WriteGate for every set of statements, every set of plans, *)
(* collections and resolver responses, and every bound.                    *)
(*                                                                         *)
(* GateInv is inductive: one step for each action.  The lemmas before it   *)
(* say what the policy and the executor operators return, and what the two *)
(* steps that several actions share (Dispatch, RefuseTranslation) do.      *)
(*                                                                         *)
(* The second part proves that WriteGate implements WriteContract: under   *)
(* the refinement mapping of Contract, every step of the proxy, of MongoDB *)
(* and of a crash is a step a client of the contract may see, or no step   *)
(* at all.                                                                 *)
(***************************************************************************)
EXTENDS WriteGate, TLAPS, FiniteSetTheorems

-----------------------------------------------------------------------------
(* Lemmas on operators *)

\* There are finitely many document identities, so Cardinality counts them.
LEMMA DocIdsFinite == IsFiniteSet(DocIds)
  <1>1. IsFiniteSet(1 .. MaxRows)
    BY BoundsAssumption, FS_Interval
  <1>2. IsFiniteSet(Statements \X (1 .. MaxRows))
    BY <1>1, FinitenessAssumption, FS_Product
  <1>3. UNION {RowIds(s) : s \in Statements} \subseteq Statements \X (1 .. MaxRows)
    BY DEF RowIds
  <1>4. IsFiniteSet(UNION {RowIds(s) : s \in Statements})
    BY <1>2, <1>3, FS_Subset
  <1>5. IsFiniteSet(InitialIds)
    BY FinitenessAssumption DEF InitialIds
  <1> QED
    BY <1>4, <1>5, FS_Union DEF DocIds

\* The number of affected documents is a natural number.
LEMMA AffectedCount ==
  ASSUME NEW s \in Statements
  PROVE  Cardinality(Affected(s)) \in Nat
  <1>1. Affected(s) \subseteq DocIds
    BY DEF Affected
  <1> QED
    BY <1>1, DocIdsFinite, FS_Subset, FS_CardinalityType

\* The loop over the items reports nothing that no item reports.
LEMMA FirstErrorsOfItems ==
  ASSUME NEW errors, NEW S, \A i \in DOMAIN errors : errors[i] \subseteq S
  PROVE  FirstErrors(errors) \subseteq S
  BY DEF FirstErrors

\* The executor reports two kinds of error before it calls MongoDB
\* (build_insert_document, update_document, predicate_document).
LEMMA TranslationErrorKinds ==
  ASSUME NEW p, p.kind \in Kinds
  PROVE  TranslationErrors(p) \subseteq {"FeatureNotSupported", "InvalidInput"}
  <1>1. predicate_document_errors(p.filter) \subseteq {"FeatureNotSupported", "InvalidInput"}
    BY DEF predicate_document_errors, LeafErrors
  <1>2. ASSUME NEW columns, NEW row
        PROVE  build_insert_document_errors(columns, row)
                 \subseteq {"FeatureNotSupported", "InvalidInput"}
    BY DEF build_insert_document_errors, FirstErrors, ItemErrors
  <1>3. ASSUME NEW assignments
        PROVE  update_document_errors(assignments)
                 \subseteq {"FeatureNotSupported", "InvalidInput"}
    BY DEF update_document_errors, FirstErrors, ItemErrors
  <1>4. CASE p.kind = "Insert"
    <2> DEFINE errors == [r \in DOMAIN p.rows |->
                            build_insert_document_errors(p.columns, p.rows[r])]
    <2>1. \A r \in DOMAIN errors : errors[r] \subseteq {"FeatureNotSupported", "InvalidInput"}
      BY <1>2
    <2>2. TranslationErrors(p) = FirstErrors(errors)
      BY <1>4 DEF TranslationErrors
    <2> QED
      BY <2>1, <2>2, FirstErrorsOfItems
  <1>5. CASE p.kind = "Update"
    BY <1>1, <1>3, <1>5 DEF TranslationErrors
  <1>6. CASE p.kind = "Delete"
    BY <1>1, <1>6 DEF TranslationErrors
  <1> QED
    BY <1>4, <1>5, <1>6 DEF Kinds

\* A confidence that converts is a number of basis points (ResolverConfidence):
\* -0.0 does not convert.
LEMMA ConfidenceRange ==
  ASSUME NEW confidence, confidence.bp \in Nat,
         NEW bp \in from_ratio(confidence)
  PROVE  bp = confidence.bp /\ bp \in 0 .. FullConfidence
  <1>1. bp = confidence.bp /\ Ratio(confidence) \in 0 .. FullConfidence
    BY DEF from_ratio
  <1>2. ~(confidence.neg /\ confidence.bp = 0)
    BY DEF from_ratio
  <1>3. FullConfidence \in Nat
    BY DEF FullConfidence
  <1>4. CASE confidence.neg
    <2>1. Ratio(confidence) = -confidence.bp
      BY <1>4 DEF Ratio
    <2>2. confidence.bp = 0
      BY <1>1, <1>3, <2>1
    <2> QED
      BY <1>2, <1>4, <2>2
  <1>5. CASE ~confidence.neg
    <2>1. Ratio(confidence) = confidence.bp
      BY <1>5 DEF Ratio
    <2> QED
      BY <1>1, <2>1
  <1> QED
    BY <1>4, <1>5

\* The candidates offered for an ambiguity are among the contract's.
LEMMA AllowedAreCandidates ==
  ASSUME NEW p, NEW sch
  PROVE  AllowedCandidates(p, sch) \subseteq ResolutionCandidates
  BY DEF AllowedCandidates, Request, resolver_request, allowed_candidates,
         ResolutionCandidates

\* Applying a candidate keeps the kind of the plan, and changes only UPDATEs.
LEMMA ResolutionKeepsKind ==
  ASSUME NEW p \in Plans, NEW path, NEW c, CandidateApplies(p, path, c)
  PROVE  /\ apply_resolution(p, path, c).kind = p.kind
         /\ p.kind # "Update" => apply_resolution(p, path, c) = p
  <1>1. CASE c \notin {"ParseIntegerLosslessly", "FormatIntegerAsString"}
    BY <1>1 DEF apply_resolution
  <1>2. CASE c \in {"ParseIntegerLosslessly", "FormatIntegerAsString"}
    <2>1. p.kind = "Update"
      BY <1>2 DEF CandidateApplies, SoleAssignment
    <2>2. p = [kind |-> "Update", assignments |-> p.assignments, filter |-> p.filter]
      BY <2>1, PlansAssumption DEF IsUpdate
    <2>3. ASSUME NEW v
          PROVE  [p EXCEPT !.assignments = v].kind = "Update"
      BY <2>2
    <2>4. \E v : apply_resolution(p, path, c) = [p EXCEPT !.assignments = v]
      BY <1>2 DEF apply_resolution, Retyped
    <2> QED
      BY <2>1, <2>3, <2>4
  <1> QED
    BY <1>1, <1>2
-----------------------------------------------------------------------------
(* Lemmas on the steps that several actions share *)

\* Every record the gate writes is well formed (AmbiguityAuditRecord).
LEMMA AuditRecordType ==
  ASSUME NEW s \in Statements, NEW p \in Plans, NEW sch, NEW ctx \in SUBSET AuditContexts,
         NEW outcome \in AuditOutcomes, NEW count \in Nat
  PROVE  AuditRecord(s, p, sch, ctx, outcome, count) \in AuditRecords
  <1>1. p.kind \in {"Insert", "Update", "Delete"}
    BY PlansAssumption
  <1>2. AllowedCandidates(p, sch) \in SUBSET ResolutionCandidates
    BY AllowedAreCandidates
  <1>3. {c.selected_candidate : c \in ctx} \in SUBSET ResolutionCandidates
    BY DEF AuditContexts
  <1>4. {c.confidence : c \in ctx} \in SUBSET (0 .. FullConfidence)
    BY DEF AuditContexts
  <1> QED
    BY <1>1, <1>2, <1>3, <1>4 DEF AuditRecord, AuditRecords

\* record_execution and record_blocked keep the audit trail well formed.
LEMMA AuditTrailType ==
  ASSUME audit \in Seq(AuditRecords),
         NEW s \in Statements, NEW p \in Plans, NEW ctx \in SUBSET AuditContexts,
         NEW outcome \in AuditOutcomes, NEW count \in Nat,
         \/ RecordIfGated(s, p, ctx, outcome, count)
         \/ audit' = Append(audit, AuditRecord(s, p, schema, ctx, outcome, count))
  PROVE  audit' \in Seq(AuditRecords)
  <1>1. AuditRecord(s, p, schema, ctx, outcome, count) \in AuditRecords
    BY AuditRecordType
  <1> QED
    BY <1>1 DEF RecordIfGated

\* A statement refused before any operation: the invariant is kept whatever
\* the error and whether or not a record is written.
LEMMA RefusalStep ==
  ASSUME GateInv, NEW s \in Statements, NEW what \in CleanErrors,
         pc[s] \in {"new", "resolving"},
         Answer(s, what),
         NEW p \in Plans, plan' = [plan EXCEPT ![s] = p],
         audit' \in Seq(AuditRecords),
         UNCHANGED <<schema, mongoVars, sent, context, rows, forgotten, crashes>>
  PROVE  GateInv'
  <1> USE DEF GateInv, Answer, mongoVars
  <1>1. TypeOK'
    BY DEF TypeOK, Answers, CleanErrors
  <1>2. PhaseInv'
    BY DEF TypeOK, PhaseInv, PhaseOf, CleanErrors
  <1>3. OperationInv'
    <2> SUFFICES ASSUME NEW t \in Statements
                 PROVE  OperationOf(t)'
      BY DEF OperationInv
    <2>1. OperationOf(t)
      BY DEF OperationInv
    <2>2. op' = op /\ todo' = todo /\ hits' = hits /\ sent' = sent /\ rows' = rows
      OBVIOUS
    <2>3. answer'[t] = "ok" => answer[t] = "ok"
      BY DEF TypeOK, CleanErrors
    <2> QED
      BY <2>1, <2>2, <2>3 DEF OperationOf, Affected
  <1> QED
    BY <1>1, <1>2, <1>3

\* The targets of a plan are documents there are or that its rows create.
LEMMA TargetsAreDocuments ==
  ASSUME DOMAIN coll \subseteq DocIds, NEW s \in Statements, NEW p,
         p.kind = "Insert" => p \in Plans
  PROVE  Targets(s, p) \subseteq DocIds
  <1>1. CASE p.kind = "Insert"
    <2>1. IsInsert(p) /\ Len(p.rows) \in 1 .. MaxRows
      BY <1>1, PlansAssumption
    <2>2. p.rows \in Seq([DOMAIN p.columns -> SqlValues])
      BY <2>1 DEF IsInsert
    <2>3. DOMAIN p.rows \subseteq 1 .. MaxRows
      BY <2>1, <2>2, BoundsAssumption
    <2>4. Targets(s, p) \subseteq RowIds(s)
      BY <1>1, <2>3 DEF Targets, RowIds
    <2> QED
      BY <2>4 DEF DocIds
  <1>2. CASE p.kind # "Insert"
    BY <1>2 DEF Targets
  <1> QED
    BY <1>1, <1>2

\* An operation handed to MongoDB: none of its documents was written before.
LEMMA DispatchStep ==
  ASSUME GateInv, NEW s \in Statements, NEW p, NEW ctx \in SUBSET AuditContexts,
         pc[s] \in {"new", "resolving"},
         Dispatch(s, p, ctx),
         p.kind \in Kinds, p.kind = "Insert" => p \in Plans,
         NEW original \in Plans, plan' = [plan EXCEPT ![s] = original],
         ctx # {} <=> NeedsResolution(original, schema),
         UNCHANGED <<schema, forgotten, crashes>>
  PROVE  GateInv'
  <1> USE DEF GateInv, Dispatch
  <1>1. TypeOK'
    <2>1. Targets(s, p) \subseteq DocIds
      BY TargetsAreDocuments DEF TypeOK
    <2> QED
      BY <2>1 DEF TypeOK
  <1>2. PhaseInv'
    BY DEF TypeOK, PhaseInv, PhaseOf, CleanErrors
  <1>3. OperationInv'
    <2> SUFFICES ASSUME NEW t \in Statements
                 PROVE  OperationOf(t)'
      BY DEF OperationInv
    <2>1. OperationOf(t)
      BY DEF OperationInv
    <2>2. hits' = hits /\ rows' = rows /\ answer' = answer
      OBVIOUS
    <2>3. CASE t = s
      <3>1. op[s] = "none" /\ answer[s] = "none"
        BY DEF PhaseInv, PhaseOf
      <3>2. Targets(s, p) \subseteq DocIds
        BY TargetsAreDocuments DEF TypeOK
      <3>3. op'[s] = "running" /\ sent'[s] = p /\ todo'[s] = Targets(s, p)
        BY DEF TypeOK
      <3> QED
        BY <2>1, <2>2, <2>3, <3>1, <3>2, <3>3 DEF OperationOf
    <2>4. CASE t # s
      <3>1. op'[t] = op[t] /\ sent'[t] = sent[t] /\ todo'[t] = todo[t]
        BY <2>4 DEF TypeOK
      <3> QED
        BY <2>1, <2>2, <3>1 DEF OperationOf, Affected
    <2> QED
      BY <2>3, <2>4
  <1> QED
    BY <1>1, <1>2, <1>3

\* The driver's result: the operation is left as it is, and only a finished
\* one is answered with a success and its count.
LEMMA CompletionStep ==
  ASSUME GateInv, NEW s \in Statements, NEW what \in {"ok", "Database"},
         Completion(s), Answer(s, what),
         audit' \in Seq(AuditRecords),
         \/ /\ what = "ok" /\ op[s] = "done"
            /\ rows' = [rows EXCEPT ![s] = Cardinality(Affected(s))]
         \/ what = "Database" /\ rows' = rows
  PROVE  GateInv'
  <1> USE DEF GateInv, Completion, Answer, mongoVars
  <1>1. TypeOK'
    <2>1. Cardinality(Affected(s)) \in Nat
      BY AffectedCount
    <2>2. rows' \in [Statements -> Nat]
      BY <2>1 DEF TypeOK
    <2>3. answer' \in [Statements -> Answers]
      BY DEF TypeOK, Answers
    <2> QED
      BY <2>2, <2>3 DEF TypeOK
  <1>2. PhaseInv'
    BY DEF TypeOK, PhaseInv, PhaseOf, CleanErrors
  <1>3. OperationInv'
    <2> SUFFICES ASSUME NEW t \in Statements
                 PROVE  OperationOf(t)'
      BY DEF OperationInv
    <2>1. OperationOf(t)
      BY DEF OperationInv
    <2>2. op' = op /\ todo' = todo /\ hits' = hits /\ sent' = sent
      OBVIOUS
    <2>3. Affected(t)' = Affected(t)
      BY <2>2 DEF Affected
    <2>4. CASE t = s
      <3>1. answer'[s] = "ok" => op[s] = "done" /\ rows'[s] = Cardinality(Affected(s))
        BY DEF TypeOK
      <3> QED
        BY <2>1, <2>2, <2>3, <2>4, <3>1 DEF OperationOf
    <2>5. CASE t # s
      <3>1. answer'[t] = answer[t] /\ rows'[t] = rows[t]
        BY <2>5 DEF TypeOK
      <3> QED
        BY <2>1, <2>2, <2>3, <3>1 DEF OperationOf
    <2> QED
      BY <2>4, <2>5
  <1> QED
    BY <1>1, <1>2, <1>3

\* MongoDB ends an operation: nothing else changes, and only an operation that
\* has no document left is done.
LEMMA OperationEnds ==
  ASSUME GateInv, NEW s \in Statements, NEW how \in {"done", "failed"},
         op[s] = "running", how = "done" => todo[s] = {},
         op' = [op EXCEPT ![s] = how],
         UNCHANGED <<proxyVars, coll, todo, hits>>
  PROVE  GateInv'
  <1> USE DEF GateInv, proxyVars
  <1>1. TypeOK'
    BY DEF TypeOK
  <1>2. PhaseInv'
    BY DEF TypeOK, PhaseInv, PhaseOf
  <1>3. OperationInv'
    <2> SUFFICES ASSUME NEW t \in Statements
                 PROVE  OperationOf(t)'
      BY DEF OperationInv
    <2>1. OperationOf(t)
      BY DEF OperationInv
    <2>2. todo' = todo /\ hits' = hits /\ sent' = sent /\ rows' = rows /\ answer' = answer
      OBVIOUS
    <2>3. Affected(t)' = Affected(t)
      BY <2>2 DEF Affected
    <2>4. op'[t] = IF t = s THEN how ELSE op[t]
      BY DEF TypeOK
    <2> QED
      BY <2>1, <2>2, <2>3, <2>4 DEF OperationOf
  <1> QED
    BY <1>1, <1>2, <1>3

\* MongoDB passes a document or writes it: it is struck off, and it counts at
\* most once.
LEMMA DocumentStep ==
  ASSUME GateInv, NEW s \in Statements, NEW d \in DocIds, NEW n \in {0, 1},
         op[s] = "running", n = 1 => hits[s][d] = 0,
         todo' = [todo EXCEPT ![s] = @ \ {d}],
         hits' = [hits EXCEPT ![s][d] = @ + n],
         DOMAIN coll' \subseteq DocIds,
         UNCHANGED <<proxyVars, op>>
  PROVE  GateInv'
  <1> USE DEF GateInv, proxyVars
  <1>1. hits[s][d] \in {0, 1} /\ hits[s][d] + n \in {0, 1}
    BY DEF TypeOK, OperationInv, OperationOf
  <1>2. TypeOK'
    <2>1. hits' \in [Statements -> [DocIds -> Nat]]
      BY <1>1 DEF TypeOK
    <2> QED
      BY <2>1 DEF TypeOK
  <1>3. PhaseInv'
    BY DEF PhaseInv, PhaseOf
  <1>4. OperationInv'
    <2> SUFFICES ASSUME NEW t \in Statements
                 PROVE  OperationOf(t)'
      BY DEF OperationInv
    <2>1. OperationOf(t)
      BY DEF OperationInv
    <2>2. op' = op /\ sent' = sent /\ rows' = rows /\ answer' = answer
      OBVIOUS
    <2>3. CASE t = s
      <3>1. todo'[s] = todo[s] \ {d}
        BY DEF TypeOK
      <3>2. \A e \in DocIds : hits'[s][e] = IF e = d THEN hits[s][e] + n ELSE hits[s][e]
        BY DEF TypeOK
      <3>3. \A e \in DocIds : hits'[s][e] \in {0, 1}
        BY <1>1, <2>1, <2>3, <3>2 DEF OperationOf
      <3>4. todo[s] \subseteq DocIds
        BY DEF TypeOK
      <3>5. \A e \in todo'[s] : hits'[s][e] = 0
        BY <2>1, <2>3, <3>1, <3>2, <3>4 DEF OperationOf
      <3> QED
        BY <2>1, <2>2, <2>3, <3>3, <3>5 DEF OperationOf
    <2>4. CASE t # s
      <3>1. todo'[t] = todo[t] /\ hits'[t] = hits[t]
        BY <2>4 DEF TypeOK
      <3>2. Affected(t)' = Affected(t)
        BY <3>1 DEF Affected
      <3> QED
        BY <2>1, <2>2, <3>1, <3>2 DEF OperationOf
    <2> QED
      BY <2>3, <2>4
  <1> QED
    BY <1>2, <1>3, <1>4

\* A crash answers what was in flight with a lost connection and empties the
\* audit trail; MongoDB keeps its operations.
LEMMA CrashStep ==
  ASSUME GateInv, Crash
  PROVE  GateInv'
  <1> USE DEF GateInv, Crash, mongoVars
  <1>1. TypeOK'
    BY BoundsAssumption DEF TypeOK, Answers
  <1>2. PhaseInv'
    <2> SUFFICES ASSUME NEW t \in Statements
                 PROVE  PhaseOf(t)'
      BY DEF PhaseInv
    <2>1. PhaseOf(t)
      BY DEF PhaseInv
    <2>2. op' = op /\ plan' = plan /\ context' = context /\ schema' = schema
      OBVIOUS
    <2>3. CASE pc[t] \in {"resolving", "executing"}
      <3>1. pc'[t] = "answered" /\ answer'[t] = "ConnectionLost"
        BY <2>3
      <3> QED
        BY <2>1, <2>2, <2>3, <3>1 DEF PhaseOf, CleanErrors
    <2>4. CASE pc[t] \notin {"resolving", "executing"}
      <3>1. pc'[t] = pc[t] /\ answer'[t] = answer[t]
        BY <2>4
      <3> QED
        BY <2>1, <2>2, <3>1 DEF PhaseOf
    <2> QED
      BY <2>3, <2>4
  <1>3. OperationInv'
    <2> SUFFICES ASSUME NEW t \in Statements
                 PROVE  OperationOf(t)'
      BY DEF OperationInv
    <2>1. OperationOf(t)
      BY DEF OperationInv
    <2>2. op' = op /\ todo' = todo /\ hits' = hits /\ sent' = sent /\ rows' = rows
      OBVIOUS
    <2>3. answer'[t] = "ok" => answer[t] = "ok"
      OBVIOUS
    <2> QED
      BY <2>1, <2>2, <2>3 DEF OperationOf, Affected
  <1> QED
    BY <1>1, <1>2, <1>3

-----------------------------------------------------------------------------
(* The invariant is inductive *)

\* The initial states satisfy it.
LEMMA GateInvInit == Init => GateInv
  <1> SUFFICES ASSUME Init PROVE GateInv
    OBVIOUS
  <1> USE DEF Init
  <1>1. TypeOK
    <2>1. DOMAIN coll \subseteq DocIds
      BY DEF DocIds, InitialIds
    <2>2. 0 \in 0 .. MaxCrashes
      BY BoundsAssumption
    <2> QED
      BY <2>1, <2>2 DEF TypeOK, Answers
  <1>2. PhaseInv
    BY DEF PhaseInv, PhaseOf, CleanErrors
  <1>3. OperationInv
    BY DEF OperationInv, OperationOf
  <1> QED
    BY <1>1, <1>2, <1>3 DEF GateInv

\* What a resolver action knows of its statement.
LEMMA Resolving ==
  ASSUME GateInv, NEW s \in Statements, ResolverReply(s)
  PROVE  /\ pc[s] = "resolving" /\ plan[s] \in Plans /\ plan[s].kind \in Kinds
         /\ NeedsResolution(plan[s], schema)
         /\ plan' = [plan EXCEPT ![s] = plan[s]]
         /\ audit \in Seq(AuditRecords)
         /\ UNCHANGED <<schema, forgotten, crashes>>
  BY PlansAssumption DEF GateInv, TypeOK, PhaseInv, PhaseOf, ResolverReply, Kinds

\* An executor error is a clean error.
LEMMA TranslationRefusal ==
  ASSUME GateInv, NEW s \in Statements, NEW p, p.kind \in Kinds,
         NEW original \in Plans, NEW ctx \in SUBSET AuditContexts,
         pc[s] \in {"new", "resolving"},
         RefuseTranslation(s, p, original, ctx),
         plan' = [plan EXCEPT ![s] = original],
         UNCHANGED <<schema, forgotten, crashes>>
  PROVE  GateInv'
  <1>1. PICK kind \in TranslationErrors(p) : Answer(s, kind)
    BY DEF RefuseTranslation
  <1>2. kind \in CleanErrors
    BY TranslationErrorKinds DEF CleanErrors
  <1>3. audit' \in Seq(AuditRecords)
    <2>1. "MongoExecutionFailed" \in AuditOutcomes
      BY DEF AuditOutcomes, AuditFailures
    <2> QED
      BY <2>1, AuditTrailType DEF RefuseTranslation, GateInv, TypeOK
  <1> QED
    BY <1>1, <1>2, <1>3, RefusalStep DEF RefuseTranslation

\* A blocked statement: one record, and one of the two errors of the gate.
LEMMA BlockedStep ==
  ASSUME GateInv, NEW s \in Statements, NEW p \in Plans,
         NEW failure \in AuditFailures, NEW what \in {"AmbiguousWrite", "Dependency"},
         pc[s] \in {"new", "resolving"},
         record_blocked(s, p, failure), Answer(s, what),
         plan' = [plan EXCEPT ![s] = p],
         UNCHANGED <<schema, mongoVars, sent, context, rows, forgotten, crashes>>
  PROVE  GateInv'
  <1>1. audit' \in Seq(AuditRecords)
    <2>1. failure \in AuditOutcomes
      BY DEF AuditOutcomes
    <2>2. {} \in SUBSET AuditContexts /\ 0 \in Nat
      OBVIOUS
    <2> QED
      BY <2>1, <2>2, AuditTrailType DEF record_blocked, GateInv, TypeOK
  <1> QED
    BY <1>1, RefusalStep DEF CleanErrors

\* An accepted response yields a context for the audit.
LEMMA ContextOfAcceptance ==
  ASSUME NEW r \in Responses
  PROVE  {[selected_candidate |-> r.candidate, confidence |-> bp] :
             bp \in from_ratio(r.confidence)} \in SUBSET AuditContexts
  <1>1. r.candidate \in ResolutionCandidates /\ r.confidence.bp \in Nat
    BY ResponsesAssumption
  <1>2. \A bp \in from_ratio(r.confidence) : bp \in 0 .. FullConfidence
    BY <1>1, ConfidenceRange
  <1> QED
    BY <1>1, <1>2 DEF AuditContexts

\* The records written at the end of an operation are well formed.
LEMMA ExecutionRecorded ==
  ASSUME GateInv, NEW s \in Statements, Completion(s),
         NEW outcome \in {"Executed", "MongoExecutionFailed"},
         NEW count \in {0, Cardinality(Affected(s))},
         RecordIfGated(s, plan[s], context[s], outcome, count)
  PROVE  audit' \in Seq(AuditRecords)
  <1>1. plan[s] \in Plans /\ context[s] \in SUBSET AuditContexts
    BY DEF GateInv, TypeOK, PhaseInv, PhaseOf, Completion
  <1>2. count \in Nat /\ outcome \in AuditOutcomes
    BY AffectedCount DEF AuditOutcomes, AuditFailures
  <1> QED
    BY <1>1, <1>2, AuditTrailType DEF GateInv, TypeOK

\* MongoDB writes a document of the model's identities and keeps to them.
LEMMA MongoWriteStep ==
  ASSUME GateInv, NEW s \in Statements, NEW d \in DocIds, MongoWrite(s, d)
  PROVE  GateInv'
  <1>1. op[s] = "running" /\ hits[s][d] = 0
    BY DEF MongoWrite, MongoReaches, GateInv, OperationInv, OperationOf
  <1>2. DOMAIN coll' \subseteq DocIds
    <2>1. sent[s].kind \in Kinds /\ DOMAIN coll \subseteq DocIds
      BY <1>1 DEF GateInv, TypeOK, OperationInv, OperationOf
    <2>2. CASE sent[s].kind = "Insert"
      BY <2>1, <2>2 DEF MongoWrite
    <2>3. CASE sent[s].kind = "Update"
      BY <2>1, <2>3 DEF MongoWrite
    <2>4. CASE sent[s].kind = "Delete"
      BY <2>1, <2>4 DEF MongoWrite
    <2> QED
      BY <2>1, <2>2, <2>3, <2>4 DEF Kinds
  <1>3. /\ todo' = [todo EXCEPT ![s] = @ \ {d}]
        /\ hits' = [hits EXCEPT ![s][d] = @ + 1]
        /\ UNCHANGED <<proxyVars, op>>
    BY DEF MongoWrite
  <1> QED
    BY <1>1, <1>2, <1>3, DocumentStep

\* The steps of one statement, its resolver, MongoDB and the driver, and the
\* crash: each keeps the invariant.
LEMMA GateInvNext == GateInv /\ [Next]_vars => GateInv'
  <1> SUFFICES ASSUME GateInv, [Next]_vars
               PROVE  GateInv'
    OBVIOUS
  <1>1. ASSUME NEW s \in Statements, NEW p \in Plans, SubmitInvalid(s, p)
        PROVE  GateInv'
    <2>1. audit' \in Seq(AuditRecords)
      BY <1>1 DEF SubmitInvalid, GateInv, TypeOK
    <2> QED
      BY <1>1, <2>1, RefusalStep DEF SubmitInvalid, Submit, CleanErrors
  <1>2. ASSUME NEW s \in Statements, NEW p \in Plans, SubmitBlocked(s, p)
        PROVE  GateInv'
    BY <1>2, BlockedStep DEF SubmitBlocked, Submit, AuditFailures
  <1>3. ASSUME NEW s \in Statements, NEW p \in Plans, SubmitAmbiguous(s, p)
        PROVE  GateInv'
    <2> USE <1>3 DEF SubmitAmbiguous, Submit, mongoVars
    <2>1. TypeOK'
      BY DEF GateInv, TypeOK
    <2>2. PhaseInv'
      BY DEF GateInv, TypeOK, PhaseInv, PhaseOf, CleanErrors
    <2>3. OperationInv'
      BY DEF GateInv, OperationInv, OperationOf, Affected
    <2> QED
      BY <2>1, <2>2, <2>3 DEF GateInv
  <1>4. ASSUME NEW s \in Statements, NEW p \in Plans, SubmitClear(s, p)
        PROVE  GateInv'
    <2>1. p.kind \in Kinds
      BY PlansAssumption DEF Kinds
    <2>2. {} \in SUBSET AuditContexts
      OBVIOUS
    <2>3. /\ pc[s] = "new" /\ plan' = [plan EXCEPT ![s] = p]
          /\ lower_statement(p, schema) /\ ~NeedsResolution(p, schema)
          /\ UNCHANGED <<schema, forgotten, crashes>>
      BY <1>4 DEF SubmitClear, Submit
    <2>4. CASE Dispatch(s, p, {})
      BY <2>1, <2>2, <2>3, <2>4, DispatchStep
    <2>5. CASE RefuseTranslation(s, p, p, {})
      BY <2>1, <2>2, <2>3, <2>5, TranslationRefusal
    <2> QED
      BY <1>4, <2>4, <2>5 DEF SubmitClear
  <1>5. ASSUME NEW s \in Statements, NEW r \in Responses, RejectResponse(s, r)
        PROVE  GateInv'
    <2>1. validation_failure(Request(plan[s], schema), ResponseFor(s, r), MinimumConfidence)
            \in AuditFailures
      BY DEF validation_failure, AuditFailures
    <2> QED
      BY <1>5, <2>1, Resolving, BlockedStep DEF RejectResponse
  <1>6. ASSUME NEW s \in Statements, NEW r \in Responses, RejectResolution(s, r)
        PROVE  GateInv'
    BY <1>6, Resolving, BlockedStep DEF RejectResolution, AuditFailures
  <1>7. ASSUME NEW s \in Statements, NEW r \in Responses, RejectConfidence(s, r)
        PROVE  GateInv'
    BY <1>7, Resolving, RefusalStep DEF RejectConfidence, CleanErrors
  <1>8. ASSUME NEW s \in Statements, NEW r \in Responses, AcceptResolution(s, r)
        PROVE  GateInv'
    <2> DEFINE path == Request(plan[s], schema).target_path
               q    == apply_resolution(plan[s], path, r.candidate)
               ctx  == {[selected_candidate |-> r.candidate, confidence |-> bp] :
                           bp \in from_ratio(r.confidence)}
    <2>1. ctx \in SUBSET AuditContexts
      BY ContextOfAcceptance
    <2>2. ctx # {}
      BY <1>8 DEF AcceptResolution
    <2>3. /\ pc[s] = "resolving" /\ plan[s] \in Plans /\ plan[s].kind \in Kinds
          /\ NeedsResolution(plan[s], schema)
          /\ plan' = [plan EXCEPT ![s] = plan[s]]
          /\ UNCHANGED <<schema, forgotten, crashes>>
      BY <1>8, Resolving DEF AcceptResolution
    <2>4. CandidateApplies(plan[s], path, r.candidate)
      BY <1>8 DEF AcceptResolution, Applicable
    <2>5. q.kind \in Kinds /\ (q.kind = "Insert" => q \in Plans)
      BY <2>3, <2>4, ResolutionKeepsKind
    <2>6. Dispatch(s, q, ctx) \/ RefuseTranslation(s, q, plan[s], ctx)
      BY <1>8 DEF AcceptResolution
    <2> HIDE DEF q, ctx
    <2>7. CASE Dispatch(s, q, ctx)
      BY <2>1, <2>2, <2>3, <2>5, <2>7, DispatchStep
    <2>8. CASE RefuseTranslation(s, q, plan[s], ctx)
      BY <2>1, <2>3, <2>5, <2>8, TranslationRefusal
    <2> QED
      BY <2>6, <2>7, <2>8
  <1>9. ASSUME NEW s \in Statements, ResolverFail(s)
        PROVE  GateInv'
    BY <1>9, Resolving, BlockedStep DEF ResolverFail, AuditFailures
  <1>10. ASSUME NEW s \in Statements, NEW d \in DocIds, MongoSkip(s, d)
         PROVE  GateInv'
    <2>1. hits' = [hits EXCEPT ![s][d] = @ + 0]
      BY <1>10 DEF MongoSkip, GateInv, TypeOK
    <2>2. DOMAIN coll' \subseteq DocIds
      BY <1>10 DEF MongoSkip, GateInv, TypeOK
    <2>3. /\ op[s] = "running" /\ todo' = [todo EXCEPT ![s] = @ \ {d}]
          /\ UNCHANGED <<proxyVars, op>>
      BY <1>10 DEF MongoSkip
    <2>4. 0 \in {0, 1} /\ (0 = 1 => hits[s][d] = 0)
      OBVIOUS
    <2> QED
      BY <2>1, <2>2, <2>3, <2>4, DocumentStep
  <1>11. ASSUME NEW s \in Statements, NEW d \in DocIds, MongoWrite(s, d)
         PROVE  GateInv'
    BY <1>11, MongoWriteStep
  <1>12. ASSUME NEW s \in Statements, NEW d \in DocIds, MongoCannotSet(s, d)
         PROVE  GateInv'
    BY <1>12, OperationEnds DEF MongoCannotSet, MongoReaches
  <1>13. ASSUME NEW s \in Statements, MongoFinish(s)
         PROVE  GateInv'
    BY <1>13, OperationEnds DEF MongoFinish
  <1>14. ASSUME NEW s \in Statements, MongoFail(s)
         PROVE  GateInv'
    BY <1>14, OperationEnds DEF MongoFail
  <1>15. ASSUME NEW s \in Statements, ExecuteOk(s)
         PROVE  GateInv'
    <2>1. audit' \in Seq(AuditRecords)
      BY <1>15, ExecutionRecorded DEF ExecuteOk
    <2> QED
      BY <1>15, <2>1, CompletionStep DEF ExecuteOk
  <1>16. ASSUME NEW s \in Statements, ExecuteError(s)
         PROVE  GateInv'
    <2>1. audit' \in Seq(AuditRecords)
      BY <1>16, ExecutionRecorded DEF ExecuteError
    <2> QED
      BY <1>16, <2>1, CompletionStep DEF ExecuteError
  <1>17. ASSUME NEW s \in Statements, NetworkError(s)
         PROVE  GateInv'
    <2>1. audit' \in Seq(AuditRecords)
      BY <1>17, ExecutionRecorded DEF NetworkError
    <2> QED
      BY <1>17, <2>1, CompletionStep DEF NetworkError
  <1>18. CASE Crash
    BY <1>18, CrashStep
  <1>19. CASE UNCHANGED vars
    <2> USE <1>19 DEF vars, GateInv
    <2>1. TypeOK'
      BY DEF TypeOK
    <2>2. PhaseInv'
      BY DEF PhaseInv, PhaseOf
    <2>3. OperationInv'
      BY DEF OperationInv, OperationOf, Affected
    <2> QED
      BY <2>1, <2>2, <2>3
  <1> QED
    BY <1>1, <1>2, <1>3, <1>4, <1>5, <1>6, <1>7, <1>8, <1>9, <1>10, <1>11, <1>12,
       <1>13, <1>14, <1>15, <1>16, <1>17, <1>18, <1>19
    DEF Next, ClientStep, ResolverStep, MongoStep, DriverStep

\* The inductive invariant holds in every reachable state.
THEOREM GateInvariant == Spec => []GateInv
  BY GateInvInit, GateInvNext, PTL DEF Spec

-----------------------------------------------------------------------------
(* The safety properties it implies *)

\* Type correctness: operations target documents of the collection or rows of
\* their INSERT, and the audit trail holds well-formed records only.
THEOREM TypeCorrect == Spec => []TypeOK
  <1>1. GateInv => TypeOK
    BY DEF GateInv
  <1> QED
    BY <1>1, GateInvariant, PTL

\* A client told InvalidInput, FeatureNotSupported, AmbiguousWrite or Dependency
\* may submit the statement again: it has written nothing and never will.
THEOREM CleanErrorsAreClean == Spec => []CleanErrorHasNoEffect
  <1>1. GateInv => CleanErrorHasNoEffect
    BY DEF GateInv, PhaseInv, PhaseOf, OperationInv, OperationOf, CleanErrorHasNoEffect
  <1> QED
    BY <1>1, GateInvariant, PTL

\* No statement writes a document twice, whatever is lost and whatever crashes.
THEOREM AtMostOnce == Spec => []AtMostOncePerDocument
  <1>1. GateInv => AtMostOncePerDocument
    BY DEF GateInv, OperationInv, OperationOf, AtMostOncePerDocument
  <1> QED
    BY <1>1, GateInvariant, PTL

\* A command tag counts the documents of an operation that is over.
THEOREM SuccessCounts == Spec => []SuccessIsComplete
  <1>1. GateInv => SuccessIsComplete
    BY DEF GateInv, OperationInv, OperationOf, SuccessIsComplete
  <1> QED
    BY <1>1, GateInvariant, PTL

-----------------------------------------------------------------------------
(* One audit record for each gated attempt *)

\* Every record names the statement it was written for.
LEMMA RecordedStatements ==
  ASSUME GateInv
  PROVE  \A i \in DOMAIN audit : audit[i].stmt \in Statements
  <1>1. audit \in Seq(AuditRecords)
    BY DEF GateInv, TypeOK
  <1>2. \A i \in DOMAIN audit : audit[i] \in AuditRecords
    BY <1>1
  <1>3. \A rec \in AuditRecords : rec.stmt \in Statements
    BY DEF AuditRecords
  <1> QED
    BY <1>2, <1>3

\* A gated statement is answered and one record is appended for it.
LEMMA Recorded ==
  ASSUME GateInv, AuditedOnce, NEW s \in Statements, NEW p, NEW rec,
         pc[s] # "answered", pc' = [pc EXCEPT ![s] = "answered"],
         plan' = [plan EXCEPT ![s] = p], NeedsResolution(p, schema),
         audit' = Append(audit, rec), rec.stmt = s,
         UNCHANGED <<schema, forgotten>>
  PROVE  AuditedOnce'
  <1> DEFINE n == Len(audit)
  <1>1. /\ n \in Nat /\ DOMAIN audit = 1 .. n /\ DOMAIN audit' = 1 .. n + 1
        /\ \A i \in 1 .. n : audit'[i] = audit[i]
        /\ audit'[n + 1] = rec
    BY DEF GateInv, TypeOK
  <1>2. \A i \in DOMAIN audit : audit[i].stmt # s
    BY DEF AuditedOnce
  <1>3. \A i \in DOMAIN audit : audit[i].stmt \in Statements
    BY RecordedStatements
  <1>4. \A t \in Statements \ {s} : pc'[t] = pc[t] /\ plan'[t] = plan[t]
    BY DEF GateInv, TypeOK
  <1>5. pc'[s] = "answered" /\ plan'[s] = p
    BY DEF GateInv, TypeOK
  <1> HIDE DEF n
  <1>6. \A i, j \in DOMAIN audit' : audit'[i].stmt = audit'[j].stmt => i = j
    BY <1>1, <1>2 DEF AuditedOnce
  <1>7. \A i \in DOMAIN audit' :
           pc'[audit'[i].stmt] = "answered" /\ NeedsResolution(plan'[audit'[i].stmt], schema)
    <2> TAKE i \in DOMAIN audit'
    <2>1. CASE i = n + 1
      BY <1>1, <1>5, <2>1
    <2>2. CASE i # n + 1
      <3>1. i \in DOMAIN audit /\ audit'[i] = audit[i]
        BY <1>1, <2>2
      <3>2. audit[i].stmt \in Statements \ {s}
        BY <1>2, <1>3, <3>1
      <3> QED
        BY <1>4, <3>1, <3>2 DEF AuditedOnce
    <2> QED
      BY <2>1, <2>2
  <1>8. ASSUME NEW t \in Statements \ forgotten,
               pc'[t] = "answered", NeedsResolution(plan'[t], schema)
        PROVE  \E i \in DOMAIN audit' : audit'[i].stmt = t
    <2>1. CASE t = s
      BY <1>1, <2>1
    <2>2. CASE t # s
      <3>1. PICK i \in DOMAIN audit : audit[i].stmt = t
        BY <1>4, <1>8, <2>2 DEF AuditedOnce
      <3> QED
        BY <1>1, <3>1
    <2> QED
      BY <2>1, <2>2
  <1> QED
    BY <1>6, <1>7, <1>8 DEF AuditedOnce

\* A statement that was never gated is answered, without a record.
LEMMA Unrecorded ==
  ASSUME GateInv, AuditedOnce, NEW s \in Statements, NEW p,
         pc[s] # "answered", pc' = [pc EXCEPT ![s] = "answered"],
         plan' = [plan EXCEPT ![s] = p], ~NeedsResolution(p, schema),
         UNCHANGED <<audit, schema, forgotten>>
  PROVE  AuditedOnce'
  <1>1. \A i \in DOMAIN audit : audit[i].stmt \in Statements \ {s}
    BY RecordedStatements DEF AuditedOnce
  <1>2. \A t \in Statements \ {s} : pc'[t] = pc[t] /\ plan'[t] = plan[t]
    BY DEF GateInv, TypeOK
  <1>3. plan'[s] = p
    BY DEF GateInv, TypeOK
  <1> QED
    BY <1>1, <1>2, <1>3 DEF AuditedOnce

\* Steps that answer nobody leave the records and their statements as they are.
LEMMA NobodyAnswered ==
  ASSUME GateInv, AuditedOnce,
         \A t \in Statements : pc'[t] = "answered" <=> pc[t] = "answered",
         \A t \in Statements : pc[t] = "answered" => plan'[t] = plan[t],
         UNCHANGED <<audit, schema, forgotten>>
  PROVE  AuditedOnce'
  <1>1. \A i \in DOMAIN audit : audit[i].stmt \in Statements
    BY RecordedStatements
  <1>2. \A i, j \in DOMAIN audit' : audit'[i].stmt = audit'[j].stmt => i = j
    BY DEF AuditedOnce
  <1>3. \A i \in DOMAIN audit' :
           pc'[audit'[i].stmt] = "answered" /\ NeedsResolution(plan'[audit'[i].stmt], schema)
    BY <1>1 DEF AuditedOnce
  <1>4. ASSUME NEW t \in Statements \ forgotten,
               pc'[t] = "answered", NeedsResolution(plan'[t], schema)
        PROVE  \E i \in DOMAIN audit' : audit'[i].stmt = t
    BY <1>4 DEF AuditedOnce
  <1> QED
    BY <1>2, <1>3, <1>4 DEF AuditedOnce

\* A positive confidence threshold leaves nothing for the unrecorded refusal:
\* what passes validation converts for the audit.
LEMMA ConfidenceAlwaysConverts ==
  ASSUME MinimumConfidence > 0, NEW confidence, confidence.bp \in Nat,
         ConfidenceAccepted(confidence, MinimumConfidence)
  PROVE  from_ratio(confidence) # {}
  <1>1. Ratio(confidence) >= MinimumConfidence /\ Ratio(confidence) <= FullConfidence
    BY Zenon DEF ConfidenceAccepted
  <1>2. FullConfidence \in Nat /\ MinimumConfidence \in Nat
    BY ConfidenceAssumption DEF FullConfidence
  <1>3. CASE confidence.neg
    <2>1. Ratio(confidence) = -confidence.bp
      BY <1>3 DEF Ratio
    <2> QED
      BY <1>1, <1>2, <2>1
  <1>4. CASE ~confidence.neg
    <2>1. Ratio(confidence) = confidence.bp
      BY <1>4 DEF Ratio
    <2>2. Ratio(confidence) \in 0 .. FullConfidence
      BY <1>1, <1>2, <2>1
    <2>3. confidence.bp \in from_ratio(confidence)
      BY <1>4, <2>2, Zenon DEF from_ratio
    <2> QED
      BY <2>3
  <1> QED
    BY <1>3, <1>4

\* The resolver stage answers with a record (record_blocked).
LEMMA ResolverActionRecorded ==
  ASSUME GateInv, AuditedOnce, NEW s \in Statements, ResolverReply(s),
         NEW ctx, NEW outcome, NEW count, NEW what,
         audit' = Append(audit, AuditRecord(s, plan[s], schema, ctx, outcome, count)),
         Answer(s, what)
  PROVE  AuditedOnce'
  <1>1. AuditRecord(s, plan[s], schema, ctx, outcome, count).stmt = s
    BY DEF AuditRecord
  <1>2. /\ pc[s] = "resolving" /\ NeedsResolution(plan[s], schema)
        /\ plan' = [plan EXCEPT ![s] = plan[s]]
        /\ UNCHANGED <<schema, forgotten>>
    BY Resolving
  <1> QED
    BY <1>1, <1>2, Recorded DEF Answer

\* The completion stage answers with a record if it carries an audit context.
LEMMA CompletionRecorded ==
  ASSUME GateInv, AuditedOnce, NEW s \in Statements, Completion(s),
         NEW outcome, NEW count, NEW what,
         RecordIfGated(s, plan[s], context[s], outcome, count),
         Answer(s, what)
  PROVE  AuditedOnce'
  <1> DEFINE rec == AuditRecord(s, plan[s], schema, context[s], outcome, count)
  <1>1. rec.stmt = s
    BY DEF AuditRecord
  <1>2. /\ pc[s] = "executing" /\ plan' = [plan EXCEPT ![s] = plan[s]]
        /\ context[s] # {} <=> NeedsResolution(plan[s], schema)
        /\ UNCHANGED <<schema, forgotten>>
    BY DEF Completion, GateInv, TypeOK, PhaseInv, PhaseOf
  <1>3. audit' = IF context[s] = {} THEN audit ELSE Append(audit, rec)
    BY DEF RecordIfGated
  <1> HIDE DEF rec
  <1>4. CASE context[s] = {}
    BY <1>2, <1>3, <1>4, Unrecorded DEF Answer
  <1>5. CASE context[s] # {}
    BY <1>1, <1>2, <1>3, <1>5, Recorded DEF Answer
  <1> QED
    BY <1>4, <1>5

\* Given a positive threshold, every step keeps one record for each answered
\* gated statement and none for another.
LEMMA AuditedOnceNext ==
  ASSUME MinimumConfidence > 0, GateInv, AuditedOnce, [Next]_vars
  PROVE  AuditedOnce'
  <1>1. ASSUME NEW s \in Statements, NEW p \in Plans, SubmitInvalid(s, p)
        PROVE  AuditedOnce'
    <2>1. ~NeedsResolution(p, schema)
      BY <1>1 DEF SubmitInvalid, NeedsResolution
    <2> QED
      BY <1>1, <2>1, Unrecorded DEF SubmitInvalid, Submit, Answer
  <1>2. ASSUME NEW s \in Statements, NEW p \in Plans, SubmitBlocked(s, p)
        PROVE  AuditedOnce'
    <2> DEFINE rec == AuditRecord(s, p, schema, {}, "NoSafeResolution", 0)
    <2>1. rec.stmt = s
      BY DEF AuditRecord
    <2>2. audit' = Append(audit, rec)
      BY <1>2 DEF SubmitBlocked, record_blocked
    <2> HIDE DEF rec
    <2> QED
      BY <1>2, <2>1, <2>2, Recorded DEF SubmitBlocked, Submit, Answer
  <1>3. ASSUME NEW s \in Statements, NEW p \in Plans, SubmitAmbiguous(s, p)
        PROVE  AuditedOnce'
    BY <1>3, NobodyAnswered DEF SubmitAmbiguous, Submit, GateInv, TypeOK
  <1>4. ASSUME NEW s \in Statements, NEW p \in Plans, SubmitClear(s, p)
        PROVE  AuditedOnce'
    <2>1. /\ pc[s] = "new" /\ plan' = [plan EXCEPT ![s] = p]
          /\ ~NeedsResolution(p, schema)
          /\ UNCHANGED <<schema, forgotten>>
      BY <1>4 DEF SubmitClear, Submit
    <2>2. CASE Dispatch(s, p, {})
      BY <2>1, <2>2, NobodyAnswered DEF Dispatch, GateInv, TypeOK
    <2>3. CASE RefuseTranslation(s, p, p, {})
      <3>1. pc' = [pc EXCEPT ![s] = "answered"] /\ audit' = audit
        BY <2>3 DEF RefuseTranslation, Answer, RecordIfGated
      <3> QED
        BY <2>1, <3>1, Unrecorded
    <2> QED
      BY <1>4, <2>2, <2>3 DEF SubmitClear
  <1>5. ASSUME NEW s \in Statements, NEW r \in Responses, RejectResponse(s, r)
        PROVE  AuditedOnce'
    BY <1>5, ResolverActionRecorded DEF RejectResponse, record_blocked
  <1>6. ASSUME NEW s \in Statements, NEW r \in Responses, RejectResolution(s, r)
        PROVE  AuditedOnce'
    BY <1>6, ResolverActionRecorded DEF RejectResolution, record_blocked
  <1>7. ASSUME NEW s \in Statements, NEW r \in Responses, RejectConfidence(s, r)
        PROVE  FALSE
    <2>1. ConfidenceAccepted(r.confidence, MinimumConfidence)
      <3>1. ResponseFor(s, r).confidence = r.confidence
        BY ResponsesAssumption DEF ResponseFor
      <3> QED
        BY <1>7, <3>1 DEF RejectConfidence, Accepted, validate_resolver_response
    <2>2. r.confidence.bp \in Nat
      BY ResponsesAssumption
    <2> QED
      BY <1>7, <2>1, <2>2, ConfidenceAlwaysConverts DEF RejectConfidence
  <1>8. ASSUME NEW s \in Statements, NEW r \in Responses, AcceptResolution(s, r)
        PROVE  AuditedOnce'
    <2> DEFINE q   == apply_resolution(plan[s], Request(plan[s], schema).target_path, r.candidate)
               ctx == {[selected_candidate |-> r.candidate, confidence |-> bp] :
                          bp \in from_ratio(r.confidence)}
    <2>1. ctx # {}
      BY <1>8 DEF AcceptResolution
    <2>2. ResolverReply(s) /\ (Dispatch(s, q, ctx) \/ RefuseTranslation(s, q, plan[s], ctx))
      BY <1>8 DEF AcceptResolution
    <2> HIDE DEF q, ctx
    <2>3. CASE Dispatch(s, q, ctx)
      BY <2>2, <2>3, Resolving, NobodyAnswered DEF Dispatch, GateInv, TypeOK
    <2>4. CASE RefuseTranslation(s, q, plan[s], ctx)
      <3>1. PICK what \in TranslationErrors(q) : Answer(s, what)
        BY <2>4 DEF RefuseTranslation
      <3>2. audit' = Append(audit, AuditRecord(s, plan[s], schema, ctx, "MongoExecutionFailed", 0))
        BY <2>1, <2>4 DEF RefuseTranslation, RecordIfGated
      <3> QED
        BY <2>2, <3>1, <3>2, ResolverActionRecorded
    <2> QED
      BY <2>2, <2>3, <2>4
  <1>9. ASSUME NEW s \in Statements, ResolverFail(s)
        PROVE  AuditedOnce'
    BY <1>9, ResolverActionRecorded DEF ResolverFail, record_blocked
  <1>10. ASSUME NEW s \in Statements, MongoStep(s)
         PROVE  AuditedOnce'
    <2>1. UNCHANGED proxyVars
      BY <1>10 DEF MongoStep, MongoSkip, MongoWrite, MongoCannotSet, MongoFinish, MongoFail
    <2> QED
      BY <2>1, NobodyAnswered DEF proxyVars
  <1>11. ASSUME NEW s \in Statements, DriverStep(s) \/ NetworkError(s)
         PROVE  AuditedOnce'
    BY <1>11, CompletionRecorded DEF DriverStep, ExecuteOk, ExecuteError, NetworkError
  <1>12. CASE Crash
    <2>1. DOMAIN audit' = {}
      BY <1>12 DEF Crash
    <2>2. ASSUME NEW t \in Statements \ forgotten'
          PROVE  pc'[t] # "answered"
      BY <1>12, <2>2 DEF Crash
    <2> QED
      BY <2>1, <2>2 DEF AuditedOnce
  <1>13. CASE UNCHANGED vars
    BY <1>13, NobodyAnswered DEF vars
  <1> QED
    BY <1>1, <1>2, <1>3, <1>4, <1>5, <1>6, <1>7, <1>8, <1>9, <1>10, <1>11, <1>12, <1>13
    DEF Next, ClientStep, ResolverStep

\* Given a positive threshold, every answered attempt that needed a resolution
\* has exactly one audit record and no other statement has any.
THEOREM EveryGatedWriteAudited ==
  ASSUME MinimumConfidence > 0
  PROVE  Spec => []AuditedOnce
  <1>1. Init => AuditedOnce
    BY DEF Init, AuditedOnce
  <1>2. GateInv /\ AuditedOnce /\ [Next]_vars => AuditedOnce'
    BY AuditedOnceNext
  <1> QED
    BY <1>1, <1>2, GateInvariant, PTL DEF Spec

-----------------------------------------------------------------------------
(* Refinement of WriteContract *)

\* The mapped variables of the contract.
AbsStatus == [s \in Statements |-> Status(s)]
AbsWritten == [s \in Statements |-> Affected(s)]

-----------------------------------------------------------------------------

\* The status of a statement, case by case.
LEMMA StatusCases ==
  ASSUME NEW s \in Statements
  PROVE  /\ pc[s] = "new" => Status(s) = "new"
         /\ pc[s] \in {"resolving", "executing"} => Status(s) = "pending"
         /\ pc[s] = "answered" /\ answer[s] = "ok" => Status(s) = "done"
         /\ pc[s] = "answered" /\ answer[s] \in CleanErrors => Status(s) = "refused"
         /\ pc[s] = "answered" /\ answer[s] \in {"Database", "ConnectionLost"}
               => Status(s) = "unknown"
  BY DEF Status, CleanErrors

\* The contract counts as the proxy does: both use the standard module's operator.
LEMMA SameCardinality ==
  ASSUME NEW S
  PROVE  Contract!Cardinality(S) = Cardinality(S)
  BY DEF Contract!Cardinality, Cardinality

\* A step that changes the place and the answer of one statement only.
LEMMA OneStatusChanges ==
  ASSUME NEW s \in Statements,
         \A t \in Statements \ {s} : pc'[t] = pc[t] /\ answer'[t] = answer[t]
  PROVE  AbsStatus' = [AbsStatus EXCEPT ![s] = Status(s)']
  <1>1. \A t \in Statements \ {s} : Status(t)' = Status(t)
    BY DEF Status
  <1> QED
    BY <1>1 DEF AbsStatus

\* What has been written is read off the hits.
LEMMA SameWritten ==
  ASSUME hits' = hits
  PROVE  AbsWritten' = AbsWritten
  <1>1. \A t \in Statements : Affected(t)' = Affected(t)
    BY DEF Affected
  <1> QED
    BY <1>1 DEF AbsWritten

\* A statement without an operation has written nothing.
LEMMA NothingWritten ==
  ASSUME GateInv, NEW s \in Statements, op[s] = "none"
  PROVE  Affected(s) = {}
  <1>1. \A d \in DocIds : hits[s][d] = 0
    BY DEF GateInv, OperationInv, OperationOf
  <1> QED
    BY <1>1 DEF Affected

\* A refusal before any operation is a refusal of the contract.
LEMMA RefusalRefines ==
  ASSUME GateInv, NEW s \in Statements, NEW what \in CleanErrors,
         pc[s] \in {"new", "resolving"}, Answer(s, what),
         UNCHANGED <<hits, rows>>
  PROVE  Contract!Next
  <1>1. Status(s) \in {"new", "pending"}
    BY StatusCases
  <1>2. Affected(s) = {}
    BY NothingWritten DEF GateInv, PhaseInv, PhaseOf
  <1>3. Status(s)' = "refused"
    <2>1. pc'[s] = "answered" /\ answer'[s] = what
      BY DEF Answer, GateInv, TypeOK
    <2> QED
      BY <2>1 DEF Status, CleanErrors
  <1>4. AbsStatus' = [AbsStatus EXCEPT ![s] = "refused"]
    <2>1. \A t \in Statements \ {s} : pc'[t] = pc[t] /\ answer'[t] = answer[t]
      BY DEF Answer, GateInv, TypeOK
    <2> QED
      BY <1>3, <2>1, OneStatusChanges
  <1>5. AbsWritten' = AbsWritten
    BY SameWritten
  <1>6. Contract!Refuse(s)
    BY <1>1, <1>2, <1>4, <1>5 DEF Contract!Refuse, AbsStatus, AbsWritten
  <1> QED
    BY <1>6 DEF Contract!Next

\* An executor error is a refusal of the contract.
LEMMA TranslationRefines ==
  ASSUME GateInv, NEW s \in Statements, NEW p, p.kind \in Kinds, NEW original, NEW ctx,
         pc[s] \in {"new", "resolving"}, RefuseTranslation(s, p, original, ctx)
  PROVE  Contract!Next
  <1>1. PICK kind \in TranslationErrors(p) : Answer(s, kind)
    BY DEF RefuseTranslation
  <1>2. kind \in CleanErrors
    BY TranslationErrorKinds DEF CleanErrors
  <1> QED
    BY <1>1, <1>2, RefusalRefines DEF RefuseTranslation, mongoVars

\* Handing a new statement to the resolver or to MongoDB begins it.
LEMMA BeginRefines ==
  ASSUME GateInv, NEW s \in Statements, pc[s] = "new",
         NEW where \in {"resolving", "executing"}, pc' = [pc EXCEPT ![s] = where],
         UNCHANGED <<answer, hits, rows>>
  PROVE  Contract!Next
  <1>1. Status(s) = "new"
    BY StatusCases
  <1>2. Status(s)' = "pending"
    BY DEF Status, GateInv, TypeOK
  <1>3. AbsStatus' = [AbsStatus EXCEPT ![s] = "pending"]
    <2>1. \A t \in Statements \ {s} : pc'[t] = pc[t] /\ answer'[t] = answer[t]
      BY DEF GateInv, TypeOK
    <2> QED
      BY <1>2, <2>1, OneStatusChanges
  <1>4. AbsWritten' = AbsWritten
    BY SameWritten
  <1>5. Contract!Begin(s)
    BY <1>1, <1>3, <1>4 DEF Contract!Begin, AbsStatus, AbsWritten
  <1> QED
    BY <1>5 DEF Contract!Next

\* Statements that stay where they are in the client's eyes.
LEMMA StutterRefines ==
  ASSUME \A t \in Statements : Status(t)' = Status(t), UNCHANGED <<hits, rows>>
  PROVE  UNCHANGED Contract!vars
  <1>1. AbsStatus' = AbsStatus
    BY DEF AbsStatus
  <1>2. AbsWritten' = AbsWritten
    BY SameWritten
  <1> QED
    BY <1>1, <1>2 DEF Contract!vars, AbsStatus, AbsWritten

\* Statements that lose their answer together.
LEMMA GiveUpRefines ==
  ASSUME NEW lost \in SUBSET Statements,
         \A t \in lost : Status(t) = "pending" /\ Status(t)' = "unknown",
         \A t \in Statements \ lost : Status(t)' = Status(t),
         UNCHANGED <<hits, rows>>
  PROVE  Contract!Next
  <1>1. AbsStatus' = [t \in Statements |-> IF t \in lost THEN "unknown" ELSE AbsStatus[t]]
    BY DEF AbsStatus
  <1>2. AbsWritten' = AbsWritten
    BY SameWritten
  <1>3. \A t \in lost : AbsStatus[t] = "pending"
    BY DEF AbsStatus
  <1>4. Contract!GiveUp(lost)
    BY <1>1, <1>2, <1>3 DEF Contract!GiveUp, AbsStatus, AbsWritten
  <1> QED
    BY <1>4 DEF Contract!Next

\* A database error leaves the outcome open.
LEMMA FailureRefines ==
  ASSUME GateInv, NEW s \in Statements, Completion(s), Answer(s, "Database"), rows' = rows
  PROVE  Contract!Next
  <1>1. pc'[s] = "answered" /\ answer'[s] = "Database"
    BY DEF Answer, GateInv, TypeOK
  <1>2. Status(s) = "pending" /\ Status(s)' = "unknown"
    BY <1>1 DEF Completion, Status, CleanErrors
  <1>3. \A t \in Statements \ {s} : Status(t)' = Status(t)
    BY DEF Answer, GateInv, TypeOK, Status
  <1>4. UNCHANGED <<hits, rows>>
    BY DEF Completion, mongoVars
  <1> QED
    BY <1>2, <1>3, <1>4, GiveUpRefines

\* A success completes the statement with the count of what it wrote.
LEMMA SuccessRefines ==
  ASSUME GateInv, NEW s \in Statements, ExecuteOk(s)
  PROVE  Contract!Next
  <1>1. pc'[s] = "answered" /\ answer'[s] = "ok"
    BY DEF ExecuteOk, Answer, GateInv, TypeOK
  <1>2. Status(s) = "pending" /\ Status(s)' = "done"
    BY <1>1 DEF ExecuteOk, Completion, Status, CleanErrors
  <1>3. AbsStatus' = [AbsStatus EXCEPT ![s] = "done"]
    <2>1. \A t \in Statements \ {s} : pc'[t] = pc[t] /\ answer'[t] = answer[t]
      BY DEF ExecuteOk, Answer, GateInv, TypeOK
    <2> QED
      BY <1>2, <2>1, OneStatusChanges
  <1>4. AbsWritten' = AbsWritten
    BY SameWritten DEF ExecuteOk, Completion, mongoVars
  <1>5. rows' = [rows EXCEPT ![s] = Cardinality(Affected(s))]
    BY DEF ExecuteOk
  <1>6. Contract!Complete(s)
    <2>1. AbsStatus[s] = "pending" /\ AbsWritten[s] = Affected(s)
      BY <1>2 DEF AbsStatus, AbsWritten
    <2>2. rows' = [rows EXCEPT ![s] = Contract!Cardinality(AbsWritten[s])]
      BY <1>5, <2>1, SameCardinality
    <2> QED
      BY <1>3, <1>4, <2>1, <2>2 DEF Contract!Complete, AbsStatus, AbsWritten
  <1> QED
    BY <1>6 DEF Contract!Next

\* MongoDB writes a document of a statement that is pending or given up.
LEMMA WriteRefines ==
  ASSUME GateInv, NEW s \in Statements, NEW d \in DocIds, MongoWrite(s, d)
  PROVE  Contract!Next
  <1>1. op[s] = "running" /\ hits[s][d] = 0
    BY DEF MongoWrite, MongoReaches, GateInv, OperationInv, OperationOf
  <1>2. Status(s) \in {"pending", "unknown"}
    <2>1. /\ pc[s] \in {"executing", "answered"}
          /\ answer[s] \notin CleanErrors \cup {"ok"}
          /\ pc[s] = "answered" => answer[s] # "none"
      BY <1>1 DEF GateInv, TypeOK, PhaseInv, PhaseOf, OperationInv, OperationOf
    <2> QED
      BY <2>1 DEF Status
  <1>3. Affected(s)' = Affected(s) \cup {d} /\ d \notin Affected(s)
    <2>1. \A e \in DocIds : hits'[s][e] = IF e = d THEN 1 ELSE hits[s][e]
      BY <1>1 DEF MongoWrite, GateInv, TypeOK
    <2> QED
      BY <1>1, <2>1 DEF Affected
  <1>4. AbsWritten' = [AbsWritten EXCEPT ![s] = @ \cup {d}]
    <2>1. \A t \in Statements \ {s} : Affected(t)' = Affected(t)
      BY DEF MongoWrite, GateInv, TypeOK, Affected
    <2> QED
      BY <1>3, <2>1 DEF AbsWritten
  <1>5. AbsStatus' = AbsStatus /\ rows' = rows
    <2>1. pc' = pc /\ answer' = answer /\ rows' = rows
      BY DEF MongoWrite, proxyVars
    <2>2. \A t \in Statements : Status(t)' = Status(t)
      BY <2>1 DEF Status
    <2> QED
      BY <2>1, <2>2 DEF AbsStatus
  <1>6. Contract!Write(s, d)
    <2>1. AbsStatus[s] \in {"pending", "unknown"} /\ d \notin AbsWritten[s]
      BY <1>2, <1>3 DEF AbsStatus, AbsWritten
    <2> QED
      BY <1>4, <1>5, <2>1 DEF Contract!Write, AbsStatus, AbsWritten
  <1> QED
    BY <1>6 DEF Contract!Next

\* A crash gives up what was in flight, all at once.
LEMMA CrashRefines ==
  ASSUME GateInv, Crash
  PROVE  Contract!Next
  <1> DEFINE lost == {t \in Statements : pc[t] \in {"resolving", "executing"}}
  <1>1. ASSUME NEW t \in lost
        PROVE  Status(t) = "pending" /\ Status(t)' = "unknown"
    <2>1. pc'[t] = "answered" /\ answer'[t] = "ConnectionLost"
      BY DEF Crash
    <2> QED
      BY <2>1 DEF Status, CleanErrors
  <1>2. ASSUME NEW t \in Statements \ lost
        PROVE  Status(t)' = Status(t)
    <2>1. pc'[t] = pc[t] /\ answer'[t] = answer[t]
      BY DEF Crash
    <2> QED
      BY <2>1 DEF Status
  <1>3. UNCHANGED <<hits, rows>>
    BY DEF Crash, mongoVars
  <1> HIDE DEF lost
  <1>4. lost \in SUBSET Statements
    BY DEF lost
  <1> QED
    BY <1>1, <1>2, <1>3, <1>4, GiveUpRefines

-----------------------------------------------------------------------------

\* The initial states of the proxy are those of the contract.
LEMMA ContractInit == Init => Contract!Init
  <1> SUFFICES ASSUME Init PROVE Contract!Init
    OBVIOUS
  <1>1. AbsStatus = [s \in Statements |-> "new"]
    BY StatusCases DEF Init, AbsStatus
  <1>2. AbsWritten = [s \in Statements |-> {}]
    BY DEF Init, AbsWritten, Affected
  <1> QED
    BY <1>1, <1>2 DEF Init, Contract!Init, AbsStatus, AbsWritten

\* Every step is a step of the contract or leaves its variables unchanged.
LEMMA ContractNext ==
  ASSUME GateInv, [Next]_vars
  PROVE  [Contract!Next]_(Contract!vars)
  <1>1. ASSUME NEW s \in Statements, ClientStep(s)
        PROVE  Contract!Next
    <2>1. PICK p \in Plans :
             \/ SubmitInvalid(s, p) \/ SubmitBlocked(s, p)
             \/ SubmitAmbiguous(s, p) \/ SubmitClear(s, p)
      BY <1>1 DEF ClientStep
    <2>2. pc[s] = "new" /\ p.kind \in Kinds
      BY <2>1, PlansAssumption
      DEF SubmitInvalid, SubmitBlocked, SubmitAmbiguous, SubmitClear, Submit, Kinds
    <2>3. CASE SubmitInvalid(s, p)
      BY <2>2, <2>3, RefusalRefines DEF SubmitInvalid, CleanErrors, mongoVars
    <2>4. CASE SubmitBlocked(s, p)
      BY <2>2, <2>4, RefusalRefines DEF SubmitBlocked, CleanErrors, mongoVars
    <2>5. CASE SubmitAmbiguous(s, p)
      BY <2>2, <2>5, BeginRefines DEF SubmitAmbiguous, mongoVars
    <2>6. CASE SubmitClear(s, p)
      <3>1. CASE Dispatch(s, p, {})
        BY <2>2, <3>1, BeginRefines DEF Dispatch
      <3>2. CASE RefuseTranslation(s, p, p, {})
        BY <2>2, <3>2, TranslationRefines
      <3> QED
        BY <2>6, <3>1, <3>2 DEF SubmitClear
    <2> QED
      BY <2>1, <2>3, <2>4, <2>5, <2>6
  <1>2. ASSUME NEW s \in Statements, ResolverFail(s)
        PROVE  Contract!Next
    BY <1>2, Resolving, RefusalRefines DEF ResolverFail, CleanErrors, mongoVars
  <1>3. ASSUME NEW s \in Statements, NEW r \in Responses,
               RejectResponse(s, r) \/ RejectResolution(s, r) \/ RejectConfidence(s, r)
        PROVE  Contract!Next
    BY <1>3, Resolving, RefusalRefines
    DEF RejectResponse, RejectResolution, RejectConfidence, CleanErrors, mongoVars
  <1>4. ASSUME NEW s \in Statements, NEW r \in Responses, AcceptResolution(s, r)
        PROVE  [Contract!Next]_(Contract!vars)
    <2> DEFINE path == Request(plan[s], schema).target_path
               q    == apply_resolution(plan[s], path, r.candidate)
               ctx  == {[selected_candidate |-> r.candidate, confidence |-> bp] :
                           bp \in from_ratio(r.confidence)}
    <2>1. Dispatch(s, q, ctx) \/ RefuseTranslation(s, q, plan[s], ctx)
      BY <1>4 DEF AcceptResolution
    <2>2. pc[s] = "resolving" /\ q.kind \in Kinds
      BY <1>4, Resolving, ResolutionKeepsKind DEF AcceptResolution, Applicable
    <2> HIDE DEF q, ctx
    <2>3. CASE Dispatch(s, q, ctx)
      <3>1. \A t \in Statements : Status(t)' = Status(t)
        <4>1. \A t \in Statements \ {s} : pc'[t] = pc[t] /\ answer'[t] = answer[t]
          BY <2>3 DEF Dispatch, GateInv, TypeOK
        <4>2. pc'[s] = "executing"
          BY <2>3 DEF Dispatch, GateInv, TypeOK
        <4> QED
          BY <2>2, <4>1, <4>2 DEF Status
      <3> QED
        BY <2>3, <3>1, StutterRefines DEF Dispatch
    <2>4. CASE RefuseTranslation(s, q, plan[s], ctx)
      BY <2>2, <2>4, TranslationRefines
    <2> QED
      BY <2>1, <2>3, <2>4
  <1>5. ASSUME NEW s \in Statements, NEW d \in DocIds, MongoWrite(s, d)
        PROVE  Contract!Next
    BY <1>5, WriteRefines
  <1>6. ASSUME NEW s \in Statements,
               \/ \E d \in DocIds : MongoSkip(s, d) \/ MongoCannotSet(s, d)
               \/ MongoFinish(s) \/ MongoFail(s)
        PROVE  UNCHANGED Contract!vars
    <2>1. UNCHANGED <<pc, answer, hits, rows>>
      BY <1>6 DEF MongoSkip, MongoCannotSet, MongoFinish, MongoFail, proxyVars
    <2> QED
      BY <2>1, StutterRefines DEF Status
  <1>7. ASSUME NEW s \in Statements, ExecuteOk(s)
        PROVE  Contract!Next
    BY <1>7, SuccessRefines
  <1>8. ASSUME NEW s \in Statements, ExecuteError(s) \/ NetworkError(s)
        PROVE  Contract!Next
    BY <1>8, FailureRefines DEF ExecuteError, NetworkError
  <1>9. CASE Crash
    BY <1>9, CrashRefines
  <1>10. CASE UNCHANGED vars
    BY <1>10, StutterRefines DEF vars, Status
  <1> QED
    BY <1>1, <1>2, <1>3, <1>4, <1>5, <1>6, <1>7, <1>8, <1>9, <1>10
    DEF Next, ResolverStep, MongoStep, DriverStep

\* The answers of the proxy keep the write contract, for every set of
\* statements, plans, collections and responses and every number of crashes.
THEOREM ContractKept == Spec => KeepsContract
  <1>1. GateInv /\ [Next]_vars => [Contract!Next]_(Contract!vars)
    BY ContractNext
  <1> QED
    BY <1>1, ContractInit, GateInvariant, PTL DEF Spec, KeepsContract, Contract!Spec

=============================================================================
