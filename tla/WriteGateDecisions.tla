--------------------------- MODULE WriteGateDecisions ---------------------------
(***************************************************************************)
(* What the gate decided is what MongoDB gets and what the audit says:     *)
(* proofs of OnlyAuthorisedWrites, AuditIsTrue and NoTypeDrift.            *)
(*                                                                         *)
(* DecisionInv adds to GateInv, for every statement at MongoDB, that its   *)
(* plan is the client's up to one accepted change of notation, and that    *)
(* its audit context names an offered candidate with enough confidence.    *)
(* TruthInv says of every audit record what holds when it is written and   *)
(* what later steps, none of which is of its statement, leave alone.       *)
(* SentInv says of every plan at MongoDB that it translates and that each  *)
(* of its values fits what the profile has seen in the field.              *)
(***************************************************************************)
EXTENDS WriteGateProofs, MongoWritesProofs

-----------------------------------------------------------------------------
(* Definitions *)

\* What a resolution may make of a plan: the value of the first assignment in
\* another notation, or nothing.
Renoted(p, q) ==
    \/ q = p
    \/ /\ Len(q.assignments) = 1
       /\ SameNumeral(q.assignments[1].value, p.assignments[1].value)
       /\ q = [p EXCEPT !.assignments[1].value = q.assignments[1].value]

\* An accepted decision: an offered candidate other than Reject, and a
\* confidence that reaches the threshold.
AcceptedContext(p, sch, ctx) ==
    \A c \in ctx :
        /\ c.selected_candidate \in AllowedCandidates(p, sch) \ {"Reject"}
        /\ c.confidence >= MinimumConfidence

\* What a plan at MongoDB owes to the plan of its statement.
Authorised(p, sch, q, ctx) ==
    IF NeedsResolution(p, sch)
    THEN /\ Cardinality(Ambiguities(p, sch)) = 1
         /\ ctx # {}
         /\ Renoted(p, q)
    ELSE q = p /\ ctx = {}

DecisionOf(s) ==
    /\ pc[s] = "resolving" => Resolvable(plan[s], schema)
    /\ op[s] # "none" =>
          /\ Authorised(plan[s], schema, sent[s], context[s])
          /\ AcceptedContext(plan[s], schema, context[s])

DecisionInv == \A s \in Statements : DecisionOf(s)

\* A record is of an answered statement and tells the truth.
TrueRecord(rec) ==
    /\ pc[rec.stmt] = "answered"
    /\ rec.outcome = "Executed" =>
          /\ rec.selected_candidate \subseteq rec.allowed_candidates \ {"Reject"}
          /\ rec.selected_candidate # {}
          /\ \A bp \in rec.confidence : bp >= MinimumConfidence
          /\ answer[rec.stmt] = "ok"
          /\ rec.count = Cardinality(Affected(rec.stmt))
    /\ rec.selected_candidate = {} => op[rec.stmt] = "none"

TruthInv == \A i \in DOMAIN audit : TrueRecord(audit[i])

-----------------------------------------------------------------------------
(* Applying a candidate *)

\* A list of one item.
LEMMA OnlyElement ==
  ASSUME NEW S, NEW list \in Seq(S), Len(list) = 1
  PROVE  DOMAIN list = {1} /\ list[1] \in S
  <1>1. DOMAIN list = 1 .. 1 /\ 1 \in 1 .. Len(list)
    OBVIOUS
  <1> QED
    BY <1>1

\* The change of notation that a conversion makes to the only assignment.
LEMMA RetypedIsRenoted ==
  ASSUME NEW p \in Plans, p.kind = "Update", Len(p.assignments) = 1,
         NEW type, NEW form,
         LET v == p.assignments[1].value IN
            SameNumeral(Value(type, v.int, form), v)
  PROVE  Renoted(p, Retyped(p, type, form))
  <1> DEFINE v == p.assignments[1].value
             w == Value(type, v.int, form)
             q == Retyped(p, type, form)
  <1>1. /\ p = [kind |-> "Update", assignments |-> p.assignments, filter |-> p.filter]
        /\ p.assignments \in Seq([path : Paths, value : SqlValues])
    BY PlansAssumption DEF IsUpdate
  <1>2. /\ DOMAIN p.assignments = {1}
        /\ p.assignments[1] = [path |-> p.assignments[1].path, value |-> v]
    <2>1. p.assignments \in Seq([path : Paths, value : SqlValues]) /\ Len(p.assignments) = 1
      BY <1>1
    <2>2. DOMAIN p.assignments = {1} /\ p.assignments[1] \in [path : Paths, value : SqlValues]
      BY <2>1, OnlyElement
    <2> QED
      BY <2>2
  <1>3. q = [p EXCEPT !.assignments[1].value = w]
    BY DEF Retyped
  <1>4. q.assignments = [p.assignments EXCEPT ![1].value = w]
    BY <1>1, <1>3
  <1>5. Len(q.assignments) = 1 /\ q.assignments[1].value = w
    BY <1>1, <1>2, <1>4
  <1> QED
    BY <1>3, <1>5 DEF Renoted

\* An accepted candidate changes a plan at most in the notation of one number.
LEMMA ResolutionIsRenoted ==
  ASSUME NEW p \in Plans, NEW path, NEW c \in ResolutionCandidates,
         CandidateApplies(p, path, c)
  PROVE  Renoted(p, apply_resolution(p, path, c))
  <1>1. CASE c \notin {"ParseIntegerLosslessly", "FormatIntegerAsString"}
    BY <1>1 DEF apply_resolution, Renoted
  <1>2. CASE c \in {"ParseIntegerLosslessly", "FormatIntegerAsString"}
    <2> DEFINE v == p.assignments[1].value
    <2>1. PICK u \in SoleAssignment(p, path) :
             IF c = "ParseIntegerLosslessly"
             THEN u.type = "String" /\ parse_integer_losslessly(u) # {}
             ELSE u.type = "Integer"
      BY <1>2 DEF CandidateApplies
    <2>2. p.kind = "Update" /\ Len(p.assignments) = 1 /\ u = v
      BY <2>1 DEF SoleAssignment
    <2>3. CASE c = "ParseIntegerLosslessly"
      <3>1. v.type = "String" /\ v.form = "canonical"
        BY <2>1, <2>2, <2>3 DEF parse_integer_losslessly
      <3>2. SameNumeral(Value("Integer", v.int, "none"), v)
        BY <3>1 DEF SameNumeral, Value
      <3> QED
        BY <2>2, <2>3, <3>2, RetypedIsRenoted DEF apply_resolution
    <2>4. CASE c = "FormatIntegerAsString"
      <3>1. v.type = "Integer"
        BY <2>1, <2>2, <2>4
      <3>2. SameNumeral(Value("String", v.int, "canonical"), v)
        BY <3>1 DEF SameNumeral, Value
      <3> QED
        BY <2>2, <2>4, <3>2, RetypedIsRenoted DEF apply_resolution
    <2> QED
      BY <1>2, <2>3, <2>4
  <1> QED
    BY <1>1, <1>2

\* The threshold is a number of basis points.
LEMMA ThresholdIsNumber == MinimumConfidence \in Nat
  BY ConfidenceAssumption DEF FullConfidence

\* What the gate knows when it applies an accepted response.
LEMMA AcceptanceIsDecision ==
  ASSUME GateInv, NEW s \in Statements, NEW r \in Responses,
         ResolverReply(s), Resolvable(plan[s], schema),
         Accepted(s, r), Applicable(s, r),
         NEW ctx,
         ctx = {[selected_candidate |-> r.candidate, confidence |-> bp] :
                   bp \in from_ratio(r.confidence)},
         ctx # {}
  PROVE  /\ Authorised(plan[s], schema,
                       apply_resolution(plan[s], Request(plan[s], schema).target_path,
                                        r.candidate), ctx)
         /\ AcceptedContext(plan[s], schema, ctx)
  <1> DEFINE p == plan[s]
             request == Request(p, schema)
  <1>1. p \in Plans /\ NeedsResolution(p, schema)
    BY Resolving
  <1>2. /\ r.candidate \in ResolutionCandidates /\ r.confidence.bp \in Nat
        /\ ResponseFor(s, r).candidate = r.candidate
        /\ ResponseFor(s, r).confidence = r.confidence
    BY ResponsesAssumption DEF ResponseFor
  <1>3. Cardinality(Ambiguities(p, schema)) = 1
    BY DEF Resolvable
  <1>4. CandidateApplies(p, request.target_path, r.candidate)
    BY DEF Applicable
  <1>5. Authorised(p, schema, apply_resolution(p, request.target_path, r.candidate), ctx)
    BY <1>1, <1>2, <1>3, <1>4, ResolutionIsRenoted DEF Authorised
  <1>6. r.candidate \in AllowedCandidates(p, schema)
    BY <1>2, <1>3 DEF Accepted, validate_resolver_response, AllowedCandidates
  <1>7. r.candidate # "Reject"
    BY <1>4 DEF CandidateApplies
  <1>8. ASSUME NEW bp \in from_ratio(r.confidence)
        PROVE  bp >= MinimumConfidence
    <2>1. bp = r.confidence.bp /\ bp \in 0 .. FullConfidence
      BY <1>2, ConfidenceRange
    <2>2. ConfidenceAccepted(r.confidence, MinimumConfidence)
      BY <1>2 DEF Accepted, validate_resolver_response
    <2>3. Ratio(r.confidence) >= MinimumConfidence
      BY <2>2 DEF ConfidenceAccepted
    <2>4. MinimumConfidence \in Nat
      BY ThresholdIsNumber
    <2>5. CASE r.confidence.neg
      <3>1. Ratio(r.confidence) = -r.confidence.bp
        BY <2>5 DEF Ratio
      <3> QED
        BY <1>2, <2>1, <2>3, <2>4, <3>1
    <2>6. CASE ~r.confidence.neg
      BY <2>1, <2>3, <2>6 DEF Ratio
    <2> QED
      BY <2>5, <2>6
  <1>9. AcceptedContext(p, schema, ctx)
    BY <1>6, <1>7, <1>8 DEF AcceptedContext
  <1> QED
    BY <1>5, <1>9

-----------------------------------------------------------------------------
(* The decision of every statement at MongoDB *)

\* A step that decides nothing: no statement starts to be resolved or executed.
LEMMA NothingDecided ==
  ASSUME DecisionInv, schema' = schema,
         \A t \in Statements :
            /\ pc'[t] = "resolving" => pc[t] = "resolving" /\ plan'[t] = plan[t]
            /\ op'[t] # "none" =>
                  /\ op[t] # "none"
                  /\ plan'[t] = plan[t] /\ sent'[t] = sent[t] /\ context'[t] = context[t]
  PROVE  DecisionInv'
  <1> SUFFICES ASSUME NEW t \in Statements
               PROVE  DecisionOf(t)'
    BY DEF DecisionInv
  <1>1. DecisionOf(t)
    BY DEF DecisionInv
  <1>2. pc'[t] = "resolving" => Resolvable(plan'[t], schema')
    BY <1>1 DEF DecisionOf
  <1>3. op'[t] # "none" =>
           /\ Authorised(plan'[t], schema', sent'[t], context'[t])
           /\ AcceptedContext(plan'[t], schema', context'[t])
    BY <1>1 DEF DecisionOf
  <1> QED
    BY <1>2, <1>3 DEF DecisionOf

\* A refusal, of a new statement or of one that the resolver was asked about.
LEMMA RefusalDecidesNothing ==
  ASSUME GateInv, DecisionInv, NEW s \in Statements,
         pc[s] \in {"new", "resolving"}, pc' = [pc EXCEPT ![s] = "answered"],
         \A t \in Statements : t # s => plan'[t] = plan[t],
         UNCHANGED <<schema, mongoVars, sent, context>>
  PROVE  DecisionInv'
  <1>1. op[s] = "none"
    BY DEF GateInv, PhaseInv, PhaseOf
  <1>2. op' = op /\ sent' = sent /\ context' = context /\ schema' = schema
    BY DEF mongoVars
  <1>3. \A t \in Statements : pc'[t] = IF t = s THEN "answered" ELSE pc[t]
    BY DEF GateInv, TypeOK
  <1> QED
    BY <1>1, <1>2, <1>3, NothingDecided

\* Neither does a plan that the executor does not translate.
LEMMA TranslationDecidesNothing ==
  ASSUME GateInv, DecisionInv, NEW s \in Statements, NEW p, NEW q, NEW ctx,
         pc[s] \in {"new", "resolving"}, RefuseTranslation(s, q, p, ctx),
         \A t \in Statements : t # s => plan'[t] = plan[t], schema' = schema
  PROVE  DecisionInv'
  BY RefusalDecidesNothing DEF RefuseTranslation, Answer

\* A plan that is handed to MongoDB is decided, and no other statement is touched.
LEMMA DispatchDecides ==
  ASSUME GateInv, DecisionInv, NEW s \in Statements, NEW p, NEW q, NEW ctx,
         Dispatch(s, q, ctx), plan' = [plan EXCEPT ![s] = p], schema' = schema,
         Authorised(p, schema, q, ctx), AcceptedContext(p, schema, ctx)
  PROVE  DecisionInv'
  <1> SUFFICES ASSUME NEW t \in Statements
               PROVE  DecisionOf(t)'
    BY DEF DecisionInv
  <1>1. DecisionOf(t)
    BY DEF DecisionInv
  <1>2. CASE t = s
    <2>1. /\ pc'[t] = "executing" /\ plan'[t] = p /\ sent'[t] = q /\ context'[t] = ctx
      BY <1>2 DEF Dispatch, GateInv, TypeOK
    <2> QED
      BY <2>1 DEF DecisionOf
  <1>3. CASE t # s
    <2>1. /\ pc'[t] = pc[t] /\ plan'[t] = plan[t] /\ sent'[t] = sent[t]
          /\ context'[t] = context[t] /\ op'[t] = op[t]
      BY <1>3 DEF Dispatch, GateInv, TypeOK
    <2> QED
      BY <1>1, <2>1 DEF DecisionOf
  <1> QED
    BY <1>2, <1>3

\* Every step keeps the decisions.
LEMMA DecisionNext ==
  ASSUME GateInv, DecisionInv, [Next]_vars
  PROVE  DecisionInv'
  <1>1. ASSUME NEW s \in Statements, NEW p \in Plans, SubmitInvalid(s, p) \/ SubmitBlocked(s, p)
        PROVE  DecisionInv'
    BY <1>1, RefusalDecidesNothing DEF SubmitInvalid, SubmitBlocked, Submit, Answer, GateInv, TypeOK
  <1>2. ASSUME NEW s \in Statements, NEW p \in Plans, SubmitAmbiguous(s, p)
        PROVE  DecisionInv'
    <2> SUFFICES ASSUME NEW t \in Statements
                 PROVE  DecisionOf(t)'
      BY DEF DecisionInv
    <2>1. DecisionOf(t)
      BY DEF DecisionInv
    <2>2. /\ op' = op /\ sent' = sent /\ context' = context /\ schema' = schema
          /\ op[s] = "none"
      BY <1>2 DEF SubmitAmbiguous, Submit, mongoVars, GateInv, PhaseInv, PhaseOf
    <2>3. CASE t = s
      <3>1. plan'[t] = p /\ Resolvable(p, schema)
        BY <1>2, <2>3 DEF SubmitAmbiguous, Submit, GateInv, TypeOK
      <3> QED
        BY <2>2, <2>3, <3>1 DEF DecisionOf
    <2>4. CASE t # s
      <3>1. plan'[t] = plan[t] /\ pc'[t] = pc[t]
        BY <1>2, <2>4 DEF SubmitAmbiguous, Submit, GateInv, TypeOK
      <3> QED
        BY <2>1, <2>2, <3>1 DEF DecisionOf
    <2> QED
      BY <2>3, <2>4
  <1>3. ASSUME NEW s \in Statements, NEW p \in Plans, SubmitClear(s, p)
        PROVE  DecisionInv'
    <2>1. /\ pc[s] = "new" /\ plan' = [plan EXCEPT ![s] = p] /\ schema' = schema
          /\ ~NeedsResolution(p, schema)
      BY <1>3 DEF SubmitClear, Submit
    <2>2. CASE Dispatch(s, p, {})
      <3>1. Authorised(p, schema, p, {}) /\ AcceptedContext(p, schema, {})
        BY <2>1 DEF Authorised, AcceptedContext
      <3> QED
        BY <2>1, <2>2, <3>1, DispatchDecides
    <2>3. CASE RefuseTranslation(s, p, p, {})
      <3>1. \A t \in Statements : t # s => plan'[t] = plan[t]
        BY <2>1 DEF GateInv, TypeOK
      <3> QED
        BY <2>1, <2>3, <3>1, TranslationDecidesNothing
    <2> QED
      BY <1>3, <2>2, <2>3 DEF SubmitClear
  <1>4. ASSUME NEW s \in Statements, NEW r \in Responses,
               RejectResponse(s, r) \/ RejectResolution(s, r) \/ RejectConfidence(s, r)
        PROVE  DecisionInv'
    <2>1. ResolverReply(s) /\ Answer(s, "AmbiguousWrite")
          /\ UNCHANGED <<mongoVars, sent, context>>
      BY <1>4 DEF RejectResponse, RejectResolution, RejectConfidence
    <2> QED
      BY <2>1, RefusalDecidesNothing DEF ResolverReply, Answer
  <1>5. ASSUME NEW s \in Statements, ResolverFail(s)
        PROVE  DecisionInv'
    BY <1>5, RefusalDecidesNothing DEF ResolverFail, ResolverReply, Answer
  <1>6. ASSUME NEW s \in Statements, NEW r \in Responses, AcceptResolution(s, r)
        PROVE  DecisionInv'
    <2> DEFINE q   == apply_resolution(plan[s], Request(plan[s], schema).target_path, r.candidate)
               ctx == {[selected_candidate |-> r.candidate, confidence |-> bp] :
                          bp \in from_ratio(r.confidence)}
    <2>1. /\ ResolverReply(s) /\ Accepted(s, r) /\ Applicable(s, r)
          /\ ctx # {}
          /\ Dispatch(s, q, ctx) \/ RefuseTranslation(s, q, plan[s], ctx)
      BY <1>6 DEF AcceptResolution
    <2>2. /\ pc[s] = "resolving" /\ schema' = schema
          /\ plan' = [plan EXCEPT ![s] = plan[s]]
      BY <2>1, Resolving
    <2>3. Authorised(plan[s], schema, q, ctx) /\ AcceptedContext(plan[s], schema, ctx)
      <3>1. Resolvable(plan[s], schema)
        BY <2>2 DEF DecisionInv, DecisionOf
      <3> QED
        BY <2>1, <3>1, AcceptanceIsDecision
    <2> HIDE DEF q, ctx
    <2>4. CASE Dispatch(s, q, ctx)
      BY <2>2, <2>3, <2>4, DispatchDecides
    <2>5. CASE RefuseTranslation(s, q, plan[s], ctx)
      <3>1. plan' = plan
        BY <2>1 DEF ResolverReply
      <3> QED
        BY <2>2, <2>5, <3>1, TranslationDecidesNothing
    <2> QED
      BY <2>1, <2>4, <2>5
  <1>7. ASSUME NEW s \in Statements, MongoStep(s)
        PROVE  DecisionInv'
    <2>1. UNCHANGED proxyVars /\ \A t \in Statements : op'[t] # "none" => op[t] # "none"
      BY <1>7 DEF MongoStep, MongoSkip, MongoWrite, MongoCannotSet, MongoReaches, MongoFinish,
                  MongoFail, GateInv, TypeOK
    <2> QED
      BY <2>1, NothingDecided DEF proxyVars
  <1>8. ASSUME NEW s \in Statements, DriverStep(s) \/ NetworkError(s)
        PROVE  DecisionInv'
    <2>1. \E what : Completion(s) /\ Answer(s, what)
      BY <1>8 DEF DriverStep, ExecuteOk, ExecuteError, NetworkError
    <2>2. \A t \in Statements : pc'[t] = "resolving" => pc[t] = "resolving"
      BY <2>1 DEF Answer, GateInv, TypeOK
    <2> QED
      BY <2>1, <2>2, NothingDecided DEF Completion, mongoVars
  <1>9. CASE Crash
    <2>1. \A t \in Statements : pc'[t] = "resolving" => pc[t] = "resolving"
      BY <1>9 DEF Crash
    <2> QED
      BY <1>9, <2>1, NothingDecided DEF Crash, mongoVars
  <1>10. CASE UNCHANGED vars
    BY <1>10, NothingDecided DEF vars
  <1> QED
    BY <1>1, <1>2, <1>3, <1>4, <1>5, <1>6, <1>7, <1>8, <1>9, <1>10
    DEF Next, ClientStep, ResolverStep

\* The decisions stand in every reachable state.
LEMMA DecisionInvariant == Spec => []DecisionInv
  <1>1. Init => DecisionInv
    BY DEF Init, DecisionInv, DecisionOf
  <1>2. GateInv /\ DecisionInv /\ [Next]_vars => DecisionInv'
    BY DecisionNext
  <1> QED
    BY <1>1, <1>2, GateInvariant, PTL DEF Spec

\* Nothing reaches MongoDB past the gate: whatever the resolver answers, the
\* plan is the client's, up to the notation of one number in a decided write.
THEOREM OnlyAuthorisedWritesReachMongo == Spec => []OnlyAuthorisedWrites
  <1>1. DecisionInv => OnlyAuthorisedWrites
    BY DEF DecisionInv, DecisionOf, Authorised, Renoted, OnlyAuthorisedWrites
  <1> QED
    BY <1>1, DecisionInvariant, PTL

-----------------------------------------------------------------------------
(* The records of the audit *)

\* What a step leaves of an answered statement: its answer, the absence of an
\* operation, and what a finished operation has written.
SettledStep ==
    \A t \in Statements :
        pc[t] = "answered" =>
            /\ pc'[t] = "answered"
            /\ answer'[t] = answer[t]
            /\ op[t] = "none" => op'[t] = "none"
            /\ op[t] = "done" => hits'[t] = hits[t]

\* A step of a statement that is not answered, with MongoDB's part unchanged.
LEMMA AnswerSettles ==
  ASSUME GateInv, NEW s \in Statements, pc[s] # "answered",
         NEW where, pc' = [pc EXCEPT ![s] = where],
         \A t \in Statements : t # s => answer'[t] = answer[t] /\ op'[t] = op[t],
         hits' = hits
  PROVE  SettledStep
  BY DEF GateInv, TypeOK, SettledStep

\* No step touches what an answered statement's record may speak of.
LEMMA SettledNext ==
  ASSUME GateInv, [Next]_vars
  PROVE  SettledStep
  <1>1. ASSUME NEW s \in Statements, NEW what, Answer(s, what), pc[s] # "answered",
               UNCHANGED mongoVars
        PROVE  SettledStep
    BY <1>1, AnswerSettles DEF Answer, mongoVars, GateInv, TypeOK
  <1>2. ASSUME NEW s \in Statements, NEW p, NEW ctx, pc[s] \in {"new", "resolving"},
               Dispatch(s, p, ctx)
        PROVE  SettledStep
    <2>1. \A t \in Statements : t # s => op'[t] = op[t]
      BY <1>2 DEF Dispatch, GateInv, TypeOK
    <2> QED
      BY <1>2, <2>1, AnswerSettles DEF Dispatch
  <1>3. ASSUME NEW s \in Statements, NEW p, NEW q, NEW ctx, pc[s] \in {"new", "resolving"},
               RefuseTranslation(s, p, q, ctx)
        PROVE  SettledStep
    BY <1>1, <1>3 DEF RefuseTranslation
  <1>4. ASSUME NEW s \in Statements, NEW p \in Plans,
               \/ SubmitInvalid(s, p) \/ SubmitBlocked(s, p)
               \/ SubmitAmbiguous(s, p) \/ SubmitClear(s, p)
        PROVE  SettledStep
    <2>1. CASE SubmitInvalid(s, p) \/ SubmitBlocked(s, p)
      BY <1>1, <2>1 DEF SubmitInvalid, SubmitBlocked, Submit
    <2>2. CASE SubmitAmbiguous(s, p)
      BY <2>2, AnswerSettles DEF SubmitAmbiguous, Submit, mongoVars
    <2>3. CASE SubmitClear(s, p)
      BY <1>2, <1>3, <2>3 DEF SubmitClear, Submit
    <2> QED
      BY <1>4, <2>1, <2>2, <2>3
  <1>5. ASSUME NEW s \in Statements, ResolverStep(s)
        PROVE  SettledStep
    <2>1. ASSUME NEW r \in Responses, AcceptResolution(s, r)
          PROVE  SettledStep
      BY <1>2, <1>3, <2>1 DEF AcceptResolution, ResolverReply
    <2>2. ASSUME NEW r \in Responses,
                 RejectResponse(s, r) \/ RejectResolution(s, r) \/ RejectConfidence(s, r)
          PROVE  SettledStep
      BY <1>1, <2>2 DEF RejectResponse, RejectResolution, RejectConfidence, ResolverReply
    <2>3. CASE ResolverFail(s)
      BY <1>1, <2>3 DEF ResolverFail, ResolverReply
    <2> QED
      BY <1>5, <2>1, <2>2, <2>3 DEF ResolverStep
  <1>6. ASSUME NEW s \in Statements, MongoStep(s)
        PROVE  SettledStep
    <2>1. op[s] = "running" /\ UNCHANGED proxyVars
      BY <1>6 DEF MongoStep, MongoSkip, MongoWrite, MongoCannotSet, MongoReaches, MongoFinish,
                  MongoFail
    <2>2. \A t \in Statements : t # s => op'[t] = op[t] /\ hits'[t] = hits[t]
      BY <1>6 DEF MongoStep, MongoSkip, MongoWrite, MongoCannotSet, MongoFinish, MongoFail,
                  GateInv, TypeOK
    <2> QED
      BY <2>1, <2>2 DEF SettledStep, proxyVars
  <1>7. ASSUME NEW s \in Statements, DriverStep(s) \/ NetworkError(s)
        PROVE  SettledStep
    <2>1. \E what : Completion(s) /\ Answer(s, what)
      BY <1>7 DEF DriverStep, ExecuteOk, ExecuteError, NetworkError
    <2> QED
      BY <1>1, <2>1 DEF Completion
  <1>8. CASE Crash
    BY <1>8 DEF Crash, SettledStep, mongoVars
  <1>9. CASE UNCHANGED vars
    BY <1>9 DEF vars, SettledStep
  <1> QED
    BY <1>4, <1>5, <1>6, <1>7, <1>8, <1>9 DEF Next, ClientStep

\* A record that was true stays so: an executed one is of a finished operation.
LEMMA TrueRecordStays ==
  ASSUME GateInv, SettledStep, NEW rec, rec.stmt \in Statements, TrueRecord(rec)
  PROVE  TrueRecord(rec)'
  <1> DEFINE t == rec.stmt
  <1>1. pc[t] = "answered" /\ pc'[t] = "answered" /\ answer'[t] = answer[t]
        /\ (op[t] = "none" => op'[t] = "none")
    BY DEF TrueRecord, SettledStep
  <1>2. rec.outcome = "Executed" => Affected(t)' = Affected(t)
    <2> SUFFICES ASSUME rec.outcome = "Executed"
                 PROVE  hits'[t] = hits[t]
      BY DEF Affected
    <2>1. op[t] = "done"
      BY DEF TrueRecord, GateInv, OperationInv, OperationOf
    <2> QED
      BY <1>1, <2>1 DEF SettledStep
  <1> QED
    BY <1>1, <1>2 DEF TrueRecord

\* The records of a trail that a step keeps or empties stay true.
LEMMA TrailStaysTrue ==
  ASSUME GateInv, TruthInv, SettledStep, audit' = audit \/ audit' = <<>>
  PROVE  TruthInv'
  <1>1. CASE audit' = audit
    <2>1. ASSUME NEW i \in DOMAIN audit
          PROVE  TrueRecord(audit[i])'
      <3> DEFINE rec == audit[i]
      <3>1. rec.stmt \in Statements /\ TrueRecord(rec)
        BY RecordedStatements DEF TruthInv
      <3>2. \A r : r.stmt \in Statements /\ TrueRecord(r) => TrueRecord(r)'
        BY TrueRecordStays
      <3> QED
        BY <1>1, <3>1, <3>2
    <2> QED
      BY <1>1, <2>1 DEF TruthInv
  <1>2. CASE audit' = <<>>
    BY <1>2 DEF TruthInv
  <1> QED
    BY <1>1, <1>2

\* A true record is appended.
LEMMA TrueRecordAppended ==
  ASSUME GateInv, TruthInv, SettledStep, NEW rec, audit' = Append(audit, rec), TrueRecord(rec)'
  PROVE  TruthInv'
  <1> DEFINE n == Len(audit)
  <1>1. /\ n \in Nat /\ DOMAIN audit = 1 .. n /\ DOMAIN audit' = 1 .. n + 1
        /\ \A i \in 1 .. n : audit'[i] = audit[i]
        /\ audit'[n + 1] = rec
    BY DEF GateInv, TypeOK
  <1> HIDE DEF n
  <1>2. ASSUME NEW i \in DOMAIN audit
        PROVE  TrueRecord(audit[i])'
    <2>1. \A r : r.stmt \in Statements /\ TrueRecord(r) => TrueRecord(r)'
      BY TrueRecordStays
    <2>2. audit[i].stmt \in Statements /\ TrueRecord(audit[i])
      BY RecordedStatements DEF TruthInv
    <2>3. audit'[i] = audit[i]
      BY <1>1
    <2> QED
      BY <2>1, <2>2, <2>3
  <1>3. ASSUME NEW i \in DOMAIN audit'
        PROVE  TrueRecord(audit[i])'
    <2>1. CASE i = n + 1
      BY <1>1, <2>1
    <2>2. CASE i # n + 1
      BY <1>1, <1>2, <2>2
    <2> QED
      BY <2>1, <2>2
  <1> QED
    BY <1>3 DEF TruthInv

\* The record of a statement that is refused: it did not reach MongoDB.
LEMMA RefusalIsTrue ==
  ASSUME GateInv, TruthInv, SettledStep, NEW s \in Statements,
         pc[s] \in {"new", "resolving"}, op' = op, pc' = [pc EXCEPT ![s] = "answered"],
         NEW p, NEW ctx, NEW outcome, outcome # "Executed", NEW count,
         audit' = Append(audit, AuditRecord(s, p, schema, ctx, outcome, count))
  PROVE  TruthInv'
  <1> DEFINE rec == AuditRecord(s, p, schema, ctx, outcome, count)
  <1>1. rec.stmt = s /\ rec.outcome # "Executed"
    BY DEF AuditRecord
  <1>2. pc'[s] = "answered" /\ op'[s] = "none"
    BY DEF GateInv, TypeOK, PhaseInv, PhaseOf
  <1>3. audit' = Append(audit, rec)
    OBVIOUS
  <1> HIDE DEF rec
  <1>4. \A r : r = rec => TrueRecord(r)'
    BY <1>1, <1>2 DEF TrueRecord
  <1> QED
    BY <1>3, <1>4, TrueRecordAppended

\* The record of an operation: it has a candidate, the one that was accepted,
\* and a success has its count.
LEMMA CompletionIsTrue ==
  ASSUME GateInv, DecisionInv, TruthInv, SettledStep, NEW s \in Statements,
         Completion(s), NEW outcome, NEW count, NEW what, Answer(s, what),
         RecordIfGated(s, plan[s], context[s], outcome, count),
         outcome = "Executed" => what = "ok" /\ count = Cardinality(Affected(s))
  PROVE  TruthInv'
  <1> DEFINE rec == AuditRecord(s, plan[s], schema, context[s], outcome, count)
  <1>1. CASE context[s] = {}
    BY <1>1, TrailStaysTrue DEF RecordIfGated
  <1>2. CASE context[s] # {}
    <2>1. /\ rec.stmt = s /\ rec.outcome = outcome /\ rec.count = count
          /\ rec.allowed_candidates = AllowedCandidates(plan[s], schema)
          /\ rec.selected_candidate = {c.selected_candidate : c \in context[s]}
          /\ rec.confidence = {c.confidence : c \in context[s]}
      BY DEF AuditRecord
    <2>2. pc'[s] = "answered" /\ answer'[s] = what
      BY DEF Answer, GateInv, TypeOK
    <2>3. AcceptedContext(plan[s], schema, context[s])
      BY DEF Completion, GateInv, PhaseInv, PhaseOf, DecisionInv, DecisionOf
    <2>4. Affected(s)' = Affected(s)
      BY DEF Completion, mongoVars, Affected
    <2>5. audit' = Append(audit, rec)
      BY <1>2 DEF RecordIfGated
    <2> HIDE DEF rec
    <2>6. /\ rec.selected_candidate \subseteq rec.allowed_candidates \ {"Reject"}
          /\ rec.selected_candidate # {}
          /\ \A bp \in rec.confidence : bp >= MinimumConfidence
      BY <1>2, <2>1, <2>3 DEF AcceptedContext
    <2>7. \A r : r = rec => TrueRecord(r)'
      BY <2>1, <2>2, <2>4, <2>6 DEF TrueRecord
    <2> QED
      BY <2>5, <2>7, TrueRecordAppended
  <1> QED
    BY <1>1, <1>2

\* Every step leaves the audit true.
LEMMA TruthNext ==
  ASSUME GateInv, DecisionInv, TruthInv, [Next]_vars
  PROVE  TruthInv'
  <1>0. SettledStep
    BY SettledNext
  <1>1. ASSUME UNCHANGED audit
        PROVE  TruthInv'
    BY <1>0, <1>1, TrailStaysTrue
  <1>2. ASSUME NEW s \in Statements, NEW p, NEW failure, NEW what,
               pc[s] \in {"new", "resolving"}, failure # "Executed",
               record_blocked(s, p, failure), Answer(s, what), UNCHANGED mongoVars
        PROVE  TruthInv'
    BY <1>0, <1>2, RefusalIsTrue DEF record_blocked, Answer, mongoVars
  <1>3. ASSUME NEW s \in Statements, NEW p, NEW q, NEW ctx,
               pc[s] \in {"new", "resolving"}, RefuseTranslation(s, q, p, ctx)
        PROVE  TruthInv'
    <2>1. CASE ctx = {}
      BY <1>1, <1>3, <2>1 DEF RefuseTranslation, RecordIfGated
    <2>2. CASE ctx # {}
      BY <1>0, <1>3, <2>2, RefusalIsTrue DEF RefuseTranslation, RecordIfGated, Answer, mongoVars
    <2> QED
      BY <2>1, <2>2
  <1>4. ASSUME NEW s \in Statements, NEW p \in Plans,
               \/ SubmitInvalid(s, p) \/ SubmitBlocked(s, p)
               \/ SubmitAmbiguous(s, p) \/ SubmitClear(s, p)
        PROVE  TruthInv'
    <2>1. CASE SubmitInvalid(s, p) \/ SubmitAmbiguous(s, p)
      BY <1>1, <2>1 DEF SubmitInvalid, SubmitAmbiguous
    <2>2. CASE SubmitBlocked(s, p)
      BY <1>2, <2>2 DEF SubmitBlocked, Submit
    <2>3. CASE SubmitClear(s, p)
      <3>1. CASE Dispatch(s, p, {})
        BY <1>1, <3>1 DEF Dispatch
      <3>2. CASE RefuseTranslation(s, p, p, {})
        BY <1>3, <2>3, <3>2 DEF SubmitClear, Submit
      <3> QED
        BY <2>3, <3>1, <3>2 DEF SubmitClear
    <2> QED
      BY <1>4, <2>1, <2>2, <2>3
  <1>5. ASSUME NEW s \in Statements, ResolverStep(s)
        PROVE  TruthInv'
    <2>1. ASSUME NEW r \in Responses, RejectResponse(s, r)
          PROVE  TruthInv'
      <3>1. validation_failure(Request(plan[s], schema), ResponseFor(s, r), MinimumConfidence)
              # "Executed"
        BY DEF validation_failure
      <3> QED
        BY <1>2, <2>1, <3>1 DEF RejectResponse, ResolverReply
    <2>2. ASSUME NEW r \in Responses, RejectResolution(s, r)
          PROVE  TruthInv'
      BY <1>2, <2>2 DEF RejectResolution, ResolverReply
    <2>3. ASSUME NEW r \in Responses, RejectConfidence(s, r)
          PROVE  TruthInv'
      BY <1>1, <2>3 DEF RejectConfidence
    <2>4. ASSUME NEW r \in Responses, AcceptResolution(s, r)
          PROVE  TruthInv'
      <3>1. PICK q, ctx : Dispatch(s, q, ctx) \/ RefuseTranslation(s, q, plan[s], ctx)
        BY <2>4 DEF AcceptResolution
      <3>2. CASE Dispatch(s, q, ctx)
        BY <1>1, <3>2 DEF Dispatch
      <3>3. CASE RefuseTranslation(s, q, plan[s], ctx)
        BY <1>3, <2>4, <3>3 DEF AcceptResolution, ResolverReply
      <3> QED
        BY <3>1, <3>2, <3>3
    <2>5. CASE ResolverFail(s)
      BY <1>2, <2>5 DEF ResolverFail, ResolverReply
    <2> QED
      BY <1>5, <2>1, <2>2, <2>3, <2>4, <2>5 DEF ResolverStep
  <1>6. ASSUME NEW s \in Statements, MongoStep(s)
        PROVE  TruthInv'
    BY <1>1, <1>6 DEF MongoStep, MongoSkip, MongoWrite, MongoCannotSet, MongoFinish, MongoFail,
                      proxyVars
  <1>7. ASSUME NEW s \in Statements, DriverStep(s) \/ NetworkError(s)
        PROVE  TruthInv'
    <2>1. CASE ExecuteOk(s)
      BY <1>0, <2>1, CompletionIsTrue DEF ExecuteOk
    <2>2. CASE ExecuteError(s) \/ NetworkError(s)
      BY <1>0, <2>2, CompletionIsTrue DEF ExecuteError, NetworkError
    <2> QED
      BY <1>7, <2>1, <2>2 DEF DriverStep
  <1>8. CASE Crash
    BY <1>0, <1>8, TrailStaysTrue DEF Crash
  <1>9. CASE UNCHANGED vars
    BY <1>1, <1>9 DEF vars
  <1> QED
    BY <1>4, <1>5, <1>6, <1>7, <1>8, <1>9 DEF Next, ClientStep

\* What the audit says is so, in every reachable state: an executed write had
\* an offered candidate, enough confidence and this many documents, and a
\* record without a candidate is of a statement that never reached MongoDB.
THEOREM AuditTellsTheTruth == Spec => []AuditIsTrue
  <1>1. Init => TruthInv
    BY DEF Init, TruthInv
  <1>2. GateInv /\ DecisionInv /\ TruthInv /\ [Next]_vars => TruthInv'
    BY TruthNext
  <1>3. TruthInv => AuditIsTrue
    BY DEF TruthInv, TrueRecord, AuditIsTrue
  <1> QED
    BY <1>1, <1>2, <1>3, GateInvariant, DecisionInvariant, PTL DEF Spec

-----------------------------------------------------------------------------
(* The profile *)

\* No name of a field inside a document has a dot in it.
PlainNames ==
    \A c \in Collections : \A d \in DOMAIN c : \A path \in DOMAIN c[d] :
        PlainPath(path) \/ is_literal_dotted_key(path)

\* The profile that a proxy starts with is inferred from documents.
LEMMA ProfiledInitially ==
  ASSUME PlainNames, Init
  PROVE  Profiled(schema)
  <1>1. coll \in Collections
    BY DEF Init
  <1>2. PICK sample \in SUBSET DOMAIN coll : schema = infer([d \in sample |-> coll[d]])
    BY DEF Init
  <1> DEFINE samples == [d \in sample |-> coll[d]]
  <1>3. IsFiniteSet(DOMAIN samples)
    <2>1. DOMAIN coll \subseteq UNION {DOMAIN c : c \in Collections}
      BY <1>1
    <2> QED
      BY <1>2, <2>1, FinitenessAssumption, FS_Subset
  <1>4. \A d \in DOMAIN samples :
            /\ IsDocument(samples[d]) /\ IsFiniteSet(DOMAIN samples[d])
            /\ \A path \in DOMAIN samples[d] :
                  /\ samples[d][path].type \in ObservedTypes
                  /\ PlainPath(path) \/ is_literal_dotted_key(path)
    BY <1>1, CollectionsAssumption DEF PlainNames
  <1> HIDE DEF samples
  <1> QED
    BY <1>2, <1>3, <1>4, InferredIsProfiled DEF samples

-----------------------------------------------------------------------------
(* The values of a plan and the types of its fields *)

\* A value of a type that was seen in the field, where any type was.
Fits(path, value, sch) ==
    /\ path \in DOMAIN sch
    /\ \/ value.type \in sch[path].observed_types \cup {"Null"}
       \/ sch[path].observed_types = {"Null"}

PlanFits(p, sch) ==
    \A a \in AssignedValues(p) : a.value.type # "Placeholder" => Fits(a.path, a.value, sch)

IsLowered(p) ==
    /\ p.kind \in Kinds
    /\ p.kind = "Insert" => IsInsert(p)
    /\ p.kind = "Update" => IsUpdate(p)

\* The plans of the constants have the forms that lowering gives them.
LEMMA PlansAreLowered ==
  ASSUME NEW p \in Plans
  PROVE  IsLowered(p)
  BY PlansAssumption DEF IsLowered, Kinds

\* A value that the type policy lets into a field without a conflict of types.
LEMMA ClearValueFits ==
  ASSUME NEW sch, Profiled(sch), NEW a, a.path \in DOMAIN sch,
         AmbiguityKinds(sch[a.path]) \subseteq {"MissingFromSampledDocuments"},
         validate_write_value(a, sch), a.value.type # "Placeholder"
  PROVE  Fits(a.path, a.value, sch)
  <1> DEFINE field == sch[a.path]
             types == NonNullTypes(field)
             shapes == field.observed_shapes
  <1>1. /\ "MixedBsonTypes" \notin AmbiguityKinds(field)
        /\ "MixedShapes" \notin AmbiguityKinds(field)
        /\ "DottedPathCollision" \notin AmbiguityKinds(field)
    OBVIOUS
  <1>2. ~(Cardinality(types) > 1)
    BY <1>1, Zenon DEF AmbiguityKinds
  <1>3. ~(Cardinality(shapes) > 1)
    BY <1>1, Zenon DEF AmbiguityKinds
  <1>4. ~field.has_dotted_key_collision
    BY <1>1, Zenon DEF AmbiguityKinds
  <1>5. ProfiledField(a.path, sch)
    BY DEF Profiled
  <1>6. Cardinality(shapes) = 1
    <2>1. IsFiniteSet(shapes) /\ shapes # {}
      BY <1>5, ShapesFinite, FS_Subset DEF ProfiledField
    <2>2. Cardinality(shapes) \in Nat /\ Cardinality(shapes) # 0
      BY <2>1, FS_CardinalityType, FS_EmptySet
    <2> QED
      BY <1>3, <2>2
  <1>7. CASE types = {}
    <2>1. field.observed_types = {"Null"}
      BY <1>5, <1>7 DEF ProfiledField, NonNullTypes
    <2> QED
      BY <2>1 DEF Fits
  <1>8. CASE types # {}
    <2>1. IsFiniteSet(types)
      BY <1>5, ObservedTypesFinite, FS_Subset DEF ProfiledField, NonNullTypes
    <2>2. Cardinality(types) \in Nat /\ Cardinality(types) # 0
      BY <1>8, <2>1, FS_CardinalityType, FS_EmptySet
    <2>3. Cardinality(types) = 1
      BY <1>2, <2>2
    <2>4. validate_field_shape(field) = types
      BY <1>4, <1>6, <2>3 DEF validate_field_shape
    <2>5. a.value.type = "Null" \/ \A type \in types : is_compatible(a.value, type)
      BY <2>4 DEF validate_write_value, validate_value
    <2>6. types \subseteq field.observed_types
      BY DEF NonNullTypes
    <2>7. a.value.type \in field.observed_types \cup {"Null"}
      BY <1>8, <2>5, <2>6 DEF is_compatible
    <2> QED
      BY <2>7 DEF Fits
  <1> QED
    BY <1>7, <1>8

\* The path of an assigned value is an assigned path.
LEMMA AssignedValueHasPath ==
  ASSUME NEW p, p.kind \in Kinds, NEW a \in AssignedValues(p)
  PROVE  a.path \in AssignedPaths(p)
  <1>1. CASE p.kind = "Insert"
    BY <1>1 DEF AssignedValues, AssignedPaths, ToSet
  <1>2. CASE p.kind = "Update"
    BY <1>2 DEF AssignedValues, AssignedPaths
  <1>3. CASE p.kind = "Delete"
    BY <1>3 DEF AssignedValues
  <1> QED
    BY <1>1, <1>2, <1>3 DEF Kinds

\* A plan whose fields have no conflict but being missing somewhere.
LEMMA ClearPlanFits ==
  ASSUME NEW sch, Profiled(sch), NEW p, p.kind \in Kinds, lower_statement(p, sch),
         \A path \in AssignedPaths(p) :
            AmbiguityKinds(sch[path]) \subseteq {"MissingFromSampledDocuments"}
  PROVE  PlanFits(p, sch)
  <1> SUFFICES ASSUME NEW a \in AssignedValues(p), a.value.type # "Placeholder"
               PROVE  Fits(a.path, a.value, sch)
    BY DEF PlanFits
  <1>1. a.path \in AssignedPaths(p)
    BY AssignedValueHasPath
  <1>2. a.path \in DOMAIN sch /\ validate_write_value(a, sch)
    BY <1>1 DEF lower_statement
  <1> QED
    BY <1>1, <1>2, ClearValueFits

\* Without ambiguity there is no conflict at all.
LEMMA UnambiguousPlanFits ==
  ASSUME NEW sch, Profiled(sch), NEW p, p.kind \in Kinds, lower_statement(p, sch),
         Ambiguities(p, sch) = {}
  PROVE  PlanFits(p, sch)
  <1>1. \A path \in AssignedPaths(p) : AmbiguityKinds(sch[path]) = {}
    BY DEF Ambiguities, detect_write_ambiguities
  <1> QED
    BY <1>1, ClearPlanFits

\* One ambiguity is of one field, and no other field has a conflict.
LEMMA OneAmbiguity ==
  ASSUME NEW sch, Profiled(sch), NEW p, lower_statement(p, sch),
         Cardinality(Ambiguities(p, sch)) = 1
  PROVE  \E path \in DOMAIN sch :
            /\ SoleAmbiguity(p, sch) = WriteAmbiguity(path, AmbiguityKinds(sch[path]), sch[path])
            /\ \A other \in AssignedPaths(p) \ {path} : AmbiguityKinds(sch[other]) = {}
  <1> DEFINE found == {q \in AssignedPaths(p) \cup FilterPaths(p) : AmbiguityKinds(sch[q]) # {}}
             Ambiguous(q) == WriteAmbiguity(q, AmbiguityKinds(sch[q]), sch[q])
             all == Ambiguities(p, sch)
             f == [q \in found |-> Ambiguous(q)]
  <1>1. all = {Ambiguous(q) : q \in found}
    BY DEF Ambiguities, detect_write_ambiguities
  <1>2. found \subseteq DOMAIN sch
    BY DEF lower_statement
  <1>3. IsFiniteSet(all)
    <2>1. f \in Surjection(found, all)
      BY <1>1 DEF Surjection
    <2>2. IsFiniteSet(found)
      BY <1>2, FS_Subset DEF Profiled
    <2> HIDE DEF f, found, all
    <2> QED
      BY <2>1, <2>2, FS_Surjection
  <1>4. PICK x : all = {x}
    <2> HIDE DEF all
    <2> QED
      BY <1>3, FS_Singleton DEF all
  <1>5. PICK path \in found : x = Ambiguous(path)
    BY <1>1, <1>4
  <1>6. SoleAmbiguity(p, sch) = x
    BY <1>4 DEF SoleAmbiguity
  <1>7. ASSUME NEW other \in AssignedPaths(p) \ {path}, AmbiguityKinds(sch[other]) # {}
        PROVE  FALSE
    <2>1. other \in found /\ Ambiguous(other) = x
      BY <1>1, <1>4, <1>7
    <2> QED
      BY <1>5, <1>7, <2>1 DEF WriteAmbiguity
  <1> QED
    BY <1>2, <1>5, <1>6, <1>7

-----------------------------------------------------------------------------
(* The values of a decided plan *)

\* What evidence there was for an offered candidate other than Reject.
LEMMA OfferedEvidence ==
  ASSUME NEW p, NEW a, NEW c \in allowed_candidates(p, a) \ {"Reject"}
  PROVE  \/ c = "UseNestedPath" /\ a.kinds = {"MissingFromSampledDocuments"}
         \/ /\ c # "UseNestedPath"
            /\ a.observed_types = {"Integer", "String"}
            /\ \E v \in SoleAssignment(p, a.field_path) : v.type \in {"Integer", "String"}
  <1>1. c \in ResolutionCandidates
    BY DEF allowed_candidates
  <1>2. CASE c = "UseNestedPath"
    BY <1>2 DEF allowed_candidates, NestedPathIsSafe
  <1>3. CASE c = "KeepString"
    BY <1>3 DEF allowed_candidates, mixed_type_assignment_value, IsMixedIntegerString
  <1>4. CASE c = "ParseIntegerLosslessly"
    BY <1>4 DEF allowed_candidates, mixed_type_assignment_value, IsMixedIntegerString
  <1>5. CASE c \in {"KeepInteger", "FormatIntegerAsString"}
    BY <1>5 DEF allowed_candidates, mixed_type_assignment_value, IsMixedIntegerString
  <1> QED
    BY <1>1, <1>2, <1>3, <1>4, <1>5 DEF ResolutionCandidates

\* A plan of one assignment, before and after a change of its notation.
LEMMA RetypedIsLowered ==
  ASSUME NEW p, IsUpdate(p), Len(p.assignments) = 1,
         NEW type \in {"Integer", "String"}, NEW form \in {"none", "canonical"}
  PROVE  LET q == Retyped(p, type, form) IN
         /\ q.kind = "Update" /\ IsUpdate(q)
         /\ DOMAIN q.assignments = {1}
         /\ q.assignments[1].path = p.assignments[1].path
         /\ q.assignments[1].value.type = type
  <1> DEFINE old == p.assignments[1]
             new == Value(type, old.value.int, form)
             q == Retyped(p, type, form)
             list == [p.assignments EXCEPT ![1].value = new]
  <1>1. /\ p = [kind |-> "Update", assignments |-> p.assignments, filter |-> p.filter]
        /\ p.assignments \in Seq([path : Paths, value : SqlValues])
        /\ IsFilter(p.filter)
    BY DEF IsUpdate
  <1>2. /\ DOMAIN p.assignments = {1}
        /\ old \in [path : Paths, value : SqlValues]
    BY <1>1, OnlyElement
  <1>3. new \in SqlValues /\ new.type = type
    BY <1>2 DEF SqlValues, SqlTypes, Value
  <1>4. list \in Seq([path : Paths, value : SqlValues])
    <2>1. [old EXCEPT !.value = new] \in [path : Paths, value : SqlValues]
      BY <1>2, <1>3
    <2>2. list = << [old EXCEPT !.value = new] >>
      <3>1. list = [i \in {1} |-> [old EXCEPT !.value = new]]
        BY <1>2
      <3>2. << [old EXCEPT !.value = new] >> = [i \in 1 .. 1 |-> [old EXCEPT !.value = new]]
        OBVIOUS
      <3>3. 1 .. 1 = {1}
        OBVIOUS
      <3> HIDE DEF list, old, new
      <3> QED
        BY <3>1, <3>2, <3>3
    <2> HIDE DEF list, old, new
    <2> QED
      BY <2>1, <2>2
  <1>5. DOMAIN list = {1} /\ list[1].path = old.path /\ list[1].value = new
    BY <1>2
  <1>6. q = [kind |-> "Update", assignments |-> list, filter |-> p.filter]
    BY <1>1 DEF Retyped
  <1> HIDE DEF list, new, old
  <1>7. q.kind = "Update" /\ q.assignments = list /\ q.filter = p.filter
    BY <1>6
  <1>8. IsUpdate(q)
    BY <1>1, <1>4, <1>6, <1>7 DEF IsUpdate
  <1> HIDE DEF q
  <1> QED
    BY <1>3, <1>5, <1>7, <1>8 DEF q, old

\* A plan of one assignment to a field of integers and text fits when its value
\* is one of them.
LEMMA MixedPlanFits ==
  ASSUME NEW sch, NEW q, q.kind = "Update", DOMAIN q.assignments = {1},
         q.assignments[1].path \in DOMAIN sch,
         sch[q.assignments[1].path].observed_types = {"Integer", "String"},
         q.assignments[1].value.type \in {"Integer", "String"}
  PROVE  PlanFits(q, sch)
  <1>1. AssignedValues(q) = {q.assignments[1]}
    BY DEF AssignedValues, ToSet
  <1> QED
    BY <1>1 DEF PlanFits, Fits

\* What an accepted candidate makes of a plan is one whose values fit.
LEMMA ResolvedPlanFits ==
  ASSUME NEW sch, Profiled(sch), NEW p \in Plans, lower_statement(p, sch),
         Cardinality(Ambiguities(p, sch)) = 1,
         NEW c \in AllowedCandidates(p, sch) \ {"Reject"}
  PROVE  LET q == apply_resolution(p, Request(p, sch).target_path, c) IN
         IsLowered(q) /\ PlanFits(q, sch)
  <1> DEFINE a == SoleAmbiguity(p, sch)
             target == Request(p, sch).target_path
             q == apply_resolution(p, target, c)
  <1>1. PICK path \in DOMAIN sch :
           /\ a = WriteAmbiguity(path, AmbiguityKinds(sch[path]), sch[path])
           /\ \A other \in AssignedPaths(p) \ {path} : AmbiguityKinds(sch[other]) = {}
    BY OneAmbiguity
  <1>2. /\ a.field_path = path /\ a.kinds = AmbiguityKinds(sch[path])
        /\ a.observed_types = sch[path].observed_types
    BY <1>1 DEF WriteAmbiguity
  <1>3. c \in allowed_candidates(p, a) \ {"Reject"}
    BY DEF AllowedCandidates, Request, resolver_request
  <1>4. IsLowered(p) /\ p.kind \in Kinds
    BY PlansAreLowered DEF IsLowered
  <1> HIDE DEF a, target
  <1>5. CASE c = "UseNestedPath"
    <2>1. AmbiguityKinds(sch[path]) = {"MissingFromSampledDocuments"}
      BY <1>2, <1>3, <1>5, OfferedEvidence
    <2>2. PlanFits(p, sch)
      BY <1>1, <1>4, <2>1, ClearPlanFits
    <2>3. q = p
      BY <1>5 DEF apply_resolution
    <2> QED
      BY <1>4, <2>2, <2>3 DEF target
  <1>6. CASE c # "UseNestedPath"
    <2>1. /\ sch[path].observed_types = {"Integer", "String"}
          /\ \E v \in SoleAssignment(p, path) : v.type \in {"Integer", "String"}
      BY <1>2, <1>3, <1>6, OfferedEvidence
    <2>2. /\ p.kind = "Update" /\ Len(p.assignments) = 1 /\ p.assignments[1].path = path
          /\ p.assignments[1].value.type \in {"Integer", "String"}
      BY <2>1 DEF SoleAssignment
    <2>3. IsUpdate(p)
      BY <1>4, <2>2 DEF IsLowered
    <2>4. /\ q.kind = "Update" /\ IsUpdate(q) /\ DOMAIN q.assignments = {1}
          /\ q.assignments[1].path = path
          /\ q.assignments[1].value.type \in {"Integer", "String"}
      <3>1. CASE c = "ParseIntegerLosslessly"
        BY <2>2, <2>3, <3>1, RetypedIsLowered DEF apply_resolution
      <3>2. CASE c = "FormatIntegerAsString"
        BY <2>2, <2>3, <3>2, RetypedIsLowered DEF apply_resolution
      <3>3. CASE c \notin {"ParseIntegerLosslessly", "FormatIntegerAsString"}
        <4>1. q = p
          BY <3>3 DEF apply_resolution
        <4>2. p.assignments \in Seq([path : Paths, value : SqlValues])
          BY <2>3 DEF IsUpdate
        <4>3. DOMAIN p.assignments = {1}
          BY <2>2, <4>2, OnlyElement
        <4> QED
          BY <2>2, <2>3, <4>1, <4>3
      <3> QED
        BY <3>1, <3>2, <3>3
    <2> HIDE DEF q
    <2>5. PlanFits(q, sch)
      BY <1>1, <2>1, <2>4, MixedPlanFits
    <2> QED
      BY <2>4, <2>5 DEF q, target, IsLowered, Kinds
  <1> QED
    BY <1>5, <1>6 DEF target

-----------------------------------------------------------------------------
(* The values of a document that was written *)

\* A plan that translates has a value in every place, and an update no literal
\* dotted key.
LEMMA TranslatedInsert ==
  ASSUME NEW q, q.kind = "Insert", IsInsert(q), TranslationErrors(q) = {},
         NEW r \in DOMAIN q.rows, NEW i \in DOMAIN q.columns
  PROVE  q.rows[r][i].type # "Placeholder"
  <1> DEFINE columns == q.columns
             tuples == q.rows
             row == tuples[r]
  <1>1. columns \in Seq(Paths) /\ Len(tuples) \in Nat /\ DOMAIN tuples = 1 .. Len(tuples)
    BY DEF IsInsert
  <1>2. build_insert_document_errors(columns, row) = {}
    BY <1>1, TranslatedRows
  <1> HIDE DEF columns, tuples
  <1>3. i \in DOMAIN columns => row[i].type # "Placeholder"
    BY <1>1, <1>2, TranslatedRow
  <1> QED
    BY <1>3 DEF columns, tuples

\* The same of an UPDATE.
LEMMA TranslatedUpdate ==
  ASSUME NEW q, q.kind = "Update", IsUpdate(q), TranslationErrors(q) = {},
         NEW i \in DOMAIN q.assignments
  PROVE  /\ ~is_literal_dotted_key(q.assignments[i].path)
         /\ q.assignments[i].value.type # "Placeholder"
  <1>1. Len(q.assignments) \in Nat /\ DOMAIN q.assignments = 1 .. Len(q.assignments)
    BY DEF IsUpdate
  <1> QED
    BY <1>1, TranslatedAssignments

\* Every value that storing puts into a document fits, the documents that enclose
\* a field included.
LEMMA StoredFits ==
  ASSUME NEW sch, Profiled(sch), NEW document, NEW paths, NEW values, Len(paths) \in Nat,
         \A i \in 1 .. Len(paths) : Fits(paths[i], values[i], sch),
         NEW path \in DOMAIN StoredAll(document, paths, values),
         ~ /\ path \in DOMAIN document
           /\ StoredAll(document, paths, values)[path] = document[path]
  PROVE  Fits(path, StoredAll(document, paths, values)[path], sch)
  <1> DEFINE result == StoredAll(document, paths, values)
  <1>1. Origin(result, document, paths, values)
    BY StoredAllOrigin
  <1> HIDE DEF result
  <1>2. CASE \E i \in 1 .. Len(paths) : path = paths[i] /\ result[path] = values[i]
    BY <1>2 DEF result
  <1>3. CASE \E i \in 1 .. Len(paths) : path \in Ancestors(paths[i]) /\ result[path] = DocumentValue
    <2>1. PICK i \in 1 .. Len(paths) : path \in Ancestors(paths[i])
      BY <1>3
    <2>2. paths[i] \in DOMAIN sch
      BY DEF Fits
    <2>3. path \in DOMAIN sch /\ "Document" \in sch[path].observed_types
      BY <2>1, <2>2 DEF Profiled, ProfiledField
    <2>4. result[path].type = "Document"
      BY <1>3 DEF DocumentValue, Value
    <2>5. Fits(path, result[path], sch)
      BY <2>3, <2>4 DEF Fits
    <2> QED
      BY <2>5 DEF result
  <1> QED
    BY <1>1, <1>2, <1>3 DEF Origin, result

\* A row that is built into a document.
LEMMA InsertedFits ==
  ASSUME NEW sch, Profiled(sch), NEW q, q.kind = "Insert", IsInsert(q),
         TranslationErrors(q) = {}, PlanFits(q, sch), NEW r \in DOMAIN q.rows,
         NEW path \in DOMAIN build_insert_document(q.columns, q.rows[r])
  PROVE  Fits(path, build_insert_document(q.columns, q.rows[r])[path], sch)
  <1> DEFINE columns == q.columns
             row == q.rows[r]
  <1>1. Len(columns) \in Nat /\ DOMAIN columns = 1 .. Len(columns)
    BY DEF IsInsert
  <1>2. ASSUME NEW i \in 1 .. Len(columns)
        PROVE  Fits(columns[i], row[i], sch)
    <2>1. i \in DOMAIN columns
      BY <1>1
    <2> DEFINE a == [path |-> columns[i], value |-> row[i]]
    <2>2. a \in AssignedValues(q)
      <3>1. AssignedValues(q) = {[path |-> q.columns[k], value |-> q.rows[t][k]] :
                                    t \in DOMAIN q.rows, k \in DOMAIN q.columns}
        BY DEF AssignedValues
      <3> QED
        BY <2>1, <3>1
    <2>3. a.value.type # "Placeholder"
      BY <2>1, TranslatedInsert
    <2>4. a.path = columns[i] /\ a.value = row[i]
      OBVIOUS
    <2> HIDE DEF a
    <2> QED
      BY <2>2, <2>3, <2>4 DEF PlanFits
  <1>3. DOMAIN EmptyDocument = {}
    BY DEF EmptyDocument
  <1>4. build_insert_document(columns, row) = StoredAll(EmptyDocument, columns, row)
    BY DEF build_insert_document
  <1> HIDE DEF columns, row
  <1>5. path \in DOMAIN StoredAll(EmptyDocument, columns, row)
    BY <1>4 DEF columns, row
  <1>6. Fits(path, StoredAll(EmptyDocument, columns, row)[path], sch)
    BY <1>1, <1>2, <1>3, <1>5, StoredFits
  <1> QED
    BY <1>4, <1>6 DEF columns, row

\* A document that is updated.
LEMMA UpdatedFits ==
  ASSUME NEW sch, Profiled(sch), NEW q, q.kind = "Update", IsUpdate(q),
         TranslationErrors(q) = {}, PlanFits(q, sch), NEW document,
         NEW path \in DOMAIN update_document(q.assignments, document),
         ~ /\ path \in DOMAIN document
           /\ update_document(q.assignments, document)[path] = document[path]
  PROVE  Fits(path, update_document(q.assignments, document)[path], sch)
  <1> DEFINE list == q.assignments
             paths == SetPaths(list)
             values == [i \in DOMAIN list |-> list[i].value]
  <1>1. Len(list) \in Nat /\ DOMAIN list = 1 .. Len(list)
    BY DEF IsUpdate
  <1>2. DOMAIN paths = 1 .. Len(list) /\ Len(paths) = Len(list)
    BY <1>1 DEF SetPaths
  <1>3. ASSUME NEW i \in 1 .. Len(list)
        PROVE  Fits(paths[i], values[i], sch)
    <2>1. i \in DOMAIN list
      BY <1>1
    <2>2. list[i] \in AssignedValues(q)
      <3>1. AssignedValues(q) = ToSet(list)
        BY DEF AssignedValues
      <3> QED
        BY <2>1, <3>1 DEF ToSet
    <2>3. ~is_literal_dotted_key(list[i].path) /\ list[i].value.type # "Placeholder"
      BY <2>1, TranslatedUpdate
    <2>4. Fits(list[i].path, list[i].value, sch)
      BY <2>2, <2>3 DEF PlanFits
    <2>5. list[i].path \in Paths /\ PlainPath(list[i].path)
      BY <2>3, <2>4 DEF Fits, Profiled, ProfiledField
    <2>6. paths[i] = list[i].path
      BY <2>1, <2>5, PlainPathIsKept DEF SetPaths
    <2>7. values[i] = list[i].value
      BY <2>1
    <2> QED
      BY <2>4, <2>6, <2>7
  <1>4. update_document(list, document) = StoredAll(document, paths, values)
    BY DEF update_document
  <1> HIDE DEF list, paths, values
  <1>5. /\ path \in DOMAIN StoredAll(document, paths, values)
        /\ ~ /\ path \in DOMAIN document
             /\ StoredAll(document, paths, values)[path] = document[path]
    BY <1>4 DEF list
  <1>6. Len(paths) \in Nat /\ \A i \in 1 .. Len(paths) : Fits(paths[i], values[i], sch)
    BY <1>1, <1>2, <1>3
  <1>7. Fits(path, StoredAll(document, paths, values)[path], sch)
    BY <1>5, <1>6, StoredFits
  <1> QED
    BY <1>4, <1>7 DEF list

-----------------------------------------------------------------------------
(* What is at MongoDB fits the profile *)

SentOf(s) ==
    op[s] # "none" =>
        /\ IsLowered(sent[s])
        /\ TranslationErrors(sent[s]) = {}
        /\ PlanFits(sent[s], schema)
        /\ sent[s].kind = "Insert" => todo[s] \subseteq {<<s, i>> : i \in DOMAIN sent[s].rows}

SentInv == Profiled(schema) /\ \A s \in Statements : SentOf(s)

\* A step that hands nothing to MongoDB.
LEMMA NothingSent ==
  ASSUME SentInv, schema' = schema,
         \A t \in Statements :
            op'[t] # "none" =>
                op[t] # "none" /\ sent'[t] = sent[t] /\ todo'[t] \subseteq todo[t]
  PROVE  SentInv'
  <1> SUFFICES ASSUME NEW t \in Statements
               PROVE  SentOf(t)'
    BY DEF SentInv
  <1>1. SentOf(t)
    BY DEF SentInv
  <1> QED
    BY <1>1 DEF SentOf

\* A plan that is handed to MongoDB translates, and its values fit.
LEMMA DispatchSends ==
  ASSUME GateInv, SentInv, NEW s \in Statements, NEW q, NEW ctx, Dispatch(s, q, ctx),
         schema' = schema, IsLowered(q), PlanFits(q, schema)
  PROVE  SentInv'
  <1> SUFFICES ASSUME NEW t \in Statements
               PROVE  SentOf(t)'
    BY DEF SentInv
  <1>1. CASE t = s
    <2>1. sent'[t] = q /\ todo'[t] = Targets(s, q) /\ TranslationErrors(q) = {}
      BY <1>1 DEF Dispatch, GateInv, TypeOK
    <2>2. q.kind = "Insert" => todo'[t] \subseteq {<<t, i>> : i \in DOMAIN q.rows}
      BY <1>1, <2>1 DEF Targets
    <2> QED
      BY <2>1, <2>2 DEF SentOf
  <1>2. CASE t # s
    <2>1. sent'[t] = sent[t] /\ todo'[t] = todo[t] /\ op'[t] = op[t]
      BY <1>2 DEF Dispatch, GateInv, TypeOK
    <2> QED
      BY <2>1 DEF SentInv, SentOf
  <1> QED
    BY <1>1, <1>2

\* Every step keeps what is known of the plans at MongoDB.
LEMMA SentNext ==
  ASSUME GateInv, DecisionInv, SentInv, [Next]_vars
  PROVE  SentInv'
  <1>1. ASSUME UNCHANGED <<schema, mongoVars, sent>>
        PROVE  SentInv'
    BY <1>1, NothingSent DEF mongoVars
  <1>2. ASSUME NEW s \in Statements, NEW p \in Plans,
               SubmitInvalid(s, p) \/ SubmitBlocked(s, p) \/ SubmitAmbiguous(s, p)
        PROVE  SentInv'
    BY <1>1, <1>2 DEF SubmitInvalid, SubmitBlocked, SubmitAmbiguous, Submit
  <1>3. ASSUME NEW s \in Statements, NEW p \in Plans, SubmitClear(s, p)
        PROVE  SentInv'
    <2>1. /\ schema' = schema /\ lower_statement(p, schema) /\ ~NeedsResolution(p, schema)
          /\ Dispatch(s, p, {}) \/ RefuseTranslation(s, p, p, {})
      BY <1>3 DEF SubmitClear, Submit
    <2>2. CASE Dispatch(s, p, {})
      <3>1. Ambiguities(p, schema) = {}
        BY <2>1 DEF NeedsResolution
      <3>2. IsLowered(p) /\ p.kind \in Kinds
        BY PlansAreLowered DEF IsLowered
      <3>3. PlanFits(p, schema)
        BY <2>1, <3>1, <3>2, UnambiguousPlanFits DEF SentInv
      <3> QED
        BY <2>1, <2>2, <3>2, <3>3, DispatchSends
    <2>3. CASE RefuseTranslation(s, p, p, {})
      BY <1>1, <2>1, <2>3 DEF RefuseTranslation
    <2> QED
      BY <2>1, <2>2, <2>3
  <1>4. ASSUME NEW s \in Statements, NEW r \in Responses,
               RejectResponse(s, r) \/ RejectResolution(s, r) \/ RejectConfidence(s, r)
               \/ ResolverFail(s)
        PROVE  SentInv'
    BY <1>1, <1>4 DEF RejectResponse, RejectResolution, RejectConfidence, ResolverFail,
                      ResolverReply
  <1>5. ASSUME NEW s \in Statements, ResolverFail(s)
        PROVE  SentInv'
    BY <1>1, <1>5 DEF ResolverFail, ResolverReply
  <1>6. ASSUME NEW s \in Statements, NEW r \in Responses, AcceptResolution(s, r)
        PROVE  SentInv'
    <2> DEFINE p   == plan[s]
               q   == apply_resolution(p, Request(p, schema).target_path, r.candidate)
               ctx == {[selected_candidate |-> r.candidate, confidence |-> bp] :
                          bp \in from_ratio(r.confidence)}
    <2>1. /\ ResolverReply(s) /\ Accepted(s, r) /\ Applicable(s, r) /\ ctx # {}
          /\ Dispatch(s, q, ctx) \/ RefuseTranslation(s, q, p, ctx)
      BY <1>6 DEF AcceptResolution
    <2>2. /\ pc[s] = "resolving" /\ schema' = schema /\ p \in Plans
          /\ NeedsResolution(p, schema)
      BY <2>1, Resolving
    <2>3. Resolvable(p, schema)
      BY <2>2 DEF DecisionInv, DecisionOf
    <2>4. AcceptedContext(p, schema, ctx)
      BY <2>1, <2>3, AcceptanceIsDecision
    <2>5. r.candidate \in AllowedCandidates(p, schema) \ {"Reject"}
      BY <2>1, <2>4 DEF AcceptedContext
    <2>6. Cardinality(Ambiguities(p, schema)) = 1 /\ lower_statement(p, schema)
      BY <2>2, <2>3 DEF Resolvable, NeedsResolution
    <2>7. IsLowered(q) /\ PlanFits(q, schema)
      BY <2>2, <2>5, <2>6, ResolvedPlanFits DEF SentInv
    <2> HIDE DEF p, q, ctx
    <2>8. CASE Dispatch(s, q, ctx)
      BY <2>2, <2>7, <2>8, DispatchSends
    <2>9. CASE RefuseTranslation(s, q, p, ctx)
      BY <1>1, <2>2, <2>9 DEF RefuseTranslation
    <2> QED
      BY <2>1, <2>8, <2>9
  <1>7. ASSUME NEW s \in Statements, MongoStep(s)
        PROVE  SentInv'
    <2>1. UNCHANGED proxyVars /\ op[s] = "running"
      BY <1>7 DEF MongoStep, MongoSkip, MongoWrite, MongoCannotSet, MongoReaches, MongoFinish,
                  MongoFail
    <2>2. \A t \in Statements : op'[t] # "none" => op[t] # "none"
      BY <1>7, <2>1 DEF MongoStep, MongoSkip, MongoWrite, MongoCannotSet, MongoFinish,
                  MongoFail, GateInv, TypeOK
    <2>3. \A t \in Statements : todo'[t] \subseteq todo[t]
      <3>1. ASSUME NEW d \in DocIds, MongoSkip(s, d) \/ MongoWrite(s, d)
            PROVE  todo' = [todo EXCEPT ![s] = @ \ {d}]
        BY <3>1, Zenon DEF MongoSkip, MongoWrite
      <3>2. ASSUME NEW d \in DocIds, MongoCannotSet(s, d)
            PROVE  todo' = todo
        BY <3>2 DEF MongoCannotSet
      <3>3. ASSUME MongoFinish(s) \/ MongoFail(s)
            PROVE  todo' = todo
        BY <3>3 DEF MongoFinish, MongoFail
      <3>4. todo' = todo \/ \E d \in DocIds : todo' = [todo EXCEPT ![s] = @ \ {d}]
        BY <1>7, <3>1, <3>2, <3>3 DEF MongoStep
      <3>5. DOMAIN todo = Statements
        BY DEF GateInv, TypeOK
      <3>6. ASSUME NEW d, todo' = [todo EXCEPT ![s] = @ \ {d}], NEW t \in Statements
            PROVE  todo'[t] \subseteq todo[t]
        <4>1. todo'[t] = IF t = s THEN todo[t] \ {d} ELSE todo[t]
          BY <3>5, <3>6
        <4> QED
          BY <4>1
      <3> QED
        BY <3>4, <3>6
    <2> QED
      BY <2>1, <2>2, <2>3, NothingSent DEF proxyVars
  <1>8. ASSUME NEW s \in Statements, DriverStep(s) \/ NetworkError(s)
        PROVE  SentInv'
    BY <1>1, <1>8 DEF DriverStep, ExecuteOk, ExecuteError, NetworkError, Completion
  <1>9. CASE Crash
    BY <1>1, <1>9 DEF Crash
  <1>10. CASE UNCHANGED vars
    BY <1>1, <1>10 DEF vars, mongoVars
  <1> QED
    BY <1>2, <1>3, <1>4, <1>5, <1>6, <1>7, <1>8, <1>9, <1>10
    DEF Next, ClientStep, ResolverStep

\* MongoDB changes one document, and only as the operation's plan says.
LEMMA WrittenFits ==
  ASSUME GateInv, SentInv, NEW s \in Statements, NEW d \in DocIds, MongoWrite(s, d),
         NEW e \in DOMAIN coll', NEW path \in DOMAIN coll'[e], Writes(e, path)
  PROVE  Fits(path, coll'[e][path], schema)
  <1> DEFINE q == sent[s]
  <1>1. op[s] = "running" /\ MongoReaches(s, d)
    BY DEF MongoWrite, MongoReaches
  <1>2. /\ IsLowered(q) /\ TranslationErrors(q) = {} /\ PlanFits(q, schema)
        /\ q.kind = "Insert" => todo[s] \subseteq {<<s, i>> : i \in DOMAIN q.rows}
        /\ Profiled(schema)
    BY <1>1 DEF SentInv, SentOf
  <1>3. CASE q.kind = "Insert"
    <2>1. coll' = [x \in DOMAIN coll \cup {d} |->
                      IF x = d THEN build_insert_document(q.columns, q.rows[d[2]]) ELSE coll[x]]
      BY <1>3, Zenon DEF MongoWrite
    <2>2. PICK i \in DOMAIN q.rows : d = <<s, i>>
      BY <1>1, <1>2, <1>3 DEF MongoReaches
    <2>3. e = d
      BY <2>1 DEF Writes
    <2>4. coll'[e] = build_insert_document(q.columns, q.rows[i])
      BY <2>1, <2>2, <2>3
    <2>5. IsInsert(q)
      BY <1>2, <1>3 DEF IsLowered
    <2> HIDE DEF q
    <2> QED
      BY <1>2, <1>3, <2>4, <2>5, InsertedFits
  <1>4. CASE q.kind = "Update"
    <2>1. coll' = [coll EXCEPT ![d] = update_document(q.assignments, @)]
      BY <1>4, Zenon DEF MongoWrite
    <2>2. d \in DOMAIN coll
      BY <1>1, <1>4 DEF MongoReaches
    <2>3. e = d /\ e \in DOMAIN coll
      BY <2>1, <2>2 DEF Writes
    <2>4. coll'[e] = update_document(q.assignments, coll[e])
      BY <2>1, <2>3
    <2>5. IsUpdate(q)
      BY <1>2, <1>4 DEF IsLowered
    <2>6. ~ (path \in DOMAIN coll[e] /\ coll'[e][path] = coll[e][path])
      BY <2>3 DEF Writes
    <2> HIDE DEF q
    <2> QED
      BY <1>2, <1>4, <2>4, <2>5, <2>6, UpdatedFits
  <1>5. CASE q.kind = "Delete"
    <2>1. coll' = [x \in DOMAIN coll \ {d} |-> coll[x]]
      BY <1>5, Zenon DEF MongoWrite
    <2> QED
      BY <2>1 DEF Writes
  <1> QED
    BY <1>2, <1>3, <1>4, <1>5 DEF IsLowered, Kinds

\* The proxy brings no type into a field that discovery did not see there, whatever
\* the resolver answers and however the writes of sessions interleave, unless a
\* name inside a document has a dot in it.
THEOREM TypesDoNotDrift == ASSUME PlainNames PROVE Spec => NoTypeDrift
  <1>1. Init => SentInv
    BY ProfiledInitially DEF Init, SentInv, SentOf
  <1>2. GateInv /\ DecisionInv /\ SentInv /\ [Next]_vars => SentInv'
    BY SentNext
  <1>3. ASSUME GateInv, SentInv, [Next]_vars
        PROVE  [\A d \in DOMAIN coll' : \A path \in DOMAIN coll'[d] :
                   Writes(d, path) =>
                       /\ path \in DOMAIN schema
                       /\ \/ coll'[d][path].type \in schema[path].observed_types \cup {"Null"}
                          \/ schema[path].observed_types = {"Null"}]_vars
    <2> SUFFICES ASSUME NEW d \in DOMAIN coll', NEW path \in DOMAIN coll'[d], Writes(d, path)
                 PROVE  Fits(path, coll'[d][path], schema)
      BY DEF Fits
    <2>1. CASE \E s \in Statements, e \in DocIds : MongoWrite(s, e)
      BY <1>3, <2>1, WrittenFits
    <2>2. CASE UNCHANGED coll
      BY <2>2 DEF Writes
    <2>3. ASSUME NEW s \in Statements, ClientStep(s)
          PROVE  UNCHANGED coll
      BY <2>3 DEF ClientStep, SubmitInvalid, SubmitBlocked, SubmitAmbiguous, SubmitClear,
                  Dispatch, RefuseTranslation, mongoVars
    <2>4. ASSUME NEW s \in Statements, ResolverStep(s)
          PROVE  UNCHANGED coll
      BY <2>4 DEF ResolverStep, RejectResponse, RejectResolution, RejectConfidence,
                  AcceptResolution, ResolverFail, Dispatch, RefuseTranslation, mongoVars
    <2>5. ASSUME NEW s \in Statements, MongoStep(s)
          PROVE  (\E e \in DocIds : MongoWrite(s, e)) \/ UNCHANGED coll
      BY <2>5 DEF MongoStep, MongoSkip, MongoCannotSet, MongoFinish, MongoFail
    <2>6. ASSUME NEW s \in Statements, DriverStep(s) \/ NetworkError(s)
          PROVE  UNCHANGED coll
      BY <2>6 DEF DriverStep, ExecuteOk, ExecuteError, NetworkError, Completion, mongoVars
    <2>7. ASSUME Crash \/ UNCHANGED vars
          PROVE  UNCHANGED coll
      BY <2>7 DEF Crash, mongoVars, vars
    <2> QED
      BY <1>3, <2>1, <2>2, <2>3, <2>4, <2>5, <2>6, <2>7 DEF Next
  <1> QED
    BY <1>1, <1>2, <1>3, GateInvariant, DecisionInvariant, PTL DEF Spec, NoTypeDrift

=============================================================================
