------------------------ MODULE ResolverServiceProofs ------------------------
(***************************************************************************)
(* The two validations of an answer agree, the service takes the requests  *)
(* of the gate, and its local advice resolves them, for any writes,        *)
(* profiles, providers and model answers.                                  *)
(*                                                                         *)
(* AnswersPassTwice speaks of what the client made of an answer.  CallInv  *)
(* says of the reply itself that the service found it good for the one     *)
(* write that is held, and that it is an answer of the contract's types.   *)
(* ServiceInv says which requests the service refuses and what its local   *)
(* advisor replies.                                                        *)
(***************************************************************************)
EXTENDS ResolverService, FiniteSetTheorems, TLAPS

\* The fields that are the same in the service and in Rust.
IsAnswer(answer) ==
    /\ DOMAIN answer = {"contract_version", "schema_profile_version", "operation",
                        "target_path", "candidate", "confidence", "rationale"}
    /\ answer.confidence \in [neg : BOOLEAN, bp : Nat]
    /\ answer.rationale \in [chars : Nat, bytes : Nat]
    /\ answer.rationale.bytes >= answer.rationale.chars

IsRecommended(answer, w) ==
    AmbiguityResponse(answer) /\ validate_recommendation(Request(w), answer)

CallInv ==
    /\ \A v, w \in write : v = w
    /\ client = "idle" => write = {}
    /\ write = {} => reply.answer = {}
    /\ \A answer \in reply.answer : IsAnswer(answer) /\ reply.answer = {answer}
    /\ \A answer \in reply.answer, w \in write : IsRecommended(answer, w)
    /\ client = "invalid" => service \in {"replied", "refused"}
    /\ client = "invalid" =>
          \E w \in write : \A answer \in reply.answer :
              ~validate_resolver_response(Request(w), Decoded(answer), MinimumConfidence)

\* Decoding changes nothing but the rationale.
LEMMA DecodedFields ==
    ASSUME NEW answer, IsAnswer(answer)
    PROVE  /\ Decoded(answer).contract_version = answer.contract_version
           /\ Decoded(answer).schema_profile_version = answer.schema_profile_version
           /\ Decoded(answer).operation = answer.operation
           /\ Decoded(answer).target_path = answer.target_path
           /\ Decoded(answer).candidate = answer.candidate
           /\ Decoded(answer).confidence = answer.confidence
           /\ Decoded(answer).rationale = answer.rationale.bytes
BY DEF Decoded, IsAnswer

\* Rust refuses an answer of the service for two reasons only.
LEMMA TwoReasons ==
    ASSUME NEW w, NEW answer, IsAnswer(answer), IsRecommended(answer, w),
           ~validate_resolver_response(Request(w), Decoded(answer), MinimumConfidence)
    PROVE  Ratio(answer.confidence) < MinimumConfidence \/ answer.rationale.bytes > 500
<1>1. /\ answer.contract_version = RESOLUTION_CONTRACT_VERSION
      /\ answer.schema_profile_version = Request(w).schema_profile_version
      /\ answer.operation = Request(w).operation
      /\ answer.target_path = Request(w).target_path
      /\ answer.candidate \in Request(w).allowed_candidates
      /\ Ratio(answer.confidence) \in 0 .. FullConfidence
      /\ answer.rationale.chars \in 1 .. 500
  BY DEF IsRecommended, AmbiguityResponse, validate_recommendation
<1>2. \/ ~ConfidenceAccepted(answer.confidence, MinimumConfidence)
      \/ answer.rationale.bytes \notin 1 .. 500
  BY <1>1, DecodedFields DEF validate_resolver_response
<1>3. MinimumConfidence \in Nat
  BY ServiceAssumption DEF FullConfidence
<1>4. CASE ~ConfidenceAccepted(answer.confidence, MinimumConfidence)
  <2> DEFINE ratio == Ratio(answer.confidence)
  <2>1. ratio \in Int /\ ratio =< FullConfidence
    <3>1. ratio \in 0 .. FullConfidence
      BY <1>1
    <3> HIDE DEF ratio
    <3>2. QED
      BY <3>1 DEF FullConfidence
  <2>2. ~(Ratio(answer.confidence) >= MinimumConfidence)
    BY <1>4, <2>1 DEF ConfidenceAccepted
  <2>3. QED
    BY <1>3, <2>1, <2>2
<1>5. CASE answer.rationale.bytes \notin 1 .. 500
  BY <1>1, <1>5 DEF IsAnswer
<1>6. QED
  BY <1>2, <1>4, <1>5

LEMMA CallInitially == Init => CallInv
BY DEF Init, CallInv, NoReply

\* The local advisor and a model both give an answer of the contract's types.
LEMMA AnswersAreAnswers ==
    /\ \A request : IsAnswer(DeterministicAdvisor(request))
    /\ \A request : \A answer \in ModelAnswers : IsAnswer(AnswerFor(answer, request))
<1>1. ASSUME NEW request PROVE IsAnswer(DeterministicAdvisor(request))
  BY DEF IsAnswer, DeterministicAdvisor, FullConfidence
<1>2. ASSUME NEW request, NEW answer \in ModelAnswers
      PROVE  IsAnswer(AnswerFor(answer, request))
  BY ModelAnswersAssumption DEF IsAnswer, AnswerFor
<1>3. QED
  BY <1>1, <1>2

\* What the service recommends, it has validated for the write that is held.
LEMMA RecommendKeepsCall ==
    ASSUME CallInv, service = "advising", NEW answer, IsAnswer(answer), Recommend(answer)
    PROVE  CallInv'
<1>1. PICK w \in write :
        IF IsRecommended(answer, w) THEN Reply(200, {answer}) ELSE Reply(422, {})
  BY DEF Recommend, IsRecommended
<1>2. UNCHANGED <<schema, write, client>>
  BY <1>1 DEF Reply
<1>3. \/ reply'.answer = {}
      \/ reply'.answer = {answer} /\ IsRecommended(answer, w)
  <2>1. CASE IsRecommended(answer, w)
    <3>1. reply' = [status |-> 200, answer |-> {answer}]
      BY <1>1, <2>1 DEF Reply
    <3>2. QED
      BY <2>1, <3>1
  <2>2. CASE ~IsRecommended(answer, w)
    <3>1. reply' = [status |-> 422, answer |-> {}]
      BY <1>1, <2>2 DEF Reply
    <3>2. QED
      BY <3>1
  <2>3. QED
    BY <2>1, <2>2
<1>4. \A v \in write : v = w
  BY DEF CallInv
<1>5. QED
  <2>1. client' # "invalid"
    BY <1>2 DEF CallInv
  <2>2. \A a \in reply'.answer, v \in write' : IsAnswer(a) /\ IsRecommended(a, v)'
    <3>1. SUFFICES ASSUME NEW a \in reply'.answer, NEW v \in write'
                   PROVE  IsAnswer(a) /\ IsRecommended(a, v)'
      OBVIOUS
    <3>2. a = answer /\ v = w /\ IsRecommended(answer, w)
      BY <1>2, <1>3, <1>4
    <3>3. schema' = schema
      BY <1>2
    <3>4. IsRecommended(a, v)' = IsRecommended(a, v)
      BY <3>3 DEF IsRecommended, validate_recommendation, Request, Ambiguity, Detected
    <3>5. QED
      BY <3>2, <3>4
  <2>3. \A a \in reply'.answer : IsAnswer(a) /\ reply'.answer = {a}
    BY <1>1, <1>2, <1>3, <2>2
  <2>4. /\ \A u, v \in write' : u = v
        /\ client' = "idle" => write' = {}
        /\ write' # {}
    BY <1>1, <1>2 DEF CallInv
  <2>5. QED
    BY <2>1, <2>2, <2>3, <2>4 DEF CallInv

LEMMA CallInductive == CallInv /\ [Next]_vars => CallInv'
<1>1. SUFFICES ASSUME CallInv, [Next]_vars PROVE CallInv'
  OBVIOUS
<1>2. ASSUME schema' = schema, NEW w, NEW answer
      PROVE  /\ IsRecommended(answer, w)' = IsRecommended(answer, w)
             /\ Request(w)' = Request(w)
  BY <1>2 DEF IsRecommended, validate_recommendation, Request, Ambiguity, Detected
<1>3. ASSUME NEW w \in Plans, Ask(w) PROVE CallInv'
  <2>1. /\ write' = {w} /\ client' = "waiting" /\ schema' = schema
        /\ reply' = reply /\ reply.answer = {}
    BY <1>1, <1>3 DEF Ask, CallInv
  <2>2. QED
    BY <2>1 DEF CallInv
<1>4. CASE RefuseRequest \/ ProviderFail
  <2>1. /\ UNCHANGED <<schema, write, client>> /\ reply'.answer = {}
        /\ service \in {"idle", "advising"}
    BY <1>4 DEF RefuseRequest, ProviderFail, Reply
  <2>2. client # "invalid"
    BY <1>1, <2>1 DEF CallInv
  <2>3. QED
    BY <1>1, <2>1, <2>2 DEF CallInv
<1>5. CASE TakeRequest
  <2>1. UNCHANGED <<schema, write, client, reply>> /\ service = "idle"
    BY <1>5 DEF TakeRequest
  <2>2. client # "invalid"
    BY <1>1, <2>1 DEF CallInv
  <2>3. QED
    BY <1>1, <1>2, <2>1, <2>2 DEF CallInv
<1>6. CASE AdviseLocally
  <2>1. PICK w \in write : Recommend(DeterministicAdvisor(Request(w)))
    BY <1>6 DEF AdviseLocally
  <2>2. service = "advising" /\ IsAnswer(DeterministicAdvisor(Request(w)))
    BY <1>6, AnswersAreAnswers DEF AdviseLocally
  <2>3. QED
    BY <1>1, <2>1, <2>2, RecommendKeepsCall
<1>7. CASE AdviseByModel
  <2>1. PICK w \in write, answer \in ModelAnswers : Recommend(AnswerFor(answer, Request(w)))
    BY <1>7 DEF AdviseByModel
  <2>2. service = "advising" /\ IsAnswer(AnswerFor(answer, Request(w)))
    BY <1>7, AnswersAreAnswers DEF AdviseByModel
  <2>3. QED
    BY <1>1, <2>1, <2>2, RecommendKeepsCall
<1>8. CASE Receive
  <2>1. /\ UNCHANGED <<schema, write, service, reply>>
        /\ client = "waiting" /\ service \in {"replied", "refused"}
    BY <1>8 DEF Receive
  <2>2. PICK w \in write : client' \in Outcome(w, reply.answer)
    BY <1>8 DEF Receive
  <2>3. client' # "idle"
    BY <2>2 DEF Outcome
  <2>4. client' = "invalid" =>
          \A answer \in reply.answer :
              ~validate_resolver_response(Request(w), Decoded(answer), MinimumConfidence)
    <3>1. SUFFICES ASSUME client' = "invalid", NEW answer \in reply.answer
                   PROVE  ~validate_resolver_response(Request(w), Decoded(answer), MinimumConfidence)
      OBVIOUS
    <3>2. reply.answer = {answer}
      BY <1>1, <3>1 DEF CallInv
    <3>3. QED
      BY <2>2, <3>1, <3>2 DEF Outcome
  <2>5. QED
    BY <1>1, <1>2, <2>1, <2>2, <2>3, <2>4 DEF CallInv
<1>9. CASE TimeOut \/ UNCHANGED vars
  <2>1. UNCHANGED <<schema, write, service, reply>> /\ client' \in {client, "timed_out"}
    BY <1>9 DEF TimeOut, vars
  <2>2. QED
    BY <1>1, <1>2, <2>1 DEF CallInv
<1>10. QED
  BY <1>1, <1>3, <1>4, <1>5, <1>6, <1>7, <1>8, <1>9 DEF Next

LEMMA CallInvariant == Spec => []CallInv
BY CallInitially, CallInductive, PTL DEF Spec

\* Whatever the model said, Rust refuses an answer of the service only for a low
\* confidence or for a rationale that is too long in bytes.
THEOREM AnswersAgree == Spec => []AnswersPassTwice
<1>1. CallInv => AnswersPassTwice
  BY TwoReasons DEF CallInv, AnswersPassTwice
<1>2. QED
  BY <1>1, CallInvariant, PTL

-----------------------------------------------------------------------------
(* The types *)

\* A reply carries an answer exactly when it is a success, whatever the model says
\* and however its call fails, and neither the service nor the client leaves its
\* states.
THEOREM ServiceIsTyped == Spec => []TypeOK
<1>1. Init => TypeOK
  BY DEF Init, TypeOK, NoReply
<1>2. TypeOK /\ [Next]_vars => TypeOK'
  <2>1. SUFFICES ASSUME TypeOK, [Next]_vars PROVE TypeOK'
    OBVIOUS
  <2>2. ASSUME NEW status, NEW answers, Reply(status, answers),
               status \in {200, 422, 500, 502, 503}, answers # {} <=> status = 200,
               service' \in {"replied", "refused"}
        PROVE  TypeOK'
    <3>1. UNCHANGED <<provider, write, client>> /\ reply' = [status |-> status, answer |-> answers]
      BY <2>2 DEF Reply
    <3>2. reply'.status = status /\ reply'.answer = answers
      BY <3>1
    <3>3. QED
      BY <2>1, <2>2, <3>1, <3>2 DEF TypeOK
  <2>3. ASSUME NEW w \in Plans, Ask(w) PROVE TypeOK'
    BY <2>1, <2>3 DEF Ask, TypeOK
  <2>4. CASE RefuseRequest \/ ProviderFail
    <3>1. /\ service' \in {"replied", "refused"}
          /\ \E status \in {422, 500, 502, 503} : Reply(status, {})
      BY <2>4 DEF RefuseRequest, ProviderFail
    <3>2. QED
      BY <2>2, <3>1
  <2>5. CASE TakeRequest
    BY <2>1, <2>5 DEF TakeRequest, TypeOK
  <2>6. ASSUME NEW answer, Recommend(answer) PROVE TypeOK'
    <3>1. service' = "replied" /\ (Reply(200, {answer}) \/ Reply(422, {}))
      BY <2>6 DEF Recommend
    <3>2. QED
      BY <2>2, <3>1
  <2>7. CASE AdviseLocally \/ AdviseByModel
    BY <2>6, <2>7 DEF AdviseLocally, AdviseByModel
  <2>8. CASE Receive
    <3>1. client' \in {"unavailable", "invalid", "rejected", "resolved"}
      BY <2>8 DEF Receive, Outcome
    <3>2. QED
      BY <2>1, <2>8, <3>1 DEF Receive, TypeOK
  <2>9. CASE TimeOut
    BY <2>1, <2>9 DEF TimeOut, TypeOK
  <2>10. CASE UNCHANGED vars
    BY <2>1, <2>10 DEF TypeOK, vars
  <2>11. QED
    BY <2>1, <2>3, <2>4, <2>5, <2>7, <2>8, <2>9, <2>10 DEF Next
<1>3. QED
  BY <1>1, <1>2, PTL DEF Spec

-----------------------------------------------------------------------------
(* What Rust offers and what the service believes *)

\* The only ambiguity of a write that is asked about is one of the write's own
\* paths in the profile.
LEMMA AskedAmbiguity ==
    ASSUME NEW w, IsAsked(w)
    PROVE  LET a == Ambiguity(w) IN
           /\ a = WriteAmbiguity(a.field_path, a.kinds, schema[a.field_path])
           /\ a.field_path \in DOMAIN schema
           /\ a.field_path \in AssignedPaths(w) \cup FilterPaths(w)
<1>1. Detected(w) # {}
  BY FS_EmptySet DEF IsAsked
<1>2. Ambiguity(w) \in Detected(w)
  BY <1>1 DEF Ambiguity
<1>3. PICK path \in AssignedPaths(w) \cup FilterPaths(w) :
        Ambiguity(w) = WriteAmbiguity(path, AmbiguityKinds(schema[path]), schema[path])
  BY <1>2 DEF Detected, detect_write_ambiguities
<1>4. path \in DOMAIN schema
  BY DEF IsAsked, lower_statement
<1>5. QED
  BY <1>3, <1>4 DEF WriteAmbiguity

\* A field path of a profile has one or more segments.
LEMMA ProfiledPath ==
    ASSUME NEW documents \in Samples, NEW path \in DOMAIN infer(documents)
    PROVE  path \in Paths /\ Len(path) >= 1
<1>1. path \in UNION {DOMAIN documents[d] : d \in DOMAIN documents}
  BY DEF infer
<1>2. path \in Paths /\ path # <<>>
  BY <1>1, SamplesAssumption
<1>3. QED
  BY <1>2 DEF Paths

\* The value of the sole assignment is one value.
LEMMA SoleIsOne ==
    ASSUME NEW w \in Plans, NEW path, NEW u \in SoleAssignment(w, path)
    PROVE  /\ SoleAssignment(w, path) = {u}
           /\ path \in AssignedPaths(w)
<1>1. /\ w.kind = "Update" /\ Len(w.assignments) = 1
      /\ w.assignments[1].path = path /\ u = w.assignments[1].value
      /\ SoleAssignment(w, path) = {u}
  BY DEF SoleAssignment
<1>2. IsUpdate(w)
  BY <1>1, PlansAssumption
<1>3. w.assignments \in Seq([path : Paths, value : SqlValues])
  BY <1>2 DEF IsUpdate
<1>4. 1 \in DOMAIN w.assignments
  BY <1>1, <1>3
<1>5. w.assignments[1] \in ToSet(w.assignments)
  BY <1>4 DEF ToSet
<1>6. QED
  BY <1>1, <1>5 DEF AssignedPaths

\* Every candidate but Reject has evidence: a missing nested field, or the sole
\* assignment of a mixed one.
LEMMA Offered ==
    ASSUME NEW w, NEW a, NEW c \in allowed_candidates(w, a)
    PROVE  /\ c \in ResolutionCandidates
           /\ c = "UseNestedPath" => NestedPathIsSafe(a)
           /\ c \in {"KeepString", "ParseIntegerLosslessly"} =>
                 /\ IsMixedIntegerString(a)
                 /\ \E v \in SoleAssignment(w, a.field_path) : v.type = "String"
           /\ c = "ParseIntegerLosslessly" =>
                 \E v \in SoleAssignment(w, a.field_path) : parse_integer_losslessly(v) # {}
           /\ c \in {"KeepInteger", "FormatIntegerAsString"} =>
                 /\ IsMixedIntegerString(a)
                 /\ \E v \in SoleAssignment(w, a.field_path) : v.type = "Integer"
<1>1. c \in ResolutionCandidates
  BY DEF allowed_candidates
<1>2. CASE c = "UseNestedPath"
  BY <1>2 DEF allowed_candidates
<1>3. CASE c = "KeepString"
  BY <1>3 DEF allowed_candidates, mixed_type_assignment_value
<1>4. CASE c = "ParseIntegerLosslessly"
  BY <1>4 DEF allowed_candidates, mixed_type_assignment_value
<1>5. CASE c \in {"KeepInteger", "FormatIntegerAsString"}
  BY <1>5 DEF allowed_candidates, mixed_type_assignment_value
<1>6. CASE c = "Reject"
  BY <1>6, <1>1
<1>7. QED
  BY <1>1, <1>2, <1>3, <1>4, <1>5, <1>6 DEF ResolutionCandidates

\* Rejection is always offered, and an integer for a mixed field in both notations.
LEMMA AlwaysOffered ==
    ASSUME NEW w, NEW a
    PROVE  /\ "Reject" \in allowed_candidates(w, a)
           /\ "FormatIntegerAsString" \in allowed_candidates(w, a) =>
                 "KeepInteger" \in allowed_candidates(w, a)
<1>1. "Reject" \in allowed_candidates(w, a)
  BY DEF allowed_candidates, ResolutionCandidates
<1>2. ASSUME "FormatIntegerAsString" \in allowed_candidates(w, a)
      PROVE  "KeepInteger" \in allowed_candidates(w, a)
  BY <1>2 DEF allowed_candidates, ResolutionCandidates
<1>3. QED
  BY <1>1, <1>2

LEMMA ThreeAtMost ==
    ASSUME NEW x, NEW y, NEW z, NEW S, S \subseteq {x, y, z}, S # {}
    PROVE  IsFiniteSet(S) /\ Cardinality(S) \in 1 .. 3
<1>1. IsFiniteSet({}) /\ Cardinality({}) = 0
  BY FS_EmptySet
<1>2. IsFiniteSet({x}) /\ Cardinality({x}) = 1
  BY FS_Singleton
<1>3. IsFiniteSet({x} \cup {y}) /\ Cardinality({x} \cup {y}) \in 0 .. 2
  BY <1>2, FS_AddElement
<1>4. IsFiniteSet(({x} \cup {y}) \cup {z}) /\ Cardinality(({x} \cup {y}) \cup {z}) \in 0 .. 3
  BY <1>3, FS_AddElement
<1>5. {x, y, z} = ({x} \cup {y}) \cup {z}
  OBVIOUS
<1>6. IsFiniteSet(S) /\ Cardinality(S) =< Cardinality({x, y, z})
  BY <1>4, <1>5, FS_Subset
<1>7. Cardinality(S) \in Nat /\ Cardinality(S) # 0
  BY <1>6, FS_CardinalityType, FS_EmptySet
<1>8. QED
  BY <1>4, <1>5, <1>6, <1>7

LEMMA FewOffered ==
    ASSUME NEW w \in Plans, NEW a
    PROVE  Cardinality(allowed_candidates(w, a)) \in 1 .. 3
<1> DEFINE allowed == allowed_candidates(w, a)
           sole == SoleAssignment(w, a.field_path)
<1>1. allowed # {}
  BY AlwaysOffered
<1>2. ASSUME NEW u \in sole, NEW v \in sole PROVE u = v
  BY <1>2, SoleIsOne
<1>3. IsMixedIntegerString(a) => ~NestedPathIsSafe(a)
  BY DEF IsMixedIntegerString, NestedPathIsSafe
<1>4. \E one, other : allowed \subseteq {"Reject", one, other}
  <2>1. CASE NestedPathIsSafe(a)
    <3>1. allowed \subseteq {"Reject", "UseNestedPath", "UseNestedPath"}
      BY <1>3, <2>1, Offered DEF ResolutionCandidates
    <3>2. QED
      BY <3>1
  <2>2. CASE ~NestedPathIsSafe(a) /\ \E v \in sole : v.type = "String"
    <3>1. ~\E v \in sole : v.type = "Integer"
      BY <1>2, <2>2
    <3>2. allowed \subseteq {"Reject", "KeepString", "ParseIntegerLosslessly"}
      BY <2>2, <3>1, Offered DEF ResolutionCandidates
    <3>3. QED
      BY <3>2
  <2>3. CASE ~NestedPathIsSafe(a) /\ ~\E v \in sole : v.type = "String"
    <3>1. allowed \subseteq {"Reject", "KeepInteger", "FormatIntegerAsString"}
      BY <2>3, Offered DEF ResolutionCandidates
    <3>2. QED
      BY <3>1
  <2>4. QED
    BY <2>1, <2>2, <2>3
<1>5. QED
  BY <1>1, <1>4, ThreeAtMost

\* The service takes every request but the refusable ones: it finds for each
\* candidate the evidence on which Rust offered it.
LEMMA TakenUnlessRefusable ==
    ASSUME NEW documents \in Samples, schema = infer(documents), NEW w \in Plans, IsAsked(w),
           ~Refusable(w)
    PROVE  AmbiguityRequest(w)
<1> DEFINE a == Ambiguity(w)
           allowed == allowed_candidates(w, a)
<1>1. Request(w).target_path = a.field_path /\ Request(w).allowed_candidates = allowed
  BY DEF Request, resolver_request
<1>2. a.field_path \in Paths /\ Len(a.field_path) \in Nat /\ Len(a.field_path) >= 1
  BY AskedAmbiguity, ProfiledPath DEF Paths
<1>3. /\ ~IsNestedMixed(w)
      /\ ~HasLongPreview(w)
      /\ ~(Len(a.field_path) > 64)
      /\ ToSet(a.field_path) \cap RefusedSegments = {}
  BY DEF Refusable, HasUnusualPath
<1>4. CandidatesBelieved(Request(w), a)
  <2>1. "UseNestedPath" \in allowed => NestedPathIsSafe(a)
    BY Offered
  <2>2. allowed \cap TypeCandidates # {} => IsMixedIntegerString(a)
    BY Offered DEF TypeCandidates
  <2>3. IsMixedIntegerString(a) => Len(a.field_path) = 1
    <3> DEFINE n == Len(a.field_path)
    <3>1. IsMixedIntegerString(a) => ~(n > 1)
      BY <1>3 DEF IsNestedMixed
    <3>2. n \in Nat /\ n >= 1
      BY <1>2
    <3> HIDE DEF n
    <3>3. IsMixedIntegerString(a) => n = 1
      BY <3>1, <3>2
    <3>4. QED
      BY <3>3 DEF n
  <2>4. QED
    BY <1>1, <2>1, <2>2, <2>3 DEF CandidatesBelieved, NestedPathIsSafe, IsMixedIntegerString
<1>5. Cardinality(allowed) \in 1 .. 3 /\ "Reject" \in allowed
  BY FewOffered, AlwaysOffered
<1>6. \A value \in write_value_evidence(w) : ~PreviewTooLong(value)
  BY <1>3 DEF HasLongPreview
<1>7. Len(a.field_path) \in 1 .. 64
  <2> DEFINE n == Len(a.field_path)
  <2>1. n \in Nat /\ n >= 1 /\ ~(n > 64)
    BY <1>2, <1>3
  <2> HIDE DEF n
  <2>2. n \in 1 .. 64
    BY <2>1
  <2>3. QED
    BY <2>2 DEF n
<1>8. QED
  BY <1>1, <1>3, <1>4, <1>5, <1>6, <1>7 DEF AmbiguityRequest

\* The local advisor takes an offered candidate, and Reject only for want of any other.
LEMMA PreferenceIsOffered ==
    ASSUME NEW w, NEW a
    PROVE  LET allowed == allowed_candidates(w, a)
               preferred == PreferredCandidate(allowed)
           IN  /\ preferred \in allowed
               /\ preferred \in {"Reject", "KeepInteger", "ParseIntegerLosslessly", "KeepString",
                                 "UseNestedPath"}
               /\ has_executable_candidate(allowed) => preferred # "Reject"
<1> DEFINE allowed == allowed_candidates(w, a)
           order == <<"KeepInteger", "ParseIntegerLosslessly", "KeepString", "UseNestedPath">>
           offered == {i \in DOMAIN order : order[i] \in allowed}
<1>1. offered \subseteq 1 .. 4
  OBVIOUS
<1>2. offered # {} => \E i \in offered : \A j \in offered : i =< j
  <2>1. CASE 1 \in offered
    BY <1>1, <2>1
  <2>2. CASE 1 \notin offered /\ 2 \in offered
    BY <1>1, <2>2
  <2>3. CASE 1 \notin offered /\ 2 \notin offered /\ 3 \in offered
    BY <1>1, <2>3
  <2>4. CASE 1 \notin offered /\ 2 \notin offered /\ 3 \notin offered
    BY <1>1, <2>4
  <2>5. QED
    BY <2>1, <2>2, <2>3, <2>4
<1>3. offered # {} => Min(offered) \in offered
  BY <1>2 DEF Min
<1>4. CASE offered # {}
  <2>1. PreferredCandidate(allowed) = order[Min(offered)]
    BY <1>4 DEF PreferredCandidate
  <2>2. QED
    BY <1>3, <1>4, <2>1
<1>5. CASE offered = {}
  <2>1. PreferredCandidate(allowed) = "Reject"
    BY <1>5 DEF PreferredCandidate
  <2>2. \A i \in 1 .. 4 : order[i] \notin allowed
    BY <1>5
  <2>3. /\ "KeepInteger" \notin allowed /\ "ParseIntegerLosslessly" \notin allowed
        /\ "KeepString" \notin allowed /\ "UseNestedPath" \notin allowed
    BY <2>2
  <2>4. allowed \subseteq {"Reject"}
    BY <2>3, AlwaysOffered, Offered DEF ResolutionCandidates
  <2>5. QED
    BY <2>1, <2>4, AlwaysOffered DEF has_executable_candidate
<1>6. QED
  BY <1>4, <1>5

-----------------------------------------------------------------------------
(* The call as a whole *)

\* The local advisor's answer is an answer of the contract, which the service and
\* Rust both accept.
LEMMA LocalAnswerIsGood ==
    ASSUME NEW w \in Plans, AmbiguityRequest(w)
    PROVE  IsRecommended(DeterministicAdvisor(Request(w)), w)
<1> DEFINE answer == DeterministicAdvisor(Request(w))
<1>1. /\ answer.contract_version = RESOLUTION_CONTRACT_VERSION
      /\ answer.schema_profile_version = Request(w).schema_profile_version
      /\ answer.operation = Request(w).operation
      /\ answer.target_path = Request(w).target_path
      /\ answer.candidate = PreferredCandidate(Request(w).allowed_candidates)
      /\ answer.confidence = [neg |-> FALSE, bp |-> FullConfidence]
      /\ answer.rationale.chars = 50
  BY DEF DeterministicAdvisor
<1>2. Request(w).schema_profile_version = 1
  BY DEF Request, resolver_request, profile_version
<1>3. Request(w).allowed_candidates = allowed_candidates(w, Ambiguity(w))
  BY DEF Request, resolver_request
<1>4. answer.candidate \in Request(w).allowed_candidates
  BY <1>1, <1>3, PreferenceIsOffered
<1>5. Request(w).target_path # <<>>
  <2> DEFINE n == Len(Request(w).target_path)
  <2>1. n \in 1 .. 64
    BY DEF AmbiguityRequest
  <2> HIDE DEF n
  <2>2. n # 0
    BY <2>1
  <2>3. Len(<<>>) = 0
    OBVIOUS
  <2>4. QED
    BY <2>2, <2>3, Zenon DEF n
<1>6. Ratio(answer.confidence) \in 0 .. FullConfidence
  BY <1>1 DEF Ratio, FullConfidence
<1>7. QED
  <2> HIDE DEF answer
  <2>1. AmbiguityResponse(answer)
    BY <1>1, <1>2, <1>5, <1>6 DEF AmbiguityResponse
  <2>2. validate_recommendation(Request(w), answer)
    BY <1>1, <1>4 DEF validate_recommendation
  <2>3. QED
    BY <2>1, <2>2 DEF IsRecommended, answer

\* What the local advisor prefers can be applied, when the write assigns the path.
LEMMA PreferenceApplies ==
    ASSUME NEW w \in Plans, IsAsked(w), Ambiguity(w).field_path \in AssignedPaths(w)
    PROVE  CandidateApplies(w, Request(w).target_path,
                            PreferredCandidate(Request(w).allowed_candidates))
<1> DEFINE a == Ambiguity(w)
           allowed == allowed_candidates(w, a)
           c == PreferredCandidate(allowed)
<1>1. Request(w).target_path = a.field_path /\ Request(w).allowed_candidates = allowed
  BY DEF Request, resolver_request
<1>2. /\ c \in allowed
      /\ c \in {"KeepInteger", "ParseIntegerLosslessly", "KeepString", "UseNestedPath"}
  BY <1>1, PreferenceIsOffered DEF IsAsked
<1> HIDE DEF c
<1> SUFFICES CandidateApplies(w, a.field_path, c)
  BY <1>1 DEF c
<1>3. CASE c = "UseNestedPath"
  BY <1>2, <1>3, Offered DEF CandidateApplies, NestedPathIsSafe
<1>4. CASE c # "UseNestedPath"
  <2>1. IsMixedIntegerString(a)
    BY <1>2, <1>4, Offered
  <2>2. ~is_literal_dotted_key(a.field_path)
    BY <2>1 DEF IsMixedIntegerString
  <2>3. PICK v \in SoleAssignment(w, a.field_path) :
          v.type = IF c = "KeepInteger" THEN "Integer" ELSE "String"
    BY <1>2, <1>4, Offered
  <2>4. c = "ParseIntegerLosslessly" => parse_integer_losslessly(v) # {}
    <3>1. c = "ParseIntegerLosslessly" =>
            \E u \in SoleAssignment(w, a.field_path) : parse_integer_losslessly(u) # {}
      BY <1>2, Offered
    <3>2. \A u \in SoleAssignment(w, a.field_path) : u = v
      BY SoleIsOne
    <3>3. QED
      BY <3>1, <3>2
  <2>5. CASE c = "KeepInteger"
    BY <2>2, <2>3, <2>5 DEF CandidateApplies
  <2>6. CASE c = "KeepString"
    BY <2>2, <2>3, <2>6 DEF CandidateApplies
  <2>7. CASE c = "ParseIntegerLosslessly"
    BY <2>2, <2>3, <2>4, <2>7 DEF CandidateApplies
  <2>8. QED
    BY <1>2, <1>4, <2>5, <2>6, <2>7
<1>5. QED
  BY <1>3, <1>4

\* The write that is held was asked about, the service took or refused its request,
\* and a local service replied with its advisor's answer.
ServiceInv ==
    /\ \E documents \in Samples : schema = infer(documents)
    /\ \A w \in write : w \in Plans /\ IsAsked(w)
    /\ write = {} => service = "idle"
    /\ service = "refused" => \A w \in write : ~AmbiguityRequest(w)
    /\ service \in {"advising", "replied"} => \A w \in write : AmbiguityRequest(w)
    /\ provider.name = "deterministic" /\ service = "replied" =>
          \A w \in write : reply.answer = {DeterministicAdvisor(Request(w))}
    /\ client \in {"unavailable", "invalid", "rejected"} => service \in {"replied", "refused"}
    /\ LocalAdviceResolves

LEMMA ServiceInitially == Init => ServiceInv
BY DEF Init, ServiceInv, LocalAdviceResolves

\* What is computed from the profile stays the same.
LEMMA SameProfile ==
    ASSUME schema' = schema, NEW w
    PROVE  /\ IsAsked(w)' = IsAsked(w)
           /\ AmbiguityRequest(w)' = AmbiguityRequest(w)
           /\ Request(w)' = Request(w)
           /\ Refusable(w)' = Refusable(w)
           /\ Ambiguity(w)' = Ambiguity(w)
<1>1. Detected(w)' = Detected(w)
  BY DEF Detected
<1>2. Ambiguity(w)' = Ambiguity(w)
  BY <1>1 DEF Ambiguity
<1>3. Request(w)' = Request(w)
  BY <1>2 DEF Request
<1>4. write_value_evidence(w)' = write_value_evidence(w)
  BY <1>2 DEF write_value_evidence
<1>5. AmbiguityRequest(w)' = AmbiguityRequest(w)
  BY <1>2, <1>3, <1>4 DEF AmbiguityRequest
<1>6. Refusable(w)' = Refusable(w)
  BY <1>2, <1>4 DEF Refusable, IsNestedMixed, HasLongPreview, HasUnusualPath
<1>7. IsAsked(w)' = IsAsked(w)
  BY <1>1, <1>3 DEF IsAsked
<1>8. QED
  BY <1>2, <1>3, <1>5, <1>6, <1>7

LEMMA RecommendKeepsService ==
    ASSUME ServiceInv, CallInv, TypeOK, service = "advising", NEW w \in write, NEW answer,
           provider.name = "deterministic" => answer = DeterministicAdvisor(Request(w)),
           IF IsRecommended(answer, w) THEN Reply(200, {answer}) ELSE Reply(422, {}),
           service' = "replied"
    PROVE  ServiceInv'
<1>1. UNCHANGED <<schema, provider, write, client>>
  BY DEF Reply
<1>2. w \in Plans /\ AmbiguityRequest(w) /\ \A v \in write : v = w
  BY DEF ServiceInv, CallInv
<1>3. provider.name = "deterministic" => reply'.answer = {DeterministicAdvisor(Request(w))}
  <2>1. SUFFICES ASSUME provider.name = "deterministic"
                 PROVE  reply'.answer = {DeterministicAdvisor(Request(w))}
    OBVIOUS
  <2>2. IsRecommended(answer, w) /\ answer = DeterministicAdvisor(Request(w))
    BY <1>2, <2>1, LocalAnswerIsGood
  <2>3. reply' = [status |-> 200, answer |-> {answer}]
    BY <2>2 DEF Reply
  <2>4. QED
    BY <2>2, <2>3
<1>4. client \notin {"unavailable", "invalid", "rejected"}
  BY DEF ServiceInv
<1>5. \A v \in write' : IsAsked(v)' /\ AmbiguityRequest(v)'
  BY <1>1, SameProfile DEF ServiceInv
<1>6. \A v \in write' : Request(v)' = Request(w)
  BY <1>1, <1>2, SameProfile
<1>7. LocalAdviceResolves'
  BY <1>1, <1>4 DEF LocalAdviceResolves
<1>8. QED
  BY <1>1, <1>3, <1>5, <1>6, <1>7 DEF ServiceInv

\* What the client makes of the reply to a local service's request.
LEMMA ReceiveKeepsService ==
    ASSUME ServiceInv, CallInv, Receive
    PROVE  ServiceInv'
<1>1. /\ UNCHANGED <<schema, provider, write, service, reply>>
      /\ service \in {"replied", "refused"}
  BY DEF Receive
<1>2. PICK w \in write : client' \in Outcome(w, reply.answer)
  BY DEF Receive
<1>3. w \in Plans /\ IsAsked(w) /\ \A v \in write : v = w
  BY DEF ServiceInv, CallInv
<1>4. ASSUME provider.name = "deterministic", client' \in {"unavailable", "invalid", "rejected"}
      PROVE  \/ service = "refused" /\ Refusable(w)
             \/ Ambiguity(w).field_path \notin AssignedPaths(w)
  <2>1. CASE service = "refused"
    BY <1>3, <2>1, TakenUnlessRefusable DEF ServiceInv
  <2>2. CASE service = "replied"
    <3> DEFINE answer == DeterministicAdvisor(Request(w))
    <3>1. reply.answer = {answer} /\ AmbiguityRequest(w)
      BY <1>4, <2>2 DEF ServiceInv
    <3>2. validate_resolver_response(Request(w), Decoded(answer), MinimumConfidence)
      <4>1. IsAnswer(answer) /\ IsRecommended(answer, w)
        BY <1>3, <3>1, AnswersAreAnswers, LocalAnswerIsGood
      <4>2. /\ answer.confidence = [neg |-> FALSE, bp |-> FullConfidence]
            /\ answer.rationale = [chars |-> 50, bytes |-> 50]
        BY DEF DeterministicAdvisor
      <4>3. Ratio(answer.confidence) = FullConfidence
        BY <4>2 DEF Ratio
      <4>4. ~(FullConfidence < MinimumConfidence) /\ ~(answer.rationale.bytes > 500)
        BY <4>2, ServiceAssumption DEF FullConfidence
      <4> HIDE DEF answer
      <4>5. QED
        BY <4>1, <4>3, <4>4, TwoReasons
    <3>3. answer.candidate = PreferredCandidate(Request(w).allowed_candidates)
      BY DEF DeterministicAdvisor
    <3> HIDE DEF answer
    <3>4. ~CandidateApplies(w, Request(w).target_path, answer.candidate)
      BY <1>2, <1>4, <3>1, <3>2 DEF Outcome
    <3>5. QED
      BY <1>3, <3>3, <3>4, PreferenceApplies
  <2>3. QED
    BY <1>1, <2>1, <2>2
<1>5. LocalAdviceResolves'
  <2>1. SUFFICES ASSUME provider'.name = "deterministic",
                        client' \in {"unavailable", "invalid", "rejected"}, NEW v \in write'
                 PROVE  \/ service' = "refused" /\ Refusable(v)'
                        \/ Ambiguity(v)'.field_path \notin AssignedPaths(v)
    BY DEF LocalAdviceResolves
  <2>2. v = w /\ provider.name = "deterministic"
    BY <1>1, <1>3, <2>1
  <2>3. Refusable(v)' = Refusable(v) /\ Ambiguity(v)' = Ambiguity(v)
    BY <1>1, SameProfile
  <2>4. QED
    BY <1>1, <1>4, <2>1, <2>2, <2>3
<1>6. \A v \in write' : IsAsked(v)' = IsAsked(v) /\ AmbiguityRequest(v)' = AmbiguityRequest(v)
                        /\ Request(v)' = Request(v)
  BY <1>1, SameProfile
<1>7. QED
  BY <1>1, <1>5, <1>6 DEF ServiceInv

LEMMA ServiceInductive ==
    ASSUME ServiceInv, CallInv, TypeOK, [Next]_vars
    PROVE  ServiceInv'
<1>1. ASSUME NEW w \in Plans, Ask(w) PROVE ServiceInv'
  <2>1. /\ UNCHANGED <<schema, provider, service, reply>> /\ write' = {w}
        /\ client' = "waiting" /\ IsAsked(w) /\ service = "idle"
    BY <1>1 DEF Ask, CallInv, ServiceInv
  <2>2. IsAsked(w)'
    BY <2>1, SameProfile
  <2>3. LocalAdviceResolves'
    BY <2>1 DEF LocalAdviceResolves
  <2>4. QED
    BY <2>1, <2>2, <2>3 DEF ServiceInv
<1>2. ASSUME UNCHANGED <<schema, provider, write, client>>, service \in {"idle", "advising"},
             write # {},
             service' = "refused" => \A w \in write : ~AmbiguityRequest(w),
             service' \in {"advising", "replied"} => \A w \in write : AmbiguityRequest(w),
             service' = "replied" => provider.name # "deterministic"
      PROVE  ServiceInv'
  <2>1. client \notin {"unavailable", "invalid", "rejected"}
    BY <1>2 DEF ServiceInv
  <2>2. \A w \in write' : IsAsked(w)' = IsAsked(w) /\ AmbiguityRequest(w)' = AmbiguityRequest(w)
    BY <1>2, SameProfile
  <2>3. LocalAdviceResolves'
    BY <1>2, <2>1 DEF LocalAdviceResolves
  <2>4. QED
    BY <1>2, <2>1, <2>2, <2>3 DEF ServiceInv
<1>3. \A v, w \in write : v = w
  BY DEF CallInv
<1>4. CASE RefuseRequest
  BY <1>2, <1>3, <1>4 DEF RefuseRequest, Reply
<1>5. CASE TakeRequest
  BY <1>2, <1>3, <1>5 DEF TakeRequest
<1>6. CASE ProviderFail
  <2>1. provider.name # "deterministic"
    BY <1>6 DEF ProviderFail, ProviderConfigurationError
  <2>2. UNCHANGED <<schema, provider, write, client>> /\ service = "advising" /\ service' = "replied"
    BY <1>6 DEF ProviderFail, Reply
  <2>3. write # {} /\ \A w \in write : AmbiguityRequest(w)
    BY <2>2 DEF ServiceInv
  <2>4. QED
    BY <1>2, <2>1, <2>2, <2>3
<1>7. CASE AdviseLocally
  <2>1. PICK w \in write : Recommend(DeterministicAdvisor(Request(w)))
    BY <1>7 DEF AdviseLocally
  <2> DEFINE answer == DeterministicAdvisor(Request(w))
  <2> HIDE DEF answer
  <2>2. /\ service = "advising" /\ service' = "replied"
        /\ IF IsRecommended(answer, w) THEN Reply(200, {answer}) ELSE Reply(422, {})
    BY <1>3, <1>7, <2>1 DEF AdviseLocally, Recommend, IsRecommended, answer
  <2>3. QED
    BY <2>2, RecommendKeepsService DEF answer
<1>8. CASE AdviseByModel
  <2>1. PICK w \in write, answer \in ModelAnswers : Recommend(AnswerFor(answer, Request(w)))
    BY <1>8 DEF AdviseByModel
  <2> DEFINE said == AnswerFor(answer, Request(w))
  <2> HIDE DEF said
  <2>2. /\ service = "advising" /\ service' = "replied" /\ provider.name # "deterministic"
        /\ IF IsRecommended(said, w) THEN Reply(200, {said}) ELSE Reply(422, {})
    BY <1>3, <1>8, <2>1 DEF AdviseByModel, Recommend, IsRecommended, said
  <2>3. QED
    BY <2>2, RecommendKeepsService
<1>9. CASE Receive
  BY <1>9, ReceiveKeepsService
<1>10. ASSUME UNCHANGED <<schema, provider, write, service, reply>>,
              client' = client \/ client' = "timed_out"
       PROVE  ServiceInv'
  <2>1. \A w \in write' : /\ IsAsked(w)' = IsAsked(w) /\ AmbiguityRequest(w)' = AmbiguityRequest(w)
                          /\ Request(w)' = Request(w) /\ Refusable(w)' = Refusable(w)
                          /\ Ambiguity(w)' = Ambiguity(w)
    BY <1>10, SameProfile
  <2>2. LocalAdviceResolves'
    BY <1>10, <2>1 DEF ServiceInv, LocalAdviceResolves
  <2>3. QED
    BY <1>10, <2>1, <2>2 DEF ServiceInv
<1>11. CASE TimeOut \/ UNCHANGED vars
  BY <1>10, <1>11 DEF TimeOut, vars
<1>12. QED
  BY <1>1, <1>4, <1>5, <1>6, <1>7, <1>8, <1>9, <1>11 DEF Next

LEMMA ServiceInvariant == Spec => []ServiceInv
<1>1. ServiceInv /\ CallInv /\ TypeOK /\ [Next]_vars => ServiceInv'
  BY ServiceInductive
<1>2. QED
  BY <1>1, ServiceInitially, CallInvariant, ServiceIsTyped, PTL DEF Spec

\* For any profile, write and configuration, the service refuses a request of
\* the gate for the three reasons of Refusable only: wherever Rust offers a
\* candidate, the service believes it.
THEOREM RequestsAreTaken == Spec => []OtherRequestsTaken
<1>1. ServiceInv => OtherRequestsTaken
  BY TakenUnlessRefusable DEF ServiceInv, OtherRequestsTaken
<1>2. QED
  BY <1>1, ServiceInvariant, PTL

\* The local advisor settles every write it is asked about whose path is assigned:
\* its choice is offered, passes both validations and applies to the plan.
THEOREM LocalAdviceWorks == Spec => []LocalAdviceResolves
<1>1. ServiceInv => LocalAdviceResolves
  BY DEF ServiceInv
<1>2. QED
  BY <1>1, ServiceInvariant, PTL

=============================================================================
