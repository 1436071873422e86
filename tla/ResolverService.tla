---------------------------- MODULE ResolverService ----------------------------
(***************************************************************************)
(* The ambiguity resolver service and a call of it                         *)
(* (services/ambiguity-resolver/app: contract.py, main.py, providers.py;   *)
(* crates/resolver-client/src/lib.rs; resolve_single_ambiguity of          *)
(* crates/proxy/src/ambiguity.rs).                                         *)
(*                                                                         *)
(* The policy crate and the service each write down what a request and a   *)
(* response may be, in two languages.  The client waits under a timeout of *)
(* its own; the service goes on and its late reply is dropped.             *)
(*                                                                         *)
(* A rationale is [chars, bytes], its length counted in either way.        *)
(***************************************************************************)
EXTENDS AmbiguityPolicy

CONSTANTS
    Plans,              \* the writes that may need a resolution
    Samples,            \* what schema discovery may have sampled
    Providers,          \* settings of AMBIGUITY_LLM_PROVIDER, with or without its key
    ModelAnswers,       \* the JSON objects a language model may answer with
    LongSegments,       \* the path segments of more than 255 characters
    MinimumConfidence,  \* AMBIGUITY_RESOLVER_MIN_CONFIDENCE, in basis points
    LargestShortFloat   \* a larger number prints in more than 128 digits

ASSUME ServiceAssumption ==
    /\ Providers \subseteq [name : STRING, key : BOOLEAN]
    /\ MinimumConfidence \in 0 .. FullConfidence
    /\ LargestShortFloat \in Nat

\* Discovery builds a path from the keys that lead to a field, one or more.
ASSUME SamplesAssumption ==
    \A documents \in Samples : \A d \in DOMAIN documents :
        DOMAIN documents[d] \subseteq Paths \ {<<>>}

\* Writes are lowered plans, and an INSERT has at least one row.
ASSUME PlansAssumption ==
    \A w \in Plans :
        \/ w.kind = "Insert" /\ IsInsert(w) /\ Len(w.rows) >= 1
        \/ w.kind = "Update" /\ IsUpdate(w)
        \/ w.kind = "Delete" /\ IsDelete(w)

\* A model's object has the fields of the contract, with any values of their
\* types; a character takes at least one byte.
ASSUME ModelAnswersAssumption ==
    \A answer \in ModelAnswers :
        /\ answer \in [contract_version : STRING, schema_profile_version : Int,
                        operation : STRING, target_path : STRING,
                        candidate : ResolutionCandidates,
                        confidence : [neg : BOOLEAN, bp : Nat],
                        rationale : [chars : Nat, bytes : Nat]]
        /\ answer.rationale.bytes >= answer.rationale.chars

VARIABLES
    schema,     \* the profile of the proxy
    provider,   \* what the service is configured with
    write,      \* the write that is held at the gate: at most one
    service,    \* "idle", "advising", "replied", or "refused" the request itself
    reply,      \* its HTTP reply: status, and the answer of a 200
    client      \* "idle", "waiting", or what became of the resolution

vars == <<schema, provider, write, service, reply, client>>

-----------------------------------------------------------------------------
(* The request *)

Detected(w) == detect_write_ambiguities(w, schema)
Ambiguity(w) == CHOOSE a \in Detected(w) : TRUE
Request(w) == resolver_request(w, Ambiguity(w))

\* The gate asks when there is one ambiguity and something to choose.
IsAsked(w) ==
    /\ lower_statement(w, schema)
    /\ Cardinality(Detected(w)) = 1
    /\ has_executable_candidate(Request(w).allowed_candidates)

\* The value of the write at the path: of the first row, of the first assignment.
write_value_evidence(w) ==
    LET path == Ambiguity(w).field_path
        FirstAt(items, At(_)) ==
            {At(i) : i \in {j \in DOMAIN items :
                            items[j] = path /\ \A k \in 1 .. j - 1 : items[k] # path}}
    IN  CASE w.kind = "Insert" ->
                FirstAt(w.columns, LAMBDA i : w.rows[1][i])
          [] w.kind = "Update" ->
                FirstAt([i \in DOMAIN w.assignments |-> w.assignments[i].path],
                        LAMBDA i : w.assignments[i].value)
          [] OTHER -> {}

\* Strings are cut to 128 characters, a number is printed in full.
PreviewTooLong(value) == value.type = "FloatingPoint" /\ value.int > LargestShortFloat

-----------------------------------------------------------------------------
(* contract.py *)

TypeCandidates ==
    {"KeepString", "ParseIntegerLosslessly", "KeepInteger", "FormatIntegerAsString"}

\* The evidence under which each candidate is believed.
CandidatesBelieved(request, ambiguity) ==
    /\ "UseNestedPath" \in request.allowed_candidates =>
          /\ ambiguity.kinds = {"MissingFromSampledDocuments"}
          /\ Len(request.target_path) >= 2
    /\ request.allowed_candidates \cap TypeCandidates # {} =>
          /\ ambiguity.kinds = {"MixedBsonTypes"}
          /\ ambiguity.observed_types = {"Integer", "String"}
          /\ ambiguity.observed_shapes = {"Scalar"}
          /\ ambiguity.missing_documents = 0
          /\ Len(request.target_path) = 1

\* The names that no segment of a path may have.
RefusedSegments == {<<"">>} \cup LongSegments

\* Mutant: at most two candidates are accepted.
AmbiguityRequest_two(w) ==
    /\ Len(Request(w).target_path) \in 1 .. 64
    /\ ToSet(Request(w).target_path) \cap RefusedSegments = {}
    /\ Cardinality(Request(w).allowed_candidates) \in 1 .. 2
    /\ "Reject" \in Request(w).allowed_candidates
    /\ CandidatesBelieved(Request(w), Ambiguity(w))
    /\ \A value \in write_value_evidence(w) : ~PreviewTooLong(value)

\* What the service takes for a request; anything else is answered with 422.
AmbiguityRequest(w) ==
    /\ Len(Request(w).target_path) \in 1 .. 64
    /\ ToSet(Request(w).target_path) \cap RefusedSegments = {}
    /\ Cardinality(Request(w).allowed_candidates) \in 1 .. 3
    /\ "Reject" \in Request(w).allowed_candidates
    /\ CandidatesBelieved(Request(w), Ambiguity(w))
    /\ \A value \in write_value_evidence(w) : ~PreviewTooLong(value)

\* The typed answer that a provider's JSON object must be.
AmbiguityResponse(answer) ==
    /\ answer.contract_version = RESOLUTION_CONTRACT_VERSION
    /\ answer.schema_profile_version >= 1
    /\ answer.target_path # <<>>
    /\ Ratio(answer.confidence) \in 0 .. FullConfidence
    /\ answer.rationale.chars \in 1 .. 500

-----------------------------------------------------------------------------
(* main.py and providers.py *)

\* Mutant: the candidate is not looked up in the allowlist.
validate_recommendation_any(request, answer) ==
    /\ answer.schema_profile_version = request.schema_profile_version
    /\ answer.operation = request.operation
    /\ answer.target_path = request.target_path

validate_recommendation(request, answer) ==
    /\ answer.schema_profile_version = request.schema_profile_version
    /\ answer.operation = request.operation
    /\ answer.target_path = request.target_path
    /\ answer.candidate \in request.allowed_candidates

\* Mutant: a string is parsed whenever there is a candidate for strings.
PreferredCandidate_parses(allowed) ==
    CASE "KeepInteger" \in allowed   -> "KeepInteger"
      [] "KeepString" \in allowed    -> "ParseIntegerLosslessly"
      [] "UseNestedPath" \in allowed -> "UseNestedPath"
      [] OTHER                       -> "Reject"

\* The first of these that is offered, and Reject when none is.
PreferredCandidate(allowed) ==
    LET order == <<"KeepInteger", "ParseIntegerLosslessly", "KeepString", "UseNestedPath">>
        offered == {i \in DOMAIN order : order[i] \in allowed}
    IN  IF offered = {} THEN "Reject" ELSE order[Min(offered)]

DeterministicAdvisor(request) ==
    [contract_version       |-> RESOLUTION_CONTRACT_VERSION,
     schema_profile_version |-> request.schema_profile_version,
     operation              |-> request.operation,
     target_path            |-> request.target_path,
     candidate              |-> PreferredCandidate(request.allowed_candidates),
     confidence             |-> [neg |-> FALSE, bp |-> FullConfidence],
     rationale              |-> [chars |-> 50, bytes |-> 50]]

\* An unknown provider, or one whose key is missing.
ProviderConfigurationError ==
    \/ provider.name \notin {"google", "openai", "deterministic"}
    \/ provider.name # "deterministic" /\ ~provider.key

\* A model echoes the request's fields or names others.
AnswerFor(answer, request) ==
    [answer EXCEPT !.target_path = IF answer.target_path = "same"
                                   THEN request.target_path ELSE << <<"other">> >>,
                   !.operation = IF answer.operation = "same"
                                 THEN request.operation ELSE "other"]

-----------------------------------------------------------------------------

NoReply == [status |-> 0, answer |-> {}]

Init ==
    /\ schema \in {infer(documents) : documents \in Samples}
    /\ provider \in Providers
    /\ write = {}
    /\ service = "idle"
    /\ reply = NoReply
    /\ client = "idle"

\* A write is held at the gate and its request is sent.
Ask(w) ==
    /\ client = "idle"
    /\ IsAsked(w)
    /\ write' = {w}
    /\ client' = "waiting"
    /\ UNCHANGED <<schema, provider, service, reply>>

Reply(status, answers) ==
    /\ reply' = [status |-> status, answer |-> answers]
    /\ UNCHANGED <<schema, provider, write, client>>

\* FastAPI refuses the body.
RefuseRequest ==
    /\ service = "idle"
    /\ \E w \in write : ~AmbiguityRequest(w)
    /\ service' = "refused"
    /\ Reply(422, {})

TakeRequest ==
    /\ service = "idle"
    /\ \E w \in write : AmbiguityRequest(w)
    /\ service' = "advising"
    /\ UNCHANGED <<schema, provider, write, reply, client>>

\* Mutant: the failure of a provider's call is taken for a success.
ProviderFail_swallowed ==
    /\ service = "advising"
    /\ service' = "replied"
    /\ \/ ProviderConfigurationError /\ Reply(503, {})
       \/ provider.name # "deterministic" /\ ~ProviderConfigurationError /\ Reply(200, {})

\* The provider is not configured (503), or its call fails: as _post_json expects
\* (502), with bytes that are no text, a UnicodeDecodeError and so a ValueError
\* (422), or with an error that is caught nowhere: a body cut short, or items of
\* the response that are no objects (FastAPI's 500).
ProviderFail ==
    /\ service = "advising"
    /\ service' = "replied"
    /\ \/ ProviderConfigurationError /\ Reply(503, {})
       \/ /\ provider.name # "deterministic" /\ ~ProviderConfigurationError
          /\ \E status \in {422, 500, 502} : Reply(status, {})

\* A recommendation is returned when it is one and fits the request.
Recommend(answer) ==
    /\ service' = "replied"
    /\ \E w \in write :
          IF AmbiguityResponse(answer) /\ validate_recommendation(Request(w), answer)
          THEN Reply(200, {answer})
          ELSE Reply(422, {})

AdviseLocally ==
    /\ service = "advising"
    /\ provider.name = "deterministic"
    /\ \E w \in write : Recommend(DeterministicAdvisor(Request(w)))

AdviseByModel ==
    /\ service = "advising"
    /\ provider.name # "deterministic"
    /\ ~ProviderConfigurationError
    /\ \E w \in write : \E answer \in ModelAnswers : Recommend(AnswerFor(answer, Request(w)))

\* What the answer is for Rust, which counts the bytes of the rationale.
Decoded(answer) == [answer EXCEPT !.rationale = @.bytes]

\* resolve_single_ambiguity with the client's result.
Outcome(w, answers) ==
    IF answers = {} THEN {"unavailable"}
    ELSE UNION {IF ~validate_resolver_response(Request(w), Decoded(a), MinimumConfidence)
                THEN {"invalid"}
                ELSE IF ~CandidateApplies(w, Request(w).target_path, a.candidate)
                     THEN {"rejected"}
                     ELSE {"resolved"} : a \in answers}

Receive ==
    /\ client = "waiting"
    /\ service \in {"replied", "refused"}
    /\ \E w \in write : client' \in Outcome(w, reply.answer)
    /\ UNCHANGED <<schema, provider, write, service, reply>>

\* The whole-request timeout, or the connection breaks; a reply may still come.
TimeOut ==
    /\ client = "waiting"
    /\ client' = "timed_out"
    /\ UNCHANGED <<schema, provider, write, service, reply>>

Next ==
    \/ \E w \in Plans : Ask(w)
    \/ RefuseRequest \/ TakeRequest \/ ProviderFail \/ AdviseLocally \/ AdviseByModel
    \/ Receive \/ TimeOut

Spec == Init /\ [][Next]_vars

-----------------------------------------------------------------------------
(* Properties *)

\* The types of the state.  A reply has an answer exactly when it is a success:
\* no failure, caught or not, reaches the client as a 200 without a recommendation.
TypeOK ==
    /\ provider \in Providers
    /\ write \subseteq Plans
    /\ service \in {"idle", "advising", "replied", "refused"}
    /\ reply.status \in {0, 200, 422, 500, 502, 503}
    /\ reply.answer # {} <=> reply.status = 200
    /\ client \in {"idle", "waiting", "timed_out", "unavailable", "invalid", "rejected",
                   "resolved"}

\* Three kinds of request that the gate sends and the service refuses: type
\* candidates for a nested field, a number that prints in too many digits, and a
\* path of more than 64 segments, or with an empty one or one of more than 255
\* characters.
IsNestedMixed(w) == IsMixedIntegerString(Ambiguity(w)) /\ Len(Ambiguity(w).field_path) > 1
HasLongPreview(w) == \E value \in write_value_evidence(w) : PreviewTooLong(value)
HasUnusualPath(w) ==
    LET path == Ambiguity(w).field_path
    IN  Len(path) > 64 \/ ToSet(path) \cap RefusedSegments # {}

Refusable(w) == IsNestedMixed(w) \/ HasLongPreview(w) \/ HasUnusualPath(w)

\* Every other request of the gate is taken: the allowlists that Rust computes
\* and the ones that the service believes are otherwise the same.
OtherRequestsTaken ==
    service = "refused" =>
        \A w \in write : Refusable(w)

\* An answer of the service passes Rust's own validation of it, whatever the
\* model said, unless its confidence is below the configured minimum or its
\* rationale is longer in bytes than in characters.
AnswersPassTwice ==
    client = "invalid" =>
        \A answer \in reply.answer :
            Ratio(answer.confidence) < MinimumConfidence \/ answer.rationale.bytes > 500

\* The local advisor resolves every write it is asked about, unless the path is
\* only in the filter: its choice is offered, accepted and applicable.
LocalAdviceResolves ==
    provider.name = "deterministic" /\ client \in {"unavailable", "invalid", "rejected"} =>
        \A w \in write :
            \/ service = "refused" /\ Refusable(w)
            \/ Ambiguity(w).field_path \notin AssignedPaths(w)

=============================================================================
