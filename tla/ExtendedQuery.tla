----------------------------- MODULE ExtendedQuery -----------------------------
(***************************************************************************)
(* A session of the wire protocol: simple queries, and statements that are *)
(* prepared, described, bound to a portal and executed                     *)
(* (crates/proxy/src/lib.rs).  What comes out is the plan handed to        *)
(* execute_plan, where WriteGate begins.                                   *)
(*                                                                         *)
(* A text is [catalog, plan]: whether it holds one of the catalog or       *)
(* session markers, anywhere, and the plan it parses to (or NoPlan).       *)
(* The named stores are those of the pgwire library: preparing a name      *)
(* again replaces the statement, and a portal keeps the one it was bound   *)
(* to.  Requests that fail leave the stores as they were.                  *)
(***************************************************************************)
EXTENDS Parameters

CONSTANTS
    Documents,   \* what discovery sampled
    Texts,       \* statements a client may send
    TypeLists,   \* parameter types a client may declare
    Supplies,    \* parameters a client may supply, with their format codes
    Names,       \* statement names
    Portals      \* portal names

NoPlan == [kind |-> "None"]

\* Discovery knows no other types of values.
ASSUME DocumentsAssumption ==
    \A d \in DOMAIN Documents : \A path \in DOMAIN Documents[d] :
        Documents[d][path].type \in ObservedTypes

ASSUME TextsAssumption ==
    \A text \in Texts :
        /\ text = [catalog |-> text.catalog, plan |-> text.plan]
        /\ text.catalog \in BOOLEAN
        /\ text.plan = NoPlan => text.catalog

\* Plans are those of the four statements, and hold finitely many values.
ASSUME PlansAssumption ==
    \A plan \in {text.plan : text \in Texts} \ {NoPlan} :
        /\ \/ plan.kind = "Insert" /\ IsInsert(plan)
           \/ plan.kind = "Update" /\ IsUpdate(plan)
           \/ plan.kind = "Delete" /\ IsDelete(plan)
           \/ /\ plan = [kind |-> "Select", filter |-> plan.filter]
              /\ plan.filter = {} \/ IsFilter(plan.filter)
        /\ IsFiniteSet(AssignedSites(plan) \cup ComparedSites(plan))

VARIABLES
    statements, \* name -> stored statements: at most one
    portals,    \* name -> portals: at most one
    reply       \* the last request and its answer

vars == <<statements, portals, reply>>

schema == infer(Documents)

Lowers(text) == text.plan # NoPlan /\ lower(text.plan, schema)

\* The answer: an error, rows of the proxy's own making, or a plan for
\* execute_plan, whose result is rows for a SELECT and a command tag otherwise.
Nothing == [result |-> "none", plan |-> NoPlan]
Refused == [result |-> "error", plan |-> NoPlan]
CatalogRows == [result |-> "catalog", plan |-> NoPlan]
HandedOver(plan) == [result |-> "executed", plan |-> plan]

\* The last request besides its answer: the portal or the text it executed.
Reply(answer, portal, text) == [answer |-> answer, portal |-> portal, text |-> text]

-----------------------------------------------------------------------------

Init ==
    /\ statements = [n \in Names |-> {}]
    /\ portals = [p \in Portals |-> {}]
    /\ reply = Reply(Nothing, {}, {})

\* The announced types, or none on an error.
prepare_statement(text, requested) ==
    IF text.catalog THEN {t \in {<<>>} : requested = <<>>}
    ELSE UNION {reconcile_parameter_types(requested, inferred) :
                   inferred \in UNION {infer_parameter_types(x.plan, schema) :
                                          x \in {y \in {text} : Lowers(y)}}}

\* Profiles do not change while the process runs, and neither does the outcome.
AnnouncedTypes ==
    [text \in Texts |-> [requested \in TypeLists |-> prepare_statement(text, requested)]]

Parse(n, text, requested) ==
    /\ \E types \in AnnouncedTypes[text][requested] :
          statements' = [statements EXCEPT ![n] =
                            {[text |-> text, parameter_types |-> types]}]
    /\ reply' = Reply(Nothing, {}, {})
    /\ UNCHANGED portals

ParseRefused(n, text, requested) ==
    /\ AnnouncedTypes[text][requested] = {}
    /\ reply' = Reply(Refused, {}, {})
    /\ UNCHANGED <<statements, portals>>

\* Mutant: only plans are described.
describe_plans(text) ==
    IF text.plan.kind = "Select" \/ text.plan = NoPlan THEN "rows" ELSE "nothing"

\* Whether a statement, or a portal of it, is said to return rows.
describe(text) ==
    IF text.catalog \/ text.plan.kind = "Select" THEN "rows" ELSE "nothing"

Bind(p, n, supply) ==
    /\ \E stored \in statements[n] :
          portals' = [portals EXCEPT ![p] =
                         {[statement |-> stored, values |-> supply.values, codes |-> supply.codes]}]
    /\ reply' = Reply(Nothing, {}, {})
    /\ UNCHANGED statements

PortalValues(portal) ==
    portal_parameters(portal.statement.parameter_types, portal.values, portal.codes)

\* execute_bound: the text is looked at and lowered again, then bound.
execute_bound(text, parameters) ==
    IF text.catalog
    THEN IF parameters = <<>> THEN CatalogRows ELSE Refused
    ELSE IF Lowers(text) /\ bind_parameters(text.plan, parameters, schema) # {}
         THEN HandedOver(CHOOSE plan \in bind_parameters(text.plan, parameters, schema) : TRUE)
         ELSE Refused

Execute(p) ==
    /\ \E portal \in portals[p] :
          LET answers == {execute_bound(portal.statement.text, parameters) :
                             parameters \in PortalValues(portal)}
          IN  \E answer \in IF answers = {} THEN {Refused} ELSE answers :
                 reply' = Reply(answer, {portal}, {portal.statement.text})
    /\ UNCHANGED <<statements, portals>>

\* A simple query is neither prepared nor bound.
SimpleQuery(text) ==
    /\ LET answer == IF text.catalog THEN CatalogRows
                     ELSE IF Lowers(text) THEN HandedOver(text.plan) ELSE Refused
       IN  reply' = Reply(answer, {}, {text})
    /\ UNCHANGED <<statements, portals>>

Next ==
    \/ \E n \in Names, text \in Texts, requested \in TypeLists :
          Parse(n, text, requested) \/ ParseRefused(n, text, requested)
    \/ \E p \in Portals, n \in Names, supply \in Supplies : Bind(p, n, supply)
    \/ \E p \in Portals : Execute(p)
    \/ \E text \in Texts : SimpleQuery(text)

Spec == Init /\ [][Next]_vars

-----------------------------------------------------------------------------
(* Properties *)

PreparedStatements ==
    (UNION {statements[n] : n \in Names})
        \cup {portal.statement : portal \in UNION {portals[p] : p \in Portals}}

\* Stores hold at most one item per name, and every announced type is one that
\* decode_parameter knows.
SessionTypeOK ==
    /\ \A n \in Names : Cardinality(statements[n]) =< 1
    /\ \A p \in Portals : Cardinality(portals[p]) =< 1
    /\ \A stored \in PreparedStatements : stored.parameter_types \in Seq(DecodableTypes)
    /\ reply.answer.result \in {"none", "error", "catalog", "executed"}

\* binding.rs: bound values get the same validation as literals.  A portal whose
\* values decode hands over its plan exactly when lowering accepts the plan with
\* the decoded values written in place of the placeholders, and then that plan.
BoundLikeLiterals ==
    \A portal \in reply.portal : \A parameters \in PortalValues(portal) :
        ~portal.statement.text.catalog =>
            LET literal == bind_plan(portal.statement.text.plan, parameters)
            IN  reply.answer = IF lower(literal, schema) THEN HandedOver(literal) ELSE Refused

\* The positions of parameters that a comparison uses.
ComparedIndexes(plan) ==
    {site.value.int : site \in {s \in ComparedSites(plan) : s.value.type = "Placeholder"}}

\* The announced types are enough: values that decode under them, as many as
\* were announced and none NULL where a comparison needs it, are never refused.
AnnouncedTypesSuffice ==
    \A portal \in reply.portal :
        /\ PortalValues(portal) # {}
        /\ \/ portal.statement.text.catalog
           \/ \A i \in ComparedIndexes(portal.statement.text.plan) :
                 portal.values[i] # NullParameter
        => reply.answer # Refused

\* do_describe_statement and do_describe_portal look at the text and at nothing
\* else: a statement returns rows exactly when a client was told so, also when
\* its text only mentions a catalog view.
DescribedAsExecuted ==
    \A portal \in reply.portal :
        reply.answer # Refused =>
            (describe(portal.statement.text) = "rows")
                = (reply.answer = CatalogRows \/ reply.answer.plan.kind = "Select")

\* docs/WRITE_SEMANTICS.md:24: "`INSERT` reports the count of inserted IDs
\* returned by MongoDB": an INSERT that is answered without error was executed.
InsertsAreExecuted ==
    \A text \in reply.text :
        text.plan.kind = "Insert" /\ reply.answer # Refused => reply.answer.result = "executed"

=============================================================================
