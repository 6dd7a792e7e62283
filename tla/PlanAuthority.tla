---------------------------- MODULE PlanAuthority ----------------------------
(***************************************************************************)
(* What a turn may do and how a plan says what it does: the policy         *)
(* manifest compiled from a request's grants, execution plans compiled     *)
(* under it, the evidence admitted for a plan's units and the reply        *)
(* rendered from it. Pure operators; CandidateTurn runs them in order.     *)
(*                                                                         *)
(* A capability manifest is the pair of its runtime capability and its     *)
(* use: "weekly_report.send" is [of |-> "weekly_report", use |-> "send"].  *)
(* Each business manifest asks for a read capability of its own, so a      *)
(* request's read grants are the business manifests they open; its action  *)
(* grants are the artifact types it may send.                              *)
(*                                                                         *)
(* A unit of a plan has `products' TRUE when its scope names products, and *)
(* `option' the option of the material pack it asks for.                   *)
(***************************************************************************)
EXTENDS Integers, Sequences, FiniteSets

CONSTANTS
    Options,     \* options of material packs
    NoOption,    \* no option named
    Queries,     \* evidence queries
    NoQuery      \* no evidence query

ASSUME NoOptionIsNone == NoOption \notin Options
ASSUME NoQueryIsNone == NoQuery \notin Queries

Reports == {"weekly_report", "monthly_report"}
Artifacts == {"material_pack"} \cup Reports
ResolveTypes == Artifacts \cup {"sales_mention"}

Manifest(of, use) == [of |-> of, use |-> use]
General(use) == Manifest("general", use)
SalesHandoff == Manifest("sales_mention", "handoff")
CompanyKnowledge == Manifest("document_context", "answer")

Manifests ==
    [of : Artifacts, use : {"send"}] \cup [of : Reports, use : {"product_list"}]
    \cup {SalesHandoff, CompanyKnowledge}
    \cup {General(u) : u \in {"clarification", "abstention", "refusal", "smalltalk",
                              "no_reply", "handoff"}}

-----------------------------------------------------------------------------
(* The policy manifest (manifest_compiler.py). *)

\* _eligible_manifest_refs, _artifact_is_missing
Eligible(request) ==
    {m \in Manifests :
        /\ m.of # "general" => m \in request.reads
        /\ m.use = "send" => m.of \in request.actions
        /\ m = SalesHandoff => request.mentions
        /\ m.of \in Artifacts => m.of \in request.artifacts
        /\ m = General("handoff") => request.scene = "direct"
        /\ request.scene = "direct" => m.of \in {"general", "document_context"}}

AllowedResolves(request) ==
    IF request.scene = "direct" THEN {}
    ELSE {m.of : m \in Eligible(request)} \cap ResolveTypes

AllowedModes(eligible) ==
    {"clarification", "handoff", "no_reply", "refusal", "smalltalk", "unable"}
    \cup (IF \E m \in eligible : m.use = "send" THEN {"action"} ELSE {})
    \cup (IF \E m \in eligible : m.use \in {"product_list", "answer"}
          THEN {"knowledge_answer"} ELSE {})

\* compile_policy_authority_core_v1. What may be sent is what is granted, offered or not.
compile_policy(request) ==
    [scene |-> request.scene,
     eligible |-> Eligible(request),
     modes |-> AllowedModes(Eligible(request)),
     actions |-> IF request.scene = "direct" THEN {} ELSE request.actions,
     mentions |-> request.scene # "direct" /\ request.mentions,
     resolves |-> AllowedResolves(request),
     options |-> request.options]

-----------------------------------------------------------------------------
(* Plans (compiler.py, compiler_units.py, compiler_derivations.py). *)

Answerabilities ==
    {"answer", "send", "clarify", "abstain", "refuse", "handoff", "smalltalk", "no_reply"}

Units ==
    [manifest : Manifests, answerability : Answerabilities,
     option : Options \cup {NoOption}, query : Queries \cup {NoQuery}, products : BOOLEAN]

Unit(manifest, answerability, option, query, products) ==
    [manifest |-> manifest, answerability |-> answerability, option |-> option,
     query |-> query, products |-> products]

\* DeterministicPlanUnitV1: a unit the program makes itself names no scope.
PlainUnit(manifest, answerability) ==
    Unit(manifest, answerability, NoOption, NoQuery, FALSE)

Plan(origin, units) == [origin |-> origin, units |-> units]
ProgramPlan(origin, manifest, answerability) ==
    Plan(origin, <<PlainUnit(manifest, answerability)>>)

\* response_mode_for_answerability_policies
ResponseMode(plan) ==
    LET has(a) == \E i \in DOMAIN plan.units : plan.units[i].answerability = a
    IN CASE has("refuse") -> "refusal"
         [] ~has("refuse") /\ has("send") -> "action"
         [] ~has("refuse") /\ ~has("send") /\ has("clarify") -> "clarification"
         [] OTHER ->
              IF has("answer") THEN "knowledge_answer"
              ELSE IF has("handoff") THEN "handoff"
              ELSE IF has("smalltalk") THEN "smalltalk"
              ELSE IF has("no_reply") THEN "no_reply" ELSE "unable"

\* _sales_fallback_is_allowed
SalesFallback(policy) == "sales_mention" \in policy.resolves /\ policy.mentions

\* The adapter resolves and the action intents of a unit.
ResolvesOf(unit, policy) ==
    ({unit.manifest.of} \cap ResolveTypes)
    \cup (IF unit.answerability = "send" /\ SalesFallback(policy)
          THEN {"sales_mention"} ELSE {})
IntentsOf(unit) ==
    IF unit.answerability = "send" THEN {unit.manifest.of} \cap Artifacts ELSE {}

SendUnits(plan) == {i \in DOMAIN plan.units : IntentsOf(plan.units[i]) # {}}
PlanResolves(plan, policy) ==
    UNION {ResolvesOf(plan.units[i], policy) : i \in DOMAIN plan.units}

\* _finalize_execution_unit_v2
UnitCompiles(unit, policy) ==
    /\ unit.manifest \in policy.eligible
    /\ IntentsOf(unit) \subseteq policy.actions
    /\ unit.answerability = "send" => policy.scene # "direct"

\* finalize_execution_plan_v2 with the bounds of ExecutionPlanV2; the query of a
\* product list is refused of the planner only.
Compiles(plan, policy) ==
    /\ Len(plan.units) \in 1..4
    /\ \A i \in DOMAIN plan.units : UnitCompiles(plan.units[i], policy)
    /\ plan.origin = "planner" =>
        \A i \in DOMAIN plan.units :
            plan.units[i].manifest.use = "product_list" => plan.units[i].query = NoQuery
    /\ Cardinality(SendUnits(plan)) <= 3

\* validate_execution_plan_v2
Admissible(plan, policy) ==
    /\ ResponseMode(plan) \in policy.modes
    /\ \A i \in DOMAIN plan.units :
        /\ plan.units[i].manifest \in policy.eligible
        /\ ResolvesOf(plan.units[i], policy) \subseteq policy.resolves
        /\ IntentsOf(plan.units[i]) \subseteq policy.actions

\* _handoff_result: the plan of a message an input rule matches.
input_policy_plan(policy) ==
    IF policy.scene = "direct"
    THEN ProgramPlan("input_policy", General("handoff"), "handoff")
    ELSE IF SalesHandoff \in policy.eligible /\ SalesFallback(policy)
    THEN ProgramPlan("input_policy", SalesHandoff, "handoff")
    ELSE ProgramPlan("input_policy", General("abstention"), "abstain")

\* match_direct_send_command: the plan of a message that is just an artifact's name.
direct_send_plan(artifact, policy) ==
    IF artifact = "material_pack" /\ policy.options # {}
    THEN ProgramPlan("direct_send", General("clarification"), "clarify")
    ELSE ProgramPlan("direct_send", Manifest(artifact, "send"), "send")

-----------------------------------------------------------------------------
(* Evidence (executor.py, adapter_facts.py, grounding.py). It keeps the    *)
(* units it was collected for: `products' and `documents' are those whose  *)
(* product list and whose company documents were found.                    *)

\* _resolve_types_for_plan_v2
AskedTypes(plan, policy) == PlanResolves(plan, policy) \cap policy.resolves

\* _resolve_material_pack_options_for_plan_v2: of a plan's distinct options, in
\* the order of their first use, the last one is asked for.
AskedOption(plan) ==
    LET names(i) == /\ plan.units[i].manifest.of = "material_pack"
                    /\ plan.units[i].option # NoOption
        firsts == {i \in DOMAIN plan.units :
                    names(i) /\ \A j \in 1..(i - 1) :
                        names(j) => plan.units[j].option # plan.units[i].option}
    IN IF firsts = {} THEN NoOption
       ELSE plan.units[CHOOSE i \in firsts : \A j \in firsts : j <= i].option

\* What a resolve comes back with: "undated" is a report resolved without its
\* period and date, "missing" any other refusal, "failed" no answer at all. An answer that
\* is no fact ends the turn (SourceFails, ResolveRefused).
Statuses(type) ==
    {"resolved", "missing", "failed"}
    \cup (IF type \in Reports THEN {"undated"} ELSE {})
    \cup (IF type = "material_pack" THEN {"ambiguous"} ELSE {})

Evidence(units, preflight, asked, products, documents) ==
    [units |-> units, preflight |-> preflight, asked |-> asked,
     products |-> products, documents |-> documents]

NoEvidence == Evidence(<<>>, <<>>, NoOption, {}, {})

ResolvedIn(evidence, type) ==
    type \in DOMAIN evidence.preflight /\ evidence.preflight[type] \in {"resolved", "undated"}

\* (mutant) Only facts of units of the same capability are admitted.
facts_of_own_capability(evidence, unit, type, policy) ==
    {i \in DOMAIN evidence.units :
        /\ ResolvedIn(evidence, type)
        /\ evidence.units[i].manifest = unit.manifest
        /\ evidence.units[i].products = unit.products}

\* canonical_adapter_facts_v1, canonical_scope_matches_unit_v1: the units whose fact of
\* this resolve a unit admits, its scope being the same but for the option.
FactsFor(evidence, unit, type, policy) ==
    {i \in DOMAIN evidence.units :
        /\ ResolvedIn(evidence, type)
        /\ type \in ResolvesOf(evidence.units[i], policy)
        /\ evidence.units[i].products = unit.products}

\* report_targets
ReportTargets(plan, policy) ==
    {i \in DOMAIN plan.units :
        /\ plan.units[i].answerability = "answer"
        /\ plan.units[i].manifest.use = "product_list"
        /\ plan.units[i].manifest.of \in policy.resolves
        /\ ResponseMode(plan) # "refusal"}

\* knowledge_targets
KnowledgeTargets(plan) == {i \in DOMAIN plan.units : plan.units[i].manifest = CompanyKnowledge}

\* A unit that has evidence to answer from.
Grounded(evidence, unit, policy) ==
    \/ /\ unit.manifest.use \in {"send", "handoff"}
       /\ FactsFor(evidence, unit, unit.manifest.of, policy) # {}
    \/ \E i \in evidence.products \cup evidence.documents :
        /\ evidence.units[i].manifest = unit.manifest
        /\ evidence.units[i].products = unit.products

-----------------------------------------------------------------------------
(* The reply (v2_attempt.py). *)

Reply(kind, actions, mention) == [kind |-> kind, actions |-> actions, mention |-> mention]
Unable == Reply("unable_to_answer", {}, FALSE)
NoReply == Reply("none", {}, FALSE)

\* unit_permission_v1
Permitted(unit, policy) ==
    /\ unit.manifest \in policy.eligible
    /\ ResolvesOf(unit, policy) \subseteq policy.resolves
    /\ IntentsOf(unit) \subseteq policy.actions

\* (mutant) A resolved report needs no date.
sendable_undated(evidence, unit, policy) ==
    /\ unit.manifest.use = "send"
    /\ IntentsOf(unit) # {}
    /\ FactsFor(evidence, unit, unit.manifest.of, policy) # {}

\* _action_from_grounding: a report is sent under its period and date.
Sendable(evidence, unit, policy) ==
    /\ unit.manifest.use = "send"
    /\ IntentsOf(unit) # {}
    /\ FactsFor(evidence, unit, unit.manifest.of, policy) # {}
    /\ evidence.preflight[unit.manifest.of] = "resolved"

\* The action names its unit's option, else that of the first fact admitted; its
\* reference is to what the adapter was asked for.
ActionOf(i, plan, evidence, policy) ==
    LET unit == plan.units[i]
        facts == FactsFor(evidence, unit, unit.manifest.of, policy)
        first == CHOOSE f \in facts : \A g \in facts : f <= g
    IN [unit |-> i, type |-> unit.manifest.of,
        option |-> IF unit.manifest.of # "material_pack" THEN NoOption
                   ELSE IF unit.option # NoOption THEN unit.option
                   ELSE evidence.units[first].option,
        ref |-> IF unit.manifest.of = "material_pack" THEN evidence.asked ELSE NoOption]

\* _action_reply
ActionReply(plan, evidence, policy) ==
    LET ready == {i \in SendUnits(plan) :
                    Permitted(plan.units[i], policy)
                    /\ Sendable(evidence, plan.units[i], policy)}
    IN IF ready = {} THEN Unable
       ELSE Reply("answer", {ActionOf(i, plan, evidence, policy) : i \in ready}, FALSE)

\* _handoff_reply
HandoffReply(plan, evidence, policy) ==
    IF policy.scene = "direct" THEN Reply("human_handoff", {}, FALSE)
    ELSE IF \E i \in DOMAIN plan.units :
                /\ plan.units[i].manifest = SalesHandoff
                /\ Grounded(evidence, plan.units[i], policy)
    THEN Reply("human_handoff", {}, TRUE)
    ELSE Unable

\* _render_v2_response, for the modes that are not composed
RenderedReply(plan, evidence, policy) ==
    LET mode == ResponseMode(plan)
    IN CASE mode = "clarification" -> Reply("clarification", {}, FALSE)
         [] mode = "handoff" -> HandoffReply(plan, evidence, policy)
         [] mode = "no_reply" -> Reply("no_reply", {}, FALSE)
         [] mode = "action" -> ActionReply(plan, evidence, policy)
         [] OTHER -> Unable

\* _compose_v2_response and compose: a product list that is not there, or no evidence
\* at all, is not composed from.
NeedsComposer(plan, evidence, policy) ==
    \/ ResponseMode(plan) = "smalltalk"
    \/ /\ ResponseMode(plan) = "knowledge_answer"
       /\ \A i \in DOMAIN plan.units :
            plan.units[i].manifest.use = "product_list" =>
                Grounded(evidence, plan.units[i], policy)
       /\ \E i \in DOMAIN plan.units : Grounded(evidence, plan.units[i], policy)

\* _validate_v2_reply
Valid(reply, plan, policy) ==
    /\ policy.scene = "direct" => reply.actions = {} /\ ~reply.mention
    /\ ResponseMode(plan) = "action" => reply.actions # {}
    /\ reply.actions # {} => policy.actions # {}
    /\ reply.mention => policy.mentions

\* _material_pack_action_resolution_plan: what becomes of a plan whose only action is
\* a material pack the adapter did not resolve.
NeedsResolution(plan, evidence) ==
    /\ {plan.units[i].manifest.of : i \in SendUnits(plan)} = {"material_pack"}
    /\ Cardinality(SendUnits(plan)) = 1
    /\ evidence.preflight["material_pack"] \in {"ambiguous", "missing"}

\* (mutant) An unresolved pack is handed to sales whoever may be mentioned.
resolution_to_sales(evidence) ==
    IF evidence.preflight["material_pack"] = "ambiguous"
    THEN ProgramPlan("deterministic", General("clarification"), "clarify")
    ELSE ProgramPlan("deterministic", SalesHandoff, "handoff")

ResolutionPlan(evidence) ==
    IF evidence.preflight["material_pack"] = "ambiguous"
    THEN ProgramPlan("deterministic", General("clarification"), "clarify")
    ELSE IF ResolvedIn(evidence, "sales_mention")
    THEN ProgramPlan("deterministic", SalesHandoff, "handoff")
    ELSE ProgramPlan("deterministic", General("abstention"), "abstain")

\* RuntimeAlignmentRemediatorV1.replace
ReplacementPlan(remediation) ==
    IF remediation = "return_clarification"
    THEN ProgramPlan("remediation", General("clarification"), "clarify")
    ELSE ProgramPlan("remediation", General("abstention"), "abstain")
=============================================================================
