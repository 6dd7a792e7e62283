------------------------------- MODULE Grounding -------------------------------
(***************************************************************************)
(* What the units of a plan are answered from: the facts that were         *)
(* collected, those a unit's evidence contract admits, the unit's business *)
(* facts, and the reply rendered or composed from them. PlanAuthority says *)
(* the same of evidence as a whole, knowing of every unit only whether     *)
(* something was found for it; here it is kept beside the facts.           *)
(*                                                                         *)
(* A fact is the whole of what its evidence id is a digest of. Its record  *)
(* is a set of strings: a resolve type, a document, or the images of the   *)
(* approved entry. Of its scope the conversation's part is the same for    *)
(* all facts of a turn and is left out. Of the order of a turn's facts,    *)
(* which is that of the plan's units, what is read is which fact of a kind *)
(* is the first: every fact is kept with its place.                        *)
(***************************************************************************)
EXTENDS PlanAuthority

CONSTANTS
    Grants,          \* requests
    UnitLists,       \* the units of a plan
    KnownDocuments,  \* documents of the Document MCP server
    EntryImages,     \* images the approved entry's answer may show
    MaxUnitFacts     \* the facts a unit may have

\* A direct conversation has no business scope and with it no artifact to choose from
\* (ConversationIdentityV1).
ASSUME GroundingAssumption ==
    /\ MaxUnitFacts \in Nat
    /\ \A request \in Grants : request.scene = "direct" => request.options = {}
    /\ UnitLists \subseteq Seq(Units)

VARIABLES
    step,
    turnPolicy, turnPlan,
    collected,        \* the preflight, and for which units something was found
    canonicalFacts,   \* the facts, with their places
    resolveBindings, mediaBindings,
    groundings,
    candidateReply

groundingVars == <<step, turnPolicy, turnPlan, collected, canonicalFacts, resolveBindings,
                   mediaBindings, groundings, candidateReply>>

\* A reply, the facts it cites and the images it shows.
Candidate(reply, cited, shown) == [reply |-> reply, cited |-> cited, shown |-> shown]

\* validate_direct_policy_authority: the one policy a direct conversation may have.
DirectCeiling(knows) ==
    LET eligible == {General(u) : u \in {"clarification", "abstention", "refusal", "smalltalk",
                                          "no_reply", "handoff"}}
                    \cup (IF knows THEN {CompanyKnowledge} ELSE {})
    IN [scene |-> "direct", eligible |-> eligible, actions |-> {}, mentions |-> FALSE,
        resolves |-> {}, options |-> {},
        modes |-> {"clarification", "handoff", "no_reply", "refusal", "smalltalk", "unable"}
                  \cup (IF knows THEN {"knowledge_answer"} ELSE {})]

NoTurnPolicy == [scene |-> "none"]

GroundingInit ==
    /\ step = "idle"
    /\ turnPolicy = NoTurnPolicy
    /\ turnPlan = Plan("none", <<>>)
    /\ collected = NoEvidence
    /\ canonicalFacts = <<>> /\ resolveBindings = {} /\ mediaBindings = {}
    /\ groundings = <<>>
    /\ candidateReply = Candidate(NoReply, {}, {})

\* A request's policy is compiled, and a plan under it; nothing is in the scope of a direct
\* conversation's units.
BeginGrounding(request, units) ==
    /\ step = "idle"
    /\ turnPolicy' = compile_policy(request)
    /\ turnPlan' = Plan("planner", units)
    /\ Compiles(turnPlan', turnPolicy') /\ Admissible(turnPlan', turnPolicy')
    /\ request.scene = "direct" => \A i \in DOMAIN units : ~units[i].products
    /\ step' = "evidence"
    /\ UNCHANGED <<collected, canonicalFacts, resolveBindings, mediaBindings, groundings,
                   candidateReply>>

-----------------------------------------------------------------------------
(* Facts (canonical_models.py, adapter_facts.py). *)

EvidenceFact(kind, source, artifact, record, products, option) ==
    [kind |-> kind, source |-> source, artifact |-> artifact, record |-> record,
     products |-> products, option |-> option]

\* canonical_artifact_type_for_resolve
ArtifactOf(type) == IF type = "sales_mention" THEN "adapter_context" ELSE type

\* canonical_scope_for_unit_v1, canonical_resolvable_fact_type
AdapterFact(unit, type) ==
    EvidenceFact("resolvable", "adapter_resolve", ArtifactOf(type), {type}, unit.products,
                 unit.option)

\* canonical_adapter_facts_v1: the facts of a unit, and those of a plan, each with the
\* first unit it is a fact of.
AdapterFactsOf(unit, policy, evidence) ==
    {AdapterFact(unit, t) : t \in {t \in ResolvesOf(unit, policy) : ResolvedIn(evidence, t)}}
AdapterFacts(plan, policy, evidence) ==
    LET made(i) == AdapterFactsOf(plan.units[i], policy, evidence)
    IN [f \in UNION {made(i) : i \in DOMAIN plan.units} |->
            CHOOSE i \in DOMAIN plan.units : f \in made(i) /\ \A j \in 1..(i - 1) : f \notin made(j)]

\* Facts of equal evidence ids are one; those that are not the adapter's come after its own
\* (deduplicate_knowledge_result).
Canonical(adapter, others, plan) ==
    [f \in DOMAIN adapter \cup others |->
        IF f \in DOMAIN adapter THEN adapter[f] ELSE Len(plan.units) + 1]

\* CanonicalResolveBindingV1: a pack's reference is to the option asked for.
ResolveBinding(fact, evidence) ==
    LET type == CHOOSE t \in ResolveTypes : fact.record = {t}
    IN [fact |-> fact,
        ref |-> IF type = "material_pack" THEN evidence.asked ELSE NoOption,
        dated |-> evidence.preflight[type] = "resolved"]

\* What is read of a report.
Readings == {"listed", "summarized", "unread"}

\* summary_fact, products_fact, unavailable_fact
ReportFacts(unit, reading) ==
    LET kinds == CASE reading = "listed" -> {"report_scope_summary", "report_scope_products"}
                   [] reading = "summarized" -> {"report_scope_summary",
                                                 "report_scope_unavailable"}
                   [] reading = "unread" -> {"report_scope_unavailable"}
    IN {EvidenceFact(k, "adapter_report_scope", unit.manifest.of, {unit.manifest.of},
                     unit.products, NoOption) : k \in kinds}

KnowledgeFact(unit, source, record) ==
    EvidenceFact("document_context", source, "document_context", record, unit.products,
                 unit.option)

\* What a query finds: documents, and an answer of the entry with the images it shows, which
\* a direct conversation does not get with any.
Finds(policy) ==
    [documents : SUBSET KnownDocuments,
     answers : SUBSET {i \in SUBSET EntryImages : policy.scene = "direct" => i = {}}]
OneAnswer(find) == Cardinality(find.answers) <= 1

DocumentFacts(unit, find) ==
    {KnowledgeFact(unit, "document_mcp", {d}) : d \in find.documents}
AnswerFacts(unit, find) ==
    {KnowledgeFact(unit, "approved_static_knowledge", i) : i \in find.answers}

\* RegisteredMediaBindingV1
MediaBindings(facts) == UNION {{[fact |-> f, image |-> i] : i \in f.record} : f \in facts}

\* knowledge_targets with a query (evidence_query_for_unit)
Queried(plan) == {i \in KnowledgeTargets(plan) : plan.units[i].query # NoQuery}

-----------------------------------------------------------------------------
(* Grounding (admission.py, requirements.py, grounding.py). *)

\* What a capability's evidence contract allows; it requires all of that. History, age and
\* citations are restricted by none.
Contract(manifest) ==
    CASE manifest.use = "send" ->
            [kinds |-> {"resolvable"}, sources |-> {"adapter_resolve"},
             artifacts |-> {manifest.of}]
      [] manifest = SalesHandoff ->
            [kinds |-> {"resolvable"}, sources |-> {"adapter_resolve"},
             artifacts |-> {"adapter_context"}]
      [] manifest.use = "product_list" ->
            [kinds |-> {"report_scope_products"}, sources |-> {"adapter_report_scope"},
             artifacts |-> {manifest.of}]
      [] manifest = CompanyKnowledge ->
            [kinds |-> {"document_context"},
             sources |-> {"document_mcp", "approved_static_knowledge"},
             artifacts |-> {"document_context"}]
      [] manifest.of = "general" -> [kinds |-> {}, sources |-> {}, artifacts |-> {}]

\* canonical_scope_matches_unit_v1
SameScope(fact, unit) == fact.products = unit.products

\* (mutant) What was found for some products is told of others.
any_scope(fact, unit) ==
    /\ fact.kind \in Contract(unit.manifest).kinds
    /\ fact.source \in Contract(unit.manifest).sources
    /\ fact.artifact \in Contract(unit.manifest).artifacts

\* canonical_fact_admitted_for_unit_v1
AdmittedFor(fact, unit) ==
    /\ fact.kind \in Contract(unit.manifest).kinds
    /\ fact.source \in Contract(unit.manifest).sources
    /\ fact.artifact \in Contract(unit.manifest).artifacts
    /\ SameScope(fact, unit)

\* canonical_evidence_requirements_satisfied_v1
Satisfied(facts, manifest) ==
    /\ Contract(manifest).kinds \subseteq {f.kind : f \in facts}
    /\ Contract(manifest).artifacts \subseteq {f.artifact : f \in facts}

AllowedEvidence(unit, facts) ==
    LET admitted == {f \in facts : AdmittedFor(f, unit)}
    IN IF Satisfied(admitted, unit.manifest) THEN admitted ELSE {}

\* BusinessFactsContractError: more facts than a unit may have.
TooManyFacts(plan, facts) ==
    \E i \in DOMAIN plan.units : Cardinality(AllowedEvidence(plan.units[i], facts)) > MaxUnitFacts

\* resolve_declared_or_admitted_v1
Declared(unit, type, policy) ==
    \/ type \in ResolvesOf(unit, policy)
    \/ /\ "resolvable" \in Contract(unit.manifest).kinds
       /\ ArtifactOf(type) \in Contract(unit.manifest).artifacts

\* _first_resolvable_fact_v1
ResolvableFacts(facts, type) == {f \in facts : f.kind = "resolvable" /\ f.record = {type}}
FirstFact(facts, places) == CHOOSE f \in facts : \A g \in facts : places[f] <= places[g]

\* validated_resolve_bindings_v1: a fact has one.
BindingOf(fact, bindings) == CHOOSE b \in bindings : b.fact = fact

UnknownState == [available |-> FALSE, option |-> NoOption, ref |-> NoOption, dated |-> FALSE]

\* unit_resolvable_state_v1, unit_report_state_v1: that of the first fact there is. A report's
\* summary, which would say more, is admitted by no contract.
ResolvableState(unit, type, facts, places, bindings, policy) ==
    LET own == ResolvableFacts(facts, type)
        first == FirstFact(own, places)
        binding == BindingOf(first, bindings)
    IN IF own = {} \/ ~Declared(unit, type, policy) THEN UnknownState
       ELSE [available |-> TRUE,
             option |-> IF type = "material_pack" THEN first.option ELSE NoOption,
             ref |-> binding.ref, dated |-> binding.dated]

\* derive_unit_business_facts_v1
BusinessFacts(unit, facts, places, bindings, policy) ==
    [states |-> [t \in ResolveTypes |->
                    ResolvableState(unit, t, facts, places, bindings, policy)],
     allowed |-> Permitted(unit, policy)]

\* _ground_execution_unit_v2
UnitGrounding(unit, policy, places, bindings) ==
    LET allowed == AllowedEvidence(unit, DOMAIN places)
    IN [unit |-> unit, facts |-> allowed,
        business |-> BusinessFacts(unit, allowed, places,
                                   {b \in bindings : b.fact \in allowed}, policy)]

\* ground_execution_plan_v2
Ground(plan, policy, places, bindings) ==
    [i \in DOMAIN plan.units |-> UnitGrounding(plan.units[i], policy, places, bindings)]

\* A unit's part of validate_grounding_plan_binding_v1 and of the same check of every view
\* of the groundings.
BoundTo(grounding, unit) == grounding.unit = unit

\* validate_grounding_plan_binding_v1
GroundingsBound ==
    /\ DOMAIN groundings = DOMAIN turnPlan.units
    /\ \A i \in DOMAIN groundings : BoundTo(groundings[i], turnPlan.units[i])

\* execute_v2
Collect ==
    /\ step = "evidence"
    /\ \E preflight \in
            {p \in [AskedTypes(turnPlan, turnPolicy) -> UNION {Statuses(t) : t \in ResolveTypes}] :
                \A t \in DOMAIN p : p[t] \in Statuses(t)},
          readings \in [ReportTargets(turnPlan, turnPolicy) -> Readings],
          finds \in [Queried(turnPlan) -> {f \in Finds(turnPolicy) : OneAnswer(f)}] :
        LET unitOf(i) == turnPlan.units[i]
            answers == UNION {AnswerFacts(unitOf(i), finds[i]) : i \in DOMAIN finds}
            documents == UNION {DocumentFacts(unitOf(i), finds[i]) : i \in DOMAIN finds}
            reports == UNION {ReportFacts(unitOf(i), readings[i]) : i \in DOMAIN readings}
            evidence == Evidence(turnPlan.units, preflight, AskedOption(turnPlan),
                                 {i \in DOMAIN readings : readings[i] = "listed"},
                                 {i \in DOMAIN finds : finds[i].documents # {}
                                                       \/ finds[i].answers # {}})
            adapter == AdapterFacts(turnPlan, turnPolicy, evidence)
        IN /\ collected' = evidence
           /\ canonicalFacts' = Canonical(adapter, reports \cup documents \cup answers, turnPlan)
           /\ resolveBindings' = {ResolveBinding(f, evidence) : f \in DOMAIN adapter}
           /\ mediaBindings' = MediaBindings(answers)
    /\ groundings' = Ground(turnPlan, turnPolicy, canonicalFacts', resolveBindings')
    /\ step' = IF TooManyFacts(turnPlan, DOMAIN canonicalFacts') THEN "escaped"
               ELSE IF NeedsResolution(turnPlan, collected') THEN "unresolved" ELSE "grounded"
    /\ UNCHANGED <<turnPolicy, turnPlan, candidateReply>>

\* adapter_business_facts_v1, CanonicalResolveBindingV1: a resolved report whose date is no
\* date, or a binding its contract refuses, ends the turn.
ResolveRefused ==
    /\ step = "evidence"
    /\ AskedTypes(turnPlan, turnPolicy) # {}
    /\ step' = "escaped"
    /\ UNCHANGED <<turnPolicy, turnPlan, collected, canonicalFacts, resolveBindings,
                   mediaBindings, groundings, candidateReply>>

\* (mutant) The plan that takes over keeps the groundings of the one it replaces.
keep_groundings ==
    /\ step = "unresolved"
    /\ turnPlan' = ResolutionPlan(collected)
    /\ Compiles(turnPlan', turnPolicy)
    /\ groundings' = groundings
    /\ step' = "grounded"
    /\ UNCHANGED <<turnPolicy, collected, canonicalFacts, resolveBindings, mediaBindings,
                   candidateReply>>

\* build_candidate_from_plan_v2: the plan that takes over is grounded on the facts there are.
TakeOver ==
    /\ step = "unresolved"
    /\ turnPlan' = ResolutionPlan(collected)
    /\ Compiles(turnPlan', turnPolicy)
    /\ groundings' = Ground(turnPlan', turnPolicy, canonicalFacts, resolveBindings)
    /\ step' = "grounded"
    /\ UNCHANGED <<turnPolicy, collected, canonicalFacts, resolveBindings, mediaBindings,
                   candidateReply>>

-----------------------------------------------------------------------------
(* The reply (v2_attempt.py, v2_composer.py). *)

Composed == ResponseMode(turnPlan) \in {"knowledge_answer", "smalltalk"}

StateOf(i) == groundings[i].business.states[turnPlan.units[i].manifest.of]

\* _action_from_grounding
ActionReady(i) ==
    /\ groundings[i].business.allowed
    /\ StateOf(i).available
    /\ turnPlan.units[i].manifest.of \in Reports => StateOf(i).dated
ReadyAction(i) ==
    LET unit == turnPlan.units[i]
    IN [unit |-> i, type |-> unit.manifest.of, ref |-> StateOf(i).ref,
        option |-> IF unit.manifest.of # "material_pack" THEN NoOption
                   ELSE IF unit.option # NoOption THEN unit.option ELSE StateOf(i).option]

\* _action_reply
GroundedActionReply ==
    LET ready == {i \in SendUnits(turnPlan) : ActionReady(i)}
    IN IF ready = {} THEN Unable ELSE Reply("answer", {ReadyAction(i) : i \in ready}, FALSE)

\* _handoff_reply
GroundedHandoffReply ==
    IF turnPolicy.scene = "direct" THEN Reply("human_handoff", {}, FALSE)
    ELSE IF \E i \in DOMAIN groundings : groundings[i].business.states["sales_mention"].available
    THEN Reply("human_handoff", {}, TRUE)
    ELSE Unable

\* _render_v2_response
GroundedReply ==
    LET mode == ResponseMode(turnPlan)
    IN CASE mode = "action" -> GroundedActionReply
         [] mode = "handoff" -> GroundedHandoffReply
         [] mode \in {"clarification", "no_reply"} -> Reply(mode, {}, FALSE)
         [] OTHER -> Unable

RenderGrounded ==
    /\ step = "grounded"
    /\ ~Composed
    /\ candidateReply' = Candidate(GroundedReply, {}, {})
    /\ step' = "rendered"
    /\ UNCHANGED <<turnPolicy, turnPlan, collected, canonicalFacts, resolveBindings,
                   mediaBindings, groundings>>

\* _product_list_evidence_is_missing
ListMissing ==
    \E i \in DOMAIN groundings :
        groundings[i].unit.manifest.use = "product_list" /\ groundings[i].facts = {}

\* What CrewAIV2Composer.compose requires.
ComposerAvailable ==
    ResponseMode(turnPlan) = "smalltalk" \/ \E i \in DOMAIN groundings : groundings[i].facts # {}

\* build_composer_prompt_input_v1: a composer of small talk is shown no grounding.
ShownUnits == IF ResponseMode(turnPlan) = "smalltalk" THEN {} ELSE DOMAIN groundings

\* _grounding_evidence_sets
EvidenceSets ==
    IF ShownUnits = {} THEN {{}} ELSE {groundings[i].facts : i \in ShownUnits}

\* _media_binding_evidence_ids
MediaEvidence(image) ==
    {b.fact : b \in {b \in mediaBindings : b.image = image /\ b.fact \in UNION EvidenceSets}}
AllowedImages ==
    IF turnPolicy.scene = "direct" \/ ResponseMode(turnPlan) = "smalltalk"
       \/ \A i \in DOMAIN turnPlan.units : turnPlan.units[i].manifest # CompanyKnowledge
    THEN {} ELSE {i \in EntryImages : MediaEvidence(i) # {}}

\* ComposerReplyOutput: only an answer cites. The text may be longer than allowed, or act.
ComposerOutputs ==
    {output \in [kind : {"answer", "clarification", "unable_to_answer"}, oversteps : BOOLEAN,
                 cited : SUBSET DOMAIN canonicalFacts, shown : SUBSET EntryImages] :
        output.cited # {} => output.kind = "answer"}

\* (mutant) An image may come from any unit's entry.
images_of_any_unit(output) ==
    /\ ~output.oversteps
    /\ output.shown \subseteq AllowedImages
    /\ \E set \in EvidenceSets : output.cited \subseteq set

\* _validate_v2_composer_output: all that is cited, and every fact that has an image that is
\* shown, belong to one unit.
Accepted(output) ==
    /\ ~output.oversteps
    /\ output.shown \subseteq AllowedImages
    /\ \E set \in EvidenceSets :
        output.cited \cup UNION {MediaEvidence(i) : i \in output.shown} \subseteq set

\* compose_v2_reply; an output that is rejected is a refusal to answer.
ComposeGrounded(output) ==
    /\ step = "grounded"
    /\ Composed /\ ~ListMissing /\ ComposerAvailable
    /\ step' = IF GroundingsBound THEN "rendered" ELSE "broken"
    /\ candidateReply' = IF Accepted(output)
                         THEN Candidate(Reply(output.kind, {}, FALSE), output.cited, output.shown)
                         ELSE Candidate(Unable, {}, {})
    /\ UNCHANGED <<turnPolicy, turnPlan, collected, canonicalFacts, resolveBindings,
                   mediaBindings, groundings>>

\* _compose_v2_response without the evidence it needs
NothingToCompose ==
    /\ step = "grounded"
    /\ Composed /\ (ListMissing \/ ~ComposerAvailable)
    /\ step' = "rendered"
    /\ candidateReply' = Candidate(Unable, {}, {})
    /\ UNCHANGED <<turnPolicy, turnPlan, collected, canonicalFacts, resolveBindings,
                   mediaBindings, groundings>>

\* AlignmentVerifierPromptInputV1
VerifierInputValid ==
    /\ GroundingsBound
    /\ turnPolicy.scene = "direct" => ~candidateReply.reply.mention

\* build_runtime_alignment_verifier_input_v1
Review ==
    /\ step = "rendered"
    /\ step' = IF VerifierInputValid THEN "reviewed" ELSE "broken"
    /\ UNCHANGED <<turnPolicy, turnPlan, collected, canonicalFacts, resolveBindings,
                   mediaBindings, groundings, candidateReply>>

\* recompose_candidate_v2: on the same evidence
RecomposeGrounded ==
    /\ step = "reviewed"
    /\ Composed
    /\ step' = "grounded"
    /\ candidateReply' = Candidate(NoReply, {}, {})
    /\ UNCHANGED <<turnPolicy, turnPlan, collected, canonicalFacts, resolveBindings,
                   mediaBindings, groundings>>

GroundingNext ==
    \/ \E request \in Grants, units \in UnitLists : BeginGrounding(request, units)
    \/ Collect \/ ResolveRefused \/ TakeOver
    \/ RenderGrounded \/ NothingToCompose
    \/ \E output \in ComposerOutputs : ComposeGrounded(output)
    \/ Review \/ RecomposeGrounded

GroundingSpec == GroundingInit /\ [][GroundingNext]_groundingVars

-----------------------------------------------------------------------------
(* Properties. *)

\* A unit has facts to answer from if and only if something was found for a unit of its scope
\* and capability; the reply rendered from the business facts, and whether one is composed at
\* all, is what PlanAuthority says of the evidence as a whole.
AgreesWithAuthority ==
    step \in {"grounded", "rendered", "reviewed"} =>
        /\ \A i \in DOMAIN turnPlan.units :
            (groundings[i].facts # {}) = Grounded(collected, turnPlan.units[i], turnPolicy)
        /\ step # "grounded" =>
            IF Composed
            THEN NeedsComposer(turnPlan, collected, turnPolicy) \/ candidateReply.reply = Unable
            ELSE candidateReply.reply = RenderedReply(turnPlan, collected, turnPolicy)

\* The evidence a composed reply leans on, the entries whose images it shows included, is of
\* one scope and kind; a direct conversation is shown no image.
OneAuthority ==
    LET leansOn == candidateReply.cited
                   \cup {b.fact : b \in {b \in mediaBindings : b.image \in candidateReply.shown}}
    IN /\ \A f, g \in leansOn : f.products = g.products /\ f.kind = g.kind
       /\ turnPolicy.scene = "direct" => candidateReply.shown = {}

\* direct_constraints.py: the ceiling of a direct conversation never refuses the policy that
\* was compiled for it.
WithinCeiling ==
    turnPolicy.scene = "direct" => turnPolicy = DirectCeiling(CompanyKnowledge \in turnPolicy.eligible)

\* Groundings are those of the plan that is answered, also after another plan took over.
GroundingsBelong == step # "broken"

\* The pack that is sent is the option it is said to be, if the plan asks for one option.
OptionResolved ==
    LET asked == {collected.units[i].option : i \in {i \in DOMAIN collected.units :
                    collected.units[i].manifest.of = "material_pack"}} \ {NoOption}
    IN Cardinality(asked) <= 1 =>
        \A a \in candidateReply.reply.actions :
            a.type = "material_pack" /\ a.option # NoOption => a.ref = a.option

\* A reply stands on the evidence it was given: only what was found for a unit's own products
\* and capability grounds it, a reply mixes no two units' evidence, a plan that takes over is
\* grounded anew, and the option that is sent is the one that was resolved.
GroundingSound ==
    AgreesWithAuthority /\ OneAuthority /\ WithinCeiling /\ GroundingsBelong /\ OptionResolved
================================================================================
