---------------------------- MODULE CandidateTurn ----------------------------
(***************************************************************************)
(* One turn from its admission to its reply: the input rules and send      *)
(* commands, recall, the planner and its one repair, the adapter and       *)
(* knowledge lookups, rendering or composing, and the alignment loop that  *)
(* verifies a candidate and has it planned, fetched or composed again      *)
(* (pipeline.py, planning_flow.py, v2_attempt.py, alignment_loop.py).      *)
(*                                                                         *)
(* An action is what the turn does between two of its awaits, with the     *)
(* result of the first. Every call of a language model reserves a row of   *)
(* the turn's journal, which has room for Capacity of them. The language   *)
(* models and the adapter may answer anything or fail.                     *)
(*                                                                         *)
(* `stage' is what the turn awaits and `doing' what the candidate is built *)
(* for: "initial" or one of the remediations. `built' numbers the          *)
(* candidates and `approved' is the last one the verifier found aligned.   *)
(***************************************************************************)
EXTENDS PlanAuthority

CONSTANTS
    Requests,        \* requests the turn may be for
    PlanSpecs,       \* sequences of units the planner may propose
    MaxReplans, MaxRefetches, MaxRecomposes, MaxTotal   \* reply_alignment_max_*

\* Settings: each limit is at most the total, which is at most 2.
ASSUME LimitsAssumption ==
    /\ MaxTotal \in 0..2
    /\ {MaxReplans, MaxRefetches, MaxRecomposes} \subseteq 0..MaxTotal

ASSUME PlanSpecsAssumption == PlanSpecs \subseteq Seq(Units)

VARIABLES
    message, policy,          \* what the turn was admitted with
    stage, doing,
    repaired,                 \* the initial plan has been asked for again
    plan, evidence, reply,    \* the candidate
    refined,                  \* the query of a refetch, for the one unit it is for
    todo,                     \* units whose documents are still to be looked up
    replans, refetches, recomposes,
    rows,                     \* rows of the journal
    looksOnce,                \* no plan so far had two units looked up (history)
    cache,                    \* outcomes of selectors, the last used ones last
    recalled, built, approved,
    outcome                   \* how the turn ended

counters == <<replans, refetches, recomposes>>
candidate == <<plan, evidence, reply>>
vars == <<message, policy, stage, doing, repaired, candidate, refined, todo,
          counters, rows, looksOnce, cache, recalled, built, approved, outcome>>

Lesser(a, b) == IF a <= b THEN a ELSE b

\* Settings.maximum_llm_invocation_rows: the dearest remediations there may be.
Capacity ==
    LET r == Lesser(MaxReplans, MaxTotal)
        f == Lesser(MaxRefetches, MaxTotal - r)
        c == Lesser(MaxRecomposes, MaxTotal - r - f)
    IN 8 + 5 * r + 3 * f + 2 * c

Stages == {"route", "plan", "adapter", "documents", "static", "render", "compose",
           "verify", "done"}
Doings == {"initial", "replan", "refetch", "recompose", "replace"}

\* ReplyAlignmentVerdict: an aligned verdict asks for nothing, one that wants evidence
\* fetched again names the query.
Remediations == {"none", "replan", "refetch_document_context", "refetch_report_scope",
                 "recompose", "return_clarification", "return_unable"}

Init ==
    /\ \E request \in Requests :
        /\ message = request.message
        /\ policy = compile_policy(request)
    /\ stage = "route"
    /\ doing = "initial"
    /\ repaired = FALSE
    /\ plan = Plan("none", <<>>)
    /\ evidence = NoEvidence
    /\ reply = NoReply
    /\ refined = NoQuery
    /\ todo = {}
    /\ replans = 0 /\ refetches = 0 /\ recomposes = 0
    /\ rows = 0 /\ looksOnce = TRUE
    /\ cache = <<>>
    /\ recalled = FALSE
    /\ built = 0 /\ approved = 0
    /\ outcome = "none"

-----------------------------------------------------------------------------
(* How a turn goes on: what becomes of `stage', `outcome', the candidate   *)
(* and `built', and of `doing' but for Finish.                             *)

Finish(how) ==
    /\ stage' = "done"
    /\ outcome' = how
    /\ UNCHANGED <<candidate, built>>

\* What nobody catches: the turn ends with an unexpected error.
Escape == Finish("escape") /\ UNCHANGED doing

\* _replace: a plan of the program's own, which asks nobody and needs no composer.
Replace(remediation) ==
    /\ plan' = ReplacementPlan(remediation)
    /\ evidence' = NoEvidence
    /\ reply' = RenderedReply(plan', NoEvidence, policy)
    /\ built' = built + 1
    /\ stage' = "done"
    /\ doing' = "replace"
    /\ outcome' = IF Compiles(plan', policy) THEN "answered" ELSE "escape"

\* AgentRuntimeError: a replan gives way to a refusal, all else ends the turn.
AgentFailure ==
    IF doing = "replan" THEN Replace("return_unable")
    ELSE Finish("agent_error") /\ UNCHANGED doing

\* run_crewai_kickoff has its listed failures become the agent's; an exception of another
\* class (the library's own, an OSError of the capture) passes every handler up to the
\* turn's end, in a replan too.
CallFails == AgentFailure \/ Escape

\* (mutant) The plan of a remediation is not compared with the one that was asked for.
any_authority(newPlan) == TRUE

\* require_replan_authority, require_refetch_authority: the plan is still the one that
\* was asked for.
KeepsAuthority(newPlan) ==
    doing \in {"replan", "refetch"} => newPlan.origin = "planner"

\* (mutant) A candidate fetched anew is returned on the verdict of the former one.
candidate_complete_unverified(newPlan, newReply) ==
    /\ plan' = newPlan
    /\ reply' = newReply
    /\ evidence' = evidence
    /\ built' = built + 1
    /\ doing' = doing
    /\ IF ~KeepsAuthority(newPlan) THEN stage' = "done" /\ outcome' = "agent_error"
       ELSE IF ~Valid(newReply, newPlan, policy)
       THEN stage' = "done" /\ outcome' = "contract_error"
       ELSE IF ~recalled \/ doing = "refetch" THEN stage' = "done" /\ outcome' = "answered"
       ELSE stage' = "verify" /\ outcome' = outcome

\* A candidate is complete: the initial one of a turn that skipped recall is not
\* verified, an invalid one is not returned.
CandidateComplete(newPlan, newReply) ==
    /\ plan' = newPlan
    /\ reply' = newReply
    /\ evidence' = evidence
    /\ built' = built + 1
    /\ doing' = doing
    /\ IF ~KeepsAuthority(newPlan) THEN stage' = "done" /\ outcome' = "agent_error"
       ELSE IF ~Valid(newReply, newPlan, policy)
       THEN stage' = "done" /\ outcome' = "contract_error"
       ELSE IF ~recalled THEN stage' = "done" /\ outcome' = "answered"
       ELSE stage' = "verify" /\ outcome' = outcome

\* build_candidate_from_plan_v2 up to its first await.
BuildFrom(newPlan) ==
    IF ~Admissible(newPlan, policy) THEN AgentFailure
    ELSE /\ plan' = newPlan
         /\ evidence' = NoEvidence
         /\ reply' = NoReply
         /\ stage' = "adapter"
         /\ UNCHANGED <<doing, outcome, built>>

\* TurnLlmInvocationJournalV1.reserve
HasRow == rows < Capacity
Reserve == HasRow /\ rows' = rows + 1

-----------------------------------------------------------------------------
(* From the message to a plan. *)

MatchedPlan ==
    IF message = "guardrail" THEN input_policy_plan(policy)
    ELSE direct_send_plan(message, policy)
\* match_direct_send_command: a message that is nothing but the name of an artifact that
\* may be sent, with a verb and courtesies.
IsSendCommand == message \in policy.actions

\* match_input_policy comes first.
Matches == message = "guardrail" \/ IsSendCommand

\* match_input_policy, match_direct_send_command: the compiler refuses a command
\* whose artifact is granted and not offered, and nobody catches it.
RouteMatched ==
    /\ stage = "route"
    /\ Matches
    /\ IF Compiles(MatchedPlan, policy) THEN BuildFrom(MatchedPlan) ELSE Escape
    /\ UNCHANGED <<message, policy, repaired, refined, todo, counters, rows, looksOnce,
                   cache, recalled, approved>>

\* collect_preplanner_recall: whatever it finds, the planner comes next. A shortcut
\* past it needs a payload the recall service never hands out.
CollectRecall ==
    /\ stage = "route"
    /\ ~Matches
    /\ stage' = "plan"
    /\ recalled' = TRUE
    /\ UNCHANGED <<message, policy, doing, repaired, candidate, refined, todo, counters,
                   rows, looksOnce, cache, built, approved, outcome>>

PlannerUnchanged ==
    UNCHANGED <<message, policy, refined, todo, counters, looksOnce, cache, recalled, approved>>

\* (mutant) A plan is repaired as often as it takes.
repair_again == doing = "initial"

\* planner_schema_repair_allowed
MayRepair == doing = "initial" /\ ~repaired

\* run_round and coerce_planner_plan_with_error: a plan that compiles.
PlannerAnswers(units) ==
    /\ stage = "plan"
    /\ Reserve
    /\ Compiles(Plan("planner", units), policy)
    /\ BuildFrom(Plan("planner", units))
    /\ UNCHANGED repaired
    /\ PlannerUnchanged

\* A plan that does not compile, or no plan at all.
PlannerInvalid ==
    /\ stage = "plan"
    /\ Reserve
    /\ IF MayRepair
       THEN /\ repaired' = TRUE
            /\ UNCHANGED <<stage, doing, candidate, outcome, built>>
       ELSE AgentFailure /\ UNCHANGED repaired
    /\ PlannerUnchanged

PlannerFails ==
    /\ stage = "plan"
    /\ Reserve
    /\ CallFails
    /\ UNCHANGED repaired
    /\ PlannerUnchanged

-----------------------------------------------------------------------------
(* Evidence. *)

\* evidence_query_for_unit: a refetch of documents refines the query of its unit,
\* the only one of a plan that has them.
QueryOf(i) ==
    IF doing = "refetch" /\ refined # NoQuery THEN refined ELSE plan.units[i].query

\* The knowledge units looked up: those with a query.
LookupUnits == {i \in KnowledgeTargets(plan) : QueryOf(i) # NoQuery}

\* execute_v2: the adapter's resolves and report scope.
ReadAdapter ==
    /\ stage = "adapter"
    /\ \E preflight \in
            {p \in [AskedTypes(plan, policy) -> UNION {Statuses(t) : t \in ResolveTypes}] :
                \A t \in DOMAIN p : p[t] \in Statuses(t)} :
        \E products \in SUBSET ReportTargets(plan, policy) :
            evidence' = Evidence(plan.units, preflight, AskedOption(plan), products, {})
    /\ todo' = LookupUnits
    /\ looksOnce' = (looksOnce /\ \A i, j \in LookupUnits : i = j)
    /\ stage' = IF LookupUnits = {} THEN "render" ELSE "documents"
    /\ UNCHANGED <<message, policy, doing, repaired, plan, reply, refined, counters, rows,
                   cache, recalled, built, approved, outcome>>

\* The unit looked up next.
Target == CHOOSE i \in todo : \A j \in todo : i <= j
TargetQuery == QueryOf(Target)

\* (mutant) The loop stays at its unit.
lookup_again == todo

LookedUp == todo \ {Target}

InCache(key) == \E i \in DOMAIN cache : cache[i] = key
Without(key) == SelectSeq(cache, LAMBDA k : k # key)

\* TurnSelectorOutcomeCacheV1: get and put, the least recently used of four drops out.
Touched(key) ==
    LET entries == Append(Without(key), key)
    IN IF Len(entries) > 4 THEN Tail(entries) ELSE entries

LookupUnchanged ==
    UNCHANGED <<message, policy, repaired, refined, counters, looksOnce, recalled, approved>>

FoundDocument(found) ==
    evidence' = IF found THEN [evidence EXCEPT !.documents = @ \cup {Target}] ELSE evidence

\* fetch_context_async: the selector's choice of documents, from the cache or from the
\* model, and what the document service has of it.
SelectDocuments(found) ==
    LET key == <<"documents", TargetQuery>>
    IN /\ stage = "documents"
       /\ IF InCache(key) THEN UNCHANGED rows ELSE Reserve
       /\ cache' = Touched(key)
       /\ FoundDocument(found)
       /\ stage' = "static"
       /\ UNCHANGED <<doing, plan, reply, todo, built, outcome>>
       /\ LookupUnchanged

\* The document service is not there, or its selector failed: no documents.
NoDocuments(asked) ==
    /\ stage = "documents"
    /\ IF asked THEN ~InCache(<<"documents", TargetQuery>>) /\ Reserve ELSE UNCHANGED rows
    /\ stage' = "static"
    /\ UNCHANGED <<doing, candidate, cache, todo, built, outcome>>
    /\ LookupUnchanged

\* DirectApprovedKnowledgeSelector.select
SelectStatic(found) ==
    LET key == <<"static", TargetQuery>>
    IN /\ stage = "static"
       /\ IF InCache(key) THEN UNCHANGED rows ELSE Reserve
       /\ cache' = Touched(key)
       /\ FoundDocument(found)
       /\ todo' = LookedUp
       /\ stage' = IF todo' = {} THEN "render" ELSE "documents"
       /\ UNCHANGED <<doing, plan, reply, built, outcome>>
       /\ LookupUnchanged

\* Nobody catches this selector's failure.
StaticFails ==
    /\ stage = "static"
    /\ ~InCache(<<"static", TargetQuery>>)
    /\ Reserve
    /\ Escape
    /\ UNCHANGED <<cache, todo>>
    /\ LookupUnchanged

-----------------------------------------------------------------------------
(* The reply. *)

ReplyUnchanged ==
    UNCHANGED <<message, policy, repaired, refined, todo, counters, looksOnce, cache,
                recalled, approved>>

\* build_candidate_from_plan_v2 after its evidence: a pack that was not resolved has
\* another plan take over, which needs no composer.
Render ==
    LET resolution == ResolutionPlan(evidence)
    IN /\ stage = "render"
       /\ IF NeedsResolution(plan, evidence)
          THEN IF Compiles(resolution, policy)
               THEN CandidateComplete(resolution, RenderedReply(resolution, evidence, policy))
               ELSE Escape
          ELSE IF NeedsComposer(plan, evidence, policy)
          THEN stage' = "compose" /\ UNCHANGED <<doing, candidate, built, outcome>>
          ELSE CandidateComplete(plan, RenderedReply(plan, evidence, policy))
       /\ UNCHANGED rows
       /\ ReplyUnchanged

\* compose_v2_reply: the composer's text, or none when it is not one it may write.
Compose(accepted) ==
    /\ stage = "compose"
    /\ Reserve
    /\ CandidateComplete(plan, IF accepted THEN Reply("answer", {}, FALSE) ELSE Unable)
    /\ ReplyUnchanged

\* The composer fails, or the journal has no row for it, which is a listed failure here.
ComposerFails ==
    /\ stage = "compose"
    /\ IF HasRow THEN rows' = rows + 1 /\ CallFails
       ELSE UNCHANGED rows /\ AgentFailure
    /\ ReplyUnchanged

-----------------------------------------------------------------------------
(* The alignment loop. *)

Total == replans + refetches + recomposes

Left(used, limit) == Total < MaxTotal /\ used < limit

VerdictUnchanged == UNCHANGED <<message, policy, repaired, todo, looksOnce, cache, recalled>>

VerifierAligned ==
    /\ stage = "verify"
    /\ Reserve
    /\ approved' = built
    /\ Finish("answered")
    /\ UNCHANGED <<doing, refined, counters>>
    /\ VerdictUnchanged

\* A refusal is returned unverified.
ReturnsUnverified == ResponseMode(plan) = "refusal"

\* The verifier fails, or the journal has no row for it.
VerifierFails ==
    /\ stage = "verify"
    /\ IF HasRow THEN rows' = rows + 1 ELSE UNCHANGED rows
    /\ IF ReturnsUnverified THEN Finish("answered") /\ UNCHANGED doing
       ELSE Replace("return_unable")
    /\ UNCHANGED <<refined, counters, approved>>
    /\ VerdictUnchanged

\* A verdict that is not aligned; `remediation' names what it asks for.
NotAligned == stage = "verify" /\ Reserve /\ UNCHANGED approved /\ VerdictUnchanged

RemediateReplan ==
    /\ NotAligned
    /\ Left(replans, MaxReplans)
    /\ replans' = replans + 1
    /\ doing' = "replan"
    /\ stage' = "plan"
    /\ UNCHANGED <<candidate, built, outcome, refined, refetches, recomposes>>

\* build_alignment_refetch_request_v1
RefetchUnits(remediation) ==
    {i \in DOMAIN plan.units :
        IF remediation = "refetch_document_context"
        THEN plan.units[i].manifest = CompanyKnowledge
        ELSE plan.units[i].manifest.use = "product_list"}

\* The one unit's evidence is fetched again, with that of all others; a plan without
\* such a unit, or with two, fails where nobody catches it.
RemediateRefetch(remediation) ==
    /\ NotAligned
    /\ Left(refetches, MaxRefetches)
    /\ refetches' = refetches + 1
    /\ doing' = "refetch"
    /\ IF Cardinality(RefetchUnits(remediation)) # 1 THEN Finish("escape")
       ELSE /\ stage' = "adapter"
            /\ evidence' = NoEvidence
            /\ reply' = NoReply
            /\ UNCHANGED <<plan, built, outcome>>
    /\ UNCHANGED <<replans, recomposes>>

RefetchDocuments(query) ==
    RemediateRefetch("refetch_document_context") /\ refined' = query

\* The query of a product list is the list itself, whatever the verdict says.
RefetchReportScope ==
    RemediateRefetch("refetch_report_scope") /\ refined' = NoQuery

\* recompose_candidate_v2: only composed replies can be composed again.
RemediateRecompose ==
    /\ NotAligned
    /\ Left(recomposes, MaxRecomposes)
    /\ recomposes' = recomposes + 1
    /\ doing' = "recompose"
    /\ IF ResponseMode(plan) \notin {"knowledge_answer", "smalltalk"}
       THEN Finish("agent_error")
       ELSE /\ reply' = NoReply
            /\ IF NeedsComposer(plan, evidence, policy)
               THEN stage' = "compose" ELSE stage' = "render"
            /\ UNCHANGED <<plan, evidence, built, outcome>>
    /\ UNCHANGED <<refined, replans, refetches>>

\* Nothing is left to try, or the verdict asks for a fallback.
Exhausted(remediation) ==
    \/ Total >= MaxTotal
    \/ remediation \in {"none", "return_unable"}
    \/ remediation = "replan" /\ ~Left(replans, MaxReplans)
    \/ remediation = "recompose" /\ ~Left(recomposes, MaxRecomposes)
    \/ /\ remediation \in {"refetch_document_context", "refetch_report_scope"}
       /\ ~Left(refetches, MaxRefetches)

FallBack(remediation) ==
    /\ NotAligned
    /\ \/ Exhausted(remediation) /\ Replace("return_unable")
       \/ /\ ~Exhausted(remediation)
          /\ remediation = "return_clarification"
          /\ Replace("return_clarification")
    /\ UNCHANGED <<refined, counters>>

-----------------------------------------------------------------------------
\* InvocationJournalError outside the composer and the verifier.
JournalFull ==
    /\ \/ stage = "plan"
       \/ stage = "documents" /\ ~InCache(<<"documents", TargetQuery>>)
       \/ stage = "static" /\ ~InCache(<<"static", TargetQuery>>)
    /\ ~HasRow
    /\ Escape
    /\ UNCHANGED <<message, policy, repaired, refined, todo, counters, rows, looksOnce,
                   cache, recalled, approved>>

\* Recall's outcome is too long, the adapter or the document service fails in a way its
\* client does not name, or what the adapter resolved is no fact (a report's date, a
\* binding): only a replan survives that, if it was a timeout.
SourceFails ==
    /\ \/ stage = "route" /\ ~Matches /\ UNCHANGED rows
       \/ stage = "adapter" /\ UNCHANGED rows
       \/ stage = "documents" /\ (Reserve \/ UNCHANGED rows)
    /\ \/ doing = "replan" /\ AgentFailure
       \/ Escape
    /\ ReplyUnchanged

Next ==
    \/ RouteMatched \/ CollectRecall
    \/ \E units \in PlanSpecs : PlannerAnswers(units)
    \/ PlannerInvalid \/ PlannerFails
    \/ ReadAdapter
    \/ \E found \in BOOLEAN : SelectDocuments(found) \/ SelectStatic(found)
    \/ \E asked \in BOOLEAN : NoDocuments(asked)
    \/ StaticFails
    \/ Render
    \/ \E accepted \in BOOLEAN : Compose(accepted)
    \/ ComposerFails
    \/ VerifierAligned \/ VerifierFails
    \/ RemediateReplan \/ RemediateRecompose
    \/ \E query \in Queries : RefetchDocuments(query)
    \/ RefetchReportScope
    \/ \E remediation \in Remediations : FallBack(remediation)
    \/ JournalFull \/ SourceFails

Spec == Init /\ [][Next]_vars

\* Every call a turn waits for ends, with an answer, an error or its timeout.
FairSpec == Spec /\ WF_vars(Next)

-----------------------------------------------------------------------------
(* Properties. *)

\* What the fields of a turn hold.
TypeOK ==
    /\ stage \in Stages /\ doing \in Doings /\ repaired \in BOOLEAN
    /\ plan.origin \in {"none", "input_policy", "direct_send", "planner", "deterministic",
                        "remediation"}
    /\ replans \in 0..MaxReplans /\ refetches \in 0..MaxRefetches
    /\ recomposes \in 0..MaxRecomposes
    /\ rows \in 0..Capacity /\ looksOnce \in BOOLEAN
    /\ recalled \in BOOLEAN /\ built \in Nat /\ approved \in 0..built
    /\ outcome \in {"none", "answered", "agent_error", "contract_error", "escape"}

\* A planned reply leaves the turn as the candidate the verifier found aligned, as the
\* program's own fallback, or as a refusal whose verifier failed: nothing built after
\* its approval, and no candidate of an earlier verdict (ensure_aligned_v2_response).
ReplyReviewed ==
    outcome = "answered" /\ recalled =>
        \/ approved = built
        \/ plan.origin = "remediation"
        \/ ResponseMode(plan) = "refusal"

\* What a reply sends is of a capability the request's grants and offer open, and was
\* resolved, with its period, by the adapter call made for this candidate
\* (_action_reply, whichever of compiler, validation and permission let it pass).
SentIsResolved ==
    \A action \in reply.actions :
        /\ Manifest(action.type, "send") \in policy.eligible
        /\ action.type \in DOMAIN evidence.preflight
        /\ evidence.preflight[action.type] = "resolved"

\* A pack that was not resolved while sales may be mentioned is handed to sales, in a
\* reply that mentions them, unless the plan's unit was for named products: its facts
\* are of another scope then (_material_pack_action_resolution_plan, _handoff_reply).
SalesHandoffKept ==
    plan.origin = "deterministic" /\ ResponseMode(plan) = "handoff" =>
        \/ reply.mention
        \/ \E i \in DOMAIN evidence.units : evidence.units[i].products

\* The program never compiles a plan of its own that the policy refuses, but for the
\* send command of an artifact that is granted and not offered (_handoff_result,
\* _material_pack_action_resolution_plan, replace).
OwnPlansCompile ==
    /\ stage = "route" /\ message = "guardrail" => Compiles(MatchedPlan, policy)
    /\ stage = "render" /\ NeedsResolution(plan, evidence) =>
        Compiles(ResolutionPlan(evidence), policy)

\* What a remediation brings to its verdict is of the authority it was asked under: a
\* document fetched anew and a reply composed anew are of the very plan the verifier
\* saw, whatever the adapter resolves this time and whatever plan would take over, a
\* reply composed anew is of its evidence too, and a replan's plan is the planner's
\* (require_replan_authority, require_refetch_authority, require_recompose_response_only).
RemediationKeepsAuthority ==
    [][outcome' \in {"none", "answered"} =>
        /\ doing' \in {"refetch", "recompose"} => plan' = plan
        /\ doing' = "recompose" => evidence' = evidence
        /\ doing' = "replan" /\ stage' = "verify" => plan'.origin = "planner"]_vars

\* A replan that fails is answered with the fallback instead of raising
\* (ensure_aligned_v2_response's try).
ReplanFailsSoft ==
    doing = "replan" /\ stage = "done" => outcome # "escape"

\* The journal has a row for every call a turn makes: no call is refused one
\* (Settings.maximum_llm_invocation_rows, TurnLlmInvocationJournalV1.reserve).
DispatchesFit ==
    stage \in {"plan", "documents", "static", "compose", "verify"} => HasRow

\* It has in every turn none of whose plans looks up two pieces of company knowledge,
\* whatever the limits and however the turn goes: with its repair, its replans and
\* refetches under other queries, and no outcome ever found in the cache.
OneLookupFits == looksOnce => DispatchesFit

\* An artifact that cannot be sent is answered, with a refusal or a handoff, and does
\* not fail the turn (prompts/fragments/base/planner_intent_base.md).
UnresolvedSendAnswered ==
    stage = "done" /\ SendUnits(plan) # {} /\ reply.kind = "unable_to_answer" =>
        outcome = "answered"

\* How far the turn is from its end: the remediations that are left, the way of its
\* candidate to the verdict, and on that way the lookups of company knowledge.
Way == [done |-> 0, verify |-> 1, compose |-> 2, render |-> 3, static |-> 4, documents |-> 4,
        adapter |-> 5, plan |-> 6, route |-> 8]
Remaining == MaxTotal - Total
Ahead == Way[stage] + (IF stage = "plan" /\ MayRepair THEN 1 ELSE 0)
Lookups == 2 * Cardinality(todo) + (IF stage = "documents" THEN 1 ELSE 0)
Distance == <<Remaining, Ahead, Lookups>>

\* A shorter distance: the first component that differs is less.
Nearer(new, old) ==
    /\ {new, old} \subseteq Nat \X Nat \X Nat
    /\ \E i \in 1..3 : new[i] < old[i] /\ \A j \in 1..(i - 1) : new[j] = old[j]

\* No step of a turn leads back: whatever is repaired, remediated and looked up again,
\* each brings it nearer to its end, so that no turn goes on for ever
\* (ensure_aligned_v2_response, ReplyAlignmentLimitsV1, run_round).
TurnNearsEnd == [][Nearer(Distance', Distance)]_vars

\* Every turn ends, if what it waits for does: each step brings it nearer, and one is
\* taken until it is done (run_reply_turn).
TurnEnds == TurnNearsEnd /\ <>(stage = "done")
=============================================================================
