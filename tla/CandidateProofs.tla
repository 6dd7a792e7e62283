---------------------------- MODULE CandidateProofs ----------------------------
(* Theorems about one turn, for all requests, plans and limits. *)
EXTENDS CandidateTurn, FiniteSetTheorems, TLAPS

-----------------------------------------------------------------------------
(* No reply leaves the turn without its verdict. A turn has no outcome     *)
(* while it goes on, so what is answered is answered by the last step.     *)

Reviewed == (stage # "done" => outcome = "none") /\ ReplyReviewed

\* A failure that is answered is answered by the fallback.
LEMMA FailureReviewed ==
    ASSUME AgentFailure, UNCHANGED <<recalled, approved>> PROVE Reviewed'
<1>1. CASE doing = "replan"
  <2>1. plan'.origin = "remediation"
    BY <1>1 DEF AgentFailure, Replace, ReplacementPlan, ProgramPlan, Plan
  <2> QED BY <1>1, <2>1 DEF AgentFailure, Replace, Reviewed, ReplyReviewed
<1>2. CASE doing # "replan"
  BY <1>2 DEF AgentFailure, Finish, Reviewed, ReplyReviewed
<1> QED BY <1>1, <1>2

\* A call that fails is answered by the fallback or not at all.
LEMMA CallReviewed ==
    ASSUME Reviewed, stage # "done", CallFails, UNCHANGED <<recalled, approved>>
    PROVE  Reviewed'
<1>1. CASE AgentFailure
  BY <1>1, FailureReviewed
<1>2. CASE Escape
  BY <1>2 DEF Escape, Finish, Reviewed, ReplyReviewed
<1> QED BY <1>1, <1>2 DEF CallFails

\* So is a fallback the verdict asks for.
LEMMA ReplacementReviewed ==
    ASSUME NEW remediation, Replace(remediation), UNCHANGED recalled
    PROVE  Reviewed'
<1>1. plan'.origin = "remediation"
  BY DEF Replace, ReplacementPlan, ProgramPlan, Plan
<1> QED BY <1>1 DEF Replace, Reviewed, ReplyReviewed

\* A turn that goes on has no outcome, and one that escapes is not answered.
LEMMA UnansweredReviewed ==
    ASSUME Reviewed, stage # "done",
           \/ UNCHANGED outcome
           \/ outcome' \in {"escape", "agent_error", "contract_error"} /\ stage' = "done"
    PROVE  Reviewed'
BY DEF Reviewed, ReplyReviewed

\* A complete candidate is answered only in a turn without recall.
LEMMA CandidateReviewed ==
    ASSUME Reviewed, stage # "done", NEW p, NEW r, CandidateComplete(p, r), UNCHANGED recalled
    PROVE  Reviewed'
BY DEF CandidateComplete, Reviewed, ReplyReviewed

LEMMA BuildReviewed ==
    ASSUME Reviewed, stage # "done", NEW p, BuildFrom(p), UNCHANGED <<recalled, approved>>
    PROVE  Reviewed'
BY FailureReviewed, UnansweredReviewed DEF BuildFrom

LEMMA ReviewedStep == Reviewed /\ [Next]_vars => Reviewed'
<1> SUFFICES ASSUME Reviewed, [Next]_vars PROVE Reviewed'
  OBVIOUS
<1>1. CASE RouteMatched
  BY <1>1, BuildReviewed, UnansweredReviewed DEF RouteMatched, Escape, Finish
<1>2. CASE CollectRecall
  BY <1>2 DEF CollectRecall, Reviewed, ReplyReviewed
<1>3. ASSUME NEW units \in PlanSpecs, PlannerAnswers(units) PROVE Reviewed'
  BY <1>3, BuildReviewed DEF PlannerAnswers, PlannerUnchanged
<1>4. CASE PlannerInvalid
  BY <1>4, FailureReviewed, UnansweredReviewed DEF PlannerInvalid, PlannerUnchanged
<1>5. CASE PlannerFails
  BY <1>5, CallReviewed DEF PlannerFails, PlannerUnchanged
<1>6. CASE ReadAdapter
  BY <1>6, UnansweredReviewed DEF ReadAdapter
<1>7. ASSUME NEW found \in BOOLEAN, SelectDocuments(found) \/ SelectStatic(found)
      PROVE  Reviewed'
  BY <1>7, UnansweredReviewed DEF SelectDocuments, SelectStatic
<1>8. ASSUME NEW asked \in BOOLEAN, NoDocuments(asked) PROVE Reviewed'
  BY <1>8, UnansweredReviewed DEF NoDocuments
<1>9. CASE StaticFails
  BY <1>9, UnansweredReviewed DEF StaticFails, Escape, Finish
<1>10. CASE Render
  <2>1. UNCHANGED recalled /\ stage # "done"
    BY <1>10 DEF Render, ReplyUnchanged
  <2>2. CASE \E p, r : CandidateComplete(p, r)
    BY <2>1, <2>2, CandidateReviewed
  <2>3. CASE Escape
    BY <2>1, <2>3, UnansweredReviewed DEF Escape, Finish
  <2>4. CASE UNCHANGED outcome
    BY <2>1, <2>4, UnansweredReviewed
  <2> QED BY <1>10, <2>2, <2>3, <2>4 DEF Render
<1>11. ASSUME NEW accepted \in BOOLEAN, Compose(accepted) PROVE Reviewed'
  <2>1. UNCHANGED recalled /\ stage # "done" /\ \E r : CandidateComplete(plan, r)
    BY <1>11 DEF Compose, ReplyUnchanged
  <2> QED BY <2>1, CandidateReviewed
<1>12. CASE ComposerFails
  BY <1>12, CallReviewed DEF ComposerFails, CallFails, ReplyUnchanged
<1>13. CASE VerifierAligned
  BY <1>13 DEF VerifierAligned, Finish, Reviewed, ReplyReviewed
<1>14. CASE VerifierFails
  <2>1. CASE ReturnsUnverified
    BY <1>14, <2>1
    DEF VerifierFails, ReturnsUnverified, Finish, candidate, Reviewed, ReplyReviewed
  <2>2. CASE ~ReturnsUnverified
    BY <1>14, <2>2, ReplacementReviewed DEF VerifierFails, VerdictUnchanged
  <2> QED BY <2>1, <2>2
<1>15. CASE RemediateReplan
  BY <1>15, UnansweredReviewed DEF RemediateReplan, NotAligned
<1>16. CASE RemediateRecompose
  BY <1>16, UnansweredReviewed DEF RemediateRecompose, NotAligned, Finish
<1>17. CASE \E r : RemediateRefetch(r)
  BY <1>17, UnansweredReviewed DEF RemediateRefetch, NotAligned, Finish
<1>18. ASSUME NEW remediation \in Remediations, FallBack(remediation) PROVE Reviewed'
  BY <1>18, ReplacementReviewed DEF FallBack, NotAligned, VerdictUnchanged
<1>19. CASE JournalFull
  BY <1>19, UnansweredReviewed DEF JournalFull, Escape, Finish
<1>21. CASE SourceFails
  <2>1. CASE AgentFailure
    BY <1>21, <2>1, FailureReviewed DEF SourceFails, ReplyUnchanged
  <2>2. CASE Escape
    BY <1>21, <2>2, UnansweredReviewed DEF SourceFails, ReplyUnchanged, Escape, Finish
  <2> QED BY <1>21, <2>1, <2>2 DEF SourceFails
<1>20. CASE UNCHANGED vars
  BY <1>20 DEF vars, candidate, Reviewed, ReplyReviewed
<1> QED
  BY <1>1, <1>2, <1>3, <1>4, <1>5, <1>6, <1>7, <1>8, <1>9, <1>10, <1>11, <1>12, <1>13,
     <1>14, <1>15, <1>16, <1>17, <1>18, <1>19, <1>20, <1>21
  DEF Next, RefetchDocuments, RefetchReportScope

\* Whatever the request, the plans and the limits, a planned reply leaves the turn
\* approved as it is, as the fallback or as a refusal (ensure_aligned_v2_response).
THEOREM ReviewedTheorem == Spec => []ReplyReviewed
<1>1. Init => Reviewed
  BY DEF Init, Reviewed, ReplyReviewed
<1>2. Reviewed => ReplyReviewed
  BY DEF Reviewed
<1> QED BY <1>1, <1>2, ReviewedStep, PTL DEF Spec

-----------------------------------------------------------------------------
(* Whatever the adapter and the models answer, what a reply sends is       *)
(* allowed and was resolved for it. A candidate that is being built has no *)
(* reply, so the evidence never changes under one that sends something.    *)

Building == {"adapter", "documents", "static", "render"}

Sent ==
    /\ policy.eligible \subseteq Manifests
    /\ stage \in Building => reply.actions = {}
    /\ SentIsResolved

\* What of a request's manifests is eligible are manifests.
LEMMA EligibleManifests ==
    ASSUME NEW request PROVE compile_policy(request).eligible \subseteq Manifests
BY DEF compile_policy, Eligible

\* The replies the program renders send nothing but in an action plan.
LEMMA RenderedActions ==
    ASSUME NEW p, NEW e, NEW pol
    PROVE  \/ RenderedReply(p, e, pol).actions = {}
           \/ RenderedReply(p, e, pol) = ActionReply(p, e, pol)
BY DEF RenderedReply, HandoffReply, Reply, Unable

\* An action is of a unit that is permitted and whose artifact was resolved.
LEMMA ActionsResolved ==
    ASSUME NEW p, NEW e, NEW pol, pol.eligible \subseteq Manifests,
           NEW action \in ActionReply(p, e, pol).actions
    PROVE  /\ Manifest(action.type, "send") \in pol.eligible
           /\ action.type \in DOMAIN e.preflight
           /\ e.preflight[action.type] = "resolved"
<1>1. PICK i \in SendUnits(p) :
        /\ action = ActionOf(i, p, e, pol)
        /\ Permitted(p.units[i], pol)
        /\ Sendable(e, p.units[i], pol)
  BY DEF ActionReply, Reply, Unable
<1>2. action.type = p.units[i].manifest.of
  BY <1>1 DEF ActionOf
<1>3. p.units[i].manifest \in pol.eligible
  BY <1>1 DEF Permitted
<1>4. p.units[i].manifest = Manifest(p.units[i].manifest.of, "send")
  <2>1. p.units[i].manifest.use = "send"
    BY <1>1 DEF Sendable
  <2>2. p.units[i].manifest \in Manifests
    BY <1>3
  <2> QED BY <2>1, <2>2 DEF Manifests, Manifest, SalesHandoff, CompanyKnowledge, General
<1>5. /\ action.type \in DOMAIN e.preflight
      /\ e.preflight[action.type] = "resolved"
  <2>1. FactsFor(e, p.units[i], action.type, pol) # {}
    BY <1>1, <1>2 DEF Sendable
  <2>2. ResolvedIn(e, action.type)
    BY <2>1 DEF FactsFor
  <2> QED BY <1>1, <1>2, <2>2 DEF Sendable, ResolvedIn
<1> QED BY <1>2, <1>3, <1>4, <1>5

\* Without evidence nothing is sent.
LEMMA NothingUnresolved ==
    ASSUME NEW p, NEW pol PROVE RenderedReply(p, NoEvidence, pol).actions = {}
<1>1. ASSUME NEW unit PROVE ~Sendable(NoEvidence, unit, pol)
  BY DEF Sendable, FactsFor, NoEvidence, Evidence
<1>2. ActionReply(p, NoEvidence, pol) = Unable
  BY <1>1 DEF ActionReply
<1> QED BY <1>2, RenderedActions DEF Unable, Reply

\* A reply that sends nothing is fine, and so is one nothing changes under.
LEMMA NothingSent ==
    ASSUME Sent, UNCHANGED policy, reply'.actions = {} PROVE Sent'
BY DEF Sent, SentIsResolved

LEMMA SentKept ==
    ASSUME Sent, UNCHANGED <<policy, reply, evidence>>,
           stage' \notin Building \/ stage \in Building
    PROVE  Sent'
BY DEF Sent, SentIsResolved

LEMMA ReplacementSent ==
    ASSUME Sent, NEW remediation, Replace(remediation), UNCHANGED policy PROVE Sent'
BY NothingSent, NothingUnresolved DEF Replace

LEMMA FailureSent ==
    ASSUME Sent, AgentFailure, UNCHANGED policy PROVE Sent'
BY ReplacementSent, SentKept DEF AgentFailure, Finish, candidate, Building

LEMMA CallSent ==
    ASSUME Sent, CallFails, UNCHANGED policy PROVE Sent'
BY FailureSent, SentKept DEF CallFails, Escape, Finish, candidate, Building

LEMMA BuildSent ==
    ASSUME Sent, NEW p, BuildFrom(p), UNCHANGED policy PROVE Sent'
BY FailureSent, NothingSent DEF BuildFrom, NoReply, Reply

\* A candidate's reply is rendered from its own evidence.
LEMMA CandidateSent ==
    ASSUME Sent, NEW p, CandidateComplete(p, RenderedReply(p, evidence, policy)),
           UNCHANGED policy
    PROVE  Sent'
<1>1. /\ reply' = RenderedReply(p, evidence, policy)
      /\ evidence' = evidence
  BY DEF CandidateComplete
<1>2. CASE reply'.actions = {}
  BY <1>2, NothingSent
<1>3. CASE reply' = ActionReply(p, evidence, policy)
  <2>1. SentIsResolved'
    BY <1>1, <1>3, ActionsResolved DEF Sent, SentIsResolved
  <2>2. stage \notin Building \/ stage' \notin Building
    BY DEF CandidateComplete, Building
  <2> QED BY <2>1, <2>2, NothingSent DEF Sent, CandidateComplete, Building
<1> QED BY <1>1, <1>2, <1>3, RenderedActions

LEMMA SentStep == Sent /\ [Next]_vars => Sent'
<1> SUFFICES ASSUME Sent, [Next]_vars PROVE Sent'
  OBVIOUS
<1>1. CASE RouteMatched
  BY <1>1, BuildSent, SentKept DEF RouteMatched, Escape, Finish, candidate, Building
<1>2. CASE CollectRecall
  BY <1>2, SentKept DEF CollectRecall, candidate, Building
<1>3. ASSUME NEW units \in PlanSpecs, PlannerAnswers(units) PROVE Sent'
  BY <1>3, BuildSent DEF PlannerAnswers, PlannerUnchanged
<1>4. CASE PlannerInvalid
  BY <1>4, FailureSent, SentKept DEF PlannerInvalid, PlannerUnchanged, candidate, Building
<1>5. CASE PlannerFails
  BY <1>5, CallSent DEF PlannerFails, PlannerUnchanged
<1>6. CASE ReadAdapter
  <2>1. reply.actions = {} /\ UNCHANGED <<policy, reply>>
    BY <1>6 DEF ReadAdapter, Sent, Building
  <2> QED BY <2>1, NothingSent
<1>7. ASSUME NEW found \in BOOLEAN, SelectDocuments(found) \/ SelectStatic(found)
      PROVE  Sent'
  <2>1. reply.actions = {} /\ UNCHANGED <<policy, reply>>
    BY <1>7 DEF SelectDocuments, SelectStatic, LookupUnchanged, Sent, Building
  <2> QED BY <2>1, NothingSent
<1>8. ASSUME NEW asked \in BOOLEAN, NoDocuments(asked) PROVE Sent'
  BY <1>8, SentKept DEF NoDocuments, LookupUnchanged, candidate, Building
<1>9. CASE StaticFails
  BY <1>9, SentKept DEF StaticFails, LookupUnchanged, Escape, Finish, candidate, Building
<1>10. CASE Render
  <2>1. UNCHANGED policy /\ stage \in Building
    BY <1>10 DEF Render, ReplyUnchanged, Building
  <2>2. CASE \E p : CandidateComplete(p, RenderedReply(p, evidence, policy))
    BY <2>1, <2>2, CandidateSent
  <2>3. CASE UNCHANGED candidate
    BY <2>1, <2>3, SentKept DEF candidate
  <2> QED BY <1>10, <2>2, <2>3 DEF Render, Escape, Finish
<1>11. ASSUME NEW accepted \in BOOLEAN, Compose(accepted) PROVE Sent'
  <2>1. reply'.actions = {} /\ UNCHANGED policy
    BY <1>11 DEF Compose, ReplyUnchanged, CandidateComplete, Reply, Unable
  <2> QED BY <2>1, NothingSent
<1>12. CASE ComposerFails
  BY <1>12, CallSent DEF ComposerFails, CallFails, ReplyUnchanged
<1>13. CASE VerifierAligned
  BY <1>13, SentKept DEF VerifierAligned, VerdictUnchanged, Finish, candidate, Building
<1>14. CASE VerifierFails
  BY <1>14, ReplacementSent, SentKept
  DEF VerifierFails, VerdictUnchanged, Finish, candidate, Building
<1>15. CASE RemediateReplan
  BY <1>15, SentKept DEF RemediateReplan, NotAligned, VerdictUnchanged, candidate, Building
<1>16. CASE RemediateRecompose
  <2>1. UNCHANGED policy
    BY <1>16 DEF RemediateRecompose, NotAligned, VerdictUnchanged
  <2>2. CASE reply' = NoReply
    BY <2>1, <2>2, NothingSent DEF NoReply, Reply
  <2>3. CASE Finish("agent_error")
    BY <2>1, <2>3, SentKept DEF Finish, candidate, Building
  <2> QED BY <1>16, <2>2, <2>3 DEF RemediateRecompose
<1>17. CASE \E r : RemediateRefetch(r)
  <2>1. UNCHANGED policy
    BY <1>17 DEF RemediateRefetch, NotAligned, VerdictUnchanged
  <2>2. CASE reply' = NoReply
    BY <2>1, <2>2, NothingSent DEF NoReply, Reply
  <2>3. CASE Finish("escape")
    BY <2>1, <2>3, SentKept DEF Finish, candidate, Building
  <2> QED BY <1>17, <2>2, <2>3 DEF RemediateRefetch
<1>18. ASSUME NEW remediation \in Remediations, FallBack(remediation) PROVE Sent'
  BY <1>18, ReplacementSent DEF FallBack, NotAligned, VerdictUnchanged
<1>19. CASE JournalFull
  BY <1>19, SentKept DEF JournalFull, Escape, Finish, candidate, Building
<1>21. CASE SourceFails
  <2>1. CASE AgentFailure
    BY <1>21, <2>1, FailureSent DEF SourceFails, ReplyUnchanged
  <2>2. CASE Escape
    BY <1>21, <2>2, SentKept
    DEF SourceFails, ReplyUnchanged, Escape, Finish, candidate, Building
  <2> QED BY <1>21, <2>1, <2>2 DEF SourceFails
<1>20. CASE UNCHANGED vars
  BY <1>20 DEF vars, candidate, Sent, SentIsResolved
<1> QED
  BY <1>1, <1>2, <1>3, <1>4, <1>5, <1>6, <1>7, <1>8, <1>9, <1>10, <1>11, <1>12, <1>13,
     <1>14, <1>15, <1>16, <1>17, <1>18, <1>19, <1>20, <1>21
  DEF Next, RefetchDocuments, RefetchReportScope

\* Whatever the grants and offers of a request, what its reply sends is of an eligible
\* capability and was resolved, with its period, by the adapter call of that candidate
\* (_action_reply, execute_v2).
THEOREM SentTheorem == Spec => []SentIsResolved
<1>1. Init => Sent
  BY EligibleManifests DEF Init, Sent, SentIsResolved, NoReply, Reply, Building
<1>2. Sent => SentIsResolved
  BY DEF Sent
<1> QED BY <1>1, <1>2, SentStep, PTL DEF Spec

-----------------------------------------------------------------------------
(* Types. What the candidate's steps set, and what the rest of them do.    *)

Origins == {"none", "input_policy", "direct_send", "planner", "deterministic", "remediation"}
Outcomes == {"none", "answered", "agent_error", "contract_error", "escape"}

CandidateTyped ==
    /\ stage \in Stages /\ doing \in Doings /\ outcome \in Outcomes
    /\ plan.origin \in Origins /\ DOMAIN plan.units \subseteq Nat
    /\ built \in Nat /\ approved \in 0..built

CountersTyped ==
    /\ replans \in 0..MaxReplans /\ refetches \in 0..MaxRefetches
    /\ recomposes \in 0..MaxRecomposes
    /\ Total <= MaxTotal

TurnTyped ==
    /\ repaired \in BOOLEAN /\ looksOnce \in BOOLEAN /\ recalled \in BOOLEAN
    /\ rows \in 0..Capacity
    /\ todo \subseteq Nat

Typed == CandidateTyped /\ CountersTyped /\ TurnTyped

\* The limits are small numbers and the journal has some room.
LEMMA LimitsNat ==
    /\ MaxTotal \in 0..2
    /\ MaxReplans \in 0..MaxTotal /\ MaxRefetches \in 0..MaxTotal
    /\ MaxRecomposes \in 0..MaxTotal
    /\ Capacity \in Nat
<1>1. /\ MaxTotal \in 0..2
      /\ MaxReplans \in 0..MaxTotal /\ MaxRefetches \in 0..MaxTotal
      /\ MaxRecomposes \in 0..MaxTotal
  BY LimitsAssumption
<1>2. Capacity \in Nat
  BY <1>1 DEF Capacity, Lesser
<1> QED BY <1>1, <1>2

\* A plan the program makes has one unit.
LEMMA ProgramPlanTyped ==
    ASSUME NEW origin, NEW manifest, NEW answerability
    PROVE  /\ ProgramPlan(origin, manifest, answerability).origin = origin
           /\ DOMAIN ProgramPlan(origin, manifest, answerability).units \subseteq Nat
BY DEF ProgramPlan, Plan

LEMMA FinishTyped ==
    ASSUME CandidateTyped, NEW how \in Outcomes, Finish(how), doing' \in Doings,
           UNCHANGED approved
    PROVE  CandidateTyped'
BY DEF CandidateTyped, Finish, candidate, Stages

LEMMA ReplaceTyped ==
    ASSUME CandidateTyped, NEW remediation, Replace(remediation), UNCHANGED approved
    PROVE  CandidateTyped'
<1>1. plan'.origin = "remediation" /\ DOMAIN plan'.units \subseteq Nat
  BY ProgramPlanTyped DEF Replace, ReplacementPlan
<1> QED BY <1>1 DEF CandidateTyped, Replace, Stages, Doings, Origins, Outcomes

LEMMA FailureTyped ==
    ASSUME CandidateTyped, AgentFailure, UNCHANGED approved PROVE CandidateTyped'
<1>1. CASE doing = "replan"
  BY <1>1, ReplaceTyped DEF AgentFailure
<1>2. CASE doing # "replan"
  BY <1>2, FinishTyped DEF AgentFailure, CandidateTyped, Outcomes
<1> QED BY <1>1, <1>2

LEMMA BuildTyped ==
    ASSUME CandidateTyped, NEW p, p.origin \in Origins, DOMAIN p.units \subseteq Nat,
           BuildFrom(p), UNCHANGED approved
    PROVE  CandidateTyped'
BY FailureTyped DEF BuildFrom, CandidateTyped, Stages

LEMMA CompleteTyped ==
    ASSUME CandidateTyped, NEW p, p.origin \in Origins, DOMAIN p.units \subseteq Nat,
           NEW r, CandidateComplete(p, r), UNCHANGED approved
    PROVE  CandidateTyped'
BY DEF CandidateComplete, CandidateTyped, Stages, Outcomes

LEMMA EscapeTyped ==
    ASSUME CandidateTyped, Escape, UNCHANGED approved PROVE CandidateTyped'
BY FinishTyped DEF Escape, CandidateTyped, Outcomes

LEMMA CallTyped ==
    ASSUME CandidateTyped, CallFails, UNCHANGED approved PROVE CandidateTyped'
BY FailureTyped, EscapeTyped DEF CallFails

\* A turn that keeps its candidate and goes on.
LEMMA OnwardTyped ==
    ASSUME CandidateTyped, UNCHANGED <<plan, built, outcome, approved>>,
           stage' \in Stages, doing' \in Doings
    PROVE  CandidateTyped'
BY DEF CandidateTyped

\* The plan a message alone is answered with.
LEMMA MatchedTyped ==
    MatchedPlan.origin \in Origins /\ DOMAIN MatchedPlan.units \subseteq Nat
BY ProgramPlanTyped DEF MatchedPlan, input_policy_plan, direct_send_plan, Origins

LEMMA ResolutionTyped ==
    ASSUME NEW e
    PROVE  ResolutionPlan(e).origin \in Origins /\ DOMAIN ResolutionPlan(e).units \subseteq Nat
BY ProgramPlanTyped DEF ResolutionPlan, Origins

LEMMA PlannedTyped ==
    ASSUME NEW units \in PlanSpecs
    PROVE  /\ Plan("planner", units).origin \in Origins
           /\ DOMAIN Plan("planner", units).units \subseteq Nat
<1>1. units \in Seq(Units)
  BY PlanSpecsAssumption
<1>2. DOMAIN units = 1..Len(units) /\ Len(units) \in Nat
  BY <1>1
<1> QED BY <1>2 DEF Plan, Origins

\* Every step keeps the candidate's types.
LEMMA CandidateTypedStep == CandidateTyped /\ [Next]_vars => CandidateTyped'
<1> SUFFICES ASSUME CandidateTyped, [Next]_vars PROVE CandidateTyped'
  OBVIOUS
<1> USE DEF candidate
<1>1. CASE RouteMatched
  BY <1>1, MatchedTyped, BuildTyped, EscapeTyped DEF RouteMatched
<1>2. CASE CollectRecall
  BY <1>2, OnwardTyped DEF CollectRecall, CandidateTyped, Stages
<1>3. ASSUME NEW units \in PlanSpecs, PlannerAnswers(units) PROVE CandidateTyped'
  BY <1>3, PlannedTyped, BuildTyped DEF PlannerAnswers, PlannerUnchanged
<1>4. CASE PlannerInvalid
  BY <1>4, FailureTyped, OnwardTyped DEF PlannerInvalid, PlannerUnchanged, CandidateTyped
<1>5. CASE PlannerFails
  BY <1>5, CallTyped DEF PlannerFails, PlannerUnchanged
<1>6. CASE ReadAdapter
  BY <1>6, OnwardTyped DEF ReadAdapter, CandidateTyped, Stages
<1>7. ASSUME NEW found \in BOOLEAN, SelectDocuments(found) \/ SelectStatic(found)
      PROVE  CandidateTyped'
  BY <1>7, OnwardTyped DEF SelectDocuments, SelectStatic, LookupUnchanged, CandidateTyped, Stages
<1>8. ASSUME NEW asked \in BOOLEAN, NoDocuments(asked) PROVE CandidateTyped'
  BY <1>8, OnwardTyped DEF NoDocuments, LookupUnchanged, CandidateTyped, Stages
<1>9. CASE StaticFails
  BY <1>9, EscapeTyped DEF StaticFails, LookupUnchanged
<1>10. CASE Render
  <2>1. UNCHANGED approved
    BY <1>10 DEF Render, ReplyUnchanged
  <2>2. CASE \E r : CandidateComplete(ResolutionPlan(evidence), r)
    BY <2>1, <2>2, CompleteTyped, ResolutionTyped
  <2>3. CASE \E r : CandidateComplete(plan, r)
    BY <2>1, <2>3, CompleteTyped DEF CandidateTyped
  <2>4. CASE Escape
    BY <2>1, <2>4, EscapeTyped
  <2>5. CASE stage' = "compose" /\ UNCHANGED <<doing, candidate, built, outcome>>
    BY <2>1, <2>5, OnwardTyped DEF CandidateTyped, Stages
  <2> QED BY <1>10, <2>2, <2>3, <2>4, <2>5 DEF Render
<1>11. ASSUME NEW accepted \in BOOLEAN, Compose(accepted) PROVE CandidateTyped'
  <2>1. UNCHANGED approved /\ \E r : CandidateComplete(plan, r)
    BY <1>11 DEF Compose, ReplyUnchanged
  <2> QED BY <2>1, CompleteTyped DEF CandidateTyped
<1>12. CASE ComposerFails
  BY <1>12, CallTyped DEF ComposerFails, CallFails, ReplyUnchanged
<1>13. CASE VerifierAligned
  BY <1>13 DEF VerifierAligned, Finish, CandidateTyped, Stages, Outcomes
<1>14. CASE VerifierFails
  BY <1>14, FinishTyped, ReplaceTyped DEF VerifierFails, CandidateTyped, Outcomes
<1>15. CASE RemediateReplan
  BY <1>15, OnwardTyped DEF RemediateReplan, NotAligned, Stages, Doings
<1>16. CASE RemediateRecompose
  BY <1>16, OnwardTyped, FinishTyped
  DEF RemediateRecompose, NotAligned, Stages, Doings, Outcomes
<1>17. CASE \E r : RemediateRefetch(r)
  BY <1>17, OnwardTyped, FinishTyped
  DEF RemediateRefetch, NotAligned, Stages, Doings, Outcomes
<1>18. ASSUME NEW remediation \in Remediations, FallBack(remediation) PROVE CandidateTyped'
  BY <1>18, ReplaceTyped DEF FallBack, NotAligned
<1>19. CASE JournalFull
  BY <1>19, EscapeTyped DEF JournalFull
<1>21. CASE SourceFails
  BY <1>21, EscapeTyped, FailureTyped DEF SourceFails, ReplyUnchanged
<1>20. CASE UNCHANGED vars
  BY <1>20 DEF vars, CandidateTyped
<1> QED
  BY <1>1, <1>2, <1>3, <1>4, <1>5, <1>6, <1>7, <1>8, <1>9, <1>10, <1>11, <1>12, <1>13,
     <1>14, <1>15, <1>16, <1>17, <1>18, <1>19, <1>20, <1>21
  DEF Next, RefetchDocuments, RefetchReportScope

\* Only a verdict counts a remediation, and only while there is one left.
LEMMA CountersTypedStep == CountersTyped /\ [Next]_vars => CountersTyped'
<1> SUFFICES ASSUME CountersTyped, [Next]_vars PROVE CountersTyped'
  OBVIOUS
<1>1. CASE UNCHANGED counters
  BY <1>1 DEF CountersTyped, counters, Total
<1>2. CASE RemediateReplan
  BY <1>2, LimitsNat DEF RemediateReplan, Left, CountersTyped, Total
<1>3. CASE RemediateRecompose
  BY <1>3, LimitsNat DEF RemediateRecompose, Left, CountersTyped, Total
<1>4. CASE \E r : RemediateRefetch(r)
  BY <1>4, LimitsNat DEF RemediateRefetch, Left, CountersTyped, Total
<1>5. CASE UNCHANGED vars
  BY <1>1, <1>5 DEF vars
<1> QED
  BY <1>1, <1>2, <1>3, <1>4, <1>5
  DEF Next, RefetchDocuments, RefetchReportScope, RouteMatched, CollectRecall,
      PlannerAnswers, PlannerInvalid, PlannerFails, PlannerUnchanged, ReadAdapter,
      SelectDocuments, SelectStatic, NoDocuments, StaticFails, LookupUnchanged, Render,
      Compose, ComposerFails, ReplyUnchanged, VerifierAligned, VerifierFails, FallBack,
      JournalFull, SourceFails

\* A call takes a row that is there, or none.
LEMMA RowsTyped ==
    ASSUME rows \in 0..Capacity, Reserve \/ UNCHANGED rows
    PROVE  rows' \in 0..Capacity
BY LimitsNat DEF Reserve, HasRow

\* The units looked up are among the plan's.
LEMMA LookupUnitsNat ==
    ASSUME CandidateTyped PROVE LookupUnits \subseteq Nat
BY DEF LookupUnits, KnowledgeTargets, CandidateTyped

LEMMA TurnTypedStep == CandidateTyped /\ TurnTyped /\ [Next]_vars => TurnTyped'
<1> SUFFICES ASSUME CandidateTyped, TurnTyped, [Next]_vars PROVE TurnTyped'
  OBVIOUS
<1>1. Reserve \/ UNCHANGED rows
  BY DEF Next, RefetchDocuments, RefetchReportScope, RemediateRefetch, RemediateReplan,
         RemediateRecompose, FallBack, NotAligned, VerifierAligned, VerifierFails,
         RouteMatched, CollectRecall, PlannerAnswers, PlannerInvalid, PlannerFails,
         ReadAdapter, SelectDocuments, SelectStatic, NoDocuments, StaticFails, Render,
         Compose, ComposerFails, JournalFull, SourceFails, ReplyUnchanged,
         Reserve, vars
<1>2. rows' \in 0..Capacity
  BY <1>1, RowsTyped DEF TurnTyped
<1>3. todo' \subseteq Nat
  <2>1. CASE ReadAdapter
    BY <2>1, LookupUnitsNat DEF ReadAdapter
  <2>2. CASE \E found \in BOOLEAN : SelectStatic(found)
    BY <2>2 DEF SelectStatic, LookedUp, TurnTyped
  <2>3. CASE UNCHANGED todo
    BY <2>3 DEF TurnTyped
  <2> QED
    BY <2>1, <2>2, <2>3
    DEF Next, RefetchDocuments, RefetchReportScope, RemediateRefetch, RemediateReplan,
        RemediateRecompose, FallBack, NotAligned, VerdictUnchanged, VerifierAligned,
        VerifierFails, RouteMatched, CollectRecall, PlannerAnswers, PlannerInvalid,
        PlannerFails, PlannerUnchanged, SelectDocuments, NoDocuments, StaticFails,
        Render, Compose, ComposerFails, ReplyUnchanged, JournalFull, SourceFails,
        vars
<1>4. repaired' \in BOOLEAN /\ looksOnce' \in BOOLEAN /\ recalled' \in BOOLEAN
  <2>1. CASE PlannerInvalid
    BY <2>1 DEF PlannerInvalid, PlannerUnchanged, TurnTyped
  <2>2. CASE ReadAdapter
    BY <2>2 DEF ReadAdapter, TurnTyped
  <2>3. CASE CollectRecall
    BY <2>3 DEF CollectRecall, TurnTyped
  <2>4. CASE UNCHANGED <<repaired, looksOnce, recalled>>
    BY <2>4 DEF TurnTyped
  <2> QED
    BY <2>1, <2>2, <2>3, <2>4
    DEF Next, RefetchDocuments, RefetchReportScope, RemediateRefetch, RemediateReplan,
        RemediateRecompose, FallBack, NotAligned, VerdictUnchanged, VerifierAligned,
        VerifierFails, RouteMatched, PlannerAnswers, PlannerFails, PlannerUnchanged,
        SelectDocuments, SelectStatic, NoDocuments, StaticFails, LookupUnchanged,
        Render, Compose, ComposerFails, ReplyUnchanged, JournalFull, SourceFails,
        vars
<1> QED BY <1>2, <1>3, <1>4 DEF TurnTyped

LEMMA TypedInit == Init => Typed
<1> SUFFICES ASSUME Init PROVE Typed
  OBVIOUS
<1>1. CandidateTyped
  <2>1. plan.origin = "none" /\ DOMAIN plan.units = {}
    BY DEF Init, Plan
  <2> QED BY <2>1 DEF Init, CandidateTyped, Stages, Doings, Outcomes, Origins
<1>2. CountersTyped
  BY LimitsNat DEF Init, CountersTyped, Total
<1>3. TurnTyped
  <2>1. /\ repaired \in BOOLEAN /\ looksOnce \in BOOLEAN /\ recalled \in BOOLEAN
        /\ todo = {}
    BY DEF Init
  <2>2. rows \in 0..Capacity
    BY LimitsNat DEF Init
  <2> QED BY <2>1, <2>2 DEF TurnTyped
<1> QED BY <1>1, <1>2, <1>3 DEF Typed

LEMMA TypedStep == Typed /\ [Next]_vars => Typed'
BY CandidateTypedStep, CountersTypedStep, TurnTypedStep DEF Typed

\* Whatever the limits and the plans, a turn stays within its remediations and its
\* journal (ReplyAlignmentLimitsV1, TurnLlmInvocationJournalV1.reserve).
THEOREM TypeTheorem == Spec => []TypeOK
<1>1. Typed => TypeOK
  BY DEF Typed, CandidateTyped, CountersTyped, TurnTyped, TypeOK, Origins, Outcomes
<1> QED BY <1>1, TypedInit, TypedStep, PTL DEF Spec

-----------------------------------------------------------------------------
(* The journal. Up to its verdict a turn that looks one thing up has spent *)
(* no more than five rows and what its remediations cost: a replan five, a *)
(* recompose two, but a refetch four, one more than Capacity counts for    *)
(* it. There are at most two, and the first candidate leaves that much.    *)

Cost == 5 * replans + 4 * refetches + 2 * recomposes

\* What a turn has spent at its stage beside the cost of its remediations.
Allowance ==
    IF stage = "route" THEN 0
    ELSE IF stage = "plan" /\ doing = "initial" /\ ~repaired THEN 0
    ELSE IF stage = "plan" THEN 1
    ELSE IF stage \in {"adapter", "documents"} THEN 2
    ELSE IF stage = "static" THEN 3
    ELSE IF stage \in {"render", "compose"} THEN 4 ELSE 5

\* A lookup is for a unit, the only one of a turn that looks one thing up.
Looking ==
    /\ stage \in {"documents", "static"} => todo # {}
    /\ looksOnce /\ stage \in {"documents", "static"} => \A i, j \in todo : i = j

Fits == looksOnce /\ stage # "done" => rows <= Cost + Allowance

\* What the remediations cost leaves six rows.
LEMMA CostFits ==
    ASSUME CountersTyped PROVE Cost \in Nat /\ Cost + 6 <= Capacity
BY LimitsNat DEF CountersTyped, Total, Cost, Capacity, Lesser

\* A turn that looks one thing up looks up its plan's only one and is done.
LEMMA LookingStep ==
    ASSUME CandidateTyped, TurnTyped, Looking, [Next]_vars PROVE Looking'
<1>1. CASE ReadAdapter
  BY <1>1 DEF ReadAdapter, Looking
<1>2. CASE \E found \in BOOLEAN : SelectStatic(found)
  BY <1>2 DEF SelectStatic, LookupUnchanged, LookedUp, Looking
<1>3. CASE stage' \notin {"documents", "static"}
  BY <1>3 DEF Looking
<1>4. CASE stage \in {"documents", "static"} /\ UNCHANGED <<todo, looksOnce>>
  BY <1>4 DEF Looking
<1> QED
  BY <1>1, <1>2, <1>3, <1>4
  DEF Next, RefetchDocuments, RefetchReportScope, RemediateRefetch, RemediateReplan,
      RemediateRecompose, FallBack, NotAligned, VerifierAligned, VerifierFails,
      RouteMatched, CollectRecall, PlannerAnswers, PlannerInvalid, PlannerFails,
      SelectDocuments, NoDocuments, LookupUnchanged, StaticFails, Render, Compose,
      ComposerFails, JournalFull, SourceFails, CallFails, AgentFailure, Replace, Finish, Escape,
      BuildFrom, CandidateComplete, vars

\* Every step of a turn that looks one thing up has its row allowed for.
LEMMA FitsStep ==
    ASSUME Typed, Looking, Fits, [Next]_vars PROVE Fits'
<1> DEFINE Ended == stage' = "done"
<1>1. /\ rows \in Nat /\ Cost \in Nat
      /\ replans \in Nat /\ refetches \in Nat /\ recomposes \in Nat
  BY LimitsNat, CostFits DEF Typed, CountersTyped, TurnTyped
<1>2. CASE Ended
  BY <1>2 DEF Fits
<1>3. CASE RouteMatched /\ ~Ended
  BY <1>1, <1>3
  DEF RouteMatched, BuildFrom, Escape, Finish, AgentFailure, Replace, Fits, Allowance,
      Cost, counters
<1>4. CASE CollectRecall
  BY <1>1, <1>4 DEF CollectRecall, Fits, Allowance, Cost, counters
<1>5. ASSUME NEW units \in PlanSpecs, PlannerAnswers(units), ~Ended PROVE Fits'
  BY <1>1, <1>5
  DEF PlannerAnswers, PlannerUnchanged, BuildFrom, Finish, AgentFailure, Replace, Reserve,
      Fits, Allowance, Cost, counters
<1>6. CASE PlannerInvalid /\ ~Ended
  BY <1>1, <1>6
  DEF PlannerInvalid, PlannerUnchanged, MayRepair, Finish, AgentFailure, Replace, Reserve,
      Fits, Allowance, Cost, counters
<1>7. CASE ReadAdapter
  <2>1. looksOnce' => looksOnce
    BY <1>7 DEF ReadAdapter
  <2>2. /\ stage = "adapter" /\ stage' \in {"documents", "render"}
        /\ UNCHANGED <<rows, counters>>
    BY <1>7 DEF ReadAdapter
  <2> QED BY <1>1, <2>1, <2>2 DEF Fits, Allowance, Cost, counters
<1>8. ASSUME NEW found \in BOOLEAN, SelectDocuments(found) PROVE Fits'
  BY <1>1, <1>8
  DEF SelectDocuments, LookupUnchanged, Reserve, Fits, Allowance, Cost, counters
<1>9. ASSUME NEW asked \in BOOLEAN, NoDocuments(asked) PROVE Fits'
  BY <1>1, <1>9
  DEF NoDocuments, LookupUnchanged, Reserve, Fits, Allowance, Cost, counters
<1>10. ASSUME NEW found \in BOOLEAN, SelectStatic(found) PROVE Fits'
  <2>1. looksOnce => todo' = {}
    <3>1. ASSUME looksOnce PROVE todo \ {Target} = {}
      <4>1. PICK i \in todo : todo = {i}
        BY <1>10, <3>1 DEF SelectStatic, Looking
      <4>2. i \in Nat /\ \A j \in todo : i <= j
        BY <4>1 DEF Typed, TurnTyped
      <4>3. Target \in todo
        BY <4>1, <4>2 DEF Target
      <4> QED BY <4>1, <4>3
    <3> QED BY <1>10, <3>1 DEF SelectStatic, LookedUp
  <2> QED
    BY <1>1, <1>10, <2>1
    DEF SelectStatic, LookupUnchanged, Reserve, Fits, Allowance, Cost, counters
<1>11. CASE Render /\ ~Ended
  BY <1>1, <1>11
  DEF Render, ReplyUnchanged, CandidateComplete, Escape, Finish, Fits, Allowance, Cost,
      counters
<1>12. ASSUME NEW accepted \in BOOLEAN, Compose(accepted), ~Ended PROVE Fits'
  <2>1. stage' = "verify"
    BY <1>12 DEF Compose, CandidateComplete
  <2>2. stage = "compose" /\ rows' = rows + 1 /\ UNCHANGED <<looksOnce, counters>>
    BY <1>12 DEF Compose, ReplyUnchanged, Reserve
  <2> QED BY <1>1, <2>1, <2>2 DEF Fits, Allowance, Cost, counters
<1>13. CASE RemediateReplan
  BY <1>1, <1>13
  DEF RemediateReplan, NotAligned, VerdictUnchanged, Reserve, Fits, Allowance, Cost
<1>14. CASE RemediateRecompose /\ ~Ended
  BY <1>1, <1>14
  DEF RemediateRecompose, NotAligned, VerdictUnchanged, Reserve, Finish, Fits, Allowance,
      Cost
<1>15. CASE (\E r : RemediateRefetch(r)) /\ ~Ended
  BY <1>1, <1>15
  DEF RemediateRefetch, NotAligned, VerdictUnchanged, Reserve, Finish, Fits, Allowance,
      Cost
<1>16. CASE UNCHANGED vars
  BY <1>16 DEF vars, counters, Fits, Allowance, Cost
<1> QED
  BY <1>2, <1>3, <1>4, <1>5, <1>6, <1>7, <1>8, <1>9, <1>10, <1>11, <1>12, <1>13, <1>14,
     <1>15, <1>16
  DEF Next, RefetchDocuments, RefetchReportScope, PlannerFails, StaticFails,
      ComposerFails, VerifierAligned, VerifierFails, FallBack, JournalFull, SourceFails,
      CallFails, AgentFailure, Replace, Finish, Escape

\* Whatever the limits, the plans and the answers, a turn that looks up one piece of
\* company knowledge at a time has a row for every call (maximum_llm_invocation_rows).
THEOREM OneLookupTheorem == Spec => []OneLookupFits
<1> DEFINE Journal == Typed /\ Looking /\ Fits
<1>1. Init => Journal
  BY TypedInit DEF Init, Looking, Fits, Allowance, Cost
<1>2. Journal /\ [Next]_vars => Journal'
  BY TypedStep, LookingStep, FitsStep DEF Typed
<1>3. Journal => OneLookupFits
  <2> SUFFICES ASSUME Journal, looksOnce,
                      stage \in {"plan", "documents", "static", "compose", "verify"}
               PROVE  HasRow
    BY DEF OneLookupFits, DispatchesFit
  <2>1. Cost \in Nat /\ Cost + 6 <= Capacity
    BY CostFits DEF Typed
  <2>2. rows <= Cost + Allowance /\ rows \in Nat
    BY DEF Fits, Typed, TurnTyped
  <2>3. Allowance \in 0..5
    BY DEF Allowance
  <2> QED BY <2>1, <2>2, <2>3, LimitsNat DEF HasRow
<1> QED BY <1>1, <1>2, <1>3, PTL DEF Spec

-----------------------------------------------------------------------------
(* Plans of the program's own. What a policy opens is what the program's   *)
(* plans need; a plan made in place of one whose pack was not resolved     *)
(* keeps its evidence until the turn ends or plans again.                  *)

\* What the compiler of policies grants every plan the program makes.
Ruled(p) ==
    /\ General("clarification") \in p.eligible
    /\ General("abstention") \in p.eligible
    /\ p.scene = "direct" => General("handoff") \in p.eligible
    /\ "sales_mention" \in p.resolves =>
        SalesHandoff \in p.eligible /\ p.mentions /\ p.scene # "direct"

\* Every compiled policy does.
LEMMA CompiledRuled ==
    ASSUME NEW request PROVE Ruled(compile_policy(request))
<1> DEFINE p == compile_policy(request)
<1>1. /\ p.eligible = Eligible(request) /\ p.scene = request.scene
      /\ p.resolves = AllowedResolves(request)
      /\ p.mentions = (request.scene # "direct" /\ request.mentions)
  BY DEF compile_policy
<1>2. /\ General("clarification") \in Eligible(request)
      /\ General("abstention") \in Eligible(request)
      /\ request.scene = "direct" => General("handoff") \in Eligible(request)
  BY DEF Eligible, Manifests, General, Manifest, SalesHandoff, Artifacts, Reports
<1>3. ASSUME "sales_mention" \in AllowedResolves(request)
      PROVE  SalesHandoff \in Eligible(request) /\ request.mentions /\ request.scene # "direct"
  <2>1. request.scene # "direct" /\ \E m \in Eligible(request) : m.of = "sales_mention"
    BY <1>3, Zenon DEF AllowedResolves
  <2>2. \A m \in Manifests : m.of = "sales_mention" => m = SalesHandoff
    BY DEF Manifests, SalesHandoff, Manifest, General, CompanyKnowledge, Artifacts, Reports
  <2>3. SalesHandoff \in Eligible(request)
    BY <2>1, <2>2 DEF Eligible
  <2>4. request.mentions
    BY <2>3, Zenon DEF Eligible
  <2> QED BY <2>1, <2>3, <2>4
<1> HIDE DEF p
<1>4. Ruled(p)
  BY <1>1, <1>2, <1>3, Zenon DEF Ruled
<1> QED BY <1>4 DEF p

\* A plan of one unit of an eligible manifest that sends nothing compiles.
LEMMA ProgramPlanCompiles ==
    ASSUME NEW pol, NEW origin, origin # "planner", NEW manifest \in pol.eligible,
           NEW answerability, answerability # "send"
    PROVE  Compiles(ProgramPlan(origin, manifest, answerability), pol)
<1> DEFINE p == ProgramPlan(origin, manifest, answerability)
<1>1. /\ p.origin = origin /\ Len(p.units) = 1 /\ DOMAIN p.units = {1}
      /\ p.units[1].manifest = manifest /\ p.units[1].answerability = answerability
  BY DEF ProgramPlan, Plan, PlainUnit, Unit
<1> HIDE DEF p
<1>2. IntentsOf(p.units[1]) = {}
  BY <1>1 DEF IntentsOf
<1>3. SendUnits(p) = {}
  BY <1>1, <1>2 DEF SendUnits
<1>4. Cardinality(SendUnits(p)) <= 3
  BY <1>3, FS_EmptySet
<1>5. \A i \in DOMAIN p.units : UnitCompiles(p.units[i], pol)
  BY <1>1, <1>2 DEF UnitCompiles
<1>6. Compiles(p, pol)
  BY <1>1, <1>4, <1>5 DEF Compiles
<1> QED BY <1>6 DEF p

\* The plans that take over from one whose pack was not resolved.
Resolutions ==
    {ProgramPlan("deterministic", General("clarification"), "clarify"),
     ProgramPlan("deterministic", SalesHandoff, "handoff"),
     ProgramPlan("deterministic", General("abstention"), "abstain")}

\* The inductive form of SalesHandoffKept and OwnPlansCompile.
HandedOver ==
    /\ Ruled(policy)
    /\ {"units", "preflight"} \subseteq DOMAIN evidence
    /\ DOMAIN evidence.preflight \subseteq policy.resolves
    /\ \A i \in DOMAIN plan.units : plan.units[i].products \in BOOLEAN
    /\ plan.origin = "deterministic" =>
        plan \in Resolutions /\ stage \in {"verify", "plan", "done"}
    /\ stage \in {"documents", "static", "render", "compose", "verify"}
            /\ plan.origin # "deterministic" =>
        evidence.units = plan.units
    /\ SalesHandoffKept

\* A plan that takes over is of one unit that names no scope, and is neither composed
\* nor fetched again.
LEMMA ResolutionsPlain ==
    ASSUME NEW p \in Resolutions
    PROVE  /\ p.origin = "deterministic" /\ DOMAIN p.units = {1}
           /\ p.units[1].products = FALSE
           /\ ResponseMode(p) \notin {"knowledge_answer", "smalltalk"}
           /\ ResponseMode(p) = "handoff" =>
                p = ProgramPlan("deterministic", SalesHandoff, "handoff")
           /\ p.units[1].manifest # CompanyKnowledge
           /\ p.units[1].manifest.use # "product_list"
<1>1. ASSUME NEW m \in {General("clarification"), SalesHandoff, General("abstention")},
             NEW a \in {"clarify", "handoff", "abstain"},
             p = ProgramPlan("deterministic", m, a)
      PROVE  /\ p.origin = "deterministic" /\ DOMAIN p.units = {1}
             /\ p.units[1].products = FALSE
             /\ p.units[1].manifest = m /\ p.units[1].answerability = a
  BY <1>1 DEF ProgramPlan, Plan, PlainUnit, Unit
<1>2. \A m \in {General("clarification"), SalesHandoff, General("abstention")} :
        m # CompanyKnowledge /\ m.use # "product_list"
  BY DEF General, SalesHandoff, CompanyKnowledge, Manifest
<1>3. PICK m \in {General("clarification"), SalesHandoff, General("abstention")},
           a \in {"clarify", "handoff", "abstain"} :
        /\ p = ProgramPlan("deterministic", m, a)
        /\ a = "handoff" => m = SalesHandoff
  BY DEF Resolutions
<1>4. /\ p.origin = "deterministic" /\ DOMAIN p.units = {1}
      /\ p.units[1].products = FALSE
      /\ p.units[1].manifest = m /\ p.units[1].answerability = a
  BY <1>1, <1>3
<1>5. ResponseMode(p) = IF a = "clarify" THEN "clarification"
                        ELSE IF a = "handoff" THEN "handoff" ELSE "unable"
  BY <1>4 DEF ResponseMode
<1>6. a # "handoff" => ResponseMode(p) # "handoff"
  BY <1>5
<1> QED BY <1>2, <1>3, <1>4, <1>5

\* A turn that ends or plans again keeps its candidate as it is.
LEMMA HandedKept ==
    ASSUME HandedOver, UNCHANGED <<policy, candidate>>,
           \/ stage' \in {"done", "plan"}
           \/ plan.origin # "deterministic"
              /\ (stage' \in {"documents", "static", "render", "compose", "verify"} =>
                    stage \in {"documents", "static", "render", "compose", "verify"})
    PROVE  HandedOver'
BY DEF HandedOver, SalesHandoffKept, candidate

\* A plan that is none of those that take over, without evidence yet.
LEMMA HandedAnew ==
    ASSUME HandedOver, UNCHANGED policy, evidence' = NoEvidence,
           plan'.origin # "deterministic",
           \A i \in DOMAIN plan'.units : plan'.units[i].products \in BOOLEAN,
           stage' \notin {"documents", "static", "render", "compose", "verify"}
    PROVE  HandedOver'
<1>1. {"units", "preflight"} \subseteq DOMAIN NoEvidence /\ DOMAIN NoEvidence.preflight = {}
  BY DEF NoEvidence, Evidence
<1> QED BY <1>1 DEF HandedOver, SalesHandoffKept

\* A plan of the program's own names no scope.
LEMMA ProgramPlanPlain ==
    ASSUME NEW origin, NEW manifest, NEW answerability
    PROVE  LET p == ProgramPlan(origin, manifest, answerability) IN
           p.origin = origin /\ \A i \in DOMAIN p.units : p.units[i].products \in BOOLEAN
<1> DEFINE p == ProgramPlan(origin, manifest, answerability)
<1>1. p.origin = origin /\ DOMAIN p.units = {1} /\ p.units[1].products = FALSE
  BY DEF ProgramPlan, Plan, PlainUnit, Unit
<1> HIDE DEF p
<1>2. \A i \in DOMAIN p.units : p.units[i].products \in BOOLEAN
  BY <1>1
<1> QED BY <1>1, <1>2 DEF p

\* The fallback takes over from no pack.
LEMMA ReplaceHanded ==
    ASSUME HandedOver, NEW remediation, Replace(remediation), UNCHANGED policy
    PROVE  HandedOver'
<1>1. plan'.origin = "remediation"
      /\ \A i \in DOMAIN plan'.units : plan'.units[i].products \in BOOLEAN
  BY ProgramPlanPlain DEF Replace, ReplacementPlan
<1> QED BY <1>1, HandedAnew DEF Replace

\* A failure ends the turn or gives way to the fallback.
LEMMA FailureHanded ==
    ASSUME HandedOver, AgentFailure, UNCHANGED policy PROVE HandedOver'
BY ReplaceHanded, HandedKept DEF AgentFailure, Finish

LEMMA CallHanded ==
    ASSUME HandedOver, CallFails, UNCHANGED policy PROVE HandedOver'
BY FailureHanded, HandedKept DEF CallFails, Escape, Finish

\* A plan that is built anew has no evidence of the former.
LEMMA BuildHanded ==
    ASSUME HandedOver, UNCHANGED policy, NEW p, p.origin # "deterministic",
           \A i \in DOMAIN p.units : p.units[i].products \in BOOLEAN,
           BuildFrom(p)
    PROVE  HandedOver'
BY FailureHanded, HandedAnew DEF BuildFrom

\* Nor is the plan a message alone is answered with one that takes over.
LEMMA MatchedHanded ==
    /\ MatchedPlan.origin # "deterministic"
    /\ \A i \in DOMAIN MatchedPlan.units : MatchedPlan.units[i].products \in BOOLEAN
BY ProgramPlanPlain DEF MatchedPlan, input_policy_plan, direct_send_plan

\* What the adapter is asked for is what the policy lets it resolve.
LEMMA AdapterHanded ==
    ASSUME HandedOver, ReadAdapter PROVE HandedOver'
<1>1. plan.origin # "deterministic" /\ UNCHANGED <<policy, plan, reply>>
  BY DEF HandedOver, ReadAdapter
<1>2. PICK preflight \in {p \in [AskedTypes(plan, policy) -> UNION {Statuses(t) : t \in ResolveTypes}] :
                \A t \in DOMAIN p : p[t] \in Statuses(t)},
           products \in SUBSET ReportTargets(plan, policy) :
        evidence' = Evidence(plan.units, preflight, AskedOption(plan), products, {})
  BY DEF ReadAdapter
<1>3. DOMAIN preflight \subseteq policy.resolves
  BY DEF AskedTypes
<1>4. /\ {"units", "preflight"} \subseteq DOMAIN evidence' /\ evidence'.units = plan.units
      /\ evidence'.preflight = preflight
  BY <1>2 DEF Evidence
<1> QED BY <1>1, <1>3, <1>4 DEF HandedOver, SalesHandoffKept

\* Documents found change nothing of the rest of the evidence.
LEMMA LookupHanded ==
    ASSUME HandedOver, NEW found \in BOOLEAN, SelectDocuments(found) \/ SelectStatic(found)
    PROVE  HandedOver'
<1>1. /\ stage \in {"documents", "static"} /\ UNCHANGED <<policy, plan, reply>>
      /\ evidence' = IF found THEN [evidence EXCEPT !.documents = @ \cup {Target}] ELSE evidence
  BY DEF SelectDocuments, SelectStatic, LookupUnchanged, FoundDocument
<1>2. /\ DOMAIN evidence' = DOMAIN evidence /\ evidence'.units = evidence.units
      /\ evidence'.preflight = evidence.preflight
  BY <1>1 DEF HandedOver
<1> QED BY <1>1, <1>2 DEF HandedOver, SalesHandoffKept

\* What takes over from a plan whose pack was not resolved compiles.
LEMMA ResolutionCompiles ==
    ASSUME HandedOver, NeedsResolution(plan, evidence)
    PROVE  Compiles(ResolutionPlan(evidence), policy)
<1>1. ResolvedIn(evidence, "sales_mention") => SalesHandoff \in policy.eligible
  BY DEF HandedOver, Ruled, ResolvedIn
<1> QED BY <1>1, ProgramPlanCompiles DEF ResolutionPlan, HandedOver, Ruled

\* Sales are mentioned by what takes over, the pack's own unit having asked for them.
LEMMA HandoffMentions ==
    ASSUME HandedOver, NeedsResolution(plan, evidence), evidence.units = plan.units,
           ResponseMode(ResolutionPlan(evidence)) = "handoff"
    PROVE  \/ RenderedReply(ResolutionPlan(evidence), evidence, policy).mention
           \/ \E i \in DOMAIN evidence.units : evidence.units[i].products
<1> DEFINE p == ResolutionPlan(evidence)
<1>1. p \in Resolutions
  BY DEF ResolutionPlan, Resolutions
<1>2. p = ProgramPlan("deterministic", SalesHandoff, "handoff")
  BY <1>1, ResolutionsPlain
<1>3. ResolvedIn(evidence, "sales_mention")
  <2>1. General("clarification") # SalesHandoff /\ General("abstention") # SalesHandoff
    BY DEF General, SalesHandoff, Manifest
  <2>2. \A o, m, a : ProgramPlan(o, m, a).units[1].manifest = m
    BY DEF ProgramPlan, Plan, PlainUnit, Unit
  <2> QED BY <1>2, <2>1, <2>2 DEF ResolutionPlan
<1>4. "sales_mention" \in policy.resolves /\ policy.mentions /\ policy.scene # "direct"
  BY <1>3 DEF ResolvedIn, HandedOver, Ruled
<1>5. PICK i \in DOMAIN plan.units : plan.units[i].answerability = "send"
  BY DEF NeedsResolution, SendUnits, IntentsOf
<1>6. "sales_mention" \in ResolvesOf(plan.units[i], policy)
  BY <1>4, <1>5 DEF ResolvesOf, SalesFallback
<1>7. CASE plan.units[i].products
  BY <1>5, <1>7
<1>8. CASE ~plan.units[i].products
  <2> DEFINE unit == p.units[1]
  <2>1. /\ DOMAIN p.units = {1} /\ unit.manifest = SalesHandoff /\ unit.products = FALSE
    BY <1>2 DEF ProgramPlan, Plan, PlainUnit, Unit
  <2>2. plan.units[i].products = FALSE
    BY <1>8 DEF HandedOver
  <2>3. SalesHandoff.use = "handoff" /\ SalesHandoff.of = "sales_mention"
    BY DEF SalesHandoff, Manifest
  <2> HIDE DEF p
  <2>4. i \in FactsFor(evidence, unit, "sales_mention", policy)
    BY <1>3, <1>5, <1>6, <2>1, <2>2 DEF FactsFor
  <2>5. Grounded(evidence, unit, policy)
    BY <2>1, <2>3, <2>4 DEF Grounded
  <2>6. HandoffReply(p, evidence, policy) = Reply("human_handoff", {}, TRUE)
    BY <1>4, <2>1, <2>5, Zenon DEF HandoffReply
  <2>7. RenderedReply(p, evidence, policy) = Reply("human_handoff", {}, TRUE)
    <3>1. ResponseMode(p) = "handoff"
      BY DEF p
    <3> QED BY <2>6, <3>1 DEF RenderedReply
  <2>8. RenderedReply(p, evidence, policy).mention
    BY <2>7 DEF Reply
  <2> QED BY <2>8 DEF p
<1> QED BY <1>7, <1>8

\* A candidate that is complete and whose plan was not taken over.
LEMMA CompleteHanded ==
    ASSUME HandedOver, NEW r, CandidateComplete(plan, r), UNCHANGED policy,
           stage \in {"render", "compose"}
    PROVE  HandedOver'
<1>1. plan.origin # "deterministic" /\ evidence.units = plan.units
  BY DEF HandedOver
<1> QED BY <1>1 DEF HandedOver, CandidateComplete, SalesHandoffKept

\* Rendering: either the plan's own reply, or that of what takes over.
LEMMA RenderHanded ==
    ASSUME HandedOver, Render PROVE HandedOver'
<1>1. /\ stage = "render" /\ UNCHANGED policy
      /\ plan.origin # "deterministic" /\ evidence.units = plan.units
  BY DEF Render, ReplyUnchanged, HandedOver
<1>2. CASE Escape
  BY <1>1, <1>2, HandedKept DEF Escape, Finish
<1>3. CASE stage' = "compose" /\ UNCHANGED <<doing, candidate, built, outcome>>
  BY <1>1, <1>3, HandedKept
<1>4. CASE \E r : CandidateComplete(plan, r)
  BY <1>1, <1>4, CompleteHanded
<1>5. CASE /\ NeedsResolution(plan, evidence)
           /\ CandidateComplete(ResolutionPlan(evidence),
                    RenderedReply(ResolutionPlan(evidence), evidence, policy))
  <2>1. /\ plan' = ResolutionPlan(evidence) /\ evidence' = evidence
        /\ reply' = RenderedReply(ResolutionPlan(evidence), evidence, policy)
        /\ stage' \in {"verify", "done"}
    BY <1>5 DEF CandidateComplete
  <2>2. plan' \in Resolutions
    BY <2>1 DEF ResolutionPlan, Resolutions
  <2>3. SalesHandoffKept'
    BY <1>1, <1>5, <2>1, HandoffMentions DEF SalesHandoffKept
  <2>4. plan'.origin = "deterministic" /\ DOMAIN plan'.units = {1}
        /\ plan'.units[1].products = FALSE
    BY <2>2, ResolutionsPlain
  <2> QED BY <1>1, <2>1, <2>2, <2>3, <2>4 DEF HandedOver
<1> QED BY <1>2, <1>3, <1>4, <1>5 DEF Render

\* What a plan that took over has no unit for is not fetched again.
LEMMA RefetchHanded ==
    ASSUME HandedOver, NEW remediation, RemediateRefetch(remediation) PROVE HandedOver'
<1>1. UNCHANGED policy /\ stage = "verify"
  BY DEF RemediateRefetch, NotAligned, VerdictUnchanged
<1>2. CASE Finish("escape")
  BY <1>1, <1>2, HandedKept DEF Finish
<1>3. CASE /\ Cardinality(RefetchUnits(remediation)) = 1
           /\ stage' = "adapter" /\ evidence' = NoEvidence /\ plan' = plan
  <2>1. plan.origin # "deterministic"
    <3> SUFFICES ASSUME plan.origin = "deterministic" PROVE FALSE
      OBVIOUS
    <3>1. plan \in Resolutions
      BY DEF HandedOver
    <3>2. /\ DOMAIN plan.units = {1} /\ plan.units[1].manifest # CompanyKnowledge
          /\ plan.units[1].manifest.use # "product_list"
      BY <3>1, ResolutionsPlain
    <3>3. RefetchUnits(remediation) = {}
      BY <3>2 DEF RefetchUnits
    <3> QED BY <1>3, <3>3, FS_EmptySet
  <2> QED BY <1>1, <1>3, <2>1, HandedAnew DEF HandedOver
<1> QED BY <1>2, <1>3 DEF RemediateRefetch

\* Nor is it composed again.
LEMMA RecomposeHanded ==
    ASSUME HandedOver, RemediateRecompose PROVE HandedOver'
<1>1. UNCHANGED policy /\ stage = "verify"
  BY DEF RemediateRecompose, NotAligned, VerdictUnchanged
<1>2. CASE Finish("agent_error")
  BY <1>1, <1>2, HandedKept DEF Finish
<1>3. CASE /\ ResponseMode(plan) \in {"knowledge_answer", "smalltalk"}
           /\ stage' \in {"compose", "render"} /\ UNCHANGED <<plan, evidence>>
  <2>1. plan.origin # "deterministic"
    BY <1>3, ResolutionsPlain DEF HandedOver
  <2>2. SalesHandoffKept'
    BY <1>3, <2>1 DEF SalesHandoffKept
  <2> QED BY <1>1, <1>3, <2>1, <2>2 DEF HandedOver
<1> QED BY <1>2, <1>3 DEF RemediateRecompose

\* Every step keeps what was handed over, and what the program's plans need.
LEMMA HandedStep == HandedOver /\ [Next]_vars => HandedOver'
<1> SUFFICES ASSUME HandedOver, [Next]_vars PROVE HandedOver'
  OBVIOUS
<1>1. CASE RouteMatched
  BY <1>1, MatchedHanded, BuildHanded, HandedKept DEF RouteMatched, Escape, Finish
<1>2. CASE CollectRecall
  BY <1>2, HandedKept DEF CollectRecall
<1>3. ASSUME NEW units \in PlanSpecs, PlannerAnswers(units) PROVE HandedOver'
  <2>1. /\ Plan("planner", units).origin = "planner"
        /\ Plan("planner", units).units = units
    BY DEF Plan
  <2>2. units \in Seq(Units)
    BY PlanSpecsAssumption
  <2>3. \A i \in DOMAIN units : units[i].products \in BOOLEAN
    <3>1. \A i \in DOMAIN units : units[i] \in Units
      BY <2>2
    <3> QED BY <3>1 DEF Units
  <2> QED BY <1>3, <2>1, <2>3, BuildHanded DEF PlannerAnswers, PlannerUnchanged
<1>4. CASE PlannerInvalid
  BY <1>4, FailureHanded, HandedKept DEF PlannerInvalid, PlannerUnchanged
<1>5. CASE PlannerFails
  BY <1>5, CallHanded DEF PlannerFails, PlannerUnchanged
<1>6. CASE ReadAdapter
  BY <1>6, AdapterHanded
<1>7. ASSUME NEW found \in BOOLEAN, SelectDocuments(found) \/ SelectStatic(found)
      PROVE  HandedOver'
  BY <1>7, LookupHanded
<1>8. ASSUME NEW asked \in BOOLEAN, NoDocuments(asked) PROVE HandedOver'
  BY <1>8, HandedKept DEF NoDocuments, LookupUnchanged, HandedOver
<1>9. CASE StaticFails
  BY <1>9, HandedKept DEF StaticFails, LookupUnchanged, Escape, Finish
<1>10. CASE Render
  BY <1>10, RenderHanded
<1>11. ASSUME NEW accepted \in BOOLEAN, Compose(accepted) PROVE HandedOver'
  <2>1. UNCHANGED policy /\ stage = "compose" /\ \E r : CandidateComplete(plan, r)
    BY <1>11 DEF Compose, ReplyUnchanged
  <2> QED BY <2>1, CompleteHanded
<1>12. CASE ComposerFails
  BY <1>12, CallHanded DEF ComposerFails, CallFails, ReplyUnchanged
<1>13. CASE VerifierAligned
  BY <1>13, HandedKept DEF VerifierAligned, VerdictUnchanged, Finish
<1>14. CASE VerifierFails
  BY <1>14, ReplaceHanded, HandedKept DEF VerifierFails, VerdictUnchanged, Finish
<1>15. CASE RemediateReplan
  BY <1>15, HandedKept DEF RemediateReplan, NotAligned, VerdictUnchanged
<1>16. CASE RemediateRecompose
  BY <1>16, RecomposeHanded
<1>17. CASE \E r : RemediateRefetch(r)
  BY <1>17, RefetchHanded
<1>18. ASSUME NEW remediation \in Remediations, FallBack(remediation) PROVE HandedOver'
  BY <1>18, ReplaceHanded DEF FallBack, NotAligned, VerdictUnchanged
<1>19. CASE JournalFull
  BY <1>19, HandedKept DEF JournalFull, Escape, Finish
<1>21. CASE SourceFails
  BY <1>21, FailureHanded, HandedKept DEF SourceFails, ReplyUnchanged, Escape, Finish
<1>20. CASE UNCHANGED vars
  BY <1>20 DEF vars, candidate, HandedOver, SalesHandoffKept
<1> QED
  BY <1>1, <1>2, <1>3, <1>4, <1>5, <1>6, <1>7, <1>8, <1>9, <1>10, <1>11, <1>12, <1>13,
     <1>14, <1>15, <1>16, <1>17, <1>18, <1>19, <1>20, <1>21
  DEF Next, RefetchDocuments, RefetchReportScope

\* A turn begins under a compiled policy, without a plan.
LEMMA HandedInit == Init => HandedOver
<1> SUFFICES ASSUME Init PROVE HandedOver
  OBVIOUS
<1>1. Ruled(policy)
  BY CompiledRuled DEF Init
<1>2. /\ {"units", "preflight"} \subseteq DOMAIN NoEvidence
      /\ DOMAIN NoEvidence.preflight = {}
      /\ plan.origin = "none" /\ DOMAIN plan.units = {}
  BY DEF Init, NoEvidence, Evidence, Plan
<1> QED BY <1>1, <1>2 DEF Init, HandedOver, SalesHandoffKept

\* Whatever the grants, the plans and the answers of the adapter, a pack that was not
\* resolved while sales may be mentioned is handed to them in a reply that mentions them
\* (_material_pack_action_resolution_plan, _handoff_reply).
THEOREM HandoffTheorem == Spec => []SalesHandoffKept
<1>1. HandedOver => SalesHandoffKept
  BY DEF HandedOver
<1> QED BY <1>1, HandedInit, HandedStep, PTL DEF Spec

\* Whatever the grants, the policy lets the program's own plans compile: those of an
\* input rule and those in place of a plan whose pack was not resolved (_handoff_result).
THEOREM OwnPlansTheorem == Spec => []OwnPlansCompile
<1>1. HandedOver => OwnPlansCompile
  <2> SUFFICES ASSUME HandedOver PROVE OwnPlansCompile
    OBVIOUS
  <2>1. Compiles(input_policy_plan(policy), policy)
    BY ProgramPlanCompiles DEF input_policy_plan, HandedOver, Ruled
  <2> QED BY <2>1, ResolutionCompiles DEF OwnPlansCompile, MatchedPlan
<1> QED BY <1>1, HandedInit, HandedStep, PTL DEF Spec

-----------------------------------------------------------------------------
(* Remediations. One asks for a plan, for evidence or for a reply, and all *)
(* but a replan begin with the plan the verifier saw; only rendering makes *)
(* another in its place, which the authority checks find out.              *)

Asked ==
    /\ stage = "route" => doing = "initial"
    /\ stage = "plan" => doing \in {"initial", "replan"}
    /\ doing = "recompose" => stage \in {"render", "compose", "verify", "done"}
    /\ doing = "recompose" /\ stage = "render" =>
        ResponseMode(plan) \in {"knowledge_answer", "smalltalk"}

\* A plan that is composed sends nothing, so no other takes over.
LEMMA ComposedKept ==
    ASSUME NEW p, ResponseMode(p) \in {"knowledge_answer", "smalltalk"}, NEW e
    PROVE  ~NeedsResolution(p, e)
<1>1. SendUnits(p) = {}
  <2>1. ASSUME NEW i \in DOMAIN p.units, p.units[i].answerability = "send" PROVE FALSE
    <3>1. ResponseMode(p) \in {"refusal", "action"}
      BY <2>1 DEF ResponseMode
    <3> QED BY <3>1
  <2> QED BY <2>1 DEF SendUnits, IntentsOf
<1> QED BY <1>1 DEF NeedsResolution

\* What a turn that begins with its message or its planner builds is neither fetched
\* nor composed again, and comes to no verdict yet.
LEMMA BuildAsked ==
    ASSUME doing \in {"initial", "replan"}, NEW p, BuildFrom(p)
    PROVE  /\ doing' \in {"initial", "replan", "replace"}
           /\ stage' \in {"adapter", "done"}
BY DEF BuildFrom, AgentFailure, Replace, Finish

\* A failure changes the plan only when it is replaced.
LEMMA CallAsked ==
    ASSUME CallFails \/ AgentFailure \/ Escape
    PROVE  stage' = "done" /\ (doing' = "replace" \/ UNCHANGED candidate)
BY DEF CallFails, AgentFailure, Replace, Escape, Finish, candidate

\* What a step must leave of the authority a remediation was asked under.
Kept ==
    outcome' \in {"none", "answered"} =>
        /\ doing' \in {"refetch", "recompose"} => plan' = plan
        /\ doing' = "recompose" => evidence' = evidence
        /\ doing' = "replan" /\ stage' = "verify" => plan'.origin = "planner"

\* A turn that ends leaves it if it keeps its candidate or replaces it.
LEMMA EndKept ==
    ASSUME stage' = "done", doing' = "replace" \/ UNCHANGED candidate
    PROVE  Asked' /\ Kept
BY DEF Asked, Kept, candidate

\* Rendering ends a remediation of another plan than it was asked for.
LEMMA RenderKept ==
    ASSUME Asked, Render PROVE Asked' /\ Kept
<1>1. stage = "render"
  BY DEF Render
<1>2. ASSUME NEW r, CandidateComplete(ResolutionPlan(evidence), r),
             NeedsResolution(plan, evidence)
      PROVE  Asked' /\ Kept
  <2>1. doing # "recompose"
    BY <1>1, <1>2, ComposedKept DEF Asked
  <2>2. ResolutionPlan(evidence).origin # "planner"
    BY DEF ResolutionPlan, ProgramPlan, Plan
  <2>3. /\ doing' = doing /\ stage' \in {"verify", "done"}
        /\ doing \in {"replan", "refetch"} => stage' = "done" /\ outcome' = "agent_error"
    BY <1>2, <2>2 DEF CandidateComplete, KeepsAuthority
  <2> QED BY <2>1, <2>3 DEF Asked, Kept
<1>3. ASSUME NEW r, CandidateComplete(plan, r) PROVE Asked' /\ Kept
  <2>1. /\ doing' = doing /\ stage' \in {"verify", "done"}
        /\ plan' = plan /\ evidence' = evidence
        /\ doing = "replan" /\ stage' = "verify" => plan.origin = "planner"
    BY <1>3 DEF CandidateComplete, KeepsAuthority
  <2> QED BY <2>1 DEF Asked, Kept
<1>4. CASE Escape
  BY <1>4, EndKept DEF Escape, Finish
<1>5. CASE stage' = "compose" /\ UNCHANGED <<doing, candidate, built, outcome>>
  BY <1>1, <1>5 DEF Asked, Kept, candidate
<1> QED BY <1>2, <1>3, <1>4, <1>5 DEF Render

\* A remediation is asked for of what the verifier saw, and every step keeps that.
LEMMA AskedStep == Asked /\ Next => Asked' /\ Kept
<1> SUFFICES ASSUME Asked, Next PROVE Asked' /\ Kept
  OBVIOUS
<1>1. ASSUME NEW p, BuildFrom(p), doing \in {"initial", "replan"} PROVE Asked' /\ Kept
  <2>1. doing' \in {"initial", "replan", "replace"} /\ stage' \in {"adapter", "done"}
    BY <1>1, BuildAsked
  <2> QED BY <2>1 DEF Asked, Kept
<1>2. ASSUME CallFails \/ AgentFailure \/ Escape PROVE Asked' /\ Kept
  BY <1>2, CallAsked, EndKept
<1>3. CASE RouteMatched
  BY <1>1, <1>2, <1>3 DEF RouteMatched, Asked
<1>4. CASE CollectRecall
  BY <1>4 DEF CollectRecall, candidate, Asked, Kept
<1>5. ASSUME NEW units \in PlanSpecs, PlannerAnswers(units) PROVE Asked' /\ Kept
  BY <1>1, <1>5 DEF PlannerAnswers, Asked
<1>6. CASE PlannerInvalid
  <2>1. CASE MayRepair
    BY <1>6, <2>1 DEF PlannerInvalid, candidate, Asked, Kept
  <2>2. CASE ~MayRepair
    BY <1>2, <1>6, <2>2 DEF PlannerInvalid
  <2> QED BY <2>1, <2>2
<1>7. CASE PlannerFails \/ StaticFails \/ ComposerFails \/ JournalFull \/ SourceFails
  BY <1>2, <1>7 DEF PlannerFails, StaticFails, ComposerFails, JournalFull, SourceFails
<1>8. CASE ReadAdapter
  BY <1>8 DEF ReadAdapter, Asked, Kept
<1>9. ASSUME NEW found \in BOOLEAN,
             SelectDocuments(found) \/ SelectStatic(found) \/ NoDocuments(found)
      PROVE  Asked' /\ Kept
  BY <1>9 DEF SelectDocuments, SelectStatic, NoDocuments, candidate, Asked, Kept
<1>10. CASE Render
  BY <1>10, RenderKept
<1>11. ASSUME NEW accepted \in BOOLEAN, Compose(accepted) PROVE Asked' /\ Kept
  <2>1. /\ stage = "compose" /\ doing' = doing /\ stage' \in {"verify", "done"}
        /\ plan' = plan /\ evidence' = evidence
        /\ doing = "replan" /\ stage' = "verify" => plan.origin = "planner"
    BY <1>11 DEF Compose, CandidateComplete, KeepsAuthority
  <2> QED BY <2>1 DEF Asked, Kept
<1>12. CASE VerifierAligned
  BY <1>12, EndKept DEF VerifierAligned, Finish
<1>13. CASE VerifierFails
  BY <1>13, EndKept DEF VerifierFails, Replace, Finish
<1>14. CASE RemediateReplan
  BY <1>14 DEF RemediateReplan, candidate, Asked, Kept
<1>15. CASE RemediateRecompose
  <2>1. CASE Finish("agent_error")
    BY <1>15, <2>1, EndKept DEF Finish
  <2>2. CASE ~Finish("agent_error")
    BY <1>15, <2>2 DEF RemediateRecompose, Asked, Kept
  <2> QED BY <2>1, <2>2
<1>16. CASE \E r : RemediateRefetch(r)
  <2>1. CASE Finish("escape")
    BY <1>16, <2>1, EndKept DEF Finish
  <2>2. CASE ~Finish("escape")
    BY <1>16, <2>2 DEF RemediateRefetch, Asked, Kept
  <2> QED BY <2>1, <2>2
<1>17. ASSUME NEW remediation \in Remediations, FallBack(remediation) PROVE Asked' /\ Kept
  BY <1>17, EndKept DEF FallBack, Replace
<1> QED
  BY <1>3, <1>4, <1>5, <1>6, <1>7, <1>8, <1>9, <1>10, <1>11, <1>12, <1>13, <1>14, <1>15,
     <1>16, <1>17
  DEF Next, RefetchDocuments, RefetchReportScope

\* Whatever the plans, the answers and the limits, what is fetched or composed anew is of
\* the very plan the verifier saw and what is planned anew of the planner's
\* (require_refetch_authority, require_recompose_response_only, require_replan_authority).
THEOREM RemediationTheorem == Spec => RemediationKeepsAuthority
<1>1. Init => Asked
  BY DEF Init, Asked
<1>2. Asked /\ [Next]_vars => Asked' /\ [Kept]_vars
  <2>1. Asked /\ UNCHANGED vars => Asked'
    BY DEF vars, candidate, Asked
  <2> QED BY <2>1, AskedStep
<1>3. Spec => [][Kept]_vars
  BY <1>1, <1>2, PTL DEF Spec
<1> QED BY <1>3 DEF RemediationKeepsAuthority, Kept

-----------------------------------------------------------------------------
(* The end. A step remediates, takes the candidate onward or looks one     *)
(* thing up; plans have finitely many units, so there are only so many of  *)
(* each.                                                                   *)

Finite == IsFiniteSet(DOMAIN plan.units) /\ IsFiniteSet(todo)

\* A plan of the program's own has one unit, one of the planner's a sequence of them.
LEMMA PlansFinite ==
    /\ \A origin, manifest, answerability :
            IsFiniteSet(DOMAIN ProgramPlan(origin, manifest, answerability).units)
    /\ \A units \in PlanSpecs : IsFiniteSet(DOMAIN Plan("planner", units).units)
<1>1. ASSUME NEW origin, NEW manifest, NEW answerability
      PROVE  IsFiniteSet(DOMAIN ProgramPlan(origin, manifest, answerability).units)
  <2>1. DOMAIN ProgramPlan(origin, manifest, answerability).units = {1}
    BY DEF ProgramPlan, Plan
  <2> QED BY <2>1, FS_Singleton
<1>2. ASSUME NEW units \in PlanSpecs PROVE IsFiniteSet(DOMAIN Plan("planner", units).units)
  <2>1. units \in Seq(Units)
    BY PlanSpecsAssumption
  <2>2. DOMAIN units = 1..Len(units) /\ Len(units) \in Nat
    BY <2>1
  <2>3. IsFiniteSet(DOMAIN units)
    BY <2>2, FS_Interval
  <2> QED BY <2>3 DEF Plan
<1> QED BY <1>1, <1>2

\* So has every plan a step may end with.
LEMMA FinitePlans ==
    ASSUME Finite, [Next]_vars PROVE IsFiniteSet(DOMAIN plan'.units)
<1>1. CASE UNCHANGED plan
  BY <1>1 DEF Finite
<1>2. CASE \E remediation : plan' = ReplacementPlan(remediation)
  BY <1>2, PlansFinite DEF ReplacementPlan
<1>3. CASE plan' = MatchedPlan
  BY <1>3, PlansFinite DEF MatchedPlan, input_policy_plan, direct_send_plan
<1>4. CASE plan' = ResolutionPlan(evidence)
  BY <1>4, PlansFinite DEF ResolutionPlan
<1>5. CASE \E units \in PlanSpecs : plan' = Plan("planner", units)
  BY <1>5, PlansFinite
<1> QED
  BY <1>1, <1>2, <1>3, <1>4, <1>5
  DEF Next, RefetchDocuments, RefetchReportScope, RemediateRefetch, RemediateReplan,
      RemediateRecompose, FallBack, NotAligned, VerifierAligned, VerifierFails,
      RouteMatched, CollectRecall, PlannerAnswers, PlannerInvalid, PlannerFails,
      ReadAdapter, SelectDocuments, SelectStatic, NoDocuments, StaticFails, Render, Compose,
      ComposerFails, JournalFull, SourceFails, CallFails, AgentFailure, Replace, Finish, Escape,
      BuildFrom, CandidateComplete, candidate, vars

LEMMA FiniteStep == Finite /\ [Next]_vars => Finite'
<1> SUFFICES ASSUME Finite, [Next]_vars PROVE Finite'
  OBVIOUS
<1>1. IsFiniteSet(todo')
  <2>1. CASE ReadAdapter
    <3>1. LookupUnits \in SUBSET DOMAIN plan.units
      BY DEF LookupUnits, KnowledgeTargets
    <3>2. IsFiniteSet(LookupUnits)
      BY <3>1, FS_Subset DEF Finite
    <3> QED BY <2>1, <3>2 DEF ReadAdapter
  <2>2. CASE \E found \in BOOLEAN : SelectStatic(found)
    <3>1. todo' \in SUBSET todo
      BY <2>2 DEF SelectStatic, LookedUp
    <3> QED BY <3>1, FS_Subset DEF Finite
  <2>3. CASE UNCHANGED todo
    BY <2>3 DEF Finite
  <2> QED
    BY <2>1, <2>2, <2>3
    DEF Next, RefetchDocuments, RefetchReportScope, RemediateRefetch, RemediateReplan,
        RemediateRecompose, FallBack, NotAligned, VerdictUnchanged, VerifierAligned,
        VerifierFails, RouteMatched, CollectRecall, PlannerAnswers, PlannerInvalid,
        PlannerFails, PlannerUnchanged, SelectDocuments, NoDocuments, StaticFails,
        Render, Compose, ComposerFails, ReplyUnchanged, JournalFull, SourceFails, vars
<1> QED BY <1>1, FinitePlans DEF Finite

\* A step that takes the candidate onward.
Onward ==
    /\ UNCHANGED counters
    /\ \/ stage # "done" /\ stage' = "done"
       \/ stage = "route" /\ stage' \in {"plan", "adapter"}
       \/ stage = "plan" /\ stage' = "adapter"
       \/ stage = "plan" /\ stage' = "plan" /\ MayRepair /\ ~MayRepair'
       \/ stage = "adapter" /\ stage' \in {"documents", "render"}
       \/ stage = "static" /\ stage' = "render"
       \/ stage = "render" /\ stage' \in {"compose", "verify"}
       \/ stage = "compose" /\ stage' = "verify"

\* A step that looks one thing up and has more to look up.
LooksUp ==
    /\ UNCHANGED counters
    /\ \/ stage = "documents" /\ stage' = "static" /\ UNCHANGED todo
       \/ stage = "static" /\ stage' = "documents" /\ todo' = LookedUp

\* A step that has the candidate planned, fetched or composed again.
Remediates ==
    /\ Total < MaxTotal
    /\ \/ replans' = replans + 1 /\ UNCHANGED <<refetches, recomposes>>
       \/ refetches' = refetches + 1 /\ UNCHANGED <<replans, recomposes>>
       \/ recomposes' = recomposes + 1 /\ UNCHANGED <<replans, refetches>>

\* There are no others.
LEMMA StepKinds ==
    ASSUME Typed, Next PROVE Onward \/ LooksUp \/ Remediates
<1>1. CASE RouteMatched
  BY <1>1
  DEF RouteMatched, BuildFrom, AgentFailure, Replace, Escape, Finish, Onward
<1>2. CASE CollectRecall
  BY <1>2 DEF CollectRecall, Onward
<1>3. ASSUME NEW units \in PlanSpecs, PlannerAnswers(units) PROVE Onward
  BY <1>3
  DEF PlannerAnswers, PlannerUnchanged, BuildFrom, AgentFailure, Replace, Finish, Onward
<1>4. CASE PlannerInvalid
  <2>1. UNCHANGED counters /\ stage = "plan"
    BY <1>4 DEF PlannerInvalid, PlannerUnchanged
  <2>2. CASE MayRepair
    BY <1>4, <2>1, <2>2 DEF PlannerInvalid, MayRepair, Onward
  <2>3. CASE ~MayRepair
    BY <1>4, <2>1, <2>3 DEF PlannerInvalid, AgentFailure, Replace, Finish, Onward
  <2> QED BY <2>2, <2>3
<1>5. CASE PlannerFails
  BY <1>5
  DEF PlannerFails, PlannerUnchanged, CallFails, AgentFailure, Replace, Escape, Finish, Onward
<1>6. CASE ReadAdapter
  BY <1>6 DEF ReadAdapter, Onward
<1>7. ASSUME NEW found \in BOOLEAN, SelectDocuments(found) PROVE LooksUp
  BY <1>7 DEF SelectDocuments, LookupUnchanged, LooksUp
<1>8. ASSUME NEW found \in BOOLEAN, SelectStatic(found) PROVE Onward \/ LooksUp
  BY <1>8 DEF SelectStatic, LookupUnchanged, LooksUp, Onward
<1>9. ASSUME NEW asked \in BOOLEAN, NoDocuments(asked) PROVE LooksUp
  BY <1>9 DEF NoDocuments, LookupUnchanged, LooksUp
<1>10. CASE StaticFails
  BY <1>10 DEF StaticFails, LookupUnchanged, Escape, Finish, Onward
<1>11. CASE Render
  BY <1>11 DEF Render, ReplyUnchanged, CandidateComplete, Escape, Finish, Onward
<1>12. ASSUME NEW accepted \in BOOLEAN, Compose(accepted) PROVE Onward
  BY <1>12 DEF Compose, ReplyUnchanged, CandidateComplete, Onward
<1>13. CASE ComposerFails
  BY <1>13
  DEF ComposerFails, ReplyUnchanged, CallFails, AgentFailure, Replace, Escape, Finish, Onward
<1>14. CASE VerifierAligned \/ VerifierFails
  BY <1>14 DEF VerifierAligned, VerifierFails, Replace, Finish, Onward
<1>15. CASE RemediateReplan \/ RemediateRecompose
  BY <1>15 DEF RemediateReplan, RemediateRecompose, Left, Remediates
<1>16. CASE \E r : RemediateRefetch(r)
  BY <1>16 DEF RemediateRefetch, Left, Remediates
<1>17. ASSUME NEW remediation \in Remediations, FallBack(remediation) PROVE Onward
  BY <1>17 DEF FallBack, NotAligned, Replace, Onward
<1>18. CASE JournalFull
  BY <1>18 DEF JournalFull, Escape, Finish, Onward
<1>19. CASE SourceFails
  BY <1>19
  DEF SourceFails, ReplyUnchanged, AgentFailure, Replace, Escape, Finish, Onward
<1> QED
  BY <1>1, <1>2, <1>3, <1>4, <1>5, <1>6, <1>7, <1>8, <1>9, <1>10, <1>11, <1>12, <1>13,
     <1>14, <1>15, <1>16, <1>17, <1>18, <1>19
  DEF Next, RefetchDocuments, RefetchReportScope

\* The parts of the distance are numbers.
Measured == Remaining \in Nat /\ Ahead \in Nat /\ Lookups \in Nat

LEMMA DistanceMeasured == Typed /\ Finite => Measured
<1> SUFFICES ASSUME Typed, Finite PROVE Measured
  OBVIOUS
<1>1. Remaining \in Nat
  <2>1. /\ MaxTotal \in Nat /\ replans \in Nat /\ refetches \in Nat /\ recomposes \in Nat
        /\ Total <= MaxTotal
    BY LimitsNat DEF Typed, CountersTyped
  <2> QED BY <2>1 DEF Remaining, Total
<1>2. Ahead \in Nat
  <2>1. stage \in Stages
    BY DEF Typed, CandidateTyped
  <2>2. \A s \in Stages : Way[s] \in Nat
    BY DEF Way, Stages
  <2> QED BY <2>1, <2>2 DEF Ahead
<1>3. Lookups \in Nat
  <2>1. Cardinality(todo) \in Nat
    BY FS_CardinalityType DEF Finite
  <2> QED BY <2>1 DEF Lookups
<1> QED BY <1>1, <1>2, <1>3 DEF Measured

\* The first part that differs decides.
LEMMA FirstDecides ==
    ASSUME Measured, Measured',
           \/ Remaining' < Remaining
           \/ Remaining' = Remaining /\ Ahead' < Ahead
           \/ Remaining' = Remaining /\ Ahead' = Ahead /\ Lookups' < Lookups
    PROVE  Nearer(Distance', Distance)
<1>1. {Distance', Distance} \subseteq Nat \X Nat \X Nat
  BY DEF Measured, Distance
<1>2. /\ Distance[1] = Remaining /\ Distance[2] = Ahead /\ Distance[3] = Lookups
      /\ Distance'[1] = Remaining' /\ Distance'[2] = Ahead' /\ Distance'[3] = Lookups'
  BY DEF Distance
<1>3. \E i \in 1..3 :
        Distance'[i] < Distance[i] /\ \A j \in 1..(i - 1) : Distance'[j] = Distance[j]
  <2>1. CASE Remaining' < Remaining
    <3>1. Distance'[1] < Distance[1] /\ \A j \in 1..(1 - 1) : Distance'[j] = Distance[j]
      BY <1>2, <2>1
    <3> QED BY <3>1
  <2>2. CASE Remaining' = Remaining /\ Ahead' < Ahead
    <3>1. Distance'[2] < Distance[2] /\ \A j \in 1..(2 - 1) : Distance'[j] = Distance[j]
      BY <1>2, <2>2
    <3> QED BY <3>1
  <2>3. CASE Remaining' = Remaining /\ Ahead' = Ahead /\ Lookups' < Lookups
    <3>1. Distance'[3] < Distance[3] /\ \A j \in 1..(3 - 1) : Distance'[j] = Distance[j]
      BY <1>2, <2>3
    <3> QED BY <3>1
  <2> QED BY <2>1, <2>2, <2>3
<1> QED BY <1>1, <1>3 DEF Nearer

\* To go on costs none of the remediations and shortens the way.
LEMMA OnwardNearer ==
    ASSUME stage \in Stages, stage' \in Stages, Onward
    PROVE  Remaining' = Remaining /\ Ahead' < Ahead
<1>1. Remaining' = Remaining
  BY DEF Onward, counters, Remaining, Total
<1>2. /\ Way["done"] = 0 /\ Way["verify"] = 1 /\ Way["compose"] = 2 /\ Way["render"] = 3
      /\ Way["static"] = 4 /\ Way["documents"] = 4 /\ Way["adapter"] = 5
      /\ Way["plan"] = 6 /\ Way["route"] = 8
  BY DEF Way
<1>3. \A s \in Stages : s # "done" => Way[s] \in 1..8
  BY <1>2 DEF Stages
<1>4. /\ stage # "plan" => Ahead = Way[stage]
      /\ stage = "plan" => Ahead = IF MayRepair THEN 7 ELSE 6
      /\ stage' # "plan" => Ahead' = Way[stage']
      /\ stage' = "plan" => Ahead' = IF MayRepair' THEN 7 ELSE 6
  BY <1>2, <1>3 DEF Ahead, Stages
<1>5. ASSUME stage # "done", stage' = "done" PROVE Ahead' < Ahead
  <2>1. Ahead' = 0
    BY <1>2, <1>4, <1>5
  <2>2. Ahead \in 1..8
    BY <1>3, <1>4, <1>5
  <2> QED BY <2>1, <2>2
<1>6. ASSUME stage' # "done" PROVE Ahead' < Ahead
  <2>1. CASE stage = "route" /\ stage' \in {"plan", "adapter"}
    BY <1>2, <1>4, <2>1
  <2>2. CASE stage = "plan" /\ stage' = "adapter"
    BY <1>2, <1>4, <2>2
  <2>3. CASE stage = "plan" /\ stage' = "plan" /\ MayRepair /\ ~MayRepair'
    BY <1>4, <2>3
  <2>4. CASE stage = "adapter" /\ stage' \in {"documents", "render"}
    BY <1>2, <1>4, <2>4
  <2>5. CASE stage = "static" /\ stage' = "render"
    BY <1>2, <1>4, <2>5
  <2>6. CASE stage = "render" /\ stage' \in {"compose", "verify"}
    BY <1>2, <1>4, <2>6
  <2>7. CASE stage = "compose" /\ stage' = "verify"
    BY <1>2, <1>4, <2>7
  <2> QED BY <1>6, <2>1, <2>2, <2>3, <2>4, <2>5, <2>6, <2>7 DEF Onward
<1> QED BY <1>1, <1>5, <1>6 DEF Onward

\* The first of some numbers is one of them.
LEMMA FirstOfNumbers ==
    ASSUME NEW S \in SUBSET Nat, S # {} PROVE \E n \in S : \A m \in S : n <= m
<1> DEFINE T == {0 .. m : m \in S}
<1>1. T # {} /\ T \subseteq FiniteSubsetsOf(Nat)
  <2>1. \A m \in S : 0 .. m \in SUBSET Nat /\ IsFiniteSet(0 .. m)
    BY FS_Interval
  <2> QED BY <2>1 DEF FiniteSubsetsOf
<1> HIDE DEF T
<1>2. PICK X \in T : \A Y \in T : ~(<<Y, X>> \in StrictSubsetOrdering(Nat))
  BY <1>1, FS_StrictSubsetOrderingWellFounded, WFMin
<1>3. PICK n \in S : X = 0 .. n
  BY DEF T
<1>4. ASSUME NEW m \in S, m < n PROVE FALSE
  <2>1. 0 .. m \in T
    BY DEF T
  <2>2. 0 .. m \subseteq 0 .. n /\ n \in 0 .. n /\ n \notin 0 .. m
    BY <1>4
  <2>3. 0 .. m \in SUBSET Nat /\ 0 .. n \in SUBSET Nat /\ 0 .. m # 0 .. n
    BY <2>2
  <2>4. <<0 .. m, 0 .. n>> \in StrictSubsetOrdering(Nat)
    BY <2>2, <2>3, Zenon DEF StrictSubsetOrdering
  <2> QED BY <1>2, <1>3, <2>1, <2>4
<1> QED BY <1>4

\* A lookup leaves the stage as far as it was and one thing less to look up, or half of it.
LEMMA LooksUpNearer ==
    ASSUME Typed, Looking, Finite, LooksUp
    PROVE  Remaining' = Remaining /\ Ahead' = Ahead /\ Lookups' < Lookups
<1>1. Remaining' = Remaining
  BY DEF LooksUp, counters, Remaining, Total
<1>2. Ahead' = Ahead
  <2>1. Way["static"] = Way["documents"] /\ "static" # "plan" /\ "documents" # "plan"
    BY DEF Way
  <2> QED BY <2>1 DEF LooksUp, Ahead
<1>3. Cardinality(todo) \in Nat
  BY FS_CardinalityType DEF Finite
<1>4. ASSUME stage = "documents", stage' = "static", UNCHANGED todo
      PROVE  Lookups' < Lookups
  <2>1. Lookups = 2 * Cardinality(todo) + 1 /\ Lookups' = 2 * Cardinality(todo) + 0
    BY <1>4 DEF Lookups
  <2>2. \A c \in Nat : 2 * c + 0 < 2 * c + 1
    OBVIOUS
  <2> QED BY <1>3, <2>1, <2>2, Zenon
<1>5. ASSUME stage = "static", stage' = "documents", todo' = LookedUp
      PROVE  Lookups' < Lookups
  <2>1. todo \in SUBSET Nat /\ todo # {}
    BY <1>5 DEF Typed, TurnTyped, Looking
  <2>2. Target \in todo
    BY <2>1, FirstOfNumbers DEF Target
  <2>3. Cardinality(todo') = Cardinality(todo) - 1
    BY <1>5, <2>2, FS_RemoveElement DEF Finite, LookedUp
  <2>4. /\ Lookups = 2 * Cardinality(todo) + 0
        /\ Lookups' = 2 * (Cardinality(todo) - 1) + 1
    BY <1>5, <2>3 DEF Lookups
  <2>5. \A c \in Nat : 2 * (c - 1) + 1 < 2 * c + 0
    OBVIOUS
  <2> QED BY <1>3, <2>4, <2>5, Zenon
<1> QED BY <1>1, <1>2, <1>4, <1>5 DEF LooksUp

\* A remediation is one of those that were left.
LEMMA RemediatesNearer ==
    ASSUME Typed, Remediates PROVE Remaining' < Remaining
<1>1. MaxTotal \in Nat /\ replans \in Nat /\ refetches \in Nat /\ recomposes \in Nat
  BY LimitsNat DEF Typed, CountersTyped
<1>2. Total' = Total + 1 /\ Total \in Nat
  BY <1>1 DEF Remediates, Total
<1> QED BY <1>1, <1>2 DEF Remaining

\* Each step of a turn brings it nearer to its end, for all limits, plans and answers:
\* no turn goes on for ever (ensure_aligned_v2_response, ReplyAlignmentLimitsV1).
THEOREM EndTheorem == Spec => TurnNearsEnd
<1> DEFINE Ready == Typed /\ Looking /\ Finite
<1>1. Init => Ready
  <2> SUFFICES ASSUME Init PROVE Finite /\ Looking
    BY TypedInit
  <2>1. DOMAIN plan.units = {} /\ todo = {} /\ stage = "route"
    BY DEF Init, Plan
  <2> QED BY <2>1, FS_EmptySet DEF Finite, Looking
<1>2. Ready /\ [Next]_vars => Ready'
  BY TypedStep, LookingStep, FiniteStep DEF Typed
<1>3. Ready => Measured
  BY DistanceMeasured
<1>4. Ready /\ Measured /\ Ready' /\ Measured' /\ [Next]_vars
        => [Nearer(Distance', Distance)]_vars
  <2> SUFFICES ASSUME Ready, Measured, Ready', Measured', Next
               PROVE  Nearer(Distance', Distance)
    OBVIOUS
  <2>1. Measured /\ Measured'
    OBVIOUS
  <2>2. CASE Onward
    <3>1. stage \in Stages /\ stage' \in Stages
      BY DEF Typed, CandidateTyped
    <3> QED BY <2>1, <2>2, <3>1, OnwardNearer, FirstDecides
  <2>3. CASE LooksUp
    BY <2>1, <2>3, LooksUpNearer, FirstDecides
  <2>4. CASE Remediates
    BY <2>1, <2>4, RemediatesNearer, FirstDecides
  <2> QED BY <2>2, <2>3, <2>4, StepKinds
<1> QED BY <1>1, <1>2, <1>3, <1>4, PTL DEF Spec, TurnNearsEnd

=============================================================================
