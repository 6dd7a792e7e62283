--------------------------- MODULE MCCandidateTurn ---------------------------
(* TLC instances of CandidateTurn. *)
EXTENDS CandidateTurn, TLC

CONSTANTS o1, o2, q1, q2, q3

Business == {m \in Manifests : m.of # "general"}

Request(msg, scene, reads, actions, mentions, artifacts, options) ==
    [message |-> msg, scene |-> scene, reads |-> reads, actions |-> actions,
     mentions |-> mentions, artifacts |-> artifacts, options |-> options]

\* Groups with everything granted and offered, with nothing offered, without sales,
\* without grants to send, and direct conversations.
Requested(msg) ==
    {Request(msg, "group", Business, Artifacts, TRUE, Artifacts, {o1, o2}),
     Request(msg, "group", Business \ {CompanyKnowledge}, Artifacts, TRUE, {}, {}),
     Request(msg, "group", Business \ {CompanyKnowledge}, {"weekly_report", "material_pack"},
             FALSE, Artifacts, {}),
     Request(msg, "direct", {CompanyKnowledge}, {}, FALSE, {}, {}),
     Request(msg, "direct", {}, {}, FALSE, {}, {})}

AnyRequests == UNION {Requested(msg) : msg \in {"guardrail", "other"} \cup Artifacts}
PlannedRequests == Requested("other")
GroupRequests == {request \in PlannedRequests : request.scene = "group"}

Pack(option, products) ==
    Unit(Manifest("material_pack", "send"), "send", option, NoQuery, products)
Report(report) == Unit(Manifest(report, "send"), "send", NoOption, NoQuery, FALSE)
Products(report, query) ==
    Unit(Manifest(report, "product_list"), "answer", NoOption, query, FALSE)
Knowledge(query) == Unit(CompanyKnowledge, "answer", NoOption, query, FALSE)
Plain(use, answerability) == PlainUnit(General(use), answerability)

\* Plans with at most one knowledge unit.
OneLookupPlans ==
    {<<Pack(o1, FALSE)>>, <<Pack(NoOption, TRUE)>>, <<Report("weekly_report")>>,
     <<Pack(o2, FALSE), Knowledge(q1)>>, <<Products("weekly_report", NoQuery)>>,
     <<Products("monthly_report", NoQuery), Knowledge(q1)>>, <<Knowledge(NoQuery)>>,
     <<Unit(SalesHandoff, "handoff", NoOption, NoQuery, FALSE)>>,
     <<Plain("refusal", "refuse")>>, <<Plain("smalltalk", "smalltalk")>>,
     <<Plain("no_reply", "no_reply")>>, <<Plain("handoff", "handoff")>>}

\* Plans that ask for several pieces of company knowledge.
ManyLookupPlans ==
    {<<Knowledge(q1), Knowledge(q2)>>, <<Knowledge(q1), Knowledge(q2), Knowledge(q3)>>}

AnyPlans ==
    OneLookupPlans
    \cup {<<Pack(o1, TRUE), Pack(o1, FALSE)>>, <<Pack(o1, FALSE), Pack(o2, FALSE)>>,
          <<Knowledge(q1), Knowledge(q2), Knowledge(q3)>>}

\* Plans that send a report.
ReportPlans == {<<Report("weekly_report")>>, <<Report("monthly_report")>>}
=============================================================================
