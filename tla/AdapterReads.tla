----------------------------- MODULE AdapterReads -----------------------------
(***************************************************************************)
(* What a turn reads of the adapter for a candidate: the handshake, the    *)
(* batch of resolves (integrations/adapter/preflight.py) and, for every    *)
(* unit of the plan that asks about a report, its scope: a summary, then a *)
(* match or the pages of its products (report_scope.py). One client serves *)
(* a turn and keeps what the adapter advertised; a refetch reads again.    *)
(* The adapter publishes reports while it is being read.                   *)
(*                                                                         *)
(* Products are numbered within the report of a period. An answer about a  *)
(* page brings its products, or only the first of them: one whose status   *)
(* is not "resolved" may bring few or none. Of the material type and the   *)
(* distribution it carries only whether they are those that were asked for *)
(* is kept.                                                                *)
(***************************************************************************)
EXTENDS Integers, Sequences, FiniteSetsExt

CONSTANTS
    Periods,      \* periods of reports
    NoPeriod,     \* the preflight told no period
    PageSize,     \* products per page
    MaxProducts,  \* MAX_PRODUCTS_IN_PROJECTION
    MaxTargets,   \* bound: report units of a plan
    Sizes,        \* how many products a report may have
    MaxEdits,     \* bound: publications altogether
    MaxRounds     \* bound: candidates of a turn

ASSUME PageAssumption ==
    /\ PageSize \in Nat \ {0} /\ MaxProducts \in Nat \ {0} /\ MaxProducts % PageSize = 0
    /\ Sizes \subseteq Nat
ASSUME NoPeriodAssumption == NoPeriod \notin Periods

VARIABLES
    reports,      \* the adapter's: how many products the report of each period has
    published,    \* how often each was published
    tenant,       \* the tenant it advertises
    readsAt,      \* where the turn is
    client,       \* the tenant its client keeps
    targets,      \* what is read: a command and the period it is bound to, if any
    page,         \* the current target's products so far, and what its first page told
    facts,        \* what was read
    rounds

adapterVars == <<reports, published, tenant>>
readsVars == <<adapterVars, readsAt, client, targets, page, facts, rounds>>

Commands == {"summary", "match", "list_products"}
Target(command, period) == [command |-> command, period |-> period]
NoPage == [next |-> 1, products |-> <<>>, total |-> 0, period |-> NoPeriod, version |-> 0,
           whole |-> TRUE]

\* What the client knows before its first handshake, and what the adapter may advertise.
Tenants == {"ours", "absent", "other"}

At(stage, i) == [stage |-> stage, target |-> i]

ReadsInit ==
    /\ reports = [p \in Periods |-> 0]
    /\ published = [p \in Periods |-> 0]
    /\ tenant = "absent"
    /\ readsAt = At("idle", 0)
    /\ client = "none"
    /\ targets = <<>> /\ page = NoPage /\ facts = {} /\ rounds = 0

-----------------------------------------------------------------------------
(* The adapter. *)

\* A report is published, or published anew, before or while it is read.
Publish(p, size) ==
    /\ MapThenSumSet(LAMBDA q : published[q], Periods) < MaxEdits
    /\ reports' = [reports EXCEPT ![p] = size]
    /\ published' = [published EXCEPT ![p] = @ + 1]
    /\ UNCHANGED <<tenant, readsAt, client, targets, page, facts, rounds>>

\* The adapter is deployed for another tenant.
Redeploy(t) ==
    /\ readsAt.stage = "idle"
    /\ tenant' = t
    /\ UNCHANGED <<reports, published, readsAt, client, targets, page, facts, rounds>>

LastOf(p, n) == IF n * PageSize < reports[p] THEN n * PageSize ELSE reports[p]

ReadBefore(n) == (n - 1) * PageSize

\* How many products page n of the report of p has.
OnPage(p, n) == IF LastOf(p, n) > ReadBefore(n) THEN LastOf(p, n) - ReadBefore(n) ELSE 0

\* The first products of that page, as many as an answer brings.
PageOf(p, n, brought) == [k \in 1..brought |-> <<p, ReadBefore(n) + k>>]

-----------------------------------------------------------------------------
(* The handshake and the preflight (AdapterPreflightService.collect). *)

\* A candidate is built, or its evidence refetched.
BeginReads(commands, resolves) ==
    /\ readsAt.stage \in {"idle", "read"}
    /\ rounds < MaxRounds
    /\ rounds' = rounds + 1
    /\ targets' = [i \in DOMAIN commands |-> Target(commands[i], NoPeriod)]
    /\ readsAt' = At(IF resolves THEN "preflight" ELSE "handshake", 0)
    /\ page' = NoPage /\ facts' = {}
    /\ UNCHANGED <<adapterVars, client>>

\* A fact of a target, as far as it is about periods and products. What it cannot tell is
\* whether its report was left alone meanwhile and whether its pages were whole.
Fact(i, type, period, products, total, steady, whole) ==
    [target |-> i, type |-> type, period |-> period, products |-> products,
     total |-> total, full |-> total <= Len(products), steady |-> steady, whole |-> whole]

\* A fact that lists nothing.
PlainFact(i, type, period) == Fact(i, type, period, <<>>, 0, TRUE, TRUE)

unavailable_fact(i) == PlainFact(i, "unavailable", targets[i].period)

\* adapter_tenant_errors
TenantFits(t) == t \in {"ours", "absent"}

\* assert_ready_for_tenant_async: the capabilities are asked for once, and kept though
\* their tenant does not fit.
Ready(t) ==
    /\ client \in {"none", t}
    /\ client = "none" => t = tenant
    /\ client' = t

\* The batch is asked for if the handshake succeeds, and a result tells the period of its
\* report, or none.
Preflight(periods) ==
    /\ readsAt.stage = "preflight"
    /\ \E t \in Tenants : Ready(t) /\ TenantFits(t)
    /\ targets' = [i \in DOMAIN targets |-> [targets[i] EXCEPT !.period = periods[i]]]
    /\ readsAt' = At("handshake", 0)
    /\ UNCHANGED <<adapterVars, page, facts, rounds>>

\* It fails, or the adapter is another tenant's: every item is an error and has no period.
PreflightFails ==
    /\ readsAt.stage = "preflight"
    /\ \/ UNCHANGED client
       \/ \E t \in Tenants : Ready(t)
    /\ readsAt' = At("handshake", 0)
    /\ UNCHANGED <<adapterVars, targets, page, facts, rounds>>

-----------------------------------------------------------------------------
(* The scope of reports (ReportScopeEvidenceService.collect). *)

NextTarget(i) == IF i < Len(targets) THEN At("summary", i + 1) ELSE At("read", 0)

Handshake ==
    /\ readsAt.stage = "handshake"
    /\ IF targets = <<>>
       THEN UNCHANGED client
       ELSE \E t \in Tenants : Ready(t) /\ TenantFits(t)
    /\ readsAt' = NextTarget(0)
    /\ UNCHANGED <<adapterVars, targets, page, facts, rounds>>

HandshakeFails ==
    /\ readsAt.stage = "handshake" /\ targets # <<>>
    /\ \/ client = "none" /\ UNCHANGED client
       \/ \E t \in Tenants : Ready(t) /\ ~TenantFits(t)
    /\ facts' = {unavailable_fact(i) : i \in DOMAIN targets}
    /\ readsAt' = At("read", 0)
    /\ UNCHANGED <<adapterVars, targets, page, rounds>>

\* (mutant) Only the first answer about a target is checked.
bound_if_first(i, p, fits) ==
    fits /\ (page = NoPage => targets[i].period \in {NoPeriod, p})

\* report_scope_binding_error: an answer about the report of p, for the material type and
\* distribution asked for or not, is one to this target's request.
Bound(i, p, fits) == fits /\ targets[i].period \in {NoPeriod, p}

\* A target's summary is answered.
Summary(p, fits) ==
    LET i == readsAt.target IN
    /\ readsAt.stage = "summary"
    /\ IF Bound(i, p, fits)
       THEN /\ facts' = facts \cup {PlainFact(i, "summary", p)}
            /\ readsAt' = IF targets[i].command = "summary"
                          THEN NextTarget(i) ELSE At(targets[i].command, i)
       ELSE /\ facts' = facts \cup {unavailable_fact(i)}
            /\ readsAt' = NextTarget(i)
    /\ UNCHANGED <<adapterVars, client, targets, page, rounds>>

Match(p, fits) ==
    LET i == readsAt.target IN
    /\ readsAt.stage = "match"
    /\ facts' = facts \cup {IF Bound(i, p, fits) THEN PlainFact(i, "match", p)
                            ELSE unavailable_fact(i)}
    /\ readsAt' = NextTarget(i)
    /\ UNCHANGED <<adapterVars, client, targets, page, rounds>>

GiveUp(i) ==
    /\ facts' = facts \cup {unavailable_fact(i)}
    /\ readsAt' = NextTarget(i)
    /\ page' = NoPage

\* How many pages the first one asks for (target_count).
Expected(total) == IF total < MaxProducts THEN total ELSE MaxProducts

\* (mutant) A page that is not full is left out.
whole_pages(total) == Expected(total) \div PageSize

\* ceil(target_count / PAGE_SIZE)
LastPage(total) == (Expected(total) + PageSize - 1) \div PageSize

\* products_fact, once the last page was read.
ReadPage(i, read) ==
    IF read.next <= LastPage(read.total)
    THEN page' = read /\ readsAt' = At("later_page", i) /\ UNCHANGED facts
    ELSE /\ facts' = facts \cup {Fact(i, "products", read.period, read.products, read.total,
                                      published[read.period] = read.version, read.whole)}
         /\ readsAt' = NextTarget(i)
         /\ page' = NoPage

\* The first page is answered, as resolved and with a total or not.
FirstPage(p, fits, counted, brought) ==
    LET i == readsAt.target IN
    /\ readsAt.stage = "list_products" /\ brought <= OnPage(p, 1)
    /\ IF Bound(i, p, fits) /\ counted
       THEN ReadPage(i, [next |-> 2, products |-> PageOf(p, 1, brought), total |-> reports[p],
                         period |-> p, version |-> published[p],
                         whole |-> brought = OnPage(p, 1)])
       ELSE GiveUp(i)
    /\ UNCHANGED <<adapterVars, client, targets, rounds>>

\* A later page is; its own total and status are not looked at, nor what it brings.
LaterPage(p, fits, brought) ==
    LET i == readsAt.target IN
    /\ readsAt.stage = "later_page" /\ brought <= OnPage(p, page.next)
    /\ IF Bound(i, p, fits)
       THEN ReadPage(i, [page EXCEPT !.next = @ + 1,
                                     !.products = @ \o PageOf(p, page.next, brought),
                                     !.whole = @ /\ brought = OnPage(p, page.next)])
       ELSE GiveUp(i)
    /\ UNCHANGED <<adapterVars, client, targets, rounds>>

TargetCalls == {"summary", "match", "list_products", "later_page"}

\* A call of a target raises AdapterClientError.
ScopeFails ==
    /\ readsAt.stage \in TargetCalls
    /\ GiveUp(readsAt.target)
    /\ UNCHANGED <<adapterVars, client, targets, rounds>>

Asking ==
    \/ readsAt.stage = "handshake" /\ client = "none" /\ targets # <<>>
    \/ readsAt.stage \in {"preflight"} \cup TargetCalls

\* A call raises what request_json does not catch, such as the timeout of a response that
\* is being read: nobody on the way does.
CallEscapes ==
    /\ Asking
    /\ readsAt' = At("escaped", 0)
    /\ UNCHANGED <<adapterVars, client, targets, page, facts, rounds>>

-----------------------------------------------------------------------------
CommandLists == UNION {[1..n -> Commands] : n \in 0..MaxTargets}

ReadsNext ==
    \/ \E p \in Periods, size \in Sizes : Publish(p, size)
    \/ \E t \in Tenants : Redeploy(t)
    \/ \E commands \in CommandLists, resolves \in BOOLEAN : BeginReads(commands, resolves)
    \/ \E periods \in [DOMAIN targets -> Periods \cup {NoPeriod}] : Preflight(periods)
    \/ PreflightFails \/ Handshake \/ HandshakeFails
    \/ \E p \in Periods, fits \in BOOLEAN :
        \/ Summary(p, fits) \/ Match(p, fits)
        \/ \E brought \in 0..PageSize :
            \/ \E counted \in BOOLEAN : FirstPage(p, fits, counted, brought)
            \/ LaterPage(p, fits, brought)
    \/ ScopeFails \/ CallEscapes

ReadsSpec == ReadsInit /\ [][ReadsNext]_readsVars

-----------------------------------------------------------------------------
(* Properties. *)

\* Every target is answered, by a fact of its command or by one that says it is not
\* available: a failure costs no other target its facts.
TargetsAnswered ==
    readsAt.stage = "read" => \A i \in DOMAIN targets : \E f \in facts :
        /\ f.target = i
        /\ f.type \in {"unavailable"} \cup
              (IF targets[i].command = "list_products" THEN {"products"}
               ELSE {targets[i].command})

\* What is said of a target whose period the preflight told is of that period, each of
\* its products included.
PeriodsKept ==
    \A f \in facts : targets[f.target].period # NoPeriod =>
        /\ f.period = targets[f.target].period
        /\ \A k \in DOMAIN f.products : f.products[k][1] = f.period

\* A list names products of the report once each and in its order, never more than the
\* maximum.
InOrder(f) ==
    /\ Len(f.products) <= Expected(f.total)
    /\ \A k \in DOMAIN f.products : f.products[k][2] \in 1..Expected(f.total)
    /\ \A j, k \in DOMAIN f.products : j < k => f.products[j][2] < f.products[k][2]

\* The products of a report up to a number.
Beginning(period, n) == [k \in 1..n |-> <<period, k>>]

\* A list bound to a period whose report was not published anew while it was read lists
\* what is that report's. It is all that is expected if every page came whole, and if one
\* did not it is not called full: a list with a hole in it never is.
ListsComplete ==
    \A f \in facts : f.type = "products" /\ f.steady /\ targets[f.target].period # NoPeriod =>
        /\ InOrder(f)
        /\ f.whole => f.products = Beginning(f.period, Expected(f.total))
        /\ f.full <=> f.products = Beginning(f.period, f.total)

\* What a turn is told about reports is what the adapter said about the period in
\* question, complete where it is called so, and no target is passed over in silence
\* (report_scope_binding_error, _collect_products_fact).
ReportFactsFaithful == TargetsAnswered /\ PeriodsKept /\ ListsComplete
=============================================================================
