# A TLA+ model of the market support agent's reply runtime

The program is a FastAPI service that answers chat messages of sales conversations. A request
reserves a *turn* of its conversation, plans and composes an answer with LLM calls, verifies it, and
commits the answer together with the conversation's history; the chat adapter then reports what
became of the answer's effects (*action feedback*). All state is in memory, in one *reply-state
coordinator*. Beside the turns a health monitor probes the models, and every call of a model goes
through one process-wide gate. This directory holds models of the admission of requests, of the
coordinator and the turns that use it, of what one turn does between its admission and its reply (what
it recalls, reads, looks up, grounds, sends and has verified), of the journal it keeps of its calls, of
the health monitor and of the gate, with their model-checking instances and the proofs about them. Paths below are relative to `src/market_support_crewai_agent/`.

## Inventory

| component | state | operations | what makes it correct |
|---|---|---|---|
| State transaction coordinator (`runtime/state/coordinator_*.py`, `transaction_coordinator.py`) | one immutable root of eleven maps; a lock | `reserve_reply`, `abort_reply`, `commit_reply`, `prepare_feedback`, `commit_feedback`, `cleanup`, `read_turn_admission_snapshot`, `lookup_issued_response` | one turn per conversation; owner tokens; optimistic revisions; replay of answered requests; feedback applied once; exact indexes; capacities |
| Reply turn lifecycle (`runtime/lifecycle.py`, `lifecycle_admission.py`) | locals of a coroutine: reservation, snapshot, candidate, `committed` | reserve or replay, validate, admit, build, align, commit, abort in `finally` | every reservation is committed or aborted or expires; nothing planned on a stale snapshot is committed |
| Candidate pipeline and planner (`runtime/pipeline.py`, `planning_flow.py`, `v2_attempt.py`, `runtime/planning/`) | a turn's plan, evidence and reply | input rules, send commands, recall, planner and its repair, adapter and knowledge lookups, pack resolution, rendering, composing | order of the short cuts; one repair; what is sent was resolved; every turn ends in a reply or an error somebody handles |
| Alignment loop (`runtime/validation/alignment_loop.py`) | remediation counters, candidate | verdict, replan, refetch, recompose, replace | budgets hold; it ends; only the candidate the verifier saw leaves |
| LLM journal and dispatch budget (`runtime/prompts/invocation_journal.py`, `lifecycle_journal_audit.py`) | rows of a turn | reserve, close, audit | every call a turn makes has a row; every request of a committed turn is in its audit; the audit refuses no turn without need |
| Recall (`runtime/recall/`) | recall state of a turn | static selection, document recall | the best of what was recalled is shown, for what it is; a failing source costs the other nothing |
| Evidence, policy, rendering and prompts (`runtime/policy/`, `runtime/evidence/`, `runtime/rendering/`) | none between turns | compile a manifest, admit facts, ground, render | no plan, fact or action passes that the request's grants do not open |
| Provider calls and I/O capture (`runtime/prompts/direct_provider_io_capture.py`, `provider_call.py`) | the gate, the process's streams and log, executor threads | acquire, install, call, close, abort | captures exclude each other and fail closed; the gate always comes back |
| LLM health monitor (`health/`) | per-target status, outages, warning times | probe loop, hooks of turns, stop, daily report | an outage is recorded and warned of once; reports are exact; probes keep their interval |
| Document MCP client, payload store (`runtime/integrations/document_mcp/`, `runtime/context/payload_store.py`) | TTL maps | get, set, evict | nothing expired is served, nor to another conversation; what is shown is what was selected |
| Adapter client and preflight (`runtime/integrations/adapter/`) | cached capability handshake | assert ready, resolve | only capabilities that pass are kept; what is told of a report is of its period, and complete where it says so |
| HTTP admission and background loops (`server/`) | the coordinator singleton keyed by settings, compatibility client, cleanup task | gates of `/reply` and `/action-feedback`, provider, lifespan | a turn runs only if every gate lets it; threads and lock come back; cleanup runs while the service runs |
| Legacy stores, observability, schemas, settings | history and ledger stores no turn reads; traces | | |

The parts meet in the coordinator: `/reply` calls `reserve_reply`, the turn reads the admission
snapshot, then `commit_reply` or `abort_reply`; `/action-feedback` calls `prepare_feedback` and
`commit_feedback`; the lifespan's loop calls `cleanup`. They run on one event loop and on worker
threads, and everything between two calls of one caller may be interleaved with any call of
another. The hazards that follow from it are listed with their source lines in
`PROJECT.json`: superseded owners, revisions that are pruned and recreated, evictions that leave
dependents behind, stale preparations, stepped wall clocks, publications refused half way. Inside
a turn the difficulty is another: models and adapter answer anything or fail at every await, and
up to two remediations rebuild a candidate some of whose parts were decided for an earlier one.
The gate adds threads: a lock taken by a thread for a coroutine that may be cancelled meanwhile,
in a pool that other blocking calls share.

## What is modelled

`StateRoot.tla` has the root and the pure functions that build candidate roots: maps
(`FrozenMapV1`), record shapes, retention (`coordinator_retention.py`) and cleanup
(`coordinator_cleanup.py`). The names of the root's fields are the source's.

`Coordinator.tla` has the state machine. Every operation of
`ReplyStateTransactionCoordinatorV1` runs under one lock and ends by publishing a candidate
root or raising, so each is one action that includes the cleanup, eviction, session eviction
and pruning the operation performs.

| code | model |
|---|---|
| `_root` | `root` |
| `monotonic_ns()`, `time()` | `mono` (`Tick`), `wall` (`WallStep`, forwards or backwards) |
| reservations and preparations callers keep between calls | `held`, `prepared` |
| `reserve_reply` | `ReserveReply`: cleanup, room for the record, reservation; when the publication of the reservation is refused, cleanup and eviction stand |
| `abort_reply`, `commit_reply` | `AbortReply`, `CommitReply` (with `enforce_session_capacity`) |
| `prepare_feedback` | `PrepareFeedback`, or `ReusePreparation` when a token is stored |
| `commit_feedback` | `CommitFeedback`, or `RefuseFeedback` with its three outcomes (unknown token, stale and dropped, receipts full) |
| `cleanup`; calls that raise or replay after their cleanup | `Cleanup` |
| `admitted_action_ledger_rows` | `AdmittedRows` |

`TurnLock.tla` is the abstract specification: a lease per conversation. A turn acquires a free
conversation for the pending TTL; nobody else can until its holder releases it or, once the lease
has run out, a sweep frees it; whoever lost a lease takes nothing from its successor.
`Coordinator` implements it (`ImplementsTurnLock`) under the mapping `leases` (the pending records,
by conversation), `lease_holders` (the reservations callers keep) and `mono`.

`ReplyTurn.tla` puts the service's own callers on top of the coordinator:

| code | model |
|---|---|
| `run_reply_turn` up to the reservation (`runtime/lifecycle.py`) | `StartTurn` |
| `admit_turn`, `read_turn_admission_snapshot` | `AdmitTurn`, `Snapshot`; the turn's snapshot is kept in `snapshots` |
| the waits for language models, between admission and commit | the turn stays in `held`, for as long as it takes |
| the commit on the snapshot | `CommitTurn` |
| any failure or cancellation, then the `finally` block | `EndTurn`: the abort, its refusal swallowed |
| `action_feedback` (`server/main.py`) | `SubmitFeedback`, `FinishFeedback` |
| `_cleanup_coordinator_loop` (`server/lifespan.py`) | `CleanupLoop` |

The handlers are coroutines of one event loop, so a turn from reservation to admission and a
feedback submission from preparation to commit are interrupted by no other handler (`LoopFree`);
the cleanup runs on a worker thread and may come anywhere. `Coordinator` on its own assumes less:
there, callers are not trusted with order or time, and a reservation or preparation stays in `held` or
`prepared` until it is used, possibly after it expired or was superseded.

`PlanAuthority.tla` has the pure functions a turn is decided by: the policy manifest compiled from
a request's grants and offers (`compile_policy`), execution plans and what the compiler and the
validator refuse (`Compiles`, `Admissible`), the plans the program makes itself, the evidence admitted
for a unit (`FactsFor`, `Grounded`), replies and their validation. `CandidateTurn.tla` runs them:

| code | model |
|---|---|
| `match_input_policy`, `match_direct_send_command`, `collect_preplanner_recall` (`pipeline.py`, `planning_flow.py`) | `RouteMatched`, `CollectRecall` |
| the planner's call, `coerce_planner_plan_with_error` and the one schema repair | `PlannerAnswers`, `PlannerInvalid`, `PlannerFails`; `repaired` |
| `build_candidate_from_plan_v2` (`v2_attempt.py`) | `BuildFrom` up to its first await, then by its awaits `ReadAdapter`, `SelectDocuments` / `NoDocuments`, `SelectStatic` / `StaticFails`, `Render`, `Compose` / `ComposerFails` |
| `ensure_aligned_v2_response` (`alignment_loop.py`) | `VerifierAligned`, `VerifierFails`, `RemediateReplan`, `RefetchDocuments`, `RefetchReportScope`, `RemediateRecompose`, `FallBack`; the counters `replans`, `refetches`, `recomposes` |
| the except clauses around them | `AgentFailure` (a replan gives way to a refusal), `Escape` (nobody catches it), `CallFails` (either: the kickoff of planner or composer lists the exceptions it turns into an agent's failure and lets all others through), `Finish` |
| `TurnLlmInvocationJournalV1.reserve` and the formula that sizes it (`settings_model.py`) | `Reserve`, `JournalFull`; `rows`, `Capacity` |
| `TurnSelectorOutcomeCacheV1` | `cache`, least recently used of four first |

What the turn awaits is `stage`, what the candidate is built for `doing`; `built` numbers the candidates,
and `approved` is the one the verifier last found aligned. `looksOnce` is a history variable. How a
turn ends is `outcome`: answered, a runtime error (`agent_error`), a reply the contract refuses
(`contract_error`), or an exception outside every handler (`escape`); `ReplyTurn` then aborts
(`EndTurn`) whatever the kind.

`TurnJournal.tla` has the rows of the journal, of which `CandidateTurn` only counts how many a turn
needs, and the audit that reads them when the turn commits:

| code | model |
|---|---|
| `TurnLlmInvocationJournalV1` (`invocation_journal.py`) | `rows`; `Reserve`, `NoRow`, `Close` (`replace_reserved`) |
| `run_crewai_kickoff` for agents, `run_direct_provider_text` for all other calls | `Kickoff`; `phase` of the call under way, its steps `Enter`, `Request`, and one action for each way it ends: `Answer`, `NoAnswer`, `Fail`, `FailUnlisted`, `Cancel` |
| the hook in an agent's model (`request_capture.py`) | `captured`; a kickoff that times out or is cancelled may leave a thread behind (`late`), whether it had made a request or not, and what that thread asks comes when the hook is gone (`LateRequest`) |
| the except clauses of the stages | `Tolerated`, `After`, `Unusable`: the turn ends, goes on, or answers with a reply of the program's own |
| `journal_audit_attempts`, `validate_program_audit_labels`, `build_audit_record` | `Auditable`, `LabelsValid`, `Recordable`; `Commit`, which writes `audit` or is refused |

A row's digests are there or not; of its error codes the model keeps whether they are the output's or
the transport's. `sent`, the calls whose request went out, `again`, those of which a second one did, and
`unlisted`, those ended by an exception in no handler of theirs, are history variables. A thread left
behind makes at most one request more, which bounds the model. Which calls a turn makes is left open:
`CandidateTurn` says which it does make.

`LlmHealth.tla` has the monitor (`health/llm_health.py`): `state` of the two targets, the probe loop
(`BeginRound`, `ProbeEnds`) from target to target and to sleep, which is over for good when an agent
cannot be built (`ProbeNotBuilt`), the daily report loop (`ReportRound`, `NextReportAt`), the hooks
through which turns report (`TurnReports`), `Stop`, after which the hooks find no monitor, and the
arithmetic of the report (`OutageSeconds`). `down` is a history variable, the instants a target stayed
unhealthy. One model of planner and composer at one endpoint makes one call report on two targets
(`SharesEndpoint`).

`ProviderGate.tla` has the gate of model calls:

| code | model |
|---|---|
| the event loop's default executor, its queue and threads | `queued`, `working`; `TakeJob`, `JobEnds`, `Submit` (adapter calls) |
| `_PROVIDER_GATE`, `_acquire_provider_gate` | `gate`; `Start`, `Acquire`, `CancelWaiting`, `CancelGranted`, `GiveBack` |
| `install`, `_abort_installation` | `Install`, `Redirect`, `InstallFails` |
| descriptors 1 and 2; `sys.stdout`, the log and its record factory | `streams`; `globals` |
| pipes, drainer counts, what the capture noticed | `capture`; `Write`, `Drain`, `Inherit`, `Rewire` |
| `run_provider_call`, `run_direct_provider_text` | `Lookup`, `ProviderEnds`, `CancelCall` |
| `close` | `Restore`, `RestoreGlobals`, `Finish`; `Exit` when the streams cannot be had back |

`wrote` is a history variable: the calls during whose capture anything was written. Installing and
closing a capture is synchronous code of the event loop, so no other coroutine acts between the steps
(`LoopFree`), but other threads do. Nothing in this part of the code asks who wrote: a call fails
because an access log line, or a thread that an earlier cancelled call left behind, wrote during
its capture. The code means it that way, and its tests say so.

`Admission.tla` has the routes of `server/main.py` in front of the turn: `CheckKey` (`require_api_key`),
`Refuse` and `Pass` (`RequestChecks`, `DirectChecks` and their statuses, in the code's order), the
length of the message at last (`Run`), and the status an ending is mapped to (`End`). Synchronous
dependencies take a thread of a pool (`TakeThread`); direct requests share one adapter client, whose
`assert_ready` is `KeptReady`, `TakeLock`, `AdapterAnswers`, `AdapterFails`. What is wrong with a
request, a deployment or the adapter's capabilities is a set of *flaws*.

The next four say what an await of `CandidateTurn` does:

| module | code | model |
|---|---|---|
| `Recall.tla` | `recall/flow.py`, `question_recall_analyzer.py`, `document_qa_recall.py`, `outcome_models.py` | `Ask`, `CollectStatic` (thresholds and `Decision`), `CollectDocument` or `DocumentsFail`, `Outcome` (`Merged`, the limit on size) |
| `AdapterReads.tla` | `integrations/adapter/preflight.py`, `report_scope.py` | `Preflight`, `Handshake`, then for every target `Summary` and `Match` or `FirstPage`, `LaterPage`, which bring any number of a page's first products (only the binding of a later page is looked at, not its status); `ScopeFails`, `CallEscapes`; the adapter's own `Publish` and `Redeploy` (external) come at any time |
| `KnowledgeLookup.tla` | `evidence/internal_company_knowledge.py`, `document_mcp/` (`manifest.py`, `client.py`, `cache.py`), `approved_static_selector.py` | for every unit `SelectDocuments`, `CacheHit` or `CacheMiss` with `ServerAnswers` and `Store`, `SelectEntry`; `NoDocuments`, `LookupEscapes`; several turns share `cache` |
| `Grounding.tla` | `evidence/executor.py`, `grounding.py`, `canonical_models.py`, `decisions/business_fact*.py`, `rendering/v2_composer.py` | `Collect` makes the facts and grounds the units, or `ResolveRefused` ends the turn (a date or a binding its contract refuses), `TakeOver` grounds another plan, `RenderGrounded`, `ComposeGrounded`, `NothingToCompose`, `Review`, `RecomposeGrounded` |

`Grounding` extends `PlanAuthority` and says the same as it does with more detail: of a unit's evidence
`PlanAuthority` keeps whether there is any, `Grounding` every fact with its kind, source, scope and
images. That the two agree on every plan, policy and evidence is `AgreesWithAuthority`.

`CandidateTurn`, `TurnJournal`, `LlmHealth`, `ProviderGate` and these five are separate specifications: a turn's
calls are awaits of `CandidateTurn` with any outcome, rows of `TurnJournal` with any outcome, calls
of `ProviderGate` that succeed, fail or are violations, and reports to `LlmHealth` in any order.
`ReplyTurn` leaves the time between admission and commit open, which covers whatever `CandidateTurn`
does there. An await of `CandidateTurn` allows the outcomes the module of that await has, failures
nobody catches included (`CallFails`, `StaticFails`, `SourceFails`); only a unit with more facts than it may have
(`TooManyFacts`) ends a turn in `Grounding` alone.

Abstractions, each of them an over-approximation or a restatement:

* Texts, hashes, identifiers are opaque. A feedback hash *is* the request it digests. A secret or
  uuid that is drawn is an arbitrary but fixed value nobody remembers (`Drawn`): such values are
  interchangeable, and an operation that finds none is not taken, which bounds the model.
* Ties that the source breaks by the bytes of a key are left open: victim sets
  (`SessionVictims`, `IssuedVictims`, `AuditVictims`, `LedgerVictims`) hold every choice.
* The derived order tuples, the journal and the fault hook are omitted. `_validate_root` is not a
  guard: that it never has a reason to refuse is what `IndexesExact` and `PendingIndexExact` say.
* `SendActions` stand for the positions of the actions of a response. A reply's ids are
  `positional` when rendering set them (`ensure_response_ids`, what production commits) and
  opaque when the coordinator draws them (what its contract and its tests use). Feedback on
  positional ids cannot pass the schema (`Reportable`).
* Pending records keep the fields something reads. The admission snapshot's limit of 20 rows and
  the inputs `commit_reply` rejects as malformed are left out, as is
  `replace_session_state_candidate`, which no turn calls.
* `moved` in a reservation is a history variable.
* A unit's scope is whether it names products, and its pack option; staleness, provenance and
  distribution scopes of facts, which only take evidence away, are left out. A guardrail or a send
  command is a kind of message, not a text. `internal_company_knowledge_enabled` is part of the
  grant to read company knowledge.
* The verifier is enabled (`lifecycle.py:187`), and provider calls are not retried
  (`planner_transient_retry_attempts` is 0 by default). A shortcut past the planner needs a payload
  that `QuestionRecallService.collect` never hands out, so it is not an action.
* The health monitor's clock does not step back; a target without a key is a probe that fails at
  once. Which job a free thread takes next, and which blocked thread gets a lock, is open.
* A period, a document, an entry, a query is a model value. Of a report's products their numbers are
  kept, of a ranked question its score and coverage in percent, of an answer's text the images it
  shows and those sanitizing takes out of it. The settings are drawn once (`Deploy`): they come from
  the environment, which nothing changes.
* The document server's answer is read at one instant, and is on its way for a bounded time
  (`CallTime`), as the client's timeout makes it.
* What the transports send and read is left out. An `OSError` while a capture is installed is a call
  that was `refused` in `ProviderGate`, and `FailUnlisted` in `TurnJournal`.
* The audit's comparisons of a row with the program registry (ids, versions, schemas, scene contracts)
  are left out: a row is closed with those of the program that was dispatched. So is the digest key
  of direct audits.

## What is checked

The runs are instances in `MCCoordinator.tla`, `MCReplyTurn.tla` (`turns`),
`MCCandidateTurn.tla` (`candidate`, `dispatches`, `reports`, `replans`), `MCLlmHealth.tla`,
`MCProviderGate.tla` and `MCServing.tla`, which runs `Admission`, `AdapterReads`, `KnowledgeLookup`,
`Recall`, `Grounding` and `TurnJournal`, one of them in each behaviour as they share no state.

| run | instance | what it shows |
|---|---|---|
| `reservations` | 2 conversations, 2 requests, 2 records, 1 session, 4 clock values, pending TTL 1, complete TTL 2 | two reservations can overlap, expire, be superseded by the same request, meet eviction, and be pruned to nothing and recreated: `PendingIndexExact`, `IndexesExact`, `RevisionsExact`, `RevisionIdentifiesState`, `AnswerFinal`, and the refinement `ImplementsTurnLock` |
| `sessions` | 2 conversations, 1 session slot, wall clock 0..1 stepping both ways, history of 3 messages, replies that clarify or not | `ClarificationIsLatest`, `CapacitiesHold`, `BusySessionKept`; the odd history limit cuts inside a pair |
| `feedback` | 1 conversation, 2 responses with 2 send actions, 2 feedback ids, outcomes failed and executed, ledger of 1 row | `PreparationsSound`, `FeedbackAppliedOnce`, `AdmittedRowsCurrent`, `ReportsStand`: two submissions race, go stale, are reused and expire |
| `turns` | `ReplyTurn`: 1 conversation, 2 requests, 2 scopes, 2 turns at a time, a history of one exchange, 1 feedback id, 3 instants of the monotonic clock, a wall clock that steps both ways, pending TTL 1, fairness | turns wait, fail in any stage, hang, outlive their reservation and are superseded, with feedback on earlier answers and the cleanup in between: `InProgressHasTurn`, `PlannedOnCurrentState`, and `ConversationReleased`: a turn that hangs does not keep its conversation |
| `candidate` | `CandidateTurn`: 5 kinds of request, each as a guardrail, a command for each artifact or a plain message; 15 plans of up to 3 units; 2 pack options, 3 queries; one remediation of each kind, 2 in all | a turn goes from its message to its reply while everything it awaits answers anything or fails: `ReplyReviewed`, `SentIsResolved`, `SalesHandoffKept`, `OwnPlansCompile`, `RemediationKeepsAuthority`, `OneLookupFits`, and `TurnEnds`: each step brings the turn nearer to its end (`TurnNearsEnd`), and it gets there |
| `health` | `LlmHealth`: 2 targets of one endpoint, time 0..3 with a day of 3 whose report is due at 2, intervals 2 and 1, cooldown 3, turns open one outage at most | probes and turns report in any order, also while a probe is under way or the monitor stops: `OutagesSound`, `OutagesTold` (reports exact, no outage without a warning), `ProbedInTime`, and `StopEnds` for both loops |
| `gate` | `ProviderGate`: 2 calls and an adapter call in 1 thread, 2 cancellations and 1 failing system call | `StreamsOwned`, `FailsClosed`, `GateComesBack`, `WaitsEnd`: the only thread may be blocked on the gate while the call that has it needs a thread for its host's name |
| `serving` | `Admission`: 3 requests, 2 threads, a complete deployment or one without direct conversations, at most one flaw each, capabilities that change once. `AdapterReads`: 2 targets, 2 periods, reports of 3 or 5 products in pages of 2, at most 4 shown, 2 publications, 1 candidate. `KnowledgeLookup`: 2 turns of a group and a direct conversation, 2 documents of which 1 may be asked for, TTL 1, 4 instants, 1 change. `Recall`: 2 rows of each source on both sides of every threshold, 3 shown, 5 bytes. `Grounding`: 3 policies, 16 plans of 1 or 2 units, 1 document, an entry of 2 images, 2 facts a unit. `TurnJournal`: either scene, up to 3 calls of any stage and a fourth without a row | each of them with its failures: `DirectTurnsAdmitted`, `PoolReturned`, `ReportFactsFaithful` (of which `ListsComplete` says that a list with a hole in it is never called full), `KnowledgeSound`, `RecallHonest`, `GroundingSound`, `RequestsAudited` (a call that made a request has one in the audit, and one that made a second unnoticed is there as failed), `RefusalsExplained` |
| `action_ids` | as `reservations` | a violation, below |
| `dispatches` | as `candidate`, plans of several knowledge units | a violation, below |
| `reports` | as `candidate`, plans that send a report, no remediations | a violation, below |
| `replans` | as `candidate`, planned requests of a group | a violation, below |

Two of each actor are enough for the hazards listed: each needs one operation that another
overtakes, a third only repeats the pattern. The clock bounds leave room for a record to be
reserved, expire, be reserved again and expire again. `MaxMono`, `MaxWall` and `MaxRevision` bound
the model only; the TTLs are in ticks, with the source's order (pending before complete). In
`ReplyTurn` a turn starts only while the clock can still run its reservation out (`mono + PendingTtl
<= MaxMono`): beyond that the bounded clock would stop under a turn that real time would expire. In
`candidate` the limits, one remediation of each kind and two in all, are the settings' defaults; the
15 plans hold each kind of unit, two packs of one and of two options, and a plan with more lookups
than the journal's formula counts. In `TurnJournal` a fault needs one call and its consequence another;
a third leaves room for a planner's, a composer's and the verifier's. In `health` an
interval, an outage and a cooldown end within the time; only failures turns report are bounded
(`MaxOutages`), probes fail as often as they run. In `gate` a second cancellation of the same call
is what defeats its giving back, so 2 are enough, and one thread is the tightest pool. In `serving` the third request is the one that overtakes two that share the pool or wait for the
lock; the clock runs a cached document out while another turn's answer is on its way; two units are
what evidence can be confused between. Of the reports one of 5 products has a page that is not full
and is longer than what may be shown. Deadlock is checked where the system goes on for ever; a turn, the
calls of `gate`, a monitor that was stopped, the parts of `serving` and a
process that exits come to an end.

**Fairness.** `Coordinator` has none: nothing obliges a caller to come back. `TurnSpec` has weak
fairness of `CleanupLoop`, because the lifespan's loop calls `cleanup` after every interval for as
long as the service runs, and of `Clock`, because time passes. Nothing is assumed of turns: a turn
may wait for a provider for ever, and `ConversationReleased` says its conversation is released all
the same. This takes for granted that the settings stay as they were at startup: the provider
replaces the coordinator when they change, and the loop keeps cleaning the old one.
`CandidateTurn` has weak fairness of its next step: every await of a turn ends, with an answer, an
error or its timeout. `LlmHealth` has it of its two loops: probes end by their timeout and the event loop runs what
is ready.
`ProviderGate` has it of the event loop (`LoopStep`) and of the threads (`ThreadStep`): a call of the
crew runs under a total timeout (`provider_call.py:47`); the direct client's timeout is one per phase
of the exchange, so that a provider which trickles its answer is assumed away. `WaitsEnd` needs
the timeout: a call that waits for a thread to look its host up, behind threads that wait for
the gate it holds, ends by nothing else.

**Violations.** Four runs check what a document, a prompt or a test says of the program, and
fail:

* `action_ids`. The adapter contract (`docs/adapter/assistant_adapter_contract.md:362`) and
  `schemas/feedback.py:154` say an `action_id` is `act-` and 32 hexadecimal characters. The runtime
  numbers the actions of a rendered reply `act-1`, `act-2` (`runtime/rendering/response_ids.py:18`)
  before the coordinator could draw such an id, and the coordinator keeps what is there. No send
  action of a rendered reply can be reported on: `IssuedActionsReportable` fails at its first commit.
* `dispatches`. The README says the journal's formula "is checked against the 18-dispatch ceiling",
  and a test calls it exact. It counts one knowledge lookup per candidate, and a plan may hold four,
  of two selector calls each: `DispatchesFit` fails on a turn whose plans look up two or three
  pieces and are replanned and refetched. With one lookup the formula is right, whatever the
  limits (`OneLookupFits`, proved).
* `reports`. The planner is told to pick the requested capability and to leave the refusal to the
  program if the adapter cannot satisfy it (`prompts/fragments/base/planner_intent_base.md:38`). A
  report that is missing leaves a plan in the action mode without an action; the reply is invalid
  and the turn fails (`UnresolvedSendAnswered`). Only a single material pack has a plan that takes over.

* `replans`. A test is named `test_alignment_replan_failure_returns_unable_instead_of_raising`
  (`tests/integration/runtime/test_reply_contract_alignment_replan.py:173`). The loop catches an agent's
  listed failures and timeouts; exceptions of another class, which the kickoff lets through
  (`integrations/crewai/io.py:186`), and the failure of the selector of approved entries end the turn in
  a replan as anywhere else (`ReplanFailsSoft`).

Three hazards have no property. Candidates of both branches that take more than 5,120 bytes together
break the outcome's contract (`recall/outcome_models.py:99`), and the handlers of the branches are for
other failures: the turn ends before the planner is asked, although `docs/architecture.md:113` calls
recall fail-open (`Outcome`, `SourceFails`). A plan with packs of *two* options asks the adapter for the last one only,
and both actions carry its reference (`executor.py:206`): nothing in the repository says such plans are
meant, so the part of `GroundingSound` that is about options speaks of plans of one. A send command for
an artifact that is granted and not offered makes a plan the compiler refuses, which ends the turn
(`planning/direct_send.py:183`): `OwnPlansCompile` leaves that case out.

Three more the models show and no property forbids, because nothing says what is meant: a probe whose
agent cannot be built ends the probe loop without a word (`ProbeNotBuilt`); a report that is published
anew while it is read gives a list of two reports (`steady` in `ListsComplete`); a later page that is
unavailable or short leaves a hole in a list (`whole`), which is then shown as truncated and never as
full. A fourth is in `TurnJournal`: a kickoff that times out takes the hook out
(`integrations/crewai/io.py:137`) and leaves its thread behind, whose second request nobody notes, nor
refuses, as `record_request_capture` would while the hook is in. The turn may commit with one row for
two requests (`again`); what its audit says is right as far as it goes: the call failed, and a request was
made (`RequestsAudited`).

`RefusalsExplained` names the two reasons for which a turn that was answered is refused when it
commits. Both are failures some stage had tolerated: a verifier's call in a group that times out before
its request is noted leaves a row without the request's hash, and the reply the program falls back to
cannot be audited; an exception of a class `run_crewai_kickoff` does not list, for instance one of the
library's own error classes `provider_errors.py` knows by name, leaves the row open. The test of failing
kickoffs (`tests/unit/orchestration/test_crewai_io.py:95`) raises a `RuntimeError`, which is listed. No
document says that a tolerated failure leaves the turn auditable, so neither is a violation here.

## What is proved

Eight modules hold the proofs. Every theorem is for every value of the constants that meets the assumptions of the module it is about:

| assumption | what it says, and why the code justifies it |
|---|---|
| `ConfigAssumption`, `EffectAssumption`, `InputAssumption` | the checks of `build_coordinator_config`; the shapes of the input sets; a response has finitely many effects |
| `LimitsAssumption`, `PlanSpecsAssumption` | each remediation limit is at most the total, which is at most 2, as the settings validate |
| `ParametersAssumption` | intervals, cooldown and day are positive, as the settings validate |
| `PageAssumption` | `MaxProducts` is a positive multiple of `PageSize` (200 and 50 in the code). With no product to be shown `ReportFactsFaithful` would be false: an empty list would be called full |
| `KnowledgeAssumption` | at least one document may be asked for; TTL, limits and the answer's time are natural numbers; an entry shows images it has |
| `RowsAssumption` | scores and coverage are percentages; at least one candidate may be shown |
| `GroundingAssumption` | the units of a plan are units; a direct request offers no options, because a direct identity has no business scope (`schemas/conversation.py:274`). Without it `WithinCeiling` would be false |
| `MaxRowsAssumption`, `CallsAssumption`, `PostsAssumption`, `DeploymentsAssumption`, `AdvertsAssumption` | a journal holds at most 18 rows; sentinels are no values; what a deployment lacks and what is wrong with capabilities are what the code names |

The bounds of the model (`MaxMono`, `MaxTime`, `MaxChanges` ...) are arbitrary in the theorems.

`CoordinatorProofs.tla`, the coordinator's root:

* `RecordsStayTyped`, `StateStaysTyped`: first every map but the turn histories, with one lemma per
  operation on the root and one per action; then the histories, too.
* `OneTurnPerConversation`: `PendingIndexExact`. Inductive together with the types: each operation that
  removes a pending record removes its entry, and a reservation adds both only where neither was.
* `RevisionsStayExact`: `RevisionsExact`. The proof goes through the weaker `Covered` (every
  conversation of which anything is retained has a revision), which the candidates satisfy before
  pruning; pruning makes it an equality. A candidate that commits needs the pending record it came
  from, so its conversation was pinned already.
* `ClarificationsStayLatest`, `CapacitiesAreKept`, `BusySessionsAreKept`: `ClarificationIsLatest`,
  `CapacitiesHold`, `BusySessionKept`, from two invariants, `Fits` (each map is finite and within its
  limit) and `Recalls` (histories are typed, not empty and no longer than `MaxMessages`, and a
  clarification is of the last turn). What expiry leaves of a history is `LiveTurns`, a recursive
  function. `NatSets` is what is left of induction here: a set that has 0 and with n also n + 1
  contains `Nat`, because its complement would have a least element in the well-founded strict
  inclusion of finite sets. With it `LiveTurnsKept` says of `LiveTurns` what the invariant needs: the
  last live turn stays last, and where all are live all stay. A clarification expires with its turn,
  which is why it cannot outlive it, even with a wall clock that steps back.

`FeedbackProofs.tla`, what the coordinator says about an answer:

* `IndexesStayExact`, `FeedbackIsAppliedOnce`, `PreparationsStaySound`, `AdmittedRowsStayCurrent`:
  `IndexesExact`, `FeedbackAppliedOnce`, `PreparationsSound`, `AdmittedRowsCurrent`, from the one
  invariant `Agrees`. None of the four is inductive. `PreparationsSound` needs that a
  preparation is of the record as it is or *as it was before a later report* (`Tracks`: the revision
  tells which), since one that went stale stays in callers' hands and must not come alive again. Rows
  of the ledger outlive each other's evictions, so `LedgerTracks` bounds a row's revision by the
  number of its effect's changes. Every operation but the two commits only forgets (`Forgets`: an answer goes with its index
  entries, a receipt no sooner than its reference in the record), and one lemma per part says that
  forgetting keeps it.
* `AnswersAreFinal`, `ReportsAreFinal`: `AnswerFinal`, `ReportsStand`. What one operation drops it drops because
  it ran out (`Fades`), or as the victim of a full store, which is what `Fits` is for.

`TurnProofs.tla`, the refinement of the lock, and the service:

* `CoordinatorImplementsTurnLock`: every behaviour of the coordinator is a behaviour of `TurnLock`.
  What the lock sees of a root are its pending records (`PendingRecs`), and the lemmas say what
  each operation does to them: pruning and eviction leave them alone, a cleanup removes exactly
  those that ran out (`Swept`), a reservation adds one, a commit or an abort removes its own.
  The mapping is a function only because a conversation has one pending record
  (`OneTurnPerConversation`). The step from "the abort names my owner token" to "the lease is mine"
  needs `OwnersUnique`: no two pending records or reservations of different conversations share an
  owner token.
* `RevisionsIdentifyState`: `RevisionIdentifiesState`. A revision is a number in an epoch, and a
  record that is pruned and made anew draws another epoch. The invariant `Epochal` says that while the
  epoch is the caller's the number is not behind the caller's, and ahead of it once anything was
  committed, and that who owns a record and was not overtaken is at its revision: a pending record pins its
  conversation, so the owner's revision cannot have been made anew.
* The lemma `TurnsUseCoordinator` only carries the theorems above over to the service: the actions of
  `ReplyTurn` are written as the coordinator's own, or leave its state alone.
* `NoTurnLeavesItsReservation`: `InProgressHasTurn`. A pending record appears with a reservation that is
  given to a turn, and whatever takes the turn away takes the record with it, unless it is another's.
* `TurnsPlanOnCurrentState`: `PlannedOnCurrentState`. The invariant `Planned` says that a turn nothing overtook
  (`moved`) has read all there is. Every step but a commit to the same conversation only shrinks what
  a conversation is (`Shrunk`), histories included; `RevisionsIdentifyState` makes the revision the
  commit checks say the same as `moved`.

`CandidateProofs.tla`, one turn, for all requests, plans, queries and limits:

* `TypeTheorem`: `TypeOK`, with the counters within their limits and the rows within the journal.
* `ReviewedTheorem`: `ReplyReviewed`. A candidate is answered when the verifier has just approved it,
  when it is the program's own fallback, or unverified when it is a refusal.
* `SentTheorem`: `SentIsResolved`. An action is rendered only from evidence of the same candidate, and
  a recompose keeps both.
* `OneLookupTheorem`: `OneLookupFits`. Remediations so far *cost* 5 rows a replan, 4 a refetch and
  2 a recompose, and `CostFits` says that this and the 6 rows of a candidate's own calls stay within the
  capacity: a refetch is charged 4 where the formula has 3, because the initial candidate's 8 leave
  room for it. The invariant `Fits` bounds the rows used by cost and stage.
* `HandoffTheorem`, `OwnPlansTheorem`: `SalesHandoffKept`, `OwnPlansCompile`, from the invariant `HandedOver`.
  The policy compiler grants what the program's own plans need (`Ruled`), and a plan that takes over for
  a pack is one of three, each of a manifest that is eligible whenever the resolution chooses it.
* `RemediationTheorem`: `RemediationKeepsAuthority`, from `Asked`: at which stages a replan and a recompose
  are, and that what is composed anew sends nothing, so that no other plan takes over for it
  (`ComposedKept`). The plan of a replan or a refetch may be taken over for an unresolved pack, depending on
  what the adapter resolves this time; the theorem says that such a candidate comes to no verdict.
* `EndTheorem`: `TurnNearsEnd`, the safety half of `TurnEnds`. How far a turn is from its end is three
  numbers, the first that differs deciding: the remediations left, the stages ahead (a repair of the
  plan counts as one), and the pieces of knowledge still to be looked up, twice, as each is looked for
  among the documents and then among the approved entries. A step is `Onward`, `LooksUp` or
  `Remediates`, and each lessens its own number and keeps those before it. The invariants are the types,
  that lookups are made only while something is to be looked up, and that plans are finite. Only
  that a turn which is not done takes a step rests on fairness.

`HealthProofs.tla`, for all intervals, cooldowns and bounds:

* `OutagesTheorem` (`OutagesSound`) and `WarnedTheorem` (`OutageWarned`), from the invariant `Sound`. The
  first failure of an outage sets the time, the window and the warning at once, and no success or later
  failure parts them.
* `ProbedTheorem`: `ProbedInTime`, from `Probing`: in a round the target that is probed and those that are
  behind it are recent, because the interval a target has waited for when it is skipped is at most the greater one.
* `ToldTheorem`: `OutagesTold`. The history variable `down` is exactly the instants the outages cover
  (`Observed`); outages do not overlap, so that the recursive sum `OutageSeconds`, which `NatSets`
  lets one reason about outage by outage, is the number of instants of the window in their union.

`GateProofs.tla`, for any number of calls, jobs and threads, from an invariant of
five parts (types; what waits and grants have in the executor; who has the gate; what a capture leaves
behind; what it noticed): `StreamsTheorem` (`StreamsOwned`), `FailsClosedTheorem` (`FailsClosed`) and
`GateTheorem` (`GateComesBack`).

`JournalProofs.tla`, for any number of rows, from the invariant `Inv`: a row is reserved exactly while
its call is under way or after it was ended by an exception nobody lists, every other row is one the
audit takes but for an agent's request (`Closed`), and what was committed is written down with a
request in every row (`Kept`).

* `RequestsTheorem`: `RequestsAudited`. A first request that is sent when its call is over finds a row that
  was closed without one, and with such a row no group turn is committed; only a call that failed,
  timed out or was cancelled leaves a thread behind (`LeftFailed`), so that a second request never stands
  behind a row that says success.
* `RefusalsTheorem`: `RefusalsExplained`. Labels and outputs are right in every closed row, so that only
  the two reasons remain.

`ServingProofs.tla`, what a turn is admitted on and what it is told. Each theorem is about the
specification of its module (`AdmissionSpec`, `ReadsSpec`, `KnowledgeSpec`, `RecallSpec`,
`GroundingSpec`), whose behaviours are those of `serving` in which that module runs:

* `DirectTheorem`: `DirectTurnsAdmitted`, for any number of requests and threads. What a request's stage
  establishes is a key, then complete settings, then capabilities (`Established`), which are kept once
  and never replaced, so that those one request was admitted on are those of every later one.
* `PoolTheorem`: `PoolReturned`. Each way out of a stage gives back what the stage had taken.
* `ReportFactsTheorem`: `ReportFactsFaithful`, from `Reading`. Of the pages read so far, if the report
  has not been published anew since the first, the products are in the order of its list, and none is
  further from its own place than there are products missing (`InPlace`, `PageSound`): a list that is as
  long as the report can therefore only be the report. All targets before the one that is read are
  answered.
* `KnowledgeTheorem`: `KnowledgeSound`, from `Knowing`. An entry of the cache is of the key's authority
  and runs out at most TTL and one call's time after each of its documents was *read* (`EntrySound`): a
  document is stored when its answer comes, which may be `CallTime` later.
* `RecallTheorem`: `RecallHonest`, from `Recalling`. The place of a candidate among those that are shown
  is one more than the number of those that precede it (`Preceding`), which is a strict total order of
  the best of each key; so the places are exactly 1 to the number shown, whatever the rows and limits.
* `GroundingTheorem`: `GroundingSound`, from `GroundingIInv`. What
  was collected and the facts account for each other exactly (`Backed`): the adapter's facts are those of
  the units, each at the place of the first unit that makes it (`AdapterFactsExact`), a product list or a
  document is there for each unit that has one and for no other (`ListedExact`, `KnownExact`). From that
  alone a unit's admitted facts are some if and only if `PlanAuthority` finds it grounded
  (`GroundsAgree`), its first fact is that of the first unit it may lean on (`FirstOwnFact`), so that
  action, option and reference are the same (`ActionsAgree`, `RepliesAgree`), and the facts of one unit
  are of one scope and kind (`AdmittedAlike`). That a shown image leans on the unit whose evidence is cited
  needs that every entry is admitted for some unit of the plan that is composed
  (`AcceptedIsOneAuthority`), which is why the invariant says that a plan that took over is not composed.

**Only model-checked.** What is under fairness (`ConversationReleased`, `TurnEnds`, `StopEnds`,
`WaitsEnd`) is out of the prover's reach; `TurnNearsEnd` is the half of `TurnEnds` that a theorem can state.
The violations stay with TLC by their nature. Every safety
invariant and action property of a passing run is a theorem.

Some definitions are written the way they are because of the proofs: the candidates of `Recall` are
functions on the places the ranker gave them, and what is shown is ordered by counting; an entry of
`KnowledgeLookup` and its images are chosen from sets; a turn's facts in `Grounding` are a function from
each fact to its place, of whose order only the first of a kind is read; `LiveTurns` and `OutageSeconds` are recursive
functions, not recursive operators.

## Plan

Done: the coordinator, `TurnLock` and its refinement, `ReplyTurn`; `PlanAuthority` and `CandidateTurn`
with alignment loop and dispatch budget; `Recall`, `AdapterReads`, `KnowledgeLookup`, `Grounding`;
`TurnJournal`; `Admission`; `LlmHealth`; `ProviderGate`. Next, in this order:

1. One specification of `CandidateTurn` inside `ReplyTurn`, with the rows of `TurnJournal`, and calls
   of `ProviderGate` as the calls of turns and probes.
2. The coordinator provider under changing settings, and the shutdown of the lifespan.

**Not modelled**, and why: transports of providers, adapter and documents, which are I/O whose every
outcome the models allow; prompts, the domain context and the wording of replies and of the daily
report, which are texts for models and readers; how an input rule or a send command matches a text,
how questions are ranked, and the schemas, which are declarative or pure and unit tests reach; the
shortcut from recall past the planner, which no collector's payload reaches; the payload store, which
is created and that no operation of a turn uses; the legacy stores, observability and deployment, which
keep no state that an operation reads back. A change of settings while turns run would need the
provider of point 2; they come from the environment, which nothing changes while the process runs.
