----------------------------- MODULE Coordinator -----------------------------
(***************************************************************************)
(* ReplyStateTransactionCoordinatorV1                                      *)
(* (runtime/state/transaction_coordinator.py): reservations of reply       *)
(* turns, their commit, two-phase action feedback, and retention.          *)
(*                                                                         *)
(* Every operation runs under one lock and either publishes a candidate    *)
(* root or raises, so each is one action. An operation that raises leaves  *)
(* the root as its own cleanup left it, which is the step Cleanup; only    *)
(* refusals that change something more have a disjunct of their own.       *)
(*                                                                         *)
(* `held' and `prepared' are what callers keep between two calls: the      *)
(* reservations and the feedback preparations they were handed. A caller   *)
(* may use them late, in any order, and after they have expired.           *)
(***************************************************************************)
EXTENDS StateRoot

CONSTANTS
    Submissions,    \* the reply requests callers may submit
    Replies,        \* what a turn may commit: effects, clarification, who set the ids
    Bodies,         \* the executions feedback may report
    MaxMono, MaxWall, MaxRevision   \* bounds of the model, not of the program

ASSUME InputAssumption ==
    /\ Submissions \subseteq [key : Keys, request_id : Requests,
                              request_hash : RequestHashes, replay_eligible : BOOLEAN]
    /\ Replies \subseteq [effects : SUBSET Effects, clarifies : BOOLEAN,
                          positional : BOOLEAN]
    /\ Bodies \subseteq FeedbackBody
    /\ MaxMono \in Nat /\ MaxWall \in Nat /\ MaxRevision \in Nat

VARIABLES root, mono, wall, held, prepared

vars == <<root, mono, wall, held, prepared>>

\* A NewReplyReservationV1 in a caller's hands. `moved' is history: whether
\* anything has been committed to the conversation since it was handed out.
Reservation ==
    [key : Keys, request_id : Requests, request_hash : RequestHashes,
     replay_eligible : BOOLEAN, owner_token : Owners, revision : Revision,
     moved : BOOLEAN]

Init ==
    /\ root = EmptyRoot
    /\ mono = 0 /\ wall = 0
    /\ held = {} /\ prepared = {}

-----------------------------------------------------------------------------
(* Values secrets and uuid4 can still draw: none that anyone remembers. They are
   interchangeable, so a draw takes an arbitrary but fixed one of them; the sets
   are bounds of the model, and an operation that cannot draw is not taken. *)

Drawn(fresh) == IF fresh = {} THEN {} ELSE {CHOOSE x \in fresh : TRUE}

FreshOwners ==
    Owners \ ({h.owner_token : h \in held}
              \cup {root.issued_records[x].owner_token : x \in Pending(root)})

TokenRecords == {root.prepared_feedback_tokens[x] :
                    x \in DOMAIN root.prepared_feedback_tokens}

FreshEpochs ==
    Epochs \ ({root.state_revisions[k].epoch : k \in DOMAIN root.state_revisions}
              \cup {h.revision.epoch : h \in held}
              \cup {p.revision.epoch : p \in prepared \cup TokenRecords})

FreshCommitTokens == CommitTokens \ {p.commit_token : p \in prepared \cup TokenRecords}

FreshResponses ==
    Responses \ (DOMAIN root.response_index
                 \cup {x[2] : x \in DOMAIN root.audit_records}
                 \cup {x[2] : x \in DOMAIN root.action_ledger_records}
                 \cup {root.feedback_receipts[x].hash.response_id :
                            x \in DOMAIN root.feedback_receipts}
                 \cup {p.hash.response_id : p \in prepared \cup TokenRecords})

-----------------------------------------------------------------------------
(* Reply reservations. *)

\* One complete record goes when the store is full; without one, no room.
IssuedEvictions(r) ==
    IF Cardinality(DOMAIN r.issued_records) < IssuedCapacity
    THEN {{}} ELSE {{x} : x \in IssuedVictims(r)}

\* (mutant) Only turns in progress are looked for.
reserve_without_replay(r, s) == s.key \notin DOMAIN r.pending_request_by_state

\* existing_reservation_result found neither a replay nor a conflict.
Reservable(r, s) ==
    /\ <<s.key, s.request_id>> \notin DOMAIN r.issued_records
    /\ s.key \notin DOMAIN r.pending_request_by_state

\* A conversation without a revision record starts a new epoch.
ReservedRevisions(r, k) ==
    IF k \in DOMAIN r.state_revisions THEN {r.state_revisions[k]}
    ELSE {[epoch |-> epoch, revision |-> 0] : epoch \in Drawn(FreshEpochs)}

reserve_reply_candidate(r, s, owner, revision) ==
    LET key == <<s.key, s.request_id>> IN
    [r EXCEPT
        !.issued_records = with_updates(@, Single(key,
            [phase |-> "pending", request_hash |-> s.request_hash,
             replay_eligible |-> s.replay_eligible, owner_token |-> owner,
             expires |-> mono + PendingTtl])),
        !.pending_request_by_state = with_updates(@, Single(s.key, key)),
        !.state_revisions = with_updates(@, Single(s.key, revision))]

\* reserve_reply: cleanup, then eviction, then the reservation. Each is its own
\* publication: the first two stand when the third is refused.
ReserveReply(s) ==
    LET cleaned == cleanup_candidate(root, mono, wall) IN
    /\ Reservable(cleaned, s)
    /\ \E V \in IssuedEvictions(cleaned) :
       LET evicted == without_unpinned_revisions(DropIssued(cleaned, V)) IN
       \E owner \in Drawn(FreshOwners), revision \in ReservedRevisions(evicted, s.key) :
       LET candidate == reserve_reply_candidate(evicted, s, owner, revision) IN
        /\ revision.revision < MaxRevision
        /\ IF Publishable(candidate)
           THEN /\ root' = candidate
                /\ held' = held \cup
                    {[key |-> s.key, request_id |-> s.request_id,
                      request_hash |-> s.request_hash,
                      replay_eligible |-> s.replay_eligible, owner_token |-> owner,
                      revision |-> revision, moved |-> FALSE]}
           ELSE root' = evicted /\ held' = held
    /\ UNCHANGED <<mono, wall, prepared>>

\* (mutant) Any caller of the same request owns the record.
owns_by_request(r, h) == <<h.key, h.request_id>> \in Pending(r)

\* A caller still owns the pending record it reserved.
Owns(r, h) ==
    /\ <<h.key, h.request_id>> \in Pending(r)
    /\ r.issued_records[<<h.key, h.request_id>>].owner_token = h.owner_token

AtRevision(r, k, revision) ==
    k \in DOMAIN r.state_revisions /\ r.state_revisions[k] = revision

\* (mutant) The conversation's entry in the pending index is forgotten.
abort_keeps_index(r, h) ==
    without_unpinned_revisions(
        [r EXCEPT !.issued_records = without_keys(@, {<<h.key, h.request_id>>})])

abort_reply_candidate(r, h) ==
    without_unpinned_revisions(
        [r EXCEPT
            !.issued_records = without_keys(@, {<<h.key, h.request_id>>}),
            !.pending_request_by_state = without_keys(@, {h.key})])

\* abort_reply: an owner that lost its record gets reservation_not_found.
AbortReply(h) ==
    /\ root' = IF Owns(root, h) THEN abort_reply_candidate(root, h) ELSE root
    /\ held' = held \ {h}
    /\ UNCHANGED <<mono, wall, prepared>>

-----------------------------------------------------------------------------
(* Reply commit. *)

Moved(k) == {IF h.key = k THEN [h EXCEPT !.moved = TRUE] ELSE h : h \in held}

\* (mutant) The revision stays.
not_bumped(revision) == revision

Bumped(revision) == [revision EXCEPT !.revision = @ + 1]

NewTurns(prior, scope, clarifies) ==
    LET turn(role, ordinal, clar) ==
            [role |-> role, ordinal |-> ordinal, created |-> wall, scope |-> scope,
             clarification |-> clar]
    IN  Window(prior \o << turn("user", Len(prior), FALSE),
                           turn("assistant", Len(prior) + 1, clarifies) >>)

\* derive_issued_effects: the effects of a reply, none of them reported on.
Unreported == [e \in Effects |-> [outcome |-> NoOutcome, changes |-> 0]]

issued_record(h, reply, response, scope) ==
    [phase |-> "complete", request_hash |-> h.request_hash,
     replay_eligible |-> h.replay_eligible, response_id |-> response,
     positional |-> reply.positional, issued |-> reply.effects,
     effects |-> Unreported,
     receipts |-> {}, record_revision |-> 1, completed |-> mono,
     expires |-> mono + IssuedTtl, scope |-> scope]

\* The complete record, its index entries, the two turns, the clarification the
\* reply opens or closes, and the audit row; the revision moves on by one.
commit_reply_candidate(r, h, reply, response, scope, auditVictims) ==
    LET key == <<h.key, h.request_id>>
        record == issued_record(h, reply, response, scope)
        prior == IF h.key \in DOMAIN r.conversation_turns
                 THEN r.conversation_turns[h.key] ELSE <<>>
    IN  [r EXCEPT
            !.issued_records = with_updates(@, Single(key, record)),
            !.pending_request_by_state = without_keys(@, {h.key}),
            !.state_revisions =
                with_updates(@, Single(h.key, Bumped(r.state_revisions[h.key]))),
            !.response_index = with_updates(@, Single(response, key)),
            !.action_index = with_updates(@,
                [a \in ActionIdsOf(record) |-> <<h.key, response, a[2]>>]),
            !.conversation_turns = with_updates(@,
                Single(h.key, NewTurns(prior, scope, reply.clarifies))),
            !.clarification_records =
                IF reply.clarifies
                THEN with_updates(@, Single(h.key,
                        [ordinal |-> Len(prior) + 1, created |-> wall, scope |-> scope]))
                ELSE without_keys(@, {h.key}),
            !.audit_records = with_updates(without_keys(@, auditVictims),
                Single(<<h.key, response>>,
                       [created |-> wall, expires |-> mono + IssuedTtl]))]

\* (mutant) Sessions are evicted whatever they are doing.
evict_any(r, V) == TRUE

\* A session that has a turn in progress is not evicted.
Evictable(r, V) == V \cap DOMAIN r.pending_request_by_state = {}

\* commit_reply does not clean up first: a reservation that has expired but is
\* still in the root commits. The commit is refused when it would have to evict
\* a session that is not Evictable.
CommitReply(h, reply, scope) ==
    /\ Owns(root, h)
    /\ AtRevision(root, h.key, h.revision)
    /\ \E response \in Drawn(FreshResponses), A \in AuditVictims(root) :
        LET candidate == commit_reply_candidate(root, h, reply, response, scope, A) IN
        \E V \in SessionVictims(candidate) :
            /\ Evictable(candidate, V)
            /\ root' = DropSessions(candidate, V)
    /\ held' = Moved(h.key) \ {[h EXCEPT !.moved = TRUE]}
    /\ UNCHANGED <<mono, wall, prepared>>

-----------------------------------------------------------------------------
(* Action feedback: prepare, then commit with the token. *)

\* resolve_feedback_record finds the complete record the feedback names.
Resolves(r, k, hash) ==
    /\ hash.response_id \in DOMAIN r.response_index
    /\ r.response_index[hash.response_id] = <<k, hash.request_id>>
    /\ <<k, hash.request_id>> \in Complete(r)

\* (mutant) The last report wins.
last_report_wins(current, outcome) == current # NoOutcome \/ outcome # NoOutcome

\* _validate_status_transition: repeat what was reported, report first, or turn
\* a failed or skipped effect into an executed one.
MayReport(current, outcome) ==
    \/ current = outcome
    \/ current = NoOutcome
    \/ current \notin Executed /\ outcome \in Executed

\* ActionExecutionFeedbackV2: a send action is reported on by an id the server issued,
\* which a positional one is not; a text and a mention are reported on without an id.
HasServerIds(rec, body) == rec.positional => DOMAIN body \cap SendActions = {}

Reportable(rec, body) ==
    /\ HasServerIds(rec, body)
    /\ DOMAIN body \subseteq rec.issued
    /\ \A e \in DOMAIN body : MayReport(rec.effects[e].outcome, body[e])

\* The effects whose report repeats what is known.
Noops(rec, body) == {e \in DOMAIN body : rec.effects[e].outcome = body[e]}

\* (mutant) The receipts are not consulted.
never_receipted(r, k, f) == TRUE

Unreceipted(r, k, f) == <<k, f>> \notin DOMAIN r.feedback_receipts

\* prepare_feedback issues a preparation. With a receipt for the same feedback it
\* replays that (or refuses), and only its cleanup changes the root.
PrepareFeedback(k, f, hash) ==
    LET r == cleanup_candidate(root, mono, wall)
        rec == r.issued_records[<<k, hash.request_id>>]
    IN
    /\ Resolves(r, k, hash)
    /\ Unreceipted(r, k, f)
    /\ <<k, f>> \notin DOMAIN r.prepared_feedback_tokens
    /\ Cardinality(DOMAIN r.prepared_feedback_tokens) < IssuedCapacity
    /\ k \in DOMAIN r.state_revisions
    /\ r.state_revisions[k].revision < MaxRevision
    /\ Reportable(rec, hash.body)
    /\ \E token \in Drawn(FreshCommitTokens) :
        LET p == [key |-> k, feedback_id |-> f, hash |-> hash, commit_token |-> token,
                  revision |-> r.state_revisions[k],
                  record_revision |-> rec.record_revision,
                  noops |-> Noops(rec, hash.body), expires |-> mono + TokenTtl]
        IN  /\ root' = [r EXCEPT !.prepared_feedback_tokens =
                            with_updates(@, Single(<<k, f>>, p))]
            /\ prepared' = prepared \cup {p}
    /\ UNCHANGED <<mono, wall, held>>

\* A second prepare of the same feedback gets the stored preparation, which may
\* have become stale in the meantime.
ReusePreparation(k, f, hash) ==
    LET r == cleanup_candidate(root, mono, wall) IN
    /\ Resolves(r, k, hash)
    /\ Unreceipted(r, k, f)
    /\ <<k, f>> \in DOMAIN r.prepared_feedback_tokens
    /\ r.prepared_feedback_tokens[<<k, f>>].hash = hash
    /\ root' = r
    /\ prepared' = prepared \cup {r.prepared_feedback_tokens[<<k, f>>]}
    /\ UNCHANGED <<mono, wall, held>>

TokenStored(r, p) ==
    /\ <<p.key, p.feedback_id>> \in DOMAIN r.prepared_feedback_tokens
    /\ r.prepared_feedback_tokens[<<p.key, p.feedback_id>>].commit_token = p.commit_token

\* (mutant) Only the token's expiry and its record are checked.
current_while_resolved(r, p) == mono < p.expires /\ Resolves(r, p.key, p.hash)

\* feedback_commit_inputs: nothing the preparation read has changed since.
StillCurrent(r, p) ==
    /\ mono < p.expires
    /\ Resolves(r, p.key, p.hash)
    /\ AtRevision(r, p.key, p.revision)
    /\ r.issued_records[<<p.key, p.hash.request_id>>].record_revision = p.record_revision

ReceiptsFull(r, p) ==
    \/ Cardinality(r.issued_records[<<p.key, p.hash.request_id>>].receipts)
            >= RecordReceiptCapacity
    \/ Cardinality(DOMAIN r.feedback_receipts) >= ReceiptCapacity

DropToken(r, p) ==
    without_unpinned_revisions(
        [r EXCEPT !.prepared_feedback_tokens = without_keys(@, {<<p.key, p.feedback_id>>})])

apply_effect_transitions(effects, p) ==
    [e \in Effects |->
        IF e \in DOMAIN p.hash.body \ p.noops
        THEN [outcome |-> p.hash.body[e], changes |-> effects[e].changes + 1]
        ELSE effects[e]]

\* (mutant) A report that repeats what is known counts as a change.
reported_with_noops(p) == DOMAIN p.hash.body \cap SendActions

ReportedActions(p) == (DOMAIN p.hash.body \ p.noops) \cap SendActions

\* derive_ledger_updates: a row for each send action whose outcome changed.
derive_ledger_updates(r, p, rec) ==
    LET keyOf(e) == <<p.key, rec.response_id,
                     action_id(rec.response_id, rec.positional, e)>>
    IN  [x \in {keyOf(e) : e \in ReportedActions(p)} |->
            [effect |-> x[3][2], outcome |-> p.hash.body[x[3][2]],
             status_revision |->
                IF x \in DOMAIN r.action_ledger_records
                THEN r.action_ledger_records[x].status_revision + 1 ELSE 1,
             received |-> wall, expires |-> mono + IssuedTtl, scope |-> rec.scope]]

revised_record(rec, p) ==
    [rec EXCEPT
        !.effects = apply_effect_transitions(@, p),
        !.receipts = @ \cup {[feedback_id |-> p.feedback_id, expires |-> mono + IssuedTtl]},
        !.record_revision = @ + 1]

commit_feedback_candidate(r, p) ==
    LET key == <<p.key, p.hash.request_id>>
        rec == r.issued_records[key]
        revised == revised_record(rec, p)
    IN  [r EXCEPT
            !.issued_records = with_updates(@, Single(key, revised)),
            !.feedback_receipts = with_updates(@, Single(<<p.key, p.feedback_id>>,
                [hash |-> p.hash, record_revision |-> revised.record_revision,
                 expires |-> mono + IssuedTtl])),
            !.prepared_feedback_tokens = without_keys(@, {<<p.key, p.feedback_id>>}),
            !.state_revisions =
                with_updates(@, Single(p.key, Bumped(r.state_revisions[p.key]))),
            !.action_ledger_records = with_updates(@, derive_ledger_updates(r, p, rec))]

\* commit_feedback applied the preparation.
CommitFeedback(p) ==
    /\ TokenStored(root, p)
    /\ StillCurrent(root, p)
    /\ ~ReceiptsFull(root, p)
    /\ LET candidate == commit_feedback_candidate(root, p) IN
       \E V \in LedgerVictims(candidate.action_ledger_records) :
            root' = without_unpinned_revisions(
                        [candidate EXCEPT !.action_ledger_records = without_keys(@, V)])
    /\ prepared' = prepared \ {p}
    /\ held' = Moved(p.key)
    /\ UNCHANGED <<mono, wall>>

\* commit_feedback refused it. A preparation that expired or went stale is
\* dropped from the root; one that is unknown, or meets a full receipt store,
\* leaves the root alone.
RefuseFeedback(p) ==
    /\ \/ /\ ~TokenStored(root, p)
          /\ root' = root
       \/ /\ TokenStored(root, p)
          /\ ~StillCurrent(root, p)
          /\ root' = DropToken(root, p)
       \/ /\ TokenStored(root, p)
          /\ StillCurrent(root, p)
          /\ ReceiptsFull(root, p)
          /\ root' = root
    /\ prepared' = prepared \ {p}
    /\ UNCHANGED <<mono, wall, held>>

-----------------------------------------------------------------------------
(* Cleanup and the clocks. *)

\* (mutant) The cleanup waits until no turn is in progress.
cleanup_when_idle ==
    /\ DOMAIN root.pending_request_by_state = {}
    /\ root' = cleanup_candidate(root, mono, wall)
    /\ UNCHANGED <<mono, wall, held, prepared>>

\* The periodic cleanup, and every reserve_reply or prepare_feedback that raises
\* or replays: its cleanup is all it changes.
Cleanup ==
    /\ root' = cleanup_candidate(root, mono, wall)
    /\ UNCHANGED <<mono, wall, held, prepared>>

Tick ==
    /\ mono < MaxMono
    /\ mono' = mono + 1
    /\ UNCHANGED <<root, wall, held, prepared>>

\* The wall clock may be stepped, in either direction.
WallStep ==
    /\ wall' \in (0 .. MaxWall) \ {wall}
    /\ UNCHANGED <<root, mono, held, prepared>>

Next ==
    \/ \E s \in Submissions : ReserveReply(s)
    \/ \E h \in held : AbortReply(h)
    \/ \E h \in held, reply \in Replies, scope \in Scopes : CommitReply(h, reply, scope)
    \/ \E k \in Keys, f \in FeedbackIds, q \in Requests, response \in Responses,
          body \in Bodies :
            LET hash == [request_id |-> q, response_id |-> response, body |-> body] IN
            PrepareFeedback(k, f, hash) \/ ReusePreparation(k, f, hash)
    \/ \E p \in prepared : CommitFeedback(p) \/ RefuseFeedback(p)
    \/ Cleanup
    \/ Tick
    \/ WallStep

Spec == Init /\ [][Next]_vars

-----------------------------------------------------------------------------
(* Type invariant. *)

MapsTyped(r) ==
    /\ DOMAIN r = DOMAIN EmptyRoot
    /\ IsMap(r.issued_records, IssuedKey, PendingRecord \cup CompleteRecord)
    /\ IsMap(r.pending_request_by_state, Keys, IssuedKey)
    /\ IsMap(r.feedback_receipts, FeedbackKey, Receipt)
    /\ IsMap(r.prepared_feedback_tokens, FeedbackKey, PreparedFeedback)
    /\ IsMap(r.state_revisions, Keys, Revision)
    /\ IsMap(r.response_index, Responses, IssuedKey)
    /\ IsMap(r.action_index, ActionIds, Keys \X Responses \X SendActions)
    /\ DOMAIN r.conversation_turns \subseteq Keys
    /\ IsMap(r.clarification_records, Keys, Clarification)
    /\ IsMap(r.audit_records, Keys \X Responses, Audit)
    /\ IsMap(r.action_ledger_records, LedgerKey, LedgerRow)

HistoriesTyped(r) == IsMap(r.conversation_turns, Keys, Seq(Turn))

RecordsTyped ==
    /\ MapsTyped(root)
    /\ mono \in Nat /\ wall \in Nat
    /\ held \subseteq Reservation
    /\ prepared \subseteq PreparedFeedback

\* Every map of the root, the clocks and what callers hold have their types.
TypeOK == RecordsTyped /\ HistoriesTyped(root)

-----------------------------------------------------------------------------
(* Safety. *)

\* One turn per conversation: pending_request_by_state names exactly the
\* pending records, so a conversation never has two (reserve_reply's
\* conversation_turn_in_progress; commit, abort and cleanup release both).
PendingIndexed(r) ==
    /\ \A k \in DOMAIN r.pending_request_by_state :
        /\ r.pending_request_by_state[k] \in Pending(r)
        /\ r.pending_request_by_state[k][1] = k
    /\ \A x \in Pending(r) :
        /\ x[1] \in DOMAIN r.pending_request_by_state
        /\ r.pending_request_by_state[x[1]] = x

PendingIndexExact == PendingIndexed(root)

\* The response index names exactly the complete records, and every indexed
\* action is an effect of the response it names: _validate_root never has a
\* reason to refuse a publication, however records expire and are evicted.
Indexed(r) ==
    /\ \A id \in DOMAIN r.response_index :
        LET key == r.response_index[id] IN
        key \in Complete(r) /\ r.issued_records[key].response_id = id
    /\ \A x \in Complete(r) :
        LET id == r.issued_records[x].response_id IN
        id \in DOMAIN r.response_index /\ r.response_index[id] = x
    /\ \A a \in DOMAIN r.action_index :
        LET entry == r.action_index[a] IN
        /\ entry[2] \in DOMAIN r.response_index
        /\ r.response_index[entry[2]][1] = entry[1]
        /\ a \in ActionIdsOf(r.issued_records[r.response_index[entry[2]]])

IndexesExact == Indexed(root)

\* A conversation has a revision exactly while anything of it is retained: no
\* operation meets retained state without a revision to check it by, and
\* revisions of forgotten conversations do not pile up.
RevisionsPinned(r) == DOMAIN r.state_revisions = PinnedKeys(r)

RevisionsExact == RevisionsPinned(root)

\* Optimistic concurrency is sound and not over-eager: a caller whose pending
\* record survives sees its revision unchanged exactly when nothing was
\* committed to the conversation since it reserved, and a revision that was
\* pruned and recreated is never mistaken for the one it saw.
RevisionIdentifiesState ==
    \A h \in held :
        /\ AtRevision(root, h.key, h.revision) => ~h.moved
        /\ Owns(root, h) /\ ~h.moved => AtRevision(root, h.key, h.revision)

\* The transitions validated by prepare_feedback still hold when
\* commit_feedback lets them through: no other feedback got between.
PreparationsSound ==
    \A p \in prepared :
        TokenStored(root, p) /\ StillCurrent(root, p) =>
            LET rec == root.issued_records[<<p.key, p.hash.request_id>>] IN
            Reportable(rec, p.hash.body) /\ Noops(rec, p.hash.body) = p.noops

\* Feedback is applied once: while an issued record is retained, every feedback
\* it has applied has its receipt in the map prepare_feedback looks in, and no
\* token for the same feedback is outstanding.
Receipted(r) ==
    /\ \A x \in Complete(r) : \A ref \in r.issued_records[x].receipts :
        /\ <<x[1], ref.feedback_id>> \in DOMAIN r.feedback_receipts
        /\ LET receipt == r.feedback_receipts[<<x[1], ref.feedback_id>>] IN
            /\ receipt.expires = ref.expires
            /\ receipt.hash.response_id = r.issued_records[x].response_id
    /\ DOMAIN r.feedback_receipts \cap DOMAIN r.prepared_feedback_tokens = {}

FeedbackAppliedOnce == Receipted(root)

\* admitted_action_ledger_rows: the rows of a conversation and scope whose
\* response is still indexed and has the effect. The source keeps the 20 newest.
AdmittedRows(r, k, scope) ==
    {x \in DOMAIN r.action_ledger_records :
        /\ x[1] = k
        /\ r.action_ledger_records[x].scope = scope
        /\ x[2] \in DOMAIN r.response_index
        /\ r.response_index[x[2]][1] = k
        /\ r.response_index[x[2]] \in Complete(r)
        /\ x[3] \in ActionIdsOf(r.issued_records[r.response_index[x[2]]])}

\* What a turn is told about earlier actions is what was last reported of them:
\* a row it admits carries the outcome its issued effect has now, and never
\* counts more changes than the effect went through.
AdmittedRowsCurrent ==
    \A k \in Keys, scope \in Scopes : \A x \in AdmittedRows(root, k, scope) :
        LET row == root.action_ledger_records[x]
            rec == root.issued_records[root.response_index[x[2]]]
        IN  /\ row.outcome = rec.effects[row.effect].outcome
            /\ row.status_revision <= rec.effects[row.effect].changes
            /\ row.scope = rec.scope

\* A pending clarification belongs to the latest assistant turn: no later turn,
\* cleanup or eviction leaves a clarification behind that nobody asked last.
ClarificationsLatest(r) ==
    \A k \in DOMAIN r.clarification_records :
        /\ k \in DOMAIN r.conversation_turns
        /\ LET turns == r.conversation_turns[k]
               last == turns[Len(turns)]
           IN  /\ last.role = "assistant" /\ last.clarification
               /\ last.ordinal = r.clarification_records[k].ordinal
               /\ last.created = r.clarification_records[k].created

ClarificationIsLatest == ClarificationsLatest(root)

\* Nothing grows past its configured capacity.
CapacitiesHold ==
    /\ Cardinality(DOMAIN root.issued_records) <= IssuedCapacity
    /\ Cardinality(Sessions(root)) <= SessionCapacity
    /\ Cardinality(DOMAIN root.audit_records) <= SessionCapacity
    /\ Cardinality(DOMAIN root.feedback_receipts) <= ReceiptCapacity
    /\ Cardinality(DOMAIN root.prepared_feedback_tokens) <= IssuedCapacity
    /\ Cardinality(DOMAIN root.action_ledger_records) <= LedgerCapacity
    /\ Cardinality(DOMAIN root.state_revisions) <= StateRevisionCapacity
    /\ \A k \in DOMAIN root.conversation_turns :
            Len(root.conversation_turns[k]) \in 1 .. MaxMessages

-----------------------------------------------------------------------------
(* Action properties. *)

\* A request that was answered stays answered: until its record expires or makes
\* room in a full store, it keeps its response and request hash, so a retry is
\* replayed (existing_reservation_result) and never runs a second turn.
AnswerFinal ==
    [][\A x \in Complete(root) :
        \/ /\ x \in Complete(root')
           /\ root'.issued_records[x].response_id = root.issued_records[x].response_id
           /\ root'.issued_records[x].request_hash = root.issued_records[x].request_hash
        \/ root.issued_records[x].expires <= mono
        \/ /\ x \notin DOMAIN root'.issued_records
           /\ Cardinality(DOMAIN root.issued_records) >= IssuedCapacity
           /\ x \in IssuedVictims(cleanup_candidate(root, mono, wall))
      ]_vars

\* What an adapter reported of an effect only moves forward, one accepted
\* report at a time, and "executed" is final.
EffectsProgress ==
    [][\A x \in Complete(root) \cap Complete(root') :
        \A e \in Effects :
            LET old == root.issued_records[x].effects[e]
                new == root'.issued_records[x].effects[e]
            IN  \/ new = old
                \/ /\ \/ old.outcome = NoOutcome
                      \/ old.outcome \notin Executed /\ new.outcome \in Executed
                   /\ new.changes = old.changes + 1
      ]_vars

\* A receipt is never overwritten, and leaves only when it expires.
ReceiptFinal ==
    [][\A x \in DOMAIN root.feedback_receipts :
        \/ /\ x \in DOMAIN root'.feedback_receipts
           /\ root'.feedback_receipts[x] = root.feedback_receipts[x]
        \/ root.feedback_receipts[x].expires <= mono
      ]_vars

\* What was reported stands: competing, stale and repeated feedback neither takes back
\* an effect nor counts one twice, nor disturbs another report's receipt
\* (prepare_effect_transitions, commit_feedback_candidate).
ReportsStand == EffectsProgress /\ ReceiptFinal

\* Another conversation's commit never takes the history of a conversation that
\* has a turn in progress: only the wall clock does.
BusySessionKept ==
    [][\A k \in DOMAIN root.pending_request_by_state
             \cap DOMAIN root'.pending_request_by_state \cap DOMAIN root.conversation_turns :
        \/ /\ k \in DOMAIN root'.conversation_turns
           /\ Len(root.conversation_turns[k]) <= Len(root'.conversation_turns[k])
        \/ \E i \in DOMAIN root.conversation_turns[k] :
                root.conversation_turns[k][i].created + ConversationTtl <= wall
      ]_vars

-----------------------------------------------------------------------------
(* The coordinator as a lock of conversations. *)

\* The leases of a root: a pending record is one.
leases(r) ==
    [k \in DOMAIN r.pending_request_by_state |->
        LET record == r.issued_records[r.pending_request_by_state[k]] IN
        [owner |-> record.owner_token, until |-> record.expires]]

lease_holders(S) == {<<h.key, h.owner_token>> : h \in S}

Lock == INSTANCE TurnLock WITH
            lock <- leases(root),
            holders <- lease_holders(held),
            clock <- mono

\* Reservations are leases: whatever else reserve, commit, abort, feedback,
\* eviction and cleanup do to the root, a conversation is acquired only when free
\* or run out, and freed only by its holder or by a sweep after it ran out. A
\* caller that was superseded, by a retry of its own request even, takes nothing
\* from its successor.
ImplementsTurnLock == Lock!Spec

-----------------------------------------------------------------------------
(* What the documentation promises. *)

\* docs/adapter/assistant_adapter_contract.md: an action_id is act- followed by
\* 32 hexadecimal digits, and feedback about any other id is a schema error. So
\* every action that was issued can be reported on.
IssuedActionsReportable ==
    \A x \in Complete(root) : ActionIdsOf(root.issued_records[x]) \subseteq OpaqueIds
=============================================================================
