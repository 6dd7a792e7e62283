------------------------------ MODULE StateRoot ------------------------------
(***************************************************************************)
(* The immutable root of the reply-state coordinator and the pure          *)
(* functions its operations build a candidate root with                    *)
(* (runtime/state/coordinator_*.py). A root is a record of finite maps;    *)
(* nothing here has state. Coordinator.tla publishes these candidates.     *)
(*                                                                         *)
(* Names of the maps are the source's. Texts, hashes and identifiers are   *)
(* opaque values; the thirteen derived order tuples of the source root are *)
(* left out: they restate the maps and every publication recomputes them.  *)
(***************************************************************************)
EXTENDS Naturals, Sequences, FiniteSets

CONSTANTS
    Keys,               \* ConversationStateKey values
    Requests,           \* request_id values
    RequestHashes,      \* request_kernel_hash values
    FeedbackIds,        \* feedback_id values
    Scopes,             \* (par1, grh1, bsh1): the authority a turn ran under
    Owners,             \* owner tokens, secrets.token_bytes(32)
    Epochs,             \* revision epochs, secrets.token_bytes(16)
    CommitTokens,       \* feedback commit tokens, secrets.token_bytes(32)
    Responses,          \* response_id values, resp-<uuid4>
    Effects,            \* effect keys of a response: send_text, mention:sales, action:*
    SendActions,        \* the effects that carry an action_id
    Outcomes,           \* (status, artifact_ref) an adapter can report
    Executed,           \* the outcomes whose status is "executed"
    NoOutcome           \* an effect nobody has reported on yet

CONSTANTS
    IssuedCapacity, SessionCapacity, ReceiptCapacity, LedgerCapacity,
    RecordReceiptCapacity, MaxMessages,
    IssuedTtl, PendingTtl, TokenTtl, ConversationTtl

\* build_coordinator_config's checks, the shape of the input sets, the sentinel
\* that is no outcome; a response has finitely many effects.
ASSUME ConfigAssumption ==
    /\ IssuedCapacity \in Nat \ {0} /\ SessionCapacity \in Nat \ {0}
    /\ ReceiptCapacity \in Nat /\ ReceiptCapacity >= IssuedCapacity
    /\ LedgerCapacity \in Nat /\ RecordReceiptCapacity \in Nat
    /\ MaxMessages \in Nat \ {0}
    /\ IssuedTtl \in Nat \ {0} /\ PendingTtl \in Nat \ {0}
    /\ PendingTtl <= IssuedTtl
    /\ TokenTtl \in Nat \ {0} /\ ConversationTtl \in Nat \ {0}

ASSUME EffectAssumption ==
    /\ IsFiniteSet(Effects) /\ SendActions \subseteq Effects
    /\ Executed \subseteq Outcomes
    /\ NoOutcome \notin Outcomes

-----------------------------------------------------------------------------
(* Finite maps (FrozenMapV1). *)

with_updates(f, g) ==
    [x \in DOMAIN f \cup DOMAIN g |-> IF x \in DOMAIN g THEN g[x] ELSE f[x]]

without_keys(f, S) == [x \in DOMAIN f \ S |-> f[x]]

Single(x, v) == [y \in {x} |-> v]

EmptyMap == [x \in {} |-> x]

IsMap(f, D, R) ==
    /\ DOMAIN f \subseteq D
    /\ f = [x \in DOMAIN f |-> f[x]]
    /\ \A x \in DOMAIN f : f[x] \in R

-----------------------------------------------------------------------------
(* The records the root holds. *)

Revision == [epoch : Epochs, revision : Nat]

IssuedKey == Keys \X Requests
FeedbackKey == Keys \X FeedbackIds

\* An action_id is either the uuid the coordinator issues, here the response
\* and effect it was drawn for, or the position rendering put there ("act-1").
OpaqueIds == Responses \X SendActions
PositionalIds == {"act"} \X SendActions
ActionIds == OpaqueIds \cup PositionalIds

PendingRecord ==
    [phase : {"pending"}, request_hash : RequestHashes, replay_eligible : BOOLEAN,
     owner_token : Owners, expires : Nat]

EffectState == [outcome : Outcomes \cup {NoOutcome}, changes : Nat]

ReceiptRef == [feedback_id : FeedbackIds, expires : Nat]

\* `issued' are the effects derived from the response; the others never change.
CompleteRecord ==
    [phase : {"complete"}, request_hash : RequestHashes, replay_eligible : BOOLEAN,
     response_id : Responses, positional : BOOLEAN,
     issued : SUBSET Effects, effects : [Effects -> EffectState],
     receipts : SUBSET ReceiptRef, record_revision : Nat,
     completed : Nat, expires : Nat, scope : Scopes]

\* feedback_hash digests the whole request, so the hash is the request.
FeedbackBody == UNION {[E -> Outcomes] : E \in SUBSET Effects}
FeedbackHash == [request_id : Requests, response_id : Responses, body : FeedbackBody]

Receipt == [hash : FeedbackHash, record_revision : Nat, expires : Nat]

PreparedFeedback ==
    [key : Keys, feedback_id : FeedbackIds, hash : FeedbackHash,
     commit_token : CommitTokens, revision : Revision, record_revision : Nat,
     noops : SUBSET Effects, expires : Nat]

LedgerKey == Keys \X Responses \X ActionIds

LedgerRow ==
    [effect : SendActions, outcome : Outcomes, status_revision : Nat, received : Nat,
     expires : Nat, scope : Scopes]

Turn ==
    [role : {"user", "assistant"}, ordinal : Nat, created : Nat, scope : Scopes,
     clarification : BOOLEAN]

Clarification == [ordinal : Nat, created : Nat, scope : Scopes]

Audit == [created : Nat, expires : Nat]

EmptyRoot ==
    [issued_records |-> EmptyMap, pending_request_by_state |-> EmptyMap,
     feedback_receipts |-> EmptyMap, prepared_feedback_tokens |-> EmptyMap,
     state_revisions |-> EmptyMap, response_index |-> EmptyMap,
     action_index |-> EmptyMap, conversation_turns |-> EmptyMap,
     clarification_records |-> EmptyMap, audit_records |-> EmptyMap,
     action_ledger_records |-> EmptyMap]

Pending(r) == {x \in DOMAIN r.issued_records : r.issued_records[x].phase = "pending"}
Complete(r) == {x \in DOMAIN r.issued_records : r.issued_records[x].phase = "complete"}

action_id(response, positional, e) ==
    IF positional THEN <<"act", e>> ELSE <<response, e>>

\* The action ids of a complete record's effects.
ActionIdsOf(rec) ==
    {action_id(rec.response_id, rec.positional, e) :
        e \in rec.issued \cap SendActions}

-----------------------------------------------------------------------------
(* Retention (coordinator_retention.py, coordinator_cleanup.py). *)

PinnedKeys(r) ==
    DOMAIN r.conversation_turns
        \cup DOMAIN r.clarification_records
        \cup {x[1] : x \in DOMAIN r.issued_records}
        \cup {x[1] : x \in DOMAIN r.feedback_receipts}
        \cup {x[1] : x \in DOMAIN r.prepared_feedback_tokens}
        \cup {x[1] : x \in DOMAIN r.action_ledger_records}
        \cup {x[1] : x \in DOMAIN r.audit_records}

\* (mutant) Revisions are never pruned.
all_revisions_kept(r) == r

without_unpinned_revisions(r) ==
    [r EXCEPT !.state_revisions =
        without_keys(r.state_revisions, DOMAIN r.state_revisions \ PinnedKeys(r))]

\* (mutant) The response index keeps the entries of the records that go.
drop_keeps_response_index(r, S) ==
    [r EXCEPT
        !.issued_records = without_keys(r.issued_records, S),
        !.action_index =
            without_keys(r.action_index, UNION {ActionIdsOf(r.issued_records[x]) :
                                                    x \in S \cap Complete(r)})]

\* The records of the issued keys in S go, with their index entries. Their
\* receipts, tokens, ledger rows, turns and audits stay.
DropIssued(r, S) ==
    LET gone == S \cap Complete(r) IN
    [r EXCEPT
        !.issued_records = without_keys(r.issued_records, S),
        !.response_index =
            without_keys(r.response_index, {r.issued_records[x].response_id : x \in gone}),
        !.action_index =
            without_keys(r.action_index,
                         UNION {ActionIdsOf(r.issued_records[x]) : x \in gone})]

ExpiredAt(f, now) == {x \in DOMAIN f : f[x].expires <= now}

\* (mutant) One message too many is kept.
window_one_over(turns) ==
    SubSeq(turns, IF Len(turns) > MaxMessages + 1 THEN Len(turns) - MaxMessages ELSE 1,
           Len(turns))

\* turns[-conversation_max_messages:]
Window(turns) ==
    SubSeq(turns, IF Len(turns) > MaxMessages THEN Len(turns) - MaxMessages + 1 ELSE 1,
           Len(turns))

\* The turns that have not expired, in their order.
LiveTurns(turns, wall) ==
    LET kept[i \in 0 .. Len(turns)] ==
            IF i = 0 THEN <<>>
            ELSE IF turns[i].created + ConversationTtl > wall
            THEN Append(kept[i - 1], turns[i]) ELSE kept[i - 1]
    IN  kept[Len(turns)]

RetainedTurns(turns, wall) == Window(LiveTurns(turns, wall))

WithoutExpiredReceipts(rec, now) ==
    IF rec.phase = "complete"
    THEN [rec EXCEPT !.receipts = {x \in rec.receipts : x.expires > now}]
    ELSE rec

\* What has expired by the monotonic clock is gone, and so are the turns and
\* clarifications that have expired by the wall clock.
without_expired(r, now, wall) ==
    LET expired == ExpiredAt(r.issued_records, now)
        kept == DropIssued(r, expired)
        turns == [k \in DOMAIN r.conversation_turns |->
                    RetainedTurns(r.conversation_turns[k], wall)]
        Live(f) == without_keys(f, ExpiredAt(f, now))
    IN  [kept EXCEPT
            !.issued_records =
                [x \in DOMAIN kept.issued_records |->
                    WithoutExpiredReceipts(kept.issued_records[x], now)],
            !.pending_request_by_state =
                without_keys(r.pending_request_by_state,
                             {k \in DOMAIN r.pending_request_by_state :
                                r.pending_request_by_state[k] \in expired}),
            !.feedback_receipts = Live(r.feedback_receipts),
            !.prepared_feedback_tokens = Live(r.prepared_feedback_tokens),
            !.action_ledger_records = Live(r.action_ledger_records),
            !.audit_records = Live(r.audit_records),
            !.conversation_turns =
                without_keys(turns, {k \in DOMAIN turns : turns[k] = <<>>}),
            !.clarification_records =
                without_keys(r.clarification_records,
                             {k \in DOMAIN r.clarification_records :
                                r.clarification_records[k].created + ConversationTtl
                                    <= wall})]

\* A root with nothing to remove is its own result.
cleanup_candidate(r, now, wall) ==
    without_unpinned_revisions(without_expired(r, now, wall))

Sessions(r) == DOMAIN r.conversation_turns \cup DOMAIN r.clarification_records

\* The newest turn or clarification of a session: the key it is evicted by.
SessionEpochs(r, k) ==
    (IF k \in DOMAIN r.conversation_turns
        THEN {r.conversation_turns[k][i].created : i \in DOMAIN r.conversation_turns[k]}
        ELSE {})
    \cup (IF k \in DOMAIN r.clarification_records
            THEN {r.clarification_records[k].created} ELSE {})

NotNewer(S, T) == \A s \in S : \E t \in T : s <= t

\* The sets of sessions enforce_session_capacity may remove: the oldest ones,
\* as many as there are too many. Ties are broken by the bytes of the key in
\* the source; keys have no order here, so every choice is a victim set.
SessionVictims(r) ==
    LET excess == IF Cardinality(Sessions(r)) > SessionCapacity
                  THEN Cardinality(Sessions(r)) - SessionCapacity ELSE 0
    IN  {V \in SUBSET Sessions(r) :
            /\ Cardinality(V) = excess
            /\ \A v \in V, k \in Sessions(r) \ V :
                    NotNewer(SessionEpochs(r, v), SessionEpochs(r, k))}

\* (mutant) The clarification of an evicted session stays.
drop_keeps_clarification(r, V) ==
    without_unpinned_revisions(
        [r EXCEPT !.conversation_turns = without_keys(r.conversation_turns, V)])

DropSessions(r, V) ==
    without_unpinned_revisions(
        [r EXCEPT
            !.conversation_turns = without_keys(r.conversation_turns, V),
            !.clarification_records = without_keys(r.clarification_records, V)])

\* The records issued_capacity_eviction_candidate may evict: the complete one
\* that finished first; the bytes of the request_id break a tie.
IssuedVictims(r) ==
    {x \in Complete(r) : \A y \in Complete(r) :
        r.issued_records[x].completed <= r.issued_records[y].completed}

\* commit_reply makes room for its audit row by dropping the oldest one.
AuditVictims(r) ==
    IF Cardinality(DOMAIN r.audit_records) >= SessionCapacity
    THEN {{x} : x \in {y \in DOMAIN r.audit_records : \A z \in DOMAIN r.audit_records :
                        r.audit_records[y].created <= r.audit_records[z].created}}
    ELSE {{}}

\* _enforce_inactive_record_capacities: the oldest ledger rows beyond the cap.
LedgerVictims(ledger) ==
    LET excess == IF Cardinality(DOMAIN ledger) > LedgerCapacity
                  THEN Cardinality(DOMAIN ledger) - LedgerCapacity ELSE 0
    IN  {V \in SUBSET DOMAIN ledger :
            /\ Cardinality(V) = excess
            /\ \A v \in V, x \in DOMAIN ledger \ V :
                    ledger[v].received <= ledger[x].received}

StateRevisionCapacity == SessionCapacity + IssuedCapacity + LedgerCapacity + 1

\* _publish refuses a root whose pinned revisions exceed the capacity.
Publishable(r) ==
    Cardinality(DOMAIN r.state_revisions \cap PinnedKeys(r)) <= StateRevisionCapacity
=============================================================================
