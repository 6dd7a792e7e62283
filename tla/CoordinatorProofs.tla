-------------------------- MODULE CoordinatorProofs --------------------------
(* Theorems about Coordinator, for every value of its constants. *)
EXTENDS Coordinator, FiniteSetTheorems, SequenceTheorems, TLAPS

\* Updating a map with a map of the same type keeps the type.
LEMMA WithUpdatesIsMap ==
    ASSUME NEW D, NEW R, NEW f, NEW g, IsMap(f, D, R), IsMap(g, D, R)
    PROVE  IsMap(with_updates(f, g), D, R)
BY DEF IsMap, with_updates

\* Removing keys keeps the type.
LEMMA WithoutKeysIsMap ==
    ASSUME NEW D, NEW R, NEW f, NEW S, IsMap(f, D, R)
    PROVE  IsMap(without_keys(f, S), D, R)
BY DEF IsMap, without_keys

\* A single entry of the right type is a map of that type.
LEMMA SingleIsMap ==
    ASSUME NEW D, NEW R, NEW x \in D, NEW v \in R
    PROVE  IsMap(Single(x, v), D, R)
BY DEF IsMap, Single

\* Pruning revisions keeps the types of the root.
LEMMA UnpinnedTyped ==
    ASSUME NEW r, MapsTyped(r) PROVE MapsTyped(without_unpinned_revisions(r))
BY WithoutKeysIsMap DEF MapsTyped, without_unpinned_revisions, EmptyRoot

\* Removing issued records with their index entries keeps the types.
LEMMA DropIssuedTyped ==
    ASSUME NEW r, NEW S, MapsTyped(r) PROVE MapsTyped(DropIssued(r, S))
BY WithoutKeysIsMap DEF MapsTyped, DropIssued, EmptyRoot

\* A receipt list that shrinks is still one.
LEMMA ReceiptsKept ==
    ASSUME NEW rec \in PendingRecord \cup CompleteRecord, NEW now
    PROVE  WithoutExpiredReceipts(rec, now) \in PendingRecord \cup CompleteRecord
BY DEF WithoutExpiredReceipts, PendingRecord, CompleteRecord

\* Removing what has expired keeps the types.
LEMMA WithoutExpiredTyped ==
    ASSUME NEW r, NEW now, NEW w, MapsTyped(r) PROVE MapsTyped(without_expired(r, now, w))
<1> DEFINE kept == DropIssued(r, ExpiredAt(r.issued_records, now))
           revised == [x \in DOMAIN kept.issued_records |->
                           WithoutExpiredReceipts(kept.issued_records[x], now)]
<1>1. MapsTyped(kept)
  BY DropIssuedTyped
<1>2. IsMap(revised, IssuedKey, PendingRecord \cup CompleteRecord)
  BY <1>1, ReceiptsKept DEF IsMap, MapsTyped
<1> DEFINE history ==
               LET turns == [k \in DOMAIN r.conversation_turns |->
                                RetainedTurns(r.conversation_turns[k], w)]
               IN  without_keys(turns, {k \in DOMAIN turns : turns[k] = <<>>})
<1>3. DOMAIN history \subseteq Keys
  BY DEF MapsTyped, without_keys
<1> HIDE DEF kept, revised, history
<1> QED
  BY <1>1, <1>2, <1>3, WithoutKeysIsMap
  DEF MapsTyped, EmptyRoot, without_expired, kept, revised, history

\* So does the whole cleanup.
LEMMA CleanupTyped ==
    ASSUME NEW r, NEW now, NEW w, MapsTyped(r) PROVE MapsTyped(cleanup_candidate(r, now, w))
BY WithoutExpiredTyped, UnpinnedTyped DEF cleanup_candidate

\* Evicting sessions keeps the types.
LEMMA DropSessionsTyped ==
    ASSUME NEW r, NEW V, MapsTyped(r) PROVE MapsTyped(DropSessions(r, V))
BY WithoutKeysIsMap, UnpinnedTyped DEF MapsTyped, DropSessions, EmptyRoot, without_keys

\* Aborting a reservation keeps the types.
LEMMA AbortTyped ==
    ASSUME NEW r, NEW h, MapsTyped(r) PROVE MapsTyped(abort_reply_candidate(r, h))
BY WithoutKeysIsMap, UnpinnedTyped DEF MapsTyped, abort_reply_candidate, EmptyRoot

\* Dropping a preparation keeps the types.
LEMMA DropTokenTyped ==
    ASSUME NEW r, NEW p, MapsTyped(r) PROVE MapsTyped(DropToken(r, p))
BY WithoutKeysIsMap, UnpinnedTyped DEF MapsTyped, DropToken, EmptyRoot

\* A reservation of a typed submission keeps the types.
LEMMA ReserveTyped ==
    ASSUME NEW r, MapsTyped(r), mono \in Nat, NEW s \in Submissions,
           NEW owner \in Owners, NEW revision \in Revision
    PROVE  MapsTyped(reserve_reply_candidate(r, s, owner, revision))
<1> DEFINE key == <<s.key, s.request_id>>
           record == [phase |-> "pending", request_hash |-> s.request_hash,
                      replay_eligible |-> s.replay_eligible, owner_token |-> owner,
                      expires |-> mono + PendingTtl]
<1>1. s.key \in Keys /\ key \in IssuedKey
  BY InputAssumption DEF IssuedKey
<1>2. record \in PendingRecord
  BY InputAssumption, ConfigAssumption DEF PendingRecord
<1>3. IsMap(Single(key, record), IssuedKey, PendingRecord \cup CompleteRecord)
  BY <1>1, <1>2, SingleIsMap
<1>4. IsMap(Single(s.key, key), Keys, IssuedKey) /\ IsMap(Single(s.key, revision), Keys, Revision)
  BY <1>1, SingleIsMap
<1> HIDE DEF key, record
<1> QED
  BY <1>3, <1>4, WithUpdatesIsMap DEF MapsTyped, reserve_reply_candidate, EmptyRoot, key, record

-----------------------------------------------------------------------------
(* Type correctness of the actions. *)

\* What is drawn is one of the fresh values.
LEMMA DrawnIn == ASSUME NEW S PROVE Drawn(S) \subseteq S
BY DEF Drawn

\* The empty coordinator is typed.
LEMMA InitTyped == Init => RecordsTyped
BY DEF Init, RecordsTyped, MapsTyped, EmptyRoot, EmptyMap, IsMap

\* reserve_reply keeps the types, with its cleanup and its eviction.
LEMMA ReserveReplyTyped ==
    ASSUME RecordsTyped, NEW s \in Submissions, ReserveReply(s)
    PROVE  RecordsTyped'
<1> DEFINE cleaned == cleanup_candidate(root, mono, wall)
<1>1. PICK V \in IssuedEvictions(cleaned) :
        LET evicted == without_unpinned_revisions(DropIssued(cleaned, V)) IN
        \E owner \in Drawn(FreshOwners), revision \in ReservedRevisions(evicted, s.key) :
        LET candidate == reserve_reply_candidate(evicted, s, owner, revision) IN
        IF Publishable(candidate)
        THEN /\ root' = candidate
             /\ held' = held \cup
                 {[key |-> s.key, request_id |-> s.request_id,
                   request_hash |-> s.request_hash,
                   replay_eligible |-> s.replay_eligible, owner_token |-> owner,
                   revision |-> revision, moved |-> FALSE]}
        ELSE root' = evicted /\ held' = held
  BY DEF ReserveReply
<1> DEFINE evicted == without_unpinned_revisions(DropIssued(cleaned, V))
<1>2. MapsTyped(evicted)
  BY CleanupTyped, DropIssuedTyped, UnpinnedTyped DEF RecordsTyped
<1>3. PICK owner \in Drawn(FreshOwners), revision \in ReservedRevisions(evicted, s.key) :
        \/ /\ root' = reserve_reply_candidate(evicted, s, owner, revision)
           /\ held' = held \cup
                 {[key |-> s.key, request_id |-> s.request_id,
                   request_hash |-> s.request_hash,
                   replay_eligible |-> s.replay_eligible, owner_token |-> owner,
                   revision |-> revision, moved |-> FALSE]}
        \/ root' = evicted /\ held' = held
  BY <1>1
<1> HIDE DEF evicted
<1>4. owner \in Owners
  BY DrawnIn DEF FreshOwners
<1>5. revision \in Revision
  <2>1. CASE s.key \in DOMAIN evicted.state_revisions
    BY <2>1, <1>2 DEF ReservedRevisions, MapsTyped, IsMap
  <2>2. CASE s.key \notin DOMAIN evicted.state_revisions
    <3>1. PICK epoch \in Drawn(FreshEpochs) : revision = [epoch |-> epoch, revision |-> 0]
      BY <2>2 DEF ReservedRevisions
    <3>2. epoch \in Epochs
      BY DrawnIn DEF FreshEpochs
    <3> QED BY <3>1, <3>2 DEF Revision
  <2> QED BY <2>1, <2>2
<1>6. MapsTyped(root')
  BY <1>2, <1>3, <1>4, <1>5, ReserveTyped DEF RecordsTyped
<1>7. held' \subseteq Reservation
  <2> DEFINE h == [key |-> s.key, request_id |-> s.request_id,
                   request_hash |-> s.request_hash,
                   replay_eligible |-> s.replay_eligible, owner_token |-> owner,
                   revision |-> revision, moved |-> FALSE]
  <2>1. /\ s.key \in Keys /\ s.request_id \in Requests
        /\ s.request_hash \in RequestHashes /\ s.replay_eligible \in BOOLEAN
    BY InputAssumption
  <2>2. h \in Reservation
    BY <2>1, <1>4, <1>5 DEF Reservation
  <2>3. held' \subseteq held \cup {h}
    BY <1>3
  <2> QED
    BY <2>2, <2>3 DEF RecordsTyped
<1> QED
  BY <1>6, <1>7 DEF RecordsTyped, ReserveReply

\* abort_reply keeps the types.
LEMMA AbortReplyTyped ==
    ASSUME RecordsTyped, NEW h \in held, AbortReply(h) PROVE RecordsTyped'
BY AbortTyped DEF RecordsTyped, AbortReply

\* The periodic cleanup keeps the types.
LEMMA CleanupStepTyped ==
    ASSUME RecordsTyped, Cleanup PROVE RecordsTyped'
BY CleanupTyped DEF RecordsTyped, Cleanup

\* The clocks stay numbers.
LEMMA ClocksTyped ==
    ASSUME RecordsTyped, Tick \/ WallStep PROVE RecordsTyped'
BY InputAssumption DEF RecordsTyped, Tick, WallStep

\* A refused commit_feedback keeps the types.
LEMMA RefuseFeedbackTyped ==
    ASSUME RecordsTyped, NEW p \in prepared, RefuseFeedback(p) PROVE RecordsTyped'
BY DropTokenTyped DEF RecordsTyped, RefuseFeedback

\* Handing out a stored preparation keeps the types.
LEMMA ReusePreparationTyped ==
    ASSUME RecordsTyped, NEW k, NEW f, NEW hash, ReusePreparation(k, f, hash)
    PROVE  RecordsTyped'
<1> DEFINE r == cleanup_candidate(root, mono, wall)
<1>1. MapsTyped(r)
  BY CleanupTyped DEF RecordsTyped
<1> HIDE DEF r
<1>2. r.prepared_feedback_tokens[<<k, f>>] \in PreparedFeedback
  BY <1>1 DEF ReusePreparation, MapsTyped, IsMap, r
<1> QED
  BY <1>1, <1>2 DEF ReusePreparation, RecordsTyped, r

\* The record a reply commit writes is a complete record.
LEMMA IssuedRecordTyped ==
    ASSUME RecordsTyped, NEW h \in held, NEW reply \in Replies,
           NEW response \in Responses, NEW scope \in Scopes
    PROVE  issued_record(h, reply, response, scope) \in CompleteRecord
<1>1. /\ h.request_hash \in RequestHashes /\ h.replay_eligible \in BOOLEAN
  BY DEF RecordsTyped, Reservation
<1>2. /\ reply.positional \in BOOLEAN /\ reply.effects \in SUBSET Effects
  BY InputAssumption
<1>3. [e \in Effects |-> [outcome |-> NoOutcome, changes |-> 0]] \in [Effects -> EffectState]
  BY DEF EffectState
<1>4. mono \in Nat /\ mono + IssuedTtl \in Nat
  BY ConfigAssumption DEF RecordsTyped
<1> QED
  BY <1>1, <1>2, <1>3, <1>4 DEF issued_record, Unreported, CompleteRecord

\* Both kinds of action id are well typed.
LEMMA ActionIdsTyped ==
    ASSUME NEW rec \in CompleteRecord
    PROVE  /\ ActionIdsOf(rec) \subseteq ActionIds
           /\ \A a \in ActionIdsOf(rec) : a[2] \in SendActions
<1> SUFFICES ASSUME NEW e \in rec.issued \cap SendActions
             PROVE  /\ action_id(rec.response_id, rec.positional, e) \in ActionIds
                    /\ action_id(rec.response_id, rec.positional, e)[2] \in SendActions
  BY DEF ActionIdsOf
<1>1. rec.response_id \in Responses /\ rec.positional \in BOOLEAN
  BY DEF CompleteRecord
<1> QED
  BY <1>1 DEF action_id, ActionIds, OpaqueIds, PositionalIds

\* The candidate of commit_reply is typed.
LEMMA CommitCandidateTyped ==
    ASSUME RecordsTyped, NEW h \in held, AtRevision(root, h.key, h.revision),
           NEW reply \in Replies, NEW response \in Responses, NEW scope \in Scopes, NEW A
    PROVE  MapsTyped(commit_reply_candidate(root, h, reply, response, scope, A))
<1> DEFINE key == <<h.key, h.request_id>>
           record == issued_record(h, reply, response, scope)
           prior == IF h.key \in DOMAIN root.conversation_turns
                    THEN root.conversation_turns[h.key] ELSE <<>>
           entries == [a \in ActionIdsOf(record) |-> <<h.key, response, a[2]>>]
           turns == with_updates(root.conversation_turns,
                                 Single(h.key, NewTurns(prior, scope, reply.clarifies)))
           clarification == [ordinal |-> Len(prior) + 1, created |-> wall, scope |-> scope]
           clarifications ==
               IF reply.clarifies
               THEN with_updates(root.clarification_records, Single(h.key, clarification))
               ELSE without_keys(root.clarification_records, {h.key})
           audit == [created |-> wall, expires |-> mono + IssuedTtl]
<1>1. h.key \in Keys /\ h.request_id \in Requests /\ key \in IssuedKey
  BY DEF RecordsTyped, Reservation, IssuedKey
<1>2. record \in CompleteRecord
  BY IssuedRecordTyped
<1>3. IsMap(Single(key, record), IssuedKey, PendingRecord \cup CompleteRecord)
  BY <1>1, <1>2, SingleIsMap
<1>4. IsMap(Single(h.key, Bumped(root.state_revisions[h.key])), Keys, Revision)
  <2>1. root.state_revisions[h.key] \in Revision
    BY DEF AtRevision, RecordsTyped, MapsTyped, IsMap
  <2>2. Bumped(root.state_revisions[h.key]) \in Revision
    BY <2>1 DEF Bumped, Revision
  <2> QED BY <1>1, <2>2, SingleIsMap
<1>5. IsMap(Single(response, key), Responses, IssuedKey)
  BY <1>1, SingleIsMap
<1>6. IsMap(entries, ActionIds, Keys \X Responses \X SendActions)
  BY <1>1, <1>2, ActionIdsTyped DEF IsMap
<1>7. DOMAIN turns \subseteq Keys
  BY <1>1 DEF RecordsTyped, MapsTyped, with_updates, Single
<1>8. IsMap(clarifications, Keys, Clarification)
  <2>1. IsMap(root.clarification_records, Keys, Clarification)
    BY DEF RecordsTyped, MapsTyped
  <2>2. Len(prior) + 1 \in Nat
    OBVIOUS
  <2>3. clarification \in Clarification
    BY <2>2 DEF Clarification, RecordsTyped
  <2> QED BY <1>1, <2>1, <2>3, SingleIsMap, WithUpdatesIsMap, WithoutKeysIsMap
<1>9. IsMap(Single(<<h.key, response>>, audit), Keys \X Responses, Audit)
  <2>1. audit \in Audit
    BY ConfigAssumption DEF Audit, RecordsTyped
  <2> QED BY <1>1, <2>1, SingleIsMap
<1> HIDE DEF key, record, entries, turns, clarifications, audit
<1> QED
  BY <1>3, <1>4, <1>5, <1>6, <1>7, <1>8, <1>9, WithUpdatesIsMap, WithoutKeysIsMap
  DEF RecordsTyped, MapsTyped, EmptyRoot, commit_reply_candidate, key, record, entries,
      turns, clarifications, audit

\* The history flag keeps reservations typed.
LEMMA MovedTyped ==
    ASSUME RecordsTyped, NEW k PROVE Moved(k) \subseteq Reservation
BY DEF RecordsTyped, Reservation, Moved

\* commit_reply keeps the types.
LEMMA CommitReplyTyped ==
    ASSUME RecordsTyped, NEW h \in held, NEW reply \in Replies, NEW scope \in Scopes,
           CommitReply(h, reply, scope)
    PROVE  RecordsTyped'
<1>1. PICK response \in Drawn(FreshResponses), A \in AuditVictims(root) :
        \E V : root' = DropSessions(
                   commit_reply_candidate(root, h, reply, response, scope, A), V)
  BY DEF CommitReply
<1>2. response \in Responses
  BY DrawnIn DEF FreshResponses
<1>3. MapsTyped(commit_reply_candidate(root, h, reply, response, scope, A))
  BY <1>2, CommitCandidateTyped DEF CommitReply
<1>4. MapsTyped(root')
  BY <1>1, <1>3, DropSessionsTyped
<1> QED
  BY <1>4, MovedTyped DEF RecordsTyped, CommitReply

\* prepare_feedback keeps the types.
LEMMA PrepareFeedbackTyped ==
    ASSUME RecordsTyped, NEW k \in Keys, NEW f \in FeedbackIds, NEW hash \in FeedbackHash,
           PrepareFeedback(k, f, hash)
    PROVE  RecordsTyped'
<1> DEFINE r == cleanup_candidate(root, mono, wall)
           rec == r.issued_records[<<k, hash.request_id>>]
           p(token) == [key |-> k, feedback_id |-> f, hash |-> hash, commit_token |-> token,
                        revision |-> r.state_revisions[k],
                        record_revision |-> rec.record_revision,
                        noops |-> Noops(rec, hash.body), expires |-> mono + TokenTtl]
<1>1. PICK token \in Drawn(FreshCommitTokens) :
        /\ root' = [r EXCEPT !.prepared_feedback_tokens =
                       with_updates(@, Single(<<k, f>>, p(token)))]
        /\ prepared' = prepared \cup {p(token)}
  BY DEF PrepareFeedback
<1>2. MapsTyped(r)
  BY CleanupTyped DEF RecordsTyped
<1>3. token \in CommitTokens
  BY DrawnIn DEF FreshCommitTokens
<1>4. rec \in CompleteRecord
  BY <1>2 DEF PrepareFeedback, Resolves, Complete, MapsTyped, IsMap, CompleteRecord, PendingRecord
<1>5. r.state_revisions[k] \in Revision
  BY <1>2 DEF PrepareFeedback, MapsTyped, IsMap
<1>6. Noops(rec, hash.body) \in SUBSET Effects
  <2>1. DOMAIN hash.body \subseteq Effects
    BY DEF FeedbackHash, FeedbackBody
  <2> QED BY <2>1 DEF Noops
<1>7. rec.record_revision \in Nat /\ mono + TokenTtl \in Nat
  BY <1>4, ConfigAssumption DEF CompleteRecord, RecordsTyped
<1> HIDE DEF rec, r
<1>8. p(token) \in PreparedFeedback
  BY <1>3, <1>5, <1>6, <1>7 DEF PreparedFeedback
<1>9. IsMap(Single(<<k, f>>, p(token)), FeedbackKey, PreparedFeedback)
  BY <1>8, SingleIsMap DEF FeedbackKey
<1> HIDE DEF p
<1> QED
  BY <1>1, <1>2, <1>8, <1>9, WithUpdatesIsMap
  DEF RecordsTyped, MapsTyped, EmptyRoot, PrepareFeedback

\* Applying prepared transitions gives effect states.
LEMMA TransitionsTyped ==
    ASSUME NEW effects \in [Effects -> EffectState], NEW p \in PreparedFeedback
    PROVE  apply_effect_transitions(effects, p) \in [Effects -> EffectState]
<1> SUFFICES ASSUME NEW e \in Effects
             PROVE  apply_effect_transitions(effects, p)[e] \in EffectState
  BY DEF apply_effect_transitions
<1>1. CASE e \in DOMAIN p.hash.body \ p.noops
  <2>1. p.hash.body[e] \in Outcomes
    BY <1>1 DEF PreparedFeedback, FeedbackHash, FeedbackBody
  <2>2. effects[e].changes + 1 \in Nat
    BY DEF EffectState
  <2> QED BY <1>1, <2>1, <2>2 DEF apply_effect_transitions, EffectState
<1>2. CASE e \notin DOMAIN p.hash.body \ p.noops
  BY <1>2 DEF apply_effect_transitions
<1> QED BY <1>1, <1>2

\* The record feedback revises is a complete record.
LEMMA RevisedRecordTyped ==
    ASSUME mono \in Nat, NEW rec \in CompleteRecord, NEW p \in PreparedFeedback
    PROVE  revised_record(rec, p) \in CompleteRecord
<1>1. apply_effect_transitions(rec.effects, p) \in [Effects -> EffectState]
  BY TransitionsTyped DEF CompleteRecord
<1>2. [feedback_id |-> p.feedback_id, expires |-> mono + IssuedTtl] \in ReceiptRef
  BY ConfigAssumption DEF ReceiptRef, PreparedFeedback
<1>3. /\ rec.receipts \cup {[feedback_id |-> p.feedback_id, expires |-> mono + IssuedTtl]}
            \in SUBSET ReceiptRef
      /\ rec.record_revision + 1 \in Nat
  BY <1>2 DEF CompleteRecord
<1> DEFINE refs == rec.receipts \cup
                     {[feedback_id |-> p.feedback_id, expires |-> mono + IssuedTtl]}
<1>4. revised_record(rec, p) =
        [rec EXCEPT !.effects = apply_effect_transitions(rec.effects, p),
                    !.receipts = refs, !.record_revision = rec.record_revision + 1]
  BY DEF revised_record, CompleteRecord
<1> HIDE DEF refs
<1> QED
  BY <1>1, <1>3, <1>4 DEF CompleteRecord, refs

\* The ledger updates are ledger rows under ledger keys.
LEMMA LedgerUpdatesTyped ==
    ASSUME RecordsTyped, NEW p \in prepared, NEW rec \in CompleteRecord
    PROVE  IsMap(derive_ledger_updates(root, p, rec), LedgerKey, LedgerRow)
<1> DEFINE changed == ReportedActions(p)
           keyOf(e) == <<p.key, rec.response_id,
                         action_id(rec.response_id, rec.positional, e)>>
           row(x) == derive_ledger_updates(root, p, rec)[x]
<1>1. p \in PreparedFeedback
  BY DEF RecordsTyped
<1>2. /\ p.key \in Keys
      /\ rec.response_id \in Responses /\ rec.positional \in BOOLEAN /\ rec.scope \in Scopes
  BY <1>1 DEF PreparedFeedback, FeedbackHash, CompleteRecord
<1>3. ASSUME NEW e \in changed
      PROVE  keyOf(e) \in LedgerKey /\ keyOf(e)[3][2] = e
  BY <1>2 DEF LedgerKey, action_id, ActionIds, OpaqueIds, PositionalIds, ReportedActions
<1>4. ASSUME NEW e \in changed PROVE row(keyOf(e)) \in LedgerRow
  <2>1. p.hash.body[e] \in Outcomes
    BY <1>1 DEF PreparedFeedback, FeedbackHash, FeedbackBody, ReportedActions
  <2>2. (IF keyOf(e) \in DOMAIN root.action_ledger_records
            THEN root.action_ledger_records[keyOf(e)].status_revision + 1 ELSE 1) \in Nat
    BY DEF RecordsTyped, MapsTyped, IsMap, LedgerRow
  <2>3. mono + IssuedTtl \in Nat /\ wall \in Nat
    BY ConfigAssumption DEF RecordsTyped
  <2>4. keyOf(e)[3][2] = e /\ e \in SendActions
    BY <1>3, <1>4 DEF ReportedActions
  <2>5. row(keyOf(e)) =
          [effect |-> e, outcome |-> p.hash.body[e],
           status_revision |->
              IF keyOf(e) \in DOMAIN root.action_ledger_records
              THEN root.action_ledger_records[keyOf(e)].status_revision + 1 ELSE 1,
           received |-> wall, expires |-> mono + IssuedTtl, scope |-> rec.scope]
    BY <2>4 DEF derive_ledger_updates
  <2> HIDE DEF row
  <2> QED
    BY <1>2, <2>1, <2>2, <2>3, <2>4, <2>5 DEF LedgerRow
<1> DEFINE u == derive_ledger_updates(root, p, rec)
<1>5. DOMAIN u = {keyOf(e) : e \in changed} /\ u = [x \in DOMAIN u |-> u[x]]
  BY DEF derive_ledger_updates
<1>6. \A e \in changed : keyOf(e) \in LedgerKey /\ u[keyOf(e)] \in LedgerRow
  BY <1>3, <1>4
<1> HIDE DEF u, changed, keyOf
<1>7. IsMap(u, LedgerKey, LedgerRow)
  BY <1>5, <1>6 DEF IsMap
<1> QED BY <1>7 DEF u

\* The candidate of commit_feedback is typed.
LEMMA CommitFeedbackCandidateTyped ==
    ASSUME RecordsTyped, NEW p \in prepared, CommitFeedback(p)
    PROVE  MapsTyped(commit_feedback_candidate(root, p))
<1> DEFINE key == <<p.key, p.hash.request_id>>
           rec == root.issued_records[key]
           revised == revised_record(rec, p)
           receipt == [hash |-> p.hash, record_revision |-> revised.record_revision,
                       expires |-> mono + IssuedTtl]
<1>1. p \in PreparedFeedback /\ mono \in Nat /\ MapsTyped(root)
  BY DEF RecordsTyped
<1>2. /\ p.key \in Keys /\ key \in IssuedKey
      /\ <<p.key, p.feedback_id>> \in FeedbackKey
  BY <1>1 DEF PreparedFeedback, FeedbackHash, IssuedKey, FeedbackKey
<1>3. key \in Complete(root)
  BY DEF CommitFeedback, StillCurrent, Resolves
<1>4. rec \in CompleteRecord
  BY <1>1, <1>3 DEF Complete, MapsTyped, IsMap, CompleteRecord, PendingRecord
<1>5. revised \in CompleteRecord
  BY <1>1, <1>4, RevisedRecordTyped
<1>6. receipt \in Receipt
  <2>1. revised.record_revision \in Nat
    BY <1>5 DEF CompleteRecord
  <2> QED
    BY <1>1, <2>1, ConfigAssumption DEF Receipt, PreparedFeedback
<1>7. Bumped(root.state_revisions[p.key]) \in Revision
  <2>1. root.state_revisions[p.key] \in Revision
    BY <1>1 DEF CommitFeedback, StillCurrent, AtRevision, MapsTyped, IsMap
  <2> QED BY <2>1 DEF Bumped, Revision
<1>8. /\ IsMap(Single(key, revised), IssuedKey, PendingRecord \cup CompleteRecord)
      /\ IsMap(Single(<<p.key, p.feedback_id>>, receipt), FeedbackKey, Receipt)
      /\ IsMap(Single(p.key, Bumped(root.state_revisions[p.key])), Keys, Revision)
  BY <1>2, <1>5, <1>6, <1>7, SingleIsMap
<1>9. IsMap(derive_ledger_updates(root, p, rec), LedgerKey, LedgerRow)
  BY <1>4, LedgerUpdatesTyped
<1> HIDE DEF key, rec, revised, receipt
<1> QED
  BY <1>1, <1>8, <1>9, WithUpdatesIsMap, WithoutKeysIsMap
  DEF MapsTyped, EmptyRoot, commit_feedback_candidate, key, rec, revised, receipt

\* commit_feedback keeps the types.
LEMMA CommitFeedbackTyped ==
    ASSUME RecordsTyped, NEW p \in prepared, CommitFeedback(p)
    PROVE  RecordsTyped'
<1> DEFINE candidate == commit_feedback_candidate(root, p)
<1>1. MapsTyped(candidate)
  BY CommitFeedbackCandidateTyped
<1> HIDE DEF candidate
<1>2. PICK V : root' = without_unpinned_revisions(
           [candidate EXCEPT !.action_ledger_records = without_keys(@, V)])
  BY DEF CommitFeedback, candidate
<1>3. MapsTyped([candidate EXCEPT !.action_ledger_records = without_keys(@, V)])
  BY <1>1, WithoutKeysIsMap DEF MapsTyped, EmptyRoot
<1>4. MapsTyped(root')
  BY <1>2, <1>3, UnpinnedTyped
<1> QED
  BY <1>4, MovedTyped DEF RecordsTyped, CommitFeedback

-----------------------------------------------------------------------------

\* No operation puts anything into a map of the root, or into a caller's hands,
\* that is not of its type: no key of another conversation's shape, no expiry
\* that is not a clock value, no revision that is not a number.
THEOREM RecordsStayTyped == Spec => []RecordsTyped
<1>1. Init => RecordsTyped
  BY InitTyped
<1>2. RecordsTyped /\ [Next]_vars => RecordsTyped'
  <2> SUFFICES ASSUME RecordsTyped, [Next]_vars PROVE RecordsTyped'
    OBVIOUS
  <2>1. CASE \E s \in Submissions : ReserveReply(s)
    BY <2>1, ReserveReplyTyped
  <2>2. CASE \E h \in held : AbortReply(h)
    BY <2>2, AbortReplyTyped
  <2>3. CASE \E h \in held, reply \in Replies, scope \in Scopes :
                CommitReply(h, reply, scope)
    BY <2>3, CommitReplyTyped
  <2>4. CASE \E k \in Keys, f \in FeedbackIds, q \in Requests, response \in Responses,
                body \in Bodies :
                LET hash == [request_id |-> q, response_id |-> response, body |-> body] IN
                PrepareFeedback(k, f, hash) \/ ReusePreparation(k, f, hash)
    <3>1. PICK k \in Keys, f \in FeedbackIds, hash \in FeedbackHash :
            PrepareFeedback(k, f, hash) \/ ReusePreparation(k, f, hash)
      BY <2>4, InputAssumption DEF FeedbackHash
    <3> QED BY <3>1, PrepareFeedbackTyped, ReusePreparationTyped
  <2>5. CASE \E p \in prepared : CommitFeedback(p) \/ RefuseFeedback(p)
    BY <2>5, CommitFeedbackTyped, RefuseFeedbackTyped
  <2>6. CASE Cleanup
    BY <2>6, CleanupStepTyped
  <2>7. CASE Tick \/ WallStep
    BY <2>7, ClocksTyped
  <2>8. CASE UNCHANGED vars
    BY <2>8 DEF RecordsTyped, vars
  <2> QED
    BY <2>1, <2>2, <2>3, <2>4, <2>5, <2>6, <2>7, <2>8 DEF Next
<1> QED
  BY <1>1, <1>2, PTL DEF Spec

-----------------------------------------------------------------------------
(* One turn per conversation. *)

\* Only the issued records and the pending index matter.
LEMMA PendingUnaffected ==
    ASSUME NEW r, NEW q, PendingIndexed(r),
           q.issued_records = r.issued_records,
           q.pending_request_by_state = r.pending_request_by_state
    PROVE  PendingIndexed(q)
BY DEF PendingIndexed, Pending

\* Pruning revisions changes nothing but the revisions.
LEMMA UnpinnedFields ==
    ASSUME NEW r, MapsTyped(r)
    PROVE  LET q == without_unpinned_revisions(r) IN
           /\ \A f \in DOMAIN EmptyRoot \ {"state_revisions"} : q[f] = r[f]
           /\ q.issued_records = r.issued_records
           /\ q.pending_request_by_state = r.pending_request_by_state
           /\ DOMAIN q.state_revisions = DOMAIN r.state_revisions \cap PinnedKeys(r)
           /\ PinnedKeys(q) = PinnedKeys(r)
BY DEF MapsTyped, EmptyRoot, without_unpinned_revisions, without_keys, PinnedKeys

\* Eviction and expiry that spare the pending records of the index keep it exact.
LEMMA DropCompletePending ==
    ASSUME NEW r, NEW V, MapsTyped(r), PendingIndexed(r), V \cap Pending(r) = {}
    PROVE  PendingIndexed(DropIssued(r, V))
BY DEF MapsTyped, EmptyRoot, IsMap, PendingIndexed, Pending, DropIssued, without_keys

\* Cleanup removes expired pending records together with their index entries.
LEMMA CleanupPending ==
    ASSUME NEW r, NEW now, NEW w, MapsTyped(r), PendingIndexed(r)
    PROVE  PendingIndexed(cleanup_candidate(r, now, w))
<1> DEFINE q == without_expired(r, now, w)
           expired == ExpiredAt(r.issued_records, now)
<1>1. /\ DOMAIN q.issued_records = DOMAIN r.issued_records \ expired
      /\ \A x \in DOMAIN q.issued_records :
            q.issued_records[x] = WithoutExpiredReceipts(r.issued_records[x], now)
      /\ q.pending_request_by_state =
            without_keys(r.pending_request_by_state,
                         {k \in DOMAIN r.pending_request_by_state :
                            r.pending_request_by_state[k] \in expired})
  BY DEF MapsTyped, EmptyRoot, without_expired, DropIssued, without_keys
<1> HIDE DEF q, expired
<1>2. \A x \in DOMAIN r.issued_records :
        WithoutExpiredReceipts(r.issued_records[x], now).phase = r.issued_records[x].phase
  BY DEF MapsTyped, IsMap, WithoutExpiredReceipts, PendingRecord, CompleteRecord
<1>3. Pending(q) = Pending(r) \ expired
  BY <1>1, <1>2 DEF Pending
<1>4. PendingIndexed(q)
  BY <1>1, <1>3 DEF PendingIndexed, without_keys, Pending
<1> QED
  BY <1>4, WithoutExpiredTyped, UnpinnedFields, PendingUnaffected DEF q, cleanup_candidate

\* A reservation adds one pending record and its entry, for a conversation that had neither.
LEMMA ReserveCandidatePending ==
    ASSUME NEW r, MapsTyped(r), PendingIndexed(r), NEW s \in Submissions, Reservable(r, s),
           NEW V, V \cap Pending(r) = {}, NEW owner, NEW revision
    PROVE  LET evicted == without_unpinned_revisions(DropIssued(r, V)) IN
           /\ PendingIndexed(evicted)
           /\ PendingIndexed(reserve_reply_candidate(evicted, s, owner, revision))
<1> DEFINE dropped == DropIssued(r, V)
           evicted == without_unpinned_revisions(dropped)
           key == <<s.key, s.request_id>>
           q == reserve_reply_candidate(evicted, s, owner, revision)
<1>1. MapsTyped(dropped) /\ PendingIndexed(dropped)
  BY DropIssuedTyped, DropCompletePending
<1>2. MapsTyped(evicted) /\ PendingIndexed(evicted)
  BY <1>1, UnpinnedTyped, UnpinnedFields, PendingUnaffected
<1>3. s.key \notin DOMAIN evicted.pending_request_by_state
  <2>1. dropped.pending_request_by_state = r.pending_request_by_state
    BY DEF MapsTyped, EmptyRoot, DropIssued
  <2> QED
    BY <1>1, <2>1, UnpinnedFields DEF Reservable
<1> HIDE DEF evicted
<1>4. /\ DOMAIN q.issued_records = DOMAIN evicted.issued_records \cup {key}
      /\ \A x \in DOMAIN evicted.issued_records \ {key} :
            q.issued_records[x] = evicted.issued_records[x]
      /\ q.issued_records[key].phase = "pending"
      /\ DOMAIN q.pending_request_by_state =
            DOMAIN evicted.pending_request_by_state \cup {s.key}
      /\ \A k \in DOMAIN evicted.pending_request_by_state \ {s.key} :
            q.pending_request_by_state[k] = evicted.pending_request_by_state[k]
      /\ q.pending_request_by_state[s.key] = key
  BY <1>2 DEF MapsTyped, EmptyRoot, reserve_reply_candidate, with_updates, Single
<1>5. key[1] = s.key
  OBVIOUS
<1> HIDE DEF q, key
<1>6. key \notin Pending(evicted)
  BY <1>2, <1>3, <1>5 DEF PendingIndexed
<1>7. Pending(q) = Pending(evicted) \cup {key}
  BY <1>4, <1>6 DEF Pending
<1>8. PendingIndexed(q)
  <2>1. ASSUME NEW k \in DOMAIN q.pending_request_by_state
        PROVE  /\ q.pending_request_by_state[k] \in Pending(q)
               /\ q.pending_request_by_state[k][1] = k
    BY <1>2, <1>3, <1>4, <1>5, <1>7, <2>1 DEF PendingIndexed
  <2>2. ASSUME NEW x \in Pending(q)
        PROVE  /\ x[1] \in DOMAIN q.pending_request_by_state
               /\ q.pending_request_by_state[x[1]] = x
    BY <1>2, <1>3, <1>4, <1>5, <1>7, <2>2 DEF PendingIndexed
  <2> QED BY <2>1, <2>2 DEF PendingIndexed
<1> QED
  BY <1>2, <1>8 DEF q, evicted

\* Commit and abort take the pending record and its index entry together.
LEMMA ReleasePending ==
    ASSUME NEW r, NEW q, NEW key, PendingIndexed(r), key \in Pending(r),
           Pending(q) = Pending(r) \ {key},
           q.pending_request_by_state = without_keys(r.pending_request_by_state, {key[1]})
    PROVE  PendingIndexed(q)
BY DEF PendingIndexed, without_keys

\* An abort by the owner removes both.
LEMMA AbortPending ==
    ASSUME NEW r, NEW h, MapsTyped(r), PendingIndexed(r), Owns(r, h)
    PROVE  PendingIndexed(abort_reply_candidate(r, h))
<1> DEFINE key == <<h.key, h.request_id>>
           base == [r EXCEPT !.issued_records = without_keys(@, {key}),
                             !.pending_request_by_state = without_keys(@, {h.key})]
<1>1. key \in Pending(r) /\ key[1] = h.key
  BY DEF Owns
<1> HIDE DEF key
<1>2. Pending(base) = Pending(r) \ {key}
  BY DEF MapsTyped, EmptyRoot, Pending, without_keys
<1>3. base.pending_request_by_state = without_keys(r.pending_request_by_state, {key[1]})
  BY <1>1 DEF MapsTyped, EmptyRoot
<1>4. MapsTyped(base)
  BY WithoutKeysIsMap DEF MapsTyped, EmptyRoot
<1>5. PendingIndexed(base)
  BY <1>1, <1>2, <1>3, ReleasePending
<1> HIDE DEF base
<1>6. PendingIndexed(without_unpinned_revisions(base))
  BY <1>4, <1>5, UnpinnedFields, PendingUnaffected
<1> QED
  BY <1>6 DEF abort_reply_candidate, base, key

\* A commit by the owner turns the record complete and removes the entry.
LEMMA CommitPending ==
    ASSUME RecordsTyped, PendingIndexExact, NEW h \in held, NEW reply, NEW response,
           NEW scope, NEW A, NEW V, Owns(root, h),
           MapsTyped(commit_reply_candidate(root, h, reply, response, scope, A))
    PROVE  PendingIndexed(DropSessions(
               commit_reply_candidate(root, h, reply, response, scope, A), V))
<1> DEFINE key == <<h.key, h.request_id>>
           record == issued_record(h, reply, response, scope)
           candidate == commit_reply_candidate(root, h, reply, response, scope, A)
           kept == [candidate EXCEPT
                      !.conversation_turns = without_keys(candidate.conversation_turns, V),
                      !.clarification_records =
                          without_keys(candidate.clarification_records, V)]
<1>1. key \in Pending(root) /\ key[1] = h.key
  BY DEF Owns
<1>2. /\ candidate.issued_records = with_updates(root.issued_records, Single(key, record))
      /\ candidate.pending_request_by_state =
            without_keys(root.pending_request_by_state, {h.key})
  BY DEF RecordsTyped, MapsTyped, EmptyRoot, commit_reply_candidate
<1>3. record.phase = "complete"
  BY DEF issued_record, Unreported
<1> HIDE DEF key, record, candidate
<1>4. Pending(candidate) = Pending(root) \ {key}
  BY <1>1, <1>2, <1>3 DEF Pending, with_updates, Single
<1>5. PendingIndexed(candidate)
  BY <1>1, <1>2, <1>4, ReleasePending DEF PendingIndexExact
<1>6. /\ MapsTyped(kept)
      /\ kept.issued_records = candidate.issued_records
      /\ kept.pending_request_by_state = candidate.pending_request_by_state
  BY WithoutKeysIsMap DEF MapsTyped, EmptyRoot, candidate, without_keys
<1> HIDE DEF kept
<1>7. PendingIndexed(without_unpinned_revisions(kept))
  BY <1>5, <1>6, UnpinnedFields, PendingUnaffected
<1> QED
  BY <1>7 DEF DropSessions, kept, candidate

\* A feedback commit replaces a complete record by a complete one.
LEMMA FeedbackPending ==
    ASSUME RecordsTyped, PendingIndexExact, NEW p \in prepared, CommitFeedback(p)
    PROVE  PendingIndexed(root')
<1> DEFINE key == <<p.key, p.hash.request_id>>
           rec == root.issued_records[key]
           revised == revised_record(rec, p)
           candidate == commit_feedback_candidate(root, p)
<1>1. key \in Complete(root)
  BY DEF CommitFeedback, StillCurrent, Resolves
<1>2. rec \in CompleteRecord
  BY <1>1 DEF RecordsTyped, Complete, MapsTyped, IsMap, CompleteRecord, PendingRecord
<1>3. revised.phase = "complete"
  BY <1>2 DEF revised_record, CompleteRecord
<1>4. /\ MapsTyped(candidate)
      /\ candidate.issued_records = with_updates(root.issued_records, Single(key, revised))
      /\ candidate.pending_request_by_state = root.pending_request_by_state
  BY CommitFeedbackCandidateTyped DEF RecordsTyped, MapsTyped, EmptyRoot,
     commit_feedback_candidate
<1> HIDE DEF candidate, revised, key
<1>5. Pending(candidate) = Pending(root)
  BY <1>1, <1>3, <1>4 DEF Pending, Complete, with_updates, Single
<1>6. PendingIndexed(candidate)
  BY <1>4, <1>5 DEF PendingIndexed, PendingIndexExact
<1>7. PICK V : root' = without_unpinned_revisions(
           [candidate EXCEPT !.action_ledger_records = without_keys(@, V)])
  BY DEF CommitFeedback, candidate
<1> DEFINE kept == [candidate EXCEPT !.action_ledger_records = without_keys(@, V)]
<1>8. /\ MapsTyped(kept)
      /\ kept.issued_records = candidate.issued_records
      /\ kept.pending_request_by_state = candidate.pending_request_by_state
  BY <1>4, WithoutKeysIsMap DEF MapsTyped, EmptyRoot
<1> HIDE DEF kept
<1>9. root' = without_unpinned_revisions(kept)
  BY <1>7 DEF kept
<1> QED
  BY <1>6, <1>8, <1>9, UnpinnedFields, PendingUnaffected

\* Dropping a preparation touches neither.
LEMMA DropTokenPending ==
    ASSUME NEW r, NEW p, MapsTyped(r), PendingIndexed(r)
    PROVE  PendingIndexed(DropToken(r, p))
<1> DEFINE base == [r EXCEPT !.prepared_feedback_tokens =
                        without_keys(@, {<<p.key, p.feedback_id>>})]
<1>1. /\ MapsTyped(base)
      /\ base.issued_records = r.issued_records
      /\ base.pending_request_by_state = r.pending_request_by_state
  BY WithoutKeysIsMap DEF MapsTyped, EmptyRoot
<1> HIDE DEF base
<1>2. PendingIndexed(without_unpinned_revisions(base))
  BY <1>1, UnpinnedFields, PendingUnaffected
<1> QED
  BY <1>2 DEF DropToken, base

\* reserve_reply keeps the pending index exact, refused or not.
LEMMA ReservePending ==
    ASSUME RecordsTyped, PendingIndexExact, NEW s \in Submissions, ReserveReply(s)
    PROVE  PendingIndexed(root')
<1> DEFINE cleaned == cleanup_candidate(root, mono, wall)
<1>1. MapsTyped(cleaned) /\ PendingIndexed(cleaned) /\ Reservable(cleaned, s)
  BY CleanupTyped, CleanupPending DEF RecordsTyped, PendingIndexExact, ReserveReply
<1>2. PICK V \in IssuedEvictions(cleaned) :
        LET evicted == without_unpinned_revisions(DropIssued(cleaned, V)) IN
        \E owner, revision :
            \/ root' = evicted
            \/ root' = reserve_reply_candidate(evicted, s, owner, revision)
  BY DEF ReserveReply
<1>3. V \cap Pending(cleaned) = {}
  BY DEF IssuedEvictions, IssuedVictims, Complete, Pending
<1> HIDE DEF cleaned
<1> QED
  BY <1>1, <1>2, <1>3, ReserveCandidatePending

\* prepare_feedback keeps it exact.
LEMMA PreparePending ==
    ASSUME RecordsTyped, PendingIndexExact, NEW k, NEW f, NEW hash,
           PrepareFeedback(k, f, hash)
    PROVE  PendingIndexed(root')
<1> DEFINE cleaned == cleanup_candidate(root, mono, wall)
<1>1. MapsTyped(cleaned) /\ PendingIndexed(cleaned)
  BY CleanupTyped, CleanupPending DEF RecordsTyped, PendingIndexExact
<1>2. \E tokens : root' = [cleaned EXCEPT !.prepared_feedback_tokens = tokens]
  BY DEF PrepareFeedback
<1> HIDE DEF cleaned
<1>3. /\ root'.issued_records = cleaned.issued_records
      /\ root'.pending_request_by_state = cleaned.pending_request_by_state
  BY <1>1, <1>2 DEF MapsTyped, EmptyRoot
<1> QED
  BY <1>1, <1>3, PendingUnaffected

\* One turn per conversation, whatever the clocks, the capacities and the
\* callers do: the pending index and the pending records never disagree.
THEOREM OneTurnPerConversation == Spec => []PendingIndexExact
<1>1. Init => PendingIndexExact
  BY DEF Init, PendingIndexExact, PendingIndexed, Pending, EmptyRoot, EmptyMap
<1>2. RecordsTyped /\ PendingIndexExact /\ [Next]_vars => PendingIndexExact'
  <2> SUFFICES ASSUME RecordsTyped, PendingIndexExact, [Next]_vars
               PROVE  PendingIndexed(root')
    BY DEF PendingIndexExact
  <2>1. CASE \E s \in Submissions : ReserveReply(s)
    BY <2>1, ReservePending
  <2>2. CASE \E h \in held : AbortReply(h)
    BY <2>2, AbortPending DEF AbortReply, RecordsTyped, PendingIndexExact
  <2>3. CASE \E h \in held, reply \in Replies, scope \in Scopes :
                CommitReply(h, reply, scope)
    <3>1. PICK h \in held, reply \in Replies, scope \in Scopes :
                CommitReply(h, reply, scope)
      BY <2>3
    <3>2. PICK response, A, V :
            /\ response \in Drawn(FreshResponses)
            /\ root' = DropSessions(
                        commit_reply_candidate(root, h, reply, response, scope, A), V)
      BY <3>1 DEF CommitReply
    <3>3. MapsTyped(commit_reply_candidate(root, h, reply, response, scope, A))
      BY <3>1, <3>2, DrawnIn, CommitCandidateTyped DEF CommitReply, FreshResponses
    <3> QED
      BY <3>1, <3>2, <3>3, CommitPending DEF CommitReply
  <2>4. CASE \E k \in Keys, f \in FeedbackIds, q \in Requests, response \in Responses,
                body \in Bodies :
                LET hash == [request_id |-> q, response_id |-> response, body |-> body] IN
                PrepareFeedback(k, f, hash) \/ ReusePreparation(k, f, hash)
    <3>1. PICK k, f, hash : PrepareFeedback(k, f, hash) \/ ReusePreparation(k, f, hash)
      BY <2>4
    <3> QED
      BY <3>1, PreparePending, CleanupPending
      DEF ReusePreparation, RecordsTyped, PendingIndexExact
  <2>5. CASE \E p \in prepared : CommitFeedback(p) \/ RefuseFeedback(p)
    BY <2>5, FeedbackPending, DropTokenPending
    DEF RefuseFeedback, RecordsTyped, PendingIndexExact
  <2>6. CASE Cleanup
    BY <2>6, CleanupPending DEF Cleanup, RecordsTyped, PendingIndexExact
  <2>7. CASE Tick \/ WallStep \/ UNCHANGED vars
    BY <2>7 DEF Tick, WallStep, vars, PendingIndexExact
  <2> QED
    BY <2>1, <2>2, <2>3, <2>4, <2>5, <2>6, <2>7 DEF Next
<1> QED
  BY <1>1, <1>2, RecordsStayTyped, PTL DEF Spec

-----------------------------------------------------------------------------
(* A revision for every conversation that is remembered, and for no other. *)

\* Every pinned conversation has a revision.
Covered(r) == PinnedKeys(r) \subseteq DOMAIN r.state_revisions

\* A root that remembers nothing new, but for conversation k, pins nothing new.
LEMMA PinnedWithin ==
    ASSUME NEW r, NEW q, NEW K,
           DOMAIN q.conversation_turns \subseteq DOMAIN r.conversation_turns \cup K,
           DOMAIN q.clarification_records \subseteq DOMAIN r.clarification_records \cup K,
           \A x \in DOMAIN q.issued_records : x \in DOMAIN r.issued_records \/ x[1] \in K,
           \A x \in DOMAIN q.feedback_receipts :
                x \in DOMAIN r.feedback_receipts \/ x[1] \in K,
           \A x \in DOMAIN q.prepared_feedback_tokens :
                x \in DOMAIN r.prepared_feedback_tokens \/ x[1] \in K,
           \A x \in DOMAIN q.action_ledger_records :
                x \in DOMAIN r.action_ledger_records \/ x[1] \in K,
           \A x \in DOMAIN q.audit_records : x \in DOMAIN r.audit_records \/ x[1] \in K
    PROVE  PinnedKeys(q) \subseteq PinnedKeys(r) \cup K
BY DEF PinnedKeys

\* Removing records unpins conversations and never pins one.
LEMMA PinnedShrinks ==
    ASSUME NEW r, NEW q,
           DOMAIN q.conversation_turns \subseteq DOMAIN r.conversation_turns,
           DOMAIN q.clarification_records \subseteq DOMAIN r.clarification_records,
           DOMAIN q.issued_records \subseteq DOMAIN r.issued_records,
           DOMAIN q.feedback_receipts \subseteq DOMAIN r.feedback_receipts,
           DOMAIN q.prepared_feedback_tokens \subseteq DOMAIN r.prepared_feedback_tokens,
           DOMAIN q.action_ledger_records \subseteq DOMAIN r.action_ledger_records,
           DOMAIN q.audit_records \subseteq DOMAIN r.audit_records
    PROVE  PinnedKeys(q) \subseteq PinnedKeys(r)
BY DEF PinnedKeys

\* When every pinned conversation has a revision, pruning makes the revisions exact.
LEMMA UnpinnedExact ==
    ASSUME NEW r, MapsTyped(r), Covered(r)
    PROVE  RevisionsPinned(without_unpinned_revisions(r))
BY UnpinnedFields DEF Covered, RevisionsPinned

\* Cleanup pins no conversation that was not pinned before.
LEMMA CleanupCovered ==
    ASSUME NEW r, NEW now, NEW w, MapsTyped(r), Covered(r)
    PROVE  Covered(without_expired(r, now, w))
BY DEF MapsTyped, EmptyRoot, Covered, PinnedKeys, without_expired, DropIssued, without_keys

\* Cleanup keeps the revisions exact.
LEMMA CleanupExact ==
    ASSUME NEW r, NEW now, NEW w, MapsTyped(r), RevisionsPinned(r)
    PROVE  RevisionsPinned(cleanup_candidate(r, now, w))
<1>1. Covered(r)
  BY DEF Covered, RevisionsPinned
<1> QED
  BY <1>1, CleanupCovered, WithoutExpiredTyped, UnpinnedExact DEF cleanup_candidate

\* Evicting an issued record keeps them exact.
LEMMA EvictExact ==
    ASSUME NEW r, NEW V, MapsTyped(r), RevisionsPinned(r)
    PROVE  RevisionsPinned(without_unpinned_revisions(DropIssued(r, V)))
<1>1. Covered(DropIssued(r, V))
  BY DEF MapsTyped, EmptyRoot, Covered, RevisionsPinned, PinnedKeys, DropIssued, without_keys
<1> QED
  BY <1>1, DropIssuedTyped, UnpinnedExact

\* A reservation adds its conversation to the pinned ones and to the revisions.
LEMMA ReserveExact ==
    ASSUME NEW r, MapsTyped(r), RevisionsPinned(r), NEW s, NEW owner, NEW revision
    PROVE  RevisionsPinned(reserve_reply_candidate(r, s, owner, revision))
<1> DEFINE q == reserve_reply_candidate(r, s, owner, revision)
           key == <<s.key, s.request_id>>
<1>1. /\ DOMAIN q.issued_records = DOMAIN r.issued_records \cup {key}
      /\ DOMAIN q.state_revisions = DOMAIN r.state_revisions \cup {s.key}
      /\ q.conversation_turns = r.conversation_turns
      /\ q.clarification_records = r.clarification_records
      /\ q.feedback_receipts = r.feedback_receipts
      /\ q.prepared_feedback_tokens = r.prepared_feedback_tokens
      /\ q.action_ledger_records = r.action_ledger_records
      /\ q.audit_records = r.audit_records
  BY DEF MapsTyped, EmptyRoot, reserve_reply_candidate, with_updates, Single
<1> HIDE DEF q
<1>2. PinnedKeys(q) \subseteq PinnedKeys(r) \cup {s.key}
  <2>1. \A x \in DOMAIN q.issued_records : x \in DOMAIN r.issued_records \/ x[1] \in {s.key}
    BY <1>1
  <2> QED BY <1>1, <2>1, PinnedWithin
<1>3. PinnedKeys(r) \subseteq PinnedKeys(q)
  BY <1>1, PinnedShrinks
<1>4. s.key \in PinnedKeys(q)
  <2>1. key \in DOMAIN q.issued_records /\ key[1] = s.key
    BY <1>1
  <2> QED BY <2>1 DEF PinnedKeys
<1> QED
  BY <1>1, <1>2, <1>3, <1>4 DEF RevisionsPinned, q

\* An abort keeps them exact.
LEMMA AbortExact ==
    ASSUME NEW r, NEW h, MapsTyped(r), RevisionsPinned(r)
    PROVE  RevisionsPinned(abort_reply_candidate(r, h))
<1> DEFINE base == [r EXCEPT
               !.issued_records = without_keys(@, {<<h.key, h.request_id>>}),
               !.pending_request_by_state = without_keys(@, {h.key})]
<1>1. MapsTyped(base)
  BY WithoutKeysIsMap DEF MapsTyped, EmptyRoot
<1>2. /\ DOMAIN base.issued_records \subseteq DOMAIN r.issued_records
      /\ DOMAIN base.prepared_feedback_tokens \subseteq DOMAIN r.prepared_feedback_tokens
      /\ base.state_revisions = r.state_revisions
      /\ base.conversation_turns = r.conversation_turns
      /\ base.clarification_records = r.clarification_records
      /\ base.feedback_receipts = r.feedback_receipts
      /\ base.action_ledger_records = r.action_ledger_records
      /\ base.audit_records = r.audit_records
  BY DEF MapsTyped, EmptyRoot, without_keys
<1>3. Covered(base)
  BY <1>2, PinnedShrinks DEF Covered, RevisionsPinned
<1> HIDE DEF base
<1>4. RevisionsPinned(without_unpinned_revisions(base))
  BY <1>1, <1>3, UnpinnedExact
<1> QED
  BY <1>4 DEF abort_reply_candidate, base

\* Dropping a preparation keeps them exact.
LEMMA DropTokenExact ==
    ASSUME NEW r, NEW p, MapsTyped(r), RevisionsPinned(r)
    PROVE  RevisionsPinned(DropToken(r, p))
<1> DEFINE base == [r EXCEPT !.prepared_feedback_tokens =
                        without_keys(@, {<<p.key, p.feedback_id>>})]
<1>1. MapsTyped(base)
  BY WithoutKeysIsMap DEF MapsTyped, EmptyRoot
<1>2. /\ DOMAIN base.issued_records \subseteq DOMAIN r.issued_records
      /\ DOMAIN base.prepared_feedback_tokens \subseteq DOMAIN r.prepared_feedback_tokens
      /\ base.state_revisions = r.state_revisions
      /\ base.conversation_turns = r.conversation_turns
      /\ base.clarification_records = r.clarification_records
      /\ base.feedback_receipts = r.feedback_receipts
      /\ base.action_ledger_records = r.action_ledger_records
      /\ base.audit_records = r.audit_records
  BY DEF MapsTyped, EmptyRoot, without_keys
<1>3. Covered(base)
  BY <1>2, PinnedShrinks DEF Covered, RevisionsPinned
<1> HIDE DEF base
<1>4. RevisionsPinned(without_unpinned_revisions(base))
  BY <1>1, <1>3, UnpinnedExact
<1> QED
  BY <1>4 DEF DropToken, base

\* reserve_reply keeps them exact, refused or not.
LEMMA ReserveReplyExact ==
    ASSUME RecordsTyped, RevisionsExact, NEW s \in Submissions, ReserveReply(s)
    PROVE  RevisionsPinned(root')
<1> DEFINE cleaned == cleanup_candidate(root, mono, wall)
           evicted(V) == without_unpinned_revisions(DropIssued(cleaned, V))
<1>1. MapsTyped(cleaned) /\ RevisionsPinned(cleaned)
  BY CleanupTyped, CleanupExact DEF RecordsTyped, RevisionsExact
<1>2. PICK V, owner, revision :
        \/ root' = evicted(V)
        \/ root' = reserve_reply_candidate(evicted(V), s, owner, revision)
  BY DEF ReserveReply
<1> HIDE DEF cleaned
<1>3. MapsTyped(evicted(V)) /\ RevisionsPinned(evicted(V))
  BY <1>1, DropIssuedTyped, UnpinnedTyped, EvictExact
<1> QED
  BY <1>2, <1>3, ReserveExact

\* prepare_feedback keeps them exact.
LEMMA PrepareExact ==
    ASSUME RecordsTyped, RevisionsExact, NEW k, NEW f, NEW hash, PrepareFeedback(k, f, hash)
    PROVE  RevisionsPinned(root')
<1> DEFINE cleaned == cleanup_candidate(root, mono, wall)
<1>1. MapsTyped(cleaned) /\ RevisionsPinned(cleaned) /\ k \in DOMAIN cleaned.state_revisions
  BY CleanupTyped, CleanupExact DEF RecordsTyped, RevisionsExact, PrepareFeedback
<1>2. PICK p : root' = [cleaned EXCEPT !.prepared_feedback_tokens =
                            with_updates(@, Single(<<k, f>>, p))]
  BY DEF PrepareFeedback
<1> HIDE DEF cleaned
<1>3. /\ DOMAIN root'.prepared_feedback_tokens =
            DOMAIN cleaned.prepared_feedback_tokens \cup {<<k, f>>}
      /\ root'.issued_records = cleaned.issued_records
      /\ root'.state_revisions = cleaned.state_revisions
      /\ root'.conversation_turns = cleaned.conversation_turns
      /\ root'.clarification_records = cleaned.clarification_records
      /\ root'.feedback_receipts = cleaned.feedback_receipts
      /\ root'.action_ledger_records = cleaned.action_ledger_records
      /\ root'.audit_records = cleaned.audit_records
  BY <1>1, <1>2 DEF MapsTyped, EmptyRoot, with_updates, Single
<1>4. PinnedKeys(root') \subseteq PinnedKeys(cleaned) \cup {k}
  <2>1. \A x \in DOMAIN root'.prepared_feedback_tokens :
            x \in DOMAIN cleaned.prepared_feedback_tokens \/ x[1] \in {k}
    BY <1>3
  <2> QED BY <1>3, <2>1, PinnedWithin
<1>5. PinnedKeys(cleaned) \subseteq PinnedKeys(root')
  BY <1>3, PinnedShrinks
<1> QED
  BY <1>1, <1>3, <1>4, <1>5 DEF RevisionsPinned

\* commit_reply keeps them exact.
LEMMA CommitExact ==
    ASSUME RecordsTyped, RevisionsExact, NEW h \in held, AtRevision(root, h.key, h.revision),
           NEW reply, NEW response, NEW scope, NEW A, NEW V,
           MapsTyped(commit_reply_candidate(root, h, reply, response, scope, A))
    PROVE  RevisionsPinned(DropSessions(
               commit_reply_candidate(root, h, reply, response, scope, A), V))
<1> DEFINE candidate == commit_reply_candidate(root, h, reply, response, scope, A)
           kept == [candidate EXCEPT
                      !.conversation_turns = without_keys(candidate.conversation_turns, V),
                      !.clarification_records =
                          without_keys(candidate.clarification_records, V)]
<1>1. h.key \in DOMAIN root.state_revisions
  BY DEF AtRevision
<1>2. /\ DOMAIN candidate.issued_records =
            DOMAIN root.issued_records \cup {<<h.key, h.request_id>>}
      /\ DOMAIN candidate.state_revisions = DOMAIN root.state_revisions \cup {h.key}
      /\ DOMAIN candidate.conversation_turns = DOMAIN root.conversation_turns \cup {h.key}
      /\ DOMAIN candidate.clarification_records
            \subseteq DOMAIN root.clarification_records \cup {h.key}
      /\ DOMAIN candidate.audit_records
            \subseteq DOMAIN root.audit_records \cup {<<h.key, response>>}
      /\ candidate.feedback_receipts = root.feedback_receipts
      /\ candidate.prepared_feedback_tokens = root.prepared_feedback_tokens
      /\ candidate.action_ledger_records = root.action_ledger_records
  BY DEF RecordsTyped, MapsTyped, EmptyRoot, commit_reply_candidate, with_updates,
     without_keys, Single
<1> HIDE DEF candidate
<1>3. PinnedKeys(candidate) \subseteq PinnedKeys(root) \cup {h.key}
  <2>1. /\ \A x \in DOMAIN candidate.issued_records :
                x \in DOMAIN root.issued_records \/ x[1] \in {h.key}
        /\ \A x \in DOMAIN candidate.audit_records :
                x \in DOMAIN root.audit_records \/ x[1] \in {h.key}
    BY <1>2
  <2> QED BY <1>2, <2>1, PinnedWithin
<1>4. Covered(candidate)
  BY <1>1, <1>2, <1>3 DEF RevisionsExact, RevisionsPinned, Covered
<1>5. MapsTyped(kept)
  BY WithoutKeysIsMap DEF MapsTyped, EmptyRoot, without_keys, candidate
<1>6. /\ DOMAIN kept.conversation_turns \subseteq DOMAIN candidate.conversation_turns
      /\ DOMAIN kept.clarification_records \subseteq DOMAIN candidate.clarification_records
      /\ kept.issued_records = candidate.issued_records
      /\ kept.state_revisions = candidate.state_revisions
      /\ kept.feedback_receipts = candidate.feedback_receipts
      /\ kept.prepared_feedback_tokens = candidate.prepared_feedback_tokens
      /\ kept.action_ledger_records = candidate.action_ledger_records
      /\ kept.audit_records = candidate.audit_records
  BY DEF MapsTyped, EmptyRoot, without_keys, candidate
<1>7. Covered(kept)
  BY <1>4, <1>6, PinnedShrinks DEF Covered
<1> HIDE DEF kept
<1>8. RevisionsPinned(without_unpinned_revisions(kept))
  BY <1>5, <1>7, UnpinnedExact
<1> QED
  BY <1>8 DEF DropSessions, kept, candidate

\* commit_feedback keeps them exact.
LEMMA FeedbackExact ==
    ASSUME RecordsTyped, RevisionsExact, NEW p \in prepared, CommitFeedback(p)
    PROVE  RevisionsPinned(root')
<1> DEFINE candidate == commit_feedback_candidate(root, p)
           key == <<p.key, p.hash.request_id>>
           ledger == derive_ledger_updates(root, p, root.issued_records[key])
<1>1. MapsTyped(candidate) /\ p.key \in DOMAIN root.state_revisions
  BY CommitFeedbackCandidateTyped DEF CommitFeedback, StillCurrent, AtRevision
<1>2. \A x \in DOMAIN ledger : x[1] = p.key
  BY DEF derive_ledger_updates
<1> HIDE DEF ledger
<1>3. /\ DOMAIN candidate.issued_records = DOMAIN root.issued_records \cup {key}
      /\ DOMAIN candidate.feedback_receipts =
            DOMAIN root.feedback_receipts \cup {<<p.key, p.feedback_id>>}
      /\ DOMAIN candidate.prepared_feedback_tokens
            \subseteq DOMAIN root.prepared_feedback_tokens
      /\ DOMAIN candidate.state_revisions = DOMAIN root.state_revisions \cup {p.key}
      /\ DOMAIN candidate.action_ledger_records =
            DOMAIN root.action_ledger_records \cup DOMAIN ledger
      /\ candidate.conversation_turns = root.conversation_turns
      /\ candidate.clarification_records = root.clarification_records
      /\ candidate.audit_records = root.audit_records
  BY DEF RecordsTyped, MapsTyped, EmptyRoot, commit_feedback_candidate, with_updates,
     without_keys, Single, ledger
<1> HIDE DEF candidate
<1>4. Covered(candidate)
  <2>1. /\ \A x \in DOMAIN candidate.issued_records :
                x \in DOMAIN root.issued_records \/ x[1] \in {p.key}
        /\ \A x \in DOMAIN candidate.feedback_receipts :
                x \in DOMAIN root.feedback_receipts \/ x[1] \in {p.key}
        /\ \A x \in DOMAIN candidate.action_ledger_records :
                x \in DOMAIN root.action_ledger_records \/ x[1] \in {p.key}
    BY <1>2, <1>3
  <2>2. PinnedKeys(candidate) \subseteq PinnedKeys(root) \cup {p.key}
    BY <1>3, <2>1, PinnedWithin
  <2> QED
    BY <1>1, <1>3, <2>2 DEF RevisionsExact, RevisionsPinned, Covered
<1>5. PICK V : root' = without_unpinned_revisions(
           [candidate EXCEPT !.action_ledger_records = without_keys(@, V)])
  BY DEF CommitFeedback, candidate
<1> DEFINE kept == [candidate EXCEPT !.action_ledger_records = without_keys(@, V)]
<1>6. MapsTyped(kept)
  BY <1>1, WithoutKeysIsMap DEF MapsTyped, EmptyRoot
<1>7. /\ DOMAIN kept.action_ledger_records \subseteq DOMAIN candidate.action_ledger_records
      /\ kept.issued_records = candidate.issued_records
      /\ kept.state_revisions = candidate.state_revisions
      /\ kept.conversation_turns = candidate.conversation_turns
      /\ kept.clarification_records = candidate.clarification_records
      /\ kept.feedback_receipts = candidate.feedback_receipts
      /\ kept.prepared_feedback_tokens = candidate.prepared_feedback_tokens
      /\ kept.audit_records = candidate.audit_records
  BY <1>1 DEF MapsTyped, EmptyRoot, without_keys
<1>8. Covered(kept)
  BY <1>4, <1>7, PinnedShrinks DEF Covered
<1> HIDE DEF kept
<1>9. root' = without_unpinned_revisions(kept)
  BY <1>5 DEF kept
<1> QED
  BY <1>6, <1>8, <1>9, UnpinnedExact

\* Whatever is remembered of a conversation can be checked against its revision,
\* and a conversation nothing is remembered of has none: the revision store is
\* exact after every operation, at every capacity.
THEOREM RevisionsStayExact == Spec => []RevisionsExact
<1>1. Init => RevisionsExact
  BY DEF Init, RevisionsExact, RevisionsPinned, PinnedKeys, EmptyRoot, EmptyMap
<1>2. RecordsTyped /\ RevisionsExact /\ [Next]_vars => RevisionsExact'
  <2> SUFFICES ASSUME RecordsTyped, RevisionsExact, [Next]_vars
               PROVE  RevisionsPinned(root')
    BY DEF RevisionsExact
  <2>1. CASE \E s \in Submissions : ReserveReply(s)
    BY <2>1, ReserveReplyExact
  <2>2. CASE \E h \in held : AbortReply(h)
    BY <2>2, AbortExact DEF AbortReply, RecordsTyped, RevisionsExact
  <2>3. CASE \E h \in held, reply \in Replies, scope \in Scopes :
                CommitReply(h, reply, scope)
    <3>1. PICK h \in held, reply \in Replies, scope \in Scopes :
                CommitReply(h, reply, scope)
      BY <2>3
    <3>2. PICK response, A, V :
            /\ response \in Drawn(FreshResponses)
            /\ root' = DropSessions(
                        commit_reply_candidate(root, h, reply, response, scope, A), V)
      BY <3>1 DEF CommitReply
    <3>3. MapsTyped(commit_reply_candidate(root, h, reply, response, scope, A))
      BY <3>1, <3>2, DrawnIn, CommitCandidateTyped DEF CommitReply, FreshResponses
    <3> QED
      BY <3>1, <3>2, <3>3, CommitExact DEF CommitReply
  <2>4. CASE \E k \in Keys, f \in FeedbackIds, q \in Requests, response \in Responses,
                body \in Bodies :
                LET hash == [request_id |-> q, response_id |-> response, body |-> body] IN
                PrepareFeedback(k, f, hash) \/ ReusePreparation(k, f, hash)
    <3>1. PICK k, f, hash : PrepareFeedback(k, f, hash) \/ ReusePreparation(k, f, hash)
      BY <2>4
    <3> QED
      BY <3>1, PrepareExact, CleanupExact DEF ReusePreparation, RecordsTyped, RevisionsExact
  <2>5. CASE \E p \in prepared : CommitFeedback(p) \/ RefuseFeedback(p)
    BY <2>5, FeedbackExact, DropTokenExact DEF RefuseFeedback, RecordsTyped, RevisionsExact
  <2>6. CASE Cleanup
    BY <2>6, CleanupExact DEF Cleanup, RecordsTyped, RevisionsExact
  <2>7. CASE Tick \/ WallStep \/ UNCHANGED vars
    BY <2>7 DEF Tick, WallStep, vars, RevisionsExact
  <2> QED
    BY <2>1, <2>2, <2>3, <2>4, <2>5, <2>6, <2>7 DEF Next
<1> QED
  BY <1>1, <1>2, RecordsStayTyped, PTL DEF Spec

-----------------------------------------------------------------------------
(* Capacities. *)

\* At most n of them.
Within(S, n) == IsFiniteSet(S) /\ Cardinality(S) <= n

\* The inductive form of CapacitiesHold but for the histories' lengths: the maps
\* are finite as well.
Fits(r) ==
    /\ Within(DOMAIN r.issued_records, IssuedCapacity)
    /\ Within(Sessions(r), SessionCapacity)
    /\ Within(DOMAIN r.audit_records, SessionCapacity)
    /\ Within(DOMAIN r.feedback_receipts, ReceiptCapacity)
    /\ Within(DOMAIN r.prepared_feedback_tokens, IssuedCapacity)
    /\ Within(DOMAIN r.action_ledger_records, LedgerCapacity)
    /\ Within(DOMAIN r.state_revisions, StateRevisionCapacity)

\* q has nothing under a key r has nothing under.
Fewer(r, q) ==
    /\ DOMAIN q.issued_records \subseteq DOMAIN r.issued_records
    /\ Sessions(q) \subseteq Sessions(r)
    /\ DOMAIN q.audit_records \subseteq DOMAIN r.audit_records
    /\ DOMAIN q.feedback_receipts \subseteq DOMAIN r.feedback_receipts
    /\ DOMAIN q.prepared_feedback_tokens \subseteq DOMAIN r.prepared_feedback_tokens
    /\ DOMAIN q.action_ledger_records \subseteq DOMAIN r.action_ledger_records
    /\ DOMAIN q.state_revisions \subseteq DOMAIN r.state_revisions

\* A part of what fits fits.
LEMMA WithinPart ==
    ASSUME NEW S, NEW n \in Nat, Within(S, n), NEW T, T \subseteq S
    PROVE  Within(T, n)
<1>1. IsFiniteSet(S) /\ T \in SUBSET S /\ IsFiniteSet(T)
  BY FS_Subset DEF Within
<1>2. Cardinality(T) <= Cardinality(S)
  BY <1>1, FS_Subset
<1>3. Cardinality(T) \in Nat /\ Cardinality(S) \in Nat
  BY <1>1, FS_CardinalityType
<1> QED BY <1>1, <1>2, <1>3 DEF Within

\* There is room for one more.
LEMMA WithinOneMore ==
    ASSUME NEW S, NEW n \in Nat, IsFiniteSet(S), Cardinality(S) < n, NEW x
    PROVE  Within(S \cup {x}, n)
<1>1. /\ IsFiniteSet(S \cup {x})
      /\ Cardinality(S \cup {x}) = IF x \in S THEN Cardinality(S) ELSE Cardinality(S) + 1
  BY FS_AddElement
<1>2. Cardinality(S) \in Nat
  BY FS_CardinalityType
<1> QED BY <1>1, <1>2 DEF Within

\* One less leaves room for one more.
LEMMA WithinOneLess ==
    ASSUME NEW S, NEW n \in Nat, Within(S, n), NEW x \in S
    PROVE  IsFiniteSet(S \ {x}) /\ Cardinality(S \ {x}) < n
<1>1. IsFiniteSet(S \ {x}) /\ Cardinality(S \ {x}) = Cardinality(S) - 1
  BY FS_RemoveElement DEF Within
<1>2. Cardinality(S) \in Nat
  BY FS_CardinalityType DEF Within
<1> QED BY <1>1, <1>2 DEF Within

\* Removing the excess leaves what fits.
LEMMA WithinWithoutExcess ==
    ASSUME NEW S, NEW n \in Nat, IsFiniteSet(S), NEW V \in SUBSET S,
           Cardinality(V) = IF Cardinality(S) > n THEN Cardinality(S) - n ELSE 0
    PROVE  Within(S \ V, n)
<1>1. /\ IsFiniteSet(V) /\ IsFiniteSet(S \ V)
      /\ Cardinality(S) \in Nat /\ Cardinality(V) \in Nat /\ Cardinality(S \ V) \in Nat
  BY FS_Subset, FS_CardinalityType
<1>2. Cardinality(S \ V) = Cardinality(S) - Cardinality(V)
  <2>1. S \cap V = V
    OBVIOUS
  <2>2. Cardinality(S \ V) = Cardinality(S) - Cardinality(S \cap V)
    BY <1>1, FS_Difference
  <2> QED BY <2>1, <2>2, Zenon
<1> QED BY <1>1, <1>2 DEF Within

\* The capacities are numbers.
LEMMA CapacitiesAreNumbers ==
    /\ IssuedCapacity \in Nat /\ SessionCapacity \in Nat
    /\ ReceiptCapacity \in Nat /\ LedgerCapacity \in Nat
    /\ StateRevisionCapacity \in Nat
BY ConfigAssumption DEF StateRevisionCapacity

\* A root with fewer records fits.
LEMMA FewerFits ==
    ASSUME NEW r, Fits(r), NEW q, Fewer(r, q)
    PROVE  Fits(q)
BY WithinPart, CapacitiesAreNumbers DEF Fits, Fewer

\* Removing in two steps is removing.
LEMMA FewerTransitive ==
    ASSUME NEW r, NEW q, NEW s, Fewer(r, q), Fewer(q, s)
    PROVE  Fewer(r, s)
BY DEF Fewer

\* Pruning revisions only removes.
LEMMA UnpinnedFewer ==
    ASSUME NEW r, MapsTyped(r) PROVE Fewer(r, without_unpinned_revisions(r))
BY DEF MapsTyped, EmptyRoot, without_unpinned_revisions, without_keys, Fewer, Sessions

\* So does evicting issued records,
LEMMA DropIssuedFewer ==
    ASSUME NEW r, NEW S, MapsTyped(r) PROVE Fewer(r, DropIssued(r, S))
BY DEF MapsTyped, EmptyRoot, DropIssued, without_keys, Fewer, Sessions

\* a cleanup,
LEMMA CleanupFewer ==
    ASSUME NEW r, NEW now, NEW w, MapsTyped(r)
    PROVE  Fewer(r, cleanup_candidate(r, now, w))
<1>1. Fewer(r, without_expired(r, now, w))
  BY DEF MapsTyped, EmptyRoot, without_expired, DropIssued, without_keys, Fewer, Sessions
<1> QED BY <1>1, WithoutExpiredTyped, UnpinnedFewer, FewerTransitive DEF cleanup_candidate

\* an abort,
LEMMA AbortFewer ==
    ASSUME NEW r, NEW h, MapsTyped(r) PROVE Fewer(r, abort_reply_candidate(r, h))
BY DEF MapsTyped, EmptyRoot, abort_reply_candidate, without_unpinned_revisions,
       without_keys, Fewer, Sessions

\* and dropping a preparation.
LEMMA DropTokenFewer ==
    ASSUME NEW r, NEW p, MapsTyped(r) PROVE Fewer(r, DropToken(r, p))
BY DEF MapsTyped, EmptyRoot, DropToken, without_unpinned_revisions, without_keys, Fewer,
       Sessions

\* A reservation has room: a full store has evicted an answer or refused.
LEMMA ReserveFits ==
    ASSUME RecordsTyped, RevisionsExact, Fits(root), NEW s \in Submissions, ReserveReply(s)
    PROVE  Fits(root')
<1> DEFINE cleaned == cleanup_candidate(root, mono, wall)
           evicted(V) == without_unpinned_revisions(DropIssued(cleaned, V))
<1>1. MapsTyped(cleaned) /\ Fits(cleaned) /\ RevisionsPinned(cleaned)
  BY CleanupTyped, CleanupFewer, FewerFits, CleanupExact DEF RecordsTyped, RevisionsExact
<1>2a. PICK V \in IssuedEvictions(cleaned) : \E owner, revision :
        \/ root' = evicted(V)
        \/ /\ root' = reserve_reply_candidate(evicted(V), s, owner, revision)
           /\ Publishable(root')
  BY DEF ReserveReply
<1>2. PICK owner, revision :
        \/ root' = evicted(V)
        \/ /\ root' = reserve_reply_candidate(evicted(V), s, owner, revision)
           /\ Publishable(root')
  BY <1>2a
<1> HIDE DEF cleaned
<1> DEFINE e == evicted(V)
           d == DropIssued(cleaned, V)
<1>3. MapsTyped(d) /\ Fewer(cleaned, d)
  BY <1>1, DropIssuedTyped, DropIssuedFewer
<1>4. MapsTyped(e) /\ Fewer(d, e) /\ RevisionsPinned(e) /\ e.issued_records = d.issued_records
  BY <1>1, <1>3, UnpinnedTyped, UnpinnedFewer, UnpinnedFields, EvictExact
<1>5. Fits(e)
  BY <1>1, <1>3, <1>4, FewerTransitive, FewerFits
<1>6. IsFiniteSet(DOMAIN e.issued_records) /\ Cardinality(DOMAIN e.issued_records) < IssuedCapacity
  <2> DEFINE D == DOMAIN cleaned.issued_records
  <2>1. DOMAIN e.issued_records = D \ V
    BY <1>1, <1>4 DEF MapsTyped, EmptyRoot, DropIssued, without_keys
  <2>2. Within(D, IssuedCapacity) /\ IssuedCapacity \in Nat
    BY <1>1, CapacitiesAreNumbers DEF Fits
  <2>3. CASE Cardinality(D) < IssuedCapacity /\ V = {}
    BY <2>1, <2>2, <2>3 DEF Within
  <2>4. CASE \E x \in D : V = {x}
    BY <2>1, <2>2, <2>4, WithinOneLess
  <2> QED
    BY <1>2, <2>3, <2>4 DEF IssuedEvictions, IssuedVictims, Complete
<1> HIDE DEF d, e
<1>7. CASE root' = e
  BY <1>5, <1>7
<1>8. CASE root' = reserve_reply_candidate(e, s, owner, revision) /\ Publishable(root')
  <2>1. /\ DOMAIN root'.issued_records =
                DOMAIN e.issued_records \cup {<<s.key, s.request_id>>}
        /\ DOMAIN root'.state_revisions = DOMAIN e.state_revisions \cup {s.key}
        /\ Sessions(root') = Sessions(e)
        /\ root'.audit_records = e.audit_records
        /\ root'.feedback_receipts = e.feedback_receipts
        /\ root'.prepared_feedback_tokens = e.prepared_feedback_tokens
        /\ root'.action_ledger_records = e.action_ledger_records
    BY <1>4, <1>8 DEF MapsTyped, EmptyRoot, reserve_reply_candidate, with_updates, Single,
       Sessions
  <2>2. Within(DOMAIN root'.issued_records, IssuedCapacity)
    <3>1. Within(DOMAIN e.issued_records \cup {<<s.key, s.request_id>>}, IssuedCapacity)
      BY <1>6, WithinOneMore, CapacitiesAreNumbers
    <3> QED BY <2>1, <3>1
  <2>3. RevisionsPinned(root')
    BY <1>4, <1>8, ReserveExact
  <2>4. Cardinality(DOMAIN root'.state_revisions) <= StateRevisionCapacity
    <3>1. DOMAIN root'.state_revisions \cap PinnedKeys(root') = DOMAIN root'.state_revisions
      BY <2>3 DEF RevisionsPinned
    <3> QED BY <1>8, <3>1 DEF Publishable
  <2>5. IsFiniteSet(DOMAIN root'.state_revisions)
    <3>1. IsFiniteSet(DOMAIN e.state_revisions)
      BY <1>5 DEF Fits, Within
    <3>2. IsFiniteSet(DOMAIN e.state_revisions \cup {s.key})
      BY <3>1, FS_AddElement
    <3> QED BY <2>1, <3>2
  <2> QED BY <1>5, <2>1, <2>2, <2>4, <2>5 DEF Fits, Within
<1> QED BY <1>2, <1>7, <1>8 DEF e

\* A commit adds a session and an audit row, and removes what is too many of either.
LEMMA CommitFits ==
    ASSUME RecordsTyped, Fits(root), NEW h \in held, NEW reply, NEW scope,
           CommitReply(h, reply, scope),
           NEW response, NEW A \in AuditVictims(root),
           MapsTyped(commit_reply_candidate(root, h, reply, response, scope, A)),
           NEW V \in SessionVictims(commit_reply_candidate(root, h, reply, response, scope, A)),
           root' = DropSessions(commit_reply_candidate(root, h, reply, response, scope, A), V)
    PROVE  Fits(root')
<1> DEFINE q == commit_reply_candidate(root, h, reply, response, scope, A)
           kept == [q EXCEPT !.conversation_turns = without_keys(q.conversation_turns, V),
                             !.clarification_records = without_keys(q.clarification_records, V)]
<1>1. /\ <<h.key, h.request_id>> \in DOMAIN root.issued_records
      /\ h.key \in DOMAIN root.state_revisions
  BY DEF CommitReply, Owns, Pending, AtRevision
<1>2. /\ DOMAIN q.issued_records = DOMAIN root.issued_records
      /\ DOMAIN q.state_revisions = DOMAIN root.state_revisions
      /\ Sessions(q) \subseteq Sessions(root) \cup {h.key}
      /\ DOMAIN q.audit_records = (DOMAIN root.audit_records \ A) \cup {<<h.key, response>>}
      /\ q.feedback_receipts = root.feedback_receipts
      /\ q.prepared_feedback_tokens = root.prepared_feedback_tokens
      /\ q.action_ledger_records = root.action_ledger_records
  <2>1. /\ DOMAIN q.issued_records = DOMAIN root.issued_records \cup {<<h.key, h.request_id>>}
        /\ DOMAIN q.state_revisions = DOMAIN root.state_revisions \cup {h.key}
        /\ DOMAIN q.conversation_turns = DOMAIN root.conversation_turns \cup {h.key}
        /\ DOMAIN q.clarification_records
                \subseteq DOMAIN root.clarification_records \cup {h.key}
        /\ DOMAIN q.audit_records = (DOMAIN root.audit_records \ A) \cup {<<h.key, response>>}
        /\ q.feedback_receipts = root.feedback_receipts
        /\ q.prepared_feedback_tokens = root.prepared_feedback_tokens
        /\ q.action_ledger_records = root.action_ledger_records
    BY DEF RecordsTyped, MapsTyped, EmptyRoot, commit_reply_candidate, with_updates,
       without_keys, Single
  <2> HIDE DEF q
  <2> QED BY <1>1, <2>1 DEF Sessions
<1>3. Within(DOMAIN q.audit_records, SessionCapacity)
  <2> DEFINE D == DOMAIN root.audit_records
  <2>1. Within(D, SessionCapacity) /\ SessionCapacity \in Nat
    BY CapacitiesAreNumbers DEF Fits
  <2>2. IsFiniteSet(D \ A) /\ Cardinality(D \ A) < SessionCapacity
    <3>1. CASE A = {} /\ ~(Cardinality(D) >= SessionCapacity)
      <4>1. D \ A = D /\ Cardinality(D) \in Nat
        BY <2>1, <3>1, FS_CardinalityType DEF Within
      <4> QED BY <2>1, <3>1, <4>1 DEF Within
    <3>2. CASE \E x \in D : A = {x}
      BY <2>1, <3>2, WithinOneLess
    <3> QED BY <3>1, <3>2 DEF AuditVictims
  <2>3. Within((D \ A) \cup {<<h.key, response>>}, SessionCapacity)
    BY <2>1, <2>2, WithinOneMore
  <2> QED BY <1>2, <2>3
<1> HIDE DEF q
<1>4. IsFiniteSet(Sessions(q))
  <2>1. IsFiniteSet(Sessions(root) \cup {h.key})
    BY FS_AddElement DEF Fits, Within
  <2> QED BY <1>2, <2>1, FS_Subset
<1>5. Within(Sessions(q) \ V, SessionCapacity)
  BY <1>4, WithinWithoutExcess, CapacitiesAreNumbers DEF SessionVictims, q
<1>6. MapsTyped(kept)
  BY WithoutKeysIsMap DEF MapsTyped, EmptyRoot, without_keys, q
<1>7. /\ Sessions(kept) = Sessions(q) \ V
      /\ kept.issued_records = q.issued_records
      /\ kept.state_revisions = q.state_revisions
      /\ kept.feedback_receipts = q.feedback_receipts
      /\ kept.prepared_feedback_tokens = q.prepared_feedback_tokens
      /\ kept.action_ledger_records = q.action_ledger_records
      /\ kept.audit_records = q.audit_records
  BY DEF MapsTyped, EmptyRoot, without_keys, q, Sessions
<1>8. Fits(kept)
  BY <1>2, <1>3, <1>5, <1>7 DEF Fits
<1> HIDE DEF kept
<1>9. root' = without_unpinned_revisions(kept)
  BY DEF DropSessions, kept, q
<1> QED BY <1>6, <1>8, <1>9, UnpinnedFewer, FewerFits

\* A preparation is issued while there is room for its token.
LEMMA PrepareFits ==
    ASSUME RecordsTyped, Fits(root), NEW k, NEW f, NEW hash, PrepareFeedback(k, f, hash)
    PROVE  Fits(root')
<1> DEFINE cleaned == cleanup_candidate(root, mono, wall)
<1>1. /\ MapsTyped(cleaned) /\ Fits(cleaned)
      /\ Cardinality(DOMAIN cleaned.prepared_feedback_tokens) < IssuedCapacity
  BY CleanupTyped, CleanupFewer, FewerFits DEF RecordsTyped, PrepareFeedback
<1>2. PICK p : root' = [cleaned EXCEPT !.prepared_feedback_tokens =
                            with_updates(@, Single(<<k, f>>, p))]
  BY DEF PrepareFeedback
<1> HIDE DEF cleaned
<1>3. /\ DOMAIN root'.prepared_feedback_tokens =
            DOMAIN cleaned.prepared_feedback_tokens \cup {<<k, f>>}
      /\ root'.issued_records = cleaned.issued_records
      /\ root'.state_revisions = cleaned.state_revisions
      /\ Sessions(root') = Sessions(cleaned)
      /\ root'.feedback_receipts = cleaned.feedback_receipts
      /\ root'.action_ledger_records = cleaned.action_ledger_records
      /\ root'.audit_records = cleaned.audit_records
  BY <1>1, <1>2 DEF MapsTyped, EmptyRoot, with_updates, Single, Sessions
<1>4. Within(DOMAIN root'.prepared_feedback_tokens, IssuedCapacity)
  <2>1. IsFiniteSet(DOMAIN cleaned.prepared_feedback_tokens)
    BY <1>1 DEF Fits, Within
  <2>2. Within(DOMAIN cleaned.prepared_feedback_tokens \cup {<<k, f>>}, IssuedCapacity)
    BY <1>1, <2>1, WithinOneMore, CapacitiesAreNumbers
  <2> QED BY <1>3, <2>2
<1> QED BY <1>1, <1>3, <1>4 DEF Fits

\* A report is applied while there is room for its receipt, and its rows push the
\* oldest out.
LEMMA FeedbackFits ==
    ASSUME RecordsTyped, Fits(root), NEW p \in prepared, CommitFeedback(p)
    PROVE  Fits(root')
<1> DEFINE q == commit_feedback_candidate(root, p)
           key == <<p.key, p.hash.request_id>>
           ledger == derive_ledger_updates(root, p, root.issued_records[key])
<1>1. /\ MapsTyped(q) /\ p.key \in DOMAIN root.state_revisions
      /\ key \in DOMAIN root.issued_records
  BY CommitFeedbackCandidateTyped
  DEF CommitFeedback, StillCurrent, AtRevision, Resolves, Complete
<1>2. ~(Cardinality(DOMAIN root.feedback_receipts) >= ReceiptCapacity)
  BY DEF CommitFeedback, ReceiptsFull
<1>3. IsFiniteSet(DOMAIN ledger)
  <2> DEFINE rec == root.issued_records[key]
             keyOf(e) == <<p.key, rec.response_id,
                           action_id(rec.response_id, rec.positional, e)>>
  <2>1. IsFiniteSet(ReportedActions(p))
    <3>1. IsFiniteSet(Effects) /\ ReportedActions(p) \in SUBSET Effects
      BY EffectAssumption DEF ReportedActions
    <3> QED BY <3>1, FS_Subset
  <2>2. IsFiniteSet({keyOf(e) : e \in ReportedActions(p)})
    <3> HIDE DEF keyOf
    <3> DEFINE keys == {keyOf(e) : e \in ReportedActions(p)}
               f == [e \in ReportedActions(p) |-> keyOf(e)]
    <3>1. f \in Surjection(ReportedActions(p), keys)
      BY DEF Surjection
    <3> QED BY <2>1, <3>1, FS_Surjection
  <2> QED BY <2>2 DEF derive_ledger_updates
<1> HIDE DEF ledger
<1>4. /\ DOMAIN q.issued_records = DOMAIN root.issued_records
      /\ DOMAIN q.feedback_receipts =
            DOMAIN root.feedback_receipts \cup {<<p.key, p.feedback_id>>}
      /\ DOMAIN q.prepared_feedback_tokens \subseteq DOMAIN root.prepared_feedback_tokens
      /\ DOMAIN q.state_revisions = DOMAIN root.state_revisions
      /\ DOMAIN q.action_ledger_records = DOMAIN root.action_ledger_records \cup DOMAIN ledger
      /\ Sessions(q) = Sessions(root)
      /\ q.audit_records = root.audit_records
  <2>1. /\ q.issued_records = with_updates(root.issued_records,
                Single(key, revised_record(root.issued_records[key], p)))
        /\ q.prepared_feedback_tokens =
                without_keys(root.prepared_feedback_tokens, {<<p.key, p.feedback_id>>})
        /\ q.state_revisions = with_updates(root.state_revisions,
                Single(p.key, Bumped(root.state_revisions[p.key])))
        /\ q.action_ledger_records = with_updates(root.action_ledger_records, ledger)
        /\ q.conversation_turns = root.conversation_turns
        /\ q.clarification_records = root.clarification_records
        /\ q.audit_records = root.audit_records
    BY DEF RecordsTyped, MapsTyped, EmptyRoot, commit_feedback_candidate, ledger
  <2>2. DOMAIN q.feedback_receipts =
            DOMAIN root.feedback_receipts \cup {<<p.key, p.feedback_id>>}
    BY DEF RecordsTyped, MapsTyped, EmptyRoot, commit_feedback_candidate, with_updates, Single
  <2> HIDE DEF q, key
  <2>3. DOMAIN q.issued_records = DOMAIN root.issued_records
    BY <1>1, <2>1 DEF with_updates, Single
  <2>4. DOMAIN q.prepared_feedback_tokens \subseteq DOMAIN root.prepared_feedback_tokens
    BY <2>1 DEF without_keys
  <2>5. DOMAIN q.state_revisions = DOMAIN root.state_revisions
    BY <1>1, <2>1 DEF with_updates, Single
  <2>6. DOMAIN q.action_ledger_records = DOMAIN root.action_ledger_records \cup DOMAIN ledger
    BY <2>1 DEF with_updates
  <2>7. Sessions(q) = Sessions(root)
    BY <2>1 DEF Sessions
  <2> QED BY <2>1, <2>2, <2>3, <2>4, <2>5, <2>6, <2>7
<1>5. Within(DOMAIN q.feedback_receipts, ReceiptCapacity)
  <2>1. Within(DOMAIN root.feedback_receipts, ReceiptCapacity)
    BY DEF Fits
  <2>2. Cardinality(DOMAIN root.feedback_receipts) \in Nat
    BY <2>1, FS_CardinalityType DEF Within
  <2>3. Cardinality(DOMAIN root.feedback_receipts) < ReceiptCapacity
    BY <1>2, <2>2, CapacitiesAreNumbers
  <2>4. IsFiniteSet(DOMAIN root.feedback_receipts)
    BY <2>1 DEF Within
  <2>5. Within(DOMAIN root.feedback_receipts \cup {<<p.key, p.feedback_id>>}, ReceiptCapacity)
    BY <2>3, <2>4, WithinOneMore, CapacitiesAreNumbers
  <2> QED BY <1>4, <2>5
<1>6. Within(DOMAIN q.prepared_feedback_tokens, IssuedCapacity)
  BY <1>4, WithinPart, CapacitiesAreNumbers DEF Fits
<1>7. IsFiniteSet(DOMAIN q.action_ledger_records)
  <2>1. IsFiniteSet(DOMAIN root.action_ledger_records)
    BY DEF Fits, Within
  <2>2. IsFiniteSet(DOMAIN root.action_ledger_records \cup DOMAIN ledger)
    BY <1>3, <2>1, FS_Union
  <2> QED BY <1>4, <2>2
<1>8. PICK V \in LedgerVictims(q.action_ledger_records) :
        root' = without_unpinned_revisions(
                    [q EXCEPT !.action_ledger_records = without_keys(@, V)])
  BY DEF CommitFeedback, q
<1>9. Within(DOMAIN q.action_ledger_records \ V, LedgerCapacity)
  BY <1>7, <1>8, WithinWithoutExcess, CapacitiesAreNumbers DEF LedgerVictims
<1> HIDE DEF q
<1> DEFINE kept == [q EXCEPT !.action_ledger_records = without_keys(@, V)]
<1>10. MapsTyped(kept)
  BY <1>1, WithoutKeysIsMap DEF MapsTyped, EmptyRoot
<1>11. /\ DOMAIN kept.action_ledger_records = DOMAIN q.action_ledger_records \ V
       /\ kept.issued_records = q.issued_records
       /\ kept.state_revisions = q.state_revisions
       /\ Sessions(kept) = Sessions(q)
       /\ kept.feedback_receipts = q.feedback_receipts
       /\ kept.prepared_feedback_tokens = q.prepared_feedback_tokens
       /\ kept.audit_records = q.audit_records
  BY <1>1 DEF MapsTyped, EmptyRoot, without_keys, Sessions
<1>12. Fits(kept)
  BY <1>4, <1>5, <1>6, <1>9, <1>11 DEF Fits
<1> HIDE DEF kept
<1>13. root' = without_unpinned_revisions(kept)
  BY <1>8 DEF kept
<1> QED BY <1>10, <1>12, <1>13, UnpinnedFewer, FewerFits

\* No step overfills a store.
LEMMA FitsStep ==
    ASSUME RecordsTyped, RevisionsExact, Fits(root), [Next]_vars
    PROVE  Fits(root')
<1>1. CASE \E s \in Submissions : ReserveReply(s)
  BY <1>1, ReserveFits
<1>2. CASE \E h \in held : AbortReply(h)
  BY <1>2, AbortFewer, FewerFits DEF AbortReply, RecordsTyped
<1>3. CASE \E h \in held, reply \in Replies, scope \in Scopes : CommitReply(h, reply, scope)
  <2>1. PICK h \in held, reply \in Replies, scope \in Scopes : CommitReply(h, reply, scope)
    BY <1>3
  <2>2. PICK response \in Drawn(FreshResponses), A \in AuditVictims(root) :
          \E V \in SessionVictims(
                    commit_reply_candidate(root, h, reply, response, scope, A)) :
            root' = DropSessions(
                        commit_reply_candidate(root, h, reply, response, scope, A), V)
    BY <2>1 DEF CommitReply
  <2>3. MapsTyped(commit_reply_candidate(root, h, reply, response, scope, A))
    BY <2>1, <2>2, DrawnIn, CommitCandidateTyped DEF CommitReply, FreshResponses
  <2> QED BY <2>1, <2>2, <2>3, CommitFits
<1>4. CASE \E k \in Keys, f \in FeedbackIds, q \in Requests, response \in Responses,
              body \in Bodies :
              LET hash == [request_id |-> q, response_id |-> response, body |-> body] IN
              PrepareFeedback(k, f, hash) \/ ReusePreparation(k, f, hash)
  <2>1. PICK k, f, hash : PrepareFeedback(k, f, hash) \/ ReusePreparation(k, f, hash)
    BY <1>4
  <2> QED
    BY <2>1, PrepareFits, CleanupFewer, FewerFits DEF ReusePreparation, RecordsTyped
<1>5. CASE \E p \in prepared : CommitFeedback(p) \/ RefuseFeedback(p)
  BY <1>5, FeedbackFits, DropTokenFewer, FewerFits DEF RefuseFeedback, RecordsTyped
<1>6. CASE Cleanup
  BY <1>6, CleanupFewer, FewerFits DEF Cleanup, RecordsTyped
<1>7. CASE Tick \/ WallStep \/ UNCHANGED vars
  BY <1>7 DEF Tick, WallStep, vars
<1> QED
  BY <1>1, <1>2, <1>3, <1>4, <1>5, <1>6, <1>7 DEF Next

\* No store is ever fuller than its capacity, and all of them are finite.
LEMMA AlwaysFits == Spec => []Fits(root)
<1>1. Init => Fits(root)
  <2>1. Within({}, IssuedCapacity) /\ Within({}, SessionCapacity) /\ Within({}, ReceiptCapacity)
        /\ Within({}, LedgerCapacity) /\ Within({}, StateRevisionCapacity)
    BY FS_EmptySet, CapacitiesAreNumbers DEF Within
  <2> QED BY <2>1 DEF Init, Fits, EmptyRoot, EmptyMap, Sessions
<1>2. RecordsTyped /\ RevisionsExact /\ Fits(root) /\ [Next]_vars => Fits(root)'
  BY FitsStep
<1> QED
  BY <1>1, <1>2, RecordsStayTyped, RevisionsStayExact, PTL DEF Spec

-----------------------------------------------------------------------------
(* Histories. *)

\* Induction over the numbers, stated of a set: its complement has no least member.
LEMMA NatSets ==
    ASSUME NEW S, 0 \in S, \A n \in Nat : n \in S => n + 1 \in S
    PROVE  Nat \subseteq S
<1> SUFFICES ASSUME Nat \ S # {} PROVE FALSE
  OBVIOUS
<1> DEFINE T == {0 .. m : m \in Nat \ S}
<1>1. T # {} /\ T \subseteq FiniteSubsetsOf(Nat)
  <2>1. \A m \in Nat : 0 .. m \in SUBSET Nat /\ IsFiniteSet(0 .. m)
    BY FS_Interval
  <2> QED BY <2>1 DEF FiniteSubsetsOf
<1> HIDE DEF T
<1>2. PICK X \in T : \A Y \in T : ~(<<Y, X>> \in StrictSubsetOrdering(Nat))
  BY <1>1, FS_StrictSubsetOrderingWellFounded, WFMin
<1>3. PICK x \in Nat \ S : X = 0 .. x
  BY DEF T
<1>4. x # 0 /\ x - 1 \in Nat /\ x - 1 \notin S
  BY <1>3
<1>5. 0 .. (x - 1) \in T
  BY <1>4 DEF T
<1>6. <<0 .. (x - 1), 0 .. x>> \in StrictSubsetOrdering(Nat)
  <2>1. 0 .. (x - 1) \subseteq 0 .. x /\ x \in 0 .. x /\ x \notin 0 .. (x - 1)
    BY <1>3, <1>4
  <2>2. 0 .. x \in SUBSET Nat /\ 0 .. (x - 1) \in SUBSET Nat
    OBVIOUS
  <2>3. 0 .. (x - 1) # 0 .. x
    BY <2>1
  <2> QED BY <2>1, <2>2, <2>3, Zenon DEF StrictSubsetOrdering
<1> QED BY <1>2, <1>3, <1>5, <1>6

\* A turn is remembered.
LiveTurn(t, w) == t.created + ConversationTtl > w

\* What the i-th turn adds to the turns q kept of those before it.
KeepLive(s, w, i, q) == IF LiveTurn(s[i], w) THEN Append(q, s[i]) ELSE q

\* f is the function LiveTurns defines recursively.
KeepsLive(f, s, w) ==
    f = [i \in 0 .. Len(s) |-> IF i = 0 THEN <<>> ELSE KeepLive(s, w, i, f[i - 1])]

\* The recursive definition of LiveTurns defines a function.
LEMMA KeepsLiveExists ==
    ASSUME NEW s, NEW w, Len(s) \in Nat
    PROVE  \E f : KeepsLive(f, s, w)
<1> DEFINE Upto(n, f) ==
               f = [i \in 0 .. n |-> IF i = 0 THEN <<>> ELSE KeepLive(s, w, i, f[i - 1])]
           S == {n \in Nat : \E f : Upto(n, f)}
<1>1. 0 \in S
  <2>1. Upto(0, [i \in 0 .. 0 |-> <<>>])
    OBVIOUS
  <2> QED BY <2>1
<1>2. ASSUME NEW n \in Nat, n \in S PROVE n + 1 \in S
  <2>1. PICK f : Upto(n, f)
    BY <1>2
  <2> DEFINE g == [i \in 0 .. (n + 1) |->
                    IF i \in 0 .. n THEN f[i] ELSE KeepLive(s, w, n + 1, f[n])]
  <2>2. /\ DOMAIN g = 0 .. (n + 1)
        /\ g[n + 1] = KeepLive(s, w, n + 1, f[n])
        /\ \A i \in 0 .. n : g[i] = f[i]
    OBVIOUS
  <2>3. \A i \in 0 .. n : f[i] = IF i = 0 THEN <<>> ELSE KeepLive(s, w, i, f[i - 1])
    BY <2>1
  <2>4. \A i \in 0 .. (n + 1) : g[i] = IF i = 0 THEN <<>> ELSE KeepLive(s, w, i, g[i - 1])
    <3> SUFFICES ASSUME NEW i \in 0 .. (n + 1)
                 PROVE  g[i] = IF i = 0 THEN <<>> ELSE KeepLive(s, w, i, g[i - 1])
      OBVIOUS
    <3>0. n \in 0 .. n /\ 0 \in 0 .. n
      OBVIOUS
    <3> HIDE DEF g
    <3>1. CASE i = n + 1
      <4>1. i # 0 /\ i - 1 = n
        BY <3>1
      <4> QED BY <4>1, <3>0, <3>1, <2>2
    <3>2. CASE i \in 0 .. n /\ i # 0
      <4>1. i - 1 \in 0 .. n
        BY <3>2
      <4> QED BY <3>2, <2>2, <2>3, <4>1
    <3>3. CASE i = 0
      BY <3>3, <3>0, <2>2, <2>3
    <3> QED BY <3>1, <3>2, <3>3
  <2>5. g = [i \in 0 .. (n + 1) |-> g[i]]
    OBVIOUS
  <2> HIDE DEF g
  <2>6. Upto(n + 1, g)
    BY <2>4, <2>5, Zenon
  <2> QED BY <2>6
<1> HIDE DEF S
<1>3. Nat \subseteq S
  BY <1>1, <1>2, NatSets
<1>4. Len(s) \in S
  BY <1>3
<1> QED BY <1>4 DEF S, KeepsLive

\* LiveTurns is the last value of that function.
LEMMA LiveTurnsUnfolds ==
    ASSUME NEW s, NEW w, Len(s) \in Nat
    PROVE  \E f : KeepsLive(f, s, w) /\ LiveTurns(s, w) = f[Len(s)]
<1> DEFINE kept == CHOOSE f : KeepsLive(f, s, w)
<1>1. KeepsLive(kept, s, w)
  BY KeepsLiveExists, Zenon
<1>2. LiveTurns(s, w) = kept[Len(s)]
  BY Zenon DEF LiveTurns, KeepLive, KeepsLive, LiveTurn
<1> QED BY <1>1, <1>2

\* q are the live ones of the first i turns of s.
LiveUpto(q, s, w, i) ==
    /\ q \in Seq(Turn)
    /\ Len(q) <= i
    /\ \A j \in 1 .. Len(q) : \E l \in 1 .. i : q[j] = s[l]
    /\ i > 0 /\ LiveTurn(s[i], w) => q # <<>> /\ q[Len(q)] = s[i]
    /\ (\A j \in 1 .. i : LiveTurn(s[j], w)) => Len(q) = i /\ \A j \in 1 .. i : q[j] = s[j]

\* LiveTurns keeps the live turns: the last one is the last, and all are the whole.
LEMMA LiveTurnsKept ==
    ASSUME NEW s \in Seq(Turn), NEW w
    PROVE  LiveUpto(LiveTurns(s, w), s, w, Len(s))
<1>1. Len(s) \in Nat /\ \A i \in 1 .. Len(s) : s[i] \in Turn
  OBVIOUS
<1>2. PICK f : KeepsLive(f, s, w) /\ LiveTurns(s, w) = f[Len(s)]
  BY <1>1, LiveTurnsUnfolds
<1>3. \A i \in 0 .. Len(s) : f[i] = IF i = 0 THEN <<>> ELSE KeepLive(s, w, i, f[i - 1])
  BY <1>2 DEF KeepsLive
<1> DEFINE S == {i \in Nat : i <= Len(s) => LiveUpto(f[i], s, w, i)}
<1>4. 0 \in S
  <2>1. f[0] = <<>>
    BY <1>1, <1>3
  <2>2. <<>> \in Seq(Turn) /\ Len(<<>>) = 0
    OBVIOUS
  <2>3. LiveUpto(<<>>, s, w, 0)
    BY <2>2 DEF LiveUpto
  <2> QED BY <2>1, <2>3
<1>5. ASSUME NEW n \in Nat, n \in S PROVE n + 1 \in S
  <2> SUFFICES ASSUME n + 1 <= Len(s) PROVE LiveUpto(f[n + 1], s, w, n + 1)
    OBVIOUS
  <2>1. LiveUpto(f[n], s, w, n)
    BY <1>1, <1>5
  <2>2. s[n + 1] \in Turn
    BY <1>1
  <2>3. f[n + 1] = KeepLive(s, w, n + 1, f[n])
    <3>1. n + 1 \in 0 .. Len(s) /\ n + 1 # 0 /\ (n + 1) - 1 = n
      BY <1>1
    <3> QED BY <3>1, <1>3
  <2>4. CASE LiveTurn(s[n + 1], w)
    <3>1. f[n + 1] = Append(f[n], s[n + 1])
      BY <2>3, <2>4 DEF KeepLive
    <3> DEFINE q == f[n]
               x == s[n + 1]
    <3>2. /\ q \in Seq(Turn) /\ Len(q) \in Nat /\ Len(q) <= n /\ x \in Turn
          /\ \A j \in 1 .. Len(q) : \E l \in 1 .. n : q[j] = s[l]
      BY <2>1, <2>2 DEF LiveUpto
    <3>3. (\A j \in 1 .. n : LiveTurn(s[j], w)) => Len(q) = n /\ \A j \in 1 .. n : q[j] = s[j]
      BY <2>1 DEF LiveUpto
    <3> HIDE DEF q, x
    <3>4. /\ Append(q, x) \in Seq(Turn)
          /\ Append(q, x) # << >>
          /\ Len(Append(q, x)) = Len(q)+1
          /\ \A i \in 1.. Len(q) : Append(q, x)[i] = q[i]
          /\ Append(q, x)[Len(q)+1] = x
      BY <3>2, AppendProperties
    <3>5. ASSUME \A j \in 1 .. (n + 1) : LiveTurn(s[j], w)
          PROVE  /\ Len(Append(q, x)) = n + 1
                 /\ \A j \in 1 .. (n + 1) : Append(q, x)[j] = s[j]
      <4>1. Len(q) = n /\ \A j \in 1 .. n : q[j] = s[j]
        BY <3>3, <3>5
      <4> QED BY <4>1, <3>4 DEF x
    <3>6. f[n + 1] = Append(q, x)
      BY <3>1 DEF q, x
    <3>7. ASSUME NEW j \in 1 .. Len(Append(q, x))
          PROVE  \E l \in 1 .. (n + 1) : Append(q, x)[j] = s[l]
      <4>1. CASE j \in 1 .. Len(q)
        <5>1. PICK l \in 1 .. n : q[j] = s[l]
          BY <3>2, <4>1
        <5> QED BY <3>4, <4>1, <5>1
      <4>2. CASE j = Len(q) + 1
        BY <3>4, <4>2 DEF x
      <4> QED BY <3>2, <3>4, <4>1, <4>2
    <3>8. /\ Append(q, x) \in Seq(Turn) /\ Append(q, x) # <<>>
          /\ Len(Append(q, x)) <= n + 1
          /\ Append(q, x)[Len(Append(q, x))] = s[n + 1]
      BY <3>2, <3>4 DEF x
    <3>9. LiveUpto(Append(q, x), s, w, n + 1)
      BY <3>5, <3>7, <3>8 DEF LiveUpto
    <3> QED BY <3>6, <3>9
  <2>5. CASE ~LiveTurn(s[n + 1], w)
    <3>1. f[n + 1] = f[n] /\ n + 1 \in 1 .. (n + 1) /\ 1 .. n \subseteq 1 .. (n + 1)
      BY <2>3, <2>5 DEF KeepLive
    <3> QED BY <2>1, <2>5, <3>1 DEF LiveUpto
  <2> QED BY <2>4, <2>5
<1> HIDE DEF S
<1>6. Nat \subseteq S
  BY <1>4, <1>5, NatSets
<1> QED BY <1>1, <1>2, <1>6 DEF S

\* The window ends with the last turn, and is no longer than configured.
LEMMA WindowKept ==
    ASSUME NEW q \in Seq(Turn)
    PROVE  /\ Window(q) \in Seq(Turn)
           /\ Len(Window(q)) <= MaxMessages
           /\ q # <<>> => Window(q) # <<>> /\ Window(q)[Len(Window(q))] = q[Len(q)]
           /\ Len(q) <= MaxMessages => Window(q) = q
           /\ Len(Window(q)) >= (IF Len(q) > MaxMessages THEN MaxMessages ELSE Len(q))
           /\ \A i \in 1 .. Len(Window(q)) : \E j \in 1 .. Len(q) : Window(q)[i] = q[j]
<1> DEFINE m == IF Len(q) > MaxMessages THEN Len(q) - MaxMessages + 1 ELSE 1
<1>1. Len(q) \in Nat /\ MaxMessages \in Nat \ {0} /\ m \in Nat /\ m >= 1
      /\ m <= Len(q) + 1 /\ Len(q) - m + 1 <= MaxMessages
  BY ConfigAssumption
<1>2. \A i \in m .. Len(q) : q[i] \in Turn
  BY <1>1
<1>3. Window(q) = SubSeq(q, m, Len(q))
  BY DEF Window
<1>4. Len(q) > 0 => m <= Len(q)
  BY <1>1
<1>5. Len(q) <= MaxMessages => m = 1
  BY <1>1
<1>8. Len(q) > MaxMessages => Len(q) - m + 1 = MaxMessages
  BY <1>1
<1> HIDE DEF m
<1>6. /\ Window(q) \in Seq(Turn)
      /\ Len(Window(q)) = IF m <= Len(q) THEN Len(q) - m + 1 ELSE 0
      /\ \A i \in 1 .. Len(q) - m + 1 : Window(q)[i] = q[m + i - 1]
  BY <1>1, <1>2, <1>3, SubSeqProperties
<1>7. ASSUME q # <<>>
      PROVE  Window(q) # <<>> /\ Window(q)[Len(Window(q))] = q[Len(q)]
  <2>1. Len(q) > 0
    BY <1>7, <1>1
  <2>2. Len(Window(q)) = Len(q) - m + 1 /\ Len(q) - m + 1 \in 1 .. (Len(q) - m + 1)
        /\ m + (Len(q) - m + 1) - 1 = Len(q)
    BY <2>1, <1>4, <1>6, <1>1
  <2> QED BY <2>2, <1>6
<1>9. Len(q) <= MaxMessages => Window(q) = q
  BY <1>5, <1>3, SubSeqFull
<1>10. ASSUME NEW i \in 1 .. Len(Window(q))
       PROVE  \E j \in 1 .. Len(q) : Window(q)[i] = q[j]
  <2>1. m <= Len(q) /\ i \in 1 .. Len(q) - m + 1
    BY <1>1, <1>6
  <2>2. Window(q)[i] = q[m + i - 1] /\ m + i - 1 \in 1 .. Len(q)
    BY <1>1, <1>6, <2>1
  <2> QED BY <2>2
<1> QED BY <1>1, <1>6, <1>7, <1>5, <1>8, <1>9, <1>10

\* What a cleanup retains of a history: its last turn if that is live, all of it if
\* all of it is.
LEMMA RetainedKept ==
    ASSUME NEW s \in Seq(Turn), NEW w, Len(s) \in 1 .. MaxMessages
    PROVE  /\ RetainedTurns(s, w) \in Seq(Turn)
           /\ Len(RetainedTurns(s, w)) <= MaxMessages
           /\ LiveTurn(s[Len(s)], w) =>
                /\ RetainedTurns(s, w) # <<>>
                /\ RetainedTurns(s, w)[Len(RetainedTurns(s, w))] = s[Len(s)]
           /\ (\A j \in 1 .. Len(s) : LiveTurn(s[j], w)) =>
                Len(RetainedTurns(s, w)) >= Len(s)
           /\ \A i \in 1 .. Len(RetainedTurns(s, w)) :
                \E j \in 1 .. Len(s) : RetainedTurns(s, w)[i] = s[j]
<1> DEFINE q == LiveTurns(s, w)
<1>1. LiveUpto(q, s, w, Len(s))
  BY LiveTurnsKept
<1>2. RetainedTurns(s, w) = Window(q)
  BY DEF RetainedTurns
<1>3. Len(s) > 0 /\ Len(s) \in Nat /\ MaxMessages \in Nat
  BY ConfigAssumption
<1> HIDE DEF q
<1>4. /\ q \in Seq(Turn)
      /\ LiveTurn(s[Len(s)], w) => q # <<>> /\ q[Len(q)] = s[Len(s)]
      /\ (\A j \in 1 .. Len(s) : LiveTurn(s[j], w)) => Len(q) = Len(s)
      /\ \A i \in 1 .. Len(q) : \E j \in 1 .. Len(s) : q[i] = s[j]
  BY <1>1, <1>3 DEF LiveUpto
<1>5. /\ Window(q) \in Seq(Turn)
      /\ Len(Window(q)) <= MaxMessages
      /\ q # <<>> => Window(q) # <<>> /\ Window(q)[Len(Window(q))] = q[Len(q)]
      /\ Len(Window(q)) >= (IF Len(q) > MaxMessages THEN MaxMessages ELSE Len(q))
      /\ \A i \in 1 .. Len(Window(q)) : \E j \in 1 .. Len(q) : Window(q)[i] = q[j]
  BY <1>4, WindowKept
<1>6. ASSUME \A j \in 1 .. Len(s) : LiveTurn(s[j], w)
      PROVE  Len(Window(q)) >= Len(s)
  <2>1. Len(q) = Len(s) /\ ~(Len(q) > MaxMessages)
    BY <1>3, <1>4, <1>6
  <2> QED BY <1>5, <2>1
<1>7. ASSUME LiveTurn(s[Len(s)], w)
      PROVE  Window(q) # <<>> /\ Window(q)[Len(Window(q))] = s[Len(s)]
  BY <1>4, <1>5, <1>7
<1>8. \A i \in 1 .. Len(Window(q)) : \E j \in 1 .. Len(s) : Window(q)[i] = s[j]
  BY <1>4, <1>5
<1> QED BY <1>2, <1>5, <1>6, <1>7, <1>8

\* The inductive invariant of the histories.
Recalls(r) ==
    /\ HistoriesTyped(r)
    /\ \A k \in DOMAIN r.conversation_turns :
            Len(r.conversation_turns[k]) \in 1 .. MaxMessages
    /\ ClarificationsLatest(r)

\* r and q have the same histories.
SameHistories(r, q) ==
    /\ q.conversation_turns = r.conversation_turns
    /\ q.clarification_records = r.clarification_records

\* The turns of a root's conversation have their type, and there is one.
LEMMA HistoryOf ==
    ASSUME NEW r, Recalls(r), NEW k \in DOMAIN r.conversation_turns
    PROVE  /\ k \in Keys /\ r.conversation_turns[k] \in Seq(Turn)
           /\ Len(r.conversation_turns[k]) \in 1 .. MaxMessages
BY DEF Recalls, HistoriesTyped, IsMap

\* Pruning, eviction of records, reservations, aborts and feedback leave the
\* histories alone.
LEMMA HistoriesUntouched ==
    ASSUME NEW r, MapsTyped(r)
    PROVE  /\ SameHistories(r, without_unpinned_revisions(r))
           /\ \A S : SameHistories(r, DropIssued(r, S))
           /\ \A s, o, v : SameHistories(r, reserve_reply_candidate(r, s, o, v))
           /\ \A h : SameHistories(r, abort_reply_candidate(r, h))
           /\ \A p : SameHistories(r, DropToken(r, p))
           /\ \A p : SameHistories(r, commit_feedback_candidate(r, p))
BY DEF MapsTyped, EmptyRoot, SameHistories, without_unpinned_revisions, DropIssued,
       reserve_reply_candidate, abort_reply_candidate, DropToken,
       commit_feedback_candidate

\* Equal histories recall the same.
LEMMA SameRecalls ==
    ASSUME NEW r, NEW q, SameHistories(r, q), Recalls(r)
    PROVE  Recalls(q)
BY DEF SameHistories, Recalls, HistoriesTyped, ClarificationsLatest

\* A cleanup leaves the clarification of the turn it asks about: the two expire
\* together, and the window ends with the last turn.
LEMMA CleanupRecalls ==
    ASSUME NEW r, MapsTyped(r), Recalls(r), NEW now, NEW w \in Nat
    PROVE  Recalls(cleanup_candidate(r, now, w))
<1> DEFINE e == without_expired(r, now, w)
           kept(k) == RetainedTurns(r.conversation_turns[k], w)
<1>1. /\ e.conversation_turns = [k \in {i \in DOMAIN r.conversation_turns : kept(i) # <<>>}
                                    |-> kept(k)]
      /\ e.clarification_records =
            without_keys(r.clarification_records,
                         {k \in DOMAIN r.clarification_records :
                            r.clarification_records[k].created + ConversationTtl <= w})
  BY DEF MapsTyped, EmptyRoot, without_expired, DropIssued, without_keys
<1> HIDE DEF e
<1>2. \A k \in DOMAIN r.conversation_turns :
        /\ kept(k) \in Seq(Turn) /\ Len(kept(k)) <= MaxMessages
        /\ LET s == r.conversation_turns[k] IN
           LiveTurn(s[Len(s)], w) =>
                kept(k) # <<>> /\ kept(k)[Len(kept(k))] = s[Len(s)]
  BY HistoryOf, RetainedKept
<1> HIDE DEF kept
<1>3. DOMAIN e.conversation_turns \subseteq DOMAIN r.conversation_turns
      /\ \A k \in DOMAIN e.conversation_turns :
            e.conversation_turns[k] = kept(k) /\ kept(k) # <<>>
  BY <1>1
<1>4. HistoriesTyped(e)
  BY <1>1, <1>2, <1>3, HistoryOf DEF HistoriesTyped, IsMap
<1>5. ASSUME NEW k \in DOMAIN e.conversation_turns
      PROVE  Len(e.conversation_turns[k]) \in 1 .. MaxMessages
  <2>1. kept(k) \in Seq(Turn) /\ kept(k) # <<>> /\ Len(kept(k)) <= MaxMessages
    BY <1>2, <1>3
  <2>2. Len(kept(k)) \in Nat /\ Len(kept(k)) # 0 /\ MaxMessages \in Nat
    BY <2>1, ConfigAssumption
  <2> QED BY <2>1, <2>2, <1>3
<1>6. ClarificationsLatest(e)
  <2> SUFFICES ASSUME NEW k \in DOMAIN e.clarification_records
               PROVE  /\ k \in DOMAIN e.conversation_turns
                      /\ LET turns == e.conversation_turns[k]
                             last == turns[Len(turns)]
                         IN  /\ last.role = "assistant" /\ last.clarification
                             /\ last.ordinal = e.clarification_records[k].ordinal
                             /\ last.created = e.clarification_records[k].created
    BY DEF ClarificationsLatest
  <2>1. /\ k \in DOMAIN r.clarification_records
        /\ e.clarification_records[k] = r.clarification_records[k]
        /\ ~(r.clarification_records[k].created + ConversationTtl <= w)
    BY <1>1 DEF without_keys
  <2> DEFINE s == r.conversation_turns[k]
             last == s[Len(s)]
  <2>2. /\ k \in DOMAIN r.conversation_turns
        /\ last.role = "assistant" /\ last.clarification
        /\ last.ordinal = r.clarification_records[k].ordinal
        /\ last.created = r.clarification_records[k].created
    BY <2>1 DEF Recalls, ClarificationsLatest
  <2>3. s \in Seq(Turn) /\ Len(s) \in 1 .. MaxMessages
    BY <2>2, HistoryOf
  <2>4. last \in Turn /\ last.created \in Nat
    <3>1. Len(s) \in 1 .. Len(s) /\ last \in Turn
      BY <2>3
    <3> QED BY <3>1 DEF Turn
  <2>5. LiveTurn(last, w)
    BY <2>1, <2>2, <2>4, ConfigAssumption DEF LiveTurn
  <2>6. kept(k) # <<>> /\ kept(k)[Len(kept(k))] = last
    BY <1>2, <2>2, <2>5
  <2>7. k \in DOMAIN e.conversation_turns /\ e.conversation_turns[k] = kept(k)
    BY <1>1, <2>2, <2>6
  <2> QED BY <2>1, <2>2, <2>6, <2>7
<1>7. Recalls(e) /\ MapsTyped(e)
  BY <1>4, <1>5, <1>6, WithoutExpiredTyped DEF Recalls, e
<1> QED BY <1>7, HistoriesUntouched, SameRecalls DEF cleanup_candidate, e

\* So does the eviction of sessions, which takes a clarification with its turns.
LEMMA DropSessionsRecalls ==
    ASSUME NEW r, MapsTyped(r), Recalls(r), NEW V
    PROVE  Recalls(DropSessions(r, V))
<1> DEFINE q == [r EXCEPT
                    !.conversation_turns = without_keys(r.conversation_turns, V),
                    !.clarification_records = without_keys(r.clarification_records, V)]
<1>1. /\ q.conversation_turns = without_keys(r.conversation_turns, V)
      /\ q.clarification_records = without_keys(r.clarification_records, V)
  BY DEF MapsTyped, EmptyRoot
<1>2. MapsTyped(q)
  BY <1>1, WithoutKeysIsMap DEF MapsTyped, EmptyRoot, without_keys
<1>3. DropSessions(r, V) = without_unpinned_revisions(q)
  BY DEF DropSessions
<1> HIDE DEF q
<1>4. HistoriesTyped(q)
  BY <1>1, WithoutKeysIsMap DEF Recalls, HistoriesTyped
<1>5. Recalls(q)
  <2>1. /\ DOMAIN q.conversation_turns = DOMAIN r.conversation_turns \ V
        /\ \A k \in DOMAIN q.conversation_turns :
                q.conversation_turns[k] = r.conversation_turns[k]
        /\ DOMAIN q.clarification_records = DOMAIN r.clarification_records \ V
        /\ \A k \in DOMAIN q.clarification_records :
                q.clarification_records[k] = r.clarification_records[k]
    BY <1>1 DEF without_keys
  <2> QED BY <1>4, <2>1 DEF Recalls, ClarificationsLatest
<1> QED BY <1>2, <1>3, <1>5, HistoriesUntouched, SameRecalls

\* So does a commit: its two turns are the last, and a clarification it leaves is
\* the one it asks.
LEMMA CommitRecalls ==
    ASSUME NEW r, MapsTyped(r), Recalls(r), NEW h, h.key \in Keys,
           NEW reply \in Replies, NEW response, NEW scope \in Scopes, NEW A,
           wall \in Nat
    PROVE  Recalls(commit_reply_candidate(r, h, reply, response, scope, A))
<1> DEFINE q == commit_reply_candidate(r, h, reply, response, scope, A)
           prior == IF h.key \in DOMAIN r.conversation_turns
                    THEN r.conversation_turns[h.key] ELSE <<>>
           turn(role, ordinal, clar) ==
               [role |-> role, ordinal |-> ordinal, created |-> wall, scope |-> scope,
                clarification |-> clar]
           user == turn("user", Len(prior), FALSE)
           asked == turn("assistant", Len(prior) + 1, reply.clarifies)
           new == NewTurns(prior, scope, reply.clarifies)
           clarification ==
               [ordinal |-> Len(prior) + 1, created |-> wall, scope |-> scope]
<1>1. /\ q.conversation_turns = with_updates(r.conversation_turns, Single(h.key, new))
      /\ q.clarification_records =
            IF reply.clarifies
            THEN with_updates(r.clarification_records, Single(h.key, clarification))
            ELSE without_keys(r.clarification_records, {h.key})
  BY DEF MapsTyped, EmptyRoot, commit_reply_candidate
<1>2. prior \in Seq(Turn) /\ Len(prior) \in Nat
  BY HistoryOf
<1>3. user \in Turn /\ asked \in Turn
  BY <1>2, InputAssumption DEF Turn
<1>4. new = Window(prior \o <<user, asked>>)
  BY DEF NewTurns
<1>5. /\ asked.role = "assistant" /\ asked.clarification = reply.clarifies
      /\ asked.ordinal = clarification.ordinal /\ asked.created = clarification.created
  OBVIOUS
<1> HIDE DEF q, prior, user, asked, new, clarification
<1>6. /\ prior \o <<user, asked>> \in Seq(Turn)
      /\ prior \o <<user, asked>> # <<>>
      /\ (prior \o <<user, asked>>)[Len(prior \o <<user, asked>>)] = asked
  <2>1. <<user, asked>> \in Seq(Turn) /\ Len(<<user, asked>>) = 2
        /\ <<user, asked>>[2] = asked
    BY <1>3
  <2>2. /\ prior \o <<user, asked>> \in Seq(Turn)
        /\ Len(prior \o <<user, asked>>) = Len(prior) + 2
    BY <1>2, <2>1
  <2>3. (prior \o <<user, asked>>)[Len(prior) + 2] = asked
    BY <1>2, <2>1
  <2> QED BY <1>2, <2>2, <2>3
<1>7. /\ new \in Seq(Turn) /\ Len(new) <= MaxMessages
      /\ new # <<>> /\ new[Len(new)] = asked
  BY <1>4, <1>6, WindowKept
<1>8. Len(new) \in 1 .. MaxMessages
  <2>1. Len(new) \in Nat /\ Len(new) # 0 /\ MaxMessages \in Nat
    BY <1>7, ConfigAssumption
  <2> QED BY <1>7, <2>1
<1>9. /\ DOMAIN q.conversation_turns = DOMAIN r.conversation_turns \cup {h.key}
      /\ \A k \in DOMAIN q.conversation_turns :
            q.conversation_turns[k] =
                IF k = h.key THEN new ELSE r.conversation_turns[k]
  BY <1>1 DEF with_updates, Single
<1>10. HistoriesTyped(q)
  <2>1. IsMap(Single(h.key, new), Keys, Seq(Turn))
    BY <1>7, SingleIsMap
  <2> QED BY <1>1, <2>1, WithUpdatesIsMap DEF Recalls, HistoriesTyped
<1>11. \A k \in DOMAIN q.conversation_turns : Len(q.conversation_turns[k]) \in 1 .. MaxMessages
  BY <1>8, <1>9, HistoryOf
<1>12. ClarificationsLatest(q)
  <2> SUFFICES ASSUME NEW k \in DOMAIN q.clarification_records
               PROVE  /\ k \in DOMAIN q.conversation_turns
                      /\ LET turns == q.conversation_turns[k]
                             last == turns[Len(turns)]
                         IN  /\ last.role = "assistant" /\ last.clarification
                             /\ last.ordinal = q.clarification_records[k].ordinal
                             /\ last.created = q.clarification_records[k].created
    BY DEF ClarificationsLatest
  <2>1. CASE k = h.key
    <3>1. reply.clarifies /\ q.clarification_records[k] = clarification
      BY <1>1, <2>1 DEF with_updates, Single, without_keys
    <3> QED BY <1>5, <1>7, <1>9, <2>1, <3>1
  <2>2. CASE k # h.key
    <3>1. /\ k \in DOMAIN r.clarification_records
          /\ q.clarification_records[k] = r.clarification_records[k]
      BY <1>1, <2>2 DEF with_updates, Single, without_keys
    <3> QED BY <1>9, <2>2, <3>1 DEF Recalls, ClarificationsLatest
  <2> QED BY <2>1, <2>2
<1> QED BY <1>10, <1>11, <1>12 DEF Recalls, q

\* Every step keeps the histories well formed.
LEMMA RecallsStep ==
    ASSUME RecordsTyped, Recalls(root), [Next]_vars
    PROVE  Recalls(root')
<1> DEFINE cleaned == cleanup_candidate(root, mono, wall)
<1>0. MapsTyped(root) /\ MapsTyped(cleaned) /\ Recalls(cleaned)
  BY CleanupTyped, CleanupRecalls DEF RecordsTyped
<1> HIDE DEF cleaned
<1>1. ASSUME NEW s \in Submissions, ReserveReply(s) PROVE Recalls(root')
  <2>1. PICK V, o, v :
          LET evicted == without_unpinned_revisions(DropIssued(cleaned, V)) IN
          \/ root' = evicted
          \/ root' = reserve_reply_candidate(evicted, s, o, v)
    BY <1>1 DEF ReserveReply, cleaned
  <2>2. MapsTyped(DropIssued(cleaned, V)) /\ Recalls(DropIssued(cleaned, V))
    BY <1>0, DropIssuedTyped, HistoriesUntouched, SameRecalls
  <2>3. /\ MapsTyped(without_unpinned_revisions(DropIssued(cleaned, V)))
        /\ Recalls(without_unpinned_revisions(DropIssued(cleaned, V)))
    BY <2>2, UnpinnedTyped, HistoriesUntouched, SameRecalls
  <2> QED BY <2>1, <2>3, HistoriesUntouched, SameRecalls
<1>2. ASSUME NEW h \in held, AbortReply(h) PROVE Recalls(root')
  BY <1>0, <1>2, HistoriesUntouched, SameRecalls DEF AbortReply
<1>3. ASSUME NEW h \in held, NEW reply \in Replies, NEW scope \in Scopes,
             CommitReply(h, reply, scope)
      PROVE  Recalls(root')
  <2>1a. PICK response \in Drawn(FreshResponses), A \in AuditVictims(root) : \E V :
            root' = DropSessions(
                        commit_reply_candidate(root, h, reply, response, scope, A), V)
    BY <1>3 DEF CommitReply
  <2>1. PICK V :
            root' = DropSessions(
                        commit_reply_candidate(root, h, reply, response, scope, A), V)
    BY <2>1a
  <2>2. MapsTyped(commit_reply_candidate(root, h, reply, response, scope, A))
    BY <1>3, <2>1, DrawnIn, CommitCandidateTyped DEF CommitReply, FreshResponses
  <2>3. Recalls(commit_reply_candidate(root, h, reply, response, scope, A))
    BY <1>0, CommitRecalls DEF RecordsTyped, Reservation
  <2> QED BY <2>1, <2>2, <2>3, DropSessionsRecalls
<1>4. ASSUME NEW k, NEW f, NEW hash, PrepareFeedback(k, f, hash) PROVE Recalls(root')
  <2>1. PICK m : root' = [cleaned EXCEPT !.prepared_feedback_tokens = m]
    BY <1>4 DEF PrepareFeedback, cleaned
  <2>2. SameHistories(cleaned, root')
    BY <1>0, <2>1 DEF SameHistories, MapsTyped, EmptyRoot
  <2> QED BY <1>0, <2>2, SameRecalls
<1>5. ASSUME NEW k, NEW f, NEW hash, ReusePreparation(k, f, hash) PROVE Recalls(root')
  BY <1>0, <1>5 DEF ReusePreparation, cleaned
<1>6. ASSUME NEW p \in prepared, CommitFeedback(p) PROVE Recalls(root')
  <2> DEFINE candidate == commit_feedback_candidate(root, p)
  <2>1. PICK V : root' = without_unpinned_revisions(
                    [candidate EXCEPT !.action_ledger_records = without_keys(@, V)])
    BY <1>6 DEF CommitFeedback
  <2>2. SameHistories(root, candidate) /\ DOMAIN candidate = DOMAIN EmptyRoot
    BY <1>0, HistoriesUntouched DEF MapsTyped, commit_feedback_candidate
  <2> HIDE DEF candidate
  <2>3. SameHistories(root, root')
    BY <2>1, <2>2 DEF SameHistories, EmptyRoot, without_unpinned_revisions
  <2> QED BY <1>0, <2>3, SameRecalls
<1>7. ASSUME NEW p \in prepared, RefuseFeedback(p) PROVE Recalls(root')
  BY <1>0, <1>7, HistoriesUntouched, SameRecalls DEF RefuseFeedback
<1>8. CASE Cleanup
  BY <1>0, <1>8 DEF Cleanup, cleaned
<1>9. CASE Tick \/ WallStep \/ UNCHANGED vars
  BY <1>9 DEF Tick, WallStep, vars
<1> QED
  BY <1>1, <1>2, <1>3, <1>4, <1>5, <1>6, <1>7, <1>8, <1>9 DEF Next

\* Cleanup, commit and eviction keep every history well formed.
LEMMA AlwaysRecalls == Spec => []Recalls(root)
<1>1. Init => Recalls(root)
  BY DEF Init, EmptyRoot, EmptyMap, Recalls, HistoriesTyped, IsMap, ClarificationsLatest
<1>2. RecordsTyped /\ Recalls(root) /\ [Next]_vars => Recalls(root)'
  BY RecallsStep
<1> QED BY <1>1, <1>2, RecordsStayTyped, PTL DEF Spec

\* The whole type invariant: the histories are sequences of turns.
THEOREM StateStaysTyped == Spec => []TypeOK
<1>1. RecordsTyped /\ Recalls(root) => TypeOK
  BY DEF TypeOK, Recalls
<1> QED BY <1>1, RecordsStayTyped, AlwaysRecalls, PTL

\* A pending clarification is the one the latest turn of its conversation asks
\* (commit_reply_candidate, without_expired, enforce_session_capacity).
THEOREM ClarificationsStayLatest == Spec => []ClarificationIsLatest
<1>1. Recalls(root) => ClarificationIsLatest
  BY DEF ClarificationIsLatest, Recalls
<1> QED BY <1>1, AlwaysRecalls, PTL

\* No store and no history outgrows its configured capacity, whatever is evicted
\* or refused to keep it there.
THEOREM CapacitiesAreKept == Spec => []CapacitiesHold
<1>1. Fits(root) /\ Recalls(root) => CapacitiesHold
  BY DEF CapacitiesHold, Fits, Within, Recalls
<1> QED BY <1>1, AlwaysFits, AlwaysRecalls, PTL

\* The history of k has a turn that has expired.
Faded(r, w, k) ==
    \E i \in DOMAIN r.conversation_turns[k] :
        r.conversation_turns[k][i].created + ConversationTtl <= w

\* The history of k is at least as long in q as it was in r.
NoShorter(r, q, k) ==
    /\ k \in DOMAIN q.conversation_turns
    /\ Len(r.conversation_turns[k]) <= Len(q.conversation_turns[k])

\* A cleanup only takes turns from histories of which some have expired.
LEMMA CleanupNoShorter ==
    ASSUME NEW r, MapsTyped(r), Recalls(r), NEW now, NEW w \in Nat,
           NEW k \in DOMAIN r.conversation_turns
    PROVE  NoShorter(r, cleanup_candidate(r, now, w), k) \/ Faded(r, w, k)
<1> DEFINE s == r.conversation_turns[k]
           q == without_expired(r, now, w)
           retained == RetainedTurns(s, w)
<1>1. s \in Seq(Turn) /\ Len(s) \in 1 .. MaxMessages
  BY HistoryOf
<1>2. DOMAIN s = 1 .. Len(s) /\ \A i \in 1 .. Len(s) : s[i].created \in Nat
  <2>1. DOMAIN s = 1 .. Len(s) /\ \A i \in 1 .. Len(s) : s[i] \in Turn
    BY <1>1
  <2>2. \A t \in Turn : t.created \in Nat
    BY DEF Turn
  <2> QED BY <2>1, <2>2
<1>3. (k \in DOMAIN q.conversation_turns <=> retained # <<>>)
      /\ (retained # <<>> => q.conversation_turns[k] = retained)
  BY DEF MapsTyped, EmptyRoot, without_expired, DropIssued, without_keys
<1>4. SameHistories(q, cleanup_candidate(r, now, w))
  BY WithoutExpiredTyped, HistoriesUntouched DEF cleanup_candidate
<1>5. Faded(r, w, k) \/ \A i \in 1 .. Len(s) : LiveTurn(s[i], w)
  <2>1. Faded(r, w, k) <=> \E i \in DOMAIN s : s[i].created + ConversationTtl <= w
    BY DEF Faded
  <2>2. \A c \in Nat : c + ConversationTtl <= w \/ c + ConversationTtl > w
    BY ConfigAssumption
  <2> HIDE DEF s
  <2>3. \A i \in 1 .. Len(s) : LiveTurn(s[i], w) <=> s[i].created + ConversationTtl > w
    BY DEF LiveTurn
  <2> QED BY <1>2, <2>1, <2>2, <2>3
<1> HIDE DEF s, q, retained
<1>6. ASSUME \A i \in 1 .. Len(s) : LiveTurn(s[i], w)
      PROVE  retained \in Seq(Turn) /\ Len(retained) >= Len(s) /\ retained # <<>>
  <2>1. retained \in Seq(Turn) /\ Len(retained) >= Len(s) /\ Len(s) >= 1
    BY <1>1, <1>6, RetainedKept DEF retained
  <2>2. retained # <<>>
    BY <2>1, <1>1
  <2> QED BY <2>1, <2>2
<1>7. CASE Faded(r, w, k)
  BY <1>7
<1>8. CASE \A i \in 1 .. Len(s) : LiveTurn(s[i], w)
  <2>1. q.conversation_turns[k] = retained /\ k \in DOMAIN q.conversation_turns
        /\ Len(s) <= Len(retained)
    BY <1>1, <1>3, <1>6, <1>8
  <2> QED BY <1>4, <2>1 DEF NoShorter, SameHistories, s
<1> QED BY <1>5, <1>7, <1>8

\* Equal histories are no shorter.
LEMMA SameNoShorter ==
    ASSUME NEW r, NEW q, SameHistories(r, q), Recalls(r),
           NEW k \in DOMAIN r.conversation_turns
    PROVE  NoShorter(r, q, k)
BY HistoryOf, ConfigAssumption DEF SameHistories, NoShorter

\* What no shorter histories of a cleaned root are.
LEMMA SameAfterCleanup ==
    ASSUME NEW r, MapsTyped(r), Recalls(r), NEW now, NEW w \in Nat, NEW q,
           SameHistories(cleanup_candidate(r, now, w), q),
           NEW k \in DOMAIN r.conversation_turns
    PROVE  NoShorter(r, q, k) \/ Faded(r, w, k)
BY CleanupNoShorter DEF SameHistories, NoShorter

\* A commit leaves the histories of other conversations, and evicts no session that
\* has a turn in progress.
LEMMA CommitNoShorter ==
    ASSUME RecordsTyped, Recalls(root),
           NEW h \in held, NEW reply \in Replies, NEW scope \in Scopes,
           CommitReply(h, reply, scope),
           NEW k \in DOMAIN root.conversation_turns,
           k \in DOMAIN root'.pending_request_by_state
    PROVE  NoShorter(root, root', k)
<1>1a. PICK response \in Drawn(FreshResponses), A \in AuditVictims(root) : \E V :
        LET candidate == commit_reply_candidate(root, h, reply, response, scope, A) IN
        Evictable(candidate, V) /\ root' = DropSessions(candidate, V)
  BY DEF CommitReply
<1> DEFINE candidate == commit_reply_candidate(root, h, reply, response, scope, A)
<1>1. PICK V : Evictable(candidate, V) /\ root' = DropSessions(candidate, V)
  BY <1>1a
<1>2. MapsTyped(candidate)
  BY <1>1, DrawnIn, CommitCandidateTyped DEF CommitReply, FreshResponses
<1>3. /\ candidate.pending_request_by_state =
            without_keys(root.pending_request_by_state, {h.key})
      /\ \E new : candidate.conversation_turns =
                    with_updates(root.conversation_turns, Single(h.key, new))
  BY DEF RecordsTyped, MapsTyped, EmptyRoot, commit_reply_candidate
<1> HIDE DEF candidate
<1>4. /\ root'.pending_request_by_state = candidate.pending_request_by_state
      /\ root'.conversation_turns = without_keys(candidate.conversation_turns, V)
  BY <1>1, <1>2 DEF candidate, DropSessions, MapsTyped, EmptyRoot, without_unpinned_revisions
<1>5. k # h.key /\ k \notin V
  BY <1>1, <1>3, <1>4 DEF Evictable, candidate, without_keys
<1>6. /\ k \in DOMAIN root'.conversation_turns
      /\ root'.conversation_turns[k] = root.conversation_turns[k]
  BY <1>3, <1>4, <1>5 DEF with_updates, Single, without_keys
<1> QED BY <1>6, HistoryOf, ConfigAssumption DEF NoShorter

\* A conversation with a turn in progress loses its history to the wall clock alone
\* (commit_reply's eviction spares it; cleanup_candidate takes expired turns).
THEOREM BusySessionsAreKept == Spec => BusySessionKept
<1> DEFINE Busy == DOMAIN root.pending_request_by_state
                     \cap DOMAIN root'.pending_request_by_state
                     \cap DOMAIN root.conversation_turns
           Kept == \A k \in Busy : NoShorter(root, root', k) \/ Faded(root, wall, k)
           cleaned == cleanup_candidate(root, mono, wall)
<1>1. ASSUME RecordsTyped, Recalls(root), [Next]_vars PROVE Kept
  <2>0. MapsTyped(root) /\ MapsTyped(cleaned) /\ wall \in Nat
    BY CleanupTyped, <1>1 DEF RecordsTyped
  <2>a. ASSUME SameHistories(root, root') PROVE Kept
    BY <1>1, <2>a, SameNoShorter
  <2>b. ASSUME SameHistories(cleaned, root') PROVE Kept
    BY <1>1, <2>0, <2>b, SameAfterCleanup
  <2> HIDE DEF cleaned, Kept
  <2>1. ASSUME NEW s \in Submissions, ReserveReply(s) PROVE Kept
    <3>1. PICK V, o, v :
            LET evicted == without_unpinned_revisions(DropIssued(cleaned, V)) IN
            \/ root' = evicted
            \/ root' = reserve_reply_candidate(evicted, s, o, v)
      BY <2>1 DEF ReserveReply, cleaned
    <3>2. MapsTyped(DropIssued(cleaned, V)) /\ SameHistories(cleaned, DropIssued(cleaned, V))
      BY <2>0, DropIssuedTyped, HistoriesUntouched
    <3>3. /\ MapsTyped(without_unpinned_revisions(DropIssued(cleaned, V)))
          /\ SameHistories(DropIssued(cleaned, V),
                           without_unpinned_revisions(DropIssued(cleaned, V)))
      BY <3>2, UnpinnedTyped, HistoriesUntouched
    <3>4. SameHistories(without_unpinned_revisions(DropIssued(cleaned, V)), root')
      BY <3>1, <3>3, HistoriesUntouched DEF SameHistories
    <3> QED BY <2>b, <3>2, <3>3, <3>4 DEF SameHistories
  <2>2. ASSUME NEW h \in held, AbortReply(h) PROVE Kept
    BY <2>0, <2>2, <2>a, HistoriesUntouched DEF AbortReply, SameHistories
  <2>3. ASSUME NEW h \in held, NEW reply \in Replies, NEW scope \in Scopes,
               CommitReply(h, reply, scope)
        PROVE  Kept
    BY <1>1, <2>3, CommitNoShorter DEF Kept
  <2>4. ASSUME NEW k, NEW f, NEW hash, PrepareFeedback(k, f, hash) PROVE Kept
    <3>1. PICK m : root' = [cleaned EXCEPT !.prepared_feedback_tokens = m]
      BY <2>4 DEF PrepareFeedback, cleaned
    <3>2. SameHistories(cleaned, root')
      BY <2>0, <3>1 DEF SameHistories, MapsTyped, EmptyRoot
    <3> QED BY <2>b, <3>2
  <2>5. ASSUME NEW k, NEW f, NEW hash, ReusePreparation(k, f, hash) PROVE Kept
    BY <2>5, <2>b DEF ReusePreparation, cleaned, SameHistories
  <2>6. ASSUME NEW p \in prepared, CommitFeedback(p) PROVE Kept
    <3> DEFINE candidate == commit_feedback_candidate(root, p)
    <3>1. PICK V : root' = without_unpinned_revisions(
                      [candidate EXCEPT !.action_ledger_records = without_keys(@, V)])
      BY <2>6 DEF CommitFeedback
    <3>2. SameHistories(root, candidate) /\ DOMAIN candidate = DOMAIN EmptyRoot
      BY <2>0, HistoriesUntouched DEF MapsTyped, commit_feedback_candidate
    <3> HIDE DEF candidate
    <3>3. SameHistories(root, root')
      BY <3>1, <3>2 DEF SameHistories, EmptyRoot, without_unpinned_revisions
    <3> QED BY <2>a, <3>3
  <2>7. ASSUME NEW p \in prepared, RefuseFeedback(p) PROVE Kept
    BY <2>0, <2>7, <2>a, HistoriesUntouched DEF RefuseFeedback, SameHistories
  <2>8. CASE Cleanup
    BY <2>8, <2>b DEF Cleanup, cleaned, SameHistories
  <2>9. CASE Tick \/ WallStep \/ UNCHANGED vars
    BY <2>9, <2>a DEF Tick, WallStep, vars, SameHistories
  <2> QED
    BY <1>1, <2>1, <2>2, <2>3, <2>4, <2>5, <2>6, <2>7, <2>8, <2>9 DEF Next
<1>2. Kept => \A k \in Busy :
                \/ /\ k \in DOMAIN root'.conversation_turns
                   /\ Len(root.conversation_turns[k]) <= Len(root'.conversation_turns[k])
                \/ \E i \in DOMAIN root.conversation_turns[k] :
                        root.conversation_turns[k][i].created + ConversationTtl <= wall
  BY DEF NoShorter, Faded
<1> HIDE DEF Kept
<1> QED
  BY <1>1, <1>2, RecordsStayTyped, AlwaysRecalls, PTL DEF Spec, BusySessionKept
=============================================================================
