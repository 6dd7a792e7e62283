--------------------------- MODULE FeedbackProofs ---------------------------
(***************************************************************************)
(* What the coordinator says about an answer agrees with the answer: the   *)
(* indexes, the receipts, the prepared transitions and the ledger rows.    *)
(* All but two operations only forget, so one lemma per way of forgetting, *)
(* and the two commits, carry all of these invariants.                     *)
(***************************************************************************)
EXTENDS CoordinatorProofs

\* g is f on fewer keys.
Restricts(f, g) == DOMAIN g \subseteq DOMAIN f /\ \A x \in DOMAIN g : g[x] = f[x]

\* The same answer, of whose receipts some may be forgotten.
SameAnswer(old, new) ==
    /\ new.response_id = old.response_id /\ new.positional = old.positional
    /\ new.issued = old.issued /\ new.effects = old.effects
    /\ new.record_revision = old.record_revision /\ new.scope = old.scope
    /\ new.request_hash = old.request_hash
    /\ new.receipts \subseteq old.receipts

\* q says of answers what r says, or nothing: an answer goes with its index
\* entries, and a receipt no sooner than its reference in the record.
Forgets(r, q) ==
    /\ Complete(q) \subseteq Complete(r)
    /\ \A x \in Complete(q) : SameAnswer(r.issued_records[x], q.issued_records[x])
    /\ Restricts(r.response_index, q.response_index)
    /\ \A id \in DOMAIN r.response_index :
            id \in DOMAIN q.response_index <=> r.response_index[id] \in Complete(q)
    /\ Restricts(r.action_index, q.action_index)
    /\ \A a \in DOMAIN q.action_index : q.action_index[a][2] \in DOMAIN q.response_index
    /\ Restricts(r.feedback_receipts, q.feedback_receipts)
    /\ Restricts(r.prepared_feedback_tokens, q.prepared_feedback_tokens)
    /\ Restricts(r.action_ledger_records, q.action_ledger_records)
    /\ \A x \in Complete(q) : \A ref \in q.issued_records[x].receipts :
        LET f == <<x[1], ref.feedback_id>> IN
        f \in DOMAIN r.feedback_receipts /\ r.feedback_receipts[f].expires = ref.expires
            => f \in DOMAIN q.feedback_receipts

\* A preparation is of the answer as it is, or of the answer as it was before a
\* later report; in the first case it may still be applied as it was prepared.
Tracks(r, P) ==
    \A p \in P \cup {r.prepared_feedback_tokens[x] : x \in DOMAIN r.prepared_feedback_tokens},
       x \in Complete(r) :
        LET rec == r.issued_records[x] IN
        rec.response_id = p.hash.response_id =>
            /\ p.record_revision <= rec.record_revision
            /\ p.record_revision = rec.record_revision =>
                Reportable(rec, p.hash.body) /\ Noops(rec, p.hash.body) = p.noops

\* A ledger row of an answer that is retained says what was last reported.
LedgerTracks(r) ==
    \A x \in DOMAIN r.action_ledger_records, y \in Complete(r) :
        LET row == r.action_ledger_records[x]
            rec == r.issued_records[y]
        IN  x[1] = y[1] /\ x[2] = rec.response_id /\ x[3] \in ActionIdsOf(rec) =>
                /\ row.effect = x[3][2]
                /\ row.outcome = rec.effects[row.effect].outcome
                /\ row.status_revision <= rec.effects[row.effect].changes
                /\ row.scope = rec.scope

\* The inductive invariant: each part needs the ones before it.
Agrees(r, P) == Indexed(r) /\ Receipted(r) /\ Tracks(r, P) /\ LedgerTracks(r)

\* The indexes are exact whatever else of the root changes.
LEMMA SameIndexed ==
    ASSUME NEW r, NEW q, Indexed(r), Complete(q) = Complete(r),
           q.issued_records = r.issued_records, q.response_index = r.response_index,
           q.action_index = r.action_index
    PROVE  Indexed(q)
<1> DEFINE Index(S, records, responses, actions) ==
        /\ \A id \in DOMAIN responses :
                responses[id] \in S /\ records[responses[id]].response_id = id
        /\ \A x \in S : LET id == records[x].response_id IN
                id \in DOMAIN responses /\ responses[id] = x
        /\ \A a \in DOMAIN actions : LET entry == actions[a] IN
                /\ entry[2] \in DOMAIN responses
                /\ responses[entry[2]][1] = entry[1]
                /\ a \in ActionIdsOf(records[responses[entry[2]]])
<1>1. Index(Complete(r), r.issued_records, r.response_index, r.action_index)
  BY DEF Indexed
<1>2. Index(Complete(q), q.issued_records, q.response_index, q.action_index)
  <2> HIDE DEF Index
  <2> QED BY <1>1
<1> QED BY <1>2 DEF Indexed

\* So does the ledger agree with the answers.
LEMMA SameLedger ==
    ASSUME NEW r, NEW q, LedgerTracks(r), Complete(q) = Complete(r),
           q.issued_records = r.issued_records,
           q.action_ledger_records = r.action_ledger_records
    PROVE  LedgerTracks(q)
<1> DEFINE Ledger(S, records, rows) ==
        \A x \in DOMAIN rows, y \in S :
            LET row == rows[x]
                rec == records[y]
            IN  x[1] = y[1] /\ x[2] = rec.response_id /\ x[3] \in ActionIdsOf(rec) =>
                    /\ row.effect = x[3][2]
                    /\ row.outcome = rec.effects[row.effect].outcome
                    /\ row.status_revision <= rec.effects[row.effect].changes
                    /\ row.scope = rec.scope
<1>1. Ledger(Complete(r), r.issued_records, r.action_ledger_records)
  BY DEF LedgerTracks
<1>2. Ledger(Complete(q), q.issued_records, q.action_ledger_records)
  <2> HIDE DEF Ledger
  <2> QED BY <1>1
<1> QED BY <1>2 DEF LedgerTracks

\* The effects of the same answer have the same identifiers, and admit the same reports.
LEMMA SameAnswerSame ==
    ASSUME NEW old, NEW new, SameAnswer(old, new), NEW body
    PROVE  /\ ActionIdsOf(new) = ActionIdsOf(old)
           /\ Reportable(new, body) = Reportable(old, body)
           /\ Noops(new, body) = Noops(old, body)
BY DEF SameAnswer, ActionIdsOf, Reportable, HasServerIds, Noops

\* Forgetting keeps the indexes exact.
LEMMA ForgetIndexed ==
    ASSUME NEW r, NEW q, Forgets(r, q), Indexed(r)
    PROVE  Indexed(q)
<1>1. ASSUME NEW id \in DOMAIN q.response_index
      PROVE  /\ q.response_index[id] \in Complete(q)
             /\ q.issued_records[q.response_index[id]].response_id = id
  <2>1. /\ id \in DOMAIN r.response_index /\ q.response_index[id] = r.response_index[id]
        /\ q.response_index[id] \in Complete(q)
    BY DEF Forgets, Restricts
  <2>2. r.issued_records[r.response_index[id]].response_id = id
    BY <2>1 DEF Indexed
  <2>3. \A x \in Complete(q) :
            q.issued_records[x].response_id = r.issued_records[x].response_id
    BY DEF Forgets, SameAnswer
  <2> QED BY <2>1, <2>2, <2>3
<1>2. ASSUME NEW x \in Complete(q)
      PROVE  LET id == q.issued_records[x].response_id IN
             id \in DOMAIN q.response_index /\ q.response_index[id] = x
  BY DEF Forgets, Restricts, Indexed, SameAnswer
<1>3. ASSUME NEW a \in DOMAIN q.action_index
      PROVE  LET entry == q.action_index[a] IN
             /\ entry[2] \in DOMAIN q.response_index
             /\ q.response_index[entry[2]][1] = entry[1]
             /\ a \in ActionIdsOf(q.issued_records[q.response_index[entry[2]]])
  <2> DEFINE entry == q.action_index[a]
             x == q.response_index[entry[2]]
  <2>1. entry = r.action_index[a] /\ a \in DOMAIN r.action_index
    BY DEF Forgets, Restricts
  <2>2. entry[2] \in DOMAIN q.response_index /\ x = r.response_index[entry[2]]
    BY DEF Forgets, Restricts
  <2>3. x \in Complete(q)
    BY <1>1, <2>2
  <2>4. SameAnswer(r.issued_records[x], q.issued_records[x])
    BY <2>3 DEF Forgets
  <2>5. ActionIdsOf(q.issued_records[x]) = ActionIdsOf(r.issued_records[x])
    BY <2>4, SameAnswerSame
  <2>6. x[1] = entry[1] /\ a \in ActionIdsOf(r.issued_records[x])
    <3>1. LET e == r.action_index[a] IN
          /\ r.response_index[e[2]][1] = e[1]
          /\ a \in ActionIdsOf(r.issued_records[r.response_index[e[2]]])
      BY <2>1 DEF Indexed
    <3> HIDE DEF entry
    <3> QED BY <2>1, <2>2, <3>1
  <2> QED BY <2>2, <2>5, <2>6
<1> QED BY <1>1, <1>2, <1>3 DEF Indexed

\* Forgetting keeps the receipts of what is remembered.
LEMMA ForgetReceipted ==
    ASSUME NEW r, NEW q, Forgets(r, q), Receipted(r)
    PROVE  Receipted(q)
<1>1. ASSUME NEW x \in Complete(q), NEW ref \in q.issued_records[x].receipts
      PROVE  LET f == <<x[1], ref.feedback_id>> IN
             /\ f \in DOMAIN q.feedback_receipts
             /\ q.feedback_receipts[f].expires = ref.expires
             /\ q.feedback_receipts[f].hash.response_id = q.issued_records[x].response_id
  <2> DEFINE f == <<x[1], ref.feedback_id>>
  <2>1. /\ x \in Complete(r) /\ ref \in r.issued_records[x].receipts
        /\ q.issued_records[x].response_id = r.issued_records[x].response_id
    BY DEF Forgets, SameAnswer
  <2>2. /\ f \in DOMAIN r.feedback_receipts
        /\ r.feedback_receipts[f].expires = ref.expires
        /\ r.feedback_receipts[f].hash.response_id = r.issued_records[x].response_id
    BY <2>1 DEF Receipted
  <2> HIDE DEF f
  <2>3. f \in DOMAIN q.feedback_receipts
    BY <2>2 DEF Forgets, f
  <2>4. q.feedback_receipts[f] = r.feedback_receipts[f]
    BY <2>3 DEF Forgets, Restricts
  <2> QED BY <2>1, <2>2, <2>3, <2>4 DEF f
<1>2. DOMAIN q.feedback_receipts \cap DOMAIN q.prepared_feedback_tokens = {}
  BY DEF Forgets, Restricts, Receipted
<1> QED BY <1>1, <1>2 DEF Receipted

\* Forgetting changes nothing for the preparations of what is remembered.
LEMMA ForgetTracks ==
    ASSUME NEW r, NEW q, NEW P, Forgets(r, q), Tracks(r, P)
    PROVE  Tracks(q, P)
<1> DEFINE tokens(t) == {t.prepared_feedback_tokens[x] : x \in DOMAIN t.prepared_feedback_tokens}
<1> SUFFICES ASSUME NEW p \in P \cup tokens(q), NEW x \in Complete(q),
                    q.issued_records[x].response_id = p.hash.response_id
             PROVE  /\ p.record_revision <= q.issued_records[x].record_revision
                    /\ p.record_revision = q.issued_records[x].record_revision =>
                        /\ Reportable(q.issued_records[x], p.hash.body)
                        /\ Noops(q.issued_records[x], p.hash.body) = p.noops
  BY DEF Tracks
<1>1. p \in P \cup tokens(r)
  BY DEF Forgets, Restricts
<1>2. x \in Complete(r) /\ SameAnswer(r.issued_records[x], q.issued_records[x])
  BY DEF Forgets
<1>3. /\ Reportable(q.issued_records[x], p.hash.body)
            = Reportable(r.issued_records[x], p.hash.body)
      /\ Noops(q.issued_records[x], p.hash.body) = Noops(r.issued_records[x], p.hash.body)
  BY <1>2, SameAnswerSame
<1> QED BY <1>1, <1>2, <1>3 DEF Tracks, SameAnswer

\* Forgetting changes no ledger row of what is remembered.
LEMMA ForgetLedger ==
    ASSUME NEW r, NEW q, Forgets(r, q), LedgerTracks(r)
    PROVE  LedgerTracks(q)
<1> SUFFICES ASSUME NEW x \in DOMAIN q.action_ledger_records, NEW y \in Complete(q),
                    x[1] = y[1], x[2] = q.issued_records[y].response_id,
                    x[3] \in ActionIdsOf(q.issued_records[y])
             PROVE  LET row == q.action_ledger_records[x]
                        rec == q.issued_records[y]
                    IN  /\ row.effect = x[3][2]
                        /\ row.outcome = rec.effects[row.effect].outcome
                        /\ row.status_revision <= rec.effects[row.effect].changes
                        /\ row.scope = rec.scope
  BY DEF LedgerTracks
<1>1. /\ x \in DOMAIN r.action_ledger_records
      /\ q.action_ledger_records[x] = r.action_ledger_records[x]
  BY DEF Forgets, Restricts
<1>2. y \in Complete(r) /\ SameAnswer(r.issued_records[y], q.issued_records[y])
  BY DEF Forgets
<1>3. ActionIdsOf(q.issued_records[y]) = ActionIdsOf(r.issued_records[y])
  BY <1>2, SameAnswerSame
<1> QED BY <1>1, <1>2, <1>3 DEF LedgerTracks, SameAnswer

\* What only forgets keeps the invariant.
LEMMA ForgetAgrees ==
    ASSUME NEW r, NEW q, NEW P, Forgets(r, q), Agrees(r, P)
    PROVE  Agrees(q, P)
BY ForgetIndexed, ForgetReceipted, ForgetTracks, ForgetLedger DEF Agrees

-----------------------------------------------------------------------------
(* The ways of forgetting. *)

\* What keeps every answer, its index entries and its receipts forgets at most
\* preparations and ledger rows.
LEMMA KeepsForgets ==
    ASSUME NEW r, NEW q, Indexed(r),
           Complete(q) = Complete(r),
           \A x \in Complete(r) : q.issued_records[x] = r.issued_records[x],
           q.response_index = r.response_index, q.action_index = r.action_index,
           q.feedback_receipts = r.feedback_receipts,
           Restricts(r.prepared_feedback_tokens, q.prepared_feedback_tokens),
           Restricts(r.action_ledger_records, q.action_ledger_records)
    PROVE  Forgets(r, q)
<1>1. \A x \in Complete(q) : SameAnswer(r.issued_records[x], q.issued_records[x])
  BY DEF SameAnswer
<1>2. \A id \in DOMAIN r.response_index :
        id \in DOMAIN q.response_index <=> r.response_index[id] \in Complete(q)
  BY DEF Indexed
<1>3. \A a \in DOMAIN q.action_index : q.action_index[a][2] \in DOMAIN q.response_index
  BY DEF Indexed
<1> QED BY <1>1, <1>2, <1>3 DEF Forgets, Restricts

\* A smaller map restricts the larger one.
LEMMA WithoutKeysRestricts ==
    ASSUME NEW f, NEW S PROVE Restricts(f, without_keys(f, S)) /\ Restricts(f, f)
BY DEF Restricts, without_keys

\* Pruning revisions forgets no answer.
LEMMA UnpinnedForgets ==
    ASSUME NEW r, MapsTyped(r), Indexed(r)
    PROVE  Forgets(r, without_unpinned_revisions(r))
<1> DEFINE q == without_unpinned_revisions(r)
<1>1. /\ q.issued_records = r.issued_records
      /\ q.response_index = r.response_index /\ q.action_index = r.action_index
      /\ q.feedback_receipts = r.feedback_receipts
      /\ q.prepared_feedback_tokens = r.prepared_feedback_tokens
      /\ q.action_ledger_records = r.action_ledger_records
  BY DEF MapsTyped, EmptyRoot, without_unpinned_revisions
<1> HIDE DEF q
<1>2. Complete(q) = Complete(r)
  BY <1>1 DEF Complete
<1> QED BY <1>1, <1>2, WithoutKeysRestricts, KeepsForgets DEF q

\* Forgetting twice is forgetting.
LEMMA ForgetsTransitive ==
    ASSUME NEW r, NEW s, NEW q, Forgets(r, s), Forgets(s, q)
    PROVE  Forgets(r, q)
<1>1. ASSUME NEW x \in Complete(q)
      PROVE  x \in Complete(r) /\ SameAnswer(r.issued_records[x], q.issued_records[x])
  BY DEF Forgets, SameAnswer
<1>2. /\ Restricts(r.response_index, q.response_index)
      /\ Restricts(r.action_index, q.action_index)
      /\ Restricts(r.feedback_receipts, q.feedback_receipts)
      /\ Restricts(r.prepared_feedback_tokens, q.prepared_feedback_tokens)
      /\ Restricts(r.action_ledger_records, q.action_ledger_records)
  BY DEF Forgets, Restricts
<1>3. ASSUME NEW id \in DOMAIN r.response_index
      PROVE  id \in DOMAIN q.response_index <=> r.response_index[id] \in Complete(q)
  BY DEF Forgets, Restricts
<1>4. ASSUME NEW x \in Complete(q), NEW ref \in q.issued_records[x].receipts
      PROVE  LET f == <<x[1], ref.feedback_id>> IN
             f \in DOMAIN r.feedback_receipts /\ r.feedback_receipts[f].expires = ref.expires
                => f \in DOMAIN q.feedback_receipts
  <2> DEFINE f == <<x[1], ref.feedback_id>>
  <2> SUFFICES ASSUME f \in DOMAIN r.feedback_receipts,
                      r.feedback_receipts[f].expires = ref.expires
               PROVE  f \in DOMAIN q.feedback_receipts
    OBVIOUS
  <2>1. x \in Complete(s) /\ ref \in s.issued_records[x].receipts
    BY DEF Forgets, SameAnswer
  <2>2. f \in DOMAIN s.feedback_receipts
    BY <2>1 DEF Forgets
  <2>3. s.feedback_receipts[f].expires = ref.expires
    BY <2>2 DEF Forgets, Restricts
  <2> QED BY <2>2, <2>3 DEF Forgets
<1>5. \A a \in DOMAIN q.action_index : q.action_index[a][2] \in DOMAIN q.response_index
  BY DEF Forgets
<1> QED BY <1>1, <1>2, <1>3, <1>4, <1>5 DEF Forgets

\* Pruning revisions afterwards forgets no more.
LEMMA UnpinnedAfter ==
    ASSUME NEW r, NEW q, MapsTyped(q), Indexed(r), Forgets(r, q)
    PROVE  Forgets(r, without_unpinned_revisions(q))
BY ForgetIndexed, UnpinnedForgets, ForgetsTransitive

\* Issued records go with exactly their index entries, shared action ids included.
LEMMA DropIssuedForgets ==
    ASSUME NEW r, NEW S, MapsTyped(r), Indexed(r), Receipted(r)
    PROVE  Forgets(r, DropIssued(r, S))
<1> DEFINE q == DropIssued(r, S)
           gone == S \cap Complete(r)
           ids == {r.issued_records[x].response_id : x \in gone}
           actions == UNION {ActionIdsOf(r.issued_records[x]) : x \in gone}
<1>1. /\ q.issued_records = without_keys(r.issued_records, S)
      /\ q.response_index = without_keys(r.response_index, ids)
      /\ q.action_index = without_keys(r.action_index, actions)
      /\ q.feedback_receipts = r.feedback_receipts
      /\ q.prepared_feedback_tokens = r.prepared_feedback_tokens
      /\ q.action_ledger_records = r.action_ledger_records
  BY DEF MapsTyped, EmptyRoot, DropIssued
<1> HIDE DEF q
<1>2. Complete(q) = Complete(r) \ S
  BY <1>1 DEF Complete, without_keys
<1>3. \A x \in Complete(q) : q.issued_records[x] = r.issued_records[x]
  BY <1>1 DEF Complete, without_keys
<1>4. \A id \in DOMAIN r.response_index : id \in ids <=> r.response_index[id] \in gone
  BY DEF Indexed
<1>5. \A id \in DOMAIN r.response_index :
        id \in DOMAIN q.response_index <=> r.response_index[id] \in Complete(q)
  BY <1>1, <1>2, <1>4 DEF without_keys, Indexed
<1>6. ASSUME NEW a \in DOMAIN q.action_index
      PROVE  q.action_index[a][2] \in DOMAIN q.response_index
  <2> DEFINE id == r.action_index[a][2]
  <2>1. a \in DOMAIN r.action_index /\ a \notin actions /\ q.action_index[a] = r.action_index[a]
    BY <1>1 DEF without_keys
  <2>2. id \in DOMAIN r.response_index /\ a \in ActionIdsOf(r.issued_records[r.response_index[id]])
    BY <2>1 DEF Indexed
  <2>3. r.response_index[id] \notin gone
    BY <2>1, <2>2
  <2>4. r.response_index[id] \in Complete(q)
    BY <1>2, <2>2, <2>3 DEF Indexed
  <2> QED BY <1>5, <2>1, <2>2, <2>4
<1> HIDE DEF ids, actions, gone
<1>7. \A x \in Complete(q) : SameAnswer(r.issued_records[x], q.issued_records[x])
  BY <1>3 DEF SameAnswer
<1> QED
  BY <1>1, <1>2, <1>5, <1>6, <1>7, WithoutKeysRestricts DEF Forgets, q

\* What a cleanup leaves of each map.
LEMMA CleanupFields ==
    ASSUME NEW r, NEW now, NEW w, MapsTyped(r)
    PROVE  LET q == cleanup_candidate(r, now, w)
               d == DropIssued(r, ExpiredAt(r.issued_records, now))
               Live(f) == without_keys(f, ExpiredAt(f, now))
           IN  /\ q.issued_records = [x \in DOMAIN d.issued_records |->
                        WithoutExpiredReceipts(d.issued_records[x], now)]
               /\ q.response_index = d.response_index
               /\ q.action_index = d.action_index
               /\ q.feedback_receipts = Live(r.feedback_receipts)
               /\ q.prepared_feedback_tokens = Live(r.prepared_feedback_tokens)
               /\ q.action_ledger_records = Live(r.action_ledger_records)
               /\ q.audit_records = Live(r.audit_records)
<1> DEFINE q == cleanup_candidate(r, now, w)
           e == without_expired(r, now, w)
           d == DropIssued(r, ExpiredAt(r.issued_records, now))
           Live(f) == without_keys(f, ExpiredAt(f, now))
<1>1. DOMAIN r = DOMAIN EmptyRoot
  BY DEF MapsTyped
<1>2. DOMAIN d = DOMAIN EmptyRoot
  BY <1>1 DEF DropIssued
<1>3. /\ DOMAIN e = DOMAIN EmptyRoot
      /\ e.issued_records = [x \in DOMAIN d.issued_records |->
                WithoutExpiredReceipts(d.issued_records[x], now)]
      /\ e.response_index = d.response_index
      /\ e.action_index = d.action_index
      /\ e.feedback_receipts = Live(r.feedback_receipts)
      /\ e.prepared_feedback_tokens = Live(r.prepared_feedback_tokens)
      /\ e.action_ledger_records = Live(r.action_ledger_records)
      /\ e.audit_records = Live(r.audit_records)
  <2> HIDE DEF d, Live
  <2> QED BY <1>2 DEF EmptyRoot, without_expired, d, Live
<1> HIDE DEF e, d, Live
<1>4. /\ q.issued_records = e.issued_records
      /\ q.response_index = e.response_index /\ q.action_index = e.action_index
      /\ q.feedback_receipts = e.feedback_receipts
      /\ q.prepared_feedback_tokens = e.prepared_feedback_tokens
      /\ q.action_ledger_records = e.action_ledger_records
      /\ q.audit_records = e.audit_records
  BY <1>3 DEF EmptyRoot, cleanup_candidate, without_unpinned_revisions, e
<1> QED BY <1>3, <1>4 DEF e, d, Live

\* A cleanup forgets what has expired: a reference goes when its receipt does.
LEMMA CleanupForgets ==
    ASSUME NEW r, NEW now, NEW w, MapsTyped(r), now \in Nat, Indexed(r), Receipted(r)
    PROVE  Forgets(r, cleanup_candidate(r, now, w))
<1> DEFINE q == cleanup_candidate(r, now, w)
           d == DropIssued(r, ExpiredAt(r.issued_records, now))
<1>1. Forgets(r, d) /\ MapsTyped(d)
  BY DropIssuedForgets, DropIssuedTyped
<1>2. /\ q.issued_records = [x \in DOMAIN d.issued_records |->
                                WithoutExpiredReceipts(d.issued_records[x], now)]
      /\ q.response_index = d.response_index
      /\ q.action_index = d.action_index
      /\ q.feedback_receipts =
            without_keys(r.feedback_receipts, ExpiredAt(r.feedback_receipts, now))
      /\ Restricts(r.prepared_feedback_tokens, q.prepared_feedback_tokens)
      /\ Restricts(r.action_ledger_records, q.action_ledger_records)
  BY CleanupFields, WithoutKeysRestricts
<1> HIDE DEF q, d
<1>3. \A x \in DOMAIN d.issued_records :
        LET rec == d.issued_records[x] IN
        /\ WithoutExpiredReceipts(rec, now).phase = rec.phase
        /\ rec.phase = "complete" =>
            /\ SameAnswer(rec, WithoutExpiredReceipts(rec, now))
            /\ \A ref \in WithoutExpiredReceipts(rec, now).receipts : ref.expires > now
  <2> SUFFICES ASSUME NEW x \in DOMAIN d.issued_records,
                      NEW rec, rec = d.issued_records[x]
               PROVE  /\ WithoutExpiredReceipts(rec, now).phase = rec.phase
                      /\ rec.phase = "complete" =>
                            /\ SameAnswer(rec, WithoutExpiredReceipts(rec, now))
                            /\ \A ref \in WithoutExpiredReceipts(rec, now).receipts :
                                    ref.expires > now
    OBVIOUS
  <2>1. rec \in PendingRecord \cup CompleteRecord
    BY <1>1 DEF MapsTyped, IsMap
  <2> QED
    BY <2>1 DEF WithoutExpiredReceipts, PendingRecord, CompleteRecord, SameAnswer
<1>4. Complete(q) = Complete(d)
  BY <1>2, <1>3 DEF Complete
<1>5. ASSUME NEW x \in Complete(q)
      PROVE  /\ SameAnswer(r.issued_records[x], q.issued_records[x])
             /\ \A ref \in q.issued_records[x].receipts : ref.expires > now
  <2>1. /\ q.issued_records[x] = WithoutExpiredReceipts(d.issued_records[x], now)
        /\ x \in DOMAIN d.issued_records /\ d.issued_records[x].phase = "complete"
    BY <1>2, <1>4 DEF Complete
  <2>2. SameAnswer(r.issued_records[x], d.issued_records[x])
    BY <1>1, <1>4 DEF Forgets
  <2> QED BY <1>3, <2>1, <2>2 DEF SameAnswer
<1>6. ASSUME NEW x \in Complete(q), NEW ref \in q.issued_records[x].receipts,
             NEW f \in DOMAIN r.feedback_receipts,
             r.feedback_receipts[f].expires = ref.expires
      PROVE  f \in DOMAIN q.feedback_receipts
  <2>1. ref.expires > now
    BY <1>5
  <2>2. r.feedback_receipts[f].expires \in Nat
    BY DEF MapsTyped, IsMap, Receipt
  <2> QED BY <1>2, <1>6, <2>1, <2>2 DEF without_keys, ExpiredAt
<1>7. Restricts(r.feedback_receipts, q.feedback_receipts)
  BY <1>2, WithoutKeysRestricts
<1> QED
  BY <1>1, <1>2, <1>4, <1>5, <1>6, <1>7 DEF Forgets, q

-----------------------------------------------------------------------------
(* The operations that only forget. *)

\* A caller that holds fewer preparations, or stored ones, tracks no more.
LEMMA TracksFewer ==
    ASSUME NEW r, NEW P, NEW Q, Agrees(r, P),
           Q \subseteq P \cup {r.prepared_feedback_tokens[x] :
                                    x \in DOMAIN r.prepared_feedback_tokens}
    PROVE  Agrees(r, Q)
BY DEF Agrees, Tracks

\* A reservation is no answer yet.
LEMMA ReserveCandidateForgets ==
    ASSUME NEW r, MapsTyped(r), Indexed(r), NEW s,
           <<s.key, s.request_id>> \notin DOMAIN r.issued_records, NEW owner, NEW revision
    PROVE  Forgets(r, reserve_reply_candidate(r, s, owner, revision))
<1> DEFINE q == reserve_reply_candidate(r, s, owner, revision)
           key == <<s.key, s.request_id>>
<1>1. /\ DOMAIN q.issued_records = DOMAIN r.issued_records \cup {key}
      /\ \A x \in DOMAIN r.issued_records \ {key} : q.issued_records[x] = r.issued_records[x]
      /\ q.issued_records[key].phase = "pending"
      /\ q.response_index = r.response_index /\ q.action_index = r.action_index
      /\ q.feedback_receipts = r.feedback_receipts
      /\ q.prepared_feedback_tokens = r.prepared_feedback_tokens
      /\ q.action_ledger_records = r.action_ledger_records
  BY DEF MapsTyped, EmptyRoot, reserve_reply_candidate, with_updates, Single
<1> HIDE DEF q, key
<1>2. key \notin DOMAIN r.issued_records
  BY DEF key
<1>3. Complete(q) = Complete(r) /\ \A x \in Complete(r) : q.issued_records[x] = r.issued_records[x]
  BY <1>1, <1>2 DEF Complete
<1> QED BY <1>1, <1>3, WithoutKeysRestricts, KeepsForgets DEF q

\* reserve_reply, its cleanup and its eviction only forget.
LEMMA ReserveForgets ==
    ASSUME RecordsTyped, Agrees(root, prepared), NEW s \in Submissions, ReserveReply(s)
    PROVE  Forgets(root, root')
<1> DEFINE cleaned == cleanup_candidate(root, mono, wall)
           evicted(V) == without_unpinned_revisions(DropIssued(cleaned, V))
<1>1. MapsTyped(cleaned) /\ Forgets(root, cleaned)
  BY CleanupTyped, CleanupForgets DEF RecordsTyped, Agrees
<1>2. <<s.key, s.request_id>> \notin DOMAIN cleaned.issued_records
  BY DEF ReserveReply, Reservable
<1>3. PICK V, owner, revision :
        \/ root' = evicted(V)
        \/ root' = reserve_reply_candidate(evicted(V), s, owner, revision)
  BY DEF ReserveReply
<1> HIDE DEF cleaned
<1> DEFINE dropped == DropIssued(cleaned, V)
<1>4. MapsTyped(dropped) /\ Forgets(root, dropped)
  BY <1>1, DropIssuedTyped, DropIssuedForgets, ForgetsTransitive, ForgetAgrees DEF Agrees
<1>5. DOMAIN dropped.issued_records \subseteq DOMAIN cleaned.issued_records
  BY <1>1 DEF MapsTyped, EmptyRoot, DropIssued, without_keys
<1> HIDE DEF dropped
<1>6. /\ MapsTyped(evicted(V)) /\ Forgets(root, evicted(V)) /\ Indexed(evicted(V))
      /\ evicted(V).issued_records = dropped.issued_records
  BY <1>4, UnpinnedTyped, UnpinnedAfter, UnpinnedFields, ForgetIndexed DEF dropped, Agrees
<1> HIDE DEF evicted
<1>7. Forgets(evicted(V), reserve_reply_candidate(evicted(V), s, owner, revision))
  BY <1>2, <1>5, <1>6, ReserveCandidateForgets
<1> QED BY <1>3, <1>6, <1>7, ForgetsTransitive

\* abort_reply removes a record that is no answer.
LEMMA AbortForgets ==
    ASSUME NEW r, NEW h, MapsTyped(r), Indexed(r), Owns(r, h)
    PROVE  Forgets(r, abort_reply_candidate(r, h))
<1> DEFINE key == <<h.key, h.request_id>>
           base == [r EXCEPT !.issued_records = without_keys(@, {key}),
                             !.pending_request_by_state = without_keys(@, {h.key})]
<1>1. key \in Pending(r)
  BY DEF Owns
<1>2. /\ MapsTyped(base)
      /\ base.issued_records = without_keys(r.issued_records, {key})
      /\ base.response_index = r.response_index /\ base.action_index = r.action_index
      /\ base.feedback_receipts = r.feedback_receipts
      /\ base.prepared_feedback_tokens = r.prepared_feedback_tokens
      /\ base.action_ledger_records = r.action_ledger_records
  BY WithoutKeysIsMap DEF MapsTyped, EmptyRoot
<1> HIDE DEF base, key
<1>3. /\ Complete(base) = Complete(r)
      /\ \A x \in Complete(r) : base.issued_records[x] = r.issued_records[x]
  BY <1>1, <1>2 DEF Complete, Pending, without_keys
<1>4. Forgets(r, base)
  BY <1>2, <1>3, WithoutKeysRestricts, KeepsForgets
<1>5. Forgets(r, without_unpinned_revisions(base))
  BY <1>2, <1>4, UnpinnedAfter
<1> QED BY <1>5 DEF abort_reply_candidate, base, key

\* Nothing but preparations, sessions and ledger rows is dropped.
LEMMA DropsForget ==
    ASSUME NEW r, MapsTyped(r), Indexed(r), NEW base, MapsTyped(base),
           base.issued_records = r.issued_records,
           base.response_index = r.response_index, base.action_index = r.action_index,
           base.feedback_receipts = r.feedback_receipts,
           Restricts(r.prepared_feedback_tokens, base.prepared_feedback_tokens),
           Restricts(r.action_ledger_records, base.action_ledger_records)
    PROVE  Forgets(r, without_unpinned_revisions(base))
<1>1. Complete(base) = Complete(r)
  BY DEF Complete
<1>2. Forgets(r, base)
  BY <1>1, KeepsForgets
<1> QED BY <1>2, UnpinnedAfter

\* A refused preparation is dropped.
LEMMA DropTokenForgets ==
    ASSUME NEW r, NEW p, MapsTyped(r), Indexed(r)
    PROVE  Forgets(r, DropToken(r, p))
<1> DEFINE f == <<p.key, p.feedback_id>>
           base == [r EXCEPT !.prepared_feedback_tokens = without_keys(@, {f})]
<1>1. /\ MapsTyped(base)
      /\ base.issued_records = r.issued_records
      /\ base.response_index = r.response_index /\ base.action_index = r.action_index
      /\ base.feedback_receipts = r.feedback_receipts
      /\ base.prepared_feedback_tokens = without_keys(r.prepared_feedback_tokens, {f})
      /\ base.action_ledger_records = r.action_ledger_records
  BY WithoutKeysIsMap DEF MapsTyped, EmptyRoot
<1> HIDE DEF base, f
<1>2. Forgets(r, without_unpinned_revisions(base))
  BY <1>1, WithoutKeysRestricts, DropsForget
<1> QED BY <1>2 DEF DropToken, base, f

\* Evicting sessions forgets no answer.
LEMMA DropSessionsForgets ==
    ASSUME NEW r, NEW V, MapsTyped(r), Indexed(r)
    PROVE  Forgets(r, DropSessions(r, V))
<1> DEFINE base == [r EXCEPT
               !.conversation_turns = without_keys(r.conversation_turns, V),
               !.clarification_records = without_keys(r.clarification_records, V)]
<1>1. /\ MapsTyped(base)
      /\ base.issued_records = r.issued_records
      /\ base.response_index = r.response_index /\ base.action_index = r.action_index
      /\ base.feedback_receipts = r.feedback_receipts
      /\ base.prepared_feedback_tokens = r.prepared_feedback_tokens
      /\ base.action_ledger_records = r.action_ledger_records
  BY WithoutKeysIsMap DEF MapsTyped, EmptyRoot, without_keys
<1> HIDE DEF base
<1>2. Forgets(r, without_unpinned_revisions(base))
  BY <1>1, WithoutKeysRestricts, DropsForget
<1> QED BY <1>2 DEF DropSessions, base

\* Evicting ledger rows forgets no answer.
LEMMA DropRowsForgets ==
    ASSUME NEW r, NEW V, MapsTyped(r), Indexed(r)
    PROVE  Forgets(r, without_unpinned_revisions(
               [r EXCEPT !.action_ledger_records = without_keys(@, V)]))
<1> DEFINE base == [r EXCEPT !.action_ledger_records = without_keys(@, V)]
<1>1. /\ MapsTyped(base)
      /\ base.issued_records = r.issued_records
      /\ base.response_index = r.response_index /\ base.action_index = r.action_index
      /\ base.feedback_receipts = r.feedback_receipts
      /\ base.prepared_feedback_tokens = r.prepared_feedback_tokens
      /\ base.action_ledger_records = without_keys(r.action_ledger_records, V)
  BY WithoutKeysIsMap DEF MapsTyped, EmptyRoot
<1> HIDE DEF base
<1>2. Forgets(r, without_unpinned_revisions(base))
  BY <1>1, WithoutKeysRestricts, DropsForget
<1> QED BY <1>2 DEF base

-----------------------------------------------------------------------------
(* The operations that add something. *)

\* A response identifier that nothing remembers.
NewResponse(r, P, id) ==
    /\ id \notin DOMAIN r.response_index
    /\ \A x \in DOMAIN r.action_ledger_records : x[2] # id
    /\ \A p \in P \cup {r.prepared_feedback_tokens[x] : x \in DOMAIN r.prepared_feedback_tokens} :
            p.hash.response_id # id

\* commit_reply writes an answer nobody has reported on, prepared or indexed.
LEMMA CommitCandidateAgrees ==
    ASSUME NEW r, NEW P, MapsTyped(r), Agrees(r, P), NEW h, Owns(r, h),
           NEW reply, NEW response, NewResponse(r, P, response), NEW scope, NEW A
    PROVE  Agrees(commit_reply_candidate(r, h, reply, response, scope, A), P)
<1> DEFINE q == commit_reply_candidate(r, h, reply, response, scope, A)
           key == <<h.key, h.request_id>>
           record == issued_record(h, reply, response, scope)
<1>1. /\ q.issued_records = with_updates(r.issued_records, Single(key, record))
      /\ q.response_index = with_updates(r.response_index, Single(response, key))
      /\ q.action_index = with_updates(r.action_index,
                [a \in ActionIdsOf(record) |-> <<h.key, response, a[2]>>])
      /\ q.feedback_receipts = r.feedback_receipts
      /\ q.prepared_feedback_tokens = r.prepared_feedback_tokens
      /\ q.action_ledger_records = r.action_ledger_records
  BY DEF MapsTyped, EmptyRoot, commit_reply_candidate
<1>2. /\ record.phase = "complete" /\ record.response_id = response
      /\ record.receipts = {}
  BY DEF issued_record
<1>3. key \in Pending(r) /\ key \notin Complete(r) /\ key[1] = h.key
  BY DEF Owns, Pending, Complete
<1> HIDE DEF q, key, record
<1>4. /\ Complete(q) = Complete(r) \cup {key}
      /\ q.issued_records[key] = record
      /\ \A x \in Complete(r) : q.issued_records[x] = r.issued_records[x]
  BY <1>1, <1>2, <1>3 DEF Complete, with_updates, Single
<1>5. /\ DOMAIN q.response_index = DOMAIN r.response_index \cup {response}
      /\ q.response_index[response] = key
      /\ \A id \in DOMAIN r.response_index : q.response_index[id] = r.response_index[id]
  BY <1>1 DEF with_updates, Single, NewResponse
<1>6. /\ DOMAIN q.action_index = DOMAIN r.action_index \cup ActionIdsOf(record)
      /\ \A a \in ActionIdsOf(record) : q.action_index[a] = <<h.key, response, a[2]>>
      /\ \A a \in DOMAIN r.action_index \ ActionIdsOf(record) :
            q.action_index[a] = r.action_index[a]
  BY <1>1 DEF with_updates
<1>7. Indexed(q)
  <2>1. ASSUME NEW id \in DOMAIN q.response_index
        PROVE  /\ q.response_index[id] \in Complete(q)
               /\ q.issued_records[q.response_index[id]].response_id = id
    BY <1>2, <1>4, <1>5 DEF Agrees, Indexed
  <2>2. ASSUME NEW x \in Complete(q)
        PROVE  LET id == q.issued_records[x].response_id IN
               id \in DOMAIN q.response_index /\ q.response_index[id] = x
    BY <1>2, <1>4, <1>5 DEF Agrees, Indexed
  <2>3. ASSUME NEW a \in DOMAIN q.action_index
        PROVE  LET entry == q.action_index[a] IN
               /\ entry[2] \in DOMAIN q.response_index
               /\ q.response_index[entry[2]][1] = entry[1]
               /\ a \in ActionIdsOf(q.issued_records[q.response_index[entry[2]]])
    <3>1. CASE a \in ActionIdsOf(record)
      <4>1. q.action_index[a][1] = h.key /\ q.action_index[a][2] = response
        BY <1>6, <3>1
      <4> QED BY <1>3, <1>4, <1>5, <3>1, <4>1
    <3>2. CASE a \in DOMAIN r.action_index \ ActionIdsOf(record)
      <4> DEFINE entry == r.action_index[a]
                 x == r.response_index[entry[2]]
      <4>1. /\ entry[2] \in DOMAIN r.response_index /\ x[1] = entry[1]
            /\ a \in ActionIdsOf(r.issued_records[x]) /\ x \in Complete(r)
        BY <3>2 DEF Agrees, Indexed
      <4>2. q.action_index[a] = entry
        BY <1>6, <3>2
      <4>3. entry[2] \in DOMAIN q.response_index /\ q.response_index[entry[2]] = x
        BY <1>5, <4>1
      <4>4. q.issued_records[x] = r.issued_records[x]
        BY <1>4, <4>1
      <4> HIDE DEF entry, x
      <4> QED BY <4>1, <4>2, <4>3, <4>4
    <3> QED BY <1>6, <3>1, <3>2
  <2> QED BY <2>1, <2>2, <2>3 DEF Indexed
<1>8. Receipted(q)
  BY <1>1, <1>2, <1>4 DEF Agrees, Receipted
<1>9. Tracks(q, P)
  BY <1>1, <1>2, <1>4 DEF Agrees, Tracks, NewResponse
<1>10. LedgerTracks(q)
  <2> DEFINE Row(x, y, rec) ==
        LET row == r.action_ledger_records[x] IN
        x[1] = y[1] /\ x[2] = rec.response_id /\ x[3] \in ActionIdsOf(rec) =>
            /\ row.effect = x[3][2]
            /\ row.outcome = rec.effects[row.effect].outcome
            /\ row.status_revision <= rec.effects[row.effect].changes
            /\ row.scope = rec.scope
  <2>1. ASSUME NEW x \in DOMAIN r.action_ledger_records, NEW y \in Complete(r)
        PROVE  Row(x, y, r.issued_records[y])
    BY DEF Agrees, LedgerTracks
  <2>2. ASSUME NEW x \in DOMAIN r.action_ledger_records
        PROVE  Row(x, key, record)
    BY <1>2 DEF NewResponse
  <2>3. ASSUME NEW x \in DOMAIN r.action_ledger_records, NEW y \in Complete(q)
        PROVE  Row(x, y, q.issued_records[y])
    <3> HIDE DEF Row
    <3> QED BY <1>4, <2>1, <2>2
  <2> DEFINE Ledger(rows) ==
        \A x \in DOMAIN rows, y \in Complete(q) :
            LET row == rows[x]
                rec == q.issued_records[y]
            IN  x[1] = y[1] /\ x[2] = rec.response_id /\ x[3] \in ActionIdsOf(rec) =>
                    /\ row.effect = x[3][2]
                    /\ row.outcome = rec.effects[row.effect].outcome
                    /\ row.status_revision <= rec.effects[row.effect].changes
                    /\ row.scope = rec.scope
  <2>4. Ledger(r.action_ledger_records)
    BY <2>3
  <2>5. Ledger(q.action_ledger_records)
    <3> HIDE DEF Ledger
    <3> QED BY <1>1, <2>4
  <2> QED BY <2>5 DEF LedgerTracks
<1> QED BY <1>7, <1>8, <1>9, <1>10 DEF Agrees, q

\* commit_reply keeps the invariant.
LEMMA CommitAgrees ==
    ASSUME RecordsTyped, Agrees(root, prepared), NEW h \in held, NEW reply \in Replies,
           NEW scope \in Scopes, CommitReply(h, reply, scope)
    PROVE  Agrees(root', prepared')
<1>1. PICK response \in Drawn(FreshResponses), A \in AuditVictims(root) :
        \E V : root' = DropSessions(
                   commit_reply_candidate(root, h, reply, response, scope, A), V)
  BY DEF CommitReply
<1>2. response \in FreshResponses
  BY DrawnIn
<1>3. NewResponse(root, prepared, response)
  BY <1>2 DEF FreshResponses, NewResponse, TokenRecords
<1>4. MapsTyped(commit_reply_candidate(root, h, reply, response, scope, A))
  BY <1>2, CommitCandidateTyped DEF CommitReply, FreshResponses
<1>5. Agrees(commit_reply_candidate(root, h, reply, response, scope, A), prepared)
  BY <1>3, CommitCandidateAgrees DEF CommitReply, RecordsTyped
<1> QED BY <1>1, <1>4, <1>5, DropSessionsForgets, ForgetAgrees DEF CommitReply, Agrees

\* prepare_feedback keeps the invariant: it prepares what the answer admits now.
LEMMA PrepareAgrees ==
    ASSUME RecordsTyped, Agrees(root, prepared), NEW k, NEW f, NEW hash,
           PrepareFeedback(k, f, hash)
    PROVE  Agrees(root', prepared')
<1> DEFINE r == cleanup_candidate(root, mono, wall)
           key == <<k, hash.request_id>>
           rec == r.issued_records[key]
<1>1. MapsTyped(r) /\ Agrees(r, prepared)
  BY CleanupTyped, CleanupForgets, ForgetAgrees DEF RecordsTyped, Agrees
<1>2. /\ Resolves(r, k, hash) /\ Unreceipted(r, k, f) /\ Reportable(rec, hash.body)
  BY DEF PrepareFeedback
<1>3. PICK p : /\ p.hash = hash /\ p.record_revision = rec.record_revision
               /\ p.noops = Noops(rec, hash.body)
               /\ root' = [r EXCEPT !.prepared_feedback_tokens =
                               with_updates(@, Single(<<k, f>>, p))]
               /\ prepared' = prepared \cup {p}
  BY DEF PrepareFeedback
<1> HIDE DEF r, rec
<1>4. /\ root'.issued_records = r.issued_records
      /\ root'.response_index = r.response_index /\ root'.action_index = r.action_index
      /\ root'.feedback_receipts = r.feedback_receipts
      /\ root'.action_ledger_records = r.action_ledger_records
      /\ root'.prepared_feedback_tokens =
            with_updates(r.prepared_feedback_tokens, Single(<<k, f>>, p))
  BY <1>1, <1>3 DEF MapsTyped, EmptyRoot
<1>5. Complete(root') = Complete(r)
  BY <1>4 DEF Complete
<1>6. Indexed(root') /\ LedgerTracks(root')
  <2>1. Indexed(r) /\ LedgerTracks(r)
    BY <1>1 DEF Agrees
  <2>2. Indexed(root')
    BY <2>1, <1>4, <1>5, SameIndexed, Zenon
  <2>3. LedgerTracks(root')
    BY <2>1, <1>4, <1>5, SameLedger, Zenon
  <2> QED BY <2>2, <2>3
<1>7. Receipted(root')
  BY <1>1, <1>2, <1>4, <1>5 DEF Agrees, Receipted, Unreceipted, with_updates, Single
<1>8. Tracks(root', prepared')
  <2> SUFFICES ASSUME NEW o \in prepared' \cup {root'.prepared_feedback_tokens[x] :
                                    x \in DOMAIN root'.prepared_feedback_tokens},
                      NEW x \in Complete(r),
                      r.issued_records[x].response_id = o.hash.response_id
               PROVE  /\ o.record_revision <= r.issued_records[x].record_revision
                      /\ o.record_revision = r.issued_records[x].record_revision =>
                            /\ Reportable(r.issued_records[x], o.hash.body)
                            /\ Noops(r.issued_records[x], o.hash.body) = o.noops
    BY <1>4, <1>5 DEF Tracks
  <2>1. CASE o = p
    <3>1. r.response_index[hash.response_id] = key
      BY <1>2 DEF Resolves
    <3>2. x = key
      BY <1>1, <1>3, <2>1, <3>1 DEF Agrees, Indexed
    <3>3. rec \in CompleteRecord
      BY <1>1, <3>2 DEF rec, Complete, MapsTyped, IsMap, CompleteRecord, PendingRecord
    <3> QED BY <1>2, <1>3, <2>1, <3>2, <3>3 DEF rec, CompleteRecord
  <2>2. CASE o # p
    <3> DEFINE tokens == root'.prepared_feedback_tokens
    <3>1. \A y \in DOMAIN tokens :
            tokens[y] = p \/ (/\ y \in DOMAIN r.prepared_feedback_tokens
                             /\ tokens[y] = r.prepared_feedback_tokens[y])
      BY <1>4 DEF with_updates, Single
    <3> HIDE DEF tokens
    <3>2. o \in prepared \cup {r.prepared_feedback_tokens[y] :
                                    y \in DOMAIN r.prepared_feedback_tokens}
      BY <1>3, <2>2, <3>1 DEF tokens
    <3> QED BY <1>1, <3>2 DEF Agrees, Tracks
  <2> QED BY <2>1, <2>2
<1> QED BY <1>6, <1>7, <1>8 DEF Agrees

\* What a preparation that is still current was made of is still so.
LEMMA StillApplies ==
    ASSUME NEW r, NEW P, Agrees(r, P), NEW p \in P, StillCurrent(r, p)
    PROVE  LET rec == r.issued_records[<<p.key, p.hash.request_id>>] IN
           /\ <<p.key, p.hash.request_id>> \in Complete(r)
           /\ rec.response_id = p.hash.response_id
           /\ Reportable(rec, p.hash.body) /\ Noops(rec, p.hash.body) = p.noops
<1> DEFINE key == <<p.key, p.hash.request_id>>
           rec == r.issued_records[key]
<1>1. key \in Complete(r) /\ r.response_index[p.hash.response_id] = key
      /\ p.hash.response_id \in DOMAIN r.response_index
  BY DEF StillCurrent, Resolves
<1>2. rec.response_id = p.hash.response_id
  BY <1>1 DEF Agrees, Indexed
<1>3. rec.record_revision = p.record_revision
  BY DEF StillCurrent
<1> HIDE DEF key
<1> QED BY <1>1, <1>2, <1>3 DEF Agrees, Tracks, key

\* A report changes the effects it is about, and adds its receipt.
LEMMA RevisedRecordFields ==
    ASSUME NEW rec \in CompleteRecord, NEW p
    PROVE  LET new == revised_record(rec, p) IN
           /\ new.phase = "complete" /\ new.response_id = rec.response_id
           /\ new.positional = rec.positional /\ new.issued = rec.issued
           /\ new.scope = rec.scope /\ new.request_hash = rec.request_hash
           /\ new.effects = apply_effect_transitions(rec.effects, p)
           /\ new.receipts = rec.receipts \cup
                {[feedback_id |-> p.feedback_id, expires |-> mono + IssuedTtl]}
           /\ new.record_revision = rec.record_revision + 1
           /\ ActionIdsOf(new) = ActionIdsOf(rec)
<1> DEFINE new == revised_record(rec, p)
<1>1. /\ new.phase = "complete" /\ new.response_id = rec.response_id
      /\ new.positional = rec.positional /\ new.issued = rec.issued
      /\ new.scope = rec.scope /\ new.request_hash = rec.request_hash
      /\ new.effects = apply_effect_transitions(rec.effects, p)
      /\ new.receipts = rec.receipts \cup
                {[feedback_id |-> p.feedback_id, expires |-> mono + IssuedTtl]}
      /\ new.record_revision = rec.record_revision + 1
  BY DEF revised_record, CompleteRecord
<1> HIDE DEF new
<1>2. ActionIdsOf(new) = ActionIdsOf(rec)
  BY <1>1 DEF ActionIdsOf
<1> QED BY <1>1, <1>2 DEF new

\* What commit_feedback publishes of each map before the ledger is cut.
LEMMA FeedbackFields ==
    ASSUME RecordsTyped, NEW p
    PROVE  LET q == commit_feedback_candidate(root, p)
               key == <<p.key, p.hash.request_id>>
               rec == root.issued_records[key]
               revised == revised_record(rec, p)
           IN  /\ q.issued_records = with_updates(root.issued_records, Single(key, revised))
               /\ q.response_index = root.response_index
               /\ q.action_index = root.action_index
               /\ q.feedback_receipts = with_updates(root.feedback_receipts,
                        Single(<<p.key, p.feedback_id>>,
                            [hash |-> p.hash, record_revision |-> revised.record_revision,
                             expires |-> mono + IssuedTtl]))
               /\ q.prepared_feedback_tokens =
                    without_keys(root.prepared_feedback_tokens, {<<p.key, p.feedback_id>>})
               /\ q.action_ledger_records = with_updates(root.action_ledger_records,
                        derive_ledger_updates(root, p, rec))
BY DEF RecordsTyped, MapsTyped, EmptyRoot, commit_feedback_candidate

\* A report's rows say what its answer says after the report.
LEMMA UpdatesTrack ==
    ASSUME RecordsTyped, NEW p \in prepared, NEW rec \in CompleteRecord,
           NEW x \in LedgerKey, x[1] = p.key, x[2] = rec.response_id,
           x[3] \in ActionIdsOf(rec), Noops(rec, p.hash.body) = p.noops,
           x \in DOMAIN root.action_ledger_records =>
                LET row == root.action_ledger_records[x] IN
                /\ row.effect = x[3][2]
                /\ row.outcome = rec.effects[row.effect].outcome
                /\ row.status_revision <= rec.effects[row.effect].changes
                /\ row.scope = rec.scope,
           x \in DOMAIN with_updates(root.action_ledger_records,
                                     derive_ledger_updates(root, p, rec))
    PROVE  LET row == with_updates(root.action_ledger_records,
                                   derive_ledger_updates(root, p, rec))[x]
               effects == apply_effect_transitions(rec.effects, p)
           IN  /\ row.effect = x[3][2]
               /\ row.outcome = effects[row.effect].outcome
               /\ row.status_revision <= effects[row.effect].changes
               /\ row.scope = rec.scope
<1> DEFINE e == x[3][2]
           updates == derive_ledger_updates(root, p, rec)
           keyOf(o) == <<p.key, rec.response_id, action_id(rec.response_id, rec.positional, o)>>
           effects == apply_effect_transitions(rec.effects, p)
<1>1. rec.positional \in BOOLEAN /\ rec.effects \in [Effects -> EffectState]
  BY DEF CompleteRecord
<1>2. e \in rec.issued \cap SendActions /\ x[3] = action_id(rec.response_id, rec.positional, e)
  <2>1. PICK o \in rec.issued \cap SendActions :
            x[3] = action_id(rec.response_id, rec.positional, o)
    BY DEF ActionIdsOf
  <2> QED BY <1>1, <2>1 DEF action_id
<1>3. x = keyOf(e)
  BY <1>2 DEF LedgerKey
<1>4. DOMAIN updates = {keyOf(o) : o \in ReportedActions(p)}
  BY DEF derive_ledger_updates
<1>5. \A o : keyOf(o) = x => o = e
  BY <1>1, <1>2 DEF action_id
<1>6. e \in Effects /\ rec.effects[e] \in EffectState
  BY <1>1, <1>2, EffectAssumption
<1>7. CASE x \in DOMAIN updates
  <2>1. e \in ReportedActions(p)
    BY <1>4, <1>5, <1>7
  <2>2. effects[e] = [outcome |-> p.hash.body[e], changes |-> rec.effects[e].changes + 1]
    BY <1>6, <2>1 DEF apply_effect_transitions, ReportedActions
  <2>3. with_updates(root.action_ledger_records, updates)[x] = updates[x]
    BY <1>7 DEF with_updates
  <2>4. /\ updates[x].effect = e /\ updates[x].outcome = p.hash.body[e]
        /\ updates[x].scope = rec.scope
        /\ updates[x].status_revision =
              IF x \in DOMAIN root.action_ledger_records
              THEN root.action_ledger_records[x].status_revision + 1 ELSE 1
    BY <1>4, <1>7 DEF derive_ledger_updates
  <2>5. x \in DOMAIN root.action_ledger_records =>
            root.action_ledger_records[x].status_revision \in Nat
    BY DEF RecordsTyped, MapsTyped, IsMap, LedgerRow
  <2> HIDE DEF updates, effects, e
  <2>6. rec.effects[e].changes \in Nat
    BY <1>6 DEF EffectState
  <2>7. updates[x].status_revision <= rec.effects[e].changes + 1
    BY <2>4, <2>5, <2>6 DEF e
  <2> QED BY <2>2, <2>3, <2>4, <2>7 DEF updates, effects, e
<1>8. CASE x \notin DOMAIN updates
  <2>1. e \notin ReportedActions(p)
    BY <1>3, <1>4, <1>8
  <2>2. effects[e] = rec.effects[e]
    BY <1>2, <1>6, <2>1 DEF apply_effect_transitions, ReportedActions
  <2>3. /\ with_updates(root.action_ledger_records, updates)[x] = root.action_ledger_records[x]
        /\ x \in DOMAIN root.action_ledger_records
    BY <1>8 DEF with_updates
  <2> HIDE DEF updates, effects
  <2> QED BY <2>2, <2>3 DEF updates, effects
<1> QED BY <1>7, <1>8

\* The candidate of commit_feedback keeps the invariant.
LEMMA FeedbackCandidateAgrees ==
    ASSUME RecordsTyped, Agrees(root, prepared), NEW p \in prepared, CommitFeedback(p)
    PROVE  Agrees(commit_feedback_candidate(root, p), prepared)
<1> DEFINE q == commit_feedback_candidate(root, p)
           key == <<p.key, p.hash.request_id>>
           f == <<p.key, p.feedback_id>>
           rec == root.issued_records[key]
           revised == revised_record(rec, p)
           updates == derive_ledger_updates(root, p, rec)
           tokens(r) == {r.prepared_feedback_tokens[x] : x \in DOMAIN r.prepared_feedback_tokens}
<1>1. /\ key \in Complete(root) /\ rec.response_id = p.hash.response_id
      /\ Noops(rec, p.hash.body) = p.noops
  BY StillApplies DEF CommitFeedback
<1>2. rec \in CompleteRecord
  BY <1>1 DEF RecordsTyped, Complete, MapsTyped, IsMap, CompleteRecord, PendingRecord
<1>3. /\ f \in DOMAIN root.prepared_feedback_tokens
      /\ f \notin DOMAIN root.feedback_receipts
  BY DEF CommitFeedback, TokenStored, Agrees, Receipted
<1>4. /\ revised.phase = "complete" /\ revised.response_id = rec.response_id
      /\ revised.scope = rec.scope
      /\ revised.effects = apply_effect_transitions(rec.effects, p)
      /\ revised.receipts = rec.receipts \cup
            {[feedback_id |-> p.feedback_id, expires |-> mono + IssuedTtl]}
      /\ revised.record_revision = rec.record_revision + 1
      /\ ActionIdsOf(revised) = ActionIdsOf(rec)
  BY <1>2, RevisedRecordFields
<1>5. /\ q.issued_records = with_updates(root.issued_records, Single(key, revised))
      /\ q.response_index = root.response_index /\ q.action_index = root.action_index
      /\ q.feedback_receipts = with_updates(root.feedback_receipts,
            Single(f, [hash |-> p.hash, record_revision |-> revised.record_revision,
                       expires |-> mono + IssuedTtl]))
      /\ q.prepared_feedback_tokens = without_keys(root.prepared_feedback_tokens, {f})
      /\ q.action_ledger_records = with_updates(root.action_ledger_records, updates)
  BY FeedbackFields
<1>6. MapsTyped(root) /\ MapsTyped(q)
  BY CommitFeedbackCandidateTyped DEF RecordsTyped
<1>7. key[1] = p.key
  OBVIOUS
<1> HIDE DEF q, key, rec, revised, updates, f
<1>8. /\ Complete(q) = Complete(root)
      /\ q.issued_records[key] = revised
      /\ \A x \in Complete(root) \ {key} : q.issued_records[x] = root.issued_records[x]
  BY <1>1, <1>4, <1>5 DEF Complete, with_updates, Single
<1>9. \A x \in Complete(root) :
        /\ q.issued_records[x].response_id = root.issued_records[x].response_id
        /\ ActionIdsOf(q.issued_records[x]) = ActionIdsOf(root.issued_records[x])
  BY <1>4, <1>8 DEF rec
<1>10. Indexed(q)
  <2>1. Indexed(root)
    BY DEF Agrees
  <2>2. ASSUME NEW id \in DOMAIN q.response_index
        PROVE  /\ q.response_index[id] \in Complete(q)
               /\ q.issued_records[q.response_index[id]].response_id = id
    BY <1>5, <1>8, <1>9, <2>1 DEF Indexed
  <2>3. ASSUME NEW x \in Complete(q)
        PROVE  LET id == q.issued_records[x].response_id IN
               id \in DOMAIN q.response_index /\ q.response_index[id] = x
    BY <1>5, <1>8, <1>9, <2>1 DEF Indexed
  <2>4. ASSUME NEW a \in DOMAIN q.action_index
        PROVE  LET entry == q.action_index[a] IN
               /\ entry[2] \in DOMAIN q.response_index
               /\ q.response_index[entry[2]][1] = entry[1]
               /\ a \in ActionIdsOf(q.issued_records[q.response_index[entry[2]]])
    <3> DEFINE entry == root.action_index[a]
               x == root.response_index[entry[2]]
    <3>1. /\ entry[2] \in DOMAIN root.response_index /\ x[1] = entry[1]
          /\ a \in ActionIdsOf(root.issued_records[x]) /\ x \in Complete(root)
      BY <1>5, <2>1 DEF Indexed
    <3>2. ActionIdsOf(q.issued_records[x]) = ActionIdsOf(root.issued_records[x])
      BY <1>9, <3>1
    <3>3. q.action_index[a] = entry /\ q.response_index = root.response_index
      BY <1>5
    <3> QED BY <3>1, <3>2, <3>3
  <2> QED BY <2>2, <2>3, <2>4 DEF Indexed
<1>11. Receipted(q)
  <2>1. ASSUME NEW x \in Complete(q), NEW ref \in q.issued_records[x].receipts
        PROVE  LET g == <<x[1], ref.feedback_id>> IN
               /\ g \in DOMAIN q.feedback_receipts
               /\ q.feedback_receipts[g].expires = ref.expires
               /\ q.feedback_receipts[g].hash.response_id = q.issued_records[x].response_id
    <3> DEFINE g == <<x[1], ref.feedback_id>>
    <3>1. CASE ref \in root.issued_records[x].receipts
      <4>1. /\ g \in DOMAIN root.feedback_receipts
            /\ root.feedback_receipts[g].expires = ref.expires
            /\ root.feedback_receipts[g].hash.response_id = root.issued_records[x].response_id
        BY <1>8, <3>1 DEF Agrees, Receipted
      <4>2. g # f
        BY <1>3, <4>1
      <4> HIDE DEF g
      <4>3. g \in DOMAIN q.feedback_receipts /\ q.feedback_receipts[g] = root.feedback_receipts[g]
        BY <1>5, <4>1, <4>2 DEF with_updates, Single
      <4> QED BY <1>8, <1>9, <4>1, <4>3 DEF g
    <3>2. CASE ref \notin root.issued_records[x].receipts
      <4>1. x = key /\ ref = [feedback_id |-> p.feedback_id, expires |-> mono + IssuedTtl]
        BY <1>4, <1>8, <3>2 DEF rec
      <4>2. g = f /\ ref.expires = mono + IssuedTtl
        BY <1>7, <4>1 DEF f
      <4>3. /\ f \in DOMAIN q.feedback_receipts
            /\ q.feedback_receipts[f].expires = mono + IssuedTtl
            /\ q.feedback_receipts[f].hash = p.hash
        BY <1>5 DEF with_updates, Single
      <4> HIDE DEF g
      <4> QED BY <1>1, <1>4, <1>8, <4>1, <4>2, <4>3 DEF g
    <3> QED BY <3>1, <3>2
  <2>2. DOMAIN q.feedback_receipts \cap DOMAIN q.prepared_feedback_tokens = {}
    BY <1>5 DEF with_updates, without_keys, Single, Agrees, Receipted
  <2> QED BY <2>1, <2>2 DEF Receipted
<1>12. Tracks(q, prepared)
  <2> SUFFICES ASSUME NEW o \in prepared \cup tokens(q), NEW x \in Complete(root),
                      q.issued_records[x].response_id = o.hash.response_id
               PROVE  /\ o.record_revision <= q.issued_records[x].record_revision
                      /\ o.record_revision = q.issued_records[x].record_revision =>
                            /\ Reportable(q.issued_records[x], o.hash.body)
                            /\ Noops(q.issued_records[x], o.hash.body) = o.noops
    BY <1>8 DEF Tracks
  <2>1. o \in prepared \cup tokens(root)
    BY <1>5 DEF without_keys
  <2>2. o \in PreparedFeedback
    BY <1>6, <2>1 DEF RecordsTyped, MapsTyped, IsMap
  <2>3. root.issued_records[x].response_id = o.hash.response_id
    BY <1>9
  <2>4. CASE x = key
    <3>1. o.record_revision <= rec.record_revision
      BY <2>1, <2>3, <2>4 DEF Agrees, Tracks, rec
    <3>2. o.record_revision \in Nat /\ rec.record_revision \in Nat
      BY <1>2, <2>2 DEF PreparedFeedback, CompleteRecord
    <3>3. revised.record_revision > o.record_revision
      BY <1>4, <3>1, <3>2
    <3> QED BY <1>4, <1>8, <2>4, <3>2, <3>3
  <2>5. CASE x # key
    BY <1>8, <2>1, <2>3, <2>5 DEF Agrees, Tracks
  <2> QED BY <2>4, <2>5
<1>13. LedgerTracks(q)
  <2> SUFFICES ASSUME NEW x \in DOMAIN q.action_ledger_records, NEW y \in Complete(root),
                      x[1] = y[1], x[2] = q.issued_records[y].response_id,
                      x[3] \in ActionIdsOf(q.issued_records[y])
               PROVE  LET row == q.action_ledger_records[x]
                          new == q.issued_records[y]
                      IN  /\ row.effect = x[3][2]
                          /\ row.outcome = new.effects[row.effect].outcome
                          /\ row.status_revision <= new.effects[row.effect].changes
                          /\ row.scope = new.scope
    BY <1>8 DEF LedgerTracks
  <2>1. /\ x[2] = root.issued_records[y].response_id
        /\ x[3] \in ActionIdsOf(root.issued_records[y])
    BY <1>9
  <2>2. x \in DOMAIN root.action_ledger_records =>
            LET row == root.action_ledger_records[x]
                old == root.issued_records[y]
            IN  /\ row.effect = x[3][2]
                /\ row.outcome = old.effects[row.effect].outcome
                /\ row.status_revision <= old.effects[row.effect].changes
                /\ row.scope = old.scope
    BY <2>1 DEF Agrees, LedgerTracks
  <2>3. CASE y = key
    <3>1. x \in LedgerKey
      BY <1>6 DEF MapsTyped, IsMap
    <3>2. x[1] = p.key /\ x[2] = rec.response_id /\ x[3] \in ActionIdsOf(rec)
      BY <1>7, <2>1, <2>3 DEF rec
    <3>3. LET row == with_updates(root.action_ledger_records, updates)[x]
              effects == apply_effect_transitions(rec.effects, p)
          IN  /\ row.effect = x[3][2]
              /\ row.outcome = effects[row.effect].outcome
              /\ row.status_revision <= effects[row.effect].changes
              /\ row.scope = rec.scope
      BY <1>1, <1>2, <1>5, <2>2, <2>3, <3>1, <3>2, UpdatesTrack DEF updates, rec
    <3> QED BY <1>4, <1>5, <1>8, <2>3, <3>3
  <2>4. CASE y # key
    <3>1. root.issued_records[y].response_id # rec.response_id
      BY <1>1, <2>4 DEF Agrees, Indexed, rec
    <3>2. x \notin DOMAIN updates
      BY <2>1, <3>1 DEF updates, derive_ledger_updates
    <3>3. /\ x \in DOMAIN root.action_ledger_records
          /\ q.action_ledger_records[x] = root.action_ledger_records[x]
      BY <1>5, <3>2 DEF with_updates
    <3> QED BY <1>8, <2>2, <2>4, <3>3
  <2> QED BY <2>3, <2>4
<1> QED BY <1>10, <1>11, <1>12, <1>13 DEF Agrees, q

\* commit_feedback keeps the invariant.
LEMMA FeedbackAgrees ==
    ASSUME RecordsTyped, Agrees(root, prepared), NEW p \in prepared, CommitFeedback(p)
    PROVE  Agrees(root', prepared')
<1>1. /\ MapsTyped(commit_feedback_candidate(root, p))
      /\ Agrees(commit_feedback_candidate(root, p), prepared)
  BY CommitFeedbackCandidateTyped, FeedbackCandidateAgrees
<1>2. PICK V : root' = without_unpinned_revisions(
           [commit_feedback_candidate(root, p) EXCEPT
                !.action_ledger_records = without_keys(@, V)])
  BY DEF CommitFeedback
<1>3. Agrees(root', prepared)
  BY <1>1, <1>2, DropRowsForgets, ForgetAgrees DEF Agrees
<1>4. prepared' \subseteq prepared
  BY DEF CommitFeedback
<1> QED BY <1>3, <1>4, TracksFewer

-----------------------------------------------------------------------------
(* The theorems. *)

\* Every step but the three that add something only forgets.
LEMMA StepsForget ==
    ASSUME RecordsTyped, Agrees(root, prepared), [Next]_vars
    PROVE  \/ Forgets(root, root') /\ prepared' \subseteq prepared \cup
                {root'.prepared_feedback_tokens[x] : x \in DOMAIN root'.prepared_feedback_tokens}
           \/ \E h \in held, reply \in Replies, scope \in Scopes : CommitReply(h, reply, scope)
           \/ \E k \in Keys, f \in FeedbackIds, hash \in FeedbackHash : PrepareFeedback(k, f, hash)
           \/ \E p \in prepared : CommitFeedback(p)
<1> DEFINE Kept == Forgets(root, root') /\ prepared' \subseteq prepared \cup
                {root'.prepared_feedback_tokens[x] : x \in DOMAIN root'.prepared_feedback_tokens}
<1>1. Forgets(root, root)
  BY WithoutKeysRestricts, KeepsForgets DEF Agrees
<1>2. Forgets(root, cleanup_candidate(root, mono, wall))
  BY CleanupForgets DEF RecordsTyped, Agrees
<1>3. ASSUME NEW s \in Submissions, ReserveReply(s) PROVE Kept
  BY <1>3, ReserveForgets DEF ReserveReply
<1>4. ASSUME NEW h \in held, AbortReply(h) PROVE Kept
  BY <1>1, <1>4, AbortForgets DEF AbortReply, RecordsTyped, Agrees
<1>5. ASSUME NEW k, NEW f, NEW hash, ReusePreparation(k, f, hash) PROVE Kept
  <2>1. root' = cleanup_candidate(root, mono, wall)
    BY <1>5 DEF ReusePreparation
  <2>2. prepared' = prepared \cup {root'.prepared_feedback_tokens[<<k, f>>]}
        /\ <<k, f>> \in DOMAIN root'.prepared_feedback_tokens
    BY <1>5, <2>1 DEF ReusePreparation
  <2> QED BY <1>2, <2>1, <2>2
<1>6. ASSUME NEW p \in prepared, RefuseFeedback(p) PROVE Kept
  BY <1>1, <1>6, DropTokenForgets DEF RefuseFeedback, RecordsTyped, Agrees
<1>7. ASSUME Cleanup PROVE Kept
  BY <1>2, <1>7 DEF Cleanup
<1>8. ASSUME Tick \/ WallStep \/ UNCHANGED vars PROVE Kept
  BY <1>1, <1>8 DEF Tick, WallStep, vars
<1>9. ASSUME NEW k \in Keys, NEW f \in FeedbackIds, NEW q \in Requests,
             NEW response \in Responses, NEW body \in Bodies,
             LET hash == [request_id |-> q, response_id |-> response, body |-> body] IN
             PrepareFeedback(k, f, hash) \/ ReusePreparation(k, f, hash)
      PROVE  Kept \/ \E i \in Keys, g \in FeedbackIds, hash \in FeedbackHash :
                        PrepareFeedback(i, g, hash)
  <2> DEFINE hash == [request_id |-> q, response_id |-> response, body |-> body]
  <2>1. hash \in FeedbackHash
    BY InputAssumption DEF FeedbackHash
  <2> HIDE DEF hash
  <2>2. PrepareFeedback(k, f, hash) \/ ReusePreparation(k, f, hash)
    BY <1>9 DEF hash
  <2> QED BY <1>5, <2>1, <2>2
<1> HIDE DEF Kept
<1>10. Kept \/ (\E h \in held, reply \in Replies, scope \in Scopes : CommitReply(h, reply, scope))
            \/ (\E k \in Keys, f \in FeedbackIds, hash \in FeedbackHash :
                    PrepareFeedback(k, f, hash))
            \/ \E p \in prepared : CommitFeedback(p)
  BY <1>3, <1>4, <1>6, <1>7, <1>8, <1>9 DEF Next
<1> QED BY <1>10 DEF Kept

\* No step breaks the invariant.
LEMMA AgreesStep ==
    ASSUME RecordsTyped, Agrees(root, prepared), [Next]_vars
    PROVE  Agrees(root', prepared')
<1>1. CASE Forgets(root, root') /\ prepared' \subseteq prepared \cup
                {root'.prepared_feedback_tokens[x] : x \in DOMAIN root'.prepared_feedback_tokens}
  <2>1. Agrees(root', prepared)
    BY <1>1, ForgetAgrees
  <2> QED BY <1>1, <2>1, TracksFewer
<1> QED BY <1>1, StepsForget, CommitAgrees, PrepareAgrees, FeedbackAgrees

\* Nothing disagrees at the start.
LEMMA InitAgrees == Init => Agrees(root, prepared)
BY DEF Init, Agrees, Indexed, Receipted, Tracks, LedgerTracks, Complete, EmptyRoot, EmptyMap

\* In every state of every run of the coordinator the indexes, receipts,
\* preparations and ledger rows agree with the answers that are retained.
LEMMA AlwaysAgrees == Spec => [](RecordsTyped /\ Agrees(root, prepared))
<1>1. RecordsTyped /\ Agrees(root, prepared) /\ [Next]_vars => Agrees(root, prepared)'
  BY AgreesStep
<1> QED BY <1>1, InitAgrees, RecordsStayTyped, PTL DEF Spec

\* The indexes never name a record that is gone, miss one that is there, or
\* claim an action another response took over, whatever expires or is evicted.
THEOREM IndexesStayExact == Spec => []IndexesExact
<1>1. Agrees(root, prepared) => IndexesExact
  BY DEF Agrees, IndexesExact
<1> QED BY <1>1, AlwaysAgrees, PTL

\* A retained record's feedback always has its receipt, and is never outstanding
\* again: a repeated report is replayed, not applied a second time.
THEOREM FeedbackIsAppliedOnce == Spec => []FeedbackAppliedOnce
<1>1. Agrees(root, prepared) => FeedbackAppliedOnce
  BY DEF Agrees, FeedbackAppliedOnce
<1> QED BY <1>1, AlwaysAgrees, PTL

\* Whatever was reported, committed, evicted or retried between prepare and commit,
\* a preparation the commit still accepts is one the record still admits.
THEOREM PreparationsStaySound == Spec => []PreparationsSound
<1>1. Agrees(root, prepared) => PreparationsSound
  BY StillApplies DEF PreparationsSound
<1> QED BY <1>1, AlwaysAgrees, PTL

\* A turn is never told an outcome of an earlier action that was superseded.
THEOREM AdmittedRowsStayCurrent == Spec => []AdmittedRowsCurrent
<1>1. RecordsTyped /\ Agrees(root, prepared) => AdmittedRowsCurrent
  <2> SUFFICES ASSUME RecordsTyped, Agrees(root, prepared), NEW k, NEW scope,
                      NEW x \in AdmittedRows(root, k, scope)
               PROVE  LET row == root.action_ledger_records[x]
                          rec == root.issued_records[root.response_index[x[2]]]
                      IN  /\ row.outcome = rec.effects[row.effect].outcome
                          /\ row.status_revision <= rec.effects[row.effect].changes
                          /\ row.scope = rec.scope
    BY DEF AdmittedRowsCurrent
  <2> DEFINE y == root.response_index[x[2]]
  <2>1. /\ x \in DOMAIN root.action_ledger_records /\ x[1] = y[1] /\ y \in Complete(root)
        /\ x[3] \in ActionIdsOf(root.issued_records[y]) /\ x[2] \in DOMAIN root.response_index
    BY DEF AdmittedRows
  <2>2. root.issued_records[y].response_id = x[2]
    BY <2>1 DEF Agrees, Indexed
  <2> HIDE DEF y
  <2> QED BY <2>1, <2>2 DEF Agrees, LedgerTracks, y
<1> QED BY <1>1, AlwaysAgrees, PTL
-----------------------------------------------------------------------------
(* What happens to answers and receipts. *)

\* What a step keeps of f, but for what has expired.
Fades(f, g, now) ==
    \A x \in DOMAIN f : (x \in DOMAIN g /\ g[x] = f[x]) \/ f[x].expires <= now

\* The answers of r that q still has are the same; of those that are gone, all
\* but the ones in V had expired.
AnswersFade(r, q, now, V) ==
    \A x \in Complete(r) :
        \/ x \in Complete(q) /\ SameAnswer(r.issued_records[x], q.issued_records[x])
        \/ r.issued_records[x].expires <= now
        \/ x \notin DOMAIN q.issued_records /\ x \in V

\* A cleanup takes what has expired and nothing else.
LEMMA CleanupFades ==
    ASSUME NEW r, NEW now \in Nat, NEW w, MapsTyped(r)
    PROVE  LET q == cleanup_candidate(r, now, w) IN
           /\ Fades(r.feedback_receipts, q.feedback_receipts, now)
           /\ AnswersFade(r, q, now, {})
<1> DEFINE q == cleanup_candidate(r, now, w)
           expired == ExpiredAt(r.issued_records, now)
           d == DropIssued(r, expired)
<1>1. /\ d.issued_records = without_keys(r.issued_records, expired)
      /\ q.issued_records = [x \in DOMAIN d.issued_records |->
                                WithoutExpiredReceipts(d.issued_records[x], now)]
      /\ q.feedback_receipts =
            without_keys(r.feedback_receipts, ExpiredAt(r.feedback_receipts, now))
  <2>1. d.issued_records = without_keys(r.issued_records, expired)
    BY DEF MapsTyped, EmptyRoot, DropIssued
  <2> QED BY <2>1, CleanupFields
<1> HIDE DEF q, d
<1>2. Fades(r.feedback_receipts, q.feedback_receipts, now)
  BY <1>1 DEF Fades, without_keys, ExpiredAt
<1>3. ASSUME NEW x \in Complete(r)
      PROVE  \/ x \in Complete(q) /\ SameAnswer(r.issued_records[x], q.issued_records[x])
             \/ r.issued_records[x].expires <= now
  <2> DEFINE rec == r.issued_records[x]
  <2>1. rec \in CompleteRecord /\ x \in DOMAIN r.issued_records /\ rec.phase = "complete"
    BY DEF Complete, MapsTyped, IsMap, PendingRecord, CompleteRecord
  <2>2. CASE x \in expired
    BY <1>1, <2>1, <2>2 DEF without_keys, ExpiredAt
  <2>3. CASE x \notin expired
    <3>1. x \in DOMAIN q.issued_records /\ q.issued_records[x] = WithoutExpiredReceipts(rec, now)
      BY <1>1, <2>1, <2>3 DEF without_keys
    <3>2. LET new == WithoutExpiredReceipts(rec, now) IN
          new.phase = "complete" /\ SameAnswer(rec, new)
      BY <2>1 DEF WithoutExpiredReceipts, CompleteRecord, SameAnswer
    <3> QED BY <3>1, <3>2 DEF Complete
  <2> QED BY <2>2, <2>3
<1> QED BY <1>2, <1>3 DEF AnswersFade, q

\* Where the receipts and the issued records are the same, nothing fades.
LEMMA SameFades ==
    ASSUME NEW r, NEW q, NEW now,
           q.feedback_receipts = r.feedback_receipts,
           \A x \in Complete(r) : x \in DOMAIN q.issued_records
                /\ q.issued_records[x] = r.issued_records[x]
    PROVE  /\ Fades(r.feedback_receipts, q.feedback_receipts, now)
           /\ AnswersFade(r, q, now, {})
BY DEF Fades, AnswersFade, Complete, SameAnswer

\* reserve_reply takes what has expired, and one answer when the store is full.
LEMMA ReserveFades ==
    ASSUME RecordsTyped, Fits(root), NEW s \in Submissions, ReserveReply(s)
    PROVE  /\ Fades(root.feedback_receipts, root'.feedback_receipts, mono)
           /\ \E V : /\ AnswersFade(root, root', mono, V)
                     /\ V # {} => /\ Cardinality(DOMAIN root.issued_records) >= IssuedCapacity
                                  /\ V \subseteq IssuedVictims(cleanup_candidate(root, mono, wall))
<1> DEFINE cleaned == cleanup_candidate(root, mono, wall)
           evicted(V) == without_unpinned_revisions(DropIssued(cleaned, V))
<1>1. /\ MapsTyped(cleaned) /\ Fewer(root, cleaned)
      /\ Fades(root.feedback_receipts, cleaned.feedback_receipts, mono)
      /\ AnswersFade(root, cleaned, mono, {})
  BY CleanupTyped, CleanupFewer, CleanupFades DEF RecordsTyped
<1>2a. PICK V \in IssuedEvictions(cleaned) : \E owner, revision :
        \/ root' = evicted(V)
        \/ root' = reserve_reply_candidate(evicted(V), s, owner, revision)
  BY DEF ReserveReply
<1>2. PICK owner, revision :
        \/ root' = evicted(V)
        \/ root' = reserve_reply_candidate(evicted(V), s, owner, revision)
  BY <1>2a
<1>3. <<s.key, s.request_id>> \notin DOMAIN cleaned.issued_records
  BY DEF ReserveReply, Reservable
<1> HIDE DEF cleaned
<1> DEFINE d == DropIssued(cleaned, V)
           key == <<s.key, s.request_id>>
<1>4. /\ MapsTyped(d)
      /\ d.issued_records = without_keys(cleaned.issued_records, V)
      /\ d.feedback_receipts = cleaned.feedback_receipts
  BY <1>1, DropIssuedTyped DEF MapsTyped, EmptyRoot, DropIssued
<1>5. /\ MapsTyped(evicted(V)) /\ evicted(V).issued_records = d.issued_records
      /\ evicted(V).feedback_receipts = d.feedback_receipts
  BY <1>4, UnpinnedTyped, UnpinnedFields DEF EmptyRoot
<1> HIDE DEF d, evicted
<1>6. /\ root'.feedback_receipts = cleaned.feedback_receipts
      /\ \/ root'.issued_records = without_keys(cleaned.issued_records, V)
         \/ /\ DOMAIN root'.issued_records = (DOMAIN cleaned.issued_records \ V) \cup {key}
            /\ \A x \in DOMAIN cleaned.issued_records \ V :
                    x # key => root'.issued_records[x] = cleaned.issued_records[x]
  <2>1. CASE root' = evicted(V)
    BY <1>4, <1>5, <2>1
  <2>2. CASE root' = reserve_reply_candidate(evicted(V), s, owner, revision)
    <3>1. /\ root'.feedback_receipts = evicted(V).feedback_receipts
          /\ DOMAIN root'.issued_records = DOMAIN evicted(V).issued_records \cup {key}
          /\ \A x \in DOMAIN evicted(V).issued_records :
                x # key => root'.issued_records[x] = evicted(V).issued_records[x]
      BY <1>5, <2>2
      DEF MapsTyped, EmptyRoot, reserve_reply_candidate, with_updates, Single
    <3> QED BY <1>4, <1>5, <3>1 DEF without_keys
  <2> QED BY <1>2, <2>1, <2>2
<1> HIDE DEF key
<1>7. /\ DOMAIN root'.issued_records \subseteq (DOMAIN cleaned.issued_records \ V) \cup {key}
      /\ \A x \in DOMAIN cleaned.issued_records \ V :
            x \in DOMAIN root'.issued_records
                /\ root'.issued_records[x] = cleaned.issued_records[x]
  BY <1>3, <1>6 DEF without_keys, key
<1>8. AnswersFade(root, root', mono, V)
  <2> SUFFICES ASSUME NEW x \in Complete(root)
               PROVE  \/ /\ x \in Complete(root')
                         /\ SameAnswer(root.issued_records[x], root'.issued_records[x])
                      \/ root.issued_records[x].expires <= mono
                      \/ x \notin DOMAIN root'.issued_records /\ x \in V
    BY DEF AnswersFade
  <2>1. CASE x \in Complete(cleaned) /\ x \notin V
             /\ SameAnswer(root.issued_records[x], cleaned.issued_records[x])
    BY <1>7, <2>1 DEF Complete
  <2>2. CASE x \in Complete(cleaned) /\ x \in V
    BY <1>3, <1>7, <2>2 DEF Complete, key
  <2> QED BY <1>1, <2>1, <2>2 DEF AnswersFade
<1>9. ASSUME V # {}
      PROVE  /\ Cardinality(DOMAIN root.issued_records) >= IssuedCapacity
             /\ V \subseteq IssuedVictims(cleaned)
  <2> DEFINE D == DOMAIN root.issued_records
             C == DOMAIN cleaned.issued_records
  <2>1. ~(Cardinality(C) < IssuedCapacity) /\ V \subseteq IssuedVictims(cleaned)
    BY <1>2, <1>9 DEF IssuedEvictions
  <2>2. IsFiniteSet(D) /\ C \in SUBSET D
    BY <1>1 DEF Fits, Within, Fewer
  <2>3. Cardinality(C) <= Cardinality(D) /\ Cardinality(C) \in Nat /\ Cardinality(D) \in Nat
    BY <2>2, FS_Subset, FS_CardinalityType
  <2> QED BY <2>1, <2>3, CapacitiesAreNumbers
<1> QED BY <1>1, <1>6, <1>8, <1>9 DEF cleaned

\* A commit leaves the answers and receipts there are alone.
LEMMA CommitFades ==
    ASSUME RecordsTyped, NEW h \in held, NEW reply \in Replies, NEW scope \in Scopes,
           CommitReply(h, reply, scope)
    PROVE  /\ Fades(root.feedback_receipts, root'.feedback_receipts, mono)
           /\ AnswersFade(root, root', mono, {})
<1> DEFINE key == <<h.key, h.request_id>>
<1>1. PICK response \in Drawn(FreshResponses), A \in AuditVictims(root) :
        \E V : root' = DropSessions(
                   commit_reply_candidate(root, h, reply, response, scope, A), V)
  BY DEF CommitReply
<1> DEFINE q == commit_reply_candidate(root, h, reply, response, scope, A)
<1>2. PICK V : root' = DropSessions(q, V)
  BY <1>1
<1> DEFINE kept == [q EXCEPT
               !.conversation_turns = without_keys(q.conversation_turns, V),
               !.clarification_records = without_keys(q.clarification_records, V)]
<1>3. MapsTyped(q)
  BY <1>1, DrawnIn, CommitCandidateTyped DEF CommitReply, FreshResponses
<1>4. /\ q.feedback_receipts = root.feedback_receipts
      /\ \A x \in DOMAIN root.issued_records \ {key} :
            x \in DOMAIN q.issued_records /\ q.issued_records[x] = root.issued_records[x]
  BY DEF RecordsTyped, MapsTyped, EmptyRoot, commit_reply_candidate, with_updates, Single
<1> HIDE DEF q
<1>5. MapsTyped(kept) /\ kept.issued_records = q.issued_records
      /\ kept.feedback_receipts = q.feedback_receipts
  BY <1>3, WithoutKeysIsMap DEF MapsTyped, EmptyRoot, without_keys
<1> HIDE DEF kept
<1>6. root' = without_unpinned_revisions(kept)
  BY <1>2 DEF DropSessions, kept
<1>7. root'.issued_records = q.issued_records /\ root'.feedback_receipts = q.feedback_receipts
  BY <1>5, <1>6, UnpinnedFields DEF EmptyRoot
<1>8. key \notin Complete(root)
  BY DEF CommitReply, Owns, Pending, Complete
<1> HIDE DEF key
<1>9. \A x \in Complete(root) :
        x \in DOMAIN root'.issued_records /\ root'.issued_records[x] = root.issued_records[x]
  BY <1>4, <1>7, <1>8 DEF Complete
<1> QED BY <1>4, <1>7, <1>9, SameFades

\* So does an abort: what it takes is no answer yet.
LEMMA AbortFades ==
    ASSUME RecordsTyped, NEW h \in held, AbortReply(h)
    PROVE  /\ Fades(root.feedback_receipts, root'.feedback_receipts, mono)
           /\ AnswersFade(root, root', mono, {})
<1>1. CASE ~Owns(root, h)
  BY <1>1, SameFades DEF AbortReply, Complete
<1>2. CASE Owns(root, h)
  <2> DEFINE key == <<h.key, h.request_id>>
  <2>1. /\ root'.issued_records = without_keys(root.issued_records, {key})
        /\ root'.feedback_receipts = root.feedback_receipts
    BY <1>2 DEF AbortReply, RecordsTyped, MapsTyped, EmptyRoot, abort_reply_candidate,
       without_unpinned_revisions
  <2>2. key \notin Complete(root)
    BY <1>2 DEF Owns, Pending, Complete
  <2> HIDE DEF key
  <2> QED BY <2>1, <2>2, SameFades DEF without_keys, Complete
<1> QED BY <1>1, <1>2

\* So does a refused preparation.
LEMMA RefuseFades ==
    ASSUME RecordsTyped, NEW p \in prepared, RefuseFeedback(p)
    PROVE  /\ Fades(root.feedback_receipts, root'.feedback_receipts, mono)
           /\ AnswersFade(root, root', mono, {})
<1>1. /\ root'.issued_records = root.issued_records
      /\ root'.feedback_receipts = root.feedback_receipts
  BY DEF RefuseFeedback, RecordsTyped, MapsTyped, EmptyRoot, DropToken,
     without_unpinned_revisions
<1> QED BY <1>1, SameFades DEF Complete

\* A preparation cleans up first.
LEMMA PrepareFades ==
    ASSUME RecordsTyped, NEW k, NEW f, NEW hash,
           PrepareFeedback(k, f, hash) \/ ReusePreparation(k, f, hash)
    PROVE  /\ Fades(root.feedback_receipts, root'.feedback_receipts, mono)
           /\ AnswersFade(root, root', mono, {})
<1> DEFINE r == cleanup_candidate(root, mono, wall)
<1>1. /\ MapsTyped(r) /\ Fades(root.feedback_receipts, r.feedback_receipts, mono)
      /\ AnswersFade(root, r, mono, {})
  BY CleanupTyped, CleanupFades DEF RecordsTyped
<1>2. root' = r \/ \E tokens : root' = [r EXCEPT !.prepared_feedback_tokens = tokens]
  BY DEF PrepareFeedback, ReusePreparation
<1> HIDE DEF r
<1>3. /\ root'.issued_records = r.issued_records
      /\ root'.feedback_receipts = r.feedback_receipts
  BY <1>1, <1>2 DEF MapsTyped, EmptyRoot
<1> QED BY <1>1, <1>3 DEF AnswersFade, Complete

\* A report takes the place of the answer it is about, and adds a receipt.
LEMMA FeedbackFades ==
    ASSUME RecordsTyped, Agrees(root, prepared), NEW p \in prepared, CommitFeedback(p)
    PROVE  LET key == <<p.key, p.hash.request_id>> IN
           /\ Fades(root.feedback_receipts, root'.feedback_receipts, mono)
           /\ Complete(root') = Complete(root) /\ key \in Complete(root)
           /\ root'.issued_records[key] = revised_record(root.issued_records[key], p)
           /\ \A x \in Complete(root) \ {key} :
                    root'.issued_records[x] = root.issued_records[x]
<1> DEFINE key == <<p.key, p.hash.request_id>>
           rec == root.issued_records[key]
           q == commit_feedback_candidate(root, p)
           f == <<p.key, p.feedback_id>>
<1>1. MapsTyped(q) /\ key \in Complete(root)
  BY CommitFeedbackCandidateTyped DEF CommitFeedback, StillCurrent, Resolves
<1>2. PICK receipt :
        /\ q.issued_records = with_updates(root.issued_records,
                Single(key, revised_record(rec, p)))
        /\ q.feedback_receipts = with_updates(root.feedback_receipts, Single(f, receipt))
  BY FeedbackFields
<1>3. PICK V : root' = without_unpinned_revisions(
           [q EXCEPT !.action_ledger_records = without_keys(@, V)])
  BY DEF CommitFeedback
<1> HIDE DEF q
<1>4. /\ root'.issued_records = q.issued_records
      /\ root'.feedback_receipts = q.feedback_receipts
  BY <1>1, <1>3 DEF MapsTyped, EmptyRoot, without_unpinned_revisions
<1>5. f \notin DOMAIN root.feedback_receipts
  BY DEF CommitFeedback, TokenStored, Agrees, Receipted
<1> HIDE DEF f
<1>6. Fades(root.feedback_receipts, root'.feedback_receipts, mono)
  BY <1>2, <1>4, <1>5 DEF Fades, with_updates, Single
<1>7. rec \in CompleteRecord
  BY <1>1 DEF Complete, RecordsTyped, MapsTyped, IsMap, CompleteRecord, PendingRecord
<1>8. revised_record(rec, p).phase = "complete"
  BY <1>7, RevisedRecordFields
<1> HIDE DEF key, rec
<1>9. /\ Complete(root') = Complete(root)
      /\ root'.issued_records[key] = revised_record(rec, p)
      /\ \A x \in Complete(root) \ {key} : root'.issued_records[x] = root.issued_records[x]
  BY <1>1, <1>2, <1>4, <1>8 DEF Complete, with_updates, Single
<1> QED BY <1>1, <1>6, <1>9 DEF key, rec

\* The same of every step.
LEMMA StepFades ==
    ASSUME RecordsTyped, Agrees(root, prepared), Fits(root), [Next]_vars
    PROVE  /\ Fades(root.feedback_receipts, root'.feedback_receipts, mono)
           /\ \/ AnswersFade(root, root', mono, {})
              \/ \E s \in Submissions : ReserveReply(s)
              \/ \E p \in prepared : CommitFeedback(p)
<1>1. ASSUME NEW s \in Submissions, ReserveReply(s)
      PROVE  Fades(root.feedback_receipts, root'.feedback_receipts, mono)
  BY <1>1, ReserveFades
<1>2. ASSUME NEW p \in prepared, CommitFeedback(p)
      PROVE  Fades(root.feedback_receipts, root'.feedback_receipts, mono)
  BY <1>2, FeedbackFades
<1>3. ASSUME Cleanup
      PROVE  /\ Fades(root.feedback_receipts, root'.feedback_receipts, mono)
             /\ AnswersFade(root, root', mono, {})
  BY <1>3, CleanupFades DEF Cleanup, RecordsTyped
<1>4. ASSUME Tick \/ WallStep \/ UNCHANGED vars
      PROVE  /\ Fades(root.feedback_receipts, root'.feedback_receipts, mono)
             /\ AnswersFade(root, root', mono, {})
  BY <1>4, SameFades DEF Tick, WallStep, vars, Complete
<1>5. ASSUME NEW k \in Keys, NEW f \in FeedbackIds, NEW q \in Requests,
             NEW response \in Responses, NEW body \in Bodies,
             LET hash == [request_id |-> q, response_id |-> response, body |-> body] IN
             PrepareFeedback(k, f, hash) \/ ReusePreparation(k, f, hash)
      PROVE  /\ Fades(root.feedback_receipts, root'.feedback_receipts, mono)
             /\ AnswersFade(root, root', mono, {})
  BY <1>5, PrepareFades
<1> QED
  BY <1>1, <1>2, <1>3, <1>4, <1>5, CommitFades, AbortFades, RefuseFades DEF Next

\* An answer that is neither expired nor the one a full store makes room with
\* keeps its response and its request, so a retry is replayed.
THEOREM AnswersAreFinal == Spec => AnswerFinal
<1> DEFINE Kept(x) ==
        \/ /\ x \in Complete(root')
           /\ root'.issued_records[x].response_id = root.issued_records[x].response_id
           /\ root'.issued_records[x].request_hash = root.issued_records[x].request_hash
        \/ root.issued_records[x].expires <= mono
        \/ /\ x \notin DOMAIN root'.issued_records
           /\ Cardinality(DOMAIN root.issued_records) >= IssuedCapacity
           /\ x \in IssuedVictims(cleanup_candidate(root, mono, wall))
<1>1. ASSUME RecordsTyped, Agrees(root, prepared), Fits(root), [Next]_vars,
             NEW x \in Complete(root)
      PROVE  Kept(x)
  <2>1. CASE AnswersFade(root, root', mono, {})
    BY <2>1 DEF AnswersFade, SameAnswer
  <2>2. CASE \E s \in Submissions : ReserveReply(s)
    <3>1. PICK s \in Submissions : ReserveReply(s)
      BY <2>2
    <3>2. PICK V : /\ AnswersFade(root, root', mono, V)
                   /\ V # {} => /\ Cardinality(DOMAIN root.issued_records) >= IssuedCapacity
                                /\ V \subseteq IssuedVictims(cleanup_candidate(root, mono, wall))
      BY <1>1, <3>1, ReserveFades
    <3> QED BY <3>2 DEF AnswersFade, SameAnswer
  <2>3. CASE \E p \in prepared : CommitFeedback(p)
    <3>1. PICK p \in prepared : CommitFeedback(p)
      BY <2>3
    <3> DEFINE key == <<p.key, p.hash.request_id>>
    <3>2. /\ Complete(root') = Complete(root) /\ key \in Complete(root)
          /\ root'.issued_records[key] = revised_record(root.issued_records[key], p)
          /\ x # key => root'.issued_records[x] = root.issued_records[x]
      BY <1>1, <3>1, FeedbackFades
    <3> HIDE DEF key
    <3>3. root.issued_records[key] \in CompleteRecord
      BY <1>1, <3>2 DEF Complete, RecordsTyped, MapsTyped, IsMap, CompleteRecord, PendingRecord
    <3> DEFINE rec == root.issued_records[key]
    <3>4. /\ revised_record(rec, p).response_id = rec.response_id
          /\ revised_record(rec, p).request_hash = rec.request_hash
      BY <3>3, RevisedRecordFields
    <3> HIDE DEF rec
    <3>5. CASE x = key
      BY <3>2, <3>4, <3>5 DEF rec
    <3>6. CASE x # key
      BY <1>1, <3>2, <3>6
    <3> QED BY <3>5, <3>6
  <2> QED BY <1>1, <2>1, <2>2, <2>3, StepFades
<1>2. RecordsTyped /\ Agrees(root, prepared) /\ Fits(root) /\ [Next]_vars
        => [\A x \in Complete(root) : Kept(x)]_vars
  BY <1>1
<1> QED BY <1>2, AlwaysAgrees, AlwaysFits, PTL DEF AnswerFinal, Spec

\* An effect's outcome is as it was, or one accepted report further.
Progressed(old, new) ==
    \/ new = old
    \/ /\ \/ old.outcome = NoOutcome
          \/ old.outcome \notin Executed /\ new.outcome \in Executed
       /\ new.changes = old.changes + 1

\* A report changes the effects it is about from what they may be changed from.
LEMMA ReportProgresses ==
    ASSUME NEW rec, NEW p, Reportable(rec, p.hash.body), Noops(rec, p.hash.body) = p.noops,
           NEW e \in Effects
    PROVE  Progressed(rec.effects[e], apply_effect_transitions(rec.effects, p)[e])
<1>1. CASE e \in DOMAIN p.hash.body \ p.noops
  <2>1. /\ MayReport(rec.effects[e].outcome, p.hash.body[e])
        /\ rec.effects[e].outcome # p.hash.body[e]
    BY <1>1 DEF Reportable, Noops
  <2> QED BY <1>1, <2>1 DEF MayReport, apply_effect_transitions, Progressed
<1>2. CASE e \notin DOMAIN p.hash.body \ p.noops
  BY <1>2 DEF apply_effect_transitions, Progressed
<1> QED BY <1>1, <1>2

\* No step takes an outcome back or counts a report twice.
LEMMA StepProgresses ==
    ASSUME RecordsTyped, Agrees(root, prepared), [Next]_vars,
           NEW x \in Complete(root) \cap Complete(root'), NEW e \in Effects
    PROVE  Progressed(root.issued_records[x].effects[e], root'.issued_records[x].effects[e])
<1>1. CASE Forgets(root, root')
  BY <1>1 DEF Forgets, SameAnswer, Progressed
<1>2. CASE \E h \in held, reply \in Replies, scope \in Scopes : CommitReply(h, reply, scope)
  <2>1. PICK h \in held, reply \in Replies, scope \in Scopes : CommitReply(h, reply, scope)
    BY <1>2
  <2>2. PICK response \in Drawn(FreshResponses), A \in AuditVictims(root) :
          \E V : root' = DropSessions(
                     commit_reply_candidate(root, h, reply, response, scope, A), V)
    BY <2>1 DEF CommitReply
  <2> DEFINE key == <<h.key, h.request_id>>
             q == commit_reply_candidate(root, h, reply, response, scope, A)
  <2>3. MapsTyped(q) /\ Indexed(q)
    BY <2>1, <2>2, DrawnIn, CommitCandidateTyped, CommitCandidateAgrees
    DEF CommitReply, FreshResponses, NewResponse, TokenRecords, RecordsTyped, Agrees
  <2>4. \A y \in DOMAIN root.issued_records \ {key} :
            y \in DOMAIN q.issued_records /\ q.issued_records[y] = root.issued_records[y]
    BY DEF RecordsTyped, MapsTyped, EmptyRoot, commit_reply_candidate, with_updates, Single
  <2>5. x # key /\ x \in DOMAIN root.issued_records
    BY <2>1 DEF CommitReply, Owns, Pending, Complete
  <2> HIDE DEF q, key
  <2>6. Forgets(q, root')
    BY <2>2, <2>3, DropSessionsForgets DEF q
  <2> QED BY <2>4, <2>5, <2>6 DEF Forgets, SameAnswer, Progressed
<1>3. CASE \E k \in Keys, f \in FeedbackIds, hash \in FeedbackHash : PrepareFeedback(k, f, hash)
  <2> DEFINE r == cleanup_candidate(root, mono, wall)
  <2>1. MapsTyped(r) /\ Forgets(root, r)
    BY CleanupTyped, CleanupForgets DEF RecordsTyped, Agrees
  <2>2. PICK tokens : root' = [r EXCEPT !.prepared_feedback_tokens = tokens]
    <3>1. PICK k \in Keys, f \in FeedbackIds, hash \in FeedbackHash :
                PrepareFeedback(k, f, hash)
      BY <1>3
    <3>2. \E tokens : root' = [r EXCEPT !.prepared_feedback_tokens = tokens]
      BY <3>1 DEF PrepareFeedback
    <3> QED BY <3>2
  <2> HIDE DEF r
  <2>3. root'.issued_records = r.issued_records /\ Complete(root') = Complete(r)
    BY <2>1, <2>2 DEF MapsTyped, EmptyRoot, Complete
  <2> QED BY <2>1, <2>3 DEF Forgets, SameAnswer, Progressed
<1>4. CASE \E p \in prepared : CommitFeedback(p)
  <2>1. PICK p \in prepared : CommitFeedback(p)
    BY <1>4
  <2> DEFINE key == <<p.key, p.hash.request_id>>
             rec == root.issued_records[key]
  <2>2. /\ key \in Complete(root)
        /\ root'.issued_records[key] = revised_record(rec, p)
        /\ x # key => root'.issued_records[x] = root.issued_records[x]
    BY <2>1, FeedbackFades
  <2>3. Reportable(rec, p.hash.body) /\ Noops(rec, p.hash.body) = p.noops
    BY <2>1, StillApplies DEF CommitFeedback
  <2>4. rec \in CompleteRecord
    BY <2>2 DEF Complete, RecordsTyped, MapsTyped, IsMap, CompleteRecord, PendingRecord
  <2> HIDE DEF key
  <2>5. CASE x = key
    <3>1. root'.issued_records[key].effects = apply_effect_transitions(rec.effects, p)
      BY <2>2, <2>4, RevisedRecordFields
    <3>2. Progressed(rec.effects[e], apply_effect_transitions(rec.effects, p)[e])
      BY <2>3, ReportProgresses
    <3> QED BY <2>5, <3>1, <3>2
  <2>6. CASE x # key
    BY <2>2, <2>6 DEF Progressed
  <2> QED BY <2>5, <2>6
<1> QED BY <1>1, <1>2, <1>3, <1>4, StepsForget

\* However reports compete, come late or are repeated, an effect's outcome only
\* moves forward, one accepted report at a time, and a receipt stays until it expires.
THEOREM ReportsAreFinal == Spec => ReportsStand
<1>1. RecordsTyped /\ Agrees(root, prepared) /\ [Next]_vars =>
        [\A x \in Complete(root) \cap Complete(root') : \A e \in Effects :
            LET old == root.issued_records[x].effects[e]
                new == root'.issued_records[x].effects[e]
            IN  \/ new = old
                \/ /\ \/ old.outcome = NoOutcome
                      \/ old.outcome \notin Executed /\ new.outcome \in Executed
                   /\ new.changes = old.changes + 1]_vars
  BY StepProgresses DEF Progressed
<1>2. RecordsTyped /\ Agrees(root, prepared) /\ Fits(root) /\ [Next]_vars =>
        [\A x \in DOMAIN root.feedback_receipts :
            \/ /\ x \in DOMAIN root'.feedback_receipts
               /\ root'.feedback_receipts[x] = root.feedback_receipts[x]
            \/ root.feedback_receipts[x].expires <= mono]_vars
  BY StepFades DEF Fades
<1>3. Spec => EffectsProgress
  BY <1>1, AlwaysAgrees, PTL DEF EffectsProgress, Spec
<1>4. Spec => ReceiptFinal
  BY <1>2, AlwaysAgrees, AlwaysFits, PTL DEF ReceiptFinal, Spec
<1> QED BY <1>3, <1>4 DEF ReportsStand
=============================================================================
