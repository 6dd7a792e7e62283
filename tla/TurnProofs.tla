------------------------------ MODULE TurnProofs ------------------------------
(***************************************************************************)
(* The coordinator implements TurnLock, and what follows for the service   *)
(* (ReplyTurn), the coordinator under its own callers. What the lock sees  *)
(* of a root are its pending records; the lemmas say what each operation   *)
(* does to them.                                                           *)
(***************************************************************************)
EXTENDS ReplyTurn, FeedbackProofs

PendingRecs(r) == [x \in Pending(r) |-> r.issued_records[x]]

Swept(r, now) ==
    [x \in {y \in Pending(r) : r.issued_records[y].expires > now} |-> r.issued_records[x]]

\* Pruning revisions leaves the pending records alone.
LEMMA UnpinnedRecs ==
    ASSUME NEW r, MapsTyped(r)
    PROVE  PendingRecs(without_unpinned_revisions(r)) = PendingRecs(r)
BY UnpinnedFields DEF PendingRecs, Pending

\* Two roots with the same issued records have the same pending ones.
LEMMA SameRecs ==
    ASSUME NEW r, NEW q, q.issued_records = r.issued_records
    PROVE  PendingRecs(q) = PendingRecs(r)
BY DEF PendingRecs, Pending

\* Evicting complete records leaves them alone.
LEMMA DropIssuedRecs ==
    ASSUME NEW r, NEW V, MapsTyped(r), V \cap Pending(r) = {}
    PROVE  PendingRecs(DropIssued(r, V)) = PendingRecs(r)
BY DEF MapsTyped, EmptyRoot, PendingRecs, Pending, DropIssued, without_keys

\* A cleanup sweeps them.
LEMMA CleanupRecs ==
    ASSUME NEW r, NEW now \in Nat, NEW w, MapsTyped(r)
    PROVE  PendingRecs(cleanup_candidate(r, now, w)) = Swept(r, now)
<1> DEFINE q == without_expired(r, now, w)
           expired == ExpiredAt(r.issued_records, now)
<1>1. /\ DOMAIN q.issued_records = DOMAIN r.issued_records \ expired
      /\ \A x \in DOMAIN q.issued_records :
            q.issued_records[x] = WithoutExpiredReceipts(r.issued_records[x], now)
  BY DEF MapsTyped, EmptyRoot, without_expired, DropIssued, without_keys
<1>2. /\ MapsTyped(q)
      /\ cleanup_candidate(r, now, w) = without_unpinned_revisions(q)
  BY WithoutExpiredTyped DEF cleanup_candidate
<1>3. ASSUME NEW x \in DOMAIN r.issued_records
      PROVE  /\ WithoutExpiredReceipts(r.issued_records[x], now).phase
                    = r.issued_records[x].phase
             /\ r.issued_records[x].phase = "pending" =>
                    /\ WithoutExpiredReceipts(r.issued_records[x], now)
                            = r.issued_records[x]
                    /\ r.issued_records[x].expires \in Nat
  BY DEF MapsTyped, IsMap, WithoutExpiredReceipts, PendingRecord, CompleteRecord
<1>4. ASSUME NEW x \in Pending(r)
      PROVE  x \in expired <=> ~(r.issued_records[x].expires > now)
  BY <1>3 DEF Pending, ExpiredAt
<1> HIDE DEF q, expired
<1>5. Pending(q) = {x \in Pending(r) : r.issued_records[x].expires > now}
  BY <1>1, <1>3, <1>4 DEF Pending
<1>6. \A x \in Pending(q) : q.issued_records[x] = r.issued_records[x]
  BY <1>1, <1>3, <1>5 DEF Pending
<1>7. PendingRecs(q) = Swept(r, now)
  BY <1>5, <1>6 DEF PendingRecs, Swept
<1> QED
  BY <1>2, <1>7, UnpinnedRecs

\* The record a reservation writes.
ReservedRecord(s, owner) ==
    [phase |-> "pending", request_hash |-> s.request_hash,
     replay_eligible |-> s.replay_eligible, owner_token |-> owner,
     expires |-> mono + PendingTtl]

\* A reservation adds its record.
LEMMA ReserveRecs ==
    ASSUME NEW r, MapsTyped(r), NEW s, NEW owner, NEW revision
    PROVE  PendingRecs(reserve_reply_candidate(r, s, owner, revision)) =
                with_updates(PendingRecs(r),
                             Single(<<s.key, s.request_id>>, ReservedRecord(s, owner)))
<1> DEFINE q == reserve_reply_candidate(r, s, owner, revision)
           key == <<s.key, s.request_id>>
           record == ReservedRecord(s, owner)
<1>1. q.issued_records = with_updates(r.issued_records, Single(key, record))
  BY DEF MapsTyped, EmptyRoot, reserve_reply_candidate, ReservedRecord
<1>2. record.phase = "pending"
  BY DEF ReservedRecord
<1> HIDE DEF q, key, record
<1>3. Pending(q) = Pending(r) \cup {key}
  BY <1>1, <1>2 DEF Pending, with_updates, Single
<1>4. PendingRecs(q) = with_updates(PendingRecs(r), Single(key, record))
  BY <1>1, <1>3 DEF PendingRecs, with_updates, Single, Pending
<1> QED
  BY <1>4 DEF q, key, record

\* An abort removes its record.
LEMMA AbortRecs ==
    ASSUME NEW r, NEW h, MapsTyped(r)
    PROVE  PendingRecs(abort_reply_candidate(r, h)) =
                without_keys(PendingRecs(r), {<<h.key, h.request_id>>})
<1> DEFINE key == <<h.key, h.request_id>>
           base == [r EXCEPT !.issued_records = without_keys(@, {key}),
                             !.pending_request_by_state = without_keys(@, {h.key})]
<1> HIDE DEF key
<1>1. base.issued_records = without_keys(r.issued_records, {key})
  BY DEF MapsTyped, EmptyRoot
<1>2. MapsTyped(base)
  BY WithoutKeysIsMap DEF MapsTyped, EmptyRoot
<1> HIDE DEF base
<1>3. PendingRecs(base) = without_keys(PendingRecs(r), {key})
  BY <1>1 DEF PendingRecs, Pending, without_keys
<1>4. PendingRecs(without_unpinned_revisions(base)) = PendingRecs(base)
  BY <1>2, UnpinnedRecs
<1> QED
  BY <1>3, <1>4 DEF abort_reply_candidate, base, key

\* A commit removes its record too: it is complete now.
LEMMA CommitRecs ==
    ASSUME RecordsTyped, NEW h, NEW reply, NEW response, NEW scope, NEW A, NEW V,
           MapsTyped(commit_reply_candidate(root, h, reply, response, scope, A))
    PROVE  PendingRecs(DropSessions(
               commit_reply_candidate(root, h, reply, response, scope, A), V)) =
                without_keys(PendingRecs(root), {<<h.key, h.request_id>>})
<1> DEFINE key == <<h.key, h.request_id>>
           record == issued_record(h, reply, response, scope)
           candidate == commit_reply_candidate(root, h, reply, response, scope, A)
           kept == [candidate EXCEPT
                      !.conversation_turns = without_keys(candidate.conversation_turns, V),
                      !.clarification_records =
                          without_keys(candidate.clarification_records, V)]
<1>1. candidate.issued_records = with_updates(root.issued_records, Single(key, record))
  BY DEF RecordsTyped, MapsTyped, EmptyRoot, commit_reply_candidate
<1>2. record.phase = "complete"
  BY DEF issued_record, Unreported
<1> HIDE DEF key, record, candidate
<1>3. PendingRecs(candidate) = without_keys(PendingRecs(root), {key})
  BY <1>1, <1>2 DEF PendingRecs, Pending, with_updates, Single, without_keys
<1>4. /\ MapsTyped(kept)
      /\ kept.issued_records = candidate.issued_records
  BY WithoutKeysIsMap DEF MapsTyped, EmptyRoot, candidate, without_keys
<1> HIDE DEF kept
<1>5. PendingRecs(without_unpinned_revisions(kept)) = PendingRecs(candidate)
  BY <1>4, UnpinnedRecs, SameRecs
<1> QED
  BY <1>3, <1>5 DEF DropSessions, kept, candidate, key

\* A feedback commit rewrites a complete record.
LEMMA FeedbackRecs ==
    ASSUME RecordsTyped, NEW p \in prepared, CommitFeedback(p)
    PROVE  PendingRecs(root') = PendingRecs(root)
<1> DEFINE key == <<p.key, p.hash.request_id>>
           revised == revised_record(root.issued_records[key], p)
           candidate == commit_feedback_candidate(root, p)
<1>1. key \in Complete(root)
  BY DEF CommitFeedback, StillCurrent, Resolves
<1>2. root.issued_records[key] \in CompleteRecord
  BY <1>1 DEF RecordsTyped, Complete, MapsTyped, IsMap, CompleteRecord, PendingRecord
<1>3. revised.phase = "complete"
  BY <1>2 DEF revised_record, CompleteRecord
<1>4. /\ MapsTyped(candidate)
      /\ candidate.issued_records = with_updates(root.issued_records, Single(key, revised))
  BY CommitFeedbackCandidateTyped DEF RecordsTyped, MapsTyped, EmptyRoot,
     commit_feedback_candidate
<1> HIDE DEF key, revised, candidate
<1>5. PendingRecs(candidate) = PendingRecs(root)
  <2>1. Pending(candidate) = Pending(root) /\ key \notin Pending(root)
    BY <1>1, <1>3, <1>4 DEF Pending, Complete, with_updates, Single
  <2> QED BY <1>4, <2>1 DEF PendingRecs, Pending, with_updates, Single
<1>6. PICK V : root' = without_unpinned_revisions(
           [candidate EXCEPT !.action_ledger_records = without_keys(@, V)])
  BY DEF CommitFeedback, candidate
<1> DEFINE kept == [candidate EXCEPT !.action_ledger_records = without_keys(@, V)]
<1>7. MapsTyped(kept) /\ kept.issued_records = candidate.issued_records
  BY <1>4, WithoutKeysIsMap DEF MapsTyped, EmptyRoot
<1> HIDE DEF kept
<1>8. root' = without_unpinned_revisions(kept)
  BY <1>6 DEF kept
<1> QED
  BY <1>5, <1>7, <1>8, UnpinnedRecs, SameRecs

\* Dropping a preparation leaves the pending records alone.
LEMMA DropTokenRecs ==
    ASSUME NEW r, NEW p, MapsTyped(r) PROVE PendingRecs(DropToken(r, p)) = PendingRecs(r)
<1> DEFINE base == [r EXCEPT !.prepared_feedback_tokens =
                        without_keys(@, {<<p.key, p.feedback_id>>})]
<1>1. MapsTyped(base) /\ base.issued_records = r.issued_records
  BY WithoutKeysIsMap DEF MapsTyped, EmptyRoot
<1> HIDE DEF base
<1>2. PendingRecs(without_unpinned_revisions(base)) = PendingRecs(r)
  BY <1>1, UnpinnedRecs, SameRecs
<1> QED
  BY <1>2 DEF DropToken, base

\* A preparation sweeps them: its own token is none of theirs.
LEMMA PrepareRecs ==
    ASSUME RecordsTyped, NEW k, NEW f, NEW hash,
           PrepareFeedback(k, f, hash) \/ ReusePreparation(k, f, hash)
    PROVE  PendingRecs(root') = Swept(root, mono)
<1> DEFINE r == cleanup_candidate(root, mono, wall)
<1>1. MapsTyped(r) /\ PendingRecs(r) = Swept(root, mono)
  BY CleanupTyped, CleanupRecs DEF RecordsTyped
<1>2. \/ root' = r
      \/ \E p : root' = [r EXCEPT !.prepared_feedback_tokens =
                            with_updates(@, Single(<<k, f>>, p))]
  BY DEF PrepareFeedback, ReusePreparation
<1> HIDE DEF r
<1>3. root'.issued_records = r.issued_records
  BY <1>1, <1>2 DEF MapsTyped, EmptyRoot
<1> QED
  BY <1>1, <1>3, SameRecs

\* A reservation sweeps them and adds its own, or only sweeps them.
LEMMA ReserveReplyRecs ==
    ASSUME RecordsTyped, NEW s \in Submissions, ReserveReply(s)
    PROVE  \/ /\ PendingRecs(root') = Swept(root, mono)
              /\ held' = held
           \/ \E owner \in FreshOwners : \E h :
                /\ PendingRecs(root') =
                        with_updates(Swept(root, mono),
                            Single(<<s.key, s.request_id>>, ReservedRecord(s, owner)))
                /\ held' = held \cup {h}
                /\ h.key = s.key /\ h.request_id = s.request_id /\ h.owner_token = owner
<1> DEFINE cleaned == cleanup_candidate(root, mono, wall)
           evicted(V) == without_unpinned_revisions(DropIssued(cleaned, V))
           handed(owner, revision) ==
               [key |-> s.key, request_id |-> s.request_id,
                request_hash |-> s.request_hash,
                replay_eligible |-> s.replay_eligible, owner_token |-> owner,
                revision |-> revision, moved |-> FALSE]
<1>1. MapsTyped(cleaned) /\ PendingRecs(cleaned) = Swept(root, mono)
  BY CleanupTyped, CleanupRecs DEF RecordsTyped
<1>2. PICK V \in IssuedEvictions(cleaned) :
        \E owner \in Drawn(FreshOwners) : \E revision :
            \/ /\ root' = reserve_reply_candidate(evicted(V), s, owner, revision)
               /\ held' = held \cup {handed(owner, revision)}
            \/ root' = evicted(V) /\ held' = held
  BY DEF ReserveReply
<1>3. V \cap Pending(cleaned) = {}
  BY DEF IssuedEvictions, IssuedVictims, Complete, Pending
<1> HIDE DEF cleaned
<1>4. MapsTyped(evicted(V)) /\ PendingRecs(evicted(V)) = Swept(root, mono)
  BY <1>1, <1>3, DropIssuedTyped, DropIssuedRecs, UnpinnedTyped, UnpinnedRecs
<1> HIDE DEF evicted
<1>5. PICK owner \in FreshOwners : \E revision :
        \/ /\ root' = reserve_reply_candidate(evicted(V), s, owner, revision)
           /\ held' = held \cup {handed(owner, revision)}
        \/ root' = evicted(V) /\ held' = held
  BY <1>2, DrawnIn
<1>6. CASE root' = evicted(V) /\ held' = held
  BY <1>4, <1>6
<1>7. ASSUME NEW revision,
             root' = reserve_reply_candidate(evicted(V), s, owner, revision),
             held' = held \cup {handed(owner, revision)}
      PROVE  \E h : /\ PendingRecs(root') =
                            with_updates(Swept(root, mono),
                                Single(<<s.key, s.request_id>>, ReservedRecord(s, owner)))
                    /\ held' = held \cup {h}
                    /\ h.key = s.key /\ h.request_id = s.request_id /\ h.owner_token = owner
  <2>1. PendingRecs(root') =
            with_updates(Swept(root, mono),
                         Single(<<s.key, s.request_id>>, ReservedRecord(s, owner)))
    BY <1>4, <1>7, ReserveRecs
  <2>2. LET h == handed(owner, revision) IN
        h.key = s.key /\ h.request_id = s.request_id /\ h.owner_token = owner
    OBVIOUS
  <2> HIDE DEF handed
  <2> QED BY <1>7, <2>1, <2>2
<1> QED
  BY <1>5, <1>6, <1>7

-----------------------------------------------------------------------------
(* Leases, of any map of records by conversation and request. *)

IsFunction(l) == l = [k \in DOMAIN l |-> l[k]]

LeaseOf(record) == [owner |-> record.owner_token, until |-> record.expires]

LeasesOf(l, recs) ==
    /\ DOMAIN l = {x[1] : x \in DOMAIN recs}
    /\ \A x \in DOMAIN recs : l[x[1]] = LeaseOf(recs[x])

\* With an exact pending index, the leases are the pending records, one of each
\* conversation.
LEMMA PendingLeases ==
    ASSUME NEW r, PendingIndexed(r)
    PROVE  /\ IsFunction(leases(r))
           /\ LeasesOf(leases(r), PendingRecs(r))
           /\ \A x, y \in DOMAIN PendingRecs(r) : x[1] = y[1] => x = y
BY DEF PendingIndexed, leases, PendingRecs, LeasesOf, LeaseOf, IsFunction

\* The records determine the leases.
LEMMA SameLeases ==
    ASSUME NEW l, NEW m, NEW f, IsFunction(l), IsFunction(m), LeasesOf(l, f), LeasesOf(m, f)
    PROVE  m = l
<1>1. DOMAIN l = DOMAIN m /\ \A k \in DOMAIN l : l[k] = m[k]
  BY DEF LeasesOf
<1> QED
  BY <1>1 DEF IsFunction

LiveAt(f, now) == {k \in DOMAIN f : f[k].until > now}

\* A sweep of the records is a sweep of the leases.
LEMMA SweptLeases ==
    ASSUME NEW l, NEW m, NEW f, NEW now, IsFunction(m), LeasesOf(l, f),
           \A x, y \in DOMAIN f : x[1] = y[1] => x = y,
           LeasesOf(m, [x \in {y \in DOMAIN f : f[y].expires > now} |-> f[x]])
    PROVE  m = [k \in LiveAt(l, now) |-> l[k]]
<1> DEFINE g == [x \in {y \in DOMAIN f : f[y].expires > now} |-> f[x]]
<1>1. /\ DOMAIN g = {x \in DOMAIN f : f[x].expires > now}
      /\ \A x \in DOMAIN g : g[x] = f[x]
  OBVIOUS
<1>2. LeasesOf(m, g)
  OBVIOUS
<1> HIDE DEF g
<1>3. \A x \in DOMAIN f : l[x[1]].until = f[x].expires
  <2>1. \A record : LeaseOf(record).until = record.expires
    BY DEF LeaseOf
  <2> QED BY <2>1 DEF LeasesOf
<1>4. DOMAIN m = LiveAt(l, now)
  BY <1>1, <1>2, <1>3 DEF LeasesOf, LiveAt
<1>5. ASSUME NEW k \in DOMAIN m PROVE m[k] = l[k]
  <2>1. PICK x \in DOMAIN g : k = x[1]
    BY <1>2 DEF LeasesOf
  <2>2. g[x] = f[x] /\ x \in DOMAIN f
    BY <1>1
  <2>3. m[x[1]] = LeaseOf(g[x])
    BY <1>2 DEF LeasesOf
  <2>4. l[x[1]] = LeaseOf(f[x])
    BY <2>2 DEF LeasesOf
  <2> QED BY <2>1, <2>2, <2>3, <2>4
<1> QED
  BY <1>4, <1>5 DEF IsFunction

\* One more record, of a conversation without one, is one more lease.
LEMMA AddedLease ==
    ASSUME NEW l, NEW m, NEW f, NEW key, NEW record, LeasesOf(l, f),
           LeasesOf(m, with_updates(f, Single(key, record))), key[1] \notin DOMAIN l
    PROVE  /\ DOMAIN m = DOMAIN l \cup {key[1]}
           /\ m[key[1]] = LeaseOf(record)
           /\ \A j \in DOMAIN l : m[j] = l[j]
<1> DEFINE g == with_updates(f, Single(key, record))
<1>1. /\ DOMAIN g = DOMAIN f \cup {key}
      /\ g[key] = record
      /\ \A x \in DOMAIN f \ {key} : g[x] = f[x]
  BY DEF with_updates, Single
<1>2. LeasesOf(m, g)
  OBVIOUS
<1> HIDE DEF g
<1>3. key \notin DOMAIN f
  BY DEF LeasesOf
<1>4. DOMAIN m = DOMAIN l \cup {key[1]}
  <2>1. DOMAIN m = {x[1] : x \in DOMAIN g} /\ DOMAIN l = {x[1] : x \in DOMAIN f}
    BY <1>2 DEF LeasesOf
  <2> QED BY <1>1, <2>1
<1>5. m[key[1]] = LeaseOf(record)
  <2>1. key \in DOMAIN g /\ g[key] = record
    BY <1>1
  <2>2. m[key[1]] = LeaseOf(g[key])
    BY <1>2, <2>1 DEF LeasesOf
  <2> QED BY <2>1, <2>2
<1>6. ASSUME NEW j \in DOMAIN l PROVE m[j] = l[j]
  <2>1. PICK x \in DOMAIN f : j = x[1]
    BY DEF LeasesOf
  <2>2. g[x] = f[x] /\ x \in DOMAIN g
    BY <1>1, <1>3
  <2>3. m[x[1]] = LeaseOf(g[x])
    BY <1>2, <2>2 DEF LeasesOf
  <2>4. l[x[1]] = LeaseOf(f[x])
    BY DEF LeasesOf
  <2> QED BY <2>1, <2>2, <2>3, <2>4
<1> QED
  BY <1>4, <1>5, <1>6

\* One record less is one lease less.
LEMMA RemovedLease ==
    ASSUME NEW l, NEW m, NEW f, NEW key \in DOMAIN f, IsFunction(m), LeasesOf(l, f),
           \A x, y \in DOMAIN f : x[1] = y[1] => x = y,
           LeasesOf(m, without_keys(f, {key}))
    PROVE  m = [j \in DOMAIN l \ {key[1]} |-> l[j]]
<1> DEFINE g == without_keys(f, {key})
<1>1. /\ DOMAIN g = DOMAIN f \ {key}
      /\ \A x \in DOMAIN g : g[x] = f[x]
  BY DEF without_keys
<1>2. LeasesOf(m, g)
  OBVIOUS
<1> HIDE DEF g
<1>3. DOMAIN m = DOMAIN l \ {key[1]}
  <2>1. ASSUME NEW j \in DOMAIN m PROVE j \in DOMAIN l \ {key[1]}
    <3>1. PICK x \in DOMAIN g : j = x[1]
      BY <1>2 DEF LeasesOf
    <3>2. x \in DOMAIN f /\ x # key
      BY <1>1
    <3>3. x[1] # key[1]
      BY <3>2
    <3> QED BY <3>1, <3>2, <3>3 DEF LeasesOf
  <2>2. ASSUME NEW j \in DOMAIN l \ {key[1]} PROVE j \in DOMAIN m
    <3>1. PICK x \in DOMAIN f : j = x[1]
      BY DEF LeasesOf
    <3>2. x \in DOMAIN g
      BY <1>1, <3>1
    <3> QED BY <1>2, <3>1, <3>2 DEF LeasesOf
  <2> QED BY <2>1, <2>2
<1>4. ASSUME NEW j \in DOMAIN m PROVE m[j] = l[j]
  <2>1. PICK x \in DOMAIN g : j = x[1]
    BY <1>2 DEF LeasesOf
  <2>2. g[x] = f[x] /\ x \in DOMAIN f
    BY <1>1
  <2>3. m[x[1]] = LeaseOf(g[x])
    BY <1>2 DEF LeasesOf
  <2>4. l[x[1]] = LeaseOf(f[x])
    BY <2>2 DEF LeasesOf
  <2> QED BY <2>1, <2>2, <2>3, <2>4
<1> QED
  BY <1>3, <1>4 DEF IsFunction

-----------------------------------------------------------------------------
(* Owner tokens are as good as locks' owners. *)

\* A token was handed to one caller, and is on the record that caller reserved.
OwnersUnique ==
    /\ \A h, i \in held : h.owner_token = i.owner_token => h = i
    /\ \A h \in held, x \in DOMAIN PendingRecs(root) :
            PendingRecs(root)[x].owner_token = h.owner_token => x = <<h.key, h.request_id>>

\* The history flag says nothing about who holds what.
LEMMA MovedHolders ==
    ASSUME RecordsTyped, NEW k
    PROVE  /\ lease_holders(Moved(k)) = lease_holders(held)
           /\ \A i \in Moved(k) : \E h \in held :
                /\ i.key = h.key /\ i.request_id = h.request_id
                /\ i.owner_token = h.owner_token
                /\ i = IF h.key = k THEN [h EXCEPT !.moved = TRUE] ELSE h
<1> DEFINE moved(h) == IF h.key = k THEN [h EXCEPT !.moved = TRUE] ELSE h
<1>1. \A h \in held : /\ moved(h).key = h.key /\ moved(h).request_id = h.request_id
                      /\ moved(h).owner_token = h.owner_token
  BY DEF RecordsTyped, Reservation
<1>2. Moved(k) = {moved(h) : h \in held}
  BY DEF Moved
<1>3. \A i \in Moved(k) : \E h \in held : i = moved(h)
  BY <1>2
<1>4. \A h \in held : moved(h) \in Moved(k)
  BY <1>2
<1>5. \A i \in Moved(k) : \E h \in held :
            /\ i.key = h.key /\ i.request_id = h.request_id
            /\ i.owner_token = h.owner_token /\ i = moved(h)
  BY <1>1, <1>3
<1>6. lease_holders(Moved(k)) = lease_holders(held)
  <2> HIDE DEF moved
  <2> QED BY <1>1, <1>4, <1>5 DEF lease_holders
<1> QED
  BY <1>5, <1>6

\* Callers that go and records that go leave the others' tokens unique.
LEMMA OwnersKept ==
    ASSUME RecordsTyped, OwnersUnique,
           held' \subseteq held \/ \E k : held' \subseteq Moved(k),
           \A x \in DOMAIN PendingRecs(root') :
                x \in DOMAIN PendingRecs(root) /\ PendingRecs(root')[x] = PendingRecs(root)[x]
    PROVE  OwnersUnique'
<1>1. /\ \A h, i \in held' : h.owner_token = i.owner_token => h = i
      /\ \A i \in held' : \E h \in held :
            /\ i.key = h.key /\ i.request_id = h.request_id
            /\ i.owner_token = h.owner_token
  <2>1. CASE held' \subseteq held
    BY <2>1 DEF OwnersUnique
  <2>2. CASE \E k : held' \subseteq Moved(k)
    <3>1. PICK k : held' \subseteq Moved(k)
      BY <2>2
    <3> DEFINE moved(h) == IF h.key = k THEN [h EXCEPT !.moved = TRUE] ELSE h
    <3>2. \A i \in held' : \E h \in held :
            /\ i.key = h.key /\ i.request_id = h.request_id
            /\ i.owner_token = h.owner_token /\ i = moved(h)
      BY <3>1, MovedHolders
    <3> HIDE DEF moved
    <3>3. \A i, j \in held' : i.owner_token = j.owner_token => i = j
      BY <3>2 DEF OwnersUnique
    <3> QED
      BY <3>2, <3>3
  <2> QED BY <2>1, <2>2
<1>2. ASSUME NEW i \in held', NEW x \in DOMAIN PendingRecs(root'),
             PendingRecs(root')[x].owner_token = i.owner_token
      PROVE  x = <<i.key, i.request_id>>
  <2>1. PICK h \in held : /\ i.key = h.key /\ i.request_id = h.request_id
                          /\ i.owner_token = h.owner_token
    BY <1>1
  <2> QED
    BY <1>2, <2>1 DEF OwnersUnique
<1> QED
  BY <1>1, <1>2 DEF OwnersUnique

\* A sweep only removes.
LEMMA SweptWithin ==
    ASSUME NEW r, NEW now, NEW x \in DOMAIN Swept(r, now)
    PROVE  x \in DOMAIN PendingRecs(r) /\ Swept(r, now)[x] = PendingRecs(r)[x]
BY DEF Swept, PendingRecs

\* Releasing a record only removes.
LEMMA WithoutWithin ==
    ASSUME NEW f, NEW S, NEW x \in DOMAIN without_keys(f, S)
    PROVE  x \in DOMAIN f /\ without_keys(f, S)[x] = f[x]
BY DEF without_keys

\* A reservation gets a token nobody has.
LEMMA ReserveOwners ==
    ASSUME RecordsTyped, OwnersUnique, NEW s \in Submissions, ReserveReply(s)
    PROVE  OwnersUnique'
<1>1. CASE PendingRecs(root') = Swept(root, mono) /\ held' = held
  BY <1>1, SweptWithin, OwnersKept
<1>2. ASSUME NEW owner \in FreshOwners, NEW h,
             PendingRecs(root') = with_updates(Swept(root, mono),
                        Single(<<s.key, s.request_id>>, ReservedRecord(s, owner))),
             held' = held \cup {h},
             h.key = s.key, h.request_id = s.request_id, h.owner_token = owner
      PROVE  OwnersUnique'
  <2> DEFINE key == <<s.key, s.request_id>>
             f == PendingRecs(root')
  <2>1. /\ DOMAIN f = DOMAIN Swept(root, mono) \cup {key}
        /\ f[key] = ReservedRecord(s, owner)
        /\ \A x \in DOMAIN f \ {key} : f[x] = Swept(root, mono)[x]
    BY <1>2 DEF with_updates, Single
  <2>2. ReservedRecord(s, owner).owner_token = owner
    BY DEF ReservedRecord
  <2>3. /\ \A i \in held : i.owner_token # owner
        /\ \A x \in DOMAIN PendingRecs(root) : PendingRecs(root)[x].owner_token # owner
    BY DEF FreshOwners, PendingRecs
  <2> HIDE DEF f
  <2>4. \A x \in DOMAIN f \ {key} :
            /\ x \in DOMAIN PendingRecs(root) /\ f[x] = PendingRecs(root)[x]
            /\ f[x].owner_token # owner
    BY <2>1, <2>3, SweptWithin
  <2>5. \A i, j \in held' : i.owner_token = j.owner_token => i = j
    BY <1>2, <2>3 DEF OwnersUnique
  <2>6. key = <<h.key, h.request_id>>
    BY <1>2
  <2> HIDE DEF key
  <2>7. ASSUME NEW i \in held', NEW x \in DOMAIN f, f[x].owner_token = i.owner_token
        PROVE  x = <<i.key, i.request_id>>
    <3>1. CASE x = key
      <4>1. i.owner_token = owner
        BY <2>1, <2>2, <2>7, <3>1
      <4>2. i = h
        BY <1>2, <2>3, <4>1
      <4> QED BY <2>6, <3>1, <4>2
    <3>2. CASE x # key
      <4>1. i.owner_token # owner
        BY <2>4, <2>7, <3>2
      <4>2. i \in held
        BY <1>2, <4>1
      <4> QED BY <2>4, <2>7, <3>2, <4>2 DEF OwnersUnique
    <3> QED BY <3>1, <3>2
  <2> QED BY <2>5, <2>7 DEF OwnersUnique, f
<1> QED
  BY <1>1, <1>2, ReserveReplyRecs

\* What a commit by the owner does to the records and the callers.
LEMMA CommitReplyRecs ==
    ASSUME RecordsTyped, NEW h \in held, NEW reply \in Replies, NEW scope \in Scopes,
           CommitReply(h, reply, scope)
    PROVE  /\ Owns(root, h)
           /\ PendingRecs(root') = without_keys(PendingRecs(root), {<<h.key, h.request_id>>})
           /\ held' = Moved(h.key) \ {[h EXCEPT !.moved = TRUE]}
<1>1. PICK response, A, V :
        /\ response \in Drawn(FreshResponses)
        /\ root' = DropSessions(
                    commit_reply_candidate(root, h, reply, response, scope, A), V)
  BY DEF CommitReply
<1>2. MapsTyped(commit_reply_candidate(root, h, reply, response, scope, A))
  BY <1>1, DrawnIn, CommitCandidateTyped DEF CommitReply, FreshResponses
<1> QED
  BY <1>1, <1>2, CommitRecs DEF CommitReply

\* No operation hands a token out twice or moves it to another record.
LEMMA OwnersStep ==
    ASSUME RecordsTyped, OwnersUnique, [Next]_vars PROVE OwnersUnique'
<1>1. CASE \E s \in Submissions : ReserveReply(s)
  BY <1>1, ReserveOwners
<1>2. CASE \E h \in held : AbortReply(h)
  <2>1. PICK h \in held : AbortReply(h)
    BY <1>2
  <2>2. \/ PendingRecs(root') = PendingRecs(root)
        \/ PendingRecs(root') = without_keys(PendingRecs(root), {<<h.key, h.request_id>>})
    BY <2>1, AbortRecs DEF AbortReply, RecordsTyped
  <2> QED
    BY <2>1, <2>2, WithoutWithin, OwnersKept DEF AbortReply
<1>3. CASE \E h \in held, reply \in Replies, scope \in Scopes : CommitReply(h, reply, scope)
  <2>1. PICK h \in held, reply \in Replies, scope \in Scopes : CommitReply(h, reply, scope)
    BY <1>3
  <2>2. /\ PendingRecs(root') = without_keys(PendingRecs(root), {<<h.key, h.request_id>>})
        /\ held' \subseteq Moved(h.key)
    BY <2>1, CommitReplyRecs
  <2> QED
    BY <2>2, WithoutWithin, OwnersKept
<1>4. CASE \E k \in Keys, f \in FeedbackIds, q \in Requests, response \in Responses,
              body \in Bodies :
              LET hash == [request_id |-> q, response_id |-> response, body |-> body] IN
              PrepareFeedback(k, f, hash) \/ ReusePreparation(k, f, hash)
  <2>1. PICK k, f, hash : PrepareFeedback(k, f, hash) \/ ReusePreparation(k, f, hash)
    BY <1>4
  <2>2. PendingRecs(root') = Swept(root, mono)
    BY <2>1, PrepareRecs
  <2>3. held' = held
    BY <2>1 DEF PrepareFeedback, ReusePreparation
  <2> QED
    BY <2>2, <2>3, SweptWithin, OwnersKept
<1>5. CASE \E p \in prepared : CommitFeedback(p) \/ RefuseFeedback(p)
  <2>1. PICK p \in prepared : CommitFeedback(p) \/ RefuseFeedback(p)
    BY <1>5
  <2>2. PendingRecs(root') = PendingRecs(root)
    BY <2>1, FeedbackRecs, DropTokenRecs DEF RefuseFeedback, RecordsTyped
  <2>3. held' = held \/ held' = Moved(p.key)
    BY <2>1 DEF CommitFeedback, RefuseFeedback
  <2> QED
    BY <2>2, <2>3, OwnersKept
<1>6. CASE Cleanup
  <2>1. PendingRecs(root') = Swept(root, mono) /\ held' = held
    BY <1>6, CleanupRecs DEF Cleanup, RecordsTyped
  <2> QED
    BY <2>1, SweptWithin, OwnersKept
<1>7. CASE Tick \/ WallStep \/ UNCHANGED vars
  BY <1>7 DEF Tick, WallStep, vars, OwnersUnique
<1> QED
  BY <1>1, <1>2, <1>3, <1>4, <1>5, <1>6, <1>7 DEF Next

-----------------------------------------------------------------------------
(* The steps of the lock. *)

\* What the steps below have in common.
LockInv == RecordsTyped /\ PendingIndexExact /\ OwnersUnique

\* The pending records of an exact root are its leases.
LEMMA RootLeases ==
    ASSUME PendingIndexExact
    PROVE  /\ IsFunction(leases(root))
           /\ LeasesOf(leases(root), PendingRecs(root))
           /\ \A x, y \in DOMAIN PendingRecs(root) : x[1] = y[1] => x = y
BY PendingLeases DEF PendingIndexExact

\* An operation that only removes what has run out sweeps.
LEMMA LockSweep ==
    ASSUME PendingIndexExact, PendingIndexed(root'),
           PendingRecs(root') = Swept(root, mono),
           lease_holders(held') = lease_holders(held), mono' = mono
    PROVE  Lock!Sweep
<1>1. Swept(root, mono) =
        [x \in {y \in DOMAIN PendingRecs(root) : PendingRecs(root)[y].expires > mono}
            |-> PendingRecs(root)[x]]
  BY DEF Swept, PendingRecs
<1>2. leases(root') = [k \in LiveAt(leases(root), mono) |-> leases(root)[k]]
  <2> DEFINE l == leases(root)
             m == leases(root')
             f == PendingRecs(root)
  <2>1. LeasesOf(l, f) /\ \A x, y \in DOMAIN f : x[1] = y[1] => x = y
    BY RootLeases
  <2>2. /\ IsFunction(m)
        /\ LeasesOf(m, [x \in {y \in DOMAIN f : f[y].expires > mono} |-> f[x]])
    BY <1>1, PendingLeases
  <2> HIDE DEF l, m, f
  <2>3. m = [k \in LiveAt(l, mono) |-> l[k]]
    BY <2>1, <2>2, SweptLeases
  <2> QED BY <2>3 DEF l, m
<1> QED
  BY <1>2 DEF Lock!Sweep, Lock!Live, LiveAt

\* An operation that leaves the records and their holders alone stutters.
LEMMA LockStutter ==
    ASSUME PendingIndexExact, PendingIndexed(root'),
           PendingRecs(root') = PendingRecs(root),
           lease_holders(held') = lease_holders(held), mono' = mono
    PROVE  UNCHANGED Lock!vars
<1>1. leases(root') = leases(root)
  BY RootLeases, PendingLeases, SameLeases
<1> QED
  BY <1>1 DEF Lock!vars

\* A conversation that can be reserved has no lease that is live.
LEMMA ReservableFree ==
    ASSUME RecordsTyped, PendingIndexExact, NEW s \in Submissions, ReserveReply(s)
    PROVE  \A x \in DOMAIN Swept(root, mono) : x[1] # s.key
<1> DEFINE cleaned == cleanup_candidate(root, mono, wall)
<1>1. PendingIndexed(cleaned) /\ Reservable(cleaned, s)
  BY CleanupPending DEF RecordsTyped, PendingIndexExact, ReserveReply
<1>2. Swept(root, mono) = PendingRecs(cleaned)
  BY CleanupRecs DEF RecordsTyped
<1> HIDE DEF cleaned
<1> QED
  BY <1>1, <1>2 DEF Reservable, PendingIndexed, PendingRecs

\* A reservation acquires the conversation, or sweeps when it is refused.
LEMMA LockReserve ==
    ASSUME LockInv, PendingIndexed(root'), NEW s \in Submissions, ReserveReply(s)
    PROVE  Lock!Next
<1>1. CASE PendingRecs(root') = Swept(root, mono) /\ held' = held
  BY <1>1, LockSweep DEF LockInv, ReserveReply, Lock!Next
<1>2. ASSUME NEW owner \in FreshOwners, NEW h,
             PendingRecs(root') = with_updates(Swept(root, mono),
                        Single(<<s.key, s.request_id>>, ReservedRecord(s, owner))),
             held' = held \cup {h},
             h.key = s.key, h.request_id = s.request_id, h.owner_token = owner
      PROVE  Lock!Acquire(s.key, owner)
  <2> DEFINE l == leases(root)
             g == [k \in LiveAt(l, mono) |-> l[k]]
             f == Swept(root, mono)
             key == <<s.key, s.request_id>>
  <2>1. LeasesOf(l, PendingRecs(root)) /\ IsFunction(leases(root'))
    BY RootLeases, PendingLeases DEF LockInv
  <2>2. LeasesOf(g, f)
    <3>1. /\ DOMAIN f = {x \in DOMAIN PendingRecs(root) :
                            PendingRecs(root)[x].expires > mono}
          /\ \A x \in DOMAIN f : f[x] = PendingRecs(root)[x]
      BY DEF Swept, PendingRecs
    <3>2. \A record : LeaseOf(record).until = record.expires
      BY DEF LeaseOf
    <3>3. \A x \in DOMAIN PendingRecs(root) :
            x[1] \in DOMAIN l /\ l[x[1]].until = PendingRecs(root)[x].expires
      BY <2>1, <3>2 DEF LeasesOf
    <3>4. DOMAIN g = LiveAt(l, mono) /\ \A k \in DOMAIN g : g[k] = l[k]
      OBVIOUS
    <3> HIDE DEF l, f, g
    <3>5. DOMAIN g = {x[1] : x \in DOMAIN f}
      BY <2>1, <3>1, <3>3, <3>4 DEF LeasesOf, LiveAt
    <3>6. ASSUME NEW x \in DOMAIN f PROVE g[x[1]] = LeaseOf(f[x])
      BY <2>1, <3>1, <3>4, <3>5 DEF LeasesOf
    <3> QED BY <3>5, <3>6 DEF LeasesOf
  <2>3. s.key \notin LiveAt(l, mono)
    BY <2>2, ReservableFree DEF LockInv, LeasesOf
  <2>4. LeasesOf(leases(root'), with_updates(f, Single(key, ReservedRecord(s, owner))))
    BY <1>2, PendingLeases
  <2>5. LeaseOf(ReservedRecord(s, owner)) = [owner |-> owner, until |-> mono + PendingTtl]
    BY DEF LeaseOf, ReservedRecord
  <2>6. key[1] = s.key /\ DOMAIN g = LiveAt(l, mono)
    OBVIOUS
  <2>7. leases(root') = [j \in LiveAt(l, mono) \cup {s.key} |->
            IF j = s.key THEN [owner |-> owner, until |-> mono + PendingTtl] ELSE l[j]]
    <3> DEFINE m == leases(root')
               record == ReservedRecord(s, owner)
    <3>1. key[1] \notin DOMAIN g /\ IsFunction(m) /\ LeasesOf(g, f)
          /\ LeasesOf(m, with_updates(f, Single(key, record)))
      BY <2>1, <2>2, <2>3, <2>4, <2>6
    <3>2. LeaseOf(record) = [owner |-> owner, until |-> mono + PendingTtl]
      BY <2>5
    <3>3. \A j \in LiveAt(l, mono) : g[j] = l[j]
      OBVIOUS
    <3> HIDE DEF key, f, g, m, record
    <3>4. /\ DOMAIN m = DOMAIN g \cup {key[1]}
          /\ m[key[1]] = LeaseOf(record)
          /\ \A j \in DOMAIN g : m[j] = g[j]
      BY <3>1, AddedLease
    <3>5. m = [j \in LiveAt(l, mono) \cup {s.key} |->
            IF j = s.key THEN [owner |-> owner, until |-> mono + PendingTtl] ELSE l[j]]
      <4>1. DOMAIN m = LiveAt(l, mono) \cup {s.key}
        BY <2>6, <3>4 DEF key, g
      <4>2. m[s.key] = [owner |-> owner, until |-> mono + PendingTtl]
        BY <2>6, <3>2, <3>4
      <4>3. \A j \in LiveAt(l, mono) : j # s.key /\ m[j] = l[j]
        BY <2>3, <2>6, <3>3, <3>4
      <4>4. m = [j \in DOMAIN m |-> m[j]]
        BY <3>1 DEF IsFunction
      <4> QED BY <4>1, <4>2, <4>3, <4>4
    <3> QED BY <3>5 DEF m
  <2>8. /\ \A i \in held : i.owner_token # owner
        /\ \A x \in DOMAIN PendingRecs(root) : PendingRecs(root)[x].owner_token # owner
    BY DEF FreshOwners, PendingRecs
  <2>9. \A j \in DOMAIN l : l[j].owner # owner
    <3>1. \A record : LeaseOf(record).owner = record.owner_token
      BY DEF LeaseOf
    <3> HIDE DEF l
    <3>2. \A x \in DOMAIN PendingRecs(root) : l[x[1]].owner # owner
      BY <2>1, <2>8, <3>1 DEF LeasesOf
    <3>3. \A j \in DOMAIN l : \E x \in DOMAIN PendingRecs(root) : j = x[1]
      BY <2>1 DEF LeasesOf
    <3> QED BY <3>2, <3>3
  <2>10. \A c \in lease_holders(held) : c[2] # owner
    BY <2>8 DEF lease_holders
  <2>11. lease_holders(held') = lease_holders(held) \cup {<<s.key, owner>>}
    BY <1>2 DEF lease_holders
  <2>12. mono' = mono
    BY DEF ReserveReply
  <2> QED
    BY <2>3, <2>7, <2>9, <2>10, <2>11, <2>12 DEF Lock!Acquire, Lock!Live, LiveAt
<1>3. s.key \in Keys /\ FreshOwners \subseteq Owners
  BY InputAssumption DEF FreshOwners
<1> QED
  BY <1>1, <1>2, <1>3, ReserveReplyRecs DEF LockInv, Lock!Next

\* An owner that removes its record and goes releases the conversation.
LEMMA LockRelease ==
    ASSUME LockInv, PendingIndexed(root'), NEW h \in held, Owns(root, h),
           PendingRecs(root') = without_keys(PendingRecs(root), {<<h.key, h.request_id>>}),
           lease_holders(held') = lease_holders(held) \ {<<h.key, h.owner_token>>},
           mono' = mono
    PROVE  Lock!Release(h.key, h.owner_token)
<1> DEFINE key == <<h.key, h.request_id>>
<1>1. /\ key \in DOMAIN PendingRecs(root) /\ key[1] = h.key
      /\ PendingRecs(root)[key].owner_token = h.owner_token
  BY DEF Owns, PendingRecs
<1>2. leases(root)[h.key].owner = h.owner_token /\ h.key \in DOMAIN leases(root)
  <2>1. \A record : LeaseOf(record).owner = record.owner_token
    BY DEF LeaseOf
  <2> HIDE DEF key
  <2> QED BY <1>1, <2>1, RootLeases DEF LockInv, LeasesOf
<1>3. leases(root') = [j \in DOMAIN leases(root) \ {h.key} |-> leases(root)[j]]
  <2> DEFINE l == leases(root)
             m == leases(root')
             f == PendingRecs(root)
  <2>1. LeasesOf(m, without_keys(f, {key})) /\ IsFunction(m)
    BY PendingLeases
  <2>2. LeasesOf(l, f) /\ \A x, y \in DOMAIN f : x[1] = y[1] => x = y
    BY RootLeases DEF LockInv
  <2>3. key \in DOMAIN f /\ key[1] = h.key
    BY <1>1
  <2> HIDE DEF l, m, f, key
  <2>4. m = [j \in DOMAIN l \ {key[1]} |-> l[j]]
    BY <2>1, <2>2, <2>3, RemovedLease
  <2> QED BY <2>3, <2>4 DEF l, m
<1>4. <<h.key, h.owner_token>> \in lease_holders(held)
  BY DEF lease_holders
<1> QED
  BY <1>2, <1>3, <1>4 DEF Lock!Release

\* Without the caller that goes, its token is gone.
LEMMA HolderGone ==
    ASSUME LockInv, NEW h \in held
    PROVE  lease_holders(held \ {h}) = lease_holders(held) \ {<<h.key, h.owner_token>>}
BY DEF LockInv, OwnersUnique, lease_holders

\* The same, when a commit marks the others.
LEMMA CommitterGone ==
    ASSUME LockInv, NEW h \in held
    PROVE  lease_holders(Moved(h.key) \ {[h EXCEPT !.moved = TRUE]}) =
                lease_holders(held) \ {<<h.key, h.owner_token>>}
<1> DEFINE gone == [h EXCEPT !.moved = TRUE]
<1>1. gone.key = h.key /\ gone.owner_token = h.owner_token /\ gone \in Moved(h.key)
  BY DEF LockInv, RecordsTyped, Reservation, Moved
<1>2. \A i \in Moved(h.key) : i.owner_token = h.owner_token => i = gone
  BY MovedHolders DEF LockInv, OwnersUnique
<1> HIDE DEF gone
<1>3. lease_holders(Moved(h.key) \ {gone}) =
            lease_holders(Moved(h.key)) \ {<<h.key, h.owner_token>>}
  BY <1>1, <1>2 DEF lease_holders
<1> QED
  BY <1>3, MovedHolders DEF LockInv, gone

\* An abort releases, or learns that the lease was lost.
LEMMA LockAbort ==
    ASSUME LockInv, PendingIndexed(root'), NEW h \in held, AbortReply(h)
    PROVE  Lock!Next
<1>1. h.key \in Keys /\ h.owner_token \in Owners /\ mono' = mono
  BY DEF LockInv, RecordsTyped, Reservation, AbortReply
<1>2. lease_holders(held') = lease_holders(held) \ {<<h.key, h.owner_token>>}
  BY HolderGone DEF AbortReply
<1>3. CASE Owns(root, h)
  <2>1. PendingRecs(root') = without_keys(PendingRecs(root), {<<h.key, h.request_id>>})
    BY <1>3, AbortRecs DEF AbortReply, LockInv, RecordsTyped
  <2> QED
    BY <1>1, <1>2, <1>3, <2>1, LockRelease DEF Lock!Next
<1>4. CASE ~Owns(root, h)
  <2>1. root' = root
    BY <1>4 DEF AbortReply
  <2>2. h.key \in DOMAIN leases(root) => leases(root)[h.key].owner # h.owner_token
    <3>1. \A record : LeaseOf(record).owner = record.owner_token
      BY DEF LeaseOf
    <3> SUFFICES ASSUME h.key \in DOMAIN leases(root),
                        leases(root)[h.key].owner = h.owner_token
                 PROVE  FALSE
      OBVIOUS
    <3>2. PICK x \in DOMAIN PendingRecs(root) : x[1] = h.key
      BY RootLeases DEF LockInv, LeasesOf
    <3>3. PendingRecs(root)[x].owner_token = h.owner_token
      BY <3>1, <3>2, RootLeases DEF LockInv, LeasesOf
    <3>4. x = <<h.key, h.request_id>>
      BY <3>3 DEF LockInv, OwnersUnique
    <3> QED
      BY <1>4, <3>3, <3>4 DEF Owns, PendingRecs
  <2>3. <<h.key, h.owner_token>> \in lease_holders(held)
    BY DEF lease_holders
  <2> QED
    BY <1>1, <1>2, <2>1, <2>2, <2>3 DEF Lock!Lost, Lock!Next
<1> QED
  BY <1>3, <1>4

\* Every step of the coordinator is a step of the lock, or none.
LEMMA LockStep ==
    ASSUME LockInv, PendingIndexed(root'), [Next]_vars
    PROVE  [Lock!Next]_(Lock!vars)
<1>1. CASE \E s \in Submissions : ReserveReply(s)
  BY <1>1, LockReserve
<1>2. CASE \E h \in held : AbortReply(h)
  BY <1>2, LockAbort
<1>3. CASE \E h \in held, reply \in Replies, scope \in Scopes : CommitReply(h, reply, scope)
  <2>1. PICK h \in held, reply \in Replies, scope \in Scopes : CommitReply(h, reply, scope)
    BY <1>3
  <2>2. h.key \in Keys /\ h.owner_token \in Owners /\ mono' = mono
    BY <2>1 DEF LockInv, RecordsTyped, Reservation, CommitReply
  <2>3. lease_holders(held') = lease_holders(held) \ {<<h.key, h.owner_token>>}
    BY <2>1, CommitterGone DEF CommitReply
  <2>4. /\ Owns(root, h)
        /\ PendingRecs(root') =
                without_keys(PendingRecs(root), {<<h.key, h.request_id>>})
    BY <2>1, CommitReplyRecs DEF LockInv
  <2> QED
    BY <2>2, <2>3, <2>4, LockRelease DEF Lock!Next
<1>4. CASE \E k \in Keys, f \in FeedbackIds, q \in Requests, response \in Responses,
              body \in Bodies :
              LET hash == [request_id |-> q, response_id |-> response, body |-> body] IN
              PrepareFeedback(k, f, hash) \/ ReusePreparation(k, f, hash)
  <2>1. PICK k, f, hash : PrepareFeedback(k, f, hash) \/ ReusePreparation(k, f, hash)
    BY <1>4
  <2>2. PendingRecs(root') = Swept(root, mono)
    BY <2>1, PrepareRecs DEF LockInv
  <2>3. held' = held /\ mono' = mono
    BY <2>1 DEF PrepareFeedback, ReusePreparation
  <2> QED
    BY <2>2, <2>3, LockSweep DEF LockInv, Lock!Next
<1>5. CASE \E p \in prepared : CommitFeedback(p) \/ RefuseFeedback(p)
  <2>1. PICK p \in prepared : CommitFeedback(p) \/ RefuseFeedback(p)
    BY <1>5
  <2>2. PendingRecs(root') = PendingRecs(root)
    BY <2>1, FeedbackRecs, DropTokenRecs DEF RefuseFeedback, LockInv, RecordsTyped
  <2>3. lease_holders(held') = lease_holders(held) /\ mono' = mono
    BY <2>1, MovedHolders DEF CommitFeedback, RefuseFeedback, LockInv
  <2> QED
    BY <2>2, <2>3, LockStutter DEF LockInv
<1>6. CASE Cleanup
  <2>1. PendingRecs(root') = Swept(root, mono) /\ held' = held /\ mono' = mono
    BY <1>6, CleanupRecs DEF Cleanup, LockInv, RecordsTyped
  <2> QED
    BY <2>1, LockSweep DEF LockInv, Lock!Next
<1>7. CASE Tick
  BY <1>7 DEF Tick, Lock!Tick, Lock!Next
<1>8. CASE WallStep \/ UNCHANGED vars
  BY <1>8 DEF WallStep, vars, Lock!vars
<1> QED
  BY <1>1, <1>2, <1>3, <1>4, <1>5, <1>6, <1>7, <1>8 DEF Next

\* The coordinator implements the lock, for every configuration and whatever its
\* callers do: reservations, commits, aborts, evictions, feedback and cleanups
\* give a conversation to one turn at a time, and take it from a turn only when
\* the turn has run out or hands it back itself.
THEOREM CoordinatorImplementsTurnLock == Spec => ImplementsTurnLock
<1>1. Init => Lock!Init /\ OwnersUnique
  BY DEF Init, Lock!Init, OwnersUnique, EmptyRoot, EmptyMap, leases, lease_holders
<1>2. RecordsTyped /\ OwnersUnique /\ [Next]_vars => OwnersUnique'
  BY OwnersStep
<1>3. /\ RecordsTyped /\ PendingIndexExact /\ OwnersUnique
      /\ PendingIndexExact' /\ [Next]_vars
      => [Lock!Next]_(Lock!vars)
  <2>1. PendingIndexExact' => PendingIndexed(root')
    BY DEF PendingIndexExact
  <2> QED BY <2>1, LockStep DEF LockInv
<1> QED
  BY <1>1, <1>2, <1>3, RecordsStayTyped, OneTurnPerConversation, PTL
  DEF Spec, ImplementsTurnLock, Lock!Spec
-----------------------------------------------------------------------------
(* Revisions tell a caller whether its conversation moved on. *)

\* While a conversation's epoch is the one its caller saw, its revision is not
\* behind the caller's, and ahead of it once anything was committed; a caller that
\* owns its record and was not overtaken is at its revision.
InEpoch(r, h) ==
    /\ h.key \in DOMAIN r.state_revisions
    /\ r.state_revisions[h.key].epoch = h.revision.epoch

Epochal(r, H) ==
    \A h \in H :
        /\ InEpoch(r, h) =>
            /\ h.revision.revision <= r.state_revisions[h.key].revision
            /\ h.moved => h.revision.revision < r.state_revisions[h.key].revision
        /\ Owns(r, h) /\ ~h.moved => AtRevision(r, h.key, h.revision)

\* Who owns its record in q owns it in r.
OwnersStay(r, q) == \A h \in held : Owns(q, h) => Owns(r, h)

\* Fewer pending records have fewer owners.
LEMMA FewerOwners ==
    ASSUME NEW r, NEW q,
           \A x \in DOMAIN PendingRecs(q) :
                x \in DOMAIN PendingRecs(r) /\ PendingRecs(q)[x] = PendingRecs(r)[x]
    PROVE  OwnersStay(r, q)
<1> SUFFICES ASSUME NEW h \in held, Owns(q, h) PROVE Owns(r, h)
  BY DEF OwnersStay
<1>1. <<h.key, h.request_id>> \in DOMAIN PendingRecs(q)
  BY DEF Owns, PendingRecs
<1> QED BY <1>1 DEF Owns, PendingRecs

\* A record that is owned pins its conversation's revision.
LEMMA OwnedIsPinned ==
    ASSUME NEW r, RevisionsPinned(r), NEW h, Owns(r, h)
    PROVE  h.key \in DOMAIN r.state_revisions
<1>1. <<h.key, h.request_id>> \in DOMAIN r.issued_records /\ <<h.key, h.request_id>>[1] = h.key
  BY DEF Owns, Pending
<1> QED BY <1>1 DEF RevisionsPinned, PinnedKeys

\* Pruning revisions of conversations that are not pinned misleads no caller.
LEMMA EpochalLess ==
    ASSUME NEW r, NEW q, Epochal(r, held), Restricts(r.state_revisions, q.state_revisions),
           RevisionsPinned(q), OwnersStay(r, q)
    PROVE  Epochal(q, held)
<1> SUFFICES ASSUME NEW h \in held
             PROVE  /\ InEpoch(q, h) =>
                        /\ h.revision.revision <= q.state_revisions[h.key].revision
                        /\ h.moved => h.revision.revision < q.state_revisions[h.key].revision
                    /\ Owns(q, h) /\ ~h.moved => AtRevision(q, h.key, h.revision)
  BY DEF Epochal
<1>1. ASSUME InEpoch(q, h)
      PROVE  InEpoch(r, h) /\ q.state_revisions[h.key] = r.state_revisions[h.key]
  BY <1>1 DEF InEpoch, Restricts
<1>2. ASSUME Owns(q, h), ~h.moved PROVE AtRevision(q, h.key, h.revision)
  <2>1. AtRevision(r, h.key, h.revision)
    BY <1>2 DEF OwnersStay, Epochal
  <2>2. h.key \in DOMAIN q.state_revisions
    BY <1>2, OwnedIsPinned
  <2> QED BY <2>1, <2>2 DEF AtRevision, Restricts
<1> QED BY <1>1, <1>2 DEF Epochal

\* A commit overtakes the callers of its conversation.
LEMMA EpochalBump ==
    ASSUME RecordsTyped, Epochal(root, held), NEW k \in DOMAIN root.state_revisions, NEW q,
           q.state_revisions = with_updates(root.state_revisions,
                Single(k, Bumped(root.state_revisions[k]))),
           OwnersStay(root, q)
    PROVE  Epochal(q, Moved(k))
<1> DEFINE old == root.state_revisions
           new == q.state_revisions
           moved(h) == IF h.key = k THEN [h EXCEPT !.moved = TRUE] ELSE h
<1>1. old[k] \in Revision
  BY DEF RecordsTyped, MapsTyped, IsMap
<1>2. /\ DOMAIN new = DOMAIN old /\ \A x \in DOMAIN old \ {k} : new[x] = old[x]
      /\ new[k] = Bumped(old[k])
  BY DEF with_updates, Single
<1> HIDE DEF old, new
<1>3. new[k].epoch = old[k].epoch /\ new[k].revision = old[k].revision + 1
  BY <1>1, <1>2 DEF Bumped, Revision
<1> SUFFICES ASSUME NEW h \in held
             PROVE  /\ InEpoch(q, moved(h)) =>
                        /\ moved(h).revision.revision <= new[moved(h).key].revision
                        /\ moved(h).moved => moved(h).revision.revision < new[moved(h).key].revision
                    /\ Owns(q, moved(h)) /\ ~moved(h).moved =>
                            AtRevision(q, moved(h).key, moved(h).revision)
  BY DEF Epochal, Moved, new
<1>4. /\ h \in Reservation /\ moved(h).key = h.key /\ moved(h).revision = h.revision
      /\ moved(h).request_id = h.request_id /\ moved(h).owner_token = h.owner_token
      /\ h.key = k => moved(h).moved
      /\ h.key # k => moved(h) = h
  BY DEF RecordsTyped, Reservation
<1>5. InEpoch(q, moved(h)) => InEpoch(root, h)
  BY <1>2, <1>3, <1>4 DEF InEpoch, old, new
<1> HIDE DEF moved
<1>6. CASE h.key = k
  <2>1. InEpoch(q, moved(h)) => h.revision.revision <= old[k].revision
    BY <1>5, <1>6 DEF Epochal, old
  <2>2. h.revision.revision \in Nat /\ old[k].revision \in Nat
    BY <1>1, <1>4 DEF Reservation, Revision
  <2> QED BY <1>3, <1>4, <1>6, <2>1, <2>2
<1>7. CASE h.key # k
  <2>1. InEpoch(q, h) => new[h.key] = old[h.key] /\ InEpoch(root, h)
    BY <1>2, <1>4, <1>5, <1>7 DEF InEpoch, new
  <2>2. Owns(q, h) => Owns(root, h)
    BY DEF OwnersStay
  <2>3. AtRevision(root, h.key, h.revision) => AtRevision(q, h.key, h.revision)
    BY <1>2, <1>7 DEF AtRevision, old, new
  <2> QED BY <1>4, <1>7, <2>1, <2>2, <2>3 DEF Epochal, old
<1> QED BY <1>6, <1>7

\* Pruning restricts the revisions.
LEMMA UnpinnedRestricts ==
    ASSUME NEW r, MapsTyped(r)
    PROVE  Restricts(r.state_revisions, without_unpinned_revisions(r).state_revisions)
BY DEF MapsTyped, EmptyRoot, without_unpinned_revisions, without_keys, Restricts

\* A cleanup restricts them.
LEMMA CleanupRestricts ==
    ASSUME NEW r, NEW now, NEW w, MapsTyped(r)
    PROVE  Restricts(r.state_revisions, cleanup_candidate(r, now, w).state_revisions)
<1>1. without_expired(r, now, w).state_revisions = r.state_revisions
  BY DEF MapsTyped, EmptyRoot, without_expired, DropIssued
<1> QED BY <1>1, WithoutExpiredTyped, UnpinnedRestricts DEF cleanup_candidate

\* A cleanup misleads nobody.
LEMMA CleanupEpochal ==
    ASSUME RecordsTyped, RevisionsExact, Epochal(root, held)
    PROVE  LET q == cleanup_candidate(root, mono, wall) IN
           /\ Restricts(root.state_revisions, q.state_revisions)
           /\ OwnersStay(root, q) /\ Epochal(q, held)
<1> DEFINE q == cleanup_candidate(root, mono, wall)
<1>1. Restricts(root.state_revisions, q.state_revisions) /\ RevisionsPinned(q)
  BY CleanupRestricts, CleanupExact DEF RecordsTyped, RevisionsExact
<1>2. PendingRecs(q) = Swept(root, mono)
  BY CleanupRecs DEF RecordsTyped
<1> HIDE DEF q
<1>3. OwnersStay(root, q)
  BY <1>2, SweptWithin, FewerOwners
<1> QED BY <1>1, <1>3, EpochalLess DEF q

\* A reservation starts at the revision there is, or in an epoch nobody has seen.
LEMMA ReserveEpochal ==
    ASSUME RecordsTyped, RevisionsExact, Epochal(root, held), NEW s \in Submissions,
           ReserveReply(s)
    PROVE  Epochal(root', held')
<1> DEFINE cleaned == cleanup_candidate(root, mono, wall)
           evicted(V) == without_unpinned_revisions(DropIssued(cleaned, V))
           key == <<s.key, s.request_id>>
           new(owner, revision) ==
                [key |-> s.key, request_id |-> s.request_id, request_hash |-> s.request_hash,
                 replay_eligible |-> s.replay_eligible, owner_token |-> owner,
                 revision |-> revision, moved |-> FALSE]
<1>1. MapsTyped(cleaned) /\ RevisionsPinned(cleaned) /\ Reservable(cleaned, s)
  BY CleanupTyped, CleanupExact DEF RecordsTyped, RevisionsExact, ReserveReply
<1>2. PICK V \in IssuedEvictions(cleaned), owner \in Drawn(FreshOwners) :
        \E revision \in ReservedRevisions(evicted(V), s.key) :
            \/ root' = evicted(V) /\ held' = held
            \/ /\ root' = reserve_reply_candidate(evicted(V), s, owner, revision)
               /\ held' = held \cup {new(owner, revision)}
  BY DEF ReserveReply
<1>3. PICK revision \in ReservedRevisions(evicted(V), s.key) :
            \/ root' = evicted(V) /\ held' = held
            \/ /\ root' = reserve_reply_candidate(evicted(V), s, owner, revision)
               /\ held' = held \cup {new(owner, revision)}
  BY <1>2
<1>4. /\ Restricts(root.state_revisions, cleaned.state_revisions)
      /\ OwnersStay(root, cleaned) /\ Epochal(cleaned, held)
  BY CleanupEpochal
<1> HIDE DEF cleaned
<1> DEFINE d == DropIssued(cleaned, V)
           e == evicted(V)
<1>5. MapsTyped(d) /\ d.state_revisions = cleaned.state_revisions
      /\ PendingRecs(d) = PendingRecs(cleaned)
      /\ DOMAIN d.issued_records \subseteq DOMAIN cleaned.issued_records
  <2>1. V \cap Pending(cleaned) = {}
    BY <1>2 DEF IssuedEvictions, IssuedVictims, Complete, Pending
  <2>2. /\ d.state_revisions = cleaned.state_revisions
        /\ DOMAIN d.issued_records \subseteq DOMAIN cleaned.issued_records
    BY <1>1 DEF MapsTyped, EmptyRoot, DropIssued, without_keys
  <2> QED BY <1>1, <2>1, <2>2, DropIssuedTyped, DropIssuedRecs
<1>6. /\ MapsTyped(e) /\ RevisionsPinned(e) /\ PendingRecs(e) = PendingRecs(cleaned)
      /\ Restricts(cleaned.state_revisions, e.state_revisions)
      /\ DOMAIN e.issued_records \subseteq DOMAIN cleaned.issued_records
  BY <1>1, <1>5, UnpinnedTyped, UnpinnedRecs, UnpinnedRestricts, UnpinnedFields, EvictExact
<1> HIDE DEF d, evicted
<1>7. /\ Restricts(root.state_revisions, e.state_revisions)
      /\ OwnersStay(cleaned, e) /\ OwnersStay(root, e)
  BY <1>4, <1>6, FewerOwners DEF Restricts, OwnersStay
<1>8. Epochal(e, held)
  BY <1>4, <1>6, <1>7, EpochalLess
<1> HIDE DEF e
<1>9. ASSUME root' = reserve_reply_candidate(e, s, owner, revision),
             held' = held \cup {new(owner, revision)}
      PROVE  Epochal(root', held')
  <2> DEFINE q == root'
             record == [phase |-> "pending", request_hash |-> s.request_hash,
                        replay_eligible |-> s.replay_eligible, owner_token |-> owner,
                        expires |-> mono + PendingTtl]
  <2>1. /\ q.issued_records = with_updates(e.issued_records, Single(key, record))
        /\ q.state_revisions = with_updates(e.state_revisions, Single(s.key, revision))
    BY <1>6, <1>9 DEF MapsTyped, EmptyRoot, reserve_reply_candidate
  <2>2. key \notin DOMAIN e.issued_records
    BY <1>1, <1>6 DEF Reservable
  <2>3. /\ DOMAIN q.state_revisions = DOMAIN e.state_revisions \cup {s.key}
        /\ q.state_revisions[s.key] = revision
        /\ \A k \in DOMAIN e.state_revisions \ {s.key} :
                q.state_revisions[k] = e.state_revisions[k]
    BY <2>1 DEF with_updates, Single
  <2>4. \/ s.key \in DOMAIN e.state_revisions /\ revision = e.state_revisions[s.key]
        \/ s.key \notin DOMAIN e.state_revisions /\ revision.epoch \in FreshEpochs
    BY <1>3, DrawnIn DEF ReservedRevisions, e
  <2>5. owner \in FreshOwners
    BY DrawnIn
  <2>6. ASSUME NEW h \in held, Owns(q, h) PROVE Owns(e, h)
    <3>1. <<h.key, h.request_id>> # key
      <4> SUFFICES ASSUME <<h.key, h.request_id>> = key PROVE FALSE
        OBVIOUS
      <4>1. q.issued_records[key].owner_token = owner
        BY <2>1 DEF with_updates, Single
      <4>2. h.owner_token = owner
        BY <2>6, <4>1 DEF Owns
      <4> QED BY <2>5, <4>2 DEF FreshOwners
    <3> HIDE DEF key, record
    <3> QED BY <2>1, <2>6, <3>1 DEF Owns, Pending, with_updates, Single
  <2>7. ASSUME NEW h \in held
        PROVE  /\ InEpoch(q, h) =>
                    /\ h.revision.revision <= q.state_revisions[h.key].revision
                    /\ h.moved => h.revision.revision < q.state_revisions[h.key].revision
               /\ Owns(q, h) /\ ~h.moved => AtRevision(q, h.key, h.revision)
    <3>1. CASE h.key \in DOMAIN e.state_revisions
      <4>1. h.key \in DOMAIN q.state_revisions
            /\ q.state_revisions[h.key] = e.state_revisions[h.key]
        BY <2>3, <2>4, <3>1
      <4> QED BY <1>8, <2>6, <3>1, <4>1 DEF Epochal, InEpoch, AtRevision
    <3>2. CASE h.key \notin DOMAIN e.state_revisions
      <4>1. ~Owns(q, h)
        BY <1>6, <2>6, <3>2, OwnedIsPinned
      <4>2. ~InEpoch(q, h)
        <5> SUFFICES ASSUME InEpoch(q, h) PROVE FALSE
          OBVIOUS
        <5>1. h.key = s.key /\ revision.epoch = h.revision.epoch
          BY <2>3, <3>2 DEF InEpoch
        <5> QED BY <2>4, <3>2, <5>1 DEF FreshEpochs
      <4> QED BY <4>1, <4>2
    <3> QED BY <3>1, <3>2
  <2>8. LET h == new(owner, revision) IN
        /\ InEpoch(q, h) =>
              /\ h.revision.revision <= q.state_revisions[h.key].revision
              /\ h.moved => h.revision.revision < q.state_revisions[h.key].revision
        /\ Owns(q, h) /\ ~h.moved => AtRevision(q, h.key, h.revision)
    <3>1. revision.revision \in Nat
      <4>1. s.key \in DOMAIN e.state_revisions => e.state_revisions[s.key] \in Revision
        BY <1>6 DEF MapsTyped, IsMap
      <4>2. CASE s.key \in DOMAIN e.state_revisions
        BY <2>4, <4>1, <4>2 DEF Revision
      <4>3. CASE s.key \notin DOMAIN e.state_revisions
        BY <1>3, <4>3 DEF ReservedRevisions, e
      <4> QED BY <4>2, <4>3
    <3> QED BY <2>3, <3>1 DEF AtRevision
  <2> QED BY <1>9, <2>7, <2>8 DEF Epochal
<1> QED BY <1>3, <1>8, <1>9 DEF e

\* An abort misleads nobody,
LEMMA AbortEpochal ==
    ASSUME RecordsTyped, RevisionsExact, Epochal(root, held), NEW h \in held, AbortReply(h)
    PROVE  Epochal(root', held')
<1>1. CASE ~Owns(root, h)
  BY <1>1 DEF AbortReply, Epochal
<1>2. CASE Owns(root, h)
  <2> DEFINE q == abort_reply_candidate(root, h)
  <2>1. RevisionsPinned(q) /\ Restricts(root.state_revisions, q.state_revisions)
    <3>1. Restricts(root.state_revisions, q.state_revisions)
      BY DEF RecordsTyped, MapsTyped, EmptyRoot, abort_reply_candidate,
         without_unpinned_revisions, without_keys, Restricts
    <3> QED BY <3>1, AbortExact DEF RecordsTyped, RevisionsExact
  <2>2. PendingRecs(q) = without_keys(PendingRecs(root), {<<h.key, h.request_id>>})
    BY AbortRecs DEF RecordsTyped
  <2> HIDE DEF q
  <2>3. OwnersStay(root, q)
    BY <2>2, WithoutWithin, FewerOwners
  <2>4. Epochal(q, held)
    BY <2>1, <2>3, EpochalLess
  <2> QED BY <1>2, <2>4 DEF AbortReply, Epochal, q
<1> QED BY <1>1, <1>2

\* and neither does a refused preparation.
LEMMA RefuseEpochal ==
    ASSUME RecordsTyped, RevisionsExact, Epochal(root, held), NEW p \in prepared,
           RefuseFeedback(p)
    PROVE  Epochal(root', held')
<1>1. CASE root' = root
  BY <1>1 DEF RefuseFeedback
<1>2. CASE root' = DropToken(root, p)
  <2> DEFINE q == DropToken(root, p)
  <2>1. RevisionsPinned(q) /\ PendingRecs(q) = PendingRecs(root)
    BY DropTokenExact, DropTokenRecs DEF RecordsTyped, RevisionsExact
  <2>2. Restricts(root.state_revisions, q.state_revisions)
    BY DEF RecordsTyped, MapsTyped, EmptyRoot, DropToken, without_unpinned_revisions,
       without_keys, Restricts
  <2> HIDE DEF q
  <2>3. OwnersStay(root, q)
    BY <2>1, FewerOwners
  <2>4. Epochal(q, held)
    BY <2>1, <2>2, <2>3, EpochalLess
  <2> QED BY <1>2, <2>4 DEF RefuseFeedback, q
<1> QED BY <1>1, <1>2 DEF RefuseFeedback

\* prepare_feedback commits nothing yet.
LEMMA PrepareEpochal ==
    ASSUME RecordsTyped, RevisionsExact, Epochal(root, held), NEW k, NEW f, NEW hash,
           PrepareFeedback(k, f, hash) \/ ReusePreparation(k, f, hash)
    PROVE  Epochal(root', held')
<1> DEFINE r == cleanup_candidate(root, mono, wall)
<1>1. MapsTyped(r) /\ Epochal(r, held)
  BY CleanupTyped, CleanupEpochal DEF RecordsTyped
<1>2. root' = r \/ \E tokens : root' = [r EXCEPT !.prepared_feedback_tokens = tokens]
  BY DEF PrepareFeedback, ReusePreparation
<1>3. held' = held
  BY DEF PrepareFeedback, ReusePreparation
<1> HIDE DEF r
<1>4. root'.issued_records = r.issued_records /\ root'.state_revisions = r.state_revisions
  BY <1>1, <1>2 DEF MapsTyped, EmptyRoot
<1> QED BY <1>1, <1>3, <1>4 DEF Epochal, InEpoch, AtRevision, Owns, Pending

\* commit_reply overtakes the other callers of its conversation.
LEMMA CommitEpochal ==
    ASSUME RecordsTyped, Epochal(root, held), NEW h \in held,
           NEW reply \in Replies, NEW scope \in Scopes, CommitReply(h, reply, scope),
           RevisionsPinned(root')
    PROVE  Epochal(root', held')
<1>1. PICK response \in Drawn(FreshResponses), A \in AuditVictims(root) :
        \E V : root' = DropSessions(
                   commit_reply_candidate(root, h, reply, response, scope, A), V)
  BY DEF CommitReply
<1> DEFINE q == commit_reply_candidate(root, h, reply, response, scope, A)
<1>2. PICK V : root' = DropSessions(q, V)
  BY <1>1
<1>3. h.key \in DOMAIN root.state_revisions /\ MapsTyped(q)
  BY <1>1, DrawnIn, CommitCandidateTyped DEF CommitReply, AtRevision, FreshResponses
<1>4. q.state_revisions = with_updates(root.state_revisions,
            Single(h.key, Bumped(root.state_revisions[h.key])))
  BY DEF RecordsTyped, MapsTyped, EmptyRoot, commit_reply_candidate
<1> HIDE DEF q
<1>5. /\ Restricts(q.state_revisions, root'.state_revisions)
      /\ root'.issued_records = q.issued_records
  BY <1>2, <1>3 DEF MapsTyped, EmptyRoot, DropSessions, without_unpinned_revisions,
     without_keys, Restricts
<1>6. OwnersStay(root, root')
  <2>1. PendingRecs(root') = without_keys(PendingRecs(root), {<<h.key, h.request_id>>})
    BY CommitReplyRecs
  <2> QED BY <2>1, WithoutWithin, FewerOwners
<1>7. OwnersStay(root, q)
  BY <1>5, <1>6 DEF OwnersStay, Owns, Pending
<1>8. Epochal(q, Moved(h.key))
  BY <1>3, <1>4, <1>7, EpochalBump
<1>9. ASSUME NEW i \in Moved(h.key)
      PROVE  /\ InEpoch(root', i) =>
                    /\ i.revision.revision <= root'.state_revisions[i.key].revision
                    /\ i.moved => i.revision.revision < root'.state_revisions[i.key].revision
             /\ Owns(root', i) /\ ~i.moved => AtRevision(root', i.key, i.revision)
  <2>1. InEpoch(root', i) =>
            InEpoch(q, i) /\ root'.state_revisions[i.key] = q.state_revisions[i.key]
    BY <1>5 DEF InEpoch, Restricts
  <2>2. ASSUME Owns(root', i), ~i.moved PROVE AtRevision(root', i.key, i.revision)
    <3>1. i.key \in DOMAIN root'.state_revisions
      BY <2>2, OwnedIsPinned
    <3>2. AtRevision(q, i.key, i.revision)
      BY <1>5, <1>8, <2>2 DEF Epochal, Owns, Pending
    <3> QED BY <1>5, <3>1, <3>2 DEF AtRevision, Restricts
  <2> QED BY <1>8, <2>1, <2>2 DEF Epochal
<1>10. held' \subseteq Moved(h.key)
  BY CommitReplyRecs
<1> QED BY <1>9, <1>10 DEF Epochal

\* So does commit_feedback.
LEMMA FeedbackEpochal ==
    ASSUME RecordsTyped, Epochal(root, held), NEW p \in prepared, CommitFeedback(p),
           RevisionsPinned(root')
    PROVE  Epochal(root', held')
<1> DEFINE q == commit_feedback_candidate(root, p)
<1>1. PICK V : root' = without_unpinned_revisions(
           [q EXCEPT !.action_ledger_records = without_keys(@, V)])
  BY DEF CommitFeedback
<1>2. p.key \in DOMAIN root.state_revisions /\ MapsTyped(q)
  BY CommitFeedbackCandidateTyped DEF CommitFeedback, StillCurrent, AtRevision
<1>3. q.state_revisions = with_updates(root.state_revisions,
            Single(p.key, Bumped(root.state_revisions[p.key])))
  BY DEF RecordsTyped, MapsTyped, EmptyRoot, commit_feedback_candidate
<1> HIDE DEF q
<1>4. /\ Restricts(q.state_revisions, root'.state_revisions)
      /\ root'.issued_records = q.issued_records
  BY <1>1, <1>2 DEF MapsTyped, EmptyRoot, without_unpinned_revisions, without_keys, Restricts
<1>5. OwnersStay(root, root')
  BY FeedbackRecs, FewerOwners
<1>6. OwnersStay(root, q)
  BY <1>4, <1>5 DEF OwnersStay, Owns, Pending
<1>7. Epochal(q, Moved(p.key))
  BY <1>2, <1>3, <1>6, EpochalBump
<1>8. ASSUME NEW i \in Moved(p.key)
      PROVE  /\ InEpoch(root', i) =>
                    /\ i.revision.revision <= root'.state_revisions[i.key].revision
                    /\ i.moved => i.revision.revision < root'.state_revisions[i.key].revision
             /\ Owns(root', i) /\ ~i.moved => AtRevision(root', i.key, i.revision)
  <2>1. InEpoch(root', i) =>
            InEpoch(q, i) /\ root'.state_revisions[i.key] = q.state_revisions[i.key]
    BY <1>4 DEF InEpoch, Restricts
  <2>2. ASSUME Owns(root', i), ~i.moved PROVE AtRevision(root', i.key, i.revision)
    <3>1. i.key \in DOMAIN root'.state_revisions
      BY <2>2, OwnedIsPinned
    <3>2. AtRevision(q, i.key, i.revision)
      BY <1>4, <1>7, <2>2 DEF Epochal, Owns, Pending
    <3> QED BY <1>4, <3>1, <3>2 DEF AtRevision, Restricts
  <2> QED BY <1>7, <2>1, <2>2 DEF Epochal
<1> QED BY <1>8 DEF Epochal, CommitFeedback

\* No step misleads a caller about its conversation.
LEMMA EpochalStep ==
    ASSUME RecordsTyped, RevisionsExact, RevisionsExact', Epochal(root, held), [Next]_vars
    PROVE  Epochal(root', held')
<1>1. RevisionsPinned(root')
  BY DEF RevisionsExact
<1>2. ASSUME NEW k \in Keys, NEW f \in FeedbackIds, NEW q \in Requests,
             NEW response \in Responses, NEW body \in Bodies,
             LET hash == [request_id |-> q, response_id |-> response, body |-> body] IN
             PrepareFeedback(k, f, hash) \/ ReusePreparation(k, f, hash)
      PROVE  Epochal(root', held')
  BY <1>2, PrepareEpochal
<1>3. ASSUME Cleanup PROVE Epochal(root', held')
  BY <1>3, CleanupEpochal DEF Cleanup
<1>4. ASSUME Tick \/ WallStep \/ UNCHANGED vars PROVE Epochal(root', held')
  BY <1>4 DEF Tick, WallStep, vars
<1> QED
  BY <1>1, <1>2, <1>3, <1>4, ReserveEpochal, AbortEpochal, CommitEpochal, RefuseEpochal,
     FeedbackEpochal
  DEF Next

\* A caller's revision is its conversation's exactly while nothing was committed to
\* it: no commit is let through on a conversation that moved on, though its revision
\* was pruned and made anew, and none is refused that nothing overtook.
THEOREM RevisionsIdentifyState == Spec => []RevisionIdentifiesState
<1>1. Init => Epochal(root, held)
  BY DEF Init, Epochal
<1>2. RecordsTyped /\ RevisionsExact /\ RevisionsExact' /\ Epochal(root, held) /\ [Next]_vars
        => Epochal(root, held)'
  BY EpochalStep
<1>3. RecordsTyped /\ Epochal(root, held) => RevisionIdentifiesState
  <2> SUFFICES ASSUME RecordsTyped, Epochal(root, held), NEW h \in held
               PROVE  /\ AtRevision(root, h.key, h.revision) => ~h.moved
                      /\ Owns(root, h) /\ ~h.moved => AtRevision(root, h.key, h.revision)
    BY DEF RevisionIdentifiesState
  <2>1. h.revision.revision \in Nat
    BY DEF RecordsTyped, Reservation, Revision
  <2>2. AtRevision(root, h.key, h.revision) => ~h.moved
    BY <2>1 DEF AtRevision, Epochal, InEpoch
  <2> QED BY <2>2 DEF Epochal
<1> QED BY <1>1, <1>2, <1>3, RecordsStayTyped, RevisionsStayExact, PTL DEF Spec

-----------------------------------------------------------------------------
(* The service: the coordinator under its own callers. *)

\* A turn's snapshot is of a scope a turn can have.
ScopesTyped == \A o \in DOMAIN snapshots : snapshots[o].scope \in Scopes

\* Turns that go take their snapshots, others keep theirs.
LEMMA ScopesKept ==
    ASSUME ScopesTyped, NEW S, snapshots' = without_keys(snapshots, S)
    PROVE  ScopesTyped'
BY DEF ScopesTyped, without_keys

\* An admitted turn gets one of its scope.
LEMMA AdmitScopes ==
    ASSUME ScopesTyped, NEW h, NEW scope \in Scopes, AdmitTurn(h, scope)
    PROVE  ScopesTyped'
<1>1. Snapshot(root, h.key, scope).scope = scope
  BY DEF Snapshot
<1> QED
  BY <1>1 DEF ScopesTyped, AdmitTurn, with_updates, Single

\* Snapshots are of scopes turns have, whatever happens.
LEMMA ScopesStep ==
    ASSUME ScopesTyped, [TurnNext]_turnVars PROVE ScopesTyped'
<1>1. CASE UNCHANGED snapshots
  BY <1>1 DEF ScopesTyped
<1>2. CASE \E S : snapshots' = without_keys(snapshots, S)
  BY <1>2, ScopesKept
<1>3. CASE \E h, scope : scope \in Scopes /\ AdmitTurn(h, scope)
  BY <1>3, AdmitScopes
<1> QED
  BY <1>1, <1>2, <1>3
  DEF TurnNext, turnVars, StartTurn, EndTurn, CommitTurn, SubmitFeedback, FinishFeedback,
      CleanupLoop, Clock

\* What the service does to the coordinator is a step of the coordinator.
LEMMA CoordinatorStep ==
    ASSUME ScopesTyped, [TurnNext]_turnVars PROVE [Next]_vars
<1>1. CASE LoopFree /\ \E s \in Submissions : StartTurn(s)
  BY <1>1 DEF StartTurn, Next
<1>2. CASE \E h \in Starting : (\E scope \in Scopes : AdmitTurn(h, scope)) \/ EndTurn(h)
  <2>1. CASE \E h \in Starting, scope \in Scopes : AdmitTurn(h, scope)
    BY <2>1 DEF AdmitTurn
  <2>2. CASE \E h \in Starting : EndTurn(h)
    BY <2>2 DEF Starting, EndTurn, Next
  <2> QED BY <1>2, <2>1, <2>2
<1>3. CASE LoopFree /\ \E h \in held :
                (\E reply \in Replies : CommitTurn(h, reply)) \/ EndTurn(h)
  <2>1. ASSUME LoopFree, NEW h \in held, NEW reply \in Replies, CommitTurn(h, reply)
        PROVE  Next
    <3>1. h.owner_token \in DOMAIN snapshots
      BY <2>1 DEF LoopFree, Starting
    <3>2. snapshots[h.owner_token].scope \in Scopes
      BY <3>1 DEF ScopesTyped
    <3> QED BY <2>1, <3>2 DEF CommitTurn, Next
  <2>2. CASE \E h \in held : EndTurn(h)
    BY <2>2 DEF EndTurn, Next
  <2> QED BY <1>3, <2>1, <2>2
<1>4. CASE LoopFree /\ \E k \in Keys, f \in FeedbackIds, q \in Requests,
                          response \in Responses, body \in Bodies :
            SubmitFeedback(k, f, [request_id |-> q, response_id |-> response, body |-> body])
  BY <1>4 DEF SubmitFeedback, Next
<1>5. CASE \E p \in prepared : FinishFeedback(p)
  BY <1>5 DEF FinishFeedback, Next
<1>6. CASE CleanupLoop \/ Clock \/ (WallStep /\ UNCHANGED snapshots)
  BY <1>6 DEF CleanupLoop, Clock, Next
<1>7. CASE UNCHANGED turnVars
  BY <1>7 DEF turnVars
<1> QED
  BY <1>1, <1>2, <1>3, <1>4, <1>5, <1>6, <1>7 DEF TurnNext

\* The service's turns, feedback handlers and cleanup loop use the coordinator
\* only as its clients may: every theorem about Coordinator holds of the service.
LEMMA TurnsUseCoordinator == TurnSpec => Spec
<1>1. TurnInit => Init /\ ScopesTyped
  BY DEF TurnInit, ScopesTyped, EmptyMap
<1>2. ScopesTyped /\ [TurnNext]_turnVars => ScopesTyped'
  BY ScopesStep
<1>3. ScopesTyped /\ [TurnNext]_turnVars => [Next]_vars
  BY CoordinatorStep
<1> QED
  BY <1>1, <1>2, <1>3, PTL DEF TurnSpec, Spec

-----------------------------------------------------------------------------
(* No pending record without its turn. *)

HolderOf(S, x, record) ==
    \E h \in S : <<h.key, h.request_id>> = x /\ h.owner_token = record.owner_token

\* The same, of the pending records.
LEMMA HoldersOf ==
    InProgressHasTurn <=>
        \A x \in DOMAIN PendingRecs(root) : HolderOf(held, x, PendingRecs(root)[x])
BY DEF InProgressHasTurn, PendingRecs, HolderOf

\* Records that go, with no holder gone, leave no record alone.
LEMMA HoldersStay ==
    ASSUME RecordsTyped, InProgressHasTurn, held' = held \/ \E k : held' = Moved(k),
           \A x \in DOMAIN PendingRecs(root') :
                x \in DOMAIN PendingRecs(root) /\ PendingRecs(root')[x] = PendingRecs(root)[x]
    PROVE  InProgressHasTurn'
<1>1. \A h \in held : \E i \in held' :
        /\ i.key = h.key /\ i.request_id = h.request_id /\ i.owner_token = h.owner_token
  <2>1. CASE held' = held
    BY <2>1
  <2>2. CASE \E k : held' = Moved(k)
    <3>1. PICK k : held' = Moved(k)
      BY <2>2
    <3>2. ASSUME NEW h \in held
          PROVE  \E i \in Moved(k) : /\ i.key = h.key /\ i.request_id = h.request_id
                                     /\ i.owner_token = h.owner_token
      <4> DEFINE i == IF h.key = k THEN [h EXCEPT !.moved = TRUE] ELSE h
      <4>1. i \in Moved(k)
        BY DEF Moved
      <4>2. i.key = h.key /\ i.request_id = h.request_id /\ i.owner_token = h.owner_token
        BY DEF RecordsTyped, Reservation
      <4> QED BY <4>1, <4>2
    <3> QED BY <3>1, <3>2
  <2> QED BY <2>1, <2>2
<1>2. ASSUME NEW x \in Pending(root')
      PROVE  HolderOf(held', x, root'.issued_records[x])
  <2>1. /\ x \in DOMAIN PendingRecs(root)
        /\ root'.issued_records[x] = PendingRecs(root)[x]
    BY DEF PendingRecs
  <2>2. HolderOf(held, x, PendingRecs(root)[x])
    BY <2>1, HoldersOf
  <2> QED BY <1>1, <2>1, <2>2 DEF HolderOf
<1> QED
  BY <1>2 DEF InProgressHasTurn, HolderOf

\* The caller that goes takes the record it owns, if there is one.
LEMMA HolderLeaves ==
    ASSUME RecordsTyped, InProgressHasTurn, NEW h \in held,
           \/ held' = held \ {h}
           \/ held' = Moved(h.key) \ {[h EXCEPT !.moved = TRUE]},
           \A x \in DOMAIN PendingRecs(root') :
                /\ x \in DOMAIN PendingRecs(root)
                /\ PendingRecs(root')[x] = PendingRecs(root)[x]
                /\ ~ (x = <<h.key, h.request_id>>
                        /\ PendingRecs(root)[x].owner_token = h.owner_token)
    PROVE  InProgressHasTurn'
<1>1. ASSUME NEW x \in Pending(root')
      PROVE  HolderOf(held', x, root'.issued_records[x])
  <2>1. /\ x \in DOMAIN PendingRecs(root)
        /\ root'.issued_records[x] = PendingRecs(root)[x]
        /\ ~ (x = <<h.key, h.request_id>>
                /\ PendingRecs(root)[x].owner_token = h.owner_token)
    BY DEF PendingRecs
  <2>2. PICK i \in held : /\ <<i.key, i.request_id>> = x
                          /\ i.owner_token = PendingRecs(root)[x].owner_token
    BY <2>1, HoldersOf DEF HolderOf
  <2>3. CASE held' = held \ {h}
    BY <2>1, <2>2, <2>3 DEF HolderOf
  <2>4. CASE held' = Moved(h.key) \ {[h EXCEPT !.moved = TRUE]}
    <3> DEFINE moved(g) == IF g.key = h.key THEN [g EXCEPT !.moved = TRUE] ELSE g
    <3>1. /\ moved(i) \in Moved(h.key)
          /\ moved(i).key = i.key /\ moved(i).request_id = i.request_id
          /\ moved(i).owner_token = i.owner_token
      BY DEF Moved, RecordsTyped, Reservation
    <3>2. LET gone == [h EXCEPT !.moved = TRUE] IN
          gone.key = h.key /\ gone.request_id = h.request_id
            /\ gone.owner_token = h.owner_token
      BY DEF RecordsTyped, Reservation
    <3>3. moved(i) # [h EXCEPT !.moved = TRUE]
      BY <2>1, <2>2, <3>1, <3>2
    <3>4. moved(i) \in held'
      BY <2>4, <3>1, <3>3
    <3>5. /\ <<moved(i).key, moved(i).request_id>> = x
          /\ moved(i).owner_token = root'.issued_records[x].owner_token
      BY <2>1, <2>2, <3>1
    <3> HIDE DEF moved
    <3> QED BY <3>4, <3>5 DEF HolderOf
  <2> QED BY <2>3, <2>4
<1> QED
  BY <1>1 DEF InProgressHasTurn, HolderOf

\* A reservation's record is its caller's.
LEMMA ReserveHolder ==
    ASSUME RecordsTyped, InProgressHasTurn, NEW s \in Submissions, ReserveReply(s)
    PROVE  InProgressHasTurn'
<1>1. CASE PendingRecs(root') = Swept(root, mono) /\ held' = held
  BY <1>1, SweptWithin, HoldersStay
<1>2. ASSUME NEW owner \in FreshOwners, NEW h,
             PendingRecs(root') = with_updates(Swept(root, mono),
                        Single(<<s.key, s.request_id>>, ReservedRecord(s, owner))),
             held' = held \cup {h},
             h.key = s.key, h.request_id = s.request_id, h.owner_token = owner
      PROVE  InProgressHasTurn'
  <2> DEFINE key == <<s.key, s.request_id>>
             f == PendingRecs(root')
  <2>1. /\ DOMAIN f = DOMAIN Swept(root, mono) \cup {key}
        /\ f[key] = ReservedRecord(s, owner)
        /\ \A x \in DOMAIN f \ {key} : f[x] = Swept(root, mono)[x]
    BY <1>2 DEF with_updates, Single
  <2>2. ReservedRecord(s, owner).owner_token = owner
    BY DEF ReservedRecord
  <2>3. key = <<h.key, h.request_id>>
    BY <1>2
  <2> HIDE DEF f, key
  <2>4. ASSUME NEW x \in DOMAIN f PROVE HolderOf(held', x, f[x])
    <3>1. CASE x = key
      BY <1>2, <2>1, <2>2, <2>3, <3>1 DEF HolderOf
    <3>2. CASE x # key
      <4>1. x \in DOMAIN PendingRecs(root) /\ f[x] = PendingRecs(root)[x]
        BY <2>1, <3>2, SweptWithin
      <4> QED BY <1>2, <4>1, HoldersOf DEF HolderOf
    <3> QED BY <3>1, <3>2
  <2> QED
    BY <2>4 DEF f, InProgressHasTurn, HolderOf, PendingRecs
<1> QED
  BY <1>1, <1>2, ReserveReplyRecs

\* No operation leaves a pending record without its caller.
LEMMA HolderStep ==
    ASSUME RecordsTyped, InProgressHasTurn, [Next]_vars PROVE InProgressHasTurn'
<1>1. CASE \E s \in Submissions : ReserveReply(s)
  BY <1>1, ReserveHolder
<1>2. CASE \E h \in held : AbortReply(h)
  <2>1. PICK h \in held : AbortReply(h)
    BY <1>2
  <2>2. CASE Owns(root, h)
    <3>1. PendingRecs(root') = without_keys(PendingRecs(root), {<<h.key, h.request_id>>})
      BY <2>1, <2>2, AbortRecs DEF AbortReply, RecordsTyped
    <3> QED
      BY <2>1, <3>1, HolderLeaves DEF AbortReply, without_keys
  <2>3. CASE ~Owns(root, h)
    <3>1. root' = root /\ held' = held \ {h}
      BY <2>1, <2>3 DEF AbortReply
    <3>2. \A x \in DOMAIN PendingRecs(root) :
            ~ (x = <<h.key, h.request_id>>
                /\ PendingRecs(root)[x].owner_token = h.owner_token)
      BY <2>3 DEF Owns, PendingRecs
    <3> QED BY <3>1, <3>2, HolderLeaves
  <2> QED BY <2>2, <2>3
<1>3. CASE \E h \in held, reply \in Replies, scope \in Scopes : CommitReply(h, reply, scope)
  <2>1. PICK h \in held, reply \in Replies, scope \in Scopes : CommitReply(h, reply, scope)
    BY <1>3
  <2>2. /\ PendingRecs(root') = without_keys(PendingRecs(root), {<<h.key, h.request_id>>})
        /\ held' = Moved(h.key) \ {[h EXCEPT !.moved = TRUE]}
    BY <2>1, CommitReplyRecs
  <2> QED
    BY <2>2, HolderLeaves DEF without_keys
<1>4. CASE \E k \in Keys, f \in FeedbackIds, q \in Requests, response \in Responses,
              body \in Bodies :
              LET hash == [request_id |-> q, response_id |-> response, body |-> body] IN
              PrepareFeedback(k, f, hash) \/ ReusePreparation(k, f, hash)
  <2>1. PICK k, f, hash : PrepareFeedback(k, f, hash) \/ ReusePreparation(k, f, hash)
    BY <1>4
  <2>2. PendingRecs(root') = Swept(root, mono) /\ held' = held
    BY <2>1, PrepareRecs DEF PrepareFeedback, ReusePreparation
  <2> QED
    BY <2>2, SweptWithin, HoldersStay
<1>5. CASE \E p \in prepared : CommitFeedback(p) \/ RefuseFeedback(p)
  <2>1. PICK p \in prepared : CommitFeedback(p) \/ RefuseFeedback(p)
    BY <1>5
  <2>2. PendingRecs(root') = PendingRecs(root)
    BY <2>1, FeedbackRecs, DropTokenRecs DEF RefuseFeedback, RecordsTyped
  <2>3. held' = held \/ held' = Moved(p.key)
    BY <2>1 DEF CommitFeedback, RefuseFeedback
  <2> QED
    BY <2>2, <2>3, HoldersStay
<1>6. CASE Cleanup
  <2>1. PendingRecs(root') = Swept(root, mono) /\ held' = held
    BY <1>6, CleanupRecs DEF Cleanup, RecordsTyped
  <2> QED
    BY <2>1, SweptWithin, HoldersStay
<1>7. CASE Tick \/ WallStep \/ UNCHANGED vars
  BY <1>7 DEF Tick, WallStep, vars, InProgressHasTurn
<1> QED
  BY <1>1, <1>2, <1>3, <1>4, <1>5, <1>6, <1>7 DEF Next

\* However a turn ends (committed, refused, failed, cancelled, superseded), its
\* conversation is not left in progress without it.
THEOREM NoTurnLeavesItsReservation == TurnSpec => []InProgressHasTurn
<1>1. Init => InProgressHasTurn
  BY DEF Init, InProgressHasTurn, Pending, EmptyRoot, EmptyMap
<1>2. RecordsTyped /\ InProgressHasTurn /\ [Next]_vars => InProgressHasTurn'
  BY HolderStep
<1> QED
  BY <1>1, <1>2, RecordsStayTyped, TurnsUseCoordinator, PTL DEF Spec

-----------------------------------------------------------------------------
(* What a turn was planned on. *)

TurnsOf(r, k) ==
    IF k \in DOMAIN r.conversation_turns
    THEN {r.conversation_turns[k][i] : i \in DOMAIN r.conversation_turns[k]} ELSE {}

\* q has nothing to say about k but what r says.
Shrunk(r, q, k) ==
    /\ TurnsOf(q, k) \subseteq TurnsOf(r, k)
    /\ k \in DOMAIN q.clarification_records =>
        /\ k \in DOMAIN r.clarification_records
        /\ q.clarification_records[k] = r.clarification_records[k]
    /\ \A scope \in Scopes : \A x \in AdmittedRows(q, k, scope) :
        /\ x \in AdmittedRows(r, k, scope)
        /\ q.action_ledger_records[x] = r.action_ledger_records[x]

\* r has nothing to say about k, to the scope of the snapshot read, but what that says.
StillRead(r, k, read) ==
    LET current == Snapshot(r, k, read.scope) IN
    /\ current.turns \subseteq read.turns
    /\ current.clarification \subseteq read.clarification
    /\ \A x \in DOMAIN current.rows :
            x \in DOMAIN read.rows /\ current.rows[x] = read.rows[x]

\* The parts of a snapshot.
LEMMA SnapshotParts ==
    ASSUME NEW r, NEW k, NEW scope
    PROVE  LET s == Snapshot(r, k, scope) IN
           /\ s.turns = {t \in TurnsOf(r, k) : t.scope = scope}
           /\ s.clarification = {r.clarification_records[c] : c \in
                {c \in DOMAIN r.clarification_records \cap {k} :
                    r.clarification_records[c].scope = scope}}
           /\ s.rows = [x \in AdmittedRows(r, k, scope) |-> r.action_ledger_records[x]]
           /\ s.scope = scope
BY DEF Snapshot, TurnsOf

\* A snapshot of what is there says it.
LEMMA FreshSnapshot ==
    ASSUME NEW r, NEW k, NEW scope
    PROVE  StillRead(r, k, Snapshot(r, k, scope))
<1>1. Snapshot(r, k, scope).scope = scope
  BY DEF Snapshot
<1> QED BY <1>1 DEF StillRead

\* Nothing is added to what a snapshot says when something is forgotten.
LEMMA ShrunkRead ==
    ASSUME NEW r, NEW q, NEW k, Shrunk(r, q, k),
           NEW read, read.scope \in Scopes, StillRead(r, k, read)
    PROVE  StillRead(q, k, read)
<1> DEFINE old == Snapshot(r, k, read.scope)
           new == Snapshot(q, k, read.scope)
<1>1. /\ old.turns = {t \in TurnsOf(r, k) : t.scope = read.scope}
      /\ new.turns = {t \in TurnsOf(q, k) : t.scope = read.scope}
      /\ old.clarification = {r.clarification_records[c] : c \in
            {c \in DOMAIN r.clarification_records \cap {k} :
                r.clarification_records[c].scope = read.scope}}
      /\ new.clarification = {q.clarification_records[c] : c \in
            {c \in DOMAIN q.clarification_records \cap {k} :
                q.clarification_records[c].scope = read.scope}}
      /\ old.rows = [x \in AdmittedRows(r, k, read.scope) |-> r.action_ledger_records[x]]
      /\ new.rows = [x \in AdmittedRows(q, k, read.scope) |-> q.action_ledger_records[x]]
  BY SnapshotParts
<1>2. /\ old.turns \subseteq read.turns
      /\ old.clarification \subseteq read.clarification
      /\ \A x \in DOMAIN old.rows : x \in DOMAIN read.rows /\ old.rows[x] = read.rows[x]
  BY DEF StillRead
<1> HIDE DEF old, new
<1>3. new.turns \subseteq old.turns
  BY <1>1 DEF Shrunk
<1>4. new.clarification \subseteq old.clarification
  BY <1>1 DEF Shrunk
<1>5. \A x \in DOMAIN new.rows : x \in DOMAIN old.rows /\ new.rows[x] = old.rows[x]
  BY <1>1 DEF Shrunk
<1>6. /\ new.turns \subseteq read.turns
      /\ new.clarification \subseteq read.clarification
      /\ \A x \in DOMAIN new.rows : x \in DOMAIN read.rows /\ new.rows[x] = read.rows[x]
  BY <1>2, <1>3, <1>4, <1>5
<1> QED BY <1>6 DEF StillRead, new

\* The rows of what is forgotten go, the others stay as they are.
LEMMA ForgetsRows ==
    ASSUME NEW r, NEW q, Forgets(r, q), NEW k, NEW scope,
           NEW x \in AdmittedRows(q, k, scope)
    PROVE  /\ x \in AdmittedRows(r, k, scope)
           /\ q.action_ledger_records[x] = r.action_ledger_records[x]
<1>1. /\ x \in DOMAIN r.action_ledger_records
      /\ q.action_ledger_records[x] = r.action_ledger_records[x]
      /\ x[2] \in DOMAIN r.response_index
      /\ q.response_index[x[2]] = r.response_index[x[2]]
      /\ r.response_index[x[2]] \in Complete(q)
  BY DEF AdmittedRows, Forgets, Restricts
<1>2. /\ r.response_index[x[2]] \in Complete(r)
      /\ SameAnswer(r.issued_records[r.response_index[x[2]]],
                    q.issued_records[r.response_index[x[2]]])
  BY <1>1 DEF Forgets
<1>3. ActionIdsOf(q.issued_records[r.response_index[x[2]]])
        = ActionIdsOf(r.issued_records[r.response_index[x[2]]])
  BY <1>2 DEF SameAnswer, ActionIdsOf
<1> QED BY <1>1, <1>2, <1>3 DEF AdmittedRows

\* r's history of k is no more than q's.
HistoryShrunk(r, q, k) ==
    /\ TurnsOf(q, k) \subseteq TurnsOf(r, k)
    /\ k \in DOMAIN q.clarification_records =>
        /\ k \in DOMAIN r.clarification_records
        /\ q.clarification_records[k] = r.clarification_records[k]

\* Equal histories are no more.
LEMMA SameShrunk ==
    ASSUME NEW r, NEW q, SameHistories(r, q), NEW k
    PROVE  HistoryShrunk(r, q, k)
BY DEF SameHistories, HistoryShrunk, TurnsOf

\* A cleanup adds nothing to a history.
LEMMA CleanupShrunk ==
    ASSUME NEW r, MapsTyped(r), Recalls(r), NEW now, NEW w \in Nat, NEW k
    PROVE  HistoryShrunk(r, cleanup_candidate(r, now, w), k)
<1> DEFINE e == without_expired(r, now, w)
           kept(i) == RetainedTurns(r.conversation_turns[i], w)
<1>1. /\ e.conversation_turns = [i \in {i \in DOMAIN r.conversation_turns : kept(i) # <<>>}
                                    |-> kept(i)]
      /\ e.clarification_records =
            without_keys(r.clarification_records,
                         {i \in DOMAIN r.clarification_records :
                            r.clarification_records[i].created + ConversationTtl <= w})
  BY DEF MapsTyped, EmptyRoot, without_expired, DropIssued, without_keys
<1>2. SameHistories(e, cleanup_candidate(r, now, w))
  BY WithoutExpiredTyped, HistoriesUntouched DEF cleanup_candidate
<1> HIDE DEF e
<1>3. ASSUME NEW t \in TurnsOf(e, k) PROVE t \in TurnsOf(r, k)
  <2>1. k \in DOMAIN e.conversation_turns
    BY <1>3 DEF TurnsOf
  <2>2. k \in DOMAIN r.conversation_turns /\ e.conversation_turns[k] = kept(k)
    BY <1>1, <2>1
  <2> DEFINE s == r.conversation_turns[k]
             R == RetainedTurns(s, w)
  <2>3. s \in Seq(Turn) /\ Len(s) \in 1 .. MaxMessages
    BY <2>2, HistoryOf
  <2>4. R \in Seq(Turn) /\ \A i \in 1 .. Len(R) : \E j \in 1 .. Len(s) : R[i] = s[j]
    BY <2>3, RetainedKept
  <2>5. e.conversation_turns[k] = R
    BY <2>2
  <2> HIDE DEF s, R
  <2>6. PICK i \in DOMAIN R : t = R[i]
    BY <1>3, <2>1, <2>5 DEF TurnsOf
  <2>7. DOMAIN R = 1 .. Len(R) /\ DOMAIN s = 1 .. Len(s)
    BY <2>3, <2>4
  <2>8. PICK j \in DOMAIN s : t = s[j]
    BY <2>4, <2>6, <2>7
  <2> QED BY <2>2, <2>8 DEF TurnsOf, s
<1>4. HistoryShrunk(r, e, k)
  BY <1>1, <1>3 DEF HistoryShrunk, without_keys
<1> QED BY <1>2, <1>4 DEF HistoryShrunk, SameHistories, TurnsOf

\* A commit adds only to the history of its conversation.
LEMMA CommitShrunk ==
    ASSUME RecordsTyped, NEW h \in held, NEW reply \in Replies, NEW scope \in Scopes,
           CommitReply(h, reply, scope), NEW k, k # h.key
    PROVE  Shrunk(root, root', k)
<1>1a. PICK response \in Drawn(FreshResponses), A \in AuditVictims(root) : \E V :
        root' = DropSessions(commit_reply_candidate(root, h, reply, response, scope, A), V)
  BY DEF CommitReply
<1>1. PICK V :
        root' = DropSessions(commit_reply_candidate(root, h, reply, response, scope, A), V)
  BY <1>1a
<1> DEFINE q == commit_reply_candidate(root, h, reply, response, scope, A)
           key == <<h.key, h.request_id>>
<1>2. MapsTyped(q) /\ MapsTyped(root)
  BY <1>1, DrawnIn, CommitCandidateTyped DEF CommitReply, FreshResponses, RecordsTyped
<1>3. PICK rec, new, clar :
        /\ q.issued_records = with_updates(root.issued_records, Single(key, rec))
        /\ q.response_index = with_updates(root.response_index, Single(response, key))
        /\ q.action_ledger_records = root.action_ledger_records
        /\ q.conversation_turns = with_updates(root.conversation_turns, Single(h.key, new))
        /\ q.clarification_records =
                IF reply.clarifies
                THEN with_updates(root.clarification_records, Single(h.key, clar))
                ELSE without_keys(root.clarification_records, {h.key})
  BY <1>2 DEF MapsTyped, EmptyRoot, commit_reply_candidate
<1> HIDE DEF q
<1>4. /\ root'.issued_records = q.issued_records
      /\ root'.response_index = q.response_index
      /\ root'.action_ledger_records = q.action_ledger_records
      /\ root'.conversation_turns = without_keys(q.conversation_turns, V)
      /\ root'.clarification_records = without_keys(q.clarification_records, V)
  BY <1>1, <1>2 DEF q, DropSessions, MapsTyped, EmptyRoot, without_unpinned_revisions
<1>5. /\ k \in DOMAIN root'.conversation_turns =>
            /\ k \in DOMAIN root.conversation_turns
            /\ root'.conversation_turns[k] = root.conversation_turns[k]
      /\ k \in DOMAIN root'.clarification_records =>
            /\ k \in DOMAIN root.clarification_records
            /\ root'.clarification_records[k] = root.clarification_records[k]
  BY <1>3, <1>4 DEF with_updates, Single, without_keys
<1>6. TurnsOf(root', k) \subseteq TurnsOf(root, k)
  BY <1>5 DEF TurnsOf
<1>7. ASSUME NEW sc \in Scopes, NEW x \in AdmittedRows(root', k, sc)
      PROVE  /\ x \in AdmittedRows(root, k, sc)
             /\ root'.action_ledger_records[x] = root.action_ledger_records[x]
  <2>1. /\ x \in DOMAIN root.action_ledger_records
        /\ root'.action_ledger_records[x] = root.action_ledger_records[x]
        /\ x[1] = k /\ root'.action_ledger_records[x].scope = sc
        /\ x[2] \in DOMAIN root'.response_index
        /\ root'.response_index[x[2]][1] = k
        /\ root'.response_index[x[2]] \in Complete(root')
        /\ x[3] \in ActionIdsOf(root'.issued_records[root'.response_index[x[2]]])
    BY <1>3, <1>4 DEF AdmittedRows
  <2>2. key[1] # k /\ root'.response_index[x[2]] # key
    BY <2>1
  <2>3. x[2] # response /\ x[2] \in DOMAIN root.response_index
        /\ root'.response_index[x[2]] = root.response_index[x[2]]
    <3> DEFINE was == root.response_index
               is == root'.response_index
    <3>1. is = with_updates(was, Single(response, key))
      BY <1>3, <1>4
    <3>2. x[2] \in DOMAIN is /\ is[x[2]] # key
      BY <2>1, <2>2
    <3> HIDE DEF was, is
    <3>3. /\ DOMAIN is = DOMAIN was \cup {response} /\ is[response] = key
          /\ \A z \in DOMAIN was \ {response} : is[z] = was[z]
      BY <3>1 DEF with_updates, Single
    <3>4. x[2] # response /\ x[2] \in DOMAIN was /\ is[x[2]] = was[x[2]]
      BY <3>2, <3>3
    <3> QED BY <3>4 DEF was, is
  <2> DEFINE y == root'.response_index[x[2]]
  <2>4. y \in DOMAIN root.issued_records /\ root'.issued_records[y] = root.issued_records[y]
    <3>1. y \in DOMAIN root'.issued_records /\ y # key
      BY <2>1, <2>2 DEF Complete
    <3> HIDE DEF y, key
    <3> QED BY <1>3, <1>4, <3>1 DEF with_updates, Single
  <2> HIDE DEF y
  <2>5. y \in Complete(root)
    BY <2>1, <2>4 DEF Complete, y
  <2> QED BY <2>1, <2>3, <2>4, <2>5 DEF AdmittedRows, y
<1> QED BY <1>5, <1>6, <1>7 DEF Shrunk

\* Feedback adds only to the rows of its conversation.
LEMMA FeedbackShrunk ==
    ASSUME RecordsTyped, NEW p \in prepared, CommitFeedback(p), NEW k, k # p.key
    PROVE  Shrunk(root, root', k)
<1> DEFINE q == commit_feedback_candidate(root, p)
           key == <<p.key, p.hash.request_id>>
           rec == root.issued_records[key]
<1>0. MapsTyped(root)
  BY DEF RecordsTyped
<1>1. PICK V : root' = without_unpinned_revisions(
                    [q EXCEPT !.action_ledger_records = without_keys(@, V)])
  BY DEF CommitFeedback
<1>2. /\ DOMAIN q = DOMAIN EmptyRoot
      /\ SameHistories(root, q)
      /\ q.issued_records =
            with_updates(root.issued_records, Single(key, revised_record(rec, p)))
      /\ q.response_index = root.response_index
      /\ q.action_ledger_records =
            with_updates(root.action_ledger_records, derive_ledger_updates(root, p, rec))
  BY <1>0, HistoriesUntouched DEF MapsTyped, EmptyRoot, commit_feedback_candidate
<1>3. \A x \in DOMAIN derive_ledger_updates(root, p, rec) : x[1] = p.key
  BY DEF derive_ledger_updates
<1> DEFINE updates == derive_ledger_updates(root, p, rec)
           revised == revised_record(rec, p)
<1> HIDE DEF q, updates, revised, rec
<1>4. /\ SameHistories(root, root')
      /\ root'.issued_records = q.issued_records
      /\ root'.response_index = q.response_index
      /\ root'.action_ledger_records = without_keys(q.action_ledger_records, V)
  BY <1>1, <1>2 DEF EmptyRoot, without_unpinned_revisions, SameHistories
<1>5. ASSUME NEW sc \in Scopes, NEW x \in AdmittedRows(root', k, sc)
      PROVE  /\ x \in AdmittedRows(root, k, sc)
             /\ root'.action_ledger_records[x] = root.action_ledger_records[x]
  <2>1. /\ x \in DOMAIN root'.action_ledger_records
        /\ x[1] = k /\ root'.action_ledger_records[x].scope = sc
        /\ x[2] \in DOMAIN root.response_index
        /\ root.response_index[x[2]][1] = k
        /\ root.response_index[x[2]] \in Complete(root')
        /\ x[3] \in ActionIdsOf(root'.issued_records[root.response_index[x[2]]])
    BY <1>2, <1>4 DEF AdmittedRows
  <2>2. x \notin DOMAIN updates
    BY <1>3, <2>1 DEF updates
  <2>3. /\ x \in DOMAIN root.action_ledger_records
        /\ root'.action_ledger_records[x] = root.action_ledger_records[x]
    BY <1>2, <1>4, <2>1, <2>2 DEF with_updates, without_keys, updates
  <2> DEFINE y == root.response_index[x[2]]
  <2>4. key[1] # k
    OBVIOUS
  <2>5. y \in DOMAIN root.issued_records /\ root'.issued_records[y] = root.issued_records[y]
    <3>1. y \in DOMAIN root'.issued_records /\ y # key
      BY <2>1, <2>4 DEF Complete
    <3> HIDE DEF y, key
    <3> QED BY <1>2, <1>4, <3>1 DEF with_updates, Single
  <2> HIDE DEF y
  <2>6. y \in Complete(root)
    BY <2>1, <2>5 DEF Complete, y
  <2> QED BY <2>1, <2>3, <2>5, <2>6 DEF AdmittedRows, y
<1>6. HistoryShrunk(root, root', k)
  BY <1>4, SameShrunk
<1> QED BY <1>5, <1>6 DEF HistoryShrunk, Shrunk

\* No step adds to what is said of a conversation, unless it overtakes its callers.
LEMMA StepShrinks ==
    ASSUME RecordsTyped, Recalls(root), Agrees(root, prepared), [Next]_vars, NEW k
    PROVE  Shrunk(root, root', k) \/ held' \subseteq Moved(k)
<1> DEFINE cleaned == cleanup_candidate(root, mono, wall)
<1>0. MapsTyped(root) /\ MapsTyped(cleaned) /\ wall \in Nat /\ mono \in Nat
  BY CleanupTyped DEF RecordsTyped
<1>1. HistoryShrunk(root, cleaned, k) /\ Forgets(root, cleaned)
  BY <1>0, CleanupShrunk, CleanupForgets DEF Agrees
<1> HIDE DEF cleaned
<1>a. ASSUME Forgets(root, root'), SameHistories(root, root') \/ SameHistories(cleaned, root')
      PROVE  Shrunk(root, root', k)
  <2>1. HistoryShrunk(root, root', k)
    BY <1>1, <1>a, SameShrunk DEF HistoryShrunk, SameHistories, TurnsOf
  <2>2. \A sc \in Scopes : \A x \in AdmittedRows(root', k, sc) :
            /\ x \in AdmittedRows(root, k, sc)
            /\ root'.action_ledger_records[x] = root.action_ledger_records[x]
    BY <1>a, ForgetsRows
  <2> QED BY <2>1, <2>2 DEF Shrunk, HistoryShrunk
<1>2. ASSUME NEW s \in Submissions, ReserveReply(s) PROVE Shrunk(root, root', k)
  <2>1. PICK V, o, v :
          LET evicted == without_unpinned_revisions(DropIssued(cleaned, V)) IN
          \/ root' = evicted
          \/ root' = reserve_reply_candidate(evicted, s, o, v)
    BY <1>2 DEF ReserveReply, cleaned
  <2>2. MapsTyped(DropIssued(cleaned, V)) /\ SameHistories(cleaned, DropIssued(cleaned, V))
    BY <1>0, DropIssuedTyped, HistoriesUntouched
  <2>3. /\ MapsTyped(without_unpinned_revisions(DropIssued(cleaned, V)))
        /\ SameHistories(DropIssued(cleaned, V),
                         without_unpinned_revisions(DropIssued(cleaned, V)))
    BY <2>2, UnpinnedTyped, HistoriesUntouched
  <2>4. SameHistories(without_unpinned_revisions(DropIssued(cleaned, V)), root')
    BY <2>1, <2>3, HistoriesUntouched DEF SameHistories
  <2>5. SameHistories(cleaned, root')
    BY <2>2, <2>3, <2>4 DEF SameHistories
  <2>6. Forgets(root, root')
    BY <1>2, ReserveForgets DEF ReserveReply
  <2> QED BY <1>a, <2>5, <2>6
<1>3. ASSUME NEW h \in held, AbortReply(h) PROVE Shrunk(root, root', k)
  <2>1. Forgets(root, root')
    BY <1>0, <1>3, AbortForgets, WithoutKeysRestricts, KeepsForgets DEF AbortReply, Agrees
  <2>2. SameHistories(root, root')
    BY <1>0, <1>3, HistoriesUntouched DEF AbortReply, SameHistories
  <2> QED BY <1>a, <2>1, <2>2
<1>4. ASSUME NEW h \in held, NEW reply \in Replies, NEW scope \in Scopes,
             CommitReply(h, reply, scope)
      PROVE  Shrunk(root, root', k) \/ held' \subseteq Moved(k)
  <2>1. h.key = k => held' \subseteq Moved(k)
    BY <1>4 DEF CommitReply
  <2> QED BY <1>4, <2>1, CommitShrunk
<1>5. ASSUME NEW i, NEW f, NEW hash, PrepareFeedback(i, f, hash)
      PROVE  Shrunk(root, root', k)
  <2>1. PICK m : root' = [cleaned EXCEPT !.prepared_feedback_tokens = m]
    BY <1>5 DEF PrepareFeedback, cleaned
  <2>2. /\ SameHistories(cleaned, root')
        /\ root'.issued_records = cleaned.issued_records
        /\ root'.response_index = cleaned.response_index
        /\ root'.action_ledger_records = cleaned.action_ledger_records
    BY <1>0, <2>1 DEF SameHistories, MapsTyped, EmptyRoot
  <2>3. HistoryShrunk(root, root', k)
    BY <1>1, <2>2 DEF HistoryShrunk, SameHistories, TurnsOf
  <2>4. \A sc \in Scopes : AdmittedRows(root', k, sc) = AdmittedRows(cleaned, k, sc)
    BY <2>2 DEF AdmittedRows, Complete
  <2>5. \A sc \in Scopes : \A x \in AdmittedRows(cleaned, k, sc) :
            /\ x \in AdmittedRows(root, k, sc)
            /\ cleaned.action_ledger_records[x] = root.action_ledger_records[x]
    BY <1>1, ForgetsRows
  <2> QED BY <2>2, <2>3, <2>4, <2>5 DEF Shrunk, HistoryShrunk
<1>6. ASSUME NEW i, NEW f, NEW hash, ReusePreparation(i, f, hash)
      PROVE  Shrunk(root, root', k)
  BY <1>1, <1>6, <1>a DEF ReusePreparation, cleaned, SameHistories
<1>7. ASSUME NEW p \in prepared, CommitFeedback(p)
      PROVE  Shrunk(root, root', k) \/ held' \subseteq Moved(k)
  <2>1. p.key = k => held' \subseteq Moved(k)
    BY <1>7 DEF CommitFeedback
  <2> QED BY <1>7, <2>1, FeedbackShrunk
<1>8. ASSUME NEW p \in prepared, RefuseFeedback(p) PROVE Shrunk(root, root', k)
  <2>1. Forgets(root, root')
    BY <1>0, <1>8, DropTokenForgets, WithoutKeysRestricts, KeepsForgets
    DEF RefuseFeedback, Agrees
  <2>2. SameHistories(root, root')
    BY <1>0, <1>8, HistoriesUntouched DEF RefuseFeedback, SameHistories
  <2> QED BY <1>a, <2>1, <2>2
<1>9. ASSUME Cleanup PROVE Shrunk(root, root', k)
  BY <1>1, <1>9, <1>a DEF Cleanup, cleaned, SameHistories
<1>10. ASSUME Tick \/ WallStep \/ UNCHANGED vars PROVE Shrunk(root, root', k)
  BY <1>10 DEF Tick, WallStep, vars, Shrunk
<1> QED
  BY <1>2, <1>3, <1>4, <1>5, <1>6, <1>7, <1>8, <1>9, <1>10 DEF Next

\* Owner tokens are unique in every state.
LEMMA OwnersStayUnique == Spec => []OwnersUnique
<1>1. Init => OwnersUnique
  BY DEF Init, OwnersUnique
<1>2. RecordsTyped /\ OwnersUnique /\ [Next]_vars => OwnersUnique'
  BY OwnersStep
<1> QED BY <1>1, <1>2, RecordsStayTyped, PTL DEF Spec

\* The inductive invariant: a snapshot belongs to a turn, and a turn whose
\* conversation nothing was committed to has read all there is.
Planned ==
    /\ DOMAIN snapshots \subseteq {h.owner_token : h \in held}
    /\ \A h \in held : h.owner_token \in DOMAIN snapshots /\ ~h.moved =>
            StillRead(root, h.key, snapshots[h.owner_token])

\* A turn nothing overtook in a step was there before it.
LEMMA UnmovedStays ==
    ASSUME RecordsTyped, NEW k, NEW h \in Moved(k), ~h.moved
    PROVE  h \in held /\ h.key # k
<1>1. PICK g \in held : h = IF g.key = k THEN [g EXCEPT !.moved = TRUE] ELSE g
  BY DEF Moved
<1>2. g \in Reservation
  BY DEF RecordsTyped
<1>3. g.key # k
  BY <1>1, <1>2 DEF Reservation
<1> QED BY <1>1, <1>3

\* What a turn read is still all there is, whatever the coordinator does.
LEMMA PlannedKept ==
    ASSUME RecordsTyped, Recalls(root), Agrees(root, prepared), ScopesTyped, [Next]_vars,
           Planned, NEW h \in held', ~h.moved, h.owner_token \in DOMAIN snapshots,
           h \in held \/ \E k : held' \subseteq Moved(k)
    PROVE  StillRead(root', h.key, snapshots[h.owner_token])
<1>1. h \in held /\ ~(held' \subseteq Moved(h.key))
  BY UnmovedStays
<1>2. Shrunk(root, root', h.key)
  BY <1>1, StepShrinks
<1>3. StillRead(root, h.key, snapshots[h.owner_token])
      /\ snapshots[h.owner_token].scope \in Scopes
  BY <1>1 DEF Planned, ScopesTyped
<1> QED BY <1>2, <1>3, ShrunkRead

\* No caller but h leaves when h does.
LEMMA TokensStay ==
    ASSUME RecordsTyped, NEW h \in held,
           \/ held' = held \ {h}
           \/ held' = Moved(h.key) \ {[h EXCEPT !.moved = TRUE]}
           \/ held' = held
           \/ \E k : held' = Moved(k),
           NEW g \in held, g.owner_token # h.owner_token
    PROVE  \E i \in held' : i.owner_token = g.owner_token
<1>1. CASE held' = held \ {h} \/ held' = held
  BY <1>1
<1>2. ASSUME NEW k, Moved(k) \ {[h EXCEPT !.moved = TRUE]} \subseteq held'
      PROVE  \E i \in held' : i.owner_token = g.owner_token
  <2> DEFINE i == IF g.key = k THEN [g EXCEPT !.moved = TRUE] ELSE g
  <2>1. i \in Moved(k)
    BY DEF Moved
  <2>2. i.owner_token = g.owner_token
        /\ [h EXCEPT !.moved = TRUE].owner_token = h.owner_token
    BY DEF RecordsTyped, Reservation
  <2> HIDE DEF i
  <2>3. i # [h EXCEPT !.moved = TRUE]
    BY <2>2
  <2> QED BY <1>2, <2>1, <2>2, <2>3
<1> QED BY <1>1, <1>2

\* Reserving adds a caller with a token of its own.
LEMMA ReserveAdds ==
    ASSUME NEW s, ReserveReply(s)
    PROVE  held' = held \/ \E g : held' = held \cup {g} /\ g.owner_token \in FreshOwners
<1>1a. PICK owner \in Drawn(FreshOwners) : \E revision :
        \/ held' = held
        \/ held' = held \cup {[key |-> s.key, request_id |-> s.request_id,
                      request_hash |-> s.request_hash,
                      replay_eligible |-> s.replay_eligible, owner_token |-> owner,
                      revision |-> revision, moved |-> FALSE]}
  BY DEF ReserveReply
<1>1. PICK revision :
        \/ held' = held
        \/ held' = held \cup {[key |-> s.key, request_id |-> s.request_id,
                      request_hash |-> s.request_hash,
                      replay_eligible |-> s.replay_eligible, owner_token |-> owner,
                      revision |-> revision, moved |-> FALSE]}
  BY <1>1a
<1> DEFINE g == [key |-> s.key, request_id |-> s.request_id,
                 request_hash |-> s.request_hash,
                 replay_eligible |-> s.replay_eligible, owner_token |-> owner,
                 revision |-> revision, moved |-> FALSE]
<1>2. g.owner_token = owner /\ owner \in FreshOwners
  BY DrawnIn
<1>3. held' = held \/ held' = held \cup {g}
  BY <1>1
<1> HIDE DEF g
<1> QED BY <1>2, <1>3

\* No step of the service breaks the invariant.
LEMMA PlannedStep ==
    ASSUME RecordsTyped, Recalls(root), Agrees(root, prepared), ScopesTyped, OwnersUnique,
           Planned, [TurnNext]_turnVars
    PROVE  Planned'
<1>0. [Next]_vars
  BY CoordinatorStep
<1>1. ASSUME snapshots' = snapshots, held' = held \/ \E k : held' = Moved(k)
      PROVE  Planned'
  <2>1. \A h \in held : \E i \in held' : i.owner_token = h.owner_token
    <3>1. ASSUME NEW k, held' = Moved(k), NEW h \in held
          PROVE  \E i \in held' : i.owner_token = h.owner_token
      <4> DEFINE i == IF h.key = k THEN [h EXCEPT !.moved = TRUE] ELSE h
      <4>1. i \in Moved(k)
        BY DEF Moved
      <4>2. i.owner_token = h.owner_token
        BY DEF RecordsTyped, Reservation
      <4> QED BY <3>1, <4>1, <4>2
    <3> QED BY <1>1, <3>1
  <2>2. DOMAIN snapshots \subseteq {h.owner_token : h \in held'}
    BY <2>1 DEF Planned
  <2>3. \A h \in held' : h.owner_token \in DOMAIN snapshots /\ ~h.moved =>
            StillRead(root', h.key, snapshots[h.owner_token])
    BY <1>0, <1>1, PlannedKept
  <2> QED BY <1>1, <2>2, <2>3 DEF Planned
<1>2. ASSUME NEW s \in Submissions, StartTurn(s) PROVE Planned'
  <2>1. ReserveReply(s) /\ snapshots' = snapshots
    BY <1>2 DEF StartTurn
  <2>2. CASE held' = held
    BY <1>1, <2>1, <2>2
  <2>3. ASSUME NEW g, held' = held \cup {g}, g.owner_token \in FreshOwners PROVE Planned'
    <3>1. g.owner_token \notin DOMAIN snapshots
      BY <2>3 DEF FreshOwners, Planned
    <3>2. \A h \in held' : h.owner_token \in DOMAIN snapshots /\ ~h.moved =>
            StillRead(root', h.key, snapshots[h.owner_token])
      BY <1>0, <2>3, <3>1, PlannedKept
    <3> QED BY <2>1, <2>3, <3>2 DEF Planned
  <2> QED BY <2>1, <2>2, <2>3, ReserveAdds
<1>3. ASSUME NEW g \in Starting, NEW scope \in Scopes, AdmitTurn(g, scope) PROVE Planned'
  <2>1. /\ root' = root /\ held' = held /\ g \in held
        /\ DOMAIN snapshots' = DOMAIN snapshots \cup {g.owner_token}
        /\ snapshots'[g.owner_token] = Snapshot(root, g.key, scope)
        /\ \A o \in DOMAIN snapshots \ {g.owner_token} : snapshots'[o] = snapshots[o]
    BY <1>3 DEF AdmitTurn, vars, Starting, with_updates, Single
  <2>2. ASSUME NEW h \in held, h.owner_token \in DOMAIN snapshots', ~h.moved
        PROVE  StillRead(root, h.key, snapshots'[h.owner_token])
    <3>1. CASE h.owner_token = g.owner_token
      <4>1. h = g
        BY <2>1, <3>1 DEF OwnersUnique
      <4> QED BY <2>1, <4>1, FreshSnapshot
    <3>2. CASE h.owner_token # g.owner_token
      <4>1. h.owner_token \in DOMAIN snapshots
            /\ snapshots'[h.owner_token] = snapshots[h.owner_token]
        BY <2>1, <2>2, <3>2
      <4> QED BY <2>2, <4>1 DEF Planned
    <3> QED BY <3>1, <3>2
  <2>3. DOMAIN snapshots' \subseteq {h.owner_token : h \in held}
    BY <2>1 DEF Planned
  <2> QED BY <2>1, <2>2, <2>3 DEF Planned
<1>4. ASSUME NEW g \in held, EndTurn(g) \/ \E reply \in Replies : CommitTurn(g, reply)
      PROVE  Planned'
  <2>1. /\ \/ held' = held \ {g}
           \/ held' = Moved(g.key) \ {[g EXCEPT !.moved = TRUE]}
        /\ snapshots' = without_keys(snapshots, {g.owner_token})
    BY <1>4 DEF EndTurn, CommitTurn, AbortReply, CommitReply
  <2>2. /\ DOMAIN snapshots' = DOMAIN snapshots \ {g.owner_token}
        /\ \A o \in DOMAIN snapshots' : snapshots'[o] = snapshots[o]
    BY <2>1 DEF without_keys
  <2>3. ASSUME NEW o \in DOMAIN snapshots' PROVE \E i \in held' : i.owner_token = o
    <3>1. PICK h \in held : h.owner_token = o
      BY <2>2 DEF Planned
    <3> QED BY <2>1, <2>2, <3>1, TokensStay
  <2>4. \A h \in held' : h.owner_token \in DOMAIN snapshots' /\ ~h.moved =>
            StillRead(root', h.key, snapshots'[h.owner_token])
    <3>1. (\A h \in held' : h \in held) \/ held' \subseteq Moved(g.key)
      BY <2>1
    <3> QED BY <1>0, <2>2, <3>1, PlannedKept
  <2>5. DOMAIN snapshots' \subseteq {h.owner_token : h \in held'}
    BY <2>3
  <2> QED BY <2>4, <2>5 DEF Planned
<1>5. ASSUME NEW k, NEW f, NEW hash, SubmitFeedback(k, f, hash) PROVE Planned'
  BY <1>1, <1>5 DEF SubmitFeedback, PrepareFeedback, ReusePreparation
<1>6. ASSUME NEW p \in prepared, FinishFeedback(p) PROVE Planned'
  BY <1>1, <1>6 DEF FinishFeedback, CommitFeedback, RefuseFeedback
<1>7. ASSUME CleanupLoop \/ Clock \/ (WallStep /\ UNCHANGED snapshots) \/ UNCHANGED turnVars
      PROVE  Planned'
  BY <1>1, <1>7 DEF CleanupLoop, Cleanup, Clock, Tick, WallStep, turnVars, vars
<1>8. ASSUME NEW g \in Starting PROVE g \in held
  BY DEF Starting
<1> QED
  BY <1>2, <1>3, <1>4, <1>5, <1>6, <1>7, <1>8 DEF TurnNext

\* A turn that may still commit was planned on the conversation as it is: cleanups,
\* evictions, and commits and feedback in other conversations may have made it
\* forget, and nothing has been added that the turn did not read.
THEOREM TurnsPlanOnCurrentState == TurnSpec => []PlannedOnCurrentState
<1>1. TurnInit => Init /\ ScopesTyped /\ Planned
  BY DEF TurnInit, Init, ScopesTyped, Planned, EmptyMap
<1>2. ScopesTyped /\ [TurnNext]_turnVars => ScopesTyped'
  BY ScopesStep
<1>3. ASSUME RecordsTyped, Recalls(root), Agrees(root, prepared), ScopesTyped,
             OwnersUnique, Planned, [TurnNext]_turnVars
      PROVE  Planned'
  BY <1>3, PlannedStep
<1>4. Planned /\ RevisionIdentifiesState => PlannedOnCurrentState
  BY DEF Planned, RevisionIdentifiesState, PlannedOnCurrentState, StillRead, Starting
<1> QED
  BY <1>1, <1>2, <1>3, <1>4, TurnsUseCoordinator, RecordsStayTyped, AlwaysRecalls,
     AlwaysAgrees, OwnersStayUnique, RevisionsIdentifyState, PTL
  DEF TurnSpec
=============================================================================
