------------------------------ MODULE ReplyTurn ------------------------------
(***************************************************************************)
(* The coordinator under the service's own callers: reply turns            *)
(* (runtime/lifecycle.py), feedback submissions (server/main.py) and the   *)
(* cleanup loop (server/lifespan.py).                                      *)
(*                                                                         *)
(* Handlers run on one event loop, so a handler runs alone until it ends   *)
(* or waits: a turn from its reservation to its admission, a feedback      *)
(* submission from its preparation to its commit. Only the cleanup, which  *)
(* runs on a worker thread, comes between. A turn waits for its language   *)
(* models between admission and commit, for as long as they take.          *)
(*                                                                         *)
(* `snapshots' has what each admitted turn read of its conversation, by    *)
(* the owner token of its reservation; a turn in `held' without one is     *)
(* between its reservation and its admission.                              *)
(***************************************************************************)
EXTENDS Coordinator

VARIABLE snapshots

turnVars == <<vars, snapshots>>

TurnInit == Init /\ snapshots = EmptyMap

Starting == {h \in held : h.owner_token \notin DOMAIN snapshots}

\* No handler is on the loop.
LoopFree == Starting = {} /\ prepared = {}

-----------------------------------------------------------------------------
(* Turns. *)

\* run_reply_turn reserves its conversation. (A bound of the model: the clock can
\* still run the reservation out.)
StartTurn(s) ==
    /\ mono + PendingTtl <= MaxMono
    /\ ReserveReply(s)
    /\ UNCHANGED snapshots

\* read_turn_admission_snapshot: what the turn's scope may see.
Snapshot(r, k, scope) ==
    [scope |-> scope,
     turns |->
        IF k \in DOMAIN r.conversation_turns
        THEN {t \in {r.conversation_turns[k][i] : i \in DOMAIN r.conversation_turns[k]} :
                t.scope = scope}
        ELSE {},
     clarification |->
        {r.clarification_records[c] : c \in
            {c \in DOMAIN r.clarification_records \cap {k} :
                r.clarification_records[c].scope = scope}},
     rows |-> [x \in AdmittedRows(r, k, scope) |-> r.action_ledger_records[x]]]

\* admit_turn: the snapshot is of the revision that was reserved. A turn whose
\* reservation a cleanup has taken meets another one and fails.
AdmitTurn(h, scope) ==
    /\ AtRevision(root, h.key, h.revision)
    /\ snapshots' =
        with_updates(snapshots, Single(h.owner_token, Snapshot(root, h.key, scope)))
    /\ UNCHANGED vars

\* (mutant) A turn that fails before its admission aborts nothing.
end_admitted_only(h) ==
    /\ IF h \in Starting
       THEN held' = held \ {h} /\ UNCHANGED <<root, mono, wall, prepared>>
       ELSE AbortReply(h)
    /\ snapshots' = without_keys(snapshots, {h.owner_token})

\* The finally block: whatever a turn failed of, a refused commit included, and
\* however it was cancelled, it aborts its reservation, and the refusal of an
\* abort is swallowed.
EndTurn(h) ==
    /\ AbortReply(h)
    /\ snapshots' = without_keys(snapshots, {h.owner_token})

\* The turn commits what it planned on its snapshot, in its snapshot's scope.
CommitTurn(h, reply) ==
    /\ CommitReply(h, reply, snapshots[h.owner_token].scope)
    /\ snapshots' = without_keys(snapshots, {h.owner_token})

-----------------------------------------------------------------------------
(* Feedback and cleanup. *)

\* action_feedback prepares, and commits what it was given.
SubmitFeedback(k, f, hash) ==
    /\ PrepareFeedback(k, f, hash) \/ ReusePreparation(k, f, hash)
    /\ UNCHANGED snapshots

FinishFeedback(p) ==
    /\ CommitFeedback(p) \/ RefuseFeedback(p)
    /\ UNCHANGED snapshots

CleanupLoop == Cleanup /\ UNCHANGED snapshots

Clock == Tick /\ UNCHANGED snapshots

TurnNext ==
    \/ LoopFree /\ \E s \in Submissions : StartTurn(s)
    \/ \E h \in Starting : (\E scope \in Scopes : AdmitTurn(h, scope)) \/ EndTurn(h)
    \/ LoopFree /\ \E h \in held : (\E reply \in Replies : CommitTurn(h, reply)) \/ EndTurn(h)
    \/ LoopFree /\ \E k \in Keys, f \in FeedbackIds, q \in Requests, response \in Responses,
                      body \in Bodies :
            SubmitFeedback(k, f, [request_id |-> q, response_id |-> response, body |-> body])
    \/ \E p \in prepared : FinishFeedback(p)
    \/ CleanupLoop
    \/ Clock
    \/ WallStep /\ UNCHANGED snapshots

\* The loop cleans up again and again and time passes. Nothing makes a turn end:
\* it may hang for good.
TurnSpec ==
    /\ TurnInit /\ [][TurnNext]_turnVars
    /\ WF_turnVars(CleanupLoop) /\ WF_turnVars(Clock)

-----------------------------------------------------------------------------
(* Properties. *)

\* A conversation is in progress only for a turn that is: however a turn fails,
\* in whatever stage, it leaves no pending record behind (the finally block).
InProgressHasTurn ==
    \A x \in Pending(root) : \E h \in held :
        /\ <<h.key, h.request_id>> = x
        /\ h.owner_token = root.issued_records[x].owner_token

\* A turn that may still commit was planned on what its conversation is: nothing
\* was added to the history, the clarification and the action rows its snapshot
\* had, none of them has changed; some may be forgotten.
PlannedOnCurrentState ==
    \A h \in held \ Starting :
        Owns(root, h) /\ AtRevision(root, h.key, h.revision) =>
            LET read == snapshots[h.owner_token]
                current == Snapshot(root, h.key, read.scope)
            IN  /\ current.turns \subseteq read.turns
                /\ current.clarification \subseteq read.clarification
                /\ \A x \in DOMAIN current.rows :
                        x \in DOMAIN read.rows /\ current.rows[x] = read.rows[x]

\* A conversation whose turn hangs is released: the cleanup loop takes the
\* reservation once it has run out, and no request is refused for good.
ConversationReleased ==
    \A k \in Keys : k \in DOMAIN root.pending_request_by_state
                        ~> k \notin DOMAIN root.pending_request_by_state
=============================================================================
