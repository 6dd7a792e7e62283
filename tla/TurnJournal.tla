------------------------------ MODULE TurnJournal ------------------------------
(***************************************************************************)
(* The journal of a turn's calls of language models and the audit that     *)
(* reads it when the turn commits (invocation_journal.py, crewai/io.py,    *)
(* direct_provider_client.py, lifecycle_journal_audit.py,                  *)
(* coordinator_audit.py).                                                  *)
(*                                                                         *)
(* A call reserves a row, is made, and replaces its row by what it came    *)
(* to. A turn makes one call at a time, so that the row of the call under  *)
(* way is the last. Agents are kicked off by a library that makes the      *)
(* request itself: a hook in the agent's model notes the request before it *)
(* is sent. The library's thread is not waited for: one that a timeout or  *)
(* a cancellation leaves behind may make a request, its first or a second, *)
(* when the hook is gone. For Gemini's models the program makes and notes  *)
(* the agent's request, in a thread that is waited for. The other client   *)
(* knows its request from the start.                                       *)
(*                                                                         *)
(* Which calls a turn makes is left open; a failed one has the             *)
(* consequences it has for its stage. Digests are there or not, error      *)
(* codes are those of the output or those of the transport.                *)
(***************************************************************************)
EXTENDS Integers, Sequences

CONSTANT MaxRows   \* rows a journal has room for (maximum_llm_invocation_rows)

ASSUME MaxRowsAssumption == MaxRows \in 1..18

VARIABLES
    scene,       \* "group" or "direct"
    settings,    \* whose models the agents use, which keys are configured
    replanning,  \* the candidate is being built for a replan
    rows,        \* TurnLlmInvocationJournalV1._rows
    phase,       \* of the call under way
    captured,    \* its request is in request_captures
    sent,        \* calls whose request went to the provider (history)
    again,       \* calls of which a second one did (history)
    late,        \* calls that ended while a thread of the library's still ran
    unlisted,    \* calls ended by an exception that is in no handler of theirs (history)
    turn, audit

callVars == <<phase, captured>>
sentVars == <<sent, again>>
vars == <<scene, settings, replanning, rows, callVars, sentVars, late, unlisted, turn, audit>>

Selectors == {"documents", "static"}
Stages == {"planner", "composer", "verifier"} \cup Selectors

\* run_crewai_kickoff calls agents, run_direct_provider_text all else.
Kickoff(stage) == scene = "group" /\ stage \notin Selectors

Reserved(stage) ==
    [stage |-> stage, status |-> "reserved", error |-> "none", request |-> FALSE,
     output |-> FALSE]

Init ==
    /\ scene \in {"group", "direct"}
    /\ settings \in [gemini : BOOLEAN, keys : SUBSET {"planner", "composer"}]
    /\ replanning = FALSE
    /\ rows = <<>>
    /\ phase = "none" /\ captured = FALSE
    /\ sent = {} /\ again = {} /\ late = {} /\ unlisted = {}
    /\ turn = "running" /\ audit = <<>>

LastRow == Len(rows)
Stage == rows[LastRow].stage

-----------------------------------------------------------------------------
(* What a failed call means to the turn.                                   *)

\* The handlers of the stages: the verifier's catches everything, the documents'
\* whatever is a RuntimeError, and a replan that fails gives way to a refusal. The
\* composer's knows of a journal without a row, the planner's does not.
Tolerated(stage, failure) ==
    \/ stage = "verifier"
    \/ stage = "documents" /\ failure \in {"provider", "runtime"}
    \/ replanning /\ stage = "planner" /\ failure \in {"provider", "runtime"}
    \/ replanning /\ stage = "composer" /\ failure \in {"provider", "no_row"}

\* Without documents the turn goes on, otherwise the program's own reply is committed.
After(stage, failure) ==
    IF ~Tolerated(stage, failure) THEN "ended"
    ELSE IF stage = "documents" THEN "running" ELSE "replying"

-----------------------------------------------------------------------------
(* A call. *)

\* target_slot of direct_target_from_settings
Slot(stage) == IF stage = "planner" THEN "planner" ELSE "composer"

Reserve(stage) ==
    /\ turn = "running" /\ phase = "none"
    /\ LastRow < MaxRows
    /\ Kickoff(stage) \/ Slot(stage) \in settings.keys
    /\ rows' = Append(rows, Reserved(stage))
    /\ phase' = "reserved" /\ captured' = FALSE
    /\ UNCHANGED <<scene, settings, replanning, sentVars, late, unlisted, turn, audit>>

\* llm_invocation_journal_capacity_exceeded, before the call is made.
NoRow(stage) ==
    /\ turn = "running" /\ phase = "none"
    /\ LastRow = MaxRows
    /\ turn' = After(stage, "no_row")
    /\ UNCHANGED <<scene, settings, replanning, rows, callVars, sentVars, late, unlisted, audit>>

\* run_direct_prompt_program has no row for a call without a key, and no selector is run
\* without one.
NoKey(stage) ==
    /\ turn = "running" /\ phase = "none"
    /\ scene = "direct" /\ stage \notin Selectors
    /\ Slot(stage) \notin settings.keys
    /\ turn' = After(stage, "provider")
    /\ UNCHANGED <<scene, settings, replanning, rows, callVars, sentVars, late, unlisted, audit>>

\* The hook is installed and the standard streams are captured.
Enter ==
    /\ phase = "reserved"
    /\ phase' = "calling"
    /\ UNCHANGED <<scene, settings, replanning, rows, captured, sentVars, late, unlisted, turn,
                   audit>>

Request ==
    /\ phase = "calling"
    /\ LastRow \notin sent
    /\ sent' = sent \cup {LastRow}
    /\ UNCHANGED <<scene, settings, replanning, rows, phase, again, late, unlisted, turn, audit>>

\* The hook notes the library's request. A second one is not sent while the call lasts: the
\* hook takes it for a retry and has the call fail.
HookedRequest == Request /\ Kickoff(Stage) /\ ~settings.gemini /\ captured' = TRUE

\* run_gemini_structured
StructuredRequest == Request /\ Kickoff(Stage) /\ settings.gemini /\ captured' = TRUE

TextRequest == Request /\ ~Kickoff(Stage) /\ UNCHANGED captured

HasRequest == Kickoff(Stage) => captured

\* close_journal_row, _closed_direct_row
ClosedRow(status, error) ==
    [rows[LastRow] EXCEPT !.status = status, !.error = error, !.request = HasRequest,
                          !.output = (status = "success")]

\* replace_reserved
Close(status, error) ==
    /\ rows' = [rows EXCEPT ![LastRow] = ClosedRow(status, error)]
    /\ phase' = "none"
    /\ captured' = FALSE

\* (mutant) The client's own failures are all of the transport.
one_error_status(error) == "transport_error"

\* close_journal_transport_error, close_direct_journal_error
ErrorStatus(error) ==
    IF error = "output" THEN "output_contract_error" ELSE "transport_error"

\* What a stage does with an output it has no use for: the planner is asked again or
\* fails, a composer's text is rejected, and a verdict is as if there were none.
Unusable(stage) ==
    CASE stage = "planner" -> {"running", After(stage, "provider")}
      [] stage = "verifier" -> {"replying"}
      [] OTHER -> {"running"}

\* A text in the stage's own format. A verdict may ask for a replan.
Answer ==
    /\ phase = "calling" /\ LastRow \in sent
    /\ Close("success", "none")
    /\ IF Stage = "verifier" THEN replanning' \in BOOLEAN ELSE UNCHANGED replanning
    /\ UNCHANGED <<scene, settings, sentVars, late, unlisted, audit>>

\* An agent's stage may yet reject it.
AgentAnswers ==
    /\ Answer /\ Kickoff(Stage)
    /\ turn' \in {turn} \cup Unusable(Stage)

\* So may the planner.
TextAnswers ==
    /\ Answer /\ ~Kickoff(Stage)
    /\ turn' \in {turn} \cup (IF Stage = "planner" THEN Unusable(Stage) ELSE {})

\* No text or not in the format (capture_provider_text_output).
NoText ==
    /\ phase = "calling" /\ LastRow \in sent
    /\ Close(ErrorStatus("output"), "output")
    /\ UNCHANGED <<scene, settings, replanning, sentVars, late, unlisted, audit>>

\* An agent's client leaves that to the stage.
AgentNoText == NoText /\ Kickoff(Stage) /\ turn' \in Unusable(Stage)

\* The other one has the call fail (openai_response_text, gemini_response_text).
TextNoText == NoText /\ ~Kickoff(Stage) /\ turn' = After(Stage, "provider")

\* A timeout or a cancellation does not stop the thread the library works in, whether its
\* request was sent yet or not.
LeftBehind == {o \in {LastRow} : Kickoff(Stage) /\ ~settings.gemini /\ phase = "calling"}

\* A failure its client knows.
Fail ==
    /\ Close(ErrorStatus("transport"), "transport")
    /\ late' \in {late, late \cup LeftBehind}
    /\ turn' = After(Stage, "provider")
    /\ UNCHANGED <<scene, settings, replanning, sentVars, unlisted, audit>>

\* The hook cannot be installed, the streams were written to, the provider or the library
\* failed, or the call timed out.
AgentFails == phase \in {"reserved", "calling"} /\ Kickoff(Stage) /\ Fail

\* The streams were written to, the provider failed, its answer is no JSON, or the request
\* timed out.
TextFails == phase = "calling" /\ ~Kickoff(Stage) /\ Fail

\* An exception in none of the handlers: the library's own error classes, an OSError of
\* the capture that is installed, or, where agents are not called, a RuntimeError of its
\* threads.
FailUnlisted ==
    /\ phase \in {"reserved", "calling"}
    /\ phase' = "none" /\ captured' = FALSE
    /\ unlisted' = unlisted \cup {LastRow}
    /\ \/ turn' = After(Stage, "unlisted")
       \/ ~Kickoff(Stage) /\ turn' = After(Stage, "runtime")
    /\ late' \in {late, late \cup LeftBehind}
    /\ UNCHANGED <<scene, settings, replanning, rows, sentVars, audit>>

Cancel ==
    /\ phase \in {"reserved", "calling"}
    /\ Close(ErrorStatus("transport"), "transport")
    /\ late' \in {late, late \cup LeftBehind}
    /\ turn' = "ended"
    /\ UNCHANGED <<scene, settings, replanning, sentVars, unlisted, audit>>

\* The thread left behind makes a request, and the hook is gone: no one notes it and no one
\* refuses it.
LateRequest ==
    /\ \E o \in late :
        /\ late' = late \ {o}
        /\ sent' = sent \cup {o}
        /\ again' = IF o \in sent THEN again \cup {o} ELSE again
    /\ UNCHANGED <<scene, settings, replanning, rows, callVars, unlisted, turn, audit>>

-----------------------------------------------------------------------------
(* The audit. *)

\* validate_program_audit_labels
LabelsValid(row) ==
    <<row.status, row.error>> \in
        {<<"success", "none">>, <<"output_contract_error", "output">>,
         <<"transport_error", "transport">>}

\* (mutant) The audit of a group takes a call without the hash of its request.
records_any_request(row) == (row.status = "success") = row.output

\* build_audit_record: a group's record has the request's own hash.
Recordable(row) ==
    /\ scene = "group" => row.request
    /\ (row.status = "success") = row.output

\* journal_audit_attempts
Auditable(row) ==
    /\ row.status # "reserved"
    /\ LabelsValid(row)
    /\ Recordable(row)

Program(row) ==
    [stage |-> row.stage, status |-> row.status, error |-> row.error,
     request |-> row.request]

\* reply_commit_proposal and the audit's part of commit_reply
Commit ==
    /\ turn \in {"running", "replying"} /\ phase = "none"
    /\ IF \A o \in 1..LastRow : Auditable(rows[o])
       THEN /\ turn' = "committed"
            /\ audit' = [o \in 1..LastRow |-> Program(rows[o])]
       ELSE turn' = "refused" /\ UNCHANGED audit
    /\ UNCHANGED <<scene, settings, replanning, rows, callVars, sentVars, late, unlisted>>

-----------------------------------------------------------------------------
Next ==
    \/ \E stage \in Stages : Reserve(stage) \/ NoRow(stage) \/ NoKey(stage)
    \/ Enter \/ HookedRequest \/ StructuredRequest \/ TextRequest
    \/ AgentAnswers \/ TextAnswers \/ AgentNoText \/ TextNoText
    \/ AgentFails \/ TextFails \/ FailUnlisted \/ Cancel
    \/ LateRequest
    \/ Commit

Spec == Init /\ [][Next]_vars

-----------------------------------------------------------------------------
(* Properties. *)

\* The audit of a committed turn has a request for every call that made one. A call's row
\* has room for one: if a thread left behind made a second, which no one noted, the audit
\* says that the call failed, so that no answer is taken for one to another request
\* (record_request_capture, close_provider_transport_error, build_audit_record).
RequestsAudited ==
    turn = "committed" =>
        \A o \in sent :
            /\ o \in DOMAIN audit /\ audit[o].request
            /\ o \in again => audit[o].status = "transport_error"

\* The audit refuses a finished turn for two reasons only: a call left its row open by an
\* exception its client does not list, or an agent failed before its request was
\* noted (_audit_status, validate_program_audit_labels, _required_group_field).
RefusalsExplained ==
    turn = "refused" =>
        \E o \in 1..LastRow :
            o \in unlisted \/ (Kickoff(rows[o].stage) /\ ~rows[o].request)
=============================================================================
