----------------------------- MODULE JournalProofs -----------------------------
(* Theorems about TurnJournal, for every number of rows. *)
EXTENDS TurnJournal, TLAPS

Rows ==
    [stage : Stages,
     status : {"reserved", "success", "output_contract_error", "transport_error"},
     error : {"none", "output", "transport"}, request : BOOLEAN, output : BOOLEAN]

Typed ==
    /\ scene \in {"group", "direct"}
    /\ rows \in Seq(Rows)
    /\ phase \in {"none", "reserved", "calling"} /\ captured \in BOOLEAN
    /\ phase # "none" => turn = "running" /\ rows # <<>> /\ LastRow \notin unlisted
    /\ sent \subseteq 1..LastRow /\ late \subseteq 1..LastRow /\ unlisted \subseteq 1..LastRow
    /\ again \subseteq sent

\* A row that was replaced passes the audit, but for an agent's request.
Closed(row) ==
    /\ row.status # "reserved"
    /\ LabelsValid(row)
    /\ (row.status = "success") = row.output
    /\ Kickoff(row.stage) \/ row.request

Open(o) == phase # "none" /\ o = LastRow

RowsRead ==
    \A o \in 1..LastRow :
        IF o \in unlisted \/ Open(o) THEN rows[o].status = "reserved" ELSE Closed(rows[o])

\* A call that left a thread behind is over, and its row, if it was replaced, says that it
\* failed.
LeftFailed ==
    \A o \in late \cup again :
        ~Open(o) /\ (o \in unlisted \/ rows[o].status = "transport_error")

Kept ==
    turn = "committed" =>
        /\ audit = [o \in 1..LastRow |-> Program(rows[o])]
        /\ \A o \in 1..LastRow : rows[o].request /\ o \notin unlisted

Inv == Typed /\ RowsRead /\ LeftFailed /\ Kept /\ RefusalsExplained

\* The first state: no call was made.
LEMMA InitInv == Init => Inv
<1>. SUFFICES ASSUME Init PROVE Inv
  OBVIOUS
<1>1. rows \in Seq(Rows) /\ LastRow = 0 /\ 1..LastRow = {}
  BY DEF Init, LastRow
<1>. QED BY <1>1 DEF Init, Inv, Typed, RowsRead, LeftFailed, Kept, RefusalsExplained

\* A stutter changes nothing the invariant speaks of.
LEMMA StutterInv == Inv /\ UNCHANGED vars => Inv'
BY DEF Inv, Typed, RowsRead, LeftFailed, Kept, RefusalsExplained, LastRow, Open, Closed, Program,
       LabelsValid, Kickoff, vars, callVars, sentVars

\* What follows a failure is never the end of a commit (After).
LEMMA AfterFailure ==
    \A stage, failure : After(stage, failure) \in {"ended", "running", "replying"}
BY DEF After

\* What follows an output that is not used is not the end of a commit either (Unusable).
LEMMA AfterUnusable ==
    ASSUME NEW stage, NEW next \in Unusable(stage)
    PROVE  next \in {"ended", "running", "replying"}
BY AfterFailure DEF Unusable

\* A call's row is appended to the journal (reserve).
LEMMA ReserveInv ==
    ASSUME Inv, NEW stage \in Stages, Reserve(stage)
    PROVE  Inv'
<1>. USE DEF Inv
<1>1. Reserved(stage) \in Rows
  BY DEF Reserved, Rows
<1>2. /\ rows' \in Seq(Rows) /\ LastRow' = LastRow + 1 /\ LastRow \in Nat
      /\ rows'[LastRow'] = Reserved(stage)
      /\ \A o \in 1..LastRow : rows'[o] = rows[o]
  BY <1>1 DEF Reserve, Typed, LastRow
<1>3. Typed'
  <2>1. rows' # <<>> /\ LastRow' \notin unlisted /\ 1..LastRow \subseteq 1..LastRow'
    BY <1>2 DEF Typed, LastRow
  <2>. QED BY <2>1, <1>2 DEF Reserve, Typed, sentVars
<1>4. RowsRead'
  <2>. SUFFICES ASSUME NEW o \in 1..LastRow'
               PROVE  IF o \in unlisted \/ Open(o)' THEN rows'[o].status = "reserved"
                      ELSE Closed(rows[o])'
    BY DEF RowsRead, Reserve
  <2>1. CASE o = LastRow'
    <3>1. rows'[o].status = "reserved"
      BY <2>1, <1>2 DEF Reserved
    <3>2. Open(o)'
      BY <2>1 DEF Open, Reserve
    <3>. QED BY <3>1, <3>2
  <2>2. CASE o # LastRow'
    <3>1. o \in 1..LastRow
      BY <2>2, <1>2
    <3>2. ~Open(o) /\ ~Open(o)'
      BY <2>2 DEF Open, Reserve
    <3>3. Closed(rows[o]) => Closed(rows[o])'
      BY <3>1, <1>2 DEF Closed, LabelsValid, Kickoff, Reserve
    <3>. QED BY <3>1, <3>2, <3>3, <1>2 DEF RowsRead
  <2>. QED BY <2>1, <2>2
<1>5. LeftFailed'
  <2>. SUFFICES ASSUME NEW o \in late \cup again
               PROVE  ~Open(o)' /\ (o \in unlisted \/ rows'[o].status = "transport_error")
    BY DEF LeftFailed, Reserve, sentVars
  <2>1. o \in 1..LastRow
    BY DEF Typed
  <2>. QED BY <2>1, <1>2 DEF LeftFailed, Open
<1>6. Kept' /\ RefusalsExplained'
  BY DEF Reserve, Kept, RefusalsExplained
<1>. QED BY <1>3, <1>4, <1>5, <1>6

\* A call's row is replaced, whatever becomes of the turn (replace_reserved).
LEMMA CloseInv ==
    ASSUME Inv, phase # "none",
           NEW status, NEW error, Close(status, error),
           <<status, error>> \in {<<"success", "none">>,
                <<"output_contract_error", "output">>, <<"transport_error", "transport">>},
           turn' \in {"ended", "running", "replying"},
           late' \in {late, late \cup LeftBehind},
           late' = late \/ status = "transport_error",
           UNCHANGED <<scene, sentVars, unlisted, audit>>
    PROVE  Inv'
<1>. USE DEF Inv
<1>. DEFINE row == [rows[LastRow] EXCEPT !.status = status, !.error = error,
                       !.request = HasRequest, !.output = (status = "success")]
<1>1. LastRow \in 1..LastRow /\ LastRow \in Nat /\ rows[LastRow] \in Rows
  BY DEF Typed, LastRow
<1>2. HasRequest \in BOOLEAN
  BY DEF HasRequest, Typed
<1>3. row \in Rows
  BY <1>1, <1>2 DEF Rows
<1>4. rows' = [rows EXCEPT ![LastRow] = row]
  BY DEF Close, ClosedRow
<1>5. Closed(row)
  <2>1. row.status = status /\ row.error = error /\ row.request = HasRequest
        /\ row.output = (status = "success") /\ row.stage = Stage
    BY <1>1 DEF Rows, Stage
  <2>. QED BY <2>1, <1>2 DEF Closed, LabelsValid, HasRequest, Typed
<1>. HIDE DEF row
<1>6. /\ rows' \in Seq(Rows) /\ LastRow' = LastRow /\ rows'[LastRow] = row
      /\ \A o \in 1..LastRow : o # LastRow => rows'[o] = rows[o]
  <2>1. Len(rows') = Len(rows) /\ rows' \in Seq(Rows)
    <3>1. rows \in [1..LastRow -> Rows] /\ rows' \in [1..LastRow -> Rows]
      BY <1>1, <1>3, <1>4 DEF Typed, LastRow
    <3>2. rows' \in Seq(Rows)
      BY <1>1, <3>1
    <3>. QED BY <1>1, <3>1, <3>2 DEF LastRow
  <2>2. rows'[LastRow] = row /\ \A o \in 1..LastRow : o # LastRow => rows'[o] = rows[o]
    BY <1>1, <1>4 DEF Typed, LastRow
  <2>. QED BY <2>1, <2>2 DEF LastRow
<1>7. phase' = "none" /\ captured' = FALSE
  BY DEF Close
<1>8. Typed'
  BY <1>1, <1>6, <1>7 DEF Typed, LeftBehind, sentVars
<1>9. RowsRead'
  <2>. SUFFICES ASSUME NEW o \in 1..LastRow
               PROVE  IF o \in unlisted THEN rows'[o].status = "reserved"
                      ELSE Closed(rows[o])'
    BY <1>6, <1>7 DEF RowsRead, Open
  <2>1. CASE o = LastRow
    BY <2>1, <1>6, <1>5 DEF Typed, Closed, LabelsValid, Kickoff
  <2>2. CASE o # LastRow
    BY <2>2, <1>6 DEF RowsRead, Open, Closed, LabelsValid, Kickoff
  <2>. QED BY <2>1, <2>2
<1>10. LeftFailed'
  <2>. SUFFICES ASSUME NEW o \in late' \cup again
               PROVE  o \in unlisted \/ rows'[o].status = "transport_error"
    BY <1>7 DEF LeftFailed, Open, sentVars
  <2>1. o \in late \cup again \/ (o = LastRow /\ status = "transport_error")
    BY DEF LeftBehind
  <2>2. CASE o \in late \cup again
    <3>1. o \in 1..LastRow /\ o # LastRow
      BY <2>2 DEF Typed, LeftFailed, Open
    <3>. QED BY <2>2, <3>1, <1>6 DEF LeftFailed
  <2>3. CASE o = LastRow /\ status = "transport_error"
    <3>1. row.status = status
      BY <1>1 DEF Rows, row
    <3>. QED BY <2>3, <3>1, <1>6
  <2>. QED BY <2>1, <2>2, <2>3
<1>. QED BY <1>8, <1>9, <1>10 DEF Kept, RefusalsExplained

\* An exception that no handler lists leaves the row as it was reserved.
LEMMA UnlistedInv == Inv /\ FailUnlisted => Inv'
<1>. SUFFICES ASSUME Inv, FailUnlisted
             PROVE  Inv'
  OBVIOUS
<1>. USE DEF Inv
<1>1. turn' \in {"ended", "running", "replying"}
  BY AfterFailure DEF FailUnlisted
<1>2. LastRow \in 1..LastRow /\ LastRow' = LastRow
  BY DEF FailUnlisted, Typed, LastRow
<1>3. Typed'
  BY <1>2 DEF FailUnlisted, Typed, LeftBehind, sentVars
<1>4. RowsRead'
  <2>. SUFFICES ASSUME NEW o \in 1..LastRow
               PROVE  IF o \in unlisted \cup {LastRow} THEN rows[o].status = "reserved"
                      ELSE Closed(rows[o])'
    BY <1>2 DEF RowsRead, FailUnlisted, Open
  <2>1. rows[LastRow].status = "reserved"
    BY <1>2 DEF RowsRead, Open, FailUnlisted
  <2>2. Closed(rows[o]) => Closed(rows[o])'
    BY DEF Closed, LabelsValid, Kickoff, FailUnlisted
  <2>. QED BY <2>1, <2>2 DEF RowsRead, Open
<1>5. LeftFailed'
  BY DEF LeftFailed, FailUnlisted, LeftBehind, Open, sentVars
<1>. QED BY <1>1, <1>3, <1>4, <1>5 DEF Kept, RefusalsExplained

\* A request is noted and sent, each client's in its own way.
Asks ==
    /\ Request
    /\ HookedRequest \/ StructuredRequest \/ TextRequest

\* The steps of a call before its row is replaced, and of the thread one leaves behind,
\* touch no row.
LEMMA CallInv ==
    ASSUME Inv, NEW stage \in Stages,
           NoRow(stage) \/ NoKey(stage) \/ Enter \/ Asks \/ LateRequest
    PROVE  Inv'
<1>. USE DEF Inv
<1>1. UNCHANGED <<scene, rows, unlisted, audit>> /\ LastRow' = LastRow
  BY DEF NoRow, NoKey, Enter, Asks, Request, LateRequest, LastRow
<1>2. LastRow \in Nat /\ (phase # "none" => LastRow \in 1..LastRow)
  BY DEF Typed, LastRow
<1>3. turn' = turn \/ turn' \in {"ended", "running", "replying"}
  BY AfterFailure DEF NoRow, NoKey, Enter, Asks, Request, LateRequest
<1>4. (phase' # "none") = (phase # "none")
  BY DEF NoRow, NoKey, Enter, Asks, Request, LateRequest, callVars
<1>5. Typed'
  <2>1. CASE NoRow(stage)
    BY <2>1, <1>1 DEF NoRow, Typed, callVars, sentVars
  <2>2. CASE Enter
    BY <2>2, <1>1 DEF Enter, Typed, sentVars
  <2>3. CASE Asks
    <3>1. captured' \in BOOLEAN
      BY <2>3 DEF Asks, HookedRequest, StructuredRequest, TextRequest, Typed
    <3>2. Request
      BY <2>3 DEF Asks
    <3>. QED BY <3>1, <3>2, <1>1, <1>2 DEF Request, Typed
  <2>4. CASE LateRequest
    BY <2>4, <1>1 DEF LateRequest, Typed, callVars
  <2>5. CASE NoKey(stage)
    BY <2>5, <1>1 DEF NoKey, Typed, callVars, sentVars
  <2>. QED BY <2>1, <2>2, <2>3, <2>4, <2>5
<1>6. RowsRead'
  BY <1>1, <1>4 DEF RowsRead, Open, Closed, LabelsValid, Kickoff
<1>7. Kept'
  BY <1>1, <1>3 DEF Kept, Program
<1>8. RefusalsExplained'
  BY <1>1, <1>3 DEF RefusalsExplained, Kickoff
<1>9. LeftFailed'
  <2>1. late' \cup again' \subseteq late \cup again
    BY DEF NoRow, NoKey, Enter, Asks, Request, LateRequest, sentVars
  <2>. QED BY <2>1, <1>1, <1>4 DEF LeftFailed, Open
<1>. QED BY <1>5, <1>6, <1>7, <1>8, <1>9

\* A call that is over leaves a row that says what it came to.
LEMMA EndInv ==
    ASSUME Inv,
           AgentAnswers \/ TextAnswers \/ AgentNoText \/ TextNoText \/ AgentFails
           \/ TextFails \/ Cancel
    PROVE  Inv'
<1>1. phase # "none" /\ turn = "running"
  BY DEF AgentAnswers, TextAnswers, AgentNoText, TextNoText, AgentFails, TextFails, Cancel,
         Answer, NoText, Inv, Typed
<1>2. UNCHANGED <<scene, sentVars, unlisted, audit>> /\ late' \in {late, late \cup LeftBehind}
  BY DEF AgentAnswers, TextAnswers, AgentNoText, TextNoText, AgentFails, TextFails, Cancel,
         Answer, NoText, Fail
<1>3. turn' \in {"ended", "running", "replying"}
  BY <1>1, AfterFailure, AfterUnusable
     DEF AgentAnswers, TextAnswers, AgentNoText, TextNoText, AgentFails, TextFails, Cancel, Fail
<1>4. CASE AgentAnswers \/ TextAnswers
  BY <1>1, <1>2, <1>3, <1>4, CloseInv DEF AgentAnswers, TextAnswers, Answer
<1>5. CASE AgentNoText \/ TextNoText
  BY <1>1, <1>2, <1>3, <1>5, CloseInv DEF AgentNoText, TextNoText, NoText, ErrorStatus
<1>6. CASE AgentFails \/ TextFails \/ Cancel
  BY <1>1, <1>2, <1>3, <1>6, CloseInv DEF AgentFails, TextFails, Cancel, Fail, ErrorStatus
<1>. QED BY <1>4, <1>5, <1>6

\* The audit writes every row down or names one it refuses (journal_audit_attempts).
LEMMA CommitInv == Inv /\ Commit => Inv'
<1>. SUFFICES ASSUME Inv, Commit
             PROVE  Inv'
  OBVIOUS
<1>. USE DEF Inv
<1>1. UNCHANGED <<scene, rows, phase, captured, sent, again, late, unlisted>> /\ LastRow' = LastRow
  BY DEF Commit, LastRow, callVars, sentVars
<1>2. phase = "none"
  BY DEF Commit
<1>3. Typed' /\ RowsRead' /\ LeftFailed'
  BY <1>1, <1>2 DEF Typed, RowsRead, LeftFailed, Open, Closed, LabelsValid, Kickoff
<1>4. \A o \in 1..LastRow :
         \/ o \in unlisted /\ rows[o].status = "reserved"
         \/ Closed(rows[o]) /\ rows[o] \in Rows
  BY <1>2 DEF RowsRead, Open, Typed, LastRow
<1>5. CASE \A o \in 1..LastRow : Auditable(rows[o])
  <2>1. turn' = "committed" /\ audit' = [o \in 1..LastRow |-> Program(rows[o])]
    BY <1>5 DEF Commit
  <2>2. \A o \in 1..LastRow : rows[o].request /\ o \notin unlisted
    BY <1>2, <1>4, <1>5 DEF Auditable, Recordable, Closed, Kickoff, Rows, RowsRead
  <2>. QED BY <1>1, <1>3, <2>1, <2>2 DEF Kept, Program, RefusalsExplained
<1>6. CASE ~\A o \in 1..LastRow : Auditable(rows[o])
  <2>1. PICK o \in 1..LastRow : ~Auditable(rows[o])
    BY <1>6
  <2>2. turn' = "refused"
    BY <1>6 DEF Commit
  <2>3. CASE Closed(rows[o]) /\ rows[o] \in Rows
    <3>1. ~Recordable(rows[o])
      BY <2>1, <2>3 DEF Auditable, Closed
    <3>2. ~rows[o].request
      BY <2>3, <3>1 DEF Recordable, Closed
    <3>. QED BY <1>1, <1>3, <2>2, <2>3, <3>2 DEF Closed, Kept, RefusalsExplained, Kickoff
  <2>4. CASE o \in unlisted
    BY <1>1, <1>3, <2>2, <2>4 DEF Kept, RefusalsExplained
  <2>. QED BY <1>4, <2>3, <2>4
<1>. QED BY <1>5, <1>6

-----------------------------------------------------------------------------
\* The invariant holds in every state that is reached.
LEMMA Invariance == Spec => []Inv
<1>1. Inv /\ [Next]_vars => Inv'
  <2>. SUFFICES ASSUME Inv, [Next]_vars
               PROVE  Inv'
    OBVIOUS
  <2>1. CASE UNCHANGED vars
    BY <2>1, StutterInv
  <2>2. ASSUME NEW stage \in Stages, Reserve(stage)
        PROVE  Inv'
    BY <2>2, ReserveInv
  <2>3. ASSUME NEW stage \in Stages, NoRow(stage)
        PROVE  Inv'
    BY <2>3, CallInv
  <2>4. CASE Enter \/ HookedRequest \/ StructuredRequest \/ TextRequest \/ LateRequest
    <3>1. "planner" \in Stages
      BY DEF Stages
    <3>2. Enter \/ Asks \/ LateRequest
      BY <2>4 DEF Asks, HookedRequest, StructuredRequest, TextRequest
    <3>. QED BY <3>1, <3>2, CallInv
  <2>5. CASE \/ AgentAnswers \/ TextAnswers \/ AgentNoText \/ TextNoText
             \/ AgentFails \/ TextFails \/ Cancel
    BY <2>5, EndInv
  <2>8. ASSUME NEW stage \in Stages, NoKey(stage)
        PROVE  Inv'
    BY <2>8, CallInv
  <2>6. CASE FailUnlisted
    BY <2>6, UnlistedInv
  <2>7. CASE Commit
    BY <2>7, CommitInv
  <2>. QED BY <2>1, <2>2, <2>3, <2>4, <2>5, <2>6, <2>7, <2>8 DEF Next
<1>. QED BY <1>1, InitInv, PTL DEF Spec

\* The audit of a committed turn has a request of every call that made one, of either scene
\* and with a thread left behind, and a call that made a second one is audited as failed
\* (record_request_capture, build_audit_record).
THEOREM RequestsTheorem == Spec => []RequestsAudited
<1>1. Inv => RequestsAudited
  BY DEF Inv, Typed, LeftFailed, Kept, RequestsAudited, Program
<1>. QED BY <1>1, Invariance, PTL

\* A finished turn is refused for a row left open or for a kickoff without a request, and
\* for nothing else (journal_audit_attempts).
THEOREM RefusalsTheorem == Spec => []RefusalsExplained
<1>1. Inv => RefusalsExplained
  BY DEF Inv
<1>. QED BY <1>1, Invariance, PTL
=============================================================================
