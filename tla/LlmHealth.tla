------------------------------ MODULE LlmHealth ------------------------------
(***************************************************************************)
(* The monitor of the language models' health: per target the status its  *)
(* last call left, the windows it was out of service, the warnings, the    *)
(* loop that probes it and the loop that reports once a day                *)
(* (health/llm_health.py, health/models.py). Calls of turns that run       *)
(* meanwhile report to the same states.                                    *)
(*                                                                         *)
(* The loops await only probes and their sleeps: an action is what a loop  *)
(* does from one to the next. Times are those of a clock that only goes    *)
(* forward; Never stands for a time that is not set.                       *)
(***************************************************************************)
EXTENDS Integers, Sequences, FiniteSets, FiniteSetsExt

CONSTANTS
    SharesEndpoint,     \* planner and composer are one model at one endpoint
    CheckInterval, FailureInterval, Cooldown,   \* llm_health_*_seconds
    Pause,              \* the sleep between two rounds of the loop
    Day, ReportTime,    \* how long a day is, and when in it the report is due
    MaxTime,            \* bound: the last instant
    MaxOutages          \* bound: a turn's failure opens no further outage

ASSUME ParametersAssumption ==
    /\ SharesEndpoint \in BOOLEAN
    /\ {CheckInterval, FailureInterval, Cooldown, Pause} \subseteq Nat \ {0}
    /\ Day \in Nat \ {0} /\ ReportTime \in 0..(Day - 1)

VARIABLES
    now,
    state,       \* of each target, LlmHealthState
    loop,        \* where the probe loop is
    reporter,    \* where the daily report loop is
    stopping,    \* _stop_event
    down         \* for each target, the instants after which it stayed unhealthy

vars == <<now, state, loop, reporter, stopping, down>>

\* discover_llm_health_targets, in the order they are probed.
targets == <<"composer", "planner">>
Targets == {"composer", "planner"}

Never == -1
Window(start, end) == [start |-> start, end |-> end]

\* next_daily_report_at: today, or tomorrow if that is over.
NextReportAt(time) ==
    LET candidate == (time \div Day) * Day + ReportTime
    IN IF candidate <= time THEN candidate + Day ELSE candidate

Init ==
    /\ now = 0
    /\ state = [t \in Targets |->
                  [status |-> "unknown", unhealthySince |-> Never, lastProbe |-> Never,
                   lastWarning |-> Never, outages |-> <<>>]]
    /\ loop = [at |-> "start", round |-> Never, left |-> <<>>, until |-> Never]
    /\ reporter = [at |-> "sleep", until |-> NextReportAt(0)]
    /\ stopping = FALSE
    /\ down = [t \in Targets |-> {}]

-----------------------------------------------------------------------------
(* What a call's end does to its target's state. *)

\* open_outage
HasOpen(s) == s.status = "unhealthy" /\ s.outages # <<>>

\* record_success
RecordedSuccess(s) ==
    [s EXCEPT !.status = "healthy",
              !.unhealthySince = Never,
              !.outages = IF HasOpen(s) /\ @[Len(@)].end = Never
                          THEN [@ EXCEPT ![Len(@)].end = now] ELSE @]

\* warning_due
WarningDue(s) == s.lastWarning = Never \/ now - s.lastWarning >= Cooldown

\* (mutant) Every failure opens an outage.
recorded_failure_again(s) ==
    [s EXCEPT !.status = "unhealthy",
              !.unhealthySince = now,
              !.outages = Append(@, Window(now, Never)),
              !.lastWarning = now]

\* (mutant) The first failure warns only when the cooldown is over.
recorded_failure_quiet(s) ==
    LET first == s.status # "unhealthy"
    IN [s EXCEPT !.status = "unhealthy",
                 !.unhealthySince = IF first THEN now ELSE @,
                 !.outages = IF first THEN Append(@, Window(now, Never)) ELSE @,
                 !.lastWarning = IF WarningDue(s) THEN now ELSE @]

\* record_failure
RecordedFailure(s) ==
    LET first == s.status # "unhealthy"
    IN [s EXCEPT !.status = "unhealthy",
                 !.unhealthySince = IF first THEN now ELSE @,
                 !.outages = IF first THEN Append(@, Window(now, Never)) ELSE @,
                 !.lastWarning = IF first \/ WarningDue(s) THEN now ELSE @]

-----------------------------------------------------------------------------
(* The probe loop. *)

IntervalOf(s) == IF s.status = "unhealthy" THEN FailureInterval ELSE CheckInterval

\* (mutant) An interval is over one instant late.
due_late(s, round) == s.lastProbe = Never \/ round - s.lastProbe > IntervalOf(s)

Due(s, round) == s.lastProbe = Never \/ round - s.lastProbe >= IntervalOf(s)

\* The loop goes on with the targets `left' of the round that began at `round', the
\* states being `states': to the first that is due, or to sleep.
GoOn(states, left, round) ==
    LET due == {i \in DOMAIN left : Due(states[left[i]], round)}
    IN IF due = {}
       THEN /\ state' = states
            /\ loop' = [at |-> "sleep", round |-> round, left |-> <<>>, until |-> now + Pause]
       ELSE LET i == Min(due)
            IN /\ state' = [states EXCEPT ![left[i]].lastProbe = round]
               /\ loop' = [at |-> "probe", round |-> round,
                           left |-> SubSeq(left, i, Len(left)), until |-> Never]

\* (mutant) A sleep is slept to its end.
awake_in_time == loop.at = "sleep" /\ now >= loop.until

\* _sleep: its time is over, or the monitor is being stopped.
Awake == loop.at = "sleep" /\ (now >= loop.until \/ stopping)

\* A round begins, with the time it is then, unless the monitor is being stopped.
BeginRound ==
    /\ loop.at = "start" \/ Awake
    /\ IF stopping
       THEN /\ loop' = [loop EXCEPT !.at = "ended", !.round = Never, !.until = Never]
            /\ UNCHANGED state
       ELSE GoOn(state, targets, now)
    /\ UNCHANGED <<now, reporter, stopping, down>>

\* The targets a successful probe reports for: its own, and by the stage of its program
\* the composer's when that is the same model at the same endpoint (record_llm_success,
\* target_for_agent). Who reports by the hook finds no monitor once that is being stopped.
ProbeReportsFor(target) ==
    {target} \cup (IF SharesEndpoint /\ ~stopping THEN {"composer"} ELSE {})

\* dispatch_health_probe: an answer that is not the one asked for, an error and a
\* timeout are failures alike, and a target without a key fails at once.
ProbeEnds(ok) ==
    LET target == Head(loop.left)
        states == IF ok
                  THEN [t \in Targets |-> IF t \in ProbeReportsFor(target)
                                          THEN RecordedSuccess(state[t]) ELSE state[t]]
                  ELSE [state EXCEPT ![target] = RecordedFailure(@)]
    IN /\ loop.at = "probe"
       /\ GoOn(states, Tail(loop.left), loop.round)
       /\ UNCHANGED <<now, reporter, stopping, down>>

\* The agent of a probe cannot be built: nobody catches that, and the loop is over.
ProbeNotBuilt ==
    /\ loop.at = "probe"
    /\ loop' = [loop EXCEPT !.at = "ended", !.left = <<>>]
    /\ UNCHANGED <<now, state, reporter, stopping, down>>

-----------------------------------------------------------------------------
(* The daily report loop. *)

ReporterAwake == reporter.at = "sleep" /\ (now >= reporter.until \/ stopping)

\* _daily_report_loop from one sleep to the next. The report of the day up to now, which
\* it sends on the way, is a reading of the states (ReportExact).
ReportRound ==
    /\ ReporterAwake
    /\ reporter' = IF stopping THEN [at |-> "ended", until |-> Never]
                   ELSE [at |-> "sleep", until |-> NextReportAt(now)]
    /\ UNCHANGED <<now, state, loop, stopping, down>>

-----------------------------------------------------------------------------
(* What goes on beside the loop. *)

\* mark_agent_success, mark_agent_failure: a turn's call of the planner, or of any
\* other stage's program, ends.
TurnReports(target, ok) ==
    /\ ~stopping
    /\ ok \/ Len(state[target].outages) < MaxOutages
    /\ state' = [state EXCEPT ![target] = IF ok THEN RecordedSuccess(@) ELSE RecordedFailure(@)]
    /\ UNCHANGED <<now, loop, reporter, stopping, down>>

\* stop_llm_health_monitor, which forgets the monitor before it waits for its loops.
Stop ==
    /\ ~stopping
    /\ stopping' = TRUE
    /\ UNCHANGED <<now, state, loop, reporter, down>>

Tick ==
    /\ now < MaxTime
    /\ now' = now + 1
    /\ down' = [t \in Targets |->
                  down[t] \cup {i \in {now} : state[t].status = "unhealthy"}]
    /\ UNCHANGED <<state, loop, reporter, stopping>>

LoopStep == BeginRound \/ ProbeNotBuilt \/ \E ok \in BOOLEAN : ProbeEnds(ok)

Next ==
    \/ LoopStep \/ ReportRound
    \/ \E target \in Targets, ok \in BOOLEAN : TurnReports(target, ok)
    \/ Stop \/ Tick

Spec == Init /\ [][Next]_vars

\* Probes end, by their timeout at the latest, and the event loop runs what is ready.
FairSpec == Spec /\ WF_vars(LoopStep) /\ WF_vars(ReportRound)

-----------------------------------------------------------------------------
(* What a report says. *)

Lesser(a, b) == IF a <= b THEN a ELSE b
Greater(a, b) == IF a >= b THEN a ELSE b

\* overlap_outage: how much of an outage, up to now if it is open, falls in a window.
Overlap(outage, start, end) ==
    Greater(0, Lesser(IF outage.end = Never THEN now ELSE outage.end, end)
               - Greater(outage.start, start))

\* outage_seconds_between
OutageSeconds(s, start, end) ==
    LET counted[i \in 0..Len(s.outages)] ==
            IF i = 0 THEN 0 ELSE counted[i - 1] + Overlap(s.outages[i], start, end)
    IN counted[Len(s.outages)]

-----------------------------------------------------------------------------
(* Properties. *)

\* A target is unhealthy exactly while its last outage is open, since that outage began;
\* outages do not overlap, and no earlier one is open: probes and turns report to one
\* state in any order (record_success, record_failure, open_outage).
OutagesSound ==
    \A t \in Targets :
        LET s == state[t]
            n == Len(s.outages)
        IN /\ \A i \in 1..n : s.outages[i].end = Never => i = n
           /\ \A i \in 1..n : s.outages[i].end # Never =>
                s.outages[i].start <= s.outages[i].end
           /\ \A i \in 1..(n - 1) : s.outages[i].end <= s.outages[i + 1].start
           /\ s.status = "unhealthy" <=> n > 0 /\ s.outages[n].end = Never
           /\ s.status = "unhealthy" => s.unhealthySince = s.outages[n].start

\* The report of any window up to now counts exactly the time the target was unhealthy
\* in it, none of it twice (outage_seconds_between over the outages recorded).
ReportExact ==
    \A t \in Targets : \A start \in 0..now : \A end \in start..now :
        OutageSeconds(state[t], start, end) = Cardinality(down[t] \cap (start..(end - 1)))

\* No outage is silent: the one that is open has been warned of since it began, however
\* recent the warning of an earlier one (record_failure).
OutageWarned ==
    \A t \in Targets : HasOpen(state[t]) =>
        state[t].lastWarning >= state[t].outages[Len(state[t].outages)].start

\* What the operators are told of outages, by the report and by the warnings, is all
\* that happened and nothing else (outage_seconds_between, record_failure).
OutagesTold == ReportExact /\ OutageWarned

\* The loop goes to sleep only when every target has been probed, none of them longer
\* ago than its interval when the round began, though probes take time and turns change
\* the intervals meanwhile (_probe_loop).
ProbedInTime ==
    loop.at = "sleep" => \A t \in Targets :
        /\ state[t].lastProbe # Never
        /\ loop.round - state[t].lastProbe < Greater(CheckInterval, FailureInterval)

\* A monitor that is being stopped comes to its end with both its loops, wherever they
\* are and however long they were to sleep (stop).
StopEnds == stopping ~> loop.at = "ended" /\ reporter.at = "ended"
=============================================================================
