---------------------------- MODULE HealthProofs ----------------------------
(***************************************************************************)
(* Proofs about LlmHealth, for every interval, cooldown and bound: the     *)
(* outages of a target stay a sequence of windows that do not overlap, the *)
(* last of them open exactly while the target is unhealthy, whatever       *)
(* probes and turns report in whatever order; the reports drawn from them  *)
(* count what happened; and no round of the loop leaves a target out.      *)
(*                                                                         *)
(* The invariant adds to OutagesSound that no window ends later than now,  *)
(* so that one closed or opened now comes after all others, and that an    *)
(* unhealthy target has been warned of since.                              *)
(***************************************************************************)
EXTENDS LlmHealth, FiniteSetTheorems, SequenceTheorems, TLAPS

Windows == [start : Nat, end : Nat \cup {Never}]

States ==
    [status : {"unknown", "healthy", "unhealthy"}, unhealthySince : Int,
     lastProbe : Int, lastWarning : Int, outages : Seq(Windows)]

\* What holds of one target's state at an instant.
SoundAt(s, instant) ==
    LET n == Len(s.outages)
    IN /\ \A i \in 1..n : s.outages[i].start <= instant /\ s.outages[i].end <= instant
       /\ \A i \in 1..n : s.outages[i].end = Never => i = n
       /\ \A i \in 1..n : s.outages[i].end # Never => s.outages[i].start <= s.outages[i].end
       /\ \A i \in 1..(n - 1) : s.outages[i].end <= s.outages[i + 1].start
       /\ s.status = "unhealthy" <=> n > 0 /\ s.outages[n].end = Never
       /\ s.status = "unhealthy" => s.unhealthySince = s.outages[n].start
       /\ s.status = "unhealthy" => s.lastWarning >= s.outages[n].start

Sound ==
    /\ now \in Nat
    /\ "round" \in DOMAIN loop /\ loop.round \in Int
    /\ state \in [Targets -> States]
    /\ \A t \in Targets : SoundAt(state[t], now)

LEMMA NeverInt == Never \in Int /\ ~(Never >= 0)
BY DEF Never

\* What a success and a failure make of a state, in the outages and the times they set.
Recovered(s, outages) ==
    [s EXCEPT !.status = "healthy", !.unhealthySince = Never, !.outages = outages]
Failed(s, since, outages, warning) ==
    [s EXCEPT !.status = "unhealthy", !.unhealthySince = since, !.outages = outages,
              !.lastWarning = warning]

LEMMA RecoveredState ==
    ASSUME NEW s \in States, NEW o \in Seq(Windows)
    PROVE  /\ Recovered(s, o) \in States
           /\ Recovered(s, o).status = "healthy" /\ Recovered(s, o).outages = o
BY NeverInt DEF Recovered, States

LEMMA FailedState ==
    ASSUME NEW s \in States, NEW since, NEW outages, NEW warning,
           {since, warning} \subseteq Int, outages \in Seq(Windows)
    PROVE  /\ Failed(s, since, outages, warning) \in States
           /\ Failed(s, since, outages, warning).status = "unhealthy"
           /\ Failed(s, since, outages, warning).unhealthySince = since
           /\ Failed(s, since, outages, warning).outages = outages
           /\ Failed(s, since, outages, warning).lastWarning = warning
BY DEF Failed, States

LEMMA StateFields ==
    ASSUME NEW s \in States
    PROVE  /\ s = [status |-> s.status, unhealthySince |-> s.unhealthySince,
                   lastProbe |-> s.lastProbe, lastWarning |-> s.lastWarning,
                   outages |-> s.outages]
           /\ s.unhealthySince \in Int /\ s.lastWarning \in Int
           /\ s.outages \in Seq(Windows)
           /\ Len(s.outages) \in Nat
           /\ \A i \in 1..Len(s.outages) : s.outages[i] \in Windows
BY DEF States

\* What is sound stays so while time passes.
LEMMA LaterSound ==
    ASSUME NEW s \in States, NEW now1 \in Nat, NEW now2 \in Nat, now1 <= now2,
           SoundAt(s, now1)
    PROVE  SoundAt(s, now2)
<1>1. ASSUME NEW i \in 1..Len(s.outages)
      PROVE  s.outages[i].start <= now2 /\ s.outages[i].end <= now2
  <2>1. s.outages[i].start <= now1 /\ s.outages[i].end <= now1
    BY <1>1 DEF SoundAt
  <2>2. s.outages[i].start \in Int /\ s.outages[i].end \in Int
    BY <1>1, StateFields, NeverInt DEF Windows
  <2> QED BY <2>1, <2>2
<1> QED BY <1>1, Zenon DEF SoundAt

\* A success closes the open window, if there is one, and keeps the others.
LEMMA SuccessSound ==
    ASSUME now \in Nat, NEW s \in States, SoundAt(s, now)
    PROVE  RecordedSuccess(s) \in States /\ SoundAt(RecordedSuccess(s), now)
<1> DEFINE n == Len(s.outages)
           r == RecordedSuccess(s)
           closed == [s.outages[n] EXCEPT !.end = now]
           o == IF HasOpen(s) /\ s.outages[Len(s.outages)].end = Never
                THEN [s.outages EXCEPT ![Len(s.outages)].end = now] ELSE s.outages
<1>1. r = Recovered(s, o)
  BY Zenon DEF RecordedSuccess, Recovered
<1>2. CASE s.status = "unhealthy"
  <2>1. n \in 1..n /\ s.outages[n] \in Windows /\ s.outages[n].end = Never /\ HasOpen(s)
    BY <1>2, StateFields DEF SoundAt, HasOpen
  <2>2. closed \in Windows /\ closed.end = now /\ closed.start = s.outages[n].start
    BY <2>1 DEF Windows
  <2>3. o = [s.outages EXCEPT ![n] = closed]
    BY <2>1
  <2> HIDE DEF closed, o
  <2>4. o \in Seq(Windows)
    BY <2>1, <2>2, <2>3, StateFields
  <2> HIDE DEF r
  <2>5. r \in States /\ r.status = "healthy" /\ r.outages = o
    BY <1>1, <2>4, RecoveredState
  <2>6. /\ Len(r.outages) = n /\ r.outages[n] = closed
        /\ \A i \in 1..n : i # n => r.outages[i] = s.outages[i]
    BY <2>1, <2>3, <2>5, StateFields
  <2>7. \A i \in 1..n : i # n => s.outages[i].end # Never
    BY DEF SoundAt
  <2>8. \A i \in 1..n : r.outages[i].start <= now /\ r.outages[i].end <= now
    BY <2>1, <2>2, <2>6 DEF SoundAt
  <2>9. \A i \in 1..n :
            r.outages[i].end # Never /\ r.outages[i].start <= r.outages[i].end
    BY <2>1, <2>2, <2>6, <2>7, NeverInt DEF SoundAt
  <2>10. \A i \in 1..(n - 1) : r.outages[i].end <= r.outages[i + 1].start
    <3>1. ASSUME NEW i \in 1..(n - 1) PROVE i \in 1..n /\ i + 1 \in 1..n /\ i # n
      BY StateFields, <3>1
    <3>2. \A i \in 1..n : r.outages[i].start = s.outages[i].start
      BY <2>2, <2>6
    <3> QED BY <2>6, <3>1, <3>2 DEF SoundAt
  <2>11. SoundAt(r, now)
    BY <2>1, <2>5, <2>6, <2>8, <2>9, <2>10 DEF SoundAt
  <2> QED BY <2>5, <2>11 DEF r
<1>3. CASE s.status # "unhealthy"
  <2>1. o = s.outages
    BY <1>3 DEF HasOpen
  <2>2. r \in States /\ r.status = "healthy" /\ r.outages = s.outages
    BY <1>1, <2>1, StateFields, RecoveredState
  <2> QED BY <1>3, <2>2, StateFields DEF SoundAt
<1> QED BY <1>2, <1>3

\* The first failure opens a window, after all others; a further one opens none.
LEMMA FailureSound ==
    ASSUME now \in Nat, NEW s \in States, SoundAt(s, now)
    PROVE  RecordedFailure(s) \in States /\ SoundAt(RecordedFailure(s), now)
<1> DEFINE n == Len(s.outages)
           r == RecordedFailure(s)
           opened == Window(now, Never)
           first == s.status # "unhealthy"
           b == IF first THEN now ELSE s.unhealthySince
           o == IF first THEN Append(s.outages, opened) ELSE s.outages
           w == IF first \/ WarningDue(s) THEN now ELSE s.lastWarning
<1>1. r = Failed(s, b, o, w)
  BY Zenon DEF RecordedFailure, Failed
<1>2. opened \in Windows /\ opened.start = now /\ opened.end = Never
  BY DEF Window, Windows
<1>3. b \in Int /\ o \in Seq(Windows) /\ w \in Int
  BY <1>2, StateFields
<1> HIDE DEF r, b, o, w
<1>4. /\ r \in States /\ r.status = "unhealthy" /\ r.unhealthySince = b /\ r.outages = o
      /\ r.lastWarning = w
  <2>1. {b, w} \subseteq Int /\ o \in Seq(Windows)
    BY <1>3
  <2> QED BY <1>1, <2>1, FailedState
<1>5. CASE s.status = "unhealthy"
  <2>1. /\ r.outages = s.outages /\ r.unhealthySince = s.unhealthySince
        /\ r.lastWarning \in {now, s.lastWarning}
    BY <1>4, <1>5 DEF o, b, w
  <2>2. n \in 1..n /\ s.outages[n].start <= now
    BY <1>5, StateFields DEF SoundAt
  <2>3. r.lastWarning >= s.outages[n].start
    BY <1>5, <2>1, <2>2, StateFields DEF SoundAt, Windows
  <2>4. SoundAt(r, now)
    BY <1>4, <1>5, <2>1, <2>3, StateFields DEF SoundAt
  <2> QED BY <1>4, <2>4 DEF r
<1>6. CASE s.status # "unhealthy"
  <2>1. /\ r.outages = Append(s.outages, opened) /\ r.unhealthySince = now
        /\ r.lastWarning = now
    BY <1>4, <1>6 DEF o, b, w
  <2> HIDE DEF opened
  <2>2. /\ Len(r.outages) = n + 1 /\ r.outages[n + 1] = opened
        /\ \A i \in 1..n : r.outages[i] = s.outages[i]
    BY <1>2, <2>1, StateFields
  <2>3. \A i \in 1..n : s.outages[i].end # Never
    BY <1>6, StateFields DEF SoundAt
  <2>4. /\ \A i \in 1..(n + 1) : i # n + 1 => i \in 1..n
        /\ \A i \in 1..n : i + 1 \in 1..(n + 1) /\ (i # n => i \in 1..(n - 1))
    BY StateFields
  <2>5. \A i \in 1..(n + 1) :
            /\ r.outages[i].start <= now /\ r.outages[i].end <= now
            /\ r.outages[i].end = Never => i = n + 1
            /\ r.outages[i].end # Never => r.outages[i].start <= r.outages[i].end
    <3>1. ASSUME NEW i \in 1..n
          PROVE  /\ r.outages[i].start <= now /\ r.outages[i].end <= now
                 /\ r.outages[i].end # Never /\ r.outages[i].start <= r.outages[i].end
      BY <2>2, <2>3, <3>1 DEF SoundAt
    <3>2. /\ r.outages[n + 1].start <= now /\ r.outages[n + 1].end <= now
          /\ r.outages[n + 1].end = Never
      BY <1>2, <2>2 DEF Never
    <3> QED BY <2>4, <3>1, <3>2
  <2>6. \A i \in 1..n : r.outages[i].end <= r.outages[i + 1].start
    BY <1>2, <2>2, <2>4, StateFields DEF SoundAt
  <2>7. SoundAt(r, now)
    BY <1>2, <1>4, <2>1, <2>2, <2>5, <2>6, StateFields DEF SoundAt
  <2> QED BY <1>4, <2>7 DEF r
<1> QED BY <1>5, <1>6

\* To note when a target was probed changes none of its windows.
LEMMA GoOnSound ==
    ASSUME Sound, NEW states \in [Targets -> States],
           \A t \in Targets : SoundAt(states[t], now),
           NEW left, NEW round \in Int, GoOn(states, left, round), UNCHANGED now
    PROVE  Sound'
<1>1. "round" \in DOMAIN loop' /\ loop'.round \in Int /\ now' \in Nat
  BY DEF GoOn, Sound
<1>2. CASE state' = states
  BY <1>1, <1>2 DEF Sound
<1>3. ASSUME NEW x, state' = [states EXCEPT ![x].lastProbe = round] PROVE Sound'
  <2>1. ASSUME NEW t \in Targets
        PROVE  /\ state'[t] \in States /\ state'[t].outages = states[t].outages
               /\ state'[t].status = states[t].status
               /\ state'[t].unhealthySince = states[t].unhealthySince
               /\ state'[t].lastWarning = states[t].lastWarning
    BY <1>3, <2>1 DEF States
  <2>2. state' \in [Targets -> States]
    BY <1>3, <2>1
  <2>3. ASSUME NEW t \in Targets PROVE SoundAt(state'[t], now')
    <3> DEFINE Windowed(outages, status, since, warning) ==
            LET n == Len(outages) IN
            /\ \A i \in 1..n : outages[i].start <= now /\ outages[i].end <= now
            /\ \A i \in 1..n : outages[i].end = Never => i = n
            /\ \A i \in 1..n : outages[i].end # Never => outages[i].start <= outages[i].end
            /\ \A i \in 1..(n - 1) : outages[i].end <= outages[i + 1].start
            /\ status = "unhealthy" <=> n > 0 /\ outages[n].end = Never
            /\ status = "unhealthy" => since = outages[n].start
            /\ status = "unhealthy" => warning >= outages[n].start
    <3>1. \A s : SoundAt(s, now)
            <=> Windowed(s.outages, s.status, s.unhealthySince, s.lastWarning)
      BY Zenon DEF SoundAt
    <3> HIDE DEF Windowed
    <3>2. SoundAt(state'[t], now)
      BY <2>1, <3>1
    <3> QED BY <3>2
  <2> QED BY <1>1, <2>2, <2>3 DEF Sound
<1> QED BY <1>2, <1>3 DEF GoOn

LEMMA SoundInit == Init => Sound
BY DEF Init, Sound, SoundAt, States, Never

\* Every step, of the loop or of a turn, keeps every target's windows sound.
LEMMA SoundStep == Sound /\ [Next]_vars => Sound'
<1> SUFFICES ASSUME Sound, [Next]_vars PROVE Sound'
  OBVIOUS
<1>1. CASE BeginRound
  <2>1. CASE stopping
    <3>1. loop' = [loop EXCEPT !.at = "ended", !.round = Never, !.until = Never]
      BY <1>1, <2>1 DEF BeginRound
    <3>2. "round" \in DOMAIN loop' /\ loop'.round = Never
      BY <3>1 DEF Sound
    <3> QED BY <1>1, <2>1, <3>2, NeverInt DEF BeginRound, Sound
  <2>2. CASE ~stopping
    BY <1>1, <2>2, GoOnSound DEF BeginRound, Sound
  <2> QED BY <2>1, <2>2
<1>2. ASSUME NEW ok \in BOOLEAN, ProbeEnds(ok) PROVE Sound'
  <2> DEFINE target == Head(loop.left)
             states == IF ok
                       THEN [t \in Targets |-> IF t \in ProbeReportsFor(target)
                                               THEN RecordedSuccess(state[t]) ELSE state[t]]
                       ELSE [state EXCEPT ![target] = RecordedFailure(@)]
  <2>1. ASSUME NEW t \in Targets PROVE states[t] \in States /\ SoundAt(states[t], now)
    <3>1. states[t] \in {state[t], RecordedSuccess(state[t]), RecordedFailure(state[t])}
      BY <2>1 DEF Sound
    <3> QED BY <2>1, <3>1, SuccessSound, FailureSound DEF Sound
  <2>2. states \in [Targets -> States]
    <3>1. DOMAIN states = Targets /\ states = [t \in Targets |-> states[t]]
      BY DEF Sound
    <3> HIDE DEF states
    <3> QED BY <2>1, <3>1
  <2>3. GoOn(states, Tail(loop.left), loop.round) /\ UNCHANGED now
    BY <1>2 DEF ProbeEnds
  <2> HIDE DEF states
  <2> QED BY <2>1, <2>2, <2>3, GoOnSound DEF Sound
<1>3. ASSUME NEW target \in Targets, NEW ok \in BOOLEAN, TurnReports(target, ok)
      PROVE  Sound'
  <2>1. /\ UNCHANGED <<now, loop>> /\ state' \in [Targets -> States]
        /\ \A t \in Targets : SoundAt(state'[t], now)
    BY <1>3, SuccessSound, FailureSound DEF TurnReports, Sound
  <2> QED BY <2>1 DEF Sound
<1>4. CASE Stop
  BY <1>4 DEF Stop, Sound
<1>5. CASE Tick
  <2>1. now' \in Nat /\ now <= now' /\ UNCHANGED <<loop, state>>
    BY <1>5 DEF Tick, Sound
  <2>2. ASSUME NEW t \in Targets PROVE SoundAt(state[t], now')
    BY <2>1, <2>2, LaterSound DEF Sound
  <2> QED BY <2>1, <2>2 DEF Sound
<1>6. CASE ProbeNotBuilt
  <2>1. loop' = [loop EXCEPT !.at = "ended", !.left = <<>>]
    BY <1>6 DEF ProbeNotBuilt
  <2>2. "round" \in DOMAIN loop' /\ loop'.round = loop.round
    BY <2>1 DEF Sound
  <2> QED BY <1>6, <2>2 DEF ProbeNotBuilt, Sound
<1>7. CASE ReportRound
  BY <1>7 DEF ReportRound, Sound
<1>8. CASE UNCHANGED vars
  BY <1>8 DEF vars, Sound
<1> QED BY <1>1, <1>2, <1>3, <1>4, <1>5, <1>6, <1>7, <1>8 DEF Next, LoopStep

\* Whatever the order of probes, turns, the clock and the stop, a target is unhealthy
\* exactly while its last outage is open (record_success, record_failure, open_outage).
THEOREM OutagesTheorem == Spec => []OutagesSound
<1>1. Sound => OutagesSound
  BY DEF Sound, SoundAt, OutagesSound
<1> QED BY <1>1, SoundInit, SoundStep, PTL DEF Spec

\* Whatever the cooldown, an open outage has been warned of (record_failure).
THEOREM WarnedTheorem == Spec => []OutageWarned
<1>1. Sound => OutageWarned
  BY DEF Sound, SoundAt, OutageWarned, HasOpen
<1> QED BY <1>1, SoundInit, SoundStep, PTL DEF Spec

-----------------------------------------------------------------------------
(* The rounds of the probe loop. *)

\* A target was probed, less than an interval before the round.
Recent(s, round) ==
    /\ s.lastProbe # Never
    /\ round - s.lastProbe < Greater(CheckInterval, FailureInterval)

\* The inductive form of ProbedInTime: in a round, the target that is probed and those
\* that are not left are recent; and a round that sleeps has left none.
Probing ==
    /\ loop.at \in {"start", "probe", "sleep", "ended"}
    /\ loop.at = "probe" =>
        /\ loop.round \in Nat
        /\ \/ loop.left = <<"composer", "planner">> /\ Recent(state["composer"], loop.round)
           \/ loop.left = <<"planner">> /\ \A t \in Targets : Recent(state[t], loop.round)
    /\ loop.at = "sleep" => \A t \in Targets : Recent(state[t], loop.round)

\* A longest interval is one, and no shorter than any.
LEMMA IntervalsBound ==
    ASSUME NEW s
    PROVE  /\ Greater(CheckInterval, FailureInterval) \in Nat \ {0}
           /\ IntervalOf(s) \in Nat
           /\ IntervalOf(s) <= Greater(CheckInterval, FailureInterval)
BY ParametersAssumption DEF Greater, IntervalOf

\* Who is not due is recent.
LEMMA NotDueRecent ==
    ASSUME NEW s \in States, NEW round \in Nat, ~Due(s, round)
    PROVE  Recent(s, round)
<1>1. s.lastProbe \in Int /\ s.lastProbe # Never /\ ~(round - s.lastProbe >= IntervalOf(s))
  BY DEF States, Due
<1> QED BY <1>1, IntervalsBound DEF Recent

\* Who is probed in a round is recent in it.
LEMMA ProbedRecent ==
    ASSUME NEW s, NEW round \in Nat, s.lastProbe = round
    PROVE  Recent(s, round)
BY IntervalsBound, NeverInt DEF Recent

\* The loop goes on past recent targets only.
LEMMA GoOnProbing ==
    ASSUME NEW states \in [Targets -> States], NEW round \in Nat,
           NEW left \in {<<"composer", "planner">>, <<"planner">>, <<>>},
           left = <<"planner">> => Recent(states["composer"], round),
           left = <<>> => \A t \in Targets : Recent(states[t], round),
           GoOn(states, left, round)
    PROVE  Probing'
<1> DEFINE due == {i \in DOMAIN left : Due(states[left[i]], round)}
<1>1. /\ states["composer"] \in States /\ states["planner"] \in States
      /\ Targets = {"composer", "planner"} /\ "composer" # "planner"
  BY DEF Targets
<1>2. DOMAIN left = IF left = <<>> THEN {} ELSE IF left = <<"planner">> THEN {1} ELSE {1, 2}
  OBVIOUS
<1>3. CASE due = {}
  <2>1. /\ state' = states
        /\ loop' = [at |-> "sleep", round |-> round, left |-> <<>>, until |-> now + Pause]
    BY <1>3 DEF GoOn
  <2>2. \A t \in Targets : Recent(states[t], round)
    <3>1. CASE left = <<>>
      BY <3>1
    <3>2. CASE left = <<"planner">>
      <4>1. ~Due(states["planner"], round)
        BY <1>2, <1>3, <3>2
      <4> QED BY <1>1, <3>2, <4>1, NotDueRecent
    <3>3. CASE left = <<"composer", "planner">>
      <4>1. ~Due(states["planner"], round) /\ ~Due(states["composer"], round)
        BY <1>2, <1>3, <3>3
      <4> QED BY <1>1, <4>1, NotDueRecent
    <3> QED BY <3>1, <3>2, <3>3
  <2> QED BY <2>1, <2>2 DEF Probing
<1>4. CASE due # {}
  <2> DEFINE i == Min(due)
  <2>1. /\ state' = [states EXCEPT ![left[i]].lastProbe = round]
        /\ loop' = [at |-> "probe", round |-> round,
                    left |-> SubSeq(left, i, Len(left)), until |-> Never]
    BY <1>4 DEF GoOn
  <2>2. due \subseteq {1, 2}
    BY <1>2
  <2>3. i \in due /\ \A y \in due : i <= y
    <3> HIDE DEF due
    <3>1. \E x \in due : \A y \in due : x <= y
      <4>1. CASE 1 \in due
        BY <2>2, <4>1
      <4>2. CASE 1 \notin due
        <5>1. due = {2}
          BY <1>4, <2>2, <4>2
        <5> QED BY <5>1
      <4> QED BY <4>1, <4>2
    <3> QED BY <3>1 DEF Min
  <2>a. /\ Len(<<"planner">>) = 1 /\ Len(<<"composer", "planner">>) = 2
        /\ SubSeq(<<"planner">>, 1, 1) = <<"planner">>
        /\ SubSeq(<<"composer", "planner">>, 2, 2) = <<"planner">>
        /\ SubSeq(<<"composer", "planner">>, 1, 2) = <<"composer", "planner">>
    <3>1. /\ <<"planner">> \in Seq(Targets) /\ Len(<<"planner">>) = 1
          /\ <<"composer", "planner">> \in Seq(Targets)
          /\ Len(<<"composer", "planner">>) = 2
          /\ Tail(<<"composer", "planner">>) = <<"planner">>
          /\ <<"composer", "planner">> # <<>>
      <4>1. "composer" \in Targets /\ "planner" \in Targets
        BY DEF Targets
      <4>2. \A a, b \in Targets : /\ <<b>> \in Seq(Targets) /\ Len(<<b>>) = 1
                                  /\ <<a, b>> \in Seq(Targets)
                                  /\ Len(<<a, b>>) = 2
                                  /\ Tail(<<a, b>>) = <<b>> /\ <<a, b>> # <<>>
        OBVIOUS
      <4> QED BY <4>1, <4>2
    <3>2. SubSeq(<<"planner">>, 1, 1) = <<"planner">>
      BY <3>1, SubSeqFull
    <3>3. SubSeq(<<"composer", "planner">>, 1, 2) = <<"composer", "planner">>
      BY <3>1, SubSeqFull
    <3>4. SubSeq(<<"composer", "planner">>, 2, 2) = <<"planner">>
      BY <3>1, TailIsSubSeq
    <3> QED BY <3>1, <3>2, <3>3, <3>4
  <2> HIDE DEF due, i
  <2>4. \A s \in States : [s EXCEPT !.lastProbe = round].lastProbe = round
    BY DEF States
  <2>5. CASE left = <<"planner">>
    <3>1. i = 1
      BY <1>2, <2>3, <2>5 DEF due
    <3>2. state' = [states EXCEPT !["planner"].lastProbe = round]
          /\ SubSeq(left, i, Len(left)) = <<"planner">>
      BY <2>1, <2>5, <2>a, <3>1
    <3>3. state'["planner"].lastProbe = round /\ state'["composer"] = states["composer"]
      BY <1>1, <2>4, <3>2
    <3> QED BY <1>1, <2>1, <2>5, <3>2, <3>3, ProbedRecent DEF Probing
  <2>6. CASE left = <<"composer", "planner">> /\ i = 1
    <3>1. state' = [states EXCEPT !["composer"].lastProbe = round]
          /\ SubSeq(left, i, Len(left)) = <<"composer", "planner">>
      BY <2>1, <2>6, <2>a
    <3>2. state'["composer"].lastProbe = round
      BY <1>1, <2>4, <3>1
    <3> QED BY <2>1, <3>1, <3>2, ProbedRecent DEF Probing
  <2>7. CASE left = <<"composer", "planner">> /\ i = 2
    <3>1. state' = [states EXCEPT !["planner"].lastProbe = round]
          /\ SubSeq(left, i, Len(left)) = <<"planner">>
      BY <2>1, <2>7, <2>a
    <3>2. 1 \notin due /\ 1 \in DOMAIN left /\ left[1] = "composer"
      BY <1>2, <2>3, <2>7
    <3>3. Recent(states["composer"], round)
      BY <1>1, <2>7, <3>2, NotDueRecent DEF due
    <3>4. state'["planner"].lastProbe = round /\ state'["composer"] = states["composer"]
      BY <1>1, <2>4, <3>1
    <3> QED BY <1>1, <2>1, <3>1, <3>3, <3>4, ProbedRecent DEF Probing
  <2>8. left # <<>>
    BY <1>2, <1>4 DEF due
  <2> QED BY <2>2, <2>3, <2>5, <2>6, <2>7, <2>8
<1> QED BY <1>3, <1>4

\* What calls report changes nothing of when their target was probed.
LEMMA ReportsKeepProbes ==
    ASSUME NEW s \in States
    PROVE  /\ RecordedSuccess(s).lastProbe = s.lastProbe
           /\ RecordedFailure(s).lastProbe = s.lastProbe
BY DEF RecordedSuccess, RecordedFailure, States

\* No step lets a round end with a target it should have probed.
LEMMA ProbingStep ==
    ASSUME Sound, Probing, [Next]_vars
    PROVE  Probing'
<1>1. ASSUME BeginRound PROVE Probing'
  <2>1. CASE stopping
    <3>1. loop' = [loop EXCEPT !.at = "ended", !.round = Never, !.until = Never]
      BY <1>1, <2>1 DEF BeginRound
    <3>2. loop'.at = "ended" \/ loop'.at = loop.at
      BY <3>1
    <3> QED BY <1>1, <2>1, <3>1 DEF BeginRound, Probing, Awake
  <2>2. CASE ~stopping
    <3>1. GoOn(state, <<"composer", "planner">>, now) /\ now \in Nat
          /\ state \in [Targets -> States]
      BY <1>1, <2>2 DEF BeginRound, targets, Sound
    <3>2. <<"composer", "planner">> # <<"planner">> /\ <<"composer", "planner">> # <<>>
      OBVIOUS
    <3> QED BY <3>1, <3>2, GoOnProbing
  <2> QED BY <2>1, <2>2
<1>2. ASSUME NEW ok \in BOOLEAN, ProbeEnds(ok) PROVE Probing'
  <2> DEFINE target == Head(loop.left)
             states == IF ok
                       THEN [t \in Targets |-> IF t \in ProbeReportsFor(target)
                                               THEN RecordedSuccess(state[t]) ELSE state[t]]
                       ELSE [state EXCEPT ![target] = RecordedFailure(@)]
  <2>1. ASSUME NEW t \in Targets
        PROVE  states[t] \in States /\ states[t].lastProbe = state[t].lastProbe
    <3>1. states[t] \in {state[t], RecordedSuccess(state[t]), RecordedFailure(state[t])}
      BY <2>1 DEF Sound
    <3>2. state[t] \in States /\ SoundAt(state[t], now) /\ now \in Nat
      BY <2>1 DEF Sound
    <3> HIDE DEF states
    <3> QED BY <3>1, <3>2, SuccessSound, FailureSound, ReportsKeepProbes
  <2>2. states \in [Targets -> States]
    <3>1. DOMAIN states = Targets /\ states = [t \in Targets |-> states[t]]
      BY DEF Sound
    <3> HIDE DEF states
    <3> QED BY <2>1, <3>1
  <2>3. GoOn(states, Tail(loop.left), loop.round) /\ loop.at = "probe"
    BY <1>2 DEF ProbeEnds
  <2> HIDE DEF states
  <2>4. /\ loop.round \in Nat
        /\ \/ loop.left = <<"composer", "planner">> /\ Recent(state["composer"], loop.round)
           \/ loop.left = <<"planner">> /\ \A t \in Targets : Recent(state[t], loop.round)
    BY <2>3 DEF Probing
  <2>5. \A t \in Targets : Recent(state[t], loop.round) => Recent(states[t], loop.round)
    BY <2>1 DEF Recent
  <2>6. CASE loop.left = <<"composer", "planner">> /\ Recent(state["composer"], loop.round)
    <3>1. Tail(loop.left) = <<"planner">> /\ <<"planner">> # <<>>
      BY <2>6
    <3>2. Recent(states["composer"], loop.round)
      BY <2>5, <2>6 DEF Targets
    <3> QED BY <2>2, <2>3, <2>4, <3>1, <3>2, GoOnProbing
  <2>7. CASE loop.left = <<"planner">> /\ \A t \in Targets : Recent(state[t], loop.round)
    <3>1. Tail(loop.left) = <<>> /\ <<>> # <<"planner">>
      BY <2>7
    <3> QED BY <2>2, <2>3, <2>4, <2>5, <2>7, <3>1, GoOnProbing
  <2> QED BY <2>4, <2>6, <2>7
<1>3. ASSUME NEW target \in Targets, NEW ok \in BOOLEAN, TurnReports(target, ok)
      PROVE  Probing'
  <2>1. \A t \in Targets : state'[t].lastProbe = state[t].lastProbe
    BY <1>3, ReportsKeepProbes DEF TurnReports, Sound
  <2>2. \A t \in Targets : \A round : Recent(state[t], round) => Recent(state'[t], round)
    BY <2>1 DEF Recent
  <2>3. loop' = loop
    BY <1>3 DEF TurnReports
  <2>4. "composer" \in Targets
    BY DEF Targets
  <2> QED BY <2>2, <2>3, <2>4 DEF Probing
<1>4. ASSUME ProbeNotBuilt PROVE Probing'
  <2>1. loop' = [loop EXCEPT !.at = "ended", !.left = <<>>]
    BY <1>4 DEF ProbeNotBuilt
  <2>2. loop'.at = "ended" \/ loop'.at = loop.at
    BY <2>1
  <2> QED BY <1>4, <2>1 DEF ProbeNotBuilt, Probing
<1>5. ASSUME Stop \/ Tick \/ ReportRound \/ UNCHANGED vars PROVE Probing'
  BY <1>5 DEF Stop, Tick, ReportRound, vars, Probing, Recent
<1> QED BY <1>1, <1>2, <1>3, <1>4, <1>5 DEF Next, LoopStep

\* Whatever the intervals, and whatever turns report while the loop probes, no target
\* is left longer than its interval by a round that ends (_probe_loop).
THEOREM ProbedTheorem == Spec => []ProbedInTime
<1>1. Init => Probing
  BY DEF Init, Probing
<1>2. Sound /\ Probing /\ [Next]_vars => Probing'
  BY ProbingStep
<1>3. Probing => ProbedInTime
  BY DEF Probing, ProbedInTime, Recent
<1> QED BY <1>1, <1>2, <1>3, SoundInit, SoundStep, PTL DEF Spec

-----------------------------------------------------------------------------
(* The report. *)

\* Induction over the numbers, stated of a set: its complement has no least member.
LEMMA NatSets ==
    ASSUME NEW S, 0 \in S, \A n \in Nat : n \in S => n + 1 \in S
    PROVE  Nat \subseteq S
<1> SUFFICES ASSUME Nat \ S # {} PROVE FALSE
  OBVIOUS
<1> DEFINE T == {0 .. m : m \in Nat \ S}
<1>1. T # {} /\ T \subseteq FiniteSubsetsOf(Nat)
  <2>1. \A m \in Nat : 0 .. m \in SUBSET Nat /\ IsFiniteSet(0 .. m)
    BY FS_Interval
  <2> QED BY <2>1 DEF FiniteSubsetsOf
<1> HIDE DEF T
<1>2. PICK X \in T : \A Y \in T : ~(<<Y, X>> \in StrictSubsetOrdering(Nat))
  BY <1>1, FS_StrictSubsetOrderingWellFounded, WFMin
<1>3. PICK x \in Nat \ S : X = 0 .. x
  BY DEF T
<1>4. x # 0 /\ x - 1 \in Nat /\ x - 1 \notin S
  BY <1>3
<1>5. 0 .. (x - 1) \in T
  BY <1>4 DEF T
<1>6. <<0 .. (x - 1), 0 .. x>> \in StrictSubsetOrdering(Nat)
  <2>1. 0 .. (x - 1) \subseteq 0 .. x /\ x \in 0 .. x /\ x \notin 0 .. (x - 1)
    BY <1>3, <1>4
  <2>2. 0 .. x \in SUBSET Nat /\ 0 .. (x - 1) \in SUBSET Nat
    OBVIOUS
  <2>3. 0 .. (x - 1) # 0 .. x
    BY <2>1
  <2> QED BY <2>1, <2>2, <2>3, Zenon DEF StrictSubsetOrdering
<1> QED BY <1>2, <1>3, <1>5, <1>6

\* What the i-th outage adds to the seconds c counted of those before it.
Add(s, a, b, i, c) == c + Overlap(s.outages[i], a, b)

\* f is the function OutageSeconds defines recursively.
Counts(f, s, a, b) ==
    f = [i \in 0..Len(s.outages) |-> IF i = 0 THEN 0 ELSE Add(s, a, b, i, f[i - 1])]

\* The recursive definition of OutageSeconds defines a function.
LEMMA CountsExists ==
    ASSUME NEW s, NEW a, NEW b, Len(s.outages) \in Nat
    PROVE  \E f : Counts(f, s, a, b)
<1> DEFINE Upto(n, f) ==
               f = [i \in 0..n |-> IF i = 0 THEN 0 ELSE Add(s, a, b, i, f[i - 1])]
           S == {n \in Nat : \E f : Upto(n, f)}
<1>1. 0 \in S
  <2>1. Upto(0, [i \in 0..0 |-> 0])
    OBVIOUS
  <2> QED BY <2>1
<1>2. ASSUME NEW n \in Nat, n \in S PROVE n + 1 \in S
  <2>1. PICK f : Upto(n, f)
    BY <1>2
  <2> DEFINE g == [i \in 0..(n + 1) |->
                    IF i \in 0..n THEN f[i] ELSE Add(s, a, b, n + 1, f[n])]
  <2>2. /\ DOMAIN g = 0..(n + 1)
        /\ g[n + 1] = Add(s, a, b, n + 1, f[n])
        /\ \A i \in 0..n : g[i] = f[i]
    OBVIOUS
  <2>3. \A i \in 0..n : f[i] = IF i = 0 THEN 0 ELSE Add(s, a, b, i, f[i - 1])
    BY <2>1
  <2>4. \A i \in 0..(n + 1) : g[i] = IF i = 0 THEN 0 ELSE Add(s, a, b, i, g[i - 1])
    <3> SUFFICES ASSUME NEW i \in 0..(n + 1)
                 PROVE  g[i] = IF i = 0 THEN 0 ELSE Add(s, a, b, i, g[i - 1])
      OBVIOUS
    <3>0. n \in 0..n /\ 0 \in 0..n
      OBVIOUS
    <3> HIDE DEF g
    <3>1. CASE i = n + 1
      <4>1. i # 0 /\ i - 1 = n
        BY <3>1
      <4> QED BY <4>1, <3>0, <3>1, <2>2
    <3>2. CASE i \in 0..n /\ i # 0
      <4>1. i - 1 \in 0..n
        BY <3>2
      <4> QED BY <3>2, <2>2, <2>3, <4>1
    <3>3. CASE i = 0
      BY <3>3, <3>0, <2>2, <2>3
    <3> QED BY <3>1, <3>2, <3>3
  <2>5. g = [i \in 0..(n + 1) |-> g[i]]
    OBVIOUS
  <2> HIDE DEF g
  <2>6. Upto(n + 1, g)
    BY <2>4, <2>5, Zenon
  <2> QED BY <2>6
<1> HIDE DEF S
<1>3. Nat \subseteq S
  BY <1>1, <1>2, NatSets
<1>4. Len(s.outages) \in S
  BY <1>3
<1> QED BY <1>4 DEF S, Counts

\* OutageSeconds is the last value of that function.
LEMMA OutageSecondsUnfolds ==
    ASSUME NEW s, NEW a, NEW b, Len(s.outages) \in Nat
    PROVE  \E f : Counts(f, s, a, b) /\ OutageSeconds(s, a, b) = f[Len(s.outages)]
<1> DEFINE counted == CHOOSE f : Counts(f, s, a, b)
<1>1. Counts(counted, s, a, b)
  BY CountsExists, Zenon
<1>2. OutageSeconds(s, a, b) = counted[Len(s.outages)]
  BY Zenon DEF OutageSeconds, Add, Counts
<1> QED BY <1>1, <1>2

\* When an outage ends, as far as is known at an instant.
Until(outage, instant) == IF outage.end = Never THEN instant ELSE outage.end

\* The instants a state's outages cover, in the first n of them.
CoveredUpto(s, instant, n) ==
    {j \in Nat : \E i \in 1..n :
        s.outages[i].start <= j /\ j < Until(s.outages[i], instant)}

Covered(s, instant) == CoveredUpto(s, instant, Len(s.outages))

\* The seconds of an outage in a window are its instants there.
LEMMA OverlapCounts ==
    ASSUME now \in Nat, NEW o \in Windows, NEW a \in Nat, NEW b \in Nat
    PROVE  LET clip == {j \in Nat : o.start <= j /\ j < Until(o, now)} \cap (a..(b - 1)) IN
           IsFiniteSet(clip) /\ Cardinality(clip) = Overlap(o, a, b)
<1> DEFINE clip == {j \in Nat : o.start <= j /\ j < Until(o, now)} \cap (a..(b - 1))
           from == Greater(o.start, a)
           to == Lesser(Until(o, now), b)
<1>1. o.start \in Nat /\ Until(o, now) \in Nat
  BY NeverInt DEF Windows, Until
<1>2. from \in Nat /\ to \in Nat
  BY <1>1 DEF Greater, Lesser
<1>3. clip = from..(to - 1)
  BY <1>1 DEF Greater, Lesser
<1>4. Overlap(o, a, b) = Greater(0, to - from)
  BY DEF Overlap, Until
<1> HIDE DEF clip, from, to
<1>5. /\ IsFiniteSet(from..(to - 1))
      /\ Cardinality(from..(to - 1)) = IF from > to - 1 THEN 0 ELSE (to - 1) - from + 1
  BY <1>2, FS_Interval
<1>6. Cardinality(from..(to - 1)) = Greater(0, to - from)
  BY <1>2, <1>5 DEF Greater
<1> QED BY <1>3, <1>4, <1>5, <1>6 DEF clip

\* The report of a window counts the instants the outages cover in it.
LEMMA SecondsAreCovered ==
    ASSUME now \in Nat, NEW s \in States, SoundAt(s, now), NEW a \in Nat, NEW b \in Nat
    PROVE  OutageSeconds(s, a, b) = Cardinality(Covered(s, now) \cap (a..(b - 1)))
<1> DEFINE n == Len(s.outages)
           U(i) == CoveredUpto(s, now, i)
           W == a..(b - 1)
<1>1. n \in Nat /\ \A i \in 1..n : s.outages[i] \in Windows
  BY StateFields
<1>2. PICK f : Counts(f, s, a, b) /\ OutageSeconds(s, a, b) = f[n]
  BY <1>1, OutageSecondsUnfolds
<1>3. \A i \in 0..n : f[i] = IF i = 0 THEN 0 ELSE Add(s, a, b, i, f[i - 1])
  BY <1>2 DEF Counts
<1> DEFINE Good(i) ==
               /\ IsFiniteSet(U(i) \cap W) /\ Cardinality(U(i) \cap W) = f[i]
               /\ i > 0 => \A j \in U(i) : j < Until(s.outages[i], now)
           S == {i \in Nat : i <= n => Good(i)}
<1>4. 0 \in S
  <2>1. U(0) \cap W = {}
    BY DEF CoveredUpto
  <2>2. f[0] = 0
    BY <1>1, <1>3
  <2>3. IsFiniteSet({}) /\ Cardinality({}) = 0
    BY FS_EmptySet
  <2>4. Good(0)
    <3> HIDE DEF U, W
    <3> QED BY <2>1, <2>2, <2>3
  <2> QED BY <2>4
<1>5. ASSUME NEW i \in Nat, i \in S PROVE i + 1 \in S
  <2> SUFFICES ASSUME i + 1 <= n PROVE Good(i + 1)
    OBVIOUS
  <2> DEFINE o == s.outages[i + 1]
             clip == {j \in Nat : o.start <= j /\ j < Until(o, now)}
  <2>1. Good(i)
    BY <1>1, <1>5
  <2>2. i + 1 \in 1..n /\ o \in Windows
    BY <1>1
  <2>3. o.start \in Nat /\ Until(o, now) \in Nat /\ o.start <= Until(o, now)
    BY <2>2, NeverInt DEF Windows, Until, SoundAt
  <2>4. U(i + 1) = U(i) \cup clip
    BY DEF CoveredUpto
  <2>5. U(i) \cap clip = {} /\ \A j \in U(i) : j < Until(o, now)
    <3>1. CASE i = 0
      BY <3>1 DEF CoveredUpto
    <3>2. CASE i # 0
      <4>1. i \in 1..n /\ i \in 1..(n - 1) /\ s.outages[i] \in Windows
        BY <1>1, <3>2
      <4>2. s.outages[i].end # Never /\ s.outages[i].end <= s.outages[i + 1].start
        BY <1>1, <4>1 DEF SoundAt
      <4>3. s.outages[i].end \in Nat /\ \A j \in U(i) : j \in Nat /\ j < s.outages[i].end
        BY <2>1, <3>2, <4>1, <4>2 DEF Windows, Until, CoveredUpto
      <4>4. s.outages[i].end <= o.start
        BY <4>2
      <4>5. \A j, e, m, l \in Nat : j < e /\ e <= m /\ m <= l => j < m /\ j < l
        OBVIOUS
      <4>6. \A j \in U(i) : j \in Nat /\ j < o.start /\ j < Until(o, now)
        <5> SUFFICES ASSUME NEW j \in U(i)
                     PROVE  j \in Nat /\ j < o.start /\ j < Until(o, now)
          OBVIOUS
        <5> HIDE DEF U, o
        <5>1. j \in Nat /\ j < s.outages[i].end
          BY <4>3
        <5> QED BY <2>3, <4>3, <4>4, <4>5, <5>1
      <4>7. \A j \in clip : j \in Nat /\ o.start <= j
        OBVIOUS
      <4>8. \A j, l \in Nat : ~ (j < l /\ l <= j)
        OBVIOUS
      <4> HIDE DEF U, clip
      <4> QED BY <2>3, <4>6, <4>7, <4>8
    <3> QED BY <3>1, <3>2
  <2>6. f[i + 1] = f[i] + Overlap(o, a, b)
    <3>1. i + 1 \in 0..n /\ i + 1 # 0 /\ (i + 1) - 1 = i
      BY <2>2
    <3> QED BY <1>3, <3>1 DEF Add
  <2>7. IsFiniteSet(clip \cap W) /\ Cardinality(clip \cap W) = Overlap(o, a, b)
    BY <2>2, OverlapCounts
  <2>8. \A j \in clip : j < Until(o, now)
    OBVIOUS
  <2> HIDE DEF U, W, clip, o
  <2>9. /\ U(i + 1) \cap W = (U(i) \cap W) \cup (clip \cap W)
        /\ (U(i) \cap W) \cap (clip \cap W) = {}
    BY <2>4, <2>5
  <2>10. /\ IsFiniteSet((U(i) \cap W) \cup (clip \cap W))
         /\ Cardinality((U(i) \cap W) \cup (clip \cap W)) =
                Cardinality(U(i) \cap W) + Cardinality(clip \cap W)
                    - Cardinality((U(i) \cap W) \cap (clip \cap W))
    BY <2>1, <2>7, FS_Union
  <2>11. Cardinality((U(i) \cap W) \cap (clip \cap W)) = 0
    BY <2>9, FS_EmptySet
  <2>12. f[i] \in Nat /\ Overlap(o, a, b) \in Nat
    BY <2>1, <2>7, FS_CardinalityType
  <2>13. IsFiniteSet(U(i + 1) \cap W) /\ Cardinality(U(i + 1) \cap W) = f[i + 1]
    <3>1. Cardinality(U(i) \cap W) = f[i] /\ IsFiniteSet(U(i + 1) \cap W)
      BY <2>1, <2>9, <2>10
    <3>2. Cardinality(U(i + 1) \cap W) = f[i] + Overlap(o, a, b) - 0
      BY <3>1, <2>7, <2>9, <2>10, <2>11
    <3> QED BY <2>6, <2>12, <3>1, <3>2
  <2>14. \A j \in U(i + 1) : j < Until(o, now)
    BY <2>4, <2>5, <2>8
  <2> QED BY <2>13, <2>14 DEF o
<1> HIDE DEF S
<1>6. Nat \subseteq S
  BY <1>4, <1>5, NatSets
<1>7. Good(n)
  <2>1. n \in S /\ n <= n
    BY <1>1, <1>6
  <2> HIDE DEF Good, n
  <2> QED BY <2>1 DEF S
<1> QED BY <1>2, <1>7 DEF Covered

\* A call's end changes nothing of what the outages cover: a window it closes ends
\* now, and one it opens begins now.
LEMMA SuccessCovered ==
    ASSUME now \in Nat, NEW s \in States, SoundAt(s, now)
    PROVE  Covered(RecordedSuccess(s), now) = Covered(s, now)
<1> DEFINE n == Len(s.outages)
           closed == [s.outages[n] EXCEPT !.end = now]
           o == IF HasOpen(s) /\ s.outages[Len(s.outages)].end = Never
                THEN [s.outages EXCEPT ![Len(s.outages)].end = now] ELSE s.outages
<1>1. RecordedSuccess(s) = Recovered(s, o)
  BY Zenon DEF RecordedSuccess, Recovered
<1>2. CASE s.status = "unhealthy"
  <2>1. n \in 1..n /\ s.outages[n] \in Windows /\ s.outages[n].end = Never /\ HasOpen(s)
    BY <1>2, StateFields DEF SoundAt, HasOpen
  <2>2. closed \in Windows /\ closed.end = now /\ closed.start = s.outages[n].start
    BY <2>1 DEF Windows
  <2>3. o = [s.outages EXCEPT ![n] = closed]
    BY <2>1
  <2> HIDE DEF closed, o
  <2>4. o \in Seq(Windows)
    BY <2>1, <2>2, <2>3, StateFields
  <2>5. RecordedSuccess(s).outages = o
    BY <1>1, <2>4, RecoveredState
  <2>6. /\ Len(o) = n /\ o[n] = closed
        /\ \A i \in 1..n : i # n => o[i] = s.outages[i]
    BY <2>1, <2>3, StateFields
  <2>7. Until(closed, now) = Until(s.outages[n], now)
    BY <2>1, <2>2, NeverInt DEF Until
  <2>8. \A i \in 1..n : o[i].start = s.outages[i].start
                        /\ Until(o[i], now) = Until(s.outages[i], now)
    BY <2>2, <2>6, <2>7
  <2> HIDE DEF n
  <2>9. CoveredUpto(RecordedSuccess(s), now, n) = CoveredUpto(s, now, n)
    BY <2>5, <2>8 DEF CoveredUpto
  <2> QED BY <2>5, <2>6, <2>9 DEF Covered, n
<1>3. CASE s.status # "unhealthy"
  <2>1. o = s.outages
    BY <1>3 DEF HasOpen
  <2>2. RecordedSuccess(s).outages = s.outages
    BY <1>1, <2>1, StateFields, RecoveredState
  <2> QED BY <2>2 DEF Covered, CoveredUpto
<1> QED BY <1>2, <1>3

\* A failure changes nothing of it either.
LEMMA FailureCovered ==
    ASSUME now \in Nat, NEW s \in States, SoundAt(s, now)
    PROVE  Covered(RecordedFailure(s), now) = Covered(s, now)
<1> DEFINE n == Len(s.outages)
           window == [start |-> now, end |-> Never]
<1>1. CASE s.status = "unhealthy"
  <2>1. RecordedFailure(s).outages = s.outages
    BY <1>1 DEF RecordedFailure, States
  <2> QED BY <2>1 DEF Covered, CoveredUpto
<1>2. CASE s.status # "unhealthy"
  <2>1. RecordedFailure(s).outages = Append(s.outages, window)
    BY <1>2 DEF RecordedFailure, States, Window
  <2>2. window.start = now /\ window \in Windows /\ Until(window, now) = now
    BY DEF Windows, Until
  <2> HIDE DEF window
  <2>3. /\ Len(Append(s.outages, window)) = n + 1 /\ n \in Nat
        /\ \A i \in 1..n : Append(s.outages, window)[i] = s.outages[i]
        /\ Append(s.outages, window)[n + 1] = window
    BY <2>2, StateFields
  <2> DEFINE q == Append(s.outages, window)
  <2> HIDE DEF q
  <2>4. Len(q) = n + 1 /\ (\A i \in 1..n : q[i] = s.outages[i]) /\ q[n + 1] = window
    BY <2>3 DEF q
  <2>5. ASSUME NEW j \in Nat
        PROVE  (\E i \in 1..(n + 1) : q[i].start <= j /\ j < Until(q[i], now))
                <=> (\E i \in 1..n : s.outages[i].start <= j
                                     /\ j < Until(s.outages[i], now))
    <3>1. ~ (q[n + 1].start <= j /\ j < Until(q[n + 1], now))
      BY <2>2, <2>4
    <3>2. \A i \in 1..(n + 1) : i \in 1..n \/ i = n + 1
      BY <2>3
    <3>3. 1..n \subseteq 1..(n + 1)
      BY <2>3
    <3> HIDE DEF n
    <3> QED BY <2>4, <3>1, <3>2, <3>3, Zenon
  <2>6. RecordedFailure(s).outages = q
    BY <2>1 DEF q
  <2>7. Covered(RecordedFailure(s), now)
          = {j \in Nat : \E i \in 1..(n + 1) : q[i].start <= j /\ j < Until(q[i], now)}
    BY <2>4, <2>6 DEF Covered, CoveredUpto
  <2>8. Covered(s, now)
          = {j \in Nat : \E i \in 1..n : s.outages[i].start <= j
                                         /\ j < Until(s.outages[i], now)}
    BY DEF Covered, CoveredUpto
  <2> QED BY <2>5, <2>7, <2>8
<1> QED BY <1>1, <1>2

\* As time passes, exactly the open outage covers one more instant.
LEMMA TickCovered ==
    ASSUME now \in Nat, NEW s \in States, SoundAt(s, now)
    PROVE  Covered(s, now + 1) =
                Covered(s, now) \cup {i \in {now} : s.status = "unhealthy"}
<1> DEFINE n == Len(s.outages)
<1>1. n \in Nat /\ \A i \in 1..n : s.outages[i] \in Windows
  BY StateFields
<1>2. ASSUME NEW j \in Nat
      PROVE  (\E i \in 1..n : s.outages[i].start <= j /\ j < Until(s.outages[i], now + 1))
              <=> \/ \E i \in 1..n : s.outages[i].start <= j /\ j < Until(s.outages[i], now)
                  \/ j = now /\ s.status = "unhealthy"
  <2>1. ASSUME NEW i \in 1..n, s.outages[i].start <= j, j < Until(s.outages[i], now + 1)
        PROVE  j < Until(s.outages[i], now) \/ (j = now /\ s.status = "unhealthy")
    <3>1. CASE s.outages[i].end = Never
      <4>1. j < now + 1 /\ Until(s.outages[i], now) = now
        BY <2>1, <3>1 DEF Until
      <4>2. i = n /\ n > 0
        BY <1>1, <3>1 DEF SoundAt
      <4>3. s.status = "unhealthy"
        BY <3>1, <4>2 DEF SoundAt
      <4> QED BY <4>1, <4>3
    <3>2. CASE s.outages[i].end # Never
      BY <2>1, <3>2 DEF Until
    <3> QED BY <3>1, <3>2
  <2>2. ASSUME NEW i \in 1..n, j < Until(s.outages[i], now)
        PROVE  j < Until(s.outages[i], now + 1)
    <3>1. s.outages[i].end \in Int
      BY <1>1, NeverInt DEF Windows
    <3> QED BY <2>2, <3>1 DEF Until
  <2>3. ASSUME j = now, s.status = "unhealthy"
        PROVE  n \in 1..n /\ s.outages[n].start <= j /\ j < Until(s.outages[n], now + 1)
    <3>1. n > 0 /\ s.outages[n].end = Never
      BY <2>3 DEF SoundAt
    <3>2. n \in 1..n
      BY <1>1, <3>1
    <3>3. s.outages[n].start <= now
      BY <3>2 DEF SoundAt
    <3> QED BY <2>3, <3>1, <3>2, <3>3 DEF Until
  <2> HIDE DEF n
  <2> QED BY <2>1, <2>2, <2>3
<1>3. Covered(s, now + 1)
        = {j \in Nat : \E i \in 1..n : s.outages[i].start <= j
                                       /\ j < Until(s.outages[i], now + 1)}
  BY DEF Covered, CoveredUpto
<1>4. Covered(s, now)
        = {j \in Nat : \E i \in 1..n : s.outages[i].start <= j
                                       /\ j < Until(s.outages[i], now)}
  BY DEF Covered, CoveredUpto
<1> HIDE DEF n
<1> QED BY <1>2, <1>3, <1>4

\* What was observed of a target is what its outages cover.
Observed == \A t \in Targets : down[t] = Covered(state[t], now)

\* To note when targets were probed changes nothing of what the outages cover.
LEMMA GoOnObserved ==
    ASSUME NEW states \in [Targets -> States], NEW left, NEW round,
           GoOn(states, left, round), NEW t \in Targets
    PROVE  Covered(state'[t], now) = Covered(states[t], now)
<1>1. state'[t].outages = states[t].outages
  <2>1. ASSUME NEW x, state' = [states EXCEPT ![x].lastProbe = round]
        PROVE  state'[t].outages = states[t].outages
    BY <2>1 DEF States
  <2> QED BY <2>1 DEF GoOn
<1> QED BY <1>1 DEF Covered, CoveredUpto

\* No step opens, closes or forgets an outage but as the target's status changes.
LEMMA ObservedStep ==
    ASSUME Sound, Observed, [Next]_vars
    PROVE  Observed'
<1>1. now \in Nat /\ \A t \in Targets : state[t] \in States /\ SoundAt(state[t], now)
  BY DEF Sound
<1>2. ASSUME BeginRound PROVE Observed'
  <2>1. CASE stopping
    BY <1>2, <2>1 DEF BeginRound, Observed
  <2>2. CASE ~stopping
    <3>1. GoOn(state, targets, now) /\ now' = now /\ down' = down
      BY <1>2, <2>2 DEF BeginRound
    <3>2. \A t \in Targets : Covered(state'[t], now) = Covered(state[t], now)
      BY <3>1, GoOnObserved DEF Sound
    <3> QED BY <3>1, <3>2 DEF Observed
  <2> QED BY <2>1, <2>2
<1>3. ASSUME NEW ok \in BOOLEAN, ProbeEnds(ok) PROVE Observed'
  <2> DEFINE target == Head(loop.left)
             states == IF ok
                       THEN [t \in Targets |-> IF t \in ProbeReportsFor(target)
                                               THEN RecordedSuccess(state[t]) ELSE state[t]]
                       ELSE [state EXCEPT ![target] = RecordedFailure(@)]
  <2>1. ASSUME NEW t \in Targets
        PROVE  states[t] \in States /\ Covered(states[t], now) = Covered(state[t], now)
    <3>1. states[t] \in {state[t], RecordedSuccess(state[t]), RecordedFailure(state[t])}
      BY <2>1 DEF Sound
    <3> HIDE DEF states
    <3> QED BY <1>1, <3>1, SuccessSound, FailureSound, SuccessCovered, FailureCovered
  <2>2. states \in [Targets -> States]
    <3>1. DOMAIN states = Targets /\ states = [t \in Targets |-> states[t]]
      BY DEF Sound
    <3> HIDE DEF states
    <3> QED BY <2>1, <3>1
  <2>3. GoOn(states, Tail(loop.left), loop.round) /\ now' = now /\ down' = down
    BY <1>3 DEF ProbeEnds
  <2> HIDE DEF states
  <2>4. \A t \in Targets : Covered(state'[t], now) = Covered(states[t], now)
    BY <2>2, <2>3, GoOnObserved
  <2> QED BY <2>1, <2>3, <2>4 DEF Observed
<1>4. ASSUME NEW target \in Targets, NEW ok \in BOOLEAN, TurnReports(target, ok)
      PROVE  Observed'
  <2>1. \A t \in Targets :
            state'[t] \in {state[t], RecordedSuccess(state[t]), RecordedFailure(state[t])}
    BY <1>4 DEF TurnReports, Sound
  <2>2. \A t \in Targets : Covered(state'[t], now) = Covered(state[t], now)
    BY <1>1, <2>1, SuccessCovered, FailureCovered
  <2>3. now' = now /\ down' = down
    BY <1>4 DEF TurnReports
  <2> QED BY <2>2, <2>3 DEF Observed
<1>5. ASSUME Tick PROVE Observed'
  <2>1. now' = now + 1 /\ state' = state
        /\ \A t \in Targets :
                down'[t] = down[t] \cup {i \in {now} : state[t].status = "unhealthy"}
    BY <1>5 DEF Tick
  <2> QED BY <1>1, <2>1, TickCovered DEF Observed
<1>6. ASSUME Stop \/ ProbeNotBuilt \/ ReportRound \/ UNCHANGED vars PROVE Observed'
  BY <1>6 DEF Stop, ProbeNotBuilt, ReportRound, vars, Observed
<1> QED BY <1>2, <1>3, <1>4, <1>5, <1>6 DEF Next, LoopStep

\* Whatever the intervals, the cooldown and the order of probes, turns and the stop, what
\* the operators are told of outages, by the report of any window and by the warnings,
\* is all that happened and nothing else (outage_seconds_between, record_failure).
THEOREM ToldTheorem == Spec => []OutagesTold
<1>1. Init => Observed
  <2>1. ASSUME Init, NEW t \in Targets PROVE down[t] = {} /\ state[t].outages = <<>>
    BY <2>1 DEF Init
  <2> QED BY <2>1 DEF Observed, Covered, CoveredUpto
<1>2. Sound /\ Observed /\ [Next]_vars => Observed'
  BY ObservedStep
<1>3. ASSUME Sound, Observed PROVE ReportExact
  <2> SUFFICES ASSUME NEW t \in Targets, NEW start \in 0..now, NEW end \in start..now
               PROVE  OutageSeconds(state[t], start, end)
                        = Cardinality(down[t] \cap (start..(end - 1)))
    BY DEF ReportExact
  <2>1. start \in Nat /\ end \in Nat /\ now \in Nat /\ state[t] \in States
        /\ SoundAt(state[t], now)
    BY <1>3 DEF Sound
  <2>2. down[t] = Covered(state[t], now)
    BY <1>3 DEF Observed
  <2> QED BY <2>1, <2>2, SecondsAreCovered
<1>4. Sound => OutageWarned
  BY DEF Sound, SoundAt, OutageWarned, HasOpen
<1>5. Sound /\ Observed => OutagesTold
  BY <1>3, <1>4 DEF OutagesTold
<1> QED BY <1>1, <1>2, <1>5, SoundInit, SoundStep, PTL DEF Spec
=============================================================================
