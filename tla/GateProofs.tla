------------------------------ MODULE GateProofs ------------------------------
(***************************************************************************)
(* Proofs about ProviderGate, for any calls, threads and bounds: captures  *)
(* exclude each other and leave nothing redirected, none lets what was     *)
(* written pass, and the gate is lost only by a call cancelled twice.      *)
(*                                                                         *)
(* The invariant ties a gate job to the stage of its call (Waits), the     *)
(* gate to the one call that was granted it (Owned), the streams to how    *)
(* far that call's capture got (Clean), and what was written to what the   *)
(* capture has in its pipes or has counted (Noticed).                      *)
(***************************************************************************)
EXTENDS ProviderGate, TLAPS

Captures ==
    [pipe : SUBSET {1, 2}, counted : SUBSET {1, 2}, child : BOOLEAN, recovered : BOOLEAN]

Results == {"none", "ok", "failed", "timeout", "cancelled", "refused", "violation"}

Typed ==
    /\ stage \in [Calls -> Stages]
    /\ cancels \in [Calls -> Nat]
    /\ body \in [Calls -> Results]
    /\ gate \in Calls \cup {NoCall}
    /\ streams \subseteq {1, 2}
    /\ capture \in Captures
    /\ wrote \subseteq Calls

Having == {"granted"} \cup Capturing
Gone(c) == stage[c] = "done" /\ cancels[c] > 1

Waits ==
    \A c \in Calls :
        /\ GateJob(c) \in queued => stage[c] = "waiting" /\ GateJob(c) \notin working
        /\ GateJob(c) \in working => stage[c] = "waiting" \/ Gone(c)

Owned ==
    \A c \in Calls :
        /\ stage[c] \in Having => gate = c
        /\ gate = c => stage[c] \in Having \/ Gone(c)

Clean ==
    /\ (\A c \in Calls : stage[c] \notin Capturing) => streams = {} /\ globals = "own"
    /\ \A c \in Calls :
        /\ stage[c] \in {"restored", "joining"} => streams = {}
        /\ stage[c] = "joining" => globals = "own"

Noticed ==
    \A c \in wrote :
        \/ stage[c] \in Capturing /\ capture.pipe \cup capture.counted # {}
        \/ stage[c] = "done" /\ body[c] \in {"violation", "refused"}

Inv == Typed /\ Waits /\ Owned /\ Clean /\ Noticed

LEMMA JobsDiffer ==
    /\ \A c, d : GateJob(c) = GateJob(d) => c = d
    /\ \A c, d : GateJob(c) # LookupJob(d) /\ GateJob(c) # AdapterJob(d)
    /\ \A c : GateJob(c).kind = "gate"
BY DEF GateJob, LookupJob, AdapterJob, Job

LEMMA InitInv == Init => Inv
BY CallsAssumption
   DEF Init, Inv, Typed, Waits, Owned, Clean, Noticed, Stages, Results, Captures, Fresh,
       Having, Gone, Capturing, Installing, Calling, Closing

LEMMA PoolInv ==
    ASSUME Inv, TakeJob \/ (\E j \in Jobs : Submit(j)) \/ (\E job \in working : JobEnds(job))
    PROVE  Inv'
<1>1. CASE TakeJob
  <2>1. Typed' /\ Owned' /\ Clean' /\ Noticed'
    BY <1>1 DEF TakeJob, Inv, Typed, Owned, Clean, Noticed, Gone, callVars, captureVars
  <2>2. Waits'
    BY <1>1 DEF TakeJob, Inv, Waits, Gone, callVars
  <2> QED BY <2>1, <2>2 DEF Inv
<1>2. ASSUME NEW j \in Jobs, Submit(j) PROVE Inv'
  <2>1. Typed' /\ Owned' /\ Clean' /\ Noticed'
    BY <1>2 DEF Submit, Inv, Typed, Owned, Clean, Noticed, Gone, callVars, captureVars
  <2>2. Waits'
    BY <1>2, JobsDiffer DEF Submit, Inv, Waits, Gone, callVars
  <2> QED BY <2>1, <2>2 DEF Inv
<1>3. ASSUME NEW job \in working, JobEnds(job) PROVE Inv'
  <2>1. \A c \in Calls : stage'[c] = stage[c] \/ (stage[c] \in Calling /\ stage'[c] \in Calling)
    BY <1>3 DEF JobEnds, Inv, Typed, Calling
  <2>2. stage' \in [Calls -> Stages]
    BY <1>3 DEF JobEnds, Inv, Typed, Stages, Capturing, Calling
  <2>3. /\ \A c \in Calls : stage'[c] \in Capturing <=> stage[c] \in Capturing
        /\ \A c \in Calls : stage'[c] \in Having <=> stage[c] \in Having
        /\ \A c \in Calls : stage'[c] = "done" <=> stage[c] = "done"
        /\ \A c \in Calls : stage'[c] = "waiting" <=> stage[c] = "waiting"
        /\ \A c \in Calls : stage'[c] = "joining" <=> stage[c] = "joining"
        /\ \A c \in Calls : stage'[c] = "restored" <=> stage[c] = "restored"
    BY <2>1 DEF Having, Capturing, Calling
  <2>4. Typed' /\ Owned' /\ Clean' /\ Noticed'
    BY <1>3, <2>2, <2>3
       DEF JobEnds, Inv, Typed, Owned, Clean, Noticed, Gone, captureVars
  <2>5. Waits'
    BY <1>3, <2>3 DEF JobEnds, Inv, Waits, Gone
  <2> QED BY <2>4, <2>5 DEF Inv
<1> QED BY <1>1, <1>2, <1>3

\* Which call is moved where decides most of the invariant: nobody but the call that has
\* the gate captures.
LEMMA Alone ==
    ASSUME Inv, NEW c \in Calls, stage[c] \in Having
    PROVE  gate = c /\ \A d \in Calls : d # c => stage[d] \notin Having
BY DEF Inv, Owned

LEMMA NoneCaptures ==
    ASSUME Inv, NEW c \in Calls, stage[c] = "granted" \/ gate = NoCall
    PROVE  /\ \A d \in Calls : stage[d] \notin Capturing
           /\ streams = {} /\ globals = "own"
BY CallsAssumption DEF Inv, Owned, Clean, Having, Capturing, Installing, Calling, Closing

\* A call enters the gate, or gives up on it: no stream is redirected before or after.
LEMMA WaitingInv ==
    ASSUME Inv, NEW c \in Calls,
           Start(c) \/ Acquire(c) \/ CancelWaiting(c) \/ CancelGranted(c) \/ GiveBack(c)
    PROVE  Inv'
<1> USE DEF Having, Capturing, Installing, Calling, Closing
<1>1. CASE Start(c)
  <2>1. Typed' /\ Owned' /\ Clean' /\ Noticed'
    BY <1>1 DEF Start, Inv, Typed, Owned, Clean, Noticed, Gone, captureVars, Stages
  <2>2. Waits'
    BY <1>1, JobsDiffer DEF Start, Inv, Typed, Waits, Gone
  <2> QED BY <2>1, <2>2 DEF Inv
<1>2. CASE Acquire(c)
  <2>1. \A d \in Calls : stage[d] \notin Having
    BY <1>2, CallsAssumption DEF Acquire, Inv, Owned
  <2>2. stage[c] = "waiting" \/ Gone(c)
    BY <1>2 DEF Acquire, Inv, Waits
  <2>3. Typed' /\ Owned' /\ Clean' /\ Noticed'
    BY <1>2, <2>1, <2>2
       DEF Acquire, Inv, Typed, Owned, Clean, Noticed, Gone, captureVars, Stages
  <2>4. Waits'
    BY <1>2, JobsDiffer DEF Acquire, Inv, Typed, Waits, Gone
  <2> QED BY <2>3, <2>4 DEF Inv
<1>3. CASE CancelWaiting(c)
  <2>1. CASE cancels[c] = 0
    BY <1>3, <2>1
       DEF CancelWaiting, Cancelled, Inv, Typed, Waits, Owned, Clean, Noticed, Gone, captureVars
  <2>2. CASE cancels[c] # 0
    <3>1. cancels'[c] > 1 /\ cancels' \in [Calls -> Nat]
      BY <1>3, <2>2 DEF CancelWaiting, Cancelled, Inv, Typed
    <3>2. \A d \in Calls : d # c => cancels'[d] = cancels[d]
      BY <1>3 DEF CancelWaiting, Cancelled, Inv, Typed
    <3>3. /\ stage[c] \in {"waiting", "granted"}
          /\ stage' = [stage EXCEPT ![c] = "done"] /\ body' = [body EXCEPT ![c] = "cancelled"]
          /\ UNCHANGED <<working, gate, streams, globals, capture, wrote>>
          /\ queued' = queued \ {GateJob(c)}
      BY <1>3, <2>2 DEF CancelWaiting, End, captureVars
    <3>4. Typed' /\ Clean' /\ Noticed'
      BY <3>1, <3>3 DEF Inv, Typed, Clean, Noticed, Stages, Results
    <3>5. Owned'
      BY <3>1, <3>2, <3>3 DEF Inv, Typed, Owned, Gone
    <3>6. Waits'
      BY <3>1, <3>2, <3>3, JobsDiffer DEF Inv, Typed, Waits, Owned, Gone
    <3> QED BY <3>4, <3>5, <3>6 DEF Inv
  <2> QED BY <2>1, <2>2
<1>4. ASSUME stage[c] = "granted", Withdraw(c), cancels' = cancels \/ Cancelled(c)
      PROVE  Inv'
  <2>1. /\ \A d \in Calls : d # c => cancels'[d] = cancels[d]
        /\ cancels' \in [Calls -> Nat]
    BY <1>4 DEF Cancelled, Inv, Typed
  <2>2. gate = c /\ \A d \in Calls : d # c => stage[d] \notin Having
    BY <1>4, Alone
  <2>3. Typed' /\ Owned' /\ Clean' /\ Noticed'
    BY <1>4, <2>1, <2>2, CallsAssumption
       DEF Withdraw, End, Inv, Typed, Owned, Clean, Noticed, Gone, captureVars, Stages, Results
  <2>4. Waits'
    BY <1>4, <2>1 DEF Withdraw, End, Inv, Typed, Waits, Gone, poolVars
  <2> QED BY <2>3, <2>4 DEF Inv
<1>5. CASE CancelGranted(c)
  BY <1>4, <1>5 DEF CancelGranted
<1>6. CASE GiveBack(c)
  BY <1>4, <1>6 DEF GiveBack
<1> QED BY <1>1, <1>2, <1>3, <1>5, <1>6

\* The capture of the call that has the gate is installed, or its installation undone.
LEMMA InstallingInv ==
    ASSUME Inv, NEW c \in Calls, Install(c) \/ Redirect(c) \/ InstallFails(c)
    PROVE  Inv'
<1> USE DEF Having, Capturing, Installing, Calling, Closing
<1>1. stage[c] \in Having /\ stage[c] \in {"granted", "installing", "redirecting"}
  BY DEF Install, Redirect, InstallFails
<1>2. gate = c /\ \A d \in Calls : d # c => stage[d] \notin Having
  BY <1>1, Alone
<1>3. CASE Install(c)
  <2>1. stage[c] = "granted" /\ streams = {} /\ c \notin wrote
    BY <1>3, NoneCaptures DEF Install, Inv, Noticed
  <2>2. Typed' /\ Owned' /\ Clean' /\ Noticed'
    BY <1>2, <1>3, <2>1
       DEF Install, Inv, Typed, Owned, Clean, Noticed, Gone, Stages, Fresh, Captures
  <2>3. Waits'
    BY <1>3, <2>1 DEF Install, Inv, Typed, Waits, Gone, poolVars
  <2> QED BY <2>2, <2>3 DEF Inv
<1>4. CASE Redirect(c)
  <2>1. Typed' /\ Owned' /\ Clean' /\ Noticed'
    BY <1>2, <1>4 DEF Redirect, Inv, Typed, Owned, Clean, Noticed, Gone, Stages
  <2>2. Waits'
    BY <1>4 DEF Redirect, Inv, Typed, Waits, Gone, poolVars
  <2> QED BY <2>1, <2>2 DEF Inv
<1>5. CASE InstallFails(c)
  <2>1. Typed' /\ Owned' /\ Clean' /\ Noticed'
    BY <1>1, <1>2, <1>5, CallsAssumption
       DEF InstallFails, End, Inv, Typed, Owned, Clean, Noticed, Gone, Stages, Results, Fresh,
           Captures
  <2>2. Waits'
    BY <1>1, <1>5 DEF InstallFails, End, Inv, Typed, Waits, Gone, poolVars
  <2> QED BY <2>1, <2>2 DEF Inv
<1> QED BY <1>3, <1>4, <1>5

\* The provider is called; the capture stays as it is.
LEMMA CallingInv ==
    ASSUME Inv, NEW c \in Calls,
           Lookup(c) \/ CancelCall(c)
             \/ (\E how \in {"ok", "failed", "timeout"} : ProviderEnds(c, how))
    PROVE  Inv'
<1> USE DEF Having, Capturing, Installing, Calling, Closing
<1>1. CASE Lookup(c)
  <2>1. gate = c /\ \A d \in Calls : d # c => stage[d] \notin Having
    BY <1>1, Alone DEF Lookup
  <2>2. Typed' /\ Owned' /\ Clean' /\ Noticed'
    BY <1>1, <2>1 DEF Lookup, Inv, Typed, Owned, Clean, Noticed, Gone, captureVars, Stages
  <2>3. Waits'
    BY <1>1, JobsDiffer DEF Lookup, Inv, Typed, Waits, Gone
  <2> QED BY <2>2, <2>3 DEF Inv
<1>2. ASSUME NEW how \in Results, stage[c] \in Calling, Leave(c, how),
             cancels' = cancels \/ Cancelled(c)
      PROVE  Inv'
  <2>1. gate = c /\ \A d \in Calls : d # c => stage[d] \notin Having
    BY <1>2, Alone
  <2>2. /\ \A d \in Calls : d # c => cancels'[d] = cancels[d]
        /\ cancels' \in [Calls -> Nat]
    BY <1>2 DEF Cancelled, Inv, Typed
  <2>3. Typed' /\ Owned' /\ Clean' /\ Noticed'
    BY <1>2, <2>1, <2>2
       DEF Leave, Inv, Typed, Owned, Clean, Noticed, Gone, captureVars, Stages
  <2>4. Waits'
    BY <1>2, <2>2, JobsDiffer DEF Leave, Inv, Typed, Waits, Gone
  <2> QED BY <2>3, <2>4 DEF Inv
<1>3. CASE CancelCall(c)
  BY <1>2, <1>3 DEF CancelCall, Results
<1>4. ASSUME NEW how \in {"ok", "failed", "timeout"}, ProviderEnds(c, how) PROVE Inv'
  BY <1>2, <1>4 DEF ProviderEnds, MayEnd, Results
<1> QED BY <1>1, <1>3, <1>4

\* Other code acts on the capture. What is redirected belongs to the one capture there is.
LEMMA OthersInv ==
    ASSUME Inv, Inherit \/ Rewire \/ (\E s \in {1, 2} : Write(s) \/ Drain(s))
    PROVE  Inv'
<1>1. CASE Inherit
  <2>1. capture' \in Captures /\ capture'.pipe = capture.pipe
        /\ capture'.counted = capture.counted
    BY <1>1 DEF Inherit, Inv, Typed, Captures
  <2> QED BY <1>1, <2>1
          DEF Inherit, Inv, Typed, Waits, Owned, Clean, Noticed, Gone, callVars, poolVars
<1>2. CASE Rewire
  <2>1. /\ ~(\A c \in Calls : stage[c] \notin Capturing)
        /\ \A c \in Calls : stage[c] # "joining"
    BY <1>2 DEF Rewire, Inv, Clean
  <2> QED BY <1>2, <2>1
          DEF Rewire, Inv, Typed, Waits, Owned, Clean, Noticed, Gone, callVars, poolVars
<1>3. ASSUME NEW s \in {1, 2}, Write(s) PROVE Inv'
  <2>1. PICK c \in Calls : stage[c] \in Capturing
    BY <1>3 DEF Write, Inv, Clean
  <2>2. gate = c
    BY <2>1, Alone DEF Having
  <2>3. /\ capture' \in Captures /\ s \in capture'.pipe
        /\ capture.pipe \subseteq capture'.pipe /\ capture'.counted = capture.counted
    BY <1>3 DEF Write, Inv, Typed, Captures
  <2>4. Noticed'
    BY <1>3, <2>1, <2>2, <2>3 DEF Write, Inv, Noticed, callVars
  <2>5. Typed' /\ Waits' /\ Owned' /\ Clean'
    BY <1>3, <2>2, <2>3 DEF Write, Inv, Typed, Waits, Owned, Clean, Gone, callVars, poolVars
  <2> QED BY <2>4, <2>5 DEF Inv
<1>4. ASSUME NEW s \in {1, 2}, Drain(s) PROVE Inv'
  <2>1. capture' \in Captures
        /\ capture'.pipe \cup capture'.counted = capture.pipe \cup capture.counted
    <3>1. /\ capture' \in Captures /\ capture'.pipe = capture.pipe \ {s}
          /\ capture'.counted = capture.counted \cup {s} /\ s \in capture.pipe
      BY <1>4 DEF Drain, Inv, Typed, Captures
    <3> QED BY <3>1, Zenon
  <2> QED BY <1>4, <2>1
          DEF Drain, Inv, Typed, Waits, Owned, Clean, Noticed, Gone, callVars, poolVars
<1> QED BY <1>1, <1>2, <1>3, <1>4

\* The capture is closed: its streams are restored before the gate is released.
LEMMA ClosingInv ==
    ASSUME Inv, NEW c \in Calls,
           \/ \E again \in BOOLEAN : Restore(c, again)
           \/ RestoreGlobals(c)
           \/ \E late \in BOOLEAN : Finish(c, late)
    PROVE  Inv'
<1> USE DEF Having, Capturing, Installing, Calling, Closing
<1>1. stage[c] \in Closing
  BY DEF Restore, RestoreGlobals, Finish
<1>2. gate = c /\ \A d \in Calls : d # c => stage[d] \notin Having
  BY <1>1, Alone
<1>3. ASSUME NEW again \in BOOLEAN, Restore(c, again) PROVE Inv'
  <2>1. capture' \in Captures /\ capture'.pipe = capture.pipe
        /\ capture'.counted = capture.counted
    BY <1>3 DEF Restore, Inv, Typed, Captures
  <2>2. Typed' /\ Owned' /\ Clean' /\ Noticed'
    BY <1>2, <1>3, <2>1 DEF Restore, Inv, Typed, Owned, Clean, Noticed, Gone, Stages
  <2>3. Waits'
    BY <1>3 DEF Restore, Inv, Typed, Waits, Gone, poolVars
  <2> QED BY <2>2, <2>3 DEF Inv
<1>4. CASE RestoreGlobals(c)
  <2>1. capture' \in Captures /\ capture'.pipe = capture.pipe
        /\ capture'.counted = capture.counted
    BY <1>4 DEF RestoreGlobals, Inv, Typed, Captures
  <2>2. Typed' /\ Owned' /\ Clean' /\ Noticed'
    BY <1>2, <1>4, <2>1 DEF RestoreGlobals, Inv, Typed, Owned, Clean, Noticed, Gone, Stages
  <2>3. Waits'
    BY <1>4 DEF RestoreGlobals, Inv, Typed, Waits, Gone, poolVars
  <2> QED BY <2>2, <2>3 DEF Inv
<1>5. ASSUME NEW late \in BOOLEAN, Finish(c, late) PROVE Inv'
  <2> DEFINE how == IF HasViolation(late) THEN "violation" ELSE body[c]
  <2>1. c \in wrote => how = "violation"
    BY <1>5 DEF Finish, Joined, HasViolation, Inv, Noticed
  <2>2. how \in Results
    BY <1>5 DEF Inv, Typed, Results
  <2>3. End(c, how) /\ stage[c] = "joining"
    BY <1>5 DEF Finish
  <2> HIDE DEF how
  <2>4. Typed' /\ Owned' /\ Clean' /\ Noticed'
    BY <1>2, <1>5, <2>1, <2>2, <2>3, CallsAssumption
       DEF Finish, End, Inv, Typed, Owned, Clean, Noticed, Gone, Stages, Fresh, Captures
  <2>5. Waits'
    BY <1>5, <2>3 DEF Finish, End, Inv, Typed, Waits, Gone, poolVars
  <2> QED BY <2>4, <2>5 DEF Inv
<1> QED BY <1>3, <1>4, <1>5

LEMMA InvInductive == Spec => []Inv
<1>1. Inv /\ [Next]_vars => Inv'
  <2> SUFFICES ASSUME Inv, [Next]_vars PROVE Inv'
    OBVIOUS
  <2>1. CASE LoopStep
    BY <2>1, WaitingInv, InstallingInv, CallingInv, ClosingInv DEF LoopStep
  <2>2. CASE ThreadStep
    BY <2>2, PoolInv, WaitingInv DEF ThreadStep
  <2>3. CASE Chance
    <3>1. ASSUME NEW c \in Calls, Exit(c) PROVE Inv'
      BY <3>1 DEF Exit, Inv, Typed, Waits, Owned, Clean, Noticed, Gone, callVars, poolVars,
                  captureVars
    <3> QED BY <2>3, <3>1, PoolInv, WaitingInv, InstallingInv, CallingInv, OthersInv,
               ClosingInv DEF Chance
  <2>4. CASE UNCHANGED vars
    BY <2>4 DEF vars, Inv, Typed, Waits, Owned, Clean, Noticed, Gone, callVars, poolVars,
                captureVars
  <2> QED BY <2>1, <2>2, <2>3, <2>4 DEF Next
<1> QED BY <1>1, InitInv, PTL DEF Spec

-----------------------------------------------------------------------------

\* Only the call that has the gate captures, and while none does the streams and the log
\* are the process's own (DirectProviderIoCaptureScopeV1).
THEOREM StreamsTheorem == Spec => []StreamsOwned
<1>1. Inv => StreamsOwned
  BY DEF Inv, Owned, Clean, StreamsOwned, Having
<1> QED BY <1>1, InvInductive, PTL

\* No call during whose capture something was written comes to an answer (_has_violation).
THEOREM FailsClosedTheorem == Spec => []FailsClosed
<1>1. Inv => FailsClosed
  BY DEF Inv, Noticed, FailsClosed, Capturing, Installing, Calling, Closing
<1> QED BY <1>1, InvInductive, PTL

\* The gate is lost only by a call cancelled twice while it waited for it
\* (_acquire_provider_gate).
THEOREM GateTheorem == Spec => []GateComesBack
<1>1. Inv => GateComesBack
  BY DEF Inv, Typed, Owned, Gone, GateComesBack, Having
<1> QED BY <1>1, InvInductive, PTL
=============================================================================
