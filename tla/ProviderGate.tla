----------------------------- MODULE ProviderGate -----------------------------
(***************************************************************************)
(* Calls of language models share the process's standard streams: for the *)
(* length of a call they are redirected into pipes, and a call during      *)
(* which anything is written fails. One lock, the gate, lets one call at a *)
(* time do so (runtime/prompts/direct_provider_io_capture.py); turns and   *)
(* health probes alike call under it.                                      *)
(*                                                                         *)
(* A coroutine waits for the gate through a job of the event loop's        *)
(* default executor, whose thread blocks on the lock. The same threads     *)
(* serve the adapter's calls and the look-up of host names. Which of the   *)
(* jobs that wait for a thread is taken next is left open, as is which     *)
(* blocked thread gets the lock.                                           *)
(*                                                                         *)
(* Installing and closing a capture is done by the event loop in one go:   *)
(* its steps are actions, but only other threads act between them.         *)
(***************************************************************************)
EXTENDS Integers, FiniteSets, FiniteSetsExt

CONSTANTS
    Calls,        \* calls of models
    Jobs,         \* calls of the adapter
    NoCall,
    Threads,      \* threads of the default executor
    MaxCancels,   \* bound: cancellations altogether
    MaxFaults     \* bound: failing system calls altogether

ASSUME CallsAssumption == NoCall \notin Calls

VARIABLES
    stage,        \* where each call is
    cancels,      \* how often each call was cancelled
    body,         \* how each call ended, as far as it did
    queued,       \* jobs that wait for a thread
    working,      \* jobs that have one
    submitted,    \* adapter calls made so far
    gate,         \* the call for which the lock was taken
    streams,      \* file descriptors that are redirected
    globals,      \* sys.stdout, sys.stderr, log handlers, filters and record factory
    capture,      \* the installed capture: its pipes and what it noticed
    wrote,        \* calls during whose capture something was written
    faults,       \* system calls that failed
    up            \* the process runs

callVars == <<stage, cancels, body>>
poolVars == <<queued, working, submitted>>
captureVars == <<streams, globals, capture, wrote>>
vars == <<callVars, poolVars, gate, captureVars, faults, up>>

Job(kind, of) == [kind |-> kind, of |-> of]
GateJob(c) == Job("gate", c)
LookupJob(c) == Job("lookup", c)
AdapterJob(j) == Job("adapter", j)
AllJobs == [kind : {"gate", "lookup"}, of : Calls] \cup [kind : {"adapter"}, of : Jobs]

\* The provider is being called; the loop is at work on the capture; either.
Calling == {"calling", "resolving", "answering"}
Installing == {"installing", "redirecting"}
Closing == {"closing", "restoring", "restored", "joining"}
Capturing == Installing \cup Calling \cup Closing
Stages == {"idle", "waiting", "granted", "done"} \cup Capturing

\* A new DirectProviderIoCaptureV1: its pipes are empty and it noticed nothing.
Fresh == [pipe |-> {}, counted |-> {}, child |-> FALSE, recovered |-> FALSE]

Init ==
    /\ stage = [c \in Calls |-> "idle"]
    /\ cancels = [c \in Calls |-> 0]
    /\ body = [c \in Calls |-> "none"]
    /\ queued = {} /\ working = {} /\ submitted = {}
    /\ gate = NoCall
    /\ streams = {} /\ globals = "own" /\ capture = Fresh /\ wrote = {}
    /\ faults = 0
    /\ up = TRUE

\* The event loop is not in the middle of installing or closing a capture.
LoopFree == \A c \in Calls : stage[c] \notin Installing \cup Closing

End(c, how) ==
    /\ stage' = [stage EXCEPT ![c] = "done"]
    /\ body' = [body EXCEPT ![c] = how]

-----------------------------------------------------------------------------
(* The executor. *)

TakeJob ==
    /\ Cardinality(working) < Threads
    /\ \E job \in queued :
        /\ queued' = queued \ {job}
        /\ working' = working \cup {job}
    /\ UNCHANGED <<callVars, submitted, gate, captureVars, faults, up>>

\* resolve_async and the adapter client's other calls
Submit(j) ==
    /\ LoopFree
    /\ j \notin submitted
    /\ submitted' = submitted \cup {j}
    /\ queued' = queued \cup {AdapterJob(j)}
    /\ UNCHANGED <<callVars, working, gate, captureVars, faults, up>>

\* A thread is done with an adapter call or a host name.
JobEnds(job) ==
    /\ job \in working
    /\ job.kind # "gate"
    /\ working' = working \ {job}
    /\ stage' = [c \in Calls |->
                    IF job = LookupJob(c) /\ stage[c] = "resolving"
                    THEN "answering" ELSE stage[c]]
    /\ UNCHANGED <<cancels, body, queued, submitted, gate, captureVars, faults, up>>

\* threading.Lock.acquire returns to the thread that blocks on it for c. The task that
\* awaits it hears of it unless it is gone.
Acquire(c) ==
    /\ GateJob(c) \in working
    /\ gate = NoCall
    /\ gate' = c
    /\ working' = working \ {GateJob(c)}
    /\ stage' = IF stage[c] = "waiting" THEN [stage EXCEPT ![c] = "granted"] ELSE stage
    /\ UNCHANGED <<cancels, body, queued, submitted, captureVars, faults, up>>

-----------------------------------------------------------------------------
(* The gate (_acquire_provider_gate). *)

Start(c) ==
    /\ LoopFree
    /\ stage[c] = "idle"
    /\ stage' = [stage EXCEPT ![c] = "waiting"]
    /\ queued' = queued \cup {GateJob(c)}
    /\ UNCHANGED <<cancels, body, working, submitted, gate, captureVars, faults, up>>

MayCancel == LoopFree /\ MapThenSumSet(LAMBDA c : cancels[c], Calls) < MaxCancels

Cancelled(c) == cancels' = [cancels EXCEPT ![c] = @ + 1]

\* (mutant) Nothing is done about the job of a call that is cancelled.
cancel_leaves_job(c) ==
    /\ MayCancel
    /\ stage[c] = "waiting"
    /\ Cancelled(c)
    /\ End(c, "cancelled")
    /\ UNCHANGED <<poolVars, gate, captureVars, faults, up>>

\* A call that waits for the gate is cancelled. The first time it goes on waiting, to
\* give the gate back; the second time it cancels what it waits for, which takes back a
\* job without a thread and does not reach one that has it.
CancelWaiting(c) ==
    /\ MayCancel
    /\ stage[c] = "waiting" \/ (stage[c] = "granted" /\ cancels[c] > 0)
    /\ Cancelled(c)
    /\ IF cancels[c] = 0
       THEN UNCHANGED <<stage, body, queued>>
       ELSE End(c, "cancelled") /\ queued' = queued \ {GateJob(c)}
    /\ UNCHANGED <<working, submitted, gate, captureVars, faults, up>>

\* It is cancelled when the gate is its own already, or got it after it was cancelled:
\* it gives the gate back.
Withdraw(c) ==
    /\ gate' = NoCall
    /\ End(c, "cancelled")
    /\ UNCHANGED <<poolVars, captureVars, faults, up>>

CancelGranted(c) ==
    /\ MayCancel
    /\ stage[c] = "granted" /\ cancels[c] = 0
    /\ Cancelled(c)
    /\ Withdraw(c)

GiveBack(c) ==
    /\ LoopFree
    /\ stage[c] = "granted" /\ cancels[c] > 0
    /\ Withdraw(c)
    /\ UNCHANGED cancels

-----------------------------------------------------------------------------
(* Installing a capture (install, __aenter__). *)

Fault == faults < MaxFaults /\ faults' = faults + 1

\* Descriptors, pipes and drainer threads are made, and log records redacted.
Install(c) ==
    /\ LoopFree
    /\ stage[c] = "granted"
    /\ cancels[c] = 0
    /\ stage' = [stage EXCEPT ![c] = "installing"]
    /\ globals' = "captured"
    /\ capture' = Fresh
    /\ UNCHANGED <<cancels, body, poolVars, gate, streams, wrote, faults, up>>

\* os.dup2 onto 1, then onto 2 with sys.stdout and sys.stderr.
Redirect(c) ==
    /\ stage[c] \in Installing
    /\ IF stage[c] = "installing"
       THEN streams' = {1} /\ stage' = [stage EXCEPT ![c] = "redirecting"]
       ELSE streams' = {1, 2} /\ stage' = [stage EXCEPT ![c] = "calling"]
    /\ UNCHANGED <<cancels, body, poolVars, gate, globals, capture, wrote, faults, up>>

\* (mutant) What was redirected before the failure stays so.
abort_keeps_streams(c) ==
    /\ \/ LoopFree /\ stage[c] = "granted" /\ cancels[c] = 0
       \/ stage[c] \in Installing
    /\ Fault
    /\ globals' = "own"
    /\ capture' = Fresh
    /\ gate' = NoCall
    /\ End(c, "refused")
    /\ UNCHANGED <<cancels, poolVars, streams, wrote, up>>

\* One of these steps fails: _abort_installation undoes what was done, and the gate is
\* released.
InstallFails(c) ==
    /\ \/ LoopFree /\ stage[c] = "granted" /\ cancels[c] = 0
       \/ stage[c] \in Installing
    /\ Fault
    /\ streams' = {}
    /\ globals' = "own"
    /\ capture' = Fresh
    /\ gate' = NoCall
    /\ End(c, "refused")
    /\ UNCHANGED <<cancels, poolVars, wrote, up>>

-----------------------------------------------------------------------------
(* The call of the provider (run_provider_call, run_direct_provider_text). *)

\* It looks its host up, in a thread of the executor.
Lookup(c) ==
    /\ LoopFree
    /\ stage[c] = "calling"
    /\ stage' = [stage EXCEPT ![c] = "resolving"]
    /\ queued' = queued \cup {LookupJob(c)}
    /\ UNCHANGED <<cancels, body, working, submitted, gate, captureVars, faults, up>>

\* (mutant) A call waits for its host's name as long as it takes.
may_end_resolved(c, how) == stage[c] \in {"calling", "answering"}

\* How a call may end: its timeout does not wait for a host's name.
MayEnd(c, how) ==
    stage[c] \in (IF how = "timeout" THEN Calling ELSE {"calling", "answering"})

\* The capture's scope is left with what the body came to.
Leave(c, how) ==
    /\ stage' = [stage EXCEPT ![c] = "closing"]
    /\ body' = [body EXCEPT ![c] = how]
    /\ queued' = queued \ {LookupJob(c)}
    /\ UNCHANGED <<working, submitted, gate, captureVars, faults, up>>

ProviderEnds(c, how) ==
    /\ LoopFree
    /\ MayEnd(c, how)
    /\ Leave(c, how)
    /\ UNCHANGED cancels

CancelCall(c) ==
    /\ MayCancel
    /\ stage[c] \in Calling
    /\ Cancelled(c)
    /\ Leave(c, "cancelled")

-----------------------------------------------------------------------------
(* What other code of the process does to a capture while it is installed. *)

\* Anybody writes to a standard stream: the provider's library, a log handler, the
\* server's access log, a thread that an earlier call left behind.
Write(s) ==
    /\ s \in streams \ capture.pipe
    /\ capture' = [capture EXCEPT !.pipe = @ \cup {s}]
    /\ wrote' = wrote \cup {gate}
    /\ UNCHANGED <<callVars, poolVars, gate, streams, globals, faults, up>>

\* The drainer of a stream reads what is in its pipe and counts it (_drain).
Drain(s) ==
    /\ s \in capture.pipe
    /\ capture' = [capture EXCEPT !.pipe = @ \ {s}, !.counted = @ \cup {s}]
    /\ UNCHANGED <<callVars, poolVars, gate, streams, globals, wrote, faults, up>>

\* A process started meanwhile inherits the redirected streams and keeps them open.
Inherit ==
    /\ streams # {}
    /\ ~capture.child
    /\ capture' = [capture EXCEPT !.child = TRUE]
    /\ UNCHANGED <<callVars, poolVars, gate, streams, globals, wrote, faults, up>>

\* Somebody sets sys.stdout, the log handlers or the record factory anew.
Rewire ==
    /\ globals = "captured"
    /\ globals' = "foreign"
    /\ UNCHANGED <<callVars, poolVars, gate, streams, capture, wrote, faults, up>>

-----------------------------------------------------------------------------
(* Closing a capture (close, __aexit__). *)

\* _restore_target, for 1 and then for 2; a first try that fails is noticed.
Restore(c, again) ==
    /\ stage[c] \in {"closing", "restoring"}
    /\ IF again THEN Fault ELSE UNCHANGED faults
    /\ capture' = [capture EXCEPT !.recovered = @ \/ again]
    /\ IF stage[c] = "closing"
       THEN streams' = {2} /\ stage' = [stage EXCEPT ![c] = "restoring"]
       ELSE streams' = {} /\ stage' = [stage EXCEPT ![c] = "restored"]
    /\ UNCHANGED <<cancels, body, poolVars, gate, globals, wrote, up>>

\* _fatal_exit: a stream can be restored neither from its saved descriptor nor from the
\* spare one, or the log cannot, while closing or undoing an installation.
Exit(c) ==
    /\ stage[c] \in Installing \cup {"closing", "restoring", "restored"}
    /\ Fault
    /\ up' = FALSE
    /\ UNCHANGED <<callVars, poolVars, gate, captureVars>>

\* _restore_process_globals
RestoreGlobals(c) ==
    /\ stage[c] = "restored"
    /\ capture' = [capture EXCEPT !.recovered = @ \/ globals = "foreign"]
    /\ globals' = "own"
    /\ stage' = [stage EXCEPT ![c] = "joining"]
    /\ UNCHANGED <<cancels, body, poolVars, gate, streams, wrote, faults, up>>

\* (mutant) Nobody waits for the drainers.
joined_at_once(late) == TRUE

\* _finish_drainer: both drainers came to the end of their pipes, or their time is over.
Joined(late) == late \/ (capture.pipe = {} /\ ~capture.child)

\* _has_violation
HasViolation(late) == late \/ capture.counted # {} \/ capture.recovered

\* A violation takes the place of what the body came to.
Finish(c, late) ==
    /\ stage[c] = "joining"
    /\ Joined(late)
    /\ End(c, IF HasViolation(late) THEN "violation" ELSE body[c])
    /\ gate' = NoCall
    /\ capture' = Fresh
    /\ UNCHANGED <<cancels, poolVars, streams, globals, wrote, faults, up>>

-----------------------------------------------------------------------------
\* What the event loop does when it can.
LoopStep ==
    \E c \in Calls :
        \/ GiveBack(c) \/ Install(c) \/ Redirect(c)
        \/ \E how \in {"ok", "failed", "timeout"} : ProviderEnds(c, how)
        \/ Restore(c, FALSE) \/ RestoreGlobals(c)
        \/ \E late \in BOOLEAN : Finish(c, late)

\* What the threads of the executor do.
ThreadStep ==
    \/ TakeJob
    \/ \E job \in working : JobEnds(job)
    \/ \E c \in Calls : Acquire(c)

\* What may happen or not.
Chance ==
    \/ \E j \in Jobs : Submit(j)
    \/ \E s \in {1, 2} : Write(s) \/ Drain(s)
    \/ Inherit \/ Rewire
    \/ \E c \in Calls :
        \/ Start(c) \/ Lookup(c) \/ CancelWaiting(c) \/ CancelGranted(c)
        \/ CancelCall(c) \/ InstallFails(c) \/ Restore(c, TRUE) \/ Exit(c)

Next == up /\ (LoopStep \/ ThreadStep \/ Chance)

Spec == Init /\ [][Next]_vars

\* The event loop runs what is ready and a provider's call times out; threads are
\* scheduled, and the adapter's calls and look-ups of names end.
FairSpec == Spec /\ WF_vars(up /\ LoopStep) /\ WF_vars(up /\ ThreadStep)

-----------------------------------------------------------------------------
(* Properties. *)

\* Only the call that has the gate captures, and while none does, both streams and the
\* log are the process's own, however installing and closing went
\* (DirectProviderIoCaptureScopeV1, _abort_installation).
StreamsOwned ==
    /\ \A c \in Calls : stage[c] \in Capturing => gate = c
    /\ (\A c \in Calls : stage[c] \notin Capturing) => streams = {} /\ globals = "own"

\* A call during whose capture something was written to a standard stream does not come
\* to anything else than a violation, by whoever it was written and however late it is
\* drained (_finish_drainer, _has_violation).
FailsClosed ==
    \A c \in wrote : stage[c] = "done" => body[c] \in {"violation", "refused"}

\* A gate that is taken belongs to a call that will release it, unless that call was
\* cancelled twice while it waited (_acquire_provider_gate).
GateComesBack ==
    gate # NoCall => stage[gate] \in {"granted"} \cup Capturing \/ cancels[gate] > 1

NotCancelledTwice == \A c \in Calls : cancels[c] <= 1

AtWork(j) == AdapterJob(j) \in queued \cup working

\* Waiting for the gate, for a thread and for a host's name comes to an end, even if the
\* calls that wait for the gate have all the threads and the one that has it needs
\* another; unless a call is cancelled twice or the process exits.
WaitsEnd ==
    []NotCancelledTwice =>
        /\ \A c \in Calls : stage[c] = "waiting" ~> (stage[c] = "done" \/ ~up)
        /\ \A j \in Jobs : AtWork(j) ~> (~AtWork(j) \/ ~up)
=============================================================================
