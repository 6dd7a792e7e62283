------------------------------- MODULE TurnLock -------------------------------
(***************************************************************************)
(* What the coordinator promises the turns of a conversation: a lease. A   *)
(* turn acquires its conversation for PendingTtl, nobody else can acquire  *)
(* it meanwhile, and it is free again when its holder releases it or, once *)
(* the lease has run out, by a sweep. A holder that overstays keeps the    *)
(* lease until a sweep; one that lost it can take nothing from its         *)
(* successor.                                                              *)
(*                                                                         *)
(* `lock' maps the conversations in use to their leases, `holders' has the *)
(* leases callers were given, lost ones included.                          *)
(***************************************************************************)
EXTENDS Naturals

CONSTANTS Keys, Owners, PendingTtl

VARIABLES lock, holders, clock

vars == <<lock, holders, clock>>

Lease == [owner : Owners, until : Nat]

Init == lock = [k \in {} |-> k] /\ holders = {} /\ clock = 0

Live == {k \in DOMAIN lock : lock[k].until > clock}

\* The conversations whose leases have run out are free.
Sweep ==
    /\ lock' = [k \in Live |-> lock[k]]
    /\ UNCHANGED <<holders, clock>>

\* reserve_reply: an owner nobody was before gets a conversation that is free
\* after a sweep.
Acquire(k, o) ==
    /\ k \notin Live
    /\ \A h \in holders : h[2] # o
    /\ \A j \in DOMAIN lock : lock[j].owner # o
    /\ lock' = [j \in Live \cup {k} |->
                    IF j = k THEN [owner |-> o, until |-> clock + PendingTtl] ELSE lock[j]]
    /\ holders' = holders \cup {<<k, o>>}
    /\ UNCHANGED clock

\* commit_reply, abort_reply: the holder frees its conversation, run out or not.
Release(k, o) ==
    /\ <<k, o>> \in holders
    /\ k \in DOMAIN lock /\ lock[k].owner = o
    /\ lock' = [j \in DOMAIN lock \ {k} |-> lock[j]]
    /\ holders' = holders \ {<<k, o>>}
    /\ UNCHANGED clock

\* abort_reply after the lease was lost: reservation_not_found.
Lost(k, o) ==
    /\ <<k, o>> \in holders
    /\ k \in DOMAIN lock => lock[k].owner # o
    /\ holders' = holders \ {<<k, o>>}
    /\ UNCHANGED <<lock, clock>>

Tick == clock' = clock + 1 /\ UNCHANGED <<lock, holders>>

Next ==
    \/ Sweep
    \/ \E k \in Keys, o \in Owners : Acquire(k, o) \/ Release(k, o) \/ Lost(k, o)
    \/ Tick

Spec == Init /\ [][Next]_vars
=============================================================================
