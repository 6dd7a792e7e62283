------------------------------- MODULE Admission -------------------------------
(***************************************************************************)
(* How the server admits a request (server/main.py): the key, the body,    *)
(* the contract and the tenant, and for a direct conversation what its     *)
(* deployment needs and a handshake with the adapter. A request that fails *)
(* a check is answered with its status; the others become turns, and how   *)
(* a turn ends is mapped to a status.                                      *)
(*                                                                         *)
(* Checking a key, the health endpoint and the handshake take a thread of  *)
(* the server's pool. All direct requests share one client, whose lock is  *)
(* held while it asks for the adapter's capabilities; it keeps the first   *)
(* that pass. What may be wrong with a request, a deployment or the        *)
(* adapter's capabilities is a set of flaws.                               *)
(***************************************************************************)
EXTENDS Integers, Sequences, FiniteSets, FiniteSetsExt

CONSTANTS
    Posts,        \* requests
    NoPost,
    PoolThreads,  \* threads of the server's pool
    Deployments,  \* what may be missing in the settings
    Flaws,        \* what may be wrong with a request
    Adverts,      \* what may be wrong with the adapter's capabilities
    MaxAdverts    \* bound: how often the adapter changes them

ASSUME PostsAssumption == NoPost \notin Posts
ASSUME PoolAssumption == PoolThreads \in Nat \ {0}

\* What a deployment may lack, and what may be wrong with the capabilities: the flaws
\* adapter_capability_errors names, and scene_compatibility_errors for a direct conversation.
Requirements == {"api_key", "no_tenant", "dm", "audit_key", "adapter_key"}
CapabilityErrors == {"contract"}
SceneErrors == {"scene", "tenant"}

ASSUME DeploymentsAssumption == Deployments \subseteq SUBSET Requirements
ASSUME AdvertsAssumption == Adverts \subseteq SUBSET (CapabilityErrors \cup SceneErrors)

VARIABLES
    missing,      \* what the settings lack
    posts,        \* the requests
    inThread,     \* those that have a thread
    advert,       \* what is wrong with the capabilities the adapter advertises
    adverts,
    ready,        \* the capabilities the client keeps
    readyLock     \* the request whose thread holds the client's lock

admissionVars == <<missing, posts, inThread, advert, adverts, ready, readyLock>>

Paths == {"health", "group_reply", "direct_reply", "feedback"}
Unknown == {"unknown"}
Turn == {"group_reply", "direct_reply"}

NewPost == [path |-> "none", flaws |-> {}, at |-> "new", status |-> 0]

AdmissionInit ==
    /\ missing = Unknown
    /\ posts = [r \in Posts |-> NewPost]
    /\ inThread = {} /\ readyLock = NoPost
    /\ advert = {} /\ adverts = 0 /\ ready = Unknown

\* The settings come from the environment, which nothing changes while the process runs.
Deploy(lacks) ==
    /\ missing = Unknown
    /\ missing' = lacks
    /\ UNCHANGED <<posts, inThread, advert, adverts, ready, readyLock>>

\* The adapter is deployed anew.
Advertise(flaws) ==
    /\ missing # Unknown
    /\ adverts < MaxAdverts
    /\ adverts' = adverts + 1
    /\ advert' = flaws
    /\ UNCHANGED <<missing, posts, inThread, ready, readyLock>>

-----------------------------------------------------------------------------
(* The pool. *)

Waiting == {"key_waits", "health_waits", "handshake_waits"}
InPool == {"key", "health", "handshake", "locked"}
Started(at) == IF at = "key_waits" THEN "key" ELSE IF at = "health_waits" THEN "health"
               ELSE "handshake"

Goes(r, at) == posts' = [posts EXCEPT ![r].at = at]
Answers(r, status) ==
    posts' = [posts EXCEPT ![r] = [NewPost EXCEPT !.at = "answered", !.status = status]]

Post(r, path, flaws) ==
    /\ missing # Unknown
    /\ posts[r].at = "new"
    /\ posts' = [posts EXCEPT ![r] = [path |-> path, flaws |-> flaws, status |-> 0,
                    at |-> IF path = "health" THEN "health_waits" ELSE "key_waits"]]
    /\ UNCHANGED <<missing, inThread, advert, adverts, ready, readyLock>>

TakeThread(r) ==
    /\ posts[r].at \in Waiting
    /\ Cardinality(inThread) < PoolThreads
    /\ inThread' = inThread \cup {r}
    /\ Goes(r, Started(posts[r].at))
    /\ UNCHANGED <<missing, advert, adverts, ready, readyLock>>

LeaveThread(r) == inThread' = inThread \ {r}

\* health
Health(r) ==
    /\ posts[r].at = "health"
    /\ Answers(r, 200)
    /\ LeaveThread(r)
    /\ UNCHANGED <<missing, advert, adverts, ready, readyLock>>

\* require_api_key
CheckKey(r) ==
    /\ posts[r].at = "key"
    /\ LET status == IF "api_key" \in missing THEN 503
                     ELSE IF "key" \in posts[r].flaws THEN 401 ELSE 0
       IN IF status = 0 THEN Goes(r, "authorized") ELSE Answers(r, status)
    /\ LeaveThread(r)
    /\ UNCHANGED <<missing, advert, adverts, ready, readyLock>>

-----------------------------------------------------------------------------
(* The checks of reply and action_feedback. *)

\* The flaw each check looks for and the status it answers with, in their order.
RequestChecks == <<<<"body", 413>>, <<"contract", 422>>, <<"no_tenant", 503>>, <<"tenant", 403>>>>
DirectChecks == <<<<"dm", 503>>, <<"audit_key", 503>>, <<"adapter_key", 503>>>>

ChecksOf(path) == IF path = "direct_reply" THEN RequestChecks \o DirectChecks ELSE RequestChecks

Failing(r) ==
    LET checks == ChecksOf(posts[r].path) IN
    {i \in DOMAIN checks : checks[i][1] \in posts[r].flaws \cup missing}

\* (mutant) The adapter is asked before the settings are.
passed_request(r) == \A i \in Failing(r) : i > Len(RequestChecks)

Passed(r) == Failing(r) = {}

FirstRefusal(r) == ChecksOf(posts[r].path)[Min(Failing(r))][2]

Refuse(r) ==
    /\ posts[r].at = "authorized"
    /\ ~Passed(r)
    /\ Answers(r, FirstRefusal(r))
    /\ UNCHANGED <<missing, inThread, advert, adverts, ready, readyLock>>

Pass(r) ==
    /\ posts[r].at = "authorized"
    /\ Passed(r)
    /\ Goes(r, IF posts[r].path = "direct_reply" THEN "handshake_waits" ELSE "checked")
    /\ UNCHANGED <<missing, inThread, advert, adverts, ready, readyLock>>

\* The message's length is checked last, and the turn runs.
Run(r) ==
    /\ posts[r].at = "checked"
    /\ IF posts[r].path \in Turn /\ "length" \in posts[r].flaws
       THEN Answers(r, 413) ELSE Goes(r, "running")
    /\ UNCHANGED <<missing, inThread, advert, adverts, ready, readyLock>>

\* How a turn or a feedback ends, and the status that says so; anything else is a 500.
Endings(path) ==
    {<<"answered", 200>>, <<"coordinator", 409>>} \cup
    (IF path \in Turn THEN {<<"guardrail", 413>>, <<"contract", 502>>, <<"agent", 502>>,
                            <<"other", 500>>}
     ELSE {})

End(r) ==
    /\ posts[r].at = "running"
    /\ \E ending \in Endings(posts[r].path) : Answers(r, ending[2])
    /\ UNCHANGED <<missing, inThread, advert, adverts, ready, readyLock>>

-----------------------------------------------------------------------------
(* The handshake of a direct request (assert_scene_compatible, assert_ready). *)

\* What the thread ends with, of capabilities that the client keeps.
Compatible(r, capabilities) ==
    IF capabilities \cap SceneErrors = {} THEN Goes(r, "checked") ELSE Answers(r, 503)

\* The client has its capabilities, before the lock is taken or after.
KeptReady(r) ==
    /\ posts[r].at \in {"handshake", "locked"}
    /\ ready # Unknown
    /\ Compatible(r, ready)
    /\ LeaveThread(r)
    /\ readyLock' = IF readyLock = r THEN NoPost ELSE readyLock
    /\ UNCHANGED <<missing, advert, adverts, ready>>

TakeLock(r) ==
    /\ posts[r].at = "handshake"
    /\ ready = Unknown
    /\ readyLock = NoPost
    /\ readyLock' = r
    /\ Goes(r, "locked")
    /\ UNCHANGED <<missing, inThread, advert, adverts, ready>>

\* (mutant) What the adapter answers is kept, and checked afterwards.
keep_then_check(r) ==
    /\ posts[r].at = "locked"
    /\ ready = Unknown
    /\ ready' = advert
    /\ readyLock' = NoPost
    /\ IF advert \cap CapabilityErrors = {} THEN Compatible(r, advert) ELSE Answers(r, 503)
    /\ LeaveThread(r)
    /\ UNCHANGED <<missing, advert, adverts>>

\* The adapter answers; only capabilities that pass are kept.
AdapterAnswers(r) ==
    /\ posts[r].at = "locked"
    /\ ready = Unknown
    /\ IF advert \cap CapabilityErrors = {}
       THEN ready' = advert /\ Compatible(r, advert)
       ELSE Answers(r, 503) /\ UNCHANGED ready
    /\ readyLock' = NoPost
    /\ LeaveThread(r)
    /\ UNCHANGED <<missing, advert, adverts>>

\* (mutant) A failure leaves the lock taken.
fails_locked(r) ==
    /\ posts[r].at = "locked"
    /\ ready = Unknown
    /\ \E status \in {503, 500} : Answers(r, status)
    /\ LeaveThread(r)
    /\ UNCHANGED <<missing, advert, adverts, ready, readyLock>>

\* Or its call fails: with AdapterClientError, or as request_json does not expect.
AdapterFails(r) ==
    /\ posts[r].at = "locked"
    /\ ready = Unknown
    /\ \E status \in {503, 500} : Answers(r, status)
    /\ readyLock' = NoPost
    /\ LeaveThread(r)
    /\ UNCHANGED <<missing, advert, adverts, ready>>

-----------------------------------------------------------------------------
\* What goes on by itself once a request is there.
AdmissionStep ==
    \E r \in Posts :
        \/ TakeThread(r) \/ Health(r) \/ CheckKey(r)
        \/ Refuse(r) \/ Pass(r) \/ Run(r) \/ End(r)
        \/ KeptReady(r) \/ TakeLock(r) \/ AdapterAnswers(r) \/ AdapterFails(r)

AdmissionNext ==
    \/ \E lacks \in Deployments : Deploy(lacks)
    \/ \E flaws \in Adverts : Advertise(flaws)
    \/ \E r \in Posts, path \in Paths, flaws \in Flaws : Post(r, path, flaws)
    \/ AdmissionStep

AdmissionSpec == AdmissionInit /\ [][AdmissionNext]_admissionVars

-----------------------------------------------------------------------------
(* Properties. *)

\* A direct turn runs on a deployment that has all it needs and on capabilities that pass
\* every check, whoever asked for them and whatever the adapter advertised to others:
\* none that failed is kept, and none asked for while another request was asking is lost
\* (assert_ready's double check).
DirectTurnsAdmitted ==
    \A r \in Posts : posts[r].path = "direct_reply" /\ posts[r].at \in {"checked", "running"} =>
        /\ ready = {}
        /\ missing = {}

\* A thread of the pool is kept only by a request that is being worked on in it, and the
\* client's lock only by one that asks the adapter: however checks, handshakes and calls
\* end, those that wait for either get it (run_in_threadpool, assert_ready's lock).
PoolReturned ==
    /\ \A r \in Posts : r \in inThread <=> posts[r].at \in InPool
    /\ \A r \in Posts : readyLock = r <=> posts[r].at = "locked"
=============================================================================
