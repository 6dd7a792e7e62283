----------------------------- MODULE ServingProofs -----------------------------
(***************************************************************************)
(* Proofs about what a direct turn is admitted on (Admission) and what a   *)
(* candidate is told: of reports (AdapterReads), of the company            *)
(* (KnowledgeLookup) and of questions like the one asked (Recall), and     *)
(* what is answered from it (Grounding). For any number of requests,       *)
(* threads, targets, pages, lookups, documents, rows and facts, and        *)
(* whatever fails meanwhile.                                               *)
(***************************************************************************)
EXTENDS Admission, AdapterReads, KnowledgeLookup, Recall, Grounding, FiniteSetTheorems,
        SequenceTheorems, TLAPS

-----------------------------------------------------------------------------
(* What a direct turn runs on was established one await before another:    *)
(* the key by the first check, the settings by the later ones, and the     *)
(* capabilities by a handshake that this request or an earlier one made.   *)
(* The invariant says what each stage may rely on.                         *)

Stages == {"new", "answered", "authorized", "checked", "running"} \cup Waiting \cup InPool
PostRecords ==
    [path : Paths \cup {"none"}, flaws : Flaws \cup {{}}, at : Stages, status : Int]

Typed ==
    /\ posts \in [Posts -> PostRecords]
    /\ inThread \subseteq Posts
    /\ readyLock \in Posts \cup {NoPost}
    /\ missing \in (SUBSET Requirements) \cup {Unknown}
    /\ advert \in SUBSET (CapabilityErrors \cup SceneErrors)
    /\ ready \in (SUBSET SceneErrors) \cup {Unknown}

\* Where a request is that has shown its key, and where a direct one is whose settings
\* were found complete, and whose capabilities were.
HasKey == {"authorized", "handshake_waits", "handshake", "locked", "checked", "running"}
SettingsChecked == HasKey \ {"authorized"}
Admitted == {"checked", "running"}

Established ==
    \A r \in Posts :
        /\ posts[r].at # "new" => missing # Unknown
        /\ posts[r].at \in HasKey => "api_key" \notin missing
        /\ posts[r].path = "direct_reply" /\ posts[r].at \in SettingsChecked => missing = {}
        /\ posts[r].path = "direct_reply" /\ posts[r].at \in Admitted => ready = {}

Inv == Typed /\ PoolReturned /\ Established

-----------------------------------------------------------------------------
(* What moving and answering a request do. *)

LEMMA Moved ==
    ASSUME Typed, NEW r \in Posts, NEW at \in Stages, Goes(r, at)
    PROVE  /\ posts' \in [Posts -> PostRecords]
           /\ posts'[r].at = at /\ posts'[r].path = posts[r].path
           /\ \A q \in Posts : q # r => posts'[q] = posts[q]
BY DEF Typed, Goes, PostRecords

LEMMA AnswersMove ==
    ASSUME Typed, NEW r \in Posts, NEW status \in Int, Answers(r, status)
    PROVE  /\ posts' \in [Posts -> PostRecords]
           /\ posts'[r].at = "answered" /\ posts'[r].path = "none"
           /\ \A q \in Posts : q # r => posts'[q] = posts[q]
BY DEF Typed, Answers, PostRecords, NewPost, Stages

\* A direct request that passed its checks runs on settings that lack nothing.
LEMMA PassedComplete ==
    ASSUME NEW r \in Posts, posts[r].path = "direct_reply", Passed(r),
           missing \in SUBSET Requirements, "api_key" \notin missing
    PROVE  missing = {}
<1> DEFINE checks == RequestChecks \o DirectChecks
<1>1. /\ DOMAIN checks = 1..7
      /\ checks[3][1] = "no_tenant" /\ checks[5][1] = "dm"
      /\ checks[6][1] = "audit_key" /\ checks[7][1] = "adapter_key"
  BY DEF RequestChecks, DirectChecks
<1>2. \A i \in 1..7 : checks[i][1] \notin missing
  BY <1>1 DEF Passed, Failing, ChecksOf
<1>3. /\ "no_tenant" \notin missing /\ "dm" \notin missing
      /\ "audit_key" \notin missing /\ "adapter_key" \notin missing
  <2>1. 3 \in 1..7 /\ 5 \in 1..7 /\ 6 \in 1..7 /\ 7 \in 1..7
    OBVIOUS
  <2> HIDE DEF checks
  <2> QED BY <1>1, <1>2, <2>1, Zenon
<1> HIDE DEF checks
<1> QED BY <1>3 DEF Requirements

\* What a refused request is answered with is a status.
LEMMA RefusalIsStatus ==
    ASSUME NEW r \in Posts, ~Passed(r)
    PROVE  FirstRefusal(r) \in Int
<1> DEFINE checks == ChecksOf(posts[r].path)
<1>1. /\ DOMAIN checks \in {1..4, 1..7}
      /\ \A i \in DOMAIN checks : checks[i][2] \in Int
  BY DEF ChecksOf, RequestChecks, DirectChecks
<1>2. Failing(r) \subseteq DOMAIN checks /\ Failing(r) # {}
  BY DEF Failing, Passed
<1>3. Failing(r) \subseteq 1..7
  BY <1>1, <1>2
<1>4. \E x \in Failing(r) : \A y \in Failing(r) : x <= y
  BY <1>2, <1>3
<1>5. Min(Failing(r)) \in DOMAIN checks
  BY <1>2, <1>4 DEF Min
<1> QED BY <1>1, <1>5 DEF FirstRefusal

-----------------------------------------------------------------------------
LEMMA InvInit == AdmissionInit => Inv
BY PostsAssumption
DEF AdmissionInit, Inv, Typed, PoolReturned, Established, NewPost, PostRecords, Stages, InPool,
    Waiting, HasKey, SettingsChecked, Admitted, Unknown

\* What a request's own stage is before a step and after it decides the rest: the pool ...
LEMMA PoolStep ==
    ASSUME Inv, NEW r \in Posts, posts' \in [Posts -> PostRecords],
           \A q \in Posts : q # r => posts'[q] = posts[q],
           \/ inThread' = inThread /\ (posts[r].at \in InPool <=> posts'[r].at \in InPool)
           \/ inThread' = inThread \ {r} /\ posts'[r].at \notin InPool
           \/ inThread' = inThread \cup {r} /\ posts'[r].at \in InPool,
           \/ readyLock' = readyLock /\ posts[r].at # "locked" /\ posts'[r].at # "locked"
           \/ readyLock' = NoPost /\ readyLock = r /\ posts'[r].at # "locked"
           \/ readyLock' = r /\ readyLock = NoPost /\ posts'[r].at = "locked"
    PROVE  /\ PoolReturned'
           /\ inThread' \subseteq Posts
           /\ readyLock' \in Posts \cup {NoPost}
BY PostsAssumption DEF Inv, Typed, PoolReturned

\* ... and what was established.
LEMMA EstablishedStep ==
    ASSUME Inv, NEW r \in Posts, UNCHANGED missing,
           ready = Unknown \/ UNCHANGED ready,
           \A q \in Posts : q # r => posts'[q] = posts[q],
           missing # Unknown,
           posts'[r].at \in HasKey => "api_key" \notin missing,
           posts'[r].path = "direct_reply" /\ posts'[r].at \in SettingsChecked => missing = {},
           posts'[r].path = "direct_reply" /\ posts'[r].at \in Admitted => ready' = {}
    PROVE  Established'
<1>1. Unknown # {}
  BY DEF Unknown
<1> QED BY <1>1 DEF Inv, Established

LEMMA AdmissionStepInv ==
    ASSUME Inv, NEW r \in Posts,
           \/ TakeThread(r) \/ Health(r) \/ CheckKey(r)
           \/ Refuse(r) \/ Pass(r) \/ Run(r) \/ End(r)
           \/ KeptReady(r) \/ TakeLock(r) \/ AdapterAnswers(r) \/ AdapterFails(r)
    PROVE  Inv'
<1> USE DEF Stages, InPool, Waiting, HasKey, SettingsChecked, Admitted
<1>0. /\ missing = Unknown \/ missing \in SUBSET Requirements
      /\ Unknown # {} /\ "unknown" \notin Requirements
      /\ posts[r].at = "locked" => readyLock = r
      /\ posts[r].at # "locked" => readyLock # r
      /\ posts[r].at # "new" => missing # Unknown /\ missing \in SUBSET Requirements
      /\ Typed
  BY DEF Inv, Typed, Established, PoolReturned, Unknown, Requirements
<1>1. CASE TakeThread(r)
  <2>1. Started(posts[r].at) \in {"key", "health", "handshake"}
        /\ (Started(posts[r].at) = "handshake" => posts[r].at = "handshake_waits")
    BY <1>1 DEF TakeThread, Started
  <2>2. /\ posts' \in [Posts -> PostRecords]
        /\ posts'[r].at = Started(posts[r].at) /\ posts'[r].path = posts[r].path
        /\ \A q \in Posts : q # r => posts'[q] = posts[q]
    BY <1>0, <1>1, <2>1, Moved DEF TakeThread
  <2>3. PoolReturned' /\ inThread' \subseteq Posts /\ readyLock' \in Posts \cup {NoPost}
    BY <1>1, <2>1, <2>2, PoolStep DEF TakeThread
  <2>4. Established'
    BY <1>0, <1>1, <2>1, <2>2, EstablishedStep DEF TakeThread, Inv, Established
  <2> QED BY <1>1, <2>2, <2>3, <2>4 DEF TakeThread, Inv, Typed
<1>2. CASE Health(r)
  <2>1. /\ posts' \in [Posts -> PostRecords]
        /\ posts'[r].at = "answered" /\ posts'[r].path = "none"
        /\ \A q \in Posts : q # r => posts'[q] = posts[q]
    BY <1>0, <1>2, AnswersMove DEF Health
  <2>2. PoolReturned' /\ inThread' \subseteq Posts /\ readyLock' \in Posts \cup {NoPost}
    BY <1>2, <2>1, PoolStep DEF Health, LeaveThread
  <2>3. Established'
    BY <1>0, <1>2, <2>1, EstablishedStep DEF Health
  <2> QED BY <1>2, <2>1, <2>2, <2>3 DEF Health, Inv, Typed
<1>3. CASE CheckKey(r)
  <2>1. \/ /\ Goes(r, "authorized") /\ "api_key" \notin missing
        \/ \E status \in Int : Answers(r, status)
    BY <1>3 DEF CheckKey
  <2>2. /\ posts' \in [Posts -> PostRecords]
        /\ \/ posts'[r].at = "authorized" /\ "api_key" \notin missing
           \/ posts'[r].at = "answered" /\ posts'[r].path = "none"
        /\ \A q \in Posts : q # r => posts'[q] = posts[q]
    BY <1>0, <2>1, Moved, AnswersMove
  <2>3. PoolReturned' /\ inThread' \subseteq Posts /\ readyLock' \in Posts \cup {NoPost}
    BY <1>3, <2>2, PoolStep DEF CheckKey, LeaveThread
  <2>4. Established'
    BY <1>0, <1>3, <2>2, EstablishedStep DEF CheckKey
  <2> QED BY <1>3, <2>2, <2>3, <2>4 DEF CheckKey, Inv, Typed
<1>4. CASE Refuse(r)
  <2>1. FirstRefusal(r) \in Int
    BY <1>4, RefusalIsStatus DEF Refuse
  <2>2. /\ posts' \in [Posts -> PostRecords]
        /\ posts'[r].at = "answered" /\ posts'[r].path = "none"
        /\ \A q \in Posts : q # r => posts'[q] = posts[q]
    BY <1>0, <1>4, <2>1, AnswersMove DEF Refuse
  <2>3. PoolReturned' /\ inThread' \subseteq Posts /\ readyLock' \in Posts \cup {NoPost}
    BY <1>4, <2>2, PoolStep DEF Refuse
  <2>4. Established'
    BY <1>0, <1>4, <2>2, EstablishedStep DEF Refuse
  <2> QED BY <1>4, <2>2, <2>3, <2>4 DEF Refuse, Inv, Typed
<1>5. CASE Pass(r)
  <2>1. /\ posts' \in [Posts -> PostRecords]
        /\ posts'[r].at = (IF posts[r].path = "direct_reply" THEN "handshake_waits" ELSE "checked")
        /\ posts'[r].path = posts[r].path
        /\ \A q \in Posts : q # r => posts'[q] = posts[q]
    BY <1>0, <1>5, Moved DEF Pass
  <2>2. "api_key" \notin missing
    BY <1>5 DEF Pass, Inv, Established
  <2>3. posts[r].path = "direct_reply" => missing = {}
    BY <1>0, <1>5, <2>2, PassedComplete DEF Pass
  <2>4. PoolReturned' /\ inThread' \subseteq Posts /\ readyLock' \in Posts \cup {NoPost}
    BY <1>5, <2>1, PoolStep DEF Pass
  <2>5. Established'
    BY <1>0, <1>5, <2>1, <2>2, <2>3, EstablishedStep DEF Pass
  <2> QED BY <1>5, <2>1, <2>4, <2>5 DEF Pass, Inv, Typed
<1>6. CASE Run(r)
  <2>1. /\ posts' \in [Posts -> PostRecords]
        /\ \/ posts'[r].at = "running" /\ posts'[r].path = posts[r].path
           \/ posts'[r].at = "answered" /\ posts'[r].path = "none"
        /\ \A q \in Posts : q # r => posts'[q] = posts[q]
    BY <1>0, <1>6, Moved, AnswersMove DEF Run
  <2>2. PoolReturned' /\ inThread' \subseteq Posts /\ readyLock' \in Posts \cup {NoPost}
    BY <1>6, <2>1, PoolStep DEF Run
  <2>3. Established'
    BY <1>0, <1>6, <2>1, EstablishedStep DEF Run, Inv, Established
  <2> QED BY <1>6, <2>1, <2>2, <2>3 DEF Run, Inv, Typed
<1>7. CASE End(r)
  <2>1. \E status \in Int : Answers(r, status)
    BY <1>7 DEF End, Endings
  <2>2. /\ posts' \in [Posts -> PostRecords]
        /\ posts'[r].at = "answered" /\ posts'[r].path = "none"
        /\ \A q \in Posts : q # r => posts'[q] = posts[q]
    BY <1>0, <2>1, AnswersMove
  <2>3. PoolReturned' /\ inThread' \subseteq Posts /\ readyLock' \in Posts \cup {NoPost}
    BY <1>7, <2>2, PoolStep DEF End
  <2>4. Established'
    BY <1>0, <1>7, <2>2, EstablishedStep DEF End
  <2> QED BY <1>7, <2>2, <2>3, <2>4 DEF End, Inv, Typed
<1>8. CASE KeptReady(r)
  <2>1. /\ posts' \in [Posts -> PostRecords]
        /\ \/ posts'[r].at = "checked" /\ posts'[r].path = posts[r].path
              /\ ready \cap SceneErrors = {}
           \/ posts'[r].at = "answered" /\ posts'[r].path = "none"
        /\ \A q \in Posts : q # r => posts'[q] = posts[q]
    BY <1>0, <1>8, Moved, AnswersMove DEF KeptReady, Compatible
  <2>2. PoolReturned' /\ inThread' \subseteq Posts /\ readyLock' \in Posts \cup {NoPost}
    BY <1>0, <1>8, <2>1, PoolStep DEF KeptReady, LeaveThread
  <2>3. ready \cap SceneErrors = {} => ready = {}
    BY <1>0, <1>8 DEF KeptReady, Typed
  <2>4. Established'
    BY <1>0, <1>8, <2>1, <2>3, EstablishedStep DEF KeptReady, Inv, Established
  <2> QED BY <1>8, <2>1, <2>2, <2>4 DEF KeptReady, Inv, Typed
<1>9. CASE TakeLock(r)
  <2>1. /\ posts' \in [Posts -> PostRecords]
        /\ posts'[r].at = "locked" /\ posts'[r].path = posts[r].path
        /\ \A q \in Posts : q # r => posts'[q] = posts[q]
    BY <1>0, <1>9, Moved DEF TakeLock
  <2>2. PoolReturned' /\ inThread' \subseteq Posts /\ readyLock' \in Posts \cup {NoPost}
    BY <1>9, <2>1, PoolStep DEF TakeLock
  <2>3. Established'
    BY <1>0, <1>9, <2>1, EstablishedStep DEF TakeLock, Inv, Established
  <2> QED BY <1>9, <2>1, <2>2, <2>3 DEF TakeLock, Inv, Typed
<1>10. CASE AdapterAnswers(r)
  <2>1. /\ posts' \in [Posts -> PostRecords]
        /\ \/ posts'[r].at = "checked" /\ posts'[r].path = posts[r].path
              /\ advert = {} /\ ready' = advert
           \/ posts'[r].at = "answered" /\ posts'[r].path = "none"
        /\ \A q \in Posts : q # r => posts'[q] = posts[q]
    BY <1>0, <1>10, Moved, AnswersMove DEF AdapterAnswers, Compatible, Typed
  <2>2. ready' \in (SUBSET SceneErrors) \cup {Unknown}
    BY <1>0, <1>10 DEF AdapterAnswers, Typed
  <2>3. PoolReturned' /\ inThread' \subseteq Posts /\ readyLock' \in Posts \cup {NoPost}
    BY <1>0, <1>10, <2>1, PoolStep DEF AdapterAnswers, LeaveThread
  <2>4. Established'
    BY <1>0, <1>10, <2>1, EstablishedStep DEF AdapterAnswers, Inv, Established
  <2> QED BY <1>10, <2>1, <2>2, <2>3, <2>4 DEF AdapterAnswers, Inv, Typed
<1>11. CASE AdapterFails(r)
  <2>1. \E status \in Int : Answers(r, status)
    BY <1>11 DEF AdapterFails
  <2>2. /\ posts' \in [Posts -> PostRecords]
        /\ posts'[r].at = "answered" /\ posts'[r].path = "none"
        /\ \A q \in Posts : q # r => posts'[q] = posts[q]
    BY <1>0, <2>1, AnswersMove
  <2>3. PoolReturned' /\ inThread' \subseteq Posts /\ readyLock' \in Posts \cup {NoPost}
    BY <1>0, <1>11, <2>2, PoolStep DEF AdapterFails, LeaveThread
  <2>4. Established'
    BY <1>0, <1>11, <2>2, EstablishedStep DEF AdapterFails
  <2> QED BY <1>11, <2>2, <2>3, <2>4 DEF AdapterFails, Inv, Typed
<1> QED BY <1>1, <1>2, <1>3, <1>4, <1>5, <1>6, <1>7, <1>8, <1>9, <1>10, <1>11

LEMMA InvStep == Inv /\ [AdmissionNext]_admissionVars => Inv'
<1> SUFFICES ASSUME Inv, [AdmissionNext]_admissionVars PROVE Inv'
  OBVIOUS
<1>1. ASSUME NEW lacks \in Deployments, Deploy(lacks) PROVE Inv'
  <2>1. \A r \in Posts : posts[r].at = "new"
    BY <1>1 DEF Inv, Established, Deploy
  <2>2. lacks \in SUBSET Requirements
    BY DeploymentsAssumption
  <2> QED
    BY <1>1, <2>1, <2>2
    DEF Inv, Typed, Established, PoolReturned, Deploy, HasKey, SettingsChecked, Admitted
<1>2. ASSUME NEW flaws \in Adverts, Advertise(flaws) PROVE Inv'
  BY <1>2, AdvertsAssumption DEF Inv, Typed, Established, PoolReturned, Advertise
<1>3. ASSUME NEW r \in Posts, NEW path \in Paths, NEW flaws \in Flaws, Post(r, path, flaws)
      PROVE  Inv'
  <2>1. /\ posts' \in [Posts -> PostRecords]
        /\ posts'[r].at \in {"health_waits", "key_waits"}
        /\ \A q \in Posts : q # r => posts'[q] = posts[q]
    BY <1>3 DEF Post, Inv, Typed, PostRecords, Stages, Waiting
  <2>2. PoolReturned' /\ inThread' \subseteq Posts /\ readyLock' \in Posts \cup {NoPost}
    BY <1>3, <2>1, PoolStep DEF Post, InPool
  <2>3. Established'
    BY <1>3, <2>1, EstablishedStep DEF Post, HasKey, SettingsChecked, Admitted
  <2> QED BY <1>3, <2>1, <2>2, <2>3 DEF Post, Inv, Typed
<1>4. CASE AdmissionStep
  BY <1>4, AdmissionStepInv DEF AdmissionStep
<1>5. CASE UNCHANGED admissionVars
  BY <1>5 DEF admissionVars, Inv, Typed, Established, PoolReturned
<1> QED BY <1>1, <1>2, <1>3, <1>4, <1>5 DEF AdmissionNext

-----------------------------------------------------------------------------
\* For any number of requests, and whatever the adapter advertised to each of them, a direct
\* turn runs only on settings that lack nothing and capabilities that pass every check
\* (reply, assert_ready, assert_scene_compatible).
THEOREM DirectTheorem == AdmissionSpec => []DirectTurnsAdmitted
<1>1. Inv => DirectTurnsAdmitted
  BY DEF Inv, Established, DirectTurnsAdmitted, HasKey, SettingsChecked, Admitted
<1> QED BY <1>1, InvInit, InvStep, PTL DEF AdmissionSpec

\* However checks, handshakes and the adapter's calls end, the threads of the pool and the
\* client's lock belong to requests that are being worked on with them (run_in_threadpool,
\* assert_ready's lock).
THEOREM PoolTheorem == AdmissionSpec => []PoolReturned
<1>1. Inv => PoolReturned
  BY DEF Inv
<1> QED BY <1>1, InvInit, InvStep, PTL DEF AdmissionSpec
-----------------------------------------------------------------------------
(* What a turn is told of reports. A target keeps the period it was bound  *)
(* to by the preflight, and while its pages are read what has been read is *)
(* of the beginning of the report unless that was published anew: in its   *)
(* order, and no further from its place than there are products missing.   *)

Products == Periods \X Nat

\* A fact answers the target of a command.
AnswersTo(f, i) ==
    /\ f.target = i
    /\ f.type \in {"unavailable"} \cup
          (IF targets[i].command = "list_products" THEN {"products"} ELSE {targets[i].command})

Answered(i) == \E f \in facts : AnswersTo(f, i)

\* What is said of a target that is bound to a period is true of it.
FactSound(f) ==
    targets[f.target].period # NoPeriod =>
        /\ f.period = targets[f.target].period
        /\ \A k \in DOMAIN f.products : f.products[k][1] = f.period
        /\ f.type = "products" /\ f.steady =>
              /\ InOrder(f)
              /\ f.whole => f.products = Beginning(f.period, Expected(f.total))
              /\ f.full <=> f.products = Beginning(f.period, f.total)

\* How many products the pages before the next one have.
ReadSoFar(read) ==
    IF (read.next - 1) * PageSize < read.total THEN (read.next - 1) * PageSize ELSE read.total

\* Products of the first n of a report, in order: none stands further from its place than
\* there are products missing.
InPlace(products, p, n) ==
    /\ Len(products) <= n
    /\ \A k \in DOMAIN products :
        /\ products[k][1] = p
        /\ k <= products[k][2] /\ products[k][2] <= n
        /\ products[k][2] - k <= n - Len(products)
    /\ \A j, k \in DOMAIN products : j < k => products[j][2] < products[k][2]

\* What has been read of a list.
PageSound(i, read) ==
    /\ {"next", "products", "whole"} \subseteq DOMAIN read
    /\ read.next \in Nat /\ read.total \in Nat /\ read.version \in Nat
    /\ read.next = 2 \/ (read.next > 2 /\ read.next - 1 <= LastPage(read.total))
    /\ read.period \in Periods /\ read.products \in Seq(Products)
    /\ read.version <= published[read.period]
    /\ targets[i].period # NoPeriod =>
        /\ read.period = targets[i].period
        /\ \A k \in DOMAIN read.products : read.products[k][1] = read.period
        /\ published[read.period] = read.version =>
              /\ reports[read.period] = read.total
              /\ InPlace(read.products, read.period, ReadSoFar(read))
              /\ read.whole => Len(read.products) = ReadSoFar(read)

Reading ==
    /\ reports \in [Periods -> Nat] /\ published \in [Periods -> Nat]
    /\ targets \in Seq([command : Commands, period : Periods \cup {NoPeriod}])
    /\ \A f \in facts : FactSound(f)
    /\ readsAt.stage \in {"preflight", "handshake"} => facts = {}
    /\ readsAt.stage = "read" => \A i \in DOMAIN targets : Answered(i)
    /\ readsAt.stage \in TargetCalls =>
        /\ readsAt.target \in DOMAIN targets
        /\ \A i \in 1..(readsAt.target - 1) : Answered(i)
    /\ readsAt.stage = "match" => targets[readsAt.target].command = "match"
    /\ readsAt.stage \in {"list_products", "later_page"} =>
        targets[readsAt.target].command = "list_products"
    /\ readsAt.stage = "later_page" =>
        PageSound(readsAt.target, page) /\ page.next <= LastPage(page.total)

\* The last page is the one that reaches the products expected.
LEMMA Pages ==
    ASSUME NEW total \in Nat
    PROVE  /\ LastPage(total) \in Nat /\ Expected(total) \in Nat
           /\ LastPage(total) * PageSize >= Expected(total)
           /\ LastPage(total) * PageSize <= Expected(total) + PageSize - 1
<1>1. Expected(total) \in Nat
  BY PageAssumption DEF Expected
<1>2. ASSUME NEW e \in Nat
      PROVE  /\ (e + PageSize - 1) \div PageSize \in Nat
             /\ ((e + PageSize - 1) \div PageSize) * PageSize >= e
             /\ ((e + PageSize - 1) \div PageSize) * PageSize <= e + PageSize - 1
  BY PageAssumption
<1> QED BY <1>1, <1>2 DEF LastPage

\* The maximum is a number of whole pages.
LEMMA WholePages ==
    ASSUME NEW total \in Nat, total >= MaxProducts
    PROVE  LastPage(total) * PageSize = MaxProducts /\ LastPage(total) >= 1
<1> DEFINE n == LastPage(total)
           q == MaxProducts \div PageSize
<1>1. Expected(total) = MaxProducts
  BY PageAssumption DEF Expected
<1>2. n \in Nat /\ n * PageSize >= MaxProducts /\ n * PageSize <= MaxProducts + PageSize - 1
  BY <1>1, Pages
<1>3. q \in Nat /\ MaxProducts = q * PageSize
  BY PageAssumption
<1> HIDE DEF n, q
<1>4. PageSize \in Nat \ {0} /\ MaxProducts \in Nat \ {0}
  BY PageAssumption
<1>5. n <= q
  <2> SUFFICES ASSUME n >= q + 1 PROVE FALSE
    BY <1>2, <1>3
  <2>1. n * PageSize >= (q + 1) * PageSize
    BY <1>2, <1>3, <1>4
  <2>2. (q + 1) * PageSize = q * PageSize + PageSize
    BY <1>3, <1>4
  <2> QED BY <1>2, <1>3, <1>4, <2>1, <2>2
<1>6. n >= q
  <2> SUFFICES ASSUME q >= n + 1 PROVE FALSE
    BY <1>2, <1>3
  <2>1. q * PageSize >= (n + 1) * PageSize
    BY <1>2, <1>3, <1>4
  <2>2. (n + 1) * PageSize = n * PageSize + PageSize
    BY <1>2, <1>4
  <2> QED BY <1>2, <1>3, <1>4, <2>1, <2>2
<1>7. n = q
  BY <1>2, <1>3, <1>5, <1>6
<1>8. n # 0
  BY <1>3, <1>4, <1>7
<1> QED BY <1>2, <1>3, <1>7, <1>8 DEF n

\* When the last page has been read, the products expected have been.
LEMMA AllRead ==
    ASSUME NEW i, NEW read, PageSound(i, read), read.next > LastPage(read.total)
    PROVE  ReadSoFar(read) = Expected(read.total)
<1> DEFINE total == read.total
           before == read.next - 1
<1>1. /\ total \in Nat /\ before \in Nat /\ before >= 1 /\ before >= LastPage(total)
      /\ before = 1 \/ before <= LastPage(total)
  <2>1. total \in Nat /\ read.next \in Nat
    BY DEF PageSound
  <2>2. LastPage(total) \in Nat
    BY <2>1, Pages
  <2> QED BY <2>1, <2>2 DEF PageSound
<1>2. /\ PageSize \in Nat \ {0} /\ MaxProducts \in Nat \ {0}
      /\ LastPage(total) \in Nat /\ LastPage(total) * PageSize >= Expected(total)
  BY <1>1, PageAssumption, Pages
<1> HIDE DEF total, before
<1>3. CASE total < MaxProducts
  <2>1. Expected(total) = total
    BY <1>3 DEF Expected
  <2>2. before * PageSize >= LastPage(total) * PageSize
    BY <1>1, <1>2
  <2>3. before * PageSize \in Nat /\ LastPage(total) * PageSize \in Nat
    BY <1>1, <1>2
  <2>4. before * PageSize >= total
    BY <1>1, <1>2, <2>1, <2>2, <2>3
  <2> QED BY <1>1, <2>1, <2>3, <2>4 DEF ReadSoFar, before, total
<1>4. CASE total >= MaxProducts
  <2>1. Expected(total) = MaxProducts
    BY <1>1, <1>2, <1>4 DEF Expected
  <2>2. LastPage(total) * PageSize = MaxProducts /\ LastPage(total) >= 1
    BY <1>1, <1>4, WholePages
  <2>3. before = LastPage(total)
    BY <1>1, <1>2, <2>2
  <2> QED BY <1>1, <1>2, <1>4, <2>1, <2>2, <2>3 DEF ReadSoFar, before, total
<1> QED BY <1>1, <1>2, <1>3, <1>4

\* How many products there are up to a page and on it.
LEMMA PageLength ==
    ASSUME NEW p, NEW n \in Nat \ {0}, reports[p] \in Nat
    PROVE  /\ ReadBefore(n) \in Nat /\ OnPage(p, n) \in Nat
           /\ (IF ReadBefore(n) < reports[p] THEN ReadBefore(n) ELSE reports[p]) + OnPage(p, n)
                = IF n * PageSize < reports[p] THEN n * PageSize ELSE reports[p]
           /\ OnPage(p, n) # 0 => ReadBefore(n) < reports[p]
<1>1. PageSize \in Nat \ {0}
  BY PageAssumption
<1> DEFINE a == ReadBefore(n)
           b == n * PageSize
<1>2. a \in Nat /\ b \in Nat /\ b = a + PageSize
  BY <1>1 DEF ReadBefore
<1>3. OnPage(p, n) = LET last == IF b < reports[p] THEN b ELSE reports[p]
                     IN IF last > a THEN last - a ELSE 0
  BY DEF OnPage, LastOf
<1> HIDE DEF a, b
<1>4. /\ a \in Nat /\ OnPage(p, n) \in Nat
      /\ (IF a < reports[p] THEN a ELSE reports[p]) + OnPage(p, n)
            = IF b < reports[p] THEN b ELSE reports[p]
      /\ OnPage(p, n) # 0 => a < reports[p]
  BY <1>1, <1>2, <1>3
<1> QED BY <1>4 DEF a, b

\* A page is of products, all of its period.
LEMMA PageTyped ==
    ASSUME NEW p \in Periods, NEW n \in Nat \ {0}, NEW brought \in Nat
    PROVE  /\ PageOf(p, n, brought) \in Seq(Products)
           /\ Len(PageOf(p, n, brought)) = brought
           /\ \A k \in 1..brought : PageOf(p, n, brought)[k] = <<p, ReadBefore(n) + k>>
<1>1. ReadBefore(n) \in Nat
  BY PageAssumption DEF ReadBefore
<1>2. \A k \in 1..brought : <<p, ReadBefore(n) + k>> \in Products
  BY <1>1 DEF Products
<1> QED BY <1>2 DEF PageOf

\* Products in their places and some of the page after them are in theirs.
LEMMA MorePlaced ==
    ASSUME NEW p, NEW a \in Seq(Products), NEW b \in Seq(Products), NEW n \in Nat,
           InPlace(a, p, n), NEW length \in Nat, NEW brought \in 0..length, Len(b) = brought,
           \A k \in 1..brought : b[k] = <<p, n + k>>
    PROVE  InPlace(a \o b, p, n + length)
<1> DEFINE c == a \o b
           la == Len(a)
<1>1. la \in Nat /\ la <= n /\ DOMAIN a = 1..la
  BY LenProperties DEF InPlace
<1>2. /\ c \in Seq(Products) /\ Len(c) = la + brought
      /\ \A k \in 1..(la + brought) : c[k] = IF k <= la THEN a[k] ELSE b[k - la]
  BY ConcatProperties
<1>3. DOMAIN c = 1..(la + brought)
  BY <1>2, LenProperties
<1>4. \A k \in 1..la : /\ a[k][1] = p /\ a[k][2] \in Nat /\ k <= a[k][2] /\ a[k][2] <= n
                        /\ a[k][2] - k <= n - la
  <2>1. ASSUME NEW k \in 1..la PROVE a[k] \in Products
    BY <1>1, ElementOfSeq
  <2> QED BY <1>1, <2>1 DEF InPlace, Products
<1>5. \A j, k \in 1..la : j < k => a[j][2] < a[k][2]
  BY <1>1 DEF InPlace
<1> HIDE DEF c, la
<1>6. \A k \in 1..la : c[k] = a[k]
  BY <1>1, <1>2
<1>7. \A k \in (la + 1)..(la + brought) : c[k][1] = p /\ c[k][2] = n + (k - la)
  <2> SUFFICES ASSUME NEW k \in (la + 1)..(la + brought)
               PROVE  c[k] = <<p, n + (k - la)>>
    OBVIOUS
  <2>1. k \in 1..(la + brought) /\ ~(k <= la) /\ k - la \in 1..brought
    BY <1>1
  <2> QED BY <1>2, <2>1
<1>8. ASSUME NEW k \in 1..(la + brought)
      PROVE  /\ c[k][1] = p /\ k <= c[k][2] /\ c[k][2] <= n + length
             /\ c[k][2] - k <= (n + length) - (la + brought)
  <2>1. CASE k <= la
    <3>1. k \in 1..la
      BY <1>1, <2>1
    <3> QED BY <1>1, <1>4, <1>6, <3>1
  <2>2. CASE ~(k <= la)
    <3>1. k \in (la + 1)..(la + brought)
      BY <1>1, <2>2
    <3> QED BY <1>1, <1>7, <3>1
  <2> QED BY <2>1, <2>2
<1>9. ASSUME NEW j \in 1..(la + brought), NEW k \in 1..(la + brought), j < k
      PROVE  c[j][2] < c[k][2]
  <2>1. CASE k <= la
    <3>1. j \in 1..la /\ k \in 1..la
      BY <1>1, <1>9, <2>1
    <3> QED BY <1>5, <1>6, <1>9, <3>1
  <2>2. CASE ~(k <= la)
    <3>1. k \in (la + 1)..(la + brought)
      BY <1>1, <2>2
    <3>2. CASE j <= la
      <4>1. j \in 1..la
        BY <1>1, <3>2
      <4> QED BY <1>1, <1>4, <1>6, <1>7, <3>1, <4>1
    <3>3. CASE ~(j <= la)
      <4>1. j \in (la + 1)..(la + brought)
        BY <1>1, <3>3
      <4> QED BY <1>1, <1>7, <1>9, <3>1, <4>1
    <3> QED BY <3>2, <3>3
  <2> QED BY <2>1, <2>2
<1>10. la + brought <= n + length
  BY <1>1
<1> QED BY <1>2, <1>3, <1>8, <1>9, <1>10 DEF InPlace, c

\* What the first page brings is of the beginning of a report.
LEMMA FirstPageSound ==
    ASSUME Reading, NEW i, NEW p \in Periods, targets[i].period \in {NoPeriod, p},
           NEW brought \in Nat, brought <= OnPage(p, 1)
    PROVE  PageSound(i, [next |-> 2, products |-> PageOf(p, 1, brought), total |-> reports[p],
                         period |-> p, version |-> published[p],
                         whole |-> brought = OnPage(p, 1)])
<1> DEFINE read == [next |-> 2, products |-> PageOf(p, 1, brought), total |-> reports[p],
                    period |-> p, version |-> published[p], whole |-> brought = OnPage(p, 1)]
           b == PageOf(p, 1, brought)
<1>1. reports[p] \in Nat /\ published[p] \in Nat /\ PageSize \in Nat \ {0}
  BY PageAssumption DEF Reading
<1>2. /\ b \in Seq(Products) /\ Len(b) = brought
      /\ \A k \in 1..brought : b[k] = <<p, 0 + k>>
  <2>1. ReadBefore(1) = 0
    BY <1>1 DEF ReadBefore
  <2>2. /\ b \in Seq(Products) /\ Len(b) = brought
        /\ \A k \in 1..brought : b[k] = <<p, ReadBefore(1) + k>>
    <3>1. 1 \in Nat \ {0}
      OBVIOUS
    <3> QED BY <3>1, PageTyped
  <2> HIDE DEF b
  <2> QED BY <2>1, <2>2
<1>3. /\ read.next = 2 /\ read.products = b /\ read.total = reports[p]
      /\ read.period = p /\ read.version = published[p] /\ read.whole = (brought = OnPage(p, 1))
      /\ {"next", "products", "whole"} \subseteq DOMAIN read
  OBVIOUS
<1> HIDE DEF read, b
<1>4. ReadSoFar(read) = OnPage(p, 1) /\ OnPage(p, 1) \in Nat
  BY <1>1, <1>3 DEF ReadSoFar, OnPage, LastOf, ReadBefore
<1>5. InPlace(b, p, OnPage(p, 1))
  <2> DEFINE none == <<>>
  <2>1. none \in Seq(Products) /\ InPlace(none, p, 0) /\ none \o b = b
    <3>1. InPlace(none, p, 0)
      BY DEF InPlace
    <3>2. none \o b = b
      BY <1>2, ConcatEmptySeq
    <3> QED BY <3>1, <3>2
  <2>2. 0 + OnPage(p, 1) = OnPage(p, 1) /\ brought \in 0..OnPage(p, 1)
    BY <1>4
  <2> HIDE DEF none
  <2>3. InPlace(none \o b, p, 0 + OnPage(p, 1))
    BY <1>2, <1>4, <2>1, <2>2, MorePlaced
  <2> QED BY <2>1, <2>2, <2>3
<1>6. \A k \in DOMAIN b : b[k][1] = p
  BY <1>5 DEF InPlace
<1>7. /\ InPlace(read.products, read.period, ReadSoFar(read))
      /\ read.whole => Len(read.products) = ReadSoFar(read)
  BY <1>2, <1>3, <1>4, <1>5
<1>8. PageSound(i, read)
  BY <1>1, <1>2, <1>3, <1>6, <1>7, NoPeriodAssumption DEF PageSound
<1> QED BY <1>8 DEF read

\* What is read of a bound target with its next page is still of the beginning of its report.
LEMMA LaterPageSound ==
    ASSUME Reading, NEW i, PageSound(i, page), page.next <= LastPage(page.total),
           NEW p \in Periods, targets[i].period \in {NoPeriod, p},
           NEW brought \in Nat, brought <= OnPage(p, page.next)
    PROVE  PageSound(i, [page EXCEPT !.next = @ + 1,
                                     !.products = @ \o PageOf(p, page.next, brought),
                                     !.whole = @ /\ brought = OnPage(p, page.next)])
<1> DEFINE next == page.next
           b == PageOf(p, next, brought)
           read == [page EXCEPT !.next = @ + 1,
                                !.products = @ \o PageOf(p, page.next, brought),
                                !.whole = @ /\ brought = OnPage(p, page.next)]
<1>1. /\ next \in Nat \ {0} /\ next >= 2 /\ reports[p] \in Nat /\ published[p] \in Nat
      /\ page.total \in Nat /\ page.products \in Seq(Products) /\ page.version \in Nat
      /\ page.version <= published[page.period] /\ page.period \in Periods
  BY DEF Reading, PageSound
<1>2. /\ b \in Seq(Products) /\ Len(b) = brought
      /\ \A k \in 1..brought : b[k] = <<p, ReadBefore(next) + k>>
  BY <1>1, PageTyped
<1>3. /\ read.next = next + 1 /\ read.products = page.products \o b
      /\ read.total = page.total /\ read.period = page.period /\ read.version = page.version
      /\ read.whole = (page.whole /\ brought = OnPage(p, next))
      /\ {"next", "products", "whole"} \subseteq DOMAIN read
  BY DEF PageSound
<1>4. brought <= OnPage(p, next)
  OBVIOUS
<1> HIDE DEF next, read, b
<1>5. read.products \in Seq(Products)
  BY <1>1, <1>2, <1>3, ConcatProperties
<1>6. read.next = 2 \/ (read.next > 2 /\ read.next - 1 <= LastPage(read.total))
  BY <1>1, <1>3 DEF next
<1>7. ASSUME targets[i].period # NoPeriod
      PROVE  /\ read.period = targets[i].period
             /\ \A k \in DOMAIN read.products : read.products[k][1] = read.period
             /\ published[read.period] = read.version =>
                   /\ reports[read.period] = read.total
                   /\ InPlace(read.products, read.period, ReadSoFar(read))
                   /\ read.whole => Len(read.products) = ReadSoFar(read)
  <2>1. page.period = targets[i].period /\ page.period = p
    BY <1>7, NoPeriodAssumption DEF PageSound
  <2>2. \A k \in DOMAIN page.products : page.products[k][1] = p
    BY <1>7, <2>1 DEF PageSound
  <2>3. \A k \in DOMAIN read.products : read.products[k][1] = p
    <3> DEFINE a == page.products
    <3>1. a \in Seq(Products) /\ read.products = a \o b
      BY <1>1, <1>3
    <3>2. \A k \in DOMAIN a : a[k][1] = p
      BY <2>2
    <3> HIDE DEF a
    <3>3. DOMAIN a = 1..Len(a) /\ Len(a) \in Nat
      BY <3>1, LenProperties
    <3>4. /\ DOMAIN (a \o b) = 1..(Len(a) + brought)
          /\ \A k \in 1..(Len(a) + brought) :
                (a \o b)[k] = IF k <= Len(a) THEN a[k] ELSE b[k - Len(a)]
      <4>1. a \o b \in Seq(Products) /\ Len(a \o b) = Len(a) + brought
        BY <1>2, <3>1, ConcatProperties
      <4>2. DOMAIN (a \o b) = 1..Len(a \o b)
        BY <4>1, LenProperties
      <4> QED BY <1>2, <3>1, <4>1, <4>2, ConcatProperties
    <3>5. ASSUME NEW k \in 1..(Len(a) + brought) PROVE (a \o b)[k][1] = p
      <4>1. CASE k <= Len(a)
        <5>1. k \in DOMAIN a
          BY <3>3, <4>1
        <5> QED BY <3>2, <3>4, <4>1, <5>1
      <4>2. CASE ~(k <= Len(a))
        <5>1. k - Len(a) \in 1..brought
          BY <3>3, <4>2
        <5> QED BY <1>2, <3>4, <4>2, <5>1
      <4> QED BY <4>1, <4>2
    <3> QED BY <3>1, <3>4, <3>5
  <2>4. ASSUME published[p] = page.version
        PROVE  /\ reports[p] = page.total
               /\ InPlace(read.products, p, ReadSoFar(read))
               /\ read.whole => Len(read.products) = ReadSoFar(read)
    <3>1. /\ reports[p] = page.total /\ InPlace(page.products, p, ReadSoFar(page))
          /\ page.whole => Len(page.products) = ReadSoFar(page)
      BY <1>7, <2>1, <2>4 DEF PageSound
    <3> DEFINE first == ReadBefore(next)
               length == OnPage(p, next)
               so_far == IF first < reports[p] THEN first ELSE reports[p]
    <3>2. /\ first \in Nat /\ length \in Nat
          /\ length # 0 => so_far = first
          /\ so_far + length = IF next * PageSize < reports[p] THEN next * PageSize
                                ELSE reports[p]
      BY <1>1, PageLength
    <3>3. ReadSoFar(page) = so_far
      BY <3>1 DEF ReadSoFar, ReadBefore, next
    <3>4. ReadSoFar(read) = so_far + length
      BY <1>1, <1>3, <3>1, <3>2 DEF ReadSoFar
    <3>5. so_far \in Nat
      <4> HIDE DEF first, length
      <4> QED BY <1>1, <3>2
    <3>6. brought <= length
      BY <1>4
    <3>7. \A k \in 1..brought : b[k] = <<p, first + k>>
      BY <1>2
    <3> HIDE DEF first, length, so_far
    <3>8. \A k \in 1..brought : b[k] = <<p, so_far + k>>
      <4> SUFFICES ASSUME NEW k \in 1..brought PROVE b[k] = <<p, so_far + k>>
        OBVIOUS
      <4>1. length # 0
        BY <3>2, <3>6
      <4>2. so_far = first
        BY <3>2, <4>1
      <4> QED BY <3>7, <4>2
    <3>9. InPlace(page.products \o b, p, so_far + length)
      <4>1. brought \in 0..length
        BY <3>2, <3>6
      <4>2. InPlace(page.products, p, so_far)
        BY <3>1, <3>3
      <4> QED BY <1>1, <1>2, <3>2, <3>5, <3>8, <4>1, <4>2, MorePlaced
    <3>10. Len(page.products \o b) = Len(page.products) + Len(b)
      <4> DEFINE a == page.products
      <4>1. a \in Seq(Products) /\ b \in Seq(Products)
        BY <1>1, <1>2
      <4> HIDE DEF a
      <4>2. a \o b \in Seq(Products) /\ Len(a \o b) = Len(a) + Len(b)
        BY <4>1, ConcatProperties
      <4> QED BY <4>2 DEF a
    <3>11. read.whole => page.whole /\ brought = length
      BY <1>3 DEF length
    <3> QED BY <1>2, <1>3, <3>1, <3>3, <3>4, <3>9, <3>10, <3>11
  <2> QED BY <1>3, <2>1, <2>3, <2>4
<1>8. /\ read.next \in Nat /\ read.total \in Nat /\ read.version \in Nat
      /\ read.period \in Periods /\ read.version <= published[read.period]
  BY <1>1, <1>3 DEF PageSound, next
<1>9. PageSound(i, read)
  BY <1>3, <1>5, <1>6, <1>7, <1>8 DEF PageSound
<1> QED BY <1>9 DEF read, b, next

\* Products in their places that are as many as their numbers go are a report's beginning.
LEMMA AllPlaced ==
    ASSUME NEW p, NEW n \in Nat, NEW products \in Seq(Products), InPlace(products, p, n),
           Len(products) = n
    PROVE  products = Beginning(p, n)
<1>1. products \in [1..n -> Products]
  BY LenProperties
<1>2. ASSUME NEW k \in 1..n PROVE products[k] = <<p, k>>
  <2>1. products[k] \in Periods \X Nat
    BY <1>1 DEF Products
  <2>2. products[k][1] = p /\ k <= products[k][2] /\ products[k][2] - k <= n - n
    BY <1>1 DEF InPlace
  <2>3. products[k][2] = k
    BY <2>1, <2>2
  <2> QED BY <2>1, <2>2, <2>3
<1>3. products = [k \in 1..n |-> products[k]]
  BY <1>1
<1> QED BY <1>2, <1>3 DEF Beginning

\* A list that has been read to its end is told as it is.
LEMMA ListSound ==
    ASSUME Reading, NEW i, NEW read, PageSound(i, read), read.next > LastPage(read.total)
    PROVE  FactSound(Fact(i, "products", read.period, read.products, read.total,
                          published[read.period] = read.version, read.whole))
<1> DEFINE f == Fact(i, "products", read.period, read.products, read.total,
                     published[read.period] = read.version, read.whole)
<1>1. /\ f.target = i /\ f.period = read.period /\ f.products = read.products
      /\ f.total = read.total /\ f.type = "products"
      /\ f.full = (read.total <= Len(read.products)) /\ f.whole = read.whole
      /\ f.steady = (published[read.period] = read.version)
  BY DEF Fact
<1>2. ReadSoFar(read) = Expected(read.total) /\ read.total \in Nat
  BY AllRead DEF PageSound
<1>3. Expected(read.total) \in Nat /\ Expected(read.total) <= read.total
  BY <1>2, PageAssumption DEF Expected
<1>4. read.products \in Seq(Products)
  BY DEF PageSound
<1> HIDE DEF f
<1>5. ASSUME targets[i].period # NoPeriod, f.steady
      PROVE  /\ InOrder(f)
             /\ f.whole => f.products = Beginning(f.period, Expected(f.total))
             /\ f.full <=> f.products = Beginning(f.period, f.total)
  <2> DEFINE products == read.products
             p == read.period
             n == Expected(read.total)
             total == read.total
  <2>1. InPlace(products, p, n) /\ (read.whole => Len(products) = n)
    BY <1>1, <1>2, <1>5 DEF PageSound
  <2>2. /\ n \in Nat /\ total \in Nat /\ n <= total /\ products \in Seq(Products)
        /\ Len(products) \in Nat /\ DOMAIN products = 1..Len(products) /\ Len(products) <= n
    BY <1>2, <1>3, <1>4, <2>1, LenProperties DEF InPlace
  <2>3. ASSUME NEW k \in DOMAIN products PROVE products[k][2] \in 1..n
    <3>1. products[k] \in Products
      BY <2>2, ElementOfSeq
    <3>2. products[k][2] \in Nat
      BY <3>1 DEF Products
    <3>3. k \in Nat /\ 1 <= k
      BY <2>2
    <3>4. k <= products[k][2] /\ products[k][2] <= n
      BY <2>1 DEF InPlace
    <3> HIDE DEF products, n
    <3> QED BY <2>2, <3>2, <3>3, <3>4
  <2>4. InOrder(f)
    BY <1>1, <2>1, <2>2, <2>3 DEF InOrder, InPlace
  <2>5. f.whole => f.products = Beginning(f.period, Expected(f.total))
    BY <1>1, <2>1, <2>2, AllPlaced
  <2>6. ASSUME f.full PROVE f.products = Beginning(f.period, f.total)
    <3>1. total <= Len(products)
      BY <1>1, <2>6
    <3>2. n = total /\ Len(products) = n
      BY <2>2, <3>1
    <3>3. products = Beginning(p, n)
      BY <2>1, <2>2, <3>2, AllPlaced
    <3>4. products = Beginning(p, total)
      BY <3>2, <3>3
    <3> QED BY <1>1, <3>4
  <2>7. ASSUME f.products = Beginning(f.period, f.total) PROVE f.full
    <3>1. Len(Beginning(p, total)) = total
      BY <2>2 DEF Beginning
    <3>2. Len(products) = total
      BY <1>1, <2>7, <3>1
    <3>3. read.total <= Len(read.products)
      BY <2>2, <3>2
    <3> QED BY <1>1, <3>3
  <2>8. f.full \in BOOLEAN
    BY <1>1
  <2> QED BY <2>4, <2>5, <2>6, <2>7, <2>8
<1>6. FactSound(f)
  BY <1>1, <1>5 DEF FactSound, PageSound
<1> QED BY <1>6 DEF f

\* An answer to the current target, and the next target's turn.
LEMMA AnswerReading ==
    ASSUME Reading, readsAt.stage \in TargetCalls, NEW f, FactSound(f),
           AnswersTo(f, readsAt.target), facts' = facts \cup {f},
           readsAt' = NextTarget(readsAt.target), UNCHANGED <<targets, reports, published>>
    PROVE  Reading'
<1> DEFINE i == readsAt.target
           n == Len(targets)
<1>1. /\ n \in Nat /\ DOMAIN targets = 1..n /\ i \in 1..n
      /\ \A j \in 1..(i - 1) : Answered(j)
  BY LenProperties DEF Reading
<1>2. AnswersTo(f, i)
  OBVIOUS
<1>3. /\ i < n => readsAt'.stage = "summary" /\ readsAt'.target = i + 1
      /\ ~(i < n) => readsAt'.stage = "read"
  BY <1>1 DEF NextTarget, At
<1> HIDE DEF i, n
<1>4. \A j \in 1..i : Answered(j)'
  BY <1>1, <1>2 DEF Answered, AnswersTo
<1>5. \A g \in facts' : FactSound(g)'
  BY DEF Reading, FactSound
<1>6. CASE i < n
  <2>1. readsAt'.target \in DOMAIN targets' /\ readsAt'.target - 1 = i
    BY <1>1, <1>3, <1>6
  <2> QED BY <1>3, <1>4, <1>5, <1>6, <2>1 DEF Reading
<1>7. CASE ~(i < n)
  <2>1. \A j \in DOMAIN targets' : Answered(j)'
    BY <1>1, <1>4, <1>7
  <2> QED BY <1>3, <1>5, <1>7, <2>1 DEF Reading, TargetCalls
<1> QED BY <1>6, <1>7

\* Before the first target nothing has been answered.
LEMMA FirstReading ==
    ASSUME Reading, facts = {}, facts' = {}, readsAt' = NextTarget(0),
           UNCHANGED <<targets, reports, published>>
    PROVE  Reading'
<1>1. Len(targets) \in Nat /\ DOMAIN targets = 1..Len(targets)
  BY LenProperties DEF Reading
<1>2. CASE 0 < Len(targets)
  <2>1. /\ readsAt'.stage = "summary" /\ readsAt'.target = 1
      BY <1>2 DEF NextTarget, At
  <2>2. 1 \in DOMAIN targets' /\ 1..(1 - 1) = {}
    BY <1>1, <1>2
  <2> QED BY <2>1, <2>2 DEF Reading
<1>3. CASE ~(0 < Len(targets))
  <2>1. readsAt'.stage = "read"
    BY <1>3 DEF NextTarget, At
  <2>2. DOMAIN targets' = {}
    BY <1>1, <1>3
  <2> QED BY <2>1, <2>2 DEF Reading, TargetCalls
<1> QED BY <1>2, <1>3

\* What says that a target is not available answers it.
LEMMA UnavailableAnswers ==
    ASSUME NEW i PROVE FactSound(unavailable_fact(i)) /\ AnswersTo(unavailable_fact(i), i)
<1>1. /\ unavailable_fact(i).target = i /\ unavailable_fact(i).type = "unavailable"
      /\ unavailable_fact(i).period = targets[i].period
      /\ unavailable_fact(i).products = <<>>
  BY DEF unavailable_fact, PlainFact, Fact
<1> QED BY <1>1 DEF FactSound, AnswersTo

\* So does an answer that was bound to it, of its command.
LEMMA BoundAnswers ==
    ASSUME NEW i, NEW p, NEW type \in {"summary", "match"}, targets[i].period \in {NoPeriod, p},
           targets[i].command = type
    PROVE  /\ FactSound(PlainFact(i, type, p))
           /\ AnswersTo(PlainFact(i, type, p), i)
<1>1. /\ PlainFact(i, type, p).target = i /\ PlainFact(i, type, p).type = type
      /\ PlainFact(i, type, p).period = p
      /\ PlainFact(i, type, p).products = <<>>
  BY DEF PlainFact, Fact
<1> DEFINE f == PlainFact(i, type, p)
<1> HIDE DEF f
<1>2. f.target = i /\ f.type = type /\ f.period = p /\ f.products = <<>>
  BY <1>1 DEF f
<1>3. FactSound(f)
  BY <1>2, NoPeriodAssumption DEF FactSound
<1>4. AnswersTo(f, i)
  BY <1>2 DEF AnswersTo
<1> QED BY <1>3, <1>4 DEF f

\* A target that is given up is answered.
LEMMA GiveUpReading ==
    ASSUME Reading, readsAt.stage \in TargetCalls, GiveUp(readsAt.target),
           UNCHANGED <<targets, reports, published>>
    PROVE  Reading'
BY UnavailableAnswers, AnswerReading DEF GiveUp

\* The preflight binds the targets, of which nothing has been told yet.
LEMMA PreflightReading ==
    ASSUME Reading,
           \/ \E periods \in [DOMAIN targets -> Periods \cup {NoPeriod}] : Preflight(periods)
           \/ PreflightFails
    PROVE  Reading'
<1>1. /\ readsAt.stage = "preflight" /\ UNCHANGED <<facts, reports, published>>
      /\ readsAt' = At("handshake", 0)
  BY DEF Preflight, PreflightFails, adapterVars
<1>2. facts = {}
  BY <1>1 DEF Reading
<1>3. readsAt'.stage = "handshake"
  BY <1>1 DEF At
<1>4. targets' \in Seq([command : Commands, period : Periods \cup {NoPeriod}])
  <2>1. ASSUME NEW periods \in [DOMAIN targets -> Periods \cup {NoPeriod}], Preflight(periods)
        PROVE  targets' \in Seq([command : Commands, period : Periods \cup {NoPeriod}])
    <3>1. /\ Len(targets) \in Nat /\ DOMAIN targets = 1..Len(targets)
          /\ targets \in [1..Len(targets) -> [command : Commands, period : Periods \cup {NoPeriod}]]
      BY LenProperties DEF Reading
    <3>2. targets' = [i \in 1..Len(targets) |-> [targets[i] EXCEPT !.period = periods[i]]]
      BY <2>1, <3>1 DEF Preflight
    <3>3. \A i \in 1..Len(targets) : [targets[i] EXCEPT !.period = periods[i]]
                \in [command : Commands, period : Periods \cup {NoPeriod}]
      BY <3>1
    <3> QED BY <3>1, <3>2, <3>3
  <2>2. PreflightFails => UNCHANGED targets
    BY DEF PreflightFails
  <2> QED BY <2>1, <2>2 DEF Reading
<1> QED BY <1>1, <1>2, <1>3, <1>4 DEF Reading, TargetCalls

\* A candidate's reads begin with its targets and nothing told.
LEMMA BeginReading ==
    ASSUME Reading, NEW commands \in CommandLists, NEW resolves \in BOOLEAN,
           BeginReads(commands, resolves)
    PROVE  Reading'
<1>1. /\ facts' = {} /\ UNCHANGED <<reports, published>>
      /\ targets' = [i \in DOMAIN commands |-> Target(commands[i], NoPeriod)]
      /\ readsAt' = At(IF resolves THEN "preflight" ELSE "handshake", 0)
  BY DEF BeginReads, adapterVars
<1>2. readsAt'.stage \in {"preflight", "handshake"}
  BY <1>1 DEF At
<1>3. PICK n \in 0..MaxTargets : commands \in [1..n -> Commands]
  BY DEF CommandLists
<1>4. targets' \in Seq([command : Commands, period : Periods \cup {NoPeriod}])
  BY <1>1, <1>3 DEF Target
<1> QED BY <1>1, <1>2, <1>4 DEF Reading, TargetCalls

\* A report that is published while its pages are read is not the one that was begun.
LEMMA PublishReading ==
    ASSUME Reading, NEW p \in Periods, NEW size \in Sizes, Publish(p, size)
    PROVE  Reading'
<1>1. /\ reports' = [reports EXCEPT ![p] = size]
      /\ published' = [published EXCEPT ![p] = @ + 1]
      /\ UNCHANGED <<readsAt, targets, page, facts>>
  BY DEF Publish
<1>2. /\ reports \in [Periods -> Nat] /\ published \in [Periods -> Nat] /\ size \in Nat
  BY PageAssumption DEF Reading
<1>3. /\ reports' \in [Periods -> Nat] /\ published' \in [Periods -> Nat]
      /\ \A q \in Periods : published[q] <= published'[q]
      /\ \A q \in Periods : published[q] = published'[q] => reports'[q] = reports[q]
  BY <1>1, <1>2
<1>4. ASSUME NEW i, PageSound(i, page) PROVE PageSound(i, page)'
  <2>1. /\ page.period \in Periods /\ page.version \in Nat
        /\ page.version <= published[page.period]
    BY <1>4 DEF PageSound
  <2>2. /\ page.version <= published'[page.period]
        /\ published'[page.period] = page.version =>
              /\ published[page.period] = page.version
              /\ reports'[page.period] = reports[page.period]
    BY <1>2, <1>3, <2>1
  <2> QED BY <1>1, <1>4, <2>2 DEF PageSound, ReadSoFar
<1>5. \A i : Answered(i) => Answered(i)'
  BY <1>1 DEF Answered, AnswersTo
<1>6. \A f \in facts' : FactSound(f)'
  BY <1>1 DEF Reading, FactSound
<1> QED BY <1>1, <1>3, <1>4, <1>5, <1>6 DEF Reading, LastPage

\* A handshake leads to the first target, and one that fails answers them all.
LEMMA HandshakeReading ==
    ASSUME Reading, Handshake \/ HandshakeFails PROVE Reading'
<1>1. CASE Handshake
  <2>1. /\ facts = {} /\ facts' = {} /\ readsAt' = NextTarget(0)
        /\ UNCHANGED <<targets, reports, published>>
    BY <1>1 DEF Reading, Handshake, adapterVars
  <2> QED BY <2>1, FirstReading
<1>2. CASE HandshakeFails
  <2>1. /\ facts' = {unavailable_fact(i) : i \in DOMAIN targets} /\ readsAt' = At("read", 0)
        /\ UNCHANGED <<targets, reports, published>>
    BY <1>2 DEF HandshakeFails, adapterVars
  <2>2. \A f \in facts' : FactSound(f)'
    BY <2>1, UnavailableAnswers DEF FactSound
  <2>3. \A i \in DOMAIN targets' : Answered(i)'
    BY <2>1, UnavailableAnswers DEF Answered, AnswersTo
  <2>4. readsAt'.stage = "read"
    BY <2>1 DEF At
  <2> QED BY <2>1, <2>2, <2>3, <2>4 DEF Reading, TargetCalls
<1> QED BY <1>1, <1>2

\* A summary answers its target, or a match or list is asked for next.
LEMMA SummaryReading ==
    ASSUME Reading, NEW p \in Periods, NEW fits \in BOOLEAN, Summary(p, fits)
    PROVE  Reading'
<1> DEFINE i == readsAt.target
           f == PlainFact(i, "summary", p)
<1>1. readsAt.stage = "summary" /\ UNCHANGED <<targets, reports, published>>
  BY DEF Summary, adapterVars
<1>2. readsAt.stage \in TargetCalls
  BY <1>1 DEF TargetCalls
<1>3. CASE ~Bound(i, p, fits)
  BY <1>1, <1>2, <1>3, UnavailableAnswers, AnswerReading DEF Summary
<1>4. CASE Bound(i, p, fits) /\ targets[i].command = "summary"
  <2>1. FactSound(f) /\ AnswersTo(f, i)
    BY <1>4, BoundAnswers DEF Bound
  <2> QED BY <1>1, <1>2, <1>4, <2>1, AnswerReading DEF Summary
<1>5. CASE Bound(i, p, fits) /\ targets[i].command # "summary"
  <2>1. i \in DOMAIN targets /\ \A j \in 1..(i - 1) : Answered(j)
    BY <1>2 DEF Reading
  <2>2. targets[i].command \in {"match", "list_products"}
    <3>1. targets[i] \in [command : Commands, period : Periods \cup {NoPeriod}]
      <4>1. targets \in [1..Len(targets) -> [command : Commands, period : Periods \cup {NoPeriod}]]
        BY LenProperties DEF Reading
      <4> QED BY <2>1, <4>1
    <3> QED BY <1>5, <3>1 DEF Commands
  <2>3. /\ facts' = facts \cup {f} /\ readsAt'.stage = targets[i].command
        /\ readsAt'.target = i
    <3>1. facts' = facts \cup {f} /\ readsAt' = At(targets[i].command, i)
      BY <1>5 DEF Summary
    <3> HIDE DEF f
    <3> QED BY <3>1 DEF At
  <2>4. FactSound(f)
    <3>1. f.target = i /\ f.type = "summary" /\ f.period = p /\ f.products = <<>>
      BY DEF PlainFact, Fact
    <3> HIDE DEF f
    <3> QED BY <1>5, <3>1 DEF Bound, FactSound
  <2> HIDE DEF f, i
  <2>5. \A g \in facts' : FactSound(g)'
    BY <1>1, <2>3, <2>4 DEF Reading, FactSound
  <2>6. \A j \in 1..(i - 1) : Answered(j)'
    BY <1>1, <2>1, <2>3 DEF Answered, AnswersTo
  <2> QED BY <1>1, <2>1, <2>2, <2>3, <2>5, <2>6 DEF Reading, i
<1> QED BY <1>3, <1>4, <1>5

\* A match answers its target.
LEMMA MatchReading ==
    ASSUME Reading, NEW p \in Periods, NEW fits \in BOOLEAN, Match(p, fits)
    PROVE  Reading'
<1> DEFINE i == readsAt.target
<1>1. /\ readsAt.stage = "match" /\ UNCHANGED <<targets, reports, published>>
      /\ readsAt.stage \in TargetCalls /\ readsAt' = NextTarget(i)
      /\ facts' = facts \cup {IF Bound(i, p, fits) THEN PlainFact(i, "match", p)
                              ELSE unavailable_fact(i)}
  BY DEF Match, adapterVars, TargetCalls
<1>2. targets[i].command = "match"
  BY <1>1 DEF Reading
<1>3. CASE Bound(i, p, fits)
  <2>1. FactSound(PlainFact(i, "match", p))
        /\ AnswersTo(PlainFact(i, "match", p), i)
    BY <1>2, <1>3, BoundAnswers DEF Bound
  <2> QED BY <1>1, <1>3, <2>1, AnswerReading
<1>4. CASE ~Bound(i, p, fits)
  BY <1>1, <1>4, UnavailableAnswers, AnswerReading
<1> QED BY <1>3, <1>4

\* A page is read, and is the last one or not.
LEMMA PageReading ==
    ASSUME Reading, NEW read, PageSound(readsAt.target, read), readsAt.stage \in TargetCalls,
           targets[readsAt.target].command = "list_products",
           ReadPage(readsAt.target, read), UNCHANGED <<targets, reports, published>>
    PROVE  Reading'
<1> DEFINE i == readsAt.target
<1>1. CASE read.next <= LastPage(read.total)
  <2>1. /\ page' = read /\ facts' = facts /\ readsAt'.stage = "later_page"
        /\ readsAt'.target = i
    BY <1>1 DEF ReadPage, At
  <2>2. i \in DOMAIN targets /\ \A j \in 1..(i - 1) : Answered(j)
    BY DEF Reading
  <2> HIDE DEF i
  <2>3. \A j \in 1..(i - 1) : Answered(j)'
    BY <2>1, <2>2 DEF Answered, AnswersTo
  <2>4. \A g \in facts' : FactSound(g)'
    BY <2>1 DEF Reading, FactSound
  <2>5. \A j : PageSound(j, read) => PageSound(j, read)'
    BY DEF PageSound, ReadSoFar
  <2>6. (PageSound(readsAt.target, page) /\ page.next <= LastPage(page.total))'
    <3>1. readsAt'.target = readsAt.target
      BY <2>1 DEF i
    <3> QED BY <1>1, <2>1, <2>5, <3>1 DEF LastPage, Expected
  <2>7. targets[i].command = "list_products"
    BY DEF i
  <2> QED BY <2>1, <2>2, <2>3, <2>4, <2>6, <2>7 DEF Reading
<1>2. CASE ~(read.next <= LastPage(read.total))
  <2> DEFINE f == Fact(i, "products", read.period, read.products, read.total,
                       published[read.period] = read.version, read.whole)
  <2>1. facts' = facts \cup {f} /\ readsAt' = NextTarget(i)
    BY <1>2 DEF ReadPage
  <2>2. read.next > LastPage(read.total)
    <3>1. read.next \in Nat /\ read.total \in Nat
      BY DEF PageSound
    <3> QED BY <1>2, <3>1, Pages
  <2>3. FactSound(f)
    BY <2>2, ListSound
  <2>4. f.target = i /\ f.type = "products"
    BY DEF Fact
  <2> HIDE DEF f
  <2>5. AnswersTo(f, i)
    BY <2>4 DEF AnswersTo
  <2> QED BY <2>1, <2>3, <2>5, AnswerReading
<1> QED BY <1>1, <1>2

\* The first page is read.
LEMMA FirstPageReading ==
    ASSUME Reading, NEW p \in Periods, NEW fits \in BOOLEAN, NEW counted \in BOOLEAN,
           NEW brought \in 0..PageSize, FirstPage(p, fits, counted, brought)
    PROVE  Reading'
<1> DEFINE i == readsAt.target
<1>1. /\ readsAt.stage = "list_products" /\ UNCHANGED <<targets, reports, published>>
      /\ readsAt.stage \in TargetCalls /\ brought \in Nat /\ brought <= OnPage(p, 1)
  BY PageAssumption DEF FirstPage, adapterVars, TargetCalls
<1>2. targets[i].command = "list_products"
  BY <1>1 DEF Reading
<1>3. CASE Bound(i, p, fits) /\ counted
  <2> DEFINE read == [next |-> 2, products |-> PageOf(p, 1, brought), total |-> reports[p],
                      period |-> p, version |-> published[p],
                      whole |-> brought = OnPage(p, 1)]
  <2>1. PageSound(i, read)
    BY <1>1, <1>3, FirstPageSound DEF Bound
  <2>2. ReadPage(i, read)
    BY <1>3 DEF FirstPage
  <2> HIDE DEF read
  <2> QED BY <1>1, <1>2, <2>1, <2>2, PageReading
<1>4. CASE ~(Bound(i, p, fits) /\ counted)
  BY <1>1, <1>4, GiveUpReading DEF FirstPage
<1> QED BY <1>3, <1>4

\* A later page is read.
LEMMA LaterPageReading ==
    ASSUME Reading, NEW p \in Periods, NEW fits \in BOOLEAN, NEW brought \in 0..PageSize,
           LaterPage(p, fits, brought)
    PROVE  Reading'
<1> DEFINE i == readsAt.target
<1>1. /\ readsAt.stage = "later_page" /\ UNCHANGED <<targets, reports, published>>
      /\ readsAt.stage \in TargetCalls /\ brought \in Nat /\ brought <= OnPage(p, page.next)
  BY PageAssumption DEF LaterPage, adapterVars, TargetCalls
<1>2. /\ targets[i].command = "list_products" /\ PageSound(i, page)
      /\ page.next <= LastPage(page.total)
  BY <1>1 DEF Reading
<1>3. CASE Bound(i, p, fits)
  <2> DEFINE read == [page EXCEPT !.next = @ + 1,
                                  !.products = @ \o PageOf(p, page.next, brought),
                                  !.whole = @ /\ brought = OnPage(p, page.next)]
  <2>1. PageSound(i, read)
    BY <1>1, <1>2, <1>3, LaterPageSound DEF Bound
  <2>2. ReadPage(i, read)
    BY <1>3 DEF LaterPage
  <2> HIDE DEF read
  <2> QED BY <1>1, <1>2, <2>1, <2>2, PageReading
<1>4. CASE ~Bound(i, p, fits)
  BY <1>1, <1>4, GiveUpReading DEF LaterPage
<1> QED BY <1>3, <1>4

\* What a step leaves alone stays true.
LEMMA UnchangedReading ==
    ASSUME Reading, UNCHANGED <<reports, published, targets, page, facts>>,
           \/ UNCHANGED readsAt
           \/ readsAt'.stage = "escaped"
    PROVE  Reading'
<1>1. \A i : /\ Answered(i) => Answered(i)'
             /\ PageSound(i, page) => PageSound(i, page)'
  BY DEF Answered, AnswersTo, PageSound, ReadSoFar
<1>2. \A f \in facts' : FactSound(f)'
  BY DEF Reading, FactSound
<1> QED BY <1>1, <1>2 DEF Reading, LastPage, Expected, TargetCalls

\* What is told of reports stays true, step by step.
LEMMA ReadingStep == ASSUME Reading, [ReadsNext]_readsVars PROVE Reading'
<1>1. ASSUME NEW p \in Periods, NEW size \in Sizes, Publish(p, size) PROVE Reading'
  BY <1>1, PublishReading
<1>2. ASSUME NEW t \in Tenants, Redeploy(t) PROVE Reading'
  BY <1>2, UnchangedReading DEF Redeploy
<1>3. ASSUME NEW commands \in CommandLists, NEW resolves \in BOOLEAN,
             BeginReads(commands, resolves)
      PROVE  Reading'
  BY <1>3, BeginReading
<1>4. ASSUME \/ \E periods \in [DOMAIN targets -> Periods \cup {NoPeriod}] : Preflight(periods)
             \/ PreflightFails
      PROVE  Reading'
  BY <1>4, PreflightReading
<1>5. ASSUME Handshake \/ HandshakeFails PROVE Reading'
  BY <1>5, HandshakeReading
<1>6. ASSUME NEW p \in Periods, NEW fits \in BOOLEAN,
             \/ Summary(p, fits) \/ Match(p, fits)
             \/ \E brought \in 0..PageSize :
                    \/ \E counted \in BOOLEAN : FirstPage(p, fits, counted, brought)
                    \/ LaterPage(p, fits, brought)
      PROVE  Reading'
  BY <1>6, SummaryReading, MatchReading, LaterPageReading, FirstPageReading
<1>7. CASE ScopeFails
  BY <1>7, GiveUpReading DEF ScopeFails, adapterVars
<1>8. CASE CallEscapes
  BY <1>8, UnchangedReading DEF CallEscapes, adapterVars, At
<1>9. CASE UNCHANGED readsVars
  BY <1>9, UnchangedReading DEF readsVars, adapterVars
<1> QED BY <1>1, <1>2, <1>3, <1>4, <1>5, <1>6, <1>7, <1>8, <1>9 DEF ReadsNext

\* At first nothing is told and nothing was published.
LEMMA ReadingInit == ASSUME ReadsInit PROVE Reading
<1>1. readsAt.stage = "idle" /\ facts = {} /\ targets = <<>>
  BY DEF ReadsInit, At
<1> QED BY <1>1 DEF ReadsInit, Reading, TargetCalls

\* What a turn is told about reports is what the adapter said about the period in question,
\* complete where it is called so, and of every target something is said
\* (report_scope_binding_error, _collect_products_fact).
THEOREM ReportFactsTheorem == ReadsSpec => []ReportFactsFaithful
<1>1. Reading => ReportFactsFaithful
  <2> SUFFICES ASSUME Reading PROVE ReportFactsFaithful
    OBVIOUS
  <2>1. TargetsAnswered
    BY DEF Reading, TargetsAnswered, Answered, AnswersTo
  <2>2. PeriodsKept /\ ListsComplete
    BY DEF Reading, PeriodsKept, ListsComplete, FactSound
  <2> QED BY <2>1, <2>2 DEF ReportFactsFaithful
<1> QED BY <1>1, ReadingInit, ReadingStep, PTL DEF ReadsSpec

-----------------------------------------------------------------------------
(* What a turn is told of the company. A document is as old as the call it *)
(* was read by and the entry of the cache it was served from allow, and    *)
(* both say whose it is; the images of an entry come with the fact that    *)
(* shows them. The invariant says so of every lookup and of the cache.     *)

\* A lookup has its fields.
Formed(l) ==
    {"at", "authority", "units", "ids", "asked", "docs", "facts", "media"} \subseteq DOMAIN l

\* What a lookup has read at an instant.
ReadFor(l, instant) ==
    \A d \in Range(l.docs) :
        /\ d.read \in Int /\ l.asked <= d.read /\ d.read <= instant
        /\ d.authority = l.authority

\* What it tells its turn.
ToldBy(l) ==
    /\ \A f \in l.facts :
        /\ f.source = "document" => f.authority = l.authority /\ f.age <= Ttl + CallTime
        /\ f.source = "static" => f.shows = {m.image : m \in {b \in l.media : b.fact = f}}
    /\ \A m \in l.media : m.fact \in l.facts /\ m.fact.source = "static"
    /\ l.authority \in Direct => l.media = {}

LookupSound(l, instant) ==
    /\ Formed(l)
    /\ l.at \in {"fetching", "answered"} =>
        l.asked \in Int /\ l.asked <= instant /\ instant <= l.asked + CallTime
    /\ l.at = "answered" => ReadFor(l, instant)
    /\ ToldBy(l)

\* What is kept under a key is that authority's, and runs out in time.
EntrySound(key) ==
    /\ cache[key].expires \in Int
    /\ \A d \in Range(cache[key].docs) :
        /\ d.read \in Int /\ d.read <= now
        /\ d.authority = key[1]
        /\ cache[key].expires <= d.read + Ttl + CallTime

Knowing ==
    /\ now \in Nat
    /\ lookups = [t \in Lookups |-> lookups[t]]
    /\ \A t \in Lookups : LookupSound(lookups[t], now)
    /\ \A key \in DOMAIN cache : EntrySound(key)

LEMMA TtlNat == Ttl \in Nat /\ CallTime \in Nat
BY KnowledgeAssumption

\* A step of one lookup.
LEMMA OneLookup ==
    ASSUME Knowing, NEW t \in Lookups, NEW l, lookups' = [lookups EXCEPT ![t] = l],
           UNCHANGED now, LookupSound(l, now),
           \A key \in DOMAIN cache' : EntrySound(key)'
    PROVE  Knowing'
<1>1. lookups' = [u \in Lookups |-> lookups'[u]]
  BY DEF Knowing
<1>2. ASSUME NEW u \in Lookups PROVE LookupSound(lookups'[u], now')
  BY DEF Knowing
<1> QED BY <1>1, <1>2 DEF Knowing

\* A lookup that goes on keeps what it has told.
LEMMA MovesSound ==
    ASSUME NEW l, NEW instant, LookupSound(l, instant), NEW m, Formed(m),
           m.authority = l.authority, m.facts = l.facts, m.media = l.media,
           m.at # "answered",
           m.at = "fetching" =>
            m.asked \in Int /\ m.asked <= instant /\ instant <= m.asked + CallTime
    PROVE  LookupSound(m, instant)
BY DEF LookupSound, ToldBy

\* Documents that were read for it, and not too long ago, may be told.
LEMMA DocumentedSound ==
    ASSUME Knowing, NEW t \in Lookups, NEW docs, Documented(t, docs) = lookups',
           UNCHANGED now,
           \A d \in Range(docs) : /\ d.authority = lookups[t].authority
                                  /\ now - d.read <= Ttl + CallTime,
           \A key \in DOMAIN cache' : EntrySound(key)'
    PROVE  Knowing'
<1> DEFINE l == lookups[t]
           told == document_fact(t, docs)
           m == [l EXCEPT !.at = "static", !.facts = @ \cup told, !.docs = <<>>, !.ids = <<>>]
<1>1. LookupSound(l, now) /\ Formed(l) /\ ToldBy(l)
  BY DEF Knowing, LookupSound
<1>2. lookups' = [lookups EXCEPT ![t] = m]
  BY DEF Documented, Knowing
<1>3. \A f \in told : /\ f.source = "document" /\ f.authority = l.authority
                       /\ f.age <= Ttl + CallTime
  BY DEF document_fact
<1> HIDE DEF told, l
<1>4. /\ Formed(m) /\ m.facts = l.facts \cup told /\ m.media = l.media
      /\ m.authority = l.authority /\ m.at = "static"
  BY <1>1 DEF Formed
<1> HIDE DEF m
<1>5. ToldBy(m)
  BY <1>1, <1>3, <1>4 DEF ToldBy
<1>6. LookupSound(m, now)
  BY <1>4, <1>5 DEF LookupSound
<1> QED BY <1>2, <1>6, OneLookup

\* A lookup that has told nothing is sound.
LEMMA NoLookupSound ==
    ASSUME NEW instant, NEW l, Formed(l), l.at \notin {"fetching", "answered"},
           l.facts = {}, l.media = {}
    PROVE  LookupSound(l, instant)
BY DEF LookupSound, ToldBy

\* Time passes only while the server's answers may still be on their way.
LEMMA TickKnowing == ASSUME Knowing, KnowledgeTick PROVE Knowing'
<1>1. now' = now + 1 /\ now \in Nat /\ UNCHANGED <<cache, lookups>>
  BY DEF KnowledgeTick, Knowing
<1>2. ASSUME NEW t \in Lookups PROVE LookupSound(lookups[t], now + 1)
  <2>1. LookupSound(lookups[t], now)
    BY DEF Knowing
  <2>2. lookups[t].at \in {"fetching", "answered"} =>
            /\ lookups[t].asked \in Int /\ lookups[t].asked <= now
            /\ now < lookups[t].asked + CallTime
    BY <2>1 DEF LookupSound, KnowledgeTick, Calling
  <2>3. lookups[t].at \in {"fetching", "answered"} =>
            lookups[t].asked <= now + 1 /\ now + 1 <= lookups[t].asked + CallTime
    BY <1>1, <2>2, TtlNat
  <2>4. ReadFor(lookups[t], now) => ReadFor(lookups[t], now + 1)
    BY <1>1 DEF ReadFor
  <2> QED BY <2>1, <2>2, <2>3, <2>4 DEF LookupSound
<1>3. ASSUME NEW key \in DOMAIN cache PROVE EntrySound(key)'
  <2>1. EntrySound(key)
    BY DEF Knowing
  <2> QED BY <1>1, <2>1 DEF EntrySound
<1> QED BY <1>1, <1>2, <1>3 DEF Knowing

\* A key is its lookup's conversation's.
LEMMA KeyAuthority ==
    ASSUME NEW t PROVE key_for_document_query(t)[1] = lookups[t].authority
BY DEF key_for_document_query

\* What is served from the cache has not run out.
LEMMA HitKnowing ==
    ASSUME Knowing, NEW t \in Lookups, CacheHit(t) PROVE Knowing'
<1> DEFINE key == key_for_document_query(t)
<1>1. /\ key \in DOMAIN cache /\ cache[key].expires > now
      /\ Documented(t, cache[key].docs) = lookups' /\ UNCHANGED <<now, cache>>
  BY DEF CacheHit, Hit
<1>2. EntrySound(key) /\ now \in Nat /\ key[1] = lookups[t].authority
  BY <1>1, KeyAuthority DEF Knowing
<1> HIDE DEF key
<1>3. ASSUME NEW d \in Range(cache[key].docs)
      PROVE  d.authority = lookups[t].authority /\ now - d.read <= Ttl + CallTime
  BY <1>1, <1>2, TtlNat DEF EntrySound
<1>4. \A k \in DOMAIN cache' : EntrySound(k)'
  BY <1>1 DEF Knowing, EntrySound
<1> QED BY <1>1, <1>3, <1>4, DocumentedSound

\* A read begins, and what has run out is not kept.
LEMMA MissKnowing ==
    ASSUME Knowing, NEW t \in Lookups, CacheMiss(t) PROVE Knowing'
<1> DEFINE m == [lookups[t] EXCEPT !.at = "fetching", !.asked = now]
<1>1. lookups' = [lookups EXCEPT ![t] = m] /\ now' = now
  BY DEF CacheMiss, Knowing
<1>2. LookupSound(lookups[t], now) /\ now \in Nat
  BY DEF Knowing
<1>3. /\ Formed(m) /\ m.at = "fetching" /\ m.asked = now
      /\ m.authority = lookups[t].authority /\ m.facts = lookups[t].facts
      /\ m.media = lookups[t].media
  BY <1>2 DEF LookupSound, Formed
<1> HIDE DEF m
<1>4. LookupSound(m, now)
  BY <1>2, <1>3, TtlNat, MovesSound
<1>5. \A k \in DOMAIN cache' : k \in DOMAIN cache /\ cache'[k] = cache[k]
  BY DEF CacheMiss, Restrict
<1>6. \A k \in DOMAIN cache' : EntrySound(k)'
  BY <1>1, <1>5 DEF Knowing, EntrySound
<1> QED BY <1>1, <1>4, <1>6, OneLookup

\* The server's answer is read now, for the lookup that asked for it.
LEMMA AnswerKnowing ==
    ASSUME Knowing, NEW t \in Lookups, ServerAnswers(t) PROVE Knowing'
<1> DEFINE l == lookups[t]
           ids == SelectSeq(l.ids, LAMBDA d : d \in corpus)
           docs == [k \in DOMAIN ids |->
                        [id |-> ids[k], read |-> now, authority |-> l.authority]]
           m == [l EXCEPT !.at = "answered", !.docs = docs]
<1>1. lookups' = [lookups EXCEPT ![t] = m] /\ UNCHANGED <<now, cache>> /\ l.at = "fetching"
  BY DEF ServerAnswers, Knowing
<1>2. LookupSound(l, now) /\ now \in Nat
  BY DEF Knowing
<1> HIDE DEF ids
<1>3. \A d \in Range(docs) : d.read = now /\ d.authority = l.authority
  <2>1. \A k \in DOMAIN docs : docs[k].read = now /\ docs[k].authority = l.authority
    OBVIOUS
  <2> HIDE DEF docs
  <2> QED BY <2>1 DEF Range
<1> HIDE DEF docs, l
<1>4. /\ Formed(m) /\ m.at = "answered" /\ m.asked = l.asked /\ m.docs = docs
      /\ m.authority = l.authority /\ m.facts = l.facts /\ m.media = l.media
  BY <1>2 DEF LookupSound, Formed
<1> HIDE DEF m
<1>5. l.asked \in Int /\ l.asked <= now /\ now <= l.asked + CallTime
  BY <1>1, <1>2 DEF LookupSound
<1>6. ReadFor(m, now)
  BY <1>2, <1>3, <1>4, <1>5 DEF ReadFor
<1>7. LookupSound(m, now)
  BY <1>2, <1>4, <1>5, <1>6 DEF LookupSound, ToldBy
<1>8. \A k \in DOMAIN cache' : EntrySound(k)'
  BY <1>1 DEF Knowing, EntrySound
<1> QED BY <1>1, <1>7, <1>8, OneLookup

\* What is stored was read since its lookup asked for it.
LEMMA StoreKnowing ==
    ASSUME Knowing, NEW t \in Lookups, Store(t) PROVE Knowing'
<1> DEFINE l == lookups[t]
           key == key_for_document_query(t)
<1>1. /\ Documented(t, l.docs) = lookups' /\ now' = now /\ l.at = "answered"
      /\ cache' = IF Ttl > 0
                  THEN [k \in DOMAIN cache \cup {key} |->
                          IF k = key THEN [docs |-> l.docs, expires |-> now + Ttl] ELSE cache[k]]
                  ELSE cache
  BY DEF Store
<1>2. /\ LookupSound(l, now) /\ now \in Nat /\ key[1] = l.authority
      /\ \A k \in DOMAIN cache : EntrySound(k)
  BY KeyAuthority DEF Knowing
<1> HIDE DEF l, key
<1>3. /\ l.asked \in Int /\ now <= l.asked + CallTime
      /\ \A d \in Range(l.docs) : /\ d.read \in Int /\ l.asked <= d.read /\ d.read <= now
                                  /\ d.authority = l.authority
  BY <1>1, <1>2 DEF LookupSound, ReadFor
<1>4. \A d \in Range(l.docs) : d.authority = l.authority /\ now - d.read <= Ttl + CallTime
  BY <1>2, <1>3, TtlNat
<1>5. ASSUME NEW k \in DOMAIN cache' PROVE EntrySound(k)'
  <2>1. CASE Ttl > 0 /\ k = key
    <3>1. cache'[k].docs = l.docs /\ cache'[k].expires = now + Ttl
      BY <1>1, <2>1
    <3>2. \A d \in Range(l.docs) : now + Ttl <= d.read + Ttl + CallTime
      BY <1>2, <1>3, TtlNat
    <3> QED BY <1>1, <1>2, <1>3, <2>1, <3>1, <3>2, TtlNat DEF EntrySound
  <2>2. CASE ~(Ttl > 0 /\ k = key)
    <3>1. k \in DOMAIN cache /\ cache'[k] = cache[k]
      BY <1>1, <2>2
    <3> QED BY <1>1, <1>2, <3>1 DEF EntrySound
  <2> QED BY <2>1, <2>2
<1> QED BY <1>1, <1>4, <1>5, DocumentedSound DEF l

\* An entry's fact shows the images that are bound to it, and a direct conversation none.
LEMMA EntryKnowing ==
    ASSUME Knowing, NEW t \in Lookups, NEW entries, NEW images \in BoundedSeq(Images, 2),
           SelectEntry(t, entries, images)
    PROVE  Knowing'
<1> DEFINE l == lookups[t]
           shown(e) == ImagesOf(t, e, images)
           factsOf(e) == static_fact(t, e, shown(e))
           told == UNION {factsOf(e) : e \in EntryOf(entries)}
           media == UNION {[fact : factsOf(e), image : shown(e)] : e \in EntryOf(entries)}
           m == [l EXCEPT !.at = "unit", !.units = Tail(@), !.facts = @ \cup told,
                          !.media = @ \cup media]
<1>1. lookups' = [lookups EXCEPT ![t] = m] /\ UNCHANGED <<now, cache>>
  BY DEF SelectEntry, Knowing
<1>2. LookupSound(l, now) /\ Formed(l) /\ ToldBy(l)
  BY DEF Knowing, LookupSound
<1>3. \A e : \A f \in factsOf(e) : f.source = "static" /\ f.shows = shown(e) /\ f.entry = e
  BY DEF static_fact, ShowsSelected
<1>4. l.authority \in Direct => \A e : shown(e) = {}
  <2> SUFFICES ASSUME l.authority \in Direct, NEW e, NEW i \in shown(e) PROVE FALSE
    OBVIOUS
  <2>1. ImageLimit(t) = 0
    BY DEF ImageLimit
  <2> DEFINE known == {k \in DOMAIN images : /\ images[k] \in Catalog[e].images
                                             /\ \A j \in 1..(k - 1) : images[j] # images[k]}
  <2>2. PICK k \in known : Cardinality({j \in known : j <= k}) <= 0
    BY <2>1 DEF ImagesOf
  <2>3. PICK n \in Nat : DOMAIN images = 1..n
    <3>1. images \in UNION {[1..size -> Images] : size \in 0..2}
      BY DEF BoundedSeq, SeqOf
    <3>2. PICK size \in 0..2 : images \in [1..size -> Images]
      BY <3>1
    <3> QED BY <3>2
  <2>4. IsFiniteSet(DOMAIN images)
    BY <2>3, FS_Interval
  <2>5. IsFiniteSet({j \in known : j <= k})
    <3>1. {j \in known : j <= k} \subseteq DOMAIN images
      OBVIOUS
    <3> QED BY <2>4, <3>1, FS_Subset
  <2>6. k \in {j \in known : j <= k}
    BY <2>2, <2>3
  <2> HIDE DEF known
  <2>7. Cardinality({j \in known : j <= k}) \in Nat
    BY <2>5, FS_CardinalityType
  <2>8. Cardinality({j \in known : j <= k}) = 0
    BY <2>2, <2>7
  <2> QED BY <2>5, <2>6, <2>8, FS_EmptySet
<1> HIDE DEF shown, factsOf
<1>5. \A f \in told : f.source = "static" /\ f.shows = shown(f.entry) /\ f \in factsOf(f.entry)
                       /\ f.entry \in EntryOf(entries)
  BY <1>3
<1>6. \A b : b \in media <=> \E e \in EntryOf(entries) :
                                 b \in [fact : factsOf(e), image : shown(e)]
  OBVIOUS
<1> HIDE DEF told, media, l
<1>7. /\ Formed(m) /\ m.at = "unit" /\ m.facts = l.facts \cup told
      /\ m.media = l.media \cup media /\ m.authority = l.authority
  BY <1>2 DEF Formed
<1> HIDE DEF m
<1>8. \A b \in media : /\ b.fact \in told /\ b.fact.source = "static"
                       /\ b.image \in b.fact.shows
  BY <1>3, <1>6 DEF told
<1>9. \A f \in told : \A i \in f.shows : [fact |-> f, image |-> i] \in media
  BY <1>5, <1>6
<1>10. ASSUME NEW f \in m.facts, f.source = "static"
       PROVE  f.shows = {x.image : x \in {b \in m.media : b.fact = f}}
  <2>1. ASSUME NEW b \in m.media, b.fact = f PROVE b.image \in f.shows
    BY <1>2, <1>7, <1>8, <1>10, <2>1 DEF ToldBy
  <2>2. ASSUME NEW i \in f.shows PROVE \E b \in m.media : b.fact = f /\ b.image = i
    <3>1. CASE f \in l.facts
      <4>1. f.shows = {x.image : x \in {b \in l.media : b.fact = f}}
        BY <1>2, <1>10, <3>1 DEF ToldBy
      <4> QED BY <1>7, <2>2, <4>1
    <3>2. CASE f \in told
      <4>1. [fact |-> f, image |-> i] \in m.media
        BY <1>7, <1>9, <2>2, <3>2
      <4> QED BY <4>1
    <3> QED BY <1>7, <3>1, <3>2
  <2> QED BY <2>1, <2>2
<1>11. \A b \in m.media : b.fact \in m.facts /\ b.fact.source = "static"
  BY <1>2, <1>7, <1>8 DEF ToldBy
<1>12. m.authority \in Direct => m.media = {}
  <2>1. l.authority \in Direct => media = {}
    BY <1>4, <1>6
  <2> QED BY <1>2, <1>7, <2>1 DEF ToldBy
<1>13. \A f \in m.facts : f.source = "document" =>
            f.authority = m.authority /\ f.age <= Ttl + CallTime
  BY <1>2, <1>5, <1>7 DEF ToldBy
<1>14. LookupSound(m, now)
  BY <1>7, <1>10, <1>11, <1>12, <1>13 DEF LookupSound, ToldBy
<1>15. \A k \in DOMAIN cache' : EntrySound(k)'
  BY <1>1 DEF Knowing, EntrySound
<1> QED BY <1>1, <1>14, <1>15, OneLookup

\* The first state knows nothing.
LEMMA KnowingInit == ASSUME KnowledgeInit PROVE Knowing
<1>1. \A t \in Lookups : LookupSound(NoLookup, 0)
  BY NoLookupSound DEF NoLookup, Formed
<1>2. DOMAIN cache = {}
  BY DEF KnowledgeInit
<1> QED BY <1>1, <1>2 DEF KnowledgeInit, Knowing

\* A step that leaves the cache and the time alone leaves what is kept sound.
LEMMA CacheKept ==
    ASSUME Knowing, UNCHANGED <<now, cache>> PROVE \A key \in DOMAIN cache' : EntrySound(key)'
BY DEF Knowing, EntrySound

\* A lookup begins with nothing told, and goes on to its next unit.
LEMMA UnitsKnowing ==
    ASSUME Knowing, NEW t \in Lookups,
           \/ \E authority, units : Begin(t, authority, units)
           \/ NextUnit(t)
           \/ \E selection : SelectDocuments(t, selection)
    PROVE  Knowing'
<1>1. UNCHANGED <<now, cache>>
  BY DEF Begin, NextUnit, SelectDocuments
<1>2. LookupSound(lookups[t], now) /\ Formed(lookups[t])
  BY DEF Knowing, LookupSound
<1>3. ASSUME NEW authority, NEW units, Begin(t, authority, units) PROVE Knowing'
  <2> DEFINE m == [NoLookup EXCEPT !.at = "unit", !.authority = authority, !.units = units]
  <2>1. lookups' = [lookups EXCEPT ![t] = m]
    BY <1>3 DEF Begin
  <2>2. LookupSound(m, now)
    BY NoLookupSound DEF NoLookup, Formed
  <2> QED BY <1>1, <2>1, <2>2, CacheKept, OneLookup
<1>4. CASE NextUnit(t)
  <2> DEFINE l == lookups[t]
             m == IF l.units = <<>> THEN [l EXCEPT !.at = "done"]
                  ELSE IF Query(t) = NoLookupQuery THEN [l EXCEPT !.units = Tail(@)]
                  ELSE [l EXCEPT !.at = "listing"]
  <2>1. lookups' = [lookups EXCEPT ![t] = m] /\ l.at = "unit"
    BY <1>4 DEF NextUnit, Knowing
  <2>2. /\ Formed(m) /\ m.authority = l.authority /\ m.facts = l.facts /\ m.media = l.media
        /\ m.at \in {"done", "unit", "listing"}
    BY <1>2, <2>1 DEF Formed
  <2>3. LookupSound(m, now)
    BY <1>2, <2>2, MovesSound
  <2> QED BY <1>1, <2>1, <2>3, CacheKept, OneLookup
<1>5. ASSUME NEW selection, SelectDocuments(t, selection) PROVE Knowing'
  <2> DEFINE l == lookups[t]
             ids == selected_with_fallback_ids(
                        validated_selected_document_ids(selection, list_products),
                        fallback_document_ids(list_products))
             m == [l EXCEPT !.ids = ids, !.at = IF ids = <<>> THEN "static" ELSE "documents"]
  <2> HIDE DEF ids
  <2>1. lookups' = [lookups EXCEPT ![t] = m]
    BY <1>5 DEF SelectDocuments, Knowing, ids
  <2>2. /\ Formed(m) /\ m.authority = l.authority /\ m.facts = l.facts /\ m.media = l.media
        /\ m.at \in {"static", "documents"}
    BY <1>2 DEF Formed
  <2>3. LookupSound(m, now)
    BY <1>2, <2>2, MovesSound
  <2> QED BY <1>1, <2>1, <2>3, CacheKept, OneLookup
<1> QED BY <1>3, <1>4, <1>5

\* A lookup that fails tells its turn no document, or nothing at all.
LEMMA FailureKnowing ==
    ASSUME Knowing, NEW t \in Lookups, NoDocuments(t) \/ LookupEscapes(t) PROVE Knowing'
<1>1. UNCHANGED <<now, cache>>
  BY DEF NoDocuments, LookupEscapes
<1>2. CASE NoDocuments(t)
  <2>1. Documented(t, <<>>) = lookups'
    BY <1>2 DEF NoDocuments
  <2>2. Range(<<>>) = {}
    BY DEF Range
  <2> QED BY <1>1, <2>1, <2>2, CacheKept, DocumentedSound
<1>3. CASE LookupEscapes(t)
  <2> DEFINE m == [NoLookup EXCEPT !.at = "escaped"]
  <2>1. lookups' = [lookups EXCEPT ![t] = m]
    BY <1>3 DEF LookupEscapes
  <2>2. LookupSound(m, now)
    BY NoLookupSound DEF NoLookup, Formed
  <2> QED BY <1>1, <2>1, <2>2, CacheKept, OneLookup
<1> QED BY <1>2, <1>3

\* What is known stays sound, step by step.
LEMMA KnowingStep ==
    ASSUME Knowing, [KnowledgeNext]_knowledgeVars PROVE Knowing'
<1>1. CASE KnowledgeTick
  BY <1>1, TickKnowing
<1>2. ASSUME NEW d \in Documents, PublishDocument(d) PROVE Knowing'
  BY <1>2 DEF PublishDocument, Knowing, EntrySound
<1>3. ASSUME NEW t \in Lookups,
             \/ \E authority \in Authorities, units \in BoundedSeq(LookupQueries, MaxUnits) :
                   Begin(t, authority, units)
             \/ NextUnit(t)
             \/ \E selection \in SelectorAnswers(list_products) : SelectDocuments(t, selection)
      PROVE  Knowing'
  BY <1>3, UnitsKnowing
<1>4. ASSUME NEW t \in Lookups, CacheHit(t) \/ CacheMiss(t) \/ ServerAnswers(t) \/ Store(t)
      PROVE  Knowing'
  BY <1>4, HitKnowing, MissKnowing, AnswerKnowing, StoreKnowing
<1>5. ASSUME NEW t \in Lookups, NoDocuments(t) \/ LookupEscapes(t) PROVE Knowing'
  BY <1>5, FailureKnowing
<1>6. ASSUME NEW t \in Lookups, NEW entries \in Selections(2),
             NEW images \in BoundedSeq(Images, 2), SelectEntry(t, entries, images)
      PROVE  Knowing'
  BY <1>6, EntryKnowing
<1>7. CASE UNCHANGED knowledgeVars
  BY <1>7 DEF knowledgeVars, Knowing, EntrySound
<1> QED BY <1>1, <1>2, <1>3, <1>4, <1>5, <1>6, <1>7 DEF KnowledgeNext

\* A document a turn is told was read for its own conversation, policy and scope and is no
\* older than the cache and the call allow, and every image bound to a fact is one its text
\* shows (InternalCompanyKnowledgeGatewayV1.collect).
THEOREM KnowledgeTheorem == KnowledgeSpec => []KnowledgeSound
<1>1. Knowing => KnowledgeSound
  BY DEF Knowing, LookupSound, ToldBy, KnowledgeSound, DocumentsOwnAndFresh, MediaShown
<1> QED BY <1>1, KnowingInit, KnowingStep, PTL DEF KnowledgeSpec

-----------------------------------------------------------------------------
(* What is recalled. The candidates that are the best of their keys are    *)
(* strictly ordered, so that the number of those ahead of one numbers them *)
(* from 0 on, and the first of that order are shown.                       *)

\* Some candidates of a source, under the places they were ranked at.
FoundBy(source, candidates) ==
    /\ candidates = [k \in DOMAIN candidates |-> candidates[k]]
    /\ DOMAIN candidates \subseteq 1..TopK
    /\ \A k \in DOMAIN candidates :
        /\ candidates[k].source = source /\ candidates[k].id \in Nat
        /\ candidates[k].confidence \in 0..100

\* Candidates that no two of have one key.
Rankable(best) ==
    /\ IsFiniteSet(best)
    /\ \A c \in best : /\ c.source \in {"approved_static", "document_mcp"}
                       /\ c.id \in Nat /\ c.confidence \in Nat
    /\ \A c, d \in best : SameKey(c, d) => c = d

\* Of some numbers one is the least.
LEMMA LeastNumber ==
    ASSUME NEW S \in SUBSET Nat, S # {} PROVE \E n \in S : \A m \in S : n <= m
<1> DEFINE T == {0 .. m : m \in S}
<1>1. T # {} /\ T \subseteq FiniteSubsetsOf(Nat)
  <2>1. \A m \in S : 0 .. m \in SUBSET Nat /\ IsFiniteSet(0 .. m)
    BY FS_Interval
  <2> QED BY <2>1 DEF FiniteSubsetsOf
<1> HIDE DEF T
<1>2. PICK X \in T : \A Y \in T : ~(<<Y, X>> \in StrictSubsetOrdering(Nat))
  BY <1>1, FS_StrictSubsetOrderingWellFounded, WFMin
<1>3. PICK n \in S : X = 0 .. n
  BY DEF T
<1>4. ASSUME NEW m \in S, m < n PROVE FALSE
  <2>1. 0 .. m \in T
    BY DEF T
  <2>2. 0 .. m \subseteq 0 .. n /\ n \in 0 .. n /\ n \notin 0 .. m
    BY <1>4
  <2>3. 0 .. m \in SUBSET Nat /\ 0 .. n \in SUBSET Nat /\ 0 .. m # 0 .. n
    BY <2>2
  <2>4. <<0 .. m, 0 .. n>> \in StrictSubsetOrdering(Nat)
    BY <2>2, <2>3, Zenon DEF StrictSubsetOrdering
  <2> QED BY <1>2, <1>3, <2>1, <2>4
<1> QED BY <1>4

\* The first of some places is one of them.
LEMMA FirstPlace ==
    ASSUME NEW places \in SUBSET Nat, places # {}
    PROVE  FirstOf(places) \in places /\ \A j \in places : FirstOf(places) <= j
BY LeastNumber DEF FirstOf

\* The best candidates are candidates, of which there are finitely many.
LEMMA BestFinite ==
    ASSUME NEW source, NEW candidates, FoundBy(source, candidates)
    PROVE  /\ BestOfKeys(candidates) \subseteq Range(candidates)
           /\ IsFiniteSet(Range(candidates)) /\ IsFiniteSet(BestOfKeys(candidates))
<1>1. BestOfKeys(candidates) \subseteq Range(candidates)
  BY DEF BestOfKeys, Range
<1>2. IsFiniteSet(DOMAIN candidates)
  <2>1. IsFiniteSet(1..TopK)
    BY RowsAssumption, FS_Interval
  <2> QED BY <2>1, FS_Subset DEF FoundBy
<1>3. candidates \in Surjection(DOMAIN candidates, Range(candidates))
  BY DEF FoundBy, Range, Surjection
<1>4. IsFiniteSet(Range(candidates))
  BY <1>2, <1>3, FS_Surjection
<1> QED BY <1>1, <1>4, FS_Subset

\* A key has one best candidate.
LEMMA BestUnique ==
    ASSUME NEW source, NEW candidates, FoundBy(source, candidates),
           NEW c \in BestOfKeys(candidates), NEW d \in BestOfKeys(candidates), SameKey(c, d)
    PROVE  c = d
<1>1. PICK i \in DOMAIN candidates :
        /\ c = candidates[i]
        /\ \A j \in DOMAIN candidates : SameKey(candidates[j], candidates[i]) =>
            \/ candidates[j].confidence < candidates[i].confidence
            \/ candidates[j].confidence = candidates[i].confidence /\ j >= i
  BY DEF BestOfKeys
<1>2. PICK k \in DOMAIN candidates :
        /\ d = candidates[k]
        /\ \A j \in DOMAIN candidates : SameKey(candidates[j], candidates[k]) =>
            \/ candidates[j].confidence < candidates[k].confidence
            \/ candidates[j].confidence = candidates[k].confidence /\ j >= k
  BY DEF BestOfKeys
<1>3. SameKey(candidates[i], candidates[k]) /\ SameKey(candidates[k], candidates[i])
  BY <1>1, <1>2 DEF SameKey
<1>4. i \in Int /\ k \in Int /\ c.confidence \in Int /\ d.confidence \in Int
  BY <1>1, <1>2 DEF FoundBy
<1>5. i = k
  BY <1>1, <1>2, <1>3, <1>4
<1> QED BY <1>1, <1>2, <1>5

\* Every candidate's key has one, which is no worse than it.
LEMMA BestExists ==
    ASSUME NEW source, NEW candidates, FoundBy(source, candidates), NEW c \in Range(candidates)
    PROVE  \E d \in BestOfKeys(candidates) : SameKey(c, d) /\ d.confidence >= c.confidence
<1>1. PICK n \in DOMAIN candidates : c = candidates[n]
  BY DEF Range
<1> DEFINE K == {k \in DOMAIN candidates : SameKey(candidates[k], c)}
           R == {100 - candidates[k].confidence : k \in K}
<1>2. n \in K /\ \A k \in K : candidates[k].confidence \in 0..100 /\ k \in Nat
  BY <1>1, RowsAssumption DEF FoundBy, SameKey
<1>3. R \in SUBSET Nat /\ R # {}
  BY <1>2
<1>4. PICK r \in R : \A x \in R : r <= x
  BY <1>3, LeastNumber
<1>5. PICK h \in K : r = 100 - candidates[h].confidence
  OBVIOUS
<1>6. \A k \in K : candidates[k].confidence <= candidates[h].confidence
  <2>1. \A k \in K : 100 - candidates[k].confidence \in R
    OBVIOUS
  <2>2. \A k \in K : r <= 100 - candidates[k].confidence
    BY <1>4, <2>1
  <2> HIDE DEF K, R
  <2> SUFFICES ASSUME NEW k \in K
               PROVE  candidates[k].confidence <= candidates[h].confidence
    OBVIOUS
  <2>3. candidates[k].confidence \in 0..100 /\ candidates[h].confidence \in 0..100
    BY <1>2, <1>5
  <2>4. 100 - candidates[h].confidence <= 100 - candidates[k].confidence
    BY <1>5, <2>2
  <2>5. \A a, b \in 0..100 : 100 - a <= 100 - b => b <= a
    OBVIOUS
  <2> QED BY <2>3, <2>4, <2>5, Zenon
<1> DEFINE L == {k \in K : candidates[k].confidence = candidates[h].confidence}
<1>7. L \in SUBSET Nat /\ h \in L
  BY <1>2, <1>5
<1>8. PICK b \in L : \A k \in L : b <= k
  BY <1>7, LeastNumber
<1>9. b \in K /\ candidates[b].confidence = candidates[h].confidence /\ b \in DOMAIN candidates
  BY <1>8
<1>10. ASSUME NEW j \in DOMAIN candidates, SameKey(candidates[j], candidates[b])
       PROVE  \/ candidates[j].confidence < candidates[b].confidence
              \/ candidates[j].confidence = candidates[b].confidence /\ j >= b
  <2>1. j \in K
    BY <1>9, <1>10 DEF SameKey
  <2>2. candidates[j].confidence <= candidates[b].confidence
    BY <1>6, <1>9, <2>1
  <2>3. candidates[j].confidence = candidates[b].confidence => j \in L
    BY <1>9, <2>1
  <2>4. candidates[j].confidence = candidates[b].confidence => b <= j
    BY <1>8, <2>3
  <2>5. /\ candidates[j].confidence \in 0..100 /\ j \in Nat
        /\ candidates[b].confidence \in 0..100 /\ b \in Nat
    BY <1>2, <1>9, <2>1
  <2>6. \A x, y \in 0..100, m, l \in Nat :
            x <= y /\ (x = y => l <= m) => x < y \/ (x = y /\ m >= l)
    OBVIOUS
  <2> HIDE DEF K, R, L
  <2> QED BY <2>2, <2>4, <2>5, <2>6, Zenon
<1>11. candidates[b] \in BestOfKeys(candidates)
  BY <1>9, <1>10 DEF BestOfKeys
<1>12. SameKey(c, candidates[b]) /\ candidates[b].confidence >= c.confidence
  BY <1>1, <1>2, <1>6, <1>9 DEF SameKey
<1> QED BY <1>11, <1>12

\* The best of both sources may be ranked.
LEMMA BestRankable ==
    ASSUME NEW static, NEW document,
           FoundBy("approved_static", static), FoundBy("document_mcp", document)
    PROVE  Rankable(BestOfKeys(static) \cup BestOfKeys(document))
<1>1. /\ BestOfKeys(static) \subseteq Range(static) /\ IsFiniteSet(BestOfKeys(static))
      /\ BestOfKeys(document) \subseteq Range(document) /\ IsFiniteSet(BestOfKeys(document))
  BY BestFinite
<1>2. \A c \in BestOfKeys(static) :
          c.source = "approved_static" /\ c.id \in Nat /\ c.confidence \in Nat
  BY <1>1 DEF Range, FoundBy
<1>3. \A c \in BestOfKeys(document) :
          c.source = "document_mcp" /\ c.id \in Nat /\ c.confidence \in Nat
  BY <1>1 DEF Range, FoundBy
<1>4. ASSUME NEW c \in BestOfKeys(static) \cup BestOfKeys(document),
             NEW d \in BestOfKeys(static) \cup BestOfKeys(document), SameKey(c, d)
      PROVE  c = d
  <2>1. c.source = d.source
    BY <1>4 DEF SameKey
  <2>2. \/ c \in BestOfKeys(static) /\ d \in BestOfKeys(static)
        \/ c \in BestOfKeys(document) /\ d \in BestOfKeys(document)
    BY <1>2, <1>3, <2>1
  <2> QED BY <1>4, <2>2, BestUnique
<1>5. IsFiniteSet(BestOfKeys(static) \cup BestOfKeys(document))
  BY <1>1, FS_Union
<1> QED BY <1>2, <1>3, <1>4, <1>5 DEF Rankable

\* The order of the best is strict, and total.
LEMMA AheadOrder ==
    ASSUME NEW best, Rankable(best), NEW c \in best, NEW d \in best, NEW e \in best
    PROVE  /\ ~Ahead(c, c)
           /\ c # d => Ahead(c, d) \/ Ahead(d, c)
           /\ Ahead(c, d) /\ Ahead(d, e) => Ahead(c, e)
           /\ c.confidence > d.confidence => Ahead(c, d)
BY DEF Rankable, Ahead, SameKey

\* How many precede one is a number below that of all.
LEMMA PrecedingBound ==
    ASSUME NEW best, Rankable(best), NEW c \in best
    PROVE  Cardinality(best) \in Nat /\ Preceding(c, best) \in 0..(Cardinality(best) - 1)
<1> DEFINE S == {d \in best : Ahead(d, c)}
<1>1. IsFiniteSet(best) /\ c \in best /\ c \notin S /\ S \subseteq best
  BY AheadOrder DEF Rankable
<1> HIDE DEF S
<1>2. S \in SUBSET (best \ {c})
  BY <1>1
<1>3. IsFiniteSet(best \ {c}) /\ Cardinality(best \ {c}) = Cardinality(best) - 1
  BY <1>1, FS_RemoveElement
<1>4. IsFiniteSet(S) /\ Cardinality(S) <= Cardinality(best) - 1
  BY <1>2, <1>3, FS_Subset
<1>5. Cardinality(best) \in Nat /\ Cardinality(S) \in Nat
  BY <1>1, <1>4, FS_CardinalityType
<1> QED BY <1>4, <1>5 DEF S, Preceding

\* More precede what is behind.
LEMMA PrecedingGrows ==
    ASSUME NEW best, Rankable(best), NEW c \in best, NEW d \in best, Ahead(c, d)
    PROVE  Preceding(c, best) < Preceding(d, best)
<1> DEFINE S == {e \in best : Ahead(e, c)}
           T == {e \in best : Ahead(e, d)}
<1>1. IsFiniteSet(best) /\ S \subseteq T /\ T \subseteq best /\ c \in T /\ c \notin S
  BY AheadOrder DEF Rankable
<1>2. Preceding(c, best) = Cardinality(S) /\ Preceding(d, best) = Cardinality(T)
  BY DEF Preceding
<1> HIDE DEF S, T
<1>3. IsFiniteSet(T) /\ IsFiniteSet(T \ {c}) /\ Cardinality(T \ {c}) = Cardinality(T) - 1
  BY <1>1, FS_Subset, FS_RemoveElement
<1>4. S \in SUBSET (T \ {c})
  BY <1>1
<1>5. IsFiniteSet(S) /\ Cardinality(S) <= Cardinality(T) - 1
  BY <1>3, <1>4, FS_Subset
<1>6. Cardinality(S) \in Nat /\ Cardinality(T) \in Nat
  BY <1>3, <1>5, FS_CardinalityType
<1> QED BY <1>2, <1>5, <1>6

\* Every number below that of all is that of one.
LEMMA PrecedingOnto ==
    ASSUME NEW best, Rankable(best), NEW n \in 0..(Cardinality(best) - 1)
    PROVE  \E c \in best : Preceding(c, best) = n
<1> DEFINE m == Cardinality(best)
           f == [c \in best |-> Preceding(c, best)]
<1>1. IsFiniteSet(best) /\ m \in Nat
  BY FS_CardinalityType DEF Rankable
<1>2. \A c, d \in best : Preceding(c, best) = Preceding(d, best) => c = d
  <2> SUFFICES ASSUME NEW c \in best, NEW d \in best, c # d,
                      Preceding(c, best) = Preceding(d, best)
               PROVE  FALSE
    OBVIOUS
  <2>1. Ahead(c, d) \/ Ahead(d, c)
    BY AheadOrder
  <2>2. Preceding(c, best) \in Int /\ Preceding(d, best) \in Int
    BY PrecedingBound
  <2> QED BY <2>1, <2>2, PrecedingGrows
<1>3. \A c \in best : Preceding(c, best) \in 0..(m - 1)
  BY PrecedingBound
<1>4. f \in Injection(best, 0..(m - 1))
  <2>1. f \in [best -> 0..(m - 1)] /\ \A c \in best : f[c] = Preceding(c, best)
    BY <1>3
  <2> HIDE DEF f
  <2>2. \A c, d \in best : f[c] = f[d] => c = d
    BY <1>2, <2>1
  <2> QED BY <2>1, <2>2 DEF Injection, IsInjective
<1>5. IsFiniteSet(0..(m - 1)) /\ Cardinality(0..(m - 1)) = m
  BY <1>1, FS_Interval
<1>6. f \in Surjection(best, 0..(m - 1))
  BY <1>4, <1>5, FS_Injection
<1> QED BY <1>6 DEF Surjection

\* The best of two sources' candidates.
BestOf(static, document) == BestOfKeys(static) \cup BestOfKeys(document)

\* What is shown are the first of the best, in order.
LEMMA MergedShown ==
    ASSUME NEW static, NEW document,
           FoundBy("approved_static", static), FoundBy("document_mcp", document)
    PROVE  LET best == BestOf(static, document)
               shown == Merged(static, document)
               n == Least(MaxShown, Cardinality(best))
           IN /\ Cardinality(best) \in Nat /\ n \in Nat
              /\ DOMAIN shown = 1..n /\ Len(shown) = n
              /\ \A k \in 1..n : shown[k] \in best /\ Preceding(shown[k], best) = k - 1
              /\ \A c \in best : Preceding(c, best) < n => \E k \in 1..n : c = shown[k]
<1> DEFINE best == BestOf(static, document)
           shown == Merged(static, document)
           n == Least(MaxShown, Cardinality(best))
           m == Cardinality(best)
<1>1. Rankable(best) /\ m \in Nat
  BY BestRankable, FS_CardinalityType DEF Rankable, BestOf
<1>2. MaxShown \in Nat \ {0}
  BY RowsAssumption
<1>3. n \in Nat /\ n <= m /\ shown = [k \in 1..n |-> CHOOSE c \in best : Preceding(c, best) = k - 1]
  BY <1>1, <1>2 DEF Least, Merged, BestOf
<1> HIDE DEF best, shown, n
<1>4. ASSUME NEW k \in 1..n PROVE shown[k] \in best /\ Preceding(shown[k], best) = k - 1
  <2>1. k - 1 \in 0..(m - 1)
    BY <1>1, <1>3
  <2> HIDE DEF m
  <2>2. \E c \in best : Preceding(c, best) = k - 1
    BY <1>1, <2>1, PrecedingOnto DEF m
  <2>3. shown[k] = CHOOSE c \in best : Preceding(c, best) = k - 1
    BY <1>3
  <2> QED BY <2>2, <2>3
<1>5. ASSUME NEW c \in best, Preceding(c, best) < n PROVE \E k \in 1..n : c = shown[k]
  <2> DEFINE k == Preceding(c, best) + 1
  <2>1. Preceding(c, best) \in 0..(m - 1)
    BY <1>1, PrecedingBound
  <2>2. k \in 1..n /\ k - 1 = Preceding(c, best)
    BY <1>1, <1>3, <1>5, <2>1
  <2>3. shown[k] \in best /\ Preceding(shown[k], best) = Preceding(c, best)
    BY <1>4, <2>2
  <2>4. ~Ahead(c, shown[k]) /\ ~Ahead(shown[k], c)
    BY <1>1, <2>1, <2>3, PrecedingGrows
  <2>5. c = shown[k]
    BY <1>1, <2>3, <2>4, AheadOrder
  <2> QED BY <2>2, <2>5
<1>6. DOMAIN shown = 1..n /\ Len(shown) = n
  BY <1>3
<1> QED BY <1>1, <1>3, <1>4, <1>5, <1>6 DEF best, shown, n

\* What is shown is the best of what was found.
LEMMA ShownBest ==
    ASSUME FoundBy("approved_static", recall.static.candidates),
           FoundBy("document_mcp", recall.document.candidates),
           recall.shown = Merged(recall.static.candidates, recall.document.candidates)
    PROVE  BestShown /\ (Found # {} <=> recall.shown # <<>>) /\ (Found # {} <=> ShownOnes # {})
<1> DEFINE static == recall.static.candidates
           document == recall.document.candidates
           best == BestOf(static, document)
           shown == recall.shown
           n == Least(MaxShown, Cardinality(best))
           m == Cardinality(best)
<1>1. /\ m \in Nat /\ n \in Nat /\ DOMAIN shown = 1..n /\ Len(shown) = n
      /\ \A k \in 1..n : shown[k] \in best /\ Preceding(shown[k], best) = k - 1
      /\ \A c \in best : Preceding(c, best) < n => \E k \in 1..n : c = shown[k]
  BY MergedShown
<1>2. Rankable(best)
  BY BestRankable DEF BestOf
<1>3. best \subseteq Found
  BY BestFinite DEF BestOf, Found
<1>4. \A c \in Found : \E d \in best : SameKey(c, d) /\ d.confidence >= c.confidence
  BY BestExists DEF BestOf, Found
<1>0. \A c \in Found : c.confidence \in Nat
  <2>1. /\ \A k \in DOMAIN static : static[k].confidence \in Nat
        /\ \A k \in DOMAIN document : document[k].confidence \in Nat
    <3>1. /\ \A k \in DOMAIN static : static[k].confidence \in 0..100
          /\ \A k \in DOMAIN document : document[k].confidence \in 0..100
      BY Zenon DEF FoundBy
    <3>2. \A x \in 0..100 : x \in Nat
      OBVIOUS
    <3> HIDE DEF static, document
    <3> QED BY <3>1, <3>2, Zenon
  <2>2. Found = {static[k] : k \in DOMAIN static} \cup {document[k] : k \in DOMAIN document}
    BY DEF Found, Range
  <2> HIDE DEF static, document
  <2> QED BY <2>1, <2>2
<1>5. ShownOnes = {shown[k] : k \in 1..n}
  BY <1>1 DEF ShownOnes
<1>6. MaxShown \in Nat \ {0} /\ n = Least(MaxShown, m)
  BY RowsAssumption
<1> HIDE DEF static, document, best, shown, n, m
<1>7. ShownOnes \subseteq Found
  BY <1>1, <1>3, <1>5
<1>8. ASSUME NEW i \in 1..n, NEW j \in 1..n, i < j
      PROVE  shown[i].confidence >= shown[j].confidence /\ ~SameKey(shown[i], shown[j])
  <2>1. /\ shown[i] \in best /\ shown[j] \in best
        /\ Preceding(shown[i], best) = i - 1 /\ Preceding(shown[j], best) = j - 1
    BY <1>1
  <2>2. ~Ahead(shown[j], shown[i])
    BY <1>2, <1>8, <2>1, PrecedingGrows
  <2>3. shown[i] # shown[j]
    BY <1>8, <2>1
  <2>4. shown[i].confidence \in Nat /\ shown[j].confidence \in Nat
    BY <1>2, <2>1 DEF Rankable
  <2>5. ~(shown[j].confidence > shown[i].confidence)
    BY <1>2, <2>1, <2>2, AheadOrder
  <2> QED BY <1>2, <2>1, <2>3, <2>4, <2>5 DEF Rankable
<1>9. ASSUME NEW d \in best, d \notin ShownOnes
      PROVE  Len(shown) = MaxShown /\ \A e \in ShownOnes : e.confidence >= d.confidence
  <2>1. Preceding(d, best) \in 0..(m - 1) /\ ~(Preceding(d, best) < n)
    BY <1>1, <1>2, <1>5, <1>9, PrecedingBound DEF m
  <2>2. n = MaxShown
    BY <1>1, <1>6, <2>1 DEF Least
  <2>3. ASSUME NEW k \in 1..n PROVE shown[k].confidence >= d.confidence
    <3>1. shown[k] \in best /\ Preceding(shown[k], best) = k - 1
      BY <1>1
    <3>2. ~Ahead(d, shown[k])
      BY <1>1, <1>2, <2>1, <3>1, PrecedingGrows
    <3>3. shown[k].confidence \in Nat /\ d.confidence \in Nat
      BY <1>2, <3>1 DEF Rankable
    <3>4. ~(d.confidence > shown[k].confidence)
      BY <1>2, <3>1, <3>2, AheadOrder
    <3> QED BY <3>3, <3>4
  <2> QED BY <1>1, <1>5, <2>2, <2>3
<1>10. ASSUME NEW c \in Found, c \notin ShownOnes
       PROVE  \/ \E d \in ShownOnes : SameKey(c, d) /\ d.confidence >= c.confidence
              \/ /\ Len(shown) = MaxShown
                 /\ \A d \in ShownOnes : d.confidence >= c.confidence
  <2>1. PICK d \in best : SameKey(c, d) /\ d.confidence >= c.confidence
    BY <1>4
  <2>2. CASE d \in ShownOnes
    BY <2>1, <2>2
  <2>3. CASE d \notin ShownOnes
    <3>1. Len(shown) = MaxShown /\ \A e \in ShownOnes : e.confidence >= d.confidence
      BY <1>9, <2>3
    <3>2. c.confidence \in Nat /\ d.confidence \in Nat
      BY <1>0, <1>2, <2>1 DEF Rankable
    <3>3. \A e \in ShownOnes : e.confidence \in Nat
      BY <1>1, <1>2, <1>5 DEF Rankable
    <3>4. \A e \in ShownOnes : e.confidence >= c.confidence
      BY <2>1, <3>1, <3>2, <3>3
    <3> QED BY <3>1, <3>4
  <2> QED BY <2>2, <2>3
<1>11. Found # {} <=> n # 0
  <2>1. Found # {} <=> best # {}
    BY <1>3, <1>4
  <2>2. best # {} <=> m # 0
    BY <1>2, FS_EmptySet DEF m, Rankable
  <2>3. m # 0 <=> n # 0
    BY <1>1, <1>6 DEF Least
  <2> QED BY <2>1, <2>2, <2>3
<1>12. n # 0 <=> shown # <<>>
  BY <1>1
<1>13. BestShown
  BY <1>1, <1>7, <1>8, <1>10 DEF BestShown, shown
<1>14. n # 0 <=> ShownOnes # {}
  BY <1>1, <1>5
<1> QED BY <1>11, <1>12, <1>13, <1>14 DEF shown

\* What makes a candidate called a hit one.
HitsOf(static, policy, risky) ==
    \A k \in DOMAIN static : static[k].reason = "approved_recall_hit" =>
        /\ policy.knowledge /\ ~risky
        /\ LET top == static[FirstOf(DOMAIN static)] IN
              /\ top.confidence >= 72
              /\ top.row.matched /\ top.row.answers /\ top.row.coverage >= 80

\* What a recall has found.
Recalling ==
    /\ {"at", "policy", "risky", "static", "document", "shown", "decision"} \subseteq DOMAIN recall
    /\ FoundBy("approved_static", recall.static.candidates)
    /\ FoundBy("document_mcp", recall.document.candidates)
    /\ recall.document.failed \in BOOLEAN
    /\ HitsOf(recall.static.candidates, recall.policy, recall.risky)
    /\ \A k \in DOMAIN recall.document.candidates :
          recall.document.candidates[k].reason # "approved_recall_hit"
    /\ recall.at = "idle" => recall.static = NoBranch /\ recall.document = NoBranch
    /\ recall.at # "done" => recall.shown = <<>>
    /\ recall.at = "done" =>
        \/ /\ recall.static = NoBranch /\ recall.document = NoBranch
           /\ recall.shown = <<>> /\ recall.decision = "disabled"
        \/ /\ recall.shown = Merged(recall.static.candidates, recall.document.candidates)
           /\ recall.decision = IF recall.shown # <<>> THEN "advisory_candidates"
                                ELSE IF recall.document.failed THEN "unavailable"
                                ELSE "no_match"

\* Nothing has been found in a branch that is not taken.
LEMMA NothingFound ==
    /\ \A source : FoundBy(source, NoBranch.candidates)
    /\ \A policy, risky : HitsOf(NoBranch.candidates, policy, risky)
    /\ DOMAIN NoBranch.candidates = {} /\ NoBranch.failed = FALSE
BY DEF FoundBy, HitsOf, NoBranch

\* The ranker's rows.
LEMMA RankedRows ==
    ASSUME NEW rows, NEW ranked \in Ranked(rows)
    PROVE  DOMAIN ranked \subseteq 1..TopK /\ \A k \in DOMAIN ranked : ranked[k] \in rows
<1>1. ranked \in UNION {[1..n -> rows] : n \in 0..TopK}
  BY DEF Ranked, BoundedSeq, SeqOf
<1>2. PICK n \in 0..TopK : ranked \in [1..n -> rows]
  BY <1>1
<1> QED BY <1>2, RowsAssumption

\* A row is at least this likely and at most certain.
LEMMA ConfidenceBound ==
    ASSUME NEW row \in StaticRows PROVE confidence(row) \in 0..100
<1>1. row.score \in 0..100 /\ row.coverage \in 0..100
  BY RowsAssumption
<1>2. (55 * row.score + 25 * row.coverage) \div 100 \in Nat
  <2>1. \A x, y \in 0..100 : 55 * x + 25 * y \in Nat
    OBVIOUS
  <2>2. \A x \in Nat : x \div 100 \in Nat
    OBVIOUS
  <2> QED BY <1>1, <2>1, <2>2, Zenon
<1> QED BY <1>2 DEF confidence, Least

\* What the approved entries' branch finds, and calls a hit, is one.
LEMMA StaticFound ==
    ASSUME NEW ranked \in Ranked(StaticRows), NEW policy, NEW risky,
           policy.knowledge, ~risky
    PROVE  /\ FoundBy("approved_static", StaticBranch(ranked).candidates)
           /\ HitsOf(StaticBranch(ranked).candidates, policy, risky)
<1> DEFINE places == StaticCandidates(ranked)
           decision == IF places = {} THEN "fail_open" ELSE Decision(ranked[FirstOf(places)])
           reason(k) == IF decision = "recall_hit" /\ ranked[k].answers
                        THEN "approved_recall_hit" ELSE "approved_recall_hint"
           c == [k \in places |->
                    [source |-> "approved_static", id |-> ranked[k].id, bytes |-> ranked[k].bytes,
                     confidence |-> confidence(ranked[k]), reason |-> reason(k),
                     row |-> ranked[k]]]
<1>1. /\ DOMAIN ranked \subseteq 1..TopK /\ \A k \in DOMAIN ranked : ranked[k] \in StaticRows
      /\ places \subseteq DOMAIN ranked
  BY RankedRows DEF StaticCandidates
<1>2. CASE decision = "fail_open"
  <2>1. StaticBranch(ranked) = NoBranch
    BY <1>2 DEF StaticBranch
  <2> QED BY <2>1, NothingFound
<1>3. CASE decision # "fail_open"
  <2>1. StaticBranch(ranked).candidates = c
    BY <1>3 DEF StaticBranch, NoBranch
  <2>2. DOMAIN c = places /\ c = [k \in places |-> c[k]]
    OBVIOUS
  <2>3. ASSUME NEW k \in places
        PROVE  /\ c[k].source = "approved_static" /\ c[k].id = ranked[k].id
               /\ c[k].confidence = confidence(ranked[k]) /\ c[k].row = ranked[k]
               /\ c[k].reason = reason(k)
    OBVIOUS
  <2> HIDE DEF c
  <2>4. FoundBy("approved_static", c)
    BY <1>1, <2>2, <2>3, ConfidenceBound, RowsAssumption DEF FoundBy
  <2>5. ASSUME NEW k \in DOMAIN c, c[k].reason = "approved_recall_hit"
        PROVE  LET top == c[FirstOf(DOMAIN c)] IN
               /\ top.confidence >= 72
               /\ top.row.matched /\ top.row.answers /\ top.row.coverage >= 80
    <3> DEFINE p == FirstOf(places)
    <3>1. p \in places
      BY <1>1, <2>2, <2>5, RowsAssumption, FirstPlace
    <3>2. decision = "recall_hit"
      BY <2>2, <2>3, <2>5
    <3>3. Decision(ranked[p]) = "recall_hit"
      BY <3>1, <3>2
    <3> HIDE DEF p, places
    <3>4. /\ ranked[p].matched /\ ranked[p].answers /\ ~(ranked[p].coverage < 80)
          /\ confidence(ranked[p]) >= 72
      BY <3>3 DEF Decision
    <3>5. ranked[p].coverage \in Int
      BY <1>1, <3>1, RowsAssumption
    <3>6. c[p].confidence = confidence(ranked[p]) /\ c[p].row = ranked[p]
      BY <2>3, <3>1
    <3>7. FirstOf(DOMAIN c) = p
      BY <2>2 DEF p
    <3> QED BY <3>4, <3>5, <3>6, <3>7
  <2>6. HitsOf(c, policy, risky)
    BY <2>5 DEF HitsOf
  <2> QED BY <2>1, <2>4, <2>6
<1> QED BY <1>2, <1>3

\* What the documents' branch finds is never called one.
LEMMA DocumentFound ==
    ASSUME NEW ranked \in Ranked(DocumentRows)
    PROVE  LET found == DocumentBranch(ranked) IN
           /\ FoundBy("document_mcp", found.candidates) /\ found.failed = FALSE
           /\ \A k \in DOMAIN found.candidates :
                 found.candidates[k].reason # "approved_recall_hit"
<1> DEFINE places == {j \in DOMAIN ranked : ranked[j].score > 0}
           c == [k \in places |->
                    [source |-> "document_mcp", id |-> ranked[k].id, bytes |-> ranked[k].bytes,
                     confidence |-> ranked[k].score, reason |-> "document_qa_candidate",
                     row |-> ranked[k]]]
<1>1. /\ DOMAIN ranked \subseteq 1..TopK /\ \A k \in DOMAIN ranked : ranked[k] \in DocumentRows
      /\ places \subseteq DOMAIN ranked
  BY RankedRows
<1>2. DocumentBranch(ranked).candidates = c /\ DocumentBranch(ranked).failed = FALSE
  BY DEF DocumentBranch, NoBranch
<1>3. DOMAIN c = places /\ c = [k \in places |-> c[k]]
  OBVIOUS
<1>4. ASSUME NEW k \in places
      PROVE  /\ c[k].source = "document_mcp" /\ c[k].id = ranked[k].id
             /\ c[k].confidence = ranked[k].score /\ c[k].reason = "document_qa_candidate"
  OBVIOUS
<1> HIDE DEF c, places
<1>5. \A k \in places : ranked[k].id \in Nat /\ ranked[k].score \in 0..100
  BY <1>1, RowsAssumption
<1>6. FoundBy("document_mcp", c)
  BY <1>1, <1>3, <1>4, <1>5 DEF FoundBy
<1>7. \A k \in DOMAIN c : c[k].reason # "approved_recall_hit"
  BY <1>3, <1>4
<1> QED BY <1>2, <1>6, <1>7

\* What is recalled stays what was found, step by step.
LEMMA RecallingStep == ASSUME Recalling, [RecallNext]_recallVars PROVE Recalling'
<1>1. ASSUME NEW policy, NEW risky, Ask(policy, risky) PROVE Recalling'
  <2>1. /\ recall.static = NoBranch /\ recall.document = NoBranch /\ recall.shown = <<>>
        /\ recall.at = "idle"
    BY <1>1 DEF Ask, Recalling
  <2>2. CASE policy.mode = "off"
    <3>1. recall' = [recall EXCEPT !.at = "done", !.decision = "disabled"]
      BY <1>1, <2>2 DEF Ask
    <3>2. /\ recall'.at = "done" /\ recall'.decision = "disabled"
          /\ recall'.static = NoBranch /\ recall'.document = NoBranch /\ recall'.shown = <<>>
          /\ DOMAIN recall' = DOMAIN recall
      BY <2>1, <3>1 DEF Recalling
    <3> QED BY <3>2, NothingFound DEF Recalling
  <2>3. CASE policy.mode # "off"
    <3>1. recall' = [recall EXCEPT !.at = "static", !.policy = policy, !.risky = risky]
      BY <1>1, <2>3 DEF Ask
    <3>2. /\ recall'.at = "static" /\ recall'.shown = <<>>
          /\ recall'.static = NoBranch /\ recall'.document = NoBranch
          /\ DOMAIN recall' = DOMAIN recall
      BY <2>1, <3>1 DEF Recalling
    <3> QED BY <3>2, NothingFound DEF Recalling
  <2> QED BY <2>2, <2>3
<1>2. ASSUME NEW ranked \in Ranked(StaticRows), CollectStatic(ranked) PROVE Recalling'
  <2> DEFINE branch == IF ~recall.policy.knowledge \/ recall.risky
                       THEN NoBranch ELSE StaticBranch(ranked)
  <2>1. recall.at = "static" /\ recall' = [recall EXCEPT !.at = "document", !.static = branch]
    BY <1>2 DEF CollectStatic
  <2>2. /\ FoundBy("approved_static", branch.candidates)
        /\ HitsOf(branch.candidates, recall.policy, recall.risky)
    BY NothingFound, StaticFound
  <2> HIDE DEF branch
  <2>3. /\ recall'.at = "document" /\ recall'.static = branch
        /\ recall'.document = recall.document /\ recall'.shown = <<>>
        /\ recall'.policy = recall.policy /\ recall'.risky = recall.risky
        /\ DOMAIN recall' = DOMAIN recall
    BY <2>1 DEF Recalling
  <2> QED BY <2>2, <2>3 DEF Recalling
<1>3. ASSUME NEW branch, recall.at = "document",
             recall' = [recall EXCEPT !.at = "merge", !.document = branch],
             FoundBy("document_mcp", branch.candidates), branch.failed \in BOOLEAN,
             \A k \in DOMAIN branch.candidates :
                branch.candidates[k].reason # "approved_recall_hit"
      PROVE  Recalling'
  <2>1. /\ recall'.at = "merge" /\ recall'.document = branch
        /\ recall'.static = recall.static /\ recall'.shown = <<>>
        /\ recall'.policy = recall.policy /\ recall'.risky = recall.risky
        /\ DOMAIN recall' = DOMAIN recall
    BY <1>3 DEF Recalling
  <2> QED BY <1>3, <2>1 DEF Recalling
<1>4. ASSUME NEW ranked \in Ranked(DocumentRows), CollectDocument(ranked) PROVE Recalling'
  <2> DEFINE branch == IF recall.policy.documents THEN DocumentBranch(ranked) ELSE NoBranch
  <2>1. /\ recall.at = "document"
        /\ recall' = [recall EXCEPT !.at = "merge", !.document = branch]
    BY <1>4 DEF CollectDocument
  <2>2. /\ FoundBy("document_mcp", branch.candidates) /\ branch.failed \in BOOLEAN
        /\ \A k \in DOMAIN branch.candidates :
              branch.candidates[k].reason # "approved_recall_hit"
    BY NothingFound, DocumentFound
  <2> HIDE DEF branch
  <2> QED BY <1>3, <2>1, <2>2
<1>5. CASE DocumentsFail
  <2> DEFINE branch == [NoBranch EXCEPT !.failed = TRUE]
  <2>1. /\ recall.at = "document"
        /\ recall' = [recall EXCEPT !.at = "merge", !.document = branch]
    BY <1>5 DEF DocumentsFail
  <2>2. branch.candidates = NoBranch.candidates /\ branch.failed = TRUE
    BY DEF NoBranch
  <2> HIDE DEF branch
  <2>3. /\ FoundBy("document_mcp", branch.candidates) /\ branch.failed \in BOOLEAN
        /\ \A k \in DOMAIN branch.candidates :
              branch.candidates[k].reason # "approved_recall_hit"
    BY <2>2, NothingFound
  <2> QED BY <1>3, <2>1, <2>3
<1>6. CASE Outcome
  <2> DEFINE shown == Merged(recall.static.candidates, recall.document.candidates)
             decision == IF shown # <<>> THEN "advisory_candidates"
                         ELSE IF recall.document.failed THEN "unavailable" ELSE "no_match"
  <2>1. /\ recall.at = "merge"
        /\ \/ recall' = [recall EXCEPT !.at = "escaped"]
           \/ recall' = [recall EXCEPT !.at = "done", !.shown = shown, !.decision = decision]
    BY <1>6 DEF Outcome
  <2> HIDE DEF shown, decision
  <2>2. CASE recall' = [recall EXCEPT !.at = "escaped"]
    <3>1. /\ recall'.at = "escaped" /\ recall'.document = recall.document
          /\ recall'.static = recall.static /\ recall'.shown = <<>>
          /\ recall'.policy = recall.policy /\ recall'.risky = recall.risky
          /\ DOMAIN recall' = DOMAIN recall
      BY <2>1, <2>2 DEF Recalling
    <3> QED BY <3>1 DEF Recalling
  <2>3. CASE recall' = [recall EXCEPT !.at = "done", !.shown = shown, !.decision = decision]
    <3>1. /\ recall'.at = "done" /\ recall'.document = recall.document
          /\ recall'.static = recall.static /\ recall'.shown = shown
          /\ recall'.decision = decision
          /\ recall'.policy = recall.policy /\ recall'.risky = recall.risky
          /\ DOMAIN recall' = DOMAIN recall
      BY <2>3 DEF Recalling
    <3> QED BY <3>1 DEF Recalling, shown, decision
  <2> QED BY <2>1, <2>2, <2>3
<1>7. CASE UNCHANGED recallVars
  BY <1>7 DEF recallVars, Recalling
<1> QED BY <1>1, <1>2, <1>4, <1>5, <1>6, <1>7 DEF RecallNext

\* At first nothing was.
LEMMA RecallingInit == ASSUME RecallInit PROVE Recalling
<1>1. /\ recall.at = "idle" /\ recall.static = NoBranch /\ recall.document = NoBranch
      /\ recall.shown = <<>>
      /\ {"at", "policy", "risky", "static", "document", "shown", "decision"} \subseteq DOMAIN recall
  BY DEF RecallInit
<1> QED BY <1>1, NothingFound DEF Recalling

\* What the planner is shown is what was recalled, the best of it and for what it is: a
\* failing source costs the other no candidate, and a hit is earned
\* (merge_recall_candidates, _decision, approved_static_branch).
THEOREM RecallTheorem == RecallSpec => []RecallHonest
<1>1. Recalling => RecallHonest
  <2> SUFFICES ASSUME Recalling PROVE RecallHonest
    OBVIOUS
  <2> DEFINE disabled == /\ recall.static = NoBranch /\ recall.document = NoBranch
                         /\ recall.shown = <<>> /\ recall.decision = "disabled"
             merged == /\ recall.shown = Merged(recall.static.candidates,
                                                recall.document.candidates)
                       /\ recall.decision = IF recall.shown # <<>> THEN "advisory_candidates"
                                            ELSE IF recall.document.failed THEN "unavailable"
                                            ELSE "no_match"
  <2>1. recall.at = "done" => disabled \/ merged
    BY DEF Recalling
  <2>2. CASE recall.at = "done" /\ disabled
    <3>1. Found = {} /\ ShownOnes = {}
      BY <2>2, NothingFound DEF Found, Range, ShownOnes
    <3>2. BestShown
      BY <2>2, <3>1 DEF BestShown
    <3>3. recall.document.failed = FALSE
      BY <2>2, NothingFound
    <3> QED BY <2>2, <3>1, <3>2, <3>3 DEF RecallHonest, FailureKept, HitsEarned
  <2>3. CASE recall.at = "done" /\ merged
    <3>1. /\ BestShown
          /\ Found # {} <=> recall.shown # <<>>
          /\ Found # {} <=> ShownOnes # {}
      BY <2>3, ShownBest DEF Recalling
    <3>2. FailureKept
      BY <2>3, <3>1 DEF FailureKept
    <3>3. HitsEarned
      <4>1. ShownOnes \subseteq Range(recall.static.candidates) \cup Range(recall.document.candidates)
        BY <2>3, <3>1 DEF BestShown, Found
      <4>2. \A c \in Range(recall.document.candidates) : c.reason # "approved_recall_hit"
        BY DEF Recalling, Range
      <4>3. \A c \in ShownOnes : c.reason = "approved_recall_hit" =>
                c \in Range(recall.static.candidates)
        BY <4>1, <4>2
      <4> QED BY <4>3 DEF HitsEarned, Recalling, HitsOf, Range
    <3> QED BY <3>1, <3>2, <3>3 DEF RecallHonest
  <2>4. CASE recall.at # "done"
    <3>1. ShownOnes = {}
      BY <2>4 DEF Recalling, ShownOnes
    <3> QED BY <2>4, <3>1 DEF RecallHonest, BestShown, FailureKept, HitsEarned
  <2> QED BY <2>1, <2>2, <2>3, <2>4
<1> QED BY <1>1, RecallingInit, RecallingStep, PTL DEF RecallSpec

-----------------------------------------------------------------------------
(* What a plan's units are answered from. The facts are exactly those that *)
(* what was collected accounts for, and the groundings are those of the    *)
(* plan that is answered, also after another took over: so a unit has      *)
(* facts if and only if PlanAuthority finds it grounded, its actions are   *)
(* the same, and a fact admitted for it is of its scope and kind.          *)

\* The adapter's facts of the i-th unit evidence was collected for.
MadeOf(i) == AdapterFactsOf(collected.units[i], turnPolicy, collected)

\* The facts of the adapter are those of the units, each with the first it is one of.
AdapterFactsExact ==
    /\ \A f \in DOMAIN canonicalFacts :
        f.kind = "resolvable" <=> \E i \in DOMAIN collected.units : f \in MadeOf(i)
    /\ \A i \in DOMAIN collected.units : \A f \in MadeOf(i) :
        /\ f \in DOMAIN canonicalFacts
        /\ canonicalFacts[f] \in DOMAIN collected.units
        /\ f \in MadeOf(canonicalFacts[f]) /\ canonicalFacts[f] <= i
    /\ \A f \in DOMAIN canonicalFacts :
        f.kind = "resolvable" => ResolveBinding(f, collected) \in resolveBindings
    /\ \A b \in resolveBindings : b = ResolveBinding(b.fact, collected)

\* Of a report's lists there are those of the units that have one.
ListedExact ==
    /\ \A i \in collected.products :
        /\ i \in DOMAIN collected.units /\ collected.units[i].manifest.use = "product_list"
        /\ \E f \in DOMAIN canonicalFacts :
            /\ f.kind = "report_scope_products" /\ f.source = "adapter_report_scope"
            /\ f.artifact = collected.units[i].manifest.of
            /\ f.products = collected.units[i].products
    /\ \A f \in DOMAIN canonicalFacts : f.kind = "report_scope_products" =>
        \E i \in collected.products :
            /\ f.artifact = collected.units[i].manifest.of
            /\ f.products = collected.units[i].products

\* What is known of the company is known for a unit that asks for it.
OfCompany(f) ==
    /\ f.kind = "document_context" /\ f.artifact = "document_context"
    /\ f.source \in {"document_mcp", "approved_static_knowledge"}

KnownExact ==
    /\ \A i \in collected.documents :
        /\ i \in DOMAIN collected.units /\ collected.units[i].manifest = CompanyKnowledge
        /\ \E f \in DOMAIN canonicalFacts :
            OfCompany(f) /\ f.products = collected.units[i].products
    /\ \A f \in DOMAIN canonicalFacts : f.kind = "document_context" =>
        \E i \in collected.documents : f.products = collected.units[i].products
    /\ \A b \in mediaBindings : b.fact \in DOMAIN canonicalFacts /\ OfCompany(b.fact)

\* The options of the packs that a plan's units ask for.
AskedOf(units) ==
    {units[i].option : i \in {i \in DOMAIN units : units[i].manifest.of = "material_pack"}}
        \ {NoOption}

Backed ==
    /\ collected.units \in Seq(Units) /\ Len(collected.units) <= 4
    /\ \A t \in DOMAIN collected.preflight : collected.preflight[t] \in Statuses(t)
    /\ \A o \in AskedOf(collected.units) :
        AskedOf(collected.units) = {o} => collected.asked = o
    /\ AdapterFactsExact /\ ListedExact /\ KnownExact

\* Which facts a capability leans on.
LEMMA Contracts ==
    ASSUME NEW m \in Manifests
    PROVE  \/ /\ m.use \in {"send", "handoff"} /\ m.of \in ResolveTypes
              /\ m # CompanyKnowledge
              /\ Contract(m) = [kinds |-> {"resolvable"}, sources |-> {"adapter_resolve"},
                                artifacts |-> {ArtifactOf(m.of)}]
           \/ /\ m.use = "product_list" /\ m.of \in Reports /\ m # CompanyKnowledge
              /\ Contract(m) = [kinds |-> {"report_scope_products"},
                                sources |-> {"adapter_report_scope"}, artifacts |-> {m.of}]
           \/ /\ m = CompanyKnowledge
              /\ Contract(m) = [kinds |-> {"document_context"},
                                sources |-> {"document_mcp", "approved_static_knowledge"},
                                artifacts |-> {"document_context"}]
           \/ /\ m.of = "general" /\ m.use \notin {"send", "product_list"}
              /\ m # CompanyKnowledge
              /\ Contract(m) = [kinds |-> {}, sources |-> {}, artifacts |-> {}]
<1>1. CASE m \in [of : Artifacts, use : {"send"}]
  <2>1. m.use = "send" /\ m.of \in Artifacts /\ m.of \notin {"sales_mention", "general"}
    BY <1>1 DEF Artifacts, Reports
  <2>2. m.of \in ResolveTypes /\ ArtifactOf(m.of) = m.of
    BY <2>1 DEF ResolveTypes, ArtifactOf
  <2>3. m # CompanyKnowledge /\ m # SalesHandoff
    BY <2>1 DEF CompanyKnowledge, SalesHandoff, Manifest
  <2>4. Contract(m) = [kinds |-> {"resolvable"}, sources |-> {"adapter_resolve"},
                       artifacts |-> {m.of}]
    BY <2>1, <2>3 DEF Contract
  <2> QED BY <2>1, <2>2, <2>3, <2>4
<1>2. CASE m \in [of : Reports, use : {"product_list"}]
  BY <1>2 DEF Contract, Reports, CompanyKnowledge, SalesHandoff, Manifest
<1>3. CASE m = SalesHandoff
  BY <1>3 DEF Contract, ArtifactOf, ResolveTypes, CompanyKnowledge, SalesHandoff, Manifest
<1>4. CASE m = CompanyKnowledge
  BY <1>4 DEF Contract, CompanyKnowledge, SalesHandoff, Manifest
<1>5. CASE m \in {General(u) : u \in {"clarification", "abstention", "refusal", "smalltalk",
                                      "no_reply", "handoff"}}
  BY <1>5 DEF Contract, CompanyKnowledge, SalesHandoff, Manifest, General
<1> QED BY <1>1, <1>2, <1>3, <1>4, <1>5 DEF Manifests

\* The parts of a fact of the adapter.
LEMMA AdapterFactParts ==
    ASSUME NEW unit, NEW f \in AdapterFactsOf(unit, turnPolicy, collected)
    PROVE  \E t : /\ t \in ResolvesOf(unit, turnPolicy) /\ ResolvedIn(collected, t)
                  /\ f.kind = "resolvable" /\ f.source = "adapter_resolve"
                  /\ f.artifact = ArtifactOf(t) /\ f.record = {t}
                  /\ f.products = unit.products /\ f.option = unit.option
                  /\ f = AdapterFact(unit, t)
BY DEF AdapterFactsOf, AdapterFact, EvidenceFact

\* What a unit resolves is something the adapter resolves.
LEMMA ResolvesAreTypes ==
    ASSUME NEW unit, NEW policy PROVE ResolvesOf(unit, policy) \subseteq ResolveTypes
BY DEF ResolvesOf, ResolveTypes

\* Facts of different types are of different artifacts.
LEMMA ArtifactsDiffer ==
    ASSUME NEW t \in ResolveTypes, NEW u \in ResolveTypes, ArtifactOf(t) = ArtifactOf(u)
    PROVE  t = u
BY DEF ArtifactOf, ResolveTypes, Artifacts, Reports

\* A unit's facts are those admitted, and there are some if PlanAuthority says so.
AdmittedFacts(unit) == {f \in DOMAIN canonicalFacts : AdmittedFor(f, unit)}

LEMMA GroundsAgree ==
    ASSUME Backed, NEW unit \in Units
    PROVE  /\ AllowedEvidence(unit, DOMAIN canonicalFacts) = AdmittedFacts(unit)
           /\ AdmittedFacts(unit) # {} <=> Grounded(collected, unit, turnPolicy)
<1>0. unit.manifest \in Manifests
  BY DEF Units
<1>1. AdmittedFacts(unit) # {} => Satisfied(AdmittedFacts(unit), unit.manifest)
  <2> SUFFICES ASSUME NEW f \in AdmittedFacts(unit)
               PROVE  Satisfied(AdmittedFacts(unit), unit.manifest)
    OBVIOUS
  <2>1. /\ f.kind \in Contract(unit.manifest).kinds
        /\ f.artifact \in Contract(unit.manifest).artifacts
    BY DEF AdmittedFor, AdmittedFacts
  <2>2. \E k, a : Contract(unit.manifest).kinds \subseteq {k}
                  /\ Contract(unit.manifest).artifacts \subseteq {a}
    BY <1>0, Contracts
  <2> QED BY <2>1, <2>2 DEF Satisfied
<1>2. AllowedEvidence(unit, DOMAIN canonicalFacts) = AdmittedFacts(unit)
  <2>1. AllowedEvidence(unit, DOMAIN canonicalFacts)
            = IF Satisfied(AdmittedFacts(unit), unit.manifest) THEN AdmittedFacts(unit) ELSE {}
    BY DEF AllowedEvidence, AdmittedFacts
  <2> QED BY <1>1, <2>1
<1>3. CASE unit.manifest.use \in {"send", "handoff"} /\ unit.manifest.of \in ResolveTypes
  <2>1. Contract(unit.manifest) = [kinds |-> {"resolvable"}, sources |-> {"adapter_resolve"},
                                   artifacts |-> {ArtifactOf(unit.manifest.of)}]
    <3>1. unit.manifest.of # "general"
      BY <1>3 DEF ResolveTypes, Artifacts, Reports
    <3>2. unit.manifest # CompanyKnowledge /\ unit.manifest.use # "product_list"
      BY <1>3 DEF CompanyKnowledge, Manifest
    <3> QED BY <1>0, <3>1, <3>2, Contracts
  <2>2. ASSUME NEW f \in AdmittedFacts(unit)
        PROVE  FactsFor(collected, unit, unit.manifest.of, turnPolicy) # {}
    <3>1. f \in DOMAIN canonicalFacts /\ f.kind = "resolvable"
          /\ f.artifact = ArtifactOf(unit.manifest.of) /\ f.products = unit.products
      BY <2>1 DEF AdmittedFacts, AdmittedFor, SameScope
    <3>2. PICK i \in DOMAIN collected.units : f \in MadeOf(i)
      BY <3>1 DEF Backed, AdapterFactsExact
    <3>3. PICK t : /\ t \in ResolvesOf(collected.units[i], turnPolicy)
                   /\ ResolvedIn(collected, t) /\ f.artifact = ArtifactOf(t)
                   /\ f.products = collected.units[i].products
      BY <3>2, AdapterFactParts DEF MadeOf
    <3>4. t = unit.manifest.of
      BY <1>3, <3>1, <3>3, ResolvesAreTypes, ArtifactsDiffer
    <3> QED BY <3>1, <3>3, <3>4 DEF FactsFor
  <2>3. ASSUME NEW i \in FactsFor(collected, unit, unit.manifest.of, turnPolicy)
        PROVE  AdmittedFacts(unit) # {}
    <3> DEFINE f == AdapterFact(collected.units[i], unit.manifest.of)
    <3>1. /\ i \in DOMAIN collected.units /\ f \in MadeOf(i)
          /\ collected.units[i].products = unit.products
      BY DEF FactsFor, MadeOf, AdapterFactsOf
    <3>2. f \in DOMAIN canonicalFacts
      BY <3>1 DEF Backed, AdapterFactsExact
    <3>3. AdmittedFor(f, unit)
      BY <2>1, <3>1 DEF AdmittedFor, SameScope, AdapterFact, EvidenceFact
    <3> QED BY <3>2, <3>3 DEF AdmittedFacts
  <2>4. \A i \in collected.products \cup collected.documents :
            collected.units[i].manifest # unit.manifest
    BY <1>3 DEF Backed, ListedExact, KnownExact, CompanyKnowledge, Manifest, ResolveTypes,
                Artifacts, Reports
  <2>5. Grounded(collected, unit, turnPolicy)
            <=> FactsFor(collected, unit, unit.manifest.of, turnPolicy) # {}
    BY <1>3, <2>4 DEF Grounded
  <2> QED BY <1>2, <2>2, <2>3, <2>5
<1>4. CASE unit.manifest.use = "product_list" /\ unit.manifest.of \in Reports
  <2>1. Contract(unit.manifest) =
            [kinds |-> {"report_scope_products"}, sources |-> {"adapter_report_scope"},
             artifacts |-> {unit.manifest.of}]
    <3>1. unit.manifest # CompanyKnowledge
      BY <1>4 DEF CompanyKnowledge, Manifest
    <3> QED BY <1>0, <1>4, <3>1, Contracts DEF Reports
  <2>2. \A f \in DOMAIN canonicalFacts : AdmittedFor(f, unit) <=>
            /\ f.kind = "report_scope_products" /\ f.source = "adapter_report_scope"
            /\ f.artifact = unit.manifest.of /\ f.products = unit.products
    BY <2>1 DEF AdmittedFor, SameScope
  <2>3. Grounded(collected, unit, turnPolicy) <=>
            \E i \in collected.products :
                /\ collected.units[i].manifest.of = unit.manifest.of
                /\ collected.units[i].products = unit.products
    <3>1. \A i \in collected.documents : collected.units[i].manifest # unit.manifest
      BY <1>4 DEF Backed, KnownExact, CompanyKnowledge, Manifest
    <3>2. \A i \in collected.products :
            /\ i \in DOMAIN collected.units
            /\ collected.units[i].manifest.use = unit.manifest.use
      BY <1>4 DEF Backed, ListedExact
    <3>3. \A i \in DOMAIN collected.units : collected.units[i].manifest \in Manifests
      <4>1. \A i \in DOMAIN collected.units : collected.units[i] \in Units
        BY DEF Backed
      <4> QED BY <4>1 DEF Units
    <3>4. \A m, n \in Manifests : m.of = n.of /\ m.use = n.use => m = n
      BY DEF Manifests, Artifacts, Reports, SalesHandoff, CompanyKnowledge, General, Manifest
    <3>5. \A i \in collected.products : collected.units[i].manifest = unit.manifest <=>
                                        collected.units[i].manifest.of = unit.manifest.of
      BY <1>0, <3>2, <3>3, <3>4
    <3> QED BY <1>4, <3>1, <3>5 DEF Grounded
  <2>4. AdmittedFacts(unit) # {} <=> \E f \in DOMAIN canonicalFacts : AdmittedFor(f, unit)
    BY DEF AdmittedFacts
  <2>5. (\E f \in DOMAIN canonicalFacts : AdmittedFor(f, unit)) <=>
            \E i \in collected.products :
                /\ collected.units[i].manifest.of = unit.manifest.of
                /\ collected.units[i].products = unit.products
    BY <2>2 DEF Backed, ListedExact
  <2> QED BY <1>2, <2>3, <2>4, <2>5
<1>5. CASE unit.manifest = CompanyKnowledge
  <2>1. Contract(unit.manifest) =
            [kinds |-> {"document_context"},
             sources |-> {"document_mcp", "approved_static_knowledge"},
             artifacts |-> {"document_context"}]
    BY <1>0, <1>5, Contracts DEF CompanyKnowledge, Manifest, Reports
  <2>2. \A f \in DOMAIN canonicalFacts : AdmittedFor(f, unit) <=>
            OfCompany(f) /\ f.products = unit.products
    BY <2>1 DEF AdmittedFor, SameScope, OfCompany
  <2>3. Grounded(collected, unit, turnPolicy) <=>
            \E i \in collected.documents : collected.units[i].products = unit.products
    <3>1. \A i \in collected.products : collected.units[i].manifest # unit.manifest
      BY <1>5 DEF Backed, ListedExact, CompanyKnowledge, Manifest
    <3>2. \A i \in collected.documents : collected.units[i].manifest = unit.manifest
      BY <1>5 DEF Backed, KnownExact
    <3>3. unit.manifest.use \notin {"send", "handoff"}
      BY <1>5 DEF CompanyKnowledge, Manifest
    <3> QED BY <3>1, <3>2, <3>3 DEF Grounded
  <2>4. AdmittedFacts(unit) # {} <=> \E f \in DOMAIN canonicalFacts : AdmittedFor(f, unit)
    BY DEF AdmittedFacts
  <2>5. (\E f \in DOMAIN canonicalFacts : AdmittedFor(f, unit)) <=>
            \E i \in collected.documents : collected.units[i].products = unit.products
    BY <2>2 DEF Backed, KnownExact, OfCompany
  <2> QED BY <1>2, <2>3, <2>4, <2>5
<1>6. CASE unit.manifest.of = "general"
  <2>1. Contract(unit.manifest) = [kinds |-> {}, sources |-> {}, artifacts |-> {}]
    BY <1>0, <1>6, Contracts DEF CompanyKnowledge, Manifest, Reports, ResolveTypes, Artifacts
  <2>2. AdmittedFacts(unit) = {}
    BY <2>1 DEF AdmittedFacts, AdmittedFor
  <2>3. \A i \in collected.products \cup collected.documents :
            collected.units[i].manifest # unit.manifest
    <3>1. unit.manifest # CompanyKnowledge
      BY <1>6 DEF CompanyKnowledge, Manifest
    <3>2. unit.manifest.use # "product_list"
      BY <1>0, <1>6, <3>1, Contracts DEF Reports, ResolveTypes, Artifacts
    <3> QED BY <3>1, <3>2 DEF Backed, ListedExact, KnownExact
  <2>4. FactsFor(collected, unit, unit.manifest.of, turnPolicy) = {}
    BY <1>6, ResolvesAreTypes DEF FactsFor, ResolveTypes, Artifacts, Reports
  <2> QED BY <1>2, <2>2, <2>3, <2>4 DEF Grounded
<1> QED BY <1>0, <1>3, <1>4, <1>5, <1>6, Contracts

\* Among a few places there is a first one, and a last one.
LEMMA EndsOf4 ==
    ASSUME NEW S, S \subseteq 1..4, S # {}
    PROVE  (\E m \in S : \A n \in S : m <= n) /\ (\E m \in S : \A n \in S : n <= m)
<1>0. \E n : n \in S
  OBVIOUS
<1>1. \A n \in S : n = 1 \/ n = 2 \/ n = 3 \/ n = 4
  OBVIOUS
<1>2. \E m \in S : \A n \in S : m <= n
  <2>1. CASE 1 \in S BY <1>1, <2>1
  <2>2. CASE 1 \notin S /\ 2 \in S BY <1>1, <2>2
  <2>3. CASE 1 \notin S /\ 2 \notin S /\ 3 \in S BY <1>1, <2>3
  <2>4. CASE 1 \notin S /\ 2 \notin S /\ 3 \notin S BY <1>0, <1>1, <2>4
  <2> QED BY <2>1, <2>2, <2>3, <2>4
<1>3. \E m \in S : \A n \in S : n <= m
  <2>1. CASE 4 \in S BY <1>1, <2>1
  <2>2. CASE 4 \notin S /\ 3 \in S BY <1>1, <2>2
  <2>3. CASE 4 \notin S /\ 3 \notin S /\ 2 \in S BY <1>1, <2>3
  <2>4. CASE 4 \notin S /\ 3 \notin S /\ 2 \notin S BY <1>0, <1>1, <2>4
  <2> QED BY <2>1, <2>2, <2>3, <2>4
<1> QED BY <1>2, <1>3

\* A unit's facts of a resolve: of its own one, those of the units PlanAuthority names, and
\* of no other.
LEMMA OwnFacts ==
    ASSUME Backed, NEW unit \in Units, NEW t \in ResolveTypes
    PROVE  /\ unit.manifest.of = t /\ unit.manifest.use \in {"send", "handoff"} =>
                ResolvableFacts(AdmittedFacts(unit), t)
                    = {AdapterFact(collected.units[i], t) :
                        i \in FactsFor(collected, unit, t, turnPolicy)}
           /\ unit.manifest.of # t \/ unit.manifest.use \notin {"send", "handoff"} =>
                ResolvableFacts(AdmittedFacts(unit), t) = {}
<1>0. unit.manifest \in Manifests
  BY DEF Units
<1>1. \A f \in DOMAIN canonicalFacts : f.kind = "resolvable" /\ f.record = {t} =>
        \E i \in DOMAIN collected.units :
            /\ t \in ResolvesOf(collected.units[i], turnPolicy) /\ ResolvedIn(collected, t)
            /\ f = AdapterFact(collected.units[i], t)
  <2> SUFFICES ASSUME NEW f \in DOMAIN canonicalFacts, f.kind = "resolvable", f.record = {t}
               PROVE  \E i \in DOMAIN collected.units :
                        /\ t \in ResolvesOf(collected.units[i], turnPolicy)
                        /\ ResolvedIn(collected, t)
                        /\ f = AdapterFact(collected.units[i], t)
    OBVIOUS
  <2>1. PICK i \in DOMAIN collected.units : f \in MadeOf(i)
    BY DEF Backed, AdapterFactsExact
  <2>2. PICK u : /\ u \in ResolvesOf(collected.units[i], turnPolicy) /\ ResolvedIn(collected, u)
                 /\ f.record = {u} /\ f = AdapterFact(collected.units[i], u)
    BY <2>1, AdapterFactParts DEF MadeOf
  <2>3. u = t
    BY <2>2
  <2> QED BY <2>2, <2>3
<1>2. \A i : /\ AdapterFact(collected.units[i], t).kind = "resolvable"
             /\ AdapterFact(collected.units[i], t).source = "adapter_resolve"
             /\ AdapterFact(collected.units[i], t).record = {t}
             /\ AdapterFact(collected.units[i], t).artifact = ArtifactOf(t)
             /\ AdapterFact(collected.units[i], t).products = collected.units[i].products
  BY DEF AdapterFact, EvidenceFact
<1>3. ASSUME unit.manifest.of = t, unit.manifest.use \in {"send", "handoff"}
      PROVE  ResolvableFacts(AdmittedFacts(unit), t)
                = {AdapterFact(collected.units[i], t) :
                    i \in FactsFor(collected, unit, t, turnPolicy)}
  <2>0. unit.manifest.of # "general" /\ unit.manifest # CompanyKnowledge
        /\ unit.manifest.use # "product_list"
    BY <1>3 DEF ResolveTypes, Artifacts, Reports, CompanyKnowledge, Manifest
  <2>1. Contract(unit.manifest) = [kinds |-> {"resolvable"}, sources |-> {"adapter_resolve"},
                                   artifacts |-> {ArtifactOf(t)}]
    BY <1>0, <1>3, <2>0, Contracts
  <2>2. \A f \in DOMAIN canonicalFacts : AdmittedFor(f, unit) <=>
            /\ f.kind = "resolvable" /\ f.source = "adapter_resolve"
            /\ f.artifact = ArtifactOf(t) /\ f.products = unit.products
    BY <2>1 DEF AdmittedFor, SameScope
  <2>3. ASSUME NEW f \in ResolvableFacts(AdmittedFacts(unit), t)
        PROVE  f \in {AdapterFact(collected.units[i], t) :
                        i \in FactsFor(collected, unit, t, turnPolicy)}
    <3>1. f \in DOMAIN canonicalFacts /\ f.kind = "resolvable" /\ f.record = {t}
          /\ f.products = unit.products
      BY <2>2 DEF ResolvableFacts, AdmittedFacts
    <3> QED BY <1>1, <1>2, <3>1 DEF FactsFor
  <2>4. ASSUME NEW i \in FactsFor(collected, unit, t, turnPolicy)
        PROVE  AdapterFact(collected.units[i], t) \in ResolvableFacts(AdmittedFacts(unit), t)
    <3>1. /\ i \in DOMAIN collected.units
          /\ AdapterFact(collected.units[i], t) \in MadeOf(i)
          /\ collected.units[i].products = unit.products
      BY DEF FactsFor, MadeOf, AdapterFactsOf
    <3>2. AdapterFact(collected.units[i], t) \in DOMAIN canonicalFacts
      BY <3>1 DEF Backed, AdapterFactsExact
    <3> QED BY <1>2, <2>2, <3>1, <3>2 DEF ResolvableFacts, AdmittedFacts
  <2> QED BY <2>3, <2>4
<1>4. ASSUME NEW f \in ResolvableFacts(AdmittedFacts(unit), t)
      PROVE  unit.manifest.of = t /\ unit.manifest.use \in {"send", "handoff"}
  <2>1. /\ f \in DOMAIN canonicalFacts /\ f.kind = "resolvable" /\ f.record = {t}
        /\ "resolvable" \in Contract(unit.manifest).kinds
        /\ f.artifact \in Contract(unit.manifest).artifacts
    BY DEF ResolvableFacts, AdmittedFacts, AdmittedFor
  <2>2. f.artifact = ArtifactOf(t)
    BY <1>1, <1>2, <2>1
  <2>3. /\ unit.manifest.use \in {"send", "handoff"} /\ unit.manifest.of \in ResolveTypes
        /\ Contract(unit.manifest).artifacts = {ArtifactOf(unit.manifest.of)}
    BY <1>0, <2>1, Contracts
  <2> QED BY <2>1, <2>2, <2>3, ArtifactsDiffer
<1> QED BY <1>3, <1>4

\* The first of a unit's facts is that of the first unit it may lean on.
LEMMA FirstOwnFact ==
    ASSUME Backed, NEW unit \in Units, NEW t \in ResolveTypes,
           unit.manifest.of = t, unit.manifest.use \in {"send", "handoff"},
           FactsFor(collected, unit, t, turnPolicy) # {}
    PROVE  LET made == FactsFor(collected, unit, t, turnPolicy)
               first == CHOOSE i \in made : \A j \in made : i <= j
           IN /\ first \in made
              /\ FirstFact(ResolvableFacts(AdmittedFacts(unit), t), canonicalFacts)
                    = AdapterFact(collected.units[first], t)
<1> DEFINE made == FactsFor(collected, unit, t, turnPolicy)
           first == CHOOSE i \in made : \A j \in made : i <= j
           fact(i) == AdapterFact(collected.units[i], t)
           own == ResolvableFacts(AdmittedFacts(unit), t)
<1>1. own = {fact(i) : i \in made}
  BY OwnFacts
<1>2. made \subseteq DOMAIN collected.units /\ made \subseteq 1..4
  BY DEF Backed, FactsFor
<1>3. \A i : i \in made <=> /\ i \in DOMAIN collected.units /\ ResolvedIn(collected, t)
                            /\ t \in ResolvesOf(collected.units[i], turnPolicy)
                            /\ collected.units[i].products = unit.products
  BY DEF FactsFor
<1>4. \A i \in made : fact(i) \in MadeOf(i) /\ fact(i).record = {t}
                      /\ fact(i).products = unit.products
  BY <1>3 DEF MadeOf, AdapterFactsOf, AdapterFact, EvidenceFact
<1>5. \A i \in made : /\ canonicalFacts[fact(i)] \in DOMAIN collected.units
                      /\ fact(i) \in MadeOf(canonicalFacts[fact(i)])
                      /\ canonicalFacts[fact(i)] <= i
  BY <1>2, <1>4 DEF Backed, AdapterFactsExact
<1>6. ASSUME NEW i \in made
      PROVE  /\ canonicalFacts[fact(i)] \in made
             /\ fact(i) = fact(canonicalFacts[fact(i)])
  <2> DEFINE p == canonicalFacts[fact(i)]
  <2>1. PICK u : /\ u \in ResolvesOf(collected.units[p], turnPolicy) /\ ResolvedIn(collected, u)
                 /\ fact(i).record = {u} /\ fact(i).products = collected.units[p].products
                 /\ fact(i) = AdapterFact(collected.units[p], u)
    <3>1. fact(i) \in AdapterFactsOf(collected.units[p], turnPolicy, collected)
      BY <1>5 DEF MadeOf
    <3> HIDE DEF fact, p
    <3> QED BY <3>1, AdapterFactParts
  <2>2. u = t
    BY <1>4, <2>1
  <2> QED BY <1>3, <1>4, <1>5, <2>1, <2>2
<1> HIDE DEF made, fact, own
<1>7. first \in made /\ \A j \in made : first <= j
  BY <1>2, EndsOf4 DEF made
<1> HIDE DEF first
<1>8. \A i \in made : canonicalFacts[fact(i)] \in Int /\ first <= canonicalFacts[fact(i)]
  BY <1>2, <1>6, <1>7
<1>9. canonicalFacts[fact(first)] = first
  BY <1>2, <1>5, <1>7, <1>8
<1>10. fact(first) \in own /\ \A g \in own : canonicalFacts[fact(first)] <= canonicalFacts[g]
  BY <1>1, <1>7, <1>8, <1>9
<1>11. FirstFact(own, canonicalFacts) = fact(first)
  <2> DEFINE f == FirstFact(own, canonicalFacts)
  <2>1. f \in own /\ \A g \in own : canonicalFacts[f] <= canonicalFacts[g]
    BY <1>10 DEF FirstFact
  <2>2. PICK i \in made : f = fact(i)
    BY <1>1, <2>1
  <2>3. canonicalFacts[f] = first
    BY <1>8, <1>9, <1>10, <2>1, <2>2, <1>2, <1>7
  <2> QED BY <1>6, <2>2, <2>3
<1> QED BY <1>7, <1>11 DEF made, fact, own, first

GroundedAs(unit) == UnitGrounding(unit, turnPolicy, canonicalFacts, resolveBindings)

\* What a unit's business facts say of a resolve is what was collected.
StateAgrees(unit, t) ==
    LET state == GroundedAs(unit).business.states[t]
        made == FactsFor(collected, unit, t, turnPolicy)
        first == CHOOSE i \in made : \A j \in made : i <= j
    IN /\ state.available <=> /\ unit.manifest.of = t
                              /\ unit.manifest.use \in {"send", "handoff"}
                              /\ made # {}
       /\ state.available =>
             /\ first \in made
             /\ state.option = IF t = "material_pack" THEN collected.units[first].option
                               ELSE NoOption
             /\ state.ref = IF t = "material_pack" THEN collected.asked ELSE NoOption
             /\ state.dated <=> collected.preflight[t] = "resolved"

\* The business facts of a grounded unit agree with the evidence on every resolve.
LEMMA StatesAgree ==
    ASSUME Backed, NEW unit \in Units, NEW t \in ResolveTypes
    PROVE  StateAgrees(unit, t)
<1> DEFINE made == FactsFor(collected, unit, t, turnPolicy)
           first == CHOOSE i \in made : \A j \in made : i <= j
           admitted == AdmittedFacts(unit)
           own == ResolvableFacts(admitted, t)
           bindings == {b \in resolveBindings : b.fact \in admitted}
           state == GroundedAs(unit).business.states[t]
<1> SUFFICES /\ state.available <=> /\ unit.manifest.of = t
                                    /\ unit.manifest.use \in {"send", "handoff"}
                                    /\ made # {}
             /\ state.available =>
                   /\ first \in made
                   /\ state.option = IF t = "material_pack"
                                     THEN collected.units[first].option ELSE NoOption
                   /\ state.ref = IF t = "material_pack" THEN collected.asked ELSE NoOption
                   /\ state.dated <=> collected.preflight[t] = "resolved"
  BY Zenon DEF StateAgrees
<1>0. unit.manifest \in Manifests
  BY DEF Units
<1>1. state = ResolvableState(unit, t, admitted, canonicalFacts, bindings, turnPolicy)
  <2>1. AllowedEvidence(unit, DOMAIN canonicalFacts) = admitted
    BY GroundsAgree
  <2>2. GroundedAs(unit).business
            = BusinessFacts(unit, admitted, canonicalFacts, bindings, turnPolicy)
    BY <2>1 DEF GroundedAs, UnitGrounding
  <2> HIDE DEF admitted, bindings
  <2> QED BY <2>2 DEF BusinessFacts
<1>2. CASE unit.manifest.of # t \/ unit.manifest.use \notin {"send", "handoff"}
  <2>1. own = {}
    BY <1>2, OwnFacts
  <2> HIDE DEF admitted, bindings
  <2>2. state = UnknownState
    BY <1>1, <2>1 DEF ResolvableState
  <2>3. ~state.available
    BY <2>2 DEF UnknownState
  <2> QED BY <1>2, <2>3
<1>3. CASE unit.manifest.of = t /\ unit.manifest.use \in {"send", "handoff"} /\ made = {}
  <2>1. own = {}
    BY <1>3, OwnFacts
  <2> HIDE DEF admitted, bindings
  <2>2. state = UnknownState
    BY <1>1, <2>1 DEF ResolvableState
  <2>3. ~state.available
    BY <2>2 DEF UnknownState
  <2> QED BY <1>3, <2>3
<1>4. CASE unit.manifest.of = t /\ unit.manifest.use \in {"send", "handoff"} /\ made # {}
  <2> DEFINE fact == AdapterFact(collected.units[first], t)
             binding == BindingOf(fact, bindings)
  <2>1. first \in made /\ FirstFact(own, canonicalFacts) = fact
    BY <1>4, FirstOwnFact
  <2>2. fact \in own
    BY <1>4, <2>1, OwnFacts
  <2>3. Declared(unit, t, turnPolicy)
    BY <1>4 DEF Declared, ResolvesOf
  <2>4. /\ fact \in DOMAIN canonicalFacts /\ fact \in admitted /\ fact.kind = "resolvable"
        /\ fact.record = {t}
    BY <2>2 DEF ResolvableFacts, AdmittedFacts
  <2>5. fact.option = collected.units[first].option
    BY DEF AdapterFact, EvidenceFact
  <2> HIDE DEF made, first, fact, admitted, own
  <2>6. ResolveBinding(fact, collected) \in bindings
    <3>1. ResolveBinding(fact, collected) \in resolveBindings
      BY <2>4 DEF Backed, AdapterFactsExact
    <3>2. ResolveBinding(fact, collected).fact = fact
      BY DEF ResolveBinding
    <3> QED BY <2>4, <3>1, <3>2
  <2>7. binding = ResolveBinding(fact, collected)
    <3>1. \A b \in bindings : b.fact = fact => b = ResolveBinding(fact, collected)
      BY DEF Backed, AdapterFactsExact
    <3>2. ResolveBinding(fact, collected).fact = fact
      BY DEF ResolveBinding
    <3> HIDE DEF bindings
    <3> QED BY <2>6, <3>1, <3>2 DEF BindingOf
  <2>8. (CHOOSE u \in ResolveTypes : fact.record = {u}) = t
    BY <2>4
  <2>9. /\ binding.ref = IF t = "material_pack" THEN collected.asked ELSE NoOption
        /\ binding.dated = (collected.preflight[t] = "resolved")
    <3>1. ResolveBinding(fact, collected)
            = [fact |-> fact, ref |-> IF t = "material_pack" THEN collected.asked ELSE NoOption,
               dated |-> collected.preflight[t] = "resolved"]
      BY <2>8, Zenon DEF ResolveBinding
    <3> QED BY <2>7, <3>1
  <2> HIDE DEF bindings, binding
  <2>10. state = [available |-> TRUE,
                  option |-> IF t = "material_pack" THEN fact.option ELSE NoOption,
                  ref |-> binding.ref, dated |-> binding.dated]
    BY <1>1, <2>1, <2>2, <2>3 DEF ResolvableState, own, binding
  <2> HIDE DEF state
  <2>11. /\ state.available
         /\ state.option = IF t = "material_pack" THEN fact.option ELSE NoOption
         /\ state.ref = binding.ref /\ state.dated = binding.dated
    BY <2>10
  <2>12. /\ state.option = IF t = "material_pack" THEN collected.units[first].option ELSE NoOption
         /\ state.ref = IF t = "material_pack" THEN collected.asked ELSE NoOption
         /\ state.dated <=> collected.preflight[t] = "resolved"
    BY <2>5, <2>9, <2>11
  <2> QED BY <1>4, <2>1, <2>11, <2>12 DEF made, first, state
<1> QED BY <1>2, <1>3, <1>4

GroundedNow ==
    /\ Backed
    /\ turnPlan.units \in Seq(Units) /\ Len(turnPlan.units) <= 4
    /\ groundings = Ground(turnPlan, turnPolicy, canonicalFacts, resolveBindings)

\* The groundings are those of the plan's units.
LEMMA GroundingsAre ==
    ASSUME GroundedNow
    PROVE  /\ DOMAIN groundings = DOMAIN turnPlan.units
           /\ \A i \in DOMAIN turnPlan.units :
                /\ turnPlan.units[i] \in Units
                /\ groundings[i].unit = turnPlan.units[i]
                /\ groundings[i].facts = AdmittedFacts(turnPlan.units[i])
                /\ groundings[i].facts # {} <=> Grounded(collected, turnPlan.units[i], turnPolicy)
                /\ groundings[i].business.allowed = Permitted(turnPlan.units[i], turnPolicy)
                /\ groundings[i].business.states = GroundedAs(turnPlan.units[i]).business.states
<1>1. DOMAIN groundings = DOMAIN turnPlan.units
  BY DEF GroundedNow, Ground
<1> SUFFICES ASSUME NEW i \in DOMAIN turnPlan.units
             PROVE  /\ turnPlan.units[i] \in Units
                    /\ groundings[i].unit = turnPlan.units[i]
                    /\ groundings[i].facts = AdmittedFacts(turnPlan.units[i])
                    /\ groundings[i].facts # {}
                        <=> Grounded(collected, turnPlan.units[i], turnPolicy)
                    /\ groundings[i].business.allowed = Permitted(turnPlan.units[i], turnPolicy)
                    /\ groundings[i].business.states
                        = GroundedAs(turnPlan.units[i]).business.states
  BY <1>1
<1>2. turnPlan.units[i] \in Units
  BY DEF GroundedNow
<1>3. groundings[i] = GroundedAs(turnPlan.units[i])
  BY DEF GroundedNow, Ground, GroundedAs
<1>4. groundings[i].unit = turnPlan.units[i]
      /\ groundings[i].facts = AllowedEvidence(turnPlan.units[i], DOMAIN canonicalFacts)
  BY <1>3 DEF GroundedAs, UnitGrounding
<1>5. groundings[i].business.allowed = Permitted(turnPlan.units[i], turnPolicy)
  BY <1>3 DEF GroundedAs, UnitGrounding, BusinessFacts
<1> QED BY <1>2, <1>3, <1>4, <1>5, GroundsAgree DEF GroundedNow

\* An action is ready, and is what it is, by the business facts as by the evidence.
LEMMA ActionsAgree ==
    ASSUME GroundedNow, NEW i \in SendUnits(turnPlan)
    PROVE  LET unit == turnPlan.units[i] IN
           /\ ActionReady(i) <=> Permitted(unit, turnPolicy) /\ Sendable(collected, unit, turnPolicy)
           /\ ActionReady(i) => ReadyAction(i) = ActionOf(i, turnPlan, collected, turnPolicy)
<1> DEFINE unit == turnPlan.units[i]
           t == unit.manifest.of
           state == GroundedAs(unit).business.states[t]
           made == FactsFor(collected, unit, t, turnPolicy)
           first == CHOOSE j \in made : \A k \in made : j <= k
<1>1. i \in DOMAIN turnPlan.units /\ IntentsOf(unit) # {} /\ t \in Artifacts
  BY DEF SendUnits, IntentsOf
<1>2. unit \in Units /\ unit.manifest \in Manifests /\ t \in ResolveTypes /\ t # "sales_mention"
  BY <1>1, GroundingsAre DEF Units, ResolveTypes, Artifacts, Reports
<1>3. StateOf(i) = state
  BY <1>1, GroundingsAre DEF StateOf
<1>4. groundings[i].business.allowed = Permitted(unit, turnPolicy)
  BY <1>1, GroundingsAre
<1>5. /\ state.available <=> unit.manifest.use \in {"send", "handoff"} /\ made # {}
      /\ state.available =>
            /\ state.option = IF t = "material_pack" THEN collected.units[first].option
                              ELSE NoOption
            /\ state.ref = IF t = "material_pack" THEN collected.asked ELSE NoOption
            /\ state.dated <=> collected.preflight[t] = "resolved"
  <2>1. Backed /\ unit.manifest.of = t
    BY DEF GroundedNow
  <2>2. /\ state.available <=> /\ unit.manifest.of = t
                               /\ unit.manifest.use \in {"send", "handoff"}
                               /\ made # {}
        /\ state.available =>
              /\ state.option = IF t = "material_pack" THEN collected.units[first].option
                                ELSE NoOption
              /\ state.ref = IF t = "material_pack" THEN collected.asked ELSE NoOption
              /\ state.dated <=> collected.preflight[t] = "resolved"
    <3>1. StateAgrees(unit, t)
      BY <1>2, <2>1, StatesAgree
    <3> QED BY <3>1, Zenon DEF StateAgrees
  <2> HIDE DEF unit, t, state, made, first
  <2> QED BY <2>1, <2>2
<1>6. unit.manifest.use # "handoff"
  <2>1. unit.manifest.use = "handoff" => t \in {"sales_mention", "general"}
    BY <1>2 DEF Manifests, SalesHandoff, CompanyKnowledge, General, Manifest
  <2> QED BY <1>1, <2>1 DEF Artifacts, Reports
<1>7. made # {} => /\ collected.preflight[t] \in {"resolved", "undated"}
                   /\ t = "material_pack" => collected.preflight[t] = "resolved"
  <2> SUFFICES ASSUME NEW j \in made
               PROVE  /\ collected.preflight[t] \in {"resolved", "undated"}
                      /\ t = "material_pack" => collected.preflight[t] = "resolved"
    OBVIOUS
  <2>1. ResolvedIn(collected, t)
    BY DEF FactsFor
  <2>2. /\ t \in DOMAIN collected.preflight /\ collected.preflight[t] \in {"resolved", "undated"}
        /\ collected.preflight[t] \in Statuses(t)
    BY <2>1 DEF ResolvedIn, GroundedNow, Backed
  <2>3. t = "material_pack" => Statuses(t) = {"resolved", "missing", "failed", "ambiguous"}
    BY DEF Statuses, Reports
  <2> QED BY <2>2, <2>3
<1> HIDE DEF state, made
<1>8. ActionReady(i) <=> /\ Permitted(unit, turnPolicy) /\ state.available
                         /\ t \in Reports => state.dated
  BY <1>3, <1>4 DEF ActionReady
<1>9. t = "material_pack" \/ t \in Reports
  BY <1>1 DEF Artifacts
<1>10. Sendable(collected, unit, turnPolicy) <=>
            unit.manifest.use = "send" /\ made # {} /\ collected.preflight[t] = "resolved"
  BY <1>1 DEF Sendable, made
<1>11. ActionReady(i) <=> Permitted(unit, turnPolicy) /\ Sendable(collected, unit, turnPolicy)
  BY <1>5, <1>6, <1>7, <1>8, <1>9, <1>10
<1>12. ASSUME ActionReady(i)
       PROVE  ReadyAction(i) = ActionOf(i, turnPlan, collected, turnPolicy)
  <2>1. /\ state.option = IF t = "material_pack" THEN collected.units[first].option ELSE NoOption
        /\ state.ref = IF t = "material_pack" THEN collected.asked ELSE NoOption
    BY <1>5, <1>8, <1>12
  <2>2. ReadyAction(i) =
            [unit |-> i, type |-> t, ref |-> state.ref,
             option |-> IF t # "material_pack" THEN NoOption
                        ELSE IF unit.option # NoOption THEN unit.option ELSE state.option]
    BY <1>3 DEF ReadyAction
  <2>3. ActionOf(i, turnPlan, collected, turnPolicy) =
            [unit |-> i, type |-> t,
             option |-> IF t # "material_pack" THEN NoOption
                        ELSE IF unit.option # NoOption THEN unit.option
                        ELSE collected.units[first].option,
             ref |-> IF t = "material_pack" THEN collected.asked ELSE NoOption]
    BY Zenon DEF ActionOf, made
  <2> HIDE DEF first, unit, t
  <2> QED BY <2>1, <2>2, <2>3
<1> QED BY <1>11, <1>12

\* The reply rendered from the groundings is the one PlanAuthority renders.
LEMMA RepliesAgree ==
    ASSUME GroundedNow
    PROVE  GroundedReply = RenderedReply(turnPlan, collected, turnPolicy)
<1>1. GroundedActionReply = ActionReply(turnPlan, collected, turnPolicy)
  <2> DEFINE acting == {i \in SendUnits(turnPlan) : ActionReady(i)}
             sendable == {i \in SendUnits(turnPlan) :
                            Permitted(turnPlan.units[i], turnPolicy)
                            /\ Sendable(collected, turnPlan.units[i], turnPolicy)}
  <2>1. acting = sendable
    BY ActionsAgree
  <2>2. {ReadyAction(i) : i \in acting}
            = {ActionOf(i, turnPlan, collected, turnPolicy) : i \in acting}
    BY ActionsAgree
  <2> QED BY <2>1, <2>2 DEF GroundedActionReply, ActionReply
<1>2. GroundedHandoffReply = HandoffReply(turnPlan, collected, turnPolicy)
  <2>1. ASSUME NEW i \in DOMAIN turnPlan.units
        PROVE  groundings[i].business.states["sales_mention"].available
                <=> /\ turnPlan.units[i].manifest = SalesHandoff
                    /\ Grounded(collected, turnPlan.units[i], turnPolicy)
    <3> DEFINE unit == turnPlan.units[i]
    <3>1. unit \in Units /\ unit.manifest \in Manifests
      BY GroundingsAre DEF Units
    <3>2. "sales_mention" \in ResolveTypes
      BY DEF ResolveTypes
    <3>3. groundings[i].business.states["sales_mention"].available
            <=> /\ unit.manifest.of = "sales_mention"
                /\ unit.manifest.use \in {"send", "handoff"}
                /\ FactsFor(collected, unit, "sales_mention", turnPolicy) # {}
      <4>1. StateAgrees(unit, "sales_mention")
        BY <3>1, <3>2, StatesAgree DEF GroundedNow
      <4>2. groundings[i].business.states = GroundedAs(unit).business.states
        BY GroundingsAre
      <4> HIDE DEF unit
      <4> QED BY <4>1, <4>2 DEF StateAgrees
    <3>4. unit.manifest.of = "sales_mention" <=> unit.manifest = SalesHandoff
      BY <3>1 DEF Manifests, SalesHandoff, CompanyKnowledge, General, Manifest, Artifacts, Reports
    <3>5. SalesHandoff.use = "handoff" /\ SalesHandoff.of = "sales_mention"
      BY DEF SalesHandoff, Manifest
    <3>6. unit.manifest = SalesHandoff =>
            \A j \in collected.products \cup collected.documents :
                collected.units[j].manifest # unit.manifest
      BY <3>5 DEF GroundedNow, Backed, ListedExact, KnownExact, CompanyKnowledge, Manifest
    <3>7. unit.manifest = SalesHandoff =>
            (Grounded(collected, unit, turnPolicy)
                <=> FactsFor(collected, unit, "sales_mention", turnPolicy) # {})
      BY <3>5, <3>6 DEF Grounded
    <3> QED BY <3>3, <3>4, <3>5, <3>7
  <2>2. DOMAIN groundings = DOMAIN turnPlan.units
    BY GroundingsAre
  <2> QED BY <2>1, <2>2 DEF GroundedHandoffReply, HandoffReply
<1> DEFINE mode == ResponseMode(turnPlan)
<1> HIDE DEF mode
<1>3. GroundedReply = CASE mode = "action" -> GroundedActionReply
                        [] mode = "handoff" -> GroundedHandoffReply
                        [] mode \in {"clarification", "no_reply"} -> Reply(mode, {}, FALSE)
                        [] OTHER -> Unable
  BY DEF GroundedReply, mode
<1>4. RenderedReply(turnPlan, collected, turnPolicy) =
        CASE mode = "clarification" -> Reply("clarification", {}, FALSE)
          [] mode = "handoff" -> HandoffReply(turnPlan, collected, turnPolicy)
          [] mode = "no_reply" -> Reply("no_reply", {}, FALSE)
          [] mode = "action" -> ActionReply(turnPlan, collected, turnPolicy)
          [] OTHER -> Unable
  BY DEF RenderedReply, mode
<1>5. CASE mode = "action" BY <1>1, <1>3, <1>4, <1>5
<1>6. CASE mode = "handoff" BY <1>2, <1>3, <1>4, <1>6
<1>7. CASE mode = "clarification" BY <1>3, <1>4, <1>7
<1>8. CASE mode = "no_reply" BY <1>3, <1>4, <1>8
<1>9. CASE mode \notin {"action", "handoff", "clarification", "no_reply"} BY <1>3, <1>4, <1>9
<1> QED BY <1>5, <1>6, <1>7, <1>8, <1>9

\* All facts admitted for a unit are of its scope, and of one kind.
LEMMA AdmittedAlike ==
    ASSUME NEW unit \in Units, NEW f \in AdmittedFacts(unit), NEW g \in AdmittedFacts(unit)
    PROVE  f.products = g.products /\ f.kind = g.kind
<1>1. unit.manifest \in Manifests
  BY DEF Units
<1>2. /\ f.products = unit.products /\ g.products = unit.products
      /\ f.kind \in Contract(unit.manifest).kinds /\ g.kind \in Contract(unit.manifest).kinds
  BY DEF AdmittedFacts, AdmittedFor, SameScope
<1>3. \E k : Contract(unit.manifest).kinds \subseteq {k}
  BY <1>1, Contracts
<1> QED BY <1>2, <1>3

\* An accepted output leans on the facts of one unit, its images included.
LEMMA AcceptedIsOneAuthority ==
    ASSUME GroundedNow, turnPlan.units = collected.units, NEW output, Accepted(output)
    PROVE  LET leansOn == output.cited
                          \cup {b.fact : b \in {b \in mediaBindings : b.image \in output.shown}}
           IN /\ \A f, g \in leansOn : f.products = g.products /\ f.kind = g.kind
              /\ turnPolicy.scene = "direct" => output.shown = {}
<1> DEFINE leansOn == output.cited
                      \cup {b.fact : b \in {b \in mediaBindings : b.image \in output.shown}}
<1>1. output.shown \subseteq AllowedImages
  BY DEF Accepted
<1>2. turnPolicy.scene = "direct" => output.shown = {}
  BY <1>1 DEF AllowedImages
<1>3. PICK set \in EvidenceSets :
        output.cited \cup UNION {MediaEvidence(i) : i \in output.shown} \subseteq set
  BY DEF Accepted
<1>4. ASSUME NEW b \in mediaBindings, b.image \in output.shown PROVE b.fact \in set
  <2>1. AllowedImages # {} => ShownUnits = DOMAIN turnPlan.units
    BY GroundingsAre DEF AllowedImages, ShownUnits
  <2>2. /\ b.fact \in DOMAIN canonicalFacts /\ OfCompany(b.fact)
        /\ \E i \in collected.documents : b.fact.products = collected.units[i].products
    BY DEF GroundedNow, Backed, KnownExact, OfCompany
  <2>3. PICK i \in collected.documents : b.fact.products = collected.units[i].products
    BY <2>2
  <2>4. i \in DOMAIN turnPlan.units /\ turnPlan.units[i].manifest = CompanyKnowledge
    BY DEF GroundedNow, Backed, KnownExact
  <2>5. Contract(CompanyKnowledge) =
            [kinds |-> {"document_context"},
             sources |-> {"document_mcp", "approved_static_knowledge"},
             artifacts |-> {"document_context"}]
    BY DEF Contract, CompanyKnowledge, SalesHandoff, Manifest
  <2>6. AdmittedFor(b.fact, turnPlan.units[i])
    BY <2>2, <2>3, <2>4, <2>5 DEF AdmittedFor, SameScope, OfCompany
  <2>7. b.fact \in groundings[i].facts
    BY <2>2, <2>4, <2>6, GroundingsAre DEF AdmittedFacts
  <2>8. ShownUnits = DOMAIN turnPlan.units
    BY <1>1, <1>4, <2>1
  <2>9. groundings[i].facts \in EvidenceSets
    BY <2>4, <2>8 DEF EvidenceSets
  <2>10. b.fact \in MediaEvidence(b.image)
    BY <2>7, <2>9 DEF MediaEvidence
  <2> QED BY <1>3, <1>4, <2>10
<1>5. leansOn \subseteq set
  BY <1>3, <1>4
<1>6. ASSUME NEW f \in set, NEW g \in set PROVE f.products = g.products /\ f.kind = g.kind
  <2>1. PICK i \in ShownUnits : set = groundings[i].facts
    BY <1>6 DEF EvidenceSets
  <2>2. i \in DOMAIN turnPlan.units
    BY GroundingsAre DEF ShownUnits
  <2> QED BY <1>6, <2>1, <2>2, GroundingsAre, AdmittedAlike
<1> HIDE DEF leansOn
<1>7. \A f, g \in leansOn : f.products = g.products /\ f.kind = g.kind
  BY <1>5, <1>6
<1> QED BY <1>2, <1>7 DEF leansOn

\* If they are one, the adapter was asked for it.
LEMMA OneOptionAsked ==
    ASSUME NEW plan, plan.units \in Seq(Units), Len(plan.units) <= 4,
           NEW o \in AskedOf(plan.units), AskedOf(plan.units) = {o}
    PROVE  AskedOption(plan) = o
<1> DEFINE names(i) == /\ plan.units[i].manifest.of = "material_pack"
                       /\ plan.units[i].option # NoOption
           named == {i \in DOMAIN plan.units : names(i)}
           firsts == {i \in DOMAIN plan.units :
                        names(i) /\ \A j \in 1..(i - 1) :
                            names(j) => plan.units[j].option # plan.units[i].option}
           last == CHOOSE i \in firsts : \A j \in firsts : j <= i
<1>1. named # {} /\ named \subseteq 1..4 /\ \A i \in named : plan.units[i].option = o
  <2>1. \A i \in named : plan.units[i].option \in AskedOf(plan.units)
    BY DEF AskedOf
  <2>2. \E i \in DOMAIN plan.units : names(i) /\ plan.units[i].option = o
    BY DEF AskedOf
  <2>3. DOMAIN plan.units \subseteq 1..4
    OBVIOUS
  <2> QED BY <2>1, <2>2, <2>3
<1>2. PICK m \in named : \A n \in named : m <= n
  BY <1>1, EndsOf4
<1>3. m \in firsts
  <2>1. \A j \in 1..(m - 1) : j \in DOMAIN plan.units /\ ~(m <= j)
    BY <1>2
  <2> QED BY <1>2, <2>1
<1>4. firsts \subseteq named /\ firsts # {} /\ firsts \subseteq 1..4
  BY <1>1, <1>3
<1>5. last \in firsts
  <2> HIDE DEF firsts
  <2> QED BY <1>4, EndsOf4
<1>6. AskedOption(plan) = IF firsts = {} THEN NoOption ELSE plan.units[last].option
  BY Zenon DEF AskedOption
<1> HIDE DEF firsts, last
<1> QED BY <1>1, <1>4, <1>5, <1>6

\* The option an action names is one that is asked for.
LEMMA ActionsNameAsked ==
    ASSUME GroundedNow, turnPlan.units = collected.units,
           NEW i \in SendUnits(turnPlan), Sendable(collected, turnPlan.units[i], turnPolicy),
           NEW a, a = ActionOf(i, turnPlan, collected, turnPolicy),
           a.type = "material_pack", a.option # NoOption
    PROVE  a.option \in AskedOf(collected.units) /\ a.ref = collected.asked
<1> DEFINE unit == turnPlan.units[i]
           t == unit.manifest.of
           made == FactsFor(collected, unit, t, turnPolicy)
           first == CHOOSE j \in made : \A k \in made : j <= k
<1>1. a = [unit |-> i, type |-> t,
           option |-> IF t # "material_pack" THEN NoOption
                      ELSE IF unit.option # NoOption THEN unit.option
                      ELSE collected.units[first].option,
           ref |-> IF t = "material_pack" THEN collected.asked ELSE NoOption]
  BY Zenon DEF ActionOf
<1>2. /\ t = "material_pack" /\ a.ref = collected.asked
      /\ a.option = IF unit.option # NoOption THEN unit.option ELSE collected.units[first].option
  <2> HIDE DEF unit, first, made, t
  <2>1. a.type = t
    BY <1>1
  <2>2. /\ t = "material_pack" => a.ref = collected.asked
        /\ t = "material_pack" => a.option = IF unit.option # NoOption THEN unit.option
                                             ELSE collected.units[first].option
    BY <1>1
  <2> QED BY <2>1, <2>2
<1>3. made # {} /\ made \subseteq DOMAIN collected.units /\ made \subseteq 1..4
  BY DEF Sendable, FactsFor, GroundedNow, Backed
<1>4. first \in made
  <2> HIDE DEF made
  <2> QED BY <1>3, EndsOf4
<1>5. collected.units[first].manifest.of = "material_pack" /\ first \in DOMAIN collected.units
  <2>1. "material_pack" \in ResolvesOf(collected.units[first], turnPolicy)
        /\ first \in DOMAIN collected.units
    BY <1>2, <1>4 DEF FactsFor
  <2> QED BY <2>1 DEF ResolvesOf
<1>6. i \in DOMAIN collected.units
  BY DEF SendUnits
<1> QED BY <1>2, <1>5, <1>6 DEF AskedOf

\* The facts of a report.
LEMMA ReportParts ==
    ASSUME NEW unit
    PROVE  /\ \A reading \in Readings : \A f \in ReportFacts(unit, reading) :
                /\ f.source = "adapter_report_scope" /\ f.artifact = unit.manifest.of
                /\ f.products = unit.products
                /\ f.kind \notin {"resolvable", "document_context"}
                /\ f.kind = "report_scope_products" => reading = "listed"
           /\ \E f \in ReportFacts(unit, "listed") : f.kind = "report_scope_products"
<1> DEFINE fact(k) == EvidenceFact(k, "adapter_report_scope", unit.manifest.of,
                                   {unit.manifest.of}, unit.products, NoOption)
<1>1. ASSUME NEW reading \in Readings, NEW f \in ReportFacts(unit, reading)
      PROVE  /\ f.source = "adapter_report_scope" /\ f.artifact = unit.manifest.of
             /\ f.products = unit.products
             /\ f.kind \notin {"resolvable", "document_context"}
             /\ f.kind = "report_scope_products" => reading = "listed"
  <2>1. PICK k \in {"report_scope_summary", "report_scope_products", "report_scope_unavailable"} :
            f = fact(k) /\ (k = "report_scope_products" => reading = "listed")
    <3>1. CASE reading = "listed" BY <3>1 DEF ReportFacts
    <3>2. CASE reading = "summarized" BY <3>2 DEF ReportFacts
    <3>3. CASE reading = "unread" BY <3>3 DEF ReportFacts
    <3> QED BY <3>1, <3>2, <3>3 DEF Readings
  <2> QED BY <2>1 DEF EvidenceFact
<1>2. fact("report_scope_products") \in ReportFacts(unit, "listed")
  BY DEF ReportFacts
<1>3. fact("report_scope_products").kind = "report_scope_products"
  BY DEF EvidenceFact
<1> QED BY <1>1, <1>2, <1>3

\* The facts of what is known of the company.
KnowledgeFacts(unit, find) == DocumentFacts(unit, find) \cup AnswerFacts(unit, find)

LEMMA KnowledgeParts ==
    ASSUME NEW unit, NEW find
    PROVE  /\ \A f \in KnowledgeFacts(unit, find) : OfCompany(f) /\ f.products = unit.products
           /\ find.documents # {} \/ find.answers # {} <=> KnowledgeFacts(unit, find) # {}
<1>1. ASSUME NEW f \in KnowledgeFacts(unit, find)
      PROVE  OfCompany(f) /\ f.products = unit.products
  BY DEF KnowledgeFacts, DocumentFacts, AnswerFacts, KnowledgeFact, EvidenceFact, OfCompany
<1>2. find.documents # {} \/ find.answers # {} <=> KnowledgeFacts(unit, find) # {}
  BY DEF KnowledgeFacts, DocumentFacts, AnswerFacts
<1> QED BY <1>1, <1>2

\* What is collected backs what it says was found.
LEMMA CollectBacks ==
    ASSUME Collect, turnPlan.units \in Seq(Units), Len(turnPlan.units) <= 4
    PROVE  Backed'
<1> DEFINE unitOf(i) == turnPlan.units[i]
<1>1. PICK preflight \in
                {p \in [AskedTypes(turnPlan, turnPolicy) -> UNION {Statuses(t) : t \in ResolveTypes}] :
                    \A t \in DOMAIN p : p[t] \in Statuses(t)} :
      \E readings \in [ReportTargets(turnPlan, turnPolicy) -> Readings] :
      \E finds \in [Queried(turnPlan) -> {f \in Finds(turnPolicy) : OneAnswer(f)}] :
        LET answers == UNION {AnswerFacts(unitOf(i), finds[i]) : i \in DOMAIN finds}
            documents == UNION {DocumentFacts(unitOf(i), finds[i]) : i \in DOMAIN finds}
            reported == UNION {ReportFacts(unitOf(i), readings[i]) : i \in DOMAIN readings}
            evidence == Evidence(turnPlan.units, preflight, AskedOption(turnPlan),
                                 {i \in DOMAIN readings : readings[i] = "listed"},
                                 {i \in DOMAIN finds : finds[i].documents # {}
                                                       \/ finds[i].answers # {}})
            adapter == AdapterFacts(turnPlan, turnPolicy, evidence)
        IN /\ collected' = evidence
           /\ canonicalFacts' = Canonical(adapter, reported \cup documents \cup answers, turnPlan)
           /\ resolveBindings' = {ResolveBinding(f, evidence) : f \in DOMAIN adapter}
           /\ mediaBindings' = MediaBindings(answers)
  BY DEF Collect
<1>2. PICK readings \in [ReportTargets(turnPlan, turnPolicy) -> Readings] :
      \E finds \in [Queried(turnPlan) -> {f \in Finds(turnPolicy) : OneAnswer(f)}] :
        LET answers == UNION {AnswerFacts(unitOf(i), finds[i]) : i \in DOMAIN finds}
            documents == UNION {DocumentFacts(unitOf(i), finds[i]) : i \in DOMAIN finds}
            reported == UNION {ReportFacts(unitOf(i), readings[i]) : i \in DOMAIN readings}
            evidence == Evidence(turnPlan.units, preflight, AskedOption(turnPlan),
                                 {i \in DOMAIN readings : readings[i] = "listed"},
                                 {i \in DOMAIN finds : finds[i].documents # {}
                                                       \/ finds[i].answers # {}})
            adapter == AdapterFacts(turnPlan, turnPolicy, evidence)
        IN /\ collected' = evidence
           /\ canonicalFacts' = Canonical(adapter, reported \cup documents \cup answers, turnPlan)
           /\ resolveBindings' = {ResolveBinding(f, evidence) : f \in DOMAIN adapter}
           /\ mediaBindings' = MediaBindings(answers)
  BY <1>1
<1>3. PICK finds \in [Queried(turnPlan) -> {f \in Finds(turnPolicy) : OneAnswer(f)}] :
        LET answers == UNION {AnswerFacts(unitOf(i), finds[i]) : i \in DOMAIN finds}
            documents == UNION {DocumentFacts(unitOf(i), finds[i]) : i \in DOMAIN finds}
            reported == UNION {ReportFacts(unitOf(i), readings[i]) : i \in DOMAIN readings}
            evidence == Evidence(turnPlan.units, preflight, AskedOption(turnPlan),
                                 {i \in DOMAIN readings : readings[i] = "listed"},
                                 {i \in DOMAIN finds : finds[i].documents # {}
                                                       \/ finds[i].answers # {}})
            adapter == AdapterFacts(turnPlan, turnPolicy, evidence)
        IN /\ collected' = evidence
           /\ canonicalFacts' = Canonical(adapter, reported \cup documents \cup answers, turnPlan)
           /\ resolveBindings' = {ResolveBinding(f, evidence) : f \in DOMAIN adapter}
           /\ mediaBindings' = MediaBindings(answers)
  BY <1>2
<1> DEFINE answers == UNION {AnswerFacts(unitOf(i), finds[i]) : i \in DOMAIN finds}
           documents == UNION {DocumentFacts(unitOf(i), finds[i]) : i \in DOMAIN finds}
           reported == UNION {ReportFacts(unitOf(i), readings[i]) : i \in DOMAIN readings}
           adapter == AdapterFacts(turnPlan, turnPolicy, collected')
<1>4. /\ collected'.units = turnPlan.units /\ collected'.preflight = preflight
      /\ collected'.asked = AskedOption(turnPlan)
      /\ collected'.products = {i \in DOMAIN readings : readings[i] = "listed"}
      /\ collected'.documents = {i \in DOMAIN finds : finds[i].documents # {}
                                                     \/ finds[i].answers # {}}
  BY <1>3 DEF Evidence
<1>5. /\ canonicalFacts' = Canonical(adapter, reported \cup documents \cup answers, turnPlan)
      /\ resolveBindings' = {ResolveBinding(f, collected') : f \in DOMAIN adapter}
      /\ mediaBindings' = MediaBindings(answers)
  BY <1>3
<1>6. turnPolicy' = turnPolicy
  BY DEF Collect
<1>7. /\ \A i \in DOMAIN readings : readings[i] \in Readings
      /\ DOMAIN readings = ReportTargets(turnPlan, turnPolicy) /\ DOMAIN finds = Queried(turnPlan)
  OBVIOUS
<1>8. \A f \in documents \cup answers : OfCompany(f)
  <2> SUFFICES ASSUME NEW f \in documents \cup answers PROVE OfCompany(f)
    OBVIOUS
  <2>1. PICK i \in DOMAIN finds : f \in KnowledgeFacts(unitOf(i), finds[i])
    BY DEF KnowledgeFacts
  <2> QED BY <2>1, KnowledgeParts
<1>9. \A f \in reported : f.kind \notin {"resolvable", "document_context"}
  <2> SUFFICES ASSUME NEW f \in reported PROVE f.kind \notin {"resolvable", "document_context"}
    OBVIOUS
  <2>1. PICK i \in DOMAIN readings : f \in ReportFacts(unitOf(i), readings[i])
    OBVIOUS
  <2> QED BY <1>7, <2>1, ReportParts
<1> DEFINE made(i) == AdapterFactsOf(turnPlan.units[i], turnPolicy, collected')
<1>10. \A i : made(i) = AdapterFactsOf(collected'.units[i], turnPolicy', collected')
  BY <1>4, <1>6
<1>11. adapter = [f \in UNION {made(i) : i \in DOMAIN turnPlan.units} |->
                    CHOOSE i \in DOMAIN turnPlan.units :
                        f \in made(i) /\ \A j \in 1..(i - 1) : f \notin made(j)]
  BY DEF AdapterFacts
<1>12. \A i : \A f \in made(i) : f.kind = "resolvable"
  BY DEF AdapterFactsOf, AdapterFact, EvidenceFact
<1>13. \A f \in documents \cup answers : f.kind = "document_context"
  BY <1>8 DEF OfCompany
<1> HIDE DEF made, adapter, answers, documents, reported
<1>14. /\ DOMAIN canonicalFacts' = DOMAIN adapter \cup (reported \cup documents \cup answers)
       /\ \A f \in DOMAIN adapter : canonicalFacts'[f] = adapter[f]
  BY <1>5 DEF Canonical
<1>15. /\ \A f \in DOMAIN adapter : \E i \in DOMAIN turnPlan.units : f \in made(i)
       /\ \A i \in DOMAIN turnPlan.units : made(i) \subseteq DOMAIN adapter
  BY <1>11
<1>16. ASSUME NEW i \in DOMAIN turnPlan.units, NEW f \in made(i)
       PROVE  adapter[f] \in DOMAIN turnPlan.units /\ f \in made(adapter[f]) /\ adapter[f] <= i
  <2> DEFINE makers == {j \in DOMAIN turnPlan.units : f \in made(j)}
  <2>1. makers \subseteq 1..4 /\ makers # {}
    BY <1>16
  <2>2. PICK m \in makers : \A n \in makers : m <= n
    BY <2>1, EndsOf4
  <2>3. \A j \in 1..(m - 1) : f \notin made(j)
    <3>1. \A j \in 1..(m - 1) : j \in DOMAIN turnPlan.units /\ ~(m <= j)
      BY <2>1
    <3> QED BY <2>2, <3>1
  <2>4. adapter[f] = CHOOSE k \in DOMAIN turnPlan.units :
                        f \in made(k) /\ \A j \in 1..(k - 1) : f \notin made(j)
    BY <1>11, <1>16
  <2>5. /\ adapter[f] \in DOMAIN turnPlan.units /\ f \in made(adapter[f])
        /\ \A j \in 1..(adapter[f] - 1) : f \notin made(j)
    BY <2>2, <2>3, <2>4
  <2> QED BY <1>16, <2>5
<1>17. AdapterFactsExact'
  <2>1. ASSUME NEW f \in DOMAIN canonicalFacts'
        PROVE  f.kind = "resolvable" <=> \E i \in DOMAIN collected'.units : f \in made(i)
    BY <1>4, <1>9, <1>12, <1>13, <1>14, <1>15
  <2>2. ASSUME NEW f \in DOMAIN canonicalFacts', f.kind = "resolvable"
        PROVE  ResolveBinding(f, collected') \in resolveBindings'
    <3>1. f \in DOMAIN adapter
      BY <1>9, <1>13, <1>14, <2>2
    <3> QED BY <1>5, <3>1
  <2>3. \A b \in resolveBindings' : b = ResolveBinding(b.fact, collected')
    BY <1>5 DEF ResolveBinding
  <2>4. ASSUME NEW i \in DOMAIN collected'.units, NEW f \in made(i)
        PROVE  /\ f \in DOMAIN canonicalFacts'
               /\ canonicalFacts'[f] \in DOMAIN collected'.units
               /\ f \in made(canonicalFacts'[f]) /\ canonicalFacts'[f] <= i
    BY <1>4, <1>14, <1>15, <1>16
  <2> QED BY <1>10, <2>1, <2>2, <2>3, <2>4 DEF AdapterFactsExact, MadeOf
<1>18. ListedExact'
  <2>1. ASSUME NEW i \in collected'.products
        PROVE  /\ i \in DOMAIN collected'.units
               /\ collected'.units[i].manifest.use = "product_list"
               /\ \E f \in DOMAIN canonicalFacts' :
                    /\ f.kind = "report_scope_products" /\ f.source = "adapter_report_scope"
                    /\ f.artifact = collected'.units[i].manifest.of
                    /\ f.products = collected'.units[i].products
    <3>1. i \in DOMAIN readings /\ readings[i] = "listed" /\ "listed" \in Readings
      BY <1>4 DEF Readings
    <3>2. PICK f \in ReportFacts(unitOf(i), "listed") : f.kind = "report_scope_products"
      BY ReportParts
    <3>3. f \in DOMAIN canonicalFacts'
      BY <1>14, <3>1, <3>2 DEF reported
    <3>4. /\ f.source = "adapter_report_scope" /\ f.artifact = unitOf(i).manifest.of
          /\ f.products = unitOf(i).products
      BY <3>1, <3>2, ReportParts
    <3>5. i \in DOMAIN collected'.units /\ collected'.units[i].manifest.use = "product_list"
      BY <1>4, <1>7, <3>1 DEF ReportTargets
    <3>6. /\ collected'.units[i].manifest.of = unitOf(i).manifest.of
          /\ collected'.units[i].products = unitOf(i).products
      BY <1>4, <1>7, <3>1
    <3> QED BY <3>2, <3>3, <3>4, <3>5, <3>6
  <2>2. ASSUME NEW f \in DOMAIN canonicalFacts', f.kind = "report_scope_products"
        PROVE  \E i \in collected'.products :
                    /\ f.artifact = collected'.units[i].manifest.of
                    /\ f.products = collected'.units[i].products
    <3>1. f \in reported
      BY <1>12, <1>13, <1>14, <1>15, <2>2
    <3>2. PICK i \in DOMAIN readings : f \in ReportFacts(unitOf(i), readings[i])
      BY <3>1 DEF reported
    <3>3. /\ readings[i] = "listed" /\ f.artifact = unitOf(i).manifest.of
          /\ f.products = unitOf(i).products
      <4>1. readings[i] \in Readings
        BY <1>7, <3>2
      <4> HIDE DEF unitOf
      <4> QED BY <2>2, <3>2, <4>1, ReportParts
    <3> QED BY <1>4, <3>2, <3>3
  <2> QED BY <2>1, <2>2 DEF ListedExact
<1>19. KnownExact'
  <2>0. ASSUME NEW i \in DOMAIN finds, NEW f \in KnowledgeFacts(unitOf(i), finds[i])
        PROVE  /\ OfCompany(f) /\ f.products = unitOf(i).products
               /\ f \in DOMAIN canonicalFacts' /\ i \in collected'.documents
    <3>1. f \in documents \cup answers
      BY DEF documents, answers, KnowledgeFacts
    <3>2. OfCompany(f) /\ f.products = unitOf(i).products
      BY KnowledgeParts
    <3>3. finds[i].documents # {} \/ finds[i].answers # {}
      BY KnowledgeParts
    <3>4. f \in DOMAIN canonicalFacts'
      BY <1>14, <3>1
    <3>5. i \in collected'.documents
      BY <1>4, <3>3
    <3> QED BY <3>2, <3>4, <3>5
  <2>1. ASSUME NEW i \in collected'.documents
        PROVE  /\ i \in DOMAIN collected'.units
               /\ collected'.units[i].manifest = CompanyKnowledge
               /\ \E f \in DOMAIN canonicalFacts' :
                    OfCompany(f) /\ f.products = collected'.units[i].products
    <3>1. i \in DOMAIN finds /\ (finds[i].documents # {} \/ finds[i].answers # {})
      BY <1>4
    <3>3. PICK f : f \in KnowledgeFacts(unitOf(i), finds[i])
      BY <3>1, KnowledgeParts
    <3>2. i \in DOMAIN turnPlan.units /\ unitOf(i).manifest = CompanyKnowledge
      BY <1>7, <3>1 DEF Queried, KnowledgeTargets
    <3>4. i \in DOMAIN collected'.units /\ collected'.units[i].manifest = CompanyKnowledge
      BY <1>4, <3>2
    <3>5. collected'.units[i].products = unitOf(i).products
      BY <1>4, <3>2
    <3>6. f \in DOMAIN canonicalFacts' /\ OfCompany(f) /\ f.products = unitOf(i).products
      BY <2>0, <3>1, <3>3
    <3> QED BY <3>4, <3>5, <3>6
  <2>2. ASSUME NEW f \in DOMAIN canonicalFacts', f.kind = "document_context"
        PROVE  \E i \in collected'.documents : f.products = collected'.units[i].products
    <3>1. f \in documents \cup answers
      BY <1>9, <1>12, <1>14, <1>15, <2>2
    <3>2. PICK i \in DOMAIN finds : f \in KnowledgeFacts(unitOf(i), finds[i])
      BY <3>1 DEF documents, answers, KnowledgeFacts
    <3> QED BY <1>4, <2>0, <3>2
  <2>3. ASSUME NEW b \in mediaBindings'
        PROVE  b.fact \in DOMAIN canonicalFacts' /\ OfCompany(b.fact)
    <3>1. b.fact \in answers
      BY <1>5 DEF MediaBindings
    <3> QED BY <1>8, <1>14, <3>1 DEF answers
  <2> QED BY <2>1, <2>2, <2>3 DEF KnownExact, OfCompany
<1>20. \A o \in AskedOf(collected'.units) :
            AskedOf(collected'.units) = {o} => collected'.asked = o
  BY <1>4, OneOptionAsked
<1> QED BY <1>4, <1>17, <1>18, <1>19, <1>20 DEF Backed

\* A plan that takes over asks for nothing and is not composed.
LEMMA ResolutionAsksNothing ==
    ASSUME NEW evidence, NEW plan, plan = ResolutionPlan(evidence)
    PROVE  /\ plan.units \in Seq(Units) /\ Len(plan.units) = 1
           /\ ResponseMode(plan) \notin {"knowledge_answer", "smalltalk"}
           /\ SendUnits(plan) = {}
<1>1. PICK m \in Manifests : \E a \in {"clarify", "handoff", "abstain"} :
        plan = ProgramPlan("deterministic", m, a)
  <2>1. General("clarification") \in Manifests /\ General("abstention") \in Manifests
        /\ SalesHandoff \in Manifests
    BY DEF Manifests
  <2> QED BY <2>1 DEF ResolutionPlan
<1>2. PICK a \in {"clarify", "handoff", "abstain"} : plan = ProgramPlan("deterministic", m, a)
  BY <1>1
<1>3. plan.units = <<PlainUnit(m, a)>>
  BY <1>2 DEF ProgramPlan, Plan
<1>4. PlainUnit(m, a) \in Units
  BY DEF PlainUnit, Unit, Units, Answerabilities
<1>5. PlainUnit(m, a).answerability = a
  BY DEF PlainUnit, Unit
<1> HIDE DEF PlainUnit
<1>6. /\ plan.units \in Seq(Units) /\ Len(plan.units) = 1 /\ DOMAIN plan.units = {1}
      /\ plan.units[1].answerability = a
  BY <1>3, <1>4, <1>5
<1>7. \A u \in {"refuse", "send", "answer", "smalltalk", "no_reply"} :
        ~\E i \in DOMAIN plan.units : plan.units[i].answerability = u
  BY <1>6
<1>8. ResponseMode(plan) \notin {"knowledge_answer", "smalltalk"}
  BY <1>7 DEF ResponseMode
<1>9. SendUnits(plan) = {}
  BY <1>6 DEF SendUnits, IntentsOf
<1> QED BY <1>6, <1>8, <1>9

HasGroundings == step \in {"grounded", "rendered", "reviewed"}

\* A composed reply acts on nothing and leans on the evidence of one unit.
ComposedSound ==
    /\ candidateReply.reply.actions = {} /\ ~candidateReply.reply.mention
    /\ NeedsComposer(turnPlan, collected, turnPolicy) \/ candidateReply.reply = Unable
    /\ OneAuthority

GroundingIInv ==
    /\ step \in {"idle", "evidence", "unresolved", "escaped", "grounded", "rendered", "reviewed"}
    /\ step = "idle" => turnPolicy = NoTurnPolicy
    /\ step # "idle" =>
        /\ \E request \in Grants : turnPolicy = compile_policy(request)
        /\ turnPlan.units \in Seq(Units) /\ Len(turnPlan.units) <= 4
    /\ step \notin {"idle", "evidence", "escaped"} => Backed
    /\ HasGroundings =>
        /\ groundings = Ground(turnPlan, turnPolicy, canonicalFacts, resolveBindings)
        /\ turnPlan.units = collected.units \/ (~Composed /\ SendUnits(turnPlan) = {})
    /\ step \notin {"rendered", "reviewed"} => candidateReply = Candidate(NoReply, {}, {})
    /\ step \in {"rendered", "reviewed"} =>
        IF Composed THEN ComposedSound
        ELSE candidateReply
                = Candidate(RenderedReply(turnPlan, collected, turnPolicy), {}, {})

\* The ceiling of a direct conversation is the policy compiled for it.
LEMMA CeilingHolds ==
    ASSUME NEW request \in Grants, request.scene = "direct"
    PROVE  LET policy == compile_policy(request)
           IN policy = DirectCeiling(CompanyKnowledge \in policy.eligible)
<1> DEFINE eligible == Eligible(request)
           general == {General(u) : u \in {"clarification", "abstention", "refusal", "smalltalk",
                                           "no_reply", "handoff"}}
           knows == CompanyKnowledge \in eligible
<1>1. \A m \in general : m \in Manifests /\ m.of = "general" /\ m.use \notin {"send", "product_list",
                                                                            "answer"}
                         /\ m # SalesHandoff /\ m # CompanyKnowledge
  BY DEF Manifests, General, Manifest, SalesHandoff, CompanyKnowledge
<1>2. general \subseteq eligible
  BY <1>1 DEF Eligible, Artifacts, Reports
<1>3. ASSUME NEW m \in eligible PROVE m \in general \/ m = CompanyKnowledge
  <2>1. m \in Manifests /\ m.of \in {"general", "document_context"}
    BY DEF Eligible
  <2>2. \A n \in [of : Artifacts, use : {"send"}] \cup [of : Reports, use : {"product_list"}]
                 \cup {SalesHandoff} : n.of \notin {"general", "document_context"}
    BY DEF Artifacts, Reports, SalesHandoff, Manifest
  <2> QED BY <2>1, <2>2 DEF Manifests
<1>4. eligible = general \cup (IF knows THEN {CompanyKnowledge} ELSE {})
  BY <1>2, <1>3
<1>5. CompanyKnowledge.use = "answer"
  BY DEF CompanyKnowledge, Manifest
<1>6. AllowedModes(eligible) =
        {"clarification", "handoff", "no_reply", "refusal", "smalltalk", "unable"}
        \cup (IF knows THEN {"knowledge_answer"} ELSE {})
  <2> HIDE DEF eligible, general
  <2>1. \A m \in eligible : m.use # "send" /\ m.use # "product_list"
    BY <1>1, <1>3, <1>5
  <2>2. (\E m \in eligible : m.use \in {"product_list", "answer"}) <=> CompanyKnowledge \in eligible
    BY <1>1, <1>3, <1>5
  <2> QED BY <2>1, <2>2 DEF AllowedModes
<1>7. request.options = {}
  BY GroundingAssumption
<1>8. AllowedResolves(request) = {}
  BY DEF AllowedResolves
<1> HIDE DEF eligible
<1>9. compile_policy(request) =
        [scene |-> "direct", eligible |-> eligible, modes |-> AllowedModes(eligible),
         actions |-> {}, mentions |-> FALSE, resolves |-> {}, options |-> {}]
  BY <1>7, <1>8 DEF compile_policy, eligible
<1>10. DirectCeiling(knows) =
        [scene |-> "direct", eligible |-> eligible, actions |-> {}, mentions |-> FALSE,
         resolves |-> {}, options |-> {}, modes |-> AllowedModes(eligible)]
  BY <1>4, <1>6 DEF DirectCeiling
<1> QED BY <1>9, <1>10

\* The option that is sent is the one that was resolved.
LEMMA SentAsResolved ==
    ASSUME GroundedNow, turnPlan.units = collected.units \/ SendUnits(turnPlan) = {},
           candidateReply.reply = RenderedReply(turnPlan, collected, turnPolicy)
    PROVE  OptionResolved
<1> DEFINE asked == AskedOf(collected.units)
           reply == candidateReply.reply
<1> SUFFICES ASSUME Cardinality(asked) <= 1, NEW a \in reply.actions,
                    a.type = "material_pack", a.option # NoOption
             PROVE  a.ref = a.option
  BY DEF OptionResolved, AskedOf
<1>1. PICK i \in SendUnits(turnPlan) : /\ Sendable(collected, turnPlan.units[i], turnPolicy)
                                       /\ a = ActionOf(i, turnPlan, collected, turnPolicy)
  <2>1. \A kind, mention : Reply(kind, {}, mention).actions = {}
    BY DEF Reply
  <2>2. Unable.actions = {}
    BY DEF Unable, Reply
  <2>3. HandoffReply(turnPlan, collected, turnPolicy).actions = {}
    BY <2>1, <2>2 DEF HandoffReply
  <2>4. reply = ActionReply(turnPlan, collected, turnPolicy)
    <3> DEFINE mode == ResponseMode(turnPlan)
    <3> HIDE DEF mode
    <3>1. reply =
            CASE mode = "clarification" -> Reply("clarification", {}, FALSE)
              [] mode = "handoff" -> HandoffReply(turnPlan, collected, turnPolicy)
              [] mode = "no_reply" -> Reply("no_reply", {}, FALSE)
              [] mode = "action" -> ActionReply(turnPlan, collected, turnPolicy)
              [] OTHER -> Unable
      BY DEF RenderedReply, mode
    <3>2. mode # "clarification" /\ mode # "handoff" /\ mode # "no_reply"
      BY <2>1, <2>3, <3>1
    <3>3. mode = "action"
      BY <2>2, <3>1, <3>2
    <3> QED BY <3>1, <3>3
  <2> DEFINE acting == {i \in SendUnits(turnPlan) :
                        Permitted(turnPlan.units[i], turnPolicy)
                        /\ Sendable(collected, turnPlan.units[i], turnPolicy)}
  <2>5. reply = IF acting = {} THEN Unable
                ELSE Reply("answer", {ActionOf(i, turnPlan, collected, turnPolicy) : i \in acting},
                           FALSE)
    BY <2>4 DEF ActionReply
  <2>6. reply.actions = {ActionOf(i, turnPlan, collected, turnPolicy) : i \in acting}
    <3> HIDE DEF acting
    <3>1. acting # {}
      BY <2>2, <2>5
    <3> QED BY <2>5, <3>1 DEF Reply
  <2> QED BY <2>6
<1>2. turnPlan.units = collected.units
  BY <1>1
<1>3. a.option \in asked /\ a.ref = collected.asked
  BY <1>1, <1>2, ActionsNameAsked
<1>4. asked = {a.option}
  <2>1. IsFiniteSet(asked)
    <3> DEFINE packs == {j \in DOMAIN collected.units :
                            collected.units[j].manifest.of = "material_pack"}
    <3>1. IsFiniteSet(packs)
      <4>1. IsFiniteSet(1..4)
        <5>1. 1 \in Int /\ 4 \in Int
          OBVIOUS
        <5> QED BY <5>1, FS_Interval
      <4>2. packs \subseteq 1..4
        BY DEF GroundedNow, Backed
      <4> QED BY <4>1, <4>2, FS_Subset
    <3>2. IsFiniteSet({collected.units[j].option : j \in packs})
      <4> DEFINE choice == [j \in packs |-> collected.units[j].option]
                 options == {collected.units[j].option : j \in packs}
      <4> HIDE DEF packs
      <4>1. choice \in Surjection(packs, options)
        BY DEF Surjection
      <4> QED BY <3>1, <4>1, FS_Surjection
    <3>3. asked \subseteq {collected.units[j].option : j \in packs}
      BY DEF AskedOf
    <3> QED BY <3>2, <3>3, FS_Subset
  <2>2. \E x : x \in asked
    BY <1>3
  <2> HIDE DEF asked
  <2>3. Cardinality(asked) \in Nat /\ Cardinality(asked) # 0
    BY <2>1, <2>2, FS_CardinalityType, FS_EmptySet
  <2>4. Cardinality(asked) = 1
    BY <2>3
  <2>5. \E x : asked = {x}
    BY <2>1, <2>4, FS_Singleton
  <2> QED BY <1>3, <2>5
<1>5. collected.asked = a.option
  BY <1>3, <1>4 DEF GroundedNow, Backed
<1> QED BY <1>3, <1>5

\* The invariant says what the run checks.
LEMMA GroundingSoundness == GroundingIInv => GroundingSound
<1> SUFFICES ASSUME GroundingIInv PROVE GroundingSound
  OBVIOUS
<1>1. HasGroundings => GroundedNow
  BY DEF GroundingIInv, GroundedNow, HasGroundings
<1>2. step \notin {"rendered", "reviewed"} \/ ~Composed =>
        candidateReply.cited = {} /\ candidateReply.shown = {}
  BY DEF GroundingIInv, Candidate
<1>3. OneAuthority
  <2>1. CASE step \notin {"rendered", "reviewed"} \/ ~Composed
    BY <1>2, <2>1 DEF OneAuthority
  <2>2. CASE step \in {"rendered", "reviewed"} /\ Composed
    BY <2>2 DEF GroundingIInv, ComposedSound
  <2> QED BY <2>1, <2>2
<1>4. AgreesWithAuthority
  <2> SUFFICES ASSUME HasGroundings PROVE AgreesWithAuthority
    BY DEF AgreesWithAuthority, HasGroundings
  <2>1. \A i \in DOMAIN turnPlan.units :
            (groundings[i].facts # {}) = Grounded(collected, turnPlan.units[i], turnPolicy)
    <3> SUFFICES ASSUME NEW i \in DOMAIN turnPlan.units
                 PROVE  (groundings[i].facts # {})
                            = Grounded(collected, turnPlan.units[i], turnPolicy)
      OBVIOUS
    <3>1. groundings[i].facts # {} <=> Grounded(collected, turnPlan.units[i], turnPolicy)
      BY <1>1, GroundingsAre
    <3>2. Grounded(collected, turnPlan.units[i], turnPolicy) \in BOOLEAN
      BY DEF Grounded
    <3> QED BY <3>1, <3>2
  <2>2. step # "grounded" => IF Composed THEN ComposedSound
                             ELSE candidateReply.reply
                                    = RenderedReply(turnPlan, collected, turnPolicy)
    BY DEF GroundingIInv, HasGroundings, Candidate
  <2> QED BY <2>1, <2>2 DEF AgreesWithAuthority, ComposedSound
<1>5. WithinCeiling
  <2> SUFFICES ASSUME turnPolicy.scene = "direct" PROVE WithinCeiling
    BY DEF WithinCeiling
  <2>1. step # "idle"
    BY DEF GroundingIInv, NoTurnPolicy
  <2>2. PICK request \in Grants : turnPolicy = compile_policy(request)
    BY <2>1 DEF GroundingIInv
  <2>3. request.scene = "direct"
    BY <2>2 DEF compile_policy
  <2> QED BY <2>2, <2>3, CeilingHolds DEF WithinCeiling
<1>6. GroundingsBelong
  BY DEF GroundingIInv, GroundingsBelong
<1>7. OptionResolved
  <2>1. CASE step \notin {"rendered", "reviewed"}
    <3>1. candidateReply.reply.actions = {}
      BY <2>1 DEF GroundingIInv, Candidate, NoReply, Reply
    <3> QED BY <3>1 DEF OptionResolved
  <2>2. CASE step \in {"rendered", "reviewed"} /\ Composed
    BY <2>2 DEF GroundingIInv, ComposedSound, OptionResolved
  <2>3. CASE step \in {"rendered", "reviewed"} /\ ~Composed
    <3>1. candidateReply.reply = RenderedReply(turnPlan, collected, turnPolicy)
      BY <2>3 DEF GroundingIInv, Candidate
    <3>2. GroundedNow /\ (turnPlan.units = collected.units \/ SendUnits(turnPlan) = {})
      BY <1>1, <2>3 DEF GroundingIInv, HasGroundings
    <3> QED BY <3>1, <3>2, SentAsResolved
  <2> QED BY <2>1, <2>2, <2>3
<1> QED BY <1>3, <1>4, <1>5, <1>6, <1>7 DEF GroundingSound

\* What a composition makes is sound.
LEMMA ComposeSound ==
    ASSUME GroundingIInv, NEW output, ComposeGrounded(output) PROVE GroundingIInv'
<1>1. GroundedNow /\ Composed /\ turnPlan.units = collected.units /\ HasGroundings
  BY DEF GroundingIInv, GroundedNow, HasGroundings, ComposeGrounded
<1>2. GroundingsBound
  BY <1>1, GroundingsAre DEF GroundingsBound, BoundTo
<1>3. step' = "rendered"
  BY <1>2 DEF ComposeGrounded
<1>4. NeedsComposer(turnPlan, collected, turnPolicy)
  <2>1. ~ListMissing /\ ComposerAvailable
    BY DEF ComposeGrounded
  <2>2. \A i \in DOMAIN turnPlan.units :
            turnPlan.units[i].manifest.use = "product_list" =>
                Grounded(collected, turnPlan.units[i], turnPolicy)
    BY <1>1, <2>1, GroundingsAre DEF ListMissing
  <2>3. ResponseMode(turnPlan) # "smalltalk" =>
            \E i \in DOMAIN turnPlan.units : Grounded(collected, turnPlan.units[i], turnPolicy)
    BY <1>1, <2>1, GroundingsAre DEF ComposerAvailable
  <2> QED BY <1>1, <2>2, <2>3 DEF NeedsComposer, Composed
<1>5. UNCHANGED <<turnPolicy, turnPlan, collected, canonicalFacts, resolveBindings,
                  mediaBindings, groundings>>
  BY DEF ComposeGrounded
<1>6. ComposedSound'
  <2>1. CASE Accepted(output)
    <3>1. candidateReply' = Candidate(Reply(output.kind, {}, FALSE), output.cited, output.shown)
      BY <2>1 DEF ComposeGrounded
    <3>2. /\ candidateReply'.reply.actions = {} /\ ~candidateReply'.reply.mention
          /\ candidateReply'.cited = output.cited /\ candidateReply'.shown = output.shown
      BY <3>1 DEF Candidate, Reply
    <3>3. OneAuthority'
      BY <1>1, <1>5, <2>1, <3>2, AcceptedIsOneAuthority DEF OneAuthority
    <3> QED BY <1>4, <1>5, <3>2, <3>3 DEF ComposedSound
  <2>2. CASE ~Accepted(output)
    <3>1. candidateReply' = Candidate(Unable, {}, {})
      BY <2>2 DEF ComposeGrounded
    <3>2. /\ candidateReply'.reply = Unable
          /\ candidateReply'.reply.actions = {} /\ ~candidateReply'.reply.mention
          /\ candidateReply'.cited = {} /\ candidateReply'.shown = {}
      BY <3>1 DEF Candidate, Unable, Reply
    <3>3. OneAuthority'
      BY <3>2 DEF OneAuthority
    <3> QED BY <3>2, <3>3 DEF ComposedSound
  <2> QED BY <2>1, <2>2
<1>7. Backed' /\ Composed'
  <2>1. Backed'
    BY <1>1, <1>5 DEF GroundedNow, Backed, AdapterFactsExact, ListedExact, KnownExact, MadeOf
  <2>2. Composed'
    BY <1>1, <1>5 DEF Composed
  <2> QED BY <2>1, <2>2
<1> QED BY <1>1, <1>3, <1>5, <1>6, <1>7 DEF GroundingIInv, HasGroundings, GroundedNow

LEMMA GroundingIInvInit == GroundingInit => GroundingIInv
BY DEF GroundingInit, GroundingIInv, HasGroundings

LEMMA GroundingIInvStep == GroundingIInv /\ [GroundingNext]_groundingVars => GroundingIInv'
<1> SUFFICES ASSUME GroundingIInv, [GroundingNext]_groundingVars PROVE GroundingIInv'
  OBVIOUS
<1>1. ASSUME NEW request \in Grants, NEW units \in UnitLists, BeginGrounding(request, units)
      PROVE  GroundingIInv'
  <2>1. /\ turnPolicy' = compile_policy(request) /\ step' = "evidence"
        /\ turnPlan'.units = units /\ units \in Seq(Units) /\ Len(units) <= 4
    BY <1>1, GroundingAssumption DEF BeginGrounding, Plan, Compiles
  <2>2. candidateReply' = Candidate(NoReply, {}, {})
    BY <1>1 DEF BeginGrounding, GroundingIInv
  <2> QED BY <2>1, <2>2 DEF GroundingIInv, HasGroundings
<1>2. CASE Collect
  <2>1. step = "evidence" /\ turnPlan.units \in Seq(Units) /\ Len(turnPlan.units) <= 4
    BY <1>2 DEF Collect, GroundingIInv
  <2>2. Backed'
    BY <1>2, <2>1, CollectBacks
  <2>3. /\ UNCHANGED <<turnPolicy, turnPlan, candidateReply>>
        /\ groundings' = Ground(turnPlan, turnPolicy, canonicalFacts', resolveBindings')
        /\ step' \in {"escaped", "unresolved", "grounded"}
    BY <1>2 DEF Collect
  <2>4. collected'.units = turnPlan.units
    BY <1>2 DEF Collect, Evidence
  <2>5. groundings' = Ground(turnPlan', turnPolicy', canonicalFacts', resolveBindings')
    BY <2>3
  <2>6. candidateReply' = Candidate(NoReply, {}, {})
    BY <2>1, <2>3 DEF GroundingIInv
  <2>7. \E request \in Grants : turnPolicy' = compile_policy(request)
    BY <2>1, <2>3 DEF GroundingIInv
  <2>8. /\ turnPlan'.units = collected'.units
        /\ turnPlan'.units \in Seq(Units) /\ Len(turnPlan'.units) <= 4
    BY <2>1, <2>3, <2>4
  <2>9. /\ step' \in {"idle", "evidence", "unresolved", "escaped", "grounded", "rendered",
                       "reviewed"}
        /\ step' # "idle" /\ step' \notin {"rendered", "reviewed"}
    BY <2>3
  <2> QED BY <2>2, <2>5, <2>6, <2>7, <2>8, <2>9 DEF GroundingIInv, HasGroundings
<1>3. CASE TakeOver
  <2>1. /\ turnPlan'.units \in Seq(Units) /\ Len(turnPlan'.units) = 1
        /\ ~Composed' /\ SendUnits(turnPlan') = {}
    BY <1>3, ResolutionAsksNothing DEF TakeOver, Composed
  <2>2. /\ step' = "grounded"
        /\ UNCHANGED <<turnPolicy, collected, canonicalFacts, resolveBindings, mediaBindings,
                       candidateReply>>
        /\ groundings' = Ground(turnPlan', turnPolicy, canonicalFacts, resolveBindings)
        /\ step = "unresolved"
    BY <1>3 DEF TakeOver
  <2>3. Backed'
    <3>1. Backed
      BY <2>2 DEF GroundingIInv
    <3> QED BY <2>2, <3>1 DEF Backed, AdapterFactsExact, ListedExact, KnownExact, MadeOf
  <2>4. groundings' = Ground(turnPlan', turnPolicy', canonicalFacts', resolveBindings')
    BY <2>2
  <2>5. candidateReply' = Candidate(NoReply, {}, {})
    BY <2>2 DEF GroundingIInv
  <2>6. \E request \in Grants : turnPolicy' = compile_policy(request)
    BY <2>2 DEF GroundingIInv
  <2> QED BY <2>1, <2>2, <2>3, <2>4, <2>5, <2>6 DEF GroundingIInv, HasGroundings
<1>4. CASE RenderGrounded
  <2>1. /\ step = "grounded" /\ step' = "rendered" /\ ~Composed
        /\ candidateReply' = Candidate(GroundedReply, {}, {})
        /\ UNCHANGED <<turnPolicy, turnPlan, collected, canonicalFacts, resolveBindings,
                       mediaBindings, groundings>>
    BY <1>4 DEF RenderGrounded
  <2>2. GroundedNow
    BY <2>1 DEF GroundingIInv, GroundedNow, HasGroundings
  <2>3. candidateReply' = Candidate(RenderedReply(turnPlan, collected, turnPolicy), {}, {})
    BY <2>1, <2>2, RepliesAgree
  <2>4. Backed'
    BY <2>1, <2>2 DEF GroundedNow, Backed, AdapterFactsExact, ListedExact, KnownExact, MadeOf
  <2>5. ~Composed'
    BY <2>1 DEF Composed
  <2> QED BY <2>1, <2>3, <2>4, <2>5 DEF GroundingIInv, HasGroundings
<1>5. CASE NothingToCompose
  <2>1. /\ step = "grounded" /\ step' = "rendered" /\ Composed
        /\ candidateReply' = Candidate(Unable, {}, {})
        /\ UNCHANGED <<turnPolicy, turnPlan, collected, canonicalFacts, resolveBindings,
                       mediaBindings, groundings>>
    BY <1>5 DEF NothingToCompose
  <2>2. GroundedNow
    BY <2>1 DEF GroundingIInv, GroundedNow, HasGroundings
  <2>3. /\ candidateReply'.reply = Unable
        /\ candidateReply'.reply.actions = {} /\ ~candidateReply'.reply.mention
        /\ candidateReply'.cited = {} /\ candidateReply'.shown = {}
    BY <2>1 DEF Candidate, Unable, Reply
  <2>4. ComposedSound'
    BY <2>3 DEF ComposedSound, OneAuthority
  <2>5. Backed'
    BY <2>1, <2>2 DEF GroundedNow, Backed, AdapterFactsExact, ListedExact, KnownExact, MadeOf
  <2>6. Composed'
    BY <2>1 DEF Composed
  <2> QED BY <2>1, <2>4, <2>5, <2>6 DEF GroundingIInv, HasGroundings
<1>6. CASE Review
  <2>1. step = "rendered" /\ UNCHANGED <<turnPolicy, turnPlan, collected, canonicalFacts,
                                          resolveBindings, mediaBindings, groundings,
                                          candidateReply>>
    BY <1>6 DEF Review
  <2>2. GroundedNow
    BY <2>1 DEF GroundingIInv, GroundedNow, HasGroundings
  <2>3. GroundingsBound
    BY <2>2, GroundingsAre DEF GroundingsBound, BoundTo
  <2>4. turnPolicy.scene = "direct" => ~candidateReply.reply.mention
    <3>1. CASE Composed
      BY <2>1, <3>1 DEF GroundingIInv, ComposedSound
    <3>2. CASE ~Composed
      <4>1. candidateReply.reply = RenderedReply(turnPlan, collected, turnPolicy)
        BY <2>1, <3>2 DEF GroundingIInv, Candidate
      <4>2. /\ turnPolicy.scene = "direct" => ~HandoffReply(turnPlan, collected, turnPolicy).mention
            /\ ~ActionReply(turnPlan, collected, turnPolicy).mention
            /\ ~Unable.mention
            /\ \A kind : ~Reply(kind, {}, FALSE).mention
        <5>1. \A kind, actions : ~Reply(kind, actions, FALSE).mention
          BY DEF Reply
        <5>2. ~Unable.mention
          BY <5>1 DEF Unable
        <5>3. ~ActionReply(turnPlan, collected, turnPolicy).mention
          BY <5>1, <5>2 DEF ActionReply
        <5> QED BY <5>1, <5>2, <5>3 DEF HandoffReply
      <4> QED BY <4>1, <4>2 DEF RenderedReply
    <3> QED BY <3>1, <3>2
  <2>5. step' = "reviewed"
    BY <1>6, <2>3, <2>4 DEF Review, VerifierInputValid
  <2>6. Backed'
    BY <2>1, <2>2 DEF GroundedNow, Backed, AdapterFactsExact, ListedExact, KnownExact, MadeOf
  <2>7. Composed' = Composed /\ (ComposedSound => ComposedSound')
    BY <2>1 DEF Composed, ComposedSound, OneAuthority
  <2> QED BY <2>1, <2>5, <2>6, <2>7 DEF GroundingIInv, HasGroundings
<1>7. CASE RecomposeGrounded
  <2>1. /\ step = "reviewed" /\ step' = "grounded" /\ Composed
        /\ candidateReply' = Candidate(NoReply, {}, {})
        /\ UNCHANGED <<turnPolicy, turnPlan, collected, canonicalFacts, resolveBindings,
                       mediaBindings, groundings>>
    BY <1>7 DEF RecomposeGrounded
  <2>2. Backed'
    <3>1. Backed
      BY <2>1 DEF GroundingIInv
    <3> QED BY <2>1, <3>1 DEF Backed, AdapterFactsExact, ListedExact, KnownExact, MadeOf
  <2>3. Composed'
    BY <2>1 DEF Composed
  <2> QED BY <2>1, <2>2, <2>3 DEF GroundingIInv, HasGroundings
<1>8. CASE UNCHANGED groundingVars
  <2>1. /\ UNCHANGED <<step, turnPolicy, turnPlan, collected, canonicalFacts>>
        /\ UNCHANGED <<resolveBindings, mediaBindings, groundings, candidateReply>>
    BY <1>8 DEF groundingVars
  <2>2. Backed => Backed'
    BY <2>1 DEF Backed, AdapterFactsExact, ListedExact, KnownExact, MadeOf
  <2>3. Composed' = Composed /\ (ComposedSound => ComposedSound')
    BY <2>1 DEF Composed, ComposedSound, OneAuthority
  <2> QED BY <2>1, <2>2, <2>3 DEF GroundingIInv, HasGroundings
<1>9. CASE ResolveRefused
  <2>1. /\ step = "evidence" /\ step' = "escaped"
        /\ UNCHANGED <<turnPolicy, turnPlan, candidateReply>>
    BY <1>9 DEF ResolveRefused
  <2> QED BY <2>1 DEF GroundingIInv, HasGroundings
<1> QED
  BY <1>1, <1>2, <1>3, <1>4, <1>5, <1>6, <1>7, <1>8, <1>9, ComposeSound DEF GroundingNext

\* What a plan's units are answered from was found for them; a reply leans on the evidence of
\* one unit and agrees with what PlanAuthority says of the evidence as a whole.
THEOREM GroundingTheorem == GroundingSpec => []GroundingSound
<1>1. GroundingIInv /\ [GroundingNext]_groundingVars => GroundingIInv'
  BY GroundingIInvStep
<1> QED BY GroundingIInvInit, <1>1, GroundingSoundness, PTL DEF GroundingSpec
=============================================================================
