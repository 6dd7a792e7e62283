--------------------------------- MODULE Recall ---------------------------------
(***************************************************************************)
(* The questions recalled for a request before it is planned               *)
(* (recall/flow.py): approved static ones and those of the documents, each *)
(* ranked by BM25, merged into one short list that the planner is shown as *)
(* advice. A shortcut past the planner needs a payload that no collector   *)
(* makes, so it is left out.                                               *)
(*                                                                         *)
(* A row is what the ranker says of an entry: its score and what is        *)
(* computed from the entry's texts, in percent where it is a ratio. A      *)
(* candidate has its size in place of its question, and is kept under the  *)
(* place it was ranked at.                                                 *)
(***************************************************************************)
EXTENDS Integers, Sequences, SequencesExt

CONSTANTS
    StaticRows,    \* rows the ranker may give of the approved entries
    DocumentRows,  \* and of the questions in documents
    TopK,          \* rows asked of the ranker
    MaxShown,      \* candidates of an outcome
    MaxBytes       \* size of its candidates

ASSUME RowsAssumption ==
    /\ \A row \in StaticRows : {row.score, row.coverage} \subseteq 0..100
    /\ \A row \in DocumentRows : row.score \in 0..100
    /\ \A row \in StaticRows \cup DocumentRows : row.id \in Nat /\ row.bytes \in Nat
    /\ TopK \in Nat /\ MaxShown \in Nat \ {0}

VARIABLE recall

recallVars == <<recall>>

NoBranch == [failed |-> FALSE, candidates |-> <<>>]
NoPolicy == [mode |-> "off", knowledge |-> FALSE, documents |-> FALSE]

RecallInit ==
    recall = [at |-> "idle", policy |-> NoPolicy, risky |-> FALSE, static |-> NoBranch,
              document |-> NoBranch, shown |-> <<>>, decision |-> "none"]

\* What the policy and the settings allow: recall at all, approved entries, documents.
Policies == [mode : {"off", "advisory", "shortcut"}, knowledge : BOOLEAN, documents : BOOLEAN]

\* collect_preplanner_recall, of a message that has a risky phrase or not
Ask(policy, risky) ==
    /\ recall.at = "idle"
    /\ recall' = IF policy.mode = "off"
                 THEN [recall EXCEPT !.at = "done", !.decision = "disabled"]
                 ELSE [recall EXCEPT !.at = "static", !.policy = policy, !.risky = risky]

-----------------------------------------------------------------------------
(* Approved entries (question_recall_analyzer.py). *)

\* What rank_bm25 may return: at most TopK rows, the best first.
Ranked(rows) ==
    {ranked \in BoundedSeq(rows, TopK) :
        \A i, j \in DOMAIN ranked : i < j => ranked[i].score >= ranked[j].score}

Least(a, b) == IF a < b THEN a ELSE b

confidence(row) ==
    Least(100, (55 * row.score + 25 * row.coverage) \div 100 + (IF row.matched THEN 25 ELSE 0))

\* _candidates
StaticCandidates(ranked) ==
    {k \in DOMAIN ranked : ranked[k].score > 0 /\ confidence(ranked[k]) >= 55}

FirstOf(places) == CHOOSE k \in places : \A j \in places : k <= j

\* (mutant) An entry is decided on by its rank alone.
decided_by_rank(row) == IF confidence(row) >= 72 THEN "recall_hit" ELSE "recall_hint"

\* _decision, on the first candidate only
Decision(row) ==
    IF ~row.matched \/ ~row.answers \/ row.coverage < 80 THEN "fail_open"
    ELSE IF confidence(row) >= 72 THEN "recall_hit" ELSE "recall_hint"

\* approved_static_branch, of what search_question_recall decides
StaticBranch(ranked) ==
    LET places == StaticCandidates(ranked)
        decision == IF places = {} THEN "fail_open" ELSE Decision(ranked[FirstOf(places)])
        Reason(row) == IF decision = "recall_hit" /\ row.answers
                       THEN "approved_recall_hit" ELSE "approved_recall_hint"
    IN IF decision = "fail_open" THEN NoBranch
       ELSE [NoBranch EXCEPT !.candidates = [k \in places |->
                [source |-> "approved_static", id |-> ranked[k].id, bytes |-> ranked[k].bytes,
                 confidence |-> confidence(ranked[k]), reason |-> Reason(ranked[k]),
                 row |-> ranked[k]]]]

\* QuestionRecallService.collect: without the policy's leave, or of a risky message,
\* nothing is recalled.
CollectStatic(ranked) ==
    /\ recall.at = "static"
    /\ recall' = [recall EXCEPT !.at = "document",
          !.static = IF ~recall.policy.knowledge \/ recall.risky
                     THEN NoBranch ELSE StaticBranch(ranked)]

-----------------------------------------------------------------------------
(* Documents (document_qa_recall.py). *)

\* document_recall_branch, of what search_qa_entries finds
DocumentBranch(ranked) ==
    [NoBranch EXCEPT !.candidates = [k \in {j \in DOMAIN ranked : ranked[j].score > 0} |->
        [source |-> "document_mcp", id |-> ranked[k].id, bytes |-> ranked[k].bytes,
         confidence |-> ranked[k].score, reason |-> "document_qa_candidate",
         row |-> ranked[k]]]]

\* DocumentQaSearchService.collect
CollectDocument(ranked) ==
    /\ recall.at = "document"
    /\ recall' = [recall EXCEPT !.at = "merge",
          !.document = IF recall.policy.documents THEN DocumentBranch(ranked) ELSE NoBranch]

\* The server, what it answers or the ranker fails.
DocumentsFail ==
    /\ recall.at = "document" /\ recall.policy.documents
    /\ recall' = [recall EXCEPT !.at = "merge", !.document = [NoBranch EXCEPT !.failed = TRUE]]

-----------------------------------------------------------------------------
(* The outcome. *)

SameKey(c, d) == c.source = d.source /\ c.id = d.id

Ahead(c, d) ==
    \/ c.confidence > d.confidence
    \/ c.confidence = d.confidence /\ c.source = "approved_static" /\ d.source = "document_mcp"
    \/ c.confidence = d.confidence /\ c.source = d.source /\ c.id < d.id

\* (mutant) The last candidate with a key replaces the others.
last_of_key(candidates) ==
    {candidates[i] : i \in {k \in DOMAIN candidates :
        \A j \in DOMAIN candidates : SameKey(candidates[j], candidates[k]) => j <= k}}

\* The best candidate of every key, the first of several.
BestOfKeys(candidates) ==
    {candidates[i] : i \in {k \in DOMAIN candidates :
        \A j \in DOMAIN candidates : SameKey(candidates[j], candidates[k]) =>
            \/ candidates[j].confidence < candidates[k].confidence
            \/ candidates[j].confidence = candidates[k].confidence /\ j >= k}}

\* How many of some candidates are ahead of one.
Preceding(c, best) == Cardinality({d \in best : Ahead(d, c)})

\* merge_recall_candidates: keys of the two sources differ.
Merged(static, document) ==
    LET best == BestOfKeys(static) \cup BestOfKeys(document)
    IN [k \in 1..Least(MaxShown, Cardinality(best)) |->
            CHOOSE c \in best : Preceding(c, best) = k - 1]

Bytes(candidates) == FoldSeq(LAMBDA c, sum : c.bytes + sum, 0, candidates)

\* make_recall_outcome: one whose candidates are too long breaks its contract, and nothing
\* on the way catches that.
Outcome ==
    LET candidates == Merged(recall.static.candidates, recall.document.candidates) IN
    /\ recall.at = "merge"
    /\ recall' = IF Bytes(candidates) > MaxBytes
                 THEN [recall EXCEPT !.at = "escaped"]
                 ELSE [recall EXCEPT !.at = "done", !.shown = candidates,
                          !.decision = IF candidates # <<>> THEN "advisory_candidates"
                                       ELSE IF recall.document.failed THEN "unavailable"
                                       ELSE "no_match"]

RecallNext ==
    \/ \E policy \in Policies, risky \in BOOLEAN : Ask(policy, risky)
    \/ \E ranked \in Ranked(StaticRows) : CollectStatic(ranked)
    \/ \E ranked \in Ranked(DocumentRows) : CollectDocument(ranked)
    \/ DocumentsFail
    \/ Outcome

RecallSpec == RecallInit /\ [][RecallNext]_recallVars

-----------------------------------------------------------------------------
(* Properties. *)

ShownOnes == {recall.shown[k] : k \in DOMAIN recall.shown}
Found == Range(recall.static.candidates) \cup Range(recall.document.candidates)

\* Of all candidates found the best are shown, the best first, none twice: each that is
\* not is no better than the last of a full list or than another with its key.
BestShown ==
    recall.at = "done" =>
        /\ ShownOnes \subseteq Found
        /\ \A i, j \in DOMAIN recall.shown : i < j =>
              /\ recall.shown[i].confidence >= recall.shown[j].confidence
              /\ ~SameKey(recall.shown[i], recall.shown[j])
        /\ \A c \in Found \ ShownOnes :
              \/ \E d \in ShownOnes : SameKey(c, d) /\ d.confidence >= c.confidence
              \/ /\ Len(recall.shown) = MaxShown
                 /\ \A d \in ShownOnes : d.confidence >= c.confidence

\* A failing source costs the other none of its candidates, and is only said to fail if
\* there is nothing else to say.
FailureKept ==
    recall.at = "done" =>
        /\ recall.decision = "unavailable" <=> recall.document.failed /\ Found = {}
        /\ recall.document.failed /\ Found # {} => ShownOnes # {}

\* A candidate is called a hit only of a message without risky phrases under a policy that
\* allows it, and if the one ranked first is one: it covers the message, its surface is
\* part of it, it has an answer, and all that makes it likely enough.
HitsEarned ==
    \A c \in ShownOnes : c.reason = "approved_recall_hit" =>
        /\ recall.policy.knowledge /\ ~recall.risky
        /\ LET found == recall.static.candidates
               top == found[FirstOf(DOMAIN found)] IN
              /\ top.confidence >= 72
              /\ top.row.matched /\ top.row.answers /\ top.row.coverage >= 80

\* What the planner is shown is what was recalled, the best of it and for what it is
\* (merge_recall_candidates, _decision, approved_static_branch).
RecallHonest == BestShown /\ FailureKept /\ HitsEarned
=============================================================================
