----------------------------- MODULE MCReplyTurn -----------------------------
(* TLC instances of ReplyTurn. *)
EXTENDS ReplyTurn

AllSubmissions ==
    [key : Keys, request_id : Requests, request_hash : RequestHashes,
     replay_eligible : {TRUE}]

\* Replies with send actions under the coordinator's own ids, that ask back or
\* do not, and the reports on them.
AskingReply == [effects : {Effects}, clarifies : BOOLEAN, positional : {FALSE}]
SendReports == UNION {[{e} -> Outcomes] : e \in SendActions}
=============================================================================
