---------------------------- MODULE MCCoordinator ----------------------------
(* TLC instances of Coordinator: small sets, and the properties' runs. *)
EXTENDS Coordinator, TLC

\* Replies for the runs about reservations, sessions and feedback.
SendingTurn == [effects : {Effects}, clarifies : {FALSE}, positional : {TRUE}]
AnyReply == [effects : {{"send_text"}}, clarifies : BOOLEAN, positional : {FALSE}]

AllSubmissions ==
    [key : Keys, request_id : Requests, request_hash : RequestHashes,
     replay_eligible : {TRUE}]

KeySymmetry == Permutations(Keys) \cup Permutations(Requests)

FeedbackSymmetry == Permutations(Requests) \cup Permutations(FeedbackIds)

NoBodies == {}

\* Replies with a send action under the coordinator's own ids, and the reports
\* on that action alone.
SendingReply == [effects : {Effects}, clarifies : {FALSE}, positional : {FALSE}]
SendReports == UNION {[{e} -> Outcomes] : e \in SendActions}
=============================================================================
