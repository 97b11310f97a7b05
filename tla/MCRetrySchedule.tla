---------------------------- MODULE MCRetrySchedule ----------------------------
(***************************************************************************)
(* An instance of RetrySchedule for TLC: one reply for each branch of the  *)
(* classification, and both sides of its boundaries.                       *)
(***************************************************************************)
EXTENDS RetrySchedule

SomeReplies ==
    {<<"network">>, <<"lost">>, <<"thrown">>} \cup
    {<<"status", code>> : code \in {200, 299, 304, 400, 403, 404, 429, 499, 500, 503}}
=============================================================================
