-------------------------- MODULE SubmissionReceipt --------------------------
(***************************************************************************)
(* What a form promises its respondent: who is told that the submission    *)
(* succeeded has reached the form's admin.                                 *)
(*                                                                         *)
(* The promise is one-sided.  A failure says nothing of what the admin     *)
(* got: the response may have been received before, with or after the      *)
(* step that tells of the failure.                                         *)
(***************************************************************************)

CONSTANT Requests

VARIABLES
    received,   \* the submissions that have reached the admin
    answer      \* what the respondent was told of each

rvars == <<received, answer>>

RInit ==
    /\ received = {}
    /\ answer = [r \in Requests |-> "none"]

Receive(r) ==
    /\ received' = received \cup {r}
    /\ UNCHANGED answer

Succeed(r) ==
    /\ r \in received
    /\ answer[r] = "none"
    /\ answer' = [answer EXCEPT ![r] = "success"]
    /\ UNCHANGED received

(* Several requests fail together when the server goes down.               *)
Fail(F) ==
    /\ answer' = [r \in Requests |->
                      IF r \in F /\ answer[r] = "none" THEN "failure"
                      ELSE answer[r]]
    /\ received \subseteq received' /\ received' \subseteq received \cup F

RNext ==
    \/ \E r \in Requests : Receive(r) \/ Succeed(r)
    \/ \E F \in SUBSET Requests : Fail(F)

RSpec == RInit /\ [][RNext]_rvars
=============================================================================
