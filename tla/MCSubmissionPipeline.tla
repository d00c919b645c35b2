------------------------ MODULE MCSubmissionPipeline -------------------------
(***************************************************************************)
(* Instances of SubmissionPipeline for TLC.                                *)
(***************************************************************************)
EXTENDS SubmissionPipeline, TLC

(* Requests are interchangeable, and so are attachments.                   *)
Symmetry == Permutations(Requests) \cup Permutations(Attachments)

(* A form of each mode that asks for nothing, and one that asks for        *)
(* everything and is closed for a while, or for good.                      *)
Plain(mode) == [responseMode |-> mode, status |-> "PUBLIC",
                hasCaptcha |-> FALSE, authType |-> "NIL", webhook |-> FALSE]

Strict(mode, status) == [responseMode |-> mode, status |-> status,
                         hasCaptcha |-> TRUE, authType |-> "SP",
                         webhook |-> mode = "encrypt"]

MCForms ==
    {Plain("email"), Strict("email", "PUBLIC"), Strict("email", "PRIVATE"),
     Plain("encrypt"), Strict("encrypt", "PUBLIC"),
     Strict("encrypt", "ARCHIVED")}
=============================================================================
