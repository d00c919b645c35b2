------------------------------- MODULE AdminSite -------------------------------
(***************************************************************************)
(* What an admin has apart from the builder and the responses of one form: *)
(* the list of his forms, the examples, the bill and the feedback.  These  *)
(* pages share no state, so that a behaviour is about one of them, which   *)
(* the variable page tells; or about nothing but the requests that edit a  *)
(* form, from whatever page.                                               *)
(***************************************************************************)
EXTENDS FormWorkspace, ExampleForms, BillCharges, FormFeedback

VARIABLE page

siteVars == <<workspaceVars, exampleVars, billVars, feedbackVars, page>>

Pages == {"requests", "forms", "examples", "bill", "feedback"}

SiteInit ==
    /\ page \in Pages
    /\ Init /\ PageInit /\ ExamplesInit /\ BillInit /\ FeedbackInit

SiteNext ==
    \/ /\ page = "requests"
       /\ UNCHANGED <<pageVars, exampleVars, billVars, feedbackVars, page>>
       /\ Next
    \/ /\ page = "forms"
       /\ UNCHANGED <<exampleVars, billVars, feedbackVars, page>>
       /\ PageNext
    \/ /\ page = "examples"
       /\ UNCHANGED <<workspaceVars, billVars, feedbackVars, page>>
       /\ ExamplesNext
    \/ /\ page = "bill"
       /\ UNCHANGED <<workspaceVars, exampleVars, feedbackVars, page>>
       /\ BillNext
    \/ /\ page = "feedback"
       /\ UNCHANGED <<workspaceVars, exampleVars, billVars, page>>
       /\ FeedbackNext

SiteSpec == SiteInit /\ [][SiteNext]_siteVars
=============================================================================
