----------------------------- MODULE FormFeedback -----------------------------
(***************************************************************************)
(* The feedback that respondents give of a form once they have submitted   *)
(* it, and the Feedback tab on which its admin reads it.                   *)
(*                                                                         *)
(* A respondent posts one rating, the server stores it unless the form has *)
(* been closed meanwhile, and the answer may be lost.  The tab reads the   *)
(* number of submissions first and the feedback after it, and an export    *)
(* counts the feedback before it downloads it.                             *)
(***************************************************************************)
EXTENDS Naturals, Sequences, FiniteSets, Folds

CONSTANTS
    Visitors,       \* who open the form, each once
    Previewers,     \* those of them who only preview it
    Ratings,
    Unset

ASSUME FeedbackAssumption ==
    /\ Previewers \subseteq Visitors
    /\ Ratings \subseteq 1..5
    /\ Unset \notin Ratings

VARIABLES
    isPublic,       \* the form is
    submissionCount,
    formFeedback,   \* the collection: [from, rating], in order of creation
    visit,          \* of each visitor: the stage of the form's last page
    rating,         \* and what was posted from it
    tab,            \* the stage of the Feedback tab
    shown,          \* the statistics on it
    csv,            \* the stage of the export: csvDownloading, if not "idle"
    exported        \* the last file: the lines that were expected, and it has

respondentVars == <<submissionCount, formFeedback, visit, rating>>
tabVars == <<tab, shown, csv, exported>>
feedbackVars == <<isPublic, respondentVars, tabVars>>

NothingRead == [submissionCount |-> 0, feedbackCount |-> 0, sum |-> 0,
                overtaken |-> FALSE]

FeedbackInit ==
    /\ isPublic = TRUE
    /\ submissionCount = 0
    /\ formFeedback = <<>>
    /\ visit = [v \in Visitors |-> "open"]
    /\ rating = [v \in Visitors |-> Unset]
    /\ tab = "unread"
    /\ shown = NothingRead
    /\ csv = "idle"
    /\ exported = [expected |-> 0, lines |-> 0]

-----------------------------------------------------------------------------
(* feedback-form.client.component.js and submitFeedback                    *)

CloseForm ==
    /\ isPublic
    /\ isPublic' = FALSE
    /\ UNCHANGED <<respondentVars, tabVars>>

(* A preview stores no submission.  The page then asks for feedback.       *)
SubmitForm(v) ==
    /\ visit[v] = "open"
    /\ v \in Previewers \/ isPublic
    /\ visit' = [visit EXCEPT ![v] = "rating"]
    /\ submissionCount' = IF v \in Previewers THEN submissionCount
                                              ELSE submissionCount + 1
    /\ shown' = IF tab = "counted" THEN [shown EXCEPT !.overtaken = TRUE]
                                   ELSE shown
    /\ UNCHANGED <<isPublic, formFeedback, rating, tab, csv, exported>>

SubmitFeedback(v, stars) ==
    /\ visit[v] = "rating"
    /\ visit' = [visit EXCEPT ![v] = "posting"]
    /\ rating' = [rating EXCEPT ![v] = stars]
    /\ UNCHANGED <<isPublic, submissionCount, formFeedback, tabVars>>

(* Mutant: the feedback of a preview is posted to the form's own route.    *)
StoreFeedback_Preview(v) ==
    /\ visit[v] = "posting"
    /\ isPublic
    /\ formFeedback' = Append(formFeedback, [from |-> v, rating |-> rating[v]])
    /\ visit' = [visit EXCEPT ![v] = "OK"]
    /\ UNCHANGED <<isPublic, submissionCount, rating, tabVars>>

(* isFormPublic, submitFeedback                                            *)
StoreFeedback(v) ==
    /\ visit[v] = "posting"
    /\ v \notin Previewers
    /\ isPublic
    /\ formFeedback' = Append(formFeedback, [from |-> v, rating |-> rating[v]])
    /\ visit' = [visit EXCEPT ![v] = "OK"]
    /\ UNCHANGED <<isPublic, submissionCount, rating, tabVars>>

(* passThroughFeedback                                                     *)
PassThroughFeedback(v) ==
    /\ visit[v] = "posting"
    /\ v \in Previewers
    /\ visit' = [visit EXCEPT ![v] = "OK"]
    /\ UNCHANGED <<isPublic, submissionCount, formFeedback, rating, tabVars>>

ReceiveThanks(v) ==
    /\ visit[v] = "OK"
    /\ visit' = [visit EXCEPT ![v] = "thanked"]
    /\ UNCHANGED <<isPublic, submissionCount, formFeedback, rating, tabVars>>

(* The form is closed, or an error, or the answer is lost: the page shows  *)
(* an error, and offers no other attempt.                                  *)
FeedbackFails(v) ==
    /\ visit[v] \in {"posting", "OK"}
    /\ visit' = [visit EXCEPT ![v] = "failed"]
    /\ UNCHANGED <<isPublic, submissionCount, formFeedback, rating, tabVars>>

-----------------------------------------------------------------------------
(* view-feedback.client.directive.js, getFeedback, countFeedback and       *)
(* streamFeedback                                                          *)

(* The tab is opened; it loads each time until it has loaded.              *)
CountSubmissions ==
    /\ tab = "unread"
    /\ tab' = "counted"
    /\ shown' = [NothingRead EXCEPT !.submissionCount = submissionCount]
    /\ UNCHANGED <<isPublic, respondentVars, csv, exported>>

SumOfRatings ==
    MapThenFoldSet(LAMBDA x, y : x + y, 0, LAMBDA i : formFeedback[i].rating,
                   LAMBDA s : CHOOSE i \in s : TRUE, DOMAIN formFeedback)

(* createFeedbackTable: of the average, its numerator.  Without            *)
(* submissions no count is shown.                                          *)
GetFeedback ==
    /\ tab = "counted"
    /\ tab' = "shown"
    /\ shown' = [shown EXCEPT
           !.feedbackCount = IF shown.submissionCount > 0
                             THEN Len(formFeedback) ELSE 0,
           !.sum = SumOfRatings]
    /\ UNCHANGED <<isPublic, respondentVars, csv, exported>>

(* The loader stays until the admin has left the tab and comes back.       *)
ReadingFails ==
    /\ tab = "counted"
    /\ tab' = "unread"
    /\ shown' = NothingRead
    /\ UNCHANGED <<isPublic, respondentVars, csv, exported>>

(* exportCsv *)
CountFeedback ==
    /\ tab = "shown"
    /\ shown.feedbackCount > 0
    /\ csv = "idle"
    /\ csv' = "counted"
    /\ exported' = [expected |-> Len(formFeedback), lines |-> 0]
    /\ UNCHANGED <<isPublic, respondentVars, tab, shown>>

(* FeedbackCsvGenerator makes room for the lines that are expected, and    *)
(* more if it gets more.                                                   *)
DownloadFeedback ==
    /\ csv = "counted"
    /\ csv' = "idle"
    /\ exported' = [exported EXCEPT !.lines = Len(formFeedback)]
    /\ UNCHANGED <<isPublic, respondentVars, tab, shown>>

(* Nothing handles a download that fails: csvDownloading stays.            *)
DownloadFails ==
    /\ csv = "counted"
    /\ csv' = "stuck"
    /\ UNCHANGED <<isPublic, respondentVars, tab, shown, exported>>

FeedbackNext ==
    \/ CloseForm
    \/ \E v \in Visitors :
          \/ SubmitForm(v)
          \/ \E stars \in Ratings : SubmitFeedback(v, stars)
          \/ StoreFeedback(v) \/ PassThroughFeedback(v)
          \/ ReceiveThanks(v) \/ FeedbackFails(v)
    \/ CountSubmissions \/ GetFeedback \/ ReadingFails
    \/ CountFeedback \/ DownloadFeedback \/ DownloadFails

-----------------------------------------------------------------------------
(* Properties *)

(* What a visitor was told of the feedback is what became of it: one who   *)
(* is thanked has it stored once, unless it was a preview; nobody has it   *)
(* stored twice, whatever answer was lost.                                 *)
StoredOnce ==
    \A v \in Visitors :
        LET times == Cardinality({i \in DOMAIN formFeedback :
                                      formFeedback[i].from = v})
        IN  /\ times <= 1
            /\ visit[v] = "thanked" => (times = 1 <=> v \notin Previewers)

(* The tab shows no more feedback than submissions, that is, at most one   *)
(* hundred per cent, unless a submission came between its two readings.    *)
TabAddsUp ==
    tab = "shown" /\ ~shown.overtaken =>
        shown.feedbackCount <= shown.submissionCount

(* The exported file has no blank lines: nothing that was counted is gone  *)
(* when it is downloaded.                                                  *)
ExportHasNoBlanks ==
    csv = "idle" => exported.lines >= exported.expected

(* The three readings of the feedback, by visitors, on the tab and in the  *)
(* file, agree with what is stored.                                        *)
FeedbackTold == StoredOnce /\ TabAddsUp /\ ExportHasNoBlanks
=============================================================================
