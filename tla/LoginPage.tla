------------------------------ MODULE LoginPage -------------------------------
(***************************************************************************)
(* The page on which an admin logs in (authentication.client.controller.js,*)
(* auth.client.service.js and the interceptor of users.client.config.js),  *)
(* on top of the server of AdminLogin.                                     *)
(*                                                                         *)
(* The page asks whether the email's domain is known, has an OTP sent and  *)
(* exchanges it for a session.  It remembers its user in localStorage,     *)
(* which outlives the page, and takes him to the target state half a second*)
(* after the OTP was verified.  The Enter key submits whether or not the   *)
(* button is disabled, so that calls may overlap.                          *)
(*                                                                         *)
(* A behaviour is about the page in one browser, with nobody else at work; *)
(* or about requests that reach the server from anywhere.                  *)
(***************************************************************************)
EXTENDS AdminLogin

VARIABLES
    pageBrowser,    \* where the page is open; None: requests from anywhere
    state,      \* the router's state
    page,       \* the controller's vm
    calls,      \* what became of each request that the page sent
    user,       \* the user in localStorage
    timer,      \* whether the redirection is due
    lapses      \* what happened that the page does not guard against

pageVars == <<state, page, calls, user, timer, lapses>>

(* "sent" and "verified" are the messages of success; a field that holds   *)
(* no well-formed email is None.                                           *)
Controllers ==
    [signInSteps : {"email", "otp"}, email : Emails \cup {None},
     isSubmitEmailDisabled : BOOLEAN, buttonClicked : BOOLEAN,
     isOtpSending : BOOLEAN, signInMsg : {"none", "error", "sent", "verified"}]

NewController ==
    [signInSteps |-> "email", email |-> None, isSubmitEmailDisabled |-> FALSE,
     buttonClicked |-> FALSE, isOtpSending |-> FALSE, signInMsg |-> "none"]

PageInit ==
    /\ state = "signin"
    /\ page = NewController
    /\ calls = [r \in Requests |-> "none"]
    /\ user = None
    /\ timer = FALSE
    /\ lapses = {}

-----------------------------------------------------------------------------
(* Calls and their answers *)

Waiting(r) == calls[r] = "waiting"

LapseIf(condition, lapse) ==
    lapses' = lapses \cup (IF condition THEN {lapse} ELSE {})

(* A call while another is under way, or while the redirection is due.     *)
LapseOfCall ==
    lapses' = lapses
        \cup (IF \E r \in Requests : Waiting(r) THEN {"overlap"} ELSE {})
        \cup (IF timer THEN {"late"} ELSE {})

(* $http.post: the request is on its way to the server.                    *)
Post(r, op, otp, b) == Receive(r, op, page.email, otp, b)

(* The interceptor of every answer: on a 401 the user is forgotten and the *)
(* page of the login is opened, which it may be already.                   *)
Intercept(reply) ==
    IF reply \in {"NOT_WHITELISTED", "INVALID"}
    THEN user' = None /\ state' = "signin"
    ELSE UNCHANGED <<user, state>>

(* What a callback leaves of the controller; that of a page that was left  *)
(* writes to a controller nobody sees.                                     *)
Shown(r, next) ==
    page' = IF state' = "signin" /\ state # "signin" THEN NewController
            ELSE IF Waiting(r) THEN next
            ELSE page

Refused == [page EXCEPT !.buttonClicked = FALSE, !.signInMsg = "error"]

(* Invalid agency: the button waits for another email.                     *)
EmailRefused == [Refused EXCEPT !.isSubmitEmailDisabled = TRUE]

OtpNotSent == [Refused EXCEPT !.isOtpSending = FALSE]

-----------------------------------------------------------------------------
(* The email *)

(* handleEmailKeyUp: the text may be edited while its check is under way.  *)
TypeEmail(email) ==
    /\ state = "signin" /\ page.signInSteps = "email"
    /\ email # page.email
    /\ page' = [page EXCEPT !.email = email, !.signInMsg = "none",
                            !.isSubmitEmailDisabled = FALSE]
    /\ LapseIf(\E r \in Requests : Waiting(r), "retyped")
    /\ UNCHANGED <<state, calls, user, timer, vars>>

(* checkEmail, by the button or by Enter, which is kept from submitting by *)
(* isSubmitEmailDisabled only.                                             *)
CheckEmail(b) ==
    /\ state = "signin" /\ page.signInSteps = "email"
    /\ ~page.isSubmitEmailDisabled
    /\ \/ /\ page.email = None
          /\ page' = EmailRefused
          /\ UNCHANGED <<calls, vars>>
       \/ /\ page.email # None
          /\ page' = [page EXCEPT !.buttonClicked = TRUE]
          /\ \E r \in Requests : /\ Post(r, "checkuser", None, b)
                                 /\ calls' = [calls EXCEPT ![r] = "waiting"]
    /\ LapseOfCall
    /\ UNCHANGED <<state, user, timer>>

CheckRefused(r) ==
    /\ Waiting(r) /\ request[r].op = "checkuser"
    /\ request[r].pc = "done" /\ request[r].reply # "OK"
    /\ calls' = [calls EXCEPT ![r] = "done"]
    /\ Intercept(request[r].reply)
    /\ Shown(r, EmailRefused)
    /\ UNCHANGED <<timer, lapses, vars>>

-----------------------------------------------------------------------------
(* The OTP *)

(* sendOtp takes the email as it is now.  One that is not well-formed is   *)
(* turned down by the route, without a step of the server.                 *)
SendOtpFor(b, answered) ==
    \/ /\ page.email = None
       /\ page' = [OtpNotSent EXCEPT !.signInSteps = "otp"]
       /\ calls' = [r \in Requests |-> IF r \in answered THEN "done"
                                       ELSE calls[r]]
       /\ UNCHANGED vars
    \/ /\ page.email # None
       /\ page' = [page EXCEPT !.signInSteps = "otp", !.signInMsg = "none",
                               !.isOtpSending = TRUE, !.buttonClicked = TRUE]
       /\ \E s \in Requests :
             /\ Post(s, "sendotp", None, b)
             /\ calls' = [r \in Requests |->
                             IF r = s THEN "waiting"
                             ELSE IF r \in answered THEN "done" ELSE calls[r]]

CheckAccepted(r, b) ==
    /\ Waiting(r) /\ request[r].op = "checkuser"
    /\ request[r].pc = "done" /\ request[r].reply = "OK"
    /\ SendOtpFor(b, {r})
    /\ UNCHANGED <<state, user, timer, lapses>>

(* "Resend OTP?" cannot be clicked while an OTP is being sent.             *)
ResendOtp(b) ==
    /\ state = "signin" /\ page.signInSteps = "otp"
    /\ ~page.isOtpSending
    /\ SendOtpFor(b, {})
    /\ LapseOfCall
    /\ UNCHANGED <<state, user, timer>>

(* Mutant: only the message of a failure is set.                           *)
SendAnswered_Sending(r) ==
    /\ calls[r] \in {"waiting", "stale"} /\ request[r].op = "sendotp"
    /\ request[r].pc = "done"
    /\ calls' = [calls EXCEPT ![r] = "done"]
    /\ Intercept(request[r].reply)
    /\ Shown(r, IF request[r].reply = "OK"
                THEN [OtpNotSent EXCEPT !.signInMsg = "sent"]
                ELSE Refused)
    /\ UNCHANGED <<timer, lapses, vars>>

SendAnswered(r) ==
    /\ calls[r] \in {"waiting", "stale"} /\ request[r].op = "sendotp"
    /\ request[r].pc = "done"
    /\ calls' = [calls EXCEPT ![r] = "done"]
    /\ Intercept(request[r].reply)
    /\ Shown(r, IF request[r].reply = "OK"
                THEN [OtpNotSent EXCEPT !.signInMsg = "sent"]
                ELSE OtpNotSent)
    /\ UNCHANGED <<timer, lapses, vars>>

(* verifyOtp, by the button or by Enter, which does not look whether the   *)
(* button is disabled.  Typing takes the message away.                     *)
VerifyOtp(otp, b) ==
    /\ state = "signin" /\ page.signInSteps = "otp" /\ page.email # None
    /\ \E msg \in {"none", page.signInMsg} :
          page' = [page EXCEPT !.buttonClicked = TRUE, !.signInMsg = msg]
    /\ \E r \in Requests : /\ Post(r, "verifyotp", otp, b)
                           /\ calls' = [calls EXCEPT ![r] = "waiting"]
    /\ LapseOfCall
    /\ UNCHANGED <<state, user, timer>>

VerifyRefused(r) ==
    /\ calls[r] \in {"waiting", "stale"} /\ request[r].op = "verifyotp"
    /\ request[r].pc = "done" /\ request[r].reply # "OK"
    /\ calls' = [calls EXCEPT ![r] = "done"]
    /\ Intercept(request[r].reply)
    /\ Shown(r, Refused)
    /\ UNCHANGED <<timer, lapses, vars>>

(* setUser, whichever page is open by then, and the timer.                 *)
VerifyAccepted(r) ==
    /\ calls[r] \in {"waiting", "stale"} /\ request[r].op = "verifyotp"
    /\ request[r].pc = "done" /\ request[r].reply = "OK"
    /\ calls' = [calls EXCEPT ![r] = "done"]
    /\ user' = request[r].email
    /\ timer' = TRUE
    /\ page' = IF Waiting(r)
               THEN [Refused EXCEPT !.signInMsg = "verified"] ELSE page
    /\ UNCHANGED <<state, lapses, vars>>

(* The answer does not arrive: the page is told of an error, and the       *)
(* server carries on.                                                      *)
AnswerLost(r) ==
    /\ Waiting(r)
    /\ calls' = [calls EXCEPT ![r] = "done"]
    /\ page' = CASE request[r].op = "checkuser" -> EmailRefused
                 [] request[r].op = "sendotp" -> OtpNotSent
                 [] request[r].op = "verifyotp" -> Refused
    /\ lapses' = lapses \cup {"lost"}
    /\ UNCHANGED <<state, user, timer, vars>>

-----------------------------------------------------------------------------
(* Coming and going *)

Left == [r \in Requests |-> IF Waiting(r) THEN "stale" ELSE calls[r]]

(* $state.go(targetState); elsewhere there is no target to go to.  Bound:  *)
(* the page is not left while an email is being checked.                   *)
Redirect ==
    /\ timer
    /\ timer' = FALSE
    /\ IF state = "signin"
       THEN /\ \A r \in Requests : Waiting(r) => request[r].op # "checkuser"
            /\ state' = "target"
            /\ calls' = Left
       ELSE UNCHANGED <<state, calls>>
    /\ UNCHANGED <<page, user, lapses, vars>>

(* The navigation bar's signOut, when the answer arrives ...               *)
PageSignOut(b) ==
    /\ state = "target"
    /\ SignOut(b) \/ (sessions[b] = None /\ UNCHANGED vars)
    /\ user' = None
    /\ state' = "landing"
    /\ UNCHANGED <<page, calls, timer, lapses>>

(* ... and when it does not, or is an error.                               *)
SignOutFails(b) ==
    /\ state = "target"
    /\ SignOut(b) \/ UNCHANGED vars
    /\ lapses' = lapses \cup {"lost"}
    /\ UNCHANGED <<state, page, calls, user, timer>>

(* Any request of an admin's page without a session: authenticateUser      *)
(* answers 401.                                                            *)
Unauthorised(b) ==
    /\ state = "target"
    /\ sessions[b] = None
    /\ user' = None
    /\ state' = "signin"
    /\ page' = NewController
    /\ UNCHANGED <<calls, timer, lapses, vars>>

(* redirectIfActiveSession                                                 *)
Enter ==
    /\ state' = IF user # None THEN "target" ELSE "signin"
    /\ page' = NewController
    /\ UNCHANGED <<user, vars>>

OpenSignIn ==
    /\ state = "landing"
    /\ Enter
    /\ UNCHANGED <<calls, timer, lapses>>

(* The browser drops the calls and the timer of a page that is reloaded.   *)
Reload ==
    /\ state = "signin" /\ page # NewController
    /\ Enter
    /\ calls' = [r \in Requests |-> IF calls[r] = "none" THEN "none"
                                    ELSE "done"]
    /\ timer' = FALSE
    /\ LapseIf(\E r \in Requests : calls[r] \in {"waiting", "stale"}, "lost")

PageCalls(b) ==
    \/ CheckEmail(b)
    \/ \E r \in Requests : CheckAccepted(r, b)
    \/ ResendOtp(b)
    \/ \E otp \in Otps : VerifyOtp(otp, b)

PageActs(b) ==
    \/ \E email \in Emails \cup {None} : TypeEmail(email)
    \/ \E r \in Requests : \/ CheckRefused(r)
                           \/ SendAnswered(r)
                           \/ VerifyRefused(r)
                           \/ VerifyAccepted(r)
                           \/ AnswerLost(r)
    \/ Redirect
    \/ PageSignOut(b)
    \/ SignOutFails(b)
    \/ Unauthorised(b)
    \/ OpenSignIn
    \/ Reload

(* What the server does meanwhile.                                         *)
ServerActs ==
    /\ \/ \E r \in Requests : Continue(r) \/ Fail(r)
       \/ \E token \in tokens : ExpireToken(token)
       \/ Tick
    /\ UNCHANGED pageVars

(* As in AdminLogin, nobody asks for two OTPs for one email at once.       *)
PageNext ==
    \/ PageCalls(pageBrowser) /\ OneSender'
    \/ PageActs(pageBrowser)
    \/ ServerActs

LoginInit ==
    /\ Init /\ PageInit
    /\ pageBrowser \in Browsers \cup {None}

LoginNext ==
    /\ UNCHANGED pageBrowser
    /\ \/ pageBrowser = None /\ OneSenderNext /\ UNCHANGED pageVars
       \/ pageBrowser # None /\ PageNext

LoginSpec == LoginInit /\ [][LoginNext]_<<vars, pageVars, pageBrowser>>

-----------------------------------------------------------------------------
(* Properties *)

PageTypeOK ==
    /\ state \in {"signin", "target", "landing"}
    /\ page \in Controllers
    /\ calls \in [Requests -> {"none", "waiting", "stale", "done"}]
    /\ user \in Emails \cup {None}
    /\ timer \in BOOLEAN
    /\ lapses \subseteq {"overlap", "late", "lost", "retyped"}

(* The button is disabled, and the spinner turns, for as long as an answer *)
(* is awaited, and no longer.                                              *)
BusyWhileWaiting ==
    state = "signin" /\ "overlap" \notin lapses =>
        /\ page.buttonClicked <=> \E r \in Requests : Waiting(r)
        /\ page.isOtpSending <=>
               \E r \in Requests : Waiting(r) /\ request[r].op = "sendotp"

(* "Directs user to otp input page" after the domain was found valid: the  *)
(* page asks for an OTP only for an email of an agency.                    *)
OtpForCheckedEmail ==
    page.signInSteps = "otp" /\ "retyped" \notin lapses =>
        page.email \in Whitelisted

(* While the page says that the OTP was sent, the OTP in the mailbox of the*)
(* email is the one that the server would accept, until it expires.        *)
SentOtpIsCurrent ==
    /\ state = "signin" /\ page.signInMsg = "sent" /\ lapses = {}
    /\ \A r \in Requests : ~Waiting(r)
    /\ now < otpLifeSpan
    => \E token \in TokensOf(page.email) :
           [to |-> page.email, otp |-> token.hashedOtp.otp] \in sent

(* Whoever is remembered did log in, whatever was lost or overlapped; and  *)
(* when nothing was, he is the user of the session, and the session is     *)
(* remembered once the page was told of it.                                *)
RememberedIsLoggedIn ==
    /\ user # None =>
          \E r \in Requests :
             /\ request[r].op = "verifyotp" /\ request[r].reply = "OK"
             /\ request[r].email = user /\ request[r].browser = pageBrowser
    /\ lapses \subseteq {"retyped"} =>
          /\ user # None => sessions[pageBrowser] = user
          /\ user = None /\ sessions[pageBrowser] # None =>
                \E r \in Requests : Waiting(r) /\ request[r].reply = "OK"
          /\ state = "target" => user # None

(* The page tells the truth of the login at each of its steps.             *)
PageTellsTruth ==
    /\ PageTypeOK
    /\ BusyWhileWaiting
    /\ OtpForCheckedEmail
    /\ SentOtpIsCurrent
    /\ RememberedIsLoggedIn

(* An OTP that was used is gone, whoever sends the requests; and the page  *)
(* tells the truth about the login that it makes with them.                *)
LoginInOrder == UsedOtpIsGone /\ (pageBrowser # None => PageTellsTruth)
=============================================================================
