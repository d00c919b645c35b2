----------------------------- MODULE AdminLogin ------------------------------
(***************************************************************************)
(* How a form admin logs in with a one-time password                       *)
(* (authentication.server.controller.js, its routes and the Token model).  *)
(*                                                                         *)
(* POST /auth/sendotp stores a token and mails its OTP, POST /auth/verifyotp*)
(* exchanges the OTP for a session.  Handlers are chains of callbacks: each*)
(* action below is one database, bcrypt or mail call with the code that    *)
(* runs when it answers, up to the next call.                              *)
(*                                                                         *)
(* Tokens are found by email, and only expireAt is indexed: two upserts    *)
(* for one email that both find no token insert one each.  Which one a     *)
(* query without a sort order then finds is left open.                     *)
(***************************************************************************)
EXTENDS Integers, FiniteSets

CONSTANTS
    Emails,
    Whitelisted,        \* the emails whose domain belongs to an agency
    Otps,
    Browsers,           \* each with its session cookie
    Requests,           \* HTTP requests; each is served once
    None,
    MAX_OTP_ATTEMPTS,
    otpLifeSpan,
    MaxTime             \* bound on the clock, for model checking only

ASSUME LoginAssumption ==
    /\ Whitelisted \subseteq Emails
    /\ IsFiniteSet(Requests)
    /\ MAX_OTP_ATTEMPTS \in Nat
    /\ otpLifeSpan \in Nat
    /\ MaxTime \in Nat

VARIABLES
    now,
    tokens,     \* the tokens collection
    users,      \* the emails that have a user document
    sessions,   \* the email of the user in each browser's session, or None
    request,    \* the local state of every request handler
    sent        \* the OTP mails that reached a mailbox

vars == <<now, tokens, users, sessions, request, sent>>

(* A bcrypt hash; its salt is the request that made it.                    *)
Hashes == [otp : Otps, salt : Requests]

Matches(otp, hash) == hash.otp = otp

(* id is the document's, named after the request that inserted it.         *)
Tokens == [id : Requests, email : Emails, hashedOtp : Hashes,
           expireAt : Nat, numOtpAttempts : Nat]

Ops == {"none", "checkuser", "sendotp", "verifyotp"}

InFlightAt == {"validating", "hashing", "saving", "inserting", "sending",
               "counting", "comparing", "removing", "signing"}

Replies == {"OK", "NOT_WHITELISTED", "EXPIRED", "MAX_ATTEMPTS", "INVALID",
            "ERROR"}

(* otp is the OTP a sendotp generates, or the one in a verifyotp's body;   *)
(* at is when the OTP was hashed, or when the attempt was counted; token   *)
(* is the record as updated by verifyotp.                                  *)
HandlerStates ==
    [pc : {"new", "done"} \cup InFlightAt, op : Ops,
     email : Emails \cup {None}, otp : Otps \cup {None},
     browser : Browsers \cup {None}, at : Nat \cup {None},
     token : Tokens \cup {None}, reply : Replies \cup {None}]

NewRequest ==
    [pc |-> "new", op |-> "none", email |-> None, otp |-> None,
     browser |-> None, at |-> None, token |-> None, reply |-> None]

(* null is neither a document nor an error.                                *)
ASSUME NullAssumption == None \notin Tokens /\ None \notin Replies

Init ==
    /\ now = 0
    /\ tokens = {}
    /\ users = {}
    /\ sessions = [b \in Browsers |-> None]
    /\ request = [r \in Requests |-> NewRequest]
    /\ sent = {}

-----------------------------------------------------------------------------

InFlight(r) == request[r].pc \in InFlightAt

Goto(r, pc) == request' = [request EXCEPT ![r] = [@ EXCEPT !.pc = pc]]

Finish(r, reply) ==
    request' = [request EXCEPT ![r] =
                   [@ EXCEPT !.pc = "done", !.reply = reply]]

(* Mutant: a misspelt key, and the query matches any token.                *)
TokensOf_Any(email) == tokens

TokensOf(email) == {token \in tokens : token.email = email}

-----------------------------------------------------------------------------
(* Every route first looks the domain up: validateDomain *)

Receive(r, op, email, otp, browser) ==
    /\ request[r].pc = "new"
    /\ request' = [request EXCEPT ![r] =
           [@ EXCEPT !.pc = "validating", !.op = op, !.email = email,
                     !.otp = otp, !.browser = browser]]
    /\ UNCHANGED <<now, tokens, users, sessions, sent>>

RejectDomain(r) ==
    /\ request[r].pc = "validating"
    /\ request[r].email \notin Whitelisted
    /\ Finish(r, "NOT_WHITELISTED")
    /\ UNCHANGED <<now, tokens, users, sessions, sent>>

AcceptDomain(r) ==
    /\ request[r].pc = "validating"
    /\ request[r].email \in Whitelisted
    /\ \/ request[r].op = "checkuser" /\ Finish(r, "OK")
       \/ request[r].op = "sendotp"   /\ Goto(r, "hashing")
       \/ request[r].op = "verifyotp" /\ Goto(r, "counting")
    /\ UNCHANGED <<now, tokens, users, sessions, sent>>

-----------------------------------------------------------------------------
(* sendotp: createOtp, sendOtp *)

HashOtp(r, otp) ==
    /\ request[r].pc = "hashing"
    /\ request' = [request EXCEPT ![r] =
           [@ EXCEPT !.pc = "saving", !.otp = otp, !.at = now]]
    /\ UNCHANGED <<now, tokens, users, sessions, sent>>

Hash(r) == [otp |-> request[r].otp, salt |-> r]

Record(r, id) ==
    [id |-> id, email |-> request[r].email, hashedOtp |-> Hash(r),
     expireAt |-> request[r].at + otpLifeSpan, numOtpAttempts |-> 0]

(* findOneAndUpdate with upsert: a token of the email is overwritten ...   *)
OverwriteToken(r) ==
    /\ request[r].pc = "saving"
    /\ \E token \in TokensOf(request[r].email) :
           tokens' = (tokens \ {token}) \cup {Record(r, token.id)}
    /\ Goto(r, "sending")
    /\ UNCHANGED <<now, users, sessions, sent>>

(* ... or, when there is none, one is inserted, a moment after the search. *)
FindNoToken(r) ==
    /\ request[r].pc = "saving"
    /\ TokensOf(request[r].email) = {}
    /\ Goto(r, "inserting")
    /\ UNCHANGED <<now, tokens, users, sessions, sent>>

InsertToken(r) ==
    /\ request[r].pc = "inserting"
    /\ tokens' = tokens \cup {Record(r, r)}
    /\ Goto(r, "sending")
    /\ UNCHANGED <<now, users, sessions, sent>>

OtpMail(r) == [to |-> request[r].email, otp |-> request[r].otp]

SendOtp(r) ==
    /\ request[r].pc = "sending"
    /\ sent' = sent \cup {OtpMail(r)}
    /\ Finish(r, "OK")
    /\ UNCHANGED <<now, tokens, users, sessions>>

(* The mail could not be rendered or sent; a transport that reports an     *)
(* error may have sent it all the same.                                    *)
SendOtpFails(r) ==
    /\ request[r].pc = "sending"
    /\ sent' \in {sent, sent \cup {OtpMail(r)}}
    /\ Finish(r, "ERROR")
    /\ UNCHANGED <<now, tokens, users, sessions>>

-----------------------------------------------------------------------------
(* verifyotp: verifyOtp, signIn *)

FindNothingToVerify(r) ==
    /\ request[r].pc = "counting"
    /\ TokensOf(request[r].email) = {}
    /\ Finish(r, "EXPIRED")
    /\ UNCHANGED <<now, tokens, users, sessions, sent>>

(* Mutant: findOneAndUpdate without new: true hands over the old record.   *)
CountAttempt_OldRecord(r) ==
    /\ request[r].pc = "counting"
    /\ \E token \in TokensOf(request[r].email) :
           LET updated == [token EXCEPT !.numOtpAttempts = @ + 1]
               counted == [request[r] EXCEPT !.token = token]
           IN  /\ tokens' = (tokens \ {token}) \cup {updated}
               /\ request' = [request EXCEPT ![r] =
                      IF token.numOtpAttempts > MAX_OTP_ATTEMPTS
                      THEN [counted EXCEPT !.pc = "done",
                                           !.reply = "MAX_ATTEMPTS"]
                      ELSE [counted EXCEPT !.pc = "comparing"]]
    /\ UNCHANGED <<now, users, sessions, sent>>

(* findOneAndUpdate with $inc returns the record as it now is.  expireAt   *)
(* is not looked at.                                                       *)
CountAttempt(r) ==
    /\ request[r].pc = "counting"
    /\ \E token \in TokensOf(request[r].email) :
           LET updated == [token EXCEPT !.numOtpAttempts = @ + 1]
               counted == [request[r] EXCEPT !.token = updated]
           IN  /\ tokens' = (tokens \ {token}) \cup {updated}
               /\ request' = [request EXCEPT ![r] =
                      IF updated.numOtpAttempts > MAX_OTP_ATTEMPTS
                      THEN [counted EXCEPT !.pc = "done",
                                           !.reply = "MAX_ATTEMPTS"]
                      ELSE [counted EXCEPT !.pc = "comparing"]]
    /\ UNCHANGED <<now, users, sessions, sent>>

CompareOtp(r) ==
    /\ request[r].pc = "comparing"
    /\ IF Matches(request[r].otp, request[r].token.hashedOtp)
       THEN Goto(r, "removing")
       ELSE Finish(r, "INVALID")
    /\ UNCHANGED <<now, tokens, users, sessions, sent>>

(* Mutant: next() is called without removing the token.                    *)
RemoveToken_Skipped(r) ==
    /\ request[r].pc = "removing"
    /\ Goto(r, "signing")
    /\ UNCHANGED <<now, tokens, users, sessions, sent>>

(* findOneAndRemove by email: whatever token the email has by now, and no  *)
(* error when it has none.                                                 *)
RemoveToken(r) ==
    /\ request[r].pc = "removing"
    /\ \/ /\ TokensOf(request[r].email) = {}
          /\ UNCHANGED tokens
       \/ \E token \in TokensOf(request[r].email) :
              tokens' = tokens \ {token}
    /\ Goto(r, "signing")
    /\ UNCHANGED <<now, users, sessions, sent>>

SignIn(r) ==
    /\ request[r].pc = "signing"
    /\ users' = users \cup {request[r].email}
    /\ sessions' = [sessions EXCEPT ![request[r].browser] = request[r].email]
    /\ Finish(r, "OK")
    /\ UNCHANGED <<now, tokens, sent>>

-----------------------------------------------------------------------------

SignOut(b) ==
    /\ sessions[b] # None
    /\ sessions' = [sessions EXCEPT ![b] = None]
    /\ UNCHANGED <<now, tokens, users, request, sent>>

(* A call rejects, or the process dies, before it had an effect.           *)
Fail(r) ==
    /\ InFlight(r)
    /\ Finish(r, "ERROR")
    /\ UNCHANGED <<now, tokens, users, sessions, sent>>

(* The TTL monitor removes a token some time after its expireAt.           *)
ExpireToken(token) ==
    /\ token.expireAt <= now
    /\ tokens' = tokens \ {token}
    /\ UNCHANGED <<now, users, sessions, request, sent>>

Tick ==
    /\ now < MaxTime
    /\ now' = now + 1
    /\ UNCHANGED <<tokens, users, sessions, request, sent>>

Start(r) ==
    \E email \in Emails, b \in Browsers :
        \/ Receive(r, "checkuser", email, None, b)
        \/ Receive(r, "sendotp", email, None, b)
        \/ \E otp \in Otps : Receive(r, "verifyotp", email, otp, b)

Continue(r) ==
    \/ RejectDomain(r)
    \/ AcceptDomain(r)
    \/ \E otp \in Otps : HashOtp(r, otp)
    \/ OverwriteToken(r)
    \/ FindNoToken(r)
    \/ InsertToken(r)
    \/ SendOtp(r)
    \/ SendOtpFails(r)
    \/ FindNothingToVerify(r)
    \/ CountAttempt(r)
    \/ CompareOtp(r)
    \/ RemoveToken(r)
    \/ SignIn(r)

Environment ==
    \/ \E b \in Browsers : SignOut(b)
    \/ \E r \in Requests : Fail(r)
    \/ \E token \in tokens : ExpireToken(token)
    \/ Tick

Next ==
    \/ \E r \in Requests : Start(r) \/ Continue(r)
    \/ Environment

Spec == Init /\ [][Next]_vars

-----------------------------------------------------------------------------
(* Properties *)

TypeOK ==
    /\ now \in Nat
    /\ tokens \subseteq Tokens
    /\ users \subseteq Emails
    /\ sessions \in [Browsers -> Emails \cup {None}]
    /\ request \in [Requests -> HandlerStates]
    /\ sent \subseteq [to : Emails, otp : Otps]

(* The requests that were counted as attempts at the OTP behind a hash ... *)
Counted(hash) ==
    {v \in Requests : /\ request[v].token # None
                      /\ request[v].token.hashedOtp = hash}

(* ... and those of them that were let through to the comparison.          *)
Compared(hash) == {v \in Counted(hash) : request[v].reply # "MAX_ATTEMPTS"}

(* "We read and write to numOtpAttempts in findOneAndUpdate command to     *)
(* prevent concurrency issues" (the comment in verifyOtp): however many    *)
(* verifyotp requests run at once, at most MAX_OTP_ATTEMPTS of them get to *)
(* compare with the same OTP.                                              *)
ComparisonsWithinMax ==
    \A s \in Requests : Cardinality(Compared(Hash(s))) <= MAX_OTP_ATTEMPTS

(* An admin is refused for too many attempts only after MAX_OTP_ATTEMPTS   *)
(* attempts at this OTP: a new OTP starts from zero ("should reset         *)
(* numOtpAttempts if token exists for email", the test of createOtp), also *)
(* when it is stored in the middle of other requests.                      *)
RefusedOnlyAfterMax ==
    \A r \in Requests :
        request[r].reply = "MAX_ATTEMPTS" =>
            Cardinality(Counted(request[r].token.hashedOtp))
                > MAX_OTP_ATTEMPTS

(* The limit on attempts is exact, in both directions.                     *)
AttemptLimitExact == ComparisonsWithinMax /\ RefusedOnlyAfterMax

(* A browser has an admin's session only if it gave an OTP that was issued *)
(* for that admin's email, a whitelisted one, and the admin has a user     *)
(* document: nothing in between (a token overwritten, removed or inserted  *)
(* twice, an OTP of another admin) opens the wrong session.                *)
SessionHadOtp ==
    \A b \in Browsers :
        sessions[b] # None =>
            /\ sessions[b] \in users \cap Whitelisted
            /\ \E v, s \in Requests :
                  /\ request[v].op = "verifyotp"
                  /\ request[v].browser = b
                  /\ request[v].email = sessions[b]
                  /\ request[v].reply = "OK"
                  /\ request[s].op = "sendotp"
                  /\ request[s].email = sessions[b]
                  /\ request[s].otp = request[v].otp

(* "If OTP is correct, remove OTP from token table": once a login with it  *)
(* has got past the removal, no token holds the OTP, so that no later      *)
(* request can use it.                                                     *)
UsedOtpIsGone ==
    \A r \in Requests :
        /\ request[r].op = "verifyotp"
        /\ request[r].pc = "signing" \/ request[r].reply = "OK"
        => \A token \in tokens : token.hashedOtp # request[r].token.hashedOtp

(* Admins who do not ask for two OTPs at once.                             *)
OneSender ==
    \A r, s \in Requests :
        /\ request[r].op = "sendotp" /\ InFlight(r)
        /\ request[s].op = "sendotp" /\ InFlight(s)
        /\ request[r].email = request[s].email
        => r = s

OneSenderNext ==
    \/ \E r \in Requests : (Start(r) /\ OneSender') \/ Continue(r)
    \/ Environment

OneSenderSpec == Init /\ [][OneSenderNext]_vars
=============================================================================
