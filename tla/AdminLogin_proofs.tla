-------------------------- MODULE AdminLogin_proofs --------------------------
(***************************************************************************)
(* Proofs about AdminLogin and the page of LoginPage, for any emails, OTPs *)
(* and browsers, any finite set of requests, any limit on attempts and any *)
(* lifetime of an OTP.                                                     *)
(***************************************************************************)
EXTENDS LoginPage, FiniteSetTheorems, TLAPS

(* What a handler's pc says of its other locals, besides their types.      *)
HandlerOK(r) ==
    /\ request[r].pc = "new" => /\ request[r].op = "none"
                                /\ request[r].reply = None
    /\ InFlight(r) => /\ request[r].email \in Emails
                      /\ request[r].browser \in Browsers
                      /\ request[r].reply = None
    /\ InFlight(r) /\ request[r].pc # "validating" =>
          request[r].email \in Whitelisted
    /\ request[r].pc \in {"hashing", "saving", "inserting", "sending"} =>
          request[r].op = "sendotp"
    /\ request[r].pc \in {"saving", "inserting", "sending"} =>
          request[r].otp \in Otps /\ request[r].at \in Nat
    /\ request[r].pc \in {"counting", "comparing", "removing", "signing"} =>
          request[r].op = "verifyotp"
    /\ \/ request[r].op # "verifyotp"
       \/ request[r].pc \in {"new", "validating", "counting"}
       => request[r].token = None
    /\ request[r].pc \in {"comparing", "removing", "signing"} =>
          request[r].token \in Tokens
    /\ request[r].pc \in {"removing", "signing"} =>
          request[r].otp = request[r].token.hashedOtp.otp
    /\ request[r].reply = "MAX_ATTEMPTS" => request[r].token \in Tokens
    /\ request[r].reply = "OK" /\ request[r].op = "verifyotp" =>
          /\ request[r].token \in Tokens
          /\ request[r].otp = request[r].token.hashedOtp.otp
          /\ request[r].email \in users \cap Whitelisted

HandlersOK == \A r \in Requests : HandlerOK(r)

(* A sendotp request that has stored its OTP, which is behind this hash.   *)
Issued(hash, email) ==
    LET s == hash.salt
    IN  /\ request[s].op = "sendotp"
        /\ request[s].pc \in {"sending", "done"}
        /\ request[s].email = email
        /\ request[s].otp = hash.otp

TokensIssued == \A token \in tokens : Issued(token.hashedOtp, token.email)

SnapshotsIssued ==
    \A v \in Requests : request[v].token # None =>
        Issued(request[v].token.hashedOtp, request[v].email)

OneTokenPerHash ==
    \A t1, t2 \in tokens : t1.hashedOtp.salt = t2.hashedOtp.salt => t1 = t2

(* The counter of a token is exact, and the limit holds.                   *)
CountsExact ==
    \A token \in tokens :
        Cardinality(Counted(token.hashedOtp)) = token.numOtpAttempts

WithinMax ==
    \A hash \in Hashes : Cardinality(Compared(hash)) <= MAX_OTP_ATTEMPTS

SessionsOpened ==
    \A b \in Browsers : sessions[b] # None =>
        \E v \in Requests : /\ request[v].op = "verifyotp"
                            /\ request[v].browser = b
                            /\ request[v].email = sessions[b]
                            /\ request[v].reply = "OK"

IndInv ==
    /\ TypeOK
    /\ HandlersOK
    /\ TokensIssued
    /\ SnapshotsIssued
    /\ OneTokenPerHash
    /\ CountsExact
    /\ WithinMax
    /\ RefusedOnlyAfterMax
    /\ SessionsOpened

(***************************************************************************)
(* What each kind of step does to the handlers.                            *)
(***************************************************************************)

(* Only r's state changes, and these are its new values.                   *)
Moved(r, pc, op, email, otp, browser, at, token, reply) ==
    /\ request' \in [Requests -> HandlerStates]
    /\ \A v \in Requests \ {r} : request'[v] = request[v]
    /\ request'[r].pc = pc
    /\ request'[r].op = op
    /\ request'[r].email = email
    /\ request'[r].otp = otp
    /\ request'[r].browser = browser
    /\ request'[r].at = at
    /\ request'[r].token = token
    /\ request'[r].reply = reply

LEMMA GotoEffect ==
  ASSUME TypeOK, NEW r \in Requests, NEW pc \in InFlightAt, Goto(r, pc)
  PROVE  Moved(r, pc, request[r].op, request[r].email, request[r].otp,
               request[r].browser, request[r].at, request[r].token,
               request[r].reply)
<1>1. request[r] \in HandlerStates
  BY DEF TypeOK
<1>2. [request[r] EXCEPT !.pc = pc] \in HandlerStates
  BY <1>1 DEF HandlerStates
<1>. QED  BY <1>1, <1>2 DEF Goto, TypeOK, Moved, HandlerStates

LEMMA FinishEffect ==
  ASSUME TypeOK, NEW r \in Requests, NEW reply \in Replies, Finish(r, reply)
  PROVE  Moved(r, "done", request[r].op, request[r].email, request[r].otp,
               request[r].browser, request[r].at, request[r].token, reply)
<1>1. request[r] \in HandlerStates
  BY DEF TypeOK
<1>2. [request[r] EXCEPT !.pc = "done", !.reply = reply] \in HandlerStates
  BY <1>1 DEF HandlerStates
<1>. QED  BY <1>1, <1>2 DEF Finish, TypeOK, Moved, HandlerStates

LEMMA ReceiveEffect ==
  ASSUME TypeOK, NEW r \in Requests, NEW op \in Ops \ {"none"},
         NEW email \in Emails, NEW otp \in Otps \cup {None},
         NEW browser \in Browsers, Receive(r, op, email, otp, browser)
  PROVE  Moved(r, "validating", op, email, otp, browser, request[r].at,
               request[r].token, request[r].reply)
<1>1. request[r] \in HandlerStates
  BY DEF TypeOK
<1>2. [request[r] EXCEPT !.pc = "validating", !.op = op, !.email = email,
                         !.otp = otp, !.browser = browser] \in HandlerStates
  BY <1>1 DEF HandlerStates, InFlightAt
<1>. QED  BY <1>1, <1>2 DEF Receive, TypeOK, Moved, HandlerStates

LEMMA HashEffect ==
  ASSUME TypeOK, NEW r \in Requests, NEW otp \in Otps, HashOtp(r, otp)
  PROVE  Moved(r, "saving", request[r].op, request[r].email, otp,
               request[r].browser, now, request[r].token, request[r].reply)
<1>1. request[r] \in HandlerStates /\ now \in Nat
  BY DEF TypeOK
<1>2. [request[r] EXCEPT !.pc = "saving", !.otp = otp, !.at = now]
          \in HandlerStates
  BY <1>1 DEF HandlerStates, InFlightAt
<1>. QED  BY <1>1, <1>2 DEF HashOtp, TypeOK, Moved, HandlerStates

(* The attempt r makes at a token, which it may be refused.                *)
LEMMA CountEffect ==
  ASSUME TypeOK, NEW r \in Requests, CountAttempt(r)
  PROVE  \E token \in TokensOf(request[r].email) :
           LET updated == [token EXCEPT !.numOtpAttempts = @ + 1]
               refused == updated.numOtpAttempts > MAX_OTP_ATTEMPTS
           IN  /\ updated \in Tokens
               /\ tokens' = (tokens \ {token}) \cup {updated}
               /\ Moved(r, IF refused THEN "done" ELSE "comparing",
                        request[r].op, request[r].email, request[r].otp,
                        request[r].browser, request[r].at, updated,
                        IF refused THEN "MAX_ATTEMPTS" ELSE request[r].reply)
<1>1. request[r] \in HandlerStates /\ now \in Nat
  BY DEF TypeOK
<1>. PICK token \in TokensOf(request[r].email) :
       LET updated == [token EXCEPT !.numOtpAttempts = @ + 1]
           counted == [request[r] EXCEPT !.token = updated]
       IN  /\ tokens' = (tokens \ {token}) \cup {updated}
           /\ request' = [request EXCEPT ![r] =
                  IF updated.numOtpAttempts > MAX_OTP_ATTEMPTS
                  THEN [counted EXCEPT !.pc = "done", !.reply = "MAX_ATTEMPTS"]
                  ELSE [counted EXCEPT !.pc = "comparing"]]
  BY DEF CountAttempt
<1>. DEFINE updated == [token EXCEPT !.numOtpAttempts = @ + 1]
            refused == updated.numOtpAttempts > MAX_OTP_ATTEMPTS
<1>2. updated \in Tokens
  BY DEF TypeOK, TokensOf, Tokens
<1>3. CASE refused
  <2>. DEFINE h == [request[r] EXCEPT !.token = updated,
                                      !.pc = "done", !.reply = "MAX_ATTEMPTS"]
  <2>1. h \in HandlerStates
    BY <1>1, <1>2 DEF HandlerStates, Replies
  <2>2. request' = [request EXCEPT ![r] = h]
    BY <1>1, <1>3 DEF HandlerStates
  <2>3. /\ h.pc = "done" /\ h.op = request[r].op
        /\ h.email = request[r].email /\ h.otp = request[r].otp
        /\ h.browser = request[r].browser /\ h.at = request[r].at
        /\ h.token = updated /\ h.reply = "MAX_ATTEMPTS"
    BY <1>1 DEF HandlerStates
  <2>. HIDE DEF h, updated
  <2>4. Moved(r, "done", request[r].op, request[r].email, request[r].otp,
              request[r].browser, request[r].at, updated, "MAX_ATTEMPTS")
    BY <2>1, <2>2, <2>3 DEF TypeOK, Moved
  <2>. QED  BY <1>2, <1>3, <2>4 DEF updated
<1>4. CASE ~refused
  <2>. DEFINE h == [request[r] EXCEPT !.token = updated,
                                      !.pc = "comparing"]
  <2>1. h \in HandlerStates
    BY <1>1, <1>2 DEF HandlerStates, InFlightAt
  <2>2. request' = [request EXCEPT ![r] = h]
    BY <1>1, <1>4 DEF HandlerStates
  <2>3. /\ h.pc = "comparing" /\ h.op = request[r].op
        /\ h.email = request[r].email /\ h.otp = request[r].otp
        /\ h.browser = request[r].browser /\ h.at = request[r].at
        /\ h.token = updated /\ h.reply = request[r].reply
    BY <1>1 DEF HandlerStates
  <2>. HIDE DEF h, updated
  <2>4. Moved(r, "comparing", request[r].op, request[r].email, request[r].otp,
              request[r].browser, request[r].at, updated, request[r].reply)
    BY <2>1, <2>2, <2>3 DEF TypeOK, Moved
  <2>. QED  BY <1>2, <1>4, <2>4 DEF updated
<1>. QED  BY <1>3, <1>4

(***************************************************************************)
(* Types, and what the pcs say of the handlers.                            *)
(***************************************************************************)

(* A step of r that leaves its new state in order leaves all in order.     *)
LEMMA OthersInOrder ==
  ASSUME HandlersOK, NEW r \in Requests,
         \A v \in Requests \ {r} : request'[v] = request[v],
         users \subseteq users', HandlerOK(r)'
  PROVE  HandlersOK'
<1>1. ASSUME NEW v \in Requests \ {r}
      PROVE  HandlerOK(v)'
  <2>1. request'[v] = request[v] /\ HandlerOK(v)
    BY DEF HandlersOK
  <2>. QED  BY <2>1 DEF HandlerOK, InFlight
<1>. QED  BY <1>1 DEF HandlersOK

LEMMA RecordType ==
  ASSUME TypeOK, HandlersOK, NEW r \in Requests, NEW id \in Requests,
         request[r].pc \in {"saving", "inserting"}
  PROVE  Record(r, id) \in Tokens
<1>1. /\ request[r].email \in Emails
      /\ request[r].otp \in Otps
      /\ request[r].at \in Nat
  BY DEF HandlersOK, HandlerOK, InFlight, InFlightAt
<1>. QED  BY <1>1, LoginAssumption DEF Record, Tokens, Hash, Hashes

LEMMA StartInOrder ==
  ASSUME TypeOK, HandlersOK, NEW r \in Requests, Start(r)
  PROVE  TypeOK' /\ HandlersOK'
<1>. PICK op \in Ops \ {"none"}, email \in Emails, otp \in Otps \cup {None},
          b \in Browsers : Receive(r, op, email, otp, b)
  BY DEF Start, Ops
<1>1. Moved(r, "validating", op, email, otp, b, request[r].at,
            request[r].token, request[r].reply)
  BY ReceiveEffect
<1>2. request[r].pc = "new" /\ HandlerOK(r)
  BY DEF Receive, HandlersOK
<1>3. HandlerOK(r)'
  BY <1>1, <1>2, NullAssumption
  DEF HandlerOK, InFlight, InFlightAt, Moved, Replies
<1>4. HandlersOK'
  BY <1>1, <1>3, OthersInOrder DEF Moved, Receive
<1>5. TypeOK'
  BY <1>1 DEF TypeOK, Moved, Receive
<1>. QED  BY <1>4, <1>5

LEMMA ContinueInOrder ==
  ASSUME TypeOK, HandlersOK, NEW r \in Requests, Continue(r)
  PROVE  TypeOK' /\ HandlersOK'
<1>. USE DEF HandlerOK, InFlight, InFlightAt, Replies
<1>0. HandlerOK(r)
  BY DEF HandlersOK
<1>1. CASE RejectDomain(r)
  <2>1. Moved(r, "done", request[r].op, request[r].email, request[r].otp,
              request[r].browser, request[r].at, request[r].token,
              "NOT_WHITELISTED")
    BY <1>1, FinishEffect DEF RejectDomain
  <2>2. HandlerOK(r)'
    BY <1>0, <1>1, <2>1 DEF RejectDomain, Moved
  <2>. QED  BY <1>1, <2>1, <2>2, OthersInOrder DEF RejectDomain, Moved, TypeOK
<1>2. CASE AcceptDomain(r)
  <2>1. CASE request[r].op = "checkuser" /\ Finish(r, "OK")
    <3>1. Moved(r, "done", request[r].op, request[r].email, request[r].otp,
                request[r].browser, request[r].at, request[r].token, "OK")
      BY <2>1, FinishEffect
    <3>2. HandlerOK(r)'
      BY <1>0, <1>2, <2>1, <3>1 DEF AcceptDomain, Moved
    <3>. QED  BY <1>2, <3>1, <3>2, OthersInOrder DEF AcceptDomain, Moved, TypeOK
  <2>2. CASE request[r].op = "sendotp" /\ Goto(r, "hashing")
    <3>1. Moved(r, "hashing", request[r].op, request[r].email, request[r].otp,
                request[r].browser, request[r].at, request[r].token,
                request[r].reply)
      BY <2>2, GotoEffect
    <3>2. HandlerOK(r)'
      BY <1>0, <1>2, <2>2, <3>1 DEF AcceptDomain, Moved
    <3>. QED  BY <1>2, <3>1, <3>2, OthersInOrder DEF AcceptDomain, Moved, TypeOK
  <2>3. CASE request[r].op = "verifyotp" /\ Goto(r, "counting")
    <3>1. Moved(r, "counting", request[r].op, request[r].email, request[r].otp,
                request[r].browser, request[r].at, request[r].token,
                request[r].reply)
      BY <2>3, GotoEffect
    <3>2. HandlerOK(r)'
      BY <1>0, <1>2, <2>3, <3>1 DEF AcceptDomain, Moved
    <3>. QED  BY <1>2, <3>1, <3>2, OthersInOrder DEF AcceptDomain, Moved, TypeOK
  <2>. QED  BY <1>2, <2>1, <2>2, <2>3 DEF AcceptDomain
<1>3. ASSUME NEW otp \in Otps, HashOtp(r, otp)
      PROVE  TypeOK' /\ HandlersOK'
  <2>1. Moved(r, "saving", request[r].op, request[r].email, otp,
              request[r].browser, now, request[r].token, request[r].reply)
    BY <1>3, HashEffect
  <2>2. HandlerOK(r)'
    BY <1>0, <1>3, <2>1 DEF HashOtp, Moved, TypeOK
  <2>. QED  BY <1>3, <2>1, <2>2, OthersInOrder DEF HashOtp, Moved, TypeOK
<1>4. CASE OverwriteToken(r) \/ InsertToken(r)
  <2>1. Moved(r, "sending", request[r].op, request[r].email, request[r].otp,
              request[r].browser, request[r].at, request[r].token,
              request[r].reply)
    BY <1>4, GotoEffect DEF OverwriteToken, InsertToken
  <2>2. HandlerOK(r)'
    BY <1>0, <1>4, <2>1 DEF OverwriteToken, InsertToken, Moved
  <2>3. \A id \in Requests : Record(r, id) \in Tokens
    BY <1>4, RecordType DEF OverwriteToken, InsertToken
  <2>4. tokens' \subseteq Tokens
    <3>1. \A token \in tokens : token.id \in Requests
      BY DEF TypeOK, Tokens
    <3>. QED  BY <1>4, <2>3, <3>1
              DEF OverwriteToken, InsertToken, TokensOf, TypeOK
  <2>. QED  BY <1>4, <2>1, <2>2, <2>4, OthersInOrder
            DEF OverwriteToken, InsertToken, Moved, TypeOK
<1>5. CASE FindNoToken(r)
  <2>1. Moved(r, "inserting", request[r].op, request[r].email,
              request[r].otp, request[r].browser, request[r].at,
              request[r].token, request[r].reply)
    BY <1>5, GotoEffect DEF FindNoToken
  <2>2. HandlerOK(r)'
    BY <1>0, <1>5, <2>1 DEF FindNoToken, Moved
  <2>. QED  BY <1>5, <2>1, <2>2, OthersInOrder DEF FindNoToken, Moved, TypeOK
<1>6. CASE SendOtp(r) \/ SendOtpFails(r)
  <2>1. PICK reply \in {"OK", "ERROR"} : Finish(r, reply)
    BY <1>6 DEF SendOtp, SendOtpFails
  <2>2. Moved(r, "done", request[r].op, request[r].email, request[r].otp,
              request[r].browser, request[r].at, request[r].token, reply)
    BY <2>1, FinishEffect
  <2>3. HandlerOK(r)'
    BY <1>0, <1>6, <2>2 DEF SendOtp, SendOtpFails, Moved
  <2>4. OtpMail(r) \in [to : Emails, otp : Otps]
    BY <1>0, <1>6 DEF SendOtp, SendOtpFails, OtpMail
  <2>. QED  BY <1>6, <2>2, <2>3, <2>4, OthersInOrder
            DEF SendOtp, SendOtpFails, Moved, TypeOK
<1>7. CASE FindNothingToVerify(r)
  <2>1. Moved(r, "done", request[r].op, request[r].email, request[r].otp,
              request[r].browser, request[r].at, request[r].token, "EXPIRED")
    BY <1>7, FinishEffect DEF FindNothingToVerify
  <2>2. HandlerOK(r)'
    BY <1>0, <1>7, <2>1 DEF FindNothingToVerify, Moved
  <2>. QED  BY <1>7, <2>1, <2>2, OthersInOrder
            DEF FindNothingToVerify, Moved, TypeOK
<1>8. CASE CountAttempt(r)
  <2>1. PICK token \in TokensOf(request[r].email), updated \in Tokens,
             refused \in BOOLEAN :
          /\ tokens' = (tokens \ {token}) \cup {updated}
          /\ Moved(r, IF refused THEN "done" ELSE "comparing",
                   request[r].op, request[r].email, request[r].otp,
                   request[r].browser, request[r].at, updated,
                   IF refused THEN "MAX_ATTEMPTS" ELSE request[r].reply)
    BY <1>8, CountEffect
  <2>2. request[r].pc = "counting" /\ UNCHANGED <<now, users, sessions, sent>>
    BY <1>8 DEF CountAttempt
  <2>3. HandlerOK(r)'
    <3>1. CASE refused
      BY <1>0, <2>1, <2>2, <3>1 DEF Moved
    <3>2. CASE ~refused
      BY <1>0, <2>1, <2>2, <3>2, NullAssumption DEF Moved
    <3>. QED  BY <3>1, <3>2
  <2>. QED  BY <2>1, <2>2, <2>3, OthersInOrder DEF Moved, TypeOK
<1>9. CASE CompareOtp(r)
  <2>1. CASE Matches(request[r].otp, request[r].token.hashedOtp)
    <3>1. Moved(r, "removing", request[r].op, request[r].email,
                request[r].otp, request[r].browser, request[r].at,
                request[r].token, request[r].reply)
      BY <1>9, <2>1, GotoEffect DEF CompareOtp
    <3>2. HandlerOK(r)'
      BY <1>0, <1>9, <2>1, <3>1 DEF CompareOtp, Moved, Matches
    <3>. QED  BY <1>9, <3>1, <3>2, OthersInOrder DEF CompareOtp, Moved, TypeOK
  <2>2. CASE ~Matches(request[r].otp, request[r].token.hashedOtp)
    <3>1. Moved(r, "done", request[r].op, request[r].email, request[r].otp,
                request[r].browser, request[r].at, request[r].token,
                "INVALID")
      BY <1>9, <2>2, FinishEffect DEF CompareOtp
    <3>2. HandlerOK(r)'
      BY <1>0, <1>9, <3>1 DEF CompareOtp, Moved
    <3>. QED  BY <1>9, <3>1, <3>2, OthersInOrder DEF CompareOtp, Moved, TypeOK
  <2>. QED  BY <2>1, <2>2
<1>10. CASE RemoveToken(r)
  <2>1. Moved(r, "signing", request[r].op, request[r].email, request[r].otp,
              request[r].browser, request[r].at, request[r].token,
              request[r].reply)
    BY <1>10, GotoEffect DEF RemoveToken
  <2>2. HandlerOK(r)'
    BY <1>0, <1>10, <2>1 DEF RemoveToken, Moved
  <2>. QED  BY <1>10, <2>1, <2>2, OthersInOrder DEF RemoveToken, Moved, TypeOK
<1>11. CASE SignIn(r)
  <2>1. Moved(r, "done", request[r].op, request[r].email, request[r].otp,
              request[r].browser, request[r].at, request[r].token, "OK")
    BY <1>11, FinishEffect DEF SignIn
  <2>2. HandlerOK(r)'
    BY <1>0, <1>11, <2>1 DEF SignIn, Moved
  <2>3. request[r].email \in Emails /\ request[r].browser \in Browsers
    BY <1>0, <1>11 DEF SignIn
  <2>. QED  BY <1>11, <2>1, <2>2, <2>3, OthersInOrder DEF SignIn, Moved, TypeOK
<1>. QED  BY <1>1, <1>2, <1>3, <1>4, <1>5, <1>6, <1>7, <1>8, <1>9, <1>10,
             <1>11 DEF Continue

LEMMA EnvironmentInOrder ==
  ASSUME TypeOK, HandlersOK, Environment
  PROVE  TypeOK' /\ HandlersOK'
<1>1. ASSUME NEW r \in Requests, Fail(r)
      PROVE  TypeOK' /\ HandlersOK'
  <2>1. Moved(r, "done", request[r].op, request[r].email, request[r].otp,
              request[r].browser, request[r].at, request[r].token, "ERROR")
    BY <1>1, FinishEffect DEF Fail, Replies
  <2>2. HandlerOK(r) /\ InFlight(r)
    BY <1>1 DEF HandlersOK, Fail
  <2>3. HandlerOK(r)'
    BY <1>1, <2>1, <2>2 DEF Fail, Moved, HandlerOK, InFlight, InFlightAt
  <2>. QED  BY <1>1, <2>1, <2>3, OthersInOrder DEF Fail, Moved, TypeOK
<1>2. CASE \E b \in Browsers : SignOut(b)
  BY <1>2 DEF SignOut, TypeOK, HandlersOK, HandlerOK, InFlight
<1>3. CASE \E token \in tokens : ExpireToken(token)
  BY <1>3 DEF ExpireToken, TypeOK, HandlersOK, HandlerOK, InFlight
<1>4. CASE Tick
  BY <1>4 DEF Tick, TypeOK, HandlersOK, HandlerOK, InFlight
<1>. QED  BY <1>1, <1>2, <1>3, <1>4 DEF Environment

(***************************************************************************)
(* What a step leaves alone in any one request.                            *)
(***************************************************************************)

Kept(v) ==
    /\ request[v].pc # "new" =>
          /\ request'[v].op = request[v].op
          /\ request'[v].email = request[v].email
          /\ request'[v].browser = request[v].browser
    /\ request[v].pc \notin {"new", "hashing"} =>
          request'[v].otp = request[v].otp
    /\ request[v].pc = "sending" => request'[v].pc \in {"sending", "done"}
    /\ request[v].pc = "done" => request'[v].pc = "done"
    /\ request[v].reply # None => request'[v].reply = request[v].reply

(* A step that counts no attempt.                                          *)
Uncounted ==
    \A v \in Requests :
        /\ request'[v].token = request[v].token
        /\ request'[v].reply = "MAX_ATTEMPTS"
               <=> request[v].reply = "MAX_ATTEMPTS"

LEMMA MovedKeeps ==
  ASSUME TypeOK, HandlersOK, NEW r \in Requests, request[r].pc # "done",
         NEW pc, NEW otp, NEW at, NEW token, NEW reply,
         Moved(r, pc, request[r].op, request[r].email, otp,
               request[r].browser, at, token, reply),
         request[r].pc # "hashing" => otp = request[r].otp,
         request[r].pc = "sending" => pc \in {"sending", "done"}
  PROVE  \A v \in Requests : Kept(v)
<1>1. request[r].reply = None
  <2>1. request[r].pc = "new" \/ InFlight(r)
    BY DEF TypeOK, HandlerStates, InFlight
  <2>. QED  BY <2>1 DEF HandlersOK, HandlerOK
<1>2. Kept(r)
  BY <1>1 DEF Kept, Moved
<1>3. ASSUME NEW v \in Requests \ {r}
      PROVE  Kept(v)
  BY DEF Kept, Moved
<1>. QED  BY <1>2, <1>3

(* A step that moves r on without counting it.                             *)
LEMMA MovedUncounted ==
  ASSUME TypeOK, HandlersOK, NEW r \in Requests, request[r].pc # "done",
         NEW pc, NEW op, NEW email, NEW otp, NEW browser, NEW at, NEW reply,
         reply # "MAX_ATTEMPTS",
         Moved(r, pc, op, email, otp, browser, at, request[r].token, reply)
  PROVE  Uncounted
<1>1. request[r].reply = None
  <2>1. request[r].pc = "new" \/ InFlight(r)
    BY DEF TypeOK, HandlerStates, InFlight
  <2>. QED  BY <2>1 DEF HandlersOK, HandlerOK
<1>. QED  BY <1>1, NullAssumption DEF Uncounted, Moved, Replies

LEMMA StepKeeps ==
  ASSUME TypeOK, HandlersOK, [Next]_vars
  PROVE  /\ \A v \in Requests : Kept(v)
         /\ Uncounted \/ \E r \in Requests : CountAttempt(r)
<1>. DEFINE Goal == /\ \A v \in Requests : Kept(v)
                    /\ Uncounted \/ \E r \in Requests : CountAttempt(r)
<1>. HIDE DEF Goal
<1>0. None # "MAX_ATTEMPTS"
  BY NullAssumption DEF Replies
<1>1. ASSUME NEW r \in Requests, Start(r)
      PROVE  Goal
  <2>. PICK op \in Ops \ {"none"}, email \in Emails,
            otp \in Otps \cup {None}, b \in Browsers :
         Receive(r, op, email, otp, b)
    BY <1>1 DEF Start, Ops
  <2>1. Moved(r, "validating", op, email, otp, b, request[r].at,
              request[r].token, request[r].reply)
    BY ReceiveEffect
  <2>2. request[r].pc = "new" /\ request[r].reply = None
    BY DEF Receive, HandlersOK, HandlerOK
  <2>3. \A v \in Requests : Kept(v)
    BY <2>1, <2>2 DEF Kept, Moved
  <2>4. Uncounted
    BY <1>0, <2>1, <2>2, MovedUncounted
  <2>. QED  BY <2>3, <2>4 DEF Goal
<1>2. ASSUME NEW r \in Requests, NEW pc \in InFlightAt, Goto(r, pc),
             InFlight(r), request[r].pc = "sending" => pc = "sending"
      PROVE  Goal
  <2>1. Moved(r, pc, request[r].op, request[r].email, request[r].otp,
              request[r].browser, request[r].at, request[r].token,
              request[r].reply)
    BY <1>2, GotoEffect
  <2>2. request[r].pc # "done" /\ request[r].reply = None
    BY <1>2 DEF InFlight, InFlightAt, HandlersOK, HandlerOK
  <2>3. \A v \in Requests : Kept(v)
    BY <1>2, <2>1, <2>2, MovedKeeps
  <2>4. Uncounted
    BY <1>0, <2>1, <2>2, MovedUncounted
  <2>. QED  BY <2>3, <2>4 DEF Goal
<1>3. ASSUME NEW r \in Requests, NEW reply \in Replies \ {"MAX_ATTEMPTS"},
             Finish(r, reply), InFlight(r)
      PROVE  Goal
  <2>1. Moved(r, "done", request[r].op, request[r].email, request[r].otp,
              request[r].browser, request[r].at, request[r].token, reply)
    BY <1>3, FinishEffect
  <2>2. request[r].pc # "done"
    BY <1>3 DEF InFlight, InFlightAt
  <2>3. \A v \in Requests : Kept(v)
    BY <1>3, <2>1, <2>2, MovedKeeps
  <2>4. Uncounted
    BY <1>3, <2>1, <2>2, MovedUncounted
  <2>. QED  BY <2>3, <2>4 DEF Goal
<1>4. ASSUME NEW r \in Requests, NEW otp \in Otps, HashOtp(r, otp)
      PROVE  Goal
  <2>1. Moved(r, "saving", request[r].op, request[r].email, otp,
              request[r].browser, now, request[r].token, request[r].reply)
    BY <1>4, HashEffect
  <2>2. request[r].pc = "hashing" /\ request[r].reply = None
    BY <1>4 DEF HashOtp, HandlersOK, HandlerOK, InFlight, InFlightAt
  <2>3. \A v \in Requests : Kept(v)
    BY <2>1, <2>2, MovedKeeps
  <2>4. Uncounted
    BY <1>0, <2>1, <2>2, MovedUncounted
  <2>. QED  BY <2>3, <2>4 DEF Goal
<1>5. ASSUME NEW r \in Requests, CountAttempt(r)
      PROVE  Goal
  <2>1. PICK token \in TokensOf(request[r].email), updated \in Tokens,
             refused \in BOOLEAN :
          Moved(r, IF refused THEN "done" ELSE "comparing",
                request[r].op, request[r].email, request[r].otp,
                request[r].browser, request[r].at, updated,
                IF refused THEN "MAX_ATTEMPTS" ELSE request[r].reply)
    BY <1>5, CountEffect
  <2>2. request[r].pc = "counting"
    BY <1>5 DEF CountAttempt
  <2>3. \A v \in Requests : Kept(v)
    BY <2>1, <2>2, MovedKeeps
  <2>. QED  BY <1>5, <2>3 DEF Goal
<1>6. ASSUME UNCHANGED request
      PROVE  Goal
  BY <1>6 DEF Goal, Kept, Uncounted
<1>7. ASSUME NEW r \in Requests, Continue(r)
      PROVE  Goal
  <2>. USE DEF InFlight, InFlightAt, Replies
  <2>1. CASE RejectDomain(r)
    BY <1>3, <2>1 DEF RejectDomain
  <2>2. CASE AcceptDomain(r)
    BY <1>2, <1>3, <2>2 DEF AcceptDomain
  <2>3. CASE \E otp \in Otps : HashOtp(r, otp)
    BY <1>4, <2>3
  <2>4. CASE OverwriteToken(r) \/ FindNoToken(r) \/ InsertToken(r)
    BY <1>2, <2>4 DEF OverwriteToken, FindNoToken, InsertToken
  <2>5. CASE SendOtp(r) \/ SendOtpFails(r)
    BY <1>3, <2>5 DEF SendOtp, SendOtpFails
  <2>6. CASE FindNothingToVerify(r)
    BY <1>3, <2>6 DEF FindNothingToVerify
  <2>7. CASE CountAttempt(r)
    BY <1>5, <2>7
  <2>8. CASE CompareOtp(r)
    BY <1>2, <1>3, <2>8 DEF CompareOtp
  <2>9. CASE RemoveToken(r)
    BY <1>2, <2>9 DEF RemoveToken
  <2>10. CASE SignIn(r)
    BY <1>3, <2>10 DEF SignIn
  <2>. QED  BY <1>7, <2>1, <2>2, <2>3, <2>4, <2>5, <2>6, <2>7, <2>8, <2>9,
               <2>10 DEF Continue
<1>8. ASSUME Environment
      PROVE  Goal
  <2>1. ASSUME NEW r \in Requests, Fail(r)
        PROVE  Goal
    BY <1>3, <2>1 DEF Fail, Replies
  <2>2. CASE UNCHANGED request
    BY <1>6, <2>2
  <2>3. UNCHANGED request \/ \E r \in Requests : Fail(r)
    BY <1>8 DEF Environment, SignOut, ExpireToken, Tick
  <2>. QED  BY <2>1, <2>2, <2>3
<1>9. ASSUME UNCHANGED vars
      PROVE  Goal
  <2>1. UNCHANGED request
    BY <1>9 DEF vars
  <2>. QED  BY <1>6, <2>1
<1>10. Goal
  <2>1. CASE \E r \in Requests : Start(r) \/ Continue(r)
    BY <1>1, <1>7, <2>1
  <2>2. CASE Environment
    BY <1>8, <2>2
  <2>. QED  BY <1>9, <2>1, <2>2 DEF Next
<1>. QED  BY <1>10 DEF Goal

(***************************************************************************)
(* OTPs that were issued stay issued, and the counters stay exact.         *)
(***************************************************************************)

LEMMA IssuedStays ==
  ASSUME \A v \in Requests : Kept(v),
         NEW hash \in Hashes, NEW email, Issued(hash, email)
  PROVE  Issued(hash, email)'
<1>1. hash.salt \in Requests
  BY DEF Hashes
<1>. QED  BY <1>1 DEF Kept, Issued

LEMMA CountedKept ==
  ASSUME Uncounted
  PROVE  \A hash : Counted(hash)' = Counted(hash)
                   /\ Compared(hash)' = Compared(hash)
BY DEF Uncounted, Counted, Compared

LEMMA CountedFinite ==
  ASSUME NEW hash
  PROVE  /\ IsFiniteSet(Counted(hash)) /\ Cardinality(Counted(hash)) \in Nat
         /\ IsFiniteSet(Compared(hash)) /\ Cardinality(Compared(hash)) \in Nat
         /\ Cardinality(Compared(hash)) <= Cardinality(Counted(hash))
<1>1. Counted(hash) \in SUBSET Requests
  BY DEF Counted
<1>2. IsFiniteSet(Counted(hash))
  BY <1>1, FS_Subset, LoginAssumption
<1>3. Compared(hash) \in SUBSET Counted(hash)
  BY DEF Compared
<1>. QED  BY <1>2, <1>3, FS_Subset, FS_CardinalityType

Counts ==
    /\ TokensIssued
    /\ SnapshotsIssued
    /\ OneTokenPerHash
    /\ CountsExact
    /\ WithinMax
    /\ RefusedOnlyAfterMax

(* Requests that have a snapshot are past their start.                     *)
LEMMA SnapshotFacts ==
  ASSUME TypeOK, HandlersOK, NEW v \in Requests, request[v].token # None
  PROVE  /\ request[v].pc # "new"
         /\ request[v].token \in Tokens
         /\ request[v].token.hashedOtp \in Hashes
<1>1. request[v].pc # "new"
  BY DEF HandlersOK, HandlerOK
<1>2. request[v].token \in Tokens
  BY DEF TypeOK, HandlerStates
<1>. QED  BY <1>1, <1>2 DEF Tokens

(* Steps that count nothing keep what the snapshots say.                   *)
LEMMA UncountedSnapshots ==
  ASSUME TypeOK, HandlersOK, Counts, \A v \in Requests : Kept(v), Uncounted
  PROVE  SnapshotsIssued' /\ WithinMax' /\ RefusedOnlyAfterMax'
<1>1. SnapshotsIssued'
  <2>1. SUFFICES ASSUME NEW v \in Requests, request'[v].token # None
                 PROVE  Issued(request[v].token.hashedOtp, request[v].email)'
    BY DEF SnapshotsIssued
  <2>2. request'[v].token = request[v].token
    BY DEF Uncounted
  <2>3. /\ request[v].pc # "new"
        /\ request[v].token.hashedOtp \in Hashes
    BY <2>1, <2>2, SnapshotFacts
  <2>4. request'[v].email = request[v].email
    BY <2>3 DEF Kept
  <2>5. Issued(request[v].token.hashedOtp, request[v].email)
    BY <2>1, <2>2 DEF Counts, SnapshotsIssued
  <2>6. PICK h, e : h = request[v].token.hashedOtp /\ e = request[v].email
    OBVIOUS
  <2>7. Issued(h, e)'
    BY <2>3, <2>5, <2>6, IssuedStays
  <2>8. h = request'[v].token.hashedOtp /\ e = request'[v].email
    BY <2>2, <2>4, <2>6
  <2>. QED  BY <2>7, <2>8
<1>2. WithinMax'
  BY CountedKept DEF Counts, WithinMax
<1>3. RefusedOnlyAfterMax'
  BY CountedKept DEF Counts, RefusedOnlyAfterMax, Uncounted
<1>. QED  BY <1>1, <1>2, <1>3

LEMMA QuietCounts ==
  ASSUME TypeOK, HandlersOK, Counts, \A v \in Requests : Kept(v), Uncounted,
         tokens' \subseteq tokens
  PROVE  Counts'
<1>1. SnapshotsIssued' /\ WithinMax' /\ RefusedOnlyAfterMax'
  BY UncountedSnapshots
<1>2. TokensIssued'
  <2>1. \A token \in tokens : token.hashedOtp \in Hashes
    BY DEF TypeOK, Tokens
  <2>2. SUFFICES ASSUME NEW token \in tokens
                 PROVE  Issued(token.hashedOtp, token.email)'
    BY DEF TokensIssued
  <2>. QED  BY <2>1, IssuedStays DEF Counts, TokensIssued
<1>3. OneTokenPerHash'
  BY DEF Counts, OneTokenPerHash
<1>4. CountsExact'
  BY CountedKept DEF Counts, CountsExact
<1>. QED  BY <1>1, <1>2, <1>3, <1>4 DEF Counts

(* A token with a hash nobody has counted an attempt at.                   *)
LEMMA StoredCounts ==
  ASSUME TypeOK, HandlersOK, Counts, \A v \in Requests : Kept(v),
         NEW r \in Requests, OverwriteToken(r) \/ InsertToken(r)
  PROVE  Counts'
<1>1. request[r].pc \in {"saving", "inserting"}
  BY DEF OverwriteToken, InsertToken
<1>2. /\ request[r].op = "sendotp"
      /\ request[r].otp \in Otps
      /\ request[r].email \in Emails
      /\ request[r].reply = None
  BY <1>1 DEF HandlersOK, HandlerOK, InFlight, InFlightAt
<1>3. Moved(r, "sending", request[r].op, request[r].email, request[r].otp,
            request[r].browser, request[r].at, request[r].token,
            request[r].reply)
  BY GotoEffect DEF OverwriteToken, InsertToken, InFlightAt
<1>4. Uncounted
  BY <1>1, <1>2, <1>3, MovedUncounted, NullAssumption DEF Replies
<1>5. PICK id \in Requests, old \in SUBSET tokens :
        tokens' = (tokens \ old) \cup {Record(r, id)}
  <2>1. \A token \in tokens : token.id \in Requests
    BY DEF TypeOK, Tokens
  <2>2. CASE OverwriteToken(r)
    BY <2>1, <2>2 DEF OverwriteToken, TokensOf
  <2>3. CASE InsertToken(r)
    <3>1. tokens' = (tokens \ {}) \cup {Record(r, r)}
      BY <2>3 DEF InsertToken
    <3>. QED  BY <3>1
  <2>. QED  BY <2>2, <2>3
<1>6. /\ Record(r, id).hashedOtp = Hash(r)
      /\ Record(r, id).email = request[r].email
      /\ Record(r, id).numOtpAttempts = 0
      /\ Hash(r).salt = r
      /\ Hash(r).otp = request[r].otp
  BY DEF Record, Hash
<1>7. \A token \in tokens : /\ token.hashedOtp \in Hashes
                            /\ token.hashedOtp.salt # r
  BY <1>1 DEF TypeOK, Tokens, Counts, TokensIssued, Issued
<1>8. Counted(Hash(r)) = {}
  BY <1>1, <1>6 DEF Counts, SnapshotsIssued, Issued, Counted
<1>9. SnapshotsIssued' /\ WithinMax' /\ RefusedOnlyAfterMax'
  BY <1>4, UncountedSnapshots
<1>10. TokensIssued'
  <2>1. SUFFICES ASSUME NEW token \in tokens'
                 PROVE  Issued(token.hashedOtp, token.email)'
    BY DEF TokensIssued
  <2>2. CASE token \in tokens
    BY <1>7, <2>2, IssuedStays DEF Counts, TokensIssued
  <2>3. CASE token = Record(r, id)
    BY <1>2, <1>3, <1>6, <2>3 DEF Issued, Moved
  <2>. QED  BY <1>5, <2>1, <2>2, <2>3
<1>11. OneTokenPerHash'
  BY <1>5, <1>6, <1>7 DEF Counts, OneTokenPerHash
<1>12. CountsExact'
  <2>1. SUFFICES ASSUME NEW token \in tokens'
                 PROVE  Cardinality(Counted(token.hashedOtp)')
                            = token.numOtpAttempts
    BY DEF CountsExact
  <2>2. Cardinality(Counted(token.hashedOtp)) = token.numOtpAttempts
    BY <1>5, <1>6, <1>8, FS_EmptySet DEF Counts, CountsExact
  <2>. QED  BY <1>4, <2>2, CountedKept
<1>. QED  BY <1>9, <1>10, <1>11, <1>12 DEF Counts

(* The counter of the token goes up by one, and so does the number of      *)
(* requests counted; the limit is tested on the new value.                 *)
LEMMA AttemptCounts ==
  ASSUME TypeOK, HandlersOK, Counts, \A v \in Requests : Kept(v),
         NEW r \in Requests, CountAttempt(r)
  PROVE  Counts'
<1>0. None # "MAX_ATTEMPTS"
  BY NullAssumption DEF Replies
<1>1. request[r].pc = "counting" /\ request[r].op = "verifyotp"
  BY DEF CountAttempt, HandlersOK, HandlerOK
<1>2. /\ request[r].token = None
      /\ request[r].reply = None
  BY <1>1 DEF HandlersOK, HandlerOK, InFlight, InFlightAt
<1>3. PICK token \in TokensOf(request[r].email), updated \in Tokens,
           refused \in BOOLEAN :
        /\ updated = [token EXCEPT !.numOtpAttempts = @ + 1]
        /\ refused <=> updated.numOtpAttempts > MAX_OTP_ATTEMPTS
        /\ tokens' = (tokens \ {token}) \cup {updated}
        /\ Moved(r, IF refused THEN "done" ELSE "comparing",
                 request[r].op, request[r].email, request[r].otp,
                 request[r].browser, request[r].at, updated,
                 IF refused THEN "MAX_ATTEMPTS" ELSE request[r].reply)
  BY CountEffect
<1>4. token \in tokens /\ token \in Tokens /\ token.email = request[r].email
  BY DEF TokensOf, TypeOK
<1>5. /\ updated.hashedOtp = token.hashedOtp
      /\ updated.email = token.email
      /\ updated.numOtpAttempts = token.numOtpAttempts + 1
      /\ token.numOtpAttempts \in Nat
      /\ token.hashedOtp \in Hashes
      /\ updated # None
  BY <1>3, <1>4, NullAssumption DEF Tokens
<1>. DEFINE hash == token.hashedOtp
<1>6. /\ tokens' = (tokens \ {token}) \cup {updated}
      /\ request'[r].token = updated
      /\ request'[r].reply = IF refused THEN "MAX_ATTEMPTS" ELSE None
      /\ request'[r].email = request[r].email
      /\ \A v \in Requests \ {r} : request'[v] = request[v]
  BY <1>2, <1>3 DEF Moved
<1>7. \A h : h # hash => /\ Counted(h)' = Counted(h)
                        /\ Compared(h)' = Compared(h)
  BY <1>2, <1>5, <1>6 DEF Counted, Compared
<1>8. Counted(hash)' = Counted(hash) \cup {r} /\ r \notin Counted(hash)
  BY <1>2, <1>5, <1>6 DEF Counted
<1>9. Cardinality(Counted(hash)) = token.numOtpAttempts
  BY <1>4 DEF Counts, CountsExact
<1>10. Cardinality(Counted(hash)') = token.numOtpAttempts + 1
  BY <1>8, <1>9, CountedFinite, FS_AddElement
<1>11. SnapshotsIssued'
  <2>1. Issued(hash, token.email)'
    BY <1>4, <1>5, IssuedStays DEF Counts, TokensIssued
  <2>2. SUFFICES ASSUME NEW v \in Requests, request'[v].token # None
                 PROVE  Issued(request[v].token.hashedOtp, request[v].email)'
    BY DEF SnapshotsIssued
  <2>3. CASE v = r
    BY <1>4, <1>5, <1>6, <2>1, <2>3 DEF Issued
  <2>4. CASE v # r
    <3>1. request'[v] = request[v]
      BY <1>6, <2>4
    <3>2. /\ request[v].token.hashedOtp \in Hashes
          /\ Issued(request[v].token.hashedOtp, request[v].email)
      BY <2>2, <3>1, SnapshotFacts DEF Counts, SnapshotsIssued
    <3>. QED  BY <3>1, <3>2, IssuedStays DEF Issued
  <2>. QED  BY <2>3, <2>4
<1>12. TokensIssued'
  <2>1. SUFFICES ASSUME NEW t \in tokens'
                 PROVE  Issued(t.hashedOtp, t.email)'
    BY DEF TokensIssued
  <2>2. PICK old \in tokens : old.hashedOtp = t.hashedOtp /\ old.email = t.email
    BY <1>4, <1>5, <1>6
  <2>3. old.hashedOtp \in Hashes /\ Issued(old.hashedOtp, old.email)
    BY DEF TypeOK, Tokens, Counts, TokensIssued
  <2>4. Issued(old.hashedOtp, old.email)'
    BY <2>3, IssuedStays
  <2>. QED  BY <2>2, <2>4
<1>13. OneTokenPerHash'
  <2>1. SUFFICES ASSUME NEW t1 \in tokens', NEW t2 \in tokens',
                        t1.hashedOtp.salt = t2.hashedOtp.salt
                 PROVE  t1 = t2
    BY DEF OneTokenPerHash
  <2>2. \A t \in tokens : t.hashedOtp.salt = hash.salt => t = token
    BY <1>4 DEF Counts, OneTokenPerHash
  <2>. QED  BY <1>5, <1>6, <2>1, <2>2 DEF Counts, OneTokenPerHash
<1>14. CountsExact'
  <2>1. ASSUME NEW t \in tokens \ {token}
        PROVE  Cardinality(Counted(t.hashedOtp)') = t.numOtpAttempts
    <3>1. t.hashedOtp # hash
      BY <1>4, <2>1 DEF Counts, OneTokenPerHash
    <3>. QED  BY <1>7, <3>1 DEF Counts, CountsExact
  <2>. QED  BY <1>3, <1>5, <1>10, <2>1 DEF CountsExact
<1>15. WithinMax'
  <2>1. Cardinality(Compared(hash)') <= MAX_OTP_ATTEMPTS
    <3>1. CASE refused
      <4>1. Compared(hash)' = Compared(hash)
        <5>1. Counted(hash) \subseteq Requests \ {r}
          BY <1>8 DEF Counted
        <5>2. request'[r].reply = "MAX_ATTEMPTS"
          BY <1>6, <3>1
        <5>. QED  BY <1>6, <1>8, <5>1, <5>2 DEF Compared
      <4>. QED  BY <1>5, <4>1 DEF Counts, WithinMax
    <3>2. CASE ~refused
      <4>1. Cardinality(Counted(hash)') <= MAX_OTP_ATTEMPTS
        BY <1>3, <1>5, <1>10, <3>2, LoginAssumption
      <4>2. Compared(hash)' \subseteq Counted(hash)'
        BY DEF Compared
      <4>3. IsFiniteSet(Counted(hash)')
        BY <1>8, CountedFinite, FS_AddElement
      <4>4. /\ Cardinality(Compared(hash)') <= Cardinality(Counted(hash)')
            /\ Cardinality(Compared(hash)') \in Nat
            /\ Cardinality(Counted(hash)') \in Nat
        BY <4>2, <4>3, FS_Subset, FS_CardinalityType
      <4>. QED  BY <4>1, <4>4, LoginAssumption
    <3>. QED  BY <3>1, <3>2
  <2>2. ASSUME NEW h \in Hashes, h # hash
        PROVE  Cardinality(Compared(h)') <= MAX_OTP_ATTEMPTS
    BY <1>7, <2>2 DEF Counts, WithinMax
  <2>. QED  BY <2>1, <2>2 DEF WithinMax
<1>16. RefusedOnlyAfterMax'
  <2>1. ASSUME NEW v \in Requests, request'[v].reply = "MAX_ATTEMPTS"
        PROVE  Cardinality(Counted(request[v].token.hashedOtp))'
                   > MAX_OTP_ATTEMPTS
    <3>1. CASE v = r
      <4>1. Cardinality(Counted(hash)') > MAX_OTP_ATTEMPTS
        BY <1>0, <1>3, <1>5, <1>6, <1>10, <2>1, <3>1
      <4>2. request'[v].token.hashedOtp = hash
        BY <1>5, <1>6, <3>1
      <4>. QED  BY <4>1, <4>2 DEF Counted
    <3>2. CASE v # r
      <4>1. request'[v] = request[v]
        BY <1>6, <3>2
      <4>. DEFINE h == request[v].token.hashedOtp
      <4>2. Cardinality(Counted(h)) > MAX_OTP_ATTEMPTS
        BY <2>1, <4>1 DEF Counts, RefusedOnlyAfterMax
      <4>3. PICK k : k = h
        OBVIOUS
      <4>4. Cardinality(Counted(k)') > MAX_OTP_ATTEMPTS
        BY <1>5, <1>7, <1>9, <1>10, <4>2, <4>3, LoginAssumption
      <4>5. request'[v].token.hashedOtp = k
        BY <4>1, <4>3
      <4>. QED  BY <4>4, <4>5 DEF Counted
    <3>. QED  BY <3>1, <3>2
  <2>. QED  BY <2>1 DEF RefusedOnlyAfterMax
<1>. QED  BY <1>11, <1>12, <1>13, <1>14, <1>15, <1>16 DEF Counts

LEMMA StepCounts ==
  ASSUME TypeOK, HandlersOK, Counts, [Next]_vars
  PROVE  Counts'
<1>1. \A v \in Requests : Kept(v)
  BY StepKeeps
<1>2. CASE \E r \in Requests : CountAttempt(r)
  BY <1>1, <1>2, AttemptCounts
<1>3. CASE \E r \in Requests : OverwriteToken(r) \/ InsertToken(r)
  BY <1>1, <1>3, StoredCounts
<1>4. CASE /\ ~ \E r \in Requests : CountAttempt(r)
           /\ ~ \E r \in Requests : OverwriteToken(r) \/ InsertToken(r)
  <2>1. Uncounted
    BY <1>4, StepKeeps
  <2>2. tokens' \subseteq tokens
    <3>1. CASE \E r \in Requests : Start(r)
      BY <3>1 DEF Start, Receive
    <3>2. CASE \E r \in Requests : Continue(r)
      BY <1>4, <3>2 DEF Continue, RejectDomain, AcceptDomain, HashOtp,
         FindNoToken, SendOtp, SendOtpFails, FindNothingToVerify, CompareOtp,
         RemoveToken, SignIn
    <3>3. CASE Environment
      BY <3>3 DEF Environment, SignOut, Fail, ExpireToken, Tick
    <3>4. CASE UNCHANGED vars
      BY <3>4 DEF vars
    <3>. QED  BY <3>1, <3>2, <3>3, <3>4 DEF Next
  <2>. QED  BY <1>1, <2>1, <2>2, QuietCounts
<1>. QED  BY <1>2, <1>3, <1>4

(***************************************************************************)
(* Sessions, and the theorems.                                             *)
(***************************************************************************)

Opened(b) ==
    \E v \in Requests : /\ request[v].op = "verifyotp"
                        /\ request[v].browser = b
                        /\ request[v].email = sessions[b]
                        /\ request[v].reply = "OK"

LEMMA StepSessions ==
  ASSUME TypeOK, HandlersOK, SessionsOpened, [Next]_vars
  PROVE  SessionsOpened'
<1>0. None # "OK"
  BY NullAssumption DEF Replies
<1>1. \A v \in Requests : Kept(v)
  BY StepKeeps
<1>2. ASSUME NEW b \in Browsers, sessions'[b] = sessions[b], Opened(b)
      PROVE  Opened(b)'
  <2>1. PICK v \in Requests : /\ request[v].op = "verifyotp"
                              /\ request[v].browser = b
                              /\ request[v].email = sessions[b]
                              /\ request[v].reply = "OK"
    BY <1>2 DEF Opened
  <2>2. request[v].pc # "new"
    BY <1>0, <2>1 DEF HandlersOK, HandlerOK
  <2>3. /\ request'[v].op = "verifyotp"
        /\ request'[v].browser = b
        /\ request'[v].email = sessions[b]
        /\ request'[v].reply = "OK"
    BY <1>0, <1>1, <2>1, <2>2 DEF Kept
  <2>. QED  BY <1>2, <2>3 DEF Opened
<1>3. \A b \in Browsers : sessions[b] # None => Opened(b)
  BY DEF SessionsOpened, Opened
<1>4. SUFFICES \A b \in Browsers : sessions'[b] # None => Opened(b)'
  BY DEF SessionsOpened, Opened
<1>5. ASSUME NEW r \in Requests, SignIn(r)
      PROVE  \A b \in Browsers : sessions'[b] # None => Opened(b)'
  <2>1. Moved(r, "done", request[r].op, request[r].email, request[r].otp,
              request[r].browser, request[r].at, request[r].token, "OK")
    BY <1>5, FinishEffect DEF SignIn, Replies
  <2>2. request[r].op = "verifyotp" /\ request[r].browser \in Browsers
    BY <1>5 DEF SignIn, HandlersOK, HandlerOK, InFlight, InFlightAt
  <2>3. /\ sessions'[request[r].browser] = request[r].email
        /\ \A b \in Browsers \ {request[r].browser} :
              sessions'[b] = sessions[b]
    BY <1>5, <2>2 DEF SignIn, TypeOK
  <2>4. ASSUME NEW b \in Browsers, sessions'[b] # None
        PROVE  Opened(b)'
    <3>1. CASE b = request[r].browser
      BY <2>1, <2>2, <2>3, <3>1 DEF Opened, Moved
    <3>2. CASE b # request[r].browser
      BY <1>2, <1>3, <2>3, <2>4, <3>2
    <3>. QED  BY <3>1, <3>2
  <2>. QED  BY <2>4
<1>6. ASSUME NEW c \in Browsers, SignOut(c)
      PROVE  \A b \in Browsers : sessions'[b] # None => Opened(b)'
  <2>1. /\ sessions'[c] = None
        /\ \A b \in Browsers \ {c} : sessions'[b] = sessions[b]
    BY <1>6 DEF SignOut, TypeOK
  <2>. QED  BY <1>2, <1>3, <2>1
<1>7. CASE UNCHANGED sessions
  BY <1>2, <1>3, <1>7
<1>8. \/ UNCHANGED sessions
      \/ \E r \in Requests : SignIn(r)
      \/ \E c \in Browsers : SignOut(c)
  <2>1. CASE \E r \in Requests : Start(r)
    BY <2>1 DEF Start, Receive
  <2>2. CASE \E r \in Requests : Continue(r)
    BY <2>2 DEF Continue, RejectDomain, AcceptDomain, HashOtp, OverwriteToken,
       FindNoToken, InsertToken, SendOtp, SendOtpFails, FindNothingToVerify,
       CountAttempt, CompareOtp, RemoveToken
  <2>3. CASE Environment
    BY <2>3 DEF Environment, Fail, ExpireToken, Tick
  <2>4. CASE UNCHANGED vars
    BY <2>4 DEF vars
  <2>. QED  BY <2>1, <2>2, <2>3, <2>4 DEF Next
<1>. QED  BY <1>5, <1>6, <1>7, <1>8

LEMMA InitInv ==
  Init => IndInv
<1>. SUFFICES ASSUME Init
              PROVE  IndInv
  OBVIOUS
<1>1. NewRequest \in HandlerStates
  BY DEF NewRequest, HandlerStates, Ops
<1>2. \A r \in Requests : request[r] = NewRequest
  BY DEF Init
<1>3. TypeOK
  BY <1>1 DEF Init, TypeOK
<1>4. HandlersOK
  BY <1>2, NullAssumption
  DEF HandlersOK, HandlerOK, NewRequest, InFlight, InFlightAt, Replies
<1>5. \A hash : Counted(hash) = {} /\ Compared(hash) = {}
  BY <1>2 DEF Counted, Compared, NewRequest
<1>6. Counts
  BY <1>2, <1>5, FS_EmptySet, LoginAssumption, NullAssumption
  DEF Counts, Init, TokensIssued, SnapshotsIssued, OneTokenPerHash,
      CountsExact, WithinMax, RefusedOnlyAfterMax, NewRequest, Replies
<1>7. SessionsOpened
  BY DEF Init, SessionsOpened
<1>. QED  BY <1>3, <1>4, <1>6, <1>7 DEF IndInv, Counts

LEMMA NextInv ==
  IndInv /\ [Next]_vars => IndInv'
<1>. SUFFICES ASSUME IndInv, [Next]_vars
              PROVE  IndInv'
  OBVIOUS
<1>1. TypeOK /\ HandlersOK /\ Counts /\ SessionsOpened
  BY DEF IndInv, Counts
<1>2. TypeOK' /\ HandlersOK'
  <2>1. CASE UNCHANGED vars
    BY <1>1, <2>1 DEF vars, TypeOK, HandlersOK, HandlerOK, InFlight
  <2>2. CASE Next
    BY <1>1, <2>2, StartInOrder, ContinueInOrder, EnvironmentInOrder DEF Next
  <2>. QED  BY <2>1, <2>2
<1>3. Counts'
  BY <1>1, StepCounts
<1>4. SessionsOpened'
  BY <1>1, StepSessions
<1>. QED  BY <1>2, <1>3, <1>4 DEF IndInv, Counts

LEMMA Invariance ==
  Spec => []IndInv
BY InitInv, NextInv, PTL DEF Spec

(* Every token, session and handler has its type, whichever handlers run   *)
(* at the same time.                                                       *)
THEOREM LoginTypesHold ==
  Spec => []TypeOK
<1>1. IndInv => TypeOK
  BY DEF IndInv
<1>. QED  BY <1>1, Invariance, PTL

(* No OTP is compared with more than MAX_OTP_ATTEMPTS times, for any number*)
(* of verifyotp requests in any interleaving: the increment and the read   *)
(* of numOtpAttempts are one update.                                       *)
THEOREM ComparisonsBounded ==
  Spec => []ComparisonsWithinMax
<1>1. IndInv => ComparisonsWithinMax
  <2>. SUFFICES ASSUME IndInv, NEW s \in Requests
                PROVE  Cardinality(Compared(Hash(s))) <= MAX_OTP_ATTEMPTS
    BY DEF ComparisonsWithinMax
  <2>1. CASE Hash(s) \in Hashes
    BY <2>1 DEF IndInv, WithinMax
  <2>2. CASE Hash(s) \notin Hashes
    <3>1. TypeOK /\ HandlersOK
      BY DEF IndInv
    <3>2. Compared(Hash(s)) = {}
      BY <2>2, <3>1, SnapshotFacts DEF Compared, Counted
    <3>. QED  BY <3>2, FS_EmptySet, LoginAssumption
  <2>. QED  BY <2>1, <2>2
<1>. QED  BY <1>1, Invariance, PTL

(* A request is refused for too many attempts only when MAX_OTP_ATTEMPTS   *)
(* others were counted against the same OTP.                               *)
THEOREM RefusalsJustified ==
  Spec => []RefusedOnlyAfterMax
<1>1. IndInv => RefusedOnlyAfterMax
  BY DEF IndInv
<1>. QED  BY <1>1, Invariance, PTL

(* The limit on attempts is exact: nobody gets more, nobody fewer.         *)
THEOREM AttemptLimitHolds == Spec => []AttemptLimitExact
<1>1. ComparisonsWithinMax /\ RefusedOnlyAfterMax => AttemptLimitExact
  BY DEF AttemptLimitExact
<1>. QED  BY <1>1, ComparisonsBounded, RefusalsJustified, PTL

(* Every session was opened with an OTP that was generated for the email   *)
(* it belongs to.                                                          *)
THEOREM SessionsProved ==
  Spec => []SessionHadOtp
<1>1. IndInv => SessionHadOtp
  <2>. SUFFICES ASSUME IndInv, NEW b \in Browsers, sessions[b] # None
                PROVE  /\ sessions[b] \in users \cap Whitelisted
                       /\ \E v, s \in Requests :
                             /\ request[v].op = "verifyotp"
                             /\ request[v].browser = b
                             /\ request[v].email = sessions[b]
                             /\ request[v].reply = "OK"
                             /\ request[s].op = "sendotp"
                             /\ request[s].email = sessions[b]
                             /\ request[s].otp = request[v].otp
    BY DEF SessionHadOtp
  <2>1. PICK v \in Requests : /\ request[v].op = "verifyotp"
                              /\ request[v].browser = b
                              /\ request[v].email = sessions[b]
                              /\ request[v].reply = "OK"
    BY DEF IndInv, SessionsOpened
  <2>2. /\ request[v].token \in Tokens
        /\ request[v].otp = request[v].token.hashedOtp.otp
        /\ request[v].email \in users \cap Whitelisted
    BY <2>1 DEF IndInv, HandlersOK, HandlerOK
  <2>. DEFINE s == request[v].token.hashedOtp.salt
  <2>3. s \in Requests
    BY <2>2 DEF Tokens, Hashes
  <2>4. Issued(request[v].token.hashedOtp, request[v].email)
    BY <2>2, NullAssumption DEF IndInv, SnapshotsIssued
  <2>5. /\ request[s].op = "sendotp"
        /\ request[s].email = sessions[b]
        /\ request[s].otp = request[v].otp
    BY <2>1, <2>2, <2>4 DEF Issued
  <2>. QED  BY <2>1, <2>2, <2>3, <2>5
<1>. QED  BY <1>1, Invariance, PTL

(***************************************************************************)
(* Requests of which no two send an OTP to one email at the same time, as  *)
(* those of one page: an OTP that was used is gone.  An email has one token*)
(* at most then, which is the one that a login removes.                    *)
(***************************************************************************)

OneTokenPerEmail ==
    \A t1, t2 \in tokens : t1.email = t2.email => t1 = t2

InsertingFoundNone ==
    \A r \in Requests :
        request[r].pc = "inserting" => TokensOf(request[r].email) = {}

OkIsWhitelisted ==
    \A r \in Requests :
        request[r].reply = "OK" => request[r].email \in Whitelisted

OkIsSent ==
    \A r \in Requests :
        request[r].op = "sendotp" /\ request[r].reply = "OK" =>
            OtpMail(r) \in sent

TokensLast == \A token \in tokens : otpLifeSpan <= token.expireAt

SerialInv ==
    /\ OneSender
    /\ UsedOtpIsGone
    /\ OneTokenPerEmail
    /\ InsertingFoundNone
    /\ OkIsWhitelisted
    /\ OkIsSent
    /\ TokensLast

(* What the server does for a request, and by which of its steps.          *)
Served(r) ==
    /\ InFlight(r)
    /\ \A v \in Requests \ {r} : request'[v] = request[v]
    /\ request'[r].op = request[r].op
    /\ request'[r].email = request[r].email
    /\ request'[r].browser = request[r].browser
    /\ request'[r].pc \in InFlightAt \cup {"done"}
    /\ request'[r].pc \in {"validating", "hashing"} => tokens' = tokens
    /\ request'[r].pc = "inserting" => FindNoToken(r)
    /\ request'[r].pc = "sending" => OverwriteToken(r) \/ InsertToken(r)
    /\ request'[r].pc = "signing" => RemoveToken(r)
    /\ request'[r].reply = "OK" =>
          /\ request[r].email \in Whitelisted
          /\ request[r].op = "sendotp" => SendOtp(r)
          /\ request[r].op = "verifyotp" => SignIn(r)
    /\ request'[r].token = request[r].token \/ CountAttempt(r)
    /\ request'[r].otp = request[r].otp \/ request'[r].pc = "saving"
    /\ sent \subseteq sent'
    /\ now' = now
    /\ sessions' = sessions \/ SignIn(r)
    /\ \/ tokens' = tokens
       \/ OverwriteToken(r) \/ InsertToken(r) \/ CountAttempt(r)
       \/ RemoveToken(r)

LEMMA FinishServes ==
  ASSUME IndInv, NEW r \in Requests, NEW reply \in Replies,
         Finish(r, reply), InFlight(r)
  PROVE  /\ \A v \in Requests \ {r} : request'[v] = request[v]
         /\ request'[r].op = request[r].op
         /\ request'[r].email = request[r].email
         /\ request'[r].browser = request[r].browser
         /\ request'[r].pc = "done"
         /\ request'[r].reply = reply
         /\ request'[r].token = request[r].token
         /\ request'[r].otp = request[r].otp
BY FinishEffect DEF IndInv, Moved

LEMMA GotoServes ==
  ASSUME IndInv, NEW r \in Requests, NEW pc \in InFlightAt, Goto(r, pc),
         InFlight(r)
  PROVE  /\ \A v \in Requests \ {r} : request'[v] = request[v]
         /\ request'[r].op = request[r].op
         /\ request'[r].email = request[r].email
         /\ request'[r].browser = request[r].browser
         /\ request'[r].pc = pc
         /\ request'[r].reply = None
         /\ request'[r].token = request[r].token
         /\ request'[r].otp = request[r].otp
BY GotoEffect DEF IndInv, Moved, HandlersOK, HandlerOK

LEMMA ContinueServes ==
  ASSUME IndInv, NEW r \in Requests, Continue(r) \/ Fail(r)
  PROVE  Served(r)
<1>. USE DEF InFlight, InFlightAt, Replies
<1>0. None # "OK"
  BY NullAssumption
<1>1. CASE RejectDomain(r)
  BY <1>1, FinishServes DEF RejectDomain, Served
<1>2. CASE AcceptDomain(r)
  <2>1. CASE request[r].op = "checkuser" /\ Finish(r, "OK")
    BY <1>2, <2>1, FinishServes DEF AcceptDomain, Served
  <2>2. CASE request[r].op = "sendotp" /\ Goto(r, "hashing")
    BY <1>0, <1>2, <2>2, GotoServes DEF AcceptDomain, Served
  <2>3. CASE request[r].op = "verifyotp" /\ Goto(r, "counting")
    BY <1>0, <1>2, <2>3, GotoServes DEF AcceptDomain, Served
  <2>. QED  BY <1>2, <2>1, <2>2, <2>3 DEF AcceptDomain
<1>3. CASE \E otp \in Otps : HashOtp(r, otp)
  <2>1. PICK otp \in Otps : HashOtp(r, otp)
    BY <1>3
  <2>2. Moved(r, "saving", request[r].op, request[r].email, otp,
              request[r].browser, now, request[r].token, request[r].reply)
    BY <2>1, HashEffect DEF IndInv
  <2>3. request[r].reply = None
    BY <2>1 DEF HashOtp, IndInv, HandlersOK, HandlerOK
  <2>. QED  BY <1>0, <2>1, <2>2, <2>3 DEF HashOtp, Served, Moved
<1>4. CASE OverwriteToken(r)
  BY <1>0, <1>4, GotoServes DEF OverwriteToken, Served
<1>5. CASE FindNoToken(r)
  BY <1>0, <1>5, GotoServes DEF FindNoToken, Served
<1>6. CASE InsertToken(r)
  BY <1>0, <1>6, GotoServes DEF InsertToken, Served
<1>7. CASE SendOtp(r)
  <2>1. request[r].op = "sendotp" /\ request[r].email \in Whitelisted
    BY <1>7 DEF SendOtp, IndInv, HandlersOK, HandlerOK
  <2>. QED  BY <1>7, <2>1, FinishServes DEF SendOtp, Served
<1>8. CASE SendOtpFails(r)
  BY <1>8, FinishServes DEF SendOtpFails, Served
<1>9. CASE FindNothingToVerify(r)
  BY <1>9, FinishServes DEF FindNothingToVerify, Served
<1>10. CASE CountAttempt(r)
  <2>1. PICK updated \in Tokens, refused \in BOOLEAN :
          Moved(r, IF refused THEN "done" ELSE "comparing",
                request[r].op, request[r].email, request[r].otp,
                request[r].browser, request[r].at, updated,
                IF refused THEN "MAX_ATTEMPTS" ELSE request[r].reply)
    BY <1>10, CountEffect DEF IndInv
  <2>2. request[r].pc = "counting" /\ request[r].reply = None
    BY <1>10 DEF CountAttempt, IndInv, HandlersOK, HandlerOK
  <2>3. UNCHANGED <<now, users, sessions, sent>>
    BY <1>10 DEF CountAttempt
  <2>. QED  BY <1>0, <1>10, <2>1, <2>2, <2>3 DEF Served, Moved
<1>11. CASE CompareOtp(r)
  BY <1>0, <1>11, FinishServes, GotoServes DEF CompareOtp, Served
<1>12. CASE RemoveToken(r)
  BY <1>0, <1>12, GotoServes DEF RemoveToken, Served
<1>13. CASE SignIn(r)
  <2>1. request[r].op = "verifyotp" /\ request[r].email \in Whitelisted
    BY <1>13 DEF SignIn, IndInv, HandlersOK, HandlerOK
  <2>. QED  BY <1>13, <2>1, FinishServes DEF SignIn, Served
<1>14. CASE Fail(r)
  BY <1>14, FinishServes DEF Fail, Served
<1>. QED  BY <1>1, <1>2, <1>3, <1>4, <1>5, <1>6, <1>7, <1>8, <1>9, <1>10,
             <1>11, <1>12, <1>13, <1>14 DEF Continue

(* A step that moves no request between its stages of sending and removing,*)
(* and stores no token.                                                    *)
LEMMA SerialQuiet ==
  ASSUME SerialInv, OneSender', tokens' \subseteq tokens, sent \subseteq sent',
         \A v \in Requests :
            \/ request'[v] = request[v]
            \/ request'[v].pc = "validating" /\ request'[v].reply = None
  PROVE  SerialInv'
<1>0. None # "OK"
  BY NullAssumption DEF Replies
<1>1. UsedOtpIsGone'
  BY <1>0 DEF SerialInv, UsedOtpIsGone
<1>2. OneTokenPerEmail' /\ TokensLast'
  BY DEF SerialInv, OneTokenPerEmail, TokensLast
<1>3. InsertingFoundNone'
  BY DEF SerialInv, InsertingFoundNone, TokensOf
<1>4. OkIsWhitelisted'
  BY <1>0 DEF SerialInv, OkIsWhitelisted
<1>5. OkIsSent'
  BY <1>0 DEF SerialInv, OkIsSent, OtpMail
<1>. QED  BY <1>1, <1>2, <1>3, <1>4, <1>5 DEF SerialInv

LEMMA SerialStart ==
  ASSUME IndInv, SerialInv, NEW r \in Requests, Start(r), OneSender'
  PROVE  SerialInv'
<1>. PICK op \in Ops \ {"none"}, email \in Emails, otp \in Otps \cup {None},
          b \in Browsers : Receive(r, op, email, otp, b)
  BY DEF Start, Ops
<1>1. Moved(r, "validating", op, email, otp, b, request[r].at,
            request[r].token, request[r].reply)
  BY ReceiveEffect DEF IndInv
<1>2. request[r].reply = None
  BY DEF Receive, IndInv, HandlersOK, HandlerOK
<1>3. UNCHANGED <<tokens, sent>>
  BY DEF Receive
<1>. QED  BY <1>1, <1>2, <1>3, SerialQuiet DEF Moved

(* The tokens after a step: the email of each had one, or r inserts it.    *)
LEMMA TokensStep ==
  ASSUME IndInv, SerialInv, NEW r \in Requests, Served(r)
  PROVE  /\ \A t \in tokens' :
               \/ \E t0 \in tokens : /\ t0.hashedOtp = t.hashedOtp
                                     /\ t0.email = t.email
                                     /\ t0.expireAt = t.expireAt
               \/ /\ OverwriteToken(r) \/ InsertToken(r)
                  /\ t.hashedOtp = Hash(r) /\ t.email = request[r].email
                  /\ t.expireAt = request[r].at + otpLifeSpan
         /\ OneTokenPerEmail'
<1>0. tokens \subseteq Tokens
  BY DEF IndInv, TypeOK
<1>1. CASE tokens' \subseteq tokens
  BY <1>1 DEF SerialInv, OneTokenPerEmail
<1>2. CASE OverwriteToken(r)
  <2>1. PICK token \in TokensOf(request[r].email) :
          tokens' = (tokens \ {token}) \cup {Record(r, token.id)}
    BY <1>2 DEF OverwriteToken
  <2>2. /\ Record(r, token.id).hashedOtp = Hash(r)
        /\ Record(r, token.id).email = request[r].email
        /\ Record(r, token.id).expireAt = request[r].at + otpLifeSpan
    BY DEF Record
  <2>3. token \in tokens /\ token.email = request[r].email
    BY DEF TokensOf
  <2>. HIDE DEF Record
  <2>4. OneTokenPerEmail'
    BY <2>1, <2>2, <2>3 DEF SerialInv, OneTokenPerEmail
  <2>. QED  BY <1>2, <2>1, <2>2, <2>4
<1>3. CASE InsertToken(r)
  <2>1. /\ tokens' = tokens \cup {Record(r, r)}
        /\ TokensOf(request[r].email) = {}
    BY <1>3 DEF InsertToken, SerialInv, InsertingFoundNone
  <2>2. /\ Record(r, r).hashedOtp = Hash(r)
        /\ Record(r, r).email = request[r].email
        /\ Record(r, r).expireAt = request[r].at + otpLifeSpan
    BY DEF Record
  <2>3. \A t \in tokens : t.email # request[r].email
    BY <2>1 DEF TokensOf
  <2>. HIDE DEF Record
  <2>4. OneTokenPerEmail'
    BY <2>1, <2>2, <2>3 DEF SerialInv, OneTokenPerEmail
  <2>. QED  BY <1>3, <2>1, <2>2, <2>4
<1>4. CASE CountAttempt(r)
  <2>1. PICK token \in TokensOf(request[r].email) :
          tokens' = (tokens \ {token})
                        \cup {[token EXCEPT !.numOtpAttempts = @ + 1]}
    BY <1>4 DEF CountAttempt
  <2>. DEFINE updated == [token EXCEPT !.numOtpAttempts = @ + 1]
  <2>2. token \in tokens /\ token \in Tokens
    BY <1>0 DEF TokensOf
  <2>3. /\ updated.hashedOtp = token.hashedOtp
        /\ updated.email = token.email
        /\ updated.expireAt = token.expireAt
    BY <2>2 DEF Tokens
  <2>4. tokens' = (tokens \ {token}) \cup {updated}
    BY <2>1
  <2>. HIDE DEF updated
  <2>5. OneTokenPerEmail'
    BY <2>2, <2>3, <2>4 DEF SerialInv, OneTokenPerEmail
  <2>. QED  BY <2>2, <2>3, <2>4, <2>5
<1>5. CASE RemoveToken(r)
  <2>1. tokens' \subseteq tokens
    BY <1>5 DEF RemoveToken
  <2>. QED  BY <1>1, <2>1
<1>. QED  BY <1>1, <1>2, <1>3, <1>4, <1>5 DEF Served

LEMMA SenderStays ==
  ASSUME IndInv, OneSender, NEW r \in Requests, Served(r)
  PROVE  OneSender'
<1>1. \A v \in Requests : /\ InFlight(v)' => InFlight(v)
                          /\ request'[v].op = request[v].op
                          /\ request'[v].email = request[v].email
  BY DEF Served, InFlight
<1>. QED  BY <1>1 DEF OneSender

LEMMA InsertingServed ==
  ASSUME IndInv, SerialInv, NEW r \in Requests, Served(r)
  PROVE  InsertingFoundNone'
<1>. SUFFICES ASSUME NEW v \in Requests, request'[v].pc = "inserting",
                     NEW t \in tokens', t.email = request'[v].email
              PROVE  FALSE
  BY DEF InsertingFoundNone, TokensOf
<1>1. CASE v = r
  <2>1. /\ TokensOf(request[r].email) = {} /\ tokens' = tokens
        /\ request'[r].email = request[r].email
    BY <1>1 DEF Served, FindNoToken
  <2>. QED  BY <1>1, <2>1 DEF TokensOf
<1>2. CASE v # r
  <2>1. request'[v] = request[v]
    BY <1>2 DEF Served
  <2>2. TokensOf(request[v].email) = {}
    BY <2>1 DEF SerialInv, InsertingFoundNone
  <2>3. OverwriteToken(r) \/ InsertToken(r)
    BY <2>1, <2>2, TokensStep DEF TokensOf
  <2>4. t.email = request[r].email
    BY <2>1, <2>2, TokensStep DEF TokensOf
  <2>5. /\ InFlight(v) /\ request[v].op = "sendotp"
        /\ InFlight(r) /\ request[r].op = "sendotp"
    BY <2>1, <2>3
    DEF OverwriteToken, InsertToken, IndInv, HandlersOK, HandlerOK, InFlight,
        InFlightAt
  <2>. QED  BY <1>2, <2>1, <2>4, <2>5 DEF SerialInv, OneSender
<1>. QED  BY <1>1, <1>2

(* The hash of a request's snapshot is not that of a request which has yet *)
(* to store its OTP.                                                       *)
LEMMA SnapshotNotFresh ==
  ASSUME IndInv, NEW v \in Requests, request[v].token # None,
         NEW r \in Requests, request[r].pc \in {"saving", "inserting"}
  PROVE  request[v].token.hashedOtp # Hash(r)
<1>1. Issued(request[v].token.hashedOtp, request[v].email)
  BY DEF IndInv, SnapshotsIssued
<1>. QED  BY <1>1 DEF Issued, Hash

(* A request whose login is past the removal.                              *)
PastRemoval(v) ==
    /\ request[v].op = "verifyotp"
    /\ request[v].pc = "signing" \/ request[v].reply = "OK"

LEMMA UsedServed ==
  ASSUME IndInv, SerialInv, NEW r \in Requests, Served(r)
  PROVE  UsedOtpIsGone'
<1>. SUFFICES ASSUME NEW v \in Requests, PastRemoval(v)', NEW t \in tokens',
                     t.hashedOtp = request'[v].token.hashedOtp
              PROVE  FALSE
  BY DEF UsedOtpIsGone, PastRemoval
<1>1. CASE PastRemoval(v) /\ request'[v].token = request[v].token
  <2>1. request[v].token # None
    BY <1>1, NullAssumption
    DEF PastRemoval, IndInv, HandlersOK, HandlerOK
  <2>2. \A t0 \in tokens : t0.hashedOtp # request[v].token.hashedOtp
    BY <1>1 DEF PastRemoval, SerialInv, UsedOtpIsGone
  <2>3. (OverwriteToken(r) \/ InsertToken(r)) /\ t.hashedOtp = Hash(r)
    BY <1>1, <2>2, TokensStep
  <2>4. request[r].pc \in {"saving", "inserting"}
    BY <2>3 DEF OverwriteToken, InsertToken
  <2>. QED  BY <1>1, <2>1, <2>3, <2>4, SnapshotNotFresh
<1>2. CASE v = r /\ RemoveToken(r)
  <2>1. /\ request[r].pc = "removing" /\ request[r].token \in Tokens
        /\ request'[r].token = request[r].token
    BY <1>2 DEF RemoveToken, IndInv, HandlersOK, HandlerOK, Served,
               CountAttempt
  <2>2. request[r].token # None
    BY <2>1, NullAssumption
  <2>3. tokens' \subseteq tokens
    BY <1>2 DEF RemoveToken
  <2>4. /\ Issued(request[r].token.hashedOtp, request[r].email)
        /\ Issued(t.hashedOtp, t.email)
    BY <2>2, <2>3 DEF IndInv, SnapshotsIssued, TokensIssued
  <2>5. t.email = request[r].email
    BY <1>2, <2>1, <2>4 DEF Issued
  <2>6. t \in TokensOf(request[r].email)
    BY <2>3, <2>5 DEF TokensOf
  <2>7. PICK token \in TokensOf(request[r].email) : tokens' = tokens \ {token}
    BY <1>2, <2>6 DEF RemoveToken
  <2>8. t = token
    BY <2>3, <2>5, <2>7 DEF TokensOf, SerialInv, OneTokenPerEmail
  <2>. QED  BY <2>7, <2>8
<1>3. CASE v # r
  <2>1. request'[v] = request[v]
    BY <1>3 DEF Served
  <2>. QED  BY <1>1, <2>1 DEF PastRemoval
<1>4. CASE v = r /\ ~RemoveToken(r)
  <2>1. request[r].op = "verifyotp" /\ SignIn(r)
    BY <1>4 DEF PastRemoval, Served
  <2>2. request[r].pc = "signing" /\ ~CountAttempt(r)
    BY <2>1 DEF SignIn, CountAttempt
  <2>. QED  BY <1>1, <1>4, <2>1, <2>2 DEF PastRemoval, Served
<1>. QED  BY <1>2, <1>3, <1>4

LEMMA SerialServed ==
  ASSUME IndInv, SerialInv, NEW r \in Requests, Served(r)
  PROVE  SerialInv'
<1>1. OneSender'
  BY SenderStays DEF SerialInv
<1>2. UsedOtpIsGone'
  BY UsedServed
<1>3. OneTokenPerEmail' /\ InsertingFoundNone'
  BY TokensStep, InsertingServed
<1>4. OkIsWhitelisted'
  BY DEF SerialInv, OkIsWhitelisted, Served
<1>5. OkIsSent'
  <2>. SUFFICES ASSUME NEW v \in Requests, request'[v].op = "sendotp",
                       request'[v].reply = "OK"
                PROVE  OtpMail(v)' \in sent'
    BY DEF OkIsSent
  <2>1. CASE v = r
    <3>1. request[r].op = "sendotp" /\ SendOtp(r)
      BY <2>1 DEF Served
    <3>2. request'[r].pc = "done"
      BY <3>1, FinishServes DEF SendOtp, Served, Replies
    <3>3. OtpMail(r)' = OtpMail(r)
      BY <3>2 DEF OtpMail, Served
    <3>. QED  BY <2>1, <3>1, <3>3 DEF SendOtp
  <2>2. CASE v # r
    <3>1. request'[v] = request[v] /\ sent \subseteq sent'
      BY <2>2 DEF Served
    <3>2. OtpMail(v) \in sent
      BY <3>1 DEF SerialInv, OkIsSent
    <3>. QED  BY <3>1, <3>2 DEF OtpMail
  <2>. QED  BY <2>1, <2>2
<1>6. TokensLast'
  <2>. SUFFICES ASSUME NEW t \in tokens'
                PROVE  otpLifeSpan <= t.expireAt
    BY DEF TokensLast
  <2>1. CASE \E t0 \in tokens : t0.expireAt = t.expireAt
    BY <2>1 DEF SerialInv, TokensLast
  <2>2. CASE /\ OverwriteToken(r) \/ InsertToken(r)
             /\ t.expireAt = request[r].at + otpLifeSpan
    <3>1. request[r].at \in Nat
      BY <2>2 DEF OverwriteToken, InsertToken, IndInv, HandlersOK, HandlerOK
    <3>. QED  BY <2>2, <3>1, LoginAssumption
  <2>. QED  BY <2>1, <2>2, TokensStep
<1>. QED  BY <1>1, <1>2, <1>3, <1>4, <1>5, <1>6 DEF SerialInv

(* What happens besides the handlers.                                      *)
LEMMA SerialEnvironment ==
  ASSUME SerialInv, UNCHANGED request, tokens' \subseteq tokens,
         sent' = sent
  PROVE  SerialInv'
<1>1. OneSender'
  BY DEF SerialInv, OneSender, InFlight
<1>. QED  BY <1>1, SerialQuiet

LEMMA SerialNext ==
  ASSUME IndInv, SerialInv, [OneSenderNext]_vars
  PROVE  SerialInv'
<1>1. CASE \E r \in Requests : Start(r) /\ OneSender'
  BY <1>1, SerialStart
<1>2. CASE \E r \in Requests : Continue(r) \/ Fail(r)
  BY <1>2, ContinueServes, SerialServed
<1>3. CASE \/ \E b \in Browsers : SignOut(b)
           \/ \E token \in tokens : ExpireToken(token)
           \/ Tick
           \/ UNCHANGED vars
  <2>1. UNCHANGED request /\ tokens' \subseteq tokens /\ sent' = sent
    BY <1>3 DEF SignOut, ExpireToken, Tick, vars
  <2>. QED  BY <2>1, SerialEnvironment
<1>. QED  BY <1>1, <1>2, <1>3 DEF OneSenderNext, Environment

LEMMA SerialInit ==
  ASSUME Init
  PROVE  SerialInv
<1>1. \A r \in Requests : request[r] = NewRequest
  BY DEF Init
<1>. QED
  BY <1>1, NullAssumption
  DEF Init, SerialInv, OneSender, UsedOtpIsGone, OneTokenPerEmail,
      InsertingFoundNone, OkIsWhitelisted, OkIsSent, TokensLast, NewRequest,
      InFlight, InFlightAt, Replies

(***************************************************************************)
(* The login page.  Nothing it awaits is awaited elsewhere, it awaits one  *)
(* answer at a time unless calls overlapped, and with nothing but emails   *)
(* that were edited no handler runs that it does not await, so that the    *)
(* session and the token are as the last answer left them.                 *)
(***************************************************************************)

(* The handler of a call is about the page's browser; one that was answered*)
(* is over, unless the answer was lost.                                    *)
CallsKnown ==
    \A r \in Requests :
        /\ calls[r] = "none" <=> request[r].pc = "new"
        /\ calls[r] # "none" => /\ request[r].email # None
                                /\ request[r].browser = pageBrowser
                                /\ request[r].op # "none"
        /\ calls[r] = "done" => ~InFlight(r) \/ "lost" \in lapses

(* An answer is awaited by the step of the page that asked for it.         *)
WaitingHere ==
    \A r \in Requests : Waiting(r) =>
        /\ state = "signin"
        /\ request[r].op \in {"sendotp", "verifyotp"} =>
              /\ page.signInSteps = "otp"
              /\ page.email = request[r].email
        /\ request[r].op = "checkuser" /\ "retyped" \notin lapses =>
              page.email = request[r].email

OneWaits ==
    "overlap" \notin lapses =>
        \A r, s \in Requests : Waiting(r) /\ Waiting(s) => r = s

Calm == lapses \subseteq {"retyped"}

NothingLeftBehind ==
    Calm => \A r \in Requests :
                calls[r] # "stale" /\ (InFlight(r) => Waiting(r))

(* Between login and redirection nothing is asked, ...                     *)
TimerTells ==
    Calm => /\ timer => \A r \in Requests : ~Waiting(r)
            /\ timer => state = "signin" /\ user # None
            /\ state = "signin" /\ user # None => timer

(* ... and the user is the session's, once the page knows.                 *)
VerifyDone(r) ==
    Waiting(r) /\ request[r].op = "verifyotp" /\ request[r].reply = "OK"

SessionKept ==
    Calm => /\ user # None => sessions[pageBrowser] = user
            /\ \A r \in Requests :
                  VerifyDone(r) => sessions[pageBrowser] = request[r].email
            /\ user = None /\ sessions[pageBrowser] # None =>
                  \E r \in Requests : VerifyDone(r)
            /\ state = "target" => user # None

(* The token of an OTP that is being sent, or was as the page will hear.   *)
TokenStored ==
    lapses = {} /\ now < otpLifeSpan =>
        \A r \in Requests :
            /\ Waiting(r) /\ request[r].op = "sendotp"
            /\ request[r].pc = "sending" \/ request[r].reply = "OK"
            => \E token \in TokensOf(request[r].email) :
                   token.hashedOtp = Hash(r)

UserLoggedIn ==
    user # None =>
        \E r \in Requests :
            /\ request[r].op = "verifyotp" /\ request[r].reply = "OK"
            /\ request[r].email = user /\ request[r].browser = pageBrowser

LoginPageInv ==
    /\ PageTypeOK
    /\ CallsKnown
    /\ WaitingHere
    /\ OneWaits
    /\ NothingLeftBehind
    /\ TimerTells
    /\ SessionKept
    /\ TokenStored
    /\ UserLoggedIn
    /\ BusyWhileWaiting
    /\ OtpForCheckedEmail
    /\ SentOtpIsCurrent

LEMMA PageIsTruthful ==
  ASSUME LoginPageInv
  PROVE  PageTellsTruth
<1>1. RememberedIsLoggedIn
  BY DEF LoginPageInv, UserLoggedIn, SessionKept, Calm, VerifyDone,
         RememberedIsLoggedIn
<1>. QED  BY <1>1 DEF LoginPageInv, PageTellsTruth

(***************************************************************************)
(* What the page shows after a callback.                                   *)
(***************************************************************************)

(* What the invariant looks at in a controller.                            *)
Shows(vm, step, email, clicked, sending, msg) ==
    /\ vm \in Controllers
    /\ vm.signInSteps = step /\ vm.email = email
    /\ vm.buttonClicked = clicked /\ vm.isOtpSending = sending
    /\ vm.signInMsg = msg

LEMMA ControllersShow ==
  ASSUME PageTypeOK
  PROVE  /\ Shows(page, page.signInSteps, page.email, page.buttonClicked,
                  page.isOtpSending, page.signInMsg)
         /\ Shows(NewController, "email", None, FALSE, FALSE, "none")
         /\ Shows(Refused, page.signInSteps, page.email, FALSE,
                  page.isOtpSending, "error")
         /\ Shows(EmailRefused, page.signInSteps, page.email, FALSE,
                  page.isOtpSending, "error")
         /\ Shows(OtpNotSent, page.signInSteps, page.email, FALSE, FALSE,
                  "error")
         /\ Shows([OtpNotSent EXCEPT !.signInSteps = "otp"], "otp",
                  page.email, FALSE, FALSE, "error")
         /\ Shows([OtpNotSent EXCEPT !.signInMsg = "sent"],
                  page.signInSteps, page.email, FALSE, FALSE, "sent")
         /\ Shows([Refused EXCEPT !.signInMsg = "verified"],
                  page.signInSteps, page.email, FALSE, page.isOtpSending,
                  "verified")
         /\ Shows([page EXCEPT !.buttonClicked = TRUE], page.signInSteps,
                  page.email, TRUE, page.isOtpSending, page.signInMsg)
         /\ Shows([page EXCEPT !.signInSteps = "otp", !.signInMsg = "none",
                               !.isOtpSending = TRUE, !.buttonClicked = TRUE],
                  "otp", page.email, TRUE, TRUE, "none")
<1>1. page \in Controllers
  BY DEF PageTypeOK
<1>2. Refused \in Controllers
  BY <1>1 DEF Refused, Controllers
<1>3. /\ Refused.signInSteps = page.signInSteps
      /\ Refused.email = page.email
      /\ Refused.buttonClicked = FALSE
      /\ Refused.isOtpSending = page.isOtpSending
      /\ Refused.signInMsg = "error"
  BY <1>1 DEF Refused, Controllers
<1>4. /\ OtpNotSent \in Controllers
      /\ OtpNotSent.signInSteps = page.signInSteps
      /\ OtpNotSent.email = page.email
      /\ OtpNotSent.buttonClicked = FALSE
      /\ OtpNotSent.isOtpSending = FALSE
      /\ OtpNotSent.signInMsg = "error"
  BY <1>2, <1>3 DEF OtpNotSent, Controllers
<1>. HIDE DEF Refused, OtpNotSent
<1>5. Shows(NewController, "email", None, FALSE, FALSE, "none")
  BY DEF Shows, NewController, Controllers
<1>6. Shows(EmailRefused, page.signInSteps, page.email, FALSE,
            page.isOtpSending, "error")
  BY <1>2, <1>3 DEF Shows, EmailRefused, Controllers
<1>7. /\ Shows([OtpNotSent EXCEPT !.signInSteps = "otp"], "otp",
               page.email, FALSE, FALSE, "error")
      /\ Shows([OtpNotSent EXCEPT !.signInMsg = "sent"],
               page.signInSteps, page.email, FALSE, FALSE, "sent")
  BY <1>4 DEF Shows, Controllers
<1>8. Shows([Refused EXCEPT !.signInMsg = "verified"],
            page.signInSteps, page.email, FALSE, page.isOtpSending,
            "verified")
  BY <1>2, <1>3 DEF Shows, Controllers
<1>9. /\ Shows([page EXCEPT !.buttonClicked = TRUE], page.signInSteps,
               page.email, TRUE, page.isOtpSending, page.signInMsg)
      /\ Shows([page EXCEPT !.signInSteps = "otp", !.signInMsg = "none",
                            !.isOtpSending = TRUE, !.buttonClicked = TRUE],
               "otp", page.email, TRUE, TRUE, "none")
  BY <1>1 DEF Shows, Controllers
<1>. QED  BY <1>1, <1>2, <1>3, <1>4, <1>5, <1>6, <1>7, <1>8, <1>9 DEF Shows

(***************************************************************************)
(* The page's calls.                                                       *)
(***************************************************************************)

LEMMA PostEffect ==
  ASSUME IndInv, PageTypeOK, NEW s \in Requests, NEW op \in Ops \ {"none"},
         NEW otp \in Otps \cup {None}, pageBrowser \in Browsers,
         page.email # None, Post(s, op, otp, pageBrowser)
  PROVE  /\ request[s].pc = "new"
         /\ \A r \in Requests \ {s} : request'[r] = request[r]
         /\ request'[s].pc = "validating" /\ request'[s].op = op
         /\ request'[s].email = page.email
         /\ request'[s].browser = pageBrowser
         /\ request'[s].reply = None
         /\ UNCHANGED <<now, tokens, users, sessions, sent>>
         /\ page.email \in Emails
<1>1. page.email \in Emails
  BY DEF PageTypeOK, Controllers
<1>2. Receive(s, op, page.email, otp, pageBrowser)
  BY DEF Post
<1>3. Moved(s, "validating", op, page.email, otp, pageBrowser, request[s].at,
            request[s].token, request[s].reply)
  BY <1>1, <1>2, ReceiveEffect DEF IndInv
<1>4. request[s].pc = "new" /\ request[s].reply = None
  BY <1>2 DEF Receive, IndInv, HandlersOK, HandlerOK
<1>. QED  BY <1>1, <1>2, <1>3, <1>4 DEF Moved, Receive

(* A call while the answers of others, which only looked an email up, are  *)
(* dealt with.                                                             *)
Asked(s, op, answered) ==
    /\ state = "signin" /\ UNCHANGED <<state, user, timer>>
    /\ \A r \in answered : /\ Waiting(r) /\ request[r].pc = "done"
                           /\ request[r].op = "checkuser"
    /\ calls' = [r \in Requests |-> IF r = s THEN "waiting"
                                    ELSE IF r \in answered THEN "done"
                                    ELSE calls[r]]
    /\ op # "sendotp" => answered = {}
    /\ lapses \subseteq lapses'
    /\ lapses' \subseteq {"overlap", "late", "lost", "retyped"}
    /\ (\E r \in Requests \ answered : Waiting(r)) => "overlap" \in lapses'
    /\ timer => ~Calm'
    /\ \E step \in {"email", "otp"}, msg \in {"none", page.signInMsg} :
          /\ Shows(page', step, page.email, TRUE,
                   op = "sendotp" \/ page.isOtpSending, msg)
          /\ step = IF op = "checkuser" THEN page.signInSteps ELSE "otp"
          /\ step = "otp" /\ "retyped" \notin lapses' =>
                page.email \in Whitelisted

LEMMA AskedInOrder ==
  ASSUME IndInv, LoginPageInv, NEW s \in Requests, NEW op \in Ops \ {"none"},
         NEW otp \in Otps \cup {None}, NEW answered \in SUBSET Requests,
         pageBrowser \in Browsers, UNCHANGED pageBrowser, page.email # None,
         Post(s, op, otp, pageBrowser), Asked(s, op, answered)
  PROVE  LoginPageInv'
<1>. USE DEF Waiting
<1>1. /\ PageTypeOK /\ CallsKnown /\ WaitingHere /\ OneWaits
      /\ NothingLeftBehind /\ TimerTells /\ SessionKept /\ TokenStored
      /\ UserLoggedIn /\ BusyWhileWaiting /\ OtpForCheckedEmail
  BY DEF LoginPageInv
<1>2. /\ request[s].pc = "new" /\ calls[s] = "none"
      /\ \A r \in Requests \ {s} : request'[r] = request[r]
      /\ request'[s].pc = "validating" /\ request'[s].op = op
      /\ request'[s].email = page.email
      /\ request'[s].browser = pageBrowser
      /\ request'[s].reply = None
      /\ UNCHANGED <<now, tokens, users, sessions, sent>>
      /\ page.email \in Emails
  BY <1>1, PostEffect DEF CallsKnown
<1>3. /\ calls'[s] = "waiting"
      /\ \A r \in answered : r # s /\ calls'[r] = "done"
      /\ \A r \in Requests \ {s} :
            r \notin answered => calls'[r] = calls[r]
      /\ calls' \in [Requests -> {"none", "waiting", "stale", "done"}]
  BY <1>1, <1>2 DEF Asked, PageTypeOK
<1>4. \A r \in answered : /\ calls[r] = "waiting" /\ request[r].pc = "done"
                          /\ request[r].op = "checkuser"
  BY DEF Asked
<1>5. Calm' => Calm /\ ~timer
  BY DEF Asked, Calm
<1>6. PICK step \in {"email", "otp"}, msg \in {"none", page.signInMsg} :
          /\ Shows(page', step, page.email, TRUE,
                   op = "sendotp" \/ page.isOtpSending, msg)
          /\ step = IF op = "checkuser" THEN page.signInSteps ELSE "otp"
          /\ step = "otp" /\ "retyped" \notin lapses' =>
                page.email \in Whitelisted
  BY DEF Asked
<1>7. page'.signInSteps = step /\ page'.email = page.email
  BY <1>6 DEF Shows
<1>8. None # "OK"
  BY NullAssumption DEF Replies
<1>11. PageTypeOK'
  BY <1>1, <1>3, <1>6 DEF PageTypeOK, Shows, Asked
<1>12. CallsKnown'
  <2>. SUFFICES ASSUME NEW r \in Requests
                PROVE  /\ calls'[r] = "none" <=> request'[r].pc = "new"
                       /\ calls'[r] # "none" =>
                             /\ request'[r].email # None
                             /\ request'[r].browser = pageBrowser
                             /\ request'[r].op # "none"
                       /\ calls'[r] = "done" =>
                             ~InFlight(r)' \/ "lost" \in lapses'
    BY DEF CallsKnown
  <2>1. CASE r = s
    BY <1>2, <1>3, <2>1
  <2>2. CASE r # s /\ r \in answered
    BY <1>1, <1>2, <1>3, <1>4, <2>2 DEF CallsKnown, InFlight, InFlightAt
  <2>3. CASE r # s /\ r \notin answered
    BY <1>1, <1>2, <1>3, <2>3 DEF CallsKnown, InFlight, Asked
  <2>. QED  BY <2>1, <2>2, <2>3
<1>13. WaitingHere'
  <2>. SUFFICES ASSUME NEW r \in Requests, calls'[r] = "waiting"
                PROVE  /\ state' = "signin"
                       /\ request'[r].op \in {"sendotp", "verifyotp"} =>
                             /\ page'.signInSteps = "otp"
                             /\ page'.email = request'[r].email
                       /\ request'[r].op = "checkuser"
                          /\ "retyped" \notin lapses' =>
                             page'.email = request'[r].email
    BY DEF WaitingHere
  <2>0. state' = "signin" /\ lapses \subseteq lapses'
    BY DEF Asked
  <2>1. CASE r = s
    BY <1>2, <1>6, <1>7, <2>0, <2>1
  <2>2. CASE r # s
    <3>1. calls[r] = "waiting" /\ request'[r] = request[r]
      BY <1>2, <1>3, <2>2
    <3>. QED  BY <1>1, <1>6, <1>7, <2>0, <3>1 DEF WaitingHere
  <2>. QED  BY <2>1, <2>2
<1>14. "overlap" \notin lapses' =>
          \A r \in Requests : calls'[r] = "waiting" => r = s
  BY <1>3 DEF Asked
<1>15. OneWaits'
  BY <1>14 DEF OneWaits
<1>16. NothingLeftBehind'
  <2>. SUFFICES ASSUME Calm', NEW r \in Requests
                PROVE  /\ calls'[r] # "stale"
                       /\ InFlight(r)' => calls'[r] = "waiting"
    BY DEF NothingLeftBehind
  <2>1. CASE r = s
    BY <1>3, <2>1
  <2>2. CASE r # s /\ r \in answered
    BY <1>2, <1>3, <1>4, <2>2 DEF InFlight, InFlightAt
  <2>3. CASE r # s /\ r \notin answered
    BY <1>1, <1>2, <1>3, <1>5, <2>3 DEF NothingLeftBehind, InFlight
  <2>. QED  BY <2>1, <2>2, <2>3
<1>17. TimerTells'
  BY <1>1, <1>5 DEF TimerTells, Asked
<1>18. SessionKept'
  <2>1. \A r \in Requests : VerifyDone(r)' <=> VerifyDone(r)
    BY <1>2, <1>3, <1>4, <1>8 DEF VerifyDone
  <2>2. \A r \in Requests : VerifyDone(r) => request'[r].email = request[r].email
    BY <1>2 DEF VerifyDone
  <2>3. UNCHANGED <<user, state, sessions>>
    BY <1>2 DEF Asked
  <2>. QED  BY <1>1, <1>5, <2>1, <2>2, <2>3 DEF SessionKept
<1>19. TokenStored'
  <2>. SUFFICES ASSUME lapses' = {}, now < otpLifeSpan, NEW r \in Requests,
                       calls'[r] = "waiting", request'[r].op = "sendotp",
                       request'[r].pc = "sending" \/ request'[r].reply = "OK"
                PROVE  \E token \in TokensOf(request[r].email)' :
                           token.hashedOtp = Hash(r)'
    BY <1>2, <1>3, <1>8 DEF TokenStored
  <2>1. r # s
    BY <1>2, <1>8
  <2>2. calls[r] = "waiting" /\ request'[r] = request[r] /\ lapses = {}
    BY <1>2, <1>3, <2>1 DEF Asked
  <2>3. PICK token \in TokensOf(request[r].email) : token.hashedOtp = Hash(r)
    BY <1>1, <2>2 DEF TokenStored
  <2>4. TokensOf(request[r].email)' = TokensOf(request[r].email)
    BY <1>2, <2>2 DEF TokensOf
  <2>5. Hash(r)' = Hash(r)
    BY <2>2 DEF Hash
  <2>. QED  BY <2>3, <2>4, <2>5
<1>20. UserLoggedIn'
  <2>1. \A r \in Requests : request[r].reply = "OK" => request'[r] = request[r]
    <3>1. request[s].reply = None
      BY <1>2 DEF IndInv, HandlersOK, HandlerOK
    <3>. QED  BY <1>2, <1>8, <3>1
  <2>. QED  BY <1>1, <2>1 DEF UserLoggedIn, Asked
<1>21. BusyWhileWaiting'
  <2>. SUFFICES ASSUME "overlap" \notin lapses'
                PROVE  /\ page'.buttonClicked
                             <=> \E r \in Requests : calls'[r] = "waiting"
                       /\ page'.isOtpSending
                             <=> \E r \in Requests :
                                    /\ calls'[r] = "waiting"
                                    /\ request'[r].op = "sendotp"
    BY DEF BusyWhileWaiting
  <2>1. page'.buttonClicked = TRUE
    BY <1>6 DEF Shows
  <2>2. page'.isOtpSending <=> op = "sendotp"
    <3>1. op # "sendotp" => page.isOtpSending = FALSE
      <4>. SUFFICES ASSUME op # "sendotp"
                    PROVE  page.isOtpSending = FALSE
        OBVIOUS
      <4>1. \A r \in Requests : calls[r] # "waiting"
        BY DEF Asked
      <4>2. "overlap" \notin lapses /\ state = "signin"
        BY DEF Asked
      <4>3. page.isOtpSending \in BOOLEAN
        BY <1>1 DEF PageTypeOK, Controllers
      <4>. QED  BY <1>1, <4>1, <4>2, <4>3 DEF BusyWhileWaiting
    <3>2. page'.isOtpSending = (op = "sendotp" \/ page.isOtpSending)
      BY <1>6 DEF Shows
    <3>. QED  BY <3>1, <3>2
  <2>. QED  BY <1>2, <1>3, <1>14, <2>1, <2>2
<1>22. OtpForCheckedEmail'
  BY <1>6, <1>7 DEF OtpForCheckedEmail
<1>23. SentOtpIsCurrent'
  BY <1>3 DEF SentOtpIsCurrent
<1>. QED  BY <1>11, <1>12, <1>13, <1>15, <1>16, <1>17, <1>18, <1>19, <1>20,
             <1>21, <1>22, <1>23 DEF LoginPageInv

(***************************************************************************)
(* The page's other steps, none of which moves a handler.                  *)
(***************************************************************************)

(* Calls are answered, or lost, or left behind.                            *)
CallsOver ==
    /\ calls' \in [Requests -> {"none", "waiting", "stale", "done"}]
    /\ lapses \subseteq lapses'
    /\ lapses' \subseteq {"overlap", "late", "lost", "retyped"}
    /\ \A r \in Requests :
          \/ calls'[r] = calls[r]
          \/ /\ calls'[r] = "done" /\ calls[r] # "none"
             /\ request[r].pc = "done" \/ "lost" \in lapses'
          \/ calls'[r] = "stale" /\ calls[r] = "waiting" /\ ~Calm'

LEMMA CallsAnswered ==
  ASSUME LoginPageInv, UNCHANGED <<now, tokens, request, sent, pageBrowser>>,
         CallsOver
  PROVE  /\ CallsKnown' /\ OneWaits' /\ NothingLeftBehind' /\ TokenStored'
         /\ user' \in {user, None} => UserLoggedIn'
<1>. USE DEF Waiting
<1>1. /\ CallsKnown /\ OneWaits /\ NothingLeftBehind /\ TokenStored
      /\ UserLoggedIn
  BY DEF LoginPageInv
<1>2. \A r \in Requests : calls'[r] = "waiting" => calls[r] = "waiting"
  BY DEF CallsOver
<1>3. CallsKnown'
  <2>. SUFFICES ASSUME NEW r \in Requests
                PROVE  /\ calls'[r] = "none" <=> request[r].pc = "new"
                       /\ calls'[r] # "none" =>
                             /\ request[r].email # None
                             /\ request[r].browser = pageBrowser
                             /\ request[r].op # "none"
                       /\ calls'[r] = "done" =>
                             ~InFlight(r) \/ "lost" \in lapses'
    BY DEF CallsKnown, InFlight
  <2>1. CASE calls'[r] = calls[r]
    BY <1>1, <2>1 DEF CallsKnown, CallsOver
  <2>2. CASE calls'[r] # calls[r]
    <3>1. /\ calls[r] # "none" /\ calls'[r] # "none"
          /\ calls'[r] = "done" =>
                request[r].pc = "done" \/ "lost" \in lapses'
      BY <2>2 DEF CallsOver
    <3>. QED  BY <1>1, <3>1 DEF CallsKnown, InFlight, InFlightAt
  <2>. QED  BY <2>1, <2>2
<1>4. OneWaits'
  BY <1>1, <1>2 DEF OneWaits, CallsOver
<1>5. NothingLeftBehind'
  <2>. SUFFICES ASSUME Calm', NEW r \in Requests
                PROVE  /\ calls'[r] # "stale"
                       /\ InFlight(r) => calls'[r] = "waiting"
    BY DEF NothingLeftBehind, InFlight
  <2>1. Calm /\ "lost" \notin lapses'
    BY DEF Calm, CallsOver
  <2>2. \/ calls'[r] = calls[r]
        \/ calls'[r] = "done" /\ request[r].pc = "done"
    BY <2>1 DEF CallsOver
  <2>. QED  BY <1>1, <2>1, <2>2 DEF NothingLeftBehind, InFlight, InFlightAt
<1>6. TokenStored'
  <2>1. \A r \in Requests : /\ TokensOf(request[r].email)'
                                 = TokensOf(request[r].email)
                            /\ Hash(r)' = Hash(r)
    BY DEF TokensOf, Hash
  <2>2. lapses' = {} => lapses = {}
    BY DEF CallsOver
  <2>. QED  BY <1>1, <1>2, <2>1, <2>2 DEF TokenStored
<1>7. user' \in {user, None} => UserLoggedIn'
  BY <1>1 DEF UserLoggedIn
<1>. QED  BY <1>3, <1>4, <1>5, <1>6, <1>7

(* The page that stays goes on, once its call is answered or given up.     *)
Settled(step, sending, msg) ==
    /\ state = "signin" /\ UNCHANGED <<state, timer>>
    /\ \A r \in Requests : calls'[r] \in {calls[r], "done"}
    /\ Shows(page', step, page.email, FALSE, sending, msg)
    /\ step \in {page.signInSteps, "otp"}
    /\ user' \in {user, None} /\ (Calm' => user' = user)
    /\ "overlap" \notin lapses' =>
          sending = FALSE /\ \A r \in Requests : calls'[r] # "waiting"
    /\ step = "otp" /\ "retyped" \notin lapses' => page.email \in Whitelisted
    /\ Calm' => \A r \in Requests :
                   VerifyDone(r) => calls'[r] = calls[r]

LEMMA PageSettled ==
  ASSUME LoginPageInv, UNCHANGED <<vars, pageBrowser>>, CallsOver,
         NEW step, NEW sending, NEW msg, Settled(step, sending, msg),
         msg = "sent" => SentOtpIsCurrent'
  PROVE  LoginPageInv'
<1>. USE DEF Waiting
<1>0. UNCHANGED <<now, tokens, users, sessions, request, sent>>
  BY DEF vars
<1>1. CallsKnown' /\ OneWaits' /\ NothingLeftBehind' /\ TokenStored'
      /\ UserLoggedIn'
  BY <1>0, CallsAnswered DEF Settled
<1>2. PageTypeOK /\ WaitingHere /\ TimerTells /\ SessionKept
  BY DEF LoginPageInv
<1>3. /\ page'.signInSteps = step /\ page'.email = page.email
      /\ page'.buttonClicked = FALSE /\ page'.isOtpSending = sending
      /\ page'.signInMsg = msg /\ page' \in Controllers
  BY DEF Settled, Shows
<1>4. PageTypeOK'
  BY <1>2, <1>3 DEF PageTypeOK, CallsOver, Settled
<1>5. \A r \in Requests : calls'[r] = "waiting" => calls[r] = "waiting"
  BY DEF Settled
<1>6. WaitingHere'
  BY <1>0, <1>2, <1>3, <1>5 DEF WaitingHere, Settled, CallsOver
<1>7. Calm' => Calm /\ user' = user
  BY DEF Calm, CallsOver, Settled
<1>8. TimerTells'
  BY <1>2, <1>5, <1>7 DEF TimerTells, Settled
<1>9. SessionKept'
  <2>. SUFFICES ASSUME Calm'
                PROVE  SessionKept'
    BY DEF SessionKept
  <2>1. \A r \in Requests : VerifyDone(r)' <=> VerifyDone(r)
    BY <1>0, <1>5 DEF VerifyDone, Settled
  <2>2. Calm /\ user' = user /\ state' = state
    BY <1>7 DEF Settled
  <2>. QED  BY <1>0, <1>2, <2>1, <2>2 DEF SessionKept
<1>10. BusyWhileWaiting'
  BY <1>3 DEF BusyWhileWaiting, Settled
<1>11. OtpForCheckedEmail'
  BY <1>3 DEF OtpForCheckedEmail, Settled
<1>12. SentOtpIsCurrent'
  BY <1>3 DEF SentOtpIsCurrent
<1>. QED  BY <1>1, <1>4, <1>6, <1>8, <1>9, <1>10, <1>11, <1>12
          DEF LoginPageInv

(* The page is left, or opened anew, and awaits nothing.                   *)
LEMMA PageTurned ==
  ASSUME LoginPageInv, UNCHANGED <<request, pageBrowser>>, CallsOver,
         page' \in {page, NewController},
         state' \in {"signin", "target", "landing"},
         state' = "signin" => page' = NewController,
         timer' \in BOOLEAN, user' \in {user, None},
         \A r \in Requests : calls'[r] # "waiting"
  PROVE  PageTypeOK' /\ WaitingHere' /\ BusyWhileWaiting'
         /\ OtpForCheckedEmail' /\ SentOtpIsCurrent'
<1>. USE DEF Waiting
<1>1. PageTypeOK /\ OtpForCheckedEmail
  BY DEF LoginPageInv
<1>2. /\ NewController \in Controllers
      /\ NewController.signInSteps = "email" /\ NewController.email = None
      /\ NewController.buttonClicked = FALSE
      /\ NewController.isOtpSending = FALSE
      /\ NewController.signInMsg = "none"
  BY <1>1, ControllersShow DEF Shows
<1>. HIDE DEF NewController
<1>3. PageTypeOK'
  BY <1>1, <1>2 DEF PageTypeOK, CallsOver
<1>4. WaitingHere'
  BY DEF WaitingHere
<1>5. BusyWhileWaiting'
  BY <1>2 DEF BusyWhileWaiting
<1>6. OtpForCheckedEmail'
  BY <1>1, <1>2 DEF OtpForCheckedEmail, CallsOver
<1>7. SentOtpIsCurrent'
  BY <1>2 DEF SentOtpIsCurrent
<1>. QED  BY <1>3, <1>4, <1>5, <1>6, <1>7

LEMMA TypeEmailInOrder ==
  ASSUME LoginPageInv, NEW email \in Emails \cup {None}, TypeEmail(email),
         UNCHANGED pageBrowser
  PROVE  LoginPageInv'
<1>. USE DEF Waiting
<1>1. /\ state = "signin" /\ page.signInSteps = "email"
      /\ UNCHANGED <<state, calls, user, timer>> /\ UNCHANGED vars
      /\ lapses' = lapses \cup (IF \E r \in Requests : calls[r] = "waiting"
                                THEN {"retyped"} ELSE {})
  BY DEF TypeEmail, LapseIf
<1>2. UNCHANGED <<now, tokens, users, sessions, request, sent>>
  BY <1>1 DEF vars
<1>3. /\ PageTypeOK /\ WaitingHere /\ TimerTells /\ SessionKept
      /\ BusyWhileWaiting
  BY DEF LoginPageInv
<1>4. /\ page' \in Controllers /\ page'.signInSteps = "email"
      /\ page'.buttonClicked = page.buttonClicked
      /\ page'.isOtpSending = page.isOtpSending
      /\ page'.signInMsg = "none"
  <2>1. page \in Controllers
    BY <1>3 DEF PageTypeOK
  <2>. QED  BY <1>1, <2>1 DEF TypeEmail, Controllers
<1>5. CallsOver
  BY <1>1, <1>3 DEF CallsOver, PageTypeOK
<1>6. CallsKnown' /\ OneWaits' /\ NothingLeftBehind' /\ TokenStored'
      /\ UserLoggedIn'
  BY <1>1, <1>2, <1>5, CallsAnswered
<1>7. PageTypeOK'
  BY <1>1, <1>3, <1>4, <1>5 DEF PageTypeOK, CallsOver
<1>8. WaitingHere'
  BY <1>1, <1>2, <1>3, <1>4 DEF WaitingHere
<1>9. Calm' => Calm
  BY <1>1 DEF Calm
<1>10. TimerTells'
  BY <1>1, <1>3, <1>9 DEF TimerTells
<1>11. SessionKept'
  <2>1. \A r \in Requests : VerifyDone(r)' <=> VerifyDone(r)
    BY <1>1, <1>2 DEF VerifyDone
  <2>. QED  BY <1>1, <1>2, <1>3, <1>9, <2>1 DEF SessionKept
<1>12. BusyWhileWaiting'
  BY <1>1, <1>2, <1>3, <1>4 DEF BusyWhileWaiting
<1>13. OtpForCheckedEmail' /\ SentOtpIsCurrent'
  BY <1>4 DEF OtpForCheckedEmail, SentOtpIsCurrent
<1>. QED  BY <1>6, <1>7, <1>8, <1>10, <1>11, <1>12, <1>13 DEF LoginPageInv

LEMMA CallLapses ==
  ASSUME LoginPageInv, LapseOfCall
  PROVE  /\ lapses \subseteq lapses'
         /\ lapses' \subseteq {"overlap", "late", "lost", "retyped"}
         /\ (\E r \in Requests : Waiting(r)) => "overlap" \in lapses'
         /\ timer => ~Calm'
         /\ "overlap" \notin lapses' =>
               /\ \A r \in Requests : ~Waiting(r)
               /\ state = "signin" => page.isOtpSending = FALSE
<1>1. /\ lapses \subseteq lapses'
      /\ lapses' \subseteq {"overlap", "late", "lost", "retyped"}
      /\ (\E r \in Requests : Waiting(r)) => "overlap" \in lapses'
      /\ timer => "late" \in lapses'
  BY DEF LapseOfCall, LoginPageInv, PageTypeOK
<1>2. page.isOtpSending \in BOOLEAN
  BY DEF LoginPageInv, PageTypeOK, Controllers
<1>. QED  BY <1>1, <1>2 DEF Calm, LoginPageInv, BusyWhileWaiting

LEMMA CheckEmailInOrder ==
  ASSUME IndInv, LoginPageInv, pageBrowser \in Browsers,
         CheckEmail(pageBrowser), UNCHANGED pageBrowser
  PROVE  LoginPageInv'
<1>. USE DEF Waiting
<1>1. /\ state = "signin" /\ page.signInSteps = "email"
      /\ UNCHANGED <<state, user, timer>> /\ LapseOfCall
  BY DEF CheckEmail
<1>2. PageTypeOK
  BY DEF LoginPageInv
<1>3. CASE /\ page' = EmailRefused
           /\ UNCHANGED calls /\ UNCHANGED vars
  <2>1. CallsOver
    BY <1>1, <1>2, <1>3, CallLapses DEF CallsOver, PageTypeOK
  <2>2. Settled(page.signInSteps, page.isOtpSending, "error")
    BY <1>1, <1>2, <1>3, CallLapses, ControllersShow DEF Settled
  <2>. QED  BY <1>3, <2>1, <2>2, PageSettled
<1>4. ASSUME page.email # None,
             page' = [page EXCEPT !.buttonClicked = TRUE],
             NEW r \in Requests, Post(r, "checkuser", None, pageBrowser),
             calls' = [calls EXCEPT ![r] = "waiting"]
      PROVE  LoginPageInv'
  <2>1. calls' = [q \in Requests |-> IF q = r THEN "waiting"
                                     ELSE IF q \in {} THEN "done"
                                     ELSE calls[q]]
    BY <1>2, <1>4 DEF PageTypeOK
  <2>2. Shows(page', "email", page.email, TRUE, page.isOtpSending,
              page.signInMsg)
    BY <1>1, <1>2, <1>4, ControllersShow
  <2>3. ("checkuser" = "sendotp" \/ page.isOtpSending) = page.isOtpSending
    BY <1>2 DEF PageTypeOK, Controllers
  <2>4. \E step \in {"email", "otp"}, msg \in {"none", page.signInMsg} :
          /\ Shows(page', step, page.email, TRUE,
                   "checkuser" = "sendotp" \/ page.isOtpSending, msg)
          /\ step = page.signInSteps
          /\ step = "otp" /\ "retyped" \notin lapses' =>
                page.email \in Whitelisted
    BY <1>1, <2>2, <2>3
  <2>5. Asked(r, "checkuser", {})
    BY <1>1, <2>1, <2>4, CallLapses DEF Asked
  <2>. QED  BY <1>4, <2>5, AskedInOrder DEF Ops
<1>. QED  BY <1>3, <1>4 DEF CheckEmail

(* sendOtp, for whoever was found whitelisted unless the email was edited. *)
LEMMA SendOtpInOrder ==
  ASSUME IndInv, LoginPageInv, pageBrowser \in Browsers,
         NEW answered \in SUBSET Requests,
         SendOtpFor(pageBrowser, answered), UNCHANGED pageBrowser,
         state = "signin", UNCHANGED <<state, user, timer>>,
         \A r \in answered : /\ Waiting(r) /\ request[r].pc = "done"
                             /\ request[r].op = "checkuser",
         lapses \subseteq lapses',
         lapses' \subseteq {"overlap", "late", "lost", "retyped"},
         (\E r \in Requests \ answered : Waiting(r)) => "overlap" \in lapses',
         timer => ~Calm',
         "retyped" \notin lapses' => page.email \in Whitelisted
  PROVE  LoginPageInv'
<1>. USE DEF Waiting
<1>1. PageTypeOK
  BY DEF LoginPageInv
<1>2. CASE /\ page' = [OtpNotSent EXCEPT !.signInSteps = "otp"]
           /\ calls' = [r \in Requests |-> IF r \in answered THEN "done"
                                           ELSE calls[r]]
           /\ UNCHANGED vars
  <2>1. CallsOver
    BY <1>1, <1>2 DEF CallsOver, PageTypeOK
  <2>2. Shows(page', "otp", page.email, FALSE, FALSE, "error")
    BY <1>1, <1>2, ControllersShow
  <2>3. \A r \in Requests : VerifyDone(r) => calls'[r] = calls[r]
    BY <1>2 DEF VerifyDone
  <2>4. "overlap" \notin lapses' => \A r \in Requests : calls'[r] # "waiting"
    BY <1>2
  <2>5. Settled("otp", FALSE, "error")
    BY <1>2, <2>2, <2>3, <2>4 DEF Settled
  <2>. QED  BY <1>2, <2>1, <2>5, PageSettled
<1>3. ASSUME page.email # None,
             page' = [page EXCEPT !.signInSteps = "otp",
                               !.signInMsg = "none", !.isOtpSending = TRUE,
                               !.buttonClicked = TRUE],
             NEW s \in Requests, Post(s, "sendotp", None, pageBrowser),
             calls' = [r \in Requests |->
                             IF r = s THEN "waiting"
                             ELSE IF r \in answered THEN "done" ELSE calls[r]]
      PROVE  LoginPageInv'
  <2>1. Shows(page', "otp", page.email, TRUE, TRUE, "none")
    BY <1>1, <1>3, ControllersShow
  <2>2. Asked(s, "sendotp", answered)
    BY <1>3, <2>1 DEF Asked
  <2>. QED  BY <1>3, <2>2, AskedInOrder DEF Ops
<1>. QED  BY <1>2, <1>3 DEF SendOtpFor

LEMMA CheckAcceptedInOrder ==
  ASSUME IndInv, SerialInv, LoginPageInv, pageBrowser \in Browsers,
         NEW r \in Requests, CheckAccepted(r, pageBrowser),
         UNCHANGED pageBrowser
  PROVE  LoginPageInv'
<1>1. /\ Waiting(r) /\ request[r].op = "checkuser"
      /\ request[r].pc = "done" /\ request[r].reply = "OK"
      /\ SendOtpFor(pageBrowser, {r})
      /\ UNCHANGED <<state, user, timer, lapses>>
  BY DEF CheckAccepted
<1>2. /\ state = "signin"
      /\ "retyped" \notin lapses => page.email = request[r].email
  BY <1>1 DEF LoginPageInv, WaitingHere
<1>3. request[r].email \in Whitelisted
  BY <1>1 DEF SerialInv, OkIsWhitelisted
<1>4. (\E q \in Requests \ {r} : Waiting(q)) => "overlap" \in lapses
  BY <1>1 DEF LoginPageInv, OneWaits
<1>5. timer => ~Calm
  BY <1>1 DEF LoginPageInv, TimerTells
<1>6. lapses \subseteq {"overlap", "late", "lost", "retyped"}
  BY DEF LoginPageInv, PageTypeOK
<1>7. timer => ~Calm'
  BY <1>1, <1>5 DEF Calm
<1>. QED  BY <1>1, <1>2, <1>3, <1>4, <1>6, <1>7, SendOtpInOrder

LEMMA ResendOtpInOrder ==
  ASSUME IndInv, LoginPageInv, pageBrowser \in Browsers,
         ResendOtp(pageBrowser), UNCHANGED pageBrowser
  PROVE  LoginPageInv'
<1>1. /\ state = "signin" /\ page.signInSteps = "otp"
      /\ SendOtpFor(pageBrowser, {})
      /\ UNCHANGED <<state, user, timer>> /\ LapseOfCall
  BY DEF ResendOtp
<1>2. "retyped" \notin lapses => page.email \in Whitelisted
  BY <1>1 DEF LoginPageInv, OtpForCheckedEmail
<1>. QED  BY <1>1, <1>2, CallLapses, SendOtpInOrder

LEMMA VerifyOtpInOrder ==
  ASSUME IndInv, LoginPageInv, pageBrowser \in Browsers, NEW otp \in Otps,
         VerifyOtp(otp, pageBrowser), UNCHANGED pageBrowser
  PROVE  LoginPageInv'
<1>. USE DEF Waiting
<1>1. /\ state = "signin" /\ page.signInSteps = "otp" /\ page.email # None
      /\ UNCHANGED <<state, user, timer>> /\ LapseOfCall
  BY DEF VerifyOtp
<1>2. PageTypeOK /\ page \in Controllers
  BY DEF LoginPageInv, PageTypeOK
<1>3. "retyped" \notin lapses => page.email \in Whitelisted
  BY <1>1 DEF LoginPageInv, OtpForCheckedEmail
<1>4. PICK msg \in {"none", page.signInMsg} :
          page' = [page EXCEPT !.buttonClicked = TRUE, !.signInMsg = msg]
  BY DEF VerifyOtp
<1>5. PICK r \in Requests : /\ Post(r, "verifyotp", otp, pageBrowser)
                            /\ calls' = [calls EXCEPT ![r] = "waiting"]
  BY DEF VerifyOtp
<1>6. Shows(page', "otp", page.email, TRUE, page.isOtpSending, msg)
  BY <1>1, <1>2, <1>4 DEF Shows, Controllers
<1>7. calls' = [q \in Requests |-> IF q = r THEN "waiting"
                                   ELSE IF q \in {} THEN "done"
                                   ELSE calls[q]]
  BY <1>2, <1>5 DEF PageTypeOK
<1>8. ("verifyotp" = "sendotp" \/ page.isOtpSending) = page.isOtpSending
  BY <1>2 DEF PageTypeOK, Controllers
<1>9. \E step \in {"email", "otp"}, m \in {"none", page.signInMsg} :
        /\ Shows(page', step, page.email, TRUE,
                 "verifyotp" = "sendotp" \/ page.isOtpSending, m)
        /\ step = "otp"
        /\ step = "otp" /\ "retyped" \notin lapses' =>
              page.email \in Whitelisted
  <2>1. lapses \subseteq lapses'
    BY <1>1, CallLapses
  <2>. QED  BY <1>3, <1>6, <1>8, <2>1
<1>10. Asked(r, "verifyotp", {})
  BY <1>1, <1>7, <1>9, CallLapses DEF Asked
<1>. QED  BY <1>1, <1>5, <1>10, AskedInOrder DEF Ops

(***************************************************************************)
(* The answers.                                                            *)
(***************************************************************************)

(* The answer to a call of a page that was left.                           *)
LEMMA StaleAnswered ==
  ASSUME LoginPageInv, UNCHANGED <<vars, pageBrowser, state, page, lapses>>,
         NEW r \in Requests, calls[r] = "stale", request[r].pc = "done",
         calls' = [calls EXCEPT ![r] = "done"],
         timer' \in BOOLEAN, user' \in Emails \cup {None}, UserLoggedIn'
  PROVE  LoginPageInv'
<1>. USE DEF Waiting
<1>0. UNCHANGED <<now, tokens, users, sessions, request, sent>>
  BY DEF vars
<1>1. /\ PageTypeOK /\ WaitingHere /\ BusyWhileWaiting
      /\ OtpForCheckedEmail /\ NothingLeftBehind
  BY DEF LoginPageInv
<1>2. CallsOver
  BY <1>1 DEF CallsOver, PageTypeOK
<1>3. CallsKnown' /\ OneWaits' /\ NothingLeftBehind' /\ TokenStored'
  BY <1>0, <1>2, CallsAnswered
<1>4. ~Calm /\ ~Calm'
  BY <1>1 DEF NothingLeftBehind, Calm
<1>5. TimerTells' /\ SessionKept'
  BY <1>4 DEF TimerTells, SessionKept
<1>6. PageTypeOK'
  BY <1>1, <1>2 DEF PageTypeOK, CallsOver
<1>7. \A q \in Requests : calls'[q] = "waiting" <=> calls[q] = "waiting"
  BY <1>1 DEF PageTypeOK
<1>8. WaitingHere' /\ BusyWhileWaiting' /\ OtpForCheckedEmail'
  BY <1>0, <1>1, <1>7 DEF WaitingHere, BusyWhileWaiting, OtpForCheckedEmail
<1>9. SentOtpIsCurrent'
  <2>1. lapses' # {}
    BY <1>4 DEF Calm
  <2>. QED  BY <2>1 DEF SentOtpIsCurrent
<1>. QED  BY <1>3, <1>5, <1>6, <1>8, <1>9 DEF LoginPageInv

(* Whoever is told that the OTP was sent has the one that is stored.       *)
LEMMA SentIsCurrent ==
  ASSUME IndInv, SerialInv, LoginPageInv, UNCHANGED <<vars, lapses>>,
         NEW r \in Requests, Waiting(r), request[r].op = "sendotp",
         request[r].reply = "OK", page'.email = page.email
  PROVE  SentOtpIsCurrent'
<1>. SUFFICES ASSUME lapses = {}, now < otpLifeSpan
              PROVE  \E token \in tokens :
                        /\ token.email = page'.email
                        /\ [to |-> page'.email, otp |-> token.hashedOtp.otp]
                               \in sent
  BY DEF SentOtpIsCurrent, TokensOf, vars
<1>1. page.email = request[r].email
  BY DEF LoginPageInv, WaitingHere
<1>2. PICK token \in TokensOf(request[r].email) : token.hashedOtp = Hash(r)
  BY DEF LoginPageInv, TokenStored
<1>3. OtpMail(r) \in sent
  BY DEF SerialInv, OkIsSent
<1>. QED  BY <1>1, <1>2, <1>3 DEF OtpMail, Hash, TokensOf

(* A callback that tells of a refusal, or that the OTP was sent.           *)
LEMMA AnswerShown ==
  ASSUME IndInv, SerialInv, LoginPageInv, UNCHANGED <<vars, pageBrowser>>,
         UNCHANGED <<timer, lapses>>,
         NEW r \in Requests, calls[r] \in {"waiting", "stale"},
         request[r].pc = "done",
         calls' = [calls EXCEPT ![r] = "done"],
         Intercept(request[r].reply),
         NEW next, NEW sending, NEW msg, Shown(r, next),
         Shows(next, page.signInSteps, page.email, FALSE, sending, msg),
         sending = IF request[r].op = "sendotp" THEN FALSE
                   ELSE page.isOtpSending,
         request[r].op = "verifyotp" => request[r].reply # "OK",
         msg = "sent" => /\ request[r].op = "sendotp"
                         /\ request[r].reply = "OK"
  PROVE  LoginPageInv'
<1>. USE DEF Waiting
<1>0. UNCHANGED <<now, tokens, users, sessions, request, sent>>
  BY DEF vars
<1>1. /\ PageTypeOK /\ WaitingHere /\ BusyWhileWaiting /\ OneWaits
      /\ OtpForCheckedEmail /\ NothingLeftBehind /\ TimerTells
  BY DEF LoginPageInv
<1>2. /\ user' \in {user, None} /\ state' \in {state, "signin"}
      /\ UserLoggedIn'
  <2>1. user' \in {user, None} /\ state' \in {state, "signin"}
    BY DEF Intercept
  <2>. QED  BY <1>0, <2>1 DEF LoginPageInv, UserLoggedIn
<1>3. CallsOver
  BY <1>1 DEF CallsOver, PageTypeOK
<1>4. CASE state = "signin" /\ calls[r] = "waiting"
  <2>1. page' = next /\ state' = "signin"
    BY <1>2, <1>4 DEF Shown
  <2>2. page'.email = page.email
    BY <2>1 DEF Shows
  <2>3. msg = "sent" => SentOtpIsCurrent'
    BY <1>4, <2>2, SentIsCurrent
  <2>4. Calm' => user' = user
    <3>1. Calm => ~timer
      BY <1>1, <1>4 DEF TimerTells
    <3>2. Calm => user = None
      BY <1>1, <1>4, <3>1 DEF TimerTells
    <3>. QED  BY <1>2, <3>2 DEF Calm
  <2>5. \A q \in Requests : calls'[q] \in {calls[q], "done"}
    BY <1>1 DEF PageTypeOK
  <2>6. "overlap" \notin lapses =>
           sending = FALSE /\ \A q \in Requests : calls'[q] # "waiting"
    <3>. SUFFICES ASSUME "overlap" \notin lapses
                  PROVE  sending = FALSE
                         /\ \A q \in Requests : calls'[q] # "waiting"
      OBVIOUS
    <3>1. \A q \in Requests : calls[q] = "waiting" => q = r
      BY <1>1, <1>4 DEF OneWaits
    <3>2. request[r].op # "sendotp" => page.isOtpSending = FALSE
      <4>1. page.isOtpSending \in BOOLEAN
        BY <1>1 DEF PageTypeOK, Controllers
      <4>. QED  BY <1>1, <1>4, <3>1, <4>1 DEF BusyWhileWaiting
    <3>3. \A q \in Requests : calls'[q] # "waiting"
      BY <1>1, <3>1 DEF PageTypeOK
    <3>. QED  BY <3>2, <3>3
  <2>7. page.signInSteps = "otp" /\ "retyped" \notin lapses =>
           page.email \in Whitelisted
    BY <1>1 DEF OtpForCheckedEmail
  <2>8. \A q \in Requests : VerifyDone(q) => calls'[q] = calls[q]
    BY <1>1 DEF VerifyDone, PageTypeOK
  <2>9. Settled(page.signInSteps, sending, msg)
    BY <1>2, <1>4, <2>1, <2>4, <2>5, <2>6, <2>7, <2>8 DEF Settled
  <2>. QED  BY <1>3, <2>3, <2>9, PageSettled
<1>5. CASE calls[r] = "stale" /\ state' = state /\ page' = page
  BY <1>1, <1>2, <1>5, StaleAnswered DEF PageTypeOK
<1>6. CASE calls[r] = "stale" /\ state # "signin" /\ state' = "signin"
  <2>1. page' = NewController
    BY <1>6 DEF Shown
  <2>2. \A q \in Requests : calls'[q] # "waiting"
    BY <1>1, <1>6 DEF WaitingHere, PageTypeOK
  <2>3. timer' \in BOOLEAN
    BY <1>1 DEF PageTypeOK
  <2>4. PageTypeOK' /\ WaitingHere' /\ BusyWhileWaiting'
        /\ OtpForCheckedEmail' /\ SentOtpIsCurrent'
    BY <1>0, <1>2, <1>3, <1>6, <2>1, <2>2, <2>3, PageTurned
  <2>5. CallsKnown' /\ OneWaits' /\ NothingLeftBehind' /\ TokenStored'
    BY <1>0, <1>3, CallsAnswered
  <2>6. ~Calm'
    BY <1>1, <1>6 DEF NothingLeftBehind, Calm
  <2>7. TimerTells' /\ SessionKept'
    BY <2>6 DEF TimerTells, SessionKept
  <2>. QED  BY <1>2, <2>4, <2>5, <2>7 DEF LoginPageInv
<1>7. calls[r] = "stale" => \/ state' = state /\ page' = page
                            \/ state # "signin" /\ state' = "signin"
  BY <1>2 DEF Shown
<1>8. calls[r] = "waiting" => state = "signin"
  BY <1>1 DEF WaitingHere
<1>. QED  BY <1>4, <1>5, <1>6, <1>7, <1>8

LEMMA AnswersInOrder ==
  ASSUME IndInv, SerialInv, LoginPageInv, UNCHANGED pageBrowser,
         NEW r \in Requests,
         CheckRefused(r) \/ SendAnswered(r) \/ VerifyRefused(r)
  PROVE  LoginPageInv'
<1>. USE DEF Waiting
<1>1. PageTypeOK
  BY DEF LoginPageInv
<1>2. CASE CheckRefused(r)
  <2>1. Shows(EmailRefused, page.signInSteps, page.email, FALSE,
              page.isOtpSending, "error")
    BY <1>1, ControllersShow
  <2>. HIDE DEF EmailRefused
  <2>. QED  BY <1>2, <2>1, AnswerShown DEF CheckRefused
<1>3. CASE SendAnswered(r)
  <2>1. CASE request[r].reply = "OK"
    <3>. DEFINE next == [OtpNotSent EXCEPT !.signInMsg = "sent"]
    <3>1. Shows(next, page.signInSteps, page.email, FALSE, FALSE, "sent")
      BY <1>1, ControllersShow
    <3>2. Shown(r, next)
      BY <1>3, <2>1 DEF SendAnswered
    <3>. HIDE DEF next
    <3>. QED  BY <1>3, <2>1, <3>1, <3>2, AnswerShown DEF SendAnswered
  <2>2. CASE request[r].reply # "OK"
    <3>1. Shows(OtpNotSent, page.signInSteps, page.email, FALSE, FALSE,
                "error")
      BY <1>1, ControllersShow
    <3>2. Shown(r, OtpNotSent)
      BY <1>3, <2>2 DEF SendAnswered
    <3>. HIDE DEF OtpNotSent
    <3>. QED  BY <1>3, <2>2, <3>1, <3>2, AnswerShown DEF SendAnswered
  <2>. QED  BY <2>1, <2>2
<1>4. CASE VerifyRefused(r)
  <2>1. Shows(Refused, page.signInSteps, page.email, FALSE,
              page.isOtpSending, "error")
    BY <1>1, ControllersShow
  <2>. HIDE DEF Refused
  <2>. QED  BY <1>4, <2>1, AnswerShown DEF VerifyRefused
<1>. QED  BY <1>2, <1>3, <1>4

LEMMA VerifyAcceptedInOrder ==
  ASSUME IndInv, LoginPageInv, UNCHANGED pageBrowser,
         NEW r \in Requests, VerifyAccepted(r)
  PROVE  LoginPageInv'
<1>. USE DEF Waiting
<1>1. /\ calls[r] \in {"waiting", "stale"} /\ request[r].op = "verifyotp"
      /\ request[r].pc = "done" /\ request[r].reply = "OK"
      /\ calls' = [calls EXCEPT ![r] = "done"]
      /\ user' = request[r].email /\ timer' = TRUE
      /\ page' = IF calls[r] = "waiting"
                 THEN [Refused EXCEPT !.signInMsg = "verified"] ELSE page
      /\ UNCHANGED <<state, lapses>> /\ UNCHANGED vars
  BY DEF VerifyAccepted
<1>2. UNCHANGED <<now, tokens, users, sessions, request, sent>>
  BY <1>1 DEF vars
<1>3. /\ PageTypeOK /\ CallsKnown /\ WaitingHere /\ BusyWhileWaiting
      /\ OneWaits /\ OtpForCheckedEmail /\ SessionKept
  BY DEF LoginPageInv
<1>4. /\ user' \in Emails \cup {None} /\ user' # None
      /\ request[r].browser = pageBrowser
  BY <1>1, <1>3 DEF CallsKnown, IndInv, TypeOK, HandlerStates
<1>5. UserLoggedIn'
  BY <1>1, <1>2, <1>4 DEF UserLoggedIn
<1>6. CASE calls[r] = "stale"
  BY <1>1, <1>4, <1>5, <1>6, StaleAnswered
<1>7. CASE calls[r] = "waiting"
  <2>1. CallsOver
    BY <1>1, <1>3 DEF CallsOver, PageTypeOK
  <2>2. CallsKnown' /\ OneWaits' /\ NothingLeftBehind' /\ TokenStored'
    BY <1>2, <2>1, CallsAnswered
  <2>3. Shows(page', page.signInSteps, page.email, FALSE, page.isOtpSending,
              "verified")
    BY <1>1, <1>3, <1>7, ControllersShow
  <2>4. PageTypeOK'
    BY <1>1, <1>3, <1>4, <2>1, <2>3 DEF PageTypeOK, CallsOver, Shows
  <2>5. \A q \in Requests : calls'[q] = "waiting" => calls[q] = "waiting"
    BY <1>1, <1>3 DEF PageTypeOK
  <2>6. WaitingHere'
    BY <1>1, <1>2, <1>3, <2>3, <2>5 DEF WaitingHere, Shows
  <2>7. "overlap" \notin lapses => \A q \in Requests : calls'[q] # "waiting"
    BY <1>1, <1>3, <1>7 DEF OneWaits, PageTypeOK
  <2>8. state = "signin"
    BY <1>3, <1>7 DEF WaitingHere
  <2>9. TimerTells'
    BY <1>1, <1>4, <2>7, <2>8 DEF TimerTells, Calm
  <2>10. SessionKept'
    <3>1. VerifyDone(r)
      BY <1>1, <1>7 DEF VerifyDone
    <3>2. Calm' => Calm /\ \A q \in Requests : calls'[q] # "waiting"
      BY <1>1, <2>7 DEF Calm
    <3>. QED  BY <1>1, <1>2, <1>3, <1>4, <2>8, <3>1, <3>2
              DEF SessionKept, VerifyDone
  <2>11. BusyWhileWaiting'
    <3>. SUFFICES ASSUME "overlap" \notin lapses
                  PROVE  page'.buttonClicked = FALSE
                         /\ page'.isOtpSending = FALSE
      BY <1>1, <2>7 DEF BusyWhileWaiting
    <3>1. page.isOtpSending \in BOOLEAN
      BY <1>3 DEF PageTypeOK, Controllers
    <3>2. \A q \in Requests : calls[q] = "waiting" => q = r
      BY <1>3, <1>7 DEF OneWaits
    <3>3. page.isOtpSending = FALSE
      BY <1>1, <1>3, <2>8, <3>1, <3>2 DEF BusyWhileWaiting
    <3>. QED  BY <2>3, <3>3 DEF Shows
  <2>12. OtpForCheckedEmail' /\ SentOtpIsCurrent'
    BY <1>1, <1>3, <2>3 DEF OtpForCheckedEmail, SentOtpIsCurrent, Shows
  <2>. QED  BY <1>5, <2>2, <2>4, <2>6, <2>9, <2>10, <2>11, <2>12
            DEF LoginPageInv
<1>. QED  BY <1>1, <1>6, <1>7

LEMMA AnswerLostInOrder ==
  ASSUME IndInv, LoginPageInv, UNCHANGED pageBrowser,
         NEW r \in Requests, AnswerLost(r)
  PROVE  LoginPageInv'
<1>. USE DEF Waiting
<1>1. /\ calls[r] = "waiting"
      /\ calls' = [calls EXCEPT ![r] = "done"]
      /\ page' = CASE request[r].op = "checkuser" -> EmailRefused
                   [] request[r].op = "sendotp" -> OtpNotSent
                   [] request[r].op = "verifyotp" -> Refused
      /\ lapses' = lapses \cup {"lost"}
      /\ UNCHANGED <<state, user, timer>> /\ UNCHANGED vars
  BY DEF AnswerLost
<1>2. /\ PageTypeOK /\ CallsKnown /\ WaitingHere /\ BusyWhileWaiting
      /\ OneWaits /\ OtpForCheckedEmail
  BY DEF LoginPageInv
<1>3. request[r].op \in {"checkuser", "sendotp", "verifyotp"}
  BY <1>1, <1>2 DEF CallsKnown, IndInv, TypeOK, HandlerStates, Ops
<1>. DEFINE sending == IF request[r].op = "sendotp" THEN FALSE
                       ELSE page.isOtpSending
<1>4. Shows(page', page.signInSteps, page.email, FALSE, sending, "error")
  <2>1. Shows(EmailRefused, page.signInSteps, page.email, FALSE,
              page.isOtpSending, "error")
        /\ Shows(OtpNotSent, page.signInSteps, page.email, FALSE, FALSE,
                 "error")
        /\ Shows(Refused, page.signInSteps, page.email, FALSE,
                 page.isOtpSending, "error")
    BY <1>2, ControllersShow
  <2>. HIDE DEF EmailRefused, OtpNotSent, Refused
  <2>2. CASE request[r].op = "checkuser"
    BY <1>1, <2>1, <2>2
  <2>3. CASE request[r].op = "sendotp"
    BY <1>1, <2>1, <2>3
  <2>4. CASE request[r].op = "verifyotp"
    BY <1>1, <2>1, <2>4
  <2>. QED  BY <1>3, <2>2, <2>3, <2>4
<1>5. CallsOver
  BY <1>1, <1>2 DEF CallsOver, PageTypeOK
<1>6. ~Calm'
  BY <1>1 DEF Calm
<1>7. state = "signin"
  BY <1>1, <1>2 DEF WaitingHere
<1>8. "overlap" \notin lapses' =>
         sending = FALSE /\ \A q \in Requests : calls'[q] # "waiting"
  <2>. SUFFICES ASSUME "overlap" \notin lapses
                PROVE  sending = FALSE
                       /\ \A q \in Requests : calls'[q] # "waiting"
    BY <1>1
  <2>1. \A q \in Requests : calls[q] = "waiting" => q = r
    BY <1>1, <1>2 DEF OneWaits
  <2>2. page.isOtpSending \in BOOLEAN
    BY <1>2 DEF PageTypeOK, Controllers
  <2>3. request[r].op # "sendotp" => page.isOtpSending = FALSE
    BY <1>1, <1>2, <1>7, <2>1, <2>2 DEF BusyWhileWaiting
  <2>. QED  BY <1>1, <1>2, <2>1, <2>3 DEF PageTypeOK
<1>9. \A q \in Requests : calls'[q] \in {calls[q], "done"}
  BY <1>1, <1>2 DEF PageTypeOK
<1>10. Settled(page.signInSteps, sending, "error")
  <2>. HIDE DEF sending
  <2>1. page.signInSteps = "otp" /\ "retyped" \notin lapses' =>
           page.email \in Whitelisted
    BY <1>1, <1>2 DEF OtpForCheckedEmail
  <2>. QED  BY <1>1, <1>4, <1>6, <1>7, <1>8, <1>9, <2>1 DEF Settled
<1>. HIDE DEF sending
<1>. QED  BY <1>1, <1>5, <1>10, PageSettled

(***************************************************************************)
(* Coming and going.                                                       *)
(***************************************************************************)

(* The parts of a step that leaves nothing awaited; what is left to show   *)
(* is about the user and the session.                                      *)
LEMMA TurnedInOrder ==
  ASSUME LoginPageInv, CallsOver,
         UNCHANGED <<now, tokens, request, sent, pageBrowser>>,
         page' \in {page, NewController},
         state' \in {"signin", "target", "landing"},
         state' = "signin" => page' = NewController,
         timer' \in BOOLEAN, user' \in {user, None},
         \A r \in Requests : calls'[r] # "waiting",
         TimerTells',
         Calm' => /\ user' # None => sessions'[pageBrowser] = user'
                  /\ user' = None => sessions'[pageBrowser] = None
                  /\ state' = "target" => user' # None
  PROVE  LoginPageInv'
<1>1. PageTypeOK' /\ WaitingHere' /\ BusyWhileWaiting'
      /\ OtpForCheckedEmail' /\ SentOtpIsCurrent'
  BY PageTurned
<1>2. CallsKnown' /\ OneWaits' /\ NothingLeftBehind' /\ TokenStored'
      /\ UserLoggedIn'
  BY CallsAnswered
<1>3. SessionKept'
  BY DEF SessionKept, VerifyDone, Waiting
<1>. QED  BY <1>1, <1>2, <1>3 DEF LoginPageInv

(* Outside the page nothing is awaited, and the session is the user's.     *)
LEMMA Outside ==
  ASSUME LoginPageInv, \A r \in Requests : ~Waiting(r)
  PROVE  Calm => /\ user # None => sessions[pageBrowser] = user
                 /\ user = None => sessions[pageBrowser] = None
                 /\ state = "target" => user # None
BY DEF LoginPageInv, SessionKept, VerifyDone

LEMMA RedirectInOrder ==
  ASSUME LoginPageInv, UNCHANGED pageBrowser, Redirect
  PROVE  LoginPageInv'
<1>. USE DEF Waiting
<1>1. /\ timer /\ timer' = FALSE
      /\ UNCHANGED <<page, user, lapses>> /\ UNCHANGED vars
      /\ \/ state = "signin" /\ state' = "target" /\ calls' = Left
         \/ state # "signin" /\ UNCHANGED <<state, calls>>
  BY DEF Redirect
<1>2. UNCHANGED <<now, tokens, users, sessions, request, sent>>
  BY <1>1 DEF vars
<1>3. PageTypeOK /\ TimerTells /\ WaitingHere
  BY DEF LoginPageInv
<1>4. Calm => user # None /\ \A r \in Requests : calls[r] # "waiting"
  BY <1>1, <1>3 DEF TimerTells
<1>5. CallsOver /\ \A r \in Requests : calls'[r] # "waiting"
  <2>1. CASE calls' = Left
    <3>1. \A r \in Requests :
             calls'[r] = IF calls[r] = "waiting" THEN "stale" ELSE calls[r]
      BY <2>1 DEF Left
    <3>2. calls' \in [Requests -> {"none", "waiting", "stale", "done"}]
      BY <1>3, <2>1 DEF Left, PageTypeOK
    <3>3. Calm' <=> Calm
      BY <1>1 DEF Calm
    <3>. QED  BY <1>1, <1>3, <1>4, <3>1, <3>2, <3>3 DEF CallsOver, PageTypeOK
  <2>2. CASE calls' = calls /\ state # "signin"
    BY <1>1, <1>3, <2>2 DEF CallsOver, PageTypeOK, WaitingHere
  <2>. QED  BY <1>1, <2>1, <2>2
<1>6. /\ state' \in {"target", "landing"}
      /\ state' # "signin"
  BY <1>1, <1>3 DEF PageTypeOK
<1>7. TimerTells'
  BY <1>1, <1>6 DEF TimerTells
<1>8. Calm' => /\ user # None => sessions[pageBrowser] = user
               /\ user = None => sessions[pageBrowser] = None
               /\ user # None
  BY <1>1, <1>4, Outside DEF Calm
<1>. QED  BY <1>1, <1>2, <1>5, <1>6, <1>7, <1>8, TurnedInOrder

LEMMA SessionEndsInOrder ==
  ASSUME IndInv, LoginPageInv, UNCHANGED pageBrowser,
         pageBrowser \in Browsers,
         PageSignOut(pageBrowser) \/ SignOutFails(pageBrowser)
            \/ Unauthorised(pageBrowser)
  PROVE  LoginPageInv'
<1>. USE DEF Waiting
<1>1. /\ state = "target" /\ UNCHANGED <<calls, timer>>
      /\ lapses' \in {lapses, lapses \cup {"lost"}}
      /\ UNCHANGED <<now, tokens, request, sent>>
      /\ \/ sessions' = sessions
         \/ sessions' = [sessions EXCEPT ![pageBrowser] = None]
  BY DEF PageSignOut, SignOutFails, Unauthorised, SignOut, vars
<1>2. PageTypeOK /\ TimerTells /\ WaitingHere
  BY DEF LoginPageInv
<1>3. \A r \in Requests : calls[r] # "waiting"
  BY <1>1, <1>2 DEF WaitingHere
<1>4. CallsOver
  BY <1>1, <1>2 DEF CallsOver, PageTypeOK
<1>5. Calm => ~timer
  BY <1>1, <1>2 DEF TimerTells
<1>6. timer' \in BOOLEAN
  BY <1>1, <1>2 DEF PageTypeOK
<1>7. CASE PageSignOut(pageBrowser)
  <2>1. /\ user' = None /\ state' = "landing" /\ UNCHANGED <<page, lapses>>
        /\ SignOut(pageBrowser)
           \/ (sessions[pageBrowser] = None /\ UNCHANGED vars)
    BY <1>7 DEF PageSignOut
  <2>2. sessions'[pageBrowser] = None
    BY <2>1 DEF SignOut, vars, IndInv, TypeOK
  <2>3. TimerTells'
    BY <1>1, <1>5, <2>1 DEF TimerTells, Calm
  <2>. QED  BY <1>1, <1>3, <1>4, <1>6, <2>1, <2>2, <2>3, TurnedInOrder
<1>8. CASE SignOutFails(pageBrowser)
  <2>1. /\ lapses' = lapses \cup {"lost"}
        /\ UNCHANGED <<state, page, calls, user, timer>>
    BY <1>8 DEF SignOutFails
  <2>2. ~Calm'
    BY <2>1 DEF Calm
  <2>3. TimerTells'
    BY <2>2 DEF TimerTells
  <2>. QED  BY <1>1, <1>3, <1>4, <1>6, <2>1, <2>2, <2>3, TurnedInOrder
<1>9. CASE Unauthorised(pageBrowser)
  <2>1. /\ sessions[pageBrowser] = None /\ user' = None /\ state' = "signin"
        /\ page' = NewController /\ UNCHANGED lapses /\ UNCHANGED vars
    BY <1>9 DEF Unauthorised
  <2>2. sessions'[pageBrowser] = None
    BY <2>1 DEF vars
  <2>3. TimerTells'
    BY <1>1, <1>5, <2>1 DEF TimerTells, Calm
  <2>. QED  BY <1>1, <1>3, <1>4, <1>6, <2>1, <2>2, <2>3, TurnedInOrder
<1>. QED  BY <1>7, <1>8, <1>9

LEMMA EnterInOrder ==
  ASSUME LoginPageInv, UNCHANGED pageBrowser, OpenSignIn \/ Reload
  PROVE  LoginPageInv'
<1>. USE DEF Waiting
<1>1. PageTypeOK /\ TimerTells /\ WaitingHere
  BY DEF LoginPageInv
<1>2. /\ state' = IF user # None THEN "target" ELSE "signin"
      /\ page' = NewController /\ UNCHANGED user /\ UNCHANGED vars
  BY DEF OpenSignIn, Reload, Enter
<1>3. UNCHANGED <<now, tokens, users, sessions, request, sent>>
  BY <1>2 DEF vars
<1>4. CASE OpenSignIn
  <2>1. state = "landing" /\ UNCHANGED <<calls, timer, lapses>>
    BY <1>4 DEF OpenSignIn
  <2>2. \A r \in Requests : calls[r] # "waiting"
    BY <1>1, <2>1 DEF WaitingHere
  <2>3. CallsOver
    BY <1>1, <2>1 DEF CallsOver, PageTypeOK
  <2>4. TimerTells'
    BY <1>1, <1>2, <2>1 DEF TimerTells, Calm
  <2>5. timer' \in BOOLEAN
    BY <1>1, <2>1 DEF PageTypeOK
  <2>6. Calm' => /\ user # None => sessions[pageBrowser] = user
                 /\ user = None => sessions[pageBrowser] = None
    BY <2>1, <2>2, Outside DEF Calm
  <2>. QED  BY <1>2, <1>3, <2>1, <2>2, <2>3, <2>4, <2>5, <2>6, TurnedInOrder
<1>5. CASE Reload
  <2>1. /\ calls' = [r \in Requests |-> IF calls[r] = "none" THEN "none"
                                        ELSE "done"]
        /\ timer' = FALSE
        /\ lapses' = lapses \cup
              (IF \E r \in Requests : calls[r] \in {"waiting", "stale"}
               THEN {"lost"} ELSE {})
    BY <1>5 DEF Reload, LapseIf
  <2>2. \A r \in Requests :
           /\ calls'[r] # "waiting"
           /\ calls'[r] = calls[r]
              \/ /\ calls'[r] = "done" /\ calls[r] # "none"
                 /\ "lost" \in lapses'
    <3>. SUFFICES ASSUME NEW r \in Requests
                  PROVE  /\ calls'[r] # "waiting"
                         /\ calls'[r] = calls[r]
                            \/ /\ calls'[r] = "done" /\ calls[r] # "none"
                               /\ "lost" \in lapses'
      OBVIOUS
    <3>1. calls[r] \in {"none", "waiting", "stale", "done"}
      BY <1>1 DEF PageTypeOK
    <3>2. calls'[r] = IF calls[r] = "none" THEN "none" ELSE "done"
      BY <2>1
    <3>3. calls[r] \in {"waiting", "stale"} => "lost" \in lapses'
      BY <2>1
    <3>. QED  BY <3>1, <3>2, <3>3
  <2>3. calls' \in [Requests -> {"none", "waiting", "stale", "done"}]
    BY <2>1
  <2>4. CallsOver
    BY <1>1, <2>1, <2>2, <2>3 DEF CallsOver, PageTypeOK
  <2>5. TimerTells'
    BY <1>2, <2>1 DEF TimerTells
  <2>6. Calm' => /\ Calm
                 /\ \A r \in Requests : calls[r] # "waiting"
    BY <2>1 DEF Calm
  <2>7. Calm' => /\ user # None => sessions[pageBrowser] = user
                 /\ user = None => sessions[pageBrowser] = None
    BY <2>6, Outside
  <2>. QED  BY <1>2, <1>3, <2>1, <2>2, <2>4, <2>5, <2>7, TurnedInOrder
<1>. QED  BY <1>4, <1>5

(***************************************************************************)
(* What the server does while the page waits.                              *)
(***************************************************************************)

(* In calm the handler at work is the one whose answer is awaited.         *)
LEMMA AwaitedServed ==
  ASSUME LoginPageInv, Calm, NEW r \in Requests, InFlight(r)
  PROVE  /\ Waiting(r) /\ state = "signin" /\ user = None
         /\ request[r].browser = pageBrowser
         /\ \A v \in Requests : Waiting(v) => v = r
<1>1. Waiting(r)
  BY DEF LoginPageInv, NothingLeftBehind
<1>2. state = "signin"
  BY <1>1 DEF LoginPageInv, WaitingHere
<1>3. user = None
  BY <1>1, <1>2 DEF LoginPageInv, TimerTells
<1>4. request[r].browser = pageBrowser
  BY <1>1 DEF LoginPageInv, CallsKnown, Waiting
<1>5. \A v \in Requests : Waiting(v) => v = r
  BY <1>1 DEF LoginPageInv, OneWaits, Calm
<1>. QED  BY <1>1, <1>2, <1>3, <1>4, <1>5

LEMMA SessionServed ==
  ASSUME IndInv, LoginPageInv, NEW r \in Requests, Served(r),
         UNCHANGED <<state, page, calls, user, timer, lapses, pageBrowser>>
  PROVE  SessionKept'
<1>. SUFFICES ASSUME Calm
              PROVE  SessionKept'
  BY DEF SessionKept, Calm
<1>1. InFlight(r) /\ None # "OK"
  BY NullAssumption DEF Served, Replies
<1>2. /\ Waiting(r) /\ state = "signin" /\ user = None
      /\ request[r].browser = pageBrowser
      /\ \A v \in Requests : Waiting(v) => v = r
  BY <1>1, AwaitedServed
<1>3. /\ request[r].reply = None /\ request[r].browser \in Browsers
      /\ SignIn(r) => request[r].op = "verifyotp"
  BY <1>1 DEF IndInv, HandlersOK, HandlerOK, SignIn
<1>4. \A v \in Requests : Waiting(v)' <=> Waiting(v)
  BY DEF Waiting
<1>5. CASE SignIn(r)
  <2>1. request'[r].reply = "OK" /\ request'[r].op = "verifyotp"
        /\ request'[r].email = request[r].email
    BY <1>1, <1>3, <1>5, FinishServes DEF SignIn, Replies
  <2>2. sessions'[pageBrowser] = request[r].email
    BY <1>2, <1>3, <1>5 DEF SignIn, IndInv, TypeOK
  <2>3. VerifyDone(r)'
    BY <1>2, <1>4, <2>1 DEF VerifyDone
  <2>4. \A v \in Requests : VerifyDone(v)' => v = r
    BY <1>2, <1>4 DEF VerifyDone
  <2>. QED  BY <1>2, <2>1, <2>2, <2>3, <2>4 DEF SessionKept
<1>6. CASE ~SignIn(r)
  <2>1. sessions' = sessions
    BY <1>6 DEF Served
  <2>2. ~VerifyDone(r) /\ ~VerifyDone(r)'
    BY <1>1, <1>3, <1>6 DEF VerifyDone, Served
  <2>3. \A v \in Requests : v # r => request'[v] = request[v]
    BY DEF Served
  <2>4. \A v \in Requests : VerifyDone(v)' <=> VerifyDone(v)
    BY <1>4, <2>2, <2>3 DEF VerifyDone
  <2>. QED  BY <2>1, <2>2, <2>4, <1>2 DEF LoginPageInv, SessionKept, VerifyDone
<1>. QED  BY <1>5, <1>6

LEMMA TokenServed ==
  ASSUME IndInv, LoginPageInv, NEW r \in Requests, Served(r),
         UNCHANGED <<state, page, calls, user, timer, lapses, pageBrowser>>
  PROVE  TokenStored'
<1>. SUFFICES ASSUME lapses = {}, now' < otpLifeSpan, NEW v \in Requests,
                     Waiting(v)', request'[v].op = "sendotp",
                     request'[v].pc = "sending" \/ request'[v].reply = "OK"
              PROVE  \E token \in TokensOf(request[v].email)' :
                         token.hashedOtp = Hash(v)'
  BY DEF TokenStored
<1>1. InFlight(r) /\ now < otpLifeSpan /\ Calm
  BY DEF Served, Calm
<1>2. v = r /\ Waiting(r)
  BY <1>1, AwaitedServed DEF Waiting
<1>3. request'[r].email = request[r].email /\ request[r].op = "sendotp"
  BY <1>2 DEF Served
<1>4. CASE request'[r].pc = "sending"
  <2>1. Hash(r)' = Hash(r)
    BY <1>4 DEF Served, Hash
  <2>2. \E id : Record(r, id) \in tokens'
    BY <1>4 DEF Served, OverwriteToken, InsertToken
  <2>3. PICK id : Record(r, id) \in tokens'
    BY <2>2
  <2>4. /\ Record(r, id).email = request[r].email
        /\ Record(r, id).hashedOtp = Hash(r)
    BY DEF Record
  <2>. QED  BY <1>2, <1>3, <2>1, <2>3, <2>4 DEF TokensOf
<1>5. CASE request'[r].reply = "OK"
  <2>1. SendOtp(r)
    BY <1>3, <1>5 DEF Served
  <2>2. /\ tokens' = tokens /\ request[r].pc = "sending"
        /\ request'[r].otp = request[r].otp
    BY <1>1, <2>1, FinishServes DEF SendOtp, Replies
  <2>3. \E token \in TokensOf(request[r].email) : token.hashedOtp = Hash(r)
    BY <1>1, <1>2, <1>3, <2>2 DEF LoginPageInv, TokenStored
  <2>4. Hash(r)' = Hash(r) /\ TokensOf(request[r].email)'
                                  = TokensOf(request[r].email)
    BY <1>3, <2>2 DEF Hash, TokensOf
  <2>. QED  BY <1>2, <2>3, <2>4
<1>. QED  BY <1>2, <1>4, <1>5

LEMMA PageServed ==
  ASSUME IndInv, LoginPageInv, NEW r \in Requests, Served(r),
         UNCHANGED <<state, page, calls, user, timer, lapses, pageBrowser>>
  PROVE  LoginPageInv'
<1>1. /\ PageTypeOK /\ CallsKnown /\ WaitingHere /\ OneWaits
      /\ NothingLeftBehind /\ TimerTells /\ UserLoggedIn
      /\ BusyWhileWaiting /\ OtpForCheckedEmail
  BY DEF LoginPageInv
<1>2. InFlight(r) /\ request[r].pc # "new"
  BY DEF Served, InFlight, InFlightAt
<1>3. \A v \in Requests : /\ request'[v].op = request[v].op
                          /\ request'[v].email = request[v].email
                          /\ request'[v].browser = request[v].browser
                          /\ request'[v].pc = "new" <=> request[v].pc = "new"
                          /\ InFlight(v)' => InFlight(v)
  BY <1>2 DEF Served, InFlight, InFlightAt
<1>4. \A v \in Requests : Waiting(v)' <=> Waiting(v)
  BY DEF Waiting
<1>5. PageTypeOK' /\ OneWaits' /\ TimerTells' /\ OtpForCheckedEmail'
  BY <1>1 DEF PageTypeOK, OneWaits, TimerTells, OtpForCheckedEmail, Waiting,
              Calm
<1>6. CallsKnown'
  BY <1>1, <1>3 DEF CallsKnown
<1>7. WaitingHere'
  BY <1>1, <1>3, <1>4 DEF WaitingHere
<1>8. NothingLeftBehind'
  BY <1>1, <1>3, <1>4 DEF NothingLeftBehind, Calm
<1>9. UserLoggedIn'
  <2>1. request[r].reply = None /\ None # "OK"
    BY <1>2, NullAssumption DEF IndInv, HandlersOK, HandlerOK, Replies
  <2>2. \A v \in Requests : request[v].reply = "OK" =>
                                request'[v] = request[v]
    BY <2>1 DEF Served
  <2>. QED  BY <1>1, <2>2 DEF UserLoggedIn
<1>10. BusyWhileWaiting'
  BY <1>1, <1>3, <1>4 DEF BusyWhileWaiting
<1>11. SentOtpIsCurrent'
  <2>1. lapses = {} => Waiting(r)
    BY <1>1, <1>2 DEF NothingLeftBehind, Calm
  <2>. QED  BY <1>4, <2>1 DEF SentOtpIsCurrent
<1>. QED  BY <1>5, <1>6, <1>7, <1>8, <1>9, <1>10, <1>11, SessionServed,
             TokenServed
          DEF LoginPageInv

(* Time passes, or a token expires, which takes its lifetime at least.     *)
LEMMA PageAged ==
  ASSUME LoginPageInv,
         UNCHANGED <<state, page, calls, user, timer, lapses, pageBrowser>>,
         UNCHANGED <<request, sessions, sent>>,
         now' < otpLifeSpan => now < otpLifeSpan /\ tokens' = tokens
  PROVE  LoginPageInv'
<1>1. /\ PageTypeOK /\ CallsKnown /\ WaitingHere /\ OneWaits
      /\ NothingLeftBehind /\ TimerTells /\ SessionKept /\ TokenStored
      /\ UserLoggedIn /\ BusyWhileWaiting /\ OtpForCheckedEmail
      /\ SentOtpIsCurrent
  BY DEF LoginPageInv
<1>. USE DEF Waiting
<1>2. PageTypeOK' /\ OneWaits' /\ TimerTells' /\ OtpForCheckedEmail'
  BY <1>1 DEF PageTypeOK, OneWaits, TimerTells, OtpForCheckedEmail, Calm
<1>3. CallsKnown' /\ WaitingHere' /\ NothingLeftBehind'
  BY <1>1 DEF CallsKnown, WaitingHere, NothingLeftBehind, InFlight, Calm
<1>4. UserLoggedIn' /\ BusyWhileWaiting'
  BY <1>1 DEF UserLoggedIn, BusyWhileWaiting
<1>5. SessionKept'
  BY <1>1 DEF SessionKept, VerifyDone, Calm
<1>6. now' < otpLifeSpan => \A email : TokensOf(email)' = TokensOf(email)
  BY DEF TokensOf
<1>7. TokenStored'
  BY <1>1, <1>6 DEF TokenStored, TokensOf, Hash
<1>8. SentOtpIsCurrent'
  BY <1>1, <1>6 DEF SentOtpIsCurrent, TokensOf
<1>. QED  BY <1>2, <1>3, <1>4, <1>5, <1>7, <1>8 DEF LoginPageInv

(***************************************************************************)
(* The page and the server together.                                       *)
(***************************************************************************)

LEMMA PageStarts ==
  ASSUME PageTypeOK, NEW b \in Browsers, PageCalls(b), OneSender'
  PROVE  [OneSenderNext]_vars
<1>1. page.email \in Emails \cup {None}
  BY DEF PageTypeOK, Controllers
<1>2. ASSUME NEW r \in Requests, NEW otp \in Otps, page.email # None,
             \/ Post(r, "checkuser", None, b)
             \/ Post(r, "sendotp", None, b)
             \/ Post(r, "verifyotp", otp, b)
      PROVE  OneSenderNext
  <2>1. page.email \in Emails
    BY <1>1, <1>2
  <2>2. Start(r)
    BY <1>2, <2>1 DEF Post, Start
  <2>. QED  BY <2>2 DEF OneSenderNext
<1>3. ASSUME NEW r \in Requests, page.email # None,
             \/ Post(r, "checkuser", None, b)
             \/ Post(r, "sendotp", None, b)
      PROVE  OneSenderNext
  <2>1. page.email \in Emails
    BY <1>1, <1>3
  <2>2. Start(r)
    BY <1>3, <2>1 DEF Post, Start
  <2>. QED  BY <2>2 DEF OneSenderNext
<1>4. ASSUME NEW answered, SendOtpFor(b, answered)
      PROVE  [OneSenderNext]_vars
  BY <1>3, <1>4 DEF SendOtpFor
<1>5. CASE CheckEmail(b)
  BY <1>3, <1>5 DEF CheckEmail
<1>6. CASE \E r \in Requests : CheckAccepted(r, b)
  BY <1>4, <1>6 DEF CheckAccepted
<1>7. CASE ResendOtp(b)
  BY <1>4, <1>7 DEF ResendOtp
<1>8. CASE \E otp \in Otps : VerifyOtp(otp, b)
  BY <1>2, <1>8 DEF VerifyOtp
<1>. QED  BY <1>5, <1>6, <1>7, <1>8 DEF PageCalls

LEMMA PageActsQuietly ==
  ASSUME NEW b \in Browsers, PageActs(b)
  PROVE  [OneSenderNext]_vars
<1>1. SignOut(b) => OneSenderNext
  BY DEF OneSenderNext, Environment
<1>. QED
  BY <1>1
  DEF PageActs, TypeEmail, CheckRefused, SendAnswered, VerifyRefused,
      VerifyAccepted, AnswerLost, Redirect, PageSignOut, SignOutFails,
      Unauthorised, OpenSignIn, Reload, Enter

LEMMA ServerActsSerially ==
  ASSUME ServerActs
  PROVE  OneSenderNext
BY DEF ServerActs, OneSenderNext, Environment

LEMMA ServerActsInOrder ==
  ASSUME IndInv, SerialInv, LoginPageInv, UNCHANGED pageBrowser, ServerActs
  PROVE  LoginPageInv'
<1>1. UNCHANGED <<state, page, calls, user, timer, lapses>>
  BY DEF ServerActs, pageVars
<1>2. CASE \E r \in Requests : Continue(r) \/ Fail(r)
  BY <1>1, <1>2, ContinueServes, PageServed
<1>3. CASE \E token \in tokens : ExpireToken(token)
  <2>1. PICK token \in tokens : ExpireToken(token)
    BY <1>3
  <2>2. token \in Tokens /\ now \in Nat /\ otpLifeSpan <= token.expireAt
    BY DEF IndInv, TypeOK, SerialInv, TokensLast
  <2>3. /\ token.expireAt <= now
        /\ UNCHANGED <<now, request, sessions, sent>>
    BY <2>1 DEF ExpireToken
  <2>4. ~(now' < otpLifeSpan)
    BY <2>2, <2>3, LoginAssumption DEF Tokens
  <2>. QED  BY <1>1, <2>3, <2>4, PageAged
<1>4. CASE Tick
  <2>1. /\ now \in Nat /\ now' = now + 1
        /\ UNCHANGED <<tokens, request, sessions, sent>>
    BY <1>4 DEF Tick, IndInv, TypeOK
  <2>2. now' < otpLifeSpan => now < otpLifeSpan
    BY <2>1, LoginAssumption
  <2>. QED  BY <1>1, <2>1, <2>2, PageAged
<1>. QED  BY <1>2, <1>3, <1>4 DEF ServerActs

LEMMA PageNextInOrder ==
  ASSUME IndInv, SerialInv, LoginPageInv, pageBrowser \in Browsers,
         UNCHANGED pageBrowser, PageNext
  PROVE  LoginPageInv' /\ [OneSenderNext]_vars
<1>1. CASE PageCalls(pageBrowser) /\ OneSender'
  <2>1. PageTypeOK
    BY DEF LoginPageInv
  <2>2. LoginPageInv'
    BY <1>1, CheckEmailInOrder, CheckAcceptedInOrder, ResendOtpInOrder,
       VerifyOtpInOrder
    DEF PageCalls
  <2>. QED  BY <1>1, <2>1, <2>2, PageStarts
<1>2. CASE PageActs(pageBrowser)
  <2>1. LoginPageInv'
    BY <1>2, TypeEmailInOrder, AnswersInOrder, VerifyAcceptedInOrder,
       AnswerLostInOrder, RedirectInOrder, SessionEndsInOrder, EnterInOrder
    DEF PageActs
  <2>. QED  BY <1>2, <2>1, PageActsQuietly
<1>3. CASE ServerActs
  BY <1>3, ServerActsInOrder, ServerActsSerially
<1>. QED  BY <1>1, <1>2, <1>3 DEF PageNext

LoginInv ==
    /\ IndInv
    /\ SerialInv
    /\ pageBrowser \in Browsers \cup {None}
    /\ pageBrowser # None => LoginPageInv

LEMMA PageInitInOrder ==
  ASSUME Init, PageInit, pageBrowser \in Browsers
  PROVE  LoginPageInv
<1>1. /\ state = "signin" /\ page = NewController
      /\ calls = [r \in Requests |-> "none"]
      /\ user = None /\ timer = FALSE /\ lapses = {}
      /\ sessions = [b \in Browsers |-> None]
  BY DEF PageInit, Init
<1>2. \A r \in Requests : /\ calls[r] = "none" /\ request[r] = NewRequest
                          /\ request[r].pc = "new" /\ ~InFlight(r)
  BY <1>1 DEF Init, NewRequest, InFlight, InFlightAt
<1>3. NewController \in Controllers /\ NewController.signInSteps = "email"
      /\ NewController.buttonClicked = FALSE
      /\ NewController.isOtpSending = FALSE
      /\ NewController.signInMsg = "none"
  BY DEF NewController, Controllers
<1>. HIDE DEF NewController
<1>4. PageTypeOK
  BY <1>1, <1>3 DEF PageTypeOK
<1>5. \A r \in Requests : ~Waiting(r)
  BY <1>2 DEF Waiting
<1>6. CallsKnown /\ WaitingHere /\ OneWaits /\ NothingLeftBehind
  BY <1>2, <1>5 DEF CallsKnown, WaitingHere, OneWaits, NothingLeftBehind
<1>7. TimerTells /\ TokenStored /\ UserLoggedIn /\ BusyWhileWaiting
      /\ OtpForCheckedEmail /\ SentOtpIsCurrent
  BY <1>1, <1>3, <1>5
  DEF TimerTells, TokenStored, UserLoggedIn, BusyWhileWaiting,
      OtpForCheckedEmail, SentOtpIsCurrent
<1>8. SessionKept
  BY <1>1, <1>5 DEF SessionKept, VerifyDone
<1>. QED  BY <1>4, <1>6, <1>7, <1>8 DEF LoginPageInv

LEMMA LoginInitInv ==
  LoginInit => LoginInv
BY InitInv, SerialInit, PageInitInOrder DEF LoginInit, LoginInv

LEMMA LoginNextInv ==
  LoginInv /\ [LoginNext]_<<vars, pageVars, pageBrowser>> => LoginInv'
<1>. SUFFICES ASSUME LoginInv, [LoginNext]_<<vars, pageVars, pageBrowser>>
              PROVE  LoginInv'
  OBVIOUS
<1>1. IndInv /\ SerialInv /\ pageBrowser \in Browsers \cup {None}
  BY DEF LoginInv
<1>2. UNCHANGED pageBrowser
  BY DEF LoginNext
<1>3. [OneSenderNext]_vars
  BY <1>1, <1>2, PageNextInOrder DEF LoginInv, LoginNext
<1>4. [Next]_vars
  BY <1>3 DEF OneSenderNext, Next
<1>5. IndInv' /\ SerialInv'
  BY <1>1, <1>3, <1>4, NextInv, SerialNext
<1>6. ASSUME pageBrowser # None
      PROVE  LoginPageInv'
  <2>1. LoginPageInv /\ pageBrowser \in Browsers
    BY <1>1, <1>6 DEF LoginInv
  <2>2. CASE LoginNext
    BY <1>1, <1>2, <1>6, <2>1, <2>2, PageNextInOrder DEF LoginNext
  <2>3. CASE UNCHANGED <<vars, pageVars, pageBrowser>>
    <3>1. /\ UNCHANGED <<state, page, calls, user, timer, lapses, pageBrowser>>
          /\ UNCHANGED <<now, tokens, request, sessions, sent>>
      BY <2>3 DEF vars, pageVars
    <3>. QED  BY <2>1, <3>1, PageAged
  <2>. QED  BY <2>2, <2>3
<1>. QED  BY <1>1, <1>2, <1>5, <1>6 DEF LoginInv

(* An OTP that was used is gone, for requests of which no two send an OTP  *)
(* to one email at the same time.                                          *)
THEOREM UsedOtpsGone ==
  OneSenderSpec => []UsedOtpIsGone
<1>1. Init => IndInv /\ SerialInv
  BY InitInv, SerialInit
<1>2. IndInv /\ SerialInv /\ [OneSenderNext]_vars => IndInv' /\ SerialInv'
  BY NextInv, SerialNext DEF OneSenderNext, Next
<1>3. IndInv /\ SerialInv => UsedOtpIsGone
  BY DEF SerialInv
<1>. QED  BY <1>1, <1>2, <1>3, PTL DEF OneSenderSpec

(* And the page of the login tells the truth at each of its steps: its     *)
(* button is disabled while it waits, an OTP is asked for an email of an   *)
(* agency, the OTP said to be sent is the one the server accepts, and who  *)
(* is remembered did log in and has the session.                           *)
THEOREM LoginAgrees ==
  LoginSpec => []LoginInOrder
<1>1. LoginInv => LoginInOrder
  BY PageIsTruthful DEF LoginInv, LoginInOrder, SerialInv
<1>. QED  BY <1>1, LoginInitInv, LoginNextInv, PTL DEF LoginSpec
=============================================================================
