---------------------------- MODULE MCAdminLogin -----------------------------
(***************************************************************************)
(* Instances of LoginPage for TLC: any requests reach the server, or those *)
(* of one browser's login page.                                            *)
(***************************************************************************)
EXTENDS LoginPage, TLC

(* Requests, OTPs and browsers are interchangeable, and so are the emails  *)
(* of agencies.                                                            *)
Symmetry == Permutations(Requests) \cup Permutations(Otps)
                \cup Permutations(Whitelisted) \cup Permutations(Browsers)

(* Bound: one request at most fails, and none only looks an email up or is *)
(* about an email of no agency, as those of the page may.                  *)
OneLost ==
    /\ Cardinality({r \in Requests : request[r].reply = "ERROR"}) <= 1
    /\ \A r \in Requests : /\ request[r].op # "checkuser"
                          /\ request[r].email \in Whitelisted \cup {None}

(* Bound: of the page's lapses one kind, and then nothing fails or expires.*)
OneLapse ==
    lapses # {} => /\ Cardinality(lapses) = 1
                   /\ now = 0
                   /\ \A r \in Requests : request[r].reply # "ERROR"

Few == IF pageBrowser = None THEN OneLost ELSE OneLapse
=============================================================================
