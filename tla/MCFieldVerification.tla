------------------------- MODULE MCFieldVerification -------------------------
(***************************************************************************)
(* Instances of FieldVerification for TLC.                                 *)
(***************************************************************************)
EXTENDS FieldVerification, TLC

(* Requests, answers and OTPs are interchangeable.                         *)
Symmetry == Permutations(Requests) \cup Permutations(Answers)
                \cup Permutations(Otps)
=============================================================================
