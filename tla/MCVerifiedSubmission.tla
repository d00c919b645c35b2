------------------------ MODULE MCVerifiedSubmission -------------------------
(***************************************************************************)
(* Instances of VerifiedSubmission for TLC.                                *)
(***************************************************************************)
EXTENDS VerifiedSubmission, TLC

(* OTPs are interchangeable, and so are answers that are not empty.        *)
Symmetry == Permutations(Answers \ {Empty}) \cup Permutations(Otps)
=============================================================================
