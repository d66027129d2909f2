--------------------------- MODULE MCTokenManager ---------------------------
(* Instances of TokenManager for TLC. *)
EXTENDS TokenManager, TLC

(* Workers and users are interchangeable.  Token values are drawn in a     *)
(* fixed order (NewToken), so there is nothing to permute.                 *)
Symmetry == Permutations(Workers) \cup Permutations(Users)
=============================================================================
