--------------------------- MODULE MCDKIMSigning ---------------------------
(* Instances of DKIMSigning for TLC. *)
EXTENDS DKIMSigning, TLC

Symmetry == Permutations(Workers) \cup Permutations(Generators)
            \cup Permutations(Selectors) \cup Permutations(Keys)
            \cup Permutations(DomainIDs)
=============================================================================
