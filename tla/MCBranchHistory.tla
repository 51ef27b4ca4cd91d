------------------------- MODULE MCBranchHistory -------------------------
(* Small instances of BranchHistory: a validator is "none" or accepts a    *)
(* single content.  Branches and contents can be exchanged: no action and  *)
(* no property, the refined specification included, names one of them.     *)
EXTENDS BranchHistory

MCValidators == {Content} \cup {{c} : c \in Content}
MCSymmetry == Permutations(Branches) \cup Permutations(Content)
=============================================================================
