--------------------------- MODULE MCBafsCommit ---------------------------
(* Small instances of BafsCommit for TLC. *)
EXTENDS BafsCommitInv, TLC

ContentSymmetry == Permutations(Content)
===========================================================================
