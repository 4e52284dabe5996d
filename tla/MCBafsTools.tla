---------------------------- MODULE MCBafsTools ----------------------------
(* Small instances of BafsTools for TLC. *)
EXTENDS BafsTools, TLC

ContentSymmetry == Permutations(Content)
===========================================================================
