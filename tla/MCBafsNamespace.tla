-------------------------- MODULE MCBafsNamespace --------------------------
(***************************************************************************)
(* BafsNamespace for TLC: hash functions with and without a collision.     *)
(* With Distinct, names are interchangeable.                               *)
(***************************************************************************)
EXTENDS BafsNamespace, TLC

Distinct == [n \in Name |-> n]
Colliding == [n \in Name |-> CHOOSE m \in Name : TRUE]

NameSymmetry == Permutations(Name \ BadName)
===========================================================================
