---------------------------- MODULE MCBafsBTree ----------------------------
(***************************************************************************)
(* BafsBTree for TLC: a value is the number of its bytes.                  *)
(***************************************************************************)
EXTENDS BafsBTree

SizeIsValue(v) == v
===========================================================================
