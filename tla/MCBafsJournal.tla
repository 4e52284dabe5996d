--------------------------- MODULE MCBafsJournal ---------------------------
(* A small instance of BafsJournal for TLC. *)
EXTENDS BafsJournal, TLC

Zero == <<{}, {}, {}, {}>>
Text == <<{0}, {1, 3}, {}, {31}>>

\* One block, two blocks, and one that does not fit; contents that agree in part.
DirtyCaches ==
    { 1 :> Text, 2 :> Zero, (1 :> Text) @@ (2 :> Zero), (1 :> Zero) @@ (3 :> Text),
      (1 :> Zero) @@ (2 :> Zero) @@ (3 :> Zero) }
===========================================================================
