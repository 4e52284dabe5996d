------------------------------ MODULE FreePool ------------------------------
(***************************************************************************)
(* What a block pool promises: a set of free blocks, from which a caller   *)
(* takes a run of consecutive blocks, and to which it gives one back.      *)
(***************************************************************************)
EXTENDS Integers

CONSTANTS Block, Size   \* the blocks (numbers) and the sizes a caller asks for

VARIABLES free, held

Run(a, n) == a .. (a + n - 1)

PoolInit == free = Block /\ held = {}

Take(a, n) ==
    /\ Run(a, n) \subseteq free
    /\ free' = free \ Run(a, n)
    /\ held' = held \cup Run(a, n)

Give(a, n) ==
    /\ Run(a, n) \subseteq held
    /\ free' = free \cup Run(a, n)
    /\ held' = held \ Run(a, n)

PoolNext == \E a \in Block, n \in Size : Take(a, n) \/ Give(a, n)

PoolSpec == PoolInit /\ [][PoolNext]_<<free, held>>
=============================================================================
