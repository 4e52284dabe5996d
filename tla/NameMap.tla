------------------------------ MODULE NameMap ------------------------------
(***************************************************************************)
(* What the directories of a volume promise: a map from (directory, name)  *)
(* to inode numbers.  Creating binds one free name to a number that no     *)
(* name has, unlinking frees one name, and losing the power goes back to   *)
(* the map of the last commit.                                             *)
(***************************************************************************)
CONSTANTS Dir, Name, NoInode

VARIABLES names, saved   \* the current map and the committed one

mapVars == <<names, saved>>

MapInit == names = [place \in Dir \X Name |-> NoInode] /\ saved = names

Bind(d, n, child) ==
    /\ names[<<d, n>>] = NoInode
    /\ \A place \in Dir \X Name : names[place] # child
    /\ names' = [names EXCEPT ![<<d, n>>] = child]
    /\ UNCHANGED saved

Unbind(d, n) ==
    /\ names[<<d, n>>] # NoInode
    /\ names' = [names EXCEPT ![<<d, n>>] = NoInode]
    /\ UNCHANGED saved

Save == saved' = names /\ UNCHANGED names

Revert == names' = saved /\ UNCHANGED saved

MapNext ==
    \/ \E d \in Dir, n \in Name : Unbind(d, n) \/ \E child \in Dir : Bind(d, n, child)
    \/ Save
    \/ Revert

MapSpec == MapInit /\ [][MapNext]_mapVars
===========================================================================
