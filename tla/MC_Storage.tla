----------------------------- MODULE MC_Storage -----------------------------
(* Parts of the storage stack that share no state, checked one at a time: which *)
(* one runs is chosen initially.                                                *)
EXTENDS FreeSpace, VirtioBlk, Names

VARIABLE part    \* the part that runs

spaceVars == vars

(* File names are only compared. *)
NameSymmetry == Permutations(Components)

StorageInit ==
    /\ Init /\ BlkInit /\ TreeInit
    /\ part \in {"FreeSpace", "VirtioBlk", "Names"}

StorageNext ==
    /\ UNCHANGED part
    /\ \/ part = "FreeSpace" /\ Next /\ UNCHANGED <<blkVars, treeVars>>
       \/ part = "VirtioBlk" /\ BlkNext /\ UNCHANGED <<spaceVars, treeVars>>
       \/ part = "Names" /\ TreeNext /\ UNCHANGED <<spaceVars, blkVars>>

StorageSpec == StorageInit /\ [][StorageNext]_<<spaceVars, blkVars, treeVars, part>>
=============================================================================
