----------------------------- MODULE MCBTreeFailures -----------------------------
(***************************************************************************)
(* The tree with failures in two sizes: few keys in few blocks, whatever    *)
(* allocations fail and use the file up; and all keys in all blocks, enough *)
(* for a full inner node below the root, as long as no block is wasted.     *)
(***************************************************************************)
EXTENDS MCBTree

CONSTANTS FewKeys, FewBlocks    \* bounds of the first size

MCFew ==
    /\ block_count <= FewBlocks + 1
    /\ \A b \in DOMAIN nodes : KeysIn(b) \subseteq 1 .. FewKeys
MCNoneWasted == Below(Top) = 1 .. block_count - 1

MCConstraint == torn \/ MCFew \/ MCNoneWasted
==================================================================================
