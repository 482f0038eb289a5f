------------------------------- MODULE Ledger --------------------------------
(***************************************************************************)
(* What the chain service promises to its clients, without databases,      *)
(* caches, reorganization steps or crashes: the node has one durable best  *)
(* block.  It moves to a child of the best block, or to the tip of a       *)
(* strictly longer branch, in one indivisible step, and it never moves     *)
(* back.                                                                   *)
(***************************************************************************)
EXTENDS BlockTree

VARIABLE head

Init == head = Genesis

(* A block received or produced on top of the best block is connected.     *)
Extend(b) ==
    /\ b # head
    /\ Parent[b] = head
    /\ head' = b

(* A longer branch replaces the main chain.                                *)
Reorganize(b) ==
    /\ No[b] > No[head]
    /\ head \notin Anc[b]
    /\ head' = b

Next == \E b \in Blocks : Extend(b) \/ Reorganize(b)

Spec == Init /\ [][Next]_head
=============================================================================
