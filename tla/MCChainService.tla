--------------------------- MODULE MCChainService ----------------------------
(***************************************************************************)
(* Instances of ChainService for TLC.  The small tree                      *)
(*                                                                         *)
(*      g - a1 - a2                                                        *)
(*            \- b2 - b3                                                   *)
(*                                                                         *)
(* has one reorganization, with a branch root that is not the genesis      *)
(* block; the large one adds a branch from the genesis block and one that  *)
(* leads back to the first main chain:                                     *)
(*                                                                         *)
(*      g - a1 - a2 - a3 - a4                                              *)
(*       \    \- b2 - b3                                                   *)
(*        \- c1 - c2 - c3                                                  *)
(*                                                                         *)
(* t1, t2 and t4 are on two branches, t3 on one.  The blocks b2, c3 and a4 *)
(* are empty, and so have the state root of their predecessor.             *)
(***************************************************************************)
EXTENDS ChainService

SmallTree == {"g", "a1", "a2", "b2", "b3"}
LargeTree == SmallTree \cup {"a3", "a4", "c1", "c2", "c3"}

ParentIn(tree) == [b \in tree |->
    CASE b = "a2" -> "a1" [] b = "a3" -> "a2" [] b = "a4" -> "a3"
      [] b = "b2" -> "a1" [] b = "b3" -> "b2"
      [] b = "c2" -> "c1" [] b = "c3" -> "c2"
      [] OTHER -> "g"]
NoIn(tree) == [b \in tree |->
    CASE b = "g" -> 0 [] b \in {"a1", "c1"} -> 1 [] b \in {"a2", "b2", "c2"} -> 2
      [] b = "a4" -> 4 [] OTHER -> 3]
TxsIn(tree) == [b \in tree |->
    CASE b = "a1" -> {"t1"} [] b = "a2" -> {"t2", "t3"} [] b = "a3" -> {"t4"} [] b = "b3" -> {"t2"}
      [] b = "c1" -> {"t4"} [] b = "c2" -> {"t1"} [] OTHER -> {}]
RootIn(tree) == [b \in tree |->
    CASE b = "b2" -> "a1" [] b = "c3" -> "c2" [] b = "a4" -> "a3" [] OTHER -> b]

SmallParent == ParentIn(SmallTree)
SmallNo == NoIn(SmallTree)
SmallTxsOf == TxsIn(SmallTree)
SmallRootOf == RootIn(SmallTree)
LargeParent == ParentIn(LargeTree)
LargeNo == NoIn(LargeTree)
LargeTxsOf == TxsIn(LargeTree)
LargeRootOf == RootIn(LargeTree)
=============================================================================
