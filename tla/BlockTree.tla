------------------------------ MODULE BlockTree ------------------------------
(***************************************************************************)
(* The universe of blocks that a node can meet: a tree rooted at the       *)
(* genesis block.  A block header carries its number and the hash of its   *)
(* predecessor (types/blockchain.pb.go, BlockHeader); as hashes do not     *)
(* collide, a block stands for its hash, and following the predecessor     *)
(* hash is the function Parent.                                            *)
(***************************************************************************)
EXTENDS Integers, FiniteSets

CONSTANTS
    Blocks,     \* the blocks, each identified with its hash
    Genesis,    \* block number 0
    Parent,     \* Header.PrevBlockHash, as a function (Parent[Genesis] = Genesis)
    No          \* Header.BlockNo

ASSUME BlockTreeAssumption ==
    /\ Genesis \in Blocks
    /\ Parent \in [Blocks -> Blocks]
    /\ Parent[Genesis] = Genesis
    /\ No \in [Blocks -> Nat]
    /\ No[Genesis] = 0
    /\ \A b \in Blocks \ {Genesis} : No[b] = No[Parent[b]] + 1

(* The block numbers in use: the keys of the number-to-hash mapping.       *)
Heights == {No[b] : b \in Blocks}

(* A set of blocks that contains the predecessor of each of its members.   *)
ParentClosed(S) == \A c \in S : Parent[c] \in S

(* Anc[b] is what a loop that follows predecessor hashes from b down to    *)
(* the genesis block visits: the least parent-closed set that contains b.  *)
Anc == [b \in Blocks |->
          {c \in Blocks :
             \A S \in SUBSET Blocks : b \in S /\ ParentClosed(S) => c \in S}]

(* The blocks a walk from top visits before it meets start.                *)
Branch(top, start) == Anc[top] \ Anc[start]
=============================================================================
