--------------------------- MODULE BlockTreeProofs ---------------------------
(***************************************************************************)
(* Facts about ancestors in a block tree, for every tree.                  *)
(***************************************************************************)
EXTENDS BlockTree, WellFoundedInduction, TLAPS

USE BlockTreeAssumption

(* A walk along predecessor hashes starts at its block and stays in the    *)
(* tree.                                                                   *)
LEMMA AncBasic ==
    ASSUME NEW b \in Blocks
    PROVE  /\ Anc[b] \subseteq Blocks
           /\ b \in Anc[b]
           /\ ParentClosed(Anc[b])
BY DEF Anc, ParentClosed

(* The walk visits nothing outside a parent-closed set it starts in.       *)
LEMMA AncLeast ==
    ASSUME NEW b \in Blocks, NEW S \in SUBSET Blocks, b \in S, ParentClosed(S)
    PROVE  Anc[b] \subseteq S
BY DEF Anc

(* A walk from a visited block visits nothing new.                         *)
LEMMA AncTrans ==
    ASSUME NEW b \in Blocks, NEW c \in Anc[b]
    PROVE  c \in Blocks /\ Anc[c] \subseteq Anc[b]
<1>1. c \in Blocks
  BY AncBasic
<1>2. QED
  BY <1>1, AncBasic, AncLeast

(* One step of the walk: the block, then the walk from its predecessor.    *)
LEMMA AncStep ==
    ASSUME NEW b \in Blocks
    PROVE  Parent[b] \in Blocks /\ Anc[b] = {b} \cup Anc[Parent[b]]
<1>1. Parent[b] \in Blocks /\ Parent[b] \in Anc[b]
  BY AncBasic DEF ParentClosed
<1>2. {b} \cup Anc[Parent[b]] \subseteq Anc[b]
  BY <1>1, AncTrans, AncBasic
<1>3. ParentClosed({b} \cup Anc[Parent[b]])
  BY <1>1, AncBasic DEF ParentClosed
<1>4. Anc[b] \subseteq {b} \cup Anc[Parent[b]]
  <2>1. {b} \cup Anc[Parent[b]] \in SUBSET Blocks
    BY <1>1, AncBasic
  <2>2. QED
    BY <2>1, <1>3, AncLeast
<1>5. QED
  BY <1>1, <1>2, <1>4

(* Block numbers fall along the walk.                                      *)
LEMMA AncNo ==
    ASSUME NEW b \in Blocks, NEW c \in Anc[b]
    PROVE  c = b \/ No[c] < No[b]
<1> DEFINE S == {x \in Blocks : x = b \/ No[x] < No[b]}
<1>1. ParentClosed(S)
  <2> SUFFICES ASSUME NEW x \in S PROVE Parent[x] \in S
    BY DEF ParentClosed
  <2>1. CASE x = Genesis
    BY <2>1
  <2>2. CASE x # Genesis
    BY <2>2
  <2>3. QED
    BY <2>1, <2>2
<1>2. Anc[b] \subseteq S
  BY <1>1, AncLeast
<1>3. QED
  BY <1>2

(* Of two visited blocks, the walk from one visits the other.              *)
LEMMA AncLinear ==
    ASSUME NEW b \in Blocks, NEW c \in Anc[b], NEW d \in Anc[b]
    PROVE  c \in Anc[d] \/ d \in Anc[c]
<1> DEFINE S == {x \in Anc[b] : \A y \in Anc[b] : x \in Anc[y] \/ y \in Anc[x]}
<1>1. S \in SUBSET Blocks /\ b \in S
  BY AncBasic
<1>2. ParentClosed(S)
  <2> SUFFICES ASSUME NEW x \in S PROVE Parent[x] \in S
    BY DEF ParentClosed
  <2>1. x \in Blocks /\ Parent[x] \in Anc[b]
    BY AncBasic DEF ParentClosed
  <2>2. ASSUME NEW y \in Anc[b]
        PROVE  Parent[x] \in Anc[y] \/ y \in Anc[Parent[x]]
    <3>1. y \in Blocks
      BY AncBasic
    <3>2. CASE x \in Anc[y]
      BY <3>1, <3>2, AncBasic DEF ParentClosed
    <3>3. CASE y \in Anc[x]
      <4>1. y = x \/ y \in Anc[Parent[x]]
        BY <2>1, <3>3, AncStep
      <4>2. Parent[x] \in Anc[x]
        BY <2>1, AncBasic DEF ParentClosed
      <4>3. QED
        BY <4>1, <4>2
    <3>4. QED
      BY <3>2, <3>3
  <2>3. QED
    BY <2>1, <2>2
<1>3. Anc[b] \subseteq S
  BY <1>1, <1>2, AncLeast
<1>4. QED
  BY <1>3

(* The walk visits at most one block of each number.                       *)
LEMMA AncUnique ==
    ASSUME NEW b \in Blocks, NEW c \in Anc[b], NEW d \in Anc[b], No[c] = No[d]
    PROVE  c = d
<1>1. c \in Blocks /\ d \in Blocks
  BY AncBasic
<1>2. c \in Anc[d] \/ d \in Anc[c]
  BY AncLinear
<1>3. QED
  BY <1>1, <1>2, AncNo

(* A set of block numbers has a least element.                             *)
LEMMA LeastNumber ==
    ASSUME NEW T \in SUBSET Nat, T # {}
    PROVE  \E n \in T : \A m \in T : n <= m
<1> DEFINE R == {rs \in Nat \X Nat : rs[1] < rs[2]}
<1>1. IsWellFoundedOn(R, Nat)
  BY NatLessThanWellFounded DEF OpToRel
<1>2. PICK n \in T : \A m \in T : ~(<<m, n>> \in R)
  <2> HIDE DEF R
  <2>1. QED
    BY <1>1, WFMin
<1>3. \A m \in T : ~(m < n)
  BY <1>2
<1>4. QED
  BY <1>3

(* The walk ends at the genesis block.                                     *)
LEMMA AncGenesis ==
    ASSUME NEW b \in Blocks
    PROVE  Genesis \in Anc[b]
<1> DEFINE T == {No[x] : x \in Anc[b]}
<1>1. T \in SUBSET Nat /\ T # {}
  BY AncBasic
<1>2. PICK n \in T : \A m \in T : n <= m
  <2> HIDE DEF T
  <2>1. QED
    BY <1>1, LeastNumber
<1>3. PICK x \in Anc[b] : No[x] = n
  BY <1>2
<1>4. x \in Blocks /\ Parent[x] \in Anc[b] /\ Parent[x] \in Blocks
  BY AncBasic DEF ParentClosed
<1>5. No[x] <= No[Parent[x]]
  BY <1>2, <1>3, <1>4
<1>6. x = Genesis
  BY <1>4, <1>5
<1>7. QED
  BY <1>3, <1>6

(* The walk visits a block of every number from its start down to 0.       *)
LEMMA AncExists ==
    ASSUME NEW b \in Blocks, NEW n \in Nat, n <= No[b]
    PROVE  \E c \in Anc[b] : No[c] = n
<1> SUFFICES ASSUME \A c \in Anc[b] : No[c] # n PROVE FALSE
  OBVIOUS
<1> DEFINE S == {x \in Anc[b] : No[x] > n}
<1>1. S \in SUBSET Blocks /\ b \in S
  BY AncBasic
<1>2. ParentClosed(S)
  <2> SUFFICES ASSUME NEW x \in S PROVE Parent[x] \in S
    BY DEF ParentClosed
  <2>1. x \in Blocks /\ Parent[x] \in Anc[b] /\ Parent[x] \in Blocks
    BY AncBasic DEF ParentClosed
  <2>2. x # Genesis
    OBVIOUS
  <2>3. QED
    BY <2>1, <2>2
<1>3. Genesis \in S
  BY <1>1, <1>2, AncLeast, AncGenesis
<1>4. QED
  BY <1>3

(* The part of the walk above an ancestor is the part with higher numbers. *)
LEMMA BranchNo ==
    ASSUME NEW top \in Blocks, NEW start \in Anc[top], NEW c \in Anc[top]
    PROVE  c \in Branch(top, start) <=> No[c] > No[start]
<1>1. c \in Blocks /\ start \in Blocks
  BY AncBasic
<1>2. ASSUME c \in Anc[start] PROVE ~(No[c] > No[start])
  BY <1>1, <1>2, AncNo
<1>3. ASSUME c \notin Anc[start] PROVE No[c] > No[start]
  <2>1. start \in Anc[c]
    BY <1>3, AncLinear
  <2>2. start # c
    BY <1>1, <1>3, AncBasic
  <2>3. QED
    BY <1>1, <2>1, <2>2, AncNo
<1>4. QED
  BY <1>2, <1>3 DEF Branch

(* The block of a branch with a given number, as the swap of the mapping   *)
(* looks it up.                                                            *)
LEMMA BranchChoose ==
    ASSUME NEW top \in Blocks, NEW start \in Anc[top], NEW n \in Nat,
           n > No[start], n <= No[top]
    PROVE  LET c == CHOOSE b \in Branch(top, start) : No[b] = n
           IN  c \in Branch(top, start) /\ c \in Anc[top] /\ No[c] = n
<1>1. PICK c \in Anc[top] : No[c] = n
  BY AncExists
<1>2. c \in Branch(top, start)
  BY <1>1, BranchNo
<1>3. QED
  BY <1>1, <1>2 DEF Branch

(* A block of a branch has its predecessor in the branch or at its root.   *)
LEMMA BranchParent ==
    ASSUME NEW top \in Blocks, NEW start \in Anc[top], NEW c \in Branch(top, start)
    PROVE  /\ c \in Blocks /\ c # Genesis
           /\ Parent[c] \in Branch(top, start) \cup {start}
<1>1. c \in Anc[top] /\ c \in Blocks /\ start \in Blocks /\ No[c] > No[start]
  BY AncBasic, BranchNo DEF Branch
<1>2. c # Genesis
  BY <1>1
<1>3. Parent[c] \in Anc[top] /\ Parent[c] \in Blocks /\ No[c] = No[Parent[c]] + 1
  BY <1>1, <1>2, AncBasic DEF ParentClosed
<1>4. CASE No[Parent[c]] > No[start]
  BY <1>1, <1>2, <1>3, <1>4, BranchNo
<1>5. CASE No[Parent[c]] = No[start]
  BY <1>1, <1>2, <1>3, <1>5, AncUnique
<1>6. QED
  BY <1>1, <1>2, <1>3, <1>4, <1>5
=============================================================================
