-------------------------- MODULE ChainReorgProofs --------------------------
(***************************************************************************)
(* The inductive invariant of ChainService is kept by the steps of a       *)
(* reorganization up to the swap: one lemma for each action and in it one  *)
(* step for each conjunct.                                                 *)
(***************************************************************************)
EXTENDS ChainConnectProofs

(* gather: the branch root is the highest main chain block below the       *)
(* branch's top, so the old best block is not on the new branch.           *)
LEMMA GatherInv ==
    ASSUME IndInv, Gather
    PROVE  IndInv'
<1> USE DEF IndInv, Gather
<1>0. UNCHANGED <<hashAt, latest>> /\ Tip' = Tip
  BY DEF disk, Tip
<1>1. TypeOK'
  <2>1. pc' \in PCs
    BY <1>0, AncBasic DEF PCs, RunningPCs, Fail
  <2>2. QED
    BY <1>0, AncBasic, <2>1, SMTT(20) DEF TypeOK, Fail, Put, disk, consensus, pools, handler
<1>2. StoredClosed'
  BY <1>0 DEF StoredClosed, disk, consensus, pools, handler, Fail
<1>3. MappingIsChain'
  BY MappingFrame DEF disk
<1>4. BestIsTip'
  BY <1>0 DEF BestIsTip, disk, consensus, pools, handler, Fail
<1>5. ProcessorOK'
  BY <1>0 DEF ProcessorOK, disk, consensus, pools, handler, Fail
<1>6. ReorganizerOK'
  <2>1. PICK b \in Anc[last] : /\ IsBranchRoot(b) /\ pc' \in {"idle", "rollback"}
                               /\ pc' = "rollback" => b # best /\ brStart' = b
    BY DEF Fail
  <2>2. CASE pc' = "idle"
    BY <2>2 DEF ReorganizerOK, Reorganizing, SwapPCs
  <2>3. CASE pc' = "rollback"
    <3>1. /\ last \in Blocks /\ b \in Blocks /\ best \in Blocks /\ best = Tip /\ No[best] = latest
          /\ last \in stored /\ ~isMain /\ No[best] < No[last]
      BY AncBasic DEF TypeOK, BestIsTip, MappingIsChain, ProcessorOK
    <3>2. b \in Anc[best]
      BY <2>1, <3>1 DEF IsBranchRoot, OnMainChain, MappingIsChain, Heights
    <3>3. No[b] < No[best]
      BY <2>1, <2>3, <3>1, <3>2, AncNo
    <3>4. OnMainChain(best)
      BY BlockTreeAssumption, ChainAssumption, <3>1 DEF OnMainChain, Tip
    <3>5. best \notin Anc[last]
      BY BlockTreeAssumption, ChainAssumption, <2>1, <3>1, <3>3, <3>4 DEF IsBranchRoot
    <3>6. Fork(brStart, best, last)'
      BY <2>1, <2>3, <3>1, <3>2, <3>3, <3>5 DEF Fork
    <3>7. QED
      BY <2>3, <3>1, <3>6 DEF ReorganizerOK, disk, handler
  <2>4. QED
    BY <2>1, <2>2, <2>3
<1>7. MarkerOK'
  BY <1>0 DEF MarkerOK, Reorganizing, SwapPCs, disk, consensus, pools, handler, Fail
<1>8. StartOK'
  BY DEF StartOK, MarkerOK, SwapPCs, Fail, disk
<1>9. NeverFatal'
  BY <1>0 DEF NeverFatal, disk, consensus, pools, handler, Fail
<1>10. QED
  BY <1>1, <1>2, <1>3, <1>4, <1>5, <1>6, <1>7, <1>8, <1>9

(* rollback: under recovery the consensus has not loaded its LIB yet and   *)
(* cannot refuse.                                                          *)
LEMMA RollbackInv ==
    ASSUME IndInv, Rollback
    PROVE  IndInv'
<1> USE DEF IndInv, Rollback
<1>0. UNCHANGED <<hashAt, latest>> /\ Tip' = Tip
  BY DEF disk, Tip
<1>a. ~isMain /\ last \in stored /\ Fork(brStart, best, last)
  BY DEF ReorganizerOK, Reorganizing
<1>b. marker # Nil => NeedReorganization(No[brStart])
  BY BlockTreeAssumption, ChainAssumption DEF StartOK, NeedReorganization, TypeOK
<1>1. TypeOK'
  <2>1. pc' \in PCs
    BY <1>0 DEF PCs, RunningPCs
  <2>2. QED
    BY <1>0, <2>1, SMTT(20) DEF TypeOK, Update, disk, consensus, pools, handler
<1>2. StoredClosed'
  BY <1>0 DEF StoredClosed, disk, consensus, pools, handler
<1>3. MappingIsChain'
  BY MappingFrame DEF disk
<1>4. BestIsTip'
  BY <1>0 DEF BestIsTip, disk, consensus, pools, handler
<1>5. ProcessorOK'
  BY <1>0, <1>a, <1>b DEF ProcessorOK, MarkerOK, disk, consensus, pools, handler
<1>6. ReorganizerOK'
  <2>1. Branch(brStart, brStart) = {}
    BY DEF Branch
  <2>2. brStart \in Blocks /\ brStart \in Anc[brStart]
    BY AncBasic DEF TypeOK
  <2>3. QED
    BY <1>a, <1>b, <2>1, <2>2 DEF ReorganizerOK, Reorganizing, SwapPCs, Fork, ExecutedUpTo, disk
<1>7. MarkerOK'
  BY <1>0, <1>b DEF MarkerOK, Reorganizing, SwapPCs, ExecutedUpTo, disk, consensus, pools, handler
<1>8. StartOK'
  BY <1>0 DEF StartOK, disk, consensus, pools, handler
<1>9. NeverFatal'
  BY <1>b DEF NeverFatal, disk, consensus, pools, handler
<1>10. QED
  BY <1>1, <1>2, <1>3, <1>4, <1>5, <1>6, <1>7, <1>8, <1>9

(* rollforward goes on with a child of the block executed last.            *)
LEMMA RollForwardInv ==
    ASSUME IndInv, RollForward
    PROVE  IndInv'
<1> USE DEF IndInv, RollForward
<1>0. UNCHANGED <<hashAt, latest>> /\ Tip' = Tip
  BY DEF disk, Tip
<1>a. ~isMain /\ last \in stored /\ Fork(brStart, best, last) /\ ExecutedUpTo(blk, brStart)
  BY DEF ReorganizerOK, Reorganizing
<1>b. NewBlocks \subseteq Blocks
  BY AncBasic DEF NewBlocks, Branch, TypeOK
<1>1. TypeOK'
  <2>1. pc' \in PCs
    BY <1>0, <1>b DEF PCs, RunningPCs
  <2>2. QED
    BY <1>0, <1>b, <2>1, SMTT(20) DEF TypeOK, disk, consensus, pools, handler
<1>2. StoredClosed'
  BY <1>0 DEF StoredClosed, disk, consensus, pools, handler
<1>3. MappingIsChain'
  BY MappingFrame DEF disk
<1>4. BestIsTip'
  BY <1>0 DEF BestIsTip, disk, consensus, pools, handler
<1>5. ProcessorOK'
  BY <1>0, <1>a DEF ProcessorOK, disk, consensus, pools, handler
<1>6. ReorganizerOK'
  BY <1>a DEF ReorganizerOK, Reorganizing, SwapPCs, NewBlocks, ExecutedUpTo, disk, consensus, pools, handler
<1>7. MarkerOK'
  BY <1>0 DEF MarkerOK, Reorganizing, SwapPCs, ExecutedUpTo, disk, consensus, pools, handler
<1>8. StartOK'
  BY <1>0 DEF StartOK, disk, consensus, pools, handler
<1>9. NeverFatal'
  BY <1>0 DEF NeverFatal, disk, consensus, pools, handler
<1>10. QED
  BY <1>1, <1>2, <1>3, <1>4, <1>5, <1>6, <1>7, <1>8, <1>9

(* executeBlockReco finds every state it looks for, and no block that was  *)
(* rejected: the marker was written after all of them were executed.       *)
LEMMA ExecuteBlockRecoInv ==
    ASSUME IndInv, ExecuteBlockReco
    PROVE  IndInv'
<1> USE DEF IndInv, ExecuteBlockReco
<1>0. UNCHANGED <<hashAt, latest>> /\ Tip' = Tip
  BY DEF disk, Tip
<1>a. ~isMain /\ last \in stored /\ Fork(brStart, best, last)
  BY DEF ReorganizerOK, Reorganizing, ProcessorOK, TypeOK
<1>b. /\ blk \in Blocks /\ last \in Blocks /\ blk \in NewBlocks /\ ExecutedUpTo(Parent[blk], brStart)
      /\ brStart \in Anc[last] /\ marker.start = brStart /\ marker.top = last
  BY <1>a DEF ReorganizerOK, MarkerOK, Reorganizing, TypeOK, Fork
<1>c. blk \notin Bad /\ RootOf[blk] \in states
  BY <1>b DEF MarkerOK, ExecutedUpTo, NewBlocks
<1>d. root' = RootOf[blk] /\ Update(blk) /\ pc' = "forward"
  BY <1>c
<1>e. blk \in Anc[last] /\ brStart \in Anc[blk]
  BY <1>b, AncLinear DEF NewBlocks, Branch
<1>f. ExecutedUpTo(blk, brStart)
  BY <1>b, <1>c, AncStep DEF ExecutedUpTo, Branch
<1>1. TypeOK'
  <2>1. pc' \in PCs
    BY <1>0, <1>d DEF PCs, RunningPCs
  <2>2. QED
    BY <1>0, <1>d, <2>1, SMTT(20) DEF TypeOK, Update, disk, consensus, pools, handler
<1>2. StoredClosed'
  BY <1>0 DEF StoredClosed, disk, consensus, pools, handler
<1>3. MappingIsChain'
  BY MappingFrame DEF disk
<1>4. BestIsTip'
  BY <1>0, <1>d DEF BestIsTip, disk, consensus, pools, handler
<1>5. ProcessorOK'
  BY <1>0, <1>a, <1>d DEF ProcessorOK, disk, consensus, pools, handler
<1>6. ReorganizerOK'
  BY <1>a, <1>d, <1>e, <1>f DEF ReorganizerOK, ExecutedUpTo, disk, consensus, pools, handler
<1>7. MarkerOK'
  BY <1>0, <1>a, <1>b, <1>d DEF MarkerOK, SwapPCs, ExecutedUpTo, disk, consensus, pools, handler
<1>8. StartOK'
  BY <1>d DEF StartOK, disk, consensus, pools, handler
<1>9. NeverFatal'
  BY <1>d DEF NeverFatal, disk, consensus, pools, handler
<1>10. QED
  BY <1>1, <1>2, <1>3, <1>4, <1>5, <1>6, <1>7, <1>8, <1>9
=============================================================================
