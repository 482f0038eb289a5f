-------------------------- MODULE ChainSwapProofs ---------------------------
(***************************************************************************)
(* The inductive invariant of ChainService is kept by the commits of       *)
(* swapChain: one lemma for each action and in it one step for each        *)
(* conjunct.                                                               *)
(***************************************************************************)
EXTENDS ChainConnectProofs

(* The marker names the two branches and is written with the mapping still *)
(* on the old one.                                                         *)
LEMMA WriteMarkerInv ==
    ASSUME IndInv, WriteMarker
    PROVE  IndInv'
<1> USE DEF IndInv, WriteMarker
<1>0. UNCHANGED <<hashAt, latest>> /\ Tip' = Tip
  BY DEF disk, Tip
<1>a. ~isMain /\ last \in stored /\ Fork(brStart, best, last) /\ ExecutedUpTo(last, brStart)
  BY DEF ReorganizerOK, Reorganizing
<1>b. best = Tip /\ best \in stored
  BY AncBasic DEF BestIsTip, MappingIsChain
<1>c. /\ marker' \in Markers /\ marker' # Nil
      /\ marker'.start = brStart /\ marker'.best = best /\ marker'.top = last
  BY BlockTreeAssumption, ChainAssumption DEF NewReorgMarker, Markers, TypeOK
<1>1. TypeOK'
  <2>1. pc' \in PCs
    BY <1>0, <1>c DEF PCs, RunningPCs
  <2>2. QED
    BY <1>0, <1>c, <2>1, SMTT(20) DEF TypeOK, disk, consensus, pools, handler
<1>2. StoredClosed'
  BY <1>0 DEF StoredClosed, disk, consensus, pools, handler
<1>3. MappingIsChain'
  BY MappingFrame DEF disk
<1>4. BestIsTip'
  BY <1>0 DEF BestIsTip, disk, consensus, pools, handler
<1>5. ProcessorOK'
  BY <1>0 DEF ProcessorOK, disk, consensus, pools, handler
<1>6. ReorganizerOK'
  BY <1>a DEF ReorganizerOK, Reorganizing, SwapPCs, Fork, disk, consensus, pools, handler
<1>7. MarkerOK'
  BY <1>0, <1>a, <1>b, <1>c DEF MarkerOK, SwapPCs, Fork, ExecutedUpTo, disk, consensus, pools, handler
<1>8. StartOK'
  BY <1>0 DEF StartOK, disk, consensus, pools, handler
<1>9. NeverFatal'
  BY <1>0 DEF NeverFatal, disk, consensus, pools, handler
<1>10. QED
  BY <1>1, <1>2, <1>3, <1>4, <1>5, <1>6, <1>7, <1>8, <1>9

(* Deleting receipts leaves the mapping alone.                             *)
LEMMA DeleteOldReceiptsInv ==
    ASSUME IndInv, DeleteOldReceipts
    PROVE  IndInv'
<1> USE DEF IndInv, DeleteOldReceipts
<1>0. UNCHANGED <<hashAt, latest>> /\ Tip' = Tip
  BY DEF disk, Tip
<1>1. TypeOK'
  <2>1. pc' \in PCs
    BY <1>0 DEF PCs, RunningPCs
  <2>2. QED
    BY <1>0, <2>1, SMTT(20) DEF TypeOK, disk, consensus, pools, handler
<1>2. StoredClosed'
  BY <1>0 DEF StoredClosed, disk, consensus, pools, handler
<1>3. MappingIsChain'
  BY MappingFrame DEF disk
<1>4. BestIsTip'
  BY <1>0 DEF BestIsTip, disk, consensus, pools, handler
<1>5. ProcessorOK'
  BY <1>0 DEF ProcessorOK, disk, consensus, pools, handler
<1>6. ReorganizerOK'
  BY <1>0 DEF ReorganizerOK, Reorganizing, SwapPCs, Fork, disk, consensus, pools, handler
<1>7. MarkerOK'
  BY <1>0 DEF MarkerOK, Reorganizing, SwapPCs, ExecutedUpTo, disk, consensus, pools, handler
<1>8. StartOK'
  BY <1>0 DEF StartOK, disk, consensus, pools, handler
<1>9. NeverFatal'
  BY <1>0 DEF NeverFatal, disk, consensus, pools, handler
<1>10. QED
  BY <1>1, <1>2, <1>3, <1>4, <1>5, <1>6, <1>7, <1>8, <1>9

(* So does writing the transactions of the new branch,                     *)
LEMMA SwapTxMappingInv ==
    ASSUME IndInv, SwapTxMapping
    PROVE  IndInv'
<1> USE DEF IndInv, SwapTxMapping
<1>0. UNCHANGED <<hashAt, latest>> /\ Tip' = Tip
  BY DEF disk, Tip
<1>1. TypeOK'
  <2>1. NewBlocks \subseteq Blocks
    BY AncBasic DEF NewBlocks, Branch, TypeOK
  <2>2. blk' \in Blocks /\ txMap' \in [Txs -> Blocks \cup {Nil}] /\ pc' \in {"swapTx", "dropTx"}
    BY <2>1 DEF TypeOK, AddTxsOfBlock
  <2>3. QED
    BY <2>2 DEF TypeOK, PCs, RunningPCs, consensus, pools
<1>2. StoredClosed'
  BY <1>0 DEF StoredClosed, disk, consensus, pools, handler
<1>3. MappingIsChain'
  BY MappingFrame DEF disk
<1>4. BestIsTip'
  BY <1>0 DEF BestIsTip, disk, consensus, pools, handler
<1>5. ProcessorOK'
  BY <1>0 DEF ProcessorOK, disk, consensus, pools, handler
<1>6. ReorganizerOK'
  BY <1>0 DEF ReorganizerOK, Reorganizing, SwapPCs, Fork, disk, consensus, pools, handler
<1>7. MarkerOK'
  BY <1>0 DEF MarkerOK, Reorganizing, SwapPCs, ExecutedUpTo, disk, consensus, pools, handler
<1>8. StartOK'
  BY <1>0 DEF StartOK, disk, consensus, pools, handler
<1>9. NeverFatal'
  BY <1>0 DEF NeverFatal, disk, consensus, pools, handler
<1>10. QED
  BY <1>1, <1>2, <1>3, <1>4, <1>5, <1>6, <1>7, <1>8, <1>9

(* and dropping those of the old one.                                      *)
LEMMA DropTxMappingInv ==
    ASSUME IndInv, DropTxMapping
    PROVE  IndInv'
<1> USE DEF IndInv, DropTxMapping
<1>0. UNCHANGED <<hashAt, latest>> /\ Tip' = Tip
  BY DEF disk, Tip
<1>1. TypeOK'
  <2>1. OldTxs \subseteq Txs
    BY BlockTreeAssumption, ChainAssumption, AncBasic, SMTT(20) DEF OldTxs, OldBlocks, Branch, TypeOK
  <2>2. mempool' \subseteq Txs
    BY <2>1, SMTT(20) DEF TypeOK
  <2>3. txMap' \in [Txs -> Blocks \cup {Nil}]
    BY DEF TypeOK
  <2>4. pc' \in PCs
    BY DEF PCs, RunningPCs
  <2>5. QED
    BY <2>2, <2>3, <2>4, SMTT(20) DEF TypeOK, consensus, handler
<1>2. StoredClosed'
  BY <1>0 DEF StoredClosed, disk, consensus, pools, handler
<1>3. MappingIsChain'
  BY MappingFrame DEF disk
<1>4. BestIsTip'
  BY <1>0 DEF BestIsTip, disk, consensus, pools, handler
<1>5. ProcessorOK'
  BY <1>0 DEF ProcessorOK, disk, consensus, pools, handler
<1>6. ReorganizerOK'
  BY <1>0 DEF ReorganizerOK, Reorganizing, SwapPCs, Fork, disk, consensus, pools, handler
<1>7. MarkerOK'
  BY <1>0 DEF MarkerOK, Reorganizing, SwapPCs, ExecutedUpTo, disk, consensus, pools, handler
<1>8. StartOK'
  BY <1>0 DEF StartOK, disk, consensus, pools, handler
<1>9. NeverFatal'
  BY <1>0 DEF NeverFatal, disk, consensus, pools, handler
<1>10. QED
  BY <1>1, <1>2, <1>3, <1>4, <1>5, <1>6, <1>7, <1>8, <1>9

(* swapChainMapping: the mapping becomes the new branch's chain in one     *)
(* commit.                                                                 *)
LEMMA SwapChainMappingInv ==
    ASSUME IndInv, SwapChainMapping
    PROVE  IndInv'
<1> USE DEF IndInv, SwapChainMapping
<1>a. /\ ~isMain /\ last \in stored /\ brStart \in Anc[last] /\ brStart \in Anc[Tip]
      /\ best = Tip /\ No[Tip] = latest /\ latest < No[last] /\ last \in Blocks
      /\ Tip \in Blocks /\ marker # Nil /\ marker.top = last
  BY DEF ReorganizerOK, Reorganizing, SwapPCs, Fork, BestIsTip, MappingIsChain, TypeOK, MarkerOK
<1>e. /\ hashAt' = Remap(last, brStart, 0) /\ latest' = No[last] /\ savedLib' = lib
      /\ best' = last /\ pc' = "unmark" /\ pc = "swapMap"
  BY BlockTreeAssumption, ChainAssumption, <1>a
<1>b. /\ hashAt' \in [Heights -> Blocks \cup {Nil}]
      /\ hashAt'[No[last]] = last
      /\ \A n \in Heights : IF n <= No[last] THEN hashAt'[n] \in Anc[last] /\ No[hashAt'[n]] = n
                            ELSE hashAt'[n] = Nil
  BY BlockTreeAssumption, ChainAssumption, <1>a, <1>e, RemapIsChain
<1>c. Tip' = last /\ Anc[last] \subseteq stored
  BY <1>a, <1>b, <1>e, StoredAnc DEF Tip
<1>d. UNCHANGED <<stored, txMap, receipts, states, marker, root, csBest, lib, orphans, errBlocks, mempool,
                  produced, first, blk, last, isMain, byBP, brStart, crashes>>
  BY DEF consensus, pools, handler
<1> HIDE DEF SwapChainMapping
<1>1. TypeOK'
  <2>1. pc' \in PCs
    BY <1>a, <1>b, <1>d, <1>e DEF PCs, RunningPCs
  <2>2. QED
    BY <1>a, <1>b, <1>d, <1>e, <2>1, SMTT(20) DEF TypeOK, Heights
<1>2. StoredClosed'
  BY <1>d DEF StoredClosed
<1>3. MappingIsChain'
  BY <1>a, <1>b, <1>c, <1>d, <1>e DEF MappingIsChain
<1>4. BestIsTip'
  BY <1>c, <1>e DEF BestIsTip
<1>5. ProcessorOK'
  BY <1>d, <1>e DEF ProcessorOK
<1>6. ReorganizerOK'
  BY <1>e DEF ReorganizerOK, Reorganizing, SwapPCs
<1>7. MarkerOK'
  BY <1>a, <1>c, <1>d, <1>e DEF MarkerOK, Reorganizing, SwapPCs, ExecutedUpTo
<1>8. StartOK'
  BY <1>e DEF StartOK
<1>9. NeverFatal'
  BY <1>e DEF NeverFatal
<1>10. QED
  BY <1>1, <1>2, <1>3, <1>4, <1>5, <1>6, <1>7, <1>8, <1>9

(* The marker is deleted with the mapping on the new branch.               *)
LEMMA DeleteMarkerInv ==
    ASSUME IndInv, DeleteMarker
    PROVE  IndInv'
<1> USE DEF IndInv, DeleteMarker
<1>0. UNCHANGED <<hashAt, latest>> /\ Tip' = Tip
  BY DEF disk, Tip
<1>1. TypeOK'
  <2>1. pc' \in PCs
    BY <1>0 DEF PCs, RunningPCs
  <2>2. QED
    BY <1>0, <2>1, SMTT(20) DEF TypeOK, disk, consensus, pools, handler
<1>2. StoredClosed'
  BY <1>0 DEF StoredClosed, disk, consensus, pools, handler
<1>3. MappingIsChain'
  BY MappingFrame DEF disk
<1>4. BestIsTip'
  BY <1>0 DEF BestIsTip, disk, consensus, pools, handler
<1>5. ProcessorOK'
  BY <1>0 DEF ProcessorOK, disk, consensus, pools, handler
<1>6. ReorganizerOK'
  BY <1>0 DEF ReorganizerOK, Reorganizing, SwapPCs, disk, consensus, pools, handler
<1>7. MarkerOK'
  BY <1>0 DEF MarkerOK, Reorganizing, SwapPCs, disk, consensus, pools, handler
<1>8. StartOK'
  BY <1>0 DEF StartOK, disk, consensus, pools, handler
<1>9. NeverFatal'
  BY <1>0 DEF NeverFatal, disk, consensus, pools, handler
<1>10. QED
  BY <1>1, <1>2, <1>3, <1>4, <1>5, <1>6, <1>7, <1>8, <1>9
=============================================================================
