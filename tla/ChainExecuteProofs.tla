------------------------- MODULE ChainExecuteProofs -------------------------
(***************************************************************************)
(* The inductive invariant of ChainService is kept by the steps that       *)
(* execute and connect a block: one lemma for each action and in it one    *)
(* step for each conjunct.                                                 *)
(***************************************************************************)
EXTENDS ChainConnectProofs

(* executeBlock: a branch block's state is committed after its             *)
(* predecessor's.                                                          *)
LEMMA ExecuteBlockInv ==
    ASSUME IndInv, ExecuteBlock
    PROVE  IndInv'
<1> USE DEF IndInv, ExecuteBlock
<1>0. UNCHANGED <<hashAt, latest>> /\ Tip' = Tip
  BY DEF disk, Tip
<1>1. TypeOK'
  <2>1. pc' \in PCs
    BY <1>0 DEF PCs, RunningPCs, Fail
  <2>2. QED
    BY <1>0, <2>1, SMTT(20) DEF TypeOK, Fail, Put, disk, consensus, pools, handler
<1>2. StoredClosed'
  BY <1>0 DEF StoredClosed, disk, consensus, pools, handler, Fail
<1>3. MappingIsChain'
  BY MappingFrame DEF disk
<1>4. BestIsTip'
  BY <1>0 DEF BestIsTip, disk, consensus, pools, handler, Fail
<1>5. ProcessorOK'
  BY <1>0 DEF ProcessorOK, disk, consensus, pools, handler, Fail
<1>6. ReorganizerOK'
  <2>1. Reorganizing' => ~isMain' /\ last' \in stored' /\ Fork(brStart', best', last')
    BY DEF ReorganizerOK, Reorganizing, SwapPCs, Fail, Fork, disk, handler
  <2>2. ASSUME pc' = "post", ~isMain' PROVE blk \in NewBlocks /\ ExecutedUpTo(blk, brStart)'
    <3>1. blk \in NewBlocks /\ ExecutedUpTo(Parent[blk], brStart)
      BY <2>2 DEF ReorganizerOK, handler
    <3>2. blk \in Blocks /\ last \in Blocks /\ brStart \in Anc[last]
      BY <2>2 DEF TypeOK, ReorganizerOK, Reorganizing, Fork, handler
    <3>3. Branch(blk, brStart) \subseteq Branch(Parent[blk], brStart) \cup {blk}
      BY <3>2, AncStep DEF Branch
    <3>4. QED
      BY <2>2, <3>1, <3>3 DEF ExecutedUpTo, Executable, Fail, handler
  <2>3. QED
    BY <2>1, <2>2 DEF Fail, ReorganizerOK, NewBlocks, handler
<1>7. MarkerOK'
  BY <1>0 DEF MarkerOK, Reorganizing, SwapPCs, Fail, NeverFatal, disk, consensus, pools, handler
<1>8. StartOK'
  BY <1>0 DEF StartOK, disk, consensus, pools, handler, Fail
<1>9. NeverFatal'
  BY <1>0 DEF NeverFatal, disk, consensus, pools, handler, Fail
<1>10. QED
  BY <1>1, <1>2, <1>3, <1>4, <1>5, <1>6, <1>7, <1>8, <1>9

(* The rest of executeBlock leaves the chain alone.                        *)
LEMMA FinishExecuteInv ==
    ASSUME IndInv, FinishExecute
    PROVE  IndInv'
<1> USE DEF IndInv, FinishExecute
<1>0. UNCHANGED <<hashAt, latest>> /\ Tip' = Tip
  BY DEF disk, Tip
<1>1. TypeOK'
  <2>1. pc' \in PCs
    BY <1>0 DEF PCs, RunningPCs
  <2>2. QED
    BY <1>0, <2>1, SMTT(20) DEF TypeOK, Update, disk, consensus, pools, handler
<1>2. StoredClosed'
  BY <1>0 DEF StoredClosed, disk, consensus, pools, handler
<1>3. MappingIsChain'
  BY MappingFrame DEF disk
<1>4. BestIsTip'
  BY <1>0 DEF BestIsTip, disk, consensus, pools, handler
<1>5. ProcessorOK'
  BY <1>0 DEF ProcessorOK, disk, consensus, pools, handler
<1>6. ReorganizerOK'
  <2>1. UNCHANGED <<stored, states, best, handler>>
    BY DEF disk
  <2>2. Reorganizing' => Reorganizing
    BY DEF Reorganizing, SwapPCs, handler
  <2>3. ASSUME pc' = "forward" PROVE blk \in Anc[last] /\ brStart \in Anc[blk] /\ ExecutedUpTo(blk, brStart)
    <3>1. blk \in NewBlocks /\ ExecutedUpTo(blk, brStart) /\ brStart \in Anc[last] /\ last \in Blocks
      BY <2>3 DEF ReorganizerOK, Reorganizing, Fork, TypeOK
    <3>2. blk \in Anc[last] /\ blk \notin Anc[brStart]
      BY <3>1 DEF NewBlocks, Branch
    <3>3. QED
      BY <3>1, <3>2, AncLinear
  <2>4. pc' \in {"connect", "forward"} /\ ReorganizerOK
    OBVIOUS
  <2>5. Reorganizing' => ~isMain /\ last \in stored /\ Fork(brStart, best, last)
    BY <2>2, <2>4 DEF ReorganizerOK
  <2> HIDE DEF IndInv, FinishExecute
  <2>6. QED
    BY <2>1, <2>3, <2>4, <2>5 DEF ReorganizerOK, Fork, handler, ExecutedUpTo
<1>7. MarkerOK'
  BY <1>0 DEF MarkerOK, Reorganizing, SwapPCs, ProcessorOK, disk, consensus, pools, handler
<1>8. StartOK'
  BY <1>0 DEF StartOK, disk, consensus, pools, handler
<1>9. NeverFatal'
  BY <1>0 DEF NeverFatal, disk, consensus, pools, handler
<1>10. QED
  BY <1>1, <1>2, <1>3, <1>4, <1>5, <1>6, <1>7, <1>8, <1>9

(* connectToChain sets the best block in memory ahead of the disk.         *)
LEMMA SetLatestInv ==
    ASSUME IndInv, SetLatest
    PROVE  IndInv'
<1> USE DEF IndInv, SetLatest
<1>0. UNCHANGED <<disk, root, consensus, pools, handler, crashes>> /\ Tip' = Tip
  BY DEF disk, Tip, consensus, pools, handler
<1>1. TypeOK'
  <2>1. pc' \in PCs
    BY DEF PCs, RunningPCs
  <2>2. QED
    BY <2>1, SMTT(20) DEF TypeOK, disk, consensus, pools, handler
<1>2. StoredClosed'
  BY DEF StoredClosed, disk
<1>3. MappingIsChain'
  BY MappingFrame DEF disk
<1>4. BestIsTip'
  BY DEF BestIsTip, handler
<1>5. ProcessorOK'
  BY <1>0 DEF ProcessorOK, disk, pools, handler
<1>6. ReorganizerOK'
  BY DEF ReorganizerOK, Reorganizing, SwapPCs
<1>7. MarkerOK'
  BY <1>0 DEF MarkerOK, ProcessorOK, disk, SwapPCs
<1>8. StartOK'
  BY DEF StartOK
<1>9. NeverFatal'
  BY DEF NeverFatal
<1>10. QED
  BY <1>1, <1>2, <1>3, <1>4, <1>5, <1>6, <1>7, <1>8, <1>9

(* The commit of connectToChain extends the mapping by the child of its    *)
(* tip.                                                                    *)
LEMMA CommitConnectInv ==
    ASSUME IndInv, CommitConnect
    PROVE  IndInv'
<1> USE DEF IndInv, CommitConnect
<1>a. /\ blk \in Blocks /\ Tip \in Blocks /\ marker = Nil /\ blk # Genesis /\ Parent[blk] = Tip
      /\ isMain /\ best = blk /\ latest = No[Tip] /\ Tip \in stored
  BY AncBasic DEF TypeOK, MappingIsChain, ProcessorOK, BestIsTip
<1>b. No[blk] = latest + 1 /\ No[blk] \in Heights /\ latest' = No[blk]
  BY BlockTreeAssumption, ChainAssumption, <1>a DEF Heights
<1>c. \A n \in Heights : hashAt'[n] = IF n = No[blk] THEN blk ELSE hashAt[n]
  BY DEF TypeOK
<1>d. Tip' = blk
  BY <1>b, <1>c DEF Tip
<1>e. Anc[blk] = {blk} \cup Anc[Tip] /\ Heights \subseteq Nat /\ latest \in Nat
  BY BlockTreeAssumption, ChainAssumption, <1>a, AncStep DEF Heights
<1>f. UNCHANGED <<receipts, states, marker, best, root, csBest, lib, orphans, errBlocks, mempool, produced, handler, crashes>>
  BY DEF consensus, pools
<1>1. TypeOK'
  <2>1. txMap' \in [Txs -> Blocks \cup {Nil}]
    BY <1>a DEF AddTxsOfBlock, TypeOK
  <2>2. hashAt' \in [Heights -> Blocks \cup {Nil}]
    BY <1>a DEF TypeOK
  <2>3. pc' \in PCs
    BY DEF PCs, RunningPCs
  <2>4. QED
    BY <1>a, <1>b, <1>f, <2>1, <2>2, <2>3, SMTT(20) DEF TypeOK, handler
<1>2. StoredClosed'
  BY <1>a DEF StoredClosed, ParentClosed
<1>3. MappingIsChain'
  <2>1. \A n \in Heights : IF n <= latest' THEN hashAt'[n] \in Anc[blk] /\ No[hashAt'[n]] = n
                           ELSE hashAt'[n] = Nil
    <3> TAKE n \in Heights
    <3>1. n \in Nat /\ hashAt'[n] = IF n = No[blk] THEN blk ELSE hashAt[n]
      BY <1>c, <1>e
    <3>2. IF n <= latest THEN hashAt[n] \in Anc[Tip] /\ No[hashAt[n]] = n ELSE hashAt[n] = Nil
      BY DEF MappingIsChain
    <3> HIDE DEF CommitConnect, IndInv
    <3>3. CASE n <= latest
      <4>1. n # No[blk] /\ n <= latest'
        BY <1>b, <1>e, <3>1, <3>3
      <4>2. QED
        BY <1>e, <3>1, <3>2, <3>3, <4>1, Zenon
    <3>4. CASE n = No[blk]
      BY <1>b, <1>e, <3>1, <3>4
    <3>5. CASE n > No[blk]
      BY <1>b, <1>e, <3>1, <3>2, <3>5
    <3>6. n <= latest \/ n = No[blk] \/ n > No[blk]
      BY <1>b, <1>e, <3>1
    <3>7. QED
      BY <3>3, <3>4, <3>5, <3>6, Zenon
  <2>2. QED
    BY <1>a, <1>b, <1>d, <1>e, <2>1, SMTT(20) DEF MappingIsChain
<1>4. BestIsTip'
  BY <1>a, <1>d, <1>f DEF BestIsTip
<1>5. ProcessorOK'
  BY <1>a, <1>d, <1>f DEF ProcessorOK, handler
<1>6. ReorganizerOK'
  BY DEF ReorganizerOK, Reorganizing, SwapPCs
<1>7. MarkerOK'
  BY <1>a, <1>f DEF MarkerOK, SwapPCs
<1>8. StartOK'
  BY DEF StartOK, disk, consensus, pools, handler
<1>9. NeverFatal'
  BY DEF NeverFatal, disk, consensus, pools, handler
<1>10. QED
  BY <1>1, <1>2, <1>3, <1>4, <1>5, <1>6, <1>7, <1>8, <1>9

(* An orphan that is resolved is a child of the block just added; on the   *)
(* main chain that block is the durable best block.                        *)
LEMMA ResolveOrphanInv ==
    ASSUME IndInv, ResolveOrphan
    PROVE  IndInv'
<1> USE DEF IndInv
<1>0. UNCHANGED <<hashAt, latest>> /\ Tip' = Tip
  BY DEF ResolveOrphan, disk, Tip
<1>a. \A o \in orphans : o \in Blocks /\ o # Genesis /\ (Parent[o] = blk => No[o] = No[blk] + 1)
  BY BlockTreeAssumption, ChainAssumption DEF TypeOK, ProcessorOK
<1>b. UNCHANGED <<stored, hashAt, latest, txMap, receipts, states, marker, savedLib, best, root,
                  csBest, lib, mempool, produced, first, last, isMain, byBP, brStart, crashes>>
  BY DEF ResolveOrphan, disk, consensus
<1>c. ASSUME ~byBP, \E o \in orphans : Parent[o] = blk
      PROVE  /\ blk' \in orphans /\ Parent[blk'] = blk /\ orphans' \subseteq orphans
             /\ errBlocks' = errBlocks /\ pc' = IF isMain THEN "exec" ELSE "side"
  BY <1>a, <1>c DEF ResolveOrphan
<1>d. ASSUME ~(~byBP /\ \E o \in orphans : Parent[o] = blk)
      PROVE  /\ UNCHANGED <<blk, orphans, errBlocks>>
             /\ pc' = IF ~isMain /\ NeedReorg(last) THEN "gather" ELSE "idle"
  BY <1>d DEF ResolveOrphan
<1>e. /\ orphans' \subseteq orphans /\ blk' \in orphans \cup {blk} /\ errBlocks' = errBlocks
      /\ pc' \in {"exec", "side", "gather", "idle"} /\ (pc' = "exec" => isMain)
  BY <1>c, <1>d
<1>f. /\ pc = "resolve" /\ marker = Nil /\ best = Tip
      /\ blk \in stored /\ (IF isMain THEN blk = Tip ELSE last \in stored)
  BY DEF ResolveOrphan, ProcessorOK, MarkerOK, SwapPCs, BestIsTip
<1>1. TypeOK'
  <2>1. orphans' \subseteq Blocks /\ {first', blk', last', brStart'} \subseteq Blocks
    BY <1>b, <1>e DEF TypeOK
  <2>2. pc' \in PCs
    BY <1>e DEF PCs, RunningPCs
  <2>3. QED
    BY <1>b, <1>e, <2>1, <2>2 DEF TypeOK
<1>2. StoredClosed'
  BY <1>b DEF StoredClosed
<1>3. MappingIsChain'
  BY <1>b, MappingFrame
<1>4. BestIsTip'
  BY <1>0, <1>b, <1>e, <1>f DEF BestIsTip
<1>5. ProcessorOK'
  <2>1. CASE ~byBP /\ \E o \in orphans : Parent[o] = blk
    BY <1>0, <1>a, <1>b, <1>c, <1>f, <2>1 DEF ProcessorOK
  <2>2. CASE ~(~byBP /\ \E o \in orphans : Parent[o] = blk)
    BY <1>0, <1>b, <1>d, <1>f, <2>2 DEF ProcessorOK, NeedReorg
  <2>3. QED
    BY <2>1, <2>2
<1>6. ReorganizerOK'
  BY <1>b, <1>e DEF ReorganizerOK, Reorganizing, SwapPCs
<1>7. MarkerOK'
  BY <1>b, <1>e, <1>f DEF MarkerOK, SwapPCs
<1>8. StartOK'
  BY <1>e DEF StartOK
<1>9. NeverFatal'
  BY <1>e DEF NeverFatal
<1>10. QED
  BY <1>1, <1>2, <1>3, <1>4, <1>5, <1>6, <1>7, <1>8, <1>9
=============================================================================
