------------------------- MODULE ChainConnectProofs -------------------------
(***************************************************************************)
(* Facts about the number-to-hash mapping, and the steps that receive a    *)
(* block up to the side branch: they keep the inductive invariant of       *)
(* ChainService, one lemma for each action and in it one step for each     *)
(* conjunct.                                                               *)
(***************************************************************************)
EXTENDS ChainService, BlockTreeProofs

(* A step that leaves the stored blocks and the mapping alone keeps        *)
(* MappingIsChain.                                                         *)
LEMMA MappingFrame ==
    ASSUME MappingIsChain, UNCHANGED <<stored, hashAt, latest>>
    PROVE  MappingIsChain'
<1>1. Tip' = Tip
  BY DEF Tip
<1>2. QED
  BY <1>1 DEF MappingIsChain

(* The mapping that is computed from a branch root on the main chain and a *)
(* branch of it is exactly the chain of the branch's top, if the numbers   *)
(* to clear reach up to the old best block.                                *)
LEMMA RemapIsChain ==
    ASSUME TypeOK, MappingIsChain,
           NEW tip \in Blocks, NEW start \in Anc[tip], start \in Anc[Tip],
           NEW clear \in Nat, latest <= No[tip] \/ latest <= clear
    PROVE  LET h == Remap(tip, start, clear)
           IN  /\ h \in [Heights -> Blocks \cup {Nil}]
               /\ h[No[tip]] = tip
               /\ \A n \in Heights : IF n <= No[tip] THEN h[n] \in Anc[tip] /\ No[h[n]] = n
                                     ELSE h[n] = Nil
<1> DEFINE h == Remap(tip, start, clear)
<1>1. /\ Heights \subseteq Nat /\ latest \in Nat /\ No[tip] \in Heights /\ Tip \in Blocks
      /\ start \in Blocks /\ No[start] \in Nat /\ No[tip] \in Nat /\ No[start] <= No[tip]
  BY BlockTreeAssumption, ChainAssumption, AncBasic, AncNo DEF Heights, TypeOK, MappingIsChain
<1>2. Anc[start] \subseteq Anc[tip]
  BY AncTrans
<1>3. ASSUME NEW n \in Heights
      PROVE  IF n <= No[tip] THEN h[n] \in Anc[tip] /\ No[h[n]] = n ELSE h[n] = Nil
  <2>1. n \in Nat
    BY <1>1
  <2>2. IF n <= latest THEN hashAt[n] \in Anc[Tip] /\ No[hashAt[n]] = n ELSE hashAt[n] = Nil
    BY DEF MappingIsChain
  <2>3. CASE n > No[start] /\ n <= No[tip]
    <3>1. h[n] = CHOOSE b \in Branch(tip, start) : No[b] = n
      BY <2>3 DEF Remap
    <3>2. QED
      BY <2>1, <2>3, <3>1, BranchChoose, SMTT(20)
  <2>4. CASE n <= No[start]
    <3>1. h[n] = hashAt[n]
      BY <1>1, <2>1, <2>4 DEF Remap
    <3>2. No[start] <= latest
      BY <1>1, AncNo DEF MappingIsChain
    <3>3. hashAt[n] \in Anc[Tip] /\ No[hashAt[n]] = n
      BY <1>1, <2>1, <2>2, <2>4, <3>2
    <3>4. hashAt[n] \notin Branch(Tip, start)
      BY <1>1, <2>1, <2>4, <3>3, BranchNo
    <3>5. hashAt[n] \in Anc[tip]
      BY <1>2, <3>3, <3>4 DEF Branch
    <3>6. QED
      BY <1>1, <2>1, <2>4, <3>1, <3>3, <3>5, SMTT(20)
  <2>5. CASE n > No[tip]
    <3>1. h[n] = IF n <= clear THEN Nil ELSE hashAt[n]
      BY <1>1, <2>1, <2>5, SMTT(20) DEF Remap
    <3>2. QED
      BY <1>1, <2>1, <2>2, <2>5, <3>1
  <2>6. (n > No[start] /\ n <= No[tip]) \/ n <= No[start] \/ n > No[tip]
    BY <1>1, <2>1
  <2>7. QED
    BY <2>3, <2>4, <2>5, <2>6, Zenon
<1>4. h \in [Heights -> Blocks \cup {Nil}]
  <2>1. \A n \in Heights : h[n] \in Blocks \cup {Nil}
    BY <1>3, AncBasic
  <2>2. h = [n \in Heights |-> h[n]]
    BY DEF Remap
  <2>3. QED
    BY <2>1, <2>2
<1>5. h[No[tip]] = tip
  <2>1. h[No[tip]] \in Anc[tip] /\ No[h[No[tip]]] = No[tip]
    BY <1>1, <1>3
  <2>2. QED
    BY <2>1, AncBasic, AncUnique
<1>6. QED
  BY <1>3, <1>4, <1>5

(* The predecessors of a stored block are stored.                          *)
LEMMA StoredAnc ==
    ASSUME TypeOK, StoredClosed, NEW b \in stored
    PROVE  Anc[b] \subseteq stored
BY AncLeast DEF TypeOK, StoredClosed

(* A block with a bad signature only enters the cache of errored blocks.   *)
LEMMA AddBadSignInv ==
    ASSUME IndInv, NEW b \in Blocks, AddBadSign(b)
    PROVE  IndInv'
<1> USE DEF IndInv, AddBadSign
<1>0. UNCHANGED <<hashAt, latest>> /\ Tip' = Tip
  BY DEF disk, Tip
<1>1. TypeOK'
  BY <1>0 DEF TypeOK, Put, disk, consensus, pools, handler
<1>2. StoredClosed'
  BY <1>0 DEF StoredClosed, disk, consensus, pools, handler
<1>3. MappingIsChain'
  BY MappingFrame DEF disk
<1>4. BestIsTip'
  BY <1>0 DEF BestIsTip, disk, consensus, pools, handler
<1>5. ProcessorOK'
  BY <1>0 DEF ProcessorOK, disk, consensus, pools, handler
<1>6. ReorganizerOK'
  BY <1>0 DEF ReorganizerOK, Reorganizing, SwapPCs, disk, consensus, pools, handler
<1>7. MarkerOK'
  BY <1>0 DEF MarkerOK, Reorganizing, SwapPCs, disk, consensus, pools, handler
<1>8. StartOK'
  BY <1>0 DEF StartOK, disk, consensus, pools, handler
<1>9. NeverFatal'
  BY <1>0 DEF NeverFatal, disk, consensus, pools, handler
<1>10. QED
  BY <1>1, <1>2, <1>3, <1>4, <1>5, <1>6, <1>7, <1>8, <1>9

(* A new orphan only enters the pool; it is never the genesis block, which *)
(* is stored.                                                              *)
LEMMA AddOrphanInv ==
    ASSUME IndInv, NEW b \in Blocks, AddOrphan(b)
    PROVE  IndInv'
<1> USE DEF IndInv, AddOrphan
<1>0. UNCHANGED <<hashAt, latest>> /\ Tip' = Tip
  BY DEF disk, Tip
<1>1. TypeOK'
  BY <1>0 DEF TypeOK, Put, disk, consensus, pools, handler
<1>2. StoredClosed'
  BY <1>0 DEF StoredClosed, disk, consensus, pools, handler
<1>3. MappingIsChain'
  BY MappingFrame DEF disk
<1>4. BestIsTip'
  BY <1>0 DEF BestIsTip, disk, consensus, pools, handler
<1>5. ProcessorOK'
  BY <1>0 DEF ProcessorOK, Put, IsNew, StoredClosed, IsOrphan, disk, consensus, pools, handler
<1>6. ReorganizerOK'
  BY <1>0 DEF ReorganizerOK, Reorganizing, SwapPCs, disk, consensus, pools, handler
<1>7. MarkerOK'
  BY <1>0 DEF MarkerOK, Reorganizing, SwapPCs, disk, consensus, pools, handler
<1>8. StartOK'
  BY <1>0 DEF StartOK, disk, consensus, pools, handler
<1>9. NeverFatal'
  BY <1>0 DEF NeverFatal, disk, consensus, pools, handler
<1>10. QED
  BY <1>1, <1>2, <1>3, <1>4, <1>5, <1>6, <1>7, <1>8, <1>9

(* Producing a block, at any point of another handler, leaves the chain    *)
(* alone.                                                                  *)
LEMMA GenerateBlockInv ==
    ASSUME IndInv, NEW b \in Blocks, GenerateBlock(b)
    PROVE  IndInv'
<1> USE DEF IndInv, GenerateBlock
<1>0. UNCHANGED <<hashAt, latest>> /\ Tip' = Tip
  BY DEF disk, Tip
<1>1. TypeOK'
  <2>1. pc' \in PCs
    BY <1>0 DEF TypeOK
  <2>2. QED
    BY <1>0, <2>1, SMTT(20) DEF TypeOK, disk, consensus, pools, handler
<1>2. StoredClosed'
  BY <1>0 DEF StoredClosed, disk, consensus, pools, handler
<1>3. MappingIsChain'
  BY MappingFrame DEF disk
<1>4. BestIsTip'
  BY <1>0 DEF BestIsTip, disk, consensus, pools, handler
<1>5. ProcessorOK'
  BY <1>0 DEF ProcessorOK, disk, consensus, pools, handler
<1>6. ReorganizerOK'
  BY <1>0 DEF ReorganizerOK, Reorganizing, SwapPCs, NewBlocks, ExecutedUpTo, disk, consensus, pools, handler
<1>7. MarkerOK'
  BY <1>0 DEF MarkerOK, Reorganizing, SwapPCs, ExecutedUpTo, disk, consensus, pools, handler
<1>8. StartOK'
  BY <1>0 DEF StartOK, disk, consensus, pools, handler
<1>9. NeverFatal'
  BY <1>0 DEF NeverFatal, disk, consensus, pools, handler
<1>10. QED
  BY <1>1, <1>2, <1>3, <1>4, <1>5, <1>6, <1>7, <1>8, <1>9

(* newChainProcessor: a block that is taken for an extension of the main   *)
(* chain is a child of the durable best block, because best and the        *)
(* mapping agree between requests, and a block of the factory is one.      *)
LEMMA NewChainProcessorInv ==
    ASSUME IndInv, pc = "idle", NEW b \in Blocks, NEW bp \in BOOLEAN,
           IsNew(b), Parent[b] \in stored, NewChainProcessor(b, bp), bp => IsMainChain(b),
           produced' \in Blocks \cup {Nil},
           UNCHANGED <<disk, best, root, consensus, orphans, errBlocks, mempool, crashes>>
    PROVE  IndInv'
<1> USE DEF IndInv, NewChainProcessor
<1>0. UNCHANGED <<hashAt, latest>> /\ Tip' = Tip
  BY DEF disk, Tip
<1>a. isMain' \in BOOLEAN /\ (isMain' <=> pc' = "exec") /\ pc' \in {"exec", "side"}
  BY DEF IsMainChain
<1>b. first' = b /\ blk' = b /\ byBP' = bp /\ last' = last /\ brStart' = brStart
  OBVIOUS
<1>c. marker = Nil /\ Genesis \in stored /\ b # Genesis
  BY DEF MarkerOK, StoredClosed, IsNew, SwapPCs
<1>d. isMain' => Parent[b] = Tip
  BY DEF IsMainChain, BestIsTip, MappingIsChain, Tip
<1>e. byBP' => isMain'
  OBVIOUS
<1> HIDE DEF NewChainProcessor
<1>1. TypeOK'
  <2>1. pc' \in PCs
    BY <1>0, <1>a, <1>b DEF PCs, RunningPCs
  <2>2. QED
    BY <1>0, <1>a, <1>b, <2>1, SMTT(20) DEF TypeOK, disk, consensus
<1>2. StoredClosed'
  BY <1>0 DEF StoredClosed, disk, consensus, pools, handler
<1>3. MappingIsChain'
  BY MappingFrame DEF disk
<1>4. BestIsTip'
  BY <1>0, <1>a DEF BestIsTip
<1>5. ProcessorOK'
  BY <1>0, <1>a, <1>b, <1>c, <1>d, <1>e DEF ProcessorOK, disk
<1>6. ReorganizerOK'
  BY <1>a DEF ReorganizerOK, Reorganizing, SwapPCs
<1>7. MarkerOK'
  BY <1>a, <1>c DEF MarkerOK, SwapPCs, disk
<1>8. StartOK'
  BY <1>a DEF StartOK
<1>9. NeverFatal'
  BY <1>a DEF NeverFatal
<1>10. QED
  BY <1>1, <1>2, <1>3, <1>4, <1>5, <1>6, <1>7, <1>8, <1>9

(* addBlock for a block of the network.                                    *)
LEMMA AddBlockInv ==
    ASSUME IndInv, NEW b \in Blocks, AddBlock(b)
    PROVE  IndInv'
<1>1. /\ pc = "idle" /\ IsNew(b) /\ Parent[b] \in stored /\ NewChainProcessor(b, FALSE)
      /\ produced' \in Blocks \cup {Nil}
      /\ UNCHANGED <<disk, best, root, consensus, orphans, errBlocks, mempool, crashes>>
  BY DEF AddBlock, IsOrphan, IndInv, TypeOK, pools
<1>2. QED
  BY <1>1, NewChainProcessorInv

(* addBlock for a block of this node's factory; a stale one changes        *)
(* nothing.                                                                *)
LEMMA AddProducedInv ==
    ASSUME IndInv, AddProduced
    PROVE  IndInv'
<1> DEFINE accepted == IsNew(produced) /\ VerifyTimestamp(produced) /\ Parent[produced] = best
<1>1. CASE accepted
  <2>1. best \in stored /\ best = Tip /\ No[best] = latest
    BY AncBasic DEF AddProduced, IndInv, BestIsTip, MappingIsChain
  <2>2. /\ pc = "idle" /\ produced \in Blocks /\ IsNew(produced) /\ Parent[produced] \in stored
        /\ NewChainProcessor(produced, TRUE) /\ produced' \in Blocks \cup {Nil}
        /\ UNCHANGED <<disk, best, root, consensus, orphans, errBlocks, mempool, crashes>>
    BY <1>1, <2>1 DEF AddProduced, IndInv, TypeOK
  <2>3. produced # Genesis
    BY <2>2 DEF IndInv, StoredClosed, IsNew
  <2>4. IsMainChain(produced)
    BY BlockTreeAssumption, ChainAssumption, <1>1, <2>1, <2>2, <2>3 DEF IsMainChain, Tip
  <2>5. QED
    BY <2>2, <2>4, NewChainProcessorInv
<1>2. CASE ~accepted
  <2>1. /\ produced' = Nil
        /\ UNCHANGED <<disk, best, root, consensus, orphans, errBlocks, mempool, pc, handler, crashes>>
    BY <1>2 DEF AddProduced
  <2>2. pc = "idle" /\ Tip' = Tip
    BY <2>1 DEF AddProduced, Tip, disk
  <2>3. TypeOK'
    BY <2>1 DEF IndInv, TypeOK, disk, consensus, handler
  <2>4. StoredClosed' /\ MappingIsChain' /\ BestIsTip' /\ ProcessorOK'
    BY <2>1, <2>2 DEF IndInv, StoredClosed, MappingIsChain, BestIsTip, ProcessorOK, disk, handler
  <2>5. ReorganizerOK' /\ MarkerOK' /\ StartOK' /\ NeverFatal'
    BY <2>1, <2>2 DEF IndInv, ReorganizerOK, Reorganizing, MarkerOK, SwapPCs, StartOK, NeverFatal, disk
  <2>6. QED
    BY <2>3, <2>4, <2>5 DEF IndInv
<1>3. QED
  BY <1>1, <1>2

(* A side branch block is stored after its predecessor.                    *)
LEMMA AddSideBlockInv ==
    ASSUME IndInv, AddSideBlock
    PROVE  IndInv'
<1> USE DEF IndInv, AddSideBlock
<1>0. UNCHANGED <<hashAt, latest>> /\ Tip' = Tip
  BY DEF disk, Tip
<1>1. TypeOK'
  <2>1. pc' \in PCs
    BY <1>0 DEF PCs, RunningPCs
  <2>2. stored' \subseteq Blocks /\ {first', blk', last', brStart'} \subseteq Blocks
    BY DEF TypeOK
  <2>3. UNCHANGED <<hashAt, latest, txMap, receipts, states, marker, savedLib, best, root, csBest, lib,
                    orphans, errBlocks, mempool, produced, isMain, byBP, crashes>>
    BY DEF consensus, pools
  <2>4. TypeOK
    OBVIOUS
  <2> HIDE DEF AddSideBlock, IndInv
  <2>5. QED
    BY <2>1, <2>2, <2>3, <2>4 DEF TypeOK
<1>2. StoredClosed'
  BY DEF StoredClosed, ProcessorOK, ParentClosed, disk, consensus, pools, handler
<1>3. MappingIsChain'
  <2>1. UNCHANGED <<hashAt, latest>> /\ stored \subseteq stored'
    OBVIOUS
  <2> HIDE DEF AddSideBlock
  <2>2. QED
    BY <1>0, <2>1 DEF MappingIsChain
<1>4. BestIsTip'
  BY <1>0 DEF BestIsTip, disk, consensus, pools, handler
<1>5. ProcessorOK'
  BY <1>0 DEF ProcessorOK, disk, consensus, pools, handler
<1>6. ReorganizerOK'
  BY <1>0 DEF ReorganizerOK, Reorganizing, SwapPCs, disk, consensus, pools, handler
<1>7. MarkerOK'
  BY <1>0 DEF MarkerOK, Reorganizing, SwapPCs, disk, consensus, pools, handler
<1>8. StartOK'
  BY <1>0 DEF StartOK, disk, consensus, pools, handler
<1>9. NeverFatal'
  BY <1>0 DEF NeverFatal, disk, consensus, pools, handler
<1>10. QED
  BY <1>1, <1>2, <1>3, <1>4, <1>5, <1>6, <1>7, <1>8, <1>9
=============================================================================
