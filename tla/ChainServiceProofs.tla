------------------------- MODULE ChainServiceProofs -------------------------
(***************************************************************************)
(* Theorems about ChainService, for every block tree and every value of    *)
(* the other constants.  They follow from the inductive invariant IndInv;  *)
(* the lemmas for the single steps are in the modules extended here.       *)
(***************************************************************************)
EXTENDS ChainExecuteProofs, ChainReorgProofs, ChainSwapProofs, ChainRecoveryProofs

(* A node starts with the genesis block.                                   *)
LEMMA InitInv ==
    ASSUME Init
    PROVE  IndInv
<1> USE DEF Init
<1>1. 0 \in Heights /\ Heights \subseteq Nat
  BY BlockTreeAssumption, ChainAssumption DEF Heights
<1>2. Tip = Genesis
  BY <1>1 DEF Tip
<1>3. Anc[Genesis] = {Genesis}
  <2>1. ParentClosed({Genesis})
    BY BlockTreeAssumption, ChainAssumption DEF ParentClosed
  <2>2. QED
    BY BlockTreeAssumption, ChainAssumption, <2>1, AncLeast, AncBasic
<1>4. TypeOK
  BY BlockTreeAssumption, ChainAssumption, <1>1 DEF TypeOK, PCs, RunningPCs
<1>5. StoredClosed /\ BestIsTip
  BY BlockTreeAssumption, ChainAssumption, <1>2 DEF StoredClosed, ParentClosed, BestIsTip
<1>6. MappingIsChain
  BY BlockTreeAssumption, ChainAssumption, <1>1, <1>2, <1>3 DEF MappingIsChain
<1>7. ProcessorOK /\ ReorganizerOK /\ MarkerOK /\ StartOK /\ NeverFatal
  BY DEF ProcessorOK, ReorganizerOK, Reorganizing, SwapPCs, MarkerOK, StartOK, NeverFatal
<1>8. QED
  BY <1>4, <1>5, <1>6, <1>7 DEF IndInv

(* A step that changes nothing, such as the answer to a block already      *)
(* known, keeps the invariant.                                             *)
LEMMA StutterInv ==
    ASSUME IndInv, UNCHANGED vars
    PROVE  IndInv'
<1>1. UNCHANGED <<stored, hashAt, latest, txMap, receipts, states, marker, savedLib, best, root, csBest, lib,
                  orphans, errBlocks, mempool, produced, pc, first, blk, last, isMain, byBP, brStart, crashes>>
  BY DEF vars, disk, consensus, pools, handler
<1>2. Tip' = Tip
  BY <1>1 DEF Tip
<1>3. TypeOK'
  BY <1>1 DEF IndInv, TypeOK
<1>4. StoredClosed' /\ MappingIsChain' /\ BestIsTip'
  BY <1>1, <1>2 DEF IndInv, StoredClosed, MappingIsChain, BestIsTip
<1>5. ProcessorOK'
  BY <1>1, <1>2 DEF IndInv, ProcessorOK
<1>6. ReorganizerOK'
  BY <1>1 DEF IndInv, ReorganizerOK, Reorganizing, ExecutedUpTo, NewBlocks
<1>7. MarkerOK'
  BY <1>1, <1>2 DEF IndInv, MarkerOK, Reorganizing, ExecutedUpTo
<1>8. StartOK' /\ NeverFatal'
  BY <1>1 DEF IndInv, StartOK, NeverFatal
<1>9. QED
  BY <1>3, <1>4, <1>5, <1>6, <1>7, <1>8 DEF IndInv

(* Every step of the chain service keeps the invariant.                    *)
LEMMA NextInv ==
    ASSUME IndInv, [Next]_vars
    PROVE  IndInv'
<1>1. CASE UNCHANGED vars
  BY <1>1, StutterInv
<1>2. CASE Step
  BY <1>2, AddSideBlockInv, ExecuteBlockInv, FinishExecuteInv, SetLatestInv, CommitConnectInv,
     ResolveOrphanInv, GatherInv, RollbackInv, RollForwardInv, ExecuteBlockRecoInv, WriteMarkerInv,
     DeleteOldReceiptsInv, SwapTxMappingInv, DropTxMappingInv, SwapChainMappingInv, DeleteMarkerInv,
     BootInv, RecoverInv
  DEF Step
<1>3. CASE Receive
  BY <1>3, AddBlockInv, AddBadSignInv, AddOrphanInv, GenerateBlockInv, AddProducedInv, StutterInv
  DEF Receive, IgnoreBlock
<1>4. CASE Crash
  BY <1>4, CrashInv
<1>5. QED
  BY <1>1, <1>2, <1>3, <1>4 DEF Next

(* The inductive invariant holds in every reachable state, whatever the    *)
(* tree and however many crashes.                                          *)
THEOREM Invariance == Spec => []IndInv
<1>1. Init => IndInv
  BY InitInv
<1>2. IndInv /\ [Next]_vars => IndInv'
  BY NextInv
<1>3. QED
  BY <1>1, <1>2, PTL DEF Spec

(* Every variable of the chain service stays in its type.                  *)
THEOREM TypeCorrect == Spec => []TypeOK
<1>1. IndInv => TypeOK
  BY DEF IndInv
<1>2. QED
  BY <1>1, Invariance, PTL

(* The number-to-hash mapping (chaindb.go) is always exactly the chain of  *)
(* the durable best block, through every swap and every recovery.          *)
THEOREM MappingCorrect == Spec => []MappingIsChain
<1>1. IndInv => MappingIsChain
  BY DEF IndInv
<1>2. QED
  BY <1>1, Invariance, PTL

(* Recovery never gives up (Recover, initRecovery, executeBlockReco): no   *)
(* crash leaves data that a restart refuses.                               *)
THEOREM RecoverySucceeds == Spec => []NeverFatal
<1>1. IndInv => NeverFatal
  BY DEF IndInv
<1>2. QED
  BY <1>1, Invariance, PTL

(* A block of this node's factory is never taken for one of a side branch, *)
(* however late it arrives (the stale-block check of addBlockInternal and  *)
(* isMainChain agree).                                                     *)
THEOREM OwnBlocksExtend == Spec => []OwnBlockExtends
<1>1. IndInv => OwnBlockExtends
  BY DEF IndInv, ProcessorOK, OwnBlockExtends
<1>2. QED
  BY <1>1, Invariance, PTL

(* Every step is a step of the ledger or leaves the committed head alone:  *)
(* connecting a block commits an extension, writing the marker of a new    *)
(* reorganization commits it, and undoing and repeating one at a start     *)
(* does neither.                                                           *)
LEMMA StepRefines ==
    ASSUME IndInv, [Next]_vars
    PROVE  [L!Next]_CommittedHead
<1> USE DEF IndInv
<1>1. ASSUME UNCHANGED <<hashAt, latest, marker>> PROVE UNCHANGED CommittedHead
  BY <1>1 DEF CommittedHead, Tip
<1>2. CASE CommitConnect
  <2>1. /\ blk \in Blocks /\ marker = Nil /\ marker' = Nil /\ blk # Genesis /\ Parent[blk] = Tip
        /\ Tip \in Blocks /\ No[blk] \in Heights
    BY <1>2 DEF CommitConnect, ProcessorOK, TypeOK, MappingIsChain, Heights
  <2>2. Tip' = blk
    BY <1>2, <2>1 DEF CommitConnect, Tip, TypeOK
  <2>3. blk # Tip
    BY BlockTreeAssumption, ChainAssumption, <2>1
  <2>4. L!Extend(blk)
    BY <2>1, <2>2, <2>3 DEF L!Extend, CommittedHead
  <2>5. QED
    BY <2>1, <2>4 DEF L!Next
<1>3. CASE WriteMarker
  <2>1. Fork(brStart, best, last) /\ last \in Blocks /\ best = Tip /\ Tip \in Blocks
    BY <1>3 DEF WriteMarker, ReorganizerOK, Reorganizing, BestIsTip, TypeOK, MappingIsChain
  <2>2. marker' # Nil /\ marker'.top = last
    BY BlockTreeAssumption, ChainAssumption, <1>3 DEF WriteMarker, NewReorgMarker, Markers, TypeOK
  <2>3. CASE marker = Nil
    <3>1. L!Anc = Anc
      BY DEF L!Anc, Anc, L!ParentClosed, ParentClosed
    <3>2. L!Reorganize(last)
      BY <2>1, <2>2, <2>3, <3>1 DEF L!Reorganize, CommittedHead, Fork
    <3>3. QED
      BY <2>1, <3>2 DEF L!Next
  <2>4. CASE marker # Nil
    <3>1. marker.top = last
      BY <1>3, <2>4 DEF WriteMarker, MarkerOK, Reorganizing
    <3>2. QED
      BY <2>2, <2>4, <3>1 DEF CommittedHead
  <2>5. QED
    BY <2>3, <2>4
<1>4. CASE SwapChainMapping
  BY <1>4 DEF SwapChainMapping, MarkerOK, SwapPCs, CommittedHead
<1>5. CASE DeleteMarker
  BY <1>5 DEF DeleteMarker, MarkerOK, CommittedHead, Tip
<1>6. CASE Boot
  <2>1. marker' = marker /\ (marker = Nil => UNCHANGED <<hashAt, latest>>)
    BY <1>6 DEF Boot, MappingSwapped
  <2>2. QED
    BY <2>1 DEF CommittedHead, Tip
<1>7. CASE AddSideBlock \/ ExecuteBlock \/ FinishExecute \/ SetLatest \/ ResolveOrphan \/ Gather
           \/ Rollback \/ RollForward \/ ExecuteBlockReco
  BY <1>1, <1>7 DEF AddSideBlock, ExecuteBlock, FinishExecute, SetLatest, ResolveOrphan, Gather,
     Rollback, RollForward, ExecuteBlockReco, disk
<1>8. CASE DeleteOldReceipts \/ SwapTxMapping \/ DropTxMapping \/ Recover \/ Crash \/ Receive
  BY <1>1, <1>8 DEF DeleteOldReceipts, SwapTxMapping, DropTxMapping, Recover, Crash, Receive,
     AddBlock, IgnoreBlock, AddBadSign, AddOrphan, GenerateBlock, AddProduced, disk, vars
<1>9. CASE UNCHANGED vars
  BY <1>1, <1>9 DEF vars, disk
<1>10. QED
  BY <1>2, <1>3, <1>4, <1>5, <1>6, <1>7, <1>8, <1>9 DEF Next, Step

(* The chain service implements the ledger: seen from outside a            *)
(* reorganization is one indivisible step to a strictly longer branch,     *)
(* with crashes and recoveries at any point (swapChain, Recover).          *)
THEOREM Refinement == Spec => LedgerSpec
<1>1. Init => L!Init
  <2>1. ASSUME Init PROVE CommittedHead = Genesis
    <3>1. 0 \in Heights
      BY BlockTreeAssumption DEF Heights
    <3>2. QED
      BY <2>1, <3>1 DEF Init, CommittedHead, Tip
  <2>2. QED
    BY <2>1 DEF L!Init
<1>2. IndInv /\ [Next]_vars => [L!Next]_CommittedHead
  BY StepRefines
<1>3. QED
  BY <1>1, <1>2, Invariance, PTL DEF Spec, LedgerSpec, L!Spec
=============================================================================
