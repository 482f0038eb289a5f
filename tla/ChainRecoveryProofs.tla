------------------------ MODULE ChainRecoveryProofs -------------------------
(***************************************************************************)
(* The inductive invariant of ChainService is kept by a crash, a start and *)
(* a recovery, wherever they happen: one lemma for each action and in it   *)
(* one step for each conjunct.                                             *)
(***************************************************************************)
EXTENDS ChainConnectProofs

(* A crash leaves the disk as it is.                                       *)
LEMMA CrashInv ==
    ASSUME IndInv, Crash
    PROVE  IndInv'
<1> USE DEF IndInv, Crash
<1>0. UNCHANGED <<hashAt, latest>> /\ Tip' = Tip
  BY DEF disk, Tip
<1>1. TypeOK'
  <2>1. UNCHANGED <<stored, hashAt, latest, txMap, receipts, states, marker, savedLib>>
    BY DEF disk
  <2>2. best' \in Blocks /\ root' \in {RootOf[b] : b \in Blocks} /\ crashes' \in Nat
    BY BlockTreeAssumption, ChainAssumption DEF TypeOK
  <2>3. isMain' \in BOOLEAN /\ byBP' \in BOOLEAN /\ pc' \in PCs
    BY DEF PCs
  <2>4. {first', blk', last', brStart'} \subseteq Blocks
    BY BlockTreeAssumption, ChainAssumption
  <2>5. /\ csBest' = Nil /\ lib' = 0 /\ orphans' = {} /\ errBlocks' = {}
        /\ mempool' = {} /\ produced' = Nil
    OBVIOUS
  <2> HIDE DEF Crash
  <2>6. QED
    BY <2>1, <2>2, <2>3, <2>4, <2>5 DEF TypeOK
<1>2. StoredClosed'
  BY <1>0 DEF StoredClosed, disk, consensus, pools, handler
<1>3. MappingIsChain'
  BY MappingFrame DEF disk
<1>4. BestIsTip'
  BY <1>0 DEF BestIsTip, disk, consensus, pools, handler
<1>5. ProcessorOK'
  BY <1>0 DEF ProcessorOK, disk, consensus, pools, handler
<1>6. ReorganizerOK'
  BY <1>0 DEF ReorganizerOK, Reorganizing, SwapPCs, disk, consensus, pools, handler
<1>7. MarkerOK'
  BY <1>0 DEF MarkerOK, Reorganizing, SwapPCs, ExecutedUpTo, disk, consensus, pools, handler
<1>8. StartOK'
  BY <1>0 DEF StartOK, disk, consensus, pools, handler
<1>9. NeverFatal'
  BY <1>0 DEF NeverFatal, disk, consensus, pools, handler
<1>10. QED
  BY <1>1, <1>2, <1>3, <1>4, <1>5, <1>6, <1>7, <1>8, <1>9

(* A start puts the mapping back on the old branch if, and only if, the    *)
(* marker says that a reorganization had swapped it.                       *)
LEMMA BootInv ==
    ASSUME IndInv, Boot
    PROVE  IndInv'
<1> USE DEF IndInv
<1>l. Loadable
  <2>1. hashAt[latest] \in stored
    BY AncBasic DEF MappingIsChain, Tip
  <2>2. ASSUME MappingSwapped PROVE marker.best \in stored /\ Walkable(marker.best, marker.start)
    <3>1. /\ marker.best \in stored /\ marker.best \in Blocks /\ marker.start \in Anc[marker.best]
      BY <2>2 DEF MappingSwapped, MarkerOK, TypeOK, Fork
    <3>2. Anc[marker.best] \subseteq stored
      BY <3>1, StoredAnc
    <3>3. ASSUME NEW c \in Branch(marker.best, marker.start)
          PROVE  {c, Parent[c]} \subseteq stored /\ No[c] = No[Parent[c]] + 1
      <4>1. c \in Anc[marker.best] /\ c \in Blocks /\ c # Genesis /\ Parent[c] \in Anc[marker.best]
        BY <3>1, AncBasic, BranchParent DEF Branch, ParentClosed
      <4>2. QED
        BY BlockTreeAssumption, ChainAssumption, <3>2, <4>1
    <3>4. QED
      BY <3>1, <3>3 DEF Walkable
  <2>3. QED
    BY <2>1, <2>2 DEF Loadable
<1> USE DEF Boot
<1>a. UNCHANGED <<stored, txMap, receipts, states, marker, savedLib, csBest, lib, orphans, errBlocks, mempool,
                  produced, first, blk, last, isMain, byBP, brStart, crashes>>
  BY DEF consensus, pools, handler
<1>b. pc = "down" /\ pc' = "recover" /\ best' = Tip' /\ root' = RootOf[best']
  BY <1>l DEF Tip
<1>c. /\ Tip' \in Blocks /\ No[Tip'] = latest' /\ hashAt' \in [Heights -> Blocks \cup {Nil}]
      /\ latest' \in Heights /\ MappingIsChain' /\ (marker # Nil => Tip' = marker.best)
  <2>1. CASE MappingSwapped
    <3>1. /\ marker # Nil /\ Fork(marker.start, marker.best, marker.top) /\ Tip = marker.top
          /\ marker.best \in stored /\ marker.best \in Blocks /\ marker.top \in Blocks
          /\ No[marker.top] = latest /\ latest \in Nat
      BY BlockTreeAssumption, ChainAssumption, <2>1, SMTT(20) DEF MappingSwapped, MarkerOK, Tip, TypeOK, MappingIsChain
    <3>2. /\ hashAt' = Remap(marker.best, marker.start, No[marker.top])
          /\ latest' = No[marker.best]
      BY <1>l, <2>1
    <3>3. /\ hashAt' \in [Heights -> Blocks \cup {Nil}]
          /\ hashAt'[No[marker.best]] = marker.best
          /\ \A n \in Heights : IF n <= No[marker.best]
                                THEN hashAt'[n] \in Anc[marker.best] /\ No[hashAt'[n]] = n
                                ELSE hashAt'[n] = Nil
      BY <3>1, <3>2, RemapIsChain, SMTT(20) DEF Fork
    <3>4. Tip' = marker.best /\ Anc[marker.best] \subseteq stored
      BY <3>1, <3>2, <3>3, StoredAnc DEF Tip
    <3>5. MappingIsChain'
      BY <1>a, <3>1, <3>2, <3>3, <3>4 DEF MappingIsChain
    <3>6. QED
      BY <3>1, <3>2, <3>3, <3>4, <3>5 DEF Heights
  <2>2. CASE ~MappingSwapped
    <3>1. UNCHANGED <<hashAt, latest>> /\ Tip' = Tip
      BY <1>l, <2>2 DEF Tip
    <3>2. marker # Nil => Tip = marker.best
      BY <2>2 DEF MappingSwapped, Tip
    <3> HIDE DEF Boot
    <3>3. QED
      BY <1>a, <3>1, <3>2 DEF MappingIsChain, TypeOK
  <2>3. QED
    BY <2>1, <2>2
<1> HIDE DEF Boot
<1>1. TypeOK'
  <2>1. pc' \in PCs
    BY <1>a, <1>b, <1>c DEF PCs, RunningPCs
  <2>2. QED
    BY <1>a, <1>b, <1>c, <2>1, SMTT(20) DEF TypeOK
<1>2. StoredClosed'
  BY <1>a DEF StoredClosed
<1>3. MappingIsChain'
  BY <1>c
<1>4. BestIsTip'
  BY <1>b DEF BestIsTip
<1>5. ProcessorOK'
  BY <1>a, <1>b DEF ProcessorOK
<1>6. ReorganizerOK'
  BY <1>b DEF ReorganizerOK, Reorganizing, SwapPCs
<1>7. MarkerOK'
  BY <1>a, <1>b, <1>c DEF MarkerOK, Reorganizing, SwapPCs, ExecutedUpTo
<1>8. StartOK'
  BY <1>a, <1>b DEF StartOK
<1>9. NeverFatal'
  BY <1>b DEF NeverFatal
<1>10. QED
  BY <1>1, <1>2, <1>3, <1>4, <1>5, <1>6, <1>7, <1>8, <1>9

(* Recover accepts every marker that a crash can leave.                    *)
LEMMA RecoverInv ==
    ASSUME IndInv, Recover
    PROVE  IndInv'
<1> USE DEF IndInv, Recover
<1>0. UNCHANGED <<hashAt, latest>> /\ Tip' = Tip
  BY DEF disk, Tip
<1>a. UNCHANGED <<stored, hashAt, latest, txMap, receipts, states, marker, savedLib, best, root,
                  csBest, lib, pools, first, blk, isMain, byBP, crashes>> /\ pc = "recover" /\ ~isMain
  BY DEF disk, consensus, ProcessorOK
<1>b. CASE marker = Nil
  <2>1. pc' = "idle" /\ UNCHANGED <<last, brStart>>
    BY <1>b DEF StartOK
  <2> HIDE DEF Recover
  <2>2. TypeOK'
    BY <1>a, <2>1 DEF TypeOK, PCs, RunningPCs, pools
  <2>3. StoredClosed' /\ MappingIsChain' /\ BestIsTip'
    BY <1>0, <1>a, <2>1, MappingFrame DEF StoredClosed, BestIsTip
  <2>4. ProcessorOK' /\ ReorganizerOK' /\ MarkerOK' /\ StartOK' /\ NeverFatal'
    BY <1>a, <1>b, <2>1
    DEF ProcessorOK, ReorganizerOK, Reorganizing, SwapPCs, MarkerOK, StartOK, NeverFatal, pools
  <2>5. QED
    BY <2>2, <2>3, <2>4
<1>c. CASE marker # Nil
  <2>1. /\ Fork(marker.start, marker.best, marker.top) /\ marker.top \in stored /\ marker.best \in stored
        /\ best = marker.best /\ marker \in Markers /\ lib = 0
        /\ marker.start \in Blocks /\ marker.top \in Blocks
    BY <1>a, <1>c DEF MarkerOK, BestIsTip, TypeOK, StartOK, Markers
  <2>2. marker.start \in stored
    BY <2>1, StoredAnc DEF Fork
  <2>3. ValidMarker(marker) /\ GatherReco(marker)
    BY <2>1, <2>2, StoredAnc DEF ValidMarker, GatherReco, Fork, Branch
  <2>4. last' = marker.top /\ brStart' = marker.start /\ pc' = "rollback"
    BY <1>c, <2>1, <2>3
  <2> HIDE DEF Recover
  <2>5. TypeOK'
    BY <1>a, <2>1, <2>4 DEF TypeOK, PCs, RunningPCs, pools
  <2>6. StoredClosed' /\ MappingIsChain' /\ BestIsTip'
    BY <1>0, <1>a, <2>4, MappingFrame DEF StoredClosed, BestIsTip
  <2>7. ProcessorOK' /\ StartOK' /\ NeverFatal'
    BY <1>a, <2>1, <2>4 DEF ProcessorOK, StartOK, NeverFatal, pools
  <2>8. ReorganizerOK'
    BY <1>a, <2>1, <2>4 DEF ReorganizerOK, Fork
  <2>9. MarkerOK'
    BY <1>0, <1>a, <1>c, <2>1, <2>4 DEF MarkerOK, SwapPCs, Fork, ExecutedUpTo
  <2>10. QED
    BY <2>5, <2>6, <2>7, <2>8, <2>9
<1>1. QED
  BY <1>b, <1>c
=============================================================================
