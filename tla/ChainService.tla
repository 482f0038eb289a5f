---------------------------- MODULE ChainService -----------------------------
(***************************************************************************)
(* The chain manager of the chain service (chain/): adding a block,        *)
(* executing it, keeping side branches and orphans, reorganizing to a      *)
(* longer branch, and recovering from a crash at any durable write.        *)
(*                                                                         *)
(* The chain manager is one actor, so a handler runs to its end before the *)
(* next one starts; but the process can die between any two database       *)
(* commits.  A handler is therefore a sequence of steps, one for each      *)
(* durable write (pc names the next one), and Crash is possible everywhere.*)
(* The database's transactions and bulk flushes are taken to be atomic.    *)
(***************************************************************************)
EXTENDS BlockTree

CONSTANTS
    Txs,            \* transaction hashes
    TxsOf,          \* the transactions in a block's body
    RootOf,         \* Header.BlocksRootHash of a block
    Bad,            \* blocks that IsBlockValid, their execution or the post validation rejects
    BadSign,        \* blocks whose signature does not verify
    OrphanCap,      \* size of the orphan pool
    ErrCap,         \* size of the LRU cache of errored blocks
    MaxLib,         \* highest LIB the consensus reaches (0: a consensus without LIB)
    MaxCrash,       \* how many crashes a behaviour may have
    Nil

(* The reorg marker's content: branch root, old best block, branch top.    *)
Markers == [start : Blocks, best : Blocks, top : Blocks]

ASSUME ChainAssumption ==
    /\ TxsOf \in [Blocks -> SUBSET Txs]
    /\ TxsOf[Genesis] = {}
    /\ DOMAIN RootOf = Blocks
    /\ Bad \subseteq Blocks
    /\ BadSign \subseteq Blocks
    /\ OrphanCap \in Nat \ {0}
    /\ ErrCap \in Nat \ {0}
    /\ MaxLib \in Nat
    /\ MaxCrash \in Nat
    /\ Nil \notin Blocks \cup Markers

VARIABLES
    \* chain and state database: survives a crash
    stored,         \* hash -> block: the blocks that can be read back
    hashAt,         \* number -> hash: the main chain
    latest,         \* latestKey: the number of the best block
    txMap,          \* transaction -> block that holds it
    receipts,       \* blocks whose receipts are stored
    states,         \* committed state roots (state markers)
    marker,         \* reorg marker, or Nil
    savedLib,       \* LIB number written by the consensus' Save
    \* memory: lost in a crash
    best,           \* cdb.bestBlock (and cdb.latest, its number)
    root,           \* sdb's current state root
    csBest,         \* dpos Status.bestBlock; Nil until the first Update loads it
    lib,            \* dpos Status.libState.Lib.BlockNo
    orphans,        \* orphan pool
    errBlocks,      \* LRU cache of errored blocks
    mempool,        \* transactions the mempool holds
    produced,       \* block this node's block factory has sent, or Nil
    \* the running handler
    pc,             \* the next step
    first,          \* newBlock of addBlock
    blk,            \* the block in hand
    last,           \* chainProcessor.lastBlock, then reorganizer.brTopBlock
    isMain,         \* chainProcessor.isMainChain
    byBP,           \* chainProcessor.isByBP
    brStart,        \* reorganizer.brStartBlock
    crashes         \* number of crashes so far (bounds the model only)

disk == <<stored, hashAt, latest, txMap, receipts, states, marker, savedLib>>
consensus == <<csBest, lib>>
pools == <<orphans, errBlocks, mempool, produced>>
handler == <<first, blk, last, isMain, byBP, brStart>>
vars == <<disk, best, root, consensus, pools, pc, handler, crashes>>

RunningPCs == {"exec", "post", "connect", "commit", "side", "resolve",
               "gather", "rollback", "forward", "mark", "delReceipts",
               "swapTx", "dropTx", "swapMap", "unmark"}
PCs == RunningPCs \cup {"idle", "down", "recover", "fatal"}

Init ==
    /\ stored = {Genesis}
    /\ hashAt = [n \in Heights |-> IF n = 0 THEN Genesis ELSE Nil]
    /\ latest = 0
    /\ txMap = [t \in Txs |-> Nil]
    /\ receipts = {}
    /\ states = {RootOf[Genesis]}
    /\ marker = Nil
    /\ savedLib = 0
    /\ best = Genesis
    /\ root = RootOf[Genesis]
    /\ csBest = Nil
    /\ lib = 0
    /\ orphans = {}
    /\ errBlocks = {}
    /\ mempool = Txs
    /\ produced = Nil
    /\ pc = "idle"
    /\ first = Genesis /\ blk = Genesis /\ last = Genesis /\ brStart = Genesis
    /\ isMain = FALSE /\ byBP = FALSE
    /\ crashes = 0

-----------------------------------------------------------------------------
(* The consensus' part: dpos Status.  With MaxLib = 0 it is the simple BP  *)
(* consensus, which has no LIB.                                            *)

(* VerifyTimestamp also rejects a block at or below the LIB.  Before the   *)
(* first Update after a start, lib is still that of a new libStatus, 0.    *)
VerifyTimestamp(b) == No[b] > lib

(* Mutant: the branch root may be one below the LIB.                       *)
NeedReorganizationOffByOne(rootNo) == rootNo + 1 >= lib

NeedReorganization(rootNo) == rootNo >= lib

(* Update first loads the saved status, once.  A child of the last block   *)
(* seen may move the LIB, to any number up to that child's: updateLIB does *)
(* not compare the new LIB with the old one.  Any other block is a         *)
(* rollback, which keeps the LIB.                                          *)
Update(b) ==
    LET seen == IF csBest = Nil THEN best ELSE csBest
        cur  == IF csBest = Nil THEN savedLib ELSE lib
    IN  /\ csBest' = b
        /\ lib' \in {cur} \cup
             {n \in 1..MaxLib : b # Genesis /\ Parent[b] = seen /\ n <= No[b]}

-----------------------------------------------------------------------------
(* Caches of a fixed size.  Which entry is evicted is left open.           *)
Put(cache, x, cap) ==
    IF Cardinality(cache) < cap THEN {cache \cup {x}}
    ELSE {(cache \ {old}) \cup {x} : old \in cache}

(* An error that addBlock caches: the handler ends, newBlock is remembered.*)
Fail ==
    /\ errBlocks' \in Put(errBlocks, first, ErrCap)
    /\ pc' = "idle"

(* addBlock returns at once for a block of the error cache or one stored.  *)
IsNew(b) == b \notin errBlocks /\ b \notin stored

IsOrphan(b) == Parent[b] \notin stored

(* The number is not compared for a block with number 0.                   *)
IsMainChain(b) ==
    /\ No[b] > 0 => No[b] = No[best] + 1
    /\ Parent[b] = hashAt[No[best]]

(* Mutants: a branch as long as the main chain wins; a branch has to be    *)
(* two blocks longer.                                                      *)
NeedReorgOnTie(b) == No[best] <= No[b]
NeedReorgOffByOne(b) == No[best] + 1 < No[b]

NeedReorg(b) == No[best] < No[b]

(* A transaction, or nothing, at each hash once block b's are written.     *)
AddTxsOfBlock(b) == [t \in Txs |-> IF t \in TxsOf[b] THEN b ELSE txMap[t]]

-----------------------------------------------------------------------------
(* addBlock, addBlockInternal: the checks in front of the chain processor. *)

(* newChainProcessor: whether the block extends the main chain is decided  *)
(* here, once, for the block and for all orphans that it brings along.     *)
NewChainProcessor(b, bp) ==
    /\ first' = b /\ blk' = b /\ byBP' = bp
    /\ isMain' = IsMainChain(b)
    /\ pc' = IF isMain' THEN "exec" ELSE "side"
    /\ UNCHANGED <<last, brStart>>

(* A block from the network that passes the checks and whose predecessor   *)
(* is known.                                                               *)
AddBlock(b) ==
    /\ pc = "idle"
    /\ IsNew(b) /\ VerifyTimestamp(b) /\ b \notin BadSign /\ ~IsOrphan(b)
    /\ NewChainProcessor(b, FALSE)
    /\ UNCHANGED <<disk, best, root, consensus, pools, crashes>>

(* A block that is stored, or cached as errored, or at or below the LIB:   *)
(* addBlock answers at once and nothing changes.                           *)
IgnoreBlock(b) ==
    /\ pc = "idle"
    /\ ~IsNew(b) \/ ~VerifyTimestamp(b)
    /\ UNCHANGED vars

(* A block whose signature does not verify is an error that is cached.     *)
AddBadSign(b) ==
    /\ pc = "idle"
    /\ IsNew(b) /\ VerifyTimestamp(b) /\ b \in BadSign
    /\ errBlocks' \in Put(errBlocks, b, ErrCap)
    /\ UNCHANGED <<disk, best, root, consensus, orphans, mempool, produced, pc,
                   handler, crashes>>

(* handleOrphan: the pool keeps one orphan for each missing predecessor;   *)
(* at its limit an old entry makes room.                                   *)
AddOrphan(b) ==
    /\ pc = "idle"
    /\ IsNew(b) /\ VerifyTimestamp(b) /\ b \notin BadSign /\ IsOrphan(b)
    /\ \A o \in orphans : Parent[o] # Parent[b]
    /\ orphans' \in Put(orphans, b, OrphanCap)
    /\ UNCHANGED <<disk, best, root, consensus, errBlocks, mempool, produced, pc,
                   handler, crashes>>

(* The block factory generates a block on the best block it read and sends *)
(* it to the chain manager, which may be busy with other blocks meanwhile. *)
GenerateBlock(b) ==
    /\ pc \notin {"down", "recover", "fatal"}
    /\ produced = Nil
    /\ b \notin Bad \cup BadSign \cup stored /\ Parent[b] = best /\ b # Genesis
    /\ produced' = b
    /\ UNCHANGED <<disk, best, root, consensus, orphans, errBlocks, mempool, pc,
                   handler, crashes>>

(* Mutant: a stale block is processed like any other.                      *)
AddProducedStale ==
    /\ pc = "idle" /\ produced # Nil
    /\ produced' = Nil
    /\ IF IsNew(produced) /\ VerifyTimestamp(produced)
       THEN NewChainProcessor(produced, TRUE)
       ELSE UNCHANGED <<pc, handler>>
    /\ UNCHANGED <<disk, best, root, consensus, orphans, errBlocks, mempool, crashes>>

(* The chain manager receives it: a block that is no longer a child of the *)
(* best block is stale and is rejected.                                    *)
AddProduced ==
    /\ pc = "idle" /\ produced # Nil
    /\ produced' = Nil
    /\ IF IsNew(produced) /\ VerifyTimestamp(produced) /\ Parent[produced] = best
       THEN NewChainProcessor(produced, TRUE)
       ELSE UNCHANGED <<pc, handler>>
    /\ UNCHANGED <<disk, best, root, consensus, orphans, errBlocks, mempool, crashes>>

-----------------------------------------------------------------------------
(* chainProcessor.run                                                      *)

(* addBlock of the chain processor: a side branch block is only stored.    *)
AddSideBlock ==
    /\ pc = "side"
    /\ stored' = stored \cup {blk}
    /\ last' = blk
    /\ pc' = "resolve"
    /\ UNCHANGED <<hashAt, latest, txMap, receipts, states, marker, savedLib, best, root,
                   consensus, pools, first, blk, isMain, byBP, brStart, crashes>>

(* A block of the block factory comes with the state it was executed in,   *)
(* built on the best block's root.  Any other block is executed on the     *)
(* current root of the state database, and its header's root must result.  *)
Executable(b) == b \notin Bad /\ (byBP \/ root = RootOf[Parent[b]])

(* executeBlock, up to the commit of the block's state.                    *)
ExecuteBlock ==
    /\ pc = "exec" /\ marker = Nil
    /\ IF Executable(blk)
       THEN /\ states' = states \cup {RootOf[blk]}
            /\ root' = RootOf[blk]
            /\ pc' = "post"
            /\ UNCHANGED errBlocks
       ELSE /\ Fail
            /\ UNCHANGED <<states, root>>
    /\ UNCHANGED <<stored, hashAt, latest, txMap, receipts, marker, savedLib, best,
                   consensus, orphans, mempool, produced, handler, crashes>>

(* Mutant: no MemPoolDel for the blocks of a branch.                       *)
FinishExecuteNoDel ==
    /\ pc = "post"
    /\ receipts' = IF TxsOf[blk] = {} THEN receipts ELSE receipts \cup {blk}
    /\ mempool' = IF isMain THEN mempool \ TxsOf[blk] ELSE mempool
    /\ Update(blk)
    /\ pc' = IF isMain THEN "connect" ELSE "forward"
    /\ UNCHANGED <<stored, hashAt, latest, txMap, states, marker, savedLib, best, root,
                   orphans, errBlocks, produced, handler, crashes>>

(* executeBlock, the rest: receipts, MemPoolDel, consensus Update.         *)
FinishExecute ==
    /\ pc = "post"
    /\ receipts' = IF TxsOf[blk] = {} THEN receipts ELSE receipts \cup {blk}
    /\ mempool' = mempool \ TxsOf[blk]
    /\ Update(blk)
    /\ pc' = IF isMain THEN "connect" ELSE "forward"
    /\ UNCHANGED <<stored, hashAt, latest, txMap, states, marker, savedLib, best, root,
                   orphans, errBlocks, produced, handler, crashes>>

(* connectToChain sets the best block in memory ...                        *)
SetLatest ==
    /\ pc = "connect"
    /\ best' = blk
    /\ pc' = "commit"
    /\ UNCHANGED <<disk, root, consensus, pools, handler, crashes>>

(* Mutant: the block itself is not written (skipAdd, for which a block has *)
(* to be in the write-ahead log already).                                  *)
CommitConnectSkipAdd ==
    /\ pc = "commit"
    /\ hashAt' = [hashAt EXCEPT ![No[blk]] = blk]
    /\ latest' = No[blk]
    /\ savedLib' = lib
    /\ txMap' = AddTxsOfBlock(blk)
    /\ pc' = "resolve"
    /\ UNCHANGED <<stored, receipts, states, marker, best, root, consensus, pools, handler, crashes>>

(* ... before the transaction with the block, its number, the best block's *)
(* number, the consensus status and its transactions is committed.         *)
CommitConnect ==
    /\ pc = "commit"
    /\ stored' = stored \cup {blk}
    /\ hashAt' = [hashAt EXCEPT ![No[blk]] = blk]
    /\ latest' = No[blk]
    /\ savedLib' = lib
    /\ txMap' = AddTxsOfBlock(blk)
    /\ pc' = "resolve"
    /\ UNCHANGED <<receipts, states, marker, best, root, consensus, pools, handler, crashes>>

(* resolveOrphan takes the orphan that waits for the block just added and  *)
(* applies it in the same way; one with a wrong number is an error, which  *)
(* ends the handler before reorganize.  When there is none, reorganize     *)
(* follows.                                                                *)
ResolveOrphan ==
    /\ pc = "resolve"
    /\ IF ~byBP /\ \E o \in orphans : Parent[o] = blk
       THEN \E o \in orphans :
              /\ Parent[o] = blk
              /\ IF No[o] = No[blk] + 1
                 THEN /\ orphans' = orphans \ {o}
                      /\ blk' = o
                      /\ pc' = IF isMain THEN "exec" ELSE "side"
                      /\ UNCHANGED errBlocks
                 ELSE Fail /\ UNCHANGED <<orphans, blk>>
       ELSE /\ pc' = IF ~isMain /\ NeedReorg(last) THEN "gather" ELSE "idle"
            /\ UNCHANGED <<orphans, errBlocks, blk>>
    /\ UNCHANGED <<disk, best, root, consensus, mempool, produced, first, last,
                   isMain, byBP, brStart, crashes>>

-----------------------------------------------------------------------------
(* reorg.  newBlocks and oldBlocks are what gather and gatherReco collect. *)
NewBlocks == Branch(last, brStart)

(* Mutant: the branch root is counted among the blocks to roll back.       *)
OldBlocksWithRoot == Branch(best, brStart) \cup {brStart}

OldBlocks == Branch(best, brStart)

OnMainChain(b) == No[b] <= No[best] /\ hashAt[No[b]] = b

(* The highest ancestor of the branch's top that is on the main chain.     *)
IsBranchRoot(b) ==
    /\ OnMainChain(b)
    /\ \A c \in Anc[last] : OnMainChain(c) => No[c] <= No[b]

(* A walk along predecessor hashes from top to start finds every block,    *)
(* and the numbers go down by one.                                         *)
Walkable(top, start) ==
    \A c \in Branch(top, start) : {c, Parent[c]} \subseteq stored /\ No[c] = No[Parent[c]] + 1

(* The best block itself as branch root is an error, and so is a walk that *)
(* misses a block or finds a wrong number.                                 *)
Gather ==
    /\ pc = "gather"
    /\ \E b \in Anc[last] :
         /\ IsBranchRoot(b)
         /\ IF b # best /\ Walkable(last, b)
            THEN brStart' = b /\ pc' = "rollback" /\ UNCHANGED errBlocks
            ELSE Fail /\ UNCHANGED brStart
    /\ UNCHANGED <<disk, best, root, consensus, orphans, mempool, produced, first, blk, last,
                   isMain, byBP, crashes>>

(* Mutant: the state is rolled back before the consensus is asked.         *)
RollbackBeforeCheck ==
    /\ pc = "rollback"
    /\ root' = RootOf[brStart]
    /\ IF NeedReorganization(No[brStart])
       THEN /\ Update(brStart)
            /\ blk' = brStart
            /\ pc' = "forward"
       ELSE /\ pc' = IF marker = Nil THEN "idle" ELSE "fatal"
            /\ UNCHANGED <<consensus, blk>>
    /\ UNCHANGED <<disk, best, pools, first, last, isMain, byBP, brStart, crashes>>

(* The consensus may refuse: an ordinary reorganization is then given up   *)
(* without an error, one under recovery is fatal.  Otherwise the state and *)
(* the consensus status go back to the branch root.                        *)
Rollback ==
    /\ pc = "rollback"
    /\ IF NeedReorganization(No[brStart])
       THEN /\ root' = RootOf[brStart]
            /\ Update(brStart)
            /\ blk' = brStart
            /\ pc' = "forward"
       ELSE /\ pc' = IF marker = Nil THEN "idle" ELSE "fatal"
            /\ UNCHANGED <<root, consensus, blk>>
    /\ UNCHANGED <<disk, best, pools, first, last, isMain, byBP, brStart, crashes>>

(* Mutant: the loop goes back to the first block of the branch.            *)
RollForwardRestart ==
    /\ pc = "forward"
    /\ IF blk = last
       THEN blk' = brStart /\ pc' = "mark"
       ELSE blk' \in {b \in NewBlocks : Parent[b] = brStart} /\ pc' = "exec"
    /\ UNCHANGED <<disk, best, root, consensus, pools, first, last, isMain, byBP, brStart, crashes>>

(* The branch is executed from its root to its top.                        *)
RollForward ==
    /\ pc = "forward"
    /\ IF blk = last
       THEN blk' = brStart /\ pc' = "mark"
       ELSE blk' \in {b \in NewBlocks : Parent[b] = blk} /\ pc' = "exec"
    /\ UNCHANGED <<disk, best, root, consensus, pools, first, last, isMain, byBP, brStart, crashes>>

(* executeBlockReco: under recovery, the branch's states are in the state  *)
(* database and only have to be found again; the consensus is asked again  *)
(* whether the block is valid.                                             *)
ExecuteBlockReco ==
    /\ pc = "exec" /\ marker # Nil
    /\ IF blk \notin Bad /\ RootOf[blk] \in states
       THEN /\ root' = RootOf[blk]
            /\ Update(blk)
            /\ pc' = "forward"
       ELSE /\ pc' = "fatal"
            /\ UNCHANGED <<root, consensus>>
    /\ UNCHANGED <<disk, best, pools, handler, crashes>>

-----------------------------------------------------------------------------
(* swapChain, one action for each commit.                                  *)

(* Mutant: the branch top's hash is left out.                              *)
NewReorgMarkerNoTop == [start |-> brStart, best |-> best, top |-> Nil]

NewReorgMarker == [start |-> brStart, best |-> best, top |-> last]

WriteMarker ==
    /\ pc = "mark"
    /\ marker' = NewReorgMarker
    /\ pc' = "delReceipts"
    /\ UNCHANGED <<stored, hashAt, latest, txMap, receipts, states, savedLib, best, root,
                   consensus, pools, handler, crashes>>

DeleteOldReceipts ==
    /\ pc = "delReceipts"
    /\ receipts' = receipts \ OldBlocks
    /\ pc' = "swapTx"
    /\ UNCHANGED <<stored, hashAt, latest, txMap, states, marker, savedLib, best, root,
                   consensus, pools, handler, crashes>>

(* swapTxMapping writes the transactions of one new block after the other. *)
SwapTxMapping ==
    /\ pc = "swapTx"
    /\ IF blk = last
       THEN pc' = "dropTx" /\ UNCHANGED <<txMap, blk>>
       ELSE /\ blk' \in {b \in NewBlocks : Parent[b] = blk}
            /\ txMap' = AddTxsOfBlock(blk')
            /\ UNCHANGED pc
    /\ UNCHANGED <<stored, hashAt, latest, receipts, states, marker, savedLib, best, root,
                   consensus, pools, first, last, isMain, byBP, brStart, crashes>>

(* Mutants: transactions that both branches have are dropped too; only     *)
(* those of the old best block are.                                        *)
OldTxsAll == UNION {TxsOf[b] : b \in OldBlocks}
OldTxsOfBest == TxsOf[best] \ UNION {TxsOf[b] : b \in NewBlocks}

(* oldTxs: the transactions of the old branch that the new one lacks.      *)
OldTxs == UNION {TxsOf[b] : b \in OldBlocks} \ UNION {TxsOf[b] : b \in NewBlocks}

(* reorganizer.recover: no newBlock is in hand, as the reorganization was  *)
(* started by Recover.                                                     *)
Recovering == first = Genesis

(* Then it deletes those that are only on the old branch, and sends them   *)
(* to the mempool, one MemPoolPut for each.  A recovery does this while    *)
(* the other components start: a message to a mempool that is not yet      *)
(* there, or has no state yet, is lost.                                    *)
DropTxMapping ==
    /\ pc = "dropTx"
    /\ txMap' = [t \in Txs |-> IF t \in OldTxs THEN Nil ELSE txMap[t]]
    /\ \E put \in IF Recovering THEN SUBSET OldTxs ELSE {OldTxs} : mempool' = mempool \cup put
    /\ pc' = "swapMap"
    /\ UNCHANGED <<stored, hashAt, latest, receipts, states, marker, savedLib, best, root,
                   consensus, orphans, errBlocks, produced, handler, crashes>>

(* Mutant: the numbers above the old best block are left in the mapping.   *)
RemapNoClear(tip, start, clear) ==
    [n \in Heights |->
       IF n > No[start] /\ n <= No[tip] THEN CHOOSE b \in Branch(tip, start) : No[b] = n
       ELSE hashAt[n]]

(* The number-to-hash mapping with the numbers above start taken from the  *)
(* branch of tip; mapping entries above clear are removed.                 *)
Remap(tip, start, clear) ==
    [n \in Heights |->
       IF n > No[start] /\ n <= No[tip] THEN CHOOSE b \in Branch(tip, start) : No[b] = n
       ELSE IF n > No[tip] /\ n <= clear THEN Nil
       ELSE hashAt[n]]

(* swapChainMapping: one bulk for the mapping, the best block's number and *)
(* the consensus status.  A recovery leaves a mapping that is already the  *)
(* new one; a branch that is not longer (ErrInvalidSwapChain) is fatal.    *)
SwapChainMapping ==
    /\ pc = "swapMap"
    /\ IF ~(Recovering /\ best = last) /\ No[best] < No[last]
       THEN /\ hashAt' = Remap(last, brStart, 0)
            /\ latest' = No[last]
            /\ savedLib' = lib
            /\ best' = last
            /\ pc' = "unmark"
       ELSE /\ pc' = IF Recovering /\ best = last THEN "unmark" ELSE "fatal"
            /\ UNCHANGED <<hashAt, latest, savedLib, best>>
    /\ UNCHANGED <<stored, txMap, receipts, states, marker, root, consensus, pools, handler, crashes>>

DeleteMarker ==
    /\ pc = "unmark"
    /\ marker' = Nil
    /\ pc' = "idle"
    /\ UNCHANGED <<stored, hashAt, latest, txMap, receipts, states, savedLib, best, root,
                   consensus, pools, handler, crashes>>

-----------------------------------------------------------------------------
(* Crash, start and recovery.                                              *)

Crash ==
    /\ pc \notin {"down", "fatal"}
    /\ crashes < MaxCrash
    /\ crashes' = crashes + 1
    /\ pc' = "down"
    /\ best' = Genesis /\ root' = RootOf[Genesis]
    /\ csBest' = Nil /\ lib' = 0
    /\ orphans' = {} /\ errBlocks' = {} /\ mempool' = {} /\ produced' = Nil
    /\ first' = Genesis /\ blk' = Genesis /\ last' = Genesis /\ brStart' = Genesis
    /\ isMain' = FALSE /\ byBP' = FALSE
    /\ UNCHANGED disk

(* Mutant: the mapping is never put back.                                  *)
MappingSwappedNever == FALSE

(* RecoverChainMapping: whether the mapping must go back to the old chain. *)
MappingSwapped == marker # Nil /\ hashAt[latest] # marker.best

(* The best block can be read and, when the mapping has to go back, so can *)
(* the old branch.                                                         *)
Loadable ==
    /\ hashAt[latest] \in stored
    /\ MappingSwapped => marker.best \in stored /\ Walkable(marker.best, marker.start)

(* Core.init: load the best block; when a reorganization was cut short     *)
(* after its mapping was swapped, put the old mapping back; then open the  *)
(* state database at the best block's root.  What cannot be loaded is      *)
(* fatal.                                                                  *)
Boot ==
    /\ pc = "down"
    /\ IF Loadable
       THEN /\ IF MappingSwapped
               THEN /\ hashAt' = Remap(marker.best, marker.start, No[marker.top])
                    /\ latest' = No[marker.best]
               ELSE UNCHANGED <<hashAt, latest>>
            /\ best' = hashAt'[latest']
            /\ root' = RootOf[best']
            /\ pc' = "recover"
       ELSE /\ pc' = "fatal"
            /\ UNCHANGED <<hashAt, latest, best, root>>
    /\ UNCHANGED <<stored, txMap, receipts, states, marker, savedLib, consensus, pools,
                   handler, crashes>>

(* initRecovery's check of the marker.                                     *)
ValidMarker(m) ==
    /\ m.start \in stored /\ m.best \in stored /\ m.top \in stored
    /\ No[m.start] < No[m.best] /\ No[m.best] < No[m.top]

(* gatherReco finds the blocks of both branches.                           *)
GatherReco(m) == Branch(m.best, m.start) \cup Branch(m.top, m.start) \subseteq stored

(* Recover runs before the first message is handled.  Without a marker it  *)
(* only checks the state root; with one it does the reorganization again.  *)
Recover ==
    /\ pc = "recover"
    /\ IF marker = Nil
       THEN /\ pc' = IF root = RootOf[best] THEN "idle" ELSE "fatal"
            /\ UNCHANGED <<last, brStart>>
       ELSE IF best = marker.best /\ ValidMarker(marker) /\ GatherReco(marker)
       THEN last' = marker.top /\ brStart' = marker.start /\ pc' = "rollback"
       ELSE pc' = "fatal" /\ UNCHANGED <<last, brStart>>
    /\ UNCHANGED <<disk, best, root, consensus, pools, first, blk, isMain, byBP, crashes>>

-----------------------------------------------------------------------------
(* The steps of the chain manager once a handler, or a start, has begun.   *)
Step ==
    \/ AddSideBlock \/ ExecuteBlock \/ FinishExecute \/ SetLatest \/ CommitConnect
    \/ ResolveOrphan \/ Gather \/ Rollback \/ RollForward \/ ExecuteBlockReco
    \/ WriteMarker \/ DeleteOldReceipts \/ SwapTxMapping \/ DropTxMapping
    \/ SwapChainMapping \/ DeleteMarker \/ Boot \/ Recover

(* What reaches it from outside.                                           *)
Receive ==
    \/ \E b \in Blocks : AddBlock(b) \/ IgnoreBlock(b) \/ AddBadSign(b) \/ AddOrphan(b)
                        \/ GenerateBlock(b)
    \/ AddProduced

Next == Step \/ Receive \/ Crash

Spec == Init /\ [][Next]_vars

(* A handler that has begun goes on, and a node that died is started again.*)
FairSpec == Spec /\ WF_vars(Step)

-----------------------------------------------------------------------------
(* Properties *)

(* Every variable stays in its type.                                       *)
TypeOK ==
    /\ stored \subseteq Blocks
    /\ hashAt \in [Heights -> Blocks \cup {Nil}]
    /\ latest \in Heights
    /\ txMap \in [Txs -> Blocks \cup {Nil}]
    /\ receipts \subseteq Blocks
    /\ states \subseteq {RootOf[b] : b \in Blocks}
    /\ marker \in Markers \cup {Nil}
    /\ savedLib \in Nat
    /\ best \in Blocks
    /\ root \in {RootOf[b] : b \in Blocks}
    /\ csBest \in Blocks \cup {Nil}
    /\ lib \in Nat
    /\ orphans \subseteq Blocks
    /\ errBlocks \subseteq Blocks
    /\ mempool \subseteq Txs
    /\ produced \in Blocks \cup {Nil}
    /\ pc \in PCs
    /\ {first, blk, last, brStart} \subseteq Blocks
    /\ isMain \in BOOLEAN /\ byBP \in BOOLEAN
    /\ crashes \in Nat

(* The durable best block.                                                 *)
Tip == hashAt[latest]

(* After any commit, so also for a reader or after a crash at that point,  *)
(* the number-to-hash mapping is exactly the chain from the durable best   *)
(* block down to the genesis block, and all its blocks can be read: the    *)
(* swap of a reorganization, and its undoing at a start, leave no mixture  *)
(* of the two branches.                                                    *)
MappingIsChain ==
    /\ Tip \in Blocks /\ No[Tip] = latest
    /\ Anc[Tip] \subseteq stored
    /\ \A n \in Heights :
         IF n <= latest THEN hashAt[n] \in Anc[Tip] /\ No[hashAt[n]] = n
         ELSE hashAt[n] = Nil

(* Whenever no reorganization is under way on disk, the transaction index  *)
(* finds exactly the transactions of the main chain, each in its block:    *)
(* none of an abandoned branch, whatever crashes interrupted its removal.  *)
TxIndexIsMainChain ==
    marker = Nil =>
      \A t \in Txs : {b \in Anc[Tip] : t \in TxsOf[b]}
                       = IF txMap[t] = Nil THEN {} ELSE {txMap[t]}

(* Whenever no reorganization is under way on disk, the receipts of every  *)
(* main chain block can be read and the state of the best block exists:    *)
(* receipts that a reorganization deleted are back if it is reversed.      *)
ReceiptsOfMainChain ==
    marker = Nil =>
      /\ \A b \in Anc[Tip] : TxsOf[b] # {} => b \in receipts
      /\ RootOf[Tip] \in states

(* Recovery always succeeds: the chain service never reaches its "CHAIN    *)
(* DATA IS CRASHED, BUT CAN'T BE RECOVERED" exit, wherever it crashed.     *)
NeverFatal == pc # "fatal"

(* Between two requests, the state database is at the best block's root    *)
(* and the consensus has seen the best block last (recoverNormal asserts   *)
(* the first, ErrRecoInvalidSdbRoot).                                      *)
StateAtBest ==
    pc = "idle" => root = RootOf[best] /\ csBest \in {Nil, best}

(* While no crash happens, between two requests no stored block is higher  *)
(* than the best block: orphans and branches that arrive in any order end  *)
(* on the longest chain (when the consensus has no LIB and no block is     *)
(* bad).                                                                   *)
BestIsHighest ==
    pc = "idle" /\ crashes = 0 => \A b \in stored : No[b] <= No[best]

(* Between two requests no transaction of the main chain waits in the      *)
(* mempool to be executed a second time: not one that is on both branches  *)
(* of a reorganization, nor one that a chain abandoned earlier gave back   *)
(* and a later reorganization took again, nor one that a recovery sends    *)
(* (MemPoolDel, and oldTxs of swapTxMapping).                              *)
MinedLeaveMempool ==
    pc = "idle" => mempool \cap UNION {TxsOf[b] : b \in Anc[best]} = {}

(* Between two requests, a block on its way from the block factory has a   *)
(* predecessor that is stored, though the factory may have read it as the  *)
(* best block before it was committed (addBlockInternal: "block received   *)
(* from BP can not be orphan").                                            *)
ProducedNotOrphan == pc = "idle" /\ produced # Nil => ~IsOrphan(produced)

(* A block of this node's factory is only ever processed as an extension   *)
(* of the main chain, whatever the chain manager connected or reorganized  *)
(* since the factory read the best block: the state that comes with it is  *)
(* the one of the best block (errBlockStale).                              *)
OwnBlockExtends == byBP => isMain

(* Without a crash every transaction is, between two requests, in the      *)
(* mempool or on the main chain (when no block is bad, and a running       *)
(* mempool takes what it is given).                                        *)
NoTxLost ==
    pc = "idle" /\ crashes = 0 => mempool \cup UNION {TxsOf[b] : b \in Anc[best]} = Txs

(* A reorganization is only committed when its branch root is at or above  *)
(* the LIB that the node has saved ("reorganization beyond LIB is not      *)
(* allowed").                                                              *)
ReorgAboveLib ==
    [][marker = Nil /\ marker' # Nil => No[marker'.start] >= savedLib]_vars

(* The chain service implements the ledger: writing the reorg marker is    *)
(* the point at which a reorganization takes effect; all that follows, a   *)
(* crash and the recovery included, changes nothing of the promise.        *)
CommittedHead == IF marker = Nil THEN Tip ELSE marker.top
L == INSTANCE Ledger WITH head <- CommittedHead
LedgerSpec == L!Spec

(* Every request is answered: a handler, a start or a recovery ends.       *)
RequestsEnd == [](pc # "idle" => <>(pc = "idle"))

-----------------------------------------------------------------------------
(* The inductive invariant behind MappingIsChain, NeverFatal and           *)
(* LedgerSpec (proved in ChainServiceProofs).                              *)

SwapPCs == {"delReceipts", "swapTx", "dropTx", "swapMap"}

(* The handler is between the choice of the branch root and the swap of    *)
(* the mapping.                                                            *)
Reorganizing ==
    \/ pc \in {"rollback", "forward", "mark"} \cup SwapPCs
    \/ pc \in {"exec", "post"} /\ ~isMain

StoredClosed == Genesis \in stored /\ ParentClosed(stored)

(* The best block in memory is the durable one, but for the moment between *)
(* SetLatest and CommitConnect.                                            *)
BestIsTip ==
    /\ pc \notin {"down", "commit"} => best = Tip
    /\ pc = "commit" => best = blk

(* What the chain processor knows of the block in hand.                    *)
ProcessorOK ==
    /\ pc \in {"exec", "post", "connect", "commit"} /\ isMain =>
         marker = Nil /\ blk # Genesis /\ Parent[blk] = Tip
    /\ pc \in {"connect", "commit"} => isMain
    /\ pc = "side" => ~isMain /\ Parent[blk] \in stored
    /\ pc = "resolve" => blk \in stored /\ (IF isMain THEN blk = Tip ELSE last \in stored)
    /\ pc = "gather" => ~isMain /\ last \in stored /\ No[best] < No[last]
    /\ pc \in {"down", "recover"} => ~isMain
    /\ Genesis \notin orphans
    /\ byBP => isMain

(* The two branches of a reorganization.                                   *)
Fork(start, old, new) ==
    /\ start \in Anc[new] /\ start \in Anc[old]
    /\ No[start] < No[old] /\ No[old] < No[new]
    /\ old \notin Anc[new]

ExecutedUpTo(b, start) == \A c \in Branch(b, start) : c \notin Bad /\ RootOf[c] \in states

(* What the reorganizer knows: the branches, and which blocks of the new   *)
(* one have been executed.                                                 *)
ReorganizerOK ==
    /\ Reorganizing => ~isMain /\ last \in stored /\ Fork(brStart, best, last)
    /\ pc = "forward" => blk \in Anc[last] /\ brStart \in Anc[blk] /\ ExecutedUpTo(blk, brStart)
    /\ pc = "exec" /\ ~isMain => blk \in NewBlocks /\ ExecutedUpTo(Parent[blk], brStart)
    /\ pc = "post" /\ ~isMain => blk \in NewBlocks /\ ExecutedUpTo(blk, brStart)
    /\ pc = "mark" => ExecutedUpTo(last, brStart)

(* What the marker says of the disk, and who may find it there.            *)
MarkerOK ==
    /\ pc \in SwapPCs \cup {"unmark"} => marker # Nil
    /\ marker # Nil =>
         /\ pc \in {"rollback", "forward", "exec", "mark", "unmark", "down", "recover"} \cup SwapPCs
         /\ Fork(marker.start, marker.best, marker.top)
         /\ marker.top \in stored /\ marker.best \in stored
         /\ ExecutedUpTo(marker.top, marker.start)
         /\ Tip \in {marker.best, marker.top}
         /\ pc = "unmark" => Tip = marker.top
         /\ pc \notin {"unmark", "down"} => Tip = marker.best
         /\ Reorganizing => marker.start = brStart /\ marker.top = last

(* Recovery starts before the consensus has loaded its saved LIB.          *)
StartOK ==
    /\ pc \in {"down", "recover"} \/ (pc = "rollback" /\ marker # Nil) => lib = 0
    /\ pc = "recover" => root = RootOf[best]

(* The conjunction, which every step preserves.                            *)
IndInv ==
    /\ TypeOK /\ StoredClosed /\ MappingIsChain /\ BestIsTip /\ ProcessorOK
    /\ ReorganizerOK /\ MarkerOK /\ StartOK /\ NeverFatal
=============================================================================
