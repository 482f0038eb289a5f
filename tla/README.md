# A TLA+ model of the Aergo node

The Aergo node is a Go program of some twenty components, most of them actors that
exchange messages through a hub (`pkg/component`). This directory models the part on
which the others stand, the chain service: how a block is added, how the node moves to
a longer branch, and how it finds its way back after a crash. It is checked with TLC on
small block trees and proved with TLAPS for every tree.

## The system's parts

| part | source | what it does | here |
|---|---|---|---|
| chain manager | `chain/chainhandle.go`, `chainservice.go` | one actor; adds blocks one at a time | `ChainService` |
| reorganizer | `chain/reorg.go` | replaces the main chain by a longer branch | `ChainService` |
| recovery | `chain/recover.go` | repairs the databases at a start | `ChainService` |
| chain database | `chain/chaindb.go` | blocks, number-to-hash mapping, transaction index, receipts, reorg marker | `ChainService` (disk variables) |
| orphan pool | `chain/orphanpool.go` | blocks whose predecessor is missing | `ChainService` (a bounded set) |
| DPoS | `consensus/impl/dpos` | slots, block factory, last irreversible block (LIB) | its effect on the chain manager |
| simple BP | `consensus/impl/sbp`, `consensus/chain` | block production on a timer | `GenerateBlock`, `AddProduced` |
| raft | `consensus/impl/raftv2`, `chain/chaindbForRaft.go` | block production by a raft leader, write-ahead log | not yet |
| mempool | `mempool` | per-account lists of transactions ordered by nonce | the set of its transactions |
| syncer | `syncer` | finds a common ancestor with a peer, fetches hashes, then blocks | not yet |
| p2p | `p2p` | peers, handshakes, notices, chunked responses | not yet |
| state database | `state`, `pkg/trie` | account states behind a root hash | committed roots, current root |
| contracts | `contract` | LuaJIT virtual machine, staking, names | whether a block executes |
| accounts, rpc, polaris, commands | `account`, `rpc`, `polaris`, `cmd` | key store, client API, map server | no |

A block reaches the chain manager from three sides: a notice or an answer of a peer
(p2p), the syncer, or the node's own block factory. The manager asks the consensus
three things: `VerifyTimestamp` and `VerifySign` before it looks at a block,
`NeedReorganization` before it abandons the main chain, and it tells it about every
block by `Update` and lets it `Save` its status in the transaction that connects the
block. It tells the mempool which transactions a block removes (`MemPoolDel`) and which
a reorganization gives back (`MemPoolPut`).

## Modules

* `BlockTree` - the blocks a node can meet: a tree of predecessor hashes, with numbers.
  `Anc[b]` is what a loop along the hashes visits, defined as the least parent-closed
  set, so that TLAPS needs no induction over data.
* `Ledger` - what the chain service promises: one durable best block that moves, in one
  indivisible step, to a child or to the top of a strictly longer branch.
* `ChainService` - the chain manager, the reorganizer, the database and the recovery.
* `MCChainService` - two block trees for TLC.
* `BlockTreeProofs` - lemmas about ancestors and branches.
* `ChainConnectProofs`, `ChainExecuteProofs`, `ChainReorgProofs`, `ChainSwapProofs`,
  `ChainRecoveryProofs` - one lemma for each action: receiving a block, executing and
  connecting it, a reorganization up to the swap, the commits of the swap, and crash,
  start and recovery.
* `ChainServiceProofs` - the theorems (below).

### How ChainService follows the code

The chain manager is one actor: a handler runs to its end before the next starts. What
can intervene is the death of the process, so a handler is split at its durable writes
and nowhere else, and `pc` names the next write. The variables are in three groups.

*Disk*: `stored` (block by hash), `hashAt` (hash by number), `latest`, `txMap`,
`receipts`, `states` (state markers), `marker` (reorg marker) and `savedLib` (the
consensus status). *Memory*, lost in a crash: `best` (`cdb.bestBlock`), `root` (the
state database's root), `csBest` and `lib` (dpos `Status`), `orphans`, `errBlocks`,
`mempool`, `produced` (a block on its way from the block factory). *The running
handler*: `first`, `blk`, `last`, `isMain`, `byBP`, `brStart`.

| action | code |
|---|---|
| `AddBlock`, `IgnoreBlock`, `AddBadSign`, `AddOrphan` | the exits of `addBlock` / `addBlockInternal` before and at the chain processor |
| `GenerateBlock`, `AddProduced` | `GenerateBlock`, `ConnectBlock`, and the stale-block check |
| `AddSideBlock` | `chainProcessor.addBlock` |
| `ExecuteBlock`, `FinishExecute` | `executeBlock` up to the state's commit; receipts, `MemPoolDel`, `Update` |
| `SetLatest`, `CommitConnect` | `connectToChain`: memory first, then the transaction |
| `ResolveOrphan` | `resolveOrphan`, and the decision to reorganize |
| `Gather`, `Rollback`, `RollForward`, `ExecuteBlockReco` | the same steps of `reorg` |
| `WriteMarker` ... `DeleteMarker` | each commit of `swapChain` |
| `Crash`, `Boot`, `Recover` | the process dies; `Core.init`; `ChainService.Recover` |

What is abstracted:

* Executing a block is whether it starts from the right root and whether `IsBlockValid`,
  the execution and the comparison with the header succeed. `Bad` holds the blocks for
  which they do not; the verdict is fixed for each block, also when a recovery asks
  `IsBlockValid` again. A state is its root.
* The LIB is a number that an `Update` with a child of the last block seen may move, up
  or down, to at most that child's number: `updateLIB` does not compare it with the old
  one. `MaxLib = 0` is a consensus without LIB.
* Which entry a full cache evicts is left open.
* A block's number is its predecessor's plus one (`BlockTreeAssumption`). The checks of
  the number in `isMainChain`, `resolveOrphan`, `gather`, `initRecovery` and
  `swapChainMapping` and their error exits are in the model; under this assumption the
  wrong-number exits are not taken. A block with another number is kept beside the chain
  by these checks, with one exception: `isMainChain` does not compare the number of a
  block numbered 0, so where the consensus does not refuse such a block, as DPoS does in
  `VerifyTimestamp`, it counts as an extension. These blocks are left out.
* The mempool is a set. While the node runs, a `MemPoolPut` is delivered and accepted
  (refusals because of nonce or balance are left out); in a recovery, when the mempool
  may not have started, any of these messages may be lost.
* A transaction or a bulk of the database is one step. The transaction index is written
  by one commit for each new block, then one for the removed transactions.

What cannot go on ends in `pc = "fatal"`: a best block or an old branch that cannot be
read at a start (`Boot`), an invalid marker, a missing branch block, a refusal by the
consensus or a missing state under recovery (`Recover`, `Rollback`, `ExecuteBlockReco`),
and a swap to a branch that is not longer (`SwapChainMapping`).

Not modelled: `ResetBest` and the forced reset at a start (operated by hand), the raft
write-ahead log, queries by the chain worker, events.

## Runs

All runs are of `MCChainService`.

| run | instance | shows |
|---|---|---|
| `chain_crash` | large tree, one bad block, one with a bad signature, LIB up to 1, one crash anywhere, fair | `TypeOK`, `MappingIsChain`, `TxIndexIsMainChain`, `ReceiptsOfMainChain`, `NeverFatal`, `MinedLeaveMempool`, `ProducedNotOrphan`, `OwnBlockExtends`, refinement of `Ledger` (`LedgerSpec`), every request ends (`RequestsEnd`) |
| `chain_crash_twice` | small tree, LIB up to 2, two crashes | `IndInv`: recovery may itself be interrupted |
| `chain_lib` | large tree, LIB up to 2, no crash | `StateAtBest`, `ReorgAboveLib` |
| `chain_longest` | large tree, no LIB, two orphans, no crash | `BestIsHighest`, `NoTxLost` |
| `lib_lost_at_restart` | small tree, LIB up to 2, one crash | `ReorgAboveLib` is violated (finding 1) |
| `state_after_failed_reorg` | small tree, one bad block | `StateAtBest` is violated (finding 2) |

Three of these are about what other components see. `MinedLeaveMempool`: between
requests no transaction of the main chain waits in the mempool, through reorganizations
there and back and through a recovery. `ProducedNotOrphan`: the block factory may read a
best block that is not yet committed, but its block arrives after the commit.
`OwnBlockExtends`: a produced block is processed only while it still extends the main
chain, which is what the state that comes with it requires.

`BestIsHighest` speaks of stored blocks: an orphan that the full pool dropped counts
again when it is sent again. `NoTxLost` holds without a crash and without bad blocks.

**Bounds.** The small tree has one reorganization whose branch root is not the genesis
block. The large tree has ten blocks on three branches: it has reorganizations from the
genesis block and from above it, two in a row, and one back to the chain left before,
which needs receipts and index entries that were deleted. Transactions are on one
branch or on two; three blocks are empty and share their predecessor's state root. An orphan pool of one or two entries overflows.
Two crashes are enough for a crash at every write of a recovery that follows a crash at every write of a
reorganization; that more crashes change nothing is part of what is proved.

**Fairness.** `FairSpec` has weak fairness of `Step` alone: a handler that has begun
continues, and a node that died is started again. Nothing is assumed about blocks
arriving. The actor's goroutine justifies the first, an operator or supervisor the
second.

**Deadlock** is checked in every run: a node that has received all blocks can still
receive one again (`IgnoreBlock`).

### Findings

1. *LIB lost at a restart.* `Status.load` is called by `Update` only, so from a start
   until the first block is executed `NeedReorganization` and `VerifyTimestamp` see LIB
   0. In that window the node commits a reorganization from below the LIB it has saved,
   which the code says "is not allowed" (`status.go:178`).
2. *State after a failed reorganization.* When a block of the branch fails, `reorg`
   returns without undoing the rollback: the state root and the consensus' last block
   are on the branch, the best block is not. The next block of the main chain is then
   executed on the wrong root and rejected; `recoverNormal` (`recover.go:92`) asserts
   the agreement that is lost.

## Proofs

For every `Blocks` and every value of the other constants that satisfies
`BlockTreeAssumption` (a tree with consecutive numbers) and `ChainAssumption` (types of
the constants), `ChainServiceProofs` proves of `Spec`:

* `Invariance`: `[]IndInv`; `TypeCorrect`: `[]TypeOK`; `MappingCorrect`:
  `[]MappingIsChain`; `RecoverySucceeds`: `[]NeverFatal`; `OwnBlocksExtend`:
  `[]OwnBlockExtends`;
* `Refinement`: `Spec => LedgerSpec`, with `CommittedHead` as the refinement mapping: the
  branch's top from the moment its marker is written, else the durable best block.

The set of blocks may be infinite; number of crashes and cache sizes are arbitrary.

**The inductive invariant.** None of the properties is inductive alone. `IndInv` adds

* `StoredClosed`: a stored block's predecessor is stored - so that a branch can be walked;
* `BestIsTip`: memory and disk agree on the best block, but for the moment between
  `SetLatest` and `CommitConnect`;
* `ProcessorOK`: a block that is executed as part of the main chain is a child of the tip -
  the decision taken in `newChainProcessor` stays true for the orphans it brings along;
  a block of the node's own factory is always such a block;
* `ReorganizerOK`: `brStart`, `best` and `last` form a `Fork`, and the new branch is
  executed up to the block in hand - so the states exist that a recovery will look up,
  and none of its blocks is bad;
* `MarkerOK`: a marker on disk describes a fork between stored blocks whose states all
  exist, the tip is one of its two ends, and only the steps of a swap or of a recovery
  can meet it - this is why `Recover` never fails;
* `StartOK`: recovery runs before the LIB is loaded, which is why the consensus never
  refuses a reorganization under recovery.

(The last point is the other side of finding 1. The LIB may move above the branch root
while the branch is executed and is saved with the swapped mapping; if it were loaded at
the start, a recovery after a crash at this point would be refused and fatal. Loading it
earlier therefore has to exempt the recovery.)

The argument: `BlockTreeProofs` has the facts about ancestors (linear, one for each
number, down to the genesis block). `MappingFrame` says that a step that changes neither
mapping nor tip keeps `MappingIsChain`; `RemapIsChain` says that a swap of the mapping,
in either direction, yields the chain of the other end of the fork. One lemma for each
action combines them, and `StepRefines` maps each step to a step of `Ledger` or a
stutter.

**Only model-checked**: liveness (`RequestsEnd`), which is outside the prover's reach,
and `TxIndexIsMainChain`, `ReceiptsOfMainChain`, `MinedLeaveMempool`, `ProducedNotOrphan`,
`StateAtBest`, `BestIsHighest`, `NoTxLost`, `ReorgAboveLib`, whose inductive invariants are not yet
written.

## Plan

In this order; each item is a module with its runs, and a proof module where named.

1. `DposLib`: confirmations, proposed LIBs, `calcLIB`, rollback and reload, over chains of
   blocks by several producers; questions: does the LIB name a main chain block, does it
   rise, do two nodes agree. Then `ChainService` with this LIB in place of the number.
2. `TxList` and `Mempool`: contiguous ready prefix, cache and lists agree, orphan count,
   under puts, block arrivals and reorganizations; `TxList`'s invariant proved.
3. `Syncer`: actor, finder, hash fetcher, block fetcher and processor as processes with
   channels; no deadlock, a session ends, blocks are connected in order; the finder's
   binary search as an operator against its definition.
4. `PeerManager` (two nodes, colliding connections) and `RemotePeer` (stop and run);
   `BlocksChunkReceiver` composed with `Syncer`'s block fetcher.
5. `RaftBlockFactory`: propose, commit, connect, snapshot progress, leader change; then
   membership.
6. `OrphanPool`, `StateBuffer`: small sequential structures, proved.
7. `ChainService`: inductive invariants for the transaction index, the receipts and
   `StateAtBest`, and their proofs.
