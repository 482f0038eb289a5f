SPECIFICATION FairSpec
CONSTANTS
    Blocks <- LargeTree
    Genesis = "g"
    Parent <- LargeParent
    No <- LargeNo
    Txs = {"t1", "t2", "t3", "t4"}
    TxsOf <- LargeTxsOf
    RootOf <- LargeRootOf
    Bad = {"a4"}
    BadSign = {"c3"}
    OrphanCap = 1
    ErrCap = 1
    MaxLib = 1
    MaxCrash = 1
    Nil = Nil
INVARIANTS TypeOK MappingIsChain TxIndexIsMainChain ReceiptsOfMainChain NeverFatal MinedLeaveMempool ProducedNotOrphan OwnBlockExtends
PROPERTIES LedgerSpec RequestsEnd
