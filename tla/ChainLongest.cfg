SPECIFICATION Spec
CONSTANTS
    Blocks <- LargeTree
    Genesis = "g"
    Parent <- LargeParent
    No <- LargeNo
    Txs = {"t1", "t2", "t3", "t4"}
    TxsOf <- LargeTxsOf
    RootOf <- LargeRootOf
    Bad = {}
    BadSign = {}
    OrphanCap = 2
    ErrCap = 1
    MaxLib = 0
    MaxCrash = 0
    Nil = Nil
INVARIANTS BestIsHighest NoTxLost
