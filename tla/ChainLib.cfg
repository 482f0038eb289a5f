SPECIFICATION Spec
CONSTANTS
    Blocks <- LargeTree
    Genesis = "g"
    Parent <- LargeParent
    No <- LargeNo
    Txs = {"t1", "t2", "t3", "t4"}
    TxsOf <- LargeTxsOf
    RootOf <- LargeRootOf
    Bad = {}
    BadSign = {}
    OrphanCap = 1
    ErrCap = 1
    MaxLib = 2
    MaxCrash = 0
    Nil = Nil
INVARIANTS StateAtBest
PROPERTIES ReorgAboveLib
