SPECIFICATION Spec
CONSTANTS
    Blocks <- SmallTree
    Genesis = "g"
    Parent <- SmallParent
    No <- SmallNo
    Txs = {"t1", "t2", "t3", "t4"}
    TxsOf <- SmallTxsOf
    RootOf <- SmallRootOf
    Bad = {"b3"}
    BadSign = {}
    OrphanCap = 1
    ErrCap = 1
    MaxLib = 0
    MaxCrash = 0
    Nil = Nil
INVARIANTS StateAtBest
