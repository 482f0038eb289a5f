SPECIFICATION FairSpec
CONSTANTS
    Blocks <- SmallTree
    Genesis = "g"
    Parent <- SmallParent
    No <- SmallNo
    Txs = {"t1", "t2", "t3", "t4"}
    TxsOf <- SmallTxsOf
    RootOf <- SmallRootOf
    Bad = {}
    BadSign = {}
    OrphanCap = 1
    ErrCap = 1
    MaxLib = 2
    MaxCrash = 1
    Nil = Nil
PROPERTIES ReorgAboveLib
