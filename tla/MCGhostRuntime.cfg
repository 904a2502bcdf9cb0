CONSTANTS
    Nodes = {n1, n2}
    ChainId = "local"
    Users <- MCUsers
    Requests <- MCRequests
    MaxU32 = 2
    ExistentialDeposit = 1
    Endowment = 4
    Fee = 1
    BlockHashCount = 5
    MaxExtrinsics = 2
    MaxItems = 6
SYMMETRY MCSymmetry
SPECIFICATION Spec
INVARIANTS AppliedOnce SomethingExplained FeesPaid EraIsServed SignedOnAncestor
CHECK_DEADLOCK FALSE
