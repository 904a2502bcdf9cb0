CONSTANTS
    N = 3
    Escrow = 2
    MaxU64 = 2147483647
    ExistentialDeposit = 2
    BlockReward = 3
    MinStake = 2
    MaxDowntimeBlocks = 1
    DoubleSignSlashPercentage = 100
    InvalidBlockSlashPercentage = 50
    DowntimeSlashPercentage = 50
    PqcRequired = FALSE
    Std = TRUE
    SlashInterval = 2
    AdjustInterval = 2
    RecentWindow = 2
    Seeded = TRUE
    InitialDifficulty = 1
    InitialFree <- MCInitialFree
    Amounts = {1, 2, 3}
    Transfers = {}
    Pows = {1}
    Difficulties = {1}
    Forgeries = {}
    Seeds = {0, 2}
    Keys = {}
    Reports = {"Downtime"}
    MaxBlocks = 2
SPECIFICATION Spec
INVARIANTS EscrowHoldsStakes
CHECK_DEADLOCK FALSE
