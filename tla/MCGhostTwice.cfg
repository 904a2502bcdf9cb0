CONSTANTS
    N = 3
    Escrow = 2
    MaxU64 = 2147483647
    ExistentialDeposit = 1
    BlockReward = 5
    MinStake = 2
    MaxDowntimeBlocks = 1
    DoubleSignSlashPercentage = 100
    InvalidBlockSlashPercentage = 50
    DowntimeSlashPercentage = 50
    PqcRequired = FALSE
    Std = TRUE
    SlashInterval = 2
    AdjustInterval = 5
    RecentWindow = 2
    Seeded = TRUE
    InitialDifficulty = 2
    InitialFree <- MCInitialFree
    Amounts = {2}
    Transfers = {}
    Pows = {2}
    Difficulties = {2}
    Forgeries = {}
    Seeds = {0, 2}
    Keys = {}
    Reports = {}
    MaxBlocks = 4
SPECIFICATION HSpec
INVARIANTS RewardedOnce
CHECK_DEADLOCK FALSE
