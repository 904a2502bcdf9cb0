CONSTANTS
    N = 3
    Escrow = 2
    MaxU64 = 2147483647
    ExistentialDeposit = 2
    BlockReward = 3
    MinStake = 2
    MaxDowntimeBlocks = 1
    DoubleSignSlashPercentage = 100
    InvalidBlockSlashPercentage = 50
    DowntimeSlashPercentage = 10
    PqcRequired = FALSE
    Std = TRUE
    SlashInterval = 2
    AdjustInterval = 2
    RecentWindow = 2
    Seeded = FALSE
    InitialDifficulty = 0
    InitialFree <- MCInitialFree
    Amounts = {1, 2, 3}
    Transfers = {1, 2}
    Pows = {0}
    Difficulties = {0, 1}
    Forgeries = {}
    Seeds = {0, 2}
    Keys = {}
    Reports = {"DoubleSigning", "InvalidBlock"}
    MaxBlocks = 3
SPECIFICATION Spec
INVARIANTS UnseededNeverMines
PROPERTIES SurplusShrinksByDustOnly
CHECK_DEADLOCK FALSE
