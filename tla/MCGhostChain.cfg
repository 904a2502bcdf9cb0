CONSTANTS
    N = 3
    Escrow = 2
    MaxU64 = 2147483647
    ExistentialDeposit = 1
    BlockReward = 0
    MinStake = 2
    MaxDowntimeBlocks = 1
    DoubleSignSlashPercentage = 100
    InvalidBlockSlashPercentage = 50
    DowntimeSlashPercentage = 50
    PqcRequired = TRUE
    Std = TRUE
    SlashInterval = 3
    AdjustInterval = 3
    RecentWindow = 2
    Seeded = TRUE
    InitialDifficulty = 8
    InitialFree <- MCInitialFree
    Amounts = {2}
    Transfers = {}
    Pows = {8, 9}
    Difficulties = {8}
    Forgeries = {}
    Seeds = {0, 2}
    Keys = {k1, k2}
    Reports = {"Other"}
    MaxBlocks = 3
SPECIFICATION HSpec
INVARIANTS ChainContiguous HeightBehindClock
PROPERTIES ValidationIsBacked ImplementsRound SilentAreSlashed DifficultyRatchet
CHECK_DEADLOCK FALSE
