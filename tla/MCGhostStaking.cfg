CONSTANTS
    N = 3
    Escrow = 2
    MaxU64 = 4
    ExistentialDeposit = 1
    BlockReward = 3
    MinStake = 1
    MaxDowntimeBlocks = 1
    DoubleSignSlashPercentage = 100
    InvalidBlockSlashPercentage = 50
    DowntimeSlashPercentage = 50
    PqcRequired = FALSE
    Std = TRUE
    SlashInterval = 2
    AdjustInterval = 2
    RecentWindow = 1
    Seeded = TRUE
    InitialDifficulty = 1
    InitialFree <- MCInitialFree
    Amounts = {1, 2}
    Transfers = {1}
    Pows = {1}
    Difficulties = {1}
    Forgeries = {}
    Seeds = {0, 2}
    Keys = {}
    Reports = {"Downtime"}
    MaxBlocks = 2
SPECIFICATION Spec
INVARIANTS TypeOK EscrowSolvent WithdrawalPossible IssuanceCapped DrawIsSound
CHECK_DEADLOCK FALSE
