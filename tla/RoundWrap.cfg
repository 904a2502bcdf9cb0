CONSTANTS
    N = 3
    MaxU64 = 4
    Amounts = {1, 2}
    SlashPercentages = {50, 100}
    PqcRequired = TRUE
    Std = TRUE
    Willing = {2, 3}
    Seeds = {0, 1, 2, 3, 4, 5}
    MaxChanges = 3
SPECIFICATION Spec
INVARIANT EveryStakeCanWin
