CONSTANTS
    Threads = 2
    MaxU64 = 3
    target_difficulty = 4
    Headers <- MCHeaders
SPECIFICATION Spec
INVARIANTS TypeOK ReturnsSolution NoneMeansStopped
PROPERTIES SolvableEnds StopTakesEffect
