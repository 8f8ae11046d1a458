CONSTANTS
    N = 2
    ROB_NUM_ENTRIES = 3
    Kinds <- MCKinds
    NoStore = NoStore
SPECIFICATION FairSpec
INVARIANTS TypeOK Occupancy
PROPERTIES ImplementsQueue ReleasedStoresStay EveryInstructionLeaves
CHECK_DEADLOCK FALSE
