CONSTANTS
    N = 2
    ROB_NUM_ENTRIES = 3
    LOAD_QUEUE_SIZE = 2
    STORE_QUEUE_SIZE = 3
    Ops <- WrongPathOps
SPECIFICATION Spec
INVARIANTS StoresReachMemory
