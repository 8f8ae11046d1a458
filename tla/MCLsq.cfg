CONSTANTS
    N = 2
    ROB_NUM_ENTRIES = 3
    LOAD_QUEUE_SIZE = 3
    STORE_QUEUE_SIZE = 3
    Ops <- OverlapOps
SPECIFICATION Spec
INVARIANTS TypeOK LoadsReadProgramOrder StoresInProgramOrder StoresReachMemory StoreQueueInOrder
