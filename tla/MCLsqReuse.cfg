CONSTANTS
    N = 2
    ROB_NUM_ENTRIES = 4
    LOAD_QUEUE_SIZE = 2
    STORE_QUEUE_SIZE = 2
    Ops <- SlowOps
SPECIFICATION Spec
INVARIANTS StoresInProgramOrder
