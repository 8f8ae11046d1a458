CONSTANTS
    x0 = x0  x1 = x1  x2 = x2
    p0 = p0  p1 = p1  p2 = p2  p3 = p3  p4 = p4  p5 = p5
    N = 2
    ROB_NUM_ENTRIES = 2
    ARF = {x0, x1, x2}
    ZERO_REG = x0
    PRF = {p0, p1, p2, p3, p4, p5}
    PRF_0 = p0
    NoReg = NoReg
    Slots <- TwoRegisterSlots
    X0Loads = {FALSE}
SPECIFICATION Spec
SYMMETRY MCSymmetry
INVARIANTS TypeOK Conservation RenameNeverStarves ReadyExact DataFlow RetireLoopAgrees
