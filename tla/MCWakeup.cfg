CONSTANTS
    x0 = x0  x1 = x1
    p0 = p0  p1 = p1  p2 = p2  p3 = p3  p4 = p4  p5 = p5
    adder = adder  multiplier = multiplier
    N = 2
    ROB_NUM_ENTRIES = 3
    ARF = {x0, x1}
    ZERO_REG = x0
    PRF = {p0, p1, p2, p3, p4, p5}
    PRF_0 = p0
    NoReg = NoReg
    Slots <- MCSlots
    RS_NUM_ENTRIES = 3
    Units = {adder, multiplier}
    FuncUnit <- MCFuncUnit
    MULT_STAGES = 2
SPECIFICATION Spec
SYMMETRY MCSymmetry
INVARIANTS TypeOK Placement NoLostWakeup
PROPERTY ExecutesProgram
