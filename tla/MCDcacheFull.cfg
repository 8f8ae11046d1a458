CONSTANTS
    a = a  b = b  t1 = t1  t2 = t2  l0 = l0
    LSQ_NUM_LOADS = 1
    MSHR_NUM_ENTRIES = 3
    Blocks = {a, b}
    NoBlock = NoBlock
    Lines = {l0}
    Line <- MCLine
    Values = {0, 1}
    Value_0 = 0
    Stores <- WordStores
    Tags = {t1, t2}
    NoTag = NoTag
SPECIFICATION Spec
SYMMETRY MCSymmetry
INVARIANTS AnswersTaken
