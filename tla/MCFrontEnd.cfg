CONSTANTS
    N = 2
    NUM_PCS = 4
    Targets <- MCTargets
    NoPC = NoPC
    BTB_NUM_LINES = 1
    Commits <- MCCommits
    INSTR_BUFFER_LEN = 6
    Blocks = {0, 1}
    Block <- MCBlock
    Lines = {0}
    Line <- MCLine
    Tags = {1, 2}
    NoTag = NoTag
    NoData = NoData
    DataBlock = DataBlock
SPECIFICATION Spec
INVARIANTS TypeOK FollowsPath Occupancy AnswersAwaited DecodeFollowsPath
PROPERTIES ImplementsQueue ImplementsFetch DecodeNotStarved
