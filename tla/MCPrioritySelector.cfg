CONSTANTS
    REQS = 4
    WIDTH = 6
SPECIFICATION Spec
INVARIANT GrantContract
PROPERTY NobodyStarves
