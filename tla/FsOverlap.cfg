SPECIFICATION Spec
CONSTANTS
    p1 = p1  p2 = p2
    MaxMounts = 2
    Paths <- MCPaths
    Sizes = {1}
    Counts = {1}
    Partitions = {0, 1}
    WordSize = 16
    Missing = Missing
CHECK_DEADLOCK FALSE
INVARIANT MountsDisjoint
