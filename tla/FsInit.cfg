SPECIFICATION Spec
CONSTANTS
    p1 = p1  p2 = p2
    MaxMounts = 2
    Paths <- MCPaths
    Sizes = {1}
    Counts = {1, 3, 9}
    Partitions = {0}
    WordSize = 16
    Missing = Missing
CHECK_DEADLOCK FALSE
INVARIANTS TypeOK FailureTouchesNothing MountsItsEntry PartitionsDisjoint
