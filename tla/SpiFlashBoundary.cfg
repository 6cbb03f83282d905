SPECIFICATION Spec
CONSTANTS
    b = b
    PageBytes = 2
    SectorBytes = 2
    BlockBytes = 2
    FlashBytes = 4
    CacheBytes = 1
    Bits <- MCBits
    EraseAddrs <- BoundaryAddrs
    Resets = {"power"}
    MaxResets = 1
INVARIANT EraseHitsItsAddress
