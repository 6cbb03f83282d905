SPECIFICATION Spec
CONSTANTS
    b = b
    PageBytes = 2
    SectorBytes = 4
    BlockBytes = 4
    FlashBytes = 8
    CacheBytes = 1
    Bits <- MCBits
    EraseAddrs <- MCEraseAddrs
    Resets = {"power"}
    MaxResets = 1
INVARIANT TypeOK
PROPERTIES ImplementsNorStore
