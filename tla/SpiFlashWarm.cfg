SPECIFICATION FairSpec
CONSTANTS
    b = b
    PageBytes = 2
    SectorBytes = 2
    BlockBytes = 2
    FlashBytes = 4
    CacheBytes = 1
    Bits <- MCBits
    EraseAddrs = {0}
    Resets = {"warm"}
    MaxResets = 2
INVARIANTS CommandsAccepted ReadsAnswered
PROPERTIES CallsReturnUnlessReset
