SPECIFICATION Spec
CONSTANTS
    CyclesPerTick = 4
    TicksPerSecond = 2
    Missed = 3
    ClockRatio = 3
    LoadSize = 64
    WordSize = 256
    Requests <- ShortAndLongRequests
    Latency = 6
    MaxTicked = 2
INVARIANTS TypeOK ClockKept ClockNotBehind WakesByDeadline LockBalanced TimeReported
