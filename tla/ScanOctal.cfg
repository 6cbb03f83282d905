SPECIFICATION Spec
CONSTANTS
    Inputs <- OctalInputs
    Formats <- OctalFormats
    Octal = 9
    CharSize = 4
    ShortSize = 8
    IntSize = 16
    LongLongSize = 64
INVARIANT OctalRight
