SPECIFICATION Spec
CONSTANTS
    Inputs <- MCInputs
    Formats <- MCFormats
    Octal = 9
    CharSize = 4
    ShortSize = 8
    IntSize = 16
    LongLongSize = 64
INVARIANTS TypeOK ValueRight FormatMatched
PROPERTIES RoundsEnd
