\* u_to_nstr of a number as wide as its buffer.
SPECIFICATION Spec
CONSTANTS
    Rows = 3
    Columns = 3
    TabWidth = 2
    BufSize = 8
    Memory = 16
    Word = 64
    Chars <- SomeChars
    Formats <- SomeFormats
    MaxCalls = 1
INVARIANTS LongNumberDropped
CHECK_DEADLOCK FALSE
