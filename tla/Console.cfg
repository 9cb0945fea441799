\* The calls are bounded, and one that overran the buffer is the last.
SPECIFICATION Spec
CONSTANTS
    Rows = 3
    Columns = 3
    TabWidth = 2
    BufSize = 8
    Memory = 16
    Word = 64
    Chars <- SomeChars
    Formats <- SomeFormats
    MaxCalls = 2
INVARIANTS ConsoleInv ScreenShowsEnd BufferHoldsText OverrunsExactly
CHECK_DEADLOCK FALSE
