SPECIFICATION Spec
CONSTANTS
    Char <- Letters
    Keyword <- Keywords
    MaxLen = 3
    MaxHistory = 2
    MaxRow = 2
INVARIANTS
    NoPanic
    TerminalShowsLine
PROPERTIES
    LineBufferSpec
