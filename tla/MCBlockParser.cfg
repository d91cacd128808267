SPECIFICATION Spec
CHECK_DEADLOCK FALSE
CONSTANTS
    Lines <- AllLines
    MaxLines = 3
    Letters <- Alphabet
    PrefixCap = 8
    GapCap = 2
    WholeLines = FALSE
INVARIANTS TextKept LinesKeptApart ItemsEndOnce
