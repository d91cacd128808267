SPECIFICATION Spec
CONSTANTS
    Fragments <- MCFragments
    Geometries <- MCGeometries
    Levels <- MCLevels
    Probe = 4
    MaxEvents = 3
    MaxResizes = 1
INVARIANTS
    EachGlyphOnce
    WordsKeepApart
    OnlyLoneWordsOverflow
CHECK_DEADLOCK FALSE
