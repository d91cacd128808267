SPECIFICATION PathOrDeckSpec
CONSTANTS
    Lines = {"dash", "spaced", "plus", "meta", "more", "comment", "blank", "text"}
    MaxLines = 4
    MaxProbe = 6
    ProbeRead = 2
    RenderRead = 3
    DeckLines <- MCDeckLines
    ThemeExplicit = FALSE
    MaxDeckLines = 5
INVARIANTS
    SourceReplayed
    FrontMatterAnyChunking
    TitleAnyChunking
    DeckLinesKept
    SlidesEndAtBreaks
CHECK_DEADLOCK FALSE
