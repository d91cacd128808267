SPECIFICATION Spec
CONSTANTS
    Lines <- MCLines
    Charts <- MCCharts
    Safe <- MCSafe
    MaxBlocks = 3
    Styles = {"reset", "bold", "code"}
    Plain = "reset"
    CodeStyle = "code"
    Links = {"url", "script"}
    NoLink = "unlink"
INVARIANTS
    TextInOrder
    DressedAsWritten
    TagsMatch
CHECK_DEADLOCK FALSE
