SPECIFICATION Spec
CONSTANTS
    Nodes = {"body", "main", "title", "panel", "card", "act", "dialog", "article", "header", "send", "card2", "act2", "notice"}
    NoNode = NoNode
    Panels = {1, 2}
    RowHeights = {1, 3}
    MaxRows = 2
    Window = 2
    MaxRequests = 2
    MaxLogLines = 3
    MaxCopies = 3
    MinHeight = 3
    Margin = 2
    Windows = {4, 6, 9}
    Stored <- MCStored
    Pointer = {0, 2, 5}
    DefaultHeights = {3, 6}
    MaxBoxes = 4
    MaxLoads = 2
    MaxCells = 3
INVARIANTS
    TypeOK
    NoticeTrue
    LogHeightKept
    JobFormKept
PROPERTIES
    NoticeKept
    KeptInPlace
    LogPanelKept
CHECK_DEADLOCK FALSE
