SPECIFICATION MCSpec
CONSTANTS
    Entries = 6
    PerSector = 1
    FatLines = 4
    ClusterLines = 1
    Tokens = {"text"}
    Files = {3, 4}
    MaxChain = 2
    MaxOperations = 5
    Tries = 3
    SectorSize = 2
    MaxLba = 2
    MaxCount = 3
    HubPorts = 3
    Kinds = {"hub", "mouse", "keyboard"}
    Keys = {"a", "F1"}
    Silent = {"F1"}
    Cased = {"a"}
    Slots = 2
    StdinSize = 3
    MaxReports = 3
    MaxSerial = 2
    p1 = p1
    p2 = p2
    Procs = {p1, p2}
    Width = 3
    Top = 1
    CursorSize = 2
    Colors = {"clear", "blue"}
    MaxDraws = 2
    PanelWidth = 4
    PanelHeight = 4
    ByteValues = 3
    PanelColors <- MCPanelColors
    Boxes <- MCBoxes
    Spots <- MCSpots
    MaxDrawings = 3
CHECK_DEADLOCK FALSE
INVARIANTS
    CacheIsKept
    CardIsServed
    BusIsKnown
    KeysArrive
    ShowsWhatWasDrawn
    PanelShows
