SPECIFICATION MCSpec
CONSTANTS
    WordSize = 512
    ImageEnd = 96
    ReservedSize = 136
    BlockHeader = 16
    ListHeader = 8
    Align = 8
    MinSize = 16
    Asked = {0, 20, 40, 508}
    Increments <- MCIncrements
    Streams = {f, g}
    Descriptors = {3, 4}
    Buffers = {b1, b2}
    MaxFileSize = 1
    BufferSize = 3
    MaxFds = 2
    Letters = {"x"}
    MaxLength = 5
    SchemaKeys = {"theme", "launcher"}
    FitValues = {"a", "b"}
    MaxSettingLines = 3
    TimerSize = 8
    Wide = 64
    Delays = {0, 3, 7}
    Days <- MCDays
    Seconds = {0, 11647, 86399}
    Shifts <- MCShifts
    Side = 15
    Corners <- MCCorners
    Spans <- MCSpans
    Radii <- MCRadii
    Candidates = {11, 17, 23, 25, 29, 49, 53, 65}
    SmallPrimes = {3, 5}
    E = 3
    MaxTries = 3
    Messages = {0, 1, 2, 17, 100, 186, 250, 399}
    Bits = 3
    Rounds = 2
    Keys <- MCKeys
    LineLength = 64
    MaxLines = 70
    Rooms = {0, 512, 1024, 4096}
    MaxLost = 1
    Texts <- MCTexts
    Modulus = 16
    Documents <- MCDocs
    EntityMax = 3
    Chunks = {1, 2, 5}
    Capacities = {1, 2, 3}
    Drawings <- MCDrawings
    View <- MCView
    Box <- MCBox
    MaxGroups = 2
    CurveSteps = 8
    Fonts <- MCFonts
    Characters <- MCCharacters
    Wrap = 4096
    GlyphScale = 11
    MaxGlyphDepth = 3
    MaxComponents = 2
    MaxPoints = 11
    MaxEdges = 60
    Pictures <- MCPictures
    MaxPixels = 500
    SurfaceWidth = 7
    SurfaceHeight = 5
    Inks <- MCInks
    Frames <- MCFrames
    Discs <- MCDiscs
    Artwork <- MCArtwork
    Textures <- MCTextures
    Typefaces <- MCTypefaces
    Labels <- MCLabels
    NewLine = " "
    MaxDrawn = 2
    Root = Root
    Nobody = Nobody
    Windows <- MCWindows
    Clicks <- MCClicks
    Does <- MCDoes
    CharAdvance = 2
    EmSize = 4
    Vectors = {v1, v2}
    Strings = {s1, s2}
    Functions = {f1, f2}
    HeapBlocks = {k1, k2, k3}
    Null = Null
    Unowned = Unowned
    Elements = {"x"}
    StringLiterals <- MCStrings
    SizeValues = 8
    MaxHeld = 5
    ElementSize = 1
    Reserves = {1, 6}
CHECK_DEADLOCK FALSE
INVARIANTS
    MallocIsSound
    StreamsAreSound
    SettingsAreSound
    TimeIsRight
    DrawingIsRight
    KeysAreSound
    ParsedAsAtOnce
    SvgIsRight
    GlyphsAreRight
    PictureIsRight
    ControlsAreRight
    ContainersAreSound
