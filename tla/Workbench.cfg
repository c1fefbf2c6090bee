CONSTANTS
    Pieces <- TextPieces
    MaxPieces <- TextLengths
    EventFormats <- Formats
    Frames <- RunFrames
    Captured <- RunLines
    MaxFrames = 4
    MaxCaptured = 2
    Declarations <- BlobTypes
    MaxTypes = 4
    WordBits = 8
    PointerSize = 8
    Commands <- TypedCommands
    Printouts <- PrintedOutputs
    Widths = {4, 100}
    ReadSizes = {1, 3}
    MaxCommands = 2
    Draft <- SlabDraft
    Corrections <- SlabCorrections
    Remarks <- SlabRemarks
    Kernels <- SlabTypes
    Corpora <- SlabCorpora
    TypeTags <- SlabTags
    MaxEdits = 2
    Entries <- KernelEntries
    Claims <- LessonClaims
    Sources <- KernelSources
    Declared <- Teaching
    Artefacts <- LessonArtefacts
    LedgerEntries <- LedgerParts
    MaxEntries = 2
    MaxClaims = 1
    Radius = 1
    Cells <- LessonCells
    Stated <- LessonStated
    MaxCells = 3
    Pin <- EmulatorPin
    Served <- FromServer
    Blueprints <- SiteStates
    SiteLessons <- TheLessons
    Surveys <- CorpusSurveys
    Functions <- ReaderFunctions
    SymbolRows <- ReaderSymbols
    Reports <- ReaderReports
    StatsRead <- ReaderStats
    Options <- GateOptions
    Repeats = {40}
    MaxEvidence = 3
SPECIFICATION Spec
INVARIANTS
    NothingMisplaced
    EveryLineAccounted
    LevelsAreAChain
    SameUpToNames
    WrittenIsRead
    HolesAreUncovered
    StepsAreWhatWasTyped
    GeneratedIsCurrent
    SupportedClaims
    PassedIsBuilt
    ReadersPass
PROPERTY DriftIsNeverTakenSilently
CHECK_DEADLOCK FALSE
