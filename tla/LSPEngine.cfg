SPECIFICATION EngineSpec
CONSTANTS
    Char = {"a"}
    Names = {"A", "B", "EOF", "L", "P", "S"}
    NoName = ""
    NameOrder <- Alphabetical
    Paths = {"app", "main", "lib"}
    Builtins = "builtins"
    BadPath = "bad"
    NoFile = NoFile
    Contents <- AllContents
    Disk <- OnDisk
    Texts <- FileTexts
    NoOverlay = NoOverlay
    NotCached = NotCached
    Diagnostics <- DiagnosticsOf
    FilesRead <- ReadBy
INVARIANTS
    EngineTypeOK
    CacheIsTrue
    OpenOrderDoesNotMatter
    ImportsAreClosed
PROPERTIES
    Implements
CHECK_DEADLOCK FALSE
