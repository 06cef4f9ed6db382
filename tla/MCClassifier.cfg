SPECIFICATION MCSpec
CONSTANTS
    a = a
    b = b
    unknown = unknown
    x = x
    y = y
    blank = blank
    Keys <- MCKeys
    Unknown = unknown
    KeyOrder <- MCKeyOrder
    Keywords <- MCKeywords
    Blank = blank
    Rows <- MCRows
    Descriptions <- MCDescriptions
    Levels <- MCLevels
    Events <- MCEvents
    EngineDescriptions <- MCEngineDescriptions
    Threats <- MCThreats
INVARIANTS
    ClassifyIsScan
    LevelLiftsOneBand
    SevereIsBlocked
    EngineNamesTheType
    EngineIsMilder
PROPERTY EditIsLocal
