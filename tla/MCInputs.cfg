\* Settings, directories, catalogs and routines, in one respect after the other.
CONSTANTS
    Object <- MCObject
    Kind <- MCKind
    NameOf <- MCNameOf
    On <- MCOn
    Mentions <- MCMentions
    Needs <- MCNeeds
    InternalLike <- MCInternalLike
    Routine <- MCRoutine
    Part <- MCPart
    Base <- MCBase
    Slug <- MCSlug
    Folded <- MCFolded
    Scenarios <- MCScenarios
    MaxFaults = 1
SPECIFICATION Spec
INVARIANTS SafetyIsHonoured NeverTwice
PROPERTIES SkippedForTwinOnly OlderFirst UndeclaredSpared DeclaredReached DumpIsWhole PathsKeepTheirRoutine
