\* A schema that has the name of a table it declares.
CONSTANTS
    Object <- MCObject
    Kind <- MCKind
    NameOf <- MCNameOf
    On <- MCOn
    Mentions <- MCMentions
    Needs <- MCNeeds
    InternalLike <- MCInternalLike
    Routine <- MCRoutine
    Part <- MCPart
    Base <- MCBase
    Slug <- MCSlug
    Folded <- MCFolded
    Scenarios <- MCScenarios
    MaxFaults = 1
SPECIFICATION Spec
PROPERTY NeverDropped
