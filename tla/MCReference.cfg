\* A parent and a child table, declared in every small way, beside applications.
CONSTANTS
    P = P
    C = C
    Table = {P, C}
    Key = {1, 2}
    Catalogs <- MCCatalogs
    UniqueVal = {P}
    Serial = {P}
    Releases <- MCReleases
    Contents <- MCContents
    MaxWrites = 2
    MaxFaults = 1
SPECIFICATION LiveSpec
PROPERTIES MatchesOnApply WritesWhatItReports DeletesOnlyPruned LeavesNoTrace RetreatsOnlyInRace
           SequenceCoversInserts DriftIsRepaired
