\* A query that reads a declared table through a view.
CONSTANTS
    P = P
    C = C
    Table = {P, C}
    Key = {1, 2}
    Catalogs <- MCCatalogs
    UniqueVal = {P}
    Serial = {P}
    Releases <- Unseen
    Contents <- OneFamily
    MaxWrites = 0
    MaxFaults = 0
SPECIFICATION Spec
PROPERTY MatchesWhateverItReads
