\* Every small catalog, plans good and bad, gate on and off.
CONSTANTS
    A = A
    B = B
    C = C
    D = D
    a = a
    b = b
    c = c
    d = d
    routine = routine
    Folder = {A, B}
    Outside = {C, D}
    Obj = {a, b, c, d, routine}
    HomeOf <- MCHomeOf
    Routine = {routine}
    Catalogs <- MCCatalogs
    Rank <- MCRank
    MaxRelations = 2
    MaxStatements = 2
    MaxFaults = 1
SPECIFICATION Spec
CHECK_DEADLOCK FALSE
INVARIANTS SeedCannotFlatter SaysWhatItImported NotesAreOwn RecoversWhatItPromises RefusalIsWhole
