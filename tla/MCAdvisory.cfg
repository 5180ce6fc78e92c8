\* A retry that shows the plan to be bad.
CONSTANTS
    A = A
    B = B
    C = C
    D = D
    a = a
    b = b
    c = c
    d = d
    routine = routine
    Folder = {A, B}
    Outside = {C, D}
    Obj = {a, b, c, d, routine}
    HomeOf <- MCHomeOf
    Routine = {routine}
    Catalogs <- MCCatalogs
    Rank <- MCRank
    MaxRelations = 2
    MaxStatements = 2
    MaxFaults = 0
SPECIFICATION Spec
CHECK_DEADLOCK FALSE
INVARIANT RealFailuresAbort
