\* The whole directory, phase by phase.
CONSTANTS
    o1 = o1
    o2 = o2
    s1 = s1
    s2 = s2
    l1 = l1
    g1 = g1
    r1 = r1
    d1 = d1
    c1 = c1
    c2 = c2
    p1 = p1
    p2 = p2
    Nobody = Nobody
    Absent = Absent
    Empty = Empty
    Mixed = Mixed
    Proc = {p1}
    File = {o1, o2, s1, s2, l1, g1, r1, d1}
    Checksum = {c1, c2}
    NoTx = {g1}
    Commands = {"apply", "plan", "sync"}
    FailOnUnvalidated = TRUE
    TypeOf <- MCTypeOf
    Ordinal <- MCOrdinal
    InitDir <- MCInitDir
    InitDb <- MCInitDb
    MaxStatements = 2
    MaxAdoptions = 1
    MaxEdits = 1
    MaxDrifts = 1
    MaxFaults = 1
    MaxLosses = 0
SPECIFICATION RetrySpec
INVARIANTS TypeOK
PROPERTIES InVersionOrder EveryFolderDiffedFirst DataSeesRelease SuccessConverges CleanPlanHolds RetriesConverge
