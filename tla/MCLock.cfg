\* Two processes, sessions and processes lost at any moment.
CONSTANTS
    o1 = o1
    o2 = o2
    s1 = s1
    s2 = s2
    l1 = l1
    g1 = g1
    r1 = r1
    d1 = d1
    c1 = c1
    c2 = c2
    p1 = p1
    p2 = p2
    Nobody = Nobody
    Absent = Absent
    Empty = Empty
    Mixed = Mixed
    Proc = {p1, p2}
    File = {o1, o2, l1}
    Checksum = {c1}
    NoTx = {}
    Commands = {"apply", "sync", "baseline"}
    FailOnUnvalidated = FALSE
    TypeOf <- MCTypeOf
    Ordinal <- MCOrdinal
    InitDir <- MCInitDir
    InitDb <- MCInitDb
    MaxStatements = 1
    MaxAdoptions = 1
    MaxEdits = 0
    MaxDrifts = 0
    MaxFaults = 1
    MaxLosses = 2
SPECIFICATION Spec
INVARIANTS SerialRuns RunsArePaidFor
PROPERTIES OnlyHolderWrites NeverRerun KeepsPromise
