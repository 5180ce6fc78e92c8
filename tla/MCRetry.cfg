\* Two processes keep applying a logic file that is edited, put back, fails
\* half-way outside a transaction and loses a history row.
CONSTANTS
    o1 = o1
    o2 = o2
    s1 = s1
    s2 = s2
    l1 = l1
    g1 = g1
    r1 = r1
    d1 = d1
    c1 = c1
    c2 = c2
    p1 = p1
    p2 = p2
    Nobody = Nobody
    Absent = Absent
    Empty = Empty
    Mixed = Mixed
    Proc = {p1, p2}
    File = {l1}
    Checksum = {c1, c2}
    NoTx = {l1}
    Commands = {"apply"}
    FailOnUnvalidated = TRUE
    TypeOf <- MCTypeOf
    Ordinal <- MCOrdinal
    InitDir <- MCInitDir
    InitDb <- MCInitDb
    MaxStatements = 1
    MaxAdoptions = 0
    MaxEdits = 2
    MaxDrifts = 0
    MaxFaults = 1
    MaxLosses = 1
SPECIFICATION RetrySpec
PROPERTIES CommandsEnd RetriesConverge
