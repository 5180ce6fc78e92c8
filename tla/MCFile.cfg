\* Every text of up to four lexemes, longer files alone and in pairs, a fault.
CONSTANTS
    Tags = {"$a$", "$b$"}
    Words = {"x"}
    MaxLength = 4
    MaxFaults = 1
    Batches <- MCBatches
SPECIFICATION Spec
INVARIANTS SplitIsFaithful RowsAreTrue ReportsAreRecorded
