\* Two processes at once, usrNo a key.
SPECIFICATION Spec
CONSTANTS
    Procs = {p1, p2}
    Names = {"Ann", "Bob"}
    Ids <- MCIds
    Blank = ""
    Trim <- MCTrim
    PadSpace = FALSE
    Depts = {"d1", "d2", "d02"}
    Numeric <- MCNumeric
    NumericId = FALSE
    Null = Null
    Lists <- RaceLists
    Tables <- PlainTables
    UniqueKey = TRUE
    MaxRows = 4
    MaxFaults = 1
SYMMETRY Symmetry
INVARIANTS ResolvedMatches RowsPerIdBounded
\* The bound MaxRows ends the sequence of runs.
CHECK_DEADLOCK FALSE
