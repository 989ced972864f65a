\* What the README says of one run.
SPECIFICATION Spec
CONSTANTS
    Procs = {p1}
    Names = {"Ann", "Bob"}
    Ids <- MCIds
    Blank = ""
    Trim <- MCTrim
    PadSpace = FALSE
    Depts = {"d1", "d2", "d02"}
    Numeric <- MCNumeric
    NumericId = FALSE
    Null = Null
    Lists <- OwnedLists
    Tables <- PlainTables
    UniqueKey = TRUE
    MaxRows = 4
    MaxFaults = 0
PROPERTIES FallbackNeedsDept
\* The bound MaxRows ends the sequence of runs.
CHECK_DEADLOCK FALSE
