\* Runs one after another, any failure, no keys.
SPECIFICATION CompareSpec
CONSTANTS
    Procs = {p1}
    Names = {"Ann", "Bob"}
    Ids <- MCIds
    Blank = ""
    Trim <- MCTrim
    PadSpace = TRUE
    Depts = {"d1", "d2", "d02"}
    Numeric <- MCNumeric
    NumericId = TRUE
    Null = Null
    Lists <- MCLists
    Tables <- MCTables
    UniqueKey = FALSE
    MaxRows = 4
    MaxFaults = 1
    Roles = {"r1", "r2"}
    NoRole = NoRole
    Runs <- MCRuns
    Grants <- MCGrants
    RoleKey = FALSE
    MaxUsrNo = 5
INVARIANTS RowsPerIdBounded PeopleKeptApart NoChurn DeptsListed
           RoleMatchesFile ListedPeopleGetTheRole
\* The bound MaxRows ends the sequence of runs.
CHECK_DEADLOCK FALSE
