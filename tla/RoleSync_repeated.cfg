\* A person named twice by the file.
SPECIFICATION Spec
CONSTANTS
    Procs = {p1}
    Roles = {r1}
    u1 = u1
    u2 = u2
    u3 = u3
    UsrNos = {u1, u2}
    NoUsrNo = NoUsrNo
    Lists <- RepeatedList
    UniqueKey = FALSE
    Nullable = {}
    MaxFaults = 0
    MaxCopies = 1
PROPERTIES OnlyNonMembersInserted
\* The bound MaxCopies ends the sequence of runs.
CHECK_DEADLOCK FALSE
