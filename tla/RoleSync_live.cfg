\* Fair runs under one fault.
SPECIFICATION FairSpec
CONSTANTS
    Procs = {p1, p2}
    Roles = {r1}
    u1 = u1
    u2 = u2
    u3 = u3
    UsrNos = {u1, u2}
    NoUsrNo = NoUsrNo
    Lists <- RoleLists
    UniqueKey = TRUE
    Nullable = {u1}
    MaxFaults = 1
    MaxCopies = 1
PROPERTIES RunsStop Converges
