\* Two processes on one role, versions of its list, one fault.
SPECIFICATION Spec
CONSTANTS
    Procs = {p1, p2}
    Roles = {r1}
    u1 = u1
    u2 = u2
    u3 = u3
    UsrNos = {u1, u2, u3}
    NoUsrNo = NoUsrNo
    Lists <- OverlapLists
    UniqueKey = FALSE
    Nullable = {u1}
    MaxFaults = 1
    MaxCopies = 2
SYMMETRY Symmetry
INVARIANTS IInv NoAccessGap RevokeBeforeGrant DoneMeansSynced
           VerifyFailureHasCause ReportMatchesChanges
PROPERTIES InsertOnlyAbsent ImplementsRoleSpec
\* The bound MaxCopies ends the sequence of runs.
CHECK_DEADLOCK FALSE
