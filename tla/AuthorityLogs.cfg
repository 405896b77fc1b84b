CONSTANTS
    a = a  b = b  p1 = p1  p2 = p2
    Records = {a, b}
    Policies = {p1, p2}
    NoTxn = NoTxn
    MaxAppends = 2
    MaxReads = 2
    MaxFaults = 1
SPECIFICATION LogsSpec
SYMMETRY Symmetry
CHECK_DEADLOCK FALSE
INVARIANTS LogsTypeOK MembershipSurvivesFaults AcknowledgedIsKept RefusedOnlyAfterFault
           ReplayReproduces AuditIsClean
PROPERTY EpochFollowsAuthority
