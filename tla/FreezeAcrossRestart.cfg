CONSTANTS
    c1 = c1  c2 = c2  c3 = c3  ma = ma  mb = mb  mp = mp  mq = mq
    Messages = {ma, mb}
    Seeded = {ma, mb}
    SeededLabel <- MCLabel
    Principals = {mp}
    Operators = {}
    Nobody = Nobody
    Clearance <- MCClearance
    Contexts = {c1, c2, c3}
    NoContext = NoContext
    NoMessage = NoMessage
    NoPolicy = NoPolicy
    Requested = {2}
    MaxRecords = 0
    MaxTakeovers = 0
    MaxFaults = 0
    MaxRefused = 0
    MaxPolicies = 0
    MaxCrashes = 1
SPECIFICATION ContextSpec
SYMMETRY AnyContext
CHECK_DEADLOCK FALSE
INVARIANT FoldIsCurrent
