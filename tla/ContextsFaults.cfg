CONSTANTS
    c1 = c1  c2 = c2  ma = ma  mb = mb  mp = mp  mq = mq  x = x
    Messages = {ma, x}
    Seeded = {ma}
    SeededLabel <- MCLabel
    Principals = {mp, mq}
    Operators = {mq}
    Nobody = Nobody
    Clearance <- MCClearance
    Contexts = {c1, c2}
    NoContext = NoContext
    NoMessage = NoMessage
    NoPolicy = NoPolicy
    Requested = {1}
    MaxRecords = 1
    MaxTakeovers = 2
    MaxFaults = 1
    MaxRefused = 1
    MaxPolicies = 0
    MaxCrashes = 1
SPECIFICATION ContextSpec
SYMMETRY AnyContext
CHECK_DEADLOCK FALSE
INVARIANTS ContextInv RecordsBindInputs ClosedIsSilent ConsumedStaysBound LocksMoveOn
PROPERTY StaleStaysStale
