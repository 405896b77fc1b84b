CONSTANTS
    a = a  b1 = b1  b2 = b2  d = d  j = j  x = x
    r1 = r1  r2 = r2  r3 = r3  r4 = r4  rx = rx  u = u
    Messages = {a, b1, b2, d, j}
    Records = {r1, r2, r3, r4}
    Runs = {"A"}
    Tasks = {"t1", "t2"}
    Keys = {"k"}
    NoKey = NoKey
    Effects = {"send", "answer"}
    Policies = {1}
    Msg <- MCMsg
    Rec <- MCRec
    FirstClock <- AfterFork
    FirstMsgSeq <- LateBranch
    FirstWriteSeq <- WrittenTwo
    MaxSkip = 1
    MaxLag = 2
    MaxRetired = 1
    MaxDelegations = 0
    MaxResolutions = 1
    MaxKeyVersion = 6
SPECIFICATION MemorySpec
CHECK_DEADLOCK FALSE
INVARIANTS TypeOK OneVersionServed ViewWithinCeilings RestrictionsHold ResolutionGoverns
PROPERTIES PastIsSettled WritesNeverWiden
