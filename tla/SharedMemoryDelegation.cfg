CONSTANTS
    a = a  b1 = b1  b2 = b2  d = d  j = j  x = x
    r1 = r1  r2 = r2  r3 = r3  r4 = r4  rx = rx  u = u
    Messages = {a, b2, d, j}
    Records = {r1, r2, r4}
    Runs = {"A"}
    Tasks = {"t1", "t2"}
    Keys = {"k"}
    NoKey = NoKey
    Effects = {"send", "answer"}
    Policies = {1, 2}
    Msg <- MCMsg
    Rec <- MCRec
    FirstClock <- AfterFork
    FirstMsgSeq <- ForkSent
    FirstWriteSeq <- Written
    MaxSkip = 0
    MaxLag = 1
    MaxRetired = 0
    MaxDelegations = 1
    MaxResolutions = 2
    MaxKeyVersion = 4
SPECIFICATION MemorySpec
CHECK_DEADLOCK FALSE
INVARIANT RestrictionsHold
