CONSTANTS
    a = a  b1 = b1  b2 = b2  d = d  j = j  x = x
    r1 = r1  r2 = r2  r3 = r3  r4 = r4  rx = rx  u = u
    Messages = {a, b1, x}
    Records = {r1, rx}
    Runs = {"A", "B"}
    Tasks = {"t1", "t2"}
    Keys = {"k"}
    NoKey = NoKey
    Effects = {"send", "answer"}
    Policies = {1}
    Msg <- MCMsg
    Rec <- MCRec
    FirstClock <- AfterFork
    FirstMsgSeq <- ForkSent
    FirstWriteSeq <- Written
    MaxSkip = 0
    MaxLag = 0
    MaxRetired = 0
    MaxDelegations = 0
    MaxResolutions = 1
    MaxKeyVersion = 5
SPECIFICATION MemorySpec
CHECK_DEADLOCK FALSE
PROPERTY RunIsolation
