CONSTANTS
    ma = ma  mb = mb  md = md  me = me  c1 = c1  r = r  u = u  w = w  send = send  remit = remit  answer = answer
    Messages = {ma, mb, md}
    Records = {r}
    Runs = {"A"}
    Tasks = {"t1", "t2"}
    Keys = {"k"}
    NoKey = NoKey
    Effects = {"send", "answer"}
    Policies = {1}
    Msg <- MCMsg
    Rec <- MCRec
    FirstClock <- FirstFree
    FirstMsgSeq <- FirstMessages
    FirstWriteSeq <- FirstRecords
    MaxSkip = 0
    MaxLag = 0
    MaxRetired = 0
    MaxDelegations = 0
    MaxResolutions = 0
    MaxKeyVersion = 4
    Contexts = {c1}
    Ctx <- MCCtx
    Views = {"v1", "v2"}
    Actions = {send, remit}
    Tool <- MCTool
    NoBinding = NoBinding
    NoTxn = NoTxn
    PolicyMay = {}
    MaxVersion = 1
    MaxTakeovers = 0
    MaxResets = 0
    MaxCrashes = 0
SPECIFICATION KernelFairSpec
CHECK_DEADLOCK FALSE
PROPERTY EveryGrantSettles
