CONSTANTS
    ma = ma  mb = mb  md = md  me = me  c1 = c1  r = r  u = u  w = w  send = send  remit = remit  answer = answer
    Messages = {ma, mb, md, me}
    Records = {r, u, w}
    Runs = {"A"}
    Tasks = {"t1", "t2"}
    Keys = {"k"}
    NoKey = NoKey
    Effects = {"send", "answer"}
    Policies = {1}
    Msg <- MCMsg
    Rec <- MCRec
    FirstClock <- FirstFree
    FirstMsgSeq <- FirstMessages
    FirstWriteSeq <- FirstRecords
    MaxSkip = 0
    MaxLag = 0
    MaxRetired = 1
    MaxDelegations = 1
    MaxResolutions = 1
    MaxKeyVersion = 2
    Contexts = {c1}
    Ctx <- MCCtx
    Views = {"v1"}
    Actions = {send, answer}
    Tool <- MCTool
    NoBinding = NoBinding
    NoTxn = NoTxn
    PolicyMay = {"attach", "complete"}
    MaxVersion = 2
    MaxTakeovers = 0
    MaxResets = 0
    MaxCrashes = 1
SPECIFICATION KernelSpec
CHECK_DEADLOCK FALSE
PROPERTIES ReadToUseIsAtomic EffectWithinCeilings
