CONSTANTS
    a1 = a1
    a2 = a2
    AnyAddr = AnyAddr
    Host = Host
    BadHash = BadHash
    NoPacket = NoPacket
    MsgIds <- MC_MsgIds
    Addrs <- MC_Addrs
    MaxLoss = 0
    MaxForged = 1
SPECIFICATION Spec
INVARIANTS
    MsgIdZeroIffIdle
CHECK_DEADLOCK FALSE
