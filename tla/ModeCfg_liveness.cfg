CONSTANTS
    a1 = a1
    a2 = a2
    AnyAddr = AnyAddr
    Host = Host
    BadHash = BadHash
    NoPacket = NoPacket
    MsgIds <- MC_MsgIds
    Addrs <- MC_Addrs
    MaxLoss = 2
    MaxForged = 0
SPECIFICATION LiveSpec
PROPERTIES
    ExchangeTerminates
CHECK_DEADLOCK FALSE
