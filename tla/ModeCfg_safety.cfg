CONSTANTS
    a1 = a1
    a2 = a2
    AnyAddr = AnyAddr
    Host = Host
    BadHash = BadHash
    NoPacket = NoPacket
    MsgIds <- MC_MsgIds
    Addrs <- MC_Addrs
    MaxLoss = 1
    MaxForged = 1
SPECIFICATION Spec
INVARIANTS
    TypeOK
    AddressAgreement
    CompletionOrder
PROPERTIES
    DeadPeerSchedule
    ExchangeRefinement
\* The ModeCfg exchange ends: both sessions reach a final state.
CHECK_DEADLOCK FALSE
