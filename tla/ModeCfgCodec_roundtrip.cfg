CONSTANTS
    a1 = a1
    a2 = a2
    AnyAddr = AnyAddr
    Host = Host
    Addrs <- MC_Addrs
SPECIFICATION Spec
INVARIANTS
    RoundTrip
\* One message is sent and parsed; the receiver then has nothing left to do.
CHECK_DEADLOCK FALSE
