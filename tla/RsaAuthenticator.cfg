CONSTANTS
    alice = alice
    bob = bob
    mallory = mallory
    carol = carol
    ka = ka
    kb = kb
    km = km
    kc = kc
    x = x
    y = y
    z = z
    e1 = e1
    e2 = e2
    e3 = e3
    e4 = e4
    NoKey = NoKey
    NoOne = NoOne
    Principals = {alice, bob, mallory, carol}
    Honest = {alice, bob, carol}
    Keys = {ka, kb, km, kc}
    Ends = {e1, e2, e3, e4}
    SAs = {x, y, z}
    Me <- MC_Me
    Peer <- MC_Peer
    Sa <- MC_Sa
    Role <- MC_Role
    PubKey <- MC_PubKey
    TrustedKey <- MC_TrustedKey
    Holder <- MC_Holder
SPECIFICATION Spec
INVARIANTS
    PeerAuthenticated
    HonestPayloadAccepted
CHECK_DEADLOCK FALSE
