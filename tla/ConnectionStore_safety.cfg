CONSTANTS
    t1 = t1
    t2 = t2
    c1 = c1
    c2 = c2
    c3 = c3
    n1 = n1
    n2 = n2
    h1 = h1
    h2 = h2
    ANY = ANY
    NoConn = NoConn
    NoThread = NoThread
    Threads <- MC_Threads
    Conns <- MC_Conns
    Names <- MC_Names
    Hosts <- MC_Hosts
    ConnCfg <- MC_ConnCfg
SPECIFICATION Spec
CHECK_DEADLOCK FALSE
INVARIANTS
    TypeOK
    RefcountAccounting
    LookupAgreesWithSpec

    
