SPECIFICATION QuietSpec
CONSTANTS
    c1 = c1
    c2 = c2
    c3 = c3
    none = none
    NoMac = none
    Clients <- MCClients3
    W = 2
    PoolStart = 6
    PoolEnd = 8
    NetConfigs <- MCNets
    AddrPools <- MCLeasePools
    ReqAddrs <- MCReq
    MsgTypes <- AllMsgTypes
SYMMETRY Symmetry3
INVARIANTS TypeOK UniqueLease HeldIsLatched
CHECK_DEADLOCK FALSE
