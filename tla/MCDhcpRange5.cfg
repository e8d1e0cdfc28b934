SPECIFICATION Spec
CONSTANTS
    c1 = c1
    c2 = c2
    c3 = c3
    none = none
    NoMac = none
    Clients <- MCClients2
    W = 2
    PoolStart = 9
    PoolEnd = 10
    NetConfigs <- MCNet
    AddrPools <- MCNoPools
    ReqAddrs <- MCReqRange5
    MsgTypes <- AllMsgTypes
INVARIANT AckedIsLatched
CHECK_DEADLOCK FALSE
