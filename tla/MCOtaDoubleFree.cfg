SPECIFICATION OtaSpec
CONSTANTS
    unset = unset
    Unset = unset
    Factory = "factory"
    NoFile = "none"
    Files <- MCFiles
    Layout <- MCLayout
    HdrLen = 1
    SigLen = 2
    BufSize = 3
    SectorSize = 4
    FlashSize = 20
    RdpAddr = 16
    Ota1Addr = 0
    Ota2Default = 8
    Ota2Addrs <- MCOta2Addrs
    Bits = 2
    Impatient = FALSE
INVARIANTS NoDoubleFree
