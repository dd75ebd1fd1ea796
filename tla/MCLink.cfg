\* Three hosts for two ARP entries and a clock that wraps; a ring of five cells
\* for the driver; three nodes; three neighbours' slots.
CONSTANTS
    UIP_ARPTAB_SIZE = 2
    UIP_ARP_MAXAGE = 2
    TimeMod = 4
    Hosts = {router, h1, h2}
    Remote = remote
    BroadcastIp = broadcast
    Router = router
    Macs = {m1, m2}
    AllZeroes = zeroes
    ZeroMac = zeromac
    BroadcastMac = ffffff
    EthFrames <- MCFrames
    EthAnswers = {"x", "y"}
    RXSTOP_INIT = 4
    EthPackets = 3
    EthMaxlen = 2
    EthRestarts = 1
    FwHosts <- MCHosts
    FwRegistered <- MCRegistered
    FwDefault <- MCDefault
    FwTraffic <- MCTraffic
    FwRests <- MCRests
    FWCACHE_SIZE = 2
    FW_TIME = 2
    UIP_TTL = 3
    FwFull = 3
    NeighborIps = {"i", "j", "k"}
    NeighborAddrs = {"l", "m"}
    NeighborAsIp <- MCAsIp
    NoIp = "no ip"
    NoAddr = "no address"
    ENTRIES = 3
    MAX_TIME = 3
SPECIFICATION LinkSpec
INVARIANTS LinkTypeOK OneEntryPerHost FramesReachNextHop TransmitUndisturbed
    ReadPointerOddOrEnd ChecksumStaysRight
PROPERTIES ForgetsOldest FramesInOrderUntilFilled LinkLoopGoesOn NotTwiceRunning PacketsDie
    OldestOrLookalikeGoes
CHECK_DEADLOCK FALSE
