\* A clock of five ticks, one TCP and one UDP connection, three ports.
CONSTANTS
    ClockMod = 5
    PERIODIC = 1
    ARP_PERIOD = 2
    UIP_CONNS = 1
    UIP_UDP_CONNS = 1
    DhcpPort = 1
    StartPort = 2
    FirstPort = 2
    LastPort = 3
    Peers = {a}
    MaxLag = 2
SPECIFICATION FairSpec
INVARIANTS TypeOK TimersKeepTime
PROPERTIES SentIsOwn VisitsGoOn
