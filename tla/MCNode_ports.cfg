\* Two UDP connections and four ports, with the smallest clock.
CONSTANTS
    ClockMod = 3
    PERIODIC = 1
    ARP_PERIOD = 1
    UIP_CONNS = 1
    UIP_UDP_CONNS = 2
    DhcpPort = 1
    StartPort = 2
    FirstPort = 2
    LastPort = 4
    Peers = {a}
    MaxLag = 1
SPECIFICATION Spec
INVARIANT UdpPortsDistinct
