\* Two slots and two peers; short timers.
CONSTANTS
    UIP_CONNS = 2
    UIP_LISTENPORTS = 1
    UIP_RTO = 1
    RtoRange = {1}
    UIP_MAXRTX = 1
    UIP_MAXSYNRTX = 0
    UIP_TIME_WAIT_TIMEOUT = 2
    UIP_TCP_MSS = 1
    ServerPorts = {80}
    FirstPort = 4095
    EphLo = 4096
    EphHi = 4098
    Peers = {p1, p2}
SPECIFICATION Spec
INVARIANTS UniqueConnections
SYMMETRY Symmetry
VIEW TableView
