\* One slot with every timer and retry count; liveness of opening and closing.
CONSTANTS
    UIP_CONNS = 1
    UIP_LISTENPORTS = 1
    UIP_RTO = 1
    RtoRange = {1, 2}
    UIP_MAXRTX = 6
    UIP_MAXSYNRTX = 2
    UIP_TIME_WAIT_TIMEOUT = 3
    UIP_TCP_MSS = 2
    ServerPorts = {80}
    FirstPort = 4095
    EphLo = 4096
    EphHi = 4099
    Peers = {p1}
SPECIFICATION FairSpec
INVARIANTS TypeOK OutstandingMatchesState AppKnowsState SentIsOutstanding
PROPERTY TransitEnds
