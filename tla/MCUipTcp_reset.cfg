CONSTANTS
    UIP_CONNS = 1
    UIP_LISTENPORTS = 1
    UIP_RTO = 1
    RtoRange = {1}
    UIP_MAXRTX = 2
    UIP_MAXSYNRTX = 1
    UIP_TIME_WAIT_TIMEOUT = 2
    UIP_TCP_MSS = 1
    ServerPorts = {80}
    FirstPort = 4095
    EphLo = 4096
    EphHi = 4099
    Peers = {p1}
SPECIFICATION FairSpec
INVARIANT NoResetForLive
