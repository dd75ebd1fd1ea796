\* Segments of three tokens, one retransmission.
CONSTANTS
    AppMss = 3
    MaxRexmit = 1
    PsockBufsize = 5
    DhcpServers = {"s1", "s2"}
    DhcpOffers <- MCOffers
    DISCOVER_LIMIT = 4
    REQUEST_LIMIT = 2
    TELNETD_NUMLINES = 3
    TELNETD_LINELEN = 2
    MaxInput = 2
    SmtpMsg <- MCMsg
    SmtpCodes = {"220", "2", "3", "5"}
    HttpdFiles <- MCFiles
    HttpdTypes <- MCTypes
    HttpdInclude <- MCInclude
    HttpdReport <- MCReport
    HttpdChanging = {"r1"}
    HttpdRequests <- MCRequests
    HttpdPolls = 2
    WebReplies <- MCWebReplies
    WebMoved <- MCWebMoved
    WebKnown = {"h1", "h2"}
    WebSlots = {1, 2, 3}
    WebLine = 3
    WebTimeout = 2
    WebWrap = 4
SPECIFICATION AppsSpec
INVARIANTS AppsTypeOK AppsSendTheSame ConfiguredIsGranted LinesAreOwned OkMeansTaken
    HttpdPageIsRight DataIsRight
PROPERTIES RequestsEnd DhcpcKeepsAsking HttpdDropsSilentClient
CHECK_DEADLOCK FALSE
