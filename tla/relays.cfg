CONSTANTS
    EchoCaller = {c1, c2}
    SeqSpace = 3
    MaxEchoes = 4
    UdpRelay = {g1, g2, g3}
    NoRelay = NoRelay
    MaxDatagrams = 4
    MaxReplies = 2
    RuleCount = 2
    Client = {x, y}
    NoClient = NoClient
    MaxClientDatagrams = 3
    MaxChunks = 2
SPECIFICATION RelaysSpec
INVARIANTS RelaysTypeOK AnswersOwnRequest AnsweredOnce SentStaysAnswerable
    OneRelayPerFlow SocketsHaveReaders FirstToEndIsHeard
     TunnelCarriesCovered
PROPERTIES FlowsEnd PathsDie TornDown
CHECK_DEADLOCK FALSE
