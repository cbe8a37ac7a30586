SPECIFICATION FairSpec
CONSTANTS
    p1 = p1
    p2 = p2
    p3 = p3
    t1 = t1
    t2 = t2
    Peer <- MCPeer
    Tx <- MCTx
    Time = {1, 2}
    Priority <- MCPriority
    Announcers <- MCAnnouncers
    NoCall = NoCall
    NoReply = NoReply
INVARIANT SelectionRight
PROPERTIES
    GetRequestableReturns
    AnswersAsNaive
