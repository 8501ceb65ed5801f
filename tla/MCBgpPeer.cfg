\* One active peer with the smallest valid hold time (3 s, keepalive every
\* second) against an RFC 4271 remote with the same hold time; a connect
\* failure or connection reset, and a peer_reset from a control client.
CONSTANTS
    NoMsg = NoMsg
    NoError = NoError
    NoEvent = NoEvent
    HoldTimeSecs = 3
    PeerHoldTime = 3
    ConnectRetry = 1
    NumPrefixes = 1
    Passive = FALSE
    SplitSegments = FALSE
    MaxUpdates = 1
    MaxFaults = 1
    MaxResets = 1
    EventCapacity = 1
SPECIFICATION FairSpec
INVARIANT TypeOK
INVARIANT NoSpuriousTeardown
INVARIANT ShownEstablishedOnlyInSession
PROPERTY EventuallyStaysEstablished
PROPERTY SubscriberLearnsFinalState
