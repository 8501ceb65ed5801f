\* The same peer and remote with neither faults nor resets, but a TCP
\* stream that may deliver an UPDATE's payload up to a second after its
\* 19-byte header.
CONSTANTS
    NoMsg = NoMsg
    NoError = NoError
    NoEvent = NoEvent
    HoldTimeSecs = 3
    PeerHoldTime = 3
    ConnectRetry = 1
    NumPrefixes = 1
    Passive = FALSE
    SplitSegments = TRUE
    MaxUpdates = 1
    MaxFaults = 0
    MaxResets = 0
    EventCapacity = 2
SPECIFICATION Spec
INVARIANT NoSpuriousTeardown
