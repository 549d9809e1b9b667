SPECIFICATION Spec
CONSTANTS
    UUID <- TwoDevices
    TypeOf <- TwoTypes
    Connection <- TwoConnections
    Substring <- Exact
    StrayLocks <- BothLocks
    Incoming <- TwoClients
    MayClose = {"2a"}
    MaxReceived = 4
    NoPacket = NoPacket
    UnstableAfter = 1
    DisconnectedAfter = 2
    Wrap = 16
    MaxAge = 3
    ClockSteps <- Ticks
    MaxQueue = 4
    MaxSends = 1
    NoDevice = NoDevice
INVARIANT SentToGivenDevice
