SPECIFICATION Spec
CONSTANTS
    UUID <- OddDevices
    TypeOf <- OddTypes
    Connection <- OddConnections
    Substring <- Exact
    StrayLocks = {}
    Incoming <- IllTypedClients
    MayClose = {"3a"}
    MaxReceived = 3
    NoPacket = NoPacket
    UnstableAfter = 1
    DisconnectedAfter = 2
    Wrap = 16
    MaxAge = 3
    ClockSteps <- Tick
    MaxQueue = 4
    MaxSends = 1
    NoDevice = NoDevice
PROPERTIES
    RegistrationHandled
    AllHandled
    ImplementsChannels
