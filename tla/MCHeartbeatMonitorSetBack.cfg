SPECIFICATION Spec
CONSTANTS
    UUID <- TwoDevices
    TypeOf <- AllChairs
    Connection <- OneConnection
    Substring <- Exact
    StrayLocks = {}
    UnstableAfter = 1
    DisconnectedAfter = 2
    Wrap = 16
    MaxAge = 4
    ClockSteps <- SetBack
    MaxQueue = 3
    MaxBeats = 2
    MaxLate = 2
PROPERTY OutOfTimeOnly
