SPECIFICATION Spec
CONSTANTS
    NaNAsInt = 0
    Homes <- AllHomes
    PowerOn <- Off
    InUse <- On
    Reading <- Readings
    Setting <- Settings
    ReportedStatus = {"DISCONNECTED", "CONNECTED"}
INVARIANTS TypeOK ObjectsFollowDevices PageFollowsObjects ForwardsFindObjects CoolsWhenTooWarm
PROPERTIES LockedDoorStaysShut
CHECK_DEADLOCK FALSE
