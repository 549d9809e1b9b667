SPECIFICATION Spec
CONSTANTS
    NaNAsInt = 0
    Homes <- WIBHome
    PowerOn <- Off
    InUse <- On
    Reading <- Readings
    Setting <- Settings
    ReportedStatus = {"DISCONNECTED", "CONNECTED"}
INVARIANT PageShowsWIB
CHECK_DEADLOCK FALSE
