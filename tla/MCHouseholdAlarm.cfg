SPECIFICATION Spec
CONSTANTS
    NaNAsInt = 0
    Homes <- ColumnHome
    PowerOn <- Off
    InUse <- On
    Reading <- Readings
    Setting <- Settings
    ReportedStatus = {"DISCONNECTED", "CONNECTED"}
INVARIANT AlarmLightFollows
CHECK_DEADLOCK FALSE
