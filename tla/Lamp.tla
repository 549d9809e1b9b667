-------------------------------- MODULE Lamp --------------------------------
(***************************************************************************)
(* The table lamp: a dimmable LED and a movement sensor.                   *)
(***************************************************************************)
EXTENDS Devices

NewLamp ==
    [Status |-> "CONNECTED", LAMP_MOVEMENT_DETECTED |-> FALSE, LAMP_LED_VALUE |-> 0,
     LAMP_LED_ON |-> FALSE]

(* The device knows one level, which is 0 when the lamp is off; the        *)
(* website is told the stored level and the switch.                        *)
LampTurnLedOn(t, on) ==
    LET level == t.object["Lamp"].LAMP_LED_VALUE
    IN  ToWebsite(ToWebsite(ToDevice(Put(t, "Lamp", "LAMP_LED_ON", on),
            "Lamp", "LAMP_LED_VALUE", IF on THEN level ELSE 0),
            "Lamp", "LAMP_LED_VALUE", level),
            "Lamp", "LAMP_LED_ON", on)

LampDimLed(t, level) ==
    LampTurnLedOn(Put(t, "Lamp", "LAMP_LED_VALUE", level), t.object["Lamp"].LAMP_LED_ON)

LampNewMovementDetected(t, detected) ==
    PutOnWebsite(t, "Lamp", "LAMP_MOVEMENT_DETECTED", detected)

(* The answer has no switch: a lit lamp is on.                             *)
LampLearn(t, info) ==
    Put(Learn(t, "Lamp", {"LAMP_MOVEMENT_DETECTED", "LAMP_LED_VALUE"}, info),
        "Lamp", "LAMP_LED_ON", info.LAMP_LED_VALUE > 0)

LampHandleMessage(t, m) ==
    CASE m.command = "DEVICE_INFO" -> UpdateWebsite(LampLearn(t, m.value))
      [] m.command = "LAMP_MOVEMENT_DETECTED" -> LampNewMovementDetected(t, m.value)
      [] m.command = "LAMP_LED_VALUE" -> LampDimLed(t, m.value)
      [] m.command = "LAMP_LED_ON" -> LampTurnLedOn(t, m.value)
      [] m.command = "HEARTBEAT" -> NewStatus(t, "Lamp", m.value)
      [] OTHER -> t

=============================================================================
