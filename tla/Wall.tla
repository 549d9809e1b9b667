-------------------------------- MODULE Wall --------------------------------
(***************************************************************************)
(* The wall: curtain, ledstrip, light sensor, and a dimmer that drives the *)
(* ledstrip and the lamp when the website has enabled them.                *)
(***************************************************************************)
EXTENDS Lamp

NewWall ==
    [Status |-> "CONNECTED", WALL_CURTAIN_OPEN |-> FALSE, WALL_LEDSTRIP_ON |-> FALSE,
     WALL_LAMP_ON |-> FALSE, WALL_DIMMER_VALUE |-> 0, WALL_LEDSTRIP_VALUE |-> 0,
     WALL_LDR_VALUE |-> 0]

DimLedstrip(t, level) == PutOnBoth(t, "Wall", "WALL_LEDSTRIP_VALUE", level)

(* With the lamp enabled but no lamp there, the ledstrip is left alone.    *)
WallNewDimmerValue(t, level) ==
    LET wall    == t.object["Wall"]
        set     == Put(t, "Wall", "WALL_DIMMER_VALUE", level)
        dimmed  == IF wall.WALL_LAMP_ON THEN LampDimLed(LampTurnLedOn(set, TRUE), level)
                   ELSE set
    IN  IF wall.WALL_LAMP_ON /\ ~HasObject(t, "Lamp") THEN set
        ELSE IF wall.WALL_LEDSTRIP_ON THEN DimLedstrip(dimmed, level)
        ELSE dimmed

(* The dimmer applies its last value to what the website just enabled.     *)
Enable(t, field, on) ==
    WallNewDimmerValue(Put(t, "Wall", field, on), t.object["Wall"].WALL_DIMMER_VALUE)

WallHandleMessage(t, m) ==
    CASE m.command = "DEVICE_INFO" ->
            UpdateWebsite(Learn(t, "Wall",
                {"WALL_CURTAIN_OPEN", "WALL_DIMMER_VALUE", "WALL_LDR_VALUE"}, m.value))
      [] m.command = "WALL_CURTAIN_OPEN" -> PutOnBoth(t, "Wall", "WALL_CURTAIN_OPEN", m.value)
      [] m.command \in {"WALL_LEDSTRIP_ON", "WALL_LAMP_ON"} -> Enable(t, m.command, m.value)
      [] m.command = "WALL_DIMMER_VALUE" -> WallNewDimmerValue(t, m.value)
      [] m.command = "WALL_LDR_VALUE" -> PutOnWebsite(t, "Wall", "WALL_LDR_VALUE", m.value)
      [] m.command = "WALL_LEDSTRIP_VALUE" -> DimLedstrip(t, m.value)
      [] m.command = "HEARTBEAT" -> NewStatus(t, "Wall", m.value)
      [] OTHER -> t

=============================================================================
