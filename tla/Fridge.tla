------------------------------- MODULE Fridge -------------------------------
(***************************************************************************)
(* The fridge: a thermostat with cooler and fan, and a door that counts.   *)
(***************************************************************************)
EXTENDS Devices

CONSTANT NaNAsInt       \* what (int) makes of a float that is not a number

ASSUME NaNAssumption == NaNAsInt \in Int

NewFridge ==
    [Status |-> "CONNECTED", FRIDGE_DOOR_CLOSED |-> FALSE, FRIDGE_FAN_ON |-> FALSE,
     FRIDGE_TEMPERATURE_INSIDE_VALUE |-> 0, FRIDGE_COOLER_ON |-> FALSE,
     FRIDGE_REQUESTED_FRIDGE_TEMPERATURE |-> 19, FRIDGE_DOOR_OPEN_COUNTER |-> 0]

(* The whole degrees of some readings of the 10 bit sensor.  Below 256 and *)
(* from 768 on the resistance comes out negative and its logarithm is not  *)
(* a number; the cast is then undefined (0 on the ARM, INT_MIN on a PC).   *)
Celsius ==
    [raw \in {0, 477, 482, 487} |->
        CASE raw = 0 -> NaNAsInt [] raw = 477 -> 18 [] raw = 482 -> 19 [] raw = 487 -> 20]

TurnCoolerOn(t, on) == PutOnDevice(t, "Fridge", "FRIDGE_COOLER_ON", on)

TurnFanOn(t, on) == PutOnDevice(t, "Fridge", "FRIDGE_FAN_ON", on)

(* Variant: a cooling band of two degrees.                                 *)
UpdateCoolingStateLate(t) ==
    LET fridge == t.object["Fridge"]
        over   == fridge.FRIDGE_TEMPERATURE_INSIDE_VALUE
                    - fridge.FRIDGE_REQUESTED_FRIDGE_TEMPERATURE
    IN  CASE over > 1  -> TurnFanOn(TurnCoolerOn(t, TRUE), TRUE)
          [] over < -1 -> TurnFanOn(TurnCoolerOn(t, FALSE), FALSE)
          [] OTHER     -> t

UpdateCoolingState(t) ==
    LET fridge == t.object["Fridge"]
        over   == fridge.FRIDGE_TEMPERATURE_INSIDE_VALUE
                    - fridge.FRIDGE_REQUESTED_FRIDGE_TEMPERATURE
    IN  CASE over >= 1  -> TurnFanOn(TurnCoolerOn(t, TRUE), TRUE)
          [] over <= -1 -> TurnFanOn(TurnCoolerOn(t, FALSE), FALSE)
          [] OTHER      -> t

NewRawTemperatureInside(t, raw) ==
    ToWebsite(
        UpdateCoolingState(Put(t, "Fridge", "FRIDGE_TEMPERATURE_INSIDE_VALUE", Celsius[raw])),
        "Fridge", "FRIDGE_TEMPERATURE_INSIDE_VALUE", Celsius[raw])

NewRequestedFridgeTemperature(t, degrees) ==
    UpdateCoolingState(Put(t, "Fridge", "FRIDGE_REQUESTED_FRIDGE_TEMPERATURE", degrees))

(* Every opening counts.                                                   *)
DoorWasClosed(t, closed) ==
    LET set == Put(t, "Fridge", "FRIDGE_DOOR_CLOSED", closed)
    IN  IF closed THEN set
        ELSE PutOnWebsite(set, "Fridge", "FRIDGE_DOOR_OPEN_COUNTER",
                          t.object["Fridge"].FRIDGE_DOOR_OPEN_COUNTER + 1)

FridgeHandleMessage(t, m) ==
    CASE m.command = "DEVICE_INFO" ->
            UpdateWebsite(NewRawTemperatureInside(
                Learn(t, "Fridge",
                    {"FRIDGE_DOOR_CLOSED", "FRIDGE_FAN_ON", "FRIDGE_COOLER_ON"}, m.value),
                m.value.FRIDGE_RAW_TEMPERATURE_SENSOR_INSIDE_VALUE))
      [] m.command = "FRIDGE_DOOR_CLOSED" -> DoorWasClosed(t, m.value)
      [] m.command = "FRIDGE_RAW_TEMPERATURE_SENSOR_INSIDE_VALUE" ->
            NewRawTemperatureInside(t, m.value)
      [] m.command = "FRIDGE_REQUESTED_FRIDGE_TEMPERATURE" ->
            NewRequestedFridgeTemperature(t, m.value)
      [] m.command = "HEARTBEAT" -> NewStatus(t, "Fridge", m.value)
      [] OTHER -> t

=============================================================================
