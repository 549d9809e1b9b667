------------------------------ MODULE Furniture ------------------------------
(***************************************************************************)
(* The devices that drive no other: bed, chair, the WIB board and the      *)
(* simulated device.                                                       *)
(***************************************************************************)
EXTENDS Devices

NewBed ==
    [Status |-> "CONNECTED", BED_LED_ON |-> FALSE, BED_PRESSURE_SENSOR_VALUE |-> 0]

BedTurnLedOn(t, on) == PutOnBoth(t, "Bed", "BED_LED_ON", on)

BedButtonWasPressed(t, pressed) ==
    IF pressed THEN BedTurnLedOn(t, ~t.object["Bed"].BED_LED_ON) ELSE t

(* The sensor's value passes through 16 bits, the answer's does not.       *)
BedHandleMessage(t, m) ==
    CASE m.command = "DEVICE_INFO" ->
            UpdateWebsite(Learn(t, "Bed", {"BED_LED_ON", "BED_PRESSURE_SENSOR_VALUE"}, m.value))
      [] m.command = "BED_BUTTON_PRESSED" -> BedButtonWasPressed(t, m.value)
      [] m.command = "BED_LED_ON" -> BedTurnLedOn(t, m.value)
      [] m.command = "BED_PRESSURE_SENSOR_VALUE" ->
            PutOnWebsite(t, "Bed", "BED_PRESSURE_SENSOR_VALUE", m.value % 2^16)
      [] m.command = "HEARTBEAT" -> NewStatus(t, "Bed", m.value)
      [] OTHER -> t

NewChair ==
    [Status |-> "CONNECTED", CHAIR_LED_ON |-> FALSE, CHAIR_VIBRATOR_ON |-> FALSE,
     CHAIR_PRESSURE_SENSOR_VALUE |-> 0]

ChairTurnVibratorOn(t, on) ==
    PutOnBoth(PutOnDevice(t, "Chair", "CHAIR_LED_ON", on), "Chair", "CHAIR_VIBRATOR_ON", on)

ChairButtonWasPressed(t, pressed) ==
    IF pressed THEN ChairTurnVibratorOn(t, ~t.object["Chair"].CHAIR_VIBRATOR_ON) ELSE t

(* Variant: a pressure of any width.                                       *)
ChairNewPressureSensorValueWide(t, value) ==
    PutOnWebsite(t, "Chair", "CHAIR_PRESSURE_SENSOR_VALUE", value)

(* The pressure passes through 8 bits.                                     *)
ChairNewPressureSensorValue(t, value) ==
    PutOnWebsite(t, "Chair", "CHAIR_PRESSURE_SENSOR_VALUE", value % 2^8)

ChairLearn(t, info) ==
    Put(Learn(t, "Chair", {"CHAIR_LED_ON", "CHAIR_VIBRATOR_ON"}, info),
        "Chair", "CHAIR_PRESSURE_SENSOR_VALUE", info.CHAIR_PRESSURE_SENSOR_VALUE % 2^8)

ChairHandleMessage(t, m) ==
    CASE m.command = "DEVICE_INFO" -> UpdateWebsite(ChairLearn(t, m.value))
      [] m.command = "CHAIR_BUTTON_PRESSED" -> ChairButtonWasPressed(t, m.value)
      [] m.command = "CHAIR_VIBRATOR_ON" -> ChairTurnVibratorOn(t, m.value)
      [] m.command = "CHAIR_PRESSURE_SENSOR_VALUE" -> ChairNewPressureSensorValue(t, m.value)
      [] m.command = "HEARTBEAT" -> NewStatus(t, "Chair", m.value)
      [] OTHER -> t

-----------------------------------------------------------------------------
NewWIB ==
    [Status |-> "CONNECTED", WIB_SWITCH_ON |-> FALSE, WIB_LED_ON |-> FALSE,
     WIB_DIMMER_VALUE |-> 0]

(* The object passes the values on and keeps none of them.                 *)
WIBTurnLedOn(t, on) ==
    ToWebsite(ToDevice(t, "WIB", "WIB_LED_ON", on), "WIB", "WIB_LED_ON", on)

WIBSwitchTurnedOn(t, on) == ToWebsite(WIBTurnLedOn(t, on), "WIB", "WIB_SWITCH_ON", on)

WIBHandleMessage(t, m) ==
    CASE m.command = "DEVICE_INFO" ->
            UpdateWebsite(Learn(t, "WIB",
                {"WIB_SWITCH_ON", "WIB_LED_ON", "WIB_DIMMER_VALUE"}, m.value))
      [] m.command = "WIB_SWITCH_ON" -> WIBSwitchTurnedOn(t, m.value)
      [] m.command = "WIB_LED_ON" -> WIBTurnLedOn(t, m.value)
      [] m.command = "WIB_DIMMER_VALUE" -> ToWebsite(t, "WIB", "WIB_DIMMER_VALUE", m.value)
      [] m.command = "HEARTBEAT" -> NewStatus(t, "WIB", m.value)
      [] OTHER -> t

-----------------------------------------------------------------------------
(* activeLed is the object's own: no message carries it.                   *)
NewSimulatedDevice ==
    [Status |-> "CONNECTED", SIMULATED_LED1_VALUE |-> 0, SIMULATED_LED2_VALUE |-> 0,
     SIMULATED_LED3_VALUE |-> 0, activeLed |-> 1]

Led == <<"SIMULATED_LED1_VALUE", "SIMULATED_LED2_VALUE", "SIMULATED_LED3_VALUE">>

NextLed(t) ==
    Put(t, "SimulatedDevice", "activeLed", (t.object["SimulatedDevice"].activeLed % 3) + 1)

PreviousLed(t) ==
    Put(t, "SimulatedDevice", "activeLed", ((t.object["SimulatedDevice"].activeLed + 1) % 3) + 1)

SimulatedHandleMessage(t, m) ==
    CASE m.command = "DEVICE_INFO" ->
            UpdateWebsite(Learn(t, "SimulatedDevice", {Led[i] : i \in 1..3}, m.value))
      [] m.command = "SIMULATED_BUTTON1_PRESSED" -> IF m.value THEN NextLed(t) ELSE t
      [] m.command = "SIMULATED_BUTTON2_PRESSED" -> IF m.value THEN PreviousLed(t) ELSE t
      [] m.command \in {Led[i] : i \in 1..3} ->
            PutOnBoth(t, "SimulatedDevice", m.command, m.value)
      [] m.command = "SIMULATED_DIMMER_VALUE" ->
            PutOnBoth(t, "SimulatedDevice", Led[t.object["SimulatedDevice"].activeLed], m.value)
      [] m.command = "HEARTBEAT" -> NewStatus(t, "SimulatedDevice", m.value)
      [] OTHER -> t

=============================================================================
