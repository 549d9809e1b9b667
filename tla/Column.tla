------------------------------- MODULE Column -------------------------------
(***************************************************************************)
(* The column: smoke sensor, alarm light, buzzer, button.                  *)
(***************************************************************************)
EXTENDS Devices

NewColumn ==
    [Status |-> "CONNECTED", COLUMN_LED_ON |-> FALSE, COLUMN_BUZZER_ON |-> FALSE,
     COLUMN_SMOKE_SENSOR_VALUE |-> 0, COLUMN_SMOKE_TRESHOLD_VALUE |-> 240]

(* Without a website object the LED itself is not told either.             *)
ColumnTurnLedOn(t, on) ==
    IF HasObject(t, "Website") THEN PutOnBoth(t, "Column", "COLUMN_LED_ON", on)
    ELSE Put(t, "Column", "COLUMN_LED_ON", on)

(* Variant: the buzzer sounds without the object keeping it.               *)
ColumnTurnBuzzerOnUnkept(t, on) == ToDevice(t, "Column", "COLUMN_BUZZER_ON", on)

ColumnTurnBuzzerOn(t, on) == PutOnDevice(t, "Column", "COLUMN_BUZZER_ON", on)

(* The sensor's value is set first: the alarm compares the new one.        *)
ColumnNewSmokeSensorValue(t, value) ==
    LET alarmed == ColumnTurnLedOn(ColumnTurnBuzzerOn(t, TRUE), TRUE)
    IN  PutOnWebsite(
            IF value > t.object["Column"].COLUMN_SMOKE_TRESHOLD_VALUE THEN alarmed ELSE t,
            "Column", "COLUMN_SMOKE_SENSOR_VALUE", value)

ColumnNewSmokeTresholdValue(t, value) ==
    PutOnWebsite(t, "Column", "COLUMN_SMOKE_TRESHOLD_VALUE", value)

ColumnButtonWasPressed(t, pressed) ==
    IF pressed /\ ~t.object["Column"].COLUMN_LED_ON THEN ColumnTurnLedOn(t, TRUE) ELSE t

ColumnHandleMessage(t, m) ==
    CASE m.command = "DEVICE_INFO" ->
            UpdateWebsite(Learn(t, "Column",
                {"COLUMN_LED_ON", "COLUMN_BUZZER_ON", "COLUMN_SMOKE_SENSOR_VALUE"}, m.value))
      [] m.command = "COLUMN_BUTTON_PRESSED" -> ColumnButtonWasPressed(t, m.value)
      [] m.command = "COLUMN_LED_ON" -> ColumnTurnBuzzerOn(ColumnTurnLedOn(t, m.value), m.value)
      [] m.command = "COLUMN_BUZZER_ON" -> ColumnTurnBuzzerOn(t, m.value)
      [] m.command = "COLUMN_SMOKE_SENSOR_VALUE" -> ColumnNewSmokeSensorValue(t, m.value)
      [] m.command = "COLUMN_SMOKE_TRESHOLD_VALUE" -> ColumnNewSmokeTresholdValue(t, m.value)
      [] m.command = "HEARTBEAT" -> NewStatus(t, "Column", m.value)
      [] OTHER -> t

=============================================================================
