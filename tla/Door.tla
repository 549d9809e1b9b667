-------------------------------- MODULE Door --------------------------------
(***************************************************************************)
(* The front door: lock, two buttons with a LED each, and the bell, which  *)
(* is the buzzer of the column.                                            *)
(***************************************************************************)
EXTENDS Column

NewDoor ==
    [Status |-> "CONNECTED", DOOR_LED_INSIDE_ON |-> FALSE, DOOR_LED_OUTSIDE_ON |-> FALSE,
     DOOR_DOOR_OPEN |-> FALSE, DOOR_DOOR_LOCKED |-> FALSE]

IsOpen(t) == t.object["Door"].DOOR_DOOR_OPEN
IsLocked(t) == t.object["Door"].DOOR_DOOR_LOCKED

(* Variant: the lock is not looked at.                                     *)
OpenDoorLocked(t, open) == PutOnBoth(t, "Door", "DOOR_DOOR_OPEN", open)

(* Variant: the website is not told that the door stays as it is.          *)
OpenDoorSilently(t, open) ==
    IF IsLocked(t) /\ open THEN t ELSE PutOnBoth(t, "Door", "DOOR_DOOR_OPEN", open)

(* A locked door does not open, and the website's switch is put back.      *)
OpenDoor(t, open) ==
    IF IsLocked(t) /\ open THEN ToWebsite(t, "Door", "DOOR_DOOR_OPEN", IsOpen(t))
    ELSE PutOnBoth(t, "Door", "DOOR_DOOR_OPEN", open)

LockDoor(t, lock) == PutOnWebsite(t, "Door", "DOOR_DOOR_LOCKED", lock)

TurnLedInsideOn(t, on) == PutOnDevice(t, "Door", "DOOR_LED_INSIDE_ON", on)

TurnLedOutsideOn(t, on) == PutOnDevice(t, "Door", "DOOR_LED_OUTSIDE_ON", on)

Ring(t, on) == IF HasObject(t, "Column") THEN ColumnTurnBuzzerOn(t, on) ELSE t

ButtonInsideWasPressed(t, pressed) ==
    CASE pressed /\ ~IsOpen(t) /\ ~IsLocked(t) -> TurnLedInsideOn(OpenDoor(t, TRUE), TRUE)
      [] pressed /\ IsOpen(t) -> TurnLedInsideOn(OpenDoor(t, FALSE), FALSE)
      [] pressed /\ ~IsOpen(t) /\ IsLocked(t) -> TurnLedInsideOn(t, TRUE)
      [] ~pressed /\ IsLocked(t) -> TurnLedInsideOn(t, FALSE)
      [] OTHER -> t

ButtonOutsideWasPressed(t, pressed) ==
    CASE pressed /\ IsOpen(t) -> TurnLedOutsideOn(OpenDoor(t, FALSE), FALSE)
      [] pressed /\ ~IsOpen(t) /\ IsLocked(t) -> Ring(TurnLedOutsideOn(t, FALSE), TRUE)
      [] pressed /\ ~IsOpen(t) /\ ~IsLocked(t) -> TurnLedOutsideOn(OpenDoor(t, TRUE), TRUE)
      [] ~pressed -> Ring(t, FALSE)

DoorHandleMessage(t, m) ==
    CASE m.command = "DEVICE_INFO" ->
            UpdateWebsite(Learn(t, "Door",
                {"DOOR_LED_INSIDE_ON", "DOOR_LED_OUTSIDE_ON", "DOOR_DOOR_OPEN"}, m.value))
      [] m.command = "DOOR_BUTTON_INSIDE_PRESSED" -> ButtonInsideWasPressed(t, m.value)
      [] m.command = "DOOR_BUTTON_OUTSIDE_PRESSED" -> ButtonOutsideWasPressed(t, m.value)
      [] m.command = "DOOR_DOOR_OPEN" -> OpenDoor(t, m.value)
      [] m.command = "DOOR_DOOR_LOCKED" -> LockDoor(t, m.value)
      [] m.command = "DOOR_DOORBELL_PRESSED" -> Ring(t, m.value)
      [] m.command = "HEARTBEAT" -> NewStatus(t, "Door", m.value)
      [] OTHER -> t

=============================================================================
