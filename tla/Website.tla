------------------------------- MODULE Website -------------------------------
(***************************************************************************)
(* The objects of the household together: how main makes one, and how a    *)
(* message finds the class that handles it, directly or forwarded by the   *)
(* website's object.                                                       *)
(***************************************************************************)
EXTENDS Door, Wall, Fridge, Furniture

Device ==
    {"Bed", "Chair", "Column", "Door", "Fridge", "Lamp", "SimulatedDevice", "Wall", "WIB"}

NewObject ==
    [Bed |-> NewBed, Chair |-> NewChair, Column |-> NewColumn, Door |-> NewDoor,
     Fridge |-> NewFridge, Lamp |-> NewLamp, SimulatedDevice |-> NewSimulatedDevice,
     Wall |-> NewWall, WIB |-> NewWIB, Website |-> [Status |-> "CONNECTED"]]

(* The constructor asks the device for its state; a website's sends it all *)
(* there is.  An object that exists already stays as it is.                *)
Register(t, c) ==
    LET greeted == IF c = "Website" THEN Update(t) ELSE ToDevice(t, c, "DEVICE_INFO", "")
    IN  [greeted EXCEPT !.object =
            [d \in DOMAIN @ \cup {c} |-> IF d \in DOMAIN @ THEN @[d] ELSE NewObject[d]]]

DeviceHandleMessage(t, d, m) ==
    CASE d = "Bed"             -> BedHandleMessage(t, m)
      [] d = "Chair"           -> ChairHandleMessage(t, m)
      [] d = "Column"          -> ColumnHandleMessage(t, m)
      [] d = "Door"            -> DoorHandleMessage(t, m)
      [] d = "Fridge"          -> FridgeHandleMessage(t, m)
      [] d = "Lamp"            -> LampHandleMessage(t, m)
      [] d = "SimulatedDevice" -> SimulatedHandleMessage(t, m)
      [] d = "Wall"            -> WallHandleMessage(t, m)
      [] d = "WIB"             -> WIBHandleMessage(t, m)

(* Forwarding to a device without an object ends the server (see           *)
(* MainThread, ForwardToNobody); ForwardsFindObjects excludes it here.     *)
WebsiteHandleMessage(t, m) ==
    CASE m.command = "WEBSITE_UPDATE" -> Update(t)
      [] m.command = "WEBSITE_FORWARD" -> DeviceHandleMessage(t, m.value.type, m.value)
      [] OTHER -> t

HandleMessage(t, c, m) ==
    CASE m.command = "REGISTRATION" -> Register(t, c)
      [] m.command # "REGISTRATION" /\ c = "Website" -> WebsiteHandleMessage(t, m)
      [] m.command # "REGISTRATION" /\ c # "Website" -> DeviceHandleMessage(t, c, m)

=============================================================================
