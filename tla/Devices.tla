------------------------------- MODULE Devices -------------------------------
(***************************************************************************)
(* What the device classes share.  HandleMessage runs to its end in main,  *)
(* so a method is an operator from a turn to a turn: the objects with      *)
(* their fields, and the messages sent so far.  There is one device of     *)
(* each type, and its type names it; a field is named as GetDeviceInfo and *)
(* the commands name it.                                                   *)
(***************************************************************************)
EXTENDS Integers, Sequences, TLC

Turn(object) == [object |-> object, sent |-> <<>>]

HasObject(t, d) == d \in DOMAIN t.object

Put(t, d, field, value) == [t EXCEPT !.object[d][field] = value]

(* A message to a client, about the device of a type.                      *)
Send(t, to, type, command, value) ==
    [t EXCEPT !.sent = Append(@,
        [to |-> to, type |-> type, command |-> command, value |-> value])]

ToDevice(t, d, command, value) == Send(t, d, d, command, value)

ToWebsite(t, d, command, value) ==
    IF HasObject(t, "Website") THEN Send(t, "Website", d, command, value) ELSE t

(* The three shapes of a setter: the field is set and the new value sent   *)
(* to the device, to the website, or to both.                              *)
PutOnDevice(t, d, field, value) ==
    ToDevice(Put(t, d, field, value), d, field, value)

PutOnWebsite(t, d, field, value) ==
    ToWebsite(Put(t, d, field, value), d, field, value)

PutOnBoth(t, d, field, value) ==
    ToWebsite(PutOnDevice(t, d, field, value), d, field, value)

(* The website gets the information of every object.                       *)
Update(t) == Send(t, "Website", "Website", "WEBSITE_UPDATE", t.object)

UpdateWebsite(t) == IF HasObject(t, "Website") THEN Update(t) ELSE t

(* What the answer to DEVICE_INFO says of these fields.                    *)
Learn(t, d, fields, info) ==
    [t EXCEPT !.object[d] =
        [f \in DOMAIN @ |-> IF f \in fields THEN info[f] ELSE @[f]]]

(* A status report.                                                        *)
NewStatus(t, d, status) == UpdateWebsite(Put(t, d, "Status", status))

=============================================================================
