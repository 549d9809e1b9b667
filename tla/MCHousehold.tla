----------------------------- MODULE MCHousehold -----------------------------
(***************************************************************************)
(* Instances of Household for TLC: devices that drive each other together, *)
(* the others alone, with two values of each level and sensor.             *)
(***************************************************************************)
EXTENDS Household

H(devices, inputs, faults) ==
    [devices |-> devices, inputs |-> inputs, faults |-> faults]

Alone == {"Fridge", "Bed", "Chair", "SimulatedDevice", "WIB"}
AllHomes ==
    {H({"Door", "Column"}, 2, 0), H({"Wall", "Lamp"}, 2, 0)}
        \cup {H({d}, 1, 1) : d \in Device} \cup {H({d}, 2, 0) : d \in Alone}
ColumnHome == {H({"Column"}, 2, 0)}
WIBHome == {H({"WIB"}, 1, 1)}

Answers(on, level, raw) ==
    [Bed    |-> [BED_LED_ON |-> on, BED_PRESSURE_SENSOR_VALUE |-> level],
     Chair  |-> [CHAIR_LED_ON |-> on, CHAIR_VIBRATOR_ON |-> on,
                 CHAIR_PRESSURE_SENSOR_VALUE |-> level],
     Column |-> [COLUMN_LED_ON |-> on, COLUMN_BUZZER_ON |-> on,
                 COLUMN_SMOKE_SENSOR_VALUE |-> level],
     Door   |-> [DOOR_LED_INSIDE_ON |-> on, DOOR_LED_OUTSIDE_ON |-> on, DOOR_DOOR_OPEN |-> on],
     Fridge |-> [FRIDGE_DOOR_CLOSED |-> on, FRIDGE_FAN_ON |-> on, FRIDGE_COOLER_ON |-> on,
                 FRIDGE_RAW_TEMPERATURE_SENSOR_INSIDE_VALUE |-> raw],
     Lamp   |-> [LAMP_MOVEMENT_DETECTED |-> on, LAMP_LED_VALUE |-> level],
     SimulatedDevice |->
                [SIMULATED_LED1_VALUE |-> level, SIMULATED_LED2_VALUE |-> 0,
                 SIMULATED_LED3_VALUE |-> level],
     Wall   |-> [WALL_CURTAIN_OPEN |-> on, WALL_DIMMER_VALUE |-> level,
                 WALL_LDR_VALUE |-> level, WALL_LEDSTRIP_VALUE |-> 0],
     WIB    |-> [WIB_SWITCH_ON |-> on, WIB_LED_ON |-> on, WIB_DIMMER_VALUE |-> level]]

Off == Answers(FALSE, 0, 487)
On == Answers(TRUE, 300, 477)

Readings ==
    [Bed    |-> [BED_BUTTON_PRESSED |-> BOOLEAN, BED_PRESSURE_SENSOR_VALUE |-> {300}],
     Chair  |-> [CHAIR_BUTTON_PRESSED |-> BOOLEAN, CHAIR_PRESSURE_SENSOR_VALUE |-> {300}],
     Column |-> [COLUMN_BUTTON_PRESSED |-> {TRUE}, COLUMN_SMOKE_SENSOR_VALUE |-> {300}],
     Door   |-> [DOOR_BUTTON_INSIDE_PRESSED |-> BOOLEAN,
                 DOOR_BUTTON_OUTSIDE_PRESSED |-> BOOLEAN],
     Fridge |-> [FRIDGE_DOOR_CLOSED |-> BOOLEAN,
                 FRIDGE_RAW_TEMPERATURE_SENSOR_INSIDE_VALUE |-> DOMAIN Celsius],
     Lamp   |-> [LAMP_MOVEMENT_DETECTED |-> BOOLEAN],
     SimulatedDevice |->
                [SIMULATED_BUTTON1_PRESSED |-> {TRUE}, SIMULATED_BUTTON2_PRESSED |-> {TRUE},
                 SIMULATED_DIMMER_VALUE |-> {1, 2}],
     Wall   |-> [WALL_DIMMER_VALUE |-> {0, 1}, WALL_LDR_VALUE |-> {1}],
     WIB    |-> [WIB_SWITCH_ON |-> BOOLEAN, WIB_DIMMER_VALUE |-> {1}]]

Settings ==
    [Bed    |-> [BED_LED_ON |-> BOOLEAN],
     Chair  |-> [CHAIR_VIBRATOR_ON |-> BOOLEAN],
     Column |-> [COLUMN_LED_ON |-> BOOLEAN, COLUMN_SMOKE_TRESHOLD_VALUE |-> {255}],
     Door   |-> [DOOR_DOOR_OPEN |-> BOOLEAN, DOOR_DOOR_LOCKED |-> BOOLEAN,
                 DOOR_DOORBELL_PRESSED |-> BOOLEAN],
     Fridge |-> [FRIDGE_REQUESTED_FRIDGE_TEMPERATURE |-> {18, 20}],
     Lamp   |-> [LAMP_LED_ON |-> BOOLEAN, LAMP_LED_VALUE |-> {1}],
     SimulatedDevice |-> [SIMULATED_LED1_VALUE |-> {1}, SIMULATED_LED2_VALUE |-> {1},
                          SIMULATED_LED3_VALUE |-> {1}],
     Wall   |-> [WALL_CURTAIN_OPEN |-> BOOLEAN, WALL_LEDSTRIP_ON |-> BOOLEAN,
                 WALL_LAMP_ON |-> BOOLEAN, WALL_LEDSTRIP_VALUE |-> {1}],
     WIB    |-> [WIB_LED_ON |-> BOOLEAN]]

=============================================================================
