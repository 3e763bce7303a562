--------------------------- MODULE MCPlantControl ---------------------------
(***************************************************************************)
(* One drive that ramps by 3 with a deadband of 1, so that one setpoint is *)
(* within the deadband of rest and others are not reached exactly;         *)
(* setpoints on both sides of the ambient temperature, near enough for the *)
(* heater to end above one and far enough for it to be at more than 20 %,  *)
(* the highest beyond the alarm limit; setpoints that leave the pump off   *)
(* and some that do not.  A behaviour sets one of the three tags, the      *)
(* others stay at rest.                                                    *)
(***************************************************************************)
EXTENDS PlantControl, TLC

CONSTANT agitator

MCDrive == {agitator}
MCSettings == (agitator :> {0, 1, 4, 8}) @@ (Temperature :> {1, 4, 6, 9}) @@ (Vacuum :> {-7, -4, -1, 1})
MCRamp == agitator :> 3
MCDeadband == agitator :> 1
MCPumpBelow == -2
MCReading == {3, 8}
MCTogether == {{agitator}, {Temperature}, {Vacuum}}
=============================================================================
