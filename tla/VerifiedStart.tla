---------------------------- MODULE VerifiedStart ----------------------------
(***************************************************************************)
(* What the read-back handshake promises of the PLC (the docstring of      *)
(* download_step_with_readback in scada/modbus/handshake.py): the setpoint *)
(* registers are verified before the step is started, so every step the    *)
(* PLC runs was read back intact after the registers were last written.    *)
(***************************************************************************)
CONSTANT NoStep  \* the PLC runs no step

VARIABLES
  registers,  \* the content of the setpoint registers
  checked,    \* has this content been verified since it was written?
  running     \* the content the PLC started with, or NoStep

Init == checked = FALSE /\ running = NoStep

Write  == checked' = FALSE /\ UNCHANGED running
Verify == checked' = TRUE /\ UNCHANGED <<registers, running>>
Start  == checked /\ running' = registers /\ UNCHANGED <<registers, checked>>
Stop   == running' = NoStep /\ UNCHANGED <<registers, checked>>

Next == Write \/ Verify \/ Start \/ Stop

Spec == Init /\ [][Next]_<<registers, checked, running>>
=============================================================================
