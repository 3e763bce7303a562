-------------------------- MODULE DeltaRegisterMap --------------------------
(***************************************************************************)
(* The register map of the PLC (scada/modbus/delta_map.py): how a recipe   *)
(* step becomes the setpoint registers D50-D59 and how the telemetry       *)
(* registers D0-D19 and the coils from M32 on become tags.                 *)
(*                                                                         *)
(* A step is a record with some of the keys of Default; its speeds,        *)
(* temperatures and pressures count hundredths of their unit, and what the *)
(* code computes in floating point is computed exactly.  The bit mask D56  *)
(* is the set of its bits.                                                 *)
(***************************************************************************)
EXTENDS Integers

Word == 65536
Half == 32768

ToSigned16(val) == IF val % Word >= Half THEN (val % Word) - Word ELSE val % Word

ToUnsigned16(val) == val % Word

\* int(round(v)) for v = n / d: the nearest integer, the even one of two.
Rounded(n, d) ==
  LET q == n \div d
      r == n % d
  IN  IF 2 * r < d \/ (2 * r = d /\ q % 2 = 0) THEN q ELSE q + 1

(***************************************************************************)
(* pack_step_setpoints()                                                   *)
(***************************************************************************)

Default ==
  [durationMin |-> 0, durationSec |-> 0,
   agitatorSpeed |-> 0, homogenizerSpeed |-> 0,
   runAgitatorCoActive |-> FALSE, coActiveAgitatorSpeed |-> 3500,
   targetTemp |-> 2500, tempGradient |-> 1200, targetVacuum |-> 0,
   homoPulseOnSec |-> 30, homoPulseOffSec |-> 10,
   agitatorMode |-> "agitator_cw", homogenizerMode |-> "homo_permanent",
   thermalMode |-> "heat_mode_heating", vacuumMode |-> "vac_auto_drawdown"]

\* Each key of the step, or its default.
Full(step) ==
  [key \in DOMAIN Default |-> IF key \in DOMAIN step THEN step[key] ELSE Default[key]]

Seconds(s) == 60 * s.durationMin + s.durationSec

\* Mutant: the co-active speed overrides the agitator's own.
AgitatorSetpointMut(s) ==
  Rounded(IF s.runAgitatorCoActive THEN s.coActiveAgitatorSpeed ELSE s.agitatorSpeed, 100)

AgitatorSetpoint(s) ==
  LET own == Rounded(s.agitatorSpeed, 100)
  IN  IF s.runAgitatorCoActive /\ own = 0 THEN Rounded(s.coActiveAgitatorSpeed, 100) ELSE own

\* Bits 0-8 of D56.  A mode the code does not know falls into the last case.
ModeBits(s) ==
  {CASE s.agitatorMode = "agitator_ccw" -> 1
     [] s.agitatorMode = "agitator_rev" -> 2
     [] OTHER -> 0,
   IF s.homogenizerMode = "homo_pulse" THEN 4 ELSE 3,
   IF s.thermalMode = "heat_mode_cooling" THEN 6 ELSE 5,
   IF s.vacuumMode = "vac_vent_atm" THEN 8 ELSE 7}

\* D50-D59.
Pack(step, index) ==
  LET s == Full(step) IN
  [agitator    |-> ToUnsigned16(AgitatorSetpoint(s)),
   homogenizer |-> ToUnsigned16(Rounded(s.homogenizerSpeed, 100)),
   temperature |-> ToUnsigned16(Rounded(s.targetTemp, 10)),
   ramp        |-> ToUnsigned16(Rounded(s.tempGradient, 10)),
   vacuum      |-> ToUnsigned16(Rounded(s.targetVacuum, 10)),
   seconds     |-> ToUnsigned16(Seconds(s)),
   modes       |-> ModeBits(s),
   pulseOn     |-> ToUnsigned16(s.homoPulseOnSec),
   pulseOff    |-> ToUnsigned16(s.homoPulseOffSec),
   index       |-> ToUnsigned16(index)]

(***************************************************************************)
(* What the PLC takes from the registers (the comments of the map): the    *)
(* vacuum is signed, every other register is not.                          *)
(***************************************************************************)

\* The register count is the setpoint, n / d, to the nearest unit.
Near(count, n, d) == 2 * (d * count - n) \in -d..d

\* The identifiers pack_step_setpoints() tells apart.
Known(s) ==
  /\ s.agitatorMode \in {"agitator_cw", "agitator_ccw", "agitator_rev"}
  /\ s.homogenizerMode \in {"homo_permanent", "homo_pulse"}
  /\ s.thermalMode \in {"heat_mode_heating", "heat_mode_cooling"}
  /\ s.vacuumMode \in {"vac_auto_drawdown", "vac_vent_atm"}

\* The step is within the range of its registers.
Fits(step, index) ==
  LET s == Full(step) IN
  /\ {s.agitatorSpeed, s.coActiveAgitatorSpeed, s.homogenizerSpeed} \subseteq 0..(100 * (Word - 1))
  /\ {s.targetTemp, s.tempGradient} \subseteq 0..(10 * (Word - 1))
  /\ s.targetVacuum \in (-10 * Half)..(10 * (Half - 1))
  /\ {Seconds(s), s.homoPulseOnSec, s.homoPulseOffSec, index} \subseteq 0..(Word - 1)
  /\ Known(s)

\* The registers tell the PLC what the step asks for.
Tells(regs, step, index) ==
  LET s == Full(step)
      bit(n, on) == (n \in regs.modes) = on
  IN
  /\ \/ Near(regs.agitator, s.agitatorSpeed, 100) /\ ~(s.runAgitatorCoActive /\ s.agitatorSpeed = 0)
     \/ Near(regs.agitator, s.coActiveAgitatorSpeed, 100) /\ s.runAgitatorCoActive /\ Near(0, s.agitatorSpeed, 100)
  /\ Near(regs.homogenizer, s.homogenizerSpeed, 100)
  /\ Near(regs.temperature, s.targetTemp, 10)
  /\ Near(regs.ramp, s.tempGradient, 10)
  /\ Near(ToSigned16(regs.vacuum), s.targetVacuum, 10)
  /\ <<regs.seconds, regs.pulseOn, regs.pulseOff, regs.index>>
       = <<Seconds(s), s.homoPulseOnSec, s.homoPulseOffSec, index>>
  /\ bit(0, s.agitatorMode = "agitator_cw") /\ bit(1, s.agitatorMode = "agitator_ccw")
  /\ bit(2, s.agitatorMode = "agitator_rev")
  /\ bit(3, s.homogenizerMode = "homo_permanent") /\ bit(4, s.homogenizerMode = "homo_pulse")
  /\ bit(5, s.thermalMode = "heat_mode_heating") /\ bit(6, s.thermalMode = "heat_mode_cooling")
  /\ bit(7, s.vacuumMode = "vac_auto_drawdown") /\ bit(8, s.vacuumMode = "vac_vent_atm")

(***************************************************************************)
(* unpack_telemetry_registers(), on the registers and coils a poll read:   *)
(* functions from the offsets that arrived.                                *)
(***************************************************************************)
Unpack(regs, coils) ==
  LET reg(idx) == IF idx \in DOMAIN regs THEN regs[idx] ELSE 0
      coil(offset) == offset \in DOMAIN coils /\ coils[offset]
  IN
  [speeds   |-> [agitator |-> reg(0), homogenizer |-> reg(1)],
   tenths   |-> [temperature |-> ToSigned16(reg(2)), jacket |-> ToSigned16(reg(3)),
                 vacuum |-> ToSigned16(reg(4)), level |-> reg(5),
                 agitatorCurrent |-> reg(10), homogenizerCurrent |-> reg(11),
                 agitatorPower |-> reg(12), homogenizerPower |-> reg(13)],
   status   |-> [running |-> coil(0), stepRunning |-> coil(1), stepDone |-> coil(2), held |-> coil(3)],
   interlock |-> [sealFlush |-> coil(8), minLevel |-> coil(9),
                  agitatorHeating |-> coil(10), hatchClosed |-> coil(11)]]
=============================================================================
