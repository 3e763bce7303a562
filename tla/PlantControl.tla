---------------------------- MODULE PlantControl ----------------------------
(***************************************************************************)
(* Setpoints and readings: setProcessSetpoint(), _on_modbus_telemetry()    *)
(* and _on_tick() of scada/controller.py over the plant simulator of       *)
(* scada/simulation.py.                                                    *)
(*                                                                         *)
(* All of them run on the Qt thread, so each is a step.  Speeds,           *)
(* temperatures and pressures are counted in units that make every rate    *)
(* and setpoint a whole number; the rates are constants, in units a tick:  *)
(*  - a drive ramps by 1.5 rpm (agitator) or 75 rpm (homogenizer), not     *)
(*    past its setpoint, and not at all within 0.1 or 1.0 rpm of it;       *)
(*  - a heated product gains 0.045 degrees up to 4 degrees below its       *)
(*    setpoint and up to 0.225 farther away, and may end above it;         *)
(*  - the jacket takes 0.175 degrees, and not past the setpoint; the       *)
(*    ambient air 0.25 % of the difference, at most Loss;                  *)
(*  - the vacuum is 0 at the -5 mbar of the vented vessel, the pump draws  *)
(*    4.25 mbar and the vent lets in 7.5, neither past its end.            *)
(* Of the telemetry only the product temperature is kept: it is the one    *)
(* simulated value that reaches an alarm limit.  Filling and draining are  *)
(* left out: nothing sets is_filling or is_draining.                       *)
(***************************************************************************)
EXTENDS Integers

CONSTANTS
  Drive,      \* "vpu.main.agitator_speed", "vpu.main.homogenizer_speed"
  Settings,   \* the values of each tag that setProcessSetpoint() accepts
  Ramp,       \* what each drive gains or loses
  Deadband,   \* the difference within which a drive does not move
  LeastGain,  \* what a heated product gains at the heater's 20 %
  MostGain,   \* and at its 100 %
  Close,      \* how far below its setpoint the heater is at 20 %
  Chill,      \* what the jacket takes
  Loss,       \* the most the ambient air takes or gives
  Ambient,    \* 24.5 degrees, where the product starts
  First,      \* 25 degrees, the setpoint it starts with
  Draw,       \* what the pump draws
  Vent,       \* what the vent lets in
  PumpBelow,  \* the pump is switched on by setpoints below -20 mbar
  High,       \* the alarm_high limit of the temperature tag
  Reading,    \* temperatures the PLC may report
  Together    \* bound of the model: sets of tags set in one behaviour (the loops
              \* share no state, so they need not all be moved at once)

Temperature == "vpu.main.temperature"
Vacuum == "vpu.main.vacuum_pressure"
Tag == Drive \cup {Temperature, Vacuum}

ASSUME TagAssumption ==
  /\ {Temperature, Vacuum} \cap Drive = {}
  /\ Settings \in [Tag -> SUBSET Int]
  /\ Reading \subseteq Int /\ High \in Int
  /\ Together \subseteq SUBSET Tag

ASSUME RateAssumption ==
  /\ Ramp \in [Drive -> Nat \ {0}] /\ Deadband \in [Drive -> Nat]
  /\ {LeastGain, MostGain, Chill, Draw, Vent} \subseteq Nat \ {0} /\ {Loss, Close} \subseteq Nat
  /\ LeastGain <= MostGain /\ MostGain <= Close
  /\ {Ambient, First, PumpBelow} \subseteq Int

VARIABLES
  operated,   \* the tags set in this behaviour
  mayDrive,   \* does the role of the session hold the permission of the drives?
  value,      \* the simulated value of each tag
  target,     \* target_...
  heating, cooling, vacuumOn, \* is_heating, is_cooling, is_vacuum_on
  shown,      \* the temperature in _telemetry
  fromPlc,    \* history: did the PLC send it?
  alarmed,    \* has evaluate_telemetry() found the temperature beyond its limit?
  after,      \* the after value of the last SETPOINT_MODIFIED event of each tag
  unaudited,  \* history: tags whose last audit append raised, or never set
  lowest,     \* history: the lowest and the highest of the rest of each loop and
  highest,    \* of all setpoints it was given
  reached     \* history: has the product reached the temperature setpoint since it was set?

plantVars == <<value, target, heating, cooling, vacuumOn>>
historyVars == <<lowest, highest, reached>>
vars == <<operated, mayDrive, plantVars, shown, fromPlc, alarmed, after, unaudited, historyVars>>

\* Where a loop stands before it is ever set.
Rest(tag) == IF tag = Temperature THEN Ambient ELSE 0

\* The setpoint it stands with.
Initially(tag) == IF tag = Temperature THEN First ELSE 0

Followed(tag) == Settings[tag] \cup {Initially(tag)}

TypeOK ==
  /\ operated \in Together
  /\ {value, lowest, highest} \subseteq [Tag -> Int]
  /\ target \in [Tag -> Int] /\ \A tag \in Tag : target[tag] \in Followed(tag)
  /\ after \in [Tag -> Int] /\ \A tag \in Tag : after[tag] \in Followed(tag)
  /\ shown \in Int
  /\ {mayDrive, heating, cooling, vacuumOn, fromPlc, alarmed, reached} \subseteq BOOLEAN
  /\ unaudited \subseteq Tag

Init ==
  /\ operated \in Together
  /\ mayDrive = FALSE
  /\ value = [tag \in Tag |-> Rest(tag)]
  /\ target = [tag \in Tag |-> Initially(tag)]
  /\ heating = FALSE /\ cooling = FALSE /\ vacuumOn = FALSE
  /\ shown = Ambient /\ fromPlc = FALSE
  /\ alarmed = FALSE
  /\ after = target
  /\ unaudited = Tag
  /\ lowest = value /\ highest = value
  /\ reached = FALSE

\* loginUser() with a role that has, or has not, the permission.
Login ==
  /\ mayDrive' = ~mayDrive
  /\ UNCHANGED <<operated, plantVars, shown, fromPlc, alarmed, after, unaudited, historyVars>>

(***************************************************************************)
(* setProcessSetpoint() with a value in the range of the tag; any other    *)
(* raises before anything has changed.                                     *)
(***************************************************************************)

\* is_heating and is_cooling compare the setpoint with the product.
Direct(v) ==
  /\ heating' = (v > value[Temperature])
  /\ cooling' = (v < value[Temperature])

SetTarget(tag, v) ==
  /\ tag \in operated
  /\ tag \in Drive => mayDrive
  /\ target' = [target EXCEPT ![tag] = v]
  /\ IF tag = Temperature
       THEN Direct(v) /\ shown' = v /\ fromPlc' = FALSE /\ reached' = FALSE
       ELSE UNCHANGED <<heating, cooling, shown, fromPlc, reached>>
  /\ vacuumOn' = IF tag = Vacuum THEN v < PumpBelow ELSE vacuumOn
  /\ lowest' = [lowest EXCEPT ![tag] = IF v < @ THEN v ELSE @]
  /\ highest' = [highest EXCEPT ![tag] = IF v > @ THEN v ELSE @]
  /\ UNCHANGED <<operated, mayDrive, value, alarmed>>

\* Mutants: the event tells the value the loop has, or the setpoint before.
SetProcessSetpointReadMut(tag, v) ==
  /\ SetTarget(tag, v)
  /\ after' = [after EXCEPT ![tag] = value[tag]]
  /\ unaudited' = unaudited \ {tag}

SetProcessSetpointMut(tag, v) ==
  /\ SetTarget(tag, v)
  /\ after' = [after EXCEPT ![tag] = target[tag]]
  /\ unaudited' = unaudited \ {tag}

SetProcessSetpoint(tag, v) ==
  /\ SetTarget(tag, v)
  /\ after' = [after EXCEPT ![tag] = v]
  /\ unaudited' = unaudited \ {tag}

\* The append to the audit trail raises: the plant follows all the same.
SetProcessSetpointRaises(tag, v) ==
  /\ SetTarget(tag, v)
  /\ unaudited' = unaudited \cup {tag}
  /\ UNCHANGED after

\* _on_modbus_telemetry(): the PLC's readings replace the shown ones.
PlcTelemetry ==
  /\ shown' \in Reading
  /\ fromPlc' = TRUE
  /\ UNCHANGED <<operated, mayDrive, plantVars, alarmed, after, unaudited, historyVars>>

(***************************************************************************)
(* PlantSimulator.step(): what each loop may be after one tick             *)
(***************************************************************************)

\* From x towards g by s, and not past it: min() and max() in step().
Approach(x, g, s) ==
  IF x < g THEN (IF x + s < g THEN x + s ELSE g)
           ELSE (IF g < x - s THEN x - s ELSE g)

Distance(x, g) == IF x < g THEN g - x ELSE x - g

\* Drive d, which stays where it is within its deadband.
Towards(d, x, g) == IF Distance(x, g) > Deadband[d] THEN Approach(x, g, Ramp[d]) ELSE x

\* What a tick of the heater adds, at a distance from the setpoint.
Gain(distance) == IF distance > Close THEN LeastGain..MostGain ELSE {LeastGain}

\* Mutants: the heater is on at the setpoint too; whatever was decided.
HeatedMut(t) ==
  IF heating /\ t <= target[Temperature] THEN {t + g : g \in Gain(target[Temperature] - t)} ELSE {}
HeatedAnywayMut(t) ==
  IF t < target[Temperature] THEN {t + g : g \in Gain(target[Temperature] - t)} ELSE {}

\* The heater is on below the setpoint, and nothing holds its last tick back.
Heated(t) ==
  IF heating /\ t < target[Temperature] THEN {t + g : g \in Gain(target[Temperature] - t)} ELSE {}

\* The jacket cools the product above the setpoint, and not below it.
Cooled(t) ==
  IF cooling /\ t > target[Temperature] THEN {Approach(t, target[Temperature], Chill)} ELSE {}

\* Mutant: the loss to the ambient air counts in every branch.
DriftedMut(t) == {Approach(t, Ambient, l) : l \in 0..Loss}

\* Otherwise the product drifts to the ambient temperature.
Drifted(t) ==
  IF (heating /\ t < target[Temperature]) \/ (cooling /\ t > target[Temperature])
    THEN {}
    ELSE {Approach(t, Ambient, l) : l \in 0..Loss}

TemperatureAfter == LET t == value[Temperature] IN Heated(t) \cup Cooled(t) \cup Drifted(t)

\* The pump draws down to the setpoint; switched off, the vessel vents to rest.
VacuumAfter ==
  LET p == value[Vacuum] IN
  CASE vacuumOn /\ p > target[Vacuum] -> Approach(p, target[Vacuum], Draw)
    [] ~vacuumOn /\ p < 0 -> Approach(p, 0, Vent)
    [] OTHER -> p

\* evaluate_telemetry() of the values the simulator has just returned.
Evaluated == alarmed' = (alarmed \/ shown' >= High)

\* Mutant: the simulator is not stepped while the PLC's values come in.
StepMut ==
  \E t \in TemperatureAfter :
    value' = IF fromPlc THEN value
             ELSE [tag \in Tag |-> IF tag = Temperature THEN t
                                   ELSE IF tag = Vacuum THEN VacuumAfter
                                   ELSE Towards(tag, value[tag], target[tag])]

Step ==
  \E t \in TemperatureAfter :
    value' = [tag \in Tag |-> IF tag = Temperature THEN t
                              ELSE IF tag = Vacuum THEN VacuumAfter
                              ELSE Towards(tag, value[tag], target[tag])]

\* _on_tick(): what an append or the historian raises is raised after this.
Tick ==
  /\ Step
  /\ shown' = value'[Temperature]
  /\ fromPlc' = FALSE
  /\ Evaluated
  /\ reached' = (reached \/ value'[Temperature] >= target[Temperature])
  /\ UNCHANGED <<operated, mayDrive, target, heating, cooling, vacuumOn, after, unaudited, lowest, highest>>

-----------------------------------------------------------------------------

Next ==
  \/ Login
  \/ \E tag \in Tag : \E v \in Settings[tag] :
       SetProcessSetpoint(tag, v) \/ SetProcessSetpointRaises(tag, v)
  \/ PlcTelemetry
  \/ Tick

Spec == Init /\ [][Next]_vars

\* The 500 ms timer keeps firing.  Nothing is assumed of the users or of the PLC.
FairSpec == Spec /\ WF_vars(Tick)

(***************************************************************************)
(* Properties                                                              *)
(***************************************************************************)

\* Unless its last append raised, the last audit event about a tag tells the
\* setpoint the plant follows, however readings and ticks come in between.
TargetIsAudited == \A tag \in Tag \ unaudited : after[tag] = target[tag]

\* How far a loop may go past its setpoints: less than a tick of the heater.
Overshoot(tag) == IF tag = Temperature THEN LeastGain - 1 ELSE 0

\* Whatever sequence of setpoints it is given, no loop leaves the range of its
\* setpoints and its rest position, but for a heated product, which may end
\* above it by less than what the heater adds in a tick at 20 %; and the vessel
\* is never above the pressure it has when vented: no vacuum alarm can come
\* from the simulator.
WithinSetpoints ==
  /\ \A tag \in Tag : lowest[tag] <= value[tag] /\ value[tag] <= highest[tag] + Overshoot(tag)
  /\ value[Vacuum] <= 0

\* A product that was heated to its setpoint stays there: it cools down by no
\* more than the air takes in a tick before it is heated again, until the next
\* setpoint.
HeatedProductIsHeld ==
  heating /\ reached => value[Temperature] >= target[Temperature] - Loss

\* A product below a setpoint above the ambient temperature, with the heater
\* off: one that was cooled to its setpoint and has drifted below it, or one
\* that was never given a setpoint.
Chilled ==
  ~heating /\ value[Temperature] < target[Temperature] /\ Ambient < target[Temperature]

\* Such a product is not brought to its setpoint by anything but the next
\* temperature setpoint: the direction was decided when the last one was set,
\* and neither ticks nor readings of the PLC decide it again.
ChilledStaysChilled ==
  [][Chilled /\ ~(\E v \in Settings[Temperature] : SetTarget(Temperature, v)) => Chilled']_vars

\* A drive comes as near to its setpoint as its deadband, a product that is
\* heated gets as warm and one that is cooled as cold as its setpoint, the pump
\* draws the vacuum asked for and a vessel that is vented comes to rest, unless
\* a new setpoint comes first.
SetpointsAreReached ==
  /\ \A d \in Drive : \A v \in Settings[d] :
       target[d] = v ~> (Distance(value[d], v) <= Deadband[d] \/ target[d] # v)
  /\ \A v \in Settings[Temperature] :
       /\ (heating /\ target[Temperature] = v) ~> (value[Temperature] >= v \/ target[Temperature] # v)
       /\ (cooling /\ target[Temperature] = v) ~> (value[Temperature] <= v \/ target[Temperature] # v)
  /\ \A v \in Settings[Vacuum] :
       (vacuumOn /\ target[Vacuum] = v) ~> (value[Vacuum] <= v \/ target[Vacuum] # v)
  /\ ~vacuumOn ~> (value[Vacuum] = 0 \/ vacuumOn)

\* What ARCHITECTURE.md says of the hardware layer, a "PLC adapter ... with
\* fallback to" the simulator: a tick that follows readings of the PLC
\* evaluates the alarms on them.
PlcIsEvaluated == [][Tick /\ fromPlc /\ shown >= High => alarmed']_vars
=============================================================================
