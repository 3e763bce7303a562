------------------------- MODULE PlantControlProofs -------------------------
(***************************************************************************)
(* Theorems about PlantControl for any drives, settings, rates, ambient    *)
(* temperature and alarm limit.  The inductive invariant is                *)
(*   LoopInv == TypeOK /\ TargetIsAsked /\ WithinSetpoints                 *)
(* : every tick moves a loop towards its setpoint or its rest, and not     *)
(* past it, but for the heater, whose last tick nothing holds back.  The   *)
(* audit and the held product need types only.  The last part says what a  *)
(* tick does to a loop that is not at its setpoint: it comes nearer,       *)
(* unless it is within its deadband or one of the two that the code leaves *)
(* behind (a chilled product, a vessel below its vacuum).                  *)
(***************************************************************************)
EXTENDS PlantControl, TLAPS

\* A loop follows a setpoint it was given or stands where it began; the first
\* setpoint of the product is followed by neither heater nor jacket.
TargetIsAsked ==
  \A tag \in Tag :
    /\ lowest[tag] <= Rest(tag) /\ Rest(tag) <= highest[tag]
    /\ \/ lowest[tag] <= target[tag] /\ target[tag] <= highest[tag]
       \/ tag = Temperature /\ ~heating /\ ~cooling

LoopInv == TypeOK /\ TargetIsAsked /\ WithinSetpoints

\* The tags are different and there are no others.
LEMMA TagFacts ==
  /\ Temperature \in Tag /\ Vacuum \in Tag /\ Temperature # Vacuum
  /\ \A tag \in Tag : tag \in Drive \/ tag = Temperature \/ tag = Vacuum
  /\ Temperature \notin Drive /\ Vacuum \notin Drive /\ Drive \subseteq Tag
  BY TagAssumption DEF Tag, Temperature, Vacuum

\* The rests, the first setpoints and the settings are numbers.
LEMMA SettingFacts ==
  /\ \A tag \in Tag : Rest(tag) \in Int /\ Initially(tag) \in Int /\ Followed(tag) \subseteq Int
  /\ \A tag \in Tag : Overshoot(tag) \in Nat
  /\ \A tag \in Tag : tag # Temperature => Rest(tag) = 0 /\ Initially(tag) = 0 /\ Overshoot(tag) = 0
  /\ Rest(Temperature) = Ambient /\ Overshoot(Temperature) = LeastGain - 1
  BY TagAssumption, RateAssumption DEF Rest, Initially, Followed, Overshoot

\* The rates are numbers.
LEMMA RateFacts ==
  /\ \A d \in Drive : Ramp[d] \in Nat /\ Ramp[d] > 0 /\ Deadband[d] \in Nat
  /\ LeastGain \in Nat /\ LeastGain > 0 /\ MostGain \in Nat /\ Close \in Nat /\ Loss \in Nat
  /\ LeastGain <= MostGain /\ MostGain <= Close
  /\ Chill \in Nat /\ Chill > 0 /\ Draw \in Nat /\ Draw > 0 /\ Vent \in Nat /\ Vent > 0
  /\ Ambient \in Int /\ First \in Int /\ PumpBelow \in Int
  BY RateAssumption

\* The loops count in integers.
LEMMA LoopNumbers ==
  ASSUME TypeOK
  PROVE  /\ \A tag \in Tag : /\ value[tag] \in Int /\ target[tag] \in Int
                             /\ lowest[tag] \in Int /\ highest[tag] \in Int
         /\ value[Temperature] \in Int /\ target[Temperature] \in Int
         /\ value[Vacuum] \in Int /\ target[Vacuum] \in Int
  BY TagFacts DEF TypeOK

-----------------------------------------------------------------------------
\* One tick of a loop.

\* min() and max(): a step towards g gets there or is whole, and comes nearer.
LEMMA ApproachFacts ==
  ASSUME NEW x \in Int, NEW g \in Int, NEW s \in Nat
  PROVE  /\ Approach(x, g, s) \in Int
         /\ x <= g => Approach(x, g, s) \in x..g
         /\ x >= g => Approach(x, g, s) \in g..x
         /\ Approach(x, g, s) \in (x - s)..(x + s)
         /\ Approach(x, g, s) = g \/ Distance(Approach(x, g, s), g) = Distance(x, g) - s
  BY DEF Approach, Distance

\* The distance of two numbers.
LEMMA DistanceFacts ==
  ASSUME NEW x \in Int, NEW g \in Int
  PROVE  Distance(x, g) \in Nat /\ (Distance(x, g) = 0 <=> x = g)
  BY DEF Distance

\* A drive stays between where it is and where it is going.
LEMMA DriveStep ==
  ASSUME NEW d \in Drive, NEW x \in Int, NEW g \in Int
  PROVE  /\ Towards(d, x, g) \in Int
         /\ Towards(d, x, g) \in x..g \/ Towards(d, x, g) \in g..x
<1>1. Ramp[d] \in Nat
  BY RateFacts
<1>2. Towards(d, x, g) = x \/ Towards(d, x, g) = Approach(x, g, Ramp[d])
  BY DEF Towards
<1>3. /\ Approach(x, g, Ramp[d]) \in Int
      /\ Approach(x, g, Ramp[d]) \in x..g \/ Approach(x, g, Ramp[d]) \in g..x
  BY <1>1 DEF Approach
<1>4. x \in x..g \/ x \in g..x
  OBVIOUS
<1> QED
  BY <1>2, <1>3, <1>4, Zenon

\* What a heated product gains.
LEMMA HeatedStep ==
  ASSUME NEW now \in Int, target[Temperature] \in Int, NEW t \in Heated(now)
  PROVE  /\ heating /\ now < target[Temperature]
         /\ t \in Int /\ now + LeastGain <= t /\ t <= now + MostGain
         /\ t < target[Temperature] + LeastGain
<1>1. heating /\ now < target[Temperature]
  BY DEF Heated
<1>2. PICK g \in Gain(target[Temperature] - now) : t = now + g
  BY <1>1 DEF Heated
<1>3. g \in LeastGain..MostGain /\ (g = LeastGain \/ target[Temperature] - now > Close)
  BY <1>2, RateFacts DEF Gain
<1> QED
  BY <1>1, <1>2, <1>3, RateFacts

\* What the jacket takes.
LEMMA CooledStep ==
  ASSUME NEW now \in Int, target[Temperature] \in Int, NEW t \in Cooled(now)
  PROVE  /\ cooling /\ target[Temperature] < now
         /\ t \in Int /\ target[Temperature] <= t /\ t < now /\ now - Chill <= t
<1>1. cooling /\ target[Temperature] < now
  BY DEF Cooled
<1>2. t = Approach(now, target[Temperature], Chill)
  BY <1>1 DEF Cooled
<1> QED
  BY <1>1, <1>2, RateFacts DEF Approach

\* What the air takes or gives.
LEMMA DriftedStep ==
  ASSUME NEW now \in Int, NEW t \in Drifted(now)
  PROVE  /\ ~(heating /\ now < target[Temperature]) /\ ~(cooling /\ target[Temperature] < now)
         /\ t \in Int /\ t \in (now - Loss)..(now + Loss)
         /\ now <= Ambient => t \in now..Ambient
         /\ now >= Ambient => t \in Ambient..now
<1>1. ~(heating /\ now < target[Temperature]) /\ ~(cooling /\ now > target[Temperature])
  BY DEF Drifted
<1>2. PICK l \in 0..Loss : t = Approach(now, Ambient, l)
  BY <1>1, Zenon DEF Drifted
<1>3. l \in Nat /\ l <= Loss /\ Ambient \in Int /\ Loss \in Nat
  BY RateFacts
<1>4. /\ t \in Int /\ t \in (now - l)..(now + l)
      /\ now <= Ambient => t \in now..Ambient
      /\ now >= Ambient => t \in Ambient..now
  BY <1>2, <1>3, ApproachFacts
<1>5. t \in (now - Loss)..(now + Loss)
  BY <1>3, <1>4
<1>6. (target[Temperature] < now) = (now > target[Temperature])
  OBVIOUS
<1> QED
  BY <1>1, <1>4, <1>5, <1>6, Zenon

\* The vessel is drawn to its setpoint, vented to rest, or left alone.
LEMMA VacuumStep ==
  ASSUME value[Vacuum] \in Int, target[Vacuum] \in Int, value[Vacuum] <= 0
  PROVE  /\ VacuumAfter \in Int /\ VacuumAfter <= 0
         /\ vacuumOn /\ value[Vacuum] > target[Vacuum] =>
              VacuumAfter \in target[Vacuum]..value[Vacuum] /\ VacuumAfter < value[Vacuum]
         /\ vacuumOn /\ value[Vacuum] <= target[Vacuum] => VacuumAfter = value[Vacuum]
         /\ ~vacuumOn /\ value[Vacuum] < 0 => VacuumAfter > value[Vacuum]
         /\ ~vacuumOn => VacuumAfter \in value[Vacuum]..0
<1> DEFINE p == value[Vacuum]
           g == target[Vacuum]
<1>1. CASE vacuumOn /\ p > g
  <2>1. VacuumAfter = Approach(p, g, Draw)
    BY <1>1 DEF VacuumAfter
  <2>2. Approach(p, g, Draw) \in g..p /\ Approach(p, g, Draw) < p
    BY <1>1, RateFacts DEF Approach
  <2> QED
    BY <1>1, <2>1, <2>2
<1>2. CASE ~vacuumOn /\ p < 0
  <2>1. VacuumAfter = Approach(p, 0, Vent)
    BY <1>2 DEF VacuumAfter
  <2>2. Approach(p, 0, Vent) \in p..0 /\ Approach(p, 0, Vent) > p
    BY <1>2, RateFacts DEF Approach
  <2> QED
    BY <1>2, <2>1, <2>2
<1>3. CASE ~(vacuumOn /\ p > g) /\ ~(~vacuumOn /\ p < 0)
  <2>1. VacuumAfter = p
    BY <1>3 DEF VacuumAfter
  <2> QED
    BY <1>3, <2>1
<1> QED
  BY <1>1, <1>2, <1>3

\* What a tick makes of the three kinds of loops.
LEMMA TickOfLoops ==
  ASSUME Step
  PROVE  /\ \A d \in Drive : value'[d] = Towards(d, value[d], target[d])
         /\ value'[Temperature] \in TemperatureAfter
         /\ value'[Vacuum] = VacuumAfter
  BY TagFacts DEF Step

\* So no loop leaves the range it is in, and the numbers stay numbers.
LEMMA LoopStep ==
  ASSUME LoopInv, Step
  PROVE  /\ value' \in [Tag -> Int]
         /\ \A tag \in Tag : lowest[tag] <= value'[tag] /\ value'[tag] <= highest[tag] + Overshoot(tag)
         /\ value'[Vacuum] <= 0
<1> USE DEF LoopInv
<1>1. PICK t \in TemperatureAfter :
        value' = [tag \in Tag |-> IF tag = Temperature THEN t
                                  ELSE IF tag = Vacuum THEN VacuumAfter
                                  ELSE Towards(tag, value[tag], target[tag])]
  BY DEF Step
<1>2. /\ value'[Temperature] = t /\ value'[Vacuum] = VacuumAfter
      /\ \A d \in Drive : value'[d] = Towards(d, value[d], target[d])
  BY <1>1, TagFacts
<1>3. /\ \A tag \in Tag : /\ value[tag] \in Int /\ target[tag] \in Int
                          /\ lowest[tag] \in Int /\ highest[tag] \in Int
      /\ value[Temperature] \in Int /\ target[Temperature] \in Int
      /\ value[Vacuum] \in Int /\ target[Vacuum] \in Int /\ value[Vacuum] <= 0
  BY LoopNumbers DEF WithinSetpoints
<1>4. \A tag \in Tag : lowest[tag] <= value[tag] /\ value[tag] <= highest[tag] + Overshoot(tag)
  BY DEF WithinSetpoints
<1>5. t \in Int /\ lowest[Temperature] <= t /\ t <= highest[Temperature] + Overshoot(Temperature)
  <2> DEFINE now == value[Temperature]
             low == lowest[Temperature]
             high == highest[Temperature]
  <2>1. /\ low <= now /\ now <= high + LeastGain - 1 /\ low <= Ambient /\ Ambient <= high
        /\ heating \/ cooling => low <= target[Temperature] /\ target[Temperature] <= high
        /\ low \in Int /\ high \in Int /\ Overshoot(Temperature) = LeastGain - 1
    BY <1>3, <1>4, TagFacts, SettingFacts, RateFacts DEF TargetIsAsked
  <2>2. CASE t \in Heated(now)
    BY <1>3, <2>1, <2>2, HeatedStep, RateFacts
  <2>3. CASE t \in Cooled(now)
    BY <1>3, <2>1, <2>3, CooledStep, RateFacts
  <2>4. CASE t \in Drifted(now)
    BY <1>3, <2>1, <2>4, DriftedStep, RateFacts
  <2> QED
    BY <2>2, <2>3, <2>4 DEF TemperatureAfter
<1>6. /\ VacuumAfter \in Int /\ VacuumAfter <= 0
      /\ lowest[Vacuum] <= VacuumAfter /\ VacuumAfter <= highest[Vacuum] + Overshoot(Vacuum)
  <2>1. /\ lowest[Vacuum] <= 0 /\ 0 <= highest[Vacuum] /\ Overshoot(Vacuum) = 0
        /\ lowest[Vacuum] <= target[Vacuum]
    BY TagFacts, SettingFacts DEF TargetIsAsked
  <2>2. lowest[Vacuum] <= value[Vacuum] /\ lowest[Vacuum] \in Int /\ highest[Vacuum] \in Int
    BY <1>3, <1>4, TagFacts
  <2> QED
    BY <1>3, <2>1, <2>2, VacuumStep
<1>7. ASSUME NEW d \in Drive
      PROVE  /\ value'[d] \in Int
             /\ lowest[d] <= value'[d] /\ value'[d] <= highest[d] + Overshoot(d)
  <2>1. /\ lowest[d] <= target[d] /\ target[d] <= highest[d] /\ Overshoot(d) = 0
        /\ lowest[d] <= value[d] /\ value[d] <= highest[d]
    BY <1>3, <1>4, TagFacts, SettingFacts DEF TargetIsAsked
  <2>2. d \in Tag
    BY TagFacts
  <2> QED
    BY <1>2, <1>3, <2>1, <2>2, DriveStep
<1>8. \A tag \in Tag : value'[tag] \in Int /\ lowest[tag] <= value'[tag]
                       /\ value'[tag] <= highest[tag] + Overshoot(tag)
  BY <1>2, <1>5, <1>6, <1>7, TagFacts
<1>9. value' \in [Tag -> Int]
  BY <1>1, <1>8
<1> QED
  BY <1>2, <1>6, <1>8, <1>9

-----------------------------------------------------------------------------
\* Types and ranges hold initially: every loop stands at its rest.
LEMMA InitLoopInv == Init => LoopInv
<1> SUFFICES ASSUME Init PROVE LoopInv
  OBVIOUS
<1>1. /\ value \in [Tag -> Int] /\ target \in [Tag -> Int] /\ after = target
      /\ lowest = value /\ highest = value
      /\ \A tag \in Tag : value[tag] = Rest(tag) /\ target[tag] = Initially(tag) /\ Rest(tag) \in Int
  BY SettingFacts DEF Init
<1>2. TypeOK
  BY <1>1, RateFacts DEF Init, TypeOK, Followed
<1>3. TargetIsAsked
  BY <1>1, SettingFacts DEF Init, TargetIsAsked
<1>4. WithinSetpoints
  BY <1>1, SettingFacts, TagFacts DEF WithinSetpoints
<1> QED
  BY <1>2, <1>3, <1>4 DEF LoopInv

\* A new setpoint is one of the settings and moves nothing.
LEMMA SetTargetLoopInv ==
  ASSUME LoopInv, NEW tag \in Tag, NEW v \in Settings[tag],
         SetProcessSetpoint(tag, v) \/ SetProcessSetpointRaises(tag, v)
  PROVE  LoopInv'
<1> USE DEF LoopInv
<1>1. SetTarget(tag, v)
  BY DEF SetProcessSetpoint, SetProcessSetpointRaises
<1>2. v \in Int /\ v \in Followed(tag)
  BY SettingFacts DEF Followed
<1>3. target' \in [Tag -> Int] /\ \A other \in Tag : target'[other] \in Followed(other)
  BY <1>1, <1>2 DEF SetTarget, TypeOK
<1>4. /\ after' \in [Tag -> Int] /\ \A other \in Tag : after'[other] \in Followed(other)
      /\ unaudited' \subseteq Tag
  BY <1>2 DEF SetProcessSetpoint, SetProcessSetpointRaises, TypeOK
<1>5. shown' \in Int
  BY <1>1, <1>2 DEF SetTarget, TypeOK
<1>6. /\ heating' \in BOOLEAN /\ cooling' \in BOOLEAN /\ vacuumOn' \in BOOLEAN
      /\ fromPlc' \in BOOLEAN /\ reached' \in BOOLEAN
  <2>1. /\ heating' = (v > value[Temperature]) \/ heating' = heating
        /\ cooling' = (v < value[Temperature]) \/ cooling' = cooling
        /\ vacuumOn' = (v < PumpBelow) \/ vacuumOn' = vacuumOn
        /\ fromPlc' = FALSE \/ fromPlc' = fromPlc
        /\ reached' = FALSE \/ reached' = reached
    BY <1>1, Zenon DEF SetTarget, Direct
  <2>2. /\ (v > value[Temperature]) \in BOOLEAN /\ (v < value[Temperature]) \in BOOLEAN
        /\ (v < PumpBelow) \in BOOLEAN
    OBVIOUS
  <2>3. /\ heating \in BOOLEAN /\ cooling \in BOOLEAN /\ vacuumOn \in BOOLEAN
        /\ fromPlc \in BOOLEAN /\ reached \in BOOLEAN
    BY DEF TypeOK
  <2> QED
    BY <2>1, <2>2, <2>3, Zenon
<1>7. /\ lowest' \in [Tag -> Int] /\ highest' \in [Tag -> Int]
      /\ \A other \in Tag : /\ lowest'[other] \in Int /\ lowest[other] \in Int
                            /\ highest'[other] \in Int /\ highest[other] \in Int
                            /\ lowest'[other] <= lowest[other] /\ highest[other] <= highest'[other]
      /\ lowest'[tag] <= v /\ v <= highest'[tag]
  BY <1>1, <1>2 DEF SetTarget, TypeOK
<1>8. UNCHANGED <<operated, mayDrive, value, alarmed>>
  BY <1>1 DEF SetTarget
<1>9. TypeOK'
  BY <1>3, <1>4, <1>5, <1>6, <1>7, <1>8 DEF TypeOK
<1>10. TargetIsAsked'
  <2> SUFFICES ASSUME NEW other \in Tag
               PROVE  /\ lowest'[other] <= Rest(other) /\ Rest(other) <= highest'[other]
                      /\ \/ lowest'[other] <= target'[other] /\ target'[other] <= highest'[other]
                         \/ other = Temperature /\ ~heating' /\ ~cooling'
    BY DEF TargetIsAsked
  <2>1. lowest'[other] <= Rest(other) /\ Rest(other) <= highest'[other]
    BY <1>7, SettingFacts DEF TargetIsAsked
  <2>2. CASE other = tag
    BY <1>1, <1>7, <2>1, <2>2 DEF SetTarget, TypeOK
  <2>3. CASE other # tag
    <3>1. target'[other] = target[other] /\ target[other] \in Int
      BY <1>1, <2>3, LoopNumbers DEF SetTarget, TypeOK
    <3>2. CASE lowest[other] <= target[other] /\ target[other] <= highest[other]
      BY <1>7, <2>1, <3>1, <3>2
    <3>3. CASE other = Temperature /\ ~heating /\ ~cooling
      BY <1>1, <2>1, <2>3, <3>3 DEF SetTarget
    <3> QED
      BY <3>2, <3>3 DEF TargetIsAsked
  <2> QED
    BY <2>2, <2>3
<1>11. WithinSetpoints'
  BY <1>7, <1>8, LoopNumbers, SettingFacts DEF WithinSetpoints
<1> QED
  BY <1>9, <1>10, <1>11

\* A tick moves every loop within the range of its setpoints and its rest.
LEMMA TickLoopInv ==
  ASSUME LoopInv, Tick
  PROVE  LoopInv'
<1> USE DEF LoopInv
<1>1. /\ value' \in [Tag -> Int] /\ value'[Vacuum] <= 0
      /\ \A tag \in Tag : lowest[tag] <= value'[tag] /\ value'[tag] <= highest[tag] + Overshoot(tag)
  BY LoopStep DEF Tick
<1>2. UNCHANGED <<operated, mayDrive, target, heating, cooling, vacuumOn, after, unaudited, lowest, highest>>
  BY DEF Tick
<1>3. WithinSetpoints'
  BY <1>1, <1>2 DEF WithinSetpoints
<1>4. shown' \in Int
  BY <1>1, TagFacts DEF Tick
<1>5. fromPlc' \in BOOLEAN /\ alarmed' \in BOOLEAN /\ reached' \in BOOLEAN
  BY Zenon DEF Tick, Evaluated, TypeOK
<1>6. TypeOK'
  BY <1>1, <1>2, <1>4, <1>5 DEF TypeOK
<1>7. TargetIsAsked'
  BY <1>2 DEF TargetIsAsked
<1> QED
  BY <1>3, <1>6, <1>7

\* Types and ranges hold in every reachable state.
LEMMA LoopInvariance == Spec => []LoopInv
<1>1. LoopInv /\ [Next]_vars => LoopInv'
  <2> SUFFICES ASSUME LoopInv, [Next]_vars PROVE LoopInv'
    OBVIOUS
  <2>1. CASE Login
    <3>1. mayDrive' \in BOOLEAN
      BY <2>1 DEF Login
    <3> QED
      BY <2>1, <3>1 DEF Login, plantVars, historyVars, LoopInv, TypeOK, TargetIsAsked, WithinSetpoints
  <2>2. CASE PlcTelemetry
    BY <2>2, TagAssumption DEF PlcTelemetry, plantVars, historyVars, LoopInv, TypeOK, TargetIsAsked, WithinSetpoints
  <2>3. CASE UNCHANGED vars
    BY <2>3 DEF vars, plantVars, historyVars, LoopInv, TypeOK, TargetIsAsked, WithinSetpoints
  <2> QED
    BY <2>1, <2>2, <2>3, SetTargetLoopInv, TickLoopInv DEF Next
<1> QED
  BY InitLoopInv, <1>1, PTL DEF Spec

\* Setpoints, loops and their histories keep their types, whatever the rates
\* (setProcessSetpoint, PlantSimulator.step).
THEOREM TypeCorrect == Spec => []TypeOK
<1>1. LoopInv => TypeOK
  BY DEF LoopInv
<1> QED
  BY <1>1, LoopInvariance, PTL

\* No loop leaves the range of its setpoints and its rest by more than what the
\* heater may overshoot, for any deadbands and rates, and the vessel is never
\* above the pressure of the vented vessel (PlantSimulator.step).
THEOREM LoopsStayWithin == Spec => []WithinSetpoints
<1>1. LoopInv => WithinSetpoints
  BY DEF LoopInv
<1> QED
  BY <1>1, LoopInvariance, PTL

-----------------------------------------------------------------------------
\* The audit and the product that is held.

\* The last event about a loop tells the setpoint it follows, unless an append
\* raised (setProcessSetpoint).
THEOREM EventsTellTarget == Spec => []TargetIsAudited
<1>1. Init => TargetIsAudited
  BY DEF Init, TargetIsAudited
<1>2. LoopInv /\ TargetIsAudited /\ [Next]_vars => TargetIsAudited'
  BY DEF LoopInv, TypeOK, TargetIsAudited, Next, Login, SetProcessSetpoint, SetProcessSetpointRaises, SetTarget,
     PlcTelemetry, Tick, vars, plantVars, historyVars
<1> QED
  BY LoopInvariance, <1>1, <1>2, PTL DEF Spec

\* A product that has reached the setpoint it is heated to is held within
\* what the air takes in a tick (PlantSimulator.step, set_target).
THEOREM HeatedProductStays == Spec => []HeatedProductIsHeld
<1>1. Init => HeatedProductIsHeld
  BY DEF Init, HeatedProductIsHeld
<1>2. LoopInv /\ HeatedProductIsHeld /\ [Next]_vars => HeatedProductIsHeld'
  <2> SUFFICES ASSUME LoopInv, HeatedProductIsHeld, [Next]_vars PROVE HeatedProductIsHeld'
    OBVIOUS
  <2>1. CASE Tick
    <3>1. UNCHANGED <<heating, target>> /\ (reached' => reached \/ value'[Temperature] >= target[Temperature])
      BY <2>1 DEF Tick
    <3>2. value'[Temperature] \in TemperatureAfter
      BY <2>1, TickOfLoops DEF Tick
    <3>3. value[Temperature] \in Int /\ target[Temperature] \in Int
      BY LoopNumbers DEF LoopInv
    <3>4. ASSUME heating, reached PROVE value'[Temperature] >= target[Temperature] - Loss
      <4>1. value[Temperature] >= target[Temperature] - Loss
        BY <3>4 DEF HeatedProductIsHeld
      <4>2. CASE value'[Temperature] \in Heated(value[Temperature])
        BY <3>3, <4>1, <4>2, HeatedStep, RateFacts
      <4>3. CASE value'[Temperature] \in Cooled(value[Temperature])
        BY <3>3, <4>1, <4>3, CooledStep, RateFacts
      <4>4. CASE value'[Temperature] \in Drifted(value[Temperature])
        BY <3>3, <3>4, <4>4, DriftedStep, RateFacts
      <4> QED
        BY <3>2, <4>2, <4>3, <4>4 DEF TemperatureAfter
    <3>5. value'[Temperature] \in Int /\ Loss \in Nat
      BY <2>1, LoopStep, TagFacts, RateFacts DEF Tick
    <3> QED
      BY <3>1, <3>3, <3>4, <3>5 DEF HeatedProductIsHeld
  <2>2. ASSUME NEW tag \in Tag, NEW v \in Settings[tag], SetTarget(tag, v)
        PROVE  HeatedProductIsHeld'
    BY <2>2, TagFacts DEF SetTarget, HeatedProductIsHeld, LoopInv, TypeOK
  <2>3. CASE UNCHANGED <<heating, reached, value, target>>
    BY <2>3 DEF HeatedProductIsHeld
  <2> QED
    BY <2>1, <2>2, <2>3 DEF Next, Login, SetProcessSetpoint, SetProcessSetpointRaises, PlcTelemetry, vars, plantVars,
       historyVars
<1> QED
  BY LoopInvariance, <1>1, <1>2, PTL DEF Spec

-----------------------------------------------------------------------------
\* What a tick does to each loop: the steps that SetpointsAreReached is made of.

Approaches ==
  /\ \A d \in Drive :
       /\ Distance(value[d], target[d]) > Deadband[d] =>
            \/ value'[d] = target[d]
            \/ Distance(value'[d], target[d]) = Distance(value[d], target[d]) - Ramp[d]
       /\ Distance(value[d], target[d]) <= Deadband[d] => value'[d] = value[d]
  /\ heating /\ value[Temperature] < target[Temperature] =>
       /\ value[Temperature] + LeastGain <= value'[Temperature]
       /\ value'[Temperature] < target[Temperature] + LeastGain
  /\ cooling /\ value[Temperature] > target[Temperature] =>
       target[Temperature] <= value'[Temperature] /\ value'[Temperature] < value[Temperature]
  /\ vacuumOn /\ value[Vacuum] > target[Vacuum] =>
       target[Vacuum] <= value'[Vacuum] /\ value'[Vacuum] < value[Vacuum]
  /\ ~vacuumOn /\ value[Vacuum] < 0 => value[Vacuum] < value'[Vacuum] /\ value'[Vacuum] <= 0

\* Every tick brings a drive that is out of its deadband to its setpoint or a
\* whole ramp nearer, and leaves one that is within it; a heated product gains
\* something and ends less than a tick above its setpoint; a cooled product and
\* a pumped vessel come nearer and not past; a vessel that is vented rises to
\* rest and not beyond (PlantSimulator.step).
EveryTickApproaches == [][Tick => Approaches]_vars

\* Every tick approaches the setpoints, for any deadbands, rates and settings;
\* that the ticks keep coming is the fairness of FairSpec (PlantSimulator.step).
THEOREM TicksApproach == Spec => EveryTickApproaches
<1>1. LoopInv /\ [Next]_vars => [Tick => Approaches]_vars
  <2> SUFFICES ASSUME LoopInv, Tick PROVE Approaches
    OBVIOUS
  <2> DEFINE t == value[Temperature]
  <2>1. Step /\ value[Vacuum] <= 0 /\ t \in Int /\ target[Temperature] \in Int
    BY LoopNumbers DEF Tick, LoopInv, WithinSetpoints
  <2>2. ASSUME NEW d \in Drive
        PROVE  /\ Distance(value[d], target[d]) > Deadband[d] =>
                    \/ value'[d] = target[d]
                    \/ Distance(value'[d], target[d]) = Distance(value[d], target[d]) - Ramp[d]
               /\ Distance(value[d], target[d]) <= Deadband[d] => value'[d] = value[d]
    <3>1. /\ value[d] \in Int /\ target[d] \in Int /\ Ramp[d] \in Nat /\ Deadband[d] \in Nat
          /\ value'[d] = Towards(d, value[d], target[d])
      BY <2>1, LoopNumbers, TagFacts, RateFacts, TickOfLoops DEF LoopInv
    <3>2. Distance(value[d], target[d]) \in Nat
      BY <3>1, DistanceFacts
    <3>3. CASE Distance(value[d], target[d]) > Deadband[d]
      <4>1. value'[d] = Approach(value[d], target[d], Ramp[d])
        BY <3>1, <3>3 DEF Towards
      <4>2. \/ value'[d] = target[d]
            \/ Distance(value'[d], target[d]) = Distance(value[d], target[d]) - Ramp[d]
        BY <3>1, <4>1 DEF Approach, Distance
      <4> QED
        BY <3>1, <3>2, <3>3, <4>2
    <3>4. CASE ~(Distance(value[d], target[d]) > Deadband[d])
      BY <3>1, <3>2, <3>4 DEF Towards
    <3> QED
      BY <3>1, <3>2, <3>3, <3>4
  <2>3. value'[Temperature] \in Heated(t) \/ value'[Temperature] \in Cooled(t) \/ value'[Temperature] \in Drifted(t)
    BY <2>1, TickOfLoops DEF TemperatureAfter
  <2>4. heating /\ t < target[Temperature] =>
          t + LeastGain <= value'[Temperature] /\ value'[Temperature] < target[Temperature] + LeastGain
    BY <2>1, <2>3, HeatedStep, CooledStep, DriftedStep
  <2>5. cooling /\ t > target[Temperature] =>
          target[Temperature] <= value'[Temperature] /\ value'[Temperature] < t
    BY <2>1, <2>3, HeatedStep, CooledStep, DriftedStep
  <2>6. /\ vacuumOn /\ value[Vacuum] > target[Vacuum] =>
             target[Vacuum] <= value'[Vacuum] /\ value'[Vacuum] < value[Vacuum]
        /\ ~vacuumOn /\ value[Vacuum] < 0 => value[Vacuum] < value'[Vacuum] /\ value'[Vacuum] <= 0
    BY <2>1, TickOfLoops, LoopNumbers, VacuumStep DEF LoopInv
  <2> QED
    BY <2>2, <2>4, <2>5, <2>6 DEF Approaches
<1> QED
  BY <1>1, LoopInvariance, PTL DEF Spec, EveryTickApproaches

\* No step moves the product by more than the largest of the rates
\* (PlantSimulator.step): with levels at least as wide as that, it leaves its
\* level or reaches the next one, which is what the temperature of the batch
\* side may do (ScadaController!Near).
TemperatureMovesLittle ==
  [][\A w \in Nat :
       MostGain <= w /\ Chill <= w /\ Loss <= w =>
         value'[Temperature] \in (value[Temperature] - w)..(value[Temperature] + w)]_vars

\* While the pump stays on the vacuum is never let in: a vacuum setpoint that
\* is raised below -20 mbar leaves the vessel where it is (step, set_target).
PumpNeverVents == [][vacuumOn /\ vacuumOn' => value'[Vacuum] <= value[Vacuum]]_vars

\* A step is a tick, a setpoint, or leaves the plant alone.
LEMMA PlantSteps ==
  ASSUME LoopInv, [Next]_vars
  PROVE  \/ Tick
         \/ \E tag \in Tag : \E v \in Settings[tag] : SetTarget(tag, v)
         \/ UNCHANGED plantVars
  BY DEF Next, Login, SetProcessSetpoint, SetProcessSetpointRaises, PlcTelemetry, vars

\* The product moves by at most the largest rate in any step, for any rates
\* (PlantSimulator.step).
THEOREM TemperatureMoves == Spec => TemperatureMovesLittle
<1>1. LoopInv /\ [Next]_vars
        => [\A w \in Nat :
              MostGain <= w /\ Chill <= w /\ Loss <= w =>
                value'[Temperature] \in (value[Temperature] - w)..(value[Temperature] + w)]_vars
  <2> SUFFICES ASSUME LoopInv, [Next]_vars, NEW w \in Nat, MostGain <= w, Chill <= w, Loss <= w
               PROVE  value'[Temperature] \in (value[Temperature] - w)..(value[Temperature] + w)
    OBVIOUS
  <2> DEFINE t == value[Temperature]
  <2>1. t \in Int /\ target[Temperature] \in Int
    BY LoopNumbers DEF LoopInv
  <2>2. CASE Tick
    <3>1. value'[Temperature] \in Heated(t) \/ value'[Temperature] \in Cooled(t) \/ value'[Temperature] \in Drifted(t)
      BY <2>2, TickOfLoops DEF TemperatureAfter, Tick
    <3>2. CASE value'[Temperature] \in Heated(t)
      BY <2>1, <3>2, HeatedStep, RateFacts
    <3>3. CASE value'[Temperature] \in Cooled(t)
      BY <2>1, <3>3, CooledStep, RateFacts
    <3>4. CASE value'[Temperature] \in Drifted(t)
      BY <2>1, <3>4, DriftedStep, RateFacts
    <3> QED
      BY <3>1, <3>2, <3>3, <3>4
  <2>3. CASE value' = value
    BY <2>1, <2>3
  <2> QED
    BY <2>2, <2>3, PlantSteps DEF SetTarget, plantVars
<1> QED
  BY <1>1, LoopInvariance, PTL DEF Spec, TemperatureMovesLittle

\* With the pump on, nothing lets air in (PlantSimulator.step).
THEOREM PumpHoldsVacuum == Spec => PumpNeverVents
<1>1. LoopInv /\ [Next]_vars => [vacuumOn /\ vacuumOn' => value'[Vacuum] <= value[Vacuum]]_vars
  <2> SUFFICES ASSUME LoopInv, [Next]_vars, vacuumOn
               PROVE  value'[Vacuum] <= value[Vacuum]
    OBVIOUS
  <2>1. CASE Tick
    <3>1. Step /\ value[Vacuum] <= 0
      BY <2>1 DEF Tick, LoopInv, WithinSetpoints
    <3> QED
      BY <3>1, TickOfLoops, LoopNumbers, VacuumStep DEF LoopInv
  <2>2. CASE value' = value
    BY <2>2, LoopNumbers DEF LoopInv
  <2> QED
    BY <2>1, <2>2, PlantSteps DEF SetTarget, plantVars
<1> QED
  BY <1>1, LoopInvariance, PTL DEF Spec, PumpNeverVents

\* A chilled product stays below its setpoint (PlantSimulator.step).
THEOREM ChilledStays == Spec => ChilledStaysChilled
<1>1. LoopInv /\ [Next]_vars
        => [Chilled /\ ~(\E v \in Settings[Temperature] : SetTarget(Temperature, v)) => Chilled']_vars
  <2> SUFFICES ASSUME LoopInv, [Next]_vars, Chilled,
                      ~(\E v \in Settings[Temperature] : SetTarget(Temperature, v))
               PROVE  Chilled'
    OBVIOUS
  <2>1. CASE Tick
    <3> DEFINE t == value[Temperature]
    <3>1. t \in Int /\ Ambient \in Int /\ target[Temperature] \in Int
      BY LoopNumbers, RateFacts DEF LoopInv
    <3>2. ~heating /\ t < target[Temperature] /\ Ambient < target[Temperature]
      BY DEF Chilled
    <3>3. value'[Temperature] \in Heated(t) \/ value'[Temperature] \in Cooled(t) \/ value'[Temperature] \in Drifted(t)
      BY <2>1, TickOfLoops DEF TemperatureAfter, Tick
    <3>4. value'[Temperature] \in Drifted(t)
      BY <3>1, <3>2, <3>3, HeatedStep, CooledStep
    <3>5. value'[Temperature] < target[Temperature]
      BY <3>1, <3>2, <3>4, DriftedStep
    <3> QED
      BY <2>1, <3>2, <3>5 DEF Tick, Chilled
  <2>2. ASSUME NEW tag \in Tag, NEW v \in Settings[tag], SetTarget(tag, v)
        PROVE  Chilled'
    <3>1. tag # Temperature
      BY <2>2
    <3> QED
      BY <2>2, <3>1 DEF SetTarget, Chilled, LoopInv, TypeOK
  <2>3. CASE UNCHANGED plantVars
    BY <2>3 DEF plantVars, Chilled
  <2> QED
    BY <2>1, <2>2, <2>3, PlantSteps
<1> QED
  BY <1>1, LoopInvariance, PTL DEF Spec, ChilledStaysChilled
=============================================================================
