------------------------- MODULE AlarmManagerProofs -------------------------
(***************************************************************************)
(* The alarm manager for any catalogue size and any users.                 *)
(*                                                                         *)
(* Every step is reduced to what it does to one alarm: an evaluation       *)
(* (ProcessOneAlarm) leaves an alarm the loop did not reach untouched and  *)
(* raises, clears or keeps one that it reached.  The invariants and the    *)
(* life cycle of AlarmLatch follow alarm by alarm.                         *)
(***************************************************************************)
EXTENDS AlarmManager, TLAPS

IInv == TypeOK /\ SeenConditionIsListed /\ TrailTellsState

\* What a run of the evaluation loop does to one alarm a.
LoopStep(a, beyond, reached, failed) ==
  \/ /\ a \notin reached
     /\ alarms'[a] = alarms[a] /\ ackedBy'[a] = ackedBy[a] /\ trail'[a] = trail[a]
     /\ a \in condition' <=> a \in condition
     /\ a \in unaudited => a \in unaudited'
  \/ /\ a \in reached /\ a \in beyond /\ alarms[a] = "normal"
     /\ alarms'[a] = "unacked" /\ a \in condition'
     /\ trail'[a] = Triggered \/ a \in unaudited'
  \/ /\ a \in reached /\ a \notin beyond /\ alarms[a] = "acked"
     /\ alarms'[a] = "normal" /\ a \notin condition'
  \/ /\ a \in reached /\ (a \in beyond <=> a \in condition')
     /\ a \in beyond => alarms[a] # "normal"
     /\ a \notin beyond => alarms[a] # "acked"
     /\ alarms'[a] = alarms[a] /\ ackedBy'[a] = ackedBy[a] /\ trail'[a] = trail[a]
     /\ a \in unaudited => a \in unaudited'

-----------------------------------------------------------------------------

\* Each alarm the loop reaches is raised, cleared or kept.
LEMMA ProcessOneAlarm ==
  ASSUME TypeOK,
         NEW beyond \in SUBSET Alarm, NEW reached \in SUBSET Alarm,
         NEW failed \in SUBSET Alarm, Process(beyond, reached, failed),
         NEW a \in Alarm
  PROVE  LoopStep(a, beyond, reached, failed)
<1> DEFINE raised == ToRaise(beyond) \cap reached
           cleared == ToClear(beyond, reached)
<1>1. /\ alarms'[a] = IF a \in raised THEN "unacked"
                      ELSE IF a \in cleared THEN "normal" ELSE alarms[a]
      /\ ackedBy'[a] = IF a \in raised \cup cleared THEN Nobody ELSE ackedBy[a]
      /\ trail'[a] = IF a \in raised \ failed THEN Triggered ELSE trail[a]
      /\ unaudited' = (unaudited \ raised) \cup failed
      /\ condition' = (condition \ reached) \cup (beyond \cap reached)
  BY DEF Process
<1>2. a \in raised <=> a \in reached /\ a \in beyond /\ alarms[a] = "normal"
  BY DEF ToRaise
<1>3. a \in cleared <=> a \in reached /\ a \notin beyond /\ alarms[a] = "acked"
  BY DEF ToClear
<1>4. alarms[a] \in AlarmState
  BY DEF TypeOK
<1> HIDE DEF raised, cleared
<1>5. CASE a \in raised
  <2>1. trail'[a] = Triggered \/ a \in unaudited'
    BY <1>1, <1>5
  <2> QED
    BY <1>1, <1>2, <1>5, <2>1 DEF LoopStep
<1>6. CASE a \in cleared
  BY <1>1, <1>2, <1>3, <1>6 DEF LoopStep
<1>7. CASE a \notin raised /\ a \notin cleared
  BY <1>1, <1>2, <1>3, <1>4, <1>7 DEF LoopStep
<1> QED
  BY <1>5, <1>6, <1>7

\* Both outcomes of evaluate_telemetry() are runs of the loop.
LEMMA TickIsProcess ==
  ASSUME Tick
  PROVE  \E beyond, reached, failed \in SUBSET Alarm : Process(beyond, reached, failed)
<1>1. PICK beyond \in SUBSET Alarm : Evaluate(beyond) \/ EvaluateRaises(beyond)
  BY DEF Tick
<1>2. CASE Evaluate(beyond)
  BY <1>2 DEF Evaluate
<1>3. CASE EvaluateRaises(beyond)
  <2>1. PICK f \in ToRaise(beyond) : Process(beyond, {a \in Alarm : a <= f}, {f})
    BY <1>3 DEF EvaluateRaises
  <2>2. f \in Alarm
    BY DEF ToRaise
  <2> QED
    BY <2>1, <2>2
<1> QED
  BY <1>1, <1>2, <1>3

-----------------------------------------------------------------------------

\* The invariant holds initially.
LEMMA InitIInv == Init => IInv
  BY DEF Init, IInv, TypeOK, SeenConditionIsListed, TrailTellsState, AlarmState, AuditEvent

\* An evaluation, complete or cut short, preserves the invariant.
LEMMA ProcessIInv ==
  ASSUME IInv,
         NEW beyond \in SUBSET Alarm, NEW reached \in SUBSET Alarm,
         NEW failed \in SUBSET Alarm, Process(beyond, reached, failed)
  PROVE  IInv'
<1>1. TypeOK
  BY DEF IInv
<1>2. \A a \in Alarm : LoopStep(a, beyond, reached, failed)
  BY <1>1, ProcessOneAlarm
<1>3. TypeOK'
  BY <1>1 DEF TypeOK, Process, AlarmState, AuditEvent
<1>4. SeenConditionIsListed'
  <2> SUFFICES ASSUME NEW a \in condition'
               PROVE  alarms'[a] # "normal"
    BY DEF SeenConditionIsListed
  <2>1. a \in Alarm
    BY <1>3 DEF TypeOK
  <2> QED
    BY <1>2, <2>1 DEF LoopStep, IInv, SeenConditionIsListed
<1>5. TrailTellsState'
  <2> SUFFICES ASSUME NEW a \in Alarm, a \notin unaudited'
               PROVE  /\ alarms'[a] = "unacked" => trail'[a] = Triggered
                      /\ alarms'[a] = "acked" => trail'[a] = Acknowledged(ackedBy'[a])
    BY DEF TrailTellsState
  <2>1. LoopStep(a, beyond, reached, failed)
    BY <1>2
  <2> QED
    BY <2>1 DEF LoopStep, IInv, TrailTellsState
<1> QED
  BY <1>3, <1>4, <1>5 DEF IInv

\* An acknowledgement preserves the invariant, audited or not.
LEMMA AcknowledgeIInv ==
  ASSUME IInv, NEW a \in Alarm, NEW u \in Actor,
         Acknowledge(a, u) \/ AcknowledgeRaises(a, u)
  PROVE  IInv'
<1>1. TypeOK'
  BY DEF IInv, TypeOK, Acknowledge, AcknowledgeRaises, AlarmState, AuditEvent
<1>2. /\ alarms' = [alarms EXCEPT ![a] = "acked"]
      /\ ackedBy' = [ackedBy EXCEPT ![a] = u]
      /\ condition' = condition
      /\ \/ trail' = [trail EXCEPT ![a] = Acknowledged(u)] /\ unaudited' = unaudited \ {a}
         \/ trail' = trail /\ unaudited' = unaudited \cup {a}
  BY DEF Acknowledge, AcknowledgeRaises
<1>3. SeenConditionIsListed'
  BY <1>2 DEF IInv, TypeOK, SeenConditionIsListed
<1>4. TrailTellsState'
  <2> SUFFICES ASSUME NEW b \in Alarm, b \notin unaudited'
               PROVE  /\ alarms'[b] = "unacked" => trail'[b] = Triggered
                      /\ alarms'[b] = "acked" => trail'[b] = Acknowledged(ackedBy'[b])
    BY DEF TrailTellsState
  <2>1. CASE b = a
    BY <1>2, <2>1 DEF IInv, TypeOK
  <2>2. CASE b # a
    BY <1>2, <2>2 DEF IInv, TypeOK, TrailTellsState
  <2> QED
    BY <2>1, <2>2
<1> QED
  BY <1>1, <1>3, <1>4 DEF IInv

\* A restart preserves the invariant.
LEMMA RestartIInv ==
  ASSUME IInv, Restart
  PROVE  IInv'
  BY DEF IInv, Restart, TypeOK, SeenConditionIsListed, TrailTellsState, AlarmState

\* So does every step.
LEMMA NextIInv == IInv /\ [Next]_vars => IInv'
<1> SUFFICES ASSUME IInv, [Next]_vars
             PROVE  IInv'
  OBVIOUS
<1>1. CASE Tick
  BY <1>1, TickIsProcess, ProcessIInv
<1>2. CASE \E a \in Alarm, u \in Actor : Acknowledge(a, u) \/ AcknowledgeRaises(a, u)
  BY <1>2, AcknowledgeIInv
<1>3. CASE Restart
  BY <1>3, RestartIInv
<1>4. CASE UNCHANGED vars
  BY <1>4 DEF vars, IInv, TypeOK, SeenConditionIsListed, TrailTellsState
<1> QED
  BY <1>1, <1>2, <1>3, <1>4 DEF Next

\* The inductive invariant of the alarm manager.
THEOREM Invariance == Spec => []IInv
  BY InitIInv, NextIInv, PTL DEF Spec

-----------------------------------------------------------------------------

\* Alarm states, acknowledgers, audit events and histories keep their types.
THEOREM TypeCorrect == Spec => []TypeOK
<1>1. IInv => TypeOK
  BY DEF IInv
<1> QED
  BY <1>1, Invariance, PTL

\* An alarm whose condition was seen is listed, whatever appends raised.
THEOREM NoAlarmIsMissed == Spec => []SeenConditionIsListed
<1>1. IInv => SeenConditionIsListed
  BY DEF IInv
<1> QED
  BY <1>1, Invariance, PTL

\* The last audit event of a listed alarm tells its state and acknowledger.
THEOREM TrailCorrect == Spec => []TrailTellsState
<1>1. IInv => TrailTellsState
  BY DEF IInv
<1> QED
  BY <1>1, Invariance, PTL

\* A step of the manager is, for each alarm, a step of AlarmLatch or a stutter.
LEMMA NextRefinesLatch ==
  ASSUME IInv, [Next]_vars, NEW a \in Alarm
  PROVE  [Latch(a)!Next]_<<alarms[a], a \in condition, epoch>>
<1> SUFFICES ASSUME ~(/\ alarms'[a] = alarms[a] /\ ((a \in condition') <=> (a \in condition))
                       /\ epoch' = epoch)
             PROVE  Latch(a)!Next
  OBVIOUS
<1> USE DEF Latch!Next, Latch!Raise, Latch!Observe, Latch!Acknowledge, Latch!Clear,
            Latch!Restart
<1>1. CASE Tick
  <2>1. PICK beyond, reached, failed \in SUBSET Alarm : Process(beyond, reached, failed)
    BY <1>1, TickIsProcess
  <2>2. LoopStep(a, beyond, reached, failed)
    BY <2>1, ProcessOneAlarm DEF IInv
  <2>3. epoch' = epoch
    BY <2>1 DEF Process
  <2> QED
    BY <2>2, <2>3 DEF LoopStep
<1>2. CASE \E b \in Alarm, u \in Actor : Acknowledge(b, u) \/ AcknowledgeRaises(b, u)
  <2>1. PICK b \in Alarm : /\ alarms[b] # "normal"
                           /\ alarms' = [alarms EXCEPT ![b] = "acked"]
                           /\ condition' = condition /\ epoch' = epoch
    BY <1>2 DEF Acknowledge, AcknowledgeRaises
  <2> QED
    BY <2>1 DEF IInv, TypeOK
<1>3. CASE Restart
  BY <1>3 DEF Restart
<1>4. CASE UNCHANGED vars
  BY <1>4 DEF vars
<1> QED
  BY <1>1, <1>2, <1>3, <1>4 DEF Next

\* The alarm manager implements the life cycle of AlarmLatch for every alarm.
THEOREM LatchImplemented == Spec => EveryAlarmIsLatched
<1>1. Init => \A a \in Alarm : Latch(a)!Init
  BY DEF Init, Latch!Init
<1>2. IInv /\ [Next]_vars =>
        [\A a \in Alarm : [Latch(a)!Next]_<<alarms[a], a \in condition, epoch>>]_vars
  BY NextRefinesLatch
<1> QED
  BY <1>1, <1>2, Invariance, PTL DEF Spec, EveryAlarmIsLatched

-----------------------------------------------------------------------------

\* An evaluation that does not come to alarm a has raised an alarm that stands
\* before it, and has left those between the two as they were.
GivesWay(a) ==
  \E f \in Alarm :
    /\ f < a
    /\ alarms[f] = "normal" /\ alarms'[f] = "unacked"
    /\ \A b \in Alarm : b > f => alarms'[b] = alarms[b]

\* An alarm that waits to be cleared: every evaluation clears it, finds its
\* condition again or gives way to an earlier one; nothing else makes an
\* alarm raisable that was not.
GetsItsTurn(a) ==
  \/ alarms'[a] = "normal"
  \/ a \in condition'
  \/ /\ Tick => GivesWay(a)
     /\ Tick \/ \A b \in Alarm : alarms'[b] = "normal" => alarms[b] = "normal"

\* A loop that ends early ends at an alarm it has raised.
LEMMA LoopGivesWay ==
  ASSUME TypeOK, Tick, NEW a \in Alarm, alarms[a] = "acked"
  PROVE  alarms'[a] = "normal" \/ a \in condition' \/ GivesWay(a)
<1>1. PICK beyond \in SUBSET Alarm : Evaluate(beyond) \/ EvaluateRaises(beyond)
  BY DEF Tick
<1>2. CASE Evaluate(beyond)
  <2>1. LoopStep(a, beyond, Alarm, {})
    BY <1>2, ProcessOneAlarm DEF Evaluate
  <2> QED
    BY <2>1 DEF LoopStep
<1>3. CASE EvaluateRaises(beyond)
  <2>1. PICK f \in ToRaise(beyond) : Process(beyond, {b \in Alarm : b <= f}, {f})
    BY <1>3 DEF EvaluateRaises
  <2>2. f \in Alarm /\ f \in beyond /\ alarms[f] = "normal"
    BY <2>1 DEF ToRaise
  <2> DEFINE reached == {b \in Alarm : b <= f}
  <2>3. \A b \in Alarm : LoopStep(b, beyond, reached, {f})
    BY <2>1, <2>2, ProcessOneAlarm
  <2>4. CASE a <= f
    <3>1. a \in reached
      BY <2>4
    <3> HIDE DEF reached
    <3> QED
      BY <2>3, <3>1 DEF LoopStep
  <2>5. CASE ~(a <= f)
    <3>1. a \in Nat /\ f \in Nat /\ f < a
      BY <2>2, <2>5, CatalogAssumption DEF Alarm
    <3>2. f \in reached
      BY <2>2, <3>1
    <3>3. \A b \in Alarm : b > f => b \notin reached
      BY <3>1, CatalogAssumption DEF Alarm
    <3> HIDE DEF reached
    <3>4. alarms'[f] = "unacked"
      BY <2>2, <2>3, <3>2 DEF LoopStep
    <3>5. \A b \in Alarm : b > f => alarms'[b] = alarms[b]
      BY <2>3, <3>3 DEF LoopStep
    <3> QED
      BY <2>2, <3>1, <3>4, <3>5 DEF GivesWay
  <2> QED
    BY <2>4, <2>5
<1> QED
  BY <1>1, <1>2, <1>3

\* The safety half of AcknowledgedAlarmClears.  While an acknowledged alarm
\* waits without its condition, the set of raisable alarms before it, read as a
\* number whose highest digit is its last alarm, falls with every evaluation
\* and rises with no other step (the end of the loop of evaluate_telemetry by
\* an append that raises), so the evaluations that do not reach it run out.
THEOREM ClearingApproaches ==
  Spec => [][\A a \in Alarm : alarms[a] = "acked" /\ a \notin condition => GetsItsTurn(a)]_vars
<1> DEFINE Turn == \A a \in Alarm : alarms[a] = "acked" /\ a \notin condition => GetsItsTurn(a)
<1>1. IInv /\ [Next]_vars => [Turn]_vars
  <2> SUFFICES ASSUME IInv, Next, NEW a \in Alarm, alarms[a] = "acked", a \notin condition
               PROVE  GetsItsTurn(a)
    OBVIOUS
  <2>1. CASE Tick
    BY <2>1, LoopGivesWay DEF IInv, GetsItsTurn
  <2>2. CASE ~Tick /\ \E b \in Alarm, u \in Actor : Acknowledge(b, u) \/ AcknowledgeRaises(b, u)
    <3>1. PICK b \in Alarm : alarms' = [alarms EXCEPT ![b] = "acked"]
      BY <2>2 DEF Acknowledge, AcknowledgeRaises
    <3>2. \A c \in Alarm : alarms'[c] = "normal" => alarms[c] = "normal"
      BY <3>1 DEF IInv, TypeOK
    <3> QED
      BY <2>2, <3>2 DEF GetsItsTurn
  <2>3. CASE Restart
    BY <2>3 DEF Restart, GetsItsTurn
  <2> QED
    BY <2>1, <2>2, <2>3 DEF Next
<1> QED
  BY <1>1, Invariance, PTL DEF Spec
=============================================================================
