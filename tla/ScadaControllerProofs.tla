----------------------- MODULE ScadaControllerProofs -----------------------
(***************************************************************************)
(* Theorems about ScadaController for any users, roles, batches and end    *)
(* statuses.  The inductive invariant is                                   *)
(*   BatchInv == TypeOK /\ ActiveBatchIsRunning /\ BatchTrailTellsStatus   *)
(* : startBatch() stores a row that was absent, and every slot that may    *)
(* change the status of a row forgets the active batch in the same step.   *)
(* What is proved of the alarm manager is true of the one inside the       *)
(* controller, because every step of the controller is one of its steps or *)
(* leaves it alone.                                                        *)
(***************************************************************************)
EXTENDS ScadaController, TLAPS

BatchType ==
  /\ session \in Session
  /\ temp \in Level
  /\ active \in Batch \cup {NoBatch}
  /\ batch \in [Batch -> {"absent", "running"} \cup EndStatus]
  /\ samples \in [Batch -> SUBSET Level]
  /\ record \in [Batch -> {NoEvent, Started} \cup {Ended(s) : s \in EndStatus}]
  /\ unrecorded \subseteq Batch
  /\ excursions \subseteq Batch /\ cut \subseteq Batch

BatchInv == BatchType /\ ActiveBatchIsRunning /\ BatchTrailTellsStatus

\* The evaluation of a tick keeps the batch side as _on_tick leaves it.
LEMMA TickType ==
  ASSUME BatchType, Tick
  PROVE  BatchType'
<1>1. PICK t \in Near(temp) :
        /\ temp' = t
        /\ TickRecords(t) \/ TickLosesSamples(t) \/ TickRaises(t)
        /\ excursions' = excursions \cup Exceeded(t)
        /\ UNCHANGED <<session, active, batch, record, unrecorded>>
  BY DEF Tick
<1>2. t \in Level
  BY <1>1 DEF Near
<1>3. samples' \in [Batch -> SUBSET Level]
  <2>1. samples' = samples \/ samples' = Sampled(t)
    BY <1>1 DEF TickRecords, TickLosesSamples, TickRaises
  <2>2. Sampled(t) \in [Batch -> SUBSET Level]
    BY <1>2, BatchAssumption DEF Sampled, BatchType
  <2>3. QED
    BY <2>1, <2>2 DEF BatchType
<1>4. excursions' \subseteq Batch /\ cut' \subseteq Batch
  <2>1. Exceeded(t) \subseteq Batch
    BY DEF Exceeded
  <2>2. QED
    BY <1>1, <2>1 DEF TickRecords, TickLosesSamples, TickRaises, BatchType
<1>5. QED
  BY <1>1, <1>2, <1>3, <1>4 DEF BatchType

\* The initial state satisfies the invariant.
LEMMA InitBatchInv == Init => BatchInv
<1> SUFFICES ASSUME Init PROVE BatchInv
  OBVIOUS
<1>1. session \in Session /\ temp \in Level /\ 0 \in Level
  BY SessionAssumption, TempAssumption DEF Init, Session, Level
<1>2. samples \in [Batch -> SUBSET Level]
  BY <1>1 DEF Init
<1>3. /\ batch \in [Batch -> {"absent", "running"} \cup EndStatus]
      /\ record \in [Batch -> {NoEvent, Started} \cup {Ended(s) : s \in EndStatus}]
  BY BatchAssumption DEF Init
<1>4. active = NoBatch /\ unrecorded = {Seeded} /\ excursions = {} /\ cut = {}
  BY DEF Init
<1>5. BatchTrailTellsStatus
  BY <1>4 DEF Init, BatchTrailTellsStatus
<1>6. QED
  BY <1>1, <1>2, <1>3, <1>4, <1>5, BatchAssumption DEF BatchInv, BatchType, ActiveBatchIsRunning

\* Every step preserves the invariant.
LEMMA NextBatchInv == BatchInv /\ [Next]_vars => BatchInv'
<1> SUFFICES ASSUME BatchInv, [Next]_vars
             PROVE  BatchInv'
  OBVIOUS
<1> USE BatchAssumption DEF BatchInv
<1>1. ASSUME NEW u \in User, NEW r \in Role, Login(u, r)
      PROVE  BatchInv'
  BY <1>1 DEF Login, batchVars, BatchType, Session, ActiveBatchIsRunning, BatchTrailTellsStatus
<1>2. ASSUME NEW b \in Batch, StartBatch(b)
      PROVE  BatchInv'
  <2>1. BatchType'
    BY <1>2 DEF StartBatch, Store, BatchType
  <2>2. ActiveBatchIsRunning'
    BY <1>2 DEF StartBatch, Store, BatchType, ActiveBatchIsRunning
  <2>3. BatchTrailTellsStatus'
    BY <1>2 DEF StartBatch, Store, BatchType, BatchTrailTellsStatus, Started
  <2>4. QED  BY <2>1, <2>2, <2>3
<1>3. ASSUME NEW b \in Batch, StartBatchRaises(b)
      PROVE  BatchInv'
  <2>1. BatchType'
    BY <1>3 DEF StartBatchRaises, Store, BatchType
  <2>2. ActiveBatchIsRunning'
    BY <1>3 DEF StartBatchRaises, Store, BatchType, ActiveBatchIsRunning
  <2>3. BatchTrailTellsStatus'
    BY <1>3 DEF StartBatchRaises, Store, BatchType, BatchTrailTellsStatus
  <2>4. QED  BY <2>1, <2>2, <2>3
<1>4. ASSUME NEW b \in Batch, NEW s \in EndStatus, EndBatch(b, s)
      PROVE  BatchInv'
  <2>1. BatchType'
    BY <1>4 DEF EndBatch, Close, BatchType
  <2>2. ActiveBatchIsRunning'
    BY <1>4 DEF EndBatch, Close, ActiveBatchIsRunning
  <2>3. BatchTrailTellsStatus'
    BY <1>4 DEF EndBatch, Close, BatchType, BatchTrailTellsStatus, Ended
  <2>4. QED  BY <2>1, <2>2, <2>3
<1>5. ASSUME NEW b \in Batch, NEW s \in EndStatus, EndBatchRaises(b, s)
      PROVE  BatchInv'
  <2>1. BatchType'
    BY <1>5 DEF EndBatchRaises, Close, BatchType
  <2>2. ActiveBatchIsRunning'
    BY <1>5 DEF EndBatchRaises, Close, ActiveBatchIsRunning
  <2>3. BatchTrailTellsStatus'
    BY <1>5 DEF EndBatchRaises, Close, BatchType, BatchTrailTellsStatus
  <2>4. QED  BY <2>1, <2>2, <2>3
<1>6. CASE EndUnknownBatch
  BY <1>6 DEF EndUnknownBatch, BatchType, ActiveBatchIsRunning, BatchTrailTellsStatus
<1>7. CASE Tick
  <2>1. BatchType'
    BY <1>7, TickType
  <2>2. UNCHANGED <<active, batch, record, unrecorded>>
    BY <1>7 DEF Tick
  <2>3. QED
    BY <2>1, <2>2 DEF ActiveBatchIsRunning, BatchTrailTellsStatus
<1>8. CASE AcknowledgeAlarm
  BY <1>8 DEF AcknowledgeAlarm, batchVars, BatchType, ActiveBatchIsRunning, BatchTrailTellsStatus
<1>9. CASE Restart
  <2>1. session' \in Session /\ temp' \in Level
    BY <1>9, SessionAssumption, TempAssumption DEF Restart, Session, Level
  <2>2. active' = NoBatch
        /\ UNCHANGED <<batch, samples, record, unrecorded, excursions, cut>>
    BY <1>9 DEF Restart
  <2>3. QED
    BY <2>1, <2>2 DEF BatchType, ActiveBatchIsRunning, BatchTrailTellsStatus
<1>10. CASE UNCHANGED vars
  BY <1>10 DEF vars, batchVars, BatchType, ActiveBatchIsRunning, BatchTrailTellsStatus
<1>11. QED
  BY <1>1, <1>2, <1>3, <1>4, <1>5, <1>6, <1>7, <1>8, <1>9, <1>10 DEF Next

\* BatchInv holds in every reachable state.
THEOREM BatchInvariance == Spec => []BatchInv
<1>1. QED
  BY InitBatchInv, NextBatchInv, PTL DEF Spec

\* The controller never records under a batch that is not running (startBatch,
\* endBatch, _on_tick).
THEOREM ActiveIsRunning == Spec => []ActiveBatchIsRunning
<1>1. BatchInv => ActiveBatchIsRunning
  BY DEF BatchInv
<1>2. QED
  BY BatchInvariance, <1>1, PTL

\* The audit trail and the historian agree on the status of every batch whose
\* last append did not raise (startBatch, endBatch).
THEOREM TrailTellsStatus == Spec => []BatchTrailTellsStatus
<1>1. BatchInv => BatchTrailTellsStatus
  BY DEF BatchInv
<1>2. QED
  BY BatchInvariance, <1>1, PTL

\* A stored batch that is not active is never recorded again.
LEMMA StepClosesRecord ==
  ASSUME BatchInv, [Next]_vars, NEW b \in Batch, batch[b] # "absent", active # b
  PROVE  active' # b /\ samples'[b] = samples[b]
<1> USE BatchAssumption DEF BatchInv
<1>1. ASSUME NEW c \in Batch, StartBatch(c) \/ StartBatchRaises(c)
      PROVE  active' # b /\ samples'[b] = samples[b]
  BY <1>1 DEF StartBatch, StartBatchRaises, Store
<1>2. ASSUME NEW c \in Batch, NEW s \in EndStatus, EndBatch(c, s) \/ EndBatchRaises(c, s)
      PROVE  active' # b /\ samples'[b] = samples[b]
  BY <1>2 DEF EndBatch, EndBatchRaises, Close
<1>3. CASE Tick
  <2>1. active' = active
    BY <1>3 DEF Tick
  <2>2. PICK t \in Near(temp) : TickRecords(t) \/ TickLosesSamples(t) \/ TickRaises(t)
    BY <1>3 DEF Tick
  <2>3. samples'[b] = samples[b]
    BY <2>2 DEF TickRecords, TickLosesSamples, TickRaises, Sampled, BatchType
  <2>4. QED  BY <2>1, <2>3
<1>4. CASE EndUnknownBatch
  BY <1>4 DEF EndUnknownBatch
<1>5. CASE Restart
  BY <1>5 DEF Restart
<1>6. ASSUME UNCHANGED <<active, samples>>
      PROVE  active' # b /\ samples'[b] = samples[b]
  BY <1>6
<1>7. QED
  BY <1>1, <1>2, <1>3, <1>4, <1>5, <1>6
     DEF Next, Login, AcknowledgeAlarm, vars, batchVars

\* A batch has one recording period (startBatch, endBatch, _on_tick).
THEOREM RecordCloses == Spec => RecordIsClosed
<1>1. BatchInv /\ [Next]_vars =>
        [\A b \in Batch :
           batch[b] # "absent" /\ active # b => active' # b /\ samples'[b] = samples[b]]_vars
  BY StepClosesRecord
<1>2. QED
  BY BatchInvariance, <1>1, PTL DEF Spec, RecordIsClosed

-----------------------------------------------------------------------------

\* Every step of the controller is a step of the alarm manager or leaves it
\* alone.
LEMMA StepOfAlarmManager ==
  ASSUME BatchType, Next
  PROVE  Alarms!Next \/ UNCHANGED alarmVars
<1>1. CASE Tick
  <2>1. PICK t \in Near(temp) : TickRecords(t) \/ TickLosesSamples(t) \/ TickRaises(t)
    BY <1>1 DEF Tick
  <2>2. Alarms!Evaluate(Beyond(t)) \/ Alarms!EvaluateRaises(Beyond(t))
    BY <2>1 DEF TickRecords, TickLosesSamples, TickRaises
  <2>3. Beyond(t) \in SUBSET Alarms!Alarm
    BY DEF Beyond, Alarms!Alarm
  <2>4. QED
    BY <2>2, <2>3 DEF Alarms!Next, Alarms!Tick
<1>2. CASE AcknowledgeAlarm
  <2>1. 1 \in Alarms!Alarm
    BY DEF Alarms!Alarm
  <2>2. session.user \in User
    BY DEF BatchType, Session
  <2>3. QED
    BY <1>2, <2>1, <2>2 DEF AcknowledgeAlarm, Alarms!Next
<1>3. CASE Restart
  BY <1>3 DEF Restart, Alarms!Next
<1>4. CASE UNCHANGED alarmVars
  BY <1>4
<1>5. QED
  BY <1>1, <1>2, <1>3, <1>4
     DEF Next, Login, StartBatch, StartBatchRaises, Store, EndBatch, EndBatchRaises, Close,
         EndUnknownBatch

\* The alarm manager inside the controller obeys the specification of module
\* AlarmManager, which is how the theorems about it are used below.
THEOREM ImplementsAlarmManager == Spec => Alarms!Spec
<1>1. Init => Alarms!Init
  BY DEF Init
<1>2. BatchInv /\ [Next]_vars => [Alarms!Next]_(Alarms!vars)
  <2> SUFFICES ASSUME BatchInv, [Next]_vars
               PROVE  Alarms!Next \/ UNCHANGED alarmVars
    BY DEF alarmVars, Alarms!vars
  <2>1. CASE Next
    BY <2>1, StepOfAlarmManager DEF BatchInv
  <2>2. CASE UNCHANGED vars
    BY <2>2 DEF vars, alarmVars
  <2>3. QED
    BY <2>1, <2>2
<1>3. QED
  BY BatchInvariance, <1>1, <1>2, PTL DEF Spec, Alarms!Spec

-----------------------------------------------------------------------------

\* A step of the alarm manager keeps its variables well typed.
LEMMA AlarmStepType ==
  ASSUME Alarms!TypeOK, Alarms!Next
  PROVE  Alarms!TypeOK'
<1> USE DEF Alarms!TypeOK, Alarms!AlarmState, Alarms!AuditEvent
<1>1. ASSUME NEW beyond, NEW reached \in SUBSET Alarms!Alarm, NEW failed \in SUBSET Alarms!Alarm,
             Alarms!Process(beyond, reached, failed)
      PROVE  Alarms!TypeOK'
  BY <1>1 DEF Alarms!Process
<1>2. CASE Alarms!Tick
  <2>1. PICK beyond \in SUBSET Alarms!Alarm :
          Alarms!Evaluate(beyond) \/ Alarms!EvaluateRaises(beyond)
    BY <1>2 DEF Alarms!Tick
  <2>2. CASE Alarms!Evaluate(beyond)
    <3>1. Alarms!Process(beyond, Alarms!Alarm, {})
      BY <2>2 DEF Alarms!Evaluate
    <3>2. Alarms!Alarm \in SUBSET Alarms!Alarm /\ {} \in SUBSET Alarms!Alarm
      OBVIOUS
    <3>3. QED
      BY <1>1, <3>1, <3>2
  <2>3. CASE Alarms!EvaluateRaises(beyond)
    <3>1. PICK f \in Alarms!ToRaise(beyond) :
            Alarms!Process(beyond, {a \in Alarms!Alarm : a <= f}, {f})
      BY <2>3 DEF Alarms!EvaluateRaises
    <3>2. f \in Alarms!Alarm
      BY <2>1 DEF Alarms!ToRaise
    <3>3. /\ {a \in Alarms!Alarm : a <= f} \in SUBSET Alarms!Alarm
          /\ {f} \in SUBSET Alarms!Alarm
      BY <3>2
    <3>4. QED
      BY <1>1, <3>1, <3>3
  <2>4. QED
    BY <2>1, <2>2, <2>3
<1>3. ASSUME NEW a \in Alarms!Alarm, NEW u \in User,
             Alarms!Acknowledge(a, u) \/ Alarms!AcknowledgeRaises(a, u)
      PROVE  Alarms!TypeOK'
  BY <1>3 DEF Alarms!Acknowledge, Alarms!AcknowledgeRaises
<1>4. CASE Alarms!Restart
  BY <1>4 DEF Alarms!Restart
<1>5. QED
  BY <1>2, <1>3, <1>4 DEF Alarms!Next

\* Every variable of the controller and of its alarm manager keeps its type.
THEOREM TypeCorrect == Spec => []TypeOK
<1> DEFINE Typed == BatchInv /\ Alarms!TypeOK
<1>1. Init => Typed
  BY InitBatchInv
     DEF Init, Alarms!Init, Alarms!TypeOK, Alarms!AlarmState, Alarms!AuditEvent
<1>2. Typed /\ [Next]_vars => Typed'
  <2> SUFFICES ASSUME Typed, [Next]_vars
               PROVE  Typed'
    OBVIOUS
  <2>1. BatchInv'
    BY NextBatchInv
  <2>2. CASE Alarms!Next
    BY <2>1, <2>2, AlarmStepType
  <2>3. CASE UNCHANGED alarmVars
    BY <2>1, <2>3 DEF alarmVars, Alarms!TypeOK
  <2>4. Alarms!Next \/ UNCHANGED alarmVars
    BY StepOfAlarmManager DEF BatchInv, vars
  <2>5. QED
    BY <2>2, <2>3, <2>4
<1>3. Typed => TypeOK
  BY DEF BatchInv, BatchType, TypeOK
<1> HIDE DEF Typed
<1>4. QED
  BY <1>1, <1>2, <1>3, PTL DEF Spec

-----------------------------------------------------------------------------

\* One batch: its record and the alarms tell the same.
OnRecord(b) ==
  LET recorded == \E t \in samples[b] : t >= High
  IN  (b \in excursions \ cut => recorded) /\ (recorded => b \in excursions)

\* The seeded batch is never recorded under, and what was cut short was an
\* excursion.
ExcursionInv ==
  /\ BatchInv
  /\ batch[Seeded] # "absent" /\ active # Seeded
  /\ cut \subseteq excursions
  /\ \A b \in Batch \ {Seeded} : OnRecord(b)

\* Initially nothing but the seeded batch has samples.
LEMMA InitExcursion == Init => ExcursionInv
<1> SUFFICES ASSUME Init PROVE ExcursionInv
  OBVIOUS
<1>1. BatchInv
  BY InitBatchInv
<1>2. batch[Seeded] # "absent" /\ active # Seeded /\ cut \subseteq excursions
  BY BatchAssumption DEF Init
<1>3. \A b \in Batch \ {Seeded} : OnRecord(b)
  BY DEF Init, OnRecord
<1> QED
  BY <1>1, <1>2, <1>3 DEF ExcursionInv

\* A tick that ends well records what it evaluated; one that does not leaves
\* the record as it is.
LEMMA TickExcursion ==
  ASSUME ExcursionInv, Tick, NEW b \in Batch \ {Seeded}
  PROVE  OnRecord(b)'
<1>1. PICK t \in Near(temp) :
        /\ TickRecords(t) \/ TickLosesSamples(t) \/ TickRaises(t)
        /\ excursions' = excursions \cup Exceeded(t)
        /\ UNCHANGED active
  BY DEF Tick
<1>2. OnRecord(b) /\ cut \subseteq excursions /\ samples \in [Batch -> SUBSET Level] /\ NoBatch \notin Batch
  BY BatchAssumption DEF ExcursionInv, BatchInv, BatchType
<1>3. CASE b \notin Exceeded(t)
  <2>1. (b \in excursions' <=> b \in excursions) /\ (b \in cut' <=> b \in cut)
    BY <1>1, <1>3 DEF TickRecords, TickLosesSamples, TickRaises
  <2>2. samples'[b] = samples[b] \/ (samples'[b] = samples[b] \cup {t} /\ ~(t >= High))
    <3>1. samples' = samples \/ samples' = Sampled(t)
      BY <1>1 DEF TickRecords, TickLosesSamples, TickRaises
    <3>2. b # active \/ ~(t >= High)
      BY <1>3 DEF Exceeded
    <3>3. CASE b = active
      <4>1. Sampled(t)[b] = samples[b] \cup {t}
        BY <1>2, <3>3 DEF Sampled
      <4> QED
        BY <3>1, <3>2, <3>3, <4>1
    <3>4. CASE b # active
      <4>1. Sampled(t)[b] = samples[b]
        BY <1>2, <3>4 DEF Sampled
      <4> QED
        BY <3>1, <4>1
    <3> QED
      BY <3>3, <3>4
  <2> QED
    BY <1>2, <2>1, <2>2 DEF OnRecord
<1>4. CASE b \in Exceeded(t) /\ TickRecords(t)
  <2>1. b = active /\ t >= High /\ b \in excursions'
    BY <1>1, <1>4 DEF Exceeded
  <2>2. t \in samples'[b]
    BY <1>2, <1>4, <2>1 DEF TickRecords, Sampled
  <2> QED
    BY <2>1, <2>2 DEF OnRecord
<1>5. CASE b \in Exceeded(t) /\ ~TickRecords(t)
  <2>1. samples' = samples /\ cut' = cut \cup (Exceeded(t) \ excursions) /\ b \in excursions'
    BY <1>1, <1>5 DEF TickLosesSamples, TickRaises
  <2> QED
    BY <1>2, <1>5, <2>1 DEF OnRecord
<1> QED
  BY <1>3, <1>4, <1>5

\* Every step preserves the invariant.
LEMMA NextExcursion == ExcursionInv /\ [Next]_vars => ExcursionInv'
<1> SUFFICES ASSUME ExcursionInv, [Next]_vars PROVE ExcursionInv'
  OBVIOUS
<1>1. BatchInv' /\ NoBatch \notin Batch /\ Seeded \in Batch
  BY NextBatchInv, BatchAssumption DEF ExcursionInv
<1>2. active' # Seeded
  BY <1>1, StepClosesRecord DEF ExcursionInv
<1>3. batch'[Seeded] # "absent"
  <2>1. ASSUME NEW b \in Batch, StartBatch(b) \/ StartBatchRaises(b)
        PROVE  batch'[Seeded] # "absent"
    BY <1>1, <2>1 DEF StartBatch, StartBatchRaises, Store, ExcursionInv, BatchInv, BatchType
  <2>2. ASSUME NEW b \in Batch, NEW s \in EndStatus, EndBatch(b, s) \/ EndBatchRaises(b, s)
        PROVE  batch'[Seeded] # "absent"
    BY <1>1, <2>2, BatchAssumption DEF EndBatch, EndBatchRaises, Close, ExcursionInv, BatchInv, BatchType
  <2>3. CASE UNCHANGED batch
    BY <2>3 DEF ExcursionInv
  <2> QED
    BY <2>1, <2>2, <2>3
       DEF Next, Login, EndUnknownBatch, Tick, AcknowledgeAlarm, Restart, vars, batchVars
<1>4. CASE Tick
  <2>1. cut' \subseteq excursions'
    BY <1>4 DEF Tick, TickRecords, TickLosesSamples, TickRaises, ExcursionInv
  <2>2. \A b \in Batch \ {Seeded} : OnRecord(b)'
    BY <1>4, TickExcursion
  <2> QED
    BY <1>1, <1>2, <1>3, <2>1, <2>2 DEF ExcursionInv
<1>5. CASE UNCHANGED <<samples, excursions, cut>>
  BY <1>1, <1>2, <1>3, <1>5 DEF ExcursionInv, OnRecord
<1> QED
  BY <1>4, <1>5
     DEF Next, Login, StartBatch, StartBatchRaises, Store, EndBatch, EndBatchRaises, Close, EndUnknownBatch,
         AcknowledgeAlarm, Restart, vars, batchVars

\* The record of a batch and the alarms tell the same, whatever happens between
\* and after its ticks, but for the values of a tick that raises (_on_tick).
THEOREM ExcursionRecorded == Spec => []ExcursionIsOnRecord
<1>1. ExcursionInv => ExcursionIsOnRecord
  BY DEF ExcursionInv, ExcursionIsOnRecord, OnRecord
<1> QED
  BY <1>1, InitExcursion, NextExcursion, PTL DEF Spec

-----------------------------------------------------------------------------
\* What the alarm manager promises, the controller keeps: its theorems apply
\* to the controller by way of ImplementsAlarmManager.

AlarmTheorems == INSTANCE AlarmManagerProofs WITH CatalogSize <- 1, Actor <- User

\* The alarm manager the theorems are about is the one of the controller.
LEMMA SameAlarmManager ==
  /\ Alarms!Spec => AlarmTheorems!Spec
  /\ AlarmTheorems!SeenConditionIsListed => Alarms!SeenConditionIsListed
  /\ AlarmTheorems!TrailTellsState => Alarms!TrailTellsState
<1> USE DEF Alarms!Alarm, AlarmTheorems!Alarm, Alarms!NoEvent, AlarmTheorems!NoEvent,
        Alarms!Triggered, AlarmTheorems!Triggered, Alarms!Acknowledged, AlarmTheorems!Acknowledged
<1>1. Alarms!Init => AlarmTheorems!Init
  BY DEF Alarms!Init, AlarmTheorems!Init
<1>2. [Alarms!Next]_(Alarms!vars) => [AlarmTheorems!Next]_(AlarmTheorems!vars)
  BY Zenon
     DEF Alarms!Next, AlarmTheorems!Next, Alarms!vars, AlarmTheorems!vars, Alarms!Tick, AlarmTheorems!Tick,
         Alarms!Acknowledge, AlarmTheorems!Acknowledge, Alarms!AcknowledgeRaises, AlarmTheorems!AcknowledgeRaises,
         Alarms!Restart, AlarmTheorems!Restart, Alarms!Evaluate, AlarmTheorems!Evaluate,
         Alarms!EvaluateRaises, AlarmTheorems!EvaluateRaises, Alarms!Process, AlarmTheorems!Process,
         Alarms!ToRaise, AlarmTheorems!ToRaise, Alarms!ToClear, AlarmTheorems!ToClear
<1>3. AlarmTheorems!SeenConditionIsListed => Alarms!SeenConditionIsListed
  BY DEF AlarmTheorems!SeenConditionIsListed, Alarms!SeenConditionIsListed
<1>4. AlarmTheorems!TrailTellsState => Alarms!TrailTellsState
  BY DEF AlarmTheorems!TrailTellsState, Alarms!TrailTellsState
<1>5. QED
  BY <1>1, <1>2, <1>3, <1>4, PTL DEF Alarms!Spec, AlarmTheorems!Spec

\* One alarm, and users none of whom is Nobody.
LEMMA AlarmAssumptions == AlarmTheorems!CatalogAssumption /\ AlarmTheorems!NobodyAssumption
  BY SessionAssumption DEF AlarmTheorems!CatalogAssumption, AlarmTheorems!NobodyAssumption

\* Through all slots, failures and restarts of the controller an alarm whose
\* condition was seen is in the list (_on_tick, evaluate_telemetry).
THEOREM ControllerListsConditions == Spec => []Alarms!SeenConditionIsListed
<1>1. AlarmTheorems!Spec => []AlarmTheorems!SeenConditionIsListed
  BY AlarmAssumptions, AlarmTheorems!NoAlarmIsMissed
<1>2. QED
  BY <1>1, ImplementsAlarmManager, SameAlarmManager, PTL

\* And the audit trail tells the state of a listed alarm and the session user
\* that acknowledged it (acknowledgeAlarm).
THEOREM ControllerAlarmTrail == Spec => []Alarms!TrailTellsState
<1>1. AlarmTheorems!Spec => []AlarmTheorems!TrailTellsState
  BY AlarmAssumptions, AlarmTheorems!TrailCorrect
<1>2. QED
  BY <1>1, ImplementsAlarmManager, SameAlarmManager, PTL

\* The condition the alarm manager saw last is that of the temperature shown.
ConditionIsOfTemperature == condition = Beyond(temp)

\* A tick shows the alarm manager the temperature it returns.
LEMMA TickCondition ==
  ASSUME BatchType, Alarms!TypeOK, Tick
  PROVE  ConditionIsOfTemperature'
<1>1. PICK t \in Near(temp) :
        /\ temp' = t
        /\ TickRecords(t) \/ TickLosesSamples(t) \/ TickRaises(t)
  BY DEF Tick
<1>2. Alarms!Alarm = {1} /\ condition \subseteq {1} /\ Beyond(t) \subseteq {1}
  BY DEF Alarms!TypeOK, Alarms!Alarm, Beyond
<1>3. CASE Alarms!Evaluate(Beyond(t))
  <2>1. condition' = (condition \ {1}) \cup (Beyond(t) \cap {1})
    BY <1>2, <1>3 DEF Alarms!Evaluate, Alarms!Process
  <2>2. QED
    BY <1>1, <1>2, <2>1 DEF ConditionIsOfTemperature
<1>4. CASE Alarms!EvaluateRaises(Beyond(t))
  <2>1. PICK f \in Alarms!ToRaise(Beyond(t)) : Alarms!Process(Beyond(t), {a \in Alarms!Alarm : a <= f}, {f})
    BY <1>4 DEF Alarms!EvaluateRaises
  <2>2. f = 1 /\ {a \in Alarms!Alarm : a <= f} = {1}
    BY <1>2, <2>1 DEF Alarms!ToRaise
  <2>3. condition' = (condition \ {1}) \cup (Beyond(t) \cap {1})
    BY <2>1, <2>2 DEF Alarms!Process
  <2>4. QED
    BY <1>1, <1>2, <2>3 DEF ConditionIsOfTemperature
<1>5. QED
  BY <1>1, <1>3, <1>4 DEF TickRecords, TickLosesSamples, TickRaises

\* With the limit above the temperature the program starts at, the hot product
\* is listed in every reachable state.
THEOREM HotProductListed ==
  ASSUME High > 0
  PROVE  Spec => []HotProductIsListed
<1>1. Init => ConditionIsOfTemperature
  BY TempAssumption DEF Init, Alarms!Init, ConditionIsOfTemperature, Beyond
<1>2. TypeOK /\ ConditionIsOfTemperature /\ [Next]_vars => ConditionIsOfTemperature'
  <2> SUFFICES ASSUME TypeOK, ConditionIsOfTemperature, [Next]_vars
               PROVE  ConditionIsOfTemperature'
    OBVIOUS
  <2>1. CASE Tick
    BY <2>1, TickCondition DEF TypeOK, BatchType
  <2>2. CASE Restart
    BY <2>2, TempAssumption DEF Restart, Alarms!Restart, ConditionIsOfTemperature, Beyond
  <2>3. CASE UNCHANGED <<temp, condition>>
    BY <2>3 DEF ConditionIsOfTemperature, Beyond
  <2>4. QED
    BY <2>1, <2>2, <2>3
       DEF Next, Login, StartBatch, StartBatchRaises, Store, EndBatch, EndBatchRaises, Close, EndUnknownBatch,
           AcknowledgeAlarm, Alarms!Acknowledge, Alarms!AcknowledgeRaises, vars, alarmVars
<1>3. TypeOK /\ ConditionIsOfTemperature /\ Alarms!SeenConditionIsListed => HotProductIsListed
  BY DEF ConditionIsOfTemperature, Beyond, Alarms!SeenConditionIsListed, HotProductIsListed
<1>4. QED
  BY <1>1, <1>2, <1>3, TypeCorrect, ControllerListsConditions, PTL DEF Spec
=============================================================================
