--------------------------- MODULE ScadaController ---------------------------
(***************************************************************************)
(* The batch side of scada/controller.py: the user session, the active     *)
(* batch and its record in the historian, the 500 ms tick, and the alarm   *)
(* manager the tick drives (module AlarmManager, instantiated as Alarms).  *)
(* Setpoints and the telemetry shown to the user are in PlantControl.      *)
(*                                                                         *)
(* The controller's slots, its timer and the queued signals of the Modbus  *)
(* thread run on one Qt thread: a slot is one step, and it stops early     *)
(* only when a call in it raises.  Each slot commits to the historian      *)
(* before it appends to the audit trail, so there is an action for the     *)
(* append that succeeds and one for the append that raises; a crash        *)
(* between the two is the second followed by Restart.                      *)
(*                                                                         *)
(* Of the alarms of the catalogue only ALM-TEMP-HIGH can be raised by the  *)
(* values the simulator returns: the vacuum stays at or below -5 mbar and  *)
(* the seal pressure is constant.                                          *)
(***************************************************************************)
EXTENDS Naturals

CONSTANTS
  User,       \* user_id given to loginUser()
  Role,       \* role_id given to loginUser()
  Operating,  \* roles of role_catalog.json with batch.execute and alarm.acknowledge
  FirstUser,  \* the session before any login: "operator" with role "operator"
  FirstRole,
  Nobody,     \* acknowledged_by = None
  Batch,      \* batch ids of the historian
  Seeded,     \* the batch _seed_sample_batches() stores
  NoBatch,    \* _active_batch_id = None
  EndStatus,  \* {"completed", "aborted", "released"}, which end_batch() accepts
  MaxTemp,    \* product temperatures are 0..MaxTemp
  High        \* the alarm_high limit of the temperature tag

ASSUME SessionAssumption ==
  /\ Operating \subseteq Role
  /\ FirstUser \in User
  /\ FirstRole \in Role
  /\ Nobody \notin User

ASSUME BatchAssumption ==
  /\ Seeded \in Batch
  /\ NoBatch \notin Batch
  /\ "absent" \notin EndStatus
  /\ "running" \notin EndStatus
  /\ "completed" \in EndStatus

ASSUME TempAssumption == MaxTemp \in Nat /\ High \in Nat

VARIABLES
  session,    \* _current_user and _current_role
  temp,       \* the product temperature the simulator returned last
  active,     \* _active_batch_id
  batch,      \* the status column of the historian; "absent" is no row
  samples,    \* the temperatures recorded under each batch
  record,     \* the last audit event about each batch
  unrecorded, \* history: batches whose last audit append raised, and the seed
  excursions, \* history: batches during which an evaluation found the product beyond its limit
  cut,        \* history: of these, the ones none of whose such ticks recorded its values
  alarms, ackedBy, trail, unaudited, condition, epoch  \* the alarm manager

Alarms == INSTANCE AlarmManager WITH CatalogSize <- 1, Actor <- User

alarmVars == <<alarms, ackedBy, trail, unaudited, condition, epoch>>
batchVars == <<active, batch, samples, record, unrecorded, excursions, cut>>
vars == <<session, temp, batchVars, alarmVars>>

Level == 0..MaxTemp
Session == [user : User, role : Role]
NoEvent == [action |-> "none", after |-> "absent"]
Started == [action |-> "BATCH_STARTED", after |-> "running"]
Ended(s) == [action |-> "BATCH_ENDED", after |-> s]

TypeOK ==
  /\ session \in Session
  /\ temp \in Level
  /\ active \in Batch \cup {NoBatch}
  /\ batch \in [Batch -> {"absent", "running"} \cup EndStatus]
  /\ samples \in [Batch -> SUBSET Level]
  /\ record \in [Batch -> {NoEvent, Started} \cup {Ended(s) : s \in EndStatus}]
  /\ unrecorded \subseteq Batch
  /\ excursions \subseteq Batch /\ cut \subseteq Batch
  /\ Alarms!TypeOK

Init ==
  /\ session = [user |-> FirstUser, role |-> FirstRole]
  /\ temp = 0
  /\ active = NoBatch
  /\ batch = [b \in Batch |-> IF b = Seeded THEN "completed" ELSE "absent"]
  /\ samples = [b \in Batch |-> IF b = Seeded THEN {0} ELSE {}]
  /\ record = [b \in Batch |-> NoEvent]
  /\ unrecorded = {Seeded}
  /\ excursions = {} /\ cut = {}
  /\ Alarms!Init

\* security.enforce() for batch.execute and alarm.acknowledge.
MayOperate == session.role \in Operating

\* loginUser(): the session has changed whether or not the append raises.
Login(u, r) ==
  /\ session' = [user |-> u, role |-> r]
  /\ UNCHANGED <<temp, batchVars, alarmVars>>

(***************************************************************************)
(* startBatch(): a new id every time; a batch that is active stays behind  *)
(* in the historian as running.                                            *)
(***************************************************************************)

Store(b) ==
  /\ MayOperate
  /\ batch[b] = "absent"
  /\ batch' = [batch EXCEPT ![b] = "running"]
  /\ active' = b
  /\ UNCHANGED <<session, temp, samples, excursions, cut, alarmVars>>

StartBatch(b) ==
  /\ Store(b)
  /\ record' = [record EXCEPT ![b] = Started]
  /\ UNCHANGED unrecorded

StartBatchRaises(b) ==
  /\ Store(b)
  /\ unrecorded' = unrecorded \cup {b}
  /\ UNCHANGED record

(***************************************************************************)
(* endBatch(): any id is accepted, whatever its status and whether it is   *)
(* the active one, and the active batch is forgotten in every case.        *)
(***************************************************************************)

\* Mutant: the active batch is forgotten only if it is not the one that ends.
CloseMut(b, s) ==
  /\ MayOperate
  /\ batch[b] # "absent"
  /\ batch' = [batch EXCEPT ![b] = s]
  /\ active' = IF active = b THEN active ELSE NoBatch
  /\ UNCHANGED <<session, temp, samples, excursions, cut, alarmVars>>

Close(b, s) ==
  /\ MayOperate
  /\ batch[b] # "absent"
  /\ batch' = [batch EXCEPT ![b] = s]
  /\ active' = NoBatch
  /\ UNCHANGED <<session, temp, samples, excursions, cut, alarmVars>>

\* Mutant: the event tells the status "completed" whatever was asked for.
EndBatchMut(b, s) ==
  /\ Close(b, s)
  /\ record' = [record EXCEPT ![b] = Ended("completed")]
  /\ unrecorded' = unrecorded \ {b}

EndBatch(b, s) ==
  /\ Close(b, s)
  /\ record' = [record EXCEPT ![b] = Ended(s)]
  /\ unrecorded' = unrecorded \ {b}

EndBatchRaises(b, s) ==
  /\ Close(b, s)
  /\ unrecorded' = unrecorded \cup {b}
  /\ UNCHANGED record

\* Mutant: INSERT OR REPLACE in place of the UPDATE.
EndUnknownBatchMut ==
  /\ MayOperate
  /\ active' = NoBatch
  /\ batch' = [b \in Batch \cup {NoBatch} |-> IF b = NoBatch THEN "completed" ELSE batch[b]]
  /\ UNCHANGED <<session, temp, samples, record, unrecorded, excursions, cut, alarmVars>>

\* An id without a row: the UPDATE matches nothing, the rest happens.
EndUnknownBatch ==
  /\ MayOperate
  /\ active' = NoBatch
  /\ UNCHANGED <<session, temp, batch, samples, record, unrecorded, excursions, cut, alarmVars>>

(***************************************************************************)
(* _on_tick(): simulate, evaluate the alarms, record.                      *)
(***************************************************************************)

\* A level is at least as wide as what the product moves in a tick, so that it
\* stays in its level or comes to a neighbour (theorem TemperatureMoves of
\* PlantControlProofs); which of them the setpoints decide, left open here.
Near(t) == {l \in Level : l <= t + 1 /\ t <= l + 1}

\* The evaluation the tick makes of the temperature t.
Beyond(t) == IF t >= High THEN {1} ELSE {}

\* Mutant: the values of the tick before are recorded.
SampledMut(t) == IF active = NoBatch THEN samples ELSE [samples EXCEPT ![active] = @ \cup {temp}]

Sampled(t) == IF active = NoBatch THEN samples ELSE [samples EXCEPT ![active] = @ \cup {t}]

\* The batch during which the evaluation of t finds the product beyond its limit.
Exceeded(t) == {b \in Batch : b = active /\ t >= High}

\* Nothing raises.
TickRecords(t) ==
  /\ Alarms!Evaluate(Beyond(t))
  /\ samples' = Sampled(t)
  /\ cut' = cut \ Exceeded(t)

\* The historian raises: the alarm is raised and audited, the values are lost.
TickLosesSamples(t) ==
  /\ active # NoBatch
  /\ Alarms!Evaluate(Beyond(t))
  /\ cut' = cut \cup (Exceeded(t) \ excursions)
  /\ UNCHANGED samples

\* The audit append of a new alarm raises and ends the tick there.
TickRaises(t) ==
  /\ Alarms!EvaluateRaises(Beyond(t))
  /\ cut' = cut \cup (Exceeded(t) \ excursions)
  /\ UNCHANGED samples

Tick ==
  \E t \in Near(temp) :
    /\ temp' = t
    /\ TickRecords(t) \/ TickLosesSamples(t) \/ TickRaises(t)
    /\ excursions' = excursions \cup Exceeded(t)
    /\ UNCHANGED <<session, active, batch, record, unrecorded>>

\* Mutant: the acknowledgement deletes the alarm at once.
AcknowledgeAlarmMut ==
  /\ MayOperate
  /\ alarms[1] # "normal"
  /\ alarms' = [alarms EXCEPT ![1] = "normal"]
  /\ trail' = [trail EXCEPT ![1] = Alarms!Acknowledged(session.user)]
  /\ UNCHANGED <<session, temp, batchVars, ackedBy, unaudited, condition, epoch>>

\* acknowledgeAlarm() of an active alarm.
AcknowledgeAlarm ==
  /\ MayOperate
  /\ Alarms!Acknowledge(1, session.user) \/ Alarms!AcknowledgeRaises(1, session.user)
  /\ UNCHANGED <<session, temp, batchVars>>

\* Mutant: the batch that was running is taken up again.
RestartMut ==
  /\ session' = [user |-> FirstUser, role |-> FirstRole]
  /\ temp' = 0
  /\ active' \in {NoBatch} \cup {b \in Batch : batch[b] = "running"}
  /\ Alarms!Restart
  /\ UNCHANGED <<batch, samples, record, unrecorded, excursions, cut>>

\* The program stops, crashes or is killed, and is started again.
Restart ==
  /\ session' = [user |-> FirstUser, role |-> FirstRole]
  /\ temp' = 0
  /\ active' = NoBatch
  /\ Alarms!Restart
  /\ UNCHANGED <<batch, samples, record, unrecorded, excursions, cut>>

-----------------------------------------------------------------------------

Next ==
  \/ \E u \in User, r \in Role : Login(u, r)
  \/ \E b \in Batch : StartBatch(b) \/ StartBatchRaises(b)
  \/ \E b \in Batch, s \in EndStatus : EndBatch(b, s) \/ EndBatchRaises(b, s)
  \/ EndUnknownBatch
  \/ Tick
  \/ AcknowledgeAlarm
  \/ Restart

Spec == Init /\ [][Next]_vars

(***************************************************************************)
(* Properties                                                              *)
(***************************************************************************)

\* The batch the tick records under is one the historian holds as running: no
\* sequence of startBatch() and endBatch() calls with any ids, and no append
\* that raises in them, leaves the controller recording into an ended batch.
ActiveBatchIsRunning == active # NoBatch => batch[active] = "running"

\* A batch has one recording period: once it is stored and not active (ended,
\* or left behind by another startBatch(), an endBatch() of any id or a
\* restart) it never becomes active and no sample is added to it.
RecordIsClosed ==
  [][\A b \in Batch :
       batch[b] # "absent" /\ active # b => active' # b /\ samples'[b] = samples[b]]_vars

\* Unless its last append raised, the last audit event about a stored batch
\* tells the status the historian holds (startBatch, endBatch).
BatchTrailTellsStatus ==
  \A b \in Batch \ unrecorded :
    IF batch[b] = "absent" THEN record[b] = NoEvent
    ELSE record[b].action # "none" /\ record[b].after = batch[b]

\* The record of a batch and the alarms tell the same: a batch recorded while
\* an evaluation found the product beyond its limit holds a sample beyond it,
\* and no other batch does, whatever starts, ends, acknowledgements and restarts
\* come in between or after (_on_tick).  The exception is the tick that raises
\* after it has put the alarm in the list: its values are lost, and if that
\* happens to every tick that finds the product beyond the limit, the excursion
\* is in the list and in the audit trail at most, not in the record.
ExcursionIsOnRecord ==
  \A b \in Batch \ {Seeded} :
    LET recorded == \E t \in samples[b] : t >= High
    IN  (b \in excursions \ cut => recorded) /\ (recorded => b \in excursions)

\* A product at or beyond the limit is in the alarm list, after every slot:
\* neither a historian nor an audit trail that raises, no batch call, login or
\* acknowledgement takes it off, and a restart that empties the list starts with
\* a product below the limit (_on_tick, evaluate_telemetry).
HotProductIsListed == temp >= High => alarms[1] # "normal"
=============================================================================
