# VPU-50 SCADA: a TLA+ development

TLA+ models of the supervisory software of the VPU-50 vacuum emulsifying plant (the Python package `scada/` and
the control rows of its QML interface), the TLC runs that check them on small instances, and theorems about them
that TLAPS checks for every value of the constants. Source paths below are relative to `src/`.

Contents: [the system](#1-the-system) · [the modules](#2-the-modules) · [the runs](#3-the-runs) ·
[fairness](#4-fairness) · [what is proved](#5-what-is-proved) ·
[divergences](#6-where-code-and-documentation-disagree) · [not modelled](#7-what-is-not-modelled-and-why) ·
[plan](#8-plan)

## 1. The system

A Qt process (`main.py`) creates one `ScadaController` and hands it to a QML interface. The controller owns
every store and the plant; a second thread polls the PLC over Modbus TCP.

| Component | State it keeps | Operations that change it | Talks to |
|---|---|---|---|
| Audit trail `scada/audit.py` | `audit_events` table in `audit.db`, each row chained by HMAC to the one before | `append`; `verify_chain` reads | called by controller and alarm manager; other processes with the same `--runtime-dir` share the file |
| Alarm manager `scada/alarms.py` | `_active_alarms` (in memory only) | `evaluate_telemetry`, `acknowledge_alarm` | called by the controller's tick and by a slot; appends to the audit trail |
| Controller `scada/controller.py` | session, `_active_batch_id`, `_telemetry`, `_plc_online` | slots `loginUser`, `setProcessSetpoint`, `startBatch`, `endBatch`, `acknowledgeAlarm`; `_on_tick` every 500 ms; `_on_modbus_telemetry` | historian, audit trail, alarm manager, simulator, polling thread (queued signals) |
| Plant simulator `scada/simulation.py` | tag values, `target_...`, `is_heating`, `is_cooling`, `is_vacuum_on` | `step` (once per tick) | written by `setProcessSetpoint` |
| Historian `scada/store.py` (`HistorianStore`) | `batches`, `telemetry_samples` | `start_batch`, `end_batch`, `write_samples` | controller |
| Recipe and run database `scada/store.py` (`ScadaDatabaseStore`) | master recipes, their audit log, batch runs, batch events | create, update, approve, deprecate, delete; start, event, end of a run | one connection per call, any number of clients |
| Step download `scada/modbus/handshake.py`, `worker.py` | PLC registers D50–D59, coils M1, M2, M3 | `download_step`, `abort_execution` | PLC, on the caller's thread |
| Polling thread `scada/modbus/worker.py` | `_running`, `_is_connected`, `_last_step_done_coil`, heartbeat, the socket | `run`, `stop` | PLC; signals to the controller |
| Register map `scada/modbus/delta_map.py` | none | packing and unpacking of registers | step download, polling thread |
| QML main window `PVA_VPU50_SCADAContent/Main_frame_screen.qml`, `ConfirmationModal.qml`, the mode modals, `Screen_4_Alarms.qml` | control rows (`isPlaying`, presets, valve confirmations), dialogs, alarm list, header and badge | media buttons, dialogs, acknowledgements | its own state; it never calls the controller's slots |
| QML login, navigation, other screens | user level, the screen shown, local input | clicks | — |
| Cortex agents, recipe archive, catalogues, launcher, deployment scripts | none, or in memory only | reports; seeding; packaging | — |

What is hard about it:

* **Two processes on one file.** `append()` reads the last hash outside the transaction of its INSERT.
  `update_recipe()` and `start_batch_run()` likewise read in one transaction and write in another.
* **Audit last.** Every slot changes its state (and commits to the historian) first and appends to the audit
  trail last. An append that raises, or a crash, leaves a change without its event; inside
  `evaluate_telemetry()` it also ends the loop over the catalogue and with it the tick.
* **Volatile and persistent state.** Active alarms, the active batch and the session die with the process;
  historian and trail do not.
* **Requests without a lock.** `download_step()` runs on the thread of its caller; each Modbus request can take
  effect and raise, or have no effect and return.
* **Loops with memory.** Heating or cooling is decided when a setpoint is set and not afterwards; the pump is
  switched by the setpoint, not by the pressure.
* **Two sources of telemetry.** PLC readings, `setProcessSetpoint()` and the tick all write `_telemetry`.
* **Words.** A step becomes ten 16-bit registers: rounding, sign, wrap and else branches decide what the PLC is
  told, and the read-back compares words with words.
* **Dialogs that outlive what they were opened for.** One confirmation dialog serves two rows and the P&ID, with
  a target and a valve list that are set by some openings only; the signature dialog leaves the header in reach.

What makes the components correct, in the order of importance used for the plan: the trail can be trusted (a
broken chain means something, no false accusation); no alarm condition is missed and no alarm vanishes without
an acknowledgement; a batch record is closed, and complete but for ticks that raise; the PLC starts only what was
verified; a run executes
only what was approved; loops stay within what they were told and get there; the thread comes back after a loss
and ends when asked; a row of the main window runs only on the valves that were verified for it.

## 2. The modules

Every module has one action per operation or handler. Operators whose name ends in `Mut` are variants with a
plausible bug: no specification uses them; each is put in place of the definition that follows it to confirm
that a property really depends on that code.

| Module | Models | Composition |
|---|---|---|
| `AuditTrail` | `append` in two steps (`ReadLastHash`, `Insert`), its failure (`Rollback`), `verify_chain` as `ChainVerifies`, `BrokenAt`, `TamperedAt` | |
| `AlarmLatch` | the life cycle promised for one alarm (abstract) | |
| `AlarmManager` | `evaluate_telemetry` (complete or cut short), `acknowledge_alarm`, audit failures, restart | implements `AlarmLatch`, once per alarm |
| `ScadaController` | session, batches, tick, acknowledgement, restart, over historian and alarm manager | instantiates `AlarmManager` |
| `PlantControl` | `setProcessSetpoint`, `_on_modbus_telemetry`, `_on_tick` over the simulator's drive, heating/cooling and vacuum loops | |
| `RecipeStore` | every writing method of `ScadaDatabaseStore`, in its transactions | |
| `VerifiedStart` | what the handshake promises of the PLC (abstract) | |
| `DeltaRegisterMap` | the packing of a step and the unpacking of telemetry (pure operators), and what the registers mean to the PLC | |
| `StepDownload` | `download_step`, `download_step_with_readback`, `abort_execution`, request by request, and the PLC they command | extends `DeltaRegisterMap`, implements `VerifiedStart` |
| `ModbusWorker` | `run` and `stop`, the network and the step-done coil | |
| `OperatorScreen` | the control rows, the confirmation and settings dialogs, the alarm list with header and badge | |
| `...Proofs` | theorems about the module they extend | |
| `MC...` | the values of the constants for TLC | |

### State and code

**AuditTrail.** `rows` is the table in `sequence` order, `calls` the appends between their SELECT and their end,
`overlapped` a history variable: were two appends ever in flight together? A `record_hash` is the sequence of
events it commits to, i.e. the HMAC is taken to be collision-free and the key to be the same for all stores. A
crash during an append is `Rollback`: sqlite leaves nothing of an uncommitted row.

**AlarmManager.** `alarms[a]` is the state of the dictionary entry (`"normal"`: no entry), `ackedBy` its
`acknowledged_by`, `trail[a]` the last audit event about the alarm. `unaudited`, `condition` and `epoch` are
history; `epoch` changes at a restart only, so that no step but a restart can pass for one in the refinement. The
telemetry is abstracted to the set `beyond` of alarms whose tag is beyond its limit; the alarm order of the
catalogue matters (a failing append ends the loop), so alarms are numbers. Alarms on tags the tag catalogue does
not know (the `system.*` ones) are skipped by the loop and therefore not in the model.

**ScadaController.** `session`, `active`, and the alarm manager's variables are the controller's; `batch` and
`samples` the historian's two tables; `record` the last audit event about each batch. Each slot has one action
for the append that returns and one for the append that raises; the tick may stop at the audit append
(`TickRaises`) or at the historian (`TickLosesSamples`): in both the alarm is listed and the values of the tick are
lost. `excursions` and `cut` are history: in which batches an evaluation found the product beyond its limit,
recorded or not, and in which of these no such tick got as far as recording. `Near(t)` over-approximates the
simulator, which `PlantControl` has in detail.

**PlantControl.** `value`, `target`, `heating`, `cooling`, `vacuumOn` are the simulator's fields; `shown` is the
product temperature in `_telemetry`. Values are counted in units in which every rate and setpoint is a whole number
(5/1000 of a degree for the heater's 0.045 and 0.225 degrees and the jacket's 0.175, for instance), and the rates
are constants; the run gives them small values that keep the order of things. A drive does not move within
its deadband (0.1 or 1.0 rpm); the heater's step is not clamped, so a product may end above its setpoint by less
than what the heater adds in a tick at 20 %; jacket, pump and vent are clamped. Two steps are ranges, not values:
what the heater adds far from the setpoint (between its 20 % and its 100 %) and what the ambient air takes or gives
(between nothing and `Loss`). `lowest`, `highest` and `reached` are history.

**RecipeStore.** One row per recipe and run; `call[c]` is what a client carries from its read to its commit;
`log` is the action of the last log row of a recipe, `lifecycle` the status that the last `batch_start` or
`batch_end` event of a run tells, by whomever it was written: `record_batch_event()` takes any type and any detail.
`Seed` is the seeding of recipes in `initialise()`, for any catalogue (the repository has none): approved from the
start, and its exceptions swallowed, so a recipe may lack its log row. `released`, `disturbed`, `seeded` and `claimed`
are history. sqlite transactions are atomic; a method that fits in one is one action.

**StepDownload.** `pc[d]` names the next request of a download, `abortPc` that of an abort. The PLC (`registers`,
`auto`, `start`, `abort`, `running`) is external: it is modelled from how the code drives it and takes the
rising edge of M1 at once. The content of the registers is a packed step (`Pack`) or `Garbled`. `stopped`
is history: it is set by every abort, downloads in flight or not, and lasts until a write of it fails, a download
selects the automatic mode after its last write, or a pulse starts a step between its last two writes.

**DeltaRegisterMap.** A step is a record with some of the keys `pack_step_setpoints()` looks up; `Default` has the
values of its `get` calls. Speeds, temperatures and pressures count hundredths of their unit, so that rounding
to units and to tenths is exact. `Tells`, `Near`, `Known` and `Fits` are the other side: what the comments of
the map say the PLC takes from each register, to which precision, and for which steps that can hold at all. A
step of more than 65535 seconds wraps and a mode identifier the map does not know falls into an else branch;
both are downloaded in the model and excluded from `SetpointsArrive` by `Fits` and `Known`. `Unpack` is
evaluated by `ASSUME`s of the MC module, as are the round trip of all 65536 words and the rounding.

**OperatorScreen.** One action per click; the code's handlers run to their end on one thread. `dialog` is the one
modal of the main window that is open: it covers the window, so no other control can be clicked. The signature
dialog (`signing`) covers nothing, so the header and the list remain in reach, and `pending` may be acknowledged
meanwhile. `target`, `loaded` and `ticked` are `activeConfirmTarget`, `activeOperationKey` and the list's ticks.
`basis` and `device` are history: on which valves a row was confirmed, and whether the dialog had been opened for
a device of the P&ID, which sets neither target nor list. Who signed an alarm is left out. The start of a row
without confirmation is `Play` alone.

**ModbusWorker.** `at` is the thread's place in its loop, `connected` and `open` are the flag and the socket,
which are not the same thing: pymodbus (external) opens a closed socket when a request is made.

## 3. The runs

Eight runs check the models, four show a disagreement of section 6.

| Run | Shows | Bounds, and why they are enough |
|---|---|---|
| `audit` | appends that never overlap give a verifying chain whatever fails; racing ones never cause a "tampered" report; the table is a tree of hashes; a verdict once given stays | 3 stores, 2 payloads, 4 rows: three appends with the same previous hash, a row before and after the fork |
| `audit_fork` | violation: two stores chain to the same record | same |
| `alarms` | no condition is missed; the trail tells the state of every listed alarm; each alarm implements `AlarmLatch`; an acknowledged alarm clears | the 3 alarms that can be evaluated (all of them), 2 users: an alarm before and behind the one whose append raises, a second acknowledgement by another user |
| `controller` | the tick never records into an ended batch; a batch has one recording period; the trail tells its status; an excursion is on record unless its ticks raised; a hot product is in the alarm list after every slot | seeded batch and 2 new ones, 2 end statuses, 2 roles, 2 temperatures: a batch started over another, ended by another's id, re-ended with another status |
| `plant` | the trail tells the setpoint in force; loops stay between setpoints, but for the heater's overshoot; a heated product is held, a chilled one stays chilled; setpoints are reached, a drive's up to its deadband | 1 drive with ramp 3 and deadband 1, setpoints within the deadband of rest and away from it; temperatures 1..9 with ambient 3 and limit 8, heater 2 to 3, jacket 2, air 1; vacuum −7..1: setpoints on both sides of each value, heating that ends above its setpoint, several ticks of travel. A behaviour sets one tag; the three loops share no state |
| `plc_readings` | violation: a reading of the PLC beyond the limit is overwritten unevaluated | same |
| `recipes` | runs execute approved contents; a version names one body unless updates overlap; log and events tell the status the tables hold, but for seeded recipes and events a caller wrote (`LogsTellStatus`) | 2 clients, 1 recipe (of the catalogue) to version 3, 2 bodies, 1 run: two overlapping updates and a third in between |
| `recipe_snapshot` | violation: the snapshot is not of the current approved recipe | same |
| `download` | the PLC starts only what was read back; a verified download started its step, and the PLC is told what the recipe says; an abort stops | 1 thread, 5 steps: one with halves to round, a negative vacuum and both agitator speeds, one with the other mode of every group, two whose seconds have the same low word, one with an unknown mode; a failed download followed by one of another step, an abort at any request |
| `download_race` | violation: two threads | 2 threads, 2 steps |
| `operator_screen` | a running row was confirmed on the valves of its preset; settings are locked while it plays; badge and header tell the alarm list | 3 rows, one without and two with confirmation, 2 presets each with no, the same or different valves open; 2 manual valves; 2 alarms: a dialog of one row after another's, a signature overtaken by the header |
| `worker` | a step is signalled once per rise; the socket is closed at the end; the thread ends; the connection is found again | no parameters: this is the whole module |

The bounds of the models themselves are `MaxRecords` (rows of the audit table), `MaxVersion` (versions of a
recipe) and `Together` (tags set in one behaviour of the plant); they appear in guards. Everything else that is
finite in a run is a constant. `TypeOK` is checked in every passing run. Deadlock is checked in all of them: no
model can stop, because users, failures and the timer are always possible. The audit run's full table still
allows rollbacks and reads.

Properties are stated in the module of the component, next to a comment that says what they mean. Those of most
interest:

* `NoFalseTamperReport`, `VerdictIsFinal`: what an auditor may conclude from `verify_chain()` even when stores
  raced.
* `AcknowledgedAlarmClears`: the loop that an append can cut short does not starve an alarm further down the
  catalogue. It holds because an alarm whose append raised is already in the dictionary, so the next tick's loop
  gets past it.
* `RecordIsClosed`: across `startBatch` over a running batch, `endBatch` of any id, and restarts, no batch ever
  gets a second recording period.
* `ExcursionIsOnRecord`: relates every evaluation during a batch to the samples of that batch, in both directions. It
  states its exception: a tick that raises after it has listed the alarm loses its values, and if all
  excursion ticks of a batch do, the record does not show the excursion.
* `HotProductIsListed`: through every slot and every tick that raises, the list does not lose the alarm of a product
  that is still hot.
* `AbortStops`: what an abort reaches whatever download is in flight or called meanwhile. What it does not reach is
  in its exception: an abort does not end a download, which goes on to select the automatic mode, or pulses M1 after
  the abort has released M3 and before it takes M2 back, and its step runs. Nothing in the repository calls
  `abort_execution()` yet.
* `WithinSetpoints`, `SetpointsAreReached`: how far from its setpoint a loop may end: a deadband for a drive, less
  than a tick of the heater above for a product.
* `ChilledStaysChilled`: the direction of heating or cooling is decided with the setpoint, and nothing decides it
  again.
* `StartsOnlyVerified`: the handshake as a refinement, under partial failure of every request.
* `SetpointsArrive`: composes the register map with the handshake: not the words but what the PLC runs is compared
  with what the caller asked for.
* `RunsOnVerifiedValves`: a history of dialogs against the preset of a row; it depends on every place where a
  confirmation is taken back. It excepts a row started from a device's dialog, where the code does start the
  last target on the last list (listed as a hazard).
* `OneSignalPerPulse`: needs `_last_step_done_coil` to survive a reconnection.

## 4. Fairness

* `AlarmManager!FairSpec`: `WF(Tick)`. The controller's `QTimer` calls the evaluation every 500 ms and nothing
  stops it; an exception in one tick does not stop the next. Users and the audit trail owe nothing: appends may
  fail at every tick.
* `ModbusWorker!FairSpec`: `WF(Worker)`, the thread makes passes; `SF(Connect)`, an attempt is made when five
  seconds have passed since the last, so passes that find the PLC reachable cannot always be the ones that skip
  it. The network, the PLC and `stop()` are not fair.
* `PlantControl!FairSpec`: `WF(Tick)`, the same timer. Every tick of the heater, the jacket, the pump, the vent and a
  drive out of its deadband moves its loop, so nothing more is needed. Of drifting nothing is claimed.

## 5. What is proved

First, what the runs check, for every value of the constants:

| Module | Theorem | Statement |
|---|---|---|
| `AuditTrailProofs` | `TypeCorrect`, `SerialAppendsVerifyAlways`, `NoFalseTamper`, `HashTree`, `VerdictFinal` | all properties of the run `audit`, for any stores, payloads and table size |
| `AlarmManagerProofs` | `TypeCorrect`, `NoAlarmIsMissed`, `TrailCorrect`, `LatchImplemented` | all safety properties of the run `alarms`, for a catalogue of any size and any users |
| `ScadaControllerProofs` | `TypeCorrect`, `ActiveIsRunning`, `TrailTellsStatus`, `RecordCloses`, `ExcursionRecorded`, `HotProductListed` | all properties of the run `controller`, for any users, roles, batches, end statuses and limit (`HotProductListed`: a limit above the temperature the program starts at) |
| `RecipeStoreProofs` | `TypeCorrect`, `RunsApproved`, `OneBodyPerVersion`, `LogsAreTrue` | all properties of the run `recipes`, for any clients, recipes, bodies, runs and versions |
| `StepDownloadProofs` | `TypeCorrect`, `AbortLeavesStopped` | for any number of threads, in the middle of a download or not, and any steps |
| | `SerialIsVerified`, `SerialStarts`, `SerialSetpointsArrive` | the other properties of the run `download`, for any number of threads and any steps, as long as calls of `download_step()` do not overlap; `OneThreadIsVerified`, `OneThreadStarts` and `OneThreadSetpointsArrive` say the same of a single thread |
| `ModbusWorkerProofs` | `TypeCorrect`, `SignalsOnce`, `EndsClosed` | the safety properties of the run `worker` |
| `PlantControlProofs` | `TypeCorrect`, `LoopsStayWithin`, `EventsTellTarget`, `HeatedProductStays`, `ChilledStays` | the safety properties of the run `plant`, for any drives, settings, rates, deadbands, ambient temperature and limit, and any combination of loops set together |
| `OperatorScreenProofs` | `TypeCorrect`, `ValvesAreVerified`, `SettingsStay`, `AnnunciatorIsTrue` | all properties of the run `operator_screen`, for any rows, presets, valves and alarms |

Second, what no run states:

| Module | Theorem | Statement |
|---|---|---|
| `AuditTrailProofs` | `ForksAreFound` | `verify_chain()` passes exactly when no two rows name the same previous hash |
| | `VerifiedHashCommits` | the hash of a row up to which the table verifies is that of all payloads before it |
| | `OneVerdictAlways`, `RowsKept` | the verdict is verified or broken, never tampered; the table is append-only |
| | `OneStoreIsChained` | with one store on the file every record is chained, whatever fails |
| `AlarmManagerProofs` | `ClearingApproaches` | an evaluation that does not reach a waiting alarm has used up an earlier one |
| `ScadaControllerProofs` | `ControllerListsConditions`, `ControllerAlarmTrail` | what is proved of the alarm manager holds of the one inside the controller |
| | `ImplementsAlarmManager` | every step of the controller is a step of the alarm manager or leaves it alone: by the way the module is composed, and only a lemma of these two |
| `RecipeStoreProofs` | `EditsAreDrafts`, `VersionsCount`, `RunsImmutable` | no edit leaves a recipe approved; undisturbed, edits count versions; of a stored run only the status changes |
| | `OneClientSnapshots`, `OneClientVersions` | with one client a run is a snapshot of the current approved recipe, and no version is given twice |
| `StepDownloadProofs` | `PackTells`, `PackTellsApart`, `WordsRoundTrip`, `TelemetryTells` | for every step in the range of its registers the packed words tell the PLC what the step asks for, two steps packed alike ask for the same to the precision of the registers, and words come back with their sign |
| `ModbusWorkerProofs` | `StopEndsPass`, `SignalsAlternate` | after `stop()` the thread has at most three steps left; between two step-done signals the coil has risen |
| `PlantControlProofs` | `TicksApproach`, `TemperatureMoves` | every tick brings a loop that may move nearer to its setpoint, and none but the heater past it; the product moves by at most the largest of its rates |
| | `PumpHoldsVacuum` | what the simulator cannot do: vent while the pump is on |
| `OperatorScreenProofs` | `OnlyDevicesMislead`, `AcksAreMeant` | the exception of `RunsOnVerifiedValves` is needed for device dialogs only; an acknowledgement goes to the alarm it was meant for |

Assumptions are the named `ASSUME`s of the models: that a bound is a number, that "no user" is no user, "no batch"
no batch and "no step" no step, that an end status is neither "absent" nor "running", that the seed and the first
session exist, that `Garbled` is no packed step, that the tags are different, that the catalogue names recipes
(`CatalogueAssumption`), that rates are positive and ordered as in the simulator: the heater adds no less at 100 %
than at 20 %, and no more than `Close` (`RateAssumption`). TLC evaluates them in the runs. Further assumptions are
hypotheses of single theorems and not of a model, because the code does not see to them: `OneStore` (one
`AuditStore` on the file), `OneClient` (one client of the recipe database), `Serial` (no two calls of
`download_step()` in flight at once, as a lock would ensure), `OneThread` and `NoDevice` (no dialog opened by a tap
on the P&ID). Runs `audit_fork`, `recipe_snapshot` and `download_race` show that the conclusions are false without
the first four. `HotProductListed` asks that the limit is above the temperature the program starts at: before its
first tick it has evaluated nothing.

*Audit trail.* `SerialAppendsVerify` alone is not inductive: when a call inserts, one must know that its hash was
read from the row that is still the last. The invariant adds `SerialCall` (without overlap the one call in flight
holds the last hash), `RowsSelfConsistent` (a row's hash is always computed over its own `previous`) and
`CallsExtendRows` (a call holds the genesis hash or that of a stored row). `RowsSelfConsistent` gives
`NoFalseTamperReport` at once: a row that fails the second test of `verify_chain()` has failed the first.
`VerdictFinal` is an action property: `Insert` only appends, so what was said of earlier rows stands. What a
verdict means is the second invariant, `VInv`: hashes of rows are distinct, because the column is UNIQUE
(`HashesDistinct`), and none is the genesis hash (`HashesCommit`). From these, by the first row that does not
continue the table: it names the genesis hash or an earlier row, and that one already has its successor among the
rows that do continue it. So a table that does not verify has two rows with one previous hash.

*Alarm manager.* The invariant is `TypeOK /\ SeenConditionIsListed /\ TrailTellsState`. The core is one lemma,
`ProcessOneAlarm`, which says what the loop does to one alarm, reached or not; everything else, the refinement of
`AlarmLatch` included, follows from it alarm by alarm. `ClearingApproaches` is the argument for
`AcknowledgedAlarmClears`: a loop that does not reach a waiting alarm ended at an earlier one, which it has taken
from "normal" to "unacked"; it may have cleared alarms before that one, but none behind. So the set of raisable
alarms, read with the last as the highest digit, falls with every such evaluation, and no other step but a restart
makes an alarm raisable.

*Controller.* The invariant is `BatchInv == BatchType /\ ActiveBatchIsRunning /\ BatchTrailTellsStatus`; type
correctness of the alarm part comes from `AlarmManagerProofs`, instantiated with the controller's variables and a
catalogue of one alarm. `ExcursionRecorded` has its own invariant, `ExcursionInv`, because `cut` means something only
together with the samples: a batch is taken out of `cut` by the step that records a sample beyond the limit, and put
in only when it had none. `HotProductListed` adds that the condition the manager last saw is that of the temperature
shown (`ConditionIsOfTemperature`): a tick that raises after the evaluation has changed both.

*Recipe database.* What a client carries from its read to its commit may be stale, so the invariant says of a call
only what no other client can take back: a run about to be inserted has contents that were released
(`StartsReleased`), and as long as updates of a recipe have not overlapped, an update in flight is one version
ahead of the row (`UpdatesAreNext`) and whatever was released is not ahead of it (`ReleasedIsPast`). With one
client, `HeldIsCurrent` says more: what it holds between read and commit is what the table holds.

*Step download.* Two invariants. For any number of threads, `CallInv`: a call in flight has arguments, and an
abort none of whose writes failed has reached what its place in the code says (`AbortProgress`), whatever
downloads do meanwhile: a pulse can start a step before the abort's first write, which drops it, not while M3 is
held, and after that only with the exception of `AbortStops`. For serial calls,
`CheckedBeforeStart` (from the read-back to the pulse the registers hold the verified step), which gives the
refinement, and `QuietInv`: until a coil write fails or an abort overlaps a download, M1 and M3 are down
whenever nobody holds them, so that the pulse has an edge, and what was started is what was wanted.
`SetpointsArrive` follows from it with `PackTells`, which is arithmetic: `Rounded` is a nearest integer within
the range of its argument (`RoundedHundred`, `RoundedTen`), a word in range survives the remainder
(`WordRoundTrip`) and the nine mode bits tell the known modes (`BitsTell`).

*Polling thread.* The two safety properties are inductive together with the types. `StopEndsPass` counts the steps
a stopped thread has left (`StepsLeft`, at most three): each step of the thread takes one, and nothing gives one
back.

*Plant.* `LoopInv` adds to types and ranges that a loop follows a setpoint it was given or stands where it began
(`TargetIsAsked`); the core is `LoopStep`: in a tick a loop moves towards its setpoint or its rest and not past it,
but for the heater, which starts below the setpoint and adds `LeastGain` when it is within `Close` of it, and farther
away no more than `Close`, so that it ends less than `LeastGain` above. That a heated product is held is inductive
over types alone, because a product below its setpoint does not drift; that a chilled one stays is inductive because
nothing but a drift is left to it. `TicksApproach` is the safety half of `SetpointsAreReached`.

*Operator screen.* The interlock rests on what an open dialog implies: a settings dialog belongs to a row that
does not play (`StoppedWhileOpen`), and a confirmation dialog that no device opened lists the valves of the preset
of its target (`DialogOfRow`). Without device dialogs no row was ever confirmed in one (`NoneByDevice`), and the
exception falls away.

Model-checked only: liveness (`AcknowledgedAlarmClears`, `ThreadEnds`, `Reconnects`, `SetpointsAreReached`),
because the prover handles neither fairness nor ENABLED. Of the first, second and fourth the steps that do the
work are proved (`ClearingApproaches`, `StopEndsPass`, `TicksApproach`); that such steps keep being taken is the
fairness. Every other property of a passing run is stated by a theorem. No recursion over data is used in the
models: a chain is verified by a quantifier over rows, so nothing needs an induction principle the provers cannot
instantiate.

## 6. Where code and documentation disagree

1. **The audit chain forks** (`audit_fork`). `audit.py:3-4`: every record is chained to the previous record's
   hash. Two clients on one runtime directory read the same last hash; both rows are stored and
   `verify_chain()` reports a broken chain although nobody tampered with it. With one store the sentence is true
   (`OneStoreIsChained`), and with several `verify_chain()` reports these forks and nothing else (`ForksAreFound`).
2. **A batch run of a recipe that is no longer approved** (`recipe_snapshot`). `store.py:314` promises a
   snapshot "of the current approved recipe"; the check and the insert are on different connections. What does
   hold is `RunsWereApproved`: the content was approved once. With one client the docstring is true
   (`OneClientSnapshots`).
3. **`download_step()` is not thread-safe** (`download_race`). `worker.py:124` says "Thread-safe"; a second
   thread can overwrite D50–D59 between the read-back and the start pulse. If calls do not
   overlap, from however many threads, `VerifiedStepStarted` holds (`SerialStarts`).
4. **PLC readings are never evaluated** (`plc_readings`). `docs/ARCHITECTURE.md:7` describes the simulator as a
   fallback; `_on_tick()` overwrites the PLC's readings at every tick before it evaluates alarms.

## 7. What is not modelled, and why

* **QML login and navigation rights**: a user level that is compared with literals at the click; no state but
  the level and the screen shown. **Other screens, widgets, drawing and layout**: local input state. Of the
  control rows, the angles and times of row 5 and the thermal clocks are left out: they only count.
* **Historian reads, audit listing, alarm listing**: they change nothing.
* **Jacket temperature, heater power, output rounding**: no handler acts on them. Level and weight are never
  changed: nothing sets `is_filling` or `is_draining`. This is why the plant is "partly" modelled.
* **Cortex agents** (`scada/cortex.py`): figures computed from their arguments and a list in memory. The tools
  they read through call `historian.get_batch` and `historian.query_samples`, which `HistorianStore` does not
  have, so a review report raises before it has looked at a batch; there is no behaviour to relate to the record.
* **Recipe archive** (class `RecipeStore`): one `INSERT OR REPLACE` and a read. **Catalogues, launcher, packaging,
  C++ shell, vendored code**: constant data, or not part of the running system.

External parts, modelled from how `src/` uses them: sqlite (a transaction commits as a whole), the HMAC
(collision-free), pymodbus (a request is atomic at the PLC; a closed socket is opened by a request), the PLC
(M1 edge with M2 and without M3 starts the step in the registers; M3 drops it; the vacuum register is signed).

## 8. Plan

The plan in its order, all of it done: `AuditTrail`, `AlarmManager`, `ScadaController`; `RecipeStore`,
`StepDownload`, `ModbusWorker`, `PlantControl`; `DeltaRegisterMap` folded into `StepDownload`; `OperatorScreen`;
the proofs of every safety property; the preconditions under which the documents of section 6 are true; the safety
half of three of the four liveness properties; the theorems of the alarm manager carried over to the controller.

Left to prove: the reconnection (`Reconnects`) has no ranking, because it rests on a strong fairness;
`PlantControl` as an implementation of the temperature of `ScadaController` (`TemperatureMoves` is its step).

What could follow if the code grows: the controller calling `download_step()` (nothing does today), from which
the step index of `stepDoneSignaled`, written before the download is verified, and the simulated answer of an
offline download would become properties, and `abort_execution()` with it; a QML interface that calls the controller's slots,
composing `OperatorScreen` with `ScadaController`.
