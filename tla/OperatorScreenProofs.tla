------------------------ MODULE OperatorScreenProofs ------------------------
(***************************************************************************)
(* The main window for any rows, presets, valves and alarms.               *)
(*                                                                         *)
(* The interlock rests on what an open dialog implies: a settings dialog   *)
(* belongs to a row that does not play, and a confirmation dialog that no  *)
(* device opened lists the valves of the preset of its target.             *)
(***************************************************************************)
EXTENDS OperatorScreen, FiniteSetTheorems, TLAPS

StoppedWhileOpen == \A r \in Row : dialog = r => ~playing[r]

DialogOfRow ==
  dialog = "confirm" /\ ~device => target \in ConfirmRow /\ loaded = mode[target]

PlaysConfirmed == \A r \in ConfirmRow : playing[r] => confirmed[r]

ConfirmedOnValves ==
  \A r \in ConfirmRow : confirmed[r] => basis[r].device \/ Opens[mode[r]] \subseteq basis[r].open

IInv ==
  /\ TypeOK
  /\ StoppedWhileOpen /\ DialogOfRow /\ PlaysConfirmed /\ ConfirmedOnValves
  /\ AnnunciatorTellsAlarms

-----------------------------------------------------------------------------

\* The presets of the rows with a confirmation are settings.
LEMMA PresetOfRow ==
  ASSUME NEW r \in Row, NEW m \in Mode[r]
  PROVE  m \in Setting /\ (r \in ConfirmRow => m \in Preset)
  BY DEF Setting, Preset

\* What the annunciator shows is in its range.
LEMMA Counted ==
  ASSUME NEW S \in SUBSET Alarm
  PROVE  /\ Cardinality(Alarm \ S) \in 0..Alarms
         /\ S = {} => Cardinality(Alarm \ S) = Alarms
<1>1. Alarms \in Nat
  BY ScreenAssumption
<1>2. IsFiniteSet(Alarm) /\ Cardinality(Alarm) = Alarms
  BY <1>1, FS_Interval DEF Alarm
<1>3. IsFiniteSet(Alarm \ S) /\ Cardinality(Alarm \ S) <= Cardinality(Alarm)
  BY <1>2, FS_Subset
<1>4. Cardinality(Alarm \ S) \in Nat
  BY <1>3, FS_CardinalityType
<1>5. S = {} => Alarm \ S = Alarm
  OBVIOUS
<1> QED
  BY <1>1, <1>2, <1>3, <1>4, <1>5

\* A step that leaves the alarm list alone and may raise the header.
LEMMA AlarmsKept ==
  ASSUME AlarmTypes, UNCHANGED alarmVars, header' = header \/ header' = TRUE
  PROVE  AlarmTypes'
  BY Zenon DEF AlarmTypes, alarmVars

\* The invariant holds initially.
LEMMA InitIInv == Init => IInv
<1> SUFFICES ASSUME Init PROVE IInv
  OBVIOUS
<1> USE ScreenAssumption DEF Init
<1>1. TypeOK
  <2>1. RowTypes
    BY DEF RowTypes
  <2>2. DialogTypes
    BY DEF DialogTypes
  <2>3. AlarmTypes
    <3>1. header \in BOOLEAN /\ signing = FALSE
      BY Zenon
    <3>2. acked \subseteq Alarm /\ pending \in 0..Alarms /\ badge \in 0..Alarms
      OBVIOUS
    <3> QED
      BY ONLY <3>1, <3>2, Zenon DEF AlarmTypes
  <2> QED
    BY <2>1, <2>2, <2>3 DEF TypeOK
<1>2. StoppedWhileOpen /\ DialogOfRow /\ PlaysConfirmed /\ ConfirmedOnValves
  BY DEF StoppedWhileOpen, DialogOfRow, PlaysConfirmed, ConfirmedOnValves
<1>3. AnnunciatorTellsAlarms
  <2>1. Cardinality(Alarm \ acked) = Alarms
    BY Counted
  <2>2. Alarms = 0 => Alarm = {}
    BY DEF Alarm
  <2>3. Alarms # 0 <=> header
    OBVIOUS
  <2>4. Alarms \in Nat
    OBVIOUS
  <2> QED
    BY <2>1, <2>2, <2>3, <2>4 DEF AnnunciatorTellsAlarms
<1> QED
  BY <1>1, <1>2, <1>3 DEF IInv

\* The media buttons.
LEMMA MediaIInv ==
  ASSUME IInv, NEW r \in Row, PlayToConfirm(r) \/ Play(r) \/ Pause(r) \/ Stop(r)
  PROVE  IInv'
<1> USE ScreenAssumption DEF IInv, Unconfirmed
<1>1. TypeOK'
  <2>1. mode[r] \in Mode[r]
    BY DEF TypeOK, RowTypes
  <2>2. r \in ConfirmRow => mode[r] \in Preset
    BY <2>1, PresetOfRow
  <2>3. RowTypes'
    BY DEF TypeOK, RowTypes, PlayToConfirm, Play, Pause, Stop
  <2>4. DialogTypes'
    BY <2>2 DEF TypeOK, DialogTypes, PlayToConfirm, Play, Pause, Stop, dialogVars
  <2>5. AlarmTypes'
    <3>1. UNCHANGED <<alarmVars, header>>
      BY DEF PlayToConfirm, Play, Pause, Stop
    <3> QED
      BY <3>1, AlarmsKept DEF TypeOK
  <2> QED
    BY <2>3, <2>4, <2>5 DEF TypeOK
<1>2. StoppedWhileOpen'
  BY DEF StoppedWhileOpen, TypeOK, RowTypes, DialogTypes, PlayToConfirm, Play, Pause, Stop, dialogVars
<1>3. DialogOfRow'
  BY DEF DialogOfRow, TypeOK, RowTypes, DialogTypes, PlayToConfirm, Play, Pause, Stop, dialogVars
<1>4. PlaysConfirmed'
  BY DEF PlaysConfirmed, TypeOK, RowTypes, DialogTypes, PlayToConfirm, Play, Pause, Stop
<1>5. ConfirmedOnValves'
  BY DEF ConfirmedOnValves, TypeOK, RowTypes, DialogTypes, PlayToConfirm, Play, Pause, Stop
<1>6. AnnunciatorTellsAlarms'
  BY DEF AnnunciatorTellsAlarms, PlayToConfirm, Play, Pause, Stop, alarmVars
<1> QED
  BY <1>1, <1>2, <1>3, <1>4, <1>5, <1>6

\* The settings of a row.
LEMMA SettingsIInv ==
  ASSUME IInv, NEW r \in Row,
         Refuse(r) \/ OpenSettings(r) \/ ApplySettings(r) \/ CloseSettings(r) \/ Adjust(r)
  PROVE  IInv'
<1> USE ScreenAssumption DEF IInv, Unconfirmed
<1>1. TypeOK'
  <2>1. \A m \in Mode[r] : m \in Setting
    BY PresetOfRow
  <2>2. RowTypes'
    BY <2>1 DEF TypeOK, RowTypes, Refuse, OpenSettings, ApplySettings, CloseSettings, Adjust, rowVars
  <2>3. DialogTypes'
    BY DEF TypeOK, DialogTypes, Refuse, OpenSettings, ApplySettings, CloseSettings, Adjust, dialogVars
  <2>4. AlarmTypes'
    <3>1. UNCHANGED alarmVars /\ (header' = header \/ header' = TRUE)
      BY DEF Refuse, OpenSettings, ApplySettings, CloseSettings, Adjust
    <3> QED
      BY <3>1, AlarmsKept DEF TypeOK
  <2> QED
    BY <2>2, <2>3, <2>4 DEF TypeOK
<1>2. StoppedWhileOpen'
  BY DEF StoppedWhileOpen, TypeOK, RowTypes, DialogTypes, Refuse, OpenSettings, ApplySettings, CloseSettings, Adjust,
         rowVars, dialogVars
<1>3. DialogOfRow'
  BY DEF DialogOfRow, TypeOK, RowTypes, DialogTypes, Refuse, OpenSettings, ApplySettings, CloseSettings, Adjust,
         rowVars, dialogVars
<1>4. PlaysConfirmed'
  <2>1. CASE ApplySettings(r)
    <3>1. ~playing[r]
      BY <2>1 DEF ApplySettings, StoppedWhileOpen
    <3> QED
      BY <2>1, <3>1 DEF ApplySettings, PlaysConfirmed, TypeOK, RowTypes
  <2> QED
    BY <2>1 DEF PlaysConfirmed, TypeOK, RowTypes, DialogTypes, Refuse, OpenSettings, CloseSettings, Adjust, rowVars
<1>5. ConfirmedOnValves'
  BY DEF ConfirmedOnValves, TypeOK, RowTypes, DialogTypes, Refuse, OpenSettings, ApplySettings, CloseSettings, Adjust,
         rowVars
<1>6. AnnunciatorTellsAlarms'
  BY DEF AnnunciatorTellsAlarms, Refuse, OpenSettings, ApplySettings, CloseSettings, Adjust, alarmVars
<1> QED
  BY <1>1, <1>2, <1>3, <1>4, <1>5, <1>6

\* The confirmation dialog: with the list of the target's own preset, what is
\* unlocked is verified.
LEMMA ConfirmationIInv ==
  ASSUME IInv, Confirmation
  PROVE  IInv'
<1> USE ScreenAssumption DEF IInv, Unconfirmed, Confirmation
<1>1. TypeOK'
  <2>1. RowTypes'
    <3>1. CASE ConfirmPositions
      <4>1. Opens[loaded] \cap ticked \subseteq Manual
        BY DEF TypeOK, DialogTypes
      <4> QED
        BY <3>1, <4>1 DEF TypeOK, RowTypes, DialogTypes, ConfirmPositions
    <3> QED
      BY <3>1 DEF TypeOK, RowTypes, TapDevice, ToggleValve, AbortPositions, rowVars
  <2>2. DialogTypes'
    BY DEF TypeOK, DialogTypes, TapDevice, ToggleValve, ConfirmPositions, AbortPositions
  <2>3. AlarmTypes'
    <3>1. UNCHANGED alarmVars /\ (header' = header \/ header' = TRUE)
      BY DEF TapDevice, ToggleValve, ConfirmPositions, AbortPositions
    <3> QED
      BY <3>1, AlarmsKept DEF TypeOK
  <2> QED
    BY <2>1, <2>2, <2>3 DEF TypeOK
<1>2. StoppedWhileOpen'
  BY DEF StoppedWhileOpen, TypeOK, RowTypes, DialogTypes, TapDevice, ToggleValve, ConfirmPositions, AbortPositions, rowVars
<1>3. DialogOfRow'
  BY DEF DialogOfRow, TypeOK, RowTypes, DialogTypes, TapDevice, ToggleValve, ConfirmPositions, AbortPositions, rowVars
<1>4. PlaysConfirmed'
  BY DEF PlaysConfirmed, TypeOK, RowTypes, DialogTypes, TapDevice, ToggleValve, ConfirmPositions, AbortPositions, rowVars
<1>5. ConfirmedOnValves'
  <2>1. CASE ConfirmPositions
    <3> SUFFICES ASSUME NEW r \in ConfirmRow, confirmed'[r]
                 PROVE  basis'[r].device \/ Opens[mode'[r]] \subseteq basis'[r].open
      BY DEF ConfirmedOnValves
    <3>1. mode' = mode
      BY <2>1 DEF ConfirmPositions
    <3>2. CASE r = target
      <4>1. basis'[r] = [open |-> Opens[loaded] \cap ticked, device |-> device]
        BY <2>1, <3>2 DEF ConfirmPositions
      <4>2. ticked = Manual /\ loaded # None
        BY <2>1 DEF ConfirmPositions, Unlocked
      <4>3. Opens[loaded] \subseteq Manual
        BY <4>2 DEF TypeOK, DialogTypes
      <4>4. ~device => loaded = mode[r]
        BY <2>1, <3>2 DEF ConfirmPositions, DialogOfRow
      <4> QED
        BY <3>1, <4>1, <4>2, <4>3, <4>4
    <3>3. CASE r # target
      BY <2>1, <3>1, <3>3 DEF ConfirmPositions, ConfirmedOnValves
    <3> QED
      BY <3>2, <3>3
  <2> QED
    BY <2>1 DEF ConfirmedOnValves, TypeOK, RowTypes, DialogTypes, TapDevice, ToggleValve, AbortPositions, rowVars
<1>6. AnnunciatorTellsAlarms'
  BY DEF AnnunciatorTellsAlarms, TapDevice, ToggleValve, ConfirmPositions, AbortPositions, alarmVars
<1> QED
  BY <1>1, <1>2, <1>3, <1>4, <1>5, <1>6

\* The alarm screen, the header and the sidebar.
LEMMA AnnunciatorIInv ==
  ASSUME IInv, Annunciator
  PROVE  IInv'
<1> USE DEF IInv
<1>1. UNCHANGED <<rowVars, dialogVars>>
  BY DEF Annunciator, Navigate, AcknowledgeLatest, SelectAlarm, SignAlarm, CancelSignature
<1>2. /\ acked' \subseteq Alarm /\ pending' \in 0..Alarms
      /\ signing' \in BOOLEAN /\ (signing' => pending' # 0)
  <2>1. Alarms \in Nat
    BY ScreenAssumption
  <2>2. AlarmTypes
    BY DEF TypeOK
  <2>3. CASE Navigate \/ AcknowledgeLatest
    <3>1. acked' \subseteq Alarm /\ UNCHANGED <<pending, signing>>
      BY <2>2, <2>3 DEF AlarmTypes, Navigate, AcknowledgeLatest
    <3> QED
      BY <2>2, <3>1, Zenon DEF AlarmTypes
  <2>4. CASE \E a \in Alarm : SelectAlarm(a)
    <3>1. PICK a \in Alarm : SelectAlarm(a)
      BY <2>4
    <3>2. a \in 0..Alarms /\ a # 0
      BY <2>1 DEF Alarm
    <3> QED
      BY <2>2, <3>1, <3>2, Zenon DEF AlarmTypes, SelectAlarm
  <2>5. CASE SignAlarm
    <3>1. pending \in Alarm
      BY <2>1, <2>2, <2>5 DEF AlarmTypes, SignAlarm, Alarm
    <3> QED
      BY <2>2, <2>5, <3>1, Zenon DEF AlarmTypes, SignAlarm
  <2>6. CASE CancelSignature
    BY <2>2, <2>6, Zenon DEF AlarmTypes, CancelSignature
  <2> QED
    BY ONLY Annunciator, <2>3, <2>4, <2>5, <2>6, Zenon DEF Annunciator
<1>3. badge' = Cardinality(Alarm \ acked') /\ header' \in BOOLEAN /\ (acked' # Alarm => header')
  BY DEF Annunciator, TypeOK, AlarmTypes, AnnunciatorTellsAlarms, Annunciates, Navigate, AcknowledgeLatest, SelectAlarm,
         SignAlarm, CancelSignature
<1>4. badge' \in 0..Alarms
  BY <1>2, <1>3, Counted
<1>5. TypeOK'
  BY <1>1, <1>2, <1>3, <1>4 DEF TypeOK, RowTypes, DialogTypes, AlarmTypes, rowVars, dialogVars
<1>6. (StoppedWhileOpen /\ DialogOfRow /\ PlaysConfirmed /\ ConfirmedOnValves)'
  BY <1>1 DEF rowVars, dialogVars, StoppedWhileOpen, DialogOfRow, PlaysConfirmed, ConfirmedOnValves
<1> QED
  BY <1>3, <1>5, <1>6 DEF AnnunciatorTellsAlarms

\* Every step preserves the invariant.
LEMMA NextIInv == IInv /\ [Next]_vars => IInv'
<1> SUFFICES ASSUME IInv, [Next]_vars PROVE IInv'
  OBVIOUS
<1>1. CASE \E r \in Row : ControlRow(r)
  BY <1>1, MediaIInv, SettingsIInv DEF ControlRow
<1>2. CASE Confirmation
  BY <1>2, ConfirmationIInv
<1>3. CASE Annunciator
  BY <1>3, AnnunciatorIInv
<1>4. CASE UNCHANGED vars
  BY <1>4 DEF IInv, vars, rowVars, dialogVars, alarmVars, TypeOK, RowTypes, DialogTypes, AlarmTypes,
              StoppedWhileOpen, DialogOfRow, PlaysConfirmed, ConfirmedOnValves, AnnunciatorTellsAlarms
<1> QED
  BY <1>1, <1>2, <1>3, <1>4 DEF Next

\* The invariant holds in every reachable state.
LEMMA Invariance == Spec => []IInv
<1>1. Init => IInv
  BY InitIInv
<1>2. IInv /\ [Next]_vars => IInv'
  BY NextIInv
<1> QED
  BY <1>1, <1>2, PTL DEF Spec

-----------------------------------------------------------------------------

\* The rows, the dialogs and the alarm list keep their types
\* (Main_frame_screen.qml).
THEOREM TypeCorrect == Spec => []TypeOK
<1>1. IInv => TypeOK
  BY DEF IInv
<1> QED
  BY <1>1, Invariance, PTL

\* For any rows, presets and valves, a row that no device dialog started runs
\* with every valve of its preset verified (ConfirmationModal.qml).
THEOREM ValvesAreVerified == Spec => []RunsOnVerifiedValves
<1>1. IInv => RunsOnVerifiedValves
  BY DEF IInv, RunsOnVerifiedValves, PlaysConfirmed, ConfirmedOnValves
<1> QED
  BY <1>1, Invariance, PTL

\* The header and the badge tell the alarm list (updateAlarmAnnunciator).
THEOREM AnnunciatorIsTrue == Spec => []AnnunciatorTellsAlarms
<1>1. IInv => AnnunciatorTellsAlarms
  BY DEF IInv
<1> QED
  BY <1>1, Invariance, PTL

\* No step changes the settings of a row that plays or starts
\* (checkProcessRunning).
THEOREM SettingsStay == Spec => SettingsAreLocked
<1> DEFINE Kept == \A r \in Row : playing[r] \/ playing'[r] => mode'[r] = mode[r]
<1>1. IInv /\ [Next]_vars => [Kept]_vars
  <2> SUFFICES ASSUME IInv, Next PROVE Kept
    OBVIOUS
  <2>1. CASE mode' = mode
    BY <2>1
  <2>2. ASSUME NEW r \in Row, ApplySettings(r) \/ Adjust(r) PROVE Kept
    <3>1. ~playing[r] /\ playing' = playing
      BY <2>2 DEF IInv, StoppedWhileOpen, ApplySettings, Adjust
    <3>2. \A x \in Row : x # r => mode'[x] = mode[x]
      BY <2>2 DEF IInv, TypeOK, RowTypes, ApplySettings, Adjust
    <3> QED
      BY <3>1, <3>2
  <2>3. mode' = mode \/ \E r \in Row : ApplySettings(r) \/ Adjust(r)
    BY DEF Next, ControlRow, Confirmation, Annunciator, PlayToConfirm, Play, Pause, Stop, Refuse,
           OpenSettings, CloseSettings, TapDevice, ToggleValve, ConfirmPositions, AbortPositions,
           Navigate, AcknowledgeLatest, SelectAlarm, SignAlarm, CancelSignature, rowVars
  <2> QED
    BY <2>1, <2>2, <2>3
<1> QED
  BY <1>1, Invariance, PTL DEF Spec, SettingsAreLocked

-----------------------------------------------------------------------------

\* No confirmation dialog is opened for a P&ID device.
NoDevice == ~device

\* Then no row was ever confirmed in one.
NoneByDevice == \A r \in ConfirmRow : ~basis[r].device

\* Every valve of a running row is verified, without exception.
RunsOnOwnValves == \A r \in ConfirmRow : playing[r] => Opens[mode[r]] \subseteq basis[r].open

\* Only the confirmation dialog writes how a row was confirmed.
LEMMA BasisOfDialog ==
  ASSUME IInv, NoneByDevice, NoDevice, [Next]_vars
  PROVE  NoneByDevice'
<1> USE DEF NoneByDevice, NoDevice
<1>1. CASE ConfirmPositions
  <2> SUFFICES ASSUME NEW r \in ConfirmRow
               PROVE  ~basis'[r].device
    OBVIOUS
  <2>1. basis'[r] = IF r = target THEN [open |-> Opens[loaded] \cap ticked, device |-> device] ELSE basis[r]
    BY <1>1 DEF ConfirmPositions
  <2>2. CASE r = target
    <3>1. basis'[r].device = device
      BY <2>1, <2>2
    <3> QED
      BY <3>1, Zenon
  <2>3. CASE r # target
    <3>1. basis'[r] = basis[r]
      BY <2>1, <2>3
    <3> QED
      BY <3>1, Zenon
  <2> QED
    BY <2>2, <2>3
<1>2. CASE ~ConfirmPositions
  <2>1. basis' = basis
    BY <1>2 DEF Next, ControlRow, Confirmation, Annunciator, PlayToConfirm, Play, Pause, Stop, Refuse,
           OpenSettings, ApplySettings, CloseSettings, Adjust, TapDevice, ToggleValve, AbortPositions,
           Navigate, AcknowledgeLatest, SelectAlarm, SignAlarm, CancelSignature, rowVars, vars
  <2> QED
    BY <2>1, Zenon
<1> QED
  BY <1>1, <1>2

\* The taps on the P&ID are all that the exception of RunsOnVerifiedValves
\* stands for: while no dialog was opened by one, no row runs on a valve nobody
\* has verified (the operation key and target the dialog keeps between two
\* openings, ConfirmationModal.qml).
THEOREM OnlyDevicesMislead == Spec /\ []NoDevice => []RunsOnOwnValves
<1>1. Init => NoneByDevice
  BY DEF Init, NoneByDevice
<1>2. IInv /\ NoneByDevice /\ NoDevice /\ [Next]_vars => NoneByDevice'
  BY BasisOfDialog
<1>3. IInv /\ NoneByDevice => RunsOnOwnValves
  BY DEF IInv, NoneByDevice, RunsOnOwnValves, PlaysConfirmed, ConfirmedOnValves
<1> QED
  BY <1>1, <1>2, <1>3, Invariance, PTL DEF Spec

\* The alarm a step acknowledges: the one whose signature dialog is open, or
\* the first of the list that waits.
AcksTheOneMeant ==
  \A a \in acked' \ acked :
    \/ signing /\ a = pending /\ ~signing'
    \/ \A b \in Alarm \ acked : a <= b

\* Two ways of acknowledging, one index: whatever was acknowledged from the
\* header while the signature dialog was open, a signature goes to the alarm it
\* was asked for, the button of the header to the first that waits, no step
\* takes two alarms and none takes an acknowledgement back (pendingAckIndex,
\* acknowledgeLatestAlarm).
THEOREM AcksAreMeant ==
  Spec => [][AcksTheOneMeant /\ acked \subseteq acked' /\ \A a, b \in acked' \ acked : a = b]_vars
<1> DEFINE Acks == AcksTheOneMeant /\ acked \subseteq acked' /\ \A a, b \in acked' \ acked : a = b
<1>1. IInv /\ [Next]_vars => [Acks]_vars
  <2> SUFFICES ASSUME IInv, Next
               PROVE  Acks
    OBVIOUS
  <2>1. acked \subseteq Alarm /\ Alarms \in Nat
    BY ScreenAssumption DEF IInv, TypeOK, AlarmTypes
  <2>2. CASE SignAlarm
    BY <2>2 DEF SignAlarm, AcksTheOneMeant
  <2>3. CASE AcknowledgeLatest
    <3>1. acked' = acked \cup {a \in Alarm : \A b \in Alarm \ acked : a <= b}
      BY <2>3 DEF AcknowledgeLatest
    <3>2. \A a \in acked' \ acked : a \in Alarm /\ \A b \in Alarm \ acked : a <= b
      BY <3>1
    <3>3. \A a, b \in acked' \ acked : a <= b /\ b <= a
      BY <3>2
    <3>4. \A a, b \in acked' \ acked : a = b
      BY <2>1, <3>2, <3>3 DEF Alarm
    <3> QED
      BY <3>1, <3>2, <3>4 DEF AcksTheOneMeant
  <2>4. CASE ~SignAlarm /\ ~AcknowledgeLatest
    <3>1. acked' = acked
      BY <2>4 DEF Next, ControlRow, Confirmation, Annunciator, PlayToConfirm, Play, Pause, Stop, Refuse,
             OpenSettings, ApplySettings, CloseSettings, Adjust, TapDevice, ToggleValve, ConfirmPositions,
             AbortPositions, Navigate, SelectAlarm, CancelSignature, alarmVars
    <3> QED
      BY <3>1 DEF AcksTheOneMeant
  <2> QED
    BY <2>2, <2>3, <2>4
<1> QED
  BY <1>1, Invariance, PTL DEF Spec
=============================================================================
