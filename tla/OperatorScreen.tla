--------------------------- MODULE OperatorScreen ---------------------------
(***************************************************************************)
(* The main window of the user interface (Main_frame_screen.qml): the      *)
(* control rows with their media buttons, the dialogs that change or       *)
(* confirm what a row does (ConfirmationModal.qml, the mode modals), and   *)
(* the alarm annunciator of the header (with Screen_4_Alarms.qml).         *)
(*                                                                         *)
(* One thread handles clicks, each to its end.  A dialog of the main       *)
(* window covers the window, so while one is open no other control can be  *)
(* clicked.  The signature dialog of the alarm screen covers nothing but   *)
(* its own buttons: the header, the other screens and the list itself      *)
(* remain in reach.  Rows start and stop by their isPlaying flag alone;    *)
(* the angles and times of row 5, login and navigation rights are left     *)
(* out.                                                                    *)
(***************************************************************************)
EXTENDS Integers, FiniteSets

CONSTANTS
  Row,         \* the control rows
  ConfirmRow,  \* the rows that start only with confirmed valves (3 and 5)
  Mode,        \* the settings each row can have; presets in a ConfirmRow
  FirstMode,   \* the setting each row starts with
  Manual,      \* the manual valves
  Opens,       \* the manual valves each preset expects open
  Alarms,      \* the length of the alarm list
  None         \* no row, no preset

Setting == UNION {Mode[r] : r \in Row}
Preset == UNION {Mode[r] : r \in ConfirmRow}

ASSUME ScreenAssumption ==
  /\ ConfirmRow \subseteq Row /\ {"none", "confirm"} \cap Row = {}
  /\ FirstMode \in [Row -> Setting] /\ \A r \in Row : FirstMode[r] \in Mode[r]
  /\ Opens \in [Preset -> SUBSET Manual]
  /\ None \notin Row \cup Preset
  /\ Alarms \in Nat

VARIABLES
  playing,    \* isPlaying of each row's media buttons
  mode,       \* the settings of each row (rowXSelectedPreset)
  confirmed,  \* rowXValveConfirmed
  dialog,     \* the dialog that is open: "none", "confirm", or a row's settings
  target,     \* activeConfirmTarget
  loaded,     \* activeOperationKey and valveList of the confirmation dialog
  ticked,     \* the manual valves confirmed in the list
  acked,      \* the alarms acknowledged, by their place in the list
  pending,    \* pendingAckIndex, from 1; 0 before any
  signing,    \* is the signature dialog open?
  badge,      \* unackAlarmsCount of the sidebar
  header,     \* isAlarmActive of the header
  device,     \* history: was the last confirmation dialog opened for a P&ID device?
  basis       \* history: how the valves of each row were last confirmed

rowVars == <<playing, mode, confirmed, basis>>
dialogVars == <<dialog, target, loaded, ticked, device>>
alarmVars == <<acked, pending, signing, badge>>
vars == <<rowVars, dialogVars, alarmVars, header>>

Alarm == 1..Alarms

RowTypes ==
  /\ playing \in [Row -> BOOLEAN]
  /\ mode \in [Row -> Setting] /\ \A r \in Row : mode[r] \in Mode[r]
  /\ confirmed \in [ConfirmRow -> BOOLEAN]
  /\ basis \in [ConfirmRow -> [open : SUBSET Manual, device : BOOLEAN]]

DialogTypes ==
  /\ dialog \in Row \cup {"none", "confirm"}
  /\ target \in ConfirmRow \cup {None}
  /\ loaded \in Preset \cup {None}
  /\ ticked \subseteq Manual
  /\ device \in BOOLEAN

AlarmTypes ==
  /\ acked \subseteq Alarm
  /\ pending \in 0..Alarms
  /\ signing \in BOOLEAN /\ (signing => pending # 0)
  /\ badge \in 0..Alarms
  /\ header \in BOOLEAN

TypeOK == RowTypes /\ DialogTypes /\ AlarmTypes

Init ==
  /\ playing = [r \in Row |-> FALSE]
  /\ mode = FirstMode
  /\ confirmed = [r \in ConfirmRow |-> FALSE]
  /\ dialog = "none"
  /\ target = None /\ loaded = None /\ ticked = {}
  /\ acked = {} /\ pending = 0 /\ signing = FALSE
  /\ badge = Alarms /\ header = (Alarms # 0)
  /\ device = FALSE
  /\ basis = [r \in ConfirmRow |-> [open |-> {}, device |-> FALSE]]

(***************************************************************************)
(* Media buttons                                                           *)
(***************************************************************************)

\* Play is taken back and the valves of the preset are to be confirmed.
PlayToConfirm(r) ==
  /\ dialog = "none"
  /\ r \in ConfirmRow /\ ~confirmed[r]
  /\ playing' = [playing EXCEPT ![r] = FALSE]
  /\ target' = r
  /\ loaded' = mode[r]
  /\ ticked' = Manual \ Opens[mode[r]]
  /\ dialog' = "confirm"
  /\ device' = FALSE
  /\ UNCHANGED <<mode, confirmed, basis, alarmVars, header>>

Play(r) ==
  /\ dialog = "none"
  /\ r \in ConfirmRow => confirmed[r]
  /\ playing' = [playing EXCEPT ![r] = TRUE]
  /\ UNCHANGED <<mode, confirmed, basis, dialogVars, alarmVars, header>>

Pause(r) ==
  /\ dialog = "none"
  /\ playing' = [playing EXCEPT ![r] = FALSE]
  /\ UNCHANGED <<mode, confirmed, basis, dialogVars, alarmVars, header>>

\* The row's confirmation, if it has one, is void.
Unconfirmed(r) == [x \in ConfirmRow |-> confirmed[x] /\ x # r]

Stop(r) ==
  /\ dialog = "none"
  /\ playing' = [playing EXCEPT ![r] = FALSE]
  /\ confirmed' = Unconfirmed(r)
  /\ UNCHANGED <<mode, basis, dialogVars, alarmVars, header>>

(***************************************************************************)
(* Settings                                                                *)
(***************************************************************************)

\* checkProcessRunning(): a change asked of a running row is refused.
Refuse(r) ==
  /\ dialog = "none"
  /\ playing[r]
  /\ header' = TRUE
  /\ UNCHANGED <<rowVars, dialogVars, alarmVars>>

\* Mutant: the dialog opens whatever the row does.
OpenSettingsMut(r) ==
  /\ dialog = "none"
  /\ dialog' = r
  /\ UNCHANGED <<rowVars, target, loaded, ticked, device, alarmVars, header>>

OpenSettings(r) ==
  /\ dialog = "none"
  /\ ~playing[r]
  /\ dialog' = r
  /\ UNCHANGED <<rowVars, target, loaded, ticked, device, alarmVars, header>>

\* Mutant: the valves stay confirmed when another preset is applied.
ApplySettingsMut(r) ==
  /\ dialog = r
  /\ \E m \in Mode[r] : mode' = [mode EXCEPT ![r] = m]
  /\ dialog' = "none"
  /\ UNCHANGED <<playing, confirmed, basis, target, loaded, ticked, device, alarmVars, header>>

\* modeApplied, modeSelected, optionSelected or accepted of the open dialog.
ApplySettings(r) ==
  /\ dialog = r
  /\ \E m \in Mode[r] : mode' = [mode EXCEPT ![r] = m]
  /\ confirmed' = Unconfirmed(r)
  /\ dialog' = "none"
  /\ UNCHANGED <<playing, basis, target, loaded, ticked, device, alarmVars, header>>

CloseSettings(r) ==
  /\ dialog = r
  /\ dialog' = "none"
  /\ UNCHANGED <<rowVars, target, loaded, ticked, device, alarmVars, header>>

\* The + and - buttons and the slider of a speed row.
Adjust(r) ==
  /\ dialog = "none"
  /\ r \notin ConfirmRow /\ ~playing[r]
  /\ \E m \in Mode[r] : mode' = [mode EXCEPT ![r] = m]
  /\ UNCHANGED <<playing, confirmed, basis, dialogVars, alarmVars, header>>

(***************************************************************************)
(* The confirmation dialog                                                 *)
(***************************************************************************)

\* A tap on the P&ID gives the dialog a title and shows it: valve list and
\* target are those of the last row that asked for it.
TapDevice ==
  /\ dialog = "none"
  /\ dialog' = "confirm"
  /\ device' = TRUE
  /\ UNCHANGED <<rowVars, target, loaded, ticked, alarmVars, header>>

ToggleValve(v) ==
  /\ dialog = "confirm" /\ loaded # None
  /\ ticked' = IF v \in ticked THEN ticked \ {v} ELSE ticked \cup {v}
  /\ UNCHANGED <<rowVars, dialog, target, loaded, device, alarmVars, header>>

\* allConfirmed
Unlocked == loaded # None /\ ticked = Manual

ConfirmPositions ==
  /\ dialog = "confirm" /\ Unlocked
  /\ dialog' = "none"
  /\ confirmed' = [r \in ConfirmRow |-> confirmed[r] \/ r = target]
  /\ playing' = [r \in Row |-> playing[r] \/ r = target]
  /\ basis' = [r \in ConfirmRow |->
                 IF r = target THEN [open |-> Opens[loaded] \cap ticked, device |-> device] ELSE basis[r]]
  /\ UNCHANGED <<mode, target, loaded, ticked, device, alarmVars, header>>

AbortPositions ==
  /\ dialog = "confirm"
  /\ dialog' = "none"
  /\ confirmed' = Unconfirmed(target)
  /\ playing' = [r \in Row |-> playing[r] /\ r # target]
  /\ header' = TRUE
  /\ UNCHANGED <<mode, basis, target, loaded, ticked, device, alarmVars>>

(***************************************************************************)
(* Alarms                                                                  *)
(***************************************************************************)

\* updateAlarmAnnunciator()
Annunciates ==
  /\ badge' = Cardinality(Alarm \ acked')
  /\ header' = (acked' # Alarm)

\* The sidebar shows another screen.
Navigate ==
  /\ dialog = "none"
  /\ UNCHANGED <<rowVars, dialogVars, acked, pending, signing>>
  /\ Annunciates

\* Mutant: the header takes its alarm back at once.
AcknowledgeLatestMut ==
  /\ dialog = "none"
  /\ acked' = acked \cup {a \in Alarm : \A b \in Alarm \ acked : a <= b}
  /\ badge' = Cardinality(Alarm \ acked')
  /\ header' = FALSE
  /\ UNCHANGED <<rowVars, dialogVars, pending, signing>>

\* The ACK button of the header takes the first alarm of the list that is not
\* acknowledged; without one it only resets the header.
AcknowledgeLatest ==
  /\ dialog = "none"
  /\ acked' = acked \cup {a \in Alarm : \A b \in Alarm \ acked : a <= b}
  /\ Annunciates
  /\ UNCHANGED <<rowVars, dialogVars, pending, signing>>

\* Mutant: the place in the list is counted from one too many.
SelectAlarmMut(a) ==
  /\ dialog = "none"
  /\ a \notin acked
  /\ pending' = a + 1 /\ signing' = TRUE
  /\ UNCHANGED <<rowVars, dialogVars, acked, badge, header>>

SelectAlarm(a) ==
  /\ dialog = "none"
  /\ a \notin acked
  /\ pending' = a /\ signing' = TRUE
  /\ UNCHANGED <<rowVars, dialogVars, acked, badge, header>>

\* The alarm may have been acknowledged from the header meanwhile.
SignAlarm ==
  /\ dialog = "none" /\ signing
  /\ acked' = acked \cup {pending}
  /\ signing' = FALSE
  /\ Annunciates
  /\ UNCHANGED <<rowVars, dialogVars, pending>>

CancelSignature ==
  /\ dialog = "none" /\ signing
  /\ signing' = FALSE
  /\ UNCHANGED <<rowVars, dialogVars, acked, pending, badge, header>>

-----------------------------------------------------------------------------

ControlRow(r) ==
  \/ PlayToConfirm(r) \/ Play(r) \/ Pause(r) \/ Stop(r)
  \/ Refuse(r) \/ OpenSettings(r) \/ ApplySettings(r) \/ CloseSettings(r) \/ Adjust(r)

Confirmation ==
  \/ TapDevice
  \/ \E v \in Manual : ToggleValve(v)
  \/ ConfirmPositions
  \/ AbortPositions

Annunciator ==
  \/ Navigate
  \/ AcknowledgeLatest
  \/ \E a \in Alarm : SelectAlarm(a)
  \/ SignAlarm
  \/ CancelSignature

Next ==
  \/ \E r \in Row : ControlRow(r)
  \/ Confirmation
  \/ Annunciator

Spec == Init /\ [][Next]_vars

(***************************************************************************)
(* Properties                                                              *)
(***************************************************************************)

\* The safety interlock of the start (ConfirmationModal.qml, playClicked of
\* rows 3 and 5): through pauses, restarts, changes of preset and dialogs of
\* the other row, every manual valve that the preset of a running row expects
\* open was ticked when the row was confirmed.  The exception is a row that was
\* confirmed in a dialog opened for a P&ID device, which starts the last target
\* on the last list.
RunsOnVerifiedValves ==
  \A r \in ConfirmRow : playing[r] =>
    confirmed[r] /\ (basis[r].device \/ Opens[mode[r]] \subseteq basis[r].open)

\* Rule 3 of the interlock helper: whatever dialog was open when, the settings
\* of a row never change while it plays, nor by the step that starts it.
SettingsAreLocked == [][\A r \in Row : playing[r] \/ playing'[r] => mode'[r] = mode[r]]_vars

\* The badge of the sidebar counts the alarms that are not acknowledged, and as
\* long as there is one the header shows an alarm, although interlock messages,
\* two ways of acknowledging and navigation write the same two fields.
AnnunciatorTellsAlarms ==
  badge = Cardinality(Alarm \ acked) /\ (acked # Alarm => header)
=============================================================================
