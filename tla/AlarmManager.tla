---------------------------- MODULE AlarmManager ----------------------------
(***************************************************************************)
(* The alarm manager of scada/alarms.py: the dictionary of active alarms,  *)
(* evaluate_telemetry(), acknowledge_alarm() and the audit events they     *)
(* append.                                                                 *)
(*                                                                         *)
(* Alarms are numbered by their position in alarm_catalog.json, counting   *)
(* the entries whose tag the tag catalogue knows: the loop skips the       *)
(* others, so they are never raised.  The catalogue gives each of these    *)
(* entries a tag of its own, the telemetry of the only caller carries all  *)
(* of these tags, and it is abstracted to which of them are beyond their   *)
(* threshold.                                                              *)
(*                                                                         *)
(* An append to the audit trail may raise (AuditTrail!Rollback).  It is    *)
(* the last statement of both handlers that touch an alarm, so the alarm   *)
(* has changed by then; inside evaluate_telemetry() it also ends the loop. *)
(***************************************************************************)
EXTENDS Naturals

CONSTANTS
  CatalogSize,  \* alarms of the catalogue that can be evaluated
  Actor,        \* users that may acknowledge
  Nobody        \* acknowledged_by = None

ASSUME CatalogAssumption == CatalogSize \in Nat

ASSUME NobodyAssumption == Nobody \notin Actor

Alarm == 1..CatalogSize

VARIABLES
  alarms,     \* _active_alarms; "normal" stands for an id that is no key
  ackedBy,    \* the acknowledged_by field of each alarm
  trail,      \* the last audit event about each alarm
  unaudited,  \* history: alarms whose last audit append raised
  condition,  \* history: alarms whose tag was beyond its threshold when last read
  epoch       \* history: the parity of the starts of the program

vars == <<alarms, ackedBy, trail, unaudited, condition, epoch>>

AlarmState == {"normal", "unacked", "acked"}

NoEvent == [action |-> "none", actor |-> Nobody]
Triggered == [action |-> "ALARM_TRIGGERED", actor |-> Nobody]
Acknowledged(u) == [action |-> "ALARM_ACKNOWLEDGED", actor |-> u]

AuditEvent == {NoEvent, Triggered} \cup {Acknowledged(u) : u \in Actor}

TypeOK ==
  /\ alarms \in [Alarm -> AlarmState]
  /\ ackedBy \in [Alarm -> Actor \cup {Nobody}]
  /\ trail \in [Alarm -> AuditEvent]
  /\ unaudited \subseteq Alarm
  /\ condition \subseteq Alarm
  /\ epoch \in BOOLEAN

Init ==
  /\ alarms = [a \in Alarm |-> "normal"]
  /\ ackedBy = [a \in Alarm |-> Nobody]
  /\ trail = [a \in Alarm |-> NoEvent]
  /\ unaudited = {}
  /\ condition = {}
  /\ epoch = FALSE

(***************************************************************************)
(* evaluate_telemetry().  `beyond' is the set of alarms whose tag is       *)
(* beyond its threshold, `reached' the set of alarms the loop came to.     *)
(***************************************************************************)

\* Alarms the loop adds to the dictionary, and alarms it deletes from it.
ToRaise(beyond) == {a \in beyond : alarms[a] = "normal"}

\* Mutants (operators named ...Mut are variants with a plausible bug that no
\* specification uses): cleared although nobody has acknowledged the alarm;
\* cleared only when nothing else waits for an acknowledgement.
ToClearMut(beyond, reached) == {a \in reached \ beyond : alarms[a] # "normal"}
ToClearTogetherMut(beyond, reached) ==
  {a \in reached \ beyond : alarms[a] = "acked" /\ \A b \in Alarm : alarms[b] # "unacked"}

ToClear(beyond, reached) == {a \in reached \ beyond : alarms[a] = "acked"}

\* Mutant: audit first, so that an alarm whose append raises is not stored.
ProcessMut(beyond, reached, failed) ==
  LET raised == (ToRaise(beyond) \cap reached) \ failed
      cleared == ToClear(beyond, reached)
  IN
  /\ alarms' = [a \in Alarm |-> IF a \in raised THEN "unacked"
                                ELSE IF a \in cleared THEN "normal" ELSE alarms[a]]
  /\ ackedBy' = [a \in Alarm |-> IF a \in raised \cup cleared THEN Nobody ELSE ackedBy[a]]
  /\ trail' = [a \in Alarm |-> IF a \in raised THEN Triggered ELSE trail[a]]
  /\ unaudited' = (unaudited \ raised) \cup failed
  /\ condition' = (condition \ reached) \cup (beyond \cap reached)
  /\ UNCHANGED epoch

\* The loop over the alarms in `reached'; the append of those in `failed' raised.
Process(beyond, reached, failed) ==
  LET raised == ToRaise(beyond) \cap reached
      cleared == ToClear(beyond, reached)
  IN
  /\ alarms' = [a \in Alarm |-> IF a \in raised THEN "unacked"
                                ELSE IF a \in cleared THEN "normal" ELSE alarms[a]]
  /\ ackedBy' = [a \in Alarm |-> IF a \in raised \cup cleared THEN Nobody ELSE ackedBy[a]]
  /\ trail' = [a \in Alarm |-> IF a \in raised \ failed THEN Triggered ELSE trail[a]]
  /\ unaudited' = (unaudited \ raised) \cup failed
  /\ condition' = (condition \ reached) \cup (beyond \cap reached)
  /\ UNCHANGED epoch

\* The loop runs to the end of the catalogue.
Evaluate(beyond) == Process(beyond, Alarm, {})

\* The append for the newly raised alarm f raises and ends the loop there.
EvaluateRaises(beyond) ==
  \E f \in ToRaise(beyond) : Process(beyond, {a \in Alarm : a <= f}, {f})

(***************************************************************************)
(* acknowledge_alarm() of an active alarm with a comment of three          *)
(* characters or more; a call for another alarm returns at once and a      *)
(* shorter comment raises before anything changes.  Acknowledging twice is *)
(* allowed and replaces the first acknowledgement.                         *)
(***************************************************************************)

\* Mutant: the identity is kept from the first acknowledgement.
AcknowledgeMut(a, u) ==
  /\ alarms[a] # "normal"
  /\ alarms' = [alarms EXCEPT ![a] = "acked"]
  /\ ackedBy' = [ackedBy EXCEPT ![a] = IF @ = Nobody THEN u ELSE @]
  /\ trail' = [trail EXCEPT ![a] = Acknowledged(u)]
  /\ unaudited' = unaudited \ {a}
  /\ UNCHANGED <<condition, epoch>>

Acknowledge(a, u) ==
  /\ alarms[a] # "normal"
  /\ alarms' = [alarms EXCEPT ![a] = "acked"]
  /\ ackedBy' = [ackedBy EXCEPT ![a] = u]
  /\ trail' = [trail EXCEPT ![a] = Acknowledged(u)]
  /\ unaudited' = unaudited \ {a}
  /\ UNCHANGED <<condition, epoch>>

AcknowledgeRaises(a, u) ==
  /\ alarms[a] # "normal"
  /\ alarms' = [alarms EXCEPT ![a] = "acked"]
  /\ ackedBy' = [ackedBy EXCEPT ![a] = u]
  /\ unaudited' = unaudited \cup {a}
  /\ UNCHANGED <<trail, condition, epoch>>

\* Mutant: the dictionary survives for the alarms whose condition persists.
RestartMut ==
  /\ alarms' = [a \in condition |-> alarms[a]]
  /\ ackedBy' = [a \in Alarm |-> Nobody]
  /\ condition' = {}
  /\ epoch' = ~epoch
  /\ UNCHANGED <<trail, unaudited>>

\* The program is started again: the dictionary is empty, the trail remains.
Restart ==
  /\ alarms' = [a \in Alarm |-> "normal"]
  /\ ackedBy' = [a \in Alarm |-> Nobody]
  /\ condition' = {}
  /\ epoch' = ~epoch
  /\ UNCHANGED <<trail, unaudited>>

-----------------------------------------------------------------------------

\* One call of evaluate_telemetry(), with or without an audit failure.
Tick == \E beyond \in SUBSET Alarm : Evaluate(beyond) \/ EvaluateRaises(beyond)

Next ==
  \/ Tick
  \/ \E a \in Alarm, u \in Actor : Acknowledge(a, u) \/ AcknowledgeRaises(a, u)
  \/ Restart

Spec == Init /\ [][Next]_vars

\* The controller's 500 ms timer calls evaluate_telemetry().  Nothing is assumed of the users or of the audit trail.
FairSpec == Spec /\ WF_vars(Tick)

(***************************************************************************)
(* Properties                                                              *)
(***************************************************************************)

\* An alarm whose condition was seen is in the active list, whatever appends
\* raised: the entry is stored before it is audited (evaluate_telemetry).
SeenConditionIsListed == \A a \in condition : alarms[a] # "normal"

\* Unless its last append raised, the last audit event of a listed alarm tells
\* its state and who acknowledged it (evaluate_telemetry, acknowledge_alarm).
TrailTellsState ==
  \A a \in Alarm \ unaudited :
    /\ alarms[a] = "unacked" => trail[a] = Triggered
    /\ alarms[a] = "acked" => trail[a] = Acknowledged(ackedBy[a])

\* Each alarm goes through the life cycle of AlarmLatch: raised by its own
\* condition, latched until acknowledged, cleared by an evaluation only.
Latch(a) == INSTANCE AlarmLatch WITH latch <- alarms[a], condition <- (a \in condition)

EveryAlarmIsLatched ==
  /\ \A a \in Alarm : Latch(a)!Init
  /\ [][\A a \in Alarm : [Latch(a)!Next]_<<alarms[a], a \in condition, epoch>>]_vars

\* An acknowledged alarm whose condition is gone leaves the list, or its
\* condition comes back: failing appends for alarms that stand before it in
\* the catalogue end the loop early, but not for ever.
AcknowledgedAlarmClears ==
  \A a \in Alarm :
    (alarms[a] = "acked" /\ a \notin condition) ~> (alarms[a] = "normal" \/ a \in condition)
=============================================================================
