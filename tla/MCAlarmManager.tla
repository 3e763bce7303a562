--------------------------- MODULE MCAlarmManager ---------------------------
(***************************************************************************)
(* The three alarms of the catalogue that can be evaluated (main           *)
(* temperature, vacuum, seal pressure) and one or two users.               *)
(***************************************************************************)
EXTENDS AlarmManager

CONSTANTS u1, u2

MCActor == {u1, u2}
=============================================================================
