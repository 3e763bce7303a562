----------------------------- MODULE AlarmLatch -----------------------------
(***************************************************************************)
(* What the alarm manager promises of one alarm, after ISA-18.2: an alarm  *)
(* is raised when its condition is seen, stays latched until an operator   *)
(* has acknowledged it, and leaves the list only by an evaluation that     *)
(* sees the condition gone.  Only a restart of the program drops it.       *)
(***************************************************************************)
VARIABLES
  latch,     \* "normal", "unacked" or "acked"
  condition, \* was the condition present when it was last evaluated?
  epoch      \* the parity of the starts of the program

vars == <<latch, condition, epoch>>

Init == latch = "normal" /\ condition = FALSE /\ epoch = FALSE

Raise ==
  /\ latch = "normal"
  /\ condition'
  /\ latch' = "unacked"
  /\ UNCHANGED epoch

\* The condition comes and goes while the alarm stays as it is; an alarm in
\* the list never hides behind a condition that is present but not listed.
Observe ==
  /\ condition' \in BOOLEAN
  /\ latch # "normal" \/ ~condition'
  /\ latch = "acked" => condition'
  /\ UNCHANGED <<latch, epoch>>

Acknowledge ==
  /\ latch # "normal"
  /\ latch' = "acked"
  /\ UNCHANGED <<condition, epoch>>

Clear ==
  /\ latch = "acked"
  /\ condition' = FALSE
  /\ latch' = "normal"
  /\ UNCHANGED epoch

Restart ==
  /\ epoch' = ~epoch
  /\ latch' = "normal"
  /\ condition' = FALSE

Next == Raise \/ Observe \/ Acknowledge \/ Clear \/ Restart

Spec == Init /\ [][Next]_vars
=============================================================================
