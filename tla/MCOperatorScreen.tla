-------------------------- MODULE MCOperatorScreen --------------------------
(***************************************************************************)
(* A row without confirmation and the two with one, with two presets each: *)
(* the default of row 3 opens no manual valve, and the other three open    *)
(* one each, two of them the same one.  Two alarms.                        *)
(***************************************************************************)
EXTENDS OperatorScreen

MCRow == {"row1", "row3", "row5"}
MCConfirmRow == {"row3", "row5"}

MCMode ==
  [row1 |-> {"agitator_cw", "agitator_ccw"},
   row3 |-> {"discharge_circulation_pipe", "ext_discharge_product"},
   row5 |-> {"suction_liquids", "suction_bottom"}]

MCFirstMode ==
  [row1 |-> "agitator_cw", row3 |-> "discharge_circulation_pipe", row5 |-> "suction_liquids"]

MCManual == {"V301", "V303"}

MCOpens ==
  [discharge_circulation_pipe |-> {}, ext_discharge_product |-> {"V303"},
   suction_liquids |-> {"V301"}, suction_bottom |-> {"V303"}]
=============================================================================
