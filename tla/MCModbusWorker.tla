--------------------------- MODULE MCModbusWorker ---------------------------
(***************************************************************************)
(* The polling thread has no parameters: the run is of the whole module.   *)
(***************************************************************************)
EXTENDS ModbusWorker
=============================================================================
