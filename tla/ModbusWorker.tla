---------------------------- MODULE ModbusWorker ----------------------------
(***************************************************************************)
(* The polling thread of scada/modbus/worker.py: connecting, polling, the  *)
(* step-done edge, the heartbeat, and the end of the thread.               *)
(*                                                                         *)
(* The loop tests _running at its top and then runs one pass of its body;  *)
(* stop() runs on another thread and may come between the two.  The socket *)
(* of the shared client is closed by stop() and by the thread when it      *)
(* ends.  The client of pymodbus, which is external, opens a closed socket *)
(* when a request is made, so a pass that polls after stop() opens it      *)
(* again.  Values other than the step-done coil M34 are left out: what a   *)
(* poll reads is handed to the controller as it is.  So is the step index  *)
(* stepDoneSignaled carries, which no receiver looks at.                   *)
(***************************************************************************)
VARIABLES
  alive,        \* _running
  at,           \* where the thread is: "top" or "body" of the loop, or "ended"
  connected,    \* _is_connected
  open,         \* is the socket of _client open?
  seen,         \* _last_step_done_coil
  heartbeat,    \* _heartbeat_state
  link,         \* is the PLC reachable?
  done, watchdog,  \* M34 and M10 in the PLC
  fresh         \* history: has M34 risen since the last stepDoneSignaled?

threadVars == <<at, connected, open, seen, heartbeat, fresh>>
plcVars == <<link, done, watchdog>>
vars == <<threadVars, alive, link, done, watchdog>>

TypeOK ==
  /\ at \in {"top", "body", "ended"}
  /\ {alive, connected, open, seen, heartbeat, link, done, watchdog, fresh} \subseteq BOOLEAN

Init ==
  /\ alive = TRUE
  /\ at = "top"
  /\ connected = FALSE /\ open = FALSE
  /\ seen = FALSE /\ heartbeat = FALSE
  /\ link \in BOOLEAN
  /\ done = FALSE /\ watchdog = FALSE
  /\ fresh = FALSE

(***************************************************************************)
(* run()                                                                   *)
(***************************************************************************)

EnterBody ==
  /\ at = "top" /\ alive
  /\ at' = "body"
  /\ UNCHANGED <<alive, connected, open, seen, heartbeat, plcVars, fresh>>

\* Mutant: the socket is left to stop().
LeaveMut ==
  /\ at = "top" /\ ~alive
  /\ at' = "ended"
  /\ UNCHANGED <<alive, connected, open, seen, heartbeat, plcVars, fresh>>

\* The loop is over and the thread closes the socket.
Leave ==
  /\ at = "top" /\ ~alive
  /\ at' = "ended"
  /\ open' = FALSE
  /\ UNCHANGED <<alive, connected, seen, heartbeat, plcVars, fresh>>

\* Mutant: connecting forgets the last value of the step-done coil.
ConnectMut ==
  /\ at = "body" /\ ~connected
  /\ link
  /\ connected' = TRUE /\ open' = TRUE
  /\ seen' = FALSE
  /\ UNCHANGED <<at, alive, heartbeat, plcVars, fresh>>

\* connect() succeeds; the first poll of the same pass is the next step.
Connect ==
  /\ at = "body" /\ ~connected
  /\ link
  /\ connected' = TRUE /\ open' = TRUE
  /\ UNCHANGED <<at, alive, seen, heartbeat, plcVars, fresh>>

\* Mutant: a pass without a connection does not come back to the top while
\* the PLC is unreachable.
StayOfflineMut ==
  /\ at = "body" /\ ~connected
  /\ link
  /\ at' = "top"
  /\ UNCHANGED <<alive, connected, open, seen, heartbeat, plcVars, fresh>>

\* Not connected: connect() fails, or the five seconds since the last attempt
\* are not over, and the pass ends.
StayOffline ==
  /\ at = "body" /\ ~connected
  /\ at' = "top"
  /\ UNCHANGED <<alive, connected, open, seen, heartbeat, plcVars, fresh>>

\* The two reads succeed; a step-done coil that was not seen set by the poll
\* before is signaled; the heartbeat is written and may get lost.
Poll ==
  /\ at = "body" /\ connected
  /\ link
  /\ open' = TRUE
  /\ fresh' = (fresh /\ ~(done /\ ~seen))
  /\ seen' = done
  /\ heartbeat' = ~heartbeat
  /\ watchdog' \in {heartbeat', watchdog}
  /\ at' = "top"
  /\ UNCHANGED <<alive, connected, link, done>>

\* Mutant: a failed poll goes on to connect in a state of its own.
PollRaisesStateMut ==
  /\ at = "body" /\ connected
  /\ connected' = FALSE
  /\ open' \in BOOLEAN
  /\ at' = "connecting"
  /\ UNCHANGED <<alive, seen, heartbeat, plcVars, fresh>>

\* Mutant: the exception is not caught and the thread is gone.
PollRaisesMut ==
  /\ at = "body" /\ connected
  /\ connected' = FALSE
  /\ open' \in BOOLEAN
  /\ at' = "ended"
  /\ UNCHANGED <<alive, seen, heartbeat, plcVars, fresh>>

\* A read raises or returns an error.  The client may have opened the socket
\* for it, and may have closed it on the error.
PollRaises ==
  /\ at = "body" /\ connected
  /\ connected' = FALSE
  /\ open' \in BOOLEAN
  /\ at' = "top"
  /\ UNCHANGED <<alive, seen, heartbeat, plcVars, fresh>>

Worker == EnterBody \/ Leave \/ Connect \/ StayOffline \/ Poll \/ PollRaises

(***************************************************************************)
(* Other threads, the network and the PLC                                  *)
(***************************************************************************)

\* stop(), called by cleanup() when the application quits.
Stop ==
  /\ alive
  /\ alive' = FALSE
  /\ open' = FALSE
  /\ UNCHANGED <<at, connected, seen, heartbeat, plcVars, fresh>>

\* The PLC becomes reachable or unreachable.
LinkChanges ==
  /\ link' = ~link
  /\ UNCHANGED <<threadVars, alive, done, watchdog>>

\* M34 rises and falls.
DoneRises ==
  /\ ~done
  /\ done' = TRUE
  /\ fresh' = TRUE
  /\ UNCHANGED <<at, connected, open, seen, heartbeat, alive, link, watchdog>>

DoneFalls ==
  /\ done
  /\ done' = FALSE
  /\ UNCHANGED <<threadVars, alive, link, watchdog>>

Next ==
  \/ Worker
  \/ Stop
  \/ LinkChanges
  \/ DoneRises \/ DoneFalls

Spec == Init /\ [][Next]_vars

(***************************************************************************)
(* The loop makes a pass at least every 100 ms plus the time-outs of its   *)
(* requests, and it tries to connect once five seconds have passed since   *)
(* the last attempt, so passes that find the PLC reachable do not put off  *)
(* connecting for ever.  Nothing is assumed of the other threads, of the   *)
(* network or of the PLC.                                                  *)
(***************************************************************************)
FairSpec == Spec /\ WF_vars(Worker) /\ SF_vars(Connect)

(***************************************************************************)
(* Properties                                                              *)
(***************************************************************************)

\* A poll signals a step as done at most once per rise of M34, even when the
\* connection is lost and found again while the coil stays set: whenever the
\* next poll would signal, the coil has risen since the last signal.
OneSignalPerPulse == done /\ ~seen => fresh

\* The thread ends with a closed socket, although a pass it was in may have
\* opened the one stop() had closed.
SocketIsClosed == at = "ended" => ~open

\* After stop() the thread ends, whatever the network does.
ThreadEnds == ~alive ~> at = "ended"

\* While the thread is not stopped and the PLC stays reachable, the connection
\* is found again after every loss.
Reconnects == <>[](alive /\ link) => []<>connected
=============================================================================
