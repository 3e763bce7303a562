---------------------------- MODULE StepDownload ----------------------------
(***************************************************************************)
(* The download of a recipe step to the PLC: download_step() of            *)
(* scada/modbus/worker.py, download_step_with_readback() and               *)
(* abort_execution() of scada/modbus/handshake.py, and the part of the PLC *)
(* they command.                                                           *)
(*                                                                         *)
(* download_step() runs on the thread of its caller, without a lock, so    *)
(* each Modbus request is a step.  A request may take effect or not, and   *)
(* independently of that it may raise or return: a write that took effect  *)
(* raises when the response is lost, and a coil write that had no effect   *)
(* returns an error response nobody looks at.                              *)
(*                                                                         *)
(* The PLC is external.  It takes a step from the setpoint registers on    *)
(* the rising edge of M1 while M2 selects automatic mode and M3 does not   *)
(* hold an abort, at once: its scan is short beside a request (the code    *)
(* holds the pulse for 50 ms).  The content of its registers is a packed   *)
(* step, or Garbled when what arrived is not what was sent.                *)
(***************************************************************************)
EXTENDS DeltaRegisterMap

CONSTANTS
  Downloader,  \* threads that call download_step()
  Step,        \* calls of download_step(): records of step data and step index
  Garbled,     \* any other content of the registers
  NoStep       \* the PLC runs no step

\* The values of D50-D59 for a step.
Registers(s) == Pack(s.data, s.index)

Content == {Registers(s) : s \in Step} \cup {Garbled}

ASSUME StepAssumption ==
  /\ NoStep \notin Step \cup Content
  /\ \A s \in Step : Registers(s) # Garbled

VARIABLES
  connected,  \* _is_connected, maintained by the polling thread
  pc,         \* the next request of each download, or "idle"
  want,       \* the arguments of each download
  result,     \* what the last call of each downloader returned or raised
  abortPc,    \* the next request of abort_execution(), or "idle"
  registers, auto, start, abort,  \* D50-D59, M2, M1, M3 in the PLC
  running,    \* the step the PLC runs
  checked,    \* history: were the registers read back intact since the last write?
  started,    \* history: what the pulse of each download made the PLC start
  faulty,     \* history: did a coil write of a download fail, or an abort overlap one?
  stopped     \* history: did the writes of an abort take effect, with no step started since its
              \* first one and the automatic mode not selected since its last one?

plcVars == <<registers, auto, start, abort, running>>
callVars == <<pc, want, result, started>>
vars == <<connected, callVars, abortPc, plcVars, checked, faulty, stopped>>

TypeOK ==
  /\ connected \in BOOLEAN
  /\ pc \in [Downloader -> {"idle", "write", "read", "auto", "start", "release"}]
  /\ want \in [Downloader -> Step \cup {NoStep}]
  /\ result \in [Downloader -> {"none", "verified", "simulated", "raised"}]
  /\ abortPc \in {"idle", "abort", "release", "manual"}
  /\ registers \in Content
  /\ {auto, start, abort, checked, faulty, stopped} \subseteq BOOLEAN
  /\ running \in Content \cup {NoStep}
  /\ started \in [Downloader -> Content \cup {NoStep}]

Init ==
  /\ connected = FALSE
  /\ pc = [d \in Downloader |-> "idle"]
  /\ want = [d \in Downloader |-> NoStep]
  /\ result = [d \in Downloader |-> "none"]
  /\ abortPc = "idle"
  /\ registers = Garbled
  /\ auto = FALSE /\ start = FALSE /\ abort = FALSE
  /\ running = NoStep
  /\ checked = FALSE
  /\ started = [d \in Downloader |-> NoStep]
  /\ faulty = FALSE
  /\ stopped = FALSE

InFlight == \E d \in Downloader : pc[d] # "idle"

\* The polling thread found or lost the PLC.
ConnectionChanges ==
  /\ connected' = ~connected
  /\ UNCHANGED <<callVars, abortPc, plcVars, checked, faulty, stopped>>

(***************************************************************************)
(* download_step()                                                         *)
(***************************************************************************)

\* Without a connection it answers at once that the step is verified.
Call(d, s) ==
  /\ pc[d] = "idle"
  /\ want' = [want EXCEPT ![d] = s]
  /\ started' = [started EXCEPT ![d] = NoStep]
  /\ IF connected
       THEN /\ pc' = [pc EXCEPT ![d] = "write"]
            /\ faulty' = (faulty \/ abortPc # "idle")
            /\ UNCHANGED result
       ELSE /\ result' = [result EXCEPT ![d] = "simulated"]
            /\ UNCHANGED <<pc, faulty>>
  /\ UNCHANGED <<connected, abortPc, plcVars, checked, stopped>>

\* A request of d came back and the next one is at n, or the call is over.
Returns(d, n) ==
  /\ pc' = [pc EXCEPT ![d] = n]
  /\ result' = [result EXCEPT ![d] = IF n = "idle" THEN "verified" ELSE @]

Raises(d) ==
  /\ pc' = [pc EXCEPT ![d] = "idle"]
  /\ result' = [result EXCEPT ![d] = "raised"]

\* write_registers(): what arrives may differ from what was sent.
WriteRegisters(d) ==
  /\ pc[d] = "write"
  /\ registers' \in {Registers(want[d]), Garbled}
  /\ checked' = FALSE
  /\ Returns(d, "read") \/ Raises(d)
  /\ UNCHANGED <<connected, want, started, abortPc, auto, start, abort, running, faulty, stopped>>

\* Mutant: only the number of registers is compared.
ReadBackMut(d) ==
  /\ pc[d] = "read"
  /\ checked' = (registers = Registers(want[d]))
  /\ Returns(d, "auto")
  /\ UNCHANGED <<connected, want, started, abortPc, plcVars, faulty, stopped>>

\* Mutant: the step on record is replaced by what the PLC holds.
ReadBackAdoptMut(d) ==
  /\ pc[d] = "read"
  /\ checked' = TRUE
  /\ want' = [want EXCEPT ![d] = registers]
  /\ Returns(d, "auto")
  /\ UNCHANGED <<connected, started, abortPc, plcVars, faulty, stopped>>

\* read_holding_registers() and the comparison with what was written.
ReadBack(d) ==
  /\ pc[d] = "read"
  /\ checked' = (registers = Registers(want[d]))
  /\ IF registers = Registers(want[d]) THEN Returns(d, "auto") ELSE Raises(d)
  /\ UNCHANGED <<connected, want, started, abortPc, plcVars, faulty, stopped>>

\* A coil write of d took effect: M2 on, M1 on, M1 off.  The call goes on to n.
CoilWritten(d, n) ==
  \/ Returns(d, n) /\ UNCHANGED faulty
  \/ Raises(d) /\ faulty' = TRUE

SelectAuto(d) ==
  /\ pc[d] = "auto"
  /\ auto' = TRUE
  /\ stopped' = (stopped /\ abortPc # "idle")
  /\ CoilWritten(d, "start")
  /\ UNCHANGED <<connected, want, started, abortPc, registers, start, abort, running, checked>>

PulseStart(d) ==
  LET starts == ~start /\ auto /\ ~abort IN
  /\ pc[d] = "start"
  /\ start' = TRUE
  /\ running' = IF starts THEN registers ELSE running
  /\ started' = [started EXCEPT ![d] = IF starts THEN registers ELSE NoStep]
  /\ stopped' = (stopped /\ ~(starts /\ abortPc # "abort"))
  /\ CoilWritten(d, "release")
  /\ UNCHANGED <<connected, want, abortPc, registers, auto, abort, checked>>

\* Mutant: the pulse is not taken back.
ReleaseStartMut(d) ==
  /\ pc[d] = "release"
  /\ CoilWritten(d, "idle")
  /\ UNCHANGED <<connected, want, started, abortPc, plcVars, checked, stopped>>

ReleaseStart(d) ==
  /\ pc[d] = "release"
  /\ start' = FALSE
  /\ CoilWritten(d, "idle")
  /\ UNCHANGED <<connected, want, started, abortPc, registers, auto, abort, running, checked, stopped>>

\* A coil write had no effect and returned an error response.
CoilIgnored(d) ==
  \E step \in {<<"auto", "start">>, <<"start", "release">>, <<"release", "idle">>} :
    /\ pc[d] = step[1]
    /\ Returns(d, step[2])
    /\ faulty' = TRUE
    /\ UNCHANGED <<connected, want, started, abortPc, plcVars, checked, stopped>>

\* A request had no effect and raised, or returned an error that is looked at.
RequestFails(d) ==
  /\ pc[d] # "idle"
  /\ Raises(d)
  /\ faulty' = (faulty \/ pc[d] \in {"auto", "start", "release"})
  /\ UNCHANGED <<connected, want, started, abortPc, plcVars, checked, stopped>>

(***************************************************************************)
(* abort_execution(): three coil writes in one try block; the first one    *)
(* that raises ends it silently.                                           *)
(***************************************************************************)

CallAbort ==
  /\ abortPc = "idle"
  /\ abortPc' = "abort"
  /\ stopped' = TRUE
  /\ faulty' = (faulty \/ InFlight)
  /\ UNCHANGED <<connected, callVars, plcVars, checked>>

\* M3 on: the PLC drops the step it runs.
WriteAbort ==
  /\ abortPc = "abort"
  /\ abort' = TRUE
  /\ running' = NoStep
  /\ abortPc' = "release"
  /\ UNCHANGED <<connected, callVars, registers, auto, start, checked, faulty, stopped>>

ReleaseAbort ==
  /\ abortPc = "release"
  /\ abort' = FALSE
  /\ abortPc' = "manual"
  /\ UNCHANGED <<connected, callVars, registers, auto, start, running, checked, faulty, stopped>>

\* Mutant: the lock on the automatic mode is kept.
SelectManualMut ==
  /\ abortPc = "manual"
  /\ abortPc' = "idle"
  /\ UNCHANGED <<connected, callVars, plcVars, checked, faulty, stopped>>

SelectManual ==
  /\ abortPc = "manual"
  /\ auto' = FALSE
  /\ abortPc' = "idle"
  /\ UNCHANGED <<connected, callVars, registers, start, abort, running, checked, faulty, stopped>>

\* A write without effect: the next one follows, or it raised and none does.
AbortWriteFails ==
  /\ abortPc # "idle"
  /\ abortPc' \in {"idle", CASE abortPc = "abort" -> "release"
                             [] abortPc = "release" -> "manual"
                             [] OTHER -> "idle"}
  /\ stopped' = FALSE
  /\ faulty' = TRUE
  /\ UNCHANGED <<connected, callVars, plcVars, checked>>

\* The PLC has completed the step.
StepEnds ==
  /\ running # NoStep
  /\ running' = NoStep
  /\ UNCHANGED <<connected, callVars, abortPc, registers, auto, start, abort, checked, faulty, stopped>>

-----------------------------------------------------------------------------

Download(d) ==
  \/ \E s \in Step : Call(d, s)
  \/ WriteRegisters(d)
  \/ ReadBack(d)
  \/ SelectAuto(d)
  \/ PulseStart(d)
  \/ ReleaseStart(d)
  \/ CoilIgnored(d)
  \/ RequestFails(d)

Abort == CallAbort \/ WriteAbort \/ ReleaseAbort \/ SelectManual \/ AbortWriteFails

Next ==
  \/ ConnectionChanges
  \/ \E d \in Downloader : Download(d)
  \/ Abort
  \/ StepEnds

Spec == Init /\ [][Next]_vars

(***************************************************************************)
(* Properties                                                              *)
(***************************************************************************)

\* Whatever requests of earlier and later downloads fail half way, and
\* whenever an abort comes, the PLC only starts register contents that were
\* read back intact (download_step_with_readback).
Handshake == INSTANCE VerifiedStart

StartsOnlyVerified == Handshake!Spec

\* download_step() answered from the handshake, no coil write of a download or
\* an abort has failed and no abort has overlapped a download.
Answered(d) == result[d] = "verified" /\ pc[d] = "idle" /\ ~faulty

\* A download that returned from the handshake while nothing failed on the way
\* has started the very registers it was called for.
VerifiedStepStarted == \A d \in Downloader : Answered(d) => started[d] = Registers(want[d])

\* Then, if the step is in the range of its registers, what the PLC runs is
\* what the caller asked for, setpoint by setpoint and bit by bit: the words
\* that the read-back compared mean to the PLC what the recipe said.
SetpointsArrive ==
  \A d \in Downloader :
    Answered(d) /\ Fits(want[d].data, want[d].index)
      => started[d] # NoStep /\ started[d] # Garbled /\ Tells(started[d], want[d].data, want[d].index)

\* An abort whose writes all took effect leaves the PLC in manual mode and
\* without a step, whatever downloads are in flight or called: it stays so until
\* one of them selects the automatic mode again.  The exception is a download
\* that pulses M1 between the abort's two last writes, when M3 is off and M2 is
\* still on: its step runs.  "Immediate emergency batch abort", as its docstring
\* calls it, thus ends no download that is between two of its requests.
AbortStops ==
  stopped /\ abortPc = "idle" => ~auto /\ ~abort /\ running = NoStep
=============================================================================
