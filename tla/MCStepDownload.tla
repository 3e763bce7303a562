--------------------------- MODULE MCStepDownload ---------------------------
(***************************************************************************)
(* One or two threads that download, and five steps: one like that of the  *)
(* tests, one that uses the other mode of every group and the co-active    *)
(* speed, two whose durations have the same low 16 bits, and one with an   *)
(* identifier of the user interface the map does not know.                 *)
(***************************************************************************)
EXTENDS StepDownload

CONSTANTS d1, d2

One == {d1}
Two == {d1, d2}

Deaeration ==
  [agitatorSpeed |-> 3500, runAgitatorCoActive |-> TRUE, coActiveAgitatorSpeed |-> 2000, homogenizerSpeed |-> 280050, targetTemp |-> 8255,
   tempGradient |-> 1200, targetVacuum |-> -45000, durationMin |-> 15, durationSec |-> 30]

Cooling ==
  [runAgitatorCoActive |-> TRUE, agitatorMode |-> "agitator_rev", homogenizerMode |-> "homo_pulse",
   thermalMode |-> "heat_mode_cooling", vacuumMode |-> "vac_vent_atm", durationMin |-> 40]

Minute == [durationSec |-> 61]
Day == [durationMin |-> 1093, durationSec |-> 17]
Reversing == [agitatorMode |-> "agitator_reversing", durationMin |-> 5]

MCStep ==
  {[data |-> Deaeration, index |-> 4], [data |-> Cooling, index |-> 5],
   [data |-> Minute, index |-> 1], [data |-> Day, index |-> 1], [data |-> Reversing, index |-> 2]}

RaceStep == {[data |-> Deaeration, index |-> 4], [data |-> Minute, index |-> 1]}

\* The two conversions are inverse to each other over their whole ranges.
ASSUME WordsRoundTrip ==
  /\ \A val \in -32768..32767 : ToSigned16(ToUnsigned16(val)) = val
  /\ \A val \in 0..(Word - 1) : ToUnsigned16(ToSigned16(val)) = val

\* Rounded() is a nearest integer, and the even one of two.
ASSUME RoundedIsNearest ==
  \A d \in {10, 100} : \A n \in -1000..1000 :
    /\ Near(Rounded(n, d), n, d)
    /\ Near(Rounded(n, d) + 1, n, d) \/ Near(Rounded(n, d) - 1, n, d) => Rounded(n, d) % 2 = 0

\* A poll of a vessel at -0.1 degrees and -450 mbar; a response that ends after
\* D2 and M34 reads as zeros from there on.
ASSUME TelemetryIsUnpacked ==
  LET regs == [idx \in 0..19 |-> CASE idx = 0 -> 35 [] idx = 2 -> ToUnsigned16(-1)
                                   [] idx = 4 -> ToUnsigned16(-4500) [] OTHER -> 0]
      coils == [offset \in 0..15 |-> offset \in {0, 2, 9}]
      all == Unpack(regs, coils)
      cut == Unpack([idx \in 0..2 |-> regs[idx]], [offset \in 0..2 |-> coils[offset]])
  IN  /\ all.speeds.agitator = 35 /\ all.tenths.temperature = -1 /\ all.tenths.vacuum = -4500
      /\ all.status.running /\ all.status.stepDone /\ ~all.status.held
      /\ all.interlock.minLevel /\ ~all.interlock.sealFlush
      /\ cut = [all EXCEPT !.tenths.vacuum = 0, !.interlock.minLevel = FALSE]
=============================================================================
