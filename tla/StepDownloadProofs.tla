------------------------- MODULE StepDownloadProofs -------------------------
(***************************************************************************)
(* The register map and the download of steps, for any threads and steps.  *)
(* What a download claims of the PLC is false of calls that overlap.  It   *)
(* is proved of any number of threads as long as no two calls are in       *)
(* flight at once (Serial), as a lock around download_step() would see to, *)
(* and so of a single thread.                                              *)
(***************************************************************************)
EXTENDS StepDownload, TLAPS

\* No two calls of download_step() are in flight at once.
Serial == \A d, e \in Downloader : pc[d] # "idle" /\ pc[e] # "idle" => d = e

\* One thread downloads.
OneThread == \A d, e \in Downloader : d = e

-----------------------------------------------------------------------------
\* The register map.

\* The size of a word, as far as the map depends on it.
LEMMA WordSize == Word \in Nat /\ Half \in Nat /\ Half > 0 /\ Word = 2 * Half
  BY SMT DEF Word, Half

\* The remainder of a number that is a word, or one word too small.
LEMMA Remainder ==
  ASSUME NEW W \in Nat, NEW x \in Int
  PROVE  /\ 0 <= x /\ x < W => x % W = x
         /\ -W <= x /\ x < 0 => x % W = x + W
<1>1. CASE W = 0
  BY <1>1, SMT
<1>2. CASE W > 0
  <2> DEFINE q == x \div W
  <2>1. q \in Int /\ x % W \in Int /\ x = (W * q) + (x % W) /\ 0 <= x % W /\ x % W < W
    BY <1>2, SMT
  <2> HIDE DEF q
  <2>2. q >= 1 => W * q >= W
    BY <2>1, <1>2, SMT
  <2>3. q <= -1 => W * q <= -W
    BY <2>1, <1>2, SMT
  <2>4. q <= -2 => W * q <= -2 * W
    BY <2>1, <1>2, SMT
  <2>5. q = 0 \/ q = -1 \/ q <= -2 \/ q >= 1
    BY <2>1, SMT
  <2> QED
    BY <2>1, <2>2, <2>3, <2>4, <2>5, <1>2, SMT
<1> QED
  BY <1>1, <1>2, SMT

\* A signed word comes back from its register.
LEMMA WordRoundTrip ==
  /\ \A val \in (-Half)..(Half - 1) : ToSigned16(ToUnsigned16(val)) = val
  /\ \A val \in 0..(Word - 1) : ToUnsigned16(val) = val
<1>1. ASSUME NEW val \in (-Half)..(Half - 1) PROVE ToSigned16(ToUnsigned16(val)) = val
  <2>1. val \in Int /\ -Half <= val /\ val < Half
    BY WordSize, SMT
  <2>2. CASE val < 0
    <3>1. val % Word = val + Word /\ (val + Word) % Word = val + Word
      BY <2>1, <2>2, WordSize, Remainder, SMT
    <3> QED
      BY <2>1, <2>2, <3>1, WordSize, SMT DEF ToSigned16, ToUnsigned16
  <2>3. CASE val >= 0
    <3>1. val % Word = val
      BY <2>1, <2>3, WordSize, Remainder, SMT
    <3> QED
      BY <2>1, <2>3, <3>1, WordSize, SMT DEF ToSigned16, ToUnsigned16
  <2> QED
    BY <2>1, <2>2, <2>3, SMT
<1>2. ASSUME NEW val \in 0..(Word - 1) PROVE ToUnsigned16(val) = val
  BY WordSize, Remainder, SMT DEF ToUnsigned16
<1> QED
  BY <1>1, <1>2, SMT

\* Rounded() is nearest, and no bound that is a whole number is overrun.
LEMMA RoundedHundred ==
  ASSUME NEW n \in Int
  PROVE  /\ Rounded(n, 100) \in Int /\ Near(Rounded(n, 100), n, 100)
         /\ \A w \in Nat : n \in 0..(100 * w) => Rounded(n, 100) \in 0..w
         /\ n = 0 => Rounded(n, 100) = 0
  BY SMT DEF Rounded, Near

\* Rounding of hundredths to tenths is nearest too.
LEMMA RoundedTen ==
  ASSUME NEW n \in Int
  PROVE  /\ Rounded(n, 10) \in Int /\ Near(Rounded(n, 10), n, 10)
         /\ \A v, w \in Int : n \in (10 * v)..(10 * w) => Rounded(n, 10) \in v..w
  BY SMT DEF Rounded, Near

\* The mode bits tell the modes the map knows.
LEMMA BitsTell ==
  ASSUME NEW s, Known(s)
  PROVE  /\ (0 \in ModeBits(s)) = (s.agitatorMode = "agitator_cw")
         /\ (1 \in ModeBits(s)) = (s.agitatorMode = "agitator_ccw")
         /\ (2 \in ModeBits(s)) = (s.agitatorMode = "agitator_rev")
         /\ (3 \in ModeBits(s)) = (s.homogenizerMode = "homo_permanent")
         /\ (4 \in ModeBits(s)) = (s.homogenizerMode = "homo_pulse")
         /\ (5 \in ModeBits(s)) = (s.thermalMode = "heat_mode_heating")
         /\ (6 \in ModeBits(s)) = (s.thermalMode = "heat_mode_cooling")
         /\ (7 \in ModeBits(s)) = (s.vacuumMode = "vac_auto_drawdown")
         /\ (8 \in ModeBits(s)) = (s.vacuumMode = "vac_vent_atm")
  BY SMT DEF Known, ModeBits

\* For every step in the range of its registers, with any keys left out, the
\* packed registers tell the PLC what the step asks for (pack_step_setpoints).
THEOREM PackTells ==
  ASSUME NEW step, NEW index, Fits(step, index)
  PROVE  Tells(Pack(step, index), step, index)
<1> DEFINE s == Full(step)
           regs == Pack(step, index)
<1>1. /\ s.agitatorSpeed \in 0..(100 * (Word - 1)) /\ s.coActiveAgitatorSpeed \in 0..(100 * (Word - 1))
      /\ s.homogenizerSpeed \in 0..(100 * (Word - 1))
      /\ s.targetTemp \in 0..(10 * (Word - 1)) /\ s.tempGradient \in 0..(10 * (Word - 1))
      /\ s.targetVacuum \in (-10 * Half)..(10 * (Half - 1))
      /\ Seconds(s) \in 0..(Word - 1) /\ s.homoPulseOnSec \in 0..(Word - 1) /\ s.homoPulseOffSec \in 0..(Word - 1)
      /\ index \in 0..(Word - 1) /\ Known(s)
  BY SMT DEF Fits
<1>2. /\ regs.agitator = ToUnsigned16(AgitatorSetpoint(s))
      /\ regs.homogenizer = ToUnsigned16(Rounded(s.homogenizerSpeed, 100))
      /\ regs.temperature = ToUnsigned16(Rounded(s.targetTemp, 10))
      /\ regs.ramp = ToUnsigned16(Rounded(s.tempGradient, 10))
      /\ regs.vacuum = ToUnsigned16(Rounded(s.targetVacuum, 10))
      /\ regs.seconds = ToUnsigned16(Seconds(s)) /\ regs.modes = ModeBits(s)
      /\ regs.pulseOn = ToUnsigned16(s.homoPulseOnSec) /\ regs.pulseOff = ToUnsigned16(s.homoPulseOffSec)
      /\ regs.index = ToUnsigned16(index)
  BY SMT DEF Pack
<1> HIDE DEF s, regs
<1>3. \/ Near(regs.agitator, s.agitatorSpeed, 100) /\ ~(s.runAgitatorCoActive /\ s.agitatorSpeed = 0)
      \/ Near(regs.agitator, s.coActiveAgitatorSpeed, 100) /\ s.runAgitatorCoActive /\ Near(0, s.agitatorSpeed, 100)
  <2> DEFINE own == Rounded(s.agitatorSpeed, 100)
             co == Rounded(s.coActiveAgitatorSpeed, 100)
  <2>1. /\ own \in 0..(Word - 1) /\ Near(own, s.agitatorSpeed, 100) /\ (s.agitatorSpeed = 0 => own = 0)
        /\ co \in 0..(Word - 1) /\ Near(co, s.coActiveAgitatorSpeed, 100)
    BY <1>1, RoundedHundred, WordSize, SMT
  <2>2. CASE s.runAgitatorCoActive /\ own = 0
    <3>1. AgitatorSetpoint(s) = co
      BY <2>2, SMT DEF AgitatorSetpoint
    <3>2. regs.agitator = co
      BY <1>2, <2>1, <3>1, WordRoundTrip, SMT
    <3> QED
      BY <2>1, <2>2, <3>2, SMT
  <2>3. CASE ~(s.runAgitatorCoActive /\ own = 0)
    <3>1. AgitatorSetpoint(s) = own
      BY <2>3, SMT DEF AgitatorSetpoint
    <3>2. regs.agitator = own
      BY <1>2, <2>1, <3>1, WordRoundTrip, SMT
    <3> QED
      BY <2>1, <2>3, <3>2, SMT
  <2> QED
    BY <2>2, <2>3, SMT
<1>4. /\ Near(regs.homogenizer, s.homogenizerSpeed, 100)
      /\ Near(regs.temperature, s.targetTemp, 10) /\ Near(regs.ramp, s.tempGradient, 10)
      /\ Near(ToSigned16(regs.vacuum), s.targetVacuum, 10)
  <2>1. Rounded(s.homogenizerSpeed, 100) \in 0..(Word - 1) /\ Near(Rounded(s.homogenizerSpeed, 100), s.homogenizerSpeed, 100)
    BY <1>1, RoundedHundred, WordSize, SMT
  <2>2. Rounded(s.targetTemp, 10) \in 0..(Word - 1) /\ Near(Rounded(s.targetTemp, 10), s.targetTemp, 10)
    BY <1>1, RoundedTen, WordSize, SMT
  <2>3. Rounded(s.tempGradient, 10) \in 0..(Word - 1) /\ Near(Rounded(s.tempGradient, 10), s.tempGradient, 10)
    BY <1>1, RoundedTen, WordSize, SMT
  <2>4. Rounded(s.targetVacuum, 10) \in (-Half)..(Half - 1) /\ Near(Rounded(s.targetVacuum, 10), s.targetVacuum, 10)
    <3>1. -Half \in Int /\ Half - 1 \in Int /\ s.targetVacuum \in (10 * (-Half))..(10 * (Half - 1))
      BY <1>1, WordSize, SMT
    <3> QED
      BY <3>1, RoundedTen, SMT
  <2> QED
    BY <1>2, <2>1, <2>2, <2>3, <2>4, WordRoundTrip, SMT
<1>5. <<regs.seconds, regs.pulseOn, regs.pulseOff, regs.index>>
        = <<Seconds(s), s.homoPulseOnSec, s.homoPulseOffSec, index>>
  BY <1>1, <1>2, WordRoundTrip, SMT
<1> QED
  BY <1>1, <1>2, <1>3, <1>4, <1>5, BitsTell, SMT DEF s, regs, Tells

\* Two steps in the range of their registers that are packed alike ask for the
\* same modes, durations, pulses and index, and for temperatures, ramps and
\* vacuums within one register unit of each other: what the read-back cannot
\* tell apart the PLC need not (pack_step_setpoints, download_step).
THEOREM PackTellsApart ==
  ASSUME NEW s, NEW i, Fits(s, i), NEW t, NEW j, Fits(t, j), Pack(s, i) = Pack(t, j)
  PROVE  LET a == Full(s)
             b == Full(t)
         IN  /\ Seconds(a) = Seconds(b) /\ i = j
             /\ a.homoPulseOnSec = b.homoPulseOnSec /\ a.homoPulseOffSec = b.homoPulseOffSec
             /\ a.homogenizerSpeed - b.homogenizerSpeed \in -100..100
             /\ a.targetTemp - b.targetTemp \in -10..10
             /\ a.tempGradient - b.tempGradient \in -10..10
             /\ a.targetVacuum - b.targetVacuum \in -10..10
             /\ a.agitatorMode = b.agitatorMode /\ a.homogenizerMode = b.homogenizerMode
             /\ a.thermalMode = b.thermalMode /\ a.vacuumMode = b.vacuumMode
<1> DEFINE a == Full(s)
           b == Full(t)
           regs == Pack(s, i)
<1>1. Tells(regs, s, i) /\ Tells(regs, t, j)
  <2>1. Tells(Pack(t, j), t, j)
    BY PackTells
  <2> QED
    BY <2>1, PackTells
<1>2. /\ a.homogenizerSpeed \in Int /\ b.homogenizerSpeed \in Int
      /\ a.targetTemp \in Int /\ b.targetTemp \in Int
      /\ a.tempGradient \in Int /\ b.tempGradient \in Int
      /\ a.targetVacuum \in Int /\ b.targetVacuum \in Int
      /\ Known(a) /\ Known(b)
  BY WordSize, SMT DEF Fits
<1> HIDE DEF a, b, regs
<1>3. /\ regs.homogenizer \in Int /\ regs.temperature \in Int /\ regs.ramp \in Int
      /\ ToSigned16(regs.vacuum) \in Int
  <2>1. /\ Rounded(a.homogenizerSpeed, 100) \in Int /\ Rounded(a.targetTemp, 10) \in Int
        /\ Rounded(a.tempGradient, 10) \in Int /\ Rounded(a.targetVacuum, 10) \in Int
    <3>1. \A n \in Int : Rounded(n, 100) \in Int
      BY RoundedHundred, Zenon
    <3>2. \A n \in Int : Rounded(n, 10) \in Int
      BY RoundedTen, Zenon
    <3> QED
      BY <1>2, <3>1, <3>2, Zenon
  <2>2. \A x \in Int : ToUnsigned16(x) \in Int /\ ToSigned16(x) \in Int
    BY WordSize, SMT DEF ToUnsigned16, ToSigned16
  <2> QED
    BY <2>1, <2>2, SMT DEF Pack, a, regs
<1>4. /\ Seconds(a) = Seconds(b) /\ i = j
      /\ a.homoPulseOnSec = b.homoPulseOnSec /\ a.homoPulseOffSec = b.homoPulseOffSec
  BY <1>1, SMT DEF a, b, Tells
<1>5. /\ Near(regs.homogenizer, a.homogenizerSpeed, 100) /\ Near(regs.homogenizer, b.homogenizerSpeed, 100)
      /\ Near(regs.temperature, a.targetTemp, 10) /\ Near(regs.temperature, b.targetTemp, 10)
      /\ Near(regs.ramp, a.tempGradient, 10) /\ Near(regs.ramp, b.tempGradient, 10)
      /\ Near(ToSigned16(regs.vacuum), a.targetVacuum, 10) /\ Near(ToSigned16(regs.vacuum), b.targetVacuum, 10)
  BY <1>1, Zenon DEF a, b, Tells
<1>6. \A n, x, y \in Int : Near(n, x, 100) /\ Near(n, y, 100) => x - y \in -100..100
  BY SMT DEF Near
<1>7. \A n, x, y \in Int : Near(n, x, 10) /\ Near(n, y, 10) => x - y \in -10..10
  BY SMT DEF Near
<1>8. /\ a.homogenizerSpeed - b.homogenizerSpeed \in -100..100
      /\ a.targetTemp - b.targetTemp \in -10..10
      /\ a.tempGradient - b.tempGradient \in -10..10
      /\ a.targetVacuum - b.targetVacuum \in -10..10
  BY <1>2, <1>3, <1>5, <1>6, <1>7, SMT
<1>9. /\ a.agitatorMode = b.agitatorMode /\ a.homogenizerMode = b.homogenizerMode
      /\ a.thermalMode = b.thermalMode /\ a.vacuumMode = b.vacuumMode
  BY <1>1, <1>2, SMT DEF a, b, Tells, Known
<1> QED
  BY <1>4, <1>8, <1>9 DEF a, b

\* Every word is some signed number, and comes back from it (ToSigned16 and
\* ToUnsigned16 of delta_map.py are inverse to each other).
THEOREM WordsRoundTrip ==
  \A word \in 0..(Word - 1) :
    ToSigned16(word) \in (-Half)..(Half - 1) /\ ToUnsigned16(ToSigned16(word)) = word
<1> SUFFICES ASSUME NEW word \in 0..(Word - 1)
             PROVE  ToSigned16(word) \in (-Half)..(Half - 1) /\ ToUnsigned16(ToSigned16(word)) = word
  OBVIOUS
<1>1. word \in Int /\ 0 <= word /\ word < Word /\ word % Word = word
  BY WordSize, Remainder, SMT
<1>2. CASE word >= Half
  <2>1. ToSigned16(word) = word - Word
    BY <1>1, <1>2, SMT DEF ToSigned16
  <2>2. (word - Word) % Word = word
    BY <1>1, <1>2, WordSize, Remainder, SMT
  <2> QED
    BY <1>1, <1>2, <2>1, <2>2, WordSize, SMT DEF ToUnsigned16
<1>3. CASE word < Half
  <2>1. ToSigned16(word) = word
    BY <1>1, <1>3, WordSize, SMT DEF ToSigned16
  <2> QED
    BY <1>1, <1>3, <2>1, WordSize, SMT DEF ToUnsigned16
<1> QED
  BY <1>1, <1>2, <1>3, WordSize, SMT

\* The telemetry tells the signed tenths the PLC put into its words, below
\* zero too, and an offset that did not arrive reads as zero
\* (unpack_telemetry_registers).
THEOREM TelemetryTells ==
  ASSUME NEW regs, NEW coils, NEW t \in (-Half)..(Half - 1), NEW p \in (-Half)..(Half - 1),
         2 \in DOMAIN regs => regs[2] = ToUnsigned16(t),
         4 \in DOMAIN regs => regs[4] = ToUnsigned16(p)
  PROVE  /\ Unpack(regs, coils).tenths.temperature = IF 2 \in DOMAIN regs THEN t ELSE 0
         /\ Unpack(regs, coils).tenths.vacuum = IF 4 \in DOMAIN regs THEN p ELSE 0
<1>1. ToSigned16(0) = 0
  <2>1. 0 % Word = 0
    BY WordSize, Remainder, SMT
  <2> QED
    BY <2>1, WordSize, SMT DEF ToSigned16
<1>2. ToSigned16(ToUnsigned16(t)) = t /\ ToSigned16(ToUnsigned16(p)) = p
  BY WordRoundTrip
<1>3. /\ Unpack(regs, coils).tenths.temperature = ToSigned16(IF 2 \in DOMAIN regs THEN regs[2] ELSE 0)
      /\ Unpack(regs, coils).tenths.vacuum = ToSigned16(IF 4 \in DOMAIN regs THEN regs[4] ELSE 0)
  BY SMT DEF Unpack
<1> QED
  BY <1>1, <1>2, <1>3, Zenon

-----------------------------------------------------------------------------
\* Any number of threads: types, and what an abort has reached.

Wanted == \A d \in Downloader : pc[d] # "idle" \/ result[d] = "verified" => want[d] \in Step

AbortProgress ==
  stopped =>
    /\ abortPc \in {"release", "manual", "idle"} => running = NoStep
    /\ abortPc = "release" => abort
    /\ abortPc \in {"manual", "idle"} => ~abort
    /\ abortPc = "idle" => ~auto

CallInv == TypeOK /\ Wanted /\ AbortProgress

\* Calling download_step().
LEMMA CallCallInv ==
  ASSUME CallInv, NEW d \in Downloader, NEW s \in Step, Call(d, s)
  PROVE  CallInv'
<1> USE DEF CallInv, Call
<1>1. TypeOK'
  <2>1. /\ pc' \in [Downloader -> {"idle", "write", "read", "auto", "start", "release"}]
        /\ want' \in [Downloader -> Step \cup {NoStep}]
        /\ result' \in [Downloader -> {"none", "verified", "simulated", "raised"}]
        /\ started' \in [Downloader -> Content \cup {NoStep}]
    BY DEF TypeOK
  <2>2. faulty' \in BOOLEAN /\ stopped' \in BOOLEAN
    BY Zenon DEF TypeOK
  <2> QED
    BY <2>1, <2>2 DEF TypeOK, plcVars
<1>2. Wanted'
  BY DEF Wanted, TypeOK
<1>3. AbortProgress'
  BY DEF AbortProgress, plcVars
<1> QED
  BY <1>1, <1>2, <1>3

\* The requests of a download.
LEMMA RequestCallInv ==
  ASSUME CallInv, NEW d \in Downloader,
         \/ WriteRegisters(d) \/ ReadBack(d) \/ SelectAuto(d) \/ PulseStart(d)
         \/ ReleaseStart(d) \/ CoilIgnored(d) \/ RequestFails(d)
  PROVE  CallInv'
<1> USE DEF CallInv, Returns, Raises, CoilWritten
<1>1. pc[d] # "idle" /\ want[d] \in Step /\ UNCHANGED <<connected, want, abortPc, abort>>
  BY DEF Wanted, WriteRegisters, ReadBack, SelectAuto, PulseStart, ReleaseStart, CoilIgnored,
     RequestFails, plcVars
<1>2. TypeOK'
  <2>1. /\ pc' \in [Downloader -> {"idle", "write", "read", "auto", "start", "release"}]
        /\ result' \in [Downloader -> {"none", "verified", "simulated", "raised"}]
    BY DEF TypeOK, WriteRegisters, ReadBack, SelectAuto, PulseStart, ReleaseStart, CoilIgnored, RequestFails
  <2>2. registers' \in Content
    BY <1>1 DEF TypeOK, Content, WriteRegisters, ReadBack, SelectAuto, PulseStart, ReleaseStart, CoilIgnored,
       RequestFails, plcVars
  <2>3. running' \in Content \cup {NoStep} /\ started' \in [Downloader -> Content \cup {NoStep}]
    BY DEF TypeOK, WriteRegisters, ReadBack, SelectAuto, PulseStart, ReleaseStart, CoilIgnored, RequestFails, plcVars
  <2>4. auto' \in BOOLEAN /\ start' \in BOOLEAN /\ checked' \in BOOLEAN /\ faulty' \in BOOLEAN
        /\ stopped' \in BOOLEAN
    BY Zenon DEF TypeOK, WriteRegisters, ReadBack, SelectAuto, PulseStart, ReleaseStart, CoilIgnored, RequestFails,
       plcVars
  <2> QED
    BY <1>1, <2>1, <2>2, <2>3, <2>4 DEF TypeOK
<1>3. Wanted'
  BY <1>1 DEF Wanted, TypeOK, WriteRegisters, ReadBack, SelectAuto, PulseStart, ReleaseStart, CoilIgnored, RequestFails
<1>4. AbortProgress'
  <2>1. CASE SelectAuto(d)
    BY <1>1, <2>1 DEF SelectAuto, AbortProgress, TypeOK
  <2>2. CASE PulseStart(d)
    <3>1. SUFFICES ASSUME stopped' PROVE AbortProgress'
      BY DEF AbortProgress
    <3>2. stopped /\ auto' = auto /\ (running' = running \/ (auto /\ ~abort /\ abortPc = "abort"))
      BY <2>2, <3>1 DEF PulseStart
    <3> QED
      BY <1>1, <3>2 DEF AbortProgress
  <2>3. CASE WriteRegisters(d) \/ ReadBack(d) \/ ReleaseStart(d) \/ CoilIgnored(d) \/ RequestFails(d)
    <3>1. UNCHANGED <<auto, running, stopped>>
      BY <2>3 DEF WriteRegisters, ReadBack, ReleaseStart, CoilIgnored, RequestFails, plcVars
    <3> QED
      BY <1>1, <3>1 DEF AbortProgress
  <2> QED
    BY <2>1, <2>2, <2>3
<1> QED
  BY <1>2, <1>3, <1>4

\* The abort, the connection and the end of a step.
LEMMA AbortCallInv ==
  ASSUME CallInv, Abort \/ ConnectionChanges \/ StepEnds
  PROVE  CallInv'
<1> USE DEF CallInv, Abort
<1>1. UNCHANGED <<callVars, registers, start, checked>>
  BY DEF CallAbort, WriteAbort, ReleaseAbort, SelectManual, AbortWriteFails, ConnectionChanges, StepEnds, plcVars
<1>2. TypeOK'
  <2>1. abortPc' \in {"idle", "abort", "release", "manual"} /\ running' \in Content \cup {NoStep}
    BY DEF TypeOK, CallAbort, WriteAbort, ReleaseAbort, SelectManual, AbortWriteFails, ConnectionChanges, StepEnds,
       plcVars
  <2>2. connected' \in BOOLEAN /\ auto' \in BOOLEAN /\ abort' \in BOOLEAN /\ faulty' \in BOOLEAN /\ stopped' \in BOOLEAN
    BY Zenon DEF TypeOK, CallAbort, WriteAbort, ReleaseAbort, SelectManual, AbortWriteFails, ConnectionChanges,
       StepEnds, plcVars
  <2> QED
    BY <1>1, <2>1, <2>2 DEF TypeOK, callVars
<1>3. Wanted'
  BY <1>1 DEF Wanted, callVars
<1>4. AbortProgress'
  BY <1>1 DEF AbortProgress, TypeOK, CallAbort, WriteAbort, ReleaseAbort, SelectManual, AbortWriteFails,
     ConnectionChanges, StepEnds, plcVars, callVars
<1> QED
  BY <1>2, <1>3, <1>4

\* Types and abort progress hold in every reachable state.
LEMMA CallInvariance == Spec => []CallInv
<1>1. Init => CallInv
  BY DEF Init, CallInv, TypeOK, Wanted, AbortProgress, Content
<1>2. CallInv /\ [Next]_vars => CallInv'
  <2> SUFFICES ASSUME CallInv, [Next]_vars PROVE CallInv'
    OBVIOUS
  <2>1. ASSUME NEW d \in Downloader, Download(d) PROVE CallInv'
    BY <2>1, CallCallInv, RequestCallInv DEF Download
  <2>2. CASE Abort \/ ConnectionChanges \/ StepEnds
    BY <2>2, AbortCallInv
  <2>3. CASE UNCHANGED vars
    BY <2>3 DEF vars, callVars, plcVars, CallInv, TypeOK, Wanted, AbortProgress
  <2> QED
    BY <2>1, <2>2, <2>3 DEF Next
<1> QED
  BY <1>1, <1>2, PTL DEF Spec

\* The PLC's registers and coils and the calls keep their types, for any
\* threads and steps (download_step, abort_execution).
THEOREM TypeCorrect == Spec => []TypeOK
<1>1. CallInv => TypeOK
  BY DEF CallInv
<1> QED
  BY <1>1, CallInvariance, PTL

\* However many threads are in the middle of a download when an abort comes, or
\* call one after it, an abort whose writes took effect leaves the PLC stopped
\* and in manual mode, until a download selects the automatic mode after the
\* abort's last write or pulses M1 between its last two (abort_execution).
THEOREM AbortLeavesStopped == Spec => []AbortStops
<1>1. CallInv => AbortStops
  BY DEF CallInv, AbortProgress, AbortStops
<1> QED
  BY <1>1, CallInvariance, PTL

-----------------------------------------------------------------------------
\* Serial calls: the registers from the read-back to the pulse.

\* From the read-back to the pulse the registers hold the step, verified.
CheckedBeforeStart ==
  \A d \in Downloader : pc[d] \in {"auto", "start"} => checked /\ registers = Registers(want[d])

\* A call touches nothing of the other calls, which are idle unless it begins.
LEMMA DownloadAlone ==
  ASSUME Serial, CallInv, NEW d \in Downloader, Download(d), NEW e \in Downloader, e # d
  PROVE  /\ pc'[e] = pc[e] /\ want'[e] = want[e] /\ result'[e] = result[e] /\ started'[e] = started[e]
         /\ pc[e] = "idle" \/ \E s \in Step : Call(d, s)
<1> USE DEF CallInv, TypeOK
<1>1. ASSUME NEW s \in Step, Call(d, s)
      PROVE  pc'[e] = pc[e] /\ want'[e] = want[e] /\ result'[e] = result[e] /\ started'[e] = started[e]
  BY <1>1 DEF Call
<1>2. ASSUME \/ WriteRegisters(d) \/ ReadBack(d) \/ SelectAuto(d) \/ PulseStart(d)
             \/ ReleaseStart(d) \/ CoilIgnored(d) \/ RequestFails(d)
      PROVE  /\ pc[d] # "idle"
             /\ pc'[e] = pc[e] /\ want'[e] = want[e] /\ result'[e] = result[e] /\ started'[e] = started[e]
  BY <1>2 DEF WriteRegisters, ReadBack, SelectAuto, PulseStart, ReleaseStart, CoilIgnored, RequestFails, CoilWritten,
     Returns, Raises
<1> QED
  BY <1>1, <1>2 DEF Download, Serial

\* No write of another call comes between the read-back and the pulse.
LEMMA StepChecked ==
  ASSUME Serial, CallInv, CheckedBeforeStart, [Next]_vars
  PROVE  CheckedBeforeStart'
<1> USE DEF CheckedBeforeStart, CallInv, TypeOK
<1>1. ASSUME NEW d \in Downloader, Download(d) PROVE CheckedBeforeStart'
  <2>1. pc'[d] \in {"auto", "start"} => checked' /\ registers' = Registers(want'[d])
    <3>1. ASSUME NEW s \in Step, Call(d, s) PROVE pc'[d] \notin {"auto", "start"}
      BY <3>1 DEF Call
    <3>2. CASE WriteRegisters(d)
      BY <3>2 DEF WriteRegisters, Returns, Raises
    <3>3. CASE ReadBack(d)
      BY <3>3 DEF ReadBack, Returns, Raises, plcVars
    <3>4. CASE SelectAuto(d) \/ PulseStart(d) \/ ReleaseStart(d) \/ CoilIgnored(d) \/ RequestFails(d)
      BY <3>4 DEF SelectAuto, PulseStart, ReleaseStart, CoilIgnored, RequestFails, CoilWritten, Returns, Raises, plcVars
    <3> QED
      BY <1>1, <3>1, <3>2, <3>3, <3>4 DEF Download
  <2>2. ASSUME NEW e \in Downloader, e # d, pc'[e] \in {"auto", "start"}
        PROVE  checked' /\ registers' = Registers(want'[e])
    <3>1. pc'[e] = pc[e] /\ want'[e] = want[e]
      BY <1>1, <2>2, DownloadAlone
    <3>2. PICK s \in Step : Call(d, s)
      BY <1>1, <2>2, <3>1, DownloadAlone
    <3> QED
      BY <2>2, <3>1, <3>2 DEF Call, plcVars
  <2> QED
    BY <2>1, <2>2
<1>2. CASE Abort \/ ConnectionChanges \/ StepEnds \/ UNCHANGED vars
  BY <1>2 DEF Abort, CallAbort, WriteAbort, ReleaseAbort, SelectManual, AbortWriteFails, ConnectionChanges, StepEnds,
     vars, plcVars, callVars
<1> QED
  BY <1>1, <1>2 DEF Next

\* The registers are verified before every pulse, as long as calls are serial.
LEMMA Checked == Spec /\ []Serial => [](CallInv /\ CheckedBeforeStart)
<1>1. Init => CheckedBeforeStart
  BY DEF Init, CheckedBeforeStart
<1>2. Serial /\ CallInv /\ CheckedBeforeStart /\ [Next]_vars => CheckedBeforeStart'
  BY StepChecked
<1> QED
  BY <1>1, <1>2, CallInvariance, PTL DEF Spec

\* Serial calls implement the handshake's promise, for any number of threads
\* and any steps: the PLC only starts registers that were read back intact,
\* whatever fails and whenever an abort comes (download_step_with_readback).
THEOREM SerialIsVerified == Spec /\ []Serial => StartsOnlyVerified
<1>1. Init => Handshake!Init
  BY DEF Init, Handshake!Init
<1>2. CallInv /\ CheckedBeforeStart /\ [Next]_vars
        => [Handshake!Next]_<<registers, checked, running>>
  <2> SUFFICES ASSUME CallInv, CheckedBeforeStart, [Next]_vars
               PROVE  [Handshake!Next]_<<registers, checked, running>>
    OBVIOUS
  <2> USE DEF Handshake!Next, plcVars
  <2>1. ASSUME NEW d \in Downloader, Download(d)
        PROVE  [Handshake!Next]_<<registers, checked, running>>
    <3>1. CASE WriteRegisters(d)
      BY <3>1 DEF WriteRegisters, Handshake!Write
    <3>2. CASE ReadBack(d)
      BY <3>2 DEF ReadBack, Handshake!Write, Handshake!Verify
    <3>3. CASE PulseStart(d)
      BY <3>3 DEF PulseStart, CheckedBeforeStart, Handshake!Start
    <3>4. CASE (\E s \in Step : Call(d, s)) \/ SelectAuto(d) \/ ReleaseStart(d) \/ CoilIgnored(d) \/ RequestFails(d)
      BY <3>4 DEF Call, SelectAuto, ReleaseStart, CoilIgnored, RequestFails
    <3> QED
      BY <2>1, <3>1, <3>2, <3>3, <3>4 DEF Download
  <2>2. CASE Abort \/ ConnectionChanges \/ StepEnds \/ UNCHANGED vars
    BY <2>2 DEF Abort, CallAbort, WriteAbort, ReleaseAbort, SelectManual, AbortWriteFails, ConnectionChanges,
       StepEnds, vars, Handshake!Stop
  <2> QED
    BY <2>1, <2>2 DEF Next
<1> QED
  BY Checked, <1>1, <1>2, PTL DEF Spec, StartsOnlyVerified, Handshake!Spec

\* With one thread the calls are serial.
LEMMA OneThreadIsSerial ==
  ASSUME OneThread
  PROVE  []Serial
<1>1. Serial
  BY OneThread DEF OneThread, Serial
<1> QED
  BY <1>1, PTL

\* A single downloader implements the handshake's promise, for any steps: the
\* PLC only starts registers that were read back intact, whatever fails and
\* whenever an abort comes (download_step_with_readback).
THEOREM OneThreadIsVerified ==
  ASSUME OneThread
  PROVE  Spec => StartsOnlyVerified
  BY OneThread, OneThreadIsSerial, SerialIsVerified, PTL

-----------------------------------------------------------------------------
\* Serial calls: what a download that met no failure has made the PLC start.

QuietAbort ==
  ~faulty =>
    /\ InFlight => abortPc = "idle"
    /\ abortPc # "release" => ~abort

QuietDownload ==
  ~faulty =>
    /\ (\A d \in Downloader : pc[d] # "release") => ~start
    /\ \A d \in Downloader :
         /\ pc[d] = "start" => auto
         /\ pc[d] = "release" \/ (pc[d] = "idle" /\ result[d] = "verified") => started[d] = Registers(want[d])

QuietInv == CallInv /\ CheckedBeforeStart /\ QuietAbort /\ QuietDownload

\* As long as nothing failed, no abort overlaps a download.
LEMMA StepQuietAbort ==
  ASSUME QuietInv, [Next]_vars
  PROVE  QuietAbort'
<1> USE DEF QuietInv, QuietAbort, InFlight, CallInv, TypeOK
<1>1. ASSUME NEW d \in Downloader, NEW s \in Step, Call(d, s) PROVE QuietAbort'
  BY <1>1 DEF Call, plcVars
<1>2. ASSUME NEW d \in Downloader,
             \/ WriteRegisters(d) \/ ReadBack(d) \/ SelectAuto(d) \/ PulseStart(d)
             \/ ReleaseStart(d) \/ CoilIgnored(d) \/ RequestFails(d)
      PROVE  QuietAbort'
  <2>1. pc[d] # "idle" /\ UNCHANGED <<abortPc, abort>> /\ (faulty => faulty')
    BY <1>2 DEF WriteRegisters, ReadBack, SelectAuto, PulseStart, ReleaseStart, CoilIgnored, RequestFails, CoilWritten,
       plcVars
  <2> QED
    BY <2>1
<1>3. CASE Abort \/ ConnectionChanges \/ StepEnds \/ UNCHANGED vars
  BY <1>3 DEF Abort, CallAbort, WriteAbort, ReleaseAbort, SelectManual, AbortWriteFails, ConnectionChanges, StepEnds,
     vars, plcVars, callVars
<1> QED
  BY <1>1, <1>2, <1>3 DEF Next, Download

\* The own part of a call that is not disturbed.
LEMMA OwnQuietDownload ==
  ASSUME Serial, QuietInv, NEW d \in Downloader, Download(d), ~faulty'
  PROVE  /\ ~faulty
         /\ (\A e \in Downloader : pc'[e] # "release") => ~start'
         /\ pc'[d] = "start" => auto'
         /\ pc'[d] = "release" \/ (pc'[d] = "idle" /\ result'[d] = "verified") => started'[d] = Registers(want'[d])
<1> USE DEF QuietInv, QuietDownload, CallInv, TypeOK
<1>1. ASSUME NEW s \in Step, Call(d, s)
      PROVE  /\ ~faulty /\ pc[d] = "idle" /\ UNCHANGED start /\ pc'[d] \in {"idle", "write"}
             /\ (pc'[d] = "idle" => result'[d] = "simulated")
             /\ \A e \in Downloader : pc'[e] # "release" => pc[e] # "release"
  BY <1>1 DEF Call, plcVars
<1>2. CASE WriteRegisters(d)
  BY <1>2 DEF WriteRegisters, Returns, Raises
<1>3. CASE ReadBack(d)
  BY <1>3 DEF ReadBack, Returns, Raises, plcVars
<1>4. CASE SelectAuto(d)
  BY <1>4 DEF SelectAuto, CoilWritten, Returns, Raises
<1>5. CASE PulseStart(d)
  <2>1. ~faulty /\ pc[d] = "start" /\ auto /\ registers = Registers(want[d]) /\ ~abort
    BY <1>5 DEF PulseStart, CoilWritten, CheckedBeforeStart, QuietAbort, InFlight
  <2>2. ~start
    BY <2>1 DEF Serial
  <2>3. pc'[d] = "release" /\ started'[d] = registers /\ want' = want
    BY <1>5, <2>1, <2>2 DEF PulseStart, CoilWritten, Returns, Raises
  <2> QED
    BY <2>1, <2>3
<1>6. CASE ReleaseStart(d)
  BY <1>6 DEF ReleaseStart, CoilWritten, Returns, Raises
<1>7. CASE CoilIgnored(d)
  BY <1>7 DEF CoilIgnored
<1>8. CASE RequestFails(d)
  BY <1>8 DEF RequestFails, Raises, plcVars
<1> QED
  BY <1>1, <1>2, <1>3, <1>4, <1>5, <1>6, <1>7, <1>8 DEF Download

\* As long as nothing failed, a call that comes to its end has started its step.
LEMMA StepQuietDownload ==
  ASSUME Serial, QuietInv, [Next]_vars
  PROVE  QuietDownload'
<1>1. ASSUME NEW d \in Downloader, Download(d) PROVE QuietDownload'
  <2> SUFFICES ASSUME ~faulty'
               PROVE  /\ (\A e \in Downloader : pc'[e] # "release") => ~start'
                      /\ \A e \in Downloader :
                           /\ pc'[e] = "start" => auto'
                           /\ pc'[e] = "release" \/ (pc'[e] = "idle" /\ result'[e] = "verified")
                                => started'[e] = Registers(want'[e])
    BY DEF QuietDownload
  <2>1. /\ ~faulty
        /\ (\A e \in Downloader : pc'[e] # "release") => ~start'
        /\ pc'[d] = "start" => auto'
        /\ pc'[d] = "release" \/ (pc'[d] = "idle" /\ result'[d] = "verified") => started'[d] = Registers(want'[d])
    BY <1>1, OwnQuietDownload
  <2>2. ASSUME NEW e \in Downloader, e # d
        PROVE  /\ pc'[e] = "start" => auto'
               /\ pc'[e] = "release" \/ (pc'[e] = "idle" /\ result'[e] = "verified") => started'[e] = Registers(want'[e])
    <3>1. pc'[e] = pc[e] /\ want'[e] = want[e] /\ result'[e] = result[e] /\ started'[e] = started[e]
      BY <1>1, <2>2, DownloadAlone DEF QuietInv
    <3>2. pc[e] = "start" => auto' = auto
      <4>1. pc[e] = "start" => \E s \in Step : Call(d, s)
        BY <1>1, <2>2, DownloadAlone DEF QuietInv
      <4> QED
        BY <4>1 DEF Call, plcVars
    <3> QED
      BY <2>1, <3>1, <3>2 DEF QuietInv, QuietDownload
  <2> QED
    BY <2>1, <2>2
<1> USE DEF QuietInv, QuietDownload, CallInv, TypeOK
<1>2. CASE Abort
  BY <1>2 DEF Abort, CallAbort, WriteAbort, ReleaseAbort, SelectManual, AbortWriteFails, QuietAbort, InFlight,
     plcVars, callVars
<1>3. CASE ConnectionChanges \/ StepEnds \/ UNCHANGED vars
  BY <1>3 DEF ConnectionChanges, StepEnds, vars, plcVars, callVars
<1> QED
  BY <1>1, <1>2, <1>3 DEF Next

\* The quiet invariant holds as long as calls are serial.
LEMMA Quiet == Spec /\ []Serial => []QuietInv
<1>1. Init => QuietAbort /\ QuietDownload
  BY DEF Init, QuietAbort, QuietDownload, InFlight
<1>2. Serial /\ QuietInv /\ [Next]_vars => QuietAbort' /\ QuietDownload'
  BY StepQuietAbort, StepQuietDownload
<1> QED
  BY <1>1, <1>2, Checked, PTL DEF Spec, QuietInv

\* What a thread is told is verified, the PLC has started, as long as no two
\* calls overlap, no coil write fails and no abort overlaps (download_step).
THEOREM SerialStarts == Spec /\ []Serial => []VerifiedStepStarted
<1>1. QuietInv => VerifiedStepStarted
  BY DEF QuietInv, QuietDownload, VerifiedStepStarted, Answered
<1> QED
  BY <1>1, Quiet, PTL

\* And the PLC runs the setpoints of the recipe, for every step in the range
\* of its registers (download_step, pack_step_setpoints).
THEOREM SerialSetpointsArrive == Spec /\ []Serial => []SetpointsArrive
<1>1. ASSUME QuietInv PROVE SetpointsArrive
  <2> SUFFICES ASSUME NEW d \in Downloader, Answered(d), Fits(want[d].data, want[d].index)
               PROVE  /\ started[d] # NoStep /\ started[d] # Garbled
                      /\ Tells(started[d], want[d].data, want[d].index)
    BY DEF SetpointsArrive
  <2>1. started[d] = Registers(want[d]) /\ want[d] \in Step
    BY <1>1 DEF QuietInv, QuietDownload, CallInv, Wanted, Answered
  <2>2. Registers(want[d]) # NoStep /\ Registers(want[d]) # Garbled
    BY <2>1, StepAssumption DEF Content
  <2>3. Tells(Registers(want[d]), want[d].data, want[d].index)
    BY PackTells DEF Registers
  <2> QED
    BY <2>1, <2>2, <2>3
<1> QED
  BY <1>1, Quiet, PTL

\* What a single thread is told is verified, the PLC has started, unless a
\* coil write failed or an abort overlapped (download_step).
THEOREM OneThreadStarts ==
  ASSUME OneThread
  PROVE  Spec => []VerifiedStepStarted
  BY OneThread, OneThreadIsSerial, SerialStarts, PTL

\* And the PLC runs the setpoints of the recipe, for every step in the range
\* of its registers (download_step, pack_step_setpoints).
THEOREM OneThreadSetpointsArrive ==
  ASSUME OneThread
  PROVE  Spec => []SetpointsArrive
  BY OneThread, OneThreadIsSerial, SerialSetpointsArrive, PTL
=============================================================================
