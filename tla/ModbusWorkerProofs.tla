------------------------- MODULE ModbusWorkerProofs -------------------------
(***************************************************************************)
(* The polling thread: its safety properties are inductive together with   *)
(* the types.  Every step is one of the thread, which moves only from the  *)
(* place it is at, or one of its surroundings, which do not move it.       *)
(***************************************************************************)
EXTENDS ModbusWorker, Naturals, TLAPS

IInv == TypeOK /\ OneSignalPerPulse /\ SocketIsClosed

\* The thread itself.
LEMMA WorkerIInv ==
  ASSUME IInv, Worker
  PROVE  IInv'
<1> USE DEF IInv, Worker
<1>1. TypeOK'
  <2>1. at' \in {"top", "body", "ended"} /\ alive' \in BOOLEAN /\ link' \in BOOLEAN /\ done' \in BOOLEAN
    BY DEF TypeOK, EnterBody, Leave, Connect, StayOffline, Poll, PollRaises, plcVars
  <2>2. connected' \in BOOLEAN /\ open' \in BOOLEAN /\ seen' \in BOOLEAN
    BY DEF TypeOK, EnterBody, Leave, Connect, StayOffline, Poll, PollRaises
  <2>3. heartbeat' \in BOOLEAN /\ watchdog' \in BOOLEAN /\ fresh' \in BOOLEAN
    BY Zenon DEF TypeOK, EnterBody, Leave, Connect, StayOffline, Poll, PollRaises, plcVars
  <2> QED
    BY <2>1, <2>2, <2>3 DEF TypeOK
<1>2. OneSignalPerPulse'
  <2>1. CASE Poll
    BY <2>1, Zenon DEF OneSignalPerPulse, Poll
  <2>2. CASE EnterBody \/ Leave \/ Connect \/ StayOffline \/ PollRaises
    <3>1. UNCHANGED <<done, seen, fresh>>
      BY <2>2 DEF EnterBody, Leave, Connect, StayOffline, PollRaises, plcVars
    <3> QED
      BY <3>1, Zenon DEF OneSignalPerPulse
  <2> QED
    BY <2>1, <2>2, Zenon
<1>3. SocketIsClosed'
  BY DEF SocketIsClosed, EnterBody, Leave, Connect, StayOffline, Poll, PollRaises
<1> QED
  BY <1>1, <1>2, <1>3

\* stop(), the network and the step-done coil.
LEMMA SurroundingsIInv ==
  ASSUME IInv, Stop \/ LinkChanges \/ DoneRises \/ DoneFalls
  PROVE  IInv'
<1> USE DEF IInv
<1>1. TypeOK'
  BY DEF TypeOK, Stop, LinkChanges, DoneRises, DoneFalls, threadVars, plcVars
<1>2. OneSignalPerPulse'
  BY Zenon DEF OneSignalPerPulse, Stop, LinkChanges, DoneRises, DoneFalls, threadVars, plcVars
<1>3. SocketIsClosed'
  BY DEF SocketIsClosed, Stop, LinkChanges, DoneRises, DoneFalls, threadVars
<1> QED
  BY <1>1, <1>2, <1>3

\* The invariant holds in every reachable state.
LEMMA Invariance == Spec => []IInv
<1>1. Init => IInv
  BY DEF Init, IInv, TypeOK, OneSignalPerPulse, SocketIsClosed
<1>2. IInv /\ [Next]_vars => IInv'
  <2> SUFFICES ASSUME IInv, [Next]_vars PROVE IInv'
    OBVIOUS
  <2>1. CASE Worker
    BY <2>1, WorkerIInv
  <2>2. CASE Stop \/ LinkChanges \/ DoneRises \/ DoneFalls
    BY <2>2, SurroundingsIInv
  <2>3. CASE UNCHANGED vars
    BY <2>3 DEF vars, threadVars, IInv, TypeOK, OneSignalPerPulse, SocketIsClosed
  <2> QED
    BY <2>1, <2>2, <2>3 DEF Next
<1> QED
  BY <1>1, <1>2, PTL DEF Spec

-----------------------------------------------------------------------------

\* The thread is in a place of its loop and its flags are Booleans (run).
THEOREM TypeCorrect == Spec => []TypeOK
<1>1. IInv => TypeOK
  BY DEF IInv
<1> QED
  BY <1>1, Invariance, PTL

\* A rise of M34 is signaled at most once, through every loss of the
\* connection (the step-done edge of run).
THEOREM SignalsOnce == Spec => []OneSignalPerPulse
<1>1. IInv => OneSignalPerPulse
  BY DEF IInv
<1> QED
  BY <1>1, Invariance, PTL

\* The thread leaves a closed socket behind, however stop() comes into a pass
\* (stop and the end of run).
THEOREM EndsClosed == Spec => []SocketIsClosed
<1>1. IInv => SocketIsClosed
  BY DEF IInv
<1> QED
  BY <1>1, Invariance, PTL

-----------------------------------------------------------------------------

\* The steps a stopped thread has left: to the first poll of the connection it
\* may still open, to the top of the loop, to its end.
StepsLeft ==
  IF at = "ended" THEN 0
  ELSE IF at = "top" THEN 1
  ELSE IF connected THEN 2 ELSE 3

\* stop() is final, each step of the thread is one less, and nothing else gives
\* it another.
Winds == ~alive => ~alive' /\ StepsLeft' <= StepsLeft /\ (Worker => StepsLeft' < StepsLeft)

\* The safety half of ThreadEnds: after stop(), wherever it found the thread
\* and whatever the network does, the thread takes at most three more steps
\* (run tests _running at the top of every pass).
THEOREM StopEndsPass == Spec => [][Winds]_vars
<1>1. IInv /\ [Next]_vars => [Winds]_vars
  <2> SUFFICES ASSUME IInv, Next, ~alive
               PROVE  ~alive' /\ StepsLeft' <= StepsLeft /\ (Worker => StepsLeft' < StepsLeft)
    BY DEF Winds
  <2>1. Worker => ~alive' /\ StepsLeft' < StepsLeft
    BY DEF StepsLeft, Worker, EnterBody, Leave, Connect, StayOffline, Poll, PollRaises
  <2>2. ~Worker => UNCHANGED <<alive, at, connected>>
    BY DEF Next, Stop, LinkChanges, DoneRises, DoneFalls, threadVars
  <2>3. StepsLeft \in 0..3 /\ StepsLeft' \in 0..3
    BY DEF StepsLeft
  <2> QED
    BY <2>1, <2>2, <2>3 DEF StepsLeft
<1> QED
  BY <1>1, Invariance, PTL DEF Spec

\* Is stepDoneSignaled emitted by this step?
Signals == Poll /\ done /\ ~seen

\* A signal takes up a rise of M34, and only a rise of M34 brings another.
TakesUpRise ==
  /\ Signals => fresh /\ ~fresh'
  /\ ~fresh /\ fresh' => ~done /\ done'

\* Between two step-done signals the coil has risen, whatever connections were
\* lost and found in between: the controller is not told twice that the same
\* step is done (the edge test of run).
THEOREM SignalsAlternate == Spec => [][TakesUpRise]_vars
<1>1. IInv /\ [Next]_vars => [TakesUpRise]_vars
  <2> SUFFICES ASSUME IInv, Next
               PROVE  TakesUpRise
    OBVIOUS
  <2>1. Signals => fresh /\ ~fresh'
    BY Zenon DEF IInv, OneSignalPerPulse, Signals, Poll
  <2>2. CASE DoneRises
    BY <2>1, <2>2, Zenon DEF TakesUpRise, DoneRises
  <2>3. CASE ~DoneRises
    <3>1. fresh' => fresh
      BY <2>3, Zenon DEF Next, Worker, EnterBody, Leave, Connect, StayOffline, Poll, PollRaises,
                         Stop, LinkChanges, DoneFalls, threadVars
    <3> QED
      BY <2>1, <3>1, Zenon DEF TakesUpRise
  <2> QED
    BY <2>2, <2>3
<1> QED
  BY <1>1, Invariance, PTL DEF Spec
=============================================================================
