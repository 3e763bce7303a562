-------------------------- MODULE AuditTrailProofs --------------------------
(***************************************************************************)
(* The audit trail for any stores, payloads and table size.                *)
(*                                                                         *)
(* The argument rests on two facts about the table and one about the calls *)
(* in flight.  A row's hash is always computed from the previous hash      *)
(* stored in the same row (RowsSelfConsistent), so a row can only fail     *)
(* verification by naming a previous hash that is not its predecessor's.   *)
(* When no two calls overlapped there is at most one call in flight and it *)
(* holds the hash of the last row (SerialCall), so the row it inserts      *)
(* continues the chain.                                                    *)
(*                                                                         *)
(* From the collision-free hash follows what a verdict means: a hash that  *)
(* is verified tells the whole history before it, and a chain fails to     *)
(* verify exactly when two rows name the same previous hash.               *)
(***************************************************************************)
EXTENDS AuditTrail, TLAPS

RowsSelfConsistent ==
  \A i \in 1..Len(rows) : rows[i].hash = RecordHash(rows[i].previous, rows[i].event)

SerialCall ==
  ~overlapped => \A c \in calls : c.previous = LastHash /\ calls = {c}

\* Every call in flight holds the genesis value or the hash of a stored row.
CallsExtendRows ==
  \A c \in calls : \/ c.previous = Genesis
                   \/ \E j \in 1..Len(rows) : c.previous = rows[j].hash

IInv ==
  /\ TypeOK
  /\ RowsSelfConsistent
  /\ SerialCall
  /\ CallsExtendRows
  /\ SerialAppendsVerify
  /\ RowsExtendEarlierRows

-----------------------------------------------------------------------------

\* The SELECT of append() yields a value of the type of a hash.
LEMMA LastHashType ==
  ASSUME TypeOK
  PROVE  LastHash \in Hash
<1>1. CASE rows = << >>
  BY <1>1 DEF LastHash, Genesis, Hash
<1>2. CASE rows # << >>
  <2>1. Len(rows) \in 1..Len(rows)
    BY <1>2 DEF TypeOK
  <2>2. rows[Len(rows)] \in Row
    BY <2>1 DEF TypeOK
  <2> QED
    BY <1>2, <2>2 DEF LastHash, Row
<1> QED
  BY <1>1, <1>2

\* An insert appends exactly one row and leaves the others where they are.
LEMMA InsertAppends ==
  ASSUME TypeOK, NEW c \in calls, Insert(c)
  PROVE  /\ c \in Call
         /\ rows' \in Seq(Row)
         /\ Len(rows') = Len(rows) + 1
         /\ \A i \in 1..Len(rows) : rows'[i] = rows[i]
         /\ rows'[Len(rows) + 1].previous = c.previous
         /\ rows'[Len(rows) + 1].event = c.event
         /\ rows'[Len(rows) + 1].hash = RecordHash(c.previous, c.event)
<1> DEFINE r == [event |-> c.event, previous |-> c.previous,
                 hash |-> RecordHash(c.previous, c.event)]
<1>1. c \in Call
  BY DEF TypeOK
<1>2. r \in Row
  BY <1>1 DEF Call, Row, Hash, RecordHash
<1>3. rows' = Append(rows, r)
  BY DEF Insert, Stored
<1> HIDE DEF r
<1>4. /\ rows' \in Seq(Row)
      /\ Len(rows') = Len(rows) + 1
      /\ \A i \in 1..Len(rows) : rows'[i] = rows[i]
      /\ rows'[Len(rows) + 1] = r
  BY <1>2, <1>3 DEF TypeOK
<1> QED
  BY <1>1, <1>4 DEF r

\* Rows already stored verify, or fail to, exactly as before the insert.
LEMMA InsertKeepsVerdicts ==
  ASSUME TypeOK, NEW c \in calls, Insert(c), NEW i \in 1..Len(rows)
  PROVE  /\ rows'[i] = rows[i]
         /\ ExpectedPrevious(rows', i) = ExpectedPrevious(rows, i)
         /\ RowVerifies(rows', i) <=> RowVerifies(rows, i)
<1>1. rows'[i] = rows[i]
  BY InsertAppends
<1>2. ExpectedPrevious(rows', i) = ExpectedPrevious(rows, i)
  <2>1. CASE i = 1
    BY <2>1 DEF ExpectedPrevious
  <2>2. CASE i # 1
    <3>1. i - 1 \in 1..Len(rows)
      BY <2>2 DEF TypeOK
    <3>2. rows'[i - 1] = rows[i - 1]
      BY <3>1, InsertAppends
    <3> QED
      BY <2>2, <3>2 DEF ExpectedPrevious
  <2> QED
    BY <2>1, <2>2
<1> QED
  BY <1>1, <1>2 DEF RowVerifies

-----------------------------------------------------------------------------

\* The invariant holds initially.
LEMMA InitIInv == Init => IInv
<1> SUFFICES ASSUME Init
             PROVE  IInv
  OBVIOUS
<1>1. /\ rows = << >>
      /\ calls = {}
      /\ overlapped = FALSE
      /\ 1..Len(rows) = {}
  BY DEF Init
<1>2. TypeOK
  <2>1. << >> \in Seq(Row)
    OBVIOUS
  <2> QED
    BY <2>1 DEF Init, TypeOK
<1>3. RowsSelfConsistent /\ SerialAppendsVerify /\ RowsExtendEarlierRows
  BY <1>1 DEF RowsSelfConsistent, SerialAppendsVerify, RowsExtendEarlierRows,
              ChainVerifies, VerifiedUpTo
<1>4. SerialCall /\ CallsExtendRows
  BY <1>1 DEF SerialCall, CallsExtendRows
<1> QED
  BY <1>2, <1>3, <1>4 DEF IInv

\* Reading the last hash preserves the invariant.
LEMMA ReadLastHashIInv ==
  ASSUME IInv, NEW s \in Store, NEW e \in Event, ReadLastHash(s, e)
  PROVE  IInv'
<1> DEFINE c == [store |-> s, event |-> e, previous |-> LastHash]
<1>1. /\ rows' = rows
      /\ calls' = calls \cup {c}
      /\ overlapped' = (overlapped \/ calls # {})
  BY DEF ReadLastHash
<1>2. LastHash \in Hash
  BY LastHashType DEF IInv
<1>3. TypeOK'
  BY <1>1, <1>2 DEF IInv, TypeOK, Call
<1>4. RowsSelfConsistent'
  BY <1>1 DEF IInv, RowsSelfConsistent
<1>5. SerialCall'
  <2> SUFFICES ASSUME ~overlapped', NEW d \in calls'
               PROVE  d.previous = LastHash' /\ calls' = {d}
    BY DEF SerialCall
  <2>1. calls = {} /\ d = c
    BY <1>1 DEF IInv, TypeOK
  <2>2. LastHash' = LastHash
    BY <1>1 DEF LastHash
  <2> QED
    BY <1>1, <2>1, <2>2
<1>6. CallsExtendRows'
  <2>1. \/ LastHash = Genesis
        \/ \E j \in 1..Len(rows) : LastHash = rows[j].hash
    <3>1. CASE rows = << >>
      BY <3>1 DEF LastHash
    <3>2. CASE rows # << >>
      <4>1. Len(rows) \in 1..Len(rows)
        BY <3>2 DEF IInv, TypeOK
      <4> QED
        BY <3>2, <4>1 DEF LastHash
    <3> QED
      BY <3>1, <3>2
  <2> QED
    BY <1>1, <2>1 DEF IInv, CallsExtendRows
<1>7. SerialAppendsVerify'
  BY <1>1 DEF IInv, SerialAppendsVerify
<1>8. RowsExtendEarlierRows'
  BY <1>1 DEF IInv, RowsExtendEarlierRows
<1> QED
  BY <1>3, <1>4, <1>5, <1>6, <1>7, <1>8 DEF IInv

\* Inserting a row preserves the invariant.
LEMMA InsertIInv ==
  ASSUME IInv, NEW c \in calls, Insert(c)
  PROVE  IInv'
<1> DEFINE n == Len(rows) + 1
<1>1. /\ calls' = calls \ {c}
      /\ overlapped' = overlapped
  BY DEF Insert
<1>2. TypeOK
  BY DEF IInv
<1>3. /\ rows' \in Seq(Row)
      /\ Len(rows') = n
      /\ \A i \in 1..Len(rows) : rows'[i] = rows[i]
      /\ rows'[n].previous = c.previous
      /\ rows'[n].event = c.event
      /\ rows'[n].hash = RecordHash(c.previous, c.event)
  BY <1>2, InsertAppends
<1>4. Len(rows) \in Nat
  BY <1>2 DEF TypeOK
<1>5. \A i \in 1..n : i \in 1..Len(rows) \/ i = n
  BY <1>4
<1>6. TypeOK'
  BY <1>1, <1>2, <1>3 DEF TypeOK
<1>7. RowsSelfConsistent'
  BY <1>3, <1>5 DEF IInv, RowsSelfConsistent
<1>8. SerialCall'
  BY <1>1 DEF IInv, SerialCall
<1>9. CallsExtendRows'
  <2> SUFFICES ASSUME NEW d \in calls', d.previous # Genesis
               PROVE  \E j \in 1..n : d.previous = rows'[j].hash
    BY <1>3 DEF CallsExtendRows
  <2>1. PICK j \in 1..Len(rows) : d.previous = rows[j].hash
    BY <1>1 DEF IInv, CallsExtendRows
  <2> QED
    BY <1>3, <1>4, <2>1
<1>10. SerialAppendsVerify'
  <2> SUFFICES ASSUME ~overlapped
               PROVE  ChainVerifies(rows')
    BY <1>1 DEF SerialAppendsVerify
  <2>1. \A i \in 1..Len(rows) : RowVerifies(rows', i)
    BY <1>2, InsertKeepsVerdicts
       DEF IInv, SerialAppendsVerify, ChainVerifies, VerifiedUpTo
  <2>2. c.previous = LastHash
    BY DEF IInv, SerialCall
  <2>3. ExpectedPrevious(rows', n) = LastHash
    <3>1. CASE rows = << >>
      BY <3>1 DEF ExpectedPrevious, LastHash
    <3>2. CASE rows # << >>
      <4>1. Len(rows) \in 1..Len(rows)
        BY <1>2, <3>2 DEF TypeOK
      <4>2. n # 1 /\ n - 1 = Len(rows)
        BY <4>1
      <4> QED
        BY <1>3, <3>2, <4>1, <4>2 DEF ExpectedPrevious, LastHash
    <3> QED
      BY <3>1, <3>2
  <2>4. RowVerifies(rows', n)
    BY <1>3, <2>2, <2>3 DEF RowVerifies
  <2> QED
    BY <1>3, <1>5, <2>1, <2>4 DEF ChainVerifies, VerifiedUpTo
<1>11. RowsExtendEarlierRows'
  <2> SUFFICES ASSUME NEW i \in 1..n, rows'[i].previous # Genesis
               PROVE  \E j \in 1..(i - 1) : rows'[i].previous = rows'[j].hash
    BY <1>3 DEF RowsExtendEarlierRows
  <2>1. CASE i \in 1..Len(rows)
    <3>1. PICK j \in 1..(i - 1) : rows[i].previous = rows[j].hash
      BY <1>3, <2>1 DEF IInv, RowsExtendEarlierRows
    <3> QED
      BY <1>3, <1>4, <2>1, <3>1
  <2>2. CASE i = n
    <3>1. PICK j \in 1..Len(rows) : c.previous = rows[j].hash
      BY <1>3, <2>2 DEF IInv, CallsExtendRows
    <3> QED
      BY <1>3, <1>4, <2>2, <3>1
  <2> QED
    BY <1>5, <2>1, <2>2
<1> QED
  BY <1>6, <1>7, <1>8, <1>9, <1>10, <1>11 DEF IInv

\* A rolled-back append preserves the invariant.
LEMMA RollbackIInv ==
  ASSUME IInv, NEW c \in calls, Rollback(c)
  PROVE  IInv'
  BY DEF IInv, Rollback, TypeOK, RowsSelfConsistent, SerialCall, CallsExtendRows,
         SerialAppendsVerify, RowsExtendEarlierRows, LastHash

\* So does every step.
LEMMA NextIInv == IInv /\ [Next]_vars => IInv'
<1> SUFFICES ASSUME IInv, [Next]_vars
             PROVE  IInv'
  OBVIOUS
<1>1. CASE \E s \in Store, e \in Event : ReadLastHash(s, e)
  BY <1>1, ReadLastHashIInv
<1>2. CASE \E c \in calls : Insert(c)
  BY <1>2, InsertIInv
<1>3. CASE \E c \in calls : Rollback(c)
  BY <1>3, RollbackIInv
<1>4. CASE UNCHANGED vars
  BY <1>4 DEF vars, IInv, TypeOK, RowsSelfConsistent, SerialCall, CallsExtendRows,
              SerialAppendsVerify, RowsExtendEarlierRows, LastHash
<1> QED
  BY <1>1, <1>2, <1>3, <1>4 DEF Next

\* The inductive invariant of the audit trail.
THEOREM Invariance == Spec => []IInv
  BY InitIInv, NextIInv, PTL DEF Spec

-----------------------------------------------------------------------------

\* The table, the calls in flight and the history keep their types.
THEOREM TypeCorrect == Spec => []TypeOK
<1>1. IInv => TypeOK
  BY DEF IInv
<1> QED
  BY <1>1, Invariance, PTL

\* The chain verifies as long as no two append() calls were in flight at once,
\* whichever of them failed or died half way.
THEOREM SerialAppendsVerifyAlways == Spec => []SerialAppendsVerify
<1>1. IInv => SerialAppendsVerify
  BY DEF IInv
<1> QED
  BY <1>1, Invariance, PTL

\* No race of append() calls makes verify_chain() report a tampered record.
THEOREM NoFalseTamper == Spec => []NoFalseTamperReport
<1>1. IInv => NoFalseTamperReport
  BY DEF IInv, NoFalseTamperReport, TamperedAt, RowsSelfConsistent
<1> QED
  BY <1>1, Invariance, PTL

\* Even racing rows form a tree rooted at the genesis value.
THEOREM HashTree == Spec => []RowsExtendEarlierRows
<1>1. IInv => RowsExtendEarlierRows
  BY DEF IInv
<1> QED
  BY <1>1, Invariance, PTL

\* A verdict of verify_chain() on a row is never changed by a later append().
THEOREM VerdictFinal == Spec => VerdictIsFinal
<1> DEFINE Final ==
      /\ Len(rows') >= Len(rows)
      /\ \A i \in 1..Len(rows) :
           /\ BrokenAt(rows, i) => BrokenAt(rows', i)
           /\ VerifiedUpTo(rows, i) => VerifiedUpTo(rows', i)
<1>1. TypeOK /\ [Next]_vars => [Final]_vars
  <2> SUFFICES ASSUME TypeOK, Next
               PROVE  Final
    OBVIOUS
  <2>1. CASE \E c \in calls : Insert(c)
    <3>1. PICK c \in calls : Insert(c)
      BY <2>1
    <3>2. Len(rows') >= Len(rows)
      BY <3>1, InsertAppends DEF TypeOK
    <3>3. ASSUME NEW i \in 1..Len(rows)
          PROVE  VerifiedUpTo(rows, i) <=> VerifiedUpTo(rows', i)
      BY <3>1, InsertKeepsVerdicts DEF VerifiedUpTo, TypeOK
    <3>4. ASSUME NEW i \in 1..Len(rows)
          PROVE  BrokenAt(rows, i) => BrokenAt(rows', i)
      BY <3>1, InsertKeepsVerdicts DEF BrokenAt, VerifiedUpTo, TypeOK
    <3> QED
      BY <3>2, <3>3, <3>4
  <2>2. CASE UNCHANGED rows
    BY <2>2 DEF TypeOK
  <2> QED
    BY <2>1, <2>2 DEF Next, ReadLastHash, Rollback
<1> QED
  BY <1>1, TypeCorrect, PTL DEF Spec, VerdictIsFinal
-----------------------------------------------------------------------------
\* What the verdict of verify_chain() means.

\* record_hash is UNIQUE and commits to at least the row's own payload.
HashesDistinct ==
  \A i, j \in 1..Len(rows) : rows[i].hash = rows[j].hash => i = j

HashesCommit == \A i \in 1..Len(rows) : rows[i].hash # Genesis

\* verify_chain() finds that the chain verifies or names the first row that
\* does not continue it (verify_chain): one verdict, and never the third.
OneVerdict ==
  \/ ChainVerifies(rows)
  \/ \E i \in 1..Len(rows) : BrokenAt(rows, i)

\* The hash of a row up to which the table verifies is that of all payloads
\* up to it, in their order: to change one of them is to change every hash
\* after it (append, verify_chain).
VerifiedHashTellsHistory ==
  \A n \in 1..Len(rows) :
    VerifiedUpTo(rows, n) => rows[n].hash = [i \in 1..n |-> rows[i].event]

VInv == HashesDistinct /\ HashesCommit /\ OneVerdict /\ VerifiedHashTellsHistory

\* An insert keeps what the verdict means.
LEMMA InsertVInv ==
  ASSUME IInv, VInv, NEW c \in calls, Insert(c)
  PROVE  VInv'
<1> DEFINE n == Len(rows) + 1
<1>1. TypeOK /\ Len(rows) \in Nat
  BY DEF IInv, TypeOK
<1>2. /\ c \in Call
      /\ Len(rows') = n
      /\ \A i \in 1..Len(rows) : rows'[i] = rows[i]
      /\ rows'[n].previous = c.previous
      /\ rows'[n].event = c.event
      /\ rows'[n].hash = RecordHash(c.previous, c.event)
  BY <1>1, InsertAppends
<1>3. \A i \in 1..n : i \in 1..Len(rows) \/ i = n
  BY <1>1
<1>4. HashesDistinct'
  <2>1. \A i \in 1..Len(rows) : rows[i].hash # RecordHash(c.previous, c.event)
    BY DEF Insert
  <2> QED
    BY <1>2, <1>3, <2>1 DEF VInv, HashesDistinct
<1>5. HashesCommit'
  <2>1. RecordHash(c.previous, c.event) # Genesis
    <3>1. c.previous \in Seq(Event) /\ c.event \in Event
      BY <1>2 DEF Call, Hash
    <3>2. Len(Append(c.previous, c.event)) = Len(c.previous) + 1 /\ Len(c.previous) \in Nat
      BY <3>1
    <3>3. Len(<< >>) = 0
      OBVIOUS
    <3> QED
      BY <3>2, <3>3 DEF RecordHash, Genesis
  <2> QED
    BY <1>2, <1>3, <2>1 DEF VInv, HashesCommit
<1>6. \A i \in 1..Len(rows) :
        /\ VerifiedUpTo(rows', i) <=> VerifiedUpTo(rows, i)
        /\ BrokenAt(rows, i) => BrokenAt(rows', i)
  BY <1>1, InsertKeepsVerdicts DEF VerifiedUpTo, BrokenAt
<1>7. n \in 1..n /\ n - 1 = Len(rows)
  BY <1>1
<1>8. OneVerdict'
  <2>1. CASE \E i \in 1..Len(rows) : BrokenAt(rows, i)
    BY <1>1, <1>2, <1>6, <2>1 DEF OneVerdict
  <2>2. CASE ChainVerifies(rows)
    <3>1. VerifiedUpTo(rows', n - 1)
      BY <1>1, <1>7, <2>2, InsertKeepsVerdicts DEF VerifiedUpTo, ChainVerifies
    <3>2. CASE c.previous = ExpectedPrevious(rows', n)
      <4>1. RowVerifies(rows', n)
        BY <1>2, <3>2 DEF RowVerifies
      <4> QED
        BY <1>2, <1>3, <1>7, <3>1, <4>1 DEF OneVerdict, ChainVerifies, VerifiedUpTo
    <3>3. CASE c.previous # ExpectedPrevious(rows', n)
      BY <1>2, <1>7, <3>1, <3>3 DEF OneVerdict, BrokenAt
    <3> QED
      BY <3>2, <3>3
  <2> QED
    BY <2>1, <2>2 DEF VInv, OneVerdict
<1>9. VerifiedHashTellsHistory'
  <2> SUFFICES ASSUME NEW m \in 1..n, VerifiedUpTo(rows', m)
               PROVE  rows'[m].hash = [i \in 1..m |-> rows'[i].event]
    BY <1>2 DEF VerifiedHashTellsHistory
  <2>1. CASE m \in 1..Len(rows)
    <3>1. rows[m].hash = [i \in 1..m |-> rows[i].event]
      BY <1>6, <2>1 DEF VInv, VerifiedHashTellsHistory
    <3>2. \A i \in 1..m : rows'[i] = rows[i]
      BY <1>1, <1>2, <2>1
    <3> QED
      BY <1>2, <2>1, <3>1, <3>2
  <2>2. CASE m = n
    <3> DEFINE before == [i \in 1..Len(rows) |-> rows[i].event]
    <3>1. rows'[n].hash = Append(ExpectedPrevious(rows', n), c.event)
      BY <1>2, <1>7, <2>2 DEF VerifiedUpTo, RowVerifies, RecordHash
    <3>2. ExpectedPrevious(rows', n) = before
      <4>1. CASE rows = << >>
        BY <4>1 DEF ExpectedPrevious, Genesis
      <4>2. CASE rows # << >>
        <5>1. Len(rows) \in 1..Len(rows) /\ n # 1
          BY <1>1, <4>2 DEF TypeOK
        <5>2. VerifiedUpTo(rows, Len(rows))
          BY <1>6, <1>7, <2>2, <5>1 DEF VerifiedUpTo
        <5> QED
          BY <1>2, <1>7, <5>1, <5>2 DEF ExpectedPrevious, VInv, VerifiedHashTellsHistory
      <4> QED
        BY <4>1, <4>2
    <3>3. before \in Seq(Event) /\ Len(before) = Len(rows)
      <4>1. \A i \in 1..Len(rows) : rows[i] \in Row
        BY <1>1 DEF TypeOK
      <4>2. \A i \in 1..Len(rows) : rows[i].event \in Event
        BY <4>1 DEF Row
      <4> QED
        BY <1>1, <4>2
    <3>4. \A i \in 1..Len(rows) : rows'[i].event = before[i]
      BY <1>2
    <3> HIDE DEF before
    <3>5. Append(before, c.event) = [i \in 1..n |-> rows'[i].event]
      <4>1. c.event \in Event
        BY <1>2 DEF Call
      <4>2. /\ Append(before, c.event) \in Seq(Event) /\ Len(Append(before, c.event)) = n
            /\ \A i \in 1..n : Append(before, c.event)[i] = IF i = n THEN c.event ELSE before[i]
        BY <1>1, <3>3, <4>1
      <4>3. \A i \in 1..n : Append(before, c.event)[i] = rows'[i].event
        BY <1>2, <1>3, <3>4, <4>2
      <4> QED
        BY <4>2, <4>3
    <3> QED
      BY <2>2, <3>1, <3>2, <3>5
  <2> QED
    BY <1>3, <2>1, <2>2
<1> QED
  BY <1>4, <1>5, <1>8, <1>9 DEF VInv

\* What the verdict means holds in every reachable state.
LEMMA Verdict == Spec => [](IInv /\ VInv)
<1>1. Init => VInv
  BY DEF Init, VInv, HashesDistinct, HashesCommit, OneVerdict, VerifiedHashTellsHistory, ChainVerifies, VerifiedUpTo
<1>2. IInv /\ VInv /\ [Next]_vars => VInv'
  <2> SUFFICES ASSUME IInv, VInv, [Next]_vars
               PROVE  VInv'
    OBVIOUS
  <2>1. CASE \E c \in calls : Insert(c)
    BY <2>1, InsertVInv
  <2>2. CASE UNCHANGED rows
    BY <2>2 DEF VInv, HashesDistinct, HashesCommit, OneVerdict, VerifiedHashTellsHistory
  <2> QED
    BY <2>1, <2>2 DEF Next, ReadLastHash, Rollback, vars
<1> QED
  BY <1>1, <1>2, Invariance, PTL DEF Spec

\* verify_chain() has exactly one verdict, and it is never "tampered" about a
\* table that only append() has written.
THEOREM OneVerdictAlways == Spec => []OneVerdict
<1>1. VInv => OneVerdict
  BY DEF VInv
<1> QED
  BY <1>1, Verdict, PTL

\* The hash of the last verified row commits to all payloads in their order.
THEOREM VerifiedHashCommits == Spec => []VerifiedHashTellsHistory
<1>1. VInv => VerifiedHashTellsHistory
  BY DEF VInv
<1> QED
  BY <1>1, Verdict, PTL

\* The chain verifies if and only if no two rows claim the same previous row:
\* verify_chain() reports every fork that a race of stores leaves behind and
\* nothing else (verify_chain, append).
VerifiesUnlessForked ==
  ChainVerifies(rows) <=>
    \A i, j \in 1..Len(rows) : rows[i].previous = rows[j].previous => i = j

\* verify_chain() finds every fork, and breaks on nothing but a fork.
THEOREM ForksAreFound == Spec => []VerifiesUnlessForked
<1>1. ASSUME IInv, VInv PROVE VerifiesUnlessForked
  <2> USE <1>1
  <2>1. TypeOK /\ Len(rows) \in Nat
    BY DEF IInv, TypeOK
  <2>2. ASSUME ChainVerifies(rows), NEW i \in 1..Len(rows), NEW j \in 1..Len(rows),
               rows[i].previous = rows[j].previous
        PROVE  i = j
    <3>1. ExpectedPrevious(rows, i) = ExpectedPrevious(rows, j)
      BY <2>2 DEF ChainVerifies, VerifiedUpTo, RowVerifies
    <3>2. i # 1 => i - 1 \in 1..Len(rows)
      BY <2>1
    <3>3. j # 1 => j - 1 \in 1..Len(rows)
      BY <2>1
    <3>4. CASE i # 1 /\ j # 1
      <4>1. rows[i - 1].hash = rows[j - 1].hash
        BY <3>1, <3>4 DEF ExpectedPrevious
      <4>2. i - 1 = j - 1
        BY <3>2, <3>3, <3>4, <4>1 DEF VInv, HashesDistinct
      <4> QED
        BY <2>1, <4>2
    <3>5. CASE i = 1 /\ j # 1
      BY <3>1, <3>3, <3>5 DEF ExpectedPrevious, VInv, HashesCommit
    <3>6. CASE i # 1 /\ j = 1
      BY <3>1, <3>2, <3>6 DEF ExpectedPrevious, VInv, HashesCommit
    <3> QED
      BY <3>4, <3>5, <3>6
  <2>3. ASSUME NEW i \in 1..Len(rows), BrokenAt(rows, i)
        PROVE  \E j \in 1..Len(rows) : rows[i].previous = rows[j].previous /\ i # j
    <3>1. CASE rows[i].previous = Genesis
      <4>1. i # 1
        BY <2>3, <3>1 DEF BrokenAt, ExpectedPrevious
      <4>2. 1 \in 1..Len(rows) /\ RowVerifies(rows, 1)
        BY <2>1, <2>3, <4>1 DEF BrokenAt, VerifiedUpTo
      <4> QED
        BY <3>1, <4>1, <4>2 DEF RowVerifies, ExpectedPrevious
    <3>2. CASE rows[i].previous # Genesis
      <4>1. PICK j \in 1..(i - 1) : rows[i].previous = rows[j].hash
        BY <3>2 DEF IInv, RowsExtendEarlierRows
      <4>2. j # i - 1
        BY <2>1, <2>3, <4>1 DEF BrokenAt, ExpectedPrevious
      <4>3. j + 1 \in 1..(i - 1) /\ j + 1 \in 1..Len(rows) /\ j + 1 # i /\ j + 1 # 1 /\ (j + 1) - 1 = j
        BY <2>1, <4>1, <4>2
      <4>4. RowVerifies(rows, j + 1)
        BY <2>3, <4>3 DEF BrokenAt, VerifiedUpTo
      <4>5. rows[j + 1].previous = rows[j].hash
        BY <4>3, <4>4 DEF RowVerifies, ExpectedPrevious
      <4> QED
        BY <4>1, <4>3, <4>5
    <3> QED
      BY <3>1, <3>2
  <2> QED
    BY <2>2, <2>3 DEF VInv, OneVerdict, VerifiesUnlessForked
<1> QED
  BY <1>1, Verdict, PTL

-----------------------------------------------------------------------------
\* The precondition under which the module docstring is true.

\* One AuditStore is open on the file.
OneStore == \A s, t \in Store : s = t

\* With one store on the file every record is chained to the one before it,
\* whatever appends fail or die half way (module docstring of audit.py): the
\* fork of a second store is the only way to lose the chain.
THEOREM OneStoreIsChained ==
  ASSUME OneStore
  PROVE  Spec => []EveryRecordIsChained
<1>1. Init => ~overlapped
  BY DEF Init
<1>2. TypeOK /\ ~overlapped /\ [Next]_vars => ~overlapped'
  <2> SUFFICES ASSUME TypeOK, ~overlapped, [Next]_vars
               PROVE  ~overlapped'
    OBVIOUS
  <2>1. ASSUME NEW s \in Store, NEW e \in Event, ReadLastHash(s, e)
        PROVE  ~overlapped'
    <3>1. calls = {}
      BY <2>1, OneStore DEF OneStore, ReadLastHash, TypeOK, Call
    <3> QED
      BY <2>1, <3>1 DEF ReadLastHash
  <2>2. CASE UNCHANGED overlapped
    BY <2>2
  <2> QED
    BY <2>1, <2>2 DEF Next, Insert, Rollback, vars
<1>3. SerialAppendsVerify /\ ~overlapped => EveryRecordIsChained
  BY DEF SerialAppendsVerify, EveryRecordIsChained
<1> QED
  BY <1>1, <1>2, <1>3, TypeCorrect, SerialAppendsVerifyAlways, PTL DEF Spec

\* No append() changes or removes a row that is stored, whatever it races with
\* and however it fails (append; nothing in audit.py updates or deletes).
RowsAreKept ==
  [][/\ Len(rows') >= Len(rows)
     /\ \A i \in 1..Len(rows) : rows'[i] = rows[i]]_vars

\* The table is append-only, for any stores and any failures (append).
THEOREM RowsKept == Spec => RowsAreKept
<1>1. TypeOK /\ [Next]_vars
        => [/\ Len(rows') >= Len(rows)
            /\ \A i \in 1..Len(rows) : rows'[i] = rows[i]]_vars
  <2> SUFFICES ASSUME TypeOK, Next
               PROVE  /\ Len(rows') >= Len(rows)
                      /\ \A i \in 1..Len(rows) : rows'[i] = rows[i]
    OBVIOUS
  <2>1. CASE \E c \in calls : Insert(c)
    BY <2>1, InsertAppends DEF TypeOK
  <2>2. CASE UNCHANGED rows
    BY <2>2 DEF TypeOK
  <2> QED
    BY <2>1, <2>2 DEF Next, ReadLastHash, Rollback
<1> QED
  BY <1>1, TypeCorrect, PTL DEF Spec, RowsAreKept
=============================================================================
