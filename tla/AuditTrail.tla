----------------------------- MODULE AuditTrail -----------------------------
(***************************************************************************)
(* The tamper-evident audit trail of scada/audit.py: the audit_events      *)
(* table of one audit.db and the AuditStore objects that append to it.     *)
(*                                                                         *)
(* append() runs on a connection of its own.  Its SELECT of the last       *)
(* record_hash is executed outside a transaction (sqlite3 opens one only   *)
(* at the INSERT), so the hash is read in one step and the row is inserted *)
(* and committed in a later one; another AuditStore on the same file, a    *)
(* second SCADA process started with the same --runtime-dir, may insert in *)
(* between.  The two steps are the actions ReadLastHash and Insert.        *)
(*                                                                         *)
(* The HMAC is modelled as a collision-free function: the value of a       *)
(* record_hash is the sequence of events it commits to.                    *)
(***************************************************************************)
EXTENDS Naturals, Sequences

CONSTANTS
  Store,      \* the AuditStore objects opened on the file
  Event,      \* the payloads that can be appended, timestamp included
  MaxRecords  \* bound of the model: rows the table may hold

ASSUME MaxRecordsAssumption == MaxRecords \in Nat

VARIABLES
  rows,       \* the table, ordered by its AUTOINCREMENT key `sequence'
  calls,      \* append() calls between the SELECT and the end of the call
  overlapped  \* history: have two append() calls ever been in flight at once?

vars == <<rows, calls, overlapped>>

Hash == Seq(Event)

Genesis == << >>

\* Mutant (here and below, operators named ...Mut are variants with a
\* plausible bug; no specification uses them): the previous hash and the
\* payload are hashed as a pair.
RecordHashMut(previous, event) == <<previous, event>>

\* HMAC(chain_key, previous_hash || canonical_json(payload))
RecordHash(previous, event) == Append(previous, event)

Row  == [event : Event, previous : Hash, hash : Hash]
Call == [store : Store, event : Event, previous : Hash]

\* Mutant: the rows are read oldest first.
LastHashOldestMut == IF rows = << >> THEN Genesis ELSE rows[1].hash

\* What SELECT record_hash ... ORDER BY sequence DESC LIMIT 1 leads to.
LastHash == IF rows = << >> THEN Genesis ELSE rows[Len(rows)].hash

TypeOK ==
  /\ rows \in Seq(Row)
  /\ calls \subseteq Call
  /\ overlapped \in BOOLEAN

Init ==
  /\ rows = << >>
  /\ calls = {}
  /\ overlapped = FALSE

(***************************************************************************)
(* append()                                                                *)
(***************************************************************************)

\* The first half: the previous hash is read and the new one computed.  A
\* store runs one append at a time.
ReadLastHash(s, e) ==
  /\ \A c \in calls : c.store # s
  /\ calls' = calls \cup {[store |-> s, event |-> e, previous |-> LastHash]}
  /\ overlapped' = (overlapped \/ calls # {})
  /\ UNCHANGED rows

Stored(previous, c, new) ==
  Append(rows, [event |-> c.event, previous |-> previous, hash |-> new])

\* Mutants: the previous_hash that is stored is read again at the INSERT;
\* INSERT OR REPLACE, which drops the row with the same record_hash.
InsertRereadMut(c) ==
  /\ Len(rows) < MaxRecords
  /\ rows' = Stored(LastHash, c, RecordHash(c.previous, c.event))
  /\ calls' = calls \ {c}
  /\ UNCHANGED overlapped

InsertOrReplaceMut(c) ==
  LET new == RecordHash(c.previous, c.event)
      Kept(r) == r.hash # new
  IN
  /\ Len(rows) < MaxRecords
  /\ rows' = Append(SelectSeq(rows, Kept),
                    [event |-> c.event, previous |-> c.previous, hash |-> new])
  /\ calls' = calls \ {c}
  /\ UNCHANGED overlapped

\* The second half: the row is inserted and committed.  record_hash is UNIQUE.
Insert(c) ==
  LET new == RecordHash(c.previous, c.event) IN
  /\ Len(rows) < MaxRecords
  /\ \A i \in 1..Len(rows) : rows[i].hash # new
  /\ rows' = Stored(c.previous, c, new)
  /\ calls' = calls \ {c}
  /\ UNCHANGED overlapped

\* Mutant: the handler deletes the newest row instead of rolling back.
RollbackDeletesMut(c) ==
  /\ rows # << >>
  /\ rows' = SubSeq(rows, 1, Len(rows) - 1)
  /\ calls' = calls \ {c}
  /\ UNCHANGED overlapped

\* The INSERT or the commit raises (duplicate record_hash, "database is
\* locked", disk error) and the connection is rolled back, or the process dies.
Rollback(c) ==
  /\ calls' = calls \ {c}
  /\ UNCHANGED <<rows, overlapped>>

Next ==
  \/ \E s \in Store, e \in Event : ReadLastHash(s, e)
  \/ \E c \in calls : Insert(c)
  \/ \E c \in calls : Rollback(c)

Spec == Init /\ [][Next]_vars

(***************************************************************************)
(* verify_chain(): walk the rows in order and stop at the first that does  *)
(* not follow from the one before it.                                      *)
(***************************************************************************)

ExpectedPrevious(rs, i) == IF i = 1 THEN Genesis ELSE rs[i - 1].hash

RowVerifies(rs, i) ==
  /\ rs[i].previous = ExpectedPrevious(rs, i)
  /\ rs[i].hash = RecordHash(ExpectedPrevious(rs, i), rs[i].event)

VerifiedUpTo(rs, n) == \A i \in 1..n : RowVerifies(rs, i)

\* verify_chain() returns True.
ChainVerifies(rs) == VerifiedUpTo(rs, Len(rs))

\* verify_chain() returns "Broken chain at sequence i".
BrokenAt(rs, i) ==
  /\ VerifiedUpTo(rs, i - 1)
  /\ rs[i].previous # ExpectedPrevious(rs, i)

\* verify_chain() returns "Tampered record at sequence i".
TamperedAt(rs, i) ==
  /\ VerifiedUpTo(rs, i - 1)
  /\ rs[i].previous = ExpectedPrevious(rs, i)
  /\ rs[i].hash # RecordHash(ExpectedPrevious(rs, i), rs[i].event)

(***************************************************************************)
(* Properties                                                              *)
(***************************************************************************)

\* As long as no two append() calls were ever in flight together the chain
\* verifies, whatever calls failed or died half way: a rolled-back append
\* leaves nothing the next one could chain to (audit.py, append).
SerialAppendsVerify == ~overlapped => ChainVerifies(rows)

\* A race of two stores is reported as a broken chain and never as a tampered
\* record: the second message of verify_chain() accuses no honest writer.
NoFalseTamperReport == \A i \in 1..Len(rows) : ~TamperedAt(rows, i)

\* The table is a tree of hashes: a row extends the genesis value or the hash
\* of a row stored before it, even when its append() raced another one.
RowsExtendEarlierRows ==
  \A i \in 1..Len(rows) :
    \/ rows[i].previous = Genesis
    \/ \E j \in 1..(i - 1) : rows[i].previous = rows[j].hash

\* A verdict is final: once the chain is reported broken at a row no later
\* append() repairs it, moves the report to another row or removes a record.
VerdictIsFinal ==
  [][/\ Len(rows') >= Len(rows)
     /\ \A i \in 1..Len(rows) :
          /\ BrokenAt(rows, i) => BrokenAt(rows', i)
          /\ VerifiedUpTo(rows, i) => VerifiedUpTo(rows', i)]_vars

\* What the module docstring of audit.py promises of every record: "hashed
\* with HMAC SHA-256 and cryptographically chained to the previous record's
\* hash", for any stores that share the file.
EveryRecordIsChained == ChainVerifies(rows)
=============================================================================
