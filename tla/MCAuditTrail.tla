---------------------------- MODULE MCAuditTrail ----------------------------
(***************************************************************************)
(* AuditTrail with three stores on one file, two distinct payloads and a     *)
(* table of at most MaxRecords rows.                                       *)
(***************************************************************************)
EXTENDS AuditTrail, TLC

CONSTANTS s1, s2, s3, e1, e2

MCStore == {s1, s2, s3}
MCEvent == {e1, e2}

Symmetry == Permutations(MCStore) \cup Permutations(MCEvent)
=============================================================================
