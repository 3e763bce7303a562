------------------------- MODULE MCScadaController -------------------------
(***************************************************************************)
(* The default user, a role that may operate and one that                  *)
(* may not, the seeded batch and two new ones, two of the three end        *)
(* statuses, and temperatures below and beyond the alarm limit.            *)
(***************************************************************************)
EXTENDS ScadaController, TLC

CONSTANTS u1, operator, quality, b0, b1, b2

MCUser == {u1}
MCRole == {operator, quality}
MCOperating == {operator}
MCBatch == {b0, b1, b2}
MCEndStatus == {"completed", "aborted"}

\* The new ids are interchangeable.
Symmetry == Permutations({b1, b2})
=============================================================================
