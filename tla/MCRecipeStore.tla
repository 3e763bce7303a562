--------------------------- MODULE MCRecipeStore ---------------------------
(***************************************************************************)
(* Two clients, one recipe that may reach version 3, two bodies, one run:  *)
(* enough for two updates of one recipe to overlap, for a third one in     *)
(* between, and for any write between the halves of a batch start.  The    *)
(* recipe is in the catalogue, and is seeded whenever it is missing.       *)
(***************************************************************************)
EXTENDS RecipeStore, TLC

CONSTANTS c1, c2, r1, b1, b2, run1

MCClient == {c1, c2}
MCRecipe == {r1}
MCBody == {b1, b2}
MCRun == {run1}
MCCatalogue == {r1}

Symmetry == Permutations({c1, c2}) \cup Permutations({b1, b2})
=============================================================================
