------------------------- MODULE RecipeStoreProofs -------------------------
(***************************************************************************)
(* The recipe database for any clients, recipes, bodies, runs and bound on *)
(* versions.                                                               *)
(*                                                                         *)
(* What a client carries from its read to its commit may be stale, so the  *)
(* invariant says of a call only what no other client can take back: a run *)
(* about to be inserted executes what was once approved, and as long as a  *)
(* recipe is not disturbed an update in flight is one version ahead of it. *)
(* With a single client nothing comes between a read and its commit, and   *)
(* what the documents promise without reserve holds (OneClient).           *)
(***************************************************************************)
EXTENDS RecipeStore, TLAPS

\* The row that approval of a recipe releases.
Content(r, row) == [recipe |-> r, version |-> row.version, body |-> row.body]

ApprovedIsReleased ==
  \A r \in Recipe : recipes[r].status = "approved" => Content(r, recipes[r]) \in released

StartsReleased ==
  \A c \in Client : call[c].op = "start" => Content(call[c].recipe, call[c]) \in released

UpdatesAreNext ==
  \A c \in Client : call[c].op = "update" /\ call[c].recipe \notin disturbed =>
    Exists(call[c].recipe) /\ call[c].version = recipes[call[c].recipe].version + 1

ReleasedIsPast ==
  \A x \in released : x.recipe \notin disturbed =>
    /\ Exists(x.recipe)
    /\ x.version <= recipes[x.recipe].version
    /\ x.version = recipes[x.recipe].version => x.body = recipes[x.recipe].body

IInv ==
  /\ TypeOK
  /\ ApprovedIsReleased /\ StartsReleased /\ RunsWereApproved
  /\ UpdatesAreNext /\ ReleasedIsPast /\ VersionNamesOneBody
  /\ LogsTellStatus

-----------------------------------------------------------------------------

\* A row that exists has the fields of the table, and any other is Absent.
LEMMA RowFields ==
  ASSUME TypeOK, NEW r \in Recipe
  PROVE  /\ Exists(r) => /\ recipes[r] \in Row
                         /\ recipes[r].version \in Version
                         /\ recipes[r].status \in RecipeStatus
                         /\ recipes[r].body \in Body
         /\ ~Exists(r) => recipes[r] = Absent /\ recipes[r].version = 0 /\ recipes[r].status = "absent"
  BY DEF TypeOK, Exists, Row, Absent

\* What a client holds.
LEMMA CallFields ==
  ASSUME TypeOK, NEW c \in Client, call[c].op \in {"update", "start"}
  PROVE  /\ call[c] \in Call /\ ~Free(c)
         /\ call[c].recipe \in Recipe /\ call[c].version \in Version /\ call[c].body \in Body
  BY DEF TypeOK, Call, Idle, Free

\* Every record of a released content.
LEMMA ReleasedFields ==
  ASSUME TypeOK, NEW x \in released
  PROVE  x.recipe \in Recipe /\ x.version \in Version /\ x.body \in Body
  BY DEF TypeOK

\* The invariant holds initially.
LEMMA InitIInv == Init => IInv
  BY DEF Init, IInv, TypeOK, ApprovedIsReleased, StartsReleased, RunsWereApproved, UpdatesAreNext,
         ReleasedIsPast, VersionNamesOneBody, LogsTellStatus, RecipeLogTells, Exists, Stored,
         Absent, NoRun, Idle, Free

-----------------------------------------------------------------------------
\* Steps that write a recipe: seed, create, approve, deprecate, delete.

\* initialise(): a seed is released, and its recipe had no row, so that nothing
\* was released of it that it could contradict unless it was deleted.
LEMMA SeedIInv ==
  ASSUME IInv, NEW c \in Client, Seed(c)
  PROVE  IInv'
<1> USE DEF IInv
<1>1. PICK seeds \in SUBSET {r \in Catalogue : ~Exists(r)} :
      \E body \in [seeds -> Body], silent \in SUBSET seeds :
       /\ recipes' = [r \in Recipe |-> IF r \in seeds
            THEN [version |-> 1, status |-> "approved", body |-> body[r]] ELSE recipes[r]]
       /\ released' = released \cup {[recipe |-> r, version |-> 1, body |-> body[r]] : r \in seeds}
       /\ log' = [r \in Recipe |-> IF r \in seeds \ silent THEN "created" ELSE log[r]]
       /\ seeded' = seeded \cup seeds
  BY DEF Seed
<1>2. PICK body \in [seeds -> Body], silent \in SUBSET seeds :
       /\ recipes' = [r \in Recipe |-> IF r \in seeds
            THEN [version |-> 1, status |-> "approved", body |-> body[r]] ELSE recipes[r]]
       /\ released' = released \cup {[recipe |-> r, version |-> 1, body |-> body[r]] : r \in seeds}
       /\ log' = [r \in Recipe |-> IF r \in seeds \ silent THEN "created" ELSE log[r]]
       /\ seeded' = seeded \cup seeds
  BY <1>1
<1>3. UNCHANGED <<runVars, call, disturbed>>
  BY DEF Seed
<1>4. /\ seeds \subseteq Recipe /\ \A r \in seeds : ~Exists(r) /\ recipes[r].version = 0
      /\ 1 \in Version
  BY <1>1, CatalogueAssumption, RowFields, MaxVersionAssumption DEF Version
<1>5. /\ \A r \in Recipe \ seeds : recipes'[r] = recipes[r]
      /\ \A r \in seeds : /\ body[r] \in Body
                          /\ recipes'[r] = [version |-> 1, status |-> "approved", body |-> body[r]]
                          /\ Content(r, recipes'[r]) = [recipe |-> r, version |-> 1, body |-> body[r]]
  BY <1>2, <1>4 DEF Content
<1>6. \A r \in Recipe : Exists(r)' <=> (Exists(r) \/ r \in seeds)
  <2>1. ASSUME NEW r \in seeds PROVE recipes'[r].version = 1
    <3>1. recipes'[r] = [version |-> 1, status |-> "approved", body |-> body[r]]
      BY <1>5
    <3> QED
      BY <3>1
  <2>2. Absent.version = 0
    BY DEF Absent
  <2>3. \A r \in seeds : Exists(r)'
    BY <2>1, <2>2 DEF Exists
  <2>4. \A r \in Recipe \ seeds : Exists(r)' <=> Exists(r)
    BY <1>5 DEF Exists
  <2> QED
    BY <2>3, <2>4
<1>7. \A x \in released' :
        \/ x \in released
        \/ x.recipe \in seeds /\ x.version = 1 /\ x.body = body[x.recipe]
  BY <1>2
<1>8. TypeOK'
  <2>1. recipes' \in [Recipe -> Row \cup {Absent}]
    BY <1>2, <1>4, <1>5 DEF TypeOK, Row, RecipeStatus
  <2>2. released' \subseteq [recipe : Recipe, version : Version, body : Body]
    BY <1>2, <1>4, <1>5 DEF TypeOK
  <2>3. log' \in [Recipe -> {"none", "created", "edited", "approved", "deprecated", "deleted"}]
    BY <1>2 DEF TypeOK
  <2> QED
    BY <1>2, <1>3, <1>4, <2>1, <2>2, <2>3 DEF TypeOK, runVars
<1>9. ApprovedIsReleased'
  <2> SUFFICES ASSUME NEW r \in Recipe, recipes'[r].status = "approved"
               PROVE  Content(r, recipes'[r]) \in released'
    BY DEF ApprovedIsReleased, Content
  <2> QED
    BY <1>2, <1>5 DEF ApprovedIsReleased
<1>10. StartsReleased' /\ RunsWereApproved'
  BY <1>2, <1>3 DEF StartsReleased, RunsWereApproved, Stored, runVars, Content
<1>11. UpdatesAreNext'
  <2> SUFFICES ASSUME NEW d \in Client, call[d].op = "update", call[d].recipe \notin disturbed
               PROVE  Exists(call[d].recipe)' /\ call[d].version = recipes'[call[d].recipe].version + 1
    BY <1>3 DEF UpdatesAreNext
  <2>1. /\ call[d].recipe \in Recipe /\ Exists(call[d].recipe)
        /\ call[d].version = recipes[call[d].recipe].version + 1
    BY CallFields DEF UpdatesAreNext
  <2>2. call[d].recipe \notin seeds
    BY <1>4, <2>1
  <2>3. recipes'[call[d].recipe] = recipes[call[d].recipe]
    BY <1>5, <2>1, <2>2
  <2>4. Exists(call[d].recipe)'
    BY <1>3, <1>6, <2>1
  <2> QED
    BY <2>1, <2>3, <2>4
<1>12. ASSUME NEW x \in released, x.recipe \notin disturbed
       PROVE  x.recipe \in Recipe \ seeds
  BY <1>4, <1>12, ReleasedFields DEF ReleasedIsPast
<1>13. ReleasedIsPast'
  <2> SUFFICES ASSUME NEW x \in released', x.recipe \notin disturbed
               PROVE  /\ Exists(x.recipe)'
                      /\ x.version <= recipes'[x.recipe].version
                      /\ x.version = recipes'[x.recipe].version => x.body = recipes'[x.recipe].body
    BY <1>3 DEF ReleasedIsPast
  <2>1. CASE x \in released
    <3>1. x.recipe \in Recipe \ seeds
      BY <1>12, <2>1
    <3>2. recipes'[x.recipe] = recipes[x.recipe]
      BY <1>5, <3>1
    <3> QED
      BY <1>6, <2>1, <3>1, <3>2 DEF ReleasedIsPast
  <2>2. CASE x.recipe \in seeds /\ x.version = 1 /\ x.body = body[x.recipe]
    <3>1. recipes'[x.recipe] = [version |-> 1, status |-> "approved", body |-> body[x.recipe]]
      BY <1>5, <2>2
    <3>2. recipes'[x.recipe].version = 1 /\ recipes'[x.recipe].body = body[x.recipe]
      BY <3>1
    <3>3. Exists(x.recipe)'
      BY <1>4, <1>6, <2>2
    <3> QED
      BY <2>2, <3>2, <3>3
  <2> QED
    BY <1>7, <2>1, <2>2
<1>14. VersionNamesOneBody'
  <2> SUFFICES ASSUME NEW x \in released', NEW y \in released', x.recipe = y.recipe,
                      x.version = y.version, x.recipe \notin disturbed
               PROVE  x.body = y.body
    BY <1>3 DEF VersionNamesOneBody
  <2>1. CASE x.recipe \in seeds
    BY <1>7, <1>12, <2>1
  <2>2. CASE x.recipe \notin seeds
    BY <1>7, <2>2 DEF VersionNamesOneBody
  <2> QED
    BY <2>1, <2>2
<1>15. LogsTellStatus'
  <2>1. \A r \in Recipe \ seeded' : Exists(r)' => RecipeLogTells(r)'
    BY <1>2, <1>5, <1>6 DEF LogsTellStatus, RecipeLogTells
  <2>2. \A r \in seeded' : recipes'[r].status = "approved"
    BY <1>2, <1>4, <1>5 DEF LogsTellStatus, TypeOK
  <2> QED
    BY <1>3, <2>1, <2>2 DEF LogsTellStatus, Stored, runVars
<1> QED
  BY <1>8, <1>9, <1>10, <1>11, <1>13, <1>14, <1>15

\* create_recipe()
LEMMA CreateIInv ==
  ASSUME IInv, NEW c \in Client, NEW r \in Recipe, NEW body \in Body, CreateRecipe(c, r, body)
  PROVE  IInv'
<1> USE DEF IInv, CreateRecipe, recipeVars, runVars
<1>1. 1 \in Version
  BY MaxVersionAssumption DEF Version
<1>2. recipes' = [recipes EXCEPT ![r] = [version |-> 1, status |-> "draft", body |-> body]]
  OBVIOUS
<1>3. TypeOK'
  BY <1>1 DEF TypeOK, Row, RecipeStatus, Logged
<1>4. ApprovedIsReleased' /\ StartsReleased' /\ RunsWereApproved' /\ VersionNamesOneBody'
  BY DEF TypeOK, ApprovedIsReleased, StartsReleased, RunsWereApproved, VersionNamesOneBody, Stored, Content
<1>5. UpdatesAreNext'
  BY CallFields DEF TypeOK, UpdatesAreNext, Exists, Absent
<1>6. ReleasedIsPast'
  BY ReleasedFields DEF TypeOK, ReleasedIsPast, Exists, Absent
<1>7. LogsTellStatus'
  BY DEF TypeOK, LogsTellStatus, RecipeLogTells, Exists, Stored, Logged
<1> QED
  BY <1>3, <1>4, <1>5, <1>6, <1>7

\* approve_recipe()
LEMMA ApproveIInv ==
  ASSUME IInv, NEW c \in Client, NEW r \in Recipe, ApproveRecipe(c, r)
  PROVE  IInv'
<1> USE DEF IInv
<1>1. /\ UNCHANGED <<runVars, call, disturbed>>
      /\ Logged(r, "approved")
  BY DEF ApproveRecipe
<1>2. CASE ~Exists(r)
  <2>1. recipes' = recipes /\ released' = released
    BY <1>2 DEF ApproveRecipe, Exists, TypeOK
  <2>2. LogsTellStatus'
    BY <1>1, <1>2, <2>1 DEF LogsTellStatus, RecipeLogTells, Exists, Stored, Logged, TypeOK, runVars
  <2> QED
    BY <1>1, <2>1, <2>2 DEF TypeOK, ApprovedIsReleased, StartsReleased, RunsWereApproved, UpdatesAreNext,
       ReleasedIsPast, VersionNamesOneBody, Exists, Stored, Logged, runVars
<1>3. CASE Exists(r)
  <2> DEFINE new == Content(r, recipes[r])
  <2>1. /\ recipes' = [recipes EXCEPT ![r] = [@ EXCEPT !.status = "approved"]]
        /\ released' = released \cup {new}
    BY <1>3 DEF ApproveRecipe, Exists, TypeOK, Content
  <2>2. recipes[r] \in Row
    BY <1>3, RowFields
  <2>3. /\ \A x \in Recipe : x # r => recipes'[x] = recipes[x]
        /\ recipes'[r].version = recipes[r].version /\ recipes'[r].body = recipes[r].body
        /\ recipes'[r].status = "approved" /\ recipes'[r] \in Row
    BY <2>1, <2>2 DEF TypeOK, Row, RecipeStatus
  <2>4. /\ new.recipe = r /\ new.version = recipes[r].version /\ new.body = recipes[r].body
        /\ new \in [recipe : Recipe, version : Version, body : Body]
    BY <2>2 DEF Content, Row
  <2>5. \A x \in Recipe : Exists(x)' <=> Exists(x)
    BY <1>3, <2>3 DEF Exists, Row, Absent, RecipeStatus
  <2>6. TypeOK'
    BY <1>1, <2>1, <2>3, <2>4 DEF TypeOK, Logged, runVars
  <2>7. ApprovedIsReleased'
    BY <2>1, <2>3 DEF ApprovedIsReleased, Content
  <2>8. StartsReleased' /\ RunsWereApproved'
    BY <1>1, <2>1 DEF StartsReleased, RunsWereApproved, Stored, runVars, Content
  <2>9. UpdatesAreNext'
    BY <1>1, <2>3, <2>5, CallFields DEF UpdatesAreNext
  <2>10. ReleasedIsPast'
    BY <1>1, <1>3, <2>1, <2>2, <2>3, <2>4, <2>5, ReleasedFields DEF ReleasedIsPast, Row, Version
  <2>11. VersionNamesOneBody'
    BY <1>1, <2>1, <2>4 DEF VersionNamesOneBody, ReleasedIsPast
  <2>12. LogsTellStatus'
    BY <1>1, <2>3, <2>5 DEF LogsTellStatus, RecipeLogTells, Stored, Logged, TypeOK, runVars
  <2> QED
    BY <2>6, <2>7, <2>8, <2>9, <2>10, <2>11, <2>12
<1> QED
  BY <1>2, <1>3

\* deprecate_recipe()
LEMMA DeprecateIInv ==
  ASSUME IInv, NEW c \in Client, NEW r \in Recipe, DeprecateRecipe(c, r)
  PROVE  IInv'
<1> USE DEF IInv
<1>1. /\ UNCHANGED <<runVars, call, released, disturbed>>
      /\ Logged(r, "deprecated")
  BY DEF DeprecateRecipe
<1>2. CASE ~Exists(r)
  <2>1. recipes' = recipes
    BY <1>2 DEF DeprecateRecipe, Exists, TypeOK
  <2>2. LogsTellStatus'
    BY <1>1, <1>2, <2>1 DEF LogsTellStatus, RecipeLogTells, Exists, Stored, Logged, TypeOK, runVars
  <2> QED
    BY <1>1, <2>1, <2>2 DEF TypeOK, ApprovedIsReleased, StartsReleased, RunsWereApproved, UpdatesAreNext,
       ReleasedIsPast, VersionNamesOneBody, Exists, Stored, Logged, runVars
<1>3. CASE Exists(r)
  <2>1. recipes' = [recipes EXCEPT ![r] = [@ EXCEPT !.status = "deprecated"]]
    BY <1>3 DEF DeprecateRecipe, Exists, TypeOK
  <2>2. recipes[r] \in Row
    BY <1>3, RowFields
  <2>3. /\ \A x \in Recipe : x # r => recipes'[x] = recipes[x]
        /\ recipes'[r].version = recipes[r].version /\ recipes'[r].body = recipes[r].body
        /\ recipes'[r].status = "deprecated" /\ recipes'[r] \in Row
    BY <2>1, <2>2 DEF TypeOK, Row, RecipeStatus
  <2>4. \A x \in Recipe : Exists(x)' <=> Exists(x)
    BY <1>3, <2>3 DEF Exists, Row, Absent, RecipeStatus
  <2>5. TypeOK'
    BY <1>1, <2>1, <2>3 DEF TypeOK, Logged, runVars
  <2>6. ApprovedIsReleased'
    BY <1>1, <2>3 DEF ApprovedIsReleased, Content
  <2>7. StartsReleased' /\ RunsWereApproved' /\ VersionNamesOneBody'
    BY <1>1 DEF StartsReleased, RunsWereApproved, VersionNamesOneBody, Stored, runVars, Content
  <2>8. UpdatesAreNext'
    BY <1>1, <2>3, <2>4, CallFields DEF UpdatesAreNext
  <2>9. ReleasedIsPast'
    BY <1>1, <2>3, <2>4, ReleasedFields DEF ReleasedIsPast
  <2>10. LogsTellStatus'
    BY <1>1, <2>3, <2>4 DEF LogsTellStatus, RecipeLogTells, Stored, Logged, TypeOK, runVars
  <2> QED
    BY <2>5, <2>6, <2>7, <2>8, <2>9, <2>10
<1> QED
  BY <1>2, <1>3

\* delete_recipe()
LEMMA DeleteIInv ==
  ASSUME IInv, NEW c \in Client, NEW r \in Recipe, DeleteRecipe(c, r)
  PROVE  IInv'
<1> USE DEF IInv, DeleteRecipe
<1>1. TypeOK'
  BY DEF TypeOK, Logged, runVars
<1>2. ApprovedIsReleased'
  BY DEF ApprovedIsReleased, TypeOK, Absent, Content
<1>3. StartsReleased' /\ RunsWereApproved' /\ VersionNamesOneBody'
  BY DEF StartsReleased, RunsWereApproved, VersionNamesOneBody, Stored, runVars, Content
<1>4. UpdatesAreNext'
  BY CallFields DEF UpdatesAreNext, TypeOK, Exists
<1>5. ReleasedIsPast'
  BY ReleasedFields DEF ReleasedIsPast, TypeOK, Exists
<1>6. LogsTellStatus'
  BY DEF LogsTellStatus, RecipeLogTells, TypeOK, Exists, Stored, Logged, runVars
<1> QED
  BY <1>1, <1>2, <1>3, <1>4, <1>5, <1>6

-----------------------------------------------------------------------------
\* The two halves of update_recipe().

\* The SELECT of the version.
LEMMA ReadVersionIInv ==
  ASSUME IInv, NEW c \in Client, NEW r \in Recipe, NEW body \in Body, ReadVersion(c, r, body)
  PROVE  IInv'
<1> DEFINE new == [op |-> "update", recipe |-> r, version |-> recipes[r].version + 1, body |-> body]
<1> USE DEF IInv
<1>1. /\ call' = [call EXCEPT ![c] = new]
      /\ UNCHANGED <<recipeVars, runVars>>
      /\ Exists(r) /\ recipes[r].version < MaxVersion
  BY DEF ReadVersion
<1>2. new \in Call
  BY <1>1, RowFields, MaxVersionAssumption DEF Call, Version
<1>3. TypeOK'
  BY <1>1, <1>2 DEF TypeOK, recipeVars, runVars
<1>4. StartsReleased'
  BY <1>1 DEF StartsReleased, TypeOK, recipeVars, Content
<1>5. UpdatesAreNext'
  BY <1>1 DEF UpdatesAreNext, TypeOK, Exists, recipeVars
<1>6. (ApprovedIsReleased /\ RunsWereApproved /\ ReleasedIsPast /\ VersionNamesOneBody /\ LogsTellStatus)'
  BY <1>1 DEF ApprovedIsReleased, RunsWereApproved, ReleasedIsPast, VersionNamesOneBody, LogsTellStatus,
     RecipeLogTells, Exists, Stored, recipeVars, runVars, Content
<1> QED
  BY <1>3, <1>4, <1>5, <1>6

\* An update in flight elsewhere disturbs the recipe when another one commits.
LEMMA CommitUpdateIInv ==
  ASSUME IInv, NEW c \in Client, CommitUpdate(c)
  PROVE  IInv'
<1> DEFINE u == call[c]
           r == call[c].recipe
           new == [version |-> u.version, status |-> "draft", body |-> u.body]
<1> USE DEF IInv
<1>1. /\ u.op = "update" /\ r \in Recipe /\ u.version \in Version /\ u.body \in Body
      /\ call' = [call EXCEPT ![c] = Idle]
      /\ UNCHANGED <<runVars, released>>
      /\ Logged(r, "edited")
      /\ disturbed' = disturbed \cup (IF UpdateInFlight(c, r) THEN {r} ELSE {})
  BY CallFields DEF CommitUpdate
<1>2. call'[c].op = "none" /\ \A d \in Client \ {c} : call'[d] = call[d]
  BY <1>1 DEF TypeOK, Idle
<1>3. recipes' = [recipes EXCEPT ![r] = IF Exists(r) THEN new ELSE Absent]
  BY <1>1 DEF CommitUpdate, Exists, TypeOK
<1>4. /\ \A x \in Recipe : x # r => recipes'[x] = recipes[x]
      /\ recipes'[r] = IF Exists(r) THEN new ELSE Absent
  BY <1>1, <1>3 DEF TypeOK
<1>5. new \in Row /\ new # Absent /\ new.version = u.version /\ new.status = "draft" /\ new.body = u.body
  BY <1>1 DEF Row, RecipeStatus, Absent
<1>6. \A x \in Recipe : Exists(x)' <=> Exists(x)
  BY <1>4, <1>5 DEF Exists
<1>7. TypeOK'
  BY <1>1, <1>3, <1>5 DEF TypeOK, Logged, runVars
<1>8. ApprovedIsReleased'
  BY <1>1, <1>4, <1>5 DEF ApprovedIsReleased, Absent, Content
<1>9. StartsReleased' /\ RunsWereApproved'
  BY <1>1, <1>2 DEF StartsReleased, RunsWereApproved, Stored, runVars, Content
<1>10. UpdatesAreNext'
  <2> SUFFICES ASSUME NEW d \in Client, call'[d].op = "update", call'[d].recipe \notin disturbed'
               PROVE  (Exists(call[d].recipe) /\ call[d].version = recipes[call[d].recipe].version + 1)'
    BY DEF UpdatesAreNext
  <2>1. d # c /\ call'[d] = call[d]
    BY <1>2
  <2>2. call[d].recipe \in Recipe /\ call[d] # Idle
    BY <2>1, CallFields DEF Free
  <2>3. call[d].recipe # r
    BY <1>1, <2>1, <2>2 DEF UpdateInFlight
  <2> QED
    BY <1>1, <1>4, <1>6, <2>1, <2>2, <2>3 DEF UpdatesAreNext
<1>11. ReleasedIsPast'
  <2> SUFFICES ASSUME NEW x \in released, x.recipe \notin disturbed'
               PROVE  /\ Exists(x.recipe)' /\ x.version <= recipes'[x.recipe].version
                      /\ x.version = recipes'[x.recipe].version => x.body = recipes'[x.recipe].body
    BY <1>1 DEF ReleasedIsPast
  <2>1. x.recipe \in Recipe /\ x.version \in Nat /\ x.recipe \notin disturbed
    BY <1>1, ReleasedFields DEF Version
  <2>2. Exists(x.recipe)' /\ x.version <= recipes[x.recipe].version
    BY <1>6, <2>1 DEF ReleasedIsPast
  <2>3. CASE x.recipe = r
    <3>1. u.version = recipes[r].version + 1
      BY <1>1, <2>1, <2>3 DEF UpdatesAreNext
    <3>2. Exists(r) /\ recipes[r].version \in Nat
      BY <1>1, <1>6, <2>2, <2>3, RowFields DEF Version
    <3>3. recipes'[r].version = recipes[r].version + 1
      BY <1>4, <1>5, <3>1, <3>2
    <3> QED
      BY <2>1, <2>2, <2>3, <3>2, <3>3
  <2>4. CASE x.recipe # r
    BY <1>4, <2>1, <2>2, <2>4 DEF ReleasedIsPast
  <2> QED
    BY <2>3, <2>4
<1>12. VersionNamesOneBody'
  BY <1>1 DEF VersionNamesOneBody
<1>13. LogsTellStatus'
  BY <1>1, <1>4, <1>5, <1>6 DEF LogsTellStatus, RecipeLogTells, Stored, Logged, TypeOK, runVars
<1> QED
  BY <1>7, <1>8, <1>9, <1>10, <1>11, <1>12, <1>13

-----------------------------------------------------------------------------
\* Batch runs.

\* The read half of start_batch_run(): what is approved was released.
LEMMA ReadApprovedIInv ==
  ASSUME IInv, NEW c \in Client, NEW r \in Recipe, ReadApproved(c, r)
  PROVE  IInv'
<1> DEFINE new == [op |-> "start", recipe |-> r, version |-> recipes[r].version, body |-> recipes[r].body]
<1> USE DEF IInv
<1>1. /\ call' = [call EXCEPT ![c] = new]
      /\ UNCHANGED <<recipeVars, runVars>>
      /\ recipes[r].status = "approved"
  BY DEF ReadApproved
<1>2. Exists(r)
  BY <1>1, RowFields
<1>3. new \in Call
  BY <1>2, RowFields DEF Call
<1>4. TypeOK'
  BY <1>1, <1>3 DEF TypeOK, recipeVars, runVars
<1>5. StartsReleased'
  BY <1>1 DEF StartsReleased, ApprovedIsReleased, TypeOK, recipeVars, Content
<1>6. UpdatesAreNext'
  BY <1>1 DEF UpdatesAreNext, TypeOK, Exists, recipeVars
<1>7. (ApprovedIsReleased /\ RunsWereApproved /\ ReleasedIsPast /\ VersionNamesOneBody /\ LogsTellStatus)'
  BY <1>1 DEF ApprovedIsReleased, RunsWereApproved, ReleasedIsPast, VersionNamesOneBody, LogsTellStatus,
     RecipeLogTells, Exists, Stored, recipeVars, runVars, Content
<1> QED
  BY <1>4, <1>5, <1>6, <1>7

\* The insert half of start_batch_run().
LEMMA InsertRunIInv ==
  ASSUME IInv, NEW c \in Client, NEW run \in Run, InsertRun(c, run)
  PROVE  IInv'
<1> DEFINE s == call[c]
           new == [recipe |-> s.recipe, version |-> s.version, snapshot |-> s.body, status |-> "running"]
<1> USE DEF IInv
<1>1. /\ s.op = "start" /\ s.recipe \in Recipe /\ s.version \in Version /\ s.body \in Body
      /\ runs' = [runs EXCEPT ![run] = new]
      /\ lifecycle' = [lifecycle EXCEPT ![run] = "running"]
      /\ call' = [call EXCEPT ![c] = Idle]
      /\ UNCHANGED <<recipeVars, noted, claimed>>
  BY CallFields DEF InsertRun
<1>2. new \in RunRow /\ new # NoRun
  BY <1>1 DEF RunRow, RunStatus, NoRun
<1>3. call'[c].op = "none" /\ \A d \in Client \ {c} : call'[d] = call[d]
  BY <1>1 DEF TypeOK, Idle
<1>4. TypeOK'
  BY <1>1, <1>2 DEF TypeOK, recipeVars, RunStatus
<1>5. RunsWereApproved'
  BY <1>1 DEF RunsWereApproved, StartsReleased, Stored, TypeOK, recipeVars, Content
<1>6. StartsReleased' /\ UpdatesAreNext'
  BY <1>1, <1>3 DEF StartsReleased, UpdatesAreNext, Exists, recipeVars, Content
<1>7. (ApprovedIsReleased /\ ReleasedIsPast /\ VersionNamesOneBody)'
  BY <1>1 DEF ApprovedIsReleased, ReleasedIsPast, VersionNamesOneBody, Exists, recipeVars, Content
<1>8. LogsTellStatus'
  BY <1>1, <1>2 DEF LogsTellStatus, RecipeLogTells, Exists, Stored, TypeOK, recipeVars
<1> QED
  BY <1>4, <1>5, <1>6, <1>7, <1>8

\* A call that ends between its two halves.
LEMMA GiveUpIInv ==
  ASSUME IInv, NEW c \in Client, GiveUp(c)
  PROVE  IInv'
<1> USE DEF IInv, GiveUp, recipeVars, runVars
<1>1. call'[c].op = "none" /\ \A d \in Client \ {c} : call'[d] = call[d]
  BY DEF TypeOK, Idle
<1>2. TypeOK'
  BY DEF TypeOK
<1>3. StartsReleased' /\ UpdatesAreNext'
  BY <1>1 DEF StartsReleased, UpdatesAreNext, Exists, Content
<1>4. (ApprovedIsReleased /\ RunsWereApproved /\ ReleasedIsPast /\ VersionNamesOneBody /\ LogsTellStatus)'
  BY DEF ApprovedIsReleased, RunsWereApproved, ReleasedIsPast, VersionNamesOneBody, LogsTellStatus,
     RecipeLogTells, Exists, Stored, Content
<1> QED
  BY <1>2, <1>3, <1>4

\* record_batch_event() and end_batch_run().
LEMMA RunEventIInv ==
  ASSUME IInv, NEW c \in Client, NEW run \in Run,
         RecordBatchEvent(c, run) \/ \E status \in RunStatus : EndBatchRun(c, run, status)
  PROVE  IInv'
<1> USE DEF IInv, RecordBatchEvent, EndBatchRun
<1>1. UNCHANGED <<recipeVars, call>> /\ Stored(run)
  OBVIOUS
<1>2. runs[run] \in RunRow
  BY <1>1 DEF TypeOK, Stored
<1>3. \A x \in Run : /\ Stored(x)' <=> Stored(x)
                     /\ runs'[x].recipe = runs[x].recipe /\ runs'[x].version = runs[x].version
                     /\ runs'[x].snapshot = runs[x].snapshot
  BY <1>1, <1>2 DEF TypeOK, Stored, RunRow, RunStatus, NoRun
<1>4. TypeOK'
  BY <1>1, <1>2 DEF TypeOK, recipeVars, RunRow
<1>5. RunsWereApproved'
  BY <1>1, <1>3 DEF RunsWereApproved, recipeVars
<1>6. (ApprovedIsReleased /\ StartsReleased /\ UpdatesAreNext /\ ReleasedIsPast /\ VersionNamesOneBody)'
  BY <1>1 DEF ApprovedIsReleased, StartsReleased, UpdatesAreNext, ReleasedIsPast, VersionNamesOneBody,
     Exists, recipeVars, Content
<1>7. LogsTellStatus'
  BY <1>1, <1>2, <1>3 DEF LogsTellStatus, RecipeLogTells, Exists, Stored, TypeOK, recipeVars, RunRow
<1> QED
  BY <1>4, <1>5, <1>6, <1>7

-----------------------------------------------------------------------------

\* Every step preserves the invariant.
LEMMA NextIInv == IInv /\ [Next]_vars => IInv'
<1> SUFFICES ASSUME IInv, [Next]_vars PROVE IInv'
  OBVIOUS
<1>1. CASE Next
  BY <1>1, SeedIInv, CreateIInv, ReadVersionIInv, CommitUpdateIInv, ApproveIInv, DeprecateIInv, DeleteIInv,
     ReadApprovedIInv, InsertRunIInv, RunEventIInv, GiveUpIInv DEF Next
<1>2. CASE UNCHANGED vars
  BY <1>2 DEF vars, recipeVars, runVars, IInv, TypeOK, ApprovedIsReleased, StartsReleased, RunsWereApproved,
     UpdatesAreNext, ReleasedIsPast, VersionNamesOneBody, LogsTellStatus, RecipeLogTells, Exists, Stored, Content
<1> QED
  BY <1>1, <1>2

\* The invariant holds in every reachable state.
LEMMA Invariance == Spec => []IInv
<1>1. Init => IInv
  BY InitIInv
<1>2. IInv /\ [Next]_vars => IInv'
  BY NextIInv
<1> QED
  BY <1>1, <1>2, PTL DEF Spec

-----------------------------------------------------------------------------

\* Rows, logs and calls keep their types (ScadaDatabaseStore.initialise).
THEOREM TypeCorrect == Spec => []TypeOK
<1>1. IInv => TypeOK
  BY DEF IInv
<1> QED
  BY <1>1, Invariance, PTL

\* Whatever any number of clients commit between the two connections of
\* start_batch_run(), a run executes contents that were approved.
THEOREM RunsApproved == Spec => []RunsWereApproved
<1>1. IInv => RunsWereApproved
  BY DEF IInv
<1> QED
  BY <1>1, Invariance, PTL

\* Of a recipe that was not deleted and whose updates did not overlap, a
\* version names one body (update_recipe).
THEOREM OneBodyPerVersion == Spec => []VersionNamesOneBody
<1>1. IInv => VersionNamesOneBody
  BY DEF IInv
<1> QED
  BY <1>1, Invariance, PTL

\* The audit log of the recipes and the events of the runs tell the tables,
\* but for what initialise() seeded and what callers recorded of type batch_start
\* or batch_end, however clients interleave.
THEOREM LogsAreTrue == Spec => []LogsTellStatus
<1>1. IInv => LogsTellStatus
  BY DEF IInv
<1> QED
  BY <1>1, Invariance, PTL

-----------------------------------------------------------------------------
\* What a step may change of a recipe and of a run.

Kept(r) == recipes'[r].version = recipes[r].version /\ recipes'[r].body = recipes[r].body

Revised(r) == recipes'[r].version = recipes[r].version + 1 /\ recipes'[r].status = "draft"

\* Only a commit of update_recipe() changes what a stored recipe says.
LEMMA OnlyUpdatesEdit ==
  ASSUME TypeOK, Next, NEW r \in Recipe, Exists(r), Exists(r)', ~Kept(r)
  PROVE  \E c \in Client :
           /\ CommitUpdate(c) /\ call[c].recipe = r
           /\ recipes'[r] = [version |-> call[c].version, status |-> "draft", body |-> call[c].body]
<1>1. recipes[r] \in Row
  BY RowFields
<1>2. PICK c \in Client :
        \/ CommitUpdate(c)
        \/ Seed(c)
        \/ \E x \in Recipe, body \in Body : CreateRecipe(c, x, body)
        \/ \E x \in Recipe : ApproveRecipe(c, x) \/ DeprecateRecipe(c, x) \/ DeleteRecipe(c, x)
        \/ UNCHANGED recipes
  BY DEF Next, ReadVersion, ReadApproved, InsertRun, RecordBatchEvent, EndBatchRun, GiveUp, recipeVars
<1>3. CASE CommitUpdate(c)
  <2>1. call[c].recipe \in Recipe
    BY <1>3, CallFields DEF CommitUpdate
  <2> QED
    BY <1>3, <2>1 DEF CommitUpdate, Exists, TypeOK, Kept
<1>4. ASSUME NEW x \in Recipe, NEW body \in Body, CreateRecipe(c, x, body) PROVE FALSE
  BY <1>4 DEF CreateRecipe, Exists, TypeOK, Kept
<1>5. ASSUME NEW x \in Recipe, ApproveRecipe(c, x) \/ DeprecateRecipe(c, x) PROVE FALSE
  <2>1. CASE x # r \/ ~Exists(x)
    BY <1>5, <2>1 DEF ApproveRecipe, DeprecateRecipe, Exists, TypeOK, Kept
  <2>2. CASE x = r
    <3>1. recipes'[r] = [recipes[r] EXCEPT !.status = "approved"] \/ recipes'[r] = [recipes[r] EXCEPT !.status = "deprecated"]
      BY <1>5, <2>2 DEF ApproveRecipe, DeprecateRecipe, Exists, TypeOK
    <3> QED
      BY <1>1, <3>1 DEF Row, Kept
  <2> QED
    BY <2>1, <2>2
<1>6. ASSUME NEW x \in Recipe, DeleteRecipe(c, x) PROVE FALSE
  BY <1>6 DEF DeleteRecipe, Exists, TypeOK, Kept
<1>7. CASE UNCHANGED recipes
  BY <1>7 DEF Kept
<1>8. CASE Seed(c)
  BY <1>8 DEF Seed, Kept
<1> QED
  BY <1>2, <1>3, <1>4, <1>5, <1>6, <1>7, <1>8

\* However updates overlap, no version or body of a stored recipe changes
\* while the recipe stays approved or deprecated: the commit that changes one
\* leaves a draft (update_recipe).
EditsReturnToDraft ==
  [][\A r \in Recipe : Exists(r) /\ Exists(r)' => Kept(r) \/ recipes'[r].status = "draft"]_vars

\* No overlap of updates edits an approved recipe in place (update_recipe).
THEOREM EditsAreDrafts == Spec => EditsReturnToDraft
<1>1. TypeOK /\ [Next]_vars
        => [\A r \in Recipe : Exists(r) /\ Exists(r)' => Kept(r) \/ recipes'[r].status = "draft"]_vars
  <2> SUFFICES ASSUME TypeOK, Next, NEW r \in Recipe, Exists(r), Exists(r)', ~Kept(r)
               PROVE  recipes'[r].status = "draft"
    OBVIOUS
  <2>1. PICK c \in Client :
          recipes'[r] = [version |-> call[c].version, status |-> "draft", body |-> call[c].body]
    BY OnlyUpdatesEdit
  <2> QED
    BY <2>1
<1> QED
  BY <1>1, TypeCorrect, PTL DEF Spec, EditsReturnToDraft

\* As long as a recipe is not deleted and no two updates of it overlap, its
\* version counts its edits one by one: no edit is lost and no version comes
\* back (update_recipe).
EditsCountVersions ==
  [][\A r \in Recipe : Exists(r) /\ Exists(r)' /\ r \notin disturbed' => Kept(r) \/ Revised(r)]_vars

\* Undisturbed, a recipe's version counts its edits (update_recipe).
THEOREM VersionsCount == Spec => EditsCountVersions
<1>1. IInv /\ [Next]_vars
        => [\A r \in Recipe : Exists(r) /\ Exists(r)' /\ r \notin disturbed' => Kept(r) \/ Revised(r)]_vars
  <2> SUFFICES ASSUME IInv, Next, NEW r \in Recipe, Exists(r), Exists(r)', r \notin disturbed', ~Kept(r)
               PROVE  Revised(r)
    OBVIOUS
  <2>1. PICK c \in Client :
          /\ CommitUpdate(c) /\ call[c].recipe = r
          /\ recipes'[r] = [version |-> call[c].version, status |-> "draft", body |-> call[c].body]
    BY OnlyUpdatesEdit DEF IInv
  <2>2. r \notin disturbed
    BY <2>1 DEF CommitUpdate
  <2> QED
    BY <2>1, <2>2 DEF IInv, UpdatesAreNext, CommitUpdate, Revised
<1> QED
  BY <1>1, Invariance, PTL DEF Spec, EditsCountVersions

\* "IMMUTABLE snapshot of recipe at execution time" (store.py, the comment on
\* batch_runs): once a run is stored no method changes its recipe, version or
\* snapshot or removes it; what changes is its status.
RunsAreImmutable ==
  [][\A run \in Run : Stored(run) =>
       \E status \in RunStatus : runs'[run] = [runs[run] EXCEPT !.status = status]]_vars

\* A stored run keeps what it was started with (start_batch_run,
\* end_batch_run), for any clients.
THEOREM RunsImmutable == Spec => RunsAreImmutable
<1>1. TypeOK /\ [Next]_vars
        => [\A run \in Run : Stored(run) =>
              \E status \in RunStatus : runs'[run] = [runs[run] EXCEPT !.status = status]]_vars
  <2> SUFFICES ASSUME TypeOK, Next, NEW run \in Run, Stored(run)
               PROVE  \E status \in RunStatus : runs'[run] = [runs[run] EXCEPT !.status = status]
    OBVIOUS
  <2>1. runs[run] \in RunRow
    BY DEF TypeOK, Stored
  <2>2. runs[run].status \in RunStatus /\ runs[run] = [runs[run] EXCEPT !.status = runs[run].status]
    BY <2>1 DEF RunRow
  <2>3. CASE UNCHANGED runs
    BY <2>2, <2>3
  <2>4. ASSUME NEW c \in Client, NEW x \in Run, InsertRun(c, x)
        PROVE  runs'[run] = runs[run]
    BY <2>4 DEF InsertRun, Stored, TypeOK
  <2>5. ASSUME NEW c \in Client, NEW x \in Run, NEW status \in RunStatus, EndBatchRun(c, x, status)
        PROVE  runs'[run] = runs[run] \/ runs'[run] = [runs[run] EXCEPT !.status = status]
    BY <2>5 DEF EndBatchRun, TypeOK
  <2>6. \/ UNCHANGED runs
        \/ \E c \in Client, x \in Run : InsertRun(c, x)
        \/ \E c \in Client, x \in Run, status \in RunStatus : EndBatchRun(c, x, status)
    BY DEF Next, Seed, CreateRecipe, ReadVersion, CommitUpdate, ApproveRecipe, DeprecateRecipe, DeleteRecipe,
       ReadApproved, RecordBatchEvent, GiveUp, runVars
  <2> QED
    BY <2>2, <2>3, <2>4, <2>5, <2>6
<1> QED
  BY <1>1, TypeCorrect, PTL DEF Spec, RunsAreImmutable

-----------------------------------------------------------------------------
\* The precondition under which the docstring of start_batch_run() is true.

\* One client uses the database.
OneClient == \A c, d \in Client : c = d

\* What the client carries from its read to its commit is still in the table.
HeldIsCurrent ==
  \A c \in Client :
    /\ call[c].op = "start" =>
         recipes[call[c].recipe] = [version |-> call[c].version, status |-> "approved", body |-> call[c].body]
    /\ call[c].op = "update" =>
         Exists(call[c].recipe) /\ call[c].version = recipes[call[c].recipe].version + 1

\* A single client holds the current content of the recipe it works on.
LEMMA Held ==
  ASSUME OneClient
  PROVE  Spec => [](TypeOK /\ HeldIsCurrent)
<1>1. Init => HeldIsCurrent
  <2> SUFFICES ASSUME Init, NEW c \in Client PROVE call[c].op \notin {"start", "update"}
    BY DEF HeldIsCurrent
  <2> QED
    BY DEF Init, Idle
<1>2. TypeOK /\ HeldIsCurrent /\ [Next]_vars => HeldIsCurrent'
  <2> SUFFICES ASSUME TypeOK, HeldIsCurrent, [Next]_vars
               PROVE  HeldIsCurrent'
    OBVIOUS
  <2>1. ASSUME NEW c \in Client, NEW r \in Recipe, NEW body \in Body, ReadVersion(c, r, body)
        PROVE  HeldIsCurrent'
    BY <2>1, OneClient DEF OneClient, HeldIsCurrent, ReadVersion, TypeOK, recipeVars, Exists
  <2>2. ASSUME NEW c \in Client, NEW r \in Recipe, ReadApproved(c, r)
        PROVE  HeldIsCurrent'
    <3>1. recipes[r] \in Row
      BY <2>2, RowFields DEF ReadApproved
    <3>2. recipes[r] = [version |-> recipes[r].version, status |-> "approved", body |-> recipes[r].body]
      BY <2>2, <3>1 DEF ReadApproved, Row
    <3> QED
      BY <2>2, <3>2, OneClient DEF OneClient, HeldIsCurrent, ReadApproved, TypeOK, recipeVars
  <2>3. ASSUME NEW c \in Client,
               \/ CommitUpdate(c) \/ GiveUp(c)
               \/ \E run \in Run : InsertRun(c, run)
        PROVE  HeldIsCurrent'
    <3>1. call'[c] = Idle
      BY <2>3 DEF CommitUpdate, GiveUp, InsertRun, TypeOK
    <3> QED
      BY <3>1, OneClient DEF OneClient, HeldIsCurrent, Idle
  <2>4. ASSUME NEW c \in Client,
               \/ Seed(c)
               \/ \E r \in Recipe, body \in Body : CreateRecipe(c, r, body)
               \/ \E r \in Recipe : ApproveRecipe(c, r) \/ DeprecateRecipe(c, r) \/ DeleteRecipe(c, r)
               \/ \E run \in Run : RecordBatchEvent(c, run)
               \/ \E run \in Run, status \in RunStatus : EndBatchRun(c, run, status)
        PROVE  HeldIsCurrent'
    <3>1. call'[c] = Idle
      BY <2>4 DEF Seed, CreateRecipe, ApproveRecipe, DeprecateRecipe, DeleteRecipe, RecordBatchEvent, EndBatchRun, Free
    <3> QED
      BY <3>1, OneClient DEF OneClient, HeldIsCurrent, Idle
  <2>5. CASE UNCHANGED vars
    BY <2>5 DEF vars, recipeVars, HeldIsCurrent, Exists
  <2> QED
    BY <2>1, <2>2, <2>3, <2>4, <2>5 DEF Next
<1> QED
  BY <1>1, <1>2, TypeCorrect, PTL DEF Spec

\* With one client on the database a run is a snapshot "of the current
\* approved recipe" when it is stored (start_batch_run, docstring).
THEOREM OneClientSnapshots ==
  ASSUME OneClient
  PROVE  Spec => SnapshotIsCurrent
<1>1. TypeOK /\ HeldIsCurrent /\ [Next]_vars
        => [\A run \in Run : ~Stored(run) /\ Stored(run)' =>
              LET new == runs'[run] IN
              recipes[new.recipe] =
                [version |-> new.version, status |-> "approved", body |-> new.snapshot]]_vars
  <2> SUFFICES ASSUME TypeOK, HeldIsCurrent, Next, NEW run \in Run, ~Stored(run), Stored(run)'
               PROVE  recipes[runs'[run].recipe] =
                        [version |-> runs'[run].version, status |-> "approved", body |-> runs'[run].snapshot]
    OBVIOUS
  <2>1. PICK c \in Client : InsertRun(c, run)
    BY DEF Next, Seed, CreateRecipe, ReadVersion, CommitUpdate, ApproveRecipe, DeprecateRecipe, DeleteRecipe,
       ReadApproved, RecordBatchEvent, GiveUp, InsertRun, EndBatchRun, runVars, Stored, TypeOK
  <2> QED
    BY <2>1 DEF InsertRun, HeldIsCurrent, TypeOK
<1> QED
  BY OneClient, <1>1, Held, PTL DEF Spec, SnapshotIsCurrent

\* With one client the version counts the edits of a recipe between its
\* creation and its deletion, without further conditions (update_recipe).
THEOREM OneClientVersions ==
  ASSUME OneClient
  PROVE  Spec => [][\A r \in Recipe : Exists(r) /\ Exists(r)' => Kept(r) \/ Revised(r)]_vars
<1>1. TypeOK /\ HeldIsCurrent /\ [Next]_vars
        => [\A r \in Recipe : Exists(r) /\ Exists(r)' => Kept(r) \/ Revised(r)]_vars
  <2> SUFFICES ASSUME TypeOK, HeldIsCurrent, Next, NEW r \in Recipe, Exists(r), Exists(r)', ~Kept(r)
               PROVE  Revised(r)
    OBVIOUS
  <2>1. PICK c \in Client :
          /\ CommitUpdate(c) /\ call[c].recipe = r
          /\ recipes'[r] = [version |-> call[c].version, status |-> "draft", body |-> call[c].body]
    BY OnlyUpdatesEdit
  <2>2. call[c].op = "update"
    BY <2>1 DEF CommitUpdate
  <2>3. call[c].version = recipes[r].version + 1
    BY <2>1, <2>2 DEF HeldIsCurrent
  <2> QED
    BY <2>1, <2>3 DEF Revised
<1> QED
  BY OneClient, <1>1, Held, PTL DEF Spec
=============================================================================
