----------------------------- MODULE RecipeStore -----------------------------
(***************************************************************************)
(* The master recipes and batch runs of scada/store.py, class              *)
(* ScadaDatabaseStore, used by several clients on one database file.       *)
(*                                                                         *)
(* Every method opens a connection of its own, and its writes commit       *)
(* together or not at all, so a method is one step, with two exceptions.   *)
(* update_recipe() reads the version before its first write opens the      *)
(* transaction, and start_batch_run() reads the recipe on a connection it  *)
(* closes before it opens the one it inserts the run on: each has a read   *)
(* step and a commit step, and other clients may commit in between.        *)
(*                                                                         *)
(* A body stands for name, body_json and sha256_hash.  initialise() seeds  *)
(* the recipes of recipe_catalog.json that have no row, and passes over    *)
(* what is missing or raises in it: the file is not in the repository.     *)
(***************************************************************************)
EXTENDS Naturals

CONSTANTS
  Client,     \* callers of the store
  Recipe,     \* recipe ids
  Body,       \* recipe contents
  Catalogue,  \* the recipe ids of recipe_catalog.json; {} without the file
  Run,        \* batch_runs ids; start_batch_run() makes a new one each time
  MaxVersion  \* bound of the model: the version a recipe may reach

ASSUME MaxVersionAssumption == MaxVersion \in Nat \ {0}

ASSUME CatalogueAssumption == Catalogue \subseteq Recipe

VARIABLES
  recipes,   \* the recipes table
  log,       \* the action of the last recipe_audit_log row of each recipe
  runs,      \* the batch_runs table
  lifecycle, \* the status the last batch_start or batch_end event of a run tells
  noted,     \* runs with an event that a caller recorded (record_batch_event)
  call,      \* what each client holds between the read and the commit
  released,  \* history: the rows that were ever approved
  disturbed, \* history: recipes deleted, or written while an update was in flight
  seeded,    \* history: recipes that nothing was done to since initialise() seeded them
  claimed    \* history: runs whose last batch_start or batch_end event a caller recorded

recipeVars == <<recipes, log, released, disturbed, seeded>>
runVars == <<runs, lifecycle, noted, claimed>>
vars == <<recipeVars, runVars, call>>

Version == 1..MaxVersion
RecipeStatus == {"draft", "approved", "deprecated"}
RunStatus == {"running", "complete", "aborted"}

\* No row of that id.
Absent == [version |-> 0, status |-> "absent", body |-> "none"]
NoRun == [recipe |-> "none", version |-> 0, snapshot |-> "none", status |-> "absent"]
Idle == [op |-> "none"]

Row == [version : Version, status : RecipeStatus, body : Body]
RunRow == [recipe : Recipe, version : Version, snapshot : Body, status : RunStatus]
Call == [op : {"update", "start"}, recipe : Recipe, version : Version, body : Body]

Exists(r) == recipes[r] # Absent
Stored(run) == runs[run] # NoRun

TypeOK ==
  /\ recipes \in [Recipe -> Row \cup {Absent}]
  /\ log \in [Recipe -> {"none", "created", "edited", "approved", "deprecated", "deleted"}]
  /\ runs \in [Run -> RunRow \cup {NoRun}]
  /\ lifecycle \in [Run -> RunStatus \cup {"none", "untold"}]
  /\ noted \subseteq Run /\ claimed \subseteq Run
  /\ call \in [Client -> Call \cup {Idle}]
  /\ released \subseteq [recipe : Recipe, version : Version, body : Body]
  /\ disturbed \subseteq Recipe /\ seeded \subseteq Recipe

Init ==
  /\ recipes = [r \in Recipe |-> Absent]
  /\ log = [r \in Recipe |-> "none"]
  /\ runs = [run \in Run |-> NoRun]
  /\ lifecycle = [run \in Run |-> "none"]
  /\ noted = {} /\ claimed = {}
  /\ call = [c \in Client |-> Idle]
  /\ released = {}
  /\ disturbed = {} /\ seeded = {}

\* A caller of the store runs one method at a time.
Free(c) == call[c] = Idle

\* Updates of r that other clients have in flight when c writes r.
UpdateInFlight(c, r) ==
  \E d \in Client \ {c} : call[d] # Idle /\ call[d].op = "update" /\ call[d].recipe = r

Logged(r, action) ==
  /\ log' = [log EXCEPT ![r] = action]
  /\ seeded' = seeded \ {r}

(***************************************************************************)
(* Master recipes                                                          *)
(***************************************************************************)

\* initialise(), by every client at its start: recipes of the catalogue that are
\* missing are stored as approved.  An exception ends the loop and is swallowed,
\* so that some of them may stay missing, and the last one without its log row.
Seed(c) ==
  /\ Free(c)
  /\ \E seeds \in SUBSET {r \in Catalogue : ~Exists(r)} :
     \E body \in [seeds -> Body], silent \in SUBSET seeds :
       /\ \A x, y \in silent : x = y
       /\ recipes' = [r \in Recipe |-> IF r \in seeds
            THEN [version |-> 1, status |-> "approved", body |-> body[r]] ELSE recipes[r]]
       /\ released' = released \cup {[recipe |-> r, version |-> 1, body |-> body[r]] : r \in seeds}
       /\ log' = [r \in Recipe |-> IF r \in seeds \ silent THEN "created" ELSE log[r]]
       /\ seeded' = seeded \cup seeds
  /\ UNCHANGED <<runVars, call, disturbed>>

\* The id is a primary key: a second INSERT raises and is rolled back.
CreateRecipe(c, r, body) ==
  /\ Free(c)
  /\ ~Exists(r)
  /\ recipes' = [recipes EXCEPT ![r] = [version |-> 1, status |-> "draft", body |-> body]]
  /\ Logged(r, "created")
  /\ UNCHANGED <<runVars, call, released, disturbed>>

\* The SELECT of update_recipe(); without a row the method returns False.
ReadVersion(c, r, body) ==
  /\ Free(c)
  /\ Exists(r)
  /\ recipes[r].version < MaxVersion
  /\ call' = [call EXCEPT ![c] = [op |-> "update", recipe |-> r,
                                  version |-> recipes[r].version + 1, body |-> body]]
  /\ UNCHANGED <<recipeVars, runVars>>

\* Mutants: the UPDATE does not set status; the new version is not stored.
CommitUpdateStatusMut(c) ==
  LET u == call[c] IN
  /\ u.op = "update"
  /\ recipes' = [recipes EXCEPT ![u.recipe] =
       IF @ = Absent THEN @ ELSE [@ EXCEPT !.version = u.version, !.body = u.body]]
  /\ Logged(u.recipe, "edited")
  /\ disturbed' = disturbed \cup (IF UpdateInFlight(c, u.recipe) THEN {u.recipe} ELSE {})
  /\ call' = [call EXCEPT ![c] = Idle]
  /\ UNCHANGED <<runVars, released>>

CommitUpdateVersionMut(c) ==
  LET u == call[c] IN
  /\ u.op = "update"
  /\ recipes' = [recipes EXCEPT ![u.recipe] =
       IF @ = Absent THEN @ ELSE [@ EXCEPT !.status = "draft", !.body = u.body]]
  /\ Logged(u.recipe, "edited")
  /\ disturbed' = disturbed \cup (IF UpdateInFlight(c, u.recipe) THEN {u.recipe} ELSE {})
  /\ call' = [call EXCEPT ![c] = Idle]
  /\ UNCHANGED <<runVars, released>>

\* The UPDATE and the log row of update_recipe().  If the recipe was deleted
\* meanwhile the UPDATE matches nothing and the log row is written all the same.
CommitUpdate(c) ==
  LET u == call[c] IN
  /\ u.op = "update"
  /\ recipes' = [recipes EXCEPT ![u.recipe] =
       IF @ = Absent THEN @ ELSE [version |-> u.version, status |-> "draft", body |-> u.body]]
  /\ Logged(u.recipe, "edited")
  /\ disturbed' = disturbed \cup (IF UpdateInFlight(c, u.recipe) THEN {u.recipe} ELSE {})
  /\ call' = [call EXCEPT ![c] = Idle]
  /\ UNCHANGED <<runVars, released>>

\* approve_recipe() asks neither for a row nor for its status or version.
ApproveRecipe(c, r) ==
  /\ Free(c)
  /\ recipes' = [recipes EXCEPT ![r] = IF @ = Absent THEN @ ELSE [@ EXCEPT !.status = "approved"]]
  /\ released' = released \cup
       {[recipe |-> x, version |-> recipes[x].version, body |-> recipes[x].body] :
          x \in {y \in {r} : Exists(y)}}
  /\ Logged(r, "approved")
  /\ UNCHANGED <<runVars, call, disturbed>>

\* Mutant: INSERT OR REPLACE in place of the UPDATE.
DeprecateRecipeMut(c, r) ==
  /\ Free(c)
  /\ recipes' = [recipes EXCEPT ![r].status = "deprecated"]
  /\ Logged(r, "deprecated")
  /\ UNCHANGED <<runVars, call, released, disturbed>>

\* deprecate_recipe()
DeprecateRecipe(c, r) ==
  /\ Free(c)
  /\ recipes' = [recipes EXCEPT ![r] = IF @ = Absent THEN @ ELSE [@ EXCEPT !.status = "deprecated"]]
  /\ Logged(r, "deprecated")
  /\ UNCHANGED <<runVars, call, released, disturbed>>

\* delete_recipe(): the runs of the recipe keep its id and their snapshot.
DeleteRecipe(c, r) ==
  /\ Free(c)
  /\ recipes' = [recipes EXCEPT ![r] = Absent]
  /\ Logged(r, "deleted")
  /\ disturbed' = disturbed \cup {r}
  /\ UNCHANGED <<runVars, call, released>>

(***************************************************************************)
(* Batch runs                                                              *)
(***************************************************************************)

\* Mutant: any existing recipe can be executed.
ReadApprovedMut(c, r) ==
  /\ Free(c)
  /\ Exists(r)
  /\ call' = [call EXCEPT ![c] = [op |-> "start", recipe |-> r,
                                  version |-> recipes[r].version, body |-> recipes[r].body]]
  /\ UNCHANGED <<recipeVars, runVars>>

\* get_recipe() inside start_batch_run(); any other recipe raises.
ReadApproved(c, r) ==
  /\ Free(c)
  /\ recipes[r].status = "approved"
  /\ call' = [call EXCEPT ![c] = [op |-> "start", recipe |-> r,
                                  version |-> recipes[r].version, body |-> recipes[r].body]]
  /\ UNCHANGED <<recipeVars, runVars>>

\* The second connection of start_batch_run(): the run and its batch_start event.
InsertRun(c, run) ==
  LET s == call[c] IN
  /\ s.op = "start"
  /\ ~Stored(run)
  /\ runs' = [runs EXCEPT ![run] = [recipe |-> s.recipe, version |-> s.version,
                                    snapshot |-> s.body, status |-> "running"]]
  /\ lifecycle' = [lifecycle EXCEPT ![run] = "running"]
  /\ call' = [call EXCEPT ![c] = Idle]
  /\ UNCHANGED <<recipeVars, noted, claimed>>

\* The commit step of update_recipe() or start_batch_run() raises ("database
\* is locked"), or the client dies before it.
GiveUp(c) ==
  /\ ~Free(c)
  /\ call' = [call EXCEPT ![c] = Idle]
  /\ UNCHANGED <<recipeVars, runVars>>

\* record_batch_event(): an event of any type and detail; the foreign key
\* refuses a run without a row.  One of type batch_start tells that the run is
\* running, and one of type batch_end what its detail says, if it says anything.
RecordBatchEvent(c, run) ==
  /\ Free(c)
  /\ Stored(run)
  /\ noted' = noted \cup {run}
  /\ \/ UNCHANGED <<lifecycle, claimed>>
     \/ /\ \E told \in RunStatus \cup {"untold"} : lifecycle' = [lifecycle EXCEPT ![run] = told]
        /\ claimed' = claimed \cup {run}
  /\ UNCHANGED <<recipeVars, runs, call>>

\* end_batch_run(): any status the CHECK allows, "running" included, whatever
\* the run's status is; without a row the foreign key of the event raises and
\* the UPDATE is rolled back with it.
EndBatchRun(c, run, status) ==
  /\ Free(c)
  /\ Stored(run)
  /\ runs' = [runs EXCEPT ![run].status = status]
  /\ lifecycle' = [lifecycle EXCEPT ![run] = status]
  /\ claimed' = claimed \ {run}
  /\ UNCHANGED <<recipeVars, noted, call>>

-----------------------------------------------------------------------------

Next ==
  \E c \in Client :
    \/ Seed(c)
    \/ \E r \in Recipe, body \in Body : CreateRecipe(c, r, body) \/ ReadVersion(c, r, body)
    \/ CommitUpdate(c)
    \/ \E r \in Recipe : ApproveRecipe(c, r) \/ DeprecateRecipe(c, r) \/ DeleteRecipe(c, r)
    \/ \E r \in Recipe : ReadApproved(c, r)
    \/ \E run \in Run : InsertRun(c, run) \/ RecordBatchEvent(c, run)
    \/ \E run \in Run, status \in RunStatus : EndBatchRun(c, run, status)
    \/ GiveUp(c)

Spec == Init /\ [][Next]_vars

(***************************************************************************)
(* Properties                                                              *)
(***************************************************************************)

\* Whatever was committed between the two connections of start_batch_run(), a
\* run executes the version and body of a recipe exactly as they were approved.
RunsWereApproved ==
  \A run \in Run : Stored(run) =>
    [recipe |-> runs[run].recipe, version |-> runs[run].version, body |-> runs[run].snapshot]
      \in released

\* A version names one body among all that were ever approved, unless the
\* recipe was deleted or two updates of it overlapped (update_recipe).
VersionNamesOneBody ==
  \A x, y \in released :
    x.recipe = y.recipe /\ x.version = y.version /\ x.recipe \notin disturbed => x.body = y.body

RecipeLogTells(r) ==
  /\ recipes[r].status = "draft" <=> log[r] \in {"created", "edited"}
  /\ recipes[r].status = "approved" <=> log[r] = "approved"
  /\ recipes[r].status = "deprecated" <=> log[r] = "deprecated"

\* The last row of the recipe audit log tells the status of a recipe that
\* exists, although writers that match no row log their action too; a recipe
\* that is as initialise() seeded it is approved and has no row that says so.
\* The last batch_start or batch_end event of a run tells its status, unless a
\* caller recorded that event itself: record_batch_event() takes any type and
\* any detail.  No event is of a run that is not stored.
LogsTellStatus ==
  /\ \A r \in Recipe \ seeded : Exists(r) => RecipeLogTells(r)
  /\ \A r \in seeded : recipes[r].status = "approved"
  /\ \A run \in Run \ claimed : lifecycle[run] = IF Stored(run) THEN runs[run].status ELSE "none"
  /\ \A run \in noted : Stored(run)

\* What the docstring of start_batch_run() says of the snapshot: it is one "of
\* the current approved recipe" when the run is stored.
SnapshotIsCurrent ==
  [][\A run \in Run : ~Stored(run) /\ Stored(run)' =>
       LET new == runs'[run] IN
       recipes[new.recipe] =
         [version |-> new.version, status |-> "approved", body |-> new.snapshot]]_vars
=============================================================================
