------------------------------ MODULE Preparation ------------------------------
(***************************************************************************)
(* services/craftTradeupWithComponentsService.js: before recipes are       *)
(* crafted, those of their items that are in storage units are withdrawn,  *)
(* by one job of ComponentMoves for each unit, and the recipes are sorted  *)
(* into those that are ready, failed or pending.  Between its jobs the     *)
(* account lock is free: the user's own jobs compete for it.               *)
(*                                                                         *)
(* A recipe is the list of its items, of which there may be fewer than the *)
(* ten of the code.  An account has one preparation at a time              *)
(* (CraftOperations); a behaviour has one.                                 *)
(***************************************************************************)
EXTENDS ComponentMoves

VARIABLE prep     \* runTradeUpWithComponents

allVars == <<vars, prep>>

Rows == [Items -> Places \cup {"none"}]       \* rowMap: the casket_id of an item's row

\* normalizeRecipes: no item twice.  Bound: not more items than jobs may have.
Orders ==
    {rs \in SUBSET Requested :
        /\ rs # {}
        /\ \A r, s \in rs : r # s => ToSet(r) \cap ToSet(s) = {}
        /\ Cardinality(UNION {ToSet(r) : r \in rs}) <= MaxItems}

Prep == [phase : {"none", "between", "moving", "over"},
         recipes : Orders \cup {{}},
         rows : Rows,
         groups : [Caskets -> SUBSET Items],    \* componentGroups that are still to come
         failures : SUBSET Items,               \* itemFailureMap
         paused : BOOLEAN,
         ready : SUBSET Requested,              \* readyRecipes
         timely : BOOLEAN]                      \* history: no other job since rows were read

NoGroups == [c \in Caskets |-> {}]

PrepInit ==
    /\ Init
    /\ prep = [phase |-> "none", recipes |-> {}, rows |-> [i \in Items |-> "none"],
               groups |-> NoGroups, failures |-> {}, paused |-> FALSE, ready |-> {},
               timely |-> FALSE]

-----------------------------------------------------------------------------
\* buildRowMap: an item that is listed twice has the row that comes first.
RowMaps(lists) ==
    {rows \in Rows :
        \A i \in Items : IF lists[i] = {} THEN rows[i] = "none" ELSE rows[i] \in lists[i]}

\* Where in the recipe the rows have something else than an item of the main inventory.
Lacking(p, r) == {k \in DOMAIN r : p.rows[r[k]] # "main"}

\* Mutant of Ready: the moves have reported no failure.
ReadyUnlessFailed(p, r) == ToSet(r) \cap p.failures = {}

\* Nothing is lacking; else the first such item decides: it has failed, or waits for the
\* continuation of a paused preparation; but if nothing of the recipe is in a casket,
\* there is nothing to wait for, and it counts as ready.
Ready(p, r) ==
    \/ Lacking(p, r) = {}
    \/ /\ p.paused
       /\ r[Min(Lacking(p, r))] \notin p.failures
       /\ \A k \in DOMAIN r : p.rows[r[k]] \notin Caskets

Sorted(p) == [p EXCEPT !.phase = "over", !.ready = {r \in p.recipes : Ready(p, r)}]

\* On to the next casket, unless there is none or a pause is asked for: then the recipes
\* are sorted.
Continued(p) ==
    IF p.groups = NoGroups \/ p.paused THEN {Sorted(p)}
    ELSE {[p EXCEPT !.phase = "between"], Sorted([p EXCEPT !.paused = TRUE])}

\* The snapshot is read (there must be one), and must show enough places in the main inventory.
Prepare(recipes) ==
    /\ prep.phase = "none" /\ saved
    /\ \E rows \in RowMaps(snapshot) :
          LET items == UNION {ToSet(r) : r \in recipes}
              groups == [c \in Caskets |-> {i \in items : rows[i] = c}]
              needed == Cardinality({i \in items : rows[i] \in Caskets})
          IN  /\ needed <= Free(MainCapacity, Cardinality(In(rows, "main")))
              /\ asked + needed <= MaxItems       \* bound
              /\ prep' \in Continued([prep EXCEPT !.recipes = recipes, !.rows = rows,
                                                  !.groups = groups, !.timely = job = Idle])
    /\ UNCHANGED vars

\* runMove for one casket, in the order of their ids, once it has the account lock.
WithdrawGroup(c) ==
    /\ prep.phase = "between" /\ prep.groups[c] # {}
    /\ job = Idle
    /\ \E items \in Requested :
          ToSet(items) = prep.groups[c] /\ BeginWithdraw(c, items)
    /\ prep' = [prep EXCEPT !.phase = "moving", !.groups[c] = {}]

\* runMove throws: there is no session, or the casket cannot be loaded.
GroupFails(c) ==
    /\ prep.phase = "between" /\ prep.groups[c] # {}
    /\ job = Idle
    /\ prep' \in Continued([prep EXCEPT !.failures = @ \cup prep.groups[c], !.groups[c] = {}])
    /\ UNCHANGED vars

\* The end of the job of this casket: its rows and what has failed; a pause inside the
\* job has left items of it.
GroupEnds ==
    /\ prep.phase = "moving"
    /\ EndMove
    /\ \E rows \in RowMaps(snapshot') :
          prep' \in Continued([prep EXCEPT !.rows = rows, !.failures = @ \cup job.failed,
                                            !.paused = Processed < Len(job.items),
                                            !.timely = TRUE])

\* Everything else: the Game Coordinator, the jobs of the user, the job under way.
\* Bound: not after the preparation.
Others ==
    /\ prep.phase # "over"
    /\ Next
    /\ prep.phase = "moving" => job' # Idle
    /\ prep' = IF prep.phase = "between" /\ job = Idle /\ job' # Idle
               THEN [prep EXCEPT !.timely = FALSE] ELSE prep

PrepNext ==
    \/ \E recipes \in Orders : Prepare(recipes)
    \/ \E c \in Caskets : WithdrawGroup(c) \/ GroupFails(c)
    \/ GroupEnds
    \/ Others

PrepSpec == PrepInit /\ [][PrepNext]_allVars

-----------------------------------------------------------------------------
PrepTypeOK == TypeOK /\ prep \in Prep

\* A recipe that is handed on to be crafted has all its items in the main inventory,
\* although they come from several units by jobs that may fail or pause half-way and
\* between which others run (runTradeUpWithComponents): unless another job ran after
\* the last of its own, or an item was moved by others.  After a pause a recipe whose
\* item has vanished counts as ready.
ReadyInMain ==
    [][prep.phase # "over" /\ prep'.phase = "over" /\ prep'.timely =>
          \A r \in prep'.ready : \A i \in ToSet(r) :
             \/ place'[i] = "main" \/ i \in unsure'
             \/ prep'.paused /\ prep'.rows[i] = "none"]_allVars
===============================================================================
