------------------------------ MODULE CraftBatch ------------------------------
(***************************************************************************)
(* services/craftService.js: the batches of trade-ups of one account, run  *)
(* against its one Game Coordinator (GC) session.  A recipe is ten items   *)
(* that the GC spends together or not at all, so one item stands for the   *)
(* ten; what the recipe makes is named after it.                           *)
(*                                                                         *)
(* The service has a lock per account (accountLocks), but the session is   *)
(* shared with the storage-unit operations, whose lock is another one, and *)
(* with Steam itself: rows that were read before a wait may be stale after *)
(* it.  craftingComplete says what was made but not of which request, and  *)
(* an answer may come after its wait timed out.                            *)
(***************************************************************************)
EXTENDS Naturals, Sequences, FiniteSets

CONSTANTS Items,        \* recipes, each by the items it spends
          MaxBatches,   \* bound: calls of runTradeUpBatch in a behaviour
          MaxRecipes    \* bound: recipes of one batch (MAX_RECIPE_COUNT in the code)

ASSUME CraftBatchAssumption == MaxBatches \in Nat /\ MaxRecipes \in Nat \ {0}

Batches == 1 .. MaxBatches   \* numbered in the order in which they ask for the lock

VARIABLES
    gc,         \* item -> where the GC has it
    inventory,  \* item -> where csgo.inventory, the session's copy, has it
    products,   \* recipes whose product csgo.inventory has
    sent,       \* craft requests on their way: <<batch, item>>
    answers,    \* craftingComplete on its way: [item, ok]; nothing names the request
    accountLock,\* the chain of accountLocks: its head runs, the others wait
    batches,    \* batch -> its progress
    snapshot,   \* main-inventory items of the account's saved snapshot
    pauses,     \* batches whose shouldPause() returns true
    timedOut,   \* history: some craftingComplete wait has timed out
    spentBy     \* history: item -> the batch whose request spent it, or 0

gcVars == <<gc, inventory, products, sent, answers, spentBy>>
batchVars == <<accountLock, batches, snapshot, pauses, timedOut>>
vars == <<gcVars, batchVars>>

-----------------------------------------------------------------------------
Places == {"main", "casket", "spent"}

Recipes == UNION {{s \in [1 .. n -> Items] : \A i, j \in 1 .. n : s[i] = s[j] => i = j} :
                    n \in 1 .. MaxRecipes}

Step == [item : Items, gained : Items, settled : BOOLEAN]

Ended == {"done", "failed", "paused"}

Batch == [phase : {"idle", "locked", "crafting", "settling"} \cup Ended,
          recipes : Recipes \cup {<<>>},     \* normalizeRecipeRequests: no item twice
          rows : SUBSET Items,               \* main-inventory rows in memory
          steps : Seq(Step),
          gained : Items \cup {"none"}]      \* craftResult.gained_ids

Main == {i \in Items : inventory[i] = "main"}

Init ==
    /\ gc = [i \in Items |-> "main"]
    /\ inventory = gc
    /\ products = {}
    /\ sent = {}
    /\ answers = {}
    /\ accountLock = <<>>
    /\ batches = [b \in Batches |-> [phase |-> "idle", recipes |-> <<>>, rows |-> {},
                                     steps |-> <<>>, gained |-> "none"]]
    /\ snapshot = Items
    /\ pauses = {}
    /\ timedOut = FALSE
    /\ spentBy = [i \in Items |-> 0]

-----------------------------------------------------------------------------
(* The GC and the session's copy of the inventory (external).               *)

\* The user, or a storage-unit operation under its own lock, moves an item.
MoveItem(i) ==
    /\ gc[i] # "spent"
    /\ gc' = [gc EXCEPT ![i] = IF @ = "main" THEN "casket" ELSE "main"]
    /\ UNCHANGED <<inventory, products, sent, answers, spentBy, batchVars>>

\* A craft request reaches the GC, which spends the items or refuses
\* (blueprint -1); its answer may get lost.
GcCraft(b, i) ==
    /\ <<b, i>> \in sent
    /\ sent' = sent \ {<<b, i>>}
    /\ gc' = [gc EXCEPT ![i] = IF @ = "main" THEN "spent" ELSE @]
    /\ answers' \in {answers, answers \cup {[item |-> i, ok |-> gc[i] = "main"]}}
    /\ spentBy' = [spentBy EXCEPT ![i] = IF gc[i] = "main" THEN b ELSE @]
    /\ UNCHANGED <<inventory, products, batchVars>>

\* Inventory updates of the GC arrive apart from its answers, in any order.
SyncItem(i) ==
    /\ inventory[i] # gc[i]
    /\ inventory' = [inventory EXCEPT ![i] = gc[i]]
    /\ UNCHANGED <<gc, products, sent, answers, spentBy, batchVars>>

SyncProduct(i) ==
    /\ gc[i] = "spent"
    /\ i \notin products
    /\ products' = products \cup {i}
    /\ UNCHANGED <<gc, inventory, sent, answers, spentBy, batchVars>>

Gc == \/ \E i \in Items : MoveItem(i) \/ SyncItem(i) \/ SyncProduct(i)
      \/ \E b \in Batches, i \in Items : GcCraft(b, i)

-----------------------------------------------------------------------------
(* runTradeUpBatch.  Every await is a GC round trip or a timer; what runs    *)
(* between two of them is one action, which goes on to the next recipe.      *)

\* acquireContext has answered; withAccountLock queues the task.
Enqueue(b, recipes) ==
    /\ batches[b].phase = "idle"
    /\ \A c \in 1 .. b - 1 : batches[c].phase # "idle"
    /\ batches' = [batches EXCEPT ![b].phase = "locked", ![b].recipes = recipes]
    /\ accountLock' = Append(accountLock, b)
    /\ UNCHANGED <<gcVars, snapshot, pauses, timedOut>>

\* Mutant of Released: a failed batch keeps the lock.
KeptOnFailure(phase) == IF phase = "failed" THEN accountLock ELSE Tail(accountLock)

Released(phase) == Tail(accountLock)

\* The batch ends: rows saved as the account's snapshot (not when its first
\* recipe is a bad request), lock handed on, whatever the outcome.
End(b, phase, rows, steps, saves) ==
    /\ batches' = [batches EXCEPT ![b].phase = phase, ![b].rows = rows, ![b].steps = steps]
    /\ snapshot' = IF saves THEN rows ELSE snapshot
    /\ accountLock' = Released(phase)
    /\ UNCHANGED <<gcVars, pauses>>

\* craft(): listener installed, request sent.
Submit(b, i, rows, steps) ==
    /\ batches' = [batches EXCEPT ![b].phase = "crafting", ![b].rows = rows,
                                  ![b].steps = steps]
    /\ sent' = sent \cup {<<b, i>>}
    /\ UNCHANGED <<gc, inventory, products, answers, spentBy, accountLock, snapshot, pauses>>

\* The head of the loop, reached with these rows and steps.
Proceed(b, rows, steps) ==
    LET recipes == batches[b].recipes
        next == Len(steps) + 1
    IN  IF next > Len(recipes) THEN End(b, "done", rows, steps, TRUE)
        ELSE IF b \in pauses THEN End(b, "paused", rows, steps, TRUE)
        ELSE \/ /\ recipes[next] \in rows
                /\ Submit(b, recipes[next], rows, steps)
             \* an item is missing, in a storage unit, or barred by resolveTradeUpRecipe,
             \* or else craft() itself throws
             \/ \E saves \in {steps # <<>>, TRUE} : End(b, "failed", rows, steps, saves)

\* Mutant of HasLock: the batch before is not waited for.
LocksInVain(b) == TRUE

HasLock(b) == Head(accountLock) = b

\* The lock is ours: the rows are read and the first recipe begins.
Begin(b) ==
    /\ batches[b].phase = "locked"
    /\ HasLock(b)
    /\ Proceed(b, Main, <<>>)
    /\ UNCHANGED timedOut

\* Mutant of Crafted: blueprint -1 is not looked at.
AnyBlueprint(a) == TRUE

Crafted(a) == a.ok

GainedBy(a) == a.item

\* onCraftingComplete, and what follows it: with blueprint -1 the batch fails,
\* else it waits for the inventory to settle.
Complete(b, a) ==
    /\ batches[b].phase = "crafting"
    /\ a \in answers
    /\ answers' = answers \ {a}
    /\ IF Crafted(a)
       THEN /\ batches' = [batches EXCEPT ![b].phase = "settling", ![b].gained = GainedBy(a)]
            /\ UNCHANGED <<snapshot, accountLock>>
       ELSE /\ batches' = [batches EXCEPT ![b].phase = "failed"]
            /\ snapshot' = batches[b].rows
            /\ accountLock' = Released("failed")
    /\ UNCHANGED <<gc, inventory, products, sent, spentBy, pauses, timedOut>>

\* No listener: the answer to a request whose wait is over is not heard.
Unheard(a) ==
    /\ a \in answers
    /\ \A b \in Batches : batches[b].phase # "crafting"
    /\ answers' = answers \ {a}
    /\ UNCHANGED <<gc, inventory, products, sent, spentBy, batchVars>>

\* 35 s without craftingComplete.
CraftTimeout(b) ==
    /\ batches[b].phase = "crafting"
    /\ End(b, "failed", batches[b].rows, batches[b].steps, TRUE)
    /\ timedOut' = TRUE

Settled(b) ==
    LET i == batches[b].recipes[Len(batches[b].steps) + 1]
    IN  inventory[i] = "spent" /\ batches[b].gained \in products

\* Mutant of RowsAfter: the rows are not read again.
RowsBefore(b) == batches[b].rows

RowsAfter(b) == Main

\* A poll of waitRowsSettledAfterCraft that ends it: settled, or 12 s over.
Settle(b) ==
    /\ batches[b].phase = "settling"
    /\ LET i == batches[b].recipes[Len(batches[b].steps) + 1]
           step == [item |-> i, gained |-> batches[b].gained, settled |-> Settled(b)]
       IN  Proceed(b, RowsAfter(b), Append(batches[b].steps, step))
    /\ UNCHANGED timedOut

\* POST /api/craft/pause during a run of the component route.
Pause(b) ==
    /\ batches[b].phase \in {"locked", "crafting", "settling"}
    /\ pauses' = pauses \cup {b}
    /\ UNCHANGED <<gcVars, accountLock, batches, snapshot, timedOut>>

Advance(b) ==
    \/ Begin(b)
    \/ \E a \in answers : Complete(b, a)
    \/ CraftTimeout(b)
    \/ Settle(b)

Next ==
    \/ Gc
    \/ \E b \in Batches, recipes \in Recipes : Enqueue(b, recipes)
    \/ \E b \in Batches : Advance(b) \/ Pause(b)
    \/ \E a \in answers : Unheard(a)

\* Each wait of a batch has a timeout, whatever the GC does.
Fairness == \A b \in Batches : WF_vars(Advance(b))

Spec == Init /\ [][Next]_vars /\ Fairness

-----------------------------------------------------------------------------
TypeOK ==
    /\ gc \in [Items -> Places]
    /\ inventory \in [Items -> Places]
    /\ products \subseteq Items
    /\ sent \subseteq Batches \X Items
    /\ answers \subseteq [item : Items, ok : BOOLEAN]
    /\ accountLock \in Seq(Batches)
    /\ batches \in [Batches -> Batch]
    /\ snapshot \subseteq Items
    /\ pauses \subseteq Batches
    /\ timedOut \in BOOLEAN
    /\ spentBy \in [Items -> {0} \cup Batches]

Completed(b) == {batches[b].steps[k] : k \in DOMAIN batches[b].steps}

\* What a batch reports is what the GC did.  As long as no wait has timed out, a step
\* is reported as completed only if the GC spent its items, with the product of that
\* very craft, although craftingComplete names no request (waitCraftingComplete).
\* And whatever a batch made the GC spend is one of its completed steps, the recipe it
\* has in hand or the one it failed at (failed_step), even when the GC gets to it
\* only after the wait has timed out and other batches have run.
ReportTrue ==
    /\ ~timedOut => \A b \in Batches : \A step \in Completed(b) :
                       gc[step.item] = "spent" /\ step.gained = step.item
    /\ \A i \in Items, b \in Batches : spentBy[i] = b =>
          \/ \E step \in Completed(b) : step.item = i
          \/ /\ Len(batches[b].steps) < Len(batches[b].recipes)
             /\ batches[b].recipes[Len(batches[b].steps) + 1] = i
             /\ batches[b].phase \in {"crafting", "settling", "failed"}

\* The saved snapshot never again lists an item that an ended batch reported as
\* spent and settled, whichever batch saved last (saveRowsSnapshot).
SnapshotKnowsSettled ==
    \A b \in Batches : batches[b].phase \in Ended =>
        \A step \in Completed(b) : step.settled => step.item \notin snapshot

\* No two batches of the account craft at a time, however their waits end; whoever
\* waits for the lock is in its chain, and at the head of the chain is a batch that
\* goes on: nobody waits for one that has ended (withAccountLock).
LockGuards ==
    /\ \A b, c \in Batches :
          {batches[b].phase, batches[c].phase} \subseteq {"crafting", "settling"} => b = c
    /\ \A b \in Batches :
          batches[b].phase = "locked" => \E k \in DOMAIN accountLock : accountLock[k] = b
    /\ accountLock # <<>> =>
          batches[Head(accountLock)].phase \in {"locked", "crafting", "settling"}

\* Once queued, a batch ends: the lock is handed on after every outcome.
BatchEnds ==
    \A b \in Batches : batches[b].phase = "locked" ~> batches[b].phase \in Ended

\* services/craftService.js:614 says of the snapshot saved on failure that the
\* front end can reconcile with it at once: it lists no item that the session
\* already knows to be spent.
FailureSnapshotReconciles ==
    [][\A b \in Batches :
          batches[b].phase = "crafting" /\ batches'[b].phase = "failed"
          => \A i \in snapshot' : inventory[i] # "spent"]_vars
===============================================================================
