------------------------------- MODULE CraftPage -------------------------------
(***************************************************************************)
(* The craft page of the browser UI (ui/app.js): one queue of recipes on   *)
(* the screen, one saved queue per account, and the asynchronous requests  *)
(* that end in them: the change of the account, reloads after an event of  *)
(* the server, refreshes, the run of a queue and the selection of          *)
(* materials.  Each of them reads the queues when it begins and writes     *)
(* them when it ends; nothing but the lock of the editing controls keeps   *)
(* them apart.                                                             *)
(*                                                                         *)
(* Two things the page does not guard against are followed up to the point *)
(* where they go wrong: "overlapped" is set by the step that has a queue   *)
(* counted, or edited, as another account's, and ends the behaviour;       *)
(* "strayed" says that a craft run or a refresh has outlived its view: its *)
(* rows and results come into the view of another account.                 *)
(***************************************************************************)
EXTENDS Naturals, Sequences, FiniteSets

CONSTANTS Accounts, NoAccount,
          MaxRecipes,     \* bound: recipes made in a behaviour
          MaxChanges      \* bound: changes of the view (switches, reloads, refreshes)

ASSUME CraftPageAssumption ==
    NoAccount \notin Accounts /\ MaxRecipes \in Nat /\ MaxChanges \in Nat

Recipes == 1 .. MaxRecipes

\* empty: a slot without items; filled: with ten.
Entry == [id : Recipes, state : {"empty", "filled", "done"}]
Queue == UNION {[1 .. n -> Entry] : n \in 0 .. MaxRecipes}

VARIABLES
    current,      \* state.currentAccountUsername
    live,         \* state.craftRecipeQueue
    saved,        \* craftAccountStateByAccount
    rows,         \* the account whose inventory state.rows has
    connected,    \* state.connectedUsername
    switching,    \* the account that switchAccountView is loading
    reloading,    \* accounts whose snapshot is loaded after inventory_refreshed
    refreshing,   \* the account of doRefresh, NoAccount if state.refreshing is false
    run,          \* runCraftTradeUpQueue: what it has captured; busy while it goes on
    held,         \* account -> the queue its selection run holds, <<>> if there is none
    crafted,      \* recipes the Game Coordinator has executed
    owner,        \* history: the account a recipe was made for
    wanted,       \* history: recipes the user has, or the selection has reported
    told,         \* history: recipes whose craft was reported to the page
    strayed, overlapped,
    changes       \* how many changes of the view were begun

queueVars == <<live, saved>>
viewVars == <<current, rows, connected, switching, reloading, refreshing>>
craftVars == <<run, crafted, told>>
recipeVars == <<owner, wanted>>
vars == <<queueVars, viewVars, craftVars, recipeVars, held, strayed, overlapped, changes>>

-----------------------------------------------------------------------------
NoRun == [account |-> NoAccount, todo |-> <<>>, executed |-> FALSE]

Init ==
    /\ current \in Accounts
    /\ rows = current
    /\ connected \in {current, NoAccount}
    /\ live = <<>>
    /\ saved = [a \in Accounts |-> <<>>]
    /\ switching = NoAccount /\ refreshing = NoAccount /\ reloading = {}
    /\ run = NoRun
    /\ held = [a \in Accounts |-> <<>>]
    /\ crafted = {} /\ told = {} /\ wanted = {}
    /\ owner = [i \in Recipes |-> NoAccount]
    /\ strayed = FALSE /\ overlapped = FALSE /\ changes = 0

Busy == run # NoRun                                  \* state.craftBusy

Selecting(a) == held[a] # <<>>                       \* its token is the active one

\* Mutant of Locked: a selection run does not lock the queue.
LockedUnlessSelecting == Busy \/ refreshing # NoAccount

\* isCraftRecipeEditLocked
Locked == Busy \/ refreshing # NoAccount \/ Selecting(current)

New(i) == owner[i] = NoAccount /\ \A j \in 1 .. i - 1 : owner[j] # NoAccount

\* q.filter(...): the entries of q at these places, in their order; the n-th is at the
\* place that has n - 1 of the others before it.
Filtered(q, places) ==
    [n \in 1 .. Cardinality(places) |->
        q[CHOOSE k \in places : Cardinality({j \in places : j <= k}) = n]]

\* pruneCompletedCraftRecipeEntries
Pruned(q) == Filtered(q, {k \in DOMAIN q : q[k].state # "done"})

\* What is taken out of the recipes when the rows of account r are shown: items of
\* other accounts, and those that are spent if the rows are recent enough.
Reconciled(q, r, recent) ==
    [k \in DOMAIN q |->
        IF q[k].state = "filled" /\ (owner[q[k].id] # r \/ (recent /\ q[k].id \in crafted))
        THEN [q[k] EXCEPT !.state = "empty"] ELSE q[k]]

\* renderCraftPage
Rendered(q, recent) == IF connected' = current' THEN Reconciled(q, rows', recent) ELSE q

-----------------------------------------------------------------------------
(* The account that is viewed.                                               *)

Change == changes < MaxChanges /\ changes' = changes + 1

\* Mutant of Target: the account is given the queue on the screen.
TargetOnScreen(a) == live

Target(a) == IF a = current THEN live ELSE saved[a]

\* switchAccountView up to its first await.
SwitchStart(a) ==
    /\ Change
    /\ saved' = [saved EXCEPT ![current] = live, ![a] = Target(a)]
    /\ live' = Target(a)
    /\ switching' = a
    /\ overlapped' = (switching # NoAccount)
    /\ strayed' = (strayed \/ Busy)
    /\ UNCHANGED <<current, rows, connected, reloading, refreshing, craftVars, recipeVars, held>>

\* The snapshot of account a is shown, and whether a is connected.
ShowSnapshot(a) ==
    /\ current' = a /\ rows' = a
    /\ connected' \in {a, IF connected = a THEN NoAccount ELSE connected}

\* Its snapshot was cached, or is loaded: what was saved is restored.
SwitchEnd ==
    /\ switching # NoAccount
    /\ ShowSnapshot(switching)
    /\ \E recent \in BOOLEAN : live' = Rendered(saved[switching], recent)
    /\ switching' = NoAccount
    /\ UNCHANGED <<saved, reloading, refreshing, craftVars, recipeVars, held, strayed, overlapped,
                   changes>>

\* The request fails: the target's queue stays on the screen.
SwitchFail ==
    /\ switching # NoAccount
    /\ switching' = NoAccount
    /\ overlapped' = (switching # current)
    /\ UNCHANGED <<queueVars, current, rows, connected, reloading, refreshing, craftVars,
                   recipeVars, held, strayed, changes>>

\* inventory_refreshed
ReloadStart ==
    /\ Change
    /\ reloading' = reloading \cup {current}
    /\ connected' \in {connected, current}
    /\ UNCHANGED <<queueVars, current, rows, switching, refreshing, craftVars, recipeVars, held,
                   strayed, overlapped>>

ReloadEnd(a) ==
    /\ a \in reloading
    /\ reloading' = reloading \ {a}
    /\ \/ /\ ShowSnapshot(a)
          /\ \E recent \in BOOLEAN : live' = Rendered(live, recent)
          /\ overlapped' = (a # current)
       \/ UNCHANGED <<current, rows, connected, live, overlapped>>
    /\ UNCHANGED <<saved, switching, refreshing, craftVars, recipeVars, held, strayed, changes>>

\* doRefresh: of the account viewed, or of each in turn in a batch; the queue stays.
RefreshStart(a) ==
    /\ Change
    /\ refreshing = NoAccount
    /\ refreshing' = a
    /\ current' = a
    /\ overlapped' = (a # current)
    /\ UNCHANGED <<queueVars, rows, connected, switching, reloading, craftVars, recipeVars, held,
                   strayed>>

RefreshEnd ==
    /\ refreshing # NoAccount
    /\ refreshing' = NoAccount
    /\ UNCHANGED current
    /\ \/ /\ rows' = refreshing /\ connected' = refreshing
          /\ \E recent \in BOOLEAN : live' = Rendered(live, recent)
          /\ strayed' = (strayed \/ refreshing # current)
       \/ /\ connected' = IF connected = refreshing THEN NoAccount ELSE connected
          /\ UNCHANGED <<rows, live, strayed>>
    /\ UNCHANGED <<saved, switching, reloading, craftVars, recipeVars, held, overlapped, changes>>

\* disconnectCurrentSession
Disconnect ==
    /\ refreshing = NoAccount /\ connected = current
    /\ connected' = NoAccount
    /\ UNCHANGED <<queueVars, current, rows, switching, reloading, refreshing, craftVars,
                   recipeVars, held, strayed, overlapped, changes>>

-----------------------------------------------------------------------------
(* The queue of the account that is viewed.                                  *)

\* addCurrentSelectionToCraftQueue, and filling the slot with items of the account.
AddRecipe(i) ==
    /\ ~Locked /\ New(i)
    /\ live' = Append(Pruned(live), [id |-> i, state |-> "filled"])
    /\ owner' = [owner EXCEPT ![i] = current]
    /\ wanted' = wanted \cup {i}
    /\ overlapped' = (switching # NoAccount)
    /\ UNCHANGED <<saved, viewVars, craftVars, held, strayed, changes>>

\* clearCraftQueue, or onRemove of one entry.
DropRecipes ==
    /\ ~Locked /\ live # <<>>
    /\ LET listed == {live[k].id : k \in DOMAIN live}
       IN  \E gone \in {listed} \cup {{i} : i \in listed} :
              /\ live' = Filtered(live, {k \in DOMAIN live : live[k].id \notin gone})
              /\ wanted' = wanted \ gone
    /\ overlapped' = (switching # NoAccount)
    /\ UNCHANGED <<saved, viewVars, craftVars, owner, held, strayed, changes>>

-----------------------------------------------------------------------------
(* Running the queue.                                                        *)

\* The recipes with ten items, and where they are in the queue.
Executable(q) ==
    Filtered([k \in DOMAIN q |-> [id |-> q[k].id, index |-> k]],
             {k \in DOMAIN q : q[k].state = "filled"})

\* runCraftTradeUpQueue, confirmed.  An account that is not connected is refreshed first.
StartRun ==
    /\ ~Locked /\ connected = current
    /\ \E recent \in BOOLEAN : live' = Reconciled(live, rows, recent)
    /\ Executable(live') # <<>>
    /\ run' = [account |-> current, todo |-> Executable(live'), executed |-> FALSE]
    /\ strayed' = (strayed \/ switching # NoAccount)
    /\ UNCHANGED <<saved, viewVars, crafted, told, recipeVars, held, overlapped, changes>>

\* The server has the craft of the first request executed.
Execute ==
    /\ Busy /\ ~run.executed
    /\ LET i == Head(run.todo).id
       IN  owner[i] = run.account /\ i \notin crafted /\ crafted' = crafted \cup {i}
    /\ run' = [run EXCEPT !.executed = TRUE]
    /\ UNCHANGED <<queueVars, viewVars, told, recipeVars, held, strayed, overlapped, changes>>

\* applyCraftStepResultsToQueue: to what is on the screen now.
Marked(q, k) == IF k \in DOMAIN q THEN [q EXCEPT ![k].state = "done"] ELSE q

\* The reply: its rows, its result; then the next request, or the end, also for a pause.
RunReply ==
    /\ Busy /\ run.executed
    /\ UNCHANGED <<current, connected>>
    /\ rows' = run.account
    /\ live' = Marked(Rendered(live, TRUE), Head(run.todo).index)
    /\ told' = told \cup {Head(run.todo).id}
    /\ \/ run' = NoRun
       \/ Len(run.todo) > 1 /\ run' = [run EXCEPT !.todo = Tail(@), !.executed = FALSE]
    /\ UNCHANGED <<saved, switching, reloading, refreshing, crafted, recipeVars, held, strayed,
                   overlapped, changes>>

\* The request fails, or its reply is lost: executed or not, the run ends.  The failure
\* may bring rows.
RunFail ==
    /\ Busy
    /\ run' = NoRun
    /\ UNCHANGED <<current, connected>>
    /\ \/ rows' = run.account /\ \E recent \in BOOLEAN : live' = Rendered(live, recent)
       \/ UNCHANGED <<rows, live>>
    /\ UNCHANGED <<saved, switching, reloading, refreshing, crafted, told, recipeVars, held,
                   strayed, overlapped, changes>>

-----------------------------------------------------------------------------
(* Selection of materials (applyCraftAssistAutoSelection).                   *)

\* createEmptyCraftRecipeEntryInState: in the copy that is also what is saved.
Begun(q, i) == Append(Pruned(q), [id |-> i, state |-> "empty"])

\* Mutant of MayAssist: also while recipes are executed.
MayAssistAlways == refreshing = NoAccount

MayAssist == ~Busy /\ refreshing = NoAccount

StartAssist(i) ==
    /\ MayAssist /\ ~Selecting(current) /\ New(i)
    /\ held' = [held EXCEPT ![current] = Begun(live, i)]
    /\ saved' = [saved EXCEPT ![current] = Begun(live, i)]
    /\ owner' = [owner EXCEPT ![i] = current]
    /\ overlapped' = (switching # NoAccount)
    /\ UNCHANGED <<live, viewVars, craftVars, wanted, strayed, changes>>

\* Mutant of Result: the recipe is added once more.
ResultAdded(q, ok) == IF ok THEN Append(q, [q[Len(q)] EXCEPT !.state = "filled"])
                      ELSE SubSeq(q, 1, Len(q) - 1)

\* The slot is filled, or taken away after a failure or 60 s.
Result(q, ok) == IF ok THEN [q EXCEPT ![Len(q)].state = "filled"] ELSE SubSeq(q, 1, Len(q) - 1)

\* The copy is committed; a batch of selections goes on with the same account, viewed or
\* not (applyCraftAssistAutoSelectionBatch).
EndAssist(a, ok) ==
    /\ Selecting(a)
    /\ UNCHANGED <<viewVars, craftVars, strayed, overlapped, changes>>
    /\ wanted' = IF ok THEN wanted \cup {held[a][Len(held[a])].id} ELSE wanted
    /\ \E recent \in BOOLEAN :
          LET q == IF a = current THEN Rendered(Result(held[a], ok), recent)
                   ELSE Result(held[a], ok)
          IN  /\ live' = IF a = current THEN q ELSE live
              /\ \/ /\ saved' = [saved EXCEPT ![a] = q]
                    /\ held' = [held EXCEPT ![a] = <<>>]
                    /\ UNCHANGED owner
                 \/ /\ ok /\ MayAssist /\ (a = current \/ ~Selecting(current))
                    /\ \E i \in Recipes :
                          /\ New(i)
                          /\ saved' = [saved EXCEPT ![a] = Begun(q, i)]
                          /\ held' = [held EXCEPT ![a] = Begun(q, i)]
                          /\ owner' = [owner EXCEPT ![i] = a]

Next ==
    /\ ~overlapped
    /\ \/ \E a \in Accounts :
             \/ SwitchStart(a) \/ ReloadEnd(a) \/ RefreshStart(a)
             \/ \E ok \in BOOLEAN : EndAssist(a, ok)
       \/ SwitchEnd \/ SwitchFail \/ ReloadStart \/ RefreshEnd \/ Disconnect
       \/ \E i \in Recipes : AddRecipe(i) \/ StartAssist(i)
       \/ DropRecipes
       \/ StartRun \/ Execute \/ RunReply \/ RunFail

Spec == Init /\ [][Next]_vars

-----------------------------------------------------------------------------
OneEach(q) == \A j, k \in DOMAIN q : q[j].id = q[k].id => j = k

TypeOK ==
    /\ {current, rows} \subseteq Accounts
    /\ {connected, switching, refreshing, run.account} \subseteq Accounts \cup {NoAccount}
    /\ reloading \subseteq Accounts
    /\ {live} \cup {saved[a] : a \in Accounts} \cup {held[a] : a \in Accounts} \subseteq Queue
    /\ run.todo \in Seq([id : Recipes, index : 1 .. MaxRecipes]) /\ run.executed \in BOOLEAN
    /\ owner \in [Recipes -> Accounts \cup {NoAccount}]
    /\ {crafted, wanted, told} \subseteq SUBSET Recipes
    /\ {strayed, overlapped} \subseteq BOOLEAN /\ changes \in 0 .. MaxChanges
    /\ OneEach(live) /\ \A a \in Accounts : OneEach(saved[a])

\* Where the queue of an account is: on the screen, or saved.
QueueOf(a) == IF a = current /\ switching = NoAccount THEN live ELSE saved[a]

Filled(a) == {QueueOf(a)[k].id : k \in {j \in DOMAIN QueueOf(a) : QueueOf(a)[j].state = "filled"}}

Done(a) == {QueueOf(a)[k].id : k \in {j \in DOMAIN QueueOf(a) : QueueOf(a)[j].state = "done"}}

\* An account's queue has no recipe of another account, nor one the user has removed:
\* whatever copies the selection runs hold, and also after a craft run that strayed
\* (switchAccountView, commitCraftAccountScopedState).
QueuesOwn ==
    ~overlapped => \A a \in Accounts : \A i \in Filled(a) : owner[i] = a /\ i \in wanted

\* No recipe is lost: until it is crafted or removed by the user it is in its account's
\* queue, with its items, although a selection run for the account that ends later
\* puts its own copy there, and rows of other accounts come in.
RecipesKept ==
    ~overlapped /\ ~strayed => \A i \in wanted \ crafted : i \in Filled(owner[i])

\* The results of a craft run are entered at the right recipes: done is what the run was
\* told of, and what it was told of is not offered for execution again
\* (pendingIndexes, which are positions in a queue that changes).
DoneTrue ==
    ~overlapped /\ ~strayed =>
        \A a \in Accounts : /\ Done(a) \subseteq {i \in told : owner[i] = a}
                            /\ Filled(a) \cap told = {}
===============================================================================
