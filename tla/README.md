# cs2_alchemy: a verification project

cs2_alchemy is a desktop tool for Counter-Strike 2 inventories. An Electron shell starts a Node.js
process (`node_sidecar/src/uiServer.js`) that serves a browser UI over HTTP, keeps Steam sessions for
several accounts, moves items between an account's inventory and its storage units ("components"),
executes trade-ups ("craft", "alchemy"), and searches for good ones in worker threads. A second program,
`admin_console` (the control plane), keeps users and signs their licenses. This directory holds TLA+ models of the parts that are hard to get
right, the TLC runs that check them, and TLAPS proofs, for every size of the instance, of all their safety
properties. A trade-up destroys its inputs, so *executed twice* or *reported wrongly* are the failures
that matter most; *a request that is never answered* comes next.

All of the modelled code is single-threaded JavaScript, in three programs (UI server, control plane, browser page) and a process for each
enrolment of an authenticator: what
runs between two `await`s is atomic, and everything below is about what other callbacks do at an `await`, and what
becomes of the messages between the programs. The craft-assist search threads are the exception, and they talk to
the main thread by messages only.

## Inventory

Paths are relative to `src/node_sidecar/src/` unless they say otherwise.

| Part | State | Operations | What is hard |
|---|---|---|---|
| **Craft operations** (`uiServer.js` 655-763 and the craft routes) | `activeCraftRuns` (account to run), `craftOperationRecords` (operation id to promise and completion time) | execute, execute with components, pause; prune | repeated requests, pruning while runs overlap, pause during a run, every outcome must release the account and answer all who joined |
| **Craft batch** (`services/craftService.js`) | `accountLocks` (chained promises), the rows of the batch, its steps, the snapshot on disk | `runTradeUpBatch` | `craftingComplete` does not name its request; it may come late or not at all; inventory events lag; the user's other Steam clients move items; failure in the middle |
| **Craft with components** (`services/craftTradeupWithComponentsService.js`) | progress of a preparation | withdraw the inputs, sort the recipes, craft | two pause points, partly moved inputs, the user's jobs between its own |
| **Session pool** (`services/sessionPool.js`) | `entries`: account to session or to the promise of one | `acquire`, `touch`, `invalidate`, `shutdown` | drops while a connect is under way, events of former sessions |
| **Token recovery** (`tokenRecoveryService.js`), **token store** (`tokenStore.js`) | `recoveries` (single flight), the refresh token on disk | `recoverToken`, `withTokenRecovery`, `invalidateAuthentication` | a token is rejected while another connect, a renewal or a sign-in replaces it |
| **Steam session** (`cs2Session.js`), **sign-in** (`authService.js`) | the Steam client, `pendingSessions` | connect, disconnect; start, submit code | time-outs, Guard codes, events after the end |
| **Component moves** (`services/componentOpsService.js`) | rows, its own `accountLocks` | `runMove` (in, out, transfer) | uncorrelated casket notifications, two halves of a transfer, capacity, merging with the last snapshot |
| **Component task queue** (`services/componentTaskQueue.js`) | one FIFO for all accounts, one active task | enqueue, cancel, cancelByUsername | cancel against start; a task of a deleted account goes on |
| **Refresh runtime** (`services/refreshRuntime.js`, `refreshWorkflow.js`) | jobs, `connectedAccounts`, the post-refresh queue, the heartbeat | refresh, tick, remove | disconnect or delete during a refresh is undone by its end |
| **Craft assist worker pool** (`services/craftAssistWorkerPool.js`) | queue, slots, worker threads | `selectForRecipe`, `close` | crash, time-out and late messages of terminated workers; retries; idle slots |
| **License client** (`licenseScheduler.js`, `licenseStore.js`, `licenseEnforcer.js`, routes of `uiServer.js`) | the license bundle, the promise of a refresh, a generation | tick, sign in, sign out, redeem, clear | answers that come after something else has changed the bundle; lost replies; restarts |
| **Control plane** (`src/admin_console/src/controlPlaneStore.js`, `server.js`) | users, devices, refresh sessions, activation codes | sign-in, refresh, redeem, logout, status, revocation | one-time refresh tokens, reuse taken for theft, locking out a client nobody can reach |
| **Craft page** (`src/node_sidecar/ui/app.js`) | the queue of recipes on the screen, one saved per account, the account viewed | change the account, edit, run the queue, select materials, refresh | asynchronous ends that write queues read long before |
| **Steam Guard enrolment** (`steamGuardCoexistService.js`, `steamGuardCoexistProcessAdapter.js`, `steamGuardCoexistWorker.js`, `steamGuardCoexistWorkerCore.js`, routes of `uiServer.js` 5625-5718) | flows and cooldowns of the service, entries and pending requests of the adapter, the flow of the forked process, the maFile in the database | start, submit an e-mail code, verify an app code, cancel | three layers with a state each; a time-out, an exit or a cancellation while a command or a result is on its way; the account changes meanwhile |
| Search, trade-up rules, skin database, inventory parsing, web requests, stores, tracing, UI | | | pure computation, I/O or presentation |

How they interact: the craft routes register a run and call the craft service (or the preparation, which
calls component moves and then the craft service); both `acquire` the account's session from the pool;
the pool's connects go through the token recovery, which in turn calls `invalidate` of the pool; refresh
jobs, the heartbeat, web operations and the sign-in, disconnect and delete routes use the pool and the
token store at any time. The craft-assist routes use the worker pool, which shares no state with the rest. The craft page sends the requests that all of these answer; the
license client talks to the control plane and gates the routes of the UI server.

What makes each part correct:

* craft operations: an account has one run at a time; a repeat of an operation joins its run or replays its
  result and never executes it again while its record is due; every request is answered;
* craft batch: what the result and the snapshot say of each recipe is what happened to it; the account lock
  is passed on after every outcome;
* session pool and tokens: no dead session is handed out, one recovery login at a time, a good token is not
  removed for a bad one, every `acquire` is answered;
* worker pool: each request gets exactly one answer and a bounded number of executions;
* Steam Guard enrolment: service, adapter and process agree on each flow however it ends, success is answered
  when the maFile was saved and not otherwise, and every request is answered;
* component moves: what is reported as moved is moved; the snapshot lists every item once and where it is, unless the rows of its casket could not be had;
  no place is asked for in a full casket, nor by a withdrawal in a full main inventory;
* preparation: a recipe that is handed on has all its items in the main inventory;
* account runtime: an account the user has disconnected or deleted is not connected again unless a job was under
  way for it, its tasks do not stay in the queue, the newest result is processed, and neither the heartbeat nor
  the task queue comes to a stop;
* license: a sign-in has one usable token, the client's is not one it has used up, a late answer undoes nothing, and a lock-out takes effect
  within the life of a snapshot;
* craft page: each account keeps its own recipes, none is lost or comes back, and a result is entered at the recipe that was crafted.

## Modules and how they correspond to the code

Each definition's source lines are in the `map` of `PROJECT.json`.

**`CraftOperations`** — the operation layer. One action per outcome of a craft request
(`RejectConflict`, `JoinExisting`, `RejectBusy`, `StartRun`), each of which prunes first as the code does;
`RequestPause`; and the steps of a run (`BeginStep`, `FinishStep`, `FailRun`, `PauseRun`). `EndRun`
releases the account, completes the record and answers all who wait in one step, since these run in one
turn of the event loop. A run has an abstract number of steps; the two routes differ in whether
the controller's pause is looked at (`Pausable`). The clock is an integer that ticks. `MCCraftOperations`
adds symmetry. The theorems about a module `M` are in `M_proofs`; those about `ComponentMoves` are in `Preparation_proofs`, those about `SessionPool` in
`AccountRuntime_proofs`, which extends both modules: their variables are apart, and where both have a definition of one name, that of `SessionPool` has the prefix `Pool`.

**`CraftBatch`** — `runTradeUpBatch` for one account. The Game Coordinator (GC) is explicit: what it knows
(`gc`), what the session has been told (`inventory`, `products`), requests on their way (`sent`) and
`craftingComplete` events not yet delivered (`answers`), which carry no request. It may execute a request at any
time or never, refuse it, and tell the session of spent and gained items before or after its answer; the user may move
items with another client. A batch takes the lock, reads its rows, checks for a pause and for missing
items before each recipe, crafts, waits (35 s), waits for its rows to settle (12 s) and saves its rows. One
item stands for the ten of a recipe: the service treats them together, they are all there or the recipe is
refused.

**`SessionPool`** — one account's pool entry, its *flights* (a flight is one connect with the session that
comes of it), the recovery in flight and the stored token. The key fact of the code is that the pool sets
its entry after the connect without looking at it again and drops it by account name: an entry can be dropped while its flight goes on. All writers of the stored token are
actions: recovery, renewal by Steam, sign-in, invalidation by the sign-in and web routes, a refresh without a maFile, deletion.

**`WorkerPool`** — slots, queue and worker threads as the main thread sees them. `Dispatch` is the
loop over idle slots and is part of each handler that calls it. Worker threads are separate from slots so that a terminated worker's
result, error or exit can arrive when its slot has a new one. **`TaskService`** is the abstract specification: tasks,
how often each was begun, and what a caller may rely on. `WorkerPool` implements it under the mapping at
its end (`PoolService`), and so does the component task queue (`QueueService` of `AccountRuntime`).

**`AccountRuntime`** — connected accounts, refresh jobs, the tasks after a refresh, the heartbeat and the component
task queue, with the routes that refresh, disconnect and delete accounts. A refresh has two phases, since the account counts as
connected before its payload is built. What a promise chain does when one of its members ends is part of the action that ends it:
the heartbeat's next refresh (`HeartbeatGoes`), the next task (`RunNext`). Which targets the heartbeat passes over because they were
refreshed lately is open. The history variable `wanted` holds the accounts the user asked for since they were last dropped, and those
that were dropped while a refresh or a tick was under way for them: the code lets these connect again.

**`ComponentMoves`** — `runMove` for one account and the GC's caskets. What the GC has (`place`) is apart from what the session has loaded or
been told (`view`, `counter`) and from the saved `snapshot`. A wait ends by a poll, by *any* success notification of its kind, or
by a time-out after which its request may still be executed; a transfer is two such waits. Jobs load what they can, and the snapshot merges
the rows they touched with the last one, or, while none has been `saved`, is made of all rows. The history variables `stray` (a wait ended before its request or notification was through),
`unsure` (items moved outside a wait for them, or saved from a row the GC had changed) and `uncounted` (caskets that gained an item outside a wait, or could not be loaded again at the end of a job, and whose counter does not show
all of it yet) name the disturbances the code cannot see; the properties say that nothing else goes wrong. `unlisted` has the items of which the session had no row when they were last
saved, their casket not being loaded: the snapshot leaves these out, and no others. Items that are hidden or cooling, which take no place in the main inventory, are not modelled.

**`Preparation`** extends it by the preparation of recipes with components: one job for each casket, between which the account lock is free for
the user's own jobs, failures, pauses between and inside the jobs, and the sorting of the recipes. The history field `timely` says that no
other job has begun since its rows were read.

**`License`** — client and control plane together, for one user and one device: the table of refresh tokens, requests that are
under way or answered, the client's bundle, and a clock by which snapshots expire. A request that is given up may still be handled by the server.
`Refreshed` is the end of the scheduler's refresh with its test of generation and version (`Current`); sign-in,
redemption and sign-out have no such test in the code and none in the model. The history variable `disturbed` says that a refresh lost its
reply or that a redemption overlapped a refresh.

**`CraftPage`** — the queues of the page: `live` on the screen, `saved` per account, and the copies that selection runs hold (`held`). Changes of the account, reloads,
refreshes, runs and selections each have a begin and an end, between which the others happen. Rows are represented by whose they
are and whether they are recent. The code's `filter` is by position here (`Filtered`), like `Without` of `AccountRuntime`. `overlapped` is set by the steps that show, count or edit a queue as another account's; a behaviour ends
there. `strayed` says that a craft run or a refresh has outlived its view.

**`GuardEnrolment`** — the enrolment of an authenticator that the Steam App shares, for one Steam account. The three layers are three variables:
`flow` (service), `entry` (adapter, whose `request` is what it awaits) and `worker` (the forked process), with the command and the result
on their way (`inbox`, `outbox`). `Destroy` is the end of a flow in all of them, and `Settle` is the service after its await, with what it saves. A result
that has a diagnostic is first written to the log; meanwhile its timer is cleared and the flow may be cancelled. Steam's table of authenticators is external;
a code is represented by the authenticator it was read from. Flows of one account do not exclude each other in the code, nor here.

| Run | Question | Bounds and why they are enough |
|---|---|---|
| `craft_ops` | Does a repeated, late or concurrent craft request ever execute twice, lose its record or get a wrong reply? | two accounts, two operations, two clients, three runs of one step, a limit of one record and a life of one tick: eviction by limit and by age, a conflict between accounts, and joining all occur, and a third run can repeat the first |
| `craft_ops_live` | Is every craft request answered? | two runs of two steps, so that a pause can come between two steps |
| `craft_batch` | Does what a batch reports and saves agree with what the GC did? Does every batch end and pass the lock on? | two batches of up to two recipes over two items: a batch waiting for the lock, a late answer of one craft met by the next, an item used again |
| `craft_batch_failure` | *violation*, see Findings | one batch, one recipe |
| `session_pool` | Is a dead session handed out, a good token removed, a request left without an answer? Do recoveries share one login? | two callers, three flights, two tokens: one rejected, its replacement, and a connect that overlaps both |
| `session_pool_delete` | *violation*, see Findings | one caller, one flight |
| `worker_pool` | No task lost, answered twice, retried without a crash, left waiting beside an idle slot or waiting for ever; refinement of `TaskService` | three tasks on two slots, one retry as in the code, two crashes: enough to fail one task for good, or two tasks once each |
| `account_runtime` | Is anything connected or queued against the user's will, is a newest result lost, does anything wait for what has ended, can the heartbeat stop? Refinement of `TaskService` | two accounts, three refreshes: one account can be refreshed by the heartbeat while another refresh goes on and its result waits for the one before; two tasks, of which one waits for the other |
| `component_moves` | Module `Preparation`. Is an item reported where it is not, listed twice, or left out although its rows were there? Is a place asked for in a full casket, or by a withdrawal in a full main inventory? Is a recipe handed on with an item missing? | three items over two caskets with one place each and a main inventory with two: either can be full, an item goes from one casket to the other, a recipe has items in both; two items asked for, two messages on their way: a late request or notification meets the next wait. The first snapshot, if there is none at the start, is saved before anything is disturbed (`FirstUndisturbed`), and one of the three items at a time is moved outside a wait or saved from a changed row (`OneDisturbed`): the others still show what a job makes of it |
| `license` | Does the client lose its session without a reason, does a late answer undo anything, does a lock-out take effect in time? | three tokens: a family rotated twice, or a second sign-in; four requests: two that overlap after a sign-in and one after those; one step of the clock, which is the life of a snapshot: by it one expires, with or without a lock-out before |
| `craft_page` | Does each account keep its own recipes, all of them, and are results entered where they belong? | two accounts; three recipes: one is executed, one waits, one is added or selected; three changes of the view: an account is left, refreshed and returned to |
| `guard_enrolment` | Do service, adapter and process agree on an enrolment however it ends, is success answered exactly when the maFile is saved, is every request answered? | two flows: one is started while the other goes on, or after it has failed; retries of codes, changes of the account and restarts are not bounded |

Each property of a passing run has a mutant of the code that violates it (`mutants`); the mutated forms stand
before the definitions they replace.

The type invariants of `CraftOperations`, `CraftBatch`, `SessionPool`, `WorkerPool`, `License`, `GuardEnrolment` and `Preparation` are proved and no run repeats them.

Runs without deadlock checking: all of the models stop when their bounds (runs, flights, recipes, tasks) are used up, and
the program has idle states in which it does nothing until a request comes.

### Fairness

Fairness is assumed only for what the code bounds by a timer. `CraftOperations`: the steps of a run, since every wait of a step has a
time-out (craft 35 s and 12 s to settle, casket notification 25 s, loading of components 35 s, connect and sign-in). `CraftBatch`: the
batch's own progress, whose time-outs are among its actions; none for the GC, which may never answer. `SessionPool`: a connect and a credential login end, by their
time-outs at the latest; none for callers, events or drops. `WorkerPool`: the request timer of the main thread (`TimerFires`, weak fairness of `Timeout` with its enabling
condition spelled out); none for the workers. `GuardEnrolment`: the timer of a request and the end of a write to the diagnostic log; none for the process,
Steam or the user. `AccountRuntime`: refreshes and
storage-unit tasks end, by the same time-outs; none for the user, the heartbeat's timer or the tasks after a refresh. The other
models state safety only, and need none.

## Findings

* `craft_batch_failure`: the failure path of a batch saves a snapshot "so that the front end can reconcile at once"
  (`craftService.js:614`). It saves the rows read *before* the failed craft. If the GC executed that craft and its
  `craftingComplete` was lost or late, the snapshot lists items the session already knows to be gone.
* `session_pool_delete`: deleting an account clears its refresh token "so that nothing is left" (`uiServer.js:3525`). A connect
  or recovery login under way at that moment stores a token for the deleted account.

Also seen, but contradicted by no statement of the code, so not counted as findings: an invalidated connect sets its entry all the
same, and then the account can have two sessions; a recovery inside a connect drops the connect's own placeholder, so a request that comes meanwhile starts a
second connect; a web operation's recovery does not compare tokens. The model has these behaviours, and `EntryLive` and
`OnlyRejectedTokenRemoved` say how far the pool's promises go in spite of them.

Of the license: a redemption that overlaps a refresh brings back the credential the refresh has rotated, so that the next refresh counts as a reuse and
revokes the family, and so does the refresh after one whose reply was lost; an answer to a redemption that comes after a sign-out signs in again; a sign-out that races with a refresh
revokes nothing at the server, since the token it names is rotated already. The design (`docs/superpowers/specs/2026-04-04-remote-control-plane-license-design.md:265-270`) has a refusal
by the control plane lock the client; the refresh route's error is logged and the bundle kept until it expires (`licenseScheduler.js:84`). What holds in spite of
that, within the life of a snapshot, is `AccessEnds`.

Of the component moves: when a casket a job has touched cannot be loaded again, or an item it was asked for is in a casket that is not loaded, the job still replaces their rows in the
snapshot by what the session has (`componentOpsService.js:868-881`, `540-543`), so that the casket's items vanish from it, although they are where they were, until a later job or
refresh loads them; the failure is logged only. `unlisted` stands for these. Only a withdrawal looks at the room in the main inventory; the first half of a transfer does not.

Of the preparation: after a pause a recipe whose item has vanished counts as ready (`craftTradeupWithComponentsService.js:389`); the craft that follows
finds it missing.

Of the craft page: a second choice of an account while the first is loading, or after its loading failed, has the queue on the screen stored as another account's;
so may an event of the server or a refresh, which set the account viewed without changing the queue. A craft run that goes on after a change of the account enters its results at the same
positions of the other account's queue and shows its own rows there; a refresh does the latter. Recipes whose items are not in the rows shown are emptied when the account
viewed counts as connected. These are the steps `overlapped` and `strayed` stand for.

Of the enrolment: a flow whose process ends while it waits for a code stays with the service until its next request, which is told that it does not exist; no
time limit removes it (`cleanupExpired` does nothing). A process may end, or the account be deleted, after the code was found right and before the maFile is saved: the secret
is lost with it, and since the user has bound the authenticator in the Steam App, starting again, as the page proposes (`ui/app.js:20576`), is answered with
`already_has_authenticator`. For a new account `persistence_failed` is also answered when the account and the maFile were saved and only the selection in the UI state
was not (`uiServer.js:292`): a second attempt then meets `local_account_exists`. An enrolment of an existing account replaces a maFile that was imported meanwhile.

## Proofs

Each proof module names its inductive invariant, proves that the initial states satisfy it and that every action keeps it, with one lemma for an action or
a group of actions, and derives the theorems from it. What it assumes is the named assumption of the component: that the bounds are naturals (not zero where the
code has a limit), some sets finite, and that a name for "none" is no member of the set it stands beside.

`CraftOperations_proofs` proves, for every set of accounts, operations and clients and every value of the bounds, that `TypeOK`, `OneRunPerAccount`, `RunningRecordKept` and
`ReplySound` are invariants. None of the last three is inductive alone. The inductive invariant is

    IInv == TypeOK /\ OneRunPerAccount /\ RunningRecordKept /\ ReplySound /\ RecordsSound /\ FreshRuns

`RecordsSound` ties each record to a run of its own account and operation and makes "not completed" mean "running": without it a
request could join a record whose run is another's. `FreshRuns` says that runs are handed out in order, so that a new run is
not yet known to any record or request. The lemmas about `Prune` carry the argument: it returns a restriction of the table, and it drops
completed records only, hence never that of a running operation. The proof has one step per action and below it one per
conjunct that the action can disturb.

`NoEarlyReexecution` is an action property about the past: an operation is executed again only when its record may be gone. `HistoryInv` says why: every execution
that has ended has its record still, or its life is over, or as many *other* operations as the table keeps are running or have ended no earlier (`Remembered`).
`PruneRemembers` is the counting argument: a record the limit evicts has at least that many newer ones beside it, each of an operation of its own. It is here
that a record must not be named after the operation "none" of an unused run.

`License_proofs` proves about client and control plane, for every number of tokens, requests and ticks, every set of codes that is finite and every life of a
snapshot (`LicenseAssumption`), that `TypeOK`, `SessionsLinear` and `AccessEnds` are invariants. The inductive invariant of the first two is

    IInv == TypeOK /\ TableInv /\ CallsInv      TableInv == TableType /\ FamiliesKnown /\ SessionsLinear

`FamiliesKnown` says that a family is named by a token that was issued: without it the first token of a new sign-in could fall into a family that still has an
active token. `CallsInv` says what a request under way presents, so that a refresh names a token of the table. The lemmas about the table (`RevokedTable`, `SignInTable`, `RotatedTable`) stand
first, then one lemma per group of actions. `AccessEnds` needs more, since a bundle may be in the client, in an answer or in the reply to a request that was
given up: `AccessInv` says of each bundle in hand that it was issued before a lock-out or revocation and expires in time (`Timely`). A step issues a bundle (`IssuedNow`), or
leaves those in hand as they are, or moves the clock or the table onward (`StepOnward`), each of which keeps what is timely timely. `ClientTokenCurrent` and
`RefreshNeverStale` rest on `HandInv`, which follows a credential through the requests: the one in the reply to a sign-in or refresh is nobody else's (`PrivateInv`), the refresh of the
current generation was made with the bundle the client has, and its reply grants no less (`GenerationInv`), and while nothing was disturbed nobody else presents the client's credential (`CurrentInv`). The proof of `RefreshNeverStale` uses the test of the
generation only: the test of the bundle's version beside it in `licenseScheduler.js` is not needed for it.

`GuardEnrolment_proofs` proves, for every number of flows (`GuardEnrolmentAssumption`), that `TypeOK`, `LayersAgree` and `SuccessIsSaved` hold of the enrolment.
`LayersAgree` alone is not inductive: it does not say why a process that replies enters the state the service will enter. The inductive invariant is

    IInv == TypeOK /\ \A f \in FlowIds : FlowInv(f)

where `FlowInv` adds to `LayersAgree` for one flow which command goes with which state of service and process (`CommandOf`), what a process that has taken it
does (`WorkOf`), which results may be on their way and what they have left of the process (`ResultOf`, `DiagnosticOf`), and what a code that was found right implies
(`CodeOf`). Since flows share only Steam, the account and the cooldown, of which `FlowInv` does not speak, a step of one flow keeps the invariant of the others (`Elsewhere`, `SameInv`); for its
own, a lemma says what each common part of the handlers leaves of it (`CloseInv`, `DestroyInv`, `SettleInv`, `ReplyInv`), and the actions cite these. `Working`
is the key to the process's own steps: a process that is not waiting has a pending request of the matching kind and nothing on its way. `SuccessIsSaved` follows by looking at the
one place that saves, where `ResultOf` and `CodeOf` give what Steam and the user had done before.

`WorkerPool_proofs` proves, for every number of tasks, slots, retries and crashes, `TypeOK`, `OnlyCrashesCharged`, `SlotsKeptBusy` and `ImplementsService`: every behaviour of the pool
is one of `TaskService`. The invariant relates the four views of a task (`TaskSide`: its state, its place in the queue, its slot; `WorkerSide`: its worker thread), counts attempts (`Budget`),
and bounds the worker threads that are being stopped by the crashes and the answered tasks that can have caused it (`FewStopping`), so that worker numbers never run out.
For `SlotsKeptBusy` it adds that until `close` every slot is staffed (`Staffed`), since a crash or a time-out replaces its worker in the step that ends it: `Dispatch` then reaches every slot that is free.
For the refinement each action is shown to be a step of the service or a stutter: `Dispatch`, which hands out as many tasks as there are idle slots in one step of the code,
keeps the number of executions within the number of slots; a late message of a terminated worker is a stutter.

`CraftBatch_proofs` proves, for every set of items and number and length of batches, `TypeOK`, `LockGuards`, `ReportTrue` and `SnapshotKnowsSettled`. The invariant adds why they hold: who is locked, crafts or
settles is in the chain of the account lock once, and only its head crafts or settles (`LockInv`); what the GC has spent is charged to a step, to the recipe in hand or to the one that failed (`SpendInv`); until a wait times out there is at most one
request or answer, of the batch in hand (`TruthInv`); and the rows a working batch holds were read after every settled step of every batch (`KnownInv`).

`AccountRuntime_proofs` proves in its first part, for every set of accounts and number of refreshes and tasks, `TypeOK`, `NothingUnwanted`, `NewestProcessed`, `NothingStalls` and that the component task queue implements
`TaskService` with one execution at a time. What `NewestProcessed` needs is that `refreshLocks` lets an account have one live refresh, which is the last one it began (`JobsOK`); what the queue needs is that a
listed task waits, was never begun and is listed once (`QueueOK`). The queue without its cancelled tasks is defined by position (`Without`), since the provers
have no induction for the standard library's `SelectSeq`; that it keeps the order and loses nothing else is a lemma.
`NothingStalls` is proved on top of that invariant: `Going` says that each lock is held by a refresh that goes on, that the tick waits for such a one and that a listed task has a running one before it; a step
that ends a refresh or a task takes the lock, the wait or the turn with it (`refreshLocks` has one live refresh per account, so no other is let go by mistake).

`AccountRuntime_proofs` proves in its second part about `SessionPool`, for every set of callers and number of flights and tokens, `PoolTypeOK`, `EntryLive`, `LoginSingleFlight`, `WaitersServed` and the action property
`OnlyRejectedTokenRemoved`. The first three are inductive together with two facts: an entry names a flight that was started (`EntryFlight`), and an
account with a maFile has no flight that would clear a token without comparing it (`RefreshUnguarded`), which is what the action property needs.
`WaitersServed` is inductive beside them: a flight that settles tells all its callers, and an entry that is dropped while its flight goes on takes no caller with it.

`Preparation_proofs` proves about `PrepSpec`, where preparations compete with the user's jobs, for every number of items and caskets and every capacity, `PrepTypeOK`, `SnapshotExact`, `ReportedMoved`,
`CapacityKept`, `MainCapacityKept` and `ReadyInMain`. Every step of a preparation is a step of `ComponentMoves` or leaves it alone (`PrepStepIsMove`), so one invariant serves both:

    IInv == TypeOK /\ PlaceInv /\ JobInv /\ AllowedInv /\ OutInv /\ SnapshotInv /\ MainShown
            /\ QuietInv /\ CountInv /\ RoomInv /\ MainRoomInv

It says what a job may rely on: a row that shows the item of its wait at its goal is true (`AllowedInv`, `OutInv`); until a wait ends too early nothing but that wait is on its way, and
its notification comes after the move (`QuietInv`); the snapshot is exact for the items the job does not move (`SnapshotInv`), and the rows show all of the main inventory but those (`MainShown`); a casket's counter or its rows count all of it
(`CountInv`), and what is in it with the slots the job still reckons with does not exceed its capacity, apart from the place the item of the wait takes (`RoomInv`); what a withdrawal may still take out has its places in the main inventory (`MainRoomInv`, over the set `Takeable`). `PrepInv` adds that the rows of a preparation between
its jobs show an item where it is or not at all, unless another job has run.

`CapacityKept` was not provable as it stood: with caskets of two places another client can put an item into a casket whose items are not loaded, whose counter the session has not been told; a later job
that saves a snapshot of other caskets makes `unsure` empty again, and a deposit then counts one item too few. With one place per casket, as in the run, this cannot
happen. The history variable `uncounted` names the case, and that of a casket that could not be loaded again, and the theorem now covers caskets of any size.

`CraftPage_proofs` proves, for every set of accounts and number of recipes and changes of the view, `TypeOK`, `QueuesOwn`, `RecipesKept` and `DoneTrue`. None of the last three is inductive: they
speak of the queue an account shows or would show, but a step may put any of three lists in its place, the one on the screen, the saved one, or the one a selection run has held since it began. The inductive invariant is

    IInv == Typed /\ QueuesListed /\ RecipesMade /\ RunTrue /\ CopiesSound /\ ViewKept

`CopiesSound` says of every copy that a later step may show, save or run (`Copy`) what the properties say of the queue: it has recipes of its account only and only wanted ones with items (`Own`), all that are still to be
crafted (`Complete`), and knows the results the page was told of (`Informed`). Which copies are still to be used is the point: while an account is loaded, the list on the screen is no copy of it any more, and the saved queue of the account on
the screen is none either, being overwritten before it is read. `ViewKept` says that the positions a run has captured still hold its recipes (`RunOnScreen`), since everything that would move them is locked or
ends the behaviour, and that the slot a selection run will fill is nobody's recipe yet (`SlotOpen`). `QueuesListed` and `RecipesMade` keep identifiers unique, without which the results could be entered twice.
`Own` needs neither a straight run nor a straight refresh; the rest holds until `strayed`. That a filtered list has what is at its places, once each (`FilteredSelects`), is the lemma all steps that
remove recipes rest on.

Model-checked only: the liveness properties (`RequestsAnswered`, `BatchEnds`, `AcquireAnswered`, `TasksAnswered`, `HeartbeatReturns`; liveness under fairness is out of the prover's
reach). The safety half of each is a theorem, that nobody waits for what is not going on: `LockGuards` for batches, `WaitersServed` for connects, `SlotsKeptBusy` for selections, `NothingStalls` for the heartbeat;
`ReplySound` and `LayersAgree` contain it for craft requests and enrolments. What is left to TLC is that what goes on ends, which rests on the fairness of the time-outs. Every safety property of a passing run, action properties and refinements included, is a theorem. The two runs that end in a violation show what the code does on a small instance; there is nothing to prove.

## Not modelled, and why

* floating-point wear and the search over it: TLC has no floats; the threads that compute it are `WorkerPool`;
* parsing, formatting, HTTP bodies, permissions of the viewer, logging, tracing, UI;
* downloads of skin data and images, market and trade pages: I/O without state shared with the rest;
* of the control plane: registration codes, the administrators' sign-in, terms of memberships, payments, rate limits and mail; of the license client: the
  import of a bundle, the development mode, and the checks of signature and device, which all bundles of the model pass;
* of the craft page: the preparation of recipes with components, the dialogs and the connect before a run (a refresh before `StartRun`), the queue of the batch page,
  the removal of accounts, refilling an emptied slot, and items gained during a behaviour;
* sign-in sessions, weapon armory: see the plan; of Steam Guard, the import of maFiles in batches and the computing of codes;
* crashes of the UI server other than in `License` and `GuardEnrolment`: the stores are written synchronously with a rename, runs and records are in memory only and
  end with the process;
* shutdown of the session pool: the process ends right after it.

## Plan

Done: `CraftOperations`, `License`, `GuardEnrolment`, `CraftBatch`, `SessionPool`, `TaskService`, `WorkerPool`, `AccountRuntime`, `ComponentMoves` with
`Preparation`, and `CraftPage`, with proofs of their safety properties. Next, in order of importance:

1. Sign-in sessions (`authService.js`: `pendingSessions` by account name, two sign-ins of one account, Guard codes and their expiry), composed with
   the token of `SessionPool`.
2. The counting rules of trade-ups (`craftExecutionGuard.js`, outcome weights) against a reference definition; the weapon armory.
