---------------------------- MODULE AccountRuntime ----------------------------
(***************************************************************************)
(* What the server does with its connected accounts apart from crafting:   *)
(* services/refreshRuntime.js (refresh jobs, the tasks after a refresh, the*)
(* heartbeat), services/componentTaskQueue.js (storage-unit tasks, one at a*)
(* time for all accounts), and the routes of uiServer.js that refresh,     *)
(* disconnect and delete accounts and that queue and cancel tasks.         *)
(*                                                                         *)
(* A refresh and a task take many awaits; the routes run in between.  What *)
(* the promise chains do in the turn in which one of them ends (the next   *)
(* task, the next account of the heartbeat) is part of the action.         *)
(***************************************************************************)
EXTENDS Naturals, Sequences, FiniteSets

CONSTANTS Accounts,     \* Steam accounts of the user
          MaxRefreshes, \* bound: refresh jobs in a behaviour
          MaxTasks      \* bound: storage-unit tasks in a behaviour

ASSUME AccountRuntimeAssumption == MaxRefreshes \in Nat /\ MaxTasks \in Nat

VARIABLES
    accounts,           \* AccountStore: the accounts that have not been deleted
    connectedAccounts,  \* accounts whose last refresh succeeded
    refreshLocks,       \* accounts with a refresh to join
    refreshes,          \* refresh job -> [account, phase]
    postRefresh,        \* account -> [current, pending]: the refreshes processed, to process
    heartbeat,          \* [refresh, rest]: what the tick waits for and its targets left
    tasks,              \* storage-unit task -> [account, state, begun]
    queued,             \* tasks that wait
    wanted              \* history: accounts the user asked for, see Drop

refreshVars == <<refreshLocks, refreshes>>
taskVars == <<tasks, queued>>
vars == <<accounts, connectedAccounts, refreshVars, postRefresh, heartbeat, taskVars,
          wanted>>

-----------------------------------------------------------------------------
RefreshIds == 1 .. MaxRefreshes

TaskIds == 1 .. MaxTasks

\* "connecting": refreshInventory goes on; "building": its result becomes a payload.
Live == {"connecting", "building"}

\* heartbeatRunning is false.
NoTick == [refresh |-> 0, rest |-> {}]

LiveRefreshes(a) == {r \in RefreshIds : refreshes[r].account = a /\ refreshes[r].phase \in Live}

Running == {t \in TaskIds : tasks[t].state = "running"}

Init ==
    /\ accounts = Accounts
    /\ connectedAccounts = {}
    /\ refreshLocks = {}
    /\ refreshes = [r \in RefreshIds |-> [account |-> "none", phase |-> "unused"]]
    /\ postRefresh = [a \in Accounts |-> [current |-> 0, pending |-> 0]]
    /\ heartbeat = NoTick
    /\ tasks = [t \in TaskIds |-> [account |-> "none", state |-> "new", begun |-> 0]]
    /\ queued = <<>>
    /\ wanted = {}

-----------------------------------------------------------------------------
(* runRefreshJob.                                                            *)

Joinable(a, locks) == a \in locks

\* A refresh of a, from these locks and jobs on, and what the caller waits for:
\* the refresh that goes on, or a new one.
Refresh(a, locks, jobs, r) ==
    IF Joinable(a, locks)
    THEN /\ jobs[r] = [account |-> a, phase |-> jobs[r].phase]
         /\ jobs[r].phase \in Live
         /\ refreshLocks' = locks
         /\ refreshes' = jobs
    ELSE /\ jobs[r].phase = "unused"
         /\ \A q \in RefreshIds : q < r => jobs[q].phase # "unused"
         /\ refreshLocks' = locks \cup {a}
         /\ refreshes' = [jobs EXCEPT ![r] = [account |-> a, phase |-> "connecting"]]

\* Mutant of Targets: every account is kept alive.
AllAccounts == accounts

Targets == connectedAccounts

\* The loop of runHeartbeatTick up to its next await: targets that are deleted or
\* were refreshed lately are passed over, the first other one is refreshed.
HeartbeatGoes(rest, connected, locks, jobs) ==
    \E passed \in SUBSET rest :
        /\ connectedAccounts' = connected \ (passed \ accounts)
        /\ \/ /\ passed = rest
              /\ heartbeat' = NoTick
              /\ refreshLocks' = locks
              /\ refreshes' = jobs
           \/ \E a \in (rest \ passed) \cap accounts, r \in RefreshIds :
                 /\ Refresh(a, locks, jobs, r)
                 /\ heartbeat' = [refresh |-> r, rest |-> rest \ (passed \cup {a})]

\* The heartbeat's timer; a tick that goes on keeps the next one out.
Tick ==
    /\ heartbeat = NoTick
    /\ connectedAccounts # {}
    /\ HeartbeatGoes(Targets, connectedAccounts, refreshLocks, refreshes)
    /\ UNCHANGED <<accounts, postRefresh, taskVars, wanted>>

\* POST /api/refresh of an account, by the user.
RequestRefresh(a) ==
    /\ a \in accounts \/ Joinable(a, refreshLocks)
    /\ \E r \in RefreshIds : Refresh(a, refreshLocks, refreshes, r)
    /\ wanted' = wanted \cup {a}
    /\ UNCHANGED <<accounts, connectedAccounts, postRefresh, heartbeat, taskVars>>

\* The same of a deleted account: refreshInventory throws before its first await.
RefreshRefused(a) ==
    /\ a \notin accounts /\ ~Joinable(a, refreshLocks)
    /\ connectedAccounts' = connectedAccounts \ {a}
    /\ UNCHANGED <<accounts, refreshVars, postRefresh, heartbeat, taskVars, wanted>>

\* refreshInventory has answered.  Whether the account was disconnected or deleted
\* meanwhile is not looked at.
RefreshConnects(r) ==
    /\ refreshes[r].phase = "connecting"
    /\ refreshes' = [refreshes EXCEPT ![r].phase = "building"]
    /\ connectedAccounts' = connectedAccounts \cup {refreshes[r].account}
    /\ UNCHANGED <<accounts, refreshLocks, postRefresh, heartbeat, taskVars, wanted>>

\* Mutant of AwaitedByTick: the loop does not catch the failure of a refresh, and
\* heartbeatRunning stays set.
AwaitedUnlessFailed(r, phase) == heartbeat.refresh = r /\ phase = "done"

AwaitedByTick(r, phase) == heartbeat.refresh = r

\* A refresh ends: its lock is deleted, and a tick that waited for it goes on.
RefreshEnds(r, phase, connected) ==
    LET locks == refreshLocks \ {refreshes[r].account}
        jobs == [refreshes EXCEPT ![r].phase = phase]
    IN  IF AwaitedByTick(r, phase)
        THEN HeartbeatGoes(heartbeat.rest, connected, locks, jobs)
        ELSE /\ connectedAccounts' = connected
             /\ refreshLocks' = locks
             /\ refreshes' = jobs
             /\ UNCHANGED heartbeat

\* Mutant of Queued: a result that comes while another is processed is dropped.
OnlyIfIdle(post, r) ==
    IF post.current = 0 THEN [current |-> r, pending |-> 0] ELSE post

\* queuePostRefreshTask, drainPostRefreshQueue: the newest result waits.
Queued(post, r) ==
    IF post.current = 0 THEN [current |-> r, pending |-> 0] ELSE [post EXCEPT !.pending = r]

RefreshDone(r) ==
    /\ refreshes[r].phase = "building"
    /\ RefreshEnds(r, "done", connectedAccounts)
    /\ postRefresh' = [postRefresh EXCEPT ![refreshes[r].account] = Queued(@, r)]
    /\ UNCHANGED <<accounts, taskVars, wanted>>

\* Steam, the GC or the payload fails.
RefreshFails(r) ==
    /\ refreshes[r].phase \in Live
    /\ RefreshEnds(r, "failed", connectedAccounts \ {refreshes[r].account})
    /\ UNCHANGED <<accounts, postRefresh, taskVars, wanted>>

\* runPostRefreshTask ends, well or not; the loop takes what is pending.
PostRefreshDone(a) ==
    /\ postRefresh[a].current # 0
    /\ refreshes' = [refreshes EXCEPT ![postRefresh[a].current].phase = "processed"]
    /\ postRefresh' = [postRefresh EXCEPT ![a] = [current |-> @.pending, pending |-> 0]]
    /\ UNCHANGED <<accounts, connectedAccounts, refreshLocks, heartbeat, taskVars, wanted>>

-----------------------------------------------------------------------------
(* The component task queue.                                                 *)

\* Mutant of Idle: the slot is not given back when a task settles.
NeverGivenBack(ts) == \A t \in TaskIds : ts[t].state \notin {"running", "settled"}

Idle(ts) == \A t \in TaskIds : ts[t].state # "running"

\* Mutant of RunNext: the task that is begun is not taken out of the queue.
PeekNext(ts, q) ==
    /\ queued' = q
    /\ tasks' = IF q = <<>> \/ ~Idle(ts) THEN ts
                ELSE [ts EXCEPT ![Head(q)].state = "running", ![Head(q)].begun = @ + 1]

\* runNext: the head of the queue is begun unless a task goes on.
RunNext(ts, q) ==
    IF q = <<>> \/ ~Idle(ts)
    THEN tasks' = ts /\ queued' = q
    ELSE /\ tasks' = [ts EXCEPT ![Head(q)].state = "running", ![Head(q)].begun = @ + 1]
         /\ queued' = Tail(q)

\* POST /api/component/deposit and /withdraw, of a connected account.
Enqueue(t, a) ==
    /\ a \in connectedAccounts
    /\ tasks[t].state = "new"
    /\ \A u \in TaskIds : u < t => tasks[u].state # "new"
    /\ RunNext([tasks EXCEPT ![t].account = a, ![t].state = "queued"], Append(queued, t))
    /\ UNCHANGED <<accounts, connectedAccounts, refreshVars, postRefresh, heartbeat, wanted>>

\* The task's promise settles, either way.
TaskEnds(t) ==
    /\ tasks[t].state = "running"
    /\ RunNext([tasks EXCEPT ![t].state = "settled"], queued)
    /\ UNCHANGED <<accounts, connectedAccounts, refreshVars, postRefresh, heartbeat, wanted>>

Cancellable(t) == tasks[t].state = "queued"

\* The queue after the splices that take these tasks out of it, in its order: the n-th
\* task is the one with n - 1 of the kept ones before it.
Without(q, gone) ==
    LET kept == {k \in DOMAIN q : q[k] \notin gone}
    IN  [n \in 1 .. Cardinality(kept) |->
            q[CHOOSE k \in kept : Cardinality({j \in kept : j <= k}) = n]]

\* POST /api/component/tasks/cancel.
Cancel(t) ==
    /\ Cancellable(t)
    /\ tasks' = [tasks EXCEPT ![t].state = "cancelled"]
    /\ queued' = Without(queued, {t})
    /\ UNCHANGED <<accounts, connectedAccounts, refreshVars, postRefresh, heartbeat, wanted>>

Cancelled(as) == {t \in TaskIds : tasks[t].account \in as /\ tasks[t].state = "queued"}

\* cancelByUsername, for each of these accounts.
CancelByUsername(as) ==
    /\ tasks' = [t \in TaskIds |-> IF t \in Cancelled(as)
                                   THEN [tasks[t] EXCEPT !.state = "cancelled"] ELSE tasks[t]]
    /\ queued' = Without(queued, Cancelled(as))

-----------------------------------------------------------------------------
(* The routes that drop accounts.                                            *)

Busy(a) == \E t \in Running : tasks[t].account = a

\* Under way for a when the user drops it: a refresh or a tick that has it as target.
Overtaken(a) == LiveRefreshes(a) # {} \/ a \in heartbeat.rest

Drop(as) ==
    /\ CancelByUsername(as)
    /\ connectedAccounts' = connectedAccounts \ as
    /\ wanted' = (wanted \ as) \cup {a \in as : Overtaken(a)}
    /\ UNCHANGED <<refreshVars, postRefresh, heartbeat>>

\* POST /api/session/disconnect: not while a task of the account runs.
Disconnect(a) ==
    /\ ~Busy(a)
    /\ Drop({a})
    /\ UNCHANGED accounts

\* POST /api/session/disconnect-others: the connected ones, unless one is busy.
DisconnectOthers(a) ==
    LET others == (accounts \cap connectedAccounts) \ {a}
    IN  /\ \A b \in others : ~Busy(b)
        /\ Drop(others)
        /\ UNCHANGED accounts

\* POST /api/accounts/delete: a task that runs goes on.
DeleteAccount(a) ==
    /\ a \in accounts
    /\ accounts' = accounts \ {a}
    /\ Drop({a})

Next ==
    \/ \E a \in Accounts : RequestRefresh(a) \/ RefreshRefused(a) \/ PostRefreshDone(a)
    \/ \E a \in Accounts : Disconnect(a) \/ DisconnectOthers(a) \/ DeleteAccount(a)
    \/ \E r \in RefreshIds : RefreshConnects(r) \/ RefreshDone(r) \/ RefreshFails(r)
    \/ Tick
    \/ \E t \in TaskIds : Cancel(t) \/ TaskEnds(t) \/ \E a \in Accounts : Enqueue(t, a)

\* A task's waits have time-outs, and so have connecting and loading of a refresh.
Fairness ==
    /\ \A t \in TaskIds : WF_vars(TaskEnds(t))
    /\ \A r \in RefreshIds : WF_vars(RefreshDone(r) \/ RefreshFails(r))

Spec == Init /\ [][Next]_vars /\ Fairness

-----------------------------------------------------------------------------
Listed == {queued[k] : k \in DOMAIN queued}

TypeOK ==
    /\ accounts \subseteq Accounts
    /\ connectedAccounts \subseteq Accounts
    /\ refreshLocks \subseteq Accounts
    /\ refreshes \in [RefreshIds -> [account : Accounts \cup {"none"},
                                     phase : {"unused", "done", "failed", "processed"} \cup Live]]
    /\ postRefresh \in [Accounts -> [current : 0 .. MaxRefreshes, pending : 0 .. MaxRefreshes]]
    /\ heartbeat \in [refresh : 0 .. MaxRefreshes, rest : SUBSET Accounts]
    /\ tasks \in [TaskIds -> [account : Accounts \cup {"none"}, begun : Nat,
                              state : {"new", "queued", "running", "settled", "cancelled"}]]
    /\ queued \in Seq(TaskIds) /\ Len(queued) = Cardinality(Listed)
    /\ Listed = {t \in TaskIds : tasks[t].state = "queued"}
    /\ wanted \subseteq Accounts

\* The heartbeat connects no account of its own accord: a connected account was
\* asked for since the user dropped it, unless a refresh or a tick was already under
\* way for it then (runHeartbeatTick, removeAccount).  Nor does a task wait for an
\* account the user has disconnected or deleted (cancelByUsername, isConnected).
NothingUnwanted ==
    /\ connectedAccounts \subseteq wanted
    /\ \A k \in DOMAIN queued : tasks[queued[k]].account \in wanted

\* The result of the newest refresh is never passed over: whatever came while an
\* older one was processed, it is being processed, waits for it, or was.
NewestProcessed ==
    \A r \in RefreshIds :
        refreshes[r].phase = "done" =>
            LET a == refreshes[r].account
            IN  \/ r \in {postRefresh[a].current, postRefresh[a].pending}
                \/ \E q \in r + 1 .. MaxRefreshes :
                      refreshes[q].account = a /\ refreshes[q].phase \in {"done", "processed"}

\* Nothing waits for what has ended: a tick waits for a refresh that goes on, a lock
\* that others join is that of a refresh that goes on, a result waits only for one
\* that is processed, and a task only for one that runs, whatever has failed or was
\* cancelled and whichever account was dropped (the finally blocks of runRefreshJob,
\* drainPostRefreshQueue and runNext).
NothingStalls ==
    /\ heartbeat # NoTick =>
          heartbeat.refresh \in RefreshIds /\ refreshes[heartbeat.refresh].phase \in Live
    /\ \A a \in refreshLocks : LiveRefreshes(a) # {}
    /\ \A a \in Accounts : postRefresh[a].pending # 0 => postRefresh[a].current # 0
    /\ queued # <<>> => Running # {}

TaskPhase ==
    [t \in TaskIds |-> IF tasks[t].state = "queued" THEN "waiting"
                       ELSE IF tasks[t].state = "running" THEN "executing"
                       ELSE IF tasks[t].state = "new" THEN "new" ELSE "answered"]

QueueService == INSTANCE TaskService WITH
    Tasks <- TaskIds, Capacity <- 1, Attempts <- 1,
    phase <- TaskPhase, begun <- [t \in TaskIds |-> tasks[t].begun]

\* The queue implements the task service with one task at a time and no retry.
ImplementsService == QueueService!Service

\* A tick of the heartbeat comes to its end, whichever of its refreshes fail and
\* whatever the user drops meanwhile: the next tick is not kept out for good.
HeartbeatReturns == heartbeat # NoTick ~> heartbeat = NoTick
==============================================================================
