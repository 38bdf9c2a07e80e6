--------------------------- MODULE CraftOperations ---------------------------
(***************************************************************************)
(* The operation layer in front of the real trade-ups: the two execution   *)
(* routes and the pause route of node_sidecar/src/uiServer.js with the two *)
(* maps they share, craftOperationRecords (operation id -> record) and     *)
(* activeCraftRuns (account -> controller of the run in progress).         *)
(*                                                                         *)
(* A trade-up cannot be undone, so a repeated request must join or replay  *)
(* the execution it repeats, and an account must never have two executions *)
(* at once.  Node.js runs one callback at a time: everything between two   *)
(* awaits is one action here.  Each execution is a run whose steps (a      *)
(* recipe crafted, an item withdrawn from a storage unit) are GC round     *)
(* trips; what a step does to the inventory is modelled in CraftBatch.     *)
(***************************************************************************)
EXTENDS Naturals, FiniteSets

CONSTANTS Accounts,     \* Steam accounts
          Operations,   \* operation ids (supplied by a client, or random)
          Clients,      \* HTTP requests that may be in flight together
          RecordLimit,  \* CRAFT_OPERATION_RECORD_LIMIT (1000 in the code)
          RecordTtl,    \* CRAFT_OPERATION_RECORD_TTL_MS (one hour)
          MaxRuns,      \* bound: executions in a behaviour
          MaxSteps,     \* bound: steps of one execution
          MaxClock      \* bound: clock ticks in a behaviour

\* "none" is the model's null, never an operation id.
ASSUME CraftOperationsAssumption ==
    /\ "none" \notin Operations
    /\ RecordLimit \in Nat
    /\ RecordTtl \in Nat
    /\ MaxRuns \in Nat
    /\ MaxSteps \in Nat \ {0}
    /\ MaxClock \in Nat \ {0}

VARIABLES
    craftOperationRecords,  \* operation id -> [username, completedAt, run], a partial function
    activeCraftRuns,        \* account -> the run registered for it, 0 when none
    runs,                   \* run -> controller and progress of that execution
    nextRun,                \* the run the next execution gets
    requests,               \* client -> its latest execution request
    now                     \* Date.now()

vars == <<craftOperationRecords, activeCraftRuns, runs, nextRun, requests, now>>

-----------------------------------------------------------------------------
RunIds == 1 .. MaxRuns

Kinds == {"tradeup", "components"}     \* the two execution routes

\* What ends an execution; "unused" and "running" are the states before.
Endings == {"done", "failed", "paused"}

Run == [username : Accounts \cup {"none"}, operation : Operations \cup {"none"},
        kind : Kinds, left : 0 .. MaxSteps, busy : BOOLEAN,
        pauseRequested : BOOLEAN, state : {"unused", "running"} \cup Endings,
        endedAt : 0 .. MaxClock]     \* history: survives the run's record

Record == [username : Accounts, completedAt : 0 .. MaxClock, run : RunIds]

Request == [state : {"idle", "waiting", "answered"},
            username : Accounts \cup {"none"}, operation : Operations \cup {"none"},
            run : 0 .. MaxRuns, reply : {"none"} \cup Endings]

Init ==
    /\ craftOperationRecords = [o \in {} |-> 0]
    /\ activeCraftRuns = [a \in Accounts |-> 0]
    /\ runs = [r \in RunIds |-> [username |-> "none", operation |-> "none",
                                 kind |-> "tradeup", left |-> 0, busy |-> FALSE,
                                 pauseRequested |-> FALSE, state |-> "unused",
                                 endedAt |-> 0]]
    /\ nextRun = 1
    /\ requests = [c \in Clients |-> [state |-> "idle", username |-> "none",
                                      operation |-> "none", run |-> 0, reply |-> "none"]]
    /\ now = 1

Running(r) == runs[r].state = "running"

-----------------------------------------------------------------------------
(* pruneCraftOperationRecords: expired records go first; while more than    *)
(* RecordLimit remain, the oldest completed one goes.  Array.sort is stable *)
(* and a Map iterates in insertion order, so ties fall to the older run.    *)

\* Mutant of Completed: the filter on completedAt forgotten.
AnyRecord(recs) == DOMAIN recs

Completed(recs) == {o \in DOMAIN recs : recs[o].completedAt # 0}

\* Mutant of Expired: >= for >.
ExpiredEarly(recs, t) == {o \in Completed(recs) : t - recs[o].completedAt >= RecordTtl}

Expired(recs, t) == {o \in Completed(recs) : t - recs[o].completedAt > RecordTtl}

Without(recs, ops) == [o \in DOMAIN recs \ ops |-> recs[o]]

CompletedBefore(recs, p, o) ==
    \/ recs[p].completedAt < recs[o].completedAt
    \/ recs[p].completedAt = recs[o].completedAt /\ recs[p].run < recs[o].run

OverLimit(recs) ==
    {o \in Completed(recs) :
        Cardinality({p \in Completed(recs) : CompletedBefore(recs, p, o)}) + RecordLimit
            < Cardinality(DOMAIN recs)}

Prune(recs, t) ==
    LET fresh == Without(recs, Expired(recs, t))
    IN  Without(fresh, OverLimit(fresh))

-----------------------------------------------------------------------------
(* The execution routes.  The body is read before the checks, and from the  *)
(* connection check to the registration of the run nothing is awaited.  A   *)
(* 409 leaves its client free to try again; one that says the account is    *)
(* not connected changes no state at all and has no action.                 *)

Reply(c, a, o, run, state, reply) ==
    requests' = [requests EXCEPT ![c] = [state |-> state, username |-> a,
                                         operation |-> o, run |-> run, reply |-> reply]]

\* Mutant of SameOwner: the account of the record is not looked at.
AnyOwner(rec, a) == TRUE

SameOwner(rec, a) == rec.username = a

\* Mutant of Registrable: registers over a run in progress.
AlwaysRegistrable(a) == TRUE

Registrable(a) == activeCraftRuns[a] = 0

\* 409 operation_id_conflict: the operation id is another account's.
RejectConflict(c, a, o) ==
    LET kept == Prune(craftOperationRecords, now)
    IN  /\ requests[c].state # "waiting"
        /\ o \in DOMAIN kept
        /\ ~SameOwner(kept[o], a)
        /\ craftOperationRecords' = kept
        /\ UNCHANGED <<activeCraftRuns, runs, nextRun, requests, now>>

\* A repeated request returns existing.promise: it waits for the run in
\* progress, or is answered at once with the outcome of the one that ended.
JoinExisting(c, a, o) ==
    LET kept == Prune(craftOperationRecords, now)
    IN  /\ requests[c].state # "waiting"
        /\ o \in DOMAIN kept
        /\ SameOwner(kept[o], a)
        /\ craftOperationRecords' = kept
        /\ IF Running(kept[o].run)
           THEN Reply(c, a, o, kept[o].run, "waiting", "none")
           ELSE Reply(c, a, o, kept[o].run, "answered", runs[kept[o].run].state)
        /\ UNCHANGED <<activeCraftRuns, runs, nextRun, now>>

\* 409 craft_already_running: registerActiveCraftRun found a run; no record is stored.
RejectBusy(c, a, o) ==
    LET kept == Prune(craftOperationRecords, now)
    IN  /\ requests[c].state # "waiting"
        /\ o \notin DOMAIN kept
        /\ ~Registrable(a)
        /\ craftOperationRecords' = kept
        /\ UNCHANGED <<activeCraftRuns, runs, nextRun, requests, now>>

\* A new execution: controller registered, record stored, request waiting on it.
StartRun(c, a, o, kind, steps) ==
    LET kept == Prune(craftOperationRecords, now)
    IN  /\ requests[c].state # "waiting"
        /\ nextRun <= MaxRuns
        /\ o \notin DOMAIN kept
        /\ Registrable(a)
        /\ activeCraftRuns' = [activeCraftRuns EXCEPT ![a] = nextRun]
        /\ runs' = [runs EXCEPT ![nextRun] =
                       [username |-> a, operation |-> o, kind |-> kind, left |-> steps,
                        busy |-> FALSE, pauseRequested |-> FALSE, state |-> "running",
                        endedAt |-> 0]]
        /\ craftOperationRecords' =
               [p \in DOMAIN kept \cup {o} |->
                   IF p = o THEN [username |-> a, completedAt |-> 0, run |-> nextRun]
                            ELSE kept[p]]
        /\ nextRun' = nextRun + 1
        /\ Reply(c, a, o, nextRun, "waiting", "none")
        /\ UNCHANGED now

-----------------------------------------------------------------------------
(* The finally block of runCraftOperation, and the waiting responses that   *)
(* the settled promise writes: one run of the microtask queue.              *)

\* releaseActiveCraftRun: only the controller that is registered is removed.
Release(a, r) ==
    activeCraftRuns' = [activeCraftRuns EXCEPT ![a] = IF @ = r THEN 0 ELSE @]

\* Mutant of AnswerWaiting: only one of the joined requests is answered.
AnswerOne(r, ending) ==
    LET waiting == {c \in Clients : requests[c].state = "waiting" /\ requests[c].run = r}
    IN  requests' = IF waiting = {} THEN requests
                    ELSE [requests EXCEPT ![CHOOSE c \in waiting : TRUE].state = "answered",
                                          ![CHOOSE c \in waiting : TRUE].reply = ending]

AnswerWaiting(r, ending) ==
    requests' = [c \in Clients |->
                    IF requests[c].state = "waiting" /\ requests[c].run = r
                    THEN [requests[c] EXCEPT !.state = "answered", !.reply = ending]
                    ELSE requests[c]]

Complete(recs, r) ==
    [o \in DOMAIN recs |-> IF recs[o].run = r THEN [recs[o] EXCEPT !.completedAt = now]
                                              ELSE recs[o]]

EndRun(r, ending) ==
    /\ runs' = [runs EXCEPT ![r].state = ending, ![r].busy = FALSE, ![r].endedAt = now]
    /\ craftOperationRecords' = Prune(Complete(craftOperationRecords, r), now)
    /\ Release(runs[r].username, r)
    /\ AnswerWaiting(r, ending)

\* The component route passes shouldPause on; the plain route does not.
Pausable(r) == runs[r].kind = "components"

BeginStep(r) ==
    /\ Running(r)
    /\ ~runs[r].busy
    /\ ~(Pausable(r) /\ runs[r].pauseRequested)
    /\ runs' = [runs EXCEPT ![r].busy = TRUE]
    /\ UNCHANGED <<craftOperationRecords, activeCraftRuns, nextRun, requests, now>>

\* A step is done; after the last one the service returns its payload.
FinishStep(r) ==
    /\ Running(r)
    /\ runs[r].busy
    /\ IF runs[r].left > 1
       THEN /\ runs' = [runs EXCEPT ![r].left = @ - 1, ![r].busy = FALSE]
            /\ UNCHANGED <<craftOperationRecords, activeCraftRuns, requests>>
       ELSE EndRun(r, "done")
    /\ UNCHANGED <<nextRun, now>>

\* The service throws: bad request, lost session, GC refusal or timeout.
FailRun(r) ==
    /\ Running(r)
    /\ EndRun(r, "failed")
    /\ UNCHANGED <<nextRun, now>>

\* The service sees the pause between two steps and ends the run.
PauseRun(r) ==
    /\ Running(r)
    /\ ~runs[r].busy
    /\ Pausable(r)
    /\ runs[r].pauseRequested
    /\ EndRun(r, "paused")
    /\ UNCHANGED <<nextRun, now>>

-----------------------------------------------------------------------------
\* POST /api/craft/pause: the controller of the account's run, if any, is told.
RequestPause(a) ==
    /\ activeCraftRuns[a] # 0
    /\ runs' = [runs EXCEPT ![activeCraftRuns[a]].pauseRequested = TRUE]
    /\ UNCHANGED <<craftOperationRecords, activeCraftRuns, nextRun, requests, now>>

Tick ==
    /\ now < MaxClock
    /\ now' = now + 1
    /\ UNCHANGED <<craftOperationRecords, activeCraftRuns, runs, nextRun, requests>>

Submit(c, a, o) ==
    \/ RejectConflict(c, a, o)
    \/ JoinExisting(c, a, o)
    \/ RejectBusy(c, a, o)
    \/ \E kind \in Kinds, steps \in 1 .. MaxSteps : StartRun(c, a, o, kind, steps)

Execute(r) == BeginStep(r) \/ FinishStep(r) \/ FailRun(r) \/ PauseRun(r)

Next ==
    \/ \E c \in Clients, a \in Accounts, o \in Operations : Submit(c, a, o)
    \/ \E r \in RunIds : Execute(r)
    \/ \E a \in Accounts : RequestPause(a)
    \/ Tick

\* Every step of an execution ends: each GC wait has a timeout.
Fairness == \A r \in RunIds : WF_vars(Execute(r))

Spec == Init /\ [][Next]_vars /\ Fairness

-----------------------------------------------------------------------------
TypeOK ==
    /\ DOMAIN craftOperationRecords \subseteq Operations
    /\ \A o \in DOMAIN craftOperationRecords : craftOperationRecords[o] \in Record
    /\ activeCraftRuns \in [Accounts -> 0 .. MaxRuns]
    /\ runs \in [RunIds -> Run]
    /\ nextRun \in 1 .. MaxRuns + 1
    /\ requests \in [Clients -> Request]
    /\ now \in 1 .. MaxClock

\* An account never has two executions at once, and the controller that a
\* pause request reaches is that of the execution in progress
\* (registerActiveCraftRun, releaseActiveCraftRun; craft_already_running).
OneRunPerAccount ==
    /\ \A r \in RunIds : Running(r) => activeCraftRuns[runs[r].username] = r
    /\ \A a \in Accounts : activeCraftRuns[a] # 0 =>
          Running(activeCraftRuns[a]) /\ runs[activeCraftRuns[a]].username = a

\* Pruning never forgets an execution in progress: as long as it runs, a
\* repeat of its operation id finds it and joins it (runCraftOperation).
RunningRecordKept ==
    \A r \in RunIds : Running(r) =>
        /\ runs[r].operation \in DOMAIN craftOperationRecords
        /\ craftOperationRecords[runs[r].operation] =
               [username |-> runs[r].username, completedAt |-> 0, run |-> r]

\* A request that joined or replayed an execution is told how that execution,
\* of its own account and operation, ended; while it waits, the execution runs.
ReplySound ==
    \A c \in Clients : LET q == requests[c] IN q.run # 0 =>
        /\ runs[q.run].username = q.username
        /\ runs[q.run].operation = q.operation
        /\ q.state = "waiting" => Running(q.run)
        /\ q.state = "answered" => q.reply = runs[q.run].state

\* Each record names the execution it stands for, and says when that ended.
RecordsSound ==
    \A o \in DOMAIN craftOperationRecords : LET e == craftOperationRecords[o] IN
        /\ e.run < nextRun
        /\ runs[e.run].operation = o
        /\ runs[e.run].username = e.username
        /\ e.completedAt = 0 <=> Running(e.run)

\* Runs are handed out in order; no request waits for one not handed out.
FreshRuns ==
    /\ \A r \in RunIds : runs[r].state = "unused" <=> nextRun <= r
    /\ \A c \in Clients : requests[c].run < nextRun

\* An operation is executed again only when its record may be gone: the time to
\* live has passed, or at least RecordLimit other operations are running or
\* ended no earlier (pruneCraftOperationRecords, runCraftOperation).
OthersSince(q) ==
    {runs[p].operation : p \in {p \in RunIds :
        /\ runs[p].state # "unused" /\ runs[p].operation # runs[q].operation
        /\ Running(p) \/ runs[p].endedAt >= runs[q].endedAt}}

NoEarlyReexecution ==
    [][\A r, q \in RunIds :
          /\ runs[r].state = "unused" /\ runs'[r].state = "running"
          /\ runs[q].operation = runs'[r].operation
          => /\ ~Running(q)
             /\ \/ now - runs[q].endedAt > RecordTtl
                \/ Cardinality(OthersSince(q)) >= RecordLimit]_vars

\* Every request waiting for an execution is answered in the end.
RequestsAnswered ==
    \A c \in Clients : requests[c].state = "waiting" ~> requests[c].state = "answered"
=============================================================================
