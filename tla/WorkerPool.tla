------------------------------ MODULE WorkerPool ------------------------------
(***************************************************************************)
(* services/craftAssistWorkerPool.js: a fixed number of slots, each with a *)
(* worker thread that computes one selection at a time.  The main thread   *)
(* knows of a worker only through its events, so what a worker does is one *)
(* step with the delivery of the event: a result, the error and then the   *)
(* exit of a crash, the exit of a worker that was terminated.  A slot gets *)
(* a new worker when it loses its own; events of a former one are ignored. *)
(***************************************************************************)
EXTENDS Integers, Sequences, FiniteSets

CONSTANTS MaxTasks,     \* bound: requests in a behaviour
          PoolSize,     \* slots (two in the code)
          RetryLimit,   \* maxTaskRetries (one in the code)
          MaxCrashes    \* bound: workers that crash in a behaviour

ASSUME WorkerPoolAssumption ==
    /\ MaxTasks \in Nat \ {0}
    /\ PoolSize \in Nat \ {0}
    /\ RetryLimit \in Nat
    /\ MaxCrashes \in Nat

VARIABLES
    tasks,      \* task -> [state, retries, begun]
    queue,      \* tasks that wait for a worker
    slots,      \* slot -> [worker, task]: state.worker and state.activeTask
    workers,    \* thread -> [slot, state, job]; the job is what it has not answered
    closed,
    deaths,     \* history: task -> crashes of a worker that had it
    crashes     \* crashes so far

vars == <<tasks, queue, slots, workers, closed, deaths, crashes>>

-----------------------------------------------------------------------------
\* A request is named by its requestSeq.
Tasks == 1 .. MaxTasks

Slots == 1 .. PoolSize

\* Enough for one worker per slot and for those that end in a time-out, which
\* answers a task, or a crash.
WorkerIds == 1 .. PoolSize + MaxTasks + MaxCrashes

NoTask == 0

NoWorker == [slot |-> 0, state |-> "none", job |-> NoTask]

Init ==
    /\ tasks = [t \in Tasks |-> [state |-> "new", retries |-> RetryLimit, begun |-> 0]]
    /\ queue = <<>>
    /\ slots = [s \in Slots |-> [worker |-> s, task |-> NoTask]]
    /\ workers = [w \in WorkerIds |->
                    IF w \in Slots THEN [slot |-> w, state |-> "live", job |-> NoTask]
                                   ELSE NoWorker]
    /\ closed = FALSE
    /\ deaths = [t \in Tasks |-> 0]
    /\ crashes = 0

-----------------------------------------------------------------------------
\* Mutant of Idle: a slot whose worker was replaced is not looked at.
IdleFirst(sl) == {s \in Slots : sl[s].worker = s /\ sl[s].task = NoTask}

Idle(sl) == {s \in Slots : sl[s].worker # 0 /\ sl[s].task = NoTask}

\* dispatch: idle slots, in order, take tasks from the head of the queue.
Dispatch(ts, q, sl, ws) ==
    LET idle == Idle(sl)
        turn == [s \in idle |-> Cardinality({r \in idle : r <= s})]
        given == {s \in idle : turn[s] <= Len(q)}
        taken == {q[turn[s]] : s \in given}
    IN  /\ slots' = [s \in Slots |-> IF s \in given THEN [sl[s] EXCEPT !.task = q[turn[s]]]
                                                    ELSE sl[s]]
        /\ queue' = SubSeq(q, Cardinality(given) + 1, Len(q))
        /\ tasks' = [t \in Tasks |->
                        IF t \in taken THEN [ts[t] EXCEPT !.state = "active", !.begun = @ + 1]
                                       ELSE ts[t]]
        /\ workers' = [w \in WorkerIds |->
                        IF ws[w].slot \in given /\ sl[ws[w].slot].worker = w
                        THEN [ws[w] EXCEPT !.job = q[turn[ws[w].slot]]] ELSE ws[w]]

\* Mutant of Settle: the caller of a task that was retried is not told.
SettleFirst(ts, t) == IF ts[t].retries = RetryLimit THEN [ts EXCEPT ![t].state = "answered"] ELSE ts

\* settleTask, with a result or a rejection.
Settle(ts, t) == [ts EXCEPT ![t].state = "answered"]

Freed(sl, s) == [sl EXCEPT ![s].task = NoTask]

\* spawnWorker.
Spawned(sl, ws, s) ==
    LET new == CHOOSE w \in WorkerIds : ws[w].state = "none"
    IN  [slots |-> [sl EXCEPT ![s].worker = new],
         workers |-> [ws EXCEPT ![new] = [slot |-> s, state |-> "live", job |-> NoTask]]]

\* selectForRecipe; a closed pool rejects at once and keeps no task.
Request(t) ==
    /\ ~closed
    /\ tasks[t].state = "new"
    /\ \A u \in 1 .. t - 1 : tasks[u].state # "new"
    /\ Dispatch([tasks EXCEPT ![t].state = "queued"], Append(queue, t), slots, workers)
    /\ UNCHANGED <<closed, deaths, crashes>>

-----------------------------------------------------------------------------
(* What the main thread hears.                                               *)

\* Mutant of Heard: the events of a former worker count as the slot's.
AnyWorker(w) == TRUE

Heard(w) == slots[workers[w].slot].worker = w

\* handleWorkerMessage: a worker answers the request it was posted.
OnResult(w) ==
    /\ workers[w].job # NoTask
    /\ LET t == workers[w].job
           ws == [workers EXCEPT ![w].job = NoTask]
           s == workers[w].slot
       IN  IF Heard(w) /\ slots[s].task = t
           THEN Dispatch(Settle(tasks, t), queue, Freed(slots, s), ws)
           ELSE workers' = ws /\ UNCHANGED <<tasks, queue, slots>>
    /\ UNCHANGED <<closed, deaths, crashes>>

MayRetry(t) == tasks[t].retries > 0

\* Mutant of Charged: the retry is not counted.
NotCharged(ts, t) == [ts EXCEPT ![t].state = "queued"]

Charged(ts, t) == [ts EXCEPT ![t].state = "queued", ![t].retries = @ - 1]

\* retireWorker: the task goes back to the head of the queue if it may be
\* retried, and is rejected if not; the slot gets a new worker.
Retire(s, ws) ==
    LET t == slots[s].task
        spawned == Spawned(Freed(slots, s), ws, s)
    IN  IF t = NoTask THEN Dispatch(tasks, queue, spawned.slots, spawned.workers)
        ELSE IF MayRetry(t)
        THEN Dispatch(Charged(tasks, t), <<t>> \o queue, spawned.slots, spawned.workers)
        ELSE Dispatch(Settle(tasks, t), queue, spawned.slots, spawned.workers)

\* The "error" of a worker that has crashed leaves its "exit" to come; a worker
\* that ends by itself has an "exit" only.
OnCrash(w, left) ==
    /\ workers[w].state = "live"
    /\ crashes < MaxCrashes
    /\ crashes' = crashes + 1
    /\ deaths' = [t \in Tasks |-> IF workers[w].job = t THEN deaths[t] + 1 ELSE deaths[t]]
    /\ Retire(workers[w].slot, [workers EXCEPT ![w] = left])
    /\ UNCHANGED closed

OnError(w) == OnCrash(w, [workers[w] EXCEPT !.state = "stopping", !.job = NoTask])

OnOwnExit(w) == OnCrash(w, NoWorker)

\* The "exit" of a worker that was given up, or whose "error" came before.
OnExit(w) ==
    /\ workers[w].state = "stopping"
    /\ LET ws == [workers EXCEPT ![w] = NoWorker]
       IN  IF Heard(w) THEN Retire(workers[w].slot, ws)
           ELSE workers' = ws /\ UNCHANGED <<tasks, queue, slots>>
    /\ UNCHANGED <<closed, deaths, crashes>>

\* The timer of assignTask: the worker is terminated, but may still answer.
Timeout(s) ==
    /\ slots[s].task # NoTask
    /\ LET ws == [workers EXCEPT ![slots[s].worker].state = "stopping"]
           spawned == Spawned(Freed(slots, s), ws, s)
       IN  Dispatch(Settle(tasks, slots[s].task), queue,
                    spawned.slots, spawned.workers)
    /\ UNCHANGED <<closed, deaths, crashes>>

\* close: what waits and what is computed is rejected, the workers terminated.
Close ==
    /\ ~closed
    /\ closed' = TRUE
    /\ tasks' = [t \in Tasks |-> IF tasks[t].state \in {"queued", "active"}
                                 THEN [tasks[t] EXCEPT !.state = "answered"] ELSE tasks[t]]
    /\ queue' = <<>>
    /\ slots' = [s \in Slots |-> [worker |-> 0, task |-> NoTask]]
    /\ workers' = [w \in WorkerIds |-> IF workers[w].state = "live"
                                       THEN [workers[w] EXCEPT !.state = "stopping"]
                                       ELSE workers[w]]
    /\ UNCHANGED <<deaths, crashes>>

Next ==
    \/ \E t \in Tasks : Request(t)
    \/ \E w \in WorkerIds : OnResult(w) \/ OnError(w) \/ OnOwnExit(w) \/ OnExit(w)
    \/ \E s \in Slots : Timeout(s)
    \/ Close

\* A timer is set whenever its slot has a task: this is WF_vars(Timeout(s)), spelled out.
TimerFires(s) == []<>(slots[s].task = NoTask) \/ []<><<Timeout(s)>>_vars

\* Only the timers of the main thread are fair: a worker may compute for ever.
Fairness == \A s \in Slots : TimerFires(s)

Spec == Init /\ [][Next]_vars /\ Fairness

-----------------------------------------------------------------------------
TypeOK ==
    /\ tasks \in [Tasks -> [state : {"new", "queued", "active", "answered"},
                            retries : 0 .. RetryLimit, begun : Nat]]
    /\ queue \in Seq(Tasks)
    /\ slots \in [Slots -> [worker : {0} \cup WorkerIds, task : 0 .. MaxTasks]]
    /\ workers \in [WorkerIds -> [slot : 0 .. PoolSize, state : {"none", "live", "stopping"},
                                  job : 0 .. MaxTasks]]
    /\ closed \in BOOLEAN
    /\ deaths \in [Tasks -> 0 .. MaxCrashes]
    /\ crashes \in 0 .. MaxCrashes

\* A task is charged a retry only for the crash of a worker it was posted to: not
\* for the exit of a terminated worker, nor twice for the error and the exit of one
\* (the guards state.worker !== worker).
OnlyCrashesCharged == \A t \in Tasks : RetryLimit - tasks[t].retries <= deaths[t]

\* A request waits only while every slot computes: whatever has freed a slot, be it
\* a result, a time-out, a crash or the exit of a worker, has also handed it the next
\* request, and close leaves none waiting (the calls of dispatch).
SlotsKeptBusy == queue # <<>> => ~closed /\ \A s \in Slots : slots[s].task # NoTask

\* What the callers see of the pool: TaskService, with a retry per crash.
ServicePhase ==
    [t \in Tasks |-> IF tasks[t].state = "queued" THEN "waiting"
                     ELSE IF tasks[t].state = "active" THEN "executing" ELSE tasks[t].state]

PoolService == INSTANCE TaskService WITH
    Capacity <- PoolSize, Attempts <- RetryLimit + 1,
    phase <- ServicePhase, begun <- [t \in Tasks |-> tasks[t].begun]

\* The pool implements the task service: one answer each, no more than PoolSize
\* at a time, no more than RetryLimit retries (settleTask, maybeRetryTask).
ImplementsService == PoolService!Service

\* Every request is answered in the end, whatever its workers do.
TasksAnswered == PoolService!Answered
===============================================================================
