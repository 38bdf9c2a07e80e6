-------------------------- MODULE WorkerPool_proofs --------------------------
(***************************************************************************)
(* Type correctness of WorkerPool, that a task is charged only for crashes *)
(* of its own workers, that tasks wait only while every slot computes, and *)
(* that the pool implements TaskService: for every number of tasks, slots, *)
(* retries and crashes.                                                    *)
(***************************************************************************)
EXTENDS WorkerPool, TLAPS, FiniteSetTheorems

Task == [state : {"new", "queued", "active", "answered"}, retries : 0 .. RetryLimit, begun : Nat]

Slot == [worker : {0} \cup WorkerIds, task : 0 .. MaxTasks]

Worker == [slot : 0 .. PoolSize, state : {"none", "live", "stopping"}, job : 0 .. MaxTasks]

-----------------------------------------------------------------------------
(* The inductive invariant, of the tasks, queue, slots and workers that an   *)
(* action gives to Dispatch as well as of those of a state.                  *)

InQueue(q, t) == \E i \in 1 .. Len(q) : q[i] = t

OnSlot(sl, t) == \E s \in Slots : sl[s].task = t

\* A queued task waits in the queue once, an active task is on one slot.
TaskSide(ts, q, sl) ==
    /\ ts \in [Tasks -> Task]
    /\ q \in Seq(Tasks)
    /\ \A i, j \in 1 .. Len(q) : q[i] = q[j] => i = j
    /\ \A r, s \in Slots : sl[r].task = sl[s].task /\ sl[r].task # NoTask => r = s
    /\ \A t \in Tasks : ts[t].state = "queued" <=> InQueue(q, t)
    /\ \A t \in Tasks : ts[t].state = "active" <=> OnSlot(sl, t)

\* The live workers are those the slots have, and compute the tasks of their slots.
WorkerSide(sl, ws) ==
    /\ sl \in [Slots -> Slot]
    /\ ws \in [WorkerIds -> Worker]
    /\ \A s \in Slots :
          IF sl[s].worker = 0 THEN sl[s].task = NoTask
          ELSE /\ ws[sl[s].worker].state = "live"
               /\ ws[sl[s].worker].slot = s
               /\ ws[sl[s].worker].job = sl[s].task
    /\ \A w \in WorkerIds :
          /\ ws[w].state = "live" => ws[w].slot \in Slots /\ sl[ws[w].slot].worker = w
          /\ ws[w].state = "stopping" => ws[w].slot \in Slots
          /\ ws[w].state = "none" => ws[w] = NoWorker

\* Each retry is one execution more.
WithinBudget(r) ==
    /\ r.state \in {"new", "queued"} => r.begun + r.retries <= RetryLimit
    /\ r.state = "active" => r.begun + r.retries <= RetryLimit + 1
    /\ r.begun <= RetryLimit + 1

Budget(ts) == \A t \in Tasks : WithinBudget(ts[t])

Stopping(ws) == {w \in WorkerIds : ws[w].state = "stopping"}

Answered(ts) == {t \in Tasks : ts[t].state = "answered"}

\* A worker is given up for a crash or a time-out only, until the pool is closed.
FewStopping(ts, ws, n) == Cardinality(Stopping(ws)) <= n + Cardinality(Answered(ts))

\* Each slot has a worker, until the pool is closed.
Staffed(sl) == \A s \in Slots : sl[s].worker # 0

IInv ==
    /\ TaskSide(tasks, queue, slots)
    /\ WorkerSide(slots, workers)
    /\ Budget(tasks)
    /\ closed \in BOOLEAN
    /\ closed => \A s \in Slots : slots[s].worker = 0
    /\ ~closed => Staffed(slots)
    /\ ~closed => FewStopping(tasks, workers, crashes)
    /\ crashes \in 0 .. MaxCrashes
    /\ deaths \in [Tasks -> Nat]
    /\ \A t \in Tasks : deaths[t] <= crashes
    /\ OnlyCrashesCharged
    /\ SlotsKeptBusy

-----------------------------------------------------------------------------
(* dispatch: idle slots take the tasks from the head of the queue.           *)

Turn(sl, s) == Cardinality({r \in Idle(sl) : r <= s})

Given(sl, k) == {s \in Idle(sl) : Turn(sl, s) <= k}

LEMMA FiniteSets ==
    /\ IsFiniteSet(Slots) /\ Cardinality(Slots) = PoolSize
    /\ IsFiniteSet(Tasks) /\ Cardinality(Tasks) = MaxTasks
    /\ IsFiniteSet(WorkerIds) /\ Cardinality(WorkerIds) = PoolSize + MaxTasks + MaxCrashes
BY FS_Interval, WorkerPoolAssumption DEF Slots, Tasks, WorkerIds

\* The idle slots that get a task, counted in their order.
LEMMA Turns ==
    ASSUME NEW sl, NEW k \in Nat
    PROVE  LET m == Cardinality(Given(sl, k))
           IN  /\ m \in 0 .. k
               /\ \A s \in Given(sl, k) : Turn(sl, s) \in 1 .. m
               /\ \A r, s \in Given(sl, k) : Turn(sl, r) = Turn(sl, s) => r = s
               /\ \A i \in 1 .. m : \E s \in Given(sl, k) : Turn(sl, s) = i
               /\ m < k => Idle(sl) = Given(sl, k)
<1> DEFINE idle == Idle(sl)
           upTo(s) == {r \in idle : r <= s}
           n == Cardinality(idle)
<1>1. idle \subseteq Slots /\ \A s \in idle : s \in Nat
  <2>1. \A s \in Slots : s \in Nat
    BY WorkerPoolAssumption DEF Slots
  <2> QED BY <2>1 DEF Idle
<1>2. IsFiniteSet(idle) /\ n \in Nat
  BY <1>1, FiniteSets, FS_Subset, FS_CardinalityType
<1>3. ASSUME NEW s \in idle
      PROVE  /\ IsFiniteSet(upTo(s)) /\ Turn(sl, s) = Cardinality(upTo(s))
             /\ Turn(sl, s) \in 1 .. n
  <2>1. IsFiniteSet(upTo(s)) /\ Cardinality(upTo(s)) <= n /\ Cardinality(upTo(s)) \in Nat
    BY <1>2, FS_Subset, FS_CardinalityType
  <2>2. s \in upTo(s)
    BY <1>1
  <2>3. Cardinality(upTo(s)) # 0
    BY <2>1, <2>2, FS_EmptySet
  <2> QED BY <1>2, <2>1, <2>3 DEF Turn
<1>4. \A s \in idle : Turn(sl, s) \in Nat
  <2>1. \A s \in idle : Turn(sl, s) \in 1 .. n
    BY <1>3
  <2> HIDE DEF n
  <2> QED BY <1>2, <2>1
<1>5. ASSUME NEW r \in idle, NEW s \in idle, r < s
      PROVE  Turn(sl, r) < Turn(sl, s)
  <2>1. upTo(r) \subseteq upTo(s) /\ s \in upTo(s) /\ s \notin upTo(r)
    BY <1>1, <1>5
  <2> DEFINE a == upTo(r)
             b == upTo(s)
  <2>2. IsFiniteSet(b) /\ Turn(sl, r) = Cardinality(a) /\ Turn(sl, s) = Cardinality(b)
        /\ a \subseteq b /\ a # b
    BY <1>3, <2>1
  <2> HIDE DEF a, b
  <2>3. Cardinality(a) <= Cardinality(b) /\ Cardinality(a) # Cardinality(b)
    BY <2>2, FS_Subset
  <2>4. Cardinality(a) \in Nat /\ Cardinality(b) \in Nat
    BY <1>4, <2>2
  <2> QED BY <2>2, <2>3, <2>4
<1>6. \A r, s \in idle : Turn(sl, r) = Turn(sl, s) => r = s
  <2> SUFFICES ASSUME NEW r \in idle, NEW s \in idle, r # s PROVE Turn(sl, r) # Turn(sl, s)
    OBVIOUS
  <2>1. r < s \/ s < r
    BY <1>1
  <2> QED BY <1>5, <1>4, <2>1
<1> HIDE DEF idle, n
<1>7. \A i \in 1 .. n : \E s \in idle : Turn(sl, s) = i
  <2> DEFINE f == [s \in idle |-> Turn(sl, s)]
  <2>1. f \in [idle -> 1 .. n] /\ \A s \in idle : f[s] = Turn(sl, s)
    BY <1>3
  <2> HIDE DEF f
  <2>2. f \in Injection(idle, 1 .. n)
    BY <1>6, <2>1 DEF Injection, IsInjective
  <2>3. IsFiniteSet(1 .. n) /\ Cardinality(1 .. n) = Cardinality(idle)
    BY <1>2, FS_Interval DEF n
  <2>4. f \in Surjection(idle, 1 .. n)
    BY <2>2, <2>3, FS_Injection
  <2> QED BY <2>1, <2>4 DEF Surjection
<1> DEFINE given == Given(sl, k)
           least == IF n <= k THEN n ELSE k
<1>8. given \subseteq idle /\ \A s \in given : Turn(sl, s) \in 1 .. least
  <2>1. given \subseteq idle /\ \A s \in given : Turn(sl, s) <= k
    BY DEF Given, idle
  <2>2. ASSUME NEW s \in given PROVE Turn(sl, s) \in 1 .. n /\ Turn(sl, s) <= k
    BY <1>3, <2>1
  <2> HIDE DEF given
  <2> QED BY <1>2, <2>1, <2>2
<1>9. \A i \in 1 .. least : \E s \in given : Turn(sl, s) = i
  BY <1>2, <1>7 DEF Given, idle
<1>10. least \in 0 .. k
  BY <1>2
<1> HIDE DEF given, least
<1>11. Cardinality(given) = least
  <2> DEFINE g == [s \in given |-> Turn(sl, s)]
  <2>1. g \in [given -> 1 .. least] /\ \A s \in given : g[s] = Turn(sl, s)
    BY <1>8
  <2> HIDE DEF g
  <2>2. g \in Injection(given, 1 .. least)
    BY <1>6, <1>8, <2>1 DEF Injection, IsInjective
  <2>3. g \in Surjection(given, 1 .. least)
    BY <1>9, <2>1 DEF Surjection
  <2>4. IsFiniteSet(1 .. least) /\ Cardinality(1 .. least) = least
    BY <1>10, FS_Interval
  <2> QED BY <2>2, <2>3, <2>4, FS_Injection
<1>12. least < k => idle \subseteq given
  <2> SUFFICES ASSUME least < k, NEW s \in idle PROVE s \in given
    OBVIOUS
  <2>1. Turn(sl, s) \in 1 .. n
    BY <1>3
  <2>2. n < k
    BY <1>2 DEF least
  <2>3. Turn(sl, s) <= k
    BY <1>2, <2>1, <2>2
  <2> QED BY <2>3 DEF given, Given, idle
<1>13. least < k => Idle(sl) = given
  BY <1>8, <1>12 DEF idle
<1> QED BY <1>6, <1>8, <1>9, <1>10, <1>11, <1>13 DEF given

\* Dispatch moves tasks from the queue to slots, and changes nothing else.
LEMMA DispatchKeeps ==
    ASSUME NEW ts, NEW q, NEW sl, NEW ws, TaskSide(ts, q, sl), WorkerSide(sl, ws), Budget(ts),
           Dispatch(ts, q, sl, ws)
    PROVE  /\ TaskSide(tasks', queue', slots') /\ WorkerSide(slots', workers') /\ Budget(tasks')
           /\ \A t \in Tasks :
                 \/ tasks'[t] = ts[t]
                 \/ /\ ts[t].state = "queued" /\ tasks'[t].state = "active"
                    /\ tasks'[t].begun = ts[t].begun + 1 /\ tasks'[t].retries = ts[t].retries
           /\ \A s \in Slots : slots'[s].worker = sl[s].worker
           /\ \A w \in WorkerIds : workers'[w].state = ws[w].state
           /\ Staffed(sl) /\ queue' # <<>> => \A s \in Slots : slots'[s].task # NoTask
<1> DEFINE k == Len(q)
           given == Given(sl, k)
           turn(s) == Turn(sl, s)
           m == Cardinality(given)
<1>1. /\ k \in Nat /\ q \in Seq(Tasks) /\ \A i \in 1 .. k : q[i] \in Tasks
      /\ ts \in [Tasks -> Task] /\ sl \in [Slots -> Slot] /\ ws \in [WorkerIds -> Worker]
  BY DEF TaskSide, WorkerSide
<1>2. /\ m \in 0 .. k
      /\ \A s \in given : turn(s) \in 1 .. m
      /\ \A r, s \in given : turn(r) = turn(s) => r = s
      /\ \A i \in 1 .. m : \E s \in given : turn(s) = i
      /\ m < k => Idle(sl) = given
  BY <1>1, Turns
<1>3. given = {s \in Idle(sl) : turn(s) <= k}
  BY DEF Given
<1>4. /\ slots' = [s \in Slots |-> IF s \in given THEN [sl[s] EXCEPT !.task = q[turn(s)]]
                                                  ELSE sl[s]]
      /\ queue' = SubSeq(q, m + 1, k)
      /\ tasks' = [t \in Tasks |->
                      IF t \in {q[turn(s)] : s \in given}
                      THEN [ts[t] EXCEPT !.state = "active", !.begun = @ + 1] ELSE ts[t]]
      /\ workers' = [w \in WorkerIds |->
                      IF ws[w].slot \in given /\ sl[ws[w].slot].worker = w
                      THEN [ws[w] EXCEPT !.job = q[turn(ws[w].slot)]] ELSE ws[w]]
  <2> DEFINE trn == [s \in Idle(sl) |-> Cardinality({r \in Idle(sl) : r <= s})]
             gvn == {s \in Idle(sl) : trn[s] <= Len(q)}
  <2>1. \A s \in Idle(sl) : trn[s] = turn(s)
    BY DEF Turn
  <2>2. gvn = given
    BY <2>1, <1>3
  <2>3. /\ slots' = [s \in Slots |-> IF s \in gvn THEN [sl[s] EXCEPT !.task = q[trn[s]]]
                                                  ELSE sl[s]]
        /\ queue' = SubSeq(q, Cardinality(gvn) + 1, Len(q))
        /\ tasks' = [t \in Tasks |->
                      IF t \in {q[trn[s]] : s \in gvn}
                      THEN [ts[t] EXCEPT !.state = "active", !.begun = @ + 1] ELSE ts[t]]
        /\ workers' = [w \in WorkerIds |->
                      IF ws[w].slot \in gvn /\ sl[ws[w].slot].worker = w
                      THEN [ws[w] EXCEPT !.job = q[trn[ws[w].slot]]] ELSE ws[w]]
    BY DEF Dispatch
  <2>4. given \subseteq Idle(sl)
    BY <1>3
  <2> HIDE DEF trn, gvn, given, k
  <2>5. {q[trn[s]] : s \in gvn} = {q[turn(s)] : s \in given}
    BY <2>1, <2>2, <2>4
  <2>6. \A s \in given : trn[s] = turn(s)
    BY <2>1, <2>4
  <2>7. tasks' = [t \in Tasks |->
                      IF t \in {q[turn(s)] : s \in given}
                      THEN [ts[t] EXCEPT !.state = "active", !.begun = @ + 1] ELSE ts[t]]
    BY <2>3, <2>5
  <2>8. slots' = [s \in Slots |-> IF s \in given THEN [sl[s] EXCEPT !.task = q[turn(s)]]
                                                 ELSE sl[s]]
    BY <2>2, <2>3, <2>6
  <2>9. workers' = [w \in WorkerIds |->
                      IF ws[w].slot \in given /\ sl[ws[w].slot].worker = w
                      THEN [ws[w] EXCEPT !.job = q[turn(ws[w].slot)]] ELSE ws[w]]
    BY <2>2, <2>3, <2>6
  <2> QED BY <2>2, <2>3, <2>7, <2>8, <2>9 DEF k
<1>5. \A s \in given : s \in Slots /\ sl[s].worker # 0 /\ sl[s].task = NoTask
  BY <1>3 DEF Idle
<1> HIDE DEF given, turn, m, k
<1>6. \A t : t \in {q[turn(s)] : s \in given} <=> \E i \in 1 .. m : q[i] = t
  BY <1>2
<1>7. /\ queue' \in Seq(Tasks) /\ Len(queue') = k - m
      /\ \A i \in 1 .. k - m : queue'[i] = q[m + i] /\ m + i \in 1 .. k
  <2>1. queue' = SubSeq(q, m + 1, k)
    BY <1>4
  <2>2. /\ queue' \in Seq(Tasks) /\ Len(queue') = k - m
        /\ \A i \in 1 .. k - m : queue'[i] = q[i + (m + 1) - 1]
    <3>1. k = Len(q)
      BY DEF k
    <3> QED BY <1>1, <1>2, <2>1, <3>1
  <2>3. \A i \in 1 .. k - m : i + (m + 1) - 1 = m + i /\ m + i \in 1 .. k
    BY <1>1, <1>2
  <2> QED BY <2>2, <2>3
<1>8. \A t \in Tasks : InQueue(queue', t) <=> \E i \in m + 1 .. k : q[i] = t
  <2>1. ASSUME NEW i \in m + 1 .. k PROVE i - m \in 1 .. k - m /\ m + (i - m) = i
    BY <1>1, <1>2
  <2>2. ASSUME NEW i \in 1 .. k - m PROVE m + i \in m + 1 .. k
    BY <1>1, <1>2
  <2> QED BY <1>7, <2>1, <2>2 DEF InQueue
<1>9. \A t \in Tasks : InQueue(q, t) <=> (\E i \in 1 .. m : q[i] = t) \/ InQueue(queue', t)
  <2>1. \A i : i \in 1 .. k <=> i \in 1 .. m \/ i \in m + 1 .. k
    BY <1>1, <1>2
  <2> QED BY <1>8, <2>1 DEF InQueue, k
<1>10. \A t \in Tasks : ~((\E i \in 1 .. m : q[i] = t) /\ InQueue(queue', t))
  <2>1. \A i \in 1 .. m, j \in m + 1 .. k : i \in 1 .. k /\ j \in 1 .. k /\ i # j
    BY <1>1, <1>2
  <2> QED BY <1>8, <2>1 DEF TaskSide, k
<1>11. \A i \in 1 .. m : q[i] \in Tasks /\ q[i] # NoTask /\ q[i] \in 0 .. MaxTasks /\ i \in 1 .. k
  BY <1>1, <1>2, WorkerPoolAssumption DEF Tasks, NoTask
<1>12. ASSUME NEW s \in Slots
       PROVE  /\ slots'[s] \in Slot /\ slots'[s].worker = sl[s].worker
              /\ s \in given => slots'[s].task = q[turn(s)]
              /\ s \notin given => slots'[s] = sl[s]
  <2>1. sl[s] \in Slot
    BY <1>1
  <2>2. CASE s \in given
    <3>1. slots'[s] = [sl[s] EXCEPT !.task = q[turn(s)]] /\ q[turn(s)] \in 0 .. MaxTasks
      BY <1>2, <1>4, <1>11, <2>2
    <3> QED BY <2>1, <2>2, <3>1 DEF Slot
  <2>3. CASE s \notin given
    BY <1>4, <2>1, <2>3
  <2> QED BY <2>2, <2>3
<1>13. slots' \in [Slots -> Slot]
  <2>1. slots' = [s \in Slots |-> slots'[s]]
    BY <1>4
  <2> QED BY <1>12, <2>1
<1>14. \A t \in Tasks : OnSlot(slots', t) <=> OnSlot(sl, t) \/ \E i \in 1 .. m : q[i] = t
  <2> SUFFICES ASSUME NEW t \in Tasks
               PROVE  OnSlot(slots', t) <=> OnSlot(sl, t) \/ \E i \in 1 .. m : q[i] = t
    OBVIOUS
  <2>1. t # NoTask
    BY WorkerPoolAssumption DEF Tasks, NoTask
  <2>2. \A s \in Slots : slots'[s].task = t =>
           sl[s].task = t \/ \E i \in 1 .. m : q[i] = t
    BY <1>2, <1>12
  <2>3. \A s \in Slots : sl[s].task = t => slots'[s].task = t
    BY <1>5, <1>12, <2>1
  <2>4. \A i \in 1 .. m : q[i] = t => \E s \in Slots : slots'[s].task = t
    BY <1>2, <1>5, <1>12
  <2> QED BY <2>2, <2>3, <2>4 DEF OnSlot
<1>15. ASSUME NEW r \in Slots, NEW s \in Slots, slots'[r].task = slots'[s].task,
              slots'[r].task # NoTask
       PROVE  r = s
  <2>1. \A t \in Tasks : ~((\E i \in 1 .. m : q[i] = t) /\ OnSlot(sl, t))
    <3>1. \A t \in Tasks : (\E i \in 1 .. m : q[i] = t) => ts[t].state = "queued"
      BY <1>9 DEF TaskSide
    <3> QED BY <3>1 DEF TaskSide
  <2>2. CASE r \in given /\ s \in given
    <3>1. q[turn(r)] = q[turn(s)] /\ turn(r) \in 1 .. k /\ turn(s) \in 1 .. k
      BY <1>2, <1>11, <1>12, <1>15, <2>2
    <3>2. turn(r) = turn(s)
      BY <3>1 DEF TaskSide, k
    <3> QED BY <1>2, <2>2, <3>2
  <2>3. CASE r \notin given /\ s \notin given
    BY <1>12, <1>15, <2>3 DEF TaskSide
  <2>4. CASE r \in given /\ s \notin given
    BY <1>2, <1>11, <1>12, <1>15, <2>1, <2>4 DEF OnSlot
  <2>5. CASE r \notin given /\ s \in given
    BY <1>2, <1>11, <1>12, <1>15, <2>1, <2>5 DEF OnSlot
  <2> QED BY <2>2, <2>3, <2>4, <2>5
<1>16. ASSUME NEW t \in Tasks
       PROVE  /\ tasks'[t] \in Task
              /\ IF \E i \in 1 .. m : q[i] = t
                 THEN /\ ts[t].state = "queued" /\ tasks'[t].state = "active"
                      /\ tasks'[t].begun = ts[t].begun + 1 /\ tasks'[t].retries = ts[t].retries
                 ELSE tasks'[t] = ts[t]
  <2>1. ts[t] \in Task
    BY <1>1
  <2>2. CASE \E i \in 1 .. m : q[i] = t
    <3>1. tasks'[t] = [ts[t] EXCEPT !.state = "active", !.begun = @ + 1]
      BY <1>4, <1>6, <2>2
    <3>2. ts[t].state = "queued"
      BY <1>9, <2>2 DEF TaskSide
    <3>5. ts[t].begun + 1 \in Nat
      BY <2>1 DEF Task
    <3>6. \A n \in Nat : [ts[t] EXCEPT !.state = "active", !.begun = n] \in Task
      BY <2>1 DEF Task
    <3>3. [ts[t] EXCEPT !.state = "active", !.begun = ts[t].begun + 1] \in Task
      BY <3>5, <3>6
    <3>4. /\ tasks'[t].state = "active" /\ tasks'[t].begun = ts[t].begun + 1
          /\ tasks'[t].retries = ts[t].retries
      BY <2>1, <3>1 DEF Task
    <3> QED BY <2>2, <3>1, <3>2, <3>3, <3>4
  <2>3. CASE ~\E i \in 1 .. m : q[i] = t
    BY <1>4, <1>6, <2>1, <2>3
  <2> QED BY <2>2, <2>3
<1>17. tasks' \in [Tasks -> Task]
  <2>1. tasks' = [t \in Tasks |-> tasks'[t]]
    BY <1>4
  <2> QED BY <1>16, <2>1
<1>18. TaskSide(tasks', queue', slots')
  <2>1. \A i, j \in 1 .. Len(queue') : queue'[i] = queue'[j] => i = j
    <3> SUFFICES ASSUME NEW i \in 1 .. k - m, NEW j \in 1 .. k - m, queue'[i] = queue'[j]
                 PROVE  i = j
      BY <1>7
    <3>1. m + i \in 1 .. k /\ m + j \in 1 .. k /\ q[m + i] = q[m + j]
      BY <1>7
    <3>2. m + i = m + j
      BY <3>1 DEF TaskSide, k
    <3> QED BY <1>1, <1>2, <3>2
  <2>2. \A t \in Tasks : tasks'[t].state = "queued" <=> InQueue(queue', t)
    BY <1>9, <1>10, <1>16 DEF TaskSide
  <2>3. \A t \in Tasks : tasks'[t].state = "active" <=> OnSlot(slots', t)
    <3> SUFFICES ASSUME NEW t \in Tasks PROVE tasks'[t].state = "active" <=> OnSlot(slots', t)
      OBVIOUS
    <3>1. ts[t].state = "active" <=> OnSlot(sl, t)
      BY DEF TaskSide
    <3> QED BY <1>14, <1>16, <3>1
  <2> QED BY <1>7, <1>15, <1>17, <2>1, <2>2, <2>3 DEF TaskSide
<1>19. Budget(tasks')
  <2> SUFFICES ASSUME NEW t \in Tasks PROVE WithinBudget(tasks'[t])
    BY DEF Budget
  <2>1. ts[t] \in Task /\ tasks'[t] \in Task /\ WithinBudget(ts[t])
    BY <1>1, <1>16 DEF Budget
  <2>2. ts[t].begun \in Nat /\ ts[t].retries \in Nat /\ RetryLimit \in Nat
    BY <2>1, WorkerPoolAssumption DEF Task
  <2>3. CASE \E i \in 1 .. m : q[i] = t
    <3>1. /\ ts[t].state = "queued" /\ tasks'[t].state = "active"
          /\ tasks'[t].begun = ts[t].begun + 1 /\ tasks'[t].retries = ts[t].retries
      BY <1>16, <2>3
    <3> QED BY <2>1, <2>2, <3>1 DEF WithinBudget
  <2>4. CASE ~\E i \in 1 .. m : q[i] = t
    BY <1>16, <2>1, <2>4
  <2> QED BY <2>3, <2>4
<1>20. ASSUME NEW w \in WorkerIds
       PROVE  /\ workers'[w] \in Worker
              /\ workers'[w].state = ws[w].state /\ workers'[w].slot = ws[w].slot
              /\ ws[w].slot \in given /\ sl[ws[w].slot].worker = w
                    => workers'[w].job = q[turn(ws[w].slot)]
              /\ ~(ws[w].slot \in given /\ sl[ws[w].slot].worker = w) => workers'[w] = ws[w]
  <2>1. ws[w] \in Worker
    BY <1>1
  <2>2. CASE ws[w].slot \in given /\ sl[ws[w].slot].worker = w
    <3> DEFINE j == q[turn(ws[w].slot)]
    <3>1. workers'[w] = [ws[w] EXCEPT !.job = j] /\ j \in 0 .. MaxTasks
      BY <1>2, <1>4, <1>11, <2>2
    <3> HIDE DEF j
    <3>2. workers'[w] \in Worker /\ workers'[w].job = j
          /\ workers'[w].state = ws[w].state /\ workers'[w].slot = ws[w].slot
      BY <2>1, <3>1 DEF Worker
    <3> QED BY <2>2, <3>2 DEF j
  <2>3. CASE ~(ws[w].slot \in given /\ sl[ws[w].slot].worker = w)
    BY <1>4, <2>1, <2>3
  <2> QED BY <2>2, <2>3
<1>21. workers' \in [WorkerIds -> Worker]
  <2>1. workers' = [w \in WorkerIds |-> workers'[w]]
    BY <1>4
  <2> QED BY <1>20, <2>1
<1>22. ASSUME NEW s \in Slots
       PROVE  IF slots'[s].worker = 0 THEN slots'[s].task = NoTask
              ELSE /\ workers'[slots'[s].worker].state = "live"
                   /\ workers'[slots'[s].worker].slot = s
                   /\ workers'[slots'[s].worker].job = slots'[s].task
  <2> DEFINE w == sl[s].worker
  <2>1. slots'[s].worker = w
    BY <1>12
  <2>2. IF w = 0 THEN sl[s].task = NoTask
        ELSE ws[w].state = "live" /\ ws[w].slot = s /\ ws[w].job = sl[s].task
    BY DEF WorkerSide
  <2>3. CASE w = 0
    BY <1>5, <1>12, <2>1, <2>2, <2>3
  <2>4. CASE w # 0
    <3>1. w \in WorkerIds
      BY <1>1, <2>4 DEF Slot
    <3> HIDE DEF w
    <3>2. workers'[w].state = "live" /\ workers'[w].slot = s
      BY <1>20, <2>2, <2>4, <3>1
    <3>3. workers'[w].job = slots'[s].task
      BY <1>12, <1>20, <2>2, <2>4, <3>1 DEF w
    <3> QED BY <2>1, <2>4, <3>2, <3>3
  <2> QED BY <2>3, <2>4
<1>23. ASSUME NEW w \in WorkerIds
       PROVE  /\ workers'[w].state = "live" =>
                    workers'[w].slot \in Slots /\ slots'[workers'[w].slot].worker = w
              /\ workers'[w].state = "stopping" => workers'[w].slot \in Slots
              /\ workers'[w].state = "none" => workers'[w] = NoWorker
  <2>1. /\ ws[w].state = "live" => ws[w].slot \in Slots /\ sl[ws[w].slot].worker = w
        /\ ws[w].state = "stopping" => ws[w].slot \in Slots
        /\ ws[w].state = "none" => ws[w] = NoWorker
    BY DEF WorkerSide
  <2>2. ws[w].state = "none" => ws[w].slot \notin given
    <3>1. 0 \notin Slots
      BY WorkerPoolAssumption DEF Slots
    <3>2. ws[w].state = "none" => ws[w].slot = 0
      BY <2>1 DEF NoWorker
    <3> QED BY <1>5, <3>1, <3>2
  <2> QED BY <1>12, <1>20, <2>1, <2>2
<1>24. WorkerSide(slots', workers')
  BY <1>13, <1>21, <1>22, <1>23 DEF WorkerSide
<1>25. ASSUME Staffed(sl), queue' # <<>>, NEW s \in Slots PROVE slots'[s].task # NoTask
  <2>1. Len(queue') \in Nat /\ Len(queue') # 0
    BY <1>7, <1>25
  <2>2. m < k
    BY <1>1, <1>2, <1>7, <2>1
  <2>3. CASE s \in given
    BY <1>2, <1>11, <1>12, <2>3
  <2>4. CASE s \notin given
    <3>1. s \notin Idle(sl)
      BY <1>2, <2>2, <2>4
    <3> QED BY <1>12, <1>25, <2>4, <3>1 DEF Idle, Staffed
  <2> QED BY <2>3, <2>4
<1> QED BY <1>12, <1>16, <1>18, <1>19, <1>20, <1>24, <1>25

-----------------------------------------------------------------------------
(* What the actions give to Dispatch.                                        *)

\* A slot has lost its worker: there is an id for the next, since few are stopping.
LEMMA FreshWorker ==
    ASSUME NEW sl, NEW ws, WorkerSide(sl, ws), NEW s \in Slots, sl[s].worker # 0,
           NEW wt, wt[sl[s].worker].state # "live",
           \A v \in WorkerIds \ {sl[s].worker} : wt[v] = ws[v],
           \A v \in WorkerIds : wt[v].state \in {"none", "live", "stopping"},
           Cardinality(Stopping(wt)) <= MaxTasks + MaxCrashes
    PROVE  \E v \in WorkerIds : wt[v].state = "none"
<1> SUFFICES ASSUME \A v \in WorkerIds : wt[v].state # "none" PROVE FALSE
  OBVIOUS
<1> DEFINE live == {v \in WorkerIds : wt[v].state = "live"}
           others == Slots \ {s}
           f == [v \in live |-> ws[v].slot]
<1>1. ASSUME NEW v \in live
      PROVE  ws[v].slot \in others /\ sl[ws[v].slot].worker = v
  <2>1. v # sl[s].worker /\ wt[v] = ws[v] /\ ws[v].state = "live"
    OBVIOUS
  <2> QED BY <2>1 DEF WorkerSide
<1>2. f \in Injection(live, others)
  <2>1. f \in [live -> others] /\ \A v \in live : f[v] = ws[v].slot
    BY <1>1
  <2>2. \A u, v \in live : f[u] = f[v] => u = v
    BY <1>1, <2>1
  <2> HIDE DEF f
  <2> QED BY <2>1, <2>2 DEF Injection, IsInjective
<1>3. IsFiniteSet(others) /\ Cardinality(others) = PoolSize - 1
  BY FiniteSets, FS_RemoveElement
<1> HIDE DEF f, others
<1>4. IsFiniteSet(live) /\ Cardinality(live) <= PoolSize - 1 /\ Cardinality(live) \in Nat
  BY <1>2, <1>3, FS_Injection, FS_CardinalityType
<1> DEFINE stopping == Stopping(wt)
<1>5. WorkerIds = live \cup stopping /\ live \cap stopping = {}
  BY DEF Stopping
<1>6. IsFiniteSet(stopping) /\ Cardinality(stopping) \in Nat
  <2>1. stopping \subseteq WorkerIds
    BY DEF Stopping
  <2> QED BY <2>1, FiniteSets, FS_Subset, FS_CardinalityType
<1> HIDE DEF live
<1>7. Cardinality(WorkerIds) = Cardinality(live) + Cardinality(stopping) - Cardinality({})
  <2> HIDE DEF stopping
  <2> QED BY <1>4, <1>5, <1>6, FS_Union
<1> QED BY <1>4, <1>6, <1>7, FiniteSets, FS_EmptySet, WorkerPoolAssumption

\* The slot that lost its worker has a new one, without a task.
LEMMA Respawn ==
    ASSUME NEW sl, NEW ws, WorkerSide(sl, ws), NEW s \in Slots, sl[s].worker # 0,
           NEW e \in Worker, e.state # "live",
           e.state = "stopping" => e.slot \in Slots, e.state = "none" => e = NoWorker,
           NEW wt, wt \in [WorkerIds -> Worker], wt[sl[s].worker] = e,
           \A v \in WorkerIds \ {sl[s].worker} : wt[v] = ws[v],
           Cardinality(Stopping(wt)) <= MaxTasks + MaxCrashes
    PROVE  LET sp == Spawned(Freed(sl, s), wt, s)
           IN  /\ WorkerSide(sp.slots, sp.workers)
               /\ \A r \in Slots : sp.slots[r].task = IF r = s THEN NoTask ELSE sl[r].task
               /\ Stopping(sp.workers) = Stopping(wt)
               /\ Staffed(sl) => Staffed(sp.slots)
<1> DEFINE w == sl[s].worker
           new == CHOOSE v \in WorkerIds : wt[v].state = "none"
           next == [slot |-> s, state |-> "live", job |-> NoTask]
           st == [Freed(sl, s) EXCEPT ![s].worker = new]
           wn == [wt EXCEPT ![new] = next]
<1>1. /\ sl \in [Slots -> Slot] /\ ws \in [WorkerIds -> Worker]
      /\ w \in WorkerIds /\ ws[w].state = "live"
  BY DEF WorkerSide, Slot
<1>2. wt \in [WorkerIds -> Worker] /\ wt[w] = e /\ \A v \in WorkerIds \ {w} : wt[v] = ws[v]
  OBVIOUS
<1>3. new \in WorkerIds /\ wt[new].state = "none"
  <2>1. \A v \in WorkerIds : wt[v].state \in {"none", "live", "stopping"}
    BY <1>2 DEF Worker
  <2>2. /\ wt[sl[s].worker].state # "live"
        /\ \A v \in WorkerIds \ {sl[s].worker} : wt[v] = ws[v]
    BY <1>2
  <2> HIDE DEF w
  <2>3. \E v \in WorkerIds : wt[v].state = "none"
    BY <2>1, <2>2, FreshWorker
  <2> QED BY <2>3
<1>4. next \in Worker /\ next.state = "live" /\ next.slot = s /\ next.job = NoTask
  BY WorkerPoolAssumption DEF Worker, Slots, NoTask
<1> HIDE DEF new, next
<1>5. /\ st \in [Slots -> Slot] /\ st[s].worker = new /\ st[s].task = NoTask
      /\ \A r \in Slots \ {s} : st[r] = sl[r]
  <2> DEFINE a == [sl[s] EXCEPT !.task = NoTask]
             u == [a EXCEPT !.worker = new]
  <2>1. st = [sl EXCEPT ![s] = u]
    BY <1>1 DEF Freed
  <2>3. a \in Slot /\ a.task = NoTask
    BY <1>1, WorkerPoolAssumption DEF Slot, NoTask
  <2> HIDE DEF a
  <2>2. u \in Slot /\ u.worker = new /\ u.task = NoTask
    BY <1>3, <2>3 DEF Slot
  <2> HIDE DEF u
  <2> QED BY <1>1, <2>1, <2>2
<1>6. /\ wn \in [WorkerIds -> Worker] /\ wn[new] = next
      /\ \A v \in WorkerIds \ {new} : wn[v] = wt[v]
  BY <1>2, <1>3, <1>4
<1> HIDE DEF st, wn
<1>7. new # 0
  BY <1>3, WorkerPoolAssumption DEF WorkerIds
<1>8. ASSUME NEW r \in Slots
      PROVE  IF st[r].worker = 0 THEN st[r].task = NoTask
             ELSE /\ wn[st[r].worker].state = "live"
                  /\ wn[st[r].worker].slot = r
                  /\ wn[st[r].worker].job = st[r].task
  <2>1. CASE r = s
    BY <1>4, <1>5, <1>6, <1>7, <2>1
  <2>2. CASE r # s
    <3> DEFINE v == sl[r].worker
    <3>1. /\ st[r] = sl[r]
          /\ IF v = 0 THEN sl[r].task = NoTask
             ELSE ws[v].state = "live" /\ ws[v].slot = r /\ ws[v].job = sl[r].task
      BY <1>5, <2>2 DEF WorkerSide
    <3>2. CASE v = 0
      BY <3>1, <3>2
    <3>3. CASE v # 0
      <4>1. v \in WorkerIds /\ v # w
        BY <1>1, <2>2, <3>1, <3>3 DEF Slot, WorkerSide
      <4>2. wt[v] = ws[v] /\ v # new
        BY <1>2, <1>3, <3>1, <3>3, <4>1
      <4>3. wn[v] = ws[v]
        BY <1>6, <4>1, <4>2
      <4> QED BY <3>1, <3>3, <4>3
    <3> QED BY <3>2, <3>3
  <2> QED BY <2>1, <2>2
<1>9. ASSUME NEW v \in WorkerIds
      PROVE  /\ wn[v].state = "live" => wn[v].slot \in Slots /\ st[wn[v].slot].worker = v
             /\ wn[v].state = "stopping" => wn[v].slot \in Slots
             /\ wn[v].state = "none" => wn[v] = NoWorker
  <2>1. CASE v = new
    BY <1>4, <1>5, <1>6, <2>1
  <2>2. CASE v # new /\ v = w
    BY <1>2, <1>6, <2>2
  <2>3. CASE v # new /\ v # w
    <3>1. wn[v] = ws[v]
      BY <1>2, <1>6, <2>3
    <3>2. /\ ws[v].state = "live" => ws[v].slot \in Slots /\ sl[ws[v].slot].worker = v
          /\ ws[v].state = "stopping" => ws[v].slot \in Slots
          /\ ws[v].state = "none" => ws[v] = NoWorker
      BY DEF WorkerSide
    <3> QED BY <1>5, <2>3, <3>1, <3>2
  <2> QED BY <2>1, <2>2, <2>3
<1>10. Stopping(wn) = Stopping(wt)
  BY <1>3, <1>4, <1>6 DEF Stopping
<1>11. WorkerSide(st, wn)
  BY <1>5, <1>6, <1>8, <1>9 DEF WorkerSide
<1>12. Spawned(Freed(sl, s), wt, s).slots = st /\ Spawned(Freed(sl, s), wt, s).workers = wn
  BY DEF Spawned, st, wn, new, next
<1>13. Staffed(sl) => Staffed(st)
  BY <1>5, <1>7 DEF Staffed
<1> QED BY <1>5, <1>10, <1>11, <1>12, <1>13

\* The task of the slot is answered, or goes back to the head of the queue.
LEMMA SettledTask ==
    ASSUME NEW ts, NEW q, NEW sl, TaskSide(ts, q, sl), NEW s \in Slots, sl[s].task \in Tasks,
           NEW st, \A r \in Slots : st[r].task = IF r = s THEN NoTask ELSE sl[r].task
    PROVE  /\ TaskSide(Settle(ts, sl[s].task), q, st)
           /\ ts[sl[s].task].state = "active"
           /\ \A t \in Tasks : t # sl[s].task => Settle(ts, sl[s].task)[t] = ts[t]
           /\ Settle(ts, sl[s].task)[sl[s].task] = [ts[sl[s].task] EXCEPT !.state = "answered"]
<1> DEFINE t == sl[s].task
           tn == Settle(ts, t)
<1>1. t \in Tasks /\ t # NoTask /\ ts \in [Tasks -> Task] /\ ts[t] \in Task
  BY WorkerPoolAssumption DEF TaskSide, Tasks, NoTask
<1>2. ts[t].state = "active" /\ ~InQueue(q, t)
  <2>1. OnSlot(sl, t)
    BY DEF OnSlot
  <2> QED BY <1>1, <2>1 DEF TaskSide
<1>3. /\ tn = [ts EXCEPT ![t] = [ts[t] EXCEPT !.state = "answered"]]
      /\ [ts[t] EXCEPT !.state = "answered"] \in Task
      /\ [ts[t] EXCEPT !.state = "answered"].state = "answered"
  BY <1>1 DEF Settle, Task
<1>4. /\ tn \in [Tasks -> Task] /\ tn[t].state = "answered"
      /\ \A u \in Tasks \ {t} : tn[u] = ts[u]
  <2> DEFINE a == [ts[t] EXCEPT !.state = "answered"]
  <2> HIDE DEF a, tn
  <2> QED BY <1>1, <1>3 DEF a
<1>5. \A u \in Tasks : OnSlot(st, u) <=> OnSlot(sl, u) /\ u # t
  <2>1. \A u \in Tasks : u # NoTask
    BY WorkerPoolAssumption DEF Tasks, NoTask
  <2>2. \A r \in Slots : sl[r].task = t => r = s
    BY <1>1 DEF TaskSide
  <2> QED BY <2>1, <2>2 DEF OnSlot
<1> HIDE DEF tn
<1>6. /\ \A u \in Tasks : tn[u].state = "queued" <=> InQueue(q, u)
      /\ \A u \in Tasks : tn[u].state = "active" <=> OnSlot(st, u)
  BY <1>2, <1>4, <1>5 DEF TaskSide
<1>7. TaskSide(tn, q, st)
  BY <1>4, <1>6 DEF TaskSide
<1> QED BY <1>1, <1>2, <1>3, <1>4, <1>7 DEF tn

LEMMA ChargedTask ==
    ASSUME NEW q, NEW sl, NEW s \in Slots, TaskSide(tasks, q, sl), sl[s].task \in Tasks,
           MayRetry(sl[s].task),
           NEW st, \A r \in Slots : st[r].task = IF r = s THEN NoTask ELSE sl[r].task
    PROVE  /\ TaskSide(Charged(tasks, sl[s].task), <<sl[s].task>> \o q, st)
           /\ tasks[sl[s].task].state = "active"
           /\ \A t \in Tasks : t # sl[s].task => Charged(tasks, sl[s].task)[t] = tasks[t]
           /\ LET u == Charged(tasks, sl[s].task)[sl[s].task]
              IN  /\ u.state = "queued" /\ u.begun = tasks[sl[s].task].begun
                  /\ u.retries = tasks[sl[s].task].retries - 1
<1> DEFINE t == sl[s].task
           tn == Charged(tasks, t)
           qn == <<t>> \o q
<1>1. /\ t \in Tasks /\ t # NoTask /\ tasks \in [Tasks -> Task] /\ tasks[t] \in Task
      /\ q \in Seq(Tasks)
  BY WorkerPoolAssumption DEF TaskSide, Tasks, NoTask
<1>2. tasks[t].state = "active" /\ ~InQueue(q, t)
  <2>1. OnSlot(sl, t)
    BY DEF OnSlot
  <2> QED BY <1>1, <2>1 DEF TaskSide
<1>3. /\ tn \in [Tasks -> Task] /\ tn[t].state = "queued" /\ tn[t].begun = tasks[t].begun
      /\ tn[t].retries = tasks[t].retries - 1
      /\ \A u \in Tasks \ {t} : tn[u] = tasks[u]
  <2> DEFINE n == tasks[t].retries - 1
             a == [tasks[t] EXCEPT !.state = "queued", !.retries = n]
  <2>1. tasks[t].retries \in 0 .. RetryLimit /\ tasks[t].retries > 0
    BY <1>1 DEF Task, MayRetry
  <2>2. n \in 0 .. RetryLimit
    BY <2>1, WorkerPoolAssumption
  <2>3. tn = [tasks EXCEPT ![t] = a]
    BY <1>1 DEF Charged
  <2> HIDE DEF n
  <2>4. a \in Task
    BY <1>1, <2>2 DEF Task
  <2>5. a.state = "queued" /\ a.retries = n /\ a.begun = tasks[t].begun
    BY <1>1 DEF Task
  <2> HIDE DEF a, tn
  <2> QED BY <1>1, <2>3, <2>4, <2>5 DEF n
<1>4. \A u \in Tasks : OnSlot(st, u) <=> OnSlot(sl, u) /\ u # t
  <2>1. \A u \in Tasks : u # NoTask
    BY WorkerPoolAssumption DEF Tasks, NoTask
  <2>2. \A r \in Slots : sl[r].task = t => r = s
    BY <1>1 DEF TaskSide
  <2> QED BY <2>1, <2>2 DEF OnSlot
<1>5. /\ qn \in Seq(Tasks) /\ Len(qn) = Len(q) + 1 /\ Len(q) \in Nat /\ qn[1] = t
      /\ \A i \in 2 .. Len(qn) : qn[i] = q[i - 1] /\ i - 1 \in 1 .. Len(q)
      /\ \A i \in 1 .. Len(q) : q[i] = qn[i + 1] /\ i + 1 \in 2 .. Len(qn)
  BY <1>1
<1> HIDE DEF tn, qn
<1>6. \A u \in Tasks : InQueue(qn, u) <=> InQueue(q, u) \/ u = t
  <2>1. \A i \in 1 .. Len(qn) : i = 1 \/ i \in 2 .. Len(qn)
    BY <1>5
  <2>2. 1 \in 1 .. Len(qn) /\ \A i \in 2 .. Len(qn) : i \in 1 .. Len(qn)
    BY <1>5
  <2>3. ASSUME NEW u \in Tasks, NEW i \in 1 .. Len(qn), qn[i] = u
        PROVE  InQueue(q, u) \/ u = t
    BY <1>5, <2>1, <2>3 DEF InQueue
  <2>4. ASSUME NEW u \in Tasks, NEW i \in 1 .. Len(q), q[i] = u
        PROVE  InQueue(qn, u)
    BY <1>5, <2>2, <2>4 DEF InQueue
  <2>5. InQueue(qn, t)
    BY <1>5, <2>2 DEF InQueue
  <2> QED BY <2>3, <2>4, <2>5 DEF InQueue
<1>7. \A i, j \in 1 .. Len(qn) : qn[i] = qn[j] => i = j
  <2>1. \A i \in 1 .. Len(qn) : i = 1 \/ (i \in 2 .. Len(qn) /\ qn[i] # t)
    BY <1>2, <1>5 DEF InQueue
  <2>2. ASSUME NEW i \in 2 .. Len(qn), NEW j \in 2 .. Len(qn), qn[i] = qn[j]
        PROVE  i = j
    <3>1. /\ i - 1 \in 1 .. Len(q) /\ j - 1 \in 1 .. Len(q)
          /\ q[i - 1] = q[j - 1]
      BY <1>5, <2>2
    <3>2. i - 1 = j - 1
      BY <3>1 DEF TaskSide
    <3> QED BY <3>2
  <2> QED BY <1>5, <2>1, <2>2
<1>8. /\ \A u \in Tasks : tn[u].state = "queued" <=> InQueue(qn, u)
      /\ \A u \in Tasks : tn[u].state = "active" <=> OnSlot(st, u)
  <2>1. /\ \A u \in Tasks : tasks[u].state = "queued" <=> InQueue(q, u)
        /\ \A u \in Tasks : tasks[u].state = "active" <=> OnSlot(sl, u)
    BY DEF TaskSide
  <2> QED BY <1>2, <1>3, <1>4, <1>6, <2>1
<1>9. TaskSide(tn, qn, st)
  BY <1>3, <1>5, <1>7, <1>8 DEF TaskSide
<1> QED BY <1>2, <1>3, <1>9 DEF tn, qn

-----------------------------------------------------------------------------
(* The steps: what they do to each task, and to the invariant.               *)

\* Before Dispatch hands out the tasks.
Prepared(a, b) ==
    /\ b.begun = a.begun
    /\ \/ b.state = a.state
       \/ a.state = "new" /\ b.state = "queued"
       \/ a.state \in {"queued", "active"} /\ b.state \in {"queued", "answered"}

TaskStep(a, b) ==
    \/ Prepared(a, b)
    \/ a.state # "answered" /\ b.state = "active" /\ b.begun = a.begun + 1

StepOK == IInv' /\ \A t \in Tasks : TaskStep(tasks[t], tasks'[t])

LEMMA Counts ==
    ASSUME NEW ts, NEW ws
    PROVE  /\ IsFiniteSet(Stopping(ws)) /\ Cardinality(Stopping(ws)) \in Nat
           /\ IsFiniteSet(Answered(ts)) /\ Cardinality(Answered(ts)) \in Nat
           /\ Cardinality(Answered(ts)) <= MaxTasks
<1>1. Stopping(ws) \subseteq WorkerIds /\ Answered(ts) \subseteq Tasks
  BY DEF Stopping, Answered
<1> DEFINE st == Stopping(ws)
           an == Answered(ts)
<1>2. st \in SUBSET WorkerIds /\ an \in SUBSET Tasks
  BY <1>1
<1> HIDE DEF st, an
<1>3. IsFiniteSet(st) /\ IsFiniteSet(an) /\ Cardinality(an) <= Cardinality(Tasks)
  BY <1>2, FiniteSets, FS_Subset
<1>4. Cardinality(st) \in Nat /\ Cardinality(an) \in Nat
  BY <1>3, FS_CardinalityType
<1> QED BY <1>3, <1>4, FiniteSets, WorkerPoolAssumption DEF st, an

LEMMA AfterDispatch ==
    ASSUME IInv, ~closed, UNCHANGED closed,
           NEW ts, NEW q, NEW sl, NEW ws,
           TaskSide(ts, q, sl), WorkerSide(sl, ws), Staffed(sl), Budget(ts), Dispatch(ts, q, sl, ws),
           \A t \in Tasks : Prepared(tasks[t], ts[t]),
           crashes' \in 0 .. MaxCrashes, FewStopping(ts, ws, crashes'),
           deaths' \in [Tasks -> Nat],
           \A t \in Tasks : deaths'[t] <= crashes' /\ RetryLimit - ts[t].retries <= deaths'[t]
    PROVE  StepOK
<1>1. /\ TaskSide(tasks', queue', slots') /\ WorkerSide(slots', workers') /\ Budget(tasks')
      /\ \A t \in Tasks :
            \/ tasks'[t] = ts[t]
            \/ /\ ts[t].state = "queued" /\ tasks'[t].state = "active"
               /\ tasks'[t].begun = ts[t].begun + 1 /\ tasks'[t].retries = ts[t].retries
      /\ \A w \in WorkerIds : workers'[w].state = ws[w].state
      /\ \A s \in Slots : slots'[s].worker = sl[s].worker
      /\ queue' # <<>> => \A s \in Slots : slots'[s].task # NoTask
  BY DispatchKeeps
<1>2. Stopping(workers') = Stopping(ws) /\ Answered(tasks') = Answered(ts)
  BY <1>1 DEF Stopping, Answered
<1>3. FewStopping(tasks', workers', crashes')
  BY <1>2 DEF FewStopping
<1>4. \A t \in Tasks : RetryLimit - tasks'[t].retries <= deaths'[t]
  BY <1>1
<1>5. IInv'
  <2>1. closed' \in BOOLEAN /\ ~closed'
    BY DEF IInv
  <2>2. \A t \in Tasks : deaths'[t] <= crashes'
    OBVIOUS
  <2>3. Staffed(slots')
    BY <1>1 DEF Staffed
  <2>4. SlotsKeptBusy'
    BY <1>1, <2>1 DEF SlotsKeptBusy
  <2> QED BY <1>1, <1>3, <1>4, <2>1, <2>2, <2>3, <2>4 DEF IInv, OnlyCrashesCharged
<1>6. \A t \in Tasks : TaskStep(tasks[t], tasks'[t])
  BY <1>1 DEF TaskStep, Prepared
<1> QED BY <1>5, <1>6 DEF StepOK

\* What is used of the invariant everywhere.
LEMMA PoolTypes ==
    ASSUME IInv
    PROVE  /\ TaskSide(tasks, queue, slots) /\ WorkerSide(slots, workers) /\ Budget(tasks)
           /\ tasks \in [Tasks -> Task] /\ slots \in [Slots -> Slot]
           /\ workers \in [WorkerIds -> Worker] /\ queue \in Seq(Tasks)
           /\ \A t \in Tasks : tasks[t].begun \in Nat /\ tasks[t].retries \in Nat
           /\ \A s \in Slots : slots[s].task # NoTask => slots[s].task \in Tasks
           /\ 0 \notin WorkerIds /\ NoTask \notin Tasks /\ 0 \notin Slots
           /\ crashes \in Nat /\ deaths \in [Tasks -> Nat] /\ RetryLimit \in Nat
           /\ \A t \in Tasks : deaths[t] <= crashes /\ RetryLimit - tasks[t].retries <= deaths[t]
           /\ ~closed => Staffed(slots)
<1>1. \A u \in Task : u.begun \in Nat /\ u.retries \in Nat
  BY WorkerPoolAssumption DEF Task
<1>2. \A u \in Slot : u.task # NoTask => u.task \in Tasks
  BY WorkerPoolAssumption DEF Slot, Tasks, NoTask
<1>3. TaskSide(tasks, queue, slots) /\ WorkerSide(slots, workers)
  BY DEF IInv
<1>4. /\ tasks \in [Tasks -> Task] /\ slots \in [Slots -> Slot]
      /\ workers \in [WorkerIds -> Worker] /\ queue \in Seq(Tasks)
  BY <1>3 DEF TaskSide, WorkerSide
<1>5. 0 \notin WorkerIds /\ NoTask \notin Tasks /\ 0 \notin Slots
  BY WorkerPoolAssumption DEF WorkerIds, Tasks, NoTask, Slots
<1>6. /\ crashes \in Nat /\ deaths \in [Tasks -> Nat] /\ RetryLimit \in Nat
      /\ \A t \in Tasks : deaths[t] <= crashes /\ RetryLimit - tasks[t].retries <= deaths[t]
  BY WorkerPoolAssumption DEF IInv, OnlyCrashesCharged
<1> QED BY <1>1, <1>2, <1>3, <1>4, <1>5, <1>6 DEF IInv

LEMMA RequestStep == ASSUME IInv, NEW t \in Tasks, Request(t) PROVE StepOK
<1> DEFINE ts == [tasks EXCEPT ![t].state = "queued"]
           q == Append(queue, t)
<1>1. /\ ~closed /\ tasks[t].state = "new" /\ Dispatch(ts, q, slots, workers)
      /\ UNCHANGED <<closed, deaths, crashes>>
  BY DEF Request
<1> HIDE DEF q
<1>2. /\ ts \in [Tasks -> Task] /\ ts[t].state = "queued" /\ ts[t].begun = tasks[t].begun
      /\ ts[t].retries = tasks[t].retries
      /\ \A u \in Tasks \ {t} : ts[u] = tasks[u]
  <2> DEFINE a == [tasks[t] EXCEPT !.state = "queued"]
  <2>1. tasks[t] \in Task /\ ts = [tasks EXCEPT ![t] = a]
    BY PoolTypes
  <2>2. /\ a \in Task /\ a.state = "queued" /\ a.begun = tasks[t].begun
        /\ a.retries = tasks[t].retries
    BY <2>1 DEF Task
  <2> HIDE DEF a, ts
  <2> QED BY <2>1, <2>2, PoolTypes
<1> HIDE DEF ts
<1>3. /\ q \in Seq(Tasks) /\ Len(q) = Len(queue) + 1 /\ Len(queue) \in Nat /\ q[Len(q)] = t
      /\ \A i \in 1 .. Len(queue) : q[i] = queue[i] /\ i \in 1 .. Len(q) /\ i # Len(q)
      /\ \A i \in 1 .. Len(q) : i = Len(q) \/ i \in 1 .. Len(queue)
      /\ Len(q) \in 1 .. Len(q)
  BY PoolTypes DEF q
<1>4. /\ \A u \in Tasks : tasks[u].state = "queued" <=> InQueue(queue, u)
      /\ \A u \in Tasks : tasks[u].state = "active" <=> OnSlot(slots, u)
      /\ \A i, j \in 1 .. Len(queue) : queue[i] = queue[j] => i = j
      /\ \A r, s \in Slots : slots[r].task = slots[s].task /\ slots[r].task # NoTask => r = s
  BY PoolTypes DEF TaskSide
<1>5. \A u \in Tasks : InQueue(q, u) <=> InQueue(queue, u) \/ u = t
  BY <1>3 DEF InQueue
<1>6. \A i, j \in 1 .. Len(q) : q[i] = q[j] => i = j
  <2>1. \A i \in 1 .. Len(queue) : q[i] # t
    BY <1>1, <1>3, <1>4 DEF InQueue
  <2> QED BY <1>3, <1>4, <2>1
<1>7. TaskSide(ts, q, slots)
  <2>1. /\ \A u \in Tasks : ts[u].state = "queued" <=> InQueue(q, u)
        /\ \A u \in Tasks : ts[u].state = "active" <=> OnSlot(slots, u)
    BY <1>1, <1>2, <1>4, <1>5
  <2> QED BY <1>2, <1>3, <1>4, <1>6, <2>1 DEF TaskSide
<1>8. Budget(ts)
  BY <1>1, <1>2, PoolTypes DEF Budget, WithinBudget
<1>9. \A u \in Tasks : Prepared(tasks[u], ts[u])
  BY <1>1, <1>2 DEF Prepared
<1>10. FewStopping(ts, workers, crashes)
  <2>1. Answered(ts) = Answered(tasks)
    BY <1>1, <1>2 DEF Answered
  <2> QED BY <1>1, <2>1 DEF IInv, FewStopping
<1>11. \A u \in Tasks : deaths[u] <= crashes /\ RetryLimit - ts[u].retries <= deaths[u]
  BY <1>2, PoolTypes
<1>12. crashes' \in 0 .. MaxCrashes /\ deaths' \in [Tasks -> Nat]
  BY <1>1 DEF IInv
<1> QED BY <1>1, <1>7, <1>8, <1>9, <1>10, <1>11, <1>12, PoolTypes, AfterDispatch

\* A step that concerns no slot and no task.
LEMMA KeepingStep ==
    ASSUME IInv, UNCHANGED <<tasks, queue, slots, closed, deaths, crashes>>,
           WorkerSide(slots, workers'), Stopping(workers') \subseteq Stopping(workers)
    PROVE  StepOK
<1>1. ~closed => FewStopping(tasks, workers', crashes)
  <2> DEFINE a == Stopping(workers')
             b == Stopping(workers)
  <2>1. a \subseteq b /\ IsFiniteSet(b) /\ Cardinality(b) \in Nat
    BY Counts
  <2> HIDE DEF a, b
  <2>2. Cardinality(a) <= Cardinality(b)
    BY <2>1, FS_Subset
  <2>3. ~closed => Cardinality(b) <= crashes + Cardinality(Answered(tasks))
    BY DEF IInv, FewStopping, b
  <2>4. Cardinality(a) \in Nat
    BY Counts DEF a
  <2>5. ~closed => Cardinality(a) <= crashes + Cardinality(Answered(tasks))
    <3> DEFINE n == Cardinality(Answered(tasks))
    <3>1. n \in Nat /\ crashes \in Nat
      BY Counts, PoolTypes
    <3>2. ~closed => Cardinality(b) <= crashes + n
      BY <2>3
    <3> HIDE DEF n
    <3>3. ~closed => Cardinality(a) <= crashes + n
      BY <2>1, <2>2, <2>4, <3>1, <3>2
    <3> QED BY <3>3 DEF n
  <2> QED BY <2>5 DEF a, FewStopping
<1>2. IInv'
  BY <1>1 DEF IInv, OnlyCrashesCharged, TaskSide, Budget, FewStopping, Answered, OnSlot, Staffed, SlotsKeptBusy
<1> QED BY <1>2 DEF StepOK, TaskStep, Prepared

\* The counters of crashes grow together, if at all.
CrashesCount ==
    /\ crashes' \in 0 .. MaxCrashes /\ crashes <= crashes'
    /\ deaths' \in [Tasks -> Nat]
    /\ \A u \in Tasks : deaths[u] <= deaths'[u] /\ deaths'[u] <= crashes'

LEMMA NoCrash == ASSUME IInv, UNCHANGED <<deaths, crashes>> PROVE CrashesCount
BY PoolTypes DEF IInv, CrashesCount

\* A step that answers the active task t, and gives up a worker at most.
LEMMA AnswerStep ==
    ASSUME IInv, ~closed, UNCHANGED closed, CrashesCount,
           NEW t \in Tasks, tasks[t].state = "active", NEW ts,
           \A u \in Tasks : u # t => ts[u] = tasks[u],
           ts[t] = [tasks[t] EXCEPT !.state = "answered"],
           NEW sl, NEW ws, TaskSide(ts, queue, sl), WorkerSide(sl, ws), Staffed(sl),
           Cardinality(Stopping(ws)) <= Cardinality(Stopping(workers)) + 1,
           Dispatch(ts, queue, sl, ws)
    PROVE  StepOK
<1>1. ts[t].state = "answered" /\ ts[t].begun = tasks[t].begun /\ ts[t].retries = tasks[t].retries
  <2>1. tasks[t] \in Task
    BY PoolTypes
  <2> QED BY <2>1 DEF Task
<1>2. Answered(ts) = Answered(tasks) \cup {t} /\ t \notin Answered(tasks)
  BY <1>1 DEF Answered
<1>3. Cardinality(Answered(ts)) = Cardinality(Answered(tasks)) + 1
  BY <1>2, Counts, FS_AddElement
<1>4. FewStopping(ts, ws, crashes')
  <2> DEFINE a == Cardinality(Answered(tasks))
             b == Cardinality(Stopping(workers))
             c == Cardinality(Stopping(ws))
  <2>1. b <= crashes + a /\ c <= b + 1
    BY DEF IInv, FewStopping
  <2>2. a \in Nat /\ b \in Nat /\ c \in Nat /\ crashes \in Nat /\ crashes' \in Nat /\ crashes <= crashes'
    <3>1. crashes \in Nat /\ crashes' \in Nat /\ crashes <= crashes'
      BY PoolTypes, WorkerPoolAssumption DEF CrashesCount
    <3> QED BY <3>1, Counts
  <2>3. Cardinality(Answered(ts)) = a + 1
    BY <1>3
  <2> HIDE DEF a, b, c
  <2>4. c <= crashes' + (a + 1)
    BY <2>1, <2>2
  <2> QED BY <2>3, <2>4 DEF FewStopping, c
<1>5. Budget(ts)
  <2> SUFFICES ASSUME NEW u \in Tasks PROVE WithinBudget(ts[u])
    BY DEF Budget
  <2>1. WithinBudget(tasks[u]) /\ tasks[u].begun \in Nat /\ tasks[u].retries \in Nat
    BY PoolTypes DEF Budget
  <2> QED BY <1>1, <2>1 DEF WithinBudget
<1>6. \A u \in Tasks : Prepared(tasks[u], ts[u])
  BY <1>1 DEF Prepared
<1>7. \A u \in Tasks : deaths'[u] <= crashes' /\ RetryLimit - ts[u].retries <= deaths'[u]
  <2> SUFFICES ASSUME NEW u \in Tasks
               PROVE  deaths'[u] <= crashes' /\ RetryLimit - ts[u].retries <= deaths'[u]
    OBVIOUS
  <2>1. /\ deaths[u] \in Nat /\ deaths'[u] \in Nat /\ RetryLimit \in Nat /\ tasks[u].retries \in Nat
        /\ deaths[u] <= deaths'[u] /\ deaths'[u] <= crashes'
        /\ RetryLimit - tasks[u].retries <= deaths[u]
    BY PoolTypes DEF CrashesCount
  <2>2. ts[u].retries = tasks[u].retries
    BY <1>1
  <2> QED BY <2>1, <2>2
<1>8. crashes' \in 0 .. MaxCrashes /\ deaths' \in [Tasks -> Nat]
  BY DEF CrashesCount
<1> QED BY <1>4, <1>5, <1>6, <1>7, <1>8, AfterDispatch

LEMMA OnResultStep == ASSUME IInv, NEW w \in WorkerIds, OnResult(w) PROVE StepOK
<1> DEFINE t == workers[w].job
           wt == [workers EXCEPT ![w].job = NoTask]
           s == workers[w].slot
<1>1. /\ t # NoTask /\ UNCHANGED <<closed, deaths, crashes>>
      /\ IF Heard(w) /\ slots[s].task = t
         THEN Dispatch(Settle(tasks, t), queue, Freed(slots, s), wt)
         ELSE workers' = wt /\ UNCHANGED <<tasks, queue, slots>>
  BY DEF OnResult
<1>2. /\ wt \in [WorkerIds -> Worker] /\ wt[w].state = workers[w].state /\ wt[w].slot = s
      /\ wt[w].job = NoTask /\ \A v \in WorkerIds \ {w} : wt[v] = workers[v]
  <2> DEFINE a == [workers[w] EXCEPT !.job = NoTask]
  <2>1. workers[w] \in Worker /\ wt = [workers EXCEPT ![w] = a]
    BY PoolTypes
  <2>2. a \in Worker /\ a.state = workers[w].state /\ a.slot = s /\ a.job = NoTask
    BY <2>1, WorkerPoolAssumption DEF Worker, NoTask
  <2> HIDE DEF a, wt
  <2> QED BY <2>1, <2>2, PoolTypes
<1> HIDE DEF wt
<1>3. /\ \A r \in Slots :
            IF slots[r].worker = 0 THEN slots[r].task = NoTask
            ELSE /\ workers[slots[r].worker].state = "live"
                 /\ workers[slots[r].worker].slot = r
                 /\ workers[slots[r].worker].job = slots[r].task
      /\ \A v \in WorkerIds :
            /\ workers[v].state = "live" => workers[v].slot \in Slots /\ slots[workers[v].slot].worker = v
            /\ workers[v].state = "stopping" => workers[v].slot \in Slots
            /\ workers[v].state = "none" => workers[v] = NoWorker
      /\ \A r \in Slots : slots[r].worker # 0 => slots[r].worker \in WorkerIds
      /\ \A v \in WorkerIds : workers[v].state \in {"none", "live", "stopping"}
  BY PoolTypes DEF WorkerSide, Slot, Worker
<1>4. Stopping(wt) = Stopping(workers)
  BY <1>2 DEF Stopping
<1>5. CASE workers[w].state = "live"
  <2>1. s \in Slots /\ slots[s].worker = w /\ slots[s].task = t /\ t \in Tasks
    <3>1. s \in Slots /\ slots[s].worker = w
      BY <1>3, <1>5
    <3>2. w # 0
      BY PoolTypes
    <3>3. slots[s].task = t
      BY <1>3, <3>1, <3>2
    <3> QED BY <1>1, <3>1, <3>3, PoolTypes
  <2> DEFINE st == Freed(slots, s)
             ts == Settle(tasks, t)
  <2>2. Dispatch(ts, queue, st, wt)
    BY <1>1, <2>1 DEF Heard
  <2>3. /\ st \in [Slots -> Slot] /\ st[s].task = NoTask /\ st[s].worker = w
        /\ \A r \in Slots \ {s} : st[r] = slots[r]
    <3> DEFINE a == [slots[s] EXCEPT !.task = NoTask]
    <3>1. slots[s] \in Slot /\ st = [slots EXCEPT ![s] = a]
      BY <2>1, PoolTypes DEF Freed
    <3>2. a \in Slot /\ a.task = NoTask /\ a.worker = w
      BY <2>1, <3>1, WorkerPoolAssumption DEF Slot, NoTask
    <3> HIDE DEF a, st
    <3> QED BY <2>1, <3>1, <3>2, PoolTypes
  <2> HIDE DEF st
  <2>4. WorkerSide(st, wt)
    <3>1. ASSUME NEW r \in Slots
          PROVE  IF st[r].worker = 0 THEN st[r].task = NoTask
                 ELSE /\ wt[st[r].worker].state = "live"
                      /\ wt[st[r].worker].slot = r
                      /\ wt[st[r].worker].job = st[r].task
      <4>1. CASE r = s
        BY <1>2, <1>3, <1>5, <2>1, <2>3, <4>1
      <4>2. CASE r # s
        BY <1>2, <1>3, <2>1, <2>3, <4>2
      <4> QED BY <4>1, <4>2
    <3>2. ASSUME NEW v \in WorkerIds
          PROVE  /\ wt[v].state = "live" => wt[v].slot \in Slots /\ st[wt[v].slot].worker = v
                 /\ wt[v].state = "stopping" => wt[v].slot \in Slots
                 /\ wt[v].state = "none" => wt[v] = NoWorker
      BY <1>2, <1>3, <1>5, <2>3
    <3> QED BY <1>2, <2>3, <3>1, <3>2 DEF WorkerSide
  <2>5. /\ TaskSide(ts, queue, st) /\ tasks[t].state = "active"
        /\ \A u \in Tasks : u # t => ts[u] = tasks[u]
        /\ ts[t] = [tasks[t] EXCEPT !.state = "answered"]
    <3>1. \A r \in Slots : st[r].task = IF r = s THEN NoTask ELSE slots[r].task
      BY <2>3
    <3>2. slots[s].task \in Tasks
      BY <2>1
    <3> HIDE DEF s
    <3>3. /\ TaskSide(Settle(tasks, slots[s].task), queue, st)
          /\ tasks[slots[s].task].state = "active"
          /\ \A u \in Tasks : u # slots[s].task => Settle(tasks, slots[s].task)[u] = tasks[u]
          /\ Settle(tasks, slots[s].task)[slots[s].task]
                = [tasks[slots[s].task] EXCEPT !.state = "answered"]
      <4>1. TaskSide(tasks, queue, slots) /\ s \in Slots
        BY <2>1, PoolTypes
      <4> QED BY <3>1, <3>2, <4>1, SettledTask
    <3> QED BY <2>1, <3>3
  <2>6. ~closed
    BY <2>1, PoolTypes DEF IInv
  <2>7. Cardinality(Stopping(wt)) <= Cardinality(Stopping(workers)) + 1
    BY <1>4, Counts
  <2>8. CrashesCount
    BY <1>1, NoCrash
  <2>9. Staffed(st)
    BY <2>1, <2>3, <2>6, PoolTypes DEF Staffed
  <2> HIDE DEF t, ts
  <2> QED BY <1>1, <2>1, <2>2, <2>4, <2>5, <2>6, <2>7, <2>8, <2>9, AnswerStep
<1>6. CASE workers[w].state # "live"
  <2>1. ~(Heard(w) /\ slots[s].task = t)
    <3>1. s \in Slots
      BY <1>1, <1>3, <1>6 DEF NoWorker
    <3> QED BY <1>3, <1>6, <3>1, PoolTypes DEF Heard
  <2>2. workers' = wt /\ UNCHANGED <<tasks, queue, slots, closed, deaths, crashes>>
    BY <1>1, <2>1
  <2>3. WorkerSide(slots, wt)
    <3>1. ASSUME NEW r \in Slots
          PROVE  IF slots[r].worker = 0 THEN slots[r].task = NoTask
                 ELSE /\ wt[slots[r].worker].state = "live"
                      /\ wt[slots[r].worker].slot = r
                      /\ wt[slots[r].worker].job = slots[r].task
      BY <1>2, <1>3, <1>6
    <3>2. ASSUME NEW v \in WorkerIds
          PROVE  /\ wt[v].state = "live" => wt[v].slot \in Slots /\ slots[wt[v].slot].worker = v
                 /\ wt[v].state = "stopping" => wt[v].slot \in Slots
                 /\ wt[v].state = "none" => wt[v] = NoWorker
      BY <1>1, <1>2, <1>3, <1>6 DEF NoWorker
    <3> QED BY <1>2, <3>1, <3>2, PoolTypes DEF WorkerSide
  <2> QED BY <1>4, <2>2, <2>3, KeepingStep
<1> QED BY <1>5, <1>6

\* Giving up one worker.
LEMMA OneMoreStopping ==
    ASSUME IInv, NEW w \in WorkerIds, NEW wt,
           \A v \in WorkerIds \ {w} : wt[v] = workers[v]
    PROVE  Cardinality(Stopping(wt)) <= Cardinality(Stopping(workers)) + 1
<1> DEFINE a == Stopping(wt)
           b == Stopping(workers)
<1>1. a \subseteq b \cup {w}
  BY DEF Stopping
<1>2. IsFiniteSet(b) /\ Cardinality(b) \in Nat /\ Cardinality(a) \in Nat
  BY Counts
<1> HIDE DEF a, b
<1>3. IsFiniteSet(b \cup {w}) /\ Cardinality(b \cup {w}) <= Cardinality(b) + 1
      /\ Cardinality(b \cup {w}) \in Nat
  <2>1. IsFiniteSet(b \cup {w})
        /\ Cardinality(b \cup {w}) = IF w \in b THEN Cardinality(b) ELSE Cardinality(b) + 1
    BY <1>2, FS_AddElement
  <2> QED BY <1>2, <2>1
<1>4. Cardinality(a) <= Cardinality(b \cup {w})
  BY <1>1, <1>3, FS_Subset
<1>5. Cardinality(a) <= Cardinality(b) + 1
  BY <1>2, <1>3, <1>4
<1> QED BY <1>5 DEF a, b

\* A worker that the main thread uses: its slot, and its task.
LEMMA LiveWorker ==
    ASSUME IInv, NEW w \in WorkerIds, workers[w].state = "live"
    PROVE  /\ workers[w].slot \in Slots /\ slots[workers[w].slot].worker = w /\ w # 0
           /\ slots[workers[w].slot].task = workers[w].job
           /\ ~closed
<1>1. WorkerSide(slots, workers) /\ w # 0
  BY PoolTypes
<1>2. workers[w].slot \in Slots /\ slots[workers[w].slot].worker = w
  BY <1>1 DEF WorkerSide
<1>3. slots[workers[w].slot].task = workers[w].job
  BY <1>1, <1>2 DEF WorkerSide
<1> QED BY <1>1, <1>2, <1>3 DEF IInv

LEMMA CrashStep ==
    ASSUME IInv, NEW w \in WorkerIds, NEW e \in Worker, e.state # "live",
           e.state = "stopping" => e.slot \in Slots, e.state = "none" => e = NoWorker,
           OnCrash(w, e)
    PROVE  StepOK
<1> DEFINE s == workers[w].slot
           t == slots[s].task
           wt == [workers EXCEPT ![w] = e]
           sp == Spawned(Freed(slots, s), wt, s)
<1>1. /\ workers[w].state = "live" /\ crashes < MaxCrashes /\ crashes' = crashes + 1
      /\ deaths' = [u \in Tasks |-> IF workers[w].job = u THEN deaths[u] + 1 ELSE deaths[u]]
      /\ Retire(s, wt) /\ UNCHANGED closed
  BY DEF OnCrash
<1>2. s \in Slots /\ slots[s].worker = w /\ w # 0 /\ t = workers[w].job /\ ~closed
  BY <1>1, LiveWorker
<1>3. wt \in [WorkerIds -> Worker] /\ wt[w] = e /\ \A v \in WorkerIds \ {w} : wt[v] = workers[v]
  BY PoolTypes
<1>4. crashes \in Nat /\ MaxCrashes \in Nat /\ MaxTasks \in Nat
  BY PoolTypes, WorkerPoolAssumption
<1>5. deaths' = [u \in Tasks |-> IF t = u THEN deaths[u] + 1 ELSE deaths[u]]
  BY <1>1, <1>2
<1>6. CrashesCount
  <2>1. crashes' \in 0 .. MaxCrashes /\ crashes <= crashes'
    BY <1>1, <1>4
  <2>2. \A u \in Tasks : deaths[u] \in Nat /\ deaths[u] <= crashes
    BY PoolTypes
  <2>3. \A u \in Tasks : /\ deaths'[u] \in Nat /\ deaths[u] <= deaths'[u]
                         /\ deaths'[u] <= crashes'
    BY <1>1, <1>4, <1>5, <2>2
  <2>4. deaths' \in [Tasks -> Nat]
    <3>1. deaths' = [u \in Tasks |-> deaths'[u]]
      BY <1>5
    <3> QED BY <2>3, <3>1
  <2> QED BY <2>1, <2>3, <2>4 DEF CrashesCount
<1> HIDE DEF wt
<1>7. Cardinality(Stopping(wt)) <= Cardinality(Stopping(workers)) + 1
  BY <1>3, OneMoreStopping
<1>8. /\ Cardinality(Stopping(wt)) <= crashes' + Cardinality(Answered(tasks))
      /\ Cardinality(Stopping(wt)) <= MaxTasks + MaxCrashes
  <2> DEFINE a == Cardinality(Answered(tasks))
             b == Cardinality(Stopping(workers))
             c == Cardinality(Stopping(wt))
  <2>1. b <= crashes + a /\ c <= b + 1
    BY <1>2, <1>7 DEF IInv, FewStopping
  <2>2. a \in Nat /\ a <= MaxTasks /\ b \in Nat /\ c \in Nat
    BY Counts
  <2> HIDE DEF a, b, c
  <2>3. c <= crashes' + a /\ c <= MaxTasks + MaxCrashes
    BY <1>1, <1>4, <2>1, <2>2
  <2> QED BY <2>3 DEF a, c
<1>9. /\ WorkerSide(sp.slots, sp.workers)
      /\ \A r \in Slots : sp.slots[r].task = IF r = s THEN NoTask ELSE slots[r].task
      /\ Stopping(sp.workers) = Stopping(wt)
      /\ Staffed(sp.slots)
  <2>1. WorkerSide(slots, workers) /\ slots[s].worker # 0 /\ wt[slots[s].worker] = e
        /\ \A v \in WorkerIds \ {slots[s].worker} : wt[v] = workers[v]
    BY <1>2, <1>3, PoolTypes
  <2>2. Staffed(slots)
    BY <1>2, PoolTypes
  <2>3. Cardinality(Stopping(wt)) <= MaxTasks + MaxCrashes
    BY <1>8
  <2> HIDE DEF s
  <2>4. /\ WorkerSide(sp.slots, sp.workers)
        /\ \A r \in Slots : sp.slots[r].task = IF r = s THEN NoTask ELSE slots[r].task
        /\ Stopping(sp.workers) = Stopping(wt)
        /\ Staffed(slots) => Staffed(sp.slots)
    BY <1>2, <1>3, <2>1, <2>3, Respawn
  <2> QED BY <2>2, <2>4
<1> DEFINE st == sp.slots
           wn == sp.workers
<1>10. IF t = NoTask THEN Dispatch(tasks, queue, st, wn)
       ELSE IF MayRetry(t) THEN Dispatch(Charged(tasks, t), <<t>> \o queue, st, wn)
       ELSE Dispatch(Settle(tasks, t), queue, st, wn)
  BY <1>1 DEF Retire
<1> HIDE DEF sp
<1>11. TaskSide(tasks, queue, slots) /\ Budget(tasks) /\ crashes' \in 0 .. MaxCrashes
       /\ deaths' \in [Tasks -> Nat] /\ \A u \in Tasks : deaths'[u] <= crashes'
  BY <1>6, PoolTypes DEF CrashesCount
<1>12. \A u \in Tasks : RetryLimit - tasks[u].retries <= deaths'[u]
  <2> SUFFICES ASSUME NEW u \in Tasks PROVE RetryLimit - tasks[u].retries <= deaths'[u]
    OBVIOUS
  <2>1. /\ RetryLimit \in Nat /\ tasks[u].retries \in Nat /\ deaths[u] \in Nat /\ deaths'[u] \in Nat
        /\ RetryLimit - tasks[u].retries <= deaths[u] /\ deaths[u] <= deaths'[u]
    BY <1>6, PoolTypes DEF CrashesCount
  <2> QED BY <2>1
<1>13. CASE t = NoTask
  <2>1. \A r \in Slots : st[r].task = slots[r].task
    BY <1>9, <1>13
  <2>2. TaskSide(tasks, queue, st)
    <3>1. \A u \in Tasks : OnSlot(st, u) <=> OnSlot(slots, u)
      BY <2>1 DEF OnSlot
    <3> HIDE DEF st
    <3> QED BY <1>11, <2>1, <3>1 DEF TaskSide
  <2>3. \A u \in Tasks : Prepared(tasks[u], tasks[u])
    BY DEF Prepared
  <2>4. FewStopping(tasks, wn, crashes')
    BY <1>8, <1>9 DEF FewStopping
  <2> HIDE DEF st, wn, t
  <2>5. Dispatch(tasks, queue, st, wn) /\ WorkerSide(st, wn) /\ Staffed(st)
    BY <1>9, <1>10, <1>13 DEF st, wn
  <2> QED BY <1>1, <1>2, <1>11, <1>12, <2>2, <2>3, <2>4, <2>5, AfterDispatch
<1>14. CASE t # NoTask /\ ~MayRetry(t)
  <2> DEFINE ts == Settle(tasks, t)
  <2>1. t \in Tasks
    BY <1>2, <1>14, PoolTypes
  <2>2. /\ TaskSide(ts, queue, st) /\ tasks[t].state = "active"
        /\ \A u \in Tasks : u # t => ts[u] = tasks[u]
        /\ ts[t] = [tasks[t] EXCEPT !.state = "answered"]
    <3> HIDE DEF s
    <3> QED BY <1>2, <1>9, <1>11, <2>1, SettledTask
  <2>3. Cardinality(Stopping(wn)) <= Cardinality(Stopping(workers)) + 1
    BY <1>7, <1>9
  <2>4. Dispatch(ts, queue, st, wn) /\ WorkerSide(st, wn) /\ Staffed(st)
    BY <1>9, <1>10, <1>14
  <2> HIDE DEF st, wn, t, ts
  <2> QED BY <1>1, <1>2, <1>6, <2>1, <2>2, <2>3, <2>4, AnswerStep
<1>15. CASE t # NoTask /\ MayRetry(t)
  <2> DEFINE ts == Charged(tasks, t)
             q == <<t>> \o queue
  <2>1. t \in Tasks
    BY <1>2, <1>15, PoolTypes
  <2>2. /\ TaskSide(ts, q, st) /\ tasks[t].state = "active"
        /\ \A u \in Tasks : u # t => ts[u] = tasks[u]
        /\ ts[t].state = "queued" /\ ts[t].begun = tasks[t].begun
        /\ ts[t].retries = tasks[t].retries - 1
    <3> DEFINE u == Charged(tasks, slots[s].task)[slots[s].task]
    <3>1. slots[s].task \in Tasks /\ MayRetry(slots[s].task) /\ s \in Slots
      BY <1>2, <1>15, <2>1
    <3>2. \A r \in Slots : st[r].task = IF r = s THEN NoTask ELSE slots[r].task
      BY <1>9
    <3> HIDE DEF s, st
    <3>3. /\ TaskSide(Charged(tasks, slots[s].task), <<slots[s].task>> \o queue, st)
          /\ tasks[slots[s].task].state = "active"
          /\ \A v \in Tasks : v # slots[s].task => Charged(tasks, slots[s].task)[v] = tasks[v]
          /\ u.state = "queued" /\ u.begun = tasks[slots[s].task].begun
          /\ u.retries = tasks[slots[s].task].retries - 1
      BY <1>11, <3>1, <3>2, ChargedTask
    <3> QED BY <3>3
  <2>3. Dispatch(ts, q, st, wn) /\ WorkerSide(st, wn) /\ Staffed(st)
    BY <1>9, <1>10, <1>15
  <2> HIDE DEF ts, q, t
  <2>4. tasks[t].retries \in Nat /\ tasks[t].begun \in Nat /\ RetryLimit \in Nat
    BY <2>1, PoolTypes
  <2>5. Budget(ts)
    <3> SUFFICES ASSUME NEW u \in Tasks PROVE WithinBudget(ts[u])
      BY DEF Budget
    <3>1. WithinBudget(tasks[u])
      BY PoolTypes DEF Budget
    <3>2. CASE u = t
      BY <2>2, <2>4, <3>1, <3>2 DEF WithinBudget
    <3>3. CASE u # t
      BY <2>2, <3>1, <3>3
    <3> QED BY <3>2, <3>3
  <2>6. \A u \in Tasks : Prepared(tasks[u], ts[u])
    BY <2>2 DEF Prepared
  <2>7. FewStopping(ts, wn, crashes')
    <3>1. Answered(ts) = Answered(tasks)
      BY <2>1, <2>2 DEF Answered
    <3> QED BY <1>8, <1>9, <3>1 DEF FewStopping
  <2>8. \A u \in Tasks : RetryLimit - ts[u].retries <= deaths'[u]
    <3>1. RetryLimit - tasks[t].retries <= deaths[t] /\ deaths[t] \in Nat /\ deaths'[t] = deaths[t] + 1
      BY <1>5, <2>1, PoolTypes
    <3>2. RetryLimit - ts[t].retries <= deaths'[t]
      BY <2>2, <2>4, <3>1
    <3> QED BY <1>12, <2>2, <3>2
  <2> HIDE DEF st, wn
  <2> QED BY <1>1, <1>2, <1>11, <2>2, <2>3, <2>5, <2>6, <2>7, <2>8, AfterDispatch
<1> QED BY <1>13, <1>14, <1>15

LEMMA TimeoutStep == ASSUME IInv, NEW s \in Slots, Timeout(s) PROVE StepOK
<1> DEFINE w == slots[s].worker
           t == slots[s].task
           e == [workers[w] EXCEPT !.state = "stopping"]
           wt == [workers EXCEPT ![w].state = "stopping"]
           sp == Spawned(Freed(slots, s), wt, s)
           st == sp.slots
           wn == sp.workers
<1>1. /\ t # NoTask /\ Dispatch(Settle(tasks, t), queue, st, wn)
      /\ UNCHANGED <<closed, deaths, crashes>>
  BY DEF Timeout
<1>2. /\ w # 0 /\ w \in WorkerIds /\ t \in Tasks
      /\ workers[w].state = "live" /\ workers[w].slot = s
  BY <1>1, PoolTypes DEF WorkerSide, Slot
<1>3. ~closed
  BY <1>2 DEF IInv
<1>4. e \in Worker /\ e.state = "stopping" /\ e.slot = s
  <2>1. workers[w] \in Worker
    BY <1>2, PoolTypes
  <2> QED BY <1>2, <2>1 DEF Worker
<1>5. wt \in [WorkerIds -> Worker] /\ wt[w] = e /\ \A v \in WorkerIds \ {w} : wt[v] = workers[v]
  <2>1. wt = [workers EXCEPT ![w] = e]
    BY <1>2, PoolTypes
  <2> HIDE DEF e, wt
  <2> QED BY <1>2, <1>4, <2>1, PoolTypes
<1> HIDE DEF e, wt
<1>6. Cardinality(Stopping(wt)) <= Cardinality(Stopping(workers)) + 1
  <2> HIDE DEF w
  <2> QED BY <1>2, <1>5, OneMoreStopping
<1>7. tasks[t].state = "active"
  <2>1. OnSlot(slots, t)
    BY DEF OnSlot
  <2> QED BY <1>2, <2>1, PoolTypes DEF TaskSide
<1>8. Cardinality(Answered(tasks)) + 1 <= MaxTasks
  <2> DEFINE a == Answered(tasks)
  <2>1. a \cup {t} \subseteq Tasks /\ t \notin a
    BY <1>2, <1>7 DEF Answered
  <2>2. IsFiniteSet(a) /\ Cardinality(a) \in Nat
    BY Counts
  <2> HIDE DEF a
  <2>3. Cardinality(a \cup {t}) = Cardinality(a) + 1
    BY <2>1, <2>2, FS_AddElement
  <2>4. Cardinality(a \cup {t}) <= Cardinality(Tasks)
    BY <2>1, FiniteSets, FS_Subset
  <2> QED BY <2>3, <2>4, FiniteSets DEF a
<1>9. Cardinality(Stopping(wt)) <= MaxTasks + MaxCrashes
  <2> DEFINE a == Cardinality(Answered(tasks))
             b == Cardinality(Stopping(workers))
             c == Cardinality(Stopping(wt))
  <2>1. b <= crashes + a /\ c <= b + 1 /\ a + 1 <= MaxTasks
    BY <1>3, <1>6, <1>8 DEF IInv, FewStopping
  <2>2. a \in Nat /\ b \in Nat /\ c \in Nat
    BY Counts
  <2>3. crashes \in Nat /\ crashes <= MaxCrashes /\ MaxCrashes \in Nat /\ MaxTasks \in Nat
    BY WorkerPoolAssumption DEF IInv
  <2> HIDE DEF a, b, c
  <2>4. c <= MaxTasks + MaxCrashes
    BY <2>1, <2>2, <2>3
  <2> QED BY <2>4 DEF c
<1>10. /\ WorkerSide(st, wn)
       /\ \A r \in Slots : st[r].task = IF r = s THEN NoTask ELSE slots[r].task
       /\ Stopping(wn) = Stopping(wt)
       /\ Staffed(st)
  <2>1. WorkerSide(slots, workers) /\ Staffed(slots)
    BY <1>3, PoolTypes
  <2>2. e.state # "live" /\ (e.state = "stopping" => e.slot \in Slots)
        /\ (e.state = "none" => e = NoWorker)
    BY <1>4
  <2> QED BY <1>2, <1>4, <1>5, <1>9, <2>1, <2>2, Respawn
<1>11. /\ TaskSide(Settle(tasks, t), queue, st) /\ tasks[t].state = "active"
       /\ \A u \in Tasks : u # t => Settle(tasks, t)[u] = tasks[u]
       /\ Settle(tasks, t)[t] = [tasks[t] EXCEPT !.state = "answered"]
  <2>1. TaskSide(tasks, queue, slots)
    BY PoolTypes
  <2> HIDE DEF sp
  <2> QED BY <1>2, <1>10, <2>1, SettledTask
<1>12. Cardinality(Stopping(wn)) <= Cardinality(Stopping(workers)) + 1
  BY <1>6, <1>10
<1>13. CrashesCount
  BY <1>1, NoCrash
<1> DEFINE ts == Settle(tasks, t)
<1> HIDE DEF ts, st, wn, t
<1>14. Dispatch(ts, queue, st, wn)
  BY <1>1 DEF ts
<1>15. TaskSide(ts, queue, st) /\ (\A u \in Tasks : u # t => ts[u] = tasks[u])
       /\ ts[t] = [tasks[t] EXCEPT !.state = "answered"]
  BY <1>11 DEF ts
<1> QED BY <1>1, <1>2, <1>3, <1>7, <1>10, <1>12, <1>13, <1>14, <1>15, AnswerStep

LEMMA OnErrorStep == ASSUME IInv, NEW w \in WorkerIds, OnError(w) PROVE StepOK
<1> DEFINE e == [workers[w] EXCEPT !.state = "stopping", !.job = NoTask]
<1>1. workers[w].state = "live" /\ OnCrash(w, e)
  BY DEF OnError, OnCrash
<1>2. workers[w].slot \in Slots /\ workers[w] \in Worker
  BY <1>1, LiveWorker, PoolTypes
<1>3. e \in Worker
  <2>1. NoTask \in 0 .. MaxTasks
    BY WorkerPoolAssumption DEF NoTask
  <2> QED BY <1>2, <2>1 DEF Worker
<1>4. e.state = "stopping" /\ e.slot = workers[w].slot
  BY <1>2 DEF Worker
<1> HIDE DEF e
<1> QED BY <1>1, <1>2, <1>3, <1>4, CrashStep

LEMMA OnOwnExitStep == ASSUME IInv, NEW w \in WorkerIds, OnOwnExit(w) PROVE StepOK
<1> DEFINE e == NoWorker
<1>1. e \in Worker /\ e.state = "none" /\ e = NoWorker
  BY WorkerPoolAssumption DEF Worker, NoWorker, NoTask
<1>2. OnCrash(w, e)
  BY DEF OnOwnExit
<1> HIDE DEF e
<1> QED BY <1>1, <1>2, CrashStep

\* A worker that was given up is no longer heard, whatever its slot does now.
LEMMA OnExitStep == ASSUME IInv, NEW w \in WorkerIds, OnExit(w) PROVE StepOK
<1> DEFINE wt == [workers EXCEPT ![w] = NoWorker]
<1>1. NoWorker \in Worker /\ NoWorker.state = "none"
  BY WorkerPoolAssumption DEF Worker, NoWorker, NoTask
<1>2. wt \in [WorkerIds -> Worker] /\ wt[w] = NoWorker
      /\ \A v \in WorkerIds \ {w} : wt[v] = workers[v]
  BY <1>1, PoolTypes
<1>3. /\ workers[w].state = "stopping"
      /\ IF Heard(w) THEN Retire(workers[w].slot, wt)
         ELSE workers' = wt /\ UNCHANGED <<tasks, queue, slots>>
      /\ UNCHANGED <<closed, deaths, crashes>>
  BY DEF OnExit
<1> HIDE DEF wt
<1>4. /\ \A r \in Slots :
            IF slots[r].worker = 0 THEN slots[r].task = NoTask
            ELSE /\ workers[slots[r].worker].state = "live"
                 /\ workers[slots[r].worker].slot = r
                 /\ workers[slots[r].worker].job = slots[r].task
      /\ \A v \in WorkerIds :
            /\ workers[v].state = "live" => workers[v].slot \in Slots /\ slots[workers[v].slot].worker = v
            /\ workers[v].state = "stopping" => workers[v].slot \in Slots
            /\ workers[v].state = "none" => workers[v] = NoWorker
      /\ \A r \in Slots : slots[r].worker # 0 => slots[r].worker \in WorkerIds
  BY PoolTypes DEF WorkerSide, Slot
<1>5. \A r \in Slots : slots[r].worker # w
  BY <1>3, <1>4, PoolTypes
<1>6. workers' = wt /\ UNCHANGED <<tasks, queue, slots, closed, deaths, crashes>>
  BY <1>3, <1>4, <1>5 DEF Heard
<1>7. WorkerSide(slots, wt)
  <2>1. ASSUME NEW r \in Slots
        PROVE  IF slots[r].worker = 0 THEN slots[r].task = NoTask
               ELSE /\ wt[slots[r].worker].state = "live"
                    /\ wt[slots[r].worker].slot = r
                    /\ wt[slots[r].worker].job = slots[r].task
    BY <1>2, <1>4, <1>5
  <2>2. ASSUME NEW v \in WorkerIds
        PROVE  /\ wt[v].state = "live" => wt[v].slot \in Slots /\ slots[wt[v].slot].worker = v
               /\ wt[v].state = "stopping" => wt[v].slot \in Slots
               /\ wt[v].state = "none" => wt[v] = NoWorker
    BY <1>1, <1>2, <1>4
  <2> QED BY <1>2, <2>1, <2>2, PoolTypes DEF WorkerSide
<1>8. Stopping(wt) \subseteq Stopping(workers)
  BY <1>1, <1>2 DEF Stopping
<1> QED BY <1>6, <1>7, <1>8, KeepingStep

LEMMA CloseStep == ASSUME IInv, Close PROVE StepOK
<1>1. /\ closed' = TRUE /\ queue' = <<>>
      /\ slots' = [s \in Slots |-> [worker |-> 0, task |-> NoTask]]
      /\ UNCHANGED <<deaths, crashes>>
  BY DEF Close
<1>2. ASSUME NEW t \in Tasks
      PROVE  /\ tasks'[t] \in Task /\ tasks'[t].begun = tasks[t].begun
             /\ tasks'[t].retries = tasks[t].retries
             /\ IF tasks[t].state \in {"queued", "active"} THEN tasks'[t].state = "answered"
                                                           ELSE tasks'[t].state = tasks[t].state
             /\ tasks'[t].state \in {"new", "answered"}
  <2> DEFINE a == [tasks[t] EXCEPT !.state = "answered"]
  <2>1. tasks[t] \in Task
    BY PoolTypes
  <2>2. /\ a \in Task /\ a.state = "answered" /\ a.begun = tasks[t].begun
        /\ a.retries = tasks[t].retries
    BY <2>1 DEF Task
  <2>3. tasks'[t] = IF tasks[t].state \in {"queued", "active"} THEN a ELSE tasks[t]
    BY DEF Close
  <2>4. tasks[t].state \in {"new", "queued", "active", "answered"}
    BY <2>1 DEF Task
  <2> HIDE DEF a
  <2> QED BY <2>1, <2>2, <2>3, <2>4
<1>3. tasks' \in [Tasks -> Task]
  <2>1. tasks' = [t \in Tasks |-> tasks'[t]]
    BY DEF Close
  <2> QED BY <1>2, <2>1
<1>4. slots' \in [Slots -> Slot] /\ \A s \in Slots : slots'[s].worker = 0 /\ slots'[s].task = NoTask
  BY <1>1, WorkerPoolAssumption DEF Slot, NoTask
<1>5. TaskSide(tasks', queue', slots')
  <2>1. queue' \in Seq(Tasks) /\ Len(queue') = 0
    BY <1>1
  <2>2. \A t \in Tasks : ~InQueue(queue', t) /\ ~OnSlot(slots', t)
    BY <1>4, <2>1, PoolTypes DEF InQueue, OnSlot
  <2>3. \A r, s \in Slots : slots'[r].task = slots'[s].task /\ slots'[r].task # NoTask => r = s
    BY <1>4
  <2>4. \A i, j \in 1 .. Len(queue') : queue'[i] = queue'[j] => i = j
    BY <2>1
  <2>5. \A t \in Tasks : tasks'[t].state \notin {"queued", "active"}
    BY <1>2
  <2> QED BY <1>3, <2>1, <2>2, <2>3, <2>4, <2>5 DEF TaskSide
<1>6. ASSUME NEW w \in WorkerIds
      PROVE  /\ workers'[w] \in Worker /\ workers'[w].state # "live"
             /\ workers'[w].state = "stopping" => workers'[w].slot \in Slots
             /\ workers'[w].state = "none" => workers'[w] = NoWorker
  <2> DEFINE a == [workers[w] EXCEPT !.state = "stopping"]
  <2>1. workers[w] \in Worker
    BY PoolTypes
  <2>2. a \in Worker /\ a.state = "stopping" /\ a.slot = workers[w].slot
    BY <2>1 DEF Worker
  <2>3. workers'[w] = IF workers[w].state = "live" THEN a ELSE workers[w]
    BY DEF Close
  <2>4. /\ workers[w].state \in {"live", "stopping"} => workers[w].slot \in Slots
        /\ workers[w].state = "none" => workers[w] = NoWorker
    BY PoolTypes DEF WorkerSide
  <2> HIDE DEF a
  <2> QED BY <2>1, <2>2, <2>3, <2>4
<1>7. workers' \in [WorkerIds -> Worker]
  <2>1. workers' = [w \in WorkerIds |-> workers'[w]]
    BY DEF Close
  <2> QED BY <1>6, <2>1
<1>8. WorkerSide(slots', workers')
  BY <1>4, <1>6, <1>7 DEF WorkerSide
<1>9. Budget(tasks')
  <2> SUFFICES ASSUME NEW t \in Tasks PROVE WithinBudget(tasks'[t])
    BY DEF Budget
  <2>1. WithinBudget(tasks[t])
    BY PoolTypes DEF Budget
  <2> QED BY <1>2, <2>1 DEF WithinBudget
<1>10. IInv'
  <2>1. closed' \in BOOLEAN /\ closed' /\ \A s \in Slots : slots'[s].worker = 0
    BY <1>1, <1>4
  <2>2. /\ crashes' \in 0 .. MaxCrashes /\ deaths' \in [Tasks -> Nat]
        /\ \A t \in Tasks : deaths'[t] <= crashes'
    BY <1>1 DEF IInv
  <2>3. \A t \in Tasks : RetryLimit - tasks'[t].retries <= deaths'[t]
    BY <1>1, <1>2, PoolTypes
  <2>4. SlotsKeptBusy'
    BY <1>1 DEF SlotsKeptBusy
  <2> QED BY <1>5, <1>8, <1>9, <2>1, <2>2, <2>3, <2>4 DEF IInv, OnlyCrashesCharged
<1>11. \A t \in Tasks : TaskStep(tasks[t], tasks'[t])
  BY <1>2 DEF TaskStep, Prepared
<1> QED BY <1>10, <1>11 DEF StepOK

LEMMA NextStep == IInv /\ [Next]_vars => StepOK
<1> SUFFICES ASSUME IInv, [Next]_vars PROVE StepOK
  OBVIOUS
<1>1. CASE \E t \in Tasks : Request(t)
  BY <1>1, RequestStep
<1>2. ASSUME NEW w \in WorkerIds, OnResult(w) \/ OnError(w) \/ OnOwnExit(w) \/ OnExit(w)
      PROVE  StepOK
  BY <1>2, OnResultStep, OnErrorStep, OnOwnExitStep, OnExitStep
<1>3. CASE \E s \in Slots : Timeout(s)
  BY <1>3, TimeoutStep
<1>4. CASE Close
  BY <1>4, CloseStep
<1>5. CASE UNCHANGED vars
  <2>1. UNCHANGED <<tasks, queue, slots, workers, closed, deaths, crashes>>
    BY <1>5 DEF vars
  <2>2. WorkerSide(slots, workers') /\ Stopping(workers') \subseteq Stopping(workers)
    BY <2>1, PoolTypes
  <2> QED BY <2>1, <2>2, KeepingStep
<1> QED BY <1>1, <1>2, <1>3, <1>4, <1>5 DEF Next

LEMMA InitIInv == Init => IInv
<1> SUFFICES ASSUME Init PROVE IInv
  OBVIOUS
<1>1. /\ tasks = [t \in Tasks |-> [state |-> "new", retries |-> RetryLimit, begun |-> 0]]
      /\ queue = <<>> /\ closed = FALSE /\ crashes = 0
      /\ slots = [s \in Slots |-> [worker |-> s, task |-> NoTask]]
      /\ workers = [w \in WorkerIds |->
                      IF w \in Slots THEN [slot |-> w, state |-> "live", job |-> NoTask]
                                     ELSE NoWorker]
      /\ deaths = [t \in Tasks |-> 0]
  BY DEF Init
<1>2. Slots \subseteq WorkerIds /\ \A s \in Slots : s # 0 /\ s \in 0 .. PoolSize
  BY WorkerPoolAssumption DEF Slots, WorkerIds
<1>3. /\ [state |-> "new", retries |-> RetryLimit, begun |-> 0] \in Task
      /\ \A s \in Slots : /\ [worker |-> s, task |-> NoTask] \in Slot
                          /\ [slot |-> s, state |-> "live", job |-> NoTask] \in Worker
      /\ NoWorker \in Worker
  BY <1>2, WorkerPoolAssumption DEF Task, Slot, Worker, NoWorker, NoTask
<1>4. TaskSide(tasks, queue, slots)
  <2>1. /\ tasks \in [Tasks -> Task] /\ queue \in Seq(Tasks) /\ Len(queue) = 0
        /\ \A s \in Slots : slots[s].task = NoTask
        /\ \A t \in Tasks : tasks[t].state = "new" /\ t # NoTask
    BY <1>1, <1>3, WorkerPoolAssumption DEF Tasks, NoTask
  <2> QED BY <2>1 DEF TaskSide, InQueue, OnSlot
<1>5. WorkerSide(slots, workers)
  <2>1. slots \in [Slots -> Slot] /\ workers \in [WorkerIds -> Worker]
    BY <1>1, <1>3
  <2>2. /\ \A s \in Slots : /\ slots[s].worker = s /\ slots[s].task = NoTask
                            /\ workers[s].state = "live" /\ workers[s].slot = s
                            /\ workers[s].job = NoTask
        /\ \A w \in WorkerIds \ Slots : workers[w] = NoWorker /\ NoWorker.state = "none"
    BY <1>1, <1>2 DEF NoWorker
  <2> QED BY <1>2, <2>1, <2>2 DEF WorkerSide
<1>6. Budget(tasks)
  BY <1>1, WorkerPoolAssumption DEF Budget, WithinBudget
<1>7. FewStopping(tasks, workers, crashes)
  <2>1. Stopping(workers) = {}
    BY <1>1 DEF Stopping, NoWorker
  <2> DEFINE n == Cardinality(Answered(tasks))
  <2>2. Cardinality(Stopping(workers)) = 0 /\ n \in Nat
    BY <2>1, Counts, FS_EmptySet
  <2> HIDE DEF n
  <2>3. Cardinality(Stopping(workers)) <= crashes + n
    BY <1>1, <2>2
  <2> QED BY <2>3 DEF FewStopping, n
<1>8. /\ crashes \in 0 .. MaxCrashes /\ deaths \in [Tasks -> Nat]
      /\ \A t \in Tasks : deaths[t] <= crashes
      /\ OnlyCrashesCharged
  BY <1>1, WorkerPoolAssumption DEF OnlyCrashesCharged
<1>9. Staffed(slots) /\ SlotsKeptBusy
  BY <1>1, <1>2 DEF Staffed, SlotsKeptBusy
<1> QED BY <1>1, <1>4, <1>5, <1>6, <1>7, <1>8, <1>9 DEF IInv

\* The inductive invariant holds in every reachable state.
THEOREM Inductive == Spec => []IInv
<1>1. IInv /\ [Next]_vars => IInv'
  BY NextStep DEF StepOK
<1> QED BY InitIInv, <1>1, PTL DEF Spec

\* The queue, the slots and the workers stay well formed, and there is a thread id
\* for every worker that a crash or a time-out makes necessary (spawnWorker).
THEOREM TypeCorrect == Spec => []TypeOK
<1>1. IInv => TypeOK
  <2> SUFFICES ASSUME IInv PROVE TypeOK
    OBVIOUS
  <2>1. \A t \in Tasks : deaths[t] \in 0 .. MaxCrashes
    BY WorkerPoolAssumption DEF IInv
  <2>2. deaths \in [Tasks -> 0 .. MaxCrashes]
    BY <2>1 DEF IInv
  <2> QED BY <2>2, PoolTypes DEF IInv, TypeOK, Task, Slot, Worker
<1> QED BY <1>1, Inductive, PTL

\* A task loses a retry only by the crash of a worker that had it: neither by the exit
\* of a terminated worker, nor twice by one (state.worker !== worker).
THEOREM CrashesAreCharged == Spec => []OnlyCrashesCharged
<1>1. IInv => OnlyCrashesCharged
  BY DEF IInv
<1> QED BY <1>1, Inductive, PTL

\* A request waits only while every slot computes another (dispatch).
THEOREM NoSlotIdles == Spec => []SlotsKeptBusy
<1>1. IInv => SlotsKeptBusy
  BY DEF IInv
<1> QED BY <1>1, Inductive, PTL

-----------------------------------------------------------------------------
(* The refinement.                                                           *)

\* No more tasks are computed than there are slots.
LEMMA ActiveFit ==
    ASSUME NEW ts, NEW q, NEW sl, TaskSide(ts, q, sl)
    PROVE  Cardinality({t \in Tasks : ts[t].state = "active"}) <= PoolSize
<1> DEFINE active == {t \in Tasks : ts[t].state = "active"}
           f == [t \in active |-> CHOOSE s \in Slots : sl[s].task = t]
<1>1. \A t \in active : \E s \in Slots : sl[s].task = t
  BY DEF TaskSide, OnSlot
<1>2. f \in [active -> Slots] /\ \A t \in active : sl[f[t]].task = t
  BY <1>1
<1> HIDE DEF f, active
<1>3. f \in Injection(active, Slots)
  <2>1. \A t, u \in active : f[t] = f[u] => t = u
    BY <1>2
  <2> QED BY <1>2, <2>1 DEF Injection, IsInjective
<1>4. Cardinality(active) <= PoolSize
  BY <1>3, FiniteSets, FS_Injection
<1> QED BY <1>4 DEF active

\* The pool implements the task service: a task is answered once, no more than
\* PoolSize at a time, no more than RetryLimit retries (settleTask, maybeRetryTask).
THEOREM PoolImplementsService == Spec => ImplementsService
<1>1. Init => PoolService!ServiceInit
  BY DEF Init, PoolService!ServiceInit, ServicePhase
<1>2. IInv /\ [Next]_vars => [PoolService!ServiceNext]_(PoolService!serviceVars)
  <2> SUFFICES ASSUME IInv, [Next]_vars PROVE PoolService!ServiceNext
    OBVIOUS
  <2>1. IInv' /\ \A t \in Tasks : TaskStep(tasks[t], tasks'[t])
    BY NextStep DEF StepOK
  <2> DEFINE begun == [t \in Tasks |-> tasks[t].begun]
  <2>2. /\ TaskSide(tasks', queue', slots') /\ Budget(tasks')
        /\ tasks' \in [Tasks -> Task]
    BY <2>1 DEF IInv, TaskSide
  <2>3. ServicePhase' \in [Tasks -> {"new", "waiting", "executing", "answered"}]
    BY <2>2 DEF ServicePhase, Task
  <2>4. begun' \in [Tasks -> 0 .. RetryLimit + 1]
    <3>1. \A t \in Tasks : tasks'[t].begun \in Nat /\ tasks'[t].begun <= RetryLimit + 1
      BY <2>2 DEF Budget, WithinBudget, Task
    <3> QED BY <3>1, WorkerPoolAssumption
  <2>5. Cardinality({t \in Tasks : ServicePhase'[t] = "executing"}) <= PoolSize
    <3>1. {t \in Tasks : ServicePhase'[t] = "executing"} = {t \in Tasks : tasks'[t].state = "active"}
      <4>1. \A t \in Tasks : tasks'[t].state \in {"new", "queued", "active", "answered"}
        BY <2>2 DEF Task
      <4>2. \A t \in Tasks : ServicePhase'[t] = "executing" <=> tasks'[t].state = "active"
        BY <4>1 DEF ServicePhase
      <4> QED BY <4>2
    <3> QED BY <2>2, <3>1, ActiveFit
  <2>6. ASSUME NEW t \in Tasks
        PROVE  PoolService!Moves(t)
    <3>1. /\ ServicePhase[t] = IF tasks[t].state = "queued" THEN "waiting"
                ELSE IF tasks[t].state = "active" THEN "executing" ELSE tasks[t].state
          /\ ServicePhase'[t] = IF tasks'[t].state = "queued" THEN "waiting"
                ELSE IF tasks'[t].state = "active" THEN "executing" ELSE tasks'[t].state
          /\ begun[t] = tasks[t].begun /\ begun'[t] = tasks'[t].begun
      BY DEF ServicePhase
    <3>2. tasks[t].state \in {"new", "queued", "active", "answered"}
      BY PoolTypes DEF Task
    <3> QED BY <2>1, <3>1, <3>2 DEF PoolService!Moves, TaskStep, Prepared
  <2>7. Cardinality(PoolService!Executing(ServicePhase')) <= PoolSize
    BY <2>5 DEF PoolService!Executing
  <2>8. \A S : PoolService!Cardinality(S) = Cardinality(S)
    BY DEF PoolService!Cardinality, Cardinality
  <2> QED BY <2>3, <2>4, <2>6, <2>7, <2>8 DEF PoolService!ServiceNext
<1> QED BY <1>1, <1>2, Inductive, PTL DEF Spec, ImplementsService, PoolService!Service
=============================================================================
