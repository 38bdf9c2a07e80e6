------------------------ MODULE AccountRuntime_proofs ------------------------
(***************************************************************************)
(* Theorems about the accounts at run time, in two parts.                  *)
(*                                                                         *)
(* About AccountRuntime, for every set of accounts and number of refreshes *)
(* and tasks: its type invariant, that no account is connected or waited   *)
(* for against the user's will, that the newest refresh is processed, that *)
(* nothing waits for what has ended, and that the component task queue     *)
(* implements TaskService.  What the newest refresh needs is that an       *)
(* account has one live refresh, which is the last it began: the lock of   *)
(* refreshLocks gives that.  What the queue needs is that a listed task    *)
(* waits, was never begun and is listed once.                              *)
(*                                                                         *)
(* About SessionPool, for every set of callers and number of flights and   *)
(* tokens: its type invariant, EntryLive, LoginSingleFlight, WaitersServed *)
(* and OnlyRejectedTokenRemoved.  What the token needs is that the flights *)
(* of an account with a maFile all recover: no other branch clears the     *)
(* stored token unseen.  The two modules share no variable.                *)
(***************************************************************************)
EXTENDS AccountRuntime, SessionPool, TLAPS, FiniteSetTheorems

RefreshRec == [account : Accounts \cup {"none"},
               phase : {"unused", "done", "failed", "processed"} \cup Live]

Post == [current : 0 .. MaxRefreshes, pending : 0 .. MaxRefreshes]

Heartbeat == [refresh : 0 .. MaxRefreshes, rest : SUBSET Accounts]

Task == [account : Accounts \cup {"none"}, begun : Nat,
         state : {"new", "queued", "running", "settled", "cancelled"}]

\* The tasks that wait are the listed ones, each is listed once, and it is for an
\* account of which the user still wants something.
QueueOK(ts, q, wants) ==
    /\ q \in Seq(TaskIds)
    /\ \A j, k \in 1 .. Len(q) : q[j] = q[k] => j = k
    /\ \A t \in TaskIds : ts[t].state = "queued" <=> \E k \in 1 .. Len(q) : q[k] = t
    /\ \A t \in TaskIds : ts[t].state = "queued" => ts[t].account \in wants

\* Executions: one at a time, one of each task.
TasksOK(ts) ==
    /\ ts \in [TaskIds -> Task]
    /\ \A t \in TaskIds : ts[t].begun <= 1 /\ (ts[t].state \in {"new", "queued"} => ts[t].begun = 0)
    /\ \A t, u \in TaskIds : ts[t].state = "running" /\ ts[u].state = "running" => t = u

\* Refresh jobs are numbered as they begin; a live one holds its account's lock, is the
\* last of its account, and is wanted.
JobsOK(jobs, locks, wants) ==
    /\ jobs \in [RefreshIds -> RefreshRec]
    /\ \A q, r \in RefreshIds : q < r /\ jobs[q].phase = "unused" => jobs[r].phase = "unused"
    /\ \A r \in RefreshIds : jobs[r].phase # "unused" => jobs[r].account \in Accounts
    /\ \A r \in RefreshIds : jobs[r].phase \in Live =>
          /\ jobs[r].account \in locks
          /\ jobs[r].account \in wants
          /\ \A q \in RefreshIds : jobs[q].phase # "unused" /\ jobs[q].account = jobs[r].account
                                   => q <= r

\* The refreshes an account's chain processes, and keeps for later, are its own.
PostOK(jobs, post) ==
    \A a \in Accounts :
        /\ post[a].current # 0 => jobs[post[a].current].phase = "done"
                                  /\ jobs[post[a].current].account = a
        /\ post[a].pending # 0 => /\ jobs[post[a].pending].phase = "done"
                                  /\ jobs[post[a].pending].account = a
                                  /\ post[a].current # 0 /\ post[a].current # post[a].pending

\* NewestProcessed, of these jobs and chains.
NewestOK(jobs, post) ==
    \A r \in RefreshIds :
        jobs[r].phase = "done" =>
            \/ r \in {post[jobs[r].account].current, post[jobs[r].account].pending}
            \/ \E q \in RefreshIds : /\ r < q
                                     /\ jobs[q].account = jobs[r].account
                                     /\ jobs[q].phase \in {"done", "processed"}

TypesOK ==
    /\ accounts \subseteq Accounts
    /\ connectedAccounts \subseteq Accounts
    /\ refreshLocks \subseteq Accounts
    /\ postRefresh \in [Accounts -> Post]
    /\ heartbeat \in Heartbeat
    /\ wanted \subseteq Accounts

IInv ==
    /\ TypesOK
    /\ connectedAccounts \subseteq wanted
    /\ heartbeat.rest \subseteq wanted
    /\ QueueOK(tasks, queued, wanted)
    /\ TasksOK(tasks)
    /\ JobsOK(refreshes, refreshLocks, wanted)
    /\ PostOK(refreshes, postRefresh)
    /\ NewestOK(refreshes, postRefresh)

\* What a step may do to a task.
TaskMoves(x, y) ==
    \/ y.state = x.state /\ y.begun = x.begun
    \/ x.state = "new" /\ y.state = "queued" /\ y.begun = x.begun
    \/ x.state \in {"queued", "running"} /\ y.state \in {"settled", "cancelled"}
       /\ y.begun = x.begun
    \/ x.state \in {"new", "queued"} /\ y.state = "running" /\ y.begun = x.begun + 1

TasksMove == \A t \in TaskIds : TaskMoves(tasks[t], tasks'[t])

StepOK == IInv' /\ TasksMove

-----------------------------------------------------------------------------
(* The queue without some of its tasks.                                      *)

LEMMA Finite ==
    /\ IsFiniteSet(TaskIds)
    /\ \A n \in Nat : IsFiniteSet(1 .. n) /\ Cardinality(1 .. n) = n
BY FS_Interval, AccountRuntimeAssumption DEF TaskIds

\* What is kept is listed in the new queue, each place of it once, and nothing else is.
Keeps(w, q, gone) ==
    /\ w \in Seq(TaskIds)
    /\ \A n \in 1 .. Len(w) : \E k \in 1 .. Len(q) : w[n] = q[k] /\ q[k] \notin gone
    /\ \A k \in 1 .. Len(q) : q[k] \notin gone => \E n \in 1 .. Len(w) : w[n] = q[k]
    /\ (\A j, k \in 1 .. Len(q) : q[j] = q[k] => j = k)
       => \A m, n \in 1 .. Len(w) : w[m] = w[n] => m = n

LEMMA WithoutKeeps ==
    ASSUME NEW q \in Seq(TaskIds), NEW gone,
           NEW w, w = Without(q, gone)
    PROVE  Keeps(w, q, gone)
<1> DEFINE kept == {k \in 1 .. Len(q) : q[k] \notin gone}
           upTo(k) == {j \in kept : j <= k}
           c == Cardinality(kept)
           at(n) == CHOOSE k \in kept : Cardinality(upTo(k)) = n
<1>1. /\ Len(q) \in Nat /\ DOMAIN q = 1 .. Len(q) /\ \A k \in 1 .. Len(q) : q[k] \in TaskIds /\ k \in Nat
      /\ w = [n \in 1 .. c |-> q[at(n)]]
  <2>1. DOMAIN q = 1 .. Len(q)
    OBVIOUS
  <2> QED BY <2>1 DEF Without
<1>2. IsFiniteSet(kept) /\ c \in Nat
  BY <1>1, Finite, FS_Subset, FS_CardinalityType
<1>3. ASSUME NEW k \in kept
      PROVE  IsFiniteSet(upTo(k)) /\ Cardinality(upTo(k)) \in 1 .. c
  <2>1. IsFiniteSet(upTo(k)) /\ Cardinality(upTo(k)) <= c /\ Cardinality(upTo(k)) \in Nat
    BY <1>2, FS_Subset, FS_CardinalityType
  <2>2. k \in upTo(k)
    BY <1>1
  <2>3. Cardinality(upTo(k)) # 0
    BY <2>1, <2>2, FS_EmptySet
  <2> QED BY <1>2, <2>1, <2>3
<1>4. \A k \in kept : Cardinality(upTo(k)) \in Nat
  <2>1. \A k \in kept : Cardinality(upTo(k)) \in 1 .. c
    BY <1>3
  <2> HIDE DEF c
  <2> QED BY <1>2, <2>1
<1>5. ASSUME NEW j \in kept, NEW k \in kept, j < k
      PROVE  Cardinality(upTo(j)) < Cardinality(upTo(k))
  <2> DEFINE a == upTo(j)
             b == upTo(k)
  <2>1. a \subseteq b /\ a # b
    <3>1. k \in b /\ k \notin a
      BY <1>1, <1>5
    <3>2. a \subseteq b
      BY <1>1, <1>5
    <3> QED BY <3>1, <3>2
  <2>2. IsFiniteSet(b) /\ Cardinality(a) \in Nat /\ Cardinality(b) \in Nat
    BY <1>3, <1>4
  <2> HIDE DEF a, b
  <2>3. Cardinality(a) <= Cardinality(b) /\ Cardinality(a) # Cardinality(b)
    BY <2>1, <2>2, FS_Subset
  <2>4. Cardinality(a) < Cardinality(b)
    BY <2>2, <2>3
  <2> QED BY <2>4 DEF a, b
<1>6. \A j, k \in kept : Cardinality(upTo(j)) = Cardinality(upTo(k)) => j = k
  <2> SUFFICES ASSUME NEW j \in kept, NEW k \in kept, j # k
               PROVE  Cardinality(upTo(j)) # Cardinality(upTo(k))
    OBVIOUS
  <2> DEFINE a == Cardinality(upTo(j))
             b == Cardinality(upTo(k))
  <2>1. j < k \/ k < j
    BY <1>1
  <2>2. (j < k => a < b) /\ (k < j => b < a)
    BY <1>5
  <2>3. a \in Nat /\ b \in Nat
    BY <1>4
  <2> HIDE DEF a, b
  <2>4. a # b
    BY <2>1, <2>2, <2>3
  <2> QED BY <2>4 DEF a, b
<1>7. \A n \in 1 .. c : \E k \in kept : Cardinality(upTo(k)) = n
  <2> DEFINE f == [k \in kept |-> Cardinality(upTo(k))]
  <2>1. f \in [kept -> 1 .. c] /\ \A k \in kept : f[k] = Cardinality(upTo(k))
    BY <1>3
  <2> HIDE DEF f
  <2>2. f \in Injection(kept, 1 .. c)
    <3>1. \A j, k \in kept : f[j] = f[k] => j = k
      BY <1>6, <2>1
    <3> QED BY <2>1, <3>1 DEF Injection, IsInjective
  <2>3. IsFiniteSet(1 .. c) /\ Cardinality(1 .. c) = Cardinality(kept)
    BY <1>2, Finite
  <2> HIDE DEF kept
  <2>4. f \in Surjection(kept, 1 .. c)
    BY <2>2, <2>3, FS_Injection
  <2> QED BY <2>1, <2>4 DEF Surjection
<1>8. \A n \in 1 .. c : at(n) \in kept /\ Cardinality(upTo(at(n))) = n
  BY <1>7
<1>9. \A k \in kept : at(Cardinality(upTo(k))) = k
  BY <1>3, <1>6, <1>8
<1> HIDE DEF at
<1>10. /\ w \in Seq(TaskIds) /\ Len(w) = c /\ \A n \in 1 .. c : w[n] = q[at(n)]
  <2>1. \A n \in 1 .. c : q[at(n)] \in TaskIds
    BY <1>1, <1>8
  <2>2. c \in Nat /\ w = [n \in 1 .. c |-> q[at(n)]]
    BY <1>1, <1>2
  <2> HIDE DEF c
  <2>3. w \in [1 .. c -> TaskIds] /\ \A n \in 1 .. c : w[n] = q[at(n)]
    BY <2>1, <2>2
  <2>4. w \in Seq(TaskIds) /\ Len(w) = c
    BY <2>2, <2>3
  <2> QED BY <2>3, <2>4
<1>11. \A n \in 1 .. Len(w) : \E k \in 1 .. Len(q) : w[n] = q[k] /\ q[k] \notin gone
  <2> SUFFICES ASSUME NEW n \in 1 .. c
               PROVE  \E k \in 1 .. Len(q) : w[n] = q[k] /\ q[k] \notin gone
    BY <1>10
  <2>1. at(n) \in 1 .. Len(q) /\ q[at(n)] \notin gone
    BY <1>8
  <2> QED BY <1>10, <2>1
<1>12. \A k \in 1 .. Len(q) : q[k] \notin gone => \E n \in 1 .. Len(w) : w[n] = q[k]
  <2> SUFFICES ASSUME NEW k \in kept PROVE \E n \in 1 .. c : w[n] = q[k]
    BY <1>10
  <2>1. Cardinality(upTo(k)) \in 1 .. c
    BY <1>3
  <2> QED BY <1>9, <1>10, <2>1
<1>13. ASSUME \A j, k \in 1 .. Len(q) : q[j] = q[k] => j = k
       PROVE  \A m, n \in 1 .. Len(w) : w[m] = w[n] => m = n
  <2> SUFFICES ASSUME NEW m \in 1 .. c, NEW n \in 1 .. c, w[m] = w[n] PROVE m = n
    BY <1>10
  <2>1. at(m) \in 1 .. Len(q) /\ at(n) \in 1 .. Len(q) /\ q[at(m)] = q[at(n)]
    BY <1>8, <1>10
  <2>2. at(m) = at(n)
    BY <1>13, <2>1
  <2> QED BY <1>8, <2>2
<1> QED BY <1>10, <1>11, <1>12, <1>13 DEF Keeps

-----------------------------------------------------------------------------
(* The tasks.                                                                *)

\* The task at the head of the queue is begun, unless one goes on.
LEMMA RunNextKeeps ==
    ASSUME NEW ts, NEW q, NEW wants, TasksOK(ts), QueueOK(ts, q, wants), RunNext(ts, q)
    PROVE  /\ TasksOK(tasks') /\ QueueOK(tasks', queued', wants)
           /\ \A t \in TaskIds :
                 \/ tasks'[t] = ts[t]
                 \/ ts[t].state = "queued" /\ tasks'[t].state = "running"
                    /\ tasks'[t].begun = ts[t].begun + 1
<1>1. CASE q = <<>> \/ ~Idle(ts)
  <2>1. tasks' = ts /\ queued' = q
    BY <1>1 DEF RunNext
  <2> QED BY <2>1
<1>2. CASE q # <<>> /\ Idle(ts)
  <2> DEFINE h == q[1]
             b == ts[h].begun + 1
             n == [ts[h] EXCEPT !.state = "running", !.begun = b]
  <2>1. /\ q \in Seq(TaskIds) /\ Len(q) \in Nat /\ 1 \in 1 .. Len(q) /\ h \in TaskIds
        /\ Len(Tail(q)) = Len(q) - 1 /\ Tail(q) \in Seq(TaskIds)
        /\ \A k \in 1 .. Len(Tail(q)) : Tail(q)[k] = q[k + 1] /\ k + 1 \in 1 .. Len(q)
                                        /\ k + 1 # 1
        /\ Head(q) = h
    BY <1>2 DEF QueueOK
  <2>2. ts[h] \in Task /\ ts[h].state = "queued" /\ ts[h].begun = 0 /\ ts \in [TaskIds -> Task]
    BY <2>1 DEF QueueOK, TasksOK
  <2>3. n.state = "running" /\ n.begun = ts[h].begun + 1 /\ n.account = ts[h].account
    BY <2>2 DEF Task
  <2>4. n \in Task
    <3>1. b \in Nat
      BY <2>2
    <3> HIDE DEF b
    <3> QED BY <2>2, <3>1 DEF Task
  <2>5. tasks' = [ts EXCEPT ![h] = n] /\ queued' = Tail(q)
    BY <1>2, <2>1, <2>2 DEF RunNext
  <2> HIDE DEF n
  <2>6. tasks' \in [TaskIds -> Task] /\ tasks'[h] = n /\ \A t \in TaskIds : t # h => tasks'[t] = ts[t]
    BY <2>1, <2>2, <2>4, <2>5
  <2> HIDE DEF h
  <2>7. TasksOK(tasks')
    <3>1. \A t \in TaskIds : ts[t].state # "running"
      BY <1>2 DEF Idle
    <3>2. \A t \in TaskIds : tasks'[t].begun <= 1
                             /\ (tasks'[t].state \in {"new", "queued"} => tasks'[t].begun = 0)
      <4> SUFFICES ASSUME NEW t \in TaskIds
                   PROVE  tasks'[t].begun <= 1
                          /\ (tasks'[t].state \in {"new", "queued"} => tasks'[t].begun = 0)
        OBVIOUS
      <4>1. CASE t = h
        BY <2>2, <2>3, <2>6, <4>1
      <4>2. CASE t # h
        BY <2>6, <4>2 DEF TasksOK
      <4> QED BY <4>1, <4>2
    <3>3. \A t \in TaskIds : tasks'[t].state = "running" => t = h
      BY <2>6, <3>1
    <3> QED BY <2>6, <3>2, <3>3 DEF TasksOK
  <2>8. QueueOK(tasks', queued', wants)
    <3>1. \A j, k \in 1 .. Len(queued') : queued'[j] = queued'[k] => j = k
      <4> SUFFICES ASSUME NEW j \in 1 .. Len(queued'), NEW k \in 1 .. Len(queued'),
                          queued'[j] = queued'[k]
                   PROVE  j = k
        OBVIOUS
      <4>1. j + 1 = k + 1
        BY <2>1, <2>5 DEF QueueOK
      <4> QED BY <2>1, <2>5, <4>1
    <3>2. ASSUME NEW t \in TaskIds, tasks'[t].state = "queued"
          PROVE  (\E k \in 1 .. Len(queued') : queued'[k] = t) /\ tasks'[t].account \in wants
      <4>1. t # h /\ tasks'[t] = ts[t]
        BY <2>3, <2>6, <3>2
      <4>2. PICK j \in 1 .. Len(q) : q[j] = t
        BY <3>2, <4>1 DEF QueueOK
      <4>3. j # 1
        BY <4>1, <4>2 DEF h
      <4>4. j - 1 \in 1 .. Len(Tail(q)) /\ (j - 1) + 1 = j
        BY <2>1, <4>3
      <4>5. queued'[j - 1] = t
        BY <2>1, <2>5, <4>2, <4>4
      <4>6. tasks'[t].account \in wants
        BY <3>2, <4>1 DEF QueueOK
      <4> QED BY <2>5, <4>4, <4>5, <4>6
    <3>3. ASSUME NEW t \in TaskIds, NEW k \in 1 .. Len(queued'), queued'[k] = t
          PROVE  tasks'[t].state = "queued"
      <4>1. k + 1 \in 1 .. Len(q) /\ q[k + 1] = t /\ k + 1 # 1
        BY <2>1, <2>5, <3>3
      <4>2. ts[t].state = "queued"
        BY <4>1 DEF QueueOK
      <4>3. t # h
        BY <2>1, <4>1 DEF QueueOK, h
      <4> QED BY <2>6, <4>2, <4>3
    <3> QED BY <2>1, <2>5, <3>1, <3>2, <3>3 DEF QueueOK
  <2> QED BY <2>2, <2>3, <2>6, <2>7, <2>8
<1> QED BY <1>1, <1>2

\* These waiting tasks are cancelled, the others wait on.
LEMMA CancelKeeps ==
    ASSUME TasksOK(tasks), NEW wants, QueueOK(tasks, queued, wants),
           NEW gone, \A t \in TaskIds : t \in gone => tasks[t].state = "queued",
           tasks' \in [TaskIds -> Task],
           \A t \in TaskIds : IF t \in gone THEN /\ tasks'[t].state = "cancelled"
                                                 /\ tasks'[t].begun = tasks[t].begun
                              ELSE tasks'[t] = tasks[t],
           queued' = Without(queued, gone),
           NEW left, \A t \in TaskIds : tasks[t].account \in wants /\ t \notin gone
                        /\ tasks[t].state = "queued" => tasks[t].account \in left
    PROVE  TasksOK(tasks') /\ QueueOK(tasks', queued', left) /\ TasksMove
<1>1. TasksOK(tasks')
  <2>1. ASSUME NEW t \in TaskIds
        PROVE  tasks'[t].begun <= 1
               /\ (tasks'[t].state \in {"new", "queued"} => tasks'[t].begun = 0)
    <3>1. tasks[t].begun <= 1 /\ (tasks[t].state \in {"new", "queued"} => tasks[t].begun = 0)
      BY DEF TasksOK
    <3> QED BY <3>1
  <2>2. \A t \in TaskIds : tasks'[t].state = "running" => tasks[t].state = "running"
    OBVIOUS
  <2> QED BY <2>1, <2>2 DEF TasksOK
<1>2. QueueOK(tasks', queued', left)
  <2>1. queued \in Seq(TaskIds)
    BY DEF QueueOK
  <2>2. /\ queued' \in Seq(TaskIds)
        /\ \A n \in 1 .. Len(queued') : \E k \in 1 .. Len(queued) :
              queued'[n] = queued[k] /\ queued[k] \notin gone
        /\ \A k \in 1 .. Len(queued) : queued[k] \notin gone =>
              \E n \in 1 .. Len(queued') : queued'[n] = queued[k]
        /\ (\A j, k \in 1 .. Len(queued) : queued[j] = queued[k] => j = k)
           => \A m, n \in 1 .. Len(queued') : queued'[m] = queued'[n] => m = n
    <3>1. PICK w : w = queued'
      OBVIOUS
    <3>2. Keeps(w, queued, gone)
      BY <2>1, <3>1, WithoutKeeps
    <3> QED BY <3>1, <3>2 DEF Keeps
  <2>3. \A m, n \in 1 .. Len(queued') : queued'[m] = queued'[n] => m = n
    BY <2>2 DEF QueueOK
  <2>4. \A t \in TaskIds : tasks'[t].state = "queued" <=> (tasks[t].state = "queued" /\ t \notin gone)
    OBVIOUS
  <2>5. \A t \in TaskIds : tasks'[t].state = "queued" <=> \E n \in 1 .. Len(queued') : queued'[n] = t
    <3>1. \A t \in TaskIds : tasks[t].state = "queued" <=> \E k \in 1 .. Len(queued) : queued[k] = t
      BY DEF QueueOK
    <3>2. ASSUME NEW t \in TaskIds, tasks[t].state = "queued", t \notin gone
          PROVE  \E n \in 1 .. Len(queued') : queued'[n] = t
      <4>1. PICK k \in 1 .. Len(queued) : queued[k] = t
        BY <3>1, <3>2
      <4> QED BY <2>2, <3>2, <4>1
    <3>3. ASSUME NEW t \in TaskIds, NEW n \in 1 .. Len(queued'), queued'[n] = t
          PROVE  tasks[t].state = "queued" /\ t \notin gone
      <4>1. PICK k \in 1 .. Len(queued) : queued[k] = t /\ t \notin gone
        BY <2>2, <3>3
      <4> QED BY <3>1, <4>1
    <3> QED BY <2>4, <3>2, <3>3
  <2>6. \A t \in TaskIds : tasks'[t].state = "queued" => tasks'[t].account \in left
    BY <2>4 DEF QueueOK
  <2> QED BY <2>2, <2>3, <2>5, <2>6 DEF QueueOK
<1>3. TasksMove
  BY DEF TasksMove, TaskMoves
<1> QED BY <1>1, <1>2, <1>3

\* The tasks once this one is queued for the account, and once it is settled.
AsQueued(ts, t, a) == ts = [tasks EXCEPT ![t].account = a, ![t].state = "queued"]

AsSettled(ts, t) == ts = [tasks EXCEPT ![t].state = "settled"]

\* A new task is put at the end of the queue.
LEMMA QueuedKeeps ==
    ASSUME TasksOK(tasks), QueueOK(tasks, queued, wanted), NEW t \in TaskIds,
           tasks[t].state = "new", NEW a \in Accounts, a \in wanted,
           NEW ts, AsQueued(ts, t, a)
    PROVE  /\ TasksOK(ts) /\ QueueOK(ts, Append(queued, t), wanted)
           /\ ts[t].state = "queued" /\ ts[t].begun = tasks[t].begun
           /\ \A u \in TaskIds : u # t => ts[u] = tasks[u]
<1> DEFINE n == [tasks[t] EXCEPT !.account = a, !.state = "queued"]
           q == Append(queued, t)
           l == Len(queued)
<1>1. tasks \in [TaskIds -> Task] /\ tasks[t] \in Task
  BY DEF TasksOK
<1>2. n.account = a /\ n.state = "queued" /\ n.begun = tasks[t].begun
  BY <1>1 DEF Task
<1>3. n \in Task
  BY <1>1 DEF Task
<1>4. ts = [tasks EXCEPT ![t] = n]
  BY <1>1 DEF AsQueued
<1> HIDE DEF n
<1>5. ts \in [TaskIds -> Task] /\ ts[t] = n /\ \A u \in TaskIds : u # t => ts[u] = tasks[u]
  BY <1>1, <1>3, <1>4
<1>6. TasksOK(ts)
  BY <1>2, <1>5 DEF TasksOK
<1>7. /\ l \in Nat /\ q \in Seq(TaskIds) /\ Len(q) = l + 1 /\ q[l + 1] = t
      /\ l + 1 \in 1 .. Len(q)
      /\ \A k \in 1 .. l : q[k] = queued[k] /\ k \in 1 .. Len(q)
      /\ \A k \in 1 .. Len(q) : k \in 1 .. l \/ k = l + 1
  BY DEF QueueOK
<1>8. \A k \in 1 .. l : queued[k] # t
  BY DEF QueueOK
<1>9. \A u \in TaskIds : ts[u].state = "queued" <=> u = t \/ \E k \in 1 .. l : queued[k] = u
  BY <1>2, <1>5 DEF QueueOK
<1> HIDE DEF q
<1>10. \A u \in TaskIds : (\E k \in 1 .. Len(q) : q[k] = u) <=> u = t \/ \E k \in 1 .. l : queued[k] = u
  BY <1>7
<1>11. \A j, k \in 1 .. Len(q) : q[j] = q[k] => j = k
  <2> SUFFICES ASSUME NEW j \in 1 .. Len(q), NEW k \in 1 .. Len(q), q[j] = q[k] PROVE j = k
    OBVIOUS
  <2>1. CASE j \in 1 .. l /\ k \in 1 .. l
    BY <1>7, <2>1 DEF QueueOK
  <2>2. CASE j = l + 1 \/ k = l + 1
    BY <1>7, <1>8, <2>2
  <2> QED BY <1>7, <2>1, <2>2
<1>12. \A u \in TaskIds : ts[u].state = "queued" => ts[u].account \in wanted
  BY <1>2, <1>5 DEF QueueOK
<1>13. QueueOK(ts, q, wanted)
  BY <1>7, <1>9, <1>10, <1>11, <1>12 DEF QueueOK
<1> QED BY <1>2, <1>5, <1>6, <1>13 DEF q

\* A running task settles.
LEMMA SettledKeeps ==
    ASSUME TasksOK(tasks), QueueOK(tasks, queued, wanted), NEW t \in TaskIds,
           tasks[t].state = "running",
           NEW ts, AsSettled(ts, t)
    PROVE  /\ TasksOK(ts) /\ QueueOK(ts, queued, wanted)
           /\ ts[t].state = "settled" /\ ts[t].begun = tasks[t].begun
           /\ \A u \in TaskIds : u # t => ts[u] = tasks[u]
<1> DEFINE n == [tasks[t] EXCEPT !.state = "settled"]
<1>1. tasks \in [TaskIds -> Task] /\ tasks[t] \in Task
  BY DEF TasksOK
<1>2. n.state = "settled" /\ n.begun = tasks[t].begun
  BY <1>1 DEF Task
<1>3. n \in Task
  BY <1>1 DEF Task
<1>4. ts = [tasks EXCEPT ![t] = n]
  BY <1>1 DEF AsSettled
<1> HIDE DEF n
<1>5. ts \in [TaskIds -> Task] /\ ts[t] = n /\ \A u \in TaskIds : u # t => ts[u] = tasks[u]
  BY <1>1, <1>3, <1>4
<1>6. TasksOK(ts)
  BY <1>2, <1>5 DEF TasksOK
<1>7. \A u \in TaskIds : ts[u].state = "queued" <=> tasks[u].state = "queued"
  BY <1>2, <1>5
<1>8. QueueOK(ts, queued, wanted)
  BY <1>2, <1>5, <1>7 DEF QueueOK
<1> QED BY <1>2, <1>5, <1>6, <1>8

-----------------------------------------------------------------------------
(* The refreshes.                                                            *)

\* Later jobs: a live or unused one may have gone on, but not to "done".
Later(jobs, later) ==
    \A r \in RefreshIds :
        \/ later[r] = jobs[r]
        \/ jobs[r].phase \in {"unused"} \cup Live /\ later[r].phase \notin {"done", "processed"}

\* A refresh is joined, or begun by the account that is the job's.
LEMMA RefreshKeeps ==
    ASSUME NEW a \in Accounts, NEW locks \in SUBSET Accounts, NEW jobs, NEW wants, a \in wants,
           JobsOK(jobs, locks, wants), NEW r \in RefreshIds, Refresh(a, locks, jobs, r)
    PROVE  /\ JobsOK(refreshes', refreshLocks', wants)
           /\ refreshLocks' \subseteq Accounts
           /\ Later(jobs, refreshes')
<1>1. CASE Joinable(a, locks)
  BY <1>1 DEF Refresh, Later
<1>2. CASE ~Joinable(a, locks)
  <2> DEFINE n == [account |-> a, phase |-> "connecting"]
  <2>1. /\ jobs[r].phase = "unused" /\ \A q \in RefreshIds : q < r => jobs[q].phase # "unused"
        /\ refreshLocks' = locks \cup {a} /\ refreshes' = [jobs EXCEPT ![r] = n]
    BY <1>2 DEF Refresh
  <2>2. n \in RefreshRec /\ n.account = a /\ n.phase = "connecting"
    BY DEF RefreshRec, Live
  <2> HIDE DEF n
  <2>3. /\ jobs \in [RefreshIds -> RefreshRec] /\ refreshes' \in [RefreshIds -> RefreshRec]
        /\ refreshes'[r] = n /\ \A q \in RefreshIds : q # r => refreshes'[q] = jobs[q]
    BY <2>1, <2>2 DEF JobsOK
  <2>4. \A q \in RefreshIds : q \in Nat
    BY AccountRuntimeAssumption DEF RefreshIds
  <2>5. \A q \in RefreshIds : r < q => jobs[q].phase = "unused"
    BY <2>1 DEF JobsOK
  <2>6. \A q, s \in RefreshIds : q < s /\ refreshes'[q].phase = "unused" => refreshes'[s].phase = "unused"
    <3> SUFFICES ASSUME NEW q \in RefreshIds, NEW s \in RefreshIds, q < s,
                        refreshes'[q].phase = "unused"
                 PROVE  refreshes'[s].phase = "unused"
      OBVIOUS
    <3>1. q # r /\ jobs[q].phase = "unused"
      BY <2>2, <2>3
    <3>2. jobs[s].phase = "unused"
      BY <3>1 DEF JobsOK
    <3>3. s # r
      BY <2>1, <3>1, <3>2
    <3> QED BY <2>3, <3>2, <3>3
  <2>7. \A q \in RefreshIds : refreshes'[q].phase # "unused" => refreshes'[q].account \in Accounts
    <3>1. \A q \in RefreshIds : jobs[q].phase # "unused" => jobs[q].account \in Accounts
      BY DEF JobsOK
    <3> QED BY <2>2, <2>3, <3>1
  <2>8. ASSUME NEW s \in RefreshIds, refreshes'[s].phase \in Live
        PROVE  /\ refreshes'[s].account \in refreshLocks' /\ refreshes'[s].account \in wants
               /\ \A q \in RefreshIds : refreshes'[q].phase # "unused"
                                        /\ refreshes'[q].account = refreshes'[s].account => q <= s
    <3>1. CASE s = r
      <4>1. \A q \in RefreshIds : refreshes'[q].phase # "unused" => q <= r
        <5> SUFFICES ASSUME NEW q \in RefreshIds, ~(q <= r) PROVE refreshes'[q].phase = "unused"
          OBVIOUS
        <5>1. r < q /\ q # r
          BY <2>4
        <5> QED BY <2>3, <2>5, <5>1
      <4> QED BY <2>1, <2>2, <2>3, <3>1, <4>1
    <3>2. CASE s # r
      <4>1. /\ jobs[s].phase \in Live /\ refreshes'[s] = jobs[s]
            /\ jobs[s].account \in locks /\ jobs[s].account \in wants
            /\ \A q \in RefreshIds : jobs[q].phase # "unused" /\ jobs[q].account = jobs[s].account
                                     => q <= s
        BY <2>3, <2>8, <3>2 DEF JobsOK
      <4>2. jobs[s].account # a
        BY <1>2, <4>1 DEF Joinable
      <4> QED BY <2>1, <2>2, <2>3, <4>1, <4>2
    <3> QED BY <3>1, <3>2
  <2>9. Later(jobs, refreshes')
    BY <2>1, <2>2, <2>3 DEF Later
  <2>10. refreshLocks' \subseteq Accounts
    BY <2>1
  <2> QED BY <2>3, <2>6, <2>7, <2>8, <2>9, <2>10 DEF JobsOK
<1> QED BY <1>1, <1>2

\* The loop of the heartbeat refreshes one of its targets, or ends.
LEMMA HeartbeatKeeps ==
    ASSUME NEW rest \in SUBSET Accounts, rest \subseteq wanted, NEW connected,
           NEW locks \in SUBSET Accounts, NEW jobs, JobsOK(jobs, locks, wanted),
           HeartbeatGoes(rest, connected, locks, jobs)
    PROVE  /\ JobsOK(refreshes', refreshLocks', wanted)
           /\ refreshLocks' \subseteq Accounts
           /\ Later(jobs, refreshes')
           /\ connectedAccounts' \subseteq connected
           /\ heartbeat' \in Heartbeat /\ heartbeat'.rest \subseteq rest
<1>1. PICK passed \in SUBSET rest :
        /\ connectedAccounts' = connected \ (passed \ accounts)
        /\ \/ /\ passed = rest
              /\ heartbeat' = NoTick
              /\ refreshLocks' = locks
              /\ refreshes' = jobs
           \/ \E a \in (rest \ passed) \cap accounts, r \in RefreshIds :
                 /\ Refresh(a, locks, jobs, r)
                 /\ heartbeat' = [refresh |-> r, rest |-> rest \ (passed \cup {a})]
  BY DEF HeartbeatGoes
<1>2. connectedAccounts' \subseteq connected
  BY <1>1
<1>3. CASE heartbeat' = NoTick /\ refreshLocks' = locks /\ refreshes' = jobs
  <2>1. heartbeat' \in Heartbeat /\ heartbeat'.rest \subseteq rest
    BY <1>3, AccountRuntimeAssumption DEF NoTick, Heartbeat
  <2>2. Later(jobs, refreshes')
    BY <1>3 DEF Later
  <2> QED BY <1>2, <1>3, <2>1, <2>2
<1>4. ASSUME NEW a \in (rest \ passed) \cap accounts, NEW r \in RefreshIds,
             Refresh(a, locks, jobs, r),
             heartbeat' = [refresh |-> r, rest |-> rest \ (passed \cup {a})]
      PROVE  /\ JobsOK(refreshes', refreshLocks', wanted)
             /\ refreshLocks' \subseteq Accounts
             /\ Later(jobs, refreshes')
             /\ heartbeat' \in Heartbeat /\ heartbeat'.rest \subseteq rest
  <2>1. a \in Accounts /\ a \in wanted
    BY <1>4
  <2>2. /\ JobsOK(refreshes', refreshLocks', wanted) /\ refreshLocks' \subseteq Accounts
        /\ Later(jobs, refreshes')
    BY <1>4, <2>1, RefreshKeeps
  <2>3. r \in 0 .. MaxRefreshes
    BY AccountRuntimeAssumption DEF RefreshIds
  <2>4. heartbeat' \in Heartbeat /\ heartbeat'.rest \subseteq rest
    BY <1>4, <2>3 DEF Heartbeat
  <2> QED BY <2>2, <2>4
<1> QED BY <1>1, <1>2, <1>3, <1>4

\* The jobs once this one is in this phase.
Moved(jobs, r, phase) == jobs = [refreshes EXCEPT ![r].phase = phase]

\* What holds of the jobs then.
MovedOn(r, phase, locks, jobs) ==
    /\ JobsOK(jobs, locks, wanted)
    /\ jobs[r].phase = phase /\ jobs[r].account = refreshes[r].account
    /\ \A q \in RefreshIds : q # r => jobs[q] = refreshes[q]

\* A live refresh moves on to this phase, and leaves its lock if that is not live.
LEMMA PhaseKeeps ==
    ASSUME JobsOK(refreshes, refreshLocks, wanted), NEW r \in RefreshIds,
           refreshes[r].phase \in Live,
           NEW phase \in {"building", "done", "failed"},
           NEW locks, phase = "building" => locks = refreshLocks,
           phase # "building" => locks = refreshLocks \ {refreshes[r].account},
           NEW jobs, Moved(jobs, r, phase)
    PROVE  MovedOn(r, phase, locks, jobs)
<1> DEFINE n == [refreshes[r] EXCEPT !.phase = phase]
<1>1. refreshes \in [RefreshIds -> RefreshRec] /\ refreshes[r] \in RefreshRec
  BY DEF JobsOK
<1>2. n.phase = phase /\ n.account = refreshes[r].account
  BY <1>1 DEF RefreshRec
<1>3. n \in RefreshRec
  BY <1>1 DEF RefreshRec, Live
<1>4. jobs = [refreshes EXCEPT ![r] = n]
  BY <1>1 DEF Moved
<1> HIDE DEF n
<1>5. jobs \in [RefreshIds -> RefreshRec] /\ jobs[r] = n
      /\ \A q \in RefreshIds : q # r => jobs[q] = refreshes[q]
  BY <1>1, <1>3, <1>4
<1>6. \A q \in RefreshIds : /\ jobs[q].account = refreshes[q].account
                            /\ jobs[q].phase = "unused" <=> refreshes[q].phase = "unused"
                            /\ jobs[q].phase \in Live => refreshes[q].phase \in Live
  BY <1>2, <1>5 DEF Live
<1>7. \A q, s \in RefreshIds : q < s /\ jobs[q].phase = "unused" => jobs[s].phase = "unused"
  BY <1>6 DEF JobsOK
<1>8. \A q \in RefreshIds : jobs[q].phase # "unused" => jobs[q].account \in Accounts
  BY <1>6 DEF JobsOK
<1>9. ASSUME NEW s \in RefreshIds, jobs[s].phase \in Live
      PROVE  /\ jobs[s].account \in locks /\ jobs[s].account \in wanted
             /\ \A q \in RefreshIds : jobs[q].phase # "unused" /\ jobs[q].account = jobs[s].account
                                      => q <= s
  <2>1. /\ refreshes[s].account \in refreshLocks /\ refreshes[s].account \in wanted
        /\ \A q \in RefreshIds : refreshes[q].phase # "unused"
                                 /\ refreshes[q].account = refreshes[s].account => q <= s
    BY <1>6, <1>9 DEF JobsOK
  <2>2. phase # "building" => refreshes[s].account # refreshes[r].account
    <3> SUFFICES ASSUME phase # "building", refreshes[s].account = refreshes[r].account PROVE FALSE
      OBVIOUS
    <3>1. s # r
      BY <1>2, <1>5, <1>9 DEF Live
    <3>2. s <= r /\ r <= s
      BY <1>6, <1>9, <2>1 DEF JobsOK, Live
    <3>3. r \in Nat /\ s \in Nat
      BY AccountRuntimeAssumption DEF RefreshIds
    <3> QED BY <3>1, <3>2, <3>3
  <2>3. jobs[s].account \in locks
    BY <1>6, <2>1, <2>2
  <2> QED BY <1>6, <2>1, <2>3
<1>10. JobsOK(jobs, locks, wanted)
  BY <1>5, <1>7, <1>8, <1>9 DEF JobsOK
<1> QED BY <1>2, <1>5, <1>10 DEF MovedOn

-----------------------------------------------------------------------------
(* What is processed after a refresh.                                        *)

LEMMA PostTypes ==
    ASSUME postRefresh \in [Accounts -> Post], NEW a \in Accounts
    PROVE  /\ postRefresh[a] \in Post
           /\ postRefresh[a].current # 0 => postRefresh[a].current \in RefreshIds
           /\ postRefresh[a].pending # 0 => postRefresh[a].pending \in RefreshIds
BY AccountRuntimeAssumption DEF Post, RefreshIds

\* Jobs that go on, but do not get done, leave it as it is.
LEMMA PostKept ==
    ASSUME NEW post, NEW jobs, NEW later,
           \A a \in Accounts : /\ post[a].current # 0 => post[a].current \in RefreshIds
                               /\ post[a].pending # 0 => post[a].pending \in RefreshIds,
           PostOK(jobs, post), NewestOK(jobs, post), Later(jobs, later)
    PROVE  PostOK(later, post) /\ NewestOK(later, post)
<1>1. \A r \in RefreshIds : jobs[r].phase \in {"done", "processed"} => later[r] = jobs[r]
  BY DEF Later, Live
<1>2. \A r \in RefreshIds : later[r].phase \in {"done", "processed"} => later[r] = jobs[r]
  BY DEF Later
<1>3. PostOK(later, post)
  BY <1>1 DEF PostOK
<1>4. NewestOK(later, post)
  <2> SUFFICES ASSUME NEW r \in RefreshIds, later[r].phase = "done"
               PROVE  \/ r \in {post[later[r].account].current, post[later[r].account].pending}
                      \/ \E q \in RefreshIds : /\ r < q
                                               /\ later[q].account = later[r].account
                                               /\ later[q].phase \in {"done", "processed"}
    BY DEF NewestOK
  <2>1. later[r] = jobs[r]
    BY <1>2
  <2>2. CASE r \in {post[jobs[r].account].current, post[jobs[r].account].pending}
    BY <2>1, <2>2
  <2>3. CASE \E q \in RefreshIds : /\ r < q
                                   /\ jobs[q].account = jobs[r].account
                                   /\ jobs[q].phase \in {"done", "processed"}
    <3>1. PICK q \in RefreshIds : /\ r < q
                                  /\ jobs[q].account = jobs[r].account
                                  /\ jobs[q].phase \in {"done", "processed"}
      BY <2>3
    <3>2. later[q] = jobs[q]
      BY <1>1, <3>1
    <3> QED BY <2>1, <3>1, <3>2
  <2> QED BY <2>1, <2>2, <2>3 DEF NewestOK
<1> QED BY <1>3, <1>4

\* A refresh gets done: it is processed, or waits for that in place of an older one.
LEMMA PostDone ==
    ASSUME postRefresh \in [Accounts -> Post], JobsOK(refreshes, refreshLocks, wanted),
           PostOK(refreshes, postRefresh), NewestOK(refreshes, postRefresh),
           NEW r \in RefreshIds, refreshes[r].phase = "building",
           NEW jobs, jobs[r].phase = "done", jobs[r].account = refreshes[r].account,
           \A q \in RefreshIds : q # r => jobs[q] = refreshes[q],
           NEW post,
           post = [postRefresh EXCEPT ![refreshes[r].account] = Queued(@, r)]
    PROVE  /\ post \in [Accounts -> Post]
           /\ PostOK(jobs, post) /\ NewestOK(jobs, post)
<1> DEFINE a == refreshes[r].account
           old == postRefresh[a]
           new == Queued(old, r)
<1>1. /\ a \in Accounts
      /\ \A q \in RefreshIds : refreshes[q].phase # "unused" /\ refreshes[q].account = a => q <= r
  BY DEF JobsOK, Live
<1>2. r \in 1 .. MaxRefreshes /\ r # 0 /\ r \in 0 .. MaxRefreshes
  BY AccountRuntimeAssumption DEF RefreshIds
<1>3. /\ old \in Post
      /\ old.current # 0 => old.current \in RefreshIds
      /\ old.pending # 0 => old.pending \in RefreshIds
  BY <1>1, PostTypes
<1>4. /\ old.current # 0 => refreshes[old.current].phase = "done" /\ refreshes[old.current].account = a
      /\ old.pending # 0 => refreshes[old.pending].phase = "done" /\ refreshes[old.pending].account = a
                            /\ old.current # 0
  BY <1>1 DEF PostOK
<1>5. /\ old.current = 0 => new.current = r /\ new.pending = 0
      /\ old.current # 0 => new.current = old.current /\ new.pending = r
  BY <1>3 DEF Queued, Post
<1>6. new \in Post
  BY <1>2, <1>3, AccountRuntimeAssumption DEF Queued, Post
<1> HIDE DEF new
<1>7. /\ post \in [Accounts -> Post] /\ post[a] = new
      /\ \A b \in Accounts : b # a => post[b] = postRefresh[b]
  BY <1>1, <1>6 DEF new
<1>8. PostOK(jobs, post)
  <2>1. old.current # 0 => old.current # r
    BY <1>4
  <2>2. ASSUME NEW b \in Accounts, b = a
        PROVE  /\ post[b].current # 0 => jobs[post[b].current].phase = "done"
                                         /\ jobs[post[b].current].account = b
               /\ post[b].pending # 0 => /\ jobs[post[b].pending].phase = "done"
                                         /\ jobs[post[b].pending].account = b
                                         /\ post[b].current # 0 /\ post[b].current # post[b].pending
    <3>1. CASE old.current = 0
      BY <1>5, <1>7, <2>2, <3>1
    <3>2. CASE old.current # 0
      <4>1. jobs[old.current].phase = "done" /\ jobs[old.current].account = a
        BY <1>3, <1>4, <2>1, <3>2
      <4> QED BY <1>5, <1>7, <2>1, <2>2, <3>2, <4>1
    <3> QED BY <3>1, <3>2
  <2>3. ASSUME NEW b \in Accounts, b # a
        PROVE  /\ post[b].current # 0 => jobs[post[b].current].phase = "done"
                                         /\ jobs[post[b].current].account = b
               /\ post[b].pending # 0 => /\ jobs[post[b].pending].phase = "done"
                                         /\ jobs[post[b].pending].account = b
                                         /\ post[b].current # 0 /\ post[b].current # post[b].pending
    <3>1. /\ post[b] = postRefresh[b]
          /\ post[b].current # 0 => post[b].current \in RefreshIds /\ post[b].current # r
                                    /\ refreshes[post[b].current].phase = "done"
                                    /\ refreshes[post[b].current].account = b
          /\ post[b].pending # 0 => post[b].pending \in RefreshIds /\ post[b].pending # r
                                    /\ refreshes[post[b].pending].phase = "done"
                                    /\ refreshes[post[b].pending].account = b
                                    /\ post[b].current # 0 /\ post[b].current # post[b].pending
      BY <1>7, <2>3, PostTypes DEF PostOK
    <3> QED BY <3>1
  <2> QED BY <2>2, <2>3 DEF PostOK
<1>9. NewestOK(jobs, post)
  <2> SUFFICES ASSUME NEW s \in RefreshIds, jobs[s].phase = "done"
               PROVE  \/ s \in {post[jobs[s].account].current, post[jobs[s].account].pending}
                      \/ \E q \in RefreshIds : /\ s < q
                                               /\ jobs[q].account = jobs[s].account
                                               /\ jobs[q].phase \in {"done", "processed"}
    BY DEF NewestOK
  <2>1. CASE s = r
    BY <1>5, <1>7, <2>1
  <2>2. CASE s # r /\ refreshes[s].account = a
    <3>1. s <= r /\ jobs[s] = refreshes[s] /\ s \in Nat /\ r \in Nat
      BY <1>1, <2>2, AccountRuntimeAssumption DEF RefreshIds
    <3>2. s < r
      BY <2>2, <3>1
    <3> QED BY <2>2, <3>1, <3>2
  <2>3. CASE s # r /\ refreshes[s].account # a
    <3>1. jobs[s] = refreshes[s] /\ refreshes[s].account \in Accounts
      BY <2>3 DEF JobsOK
    <3>2. post[jobs[s].account] = postRefresh[refreshes[s].account]
      BY <1>7, <2>3, <3>1
    <3>3. CASE s \in {postRefresh[refreshes[s].account].current,
                      postRefresh[refreshes[s].account].pending}
      BY <3>2, <3>3
    <3>4. CASE \E q \in RefreshIds : /\ s < q
                                     /\ refreshes[q].account = refreshes[s].account
                                     /\ refreshes[q].phase \in {"done", "processed"}
      BY <2>3, <3>1, <3>4
    <3> QED BY <3>1, <3>3, <3>4 DEF NewestOK
  <2> QED BY <2>1, <2>2, <2>3
<1> QED BY <1>7, <1>8, <1>9

\* What was processed makes place for what waits.
LEMMA PostDoneStep ==
    ASSUME IInv, NEW a \in Accounts, PostRefreshDone(a)
    PROVE  StepOK
<1> DEFINE c == postRefresh[a].current
           p == postRefresh[a].pending
           n == [refreshes[c] EXCEPT !.phase = "processed"]
           new == [current |-> p, pending |-> 0]
<1>1. /\ TypesOK /\ JobsOK(refreshes, refreshLocks, wanted)
      /\ PostOK(refreshes, postRefresh) /\ NewestOK(refreshes, postRefresh)
      /\ QueueOK(tasks, queued, wanted) /\ TasksOK(tasks)
      /\ connectedAccounts \subseteq wanted /\ heartbeat.rest \subseteq wanted
      /\ postRefresh \in [Accounts -> Post]
      /\ refreshes \in [RefreshIds -> RefreshRec]
  BY DEF IInv, TypesOK, JobsOK
<1>2. /\ c # 0 /\ postRefresh' = [postRefresh EXCEPT ![a] = new]
      /\ UNCHANGED <<accounts, connectedAccounts, refreshLocks, heartbeat, tasks, queued, wanted>>
  BY DEF PostRefreshDone, taskVars
<1>3. /\ c \in RefreshIds /\ refreshes[c].phase = "done" /\ refreshes[c].account = a
      /\ p # 0 => p \in RefreshIds /\ p # c /\ refreshes[p].phase = "done" /\ refreshes[p].account = a
      /\ postRefresh[a] \in Post
  BY <1>1, <1>2, PostTypes DEF PostOK
<1>4. refreshes' = [refreshes EXCEPT ![c] = n]
  BY <1>1, <1>3 DEF PostRefreshDone
<1>5. n.phase = "processed" /\ n.account = a
  BY <1>1, <1>3 DEF RefreshRec
<1>6. n \in RefreshRec
  BY <1>1, <1>3 DEF RefreshRec
<1>7. new \in Post /\ new.current = p /\ new.pending = 0
  BY <1>3, AccountRuntimeAssumption DEF Post
<1> HIDE DEF n, new
<1>8. /\ refreshes' \in [RefreshIds -> RefreshRec] /\ refreshes'[c] = n
      /\ \A q \in RefreshIds : q # c => refreshes'[q] = refreshes[q]
      /\ postRefresh' \in [Accounts -> Post] /\ postRefresh'[a] = new
      /\ \A b \in Accounts : b # a => postRefresh'[b] = postRefresh[b]
  BY <1>1, <1>2, <1>3, <1>4, <1>6, <1>7
<1> HIDE DEF c, p
<1>9. \A q \in RefreshIds : /\ refreshes'[q].account = refreshes[q].account
                            /\ refreshes'[q].phase = "unused" <=> refreshes[q].phase = "unused"
                            /\ refreshes'[q].phase \in Live <=> refreshes[q].phase \in Live
  BY <1>3, <1>5, <1>8 DEF Live
<1>10. JobsOK(refreshes', refreshLocks', wanted')
  <2>1. \A q, s \in RefreshIds : q < s /\ refreshes'[q].phase = "unused" => refreshes'[s].phase = "unused"
    BY <1>1, <1>9 DEF JobsOK
  <2>2. \A q \in RefreshIds : refreshes'[q].phase # "unused" => refreshes'[q].account \in Accounts
    BY <1>1, <1>9 DEF JobsOK
  <2>3. \A s \in RefreshIds : refreshes'[s].phase \in Live =>
           /\ refreshes'[s].account \in refreshLocks' /\ refreshes'[s].account \in wanted'
           /\ \A q \in RefreshIds : refreshes'[q].phase # "unused"
                                    /\ refreshes'[q].account = refreshes'[s].account => q <= s
    BY <1>1, <1>2, <1>9 DEF JobsOK
  <2> QED BY <1>8, <2>1, <2>2, <2>3 DEF JobsOK
<1>11. PostOK(refreshes', postRefresh')
  <2>1. ASSUME NEW b \in Accounts, b # a
        PROVE  /\ postRefresh'[b] = postRefresh[b]
               /\ postRefresh[b].current # 0 => refreshes'[postRefresh[b].current] = refreshes[postRefresh[b].current]
               /\ postRefresh[b].pending # 0 => refreshes'[postRefresh[b].pending] = refreshes[postRefresh[b].pending]
    <3>1. /\ postRefresh[b].current # 0 => postRefresh[b].current \in RefreshIds
                                           /\ refreshes[postRefresh[b].current].account = b
          /\ postRefresh[b].pending # 0 => postRefresh[b].pending \in RefreshIds
                                           /\ refreshes[postRefresh[b].pending].account = b
      BY <1>1, PostTypes DEF PostOK
    <3> QED BY <1>3, <1>8, <2>1, <3>1
  <2> SUFFICES ASSUME NEW b \in Accounts
               PROVE  /\ postRefresh'[b].current # 0 =>
                            refreshes'[postRefresh'[b].current].phase = "done"
                            /\ refreshes'[postRefresh'[b].current].account = b
                      /\ postRefresh'[b].pending # 0 =>
                            /\ refreshes'[postRefresh'[b].pending].phase = "done"
                            /\ refreshes'[postRefresh'[b].pending].account = b
                            /\ postRefresh'[b].current # 0
                            /\ postRefresh'[b].current # postRefresh'[b].pending
    BY DEF PostOK
  <2>2. CASE b = a
    BY <1>3, <1>7, <1>8, <2>2
  <2>3. CASE b # a
    <3>1. /\ postRefresh[b].current # 0 => refreshes[postRefresh[b].current].phase = "done"
                                  /\ refreshes[postRefresh[b].current].account = b
          /\ postRefresh[b].pending # 0 => /\ refreshes[postRefresh[b].pending].phase = "done"
                                  /\ refreshes[postRefresh[b].pending].account = b
                                  /\ postRefresh[b].current # 0
                                  /\ postRefresh[b].current # postRefresh[b].pending
      BY <1>1 DEF PostOK
    <3> QED BY <2>1, <2>3, <3>1
  <2> QED BY <2>2, <2>3
<1>12. NewestOK(refreshes', postRefresh')
  <2> SUFFICES ASSUME NEW s \in RefreshIds, refreshes'[s].phase = "done"
               PROVE  \/ s \in {postRefresh'[refreshes'[s].account].current,
                                postRefresh'[refreshes'[s].account].pending}
                      \/ \E q \in RefreshIds : /\ s < q
                                               /\ refreshes'[q].account = refreshes'[s].account
                                               /\ refreshes'[q].phase \in {"done", "processed"}
    BY DEF NewestOK
  <2>1. s # c /\ refreshes'[s] = refreshes[s] /\ refreshes[s].account \in Accounts
    BY <1>1, <1>5, <1>8 DEF JobsOK
  <2>2. CASE \E q \in RefreshIds : /\ s < q
                                   /\ refreshes[q].account = refreshes[s].account
                                   /\ refreshes[q].phase \in {"done", "processed"}
    <3>1. PICK q \in RefreshIds : /\ s < q
                                  /\ refreshes[q].account = refreshes[s].account
                                  /\ refreshes[q].phase \in {"done", "processed"}
      BY <2>2
    <3>2. refreshes'[q].account = refreshes'[s].account /\ refreshes'[q].phase \in {"done", "processed"}
      BY <1>5, <1>8, <1>9, <2>1, <3>1
    <3> QED BY <3>1, <3>2
  <2>3. CASE s \in {postRefresh[refreshes[s].account].current,
                    postRefresh[refreshes[s].account].pending}
    <3>1. CASE refreshes[s].account = a
      <4>1. s = p
        BY <2>1, <2>3, <3>1 DEF c, p
      <4> QED BY <1>7, <1>8, <2>1, <3>1, <4>1
    <3>2. CASE refreshes[s].account # a
      BY <1>8, <2>1, <2>3, <3>2
    <3> QED BY <3>1, <3>2
  <2> QED BY <1>1, <2>1, <2>2, <2>3 DEF NewestOK
<1>13. TypesOK'
  BY <1>1, <1>2, <1>8 DEF TypesOK
<1>14. IInv'
  BY <1>1, <1>2, <1>10, <1>11, <1>12, <1>13 DEF IInv
<1>15. TasksMove
  BY <1>2 DEF TasksMove, TaskMoves
<1> QED BY <1>14, <1>15 DEF StepOK

-----------------------------------------------------------------------------
(* The steps of the refreshes.                                               *)

LEMMA InitInv == Init => IInv
<1> SUFFICES ASSUME Init PROVE IInv
  OBVIOUS
<1>1. TypesOK
  BY AccountRuntimeAssumption DEF Init, TypesOK, NoTick, Post, Heartbeat
<1>2. QueueOK(tasks, queued, wanted)
  <2>1. queued \in Seq(TaskIds) /\ Len(queued) = 0
    BY DEF Init
  <2>2. \A t \in TaskIds : tasks[t].state = "new"
    BY DEF Init
  <2> QED BY <2>1, <2>2 DEF QueueOK
<1>3. TasksOK(tasks)
  BY DEF Init, TasksOK, Task
<1>4. JobsOK(refreshes, refreshLocks, wanted)
  BY DEF Init, JobsOK, RefreshRec, Live
<1>5. PostOK(refreshes, postRefresh) /\ NewestOK(refreshes, postRefresh)
  BY DEF Init, PostOK, NewestOK
<1>6. connectedAccounts \subseteq wanted /\ heartbeat.rest \subseteq wanted
  BY DEF Init, NoTick
<1> QED BY <1>1, <1>2, <1>3, <1>4, <1>5, <1>6 DEF IInv

LEMMA TickStep ==
    ASSUME IInv, Tick
    PROVE  StepOK
<1>1. /\ TypesOK /\ JobsOK(refreshes, refreshLocks, wanted)
      /\ PostOK(refreshes, postRefresh) /\ NewestOK(refreshes, postRefresh)
      /\ QueueOK(tasks, queued, wanted) /\ TasksOK(tasks)
      /\ connectedAccounts \subseteq wanted
      /\ connectedAccounts \in SUBSET Accounts /\ refreshLocks \in SUBSET Accounts
  BY DEF IInv, TypesOK
<1>2. UNCHANGED <<accounts, postRefresh, tasks, queued, wanted>>
  BY DEF Tick, taskVars
<1>3. HeartbeatGoes(connectedAccounts, connectedAccounts, refreshLocks, refreshes)
  BY DEF Tick, Targets
<1>4. /\ JobsOK(refreshes', refreshLocks', wanted) /\ refreshLocks' \subseteq Accounts
      /\ Later(refreshes, refreshes') /\ connectedAccounts' \subseteq connectedAccounts
      /\ heartbeat' \in Heartbeat /\ heartbeat'.rest \subseteq connectedAccounts
  BY <1>1, <1>3, HeartbeatKeeps
<1>5. PostOK(refreshes', postRefresh) /\ NewestOK(refreshes', postRefresh)
  <2>1. PICK later : later = refreshes'
    OBVIOUS
  <2>2. PostOK(later, postRefresh) /\ NewestOK(later, postRefresh)
    BY <1>1, <1>4, <2>1, PostKept, PostTypes DEF TypesOK
  <2> QED BY <2>1, <2>2
<1>6. TypesOK'
  BY <1>1, <1>2, <1>4 DEF TypesOK
<1>7. IInv'
  BY <1>1, <1>2, <1>4, <1>5, <1>6 DEF IInv
<1>8. TasksMove
  BY <1>2 DEF TasksMove, TaskMoves
<1> QED BY <1>7, <1>8 DEF StepOK

\* The user asks for the account: more is wanted than before.
LEMMA RequestStep ==
    ASSUME IInv, NEW a \in Accounts, RequestRefresh(a)
    PROVE  StepOK
<1>1. /\ TypesOK /\ JobsOK(refreshes, refreshLocks, wanted)
      /\ PostOK(refreshes, postRefresh) /\ NewestOK(refreshes, postRefresh)
      /\ QueueOK(tasks, queued, wanted) /\ TasksOK(tasks)
      /\ connectedAccounts \subseteq wanted /\ heartbeat.rest \subseteq wanted
      /\ refreshLocks \in SUBSET Accounts
  BY DEF IInv, TypesOK
<1>2. /\ UNCHANGED <<accounts, connectedAccounts, postRefresh, heartbeat, tasks, queued>>
      /\ wanted' = wanted \cup {a}
  BY DEF RequestRefresh, taskVars
<1>3. PICK r \in RefreshIds : Refresh(a, refreshLocks, refreshes, r)
  BY DEF RequestRefresh
<1>4. PICK wants : wants = wanted \cup {a}
  OBVIOUS
<1>5. JobsOK(refreshes, refreshLocks, wants)
  BY <1>1, <1>4 DEF JobsOK
<1>6. /\ JobsOK(refreshes', refreshLocks', wants) /\ refreshLocks' \subseteq Accounts
      /\ Later(refreshes, refreshes')
  BY <1>1, <1>3, <1>4, <1>5, RefreshKeeps
<1>7. PostOK(refreshes', postRefresh) /\ NewestOK(refreshes', postRefresh)
  <2>1. PICK later : later = refreshes'
    OBVIOUS
  <2>2. PostOK(later, postRefresh) /\ NewestOK(later, postRefresh)
    BY <1>1, <1>6, <2>1, PostKept, PostTypes DEF TypesOK
  <2> QED BY <2>1, <2>2
<1>8. QueueOK(tasks', queued', wanted') /\ TasksOK(tasks')
  BY <1>1, <1>2 DEF QueueOK
<1>9. TypesOK'
  BY <1>1, <1>2, <1>6 DEF TypesOK
<1>10. IInv'
  BY <1>1, <1>2, <1>4, <1>6, <1>7, <1>8, <1>9 DEF IInv
<1>11. TasksMove
  BY <1>2 DEF TasksMove, TaskMoves
<1> QED BY <1>10, <1>11 DEF StepOK

LEMMA RefusedStep ==
    ASSUME IInv, NEW a \in Accounts, RefreshRefused(a)
    PROVE  StepOK
<1>1. /\ UNCHANGED <<accounts, refreshLocks, refreshes, postRefresh, heartbeat, tasks, queued, wanted>>
      /\ connectedAccounts' = connectedAccounts \ {a}
  BY DEF RefreshRefused, refreshVars, taskVars
<1>2. IInv'
  BY <1>1 DEF IInv, TypesOK
<1>3. TasksMove
  BY <1>1 DEF TasksMove, TaskMoves
<1> QED BY <1>2, <1>3 DEF StepOK

LEMMA ConnectsStep ==
    ASSUME IInv, NEW r \in RefreshIds, RefreshConnects(r)
    PROVE  StepOK
<1>1. /\ TypesOK /\ JobsOK(refreshes, refreshLocks, wanted)
      /\ PostOK(refreshes, postRefresh) /\ NewestOK(refreshes, postRefresh)
      /\ QueueOK(tasks, queued, wanted) /\ TasksOK(tasks)
      /\ connectedAccounts \subseteq wanted /\ heartbeat.rest \subseteq wanted
  BY DEF IInv
<1>2. /\ UNCHANGED <<accounts, refreshLocks, postRefresh, heartbeat, tasks, queued, wanted>>
      /\ refreshes[r].phase \in Live
      /\ connectedAccounts' = connectedAccounts \cup {refreshes[r].account}
  BY DEF RefreshConnects, taskVars, Live
<1>3. PICK jobs : Moved(jobs, r, "building")
  BY DEF Moved
<1>4. refreshes' = jobs
  BY <1>3 DEF RefreshConnects, Moved
<1>5. /\ JobsOK(jobs, refreshLocks, wanted) /\ jobs[r].phase = "building"
      /\ \A q \in RefreshIds : q # r => jobs[q] = refreshes[q]
  <2>1. MovedOn(r, "building", refreshLocks, jobs)
    BY <1>1, <1>2, <1>3, PhaseKeeps
  <2> QED BY <2>1 DEF MovedOn
<1>6. Later(refreshes, jobs)
  BY <1>2, <1>5 DEF Later
<1>7. PostOK(jobs, postRefresh) /\ NewestOK(jobs, postRefresh)
  BY <1>1, <1>6, PostKept, PostTypes DEF TypesOK
<1>8. refreshes[r].account \in Accounts /\ refreshes[r].account \in wanted
  BY <1>1, <1>2 DEF JobsOK, Live
<1>9. TypesOK'
  BY <1>1, <1>2, <1>8 DEF TypesOK
<1>10. IInv'
  BY <1>1, <1>2, <1>4, <1>5, <1>7, <1>8, <1>9 DEF IInv
<1>11. TasksMove
  BY <1>2 DEF TasksMove, TaskMoves
<1> QED BY <1>10, <1>11 DEF StepOK

\* What holds after a refresh ended in this phase.
Ended(r, phase, connected, jobs) ==
    /\ JobsOK(refreshes', refreshLocks', wanted) /\ refreshLocks' \subseteq Accounts
    /\ Later(jobs, refreshes') /\ connectedAccounts' \subseteq connected
    /\ heartbeat' \in Heartbeat /\ heartbeat'.rest \subseteq heartbeat.rest
    /\ jobs[r].phase = phase /\ jobs[r].account = refreshes[r].account
    /\ \A q \in RefreshIds : q # r => jobs[q] = refreshes[q]

\* A refresh that ends frees its account; the heartbeat may begin the next one.
LEMMA EndsKeeps ==
    ASSUME IInv, NEW r \in RefreshIds, refreshes[r].phase \in Live,
           NEW phase \in {"done", "failed"}, NEW connected,
           NEW jobs, Moved(jobs, r, phase),
           RefreshEnds(r, phase, connected)
    PROVE  Ended(r, phase, connected, jobs)
<1>1. /\ JobsOK(refreshes, refreshLocks, wanted) /\ refreshLocks \in SUBSET Accounts
      /\ heartbeat \in Heartbeat /\ heartbeat.rest \subseteq wanted
      /\ heartbeat.rest \in SUBSET Accounts
  BY DEF IInv, TypesOK, Heartbeat
<1>2. PICK locks : locks = refreshLocks \ {refreshes[r].account}
  OBVIOUS
<1>3. /\ JobsOK(jobs, locks, wanted)
      /\ jobs[r].phase = phase /\ jobs[r].account = refreshes[r].account
      /\ \A q \in RefreshIds : q # r => jobs[q] = refreshes[q]
  <2>1. phase # "building" /\ phase \in {"building", "done", "failed"}
    OBVIOUS
  <2>2. MovedOn(r, phase, locks, jobs)
    BY <1>1, <1>2, <2>1, PhaseKeeps
  <2> QED BY <2>2 DEF MovedOn
<1>4. locks \in SUBSET Accounts
  BY <1>1, <1>2
<1>5. CASE AwaitedByTick(r, phase)
  <2>1. HeartbeatGoes(heartbeat.rest, connected, locks, jobs)
    BY <1>2, <1>5 DEF RefreshEnds, Moved
  <2> QED BY <1>1, <1>3, <1>4, <2>1, HeartbeatKeeps DEF Ended
<1>6. CASE ~AwaitedByTick(r, phase)
  <2>1. /\ connectedAccounts' = connected /\ refreshLocks' = locks /\ refreshes' = jobs
        /\ heartbeat' = heartbeat
    BY <1>2, <1>6 DEF RefreshEnds, Moved
  <2>2. Later(jobs, refreshes')
    BY <2>1 DEF Later
  <2> QED BY <1>1, <1>3, <1>4, <2>1, <2>2 DEF Ended
<1> QED BY <1>5, <1>6

LEMMA DoneStep ==
    ASSUME IInv, NEW r \in RefreshIds, RefreshDone(r)
    PROVE  StepOK
<1>1. /\ TypesOK /\ JobsOK(refreshes, refreshLocks, wanted)
      /\ PostOK(refreshes, postRefresh) /\ NewestOK(refreshes, postRefresh)
      /\ QueueOK(tasks, queued, wanted) /\ TasksOK(tasks)
      /\ connectedAccounts \subseteq wanted /\ heartbeat.rest \subseteq wanted
      /\ postRefresh \in [Accounts -> Post]
  BY DEF IInv, TypesOK
<1>2. /\ UNCHANGED <<accounts, tasks, queued, wanted>>
      /\ refreshes[r].phase = "building" /\ refreshes[r].phase \in Live
      /\ RefreshEnds(r, "done", connectedAccounts)
  BY DEF RefreshDone, taskVars, Live
<1>3. PICK jobs : Moved(jobs, r, "done")
  BY DEF Moved
<1>4. /\ JobsOK(refreshes', refreshLocks', wanted) /\ refreshLocks' \subseteq Accounts
      /\ Later(jobs, refreshes') /\ connectedAccounts' \subseteq connectedAccounts
      /\ heartbeat' \in Heartbeat /\ heartbeat'.rest \subseteq heartbeat.rest
      /\ jobs[r].phase = "done" /\ jobs[r].account = refreshes[r].account
      /\ \A q \in RefreshIds : q # r => jobs[q] = refreshes[q]
  <2>1. Ended(r, "done", connectedAccounts, jobs)
    BY <1>2, <1>3, EndsKeeps
  <2> QED BY <2>1 DEF Ended
<1>5. PICK post : post = [postRefresh EXCEPT ![refreshes[r].account] = Queued(@, r)]
  OBVIOUS
<1>6. postRefresh' = post
  BY <1>5 DEF RefreshDone
<1>7. post \in [Accounts -> Post] /\ PostOK(jobs, post) /\ NewestOK(jobs, post)
  BY <1>1, <1>2, <1>4, <1>5, PostDone
<1>8. \A a \in Accounts : /\ post[a].current # 0 => post[a].current \in RefreshIds
                          /\ post[a].pending # 0 => post[a].pending \in RefreshIds
  BY <1>7, AccountRuntimeAssumption DEF Post, RefreshIds
<1>9. PostOK(refreshes', postRefresh') /\ NewestOK(refreshes', postRefresh')
  <2>1. PICK later : later = refreshes'
    OBVIOUS
  <2>2. PostOK(later, post) /\ NewestOK(later, post)
    BY <1>4, <1>7, <1>8, <2>1, PostKept
  <2> QED BY <1>6, <2>1, <2>2
<1>10. TypesOK'
  BY <1>1, <1>2, <1>4, <1>6, <1>7 DEF TypesOK
<1>11. IInv'
  BY <1>1, <1>2, <1>4, <1>9, <1>10 DEF IInv
<1>12. TasksMove
  BY <1>2 DEF TasksMove, TaskMoves
<1> QED BY <1>11, <1>12 DEF StepOK

LEMMA FailsStep ==
    ASSUME IInv, NEW r \in RefreshIds, RefreshFails(r)
    PROVE  StepOK
<1>1. /\ TypesOK /\ PostOK(refreshes, postRefresh) /\ NewestOK(refreshes, postRefresh)
      /\ QueueOK(tasks, queued, wanted) /\ TasksOK(tasks)
      /\ connectedAccounts \subseteq wanted /\ heartbeat.rest \subseteq wanted
      /\ postRefresh \in [Accounts -> Post]
  BY DEF IInv, TypesOK
<1>2. /\ UNCHANGED <<accounts, postRefresh, tasks, queued, wanted>>
      /\ refreshes[r].phase \in Live
      /\ RefreshEnds(r, "failed", connectedAccounts \ {refreshes[r].account})
  BY DEF RefreshFails, taskVars
<1>3. PICK jobs : Moved(jobs, r, "failed")
  BY DEF Moved
<1>4. PICK connected : connected = connectedAccounts \ {refreshes[r].account}
  OBVIOUS
<1>5. /\ JobsOK(refreshes', refreshLocks', wanted) /\ refreshLocks' \subseteq Accounts
      /\ Later(jobs, refreshes') /\ connectedAccounts' \subseteq connected
      /\ heartbeat' \in Heartbeat /\ heartbeat'.rest \subseteq heartbeat.rest
      /\ jobs[r].phase = "failed" /\ \A q \in RefreshIds : q # r => jobs[q] = refreshes[q]
  <2>1. Ended(r, "failed", connected, jobs)
    BY <1>2, <1>3, <1>4, EndsKeeps
  <2> QED BY <2>1 DEF Ended
<1>6. Later(refreshes, jobs)
  BY <1>2, <1>5 DEF Later
<1>7. PostOK(jobs, postRefresh) /\ NewestOK(jobs, postRefresh)
  BY <1>1, <1>6, PostKept, PostTypes
<1>8. PostOK(refreshes', postRefresh) /\ NewestOK(refreshes', postRefresh)
  <2>1. PICK later : later = refreshes'
    OBVIOUS
  <2>2. PostOK(later, postRefresh) /\ NewestOK(later, postRefresh)
    BY <1>1, <1>5, <1>7, <2>1, PostKept, PostTypes
  <2> QED BY <2>1, <2>2
<1>9. connectedAccounts' \subseteq connectedAccounts
  BY <1>4, <1>5
<1>10. TypesOK'
  BY <1>1, <1>2, <1>5, <1>9 DEF TypesOK
<1>11. IInv'
  BY <1>1, <1>2, <1>5, <1>8, <1>9, <1>10 DEF IInv
<1>12. TasksMove
  BY <1>2 DEF TasksMove, TaskMoves
<1> QED BY <1>11, <1>12 DEF StepOK

-----------------------------------------------------------------------------
(* The steps of the tasks, and those that drop accounts.                     *)

\* Only the tasks and their queue have changed.
LEMMA OnlyTasks ==
    ASSUME IInv,
           UNCHANGED <<accounts, connectedAccounts, refreshVars, postRefresh, heartbeat, wanted>>,
           TasksOK(tasks'), QueueOK(tasks', queued', wanted), TasksMove
    PROVE  StepOK
<1>1. UNCHANGED <<accounts, connectedAccounts, refreshLocks, refreshes, postRefresh, heartbeat, wanted>>
  BY DEF refreshVars
<1>2. TypesOK'
  BY <1>1 DEF IInv, TypesOK
<1>3. QueueOK(tasks', queued', wanted')
  BY <1>1
<1>4. IInv'
  BY <1>1, <1>2, <1>3 DEF IInv
<1> QED BY <1>4 DEF StepOK

LEMMA EnqueueStep ==
    ASSUME IInv, NEW t \in TaskIds, NEW a \in Accounts, Enqueue(t, a)
    PROVE  StepOK
<1>1. /\ TasksOK(tasks) /\ QueueOK(tasks, queued, wanted) /\ connectedAccounts \subseteq wanted
      /\ a \in wanted /\ tasks[t].state = "new"
  BY DEF IInv, Enqueue
<1>2. UNCHANGED <<accounts, connectedAccounts, refreshVars, postRefresh, heartbeat, wanted>>
  BY DEF Enqueue
<1>3. PICK ts : AsQueued(ts, t, a)
  BY DEF AsQueued
<1>4. PICK q : q = Append(queued, t)
  OBVIOUS
<1>5. RunNext(ts, q)
  BY <1>3, <1>4 DEF Enqueue, AsQueued
<1>6. /\ TasksOK(ts) /\ QueueOK(ts, q, wanted)
      /\ ts[t].state = "queued" /\ ts[t].begun = tasks[t].begun
      /\ \A u \in TaskIds : u # t => ts[u] = tasks[u]
  BY <1>1, <1>3, <1>4, QueuedKeeps
<1>7. /\ TasksOK(tasks') /\ QueueOK(tasks', queued', wanted)
      /\ \A u \in TaskIds :
            \/ tasks'[u] = ts[u]
            \/ ts[u].state = "queued" /\ tasks'[u].state = "running"
               /\ tasks'[u].begun = ts[u].begun + 1
  BY <1>5, <1>6, RunNextKeeps
<1>8. TasksMove
  <2> SUFFICES ASSUME NEW u \in TaskIds PROVE TaskMoves(tasks[u], tasks'[u])
    BY DEF TasksMove
  <2>1. CASE u = t
    BY <1>1, <1>6, <1>7, <2>1 DEF TaskMoves
  <2>2. CASE u # t
    BY <1>6, <1>7, <2>2 DEF TaskMoves
  <2> QED BY <2>1, <2>2
<1> QED BY <1>2, <1>7, <1>8, OnlyTasks

LEMMA TaskEndsStep ==
    ASSUME IInv, NEW t \in TaskIds, TaskEnds(t)
    PROVE  StepOK
<1>1. TasksOK(tasks) /\ QueueOK(tasks, queued, wanted) /\ tasks[t].state = "running"
  BY DEF IInv, TaskEnds
<1>2. UNCHANGED <<accounts, connectedAccounts, refreshVars, postRefresh, heartbeat, wanted>>
  BY DEF TaskEnds
<1>3. PICK ts : AsSettled(ts, t)
  BY DEF AsSettled
<1>4. RunNext(ts, queued)
  BY <1>3 DEF TaskEnds, AsSettled
<1>5. /\ TasksOK(ts) /\ QueueOK(ts, queued, wanted)
      /\ ts[t].state = "settled" /\ ts[t].begun = tasks[t].begun
      /\ \A u \in TaskIds : u # t => ts[u] = tasks[u]
  BY <1>1, <1>3, SettledKeeps
<1>6. /\ TasksOK(tasks') /\ QueueOK(tasks', queued', wanted)
      /\ \A u \in TaskIds :
            \/ tasks'[u] = ts[u]
            \/ ts[u].state = "queued" /\ tasks'[u].state = "running"
               /\ tasks'[u].begun = ts[u].begun + 1
  BY <1>4, <1>5, RunNextKeeps
<1>7. TasksMove
  <2> SUFFICES ASSUME NEW u \in TaskIds PROVE TaskMoves(tasks[u], tasks'[u])
    BY DEF TasksMove
  <2>1. CASE u = t
    BY <1>1, <1>5, <1>6, <2>1 DEF TaskMoves
  <2>2. CASE u # t
    BY <1>5, <1>6, <2>2 DEF TaskMoves
  <2> QED BY <2>1, <2>2
<1> QED BY <1>2, <1>6, <1>7, OnlyTasks

LEMMA CancelStep ==
    ASSUME IInv, NEW t \in TaskIds, Cancel(t)
    PROVE  StepOK
<1> DEFINE n == [tasks[t] EXCEPT !.state = "cancelled"]
<1>1. /\ TasksOK(tasks) /\ QueueOK(tasks, queued, wanted) /\ tasks[t].state = "queued"
      /\ tasks \in [TaskIds -> Task] /\ tasks[t] \in Task
  BY DEF IInv, Cancel, Cancellable, TasksOK
<1>2. UNCHANGED <<accounts, connectedAccounts, refreshVars, postRefresh, heartbeat, wanted>>
  BY DEF Cancel
<1>3. n.state = "cancelled" /\ n.begun = tasks[t].begun
  BY <1>1 DEF Task
<1>4. n \in Task
  BY <1>1 DEF Task
<1>5. tasks' = [tasks EXCEPT ![t] = n]
  BY <1>1 DEF Cancel
<1> HIDE DEF n
<1>6. /\ tasks' \in [TaskIds -> Task] /\ tasks'[t] = n
      /\ \A u \in TaskIds : u # t => tasks'[u] = tasks[u]
  BY <1>1, <1>4, <1>5
<1>7. PICK gone : gone = {t}
  OBVIOUS
<1>8. /\ \A u \in TaskIds : u \in gone => tasks[u].state = "queued"
      /\ \A u \in TaskIds : IF u \in gone THEN /\ tasks'[u].state = "cancelled"
                                               /\ tasks'[u].begun = tasks[u].begun
                            ELSE tasks'[u] = tasks[u]
  BY <1>1, <1>3, <1>6, <1>7
<1>9. queued' = Without(queued, gone)
  BY <1>7 DEF Cancel
<1>10. TasksOK(tasks') /\ QueueOK(tasks', queued', wanted) /\ TasksMove
  BY <1>1, <1>6, <1>8, <1>9, CancelKeeps
<1> QED BY <1>2, <1>10, OnlyTasks

\* What goes on for a dropped account counts as wanted; its waiting tasks are cancelled.
LEMMA DropStep ==
    ASSUME IInv, NEW as \in SUBSET Accounts, Drop(as), accounts' \subseteq Accounts
    PROVE  StepOK
<1>1. /\ TypesOK /\ JobsOK(refreshes, refreshLocks, wanted)
      /\ PostOK(refreshes, postRefresh) /\ NewestOK(refreshes, postRefresh)
      /\ QueueOK(tasks, queued, wanted) /\ TasksOK(tasks)
      /\ connectedAccounts \subseteq wanted /\ heartbeat.rest \subseteq wanted
      /\ tasks \in [TaskIds -> Task]
  BY DEF IInv, TasksOK
<1>2. /\ UNCHANGED <<refreshLocks, refreshes, postRefresh, heartbeat>>
      /\ connectedAccounts' = connectedAccounts \ as
      /\ wanted' = (wanted \ as) \cup {a \in as : Overtaken(a)}
  BY DEF Drop, refreshVars
<1>3. PICK gone : gone = Cancelled(as)
  OBVIOUS
<1>4. PICK left : left = wanted'
  OBVIOUS
<1>5. \A t \in TaskIds : t \in gone <=> tasks[t].account \in as /\ tasks[t].state = "queued"
  BY <1>3 DEF Cancelled
<1>6. tasks' = [t \in TaskIds |-> IF t \in gone
                                  THEN [tasks[t] EXCEPT !.state = "cancelled"] ELSE tasks[t]]
  BY <1>3 DEF Drop, CancelByUsername
<1>7. ASSUME NEW t \in TaskIds
      PROVE  /\ tasks'[t] \in Task
             /\ IF t \in gone THEN tasks'[t].state = "cancelled" /\ tasks'[t].begun = tasks[t].begun
                ELSE tasks'[t] = tasks[t]
  <2> DEFINE n == [tasks[t] EXCEPT !.state = "cancelled"]
  <2>1. tasks[t] \in Task /\ tasks'[t] = IF t \in gone THEN n ELSE tasks[t]
    BY <1>1, <1>6
  <2>2. n.state = "cancelled" /\ n.begun = tasks[t].begun
    BY <2>1 DEF Task
  <2>3. n \in Task
    BY <2>1 DEF Task
  <2> HIDE DEF n
  <2> QED BY <2>1, <2>2, <2>3
<1>8. tasks' \in [TaskIds -> Task]
  <2>1. \E f : tasks' = [t \in TaskIds |-> f[t]]
    <3> DEFINE f == [t \in TaskIds |-> IF t \in gone
                                       THEN [tasks[t] EXCEPT !.state = "cancelled"] ELSE tasks[t]]
    <3>1. tasks' = f
      BY <1>6
    <3>2. f = [t \in TaskIds |-> f[t]]
      OBVIOUS
    <3> QED BY <3>1, <3>2
  <2> QED BY <1>7, <2>1
<1>9. \A t \in TaskIds : tasks[t].account \in wanted /\ t \notin gone /\ tasks[t].state = "queued"
                         => tasks[t].account \in left
  BY <1>2, <1>4, <1>5
<1>10. TasksOK(tasks') /\ QueueOK(tasks', queued', left) /\ TasksMove
  <2>1. queued' = Without(queued, gone)
    BY <1>3 DEF Drop, CancelByUsername
  <2>2. TasksOK(tasks) /\ QueueOK(tasks, queued, wanted)
    BY <1>1
  <2>3. /\ \A t \in TaskIds : t \in gone => tasks[t].state = "queued"
        /\ \A t \in TaskIds : IF t \in gone THEN /\ tasks'[t].state = "cancelled"
                                                 /\ tasks'[t].begun = tasks[t].begun
                              ELSE tasks'[t] = tasks[t]
    BY <1>5, <1>7
  <2> QED BY <1>8, <1>9, <2>1, <2>2, <2>3, CancelKeeps
<1>11. connectedAccounts' \subseteq wanted' /\ heartbeat'.rest \subseteq wanted'
  BY <1>1, <1>2 DEF Overtaken
<1>12. JobsOK(refreshes', refreshLocks', left)
  <2>1. ASSUME NEW r \in RefreshIds, refreshes[r].phase \in Live
        PROVE  refreshes[r].account \in left
    <3>1. refreshes[r].account \in wanted /\ LiveRefreshes(refreshes[r].account) # {}
      BY <1>1, <2>1 DEF JobsOK, LiveRefreshes
    <3>2. Overtaken(refreshes[r].account)
      BY <3>1 DEF Overtaken
    <3> QED BY <1>2, <1>4, <3>1, <3>2
  <2> QED BY <1>1, <1>2, <2>1 DEF JobsOK
<1>13. TypesOK'
  BY <1>1, <1>2 DEF TypesOK
<1>14. PostOK(refreshes', postRefresh') /\ NewestOK(refreshes', postRefresh')
  BY <1>1, <1>2
<1>15. IInv'
  BY <1>4, <1>10, <1>11, <1>12, <1>13, <1>14 DEF IInv
<1> QED BY <1>10, <1>15 DEF StepOK

\* Every step keeps the invariant and moves each task as the task service allows.
LEMMA NextStep ==
    ASSUME IInv, [Next]_vars
    PROVE  StepOK
<1>1. accounts \subseteq Accounts
  BY DEF IInv, TypesOK
<1>2. CASE UNCHANGED vars
  <2>1. UNCHANGED <<accounts, connectedAccounts, refreshLocks, refreshes, postRefresh, heartbeat,
                    tasks, queued, wanted>>
    BY <1>2 DEF vars, refreshVars, taskVars
  <2>2. IInv'
    BY <2>1 DEF IInv, TypesOK
  <2>3. TasksMove
    BY <2>1 DEF TasksMove, TaskMoves
  <2> QED BY <2>2, <2>3 DEF StepOK
<1>3. ASSUME NEW a \in Accounts, RequestRefresh(a) \/ RefreshRefused(a) \/ PostRefreshDone(a)
      PROVE  StepOK
  BY <1>3, RequestStep, RefusedStep, PostDoneStep
<1>4. ASSUME NEW a \in Accounts, Disconnect(a)
      PROVE  StepOK
  <2>1. Drop({a}) /\ accounts' = accounts /\ {a} \in SUBSET Accounts
    BY <1>4 DEF Disconnect
  <2> QED BY <1>1, <2>1, DropStep
<1>5. ASSUME NEW a \in Accounts, DisconnectOthers(a)
      PROVE  StepOK
  <2>1. PICK others : others = (accounts \cap connectedAccounts) \ {a}
    OBVIOUS
  <2>2. Drop(others) /\ accounts' = accounts /\ others \in SUBSET Accounts
    BY <1>1, <1>5, <2>1 DEF DisconnectOthers
  <2> QED BY <1>1, <2>2, DropStep
<1>6. ASSUME NEW a \in Accounts, DeleteAccount(a)
      PROVE  StepOK
  <2>1. Drop({a}) /\ accounts' = accounts \ {a} /\ {a} \in SUBSET Accounts
    BY <1>6 DEF DeleteAccount
  <2> QED BY <1>1, <2>1, DropStep
<1>7. ASSUME NEW r \in RefreshIds, RefreshConnects(r) \/ RefreshDone(r) \/ RefreshFails(r)
      PROVE  StepOK
  BY <1>7, ConnectsStep, DoneStep, FailsStep
<1>8. CASE Tick
  BY <1>8, TickStep
<1>9. ASSUME NEW t \in TaskIds, Cancel(t) \/ TaskEnds(t) \/ \E a \in Accounts : Enqueue(t, a)
      PROVE  StepOK
  BY <1>9, CancelStep, TaskEndsStep, EnqueueStep
<1> QED BY <1>2, <1>3, <1>4, <1>5, <1>6, <1>7, <1>8, <1>9 DEF Next

-----------------------------------------------------------------------------
(* Nothing waits for what has ended.                                         *)

\* Each lock belongs to a refresh that goes on.
Held(locks, jobs) ==
    \A a \in locks : \E r \in RefreshIds : jobs[r].account = a /\ jobs[r].phase \in Live

TickRuns ==
    heartbeat # NoTick =>
        heartbeat.refresh \in RefreshIds /\ refreshes[heartbeat.refresh].phase \in Live

QueueRuns == queued # <<>> => Running # {}

\* What a step keeps, apart from what IInv says of the results that wait.
Going == Held(refreshLocks, refreshes) /\ TickRuns /\ QueueRuns

\* A refresh that is joined or begun goes on, and ends no other.
LEMMA RefreshHolds ==
    ASSUME NEW jobs \in [RefreshIds -> RefreshRec], NEW locks, Held(locks, jobs),
           NEW a, NEW r \in RefreshIds, Refresh(a, locks, jobs, r)
    PROVE  /\ Held(refreshLocks', refreshes')
           /\ refreshes'[r].phase \in Live
           /\ \A q \in RefreshIds : jobs[q].phase \in Live => refreshes'[q].phase \in Live
<1>1. CASE Joinable(a, locks)
  <2>1. jobs[r].phase \in Live /\ refreshLocks' = locks /\ refreshes' = jobs
    BY <1>1 DEF Refresh
  <2> QED BY <2>1
<1>2. CASE ~Joinable(a, locks)
  <2>1. /\ jobs[r].phase = "unused"
        /\ refreshLocks' = locks \cup {a}
        /\ refreshes' = [jobs EXCEPT ![r] = [account |-> a, phase |-> "connecting"]]
    BY <1>2 DEF Refresh
  <2>2. /\ refreshes'[r].account = a /\ refreshes'[r].phase = "connecting"
        /\ \A q \in RefreshIds \ {r} : refreshes'[q] = jobs[q]
    BY <2>1
  <2>3. \A q \in RefreshIds : jobs[q].phase \in Live => q # r
    BY <2>1 DEF Live
  <2>4. Held(refreshLocks', refreshes')
    BY <2>1, <2>2, <2>3 DEF Held, Live
  <2> QED BY <2>2, <2>3, <2>4 DEF Live
<1> QED BY <1>1, <1>2

\* The tick waits for a refresh that goes on, or is over.
LEMMA HeartbeatHolds ==
    ASSUME NEW jobs \in [RefreshIds -> RefreshRec], NEW locks, Held(locks, jobs),
           NEW rest, NEW connected, HeartbeatGoes(rest, connected, locks, jobs)
    PROVE  Held(refreshLocks', refreshes') /\ TickRuns'
<1>1. CASE heartbeat' = NoTick /\ refreshLocks' = locks /\ refreshes' = jobs
  BY <1>1 DEF TickRuns, NoTick
<1>2. ASSUME NEW a, NEW r \in RefreshIds, NEW left, Refresh(a, locks, jobs, r),
             heartbeat' = [refresh |-> r, rest |-> left]
      PROVE  Held(refreshLocks', refreshes') /\ TickRuns'
  <2>1. Held(refreshLocks', refreshes') /\ refreshes'[r].phase \in Live
    BY <1>2, RefreshHolds
  <2>2. heartbeat'.refresh = r
    BY <1>2
  <2> QED BY <2>1, <2>2 DEF TickRuns
<1> QED BY <1>1, <1>2 DEF HeartbeatGoes

\* A job gets another phase, without its lock if it ends.
LEMMA MovedHolds ==
    ASSUME refreshes \in [RefreshIds -> RefreshRec], Held(refreshLocks, refreshes),
           NEW r \in RefreshIds, NEW phase, NEW jobs, Moved(jobs, r, phase), NEW locks,
           locks \subseteq refreshLocks,
           \/ phase \in Live
           \/ refreshes[r].account \notin locks
           \/ refreshes[r].phase \notin Live
    PROVE  /\ Held(locks, jobs)
           /\ \A q \in RefreshIds :
                 (q # r \/ phase \in Live) /\ refreshes[q].phase \in Live => jobs[q].phase \in Live
<1>1. /\ jobs[r].phase = phase /\ jobs[r].account = refreshes[r].account
      /\ \A q \in RefreshIds \ {r} : jobs[q] = refreshes[q]
  BY DEF Moved, RefreshRec
<1>2. ASSUME NEW a \in locks
      PROVE  \E q \in RefreshIds : jobs[q].account = a /\ jobs[q].phase \in Live
  <2>1. PICK q \in RefreshIds : refreshes[q].account = a /\ refreshes[q].phase \in Live
    BY DEF Held
  <2>2. jobs[q].account = a /\ jobs[q].phase \in Live
    BY <1>1, <2>1
  <2> QED BY <2>2
<1> QED BY <1>1, <1>2 DEF Held

LEMMA EndsHolds ==
    ASSUME IInv, Going, NEW r \in RefreshIds, NEW phase \in {"done", "failed"}, NEW connected,
           RefreshEnds(r, phase, connected), refreshes[r].phase \in Live,
           UNCHANGED taskVars
    PROVE  Going'
<1> DEFINE locks == refreshLocks \ {refreshes[r].account}
           jobs == [refreshes EXCEPT ![r].phase = phase]
<1>1. refreshes \in [RefreshIds -> RefreshRec] /\ refreshes[r] \in RefreshRec
  BY DEF IInv, JobsOK
<1>2. jobs \in [RefreshIds -> RefreshRec]
  <2> DEFINE v == [refreshes[r] EXCEPT !.phase = phase]
  <2>1. v \in RefreshRec
    BY <1>1 DEF RefreshRec
  <2>2. jobs = [refreshes EXCEPT ![r] = v]
    OBVIOUS
  <2> HIDE DEF v
  <2> QED BY <1>1, <2>1, <2>2
<1>3. Moved(jobs, r, phase)
  BY DEF Moved
<1>4. IF AwaitedByTick(r, phase) THEN HeartbeatGoes(heartbeat.rest, connected, locks, jobs)
      ELSE refreshLocks' = locks /\ refreshes' = jobs /\ UNCHANGED heartbeat
  BY DEF RefreshEnds
<1>5. locks \subseteq refreshLocks /\ refreshes[r].account \notin locks
  OBVIOUS
<1> HIDE DEF locks, jobs
<1>6. /\ Held(locks, jobs)
      /\ \A q \in RefreshIds :
            (q # r \/ phase \in Live) /\ refreshes[q].phase \in Live => jobs[q].phase \in Live
  BY <1>1, <1>3, <1>5, MovedHolds DEF Going
<1>7. Held(refreshLocks', refreshes') /\ TickRuns'
  <2>1. CASE AwaitedByTick(r, phase)
    BY <1>2, <1>4, <1>6, <2>1, HeartbeatHolds
  <2>2. CASE ~AwaitedByTick(r, phase)
    <3>1. heartbeat.refresh # r
      BY <2>2 DEF AwaitedByTick
    <3>2. refreshLocks' = locks /\ refreshes' = jobs /\ heartbeat' = heartbeat
      BY <1>4, <2>2
    <3>3. TickRuns'
      BY <1>6, <3>1, <3>2 DEF Going, TickRuns
    <3> QED BY <1>6, <3>2, <3>3
  <2> QED BY <2>1, <2>2
<1>8. QueueRuns'
  BY DEF Going, QueueRuns, Running, taskVars
<1> QED BY <1>7, <1>8 DEF Going

\* runNext leaves nothing waiting while no task runs.
LEMMA RunNextRuns ==
    ASSUME NEW ts \in [TaskIds -> Task], NEW q \in Seq(TaskIds), RunNext(ts, q)
    PROVE  QueueRuns'
<1>1. CASE q = <<>>
  BY <1>1 DEF RunNext, QueueRuns
<1>2. CASE q # <<>> /\ ~Idle(ts)
  <2>1. PICK t \in TaskIds : ts[t].state = "running"
    BY <1>2 DEF Idle
  <2>2. tasks' = ts
    BY <1>2 DEF RunNext
  <2> QED BY <2>1, <2>2 DEF QueueRuns, Running
<1>3. CASE q # <<>> /\ Idle(ts)
  <2> DEFINE h == Head(q)
  <2>1. h \in TaskIds /\ ts[h] \in Task
    BY <1>3
  <2>2. tasks' = [ts EXCEPT ![h].state = "running", ![h].begun = @ + 1]
    BY <1>3 DEF RunNext
  <2> HIDE DEF h
  <2>3. tasks'[h].state = "running"
    BY <2>1, <2>2 DEF Task
  <2> QED BY <2>1, <2>3 DEF QueueRuns, Running
<1> QED BY <1>1, <1>2, <1>3

\* Nothing but waiting tasks is cancelled.
LEMMA CancelRuns ==
    ASSUME IInv, QueueRuns, NEW gone, queued' = Without(queued, gone),
           \A t \in TaskIds : tasks[t].state = "running" => tasks'[t] = tasks[t]
    PROVE  QueueRuns'
<1>1. queued \in Seq(TaskIds)
  BY DEF IInv, QueueOK
<1>2. PICK w : w = Without(queued, gone)
  OBVIOUS
<1>3. w \in Seq(TaskIds) /\ \A n \in 1 .. Len(w) : \E k \in 1 .. Len(queued) : w[n] = queued[k]
  <2>1. Keeps(w, queued, gone)
    BY <1>1, <1>2, WithoutKeeps
  <2> QED BY <2>1 DEF Keeps
<1>4. w # <<>> => queued # <<>>
  <2> SUFFICES ASSUME w # <<>> PROVE queued # <<>>
    OBVIOUS
  <2>1. 1 \in 1 .. Len(w)
    BY <1>3
  <2>2. PICK k \in 1 .. Len(queued) : TRUE
    BY <1>3, <2>1
  <2> QED BY <1>1, <2>2
<1> QED BY <1>2, <1>4 DEF QueueRuns, Running

LEMMA GoingTasks ==
    ASSUME IInv, Going, UNCHANGED <<refreshVars, heartbeat>>, QueueRuns'
    PROVE  Going'
BY DEF Going, TickRuns, refreshVars

LEMMA GoingRefreshes ==
    ASSUME IInv, Going, Held(refreshLocks', refreshes'), TickRuns', UNCHANGED taskVars
    PROVE  Going'
BY DEF Going, QueueRuns, Running, taskVars

LEMMA GoingDrop ==
    ASSUME IInv, Going, NEW as, Drop(as)
    PROVE  Going'
<1>1. /\ queued' = Without(queued, Cancelled(as))
      /\ tasks' = [t \in TaskIds |-> IF t \in Cancelled(as)
                                     THEN [tasks[t] EXCEPT !.state = "cancelled"] ELSE tasks[t]]
      /\ UNCHANGED <<refreshVars, heartbeat>>
  BY DEF Drop, CancelByUsername
<1>2. \A t \in TaskIds : tasks[t].state = "running" => tasks'[t] = tasks[t]
  BY <1>1 DEF Cancelled
<1>3. QueueRuns'
  BY <1>1, <1>2, CancelRuns DEF Going
<1> QED BY <1>1, <1>3, GoingTasks

LEMMA GoingTask ==
    ASSUME IInv, Going, NEW t \in TaskIds,
           Cancel(t) \/ TaskEnds(t) \/ \E a \in Accounts : Enqueue(t, a)
    PROVE  Going'
<1>1. tasks \in [TaskIds -> Task] /\ tasks[t] \in Task /\ queued \in Seq(TaskIds)
  BY DEF IInv, QueueOK, TasksOK
<1>2. CASE Cancel(t)
  <2>1. /\ tasks' = [tasks EXCEPT ![t].state = "cancelled"] /\ queued' = Without(queued, {t})
        /\ tasks[t].state = "queued" /\ UNCHANGED <<refreshVars, heartbeat>>
    BY <1>2 DEF Cancel, Cancellable
  <2>2. \A u \in TaskIds : tasks[u].state = "running" => tasks'[u] = tasks[u]
    BY <1>1, <2>1
  <2> QED BY <2>1, <2>2, CancelRuns, GoingTasks DEF Going
<1>3. CASE TaskEnds(t)
  <2> DEFINE v == [tasks[t] EXCEPT !.state = "settled"]
             ts == [tasks EXCEPT ![t].state = "settled"]
  <2>1. v \in Task /\ ts = [tasks EXCEPT ![t] = v]
    BY <1>1 DEF Task
  <2>2. RunNext(ts, queued) /\ UNCHANGED <<refreshVars, heartbeat>>
    BY <1>3 DEF TaskEnds
  <2> HIDE DEF v
  <2>3. ts \in [TaskIds -> Task]
    BY <1>1, <2>1
  <2> HIDE DEF ts
  <2> QED BY <1>1, <2>2, <2>3, RunNextRuns, GoingTasks
<1>4. ASSUME NEW a \in Accounts, Enqueue(t, a) PROVE Going'
  <2> DEFINE v == [tasks[t] EXCEPT !.account = a, !.state = "queued"]
             ts == [tasks EXCEPT ![t].account = a, ![t].state = "queued"]
             q == Append(queued, t)
  <2>1. v \in Task
    BY <1>1 DEF Task
  <2>2. ts = [tasks EXCEPT ![t] = v]
    BY <1>1
  <2>3. RunNext(ts, q) /\ UNCHANGED <<refreshVars, heartbeat>>
    BY <1>4 DEF Enqueue
  <2>4. q \in Seq(TaskIds)
    BY <1>1
  <2> HIDE DEF v
  <2>5. ts \in [TaskIds -> Task]
    BY <1>1, <2>1, <2>2
  <2> HIDE DEF ts, q
  <2> QED BY <2>3, <2>4, <2>5, RunNextRuns, GoingTasks
<1> QED BY <1>2, <1>3, <1>4

LEMMA GoingRefresh ==
    ASSUME IInv, Going, NEW r \in RefreshIds,
           RefreshConnects(r) \/ RefreshDone(r) \/ RefreshFails(r)
    PROVE  Going'
<1>1. refreshes \in [RefreshIds -> RefreshRec]
  BY DEF IInv, JobsOK
<1>2. CASE RefreshConnects(r)
  <2>1. /\ Moved(refreshes', r, "building") /\ UNCHANGED <<refreshLocks, heartbeat, taskVars>>
    BY <1>2 DEF RefreshConnects, Moved
  <2>2. PICK jobs : jobs = refreshes'
    OBVIOUS
  <2>3. Moved(jobs, r, "building") /\ "building" \in Live
    BY <2>1, <2>2 DEF Moved, Live
  <2>4. /\ Held(refreshLocks, jobs)
        /\ \A q \in RefreshIds : refreshes[q].phase \in Live => jobs[q].phase \in Live
    BY <1>1, <2>3, MovedHolds DEF Going
  <2>5. Held(refreshLocks', refreshes') /\ TickRuns'
    BY <2>1, <2>2, <2>4 DEF Going, TickRuns
  <2> QED BY <2>1, <2>5, GoingRefreshes
<1>3. CASE RefreshDone(r)
  <2>1. RefreshEnds(r, "done", connectedAccounts) /\ refreshes[r].phase \in Live /\ UNCHANGED taskVars
    BY <1>3 DEF RefreshDone, Live
  <2> QED BY <2>1, EndsHolds
<1>4. CASE RefreshFails(r)
  <2>1. /\ RefreshEnds(r, "failed", connectedAccounts \ {refreshes[r].account})
        /\ refreshes[r].phase \in Live /\ UNCHANGED taskVars
    BY <1>4 DEF RefreshFails
  <2> QED BY <2>1, EndsHolds
<1> QED BY <1>2, <1>3, <1>4

LEMMA GoingAccount ==
    ASSUME IInv, Going, NEW a \in Accounts,
           RequestRefresh(a) \/ RefreshRefused(a) \/ PostRefreshDone(a)
    PROVE  Going'
<1>1. refreshes \in [RefreshIds -> RefreshRec]
  BY DEF IInv, JobsOK
<1>2. CASE RequestRefresh(a)
  <2>1. PICK r \in RefreshIds : Refresh(a, refreshLocks, refreshes, r)
    BY <1>2 DEF RequestRefresh
  <2>2. UNCHANGED <<heartbeat, taskVars>>
    BY <1>2 DEF RequestRefresh
  <2>3. /\ Held(refreshLocks', refreshes')
        /\ \A q \in RefreshIds : refreshes[q].phase \in Live => refreshes'[q].phase \in Live
    BY <1>1, <2>1, RefreshHolds DEF Going
  <2>4. TickRuns'
    BY <2>2, <2>3 DEF Going, TickRuns
  <2> QED BY <2>2, <2>3, <2>4, GoingRefreshes
<1>3. CASE RefreshRefused(a)
  BY <1>3 DEF RefreshRefused, Going, TickRuns, QueueRuns, Running, refreshVars, taskVars
<1>4. CASE PostRefreshDone(a)
  <2> DEFINE r == postRefresh[a].current
  <2>1. r \in RefreshIds /\ refreshes[r].phase = "done"
    <3>1. r \in 0 .. MaxRefreshes /\ r # 0
      BY <1>4 DEF PostRefreshDone, IInv, TypesOK, Post
    <3>2. refreshes[r].phase = "done"
      BY <3>1 DEF IInv, PostOK
    <3> QED BY <3>1, <3>2, AccountRuntimeAssumption DEF RefreshIds
  <2>2. UNCHANGED <<refreshLocks, heartbeat, taskVars>>
    BY <1>4 DEF PostRefreshDone
  <2>3. PICK jobs : jobs = refreshes'
    OBVIOUS
  <2>4. Moved(jobs, r, "processed")
    BY <1>4, <2>3 DEF PostRefreshDone, Moved
  <2>5. refreshes[r].phase \notin Live
    BY <2>1 DEF Live
  <2> HIDE DEF r
  <2>6. /\ Held(refreshLocks, jobs)
        /\ \A q \in RefreshIds :
              q # r /\ refreshes[q].phase \in Live => jobs[q].phase \in Live
    BY <1>1, <2>1, <2>4, <2>5, MovedHolds DEF Going
  <2>7. Held(refreshLocks', refreshes') /\ TickRuns'
    BY <2>2, <2>3, <2>5, <2>6 DEF Going, TickRuns
  <2> QED BY <2>2, <2>7, GoingRefreshes
<1> QED BY <1>2, <1>3, <1>4

LEMMA GoingNext ==
    ASSUME IInv, Going, [Next]_vars
    PROVE  Going'
<1>1. CASE UNCHANGED vars
  BY <1>1 DEF vars, Going, TickRuns, QueueRuns, Running, refreshVars, taskVars
<1>2. CASE Tick
  <2>1. refreshes \in [RefreshIds -> RefreshRec]
    BY DEF IInv, JobsOK
  <2>2. /\ HeartbeatGoes(Targets, connectedAccounts, refreshLocks, refreshes)
        /\ UNCHANGED taskVars
    BY <1>2 DEF Tick
  <2> QED BY <2>1, <2>2, HeartbeatHolds, GoingRefreshes DEF Going
<1>3. ASSUME NEW a \in Accounts, Disconnect(a) \/ DisconnectOthers(a) \/ DeleteAccount(a)
      PROVE  Going'
  BY <1>3, GoingDrop DEF Disconnect, DisconnectOthers, DeleteAccount
<1> QED BY <1>1, <1>2, <1>3, GoingAccount, GoingRefresh, GoingTask DEF Next

-----------------------------------------------------------------------------
(* The theorems.                                                             *)

\* The invariant holds in every state.
THEOREM Inductive == Spec => []IInv
<1>1. IInv /\ [Next]_vars => IInv'
  BY NextStep DEF StepOK
<1> QED BY InitInv, <1>1, PTL DEF Spec

\* The queue's list and the states of its tasks agree, and each task is listed once.
LEMMA ListedOnce ==
    ASSUME IInv
    PROVE  /\ Listed = {t \in TaskIds : tasks[t].state = "queued"}
           /\ queued \in Seq(TaskIds) /\ Len(queued) = Cardinality(Listed)
<1>1. /\ queued \in Seq(TaskIds)
      /\ \A j, k \in 1 .. Len(queued) : queued[j] = queued[k] => j = k
      /\ \A t \in TaskIds : tasks[t].state = "queued" <=> \E k \in 1 .. Len(queued) : queued[k] = t
  BY DEF IInv, QueueOK
<1>2. /\ Len(queued) \in Nat /\ DOMAIN queued = 1 .. Len(queued)
      /\ \A k \in 1 .. Len(queued) : queued[k] \in TaskIds
  BY <1>1
<1>3. \A t : t \in Listed <=> \E k \in 1 .. Len(queued) : queued[k] = t
  BY <1>2 DEF Listed
<1>4. Listed = {t \in TaskIds : tasks[t].state = "queued"}
  <2>1. \A t : t \in Listed <=> t \in TaskIds /\ tasks[t].state = "queued"
    BY <1>1, <1>2, <1>3
  <2> QED BY <2>1
<1>5. Len(queued) = Cardinality(Listed)
  <2> DEFINE f == [k \in 1 .. Len(queued) |-> queued[k]]
             l == Len(queued)
  <2>1. f \in [1 .. l -> Listed] /\ \A k \in 1 .. l : f[k] = queued[k]
    BY <1>3
  <2> HIDE DEF f
  <2>2. f \in Surjection(1 .. l, Listed)
    <3>1. \A t \in Listed : \E k \in 1 .. l : f[k] = t
      BY <1>3, <2>1
    <3> QED BY <2>1, <3>1 DEF Surjection
  <2>3. f \in Injection(1 .. l, Listed)
    <3>1. \A j, k \in 1 .. l : f[j] = f[k] => j = k
      BY <1>1, <2>1
    <3> QED BY <2>1, <3>1 DEF Injection, IsInjective
  <2>4. IsFiniteSet(1 .. l) /\ Cardinality(1 .. l) = l
    BY <1>2, Finite
  <2>5. IsFiniteSet(Listed)
    BY <1>4, Finite, FS_Subset
  <2>6. Cardinality(Listed) = Cardinality(1 .. l)
    BY <2>2, <2>3, <2>4, FS_Surjection
  <2> QED BY <2>4, <2>6
<1> QED BY <1>1, <1>4, <1>5

\* Types hold; in particular the queue lists the waiting tasks, each once, whatever is
\* cancelled, dropped or begun in between.
THEOREM TypeCorrect == Spec => []TypeOK
<1>1. ASSUME IInv PROVE TypeOK
  <2>1. /\ accounts \subseteq Accounts /\ connectedAccounts \subseteq Accounts
        /\ refreshLocks \subseteq Accounts /\ wanted \subseteq Accounts
        /\ postRefresh \in [Accounts -> Post] /\ heartbeat \in Heartbeat
        /\ refreshes \in [RefreshIds -> RefreshRec] /\ tasks \in [TaskIds -> Task]
    BY <1>1 DEF IInv, TypesOK, JobsOK, TasksOK
  <2>2. /\ Listed = {t \in TaskIds : tasks[t].state = "queued"}
        /\ queued \in Seq(TaskIds) /\ Len(queued) = Cardinality(Listed)
    BY <1>1, ListedOnce
  <2> QED BY <2>1, <2>2 DEF TypeOK, Post, Heartbeat, RefreshRec, Task
<1> QED BY <1>1, Inductive, PTL

\* No account is connected, and no task waits for one, that the user dropped and did
\* not ask for again, unless a refresh or a tick was already under way for it then.
THEOREM NothingAgainstTheUser == Spec => []NothingUnwanted
<1>1. ASSUME IInv PROVE NothingUnwanted
  <2>1. connectedAccounts \subseteq wanted
    BY <1>1 DEF IInv
  <2>2. ASSUME NEW k \in DOMAIN queued
        PROVE  tasks[queued[k]].account \in wanted
    <3>1. queued \in Seq(TaskIds)
      BY <1>1 DEF IInv, QueueOK
    <3>2. queued[k] \in TaskIds /\ k \in 1 .. Len(queued)
      BY <2>2, <3>1
    <3> QED BY <1>1, <3>2 DEF IInv, QueueOK
  <2> QED BY <2>1, <2>2 DEF NothingUnwanted
<1> QED BY <1>1, Inductive, PTL

\* What a tick, the callers of a refresh, a result or a task waits for goes on: it has
\* not ended without telling them.
THEOREM WaitsHaveAnEnd == Spec => []NothingStalls
<1>1. ASSUME Init PROVE Going
  BY <1>1 DEF Init, Going, Held, TickRuns, QueueRuns
<1>2. IInv /\ Going /\ [Next]_vars => Going'
  BY GoingNext
<1>3. ASSUME IInv, Going PROVE NothingStalls
  <2>1. \A a \in refreshLocks : LiveRefreshes(a) # {}
    BY <1>3 DEF Going, Held, LiveRefreshes
  <2>2. \A a \in Accounts : postRefresh[a].pending # 0 => postRefresh[a].current # 0
    BY <1>3 DEF IInv, PostOK
  <2> QED BY <1>3, <2>1, <2>2 DEF Going, TickRuns, QueueRuns, NothingStalls
<1> QED BY <1>1, <1>2, <1>3, Inductive, PTL DEF Spec

\* A refresh that got done is processed, waits for that, or was overtaken by a newer
\* refresh of its account: the newest is never passed over.
THEOREM NewestIsProcessed == Spec => []NewestProcessed
<1>1. ASSUME IInv PROVE NewestProcessed
  <2> SUFFICES ASSUME NEW r \in RefreshIds, refreshes[r].phase = "done"
               PROVE  \/ r \in {postRefresh[refreshes[r].account].current,
                                postRefresh[refreshes[r].account].pending}
                      \/ \E q \in r + 1 .. MaxRefreshes :
                            /\ refreshes[q].account = refreshes[r].account
                            /\ refreshes[q].phase \in {"done", "processed"}
    BY DEF NewestProcessed
  <2>1. CASE r \in {postRefresh[refreshes[r].account].current,
                    postRefresh[refreshes[r].account].pending}
    BY <2>1
  <2>2. CASE \E q \in RefreshIds : /\ r < q
                                   /\ refreshes[q].account = refreshes[r].account
                                   /\ refreshes[q].phase \in {"done", "processed"}
    <3>1. PICK q \in RefreshIds : /\ r < q
                                  /\ refreshes[q].account = refreshes[r].account
                                  /\ refreshes[q].phase \in {"done", "processed"}
      BY <2>2
    <3>2. q \in r + 1 .. MaxRefreshes
      BY <3>1, AccountRuntimeAssumption DEF RefreshIds
    <3> QED BY <3>1, <3>2
  <2>3. NewestOK(refreshes, postRefresh)
    BY <1>1 DEF IInv
  <2> QED BY <2>1, <2>2, <2>3 DEF NewestOK
<1> QED BY <1>1, Inductive, PTL

LEMMA AtMostOne ==
    ASSUME NEW S, \A t, u \in S : t = u
    PROVE  Cardinality(S) <= 1
<1>1. CASE S = {}
  <2>1. Cardinality(S) = 0
    BY <1>1, FS_EmptySet
  <2> QED BY <2>1
<1>2. CASE S # {}
  <2>1. PICK t \in S : S = {t}
    BY <1>2
  <2>2. Cardinality(S) = 1
    BY <2>1, FS_Singleton
  <2> QED BY <2>2
<1> QED BY <1>1, <1>2

\* The component task queue is a task service that executes one task at a time and
\* each task at most once.
THEOREM QueueImplementsService == Spec => ImplementsService
<1>1. Init => QueueService!ServiceInit
  BY DEF Init, QueueService!ServiceInit, TaskPhase
<1>2. IInv /\ [Next]_vars => [QueueService!ServiceNext]_(QueueService!serviceVars)
  <2> SUFFICES ASSUME IInv, [Next]_vars PROVE QueueService!ServiceNext
    OBVIOUS
  <2>1. IInv' /\ \A t \in TaskIds : TaskMoves(tasks[t], tasks'[t])
    BY NextStep DEF StepOK, TasksMove
  <2> DEFINE begun == [t \in TaskIds |-> tasks[t].begun]
  <2>2. /\ tasks \in [TaskIds -> Task] /\ tasks' \in [TaskIds -> Task]
        /\ \A t \in TaskIds : tasks'[t].begun <= 1
        /\ \A t, u \in TaskIds : tasks'[t].state = "running" /\ tasks'[u].state = "running" => t = u
    BY <2>1 DEF IInv, TasksOK
  <2>3. TaskPhase' \in [TaskIds -> {"new", "waiting", "executing", "answered"}]
    BY DEF TaskPhase
  <2>4. begun' \in [TaskIds -> 0 .. 1]
    <3>1. \A t \in TaskIds : tasks'[t].begun \in 0 .. 1
      <4>1. \A t \in TaskIds : tasks'[t].begun \in Nat
        BY <2>2 DEF Task
      <4> QED BY <2>2, <4>1
    <3> QED BY <3>1
  <2>5. Cardinality({t \in TaskIds : TaskPhase'[t] = "executing"}) <= 1
    <3>1. \A t \in TaskIds : TaskPhase'[t] = "executing" => tasks'[t].state = "running"
      BY DEF TaskPhase
    <3>2. PICK S : S = {t \in TaskIds : TaskPhase'[t] = "executing"}
      OBVIOUS
    <3>3. \A t, u \in S : t = u
      BY <2>2, <3>1, <3>2
    <3>4. Cardinality(S) <= 1
      BY <3>3, AtMostOne
    <3> QED BY <3>2, <3>4
  <2>6. ASSUME NEW t \in TaskIds
        PROVE  QueueService!Moves(t)
    <3>1. /\ TaskPhase[t] = IF tasks[t].state = "queued" THEN "waiting"
                ELSE IF tasks[t].state = "running" THEN "executing"
                ELSE IF tasks[t].state = "new" THEN "new" ELSE "answered"
          /\ TaskPhase'[t] = IF tasks'[t].state = "queued" THEN "waiting"
                ELSE IF tasks'[t].state = "running" THEN "executing"
                ELSE IF tasks'[t].state = "new" THEN "new" ELSE "answered"
          /\ begun[t] = tasks[t].begun /\ begun'[t] = tasks'[t].begun
      BY DEF TaskPhase
    <3>2. /\ tasks[t].state \in {"new", "queued", "running", "settled", "cancelled"}
          /\ TaskMoves(tasks[t], tasks'[t])
      BY <2>1, <2>2 DEF Task
    <3> QED BY <3>1, <3>2 DEF QueueService!Moves, TaskMoves
  <2>7. Cardinality(QueueService!Executing(TaskPhase')) <= 1
    BY <2>5 DEF QueueService!Executing
  <2>8. \A S : QueueService!Cardinality(S) = Cardinality(S)
    BY DEF QueueService!Cardinality, Cardinality
  <2> QED BY <2>3, <2>4, <2>6, <2>7, <2>8 DEF QueueService!ServiceNext
<1> QED BY <1>1, <1>2, Inductive, PTL DEF Spec, ImplementsService, QueueService!Service

-----------------------------------------------------------------------------
(* The sessions of an account: SessionPool.                                  *)

Flight == [phase : Phases, token : 0 .. MaxTokens, recover : BOOLEAN, retried : BOOLEAN]

Caller == [phase : {"idle", "waiting", "holding", "failed"}, flight : 0 .. MaxFlights]

Entry == [kind : {"none", "connecting", "ready"}, flight : 0 .. MaxFlights]

\* An entry names a flight that was started.
EntryFlight == entry.kind # "none" => entry.flight \in FlightIds

\* An account with a maFile is refreshed with recovery: none of its flights clears
\* the stored token without a look at it.
FlightRecovers(f) == flights[f].phase # "unused" => flights[f].recover \/ ~guarded

RefreshUnguarded == \A f \in FlightIds : FlightRecovers(f)

\* The inductive invariant.
PoolInv ==
    /\ PoolTypeOK
    /\ EntryFlight
    /\ EntryLive
    /\ LoginSingleFlight
    /\ RefreshUnguarded

\* What OnlyRejectedTokenRemoved says of a step.
RemovesOwn ==
    \A f \in FlightIds :
        /\ guarded
        /\ flights[f].phase = "connecting" /\ flights'[f].phase # "connecting"
        /\ stored # 0 /\ stored' = 0
        => stored = flights[f].token

-----------------------------------------------------------------------------
(* The sessions: what a step keeps.                                          *)

\* Callers that are told something are still callers.
LEMMA TellType ==
    ASSUME PoolTypeOK, NEW fs, NEW p \in {"holding", "failed"}
    PROVE  Tell(fs, p) \in [Callers -> Caller]
<1>1. ASSUME NEW c \in Callers PROVE [callers[c] EXCEPT !.phase = p] \in Caller
  BY DEF PoolTypeOK, Caller
<1>2. \A c \in Callers : callers[c] \in Caller
  BY DEF PoolTypeOK, Caller
<1> QED BY <1>1, <1>2 DEF Tell

\* Dropping the entry logs its session off, if it has one, and touches no other flight.
LEMMA DisconnectedFlights ==
    ASSUME PoolTypeOK, NEW fl \in [FlightIds -> Flight], entry.kind = "ready" => entry.flight \in FlightIds
    PROVE  /\ Disconnected(fl) \in [FlightIds -> Flight]
           /\ \A g \in FlightIds :
                /\ Disconnected(fl)[g].recover = fl[g].recover
                /\ Disconnected(fl)[g] = fl[g] \/ Disconnected(fl)[g].phase = "leaving"
                /\ Disconnected(fl)[g] # fl[g] => entry.kind = "ready" /\ g = entry.flight
<1>1. CASE entry.kind = "ready"
  <2> DEFINE e == entry.flight
  <2>1. e \in FlightIds
    BY <1>1
  <2>2. [fl[e] EXCEPT !.phase = "leaving"] \in Flight
    BY <2>1 DEF Flight, Phases
  <2>3. /\ [fl[e] EXCEPT !.phase = "leaving"].phase = "leaving"
        /\ [fl[e] EXCEPT !.phase = "leaving"].recover = fl[e].recover
    BY <2>1 DEF Flight
  <2>4. Disconnected(fl) = [fl EXCEPT ![e] = [fl[e] EXCEPT !.phase = "leaving"]]
    BY <1>1 DEF Disconnected
  <2> QED BY <1>1, <2>1, <2>2, <2>3, <2>4
<1>2. CASE entry.kind # "ready"
  BY <1>2 DEF Disconnected
<1> QED BY <1>1, <1>2

\* The entry is empty and no flight is recovering that was not, no login starts: the
\* rest of the invariant follows from the flights' types.
LEMMA Dropped ==
    ASSUME PoolInv, UNCHANGED guarded, entry' = NoEntry,
           flights' \in [FlightIds -> Flight], callers' \in [Callers -> Caller],
           stored' \in 0 .. MaxTokens, issued' \in 1 .. MaxTokens, deleted' \in BOOLEAN,
           logins' \in {0, 1},
           \A g \in FlightIds : flights'[g].phase = "recovering" => logins' = 1,
           RefreshUnguarded'
    PROVE  PoolInv'
<1>1. PoolTypeOK'
  BY SessionPoolAssumption DEF PoolInv, PoolTypeOK, NoEntry, Entry, Flight, Caller
<1>2. EntryFlight' /\ EntryLive'
  BY DEF EntryFlight, EntryLive, NoEntry
<1>3. LoginSingleFlight'
  BY DEF LoginSingleFlight
<1> QED BY <1>1, <1>2, <1>3 DEF PoolInv

\* One flight changes and the entry is dropped, with the flight's session if it is
\* another one: what Fail, Recover, OnSteamGone and Forget do to the flights.
LEMMA FlightDrops ==
    ASSUME PoolInv, NEW f \in FlightIds, NEW p \in Phases \ {"unused", "connecting"},
           flights[f].phase # "unused",
           flights' = Disconnected([flights EXCEPT ![f].phase = p]), UNCHANGED guarded
    PROVE  /\ flights' \in [FlightIds -> Flight]
           /\ \A g \in FlightIds \ {f} :
                /\ flights[g].phase = "connecting" => flights'[g].phase = "connecting"
                /\ flights'[g].phase = "recovering" => flights[g].phase = "recovering"
           /\ flights'[f].phase \in {p, "leaving"}
           /\ RefreshUnguarded'
<1> DEFINE fl == [flights EXCEPT ![f].phase = p]
<1>1. flights \in [FlightIds -> Flight] /\ \A g \in FlightIds : flights[g] \in Flight
  BY DEF PoolInv, PoolTypeOK, Flight
<1>2. /\ [flights[f] EXCEPT !.phase = p] \in Flight
      /\ [flights[f] EXCEPT !.phase = p].phase = p
      /\ [flights[f] EXCEPT !.phase = p].recover = flights[f].recover
  BY <1>1 DEF Flight
<1>3. fl = [flights EXCEPT ![f] = [flights[f] EXCEPT !.phase = p]]
  OBVIOUS
<1>4. fl \in [FlightIds -> Flight] /\ fl[f].phase = p /\ fl[f].recover = flights[f].recover
      /\ \A g \in FlightIds \ {f} : fl[g] = flights[g]
  BY <1>1, <1>2, <1>3
<1>5. PoolTypeOK /\ (entry.kind = "ready" => entry.flight \in FlightIds)
      /\ (entry.kind = "ready" => flights[entry.flight].phase = "open")
  BY DEF PoolInv, EntryFlight, EntryLive
<1> HIDE DEF fl
<1>6. /\ flights' \in [FlightIds -> Flight]
      /\ \A g \in FlightIds :
                /\ flights'[g].recover = fl[g].recover
                /\ flights'[g] = fl[g] \/ flights'[g].phase = "leaving"
                /\ flights'[g] # fl[g] => entry.kind = "ready" /\ g = entry.flight
  BY <1>4, <1>5, DisconnectedFlights DEF fl
<1>7. \A g \in FlightIds \ {f} :
                /\ flights[g].phase = "connecting" => flights'[g].phase = "connecting"
                /\ flights'[g].phase = "recovering" => flights[g].phase = "recovering"
                /\ flights'[g].phase # "unused" => flights[g].phase # "unused"
  BY <1>4, <1>5, <1>6
<1>8. ASSUME NEW g \in FlightIds PROVE FlightRecovers(g)'
  <2>1. flights'[g].recover = flights[g].recover
    BY <1>4, <1>6
  <2>2. flights'[g].phase # "unused" => flights[g].phase # "unused"
    BY <1>7
  <2>3. FlightRecovers(g)
    BY DEF PoolInv, RefreshUnguarded
  <2> QED BY <2>1, <2>2, <2>3 DEF FlightRecovers
<1> QED BY <1>4, <1>6, <1>7, <1>8 DEF RefreshUnguarded

\* Flights other than f that connect go on, in the step.
OthersConnect(f) ==
    \A g \in FlightIds \ {f} : flights[g].phase = "connecting" => flights'[g].phase = "connecting"

\* Then only the token of f can be the one removed.
LEMMA OnlyOneEnds ==
    ASSUME NEW f \in FlightIds, OthersConnect(f),
           stored' = stored \/ ~guarded \/ stored = flights[f].token \/ stored = 0
    PROVE  RemovesOwn
BY DEF OthersConnect, RemovesOwn

\* A step that keeps the entry, and with it the phase of the entry's flight.
LEMMA Kept ==
    ASSUME PoolInv, UNCHANGED <<guarded, entry>>,
           flights' \in [FlightIds -> Flight], callers' \in [Callers -> Caller],
           stored' \in 0 .. MaxTokens, issued' \in 1 .. MaxTokens, deleted' \in BOOLEAN,
           logins' \in {0, 1},
           \A g \in FlightIds :
              /\ flights'[g].phase = "recovering" => logins' = 1
              /\ flights[g].phase = "open" => flights'[g].phase = "open"
              /\ flights[g].phase \in Flying => flights'[g].phase \in Flying
              /\ FlightRecovers(g)'
    PROVE  PoolInv'
<1>1. PoolTypeOK'
  BY DEF PoolInv, PoolTypeOK, Flight, Caller
<1>2. EntryFlight' /\ EntryLive'
  BY DEF PoolInv, EntryFlight, EntryLive
<1>3. LoginSingleFlight' /\ RefreshUnguarded'
  BY DEF LoginSingleFlight, RefreshUnguarded
<1> QED BY <1>1, <1>2, <1>3 DEF PoolInv

\* The types, with the record sets of this module.
LEMMA PoolTyped ==
    ASSUME PoolInv
    PROVE  /\ flights \in [FlightIds -> Flight] /\ \A g \in FlightIds : flights[g] \in Flight
           /\ callers \in [Callers -> Caller]
           /\ logins \in {0, 1}
           /\ \A g \in FlightIds : flights[g].phase = "recovering" => logins = 1
           /\ stored \in 0 .. MaxTokens /\ issued \in 1 .. MaxTokens /\ deleted \in BOOLEAN
<1>1. flights \in [FlightIds -> Flight] /\ callers \in [Callers -> Caller]
  BY DEF PoolInv, PoolTypeOK, Flight, Caller
<1>2. logins \in {0, 1}
  BY DEF PoolInv, PoolTypeOK, LoginSingleFlight
<1> QED BY <1>1, <1>2 DEF PoolInv, PoolTypeOK, LoginSingleFlight

-----------------------------------------------------------------------------
(* The sessions: the flights.                                                *)

\* A flight that fails drops the entry, whoever's it is.
LEMMA FailStep ==
    ASSUME PoolInv, NEW f \in FlightIds, flights[f].phase # "unused", Fail(f),
           stored' \in 0 .. MaxTokens, UNCHANGED <<issued, deleted, guarded>>
    PROVE  PoolInv' /\ OthersConnect(f)
<1>1. /\ flights' \in [FlightIds -> Flight]
      /\ OthersConnect(f)
      /\ \A g \in FlightIds \ {f} : flights'[g].phase = "recovering" => flights[g].phase = "recovering"
      /\ flights'[f].phase \in {"over", "leaving"}
      /\ RefreshUnguarded'
  <2>1. "over" \in Phases \ {"unused", "connecting"}
    BY DEF Phases, Flying
  <2> QED BY <2>1, FlightDrops DEF Fail, OthersConnect
<1>2. callers' \in [Callers -> Caller]
  BY TellType DEF Fail, PoolInv
<1>3. \A g \in FlightIds : flights'[g].phase = "recovering" => logins' = 1
  BY <1>1, PoolTyped DEF Fail
<1>4. entry' = NoEntry /\ logins' \in {0, 1} /\ issued' \in 1 .. MaxTokens /\ deleted' \in BOOLEAN
  BY PoolTyped DEF Fail
<1> QED BY <1>1, <1>2, <1>3, <1>4, Dropped

\* A flight joins the login under way, or starts one, or fails.
LEMMA RecoverStep ==
    ASSUME PoolInv, NEW f \in FlightIds, flights[f].phase = "connecting", Recover(f),
           UNCHANGED <<issued, deleted, guarded>>
    PROVE  PoolInv' /\ OthersConnect(f) /\ stored' \in {0, stored}
<1>1. CASE /\ JoinsRecovery
           /\ flights' = [flights EXCEPT ![f].phase = "recovering"]
           /\ UNCHANGED <<entry, callers, logins, stored>>
  <2>1. /\ [flights[f] EXCEPT !.phase = "recovering"] \in Flight
        /\ [flights[f] EXCEPT !.phase = "recovering"].phase = "recovering"
        /\ [flights[f] EXCEPT !.phase = "recovering"].recover = flights[f].recover
    BY PoolTyped DEF Flight, Phases, Flying
  <2>2. flights' = [flights EXCEPT ![f] = [flights[f] EXCEPT !.phase = "recovering"]]
    BY <1>1
  <2>3. /\ flights' \in [FlightIds -> Flight] /\ flights'[f].phase = "recovering"
        /\ flights'[f].recover = flights[f].recover
        /\ \A g \in FlightIds \ {f} : flights'[g] = flights[g]
    BY <2>1, <2>2, PoolTyped
  <2>4. logins' = 1
    BY <1>1, PoolTyped DEF JoinsRecovery
  <2>5. \A g \in FlightIds : FlightRecovers(g)'
    BY <2>3 DEF PoolInv, RefreshUnguarded, FlightRecovers
  <2>6. OthersConnect(f)
    BY <2>3 DEF OthersConnect
  <2>7. \A g \in FlightIds :
              /\ flights'[g].phase = "recovering" => logins' = 1
              /\ flights[g].phase = "open" => flights'[g].phase = "open"
              /\ flights[g].phase \in Flying => flights'[g].phase \in Flying
    BY <2>3, <2>4 DEF Flying
  <2>8. PoolInv'
    BY <1>1, <2>3, <2>4, <2>5, <2>7, PoolTyped, Kept
  <2> QED BY <1>1, <2>6, <2>8
<1>2. CASE ~JoinsRecovery /\ deleted /\ Fail(f) /\ UNCHANGED stored
  BY <1>2, FailStep, PoolTyped
<1>3. CASE ~JoinsRecovery /\ ~deleted /\ stored' = 0 /\ Fail(f)
  BY <1>3, FailStep, SessionPoolAssumption
<1>4. CASE /\ ~JoinsRecovery
           /\ ~deleted
           /\ guarded
           /\ stored' = 0
           /\ flights' = Disconnected([flights EXCEPT ![f].phase = "recovering"])
           /\ entry' = NoEntry
           /\ logins' = logins + 1
           /\ UNCHANGED callers
  <2>1. /\ flights' \in [FlightIds -> Flight]
        /\ OthersConnect(f)
        /\ RefreshUnguarded'
    <3>1. "recovering" \in Phases \ {"unused", "connecting"}
      BY DEF Phases, Flying
    <3> QED BY <1>4, <3>1, FlightDrops DEF OthersConnect
  <2>2. logins' = 1
    BY <1>4, PoolTyped DEF JoinsRecovery
  <2>4. /\ callers' \in [Callers -> Caller] /\ logins' \in {0, 1}
        /\ stored' \in 0 .. MaxTokens /\ issued' \in 1 .. MaxTokens /\ deleted' \in BOOLEAN
    BY <1>4, <2>2, PoolTyped, SessionPoolAssumption
  <2>5. entry' = NoEntry
    BY <1>4
  <2>3. PoolInv'
    BY <2>1, <2>2, <2>4, <2>5, Dropped
  <2> QED BY <1>4, <2>1, <2>3
<1> QED BY <1>1, <1>2, <1>3, <1>4 DEF Recover

LEMMA TokenRejectedStep ==
    ASSUME PoolInv, NEW f \in FlightIds, TokenRejected(f), UNCHANGED guarded
    PROVE  PoolInv' /\ RemovesOwn
<1>1. flights[f].phase = "connecting" /\ UNCHANGED <<issued, deleted>>
  BY DEF TokenRejected
<1>2. CASE ~flights[f].recover /\ Fail(f) /\ stored' = 0
  <2>1. ~guarded
    BY <1>1, <1>2 DEF PoolInv, RefreshUnguarded, FlightRecovers
  <2> QED BY <1>1, <1>2, <2>1, FailStep, OnlyOneEnds, SessionPoolAssumption
<1>3. CASE flights[f].retried /\ Fail(f) /\ UNCHANGED stored
  BY <1>1, <1>3, FailStep, OnlyOneEnds, PoolTyped
<1>4. CASE /\ flights[f].recover /\ Replaced(f)
           /\ flights' = [flights EXCEPT ![f].token = stored, ![f].retried = TRUE]
           /\ UNCHANGED <<entry, callers, logins, stored>>
  <2>1. /\ [flights[f] EXCEPT !.token = stored, !.retried = TRUE] \in Flight
        /\ [flights[f] EXCEPT !.token = stored, !.retried = TRUE].phase = "connecting"
        /\ [flights[f] EXCEPT !.token = stored, !.retried = TRUE].recover
    BY <1>1, <1>4, PoolTyped DEF Flight
  <2>2. flights' = [flights EXCEPT ![f] = [flights[f] EXCEPT !.token = stored, !.retried = TRUE]]
    BY <1>4, PoolTyped
  <2>3. /\ flights' \in [FlightIds -> Flight] /\ flights'[f].phase = "connecting"
        /\ flights'[f].recover
        /\ \A g \in FlightIds \ {f} : flights'[g] = flights[g]
    BY <2>1, <2>2, PoolTyped
  <2>4. \A g \in FlightIds : FlightRecovers(g)'
    BY <2>3 DEF PoolInv, RefreshUnguarded, FlightRecovers
  <2>5. \A g \in FlightIds :
              /\ flights'[g].phase = "recovering" => logins' = 1
              /\ flights[g].phase = "open" => flights'[g].phase = "open"
              /\ flights[g].phase \in Flying => flights'[g].phase \in Flying
    BY <1>1, <1>4, <2>3, PoolTyped DEF Flying
  <2>6. PoolInv'
    BY <1>1, <1>4, <2>3, <2>4, <2>5, PoolTyped, Kept
  <2> QED BY <1>4, <2>6 DEF RemovesOwn
<1>5. CASE ~Replaced(f) /\ Recover(f)
  <2>1. PoolInv' /\ OthersConnect(f) /\ stored' \in {0, stored}
    BY <1>1, <1>5, RecoverStep
  <2>2. stored = 0 \/ stored = flights[f].token
    BY <1>5 DEF Replaced
  <2> QED BY <2>1, <2>2, OnlyOneEnds
<1> QED BY <1>2, <1>3, <1>4, <1>5 DEF TokenRejected

\* A flight that changes to a phase that is not Flying without touching the entry.
LEMMA ConnectOkStep ==
    ASSUME PoolInv, NEW f \in FlightIds, ConnectOk(f), UNCHANGED guarded
    PROVE  PoolInv' /\ RemovesOwn
<1>1. /\ [flights[f] EXCEPT !.phase = "open"] \in Flight
      /\ [flights[f] EXCEPT !.phase = "open"].phase = "open"
      /\ [flights[f] EXCEPT !.phase = "open"].recover = flights[f].recover
  BY PoolTyped DEF Flight, Phases
<1>2. flights' = [flights EXCEPT ![f] = [flights[f] EXCEPT !.phase = "open"]]
  BY DEF ConnectOk
<1>3. /\ flights' \in [FlightIds -> Flight] /\ flights'[f].phase = "open"
      /\ flights'[f].recover = flights[f].recover
      /\ \A g \in FlightIds \ {f} : flights'[g] = flights[g]
  BY <1>1, <1>2, PoolTyped
<1>4. callers' \in [Callers -> Caller]
  BY TellType DEF ConnectOk, PoolInv
<1>5. entry' = [kind |-> "ready", flight |-> f] /\ f \in 0 .. MaxFlights
  BY SessionPoolAssumption DEF ConnectOk, FlightIds
<1>6. PoolTypeOK'
  <2>1. entry' \in [kind : {"none", "connecting", "ready"}, flight : 0 .. MaxFlights]
    BY <1>5
  <2> QED BY <2>1, <1>3, <1>4 DEF PoolInv, PoolTypeOK, ConnectOk, Flight, Caller
<1>7. EntryFlight' /\ EntryLive'
  BY <1>3, <1>5 DEF EntryFlight, EntryLive
<1>8. LoginSingleFlight'
  BY <1>3 DEF PoolInv, LoginSingleFlight, ConnectOk
<1>9. RefreshUnguarded'
  BY <1>3 DEF PoolInv, RefreshUnguarded, FlightRecovers, ConnectOk
<1>10. RemovesOwn
  BY DEF ConnectOk, RemovesOwn
<1> QED BY <1>6, <1>7, <1>8, <1>9, <1>10 DEF PoolInv

LEMMA ConnectStep ==
    ASSUME PoolInv, NEW f \in FlightIds, Connect(f), UNCHANGED guarded
    PROVE  PoolInv' /\ RemovesOwn
<1>1. CASE ConnectOk(f)
  BY <1>1, ConnectOkStep
<1>2. CASE ConnectFails(f)
  <2>1. Fail(f) /\ flights[f].phase = "connecting" /\ UNCHANGED <<stored, issued, deleted>>
    BY <1>2 DEF ConnectFails
  <2> QED BY <2>1, FailStep, OnlyOneEnds, PoolTyped
<1>3. CASE TokenRejected(f)
  BY <1>3, TokenRejectedStep
<1> QED BY <1>1, <1>2, <1>3 DEF Connect

\* The login is answered: every flight that waits for it connects again.
LEMMA LoginOkStep ==
    ASSUME PoolInv, LoginOk, UNCHANGED guarded
    PROVE  PoolInv' /\ RemovesOwn
<1>1. logins' = 0 /\ issued' \in 1 .. MaxTokens /\ stored' \in 1 .. MaxTokens
      /\ issued' \in 0 .. MaxTokens
  <2>1. logins > 0 /\ logins' = logins - 1
    BY DEF LoginOk, LoginPending
  <2>2. issued < MaxTokens /\ issued' = issued + 1 /\ stored' = issued'
    BY DEF LoginOk
  <2>3. logins \in {0, 1} /\ issued \in 1 .. MaxTokens
    BY PoolTyped
  <2> QED BY <2>1, <2>2, <2>3, SessionPoolAssumption
<1>2. ASSUME NEW g \in FlightIds
      PROVE  /\ flights'[g] \in Flight
             /\ flights[g].phase = "recovering" => flights'[g].phase = "connecting"
             /\ flights[g].phase # "recovering" => flights'[g] = flights[g]
             /\ flights'[g].recover = flights[g].recover
  <2>1. CASE flights[g].phase = "recovering"
    <3>1. flights'[g] = [flights[g] EXCEPT !.phase = "connecting", !.token = issued',
                                           !.retried = TRUE]
      BY <2>1 DEF LoginOk
    <3>2. [flights[g] EXCEPT !.phase = "connecting", !.token = issued',
                             !.retried = TRUE] \in Flight
      BY <1>1, PoolTyped DEF Flight, Phases, Flying
    <3> QED BY <2>1, <3>1, <3>2, PoolTyped DEF Flight
  <2>2. CASE flights[g].phase # "recovering"
    BY <2>2, PoolTyped DEF LoginOk
  <2> QED BY <2>1, <2>2
<1>3. flights' \in [FlightIds -> Flight]
  BY <1>2 DEF LoginOk
<1>4. \A g \in FlightIds : FlightRecovers(g)'
  BY <1>2 DEF PoolInv, RefreshUnguarded, FlightRecovers
<1>5. \A g \in FlightIds :
              /\ flights'[g].phase = "recovering" => logins' = 1
              /\ flights[g].phase = "open" => flights'[g].phase = "open"
              /\ flights[g].phase \in Flying => flights'[g].phase \in Flying
  BY <1>2 DEF Flying
<1>6. UNCHANGED <<entry, callers, deleted>> /\ stored' \in 0 .. MaxTokens /\ logins' \in {0, 1}
  BY <1>1, SessionPoolAssumption DEF LoginOk
<1>7. PoolInv'
  BY <1>1, <1>3, <1>4, <1>5, <1>6, PoolTyped, Kept
<1>8. RemovesOwn
  BY <1>1 DEF RemovesOwn
<1> QED BY <1>7, <1>8

\* The login fails: so do the flights that wait for it.
LEMMA LoginFailsStep ==
    ASSUME PoolInv, LoginFails, UNCHANGED guarded
    PROVE  PoolInv' /\ RemovesOwn
<1> DEFINE ending == {f \in FlightIds : flights[f].phase = "recovering"}
           fl == [f \in FlightIds |->
                    IF f \in ending THEN [flights[f] EXCEPT !.phase = "over"] ELSE flights[f]]
<1>1. logins' = 0 /\ UNCHANGED <<stored, issued, deleted>>
  BY PoolTyped DEF LoginFails, LoginPending
<1>2. RemovesOwn
  BY <1>1 DEF RemovesOwn
<1>3. CASE ending = {} /\ UNCHANGED <<entry, flights, callers>>
  <2>1. \A g \in FlightIds : flights[g].phase # "recovering"
    BY <1>3
  <2>2. \A g \in FlightIds : FlightRecovers(g)'
    BY <1>3 DEF PoolInv, RefreshUnguarded, FlightRecovers
  <2>3. PoolInv'
    BY <1>1, <1>3, <2>1, <2>2, PoolTyped, Kept
  <2> QED BY <1>2, <2>3
<1>4. CASE /\ flights' = Disconnected(fl)
           /\ entry' = NoEntry
           /\ callers' = Tell(ending, "failed")
  <2>1. ASSUME NEW g \in FlightIds
        PROVE  fl[g] \in Flight /\ fl[g].phase # "recovering" /\ fl[g].recover = flights[g].recover
               /\ (fl[g].phase # "unused" => flights[g].phase # "unused")
    <3>1. CASE flights[g].phase = "recovering"
      <4>1. fl[g] = [flights[g] EXCEPT !.phase = "over"]
        BY <3>1
      <4> QED BY <3>1, <4>1, PoolTyped DEF Flight, Phases
    <3>2. CASE flights[g].phase # "recovering"
      BY <3>2, PoolTyped
    <3> QED BY <3>1, <3>2
  <2>2. fl \in [FlightIds -> Flight]
    BY <2>1
  <2>3. PoolTypeOK /\ (entry.kind = "ready" => entry.flight \in FlightIds)
        /\ (entry.kind = "ready" => flights[entry.flight].phase = "open")
    BY DEF PoolInv, EntryFlight, EntryLive
  <2>4. entry.kind = "ready" => fl[entry.flight] = flights[entry.flight]
    BY <2>3
  <2> HIDE DEF fl
  <2>5. /\ flights' \in [FlightIds -> Flight]
        /\ \A g \in FlightIds :
                /\ flights'[g].recover = fl[g].recover
                /\ flights'[g] = fl[g] \/ flights'[g].phase = "leaving"
                /\ flights'[g] # fl[g] => entry.kind = "ready" /\ g = entry.flight
    BY <1>4, <2>2, <2>3, DisconnectedFlights
  <2>6. \A g \in FlightIds : flights'[g].phase # "recovering"
    BY <2>1, <2>5
  <2>7. ASSUME NEW g \in FlightIds PROVE FlightRecovers(g)'
    <3>1. flights'[g].recover = flights[g].recover
      BY <2>1, <2>5
    <3>2. flights'[g].phase # "unused" => flights[g].phase # "unused"
      BY <2>1, <2>3, <2>4, <2>5
    <3>3. FlightRecovers(g)
      BY DEF PoolInv, RefreshUnguarded
    <3> QED BY <3>1, <3>2, <3>3 DEF FlightRecovers
  <2>8. RefreshUnguarded'
    BY <2>7 DEF RefreshUnguarded
  <2>9. callers' \in [Callers -> Caller]
    BY <1>4, TellType DEF PoolInv
  <2>10. PoolInv'
    BY <1>1, <1>4, <2>5, <2>6, <2>8, <2>9, PoolTyped, Dropped
  <2> QED BY <1>2, <2>10
<1> QED BY <1>3, <1>4 DEF LoginFails

-----------------------------------------------------------------------------
(* The callers.                                                              *)

\* A step of the callers and the tokens alone.
LEMMA CallersStep ==
    ASSUME PoolInv, UNCHANGED <<entry, flights, logins, deleted, guarded>>,
           callers' \in [Callers -> Caller],
           stored' \in 0 .. MaxTokens, issued' \in 1 .. MaxTokens
    PROVE  PoolInv' /\ RemovesOwn
<1>1. \A g \in FlightIds : FlightRecovers(g)'
  BY DEF PoolInv, RefreshUnguarded, FlightRecovers
<1>2. \A g \in FlightIds :
              /\ flights'[g].phase = "recovering" => logins' = 1
              /\ flights[g].phase = "open" => flights'[g].phase = "open"
              /\ flights[g].phase \in Flying => flights'[g].phase \in Flying
  BY PoolTyped
<1>3. PoolInv'
  BY <1>1, <1>2, PoolTyped, Kept
<1> QED BY <1>3 DEF RemovesOwn

\* acquire of a session that is there, of a connect that goes on; and its end.
LEMMA JoinStep ==
    ASSUME PoolInv, NEW c \in Callers, Reuse(c) \/ JoinFlight(c) \/ Release(c), UNCHANGED guarded
    PROVE  PoolInv' /\ RemovesOwn
<1>1. UNCHANGED <<entry, flights, logins, stored, issued, deleted>>
  BY DEF Reuse, JoinFlight, Release
<1>2. PICK v \in Caller : callers' = [callers EXCEPT ![c] = v]
  <2>1. entry.flight \in 0 .. MaxFlights /\ 0 \in 0 .. MaxFlights
    BY SessionPoolAssumption DEF PoolInv, PoolTypeOK
  <2>2. \A f \in 0 .. MaxFlights, p \in {"idle", "waiting", "holding", "failed"} :
            [phase |-> p, flight |-> f] \in Caller
    BY DEF Caller
  <2> QED BY <2>1, <2>2 DEF Reuse, JoinFlight, Release
<1>3. callers' \in [Callers -> Caller]
  BY <1>2, PoolTyped
<1> QED BY <1>1, <1>3, PoolTyped, CallersStep

\* acquire of a new session: the flight connects, or recovers first.
LEMMA StartFlightStep ==
    ASSUME PoolInv, NEW c \in Callers, NEW f \in FlightIds, NEW recover \in BOOLEAN,
           StartFlight(c, f, recover), UNCHANGED guarded
    PROVE  PoolInv' /\ RemovesOwn
<1> DEFINE started(p) == [phase |-> p, token |-> stored, recover |-> recover, retried |-> FALSE]
           waits == [phase |-> "waiting", flight |-> f]
           cs == [callers EXCEPT ![c] = waits]
           placeholder == [kind |-> "connecting", flight |-> f]
<1>1. /\ flights[f].phase = "unused" /\ (recover \/ ~guarded)
      /\ UNCHANGED <<issued, deleted>>
  BY DEF StartFlight
<1>2. \A p \in Phases : started(p) \in Flight /\ started(p).phase = p /\ started(p).recover = recover
  BY PoolTyped DEF Flight
<1>3. f \in 0 .. MaxFlights
  BY SessionPoolAssumption DEF FlightIds
<1>4. waits \in Caller /\ [waits EXCEPT !.phase = "failed"] \in Caller
  BY <1>3 DEF Caller
<1>5. cs \in [Callers -> Caller] /\ [cs EXCEPT ![c].phase = "failed"] \in [Callers -> Caller]
  <2>1. [cs EXCEPT ![c].phase = "failed"] = [callers EXCEPT ![c] = [waits EXCEPT !.phase = "failed"]]
    BY PoolTyped
  <2> QED BY <1>4, <2>1, PoolTyped
<1>6. PICK p \in Flying \cup {"over"} :
        /\ flights' = [flights EXCEPT ![f] = started(p)]
        /\ callers' \in [Callers -> Caller]
        /\ stored' = stored
        /\ p = "connecting" => logins' = logins /\ entry' = placeholder
        /\ p = "recovering" => \/ logins > 0 /\ logins' = logins /\ entry' = placeholder
                               \/ ~(logins > 0) /\ logins' = logins + 1 /\ entry' = NoEntry
        /\ p = "over" => logins' = logins /\ entry' = NoEntry
  <2> HIDE DEF started, cs, placeholder
  <2>1. CASE /\ entry' = placeholder
             /\ flights' = [flights EXCEPT ![f] = started("connecting")]
             /\ callers' = cs
             /\ UNCHANGED <<logins, stored>>
    BY <1>5, <2>1 DEF Flying
  <2>2. CASE /\ JoinsRecovery
             /\ entry' = placeholder
             /\ flights' = [flights EXCEPT ![f] = started("recovering")]
             /\ callers' = cs
             /\ UNCHANGED <<logins, stored>>
    BY <1>5, <2>2 DEF Flying, JoinsRecovery
  <2>3. CASE /\ ~JoinsRecovery /\ entry' = NoEntry /\ UNCHANGED stored
             /\ flights' = [flights EXCEPT ![f] = started("recovering")]
             /\ callers' = cs
             /\ logins' = logins + 1
    BY <1>5, <2>3 DEF Flying, JoinsRecovery
  <2>4. CASE /\ entry' = NoEntry /\ UNCHANGED stored
             /\ flights' = [flights EXCEPT ![f] = started("over")]
             /\ callers' = [cs EXCEPT ![c].phase = "failed"]
             /\ UNCHANGED logins
    BY <1>5, <2>4 DEF Flying
  <2> QED BY <2>1, <2>2, <2>3, <2>4 DEF StartFlight, started, cs, placeholder
<1>7. p \in Phases
  BY DEF Phases
<1> HIDE DEF started
<1>8. /\ flights' \in [FlightIds -> Flight] /\ flights'[f].phase = p
      /\ flights'[f].recover = recover
      /\ \A g \in FlightIds \ {f} : flights'[g] = flights[g]
  BY <1>2, <1>6, <1>7, PoolTyped
<1>9. /\ logins' \in {0, 1}
      /\ \A g \in FlightIds : flights'[g].phase = "recovering" => logins' = 1
  BY <1>6, <1>8, PoolTyped DEF Flying
<1>10. entry' \in {placeholder, NoEntry} /\ (entry' = placeholder => p \in Flying)
  <2>1. placeholder.kind # NoEntry.kind
    BY DEF NoEntry
  <2> QED BY <1>6, <2>1 DEF Flying
<1>11. PoolTypeOK'
  <2>1. entry' \in [kind : {"none", "connecting", "ready"}, flight : 0 .. MaxFlights]
    BY <1>3, <1>10, SessionPoolAssumption DEF NoEntry
  <2> QED BY <1>1, <1>6, <1>8, <1>9, <2>1 DEF PoolInv, PoolTypeOK, Flight, Caller
<1>12. EntryFlight' /\ EntryLive'
  BY <1>8, <1>10 DEF EntryFlight, EntryLive, NoEntry
<1>13. LoginSingleFlight'
  BY <1>9 DEF LoginSingleFlight
<1>14. RefreshUnguarded'
  BY <1>1, <1>8 DEF PoolInv, RefreshUnguarded, FlightRecovers
<1>15. RemovesOwn
  BY <1>6 DEF RemovesOwn
<1> QED BY <1>11, <1>12, <1>13, <1>14, <1>15 DEF PoolInv

-----------------------------------------------------------------------------
(* The sessions: what ends one.                                              *)

\* Dropping the account's entry ends no connect: it has a session that is open.
LEMMA DisconnectEntryStep ==
    ASSUME PoolInv, DisconnectEntry(flights), UNCHANGED <<callers, guarded>>,
           stored' \in 0 .. MaxTokens, issued' \in 1 .. MaxTokens, deleted' \in BOOLEAN,
           logins' = logins \/ (logins = 0 /\ logins' = 1)
    PROVE  PoolInv' /\ RemovesOwn
<1>1. PoolTypeOK /\ (entry.kind = "ready" => entry.flight \in FlightIds)
      /\ (entry.kind = "ready" => flights[entry.flight].phase = "open")
  BY DEF PoolInv, EntryFlight, EntryLive
<1>2. /\ flights' \in [FlightIds -> Flight]
      /\ \A g \in FlightIds :
                /\ flights'[g].recover = flights[g].recover
                /\ flights'[g] = flights[g] \/ flights'[g].phase = "leaving"
                /\ flights'[g] # flights[g] => entry.kind = "ready" /\ g = entry.flight
  BY <1>1, PoolTyped, DisconnectedFlights DEF DisconnectEntry
<1>3. \A g \in FlightIds : /\ flights'[g].phase # "unused" => flights[g].phase # "unused"
                           /\ flights[g].phase = "connecting" => flights'[g].phase = "connecting"
                           /\ flights'[g].phase = "recovering" => flights[g].phase = "recovering"
  BY <1>1, <1>2
<1>4. ASSUME NEW g \in FlightIds PROVE FlightRecovers(g)'
  <2>1. FlightRecovers(g)
    BY DEF PoolInv, RefreshUnguarded
  <2> QED BY <1>2, <1>3, <2>1 DEF FlightRecovers
<1>5. RefreshUnguarded'
  BY <1>4 DEF RefreshUnguarded
<1>6. logins' \in {0, 1} /\ (logins = 1 => logins' = 1)
  BY PoolTyped
<1>7. entry' = NoEntry /\ callers' \in [Callers -> Caller]
  BY PoolTyped DEF DisconnectEntry
<1>8. \A g \in FlightIds : flights'[g].phase = "recovering" => logins' = 1
  BY <1>3, <1>6, PoolTyped
<1>9. PoolInv'
  BY <1>2, <1>5, <1>6, <1>7, <1>8, Dropped
<1>10. RemovesOwn
  BY <1>3 DEF RemovesOwn
<1> QED BY <1>9, <1>10

\* The events of a session, and of one that was logged off before.
LEMMA OnSteamGoneStep ==
    ASSUME PoolInv, NEW f \in FlightIds, OnSteamGone(f), UNCHANGED guarded
    PROVE  PoolInv' /\ RemovesOwn
<1> DEFINE e == entry.flight
           fl == [flights EXCEPT ![f].phase = "over"]
<1>1. /\ entry' = NoEntry /\ flights[f].phase \in {"open", "leaving"}
      /\ UNCHANGED <<callers, logins, stored, issued, deleted>>
      /\ flights' = IF entry.kind = "ready" /\ e # f THEN [fl EXCEPT ![e].phase = "leaving"] ELSE fl
  BY DEF OnSteamGone
<1>2. entry.kind = "ready" => e \in FlightIds /\ flights[e].phase = "open"
  BY DEF PoolInv, EntryFlight, EntryLive
<1>3. ASSUME NEW g \in FlightIds, NEW p \in {"over", "leaving"}
      PROVE  /\ [flights[g] EXCEPT !.phase = p] \in Flight
             /\ [flights[g] EXCEPT !.phase = p].phase = p
             /\ [flights[g] EXCEPT !.phase = p].recover = flights[g].recover
  BY PoolTyped DEF Flight, Phases
<1>4. /\ fl = [flights EXCEPT ![f] = [flights[f] EXCEPT !.phase = "over"]]
      /\ fl \in [FlightIds -> Flight]
  BY <1>3, PoolTyped
<1>5. entry.kind = "ready" /\ e # f =>
        flights' = [flights EXCEPT ![f] = [flights[f] EXCEPT !.phase = "over"],
                                   ![e] = [flights[e] EXCEPT !.phase = "leaving"]]
  BY <1>1, <1>2, <1>4, PoolTyped
<1>6. entry.kind # "ready" \/ e = f => flights' = fl
  BY <1>1
<1>7. /\ flights' \in [FlightIds -> Flight]
      /\ \A g \in FlightIds :
            /\ flights'[g].recover = flights[g].recover
            /\ \/ flights'[g] = flights[g]
               \/ /\ flights'[g].phase \in {"over", "leaving"}
                  /\ flights[g].phase \in {"open", "leaving"}
  <2>1. CASE entry.kind = "ready" /\ e # f
    <3> DEFINE u == [flights[f] EXCEPT !.phase = "over"]
               v == [flights[e] EXCEPT !.phase = "leaving"]
    <3>1. e \in FlightIds /\ flights[e].phase = "open"
      BY <1>2, <2>1
    <3>2. u \in Flight /\ u.phase = "over" /\ u.recover = flights[f].recover
      BY <1>3
    <3>3. v \in Flight /\ v.phase = "leaving" /\ v.recover = flights[e].recover
      BY <1>3, <3>1
    <3>4. flights' = [flights EXCEPT ![f] = u, ![e] = v]
      BY <1>5, <2>1
    <3> HIDE DEF u, v
    <3> QED BY <1>1, <3>1, <3>2, <3>3, <3>4, PoolTyped
  <2>2. CASE entry.kind # "ready" \/ e = f
    BY <1>1, <1>3, <1>4, <1>6, <2>2, PoolTyped
  <2> QED BY <2>1, <2>2
<1>8. ASSUME NEW g \in FlightIds PROVE FlightRecovers(g)'
  <2>1. FlightRecovers(g)
    BY DEF PoolInv, RefreshUnguarded
  <2> QED BY <1>1, <1>7, <2>1 DEF FlightRecovers
<1>9. RefreshUnguarded'
  BY <1>8 DEF RefreshUnguarded
<1>10. \A g \in FlightIds : flights'[g].phase = "recovering" => logins' = 1
  BY <1>1, <1>7, PoolTyped
<1>11. PoolInv'
  BY <1>1, <1>7, <1>9, <1>10, PoolTyped, Dropped
<1>12. RemovesOwn
  BY <1>7 DEF RemovesOwn
<1> QED BY <1>11, <1>12

-----------------------------------------------------------------------------
(* The sessions: nobody waits for a flight that has ended.                   *)

\* What WaitersServed says of one caller.
Served(c) ==
    callers[c].phase = "waiting" =>
        callers[c].flight \in FlightIds /\ flights[callers[c].flight].phase \in Flying

\* Only an open session is logged off with its entry: a flight goes on.
LEMMA FlyingNotDropped ==
    ASSUME PoolInv, NEW fl \in [FlightIds -> Flight], NEW g \in FlightIds,
           flights[g].phase \in Flying
    PROVE  Disconnected(fl)[g] = fl[g]
<1>1. PoolTypeOK /\ (entry.kind = "ready" => entry.flight \in FlightIds)
      /\ (entry.kind = "ready" => flights[entry.flight].phase = "open")
  BY DEF PoolInv, EntryFlight, EntryLive
<1>2. Disconnected(fl)[g] # fl[g] => entry.kind = "ready" /\ g = entry.flight
  BY <1>1, DisconnectedFlights
<1> QED BY <1>1, <1>2 DEF Flying

\* The flights in ending end, and their callers are told.
LEMMA ServedIfTold ==
    ASSUME WaitersServed, NEW ending, NEW p \in {"holding", "failed"},
           callers' = Tell(ending, p), PoolTypeOK,
           \A g \in FlightIds \ ending :
              flights[g].phase \in Flying => flights'[g].phase \in Flying
    PROVE  WaitersServed'
<1>1. ASSUME NEW c \in Callers PROVE Served(c)'
  <2>1. Served(c)
    BY DEF WaitersServed, Served
  <2>2. CASE callers[c].phase = "waiting" /\ callers[c].flight \in ending
    <3>1. callers'[c] = [callers[c] EXCEPT !.phase = p]
      BY <2>2 DEF Tell
    <3>2. callers'[c].phase = p
      BY <3>1 DEF PoolTypeOK
    <3> QED BY <3>2 DEF Served
  <2>3. CASE ~(callers[c].phase = "waiting" /\ callers[c].flight \in ending)
    <3>1. callers'[c] = callers[c]
      BY <2>3 DEF Tell
    <3> QED BY <2>1, <2>3, <3>1 DEF Served
  <2> QED BY <2>2, <2>3
<1> QED BY <1>1 DEF WaitersServed, Served

\* No flight ends.
LEMMA ServedIfFlying ==
    ASSUME WaitersServed, UNCHANGED callers,
           \A g \in FlightIds : flights[g].phase \in Flying => flights'[g].phase \in Flying
    PROVE  WaitersServed'
BY DEF WaitersServed

\* A caller is given something new, and no flight ends.
LEMMA ServedIfGiven ==
    ASSUME WaitersServed, NEW c \in Callers, NEW v, callers' = [callers EXCEPT ![c] = v], PoolTypeOK,
           v.phase = "waiting" => v.flight \in FlightIds /\ flights'[v.flight].phase \in Flying,
           \A g \in FlightIds : flights[g].phase \in Flying => flights'[g].phase \in Flying
    PROVE  WaitersServed'
<1>1. ASSUME NEW d \in Callers PROVE Served(d)'
  <2>1. Served(d)
    BY DEF WaitersServed, Served
  <2>2. CASE d = c
    BY <2>2 DEF PoolTypeOK, Served
  <2>3. CASE d # c
    <3>1. callers'[d] = callers[d]
      BY <2>3 DEF PoolTypeOK
    <3> QED BY <2>1, <3>1 DEF Served
  <2> QED BY <2>2, <2>3
<1> QED BY <1>1 DEF WaitersServed, Served

LEMMA ServedFail ==
    ASSUME PoolInv, WaitersServed, NEW f \in FlightIds, Fail(f)
    PROVE  WaitersServed'
<1> DEFINE fl == [flights EXCEPT ![f].phase = "over"]
<1>1. [flights[f] EXCEPT !.phase = "over"] \in Flight
  BY PoolTyped DEF Flight, Phases
<1>2. fl = [flights EXCEPT ![f] = [flights[f] EXCEPT !.phase = "over"]]
  OBVIOUS
<1>3. fl \in [FlightIds -> Flight] /\ \A g \in FlightIds \ {f} : fl[g] = flights[g]
  BY <1>1, <1>2, PoolTyped
<1> HIDE DEF fl
<1>4. flights' = Disconnected(fl) /\ callers' = Tell({f}, "failed")
  BY DEF Fail, fl
<1>5. \A g \in FlightIds \ {f} : flights[g].phase \in Flying => flights'[g].phase \in Flying
  BY <1>3, <1>4, FlyingNotDropped
<1> QED BY <1>4, <1>5, ServedIfTold DEF PoolInv

\* One flight goes on in another phase, with or without the entry.
LEMMA ServedGoesOn ==
    ASSUME PoolInv, WaitersServed, NEW f \in FlightIds, NEW r \in Flight, r.phase \in Flying,
           flights[f].phase \in Flying, UNCHANGED callers,
           \/ flights' = [flights EXCEPT ![f] = r]
           \/ flights' = Disconnected([flights EXCEPT ![f] = r])
    PROVE  WaitersServed'
<1> DEFINE fl == [flights EXCEPT ![f] = r]
<1>1. fl \in [FlightIds -> Flight] /\ fl[f] = r /\ \A g \in FlightIds \ {f} : fl[g] = flights[g]
  BY PoolTyped
<1> HIDE DEF fl
<1>2. flights' = fl \/ flights' = Disconnected(fl)
  BY DEF fl
<1>3. \A g \in FlightIds : flights[g].phase \in Flying => fl[g].phase \in Flying
  BY <1>1
<1>4. \A g \in FlightIds : flights[g].phase \in Flying => flights'[g].phase \in Flying
  BY <1>1, <1>2, <1>3, FlyingNotDropped
<1> QED BY <1>4, ServedIfFlying

LEMMA ServedConnect ==
    ASSUME PoolInv, WaitersServed, NEW f \in FlightIds, Connect(f)
    PROVE  WaitersServed'
<1>1. CASE ConnectOk(f)
  <2>1. \A g \in FlightIds \ {f} : flights'[g] = flights[g]
    BY <1>1, PoolTyped DEF ConnectOk
  <2>2. callers' = Tell({f}, "holding")
    BY <1>1 DEF ConnectOk
  <2> QED BY <2>1, <2>2, ServedIfTold DEF PoolInv
<1>2. CASE Fail(f)
  BY <1>2, ServedFail
<1>3. CASE Recover(f) /\ flights[f].phase = "connecting"
  <2> DEFINE r == [flights[f] EXCEPT !.phase = "recovering"]
  <2>1. r \in Flight /\ r.phase \in Flying /\ flights[f].phase \in Flying
    BY <1>3, PoolTyped DEF Flight, Phases, Flying
  <2>2. \/ Fail(f)
        \/ /\ UNCHANGED callers
           /\ \/ flights' = [flights EXCEPT ![f] = r]
              \/ flights' = Disconnected([flights EXCEPT ![f] = r])
    BY <1>3 DEF Recover
  <2> HIDE DEF r
  <2> QED BY <2>1, <2>2, ServedFail, ServedGoesOn
<1>4. CASE /\ flights[f].phase = "connecting" /\ UNCHANGED callers
           /\ flights' = [flights EXCEPT ![f].token = stored, ![f].retried = TRUE]
  <2> DEFINE r == [flights[f] EXCEPT !.token = stored, !.retried = TRUE]
  <2>1. r \in Flight /\ r.phase \in Flying /\ flights[f].phase \in Flying
    BY <1>4, PoolTyped DEF Flight, Flying
  <2>2. flights' = [flights EXCEPT ![f] = r]
    BY <1>4, PoolTyped
  <2> HIDE DEF r
  <2> QED BY <1>4, <2>1, <2>2, ServedGoesOn
<1> QED BY <1>1, <1>2, <1>3, <1>4 DEF Connect, ConnectFails, TokenRejected

LEMMA ServedLogin ==
    ASSUME PoolInv, WaitersServed, LoginOk \/ LoginFails
    PROVE  WaitersServed'
<1>1. CASE LoginOk
  <2>1. ASSUME NEW g \in FlightIds, flights[g].phase \in Flying
        PROVE  flights'[g].phase \in Flying
    <3>1. CASE flights[g].phase = "recovering"
      <4>1. flights'[g] = [flights[g] EXCEPT !.phase = "connecting", !.token = issued',
                                             !.retried = TRUE]
        BY <1>1, <3>1 DEF LoginOk
      <4> QED BY <4>1, PoolTyped DEF Flight, Flying
    <3>2. CASE flights[g].phase # "recovering"
      BY <1>1, <2>1, <3>2 DEF LoginOk
    <3> QED BY <3>1, <3>2
  <2>2. UNCHANGED callers
    BY <1>1 DEF LoginOk
  <2> QED BY <2>1, <2>2, ServedIfFlying
<1>2. CASE LoginFails
  <2> DEFINE ending == {f \in FlightIds : flights[f].phase = "recovering"}
             fl == [f \in FlightIds |->
                      IF f \in ending THEN [flights[f] EXCEPT !.phase = "over"] ELSE flights[f]]
  <2>1. CASE UNCHANGED <<entry, flights, callers>>
    BY <2>1, ServedIfFlying
  <2>2. CASE flights' = Disconnected(fl) /\ callers' = Tell(ending, "failed")
    <3>1. ASSUME NEW g \in FlightIds
          PROVE  fl[g] \in Flight /\ (g \notin ending => fl[g] = flights[g])
      <4>1. [flights[g] EXCEPT !.phase = "over"] \in Flight
        BY PoolTyped DEF Flight, Phases
      <4> QED BY <4>1, PoolTyped
    <3>2. fl \in [FlightIds -> Flight]
      BY <3>1
    <3> HIDE DEF fl, ending
    <3>3. \A g \in FlightIds \ ending :
              flights[g].phase \in Flying => flights'[g].phase \in Flying
      BY <2>2, <3>1, <3>2, FlyingNotDropped
    <3> QED BY <2>2, <3>3, ServedIfTold DEF PoolInv
  <2> QED BY <1>2, <2>1, <2>2 DEF LoginFails
<1> QED BY <1>1, <1>2

LEMMA ServedAcquire ==
    ASSUME PoolInv, WaitersServed, NEW c \in Callers, Acquire(c) \/ Release(c)
    PROVE  WaitersServed'
<1>1. CASE Reuse(c) \/ JoinFlight(c) \/ Release(c)
  <2>1. PICK v \in [phase : {"idle", "waiting", "holding", "failed"}, flight : 0 .. MaxFlights] :
          /\ callers' = [callers EXCEPT ![c] = v]
          /\ v.phase = "waiting" => entry.kind = "connecting" /\ v.flight = entry.flight
    <3>1. entry.flight \in 0 .. MaxFlights /\ 0 \in 0 .. MaxFlights
      BY SessionPoolAssumption DEF PoolInv, PoolTypeOK
    <3> QED BY <1>1, <3>1 DEF Reuse, JoinFlight, Release, PoolJoinable
  <2>2. UNCHANGED flights
    BY <1>1 DEF Reuse, JoinFlight, Release
  <2>3. v.phase = "waiting" => v.flight \in FlightIds /\ flights'[v.flight].phase \in Flying
    BY <2>1, <2>2 DEF PoolInv, EntryFlight, EntryLive
  <2> QED BY <2>1, <2>2, <2>3, ServedIfGiven DEF PoolInv
<1>2. ASSUME NEW f \in FlightIds, NEW recover \in BOOLEAN, StartFlight(c, f, recover)
      PROVE  WaitersServed'
  <2> DEFINE started(p) == [phase |-> p, token |-> stored, recover |-> recover, retried |-> FALSE]
             waits == [phase |-> "waiting", flight |-> f]
             cs == [callers EXCEPT ![c] = waits]
  <2>1. PICK p \in Flying \cup {"over"} :
          /\ flights' = [flights EXCEPT ![f] = started(p)]
          /\ p \in Flying => callers' = cs
          /\ p = "over" => callers' = [cs EXCEPT ![c].phase = "failed"]
    BY <1>2 DEF StartFlight, Flying
  <2>2. flights[f].phase = "unused"
    BY <1>2 DEF StartFlight
  <2>3. /\ flights'[f].phase = p
        /\ \A g \in FlightIds \ {f} : flights'[g] = flights[g]
    BY <2>1, PoolTyped
  <2>4. \A g \in FlightIds : flights[g].phase \in Flying => flights'[g].phase \in Flying
    BY <2>2, <2>3 DEF Flying
  <2>5. CASE p \in Flying
    BY <2>1, <2>3, <2>4, <2>5, ServedIfGiven DEF PoolInv
  <2>6. CASE p = "over"
    <3>1. callers' = [callers EXCEPT ![c] = [waits EXCEPT !.phase = "failed"]]
      BY <2>1, <2>6, PoolTyped
    <3> QED BY <2>4, <3>1, ServedIfGiven DEF PoolInv
  <2> QED BY <2>5, <2>6
<1> QED BY <1>1, <1>2 DEF Acquire

LEMMA ServedEnds ==
    ASSUME PoolInv, WaitersServed, UNCHANGED callers,
           DisconnectEntry(flights) \/ \E f \in FlightIds : OnSteamGone(f)
    PROVE  WaitersServed'
<1>1. CASE DisconnectEntry(flights)
  BY <1>1, PoolTyped, FlyingNotDropped, ServedIfFlying DEF DisconnectEntry
<1>2. ASSUME NEW f \in FlightIds, OnSteamGone(f) PROVE WaitersServed'
  <2> DEFINE e == entry.flight
             fl == [flights EXCEPT ![f].phase = "over"]
  <2>1. /\ flights[f].phase \in {"open", "leaving"}
        /\ flights' = IF entry.kind = "ready" /\ e # f THEN [fl EXCEPT ![e].phase = "leaving"] ELSE fl
    BY <1>2 DEF OnSteamGone
  <2>2. entry.kind = "ready" => flights[e].phase = "open"
    BY DEF PoolInv, EntryLive
  <2>3. \A g \in FlightIds \ {f} : flights'[g] = flights[g] \/ (entry.kind = "ready" /\ g = e)
    BY <2>1, PoolTyped
  <2>4. \A g \in FlightIds : flights[g].phase \in Flying => flights'[g].phase \in Flying
    BY <2>1, <2>2, <2>3 DEF Flying
  <2> QED BY <2>4, ServedIfFlying
<1> QED BY <1>1, <1>2

LEMMA ServedNext ==
    ASSUME PoolInv, WaitersServed, [PoolNext]_poolVars
    PROVE  WaitersServed'
<1>1. CASE UNCHANGED poolVars
  BY <1>1 DEF poolVars, WaitersServed
<1>2. ASSUME NEW f \in FlightIds, RenewToken(f) PROVE WaitersServed'
  BY <1>2, ServedIfFlying DEF RenewToken
<1>3. CASE Invalidate \/ PoolDeleteAccount \/ WebRecover
  BY <1>3, ServedEnds DEF Invalidate, PoolDeleteAccount, WebRecover, Forget
<1>4. CASE SignIn
  <2>1. CASE Forget
    BY <1>4, <2>1, ServedEnds DEF SignIn, Forget
  <2>2. CASE UNCHANGED <<entry, flights>>
    BY <1>4, <2>2, ServedIfFlying DEF SignIn
  <2> QED BY <1>4, <2>1, <2>2 DEF SignIn
<1>5. ASSUME NEW f \in FlightIds, OnSteamGone(f) PROVE WaitersServed'
  <2>1. UNCHANGED callers
    BY <1>5 DEF OnSteamGone
  <2> QED BY <1>5, <2>1, ServedEnds
<1> QED BY <1>1, <1>2, <1>3, <1>4, <1>5, ServedConnect, ServedLogin, ServedAcquire DEF PoolNext

-----------------------------------------------------------------------------
(* The sessions: the theorems.                                               *)

LEMMA PoolInitInv == PoolInit => PoolInv
<1> SUFFICES ASSUME PoolInit PROVE PoolInv
  OBVIOUS
<1> USE SessionPoolAssumption
<1>1. PoolTypeOK
  <2>1. entry \in [kind : {"none", "connecting", "ready"}, flight : 0 .. MaxFlights]
    BY DEF PoolInit, NoEntry
  <2>2. flights \in [FlightIds -> Flight]
    BY DEF PoolInit, Flight, Phases
  <2>3. callers \in [Callers -> Caller]
    BY DEF PoolInit, Caller
  <2>4. stored \in 0 .. MaxTokens /\ issued \in 1 .. MaxTokens /\ logins \in Nat
    BY DEF PoolInit
  <2> QED BY <2>1, <2>2, <2>3, <2>4 DEF PoolInit, PoolTypeOK, Flight, Caller
<1>2. EntryFlight /\ EntryLive
  BY DEF PoolInit, NoEntry, EntryFlight, EntryLive
<1>3. LoginSingleFlight /\ RefreshUnguarded
  BY DEF PoolInit, LoginSingleFlight, RefreshUnguarded, FlightRecovers
<1> QED BY <1>1, <1>2, <1>3 DEF PoolInv

\* Every step keeps the invariant and removes no token but the rejected one.
LEMMA PoolNextInv ==
    ASSUME PoolInv, [PoolNext]_poolVars
    PROVE  PoolInv' /\ (RemovesOwn \/ UNCHANGED poolVars)
<1>1. CASE UNCHANGED poolVars
  <2>1. PoolTypeOK' /\ EntryFlight' /\ EntryLive'
    BY <1>1 DEF PoolInv, PoolTypeOK, EntryFlight, EntryLive, poolVars
  <2>2. LoginSingleFlight' /\ RefreshUnguarded'
    BY <1>1 DEF PoolInv, LoginSingleFlight, RefreshUnguarded, FlightRecovers, poolVars
  <2> QED BY <1>1, <2>1, <2>2 DEF PoolInv
<1>2. CASE PoolNext
  <2>1. UNCHANGED guarded
    BY <1>2 DEF PoolNext
  <2>2. 0 \in 0 .. MaxTokens
    BY SessionPoolAssumption
  <2>3. ASSUME NEW c \in Callers, Acquire(c) \/ Release(c) PROVE PoolInv' /\ RemovesOwn
    BY <2>1, <2>3, JoinStep, StartFlightStep DEF Acquire
  <2>4. ASSUME NEW f \in FlightIds, Connect(f) \/ OnSteamGone(f) PROVE PoolInv' /\ RemovesOwn
    BY <2>1, <2>4, ConnectStep, OnSteamGoneStep
  <2>5. ASSUME issued < MaxTokens, issued' = issued + 1, stored' = issued'
        PROVE  stored' \in 0 .. MaxTokens /\ issued' \in 1 .. MaxTokens
    <3>1. issued \in 1 .. MaxTokens
      BY PoolTyped
    <3> QED BY <2>5, <3>1, SessionPoolAssumption
  <2>6. ASSUME NEW f \in FlightIds, RenewToken(f) PROVE PoolInv' /\ RemovesOwn
    BY <2>1, <2>5, <2>6, PoolTyped, CallersStep DEF RenewToken
  <2>7. CASE LoginOk
    BY <2>1, <2>7, LoginOkStep
  <2>8. CASE LoginFails
    BY <2>1, <2>8, LoginFailsStep
  <2>9. CASE Invalidate
    BY <2>1, <2>9, PoolTyped, DisconnectEntryStep DEF Invalidate
  <2>10. CASE PoolDeleteAccount
    BY <2>1, <2>2, <2>10, PoolTyped, DisconnectEntryStep DEF PoolDeleteAccount, Forget
  <2>11. CASE WebRecover
    <3>1. logins = 0
      BY <2>11, PoolTyped DEF WebRecover, JoinsRecovery
    <3>2. logins' = logins \/ (logins = 0 /\ logins' = 1)
      BY <2>11, <3>1 DEF WebRecover
    <3> QED BY <2>1, <2>2, <2>11, <3>2, PoolTyped, DisconnectEntryStep DEF WebRecover, Forget
  <2>12. CASE SignIn
    <3>1. CASE Forget /\ UNCHANGED issued
      BY <2>1, <2>2, <2>12, <3>1, PoolTyped, DisconnectEntryStep DEF SignIn, Forget
    <3>2. CASE issued < MaxTokens /\ issued' = issued + 1 /\ stored' = issued' /\ UNCHANGED <<entry, flights>>
      BY <2>1, <2>5, <2>12, <3>2, PoolTyped, CallersStep DEF SignIn
    <3> QED BY <2>12, <3>1, <3>2 DEF SignIn
  <2> QED BY <1>2, <2>3, <2>4, <2>6, <2>7, <2>8, <2>9, <2>10, <2>11, <2>12 DEF PoolNext
<1> QED BY <1>1, <1>2

\* The inductive invariant holds in every state.
THEOREM PoolInductive == PoolSpec => []PoolInv
BY PoolInitInv, PoolNextInv, PTL DEF PoolSpec

\* The variables keep the types of sessionPool.js's entry and of the recoveries.
THEOREM PoolTypeCorrect == PoolSpec => []PoolTypeOK
<1>1. PoolInv => PoolTypeOK
  BY DEF PoolInv
<1> QED BY <1>1, PoolInductive, PTL

\* acquire hands out no session that is gone and no promise that is settled.
THEOREM HandsOutLiveSessions == PoolSpec => []EntryLive
<1>1. PoolInv => EntryLive
  BY DEF PoolInv
<1> QED BY <1>1, PoolInductive, PTL

\* recoverToken: one login of an account at a time, and one for every flight that waits.
THEOREM OneLoginAtATime == PoolSpec => []LoginSingleFlight
<1>1. PoolInv => LoginSingleFlight
  BY DEF PoolInv
<1> QED BY <1>1, PoolInductive, PTL

\* acquire: whoever waits for a connect waits for one that goes on, and is told when it ends.
THEOREM NobodyWaitsInVain == PoolSpec => []WaitersServed
<1>1. ASSUME PoolInit PROVE WaitersServed
  BY <1>1 DEF PoolInit, WaitersServed
<1>2. PoolInv /\ WaitersServed /\ [PoolNext]_poolVars => WaitersServed'
  BY ServedNext
<1> QED BY <1>1, <1>2, PoolInductive, PTL DEF PoolSpec

\* withTokenRecovery and performRecovery: a rejected flight of an account with a maFile
\* removes the token that was rejected and no newer one.
THEOREM RemovesOnlyItsToken == PoolSpec => OnlyRejectedTokenRemoved
<1>1. PoolInv /\ [PoolNext]_poolVars =>
        [\A f \in FlightIds :
          /\ guarded
          /\ flights[f].phase = "connecting" /\ flights'[f].phase # "connecting"
          /\ stored # 0 /\ stored' = 0
          => stored = flights[f].token]_poolVars
  BY PoolNextInv DEF RemovesOwn
<1> QED BY <1>1, PoolInductive, PTL DEF PoolSpec, OnlyRejectedTokenRemoved
=============================================================================
