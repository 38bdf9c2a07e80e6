------------------------ MODULE CraftOperations_proofs ------------------------
(* Proofs about CraftOperations, for any accounts, operation ids, requests   *)
(* and bounds.  TypeOK, OneRunPerAccount, RunningRecordKept and ReplySound   *)
(* are proved together: that a repeat finds the running execution needs the  *)
(* records to name their runs (RecordsSound), and that a new execution does  *)
(* not disturb an old one needs the run ids to be fresh (FreshRuns).  That   *)
(* an operation is not executed again early needs the records of the past:   *)
(* an execution that ended has its record, or may be gone (HistoryInv).      *)
EXTENDS CraftOperations, TLAPS, FiniteSetTheorems

IInv ==
    /\ TypeOK
    /\ OneRunPerAccount
    /\ RunningRecordKept
    /\ ReplySound
    /\ RecordsSound
    /\ FreshRuns

-----------------------------------------------------------------------------
\* Pruning only removes completed records, and changes none (uiServer.js,
\* pruneCraftOperationRecords).
LEMMA PruneKeeps ==
    ASSUME NEW recs, NEW t
    PROVE  /\ DOMAIN Prune(recs, t) \subseteq DOMAIN recs
           /\ \A o \in DOMAIN Prune(recs, t) : Prune(recs, t)[o] = recs[o]
           /\ \A o \in DOMAIN recs : recs[o].completedAt = 0 => o \in DOMAIN Prune(recs, t)
<1> DEFINE fresh == Without(recs, Expired(recs, t))
<1>1. /\ DOMAIN fresh = DOMAIN recs \ Expired(recs, t)
      /\ \A o \in DOMAIN fresh : fresh[o] = recs[o]
  BY DEF Without
<1>2. /\ DOMAIN Prune(recs, t) = DOMAIN fresh \ OverLimit(fresh)
      /\ \A o \in DOMAIN Prune(recs, t) : Prune(recs, t)[o] = fresh[o]
  BY DEF Prune, Without
<1>3. \A o \in Expired(recs, t) : recs[o].completedAt # 0
  BY DEF Expired, Completed
<1>4. \A o \in OverLimit(fresh) : o \in DOMAIN fresh /\ fresh[o].completedAt # 0
  BY DEF OverLimit, Completed
<1> HIDE DEF fresh
<1> QED
  BY <1>1, <1>2, <1>3, <1>4

\* The updates of a run, a request and a record keep their types.
LEMMA UpdatedTypes ==
    /\ \A u \in Run, e \in Endings, t \in 0 .. MaxClock :
          [u EXCEPT !.state = e, !.busy = FALSE, !.endedAt = t] \in Run
    /\ \A u \in Run : u.left > 1 => [u EXCEPT !.left = @ - 1, !.busy = FALSE] \in Run
    /\ \A u \in Run : /\ [u EXCEPT !.busy = TRUE] \in Run
                      /\ [u EXCEPT !.pauseRequested = TRUE] \in Run
    /\ \A q \in Request, e \in Endings :
          [q EXCEPT !.state = "answered", !.reply = e] \in Request
    /\ \A e \in Record, t \in 0 .. MaxClock : [e EXCEPT !.completedAt = t] \in Record
<1>1. ASSUME NEW u \in Run, NEW e \in Endings, NEW t \in 0 .. MaxClock
      PROVE  [u EXCEPT !.state = e, !.busy = FALSE, !.endedAt = t] \in Run
  BY DEF Run, Endings
<1>2. ASSUME NEW u \in Run, u.left > 1
      PROVE  [u EXCEPT !.left = @ - 1, !.busy = FALSE] \in Run
  <2>1. u.left - 1 \in 0 .. MaxSteps
    BY <1>2, CraftOperationsAssumption DEF Run
  <2> QED
    BY <2>1 DEF Run
<1>3. ASSUME NEW u \in Run
      PROVE  [u EXCEPT !.busy = TRUE] \in Run /\ [u EXCEPT !.pauseRequested = TRUE] \in Run
  BY DEF Run
<1>4. ASSUME NEW q \in Request, NEW e \in Endings
      PROVE  [q EXCEPT !.state = "answered", !.reply = e] \in Request
  BY DEF Request
<1>5. ASSUME NEW e \in Record, NEW t \in 0 .. MaxClock
      PROVE  [e EXCEPT !.completedAt = t] \in Record
  BY DEF Record
<1> QED
  BY <1>1, <1>2, <1>3, <1>4, <1>5

\* Initially nothing runs, nothing is recorded and nobody waits.
LEMMA InitIInv == Init => IInv
<1> SUFFICES ASSUME Init PROVE IInv
  OBVIOUS
<1> USE CraftOperationsAssumption DEF Init, RunIds
<1>1. TypeOK
  BY DEF TypeOK, Run, Request, Kinds, Endings
<1>2. OneRunPerAccount /\ RunningRecordKept
  BY DEF OneRunPerAccount, RunningRecordKept, Running
<1>3. ReplySound /\ RecordsSound /\ FreshRuns
  BY DEF ReplySound, RecordsSound, FreshRuns, Running
<1> QED
  BY <1>1, <1>2, <1>3 DEF IInv


\* What pruning the records in a reachable state leaves: no new record, none
\* changed, and none of a running execution lost.
LEMMA PrunedRecords ==
    ASSUME IInv, NEW kept, kept = Prune(craftOperationRecords, now)
    PROVE  /\ DOMAIN kept \subseteq DOMAIN craftOperationRecords
           /\ \A o \in DOMAIN kept : kept[o] = craftOperationRecords[o]
           /\ \A r \in RunIds : Running(r) => runs[r].operation \in DOMAIN kept
<1>1. \A r \in RunIds : Running(r) =>
          /\ runs[r].operation \in DOMAIN craftOperationRecords
          /\ craftOperationRecords[runs[r].operation].completedAt = 0
  <2> TAKE r \in RunIds
  <2> HAVE Running(r)
  <2>1. /\ runs[r].operation \in DOMAIN craftOperationRecords
        /\ craftOperationRecords[runs[r].operation] =
               [username |-> runs[r].username, completedAt |-> 0, run |-> r]
    BY DEF IInv, RunningRecordKept
  <2> QED
    BY <2>1
<1>2. /\ DOMAIN kept \subseteq DOMAIN craftOperationRecords
      /\ \A o \in DOMAIN kept : kept[o] = craftOperationRecords[o]
      /\ \A o \in DOMAIN craftOperationRecords :
            craftOperationRecords[o].completedAt = 0 => o \in DOMAIN kept
  BY PruneKeeps
<1> QED
  BY <1>1, <1>2

\* A rejected request prunes the records and changes nothing else.
LEMMA RejectIInv ==
    ASSUME IInv,
           craftOperationRecords' = Prune(craftOperationRecords, now),
           UNCHANGED <<activeCraftRuns, runs, nextRun, requests, now>>
    PROVE  IInv'
<1> DEFINE kept == Prune(craftOperationRecords, now)
<1>1. /\ DOMAIN kept \subseteq DOMAIN craftOperationRecords
      /\ \A o \in DOMAIN kept : kept[o] = craftOperationRecords[o]
      /\ \A r \in RunIds : Running(r) => runs[r].operation \in DOMAIN kept
  BY PrunedRecords
<1> HIDE DEF kept
<1>2. craftOperationRecords' = kept
  BY DEF kept
<1>3. TypeOK'
  BY <1>1, <1>2 DEF IInv, TypeOK
<1>4. OneRunPerAccount' /\ ReplySound' /\ FreshRuns'
  BY DEF IInv, OneRunPerAccount, ReplySound, FreshRuns, Running
<1>5. RunningRecordKept'
  BY <1>1, <1>2 DEF IInv, RunningRecordKept, Running
<1>6. RecordsSound'
  BY <1>1, <1>2 DEF IInv, RecordsSound, Running
<1> QED
  BY <1>3, <1>4, <1>5, <1>6 DEF IInv

LEMMA JoinIInv ==
    ASSUME IInv, NEW c \in Clients, NEW a \in Accounts, NEW o \in Operations,
           JoinExisting(c, a, o)
    PROVE  IInv'
<1> DEFINE kept == Prune(craftOperationRecords, now)
           run == kept[o].run
<1>1. /\ DOMAIN kept \subseteq DOMAIN craftOperationRecords
      /\ \A p \in DOMAIN kept : kept[p] = craftOperationRecords[p]
      /\ \A r \in RunIds : Running(r) => runs[r].operation \in DOMAIN kept
  BY PrunedRecords
<1>2. /\ o \in DOMAIN kept
      /\ kept[o].username = a
      /\ craftOperationRecords' = kept
      /\ UNCHANGED <<activeCraftRuns, runs, nextRun, now>>
  BY DEF JoinExisting, SameOwner
<1>3. /\ kept[o] \in Record
      /\ run \in RunIds
      /\ run < nextRun
      /\ runs[run].operation = o
      /\ runs[run].username = a
      /\ runs[run].state # "unused"
  BY <1>1, <1>2 DEF IInv, TypeOK, RecordsSound, FreshRuns, Record, RunIds
<1>4. \/ /\ Running(run)
         /\ requests' = [requests EXCEPT ![c] = [state |-> "waiting", username |-> a,
                             operation |-> o, run |-> run, reply |-> "none"]]
      \/ /\ ~Running(run)
         /\ requests' = [requests EXCEPT ![c] = [state |-> "answered", username |-> a,
                             operation |-> o, run |-> run, reply |-> runs[run].state]]
  BY DEF JoinExisting, Reply
<1> HIDE DEF kept, run
<1>5. TypeOK'
  <2>1. runs[run].state \in Endings \/ Running(run)
    BY <1>3 DEF IInv, TypeOK, Run, Running
  <2>2. run \in 0 .. MaxRuns
    BY <1>3, CraftOperationsAssumption DEF RunIds
  <2>3. requests' \in [Clients -> Request]
    BY <1>4, <2>1, <2>2 DEF IInv, TypeOK, Request
  <2> QED
    BY <1>1, <1>2, <2>3 DEF IInv, TypeOK
<1>6. OneRunPerAccount'
  BY <1>2 DEF IInv, OneRunPerAccount, Running
<1>7. RunningRecordKept'
  BY <1>1, <1>2 DEF IInv, RunningRecordKept, Running
<1>8. RecordsSound'
  BY <1>1, <1>2 DEF IInv, RecordsSound, Running
<1>9. ReplySound' /\ FreshRuns'
  BY <1>2, <1>3, <1>4 DEF IInv, TypeOK, ReplySound, FreshRuns, Running
<1> QED
  BY <1>5, <1>6, <1>7, <1>8, <1>9 DEF IInv

LEMMA StartIInv ==
    ASSUME IInv, NEW c \in Clients, NEW a \in Accounts, NEW o \in Operations,
           NEW kind \in Kinds, NEW steps \in 1 .. MaxSteps,
           StartRun(c, a, o, kind, steps)
    PROVE  IInv'
<1> USE CraftOperationsAssumption DEF RunIds
<1> DEFINE kept == Prune(craftOperationRecords, now)
           new == [username |-> a, operation |-> o, kind |-> kind, left |-> steps,
                   busy |-> FALSE, pauseRequested |-> FALSE, state |-> "running",
                   endedAt |-> 0]
<1>1. /\ DOMAIN kept \subseteq DOMAIN craftOperationRecords
      /\ \A p \in DOMAIN kept : kept[p] = craftOperationRecords[p]
      /\ \A r \in RunIds : Running(r) => runs[r].operation \in DOMAIN kept
  BY PrunedRecords
<1>2. /\ nextRun \in RunIds
      /\ o \notin DOMAIN kept
      /\ activeCraftRuns[a] = 0
      /\ activeCraftRuns' = [activeCraftRuns EXCEPT ![a] = nextRun]
      /\ runs' = [runs EXCEPT ![nextRun] = new]
      /\ craftOperationRecords' =
             [p \in DOMAIN kept \cup {o} |->
                 IF p = o THEN [username |-> a, completedAt |-> 0, run |-> nextRun]
                          ELSE kept[p]]
      /\ nextRun' = nextRun + 1
      /\ requests' = [requests EXCEPT ![c] = [state |-> "waiting", username |-> a,
                          operation |-> o, run |-> nextRun, reply |-> "none"]]
      /\ now' = now
  BY DEF StartRun, Registrable, Reply, IInv, TypeOK
<1> HIDE DEF kept
<1>3. /\ runs'[nextRun] = new
      /\ \A r \in RunIds : r # nextRun => runs'[r] = runs[r]
      /\ runs[nextRun].state = "unused"
  BY <1>2 DEF IInv, TypeOK, FreshRuns
<1>4. TypeOK'
  <2>1. new \in Run
    BY DEF Run, Kinds
  <2>2. /\ runs' \in [RunIds -> Run]
        /\ activeCraftRuns' \in [Accounts -> 0 .. MaxRuns]
        /\ nextRun' \in 1 .. MaxRuns + 1
        /\ now' \in 1 .. MaxClock
    BY <1>2, <2>1 DEF IInv, TypeOK
  <2>3. requests' \in [Clients -> Request]
    BY <1>2 DEF IInv, TypeOK, Request
  <2>4. /\ DOMAIN craftOperationRecords' \subseteq Operations
        /\ \A p \in DOMAIN craftOperationRecords' : craftOperationRecords'[p] \in Record
    BY <1>1, <1>2 DEF IInv, TypeOK, Record
  <2> QED
    BY <2>2, <2>3, <2>4 DEF TypeOK
<1>5. OneRunPerAccount'
  <2>1. ASSUME NEW r \in RunIds, runs'[r].state = "running"
        PROVE  activeCraftRuns'[runs'[r].username] = r
    <3>1. CASE r = nextRun
      BY <3>1, <1>2, <1>3 DEF IInv, TypeOK
    <3>2. CASE r # nextRun
      BY SMTT(30), <3>2, <2>1, <1>2, <1>3 DEF IInv, TypeOK, OneRunPerAccount, Run, Running
    <3> QED
      BY <3>1, <3>2
  <2>2. ASSUME NEW b \in Accounts, activeCraftRuns'[b] # 0
        PROVE  runs'[activeCraftRuns'[b]].state = "running" /\ runs'[activeCraftRuns'[b]].username = b
    <3>1. CASE b = a
      BY <3>1, <1>2, <1>3 DEF IInv, TypeOK, Running
    <3>2. CASE b # a
      <4>1. activeCraftRuns'[b] = activeCraftRuns[b] /\ activeCraftRuns[b] \in RunIds
        BY <3>2, <2>2, <1>2 DEF IInv, TypeOK
      <4>2. Running(activeCraftRuns[b]) /\ runs[activeCraftRuns[b]].username = b
        BY <4>1, <2>2 DEF IInv, OneRunPerAccount
      <4> QED
        BY <4>1, <4>2, <1>3 DEF Running
    <3> QED
      BY <3>1, <3>2
  <2> QED
    BY <2>1, <2>2 DEF OneRunPerAccount, Running
<1>6. RunningRecordKept'
  <2> SUFFICES ASSUME NEW r \in RunIds, runs'[r].state = "running"
               PROVE  /\ runs'[r].operation \in DOMAIN craftOperationRecords'
                      /\ craftOperationRecords'[runs'[r].operation] =
                            [username |-> runs'[r].username, completedAt |-> 0, run |-> r]
    BY DEF RunningRecordKept, Running
  <2>1. CASE r = nextRun
    BY <2>1, <1>2, <1>3
  <2>2. CASE r # nextRun
    <3>1. /\ runs[r].operation \in DOMAIN kept
          /\ kept[runs[r].operation] =
                [username |-> runs[r].username, completedAt |-> 0, run |-> r]
      BY <2>2, <1>1, <1>3 DEF IInv, RunningRecordKept, Running
    <3> QED
      BY <2>2, <3>1, <1>2, <1>3
  <2> QED
    BY <2>1, <2>2
<1>7. RecordsSound'
  <2> SUFFICES ASSUME NEW p \in DOMAIN craftOperationRecords'
               PROVE  LET e == craftOperationRecords'[p] IN
                      /\ e.run < nextRun'
                      /\ runs'[e.run].operation = p
                      /\ runs'[e.run].username = e.username
                      /\ e.completedAt = 0 <=> runs'[e.run].state = "running"
    BY DEF RecordsSound, Running
  <2>1. CASE p = o
    BY <2>1, <1>2, <1>3 DEF IInv, TypeOK
  <2>2. CASE p # o
    <3>1. /\ craftOperationRecords'[p] = craftOperationRecords[p]
          /\ craftOperationRecords[p] \in Record
          /\ craftOperationRecords[p].run < nextRun
          /\ craftOperationRecords[p].run \in RunIds
          /\ runs[craftOperationRecords[p].run].operation = p
          /\ runs[craftOperationRecords[p].run].username = craftOperationRecords[p].username
          /\ craftOperationRecords[p].completedAt = 0 <=> Running(craftOperationRecords[p].run)
      BY <2>2, <1>1, <1>2 DEF IInv, TypeOK, RecordsSound, Record
    <3>2. craftOperationRecords[p].run # nextRun
      BY <3>1 DEF IInv, TypeOK
    <3> QED
      BY <3>1, <3>2, <1>2, <1>3 DEF IInv, TypeOK, Running
  <2> QED
    BY <2>1, <2>2
<1>8. ReplySound'
  <2> SUFFICES ASSUME NEW d \in Clients, requests'[d].run # 0
               PROVE  LET q == requests'[d] IN
                      /\ runs'[q.run].username = q.username
                      /\ runs'[q.run].operation = q.operation
                      /\ q.state = "waiting" => runs'[q.run].state = "running"
                      /\ q.state = "answered" => q.reply = runs'[q.run].state
    BY DEF ReplySound, Running
  <2>1. CASE d = c
    BY <2>1, <1>2, <1>3 DEF IInv, TypeOK
  <2>2. CASE d # c
    <3>1. /\ requests'[d] = requests[d]
          /\ requests[d].run \in RunIds
          /\ requests[d].run # nextRun
      BY <2>2, <1>2 DEF IInv, TypeOK, Request, FreshRuns
    <3>2. runs'[requests[d].run] = runs[requests[d].run]
      BY <3>1, <1>3
    <3> QED
      BY <3>1, <3>2, <1>3 DEF IInv, ReplySound, Running
  <2> QED
    BY <2>1, <2>2
<1>9. FreshRuns'
  BY <1>2, <1>3 DEF IInv, TypeOK, FreshRuns, Request
<1> QED
  BY <1>4, <1>5, <1>6, <1>7, <1>8, <1>9 DEF IInv

\* Steps that neither start nor end an execution: its progress, a pause
\* request, the clock, and a step of somebody else.
LEMMA ProgressIInv ==
    ASSUME IInv,
           runs' \in [RunIds -> Run],
           \A r \in RunIds : /\ runs'[r].state = runs[r].state
                             /\ runs'[r].username = runs[r].username
                             /\ runs'[r].operation = runs[r].operation,
           now' \in 1 .. MaxClock,
           UNCHANGED <<craftOperationRecords, activeCraftRuns, nextRun, requests>>
    PROVE  IInv'
<1> USE CraftOperationsAssumption DEF RunIds
<1>1. TypeOK'
  BY DEF IInv, TypeOK
<1>2. OneRunPerAccount'
  BY SMTT(30) DEF IInv, TypeOK, OneRunPerAccount, Running
<1>3. RunningRecordKept'
  BY DEF IInv, RunningRecordKept, Running
<1>4. ReplySound'
  <2> SUFFICES ASSUME NEW c \in Clients, requests[c].run # 0
               PROVE  LET q == requests[c] IN
                      /\ runs'[q.run].username = q.username
                      /\ runs'[q.run].operation = q.operation
                      /\ q.state = "waiting" => runs'[q.run].state = "running"
                      /\ q.state = "answered" => q.reply = runs'[q.run].state
    BY DEF ReplySound, Running
  <2>1. requests[c].run \in RunIds
    BY DEF IInv, TypeOK, Request
  <2> QED
    BY <2>1 DEF IInv, ReplySound, Running
<1>5. RecordsSound'
  <2>1. \A o \in DOMAIN craftOperationRecords : craftOperationRecords[o].run \in RunIds
    BY DEF IInv, TypeOK, Record
  <2> QED
    BY <2>1 DEF IInv, RecordsSound, Running
<1>6. FreshRuns'
  BY DEF IInv, FreshRuns
<1> QED
  BY <1>1, <1>2, <1>3, <1>4, <1>5, <1>6 DEF IInv

\* A running execution is an account's.
LEMMA RunningUsername ==
    ASSUME IInv, NEW r \in RunIds, Running(r)
    PROVE  runs[r].username \in Accounts
<1>1. /\ runs[r].operation \in DOMAIN craftOperationRecords
      /\ craftOperationRecords[runs[r].operation] =
             [username |-> runs[r].username, completedAt |-> 0, run |-> r]
  BY DEF IInv, RunningRecordKept
<1>2. craftOperationRecords[runs[r].operation].username \in Accounts
  BY <1>1 DEF IInv, TypeOK, Record
<1> QED
  BY <1>1, <1>2

\* The finally block: the execution ends, its record is completed, its
\* controller released and every request that waits for it answered.
LEMMA EndIInv ==
    ASSUME IInv, NEW r \in RunIds, Running(r), NEW ending \in Endings,
           EndRun(r, ending), UNCHANGED <<nextRun, now>>
    PROVE  IInv'
<1> USE CraftOperationsAssumption DEF RunIds
<1> DEFINE completed == Complete(craftOperationRecords, r)
           kept == Prune(completed, now)
<1>1. /\ DOMAIN completed = DOMAIN craftOperationRecords
      /\ \A o \in DOMAIN completed : completed[o] =
            IF craftOperationRecords[o].run = r
            THEN [craftOperationRecords[o] EXCEPT !.completedAt = now]
            ELSE craftOperationRecords[o]
  BY DEF Complete
<1>2. /\ DOMAIN kept \subseteq DOMAIN completed
      /\ \A o \in DOMAIN kept : kept[o] = completed[o]
      /\ \A o \in DOMAIN completed : completed[o].completedAt = 0 => o \in DOMAIN kept
  <2> HIDE DEF completed
  <2> QED
    BY PruneKeeps
<1>3. /\ craftOperationRecords' = kept
      /\ runs' = [runs EXCEPT ![r].state = ending, ![r].busy = FALSE, ![r].endedAt = now]
      /\ activeCraftRuns' =
            [activeCraftRuns EXCEPT ![runs[r].username] = IF @ = r THEN 0 ELSE @]
      /\ requests' = [c \in Clients |->
                         IF requests[c].state = "waiting" /\ requests[c].run = r
                         THEN [requests[c] EXCEPT !.state = "answered", !.reply = ending]
                         ELSE requests[c]]
  BY DEF EndRun, Release, AnswerWaiting
<1> HIDE DEF kept, completed
<1>4. /\ now \in 1 .. MaxClock
      /\ runs'[r].state = ending
      /\ runs'[r].username = runs[r].username
      /\ runs'[r].operation = runs[r].operation
      /\ \A s \in RunIds : s # r => runs'[s] = runs[s]
      /\ ending \notin {"unused", "running"}
      /\ runs[r].username \in Accounts
      /\ activeCraftRuns[runs[r].username] = r
  <2>1. activeCraftRuns[runs[r].username] = r
    BY DEF IInv, OneRunPerAccount
  <2>2. runs[r].username \in Accounts
    BY RunningUsername
  <2> DEFINE u == [runs[r] EXCEPT !.state = ending, !.busy = FALSE, !.endedAt = now]
  <2>3. runs \in [RunIds -> Run] /\ now \in 1 .. MaxClock
    BY DEF IInv, TypeOK
  <2>4. runs' = [runs EXCEPT ![r] = u]
    BY <1>3, <2>3
  <2>5. u.state = ending /\ u.username = runs[r].username /\ u.operation = runs[r].operation
    BY <2>3 DEF Run
  <2> HIDE DEF u
  <2> QED
    BY <2>1, <2>2, <2>3, <2>4, <2>5 DEF Endings
<1>5. TypeOK'
  <2>0. now \in 0 .. MaxClock
    BY <1>4
  <2>1. runs' \in [RunIds -> Run]
    <3>1. runs' = [runs EXCEPT ![r] = [runs[r] EXCEPT !.state = ending, !.busy = FALSE,
                                                      !.endedAt = now]]
      BY <1>3 DEF IInv, TypeOK
    <3>2. runs[r] \in Run
      BY DEF IInv, TypeOK
    <3>3. [runs[r] EXCEPT !.state = ending, !.busy = FALSE, !.endedAt = now] \in Run
      BY <3>2, <2>0, UpdatedTypes
    <3> QED
      BY <3>1, <3>3 DEF IInv, TypeOK
  <2>2. activeCraftRuns' \in [Accounts -> 0 .. MaxRuns]
    <3>1. 0 \in 0 .. MaxRuns /\ activeCraftRuns \in [Accounts -> 0 .. MaxRuns]
      BY DEF IInv, TypeOK
    <3> QED
      BY <3>1, <1>3, <1>4
  <2>3. requests' \in [Clients -> Request]
    <3>1. ASSUME NEW c \in Clients PROVE requests[c] \in Request
      BY DEF IInv, TypeOK
    <3>2. ASSUME NEW c \in Clients
          PROVE  [requests[c] EXCEPT !.state = "answered", !.reply = ending] \in Request
      BY <3>1, UpdatedTypes
    <3> QED
      BY <3>1, <3>2, <1>3
  <2>4. /\ DOMAIN craftOperationRecords' \subseteq Operations
        /\ \A o \in DOMAIN craftOperationRecords' : craftOperationRecords'[o] \in Record
    <3>1. ASSUME NEW o \in DOMAIN craftOperationRecords
          PROVE  /\ o \in Operations
                 /\ craftOperationRecords[o] \in Record
                 /\ [craftOperationRecords[o] EXCEPT !.completedAt = now] \in Record
      BY <2>0, UpdatedTypes DEF IInv, TypeOK
    <3>2. \A o \in DOMAIN completed : o \in Operations /\ completed[o] \in Record
      BY <3>1, <1>1
    <3> QED
      BY <3>2, <1>2, <1>3
  <2> QED
    BY <2>1, <2>2, <2>3, <2>4 DEF IInv, TypeOK
<1>6. OneRunPerAccount'
  <2>1. ASSUME NEW s \in RunIds, runs'[s].state = "running"
        PROVE  activeCraftRuns'[runs'[s].username] = s
    <3>1. s # r /\ runs'[s] = runs[s]
      BY <2>1, <1>4
    <3>2. activeCraftRuns[runs[s].username] = s
      BY <3>1, <2>1 DEF IInv, OneRunPerAccount, Running
    <3>3. runs[s].username # runs[r].username
      BY <3>1, <3>2, <1>4
    <3>4. runs[s].username \in Accounts
      <4>1. Running(s)
        BY <3>1, <2>1 DEF Running
      <4> QED
        BY <4>1, RunningUsername
    <3> QED
      BY <3>1, <3>2, <3>3, <3>4, <1>3 DEF IInv, TypeOK
  <2>2. ASSUME NEW b \in Accounts, activeCraftRuns'[b] # 0
        PROVE  /\ runs'[activeCraftRuns'[b]].state = "running"
               /\ runs'[activeCraftRuns'[b]].username = b
    <3>1. b # runs[r].username /\ activeCraftRuns'[b] = activeCraftRuns[b]
      BY <2>2, <1>3, <1>4 DEF IInv, TypeOK
    <3>2. /\ activeCraftRuns[b] \in RunIds
          /\ runs[activeCraftRuns[b]].state = "running"
          /\ runs[activeCraftRuns[b]].username = b
      BY <3>1, <2>2 DEF IInv, TypeOK, OneRunPerAccount, Running
    <3> QED
      BY <3>1, <3>2, <1>4
  <2> QED
    BY <2>1, <2>2 DEF OneRunPerAccount, Running
<1>7. RunningRecordKept'
  <2> SUFFICES ASSUME NEW s \in RunIds, runs'[s].state = "running"
               PROVE  /\ runs'[s].operation \in DOMAIN craftOperationRecords'
                      /\ craftOperationRecords'[runs'[s].operation] =
                            [username |-> runs'[s].username, completedAt |-> 0, run |-> s]
    BY DEF RunningRecordKept, Running
  <2>1. s # r /\ runs'[s] = runs[s]
    BY <1>4
  <2>2. /\ runs[s].operation \in DOMAIN craftOperationRecords
        /\ craftOperationRecords[runs[s].operation] =
              [username |-> runs[s].username, completedAt |-> 0, run |-> s]
    BY <2>1 DEF IInv, RunningRecordKept, Running
  <2>3. completed[runs[s].operation] = craftOperationRecords[runs[s].operation]
    BY <2>1, <2>2, <1>1
  <2>4. /\ runs[s].operation \in DOMAIN kept
        /\ kept[runs[s].operation] = craftOperationRecords[runs[s].operation]
    <3>1. craftOperationRecords[runs[s].operation].completedAt = 0
      BY <2>2
    <3> QED
      BY <3>1, <2>2, <2>3, <1>1, <1>2
  <2> QED
    BY <2>1, <2>2, <2>4, <1>3
<1>8. RecordsSound'
  <2> SUFFICES ASSUME NEW p \in DOMAIN craftOperationRecords'
               PROVE  LET e == craftOperationRecords'[p] IN
                      /\ e.run < nextRun'
                      /\ runs'[e.run].operation = p
                      /\ runs'[e.run].username = e.username
                      /\ e.completedAt = 0 <=> runs'[e.run].state = "running"
    BY DEF RecordsSound, Running
  <2> DEFINE old == craftOperationRecords[p]
  <2>1. /\ old \in Record
        /\ old.run \in RunIds
        /\ old.run < nextRun
        /\ runs[old.run].operation = p
        /\ runs[old.run].username = old.username
        /\ old.completedAt = 0 <=> runs[old.run].state = "running"
    BY <1>1, <1>2, <1>3 DEF IInv, TypeOK, RecordsSound, Record, Running
  <2>2. craftOperationRecords'[p] =
            IF old.run = r THEN [old EXCEPT !.completedAt = now] ELSE old
    BY <1>1, <1>2, <1>3
  <2> HIDE DEF old
  <2>3. CASE old.run = r
    BY <2>1, <2>2, <2>3, <1>4 DEF Record
  <2>4. CASE old.run # r
    BY <2>1, <2>2, <2>4, <1>4
  <2> QED
    BY <2>3, <2>4
<1>9. ReplySound'
  <2> SUFFICES ASSUME NEW d \in Clients, requests'[d].run # 0
               PROVE  LET q == requests'[d] IN
                      /\ runs'[q.run].username = q.username
                      /\ runs'[q.run].operation = q.operation
                      /\ q.state = "waiting" => runs'[q.run].state = "running"
                      /\ q.state = "answered" => q.reply = runs'[q.run].state
    BY DEF ReplySound, Running
  <2> DEFINE old == requests[d]
  <2>1. old \in Request
    BY DEF IInv, TypeOK
  <2>2. requests'[d] = IF old.state = "waiting" /\ old.run = r
                       THEN [old EXCEPT !.state = "answered", !.reply = ending]
                       ELSE old
    BY <1>3
  <2>3. /\ old.run \in RunIds
        /\ runs[old.run].username = old.username
        /\ runs[old.run].operation = old.operation
        /\ old.state = "waiting" => runs[old.run].state = "running"
        /\ old.state = "answered" => old.reply = runs[old.run].state
    BY <2>1, <2>2 DEF IInv, ReplySound, Request, Running
  <2> HIDE DEF old
  <2>4. CASE old.run = r
    <3>1. old.state # "answered"
      BY <2>1, <2>3, <2>4 DEF Request, Endings, Running
    <3> QED
      BY <3>1, <2>1, <2>2, <2>3, <2>4, <1>4 DEF Request
  <2>5. CASE old.run # r
    BY <2>2, <2>3, <2>5, <1>4
  <2> QED
    BY <2>4, <2>5
<1>10. FreshRuns'
  <2>1. \A c \in Clients : requests'[c].run = requests[c].run
    BY <1>3 DEF IInv, TypeOK, Request
  <2> QED
    BY <2>1, <1>4 DEF IInv, FreshRuns, Running
<1> QED
  BY <1>5, <1>6, <1>7, <1>8, <1>9, <1>10 DEF IInv

\* Every step preserves the invariant.
LEMMA NextIInv == IInv /\ [Next]_vars => IInv'
<1> SUFFICES ASSUME IInv, [Next]_vars PROVE IInv'
  OBVIOUS
<1> USE CraftOperationsAssumption DEF RunIds
<1>1. ASSUME NEW c \in Clients, NEW a \in Accounts, NEW o \in Operations, Submit(c, a, o)
      PROVE  IInv'
  <2>1. CASE RejectConflict(c, a, o)
    BY <2>1, RejectIInv DEF RejectConflict
  <2>2. CASE JoinExisting(c, a, o)
    BY <2>2, JoinIInv
  <2>3. CASE RejectBusy(c, a, o)
    BY <2>3, RejectIInv DEF RejectBusy
  <2>4. CASE \E kind \in Kinds, steps \in 1 .. MaxSteps : StartRun(c, a, o, kind, steps)
    BY <2>4, StartIInv
  <2> QED
    BY <1>1, <2>1, <2>2, <2>3, <2>4 DEF Submit
<1>2. ASSUME NEW r \in RunIds, Execute(r)
      PROVE  IInv'
  <2>1. CASE BeginStep(r)
    <3> DEFINE u == [runs[r] EXCEPT !.busy = TRUE]
    <3>1. runs \in [RunIds -> Run] /\ now \in 1 .. MaxClock
      BY DEF IInv, TypeOK
    <3>2. runs' = [runs EXCEPT ![r] = u]
      BY <2>1, <3>1 DEF BeginStep
    <3>3. u \in Run
      BY <3>1, UpdatedTypes
    <3>4. /\ u.state = runs[r].state /\ u.username = runs[r].username
          /\ u.operation = runs[r].operation
      BY <3>1 DEF Run
    <3> HIDE DEF u
    <3>5. /\ runs' \in [RunIds -> Run]
          /\ \A q \in RunIds : /\ runs'[q].state = runs[q].state
                               /\ runs'[q].username = runs[q].username
                               /\ runs'[q].operation = runs[q].operation
      BY <3>1, <3>2, <3>3, <3>4
    <3> QED
      BY <2>1, <3>1, <3>5, ProgressIInv DEF BeginStep
  <2>2. CASE FinishStep(r)
    <3>1. CASE runs[r].left > 1
      <4>1. runs' = [runs EXCEPT ![r].left = @ - 1, ![r].busy = FALSE]
        BY <2>2, <3>1 DEF FinishStep
      <4>2. runs' = [runs EXCEPT ![r] = [runs[r] EXCEPT !.left = @ - 1, !.busy = FALSE]]
        BY <4>1 DEF IInv, TypeOK
      <4>3. runs' \in [RunIds -> Run]
        BY <3>1, <4>2, UpdatedTypes DEF IInv, TypeOK
      <4> QED
        BY <2>2, <3>1, <4>1, <4>3, ProgressIInv DEF FinishStep, IInv, TypeOK, Run
    <3>2. CASE ~(runs[r].left > 1)
      BY <2>2, <3>2, EndIInv DEF FinishStep, Endings
    <3> QED
      BY <3>1, <3>2
  <2>3. CASE FailRun(r)
    BY <2>3, EndIInv DEF FailRun, Endings
  <2>4. CASE PauseRun(r)
    BY <2>4, EndIInv DEF PauseRun, Endings
  <2> QED
    BY <1>2, <2>1, <2>2, <2>3, <2>4 DEF Execute
<1>3. ASSUME NEW a \in Accounts, RequestPause(a)
      PROVE  IInv'
  <2> DEFINE r == activeCraftRuns[a]
  <2>1. r \in RunIds /\ runs[r] \in Run
    BY <1>3 DEF RequestPause, IInv, TypeOK
  <2>2. runs' = [runs EXCEPT ![r] = [runs[r] EXCEPT !.pauseRequested = TRUE]]
    BY <1>3, <2>1 DEF RequestPause, IInv, TypeOK
  <2> HIDE DEF r
  <2>3. runs' \in [RunIds -> Run]
    BY <2>1, <2>2, UpdatedTypes DEF IInv, TypeOK
  <2>4. \A s \in RunIds : /\ runs'[s].state = runs[s].state
                          /\ runs'[s].username = runs[s].username
                          /\ runs'[s].operation = runs[s].operation
    BY <2>1, <2>2 DEF IInv, TypeOK, Run
  <2> QED
    BY <1>3, <2>3, <2>4, ProgressIInv DEF RequestPause, IInv, TypeOK
<1>4. CASE Tick
  BY <1>4, ProgressIInv DEF Tick, IInv, TypeOK
<1>5. CASE UNCHANGED vars
  BY <1>5, ProgressIInv DEF vars, IInv, TypeOK
<1> QED
  BY <1>1, <1>2, <1>3, <1>4, <1>5 DEF Next

-----------------------------------------------------------------------------
\* The inductive invariant holds in every reachable state.
THEOREM Inductive == Spec => []IInv
<1>1. Init => IInv
  BY InitIInv
<1>2. IInv /\ [Next]_vars => IInv'
  BY NextIInv
<1> QED
  BY <1>1, <1>2, PTL DEF Spec

\* Every variable keeps its type (the maps of uiServer.js hold what their
\* readers expect).
THEOREM TypeCorrect == Spec => []TypeOK
<1>1. IInv => TypeOK
  BY DEF IInv
<1> QED
  BY <1>1, Inductive, PTL

\* An account never has two executions, and pause reaches the one it has
\* (registerActiveCraftRun, releaseActiveCraftRun).
THEOREM OneRun == Spec => []OneRunPerAccount
<1>1. IInv => OneRunPerAccount
  BY DEF IInv
<1> QED
  BY <1>1, Inductive, PTL

\* The record of a running execution is never pruned, so a repeat joins it
\* (pruneCraftOperationRecords, runCraftOperation).
THEOREM RunningIsRecorded == Spec => []RunningRecordKept
<1>1. IInv => RunningRecordKept
  BY DEF IInv
<1> QED
  BY <1>1, Inductive, PTL

\* Whoever joined or replayed an execution is told how it ended
\* (runCraftOperation: return existing.promise).
THEOREM RepliesAreSound == Spec => []ReplySound
<1>1. IInv => ReplySound
  BY DEF IInv
<1> QED
  BY <1>1, Inductive, PTL

-----------------------------------------------------------------------------
(* When an operation may be executed again.  The definitions take the runs   *)
(* and records as parameters: the end of a run prunes the records it has     *)
(* just completed.                                                           *)

OthersOf(rs, q) ==
    {rs[p].operation : p \in {p \in RunIds :
        /\ rs[p].state # "unused" /\ rs[p].operation # rs[q].operation
        /\ rs[p].state = "running" \/ rs[p].endedAt >= rs[q].endedAt}}

\* The record of this execution may be gone.
Forgettable(rs, t, q) ==
    \/ t - rs[q].endedAt > RecordTtl
    \/ Cardinality(OthersOf(rs, q)) >= RecordLimit

Recorded(rs, recs, q) ==
    rs[q].operation \in DOMAIN recs /\ recs[rs[q].operation].run = q

\* Every execution that has ended has a record, unless it may be gone.
Remembered(rs, recs, t) ==
    \A q \in RunIds : rs[q].state \in Endings => Recorded(rs, recs, q) \/ Forgettable(rs, t, q)

\* Records name their executions, and when these ended.
Naming(rs, recs) ==
    \A o \in DOMAIN recs :
        /\ recs[o].run \in RunIds /\ recs[o].completedAt \in Nat
        /\ rs[recs[o].run].operation = o
        /\ rs[recs[o].run].state # "unused"
        /\ recs[o].completedAt = 0 <=> rs[recs[o].run].state = "running"
        /\ recs[o].completedAt # 0 => rs[recs[o].run].endedAt = recs[o].completedAt

EndedInPast(rs, t) == \A q \in RunIds : rs[q].state \in Endings => rs[q].endedAt <= t

\* An execution gets its operation when it starts.
UnusedNameless(rs) == \A q \in RunIds : rs[q].state = "unused" => rs[q].operation = "none"

HistoryInv ==
    /\ UnusedNameless(runs)
    /\ Naming(runs, craftOperationRecords)
    /\ EndedInPast(runs, now)
    /\ Remembered(runs, craftOperationRecords, now)

\* There are as many operations with an execution as there are executions, at most.
LEMMA OthersFinite ==
    ASSUME NEW rs, NEW q
    PROVE  IsFiniteSet(OthersOf(rs, q)) /\ Cardinality(OthersOf(rs, q)) \in Nat
<1> DEFINE ps == {p \in RunIds :
                    /\ rs[p].state # "unused" /\ rs[p].operation # rs[q].operation
                    /\ rs[p].state = "running" \/ rs[p].endedAt >= rs[q].endedAt}
           f == [p \in ps |-> rs[p].operation]
<1>1. IsFiniteSet(RunIds)
  BY FS_Interval, CraftOperationsAssumption DEF RunIds
<1>2. IsFiniteSet(ps)
  BY <1>1, FS_Subset
<1>3. OthersOf(rs, q) = {f[p] : p \in ps}
  BY DEF OthersOf
<1>4. f \in Surjection(ps, OthersOf(rs, q))
  BY <1>3 DEF Surjection
<1> HIDE DEF ps, f
<1> QED BY <1>2, <1>4, FS_Surjection, FS_CardinalityType

\* What makes an execution forgettable lasts.
LEMMA ForgettableLasts ==
    ASSUME NEW rs, NEW rt, NEW t \in Nat, NEW u \in Nat, t <= u, NEW q,
           rs[q].endedAt \in Nat, rt[q].endedAt = rs[q].endedAt,
           OthersOf(rs, q) \subseteq OthersOf(rt, q), Forgettable(rs, t, q)
    PROVE  Forgettable(rt, u, q)
<1>1. Cardinality(OthersOf(rs, q)) <= Cardinality(OthersOf(rt, q))
  BY OthersFinite, FS_Subset
<1>2. RecordTtl \in Nat /\ RecordLimit \in Nat
  BY CraftOperationsAssumption
<1> QED BY <1>1, <1>2, OthersFinite DEF Forgettable

\* pruneCraftOperationRecords removes the record of an execution only when it may go:
\* the records that stay for longer are of other operations.
LEMMA PruneRemembers ==
    ASSUME NEW rs \in [RunIds -> Run], NEW recs, NEW t \in Nat,
           Naming(rs, recs), Remembered(rs, recs, t)
    PROVE  Remembered(rs, Prune(recs, t), t)
<1> DEFINE fresh == Without(recs, Expired(recs, t))
<1>1. /\ DOMAIN fresh = DOMAIN recs \ Expired(recs, t)
      /\ \A o \in DOMAIN fresh : fresh[o] = recs[o]
  BY DEF Without
<1>2. /\ DOMAIN Prune(recs, t) = DOMAIN fresh \ OverLimit(fresh)
      /\ \A o \in DOMAIN Prune(recs, t) : Prune(recs, t)[o] = recs[o]
  BY <1>1 DEF Prune, Without
<1> HIDE DEF fresh
<1> SUFFICES ASSUME NEW q \in RunIds, rs[q].state \in Endings, Recorded(rs, recs, q),
                    ~Recorded(rs, Prune(recs, t), q)
             PROVE  Forgettable(rs, t, q)
  BY DEF Remembered
<1> DEFINE o == rs[q].operation
<1>3. /\ o \in DOMAIN recs /\ recs[o].run = q /\ o \notin DOMAIN Prune(recs, t)
      /\ recs[o].completedAt \in Nat \ {0} /\ rs[q].endedAt = recs[o].completedAt
  BY <1>2 DEF Recorded, Naming, Endings
<1>4. CASE o \in Expired(recs, t)
  BY <1>3, <1>4 DEF Expired, Forgettable
<1>5. CASE o \in DOMAIN fresh /\ o \in OverLimit(fresh)
  <2> DEFINE before == {p \in Completed(fresh) : CompletedBefore(fresh, p, o)}
             since == (DOMAIN fresh \ before) \ {o}
  <2>1. Cardinality(before) + RecordLimit < Cardinality(DOMAIN fresh)
    BY <1>5 DEF OverLimit
  <2>2. since \subseteq OthersOf(rs, q)
    <3> SUFFICES ASSUME NEW p \in DOMAIN fresh, p \notin before, p # o
                 PROVE  p \in OthersOf(rs, q)
      OBVIOUS
    <3>1. /\ recs[p].run \in RunIds /\ recs[p].completedAt \in Nat
          /\ rs[recs[p].run].operation = p /\ rs[recs[p].run].state # "unused"
          /\ recs[p].completedAt = 0 => rs[recs[p].run].state = "running"
          /\ recs[p].completedAt # 0 => rs[recs[p].run].endedAt = recs[p].completedAt
      BY <1>1 DEF Naming
    <3>2. recs[p].completedAt # 0 => recs[p].completedAt >= recs[o].completedAt
      BY <1>1, <1>3, <1>5, <3>1 DEF Completed, CompletedBefore
    <3> QED BY <1>3, <3>1, <3>2 DEF OthersOf
  <2>3. IsFiniteSet(DOMAIN fresh)
    <3> DEFINE f == [p \in DOMAIN fresh |-> recs[p].run]
    <3>1. f \in Injection(DOMAIN fresh, RunIds)
      <4>1. \A p \in DOMAIN fresh : f[p] \in RunIds /\ rs[f[p]].operation = p
        BY <1>1 DEF Naming
      <4>2. f \in [DOMAIN fresh -> RunIds]
        BY <4>1
      <4>3. \A a, b \in DOMAIN fresh : f[a] = f[b] => a = b
        BY <4>1
      <4> HIDE DEF f
      <4> QED BY <4>2, <4>3 DEF Injection, IsInjective
    <3>2. IsFiniteSet(RunIds)
      BY FS_Interval, CraftOperationsAssumption DEF RunIds
    <3> HIDE DEF f
    <3> QED BY <3>1, <3>2, FS_Injection
  <2>4. before \subseteq DOMAIN fresh /\ o \notin before
    BY <1>1, <1>3, <1>5 DEF Completed, CompletedBefore, RunIds
  <2> HIDE DEF before
  <2>5. IsFiniteSet(before) /\ Cardinality(before) \in Nat /\ Cardinality(DOMAIN fresh) \in Nat
    BY <2>3, <2>4, FS_Subset, FS_CardinalityType
  <2>6. /\ IsFiniteSet(DOMAIN fresh \ before)
        /\ Cardinality(DOMAIN fresh \ before) = Cardinality(DOMAIN fresh) - Cardinality(before)
    <3>1. DOMAIN fresh \cap before = before
      BY <2>4
    <3> QED BY <2>3, <3>1, FS_Difference
  <2>7. Cardinality(since) = Cardinality(DOMAIN fresh) - Cardinality(before) - 1
    BY <1>5, <2>4, <2>6, FS_RemoveElement
  <2>8. Cardinality(since) <= Cardinality(OthersOf(rs, q))
    <3> HIDE DEF since
    <3> QED BY <2>2, OthersFinite, FS_Subset
  <2>9. RecordLimit \in Nat
    BY CraftOperationsAssumption
  <2> HIDE DEF since
  <2>10. Cardinality(OthersOf(rs, q)) >= RecordLimit
    BY <2>1, <2>5, <2>7, <2>8, <2>9, OthersFinite
  <2> QED BY <2>10 DEF Forgettable
<1> QED BY <1>1, <1>2, <1>3, <1>4, <1>5

LEMMA PruneNames ==
    ASSUME NEW rs, NEW recs, NEW t, Naming(rs, recs)
    PROVE  Naming(rs, Prune(recs, t))
<1> DEFINE kept == Prune(recs, t)
<1>1. DOMAIN kept \subseteq DOMAIN recs /\ \A o \in DOMAIN kept : kept[o] = recs[o]
  BY PruneKeeps
<1> HIDE DEF kept
<1>2. Naming(rs, kept)
  BY <1>1 DEF Naming
<1> QED BY <1>2 DEF kept

\* The types these lemmas use.
LEMMA HistoryTypes ==
    ASSUME IInv
    PROVE  /\ runs \in [RunIds -> Run] /\ now \in Nat
           /\ \A q \in RunIds : runs[q].endedAt \in Nat
<1>1. \A u \in Run : u.endedAt \in Nat
  BY DEF Run
<1> QED BY <1>1 DEF IInv, TypeOK

\* A step that keeps the executions and prunes the records, or nothing.
LEMMA RunsStay ==
    ASSUME IInv, HistoryInv, UNCHANGED now,
           \A q \in RunIds : /\ runs'[q].state = runs[q].state
                             /\ runs'[q].operation = runs[q].operation
                             /\ runs'[q].endedAt = runs[q].endedAt,
           craftOperationRecords' \in {craftOperationRecords, Prune(craftOperationRecords, now)}
    PROVE  HistoryInv'
<1> DEFINE recs == craftOperationRecords'
<1>1. Naming(runs, recs) /\ Remembered(runs, recs, now) /\ EndedInPast(runs, now)
  BY HistoryTypes, PruneNames, PruneRemembers DEF HistoryInv
<1>2. \A q \in RunIds : OthersOf(runs', q) = OthersOf(runs, q)
  BY DEF OthersOf
<1> QED BY <1>1, <1>2
       DEF HistoryInv, Naming, Remembered, EndedInPast, Recorded, Forgettable, UnusedNameless

\* A new execution, of an operation whose record is gone.
LEMMA StartHistory ==
    ASSUME IInv, HistoryInv, NEW c \in Clients, NEW a \in Accounts, NEW o \in Operations,
           NEW kind \in Kinds, NEW steps \in 1 .. MaxSteps,
           StartRun(c, a, o, kind, steps)
    PROVE  /\ HistoryInv'
           /\ \A q \in RunIds : runs[q].operation = o /\ runs[q].state \in Endings
                                => Forgettable(runs, now, q)
           /\ \A q \in RunIds : Running(q) => runs[q].operation # o
           /\ runs'[nextRun].operation = o
           /\ \A r \in RunIds \ {nextRun} : runs'[r] = runs[r]
<1> DEFINE kept == Prune(craftOperationRecords, now)
           new == [username |-> a, operation |-> o, kind |-> kind, left |-> steps,
                   busy |-> FALSE, pauseRequested |-> FALSE, state |-> "running",
                   endedAt |-> 0]
           recs == craftOperationRecords'
<1>1. /\ nextRun \in RunIds
      /\ o \notin DOMAIN kept
      /\ runs' = [runs EXCEPT ![nextRun] = new]
      /\ recs = [p \in DOMAIN kept \cup {o} |->
                   IF p = o THEN [username |-> a, completedAt |-> 0, run |-> nextRun]
                            ELSE kept[p]]
      /\ UNCHANGED now
  BY CraftOperationsAssumption DEF StartRun, IInv, TypeOK, RunIds
<1>2. /\ runs'[nextRun].state = "running" /\ runs'[nextRun].operation = o
      /\ \A r \in RunIds \ {nextRun} : runs'[r] = runs[r]
      /\ runs[nextRun].state = "unused"
  BY <1>1, CraftOperationsAssumption DEF IInv, TypeOK, FreshRuns, RunIds
<1>3. /\ recs[o].run = nextRun /\ recs[o].completedAt = 0 /\ o \in DOMAIN recs
      /\ \A p \in DOMAIN recs \ {o} : p \in DOMAIN kept /\ recs[p] = kept[p]
      /\ \A p \in DOMAIN kept : p \in DOMAIN recs /\ p # o /\ recs[p] = kept[p]
  BY <1>1
<1>4. Naming(runs, kept) /\ Remembered(runs, kept, now) /\ EndedInPast(runs, now)
  BY HistoryTypes, PruneNames, PruneRemembers DEF HistoryInv
<1>5. \A r \in RunIds : Running(r) => runs[r].operation \in DOMAIN kept
  BY PrunedRecords
<1> HIDE DEF kept, new, recs
<1>6. ASSUME NEW q \in RunIds, runs[q].state \in Endings
      PROVE  q # nextRun /\ runs'[q] = runs[q] /\ OthersOf(runs, q) \subseteq OthersOf(runs', q)
  <2>1. q # nextRun /\ runs'[q] = runs[q]
    BY <1>2, <1>6 DEF Endings
  <2>2. \A p \in RunIds : runs[p].state # "unused" => runs'[p] = runs[p]
    BY <1>2
  <2>3. \A p \in RunIds :
            /\ runs[p].state # "unused" /\ runs[p].operation # runs[q].operation
            /\ runs[p].state = "running" \/ runs[p].endedAt >= runs[q].endedAt
            => runs[p].operation \in OthersOf(runs', q)
    BY <2>1, <2>2 DEF OthersOf
  <2> QED BY <2>1, <2>3 DEF OthersOf
<1>7. Naming(runs', recs)
  <2> SUFFICES ASSUME NEW p \in DOMAIN recs
               PROVE  /\ recs[p].run \in RunIds /\ recs[p].completedAt \in Nat
                      /\ runs'[recs[p].run].operation = p
                      /\ runs'[recs[p].run].state # "unused"
                      /\ recs[p].completedAt = 0 <=> runs'[recs[p].run].state = "running"
                      /\ recs[p].completedAt # 0 => runs'[recs[p].run].endedAt = recs[p].completedAt
    BY DEF Naming
  <2>1. CASE p = o
    BY <1>1, <1>2, <1>3, <2>1
  <2>2. CASE p # o
    BY <1>2, <1>3, <1>4, <2>2 DEF Naming
  <2> QED BY <2>1, <2>2
<1>8. EndedInPast(runs', now)
  BY <1>2, <1>4 DEF EndedInPast, Endings
<1>9. Remembered(runs', recs, now)
  <2> SUFFICES ASSUME NEW q \in RunIds, runs'[q].state \in Endings
               PROVE  Recorded(runs', recs, q) \/ Forgettable(runs', now, q)
    BY DEF Remembered
  <2>1. runs[q].state \in Endings /\ runs'[q] = runs[q]
    BY <1>2 DEF Endings
  <2>2. OthersOf(runs, q) \subseteq OthersOf(runs', q)
    BY <1>6, <2>1
  <2>3. CASE Forgettable(runs, now, q)
    BY <2>1, <2>2, <2>3, HistoryTypes, ForgettableLasts
  <2>4. CASE Recorded(runs, kept, q)
    BY <1>3, <2>1, <2>4 DEF Recorded
  <2> QED BY <1>4, <2>1, <2>3, <2>4 DEF Remembered
<1>10. HistoryInv'
  <2>1. UnusedNameless(runs')
    BY <1>2 DEF HistoryInv, UnusedNameless
  <2> QED BY <1>1, <1>7, <1>8, <1>9, <2>1 DEF HistoryInv, recs
<1>11. \A q \in RunIds : runs[q].operation = o /\ runs[q].state \in Endings
                         => Forgettable(runs, now, q)
  BY <1>1, <1>4 DEF Remembered, Recorded, kept
<1>12. \A q \in RunIds : Running(q) => runs[q].operation # o
  BY <1>1, <1>5 DEF kept
<1> QED BY <1>2, <1>10, <1>11, <1>12

\* The end of an execution, which completes its record and prunes the rest.
LEMMA EndHistory ==
    ASSUME IInv, HistoryInv, NEW r \in RunIds, Running(r), NEW ending \in Endings,
           EndRun(r, ending), UNCHANGED now
    PROVE  HistoryInv'
<1> DEFINE recs == Complete(craftOperationRecords, r)
<1>1. /\ DOMAIN recs = DOMAIN craftOperationRecords
      /\ \A o \in DOMAIN recs : recs[o] =
            IF craftOperationRecords[o].run = r
            THEN [craftOperationRecords[o] EXCEPT !.completedAt = now]
            ELSE craftOperationRecords[o]
  BY DEF Complete
<1>2. \A o \in DOMAIN recs :
         /\ craftOperationRecords[o] \in Record /\ recs[o].run = craftOperationRecords[o].run
         /\ recs[o].run = r => recs[o].completedAt = now
         /\ recs[o].run # r => recs[o].completedAt = craftOperationRecords[o].completedAt
  BY <1>1 DEF IInv, TypeOK, Record
<1>3. craftOperationRecords' = Prune(recs, now)
  BY DEF EndRun
<1> HIDE DEF recs
<1>4. now \in Nat \ {0} /\ now \in 0 .. MaxClock /\ runs \in [RunIds -> Run]
  BY DEF IInv, TypeOK
<1>5. /\ runs' \in [RunIds -> Run]
      /\ runs'[r].state = ending /\ runs'[r].endedAt = now
      /\ runs'[r].operation = runs[r].operation
      /\ \A s \in RunIds \ {r} : runs'[s] = runs[s]
  <2> DEFINE u == [runs[r] EXCEPT !.state = ending, !.busy = FALSE, !.endedAt = now]
  <2>1. runs' = [runs EXCEPT ![r] = u]
    BY DEF EndRun, IInv, TypeOK
  <2>2. u \in Run
    BY <1>4, UpdatedTypes
  <2>3. u.state = ending /\ u.endedAt = now /\ u.operation = runs[r].operation
    BY <1>4 DEF Run
  <2> HIDE DEF u
  <2> QED BY <1>4, <2>1, <2>2, <2>3
<1>6. /\ Naming(runs, craftOperationRecords) /\ EndedInPast(runs, now)
      /\ Remembered(runs, craftOperationRecords, now)
  BY DEF HistoryInv
<1>7. ending \notin {"unused", "running"} /\ runs[r].state = "running"
  BY DEF Endings, Running
<1>8. Naming(runs', recs)
  <2> SUFFICES ASSUME NEW p \in DOMAIN recs
               PROVE  /\ recs[p].run \in RunIds /\ recs[p].completedAt \in Nat
                      /\ runs'[recs[p].run].operation = p
                      /\ runs'[recs[p].run].state # "unused"
                      /\ recs[p].completedAt = 0 <=> runs'[recs[p].run].state = "running"
                      /\ recs[p].completedAt # 0 => runs'[recs[p].run].endedAt = recs[p].completedAt
    BY DEF Naming
  <2> DEFINE old == craftOperationRecords[p]
  <2>1. /\ old.run \in RunIds /\ old.completedAt \in Nat
        /\ runs[old.run].operation = p
        /\ runs[old.run].state # "unused"
        /\ old.completedAt = 0 <=> runs[old.run].state = "running"
        /\ old.completedAt # 0 => runs[old.run].endedAt = old.completedAt
    BY <1>1, <1>6 DEF Naming
  <2>2. /\ recs[p].run = old.run
        /\ old.run = r => recs[p].completedAt = now
        /\ old.run # r => recs[p].completedAt = old.completedAt
    BY <1>2
  <2> HIDE DEF old
  <2>3. CASE old.run = r
    BY <1>4, <1>5, <1>7, <2>1, <2>2, <2>3
  <2>4. CASE old.run # r
    BY <1>5, <2>1, <2>2, <2>4
  <2> QED BY <2>3, <2>4
<1>9. EndedInPast(runs', now)
  BY <1>4, <1>5, <1>6 DEF EndedInPast
<1>10. Remembered(runs', recs, now)
  <2> SUFFICES ASSUME NEW q \in RunIds, runs'[q].state \in Endings
               PROVE  Recorded(runs', recs, q) \/ Forgettable(runs', now, q)
    BY DEF Remembered
  <2>1. CASE q = r
    <3>1. /\ runs[r].operation \in DOMAIN craftOperationRecords
          /\ craftOperationRecords[runs[r].operation] =
                [username |-> runs[r].username, completedAt |-> 0, run |-> r]
      BY DEF IInv, RunningRecordKept
    <3> QED BY <1>1, <1>2, <1>5, <2>1, <3>1 DEF Recorded
  <2>2. CASE q # r
    <3>1. runs[q].state \in Endings /\ runs'[q] = runs[q]
      BY <1>5, <2>2
    <3>2. CASE Recorded(runs, craftOperationRecords, q)
      BY <1>1, <1>2, <3>1, <3>2 DEF Recorded
    <3>3. CASE Forgettable(runs, now, q)
      <4>1. runs[q].endedAt <= now /\ runs[q].endedAt \in Nat
        BY <1>6, <3>1, HistoryTypes DEF EndedInPast
      <4>2. \A p \in RunIds :
                /\ runs[p].state # "unused" /\ runs[p].operation # runs[q].operation
                /\ runs[p].state = "running" \/ runs[p].endedAt >= runs[q].endedAt
                => runs[p].operation \in OthersOf(runs', q)
        <5> SUFFICES ASSUME NEW p \in RunIds, runs[p].state # "unused",
                            runs[p].operation # runs[q].operation,
                            runs[p].state = "running" \/ runs[p].endedAt >= runs[q].endedAt
                     PROVE  runs[p].operation \in OthersOf(runs', q)
          OBVIOUS
        <5>1. /\ runs'[p].state # "unused" /\ runs'[p].operation = runs[p].operation
              /\ runs'[p].state = "running" \/ runs'[p].endedAt >= runs'[q].endedAt
          <6>1. CASE p = r
            BY <1>4, <1>5, <1>7, <3>1, <4>1, <6>1
          <6>2. CASE p # r
            BY <1>5, <3>1, <6>2
          <6> QED BY <6>1, <6>2
        <5> QED BY <3>1, <5>1 DEF OthersOf
      <4>3. OthersOf(runs, q) \subseteq OthersOf(runs', q)
        BY <4>2 DEF OthersOf
      <4> QED BY <1>4, <3>1, <3>3, <4>1, <4>3, ForgettableLasts
    <3> QED BY <1>6, <3>1, <3>2, <3>3 DEF Remembered
  <2> QED BY <2>1, <2>2
<1>11. Naming(runs', Prune(recs, now)) /\ Remembered(runs', Prune(recs, now), now)
  BY <1>4, <1>5, <1>8, <1>10, PruneNames, PruneRemembers
<1>12. UnusedNameless(runs')
  BY <1>5, <1>7 DEF HistoryInv, UnusedNameless
<1> QED BY <1>3, <1>9, <1>11, <1>12 DEF HistoryInv

LEMMA InitHistory == Init => HistoryInv
BY DEF Init, HistoryInv, UnusedNameless, Naming, EndedInPast, Remembered, Endings

\* Time only adds to what may be forgotten.
LEMMA TickHistory ==
    ASSUME IInv, HistoryInv, Tick
    PROVE  HistoryInv'
<1>1. /\ now \in Nat /\ now' = now + 1 /\ now' \in Nat
      /\ UNCHANGED <<craftOperationRecords, runs>>
  BY HistoryTypes DEF Tick
<1>2. \A q \in RunIds : runs[q].endedAt \in Nat
  BY HistoryTypes
<1>3. \A q \in RunIds : Forgettable(runs, now, q) => Forgettable(runs, now', q)
  BY <1>1, <1>2, ForgettableLasts
<1>4. EndedInPast(runs, now')
  BY <1>1, <1>2 DEF HistoryInv, EndedInPast
<1>5. Remembered(runs, craftOperationRecords, now')
  BY <1>3 DEF HistoryInv, Remembered
<1>6. UnusedNameless(runs)
  BY DEF HistoryInv
<1> QED BY <1>1, <1>4, <1>5, <1>6 DEF HistoryInv

LEMMA NextHistory == IInv /\ HistoryInv /\ [Next]_vars => HistoryInv'
<1> SUFFICES ASSUME IInv, HistoryInv, [Next]_vars PROVE HistoryInv'
  OBVIOUS
<1>1. ASSUME NEW c \in Clients, NEW a \in Accounts, NEW o \in Operations, Submit(c, a, o)
      PROVE  HistoryInv'
  <2>1. CASE RejectConflict(c, a, o)
    BY <2>1, RunsStay DEF RejectConflict
  <2>2. CASE JoinExisting(c, a, o)
    BY <2>2, RunsStay DEF JoinExisting
  <2>3. CASE RejectBusy(c, a, o)
    BY <2>3, RunsStay DEF RejectBusy
  <2>4. CASE \E kind \in Kinds, steps \in 1 .. MaxSteps : StartRun(c, a, o, kind, steps)
    BY <2>4, StartHistory
  <2> QED BY <1>1, <2>1, <2>2, <2>3, <2>4 DEF Submit
<1>2. ASSUME NEW r \in RunIds, NEW u \in Run, runs' = [runs EXCEPT ![r] = u],
             u.state = runs[r].state, u.operation = runs[r].operation,
             u.endedAt = runs[r].endedAt, UNCHANGED <<craftOperationRecords, now>>
      PROVE  HistoryInv'
  <2>1. \A q \in RunIds : /\ runs'[q].state = runs[q].state
                          /\ runs'[q].operation = runs[q].operation
                          /\ runs'[q].endedAt = runs[q].endedAt
    BY <1>2, HistoryTypes
  <2> QED BY <1>2, <2>1, RunsStay
<1>3. ASSUME NEW r \in RunIds, Execute(r)
      PROVE  HistoryInv'
  <2>1. CASE BeginStep(r)
    <3> DEFINE u == [runs[r] EXCEPT !.busy = TRUE]
    <3>1. runs' = [runs EXCEPT ![r] = u] /\ UNCHANGED <<craftOperationRecords, now>>
      BY <2>1, HistoryTypes DEF BeginStep
    <3>2. u \in Run
      BY HistoryTypes, UpdatedTypes
    <3>3. u.state = runs[r].state /\ u.operation = runs[r].operation /\ u.endedAt = runs[r].endedAt
      BY HistoryTypes DEF Run
    <3> HIDE DEF u
    <3> QED BY <1>2, <3>1, <3>2, <3>3
  <2>2. CASE FinishStep(r)
    <3>1. CASE runs[r].left > 1
      <4> DEFINE u == [runs[r] EXCEPT !.left = @ - 1, !.busy = FALSE]
      <4>1. runs' = [runs EXCEPT ![r] = u] /\ UNCHANGED <<craftOperationRecords, now>>
        BY <2>2, <3>1, HistoryTypes DEF FinishStep
      <4>2. u \in Run
        BY <3>1, HistoryTypes, UpdatedTypes
      <4>3. u.state = runs[r].state /\ u.operation = runs[r].operation /\ u.endedAt = runs[r].endedAt
        BY HistoryTypes DEF Run
      <4> HIDE DEF u
      <4> QED BY <1>2, <4>1, <4>2, <4>3
    <3>2. CASE ~(runs[r].left > 1)
      BY <2>2, <3>2, EndHistory DEF FinishStep, Endings
    <3> QED BY <3>1, <3>2
  <2>3. CASE FailRun(r)
    BY <2>3, EndHistory DEF FailRun, Endings
  <2>4. CASE PauseRun(r)
    BY <2>4, EndHistory DEF PauseRun, Endings
  <2> QED BY <1>3, <2>1, <2>2, <2>3, <2>4 DEF Execute
<1>4. ASSUME NEW a \in Accounts, RequestPause(a)
      PROVE  HistoryInv'
  <2> DEFINE r == activeCraftRuns[a]
             u == [runs[r] EXCEPT !.pauseRequested = TRUE]
  <2>1. r \in RunIds
    BY <1>4, CraftOperationsAssumption DEF RequestPause, IInv, TypeOK, RunIds
  <2>2. runs' = [runs EXCEPT ![r] = u] /\ UNCHANGED <<craftOperationRecords, now>>
    BY <1>4, <2>1, HistoryTypes DEF RequestPause
  <2>3. u \in Run
    BY <2>1, HistoryTypes, UpdatedTypes
  <2>4. u.state = runs[r].state /\ u.operation = runs[r].operation /\ u.endedAt = runs[r].endedAt
    BY <2>1, HistoryTypes DEF Run
  <2> HIDE DEF r, u
  <2> QED BY <1>2, <2>1, <2>2, <2>3, <2>4
<1>5. CASE Tick
  BY <1>5, TickHistory
<1>6. CASE UNCHANGED vars
  BY <1>6, RunsStay DEF vars
<1> QED BY <1>1, <1>3, <1>4, <1>5, <1>6 DEF Next

\* An operation is executed again only when its record may be gone: what
\* pruneCraftOperationRecords forgets is old, or has RecordLimit others after it.
THEOREM ReexecutionIsLate == Spec => NoEarlyReexecution
<1>1. ASSUME IInv, HistoryInv, Next, NEW r \in RunIds, NEW q \in RunIds,
             runs[r].state = "unused", runs'[r].state = "running",
             runs[q].operation = runs'[r].operation
      PROVE  /\ ~Running(q)
             /\ \/ now - runs[q].endedAt > RecordTtl
                \/ Cardinality(OthersSince(q)) >= RecordLimit
  <2>0. /\ runs \in [RunIds -> Run] /\ now \in Nat
        /\ \A s \in RunIds : runs[s].endedAt \in Nat
    BY <1>1, HistoryTypes
  <2>1. \E c \in Clients : \E a \in Accounts : \E o \in Operations :
           \E kind \in Kinds : \E steps \in 1 .. MaxSteps : StartRun(c, a, o, kind, steps)
    <3>1. ASSUME \A s \in RunIds : runs'[s].state = runs[s].state PROVE FALSE
      BY <1>1, <3>1
    <3>2. ASSUME NEW s \in RunIds, NEW e \in Endings, EndRun(s, e) PROVE FALSE
      <4> DEFINE u == [runs[s] EXCEPT !.state = e, !.busy = FALSE, !.endedAt = now]
      <4>2. runs' = [runs EXCEPT ![s] = u]
        BY <3>2, <2>0 DEF EndRun
      <4>3. u.state = e
        BY <2>0 DEF Run
      <4> HIDE DEF u
      <4>1. runs'[s].state = e /\ \A p \in RunIds \ {s} : runs'[p] = runs[p]
        BY <4>2, <4>3, <2>0
      <4> QED BY <1>1, <4>1 DEF Endings
    <3>3. ASSUME NEW s \in RunIds, Execute(s) PROVE FALSE
      <4>0. ASSUME NEW u \in Run, runs' = [runs EXCEPT ![s] = u], u.state = runs[s].state
            PROVE  FALSE
        BY <3>1, <4>0, <2>0
      <4>1. CASE BeginStep(s)
        <5> DEFINE u == [runs[s] EXCEPT !.busy = TRUE]
        <5>1. runs' = [runs EXCEPT ![s] = u]
          BY <4>1, <2>0 DEF BeginStep
        <5>2. u \in Run
          BY <2>0, UpdatedTypes
        <5>3. u.state = runs[s].state
          BY <2>0 DEF Run
        <5> HIDE DEF u
        <5> QED BY <4>0, <5>1, <5>2, <5>3
      <4>2. CASE FinishStep(s)
        <5>1. CASE runs[s].left > 1
          <6> DEFINE u == [runs[s] EXCEPT !.left = @ - 1, !.busy = FALSE]
          <6>1. runs' = [runs EXCEPT ![s] = u]
            BY <4>2, <5>1, <2>0 DEF FinishStep
          <6>2. u \in Run
            BY <5>1, <2>0, UpdatedTypes
          <6>3. u.state = runs[s].state
            BY <2>0 DEF Run
          <6> HIDE DEF u
          <6> QED BY <4>0, <6>1, <6>2, <6>3
        <5>2. CASE ~(runs[s].left > 1)
          BY <3>2, <4>2, <5>2 DEF FinishStep, Endings
        <5> QED BY <5>1, <5>2
      <4>3. CASE FailRun(s) \/ PauseRun(s)
        BY <3>2, <4>3 DEF FailRun, PauseRun, Endings
      <4> QED BY <3>3, <4>1, <4>2, <4>3 DEF Execute
    <3>4. ASSUME NEW a \in Accounts, RequestPause(a) PROVE FALSE
      <4>1. activeCraftRuns[a] \in RunIds
        BY <1>1, <3>4, CraftOperationsAssumption DEF RequestPause, IInv, TypeOK, RunIds
      <4> DEFINE u == [runs[activeCraftRuns[a]] EXCEPT !.pauseRequested = TRUE]
      <4>2. runs' = [runs EXCEPT ![activeCraftRuns[a]] = u]
        BY <3>4, <4>1, <2>0 DEF RequestPause
      <4>3. u.state = runs[activeCraftRuns[a]].state
        BY <4>1, <2>0 DEF Run
      <4> HIDE DEF u
      <4> QED BY <3>1, <4>1, <4>2, <4>3, <2>0
    <3>5. ~Tick
      BY <3>1 DEF Tick
    <3>6. PICK c \in Clients, a \in Accounts, o \in Operations : Submit(c, a, o)
      BY <1>1, <3>3, <3>4, <3>5 DEF Next
    <3> QED BY <3>1, <3>6 DEF Submit, RejectConflict, JoinExisting, RejectBusy
  <2>C. PICK c \in Clients : \E a \in Accounts : \E o \in Operations :
           \E kind \in Kinds : \E steps \in 1 .. MaxSteps : StartRun(c, a, o, kind, steps)
    BY <2>1
  <2>A. PICK a \in Accounts : \E o \in Operations :
           \E kind \in Kinds : \E steps \in 1 .. MaxSteps : StartRun(c, a, o, kind, steps)
    BY <2>C
  <2>O. PICK o \in Operations :
           \E kind \in Kinds : \E steps \in 1 .. MaxSteps : StartRun(c, a, o, kind, steps)
    BY <2>A
  <2>2. /\ \A p \in RunIds : runs[p].operation = o /\ runs[p].state \in Endings
                             => Forgettable(runs, now, p)
        /\ \A p \in RunIds : Running(p) => runs[p].operation # o
        /\ runs'[nextRun].operation = o
        /\ \A s \in RunIds \ {nextRun} : runs'[s] = runs[s]
    BY <1>1, <2>O, StartHistory
  <2>3. r = nextRun /\ runs[q].operation = o
    BY <1>1, <2>2
  <2>4. ~Running(q)
    BY <2>2, <2>3
  <2>5. runs[q].state # "unused"
    BY <1>1, <2>3, CraftOperationsAssumption DEF HistoryInv, UnusedNameless
  <2>6. runs[q].state \in Endings
    <3>1. \A u \in Run : u.state \in {"unused", "running"} \cup Endings
      BY DEF Run
    <3> QED BY <2>4, <2>5, <3>1, <2>0 DEF Running
  <2>7. OthersSince(q) = OthersOf(runs, q)
    BY DEF OthersSince, OthersOf, Running
  <2> QED BY <2>2, <2>3, <2>4, <2>6, <2>7 DEF Forgettable
<1>2. IInv /\ HistoryInv /\ [Next]_vars =>
        [\A r, q \in RunIds :
          /\ runs[r].state = "unused" /\ runs'[r].state = "running"
          /\ runs[q].operation = runs'[r].operation
          => /\ ~Running(q)
             /\ \/ now - runs[q].endedAt > RecordTtl
                \/ Cardinality(OthersSince(q)) >= RecordLimit]_vars
  BY <1>1
<1>3. Spec => []HistoryInv
  BY InitHistory, NextHistory, Inductive, PTL DEF Spec
<1> QED BY <1>2, <1>3, Inductive, PTL DEF Spec, NoEarlyReexecution

=============================================================================
