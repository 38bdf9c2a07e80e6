-------------------------- MODULE Preparation_proofs --------------------------
(***************************************************************************)
(* Theorems about Preparation and the moves it is built from, for every    *)
(* number of items, caskets and places: the type invariant, what the saved *)
(* snapshot lists between jobs, that only what was moved is reported as    *)
(* moved, that no place is asked for in a full casket, nor by a withdrawal *)
(* in a full main inventory, and that a recipe handed on has its items     *)
(* there.                                                                  *)
(*                                                                         *)
(* The invariant says what a job may rely on although it sees the Game     *)
(* Coordinator through rows and a counter that lag: that its wait is the   *)
(* only thing on its way, what a row that shows an item at its goal is     *)
(* worth, and that neither a casket nor the main inventory holds more than *)
(* the job reckons with.                                                   *)
(***************************************************************************)
EXTENDS Preparation, TLAPS, FiniteSetTheorems

Capacity(p) == IF p = "main" THEN MainCapacity ELSE CasketCapacity

Count(c) == Cardinality(In(place, c))

Goal(m) == IF m.action = "deposit" THEN m.casket ELSE "main"

\* No place holds more than it can.
PlaceInv ==
    /\ place \in [Items -> Places]
    /\ \A p \in Places : Cardinality(In(place, p)) <= Capacity(p)

\* A wait is for the current item: into the job's casket, to the main inventory, or out
\* of another casket on the way to the job's.
WaitInv ==
    /\ job.wait \in Moves
    /\ job.wait.item = Current
    /\ job.wait.casket \in job.touched
    /\ job.wait.action = job.action => job.wait.casket = job.casket
    /\ job.wait.action # job.action =>
          job.wait.action = "withdraw" /\ job.wait.casket # job.casket

\* An item is in hand, which the job may move and a deposit has room for.
HandInv ==
    job.phase \in {"waiting", "between"} =>
        /\ Processed < Len(job.items)
        /\ Current \in job.allowed
        /\ job.action = "deposit" => job.slots # 0

JobInv ==
    /\ job \in Job \cup {Idle}
    /\ job # Idle => job.casket \in job.touched
    /\ job.phase = "between" => job.action = "deposit"
    /\ Listening => WaitInv
    /\ HandInv

\* A row that shows an item of a deposit in its casket is true.
AllowedInv ==
    job.action = "deposit" =>
        \A i \in job.allowed \ unsure : view[i] = job.casket => place[i] = job.casket

\* So is one that shows the item of a withdrawal in the main inventory.
OutInv ==
    Listening /\ job.wait.action = "withdraw" /\ job.wait.item \notin unsure
    /\ view[job.wait.item] = "main" => place[job.wait.item] = "main"

\* The snapshot is exact for the items the job does not move, and lists none of those
\* whose rows were missing.
SnapshotInv ==
    \A i \in Items \ unsure :
        i \notin ToSet(job.items) => snapshot[i] = IF i \in unlisted THEN {} ELSE {place[i]}

\* The rows show every item of the main inventory, apart from those the job moves.
MainShown ==
    \A i \in Items \ unsure :
        i \notin ToSet(job.items) /\ place[i] = "main" => view[i] = "main"

\* Nothing but the wait is on its way, and its notification comes after the move.
QuietInv ==
    ~stray =>
        IF Listening
        THEN /\ requests \subseteq {job.wait} /\ notices \subseteq {job.wait, [full |-> job.wait]}
             /\ job.wait \in notices /\ job.wait.item \notin unsure
                => place[job.wait.item] = Goal(job.wait)
        ELSE requests = {} /\ notices = {}

\* The session shows every item of the casket, or shows it where it was.
Shown(c) ==
    \A i \in Items : place[i] = c => view[i] = c \/ (i \in unsure /\ view[i] # "unloaded")

\* The counter of a casket the job does not touch, or the rows, count all of it.
CountInv ==
    \A c \in Caskets \ (uncounted \cup job.touched) : Count(c) <= counter[c] \/ Shown(c)

\* The slots a deposit still has are there, apart from the one its item is about to use.
RoomInv ==
    ~stray /\ unsure = {} /\ job.action = "deposit" /\ job.casket \notin uncounted =>
        IF Listening /\ job.wait.action = "deposit" /\ place[job.wait.item] = job.casket
        THEN Count(job.casket) + job.slots <= CasketCapacity + 1
        ELSE Count(job.casket) + job.slots <= CasketCapacity

\* What a withdrawal may still take out of its casket.
Takeable == {i \in ToSet(job.items) \cap job.allowed : place[i] = job.casket}

\* The places it reckons with in the main inventory are there.
MainRoomInv ==
    unsure = {} /\ job.action = "withdraw" =>
        Count("main") + Cardinality(Takeable) <= MainCapacity

IInv ==
    /\ TypeOK /\ PlaceInv /\ JobInv
    /\ AllowedInv /\ OutInv /\ SnapshotInv /\ MainShown
    /\ QuietInv /\ CountInv /\ RoomInv /\ MainRoomInv

\* What the rows of a preparation show between its jobs is true, unless another job has run.
PrepInv ==
    prep.phase = "between" /\ prep.timely =>
        job = Idle /\ \A i \in Items \ unsure : prep.rows[i] \in {place[i], "none"}

-----------------------------------------------------------------------------
(* Counting items, and lists of them.                                       *)

LEMMA Counted ==
    \A w, p : IsFiniteSet(In(w, p)) /\ Cardinality(In(w, p)) \in Nat
BY ComponentMovesAssumption, FS_Subset, FS_CardinalityType DEF In

LEMMA CountedSet ==
    \A S : S \subseteq Items => IsFiniteSet(S) /\ Cardinality(S) \in Nat
BY ComponentMovesAssumption, FS_Subset, FS_CardinalityType

LEMMA CountMono ==
    \A w, v, p : In(w, p) \subseteq In(v, p) => Cardinality(In(w, p)) <= Cardinality(In(v, p))
BY Counted, FS_Subset

\* w becomes v by the move of item i to p.
Gone(w, v, i, p) ==
    /\ v \in [Items -> Places] /\ v[i] = p
    /\ \A j \in Items \ {i} : v[j] = w[j]

LEMMA GoneByExcept ==
    ASSUME NEW w \in [Items -> Places], NEW i \in Items, NEW p \in Places
    PROVE  Gone(w, [w EXCEPT ![i] = p], i, p)
BY DEF Gone

LEMMA GoneCounts ==
    ASSUME NEW w \in [Items -> Places], NEW v, NEW i \in Items, NEW p \in Places,
           w[i] # p, Gone(w, v, i, p)
    PROVE  /\ Cardinality(In(v, p)) = Cardinality(In(w, p)) + 1
           /\ \A q \in Places \ {p} : Cardinality(In(v, q)) <= Cardinality(In(w, q))
<1>1. In(v, p) = In(w, p) \cup {i} /\ i \notin In(w, p)
  BY DEF In, Gone
<1>2. Cardinality(In(v, p)) = Cardinality(In(w, p)) + 1
  BY <1>1, Counted, FS_AddElement
<1>3. \A q \in Places \ {p} : In(v, q) \subseteq In(w, q)
  BY DEF In, Gone
<1> QED  BY <1>2, <1>3, CountMono

LEMMA MainIsNoCasket == "main" \notin Caskets /\ "unloaded" \notin Caskets
BY ComponentMovesAssumption

LEMMA Lists ==
    ASSUME NEW s \in Requested
    PROVE  /\ s \in Seq(Items) /\ Len(s) \in 1 .. MaxItems
           /\ ToSet(s) \subseteq Items
           /\ \A k \in 1 .. Len(s) : s[k] \in ToSet(s)
<1>1. PICK n \in 1 .. MaxItems :
         s \in {t \in [1 .. n -> Items] : \A k, l \in 1 .. n : t[k] = t[l] => k = l}
  BY DEF Requested
<1>2. s \in Seq(Items) /\ Len(s) = n /\ DOMAIN s = 1 .. n
  BY <1>1, ComponentMovesAssumption
<1> QED  BY <1>1, <1>2 DEF ToSet

LEMMA MoveFields ==
    ASSUME NEW m \in Moves
    PROVE  m.action \in {"deposit", "withdraw"} /\ m.casket \in Caskets /\ m.item \in Items
BY DEF Moves

LEMMA FullIsNoMove == \A m : [full |-> m] \notin Moves
BY DEF Moves

LEMMA FullFields == \A l, m : [full |-> l] = [full |-> m] => l = m
<1> SUFFICES ASSUME NEW l, NEW m, [full |-> l] = [full |-> m]
             PROVE  l = m
  OBVIOUS
<1>1. [full |-> l].full = [full |-> m].full
  OBVIOUS
<1> QED  BY <1>1

-----------------------------------------------------------------------------
(* What the steps of runMove do to the job.                                 *)

LEMMA JobFields ==
    ASSUME NEW j \in Job
    PROVE  /\ j.phase \in {"item", "waiting", "between", "ending"}
           /\ j.action \in {"deposit", "withdraw"} /\ j.casket \in Caskets
           /\ j.items \in Requested /\ j.wait \in Moves \cup {NoWait}
           /\ j.allowed \subseteq Items /\ j.slots \in Nat /\ j.reloaded \in BOOLEAN
           /\ j.touched \subseteq Caskets /\ j.success \subseteq Items /\ j.failed \subseteq Items
BY DEF Job

LEMMA IdleFields ==
    /\ Idle.phase = "idle" /\ Idle.action = "none" /\ Idle.casket = "none" /\ Idle.items = <<>>
    /\ Idle.wait = NoWait /\ Idle.allowed = {} /\ Idle.slots = 0 /\ Idle.reloaded = FALSE
    /\ Idle.touched = {} /\ Idle.success = {} /\ Idle.failed = {}
BY DEF Idle

LEMMA NoItems == ToSet(Idle.items) = {}
BY IdleFields DEF ToSet

LEMMA IdleOrJob ==
    ASSUME job \in Job \cup {Idle}
    PROVE  /\ job # Idle => job \in Job
           /\ job.phase = "idle" <=> job = Idle
           /\ Processed \in Nat
<1>1. job.success \subseteq Items /\ job.failed \subseteq Items
  BY JobFields, IdleFields
<1>2. Processed \in Nat
  BY <1>1, CountedSet DEF Processed
<1> QED  BY <1>2, JobFields, IdleFields

\* The same call of runMove, and what it has not done.
SameCall ==
    /\ job'.action = job.action /\ job'.casket = job.casket /\ job'.items = job.items
    /\ job'.allowed = job.allowed

SameProgress == job'.success = job.success /\ job'.failed = job.failed

Waits(m, t) ==
    /\ job' \in Job /\ job'.phase = "waiting" /\ job'.wait = m /\ job'.touched = t
    /\ SameCall /\ SameProgress /\ job'.slots = job.slots

LEMMA StartWaits ==
    ASSUME job \in Job, NEW m \in Moves, NEW t \in SUBSET Caskets, StartWait(m, t)
    PROVE  Waits(m, t)
<1> DEFINE n == [job EXCEPT !.phase = "waiting", !.wait = m, !.touched = t]
<1>1. n \in Job
  BY DEF Job
<1>2. n.phase = "waiting" /\ n.wait = m /\ n.touched = t /\ n.action = job.action
      /\ n.casket = job.casket /\ n.items = job.items /\ n.allowed = job.allowed
  BY DEF Job
<1>3. n.success = job.success /\ n.failed = job.failed /\ n.slots = job.slots
  BY DEF Job
<1>4. job' = n
  BY DEF StartWait
<1> HIDE DEF n
<1> QED  BY <1>1, <1>2, <1>3, <1>4 DEF Waits, SameCall, SameProgress

Finished(ok) ==
    /\ job' \in Job /\ job'.phase \in {"item", "between"}
    /\ SameCall /\ job'.touched = job.touched
    /\ job'.phase = "between" =>
          ok /\ job.wait.action # job.action /\ SameProgress
    /\ job'.slots = IF ok /\ job.wait.action = job.action /\ job.action = "deposit"
                   THEN FreeAfter(job.slots) ELSE job.slots
    /\ job'.success \subseteq job.success \cup {Current}
    /\ job'.success # job.success => ok /\ job.wait.action = job.action

LEMMA Finishes ==
    ASSUME job \in Job, Current \in Items, NEW ok \in BOOLEAN, NEW rest, Finish(ok, rest)
    PROVE  Finished(ok)
<1> DEFINE e == [job EXCEPT !.phase = "item", !.wait = NoWait]
<1>1. e \in Job
  BY DEF Job
<1>2. e.phase = "item" /\ e.action = job.action /\ e.casket = job.casket /\ e.items = job.items
      /\ e.allowed = job.allowed /\ e.touched = job.touched
  BY DEF Job
<1>3. e.success = job.success /\ e.failed = job.failed /\ e.slots = job.slots
  BY DEF Job
<1>4. job' = IF ~ok THEN [e EXCEPT !.failed = @ \cup {Current}]
             ELSE IF job.wait.action # job.action THEN [e EXCEPT !.phase = "between"]
             ELSE [e EXCEPT !.success = @ \cup {Current},
                            !.slots = IF job.action = "deposit" THEN FreeAfter(@) ELSE @]
  BY DEF Finish
<1> HIDE DEF e
<1>5. CASE ~ok
  <2> DEFINE n == [e EXCEPT !.failed = @ \cup {Current}]
  <2>1. n \in Job
    BY <1>1 DEF Job
  <2>2. n.phase = "item" /\ n.action = job.action /\ n.casket = job.casket /\ n.items = job.items
        /\ n.allowed = job.allowed /\ n.touched = job.touched
        /\ n.success = job.success /\ n.slots = job.slots
    BY <1>1, <1>2, <1>3 DEF Job
  <2>3. job' = n
    BY <1>4, <1>5
  <2> HIDE DEF n
  <2> QED  BY <2>1, <2>2, <2>3, <1>5 DEF Finished, SameCall
<1>6. CASE ok /\ job.wait.action # job.action
  <2> DEFINE n == [e EXCEPT !.phase = "between"]
  <2>1. n \in Job
    BY <1>1 DEF Job
  <2>2. n.phase = "between" /\ n.action = job.action /\ n.casket = job.casket
        /\ n.items = job.items /\ n.allowed = job.allowed /\ n.touched = job.touched
        /\ n.success = job.success /\ n.failed = job.failed /\ n.slots = job.slots
    BY <1>1, <1>2, <1>3 DEF Job
  <2>3. job' = n
    BY <1>4, <1>6
  <2> HIDE DEF n
  <2> QED  BY <2>1, <2>2, <2>3, <1>6 DEF Finished, SameCall, SameProgress
<1>7. CASE ok /\ job.wait.action = job.action
  <2> DEFINE n == [e EXCEPT !.success = @ \cup {Current},
                            !.slots = IF job.action = "deposit" THEN FreeAfter(@) ELSE @]
             f == IF job.action = "deposit" THEN FreeAfter(job.slots) ELSE job.slots
  <2>1. f \in Nat
    BY JobFields DEF FreeAfter
  <2>2. n = [e EXCEPT !.success = job.success \cup {Current}, !.slots = f]
    BY <1>1, <1>3 DEF Job
  <2> HIDE DEF n, f
  <2>3. n \in Job
    BY <1>1, <2>1, <2>2, JobFields DEF Job
  <2>4. n.phase = "item" /\ n.action = job.action /\ n.casket = job.casket /\ n.items = job.items
        /\ n.allowed = job.allowed /\ n.touched = job.touched
        /\ n.success = job.success \cup {Current} /\ n.slots = f
    BY <1>1, <1>2, <1>3, <2>2 DEF Job
  <2>5. job' = n
    BY <1>4, <1>7 DEF n
  <2> QED  BY <2>3, <2>4, <2>5, <1>7 DEF Finished, SameCall, f
<1> QED  BY <1>5, <1>6, <1>7

AnyJob ==
    [phase : {"idle", "item", "waiting", "between", "ending"},
     action : {"none", "deposit", "withdraw"}, casket : Caskets \cup {"none"},
     items : Requested \cup {<<>>}, wait : Moves \cup {NoWait}, allowed : SUBSET Items,
     slots : Nat, reloaded : BOOLEAN, touched : SUBSET Caskets,
     success : SUBSET Items, failed : SUBSET Items]

Begun(action, c, items, allowed, slots) ==
    /\ job' \in Job /\ job'.phase = "item" /\ job'.action = action /\ job'.casket = c
    /\ job'.items = items /\ job'.allowed = allowed /\ job'.slots = slots
    /\ job'.touched = {c} /\ job'.success = {}

LEMMA Begins ==
    ASSUME NEW action \in {"deposit", "withdraw"}, NEW c \in Caskets, NEW items \in Requested,
           NEW rows, NEW allowed \in SUBSET Items, NEW slots \in Nat,
           Begin(action, c, items, rows, allowed, slots)
    PROVE  Begun(action, c, items, allowed, slots)
<1> DEFINE n == [Idle EXCEPT !.phase = "item", !.action = action, !.casket = c, !.items = items,
                             !.allowed = allowed, !.slots = slots, !.touched = {c}]
<1>1. Idle \in AnyJob
  BY DEF Idle, AnyJob
<1>2. n \in Job
  BY <1>1 DEF AnyJob, Job
<1>3. n.phase = "item" /\ n.action = action /\ n.casket = c /\ n.items = items
      /\ n.allowed = allowed /\ n.slots = slots /\ n.touched = {c} /\ n.success = Idle.success
  BY <1>1 DEF AnyJob
<1>4. job' = n
  BY DEF Begin
<1> HIDE DEF n
<1> QED  BY <1>2, <1>3, <1>4, IdleFields DEF Begun

\* The loop goes on without a wait, or is left.
Goes ==
    /\ job' \in Job /\ job'.phase \in {"item", "ending"}
    /\ SameCall /\ job'.touched = job.touched /\ job'.slots = job.slots
    /\ job'.success = job.success

LEMMA LoopGoes ==
    ASSUME job \in Job,
           \/ /\ job' = [job EXCEPT !.failed = @ \cup {Current}]
              /\ job.phase = "item" /\ Current \in Items
           \/ job' = [job EXCEPT !.reloaded = TRUE] /\ job.phase = "item"
           \/ job' = [job EXCEPT !.phase = "ending"]
    PROVE  Goes
<1>1. CASE /\ job' = [job EXCEPT !.failed = @ \cup {Current}]
           /\ job.phase = "item" /\ Current \in Items
  <2> DEFINE n == [job EXCEPT !.failed = @ \cup {Current}]
  <2>1. n \in Job
    BY <1>1 DEF Job
  <2>2. n.phase = job.phase /\ n.action = job.action /\ n.casket = job.casket
        /\ n.items = job.items /\ n.allowed = job.allowed /\ n.touched = job.touched
        /\ n.slots = job.slots /\ n.success = job.success
    BY DEF Job
  <2>3. job' = n
    BY <1>1
  <2> HIDE DEF n
  <2> QED  BY <1>1, <2>1, <2>2, <2>3 DEF Goes, SameCall
<1>2. CASE job' = [job EXCEPT !.reloaded = TRUE] /\ job.phase = "item"
  <2> DEFINE n == [job EXCEPT !.reloaded = TRUE]
  <2>1. n \in Job
    BY <1>1 DEF Job
  <2>2. n.phase = job.phase /\ n.action = job.action /\ n.casket = job.casket
        /\ n.items = job.items /\ n.allowed = job.allowed /\ n.touched = job.touched
        /\ n.slots = job.slots /\ n.success = job.success
    BY DEF Job
  <2>3. job' = n
    BY <1>2
  <2> HIDE DEF n
  <2> QED  BY <1>2, <2>1, <2>2, <2>3 DEF Goes, SameCall
<1>3. CASE job' = [job EXCEPT !.phase = "ending"]
  <2> DEFINE n == [job EXCEPT !.phase = "ending"]
  <2>1. n \in Job
    BY DEF Job
  <2>2. n.phase = "ending" /\ n.action = job.action /\ n.casket = job.casket
        /\ n.items = job.items /\ n.allowed = job.allowed /\ n.touched = job.touched
        /\ n.slots = job.slots /\ n.success = job.success
    BY DEF Job
  <2>3. job' = n
    BY <1>3
  <2> HIDE DEF n
  <2> QED  BY <2>1, <2>2, <2>3 DEF Goes, SameCall
<1> QED  BY <1>1, <1>2, <1>3

-----------------------------------------------------------------------------
(* Steps that leave every item where it is.                                 *)

\* What the session shows of an item is what it showed, or where the item is.
Looked ==
    /\ place' = place
    /\ view' \in [Items -> Places \cup {"unloaded"}]
    /\ \A i \in Items : view'[i] \in {view[i], place[i]}

LEMMA Looks ==
    ASSUME TypeOK, place' = place,
           \/ view' = view
           \/ \E cs : view' = Loaded(cs)
           \/ \E i \in Items : view' = [view EXCEPT ![i] = place[i]]
    PROVE  Looked
<1>1. CASE view' = view
  BY <1>1 DEF TypeOK, Looked
<1>2. CASE \E cs : view' = Loaded(cs)
  BY <1>2 DEF TypeOK, Looked, Loaded
<1>3. CASE \E i \in Items : view' = [view EXCEPT ![i] = place[i]]
  BY <1>3 DEF TypeOK, Looked
<1> QED  BY <1>1, <1>2, <1>3

Calm ==
    /\ Looked
    /\ SameCall
    /\ job.touched \subseteq job'.touched
    /\ unsure \subseteq unsure' /\ uncounted' = uncounted
    /\ UNCHANGED <<counter, saved, snapshot, unlisted>>

LEMMA CalmStep ==
    ASSUME IInv, Calm
    PROVE  /\ PlaceInv' /\ AllowedInv' /\ SnapshotInv' /\ CountInv'
           /\ MainShown' /\ MainRoomInv'
<1>1. PlaceInv'
  BY DEF IInv, PlaceInv, Calm, Looked, In, Capacity
<1>2. AllowedInv'
  BY DEF IInv, AllowedInv, Calm, Looked, SameCall, TypeOK, JobInv, Job, Idle
<1>3. SnapshotInv'
  <2>1. UNCHANGED <<place, snapshot, unlisted>> /\ unsure \subseteq unsure'
        /\ ToSet(job.items)' = ToSet(job.items)
    BY DEF Calm, Looked, SameCall, ToSet
  <2> QED  BY <2>1 DEF IInv, SnapshotInv
<1>4. CountInv'
  <2>1. \A c \in Caskets : Count(c)' = Count(c)
    BY DEF Calm, Looked, Count, In
  <2>2. \A c \in Caskets : Shown(c) => Shown(c)'
    BY DEF Calm, Looked, Shown
  <2> QED  BY <2>1, <2>2 DEF IInv, CountInv, Calm
<1>5. MainShown'
  BY DEF IInv, MainShown, Calm, Looked, SameCall, ToSet
<1>6. MainRoomInv'
  <2>1. Count("main")' = Count("main")
    BY DEF Calm, Looked, Count, In
  <2>2. Takeable' = Takeable
    BY DEF Calm, Looked, SameCall, Takeable, ToSet
  <2> QED  BY <2>1, <2>2 DEF IInv, MainRoomInv, Calm, SameCall
<1> QED  BY <1>1, <1>2, <1>3, <1>4, <1>5, <1>6

\* The room of a deposit, when what is on its way does not change.
LEMMA RoomKept ==
    ASSUME IInv, Calm, job'.slots = job.slots, stray' = stray, ~Listening
    PROVE  RoomInv'
<1>1. Count(job.casket) \in Nat
  BY Counted DEF Count
<1>2. Count(job.casket)' = Count(job.casket)
  BY DEF Calm, Looked, SameCall, Count, In
<1>3. job.action = "deposit" => job.slots \in Nat
  BY JobFields, IdleFields DEF IInv, TypeOK
<1>4. ~stray' /\ unsure' = {} /\ job'.action = "deposit" /\ job'.casket \notin uncounted'
      => Count(job.casket) + job.slots <= CasketCapacity
  BY DEF IInv, RoomInv, Calm, SameCall
<1> DEFINE k == Count(job.casket)
<1> HIDE DEF k
<1>5. ~stray' /\ unsure' = {} /\ job'.action = "deposit" /\ job'.casket \notin uncounted'
      => Count(job.casket)' + job'.slots <= CasketCapacity
         /\ Count(job.casket)' + job'.slots <= CasketCapacity + 1
  <2>1. CasketCapacity \in Nat
    BY ComponentMovesAssumption
  <2>2. Count(job.casket) = k /\ k \in Nat
    BY <1>1 DEF k
  <2> QED  BY <2>1, <2>2, <1>2, <1>3, <1>4 DEF SameCall, Calm
<1> QED  BY <1>5 DEF RoomInv

\* The job stays where it is too.
LEMMA StillKeeps ==
    ASSUME IInv, Calm, UNCHANGED <<job, asked, stray, unsure>>,
           requests' \subseteq Moves, notices' \subseteq Notices, QuietInv'
    PROVE  IInv'
<1>1. TypeOK'
  BY DEF IInv, TypeOK, Calm, Looked
<1>2. JobInv'
  BY DEF IInv, JobInv, Listening, WaitInv, HandInv, Current, Processed
<1>3. OutInv'
  BY JobFields, IdleFields, MoveFields DEF IInv, JobInv, OutInv, Listening, WaitInv, Calm, Looked
<1>4. RoomInv'
  BY DEF IInv, RoomInv, Listening, Calm, Looked, Count, In
<1> QED  BY <1>1, <1>2, <1>3, <1>4, CalmStep DEF IInv

LEMMA StillStep ==
    ASSUME IInv, Calm, UNCHANGED <<job, requests, asked, stray, unsure>>, notices' \subseteq notices
    PROVE  IInv'
<1>1. QuietInv'
  BY DEF IInv, QuietInv, Listening, Calm, Looked, Goal
<1>2. requests' \subseteq Moves /\ notices' \subseteq Notices
  BY DEF IInv, TypeOK
<1> QED  BY <1>1, <1>2, StillKeeps

LEMMA SyncItemStep ==
    ASSUME IInv, NEW i \in Items, SyncItem(i)
    PROVE  IInv'
<1>1. Looked
  BY Looks DEF IInv, SyncItem, gcVars
<1>2. Calm
  BY <1>1 DEF Calm, SyncItem, SameCall, serviceVars, historyVars
<1> QED  BY <1>2, StillStep DEF SyncItem, gcVars, serviceVars, historyVars

LEMMA UnheardStep ==
    ASSUME IInv, NEW n \in notices, Unheard(n)
    PROVE  IInv'
<1>1. Looked
  BY Looks DEF IInv, Unheard, sessionVars
<1>2. Calm
  BY <1>1 DEF Calm, Unheard, SameCall, sessionVars, serviceVars, historyVars
<1> QED  BY <1>2, StillStep DEF Unheard, serviceVars, historyVars

\* The loop between waits, before and after.
LEMMA GoesStep ==
    ASSUME IInv, Looked, Goes, ~Listening, UNCHANGED <<requests, notices, asked>>,
           UNCHANGED <<counter, saved, snapshot, stray, unsure, unlisted, uncounted>>
    PROVE  IInv'
<1>1. Calm
  BY DEF Calm, Goes
<1>2. TypeOK'
  BY DEF IInv, TypeOK, Looked, Goes
<1>3. JobInv'
  <2>1. job' # Idle /\ job # Idle => job'.casket \in job'.touched
    BY DEF IInv, JobInv, Goes, SameCall
  <2>2. job # Idle
    BY JobFields, IdleFields DEF IInv, JobInv, Goes, SameCall
  <2>3. ~Listening' /\ ~(job'.phase \in {"waiting", "between"})
    BY DEF Goes, Listening
  <2> QED  BY <2>1, <2>2, <2>3 DEF JobInv, Goes, HandInv
<1>4. OutInv'
  BY DEF OutInv, Listening, Goes
<1>5. QuietInv'
  BY DEF IInv, QuietInv, Listening, Goes
<1>6. RoomInv'
  BY <1>1, RoomKept DEF Goes
<1> QED  BY <1>1, <1>2, <1>3, <1>4, <1>5, <1>6, CalmStep DEF IInv

\* An item of the loop: the one after those that are done.
LEMMA CurrentItem ==
    ASSUME job \in Job, Processed < Len(job.items)
    PROVE  Current \in Items /\ Current \in ToSet(job.items)
<1>1. Processed \in Nat
  BY IdleOrJob
<1>2. Processed + 1 \in 1 .. Len(job.items)
  BY <1>1, Lists, JobFields
<1> QED  BY <1>2, Lists, JobFields DEF Current

LEMMA SkipItemStep ==
    ASSUME IInv, SkipItem
    PROVE  IInv'
<1>1. job \in Job
  BY IdleOrJob DEF IInv, TypeOK, SkipItem
<1>2. Goes
  BY <1>1, LoopGoes, CurrentItem DEF SkipItem
<1>3. Looked
  BY Looks DEF IInv, SkipItem, gcVars, sessionVars
<1> QED  BY <1>2, <1>3, GoesStep DEF SkipItem, Listening, gcVars, sessionVars, historyVars

LEMMA ReloadMissingStep ==
    ASSUME IInv, ReloadMissing
    PROVE  IInv'
<1>1. job \in Job
  BY IdleOrJob DEF IInv, TypeOK, ReloadMissing
<1>2. Goes
  BY <1>1, LoopGoes, CurrentItem DEF ReloadMissing
<1>3. Looked
  <2>1. place' = place
    BY DEF ReloadMissing, gcVars
  <2>2. view' = view \/ \E cs : view' = Loaded(cs)
    BY DEF ReloadMissing
  <2> QED  BY <2>1, <2>2, Looks DEF IInv
<1> QED  BY <1>2, <1>3, GoesStep DEF ReloadMissing, Listening, gcVars, historyVars

LEMMA LeaveLoopStep ==
    ASSUME IInv, LeaveLoop
    PROVE  IInv'
<1>1. job \in Job
  BY IdleOrJob DEF IInv, TypeOK, LeaveLoop
<1>2. Goes
  <2> DEFINE n == [job EXCEPT !.phase = "ending"]
  <2> QED  BY <1>1, LoopGoes DEF LeaveLoop
<1>3. Looked
  BY Looks DEF IInv, LeaveLoop, gcVars, sessionVars
<1> QED  BY <1>2, <1>3, GoesStep DEF LeaveLoop, Listening, gcVars, sessionVars, historyVars

LEMMA CasketCount ==
    ASSUME IInv, NEW c \in Caskets
    PROVE  Count(c) \in 0 .. CasketCapacity
<1>1. Count(c) \in Nat
  BY Counted DEF Count
<1>2. c \in Places /\ Capacity(c) = CasketCapacity
  BY MainIsNoCasket DEF Places, Capacity
<1>3. Count(c) <= CasketCapacity
  BY <1>2 DEF IInv, PlaceInv, Count
<1> QED  BY <1>1, <1>3, ComponentMovesAssumption

LEMMA SyncCounterStep ==
    ASSUME IInv, NEW c \in Caskets, SyncCounter(c)
    PROVE  IInv'
<1>1. UNCHANGED <<place, requests, notices, view, job, asked, saved, snapshot, stray,
                  unsure, unlisted>>
  BY DEF SyncCounter, gcVars, serviceVars
<1>2. Count(c) \in 0 .. CasketCapacity
  BY CasketCount
<1>3. TypeOK'
  BY <1>1, <1>2 DEF IInv, TypeOK, SyncCounter, Count
<1>4. /\ PlaceInv' /\ JobInv' /\ AllowedInv' /\ OutInv' /\ SnapshotInv' /\ QuietInv'
      /\ MainShown' /\ MainRoomInv'
  BY <1>1 DEF IInv, PlaceInv, In, JobInv, Listening, WaitInv, HandInv, Current, Processed,
              AllowedInv, OutInv, SnapshotInv, QuietInv, Goal, MainShown, MainRoomInv,
              Takeable, Count
<1>5. CountInv'
  <2>1. \A d \in Caskets : Count(d)' = Count(d) /\ Shown(d)' = Shown(d)
    BY <1>1 DEF Count, In, Shown
  <2>2. counter'[c] = Count(c)
    BY DEF IInv, TypeOK, SyncCounter, Count
  <2>3. \A d \in Caskets \ {c} : counter'[d] = counter[d] /\ (d \in uncounted <=> d \in uncounted')
    BY DEF IInv, TypeOK, SyncCounter
  <2>4. job'.touched = job.touched
    BY <1>1
  <2>5. ASSUME NEW d \in Caskets \ (uncounted' \cup job'.touched)
        PROVE  (Count(d) <= counter[d])' \/ Shown(d)'
    <3>1. CASE d = c
      BY <2>1, <2>2, <3>1, <1>2
    <3>2. CASE d # c
      BY <2>1, <2>3, <2>4, <3>2 DEF IInv, CountInv
    <3> QED  BY <3>1, <3>2
  <2> QED  BY <2>5 DEF CountInv
<1>6. RoomInv'
  <2>1. job.casket \notin uncounted' => job.casket \notin uncounted
    BY DEF SyncCounter
  <2> QED  BY <1>1, <2>1 DEF IInv, RoomInv, Listening, Count, In
<1> QED  BY <1>3, <1>4, <1>5, <1>6 DEF IInv

-----------------------------------------------------------------------------
(* Items move.                                                              *)

\* Item i goes to p, which has room; nobody knows, or the job waits for it.
Moved(i, p) ==
    /\ i \in Items /\ p \in Places /\ place[i] # p /\ Room(place, p)
    /\ Gone(place, place', i, p)
    /\ unsure \subseteq unsure' /\ uncounted \subseteq uncounted'
    /\ unsure' \subseteq Items /\ uncounted' \subseteq Caskets
    /\ UNCHANGED <<view, counter, job, asked, saved, snapshot, stray, unlisted>>

Behind(i, p) == i \in unsure' /\ (p \in Caskets => p \in uncounted')

ForWait(i, p) ==
    /\ Listening /\ i = job.wait.item /\ p = Goal(job.wait)
    /\ place[i] = IF job.wait.action = "deposit" THEN "main" ELSE job.wait.casket

LEMMA MoveKeeps ==
    ASSUME IInv, NEW i, NEW p, Moved(i, p), Behind(i, p) \/ ForWait(i, p)
    PROVE  /\ PlaceInv' /\ JobInv' /\ AllowedInv' /\ OutInv' /\ SnapshotInv' /\ CountInv'
           /\ MainShown' /\ MainRoomInv'
<1>1. /\ Cardinality(In(place', p)) = Cardinality(In(place, p)) + 1
      /\ \A q \in Places \ {p} : Cardinality(In(place', q)) <= Cardinality(In(place, q))
  BY GoneCounts DEF IInv, PlaceInv, Moved
<1>2. PlaceInv'
  <2>1. Cardinality(In(place, p)) < Capacity(p)
    BY DEF Moved, Room, Capacity
  <2>2. \A q \in Places : Capacity(q) \in Nat /\ Cardinality(In(place, q)) \in Nat
                          /\ Cardinality(In(place', q)) \in Nat
    BY ComponentMovesAssumption, Counted DEF Capacity
  <2>3. \A q \in Places : Cardinality(In(place', q)) <= Capacity(q)
    <3>1. Cardinality(In(place', p)) <= Capacity(p)
      BY <1>1, <2>1, <2>2 DEF Moved
    <3>2. ASSUME NEW q \in Places \ {p}
          PROVE  Cardinality(In(place', q)) <= Capacity(q)
      BY <1>1, <2>2 DEF IInv, PlaceInv
    <3> QED  BY <3>1, <3>2
  <2>4. \A q : Capacity(q)' = Capacity(q)
    BY DEF Capacity
  <2> QED  BY <2>3 DEF PlaceInv, Moved, Gone, Capacity
<1>3. JobInv'
  BY DEF IInv, JobInv, Listening, WaitInv, HandInv, Current, Processed, Moved
<1>4. ForWait(i, p) => /\ job.wait \in Moves /\ i = Current /\ i \in ToSet(job.items)
                       /\ job.wait.casket \in Caskets
                       /\ (p \in Caskets => p \in job.touched)
  <2> SUFFICES ASSUME ForWait(i, p)
               PROVE  /\ job.wait \in Moves /\ i = Current /\ i \in ToSet(job.items)
                      /\ job.wait.casket \in Caskets
                      /\ (p \in Caskets => p \in job.touched)
    OBVIOUS
  <2>1. WaitInv /\ Processed < Len(job.items) /\ job \in Job
    BY IdleFields DEF IInv, JobInv, HandInv, ForWait, Listening
  <2> QED  BY <2>1, CurrentItem, MoveFields, MainIsNoCasket DEF WaitInv, ForWait, Goal
<1>5. AllowedInv'
  <2> SUFFICES ASSUME job.action = "deposit", NEW j \in job.allowed \ unsure',
                      view[j] = job.casket
               PROVE  place'[j] = job.casket
    BY DEF AllowedInv, Moved
  <2>1. j \in Items /\ place[j] = job.casket
    BY JobFields, IdleFields DEF IInv, JobInv, AllowedInv, Moved
  <2>2. CASE j # i
    BY <2>1, <2>2 DEF Moved, Gone
  <2>3. CASE j = i
    <3>1. ForWait(i, p)
      BY <2>3 DEF Behind
    <3>2. job.casket \in Caskets
      BY JobFields, IdleFields DEF IInv, JobInv
    <3>3. job.wait.action = "deposit" /\ job.wait.casket = job.casket
      BY <2>1, <2>3, <3>1, <3>2, MoveFields, MainIsNoCasket, <1>4
         DEF IInv, JobInv, ForWait, WaitInv
    <3> QED  BY <2>3, <3>1, <3>3 DEF ForWait, Goal, Moved, Gone
  <2> QED  BY <2>2, <2>3
<1>6. OutInv'
  <2> SUFFICES ASSUME Listening, job.wait.action = "withdraw", job.wait.item \notin unsure',
                      view[job.wait.item] = "main"
               PROVE  place'[job.wait.item] = "main"
    BY DEF OutInv, Moved, Listening
  <2>1. job.wait.item \in Items /\ place[job.wait.item] = "main"
    BY MoveFields DEF IInv, JobInv, WaitInv, OutInv, Moved
  <2>2. CASE job.wait.item # i
    BY <2>1, <2>2 DEF Moved, Gone
  <2>3. CASE job.wait.item = i
    BY <2>3 DEF Behind, ForWait, Goal, Moved, Gone
  <2> QED  BY <2>2, <2>3
<1>7. SnapshotInv'
  <2> SUFFICES ASSUME NEW j \in Items \ unsure', j \notin ToSet(job.items)
               PROVE  snapshot[j] = IF j \in unlisted THEN {} ELSE {place'[j]}
    BY DEF SnapshotInv, Moved, ToSet
  <2>1. snapshot[j] = IF j \in unlisted THEN {} ELSE {place[j]}
    BY DEF IInv, SnapshotInv, Moved
  <2>2. j # i
    BY <1>4 DEF Behind
  <2> QED  BY <2>1, <2>2 DEF Moved, Gone
<1>8. CountInv'
  <2> SUFFICES ASSUME NEW c \in Caskets \ (uncounted' \cup job.touched)
               PROVE  (Count(c) <= counter[c])' \/ Shown(c)'
    BY DEF CountInv, Moved
  <2>1. c # p /\ c \in Places
    BY <1>4 DEF Behind, Places
  <2>2. Count(c)' <= Count(c) /\ Count(c)' \in Nat /\ Count(c) \in Nat
    BY <1>1, <2>1, Counted DEF Count
  <2>3. Shown(c) => Shown(c)'
    BY <2>1 DEF Shown, Moved, Gone
  <2>4. counter'[c] = counter[c] /\ counter[c] \in Nat
    BY DEF Moved, IInv, TypeOK
  <2>5. Count(c) <= counter[c] \/ Shown(c)
    BY DEF IInv, CountInv, Moved
  <2> QED  BY <2>2, <2>3, <2>4, <2>5
<1>9. MainShown'
  <2> SUFFICES ASSUME NEW j \in Items \ unsure', j \notin ToSet(job.items), place'[j] = "main"
               PROVE  view[j] = "main"
    BY DEF MainShown, Moved, ToSet
  <2>1. j # i
    BY <1>4 DEF Behind
  <2> QED  BY <2>1 DEF IInv, MainShown, Moved, Gone
<1>10. MainRoomInv'
  <2> SUFFICES ASSUME unsure' = {}, job.action = "withdraw"
               PROVE  Count("main")' + Cardinality(Takeable') <= MainCapacity
    BY DEF MainRoomInv, Moved
  <2>1. ForWait(i, p) /\ unsure = {}
    BY DEF Behind, Moved
  <2>2. job \in Job /\ WaitInv /\ i \in ToSet(job.items) /\ i \in job.allowed
    BY <2>1, <1>4, IdleFields DEF IInv, JobInv, HandInv, ForWait, Listening
  <2>3. place[i] = job.casket /\ p = "main" /\ job.casket # "main"
    BY <2>1, <2>2, MoveFields, MainIsNoCasket, JobFields DEF ForWait, WaitInv, Goal
  <2>4. Takeable' = Takeable \ {i} /\ i \in Takeable
    <3>1. Takeable' = {j \in ToSet(job.items) \cap job.allowed : place'[j] = job.casket}
      BY DEF Takeable, Moved, ToSet
    <3>2. \A j \in ToSet(job.items) \cap job.allowed :
             place'[j] = IF j = i THEN "main" ELSE place[j]
      BY <2>2, <2>3, JobFields DEF Moved, Gone
    <3> QED  BY <2>2, <2>3, <3>1, <3>2 DEF Takeable
  <2>5. Takeable \subseteq Items /\ Takeable' \subseteq Items
    BY <2>2, <2>4, JobFields DEF Takeable
  <2>6. Cardinality(Takeable') = Cardinality(Takeable) - 1
        /\ Cardinality(Takeable) \in Nat
    BY <2>4, <2>5, CountedSet, FS_RemoveElement
  <2>7. Count("main")' = Count("main") + 1 /\ Count("main") \in Nat
    BY <1>1, <2>3, Counted DEF Count
  <2>8. Count("main") + Cardinality(Takeable) <= MainCapacity
    BY <2>1 DEF IInv, MainRoomInv
  <2> QED  BY <2>6, <2>7, <2>8, ComponentMovesAssumption
<1> QED  BY <1>2, <1>3, <1>5, <1>6, <1>7, <1>8, <1>9, <1>10

LEMMA OtherMoveStep ==
    ASSUME IInv, NEW i \in Items, NEW p \in Places, OtherMove(i, p)
    PROVE  IInv'
<1>1. Gone(place, place', i, p)
  BY GoneByExcept DEF IInv, TypeOK, OtherMove, MovedTo
<1>2. unsure' = unsure \cup {i} /\ uncounted' = uncounted \cup ({p} \cap Caskets)
  BY DEF OtherMove, MovedTo
<1>3. UNCHANGED <<requests, notices, view, counter, job, asked, saved, snapshot, stray, unlisted>>
  BY DEF OtherMove, sessionVars, serviceVars
<1>4. Moved(i, p) /\ Behind(i, p)
  BY <1>1, <1>2, <1>3 DEF Moved, Behind, OtherMove, IInv, TypeOK
<1>5. TypeOK'
  BY <1>1, <1>2, <1>3 DEF IInv, TypeOK, Gone
<1>6. QuietInv'
  <2>1. job.wait \in notices /\ job.wait.item \notin unsure' /\ ~stray /\ Listening
        => place'[job.wait.item] = Goal(job.wait)
    BY <1>1, <1>2, MoveFields DEF IInv, QuietInv, JobInv, WaitInv, Gone
  <2> QED  BY <1>3, <2>1 DEF IInv, QuietInv, Listening, Goal
<1>7. RoomInv'
  BY <1>2 DEF RoomInv
<1> QED  BY <1>4, <1>5, <1>6, <1>7, MoveKeeps DEF IInv

LEMMA GcMoveStep ==
    ASSUME IInv, NEW m \in requests, GcMove(m)
    PROVE  IInv'
<1> DEFINE from == IF m.action = "deposit" THEN "main" ELSE m.casket
           to == Goal(m)
<1>1. m \in Moves /\ requests' = requests \ {m}
  BY DEF IInv, TypeOK, GcMove
<1>2. m.item \in Items /\ m.casket \in Caskets /\ from \in Places /\ to \in Places /\ from # to
  BY <1>1, MoveFields, MainIsNoCasket DEF Places, Goal
<1>3. UNCHANGED <<view, counter, job, asked, saved, snapshot, stray, unlisted>>
  BY DEF GcMove, sessionVars, serviceVars
<1>4. ~stray => Awaited(m)
  BY DEF IInv, QuietInv, Awaited, Listening
<1>5. CASE /\ place[m.item] = from /\ Room(place, to)
           /\ MovedTo(m.item, to, ~Awaited(m))
           /\ notices' \in {notices, notices \cup {m}}
  <2>1. Gone(place, place', m.item, to)
    BY <1>2, <1>5, GoneByExcept DEF IInv, TypeOK, MovedTo
  <2>2. /\ unsure' = IF ~Awaited(m) THEN unsure \cup {m.item} ELSE unsure
        /\ uncounted' = IF ~Awaited(m) THEN uncounted \cup ({to} \cap Caskets) ELSE uncounted
    BY <1>5 DEF MovedTo
  <2>3. Moved(m.item, to)
    BY <1>2, <1>3, <1>5, <2>1, <2>2 DEF Moved, IInv, TypeOK
  <2>4. Behind(m.item, to) \/ ForWait(m.item, to)
    BY <1>5, <2>2 DEF Behind, ForWait, Awaited, Listening
  <2>5. TypeOK'
    BY <1>1, <1>3, <1>5, <2>1, <2>3 DEF IInv, TypeOK, Gone, Moved, Notices
  <2>6. QuietInv'
    <3> SUFFICES ASSUME ~stray
                 PROVE  QuietInv'
      BY <1>3 DEF QuietInv
    <3>1. Listening /\ job.wait = m
      BY <1>4 DEF Awaited
    <3>2. requests' \subseteq {job.wait} /\ notices' \subseteq {job.wait, [full |-> job.wait]}
      BY <3>1, <1>1, <1>5 DEF IInv, QuietInv
    <3>3. place'[job.wait.item] = Goal(job.wait)
      BY <3>1, <2>1 DEF Gone
    <3> QED  BY <1>3, <3>1, <3>2, <3>3 DEF QuietInv, Listening, Goal
  <2>7. RoomInv'
    <3> SUFFICES ASSUME ~stray, unsure = {}, job.action = "deposit", job.casket \notin uncounted
                 PROVE  RoomInv'
      BY <1>3, <2>3 DEF RoomInv, Moved
    <3>1. Listening /\ job.wait = m /\ WaitInv
      BY <1>4 DEF Awaited, IInv, JobInv
    <3>2. job.casket \in Caskets /\ job.slots \in Nat
      BY JobFields, IdleFields DEF IInv, TypeOK
    <3> DEFINE k == Count(job.casket)
               l == Cardinality(In(place', job.casket))
    <3>3. k \in Nat /\ l \in Nat
      BY Counted DEF Count
    <3>4. /\ to = job.casket => l = k + 1
          /\ to # job.casket => l <= k
      <4>1. place \in [Items -> Places] /\ place[m.item] # to
        BY <1>2, <1>5 DEF IInv, PlaceInv
      <4>2. /\ Cardinality(In(place', to)) = Cardinality(In(place, to)) + 1
            /\ \A q \in Places \ {to} : Cardinality(In(place', q)) <= Cardinality(In(place, q))
        BY GoneCounts, <1>2, <2>1, <4>1
      <4>3. job.casket \in Places
        BY <3>2 DEF Places
      <4> QED  BY <4>2, <4>3 DEF Count
    <3>5. CASE m.action = "deposit"
      <4>1. to = job.casket /\ from = "main"
        BY <3>1, <1>5, <3>5 DEF WaitInv, Goal
      <4>2. k + job.slots <= CasketCapacity
        BY <1>2, <1>5, <4>1, <3>1 DEF IInv, RoomInv
      <4>3. place'[job.wait.item] = job.casket
        BY <2>1, <3>1, <4>1 DEF Gone
      <4> HIDE DEF k, l, from, to
      <4>4. l + job.slots <= CasketCapacity + 1
        BY <3>2, <3>3, <3>4, <4>1, <4>2, ComponentMovesAssumption
      <4> QED  BY <1>3, <3>1, <3>5, <4>3, <4>4 DEF RoomInv, Listening, Count, l
    <3>6. CASE m.action # "deposit"
      <4>1. to = "main"
        BY <3>6 DEF Goal
      <4>2. k + job.slots <= CasketCapacity
        BY <3>1, <3>6 DEF IInv, RoomInv
      <4>3. to # job.casket
        BY <4>1, <3>2, MainIsNoCasket
      <4> HIDE DEF k, l, from, to
      <4>4. l + job.slots <= CasketCapacity
        BY <3>2, <3>3, <3>4, <4>2, <4>3, ComponentMovesAssumption
      <4> QED  BY <1>3, <3>1, <3>6, <4>4 DEF RoomInv, Listening, Count, l
    <3> QED  BY <3>5, <3>6
  <2> QED  BY <2>3, <2>4, <2>5, <2>6, <2>7, MoveKeeps DEF IInv
<1>6. CASE /\ UNCHANGED <<place, unsure, uncounted>>
           /\ notices' \in {notices, notices \cup {[full |-> m]}}
  <2>1. Calm
    BY <1>3, <1>6, Looks DEF IInv, Calm, SameCall
  <2>2. notices' \subseteq Notices
    BY <1>1, <1>6 DEF IInv, TypeOK, Notices
  <2>3. QuietInv'
    <3> SUFFICES ASSUME ~stray
                 PROVE  QuietInv'
      BY <1>3 DEF QuietInv
    <3>1. Listening /\ job.wait = m
      BY <1>4 DEF Awaited
    <3>2. requests' \subseteq {job.wait} /\ notices' \subseteq {job.wait, [full |-> job.wait]}
      BY <3>1, <1>1, <1>6 DEF IInv, QuietInv
    <3>3. job.wait # [full |-> job.wait]
      BY <1>1, <3>1, FullIsNoMove
    <3>4. job.wait \in notices' => job.wait \in notices
      BY <1>6, <3>1, <3>3
    <3> QED  BY <1>3, <1>6, <3>1, <3>2, <3>4 DEF IInv, QuietInv, Listening, Goal
  <2> QED  BY <1>1, <1>3, <1>6, <2>1, <2>2, <2>3, StillKeeps DEF IInv, TypeOK
<1>7. \/ /\ place[m.item] = from /\ Room(place, to)
         /\ MovedTo(m.item, to, ~Awaited(m))
         /\ notices' \in {notices, notices \cup {m}}
      \/ /\ UNCHANGED <<place, unsure, uncounted>>
         /\ notices' \in {notices, notices \cup {[full |-> m]}}
  BY DEF GcMove, Goal
<1> QED  BY <1>5, <1>6, <1>7

-----------------------------------------------------------------------------
(* Waits begin and end.                                                     *)

\* A wait of this job for move m can begin.
Fits(m, t) ==
    /\ m \in Moves /\ t \in SUBSET Caskets /\ job.touched \subseteq t
    /\ m.item = Current /\ m.casket \in t
    /\ m.action = job.action => m.casket = job.casket
    /\ m.action # job.action => m.action = "withdraw" /\ m.casket # job.casket
    /\ m.action = "withdraw" => view[m.item] # "main"
    /\ Processed < Len(job.items)
    /\ Current \in job.allowed /\ (job.action = "deposit" => job.slots # 0)

\* A request has been sent, and that is all.
Unmoved ==
    UNCHANGED <<place, notices, view, counter, asked, saved, snapshot, stray, unsure, unlisted,
                uncounted>>

LEMMA StartWaitStep ==
    ASSUME IInv, job \in Job, ~Listening, NEW m, NEW t, Fits(m, t), StartWait(m, t),
           Unmoved
    PROVE  IInv'
<1>1. Waits(m, t)
  BY StartWaits DEF Fits
<1>2. Looked
  BY Looks DEF IInv, Unmoved
<1>3. Calm
  BY <1>1, <1>2 DEF Calm, Waits, Fits, Unmoved
<1>4. requests' = requests \cup {m}
  BY DEF StartWait
<1>5. TypeOK'
  BY <1>1, <1>4 DEF IInv, TypeOK, Waits, Fits, Unmoved
<1>6. JobInv'
  <2>1. Processed' = Processed /\ Current' = Current
    BY <1>1 DEF Waits, SameProgress, SameCall, Processed, Current
  <2>2. job' \in Job /\ job'.casket \in job'.touched /\ job'.phase = "waiting"
    BY <1>1, JobFields, IdleFields DEF IInv, JobInv, Waits, Fits, SameCall
  <2>3. WaitInv'
    BY <1>1, <2>1 DEF WaitInv, Fits, Waits, SameCall
  <2>4. HandInv'
    BY <1>1, <2>1 DEF HandInv, Fits, Waits, SameCall
  <2> QED  BY <2>2, <2>3, <2>4 DEF JobInv
<1>7. OutInv'
  BY <1>1 DEF OutInv, Waits, Fits, Unmoved
<1>8. QuietInv'
  <2> SUFFICES ASSUME ~stray
               PROVE  QuietInv'
    BY DEF QuietInv, Unmoved
  <2>1. requests = {} /\ notices = {}
    BY DEF IInv, QuietInv
  <2> QED  BY <1>1, <1>4, <2>1 DEF QuietInv, Listening, Waits, Unmoved
<1>9. RoomInv'
  BY <1>1, <1>3, RoomKept DEF Waits, Unmoved
<1> QED  BY <1>3, <1>5, <1>6, <1>7, <1>8, <1>9, CalmStep DEF IInv

LEMMA MoveItemFits ==
    ASSUME IInv, MoveItem
    PROVE  /\ job \in Job /\ ~Listening
           /\ \E m, t : Fits(m, t) /\ StartWait(m, t)
           /\ Unmoved
<1>1. job \in Job /\ ~Listening
  BY IdleOrJob DEF IInv, TypeOK, MoveItem, Listening
<1>2. Current \in Items /\ Processed < Len(job.items)
  BY <1>1, CurrentItem DEF MoveItem
<1>3. ~Refused(Current) /\ view[Current] # "unloaded"
  BY DEF MoveItem
<1>4. Current \in job.allowed /\ (job.action = "deposit" => job.slots # 0)
  BY <1>1, <1>3, JobFields DEF Refused
<1>5. job.casket \in job.touched /\ job.touched \subseteq Caskets
      /\ job.action \in {"deposit", "withdraw"}
  BY <1>1, JobFields, IdleFields DEF IInv, JobInv
<1>6. Unmoved
  BY DEF MoveItem, Unmoved, sessionVars, historyVars
<1>7. CASE job.action = "deposit" /\ view[Current] \notin {"main", job.casket}
  <2> DEFINE m == [action |-> "withdraw", casket |-> view[Current], item |-> Current]
             t == job.touched \cup {view[Current]}
  <2>1. StartWait(m, t)
    BY <1>7 DEF MoveItem
  <2>2. view[Current] \in Caskets
    BY <1>2, <1>3, <1>7 DEF IInv, TypeOK, Places
  <2>3. m \in Moves /\ m.action = "withdraw" /\ m.casket = view[Current] /\ m.item = Current
    BY <1>2, <2>2 DEF Moves
  <2>4. t \in SUBSET Caskets /\ job.touched \subseteq t /\ view[Current] \in t
    BY <1>5, <2>2
  <2> HIDE DEF m, t
  <2>5. Fits(m, t)
    BY <1>2, <1>4, <1>7, <2>3, <2>4 DEF Fits
  <2> QED  BY <1>1, <1>6, <2>1, <2>5
<1>8. CASE ~(job.action = "deposit" /\ view[Current] \notin {"main", job.casket})
  <2> DEFINE m == [action |-> job.action, casket |-> job.casket, item |-> Current]
             t == job.touched
  <2>1. StartWait(m, t)
    BY <1>8 DEF MoveItem
  <2>2. m \in Moves /\ m.action = job.action /\ m.casket = job.casket /\ m.item = Current
    BY <1>2, <1>5 DEF Moves
  <2>3. job.action = "withdraw" => view[Current] # "main"
    BY <1>3, <1>5, MainIsNoCasket DEF Refused
  <2>4. t \in SUBSET Caskets /\ job.touched \subseteq t /\ job.casket \in t
    BY <1>5
  <2> HIDE DEF m, t
  <2>5. Fits(m, t)
    BY <1>2, <1>4, <2>2, <2>3, <2>4 DEF Fits
  <2> QED  BY <1>1, <1>6, <2>1, <2>5
<1> QED  BY <1>7, <1>8

LEMMA SecondHalfFits ==
    ASSUME IInv, SecondHalf
    PROVE  /\ job \in Job /\ ~Listening
           /\ \E m, t : Fits(m, t) /\ StartWait(m, t)
           /\ Unmoved
<1>1. job \in Job /\ ~Listening
  BY IdleOrJob DEF IInv, TypeOK, SecondHalf, Listening
<1>2. /\ Processed < Len(job.items) /\ job.action = "deposit"
      /\ Current \in job.allowed /\ job.slots # 0
  BY DEF SecondHalf, IInv, JobInv, HandInv
<1>3. Current \in Items
  BY <1>1, <1>2, CurrentItem
<1>4. job.casket \in job.touched /\ job.touched \subseteq Caskets
  BY <1>1, JobFields, IdleFields DEF IInv, JobInv
<1> DEFINE m == [action |-> "deposit", casket |-> job.casket, item |-> Current]
<1>5. StartWait(m, job.touched)
  BY DEF SecondHalf
<1>6. m \in Moves /\ m.action = "deposit" /\ m.casket = job.casket /\ m.item = Current
  BY <1>3, <1>4 DEF Moves
<1> HIDE DEF m
<1>7. Fits(m, job.touched)
  BY <1>2, <1>4, <1>6 DEF Fits
<1>8. Unmoved
  BY DEF SecondHalf, Unmoved, sessionVars, historyVars
<1> QED  BY <1>1, <1>5, <1>7, <1>8

LEMMA StartWaitSteps ==
    ASSUME IInv, MoveItem \/ SecondHalf
    PROVE  IInv'
<1>1. /\ job \in Job /\ ~Listening
      /\ \E m, t : Fits(m, t) /\ StartWait(m, t)
      /\ Unmoved
  BY MoveItemFits, SecondHalfFits
<1>2. PICK m, t : Fits(m, t) /\ StartWait(m, t)
  BY <1>1
<1> QED  BY <1>1, <1>2, StartWaitStep

\* What holds during a wait.
LEMMA WaitFacts ==
    ASSUME IInv, Listening
    PROVE  /\ job \in Job /\ WaitInv
           /\ Current \in Items /\ Current \in ToSet(job.items)
           /\ Processed < Len(job.items)
           /\ Current \in job.allowed
           /\ job.action = "deposit" => job.slots \in Nat \ {0}
<1>1. job \in Job /\ WaitInv /\ Processed < Len(job.items)
      /\ Current \in job.allowed /\ (job.action = "deposit" => job.slots # 0)
  BY IdleFields DEF IInv, JobInv, HandInv, Listening
<1> QED  BY <1>1, CurrentItem, JobFields

LEMMA FinishStep ==
    ASSUME IInv, Listening, NEW ok \in BOOLEAN, NEW rest, rest \subseteq notices,
           Finish(ok, rest), Looked,
           UNCHANGED <<requests, counter, asked, saved, snapshot, unlisted, uncounted>>
    PROVE  IInv'
<1>1. /\ job \in Job /\ WaitInv
      /\ Current \in Items /\ Processed < Len(job.items) /\ Current \in job.allowed
      /\ job.action = "deposit" => job.slots \in Nat \ {0}
  BY WaitFacts
<1>2. Finished(ok)
  BY <1>1, Finishes
<1>3. /\ stray' = (stray \/ Outstanding(rest)) /\ notices' = rest
      /\ unsure' = IF ~ok /\ MoveDone(place, job.wait) THEN unsure \cup {Current} ELSE unsure
  BY DEF Finish
<1>4. Calm
  BY <1>2, <1>3 DEF Calm, Finished
<1>5. ~Listening'
  BY <1>2 DEF Finished, Listening
<1>6. TypeOK'
  <2>1. stray' \in BOOLEAN /\ unsure' \subseteq Items /\ notices' \subseteq Notices
    BY <1>1, <1>3 DEF IInv, TypeOK
  <2> QED  BY <2>1, <1>2 DEF IInv, TypeOK, Finished, Looked
<1>7. JobInv'
  <2>1. job' \in Job /\ job'.casket \in job'.touched
    BY <1>1, <1>2, IdleFields, JobFields DEF IInv, JobInv, Listening, Finished, SameCall
  <2>2. job'.phase = "between" => job'.action = "deposit"
    BY <1>1, <1>2, JobFields, MoveFields DEF WaitInv, Finished, SameCall
  <2>3. HandInv'
    <3> SUFFICES ASSUME job'.phase = "between"
                 PROVE  HandInv'
      BY <1>5 DEF HandInv, Listening
    <3>1. Processed' = Processed /\ Current' = Current /\ job'.slots = job.slots
      BY <1>2 DEF Finished, SameProgress, SameCall, Processed, Current
    <3> QED  BY <1>1, <1>2, <3>1 DEF HandInv, Finished, SameCall
  <2> QED  BY <2>1, <2>2, <2>3, <1>5 DEF JobInv
<1>8. OutInv'
  BY <1>5 DEF OutInv
<1>9. QuietInv'
  <2> SUFFICES ASSUME ~stray'
               PROVE  requests' = {} /\ notices' = {}
    BY <1>5 DEF QuietInv
  <2>1. ~stray /\ job.wait \notin requests /\ job.wait \notin rest
        /\ [full |-> job.wait] \notin rest
    BY <1>3 DEF Outstanding
  <2>2. requests \subseteq {job.wait} /\ notices \subseteq {job.wait, [full |-> job.wait]}
    BY <2>1 DEF IInv, QuietInv
  <2> QED  BY <1>3, <2>1, <2>2
<1>10. RoomInv'
  <2> SUFFICES ASSUME ~stray', unsure' = {}, job'.action = "deposit", job'.casket \notin uncounted'
               PROVE  Count(job.casket)' + job'.slots <= CasketCapacity
    BY <1>5 DEF RoomInv
  <2>1. ~stray /\ unsure = {} /\ job.action = "deposit" /\ job.casket \notin uncounted
    BY <1>2, <1>3 DEF Finished, SameCall
  <2> DEFINE k == Count(job.casket)
  <2>2. Count(job.casket)' = k /\ k \in Nat
    <3>1. job'.casket = job.casket /\ place' = place
      BY <1>2 DEF Finished, SameCall, Looked
    <3>2. Count(job.casket)' = Count(job.casket)
      BY <3>1 DEF Count, In
    <3> QED  BY <3>2, Counted DEF Count
  <2>3. IF job.wait.action = "deposit" /\ place[job.wait.item] = job.casket
        THEN k + job.slots <= CasketCapacity + 1
        ELSE k + job.slots <= CasketCapacity
    BY <2>1 DEF IInv, RoomInv
  <2>4. job.wait.action = "deposit" /\ place[job.wait.item] = job.casket => ok
    <3> SUFFICES ASSUME job.wait.action = "deposit", place[job.wait.item] = job.casket, ~ok
                 PROVE  FALSE
      OBVIOUS
    <3>1. MoveDone(place, job.wait)
      BY <2>1, <1>1 DEF MoveDone, WaitInv
    <3> QED  BY <1>3, <3>1
  <2>5. job'.slots = IF ok /\ job.wait.action = job.action THEN job.slots - 1 ELSE job.slots
    BY <1>1, <1>2, <2>1 DEF Finished, FreeAfter
  <2>6. job.slots \in Nat \ {0}
    BY <1>1, <2>1
  <2> HIDE DEF k
  <2> QED  BY <2>1, <2>2, <2>3, <2>4, <2>5, <2>6, ComponentMovesAssumption
<1> QED  BY <1>4, <1>6, <1>7, <1>8, <1>9, <1>10, CalmStep DEF IInv

LEMMA PollStep ==
    ASSUME IInv, Poll
    PROVE  IInv'
<1>1. Looked
  BY Looks DEF IInv, Poll, sessionVars
<1>2. PICK rest : rest = notices
  OBVIOUS
<1>3. Finish(TRUE, rest)
  BY <1>2 DEF Poll
<1> QED  BY <1>1, <1>2, <1>3, FinishStep DEF Poll, sessionVars

LEMMA HearStep ==
    ASSUME IInv, NEW n \in notices, Hear(n)
    PROVE  IInv'
<1>1. Looked
  BY Looks DEF IInv, Hear, sessionVars
<1>2. PICK rest : rest = notices \ {n}
  OBVIOUS
<1>3. CASE \E ok \in BOOLEAN : Finish(ok, rest)
  BY <1>1, <1>2, <1>3, FinishStep DEF Hear, sessionVars
<1>4. CASE notices' = notices \ {n} /\ UNCHANGED <<job, stray, unsure>>
  <2>1. Calm
    BY <1>1, <1>4 DEF Calm, Hear, SameCall, sessionVars
  <2> QED  BY <1>4, <2>1, StillStep DEF Hear
<1>5. \/ \E ok \in BOOLEAN : Finish(ok, rest)
      \/ notices' = notices \ {n} /\ UNCHANGED <<job, stray, unsure>>
  BY <1>2 DEF Hear
<1> QED  BY <1>3, <1>4, <1>5

LEMMA MoveTimeoutStep ==
    ASSUME IInv, MoveTimeout
    PROVE  IInv'
<1>1. PICK rows \in {view, Loaded({job.wait.casket})} :
         view' = rows /\ Finish(MoveDone(rows, job.wait), notices)
  BY DEF MoveTimeout
<1>2. Looked
  BY <1>1, Looks DEF IInv, MoveTimeout
<1>3. PICK rest, ok : rest = notices /\ ok = MoveDone(rows, job.wait)
  OBVIOUS
<1>4. Finish(ok, rest) /\ ok \in BOOLEAN
  BY <1>1, <1>3 DEF MoveDone
<1> QED  BY <1>2, <1>3, <1>4, FinishStep DEF MoveTimeout

-----------------------------------------------------------------------------
(* Jobs begin and end.                                                      *)

LEMMA MaxOfTwo ==
    ASSUME NEW a \in Nat, NEW b \in Nat
    PROVE  Max({a, b}) \in Nat /\ Max({a, b}) >= a /\ Max({a, b}) >= b
<1>1. \E x \in {a, b} : \A y \in {a, b} : x >= y
  <2>1. CASE a >= b
    BY <2>1
  <2>2. CASE ~(a >= b)
    BY <2>2
  <2> QED  BY <2>1, <2>2
<1>2. /\ Max({a, b}) \in {a, b}
      /\ \A y \in {a, b} : Max({a, b}) >= y
  BY <1>1 DEF Max
<1> QED  BY <1>2

LEMMA MinOfTwo ==
    ASSUME NEW a \in Nat, NEW b \in Nat
    PROVE  Min({a, b}) \in Nat /\ Min({a, b}) <= a
<1>1. \E x \in {a, b} : \A y \in {a, b} : x <= y
  <2>1. CASE a <= b
    BY <2>1
  <2>2. CASE ~(a <= b)
    BY <2>2
  <2> QED  BY <2>1, <2>2
<1>2. /\ Min({a, b}) \in {a, b}
      /\ \A y \in {a, b} : Min({a, b}) <= y
  BY <1>1 DEF Min
<1> QED  BY <1>2

LEMMA FreePlaces ==
    ASSUME NEW capacity \in Nat, NEW used \in Nat
    PROVE  /\ Free(capacity, used) \in Nat
           /\ \A k \in Nat : k <= used /\ k <= capacity => k + Free(capacity, used) <= capacity
BY DEF Free

\* What a withdrawal of these items from casket c takes out of it.
Taking(c, items, allowed) == {i \in ToSet(items) \cap allowed : place[i] = c}

LEMMA BeginStep ==
    ASSUME IInv, job = Idle,
           NEW action \in {"deposit", "withdraw"}, NEW c \in Caskets, NEW items \in Requested,
           NEW cs, NEW rows, rows = Loaded(cs),
           NEW allowed \in SUBSET Items, NEW slots \in Nat,
           Begin(action, c, items, rows, allowed, slots),
           action = "deposit" => \A i \in allowed : rows[i] # c,
           action = "deposit" /\ unsure = {} /\ c \notin uncounted
              => Count(c) + slots <= CasketCapacity,
           action = "withdraw" /\ unsure = {}
              => Count("main") + Cardinality(Taking(c, items, allowed)) <= MainCapacity
    PROVE  IInv'
<1>1. Begun(action, c, items, allowed, slots)
  BY Begins
<1>2. /\ UNCHANGED <<place, requests, notices, counter, saved, snapshot, stray, unsure,
                     unlisted, uncounted>>
      /\ view' = rows /\ asked + Len(items) <= MaxItems /\ asked' = asked + Len(items)
  BY DEF Begin, gcVars, historyVars
<1>3. Looked
  BY <1>2, Looks DEF IInv
<1>4. job.touched = {} /\ ToSet(job.items) = {} /\ ~Listening
  BY IdleFields, NoItems DEF Listening
<1>5. ~Listening' /\ ~(job'.phase \in {"waiting", "between"})
  BY <1>1 DEF Begun, Listening
<1>6. TypeOK'
  <2>1. asked' \in 0 .. MaxItems
    BY <1>2, Lists, ComponentMovesAssumption DEF IInv, TypeOK
  <2> QED  BY <1>1, <1>2, <1>3, <2>1 DEF IInv, TypeOK, Begun, Looked
<1>7. PlaceInv'
  BY <1>2 DEF IInv, PlaceInv, In, Capacity
<1>8. JobInv'
  BY <1>1, <1>5 DEF JobInv, HandInv, Begun
<1>9. AllowedInv'
  BY <1>1, <1>2 DEF AllowedInv, Begun
<1>10. OutInv'
  BY <1>5 DEF OutInv
<1>11. SnapshotInv'
  BY <1>2, <1>4 DEF IInv, SnapshotInv
<1>12. QuietInv'
  BY <1>2, <1>4, <1>5 DEF IInv, QuietInv
<1>13. CountInv'
  <2>1. \A d \in Caskets : Count(d)' = Count(d)
    BY <1>2 DEF Count, In
  <2>2. \A d \in Caskets : Shown(d) => Shown(d)'
    BY <1>2, <1>3 DEF Shown, Looked
  <2> QED  BY <1>2, <1>4, <2>1, <2>2 DEF IInv, CountInv
<1>14. RoomInv'
  <2>1. job'.casket = c /\ job'.action = action /\ job'.slots = slots
    BY <1>1 DEF Begun
  <2>2. Count(job.casket)' = Count(c)
    BY <1>2, <2>1 DEF Count, In
  <2> QED  BY <1>2, <1>5, <2>1, <2>2 DEF RoomInv
<1>15. MainShown'
  BY <1>2, <1>3, <1>4 DEF IInv, MainShown, Looked
<1>16. MainRoomInv'
  <2>1. job'.action = action /\ Count("main")' = Count("main")
    BY <1>1, <1>2 DEF Begun, Count, In
  <2>2. Takeable' = Taking(c, items, allowed)
    BY <1>1, <1>2 DEF Begun, Takeable, Taking, ToSet
  <2> QED  BY <1>2, <2>1, <2>2 DEF MainRoomInv
<1> QED  BY <1>6, <1>7, <1>8, <1>9, <1>10, <1>11, <1>12, <1>13, <1>14, <1>15, <1>16 DEF IInv

LEMMA BeginDepositStep ==
    ASSUME IInv, job = Idle, NEW c \in Caskets, NEW items \in Requested, BeginDeposit(c, items)
    PROVE  IInv'
<1>1. PICK cs \in SUBSET Caskets :
         Begin("deposit", c, items, Loaded(cs), {i \in Items : Loaded(cs)[i] \notin {c, "unloaded"}},
               Free(CasketCapacity, Occupied(Loaded(cs), c)))
  BY DEF BeginDeposit
<1>2. PICK rows : rows = Loaded(cs)
  OBVIOUS
<1>3. PICK allowed : allowed = {i \in Items : rows[i] \notin {c, "unloaded"}}
  OBVIOUS
<1>4. PICK used : used = Occupied(rows, c)
  OBVIOUS
<1>5. PICK slots : slots = Free(CasketCapacity, used)
  OBVIOUS
<1>6. Begin("deposit", c, items, rows, allowed, slots)
  BY <1>1, <1>2, <1>3, <1>4, <1>5
<1>7. Cardinality(In(rows, c)) \in Nat /\ counter[c] \in Nat
  BY Counted DEF IInv, TypeOK
<1>8. used \in Nat /\ used >= Cardinality(In(rows, c)) /\ used >= counter[c]
  BY <1>4, <1>7, MaxOfTwo DEF Occupied
<1>9. slots \in Nat
  BY <1>5, <1>8, FreePlaces, ComponentMovesAssumption
<1>10. unsure = {} /\ c \notin uncounted => Count(c) <= used
  <2> SUFFICES ASSUME unsure = {}, c \notin uncounted
               PROVE  Count(c) <= used
    OBVIOUS
  <2>1. Count(c) \in Nat
    BY CasketCount
  <2>2. Count(c) <= counter[c] \/ Shown(c)
    BY IdleFields DEF IInv, CountInv
  <2>3. Shown(c) => In(place, c) \subseteq In(rows, c)
    BY <1>2 DEF Shown, In, Loaded
  <2>4. Shown(c) => Count(c) <= Cardinality(In(rows, c))
    BY <2>3, CountMono DEF Count
  <2> QED  BY <1>7, <1>8, <2>1, <2>2, <2>4
<1>11. unsure = {} /\ c \notin uncounted => Count(c) + slots <= CasketCapacity
  BY <1>5, <1>8, <1>10, CasketCount, FreePlaces, ComponentMovesAssumption
<1>12. allowed \in SUBSET Items /\ \A i \in allowed : rows[i] # c
  BY <1>3
<1> QED  BY <1>2, <1>6, <1>9, <1>11, <1>12, BeginStep

LEMMA BeginWithdrawStep ==
    ASSUME IInv, job = Idle, NEW c \in Caskets, NEW items \in Requested, BeginWithdraw(c, items)
    PROVE  IInv'
<1>1. PICK rows, cs : rows = Loaded({c}) /\ cs = {c}
  OBVIOUS
<1>2. PICK wanted : wanted = ToSet(items) \cap In(rows, c)
  OBVIOUS
<1>3. PICK used : used = Cardinality(In(rows, "main"))
  OBVIOUS
<1>4. PICK free : free = Free(MainCapacity, used)
  OBVIOUS
<1>5. PICK clipped \in Clippings(wanted, free) :
         Begin("withdraw", c, items, rows, Items \ clipped, 0)
  BY <1>1, <1>2, <1>3, <1>4 DEF BeginWithdraw
<1>6. PICK allowed : allowed = Items \ clipped
  OBVIOUS
<1>7. used \in Nat /\ free \in Nat
  BY <1>3, <1>4, Counted, FreePlaces, ComponentMovesAssumption
<1>8. wanted \subseteq Items /\ clipped \subseteq wanted
      /\ Cardinality(wanted \ clipped) = Min({free, Cardinality(wanted)})
  BY <1>2, <1>5 DEF In, Clippings
<1>9. Cardinality(wanted \ clipped) <= free
  BY <1>7, <1>8, CountedSet, MinOfTwo
<1>10. unsure = {} => Count("main") + Cardinality(Taking(c, items, allowed)) <= MainCapacity
  <2> SUFFICES ASSUME unsure = {}
               PROVE  Count("main") + Cardinality(Taking(c, items, allowed)) <= MainCapacity
    OBVIOUS
  <2>1. In(place, "main") \subseteq In(rows, "main")
    <3>1. ToSet(job.items) = {}
      BY NoItems
    <3>2. \A i \in Items : place[i] = "main" => view[i] = "main"
      BY <3>1 DEF IInv, MainShown
    <3> QED  BY <1>1, <3>2 DEF In, Loaded
  <2>2. Count("main") <= used
    BY <1>3, <2>1, CountMono DEF Count
  <2>3. Count("main") \in Nat /\ Count("main") <= MainCapacity
    BY Counted DEF IInv, PlaceInv, Count, Places, Capacity
  <2>4. Count("main") + free <= MainCapacity
    BY <1>4, <1>7, <2>2, <2>3, FreePlaces, ComponentMovesAssumption
  <2>5. Taking(c, items, allowed) \subseteq wanted \ clipped
    BY <1>1, <1>2, <1>6, Lists DEF Taking, In, Loaded
  <2>6. Cardinality(Taking(c, items, allowed)) <= Cardinality(wanted \ clipped)
    BY <1>8, <2>5, CountedSet, FS_Subset
  <2>7. Cardinality(Taking(c, items, allowed)) \in Nat /\ Cardinality(wanted \ clipped) \in Nat
    BY <1>8, <2>5, CountedSet
  <2> QED  BY <1>7, <1>9, <2>3, <2>4, <2>6, <2>7, ComponentMovesAssumption
<1> QED  BY <1>1, <1>5, <1>6, <1>10, BeginStep

\* What the end of a job saves, from these rows.
Ends(rows) ==
    /\ view' = rows /\ snapshot' = Written(rows)
    /\ unsure' = (unsure \ ToSet(job.items)) \cup
                 {i \in Rewritten(rows) \ Missing(rows) : rows[i] # place[i]}
    /\ unlisted' = (unlisted \ Rewritten(rows)) \cup (Missing(rows) \cap Rewritten(rows))
    /\ uncounted' = {c \in uncounted : counter[c] # Count(c)} \cup
                    {c \in job.touched : /\ counter[c] < Count(c)
                                        /\ In(place, c) \cap Missing(rows) # {}}

LEMMA EndMoveEnds ==
    ASSUME IInv, EndMove
    PROVE  \E cs, rows : rows = Loaded(cs) /\ Ends(rows)
<1>1. PICK cs \in SUBSET (IF saved THEN job.touched ELSE Caskets) :
         LET rows == Loaded(cs)
             stale == {i \in Items \ Missing(rows) : rows[i] # place[i]}
         IN  /\ view' = rows
             /\ snapshot' = Written(rows)
             /\ unsure' = (unsure \ ToSet(job.items)) \cup (stale \cap Rewritten(rows))
             /\ unlisted' = (unlisted \ Rewritten(rows)) \cup (Missing(rows) \cap Rewritten(rows))
             /\ uncounted' = {c \in uncounted : counter[c] # Cardinality(In(place, c))} \cup
                             {c \in job.touched : /\ counter[c] < Cardinality(In(place, c))
                                                 /\ In(place, c) \cap Missing(rows) # {}}
  BY DEF EndMove
<1>2. PICK rows : rows = Loaded(cs)
  OBVIOUS
<1>3. PICK stale : stale = {i \in Items \ Missing(rows) : rows[i] # place[i]}
  OBVIOUS
<1>4. stale \cap Rewritten(rows) = {i \in Rewritten(rows) \ Missing(rows) : rows[i] # place[i]}
  BY <1>3 DEF Rewritten
<1>5. /\ view' = rows /\ snapshot' = Written(rows)
      /\ unsure' = (unsure \ ToSet(job.items)) \cup (stale \cap Rewritten(rows))
      /\ unlisted' = (unlisted \ Rewritten(rows)) \cup (Missing(rows) \cap Rewritten(rows))
  BY <1>1, <1>2, <1>3
<1>6. uncounted' = {c \in uncounted : counter[c] # Count(c)} \cup
                   {c \in job.touched : /\ counter[c] < Count(c)
                                       /\ In(place, c) \cap Missing(rows) # {}}
  BY <1>1, <1>2 DEF Count
<1> QED  BY <1>2, <1>4, <1>5, <1>6 DEF Ends

\* The rows are those the session has, or true; those of the main inventory are never missing.
LEMMA EndRows ==
    ASSUME IInv, NEW cs, NEW rows, rows = Loaded(cs), NEW i \in Items
    PROVE  /\ rows[i] \in {view[i], place[i]} /\ rows[i] \in Places \cup {"unloaded"}
           /\ place[i] \in Places /\ place[i] # "unloaded"
           /\ i \in Missing(rows) <=> rows[i] = "unloaded" /\ place[i] # "main"
<1>1. place[i] \in Places /\ place[i] # "unloaded"
  BY MainIsNoCasket DEF IInv, PlaceInv, Places
<1>2. rows[i] \in {view[i], place[i]}
  BY DEF Loaded
<1>3. view[i] \in Places \cup {"unloaded"}
  BY DEF IInv, TypeOK
<1> QED  BY <1>1, <1>2, <1>3 DEF Missing

LEMMA EndSnapshot ==
    ASSUME IInv, NEW cs, NEW rows, rows = Loaded(cs), Ends(rows), NEW i \in Items \ unsure'
    PROVE  snapshot'[i] = IF i \in unlisted' THEN {} ELSE {place[i]}
<1>1. /\ rows[i] \in {view[i], place[i]} /\ rows[i] \in Places \cup {"unloaded"}
      /\ place[i] \in Places /\ place[i] # "unloaded"
      /\ i \in Missing(rows) <=> rows[i] = "unloaded" /\ place[i] # "main"
  BY EndRows
<1>2. i \in Rewritten(rows) => i \in Missing(rows) \/ rows[i] = place[i]
  BY DEF Ends
<1>3. i \in unlisted' <=> IF i \in Rewritten(rows) THEN i \in Missing(rows) ELSE i \in unlisted
  BY DEF Ends
<1>4. CASE ~saved
  <2>1. snapshot'[i] = {rows[i]} \ {"unloaded"}
    BY <1>4 DEF Ends, Written
  <2>2. i \in Rewritten(rows)
    BY <1>4 DEF Rewritten
  <2> QED  BY <1>1, <1>2, <1>3, <2>1, <2>2
<1>5. CASE saved
  <2>1. snapshot'[i] = {p \in snapshot[i] : ~Affected(i, p)} \cup
                       {p \in {rows[i]} \ {"unloaded"} : Affected(i, p)}
    BY <1>5 DEF Ends, Written, Merged
  <2>2. i \in Rewritten(rows) <=> \E p \in snapshot[i] \cup {rows[i], place[i]} : Affected(i, p)
    BY <1>5 DEF Rewritten
  <2>3. CASE i \in ToSet(job.items)
    <3>1. \A p : Affected(i, p)
      BY <2>3 DEF Affected
    <3>2. i \in Rewritten(rows)
      BY <2>2, <3>1
    <3>3. snapshot'[i] = {rows[i]} \ {"unloaded"}
      BY <2>1, <3>1
    <3> QED  BY <1>1, <1>2, <1>3, <3>2, <3>3
  <2>4. CASE i \notin ToSet(job.items)
    <3>1. snapshot[i] = IF i \in unlisted THEN {} ELSE {place[i]}
      BY <2>4 DEF Ends, IInv, SnapshotInv
    <3>2. CASE i \notin Rewritten(rows)
      <4>1. \A p \in snapshot[i] \cup {rows[i], place[i]} : ~Affected(i, p)
        BY <2>2, <3>2
      <4>2. snapshot'[i] = snapshot[i]
        BY <2>1, <4>1
      <4> QED  BY <1>3, <3>1, <3>2, <4>2
    <3>3. CASE i \in Rewritten(rows) /\ i \in Missing(rows)
      <4>1. Affected(i, place[i]) \/ Affected(i, "unloaded")
        BY <1>1, <2>2, <3>1, <3>3
      <4>2. ~Affected(i, "unloaded")
        <5>1. "unloaded" \notin job.touched
          BY MainIsNoCasket, JobFields, IdleFields DEF IInv, TypeOK
        <5> QED  BY <2>4, <5>1 DEF Affected
      <4> QED  BY <1>1, <1>3, <2>1, <3>1, <3>3, <4>1, <4>2
    <3>4. CASE i \in Rewritten(rows) /\ i \notin Missing(rows)
      <4>1. rows[i] = place[i] /\ Affected(i, place[i])
        BY <1>2, <2>2, <3>1, <3>4
      <4> QED  BY <1>1, <1>3, <2>1, <3>1, <3>4, <4>1
    <3> QED  BY <3>2, <3>3, <3>4
  <2> QED  BY <2>3, <2>4
<1> QED  BY <1>4, <1>5 DEF IInv, TypeOK

LEMMA EndMainShown ==
    ASSUME IInv, NEW cs, NEW rows, rows = Loaded(cs), Ends(rows),
           NEW i \in Items \ unsure', place[i] = "main"
    PROVE  rows[i] = "main"
<1>1. /\ rows[i] \in {view[i], place[i]}
      /\ i \in Missing(rows) <=> rows[i] = "unloaded" /\ place[i] # "main"
  BY EndRows
<1>2. CASE i \in ToSet(job.items)
  <2>1. i \in Rewritten(rows)
    BY <1>2 DEF Rewritten, Affected
  <2> QED  BY <1>1, <2>1 DEF Ends
<1>3. CASE i \notin ToSet(job.items)
  <2>1. view[i] = "main"
    BY <1>3 DEF Ends, IInv, MainShown
  <2> QED  BY <1>1, <2>1
<1> QED  BY <1>2, <1>3

LEMMA EndCount ==
    ASSUME IInv, NEW cs, NEW rows, rows = Loaded(cs), Ends(rows),
           NEW c \in Caskets \ uncounted', ~(Count(c) <= counter[c]),
           NEW i \in Items, place[i] = c
    PROVE  rows[i] = c \/ (i \in unsure' /\ rows[i] # "unloaded")
<1>1. /\ rows[i] \in {view[i], place[i]} /\ rows[i] \in Places \cup {"unloaded"}
      /\ c # "main" /\ c # "unloaded"
      /\ i \in Missing(rows) <=> rows[i] = "unloaded" /\ place[i] # "main"
  BY EndRows, MainIsNoCasket
<1>2. i \in Rewritten(rows) => rows[i] = c \/ i \in Missing(rows) \/ i \in unsure'
  BY DEF Ends
<1>3. Count(c) \in Nat /\ counter[c] \in Nat
  BY CasketCount DEF IInv, TypeOK
<1>4. c \notin uncounted
  BY <1>3 DEF Ends
<1>5. CASE c \in job.touched
  <2>1. i \notin Missing(rows)
    BY <1>3, <1>5 DEF Ends, In
  <2>2. i \in Rewritten(rows)
    BY <1>5 DEF Rewritten, Affected
  <2> QED  BY <1>1, <1>2, <2>1, <2>2
<1>6. CASE c \notin job.touched
  <2>1. Shown(c)
    BY <1>4, <1>6 DEF IInv, CountInv
  <2>2. view[i] = c \/ (i \in unsure /\ view[i] # "unloaded")
    BY <2>1 DEF Shown
  <2>3. rows[i] # "unloaded" /\ i \notin Missing(rows)
    BY <1>1, <2>2
  <2>4. CASE i \in ToSet(job.items)
    <3>1. i \in Rewritten(rows)
      BY <2>4 DEF Rewritten, Affected
    <3> QED  BY <1>2, <2>3, <3>1
  <2>5. CASE i \notin ToSet(job.items)
    <3>1. i \in unsure => i \in unsure'
      BY <2>5 DEF Ends
    <3> QED  BY <1>1, <2>2, <2>3, <3>1
  <2> QED  BY <2>4, <2>5
<1> QED  BY <1>5, <1>6

LEMMA EndMoveStep ==
    ASSUME IInv, EndMove
    PROVE  IInv'
<1>1. PICK cs, rows : rows = Loaded(cs) /\ Ends(rows)
  BY EndMoveEnds
<1>2. /\ UNCHANGED <<place, requests, notices, counter, asked, stray>> /\ job' = Idle
      /\ saved' = TRUE /\ view' = rows
  BY <1>1 DEF EndMove, Ends, gcVars
<1>3. Looked
  BY <1>1, <1>2, Looks DEF IInv
<1>4. rows \in [Items -> Places \cup {"unloaded"}]
  BY <1>2, <1>3 DEF Looked
<1>5. ~Listening' /\ ~Listening /\ job'.action = "none" /\ job'.touched = {}
      /\ ToSet(job.items)' = {} /\ ~(job'.phase \in {"waiting", "between"})
  BY <1>2, IdleFields, NoItems DEF Listening, EndMove
<1>6. TypeOK'
  <2>1. snapshot' \in [Items -> SUBSET Places]
    BY <1>1, <1>4 DEF IInv, TypeOK, Ends, Written, Merged
  <2>2. unsure' \subseteq Items /\ unlisted' \subseteq Items
    BY <1>1 DEF IInv, TypeOK, Ends, Rewritten
  <2>3. uncounted' \subseteq Caskets
    BY <1>1, JobFields, IdleFields DEF IInv, TypeOK, Ends
  <2> QED  BY <1>2, <1>3, <2>1, <2>2, <2>3 DEF IInv, TypeOK, Looked
<1>7. PlaceInv'
  BY <1>2 DEF IInv, PlaceInv, In, Capacity
<1>8. JobInv'
  BY <1>2, <1>5 DEF JobInv, HandInv
<1>9. AllowedInv' /\ OutInv' /\ RoomInv' /\ MainRoomInv'
  BY <1>5 DEF AllowedInv, OutInv, RoomInv, MainRoomInv
<1>10. SnapshotInv'
  BY <1>1, <1>2, EndSnapshot DEF SnapshotInv
<1>11. MainShown'
  BY <1>1, <1>2, EndMainShown DEF MainShown
<1>12. QuietInv'
  BY <1>2, <1>5 DEF IInv, QuietInv
<1>13. CountInv'
  <2> SUFFICES ASSUME NEW c \in Caskets \ uncounted', ~(Count(c) <= counter[c])'
               PROVE  Shown(c)'
    BY DEF CountInv
  <2>1. ~(Count(c) <= counter[c])
    BY <1>2 DEF Count, In
  <2> QED  BY <1>1, <1>2, <2>1, EndCount DEF Shown
<1> QED  BY <1>6, <1>7, <1>8, <1>9, <1>10, <1>11, <1>12, <1>13 DEF IInv

-----------------------------------------------------------------------------
(* The invariant of the moves.                                              *)

LEMMA InitInv == Init => IInv
<1> SUFFICES ASSUME Init
             PROVE  IInv
  OBVIOUS
<1>1. PlaceInv
  BY DEF Init, PlaceInv, Capacity
<1>2. \A c \in Caskets : Count(c) \in 0 .. CasketCapacity /\ counter[c] = Count(c)
  <2> SUFFICES ASSUME NEW c \in Caskets
               PROVE  Count(c) \in 0 .. CasketCapacity /\ counter[c] = Count(c)
    OBVIOUS
  <2>1. Count(c) \in Nat
    BY Counted DEF Count
  <2>2. c \in Places /\ Capacity(c) = CasketCapacity
    BY MainIsNoCasket DEF Places, Capacity
  <2>3. Count(c) <= CasketCapacity
    BY <1>1, <2>2 DEF PlaceInv, Count
  <2>4. counter[c] = Count(c)
    BY DEF Init, Count
  <2> QED  BY <2>1, <2>3, <2>4, ComponentMovesAssumption
<1>3. counter \in [Caskets -> 0 .. CasketCapacity]
  <2>1. counter = [c \in Caskets |-> Count(c)]
    BY DEF Init, Count
  <2> QED  BY <1>2, <2>1
<1>4. TypeOK
  <2>1. view \in [Items -> Places \cup {"unloaded"}]
    BY DEF Init, Places
  <2>2. snapshot \in [Items -> SUBSET Places] /\ saved \in BOOLEAN /\ unlisted \subseteq Items
    BY DEF Init
  <2>3. 0 \in 0 .. MaxItems
    BY ComponentMovesAssumption
  <2>4. /\ place \in [Items -> Places] /\ job = Idle /\ asked = 0 /\ stray = FALSE
        /\ requests = {} /\ notices = {} /\ unsure = {} /\ uncounted = {}
    BY DEF Init
  <2> QED  BY <1>3, <2>1, <2>2, <2>3, <2>4 DEF TypeOK
<1>5. JobInv /\ AllowedInv /\ OutInv /\ QuietInv /\ RoomInv
  BY IdleFields DEF Init, JobInv, AllowedInv, OutInv, QuietInv, RoomInv, HandInv, Listening
<1>6. SnapshotInv /\ MainShown /\ MainRoomInv
  BY IdleFields DEF Init, SnapshotInv, MainShown, MainRoomInv
<1>7. CountInv
  BY <1>2 DEF CountInv
<1> QED  BY <1>1, <1>4, <1>5, <1>6, <1>7 DEF IInv

LEMMA StutterStep ==
    ASSUME IInv, UNCHANGED vars
    PROVE  IInv'
<1>1. Calm
  BY Looks DEF IInv, Calm, SameCall, vars, gcVars, sessionVars, serviceVars, historyVars
<1> QED  BY <1>1, StillStep DEF vars, gcVars, sessionVars, serviceVars, historyVars

LEMMA NextStep == IInv /\ [Next]_vars => IInv'
<1> SUFFICES ASSUME IInv, [Next]_vars
             PROVE  IInv'
  OBVIOUS
<1>1. CASE Gc
  <2>1. CASE \E i \in Items : SyncItem(i)
    BY <2>1, SyncItemStep
  <2>2. CASE \E i \in Items, p \in Places : OtherMove(i, p)
    BY <2>2, OtherMoveStep
  <2>3. CASE \E m \in requests : GcMove(m)
    BY <2>3, GcMoveStep
  <2>4. CASE \E c \in Caskets : SyncCounter(c)
    BY <2>4, SyncCounterStep
  <2> QED  BY <1>1, <2>1, <2>2, <2>3, <2>4 DEF Gc
<1>2. CASE /\ job = Idle
           /\ \E c \in Caskets, items \in Requested : BeginDeposit(c, items) \/ BeginWithdraw(c, items)
  BY <1>2, BeginDepositStep, BeginWithdrawStep
<1>3. CASE Advance
  BY <1>3, SkipItemStep, ReloadMissingStep, StartWaitSteps, PollStep, MoveTimeoutStep,
     LeaveLoopStep, EndMoveStep DEF Advance
<1>4. CASE \E n \in notices : Hear(n) \/ Unheard(n)
  BY <1>4, HearStep, UnheardStep
<1>5. CASE UNCHANGED vars
  BY <1>5, StutterStep
<1> QED  BY <1>1, <1>2, <1>3, <1>4, <1>5 DEF Next

\* A step of a preparation is one of the moves, or leaves them alone.
LEMMA PrepStepIsMove == [PrepNext]_allVars => [Next]_vars
<1> SUFFICES ASSUME [PrepNext]_allVars
             PROVE  [Next]_vars
  OBVIOUS
<1>1. CASE \E recipes \in Orders : Prepare(recipes)
  BY <1>1 DEF Prepare
<1>2. CASE \E c \in Caskets : WithdrawGroup(c)
  BY <1>2 DEF WithdrawGroup, Next
<1>3. CASE \E c \in Caskets : GroupFails(c)
  BY <1>3 DEF GroupFails
<1>4. CASE GroupEnds
  BY <1>4 DEF GroupEnds, Next, Advance
<1>5. CASE Others
  BY <1>5 DEF Others
<1>6. CASE UNCHANGED allVars
  BY <1>6 DEF allVars
<1> QED  BY <1>1, <1>2, <1>3, <1>4, <1>5, <1>6 DEF PrepNext

\* The invariant of the moves holds while preparations and the user's jobs compete.
THEOREM Inductive == PrepSpec => []IInv
<1>1. PrepInit => IInv
  BY InitInv DEF PrepInit
<1>2. IInv /\ [PrepNext]_allVars => IInv'
  BY NextStep, PrepStepIsMove
<1> QED  BY <1>1, <1>2, PTL DEF PrepSpec

\* SnapshotExact: between jobs the snapshot lists every item once and where it is, apart
\* from those of which the session had no row when a job saved what it had of them.
THEOREM SnapshotIsExact == PrepSpec => []SnapshotExact
<1>1. IInv => SnapshotExact
  BY NoItems DEF IInv, SnapshotInv, SnapshotExact
<1> QED  BY <1>1, Inductive, PTL

-----------------------------------------------------------------------------
(* What is reported as moved.                                               *)

LEMMA WaitTarget ==
    ASSUME IInv, Listening, job.wait.action = job.action
    PROVE  Target = Goal(job.wait) /\ job.wait.item = Current
BY WaitFacts DEF WaitInv, Target, Goal

\* What the session shows of the item of a wait is true.
LEMMA ShownIsTrue ==
    ASSUME IInv, Listening, job.wait.action = job.action, Current \notin unsure,
           NEW rows, rows[Current] \in {view[Current], place[Current]}, MoveDone(rows, job.wait)
    PROVE  place[Current] = Target
<1>1. rows[Current] = Goal(job.wait) /\ Target = Goal(job.wait) /\ job.wait.item = Current
  BY WaitTarget DEF MoveDone, Goal
<1>2. CASE job.action = "deposit"
  <2>1. Goal(job.wait) = job.casket
    BY <1>1, <1>2 DEF Target
  <2>2. Current \in job.allowed
    BY <1>2, WaitFacts
  <2> QED  BY <1>1, <1>2, <2>1, <2>2 DEF IInv, AllowedInv
<1>3. CASE job.action # "deposit"
  <2>1. Goal(job.wait) = "main" /\ job.wait.action = "withdraw"
    BY <1>1, <1>3, WaitFacts, JobFields DEF Target
  <2> QED  BY <1>1, <2>1 DEF IInv, OutInv
<1> QED  BY <1>2, <1>3

Reported == \A i \in job'.success \ job.success : stray \/ i \in unsure \/ place[i] = Target

LEMMA FinishReports ==
    ASSUME IInv, Listening, NEW ok \in BOOLEAN, NEW rest, Finish(ok, rest),
           ok /\ job.wait.action = job.action /\ ~stray /\ Current \notin unsure
              => place[Current] = Target
    PROVE  Reported
<1>1. Finished(ok)
  BY WaitFacts, Finishes
<1> QED  BY <1>1 DEF Finished, Reported

LEMMA SameSuccess ==
    ASSUME IInv,
           \/ UNCHANGED job \/ Goes \/ job' = Idle
           \/ \E m, t : Waits(m, t)
           \/ \E action, c, items, allowed, slots : Begun(action, c, items, allowed, slots)
    PROVE  Reported
BY IdleFields DEF Reported, Goes, Waits, SameProgress, Begun

LEMMA LoopStepGoes ==
    ASSUME IInv, SkipItem \/ ReloadMissing \/ LeaveLoop
    PROVE  Goes
<1>1. job \in Job
  BY IdleOrJob DEF IInv, TypeOK, SkipItem, ReloadMissing, LeaveLoop
<1>2. CASE SkipItem
  BY <1>1, <1>2, LoopGoes, CurrentItem DEF SkipItem
<1>3. CASE ReloadMissing
  BY <1>1, <1>3, LoopGoes, CurrentItem DEF ReloadMissing
<1>4. CASE LeaveLoop
  BY <1>1, <1>4, LoopGoes DEF LeaveLoop
<1> QED  BY <1>2, <1>3, <1>4

LEMMA BeginBegins ==
    ASSUME IInv, NEW c \in Caskets, NEW items \in Requested,
           BeginDeposit(c, items) \/ BeginWithdraw(c, items)
    PROVE  \E action, allowed, slots : Begun(action, c, items, allowed, slots)
<1>1. CASE BeginDeposit(c, items)
  <2>1. PICK cs \in SUBSET Caskets :
           Begin("deposit", c, items, Loaded(cs), {i \in Items : Loaded(cs)[i] \notin {c, "unloaded"}},
                 Free(CasketCapacity, Occupied(Loaded(cs), c)))
    BY <1>1 DEF BeginDeposit
  <2>2. PICK rows, used : rows = Loaded(cs) /\ used = Occupied(rows, c)
    OBVIOUS
  <2>3. PICK allowed, slots : /\ allowed = {i \in Items : rows[i] \notin {c, "unloaded"}}
                              /\ slots = Free(CasketCapacity, used)
    OBVIOUS
  <2>4. Begin("deposit", c, items, rows, allowed, slots)
    BY <2>1, <2>2, <2>3
  <2>5. Cardinality(In(rows, c)) \in Nat /\ counter[c] \in Nat
    BY Counted DEF IInv, TypeOK
  <2>6. used \in Nat
    BY <2>2, <2>5, MaxOfTwo DEF Occupied
  <2>7. slots \in Nat
    BY <2>3, <2>6, FreePlaces, ComponentMovesAssumption
  <2>8. allowed \in SUBSET Items
    BY <2>3
  <2> QED  BY <2>4, <2>7, <2>8, Begins
<1>2. CASE BeginWithdraw(c, items)
  <2>1. PICK clipped :
           Begin("withdraw", c, items, Loaded({c}), Items \ clipped, 0)
    BY <1>2 DEF BeginWithdraw
  <2>2. PICK rows, allowed : rows = Loaded({c}) /\ allowed = Items \ clipped
    OBVIOUS
  <2>3. Begin("withdraw", c, items, rows, allowed, 0)
    BY <2>1, <2>2
  <2> QED  BY <2>2, <2>3, Begins
<1> QED  BY <1>1, <1>2

LEMMA WaitStepWaits ==
    ASSUME IInv, MoveItem \/ SecondHalf
    PROVE  \E m, t : Fits(m, t) /\ StartWait(m, t) /\ Waits(m, t)
<1>1. job \in Job /\ \E m, t : Fits(m, t) /\ StartWait(m, t)
  BY MoveItemFits, SecondHalfFits
<1>2. PICK m, t : Fits(m, t) /\ StartWait(m, t)
  BY <1>1
<1>3. Waits(m, t)
  BY <1>1, <1>2, StartWaits DEF Fits
<1> QED  BY <1>2, <1>3

LEMMA PollReports ==
    ASSUME IInv, Poll
    PROVE  Reported
<1>1. PICK rest, rows : rest = notices /\ rows = view
  OBVIOUS
<1>2. Listening /\ Finish(TRUE, rest) /\ MoveDone(rows, job.wait)
  BY <1>1 DEF Poll
<1>3. job.wait.action = job.action /\ Current \notin unsure => place[Current] = Target
  BY <1>1, <1>2, ShownIsTrue
<1> QED  BY <1>2, <1>3, FinishReports

LEMMA MoveTimeoutReports ==
    ASSUME IInv, MoveTimeout
    PROVE  Reported
<1>1. PICK rows \in {view, Loaded({job.wait.casket})} : Finish(MoveDone(rows, job.wait), notices)
  BY DEF MoveTimeout
<1>2. PICK rest, ok : rest = notices /\ ok = MoveDone(rows, job.wait)
  OBVIOUS
<1>3. Listening /\ Finish(ok, rest) /\ ok \in BOOLEAN
  BY <1>1, <1>2 DEF MoveTimeout, MoveDone
<1>4. rows[Current] \in {view[Current], place[Current]}
  BY <1>1, <1>3, WaitFacts DEF Loaded
<1>5. ok /\ job.wait.action = job.action /\ Current \notin unsure => place[Current] = Target
  <2>1. ok => MoveDone(rows, job.wait)
    BY <1>2
  <2> QED  BY <1>3, <1>4, <2>1, ShownIsTrue
<1> QED  BY <1>3, <1>5, FinishReports

LEMMA HearReports ==
    ASSUME IInv, NEW n \in notices, Hear(n)
    PROVE  Reported
<1>1. Listening
  BY DEF Hear
<1>2. PICK rest : rest = notices \ {n}
  OBVIOUS
<1>3. CASE n \in Moves /\ n.action = job.wait.action /\ Finish(TRUE, rest)
  <2>1. ~stray /\ Current \notin unsure => place[Current] = Goal(job.wait)
    <3> SUFFICES ASSUME ~stray, Current \notin unsure
                 PROVE  place[Current] = Goal(job.wait)
      OBVIOUS
    <3>1. n = job.wait
      BY <1>1, <1>3, FullIsNoMove DEF IInv, QuietInv
    <3> QED  BY <1>1, <3>1, WaitFacts DEF IInv, QuietInv, WaitInv
  <2> QED  BY <1>1, <1>3, <2>1, WaitTarget, FinishReports
<1>4. CASE Finish(FALSE, rest)
  BY <1>1, <1>4, FinishReports
<1>5. CASE UNCHANGED job
  BY <1>5, SameSuccess
<1>6. \/ n \in Moves /\ n.action = job.wait.action /\ Finish(TRUE, rest)
      \/ Finish(FALSE, rest)
      \/ UNCHANGED job
  BY <1>2 DEF Hear
<1> QED  BY <1>3, <1>4, <1>5, <1>6

LEMMA NextReports == IInv /\ [Next]_vars => Reported
<1> SUFFICES ASSUME IInv, [Next]_vars
             PROVE  Reported
  OBVIOUS
<1>1. CASE Gc
  <2>1. UNCHANGED job
    BY <1>1 DEF Gc, SyncItem, OtherMove, GcMove, SyncCounter, serviceVars
  <2> QED  BY <2>1, SameSuccess
<1>2. CASE \E c \in Caskets, items \in Requested : BeginDeposit(c, items) \/ BeginWithdraw(c, items)
  BY <1>2, BeginBegins, SameSuccess
<1>3. CASE SkipItem \/ ReloadMissing \/ LeaveLoop
  BY <1>3, LoopStepGoes, SameSuccess
<1>4. CASE MoveItem \/ SecondHalf
  BY <1>4, WaitStepWaits, SameSuccess
<1>5. CASE EndMove
  BY <1>5, SameSuccess DEF EndMove
<1>6. CASE \E n \in notices : Hear(n)
  BY <1>6, HearReports
<1>7. CASE \E n \in notices : Unheard(n)
  BY <1>7, SameSuccess DEF Unheard, serviceVars
<1>8. CASE UNCHANGED vars
  BY <1>8, SameSuccess DEF vars, serviceVars
<1> QED  BY <1>1, <1>2, <1>3, <1>4, <1>5, <1>6, <1>7, <1>8, PollReports, MoveTimeoutReports
         DEF Next, Advance

\* ReportedMoved: an item is reported as moved only when the GC has it where the job wants it.
THEOREM ReportsWhatMoved == PrepSpec => ReportedMoved
<1>1. IInv /\ [PrepNext]_allVars =>
          [\A i \in job'.success \ job.success :
              stray \/ i \in unsure \/ place[i] = Target]_vars
  BY PrepStepIsMove, NextReports DEF Reported
<1> QED  BY <1>1, Inductive, PTL DEF PrepSpec, ReportedMoved

-----------------------------------------------------------------------------
(* The room of a casket, and of the main inventory.                         *)

Asked ==
    \A m \in requests' \ requests :
        m.action = "deposit" =>
            stray \/ unsure # {} \/ m.casket \in uncounted \/ Room(place, m.casket)

LEMMA WaitAsks ==
    ASSUME IInv, MoveItem \/ SecondHalf
    PROVE  Asked
<1>1. PICK m, t : Fits(m, t) /\ StartWait(m, t)
  BY WaitStepWaits
<1>2. requests' = requests \cup {m} /\ job \in Job /\ ~Listening
  BY <1>1, MoveItemFits, SecondHalfFits DEF StartWait
<1> SUFFICES ASSUME m.action = "deposit", ~stray, unsure = {}, m.casket \notin uncounted
             PROVE  Room(place, m.casket)
  BY <1>2 DEF Asked
<1>3. job.action = "deposit" /\ m.casket = job.casket /\ job.slots # 0
  BY <1>1, <1>2, JobFields DEF Fits
<1>4. job.slots \in Nat /\ job.casket \in Caskets /\ job.casket # "main"
  BY <1>2, JobFields, MainIsNoCasket
<1>5. Count(job.casket) + job.slots <= CasketCapacity
  BY <1>2, <1>3 DEF IInv, RoomInv
<1>6. Count(job.casket) \in Nat
  BY Counted DEF Count
<1>7. Count(job.casket) < CasketCapacity
  BY <1>3, <1>4, <1>5, <1>6, ComponentMovesAssumption
<1> QED  BY <1>3, <1>4, <1>7 DEF Room, Count

MainAsked ==
    \A m \in requests' \ requests :
        m.action = "withdraw" /\ m.casket = job.casket /\ place[m.item] = m.casket =>
            unsure # {} \/ Room(place, "main")

LEMMA WaitAsksMain ==
    ASSUME IInv, MoveItem \/ SecondHalf
    PROVE  MainAsked
<1>1. PICK m, t : Fits(m, t) /\ StartWait(m, t)
  BY WaitStepWaits
<1>2. requests' = requests \cup {m} /\ job \in Job
  BY <1>1, MoveItemFits, SecondHalfFits DEF StartWait
<1> SUFFICES ASSUME m.action = "withdraw", m.casket = job.casket, place[m.item] = m.casket,
                    unsure = {}
             PROVE  Room(place, "main")
  BY <1>2 DEF MainAsked
<1>3. job.action = "withdraw" /\ m.item = Current /\ Current \in job.allowed
  BY <1>1 DEF Fits
<1>4. Current \in Takeable /\ Takeable \subseteq Items
  BY <1>1, <1>2, <1>3, CurrentItem, JobFields DEF Fits, Takeable
<1>5. Cardinality(Takeable) \in Nat /\ Cardinality(Takeable) # 0
  <2>1. IsFiniteSet(Takeable) /\ Cardinality(Takeable) \in Nat
    BY <1>4, CountedSet
  <2> QED  BY <1>4, <2>1, FS_EmptySet
<1>6. Count("main") + Cardinality(Takeable) <= MainCapacity
  BY <1>3 DEF IInv, MainRoomInv
<1>7. Count("main") \in Nat
  BY Counted DEF Count
<1>8. Count("main") < MainCapacity
  BY <1>5, <1>6, <1>7, ComponentMovesAssumption
<1> QED  BY <1>8 DEF Room, Count

\* Only the start of a wait sends a request.
LEMMA OnlyWaitsAsk == [Next]_vars => MoveItem \/ SecondHalf \/ requests' \subseteq requests
<1> SUFFICES ASSUME [Next]_vars, ~(MoveItem \/ SecondHalf)
             PROVE  requests' \subseteq requests
  OBVIOUS
<1>1. CASE Gc
  BY <1>1 DEF Gc, SyncItem, OtherMove, GcMove, SyncCounter, gcVars
<1>2. CASE \E c \in Caskets, items \in Requested : BeginDeposit(c, items) \/ BeginWithdraw(c, items)
  BY <1>2 DEF BeginDeposit, BeginWithdraw, Begin, gcVars
<1>3. CASE SkipItem \/ ReloadMissing \/ LeaveLoop \/ EndMove \/ Poll \/ MoveTimeout
  BY <1>3 DEF SkipItem, ReloadMissing, LeaveLoop, EndMove, Poll, MoveTimeout, gcVars
<1>4. CASE \E n \in notices : Hear(n) \/ Unheard(n)
  BY <1>4 DEF Hear, Unheard
<1>5. CASE UNCHANGED vars
  BY <1>5 DEF vars, gcVars
<1> QED  BY <1>1, <1>2, <1>3, <1>4, <1>5 DEF Next, Advance

LEMMA NextAsks == IInv /\ [Next]_vars => Asked /\ MainAsked
<1> SUFFICES ASSUME IInv, [Next]_vars
             PROVE  Asked /\ MainAsked
  OBVIOUS
<1>1. CASE MoveItem \/ SecondHalf
  BY <1>1, WaitAsks, WaitAsksMain
<1>2. CASE requests' \subseteq requests
  BY <1>2 DEF Asked, MainAsked
<1> QED  BY <1>1, <1>2, OnlyWaitsAsk

\* CapacityKept: the service asks for no place in a full casket.
THEOREM AsksForRoomOnly == PrepSpec => CapacityKept
<1>1. IInv /\ [PrepNext]_allVars =>
          [\A m \in requests' \ requests :
              m.action = "deposit" =>
                 stray \/ unsure # {} \/ m.casket \in uncounted \/ Room(place, m.casket)]_vars
  BY PrepStepIsMove, NextAsks DEF Asked
<1> QED  BY <1>1, Inductive, PTL DEF PrepSpec, CapacityKept

\* MainCapacityKept: nor does a withdrawal ask for an item while the main inventory is full.
THEOREM AsksForMainRoomOnly == PrepSpec => MainCapacityKept
<1>1. IInv /\ [PrepNext]_allVars =>
          [\A m \in requests' \ requests :
              m.action = "withdraw" /\ m.casket = job.casket /\ place[m.item] = m.casket =>
                 unsure # {} \/ Room(place, "main")]_vars
  BY PrepStepIsMove, NextAsks DEF MainAsked
<1> QED  BY <1>1, Inductive, PTL DEF PrepSpec, MainCapacityKept

-----------------------------------------------------------------------------
(* The preparation.                                                         *)

LEMMA PrepFields ==
    ASSUME NEW q \in Prep
    PROVE  /\ q.phase \in {"none", "between", "moving", "over"}
           /\ q.recipes \subseteq Requested /\ q.rows \in Rows
           /\ q.groups \in [Caskets -> SUBSET Items] /\ q.failures \subseteq Items
           /\ q.paused \in BOOLEAN /\ q.ready \subseteq Requested /\ q.timely \in BOOLEAN
BY DEF Prep, Orders

\* The rows show the items of the ready recipes in the main inventory, or, after a pause,
\* not at all.
ReadyOK(q) ==
    \A r \in q.ready : \A i \in ToSet(r) :
        i \in Items /\ (q.rows[i] = "main" \/ (q.paused /\ q.rows[i] = "none"))

LEMMA ReadyItems ==
    ASSUME NEW q \in Prep, NEW r \in Requested, Ready(q, r), NEW i \in ToSet(r)
    PROVE  i \in Items /\ (q.rows[i] = "main" \/ (q.paused /\ q.rows[i] = "none"))
<1>1. PICK k \in DOMAIN r : i = r[k]
  BY DEF ToSet
<1>2. i \in Items
  BY Lists
<1>3. q.rows[i] \in Places \cup {"none"}
  BY <1>2, PrepFields DEF Rows
<1>4. CASE Lacking(q, r) = {}
  BY <1>1, <1>2, <1>4 DEF Lacking
<1>5. CASE q.paused /\ \A l \in DOMAIN r : q.rows[r[l]] \notin Caskets
  BY <1>1, <1>2, <1>3, <1>5 DEF Places
<1> QED  BY <1>4, <1>5 DEF Ready

Follows(w, q) ==
    /\ w \in Prep /\ w.phase \in {"between", "over"}
    /\ w.rows = q.rows /\ w.timely = q.timely
    /\ w.phase = "over" => ReadyOK(w)

LEMMA SortedFollows ==
    ASSUME NEW q \in Prep
    PROVE  Follows(Sorted(q), q)
<1> DEFINE s == {r \in q.recipes : Ready(q, r)}
           w == [q EXCEPT !.phase = "over", !.ready = s]
<1>1. s \subseteq Requested
  BY PrepFields
<1>2. \A r \in s : r \in Requested /\ Ready(q, r)
  BY PrepFields
<1>3. Sorted(q) = w
  BY DEF Sorted
<1> HIDE DEF s
<1>4. w \in Prep
  BY <1>1 DEF Prep
<1>5. w.phase = "over" /\ w.rows = q.rows /\ w.timely = q.timely /\ w.ready = s
      /\ w.paused = q.paused
  BY DEF Prep
<1> HIDE DEF w
<1>6. ReadyOK(w)
  BY <1>2, <1>5, ReadyItems DEF ReadyOK
<1> QED  BY <1>3, <1>4, <1>5, <1>6 DEF Follows

LEMMA ContinuedFollows ==
    ASSUME NEW q \in Prep, NEW w \in Continued(q)
    PROVE  Follows(w, q)
<1> DEFINE b == [q EXCEPT !.phase = "between"]
           p == [q EXCEPT !.paused = TRUE]
<1>1. w \in {Sorted(q), b, Sorted(p)}
  BY DEF Continued
<1>2. b \in Prep /\ b.phase = "between" /\ b.rows = q.rows /\ b.timely = q.timely
  BY DEF Prep
<1>3. p \in Prep /\ p.rows = q.rows /\ p.timely = q.timely
  BY DEF Prep
<1> HIDE DEF b, p
<1>4. CASE w = Sorted(q)
  BY <1>4, SortedFollows
<1>5. CASE w = b
  BY <1>2, <1>5 DEF Follows
<1>6. CASE w = Sorted(p)
  <2>1. Follows(Sorted(p), p)
    BY <1>3, SortedFollows
  <2> QED  BY <1>3, <1>6, <2>1 DEF Follows
<1> QED  BY <1>1, <1>4, <1>5, <1>6

\* Rows of lists that show each item where it is, or not at all.
LEMMA RowsTrue ==
    ASSUME NEW lists, NEW S, NEW where, NEW rows \in RowMaps(lists),
           \A i \in Items \ S : lists[i] \in {{}, {where[i]}}
    PROVE  rows \in Rows /\ \A i \in Items \ S : rows[i] \in {where[i], "none"}
<1>1. rows \in Rows /\ \A i \in Items : IF lists[i] = {} THEN rows[i] = "none" ELSE rows[i] \in lists[i]
  BY DEF RowMaps
<1> QED  BY <1>1

\* While there is no job, items move unseen only.
LEMMA IdleStep ==
    ASSUME IInv, Next, job = Idle, job' = Idle
    PROVE  unsure \subseteq unsure' /\ \A i \in Items \ unsure' : place'[i] = place[i]
<1>1. ~Listening /\ job.phase = "idle"
  BY IdleFields DEF Listening
<1>2. CASE Gc
  <2>1. CASE \E i \in Items : SyncItem(i)
    BY <2>1 DEF SyncItem, gcVars, historyVars
  <2>2. CASE \E i \in Items, p \in Places : OtherMove(i, p)
    BY <2>2 DEF OtherMove, MovedTo, IInv, PlaceInv
  <2>3. CASE \E m \in requests : GcMove(m)
    BY <1>1, <2>3 DEF GcMove, MovedTo, Awaited, IInv, PlaceInv
  <2>4. CASE \E c \in Caskets : SyncCounter(c)
    BY <2>4 DEF SyncCounter, gcVars
  <2> QED  BY <1>2, <2>1, <2>2, <2>3, <2>4 DEF Gc
<1>3. CASE \E c \in Caskets, items \in Requested : BeginDeposit(c, items) \/ BeginWithdraw(c, items)
  BY <1>3 DEF BeginDeposit, BeginWithdraw, Begin, gcVars, historyVars
<1>4. CASE Advance
  BY <1>1, <1>4 DEF Advance, SkipItem, ReloadMissing, MoveItem, SecondHalf, Poll, MoveTimeout,
                    LeaveLoop, EndMove
<1>5. CASE \E n \in notices : Hear(n) \/ Unheard(n)
  BY <1>1, <1>5 DEF Hear, Unheard, historyVars
<1> QED  BY <1>2, <1>3, <1>4, <1>5 DEF Next

PrepOK == prep \in Prep /\ PrepInv

ReadyNow ==
    prep.phase # "over" /\ prep'.phase = "over" /\ prep'.timely =>
        \A r \in prep'.ready : \A i \in ToSet(r) :
            \/ place'[i] = "main" \/ i \in unsure'
            \/ prep'.paused /\ prep'.rows[i] = "none"

\* After this step the rows of q, unless another job has run, are true.
TrueAfter(q) ==
    q.timely => job' = Idle /\ \A i \in Items \ unsure' : q.rows[i] \in {place'[i], "none"}

LEMMA Concludes ==
    ASSUME NEW q \in Prep, TrueAfter(q), prep' \in Continued(q)
    PROVE  PrepOK' /\ ReadyNow
<1>1. PICK w : w = prep'
  OBVIOUS
<1>2. Follows(w, q)
  BY <1>1, ContinuedFollows
<1>3. PrepOK'
  BY <1>1, <1>2 DEF PrepOK, PrepInv, Follows, TrueAfter
<1>4. ReadyNow
  <2> SUFFICES ASSUME w.phase = "over", w.timely, NEW r \in w.ready, NEW i \in ToSet(r),
                      i \notin unsure'
               PROVE  place'[i] = "main" \/ (w.paused /\ w.rows[i] = "none")
    BY <1>1 DEF ReadyNow
  <2>1. i \in Items /\ (w.rows[i] = "main" \/ (w.paused /\ w.rows[i] = "none"))
    BY <1>2 DEF Follows, ReadyOK
  <2>2. w.rows[i] \in {place'[i], "none"}
    BY <1>2, <2>1 DEF Follows, TrueAfter
  <2> QED  BY <2>1, <2>2
<1> QED  BY <1>3, <1>4

LEMMA PrepareStep ==
    ASSUME IInv, PrepOK, NEW recipes \in Orders, Prepare(recipes)
    PROVE  PrepOK' /\ ReadyNow
<1>1. PICK rows \in RowMaps(snapshot) :
         prep' \in Continued([prep EXCEPT !.recipes = recipes, !.rows = rows,
                                 !.groups = [c \in Caskets |->
                                    {i \in UNION {ToSet(r) : r \in recipes} : rows[i] = c}],
                                 !.timely = job = Idle])
  BY DEF Prepare
<1> DEFINE items == UNION {ToSet(r) : r \in recipes}
           groups == [c \in Caskets |-> {i \in items : rows[i] = c}]
           idle == job = Idle
           q == [prep EXCEPT !.recipes = recipes, !.rows = rows, !.groups = groups,
                             !.timely = idle]
<1>2. UNCHANGED <<place, job, unsure>>
  BY DEF Prepare, vars, gcVars, serviceVars, historyVars
<1>3. items \subseteq Items
  BY Lists DEF Orders
<1>4. groups \in [Caskets -> SUBSET Items] /\ idle \in BOOLEAN
  BY <1>3
<1>5. prep' \in Continued(q)
  BY <1>1
<1>6. rows \in Rows
  BY DEF RowMaps
<1>7. idle => job = Idle
  OBVIOUS
<1> HIDE DEF groups, idle
<1>8. q \in Prep /\ q.rows = rows /\ q.timely = idle
  BY <1>4, <1>6 DEF PrepOK, Prep
<1>9. PICK u : u = q
  OBVIOUS
<1> HIDE DEF q
<1>10. TrueAfter(u)
  <2> SUFFICES ASSUME job = Idle
               PROVE  \A i \in Items \ unsure : rows[i] \in {place[i], "none"}
    BY <1>2, <1>7, <1>8, <1>9 DEF TrueAfter
  <2>1. \A i \in Items \ unsure : snapshot[i] \in {{}, {place[i]}}
    BY NoItems DEF IInv, SnapshotInv
  <2> QED  BY <2>1, RowsTrue
<1> QED  BY <1>5, <1>8, <1>9, <1>10, Concludes

LEMMA WithdrawGroupStep ==
    ASSUME PrepOK, NEW c \in Caskets, WithdrawGroup(c)
    PROVE  PrepOK' /\ ReadyNow
<1> DEFINE g == [prep.groups EXCEPT ![c] = {}]
           w == [prep EXCEPT !.phase = "moving", !.groups = g]
<1>1. prep.groups \in [Caskets -> SUBSET Items]
  BY PrepFields DEF PrepOK
<1>2. g \in [Caskets -> SUBSET Items]
  BY <1>1
<1>3. prep' = w
  BY DEF WithdrawGroup, PrepOK, Prep
<1> HIDE DEF g
<1>4. w \in Prep /\ w.phase = "moving"
  BY <1>2 DEF PrepOK, Prep
<1> QED  BY <1>3, <1>4 DEF PrepOK, PrepInv, ReadyNow

LEMMA GroupFailsStep ==
    ASSUME IInv, PrepOK, NEW c \in Caskets, GroupFails(c)
    PROVE  PrepOK' /\ ReadyNow
<1> DEFINE g == [prep.groups EXCEPT ![c] = {}]
           f == prep.failures \cup prep.groups[c]
           q == [prep EXCEPT !.failures = f, !.groups = g]
<1>1. prep.groups \in [Caskets -> SUBSET Items] /\ prep.failures \subseteq Items
  BY PrepFields DEF PrepOK
<1>2. g \in [Caskets -> SUBSET Items] /\ f \subseteq Items
  BY <1>1
<1>3. prep' \in Continued(q)
  BY DEF GroupFails, PrepOK, Prep
<1> HIDE DEF g, f
<1>4. q \in Prep /\ q.rows = prep.rows /\ q.timely = prep.timely
  BY <1>2 DEF PrepOK, Prep
<1>5. PICK u : u = q
  OBVIOUS
<1> HIDE DEF q
<1>6. UNCHANGED <<place, job, unsure>> /\ prep.phase = "between"
  BY DEF GroupFails, vars, gcVars, serviceVars, historyVars
<1>7. TrueAfter(u)
  BY <1>4, <1>5, <1>6 DEF TrueAfter, PrepOK, PrepInv
<1> QED  BY <1>3, <1>4, <1>5, <1>7, Concludes

LEMMA GroupEndsStep ==
    ASSUME IInv, IInv', PrepOK, GroupEnds
    PROVE  PrepOK' /\ ReadyNow
<1>1. PICK rows \in RowMaps(snapshot') :
         prep' \in Continued([prep EXCEPT !.rows = rows, !.failures = @ \cup job.failed,
                                          !.paused = Processed < Len(job.items),
                                          !.timely = TRUE])
  BY DEF GroupEnds
<1> DEFINE f == prep.failures \cup job.failed
           b == Processed < Len(job.items)
           q == [prep EXCEPT !.rows = rows, !.failures = f, !.paused = b, !.timely = TRUE]
<1>2. f \subseteq Items /\ b \in BOOLEAN
  BY PrepFields, JobFields, IdleFields DEF PrepOK, IInv, TypeOK
<1>3. rows \in Rows
  BY DEF RowMaps
<1>4. prep' \in Continued(q)
  BY <1>1 DEF PrepOK, Prep
<1> HIDE DEF f, b
<1>5. q \in Prep /\ q.rows = rows
  BY <1>2, <1>3 DEF PrepOK, Prep
<1>6. PICK u : u = q
  OBVIOUS
<1> HIDE DEF q
<1>7. job' = Idle
  BY DEF GroupEnds, EndMove
<1>8. \A i \in Items \ unsure' : snapshot'[i] \in {{}, {place'[i]}}
  <2>1. ToSet(job.items)' = {}
    BY <1>7, NoItems
  <2> QED  BY <2>1 DEF IInv, SnapshotInv
<1>9. PICK lists, where, S : lists = snapshot' /\ where = place' /\ S = unsure'
  OBVIOUS
<1>10. \A i \in Items \ S : rows[i] \in {where[i], "none"}
  <2>1. rows \in RowMaps(lists)
    BY <1>1, <1>9 DEF RowMaps
  <2>2. \A i \in Items \ S : lists[i] \in {{}, {where[i]}}
    BY <1>8, <1>9
  <2> QED  BY <2>1, <2>2, RowsTrue
<1>11. TrueAfter(u)
  BY <1>5, <1>6, <1>7, <1>9, <1>10 DEF TrueAfter
<1> QED  BY <1>4, <1>5, <1>6, <1>11, Concludes

LEMMA OthersStep ==
    ASSUME IInv, PrepOK, Others
    PROVE  PrepOK' /\ ReadyNow
<1>1. CASE prep.phase = "between" /\ job = Idle /\ job' # Idle
  <2> DEFINE w == [prep EXCEPT !.timely = FALSE]
  <2>1. w \in Prep /\ w.timely = FALSE
    BY DEF PrepOK, Prep
  <2>2. prep' = w
    BY <1>1 DEF Others
  <2> HIDE DEF w
  <2> QED  BY <2>1, <2>2 DEF PrepOK, PrepInv, ReadyNow
<1>2. CASE ~(prep.phase = "between" /\ job = Idle /\ job' # Idle)
  <2>1. prep' = prep /\ Next /\ prep.phase # "over"
    BY <1>2 DEF Others
  <2>2. PrepInv'
    <3> SUFFICES ASSUME prep.phase = "between", prep.timely
                 PROVE  job' = Idle
                        /\ \A i \in Items \ unsure' : prep.rows[i] \in {place'[i], "none"}
      BY <2>1 DEF PrepInv
    <3>1. job = Idle /\ \A i \in Items \ unsure : prep.rows[i] \in {place[i], "none"}
      BY DEF PrepOK, PrepInv
    <3>2. job' = Idle
      BY <1>2, <3>1
    <3> QED  BY <2>1, <3>1, <3>2, IdleStep
  <2> QED  BY <2>1, <2>2 DEF PrepOK, ReadyNow
<1> QED  BY <1>1, <1>2

LEMMA PrepStep == IInv /\ IInv' /\ PrepOK /\ [PrepNext]_allVars => PrepOK' /\ [ReadyNow]_allVars
<1> SUFFICES ASSUME IInv, IInv', PrepOK, [PrepNext]_allVars
             PROVE  PrepOK' /\ [ReadyNow]_allVars
  OBVIOUS
<1>1. CASE UNCHANGED allVars
  <2>1. UNCHANGED <<place, job, unsure, prep>>
    BY <1>1 DEF allVars, vars, gcVars, serviceVars, historyVars
  <2> QED  BY <1>1, <2>1 DEF PrepOK, PrepInv
<1>2. CASE PrepNext
  BY <1>2, PrepareStep, WithdrawGroupStep, GroupFailsStep, GroupEndsStep, OthersStep DEF PrepNext
<1> QED  BY <1>1, <1>2

LEMMA InitPrep == PrepInit => PrepOK
<1> SUFFICES ASSUME PrepInit
             PROVE  PrepOK
  OBVIOUS
<1>1. /\ [i \in Items |-> "none"] \in Rows
      /\ NoGroups \in [Caskets -> SUBSET Items]
  BY DEF Rows, NoGroups
<1>2. prep \in Prep /\ prep.phase = "none"
  BY <1>1 DEF PrepInit, Prep
<1> QED  BY <1>2 DEF PrepOK, PrepInv

\* The rows of a preparation between its jobs are true, unless another job has run.
THEOREM PrepInductive == PrepSpec => []PrepOK
<1>1. PrepInit => PrepOK
  BY InitPrep
<1>2. IInv /\ IInv' /\ PrepOK /\ [PrepNext]_allVars => PrepOK'
  BY PrepStep
<1> QED  BY <1>1, <1>2, Inductive, PTL DEF PrepSpec

\* PrepTypeOK: every variable keeps its type.
THEOREM TypeCorrect == PrepSpec => []PrepTypeOK
<1>1. IInv /\ PrepOK => PrepTypeOK
  BY DEF IInv, PrepOK, PrepTypeOK
<1> QED  BY <1>1, Inductive, PrepInductive, PTL

\* ReadyInMain: a recipe that is handed on has all its items in the main inventory.
THEOREM HandsOnReadyRecipes == PrepSpec => ReadyInMain
<1>1. IInv /\ IInv' /\ PrepOK /\ [PrepNext]_allVars =>
          [prep.phase # "over" /\ prep'.phase = "over" /\ prep'.timely =>
             \A r \in prep'.ready : \A i \in ToSet(r) :
                \/ place'[i] = "main" \/ i \in unsure'
                \/ prep'.paused /\ prep'.rows[i] = "none"]_allVars
  BY PrepStep DEF ReadyNow
<1> QED  BY <1>1, Inductive, PrepInductive, PTL DEF PrepSpec, ReadyInMain
=============================================================================
