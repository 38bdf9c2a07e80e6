---------------------------- MODULE ComponentMoves ----------------------------
(***************************************************************************)
(* services/componentOpsService.js: moves of items into, out of and        *)
(* between the storage units ("caskets", components in the code) of one    *)
(* account, run against its Game Coordinator (GC) session.                 *)
(*                                                                         *)
(* A wait for a move takes any success notification of its kind for its    *)
(* own, and it ends by a poll of csgo.inventory, by a notification or by a *)
(* time-out: so the notification of one move may come during the wait for  *)
(* the next.  What the session knows of a casket is what it has loaded.    *)
(***************************************************************************)
EXTENDS Naturals, SequencesExt

CONSTANTS Items, Caskets,
          CasketCapacity,  \* STORAGE_UNIT_CAPACITY
          MainCapacity,    \* MAIN_INVENTORY_CAPACITY
          MaxItems,        \* bound: items of all calls of runMove in a behaviour
          MaxInFlight      \* bound: requests and notifications on their way

ASSUME ComponentMovesAssumption ==
    /\ IsFiniteSet(Items) /\ {"main", "unloaded"} \cap Caskets = {}
    /\ CasketCapacity \in Nat \ {0} /\ MainCapacity \in Nat \ {0}
    /\ MaxItems \in Nat /\ MaxInFlight \in Nat

VARIABLES
    place,       \* item -> where the GC has it
    requests,    \* addToCasket and removeFromCasket on their way
    notices,     \* itemCustomizationNotification on its way
    view,        \* item -> where csgo.inventory has it, "unloaded" when it has not
    counter,     \* casket -> its casket_contained_item_count in csgo.inventory
    job,         \* the job that has the account lock, and its progress
    asked,       \* items of the jobs so far
    saved,       \* a snapshot has been saved
    snapshot,    \* item -> the places at which it lists the item
    stray,       \* history: a wait ended before its request or notification was through
    unsure,      \* history: items moved outside a wait for them, or saved from a stale row
    unlisted,    \* history: items of which the session had no row when they were last saved
    uncounted    \* history: caskets with an item neither their counter nor a wait has shown

gcVars == <<place, requests, notices>>
sessionVars == <<view, counter>>
serviceVars == <<job, asked, saved, snapshot>>
historyVars == <<stray, unsure, unlisted, uncounted>>
vars == <<gcVars, sessionVars, serviceVars, historyVars>>

-----------------------------------------------------------------------------
Places == {"main"} \cup Caskets

Moves == [action : {"deposit", "withdraw"}, casket : Caskets, item : Items]

Notices == Moves \cup [full : Moves]

In(where, p) == {i \in Items : where[i] = p}

Room(where, p) ==
    Cardinality(In(where, p)) < (IF p = "main" THEN MainCapacity ELSE CasketCapacity)

Requested == UNION {{s \in [1 .. n -> Items] : \A k, l \in 1 .. n : s[k] = s[l] => k = l} :
                      n \in 1 .. MaxItems}

NoWait == [action |-> "none", casket |-> "none", item |-> "none"]

Job == [phase : {"item", "waiting", "between", "ending"},
        action : {"deposit", "withdraw"},
        casket : Caskets,
        items : Requested,         \* normalizeItemIds: no item twice
        wait : Moves \cup {NoWait},              \* what the current wait waits for
        allowed : SUBSET Items,    \* candidateSet, or the requested items not clipped
        slots : Nat,               \* remainFreeSlots
        reloaded : BOOLEAN,        \* withdrawReloadAttempted
        touched : SUBSET Caskets,
        success : SUBSET Items,
        failed : SUBSET Items]

Idle == [phase |-> "idle", action |-> "none", casket |-> "none", items |-> <<>>,
         wait |-> NoWait, allowed |-> {}, slots |-> 0, reloaded |-> FALSE, touched |-> {},
         success |-> {}, failed |-> {}]

Init ==
    /\ place \in [Items -> Places]
    /\ \A p \in Places : Cardinality(In(place, p)) <=
                            (IF p = "main" THEN MainCapacity ELSE CasketCapacity)
    /\ requests = {} /\ notices = {}
    /\ view = [i \in Items |-> IF place[i] = "main" THEN "main" ELSE "unloaded"]
    /\ counter = [c \in Caskets |-> Cardinality(In(place, c))]
    /\ job = Idle
    /\ asked = 0
    /\ saved \in BOOLEAN
    /\ snapshot = [i \in Items |-> IF saved THEN {place[i]} ELSE {}]
    /\ stray = FALSE
    /\ unsure = {} /\ uncounted = {}
    /\ unlisted = IF saved THEN {} ELSE Items

-----------------------------------------------------------------------------
(* The GC and the session's copy of the inventory (external).               *)

Listening == job.phase = "waiting"

Awaited(m) == Listening /\ job.wait = m

\* The user moves an item with another client, or a late request does.
MovedTo(i, p, behind) ==
    /\ place' = [place EXCEPT ![i] = p]
    /\ unsure' = IF behind THEN unsure \cup {i} ELSE unsure
    /\ uncounted' = IF behind THEN uncounted \cup ({p} \cap Caskets) ELSE uncounted

OtherMove(i, p) ==
    /\ unsure = {}      \* bound: not again before the last one is saved
    /\ p # place[i] /\ "main" \in {p, place[i]} /\ Room(place, p)
    /\ MovedTo(i, p, TRUE)
    /\ UNCHANGED <<requests, notices, sessionVars, serviceVars, stray, unlisted>>

\* A request reaches the GC, which moves the item, finds no room or ignores it;
\* or it is lost.  So may be the notification.
GcMove(m) ==
    LET from == IF m.action = "deposit" THEN "main" ELSE m.casket
        to == IF m.action = "deposit" THEN m.casket ELSE "main"
    IN  /\ m \in requests
        /\ requests' = requests \ {m}
        /\ \/ /\ place[m.item] = from /\ Room(place, to)
              /\ MovedTo(m.item, to, ~Awaited(m))
              /\ notices' \in {notices, notices \cup {m}}
           \/ /\ place[m.item] = from /\ ~Room(place, to)
              /\ notices' = notices \cup {[full |-> m]}
              /\ UNCHANGED <<place, unsure, uncounted>>
           \/ UNCHANGED <<place, notices, unsure, uncounted>>
        /\ UNCHANGED <<sessionVars, serviceVars, stray, unlisted>>

\* Changes of the items the session knows, and of those in the main inventory,
\* are sent to it, apart from the notifications and in any order.
SyncItem(i) ==
    /\ view[i] # place[i]
    /\ view[i] # "unloaded" \/ place[i] = "main"
    /\ view' = [view EXCEPT ![i] = place[i]]
    /\ UNCHANGED <<gcVars, counter, serviceVars, historyVars>>

SyncCounter(c) ==
    /\ counter[c] # Cardinality(In(place, c))
    /\ counter' = [counter EXCEPT ![c] = Cardinality(In(place, c))]
    /\ uncounted' = IF c = job.casket THEN uncounted ELSE uncounted \ {c}
    /\ UNCHANGED <<gcVars, view, serviceVars, stray, unsure, unlisted>>

Gc ==
    \/ \E i \in Items : SyncItem(i) \/ \E p \in Places : OtherMove(i, p)
    \/ \E m \in requests : GcMove(m)
    \/ \E c \in Caskets : SyncCounter(c)

\* getCasketContents of these caskets has answered: their items are in csgo.inventory.
Loaded(cs) == [i \in Items |-> IF place[i] \in cs THEN place[i] ELSE view[i]]

-----------------------------------------------------------------------------
(* runMove, from one await to the next.                                      *)

\* A job has the account lock (withAccountLock lets one at a time in), and the rows
\* that decide what it may do.
Begin(action, c, items, rows, allowed, slots) ==
    /\ asked + Len(items) <= MaxItems
    /\ job' = [Idle EXCEPT !.phase = "item", !.action = action, !.casket = c, !.items = items,
                           !.allowed = allowed, !.slots = slots, !.touched = {c}]
    /\ view' = rows
    /\ asked' = asked + Len(items)
    /\ UNCHANGED <<gcVars, counter, saved, snapshot, historyVars>>

Free(capacity, used) == IF used < capacity THEN capacity - used ELSE 0

\* Mutant of Occupied: only the rows are counted.
OccupiedRows(rows, c) == Cardinality(In(rows, c))

\* The rows, or the counter where they are fewer.
Occupied(rows, c) == Max({Cardinality(In(rows, c)), counter[c]})

\* buildRowsForSnapshot loads what is not loaded, as far as that succeeds;
\* buildDepositCandidateContext.
BeginDeposit(c, items) ==
    \E cs \in SUBSET Caskets :
        LET rows == Loaded(cs)
        IN  Begin("deposit", c, items, rows, {i \in Items : rows[i] \notin {c, "unloaded"}},
                  Free(CasketCapacity, Occupied(rows, c)))

\* Mutant of Clippings: all that are wanted are withdrawn.
NoClipping(wanted, free) == {{}}

\* With too few places in the main inventory the rest of the items is clipped.
Clippings(wanted, free) ==
    {clipped \in SUBSET wanted :
        Cardinality(wanted \ clipped) = Min({free, Cardinality(wanted)})}

\* buildWithdrawCapacityContext: the casket is loaded (a job that cannot fails before
\* it does anything).  No item is hidden or cooling: those take no place.
BeginWithdraw(c, items) ==
    LET rows == Loaded({c})
        wanted == ToSet(items) \cap In(rows, c)
        free == Free(MainCapacity, Cardinality(In(rows, "main")))
    IN  \E clipped \in Clippings(wanted, free) :
            Begin("withdraw", c, items, rows, Items \ clipped, 0)

Processed == Cardinality(job.success) + Cardinality(job.failed)

Current == job.items[Processed + 1]

\* waitForCasketMove: listener installed, request sent.
StartWait(m, touched) ==
    /\ Cardinality(requests \cup notices) < MaxInFlight
    /\ requests' = requests \cup {m}
    /\ job' = [job EXCEPT !.phase = "waiting", !.wait = m, !.touched = touched]

\* The items of the loop that need no wait.
Refused(i) ==
    \/ job.action = "withdraw" /\ i \notin job.allowed           \* clipped
    \/ view[i] = "unloaded" /\ (job.action = "deposit" \/ job.reloaded)
    \/ job.action = "deposit" /\ (job.slots = 0 \/ i \notin job.allowed)
    \/ job.action = "withdraw" /\ view[i] \notin {job.casket, "unloaded"}

SkipItem ==
    /\ job.phase = "item" /\ Processed < Len(job.items)
    /\ Refused(Current)
    /\ job' = [job EXCEPT !.failed = @ \cup {Current}]
    /\ UNCHANGED <<gcVars, sessionVars, asked, saved, snapshot, historyVars>>

\* A withdrawal whose item is missing loads the casket once more.
ReloadMissing ==
    /\ job.phase = "item" /\ Processed < Len(job.items)
    /\ ~Refused(Current) /\ view[Current] = "unloaded"
    /\ job' = [job EXCEPT !.reloaded = TRUE]
    /\ view' \in {view, Loaded({job.casket})}
    /\ UNCHANGED <<gcVars, counter, asked, saved, snapshot, historyVars>>

\* An item to move; one in another casket is taken out of it first.
MoveItem ==
    /\ job.phase = "item" /\ Processed < Len(job.items)
    /\ LET i == Current
           transfer == job.action = "deposit" /\ view[i] \notin {"main", job.casket}
       IN  /\ ~Refused(i) /\ view[i] # "unloaded"
           /\ IF transfer
              THEN StartWait([action |-> "withdraw", casket |-> view[i], item |-> i],
                             job.touched \cup {view[i]})
              ELSE StartWait([action |-> job.action, casket |-> job.casket,
                                 item |-> i], job.touched)
    /\ UNCHANGED <<place, notices, sessionVars, asked, saved, snapshot, historyVars>>

SecondHalf ==
    /\ job.phase = "between"
    /\ StartWait([action |-> "deposit", casket |-> job.casket, item |-> Current],
                 job.touched)
    /\ UNCHANGED <<place, notices, sessionVars, asked, saved, snapshot, historyVars>>

\* The request or the notification of the wait is still to come.
Outstanding(rest) ==
    \/ job.wait \in requests
    \/ job.wait \in rest
    \/ [full |-> job.wait] \in rest

\* Mutant of MoveDone: in any casket will do.
InAnyCasket(rows, m) == (rows[m.item] = "main") = (m.action = "withdraw")

\* isMoveDone
MoveDone(rows, m) == rows[m.item] = IF m.action = "deposit" THEN m.casket ELSE "main"

FreeAfter(slots) == IF slots = 0 THEN 0 ELSE slots - 1

\* finish(): the wait is over, with success or not; these notices remain.
Finish(ok, rest) ==
    LET i == Current
        ended == [job EXCEPT !.phase = "item", !.wait = NoWait]
    IN  /\ job' = IF ~ok THEN [ended EXCEPT !.failed = @ \cup {i}]
                  ELSE IF job.wait.action # job.action THEN [ended EXCEPT !.phase = "between"]
                  ELSE [ended EXCEPT !.success = @ \cup {i},
                                     !.slots = IF job.action = "deposit" THEN FreeAfter(@)
                                                ELSE @]
        /\ stray' = (stray \/ Outstanding(rest))
        /\ unsure' = IF ~ok /\ MoveDone(place, job.wait) THEN unsure \cup {i} ELSE unsure
        /\ notices' = rest

\* pollState finds the item moved.
Poll ==
    /\ Listening
    /\ MoveDone(view, job.wait)
    /\ Finish(TRUE, notices)
    /\ UNCHANGED <<place, requests, sessionVars, asked, saved, snapshot, unlisted, uncounted>>

\* onNotification: a success of the kind waited for, whatever its item; "full"
\* if it is related, which one without ids is; anything else is passed over.
Hear(n) ==
    /\ Listening /\ n \in notices
    /\ IF n \in Moves
       THEN IF n.action = job.wait.action
            THEN Finish(TRUE, notices \ {n})
            ELSE notices' = notices \ {n} /\ UNCHANGED <<job, stray, unsure>>
       ELSE \/ Finish(FALSE, notices \ {n})
            \/ /\ n.full.casket # job.wait.casket /\ n.full.item # job.wait.item
               /\ notices' = notices \ {n} /\ UNCHANGED <<job, stray, unsure>>
    /\ UNCHANGED <<place, requests, sessionVars, asked, saved, snapshot, unlisted, uncounted>>

Unheard(n) ==
    /\ n \in notices
    /\ ~Listening
    /\ notices' = notices \ {n}
    /\ UNCHANGED <<place, requests, sessionVars, serviceVars, historyVars>>

\* 25 s without an answer: the casket is loaded once more, if that succeeds, while
\* the listener stays.
MoveTimeout ==
    /\ Listening
    /\ \E rows \in {view, Loaded({job.wait.casket})} :
          /\ view' = rows
          /\ Finish(MoveDone(rows, job.wait), notices)
    /\ UNCHANGED <<place, requests, counter, asked, saved, snapshot, unlisted, uncounted>>

\* The loop is over, or paused.
LeaveLoop ==
    /\ job.phase = "item"
    /\ job' = [job EXCEPT !.phase = "ending"]
    /\ UNCHANGED <<gcVars, sessionVars, asked, saved, snapshot, historyVars>>

\* Mutant of Affected: only the touched caskets count.
AffectedByCasket(i, p) == p \in job.touched

\* isAffectedRow, for a row that has item i at p.
Affected(i, p) == i \in ToSet(job.items) \/ p \in job.touched

\* mergeRowsWithPreviousSnapshot: unaffected rows of the last snapshot, affected ones of now.
Merged(rows) ==
    [i \in Items |->
        {p \in snapshot[i] : ~Affected(i, p)} \cup
        {p \in {rows[i]} \ {"unloaded"} : Affected(i, p)}]

\* What is saved of item i: its row, if the session has one; without a previous snapshot
\* (buildRowsForSnapshot, which loads what is not loaded as far as that succeeds) all rows.
Written(rows) == IF saved THEN Merged(rows) ELSE [i \in Items |-> {rows[i]} \ {"unloaded"}]

\* The items of which the job saves what it has or has not.
Rewritten(rows) ==
    {i \in Items : saved => \E p \in snapshot[i] \cup {rows[i], place[i]} : Affected(i, p)}

\* Those in caskets that could not be loaded.
Missing(rows) == {i \in Items : rows[i] = "unloaded" /\ place[i] # "main"}

\* The touched caskets have been loaded again, those for which that succeeds.
EndMove ==
    /\ job.phase = "ending"
    /\ \E cs \in SUBSET (IF saved THEN job.touched ELSE Caskets) :
          LET rows == Loaded(cs)
              stale == {i \in Items \ Missing(rows) : rows[i] # place[i]}
          IN  /\ view' = rows
              /\ snapshot' = Written(rows)
              /\ unsure' = (unsure \ ToSet(job.items)) \cup (stale \cap Rewritten(rows))
              /\ unlisted' = (unlisted \ Rewritten(rows)) \cup (Missing(rows) \cap Rewritten(rows))
              /\ uncounted' =
                    {c \in uncounted : counter[c] # Cardinality(In(place, c))} \cup
                    {c \in job.touched : /\ counter[c] < Cardinality(In(place, c))
                                        /\ In(place, c) \cap Missing(rows) # {}}
    /\ saved' = TRUE
    /\ job' = Idle
    /\ UNCHANGED <<gcVars, counter, asked, stray>>

Advance ==
    \/ SkipItem \/ ReloadMissing \/ MoveItem \/ SecondHalf
    \/ Poll \/ MoveTimeout \/ LeaveLoop \/ EndMove

Next ==
    \/ Gc
    \/ /\ job = Idle
       /\ \E c \in Caskets, items \in Requested : BeginDeposit(c, items) \/ BeginWithdraw(c, items)
    \/ Advance
    \/ \E n \in notices : Hear(n) \/ Unheard(n)

Spec == Init /\ [][Next]_vars

-----------------------------------------------------------------------------
TypeOK ==
    /\ place \in [Items -> Places]
    /\ requests \subseteq Moves
    /\ notices \subseteq Notices
    /\ view \in [Items -> Places \cup {"unloaded"}]
    /\ counter \in [Caskets -> 0 .. CasketCapacity]
    /\ job \in Job \cup {Idle}
    /\ asked \in 0 .. MaxItems
    /\ saved \in BOOLEAN
    /\ snapshot \in [Items -> SUBSET Places]
    /\ stray \in BOOLEAN
    /\ unsure \subseteq Items /\ unlisted \subseteq Items
    /\ uncounted \subseteq Caskets

Target == IF job.action = "deposit" THEN job.casket ELSE "main"

\* An item is reported as moved only when the GC has it where the job wants it,
\* although a success notification is not matched with its item (waitForCasketMove):
\* unless an earlier wait left something behind, or others moved the item.
ReportedMoved ==
    [][\A i \in job'.success \ job.success :
          stray \/ i \in unsure \/ place[i] = Target]_vars

\* Between jobs the snapshot lists every item once and where it is, however rows of
\* caskets that were not loaded are merged with the last snapshot: unless the item
\* was moved outside a wait or saved from a row the GC had changed.  An item is not
\* listed only when the session had no row of it, its casket not being loaded, when a
\* job that was asked for it or touched its casket saved (mergeRowsWithPreviousSnapshot).
SnapshotExact ==
    job = Idle =>
        \A i \in Items \ unsure : snapshot[i] = IF i \in unlisted THEN {} ELSE {place[i]}

\* The service asks for no place in a full casket, though it counts the free places
\* once per job from rows that may be incomplete: unless as above, or others put an item
\* there that the casket's counter did not show yet.
CapacityKept ==
    [][\A m \in requests' \ requests :
          m.action = "deposit" =>
             stray \/ unsure # {} \/ m.casket \in uncounted \/ Room(place, m.casket)]_vars

\* Nor does a withdrawal ask for an item of its casket while the main inventory is full,
\* though what fits is reckoned once, at its beginning (buildWithdrawCapacityContext);
\* the withdrawals of a transfer are not reckoned with.  Unless others moved an item, or
\* one was saved from a row the GC had changed.
MainCapacityKept ==
    [][\A m \in requests' \ requests :
          m.action = "withdraw" /\ m.casket = job.casket /\ place[m.item] = m.casket =>
             unsure # {} \/ Room(place, "main")]_vars
===============================================================================
