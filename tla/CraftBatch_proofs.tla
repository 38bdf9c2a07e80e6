-------------------------- MODULE CraftBatch_proofs --------------------------
(***************************************************************************)
(* Theorems about CraftBatch: for every set of items, number of batches    *)
(* and length of a batch, the specification implies TypeOK, LockGuards,    *)
(* ReportTrue and SnapshotKnowsSettled.                                    *)
(*                                                                         *)
(* None of the last three is inductive.  IInv adds why they hold: only the *)
(* batch at the head of the lock crafts or waits for the inventory; until  *)
(* a wait times out there is at most one request or answer, and it is that *)
(* batch's; and the rows a working batch holds were read after every       *)
(* settled step of every batch.                                            *)
(***************************************************************************)
EXTENDS CraftBatch, TLAPS

Working == {"crafting", "settling"}

Holding == {"locked"} \cup Working

InHand(r) == r.recipes[Len(r.steps) + 1]

\* The record of a batch answers for what the GC spends on item i.
Charged(r, i) ==
    \/ \E k \in 1 .. Len(r.steps) : r.steps[k].item = i
    \/ /\ Len(r.steps) < Len(r.recipes)
       /\ InHand(r) = i
       /\ r.phase \in {"crafting", "settling", "failed"}

\* The batches that were queued and have not ended are in the lock, each once; the
\* one at its head may be working.
LockInv ==
    /\ \A j, k \in 1 .. Len(accountLock) : accountLock[j] = accountLock[k] => j = k
    /\ \A k \in 1 .. Len(accountLock) : batches[accountLock[k]].phase \in Holding
    /\ \A b \in Batches : batches[b].phase \in Holding =>
                             \E k \in 1 .. Len(accountLock) : accountLock[k] = b
    /\ \A b \in Batches : batches[b].phase \in Working =>
                             accountLock # <<>> /\ accountLock[1] = b

BatchOK(r) ==
    /\ r.phase \in {"idle", "locked"} => r.steps = <<>>
    /\ r.phase \in Working => Len(r.steps) < Len(r.recipes)
    /\ r.phase = "settling" => r.gained \in Items

\* What is requested or spent for a batch is charged to it.
SpendInv ==
    /\ \A b \in Batches, i \in Items : <<b, i>> \in sent => Charged(batches[b], i)
    /\ \A b \in Batches, i \in Items : spentBy[i] = b => Charged(batches[b], i)

\* The session's copy of the inventory runs behind the GC; a settled step is in it,
\* and in no row that a working batch or the snapshot after an ended one lists.
KnownInv ==
    /\ \A i \in Items : inventory[i] = "spent" => gc[i] = "spent"
    /\ \A b \in Batches : \A k \in 1 .. Len(batches[b].steps) :
          LET step == batches[b].steps[k]
          IN  step.settled =>
                 /\ inventory[step.item] = "spent"
                 /\ \A c \in Batches : batches[c].phase \in Working
                                       => step.item \notin batches[c].rows
                 /\ batches[b].phase \in Ended => step.item \notin snapshot

\* Until a wait times out.
TruthInv == ~timedOut =>
    /\ \A b \in Batches, i \in Items : <<b, i>> \in sent =>
          batches[b].phase = "crafting" /\ InHand(batches[b]) = i
    /\ \A a \in answers :
          /\ a.ok => gc[a.item] = "spent"
          /\ \E b \in Batches : batches[b].phase = "crafting" /\ InHand(batches[b]) = a.item
    /\ sent = {} \/ answers = {}
    /\ \A a, c \in answers : a = c
    /\ \A b \in Batches : batches[b].phase = "settling" =>
          batches[b].gained = InHand(batches[b]) /\ gc[InHand(batches[b])] = "spent"
    /\ \A b \in Batches : \A k \in 1 .. Len(batches[b].steps) :
          /\ gc[batches[b].steps[k].item] = "spent"
          /\ batches[b].steps[k].gained = batches[b].steps[k].item

IInv ==
    /\ TypeOK
    /\ LockInv
    /\ \A b \in Batches : BatchOK(batches[b])
    /\ SpendInv
    /\ KnownInv
    /\ TruthInv

-----------------------------------------------------------------------------
(* Types.                                                                    *)

\* The recipes of a batch are a sequence of items.
LEMMA RecipesAreSequences ==
    ASSUME NEW r \in Recipes \cup {<<>>}
    PROVE  r \in Seq(Items)
<1>1. CASE r = <<>>
  BY <1>1
<1>2. CASE r \in Recipes
  <2>1. PICK n \in 1 .. MaxRecipes : r \in [1 .. n -> Items]
    BY <1>2 DEF Recipes
  <2>2. n \in Nat
    BY <2>1, CraftBatchAssumption
  <2> QED BY <2>1, <2>2
<1> QED BY <1>1, <1>2

LEMMA BatchFields ==
    ASSUME NEW r \in Batch
    PROVE  /\ r.recipes \in Seq(Items) /\ Len(r.recipes) \in Nat
           /\ r.steps \in Seq(Step) /\ Len(r.steps) \in Nat
           /\ \A k \in 1 .. Len(r.steps) : r.steps[k] \in Step /\ r.steps[k].item \in Items
           /\ r.rows \subseteq Items /\ r.gained \in Items \cup {"none"}
           /\ Len(r.steps) < Len(r.recipes) => InHand(r) \in Items
<1>1. r.recipes \in Recipes \cup {<<>>} /\ r.steps \in Seq(Step)
      /\ r.rows \subseteq Items /\ r.gained \in Items \cup {"none"}
  BY DEF Batch
<1>2. r.recipes \in Seq(Items)
  BY <1>1, RecipesAreSequences
<1>3. Len(r.recipes) \in Nat /\ Len(r.steps) \in Nat
  BY <1>1, <1>2
<1>4. \A k \in 1 .. Len(r.steps) : r.steps[k] \in Step
  BY <1>1
<1>5. \A k \in 1 .. Len(r.steps) : r.steps[k].item \in Items
  BY <1>4 DEF Step
<1>6. Len(r.steps) < Len(r.recipes) => Len(r.steps) + 1 \in 1 .. Len(r.recipes)
  BY <1>3
<1>7. Len(r.steps) < Len(r.recipes) => InHand(r) \in Items
  BY <1>2, <1>6 DEF InHand
<1> QED BY <1>1, <1>2, <1>3, <1>4, <1>5, <1>7

-----------------------------------------------------------------------------
(* The initial state.                                                        *)

LEMMA InitInv == Init => IInv
<1> SUFFICES ASSUME Init PROVE IInv
  OBVIOUS
<1> DEFINE r == [phase |-> "idle", recipes |-> <<>>, rows |-> {}, steps |-> <<>>,
                 gained |-> "none"]
<1>1. r \in Batch /\ r.phase = "idle" /\ r.steps = <<>> /\ Len(r.steps) = 0
  BY DEF Batch, Ended
<1>2. batches = [b \in Batches |-> r]
  BY DEF Init
<1> HIDE DEF r
<1>3. \A b \in Batches : batches[b] = r
  BY <1>2
<1>4. batches \in [Batches -> Batch]
  BY <1>1, <1>2
<1>5. TypeOK
  <2>1. gc \in [Items -> Places] /\ inventory \in [Items -> Places]
    BY DEF Init, Places
  <2>2. spentBy \in [Items -> {0} \cup Batches]
    BY DEF Init
  <2>3. accountLock \in Seq(Batches)
    BY DEF Init
  <2> QED BY <1>4, <2>1, <2>2, <2>3 DEF Init, TypeOK
<1>6. LockInv
  BY <1>1, <1>3 DEF Init, LockInv, Holding, Working
<1>7. \A b \in Batches : BatchOK(batches[b])
  BY <1>1, <1>3 DEF BatchOK, Working
<1>8. SpendInv
  BY DEF Init, SpendInv, Batches
<1>9. KnownInv
  BY <1>1, <1>3 DEF Init, KnownInv
<1>10. TruthInv
  BY <1>1, <1>3 DEF Init, TruthInv
<1> QED BY <1>5, <1>6, <1>7, <1>8, <1>9, <1>10 DEF IInv

-----------------------------------------------------------------------------
(* The lock.                                                                 *)

\* The batch at the head works on, and keeps the lock.
LEMMA LockStays ==
    ASSUME LockInv, batches \in [Batches -> Batch], NEW b \in Batches,
           accountLock # <<>>, accountLock[1] = b, batches[b].phase \in Holding,
           NEW r, r.phase \in Working, batches' = [batches EXCEPT ![b] = r],
           accountLock' = accountLock
    PROVE  LockInv'
<1>1. batches'[b] = r /\ \A c \in Batches : c # b => batches'[c] = batches[c]
  OBVIOUS
<1>2. \A c \in Batches : batches'[c].phase \in Holding <=> batches[c].phase \in Holding
  BY <1>1 DEF Holding
<1>3. \A c \in Batches : batches'[c].phase \in Working =>
                           accountLock' # <<>> /\ accountLock'[1] = c
  BY <1>1 DEF LockInv
<1>4. \A k \in 1 .. Len(accountLock') : batches'[accountLock'[k]].phase \in Holding
  <2> SUFFICES ASSUME NEW k \in 1 .. Len(accountLock)
               PROVE  batches'[accountLock[k]].phase \in Holding
    OBVIOUS
  <2>1. batches[accountLock[k]].phase \in Holding
    BY DEF LockInv
  <2>2. CASE accountLock[k] = b
    BY <1>1, <2>2 DEF Holding
  <2>3. CASE accountLock[k] # b
    BY <2>1, <2>3
  <2> QED BY <2>2, <2>3
<1>5. /\ \A j, k \in 1 .. Len(accountLock') : accountLock'[j] = accountLock'[k] => j = k
      /\ \A c \in Batches : batches'[c].phase \in Holding =>
                               \E k \in 1 .. Len(accountLock') : accountLock'[k] = c
  BY <1>2 DEF LockInv
<1> QED BY <1>3, <1>4, <1>5 DEF LockInv

\* It ends, and hands the lock on.
LEMMA LockMovesOn ==
    ASSUME LockInv, batches \in [Batches -> Batch], accountLock \in Seq(Batches),
           NEW b \in Batches, accountLock # <<>>, accountLock[1] = b,
           NEW r, r.phase \in Ended, batches' = [batches EXCEPT ![b] = r],
           accountLock' = Tail(accountLock)
    PROVE  LockInv' /\ accountLock' \in Seq(Batches)
<1>1. batches'[b] = r /\ \A c \in Batches : c # b => batches'[c] = batches[c]
  OBVIOUS
<1>2. /\ Len(accountLock) \in Nat /\ Len(accountLock) > 0
      /\ Len(accountLock') = Len(accountLock) - 1
      /\ accountLock' \in Seq(Batches)
      /\ \A k \in 1 .. Len(accountLock') : accountLock'[k] = accountLock[k + 1]
  OBVIOUS
<1>3. \A k \in 1 .. Len(accountLock') : k + 1 \in 1 .. Len(accountLock) /\ k + 1 # 1
  BY <1>2
<1>4. b \notin {c \in Batches : batches'[c].phase \in Holding}
  BY <1>1 DEF Holding, Working, Ended
<1>5. \A j, k \in 1 .. Len(accountLock') : accountLock'[j] = accountLock'[k] => j = k
  <2> SUFFICES ASSUME NEW j \in 1 .. Len(accountLock'), NEW k \in 1 .. Len(accountLock'),
                      accountLock'[j] = accountLock'[k]
               PROVE  j = k
    OBVIOUS
  <2>1. j + 1 = k + 1
    BY <1>2, <1>3 DEF LockInv
  <2> QED BY <2>1
<1>6. \A k \in 1 .. Len(accountLock') : batches'[accountLock'[k]].phase \in Holding
  <2> SUFFICES ASSUME NEW k \in 1 .. Len(accountLock')
               PROVE  batches'[accountLock'[k]].phase \in Holding
    OBVIOUS
  <2>1. accountLock'[k] \in Batches /\ accountLock'[k] = accountLock[k + 1]
    BY <1>2
  <2>2. batches[accountLock[k + 1]].phase \in Holding
    BY <1>3 DEF LockInv
  <2>3. accountLock[k + 1] # b
    BY <1>2, <1>3 DEF LockInv
  <2> QED BY <1>1, <2>1, <2>2, <2>3
<1>7. \A c \in Batches : batches'[c].phase \in Holding =>
                            \E k \in 1 .. Len(accountLock') : accountLock'[k] = c
  <2> SUFFICES ASSUME NEW c \in Batches, batches'[c].phase \in Holding
               PROVE  \E k \in 1 .. Len(accountLock') : accountLock'[k] = c
    OBVIOUS
  <2>1. c # b /\ batches[c].phase \in Holding
    BY <1>1, <1>4
  <2>2. PICK j \in 1 .. Len(accountLock) : accountLock[j] = c
    BY <2>1 DEF LockInv
  <2>3. j # 1
    BY <2>1, <2>2
  <2>4. j - 1 \in 1 .. Len(accountLock') /\ accountLock'[j - 1] = accountLock[(j - 1) + 1]
        /\ (j - 1) + 1 = j
    BY <1>2, <2>3
  <2> QED BY <2>2, <2>4
<1>8. \A c \in Batches : batches'[c].phase \notin Working
  <2> SUFFICES ASSUME NEW c \in Batches, batches'[c].phase \in Working PROVE FALSE
    OBVIOUS
  <2>1. c # b
    BY <1>1 DEF Working, Ended
  <2>2. accountLock[1] = c
    BY <1>1, <2>1 DEF LockInv
  <2> QED BY <2>1, <2>2
<1> QED BY <1>2, <1>5, <1>6, <1>7, <1>8 DEF LockInv

\* A batch is queued.
LEMMA LockGrows ==
    ASSUME LockInv, batches \in [Batches -> Batch], accountLock \in Seq(Batches),
           NEW b \in Batches, batches[b].phase = "idle",
           NEW r, r.phase = "locked", batches' = [batches EXCEPT ![b] = r],
           accountLock' = Append(accountLock, b)
    PROVE  LockInv' /\ accountLock' \in Seq(Batches)
<1>1. batches'[b] = r /\ \A c \in Batches : c # b => batches'[c] = batches[c]
  OBVIOUS
<1> DEFINE n == Len(accountLock)
<1>2. /\ n \in Nat /\ accountLock' \in Seq(Batches) /\ Len(accountLock') = n + 1
      /\ accountLock'[n + 1] = b
      /\ \A k \in 1 .. n : accountLock'[k] = accountLock[k]
  OBVIOUS
<1>3. \A k \in 1 .. n : accountLock[k] # b /\ batches[accountLock[k]].phase \in Holding
                        /\ accountLock[k] \in Batches
  BY DEF LockInv, Holding, Working
<1>4. /\ \A k \in 1 .. Len(accountLock') : k \in 1 .. n \/ k = n + 1
      /\ \A k \in 1 .. n : k \in 1 .. Len(accountLock')
      /\ n + 1 \in 1 .. Len(accountLock') /\ n + 1 \notin 1 .. n
  BY <1>2
<1>5. \A j, k \in 1 .. n : accountLock[j] = accountLock[k] => j = k
  BY DEF LockInv
<1>6. \A c \in Batches : batches[c].phase \in Holding => \E k \in 1 .. n : accountLock[k] = c
  BY DEF LockInv
<1>7. \A c \in Batches : batches'[c].phase \in Working =>
                           accountLock' # <<>> /\ accountLock'[1] = c
  <2> SUFFICES ASSUME NEW c \in Batches, batches'[c].phase \in Working
               PROVE  accountLock' # <<>> /\ accountLock'[1] = c
    OBVIOUS
  <2>1. c # b
    BY <1>1 DEF Working
  <2>2. accountLock # <<>> /\ accountLock[1] = c
    BY <1>1, <2>1 DEF LockInv
  <2>3. 1 \in 1 .. n
    BY <2>2
  <2> QED BY <1>2, <2>2, <2>3
<1> HIDE DEF n
<1>8. \A j, k \in 1 .. Len(accountLock') : accountLock'[j] = accountLock'[k] => j = k
  <2> SUFFICES ASSUME NEW j \in 1 .. Len(accountLock'), NEW k \in 1 .. Len(accountLock'),
                      accountLock'[j] = accountLock'[k]
               PROVE  j = k
    OBVIOUS
  <2>1. CASE j \in 1 .. n /\ k \in 1 .. n
    BY <1>2, <1>5, <2>1
  <2>2. CASE j = n + 1 \/ k = n + 1
    BY <1>2, <1>3, <1>4, <2>2
  <2> QED BY <1>4, <2>1, <2>2
<1>9. \A k \in 1 .. Len(accountLock') : batches'[accountLock'[k]].phase \in Holding
  BY <1>1, <1>2, <1>3, <1>4 DEF Holding
<1>10. \A c \in Batches : batches'[c].phase \in Holding =>
                            \E k \in 1 .. Len(accountLock') : accountLock'[k] = c
  <2> SUFFICES ASSUME NEW c \in Batches, batches'[c].phase \in Holding
               PROVE  \E k \in 1 .. Len(accountLock') : accountLock'[k] = c
    OBVIOUS
  <2>1. CASE c = b
    BY <1>2, <1>4, <2>1
  <2>2. CASE c # b
    <3>1. PICK k \in 1 .. n : accountLock[k] = c
      BY <1>1, <1>6, <2>2
    <3> QED BY <1>2, <1>4, <3>1
  <2> QED BY <2>1, <2>2
<1> QED BY <1>2, <1>7, <1>8, <1>9, <1>10 DEF LockInv

-----------------------------------------------------------------------------
(* What the batch that holds the lock may do.                                *)

\* Only the holder of the lock is working.
LEMMA OneWorks ==
    ASSUME LockInv, NEW b \in Batches, accountLock[1] = b, NEW c \in Batches,
           batches[c].phase \in Working
    PROVE  c = b
BY DEF LockInv

\* Its record after a step still answers for all it answered for, and knows no more
\* settled steps than the inventory does.
Answerable(b, r) ==
    /\ \A i \in Items : Charged(batches[b], i) => Charged(r, i)
    /\ \A k \in 1 .. Len(r.steps) : r.steps[k].settled => inventory[r.steps[k].item] = "spent"

\* Until a wait times out, its steps are what the GC did.
Truthful(r) ==
    \A k \in 1 .. Len(r.steps) :
        gc[r.steps[k].item] = "spent" /\ r.steps[k].gained = r.steps[k].item

\* Rows that list no settled step, neither of the record nor of a batch.
Clean(rows, r) ==
    /\ \A k \in 1 .. Len(r.steps) : r.steps[k].settled => r.steps[k].item \notin rows
    /\ \A c \in Batches : \A k \in 1 .. Len(batches[c].steps) :
          batches[c].steps[k].settled => batches[c].steps[k].item \notin rows

\* It ends.
LEMMA EndKeeps ==
    ASSUME IInv, NEW b \in Batches, accountLock # <<>>, accountLock[1] = b,
           NEW r \in Batch, r.phase \in Ended, batches' = [batches EXCEPT ![b] = r],
           accountLock' = Tail(accountLock),
           Answerable(b, r),
           UNCHANGED <<gc, inventory, products, spentBy, pauses, sent>>,
           answers' \subseteq answers,
           snapshot' \subseteq Items,
           \/ Clean(snapshot', r)
           \/ snapshot' = snapshot /\ Len(r.steps) = 0,
           timedOut' \in BOOLEAN, timedOut => timedOut',
           ~timedOut' => sent = {} /\ answers' = {} /\ Truthful(r)
    PROVE  IInv'
<1>1. /\ TypeOK /\ LockInv /\ SpendInv /\ KnownInv /\ TruthInv
      /\ \A c \in Batches : BatchOK(batches[c])
  BY DEF IInv
<1>2. /\ batches'[b] = r /\ \A c \in Batches : c # b => batches'[c] = batches[c]
      /\ batches \in [Batches -> Batch] /\ batches' \in [Batches -> Batch]
      /\ accountLock \in Seq(Batches)
  BY <1>1 DEF TypeOK
<1>3. LockInv' /\ accountLock' \in Seq(Batches)
  BY <1>1, <1>2, LockMovesOn
<1>4. TypeOK'
  BY <1>1, <1>2, <1>3 DEF TypeOK
<1>5. \A c \in Batches : BatchOK(batches'[c])
  <2>1. BatchOK(r)
    BY DEF BatchOK, Ended, Working
  <2> QED BY <1>1, <1>2, <2>1
<1>6. \A c \in Batches : c # b => batches[c].phase \notin Working
  BY <1>1, OneWorks
<1>7. \A c \in Batches : batches'[c].phase \notin Working
  BY <1>2, <1>6 DEF Working, Ended
<1>8. SpendInv'
  <2>1. \A c \in Batches, i \in Items : Charged(batches[c], i) => Charged(batches'[c], i)
    BY <1>2 DEF Answerable
  <2>2. \A c \in Batches, i \in Items : <<c, i>> \in sent => Charged(batches[c], i)
    BY <1>1 DEF SpendInv
  <2>3. \A c \in Batches, i \in Items : spentBy[i] = c => Charged(batches[c], i)
    BY <1>1 DEF SpendInv
  <2> QED BY <2>1, <2>2, <2>3 DEF SpendInv
<1>9. KnownInv'
  <2>1. \A i \in Items : inventory'[i] = "spent" => gc'[i] = "spent"
    BY <1>1 DEF KnownInv
  <2>2. ASSUME NEW c \in Batches, NEW k \in 1 .. Len(batches'[c].steps),
               batches'[c].steps[k].settled
        PROVE  /\ inventory[batches'[c].steps[k].item] = "spent"
               /\ batches'[c].phase \in Ended => batches'[c].steps[k].item \notin snapshot'
    <3>1. CASE c = b
      <4>1. k \in 1 .. Len(r.steps) /\ r.steps[k].settled
        BY <1>2, <2>2, <3>1
      <4>2. inventory[r.steps[k].item] = "spent"
        BY <4>1 DEF Answerable
      <4>3. Clean(snapshot', r)
        BY <4>1
      <4> QED BY <1>2, <3>1, <4>1, <4>2, <4>3 DEF Clean
    <3>2. CASE c # b
      <4>1. /\ k \in 1 .. Len(batches[c].steps) /\ batches[c].steps[k].settled
            /\ batches'[c] = batches[c]
        BY <1>2, <2>2, <3>2
      <4>2. inventory[batches[c].steps[k].item] = "spent"
            /\ (batches[c].phase \in Ended => batches[c].steps[k].item \notin snapshot)
        BY <1>1, <4>1 DEF KnownInv
      <4> QED BY <4>1, <4>2 DEF Clean
    <3> QED BY <3>1, <3>2
  <2> QED BY <1>7, <2>1, <2>2 DEF KnownInv
<1>10. TruthInv'
  <2> SUFFICES ASSUME ~timedOut' PROVE TruthInv'
    BY DEF TruthInv
  <2>1. sent' = {} /\ answers' = {} /\ Truthful(r)
    OBVIOUS
  <2>2. \A c \in Batches : batches'[c].phase # "settling"
    BY <1>7 DEF Working
  <2>3. ASSUME NEW c \in Batches, NEW k \in 1 .. Len(batches'[c].steps)
        PROVE  /\ gc'[batches'[c].steps[k].item] = "spent"
               /\ batches'[c].steps[k].gained = batches'[c].steps[k].item
    <3>1. CASE c = b
      BY <1>2, <2>1, <3>1 DEF Truthful
    <3>2. CASE c # b
      <4>1. k \in 1 .. Len(batches[c].steps) /\ batches'[c] = batches[c]
        BY <1>2, <3>2
      <4> QED BY <1>1, <4>1 DEF TruthInv
    <3> QED BY <3>1, <3>2
  <2> QED BY <2>1, <2>2, <2>3 DEF TruthInv
<1> QED BY <1>3, <1>4, <1>5, <1>8, <1>9, <1>10 DEF IInv

\* It sends the next request.
LEMMA SubmitKeeps ==
    ASSUME IInv, NEW b \in Batches, accountLock # <<>>, accountLock[1] = b,
           batches[b].phase \in Holding,
           NEW r \in Batch, r.phase = "crafting", batches' = [batches EXCEPT ![b] = r],
           Len(r.steps) < Len(r.recipes),
           sent' = sent \cup {<<b, InHand(r)>>},
           Answerable(b, r), Clean(r.rows, r),
           UNCHANGED <<gc, inventory, products, answers, spentBy, accountLock, snapshot,
                       pauses, timedOut>>,
           ~timedOut => sent = {} /\ answers = {} /\ Truthful(r)
    PROVE  IInv'
<1>1. /\ TypeOK /\ LockInv /\ SpendInv /\ KnownInv /\ TruthInv
      /\ \A c \in Batches : BatchOK(batches[c])
  BY DEF IInv
<1>2. /\ batches'[b] = r /\ \A c \in Batches : c # b => batches'[c] = batches[c]
      /\ batches \in [Batches -> Batch] /\ batches' \in [Batches -> Batch]
  BY <1>1 DEF TypeOK
<1>3. InHand(r) \in Items
  BY BatchFields
<1>4. LockInv'
  <2>1. r.phase \in Working
    BY DEF Working
  <2> QED BY <1>1, <1>2, <2>1, LockStays
<1>5. TypeOK'
  BY <1>1, <1>2, <1>3 DEF TypeOK
<1>6. \A c \in Batches : BatchOK(batches'[c])
  <2>1. BatchOK(r)
    BY DEF BatchOK, Working
  <2> QED BY <1>1, <1>2, <2>1
<1>7. \A c \in Batches : c # b => batches[c].phase \notin Working
  BY <1>1, OneWorks
<1>8. SpendInv'
  <2>1. \A c \in Batches, i \in Items : Charged(batches[c], i) => Charged(batches'[c], i)
    BY <1>2 DEF Answerable
  <2>2. \A c \in Batches, i \in Items : <<c, i>> \in sent => Charged(batches[c], i)
    BY <1>1 DEF SpendInv
  <2>3. \A c \in Batches, i \in Items : spentBy[i] = c => Charged(batches[c], i)
    BY <1>1 DEF SpendInv
  <2>4. Charged(batches'[b], InHand(r))
    BY <1>2 DEF Charged
  <2>5. \A c \in Batches, i \in Items : <<c, i>> \in sent' =>
                                           <<c, i>> \in sent \/ (c = b /\ i = InHand(r))
    OBVIOUS
  <2> QED BY <2>1, <2>2, <2>3, <2>4, <2>5 DEF SpendInv
<1>9. KnownInv'
  <2>1. \A i \in Items : inventory'[i] = "spent" => gc'[i] = "spent"
    BY <1>1 DEF KnownInv
  <2>2. ASSUME NEW c \in Batches, NEW k \in 1 .. Len(batches'[c].steps),
               batches'[c].steps[k].settled
        PROVE  /\ inventory[batches'[c].steps[k].item] = "spent"
               /\ batches'[c].steps[k].item \notin r.rows
               /\ batches'[c].phase \in Ended => batches'[c].steps[k].item \notin snapshot
    <3>1. CASE c = b
      <4>1. k \in 1 .. Len(r.steps) /\ r.steps[k].settled
        BY <1>2, <2>2, <3>1
      <4>2. inventory[r.steps[k].item] = "spent" /\ r.steps[k].item \notin r.rows
        BY <4>1 DEF Answerable, Clean
      <4>3. r.phase \notin Ended
        BY DEF Ended
      <4> QED BY <1>2, <3>1, <4>2, <4>3
    <3>2. CASE c # b
      <4>1. /\ k \in 1 .. Len(batches[c].steps) /\ batches[c].steps[k].settled
            /\ batches'[c] = batches[c]
        BY <1>2, <2>2, <3>2
      <4>2. inventory[batches[c].steps[k].item] = "spent"
            /\ (batches[c].phase \in Ended => batches[c].steps[k].item \notin snapshot)
        BY <1>1, <4>1 DEF KnownInv
      <4>3. batches[c].steps[k].item \notin r.rows
        BY <4>1 DEF Clean
      <4> QED BY <4>1, <4>2, <4>3
    <3> QED BY <3>1, <3>2
  <2>3. \A c \in Batches : batches'[c].phase \in Working => batches'[c].rows = r.rows
    BY <1>2, <1>7
  <2> QED BY <2>1, <2>2, <2>3 DEF KnownInv
<1>10. TruthInv'
  <2> SUFFICES ASSUME ~timedOut' PROVE TruthInv'
    BY DEF TruthInv
  <2>1. sent' = {<<b, InHand(r)>>} /\ answers' = {} /\ Truthful(r)
    OBVIOUS
  <2>2. \A c \in Batches : batches'[c].phase # "settling"
    BY <1>2, <1>7 DEF Working
  <2>3. ASSUME NEW c \in Batches, NEW k \in 1 .. Len(batches'[c].steps)
        PROVE  /\ gc'[batches'[c].steps[k].item] = "spent"
               /\ batches'[c].steps[k].gained = batches'[c].steps[k].item
    <3>1. CASE c = b
      BY <1>2, <2>1, <3>1 DEF Truthful
    <3>2. CASE c # b
      <4>1. k \in 1 .. Len(batches[c].steps) /\ batches'[c] = batches[c]
        BY <1>2, <3>2
      <4> QED BY <1>1, <4>1 DEF TruthInv
    <3> QED BY <3>1, <3>2
  <2>4. \A c \in Batches, i \in Items : <<c, i>> \in sent' =>
           batches'[c].phase = "crafting" /\ InHand(batches'[c]) = i
    BY <1>2, <2>1
  <2> QED BY <2>1, <2>2, <2>3, <2>4 DEF TruthInv
<1> QED BY <1>4, <1>5, <1>6, <1>8, <1>9, <1>10 DEF IInv

\* Until a wait times out nothing is on its way when no batch is crafting.
LEMMA NothingOnItsWay ==
    ASSUME IInv, ~timedOut, \A b \in Batches : batches[b].phase # "crafting"
    PROVE  sent = {} /\ answers = {}
<1>1. \A b \in Batches, i \in Items : <<b, i>> \notin sent
  BY DEF IInv, TruthInv
<1>2. sent = {}
  BY <1>1 DEF IInv, TypeOK
<1>3. answers = {}
  BY DEF IInv, TruthInv
<1> QED BY <1>2, <1>3

\* The holder of the lock goes on with the rows it has just read.
LEMMA ProceedKeeps ==
    ASSUME IInv, NEW b \in Batches, accountLock # <<>>, accountLock[1] = b,
           batches[b].phase \in {"locked", "settling"},
           NEW steps \in Seq(Step),
           \A i \in Items : Charged(batches[b], i) =>
                               \E k \in 1 .. Len(steps) : steps[k].item = i,
           \A k \in 1 .. Len(steps) : steps[k].settled => inventory[steps[k].item] = "spent",
           ~timedOut => \A k \in 1 .. Len(steps) :
                           gc[steps[k].item] = "spent" /\ steps[k].gained = steps[k].item,
           Proceed(b, Main, steps), UNCHANGED timedOut
    PROVE  IInv'
<1>1. /\ TypeOK /\ LockInv /\ KnownInv /\ batches[b] \in Batch
      /\ batches \in [Batches -> Batch] /\ Main \in SUBSET Items
      /\ timedOut \in BOOLEAN
  BY DEF IInv, TypeOK, Main
<1>2. \A c \in Batches : batches[c].phase # "crafting"
  <2>1. \A c \in Batches : c # b => batches[c].phase \notin Working
    BY <1>1, OneWorks
  <2> QED BY <2>1 DEF Working
<1>3. ~timedOut => sent = {} /\ answers = {}
  BY <1>2, NothingOnItsWay
<1>4. \A c \in Batches : \A k \in 1 .. Len(batches[c].steps) :
         batches[c].steps[k].settled => batches[c].steps[k].item \notin Main
  BY <1>1 DEF KnownInv, Main
<1>5. \A k \in 1 .. Len(steps) : steps[k].settled => steps[k].item \notin Main
  BY DEF Main
<1>6. ASSUME NEW r, r.steps = steps
      PROVE  Answerable(b, r) /\ Clean(Main, r) /\ (~timedOut => Truthful(r))
  <2>1. Answerable(b, r)
    BY <1>6 DEF Answerable, Charged
  <2>2. Clean(Main, r)
    BY <1>4, <1>5, <1>6 DEF Clean
  <2>3. ~timedOut => Truthful(r)
    BY <1>6 DEF Truthful
  <2> QED BY <2>1, <2>2, <2>3
<1>7. ASSUME NEW phase \in Ended, NEW saves \in BOOLEAN, saves \/ Len(steps) = 0,
             End(b, phase, Main, steps, saves)
      PROVE  IInv'
  <2> DEFINE n == [batches[b] EXCEPT !.phase = phase, !.rows = Main, !.steps = steps]
  <2>1. n \in Batch /\ n.phase = phase /\ n.steps = steps
    <3>1. n.phase = phase /\ n.rows = Main /\ n.steps = steps
          /\ n.recipes = batches[b].recipes /\ n.gained = batches[b].gained
      BY <1>1 DEF Batch
    <3>2. n \in Batch
      BY <1>1 DEF Batch, Ended
    <3> HIDE DEF n
    <3> QED BY <3>1, <3>2
  <2>2. batches' = [batches EXCEPT ![b] = n]
    BY <1>1, <1>7 DEF End
  <2>3. /\ accountLock' = Tail(accountLock)
        /\ snapshot' = IF saves THEN Main ELSE snapshot
        /\ UNCHANGED <<gc, inventory, products, spentBy, pauses, sent, answers>>
    BY <1>7 DEF End, Released, gcVars
  <2> HIDE DEF n
  <2>4. Answerable(b, n) /\ Clean(Main, n) /\ (~timedOut => Truthful(n))
    BY <1>6, <2>1
  <2>5. snapshot' \subseteq Items
    BY <1>1, <2>3 DEF TypeOK
  <2>6. Clean(snapshot', n) \/ (snapshot' = snapshot /\ Len(n.steps) = 0)
    BY <1>7, <2>1, <2>3, <2>4
  <2>7. n.phase \in Ended /\ answers' \subseteq answers /\ timedOut' \in BOOLEAN
        /\ UNCHANGED <<gc, inventory, products, spentBy, pauses, sent>>
        /\ (timedOut => timedOut')
        /\ (~timedOut' => sent = {} /\ answers' = {} /\ Truthful(n))
    BY <1>1, <1>3, <2>1, <2>3, <2>4
  <2> QED BY <2>1, <2>2, <2>3, <2>4, <2>5, <2>6, <2>7, EndKeeps
<1>8. ASSUME Len(steps) < Len(batches[b].recipes),
             Submit(b, batches[b].recipes[Len(steps) + 1], Main, steps)
      PROVE  IInv'
  <2> DEFINE n == [batches[b] EXCEPT !.phase = "crafting", !.rows = Main, !.steps = steps]
  <2>1. n \in Batch /\ n.phase = "crafting" /\ n.steps = steps /\ n.rows = Main
        /\ n.recipes = batches[b].recipes
    <3>1. n.phase = "crafting" /\ n.rows = Main /\ n.steps = steps
          /\ n.recipes = batches[b].recipes /\ n.gained = batches[b].gained
      BY <1>1 DEF Batch
    <3>2. n \in Batch
      BY <1>1 DEF Batch
    <3> HIDE DEF n
    <3> QED BY <3>1, <3>2
  <2>2. batches' = [batches EXCEPT ![b] = n]
    BY <1>1, <1>8 DEF Submit
  <2> HIDE DEF n
  <2>3. /\ sent' = sent \cup {<<b, InHand(n)>>}
        /\ UNCHANGED <<gc, inventory, products, answers, spentBy, accountLock, snapshot, pauses>>
    BY <1>8, <2>1 DEF Submit, InHand
  <2>4. Answerable(b, n) /\ Clean(n.rows, n) /\ (~timedOut => Truthful(n))
    BY <1>6, <2>1
  <2>5. batches[b].phase \in Holding /\ Len(n.steps) < Len(n.recipes)
    BY <1>8, <2>1 DEF Holding, Working
  <2>6. UNCHANGED <<gc, inventory, products, answers, spentBy, accountLock, snapshot,
                    pauses, timedOut>>
    BY <2>3
  <2>7. ~timedOut => sent = {} /\ answers = {} /\ Truthful(n)
    BY <1>3, <2>4
  <2> QED BY <2>1, <2>2, <2>3, <2>4, <2>5, <2>6, <2>7, SubmitKeeps
<1>9. Len(steps) \in Nat /\ Len(batches[b].recipes) \in Nat
      /\ (steps # <<>> <=> Len(steps) # 0)
  BY <1>1, BatchFields
<1>10. CASE Len(steps) + 1 > Len(batches[b].recipes)
  BY <1>7, <1>10 DEF Proceed, Ended
<1>11. CASE Len(steps) + 1 <= Len(batches[b].recipes)
  <2>1. ~(Len(steps) + 1 > Len(batches[b].recipes)) /\ Len(steps) < Len(batches[b].recipes)
    BY <1>9, <1>11
  <2>2. CASE b \in pauses
    BY <1>7, <2>1, <2>2 DEF Proceed, Ended
  <2>3. CASE b \notin pauses
    <3>1. \/ Submit(b, batches[b].recipes[Len(steps) + 1], Main, steps)
          \/ \E saves \in {steps # <<>>, TRUE} : End(b, "failed", Main, steps, saves)
      BY <2>1, <2>3 DEF Proceed
    <3>2. ASSUME NEW saves \in {steps # <<>>, TRUE}, End(b, "failed", Main, steps, saves)
          PROVE  IInv'
      <4>1. saves \in BOOLEAN /\ (saves \/ Len(steps) = 0)
        BY <1>9
      <4>2. "failed" \in Ended
        BY DEF Ended
      <4> QED BY <1>7, <3>2, <4>1, <4>2
    <3> QED BY <1>8, <2>1, <3>1, <3>2
  <2> QED BY <2>2, <2>3
<1> QED BY <1>9, <1>10, <1>11

-----------------------------------------------------------------------------
(* What the GC, the session and the pause request may do: they change no     *)
(* batch, and what is spent stays spent.                                     *)

LEMMA GcKeeps ==
    ASSUME IInv, UNCHANGED <<accountLock, batches, snapshot, timedOut>>,
           pauses' \subseteq Batches,
           gc' \in [Items -> Places], inventory' \in [Items -> Places],
           products' \subseteq Items, sent' \subseteq Batches \X Items,
           answers' \subseteq [item : Items, ok : BOOLEAN],
           spentBy' \in [Items -> {0} \cup Batches],
           \A i \in Items : inventory[i] = "spent" => inventory'[i] = "spent",
           \A i \in Items : inventory'[i] = "spent" => gc'[i] = "spent",
           SpendInv', TruthInv'
    PROVE  IInv'
<1>1. TypeOK /\ LockInv /\ KnownInv /\ \A b \in Batches : BatchOK(batches[b])
  BY DEF IInv
<1>2. TypeOK'
  BY <1>1 DEF TypeOK
<1>3. LockInv' /\ \A b \in Batches : BatchOK(batches'[b])
  BY <1>1 DEF LockInv
<1>4. KnownInv'
  <2>1. \A b \in Batches : \A k \in 1 .. Len(batches[b].steps) : batches[b].steps[k].item \in Items
    BY <1>1, BatchFields DEF TypeOK
  <2> QED BY <1>1, <2>1 DEF KnownInv
<1> QED BY <1>2, <1>3, <1>4 DEF IInv

\* Nothing new is on its way.
LEMMA TruthKept ==
    ASSUME IInv, UNCHANGED <<batches, timedOut, sent>>, answers' \subseteq answers,
           \A i \in Items : gc[i] = "spent" => gc'[i] = "spent"
    PROVE  TruthInv'
<1> SUFFICES ASSUME ~timedOut' PROVE TruthInv'
  BY DEF TruthInv
<1>1. /\ TypeOK /\ TruthInv /\ ~timedOut /\ \A b \in Batches : BatchOK(batches[b])
      /\ \A b \in Batches : batches[b] \in Batch
  BY DEF IInv, TypeOK
<1>2. \A a \in answers : a.item \in Items
  BY <1>1 DEF TypeOK
<1>3. \A b \in Batches : batches[b].phase = "settling" => InHand(batches[b]) \in Items
  BY <1>1, BatchFields DEF BatchOK, Working
<1>4. \A b \in Batches : \A k \in 1 .. Len(batches[b].steps) : batches[b].steps[k].item \in Items
  BY <1>1, BatchFields
<1>5. \A b \in Batches, i \in Items : <<b, i>> \in sent' =>
          batches'[b].phase = "crafting" /\ InHand(batches'[b]) = i
  BY <1>1 DEF TruthInv
<1>6. \A a \in answers' :
          /\ a.ok => gc'[a.item] = "spent"
          /\ \E b \in Batches : batches'[b].phase = "crafting" /\ InHand(batches'[b]) = a.item
  BY <1>1, <1>2 DEF TruthInv
<1>7. (sent' = {} \/ answers' = {}) /\ \A a, c \in answers' : a = c
  BY <1>1 DEF TruthInv
<1>8. \A b \in Batches : batches'[b].phase = "settling" =>
          batches'[b].gained = InHand(batches'[b]) /\ gc'[InHand(batches'[b])] = "spent"
  BY <1>1, <1>3 DEF TruthInv
<1>9. \A b \in Batches : \A k \in 1 .. Len(batches'[b].steps) :
          /\ gc'[batches'[b].steps[k].item] = "spent"
          /\ batches'[b].steps[k].gained = batches'[b].steps[k].item
  BY <1>1, <1>4 DEF TruthInv
<1> QED BY <1>5, <1>6, <1>7, <1>8, <1>9 DEF TruthInv

LEMMA SpendKept ==
    ASSUME IInv, UNCHANGED <<batches, sent, spentBy>>
    PROVE  SpendInv'
BY DEF IInv, SpendInv

LEMMA MoveItemStep == ASSUME IInv, NEW i \in Items, MoveItem(i) PROVE IInv'
<1>1. TypeOK /\ KnownInv
  BY DEF IInv
<1>2. /\ gc' \in [Items -> Places]
      /\ \A j \in Items : gc[j] = "spent" => gc'[j] = "spent"
  BY <1>1 DEF MoveItem, TypeOK, Places
<1>3. UNCHANGED <<inventory, products, sent, answers, spentBy, accountLock, batches,
                  snapshot, pauses, timedOut>>
  BY DEF MoveItem, batchVars
<1>4. TruthInv' /\ SpendInv'
  BY <1>2, <1>3, TruthKept, SpendKept
<1>5. \A j \in Items : inventory'[j] = "spent" => gc'[j] = "spent"
  BY <1>1, <1>2, <1>3 DEF KnownInv
<1> QED BY <1>1, <1>2, <1>3, <1>4, <1>5, GcKeeps DEF TypeOK

LEMMA SyncItemStep == ASSUME IInv, NEW i \in Items, SyncItem(i) PROVE IInv'
<1>1. TypeOK /\ KnownInv
  BY DEF IInv
<1>2. UNCHANGED <<gc, products, sent, answers, spentBy, accountLock, batches,
                  snapshot, pauses, timedOut>>
  BY DEF SyncItem, batchVars
<1>3. inventory' = [inventory EXCEPT ![i] = gc[i]]
  BY DEF SyncItem
<1>4. inventory' \in [Items -> Places]
  BY <1>1, <1>3 DEF TypeOK
<1>5. \A j \in Items : inventory'[j] = IF j = i THEN gc[i] ELSE inventory[j]
  BY <1>1, <1>3 DEF TypeOK
<1>6. \A j \in Items : /\ inventory[j] = "spent" => inventory'[j] = "spent"
                       /\ inventory'[j] = "spent" => gc'[j] = "spent"
  BY <1>1, <1>2, <1>5 DEF KnownInv
<1>7. TruthInv' /\ SpendInv'
  BY <1>2, TruthKept, SpendKept
<1> QED BY <1>1, <1>2, <1>4, <1>6, <1>7, GcKeeps DEF TypeOK

LEMMA SyncProductStep == ASSUME IInv, NEW i \in Items, SyncProduct(i) PROVE IInv'
<1>1. TypeOK /\ KnownInv
  BY DEF IInv
<1>2. UNCHANGED <<gc, inventory, sent, answers, spentBy, accountLock, batches,
                  snapshot, pauses, timedOut>>
  BY DEF SyncProduct, batchVars
<1>3. products' \subseteq Items
  BY <1>1 DEF SyncProduct, TypeOK
<1>4. TruthInv' /\ SpendInv'
  BY <1>2, TruthKept, SpendKept
<1>5. \A j \in Items : inventory'[j] = "spent" => gc'[j] = "spent"
  BY <1>1, <1>2 DEF KnownInv
<1> QED BY <1>1, <1>2, <1>3, <1>4, <1>5, GcKeeps DEF TypeOK

LEMMA UnheardStep == ASSUME IInv, NEW a \in answers, Unheard(a) PROVE IInv'
<1>1. TypeOK /\ KnownInv
  BY DEF IInv
<1>2. /\ UNCHANGED <<gc, inventory, products, sent, spentBy, accountLock, batches,
                     snapshot, pauses, timedOut>>
      /\ answers' \subseteq answers
  BY DEF Unheard, batchVars
<1>3. TruthInv' /\ SpendInv'
  BY <1>2, TruthKept, SpendKept
<1>4. \A j \in Items : inventory'[j] = "spent" => gc'[j] = "spent"
  BY <1>1, <1>2 DEF KnownInv
<1> QED BY <1>1, <1>2, <1>3, <1>4, GcKeeps DEF TypeOK

LEMMA PauseStep == ASSUME IInv, NEW b \in Batches, Pause(b) PROVE IInv'
<1>1. TypeOK /\ KnownInv
  BY DEF IInv
<1>2. /\ UNCHANGED <<gc, inventory, products, sent, answers, spentBy, accountLock,
                     batches, snapshot, timedOut>>
      /\ pauses' \subseteq Batches
  BY <1>1 DEF Pause, gcVars, TypeOK
<1>3. TruthInv' /\ SpendInv'
  BY <1>2, TruthKept, SpendKept
<1>4. \A j \in Items : inventory'[j] = "spent" => gc'[j] = "spent"
  BY <1>1, <1>2 DEF KnownInv
<1> QED BY <1>1, <1>2, <1>3, <1>4, GcKeeps DEF TypeOK

LEMMA GcCraftStep ==
    ASSUME IInv, NEW b \in Batches, NEW i \in Items, GcCraft(b, i)
    PROVE  IInv'
<1> DEFINE a == [item |-> i, ok |-> gc[i] = "main"]
<1>1. TypeOK /\ LockInv /\ KnownInv /\ SpendInv /\ TruthInv
  BY DEF IInv
<1>2. /\ UNCHANGED <<inventory, products, accountLock, batches, snapshot, pauses, timedOut>>
      /\ <<b, i>> \in sent /\ sent' = sent \ {<<b, i>>}
      /\ answers' \subseteq answers \cup {a}
      /\ gc' = [gc EXCEPT ![i] = IF @ = "main" THEN "spent" ELSE @]
      /\ spentBy' = [spentBy EXCEPT ![i] = IF gc[i] = "main" THEN b ELSE @]
  BY DEF GcCraft, batchVars
<1>3. a \in [item : Items, ok : BOOLEAN] /\ a.item = i /\ (a.ok <=> gc[i] = "main")
  OBVIOUS
<1>4. /\ gc' \in [Items -> Places]
      /\ \A j \in Items : gc[j] = "spent" => gc'[j] = "spent"
      /\ gc[i] = "main" => gc'[i] = "spent"
  BY <1>1, <1>2 DEF TypeOK, Places
<1>5. /\ spentBy' \in [Items -> {0} \cup Batches]
      /\ \A j \in Items : spentBy'[j] = spentBy[j] \/ (j = i /\ spentBy'[j] = b)
  BY <1>1, <1>2 DEF TypeOK
<1> HIDE DEF a
<1>6. sent' \subseteq Batches \X Items /\ answers' \subseteq [item : Items, ok : BOOLEAN]
  BY <1>1, <1>2, <1>3 DEF TypeOK
<1>7. SpendInv'
  <2>1. Charged(batches[b], i)
    BY <1>1, <1>2 DEF SpendInv
  <2>2. \A c \in Batches, j \in Items : <<c, j>> \in sent' => Charged(batches'[c], j)
    BY <1>1, <1>2 DEF SpendInv
  <2>3. \A c \in Batches, j \in Items : spentBy'[j] = c => Charged(batches'[c], j)
    BY <1>1, <1>2, <1>5, <2>1 DEF SpendInv
  <2> QED BY <2>2, <2>3 DEF SpendInv
<1>8. TruthInv'
  <2> SUFFICES ASSUME ~timedOut' PROVE TruthInv'
    BY DEF TruthInv
  <2>1. /\ answers = {} /\ batches[b].phase = "crafting" /\ InHand(batches[b]) = i
    BY <1>1, <1>2 DEF TruthInv
  <2>2. ASSUME NEW c \in Batches, NEW j \in Items, <<c, j>> \in sent
        PROVE  c = b /\ j = i
    <3>1. batches[c].phase = "crafting" /\ InHand(batches[c]) = j
      BY <1>1, <1>2, <2>2 DEF TruthInv
    <3>2. c = b
      BY <1>1, <2>1, <3>1 DEF LockInv, Working
    <3> QED BY <2>1, <3>1, <3>2
  <2>3. sent' = {}
    BY <1>1, <1>2, <2>2 DEF TypeOK
  <2>4. \A x \in answers' : x = a
    BY <1>2, <2>1
  <2>5. \A x \in answers' :
          /\ x.ok => gc'[x.item] = "spent"
          /\ \E c \in Batches : batches'[c].phase = "crafting" /\ InHand(batches'[c]) = x.item
    BY <1>2, <1>3, <1>4, <2>1, <2>4
  <2>6. \A c \in Batches : batches'[c].phase # "settling"
    BY <1>1, <1>2, <2>1 DEF LockInv, Working
  <2>7. \A c \in Batches : \A k \in 1 .. Len(batches'[c].steps) :
          /\ gc'[batches'[c].steps[k].item] = "spent"
          /\ batches'[c].steps[k].gained = batches'[c].steps[k].item
    <3>1. \A c \in Batches : \A k \in 1 .. Len(batches[c].steps) : batches[c].steps[k].item \in Items
      BY <1>1, BatchFields DEF TypeOK
    <3> QED BY <1>1, <1>2, <1>4, <3>1 DEF TruthInv
  <2> QED BY <2>3, <2>4, <2>5, <2>6, <2>7 DEF TruthInv
<1>9. \A j \in Items : inventory'[j] = "spent" => gc'[j] = "spent"
  BY <1>1, <1>2, <1>4 DEF KnownInv
<1> QED BY <1>1, <1>2, <1>4, <1>5, <1>6, <1>7, <1>8, <1>9, GcKeeps DEF TypeOK

-----------------------------------------------------------------------------
(* The steps of a batch.                                                     *)

LEMMA EnqueueStep ==
    ASSUME IInv, NEW b \in Batches, NEW recipes \in Recipes, Enqueue(b, recipes)
    PROVE  IInv'
<1> DEFINE r == [batches[b] EXCEPT !.phase = "locked", !.recipes = recipes]
<1>1. /\ TypeOK /\ LockInv /\ SpendInv /\ KnownInv /\ TruthInv
      /\ \A c \in Batches : BatchOK(batches[c])
      /\ batches \in [Batches -> Batch] /\ batches[b] \in Batch
      /\ accountLock \in Seq(Batches)
  BY DEF IInv, TypeOK
<1>2. /\ batches[b].phase = "idle" /\ accountLock' = Append(accountLock, b)
      /\ UNCHANGED <<gc, inventory, products, sent, answers, spentBy, snapshot, pauses,
                     timedOut>>
  BY DEF Enqueue, gcVars
<1>3. batches' = [batches EXCEPT ![b] = r]
  BY <1>1 DEF Enqueue
<1>4. r.phase = "locked" /\ r.steps = batches[b].steps
  BY <1>1 DEF Batch
<1>5. r \in Batch
  BY <1>1 DEF Batch
<1>6. batches[b].steps = <<>> /\ Len(r.steps) = 0
  BY <1>1, <1>2, <1>4 DEF BatchOK
<1> HIDE DEF r
<1>7. /\ batches'[b] = r /\ \A c \in Batches : c # b => batches'[c] = batches[c]
      /\ batches' \in [Batches -> Batch]
  BY <1>1, <1>3, <1>5
<1>8. LockInv' /\ accountLock' \in Seq(Batches)
  BY <1>1, <1>2, <1>3, <1>4, LockGrows
<1>9. TypeOK'
  BY <1>1, <1>2, <1>7, <1>8 DEF TypeOK
<1>10. \A c \in Batches : BatchOK(batches'[c])
  <2>1. BatchOK(r)
    BY <1>4, <1>6 DEF BatchOK, Working
  <2> QED BY <1>1, <1>7, <2>1
<1>11. SpendInv'
  <2>1. \A i \in Items : ~Charged(batches[b], i)
    BY <1>2, <1>4, <1>6 DEF Charged
  <2>2. \A c \in Batches, i \in Items : Charged(batches[c], i) => Charged(batches'[c], i)
    BY <1>7, <2>1
  <2> QED BY <1>1, <1>2, <2>2 DEF SpendInv
<1>12. \A c \in Batches : \A k \in 1 .. Len(batches'[c].steps) :
          c # b /\ k \in 1 .. Len(batches[c].steps) /\ batches'[c] = batches[c]
  BY <1>6, <1>7
<1>13. \A c \in Batches : batches'[c].phase \in Working => batches'[c] = batches[c]
  BY <1>4, <1>7 DEF Working
<1>14. KnownInv'
  BY <1>1, <1>2, <1>12, <1>13 DEF KnownInv
<1>15. TruthInv'
  <2> SUFFICES ASSUME ~timedOut' PROVE TruthInv'
    BY DEF TruthInv
  <2>1. \A c \in Batches : batches[c].phase \in Working => batches'[c] = batches[c]
    BY <1>2, <1>7 DEF Working
  <2>2. \A c \in Batches, i \in Items : <<c, i>> \in sent' =>
          batches'[c].phase = "crafting" /\ InHand(batches'[c]) = i
    BY <1>1, <1>2, <2>1 DEF TruthInv, Working
  <2>3. \A a \in answers' :
          /\ a.ok => gc'[a.item] = "spent"
          /\ \E c \in Batches : batches'[c].phase = "crafting" /\ InHand(batches'[c]) = a.item
    BY <1>1, <1>2, <2>1 DEF TruthInv, Working
  <2>4. (sent' = {} \/ answers' = {}) /\ \A a, c \in answers' : a = c
    BY <1>1, <1>2 DEF TruthInv
  <2>5. \A c \in Batches : batches'[c].phase = "settling" =>
          batches'[c].gained = InHand(batches'[c]) /\ gc'[InHand(batches'[c])] = "spent"
    BY <1>1, <1>2, <1>13 DEF TruthInv, Working
  <2>6. \A c \in Batches : \A k \in 1 .. Len(batches'[c].steps) :
          /\ gc'[batches'[c].steps[k].item] = "spent"
          /\ batches'[c].steps[k].gained = batches'[c].steps[k].item
    BY <1>1, <1>2, <1>12 DEF TruthInv
  <2> QED BY <2>2, <2>3, <2>4, <2>5, <2>6 DEF TruthInv
<1> QED BY <1>8, <1>9, <1>10, <1>11, <1>14, <1>15 DEF IInv

LEMMA BeginStep == ASSUME IInv, NEW b \in Batches, Begin(b) PROVE IInv'
<1>1. /\ LockInv /\ BatchOK(batches[b]) /\ accountLock \in Seq(Batches)
      /\ batches[b] \in Batch
  BY DEF IInv, TypeOK
<1>2. batches[b].phase = "locked" /\ HasLock(b) /\ Proceed(b, Main, <<>>) /\ UNCHANGED timedOut
  BY DEF Begin
<1>3. accountLock # <<>> /\ accountLock[1] = b
  <2>1. \E k \in 1 .. Len(accountLock) : accountLock[k] = b
    BY <1>1, <1>2 DEF LockInv, Holding
  <2>2. accountLock # <<>>
    BY <1>1, <2>1
  <2> QED BY <1>1, <1>2, <2>2 DEF HasLock
<1>4. \A i \in Items : ~Charged(batches[b], i)
  <2>1. Len(batches[b].steps) = 0
    BY <1>1, <1>2 DEF BatchOK
  <2> QED BY <1>2, <2>1 DEF Charged
<1>5. <<>> \in Seq(Step) /\ Len(<<>>) = 0
  OBVIOUS
<1>6. \A k \in 1 .. Len(<<>>) : FALSE
  OBVIOUS
<1>7. batches[b].phase \in {"locked", "settling"}
  BY <1>2
<1> QED BY <1>2, <1>3, <1>4, <1>5, <1>6, <1>7, ProceedKeeps

LEMMA SettleStep == ASSUME IInv, NEW b \in Batches, Settle(b) PROVE IInv'
<1> DEFINE r == batches[b]
           step == [item |-> InHand(r), gained |-> r.gained, settled |-> Settled(b)]
           steps == Append(r.steps, step)
           n == Len(r.steps)
<1>1. /\ LockInv /\ KnownInv /\ TruthInv /\ BatchOK(r) /\ r \in Batch
      /\ accountLock \in Seq(Batches)
  BY DEF IInv, TypeOK
<1>2. r.phase = "settling" /\ Proceed(b, Main, steps) /\ UNCHANGED timedOut
  BY DEF Settle, RowsAfter, InHand
<1>3. accountLock # <<>> /\ accountLock[1] = b
  BY <1>1, <1>2 DEF LockInv, Working
<1>4. /\ r.steps \in Seq(Step) /\ n \in Nat /\ InHand(r) \in Items /\ r.gained \in Items
      /\ n < Len(r.recipes)
  BY <1>1, <1>2, BatchFields DEF BatchOK, Working
<1>5. /\ step \in Step /\ step.item = InHand(r) /\ step.gained = r.gained
      /\ step.settled => inventory[InHand(r)] = "spent"
  BY <1>4 DEF Step, Settled, InHand
<1> HIDE DEF step
<1>6. /\ steps \in Seq(Step) /\ Len(steps) = n + 1
      /\ \A k \in 1 .. n : k \in 1 .. Len(steps) /\ steps[k] = r.steps[k]
      /\ n + 1 \in 1 .. Len(steps) /\ steps[n + 1] = step
      /\ \A k \in 1 .. Len(steps) : k \in 1 .. n \/ k = n + 1
  BY <1>4, <1>5
<1> HIDE DEF steps
<1>7. \A i \in Items : Charged(r, i) => \E k \in 1 .. Len(steps) : steps[k].item = i
  BY <1>5, <1>6 DEF Charged
<1>8. \A k \in 1 .. Len(steps) : steps[k].settled => inventory[steps[k].item] = "spent"
  <2>1. \A k \in 1 .. n : r.steps[k].settled => inventory[r.steps[k].item] = "spent"
    BY <1>1 DEF KnownInv
  <2> QED BY <1>5, <1>6, <2>1
<1>9. ~timedOut => \A k \in 1 .. Len(steps) :
                      gc[steps[k].item] = "spent" /\ steps[k].gained = steps[k].item
  <2> SUFFICES ASSUME ~timedOut
               PROVE  \A k \in 1 .. Len(steps) :
                         gc[steps[k].item] = "spent" /\ steps[k].gained = steps[k].item
    OBVIOUS
  <2>1. r.gained = InHand(r) /\ gc[InHand(r)] = "spent"
    BY <1>1, <1>2 DEF TruthInv
  <2>2. \A k \in 1 .. n : gc[r.steps[k].item] = "spent" /\ r.steps[k].gained = r.steps[k].item
    BY <1>1 DEF TruthInv
  <2> QED BY <1>5, <1>6, <2>1, <2>2
<1>10. batches[b].phase \in {"locked", "settling"}
  BY <1>2
<1> QED BY <1>2, <1>3, <1>6, <1>7, <1>8, <1>9, <1>10, ProceedKeeps

\* The record of a batch that fails at the recipe it has in hand.
LEMMA FailedRecord ==
    ASSUME IInv, NEW b \in Batches, batches[b].phase = "crafting",
           NEW r \in Batch, r.phase = "failed", r.recipes = batches[b].recipes,
           r.steps = batches[b].steps
    PROVE  /\ Answerable(b, r)
           /\ Clean(batches[b].rows, r)
           /\ ~timedOut => Truthful(r)
<1>1. KnownInv /\ TruthInv
  BY DEF IInv
<1>2. Answerable(b, r)
  <2>1. \A i \in Items : Charged(batches[b], i) => Charged(r, i)
    BY DEF Charged, InHand
  <2> QED BY <1>1, <2>1 DEF Answerable, KnownInv
<1>3. Clean(batches[b].rows, r)
  BY <1>1 DEF Clean, KnownInv, Working
<1>4. ~timedOut => Truthful(r)
  BY <1>1 DEF Truthful, TruthInv
<1> QED BY <1>2, <1>3, <1>4

LEMMA CraftTimeoutStep == ASSUME IInv, NEW b \in Batches, CraftTimeout(b) PROVE IInv'
<1> DEFINE q == batches[b]
           r == [q EXCEPT !.phase = "failed", !.rows = q.rows, !.steps = q.steps]
<1>1. /\ LockInv /\ TypeOK /\ batches \in [Batches -> Batch] /\ q \in Batch
  BY DEF IInv, TypeOK
<1>2. q.phase = "crafting" /\ timedOut' = TRUE
      /\ End(b, "failed", q.rows, q.steps, TRUE)
  BY DEF CraftTimeout
<1>3. accountLock # <<>> /\ accountLock[1] = b
  BY <1>1, <1>2 DEF LockInv, Working
<1>4. r.phase = "failed" /\ r.recipes = q.recipes /\ r.steps = q.steps
  BY <1>1 DEF Batch
<1>5. r \in Batch
  BY <1>1 DEF Batch, Ended
<1>6. batches' = [batches EXCEPT ![b] = r]
  BY <1>1, <1>2 DEF End
<1>7. /\ accountLock' = Tail(accountLock) /\ snapshot' = q.rows
      /\ UNCHANGED <<gc, inventory, products, spentBy, pauses, sent>>
      /\ answers' \subseteq answers
  BY <1>2 DEF End, Released, gcVars
<1> HIDE DEF r
<1>8. Answerable(b, r) /\ Clean(snapshot', r)
  BY <1>2, <1>4, <1>5, <1>7, FailedRecord
<1>9. snapshot' \subseteq Items
  BY <1>1, <1>7, BatchFields
<1>10. /\ r.phase \in Ended /\ timedOut' \in BOOLEAN /\ (timedOut => timedOut')
       /\ (~timedOut' => sent = {} /\ answers' = {} /\ Truthful(r))
  BY <1>2, <1>4 DEF Ended
<1> QED BY <1>3, <1>5, <1>6, <1>7, <1>8, <1>9, <1>10, EndKeeps

\* The answer that fails the batch, or lets it wait for the inventory.
LEMMA CompleteStep ==
    ASSUME IInv, NEW b \in Batches, NEW a \in answers, Complete(b, a)
    PROVE  IInv'
<1> DEFINE q == batches[b]
<1>1. /\ TypeOK /\ LockInv /\ SpendInv /\ KnownInv /\ TruthInv
      /\ \A c \in Batches : BatchOK(batches[c])
      /\ batches \in [Batches -> Batch] /\ q \in Batch
      /\ timedOut \in BOOLEAN
  BY DEF IInv, TypeOK
<1>2. /\ q.phase = "crafting" /\ answers' = answers \ {a}
      /\ UNCHANGED <<gc, inventory, products, sent, spentBy, pauses, timedOut>>
  BY DEF Complete
<1>3. accountLock # <<>> /\ accountLock[1] = b
  BY <1>1, <1>2 DEF LockInv, Working
<1>4. ~timedOut => /\ sent = {} /\ answers' = {} /\ a.item = InHand(q)
                   /\ a.ok => gc[a.item] = "spent"
  <2> SUFFICES ASSUME ~timedOut
               PROVE  /\ sent = {} /\ answers' = {} /\ a.item = InHand(q)
                      /\ a.ok => gc[a.item] = "spent"
    OBVIOUS
  <2>1. sent = {} /\ \A c \in answers : c = a
    BY <1>1 DEF TruthInv
  <2>2. answers' = {}
    BY <1>2, <2>1
  <2>3. PICK c \in Batches : batches[c].phase = "crafting" /\ InHand(batches[c]) = a.item
    BY <1>1 DEF TruthInv
  <2>4. c = b
    BY <1>1, <1>3, <2>3 DEF LockInv, Working
  <2>5. a.ok => gc[a.item] = "spent"
    BY <1>1 DEF TruthInv
  <2> QED BY <2>1, <2>2, <2>3, <2>4, <2>5
<1>5. CASE ~a.ok
  <2> DEFINE r == [q EXCEPT !.phase = "failed"]
  <2>1. r.phase = "failed" /\ r.recipes = q.recipes /\ r.steps = q.steps
    BY <1>1 DEF Batch
  <2>2. r \in Batch
    BY <1>1 DEF Batch, Ended
  <2>3. batches' = [batches EXCEPT ![b] = r]
    BY <1>1, <1>5 DEF Complete, Crafted
  <2>4. accountLock' = Tail(accountLock) /\ snapshot' = q.rows
    BY <1>5 DEF Complete, Crafted, Released
  <2> HIDE DEF r
  <2>5. Answerable(b, r) /\ Clean(snapshot', r) /\ (~timedOut => Truthful(r))
    BY <1>2, <2>1, <2>2, <2>4, FailedRecord
  <2>6. snapshot' \subseteq Items
    BY <1>1, <2>4, BatchFields
  <2>7. /\ r.phase \in Ended /\ timedOut' \in BOOLEAN /\ (timedOut => timedOut')
        /\ (~timedOut' => sent = {} /\ answers' = {} /\ Truthful(r))
        /\ UNCHANGED <<gc, inventory, products, spentBy, pauses, sent>>
        /\ answers' \subseteq answers
    BY <1>1, <1>2, <1>4, <2>1, <2>5 DEF Ended
  <2> QED BY <1>3, <2>2, <2>3, <2>4, <2>5, <2>6, <2>7, EndKeeps
<1>6. CASE a.ok
  <2> DEFINE r == [q EXCEPT !.phase = "settling", !.gained = a.item]
  <2>1. a.item \in Items
    BY <1>1 DEF TypeOK
  <2>2. /\ r.phase = "settling" /\ r.gained = a.item /\ r.recipes = q.recipes
        /\ r.steps = q.steps /\ r.rows = q.rows
    BY <1>1 DEF Batch
  <2>3. r \in Batch
    BY <1>1, <2>1 DEF Batch
  <2>4. batches' = [batches EXCEPT ![b] = r]
    BY <1>1, <1>6 DEF Complete, Crafted, GainedBy
  <2>5. UNCHANGED <<snapshot, accountLock>>
    BY <1>6 DEF Complete, Crafted
  <2> HIDE DEF r
  <2>6. /\ batches'[b] = r /\ \A c \in Batches : c # b => batches'[c] = batches[c]
        /\ batches' \in [Batches -> Batch]
    BY <1>1, <2>3, <2>4
  <2>7. LockInv'
    <3>1. r.phase \in Working /\ q.phase \in Holding
      BY <1>2, <2>2 DEF Working, Holding
    <3> QED BY <1>1, <1>3, <2>4, <2>5, <3>1, LockStays
  <2>8. TypeOK'
    BY <1>1, <1>2, <2>5, <2>6 DEF TypeOK
  <2>9. \A c \in Batches : BatchOK(batches'[c])
    <3>1. BatchOK(r)
      BY <1>1, <1>2, <2>1, <2>2 DEF BatchOK, Working
    <3> QED BY <1>1, <2>6, <3>1
  <2>10. SpendInv'
    <3>1. \A i \in Items : Charged(q, i) => Charged(r, i)
      BY <1>2, <2>2 DEF Charged, InHand
    <3>2. \A c \in Batches, i \in Items : Charged(batches[c], i) => Charged(batches'[c], i)
      BY <2>6, <3>1
    <3> QED BY <1>1, <1>2, <3>2 DEF SpendInv
  <2>11. /\ \A c \in Batches : batches'[c].steps = batches[c].steps /\ batches'[c].rows = batches[c].rows
         /\ \A c \in Batches : batches'[c].phase \in Working => batches[c].phase \in Working
         /\ \A c \in Batches : batches'[c].phase \in Ended => batches[c].phase \in Ended
    BY <1>2, <2>2, <2>6 DEF Working, Ended
  <2>12. KnownInv'
    BY <1>1, <1>2, <2>5, <2>11 DEF KnownInv
  <2>13. TruthInv'
    <3> SUFFICES ASSUME ~timedOut' PROVE TruthInv'
      BY DEF TruthInv
    <3>1. sent' = {} /\ answers' = {} /\ a.item = InHand(q) /\ gc[a.item] = "spent"
      BY <1>2, <1>4, <1>6
    <3>2. InHand(r) = a.item
      BY <2>2, <3>1 DEF InHand
    <3>3. \A c \in Batches : batches'[c].phase = "settling" => c = b
      BY <1>1, <1>3, <2>6 DEF LockInv, Working
    <3>4. \A c \in Batches : batches'[c].phase = "settling" =>
            batches'[c].gained = InHand(batches'[c]) /\ gc'[InHand(batches'[c])] = "spent"
      BY <1>2, <2>2, <2>6, <3>1, <3>2, <3>3
    <3>5. \A c \in Batches : \A k \in 1 .. Len(batches'[c].steps) :
            /\ gc'[batches'[c].steps[k].item] = "spent"
            /\ batches'[c].steps[k].gained = batches'[c].steps[k].item
      BY <1>1, <1>2, <2>11 DEF TruthInv
    <3> QED BY <3>1, <3>4, <3>5 DEF TruthInv
  <2> QED BY <2>7, <2>8, <2>9, <2>10, <2>12, <2>13 DEF IInv
<1> QED BY <1>5, <1>6

-----------------------------------------------------------------------------
(* The theorems.                                                             *)

LEMMA NextInv == IInv /\ [Next]_vars => IInv'
<1> SUFFICES ASSUME IInv, [Next]_vars PROVE IInv'
  OBVIOUS
<1>1. CASE UNCHANGED vars
  <2>1. /\ UNCHANGED <<gc, inventory, products, sent, answers, spentBy>>
        /\ UNCHANGED <<accountLock, batches, snapshot, pauses, timedOut>>
    BY <1>1 DEF vars, gcVars, batchVars
  <2>2. TypeOK /\ KnownInv
    BY DEF IInv
  <2>3. TruthInv' /\ SpendInv'
    BY <2>1, TruthKept, SpendKept
  <2>4. \A j \in Items : inventory'[j] = "spent" => gc'[j] = "spent"
    BY <2>1, <2>2 DEF KnownInv
  <2> QED BY <2>1, <2>2, <2>3, <2>4, GcKeeps DEF TypeOK
<1>2. CASE Gc
  BY <1>2, MoveItemStep, SyncItemStep, SyncProductStep, GcCraftStep DEF Gc
<1>3. CASE \E b \in Batches, recipes \in Recipes : Enqueue(b, recipes)
  BY <1>3, EnqueueStep
<1>4. CASE \E b \in Batches : Advance(b) \/ Pause(b)
  BY <1>4, BeginStep, CompleteStep, CraftTimeoutStep, SettleStep, PauseStep DEF Advance
<1>5. CASE \E a \in answers : Unheard(a)
  BY <1>5, UnheardStep
<1> QED BY <1>1, <1>2, <1>3, <1>4, <1>5 DEF Next

\* The inductive invariant holds in every reachable state.
THEOREM Inductive == Spec => []IInv
<1>1. Init => IInv
  BY InitInv
<1>2. IInv /\ [Next]_vars => IInv'
  BY NextInv
<1> QED BY <1>1, <1>2, PTL DEF Spec

\* Every variable keeps to the values the service and the GC have for it.
THEOREM TypeCorrect == Spec => []TypeOK
<1>1. IInv => TypeOK
  BY DEF IInv
<1> QED BY <1>1, Inductive, PTL

\* The lock lets one batch craft at a time, and whoever waits for it waits for a batch
\* that goes on (LockGuards).
THEOREM LockIsKept == Spec => []LockGuards
<1>1. ASSUME IInv PROVE LockGuards
  <2>1. accountLock \in Seq(Batches) /\ LockInv
    BY <1>1 DEF IInv, TypeOK
  <2>2. ASSUME NEW b \in Batches, NEW c \in Batches,
               {batches[b].phase, batches[c].phase} \subseteq {"crafting", "settling"}
        PROVE  b = c
    BY <2>1, <2>2 DEF LockInv, Working
  <2>3. DOMAIN accountLock = 1 .. Len(accountLock)
    BY <2>1
  <2>4. ASSUME NEW b \in Batches, batches[b].phase = "locked"
        PROVE  \E k \in DOMAIN accountLock : accountLock[k] = b
    BY <2>1, <2>3, <2>4 DEF LockInv, Holding
  <2>5. ASSUME accountLock # <<>>
        PROVE  batches[Head(accountLock)].phase \in {"locked", "crafting", "settling"}
    <3>1. 1 \in 1 .. Len(accountLock) /\ Head(accountLock) = accountLock[1]
      BY <2>1, <2>5
    <3> QED BY <2>1, <3>1 DEF LockInv, Holding, Working
  <2> QED BY <2>2, <2>4, <2>5 DEF LockGuards
<1> QED BY <1>1, Inductive, PTL

\* Until a wait times out, a completed step was crafted and names its own product; and
\* whatever a batch made the GC spend is in its report, however late the GC gets to it.
THEOREM ReportsAreTrue == Spec => []ReportTrue
<1>1. ASSUME IInv PROVE ReportTrue
  <2>1. /\ TypeOK /\ SpendInv /\ TruthInv /\ \A b \in Batches : BatchOK(batches[b])
        /\ \A b \in Batches : batches[b].steps \in Seq(Step)
    BY <1>1, BatchFields DEF IInv, TypeOK
  <2>2. \A b \in Batches : DOMAIN batches[b].steps = 1 .. Len(batches[b].steps)
    BY <2>1
  <2>3. ASSUME ~timedOut, NEW b \in Batches, NEW step \in Completed(b)
        PROVE  gc[step.item] = "spent" /\ step.gained = step.item
    <3>1. PICK k \in 1 .. Len(batches[b].steps) : step = batches[b].steps[k]
      BY <2>2 DEF Completed
    <3> QED BY <2>1, <2>3, <3>1 DEF TruthInv
  <2>4. ASSUME NEW i \in Items, NEW b \in Batches, spentBy[i] = b
        PROVE  \/ \E step \in Completed(b) : step.item = i
               \/ /\ Len(batches[b].steps) < Len(batches[b].recipes)
                  /\ batches[b].recipes[Len(batches[b].steps) + 1] = i
                  /\ batches[b].phase \in {"crafting", "settling", "failed"}
    <3>1. Charged(batches[b], i)
      BY <2>1, <2>4 DEF SpendInv
    <3> QED BY <2>2, <3>1 DEF Charged, InHand, Completed
  <2> QED BY <2>3, <2>4 DEF ReportTrue
<1> QED BY <1>1, Inductive, PTL

\* The saved snapshot lists no item that an ended batch reported as spent and settled,
\* whichever batch saved it.
THEOREM SnapshotForgetsSettled == Spec => []SnapshotKnowsSettled
<1>1. ASSUME IInv PROVE SnapshotKnowsSettled
  <2>1. KnownInv /\ \A b \in Batches : batches[b].steps \in Seq(Step)
    BY <1>1, BatchFields DEF IInv, TypeOK
  <2>2. \A b \in Batches : DOMAIN batches[b].steps = 1 .. Len(batches[b].steps)
    BY <2>1
  <2>3. ASSUME NEW b \in Batches, batches[b].phase \in Ended,
               NEW step \in Completed(b), step.settled
        PROVE  step.item \notin snapshot
    <3>1. PICK k \in 1 .. Len(batches[b].steps) : step = batches[b].steps[k]
      BY <2>2 DEF Completed
    <3> QED BY <2>1, <2>3, <3>1 DEF KnownInv
  <2> QED BY <2>3 DEF SnapshotKnowsSettled
<1> QED BY <1>1, Inductive, PTL
=============================================================================
