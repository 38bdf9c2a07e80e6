--------------------------- MODULE CraftPage_proofs ---------------------------
(***************************************************************************)
(* Type correctness of CraftPage; that an account's queue has recipes of   *)
(* the account only, that no recipe is lost, and that results are entered  *)
(* at the right recipes: for every number of accounts, recipes and changes *)
(* of the view.                                                            *)
(*                                                                         *)
(* The same queue is in up to three places at a time, and any of them may  *)
(* be the one that is shown next.  The invariant says of every copy that   *)
(* is still to be used what the properties say of the queue.               *)
(***************************************************************************)
EXTENDS CraftPage, FiniteSetTheorems, TLAPS

\* The copies of the queue of account a that a later step may show, run or save: the
\* saved one, but for the account on the screen; the one on the screen, unless another
\* account's replaces it; and that of a selection run.
SavedCopy(a, q) == q = saved[a] /\ (a # current \/ switching # NoAccount)

LiveCopy(a, q) == q = live /\ a = current /\ switching \in {NoAccount, current}

HeldCopy(a, q) == q = held[a] /\ Selecting(a)

Copy(a, q) == SavedCopy(a, q) \/ LiveCopy(a, q) \/ HeldCopy(a, q)

\* It has recipes of the account only, with items only if the user wants them.
Own(q, a) ==
    \A k \in DOMAIN q : /\ owner[q[k].id] = a
                        /\ q[k].state = "filled" => q[k].id \in wanted

\* It has every recipe of the account that is still to be crafted.
Complete(q, a) ==
    \A i \in wanted \ crafted :
        owner[i] = a => \E k \in DOMAIN q : q[k].id = i /\ q[k].state = "filled"

\* It knows what the page was told of.
Informed(q) ==
    \A k \in DOMAIN q : /\ q[k].state = "done" => q[k].id \in told
                        /\ q[k].state = "filled" => q[k].id \notin told

Sound(q, a) == Own(q, a) /\ (~strayed => Complete(q, a) /\ Informed(q))

CopiesSound == ~overlapped => \A a \in Accounts, q \in Queue : Copy(a, q) => Sound(q, a)

-----------------------------------------------------------------------------
\* The types, with those of the functions and of the run as a whole.
Todo == [id : Recipes, index : 1 .. MaxRecipes]

Run == [account : Accounts \cup {NoAccount}, todo : Seq(Todo), executed : BOOLEAN]

Typed ==
    /\ current \in Accounts /\ rows \in Accounts
    /\ connected \in Accounts \cup {NoAccount}
    /\ switching \in Accounts \cup {NoAccount}
    /\ refreshing \in Accounts \cup {NoAccount}
    /\ reloading \subseteq Accounts
    /\ live \in Queue /\ saved \in [Accounts -> Queue] /\ held \in [Accounts -> Queue]
    /\ run \in Run
    /\ owner \in [Recipes -> Accounts \cup {NoAccount}]
    /\ crafted \subseteq Recipes /\ wanted \subseteq Recipes /\ told \subseteq Recipes
    /\ strayed \in BOOLEAN /\ overlapped \in BOOLEAN
    /\ changes \in 0 .. MaxChanges

InUse(q) == q = live \/ \E a \in Accounts : q = saved[a] \/ q = held[a]

\* A queue lists only recipes that were made, each at most once.
Listed(q) == OneEach(q) /\ \A k \in DOMAIN q : owner[q[k].id] # NoAccount

QueuesListed == \A q \in Queue : InUse(q) => Listed(q)

\* What became of a recipe became of one that was made.
RecipesMade ==
    /\ told \subseteq crafted
    /\ \A i \in crafted \cup wanted : owner[i] # NoAccount

\* A run has an account and a recipe that is next, executed if it says so, and no recipe
\* twice.
RunTrue ==
    Busy => /\ run.account \in Accounts
            /\ run.todo # <<>>
            /\ run.executed => run.todo[1].id \in crafted
            /\ \A m, n \in 1 .. Len(run.todo) : run.todo[m].id = run.todo[n].id => m = n

\* The run that goes on is of the queue on the screen, which stays where the run has
\* found it.
RunOnScreen ==
    Busy => /\ run.account = current /\ switching = NoAccount /\ ~Selecting(current)
            /\ \A n \in 1 .. Len(run.todo) :
                  /\ run.todo[n].index \in DOMAIN live
                  /\ live[run.todo[n].index].id = run.todo[n].id

\* The slot that a selection run fills is nobody's recipe yet.
SlotOpen ==
    \A a \in Accounts : Selecting(a) => held[a][Len(held[a])].id \notin wanted \cup crafted

ViewKept == ~overlapped /\ ~strayed => rows = current /\ RunOnScreen /\ SlotOpen

\* The inductive invariant.
IInv ==
    /\ Typed
    /\ QueuesListed
    /\ RecipesMade
    /\ RunTrue
    /\ CopiesSound
    /\ ViewKept

-----------------------------------------------------------------------------
(* Queues.                                                                   *)

LEMMA QueueSeq ==
    /\ \A q : q \in Queue <=> q \in Seq(Entry) /\ Len(q) <= MaxRecipes
    /\ <<>> \in Queue /\ MaxRecipes \in Nat
<1>1. MaxRecipes \in Nat
  BY CraftPageAssumption
<1>2. ASSUME NEW q \in Queue PROVE q \in Seq(Entry) /\ Len(q) <= MaxRecipes
  <2>1. PICK n \in 0 .. MaxRecipes : q \in [1 .. n -> Entry]
    BY DEF Queue
  <2>2. q \in Seq(Entry) /\ Len(q) = n
    BY <1>1, <2>1
  <2> QED BY <2>1, <2>2, <1>1
<1>3. ASSUME NEW q \in Seq(Entry), Len(q) <= MaxRecipes PROVE q \in Queue
  <2>1. q \in [1 .. Len(q) -> Entry] /\ Len(q) \in 0 .. MaxRecipes
    BY <1>1, <1>3
  <2> QED BY <2>1 DEF Queue
<1>4. <<>> \in Seq(Entry) /\ Len(<<>>) = 0
  OBVIOUS
<1>5. \A q : q \in Queue <=> q \in Seq(Entry) /\ Len(q) <= MaxRecipes
  BY <1>2, <1>3
<1>6. <<>> \in Queue
  <2>1. Len(<<>>) <= MaxRecipes
    BY <1>1, <1>4
  <2> QED BY <1>4, <1>5, <2>1
<1> QED BY <1>1, <1>5, <1>6

\* What the steps use of a queue.
LEMMA QueueIs ==
    ASSUME NEW q \in Queue
    PROVE  /\ q \in Seq(Entry) /\ Len(q) \in Nat /\ Len(q) <= MaxRecipes
           /\ DOMAIN q = 1 .. Len(q)
           /\ \A k \in DOMAIN q : q[k] \in Entry /\ q[k].id \in Recipes
                                  /\ q[k].state \in {"empty", "filled", "done"}
<1>1. q \in Seq(Entry) /\ Len(q) <= MaxRecipes
  BY QueueSeq
<1>2. \A k \in DOMAIN q : q[k] \in Entry
  BY <1>1
<1> QED BY <1>1, <1>2 DEF Entry

\* A queue that lists no recipe twice is no longer than there are recipes.
LEMMA OneEachFits ==
    ASSUME NEW q \in Seq(Entry), OneEach(q)
    PROVE  q \in Queue
<1> DEFINE n == Len(q)
           f == [k \in 1 .. n |-> q[k].id]
<1>1. n \in Nat /\ DOMAIN q = 1 .. n /\ \A k \in 1 .. n : q[k].id \in Recipes
  <2>1. n \in Nat /\ DOMAIN q = 1 .. n /\ \A k \in 1 .. n : q[k] \in Entry
    OBVIOUS
  <2> QED BY <2>1 DEF Entry
<1>2. f \in [1 .. n -> Recipes] /\ \A j, k \in 1 .. n : f[j] = f[k] => j = k
  BY <1>1 DEF OneEach
<1> HIDE DEF f
<1>3. f \in Injection(1 .. n, Recipes)
  BY <1>2 DEF Injection, IsInjective
<1>4. /\ IsFiniteSet(1 .. n) /\ Cardinality(1 .. n) = n
      /\ IsFiniteSet(Recipes) /\ Cardinality(Recipes) = MaxRecipes /\ MaxRecipes \in Nat
  <2>1. \A m \in Nat : IsFiniteSet(1 .. m) /\ Cardinality(1 .. m) = m
    BY FS_Interval
  <2> HIDE DEF n
  <2> QED BY <1>1, <2>1, CraftPageAssumption DEF Recipes
<1>5. n <= MaxRecipes
  BY <1>3, <1>4, FS_Injection
<1> QED BY <1>5, QueueSeq

\* What is at these places is listed, once for each place, and nothing else is.
Selects(w, q, places) ==
    /\ \A n \in 1 .. Len(w) : \E k \in places : w[n] = q[k]
    /\ \A k \in places : \E n \in 1 .. Len(w) : w[n] = q[k]
    /\ (\A j, k \in places : q[j] = q[k] => j = k)
       => \A m, n \in 1 .. Len(w) : w[m] = w[n] => m = n

LEMMA FilteredSelects ==
    ASSUME NEW S, NEW q \in Seq(S), NEW places \in SUBSET (DOMAIN q),
           NEW w, w = Filtered(q, places)
    PROVE  w \in Seq(S) /\ Selects(w, q, places)
<1> DEFINE upTo(k) == {j \in places : j <= k}
           c == Cardinality(places)
           at(n) == CHOOSE k \in places : Cardinality(upTo(k)) = n
<1>1. /\ Len(q) \in Nat /\ \A k \in places : k \in Nat /\ q[k] \in S
      /\ w = [n \in 1 .. c |-> q[at(n)]]
  <2>1. DOMAIN q = 1 .. Len(q) /\ Len(q) \in Nat
    OBVIOUS
  <2>2. \A k \in DOMAIN q : k \in Nat /\ q[k] \in S
    BY <2>1
  <2> QED BY <2>1, <2>2 DEF Filtered
<1>2. IsFiniteSet(places) /\ c \in Nat
  <2>1. places \subseteq 1 .. Len(q)
    OBVIOUS
  <2>2. IsFiniteSet(1 .. Len(q))
    BY <1>1, FS_Interval
  <2> QED BY <2>1, <2>2, FS_Subset, FS_CardinalityType
<1>3. ASSUME NEW k \in places
      PROVE  IsFiniteSet(upTo(k)) /\ Cardinality(upTo(k)) \in 1 .. c
  <2>1. IsFiniteSet(upTo(k)) /\ Cardinality(upTo(k)) <= c /\ Cardinality(upTo(k)) \in Nat
    BY <1>2, FS_Subset, FS_CardinalityType
  <2>2. k \in upTo(k)
    BY <1>1
  <2>3. Cardinality(upTo(k)) # 0
    BY <2>1, <2>2, FS_EmptySet
  <2> QED BY <1>2, <2>1, <2>3
<1>4. \A k \in places : Cardinality(upTo(k)) \in Nat
  <2>1. \A k \in places : Cardinality(upTo(k)) \in 1 .. c
    BY <1>3
  <2> HIDE DEF c
  <2> QED BY <1>2, <2>1
<1>5. ASSUME NEW j \in places, NEW k \in places, j < k
      PROVE  Cardinality(upTo(j)) < Cardinality(upTo(k))
  <2> DEFINE a == upTo(j)
             b == upTo(k)
  <2>1. a \subseteq b /\ a # b
    <3>1. k \in b /\ k \notin a
      BY <1>1, <1>5
    <3>2. a \subseteq b
      BY <1>1, <1>5
    <3> QED BY <3>1, <3>2
  <2>2. IsFiniteSet(b) /\ Cardinality(a) \in Nat /\ Cardinality(b) \in Nat
    BY <1>3, <1>4
  <2> HIDE DEF a, b
  <2>3. Cardinality(a) <= Cardinality(b) /\ Cardinality(a) # Cardinality(b)
    BY <2>1, <2>2, FS_Subset
  <2>4. Cardinality(a) < Cardinality(b)
    BY <2>2, <2>3
  <2> QED BY <2>4 DEF a, b
<1>6. \A j, k \in places : Cardinality(upTo(j)) = Cardinality(upTo(k)) => j = k
  <2> SUFFICES ASSUME NEW j \in places, NEW k \in places, j # k
               PROVE  Cardinality(upTo(j)) # Cardinality(upTo(k))
    OBVIOUS
  <2> DEFINE a == Cardinality(upTo(j))
             b == Cardinality(upTo(k))
  <2>1. j < k \/ k < j
    BY <1>1
  <2>2. (j < k => a < b) /\ (k < j => b < a)
    BY <1>5
  <2>3. a \in Nat /\ b \in Nat
    BY <1>4
  <2> HIDE DEF a, b
  <2>4. a # b
    BY <2>1, <2>2, <2>3
  <2> QED BY <2>4 DEF a, b
<1>7. \A n \in 1 .. c : \E k \in places : Cardinality(upTo(k)) = n
  <2> DEFINE f == [k \in places |-> Cardinality(upTo(k))]
  <2>1. f \in [places -> 1 .. c] /\ \A k \in places : f[k] = Cardinality(upTo(k))
    BY <1>3
  <2> HIDE DEF f
  <2>2. f \in Injection(places, 1 .. c)
    <3>1. \A j, k \in places : f[j] = f[k] => j = k
      BY <1>6, <2>1
    <3> QED BY <2>1, <3>1 DEF Injection, IsInjective
  <2>3. IsFiniteSet(1 .. c) /\ Cardinality(1 .. c) = Cardinality(places)
    <3> HIDE DEF c
    <3>1. IsFiniteSet(1 .. c) /\ Cardinality(1 .. c) = c
      BY <1>2, FS_Interval
    <3> QED BY <3>1 DEF c
  <2>4. f \in Surjection(places, 1 .. c)
    BY <1>2, <2>2, <2>3, FS_Injection
  <2> QED BY <2>1, <2>4 DEF Surjection
<1>8. \A n \in 1 .. c : at(n) \in places /\ Cardinality(upTo(at(n))) = n
  BY <1>7
<1>9. \A k \in places : at(Cardinality(upTo(k))) = k
  BY <1>3, <1>6, <1>8
<1> HIDE DEF at
<1>10. /\ w \in Seq(S) /\ Len(w) = c /\ \A n \in 1 .. c : w[n] = q[at(n)]
  <2>1. \A n \in 1 .. c : q[at(n)] \in S
    BY <1>1, <1>8
  <2>2. c \in Nat /\ w = [n \in 1 .. c |-> q[at(n)]]
    BY <1>1, <1>2
  <2> HIDE DEF c
  <2>3. w \in [1 .. c -> S] /\ \A n \in 1 .. c : w[n] = q[at(n)]
    BY <2>1, <2>2
  <2>4. w \in Seq(S) /\ Len(w) = c
    BY <2>2, <2>3
  <2> QED BY <2>3, <2>4
<1>11. \A n \in 1 .. Len(w) : \E k \in places : w[n] = q[k]
  BY <1>8, <1>10
<1>12. \A k \in places : \E n \in 1 .. Len(w) : w[n] = q[k]
  <2> SUFFICES ASSUME NEW k \in places PROVE \E n \in 1 .. c : w[n] = q[k]
    BY <1>10
  <2>1. Cardinality(upTo(k)) \in 1 .. c
    BY <1>3
  <2> QED BY <1>9, <1>10, <2>1
<1>13. ASSUME \A j, k \in places : q[j] = q[k] => j = k
       PROVE  \A m, n \in 1 .. Len(w) : w[m] = w[n] => m = n
  <2> SUFFICES ASSUME NEW m \in 1 .. c, NEW n \in 1 .. c, w[m] = w[n] PROVE m = n
    BY <1>10
  <2>1. at(m) \in places /\ at(n) \in places /\ q[at(m)] = q[at(n)]
    BY <1>8, <1>10
  <2>2. at(m) = at(n)
    BY <1>13, <2>1
  <2> QED BY <1>8, <2>2
<1> QED BY <1>10, <1>11, <1>12, <1>13 DEF Selects

-----------------------------------------------------------------------------
(* What the steps do to a queue.                                             *)

\* A queue whose rows are shown, those of account r: some recipes lose their items.
Thinned(w, q, r) ==
    /\ w \in Queue /\ DOMAIN w = DOMAIN q
    /\ \A k \in DOMAIN q :
          /\ w[k].id = q[k].id
          /\ w[k].state # q[k].state =>
                /\ q[k].state = "filled" /\ w[k].state = "empty"
                /\ owner[q[k].id] # r \/ q[k].id \in crafted

LEMMA ThinnedSelf == ASSUME NEW q \in Queue, NEW r PROVE Thinned(q, q, r)
BY DEF Thinned

LEMMA ReconciledThins ==
    ASSUME NEW q \in Queue, NEW r, NEW recent \in BOOLEAN, NEW w, w = Reconciled(q, r, recent)
    PROVE  Thinned(w, q, r)
<1>1. /\ q \in Seq(Entry) /\ Len(q) \in Nat /\ Len(q) <= MaxRecipes /\ DOMAIN q = 1 .. Len(q)
      /\ \A k \in DOMAIN q : q[k] \in Entry
  BY QueueIs
<1> DEFINE taken(k) == q[k].state = "filled" /\ (owner[q[k].id] # r \/ (recent /\ q[k].id \in crafted))
<1>2. w = [k \in 1 .. Len(q) |-> IF taken(k) THEN [q[k] EXCEPT !.state = "empty"] ELSE q[k]]
  BY <1>1 DEF Reconciled
<1>3. \A k \in 1 .. Len(q) : w[k] = IF taken(k) THEN [q[k] EXCEPT !.state = "empty"] ELSE q[k]
  BY <1>2
<1>4. ASSUME NEW k \in 1 .. Len(q)
      PROVE  /\ w[k] \in Entry /\ w[k].id = q[k].id
             /\ w[k].state # q[k].state => taken(k) /\ w[k].state = "empty"
  <2>1. q[k] \in Entry
    BY <1>1
  <2>2. [q[k] EXCEPT !.state = "empty"] \in Entry
        /\ [q[k] EXCEPT !.state = "empty"].id = q[k].id
        /\ [q[k] EXCEPT !.state = "empty"].state = "empty"
    BY <2>1 DEF Entry
  <2> HIDE DEF taken
  <2> QED BY <1>3, <2>1, <2>2
<1>5. w \in [1 .. Len(q) -> Entry]
  <2> HIDE DEF taken
  <2> QED BY <1>2, <1>4
<1>6. w \in Queue /\ DOMAIN w = DOMAIN q
  <2>1. w \in Seq(Entry) /\ Len(w) = Len(q) /\ DOMAIN w = 1 .. Len(q)
    BY <1>1, <1>5
  <2> QED BY <1>1, <2>1, QueueSeq
<1> QED BY <1>1, <1>4, <1>6 DEF Thinned

LEMMA RenderedThins ==
    ASSUME Typed, NEW q \in Queue, NEW recent \in BOOLEAN, NEW w, w = Rendered(q, recent),
           NEW r, r = rows'
    PROVE  Thinned(w, q, r)
<1>1. w = Reconciled(q, r, recent) \/ w = q
  BY DEF Rendered
<1> QED BY <1>1, ReconciledThins, ThinnedSelf

\* The recipes that are not done, and a new one.
Grown(w, q, e) ==
    /\ w \in Queue /\ w # <<>> /\ w[Len(w)] = e /\ OneEach(w)
    /\ \A n \in 1 .. Len(w) - 1 : \E k \in DOMAIN q : w[n] = q[k] /\ q[k].state # "done"
    /\ \A k \in DOMAIN q : q[k].state # "done" => \E n \in 1 .. Len(w) - 1 : w[n] = q[k]

LEMMA FilteredOneEach ==
    ASSUME NEW q \in Queue, NEW w \in Seq(Entry), OneEach(q),
           NEW places \in SUBSET (DOMAIN q), Selects(w, q, places)
    PROVE  OneEach(w)
<1>1. \A j, k \in places : q[j] = q[k] => j = k
  BY DEF OneEach
<1>2. DOMAIN w = 1 .. Len(w)
  OBVIOUS
<1>3. ASSUME NEW m \in DOMAIN w, NEW n \in DOMAIN w, w[m].id = w[n].id PROVE m = n
  <2>1. PICK j \in places : w[m] = q[j]
    BY <1>2 DEF Selects
  <2>2. PICK k \in places : w[n] = q[k]
    BY <1>2 DEF Selects
  <2>3. j = k
    BY <1>3, <2>1, <2>2 DEF OneEach
  <2> QED BY <1>1, <1>2, <2>1, <2>2, <2>3 DEF Selects
<1> QED BY <1>3 DEF OneEach

LEMMA PrunedGrows ==
    ASSUME NEW q \in Queue, OneEach(q), NEW e \in Entry, \A k \in DOMAIN q : q[k].id # e.id,
           NEW w, w = Append(Pruned(q), e)
    PROVE  Grown(w, q, e)
<1> DEFINE places == {k \in DOMAIN q : q[k].state # "done"}
<1>1. PICK p : p = Pruned(q)
  OBVIOUS
<1>2. p \in Seq(Entry) /\ Selects(p, q, places)
  <2>1. q \in Seq(Entry) /\ places \in SUBSET (DOMAIN q)
    BY QueueIs
  <2>2. p = Filtered(q, places)
    BY <1>1 DEF Pruned
  <2> HIDE DEF places
  <2> QED BY <2>1, <2>2, FilteredSelects
<1>3. OneEach(p)
  <2>1. places \in SUBSET (DOMAIN q)
    OBVIOUS
  <2> HIDE DEF places
  <2> QED BY <1>2, <2>1, FilteredOneEach
<1>4. /\ w \in Seq(Entry) /\ Len(w) = Len(p) + 1 /\ Len(p) \in Nat /\ w[Len(w)] = e
      /\ \A n \in 1 .. Len(p) : w[n] = p[n]
  BY <1>1, <1>2
<1>5. /\ \A n \in 1 .. Len(p) : \E k \in DOMAIN q : w[n] = q[k] /\ q[k].state # "done"
      /\ \A k \in DOMAIN q : q[k].state # "done" => \E n \in 1 .. Len(p) : w[n] = q[k]
  <2>1. /\ \A n \in 1 .. Len(p) : \E k \in places : w[n] = q[k]
        /\ \A k \in places : \E n \in 1 .. Len(p) : w[n] = q[k]
    <3> HIDE DEF places
    <3>1. /\ \A n \in 1 .. Len(p) : \E k \in places : p[n] = q[k]
          /\ \A k \in places : \E n \in 1 .. Len(p) : p[n] = q[k]
      BY <1>2 DEF Selects
    <3> QED BY <1>4, <3>1
  <2> QED BY <2>1
<1>6. OneEach(w)
  <2>1. DOMAIN w = 1 .. Len(p) + 1 /\ DOMAIN p = 1 .. Len(p)
    BY <1>2, <1>4
  <2>2. \A n \in 1 .. Len(p) : w[n].id # e.id
    BY <1>5
  <2>3. \A m, n \in 1 .. Len(p) : w[m].id = w[n].id => m = n
    BY <1>3, <1>4, <2>1 DEF OneEach
  <2>4. \A m \in DOMAIN w : m \in 1 .. Len(p) \/ (m = Len(p) + 1 /\ w[m].id = e.id)
    BY <1>4, <2>1
  <2> QED BY <2>2, <2>3, <2>4 DEF OneEach
<1>7. w \in Queue
  BY <1>4, <1>6, OneEachFits
<1>8. Len(w) - 1 = Len(p) /\ w # <<>>
  BY <1>4
<1> QED BY <1>4, <1>5, <1>6, <1>7, <1>8 DEF Grown

\* A run's recipes: those with items, at their places.
LEMMA ExecutableIs ==
    ASSUME NEW q \in Queue, OneEach(q), NEW t, t = Executable(q)
    PROVE  /\ t \in Seq(Todo)
           /\ \A n \in 1 .. Len(t) : t[n].index \in DOMAIN q /\ q[t[n].index].id = t[n].id
           /\ \A m, n \in 1 .. Len(t) : t[m].id = t[n].id => m = n
<1> DEFINE at == [k \in DOMAIN q |-> [id |-> q[k].id, index |-> k]]
           places == {k \in DOMAIN q : q[k].state = "filled"}
<1>1. /\ DOMAIN q = 1 .. Len(q) /\ Len(q) \in Nat /\ Len(q) <= MaxRecipes
      /\ \A k \in DOMAIN q : q[k].id \in Recipes
  BY QueueIs
<1>2. MaxRecipes \in Nat
  BY QueueSeq
<1>3. \A k \in DOMAIN q : at[k] = [id |-> q[k].id, index |-> k] /\ at[k] \in Todo
  BY <1>1, <1>2 DEF Todo
<1>4. at \in [1 .. Len(q) -> Todo]
  BY <1>1, <1>3
<1>5. at \in Seq(Todo) /\ DOMAIN at = DOMAIN q
  BY <1>1, <1>4
<1>6. places \in SUBSET (DOMAIN at)
  BY <1>5
<1>7. t = Filtered(at, places)
  BY DEF Executable
<1>8. \A k \in DOMAIN q : at[k].id = q[k].id /\ at[k].index = k
  BY <1>3
<1>9. \A j, k \in places : at[j] = at[k] => j = k
  BY <1>8
<1>10. places \subseteq DOMAIN q
  OBVIOUS
<1> HIDE DEF at, places
<1>11. t \in Seq(Todo) /\ Selects(t, at, places)
  BY <1>5, <1>6, <1>7, FilteredSelects
<1>12. \A n \in 1 .. Len(t) : \E k \in DOMAIN q : t[n] = at[k]
  BY <1>10, <1>11 DEF Selects
<1>13. \A n \in 1 .. Len(t) : t[n].index \in DOMAIN q /\ q[t[n].index].id = t[n].id
                             /\ t[n] = at[t[n].index]
  BY <1>8, <1>12
<1>14. \A m, n \in 1 .. Len(t) : t[m] = t[n] => m = n
  BY <1>9, <1>11 DEF Selects
<1>15. ASSUME NEW m \in 1 .. Len(t), NEW n \in 1 .. Len(t), t[m].id = t[n].id PROVE m = n
  <2>1. t[m].index = t[n].index
    BY <1>13, <1>15 DEF OneEach
  <2> QED BY <1>13, <1>14, <2>1
<1> QED BY <1>11, <1>13, <1>15

\* The result of a step, at its place.
MarkedAt(w, q, k) ==
    /\ w \in Queue /\ DOMAIN w = DOMAIN q
    /\ \A j \in DOMAIN q : /\ w[j].id = q[j].id
                           /\ j # k => w[j] = q[j]
                           /\ j = k => w[j].state = "done"

LEMMA MarkedMarks ==
    ASSUME NEW q \in Queue, NEW k \in 1 .. MaxRecipes, NEW w, w = Marked(q, k)
    PROVE  MarkedAt(w, q, k)
<1>1. /\ q \in Seq(Entry) /\ Len(q) \in Nat /\ Len(q) <= MaxRecipes /\ DOMAIN q = 1 .. Len(q)
      /\ \A j \in DOMAIN q : q[j] \in Entry
  BY QueueIs
<1>2. CASE k \in DOMAIN q
  <2> DEFINE e == [q[k] EXCEPT !.state = "done"]
  <2>1. e \in Entry /\ e.id = q[k].id /\ e.state = "done"
    BY <1>1, <1>2 DEF Entry
  <2>2. w = [q EXCEPT ![k] = e]
    BY <1>2 DEF Marked
  <2> HIDE DEF e
  <2>3. w \in [1 .. Len(q) -> Entry] /\ w[k] = e /\ \A j \in DOMAIN q \ {k} : w[j] = q[j]
    BY <1>1, <1>2, <2>1, <2>2
  <2>4. w \in Seq(Entry) /\ Len(w) = Len(q) /\ DOMAIN w = DOMAIN q
    BY <1>1, <2>3
  <2>5. w \in Queue
    BY <1>1, <2>4, QueueSeq
  <2> QED BY <2>1, <2>3, <2>4, <2>5 DEF MarkedAt
<1>3. CASE k \notin DOMAIN q
  BY <1>3 DEF Marked, MarkedAt
<1> QED BY <1>2, <1>3

\* What a selection run leaves: the last slot filled, or taken away.
Resulted(v, h, ok) ==
    /\ v \in Queue
    /\ ok => /\ DOMAIN v = DOMAIN h
             /\ \A k \in DOMAIN h : /\ v[k].id = h[k].id
                                    /\ k # Len(h) => v[k] = h[k]
                                    /\ k = Len(h) => v[k].state = "filled"
    /\ ~ok => /\ DOMAIN v = DOMAIN h \ {Len(h)}
              /\ \A k \in DOMAIN v : v[k] = h[k]

LEMMA ResultIs ==
    ASSUME NEW h \in Queue, h # <<>>, NEW ok \in BOOLEAN, NEW v, v = Result(h, ok)
    PROVE  Resulted(v, h, ok) /\ Len(h) \in DOMAIN h
<1> DEFINE l == Len(h)
<1>1. /\ h \in Seq(Entry) /\ l \in Nat /\ l <= MaxRecipes /\ DOMAIN h = 1 .. l
      /\ \A j \in DOMAIN h : h[j] \in Entry
  BY QueueIs
<1>2. l \in DOMAIN h /\ l > 0
  <2>1. l # 0
    BY <1>1
  <2> HIDE DEF l
  <2> QED BY <1>1, <2>1
<1>3. CASE ok
  <2> DEFINE e == [h[l] EXCEPT !.state = "filled"]
  <2>1. e \in Entry /\ e.id = h[l].id /\ e.state = "filled"
    BY <1>1, <1>2 DEF Entry
  <2>2. v = [h EXCEPT ![l] = e]
    BY <1>3 DEF Result
  <2> HIDE DEF e
  <2>3. v \in [1 .. l -> Entry] /\ v[l] = e /\ \A j \in DOMAIN h \ {l} : v[j] = h[j]
    BY <1>1, <1>2, <2>1, <2>2
  <2>4. v \in Seq(Entry) /\ Len(v) = l /\ DOMAIN v = DOMAIN h
    BY <1>1, <2>3
  <2>5. v \in Queue
    BY <1>1, <2>4, QueueSeq
  <2> QED BY <1>2, <1>3, <2>1, <2>3, <2>4, <2>5 DEF Resulted
<1>4. CASE ~ok
  <2>1. v = SubSeq(h, 1, l - 1)
    BY <1>4 DEF Result
  <2>2. v \in Seq(Entry) /\ Len(v) = l - 1 /\ \A k \in 1 .. l - 1 : v[k] = h[k]
    BY <1>1, <1>2, <2>1
  <2>3. v \in Queue /\ DOMAIN v = 1 .. l - 1
    <3> HIDE DEF l
    <3>1. l - 1 <= MaxRecipes /\ MaxRecipes \in Nat
      BY <1>1, QueueSeq
    <3> QED BY <2>2, <3>1, QueueSeq
  <2>4. DOMAIN v = DOMAIN h \ {l}
    <3> HIDE DEF l
    <3>1. 1 .. l - 1 = (1 .. l) \ {l}
      BY <1>1, <1>2
    <3> QED BY <1>1, <2>3, <3>1
  <2> QED BY <1>2, <1>4, <2>2, <2>3, <2>4 DEF Resulted
<1> QED BY <1>2, <1>3, <1>4

-----------------------------------------------------------------------------
(* What stays true of a queue.                                               *)

\* Recipes that were made keep their account.
OwnerGrows == \A i \in Recipes : owner[i] # NoAccount => owner'[i] = owner[i]

LEMMA ListedStays ==
    ASSUME NEW q \in Queue, Listed(q), OwnerGrows
    PROVE  Listed(q)'
<1>1. \A k \in DOMAIN q : q[k].id \in Recipes
  BY QueueIs
<1> QED BY <1>1 DEF Listed, OneEach, OwnerGrows

LEMMA ThinnedListed ==
    ASSUME NEW q \in Queue, NEW r, NEW w, Thinned(w, q, r), Listed(q)
    PROVE  Listed(w)
BY DEF Thinned, Listed, OneEach

LEMMA ThinnedSound ==
    ASSUME NEW q \in Queue, NEW r, NEW w, Thinned(w, q, r), NEW a, Sound(q, a),
           UNCHANGED <<owner, wanted, crafted, told>>,
           strayed => strayed', ~strayed' => r = a
    PROVE  Sound(w, a)'
<1>1. DOMAIN w = DOMAIN q /\ \A k \in DOMAIN q : w[k].id = q[k].id
  BY DEF Thinned
<1>2. \A k \in DOMAIN q : w[k].state = "filled" => q[k].state = "filled"
  BY DEF Thinned
<1>3. \A k \in DOMAIN q : w[k].state = "done" => q[k].state = "done"
  BY DEF Thinned
<1>4. Own(w, a)'
  BY <1>1, <1>2 DEF Sound, Own
<1>5. ASSUME ~strayed' PROVE Complete(w, a)' /\ Informed(w)'
  <2>1. Complete(q, a) /\ Informed(q) /\ r = a
    BY <1>5 DEF Sound
  <2>2. \A k \in DOMAIN q :
            q[k].state = "filled" /\ owner[q[k].id] = a /\ q[k].id \notin crafted
            => w[k].state = "filled"
    BY <2>1 DEF Thinned
  <2>3. Complete(w, a)'
    BY <1>1, <2>1, <2>2 DEF Complete
  <2>4. Informed(w)'
    BY <1>1, <1>2, <1>3, <2>1 DEF Informed
  <2> QED BY <2>3, <2>4
<1> QED BY <1>4, <1>5 DEF Sound

\* What became of the recipes of account b, and what is known of them, is as before.
Unaffected(b) ==
    \A i \in Recipes :
        /\ owner[i] = b => /\ owner'[i] = b
                           /\ i \in wanted' <=> i \in wanted
                           /\ ~strayed' => (i \in told' <=> i \in told)
        /\ owner'[i] = b /\ i \in wanted' => owner[i] = b

LEMMA SoundStays ==
    ASSUME NEW q \in Queue, NEW b, Sound(q, b), Unaffected(b),
           crafted \subseteq crafted', strayed => strayed', wanted' \subseteq Recipes
    PROVE  Sound(q, b)'
<1>1. \A k \in DOMAIN q : q[k].id \in Recipes /\ owner[q[k].id] = b
  BY QueueIs DEF Sound, Own
<1>2. Own(q, b)'
  BY <1>1 DEF Sound, Own, Unaffected
<1>3. ASSUME ~strayed' PROVE Complete(q, b)' /\ Informed(q)'
  <2>1. Complete(q, b) /\ Informed(q)
    BY <1>3 DEF Sound
  <2>2. Informed(q)'
    BY <1>1, <1>3, <2>1 DEF Informed, Unaffected
  <2>3. ASSUME NEW i \in wanted' \ crafted', owner'[i] = b
        PROVE  \E k \in DOMAIN q : q[k].id = i /\ q[k].state = "filled"
    <3>1. i \in Recipes /\ owner[i] = b /\ i \in wanted /\ i \notin crafted
      BY <2>3 DEF Unaffected
    <3> QED BY <2>1, <3>1 DEF Complete
  <2> QED BY <2>2, <2>3 DEF Complete
<1> QED BY <1>2, <1>3 DEF Sound

LEMMA CopyInUse ==
    ASSUME NEW a \in Accounts, NEW q, Copy(a, q)
    PROVE  InUse(q)
BY DEF Copy, SavedCopy, LiveCopy, HeldCopy, InUse

\* The queues of the new state are those of the old one, some of them thinned.
LEMMA AllThinned ==
    ASSUME IInv, ~overlapped, UNCHANGED <<owner, wanted, crafted, told>>, strayed => strayed',
           \A q \in Queue : InUse(q)' => \E p \in Queue : \E r : InUse(p) /\ Thinned(q, p, r),
           ~overlapped' =>
              \A a \in Accounts, q \in Queue :
                  Copy(a, q)' =>
                      \E p \in Queue : \E r : Copy(a, p) /\ Thinned(q, p, r) /\ (~strayed' => r = a)
    PROVE  QueuesListed' /\ CopiesSound'
<1>1. ASSUME NEW q \in Queue, InUse(q)' PROVE Listed(q)'
  <2>1. PICK p \in Queue : \E r : InUse(p) /\ Thinned(q, p, r)
    BY <1>1
  <2>2. PICK r : InUse(p) /\ Thinned(q, p, r)
    BY <2>1
  <2>3. Listed(q)
    BY <2>2, ThinnedListed DEF IInv, QueuesListed
  <2>4. OwnerGrows
    BY DEF OwnerGrows
  <2> QED BY <2>3, <2>4, ListedStays
<1>2. ASSUME ~overlapped', NEW a \in Accounts, NEW q \in Queue, Copy(a, q)' PROVE Sound(q, a)'
  <2>1. PICK p \in Queue : \E r : Copy(a, p) /\ Thinned(q, p, r) /\ (~strayed' => r = a)
    BY <1>2
  <2>2. PICK r : Copy(a, p) /\ Thinned(q, p, r) /\ (~strayed' => r = a)
    BY <2>1
  <2>3. Sound(p, a)
    BY <2>2 DEF IInv, CopiesSound
  <2> QED BY <2>2, <2>3, ThinnedSound
<1>3. QueuesListed'
  BY <1>1 DEF QueuesListed
<1>4. CopiesSound'
  BY <1>2 DEF CopiesSound
<1> QED BY <1>3, <1>4

\* The queue on the screen is thinned, those of the accounts stay.
LEMMA LiveThinned ==
    ASSUME IInv, ~overlapped, UNCHANGED <<owner, wanted, crafted, told>>, strayed => strayed',
           UNCHANGED <<saved, held, switching>>, ~overlapped' => UNCHANGED current,
           NEW r, NEW l, l = live', Thinned(l, live, r),
           ~overlapped' /\ ~strayed' => r = current
    PROVE  QueuesListed' /\ CopiesSound'
<1>1. live \in Queue
  BY DEF IInv, Typed
<1>2. ASSUME NEW q \in Queue, InUse(q)'
      PROVE  \E p \in Queue : \E s : InUse(p) /\ Thinned(q, p, s)
  <2>1. CASE q = live'
    BY <1>1, <2>1 DEF InUse
  <2>2. CASE InUse(q)
    BY <2>2, ThinnedSelf
  <2> QED BY <1>2, <2>1, <2>2 DEF InUse
<1>3. ASSUME ~overlapped', NEW a \in Accounts, NEW q \in Queue, Copy(a, q)'
      PROVE  \E p \in Queue : \E s : Copy(a, p) /\ Thinned(q, p, s) /\ (~strayed' => s = a)
  <2>1. CASE LiveCopy(a, q)'
    <3>1. LiveCopy(a, live) /\ q = l /\ a = current
      BY <1>3, <2>1 DEF LiveCopy
    <3> QED BY <1>1, <1>3, <3>1 DEF Copy
  <2>2. CASE SavedCopy(a, q)' \/ HeldCopy(a, q)'
    <3>1. Copy(a, q)
      BY <1>3, <2>2 DEF Copy, SavedCopy, HeldCopy, Selecting
    <3> QED BY <3>1, ThinnedSelf
  <2> QED BY <1>3, <2>1, <2>2 DEF Copy
<1> QED BY <1>2, <1>3, AllThinned

\* Then a run stays where it is, also if it ends.
LEMMA ViewStays ==
    ASSUME IInv, ~overlapped, UNCHANGED <<wanted, crafted, held, switching>>, strayed => strayed',
           ~overlapped' => UNCHANGED current, ~overlapped' /\ ~strayed' => rows' = current,
           NEW r, NEW l, l = live', Thinned(l, live, r),
           run' \in {run, NoRun}
    PROVE  ViewKept'
<1> SUFFICES ASSUME ~overlapped', ~strayed' PROVE (rows = current)' /\ RunOnScreen' /\ SlotOpen'
  BY DEF ViewKept
<1>1. RunOnScreen /\ SlotOpen
  BY DEF IInv, ViewKept
<1>2. SlotOpen'
  BY <1>1 DEF SlotOpen, Selecting
<1>3. (rows = current)'
  OBVIOUS
<1>4. ASSUME run' # NoRun PROVE run' = run /\ RunOnScreen'
  <2>1. run' = run /\ Busy
    BY <1>4 DEF Busy
  <2>2. DOMAIN live' = DOMAIN live /\ \A k \in DOMAIN live : live'[k].id = live[k].id
    BY DEF Thinned
  <2> QED BY <1>1, <2>1, <2>2 DEF RunOnScreen, Selecting
<1>5. NoRun' = NoRun
  BY DEF NoRun
<1>6. RunOnScreen'
  BY <1>4, <1>5 DEF RunOnScreen, Busy
<1> QED BY <1>2, <1>3, <1>6

\* The history and the run stay.
LEMMA HistoryStays ==
    ASSUME IInv, UNCHANGED <<owner, wanted, crafted, told>>, run' \in {run, NoRun}
    PROVE  RecipesMade' /\ RunTrue'
<1>1. RecipesMade'
  BY DEF IInv, RecipesMade
<1>2. NoRun' = NoRun
  BY DEF NoRun
<1>3. ASSUME run' = run PROVE RunTrue'
  BY <1>3, <1>2 DEF IInv, RunTrue, Busy
<1>4. ASSUME run' = NoRun PROVE RunTrue'
  BY <1>2, <1>4 DEF RunTrue, Busy
<1> QED BY <1>1, <1>3, <1>4

-----------------------------------------------------------------------------
(* The view.                                                                 *)

LEMMA ThinnedType ==
    ASSUME NEW q, NEW r, NEW w, Thinned(w, q, r)
    PROVE  w \in Queue
BY DEF Thinned

LEMMA SwitchStartKeeps ==
    ASSUME IInv, ~overlapped, NEW a \in Accounts, SwitchStart(a)
    PROVE  IInv'
<1> DEFINE t == Target(a)
<1>1. /\ t \in Queue /\ (a = current => t = live) /\ (a # current => t = saved[a])
      /\ live \in Queue /\ saved \in [Accounts -> Queue] /\ current \in Accounts
      /\ a # NoAccount
  BY CraftPageAssumption DEF IInv, Typed, Target
<1>2. /\ saved' = [saved EXCEPT ![current] = live, ![a] = t]
      /\ live' = t /\ switching' = a /\ overlapped' = (switching # NoAccount)
      /\ strayed' = (strayed \/ Busy)
      /\ UNCHANGED <<current, rows, connected, reloading, refreshing, run, crafted, told, owner,
                     wanted, held>>
      /\ changes < MaxChanges /\ changes' = changes + 1
  BY DEF SwitchStart, Change, craftVars, recipeVars
<1> HIDE DEF t
<1>3. /\ saved' \in [Accounts -> Queue] /\ saved'[a] = t
      /\ a # current => saved'[current] = live
      /\ \A b \in Accounts \ {a, current} : saved'[b] = saved[b]
  BY <1>1, <1>2
<1>4. Typed'
  <2>1. changes' \in 0 .. MaxChanges
    BY <1>2, CraftPageAssumption DEF IInv, Typed
  <2>2. Busy \in BOOLEAN
    BY DEF Busy
  <2> QED BY <1>1, <1>2, <1>3, <2>1, <2>2 DEF IInv, Typed
<1>5. UNCHANGED <<owner, wanted, crafted, told>> /\ (strayed => strayed')
  BY <1>2
<1>6. ASSUME NEW q \in Queue, InUse(q)'
      PROVE  \E p \in Queue : \E s : InUse(p) /\ Thinned(q, p, s)
  <2>1. InUse(t) /\ InUse(live)
    BY <1>1 DEF InUse
  <2>2. q = t \/ q = live \/ InUse(q)
    BY <1>1, <1>2, <1>3, <1>6 DEF InUse
  <2> QED BY <2>1, <2>2, ThinnedSelf
<1>7. ASSUME ~overlapped', NEW b \in Accounts, NEW q \in Queue, Copy(b, q)'
      PROVE  \E p \in Queue : \E s : Copy(b, p) /\ Thinned(q, p, s) /\ (~strayed' => s = b)
  <2>1. switching = NoAccount
    BY <1>2, <1>7
  <2>2. Copy(current, live) /\ \A c \in Accounts \ {current} : Copy(c, saved[c])
    BY <2>1 DEF Copy, LiveCopy, SavedCopy
  <2>3. Copy(b, q)
    <3>1. CASE SavedCopy(b, q)'
      <4>1. q = saved'[b]
        BY <3>1 DEF SavedCopy
      <4>2. (b = current /\ q = live) \/ (b # current /\ q = saved[b])
        BY <1>1, <1>3, <4>1
      <4> QED BY <2>2, <4>2
    <3>2. CASE LiveCopy(b, q)'
      <4>1. q = t /\ b = current /\ a = current
        BY <1>1, <1>2, <3>2 DEF LiveCopy
      <4> QED BY <1>1, <2>2, <4>1
    <3>3. CASE HeldCopy(b, q)'
      BY <1>2, <3>3 DEF HeldCopy, Selecting, Copy
    <3> QED BY <1>7, <3>1, <3>2, <3>3 DEF Copy
  <2> QED BY <2>3, ThinnedSelf
<1>8. QueuesListed' /\ CopiesSound'
  BY <1>5, <1>6, <1>7, AllThinned
<1>9. RecipesMade' /\ RunTrue'
  BY <1>2, HistoryStays
<1>10. ViewKept'
  <2> SUFFICES ASSUME ~overlapped', ~strayed' PROVE (rows = current)' /\ RunOnScreen' /\ SlotOpen'
    BY DEF ViewKept
  <2>1. rows = current /\ SlotOpen /\ ~Busy
    BY <1>2 DEF IInv, ViewKept
  <2>2. ~Busy'
    BY <1>2, <2>1 DEF Busy, NoRun
  <2>3. SlotOpen'
    BY <1>2, <2>1 DEF SlotOpen, Selecting
  <2> QED BY <1>2, <2>1, <2>2, <2>3 DEF RunOnScreen
<1> QED BY <1>4, <1>8, <1>9, <1>10 DEF IInv

LEMMA SwitchEndKeeps ==
    ASSUME IInv, ~overlapped, SwitchEnd
    PROVE  IInv'
<1> DEFINE b == switching
<1>1. /\ b # NoAccount /\ b \in Accounts
      /\ current' = b /\ rows' = b /\ connected' \in {b, IF connected = b THEN NoAccount ELSE connected}
      /\ switching' = NoAccount
      /\ UNCHANGED <<saved, reloading, refreshing, run, crafted, told, owner, wanted, held, strayed,
                     overlapped, changes>>
  BY DEF SwitchEnd, ShowSnapshot, craftVars, recipeVars, IInv, Typed
<1>2. PICK recent \in BOOLEAN : live' = Rendered(saved[b], recent)
  BY DEF SwitchEnd
<1>3. PICK l : l = live'
  OBVIOUS
<1>4. PICK r : r = rows'
  OBVIOUS
<1>5. saved[b] \in Queue
  BY <1>1 DEF IInv, Typed
<1>6. Thinned(l, saved[b], r) /\ r = b
  BY <1>1, <1>2, <1>3, <1>4, <1>5, RenderedThins DEF IInv
<1>7. live' \in Queue
  BY <1>3, <1>6, ThinnedType
<1>8. Typed'
  BY <1>1, <1>7 DEF IInv, Typed
<1>9. ASSUME NEW q \in Queue, InUse(q)'
      PROVE  \E p \in Queue : \E s : InUse(p) /\ Thinned(q, p, s)
  <2>1. CASE q = l
    BY <1>1, <1>5, <1>6, <2>1 DEF InUse
  <2>2. CASE InUse(q)
    BY <2>2, ThinnedSelf
  <2> QED BY <1>1, <1>3, <1>9, <2>1, <2>2 DEF InUse
<1>10. ASSUME ~overlapped', NEW a \in Accounts, NEW q \in Queue, Copy(a, q)'
       PROVE  \E p \in Queue : \E s : Copy(a, p) /\ Thinned(q, p, s) /\ (~strayed' => s = a)
  <2>1. CASE LiveCopy(a, q)'
    <3>1. a = b /\ q = l
      BY <1>1, <1>3, <2>1 DEF LiveCopy
    <3>2. Copy(b, saved[b])
      BY <1>1 DEF Copy, SavedCopy
    <3> QED BY <1>5, <1>6, <3>1, <3>2
  <2>2. CASE SavedCopy(a, q)' \/ HeldCopy(a, q)'
    <3>1. Copy(a, q)
      BY <1>1, <2>2 DEF Copy, SavedCopy, HeldCopy, Selecting
    <3> QED BY <3>1, ThinnedSelf
  <2> QED BY <1>10, <2>1, <2>2 DEF Copy
<1>11. QueuesListed' /\ CopiesSound'
  <2>1. UNCHANGED <<owner, wanted, crafted, told>> /\ (strayed => strayed')
    BY <1>1
  <2> QED BY <1>9, <1>10, <2>1, AllThinned
<1>12. RecipesMade' /\ RunTrue'
  BY <1>1, HistoryStays
<1>13. ViewKept'
  <2> SUFFICES ASSUME ~strayed PROVE (rows = current)' /\ RunOnScreen' /\ SlotOpen'
    BY <1>1 DEF ViewKept
  <2>1. SlotOpen /\ ~Busy
    BY <1>1 DEF IInv, ViewKept, RunOnScreen
  <2>2. ~Busy'
    BY <1>1, <2>1 DEF Busy, NoRun
  <2>3. SlotOpen'
    BY <1>1, <2>1 DEF SlotOpen, Selecting
  <2> QED BY <1>1, <2>2, <2>3 DEF RunOnScreen
<1> QED BY <1>8, <1>11, <1>12, <1>13 DEF IInv

LEMMA SwitchFailKeeps ==
    ASSUME IInv, ~overlapped, SwitchFail
    PROVE  IInv'
<1>1. /\ switching # NoAccount /\ switching' = NoAccount /\ overlapped' = (switching # current)
      /\ UNCHANGED <<live, saved, current, rows, connected, reloading, refreshing, run, crafted,
                     told, owner, wanted, held, strayed, changes>>
  BY DEF SwitchFail, queueVars, craftVars, recipeVars
<1>2. Typed'
  BY <1>1 DEF IInv, Typed
<1>3. ASSUME NEW q \in Queue, InUse(q)'
      PROVE  \E p \in Queue : \E s : InUse(p) /\ Thinned(q, p, s)
  <2>1. InUse(q)
    BY <1>1, <1>3 DEF InUse
  <2> QED BY <2>1, ThinnedSelf
<1>4. ASSUME ~overlapped', NEW a \in Accounts, NEW q \in Queue, Copy(a, q)'
      PROVE  \E p \in Queue : \E s : Copy(a, p) /\ Thinned(q, p, s) /\ (~strayed' => s = a)
  <2>1. Copy(a, q)
    BY <1>1, <1>4 DEF Copy, SavedCopy, LiveCopy, HeldCopy, Selecting
  <2> QED BY <2>1, ThinnedSelf
<1>5. QueuesListed' /\ CopiesSound'
  <2>1. UNCHANGED <<owner, wanted, crafted, told>> /\ (strayed => strayed')
    BY <1>1
  <2> QED BY <1>3, <1>4, <2>1, AllThinned
<1>6. RecipesMade' /\ RunTrue'
  BY <1>1, HistoryStays
<1>7. ViewKept'
  <2> SUFFICES ASSUME ~strayed PROVE (rows = current)' /\ RunOnScreen' /\ SlotOpen'
    BY <1>1 DEF ViewKept
  <2>1. rows = current /\ SlotOpen /\ ~Busy
    BY <1>1 DEF IInv, ViewKept, RunOnScreen
  <2>2. ~Busy'
    BY <1>1, <2>1 DEF Busy, NoRun
  <2>3. SlotOpen'
    BY <1>1, <2>1 DEF SlotOpen, Selecting
  <2> QED BY <1>1, <2>1, <2>2, <2>3 DEF RunOnScreen
<1> QED BY <1>2, <1>5, <1>6, <1>7 DEF IInv

\* Events, refreshes and failures of the account on the screen: at most its queue is
\* thinned.
LEMMA ScreenStepKeeps ==
    ASSUME IInv, ~overlapped, Typed', UNCHANGED <<owner, wanted, crafted, told>>,
           UNCHANGED <<saved, held, switching>>, strayed => strayed',
           ~overlapped' => UNCHANGED current,
           ~overlapped' /\ ~strayed' => rows' = current,
           NEW r, NEW l, l = live', Thinned(l, live, r),
           ~overlapped' /\ ~strayed' => r = current,
           run' \in {run, NoRun}
    PROVE  IInv'
<1>1. QueuesListed' /\ CopiesSound'
  BY LiveThinned
<1>2. RecipesMade' /\ RunTrue'
  BY HistoryStays
<1>3. ViewKept'
  BY ViewStays
<1> QED BY <1>1, <1>2, <1>3 DEF IInv

\* As long as nothing strays the rows are of the account on the screen.
LEMMA RowsShown == ASSUME IInv, ~overlapped, ~strayed PROVE rows = current
BY DEF IInv, ViewKept

LEMMA LiveSelf ==
    ASSUME IInv, UNCHANGED live, NEW l, l = live', NEW r
    PROVE  Thinned(l, live, r)
BY ThinnedSelf DEF IInv, Typed

LEMMA ReloadStartKeeps ==
    ASSUME IInv, ~overlapped, ReloadStart
    PROVE  IInv'
<1>1. /\ changes < MaxChanges /\ changes' = changes + 1
      /\ reloading' = reloading \cup {current} /\ connected' \in {connected, current}
      /\ UNCHANGED <<live, saved, current, rows, switching, refreshing, run, crafted, told, owner,
                     wanted, held, strayed, overlapped>>
  BY DEF ReloadStart, Change, queueVars, craftVars, recipeVars
<1>2. Typed'
  <2>1. changes' \in 0 .. MaxChanges
    BY <1>1, CraftPageAssumption DEF IInv, Typed
  <2> QED BY <1>1, <2>1 DEF IInv, Typed
<1>3. PICK l : l = live'
  OBVIOUS
<1>4. PICK r : r = current
  OBVIOUS
<1>5. Thinned(l, live, r)
  BY <1>1, <1>3, LiveSelf
<1>6. ~overlapped' /\ ~strayed' => rows' = current
  BY <1>1, RowsShown
<1> QED BY <1>1, <1>2, <1>3, <1>4, <1>5, <1>6, ScreenStepKeeps

LEMMA DisconnectKeeps ==
    ASSUME IInv, ~overlapped, Disconnect
    PROVE  IInv'
<1>1. /\ connected' = NoAccount
      /\ UNCHANGED <<live, saved, current, rows, switching, reloading, refreshing, run, crafted,
                     told, owner, wanted, held, strayed, overlapped, changes>>
  BY DEF Disconnect, queueVars, craftVars, recipeVars
<1>2. Typed'
  BY <1>1 DEF IInv, Typed
<1>3. PICK l : l = live'
  OBVIOUS
<1>4. PICK r : r = current
  OBVIOUS
<1>5. Thinned(l, live, r)
  BY <1>1, <1>3, LiveSelf
<1>6. ~overlapped' /\ ~strayed' => rows' = current
  BY <1>1, RowsShown
<1> QED BY <1>1, <1>2, <1>3, <1>4, <1>5, <1>6, ScreenStepKeeps

LEMMA ReloadEndKeeps ==
    ASSUME IInv, ~overlapped, NEW a \in Accounts, ReloadEnd(a)
    PROVE  IInv'
<1>1. /\ reloading' = reloading \ {a}
      /\ UNCHANGED <<saved, switching, refreshing, run, crafted, told, owner, wanted, held, strayed,
                     changes>>
  BY DEF ReloadEnd, craftVars, recipeVars
<1>2. PICK l : l = live'
  OBVIOUS
<1>3. CASE UNCHANGED <<current, rows, connected, live, overlapped>>
  <2>1. Typed'
    BY <1>1, <1>3 DEF IInv, Typed
  <2>2. PICK r : r = current
    OBVIOUS
  <2>3. Thinned(l, live, r)
    BY <1>2, <1>3, LiveSelf
  <2>4. ~overlapped' /\ ~strayed' => rows' = current
    BY <1>1, <1>3, RowsShown
  <2> QED BY <1>1, <1>2, <1>3, <2>1, <2>2, <2>3, <2>4, ScreenStepKeeps
<1>4. CASE /\ ShowSnapshot(a)
           /\ \E recent \in BOOLEAN : live' = Rendered(live, recent)
           /\ overlapped' = (a # current)
  <2>1. PICK recent \in BOOLEAN : live' = Rendered(live, recent)
    BY <1>4
  <2>2. /\ current' = a /\ rows' = a /\ overlapped' = (a # current)
        /\ connected' \in {a, IF connected = a THEN NoAccount ELSE connected}
    BY <1>4 DEF ShowSnapshot
  <2>3. PICK r : r = rows'
    OBVIOUS
  <2>4. Thinned(l, live, r)
    BY <1>2, <2>1, <2>3, RenderedThins DEF IInv, Typed
  <2>5. live' \in Queue
    BY <1>2, <2>4, ThinnedType
  <2>6. Typed'
    BY <1>1, <2>2, <2>5 DEF IInv, Typed
  <2>7. ~overlapped' => current' = current /\ r = current /\ rows' = current
    BY <2>2, <2>3
  <2> QED BY <1>1, <1>2, <2>4, <2>6, <2>7, ScreenStepKeeps
<1> QED BY <1>3, <1>4 DEF ReloadEnd

LEMMA RefreshStartKeeps ==
    ASSUME IInv, ~overlapped, NEW a \in Accounts, RefreshStart(a)
    PROVE  IInv'
<1>1. /\ changes < MaxChanges /\ changes' = changes + 1
      /\ refreshing' = a /\ current' = a /\ overlapped' = (a # current)
      /\ UNCHANGED <<live, saved, rows, connected, switching, reloading, run, crafted, told, owner,
                     wanted, held, strayed>>
  BY DEF RefreshStart, Change, queueVars, craftVars, recipeVars
<1>2. Typed'
  <2>1. changes' \in 0 .. MaxChanges
    BY <1>1, CraftPageAssumption DEF IInv, Typed
  <2> QED BY <1>1, <2>1 DEF IInv, Typed
<1>3. PICK l : l = live'
  OBVIOUS
<1>4. PICK r : r = current
  OBVIOUS
<1>5. Thinned(l, live, r)
  BY <1>1, <1>3, LiveSelf
<1>6. ~overlapped' /\ ~strayed' => rows' = current
  BY <1>1, RowsShown
<1> QED BY <1>1, <1>2, <1>3, <1>4, <1>5, <1>6, ScreenStepKeeps

LEMMA RefreshEndKeeps ==
    ASSUME IInv, ~overlapped, RefreshEnd
    PROVE  IInv'
<1>1. /\ refreshing # NoAccount /\ refreshing \in Accounts /\ refreshing' = NoAccount
      /\ UNCHANGED <<current, saved, switching, reloading, run, crafted, told, owner, wanted, held,
                     overlapped, changes>>
  BY DEF RefreshEnd, craftVars, recipeVars, IInv, Typed
<1>2. PICK l : l = live'
  OBVIOUS
<1>3. CASE /\ connected' = IF connected = refreshing THEN NoAccount ELSE connected
           /\ UNCHANGED <<rows, live, strayed>>
  <2>1. Typed'
    BY <1>1, <1>3 DEF IInv, Typed
  <2>2. PICK r : r = current
    OBVIOUS
  <2>3. Thinned(l, live, r)
    BY <1>2, <1>3, LiveSelf
  <2>4. ~overlapped' /\ ~strayed' => rows' = current
    BY <1>1, <1>3, RowsShown
  <2> QED BY <1>1, <1>2, <1>3, <2>1, <2>2, <2>3, <2>4, ScreenStepKeeps
<1>4. CASE /\ rows' = refreshing /\ connected' = refreshing
           /\ \E recent \in BOOLEAN : live' = Rendered(live, recent)
           /\ strayed' = (strayed \/ refreshing # current)
  <2>1. PICK recent \in BOOLEAN : live' = Rendered(live, recent)
    BY <1>4
  <2>2. PICK r : r = rows'
    OBVIOUS
  <2>3. Thinned(l, live, r)
    BY <1>2, <2>1, <2>2, RenderedThins DEF IInv, Typed
  <2>4. live' \in Queue
    BY <1>2, <2>3, ThinnedType
  <2>5. Typed'
    BY <1>1, <1>4, <2>4 DEF IInv, Typed
  <2>6. (strayed => strayed') /\ (~strayed' => r = current /\ rows' = current)
    BY <1>4, <2>2
  <2> QED BY <1>1, <1>2, <2>3, <2>5, <2>6, ScreenStepKeeps
<1> QED BY <1>3, <1>4 DEF RefreshEnd

LEMMA RunFailKeeps ==
    ASSUME IInv, ~overlapped, RunFail
    PROVE  IInv'
<1>1. /\ Busy /\ run' = NoRun
      /\ UNCHANGED <<current, connected, saved, switching, reloading, refreshing, crafted, told,
                     owner, wanted, held, strayed, overlapped, changes>>
  BY DEF RunFail, recipeVars
<1>2. PICK l : l = live'
  OBVIOUS
<1>3. NoRun \in Run /\ run.account \in Accounts
  <2>1. <<>> \in Seq(Todo)
    OBVIOUS
  <2>2. NoRun \in Run
    BY <2>1 DEF NoRun, Run
  <2> QED BY <1>1, <2>2 DEF IInv, RunTrue
<1>4. CASE UNCHANGED <<rows, live>>
  <2>1. Typed'
    BY <1>1, <1>3, <1>4 DEF IInv, Typed
  <2>2. PICK r : r = current
    OBVIOUS
  <2>3. Thinned(l, live, r)
    BY <1>2, <1>4, LiveSelf
  <2>4. ~overlapped' /\ ~strayed' => rows' = current
    BY <1>1, <1>4, RowsShown
  <2> QED BY <1>1, <1>2, <2>1, <2>2, <2>3, <2>4, ScreenStepKeeps
<1>5. CASE rows' = run.account /\ \E recent \in BOOLEAN : live' = Rendered(live, recent)
  <2>1. PICK recent \in BOOLEAN : live' = Rendered(live, recent)
    BY <1>5
  <2>2. PICK r : r = rows'
    OBVIOUS
  <2>3. Thinned(l, live, r)
    BY <1>2, <2>1, <2>2, RenderedThins DEF IInv, Typed
  <2>4. live' \in Queue
    BY <1>2, <2>3, ThinnedType
  <2>5. Typed'
    BY <1>1, <1>3, <1>5, <2>4 DEF IInv, Typed
  <2>6. ~strayed' => r = current /\ rows' = current
    BY <1>1, <1>5, <2>2 DEF IInv, ViewKept, RunOnScreen
  <2> QED BY <1>1, <1>2, <2>3, <2>5, <2>6, ScreenStepKeeps
<1> QED BY <1>4, <1>5 DEF RunFail

-----------------------------------------------------------------------------
(* Running the queue.                                                        *)

\* What is known of the queue on the screen.
LEMMA LiveKnown ==
    ASSUME IInv
    PROVE  /\ live \in Queue /\ Listed(live) /\ OneEach(live)
           /\ ~overlapped /\ switching = NoAccount => Sound(live, current)
<1>1. live \in Queue /\ InUse(live) /\ current \in Accounts
  BY DEF IInv, Typed, InUse
<1>2. switching = NoAccount => Copy(current, live)
  BY DEF Copy, LiveCopy
<1> QED BY <1>1, <1>2 DEF IInv, QueuesListed, Listed, CopiesSound

LEMMA StartRunKeeps ==
    ASSUME IInv, ~overlapped, StartRun
    PROVE  IInv'
<1>1. /\ ~Busy /\ ~Selecting(current)
      /\ strayed' = (strayed \/ switching # NoAccount)
      /\ UNCHANGED <<saved, current, rows, connected, switching, reloading, refreshing, crafted,
                     told, owner, wanted, held, overlapped, changes>>
  BY DEF StartRun, Locked, viewVars, recipeVars
<1>2. PICK l : l = live'
  OBVIOUS
<1>3. PICK r : r = rows
  OBVIOUS
<1>4. PICK recent \in BOOLEAN : live' = Reconciled(live, rows, recent)
  BY DEF StartRun
<1>5. Thinned(l, live, r)
  BY <1>2, <1>3, <1>4, ReconciledThins, LiveKnown
<1>6. l \in Queue /\ Listed(l) /\ OneEach(l)
  <2>1. l \in Queue /\ Listed(l)
    BY <1>5, ThinnedType, ThinnedListed, LiveKnown
  <2> QED BY <2>1 DEF Listed
<1>7. PICK t : t = Executable(l)
  OBVIOUS
<1>8. /\ t # <<>> /\ run' = [account |-> current, todo |-> t, executed |-> FALSE]
  <2>1. Executable(live') = Executable(l)
    BY <1>2
  <2> QED BY <1>7, <2>1 DEF StartRun
<1>9. /\ t \in Seq(Todo)
      /\ \A n \in 1 .. Len(t) : t[n].index \in DOMAIN l /\ l[t[n].index].id = t[n].id
      /\ \A m, n \in 1 .. Len(t) : t[m].id = t[n].id => m = n
  BY <1>6, <1>7, ExecutableIs
<1>10. /\ run' \in Run /\ run'.account = current /\ run'.todo = t /\ run'.executed = FALSE
       /\ current \in Accounts
  BY <1>8, <1>9 DEF Run, IInv, Typed
<1>11. Typed'
  <2>1. (switching # NoAccount) \in BOOLEAN
    OBVIOUS
  <2> QED BY <1>1, <1>2, <1>6, <1>10, <2>1 DEF IInv, Typed
<1>12. QueuesListed' /\ CopiesSound'
  <2>1. (strayed => strayed') /\ (~overlapped' /\ ~strayed' => r = current)
    BY <1>1, <1>3, RowsShown
  <2> QED BY <1>1, <1>2, <1>5, <2>1, LiveThinned
<1>13. RecipesMade'
  BY <1>1 DEF IInv, RecipesMade
<1>14. RunTrue'
  BY <1>8, <1>9, <1>10 DEF RunTrue
<1>15. ViewKept'
  <2> SUFFICES ASSUME ~strayed' PROVE (rows = current)' /\ RunOnScreen' /\ SlotOpen'
    BY DEF ViewKept
  <2>1. rows = current /\ SlotOpen /\ switching = NoAccount
    BY <1>1 DEF IInv, ViewKept
  <2>2. SlotOpen'
    BY <1>1, <2>1 DEF SlotOpen, Selecting
  <2>3. RunOnScreen'
    BY <1>1, <1>2, <1>9, <1>10, <2>1 DEF RunOnScreen, Selecting
  <2> QED BY <1>1, <2>1, <2>2, <2>3
<1> QED BY <1>11, <1>12, <1>13, <1>14, <1>15 DEF IInv

\* The queues stay, and what is known of the recipes of each account, but for those
\* that are crafted.
LEMMA QueuesStay ==
    ASSUME IInv, ~overlapped, UNCHANGED <<live, saved, held, current, switching>>, OwnerGrows,
           \A b \in Accounts : Unaffected(b),
           crafted \subseteq crafted', strayed => strayed', wanted' \subseteq Recipes
    PROVE  QueuesListed' /\ CopiesSound'
<1>1. ASSUME NEW q \in Queue, InUse(q)' PROVE Listed(q)'
  <2>1. InUse(q)
    BY <1>1 DEF InUse
  <2> QED BY <2>1, ListedStays DEF IInv, QueuesListed
<1>2. ASSUME NEW b \in Accounts, NEW q \in Queue, Copy(b, q)' PROVE Sound(q, b)'
  <2>1. Copy(b, q)
    BY <1>2 DEF Copy, SavedCopy, LiveCopy, HeldCopy, Selecting
  <2> QED BY <2>1, SoundStays DEF IInv, CopiesSound
<1> QED BY <1>1, <1>2 DEF QueuesListed, CopiesSound

\* A selection run's queue is the account's, and its last slot too.
LEMMA HeldKnown ==
    ASSUME IInv, NEW a \in Accounts, Selecting(a)
    PROVE  /\ held[a] \in Queue /\ Listed(held[a]) /\ OneEach(held[a])
           /\ Len(held[a]) \in DOMAIN held[a]
           /\ held[a][Len(held[a])].id \in Recipes
           /\ ~overlapped => Sound(held[a], a) /\ owner[held[a][Len(held[a])].id] = a
<1>1. held[a] \in Queue /\ InUse(held[a]) /\ Copy(a, held[a]) /\ held[a] # <<>>
  BY DEF IInv, Typed, InUse, Copy, HeldCopy, Selecting
<1>2. Len(held[a]) \in DOMAIN held[a]
  BY <1>1, QueueIs
<1>3. held[a][Len(held[a])].id \in Recipes
  BY <1>1, <1>2, QueueIs
<1>4. Listed(held[a]) /\ OneEach(held[a])
  BY <1>1 DEF IInv, QueuesListed, Listed
<1>5. ~overlapped => Sound(held[a], a)
  BY <1>1 DEF IInv, CopiesSound
<1> QED BY <1>1, <1>2, <1>3, <1>4, <1>5 DEF Sound, Own

LEMMA RunKnown ==
    ASSUME IInv, Busy
    PROVE  /\ run.account \in Accounts /\ run.todo \in Seq(Todo) /\ run.executed \in BOOLEAN
           /\ run.todo # <<>> /\ 1 \in 1 .. Len(run.todo) /\ Len(run.todo) \in Nat
           /\ Head(run.todo) = run.todo[1] /\ run.todo[1].id \in Recipes
           /\ run.todo[1].index \in 1 .. MaxRecipes
<1>1. run \in Run /\ run.account \in Accounts /\ run.todo # <<>>
  BY DEF IInv, Typed, RunTrue
<1>2. run.todo \in Seq(Todo) /\ run.executed \in BOOLEAN
  BY <1>1 DEF Run
<1>3. Len(run.todo) \in Nat /\ 1 \in 1 .. Len(run.todo) /\ Head(run.todo) = run.todo[1]
  BY <1>1, <1>2
<1>4. run.todo[1] \in Todo
  BY <1>2, <1>3
<1> QED BY <1>1, <1>2, <1>3, <1>4 DEF Todo

LEMMA ExecuteKeeps ==
    ASSUME IInv, ~overlapped, Execute
    PROVE  IInv'
<1> DEFINE i == run.todo[1].id
<1>1. /\ Busy /\ owner[i] = run.account /\ crafted' = crafted \cup {i}
      /\ run' = [run EXCEPT !.executed = TRUE]
      /\ UNCHANGED <<live, saved, current, rows, connected, switching, reloading, refreshing, told,
                     owner, wanted, held, strayed, overlapped, changes>>
  BY RunKnown DEF Execute, queueVars, viewVars, recipeVars
<1>2. run \in Run /\ i \in Recipes /\ run.account \in Accounts /\ run.account # NoAccount
  BY <1>1, RunKnown, CraftPageAssumption DEF IInv, Typed
<1>3. /\ run' \in Run /\ run'.executed = TRUE
      /\ run'.account = run.account /\ run'.todo = run.todo
  BY <1>1, <1>2 DEF Run
<1> HIDE DEF i
<1>4. Typed'
  BY <1>1, <1>2, <1>3 DEF IInv, Typed
<1>5. QueuesListed' /\ CopiesSound'
  <2>1. OwnerGrows /\ \A b \in Accounts : Unaffected(b)
    BY <1>1 DEF OwnerGrows, Unaffected
  <2>2. wanted' \subseteq Recipes /\ crafted \subseteq crafted' /\ (strayed => strayed')
    BY <1>1 DEF IInv, Typed
  <2> QED BY <1>1, <2>1, <2>2, QueuesStay
<1>6. RecipesMade'
  BY <1>1, <1>2 DEF IInv, RecipesMade
<1>7. run'.todo[1].id \in crafted'
  BY <1>1, <1>3 DEF i
<1>8. RunTrue'
  BY <1>1, <1>3, <1>7 DEF IInv, RunTrue
<1>9. ViewKept'
  <2> SUFFICES ASSUME ~strayed PROVE (rows = current)' /\ RunOnScreen' /\ SlotOpen'
    BY <1>1 DEF ViewKept
  <2>1. rows = current /\ RunOnScreen /\ SlotOpen
    BY DEF IInv, ViewKept
  <2>2. RunOnScreen'
    BY <1>1, <1>3, <2>1 DEF RunOnScreen, Selecting
  <2>3. ASSUME NEW a \in Accounts, Selecting(a)
        PROVE  held[a][Len(held[a])].id \notin wanted \cup crafted'
    <3>1. owner[held[a][Len(held[a])].id] = a /\ a # current /\ run.account = current
      BY <1>1, <2>1, <2>3, HeldKnown DEF RunOnScreen
    <3>2. held[a][Len(held[a])].id # i
      BY <1>1, <3>1
    <3> QED BY <1>1, <2>1, <2>3, <3>2 DEF SlotOpen
  <2>4. SlotOpen'
    BY <1>1, <2>3 DEF SlotOpen, Selecting
  <2> QED BY <1>1, <2>1, <2>2, <2>4
<1> QED BY <1>4, <1>5, <1>6, <1>8, <1>9 DEF IInv

\* What the marked queue lists, and what is known of it.
LEMMA MarkedListed ==
    ASSUME NEW q \in Queue, NEW k, NEW w, MarkedAt(w, q, k), Listed(q)
    PROVE  Listed(w)
BY DEF MarkedAt, Listed, OneEach

LEMMA RunReplyKeeps ==
    ASSUME IInv, ~overlapped, RunReply
    PROVE  IInv'
<1> DEFINE i == run.todo[1].id
           k == run.todo[1].index
<1>1. /\ Busy /\ run.executed /\ rows' = run.account
      /\ told' = told \cup {i}
      /\ UNCHANGED <<current, connected, saved, switching, reloading, refreshing, crafted, owner,
                     wanted, held, strayed, overlapped, changes>>
  BY RunKnown DEF RunReply, recipeVars
<1>2. /\ run.account \in Accounts /\ run.account # NoAccount /\ i \in Recipes /\ k \in 1 .. MaxRecipes
      /\ run.todo \in Seq(Todo) /\ Len(run.todo) \in Nat /\ i \in crafted
      /\ run \in Run
  <2>1. i \in crafted
    BY <1>1 DEF IInv, RunTrue
  <2> QED BY <1>1, <2>1, RunKnown, CraftPageAssumption DEF IInv, Typed
<1>3. PICK q : q = Rendered(live, TRUE)
  OBVIOUS
<1>4. PICK w : w = live'
  OBVIOUS
<1>5. PICK r : r = rows'
  OBVIOUS
<1>6. Thinned(q, live, r) /\ q \in Queue
  BY <1>3, <1>5, RenderedThins, LiveKnown, ThinnedType DEF IInv
<1>7. MarkedAt(w, q, k) /\ w \in Queue
  <2>1. w = Marked(q, k)
    BY <1>1, <1>3, <1>4, RunKnown DEF RunReply
  <2> HIDE DEF k
  <2>2. MarkedAt(w, q, k)
    BY <1>2, <1>6, <2>1, MarkedMarks
  <2> QED BY <2>2 DEF MarkedAt
<1>8. Listed(q) /\ Listed(w)
  BY <1>6, <1>7, LiveKnown, ThinnedListed, MarkedListed
<1>9. /\ run' \in Run
      /\ run' = NoRun \/ /\ run'.account = run.account /\ run'.todo = Tail(run.todo)
                         /\ run'.executed = FALSE /\ Len(run.todo) > 1
  <2>1. CASE run' = NoRun
    <3>1. <<>> \in Seq(Todo)
      OBVIOUS
    <3> QED BY <2>1, <3>1 DEF NoRun, Run
  <2>2. CASE Len(run.todo) > 1 /\ run' = [run EXCEPT !.todo = Tail(@), !.executed = FALSE]
    <3>1. Tail(run.todo) \in Seq(Todo)
      BY <1>2, <2>2
    <3> QED BY <1>2, <2>2, <3>1 DEF Run
  <2> QED BY <2>1, <2>2 DEF RunReply
<1>10. ASSUME run' # NoRun
       PROVE  /\ Len(run'.todo) = Len(run.todo) - 1 /\ Len(run'.todo) \in Nat /\ run'.todo # <<>>
              /\ \A n \in 1 .. Len(run'.todo) :
                    run'.todo[n] = run.todo[n + 1] /\ n + 1 \in 1 .. Len(run.todo)
  <2>1. run'.todo = Tail(run.todo) /\ Len(run.todo) > 1
    BY <1>9, <1>10
  <2>2. PICK t \in Seq(Todo) : t = run.todo
    BY <1>2
  <2>3. Len(t) > 1 /\ t # <<>>
    BY <2>1, <2>2
  <2>4. /\ Len(Tail(t)) = Len(t) - 1 /\ Len(Tail(t)) \in Nat
        /\ \A n \in 1 .. Len(t) - 1 : Tail(t)[n] = t[n + 1]
    BY <2>3
  <2>5. Tail(t) # <<>>
    <3>1. Len(Tail(t)) # 0
      BY <2>3, <2>4
    <3>2. PICK u : u = Tail(t)
      OBVIOUS
    <3>3. u = <<>> => Len(u) = 0
      OBVIOUS
    <3> QED BY <3>1, <3>2, <3>3
  <2>6. \A n \in 1 .. Len(t) - 1 : n + 1 \in 1 .. Len(t)
    BY <2>2
  <2> QED BY <2>1, <2>2, <2>4, <2>5, <2>6
<1> HIDE DEF i, k
<1>11. Typed'
  BY <1>1, <1>2, <1>4, <1>7, <1>9 DEF IInv, Typed
<1>12. QueuesListed'
  <2> SUFFICES ASSUME NEW p \in Queue, InUse(p)' PROVE Listed(p)'
    BY DEF QueuesListed
  <2>1. p = w \/ InUse(p)
    BY <1>1, <1>4 DEF InUse
  <2>2. OwnerGrows
    BY <1>1 DEF OwnerGrows
  <2> QED BY <1>7, <1>8, <2>1, <2>2, ListedStays DEF IInv, QueuesListed
<1>13. RecipesMade'
  BY <1>1, <1>2 DEF IInv, RecipesMade
<1>14. RunTrue'
  <2>1. NoRun' = NoRun
    BY DEF NoRun
  <2>2. ASSUME run' # NoRun PROVE RunTrue'
    <3>1. \A m, n \in 1 .. Len(run.todo) : run.todo[m].id = run.todo[n].id => m = n
      BY <1>1 DEF IInv, RunTrue
    <3>2. \A m, n \in 1 .. Len(run'.todo) : run'.todo[m].id = run'.todo[n].id => m = n
      <4> SUFFICES ASSUME NEW m \in 1 .. Len(run'.todo), NEW n \in 1 .. Len(run'.todo),
                          run'.todo[m].id = run'.todo[n].id
                   PROVE  m = n
        OBVIOUS
      <4>1. /\ run'.todo[m] = run.todo[m + 1] /\ m + 1 \in 1 .. Len(run.todo)
            /\ run'.todo[n] = run.todo[n + 1] /\ n + 1 \in 1 .. Len(run.todo)
        BY <1>10, <2>2
      <4>2. m + 1 = n + 1
        BY <3>1, <4>1
      <4>3. m \in Nat /\ n \in Nat
        OBVIOUS
      <4> QED BY <4>2, <4>3
    <3> QED BY <1>2, <1>9, <1>10, <2>2, <3>2 DEF RunTrue
  <2>3. ASSUME run' = NoRun PROVE RunTrue'
    BY <2>1, <2>3 DEF RunTrue, Busy
  <2> QED BY <2>2, <2>3
\* As long as nothing strays, the recipe is the one at this place.
<1>15. ASSUME ~strayed
       PROVE  /\ r = current /\ run.account = current /\ switching = NoAccount
              /\ ~Selecting(current) /\ SlotOpen
              /\ \A n \in 1 .. Len(run.todo) : /\ run.todo[n].index \in DOMAIN live
                                               /\ live[run.todo[n].index].id = run.todo[n].id
              /\ k \in DOMAIN live /\ live[k].id = i /\ owner[i] = current /\ Sound(live, current)
  <2>1. RunOnScreen /\ SlotOpen
    BY <1>15 DEF IInv, ViewKept
  <2>2. /\ r = current /\ run.account = current /\ switching = NoAccount /\ ~Selecting(current)
        /\ \A n \in 1 .. Len(run.todo) : /\ run.todo[n].index \in DOMAIN live
                                         /\ live[run.todo[n].index].id = run.todo[n].id
    BY <1>1, <1>5, <2>1 DEF RunOnScreen
  <2>3. k \in DOMAIN live /\ live[k].id = i
    BY <1>1, <2>2, RunKnown DEF i, k
  <2>4. Sound(live, current)
    BY <2>2, LiveKnown
  <2> QED BY <2>1, <2>2, <2>3, <2>4 DEF Sound, Own
<1>16. DOMAIN w = DOMAIN live /\ \A n \in DOMAIN live : w[n].id = live[n].id
  BY <1>6, <1>7 DEF Thinned, MarkedAt
<1>17. ASSUME NEW b \in Accounts, NEW p \in Queue, Copy(b, p)'
       PROVE  Sound(p, b)'
  <2>1. CASE LiveCopy(b, p)'
    <3>1. p = w /\ b = current /\ Copy(current, live)
      BY <1>1, <1>4, <2>1 DEF LiveCopy, Copy
    <3>2. Sound(live, current)
      BY <3>1, LiveKnown DEF IInv, Typed, CopiesSound
    <3>3. \A n \in DOMAIN w : w[n].state = "filled" => live[n].state = "filled"
      BY <1>6, <1>7 DEF Thinned, MarkedAt
    <3>4. Own(w, current)'
      BY <1>1, <1>16, <3>2, <3>3 DEF Sound, Own
    <3>5. ASSUME ~strayed PROVE Complete(w, current)' /\ Informed(w)'
      <4>1. Complete(live, current) /\ Informed(live) /\ Own(live, current) /\ OneEach(live)
        BY <3>2, <3>5, LiveKnown DEF Sound
      <4>2. \A n \in DOMAIN live : live[n].state = "filled" /\ live[n].id \notin crafted
                                  => w[n].state = "filled"
        <5>1. \A n \in DOMAIN live : live[n].state = "filled" /\ live[n].id \notin crafted
                                  => q[n].state = "filled"
          BY <1>6, <1>15, <3>5, <4>1 DEF Thinned, Own
        <5>2. \A n \in DOMAIN live : live[n].id \notin crafted => n # k
          BY <1>2, <1>15, <3>5
        <5> QED BY <1>6, <1>7, <5>1, <5>2 DEF MarkedAt, Thinned
      <4>3. Complete(w, current)'
        BY <1>1, <1>16, <4>1, <4>2 DEF Complete
      <4>4. \A n \in DOMAIN w : w[n].state = "done" => live[n].state = "done" \/ w[n].id = i
        BY <1>6, <1>7, <1>15, <1>16, <3>5 DEF MarkedAt, Thinned
      <4>5. \A n \in DOMAIN w : w[n].state = "filled" => live[n].state = "filled" /\ w[n].id # i
        <5>1. \A n \in DOMAIN w : w[n].state = "filled" => n # k
          BY <1>6, <1>7 DEF MarkedAt, Thinned
        <5>2. \A n \in DOMAIN w : w[n].id = i => n = k
          BY <1>15, <1>16, <3>5, <4>1 DEF OneEach
        <5> QED BY <3>3, <5>1, <5>2
      <4>6. Informed(w)'
        BY <1>1, <1>16, <4>1, <4>4, <4>5 DEF Informed
      <4> QED BY <4>3, <4>6
    <3> QED BY <1>1, <3>1, <3>4, <3>5 DEF Sound
  <2>2. CASE SavedCopy(b, p)' \/ HeldCopy(b, p)'
    <3>1. Copy(b, p)
      BY <1>1, <2>2 DEF Copy, SavedCopy, HeldCopy, Selecting
    <3>2. ~strayed => b # current
      BY <1>1, <1>15, <2>2 DEF SavedCopy, HeldCopy, Selecting
    <3>3. Unaffected(b)
      BY <1>1, <1>15, <3>2 DEF Unaffected
    <3>4. crafted \subseteq crafted' /\ (strayed => strayed') /\ wanted' \subseteq Recipes
      BY <1>1 DEF IInv, Typed
    <3> QED BY <3>1, <3>3, <3>4, SoundStays DEF IInv, CopiesSound
  <2> QED BY <1>17, <2>1, <2>2 DEF Copy
<1>18. CopiesSound'
  BY <1>17 DEF CopiesSound
<1>19. ViewKept'
  <2> SUFFICES ASSUME ~strayed PROVE (rows = current)' /\ RunOnScreen' /\ SlotOpen'
    BY <1>1 DEF ViewKept
  <2>1. (rows = current)'
    BY <1>1, <1>15
  <2>2. SlotOpen'
    BY <1>1, <1>15 DEF SlotOpen, Selecting
  <2>3. ASSUME run' # NoRun PROVE RunOnScreen'
    <3>1. run'.account = current /\ switching' = NoAccount /\ ~Selecting(current)'
      BY <1>1, <1>9, <1>15, <2>3 DEF Selecting
    <3>2. \A n \in 1 .. Len(run'.todo) : /\ run'.todo[n].index \in DOMAIN w
                                         /\ w[run'.todo[n].index].id = run'.todo[n].id
      <4> SUFFICES ASSUME NEW n \in 1 .. Len(run'.todo)
                   PROVE  /\ run'.todo[n].index \in DOMAIN w
                          /\ w[run'.todo[n].index].id = run'.todo[n].id
        OBVIOUS
      <4>1. run'.todo[n] = run.todo[n + 1] /\ n + 1 \in 1 .. Len(run.todo)
        BY <1>10, <2>3
      <4>2. /\ run'.todo[n].index \in DOMAIN live
            /\ live[run'.todo[n].index].id = run'.todo[n].id
        BY <1>15, <4>1
      <4> QED BY <1>16, <4>2
    <3> QED BY <1>1, <1>4, <3>1, <3>2 DEF RunOnScreen
  <2>4. NoRun' = NoRun
    BY DEF NoRun
  <2>5. RunOnScreen'
    BY <2>3, <2>4 DEF RunOnScreen, Busy
  <2> QED BY <2>1, <2>2, <2>5
<1> QED BY <1>11, <1>12, <1>13, <1>14, <1>18, <1>19 DEF IInv

-----------------------------------------------------------------------------
(* The queue of the account that is viewed.                                  *)

LEMMA GrownListed ==
    ASSUME NEW q \in Queue, NEW e \in Entry, NEW w, Grown(w, q, e), Listed(q),
           OwnerGrows, owner'[e.id] # NoAccount
    PROVE  Listed(w)'
<1>1. w \in Queue /\ OneEach(w) /\ w[Len(w)] = e /\ DOMAIN w = 1 .. Len(w) /\ Len(w) \in Nat
  BY QueueIs DEF Grown
<1>2. \A k \in DOMAIN q : q[k].id \in Recipes /\ owner'[q[k].id] # NoAccount
  BY QueueIs DEF Listed, OwnerGrows
<1>3. ASSUME NEW n \in DOMAIN w PROVE owner'[w[n].id] # NoAccount
  <2>1. CASE n = Len(w)
    BY <1>1, <2>1
  <2>2. CASE n # Len(w)
    <3>1. n \in 1 .. Len(w) - 1
      BY <1>1, <2>2
    <3> QED BY <1>2, <3>1 DEF Grown
  <2> QED BY <2>1, <2>2
<1> QED BY <1>1, <1>3 DEF Listed, OneEach

\* A queue to which a recipe is added, if it knew of all the others.
LEMMA GrownSound ==
    ASSUME NEW q \in Queue, NEW e \in Entry, NEW w, Grown(w, q, e), NEW a,
           Own(q, a)', owner'[e.id] = a,
           e.state # "done",
           e.state = "filled" => e.id \in wanted' \ told',
           e.state = "empty" => e.id \notin wanted',
           ~strayed' => /\ Informed(q)'
                        /\ \A i \in wanted' \ crafted' :
                              owner'[i] = a /\ i # e.id =>
                                  \E k \in DOMAIN q : q[k].id = i /\ q[k].state = "filled"
    PROVE  Sound(w, a)'
<1>1. w[Len(w)] = e /\ DOMAIN w = 1 .. Len(w) /\ Len(w) \in Nat /\ Len(w) \in DOMAIN w
  <2>1. w \in Queue /\ w[Len(w)] = e /\ w # <<>>
    BY DEF Grown
  <2> QED BY <2>1, QueueIs
<1>2. \A n \in DOMAIN w : w[n] = e \/ \E k \in DOMAIN q : w[n] = q[k]
  <2> SUFFICES ASSUME NEW n \in DOMAIN w, n # Len(w) PROVE \E k \in DOMAIN q : w[n] = q[k]
    BY <1>1
  <2>1. n \in 1 .. Len(w) - 1
    BY <1>1
  <2> QED BY <2>1 DEF Grown
<1>3. \A k \in DOMAIN q : q[k].state # "done" => \E n \in DOMAIN w : w[n] = q[k]
  <2> SUFFICES ASSUME NEW k \in DOMAIN q, q[k].state # "done" PROVE \E n \in DOMAIN w : w[n] = q[k]
    OBVIOUS
  <2>1. PICK n \in 1 .. Len(w) - 1 : w[n] = q[k]
    BY DEF Grown
  <2>2. n \in DOMAIN w
    BY <1>1, <2>1
  <2> QED BY <2>1, <2>2
<1>4. Own(w, a)'
  <2> SUFFICES ASSUME NEW n \in DOMAIN w
               PROVE  owner'[w[n].id] = a /\ (w[n].state = "filled" => w[n].id \in wanted')
    BY DEF Own
  <2> QED BY <1>2 DEF Own
<1>5. ASSUME ~strayed' PROVE Complete(w, a)' /\ Informed(w)'
  <2>1. Informed(w)'
    <3> SUFFICES ASSUME NEW n \in DOMAIN w
                 PROVE  /\ w[n].state = "done" => w[n].id \in told'
                        /\ w[n].state = "filled" => w[n].id \notin told'
      BY DEF Informed
    <3> QED BY <1>2, <1>5 DEF Informed
  <2>2. ASSUME NEW i \in wanted' \ crafted', owner'[i] = a
        PROVE  \E n \in DOMAIN w : w[n].id = i /\ w[n].state = "filled"
    <3>1. CASE i = e.id
      <4>1. e.state = "filled"
        BY <2>2, <3>1 DEF Entry
      <4> QED BY <1>1, <3>1, <4>1
    <3>2. CASE i # e.id
      <4>1. PICK k \in DOMAIN q : q[k].id = i /\ q[k].state = "filled"
        BY <1>5, <2>2, <3>2
      <4>2. PICK n \in DOMAIN w : w[n] = q[k]
        BY <1>3, <4>1
      <4> QED BY <4>1, <4>2
    <3> QED BY <3>1, <3>2
  <2> QED BY <2>1, <2>2 DEF Complete
<1> QED BY <1>4, <1>5 DEF Sound

\* A recipe that is being made: nobody knows of it.
LEMMA NewKnown ==
    ASSUME IInv, NEW i \in Recipes, owner[i] = NoAccount
    PROVE  /\ i \notin wanted \cup crafted \cup told
           /\ \A q \in Queue : Listed(q) => \A k \in DOMAIN q : q[k].id # i
BY DEF IInv, RecipesMade, Listed

\* The recipe i is made for account c, which has but these copies of its queue.
LEMMA MadeFor ==
    ASSUME IInv, NEW i \in Recipes, NEW c \in Accounts, owner[i] = NoAccount,
           owner' = [owner EXCEPT ![i] = c]
    PROVE  /\ OwnerGrows /\ owner'[i] = c /\ owner' \in [Recipes -> Accounts \cup {NoAccount}]
           /\ \A j \in Recipes \ {i} : owner'[j] = owner[j]
BY DEF IInv, Typed, OwnerGrows

LEMMA AddRecipeKeeps ==
    ASSUME IInv, ~overlapped, NEW i \in Recipes, AddRecipe(i)
    PROVE  IInv'
<1> DEFINE e == [id |-> i, state |-> "filled"]
<1>1. /\ ~Busy /\ ~Selecting(current) /\ owner[i] = NoAccount
      /\ live' = Append(Pruned(live), e)
      /\ owner' = [owner EXCEPT ![i] = current] /\ wanted' = wanted \cup {i}
      /\ overlapped' = (switching # NoAccount)
      /\ UNCHANGED <<saved, current, rows, connected, switching, reloading, refreshing, run, crafted,
                     told, held, strayed, changes>>
      /\ current \in Accounts /\ current # NoAccount
  BY CraftPageAssumption DEF AddRecipe, Locked, New, viewVars, craftVars, IInv, Typed
<1>2. PICK w : w = live'
  OBVIOUS
<1>3. /\ i \notin wanted \cup crafted \cup told
      /\ \A q \in Queue : Listed(q) => \A k \in DOMAIN q : q[k].id # i
  BY <1>1, NewKnown
<1>4. e \in Entry /\ e.id = i /\ e.state = "filled"
  BY DEF Entry
<1> HIDE DEF e
<1>5. Grown(w, live, e) /\ w \in Queue
  <2>1. Grown(w, live, e)
    BY <1>1, <1>2, <1>3, <1>4, LiveKnown, PrunedGrows
  <2> QED BY <2>1 DEF Grown
<1>6. /\ OwnerGrows /\ owner'[i] = current /\ owner' \in [Recipes -> Accounts \cup {NoAccount}]
      /\ \A j \in Recipes \ {i} : owner'[j] = owner[j]
  BY <1>1, MadeFor
<1>7. Typed'
  <2>1. (switching # NoAccount) \in BOOLEAN
    OBVIOUS
  <2> QED BY <1>1, <1>2, <1>5, <1>6, <2>1 DEF IInv, Typed
<1>8. QueuesListed'
  <2> SUFFICES ASSUME NEW q \in Queue, InUse(q)' PROVE Listed(q)'
    BY DEF QueuesListed
  <2>1. q = w \/ InUse(q)
    BY <1>1, <1>2 DEF InUse
  <2>2. Listed(w)'
    BY <1>1, <1>4, <1>5, <1>6, LiveKnown, GrownListed
  <2> QED BY <1>6, <2>1, <2>2, ListedStays DEF IInv, QueuesListed
<1>9. RecipesMade'
  <2>1. \A j \in crafted \cup wanted : j \in Recipes /\ owner[j] # NoAccount
    BY DEF IInv, Typed, RecipesMade
  <2> QED BY <1>1, <1>6, <2>1 DEF IInv, RecipesMade, OwnerGrows
<1>10. ~Busy'
  BY <1>1 DEF Busy, NoRun
<1>11. RunTrue'
  BY <1>10 DEF RunTrue
<1>12. ASSUME ~overlapped', NEW b \in Accounts, NEW q \in Queue, Copy(b, q)'
       PROVE  Sound(q, b)'
  <2>1. switching = NoAccount
    BY <1>1, <1>12
  <2>2. Sound(live, current) /\ live \in Queue /\ Listed(live)
    BY <2>1, LiveKnown
  <2>3. CASE b = current
    <3>1. q = w
      BY <1>1, <1>2, <1>12, <2>1, <2>3 DEF Copy, SavedCopy, LiveCopy, HeldCopy, Selecting
    <3>2. \A k \in DOMAIN live : live[k].id \in Recipes \ {i}
      BY <1>3, <2>2, QueueIs
    <3>3. PICK o \in Queue : o = live
      BY <2>2
    <3>4. PICK c : c = current
      OBVIOUS
    <3>5. Own(o, c)'
      BY <1>1, <1>6, <2>2, <3>2, <3>3, <3>4 DEF Sound, Own
    <3>6. ASSUME ~strayed'
          PROVE  /\ Informed(o)'
                 /\ \A j \in wanted' \ crafted' :
                       owner'[j] = c /\ j # e.id =>
                           \E k \in DOMAIN o : o[k].id = j /\ o[k].state = "filled"
      <4>1. Informed(o) /\ Complete(o, c)
        BY <1>1, <2>2, <3>3, <3>4, <3>6 DEF Sound
      <4>2. wanted \subseteq Recipes
        BY DEF IInv, Typed
      <4>3. Informed(o)'
        BY <1>1, <4>1 DEF Informed
      <4> QED BY <1>1, <1>4, <1>6, <4>1, <4>2, <4>3 DEF Complete
    <3>7. Grown(w, o, e) /\ owner'[e.id] = c
      BY <1>4, <1>5, <1>6, <3>3, <3>4
    <3>8. e.id \in wanted' \ told'
      BY <1>1, <1>3, <1>4
    <3>9. Sound(w, c)'
      BY <1>4, <3>5, <3>6, <3>7, <3>8, GrownSound
    <3> QED BY <2>3, <3>1, <3>4, <3>9
  <2>4. CASE b # current
    <3>1. Copy(b, q)
      BY <1>1, <1>12, <2>4 DEF Copy, SavedCopy, LiveCopy, HeldCopy, Selecting
    <3>2. Unaffected(b)
      BY <1>1, <1>3, <1>6, <2>4, CraftPageAssumption DEF Unaffected
    <3>3. wanted' \subseteq Recipes
      BY <1>1 DEF IInv, Typed
    <3> QED BY <1>1, <3>1, <3>2, <3>3, SoundStays DEF IInv, CopiesSound
  <2> QED BY <2>3, <2>4
<1>13. CopiesSound'
  BY <1>12 DEF CopiesSound
<1>14. ViewKept'
  <2> SUFFICES ASSUME ~strayed' PROVE (rows = current)' /\ RunOnScreen' /\ SlotOpen'
    BY DEF ViewKept
  <2>1. rows = current /\ SlotOpen
    BY <1>1 DEF IInv, ViewKept
  <2>2. ASSUME NEW a \in Accounts, Selecting(a)
        PROVE  held[a][Len(held[a])].id \notin wanted' \cup crafted'
    <3>1. owner[held[a][Len(held[a])].id] = a /\ a # NoAccount
      BY <2>2, HeldKnown, CraftPageAssumption
    <3> QED BY <1>1, <2>1, <2>2, <3>1 DEF SlotOpen
  <2>3. SlotOpen'
    BY <1>1, <2>2 DEF SlotOpen, Selecting
  <2> QED BY <1>1, <1>10, <2>1, <2>3 DEF RunOnScreen
<1> QED BY <1>7, <1>8, <1>9, <1>11, <1>13, <1>14 DEF IInv

LEMMA DropRecipesKeeps ==
    ASSUME IInv, ~overlapped, DropRecipes
    PROVE  IInv'
<1>1. /\ ~Busy /\ ~Selecting(current)
      /\ overlapped' = (switching # NoAccount)
      /\ UNCHANGED <<saved, current, rows, connected, switching, reloading, refreshing, run, crafted,
                     told, owner, held, strayed, changes>>
      /\ current \in Accounts /\ live \in Queue /\ Listed(live) /\ OneEach(live)
  BY LiveKnown DEF DropRecipes, Locked, viewVars, craftVars, IInv, Typed
<1> DEFINE listed == {live[k].id : k \in DOMAIN live}
           places(gone) == {k \in DOMAIN live : live[k].id \notin gone}
<1>2. PICK gone \in {listed} \cup {{i} : i \in listed} :
         live' = Filtered(live, places(gone)) /\ wanted' = wanted \ gone
  BY DEF DropRecipes
<1>3. gone \subseteq listed
  BY <1>2
<1>4. PICK w : w = live'
  OBVIOUS
<1> DEFINE kept == places(gone)
<1>5. w \in Seq(Entry) /\ Selects(w, live, kept)
  <2>1. live \in Seq(Entry) /\ kept \in SUBSET (DOMAIN live) /\ w = Filtered(live, kept)
    BY <1>1, <1>2, <1>4, QueueIs
  <2> HIDE DEF kept
  <2> QED BY <2>1, FilteredSelects
<1>6. OneEach(w) /\ w \in Queue
  <2>1. kept \in SUBSET (DOMAIN live)
    OBVIOUS
  <2> HIDE DEF kept
  <2> QED BY <1>1, <1>5, <2>1, FilteredOneEach, OneEachFits
<1>7. /\ \A n \in DOMAIN w : \E k \in DOMAIN live : w[n] = live[k] /\ live[k].id \notin gone
      /\ \A k \in DOMAIN live : live[k].id \notin gone => \E n \in DOMAIN w : w[n] = live[k]
  <2>1. DOMAIN w = 1 .. Len(w)
    BY <1>5
  <2>2. /\ \A n \in DOMAIN w : \E k \in kept : w[n] = live[k]
        /\ \A k \in kept : \E n \in DOMAIN w : w[n] = live[k]
    <3> HIDE DEF kept
    <3> QED BY <1>5, <2>1 DEF Selects
  <2> QED BY <2>2
<1>8. \A i \in gone : \E k \in DOMAIN live : i = live[k].id
  BY <1>3
<1> HIDE DEF listed, places, kept
<1>9. Typed'
  <2>1. (switching # NoAccount) \in BOOLEAN
    OBVIOUS
  <2> QED BY <1>1, <1>2, <1>4, <1>6, <2>1 DEF IInv, Typed
<1>10. QueuesListed'
  <2> SUFFICES ASSUME NEW q \in Queue, InUse(q)' PROVE Listed(q)'
    BY DEF QueuesListed
  <2>1. q = w \/ InUse(q)
    BY <1>1, <1>4 DEF InUse
  <2>2. Listed(w) /\ OwnerGrows
    BY <1>1, <1>6, <1>7 DEF Listed, OwnerGrows
  <2> QED BY <2>1, <2>2, ListedStays DEF IInv, QueuesListed
<1>11. RecipesMade'
  BY <1>1, <1>2 DEF IInv, RecipesMade
<1>12. ~Busy'
  BY <1>1 DEF Busy, NoRun
<1>13. RunTrue'
  BY <1>12 DEF RunTrue
<1>14. ASSUME ~overlapped', NEW b \in Accounts, NEW q \in Queue, Copy(b, q)'
       PROVE  Sound(q, b)'
  <2>1. switching = NoAccount
    BY <1>1, <1>14
  <2>2. Sound(live, current)
    BY <2>1, LiveKnown
  <2>3. CASE b = current
    <3>1. q = w
      BY <1>1, <1>4, <1>14, <2>1, <2>3 DEF Copy, SavedCopy, LiveCopy, HeldCopy, Selecting
    <3>2. Own(w, current)'
      BY <1>1, <1>2, <1>7, <2>2 DEF Sound, Own
    <3>3. ASSUME ~strayed' PROVE Complete(w, current)' /\ Informed(w)'
      <4>1. Informed(live) /\ Complete(live, current)
        BY <1>1, <2>2, <3>3 DEF Sound
      <4>2. Informed(w)'
        BY <1>1, <1>7, <4>1 DEF Informed
      <4>3. ASSUME NEW i \in wanted' \ crafted', owner'[i] = current
            PROVE  \E n \in DOMAIN w : w[n].id = i /\ w[n].state = "filled"
        <5>1. i \in wanted \ crafted /\ i \notin gone /\ owner[i] = current
          BY <1>1, <1>2, <4>3
        <5>2. PICK k \in DOMAIN live : live[k].id = i /\ live[k].state = "filled"
          BY <4>1, <5>1 DEF Complete
        <5> QED BY <1>7, <5>1, <5>2
      <4> QED BY <1>1, <4>2, <4>3 DEF Complete
    <3> QED BY <1>1, <2>3, <3>1, <3>2, <3>3 DEF Sound
  <2>4. CASE b # current
    <3>1. Copy(b, q)
      BY <1>1, <1>14, <2>4 DEF Copy, SavedCopy, LiveCopy, HeldCopy, Selecting
    <3>2. \A i \in gone : owner[i] = current
      BY <1>8, <2>2 DEF Sound, Own
    <3>3. Unaffected(b)
      BY <1>1, <1>2, <2>4, <3>2 DEF Unaffected
    <3>4. wanted' \subseteq Recipes
      BY <1>2 DEF IInv, Typed
    <3> QED BY <1>1, <3>1, <3>3, <3>4, SoundStays DEF IInv, CopiesSound
  <2> QED BY <2>3, <2>4
<1>15. CopiesSound'
  BY <1>14 DEF CopiesSound
<1>16. ViewKept'
  <2> SUFFICES ASSUME ~strayed' PROVE (rows = current)' /\ RunOnScreen' /\ SlotOpen'
    BY DEF ViewKept
  <2>1. rows = current /\ SlotOpen
    BY <1>1 DEF IInv, ViewKept
  <2>2. SlotOpen'
    BY <1>1, <1>2, <2>1 DEF SlotOpen, Selecting
  <2> QED BY <1>1, <1>12, <2>1, <2>2 DEF RunOnScreen
<1> QED BY <1>9, <1>10, <1>11, <1>13, <1>15, <1>16 DEF IInv

-----------------------------------------------------------------------------
(* Selection of materials.                                                   *)

LEMMA StartAssistKeeps ==
    ASSUME IInv, ~overlapped, NEW i \in Recipes, StartAssist(i)
    PROVE  IInv'
<1> DEFINE e == [id |-> i, state |-> "empty"]
<1>1. PICK w : w = Begun(live, i)
  OBVIOUS
<1>2. /\ ~Busy /\ ~Selecting(current) /\ owner[i] = NoAccount
      /\ w = Append(Pruned(live), e)
      /\ held' = [held EXCEPT ![current] = w] /\ saved' = [saved EXCEPT ![current] = w]
      /\ owner' = [owner EXCEPT ![i] = current]
      /\ overlapped' = (switching # NoAccount)
      /\ UNCHANGED <<live, current, rows, connected, switching, reloading, refreshing, run, crafted,
                     told, wanted, strayed, changes>>
      /\ current \in Accounts /\ current # NoAccount
      /\ saved \in [Accounts -> Queue] /\ held \in [Accounts -> Queue]
  BY <1>1, CraftPageAssumption
     DEF StartAssist, Begun, MayAssist, New, viewVars, craftVars, IInv, Typed
<1>3. /\ i \notin wanted \cup crafted \cup told
      /\ \A q \in Queue : Listed(q) => \A k \in DOMAIN q : q[k].id # i
  BY <1>2, NewKnown
<1>4. e \in Entry /\ e.id = i /\ e.state = "empty"
  BY DEF Entry
<1> HIDE DEF e
<1>5. Grown(w, live, e) /\ w \in Queue /\ w # <<>> /\ w[Len(w)] = e
  <2>1. Grown(w, live, e)
    BY <1>2, <1>3, <1>4, LiveKnown, PrunedGrows
  <2> QED BY <2>1 DEF Grown
<1>6. /\ OwnerGrows /\ owner'[i] = current /\ owner' \in [Recipes -> Accounts \cup {NoAccount}]
      /\ \A j \in Recipes \ {i} : owner'[j] = owner[j]
  BY <1>2, MadeFor
<1>7. /\ held' \in [Accounts -> Queue] /\ saved' \in [Accounts -> Queue]
      /\ held'[current] = w /\ saved'[current] = w
      /\ \A b \in Accounts \ {current} : held'[b] = held[b] /\ saved'[b] = saved[b]
  BY <1>2, <1>5
<1>8. Typed'
  <2>1. (switching # NoAccount) \in BOOLEAN
    OBVIOUS
  <2> QED BY <1>2, <1>6, <1>7, <2>1 DEF IInv, Typed
<1>9. QueuesListed'
  <2> SUFFICES ASSUME NEW q \in Queue, InUse(q)' PROVE Listed(q)'
    BY DEF QueuesListed
  <2>1. q = w \/ InUse(q)
    BY <1>2, <1>7 DEF InUse
  <2>2. Listed(w)'
    BY <1>2, <1>4, <1>5, <1>6, LiveKnown, GrownListed
  <2> QED BY <1>6, <2>1, <2>2, ListedStays DEF IInv, QueuesListed
<1>10. RecipesMade'
  <2>1. \A j \in crafted \cup wanted : j \in Recipes /\ owner[j] # NoAccount
    BY DEF IInv, Typed, RecipesMade
  <2> QED BY <1>2, <1>6, <2>1 DEF IInv, RecipesMade, OwnerGrows
<1>11. ~Busy'
  BY <1>2 DEF Busy, NoRun
<1>12. RunTrue'
  BY <1>11 DEF RunTrue
<1>13. \A b \in Accounts : Unaffected(b)
  BY <1>2, <1>3, <1>6, CraftPageAssumption DEF Unaffected
<1>14. wanted' \subseteq Recipes
  BY <1>2 DEF IInv, Typed
<1>15. ASSUME ~overlapped', NEW b \in Accounts, NEW q \in Queue, Copy(b, q)'
       PROVE  Sound(q, b)'
  <2>1. switching = NoAccount
    BY <1>2, <1>15
  <2>2. CASE HeldCopy(b, q)' /\ b = current
    <3>1. PICK o \in Queue : o = live
      BY LiveKnown
    <3>2. PICK c \in Accounts : c = current
      BY <1>2
    <3>3. Sound(o, c)'
      <4>1. Sound(o, c)
        BY <2>1, <3>1, <3>2, LiveKnown
      <4> QED BY <1>2, <1>13, <1>14, <4>1, SoundStays
    <3>4. Own(o, c)' /\ (~strayed' => Complete(o, c)' /\ Informed(o)')
      BY <3>3 DEF Sound
    <3>5. ~strayed' => \A j \in wanted' \ crafted' :
              owner'[j] = c /\ j # e.id =>
                  \E k \in DOMAIN o : o[k].id = j /\ o[k].state = "filled"
      BY <3>4 DEF Complete
    <3>6. Grown(w, o, e) /\ owner'[e.id] = c /\ e.id \notin wanted'
      BY <1>2, <1>3, <1>4, <1>5, <1>6, <3>1, <3>2
    <3>7. Sound(w, c)'
      BY <1>4, <3>4, <3>5, <3>6, GrownSound
    <3>8. q = w
      BY <1>7, <2>2 DEF HeldCopy
    <3> QED BY <2>2, <3>2, <3>7, <3>8
  <2>3. CASE ~(HeldCopy(b, q)' /\ b = current)
    <3>1. Copy(b, q)
      BY <1>2, <1>7, <1>15, <2>1, <2>3 DEF Copy, SavedCopy, LiveCopy, HeldCopy, Selecting
    <3> QED BY <1>2, <1>13, <1>14, <3>1, SoundStays DEF IInv, CopiesSound
  <2> QED BY <2>2, <2>3
<1>16. CopiesSound'
  BY <1>15 DEF CopiesSound
<1>17. ViewKept'
  <2> SUFFICES ASSUME ~strayed' PROVE (rows = current)' /\ RunOnScreen' /\ SlotOpen'
    BY DEF ViewKept
  <2>1. rows = current /\ SlotOpen
    BY <1>2 DEF IInv, ViewKept
  <2>2. ASSUME NEW a \in Accounts, held'[a] # <<>>
        PROVE  held'[a][Len(held'[a])].id \notin wanted' \cup crafted'
    <3>1. CASE a = current
      BY <1>2, <1>3, <1>4, <1>5, <1>7, <3>1
    <3>2. CASE a # current
      BY <1>2, <1>7, <2>1, <2>2, <3>2 DEF SlotOpen, Selecting
    <3> QED BY <3>1, <3>2
  <2>3. SlotOpen'
    BY <2>2 DEF SlotOpen, Selecting
  <2> QED BY <1>2, <1>11, <2>1, <2>3 DEF RunOnScreen
<1> QED BY <1>8, <1>9, <1>10, <1>12, <1>16, <1>17 DEF IInv

\* The queue that a selection run leaves to account a is sound, with what it reports.
LEMMA ResultKnown ==
    ASSUME IInv, ~overlapped, NEW a \in Accounts, Selecting(a), NEW ok \in BOOLEAN,
           NEW h, h = held[a], NEW v, v = Result(h, ok),
           NEW r, ~strayed => r = a, NEW q, Thinned(q, v, r),
           wanted' = IF ok THEN wanted \cup {h[Len(h)].id} ELSE wanted,
           OwnerGrows, UNCHANGED <<crafted, told, strayed>>
    PROVE  /\ q \in Queue /\ Listed(q) /\ Sound(q, a)'
           /\ wanted' \subseteq Recipes
           /\ \A i \in wanted' \cup crafted : i \in Recipes /\ owner[i] # NoAccount
<1> DEFINE l == Len(h)
           last == h[l].id
<1>1. /\ h \in Queue /\ h # <<>> /\ Listed(h) /\ OneEach(h) /\ Sound(h, a)
      /\ l \in DOMAIN h /\ last \in Recipes /\ owner[last] = a /\ a # NoAccount
      /\ \A k \in DOMAIN h : h[k].id \in Recipes
  BY HeldKnown, QueueIs, CraftPageAssumption DEF Selecting
<1>2. Resulted(v, h, ok)
  BY <1>1, ResultIs
<1> HIDE DEF l, last
<1>3. v \in Queue /\ DOMAIN v \subseteq DOMAIN h /\ \A k \in DOMAIN v : v[k].id = h[k].id
  BY <1>2 DEF Resulted, l
<1>4. /\ \A k \in DOMAIN v : v[k] = h[k] \/ (ok /\ k = l /\ v[k].state = "filled")
      /\ \A k \in DOMAIN h : k # l => k \in DOMAIN v /\ v[k] = h[k]
      /\ ok => l \in DOMAIN v /\ v[l].state = "filled"
  BY <1>1, <1>2 DEF Resulted, l
<1>5. Listed(v)
  BY <1>1, <1>3 DEF Listed, OneEach
<1>6. q \in Queue /\ Listed(q) /\ DOMAIN q = DOMAIN v
  <2>1. Listed(q)
    BY <1>3, <1>5, ThinnedListed
  <2> QED BY <2>1 DEF Thinned
<1>7. wanted' = IF ok THEN wanted \cup {last} ELSE wanted
  BY DEF last, l
<1>8. /\ wanted' \subseteq Recipes
      /\ \A i \in wanted' \cup crafted : i \in Recipes /\ owner[i] # NoAccount
  BY <1>1, <1>7 DEF IInv, Typed, RecipesMade
<1>9. \A i \in Recipes : owner[i] = a => owner'[i] = a
  BY <1>1 DEF OwnerGrows
<1>10. /\ \A k \in DOMAIN q : /\ q[k].id = h[k].id /\ k \in DOMAIN h
                              /\ q[k].state = "filled" => v[k].state = "filled"
                              /\ q[k].state = "done" => v[k].state = "done"
  BY <1>3, <1>6 DEF Thinned
<1>11. v[l].state # "done" \/ l \notin DOMAIN v \/ v[l] = h[l]
  BY <1>4
<1>12. \A k \in DOMAIN q : q[k].state = "filled" => h[k].state = "filled" \/ (ok /\ h[k].id = last)
  BY <1>4, <1>6, <1>10 DEF last
<1>13. Own(q, a)'
  <2>1. Own(h, a)
    BY <1>1 DEF Sound
  <2> QED BY <1>1, <1>7, <1>9, <1>10, <1>12, <2>1 DEF Own
<1>14. ASSUME ~strayed PROVE Complete(q, a)' /\ Informed(q)'
  <2>1. Complete(h, a) /\ Informed(h) /\ r = a
    BY <1>1, <1>14 DEF Sound
  <2>2. last \notin wanted \cup crafted
    BY <1>14 DEF IInv, ViewKept, SlotOpen, last, l
  <2>3. Informed(q)'
    <3>1. told \subseteq crafted
      BY DEF IInv, RecipesMade
    <3>2. \A k \in DOMAIN q : q[k].state = "done" => h[k].state = "done"
      BY <1>4, <1>6, <1>10
    <3> QED BY <1>10, <1>12, <2>1, <2>2, <3>1, <3>2 DEF Informed
  <2>4. ASSUME NEW i \in wanted' \ crafted, owner'[i] = a
        PROVE  \E k \in DOMAIN q : q[k].id = i /\ q[k].state = "filled"
    <3>1. owner[i] = a /\ i \in Recipes
      BY <1>8, <2>4 DEF OwnerGrows
    <3>2. \E k \in DOMAIN v : v[k].id = i /\ v[k].state = "filled"
      <4>1. CASE ok /\ i = last
        BY <1>3, <1>4, <4>1 DEF last
      <4>2. CASE ~(ok /\ i = last)
        <5>1. i \in wanted \ crafted
          BY <1>7, <2>4, <4>2
        <5>2. PICK k \in DOMAIN h : h[k].id = i /\ h[k].state = "filled"
          BY <2>1, <3>1, <5>1 DEF Complete
        <5>3. k # l
          BY <2>2, <5>1, <5>2 DEF last
        <5> QED BY <1>4, <5>2, <5>3
      <4> QED BY <4>1, <4>2
    <3>3. PICK k \in DOMAIN v : v[k].id = i /\ v[k].state = "filled"
      BY <3>2
    <3> QED BY <1>6, <2>1, <2>4, <3>1, <3>3 DEF Thinned
  <2> QED BY <2>3, <2>4 DEF Complete
<1> QED BY <1>6, <1>8, <1>13, <1>14 DEF Sound

\* A selection run of account a ends: the account's copies are q, or another selection
\* run begins with a copy of q.
LEMMA EndAssistKeeps ==
    ASSUME IInv, ~overlapped, NEW a \in Accounts, NEW ok \in BOOLEAN, EndAssist(a, ok)
    PROVE  IInv'
<1>1. PICK h : h = held[a]
  OBVIOUS
<1>2. PICK v : v = Result(h, ok)
  OBVIOUS
<1> DEFINE last == h[Len(h)].id
           q0(recent) == IF a = current THEN Rendered(v, recent) ELSE v
           Commits(q) == /\ live' = IF a = current THEN q ELSE live
                         /\ \/ /\ saved' = [saved EXCEPT ![a] = q]
                               /\ held' = [held EXCEPT ![a] = <<>>]
                               /\ UNCHANGED owner
                            \/ /\ ok /\ MayAssist
                               /\ \E i \in Recipes :
                                     /\ New(i)
                                     /\ saved' = [saved EXCEPT ![a] = Begun(q, i)]
                                     /\ held' = [held EXCEPT ![a] = Begun(q, i)]
                                     /\ owner' = [owner EXCEPT ![i] = a]
<1>3. /\ Selecting(a)
      /\ UNCHANGED <<current, rows, connected, switching, reloading, refreshing, run, crafted, told,
                     strayed, overlapped, changes>>
      /\ wanted' = IF ok THEN wanted \cup {last} ELSE wanted
  BY <1>1 DEF EndAssist, viewVars, craftVars
<1>4. PICK recent \in BOOLEAN : Commits(q0(recent))
  BY <1>1, <1>2 DEF EndAssist
<1>5. PICK q : q = q0(recent)
  OBVIOUS
<1>6. Commits(q)
  BY <1>4, <1>5
<1>7. /\ h \in Queue /\ Listed(h) /\ h # <<>> /\ last \in Recipes /\ owner[last] = a
      /\ a # NoAccount
      /\ saved \in [Accounts -> Queue] /\ held \in [Accounts -> Queue]
  BY <1>1, <1>3, HeldKnown, CraftPageAssumption DEF Selecting, IInv, Typed
<1>8. v \in Queue
  BY <1>2, <1>7, ResultIs DEF Resulted
<1>9. \E r : Thinned(q, v, r) /\ (~strayed => r = a)
  <2>1. CASE a = current
    <3>1. PICK r : r = rows'
      OBVIOUS
    <3>2. Thinned(q, v, r)
      BY <1>5, <1>8, <2>1, <3>1, RenderedThins DEF IInv
    <3> QED BY <1>3, <2>1, <3>1, <3>2, RowsShown
  <2>2. CASE a # current
    BY <1>5, <1>8, <2>2, ThinnedSelf
  <2> QED BY <2>1, <2>2
<1> HIDE DEF last, q0
<1>10. ASSUME NEW i \in Recipes, New(i), owner' = [owner EXCEPT ![i] = a] PROVE OwnerGrows
  BY <1>10 DEF IInv, Typed, New, OwnerGrows
<1>11. OwnerGrows
  BY <1>6, <1>10 DEF OwnerGrows
<1>12. /\ q \in Queue /\ Listed(q) /\ Sound(q, a)'
       /\ wanted' \subseteq Recipes
       /\ \A i \in wanted' \cup crafted : i \in Recipes /\ owner[i] # NoAccount
  <2>1. PICK r : Thinned(q, v, r) /\ (~strayed => r = a)
    BY <1>9
  <2> QED BY <1>1, <1>2, <1>3, <1>11, <2>1, ResultKnown DEF last
\* The copy that is saved: what the run leaves, or with the slot of the next run.
<1>13. PICK w \in Queue :
          /\ saved' = [saved EXCEPT ![a] = w]
          /\ Listed(w)' /\ Sound(w, a)'
          /\ owner' \in [Recipes -> Accounts \cup {NoAccount}]
          /\ \A b \in Accounts \ {a}, i \in Recipes : owner'[i] = b => owner[i] = b
          /\ \A i \in Recipes : owner'[i] = a /\ i \in wanted' => owner[i] = a
          /\ \/ held' = [held EXCEPT ![a] = <<>>]
             \/ /\ held' = [held EXCEPT ![a] = w] /\ ~Busy /\ w # <<>>
                /\ w[Len(w)].id \notin wanted' \cup crafted
  <2>1. CASE /\ saved' = [saved EXCEPT ![a] = q]
             /\ held' = [held EXCEPT ![a] = <<>>]
             /\ UNCHANGED owner
    <3>1. Listed(q)'
      BY <1>11, <1>12, ListedStays
    <3>2. owner' \in [Recipes -> Accounts \cup {NoAccount}]
      BY <2>1 DEF IInv, Typed
    <3> QED BY <1>12, <2>1, <3>1, <3>2
  <2>2. CASE /\ ok /\ MayAssist
             /\ \E i \in Recipes :
                   /\ New(i)
                   /\ saved' = [saved EXCEPT ![a] = Begun(q, i)]
                   /\ held' = [held EXCEPT ![a] = Begun(q, i)]
                   /\ owner' = [owner EXCEPT ![i] = a]
    <3>1. PICK i \in Recipes :
             /\ New(i)
             /\ saved' = [saved EXCEPT ![a] = Begun(q, i)]
             /\ held' = [held EXCEPT ![a] = Begun(q, i)]
             /\ owner' = [owner EXCEPT ![i] = a]
      BY <2>2
    <3>2. PICK w : w = Begun(q, i)
      OBVIOUS
    <3> DEFINE e == [id |-> i, state |-> "empty"]
    <3>3. owner[i] = NoAccount
      BY <3>1 DEF New
    <3>4. /\ i \notin wanted' \cup crafted
          /\ \A k \in DOMAIN q : q[k].id # i
      BY <1>12, <3>3, NewKnown
    <3>5. e \in Entry /\ e.id = i /\ e.state = "empty"
      BY DEF Entry
    <3>6. w = Append(Pruned(q), e)
      BY <3>2 DEF Begun
    <3> HIDE DEF e
    <3>7. Grown(w, q, e)
      <4>1. OneEach(q)
        BY <1>12 DEF Listed
      <4> QED BY <1>12, <3>4, <3>5, <3>6, <4>1, PrunedGrows
    <3>8. w \in Queue /\ w # <<>> /\ w[Len(w)].id = i
      BY <3>5, <3>7 DEF Grown
    <3>9. /\ owner'[i] = a /\ owner' \in [Recipes -> Accounts \cup {NoAccount}]
          /\ \A j \in Recipes \ {i} : owner'[j] = owner[j]
      BY <3>1, <3>3, MadeFor
    <3>10. Listed(w)'
      BY <1>7, <1>11, <1>12, <3>5, <3>7, <3>9, GrownListed
    <3>11. Own(q, a)' /\ (~strayed' => Complete(q, a)' /\ Informed(q)')
      BY <1>12 DEF Sound
    <3>12. ~strayed' => \A j \in wanted' \ crafted' :
              owner'[j] = a /\ j # e.id =>
                  \E k \in DOMAIN q : q[k].id = j /\ q[k].state = "filled"
      BY <3>11 DEF Complete
    <3>13. owner'[e.id] = a /\ e.id \notin wanted'
      BY <3>4, <3>5, <3>9
    <3>14. Sound(w, a)'
      BY <1>12, <3>5, <3>7, <3>11, <3>12, <3>13, GrownSound
    <3>15. \A b \in Accounts \ {a}, j \in Recipes : owner'[j] = b => owner[j] = b
      BY <3>9
    <3>16. \A j \in Recipes : owner'[j] = a /\ j \in wanted' => owner[j] = a
      BY <3>4, <3>9
    <3>17. ~Busy
      BY <2>2 DEF MayAssist
    <3>18. saved' = [saved EXCEPT ![a] = w] /\ held' = [held EXCEPT ![a] = w]
      BY <3>1, <3>2
    <3> QED BY <3>4, <3>8, <3>9, <3>10, <3>14, <3>15, <3>16, <3>17, <3>18
  <2> QED BY <1>6, <2>1, <2>2
<1>14. live' = IF a = current THEN q ELSE live
  BY <1>6
<1> HIDE DEF Commits
<1>15. <<>> \in Queue
  BY QueueSeq
<1>16. /\ saved' \in [Accounts -> Queue] /\ saved'[a] = w
       /\ \A b \in Accounts \ {a} : saved'[b] = saved[b] /\ held'[b] = held[b]
       /\ held' \in [Accounts -> Queue]
       /\ \/ held'[a] = <<>>
          \/ held'[a] = w /\ ~Busy /\ w # <<>> /\ w[Len(w)].id \notin wanted' \cup crafted
  BY <1>7, <1>13, <1>15
<1>17. live' \in Queue
  BY <1>12, <1>14 DEF IInv, Typed
<1>18. Typed'
  BY <1>3, <1>12, <1>13, <1>16, <1>17 DEF IInv, Typed
<1>19. QueuesListed'
  <2> SUFFICES ASSUME NEW p \in Queue, InUse(p)' PROVE Listed(p)'
    BY DEF QueuesListed
  <2>1. p = w \/ p = q \/ p = <<>> \/ InUse(p)
    BY <1>14, <1>16 DEF InUse
  <2>2. p = <<>> => Listed(p)
    BY DEF Listed, OneEach
  <2>3. p = w \/ Listed(p)
    BY <1>12, <2>1, <2>2 DEF IInv, QueuesListed
  <2> QED BY <1>11, <1>13, <2>3, ListedStays
<1>20. RecipesMade'
  BY <1>3, <1>11, <1>12 DEF IInv, RecipesMade, OwnerGrows
<1>21. RunTrue'
  BY <1>3 DEF IInv, RunTrue, Busy, NoRun
<1>22. ASSUME NEW b \in Accounts, NEW p \in Queue, Copy(b, p)'
       PROVE  Sound(p, b)'
  <2>1. CASE b = a
    <3>1. CASE LiveCopy(b, p)'
      <4>1. p = q
        BY <1>3, <1>14, <2>1, <3>1 DEF LiveCopy
      <4> QED BY <1>12, <2>1, <4>1
    <3>2. CASE SavedCopy(b, p)' \/ HeldCopy(b, p)'
      <4>1. p = w
        BY <1>16, <2>1, <3>2 DEF SavedCopy, HeldCopy, Selecting
      <4> QED BY <1>13, <2>1, <4>1
    <3> QED BY <1>22, <3>1, <3>2 DEF Copy
  <2>2. CASE b # a
    <3>1. Copy(b, p)
      BY <1>3, <1>14, <1>16, <1>22, <2>2 DEF Copy, SavedCopy, LiveCopy, HeldCopy, Selecting
    <3>2. \A i \in Recipes : owner[i] = b => owner'[i] = b /\ i # last
      BY <1>7, <1>11, <2>2, CraftPageAssumption DEF OwnerGrows
    <3>3. Unaffected(b)
      BY <1>3, <1>13, <2>2, <3>2 DEF Unaffected
    <3> QED BY <1>3, <1>12, <3>1, <3>3, SoundStays DEF IInv, CopiesSound
  <2> QED BY <2>1, <2>2
<1>23. CopiesSound'
  BY <1>22 DEF CopiesSound
<1>24. ViewKept'
  <2> SUFFICES ASSUME ~strayed PROVE (rows = current)' /\ RunOnScreen' /\ SlotOpen'
    BY <1>3 DEF ViewKept
  <2>1. rows = current /\ RunOnScreen /\ SlotOpen
    BY DEF IInv, ViewKept
  <2>2. ASSUME NEW b \in Accounts, held'[b] # <<>>
        PROVE  held'[b][Len(held'[b])].id \notin wanted' \cup crafted'
    <3>1. CASE b = a
      BY <1>3, <1>16, <2>2, <3>1
    <3>2. CASE b # a
      <4>1. Selecting(b) /\ held'[b] = held[b]
        BY <1>16, <2>2, <3>2 DEF Selecting
      <4>2. owner[held[b][Len(held[b])].id] = b
        BY <4>1, HeldKnown
      <4> QED BY <1>3, <1>7, <2>1, <3>2, <4>1, <4>2 DEF SlotOpen
    <3> QED BY <3>1, <3>2
  <2>3. SlotOpen'
    BY <2>2 DEF SlotOpen, Selecting
  <2>4. ASSUME Busy PROVE RunOnScreen'
    <3>1. a # current
      BY <1>3, <2>1, <2>4 DEF RunOnScreen
    <3>2. live' = live /\ held'[current] = held[current]
      BY <1>14, <1>16, <3>1 DEF IInv, Typed
    <3> QED BY <1>3, <2>1, <2>4, <3>2 DEF RunOnScreen, Selecting
  <2>5. RunOnScreen'
    BY <1>3, <2>4 DEF RunOnScreen, Busy, NoRun
  <2> QED BY <1>3, <2>1, <2>3, <2>5
<1> QED BY <1>18, <1>19, <1>20, <1>21, <1>23, <1>24 DEF IInv

-----------------------------------------------------------------------------
(* The theorems.                                                             *)

LEMMA InitKeeps == ASSUME Init PROVE IInv
<1>1. <<>> \in Queue /\ DOMAIN <<>> = {}
  BY QueueSeq
<1>2. /\ live = <<>> /\ \A a \in Accounts : saved[a] = <<>> /\ held[a] = <<>>
      /\ \A i \in Recipes : owner[i] = NoAccount
      /\ crafted = {} /\ told = {} /\ wanted = {} /\ rows = current /\ run = NoRun
      /\ strayed = FALSE /\ overlapped = FALSE
  BY DEF Init
<1>3. Typed
  <2>1. <<>> \in Seq(Todo)
    OBVIOUS
  <2>2. NoRun \in Run
    BY <2>1 DEF NoRun, Run
  <2>3. 0 \in 0 .. MaxChanges
    BY CraftPageAssumption
  <2> QED BY <1>1, <2>2, <2>3 DEF Init, Typed
<1>4. \A q : InUse(q) => q = <<>>
  BY <1>2 DEF InUse
<1>5. QueuesListed
  BY <1>1, <1>4 DEF QueuesListed, Listed, OneEach
<1>6. RecipesMade /\ RunTrue /\ ~Busy
  BY <1>2 DEF RecipesMade, RunTrue, Busy
<1>7. ASSUME NEW a \in Accounts, NEW q \in Queue, Copy(a, q) PROVE Sound(q, a)
  <2>1. q = <<>>
    BY <1>4, <1>7, CopyInUse
  <2> QED BY <1>1, <1>2, <2>1 DEF Sound, Own, Complete, Informed
<1>8. CopiesSound
  BY <1>7 DEF CopiesSound
<1>9. ViewKept
  BY <1>2, <1>6 DEF ViewKept, RunOnScreen, SlotOpen, Selecting
<1> QED BY <1>3, <1>5, <1>6, <1>8, <1>9 DEF IInv

LEMMA NextKeeps == ASSUME IInv, [Next]_vars PROVE IInv'
<1>1. CASE UNCHANGED vars
  <2>1. UNCHANGED <<current, live, saved, rows, connected, switching, reloading, refreshing, run,
                    held, crafted, owner, wanted, told, strayed, overlapped, changes>>
    BY <1>1 DEF vars, queueVars, viewVars, craftVars, recipeVars
  <2>2. Typed'
    BY <2>1 DEF IInv, Typed
  <2>3. QueuesListed' /\ RecipesMade'
    BY <2>1 DEF IInv, QueuesListed, InUse, Listed, OneEach, RecipesMade
  <2>4. RunTrue'
    BY <2>1 DEF IInv, RunTrue, Busy, NoRun
  <2>5. CopiesSound'
    BY <2>1 DEF IInv, CopiesSound, Copy, SavedCopy, LiveCopy, HeldCopy, Selecting, Sound, Own,
                Complete, Informed
  <2>6. ViewKept'
    BY <2>1 DEF IInv, ViewKept, RunOnScreen, SlotOpen, Selecting, Busy, NoRun
  <2> QED BY <2>2, <2>3, <2>4, <2>5, <2>6 DEF IInv
<1>2. CASE Next
  <2>1. ~overlapped
    BY <1>2 DEF Next
  <2>2. ASSUME NEW a \in Accounts, SwitchStart(a) PROVE IInv'
    BY <2>1, <2>2, SwitchStartKeeps
  <2>3. ASSUME NEW a \in Accounts, ReloadEnd(a) PROVE IInv'
    BY <2>1, <2>3, ReloadEndKeeps
  <2>4. ASSUME NEW a \in Accounts, RefreshStart(a) PROVE IInv'
    BY <2>1, <2>4, RefreshStartKeeps
  <2>5. ASSUME NEW a \in Accounts, NEW ok \in BOOLEAN, EndAssist(a, ok) PROVE IInv'
    BY <2>1, <2>5, EndAssistKeeps
  <2>6. CASE SwitchEnd
    BY <2>1, <2>6, SwitchEndKeeps
  <2>7. CASE SwitchFail
    BY <2>1, <2>7, SwitchFailKeeps
  <2>8. CASE ReloadStart
    BY <2>1, <2>8, ReloadStartKeeps
  <2>9. CASE RefreshEnd
    BY <2>1, <2>9, RefreshEndKeeps
  <2>10. CASE Disconnect
    BY <2>1, <2>10, DisconnectKeeps
  <2>11. ASSUME NEW i \in Recipes, AddRecipe(i) PROVE IInv'
    BY <2>1, <2>11, AddRecipeKeeps
  <2>12. ASSUME NEW i \in Recipes, StartAssist(i) PROVE IInv'
    BY <2>1, <2>12, StartAssistKeeps
  <2>13. CASE DropRecipes
    BY <2>1, <2>13, DropRecipesKeeps
  <2>14. CASE StartRun
    BY <2>1, <2>14, StartRunKeeps
  <2>15. CASE Execute
    BY <2>1, <2>15, ExecuteKeeps
  <2>16. CASE RunReply
    BY <2>1, <2>16, RunReplyKeeps
  <2>17. CASE RunFail
    BY <2>1, <2>17, RunFailKeeps
  <2> QED BY <1>2, <2>2, <2>3, <2>4, <2>5, <2>6, <2>7, <2>8, <2>9, <2>10, <2>11, <2>12, <2>13,
             <2>14, <2>15, <2>16, <2>17 DEF Next
<1> QED BY <1>1, <1>2

\* Every copy of a queue that is still to be used is its account's, complete and
\* informed, in every state that is reached.
THEOREM Inductive == Spec => []IInv
BY InitKeeps, NextKeeps, PTL DEF Spec

\* The queue of an account is one of its copies.
LEMMA QueueOfCopy ==
    ASSUME IInv, NEW a \in Accounts
    PROVE  /\ QueueOf(a) \in Queue
           /\ ~overlapped => Sound(QueueOf(a), a)
<1>1. CASE a = current /\ switching = NoAccount
  BY <1>1, LiveKnown DEF QueueOf
<1>2. CASE ~(a = current /\ switching = NoAccount)
  <2>1. QueueOf(a) = saved[a] /\ saved[a] \in Queue /\ Copy(a, saved[a])
    BY <1>2 DEF QueueOf, Copy, SavedCopy, IInv, Typed
  <2> QED BY <2>1 DEF IInv, CopiesSound
<1> QED BY <1>1, <1>2

\* The variables keep their types; neither the queue on the screen nor a saved one
\* lists a recipe twice, whichever copies are put in their place.
THEOREM TypeCorrect == Spec => []TypeOK
<1>1. ASSUME IInv PROVE TypeOK
  <2>1. /\ run \in Run /\ run.account \in Accounts \cup {NoAccount}
        /\ run.todo \in Seq(Todo) /\ run.executed \in BOOLEAN
    BY <1>1 DEF IInv, Typed, Run
  <2>2. run.todo \in Seq([id : Recipes, index : 1 .. MaxRecipes])
    BY <2>1 DEF Todo
  <2>3. /\ live \in Queue /\ \A a \in Accounts : saved[a] \in Queue /\ held[a] \in Queue
    BY <1>1 DEF IInv, Typed
  <2>4. {live} \cup {saved[a] : a \in Accounts} \cup {held[a] : a \in Accounts} \subseteq Queue
    BY <2>3
  <2>5. OneEach(live) /\ \A a \in Accounts : OneEach(saved[a])
    BY <1>1, <2>3 DEF IInv, QueuesListed, InUse, Listed
  <2> QED BY <1>1, <2>1, <2>2, <2>4, <2>5 DEF IInv, Typed, TypeOK
<1> QED BY <1>1, Inductive, PTL

\* An account's queue has no recipe of another account, nor one the user has removed,
\* also after a craft run that strayed (QueuesOwn).
THEOREM QueuesAreOwn == Spec => []QueuesOwn
<1>1. ASSUME IInv, ~overlapped, NEW a \in Accounts, NEW i \in Filled(a)
      PROVE  owner[i] = a /\ i \in wanted
  <2>1. Own(QueueOf(a), a)
    BY <1>1, QueueOfCopy DEF Sound
  <2>2. PICK k \in DOMAIN QueueOf(a) : QueueOf(a)[k].state = "filled" /\ QueueOf(a)[k].id = i
    BY <1>1 DEF Filled
  <2> QED BY <2>1, <2>2 DEF Own
<1>2. IInv => QueuesOwn
  BY <1>1 DEF QueuesOwn
<1> QED BY <1>2, Inductive, PTL

\* No recipe is lost: until it is crafted or removed by the user it is in its account's
\* queue, with its items (RecipesKept).
THEOREM NoRecipeLost == Spec => []RecipesKept
<1>1. ASSUME IInv, ~overlapped, ~strayed, NEW i \in wanted \ crafted PROVE i \in Filled(owner[i])
  <2>1. i \in Recipes /\ owner[i] \in Accounts
    BY <1>1 DEF IInv, Typed, RecipesMade
  <2>2. Complete(QueueOf(owner[i]), owner[i])
    BY <1>1, <2>1, QueueOfCopy DEF Sound
  <2>3. PICK k \in DOMAIN QueueOf(owner[i]) :
           QueueOf(owner[i])[k].id = i /\ QueueOf(owner[i])[k].state = "filled"
    BY <1>1, <2>2 DEF Complete
  <2> QED BY <2>3 DEF Filled
<1>2. IInv => RecipesKept
  BY <1>1 DEF RecipesKept
<1> QED BY <1>2, Inductive, PTL

\* The results of a craft run are entered at the right recipes, and none that the page
\* was told of is offered for execution again (DoneTrue).
THEOREM ResultsTrue == Spec => []DoneTrue
<1>1. ASSUME IInv, ~overlapped, ~strayed, NEW a \in Accounts
      PROVE  Done(a) \subseteq {i \in told : owner[i] = a} /\ Filled(a) \cap told = {}
  <2>1. Own(QueueOf(a), a) /\ Informed(QueueOf(a))
    BY <1>1, QueueOfCopy DEF Sound
  <2>2. ASSUME NEW i \in Done(a) PROVE i \in told /\ owner[i] = a
    <3>1. PICK k \in DOMAIN QueueOf(a) : QueueOf(a)[k].state = "done" /\ QueueOf(a)[k].id = i
      BY <2>2 DEF Done
    <3> QED BY <2>1, <3>1 DEF Own, Informed
  <2>3. ASSUME NEW i \in Filled(a) PROVE i \notin told
    <3>1. PICK k \in DOMAIN QueueOf(a) : QueueOf(a)[k].state = "filled" /\ QueueOf(a)[k].id = i
      BY <2>3 DEF Filled
    <3> QED BY <2>1, <3>1 DEF Informed
  <2> QED BY <2>2, <2>3
<1>2. IInv => DoneTrue
  BY <1>1 DEF DoneTrue
<1> QED BY <1>2, Inductive, PTL
=============================================================================
