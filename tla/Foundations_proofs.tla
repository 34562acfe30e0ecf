------------------------- MODULE Foundations_proofs -------------------------
(***************************************************************************)
(* The parts that the schedulers are built on, for any number of threads,  *)
(* tasks, levels and words of a stack: the spinlock, the lists under it,   *)
(* the switch of contexts, and the tree.                                   *)
(***************************************************************************)
EXTENDS CfsTree, TailQueue, Uthread, DataTheorems

(* The spinlock *)

LockInvariant == SpinlockTypeOK /\ FlagMeansHeld

LEMMA InitLockInvariant == SpinlockInit => LockInvariant
BY DEF SpinlockInit, LockInvariant, SpinlockTypeOK, FlagMeansHeld

(* Only the thread that steps moves, and to "in" only from a clear flag.   *)
LEMMA NextLockInvariant ==
  LockInvariant /\ [SpinlockNext]_lockVars => LockInvariant'
<1> SUFFICES ASSUME LockInvariant, [SpinlockNext]_lockVars PROVE LockInvariant'
  OBVIOUS
<1> USE DEF LockInvariant, SpinlockTypeOK, FlagMeansHeld, Go
<1>1. ASSUME NEW p \in THREADS, spinlock_lock(p) PROVE LockInvariant'
  BY <1>1 DEF spinlock_lock
<1>2. ASSUME NEW p \in THREADS, Spin(p) PROVE LockInvariant'
  BY <1>2 DEF Spin, Exchange
<1>3. ASSUME NEW p \in THREADS, spinlock_try_lock(p) PROVE LockInvariant'
  BY <1>3 DEF spinlock_try_lock, Exchange
<1>4. ASSUME NEW p \in THREADS, spinlock_unlock(p) PROVE LockInvariant'
  BY <1>4 DEF spinlock_unlock, StoreFalse
<1>5. CASE UNCHANGED lockVars
  BY <1>5 DEF lockVars
<1> QED
  BY <1>1, <1>2, <1>3, <1>4, <1>5 DEF SpinlockNext, SpinlockStep

(* The flag and the threads keep to their types, at most one thread is in  *)
(* the lock, and the flag is set exactly while one is (spinlock.c:21-27).  *)
THEOREM SpinlockExcludes == SpinlockSpec => [](SpinlockTypeOK /\ FlagMeansHeld)
<1>1. SpinlockInit => LockInvariant
  BY InitLockInvariant
<1>2. LockInvariant /\ [SpinlockNext]_lockVars => LockInvariant'
  BY NextLockInvariant
<1> QED
  BY <1>1, <1>2, PTL DEF SpinlockSpec, LockInvariant

-----------------------------------------------------------------------------
(* The refinement: Holder is the thread in the lock, or NULL.              *)

LEMMA HolderIsIn ==
  ASSUME LockInvariant
  PROVE  /\ is_locked => Holder \in THREADS /\ at[Holder] = "in"
         /\ ~is_locked => Holder = NULL
         /\ \A p \in THREADS : at[p] = "in" => Holder = p
BY DEF Holder, LockInvariant, FlagMeansHeld

LEMMA HolderIsInNext ==
  ASSUME LockInvariant'
  PROVE  /\ is_locked' => Holder' \in THREADS /\ at'[Holder'] = "in"
         /\ ~is_locked' => Holder' = NULL
         /\ \A p \in THREADS : at'[p] = "in" => Holder' = p
BY DEF Holder, LockInvariant, FlagMeansHeld

LEMMA StepRefinesMutex ==
  LockInvariant /\ LockInvariant' /\ [SpinlockNext]_lockVars
    => [Lock!MutexNext]_Holder
<1> SUFFICES ASSUME LockInvariant, LockInvariant', [SpinlockNext]_lockVars
             PROVE  [Lock!MutexNext]_Holder
  OBVIOUS
<1> USE DEF Go, LockInvariant, SpinlockTypeOK
<1>1. ASSUME NEW p \in THREADS, spinlock_lock(p) PROVE Holder' = Holder
  <2>1. is_locked' = is_locked /\ \A r \in THREADS : at'[r] = "in" <=> at[r] = "in"
    BY <1>1 DEF spinlock_lock
  <2> QED
    BY <2>1, HolderIsIn, HolderIsInNext
<1>2. ASSUME NEW p \in THREADS, NEW failed \in {"spin", "out"}, at[p] # "in",
             Exchange(p, failed)
      PROVE  [Lock!MutexNext]_Holder
  <2>1. CASE is_locked
    <3>1. is_locked' /\ \A r \in THREADS : at'[r] = "in" <=> at[r] = "in"
      BY <1>2, <2>1 DEF Exchange
    <3>2. Holder' = Holder
      BY <2>1, <3>1, HolderIsIn, HolderIsInNext
    <3> QED
      BY <3>2
  <2>2. CASE ~is_locked
    <3>1. at'[p] = "in"
      BY <1>2, <2>2 DEF Exchange
    <3>2. Holder = NULL /\ Holder' = p
      BY <2>2, <3>1, HolderIsIn, HolderIsInNext
    <3> QED
      BY <3>2 DEF Lock!MutexNext, Lock!Acquire
  <2> QED
    BY <2>1, <2>2
<1>3. ASSUME NEW p \in THREADS, spinlock_unlock(p) PROVE [Lock!MutexNext]_Holder
  <2>1. at[p] = "in" /\ ~is_locked'
    BY <1>3 DEF spinlock_unlock, StoreFalse
  <2>2. Holder = p /\ Holder' = NULL
    BY <2>1, HolderIsIn, HolderIsInNext
  <2> QED
    BY <2>2 DEF Lock!MutexNext, Lock!Release
<1>4. CASE UNCHANGED lockVars
  BY <1>4, HolderIsIn, HolderIsInNext DEF lockVars
<1>5. ASSUME NEW p \in THREADS, Spin(p) PROVE [Lock!MutexNext]_Holder
  BY <1>2, <1>5 DEF Spin
<1>6. ASSUME NEW p \in THREADS, spinlock_try_lock(p) PROVE [Lock!MutexNext]_Holder
  BY <1>2, <1>6 DEF spinlock_try_lock
<1> QED
  BY <1>1, <1>3, <1>4, <1>5, <1>6 DEF SpinlockNext, SpinlockStep

(* spinlock.c behaves as a lock that is taken and released in one step, as *)
(* all models of the scheduler use it.                                     *)
THEOREM SpinlockIsMutex == SpinlockSpec => IsMutex
<1>1. SpinlockInit => Lock!MutexInit
  BY InitLockInvariant, HolderIsIn DEF SpinlockInit, Lock!MutexInit
<1>2. LockInvariant /\ LockInvariant' /\ [SpinlockNext]_lockVars
        => [Lock!MutexNext]_Holder
  BY StepRefinesMutex
<1> QED
  BY <1>1, <1>2, InitLockInvariant, NextLockInvariant, PTL
     DEF SpinlockSpec, IsMutex, Lock!MutexSpec

-----------------------------------------------------------------------------
(* The lists of a queue, as sequences L of tasks, and the links that hold  *)
(* them. The i-th cell of list l is its head for i = 0.                    *)

Lists == [l \in LIST_LEVELS |-> ListOf(l)]

Cell(L, l, i) == IF i = 0 THEN l ELSE L[l][i]
CellAfter(L, l, i) == IF i = Len(L[l]) THEN l ELSE L[l][i + 1]

Once(L) ==
  \A l, m \in LIST_LEVELS :
    \A i \in 1 .. Len(L[l]), j \in 1 .. Len(L[m]) :
      L[l][i] = L[m][j] => l = m /\ i = j

Sequences == [LIST_LEVELS -> Seq(LIST_TASKS)]

Within(L, t) == \E l \in LIST_LEVELS : \E i \in 1 .. Len(L[l]) : L[l][i] = t

(* next gives the cell after a cell, and NULL after the last one.          *)
Forward(links, L) ==
  \A l \in LIST_LEVELS : \A i \in 0 .. Len(L[l]) :
    links[Cell(L, l, i)] = IF i = Len(L[l]) THEN NULL ELSE L[l][i + 1]

(* prev of the cell after the i-th, for which the head stands in after the *)
(* last, is the i-th.                                                      *)
Back(links, L, l, i) == links[CellAfter(L, l, i)] = Cell(L, l, i)

BackBut(links, L, m, n) ==
  \A l \in LIST_LEVELS : \A i \in 0 .. Len(L[l]) :
    l # m \/ i # n => Back(links, L, l, i)

Backward(links, L) ==
  \A l \in LIST_LEVELS : \A i \in 0 .. Len(L[l]) : Back(links, L, l, i)

-----------------------------------------------------------------------------
(* Where a thread is, and what it has in hand.                             *)

Places(p) ==
  /\ at[p] = "out" <=> job[p] = "none"
  /\ at[p] = "out" => pos[p] = "start"
  /\ at[p] = "spin" => \/ job[p] = "insert" /\ pos[p] = "next"
                       \/ job[p] = "dequeue" /\ pos[p] = "look" /\ level[p] = 0
  /\ at[p] = "in" => \/ /\ job[p] = "insert"
                        /\ pos[p] \in {"next", "prev", "store", "last", "unlock"}
                     \/ /\ job[p] \in {"dequeue", "steal"}
                        /\ pos[p] \in {"look", "back", "forth", "unlock"}
  /\ job[p] = "insert" => (elm[p] = NULL <=> pos[p] = "unlock")
  /\ pos[p] = "look" => elm[p] = NULL
  /\ pos[p] \in {"back", "forth"} => elm[p] # NULL

Ahead == {"last", "back", "forth"}

Owned ==
  /\ \A p \in THREADS : Places(p)
  /\ \A p, r \in THREADS : p # r /\ elm[p] # NULL => elm[p] # elm[r]

(* A task in hand is in no list, but while its insertion or its removal is *)
(* under way.                                                              *)
Apart(L) ==
  \A p \in THREADS : elm[p] # NULL /\ pos[p] \notin Ahead => ~Within(L, elm[p])

(* The i-th task of its list is the one a thread removes.                  *)
Index(L, p) == IF job[p] = "steal" THEN Len(L[level[p]]) ELSE 1

Passed(p, k) == IF job[p] = "steal" THEN k > level[p] ELSE k < level[p]

(* What a thread has established in the lock.                              *)
Progress(L, p) ==
  /\ pos[p] \in {"prev", "store"} => next[elm[p]] = NULL
  /\ pos[p] = "store" => prev[elm[p]] = Cell(L, level[p], Len(L[level[p]]))
  /\ pos[p] = "last" =>
       /\ L[level[p]] # <<>> /\ L[level[p]][Len(L[level[p]])] = elm[p]
       /\ BackBut(prev, L, level[p], Len(L[level[p]]))
  /\ pos[p] \in {"look", "back", "forth"} =>
       \A k \in LIST_LEVELS : Passed(p, k) => L[k] = <<>>
  /\ pos[p] \in {"back", "forth"} =>
       L[level[p]] # <<>> /\ L[level[p]][Index(L, p)] = elm[p]
  /\ pos[p] = "forth" =>
       /\ BackBut(prev, L, level[p], Index(L, p))
       /\ prev[CellAfter(L, level[p], Index(L, p))] =
            Cell(L, level[p], Index(L, p) - 1)

(* Both directions agree unless an update is under way.                    *)
Settled(L) ==
  (\A p \in THREADS : pos[p] \notin {"last", "forth"}) => Backward(prev, L)

Linking(L) ==
  /\ Once(L) /\ Forward(next, L)
  /\ Apart(L) /\ Settled(L)
  /\ \A p \in THREADS : at[p] = "in" => Progress(L, p)

Held == ListTypeOK /\ FlagMeansHeld /\ Owned

QueueInvariant == Held /\ \E L \in Sequences : Linking(L)

-----------------------------------------------------------------------------
(* What a run of links is.                                                 *)

LEMMA ListsFollow ==
  ASSUME NEW links, NEW L \in Sequences, Once(L), Forward(links, L),
         NEW l \in LIST_LEVELS
  PROVE  ListFrom(links, l) = L[l]
<1>. DEFINE s == L[l]
<1>0. s \in Seq(LIST_TASKS) /\ Len(s) \in Nat
  BY DEF Sequences
<1>1. Follows(links, l, s)
  <2>. SUFFICES ASSUME NEW i \in 1 .. Len(s)
                PROVE  s[i] = links[IF i = 1 THEN l ELSE s[i - 1]]
    BY DEF Follows
  <2>1. i - 1 \in 0 .. Len(s) /\ i - 1 # Len(s)
    BY <1>0
  <2>2. links[Cell(L, l, i - 1)] = s[(i - 1) + 1]
    BY <2>1 DEF Forward
  <2>. QED  BY <1>0, <2>2 DEF Cell
<1>2. s \in Runs
  <2>1. s \in [1 .. Len(s) -> LIST_TASKS]
    BY <1>0
  <2>2. s \in Injection(1 .. Len(s), LIST_TASKS)
    BY <2>1 DEF Injection, IsInjective, Once
  <2>3. IsFiniteSet(1 .. Len(s)) /\ Cardinality(1 .. Len(s)) = Len(s)
    BY <1>0, FS_Interval
  <2>4. Len(s) <= Cardinality(LIST_TASKS)
    <3>. HIDE DEF s
    <3>. QED  BY <2>2, <2>3, FS_Injection, ListAssumption
  <2>5. Cardinality(LIST_TASKS) \in Nat
    BY FS_CardinalityType, ListAssumption
  <2>6. Len(s) \in 0 .. Cardinality(LIST_TASKS)
    BY <1>0, <2>4, <2>5
  <2>. QED  BY <2>1, <2>6 DEF Runs
<1>3. ASSUME NEW t \in Runs, Follows(links, l, t)
      PROVE  /\ Len(t) \in Nat /\ t \in [1 .. Len(t) -> LIST_TASKS]
             /\ Len(t) <= Len(s) /\ \A i \in 1 .. Len(t) : t[i] = s[i]
  <2>1. PICK m \in Nat : t \in [1 .. m -> LIST_TASKS]
    <3>1. PICK m \in 0 .. Cardinality(LIST_TASKS) : t \in [1 .. m -> LIST_TASKS]
      BY DEF Runs
    <3>. QED  BY <3>1
  <2>2. Len(t) = m /\ t \in Seq(LIST_TASKS)
    BY <2>1
  <2>. DEFINE S == {n \in Nat : n <= m => n <= Len(s) /\ (n > 0 => t[n] = s[n])}
  <2>3. 0 \in S
    BY <1>0
  <2>4. ASSUME NEW n \in Nat, n \in S PROVE n + 1 \in S
    <3>. SUFFICES ASSUME n + 1 <= m
                  PROVE  n + 1 <= Len(s) /\ t[n + 1] = s[n + 1]
      OBVIOUS
    <3>1. n <= Len(s) /\ (n > 0 => t[n] = s[n])
      BY <2>4
    <3>2. n + 1 \in 1 .. Len(t) /\ n \in 0 .. Len(s)
      BY <1>0, <2>2, <3>1
    <3>3. t[n + 1] = links[IF n + 1 = 1 THEN l ELSE t[(n + 1) - 1]]
      BY <1>3, <3>2 DEF Follows
    <3>4. t[n + 1] = links[Cell(L, l, n)]
      BY <3>1, <3>3 DEF Cell
    <3>5. t[n + 1] \in LIST_TASKS
      BY <2>1, <2>2, <3>2
    <3>6. links[Cell(L, l, n)] = IF n = Len(s) THEN NULL ELSE s[n + 1]
      BY <3>2 DEF Forward
    <3>7. n # Len(s)
      BY <3>4, <3>5, <3>6, ListAssumption
    <3>. QED  BY <1>0, <3>1, <3>4, <3>6, <3>7
  <2>. HIDE DEF S
  <2>5. Nat \subseteq S
    BY <2>3, <2>4, NatSetInduction
  <2>6. \A n \in Nat : n <= m => n <= Len(s) /\ (n > 0 => t[n] = s[n])
    BY <2>5 DEF S
  <2>. QED  BY <2>1, <2>2, <2>6
<1>4. \E run \in Runs : /\ Follows(links, l, run)
                      /\ \A t \in Runs : Follows(links, l, t) => Len(t) <= Len(run)
  BY <1>1, <1>2, <1>3
<1>5. PICK run \in Runs :
        /\ run = ListFrom(links, l)
        /\ Follows(links, l, run)
        /\ \A t \in Runs : Follows(links, l, t) => Len(t) <= Len(run)
  BY <1>4 DEF ListFrom
<1>6. Len(run) = Len(s)
  BY <1>0, <1>1, <1>2, <1>3, <1>5
<1>7. run \in [1 .. Len(s) -> LIST_TASKS] /\ \A i \in 1 .. Len(s) : run[i] = s[i]
  BY <1>3, <1>5, <1>6
<1>8. s \in [1 .. Len(s) -> LIST_TASKS]
  BY <1>0
<1>. QED  BY <1>5, <1>7, <1>8

LEMMA ListsAre ==
  ASSUME NEW links, NEW L \in Sequences, Once(L), Forward(links, L)
  PROVE  [l \in LIST_LEVELS |-> ListFrom(links, l)] = L
BY ListsFollow DEF Sequences

-----------------------------------------------------------------------------
(* Cells are met once: a link has one place in the lists.                  *)

LEMMA CellTypes ==
  ASSUME NEW L \in Sequences, NEW l \in LIST_LEVELS
  PROVE  /\ L[l] \in Seq(LIST_TASKS) /\ Len(L[l]) \in Nat
         /\ \A i \in 1 .. Len(L[l]) : Cell(L, l, i) = L[l][i] /\ L[l][i] \in LIST_TASKS
         /\ Cell(L, l, 0) = l
         /\ \A i \in 0 .. Len(L[l]) : Cell(L, l, i) \in Cells /\ CellAfter(L, l, i) \in Cells
BY DEF Sequences, Cell, CellAfter, Cells

LEMMA CellsOnce ==
  ASSUME NEW L \in Sequences, Once(L), NEW l \in LIST_LEVELS, NEW m \in LIST_LEVELS,
         NEW i \in 0 .. Len(L[l]), NEW j \in 0 .. Len(L[m])
  PROVE  /\ Cell(L, l, i) = Cell(L, m, j) => l = m /\ i = j
         /\ CellAfter(L, l, i) = CellAfter(L, m, j) => l = m /\ i = j
<1>1. /\ Len(L[l]) \in Nat /\ \A k \in 1 .. Len(L[l]) : L[l][k] \in LIST_TASKS
      /\ Len(L[m]) \in Nat /\ \A k \in 1 .. Len(L[m]) : L[m][k] \in LIST_TASKS
  BY CellTypes
<1>2. l \notin LIST_TASKS /\ m \notin LIST_TASKS
  BY ListAssumption
<1>3. ASSUME Cell(L, l, i) = Cell(L, m, j) PROVE l = m /\ i = j
  BY <1>1, <1>2, <1>3 DEF Cell, Once
<1>4. ASSUME CellAfter(L, l, i) = CellAfter(L, m, j) PROVE l = m /\ i = j
  <2>1. CASE i = Len(L[l]) \/ j = Len(L[m])
    BY <1>1, <1>2, <1>4, <2>1 DEF CellAfter
  <2>2. CASE i # Len(L[l]) /\ j # Len(L[m])
    <3>1. i + 1 \in 1 .. Len(L[l]) /\ j + 1 \in 1 .. Len(L[m])
      BY <1>1, <2>2
    <3>2. l = m /\ i + 1 = j + 1
      BY <1>4, <2>2, <3>1 DEF CellAfter, Once
    <3>. QED  BY <3>2
  <2>. QED  BY <2>1, <2>2
<1>. QED  BY <1>3, <1>4

(* A task outside the lists has no cell in them.                           *)
LEMMA NoCell ==
  ASSUME NEW L \in Sequences, NEW t \in LIST_TASKS, ~Within(L, t),
         NEW l \in LIST_LEVELS, NEW i \in 0 .. Len(L[l])
  PROVE  Cell(L, l, i) # t /\ CellAfter(L, l, i) # t
<1>1. l # t /\ Len(L[l]) \in Nat
  BY CellTypes, ListAssumption
<1>. QED  BY <1>1 DEF Cell, CellAfter, Within

-----------------------------------------------------------------------------
(* The stores of TAILQ_INSERT_TAIL.                                        *)

Appended(L, l, t) == [L EXCEPT ![l] = Append(L[l], t)]

LEMMA AppendCells ==
  ASSUME NEW L \in Sequences, Once(L), NEW l \in LIST_LEVELS, NEW t \in LIST_TASKS,
         ~Within(L, t)
  PROVE  /\ Appended(L, l, t) \in Sequences
         /\ \A m \in LIST_LEVELS : m # l => Appended(L, l, t)[m] = L[m]
         /\ Len(Appended(L, l, t)[l]) = Len(L[l]) + 1
         /\ Appended(L, l, t)[l][Len(L[l]) + 1] = t
         /\ \A i \in 1 .. Len(L[l]) : Appended(L, l, t)[l][i] = L[l][i]
         /\ Once(Appended(L, l, t))
         /\ \A u : Within(Appended(L, l, t), u) <=> Within(L, u) \/ u = t
<1>. DEFINE M == Appended(L, l, t)
<1>1. L[l] \in Seq(LIST_TASKS) /\ Len(L[l]) \in Nat
  BY CellTypes
<1>2. M[l] = Append(L[l], t) /\ \A m \in LIST_LEVELS : m # l => M[m] = L[m]
  BY DEF Appended, Sequences
<1>3. M \in Sequences
  BY <1>1 DEF Appended, Sequences
<1>4. /\ Len(M[l]) = Len(L[l]) + 1 /\ M[l][Len(L[l]) + 1] = t
      /\ \A i \in 1 .. Len(L[l]) : M[l][i] = L[l][i]
  BY <1>1, <1>2
<1>. HIDE DEF M
<1>5. ASSUME NEW m \in LIST_LEVELS, NEW i \in 1 .. Len(M[m])
      PROVE  \/ i \in 1 .. Len(L[m]) /\ M[m][i] = L[m][i]
             \/ m = l /\ i = Len(L[l]) + 1 /\ M[m][i] = t
  <2>1. CASE m # l
    BY <1>2, <2>1
  <2>2. CASE m = l
    <3>1. i \in 1 .. Len(L[l]) \/ i = Len(L[l]) + 1
      BY <1>1, <1>4, <2>2
    <3>. QED  BY <1>4, <2>2, <3>1
  <2>. QED  BY <2>1, <2>2
<1>6. Once(M)
  <2>. SUFFICES ASSUME NEW k \in LIST_LEVELS, NEW m \in LIST_LEVELS,
                       NEW i \in 1 .. Len(M[k]), NEW j \in 1 .. Len(M[m]),
                       M[k][i] = M[m][j]
                PROVE  k = m /\ i = j
    BY DEF Once
  <2>1. CASE i \in 1 .. Len(L[k]) /\ M[k][i] = L[k][i]
    <3>1. M[k][i] # t
      BY <2>1 DEF Within
    <3>2. j \in 1 .. Len(L[m]) /\ M[m][j] = L[m][j]
      BY <1>5, <3>1
    <3>3. L[k][i] = L[m][j]
      BY <2>1, <3>2
    <3>. QED  BY <2>1, <3>2, <3>3 DEF Once
  <2>2. CASE k = l /\ i = Len(L[l]) + 1 /\ M[k][i] = t
    <3>1. ~(j \in 1 .. Len(L[m]) /\ M[m][j] = L[m][j])
      BY <2>2 DEF Within
    <3>. QED  BY <1>5, <2>2, <3>1
  <2>. QED  BY <1>5, <2>1, <2>2
<1>7. ASSUME NEW u PROVE Within(M, u) <=> Within(L, u) \/ u = t
  <2>1. Within(M, u) => Within(L, u) \/ u = t
    BY <1>5 DEF Within
  <2>2. Within(M, t)
    <3>1. Len(L[l]) + 1 \in 1 .. Len(M[l])
      BY <1>1, <1>4
    <3>. QED  BY <1>4, <3>1 DEF Within
  <2>3. ASSUME Within(L, u) PROVE Within(M, u)
    <3>0. PICK m \in LIST_LEVELS : \E i \in 1 .. Len(L[m]) : L[m][i] = u
      BY <2>3 DEF Within
    <3>1. PICK i \in 1 .. Len(L[m]) : L[m][i] = u
      BY <3>0
    <3>2. i \in 1 .. Len(M[m]) /\ M[m][i] = u
      BY <1>1, <1>2, <1>4, <3>1
    <3>. QED  BY <3>2 DEF Within
  <2>. QED  BY <2>1, <2>2, <2>3
<1>. QED  BY <1>2, <1>3, <1>4, <1>6, <1>7 DEF M

LEMMA AppendForward ==
  ASSUME NEW L \in Sequences, Once(L), NEW l \in LIST_LEVELS, NEW t \in LIST_TASKS,
         ~Within(L, t),
         NEW links \in [Cells -> LIST_TASKS \cup {NULL}], Forward(links, L), links[t] = NULL
  PROVE  Forward([links EXCEPT ![Cell(L, l, Len(L[l]))] = t], Appended(L, l, t))
<1>. DEFINE M == Appended(L, l, t)
            c == Cell(L, l, Len(L[l]))
            new == [links EXCEPT ![c] = t]
<1>1. Len(L[l]) \in Nat /\ c \in Cells /\ t \in Cells
  BY CellTypes DEF Cells
<1>2. new[c] = t /\ \A d \in Cells : d # c => new[d] = links[d]
  BY <1>1
<1>3. /\ \A m \in LIST_LEVELS : m # l => M[m] = L[m]
      /\ Len(M[l]) = Len(L[l]) + 1
      /\ M[l][Len(L[l]) + 1] = t
      /\ \A i \in 1 .. Len(L[l]) : M[l][i] = L[l][i]
  BY AppendCells
<1>. HIDE DEF M, new, c
<1>. SUFFICES ASSUME NEW m \in LIST_LEVELS, NEW i \in 0 .. Len(M[m])
              PROVE  new[Cell(M, m, i)] = IF i = Len(M[m]) THEN NULL ELSE M[m][i + 1]
  BY DEF Forward, M, new, c
<1>4. CASE m # l
  <2>1. M[m] = L[m] /\ Cell(M, m, i) = Cell(L, m, i)
    BY <1>3, <1>4 DEF Cell
  <2>2. Cell(L, m, i) # c /\ Cell(L, m, i) \in Cells
    BY <1>1, <1>4, <2>1, CellsOnce, CellTypes DEF c
  <2>3. links[Cell(L, m, i)] = IF i = Len(L[m]) THEN NULL ELSE L[m][i + 1]
    BY <2>1 DEF Forward
  <2>. QED  BY <1>2, <2>1, <2>2, <2>3
<1>5. CASE m = l /\ i < Len(L[l])
  <2>1. i \in 0 .. Len(L[l]) /\ Cell(M, l, i) = Cell(L, l, i)
    BY <1>1, <1>3, <1>5 DEF Cell
  <2>2. Cell(L, l, i) # c /\ Cell(L, l, i) \in Cells
    BY <1>1, <1>5, <2>1, CellsOnce, CellTypes DEF c
  <2>3. links[Cell(L, l, i)] = L[l][i + 1]
    BY <1>5, <2>1 DEF Forward
  <2>4. i + 1 \in 1 .. Len(L[l]) /\ i # Len(M[l])
    BY <1>1, <1>3, <1>5
  <2>. QED  BY <1>2, <1>3, <1>5, <2>1, <2>2, <2>3, <2>4
<1>6. CASE m = l /\ i = Len(L[l])
  <2>1. Cell(M, l, i) = c
    BY <1>1, <1>3, <1>6 DEF Cell, c
  <2>. QED  BY <1>1, <1>2, <1>3, <1>6, <2>1
<1>7. CASE m = l /\ i = Len(L[l]) + 1
  <2>1. Cell(M, l, i) = t
    BY <1>1, <1>3, <1>7 DEF Cell
  <2>2. t # c
    BY <1>1, NoCell DEF c
  <2>. QED  BY <1>1, <1>2, <1>3, <1>7, <2>1, <2>2
<1>. QED  BY <1>1, <1>3, <1>4, <1>5, <1>6, <1>7

LEMMA AppendBack ==
  ASSUME NEW L \in Sequences, Once(L), NEW l \in LIST_LEVELS, NEW t \in LIST_TASKS,
         ~Within(L, t), NEW links, Backward(links, L),
         links[t] = Cell(L, l, Len(L[l]))
  PROVE  BackBut(links, Appended(L, l, t), l, Len(L[l]) + 1)
<1>. DEFINE M == Appended(L, l, t)
<1>1. Len(L[l]) \in Nat
  BY CellTypes
<1>2. /\ \A m \in LIST_LEVELS : m # l => M[m] = L[m]
      /\ Len(M[l]) = Len(L[l]) + 1
      /\ M[l][Len(L[l]) + 1] = t
      /\ \A i \in 1 .. Len(L[l]) : M[l][i] = L[l][i]
  BY AppendCells
<1>. HIDE DEF M
<1>. SUFFICES ASSUME NEW m \in LIST_LEVELS, NEW i \in 0 .. Len(M[m]),
                     m # l \/ i # Len(L[l]) + 1
              PROVE  links[CellAfter(M, m, i)] = Cell(M, m, i)
  BY DEF BackBut, Back, M
<1>3. CASE m # l
  BY <1>2, <1>3 DEF Backward, Back, CellAfter, Cell
<1>4. CASE m = l /\ i < Len(L[l])
  <2>1. /\ CellAfter(M, l, i) = CellAfter(L, l, i) /\ Cell(M, l, i) = Cell(L, l, i)
        /\ i \in 0 .. Len(L[l])
    BY <1>1, <1>2, <1>4 DEF CellAfter, Cell
  <2>. QED  BY <1>4, <2>1 DEF Backward, Back
<1>5. CASE m = l /\ i = Len(L[l])
  BY <1>1, <1>2, <1>5 DEF CellAfter, Cell
<1>. QED  BY <1>1, <1>2, <1>3, <1>4, <1>5

LEMMA LastBack ==
  ASSUME NEW L \in Sequences, Once(L), NEW l \in LIST_LEVELS, L[l] # <<>>,
         NEW links \in [Cells -> Cells \cup {NULL}], BackBut(links, L, l, Len(L[l]))
  PROVE  Backward([links EXCEPT ![l] = L[l][Len(L[l])]], L)
<1>1. Len(L[l]) \in Nat \ {0}
  BY CellTypes
<1>2. CellAfter(L, l, Len(L[l])) = l /\ Cell(L, l, Len(L[l])) = L[l][Len(L[l])]
  BY <1>1 DEF CellAfter, Cell
<1>. DEFINE new == [links EXCEPT ![l] = L[l][Len(L[l])]]
<1>3. l \in Cells /\ new[l] = L[l][Len(L[l])] /\ \A d \in Cells : d # l => new[d] = links[d]
  BY DEF Cells
<1>. HIDE DEF new
<1>. SUFFICES ASSUME NEW m \in LIST_LEVELS, NEW i \in 0 .. Len(L[m])
              PROVE  new[CellAfter(L, m, i)] = Cell(L, m, i)
  BY DEF Backward, Back, new
<1>4. CASE m = l /\ i = Len(L[l])
  BY <1>2, <1>3, <1>4
<1>5. CASE m # l \/ i # Len(L[l])
  <2>1. Len(L[l]) \in 0 .. Len(L[l])
    BY <1>1
  <2>2. CellAfter(L, m, i) # l /\ CellAfter(L, m, i) \in Cells
    BY <1>2, <1>5, <2>1, CellsOnce, CellTypes
  <2>3. links[CellAfter(L, m, i)] = Cell(L, m, i)
    BY <1>5 DEF BackBut, Back
  <2>. QED  BY <1>3, <2>2, <2>3
<1>. QED  BY <1>4, <1>5

-----------------------------------------------------------------------------
(* The stores of TAILQ_REMOVE, for the n-th task of a list.                *)

Removed(L, l, n) ==
  [L EXCEPT ![l] = [k \in 1 .. Len(L[l]) - 1 |-> L[l][IF k < n THEN k ELSE k + 1]]]

LEMMA RemoveCells ==
  ASSUME NEW L \in Sequences, Once(L), NEW l \in LIST_LEVELS, NEW n \in 1 .. Len(L[l])
  PROVE  /\ Removed(L, l, n) \in Sequences
         /\ \A m \in LIST_LEVELS : m # l => Removed(L, l, n)[m] = L[m]
         /\ Len(Removed(L, l, n)[l]) = Len(L[l]) - 1
         /\ \A k \in 1 .. Len(L[l]) - 1 :
              Removed(L, l, n)[l][k] = L[l][IF k < n THEN k ELSE k + 1]
         /\ Once(Removed(L, l, n))
         /\ \A u : Within(Removed(L, l, n), u) => Within(L, u) /\ u # L[l][n]
<1>. DEFINE R == Removed(L, l, n)
            f == [k \in 1 .. Len(L[l]) - 1 |-> L[l][IF k < n THEN k ELSE k + 1]]
<1>1. /\ L[l] \in Seq(LIST_TASKS) /\ Len(L[l]) \in Nat \ {0}
      /\ \A i \in 1 .. Len(L[l]) : L[l][i] \in LIST_TASKS
  BY CellTypes
<1>2. f \in Seq(LIST_TASKS) /\ Len(f) = Len(L[l]) - 1
  <2>1. Len(L[l]) - 1 \in Nat
    BY <1>1
  <2>2. f \in [1 .. Len(L[l]) - 1 -> LIST_TASKS]
    BY <1>1
  <2>. HIDE DEF f
  <2>. QED  BY <2>1, <2>2
<1>3. R[l] = f /\ \A m \in LIST_LEVELS : m # l => R[m] = L[m]
  BY DEF Removed, Sequences
<1>4. R \in Sequences
  BY <1>2 DEF Removed, Sequences
<1>5. \A k \in 1 .. Len(L[l]) - 1 : R[l][k] = L[l][IF k < n THEN k ELSE k + 1]
  BY <1>3
<1>6. Len(R[l]) = Len(L[l]) - 1
  BY <1>2, <1>3
<1>. HIDE DEF R, f
<1>. DEFINE Origin(m, i) == IF m = l /\ i >= n THEN i + 1 ELSE i
<1>7. ASSUME NEW m \in LIST_LEVELS, NEW i \in 1 .. Len(R[m])
      PROVE  /\ Origin(m, i) \in 1 .. Len(L[m]) /\ R[m][i] = L[m][Origin(m, i)]
             /\ m # l \/ Origin(m, i) # n
  <2>1. CASE m # l
    BY <1>3, <2>1
  <2>2. CASE m = l
    <3>1. i \in 1 .. Len(L[l]) - 1
      BY <1>6, <2>2
    <3>. QED  BY <1>1, <1>5, <2>2, <3>1
  <2>. QED  BY <2>1, <2>2
<1>8. Once(R)
  <2>. SUFFICES ASSUME NEW k \in LIST_LEVELS, NEW m \in LIST_LEVELS,
                       NEW i \in 1 .. Len(R[k]), NEW j \in 1 .. Len(R[m]),
                       R[k][i] = R[m][j]
                PROVE  k = m /\ i = j
    BY DEF Once
  <2>1. L[k][Origin(k, i)] = L[m][Origin(m, j)]
    BY <1>7
  <2>2. k = m /\ Origin(k, i) = Origin(m, j)
    <3>1. Origin(k, i) \in 1 .. Len(L[k]) /\ Origin(m, j) \in 1 .. Len(L[m])
      BY <1>7
    <3>. HIDE DEF Origin
    <3>. QED  BY <2>1, <3>1 DEF Once
  <2>. QED  BY <2>2
<1>9. ASSUME NEW u, Within(R, u) PROVE Within(L, u) /\ u # L[l][n]
  <2>1. PICK m \in LIST_LEVELS : \E i \in 1 .. Len(R[m]) : R[m][i] = u
    BY <1>9 DEF Within
  <2>2. PICK i \in 1 .. Len(R[m]) : R[m][i] = u
    BY <2>1
  <2>3. PICK j \in 1 .. Len(L[m]) : L[m][j] = u /\ (m # l \/ j # n)
    BY <1>7, <2>2
  <2>. QED  BY <2>3 DEF Within, Once
<1>. QED  BY <1>3, <1>4, <1>5, <1>6, <1>8, <1>9 DEF R

(* Where the cells of the shorter list were.                               *)
LEMMA RemoveMoves ==
  ASSUME NEW L \in Sequences, Once(L), NEW l \in LIST_LEVELS, NEW n \in 1 .. Len(L[l]),
         NEW k \in 0 .. Len(L[l]) - 1
  PROVE  /\ Cell(Removed(L, l, n), l, k) = Cell(L, l, IF k < n THEN k ELSE k + 1)
         /\ CellAfter(Removed(L, l, n), l, k) = CellAfter(L, l, IF k < n - 1 THEN k ELSE k + 1)
<1>. DEFINE R == Removed(L, l, n)
<1>0. Len(L[l]) \in Nat
  BY CellTypes
<1>1. /\ Len(L[l]) \in Nat /\ Len(R[l]) = Len(L[l]) - 1
      /\ \A i \in 1 .. Len(L[l]) - 1 : R[l][i] = L[l][IF i < n THEN i ELSE i + 1]
  BY <1>0, RemoveCells
<1>. HIDE DEF R
<1>2. Cell(R, l, k) = Cell(L, l, IF k < n THEN k ELSE k + 1)
  BY <1>1 DEF Cell
<1>3. CellAfter(R, l, k) = CellAfter(L, l, IF k < n - 1 THEN k ELSE k + 1)
  <2>1. CASE k = Len(L[l]) - 1
    BY <1>1, <2>1 DEF CellAfter
  <2>2. CASE k < Len(L[l]) - 1
    <3>1. k + 1 \in 1 .. Len(L[l]) - 1 /\ k # Len(R[l])
      BY <1>1, <2>2
    <3>2. R[l][k + 1] = L[l][IF k + 1 < n THEN k + 1 ELSE (k + 1) + 1]
      BY <1>1, <3>1
    <3>. QED  BY <1>1, <2>2, <3>1, <3>2 DEF CellAfter
  <2>. QED  BY <1>1, <2>1, <2>2
<1>. QED  BY <1>2, <1>3 DEF R

LEMMA RemoveForward ==
  ASSUME NEW L \in Sequences, Once(L), NEW l \in LIST_LEVELS, NEW n \in 1 .. Len(L[l]),
         NEW links \in [Cells -> LIST_TASKS \cup {NULL}], Forward(links, L)
  PROVE  Forward([links EXCEPT ![Cell(L, l, n - 1)] = links[L[l][n]]], Removed(L, l, n))
<1>. DEFINE R == Removed(L, l, n)
            c == Cell(L, l, n - 1)
            new == [links EXCEPT ![c] = links[L[l][n]]]
            After(i) == IF i = Len(L[l]) THEN NULL ELSE L[l][i + 1]
<1>1. Len(L[l]) \in Nat /\ n - 1 \in 0 .. Len(L[l]) /\ n \in 0 .. Len(L[l])
  BY CellTypes
<1>2. c \in Cells
  BY <1>1, CellTypes
<1>3. new[c] = links[L[l][n]] /\ \A d \in Cells : d # c => new[d] = links[d]
  BY <1>2
<1>4. /\ \A m \in LIST_LEVELS : m # l => R[m] = L[m]
      /\ Len(R[l]) = Len(L[l]) - 1
      /\ \A k \in 1 .. Len(L[l]) - 1 : R[l][k] = L[l][IF k < n THEN k ELSE k + 1]
  BY RemoveCells
<1>5. \A i \in 0 .. Len(L[l]) : links[Cell(L, l, i)] = After(i)
  BY DEF Forward
<1>6. \A k \in 0 .. Len(L[l]) - 1 : Cell(R, l, k) = Cell(L, l, IF k < n THEN k ELSE k + 1)
  BY RemoveMoves
<1>. HIDE DEF R, new
<1>. SUFFICES ASSUME NEW m \in LIST_LEVELS, NEW k \in 0 .. Len(R[m])
              PROVE  new[Cell(R, m, k)] = IF k = Len(R[m]) THEN NULL ELSE R[m][k + 1]
  BY DEF Forward, R, new
<1>7. CASE m # l
  <2>1. R[m] = L[m] /\ Cell(R, m, k) = Cell(L, m, k)
    BY <1>4, <1>7 DEF Cell
  <2>2. Cell(L, m, k) # c /\ Cell(L, m, k) \in Cells
    BY <1>1, <1>7, <2>1, CellsOnce, CellTypes
  <2>3. links[Cell(L, m, k)] = IF k = Len(L[m]) THEN NULL ELSE L[m][k + 1]
    BY <2>1 DEF Forward
  <2>. QED  BY <1>3, <2>1, <2>2, <2>3
<1>8. CASE m = l
  <2>0. k \in 0 .. Len(L[l]) - 1
    BY <1>4, <1>8
  <2>1. k # Len(R[l]) => k + 1 \in 1 .. Len(L[l]) - 1
    BY <1>1, <1>4, <2>0
  <2>2. CASE k = n - 1
    <3>1. Cell(R, l, k) = c
      BY <1>6, <2>0, <2>2
    <3>2. Cell(L, l, n) = L[l][n]
      BY <1>1 DEF Cell
    <3>3. new[Cell(R, l, k)] = After(n)
      BY <1>1, <1>3, <1>5, <3>1, <3>2
    <3>4. k # Len(R[l]) => R[l][k + 1] = L[l][n + 1]
      BY <1>1, <1>4, <2>1, <2>2
    <3>. QED  BY <1>1, <1>4, <1>8, <2>2, <3>3, <3>4
  <2>3. CASE k # n - 1
    <3>. DEFINE j == IF k < n THEN k ELSE k + 1
    <3>1. j \in 0 .. Len(L[l]) /\ j # n - 1
      BY <1>1, <2>0, <2>3
    <3>2. Cell(L, l, j) # c /\ Cell(L, l, j) \in Cells
      <4>. HIDE DEF j
      <4>. QED  BY <1>1, <3>1, CellsOnce, CellTypes
    <3>3. new[Cell(R, l, k)] = After(j)
      BY <1>3, <1>5, <1>6, <2>0, <3>1, <3>2
    <3>4. k # Len(R[l]) => R[l][k + 1] = L[l][j + 1]
      BY <1>1, <1>4, <2>0, <2>1, <2>3
    <3>5. k = Len(R[l]) <=> j = Len(L[l])
      BY <1>1, <1>4, <2>0, <2>3
    <3>. QED  BY <1>8, <3>3, <3>4, <3>5
  <2>. QED  BY <2>2, <2>3
<1>. QED  BY <1>7, <1>8

LEMMA RemoveBackStore ==
  ASSUME NEW L \in Sequences, Once(L), NEW l \in LIST_LEVELS, NEW n \in 1 .. Len(L[l]),
         NEW links \in [Cells -> Cells \cup {NULL}], Backward(links, L), NEW new,
         new = [links EXCEPT ![CellAfter(L, l, n)] = Cell(L, l, n - 1)]
  PROVE  BackBut(new, L, l, n) /\ new[CellAfter(L, l, n)] = Cell(L, l, n - 1)
<1>1. n \in 0 .. Len(L[l])
  BY CellTypes
<1>. DEFINE c == CellAfter(L, l, n)
<1>2. c \in Cells
  BY <1>1, CellTypes
<1>3. new[c] = Cell(L, l, n - 1) /\ \A d \in Cells : d # c => new[d] = links[d]
  BY <1>2
<1>4. ASSUME NEW m \in LIST_LEVELS, NEW i \in 0 .. Len(L[m]), m # l \/ i # n
      PROVE  new[CellAfter(L, m, i)] = Cell(L, m, i)
  <2>1. CellAfter(L, m, i) # c /\ CellAfter(L, m, i) \in Cells
    BY <1>1, <1>4, CellsOnce, CellTypes
  <2>2. links[CellAfter(L, m, i)] = Cell(L, m, i)
    BY DEF Backward, Back
  <2>. QED  BY <1>3, <2>1, <2>2
<1>. QED  BY <1>3, <1>4 DEF BackBut, Back

LEMMA RemoveBackward ==
  ASSUME NEW L \in Sequences, Once(L), NEW l \in LIST_LEVELS, NEW n \in 1 .. Len(L[l]),
         NEW links, BackBut(links, L, l, n), links[CellAfter(L, l, n)] = Cell(L, l, n - 1)
  PROVE  Backward(links, Removed(L, l, n))
<1>. DEFINE R == Removed(L, l, n)
<1>1. /\ Len(L[l]) \in Nat /\ Len(R[l]) = Len(L[l]) - 1
      /\ \A m \in LIST_LEVELS : m # l => R[m] = L[m]
  BY CellTypes, RemoveCells
<1>2. \A k \in 0 .. Len(L[l]) - 1 :
        /\ Cell(R, l, k) = Cell(L, l, IF k < n THEN k ELSE k + 1)
        /\ CellAfter(R, l, k) = CellAfter(L, l, IF k < n - 1 THEN k ELSE k + 1)
  BY RemoveMoves
<1>. HIDE DEF R
<1>. SUFFICES ASSUME NEW m \in LIST_LEVELS, NEW k \in 0 .. Len(R[m])
              PROVE  links[CellAfter(R, m, k)] = Cell(R, m, k)
  BY DEF Backward, Back, R
<1>3. \A i \in 0 .. Len(L[l]) : i # n => links[CellAfter(L, l, i)] = Cell(L, l, i)
  BY DEF BackBut, Back
<1>4. CASE m # l
  <2>1. CellAfter(R, m, k) = CellAfter(L, m, k) /\ Cell(R, m, k) = Cell(L, m, k)
    BY <1>1, <1>4 DEF CellAfter, Cell
  <2>. QED  BY <1>1, <1>4, <2>1 DEF BackBut, Back
<1>5. CASE m = l /\ k = n - 1
  <2>1. k \in 0 .. Len(L[l]) - 1
    BY <1>1, <1>5
  <2>2. Cell(R, l, k) = Cell(L, l, n - 1) /\ CellAfter(R, l, k) = CellAfter(L, l, n)
    BY <1>2, <1>5, <2>1
  <2>. QED  BY <1>5, <2>2
<1>6. CASE m = l /\ k # n - 1
  <2>. DEFINE j == IF k < n THEN k ELSE k + 1
  <2>1. k \in 0 .. Len(L[l]) - 1
    BY <1>1, <1>6
  <2>2. j = (IF k < n - 1 THEN k ELSE k + 1) /\ j \in 0 .. Len(L[l]) /\ j # n
    BY <1>1, <1>6, <2>1
  <2>3. Cell(R, l, k) = Cell(L, l, j) /\ CellAfter(R, l, k) = CellAfter(L, l, j)
    BY <1>2, <2>1, <2>2
  <2>. QED  BY <1>3, <1>6, <2>2, <2>3
<1>. QED  BY <1>4, <1>5, <1>6

-----------------------------------------------------------------------------
(* The lists that the links hold are those of ListOf.                      *)

LEMMA LinkingLists ==
  ASSUME NEW L \in Sequences
  PROVE  /\ Linking(L) => Lists = L
         /\ Linking(L)' => Lists' = L
BY ListsAre DEF Linking, Lists, ListOf

(* Of several threads only the one in the lock is past its first line.     *)
LEMMA OthersWait ==
  ASSUME Held, NEW p \in THREADS, at[p] = "in", NEW r \in THREADS, r # p
  PROVE  /\ at[r] # "in" /\ pos[r] \notin Ahead
         /\ pos[r] \notin {"prev", "store", "unlock"}
BY DEF Held, FlagMeansHeld, Owned, Places, Ahead, ListTypeOK, SpinlockTypeOK

(* A thread that looks sees both directions of every list agree.           *)
LEMMA SeesSettled ==
  ASSUME Held, NEW L \in Sequences, Linking(L), NEW p \in THREADS, at[p] = "in",
         pos[p] \notin {"last", "forth"}
  PROVE  Backward(prev, L)
BY OthersWait DEF Linking, Settled, Ahead

(* TAILQ_FIRST and TAILQ_LAST find the ends of a list.                     *)
LEMMA LookFinds ==
  ASSUME Held, NEW L \in Sequences, Linking(L), NEW p \in THREADS, at[p] = "in",
         pos[p] = "look", NEW l \in LIST_LEVELS
  PROVE  /\ L[l] = <<>> => First(l) = NULL /\ LastElement(l) = NULL
         /\ L[l] # <<>> => First(l) = L[l][1] /\ LastElement(l) = L[l][Len(L[l])]
<1>1. Len(L[l]) \in Nat /\ L[l] \in Seq(LIST_TASKS)
  BY CellTypes
<1>2. \A i \in 0 .. Len(L[l]) :
        next[Cell(L, l, i)] = IF i = Len(L[l]) THEN NULL ELSE L[l][i + 1]
  BY DEF Linking, Forward
<1>3. \A i \in 0 .. Len(L[l]) : prev[CellAfter(L, l, i)] = Cell(L, l, i)
  BY SeesSettled DEF Backward, Back
<1>4. First(l) = IF Len(L[l]) = 0 THEN NULL ELSE L[l][1]
  BY <1>1, <1>2 DEF First, Cell
<1>5. prev[l] = Cell(L, l, Len(L[l]))
  BY <1>1, <1>3 DEF CellAfter
<1>6. CASE L[l] = <<>>
  <2>1. Len(L[l]) = 0 /\ prev[l] = l
    BY <1>1, <1>5, <1>6 DEF Cell
  <2>. QED  BY <1>4, <1>6, <2>1 DEF LastElement, First
<1>7. CASE L[l] # <<>>
  <2>1. Len(L[l]) - 1 \in 0 .. Len(L[l]) /\ Len(L[l]) # 0
    BY <1>1, <1>7
  <2>2. prev[L[l][Len(L[l])]] = Cell(L, l, Len(L[l]) - 1)
    <3>1. CellAfter(L, l, Len(L[l]) - 1) = L[l][Len(L[l])]
      BY <1>1, <2>1 DEF CellAfter
    <3>. QED  BY <1>3, <2>1, <3>1
  <2>3. prev[l] = L[l][Len(L[l])]
    BY <1>5, <2>1 DEF Cell
  <2>4. next[Cell(L, l, Len(L[l]) - 1)] = L[l][Len(L[l])]
    BY <1>1, <1>2, <2>1
  <2>. QED  BY <1>4, <1>7, <2>1, <2>2, <2>3, <2>4 DEF LastElement
<1>. QED  BY <1>6, <1>7

-----------------------------------------------------------------------------
(* The steps outside the lock leave the links alone.                       *)

LEMMA ComesGoes ==
  ASSUME Held, NEW L \in Sequences, Linking(L), NEW p \in THREADS,
         TaskGoes(p) \/ \E t \in LIST_TASKS : TaskComes(p, t)
  PROVE  Held' /\ Linking(L)'
<1>. USE DEF Held
<1>1. at[p] = "out" /\ pos[p] = "start"
  BY DEF TaskGoes, TaskComes, Owned, Places
<1>2. PICK e \in LIST_TASKS \cup {NULL} :
        /\ elm' = [elm EXCEPT ![p] = e]
        /\ e # NULL => ~Within(L, e) /\ \A r \in THREADS : elm[r] # e
  <2>1. ASSUME NEW t \in LIST_TASKS, t \notin Linked PROVE ~Within(L, t)
    <3>1. \A l \in LIST_LEVELS : ListOf(l) = L[l]
      BY LinkingLists DEF Lists
    <3>2. \A l \in LIST_LEVELS : DOMAIN L[l] = 1 .. Len(L[l])
      BY CellTypes
    <3>. QED  BY <2>1, <3>1, <3>2 DEF Linked, Within
  <2>. QED  BY <2>1 DEF TaskGoes, TaskComes
<1>3. UNCHANGED <<is_locked, at, next, prev, job, pos, level>>
  BY DEF TaskGoes, TaskComes, lockVars
<1>4. ListTypeOK' /\ FlagMeansHeld'
  BY <1>2, <1>3 DEF ListTypeOK, SpinlockTypeOK, FlagMeansHeld
<1>5. Owned'
  <2>1. \A r \in THREADS : Places(r)'
    BY <1>1, <1>2, <1>3 DEF ListTypeOK, Owned, Places
  <2>2. \A q, r \in THREADS : q # r /\ elm'[q] # NULL => elm'[q] # elm'[r]
    BY <1>2 DEF ListTypeOK, Owned
  <2>. QED  BY <2>1, <2>2 DEF Owned
<1>6. Apart(L)'
  BY <1>2, <1>3 DEF Linking, Apart, ListTypeOK, Within
<1>7. Settled(L)' /\ Once(L)' /\ Forward(next, L)'
  BY <1>3 DEF Linking, Settled, Backward, Back, Once, Forward, Cell, CellAfter
<1>8. ASSUME NEW r \in THREADS, at'[r] = "in" PROVE Progress(L, r)'
  <2>1. r # p /\ Progress(L, r) /\ elm'[r] = elm[r]
    BY <1>1, <1>2, <1>3, <1>8 DEF Linking, ListTypeOK
  <2>. QED
    BY <1>3, <2>1 DEF Progress, Index, Passed, BackBut, Back, Cell, CellAfter
<1>. QED  BY <1>4, <1>5, <1>6, <1>7, <1>8 DEF Linking

(* A thread that goes on without a store, outside an update of the links.  *)
LEMMA LinksStay ==
  ASSUME Held, NEW L \in Sequences, Linking(L), NEW p \in THREADS,
         UNCHANGED <<next, prev>>, pos[p] \notin Ahead, pos'[p] \notin {"last", "forth"},
         \A r \in THREADS : r # p => /\ at'[r] = at[r] /\ job'[r] = job[r]
                                     /\ pos'[r] = pos[r] /\ level'[r] = level[r]
                                     /\ elm'[r] = elm[r],
         elm'[p] # NULL /\ pos'[p] \notin Ahead => ~Within(L, elm'[p]),
         at'[p] = "in" => Progress(L, p)'
  PROVE  Linking(L)'
<1>1. Apart(L)'
  BY DEF Linking, Apart
<1>2. Settled(L)'
  <2>1. Backward(prev, L)' <=> Backward(prev, L)
    BY DEF Backward, Back, Cell, CellAfter
  <2>. QED  BY <2>1 DEF Linking, Settled, Ahead
<1>3. Once(L)' /\ Forward(next, L)'
  BY DEF Linking, Once, Forward, Cell
<1>4. ASSUME NEW r \in THREADS, at'[r] = "in" PROVE Progress(L, r)'
  <2>1. CASE r = p
    BY <1>4, <2>1
  <2>2. CASE r # p
    <3>1. Progress(L, r)
      BY <1>4, <2>2 DEF Linking
    <3>2. /\ next' = next /\ prev' = prev /\ job'[r] = job[r] /\ pos'[r] = pos[r]
          /\ level'[r] = level[r] /\ elm'[r] = elm[r]
      BY <2>2
    <3>. QED
      BY ONLY <3>1, <3>2 DEF Progress, Index, Passed, BackBut, Back, Cell, CellAfter
  <2>. QED  BY <2>1, <2>2
<1>. QED  BY <1>1, <1>2, <1>3, <1>4 DEF Linking

(* The lock underneath.                                                    *)
LEMMA ListStepLocks == [ListNext]_listVars => [SpinlockNext]_lockVars
<1> SUFFICES ASSUME [ListNext]_listVars PROVE [SpinlockNext]_lockVars
  OBVIOUS
<1>1. ASSUME NEW p \in THREADS,
             \/ TaskGoes(p) \/ \E t \in LIST_TASKS : TaskComes(p, t)
             \/ ListStep(p) \/ Look(p)
      PROVE  UNCHANGED lockVars
  BY <1>1 DEF TaskGoes, TaskComes, ListStep, Look, NothingFound
<1>2. ASSUME NEW p \in THREADS,
             \/ BeginDequeue(p) \/ BeginSteal(p) \/ \E l \in LIST_LEVELS : BeginInsert(p, l)
             \/ KeepSpinning(p) \/ Leave(p)
      PROVE  SpinlockNext
  BY <1>2 DEF BeginDequeue, BeginSteal, BeginInsert, KeepSpinning, Leave,
              SpinlockNext, SpinlockStep
<1>. QED  BY <1>1, <1>2 DEF ListNext, InsideLock, listVars

LEMMA LockKept ==
  ASSUME Held, [ListNext]_listVars
  PROVE  SpinlockTypeOK' /\ FlagMeansHeld'
BY ListStepLocks, NextLockInvariant DEF Held, ListTypeOK, LockInvariant

(* Taking the lock, or beginning to spin for it.                           *)
LEMMA BeginKeeps ==
  ASSUME Held, NEW L \in Sequences, Linking(L), NEW p \in THREADS,
         BeginDequeue(p) \/ BeginSteal(p) \/ \E l \in LIST_LEVELS : BeginInsert(p, l)
  PROVE  Held' /\ Linking(L)'
<1>. USE DEF Held
<1>1. at[p] = "out" /\ job[p] = "none" /\ pos[p] = "start"
  BY DEF BeginDequeue, BeginSteal, BeginInsert, spinlock_lock, spinlock_try_lock,
         Owned, Places
<1>2. SpinlockTypeOK' /\ FlagMeansHeld'
  <2>1. ListNext
    BY DEF ListNext
  <2>. QED  BY <2>1, LockKept
<1>3. /\ 0 \in LIST_LEVELS /\ Cardinality(LIST_LEVELS) - 1 \in LIST_LEVELS
      /\ \A k \in LIST_LEVELS : 0 <= k /\ k <= Cardinality(LIST_LEVELS) - 1 /\ k \in Int
  BY ListAssumption, FS_CardinalityType
<1>4. UNCHANGED <<next, prev, elm>>
  BY DEF BeginDequeue, BeginSteal, BeginInsert, Begin, queueVars
<1>5. CASE UNCHANGED <<at, job, pos, level>>
  <2>1. Held'
    BY <1>2, <1>4, <1>5 DEF ListTypeOK, Owned, Places
  <2>2. Linking(L)'
    BY <1>1, <1>4, <1>5, LinksStay DEF Ahead, Linking, Apart
  <2>. QED  BY <2>1, <2>2
<1>6. ASSUME NEW l \in LIST_LEVELS, NEW j \in {"insert", "dequeue", "steal"},
             NEW x \in {"next", "look"}, NEW y \in {"spin", "in"},
             at' = [at EXCEPT ![p] = y], job' = [job EXCEPT ![p] = j],
             pos' = [pos EXCEPT ![p] = x], level' = [level EXCEPT ![p] = l],
             \/ y = "spin" /\ j = "insert" /\ x = "next" /\ elm[p] # NULL
             \/ y = "spin" /\ j = "dequeue" /\ x = "look" /\ elm[p] = NULL /\ l = 0
             \/ /\ y = "in" /\ j = "steal" /\ x = "look" /\ elm[p] = NULL
                /\ l = Cardinality(LIST_LEVELS) - 1
      PROVE  Held' /\ Linking(L)'
  <2>1. /\ at'[p] = y /\ job'[p] = j /\ pos'[p] = x /\ level'[p] = l /\ elm'[p] = elm[p]
        /\ \A r \in THREADS : r # p =>
             /\ at'[r] = at[r] /\ job'[r] = job[r] /\ pos'[r] = pos[r]
             /\ level'[r] = level[r] /\ elm'[r] = elm[r]
    BY <1>4, <1>6 DEF ListTypeOK, SpinlockTypeOK
  <2>2. ListTypeOK'
    BY <1>2, <1>4, <1>6 DEF ListTypeOK
  <2>3. Places(p)'
    BY <1>6, <2>1 DEF Places
  <2>4. ASSUME NEW r \in THREADS, r # p PROVE Places(r)'
    BY <2>1, <2>4 DEF Owned, Places
  <2>5. Owned'
    <3>1. \A q, r \in THREADS : q # r /\ elm'[q] # NULL => elm'[q] # elm'[r]
      BY <1>4 DEF Owned
    <3>. QED  BY <2>3, <2>4, <3>1 DEF Owned
  <2>6. at'[p] = "in" => Progress(L, p)'
    <3>1. at'[p] = "in" => \A k \in LIST_LEVELS : ~Passed(p, k)'
      BY <1>3, <1>6, <2>1 DEF Passed
    <3>. QED  BY <1>6, <2>1, <3>1 DEF Progress
  <2>7. Linking(L)'
    <3>1. elm'[p] # NULL => ~Within(L, elm'[p])
      BY <1>1, <2>1 DEF Linking, Apart, Ahead
    <3>. QED  BY <1>1, <1>4, <1>6, <2>1, <2>6, <3>1, LinksStay DEF Ahead
  <2>. QED  BY <1>2, <2>2, <2>5, <2>7
<1>7. CASE BeginDequeue(p)
  BY <1>3, <1>6, <1>7 DEF BeginDequeue, spinlock_lock, Go, Begin
<1>8. CASE \E l \in LIST_LEVELS : BeginInsert(p, l)
  BY <1>6, <1>8 DEF BeginInsert, spinlock_lock, Go, Begin
<1>9. CASE BeginSteal(p)
  <2>1. CASE is_locked
    <3>1. at' = at
      BY <1>1, <1>9, <2>1 DEF BeginSteal, spinlock_try_lock, Exchange, Go, ListTypeOK,
                              SpinlockTypeOK
    <3>. QED  BY <1>5, <1>9, <2>1, <3>1 DEF BeginSteal, queueVars
  <2>2. CASE ~is_locked
    BY <1>3, <1>6, <1>9, <2>2 DEF BeginSteal, spinlock_try_lock, Exchange, Go, Begin
  <2>. QED  BY <2>1, <2>2
<1>. QED  BY <1>7, <1>8, <1>9

LEMMA SpinKeeps ==
  ASSUME Held, NEW L \in Sequences, Linking(L), NEW p \in THREADS, KeepSpinning(p)
  PROVE  Held' /\ Linking(L)'
<1>. USE DEF Held
<1>1. UNCHANGED <<next, prev, job, pos, level, elm>>
  BY DEF KeepSpinning, queueVars
<1>2. SpinlockTypeOK' /\ FlagMeansHeld'
  <2>1. ListNext
    BY DEF ListNext
  <2>. QED  BY <2>1, LockKept
<1>3. /\ at[p] = "spin" /\ at'[p] \in {"spin", "in"}
      /\ \A r \in THREADS : r # p => at'[r] = at[r]
  BY DEF KeepSpinning, Spin, Exchange, Go, ListTypeOK, SpinlockTypeOK
<1>4. \/ job[p] = "insert" /\ pos[p] = "next"
      \/ job[p] = "dequeue" /\ pos[p] = "look" /\ level[p] = 0
  BY <1>3 DEF Owned, Places
<1>5. Held'
  <2>1. \A r \in THREADS : Places(r)'
    BY <1>1, <1>3, <1>4 DEF Owned, Places
  <2>. QED  BY <1>1, <1>2, <2>1 DEF ListTypeOK, Owned
<1>6. Progress(L, p)'
  <2>1. \A k \in LIST_LEVELS : k \in Int /\ 0 <= k
    BY ListAssumption, FS_CardinalityType
  <2>. QED  BY <1>1, <1>4, <2>1 DEF Progress, Passed
<1>7. Linking(L)'
  <2>1. pos[p] \notin Ahead /\ (elm[p] # NULL => ~Within(L, elm[p]))
    BY <1>4 DEF Linking, Apart, Ahead
  <2>. QED  BY <1>1, <1>3, <1>6, <2>1, LinksStay DEF Ahead
<1>. QED  BY <1>5, <1>7

LEMMA LeaveKeeps ==
  ASSUME Held, NEW L \in Sequences, Linking(L), NEW p \in THREADS, Leave(p)
  PROVE  Held' /\ Linking(L)'
<1>. USE DEF Held
<1>1. UNCHANGED <<next, prev, elm>> /\ pos[p] = "unlock" /\ at[p] = "in"
  BY DEF Leave, spinlock_unlock
<1>2. SpinlockTypeOK' /\ FlagMeansHeld'
  <2>1. ListNext
    BY DEF ListNext, InsideLock
  <2>. QED  BY <2>1, LockKept
<1>3. /\ at'[p] = "out" /\ job'[p] = "none" /\ pos'[p] = "start" /\ level'[p] = 0
      /\ \A r \in THREADS : r # p =>
           /\ at'[r] = at[r] /\ job'[r] = job[r] /\ pos'[r] = pos[r]
           /\ level'[r] = level[r] /\ elm'[r] = elm[r]
  BY DEF Leave, spinlock_unlock, Go, ListTypeOK, SpinlockTypeOK
<1>4. ListTypeOK'
  <2>1. 0 \in LIST_LEVELS
    BY ListAssumption, FS_CardinalityType
  <2>. QED  BY <1>1, <1>2, <2>1 DEF Leave, ListTypeOK
<1>5. Owned'
  <2>1. \A r \in THREADS : Places(r)'
    BY <1>1, <1>3 DEF Owned, Places
  <2>. QED  BY <1>1, <2>1 DEF Owned
<1>6. Linking(L)'
  <2>1. pos[p] \notin Ahead /\ (elm[p] # NULL => ~Within(L, elm[p]))
    BY <1>1 DEF Linking, Apart, Ahead
  <2>. QED  BY <1>1, <1>3, <2>1, LinksStay DEF Ahead
<1>. QED  BY <1>2, <1>4, <1>5, <1>6

-----------------------------------------------------------------------------
(* The steps in the lock, one store or test each.                          *)

LEMMA InLock ==
  ASSUME Held, NEW M \in Sequences, NEW p \in THREADS, at[p] = "in", UNCHANGED at,
         Once(M), Forward(next, M)', Apart(M)',
         pos'[p] \notin {"last", "forth"} => Backward(prev, M)',
         Progress(M, p)'
  PROVE  Linking(M)'
<1>1. \A r \in THREADS : at'[r] = "in" => r = p
  BY OthersWait
<1>. QED  BY <1>1 DEF Linking, Settled, Once

LEMMA ListStepHeld ==
  ASSUME Held, NEW p \in THREADS, ListStep(p)
  PROVE  Held' /\ at[p] = "in" /\ UNCHANGED <<at, job, level>>
<1>. USE DEF Held
<1>0. at[p] = "in" /\ UNCHANGED <<is_locked, at, job, level>>
  BY DEF ListStep, InsertNext, InsertPrev, InsertStore, InsertLast, RemoveBack,
         RemoveForth, At, lockVars
<1>1. SpinlockTypeOK' /\ FlagMeansHeld'
  <2>1. ListNext
    BY DEF ListNext, InsideLock
  <2>. QED  BY <2>1, LockKept
<1>2. Places(p) /\ elm[p] \in LIST_TASKS \cup {NULL} /\ level[p] \in LIST_LEVELS
  BY DEF Owned, ListTypeOK
<1>3. PICK x \in {"prev", "store", "last", "forth", "unlock"} : pos' = [pos EXCEPT ![p] = x]
  BY DEF ListStep, InsertNext, InsertPrev, InsertStore, InsertLast, RemoveBack,
         RemoveForth, At
<1>4. elm' = [elm EXCEPT ![p] = elm'[p]] /\ elm'[p] \in {elm[p], NULL}
  BY DEF ListStep, InsertNext, InsertPrev, InsertStore, InsertLast, RemoveBack,
         RemoveForth, ListTypeOK
<1>5. next' \in [Cells -> LIST_TASKS \cup {NULL}]
  <2>1. CASE RemoveForth(p)
    <3>1. elm[p] \in Cells
      BY <1>0, <1>2, <2>1 DEF RemoveForth, At, Places, Cells
    <3>. QED  BY <2>1, <3>1 DEF RemoveForth, StoreNext, ListTypeOK
  <2>2. CASE ~RemoveForth(p)
    BY <1>2, <2>2 DEF ListStep, InsertNext, InsertPrev, InsertStore, InsertLast,
       RemoveBack, StoreNext, StorePrev, TailMoves, ListTypeOK
  <2>. QED  BY <2>1, <2>2
<1>6. prev' \in [Cells -> Cells \cup {NULL}]
  <2>1. CASE RemoveBack(p)
    <3>1. elm[p] \in Cells
      BY <1>0, <1>2, <2>1 DEF RemoveBack, At, Places, Cells
    <3>. QED  BY <2>1, <3>1 DEF RemoveBack, StorePrev, ListTypeOK
  <2>2. CASE ~RemoveBack(p)
    BY <1>2, <2>2 DEF ListStep, InsertNext, InsertPrev, InsertStore, InsertLast,
       RemoveForth, StoreNext, StorePrev, TailMoves, ListTypeOK, Cells
  <2>. QED  BY <2>1, <2>2
<1>7. ListTypeOK'
  BY <1>0, <1>1, <1>3, <1>4, <1>5, <1>6 DEF ListTypeOK
<1>8. Places(p)'
  <2>1. CASE InsertLast(p)
    BY <1>0, <1>2, <2>1 DEF InsertLast, At, Places, ListTypeOK
  <2>2. CASE RemoveBack(p) \/ RemoveForth(p)
    BY <1>0, <1>2, <2>2 DEF RemoveBack, RemoveForth, At, Places, ListTypeOK
  <2>3. CASE InsertNext(p) \/ InsertPrev(p) \/ InsertStore(p)
    BY <1>0, <1>2, <2>3 DEF InsertNext, InsertPrev, InsertStore, At, Places, ListTypeOK
  <2>. QED  BY <2>1, <2>2, <2>3 DEF ListStep
<1>9. \A r \in THREADS : r # p => Places(r)'
  BY <1>0, <1>3, <1>4 DEF Owned, Places, ListTypeOK
<1>10. \A q, r \in THREADS : q # r /\ elm'[q] # NULL => elm'[q] # elm'[r]
  BY <1>4 DEF Owned, ListTypeOK
<1>. QED  BY <1>0, <1>1, <1>7, <1>8, <1>9, <1>10 DEF Owned

(* The task that is inserted, and the others in hand.                      *)
LEMMA ApartStays ==
  ASSUME Held, NEW L \in Sequences, Linking(L), NEW M \in Sequences,
         NEW p \in THREADS, at[p] = "in",
         \A r \in THREADS : r # p => elm'[r] = elm[r] /\ pos'[r] = pos[r],
         \A u : Within(M, u) => Within(L, u) \/ u = elm[p],
         elm'[p] # NULL /\ pos'[p] \notin Ahead => ~Within(M, elm'[p])
  PROVE  Apart(M)'
<1>1. ASSUME NEW r \in THREADS, r # p, elm[r] # NULL PROVE ~Within(M, elm[r])
  <2>1. pos[r] \notin Ahead /\ elm[r] # elm[p]
    BY <1>1, OthersWait DEF Held, Owned
  <2>2. ~Within(L, elm[r])
    BY <1>1, <2>1 DEF Linking, Apart
  <2>. QED  BY <2>1, <2>2
<1>2. \A u : Within(M, u)' <=> Within(M, u)
  BY DEF Within
<1>. QED  BY <1>1, <1>2 DEF Apart

LEMMA InsertStart ==
  ASSUME Held, NEW L \in Sequences, Linking(L), NEW p \in THREADS,
         InsertNext(p) \/ InsertPrev(p), ListStep(p)
  PROVE  Linking(L)'
<1>. DEFINE t == elm[p]
<1>1. at[p] = "in" /\ at' = at /\ job' = job /\ level' = level /\ elm' = elm
  BY ListStepHeld DEF InsertNext, InsertPrev
<1>2. t \in LIST_TASKS /\ pos[p] \notin Ahead /\ pos'[p] \in {"prev", "store"}
  BY <1>1 DEF InsertNext, InsertPrev, At, Held, Owned, Places, Ahead, ListTypeOK
<1>3. ~Within(L, t)
  BY <1>2, ListAssumption DEF Linking, Apart
<1>4. \A r \in THREADS : r # p => elm'[r] = elm[r] /\ pos'[r] = pos[r]
  BY <1>1 DEF InsertNext, InsertPrev, At, Held, ListTypeOK
<1>5. Apart(L)'
  BY <1>1, <1>3, <1>4, ApartStays
<1>6. Once(L) /\ Forward(next, L)
  BY DEF Linking
<1>7. Backward(prev, L)
  BY <1>1, <1>2, SeesSettled DEF Ahead
<1>8. CASE InsertNext(p)
  <2>1. next' = [next EXCEPT ![t] = NULL] /\ prev' = prev /\ pos'[p] = "prev"
    BY <1>8 DEF InsertNext, StoreNext, At, Held, ListTypeOK
  <2>2. next'[t] = NULL /\ \A c \in Cells : c # t => next'[c] = next[c]
    BY <1>2, <2>1 DEF Held, ListTypeOK, Cells
  <2>3. Forward(next, L)'
    <3>1. \A l \in LIST_LEVELS : \A i \in 0 .. Len(L[l]) :
            next'[Cell(L, l, i)] = next[Cell(L, l, i)]
      BY <1>2, <1>3, <2>2, NoCell, CellTypes
    <3>2. \A l \in LIST_LEVELS : \A i \in 0 .. Len(L[l]) :
            next'[Cell(L, l, i)] = IF i = Len(L[l]) THEN NULL ELSE L[l][i + 1]
      BY <1>6, <3>1 DEF Forward
    <3>. QED  BY <3>2 DEF Forward, Cell
  <2>4. Backward(prev, L)'
    BY <1>7, <2>1 DEF Backward, Back, Cell, CellAfter
  <2>5. Progress(L, p)'
    BY <1>1, <2>1, <2>2 DEF Progress
  <2>. QED  BY <1>1, <1>5, <1>6, <2>3, <2>4, <2>5, InLock
<1>9. CASE InsertPrev(p)
  <2>1. /\ prev' = [prev EXCEPT ![t] = prev[level[p]]] /\ next' = next
        /\ pos[p] = "prev" /\ pos'[p] = "store"
    BY <1>9 DEF InsertPrev, StorePrev, At, Held, ListTypeOK
  <2>2. prev'[t] = prev[level[p]] /\ \A c \in Cells : c # t => prev'[c] = prev[c]
    BY <1>2, <2>1 DEF Held, ListTypeOK, Cells
  <2>3. Forward(next, L)'
    BY <1>6, <2>1 DEF Forward, Cell
  <2>4. Backward(prev, L)'
    <3>1. \A l \in LIST_LEVELS : \A i \in 0 .. Len(L[l]) :
            prev'[CellAfter(L, l, i)] = prev[CellAfter(L, l, i)]
      BY <1>2, <1>3, <2>2, NoCell, CellTypes
    <3>2. \A l \in LIST_LEVELS : \A i \in 0 .. Len(L[l]) :
            prev'[CellAfter(L, l, i)] = Cell(L, l, i)
      BY <1>7, <3>1 DEF Backward, Back
    <3>. QED  BY <3>2 DEF Backward, Back, Cell, CellAfter
  <2>5. prev[level[p]] = Cell(L, level[p], Len(L[level[p]]))
    <3>1. level[p] \in LIST_LEVELS
      BY DEF Held, ListTypeOK
    <3>2. Len(L[level[p]]) \in 0 .. Len(L[level[p]])
      BY <3>1, CellTypes
    <3>. QED  BY <1>7, <3>1, <3>2 DEF Backward, Back, CellAfter
  <2>6. next[t] = NULL
    BY <1>1, <2>1 DEF Linking, Progress
  <2>7. Progress(L, p)'
    BY <1>1, <2>1, <2>2, <2>5, <2>6 DEF Progress, Cell
  <2>. QED  BY <1>1, <1>5, <1>6, <2>3, <2>4, <2>7, InLock
<1>. QED  BY <1>8, <1>9

(* The store that links the task in: the list is longer by it.             *)
LEMMA StoreAppends ==
  ASSUME Held, NEW L \in Sequences, Linking(L), NEW p \in THREADS,
         InsertStore(p), ListStep(p)
  PROVE  /\ elm[p] \in LIST_TASKS
         /\ \E M \in Sequences : M = Appended(L, level[p], elm[p]) /\ Linking(M)'
<1>1. at[p] = "in" /\ at' = at /\ job' = job /\ level' = level /\ elm' = elm
  BY ListStepHeld DEF InsertStore
<1>2. /\ elm[p] \in LIST_TASKS /\ level[p] \in LIST_LEVELS
      /\ pos[p] = "store" /\ pos'[p] = "last" /\ pos[p] \notin Ahead
  BY <1>1 DEF InsertStore, At, Held, Owned, Places, Ahead, ListTypeOK
<1>3. PICK t \in LIST_TASKS, l \in LIST_LEVELS : t = elm[p] /\ l = level[p]
  BY <1>2
<1>4. ~Within(L, t)
  BY <1>2, <1>3, ListAssumption DEF Linking, Apart
<1>5. PICK M \in Sequences : M = Appended(L, l, t)
  BY <1>4, AppendCells DEF Linking
<1>. DEFINE c == Cell(L, l, Len(L[l]))
<1>6. \A r \in THREADS : r # p => elm'[r] = elm[r] /\ pos'[r] = pos[r]
  BY <1>1 DEF InsertStore, At, Held, ListTypeOK
<1>7. Once(L) /\ Forward(next, L) /\ Backward(prev, L)
  BY <1>1, <1>2, SeesSettled DEF Ahead, Linking
<1>8. next[t] = NULL /\ prev[t] = c
  BY <1>1, <1>2, <1>3 DEF Linking, Progress
<1>9. prev[l] = c
  <2>1. Len(L[l]) \in 0 .. Len(L[l])
    BY CellTypes
  <2>. QED  BY <1>7, <2>1 DEF Backward, Back, CellAfter
<1>10. next' = [next EXCEPT ![c] = t] /\ prev' = prev
  BY <1>3, <1>9 DEF InsertStore, StoreNext
<1>. HIDE DEF c
<1>11. /\ Once(M) /\ M[l] # <<>>
       /\ Len(M[l]) = Len(L[l]) + 1 /\ M[l][Len(M[l])] = t
       /\ \A u : Within(M, u) => Within(L, u) \/ u = t
  <2>1. Len(L[l]) \in Nat
    BY CellTypes
  <2>2. /\ Once(M)
        /\ Len(M[l]) = Len(L[l]) + 1 /\ M[l][Len(L[l]) + 1] = t
        /\ \A u : Within(M, u) => Within(L, u) \/ u = t
    BY <1>4, <1>5, <1>7, AppendCells
  <2>3. M[l] # <<>>
    BY <2>1, <2>2
  <2>. QED  BY <2>2, <2>3
<1>12. Forward(next', M)
  BY <1>4, <1>5, <1>7, <1>8, <1>10, AppendForward DEF Held, ListTypeOK, c
<1>13. BackBut(prev', M, l, Len(M[l]))
  BY <1>4, <1>5, <1>7, <1>8, <1>10, <1>11, AppendBack DEF c
<1>14. Apart(M)'
  BY <1>1, <1>2, <1>3, <1>6, <1>11, ApartStays DEF Ahead
<1>15. Progress(M, p)'
  <2>1. level'[p] = l /\ elm'[p] = t
    BY <1>1, <1>3
  <2>2. BackBut(prev, M, l, Len(M[l]))'
    BY <1>13 DEF BackBut, Back, CellAfter, Cell
  <2>. QED  BY <1>2, <1>11, <2>1, <2>2 DEF Progress, BackBut, Back, Cell, CellAfter
<1>16. Linking(M)'
  <2>1. Forward(next, M)'
    BY <1>12 DEF Forward, Cell
  <2>. QED  BY <1>1, <1>2, <1>11, <1>14, <1>15, <2>1, InLock
<1>. QED  BY <1>2, <1>3, <1>5, <1>16

(* The store that moves the tail: the insertion is over.                   *)
LEMMA TailFollows ==
  ASSUME Held, NEW L \in Sequences, Linking(L), NEW p \in THREADS,
         InsertLast(p), ListStep(p)
  PROVE  Linking(L)'
<1>1. at[p] = "in" /\ at' = at /\ job' = job /\ level' = level
  BY ListStepHeld
<1>2. /\ pos[p] = "last" /\ pos'[p] = "unlock" /\ elm'[p] = NULL
      /\ \A r \in THREADS : r # p => elm'[r] = elm[r] /\ pos'[r] = pos[r]
  BY <1>1 DEF InsertLast, At, Held, ListTypeOK
<1>3. PICK l \in LIST_LEVELS : l = level[p]
  BY DEF Held, ListTypeOK
<1>4. /\ L[l] # <<>> /\ L[l][Len(L[l])] = elm[p] /\ BackBut(prev, L, l, Len(L[l]))
      /\ Once(L) /\ Forward(next, L)
  BY <1>1, <1>2, <1>3 DEF Linking, Progress
<1>5. next' = next /\ prev' = [prev EXCEPT ![l] = L[l][Len(L[l])]]
  BY <1>3, <1>4 DEF InsertLast, TailMoves, StorePrev
<1>6. Backward(prev', L)
  BY <1>4, <1>5, LastBack DEF Held, ListTypeOK
<1>7. Backward(prev, L)' /\ Forward(next, L)'
  BY <1>4, <1>5, <1>6 DEF Backward, Back, Forward, Cell, CellAfter
<1>8. Apart(L)'
  BY <1>1, <1>2, ApartStays
<1>9. Progress(L, p)'
  BY <1>2 DEF Progress
<1>. QED  BY <1>1, <1>2, <1>4, <1>7, <1>8, <1>9, InLock

-----------------------------------------------------------------------------
(* A look at one level: a task there is found, or the level is passed.     *)

LEMMA LookKeeps ==
  ASSUME Held, NEW L \in Sequences, Linking(L), NEW p \in THREADS, Look(p)
  PROVE  /\ Held' /\ Linking(L)'
         /\ pos'[p] # "back" => elm' = elm
<1>. USE DEF Held
<1>1. /\ at[p] = "in" /\ pos[p] = "look" /\ UNCHANGED <<is_locked, at, next, prev, job>>
      /\ elm[p] = NULL /\ job[p] \in {"dequeue", "steal"}
  BY DEF Look, NothingFound, At, lockVars, Owned, Places
<1>2. SpinlockTypeOK' /\ FlagMeansHeld'
  <2>1. ListNext
    BY DEF ListNext, InsideLock
  <2>. QED  BY <2>1, LockKept
<1>3. PICK l \in LIST_LEVELS : l = level[p]
  BY DEF ListTypeOK
<1>. DEFINE found == IF job[p] = "steal" THEN LastElement(l) ELSE First(l)
            then  == IF job[p] = "steal" THEN l - 1 ELSE l + 1
<1>4. \A k \in LIST_LEVELS : Passed(p, k) => L[k] = <<>>
  BY <1>1 DEF Linking, Progress
<1>5. /\ Len(L[l]) \in Nat /\ (L[l] = <<>> <=> Len(L[l]) = 0)
      /\ \A i \in 1 .. Len(L[l]) : L[l][i] \in LIST_TASKS
  BY CellTypes
<1>6. /\ L[l] = <<>> => found = NULL
      /\ L[l] # <<>> => found = L[l][Index(L, p)] /\ found \in LIST_TASKS
  <2>1. /\ L[l] = <<>> => First(l) = NULL /\ LastElement(l) = NULL
        /\ L[l] # <<>> => First(l) = L[l][1] /\ LastElement(l) = L[l][Len(L[l])]
    BY <1>1, LookFinds
  <2>2. L[l] # <<>> => 1 \in 1 .. Len(L[l]) /\ Len(L[l]) \in 1 .. Len(L[l])
    BY <1>5
  <2>. QED  BY <1>3, <1>5, <2>1, <2>2 DEF Index
<1>7. CASE /\ At(p, "look", "back") /\ found # NULL
           /\ elm' = [elm EXCEPT ![p] = found] /\ level' = level
  <2>1. /\ elm'[p] = found /\ pos'[p] = "back" /\ found \in LIST_TASKS /\ L[l] # <<>>
        /\ \A r \in THREADS : r # p => elm'[r] = elm[r] /\ pos'[r] = pos[r]
    BY <1>6, <1>7 DEF At, ListTypeOK
  <2>2. Within(L, found)
    BY <1>3, <1>5, <1>6, <2>1 DEF Within, Index
  <2>3. \A r \in THREADS : r # p => elm[r] # found
    <3>1. ASSUME NEW r \in THREADS, r # p, elm[r] = found PROVE FALSE
      <4>1. pos[r] \notin Ahead
        BY <1>1, <3>1, OthersWait
      <4>. QED  BY <1>7, <2>2, <3>1, <4>1 DEF Linking, Apart
    <3>. QED  BY <3>1
  <2>4. ListTypeOK'
    BY <1>1, <1>2, <1>7, <2>1 DEF At, ListTypeOK
  <2>5. Owned'
    <3>1. \A r \in THREADS : Places(r)'
      BY <1>1, <1>7, <2>1 DEF Owned, Places
    <3>2. \A q, r \in THREADS : q # r /\ elm'[q] # NULL => elm'[q] # elm'[r]
      BY <2>1, <2>3 DEF Owned
    <3>. QED  BY <3>1, <3>2 DEF Owned
  <2>6. Progress(L, p)'
    <3>1. Index(L, p)' = Index(L, p) /\ \A k \in LIST_LEVELS : Passed(p, k)' <=> Passed(p, k)
      BY <1>1, <1>7 DEF Index, Passed
    <3>. QED  BY <1>3, <1>4, <1>6, <1>7, <2>1, <3>1 DEF Progress
  <2>7. Linking(L)'
    BY <1>1, <1>7, <2>1, <2>6, LinksStay DEF Ahead
  <2>. QED  BY <1>2, <2>1, <2>4, <2>5, <2>7
<1>8. ASSUME NEW x \in {"look", "unlock"}, NEW k \in LIST_LEVELS,
             pos' = [pos EXCEPT ![p] = x], level' = [level EXCEPT ![p] = k], elm' = elm,
             x = "look" => k = then /\ found = NULL
      PROVE  Held' /\ Linking(L)'
  <2>1. /\ elm'[p] = NULL /\ pos'[p] = x /\ level'[p] = k
        /\ \A r \in THREADS : r # p => /\ pos'[r] = pos[r] /\ level'[r] = level[r]
                                       /\ elm'[r] = elm[r]
    BY <1>1, <1>8 DEF ListTypeOK
  <2>2. ListTypeOK'
    BY <1>1, <1>2, <1>8 DEF ListTypeOK
  <2>3. Owned'
    <3>1. Places(p)'
      BY <1>1, <2>1 DEF Places
    <3>2. \A r \in THREADS : r # p => Places(r)'
      BY <1>1, <2>1 DEF Owned, Places
    <3>. QED  BY <1>8, <3>1, <3>2 DEF Owned
  <2>4. Progress(L, p)'
    <3>1. ASSUME x = "look", NEW m \in LIST_LEVELS, Passed(p, m)' PROVE L[m] = <<>>
      <4>1. m \in Int /\ l \in Int
        BY ListAssumption, FS_CardinalityType
      <4>2. m = l \/ Passed(p, m)
        BY <1>1, <1>3, <1>8, <2>1, <3>1, <4>1 DEF Passed
      <4>. QED  BY <1>4, <1>5, <1>6, <1>8, <3>1, <4>2, ListAssumption
    <3>. QED  BY <2>1, <3>1 DEF Progress
  <2>5. Linking(L)'
    BY <1>1, <1>8, <2>1, <2>4, LinksStay DEF Ahead
  <2>. QED  BY <1>2, <2>2, <2>3, <2>5
<1>9. CASE /\ At(p, "look", "look") /\ found = NULL /\ then \in LIST_LEVELS
           /\ level' = [level EXCEPT ![p] = then] /\ elm' = elm
  BY <1>8, <1>9 DEF At
<1>10. CASE /\ At(p, "look", "unlock") /\ level' = level /\ elm' = elm
  <2>1. level' = [level EXCEPT ![p] = l]
    BY <1>3, <1>10 DEF ListTypeOK
  <2>. QED  BY <1>8, <1>10, <2>1 DEF At
<1>. QED  BY <1>3, <1>7, <1>9, <1>10 DEF Look, NothingFound

-----------------------------------------------------------------------------
(* The stores that unlink the task a thread has found.                     *)

LEMMA Unlinking ==
  ASSUME Held, NEW L \in Sequences, Linking(L), NEW p \in THREADS, at[p] = "in",
         pos[p] \in {"back", "forth"}
  PROVE  /\ level[p] \in LIST_LEVELS /\ L[level[p]] # <<>>
         /\ Index(L, p) \in 1 .. Len(L[level[p]])
         /\ elm[p] \in LIST_TASKS /\ elm[p] = L[level[p]][Index(L, p)]
         /\ Once(L) /\ Forward(next, L)
         /\ next[elm[p]] = IF Index(L, p) = Len(L[level[p]]) THEN NULL
                           ELSE L[level[p]][Index(L, p) + 1]
<1>1. PICK l \in LIST_LEVELS : l = level[p]
  BY DEF Held, ListTypeOK
<1>2. L[l] # <<>> /\ L[l][Index(L, p)] = elm[p] /\ Once(L) /\ Forward(next, L)
  BY <1>1 DEF Linking, Progress
<1>3. Len(L[l]) \in Nat \ {0}
  BY <1>2, CellTypes
<1>4. Index(L, p) \in 1 .. Len(L[l])
  BY <1>1, <1>3 DEF Index
<1>5. L[l][Index(L, p)] \in LIST_TASKS
  BY <1>4, CellTypes
<1>6. PICK n \in 1 .. Len(L[l]) : n = Index(L, p)
  BY <1>4
<1>7. next[Cell(L, l, n)] = IF n = Len(L[l]) THEN NULL ELSE L[l][n + 1]
  BY <1>2, <1>3 DEF Forward
<1>8. Cell(L, l, n) = elm[p]
  BY <1>2, <1>6 DEF Cell
<1>. QED  BY <1>1, <1>2, <1>4, <1>5, <1>6, <1>7, <1>8

LEMMA BackLeaves ==
  ASSUME Held, NEW L \in Sequences, Linking(L), NEW p \in THREADS,
         RemoveBack(p), ListStep(p)
  PROVE  Linking(L)'
<1>1. at[p] = "in" /\ at' = at /\ job' = job /\ level' = level /\ elm' = elm
  BY ListStepHeld DEF RemoveBack
<1>2. /\ pos[p] = "back" /\ pos'[p] = "forth" /\ next' = next
      /\ \A r \in THREADS : r # p => elm'[r] = elm[r] /\ pos'[r] = pos[r]
  BY <1>1 DEF RemoveBack, At, StorePrev, Held, ListTypeOK
<1>3. PICK l \in LIST_LEVELS, n \in Nat : l = level[p] /\ n = Index(L, p)
  <2>1. Len(L[level[p]]) \in Nat /\ level[p] \in LIST_LEVELS
    BY <1>1, <1>2, Unlinking, CellTypes
  <2>. QED  BY <2>1 DEF Index
<1>4. /\ n \in 1 .. Len(L[l]) /\ elm[p] = L[l][n] /\ L[l] # <<>>
      /\ Once(L) /\ Forward(next, L) /\ elm[p] \in LIST_TASKS
      /\ next[elm[p]] = IF n = Len(L[l]) THEN NULL ELSE L[l][n + 1]
  BY <1>1, <1>2, <1>3, Unlinking
<1>5. Backward(prev, L)
  BY <1>1, <1>2, SeesSettled
<1>6. prev[elm[p]] = Cell(L, l, n - 1)
  <2>1. n - 1 \in 0 .. Len(L[l]) /\ n - 1 # Len(L[l]) /\ Len(L[l]) \in Nat
    BY <1>4, CellTypes
  <2>2. CellAfter(L, l, n - 1) = elm[p]
    BY <1>4, <2>1 DEF CellAfter
  <2>. QED  BY <1>5, <2>1, <2>2 DEF Backward, Back
<1>7. (IF next[elm[p]] # NULL THEN next[elm[p]] ELSE l) = CellAfter(L, l, n)
  <2>1. n # Len(L[l]) => L[l][n + 1] \in LIST_TASKS
    BY <1>4, CellTypes
  <2>. QED  BY <1>4, <2>1, ListAssumption DEF CellAfter
<1>8. prev' = [prev EXCEPT ![CellAfter(L, l, n)] = Cell(L, l, n - 1)]
  BY <1>3, <1>6, <1>7 DEF RemoveBack, StorePrev
<1>9. BackBut(prev', L, l, n) /\ prev'[CellAfter(L, l, n)] = Cell(L, l, n - 1)
  <2>1. prev \in [Cells -> Cells \cup {NULL}]
    BY DEF Held, ListTypeOK
  <2>. QED  BY <1>4, <1>5, <1>8, <2>1, RemoveBackStore, Zenon
<1>10. Apart(L)'
  BY <1>1, <1>2, ApartStays DEF Ahead
<1>11. Progress(L, p)'
  <2>1. Index(L, p)' = n /\ level'[p] = l /\ elm'[p] = L[l][n]
    BY <1>1, <1>3, <1>4 DEF Index
  <2>2. \A k \in LIST_LEVELS : Passed(p, k)' => L[k] = <<>>
    BY <1>1, <1>2 DEF Linking, Progress, Passed
  <2>3. BackBut(prev, L, l, n)'
    BY <1>9 DEF BackBut, Back, Cell, CellAfter
  <2>4. prev'[CellAfter(L, l, n)'] = Cell(L, l, n - 1)'
    BY <1>9 DEF Cell, CellAfter
  <2>. QED  BY <1>2, <1>4, <2>1, <2>2, <2>3, <2>4 DEF Progress, BackBut, Back, Cell, CellAfter
<1>12. Forward(next, L)'
  BY <1>2, <1>4 DEF Forward, Cell
<1>. QED  BY <1>1, <1>2, <1>4, <1>10, <1>11, <1>12, InLock

(* The list is shorter by its first task, or by its last one.              *)
LEMMA ForthRemoves ==
  ASSUME Held, NEW L \in Sequences, Linking(L), NEW p \in THREADS,
         RemoveForth(p), ListStep(p)
  PROVE  \E M \in Sequences : M = Removed(L, level[p], Index(L, p)) /\ Linking(M)'
<1>1. at[p] = "in" /\ at' = at /\ job' = job /\ level' = level /\ elm' = elm
  BY ListStepHeld DEF RemoveForth
<1>2. /\ pos[p] = "forth" /\ pos'[p] = "unlock" /\ prev' = prev
      /\ \A r \in THREADS : r # p => elm'[r] = elm[r] /\ pos'[r] = pos[r]
  BY <1>1 DEF RemoveForth, At, StoreNext, Held, ListTypeOK
<1>3. PICK l \in LIST_LEVELS, n \in Nat : l = level[p] /\ n = Index(L, p)
  <2>1. Len(L[level[p]]) \in Nat /\ level[p] \in LIST_LEVELS
    BY <1>1, <1>2, Unlinking, CellTypes
  <2>. QED  BY <2>1 DEF Index
<1>4. /\ n \in 1 .. Len(L[l]) /\ elm[p] = L[l][n]
      /\ Once(L) /\ Forward(next, L) /\ elm[p] \in LIST_TASKS
  BY <1>1, <1>2, <1>3, Unlinking
<1>5. BackBut(prev, L, l, n) /\ prev[CellAfter(L, l, n)] = Cell(L, l, n - 1)
  BY <1>1, <1>2, <1>3 DEF Linking, Progress
<1>6. prev[elm[p]] = Cell(L, l, n - 1)
  <2>1. n - 1 \in 0 .. Len(L[l]) /\ n - 1 # Len(L[l]) /\ Len(L[l]) \in Nat /\ n - 1 # n
    BY <1>4, CellTypes
  <2>2. CellAfter(L, l, n - 1) = elm[p]
    BY <1>4, <2>1 DEF CellAfter
  <2>. QED  BY <1>5, <2>1, <2>2 DEF BackBut, Back
<1>7. next' = [next EXCEPT ![Cell(L, l, n - 1)] = next[L[l][n]]]
  BY <1>4, <1>6 DEF RemoveForth, StoreNext
<1>8. PICK M \in Sequences : M = Removed(L, l, n)
  BY <1>4, RemoveCells
<1>9. Once(M) /\ \A u : Within(M, u) => Within(L, u) /\ u # elm[p]
  BY <1>4, <1>8, RemoveCells
<1>10. Forward(next', M) /\ Backward(prev', M)
  BY <1>2, <1>4, <1>5, <1>7, <1>8, RemoveForward, RemoveBackward DEF Held, ListTypeOK
<1>11. Forward(next, M)' /\ Backward(prev, M)'
  BY <1>10 DEF Forward, Backward, Back, Cell, CellAfter
<1>12. Apart(M)'
  BY <1>1, <1>2, <1>9, ApartStays
<1>13. Progress(M, p)'
  BY <1>2 DEF Progress
<1>14. Linking(M)'
  BY <1>1, <1>9, <1>11, <1>12, <1>13, InLock
<1>. QED  BY <1>3, <1>8, <1>14

-----------------------------------------------------------------------------
(* The invariant.                                                          *)

LEMMA ListInitInvariant == ListInit => QueueInvariant
<1>. SUFFICES ASSUME ListInit PROVE QueueInvariant
  OBVIOUS
<1>1. 0 \in LIST_LEVELS
  BY ListAssumption, FS_CardinalityType
<1>2. ListTypeOK
  BY <1>1 DEF ListInit, SpinlockInit, ListTypeOK, SpinlockTypeOK, Cells
<1>3. FlagMeansHeld /\ Owned
  BY DEF ListInit, SpinlockInit, FlagMeansHeld, Owned, Places
<1>. DEFINE Nothing == [l \in LIST_LEVELS |-> <<>>]
<1>4. Nothing \in Sequences
  BY DEF Sequences
<1>5. \A l \in LIST_LEVELS : Nothing[l] = <<>> /\ Len(Nothing[l]) = 0
  OBVIOUS
<1>. HIDE DEF Nothing
<1>6. Once(Nothing) /\ Apart(Nothing)
  BY <1>5 DEF Once, Apart, Within
<1>7. \A l \in LIST_LEVELS : \A i \in 0 .. Len(Nothing[l]) :
        i = Len(Nothing[l]) /\ Cell(Nothing, l, i) = l /\ CellAfter(Nothing, l, i) = l
  BY <1>5 DEF Cell, CellAfter
<1>8. Forward(next, Nothing)
  BY <1>7 DEF Forward, ListInit, Cells
<1>9. Backward(prev, Nothing)
  BY <1>7 DEF Backward, Back, ListInit, Cells
<1>10. \A p \in THREADS : at[p] # "in"
  BY DEF ListInit, SpinlockInit
<1>. QED
  BY <1>2, <1>3, <1>4, <1>6, <1>8, <1>9, <1>10 DEF QueueInvariant, Held, Linking, Settled

LEMMA ListNextInvariant == QueueInvariant /\ [ListNext]_listVars => QueueInvariant'
<1>. SUFFICES ASSUME QueueInvariant, [ListNext]_listVars PROVE QueueInvariant'
  OBVIOUS
<1>1. Held
  BY DEF QueueInvariant
<1>2. PICK L \in Sequences : Linking(L)
  BY DEF QueueInvariant
<1>3. Held' /\ \E M \in Sequences : Linking(M)'
  <2>1. ASSUME NEW p \in THREADS, TaskGoes(p) \/ \E t \in LIST_TASKS : TaskComes(p, t)
        PROVE  Held' /\ Linking(L)'
    BY <1>1, <1>2, <2>1, ComesGoes
  <2>2. ASSUME NEW p \in THREADS,
               BeginDequeue(p) \/ BeginSteal(p) \/ \E l \in LIST_LEVELS : BeginInsert(p, l)
        PROVE  Held' /\ Linking(L)'
    BY <1>1, <1>2, <2>2, BeginKeeps
  <2>3. ASSUME NEW p \in THREADS, KeepSpinning(p) PROVE Held' /\ Linking(L)'
    BY <1>1, <1>2, <2>3, SpinKeeps
  <2>4. ASSUME NEW p \in THREADS, Look(p) PROVE Held' /\ Linking(L)'
    BY <1>1, <1>2, <2>4, LookKeeps
  <2>5. ASSUME NEW p \in THREADS, Leave(p) PROVE Held' /\ Linking(L)'
    BY <1>1, <1>2, <2>5, LeaveKeeps
  <2>6. ASSUME NEW p \in THREADS, ListStep(p)
        PROVE  Held' /\ \E M \in Sequences : Linking(M)'
    <3>1. Held'
      BY <1>1, <2>6, ListStepHeld
    <3>2. CASE InsertNext(p) \/ InsertPrev(p)
      BY <1>1, <1>2, <2>6, <3>1, <3>2, InsertStart
    <3>3. CASE InsertStore(p)
      BY <1>1, <1>2, <2>6, <3>1, <3>3, StoreAppends
    <3>4. CASE InsertLast(p)
      BY <1>1, <1>2, <2>6, <3>1, <3>4, TailFollows
    <3>5. CASE RemoveBack(p)
      BY <1>1, <1>2, <2>6, <3>1, <3>5, BackLeaves
    <3>6. CASE RemoveForth(p)
      BY <1>1, <1>2, <2>6, <3>1, <3>6, ForthRemoves
    <3>. QED  BY <2>6, <3>1, <3>2, <3>3, <3>4, <3>5, <3>6 DEF ListStep
  <2>7. CASE UNCHANGED listVars
    <3>1. Held'
      BY <1>1, <2>7 DEF listVars, lockVars, queueVars, Held, ListTypeOK, SpinlockTypeOK,
                        FlagMeansHeld, Owned, Places
    <3>2. Linking(L)'
      BY <1>2, <2>7 DEF listVars, lockVars, queueVars, Linking, Once, Forward, Apart, Within,
                        Settled, Backward, Back, Cell, CellAfter, Progress, Index, Passed,
                        BackBut
    <3>. QED  BY <3>1, <3>2
  <2>. QED  BY <2>1, <2>2, <2>3, <2>4, <2>5, <2>6, <2>7 DEF ListNext, InsideLock
<1>. QED  BY <1>3 DEF QueueInvariant

(* The lists are as the assertions of queue.h want them between any two    *)
(* holders of the lock: for every number of threads, tasks and levels.     *)
LEMMA QueueAgrees == QueueInvariant => ListInv
<1>. SUFFICES ASSUME QueueInvariant PROVE ListInv
  OBVIOUS
<1>1. Held
  BY DEF QueueInvariant
<1>2. PICK L \in Sequences : Linking(L)
  BY DEF QueueInvariant
<1>. SUFFICES ASSUME ~is_locked PROVE LinksAgree
  BY <1>1 DEF Held, ListInv, LinksAgree
<1>3. Once(L) /\ Forward(next, L) /\ Backward(prev, L)
  <2>1. \A p \in THREADS : pos[p] \notin {"last", "forth"}
    BY <1>1 DEF Held, FlagMeansHeld, Owned, Places, ListTypeOK, SpinlockTypeOK
  <2>. QED  BY <1>2, <2>1 DEF Linking, Settled
<1>4. ASSUME NEW l \in LIST_LEVELS
      PROVE  /\ Len(L[l]) \in Nat /\ 0 \in 0 .. Len(L[l]) /\ Len(L[l]) \in 0 .. Len(L[l])
             /\ First(l) = IF Len(L[l]) = 0 THEN NULL ELSE L[l][1]
             /\ \A i \in 1 .. Len(L[l]) : L[l][i] \in LIST_TASKS
  <2>1. /\ Len(L[l]) \in Nat /\ Cell(L, l, 0) = l
        /\ \A i \in 1 .. Len(L[l]) : L[l][i] \in LIST_TASKS
    BY CellTypes
  <2>. QED  BY <1>3, <2>1 DEF Forward, First
<1>5. ASSUME NEW l \in LIST_LEVELS PROVE CheckHead(l) /\ CheckTail(l)
  <2>1. prev[CellAfter(L, l, 0)] = l
    BY <1>3, <1>4 DEF Backward, Back, Cell
  <2>2. CheckHead(l)
    BY <1>4, <2>1 DEF CheckHead, CellAfter
  <2>3. prev[l] = Cell(L, l, Len(L[l]))
    BY <1>3, <1>4 DEF Backward, Back, CellAfter
  <2>4. next[Cell(L, l, Len(L[l]))] = NULL
    BY <1>3, <1>4 DEF Forward
  <2>. QED  BY <2>2, <2>3, <2>4 DEF CheckTail
<1>6. ASSUME NEW t \in Linked PROVE CheckNext(t) /\ CheckPrev(t)
  <2>1. PICK l \in LIST_LEVELS : \E i \in DOMAIN ListOf(l) : ListOf(l)[i] = t
    BY DEF Linked
  <2>2. ListOf(l) = L[l] /\ DOMAIN L[l] = 1 .. Len(L[l])
    BY <1>2, LinkingLists, CellTypes DEF Lists
  <2>3. PICK i \in 1 .. Len(L[l]) : L[l][i] = t
    BY <2>1, <2>2
  <2>4. i \in 0 .. Len(L[l]) /\ i - 1 \in 0 .. Len(L[l]) /\ i - 1 # Len(L[l])
    BY <1>4
  <2>5. Cell(L, l, i) = t /\ CellAfter(L, l, i - 1) = t
    BY <2>3, <2>4 DEF Cell, CellAfter
  <2>6. next[t] = IF i = Len(L[l]) THEN NULL ELSE L[l][i + 1]
    BY <1>3, <2>4, <2>5 DEF Forward
  <2>7. prev[CellAfter(L, l, i)] = t
    BY <1>3, <2>4, <2>5 DEF Backward, Back
  <2>8. CheckNext(t)
    BY <2>6, <2>7 DEF CheckNext, CellAfter
  <2>9. prev[t] = Cell(L, l, i - 1)
    BY <1>3, <2>4, <2>5 DEF Backward, Back
  <2>10. next[Cell(L, l, i - 1)] = t
    BY <1>3, <2>3, <2>4 DEF Forward
  <2>. QED  BY <2>8, <2>9, <2>10 DEF CheckPrev
<1>7. ASSUME NEW k \in LIST_LEVELS, NEW l \in LIST_LEVELS, k # l, First(k) # NULL
      PROVE  First(k) # First(l)
  <2>1. Len(L[k]) # 0 /\ First(k) = L[k][1] /\ First(k) \in LIST_TASKS /\ 1 \in 1 .. Len(L[k])
    BY <1>4, <1>7
  <2>2. CASE Len(L[l]) = 0
    BY <1>4, <1>7, <2>2
  <2>3. CASE Len(L[l]) # 0
    <3>1. First(l) = L[l][1] /\ 1 \in 1 .. Len(L[l])
      BY <1>4, <2>3
    <3>. QED  BY <1>3, <1>7, <2>1, <3>1 DEF Once
  <2>. QED  BY <2>2, <2>3
<1>. QED  BY <1>5, <1>6, <1>7 DEF LinksAgree

(* The QMD_TAILQ_CHECK assertions of queue.h hold whenever the lock of the *)
(* run queue is free, for any number of tasks, levels and threads, and no  *)
(* task is at the head of two lists.                                       *)
THEOREM LinksAlwaysAgree == ListSpec => []ListInv
BY ListInitInvariant, ListNextInvariant, QueueAgrees, PTL DEF ListSpec

-----------------------------------------------------------------------------
(* The stores and tests of a queue are, for the other threads, the steps   *)
(* of FifoLevels.                                                          *)

LEMMA StepsAreFifo ==
  ASSUME QueueInvariant, [ListNext]_listVars
  PROVE  [Fifos!FifoNext]_(Fifos!fifoVars)
<1>1. Held
  BY DEF QueueInvariant
<1>2. PICK L \in Sequences : Linking(L)
  BY DEF QueueInvariant
<1>3. [l \in LIST_LEVELS |-> ListOf(l)] = L
  BY <1>2, LinkingLists DEF Lists
<1>4. ASSUME NEW M \in Sequences, Linking(M)'
      PROVE  [l \in LIST_LEVELS |-> ListOf(l)]' = M
  BY <1>4, LinkingLists DEF Lists
<1>5. ASSUME Linking(L)', Hands' = Hands PROVE UNCHANGED Fifos!fifoVars
  BY <1>3, <1>4, <1>5 DEF Fifos!fifoVars
<1>6. ASSUME NEW p \in THREADS,
             \A r \in THREADS : r # p => elm'[r] = elm[r] /\ pos'[r] = pos[r]
      PROVE  Hands' = [Hands EXCEPT ![p] = IF pos'[p] \in Ahead THEN NULL ELSE elm'[p]]
  BY <1>6 DEF Hands, Ahead
<1>7. ASSUME NEW p \in THREADS, Linking(L)',
             \A r \in THREADS : r # p => elm'[r] = elm[r] /\ pos'[r] = pos[r],
             Hands[p] = IF pos'[p] \in Ahead THEN NULL ELSE elm'[p]
      PROVE  UNCHANGED Fifos!fifoVars
  <2>1. Hands' = Hands
    BY <1>6, <1>7 DEF Hands
  <2>. QED  BY <1>5, <1>7, <2>1
<1>8. ASSUME NEW p \in THREADS, TaskGoes(p) PROVE Fifos!Lose(p)
  <2>1. Linking(L)'
    BY <1>1, <1>2, <1>8, ComesGoes
  <2>2. Hands' = [Hands EXCEPT ![p] = NULL]
    BY <1>1, <1>6, <1>8 DEF TaskGoes, Held, ListTypeOK
  <2>. QED  BY <1>3, <1>4, <2>1, <2>2 DEF Fifos!Lose
<1>9. ASSUME NEW p \in THREADS, NEW t \in LIST_TASKS, TaskComes(p, t)
      PROVE  Fifos!Gain(p, t)
  <2>1. Linking(L)'
    BY <1>1, <1>2, <1>9, ComesGoes
  <2>2. Hands[p] = NULL /\ \A r \in THREADS : Hands[r] # t
    BY <1>9, ListAssumption DEF TaskComes, Hands
  <2>3. Hands' = [Hands EXCEPT ![p] = t]
    <3>1. pos'[p] \notin Ahead /\ elm'[p] = t
      BY <1>1, <1>9 DEF TaskComes, Held, Owned, Places, ListTypeOK, Ahead
    <3>2. \A r \in THREADS : r # p => elm'[r] = elm[r] /\ pos'[r] = pos[r]
      BY <1>1, <1>9 DEF TaskComes, Held, ListTypeOK
    <3>. QED  BY <1>6, <3>1, <3>2
  <2>4. ~Fifos!Listed(t)
    BY <1>9 DEF TaskComes, Linked, Fifos!Listed
  <2>. QED  BY <1>3, <1>4, <2>1, <2>2, <2>3, <2>4 DEF Fifos!Gain
<1>10. ASSUME NEW p \in THREADS,
              BeginDequeue(p) \/ BeginSteal(p) \/ \E l \in LIST_LEVELS : BeginInsert(p, l)
       PROVE  UNCHANGED Fifos!fifoVars
  <2>1. Linking(L)'
    BY <1>1, <1>2, <1>10, BeginKeeps
  <2>0. pos[p] = "start"
    BY <1>1, <1>10 DEF BeginDequeue, BeginSteal, BeginInsert, spinlock_lock,
                       spinlock_try_lock, Held, Owned, Places
  <2>2. pos[p] \notin Ahead /\ elm' = elm /\ \A r \in THREADS : r # p => pos'[r] = pos[r]
    BY <1>1, <1>10, <2>0 DEF BeginDequeue, BeginSteal, BeginInsert, Begin, queueVars,
                             Held, ListTypeOK, Ahead
  <2>3. pos'[p] \notin Ahead
    BY <1>1, <1>10, <2>2 DEF BeginDequeue, BeginSteal, BeginInsert, Begin, queueVars,
                             Held, ListTypeOK, Ahead
  <2>. QED  BY <1>7, <2>1, <2>2, <2>3 DEF Hands, Ahead
<1>11. ASSUME NEW p \in THREADS, KeepSpinning(p) PROVE UNCHANGED Fifos!fifoVars
  <2>1. Linking(L)'
    BY <1>1, <1>2, <1>11, SpinKeeps
  <2>. QED  BY <1>5, <1>11, <2>1 DEF KeepSpinning, queueVars, Hands
<1>12. ASSUME NEW p \in THREADS, Leave(p) PROVE UNCHANGED Fifos!fifoVars
  <2>1. Linking(L)'
    BY <1>1, <1>2, <1>12, LeaveKeeps
  <2>. QED  BY <1>1, <1>7, <1>12, <2>1 DEF Leave, Hands, Held, ListTypeOK, Ahead
<1>13. ASSUME NEW p \in THREADS, Look(p) PROVE UNCHANGED Fifos!fifoVars
  <2>1. Linking(L)' /\ (pos'[p] # "back" => elm' = elm)
    BY <1>1, <1>2, <1>13, LookKeeps
  <2>2. /\ pos[p] = "look" /\ pos'[p] \in {"back", "look", "unlock"} /\ elm[p] = NULL
        /\ \A r \in THREADS : r # p => elm'[r] = elm[r] /\ pos'[r] = pos[r]
    BY <1>1, <1>13 DEF Look, NothingFound, At, Held, Owned, Places, ListTypeOK
  <2>. QED  BY <1>7, <2>1, <2>2 DEF Hands, Ahead
<1>14. ASSUME NEW p \in THREADS, ListStep(p), ~InsertStore(p), ~RemoveForth(p)
       PROVE  UNCHANGED Fifos!fifoVars
  <2>1. Linking(L)'
    BY <1>1, <1>2, <1>14, InsertStart, TailFollows, BackLeaves DEF ListStep
  <2>2. \A r \in THREADS : r # p => elm'[r] = elm[r] /\ pos'[r] = pos[r]
    BY <1>1, <1>14 DEF ListStep, InsertNext, InsertPrev, InsertLast, RemoveBack, At, Held,
                       ListTypeOK
  <2>3. Hands[p] = IF pos'[p] \in Ahead THEN NULL ELSE elm'[p]
    BY <1>1, <1>14 DEF ListStep, InsertNext, InsertPrev, InsertLast, RemoveBack, At, Held,
                       ListTypeOK, Hands, Ahead
  <2>. QED  BY <1>7, <2>1, <2>2, <2>3
<1>15. ASSUME NEW p \in THREADS, ListStep(p), InsertStore(p)
       PROVE  \E l \in LIST_LEVELS : Fifos!PutLast(p, l)
  <2>1. PICK l \in LIST_LEVELS : l = level[p]
    BY <1>1 DEF Held, ListTypeOK
  <2>2. /\ pos[p] = "store" /\ pos'[p] = "last" /\ elm' = elm
        /\ \A r \in THREADS : r # p => pos'[r] = pos[r]
    BY <1>1, <1>15 DEF InsertStore, At, Held, ListTypeOK
  <2>3. elm[p] \in LIST_TASKS
    BY <1>1, <1>2, <1>15, StoreAppends
  <2>4. PICK M \in Sequences : M = Appended(L, l, elm[p]) /\ Linking(M)'
    BY <1>1, <1>2, <1>15, <2>1, StoreAppends
  <2>5. Hands[p] = elm[p] /\ Hands' = [Hands EXCEPT ![p] = NULL]
    BY <1>6, <2>2 DEF Hands, Ahead
  <2>6. Hands[p] # NULL
    BY <2>3, <2>5, ListAssumption
  <2>7. M = [L EXCEPT ![l] = Append(@, Hands[p])]
    BY <2>4, <2>5 DEF Appended
  <2>8. Fifos!PutLast(p, l)
    BY <1>3, <1>4, <2>4, <2>5, <2>6, <2>7 DEF Fifos!PutLast
  <2>. QED  BY <2>8
<1>16. ASSUME NEW p \in THREADS, ListStep(p), RemoveForth(p)
       PROVE  \E l \in LIST_LEVELS : Fifos!TakeFirst(p, l) \/ Fifos!TakeEnd(p, l)
  <2>1. at[p] = "in" /\ elm' = elm
    BY <1>1, <1>16, ListStepHeld DEF RemoveForth
  <2>2. /\ pos[p] = "forth" /\ pos'[p] = "unlock"
        /\ \A r \in THREADS : r # p => pos'[r] = pos[r]
    BY <1>1, <1>16 DEF RemoveForth, At, Held, ListTypeOK
  <2>3. PICK l \in LIST_LEVELS : l = level[p]
    BY <1>1 DEF Held, ListTypeOK
  <2>4. PICK M \in Sequences : M = Removed(L, l, Index(L, p)) /\ Linking(M)'
    BY <1>1, <1>2, <1>16, <2>3, ForthRemoves
  <2>5. L[l] # <<>> /\ elm[p] = L[l][Index(L, p)]
    BY <1>1, <1>2, <2>1, <2>2, <2>3, Unlinking
  <2>6. L[l] \in Seq(LIST_TASKS) /\ Len(L[l]) \in Nat \ {0}
    BY <2>5, CellTypes
  <2>7. Hands[p] = NULL /\ Hands' = [Hands EXCEPT ![p] = elm[p]]
    BY <1>6, <2>1, <2>2 DEF Hands, Ahead
  <2>8. \A k \in LIST_LEVELS : Passed(p, k) => L[k] = <<>>
    BY <1>2, <2>1, <2>2 DEF Linking, Progress
  <2>9. \A k \in LIST_LEVELS : k \in Int
    BY ListAssumption, FS_CardinalityType
  <2>10. Fifos!Filled = {k \in LIST_LEVELS : L[k] # <<>>}
    BY <1>3 DEF Fifos!Filled
  <2>11. CASE job[p] = "steal"
    <3>1. Index(L, p) = Len(L[l]) /\ \A k \in Fifos!Filled : l >= k
      BY <2>3, <2>8, <2>9, <2>10, <2>11 DEF Index, Passed
    <3>2. M = [L EXCEPT ![l] = SubSeq(L[l], 1, Len(L[l]) - 1)]
      <4>1. SubSeq(L[l], 1, Len(L[l]) - 1) = [k \in 1 .. Len(L[l]) - 1 |-> L[l][k]]
        BY <2>6
      <4>2. [k \in 1 .. Len(L[l]) - 1 |-> L[l][IF k < Len(L[l]) THEN k ELSE k + 1]]
              = [k \in 1 .. Len(L[l]) - 1 |-> L[l][k]]
        BY <2>6
      <4>. QED  BY <2>4, <3>1, <4>1, <4>2 DEF Removed
    <3>3. Fifos!TakeEnd(p, l)
      BY <1>3, <1>4, <2>4, <2>5, <2>7, <2>10, <3>1, <3>2 DEF Fifos!TakeEnd
    <3>. QED  BY <3>3
  <2>12. CASE job[p] # "steal"
    <3>1. Index(L, p) = 1 /\ \A k \in Fifos!Filled : l <= k
      BY <2>3, <2>8, <2>9, <2>10, <2>12 DEF Index, Passed
    <3>2. M = [L EXCEPT ![l] = Tail(L[l])]
      <4>1. Tail(L[l]) = [k \in 1 .. Len(L[l]) - 1 |-> L[l][k + 1]]
        BY <2>6
      <4>2. [k \in 1 .. Len(L[l]) - 1 |-> L[l][IF k < 1 THEN k ELSE k + 1]]
              = [k \in 1 .. Len(L[l]) - 1 |-> L[l][k + 1]]
        BY <2>6
      <4>. QED  BY <2>4, <3>1, <4>1, <4>2 DEF Removed
    <3>3. L[l][1] = Head(L[l])
      BY <2>6
    <3>4. Fifos!TakeFirst(p, l)
      BY <1>3, <1>4, <2>4, <2>5, <2>7, <2>10, <3>1, <3>2, <3>3 DEF Fifos!TakeFirst
    <3>. QED  BY <3>4
  <2>. QED  BY <2>11, <2>12
<1>17. CASE UNCHANGED listVars
  <2>1. UNCHANGED <<next, pos, elm>>
    BY <1>17 DEF listVars, queueVars
  <2>. QED  BY <2>1 DEF Fifos!fifoVars, ListOf, Hands
<1>18. CASE ListNext
  BY <1>8, <1>9, <1>10, <1>11, <1>12, <1>13, <1>14, <1>15, <1>16, <1>18
  DEF ListNext, InsideLock, Fifos!FifoNext
<1>. QED  BY <1>17, <1>18

LEMMA ListInitIsFifo == ListInit => Fifos!FifoInit
<1>. SUFFICES ASSUME ListInit PROVE Fifos!FifoInit
  OBVIOUS
<1>. DEFINE Nothing == [l \in LIST_LEVELS |-> <<>>]
<1>1. Nothing \in Sequences /\ \A l \in LIST_LEVELS : Nothing[l] = <<>> /\ Len(Nothing[l]) = 0
  BY DEF Sequences
<1>. HIDE DEF Nothing
<1>2. Once(Nothing) /\ Forward(next, Nothing)
  BY <1>1 DEF ListInit, Cells, Once, Forward, Cell
<1>3. [l \in LIST_LEVELS |-> ListOf(l)] = Nothing
  BY <1>1, <1>2, ListsAre DEF ListOf
<1>4. Hands = [p \in THREADS |-> NULL]
  BY DEF ListInit, Hands
<1>. QED  BY <1>3, <1>4 DEF Fifos!FifoInit, Nothing

(* SchedMLFQ is right to take a run queue for a sequence per level: with   *)
(* any number of threads, tasks and levels the TAILQ macros under the      *)
(* spinlock do what FifoLevels says.                                       *)
THEOREM QueueIsFifos == ListSpec => ImplementsFifos
<1>1. ListInit => Fifos!FifoInit
  BY ListInitIsFifo
<1>2. QueueInvariant /\ [ListNext]_listVars => [Fifos!FifoNext]_(Fifos!fifoVars)
  BY StepsAreFifo
<1>. QED
  BY <1>1, <1>2, ListInitInvariant, ListNextInvariant, PTL
  DEF ListSpec, ImplementsFifos, Fifos!FifoSpec

-----------------------------------------------------------------------------
(* The contexts                                                            *)

(* The words of a frame, from the one rsp points to in a saved context.    *)
Offset(r) == (CHOOSE i \in 1 .. 6 : Popped[i] = r) - 1

EntryRegs(u) ==
  [r \in Saved |-> CASE r = "r15" -> <<u>>
                     [] r = "r14" -> <<argument[u]>>
                     [] OTHER -> Zero]

(* A stack whose owner is in a call of uthread_switch holds what it needs  *)
(* to come back.                                                           *)
Suspended(s) ==
  /\ left[s] \in SavedContexts
  /\ context[s] = left[s].rsp - 7
  /\ memory[s][left[s].rsp - 1] = <<s, "rip">>
  /\ \A r \in Saved : memory[s][left[s].rsp - 7 + Offset(r)] = left[s].regs[r]

(* A stack whose task has not run yet holds its first frame.               *)
Prepared(u) ==
  /\ left[u] = NULL /\ argument[u] \in ARGUMENTS
  /\ context[u] = STACK_WORDS
  /\ memory[u][STACK_WORDS + 6] = <<"entry">>
  /\ \A r \in Saved : memory[u][STACK_WORDS + Offset(r)] = EntryRegs(u)[r]

(* The words from rsp upwards are the frames of the calls of u.            *)
Frames(u, rsp) == \A a \in rsp .. STACK_WORDS + 6 : memory[u][a] = <<u, "call", a>>

SlotContext(u) ==
  /\ slot[u] # "NULL" => u \in mapped
  /\ slot[u] = "ready" => Prepared(u) \/ (Suspended(u) /\ Frames(u, left[u].rsp))

CpuContext(c) ==
  LET s == cpu[c].stack IN
  s # c => slot[s] = "running" /\ Suspended(c) /\ Frames(s, cpu[c].rsp)

ContextInvariant ==
  /\ UthreadTypeOK
  /\ \A c, d \in CPUS : cpu[c].stack = cpu[d].stack => c = d
  /\ \A u \in UTHREADS : SlotContext(u)
  /\ \A c \in CPUS : CpuContext(c)

-----------------------------------------------------------------------------
(* The layout of a frame, and what the pushes of a switch leave in it.     *)

LEMMA FrameLayout ==
  /\ Saved = {"rbx", "rbp", "r12", "r13", "r14", "r15"}
  /\ Offset("r15") = 0 /\ Offset("r14") = 1 /\ Offset("r13") = 2
  /\ Offset("r12") = 3 /\ Offset("rbp") = 4 /\ Offset("rbx") = 5
  /\ FrameWord("r15") = STACK_WORDS /\ FrameWord("r14") = STACK_WORDS + 1
  /\ FrameWord("rip") = STACK_WORDS + 6
<1>1. Saved = {"rbx", "rbp", "r12", "r13", "r14", "r15"}
  <2>1. Saved = {Pushed[1], Pushed[2], Pushed[3], Pushed[4], Pushed[5], Pushed[6]}
    BY DEF Saved
  <2>. QED  BY <2>1 DEF Pushed
<1>2. /\ Popped[1] = "r15" /\ Popped[2] = "r14" /\ Popped[3] = "r13"
      /\ Popped[4] = "r12" /\ Popped[5] = "rbp" /\ Popped[6] = "rbx"
  BY DEF Popped
<1>3. \A i \in 1 .. 6 : i = 1 \/ i = 2 \/ i = 3 \/ i = 4 \/ i = 5 \/ i = 6
  OBVIOUS
<1>4. /\ Offset("r15") = 0 /\ Offset("r14") = 1 /\ Offset("r13") = 2
      /\ Offset("r12") = 3 /\ Offset("rbp") = 4 /\ Offset("rbx") = 5
  <2>1. (CHOOSE i \in 1 .. 6 : Popped[i] = "r15") = 1
    BY <1>2, <1>3
  <2>2. (CHOOSE i \in 1 .. 6 : Popped[i] = "r14") = 2
    BY <1>2, <1>3
  <2>3. (CHOOSE i \in 1 .. 6 : Popped[i] = "r13") = 3
    BY <1>2, <1>3
  <2>4. (CHOOSE i \in 1 .. 6 : Popped[i] = "r12") = 4
    BY <1>2, <1>3
  <2>5. (CHOOSE i \in 1 .. 6 : Popped[i] = "rbp") = 5
    BY <1>2, <1>3
  <2>6. (CHOOSE i \in 1 .. 6 : Popped[i] = "rbx") = 6
    BY <1>2, <1>3
  <2>. QED  BY <2>1, <2>2, <2>3, <2>4, <2>5, <2>6 DEF Offset
<1>5. /\ Frame[1] = "r15" /\ Frame[2] = "r14" /\ Frame[3] = "r13" /\ Frame[4] = "r12"
      /\ Frame[5] = "rbp" /\ Frame[6] = "rbx" /\ Frame[7] = "rip"
  BY DEF Frame
<1>6. \A i \in 1 .. 7 : i = 1 \/ i = 2 \/ i = 3 \/ i = 4 \/ i = 5 \/ i = 6 \/ i = 7
  OBVIOUS
<1>7. /\ (CHOOSE i \in 1 .. 7 : Frame[i] = "r15") = 1
      /\ (CHOOSE i \in 1 .. 7 : Frame[i] = "r14") = 2
      /\ (CHOOSE i \in 1 .. 7 : Frame[i] = "rip") = 7
  <2>1. (CHOOSE i \in 1 .. 7 : Frame[i] = "r15") = 1
    BY <1>5, <1>6
  <2>2. (CHOOSE i \in 1 .. 7 : Frame[i] = "r14") = 2
    BY <1>5, <1>6
  <2>3. (CHOOSE i \in 1 .. 7 : Frame[i] = "rip") = 7
    BY <1>5, <1>6
  <2>. QED  BY <2>1, <2>2, <2>3
<1>8. /\ FrameWord("r15") = STACK_WORDS + 1 - 1 /\ FrameWord("r14") = STACK_WORDS + 2 - 1
      /\ FrameWord("rip") = STACK_WORDS + 7 - 1
  BY <1>7, Zenon DEF FrameWord
<1>. QED  BY <1>1, <1>4, <1>8, UthreadAssumption

(* What is pushed last is popped first.                                    *)
LEMMA OffsetsOfPushed ==
  \A r \in Saved : Offset(r) \in 0 .. 5 /\ Pushed[6 - Offset(r)] = r
<1>1. /\ Pushed[1] = "rbx" /\ Pushed[2] = "rbp" /\ Pushed[3] = "r12"
      /\ Pushed[4] = "r13" /\ Pushed[5] = "r14" /\ Pushed[6] = "r15"
  BY DEF Pushed
<1>. QED  BY <1>1, FrameLayout

LEMMA PushedAreSaved == \A i \in 1 .. 6 : Pushed[i] \in Saved
BY DEF Saved

LEMMA DepthsInWords ==
  \A rsp \in Depths : /\ rsp \in Nat /\ rsp - 7 \in Words /\ rsp - 7 \in 0 .. STACK_WORDS
                      /\ rsp - 1 \in Words
BY UthreadAssumption DEF Depths, Words

LEMMA SpilledWords ==
  ASSUME UthreadTypeOK, NEW c \in CPUS
  PROVE  LET rsp == cpu[c].rsp
             s == cpu[c].stack
         IN  /\ Spilled(c) \in [Words -> Contents]
             /\ Spilled(c)[rsp - 1] = <<s, "rip">>
             /\ \A r \in Saved : Spilled(c)[rsp - 7 + Offset(r)] = cpu[c].regs[r]
             /\ \A a \in Words : a >= rsp => Spilled(c)[a] = memory[s][a]
<1>. DEFINE rsp == cpu[c].rsp
            s == cpu[c].stack
<1>1. /\ rsp \in Depths /\ s \in Stacks /\ cpu[c].regs \in [Saved -> Values]
      /\ memory[s] \in [Words -> Contents]
  BY DEF UthreadTypeOK
<1>2. rsp \in Nat /\ rsp - 1 \in Words /\ rsp - 7 \in 0 .. STACK_WORDS
  BY <1>1, DepthsInWords
<1>. HIDE DEF rsp, s
<1>3. Spilled(c) = [a \in Words |->
                      IF a = rsp - 1 THEN <<s, "rip">>
                      ELSE IF a \in rsp - 7 .. rsp - 2 THEN cpu[c].regs[Pushed[rsp - 1 - a]]
                      ELSE memory[s][a]]
  BY DEF Spilled, rsp, s
<1>4. ASSUME NEW a \in Words
      PROVE  (IF a = rsp - 1 THEN <<s, "rip">>
              ELSE IF a \in rsp - 7 .. rsp - 2 THEN cpu[c].regs[Pushed[rsp - 1 - a]]
              ELSE memory[s][a]) \in Contents
  <2>1. <<s, "rip">> \in Contents
    BY <1>1 DEF Contents, Addresses
  <2>2. a \in rsp - 7 .. rsp - 2 => cpu[c].regs[Pushed[rsp - 1 - a]] \in Contents
    <3>1. a \in rsp - 7 .. rsp - 2 => rsp - 1 - a \in 1 .. 6
      BY <1>2
    <3>. QED  BY <1>1, <3>1, PushedAreSaved DEF Contents
  <2>. QED  BY <1>1, <2>1, <2>2
<1>5. Spilled(c) \in [Words -> Contents]
  BY <1>3, <1>4
<1>6. ASSUME NEW r \in Saved PROVE Spilled(c)[rsp - 7 + Offset(r)] = cpu[c].regs[r]
  <2>. DEFINE a == rsp - 7 + Offset(r)
  <2>1. /\ a \in rsp - 7 .. rsp - 2 /\ a # rsp - 1 /\ a \in Words
        /\ rsp - 1 - a = 6 - Offset(r)
    BY <1>2, OffsetsOfPushed, UthreadAssumption DEF Words
  <2>2. Pushed[rsp - 1 - a] = r
    BY <2>1, OffsetsOfPushed
  <2>. QED  BY <1>3, <2>1, <2>2
<1>7. Spilled(c)[rsp - 1] = <<s, "rip">>
  BY <1>2, <1>3
<1>8. \A a \in Words : a >= rsp => Spilled(c)[a] = memory[s][a]
  BY <1>2, <1>3 DEF Words
<1>. QED  BY <1>5, <1>6, <1>7, <1>8 DEF rsp, s

-----------------------------------------------------------------------------
(* A switch to a stack that can be resumed.                                *)

LEMMA SwitchLoads ==
  ASSUME UthreadTypeOK, NEW c \in CPUS, NEW s \in Stacks, uthread_switch(c, s)
  PROVE  /\ Suspended(s) => /\ cpu'[c].rsp = left[s].rsp
                            /\ cpu'[c].regs = left[s].regs
                            /\ cpu'[c].rip = <<s, "rip">>
         /\ Prepared(s) => /\ cpu'[c].rsp = STACK_WORDS + 7
                           /\ cpu'[c].regs = EntryRegs(s)
                           /\ cpu'[c].rip = <<"entry">>
         /\ cpu'[c].stack = s
         /\ \A d \in CPUS : d # c => cpu'[d] = cpu[d]
<1>1. /\ cpu'[c] = [stack |-> s, rsp |-> context[s] + 7,
                    regs |-> [r \in Saved |-> memory[s][context[s] + Offset(r)]],
                    rip |-> memory[s][context[s] + 6]]
      /\ \A d \in CPUS : d # c => cpu'[d] = cpu[d]
  <2>1. context[s] \in Words \cup {NULL}
    BY DEF UthreadTypeOK
  <2>2. [r \in Saved |-> memory[s][context[s] + (CHOOSE i \in 1 .. 6 : Popped[i] = r) - 1]]
          = [r \in Saved |-> memory[s][context[s] + Offset(r)]]
    BY DEF Offset
  <2>. QED  BY <2>2 DEF UthreadTypeOK, uthread_switch
<1>2. ASSUME Suspended(s)
      PROVE  /\ cpu'[c].rsp = left[s].rsp /\ cpu'[c].regs = left[s].regs
             /\ cpu'[c].rip = <<s, "rip">>
  <2>1. left[s].rsp \in Nat /\ left[s].regs \in [Saved -> Values]
    BY <1>2, DepthsInWords DEF Suspended, SavedContexts
  <2>2. context[s] + 7 = left[s].rsp /\ context[s] + 6 = left[s].rsp - 1
    BY <1>2, <2>1 DEF Suspended
  <2>3. \A r \in Saved : memory[s][context[s] + Offset(r)] = left[s].regs[r]
    BY <1>2 DEF Suspended
  <2>4. [r \in Saved |-> memory[s][context[s] + Offset(r)]] = left[s].regs
    BY <2>1, <2>3
  <2>. QED  BY <1>1, <1>2, <2>2, <2>4 DEF Suspended
<1>3. ASSUME Prepared(s)
      PROVE  /\ cpu'[c].rsp = STACK_WORDS + 7 /\ cpu'[c].regs = EntryRegs(s)
             /\ cpu'[c].rip = <<"entry">>
  <2>1. [r \in Saved |-> memory[s][context[s] + Offset(r)]] = EntryRegs(s)
    BY <1>3 DEF Prepared, EntryRegs
  <2>. QED  BY <1>1, <1>3, <2>1 DEF Prepared
<1>. QED  BY <1>1, <1>2, <1>3

LEMMA SwitchSaves ==
  ASSUME UthreadTypeOK, NEW c \in CPUS, NEW s \in Stacks, uthread_switch(c, s),
         NEW x \in Stacks, x = cpu[c].stack
  PROVE  /\ memory' \in [Stacks -> [Words -> Contents]]
         /\ context' \in [Stacks -> Words \cup {NULL}]
         /\ left' \in [Stacks -> SavedContexts \cup {NULL}]
         /\ Suspended(x)'
         /\ \A y \in Stacks : y # x =>
              memory'[y] = memory[y] /\ context'[y] = context[y] /\ left'[y] = left[y]
         /\ left'[x].rsp = cpu[c].rsp
         /\ \A a \in Words : a >= cpu[c].rsp =>
              memory'[x][a] = memory[x][a]
<1>1. PICK rsp \in Depths, regs \in [Saved -> Values] :
        rsp = cpu[c].rsp /\ regs = cpu[c].regs
  BY DEF UthreadTypeOK
<1>2. rsp \in Nat /\ rsp - 7 \in Words
  BY DepthsInWords
<1>3. PICK words \in [Words -> Contents] : words = Spilled(c)
  BY SpilledWords
<1>4. /\ words[rsp - 1] = <<x, "rip">>
      /\ \A r \in Saved : words[rsp - 7 + Offset(r)] = regs[r]
      /\ \A a \in Words : a >= rsp => words[a] = memory[x][a]
  BY <1>1, <1>3, SpilledWords
<1>5. /\ memory' = [memory EXCEPT ![x] = words]
      /\ context' = [context EXCEPT ![x] = rsp - 7]
      /\ left' = [left EXCEPT ![x] = [rsp |-> rsp, regs |-> regs]]
  BY <1>1, <1>3 DEF uthread_switch, SavedRsp
<1>6. [rsp |-> rsp, regs |-> regs] \in SavedContexts
  BY DEF SavedContexts
<1>7. /\ memory' \in [Stacks -> [Words -> Contents]]
      /\ context' \in [Stacks -> Words \cup {NULL}]
      /\ left' \in [Stacks -> SavedContexts \cup {NULL}]
  BY <1>2, <1>5, <1>6 DEF UthreadTypeOK
<1>8. /\ memory'[x] = words /\ context'[x] = rsp - 7
      /\ left'[x] = [rsp |-> rsp, regs |-> regs]
      /\ \A y \in Stacks : y # x =>
           memory'[y] = memory[y] /\ context'[y] = context[y] /\ left'[y] = left[y]
  BY <1>5 DEF UthreadTypeOK
<1>9. Suspended(x)'
  BY <1>4, <1>6, <1>8 DEF Suspended, Offset
<1>. QED  BY <1>1, <1>4, <1>7, <1>8, <1>9

-----------------------------------------------------------------------------
(* The invariant.                                                          *)

(* What the steps of other stacks leave alone.                             *)
LEMMA StackStays ==
  ASSUME NEW s \in Stacks,
         memory'[s] = memory[s], context'[s] = context[s], left'[s] = left[s]
  PROVE  /\ Suspended(s)' <=> Suspended(s)
         /\ \A rsp : Frames(s, rsp)' <=> Frames(s, rsp)
BY DEF Suspended, Frames, Offset

LEMMA SlotStays ==
  ASSUME NEW u \in UTHREADS, SlotContext(u),
         memory'[u] = memory[u], context'[u] = context[u], left'[u] = left[u],
         slot'[u] = slot[u], argument'[u] = argument[u], u \in mapped => u \in mapped'
  PROVE  SlotContext(u)'
<1>1. Prepared(u)' <=> Prepared(u)
  BY DEF Prepared, EntryRegs, Offset
<1>2. (Suspended(u) /\ Frames(u, left[u].rsp))' <=> (Suspended(u) /\ Frames(u, left[u].rsp))
  BY DEF Suspended, Frames, Offset
<1>. QED  BY <1>1, <1>2 DEF SlotContext

LEMMA InitContextInvariant == UthreadInit => ContextInvariant
<1>. SUFFICES ASSUME UthreadInit PROVE ContextInvariant
  OBVIOUS
<1>1. Zeroed \in [Words -> Contents]
  BY DEF Zeroed, Contents, Values
<1>2. \A c \in CPUS : Own(c) \in [Saved -> Values] /\ <<c, "rip">> \in Addresses
  BY DEF Own, Values, Addresses, Stacks
<1>3. STACK_WORDS + 7 \in Depths
  BY UthreadAssumption DEF Depths
<1>4. UthreadTypeOK
  BY <1>1, <1>2, <1>3 DEF UthreadInit, UthreadTypeOK, Stacks
<1>5. \A c \in CPUS : cpu[c].stack = c
  BY DEF UthreadInit
<1>. QED  BY <1>4, <1>5 DEF ContextInvariant, UthreadInit, SlotContext, CpuContext

(* A frame that a submission makes.                                        *)
LEMMA SubmitPrepares ==
  ASSUME UthreadTypeOK, NEW u \in UTHREADS, NEW m \in [Words -> Contents],
         NEW arg \in ARGUMENTS, Submit(u, m, arg)
  PROVE  /\ memory' \in [Stacks -> [Words -> Contents]]
         /\ Prepared(u)'
         /\ \A s \in Stacks : s # u =>
              memory'[s] = memory[s] /\ context'[s] = context[s] /\ left'[s] = left[s]
<1>. DEFINE new == SetArg1(SetArg0(SetEntry(Reset(m), <<"entry">>), <<u>>), <<arg>>)
<1>1. u \in Stacks /\ STACK_WORDS \in Nat
  BY UthreadAssumption DEF Stacks
<1>2. /\ <<"entry">> \in Contents /\ <<u>> \in Contents /\ <<arg>> \in Contents
      /\ Zero \in Contents
  BY DEF Contents, Values, Addresses
<1>3. Reset(m) \in [Words -> Contents] /\ \A a \in Words : a >= STACK_WORDS => Reset(m)[a] = Zero
  BY <1>2 DEF Reset
<1>4. \A i \in 0 .. 6 : STACK_WORDS + i \in Words
  BY <1>1 DEF Words
<1>5. new = [[[Reset(m) EXCEPT ![STACK_WORDS + 6] = <<"entry">>]
                EXCEPT ![STACK_WORDS] = <<u>>]
                EXCEPT ![STACK_WORDS + 1] = <<arg>>]
  BY FrameLayout DEF SetArg1, SetArg0, SetEntry
<1>6. new \in [Words -> Contents]
  BY <1>2, <1>3, <1>5
<1>7. /\ new[STACK_WORDS + 6] = <<"entry">> /\ new[STACK_WORDS] = <<u>>
      /\ new[STACK_WORDS + 1] = <<arg>>
      /\ \A i \in 2 .. 5 : new[STACK_WORDS + i] = Zero
  <2>1. /\ STACK_WORDS \in Words /\ STACK_WORDS + 1 \in Words /\ STACK_WORDS + 6 \in Words
        /\ \A i \in 2 .. 5 : STACK_WORDS + i \in Words /\ STACK_WORDS + i >= STACK_WORDS
    BY <1>1, <1>4
  <2>2. PICK z \in [Words -> Contents] :
          z = Reset(m) /\ \A a \in Words : a >= STACK_WORDS => z[a] = Zero
    BY <1>3
  <2>. DEFINE z1 == [z EXCEPT ![STACK_WORDS + 6] = <<"entry">>]
              z2 == [z1 EXCEPT ![STACK_WORDS] = <<u>>]
              z3 == [z2 EXCEPT ![STACK_WORDS + 1] = <<arg>>]
  <2>3. /\ z1 \in [Words -> Contents] /\ z1[STACK_WORDS + 6] = <<"entry">>
        /\ \A a \in Words : a # STACK_WORDS + 6 => z1[a] = z[a]
    BY <1>2, <2>1
  <2>. HIDE DEF z1
  <2>4. /\ z2 \in [Words -> Contents] /\ z2[STACK_WORDS] = <<u>>
        /\ \A a \in Words : a # STACK_WORDS => z2[a] = z1[a]
    BY <1>2, <2>1, <2>3
  <2>. HIDE DEF z2
  <2>5. /\ z3[STACK_WORDS + 1] = <<arg>>
        /\ \A a \in Words : a # STACK_WORDS + 1 => z3[a] = z2[a]
    BY <1>2, <2>1, <2>4
  <2>6. new = z3
    BY <1>5, <2>2 DEF z1, z2
  <2>. HIDE DEF z3, new
  <2>7. \A i \in 2 .. 5 : z3[STACK_WORDS + i] = Zero
    BY <1>1, <2>1, <2>2, <2>3, <2>4, <2>5
  <2>8. z3[STACK_WORDS + 6] = <<"entry">> /\ z3[STACK_WORDS] = <<u>>
    BY <1>1, <2>1, <2>3, <2>4, <2>5
  <2>. QED  BY <2>5, <2>6, <2>7, <2>8
<1>. HIDE DEF new
<1>8. /\ memory' = [memory EXCEPT ![u] = new]
      /\ context' = [context EXCEPT ![u] = STACK_WORDS]
      /\ left' = [left EXCEPT ![u] = NULL] /\ argument' = [argument EXCEPT ![u] = arg]
  BY DEF Submit, new
<1>9. /\ memory'[u] = new /\ context'[u] = STACK_WORDS /\ left'[u] = NULL
      /\ argument'[u] = arg
      /\ \A s \in Stacks : s # u =>
              memory'[s] = memory[s] /\ context'[s] = context[s] /\ left'[s] = left[s]
  BY <1>1, <1>8 DEF UthreadTypeOK
<1>10. \A r \in Saved : new[STACK_WORDS + Offset(r)]
                          = CASE r = "r15" -> <<u>> [] r = "r14" -> <<arg>> [] OTHER -> Zero
  BY <1>1, <1>7, FrameLayout
<1>11. Prepared(u)'
  <2>1. \A r \in Saved : EntryRegs(u)'[r]
                           = CASE r = "r15" -> <<u>> [] r = "r14" -> <<arg>> [] OTHER -> Zero
    BY <1>9 DEF EntryRegs
  <2>. QED  BY <1>7, <1>9, <1>10, <2>1 DEF Prepared, Offset, EntryRegs
<1>. QED  BY <1>1, <1>6, <1>8, <1>9, <1>11 DEF UthreadTypeOK

LEMMA SubmitKeeps ==
  ASSUME ContextInvariant, NEW u \in UTHREADS, NEW arg \in ARGUMENTS,
         SubmitNew(u, arg) \/ SubmitAgain(u, arg)
  PROVE  ContextInvariant'
<1>. USE DEF ContextInvariant
<1>1. /\ slot[u] \in {"NULL", "idle"} /\ mapped' = mapped \cup {u}
      /\ u \in Stacks /\ u \notin CPUS
  BY UthreadAssumption DEF SubmitNew, SubmitAgain, SlotContext, Stacks
<1>2. PICK m \in [Words -> Contents] : Submit(u, m, arg)
  <2>1. Zeroed \in [Words -> Contents]
    BY DEF Zeroed, Contents, Values
  <2>. QED  BY <1>1, <2>1 DEF SubmitNew, SubmitAgain, UthreadTypeOK
<1>3. /\ memory' \in [Stacks -> [Words -> Contents]] /\ Prepared(u)'
      /\ \A s \in Stacks : s # u =>
           memory'[s] = memory[s] /\ context'[s] = context[s] /\ left'[s] = left[s]
  BY <1>2, SubmitPrepares
<1>4. /\ cpu' = cpu /\ process' = process /\ slot' = [slot EXCEPT ![u] = "ready"]
      /\ context' = [context EXCEPT ![u] = STACK_WORDS]
      /\ left' = [left EXCEPT ![u] = NULL] /\ argument' = [argument EXCEPT ![u] = arg]
  BY <1>2 DEF Submit
<1>5. UthreadTypeOK'
  <2>1. STACK_WORDS \in Words
    BY UthreadAssumption DEF Words
  <2>. QED  BY <1>1, <1>3, <1>4, <2>1 DEF UthreadTypeOK
<1>6. \A v \in UTHREADS : SlotContext(v)'
  <2>1. SlotContext(u)'
    BY <1>1, <1>3 DEF SlotContext
  <2>2. ASSUME NEW v \in UTHREADS, v # u PROVE SlotContext(v)'
    <3>1. v \in Stacks /\ slot'[v] = slot[v] /\ argument'[v] = argument[v]
      BY <1>4, <2>2 DEF UthreadTypeOK, Stacks
    <3>. QED  BY <1>1, <1>3, <2>2, <3>1, SlotStays
  <2>. QED  BY <2>1, <2>2
<1>7. ASSUME NEW c \in CPUS PROVE CpuContext(c)'
  <2>. SUFFICES ASSUME cpu[c].stack # c PROVE CpuContext(c)'
    BY <1>4 DEF CpuContext
  <2>1. PICK s \in Stacks : s = cpu[c].stack
    BY DEF UthreadTypeOK
  <2>2. slot[s] = "running" /\ Suspended(c) /\ Frames(s, cpu[c].rsp) /\ s \in UTHREADS
    BY <2>1 DEF CpuContext, UthreadTypeOK
  <2>3. s # u /\ c # u /\ c \in Stacks
    BY <1>1, <2>2 DEF Stacks
  <2>4. Suspended(c)' /\ Frames(s, cpu[c].rsp)'
    BY <1>3, <1>4, <2>2, <2>3, StackStays DEF Frames
  <2>5. slot'[s] = "running"
    BY <1>4, <2>2, <2>3 DEF UthreadTypeOK
  <2>. QED  BY <1>4, <2>1, <2>4, <2>5 DEF CpuContext, Frames
<1>. QED  BY <1>4, <1>5, <1>6, <1>7

LEMMA ReleaseKeeps ==
  ASSUME ContextInvariant, NEW u \in UTHREADS, Release(u)
  PROVE  ContextInvariant'
<1>. USE DEF ContextInvariant
<1>1. u \in Stacks /\ u \notin CPUS /\ slot[u] = "finished"
  BY UthreadAssumption DEF Release, Stacks
<1>2. /\ UNCHANGED <<cpu, mapped, process, argument>>
      /\ memory' = [memory EXCEPT ![u] = Reset(@)]
      /\ slot' = [slot EXCEPT ![u] = "idle"]
      /\ context' = [context EXCEPT ![u] = STACK_WORDS]
      /\ left' = [left EXCEPT ![u] = NULL]
  BY DEF Release
<1>3. \A s \in Stacks : s # u =>
           memory'[s] = memory[s] /\ context'[s] = context[s] /\ left'[s] = left[s]
  BY <1>1, <1>2 DEF UthreadTypeOK
<1>4. UthreadTypeOK'
  <2>1. STACK_WORDS \in Words
    BY UthreadAssumption DEF Words
  <2>2. Reset(memory[u]) \in [Words -> Contents]
    <3>1. memory[u] \in [Words -> Contents] /\ Zero \in Contents
      BY <1>1 DEF UthreadTypeOK, Contents, Values
    <3>. QED  BY <3>1 DEF Reset
  <2>. QED  BY <1>1, <1>2, <2>1, <2>2 DEF UthreadTypeOK
<1>5. \A v \in UTHREADS : SlotContext(v)'
  <2>1. SlotContext(u)'
    BY <1>1, <1>2 DEF SlotContext, UthreadTypeOK
  <2>2. ASSUME NEW v \in UTHREADS, v # u PROVE SlotContext(v)'
    <3>1. v \in Stacks /\ slot'[v] = slot[v]
      BY <1>2, <2>2 DEF UthreadTypeOK, Stacks
    <3>. QED  BY <1>2, <1>3, <2>2, <3>1, SlotStays
  <2>. QED  BY <2>1, <2>2
<1>6. ASSUME NEW c \in CPUS PROVE CpuContext(c)'
  <2>. SUFFICES ASSUME cpu[c].stack # c PROVE CpuContext(c)'
    BY <1>2 DEF CpuContext
  <2>1. PICK s \in Stacks : s = cpu[c].stack
    BY DEF UthreadTypeOK
  <2>2. slot[s] = "running" /\ Suspended(c) /\ Frames(s, cpu[c].rsp) /\ s \in UTHREADS
    BY <2>1 DEF CpuContext, UthreadTypeOK
  <2>3. s # u /\ c # u /\ c \in Stacks
    BY <1>1, <2>2 DEF Stacks
  <2>4. Suspended(c)' /\ Frames(s, cpu[c].rsp)'
    BY <1>2, <1>3, <2>2, <2>3, StackStays DEF Frames
  <2>5. slot'[s] = "running"
    BY <1>2, <2>2, <2>3 DEF UthreadTypeOK
  <2>. QED  BY <1>2, <2>1, <2>4, <2>5 DEF CpuContext, Frames
<1>. QED  BY <1>2, <1>4, <1>5, <1>6

(* What is true of the others when one worker moves between two stacks.    *)
LEMMA OthersStay ==
  ASSUME ContextInvariant, NEW c \in CPUS, NEW x \in Stacks, NEW u \in UTHREADS,
         x = cpu[c].stack, \A d \in CPUS : d # c => cpu[d].stack # u /\ cpu'[d] = cpu[d],
         \A y \in Stacks : y # x =>
           memory'[y] = memory[y] /\ context'[y] = context[y] /\ left'[y] = left[y],
         \A v \in UTHREADS : v # u => slot'[v] = slot[v],
         UNCHANGED <<mapped, argument>>, x = c \/ x = u
  PROVE  /\ \A v \in UTHREADS : v # u => SlotContext(v)'
         /\ \A d \in CPUS : d # c => CpuContext(d)'
<1>1. u \in Stacks /\ u \notin CPUS /\ c \in Stacks
  BY UthreadAssumption DEF Stacks
<1>2. ASSUME NEW v \in UTHREADS, v # u PROVE SlotContext(v)'
  <2>1. v \in Stacks /\ v # x
    BY <1>1, <1>2, UthreadAssumption DEF Stacks
  <2>. QED  BY <1>2, <2>1, SlotStays DEF ContextInvariant
<1>3. ASSUME NEW d \in CPUS, d # c PROVE CpuContext(d)'
  <2>. SUFFICES ASSUME cpu[d].stack # d PROVE CpuContext(d)'
    BY <1>3 DEF CpuContext
  <2>1. PICK s \in UTHREADS : s = cpu[d].stack
    BY DEF ContextInvariant, UthreadTypeOK
  <2>2. slot[s] = "running" /\ Suspended(d) /\ Frames(s, cpu[d].rsp)
    BY <2>1 DEF ContextInvariant, CpuContext
  <2>3. s # u /\ s # x /\ d # x /\ s \in Stacks /\ d \in Stacks
    BY <1>1, <1>3, <2>1, UthreadAssumption DEF Stacks
  <2>4. Suspended(d)' /\ Frames(s, cpu[d].rsp)'
    BY <1>3, <2>2, <2>3, StackStays DEF Frames
  <2>. QED  BY <1>3, <2>1, <2>2, <2>3, <2>4 DEF CpuContext, Frames
<1>. QED  BY <1>2, <1>3

LEMMA ResumeKeeps ==
  ASSUME ContextInvariant, NEW c \in CPUS, NEW u \in UTHREADS, Resume(c, u)
  PROVE  ContextInvariant'
<1>1. c \in Stacks /\ u \in Stacks /\ u \notin CPUS /\ cpu[c].stack = c /\ slot[u] = "ready"
  BY UthreadAssumption DEF Resume, Stacks
<1>2. /\ uthread_switch(c, u) /\ slot' = [slot EXCEPT ![u] = "running"]
      /\ UNCHANGED <<mapped, process, argument>> /\ UthreadTypeOK
  BY DEF Resume, ContextInvariant
<1>3. u \in mapped /\ (Prepared(u) \/ (Suspended(u) /\ Frames(u, left[u].rsp)))
  BY <1>1 DEF ContextInvariant, SlotContext
<1>4. /\ Suspended(u) => /\ cpu'[c].rsp = left[u].rsp
                         /\ cpu'[c].regs = left[u].regs
                         /\ cpu'[c].rip = <<u, "rip">>
      /\ Prepared(u) => /\ cpu'[c].rsp = STACK_WORDS + 7
                        /\ cpu'[c].regs = EntryRegs(u)
                        /\ cpu'[c].rip = <<"entry">>
      /\ cpu'[c].stack = u /\ \A d \in CPUS : d # c => cpu'[d] = cpu[d]
  BY <1>1, <1>2, SwitchLoads
<1>5. /\ memory' \in [Stacks -> [Words -> Contents]]
      /\ context' \in [Stacks -> Words \cup {NULL}]
      /\ left' \in [Stacks -> SavedContexts \cup {NULL}]
      /\ Suspended(c)'
      /\ \A y \in Stacks : y # c =>
           memory'[y] = memory[y] /\ context'[y] = context[y] /\ left'[y] = left[y]
  BY <1>1, <1>2, SwitchSaves
<1>6. /\ cpu'[c].rsp \in Depths /\ cpu'[c].regs \in [Saved -> Values]
      /\ cpu'[c].rip \in Addresses /\ Frames(u, cpu'[c].rsp)
  <2>1. CASE Prepared(u)
    <3>1. EntryRegs(u) \in [Saved -> Values]
      <4>1. <<u>> \in Values /\ <<argument[u]>> \in Values /\ Zero \in Values
        BY <2>1 DEF Prepared, Values
      <4>. QED  BY <4>1 DEF EntryRegs
    <3>2. STACK_WORDS + 7 \in Depths /\ Frames(u, STACK_WORDS + 7)
      BY UthreadAssumption DEF Depths, Frames
    <3>. QED  BY <1>4, <2>1, <3>1, <3>2 DEF Addresses
  <2>2. CASE Suspended(u) /\ Frames(u, left[u].rsp)
    <3>1. left[u].rsp \in Depths /\ left[u].regs \in [Saved -> Values]
      BY <2>2 DEF Suspended, SavedContexts
    <3>2. <<u, "rip">> \in Addresses
      BY <1>1 DEF Addresses
    <3>. QED  BY <1>4, <2>2, <3>1, <3>2
  <2>. QED  BY <1>3, <2>1, <2>2
<1>7. ASSUME NEW d \in CPUS, d # c PROVE cpu[d].stack # u /\ cpu'[d] = cpu[d]
  BY <1>1, <1>4, <1>7 DEF ContextInvariant, CpuContext
<1>8. UthreadTypeOK'
  <2>1. cpu' \in [CPUS -> [stack : Stacks, rsp : Depths, regs : [Saved -> Values],
                           rip : Addresses]]
    <3>1. PICK new : cpu' = [cpu EXCEPT ![c] = new]
      BY <1>2 DEF uthread_switch
    <3>2. new = cpu'[c]
      BY <1>2, <3>1 DEF UthreadTypeOK
    <3>3. new \in [stack : Stacks, rsp : Depths, regs : [Saved -> Values], rip : Addresses]
      <4>1. PICK a, b, e, f : new = [stack |-> a, rsp |-> b, regs |-> e, rip |-> f]
        BY <1>2, <3>2 DEF uthread_switch, UthreadTypeOK
      <4>. QED  BY <1>1, <1>4, <1>6, <3>2, <4>1
    <3>. QED  BY <1>2, <3>1, <3>3 DEF UthreadTypeOK
  <2>2. \A d \in CPUS : cpu'[d].stack \in {d} \cup UTHREADS
    BY <1>2, <1>4 DEF UthreadTypeOK
  <2>. QED  BY <1>2, <1>5, <2>1, <2>2 DEF UthreadTypeOK
<1>9. \A v \in UTHREADS : v # u => slot'[v] = slot[v]
  BY <1>2 DEF UthreadTypeOK
<1>10. /\ \A v \in UTHREADS : v # u => SlotContext(v)'
       /\ \A d \in CPUS : d # c => CpuContext(d)'
  BY <1>1, <1>2, <1>5, <1>7, <1>9, OthersStay
<1>11. SlotContext(u)' /\ CpuContext(c)'
  <2>1. slot'[u] = "running"
    BY <1>2 DEF UthreadTypeOK
  <2>2. Frames(u, cpu[c].rsp)'
    <3>1. memory'[u] = memory[u]
      BY <1>1, <1>5
    <3>. QED  BY <1>6, <3>1 DEF Frames
  <2>. QED  BY <1>2, <1>3, <1>4, <1>5, <2>1, <2>2 DEF SlotContext, CpuContext, Frames
<1>12. \A d, e \in CPUS : cpu'[d].stack = cpu'[e].stack => d = e
  BY <1>4, <1>7 DEF ContextInvariant
<1>. QED  BY <1>8, <1>10, <1>11, <1>12 DEF ContextInvariant

LEMMA YieldKeeps ==
  ASSUME ContextInvariant, NEW c \in CPUS, NEW y \in {"ready", "finished"}, Yield(c, y)
  PROVE  ContextInvariant'
<1>1. PICK u \in UTHREADS : u = cpu[c].stack
  BY DEF ContextInvariant, UthreadTypeOK, Yield
<1>2. c \in Stacks /\ u \in Stacks /\ u \notin CPUS
  BY UthreadAssumption DEF Stacks
<1>3. /\ uthread_switch(c, c) /\ slot' = [slot EXCEPT ![u] = y]
      /\ UNCHANGED <<mapped, process, argument>> /\ UthreadTypeOK
  BY <1>1 DEF Yield, ContextInvariant
<1>4. slot[u] = "running" /\ Suspended(c) /\ Frames(u, cpu[c].rsp) /\ u \in mapped
  BY <1>1, <1>2 DEF ContextInvariant, CpuContext, SlotContext
<1>5. /\ cpu'[c].rsp = left[c].rsp /\ cpu'[c].regs = left[c].regs
      /\ cpu'[c].rip = <<c, "rip">>
      /\ cpu'[c].stack = c /\ \A d \in CPUS : d # c => cpu'[d] = cpu[d]
  BY <1>2, <1>3, <1>4, SwitchLoads
<1>6. /\ memory' \in [Stacks -> [Words -> Contents]]
      /\ context' \in [Stacks -> Words \cup {NULL}]
      /\ left' \in [Stacks -> SavedContexts \cup {NULL}]
      /\ Suspended(u)' /\ left'[u].rsp = cpu[c].rsp
      /\ \A x \in Stacks : x # u =>
           memory'[x] = memory[x] /\ context'[x] = context[x] /\ left'[x] = left[x]
      /\ \A a \in Words : a >= cpu[c].rsp => memory'[u][a] = memory[u][a]
  BY <1>1, <1>2, <1>3, SwitchSaves
<1>7. ASSUME NEW d \in CPUS, d # c PROVE cpu[d].stack # u /\ cpu'[d] = cpu[d]
  BY <1>1, <1>5, <1>7 DEF ContextInvariant
<1>8. UthreadTypeOK'
  <2>1. cpu' \in [CPUS -> [stack : Stacks, rsp : Depths, regs : [Saved -> Values],
                           rip : Addresses]]
    <3>1. PICK new : cpu' = [cpu EXCEPT ![c] = new]
      BY <1>3 DEF uthread_switch
    <3>2. new = cpu'[c]
      BY <1>3, <3>1 DEF UthreadTypeOK
    <3>3. new \in [stack : Stacks, rsp : Depths, regs : [Saved -> Values], rip : Addresses]
      <4>1. PICK a, b, e, f : new = [stack |-> a, rsp |-> b, regs |-> e, rip |-> f]
        BY <1>3, <3>2 DEF uthread_switch, UthreadTypeOK
      <4>. QED  BY <1>2, <1>4, <1>5, <3>2, <4>1 DEF Suspended, SavedContexts, Addresses
    <3>. QED  BY <1>3, <3>1, <3>3 DEF UthreadTypeOK
  <2>2. \A d \in CPUS : cpu'[d].stack \in {d} \cup UTHREADS
    BY <1>3, <1>5 DEF UthreadTypeOK
  <2>. QED  BY <1>3, <1>6, <2>1, <2>2 DEF UthreadTypeOK
<1>9. \A v \in UTHREADS : v # u => slot'[v] = slot[v]
  BY <1>3 DEF UthreadTypeOK
<1>10. /\ \A v \in UTHREADS : v # u => SlotContext(v)'
       /\ \A d \in CPUS : d # c => CpuContext(d)'
  BY <1>1, <1>2, <1>3, <1>6, <1>7, <1>9, OthersStay
<1>11. SlotContext(u)'
  <2>1. Frames(u, left[u].rsp)'
    <3>1. cpu[c].rsp \in Nat
      BY <1>3, DepthsInWords DEF UthreadTypeOK
    <3>2. \A a \in cpu[c].rsp .. STACK_WORDS + 6 : a \in Words /\ a >= cpu[c].rsp
      BY <3>1, UthreadAssumption DEF Words
    <3>. QED  BY <1>4, <1>6, <3>2 DEF Frames
  <2>. QED  BY <1>3, <1>4, <1>6, <2>1 DEF SlotContext
<1>12. CpuContext(c)'
  BY <1>5 DEF CpuContext
<1>13. \A d, e \in CPUS : cpu'[d].stack = cpu'[e].stack => d = e
  <2>1. \A d \in CPUS : d # c => cpu[d].stack # c
    BY <1>2, <1>3, UthreadAssumption DEF UthreadTypeOK
  <2>2. \A d, e \in CPUS : cpu[d].stack = cpu[e].stack => d = e
    BY DEF ContextInvariant
  <2>. QED  BY <1>5, <2>1, <2>2
<1>. QED  BY <1>8, <1>10, <1>11, <1>12, <1>13 DEF ContextInvariant

(* What a body does on its own stack.                                      *)
LEMMA BodyKeeps ==
  ASSUME ContextInvariant, NEW c \in CPUS, Compute(c) \/ Call(c) \/ Return(c)
  PROVE  /\ ContextInvariant'
         /\ \A d \in CPUS : cpu'[d].stack = cpu[d].stack
<1>1. PICK u \in UTHREADS : u = cpu[c].stack /\ u # c
  BY DEF ContextInvariant, UthreadTypeOK, Compute, Call, Return
<1>2. u \in Stacks /\ u \notin CPUS
  BY UthreadAssumption DEF Stacks
<1>3. UthreadTypeOK /\ UNCHANGED <<context, left, mapped, slot, process, argument>>
  BY DEF ContextInvariant, Compute, Call, Return, scheduling
<1>4. slot[u] = "running" /\ Suspended(c) /\ Frames(u, cpu[c].rsp)
  BY <1>1 DEF ContextInvariant, CpuContext
<1>5. PICK rsp \in Depths, regs \in [Saved -> Values] :
        cpu' = [cpu EXCEPT ![c] = [stack |-> u, rsp |-> rsp, regs |-> regs, rip |-> cpu[c].rip]]
  <2>0. PICK r \in Depths, g \in [Saved -> Values], i \in Addresses :
          cpu[c] = [stack |-> u, rsp |-> r, regs |-> g, rip |-> i]
    BY <1>1, <1>3 DEF UthreadTypeOK
  <2>1. CASE Compute(c)
    <3>1. Own(u) \in [Saved -> Values]
      BY <1>2 DEF Own, Values
    <3>2. [cpu[c] EXCEPT !.regs = Own(u)] = [stack |-> u, rsp |-> r, regs |-> Own(u), rip |-> i]
      BY <2>0
    <3>. QED  BY <1>1, <2>0, <2>1, <3>1, <3>2, Zenon DEF Compute
  <2>2. CASE Call(c)
    <3>1. r - 1 \in Depths
      BY <2>0, <2>2, UthreadAssumption DEF Call, Depths
    <3>2. [cpu[c] EXCEPT !.rsp = r - 1] = [stack |-> u, rsp |-> r - 1, regs |-> g, rip |-> i]
      BY <2>0
    <3>3. cpu' = [cpu EXCEPT ![c] = [cpu[c] EXCEPT !.rsp = r - 1]]
      BY <2>0, <2>2 DEF Call
    <3>. QED  BY <2>0, <3>1, <3>2, <3>3
  <2>3. CASE Return(c)
    <3>1. r + 1 \in Depths
      BY <2>0, <2>3, UthreadAssumption DEF Return, Depths
    <3>2. [cpu[c] EXCEPT !.rsp = r + 1] = [stack |-> u, rsp |-> r + 1, regs |-> g, rip |-> i]
      BY <2>0
    <3>3. cpu' = [cpu EXCEPT ![c] = [cpu[c] EXCEPT !.rsp = r + 1]]
      BY <2>0, <2>3 DEF Return
    <3>. QED  BY <2>0, <3>1, <3>2, <3>3
  <2>. QED  BY <2>1, <2>2, <2>3
<1>6. /\ cpu'[c].stack = u /\ cpu'[c].rsp = rsp
      /\ \A d \in CPUS : d # c => cpu'[d] = cpu[d]
  BY <1>3, <1>5 DEF UthreadTypeOK
<1>7. /\ memory' \in [Stacks -> [Words -> Contents]]
      /\ \A s \in Stacks : s # u => memory'[s] = memory[s]
      /\ Frames(u, rsp)'
  <2>1. CASE Compute(c)
    BY <1>3, <1>4, <1>6, <2>1 DEF Compute, UthreadTypeOK, Frames
  <2>2. CASE Call(c)
    <3>1. rsp = cpu[c].rsp - 1 /\ rsp \in Nat /\ rsp \in Words /\ cpu[c].rsp \in Nat
      <4>1. rsp = cpu[c].rsp - 1
        BY <1>3, <1>6, <2>2 DEF Call, UthreadTypeOK
      <4>2. cpu[c].rsp \in Depths
        BY <1>3 DEF UthreadTypeOK
      <4>. QED  BY <4>1, <4>2, DepthsInWords
    <3>2. PICK frame \in Contents : frame = <<u, "call", rsp>>
      <4>1. <<u, "call", rsp>> \in {<<v, "call", a>> : v \in UTHREADS, a \in Words}
        BY <3>1
      <4>2. <<u, "call", rsp>> \in Contents
        BY <4>1 DEF Contents
      <4>. QED  BY <4>2
    <3>3. memory' = [memory EXCEPT ![u][rsp] = frame]
      BY <1>1, <2>2, <3>1, <3>2 DEF Call
    <3>4. /\ memory' \in [Stacks -> [Words -> Contents]]
          /\ \A s \in Stacks : s # u => memory'[s] = memory[s]
          /\ memory'[u][rsp] = frame
          /\ \A a \in Words : a # rsp => memory'[u][a] = memory[u][a]
      BY <1>2, <1>3, <3>1, <3>3 DEF UthreadTypeOK
    <3>5. ASSUME NEW a \in rsp .. STACK_WORDS + 6 PROVE memory'[u][a] = <<u, "call", a>>
      <4>1. a \in Words /\ (a = rsp \/ a \in cpu[c].rsp .. STACK_WORDS + 6)
        BY <3>1, UthreadAssumption DEF Words
      <4>2. CASE a = rsp
        BY <3>2, <3>4, <4>2
      <4>3. CASE a # rsp
        BY <1>4, <3>4, <4>1, <4>3 DEF Frames
      <4>. QED  BY <4>2, <4>3
    <3>. QED  BY <3>4, <3>5 DEF Frames
  <2>3. CASE Return(c)
    <3>1. rsp = cpu[c].rsp + 1 /\ cpu[c].rsp \in Nat
      <4>1. rsp = cpu[c].rsp + 1
        BY <1>3, <1>6, <2>3 DEF Return, UthreadTypeOK
      <4>2. cpu[c].rsp \in Depths
        BY <1>3 DEF UthreadTypeOK
      <4>. QED  BY <4>1, <4>2, DepthsInWords
    <3>2. \A a \in rsp .. STACK_WORDS + 6 : a \in cpu[c].rsp .. STACK_WORDS + 6
      BY <3>1, UthreadAssumption
    <3>3. memory' = memory
      BY <2>3 DEF Return
    <3>. QED  BY <1>3, <1>4, <3>2, <3>3 DEF UthreadTypeOK, Frames
  <2>. QED  BY <2>1, <2>2, <2>3
<1>8. UthreadTypeOK'
  <2>1. cpu[c].rip \in Addresses
    BY <1>3 DEF UthreadTypeOK
  <2>2. cpu' \in [CPUS -> [stack : Stacks, rsp : Depths, regs : [Saved -> Values],
                       rip : Addresses]]
    BY <1>2, <1>3, <1>5, <2>1 DEF UthreadTypeOK
  <2>. QED  BY <1>1, <1>3, <1>6, <1>7, <2>2 DEF UthreadTypeOK
<1>9. ASSUME NEW d \in CPUS, d # c PROVE cpu[d].stack # u /\ cpu'[d] = cpu[d]
  BY <1>1, <1>6, <1>9 DEF ContextInvariant
<1>10. /\ \A v \in UTHREADS : v # u => SlotContext(v)'
       /\ \A d \in CPUS : d # c => CpuContext(d)'
  BY <1>1, <1>2, <1>3, <1>7, <1>9, OthersStay
<1>11. SlotContext(u)'
  BY <1>3, <1>4 DEF ContextInvariant, SlotContext
<1>12. CpuContext(c)'
  <2>1. c \in Stacks /\ c # u
    BY <1>2 DEF Stacks
  <2>2. Suspended(c)'
    BY <1>3, <1>4, <1>7, <2>1, StackStays
  <2>. QED  BY <1>3, <1>4, <1>6, <1>7, <2>2 DEF CpuContext, Frames
<1>13. \A d \in CPUS : cpu'[d].stack = cpu[d].stack
  BY <1>1, <1>6
<1>. QED  BY <1>8, <1>10, <1>11, <1>12, <1>13 DEF ContextInvariant

LEMMA DestroyKeeps ==
  ASSUME ContextInvariant, Destroy
  PROVE  ContextInvariant'
<1>1. UthreadTypeOK'
  <2>1. Zeroed \in [Words -> Contents]
    BY DEF Zeroed, Contents, Values
  <2>. QED  BY <2>1 DEF Destroy, ContextInvariant, UthreadTypeOK
<1>2. \A u \in UTHREADS : SlotContext(u)'
  BY DEF Destroy, SlotContext
<1>3. \A c \in CPUS : cpu'[c].stack = c
  BY DEF Destroy, Joined
<1>. QED  BY <1>1, <1>2, <1>3 DEF ContextInvariant, CpuContext

LEMMA NextContextInvariant ==
  ContextInvariant /\ [UthreadNext]_uthreadVars => ContextInvariant'
<1>. SUFFICES ASSUME ContextInvariant, [UthreadNext]_uthreadVars PROVE ContextInvariant'
  OBVIOUS
<1>1. ASSUME NEW u \in UTHREADS, MmapFails(u) PROVE ContextInvariant'
  <2>1. UNCHANGED <<memory, context, cpu, mapped, slot, argument, left>>
        /\ process' \in {"assertion", "fault"}
    BY <1>1 DEF MmapFails
  <2>2. UthreadTypeOK'
    BY <2>1 DEF ContextInvariant, UthreadTypeOK
  <2>3. /\ \A v \in UTHREADS : SlotContext(v)' <=> SlotContext(v)
        /\ \A c \in CPUS : CpuContext(c)' <=> CpuContext(c)
    BY <2>1 DEF SlotContext, CpuContext, Prepared, Suspended, Frames, EntryRegs, Offset
  <2>. QED  BY <2>1, <2>2, <2>3 DEF ContextInvariant
<1>2. CASE UNCHANGED uthreadVars
  <2>1. UNCHANGED <<memory, context, cpu, mapped, slot, process, argument, left>>
    BY <1>2 DEF uthreadVars
  <2>2. UthreadTypeOK'
    BY <2>1 DEF ContextInvariant, UthreadTypeOK
  <2>3. /\ \A v \in UTHREADS : SlotContext(v)' <=> SlotContext(v)
        /\ \A c \in CPUS : CpuContext(c)' <=> CpuContext(c)
    BY <2>1 DEF SlotContext, CpuContext, Prepared, Suspended, Frames, EntryRegs, Offset
  <2>. QED  BY <2>1, <2>2, <2>3 DEF ContextInvariant
<1>3. CASE UthreadNext
  BY <1>1, <1>3, SubmitKeeps, ReleaseKeeps, ResumeKeeps, YieldKeeps, BodyKeeps, DestroyKeeps
  DEF UthreadNext
<1>. QED  BY <1>2, <1>3

(* Two contexts, or a context and what a body does, never write the same   *)
(* words: for any number of workers, fibers, words and nested calls.       *)
LEMMA ContextsIntact == ContextInvariant => StacksIntact
<1>. SUFFICES ASSUME ContextInvariant PROVE StacksIntact
  OBVIOUS
<1>1. UthreadTypeOK
  BY DEF ContextInvariant
<1>2. OnMappedStack
  BY DEF OnMappedStack, ContextInvariant, UthreadTypeOK, CpuContext, SlotContext
<1>3. ASSUME NEW u \in UTHREADS,
             NEW rsp \in {cpu[c].rsp : c \in {d \in CPUS : cpu[d].stack = u}}
                           \cup (IF slot[u] = "ready" /\ left[u] # NULL
                                 THEN {left[u].rsp} ELSE {})
      PROVE  Frames(u, rsp)
  <2>1. CASE rsp \in {cpu[c].rsp : c \in {d \in CPUS : cpu[d].stack = u}}
    <3>1. PICK c \in CPUS : cpu[c].stack = u /\ rsp = cpu[c].rsp
      BY <2>1
    <3>2. u # c
      BY UthreadAssumption
    <3>. QED  BY <3>1, <3>2 DEF ContextInvariant, CpuContext
  <2>2. CASE slot[u] = "ready" /\ left[u] # NULL /\ rsp = left[u].rsp
    BY <2>2 DEF ContextInvariant, SlotContext, Prepared
  <2>. QED  BY <1>3, <2>1, <2>2
<1>4. FramesIntact
  BY <1>3 DEF FramesIntact, Frames
<1>. QED  BY <1>1, <1>2, <1>4 DEF StacksIntact

(* Only its own fiber changes the frames on a stack, and no kernel thread  *)
(* is on one that is not mapped (uthread.c, switch.S), for any number of   *)
(* both and any depth of calls.                                            *)
THEOREM StacksStayIntact == UthreadSpec => []StacksIntact
BY InitContextInvariant, NextContextInvariant, ContextsIntact, PTL DEF UthreadSpec

-----------------------------------------------------------------------------
(* The registers over a switch.                                            *)

(* Whatever stack a worker moves to, its words are those that the owner    *)
(* left, or the first frame of its task.                                   *)
LEMMA SwitchesGetWhatWasLeft ==
  ASSUME ContextInvariant, [UthreadNext]_uthreadVars, NEW c \in CPUS, Switched(c)
  PROVE  LET s == cpu'[c].stack IN
         \/ /\ left[s] # NULL
            /\ cpu'[c].rsp = left[s].rsp /\ cpu'[c].regs = left[s].regs
            /\ cpu'[c].rip = <<s, "rip">>
         \/ /\ s \in UTHREADS /\ left[s] = NULL
            /\ cpu'[c].rsp = STACK_WORDS + 7 /\ cpu'[c].regs = EntryRegs(s)
            /\ cpu'[c].rip = <<"entry">>
<1>1. cpu'[c].stack # cpu[c].stack
  BY DEF Switched
<1>2. \/ \E u \in UTHREADS : Resume(c, u)
      \/ \E y \in {"ready", "finished"} : Yield(c, y)
  <2>1. ASSUME NEW d \in CPUS, d # c, \/ \E u \in UTHREADS : Resume(d, u)
                                      \/ \E y \in {"ready", "finished"} : Yield(d, y)
        PROVE  FALSE
    <3>1. \E s : uthread_switch(d, s)
      BY <2>1 DEF Resume, Yield
    <3>2. cpu'[c] = cpu[c]
      BY <2>1, <3>1 DEF uthread_switch, ContextInvariant, UthreadTypeOK
    <3>. QED  BY <1>1, <3>2
  <2>2. ASSUME NEW d \in CPUS, Compute(d) \/ Call(d) \/ Return(d) PROVE FALSE
    BY <1>1, <2>2, BodyKeeps
  <2>3. ~UNCHANGED cpu
    BY <1>1
  <2>. QED
    BY <2>1, <2>2, <2>3
    DEF UthreadNext, uthreadVars, MmapFails, Release, SubmitNew, SubmitAgain, Submit, Destroy
<1>3. UthreadTypeOK
  BY DEF ContextInvariant
<1>4. ASSUME NEW s \in Stacks, Suspended(s) PROVE left[s] # NULL
  BY <1>4, NoContext DEF Suspended
<1>5. ASSUME NEW u \in UTHREADS, Resume(c, u)
      PROVE  /\ cpu'[c].stack = u
             /\ \/ /\ left[u] # NULL
                   /\ cpu'[c].rsp = left[u].rsp /\ cpu'[c].regs = left[u].regs
                   /\ cpu'[c].rip = <<u, "rip">>
                \/ /\ left[u] = NULL
                   /\ cpu'[c].rsp = STACK_WORDS + 7 /\ cpu'[c].regs = EntryRegs(u)
                   /\ cpu'[c].rip = <<"entry">>
  <2>1. u \in Stacks /\ uthread_switch(c, u) /\ slot[u] = "ready"
    BY <1>5 DEF Resume, Stacks
  <2>2. Prepared(u) \/ Suspended(u)
    BY <2>1 DEF ContextInvariant, SlotContext
  <2>3. CASE Prepared(u)
    BY <1>3, <2>1, <2>3, SwitchLoads DEF Prepared
  <2>4. CASE Suspended(u)
    BY <1>3, <1>4, <2>1, <2>4, SwitchLoads
  <2>. QED  BY <2>2, <2>3, <2>4
<1>6. ASSUME NEW y \in {"ready", "finished"}, Yield(c, y)
      PROVE  /\ cpu'[c].stack = c /\ left[c] # NULL
             /\ cpu'[c].rsp = left[c].rsp /\ cpu'[c].regs = left[c].regs
             /\ cpu'[c].rip = <<c, "rip">>
  <2>1. c \in Stacks /\ uthread_switch(c, c) /\ cpu[c].stack # c
    BY <1>6 DEF Yield, Stacks
  <2>2. Suspended(c)
    BY <2>1 DEF ContextInvariant, CpuContext
  <2>. QED  BY <1>3, <1>4, <2>1, <2>2, SwitchLoads
<1>. QED  BY <1>2, <1>5, <1>6

(* A fiber comes back from uthread_switch as it went in, on any worker.    *)
THEOREM SwitchesPreserve == UthreadSpec => ContextPreserved
<1>1. ContextInvariant /\ [UthreadNext]_uthreadVars =>
        [\A c \in CPUS :
           LET s == cpu'[c].stack IN
           Switched(c) /\ left[s] # NULL =>
             /\ cpu'[c].rsp = left[s].rsp
             /\ cpu'[c].regs = left[s].regs
             /\ cpu'[c].rip = <<s, "rip">>]_uthreadVars
  BY SwitchesGetWhatWasLeft
<1>. QED
  BY <1>1, InitContextInvariant, NextContextInvariant, PTL DEF UthreadSpec, ContextPreserved

(* A task starts with its argument, and nothing of the slot's last task.   *)
THEOREM TasksStartAsSubmitted == UthreadSpec => EntryAsSubmitted
<1>1. (STACK_WORDS + 7) % 2 = 1
  BY UthreadAssumption
<1>2. ContextInvariant /\ [UthreadNext]_uthreadVars =>
        [\A c \in CPUS :
           LET u == cpu'[c].stack IN
           Switched(c) /\ left[u] = NULL =>
             /\ cpu'[c].rip = <<"entry">>
             /\ cpu'[c].regs = [r \in Saved |-> CASE r = "r15" -> <<u>>
                                                  [] r = "r14" -> <<argument[u]>>
                                                  [] OTHER -> Zero]
             /\ cpu'[c].rsp % 2 = 1]_uthreadVars
  BY <1>1, SwitchesGetWhatWasLeft DEF EntryRegs
<1>. QED
  BY <1>2, InitContextInvariant, NextContextInvariant, PTL DEF UthreadSpec, EntryAsSubmitted

-----------------------------------------------------------------------------
(***************************************************************************)
(* The tree. Every call leaves a red-black tree that holds, in order, the  *)
(* tasks inserted and not removed.                                         *)
(*                                                                         *)
(* The shape of a tree is stated with a witness, B, the tasks below every  *)
(* task, and its colours with another, H, the black tasks on every way     *)
(* down. A change of links is proved once for either side: the children on *)
(* the one are the function f, those on the other g. The invariant says    *)
(* how far the call that is under way has come, and which of the           *)
(* conditions on the colours it may break, and where.                      *)
(***************************************************************************)

Task0 == TREE_TASKS \cup {NULL}

Trees == [root : Task0, kid : [Sides -> [TREE_TASKS -> Task0]],
          parent : [TREE_TASKS -> Task0], red : SUBSET TREE_TASKS]

Keys == [TREE_TASKS -> VRUNTIMES \cup {NULL}]

(* The order of the keys *)

LEMMA OppositeSides ==
  \A s \in Sides : /\ Opposite(s) \in Sides /\ Opposite(s) # s
                   /\ Opposite(Opposite(s)) = s /\ Sides = {s, Opposite(s)}
BY DEF Sides, Opposite

(* The order of the keys, and its converse, are total orders of the tasks. *)
Ranked(vr, s, M) ==
  /\ \A t \in M : ~ OnSide(vr, s, t, t)
  /\ \A t, u \in M : t = u \/ OnSide(vr, s, t, u) \/ OnSide(vr, s, u, t)
  /\ \A t, u \in M : ~ (OnSide(vr, s, t, u) /\ OnSide(vr, s, u, t))
  /\ \A t, u, w \in M :
       OnSide(vr, s, t, u) /\ OnSide(vr, s, u, w) => OnSide(vr, s, t, w)

LEMMA KeysAreRanked ==
  ASSUME NEW vr \in Keys, NEW M \in SUBSET TREE_TASKS, \A t \in M : vr[t] # NULL,
         NEW s \in Sides
  PROVE  Ranked(vr, s, M)
<1>1. \A t \in M : vr[t] \in Int /\ t \in Int
  BY TreeAssumption DEF Keys
<1>2. \A t, u \in M : cfs_task_cmp(vr, t, u) < 0 <=>
                        vr[t] < vr[u] \/ (vr[t] = vr[u] /\ t < u)
  BY <1>1 DEF cfs_task_cmp
<1>. QED BY <1>1, <1>2 DEF OnSide, Sides, Opposite, Ranked

LEMMA OppositeOnSide ==
  \A vr, t, u : \A s \in Sides : OnSide(vr, Opposite(s), t, u) <=> OnSide(vr, s, u, t)
BY DEF OnSide, Sides, Opposite

(***************************************************************************)
(* The shape of a tree with the root R, the children f on one side and g   *)
(* on the other, and the parents P. B gives the tasks below every task.    *)
(***************************************************************************)

(* The links name no task but those of M, and parents and children agree.  *)
Tied(R, f, g, P, M) ==
  /\ R \in M \cup {NULL}
  /\ R # NULL => P[R] = NULL
  /\ \A t \in M : f[t] \in M \cup {NULL} /\ g[t] \in M \cup {NULL}
  /\ \A t \in M : (f[t] # NULL => P[f[t]] = t) /\ (g[t] # NULL => P[g[t]] = t)
  /\ \A t \in M : P[t] = NULL => t = R
  /\ \A t \in M : P[t] # NULL => P[t] \in M /\ (f[P[t]] = t \/ g[P[t]] = t)

Nested(R, f, g, P, M, B) ==
  /\ B[NULL] = {} /\ B[R] = M
  /\ \A t \in M : B[t] = {t} \cup B[f[t]] \cup B[g[t]]
  /\ \A t \in M : B[t] \subseteq M
  /\ \A t \in M : \A u \in B[t] : B[u] \subseteq B[t]
  /\ \A t \in M : \A u \in B[t] : u = t \/ P[u] \in B[t]

Sorted(f, g, M, B, vr, s) ==
  /\ \A t \in M : \A u \in B[f[t]] : OnSide(vr, s, u, t)
  /\ \A t \in M : \A u \in B[g[t]] : OnSide(vr, s, t, u)

(* The two sides of a task are disjoint, and it is in neither.             *)
Cut(f, g, M, B) ==
  /\ \A t \in M : t \in B[t] /\ t \notin B[f[t]] /\ t \notin B[g[t]]
  /\ \A t \in M : \A u \in B[f[t]] : u \notin B[g[t]]

Shaped(s, R, f, g, P, M, B, vr) ==
  /\ NULL \notin M
  /\ Tied(R, f, g, P, M) /\ Nested(R, f, g, P, M, B)
  /\ Sorted(f, g, M, B, vr, s) /\ Ranked(vr, s, M)

LEMMA ShapedIsCut ==
  ASSUME NEW s, NEW R, NEW f, NEW g, NEW P, NEW M, NEW B, NEW vr,
         Shaped(s, R, f, g, P, M, B, vr)
  PROVE  Cut(f, g, M, B)
<1>1. \A t \in M : t \in B[t] /\ B[f[t]] \subseteq M /\ B[g[t]] \subseteq M
  BY DEF Shaped, Nested, Tied
<1>2. ASSUME NEW t \in M PROVE t \notin B[f[t]] /\ t \notin B[g[t]]
  BY DEF Shaped, Sorted, Ranked
<1>3. ASSUME NEW t \in M, NEW u \in B[f[t]], u \in B[g[t]] PROVE FALSE
  BY <1>1, <1>3 DEF Shaped, Sorted, Ranked
<1>. QED BY <1>1, <1>2, <1>3 DEF Cut

(* A child is neither its parent nor its sibling nor its grandparent.      *)
Untangled(f, g, M) ==
  \A t \in M :
    /\ f[t] # t /\ g[t] # t /\ (f[t] = g[t] => f[t] = NULL)
    /\ f[t] # NULL => f[f[t]] # t /\ g[f[t]] # t
    /\ g[t] # NULL => f[g[t]] # t /\ g[g[t]] # t

LEMMA ShapedIsApart ==
  ASSUME NEW s, NEW R, NEW f, NEW g, NEW P, NEW M, NEW B, NEW vr,
         Shaped(s, R, f, g, P, M, B, vr)
  PROVE  Untangled(f, g, M)
<1> SUFFICES ASSUME NEW t \in M
             PROVE  /\ f[t] # t /\ g[t] # t /\ (f[t] = g[t] => f[t] = NULL)
                    /\ f[t] # NULL => f[f[t]] # t /\ g[f[t]] # t
                    /\ g[t] # NULL => f[g[t]] # t /\ g[g[t]] # t
  BY DEF Untangled
<1>1. Cut(f, g, M, B)
  BY ShapedIsCut
<1>2. f[t] \in M \cup {NULL} /\ g[t] \in M \cup {NULL}
  BY DEF Shaped, Tied
<1>3. /\ t \in B[t] /\ t \notin B[f[t]] /\ t \notin B[g[t]]
      /\ f[t] # NULL => f[t] \in B[f[t]]
      /\ \A u \in B[f[t]] : u \notin B[g[t]]
  BY <1>1, <1>2 DEF Cut
<1>4. \A u \in M : B[f[u]] \subseteq B[u] /\ B[g[u]] \subseteq B[u]
  BY DEF Shaped, Nested
<1>. QED BY <1>2, <1>3, <1>4 DEF Shaped

LEMMA NullIsNoTask == NULL \notin TREE_TASKS
BY TreeAssumption

(* A task that is not in the tree has no links and no colour.              *)
Outside(tr, M) ==
  /\ tr.red \subseteq M
  /\ \A t \in TREE_TASKS \ M :
       tr.parent[t] = NULL /\ \A s \in Sides : tr.kid[s][t] = NULL

SideShaped(s, tr, M, B, vr) ==
  Shaped(s, tr.root, tr.kid[s], tr.kid[Opposite(s)], tr.parent, M, B, vr)

Shape(tr, M, B, vr) ==
  /\ tr \in Trees /\ M \in SUBSET TREE_TASKS /\ Outside(tr, M)
  /\ SideShaped("left", tr, M, B, vr)

LEMMA OtherSideShaped ==
  ASSUME NEW tr, NEW M, NEW B, NEW vr, NEW s \in Sides, SideShaped(s, tr, M, B, vr)
  PROVE  SideShaped(Opposite(s), tr, M, B, vr)
<1> DEFINE o == Opposite(s)
           R == tr.root
           f == tr.kid[s]
           g == tr.kid[o]
           P == tr.parent
<1>0. o \in Sides /\ Opposite(o) = s
  BY OppositeSides
<1>1. Shaped(s, R, f, g, P, M, B, vr)
  BY DEF SideShaped
<1>2. \A t, u : OnSide(vr, o, t, u) <=> OnSide(vr, s, u, t)
  BY OppositeOnSide
<1> SUFFICES Shaped(o, R, g, f, P, M, B, vr)
  BY <1>0 DEF SideShaped
<1> HIDE DEF o, R, f, g, P
<1>3. Tied(R, g, f, P, M)
  BY <1>1 DEF Shaped, Tied
<1>4. Nested(R, g, f, P, M, B)
  BY <1>1 DEF Shaped, Nested
<1>5. Sorted(g, f, M, B, vr, o)
  BY <1>1, <1>2 DEF Shaped, Sorted
<1>6. Ranked(vr, o, M)
  BY <1>1, <1>2 DEF Shaped, Ranked
<1>. QED BY <1>1, <1>3, <1>4, <1>5, <1>6 DEF Shaped

LEMMA EverySideShaped ==
  ASSUME NEW tr, NEW M, NEW B, NEW vr, Shape(tr, M, B, vr), NEW s \in Sides
  PROVE  SideShaped(s, tr, M, B, vr)
<1>1. SideShaped("left", tr, M, B, vr)
  BY DEF Shape
<1>2. SideShaped("right", tr, M, B, vr)
  BY <1>1, OtherSideShaped DEF Sides, Opposite
<1>. QED BY <1>1, <1>2 DEF Sides

LEMMA ShapeFromSide ==
  ASSUME NEW tr \in Trees, NEW M \in SUBSET TREE_TASKS, Outside(tr, M), NEW B, NEW vr,
         NEW s \in Sides, SideShaped(s, tr, M, B, vr)
  PROVE  Shape(tr, M, B, vr)
<1>1. CASE s = "left"
  BY <1>1 DEF Shape
<1>2. CASE s = "right"
  BY <1>2, OtherSideShaped DEF Sides, Opposite, Shape
<1>. QED BY <1>1, <1>2 DEF Sides

(* What the changes of links do, field by field.                           *)
Replaced(r, tr, p, old, new) ==
  /\ r \in Trees /\ r.red = tr.red /\ r.parent = tr.parent
  /\ r.root = IF p = NULL THEN new ELSE tr.root
  /\ \A z \in Sides : \A x \in TREE_TASKS :
       r.kid[z][x] = IF x = p /\ z = SideOf(tr, p, old) THEN new ELSE tr.kid[z][x]

LEMMA ReplaceEffect ==
  ASSUME NEW tr \in Trees, NEW p \in Task0, NEW old \in Task0, NEW new \in Task0
  PROVE  Replaced(Replace(tr, p, old, new), tr, p, old, new)
BY NullIsNoTask DEF Replace, Replaced, Trees, Sides, SideOf, Task0

ParentSet(r, tr, t, p) ==
  /\ r \in Trees /\ r.red = tr.red /\ r.kid = tr.kid /\ r.root = tr.root
  /\ \A x \in TREE_TASKS : r.parent[x] = IF x = t THEN p ELSE tr.parent[x]

LEMMA SetParentEffect ==
  ASSUME NEW tr \in Trees, NEW t \in Task0, NEW p \in Task0
  PROVE  ParentSet(SetParent(tr, t, p), tr, t, p)
BY NullIsNoTask DEF SetParent, ParentSet, Trees, Sides, Task0

(* t goes down to the side of f and up, its child of the other side, comes *)
(* up.                                                                     *)
Turned(R, f, g, P, R2, f2, g2, P2, M, t, up) ==
  /\ R2 = IF R = t THEN up ELSE R
  /\ f2[t] = f[t] /\ g2[t] = f[up] /\ f2[up] = t /\ g2[up] = g[up]
  /\ \A x \in M \ {t, up} : f2[x] = IF f[x] = t THEN up ELSE f[x]
  /\ \A x \in M \ {t, up} : g2[x] = IF g[x] = t THEN up ELSE g[x]
  /\ P2[t] = up /\ P2[up] = P[t] /\ (f[up] # NULL => P2[f[up]] = t)
  /\ \A x \in M \ {t, up} : x # f[up] => P2[x] = P[x]

SideTurned(s, tr, r, M, t) ==
  Turned(tr.root, tr.kid[s], tr.kid[Opposite(s)], tr.parent,
         r.root, r.kid[s], r.kid[Opposite(s)], r.parent,
         M, t, tr.kid[Opposite(s)][t])

LEMMA RotateEffect ==
  ASSUME NEW tr, NEW M, NEW B, NEW vr, Shape(tr, M, B, vr),
         NEW s \in Sides, NEW t \in M, tr.kid[Opposite(s)][t] # NULL
  PROVE  /\ Rotate(tr, s, t) \in Trees
         /\ Rotate(tr, s, t).red = tr.red
         /\ Outside(Rotate(tr, s, t), M)
         /\ SideTurned(s, tr, Rotate(tr, s, t), M, t)
<1> DEFINE o == Opposite(s)
           up == tr.kid[o][t]
           r == Rotate(tr, s, t)
           mid == tr.kid[s][up]
           p == tr.parent[t]
           a0 == SetParent(tr, mid, t)
           a == [a0 EXCEPT !.kid[o][t] = mid, !.parent[up] = p]
           b == Replace(a, p, t, up)
<1>0. o \in Sides /\ o # s /\ Sides = {s, o}
  BY OppositeSides
<1>0a. Shaped(s, tr.root, tr.kid[s], tr.kid[o], tr.parent, M, B, vr)
  BY EverySideShaped DEF SideShaped
<1>0b. tr \in Trees /\ M \subseteq TREE_TASKS /\ NULL \notin M /\ Outside(tr, M)
  BY NullIsNoTask DEF Shape
<1>0d. Untangled(tr.kid[s], tr.kid[o], M)
  BY <1>0a, ShapedIsApart
<1>0c. Tied(tr.root, tr.kid[s], tr.kid[o], tr.parent, M)
  BY <1>0a DEF Shaped
<1>1. /\ up \in M /\ up # t /\ tr.parent[up] = t
      /\ mid \in M \cup {NULL} /\ p \in M \cup {NULL}
  BY <1>0b, <1>0c, <1>0d DEF Tied, Untangled
<1>2. mid # t /\ mid # up /\ tr.kid[s][t] # t /\ tr.kid[o][up] # up
  BY <1>0d, <1>0b, <1>1, Zenon DEF Untangled
<1>3. /\ a0 \in Trees /\ a0.red = tr.red /\ a0.kid = tr.kid /\ a0.root = tr.root
      /\ \A x \in TREE_TASKS : a0.parent[x] = IF x = mid THEN t ELSE tr.parent[x]
  <2>1. mid \in Task0 /\ t \in Task0
    BY <1>0b, <1>1 DEF Task0
  <2>2. ParentSet(a0, tr, mid, t)
    BY <1>0b, <2>1, SetParentEffect
  <2> QED BY <2>2, Zenon DEF ParentSet
<1>4. /\ a \in Trees /\ a.red = tr.red /\ a.root = tr.root
      /\ \A x \in TREE_TASKS : a.parent[x] = IF x = up THEN p ELSE a0.parent[x]
      /\ \A z \in Sides : \A x \in TREE_TASKS :
           a.kid[z][x] = IF x = t /\ z = o THEN mid ELSE tr.kid[z][x]
  <2> HIDE DEF a0, mid, p, o, up
  <2>1. mid \in Task0 /\ p \in Task0 /\ t \in TREE_TASKS /\ up \in TREE_TASKS
    BY <1>0b, <1>1 DEF Task0
  <2> HIDE DEF a
  <2>2. a = [a0 EXCEPT !.kid[o][t] = mid, !.parent[up] = p]
    BY DEF a
  <2>3. a0 \in Trees /\ s \in Sides /\ o \in Sides
    BY <1>0, <1>3
  <2>4. /\ a \in Trees /\ a.red = a0.red /\ a.root = a0.root
        /\ \A x \in TREE_TASKS : a.parent[x] = IF x = up THEN p ELSE a0.parent[x]
        /\ \A z \in Sides : \A x \in TREE_TASKS :
             a.kid[z][x] = IF x = t /\ z = o THEN mid ELSE a0.kid[z][x]
    BY ONLY <2>1, <2>2, <2>3 DEF Trees
  <2> QED BY ONLY <2>4, <1>3
<1>5. /\ b \in Trees /\ b.red = tr.red /\ b.parent = a.parent
      /\ b.root = IF p = NULL THEN up ELSE tr.root
      /\ \A z \in Sides : \A x \in TREE_TASKS :
           b.kid[z][x] = IF x = p /\ z = SideOf(a, p, t) THEN up ELSE a.kid[z][x]
  <2> HIDE DEF a, p, up
  <2>1. p \in Task0 /\ t \in Task0 /\ up \in Task0
    BY <1>0b, <1>1 DEF Task0
  <2> HIDE DEF b
  <2>2. b = Replace(a, p, t, up)
    BY DEF b
  <2>3. Replaced(b, a, p, t, up)
    BY ONLY <2>1, <2>2, <1>4, ReplaceEffect
  <2> QED BY <2>3, <1>4 DEF Replaced
<1>6. r = [b EXCEPT !.kid[s][up] = t, !.parent[t] = up]
  BY DEF Rotate
<1>7. /\ r \in Trees /\ r.red = tr.red /\ r.root = b.root
      /\ \A x \in TREE_TASKS : r.parent[x] = IF x = t THEN up ELSE b.parent[x]
      /\ \A z \in Sides : \A x \in TREE_TASKS :
           r.kid[z][x] = IF x = up /\ z = s THEN t ELSE b.kid[z][x]
  <2> HIDE DEF b, r, up
  <2>1. t \in Task0 /\ t \in TREE_TASKS /\ up \in TREE_TASKS
    BY <1>0b, <1>1 DEF Task0
  <2>2. b \in Trees
    BY <1>5
  <2>3. /\ r \in Trees /\ r.red = b.red /\ r.root = b.root
        /\ \A x \in TREE_TASKS : r.parent[x] = IF x = t THEN up ELSE b.parent[x]
        /\ \A z \in Sides : \A x \in TREE_TASKS :
             r.kid[z][x] = IF x = up /\ z = s THEN t ELSE b.kid[z][x]
    BY ONLY <2>1, <2>2, <1>6, s \in Sides DEF Trees, Task0
  <2> QED BY ONLY <2>3, <1>5
<1> HIDE DEF a0, a, b, up, r
<1>8. tr.root = t <=> p = NULL
  BY <1>0c, <1>1 DEF Tied
<1>9. \A x \in TREE_TASKS :
        r.parent[x] = IF x = t THEN up ELSE IF x = up THEN p
                      ELSE IF x = mid THEN t ELSE tr.parent[x]
  BY <1>0b, <1>1, <1>3, <1>4, <1>5, <1>7
<1>10. p \in M => p # t /\ p # up /\ SideOf(a, p, t) = SideOf(tr, p, t)
  <2>1. p \in M => (tr.kid[s][p] = t \/ tr.kid[o][p] = t)
    BY <1>0b, <1>0c DEF Tied
  <2>2. p \in M => p # t /\ p # up
    <3>1. tr.kid[s][up] # t /\ tr.kid[o][up] # t
      BY <1>0d DEF Untangled, up
    <3>2. tr.kid[s][t] # t /\ tr.kid[o][t] # t
      BY <1>0d DEF Untangled
    <3> HIDE DEF up, p, o
    <3>. QED BY <2>1, <3>1, <3>2
  <2>. QED BY <2>2, <1>0b, <1>4 DEF SideOf, Sides
<1> HIDE DEF p, mid
<1>11. ASSUME NEW z \in Sides, NEW x \in TREE_TASKS, x # t, x # up
       PROVE  r.kid[z][x] = IF x = p /\ z = SideOf(tr, p, t) THEN up ELSE tr.kid[z][x]
  <2>1. x = p => p \in M
    BY <1>0b, <1>1, <1>11, NullIsNoTask
  <2>2. r.kid[z][x] = b.kid[z][x] /\ a.kid[z][x] = tr.kid[z][x]
    BY <1>4, <1>7, <1>11
  <2>3. b.kid[z][x] = IF x = p /\ z = SideOf(a, p, t) THEN up ELSE a.kid[z][x]
    BY <1>5
  <2>. QED BY <2>1, <2>2, <2>3, <1>10
<1>12. ASSUME NEW z \in Sides, NEW x \in M
       PROVE  tr.kid[z][x] = t <=> x = p /\ z = SideOf(tr, p, t)
  <2>1. tr.kid[s][x] = t \/ tr.kid[o][x] = t => x = p
    BY <1>0b, <1>0c DEF Tied, p
  <2>2. x = p => tr.kid[s][x] = t \/ tr.kid[o][x] = t
    BY <1>0b, <1>0c DEF Tied, p
  <2>3. tr.kid[s][x] = tr.kid[o][x] => tr.kid[s][x] = NULL
    BY <1>0d DEF Untangled
  <2>. QED BY <2>1, <2>2, <2>3, <1>0, <1>0b DEF SideOf, Sides
<1>13. \A z \in Sides : \A x \in M \ {t, up} :
         r.kid[z][x] = IF tr.kid[z][x] = t THEN up ELSE tr.kid[z][x]
  BY <1>0b, <1>11, <1>12
<1>14. /\ r.kid[s][t] = tr.kid[s][t] /\ r.kid[o][t] = mid
       /\ r.kid[s][up] = t /\ r.kid[o][up] = tr.kid[o][up]
  BY <1>0, <1>0b, <1>1, <1>4, <1>5, <1>7, <1>10
<1>15. Outside(r, M)
  <2>1. mid # NULL => mid \in M
    BY <1>1
  <2>2. ASSUME NEW x \in TREE_TASKS \ M PROVE r.parent[x] = NULL
    BY <2>1, <1>0b, <1>1, <1>9, NullIsNoTask DEF Outside
  <2>3. ASSUME NEW x \in TREE_TASKS \ M, NEW z \in Sides PROVE r.kid[z][x] = NULL
    <3>1. x # p /\ x # t /\ x # up
      BY <1>1, NullIsNoTask
    <3>. QED BY <3>1, <1>0b, <1>11 DEF Outside
  <2>. QED BY <2>2, <2>3, <1>0b, <1>7 DEF Outside
<1>16. SideTurned(s, tr, r, M, t)
  <2>1. r.root = IF tr.root = t THEN up ELSE tr.root
    BY <1>5, <1>7, <1>8
  <2>. QED BY <2>1, <1>0, <1>0b, <1>1, <1>2, <1>9, <1>13, <1>14 DEF SideTurned, Turned, up, mid, o, p
<1>. QED BY <1>7, <1>15, <1>16 DEF r

(* A rotation keeps the shape.                                             *)
Regrouped(B, C, f, M, t, up) ==
  /\ C[NULL] = {} /\ C[t] = {t} \cup B[f[t]] \cup B[f[up]] /\ C[up] = B[t]
  /\ \A x \in M \ {t, up} : C[x] = B[x]

LEMMA TurnKeepsShape ==
  ASSUME NEW s, NEW R, NEW f, NEW g, NEW P, NEW M, NEW B, NEW vr,
         Shaped(s, R, f, g, P, M, B, vr), NEW t \in M, NEW up, up = g[t], up # NULL,
         NEW R2, NEW f2, NEW g2, NEW P2, Turned(R, f, g, P, R2, f2, g2, P2, M, t, up),
         NEW C, Regrouped(B, C, f, M, t, up)
  PROVE  Shaped(s, R2, f2, g2, P2, M, C, vr)
<1>1. /\ NULL \notin M /\ Tied(R, f, g, P, M) /\ Nested(R, f, g, P, M, B)
      /\ Sorted(f, g, M, B, vr, s) /\ Ranked(vr, s, M)
      /\ Cut(f, g, M, B) /\ Untangled(f, g, M)
  BY ShapedIsCut, ShapedIsApart DEF Shaped
<1>2. PICK low, mid, end, p : low = f[t] /\ mid = f[up] /\ end = g[up] /\ p = P[t]
  OBVIOUS
<1>3. /\ up \in M /\ up # t /\ P[up] = t
      /\ low \in M \cup {NULL} /\ mid \in M \cup {NULL} /\ end \in M \cup {NULL}
      /\ p \in M \cup {NULL}
      /\ (low # NULL => P[low] = t) /\ (mid # NULL => P[mid] = up)
      /\ (end # NULL => P[end] = up)
  BY <1>1, <1>2 DEF Tied, Untangled
<1>4. /\ low # t /\ low # up /\ mid # t /\ mid # up /\ end # t /\ end # up
      /\ p # t /\ p # up /\ (mid = end => mid = NULL) /\ (mid = low => mid = NULL)
  BY <1>1, <1>2, <1>3 DEF Tied, Untangled
<1>5. /\ B[t] = {t} \cup B[low] \cup B[up] /\ B[up] = {up} \cup B[mid] \cup B[end]
      /\ B[NULL] = {} /\ B[R] = M
  BY <1>1, <1>2, <1>3 DEF Nested
<1>6. /\ t \notin B[up] /\ t \notin B[low] /\ up \notin B[mid] /\ up \notin B[end]
      /\ \A x \in B[low] : x \notin B[up]
      /\ \A x \in B[mid] : x \notin B[end]
      /\ \A x \in M : x \in B[x]
  BY <1>1, <1>2, <1>3 DEF Cut
<1>7. /\ C[NULL] = {} /\ C[t] = {t} \cup B[low] \cup B[mid] /\ C[up] = B[t]
      /\ \A x \in M \ {t, up} : C[x] = B[x]
  BY <1>2 DEF Regrouped
<1>8. /\ f2[t] = low /\ g2[t] = mid /\ f2[up] = t /\ g2[up] = end
      /\ \A x \in M \ {t, up} : f2[x] = IF f[x] = t THEN up ELSE f[x]
      /\ \A x \in M \ {t, up} : g2[x] = IF g[x] = t THEN up ELSE g[x]
  BY <1>2 DEF Turned
<1>9. /\ P2[t] = up /\ P2[up] = p /\ (mid # NULL => P2[mid] = t)
      /\ \A x \in M \ {t, up} : x # mid => P2[x] = P[x]
      /\ R2 = IF R = t THEN up ELSE R
  BY <1>2 DEF Turned
<1>10. /\ C[low] = B[low] /\ C[mid] = B[mid] /\ C[end] = B[end]
  BY <1>3, <1>4, <1>5, <1>7
<1>11. ASSUME NEW x \in M \ {t, up}
       PROVE  f[x] # up /\ g[x] # up /\ C[f2[x]] = B[f[x]] /\ C[g2[x]] = B[g[x]]
  <2>1. f[x] \in M \cup {NULL} /\ g[x] \in M \cup {NULL} /\ f[x] # up /\ g[x] # up
    BY <1>1, <1>3 DEF Tied
  <2>2. f[x] # t => C[f[x]] = B[f[x]]
    BY <2>1, <1>5, <1>7
  <2>3. g[x] # t => C[g[x]] = B[g[x]]
    BY <2>1, <1>5, <1>7
  <2>. QED BY <2>1, <2>2, <2>3, <1>7, <1>8
<1>12. Tied(R2, f2, g2, P2, M)
  <2>1. R2 \in M \cup {NULL} /\ (R2 # NULL => P2[R2] = NULL)
    <3>1. R = t => p = NULL
      BY <1>1, <1>2 DEF Tied
    <3>2. R # NULL => R \in M /\ P[R] = NULL
      BY <1>1 DEF Tied
    <3>3. R # NULL => R # up /\ (mid # NULL => R # mid)
      BY <3>2, <1>1, <1>3
    <3>. QED BY <3>1, <3>2, <3>3, <1>1, <1>3, <1>9
  <2>2. ASSUME NEW x \in M
        PROVE  /\ f2[x] \in M \cup {NULL} /\ g2[x] \in M \cup {NULL}
               /\ (f2[x] # NULL => P2[f2[x]] = x) /\ (g2[x] # NULL => P2[g2[x]] = x)
    <3>1. CASE x = t
      BY <3>1, <1>3, <1>4, <1>8, <1>9
    <3>2. CASE x = up
      BY <3>2, <1>3, <1>4, <1>8, <1>9
    <3>3. CASE x \in M \ {t, up}
      <4>1. /\ f[x] \in M \cup {NULL} /\ (f[x] # NULL => P[f[x]] = x) /\ f[x] # up
            /\ g[x] \in M \cup {NULL} /\ (g[x] # NULL => P[g[x]] = x) /\ g[x] # up
        BY <3>3, <1>1, <1>11 DEF Tied
      <4>2. /\ f[x] = t => p = x
            /\ g[x] = t => p = x
            /\ f[x] # NULL => f[x] # mid
            /\ g[x] # NULL => g[x] # mid
        BY <3>3, <4>1, <1>1, <1>2, <1>3
      <4>. QED BY <3>3, <4>1, <4>2, <1>3, <1>8, <1>9
    <3>. QED BY <3>1, <3>2, <3>3
  <2>3. ASSUME NEW x \in M
        PROVE  /\ P2[x] = NULL => x = R2
               /\ P2[x] # NULL => P2[x] \in M /\ (f2[P2[x]] = x \/ g2[P2[x]] = x)
    <3>1. CASE x = t
      BY <3>1, <1>1, <1>3, <1>8, <1>9
    <3>2. CASE x = up
      <4>1. p = NULL => R = t
        BY <1>1, <1>2 DEF Tied
      <4>2. p # NULL => p \in M \ {t, up} /\ (f[p] = t \/ g[p] = t)
        BY <1>1, <1>2, <1>3, <1>4 DEF Tied
      <4>. QED BY <3>2, <4>1, <4>2, <1>8, <1>9
    <3>3. CASE mid # NULL /\ x = mid
      BY <3>3, <1>1, <1>8, <1>9
    <3>4. CASE x \in M \ {t, up} /\ x # mid
      <4>1. /\ P2[x] = P[x] /\ (P[x] = NULL => x = R)
            /\ P[x] # NULL => P[x] \in M /\ (f[P[x]] = x \/ g[P[x]] = x)
        BY <3>4, <1>1, <1>9 DEF Tied
      <4>2. P[x] = t => x = low
        BY <3>4, <4>1, <1>1, <1>2
      <4>3. P[x] = up => x = end
        BY <3>4, <4>1, <1>1, <1>2, <1>3
      <4>. QED BY <3>4, <4>1, <4>2, <4>3, <1>8, <1>9
    <3>. QED BY <3>1, <3>2, <3>3, <3>4, <1>1
  <2>. QED BY <2>1, <2>2, <2>3 DEF Tied
<1>13. Nested(R2, f2, g2, P2, M, C)
  <2>1. C[R2] = M
    BY <1>1, <1>3, <1>5, <1>7, <1>9 DEF Tied
  <2>2. ASSUME NEW x \in M PROVE C[x] = {x} \cup C[f2[x]] \cup C[g2[x]]
    <3>1. CASE x = t
      BY <3>1, <1>7, <1>8, <1>10
    <3>2. CASE x = up
      BY <3>2, <1>5, <1>7, <1>8, <1>10
    <3>3. CASE x \in M \ {t, up}
      BY <3>3, <1>1, <1>7, <1>11 DEF Nested
    <3>. QED BY <3>1, <3>2, <3>3
  <2>3. ASSUME NEW x \in M PROVE C[x] \subseteq M
    BY <2>3, <1>1, <1>3, <1>5, <1>7 DEF Nested
  <2>4. ASSUME NEW x \in M, NEW u \in C[x] PROVE C[u] \subseteq C[x]
    <3>1. \A y \in M : \A v \in B[y] : v \in M /\ B[v] \subseteq B[y]
      BY <1>1 DEF Nested
    <3>2. CASE x = t
      <4>1. u = t \/ (u # t /\ u # up /\ (u \in B[low] \/ u \in B[mid]))
        BY <3>2, <1>5, <1>6, <1>7
      <4>2. (low \in M \/ B[low] = {}) /\ (mid \in M \/ B[mid] = {})
        BY <1>3, <1>5
      <4>3. CASE u = t
        BY <4>3, <3>2
      <4>4. CASE u \in B[low]
        BY <4>1, <4>2, <4>4, <3>1, <3>2, <1>5, <1>6, <1>7
      <4>5. CASE u \in B[mid]
        BY <4>1, <4>2, <4>5, <3>1, <3>2, <1>5, <1>6, <1>7
      <4>. QED BY <4>1, <4>3, <4>4, <4>5
    <3>3. CASE x = up
      <4>1. CASE u = t
        BY <4>1, <3>3, <1>5, <1>7
      <4>2. CASE u # t
        BY <4>2, <3>1, <3>3, <1>7
      <4>. QED BY <4>1, <4>2
    <3>4. CASE x \in M \ {t, up}
      <4>1. u \in B[x] /\ C[x] = B[x] /\ u \in M /\ B[u] \subseteq B[x]
        BY <3>1, <3>4, <1>7
      <4>2. C[t] \subseteq B[t]
        BY <1>5, <1>7
      <4>3. u = up => t \in B[x]
        BY <3>4, <4>1, <1>1, <1>3 DEF Nested
      <4>4. t \in B[x] => B[t] \subseteq B[x]
        BY <3>1, <3>4
      <4>. QED BY <4>1, <4>2, <4>3, <4>4, <1>7
    <3>. QED BY <3>2, <3>3, <3>4
  <2>5. ASSUME NEW x \in M, NEW u \in C[x] PROVE u = x \/ P2[u] \in C[x]
    <3>1. \A y \in M : \A v \in B[y] : v \in M /\ (v = y \/ P[v] \in B[y])
      BY <1>1 DEF Nested
    <3>2. u \in M
      BY <2>3
    <3>3. CASE x = t
      <4>1. ASSUME u \in B[low] PROVE P2[u] \in C[x]
        <5>1. low \in M
          BY <4>1, <1>3, <1>5
        <5>2. u # t /\ u # up /\ (mid # NULL => u # mid)
          BY <4>1, <1>3, <1>5, <1>6
        <5>3. P2[u] = P[u]
          BY <5>2, <3>2, <1>1, <1>9
        <5>. QED BY <3>1, <3>3, <4>1, <5>1, <5>3, <1>1, <1>3, <1>7
      <4>2. ASSUME u \in B[mid] PROVE P2[u] \in C[x]
        <5>1. mid \in M
          BY <4>2, <1>3, <1>5
        <5>2. u # t /\ u # up
          BY <4>2, <1>5, <1>6
        <5>. QED BY <3>1, <3>2, <3>3, <4>2, <5>1, <5>2, <1>1, <1>7, <1>9
      <4>. QED BY <3>3, <4>1, <4>2, <1>7
    <3>4. CASE x = up
      <4>1. u \in B[t] /\ C[x] = B[t] /\ t \in B[t] /\ up \in B[t]
        BY <3>4, <1>3, <1>5, <1>6, <1>7
      <4>. QED BY <4>1, <3>1, <3>2, <3>4, <1>1, <1>9
    <3>5. CASE x \in M \ {t, up}
      <4>1. u \in B[x] /\ C[x] = B[x]
        BY <3>5, <1>7
      <4>2. up \in B[x] => t \in B[x]
        BY <3>1, <3>5, <1>3
      <4>3. mid # NULL /\ mid \in B[x] => mid = x \/ up \in B[x]
        BY <3>1, <3>5, <1>3
      <4>4. t \in B[x] => up \in B[x] /\ p \in B[x]
        <5>1. t \in B[x] => B[t] \subseteq B[x]
          BY <3>5, <1>1 DEF Nested
        <5>. QED BY <5>1, <3>1, <3>5, <1>2, <1>3, <1>5, <1>6
      <4>. QED BY <4>1, <4>2, <4>3, <4>4, <3>1, <3>2, <3>5, <1>1, <1>9
    <3>. QED BY <3>3, <3>4, <3>5
  <2>. QED BY <2>1, <2>2, <2>3, <2>4, <2>5, <1>7 DEF Nested
<1>14. Sorted(f2, g2, M, C, vr, s)
  <2>1. /\ \A y \in M : \A v \in B[f[y]] : OnSide(vr, s, v, y)
        /\ \A y \in M : \A v \in B[g[y]] : OnSide(vr, s, y, v)
    BY <1>1 DEF Sorted
  <2>2. OnSide(vr, s, t, up)
    BY <2>1, <1>3, <1>6
  <2>3. ASSUME NEW x \in M, NEW u \in C[f2[x]] PROVE OnSide(vr, s, u, x)
    <3>1. CASE x = t
      BY <2>1, <2>3, <3>1, <1>2, <1>8, <1>10
    <3>2. CASE x = up
      <4>1. ASSUME u \in B[low] PROVE OnSide(vr, s, u, up)
        <5>1. OnSide(vr, s, u, t)
          BY <2>1, <4>1, <1>2
        <5>2. u \in M
          BY <4>1, <1>1, <1>5 DEF Nested
        <5>. QED BY <5>1, <5>2, <2>2, <1>1, <1>3 DEF Ranked
      <4>2. ASSUME u \in B[mid] PROVE OnSide(vr, s, u, up)
        BY <2>1, <4>2, <1>2, <1>3
      <4>. QED BY <2>2, <2>3, <3>2, <4>1, <4>2, <1>7, <1>8
    <3>3. CASE x \in M \ {t, up}
      BY <2>1, <2>3, <3>3, <1>11
    <3>. QED BY <3>1, <3>2, <3>3
  <2>4. ASSUME NEW x \in M, NEW u \in C[g2[x]] PROVE OnSide(vr, s, x, u)
    <3>1. CASE x = t
      <4>1. u \in B[g[t]]
        BY <2>4, <3>1, <1>5, <1>8, <1>10
      <4>. QED BY <2>1, <3>1, <4>1
    <3>2. CASE x = up
      BY <2>1, <2>4, <3>2, <1>2, <1>3, <1>8, <1>10
    <3>3. CASE x \in M \ {t, up}
      BY <2>1, <2>4, <3>3, <1>11
    <3>. QED BY <3>1, <3>2, <3>3
  <2>. QED BY <2>3, <2>4 DEF Sorted
<1>. QED BY <1>1, <1>12, <1>13, <1>14 DEF Shaped

(* Colours are no part of the shape.                                       *)
LEMMA RecolourKeepsShape ==
  ASSUME NEW tr, NEW M, NEW B, NEW vr, Shape(tr, M, B, vr), NEW red \in SUBSET M
  PROVE  /\ Shape([tr EXCEPT !.red = red], M, B, vr)
         /\ [tr EXCEPT !.red = red].red = red
         /\ [tr EXCEPT !.red = red].root = tr.root
         /\ [tr EXCEPT !.red = red].kid = tr.kid
         /\ [tr EXCEPT !.red = red].parent = tr.parent
<1> DEFINE r == [tr EXCEPT !.red = red]
<1>1. /\ r \in Trees /\ r.red = red /\ r.root = tr.root
      /\ r.kid = tr.kid /\ r.parent = tr.parent
  BY DEF Shape, Trees
<1> HIDE DEF r
<1>2. Shape(r, M, B, vr)
  BY <1>1 DEF Shape, Outside, SideShaped
<1>. QED BY <1>1, <1>2 DEF r

LEMMA RotateKeepsShape ==
  ASSUME NEW tr, NEW M, NEW B, NEW vr, Shape(tr, M, B, vr),
         NEW s \in Sides, NEW t \in M, tr.kid[Opposite(s)][t] # NULL
  PROVE  \E C : Shape(Rotate(tr, s, t), M, C, vr)
<1> DEFINE r == Rotate(tr, s, t)
           o == Opposite(s)
           up == tr.kid[o][t]
           f == tr.kid[s]
           C == [x \in Task0 |-> IF x = t THEN {t} \cup B[f[t]] \cup B[f[up]]
                                 ELSE IF x = up THEN B[t] ELSE B[x]]
<1>1. r \in Trees /\ Outside(r, M) /\ SideTurned(s, tr, r, M, t)
  BY RotateEffect
<1>2. SideShaped(s, tr, M, B, vr) /\ M \in SUBSET TREE_TASKS
  BY EverySideShaped DEF Shape
<1>3. up \in M /\ up # t /\ NULL \notin M /\ B[NULL] = {}
  <2>1. /\ NULL \notin M /\ Nested(tr.root, f, tr.kid[o], tr.parent, M, B)
        /\ Tied(tr.root, f, tr.kid[o], tr.parent, M) /\ Untangled(f, tr.kid[o], M)
    BY <1>2, ShapedIsApart DEF SideShaped, Shaped
  <2>. QED BY <2>1 DEF Tied, Untangled, Nested
<1>4. Regrouped(B, C, f, M, t, up)
  <2> HIDE DEF f, up
  <2>. QED BY <1>2, <1>3 DEF Regrouped, Task0
<1> HIDE DEF r, C
<1>5. SideShaped(s, r, M, C, vr)
  BY <1>1, <1>2, <1>4, TurnKeepsShape DEF SideShaped, SideTurned
<1>6. Shape(r, M, C, vr)
  BY <1>1, <1>2, <1>5, ShapeFromSide
<1>. QED BY <1>6 DEF r

-----------------------------------------------------------------------------
(***************************************************************************)
(* The colours. H gives the number of black tasks on every way down from a *)
(* task; the way on the side of f is one short at fa, that on the other at *)
(* ga. A red task other than k has no red child other than n.              *)
(***************************************************************************)
One(b) == IF b THEN 1 ELSE 0

Heights(f, g, red, M, H, fa, ga) ==
  /\ H[NULL] = 0 /\ \A t \in M : H[t] \in Nat
  /\ \A t \in M : H[t] = H[f[t]] + One(t \notin red) + One(t = fa)
  /\ \A t \in M : H[t] = H[g[t]] + One(t \notin red) + One(t = ga)

Calm(R, f, g, red, n, k) ==
  /\ R \in red => R = n
  /\ \A t \in red : t # k => (f[t] \in red => f[t] = n) /\ (g[t] \in red => g[t] = n)

(* A red child comes up and swaps colours with its parent.                 *)
SwappedRed(red, red2, M, t, up) ==
  /\ up \in red2 <=> t \in red
  /\ t \in red2
  /\ \A x \in M \ {t, up} : x \in red2 <=> x \in red

Swapped(H, H2, M, t, up) ==
  /\ H2[NULL] = 0 /\ H2[t] = H[up] /\ H2[up] = H[t]
  /\ \A x \in M \ {t, up} : H2[x] = H[x]

LEMMA TurnedInside ==
  ASSUME NEW s, NEW R, NEW f, NEW g, NEW P, NEW M, NEW B, NEW vr,
         Shaped(s, R, f, g, P, M, B, vr), NEW t \in M, NEW up, up = g[t], up # NULL
  PROVE  /\ up \in M /\ up # t /\ NULL \notin M
         /\ f[t] \in (M \cup {NULL}) \ {t, up} /\ f[up] \in (M \cup {NULL}) \ {t, up}
         /\ g[up] \in (M \cup {NULL}) \ {t, up}
         /\ f[up] = g[up] => f[up] = NULL
<1>1. Untangled(f, g, M) /\ Tied(R, f, g, P, M) /\ NULL \notin M
  BY ShapedIsApart DEF Shaped
<1>. QED BY <1>1 DEF Tied, Untangled

SwapTurn(s, R, f, g, P, R2, f2, g2, P2, M, B, vr, t, up, red, red2) ==
  /\ Shaped(s, R, f, g, P, M, B, vr) /\ t \in M /\ up = g[t] /\ up # NULL
  /\ Turned(R, f, g, P, R2, f2, g2, P2, M, t, up)
  /\ red \in SUBSET M /\ red2 \in SUBSET M
  /\ up \in red /\ SwappedRed(red, red2, M, t, up)

LEMMA SwapTurnHeights ==
  ASSUME NEW s, NEW R, NEW f, NEW g, NEW P, NEW M, NEW B, NEW vr, NEW t, NEW up,
         NEW R2, NEW f2, NEW g2, NEW P2, NEW red, NEW red2,
         SwapTurn(s, R, f, g, P, R2, f2, g2, P2, M, B, vr, t, up, red, red2),
         NEW H, NEW H2, NEW fa, NEW ga, Heights(f, g, red, M, H, fa, ga),
         Swapped(H, H2, M, t, up), ga \notin {t, up}, fa # up
  PROVE  Heights(f2, g2, red2, M, H2, fa, ga)
<1> SUFFICES ASSUME Shaped(s, R, f, g, P, M, B, vr), t \in M, up = g[t], up # NULL,
                    Turned(R, f, g, P, R2, f2, g2, P2, M, t, up),
                    red \in SUBSET M, red2 \in SUBSET M,
                    up \in red, SwappedRed(red, red2, M, t, up)
             PROVE  Heights(f2, g2, red2, M, H2, fa, ga)
  BY DEF SwapTurn
<1>1. /\ up \in M /\ up # t /\ NULL \notin M
      /\ f[t] \in (M \cup {NULL}) \ {t, up} /\ f[up] \in (M \cup {NULL}) \ {t, up}
      /\ g[up] \in (M \cup {NULL}) \ {t, up}
  BY TurnedInside
<1>2. H2[NULL] = 0 /\ \A x \in M : H2[x] \in Nat
  BY <1>1 DEF Heights, Swapped
<1>3. /\ H2[f[t]] = H[f[t]] /\ H2[f[up]] = H[f[up]] /\ H2[g[up]] = H[g[up]]
      /\ H[f[t]] \in Nat /\ H[f[up]] \in Nat /\ H[g[up]] \in Nat
  BY <1>1 DEF Heights, Swapped
<1>4. f2[t] = f[t] /\ g2[t] = f[up] /\ f2[up] = t /\ g2[up] = g[up]
  BY DEF Turned
<1>5. /\ H[t] = H[f[t]] + One(t \notin red) + One(t = fa)
      /\ H[t] = H[up] + One(t \notin red)
      /\ H[up] = H[f[up]] /\ H[up] = H[g[up]] /\ H[up] \in Nat /\ H[t] \in Nat
  BY <1>1, <1>3 DEF Heights, One
<1>6. /\ H2[t] = H2[f2[t]] + One(t \notin red2) + One(t = fa)
      /\ H2[t] = H2[g2[t]] + One(t \notin red2) + One(t = ga)
  BY <1>3, <1>4, <1>5 DEF Swapped, SwappedRed, One
<1>7. /\ H2[up] = H2[f2[up]] + One(up \notin red2) + One(up = fa)
      /\ H2[up] = H2[g2[up]] + One(up \notin red2) + One(up = ga)
  BY <1>3, <1>4, <1>5 DEF Swapped, SwappedRed, One
<1>8. ASSUME NEW x \in M \ {t, up}
      PROVE  /\ H2[x] = H2[f2[x]] + One(x \notin red2) + One(x = fa)
             /\ H2[x] = H2[g2[x]] + One(x \notin red2) + One(x = ga)
  <2>1. /\ f[x] \in M \cup {NULL} /\ f[x] # up /\ f2[x] = (IF f[x] = t THEN up ELSE f[x])
        /\ g[x] \in M \cup {NULL} /\ g[x] # up /\ g2[x] = (IF g[x] = t THEN up ELSE g[x])
    BY DEF Shaped, Tied, Turned
  <2>2. H2[f2[x]] = H[f[x]] /\ H2[g2[x]] = H[g[x]]
    BY <2>1, <1>1 DEF Swapped, Heights
  <2>3. /\ H[x] = H[f[x]] + One(x \notin red) + One(x = fa)
        /\ H[x] = H[g[x]] + One(x \notin red) + One(x = ga)
    BY DEF Heights
  <2>4. H2[x] = H[x] /\ (x \in red2 <=> x \in red)
    BY DEF Swapped, SwappedRed
  <2>. QED BY <2>2, <2>3, <2>4
<1>. QED BY <1>2, <1>6, <1>7, <1>8 DEF Heights

(* The last rotation of RB_REMOVE_COLOR: the sibling comes up, takes the   *)
(* colour of its parent, and that and the far nephew become black.         *)
LastRed(red, red2, M, t, up, far) ==
  /\ up \in red2 <=> t \in red
  /\ t \notin red2 /\ far \notin red2
  /\ \A x \in M \ {t, up, far} : x \in red2 <=> x \in red

LastHeights(H, H2, M, t, up, far) ==
  /\ H2[NULL] = 0 /\ H2[t] = H[up] /\ H2[up] = H[t] /\ H2[far] = H[far] + 1
  /\ \A x \in M \ {t, up, far} : H2[x] = H[x]

LastTurn(s, R, f, g, P, R2, f2, g2, P2, M, B, vr, t, up, far, red, red2) ==
  /\ Shaped(s, R, f, g, P, M, B, vr) /\ t \in M /\ up = g[t] /\ up # NULL
  /\ Turned(R, f, g, P, R2, f2, g2, P2, M, t, up)
  /\ red \in SUBSET M /\ red2 \in SUBSET M
  /\ up \notin red /\ far = g[up] /\ far \in red
  /\ LastRed(red, red2, M, t, up, far)

LEMMA LastTurnHeights ==
  ASSUME NEW s, NEW R, NEW f, NEW g, NEW P, NEW M, NEW B, NEW vr, NEW t, NEW up,
         NEW R2, NEW f2, NEW g2, NEW P2, NEW red, NEW red2, NEW far,
         LastTurn(s, R, f, g, P, R2, f2, g2, P2, M, B, vr, t, up, far, red, red2),
         NEW H, NEW H2, Heights(f, g, red, M, H, t, NULL), LastHeights(H, H2, M, t, up, far)
  PROVE  Heights(f2, g2, red2, M, H2, NULL, NULL)
<1> SUFFICES ASSUME Shaped(s, R, f, g, P, M, B, vr), t \in M, up = g[t], up # NULL,
                    Turned(R, f, g, P, R2, f2, g2, P2, M, t, up),
                    red \in SUBSET M, red2 \in SUBSET M,
                    up \notin red, far = g[up], far \in red,
                    LastRed(red, red2, M, t, up, far)
             PROVE  Heights(f2, g2, red2, M, H2, NULL, NULL)
  BY DEF LastTurn
<1>1. /\ up \in M /\ up # t /\ NULL \notin M
      /\ f[t] \in (M \cup {NULL}) \ {t, up} /\ f[up] \in (M \cup {NULL}) \ {t, up}
      /\ far \in M \ {t, up} /\ f[up] # far
  BY TurnedInside
<1>1a. /\ f[t] # far /\ f[far] \in (M \cup {NULL}) \ {t, up, far}
       /\ g[far] \in (M \cup {NULL}) \ {t, up, far}
  <2>1. Untangled(f, g, M) /\ Tied(R, f, g, P, M)
    BY ShapedIsApart DEF Shaped
  <2>2. P[far] = up /\ P[up] = t
    BY <2>1, <1>1 DEF Tied
  <2>3. f[t] # far
    BY <2>1, <2>2, <1>1 DEF Tied
  <2>4. f[far] # t /\ g[far] # t
    <3>1. Nested(R, f, g, P, M, B) /\ Cut(f, g, M, B)
      BY ShapedIsCut DEF Shaped
    <3>2. B[far] \subseteq B[up] /\ B[f[far]] \subseteq B[far] /\ B[g[far]] \subseteq B[far]
      BY <3>1, <1>1 DEF Nested
    <3>3. t \in B[t] /\ t \notin B[up]
      BY <3>1 DEF Cut
    <3>. QED BY <3>2, <3>3
  <2>. QED BY <2>1, <2>2, <2>3, <2>4, <1>1 DEF Tied, Untangled
<1>2. H2[NULL] = 0 /\ \A x \in M : H2[x] \in Nat
  BY <1>1 DEF Heights, LastHeights
<1>3. /\ H2[f[t]] = H[f[t]] /\ H2[f[up]] = H[f[up]] /\ H2[far] = H[far] + 1
      /\ H2[f[far]] = H[f[far]] /\ H2[g[far]] = H[g[far]]
      /\ H[f[t]] \in Nat /\ H[f[up]] \in Nat /\ H[far] \in Nat
  BY <1>1, <1>1a DEF Heights, LastHeights
<1>4. f2[t] = f[t] /\ g2[t] = f[up] /\ f2[up] = t /\ g2[up] = far
  BY DEF Turned
<1>5. /\ H[t] = H[f[t]] + One(t \notin red) + 1
      /\ H[t] = H[up] + One(t \notin red)
      /\ H[up] = H[f[up]] + 1 /\ H[up] = H[far] + 1 /\ H[up] \in Nat /\ H[t] \in Nat
  BY <1>1, <1>3 DEF Heights, One
<1>6. /\ H2[t] = H2[f2[t]] + One(t \notin red2) + One(t = NULL)
      /\ H2[t] = H2[g2[t]] + One(t \notin red2) + One(t = NULL)
  BY <1>1, <1>3, <1>4, <1>5 DEF LastHeights, LastRed, One
<1>7. /\ H2[up] = H2[f2[up]] + One(up \notin red2) + One(up = NULL)
      /\ H2[up] = H2[g2[up]] + One(up \notin red2) + One(up = NULL)
  BY <1>1, <1>3, <1>4, <1>5 DEF LastHeights, LastRed, One
<1>8. ASSUME NEW x \in M \ {t, up}
      PROVE  /\ H2[x] = H2[f2[x]] + One(x \notin red2) + One(x = NULL)
             /\ H2[x] = H2[g2[x]] + One(x \notin red2) + One(x = NULL)
  <2>1. /\ f[x] \in M \cup {NULL} /\ f[x] # up /\ f2[x] = (IF f[x] = t THEN up ELSE f[x])
        /\ g[x] \in M \cup {NULL} /\ g[x] # up /\ g2[x] = (IF g[x] = t THEN up ELSE g[x])
    BY DEF Shaped, Tied, Turned
  <2>2. f[x] # far /\ g[x] # far
    BY <2>1, <1>1 DEF Shaped, Tied
  <2>3. H2[f2[x]] = H[f[x]] /\ H2[g2[x]] = H[g[x]]
    BY <2>1, <2>2, <1>1 DEF LastHeights, Heights
  <2>4. H[x] = H[f[x]] + One(x \notin red) /\ H[x] = H[g[x]] + One(x \notin red)
    BY <1>1, <2>1 DEF Heights, One
  <2>5. x # far => H2[x] = H[x] /\ (x \in red2 <=> x \in red)
    BY DEF LastHeights, LastRed
  <2>6. One(x \notin red2) = One(x \notin red) + One(x = far)
    BY <2>5 DEF LastRed, One
  <2>7. H2[x] = H[x] + One(x = far) /\ H[x] \in Nat
    BY <2>5, <1>1 DEF LastHeights, One, Heights
  <2>8. One(x = NULL) = 0 /\ One(x \notin red) \in Nat /\ One(x = far) \in Nat
    BY <1>1 DEF One
  <2>9. H[f[x]] \in Nat /\ H[g[x]] \in Nat
    BY <2>1 DEF Heights
  <2>. QED BY <2>3, <2>4, <2>6, <2>7, <2>8, <2>9
<1>. QED BY <1>2, <1>6, <1>7, <1>8 DEF Heights

(* What these changes leave between a red task and its children.           *)
LEMMA SwapTurnCalm ==
  ASSUME NEW s, NEW R, NEW f, NEW g, NEW P, NEW M, NEW B, NEW vr, NEW t, NEW up,
         NEW R2, NEW f2, NEW g2, NEW P2, NEW red, NEW red2,
         SwapTurn(s, R, f, g, P, R2, f2, g2, P2, M, B, vr, t, up, red, red2),
         t \notin red, f[t] \notin red,
         NEW n, n \in {NULL, g[up]}, Calm(R, f, g, red, n, NULL)
  PROVE  Calm(R2, f2, g2, red2, NULL, NULL)
<1> SUFFICES ASSUME Shaped(s, R, f, g, P, M, B, vr), t \in M, up = g[t], up # NULL,
                    Turned(R, f, g, P, R2, f2, g2, P2, M, t, up),
                    red \in SUBSET M, red2 \in SUBSET M,
                    up \in red, SwappedRed(red, red2, M, t, up)
             PROVE  Calm(R2, f2, g2, red2, NULL, NULL)
  BY DEF SwapTurn
<1>1. /\ up \in M /\ up # t /\ NULL \notin M
      /\ f[t] \in (M \cup {NULL}) \ {t, up} /\ f[up] \in (M \cup {NULL}) \ {t, up}
      /\ g[up] \in (M \cup {NULL}) \ {t, up} /\ (f[up] = g[up] => f[up] = NULL)
  BY TurnedInside
<1>2. up \notin red2 /\ t \in red2 /\ \A x \in M \ {t, up} : x \in red2 <=> x \in red
  BY DEF SwappedRed
<1>3. R \notin red
  BY <1>1 DEF Calm, Shaped, Tied
<1>4. R2 \notin red2
  BY <1>2, <1>3 DEF Turned
<1>5. f2[t] \notin red2 /\ g2[t] \notin red2
  <2>1. f[up] \notin red
    BY <1>1 DEF Calm
  <2>. QED BY <2>1, <1>1, <1>2 DEF Turned
<1>6. ASSUME NEW x \in red2, x # t
      PROVE  f2[x] \notin red2 /\ g2[x] \notin red2
  <2>1. x \in red /\ x \in M \ {t, up}
    BY <1>2, <1>6
  <2>2. /\ f[x] \in M \cup {NULL} /\ f[x] # up /\ f2[x] = (IF f[x] = t THEN up ELSE f[x])
        /\ g[x] \in M \cup {NULL} /\ g[x] # up /\ g2[x] = (IF g[x] = t THEN up ELSE g[x])
    BY <2>1 DEF Shaped, Tied, Turned
  <2>3. f[x] \notin red /\ g[x] \notin red
    <3>1. n # NULL => f[x] # n /\ g[x] # n
      BY <2>1, <1>1 DEF Shaped, Tied
    <3>. QED BY <2>1, <3>1, <1>1 DEF Calm
  <2>. QED BY <2>2, <2>3, <1>2
<1>. QED BY <1>4, <1>5, <1>6 DEF Calm

LEMMA InnerTurnCalm ==
  ASSUME NEW s, NEW R, NEW f, NEW g, NEW P, NEW M, NEW B, NEW vr, NEW t, NEW up,
         NEW R2, NEW f2, NEW g2, NEW P2, NEW red, NEW red2,
         SwapTurn(s, R, f, g, P, R2, f2, g2, P2, M, B, vr, t, up, red, red2),
         red2 = red, t \in red, Calm(R, f, g, red, up, NULL)
  PROVE  Calm(R2, f2, g2, red2, t, NULL)
<1> SUFFICES ASSUME Shaped(s, R, f, g, P, M, B, vr), t \in M, up = g[t], up # NULL,
                    Turned(R, f, g, P, R2, f2, g2, P2, M, t, up),
                    red \in SUBSET M, red2 \in SUBSET M,
                    up \in red
             PROVE  Calm(R2, f2, g2, red, t, NULL)
  BY DEF SwapTurn
<1>1. /\ up \in M /\ up # t /\ NULL \notin M
      /\ f[t] \in (M \cup {NULL}) \ {t, up} /\ f[up] \in (M \cup {NULL}) \ {t, up}
      /\ g[up] \in (M \cup {NULL}) \ {t, up} /\ (f[up] = g[up] => f[up] = NULL)
  BY TurnedInside
<1>2. R \notin red
  BY <1>1 DEF Calm, Shaped, Tied
<1>3. R2 \notin red
  BY <1>2 DEF Turned
<1>4. f[t] \notin red /\ f[up] \notin red /\ g[up] \notin red
  BY <1>1 DEF Calm
<1>5. ASSUME NEW x \in red, x # t, x # up
      PROVE  f2[x] \notin red /\ g2[x] \notin red
  <2>2. /\ f[x] \in M \cup {NULL} /\ f[x] # up /\ f2[x] = (IF f[x] = t THEN up ELSE f[x])
        /\ g[x] \in M \cup {NULL} /\ g[x] # up /\ g2[x] = (IF g[x] = t THEN up ELSE g[x])
    BY <1>5 DEF Shaped, Tied, Turned
  <2>3. f[x] \notin red /\ g[x] \notin red
    BY <2>2, <1>1 DEF Calm
  <2>. QED BY <2>2, <2>3
<1>. QED BY <1>1, <1>3, <1>4, <1>5 DEF Calm, Turned

LEMMA LastTurnCalm ==
  ASSUME NEW s, NEW R, NEW f, NEW g, NEW P, NEW M, NEW B, NEW vr, NEW t, NEW up,
         NEW R2, NEW f2, NEW g2, NEW P2, NEW red, NEW red2, NEW far,
         LastTurn(s, R, f, g, P, R2, f2, g2, P2, M, B, vr, t, up, far, red, red2),
         f[t] \notin red, Calm(R, f, g, red, NULL, NULL)
  PROVE  Calm(R2, f2, g2, red2, NULL, NULL)
<1> SUFFICES ASSUME Shaped(s, R, f, g, P, M, B, vr), t \in M, up = g[t], up # NULL,
                    Turned(R, f, g, P, R2, f2, g2, P2, M, t, up),
                    red \in SUBSET M, red2 \in SUBSET M,
                    up \notin red, far = g[up], far \in red,
                    LastRed(red, red2, M, t, up, far)
             PROVE  Calm(R2, f2, g2, red2, NULL, NULL)
  BY DEF LastTurn
<1>1. /\ up \in M /\ up # t /\ NULL \notin M
      /\ f[t] \in (M \cup {NULL}) \ {t, up} /\ f[up] \in (M \cup {NULL}) \ {t, up}
      /\ g[up] \in (M \cup {NULL}) \ {t, up} /\ (f[up] = g[up] => f[up] = NULL)
  BY TurnedInside
<1>2. /\ up \in red2 <=> t \in red
      /\ t \notin red2 /\ far \notin red2
      /\ \A x \in M \ {t, up} : x \in red2 => x \in red
  BY DEF LastRed
<1>3. R \notin red
  BY <1>1 DEF Calm
<1>4. R2 \notin red2
  BY <1>2, <1>3, <1>1 DEF Turned, Shaped, Tied
<1>5. f2[up] \notin red2 /\ g2[up] \notin red2
  BY <1>2 DEF Turned
<1>6. ASSUME NEW x \in red2, x # up
      PROVE  f2[x] \notin red2 /\ g2[x] \notin red2
  <2>1. x \in red /\ x \in M \ {t, up}
    BY <1>2, <1>6
  <2>2. /\ f[x] \in M \cup {NULL} /\ f[x] # up /\ f2[x] = (IF f[x] = t THEN up ELSE f[x])
        /\ g[x] \in M \cup {NULL} /\ g[x] # up /\ g2[x] = (IF g[x] = t THEN up ELSE g[x])
    BY <2>1 DEF Shaped, Tied, Turned
  <2>3. f[x] \notin red /\ g[x] \notin red
    BY <2>1, <1>1 DEF Calm
  <2>. QED BY <2>2, <2>3, <1>1, <1>2
<1>. QED BY <1>4, <1>5, <1>6 DEF Calm

(* RB_INSERT_COLOR with a red uncle: t, the grandparent, gets the red of   *)
(* its children.                                                           *)
RaisedRed(red, red2, f, g, t) == red2 = (red \ {f[t], g[t]}) \cup {t}

RaisedHeights(H, H2, f, g, M, t) ==
  /\ H2[NULL] = 0 /\ H2[f[t]] = H[f[t]] + 1 /\ H2[g[t]] = H[g[t]] + 1
  /\ \A x \in M \ {f[t], g[t]} : H2[x] = H[x]

LEMMA RaiseKeepsColours ==
  ASSUME NEW s, NEW R, NEW f, NEW g, NEW P, NEW M, NEW B, NEW vr,
         Shaped(s, R, f, g, P, M, B, vr), NEW t \in M,
         NEW red \in SUBSET M, f[t] \in red, g[t] \in red,
         NEW n \in M, P[n] \in {f[t], g[t]}, Calm(R, f, g, red, n, NULL),
         NEW H, Heights(f, g, red, M, H, NULL, NULL),
         NEW red2 \in SUBSET M, RaisedRed(red, red2, f, g, t),
         NEW H2, RaisedHeights(H, H2, f, g, M, t)
  PROVE  /\ Calm(R, f, g, red2, t, NULL)
         /\ Heights(f, g, red2, M, H2, NULL, NULL)
<1> DEFINE a == f[t]
           b == g[t]
<1>1. /\ NULL \notin M /\ Tied(R, f, g, P, M) /\ Untangled(f, g, M)
  BY ShapedIsApart DEF Shaped
<1>2. /\ a \in red /\ b \in red /\ a \in M /\ b \in M /\ a # b /\ a # t /\ b # t
      /\ P[a] = t /\ P[b] = t /\ P[n] \in {a, b}
  BY <1>1 DEF Tied, Untangled
<1>3. /\ H[NULL] = 0 /\ H2[NULL] = 0 /\ H2[a] = H[a] + 1 /\ H2[b] = H[b] + 1
      /\ \A x \in M \ {a, b} : H2[x] = H[x]
      /\ \A x \in M : H[x] \in Nat
      /\ \A x \in M : /\ H[x] = H[f[x]] + One(x \notin red) + One(x = NULL)
                      /\ H[x] = H[g[x]] + One(x \notin red) + One(x = NULL)
  BY DEF RaisedHeights, Heights
<1>4. \A x \in M : x \in red2 <=> (x = t \/ (x \in red /\ x # a /\ x # b))
  BY DEF RaisedRed
<1>4a. red2 \subseteq red \cup {t}
  BY DEF RaisedRed
<1>5. n # a /\ n # b /\ n # t
  <2>1. n = t => P[n] = t \/ P[n] # a
    BY <1>1, <1>2 DEF Tied, Untangled
  <2>2. n # t
    BY <1>1, <1>2 DEF Tied, Untangled
  <2>. QED BY <1>2, <2>2
<1> HIDE DEF a, b
<1>6. t \notin red
  BY <1>1, <1>2, <1>5 DEF Calm, a
<1>7. Calm(R, f, g, red2, t, NULL)
  <2>1. R \in red2 => R = t
    <3>1. P[n] # NULL
      BY <1>1, <1>2
    <3>. QED BY <3>1, <1>1, <1>4a DEF Calm, Tied
  <2>2. ASSUME NEW x \in red2
        PROVE  f[x] \notin red2 \ {t} /\ g[x] \notin red2 \ {t}
    <3>1. CASE x = t
      BY <3>1, <1>2, <1>4 DEF a, b
    <3>2. CASE x \in red /\ x # a /\ x # b
      <4>1. f[x] # n /\ g[x] # n
        BY <3>2, <1>1, <1>2 DEF Tied
      <4>. QED BY <3>2, <4>1, <1>1, <1>4a DEF Calm
    <3>. QED BY <3>1, <3>2, <1>4
  <2>. QED BY <2>1, <2>2 DEF Calm
<1>8. Heights(f, g, red2, M, H2, NULL, NULL)
  <2>1. \A x \in M : H2[x] \in Nat
    BY <1>2, <1>3
  <2>2. ASSUME NEW x \in M
        PROVE  /\ H2[x] = H2[f[x]] + One(x \notin red2) + One(x = NULL)
               /\ H2[x] = H2[g[x]] + One(x \notin red2) + One(x = NULL)
    <3>1. CASE x = t
      BY <3>1, <1>1, <1>2, <1>3, <1>4, <1>6 DEF One, a, b
    <3>2. CASE x = a \/ x = b
      <4>1. f[x] \in (M \cup {NULL}) \ {a, b} /\ g[x] \in (M \cup {NULL}) \ {a, b}
        BY <3>2, <1>1, <1>2 DEF Tied, Untangled
      <4>2. /\ H2[f[x]] = H[f[x]] /\ H2[g[x]] = H[g[x]] /\ H2[x] = H[x] + 1
            /\ H[f[x]] \in Nat /\ H[g[x]] \in Nat
        BY <3>2, <4>1, <1>1, <1>3
      <4>3. x \in red /\ x \notin red2
        BY <3>2, <1>2, <1>4
      <4>. QED BY <4>2, <4>3, <1>1, <1>3 DEF One
    <3>3. CASE x \in M \ {t, a, b}
      <4>1. f[x] \in (M \cup {NULL}) \ {a, b} /\ g[x] \in (M \cup {NULL}) \ {a, b}
        BY <3>3, <1>1, <1>2 DEF Tied
      <4>2. H2[f[x]] = H[f[x]] /\ H2[g[x]] = H[g[x]] /\ H2[x] = H[x]
        BY <3>3, <4>1, <1>1, <1>3
      <4>. QED BY <3>3, <4>2, <1>3, <1>4
    <3>. QED BY <3>1, <3>2, <3>3
  <2>. QED BY <2>1, <2>2, <1>3 DEF Heights
<1>. QED BY <1>7, <1>8

(* A red task becomes black: the way to it is one longer.                  *)
LEMMA BlackenHeights ==
  ASSUME NEW f, NEW g, NEW red, NEW M, NEW H, NEW fa, NEW ga, NULL \notin M,
         Heights(f, g, red, M, H, fa, ga), NEW n \in M, n \in red,
         \A x \in M : f[x] \in M \cup {NULL} /\ g[x] \in M \cup {NULL},
         \A x \in M : (f[x] = n <=> x = fa) /\ (g[x] = n <=> x = ga),
         f[n] # n, g[n] # n,
         NEW H2, H2[NULL] = 0, H2[n] = H[n] + 1, \A x \in M \ {n} : H2[x] = H[x]
  PROVE  Heights(f, g, red \ {n}, M, H2, NULL, NULL)
<1>1. \A x \in M : H2[x] \in Nat
  BY DEF Heights
<1>2. ASSUME NEW x \in M
      PROVE  /\ H2[x] = H2[f[x]] + One(x \notin red \ {n}) + One(x = NULL)
             /\ H2[x] = H2[g[x]] + One(x \notin red \ {n}) + One(x = NULL)
  <2>1. /\ H2[f[x]] = H[f[x]] + One(x = fa) /\ H2[g[x]] = H[g[x]] + One(x = ga)
        /\ H[f[x]] \in Nat /\ H[g[x]] \in Nat
    BY DEF Heights, One
  <2>2. /\ H[x] = H[f[x]] + One(x \notin red) + One(x = fa)
        /\ H[x] = H[g[x]] + One(x \notin red) + One(x = ga)
    BY DEF Heights
  <2>3. CASE x = n
    BY <2>1, <2>2, <2>3 DEF One
  <2>4. CASE x # n
    BY <2>1, <2>2, <2>4 DEF One
  <2>. QED BY <2>3, <2>4
<1>. QED BY <1>1, <1>2 DEF Heights

(* RB_REMOVE_COLOR with a black sibling and black nephews: the sibling     *)
(* becomes red, and now the whole subtree of t is one short.               *)
LoweredHeights(H, H2, M, t, sib) ==
  /\ H2[NULL] = 0 /\ H2[t] = H[t] - 1 /\ H2[sib] = H[sib] - 1
  /\ \A x \in M \ {t, sib} : H2[x] = H[x]

LEMMA SiblingExists ==
  ASSUME NEW f, NEW g, NEW red, NEW M, NEW H, NEW t \in M, NULL \notin M,
         f[t] \in M \cup {NULL}, Heights(f, g, red, M, H, t, NULL)
  PROVE  g[t] # NULL
BY DEF Heights, One

LEMMA LowerKeepsColours ==
  ASSUME NEW s, NEW R, NEW f, NEW g, NEW P, NEW M, NEW B, NEW vr,
         Shaped(s, R, f, g, P, M, B, vr), NEW t \in M,
         NEW red \in SUBSET M, NEW sib, sib = g[t], sib \notin red,
         f[t] \notin red, f[sib] \notin red, g[sib] \notin red,
         Calm(R, f, g, red, NULL, NULL),
         NEW H, Heights(f, g, red, M, H, t, NULL),
         NEW fa, NEW ga, \A x \in M : (f[x] = t <=> x = fa) /\ (g[x] = t <=> x = ga),
         NEW H2, LoweredHeights(H, H2, M, t, sib)
  PROVE  /\ Calm(R, f, g, red \cup {sib}, t, t)
         /\ Heights(f, g, red \cup {sib}, M, H2, fa, ga)
<1>1. /\ NULL \notin M /\ Tied(R, f, g, P, M) /\ Untangled(f, g, M)
  BY ShapedIsApart DEF Shaped
<1>2. sib # NULL
  BY <1>1, SiblingExists DEF Tied
<1>3. /\ sib \in M /\ sib # t /\ P[sib] = t /\ f[t] # sib /\ f[t] # t
      /\ f[t] \in M \cup {NULL} /\ f[sib] # t /\ g[sib] # t /\ f[sib] # sib /\ g[sib] # sib
      /\ f[sib] \in M \cup {NULL} /\ g[sib] \in M \cup {NULL}
  BY <1>1, <1>2 DEF Tied, Untangled
<1>4. Calm(R, f, g, red \cup {sib}, t, t)
  <2>1. R \notin red \cup {sib}
    BY <1>1, <1>3 DEF Calm, Tied
  <2>2. ASSUME NEW x \in red, x # t
        PROVE  f[x] \notin red \cup {sib} /\ g[x] \notin red \cup {sib}
    <3>1. f[x] # sib /\ g[x] # sib
      BY <2>2, <1>1, <1>2, <1>3 DEF Tied
    <3>. QED BY <3>1, <1>1 DEF Calm
  <2>3. f[sib] \notin red \cup {sib} /\ g[sib] \notin red \cup {sib}
    BY <1>3
  <2>. QED BY <2>1, <2>2, <2>3 DEF Calm
<1>5. /\ H[f[t]] \in Nat /\ H[sib] \in Nat /\ H[t] \in Nat
      /\ H[t] = H[f[t]] + One(t \notin red) + 1 /\ H[t] = H[sib] + One(t \notin red)
      /\ H[f[sib]] \in Nat /\ H[g[sib]] \in Nat
      /\ H[sib] = H[f[sib]] + 1 /\ H[sib] = H[g[sib]] + 1
  BY <1>1, <1>3 DEF Heights, One
<1>6. \A x \in M : H2[x] \in Nat
  <2>1. H2[t] \in Nat /\ H2[sib] \in Nat
    BY <1>5 DEF LoweredHeights, One
  <2>. QED BY <2>1 DEF LoweredHeights, Heights
<1>7. ASSUME NEW x \in M
      PROVE  /\ H2[x] = H2[f[x]] + One(x \notin red \cup {sib}) + One(x = fa)
             /\ H2[x] = H2[g[x]] + One(x \notin red \cup {sib}) + One(x = ga)
  <2>1. CASE x = t
    <3>1. x # fa /\ x # ga
      BY <2>1, <1>3
    <3>2. H2[t] = H[t] - 1 /\ H2[sib] = H[sib] - 1 /\ H2[f[t]] = H[f[t]]
      BY <1>3 DEF LoweredHeights, Heights
    <3>. QED BY <2>1, <3>1, <3>2, <1>3, <1>5 DEF One
  <2>2. CASE x = sib
    <3>1. x # fa /\ x # ga
      BY <2>2, <1>3
    <3>2. H2[f[sib]] = H[f[sib]] /\ H2[g[sib]] = H[g[sib]]
      BY <1>3 DEF LoweredHeights, Heights
    <3>. QED BY <2>2, <3>1, <3>2, <1>5 DEF LoweredHeights, One
  <2>3. CASE x \in M \ {t, sib}
    <3>1. f[x] \in M \cup {NULL} /\ g[x] \in M \cup {NULL} /\ f[x] # sib /\ g[x] # sib
      BY <2>3, <1>1, <1>2, <1>3 DEF Tied
    <3>2. /\ H2[f[x]] = H[f[x]] - One(x = fa) /\ H2[g[x]] = H[g[x]] - One(x = ga)
          /\ H[f[x]] \in Nat /\ H[g[x]] \in Nat
      BY <3>1 DEF LoweredHeights, Heights, One
    <3>3. /\ H[x] = H[f[x]] + One(x \notin red) + One(x = t)
          /\ H[x] = H[g[x]] + One(x \notin red) + One(x = NULL)
      BY DEF Heights
    <3>4. H2[x] = H[x] /\ x # t /\ x # NULL
      BY <2>3, <1>1 DEF LoweredHeights
    <3>. QED BY <2>3, <3>2, <3>3, <3>4 DEF One
  <2>. QED BY <2>1, <2>2, <2>3
<1>8. H2[NULL] = 0
  BY DEF LoweredHeights
<1>. QED BY <1>4, <1>6, <1>7, <1>8 DEF Heights

-----------------------------------------------------------------------------
(* A new leaf e under p, on the side of f.                                 *)
Attached(f, g, P, f2, g2, P2, M, e, p) ==
  /\ f[p] = NULL /\ f2[p] = e /\ P2[e] = p /\ f2[e] = NULL /\ g2[e] = NULL
  /\ \A x \in M : g2[x] = g[x] /\ P2[x] = P[x] /\ (x # p => f2[x] = f[x])

(* The way down to p is the way to the place of e.                         *)
Fits(f, g, M, B, vr, s, e, p) ==
  \A x \in M : /\ p \in B[f[x]] => OnSide(vr, s, e, x)
               /\ p \in B[g[x]] => OnSide(vr, s, x, e)

Grown(B, C, M, e, p) ==
  /\ C[NULL] = {} /\ C[e] = {e}
  /\ \A x \in M : C[x] = IF p \in B[x] THEN B[x] \cup {e} ELSE B[x]

LEMMA AttachKeepsShape ==
  ASSUME NEW s, NEW R, NEW f, NEW g, NEW P, NEW M, NEW B, NEW vr,
         Shaped(s, R, f, g, P, M, B, vr), NEW p \in M, NEW e, e \notin M, e # NULL,
         NEW f2, NEW g2, NEW P2, Attached(f, g, P, f2, g2, P2, M, e, p),
         Fits(f, g, M, B, vr, s, e, p), OnSide(vr, s, e, p), Ranked(vr, s, M \cup {e}),
         NEW C, Grown(B, C, M, e, p)
  PROVE  Shaped(s, R, f2, g2, P2, M \cup {e}, C, vr)
<1>1. /\ NULL \notin M /\ Tied(R, f, g, P, M) /\ Nested(R, f, g, P, M, B)
      /\ Sorted(f, g, M, B, vr, s) /\ Cut(f, g, M, B)
  BY ShapedIsCut DEF Shaped
<1>2. /\ f[p] = NULL /\ f2[p] = e /\ P2[e] = p /\ f2[e] = NULL /\ g2[e] = NULL
      /\ \A x \in M : g2[x] = g[x] /\ P2[x] = P[x] /\ (x # p => f2[x] = f[x])
  BY DEF Attached
<1>3. /\ C[NULL] = {} /\ C[e] = {e}
      /\ \A x \in M : C[x] = IF p \in B[x] THEN B[x] \cup {e} ELSE B[x]
  BY DEF Grown
<1>4. /\ R \in M /\ p \in B[R]
      /\ \A x \in M : f[x] \in M \cup {NULL} /\ g[x] \in M \cup {NULL}
      /\ \A x \in M : x \in B[x] /\ B[x] \subseteq M
  BY <1>1 DEF Tied, Nested, Cut
<1>3a. /\ \A u : u \in C[e] <=> u = e
       /\ B[NULL] = {} /\ C[NULL] = {}
  BY <1>1, <1>3 DEF Nested
<1>3b. ASSUME NEW x \in M \cup {NULL}, NEW u
       PROVE  u \in C[x] <=> u \in B[x] \/ (u = e /\ p \in B[x])
  <2>1. CASE x = NULL
    BY <2>1, <1>3a
  <2>2. CASE x \in M /\ p \in B[x]
    <3>1. C[x] = B[x] \cup {e}
      BY <2>2, <1>3
    <3>. QED BY <2>2, <3>1
  <2>3. CASE x \in M /\ p \notin B[x]
    <3>1. C[x] = B[x]
      BY <2>3, <1>3
    <3>. QED BY <2>3, <3>1
  <2>. QED BY <2>1, <2>2, <2>3
<1>5a. ASSUME NEW x \in M \ {p}, NEW u
       PROVE  u \in C[f2[x]] <=> u \in B[f[x]] \/ (u = e /\ p \in B[f[x]])
  BY <1>2, <1>3b, <1>4
<1>5b. ASSUME NEW x \in M, NEW u
       PROVE  u \in C[g2[x]] <=> u \in B[g[x]] \/ (u = e /\ p \in B[g[x]])
  BY <1>2, <1>3b, <1>4
<1>5c. /\ \A u : u \in C[f2[p]] <=> u = e
       /\ \A u : u \notin C[f2[e]] /\ u \notin C[g2[e]]
       /\ B[f[p]] = {}
  BY <1>2, <1>3a
<1>6. Tied(R, f2, g2, P2, M \cup {e})
  <2>1. R # NULL => P2[R] = NULL
    BY <1>1, <1>2, <1>4 DEF Tied
  <2>2. ASSUME NEW x \in M \cup {e}
        PROVE  /\ f2[x] \in M \cup {e, NULL} /\ g2[x] \in M \cup {e, NULL}
               /\ (f2[x] # NULL => P2[f2[x]] = x) /\ (g2[x] # NULL => P2[g2[x]] = x)
    BY <1>1, <1>2, <1>4 DEF Tied
  <2>3. ASSUME NEW x \in M \cup {e}
        PROVE  /\ P2[x] = NULL => x = R
               /\ P2[x] # NULL => P2[x] \in M \cup {e} /\ (f2[P2[x]] = x \/ g2[P2[x]] = x)
    <3>1. CASE x = e
      BY <3>1, <1>1, <1>2
    <3>2. CASE x \in M
      <4>1. /\ P[x] = NULL => x = R
            /\ P[x] # NULL => P[x] \in M /\ (f[P[x]] = x \/ g[P[x]] = x)
        BY <3>2, <1>1 DEF Tied
      <4>. QED BY <3>2, <4>1, <1>1, <1>2
    <3>. QED BY <3>1, <3>2
  <2>. QED BY <2>1, <2>2, <2>3, <1>4 DEF Tied
<1>7. Nested(R, f2, g2, P2, M \cup {e}, C)
  <2>1. C[R] = M \cup {e}
    BY <1>1, <1>3b, <1>4 DEF Nested
  <2>2. ASSUME NEW x \in M \cup {e} PROVE C[x] = {x} \cup C[f2[x]] \cup C[g2[x]]
    <3>1. CASE x = e
      BY <3>1, <1>2, <1>3
    <3>2. CASE x = p
      <4>1. B[p] = {p} \cup B[g[p]] /\ p \in B[p] /\ p \notin B[g[p]]
        BY <1>1, <1>5c DEF Nested, Cut
      <4>. QED BY <3>2, <4>1, <1>3b, <1>5b, <1>5c
    <3>3. CASE x \in M \ {p}
      <4>1. B[x] = {x} \cup B[f[x]] \cup B[g[x]]
        BY <3>3, <1>1 DEF Nested
      <4>. QED BY <3>3, <4>1, <1>3b, <1>5a, <1>5b
    <3>. QED BY <3>1, <3>2, <3>3
  <2>3. ASSUME NEW x \in M \cup {e} PROVE C[x] \subseteq M \cup {e}
    <3>1. CASE x \in M
      <4>1. C[x] \subseteq B[x] \cup {e} /\ B[x] \subseteq M
        BY <3>1, <1>3, <1>4
      <4>. QED BY <4>1
    <3>2. CASE x = e
      BY <3>2, <1>3
    <3>. QED BY <3>1, <3>2
  <2>4. ASSUME NEW x \in M \cup {e}, NEW u \in C[x] PROVE C[u] \subseteq C[x]
    <3>1. CASE u = e
      BY <3>1, <1>3, <2>4
    <3>2. CASE u # e
      <4>1. x \in M /\ u \in B[x] /\ u \in M
        BY <3>2, <1>3a, <1>3b, <1>4
      <4>2. B[u] \subseteq B[x]
        BY <4>1, <1>1 DEF Nested
      <4>. QED BY <4>1, <4>2, <1>3
    <3>. QED BY <3>1, <3>2
  <2>5. ASSUME NEW x \in M \cup {e}, NEW u \in C[x] PROVE u = x \/ P2[u] \in C[x]
    <3>1. CASE u = e
      BY <3>1, <1>2, <1>3a, <1>3b, <1>4
    <3>2. CASE u # e
      <4>1. x \in M /\ u \in B[x] /\ u \in M
        BY <3>2, <1>3a, <1>3b, <1>4
      <4>2. u = x \/ P[u] \in B[x]
        BY <4>1, <1>1 DEF Nested
      <4>. QED BY <4>1, <4>2, <1>2, <1>3
    <3>. QED BY <3>1, <3>2
  <2>. QED BY <2>1, <2>2, <2>3, <2>4, <2>5, <1>3 DEF Nested
<1>8. Sorted(f2, g2, M \cup {e}, C, vr, s)
  <2>1. \A x \in M : /\ \A u \in B[f[x]] : OnSide(vr, s, u, x)
                     /\ \A u \in B[g[x]] : OnSide(vr, s, x, u)
    BY <1>1 DEF Sorted
  <2>2. ASSUME NEW x \in M \cup {e}, NEW u \in C[f2[x]] PROVE OnSide(vr, s, u, x)
    BY <2>1, <1>5a, <1>5b, <1>5c DEF Fits
  <2>3. ASSUME NEW x \in M \cup {e}, NEW u \in C[g2[x]] PROVE OnSide(vr, s, x, u)
    BY <2>1, <1>5a, <1>5b, <1>5c DEF Fits
  <2>. QED BY <2>2, <2>3 DEF Sorted
<1>. QED BY <1>1, <1>6, <1>7, <1>8 DEF Shaped

LeafHeights(H, H2, M, e) == H2[NULL] = 0 /\ H2[e] = 0 /\ \A x \in M : H2[x] = H[x]

LEMMA AttachKeepsColours ==
  ASSUME NEW s, NEW R, NEW f, NEW g, NEW P, NEW M, NEW B, NEW vr,
         Shaped(s, R, f, g, P, M, B, vr), NEW p \in M, NEW e, e \notin M, e # NULL,
         NEW f2, NEW g2, NEW P2, Attached(f, g, P, f2, g2, P2, M, e, p),
         NEW red \in SUBSET M, Calm(R, f, g, red, NULL, NULL),
         NEW H, Heights(f, g, red, M, H, NULL, NULL), NEW H2, LeafHeights(H, H2, M, e)
  PROVE  /\ Calm(R, f2, g2, red \cup {e}, e, NULL)
         /\ Heights(f2, g2, red \cup {e}, M \cup {e}, H2, NULL, NULL)
<1>1. /\ NULL \notin M /\ Tied(R, f, g, P, M)
  BY DEF Shaped
<1>2. /\ f[p] = NULL /\ f2[p] = e /\ f2[e] = NULL /\ g2[e] = NULL
      /\ \A x \in M : g2[x] = g[x] /\ (x # p => f2[x] = f[x])
  BY DEF Attached
<1>3. \A x \in M : f[x] \in M \cup {NULL} /\ g[x] \in M \cup {NULL}
  BY <1>1 DEF Tied
<1>4. Calm(R, f2, g2, red \cup {e}, e, NULL)
  BY <1>1, <1>2, <1>3 DEF Calm
<1>5. \A x \in M \cup {e} : H2[x] \in Nat
  BY DEF Heights, LeafHeights
<1>6. \A x \in M : H2[f2[x]] = H[f[x]] /\ H2[g2[x]] = H[g[x]]
  BY <1>2, <1>3 DEF Heights, LeafHeights
<1>7. ASSUME NEW x \in M \cup {e}
      PROVE  /\ H2[x] = H2[f2[x]] + One(x \notin red \cup {e}) + One(x = NULL)
             /\ H2[x] = H2[g2[x]] + One(x \notin red \cup {e}) + One(x = NULL)
  <2>1. CASE x = e
    BY <2>1, <1>2 DEF One, LeafHeights
  <2>2. CASE x \in M
    <3>1. /\ H[x] = H[f[x]] + One(x \notin red) + One(x = NULL)
          /\ H[x] = H[g[x]] + One(x \notin red) + One(x = NULL)
      BY <2>2 DEF Heights
    <3>2. x \notin red \cup {e} <=> x \notin red
      BY <2>2
    <3>. QED BY <2>2, <3>1, <3>2, <1>6 DEF LeafHeights
  <2>. QED BY <2>1, <2>2
<1>. QED BY <1>4, <1>5, <1>7 DEF Heights, LeafHeights

(* The first task of the tree.                                             *)
Alone(s, e, f, g, P, B, vr, H) ==
  /\ e # NULL /\ Ranked(vr, s, {e}) /\ f[e] = NULL /\ g[e] = NULL /\ P[e] = NULL
  /\ B[NULL] = {} /\ B[e] = {e} /\ H[NULL] = 0 /\ H[e] = 0

LEMMA FirstShape ==
  ASSUME NEW s, NEW e, NEW f, NEW g, NEW P, NEW B, NEW vr, NEW H, Alone(s, e, f, g, P, B, vr, H)
  PROVE  /\ Shaped(s, e, f, g, P, {e}, B, vr)
         /\ Calm(e, f, g, {e}, e, NULL)
         /\ Heights(f, g, {e}, {e}, H, NULL, NULL)
<1> USE DEF Alone
<1>1. Tied(e, f, g, P, {e})
  BY DEF Tied
<1>2. Nested(e, f, g, P, {e}, B)
  BY DEF Nested
<1>3. Sorted(f, g, {e}, B, vr, s)
  BY DEF Sorted
<1>4. Heights(f, g, {e}, {e}, H, NULL, NULL)
  BY DEF Heights, One
<1>5. Calm(e, f, g, {e}, e, NULL)
  BY DEF Calm
<1>. QED BY <1>1, <1>2, <1>3, <1>4, <1>5 DEF Shaped

(* t, which has no child on the side of g, leaves: c, its child on the     *)
(* other side, takes its place.                                            *)
Detached(R, f, g, P, R2, f2, g2, P2, M, t, c) ==
  /\ R2 = IF R = t THEN c ELSE R
  /\ \A x \in M \ {t} : f2[x] = IF f[x] = t THEN c ELSE f[x]
  /\ \A x \in M \ {t} : g2[x] = IF g[x] = t THEN c ELSE g[x]
  /\ c # NULL => P2[c] = P[t]
  /\ \A x \in M \ {t} : x # c => P2[x] = P[x]

Without(B, C, M, t) ==
  /\ C[NULL] = {} /\ \A x \in M \ {t} : \A u : u \in C[x] <=> u \in B[x] /\ u # t

(* Below every task there is what there was, less t.                       *)
Trimmed(f, g, f2, g2, B, C, M, t) ==
  \A x \in M \ {t} : \A u : /\ u \in C[f2[x]] <=> (u \in B[f[x]] /\ u # t)
                            /\ u \in C[g2[x]] <=> (u \in B[g[x]] /\ u # t)

Leaving(s, R, f, g, P, R2, f2, g2, P2, M, B, vr, t) ==
  /\ Shaped(s, R, f, g, P, M, B, vr) /\ t \in M /\ g[t] = NULL
  /\ Detached(R, f, g, P, R2, f2, g2, P2, M, t, f[t])

LEMMA DetachKeepsShape ==
  ASSUME NEW s, NEW R, NEW f, NEW g, NEW P, NEW M, NEW B, NEW vr, NEW t,
         NEW R2, NEW f2, NEW g2, NEW P2,
         Leaving(s, R, f, g, P, R2, f2, g2, P2, M, B, vr, t),
         NEW C, Without(B, C, M, t)
  PROVE  /\ Shaped(s, R2, f2, g2, P2, M \ {t}, C, vr)
         /\ Trimmed(f, g, f2, g2, B, C, M, t)
<1> SUFFICES ASSUME Shaped(s, R, f, g, P, M, B, vr), t \in M, g[t] = NULL,
                    NEW c, c = f[t], Detached(R, f, g, P, R2, f2, g2, P2, M, t, c)
             PROVE  /\ Shaped(s, R2, f2, g2, P2, M \ {t}, C, vr)
                    /\ Trimmed(f, g, f2, g2, B, C, M, t)
  BY DEF Leaving
<1> DEFINE N == M \ {t}
<1>1. /\ NULL \notin M /\ Tied(R, f, g, P, M) /\ Nested(R, f, g, P, M, B)
      /\ Sorted(f, g, M, B, vr, s) /\ Cut(f, g, M, B) /\ Untangled(f, g, M)
      /\ Ranked(vr, s, M)
  BY ShapedIsCut, ShapedIsApart DEF Shaped
<1>2. /\ R2 = IF R = t THEN c ELSE R
      /\ \A x \in N : f2[x] = IF f[x] = t THEN c ELSE f[x]
      /\ \A x \in N : g2[x] = IF g[x] = t THEN c ELSE g[x]
      /\ c # NULL => P2[c] = P[t]
      /\ \A x \in N : x # c => P2[x] = P[x]
  BY DEF Detached
<1>3. /\ C[NULL] = {} /\ B[NULL] = {} /\ B[R] = M
      /\ \A x \in N : \A u : u \in C[x] <=> u \in B[x] /\ u # t
  BY <1>1 DEF Without, Nested
<1>4. /\ c \in M \cup {NULL} /\ c # t /\ (c # NULL => P[c] = t) /\ P[t] # t
      /\ (c # NULL => P[t] # c)
  BY <1>1 DEF Tied, Untangled
<1>5. /\ \A u : u \in B[t] <=> u = t \/ u \in B[c]
      /\ t \notin B[c]
  <2>1. B[t] = {t} \cup B[c] \cup {}
    BY <1>1, <1>3 DEF Nested
  <2>. QED BY <2>1, <1>1 DEF Cut
<1>6. ASSUME NEW y \in M \cup {NULL}, NEW z, z = IF y = t THEN c ELSE y, NEW u
      PROVE  u \in C[z] <=> u \in B[y] /\ u # t
  <2>1. CASE y = t
    BY <2>1, <1>3, <1>4, <1>5, <1>6
  <2>2. CASE y # t
    BY <2>2, <1>3, <1>6
  <2>. QED BY <2>1, <2>2
<1>7. ASSUME NEW x \in N, NEW u
      PROVE  /\ u \in C[f2[x]] <=> u \in B[f[x]] /\ u # t
             /\ u \in C[g2[x]] <=> u \in B[g[x]] /\ u # t
  <2>1. f[x] \in M \cup {NULL} /\ g[x] \in M \cup {NULL}
    BY <1>1 DEF Tied
  <2>. QED BY <2>1, <1>2, <1>6
<1>8. Tied(R2, f2, g2, P2, N)
  <2>1. R2 \in N \cup {NULL} /\ (R2 # NULL => P2[R2] = NULL)
    <3>1. R = t => P[t] = NULL
      BY <1>1 DEF Tied
    <3>2. R # NULL => R \in M /\ P[R] = NULL
      BY <1>1 DEF Tied
    <3>. QED BY <3>1, <3>2, <1>1, <1>2, <1>4
  <2>2. ASSUME NEW x \in N
        PROVE  /\ f2[x] \in N \cup {NULL} /\ g2[x] \in N \cup {NULL}
               /\ (f2[x] # NULL => P2[f2[x]] = x) /\ (g2[x] # NULL => P2[g2[x]] = x)
    <3>1. /\ f[x] \in M \cup {NULL} /\ (f[x] # NULL => P[f[x]] = x)
          /\ g[x] \in M \cup {NULL} /\ (g[x] # NULL => P[g[x]] = x)
      BY <1>1 DEF Tied
    <3>. QED BY <3>1, <1>1, <1>2, <1>4
  <2>3. ASSUME NEW x \in N
        PROVE  /\ P2[x] = NULL => x = R2
               /\ P2[x] # NULL => P2[x] \in N /\ (f2[P2[x]] = x \/ g2[P2[x]] = x)
    <3>1. /\ P[t] = NULL => t = R
          /\ P[t] # NULL => P[t] \in M /\ (f[P[t]] = t \/ g[P[t]] = t)
      BY <1>1 DEF Tied
    <3>2. CASE x = c
      BY <3>1, <3>2, <1>1, <1>2, <1>4
    <3>3. CASE x # c
      <4>1. /\ P[x] = NULL => x = R
            /\ P[x] # NULL => P[x] \in M /\ (f[P[x]] = x \/ g[P[x]] = x)
        BY <1>1 DEF Tied
      <4>2. P[x] # t
        BY <3>3, <4>1, <1>1
      <4>. QED BY <3>3, <4>1, <4>2, <1>2
    <3>. QED BY <3>2, <3>3
  <2>. QED BY <2>1, <2>2, <2>3 DEF Tied
<1>9. Nested(R2, f2, g2, P2, N, C)
  <2>1. C[R2] = N
    <3>1. R \in M \cup {NULL}
      BY <1>1 DEF Tied
    <3>2. \A u : u \in C[R2] <=> u \in B[R] /\ u # t
      BY <3>1, <1>2, <1>6
    <3>. QED BY <3>2, <1>3
  <2>2. ASSUME NEW x \in N PROVE C[x] = {x} \cup C[f2[x]] \cup C[g2[x]]
    <3>1. B[x] = {x} \cup B[f[x]] \cup B[g[x]]
      BY <1>1 DEF Nested
    <3>2. \A u : u \in C[x] <=> u = x \/ u \in C[f2[x]] \/ u \in C[g2[x]]
      BY <3>1, <1>3, <1>7
    <3>. QED BY <3>2
  <2>3. ASSUME NEW x \in N PROVE C[x] \subseteq N
    BY <1>1, <1>3 DEF Nested
  <2>4. ASSUME NEW x \in N, NEW u \in C[x] PROVE C[u] \subseteq C[x]
    <3>1. u \in B[x] /\ u \in N
      BY <2>3, <1>3
    <3>2. B[u] \subseteq B[x]
      BY <3>1, <1>1 DEF Nested
    <3>. QED BY <3>1, <3>2, <1>3
  <2>5. ASSUME NEW x \in N, NEW u \in C[x] PROVE u = x \/ P2[u] \in C[x]
    <3>1. u \in B[x] /\ u \in N
      BY <2>3, <1>3
    <3>2. \A v \in B[x] : v = x \/ P[v] \in B[x]
      BY <1>1 DEF Nested
    <3>3. CASE u = c /\ u # x
      <4>1. P[c] = t /\ c # NULL
        BY <3>1, <3>3, <1>1, <1>4
      <4>2. t \in B[x] /\ P[t] \in B[x]
        BY <3>1, <3>2, <3>3, <4>1
      <4>. QED BY <3>3, <4>1, <4>2, <1>2, <1>3, <1>4
    <3>4. CASE u # c /\ u # x
      <4>1. P2[u] = P[u] /\ P[u] \in B[x]
        BY <3>1, <3>2, <3>4, <1>2
      <4>2. P[u] # t
        BY <3>1, <3>4, <4>1, <1>1 DEF Tied
      <4>. QED BY <4>1, <4>2, <1>3
    <3>. QED BY <3>3, <3>4
  <2>. QED BY <2>1, <2>2, <2>3, <2>4, <2>5, <1>3 DEF Nested
<1>10. Sorted(f2, g2, N, C, vr, s)
  BY <1>1, <1>7 DEF Sorted
<1>11. Ranked(vr, s, N)
  BY <1>1 DEF Ranked
<1>12. Trimmed(f, g, f2, g2, B, C, M, t)
  BY <1>7 DEF Trimmed
<1>. QED BY <1>1, <1>8, <1>9, <1>10, <1>11, <1>12 DEF Shaped

(* Where a black task has left, its place is one short.                    *)
LeftShort(f, g, M, t, red, fa, ga) ==
  \A x \in M \ {t} : /\ x = fa <=> (f[x] = t /\ t \notin red)
                     /\ x = ga <=> (g[x] = t /\ t \notin red)

LEMMA DetachKeepsColours ==
  ASSUME NEW s, NEW R, NEW f, NEW g, NEW P, NEW M, NEW B, NEW vr, NEW t,
         NEW R2, NEW f2, NEW g2, NEW P2,
         Leaving(s, R, f, g, P, R2, f2, g2, P2, M, B, vr, t),
         NEW red \in SUBSET M, Calm(R, f, g, red, NULL, NULL),
         NEW H, Heights(f, g, red, M, H, NULL, NULL),
         NEW fa, NEW ga, LeftShort(f, g, M, t, red, fa, ga),
         NEW n, n = IF t \in red THEN NULL ELSE f[t]
  PROVE  /\ Calm(R2, f2, g2, red \ {t}, n, NULL)
         /\ Heights(f2, g2, red \ {t}, M \ {t}, H, fa, ga)
<1> SUFFICES ASSUME Shaped(s, R, f, g, P, M, B, vr), t \in M, g[t] = NULL,
                    NEW c, c = f[t], Detached(R, f, g, P, R2, f2, g2, P2, M, t, c)
             PROVE  /\ Calm(R2, f2, g2, red \ {t}, n, NULL)
                    /\ Heights(f2, g2, red \ {t}, M \ {t}, H, fa, ga)
  BY DEF Leaving
<1>0. \A x \in M \ {t} : /\ x = fa <=> (f[x] = t /\ t \notin red)
                         /\ x = ga <=> (g[x] = t /\ t \notin red)
  BY DEF LeftShort
<1>1. NULL \notin M /\ Tied(R, f, g, P, M)
  BY DEF Shaped
<1>2. /\ R2 = IF R = t THEN c ELSE R
      /\ \A x \in M \ {t} : f2[x] = IF f[x] = t THEN c ELSE f[x]
      /\ \A x \in M \ {t} : g2[x] = IF g[x] = t THEN c ELSE g[x]
  BY DEF Detached
<1>3. Calm(R2, f2, g2, red \ {t}, n, NULL)
  <2>1. R \notin red /\ \A x \in red : f[x] \notin red /\ g[x] \notin red
    BY <1>1 DEF Calm
  <2>. QED BY <2>1, <1>2 DEF Calm
<1>4. /\ H[t] = H[c] + One(t \notin red) /\ H[c] \in Nat
      /\ H[NULL] = 0 /\ \A x \in M : H[x] \in Nat
  BY <1>1 DEF Heights, Tied, One
<1>5. ASSUME NEW x \in M \ {t}
      PROVE  /\ H[x] = H[f2[x]] + One(x \notin red \ {t}) + One(x = fa)
             /\ H[x] = H[g2[x]] + One(x \notin red \ {t}) + One(x = ga)
  <2>1. /\ H[x] = H[f[x]] + One(x \notin red) /\ H[f[x]] \in Nat
        /\ H[x] = H[g[x]] + One(x \notin red) /\ H[g[x]] \in Nat
    BY <1>1 DEF Heights, Tied, One
  <2>2. H[f[x]] = H[f2[x]] + One(x = fa)
    BY <2>1, <1>0, <1>2, <1>4 DEF One
  <2>3. H[g[x]] = H[g2[x]] + One(x = ga)
    BY <2>1, <1>0, <1>2, <1>4 DEF One
  <2>4. H[f2[x]] \in Nat /\ H[g2[x]] \in Nat
    BY <2>1, <1>2, <1>4
  <2>5. One(x \notin red \ {t}) = One(x \notin red)
    BY DEF One
  <2>. QED BY <2>1, <2>2, <2>3, <2>4, <2>5 DEF One
<1>. QED BY <1>3, <1>4, <1>5 DEF Heights

(* h, which is not in the tree, takes the place of t.                      *)
Named(x, t, h) == IF x = t THEN h ELSE x

Renamed(R, f, g, P, R2, f2, g2, P2, M, t, h) ==
  /\ R2 = Named(R, t, h)
  /\ f2[h] = f[t] /\ g2[h] = g[t] /\ P2[h] = P[t]
  /\ \A x \in M \ {t} : /\ f2[x] = Named(f[x], t, h) /\ g2[x] = Named(g[x], t, h)
                        /\ P2[x] = Named(P[x], t, h)

(* It is where it belongs.                                                 *)
Heir(f, g, M, B, vr, s, t, h) ==
  /\ \A x \in M \ {t} : /\ t \in B[f[x]] => OnSide(vr, s, h, x)
                        /\ t \in B[g[x]] => OnSide(vr, s, x, h)
  /\ \A u \in B[f[t]] : OnSide(vr, s, u, h)
  /\ \A u \in B[g[t]] : OnSide(vr, s, h, u)

Exchanged(B, C, M, t, h) ==
  /\ C[NULL] = {}
  /\ \A x \in M : \A u : u \in C[Named(x, t, h)] <=>
                           (u \in B[x] /\ u # t) \/ (u = h /\ t \in B[x])

Renaming(s, R, f, g, P, R2, f2, g2, P2, M, B, vr, t, h) ==
  /\ Shaped(s, R, f, g, P, M, B, vr) /\ t \in M /\ h \notin M /\ h # NULL
  /\ Renamed(R, f, g, P, R2, f2, g2, P2, M, t, h)

LEMMA RenameKeepsShape ==
  ASSUME NEW s, NEW R, NEW f, NEW g, NEW P, NEW M, NEW B, NEW vr, NEW t, NEW h,
         NEW R2, NEW f2, NEW g2, NEW P2,
         Renaming(s, R, f, g, P, R2, f2, g2, P2, M, B, vr, t, h),
         Heir(f, g, M, B, vr, s, t, h), Ranked(vr, s, M \cup {h}),
         NEW C, Exchanged(B, C, M, t, h)
  PROVE  Shaped(s, R2, f2, g2, P2, (M \ {t}) \cup {h}, C, vr)
<1> SUFFICES ASSUME Shaped(s, R, f, g, P, M, B, vr), t \in M, h \notin M, h # NULL,
                    Renamed(R, f, g, P, R2, f2, g2, P2, M, t, h)
             PROVE  Shaped(s, R2, f2, g2, P2, (M \ {t}) \cup {h}, C, vr)
  BY DEF Renaming
<1> DEFINE N == (M \ {t}) \cup {h}
<1>1. /\ NULL \notin M /\ Tied(R, f, g, P, M) /\ Nested(R, f, g, P, M, B)
      /\ Sorted(f, g, M, B, vr, s) /\ Cut(f, g, M, B) /\ Untangled(f, g, M)
      /\ Ranked(vr, s, M)
  BY ShapedIsCut, ShapedIsApart DEF Shaped
<1>2. /\ R \in M \cup {NULL} /\ f[t] \in M \cup {NULL} /\ g[t] \in M \cup {NULL}
      /\ P[t] \in M \cup {NULL} /\ f[t] # t /\ g[t] # t /\ P[t] # t
      /\ B[NULL] = {} /\ C[NULL] = {} /\ B[R] = M
  BY <1>1 DEF Tied, Untangled, Nested, Exchanged
<1>3. /\ R2 = Named(R, t, h)
      /\ f2[h] = f[t] /\ g2[h] = g[t] /\ P2[h] = P[t]
      /\ \A x \in M \ {t} : f2[x] = Named(f[x], t, h) /\ g2[x] = Named(g[x], t, h)
      /\ \A x \in M \ {t} : P2[x] = Named(P[x], t, h)
  BY DEF Renamed
<1>4. ASSUME NEW y \in M \cup {NULL}, NEW u
      PROVE  u \in C[Named(y, t, h)] <=> (u \in B[y] /\ u # t) \/ (u = h /\ t \in B[y])
  <2>1. CASE y = NULL
    BY <2>1, <1>1, <1>2 DEF Named
  <2>2. CASE y \in M
    BY <2>2 DEF Exchanged
  <2>. QED BY <2>1, <2>2
<1>5. ASSUME NEW x \in M
      PROVE  LET z == Named(x, t, h) IN
             /\ z \in N
             /\ f2[z] = Named(f[x], t, h) /\ g2[z] = Named(g[x], t, h)
             /\ P2[z] = Named(P[x], t, h)
  BY <1>2, <1>3 DEF Named
<1>6. ASSUME NEW z \in N PROVE \E x \in M : z = Named(x, t, h)
  BY DEF Named
<1>7. \A x, y \in M \cup {NULL} :
        /\ Named(x, t, h) = Named(y, t, h) => x = y
        /\ Named(x, t, h) = NULL <=> x = NULL
        /\ Named(x, t, h) \in N <=> x \in M
  BY <1>1 DEF Named
<1>8. \A x \in M : /\ f[x] \in M \cup {NULL} /\ g[x] \in M \cup {NULL} /\ P[x] \in M \cup {NULL}
  BY <1>1 DEF Tied
<1>9. Tied(R2, f2, g2, P2, N)
  <2>1. R2 \in N \cup {NULL} /\ (R2 # NULL => P2[R2] = NULL)
    <3>1. R # NULL => R \in M /\ P[R] = NULL
      BY <1>1 DEF Tied
    <3>2. R = NULL => R2 = NULL
      BY <1>1, <1>3 DEF Named
    <3>3. R # NULL => R2 \in N /\ P2[R2] = NULL
      BY <3>1, <1>1, <1>3, <1>5 DEF Named
    <3>. QED BY <3>2, <3>3
  <2>2. ASSUME NEW z \in N
        PROVE  /\ f2[z] \in N \cup {NULL} /\ g2[z] \in N \cup {NULL}
               /\ (f2[z] # NULL => P2[f2[z]] = z) /\ (g2[z] # NULL => P2[g2[z]] = z)
               /\ P2[z] = NULL => z = R2
               /\ P2[z] # NULL => P2[z] \in N /\ (f2[P2[z]] = z \/ g2[P2[z]] = z)
    <3>1. PICK x \in M : z = Named(x, t, h)
      BY <1>6
    <3>2. f2[z] = Named(f[x], t, h) /\ g2[z] = Named(g[x], t, h) /\ P2[z] = Named(P[x], t, h)
      BY <3>1, <1>5
    <3>3. /\ f[x] # NULL => P[f[x]] = x
          /\ g[x] # NULL => P[g[x]] = x
          /\ P[x] = NULL => x = R
          /\ P[x] # NULL => P[x] \in M /\ (f[P[x]] = x \/ g[P[x]] = x)
      BY <1>1 DEF Tied
    <3>4. /\ f2[z] \in N \cup {NULL} /\ g2[z] \in N \cup {NULL}
          /\ P2[z] # NULL => P2[z] \in N
      BY <3>2, <1>7, <1>8
    <3>5. f2[z] # NULL => P2[f2[z]] = z
      <4>1. f2[z] # NULL => f[x] \in M
        BY <3>2, <1>7, <1>8
      <4>. QED BY <4>1, <3>1, <3>2, <3>3, <1>1, <1>5
    <3>6. g2[z] # NULL => P2[g2[z]] = z
      <4>1. g2[z] # NULL => g[x] \in M
        BY <3>2, <1>7, <1>8
      <4>. QED BY <4>1, <3>1, <3>2, <3>3, <1>1, <1>5
    <3>7. P2[z] = NULL => z = R2
      BY <3>1, <3>2, <3>3, <1>3, <1>7, <1>8
    <3>8. P2[z] # NULL => f2[P2[z]] = z \/ g2[P2[z]] = z
      <4>1. P2[z] # NULL => P[x] \in M
        BY <3>2, <1>7, <1>8
      <4>. QED BY <4>1, <3>1, <3>2, <3>3, <1>1, <1>5
    <3>. QED BY <3>4, <3>5, <3>6, <3>7, <3>8
  <2>. QED BY <2>1, <2>2 DEF Tied
<1>10. ASSUME NEW x \in M, NEW u
       PROVE  LET z == Named(x, t, h) IN
              /\ u \in C[z] <=> (u \in B[x] /\ u # t) \/ (u = h /\ t \in B[x])
              /\ u \in C[f2[z]] <=> (u \in B[f[x]] /\ u # t) \/ (u = h /\ t \in B[f[x]])
              /\ u \in C[g2[z]] <=> (u \in B[g[x]] /\ u # t) \/ (u = h /\ t \in B[g[x]])
  BY <1>4, <1>5, <1>8
<1>11. Nested(R2, f2, g2, P2, N, C)
  <2>1. C[R2] = N
    <3>1. \A u : u \in C[R2] <=> (u \in M /\ u # t) \/ (u = h /\ t \in M)
      BY <1>2, <1>3, <1>4
    <3>. QED BY <3>1
  <2>2. ASSUME NEW z \in N
        PROVE  /\ C[z] = {z} \cup C[f2[z]] \cup C[g2[z]]
               /\ C[z] \subseteq N
               /\ \A u \in C[z] : C[u] \subseteq C[z]
               /\ \A u \in C[z] : u = z \/ P2[u] \in C[z]
    <3>1. PICK x \in M : z = Named(x, t, h)
      BY <1>6
    <3>2. B[x] = {x} \cup B[f[x]] \cup B[g[x]] /\ B[x] \subseteq M /\ x \in B[x]
      BY <1>1 DEF Nested, Cut
    <3>3. ASSUME NEW u
          PROVE  /\ u \in C[z] <=> (u \in B[x] /\ u # t) \/ (u = h /\ t \in B[x])
                 /\ u \in C[f2[z]] <=> (u \in B[f[x]] /\ u # t) \/ (u = h /\ t \in B[f[x]])
                 /\ u \in C[g2[z]] <=> (u \in B[g[x]] /\ u # t) \/ (u = h /\ t \in B[g[x]])
      BY <3>1, <1>10
    <3>4. C[z] = {z} \cup C[f2[z]] \cup C[g2[z]]
      <4>1. z = IF x = t THEN h ELSE x
        BY <3>1 DEF Named
      <4>2. \A u : u \in C[z] <=> u = z \/ u \in C[f2[z]] \/ u \in C[g2[z]]
        BY <3>2, <3>3, <4>1
      <4>. QED BY <4>2
    <3>5. C[z] \subseteq N
      BY <3>2, <3>3
    <3>6. ASSUME NEW u \in C[z]
          PROVE  C[u] \subseteq C[z] /\ (u = z \/ P2[u] \in C[z])
      <4>1. PICK v \in B[x] : u = Named(v, t, h)
        BY <3>3 DEF Named
      <4>2. v \in M /\ B[v] \subseteq B[x] /\ (v = x \/ P[v] \in B[x])
        BY <3>2, <1>1 DEF Nested
      <4>3. C[u] \subseteq C[z]
        BY <4>1, <4>2, <3>3, <1>4
      <4>4. v = x => u = z
        BY <4>1, <3>1
      <4>5. ASSUME P[v] \in B[x] PROVE P2[u] \in C[z]
        <5>1. P2[u] = Named(P[v], t, h)
          BY <4>1, <4>2, <1>5
        <5>. QED BY <4>5, <5>1, <3>3 DEF Named
      <4>. QED BY <4>2, <4>3, <4>4, <4>5
    <3>. QED BY <3>4, <3>5, <3>6
  <2>. QED BY <2>1, <2>2, <1>2 DEF Nested
<1>12. Sorted(f2, g2, N, C, vr, s)
  <2>1. ASSUME NEW z \in N
        PROVE  /\ \A u \in C[f2[z]] : OnSide(vr, s, u, z)
               /\ \A u \in C[g2[z]] : OnSide(vr, s, z, u)
    <3>1. PICK x \in M : z = Named(x, t, h)
      BY <1>6
    <3>2. ASSUME NEW u
          PROVE  /\ u \in C[f2[z]] <=> (u \in B[f[x]] /\ u # t) \/ (u = h /\ t \in B[f[x]])
                 /\ u \in C[g2[z]] <=> (u \in B[g[x]] /\ u # t) \/ (u = h /\ t \in B[g[x]])
      BY <3>1, <1>10
    <3>3. /\ \A u \in B[f[x]] : OnSide(vr, s, u, x)
          /\ \A u \in B[g[x]] : OnSide(vr, s, x, u)
      BY <1>1 DEF Sorted
    <3>4. CASE x = t
      <4>1. z = h /\ t \notin B[f[x]] /\ t \notin B[g[x]]
        BY <3>1, <3>4, <1>1 DEF Named, Cut
      <4>. QED BY <3>2, <3>4, <4>1 DEF Heir
    <3>5. CASE x # t
      <4>1. z = x
        BY <3>1, <3>5 DEF Named
      <4>. QED BY <3>2, <3>3, <3>5, <4>1 DEF Heir
    <3>. QED BY <3>4, <3>5
  <2>. QED BY <2>1 DEF Sorted
<1>13. Ranked(vr, s, N)
  BY DEF Ranked
<1>. QED BY <1>1, <1>9, <1>11, <1>12, <1>13 DEF Shaped

(* It also takes its colour.                                               *)
NamedAll(red, t, h) == {Named(x, t, h) : x \in red}

NamedHeights(H, H2, M, t, h) == \A x \in M \cup {NULL} : H2[Named(x, t, h)] = H[x]

Tinted(R, f, g, red, M, H, n, fa, ga) ==
  /\ red \in SUBSET M /\ {n, fa, ga} \subseteq M \cup {NULL}
  /\ Calm(R, f, g, red, n, NULL) /\ Heights(f, g, red, M, H, fa, ga)

LEMMA RenameKeepsColours ==
  ASSUME NEW s, NEW R, NEW f, NEW g, NEW P, NEW M, NEW B, NEW vr, NEW t, NEW h,
         NEW R2, NEW f2, NEW g2, NEW P2,
         Renaming(s, R, f, g, P, R2, f2, g2, P2, M, B, vr, t, h),
         NEW red, NEW H, NEW n, NEW fa, NEW ga, Tinted(R, f, g, red, M, H, n, fa, ga),
         NEW red2, red2 = NamedAll(red, t, h),
         NEW H2, NamedHeights(H, H2, M, t, h)
  PROVE  /\ Calm(R2, f2, g2, red2, Named(n, t, h), NULL)
         /\ Heights(f2, g2, red2, (M \ {t}) \cup {h}, H2, Named(fa, t, h), Named(ga, t, h))
<1> SUFFICES ASSUME Shaped(s, R, f, g, P, M, B, vr), t \in M, h \notin M, h # NULL,
                    Renamed(R, f, g, P, R2, f2, g2, P2, M, t, h),
                    \A x \in M \cup {NULL} : H2[Named(x, t, h)] = H[x],
                    red2 = {Named(x, t, h) : x \in red}, red \in SUBSET M,
                    n \in M \cup {NULL}, fa \in M \cup {NULL}, ga \in M \cup {NULL},
                    Calm(R, f, g, red, n, NULL), Heights(f, g, red, M, H, fa, ga)
             PROVE  /\ Calm(R2, f2, g2, red2, Named(n, t, h), NULL)
                    /\ Heights(f2, g2, red2, (M \ {t}) \cup {h}, H2, Named(fa, t, h), Named(ga, t, h))
  BY DEF Renaming, NamedHeights, NamedAll, Tinted
<1> DEFINE N == (M \ {t}) \cup {h}
<1>1. NULL \notin M /\ Tied(R, f, g, P, M) /\ Untangled(f, g, M)
  BY ShapedIsApart DEF Shaped
<1>2. /\ R \in M \cup {NULL}
      /\ \A x \in M : f[x] \in M \cup {NULL} /\ g[x] \in M \cup {NULL}
      /\ f[t] # t /\ g[t] # t
  BY <1>1 DEF Tied, Untangled
<1>3. ASSUME NEW x \in M
      PROVE  /\ f2[Named(x, t, h)] = Named(f[x], t, h)
             /\ g2[Named(x, t, h)] = Named(g[x], t, h)
  BY <1>2 DEF Named, Renamed
<1>4. ASSUME NEW z \in N PROVE \E x \in M : z = Named(x, t, h)
  BY DEF Named
<1>5a. \A x, y \in M \cup {NULL} : Named(x, t, h) = Named(y, t, h) => x = y
  BY <1>1 DEF Named
<1>5b. ASSUME NEW x \in M \cup {NULL} PROVE Named(x, t, h) \in red2 <=> x \in red
  <2>1. x \in red => Named(x, t, h) \in red2
    OBVIOUS
  <2>2. ASSUME Named(x, t, h) \in red2 PROVE x \in red
    <3>1. PICK y \in red : Named(x, t, h) = Named(y, t, h)
      BY <2>2
    <3>. QED BY <3>1, <1>5a
  <2>. QED BY <2>1, <2>2
<1>5. \A x, y \in M \cup {NULL} :
        /\ Named(x, t, h) = Named(y, t, h) => x = y
        /\ Named(x, t, h) \in red2 <=> x \in red
  BY <1>5a, <1>5b
<1>6. Calm(R2, f2, g2, red2, Named(n, t, h), NULL)
  <2>1. R2 \in red2 => R2 = Named(n, t, h)
    <3>1. R2 = Named(R, t, h)
      BY DEF Renamed
    <3>. QED BY <3>1, <1>2, <1>5 DEF Calm
  <2>2. ASSUME NEW z \in red2
        PROVE  /\ f2[z] \in red2 => f2[z] = Named(n, t, h)
               /\ g2[z] \in red2 => g2[z] = Named(n, t, h)
    <3>1. PICK x \in red : z = Named(x, t, h)
      OBVIOUS
    <3>2. /\ f[x] \in red => f[x] = n
          /\ g[x] \in red => g[x] = n
      BY <1>1 DEF Calm
    <3>. QED BY <3>1, <3>2, <1>2, <1>3, <1>5
  <2>. QED BY <2>1, <2>2 DEF Calm
<1>7. Heights(f2, g2, red2, N, H2, Named(fa, t, h), Named(ga, t, h))
  <2>1. H2[NULL] = 0
    <3>1. Named(NULL, t, h) = NULL
      BY <1>1 DEF Named
    <3>. QED BY <3>1 DEF Heights
  <2>2. ASSUME NEW z \in N
        PROVE  /\ H2[z] \in Nat
               /\ H2[z] = H2[f2[z]] + One(z \notin red2) + One(z = Named(fa, t, h))
               /\ H2[z] = H2[g2[z]] + One(z \notin red2) + One(z = Named(ga, t, h))
    <3>1. PICK x \in M : z = Named(x, t, h)
      BY <1>4
    <3>2. H2[z] = H[x] /\ H2[f2[z]] = H[f[x]] /\ H2[g2[z]] = H[g[x]]
      BY <3>1, <1>2, <1>3
    <3>3. z \notin red2 <=> x \notin red
      BY <3>1, <1>5
    <3>4. (z = Named(fa, t, h) <=> x = fa) /\ (z = Named(ga, t, h) <=> x = ga)
      BY <3>1, <1>5
    <3>5. /\ H[x] \in Nat
          /\ H[x] = H[f[x]] + One(x \notin red) + One(x = fa)
          /\ H[x] = H[g[x]] + One(x \notin red) + One(x = ga)
      BY DEF Heights
    <3>. QED BY <3>2, <3>3, <3>4, <3>5
  <2>. QED BY <2>1, <2>2 DEF Heights
<1>. QED BY <1>6, <1>7

-----------------------------------------------------------------------------
(***************************************************************************)
(* The colours of a tree whose way down from a, on the side d, is one      *)
(* short; a is NULL when none is.                                          *)
(***************************************************************************)
Colours(s, tr, M, fa, ga, n, k) ==
  \E H : /\ Heights(tr.kid[s], tr.kid[Opposite(s)], tr.red, M, H, fa, ga)
         /\ Calm(tr.root, tr.kid[s], tr.kid[Opposite(s)], tr.red, n, k)

Short(a, d, s) == IF d = s THEN a ELSE NULL

Coloured(tr, M, a, d, n, k) ==
  Colours("left", tr, M, Short(a, d, "left"), Short(a, d, "right"), n, k)

LEMMA OtherColours ==
  ASSUME NEW s \in Sides, NEW tr, NEW M, NEW fa, NEW ga, NEW n, NEW k,
         Colours(s, tr, M, fa, ga, n, k)
  PROVE  Colours(Opposite(s), tr, M, ga, fa, n, k)
<1>1. Opposite(Opposite(s)) = s
  BY OppositeSides
<1>2. PICK H : /\ Heights(tr.kid[s], tr.kid[Opposite(s)], tr.red, M, H, fa, ga)
               /\ Calm(tr.root, tr.kid[s], tr.kid[Opposite(s)], tr.red, n, k)
  BY DEF Colours
<1>3. Heights(tr.kid[Opposite(s)], tr.kid[s], tr.red, M, H, ga, fa)
  BY <1>2 DEF Heights
<1>4. Calm(tr.root, tr.kid[Opposite(s)], tr.kid[s], tr.red, n, k)
  BY <1>2 DEF Calm
<1>. QED BY <1>1, <1>3, <1>4 DEF Colours

LEMMA EverySideColoured ==
  ASSUME NEW tr, NEW M, NEW a, NEW d, NEW n, NEW k, NEW s \in Sides
  PROVE  Coloured(tr, M, a, d, n, k) <=>
           Colours(s, tr, M, Short(a, d, s), Short(a, d, Opposite(s)), n, k)
<1>1. CASE s = "left"
  BY <1>1 DEF Coloured, Opposite
<1>2. CASE s = "right"
  <2>1. Opposite("left") = "right" /\ Opposite("right") = "left"
    BY DEF Opposite
  <2>. QED BY <1>2, <2>1, OtherColours DEF Coloured, Sides
<1>. QED BY <1>1, <1>2 DEF Sides

LEMMA TreeFacts ==
  ASSUME NEW tr, NEW M, NEW B, NEW vr, Shape(tr, M, B, vr), NEW s \in Sides
  PROVE  /\ tr \in Trees /\ M \in SUBSET TREE_TASKS /\ NULL \notin M
         /\ tr.red \in SUBSET M /\ Outside(tr, M)
         /\ Shaped(s, tr.root, tr.kid[s], tr.kid[Opposite(s)], tr.parent, M, B, vr)
         /\ Tied(tr.root, tr.kid[s], tr.kid[Opposite(s)], tr.parent, M)
         /\ Nested(tr.root, tr.kid[s], tr.kid[Opposite(s)], tr.parent, M, B)
         /\ Sorted(tr.kid[s], tr.kid[Opposite(s)], M, B, vr, s)
         /\ Ranked(vr, s, M)
         /\ Cut(tr.kid[s], tr.kid[Opposite(s)], M, B)
         /\ Untangled(tr.kid[s], tr.kid[Opposite(s)], M)
<1>1. SideShaped(s, tr, M, B, vr)
  BY EverySideShaped
<1>2. Shaped(s, tr.root, tr.kid[s], tr.kid[Opposite(s)], tr.parent, M, B, vr)
  BY <1>1 DEF SideShaped
<1>. QED BY <1>2, ShapedIsCut, ShapedIsApart DEF Shape, Shaped, Outside

(* A rotation that swaps the colours of a black task and its red child.    *)
SwapSite(tr, M, s, t, up, n, a, d) ==
  /\ s \in Sides /\ t \in M /\ up = tr.kid[Opposite(s)][t] /\ up \in tr.red
  /\ t \notin tr.red /\ tr.kid[s][t] \notin tr.red
  /\ n = NULL \/ n = tr.kid[Opposite(s)][up]
  /\ a = NULL \/ (a # up /\ (a = t => d = s))
  /\ Coloured(tr, M, a, d, n, NULL)

SwapDone(tr, r, M, vr, s, t, up, a, d) ==
  /\ \E C : Shape(r, M, C, vr)
  /\ Coloured(r, M, a, d, NULL, NULL)
  /\ SideTurned(s, tr, r, M, t)
  /\ r.red = (tr.red \ {up}) \cup {t}

LEMMA SwapRotate ==
  ASSUME NEW tr, NEW M, NEW B, NEW vr, Shape(tr, M, B, vr),
         NEW s, NEW t, NEW up, NEW n, NEW a, NEW d, SwapSite(tr, M, s, t, up, n, a, d),
         NEW r, r = Rotate(SetBlackRed(tr, up, t), s, t)
  PROVE  SwapDone(tr, r, M, vr, s, t, up, a, d)
<1> SUFFICES ASSUME s \in Sides, t \in M, up = tr.kid[Opposite(s)][t], up \in tr.red,
                    t \notin tr.red, tr.kid[s][t] \notin tr.red,
                    n = NULL \/ n = tr.kid[Opposite(s)][up],
                    a = NULL \/ (a # up /\ (a = t => d = s)),
                    Coloured(tr, M, a, d, n, NULL)
             PROVE  /\ \E C : Shape(r, M, C, vr)
                    /\ Coloured(r, M, a, d, NULL, NULL)
                    /\ SideTurned(s, tr, r, M, t)
                    /\ r.red = (tr.red \ {up}) \cup {t}
  BY DEF SwapSite, SwapDone
<1> DEFINE o == Opposite(s)
           f == tr.kid[s]
           g == tr.kid[o]
           red2 == (tr.red \ {up}) \cup {t}
           b == [tr EXCEPT !.red = red2]
           fa == Short(a, d, s)
           ga == Short(a, d, o)
<1>0. o \in Sides /\ o # s
  BY OppositeSides
<1>1. /\ M \in SUBSET TREE_TASKS /\ NULL \notin M /\ tr.red \in SUBSET M
      /\ Shaped(s, tr.root, f, g, tr.parent, M, B, vr)
  BY TreeFacts
<1>2. /\ Shape(b, M, B, vr) /\ b.red = red2 /\ b.root = tr.root
      /\ b.kid = tr.kid /\ b.parent = tr.parent
  BY <1>1, RecolourKeepsShape
<1>3. r = Rotate(b, s, t)
  BY DEF SetBlackRed
<1>4. up # NULL /\ up \in M /\ t # NULL
  BY <1>1
<1> HIDE DEF b
<1>5. \E C : Shape(r, M, C, vr)
  BY <1>2, <1>3, <1>4, RotateKeepsShape
<1>6. r.red = red2 /\ SideTurned(s, b, r, M, t)
  BY <1>2, <1>3, <1>4, RotateEffect
<1>7. SideTurned(s, tr, r, M, t)
  BY <1>2, <1>6 DEF SideTurned
<1>8. PICK H : Heights(f, g, tr.red, M, H, fa, ga) /\ Calm(tr.root, f, g, tr.red, n, NULL)
  BY EverySideColoured DEF Colours
<1> DEFINE H2 == [x \in M \cup {NULL} |-> IF x = t THEN H[up] ELSE IF x = up THEN H[t] ELSE H[x]]
<1>9. Swapped(H, H2, M, t, up) /\ SwappedRed(tr.red, red2, M, t, up)
  BY <1>1, <1>4, <1>8 DEF Swapped, SwappedRed, Heights
<1>10. ga # t /\ ga # up /\ fa # up
  BY <1>0, <1>4 DEF Short
<1>11. red2 \in SUBSET M
  BY <1>1
<1> HIDE DEF H2, red2, fa, ga, f, g
<1>12. Turned(tr.root, f, g, tr.parent, r.root, r.kid[s], r.kid[o], r.parent, M, t, up)
  BY <1>7 DEF SideTurned, f, g
<1>12a. SwapTurn(s, tr.root, f, g, tr.parent, r.root, r.kid[s], r.kid[o], r.parent,
                 M, B, vr, t, up, tr.red, red2)
  BY <1>1, <1>4, <1>9, <1>11, <1>12 DEF SwapTurn, g
<1>13. Heights(r.kid[s], r.kid[o], red2, M, H2, fa, ga)
  BY <1>8, <1>9, <1>10, <1>12a, SwapTurnHeights
<1>14. Calm(r.root, r.kid[s], r.kid[o], red2, NULL, NULL)
  <2>1. f[t] \notin tr.red /\ n \in {NULL, g[up]}
    BY Zenon DEF f, g
  <2>. QED BY <2>1, <1>8, <1>12a, SwapTurnCalm
<1>15. Colours(s, r, M, fa, ga, NULL, NULL)
  BY <1>6, <1>13, <1>14, Zenon DEF Colours
<1>. QED BY <1>5, <1>6, <1>7, <1>15, EverySideColoured DEF fa, ga, red2

(* The first rotation of RB_INSERT_COLOR: both tasks are red.              *)
LEMMA InnerRotate ==
  ASSUME NEW tr, NEW M, NEW B, NEW vr, Shape(tr, M, B, vr),
         NEW s \in Sides, NEW t \in M, NEW up, up = tr.kid[Opposite(s)][t], up \in tr.red,
         t \in tr.red, NEW d, Coloured(tr, M, NULL, d, up, NULL),
         NEW r, r = Rotate(tr, s, t)
  PROVE  /\ \E C : Shape(r, M, C, vr)
         /\ Coloured(r, M, NULL, d, t, NULL)
         /\ SideTurned(s, tr, r, M, t)
         /\ r.red = tr.red
<1> DEFINE o == Opposite(s)
           f == tr.kid[s]
           g == tr.kid[o]
<1>1. /\ NULL \notin M /\ tr.red \in SUBSET M
      /\ Shaped(s, tr.root, f, g, tr.parent, M, B, vr)
  BY TreeFacts
<1>4. up # NULL /\ up \in M /\ t # NULL
  BY <1>1
<1>5. \E C : Shape(r, M, C, vr)
  BY <1>4, RotateKeepsShape
<1>6. r.red = tr.red /\ SideTurned(s, tr, r, M, t)
  BY <1>4, RotateEffect
<1>7. Short(NULL, d, s) = NULL /\ Short(NULL, d, o) = NULL
  BY DEF Short
<1>8. PICK H : Heights(f, g, tr.red, M, H, NULL, NULL) /\ Calm(tr.root, f, g, tr.red, up, NULL)
  BY <1>7, EverySideColoured DEF Colours
<1> DEFINE H2 == [x \in M \cup {NULL} |-> IF x = t THEN H[up] ELSE IF x = up THEN H[t] ELSE H[x]]
<1>9. Swapped(H, H2, M, t, up) /\ SwappedRed(tr.red, tr.red, M, t, up)
  BY <1>1, <1>4, <1>8 DEF Swapped, SwappedRed, Heights
<1> HIDE DEF H2, f, g
<1>12. Turned(tr.root, f, g, tr.parent, r.root, r.kid[s], r.kid[o], r.parent, M, t, up)
  BY <1>6 DEF SideTurned, f, g
<1>12a. SwapTurn(s, tr.root, f, g, tr.parent, r.root, r.kid[s], r.kid[o], r.parent,
                 M, B, vr, t, up, tr.red, tr.red)
  BY <1>1, <1>4, <1>9, <1>12 DEF SwapTurn, g
<1>13. Heights(r.kid[s], r.kid[o], tr.red, M, H2, NULL, NULL)
  BY <1>4, <1>8, <1>9, <1>12a, SwapTurnHeights
<1>14. Calm(r.root, r.kid[s], r.kid[o], tr.red, t, NULL)
  BY <1>8, <1>12a, InnerTurnCalm
<1>15. Colours(s, r, M, NULL, NULL, t, NULL)
  BY <1>6, <1>13, <1>14 DEF Colours
<1>. QED BY <1>5, <1>6, <1>7, <1>15, EverySideColoured

(* The last one of RB_REMOVE_COLOR.                                        *)
LastSite(tr, M, s, t, up, far) ==
  /\ s \in Sides /\ t \in M /\ up = tr.kid[Opposite(s)][t]
  /\ up \in M /\ up \notin tr.red /\ tr.kid[s][t] \notin tr.red
  /\ far = tr.kid[Opposite(s)][up] /\ far \in tr.red
  /\ Coloured(tr, M, t, s, NULL, NULL)

LEMMA LastRotate ==
  ASSUME NEW tr, NEW M, NEW B, NEW vr, Shape(tr, M, B, vr),
         NEW s, NEW t, NEW up, NEW far, LastSite(tr, M, s, t, up, far), NEW d,
         NEW r, r = Rotate(ShareBlack(tr, t, up, far), s, t)
  PROVE  (\E C : Shape(r, M, C, vr)) /\ Coloured(r, M, NULL, d, NULL, NULL)
<1> SUFFICES ASSUME s \in Sides, t \in M, up = tr.kid[Opposite(s)][t],
                    up \in M, up \notin tr.red, tr.kid[s][t] \notin tr.red,
                    far = tr.kid[Opposite(s)][up], far \in tr.red,
                    Coloured(tr, M, t, s, NULL, NULL)
             PROVE  /\ \E C : Shape(r, M, C, vr)
                    /\ Coloured(r, M, NULL, d, NULL, NULL)
  BY DEF LastSite
<1> DEFINE o == Opposite(s)
           f == tr.kid[s]
           g == tr.kid[o]
           red2 == (IF t \in tr.red THEN tr.red \cup {up} ELSE tr.red \ {up}) \ {t, far}
           b == [tr EXCEPT !.red = red2]
<1>0. o \in Sides /\ o # s
  BY OppositeSides
<1>1. /\ M \in SUBSET TREE_TASKS /\ NULL \notin M /\ tr.red \in SUBSET M
      /\ Shaped(s, tr.root, f, g, tr.parent, M, B, vr)
      /\ Untangled(f, g, M)
  BY TreeFacts
<1>1a. red2 \in SUBSET M
  BY <1>1
<1>2. /\ Shape(b, M, B, vr) /\ b.red = red2 /\ b.root = tr.root
      /\ b.kid = tr.kid /\ b.parent = tr.parent
  BY <1>1a, RecolourKeepsShape
<1>3. r = Rotate(b, s, t)
  BY DEF ShareBlack
<1>4. up # NULL /\ t # NULL /\ far \in M /\ far # up /\ far # t /\ up # t
  BY <1>1 DEF Untangled
<1> HIDE DEF b
<1>5. \E C : Shape(r, M, C, vr)
  BY <1>2, <1>3, <1>4, RotateKeepsShape
<1>6. r.red = red2 /\ SideTurned(s, b, r, M, t)
  BY <1>2, <1>3, <1>4, RotateEffect
<1>7. Short(t, s, s) = t /\ Short(t, s, o) = NULL /\ Short(NULL, d, s) = NULL /\ Short(NULL, d, o) = NULL
  BY <1>0 DEF Short
<1>8. PICK H : Heights(f, g, tr.red, M, H, t, NULL) /\ Calm(tr.root, f, g, tr.red, NULL, NULL)
  BY <1>7, EverySideColoured DEF Colours
<1> DEFINE H2 == [x \in M \cup {NULL} |-> IF x = t THEN H[up] ELSE IF x = up THEN H[t]
                                         ELSE IF x = far THEN H[far] + 1 ELSE H[x]]
<1>9. LastHeights(H, H2, M, t, up, far) /\ LastRed(tr.red, red2, M, t, up, far)
  BY <1>1, <1>4, <1>8, Zenon DEF LastHeights, LastRed, Heights
<1> HIDE DEF H2, red2, f, g
<1>12. Turned(tr.root, f, g, tr.parent, r.root, r.kid[s], r.kid[o], r.parent, M, t, up)
  BY <1>2, <1>6, Zenon DEF SideTurned, f, g
<1>12a. LastTurn(s, tr.root, f, g, tr.parent, r.root, r.kid[s], r.kid[o], r.parent,
                 M, B, vr, t, up, far, tr.red, red2)
  BY <1>1, <1>1a, <1>4, <1>9, <1>12, Zenon DEF LastTurn, g
<1>13. Heights(r.kid[s], r.kid[o], red2, M, H2, NULL, NULL)
  BY ONLY <1>8, <1>9, <1>12a, LastTurnHeights
<1>14. Calm(r.root, r.kid[s], r.kid[o], red2, NULL, NULL)
  <2>1. f[t] \notin tr.red
    BY Zenon DEF f
  <2>. QED BY ONLY <2>1, <1>8, <1>12a, LastTurnCalm
<1>15. Colours(s, r, M, NULL, NULL, NULL, NULL)
  BY <1>6, <1>13, <1>14, Zenon DEF Colours
<1>. QED BY <1>5, <1>7, <1>15, EverySideColoured

(* A task is the child of its parent, on one side, and of no other.        *)
LEMMA Place ==
  ASSUME NEW tr, NEW M, NEW B, NEW vr, Shape(tr, M, B, vr), NEW t \in M,
         NEW d \in Sides, tr.parent[t] # NULL => tr.kid[d][tr.parent[t]] = t,
         NEW z \in Sides, NEW x \in M
  PROVE  tr.kid[z][x] = t <=> x = Short(tr.parent[t], d, z)
<1>1. Sides = {d, Opposite(d)} /\ Opposite(d) # d /\ Opposite(d) \in Sides
  BY OppositeSides
<1>2. /\ NULL \notin M
      /\ Tied(tr.root, tr.kid[d], tr.kid[Opposite(d)], tr.parent, M)
      /\ Untangled(tr.kid[d], tr.kid[Opposite(d)], M)
  BY TreeFacts
<1>3. tr.kid[z][x] = t => x = tr.parent[t]
  BY <1>1, <1>2 DEF Tied
<1>4. tr.kid[d][x] = t => tr.kid[Opposite(d)][x] # t
  BY <1>2 DEF Untangled
<1>. QED BY <1>1, <1>2, <1>3, <1>4 DEF Short

LEMMA CalmForget ==
  ASSUME NEW R, NEW f, NEW g, NEW red, NEW n, NEW k \in {n, NULL}, Calm(R, f, g, red, n, k),
         NULL \notin red
  PROVE  Calm(R, f, g, red \ {n}, NULL, NULL)
BY DEF Calm

LEMMA RaiseTree ==
  ASSUME NEW tr, NEW M, NEW B, NEW vr, Shape(tr, M, B, vr), NEW s \in Sides, NEW t \in M,
         NEW a, NEW b, a = tr.kid[s][t], b = tr.kid[Opposite(s)][t],
         a \in tr.red, b \in tr.red,
         NEW n \in M, tr.parent[n] = a, NEW d, Coloured(tr, M, NULL, d, n, NULL),
         NEW r, r = [SetBlackRed(tr, a, t) EXCEPT !.red = @ \ {b}]
  PROVE  Shape(r, M, B, vr) /\ Coloured(r, M, NULL, d, t, NULL)
<1> DEFINE f == tr.kid[s]
           g == tr.kid[Opposite(s)]
           red2 == (tr.red \ {a, b}) \cup {t}
<1>1. /\ tr \in Trees /\ NULL \notin M /\ tr.red \in SUBSET M
      /\ Shaped(s, tr.root, f, g, tr.parent, M, B, vr) /\ Untangled(f, g, M)
  BY TreeFacts
<1>2. t # b /\ t # a /\ a # b
  BY <1>1 DEF Untangled
<1>3. r = [tr EXCEPT !.red = red2]
  BY <1>1, <1>2 DEF SetBlackRed, Trees
<1>4. /\ Shape(r, M, B, vr) /\ r.red = red2 /\ r.root = tr.root
      /\ r.kid = tr.kid /\ r.parent = tr.parent /\ red2 \in SUBSET M
  <2>1. red2 \in SUBSET M
    BY <1>1
  <2> HIDE DEF red2
  <2>. QED BY ONLY <2>1, <1>3, Shape(tr, M, B, vr), RecolourKeepsShape
<1>5. Short(NULL, d, s) = NULL /\ Short(NULL, d, Opposite(s)) = NULL
  BY DEF Short
<1>6. PICK H : Heights(f, g, tr.red, M, H, NULL, NULL) /\ Calm(tr.root, f, g, tr.red, n, NULL)
  BY <1>5, EverySideColoured DEF Colours
<1> DEFINE H2 == [x \in M \cup {NULL} |-> IF x = a \/ x = b THEN H[x] + 1 ELSE H[x]]
<1>7. RaisedHeights(H, H2, f, g, M, t)
  BY <1>1, <1>6 DEF RaisedHeights, Heights
<1>8. RaisedRed(tr.red, red2, f, g, t) /\ a = f[t] /\ b = g[t]
  BY DEF RaisedRed
<1> HIDE DEF H2, f, g, red2
<1>9. Calm(tr.root, f, g, red2, t, NULL) /\ Heights(f, g, red2, M, H2, NULL, NULL)
  BY <1>1, <1>4, <1>6, <1>7, <1>8, RaiseKeepsColours
<1>10. Colours(s, r, M, NULL, NULL, t, NULL)
  BY <1>4, <1>9 DEF Colours, f, g
<1>. QED BY <1>4, <1>5, <1>10, EverySideColoured

(* n, at the short way if there is one, becomes black.                     *)
LEMMA BlackenTree ==
  ASSUME NEW tr, NEW M, NEW B, NEW vr, Shape(tr, M, B, vr), NEW n,
         NEW a, NEW d, NEW k \in {n, NULL}, Coloured(tr, M, a, d, n, k),
         n \notin tr.red => a = NULL,
         n \in tr.red => \A z \in Sides : \A x \in M : tr.kid[z][x] = n <=> x = Short(a, d, z),
         NEW r, r = [tr EXCEPT !.red = @ \ {n}], NEW c
  PROVE  Shape(r, M, B, vr) /\ Coloured(r, M, NULL, c, NULL, NULL)
<1> DEFINE s == "left"
           f == tr.kid[s]
           g == tr.kid[Opposite(s)]
           red2 == tr.red \ {n}
<1>0. s \in Sides /\ Opposite(s) \in Sides
  BY OppositeSides DEF Sides
<1>1. /\ tr \in Trees /\ NULL \notin M /\ tr.red \in SUBSET M
      /\ Tied(tr.root, f, g, tr.parent, M) /\ Untangled(f, g, M)
  BY <1>0, TreeFacts
<1>2. /\ Shape(r, M, B, vr) /\ r.red = red2 /\ r.root = tr.root
      /\ r.kid = tr.kid /\ r.parent = tr.parent
  <2>1. r = [tr EXCEPT !.red = red2]
    BY <1>1 DEF Trees
  <2>. QED BY <2>1, <1>1, RecolourKeepsShape
<1>3. Short(NULL, c, s) = NULL /\ Short(NULL, c, Opposite(s)) = NULL
  BY DEF Short
<1>4. PICK H : /\ Heights(f, g, tr.red, M, H, Short(a, d, s), Short(a, d, Opposite(s)))
               /\ Calm(tr.root, f, g, tr.red, n, k)
  <2>1. Colours(s, tr, M, Short(a, d, s), Short(a, d, Opposite(s)), n, k)
    BY <1>0, EverySideColoured
  <2>. QED BY <2>1 DEF Colours
<1>5. Calm(tr.root, f, g, red2, NULL, NULL)
  BY <1>1, <1>4, CalmForget
<1>6. \E H2 : Heights(f, g, red2, M, H2, NULL, NULL)
  <2>1. CASE n \in tr.red
    <3> DEFINE H2 == [x \in M \cup {NULL} |-> IF x = n THEN H[x] + 1 ELSE H[x]]
    <3>1. n \in M /\ f[n] # n /\ g[n] # n
      BY <2>1, <1>1 DEF Untangled
    <3>2. H2[NULL] = 0 /\ H2[n] = H[n] + 1 /\ \A x \in M \ {n} : H2[x] = H[x]
      BY <3>1, <1>1, <1>4 DEF Heights
    <3>3. \A x \in M : f[x] \in M \cup {NULL} /\ g[x] \in M \cup {NULL}
      BY <1>1 DEF Tied
    <3>4. \A x \in M : /\ f[x] = n <=> x = Short(a, d, s)
                       /\ g[x] = n <=> x = Short(a, d, Opposite(s))
      BY <2>1, <1>0
    <3> HIDE DEF H2, f, g
    <3>5. Heights(f, g, red2, M, H2, NULL, NULL)
      BY <2>1, <3>1, <3>2, <3>3, <3>4, <1>1, <1>4, BlackenHeights
    <3>. QED BY <3>5
  <2>2. CASE n \notin tr.red
    <3>1. red2 = tr.red /\ Short(a, d, s) = NULL /\ Short(a, d, Opposite(s)) = NULL
      BY <2>2 DEF Short
    <3>. QED BY <3>1, <1>4
  <2>. QED BY <2>1, <2>2
<1>7. Colours(s, r, M, NULL, NULL, NULL, NULL)
  BY <1>2, <1>5, <1>6 DEF Colours
<1> HIDE DEF s
<1>. QED BY <1>0, <1>2, <1>3, <1>7, EverySideColoured

LowerSite(tr, M, s, t, sib, d) ==
  /\ s \in Sides /\ t \in M /\ sib = tr.kid[Opposite(s)][t] /\ sib \notin tr.red
  /\ tr.kid[s][t] \notin tr.red /\ Nephews(tr, sib) \cap tr.red = {}
  /\ Coloured(tr, M, t, s, NULL, NULL)
  /\ d \in Sides /\ (tr.parent[t] # NULL => tr.kid[d][tr.parent[t]] = t)

LEMMA LowerTree ==
  ASSUME NEW tr, NEW M, NEW B, NEW vr, Shape(tr, M, B, vr),
         NEW s, NEW t, NEW sib, NEW d, LowerSite(tr, M, s, t, sib, d),
         NEW r, r = [tr EXCEPT !.red = @ \cup {sib}]
  PROVE  Shape(r, M, B, vr) /\ Coloured(r, M, tr.parent[t], d, t, t)
<1> SUFFICES ASSUME s \in Sides, t \in M, sib = tr.kid[Opposite(s)][t], sib \notin tr.red,
                    tr.kid[s][t] \notin tr.red, Nephews(tr, sib) \cap tr.red = {},
                    Coloured(tr, M, t, s, NULL, NULL),
                    d \in Sides, tr.parent[t] # NULL => tr.kid[d][tr.parent[t]] = t
             PROVE  Shape(r, M, B, vr) /\ Coloured(r, M, tr.parent[t], d, t, t)
  BY DEF LowerSite
<1> DEFINE o == Opposite(s)
           f == tr.kid[s]
           g == tr.kid[o]
           red2 == tr.red \cup {sib}
           fa == Short(tr.parent[t], d, s)
           ga == Short(tr.parent[t], d, o)
<1>0. o \in Sides /\ o # s /\ Sides = {s, o}
  BY OppositeSides
<1>1. /\ tr \in Trees /\ NULL \notin M /\ tr.red \in SUBSET M
      /\ Tied(tr.root, f, g, tr.parent, M) /\ Shaped(s, tr.root, f, g, tr.parent, M, B, vr)
  BY TreeFacts
<1>2. Short(t, s, s) = t /\ Short(t, s, o) = NULL
  BY <1>0 DEF Short
<1>3. PICK H : Heights(f, g, tr.red, M, H, t, NULL) /\ Calm(tr.root, f, g, tr.red, NULL, NULL)
  BY <1>2, EverySideColoured DEF Colours
<1>4. sib \in M
  <2>1. f[t] \in M \cup {NULL} /\ g[t] \in M \cup {NULL}
    BY <1>1 DEF Tied
  <2> HIDE DEF f, g
  <2>2. g[t] # NULL
    BY <2>1, <1>1, <1>3, SiblingExists
  <2>. QED BY <2>1, <2>2 DEF g
<1>5. /\ Shape(r, M, B, vr) /\ r.red = red2 /\ r.root = tr.root
      /\ r.kid = tr.kid /\ r.parent = tr.parent
  <2>1. r = [tr EXCEPT !.red = red2]
    BY <1>1 DEF Trees
  <2>. QED BY <2>1, <1>1, <1>4, RecolourKeepsShape
<1>6. \A x \in M : (f[x] = t <=> x = fa) /\ (g[x] = t <=> x = ga)
  BY <1>0, Place
<1>7. f[sib] \notin tr.red /\ g[sib] \notin tr.red
  BY <1>0 DEF Nephews, Sides
<1> DEFINE H2 == [x \in M \cup {NULL} |-> IF x = t \/ x = sib THEN H[x] - 1 ELSE H[x]]
<1>8. LoweredHeights(H, H2, M, t, sib)
  BY <1>1, <1>3, <1>4 DEF LoweredHeights, Heights
<1>9. sib = g[t] /\ f[t] \notin tr.red
  OBVIOUS
<1> HIDE DEF H2, f, g, fa, ga
<1>10. Calm(tr.root, f, g, red2, t, t) /\ Heights(f, g, red2, M, H2, fa, ga)
  BY <1>1, <1>3, <1>6, <1>7, <1>8, <1>9, LowerKeepsColours
<1>11. Colours(s, r, M, fa, ga, t, t)
  BY <1>5, <1>10 DEF Colours, f, g
<1>. QED BY <1>5, <1>11, EverySideColoured DEF fa, ga

-----------------------------------------------------------------------------
(* RB_INSERT hangs a task in.                                              *)
Freed(r, tr, t) ==
  /\ r \in Trees /\ r.red = tr.red \ {t} /\ r.root = tr.root
  /\ \A x \in TREE_TASKS : r.parent[x] = IF x = t THEN NULL ELSE tr.parent[x]
  /\ \A z \in Sides : \A x \in TREE_TASKS :
       r.kid[z][x] = IF x = t THEN NULL ELSE tr.kid[z][x]

LEMMA UnlinkedEffect ==
  ASSUME NEW tr \in Trees, NEW t \in TREE_TASKS
  PROVE  Freed(Unlinked(tr, t), tr, t)
BY DEF Unlinked, Freed, Trees, Sides, Task0

Hung(r, tr, p, s, t) ==
  /\ r \in Trees /\ r.red = tr.red \cup {t}
  /\ r.root = IF p = NULL THEN t ELSE tr.root
  /\ \A x \in TREE_TASKS : r.parent[x] = IF x = t THEN p ELSE tr.parent[x]
  /\ \A z \in Sides : \A x \in TREE_TASKS :
       r.kid[z][x] = IF x = p /\ z = s THEN t ELSE IF x = t THEN NULL ELSE tr.kid[z][x]

LEMMA LinkEffect ==
  ASSUME NEW tr \in Trees, NEW p \in Task0, NEW s \in Sides, NEW t \in TREE_TASKS
  PROVE  Hung(Link(tr, p, s, t), tr, p, s, t)
<1> DEFINE u == Unlinked(tr, t)
           a == [u EXCEPT !.parent[t] = p, !.red = @ \cup {t}]
           r == Link(tr, p, s, t)
<1>1. Freed(u, tr, t)
  BY UnlinkedEffect
<1>2. r = IF p = NULL THEN [a EXCEPT !.root = t] ELSE [a EXCEPT !.kid[s][p] = t]
  BY DEF Link
<1> HIDE DEF u, r
<1>3. /\ a \in Trees /\ a.red = u.red \cup {t} /\ a.root = u.root /\ a.kid = u.kid
      /\ \A x \in TREE_TASKS : a.parent[x] = IF x = t THEN p ELSE u.parent[x]
  BY <1>1 DEF Freed, Trees, Task0
<1> HIDE DEF a
<1>4. /\ r \in Trees /\ r.red = a.red /\ r.parent = a.parent
      /\ r.root = IF p = NULL THEN t ELSE a.root
      /\ \A z \in Sides : \A x \in TREE_TASKS :
           r.kid[z][x] = IF x = p /\ z = s THEN t ELSE a.kid[z][x]
  BY <1>2, <1>3, NullIsNoTask DEF Trees, Task0
<1>5. r.red = tr.red \cup {t} /\ (r.root = IF p = NULL THEN t ELSE tr.root)
  BY <1>1, <1>3, <1>4 DEF Freed
<1>6. \A x \in TREE_TASKS : r.parent[x] = IF x = t THEN p ELSE tr.parent[x]
  BY <1>1, <1>3, <1>4 DEF Freed
<1>7. \A z \in Sides : \A x \in TREE_TASKS :
        r.kid[z][x] = IF x = p /\ z = s THEN t ELSE IF x = t THEN NULL ELSE tr.kid[z][x]
  BY <1>1, <1>3, <1>4 DEF Freed
<1>. QED BY <1>4, <1>5, <1>6, <1>7 DEF Hung, r

LEMMA LinkTree ==
  ASSUME NEW tr, NEW M, NEW B, NEW vr \in Keys, Shape(tr, M, B, vr),
         NEW e \in TREE_TASKS, e \notin M, \A t \in M \cup {e} : vr[t] # NULL,
         NEW p \in M, NEW s \in Sides, tr.kid[s][p] = NULL, OnSide(vr, s, e, p),
         Fits(tr.kid[s], tr.kid[Opposite(s)], M, B, vr, s, e, p),
         NEW d, Coloured(tr, M, NULL, d, NULL, NULL),
         NEW r, r = Link(tr, p, s, e)
  PROVE  /\ \E C : Shape(r, M \cup {e}, C, vr)
         /\ Coloured(r, M \cup {e}, NULL, d, e, NULL)
<1> DEFINE o == Opposite(s)
           f == tr.kid[s]
           g == tr.kid[o]
           N == M \cup {e}
           B2 == [x \in N \cup {NULL} |-> IF x = NULL THEN {} ELSE IF x = e THEN {e}
                                         ELSE IF p \in B[x] THEN B[x] \cup {e} ELSE B[x]]
<1>0. o \in Sides /\ o # s /\ Sides = {s, o}
  BY OppositeSides
<1>1. /\ tr \in Trees /\ M \in SUBSET TREE_TASKS /\ NULL \notin M /\ tr.red \in SUBSET M
      /\ Outside(tr, M) /\ Tied(tr.root, f, g, tr.parent, M)
      /\ Shaped(s, tr.root, f, g, tr.parent, M, B, vr)
  BY TreeFacts
<1>2. e # NULL /\ p \in TREE_TASKS /\ p # NULL /\ p \in Task0 /\ p # e /\ N \in SUBSET TREE_TASKS
  BY <1>1, NullIsNoTask DEF Task0
<1>3. Hung(r, tr, p, s, e)
  BY <1>1, <1>2, LinkEffect
<1> HIDE DEF o, f, g
<1>4. Attached(f, g, tr.parent, r.kid[s], r.kid[o], r.parent, M, e, p)
  <2>1. /\ r.kid[s][p] = e /\ r.parent[e] = p /\ r.kid[s][e] = NULL /\ r.kid[o][e] = NULL
    BY <1>0, <1>2, <1>3 DEF Hung
  <2>2. \A x \in M : /\ r.kid[o][x] = g[x] /\ r.parent[x] = tr.parent[x]
                     /\ x # p => r.kid[s][x] = f[x]
    BY <1>0, <1>1, <1>2, <1>3 DEF Hung, f, g
  <2>3. f[p] = NULL
    BY DEF f
  <2>. QED BY <2>1, <2>2, <2>3 DEF Attached
<1>5. r \in Trees /\ r.root = tr.root /\ r.red = tr.red \cup {e}
  BY <1>2, <1>3 DEF Hung
<1>6. Outside(r, N)
  <2>1. ASSUME NEW x \in TREE_TASKS \ N PROVE r.parent[x] = NULL /\ \A z \in Sides : r.kid[z][x] = NULL
    BY <1>1, <1>3 DEF Hung, Outside
  <2>. QED BY <2>1, <1>1, <1>5 DEF Outside
<1>7. Grown(B, B2, M, e, p)
  BY <1>1, <1>2 DEF Grown
<1>8. Ranked(vr, s, M \cup {e})
  BY <1>2, KeysAreRanked
<1>8a. Fits(f, g, M, B, vr, s, e, p)
  BY DEF f, g, o
<1> HIDE DEF B2
<1>9. Shaped(s, r.root, r.kid[s], r.kid[o], r.parent, N, B2, vr)
  BY <1>1, <1>2, <1>4, <1>5, <1>7, <1>8, <1>8a, AttachKeepsShape
<1>10. Shape(r, N, B2, vr)
  BY <1>2, <1>5, <1>6, <1>9, ShapeFromSide DEF SideShaped, o
<1>11. Short(NULL, d, s) = NULL /\ Short(NULL, d, o) = NULL
  BY DEF Short
<1>12. PICK H : Heights(f, g, tr.red, M, H, NULL, NULL) /\ Calm(tr.root, f, g, tr.red, NULL, NULL)
  BY <1>11, EverySideColoured DEF Colours, f, g, o
<1> DEFINE H2 == [x \in N \cup {NULL} |-> IF x = e THEN 0 ELSE H[x]]
<1>13. LeafHeights(H, H2, M, e)
  BY <1>2, <1>12 DEF Heights, LeafHeights
<1> HIDE DEF H2
<1>14. /\ Calm(tr.root, r.kid[s], r.kid[o], tr.red \cup {e}, e, NULL)
       /\ Heights(r.kid[s], r.kid[o], tr.red \cup {e}, N, H2, NULL, NULL)
  BY <1>1, <1>2, <1>4, <1>12, <1>13, AttachKeepsColours
<1>15. Colours(s, r, N, NULL, NULL, e, NULL)
  BY <1>5, <1>14 DEF Colours, o
<1>. QED BY <1>10, <1>11, <1>15, EverySideColoured DEF o

LEMMA LinkFirst ==
  ASSUME NEW tr, NEW B, NEW vr \in Keys, Shape(tr, {}, B, vr),
         NEW e \in TREE_TASKS, vr[e] # NULL, NEW s \in Sides, NEW d,
         NEW r, r = Link(tr, NULL, s, e)
  PROVE  /\ \E C : Shape(r, {e}, C, vr)
         /\ Coloured(r, {e}, NULL, d, e, NULL)
<1> DEFINE o == Opposite(s)
           B2 == [x \in {NULL, e} |-> IF x = e THEN {e} ELSE {}]
           H2 == [x \in {NULL, e} |-> 0]
<1>0. o \in Sides /\ o # s
  BY OppositeSides
<1>1. tr \in Trees /\ Outside(tr, {}) /\ tr.red = {}
  BY DEF Shape, Outside
<1>2. e # NULL /\ NULL \in Task0 /\ {e} \in SUBSET TREE_TASKS
  BY NullIsNoTask DEF Task0
<1>3. Hung(r, tr, NULL, s, e)
  BY <1>1, <1>2, LinkEffect
<1>4. /\ r \in Trees /\ r.root = e /\ r.red = {e} /\ r.parent[e] = NULL
      /\ r.kid[s][e] = NULL /\ r.kid[o][e] = NULL
  BY <1>0, <1>1, <1>2, <1>3 DEF Hung
<1>5. Outside(r, {e})
  <2>1. ASSUME NEW x \in TREE_TASKS \ {e} PROVE r.parent[x] = NULL /\ \A z \in Sides : r.kid[z][x] = NULL
    BY <1>1, <1>3, NullIsNoTask DEF Hung, Outside
  <2>. QED BY <2>1, <1>4 DEF Outside
<1>6. B2[NULL] = {} /\ B2[e] = {e} /\ H2[NULL] = 0 /\ H2[e] = 0
  BY <1>2
<1>7. Ranked(vr, s, {e})
  BY <1>2, KeysAreRanked
<1> HIDE DEF B2, H2, o
<1>8. /\ Shaped(s, e, r.kid[s], r.kid[o], r.parent, {e}, B2, vr)
      /\ Calm(e, r.kid[s], r.kid[o], {e}, e, NULL)
      /\ Heights(r.kid[s], r.kid[o], {e}, {e}, H2, NULL, NULL)
  BY <1>2, <1>4, <1>6, <1>7, FirstShape DEF Alone
<1>9. Shape(r, {e}, B2, vr)
  BY <1>2, <1>4, <1>5, <1>8, ShapeFromSide DEF SideShaped, o
<1>10. Colours(s, r, {e}, NULL, NULL, e, NULL)
  BY <1>4, <1>8 DEF Colours, o
<1>11. Short(NULL, d, s) = NULL /\ Short(NULL, d, o) = NULL
  BY DEF Short
<1>. QED BY <1>9, <1>10, <1>11, EverySideColoured DEF o

-----------------------------------------------------------------------------
(* RB_REMOVE takes a task with at most one child out.                      *)
SideDetached(s, tr, r, M, t) ==
  Detached(tr.root, tr.kid[s], tr.kid[Opposite(s)], tr.parent,
           r.root, r.kid[s], r.kid[Opposite(s)], r.parent, M, t, tr.kid[s][t])

LEMMA UnlinkEffect ==
  ASSUME NEW tr, NEW M, NEW B, NEW vr, Shape(tr, M, B, vr), NEW t \in M,
         NEW s \in Sides, tr.kid[Opposite(s)][t] = NULL,
         NEW u, u = Unlink(tr, t)
  PROVE  /\ u \in Trees /\ u.red = tr.red
         /\ \A x \in TREE_TASKS \ M : u.parent[x] = NULL /\ \A z \in Sides : u.kid[z][x] = NULL
         /\ SideDetached(s, tr, u, M, t)
         /\ OnlyChild(tr, t) = tr.kid[s][t]
<1> DEFINE o == Opposite(s)
           c == tr.kid[s][t]
           p == tr.parent[t]
           a == SetParent(tr, c, p)
<1>0. o \in Sides /\ o # s /\ Sides = {s, o}
  BY OppositeSides
<1>1. /\ tr \in Trees /\ M \in SUBSET TREE_TASKS /\ NULL \notin M /\ Outside(tr, M)
      /\ Tied(tr.root, tr.kid[s], tr.kid[o], tr.parent, M) /\ Untangled(tr.kid[s], tr.kid[o], M)
  BY TreeFacts
<1>2. OnlyChild(tr, t) = c
  BY <1>0 DEF OnlyChild, Sides
<1>3. /\ c \in M \cup {NULL} /\ p \in M \cup {NULL} /\ t \in Task0 /\ t # NULL
      /\ c \in Task0 /\ p \in Task0 /\ c # t /\ p # t /\ (c # NULL => p # c)
      /\ (tr.root = t <=> p = NULL)
  BY <1>1 DEF Tied, Untangled, Task0
<1>4. ParentSet(a, tr, c, p)
  BY <1>1, <1>3, SetParentEffect
<1>5. u = Replace(a, p, t, c)
  BY <1>2 DEF Unlink
<1> HIDE DEF a
<1>6. Replaced(u, a, p, t, c)
  BY <1>3, <1>4, <1>5, ReplaceEffect DEF ParentSet
<1>7. /\ u \in Trees /\ u.red = tr.red
      /\ u.root = IF p = NULL THEN c ELSE tr.root
      /\ \A x \in TREE_TASKS : u.parent[x] = IF x = c THEN p ELSE tr.parent[x]
      /\ \A z \in Sides : \A x \in TREE_TASKS :
           u.kid[z][x] = IF x = p /\ z = SideOf(tr, p, t) THEN c ELSE tr.kid[z][x]
  BY <1>4, <1>6 DEF ParentSet, Replaced, SideOf
<1> HIDE DEF p, c
<1>8. ASSUME NEW z \in Sides, NEW x \in M
      PROVE  tr.kid[z][x] = t <=> x = p /\ z = SideOf(tr, p, t)
  <2>1. tr.kid[s][x] = t \/ tr.kid[o][x] = t => x = p
    BY <1>1, <1>3 DEF Tied, p
  <2>2. x = p => tr.kid[s][x] = t \/ tr.kid[o][x] = t
    BY <1>1 DEF Tied, p
  <2>3. tr.kid[s][x] = tr.kid[o][x] => tr.kid[s][x] = NULL
    BY <1>1 DEF Untangled
  <2>. QED BY <2>1, <2>2, <2>3, <1>0, <1>3 DEF SideOf, Sides
<1>9. ASSUME NEW x \in TREE_TASKS \ M
      PROVE  u.parent[x] = NULL /\ \A z \in Sides : u.kid[z][x] = NULL
  <2>1. x # c /\ x # p
    BY <1>3, NullIsNoTask
  <2>. QED BY <2>1, <1>1, <1>7 DEF Outside
<1>10. SideDetached(s, tr, u, M, t)
  <2>1. u.root = IF tr.root = t THEN c ELSE tr.root
    BY <1>3, <1>7
  <2>2. \A x \in M \ {t} : /\ u.kid[s][x] = IF tr.kid[s][x] = t THEN c ELSE tr.kid[s][x]
                           /\ u.kid[o][x] = IF tr.kid[o][x] = t THEN c ELSE tr.kid[o][x]
    BY <1>0, <1>1, <1>7, <1>8
  <2>3. c # NULL => u.parent[c] = p
    BY <1>1, <1>3, <1>7
  <2>4. \A x \in M \ {t} : x # c => u.parent[x] = tr.parent[x]
    BY <1>1, <1>7
  <2>. QED BY <2>1, <2>2, <2>3, <2>4 DEF SideDetached, Detached, o, p, c
<1>. QED BY <1>2, <1>7, <1>9, <1>10 DEF c

(* The colours where the place of t, at the side d of its parent, is left. *)
Gone(tr, t) == IF t \in tr.red THEN NULL ELSE tr.parent[t]
Left(tr, t, s) == IF t \in tr.red THEN NULL ELSE tr.kid[s][t]

LEMMA DetachTree ==
  ASSUME NEW tr, NEW M, NEW B, NEW vr, Shape(tr, M, B, vr), NEW t \in M,
         NEW s \in Sides, tr.kid[Opposite(s)][t] = NULL,
         NEW d \in Sides, tr.parent[t] # NULL => tr.kid[d][tr.parent[t]] = t,
         NEW c, Coloured(tr, M, NULL, c, NULL, NULL),
         NEW r, SideDetached(s, tr, r, M, t), NEW C, Without(B, C, M, t)
  PROVE  /\ Shaped(s, r.root, r.kid[s], r.kid[Opposite(s)], r.parent, M \ {t}, C, vr)
         /\ Trimmed(tr.kid[s], tr.kid[Opposite(s)], r.kid[s], r.kid[Opposite(s)], B, C, M, t)
         /\ Calm(r.root, r.kid[s], r.kid[Opposite(s)], tr.red \ {t}, Left(tr, t, s), NULL)
         /\ \E H : Heights(r.kid[s], r.kid[Opposite(s)], tr.red \ {t}, M \ {t}, H,
                           Short(Gone(tr, t), d, s), Short(Gone(tr, t), d, Opposite(s)))
<1> DEFINE o == Opposite(s)
           f == tr.kid[s]
           g == tr.kid[o]
           fa == Short(Gone(tr, t), d, s)
           ga == Short(Gone(tr, t), d, o)
<1>0. o \in Sides /\ o # s
  BY OppositeSides
<1>1. /\ NULL \notin M /\ tr.red \in SUBSET M
      /\ Shaped(s, tr.root, f, g, tr.parent, M, B, vr)
  BY TreeFacts
<1>2. Detached(tr.root, f, g, tr.parent, r.root, r.kid[s], r.kid[o], r.parent, M, t, f[t])
  BY DEF SideDetached
<1>3. g[t] = NULL
  OBVIOUS
<1>4. Short(NULL, c, s) = NULL /\ Short(NULL, c, o) = NULL
  BY DEF Short
<1>5. PICK H : Heights(f, g, tr.red, M, H, NULL, NULL) /\ Calm(tr.root, f, g, tr.red, NULL, NULL)
  BY <1>4, EverySideColoured DEF Colours
<1>6. LeftShort(f, g, M, t, tr.red, fa, ga)
  <2>1. \A x \in M : /\ f[x] = t <=> x = Short(tr.parent[t], d, s)
                     /\ g[x] = t <=> x = Short(tr.parent[t], d, o)
    BY <1>0, Place
  <2>. QED BY <2>1, <1>1 DEF Gone, Short, LeftShort
<1>7. Leaving(s, tr.root, f, g, tr.parent, r.root, r.kid[s], r.kid[o], r.parent, M, B, vr, t)
  BY <1>1, <1>2, <1>3 DEF Leaving
<1>8. Left(tr, t, s) = IF t \in tr.red THEN NULL ELSE f[t]
  BY DEF Left
<1> HIDE DEF f, g, fa, ga, o
<1>9. /\ Shaped(s, r.root, r.kid[s], r.kid[o], r.parent, M \ {t}, C, vr)
      /\ Trimmed(f, g, r.kid[s], r.kid[o], B, C, M, t)
  BY <1>7, DetachKeepsShape
<1>10. /\ Calm(r.root, r.kid[s], r.kid[o], tr.red \ {t}, Left(tr, t, s), NULL)
       /\ Heights(r.kid[s], r.kid[o], tr.red \ {t}, M \ {t}, H, fa, ga)
  BY <1>1, <1>5, <1>6, <1>7, <1>8, DetachKeepsColours
<1>. QED BY <1>9, <1>10 DEF f, g, o, fa, ga

LEMMA FreedStaysDetached ==
  ASSUME NEW tr, NEW u, NEW r, NEW M \in SUBSET TREE_TASKS, NEW t \in M, NEW s \in Sides,
         tr.kid[s][t] \in M \cup {NULL}, tr.kid[s][t] # t,
         SideDetached(s, tr, u, M, t), Freed(r, u, t)
  PROVE  SideDetached(s, tr, r, M, t)
<1>0. Opposite(s) \in Sides
  BY OppositeSides
<1>1. /\ r.root = u.root
      /\ \A x \in M \ {t} : /\ r.kid[s][x] = u.kid[s][x]
                            /\ r.kid[Opposite(s)][x] = u.kid[Opposite(s)][x]
                            /\ r.parent[x] = u.parent[x]
  BY <1>0 DEF Freed
<1>2. tr.kid[s][t] # NULL => r.parent[tr.kid[s][t]] = u.parent[tr.kid[s][t]]
  BY <1>1
<1>. QED BY <1>1, <1>2 DEF SideDetached, Detached

UnlinkSite(tr, M, t, s, d, c) ==
  /\ t \in M /\ s \in Sides /\ tr.kid[Opposite(s)][t] = NULL
  /\ d \in Sides /\ (tr.parent[t] # NULL => tr.kid[d][tr.parent[t]] = t)
  /\ Coloured(tr, M, NULL, c, NULL, NULL)

UnlinkDone(tr, r, M, t, s, d) ==
  /\ Coloured(r, M \ {t}, Gone(tr, t), d, Left(tr, t, s), NULL)
  /\ tr.parent[t] = NULL => r.root = tr.kid[s][t]
  /\ tr.parent[t] # NULL => /\ tr.parent[t] \in M \ {t}
                            /\ r.kid[d][tr.parent[t]] = tr.kid[s][t]

LEMMA UnlinkTree ==
  ASSUME NEW tr, NEW M, NEW B, NEW vr, Shape(tr, M, B, vr),
         NEW t, NEW s, NEW d, NEW c, UnlinkSite(tr, M, t, s, d, c),
         NEW r, r = Unlinked(Unlink(tr, t), t)
  PROVE  (\E C : Shape(r, M \ {t}, C, vr)) /\ UnlinkDone(tr, r, M, t, s, d)
<1> SUFFICES ASSUME t \in M, s \in Sides, tr.kid[Opposite(s)][t] = NULL,
                    d \in Sides, tr.parent[t] # NULL => tr.kid[d][tr.parent[t]] = t,
                    Coloured(tr, M, NULL, c, NULL, NULL)
             PROVE  /\ \E C : Shape(r, M \ {t}, C, vr)
                    /\ Coloured(r, M \ {t}, Gone(tr, t), d, Left(tr, t, s), NULL)
                    /\ tr.parent[t] = NULL => r.root = tr.kid[s][t]
                    /\ tr.parent[t] # NULL => /\ tr.parent[t] \in M \ {t}
                                              /\ r.kid[d][tr.parent[t]] = tr.kid[s][t]
  BY DEF UnlinkSite, UnlinkDone
<1> DEFINE o == Opposite(s)
           p == tr.parent[t]
           k == tr.kid[s][t]
<1>0. o \in Sides /\ o # s /\ Sides = {s, o} /\ Opposite(o) = s
  BY OppositeSides
<1>1. /\ tr \in Trees /\ M \in SUBSET TREE_TASKS /\ NULL \notin M /\ Outside(tr, M)
      /\ tr.red \in SUBSET M
      /\ Tied(tr.root, tr.kid[s], tr.kid[o], tr.parent, M)
      /\ Untangled(tr.kid[s], tr.kid[o], M)
  BY TreeFacts
<1>1a. \A x \in M : B[x] \subseteq M
  BY TreeFacts DEF Nested
<1>2. PICK u : u = Unlink(tr, t)
  OBVIOUS
<1>3. /\ u \in Trees /\ u.red = tr.red
      /\ \A x \in TREE_TASKS \ M : u.parent[x] = NULL /\ \A z \in Sides : u.kid[z][x] = NULL
      /\ SideDetached(s, tr, u, M, t)
  BY <1>2, UnlinkEffect
<1>4. Freed(r, u, t)
  BY <1>1, <1>2, <1>3, UnlinkedEffect
<1>5. k \in M \cup {NULL} /\ k # t /\ p \in M \cup {NULL} /\ p # t
  BY <1>1 DEF Tied, Untangled
<1>6. SideDetached(s, tr, r, M, t)
  BY <1>1, <1>3, <1>4, <1>5, FreedStaysDetached
<1>7. r \in Trees /\ r.red = tr.red \ {t}
  BY <1>3, <1>4 DEF Freed
<1>8. Outside(r, M \ {t})
  <2>1. ASSUME NEW x \in TREE_TASKS \ (M \ {t})
        PROVE  r.parent[x] = NULL /\ \A z \in Sides : r.kid[z][x] = NULL
    BY <1>3, <1>4 DEF Freed
  <2>. QED BY <2>1, <1>1, <1>7 DEF Outside
<1> DEFINE C == [x \in M \cup {NULL} |-> IF x = NULL THEN {} ELSE B[x] \ {t}]
<1>9. Without(B, C, M, t)
  BY <1>1 DEF Without
<1> HIDE DEF C
<1>10. /\ Shaped(s, r.root, r.kid[s], r.kid[o], r.parent, M \ {t}, C, vr)
       /\ Calm(r.root, r.kid[s], r.kid[o], r.red, Left(tr, t, s), NULL)
       /\ \E H : Heights(r.kid[s], r.kid[o], r.red, M \ {t}, H,
                         Short(Gone(tr, t), d, s), Short(Gone(tr, t), d, o))
  <2>1. /\ Shaped(s, r.root, r.kid[s], r.kid[o], r.parent, M \ {t}, C, vr)
        /\ Trimmed(tr.kid[s], tr.kid[o], r.kid[s], r.kid[o], B, C, M, t)
        /\ Calm(r.root, r.kid[s], r.kid[o], tr.red \ {t}, Left(tr, t, s), NULL)
        /\ \E H : Heights(r.kid[s], r.kid[o], tr.red \ {t}, M \ {t}, H,
                          Short(Gone(tr, t), d, s), Short(Gone(tr, t), d, o))
    BY <1>6, <1>9, DetachTree
  <2>. QED BY <2>1, <1>7
<1>11. Shape(r, M \ {t}, C, vr)
  BY <1>1, <1>7, <1>8, <1>10, ShapeFromSide DEF SideShaped
<1>12. Coloured(r, M \ {t}, Gone(tr, t), d, Left(tr, t, s), NULL)
  <2>1. Colours(s, r, M \ {t}, Short(Gone(tr, t), d, s), Short(Gone(tr, t), d, o),
                Left(tr, t, s), NULL)
    BY <1>10 DEF Colours
  <2>. QED BY <2>1, EverySideColoured
<1>13. /\ r.root = IF tr.root = t THEN k ELSE tr.root
       /\ \A x \in M \ {t} : /\ r.kid[s][x] = IF tr.kid[s][x] = t THEN k ELSE tr.kid[s][x]
                             /\ r.kid[o][x] = IF tr.kid[o][x] = t THEN k ELSE tr.kid[o][x]
  BY <1>6 DEF SideDetached, Detached
<1>14. p = NULL => r.root = k
  BY <1>1, <1>13 DEF Tied
<1>15. p # NULL => p \in M \ {t} /\ r.kid[d][p] = k
  BY <1>0, <1>5, <1>13
<1>. QED BY <1>11, <1>12, <1>14, <1>15

-----------------------------------------------------------------------------
(* A task with two children is replaced by its successor.                  *)
Inherited(v, u, t, h) ==
  LET p == u.parent[t] IN
  /\ v \in Trees
  /\ v.red = IF t \in u.red THEN u.red \cup {h} ELSE u.red \ {h}
  /\ v.root = IF p = NULL THEN h ELSE u.root
  /\ \A x \in TREE_TASKS :
       v.parent[x] = IF x = u.kid["left"][t] \/ x = u.kid["right"][t] THEN h
                     ELSE IF x = h THEN p ELSE u.parent[x]
  /\ \A z \in Sides : \A x \in TREE_TASKS :
       v.kid[z][x] = IF x = p /\ z = SideOf(u, p, t) THEN h
                     ELSE IF x = h THEN u.kid[z][t] ELSE u.kid[z][x]

LEMMA InheritEffect ==
  ASSUME NEW u \in Trees, NEW t \in TREE_TASKS, NEW h \in TREE_TASKS, u.parent[t] # h
  PROVE  Inherited(Inherit(u, t, h), u, t, h)
<1> DEFINE p == u.parent[t]
           l == u.kid["left"][t]
           r == u.kid["right"][t]
           red == IF t \in u.red THEN u.red \cup {h} ELSE u.red \ {h}
           a == [u EXCEPT !.kid["left"][h] = l, !.kid["right"][h] = r, !.parent[h] = p,
                          !.red = red]
           b1 == SetParent(a, l, h)
           b == SetParent(b1, r, h)
           v == Replace(b, p, t, h)
<1>1. p \in Task0 /\ l \in Task0 /\ r \in Task0 /\ t \in Task0 /\ h \in Task0
  BY DEF Trees, Task0, Sides
<1>2. /\ a \in Trees /\ a.red = red /\ a.root = u.root
      /\ a.kid["left"][h] = l /\ a.kid["right"][h] = r
      /\ \A x \in TREE_TASKS : a.parent[x] = IF x = h THEN p ELSE u.parent[x]
      /\ \A z \in Sides : \A x \in TREE_TASKS :
           a.kid[z][x] = IF x = h THEN u.kid[z][t] ELSE u.kid[z][x]
  <2>1. red \in SUBSET TREE_TASKS
    BY DEF Trees
  <2> HIDE DEF p, red
  <2>2. a \in Trees /\ a.red = red /\ a.root = u.root
    BY <1>1, <2>1 DEF Trees, Task0, Sides
  <2>3. /\ a.kid["left"][h] = l /\ a.kid["right"][h] = r
        /\ \A x \in TREE_TASKS : a.parent[x] = IF x = h THEN p ELSE u.parent[x]
        /\ \A x \in TREE_TASKS : a.kid["left"][x] = IF x = h THEN l ELSE u.kid["left"][x]
        /\ \A x \in TREE_TASKS : a.kid["right"][x] = IF x = h THEN r ELSE u.kid["right"][x]
    BY <1>1, <2>1 DEF Trees, Task0, Sides
  <2>. QED BY <2>2, <2>3 DEF Sides
<1>3. Inherit(u, t, h) = v
  <2>1. a = [u EXCEPT !.kid["left"][h] = u.kid["left"][t], !.kid["right"][h] = u.kid["right"][t],
                      !.parent[h] = u.parent[t],
                      !.red = IF t \in @ THEN @ \cup {h} ELSE @ \ {h}]
    OBVIOUS
  <2>. QED BY <2>1, <1>2 DEF Inherit
<1> HIDE DEF a, p, l, r, red
<1>4. ParentSet(b1, a, l, h)
  BY <1>1, <1>2, SetParentEffect
<1>5. b1 \in Trees
  BY <1>4 DEF ParentSet
<1> HIDE DEF b1
<1>6. ParentSet(b, b1, r, h)
  BY <1>1, <1>5, SetParentEffect
<1>7. b \in Trees
  BY <1>6 DEF ParentSet
<1> HIDE DEF b
<1>8. Replaced(v, b, p, t, h)
  BY <1>1, <1>7, ReplaceEffect
<1> HIDE DEF v
<1>9. b.red = red /\ b.root = u.root /\ b.kid = a.kid
  BY <1>2, <1>4, <1>6 DEF ParentSet
<1>10. \A x \in TREE_TASKS :
         v.parent[x] = IF x = l \/ x = r THEN h ELSE IF x = h THEN p ELSE u.parent[x]
  BY <1>2, <1>4, <1>6, <1>8 DEF ParentSet, Replaced
<1>11. ASSUME NEW z \in Sides, NEW x \in TREE_TASKS
       PROVE  v.kid[z][x] = IF x = p /\ z = SideOf(u, p, t) THEN h
                            ELSE IF x = h THEN u.kid[z][t] ELSE u.kid[z][x]
  <2>1. v.kid[z][x] = IF x = p /\ z = SideOf(b, p, t) THEN h ELSE a.kid[z][x]
    BY <1>8, <1>9 DEF Replaced
  <2>2. x = p => SideOf(b, p, t) = SideOf(u, p, t)
    BY <1>2, <1>9 DEF SideOf, Sides, p
  <2>. QED BY <2>1, <2>2, <1>2
<1>12. v \in Trees /\ v.red = red /\ (v.root = IF p = NULL THEN h ELSE u.root)
  BY <1>8, <1>9 DEF Replaced
<1>. QED BY <1>3, <1>10, <1>11, <1>12 DEF Inherited, p, l, r, red

LEMMA InheritRenames ==
  ASSUME NEW u \in Trees, NEW N \in SUBSET TREE_TASKS, NULL \notin N,
         NEW t \in N, NEW h \in TREE_TASKS \ N, NEW s \in Sides,
         Tied(u.root, u.kid[s], u.kid[Opposite(s)], u.parent, N),
         Untangled(u.kid[s], u.kid[Opposite(s)], N), u.red \subseteq N \cup {h},
         \A x \in TREE_TASKS \ (N \cup {h}) :
           u.parent[x] = NULL /\ \A z \in Sides : u.kid[z][x] = NULL,
         NEW r, r = Unlinked(Inherit(u, t, h), t)
  PROVE  /\ r \in Trees /\ r.red = {Named(x, t, h) : x \in u.red \ {h}}
         /\ Outside(r, (N \ {t}) \cup {h})
         /\ Renamed(u.root, u.kid[s], u.kid[Opposite(s)], u.parent,
                    r.root, r.kid[s], r.kid[Opposite(s)], r.parent, N, t, h)
<1> DEFINE o == Opposite(s)
           p == u.parent[t]
           v == Inherit(u, t, h)
           f == u.kid[s]
           g == u.kid[o]
<1>0. o \in Sides /\ o # s /\ Sides = {s, o}
  BY OppositeSides
<1>1. /\ p \in N \cup {NULL} /\ p # t /\ p # h /\ h # NULL /\ t # h
      /\ f[t] \in N \cup {NULL} /\ g[t] \in N \cup {NULL}
      /\ f[t] # t /\ g[t] # t /\ f[t] # h /\ g[t] # h
      /\ (u.root = t <=> p = NULL)
  BY NullIsNoTask DEF Tied, Untangled
<1>2. Inherited(v, u, t, h)
  BY <1>1, InheritEffect
<1>3. \A x : x = u.kid["left"][t] \/ x = u.kid["right"][t] <=> x = f[t] \/ x = g[t]
  BY <1>0 DEF Sides
<1> HIDE DEF v
<1>4. /\ v \in Trees
      /\ v.red = IF t \in u.red THEN u.red \cup {h} ELSE u.red \ {h}
      /\ v.root = IF p = NULL THEN h ELSE u.root
      /\ \A x \in TREE_TASKS :
           v.parent[x] = IF x = f[t] \/ x = g[t] THEN h ELSE IF x = h THEN p ELSE u.parent[x]
      /\ \A z \in Sides : \A x \in TREE_TASKS :
           v.kid[z][x] = IF x = p /\ z = SideOf(u, p, t) THEN h
                         ELSE IF x = h THEN u.kid[z][t] ELSE u.kid[z][x]
  BY <1>2, <1>3 DEF Inherited
<1>5. Freed(r, v, t)
  BY <1>4, UnlinkedEffect DEF v
<1>6. r \in Trees /\ r.red = {Named(x, t, h) : x \in u.red \ {h}}
  <2>1. r \in Trees /\ r.red = v.red \ {t}
    BY <1>5 DEF Freed
  <2>2. r.red = IF t \in u.red THEN (u.red \ {h, t}) \cup {h} ELSE u.red \ {h}
    BY <2>1, <1>1, <1>4
  <2>. QED BY <2>1, <2>2, <1>1 DEF Named
<1>7. Outside(r, (N \ {t}) \cup {h})
  <2>1. ASSUME NEW x \in TREE_TASKS \ ((N \ {t}) \cup {h})
        PROVE  r.parent[x] = NULL /\ \A z \in Sides : r.kid[z][x] = NULL
    <3>1. CASE x = t
      BY <3>1, <1>5 DEF Freed
    <3>2. CASE x # t
      <4>1. x \notin N /\ x # h /\ x # NULL
        BY <3>2, NullIsNoTask
      <4>2. x # p /\ x # f[t] /\ x # g[t]
        BY <4>1, <1>1
      <4>. QED BY <3>2, <4>1, <4>2, <1>4, <1>5 DEF Freed
    <3>. QED BY <3>1, <3>2
  <2>2. r.red \subseteq (N \ {t}) \cup {h}
    BY <1>6 DEF Named
  <2>. QED BY <2>1, <2>2 DEF Outside
<1>8. ASSUME NEW z \in Sides, NEW x \in N
      PROVE  u.kid[z][x] = t <=> x = p /\ z = SideOf(u, p, t)
  <2>1. u.kid[s][x] = t \/ u.kid[o][x] = t => x = p
    BY <1>1 DEF Tied
  <2>2. x = p => u.kid[s][x] = t \/ u.kid[o][x] = t
    BY <1>1 DEF Tied
  <2>3. u.kid[s][x] = u.kid[o][x] => u.kid[s][x] = NULL
    BY DEF Untangled
  <2>. QED BY <2>1, <2>2, <2>3, <1>0, <1>1 DEF SideOf, Sides
<1>9. ASSUME NEW z \in Sides, NEW x \in N \ {t}
      PROVE  r.kid[z][x] = Named(u.kid[z][x], t, h)
  <2>1. r.kid[z][x] = v.kid[z][x] /\ x # h
    BY <1>5 DEF Freed
  <2>. QED BY <2>1, <1>4, <1>8 DEF Named
<1>10. ASSUME NEW x \in N \ {t} PROVE r.parent[x] = Named(u.parent[x], t, h)
  <2>1. r.parent[x] = v.parent[x] /\ x # h
    BY <1>5 DEF Freed
  <2>2. u.parent[x] = t <=> x = f[t] \/ x = g[t]
    BY <1>1 DEF Tied
  <2>. QED BY <2>1, <2>2, <1>4 DEF Named
<1>11. /\ r.kid[s][h] = f[t] /\ r.kid[o][h] = g[t] /\ r.parent[h] = p
  BY <1>0, <1>1, <1>4, <1>5 DEF Freed
<1>12. r.root = Named(u.root, t, h)
  BY <1>1, <1>4, <1>5 DEF Freed, Named
<1>. QED BY <1>0, <1>6, <1>7, <1>9, <1>10, <1>11, <1>12 DEF Renamed

(* h is the task next to t on the side s.                                  *)
Nearest(s, tr, B, vr, t, h) ==
  /\ h \in B[tr.kid[s][t]]
  /\ \A u \in B[tr.kid[s][t]] : u = h \/ OnSide(vr, s, u, h)

LEMMA NearestIsHeir ==
  ASSUME NEW s, NEW f, NEW g, NEW R, NEW P, NEW M, NEW B, NEW vr,
         Shaped(s, R, f, g, P, M, B, vr), NEW t \in M, NEW h \in B[f[t]],
         \A u \in B[f[t]] : u = h \/ OnSide(vr, s, u, h),
         NEW f2, NEW g2, NEW C, Trimmed(f, g, f2, g2, B, C, M, h)
  PROVE  Heir(f2, g2, M \ {h}, C, vr, s, t, h) /\ h \in M /\ t # h
<1>1. /\ Tied(R, f, g, P, M) /\ Nested(R, f, g, P, M, B) /\ Sorted(f, g, M, B, vr, s)
      /\ Ranked(vr, s, M) /\ Cut(f, g, M, B)
  BY ShapedIsCut DEF Shaped
<1>2. /\ h \in M /\ h \in B[t] /\ t # h /\ t \in B[t] /\ OnSide(vr, s, h, t)
      /\ \A x \in M : B[f[x]] \subseteq M /\ B[g[x]] \subseteq M
  BY <1>1 DEF Nested, Sorted, Cut
<1>3. \A x \in M \ {h} : \A u : /\ u \in C[f2[x]] <=> (u \in B[f[x]] /\ u # h)
                                /\ u \in C[g2[x]] <=> (u \in B[g[x]] /\ u # h)
  BY DEF Trimmed
<1>4. ASSUME NEW y \in M \cup {NULL}, t \in B[y] PROVE h \in B[y]
  <2>1. y \in M
    BY <1>1, <1>4 DEF Nested
  <2>. QED BY <2>1, <1>1, <1>2, <1>4 DEF Nested
<1>5. ASSUME NEW x \in (M \ {h}) \ {t}
      PROVE  /\ t \in C[f2[x]] => OnSide(vr, s, h, x)
             /\ t \in C[g2[x]] => OnSide(vr, s, x, h)
  <2>1. f[x] \in M \cup {NULL} /\ g[x] \in M \cup {NULL}
    BY <1>1 DEF Tied
  <2>2. t \in C[f2[x]] => h \in B[f[x]]
    BY <2>1, <1>3, <1>4
  <2>3. t \in C[g2[x]] => h \in B[g[x]]
    BY <2>1, <1>3, <1>4
  <2>. QED BY <2>2, <2>3, <1>1 DEF Sorted
<1>6. ASSUME NEW u \in C[f2[t]] PROVE OnSide(vr, s, u, h)
  BY <1>2, <1>3, <1>6
<1>7. ASSUME NEW u \in C[g2[t]] PROVE OnSide(vr, s, h, u)
  <2>1. u \in B[g[t]] /\ u \in M
    BY <1>2, <1>3, <1>7
  <2>2. OnSide(vr, s, t, u)
    BY <2>1, <1>1 DEF Sorted
  <2>. QED BY <2>1, <2>2, <1>1, <1>2 DEF Ranked
<1>. QED BY <1>2, <1>5, <1>6, <1>7 DEF Heir

HeirSite(tr, M, B, vr, t, h, s, d, c, q) ==
  /\ t \in M /\ s \in Sides /\ Nearest(s, tr, B, vr, t, h) /\ tr.kid[Opposite(s)][h] = NULL
  /\ d \in Sides /\ tr.kid[d][tr.parent[h]] = h
  /\ Coloured(tr, M, NULL, c, NULL, NULL)
  /\ q = Named(tr.parent[h], t, h)

HeirDone(tr, r, M, t, h, s, d, q) ==
  /\ Coloured(r, M \ {t}, IF h \in tr.red THEN NULL ELSE q, d, Left(tr, h, s), NULL)
  /\ h \in M /\ q \in M \ {t} /\ r.kid[d][q] = tr.kid[s][h]

LEMMA SuccessorTree ==
  ASSUME NEW tr, NEW M, NEW B, NEW vr, Shape(tr, M, B, vr),
         NEW t, NEW h, NEW s, NEW d, NEW c, NEW q, HeirSite(tr, M, B, vr, t, h, s, d, c, q),
         NEW r, r = Unlinked(Inherit(Unlink(tr, h), t, h), t)
  PROVE  (\E C : Shape(r, M \ {t}, C, vr)) /\ HeirDone(tr, r, M, t, h, s, d, q)
<1> SUFFICES ASSUME t \in M, s \in Sides, Nearest(s, tr, B, vr, t, h),
                    tr.kid[Opposite(s)][h] = NULL,
                    d \in Sides, tr.kid[d][tr.parent[h]] = h,
                    Coloured(tr, M, NULL, c, NULL, NULL), q = Named(tr.parent[h], t, h)
             PROVE  /\ \E C : Shape(r, M \ {t}, C, vr)
                    /\ Coloured(r, M \ {t}, IF h \in tr.red THEN NULL ELSE q, d, Left(tr, h, s), NULL)
                    /\ h \in M /\ q \in M \ {t} /\ r.kid[d][q] = tr.kid[s][h]
  BY DEF HeirSite, HeirDone
<1> DEFINE o == Opposite(s)
           f == tr.kid[s]
           g == tr.kid[o]
           p == tr.parent[h]
           N == M \ {h}
           C == [x \in M \cup {NULL} |-> IF x = NULL THEN {} ELSE B[x] \ {h}]
<1>0. o \in Sides /\ o # s /\ Opposite(o) = s /\ Sides = {s, o}
  BY OppositeSides
<1>1. /\ tr \in Trees /\ M \in SUBSET TREE_TASKS /\ NULL \notin M /\ Outside(tr, M)
      /\ tr.red \in SUBSET M /\ Shaped(s, tr.root, f, g, tr.parent, M, B, vr)
      /\ Tied(tr.root, f, g, tr.parent, M) /\ Nested(tr.root, f, g, tr.parent, M, B)
      /\ Cut(f, g, M, B) /\ Untangled(f, g, M) /\ Ranked(vr, s, M)
  BY TreeFacts
<1>2. h \in B[f[t]] /\ \A x \in B[f[t]] : x = h \/ OnSide(vr, s, x, h)
  BY DEF Nearest
<1>3. h \in M /\ h # t /\ f[t] \in M
  BY <1>1, <1>2 DEF Tied, Nested, Cut
<1>4. /\ p \in M \ {h} /\ f[h] \in (M \cup {NULL}) \ {h, t}
  <2>1. p \in M
    <3>1. p # NULL
      <4>1. h # tr.root
        BY <1>1, <1>2, <1>3 DEF Nested, Cut
      <4>. QED BY <4>1, <1>1, <1>3 DEF Tied
    <3>. QED BY <3>1, <1>1, <1>3 DEF Tied
  <2>2. p # h /\ f[h] # h /\ f[h] \in M \cup {NULL}
    BY <2>1, <1>1, <1>3 DEF Tied, Untangled
  <2>3. f[h] # t
    <3>1. B[f[h]] \subseteq B[h] /\ B[h] \subseteq B[f[t]]
      BY <1>1, <1>2, <1>3 DEF Nested
    <3>. QED BY <3>1, <1>1 DEF Cut
  <2>. QED BY <2>1, <2>2, <2>3
<1>5. PICK u : u = Unlink(tr, h)
  OBVIOUS
<1>6. /\ u \in Trees /\ u.red = tr.red
      /\ \A x \in TREE_TASKS \ M : u.parent[x] = NULL /\ \A z \in Sides : u.kid[z][x] = NULL
      /\ SideDetached(s, tr, u, M, h)
  BY <1>3, <1>5, UnlinkEffect
<1>7. Without(B, C, M, h)
  BY <1>1 DEF Without
<1> HIDE DEF C
<1> DEFINE fa == Short(Gone(tr, h), d, s)
           ga == Short(Gone(tr, h), d, o)
           n == Left(tr, h, s)
<1>8. /\ Shaped(s, u.root, u.kid[s], u.kid[o], u.parent, N, C, vr)
      /\ Trimmed(f, g, u.kid[s], u.kid[o], B, C, M, h)
      /\ Calm(u.root, u.kid[s], u.kid[o], tr.red \ {h}, n, NULL)
      /\ \E H : Heights(u.kid[s], u.kid[o], tr.red \ {h}, N, H, fa, ga)
  BY <1>3, <1>6, <1>7, DetachTree
<1>9. PICK H : Heights(u.kid[s], u.kid[o], tr.red \ {h}, N, H, fa, ga)
  BY <1>8
<1>10. /\ N \in SUBSET TREE_TASKS /\ NULL \notin N /\ t \in N /\ h \in TREE_TASKS \ N
       /\ Tied(u.root, u.kid[s], u.kid[o], u.parent, N)
       /\ Untangled(u.kid[s], u.kid[o], N)
  BY <1>1, <1>3, <1>8, ShapedIsApart DEF Shaped
<1>11. /\ r \in Trees /\ r.red = {Named(x, t, h) : x \in u.red \ {h}}
       /\ Outside(r, (N \ {t}) \cup {h})
       /\ Renamed(u.root, u.kid[s], u.kid[o], u.parent,
                  r.root, r.kid[s], r.kid[o], r.parent, N, t, h)
  <2>1. u.red \subseteq N \cup {h}
    BY <1>1, <1>6
  <2>2. TREE_TASKS \ (N \cup {h}) = TREE_TASKS \ M
    BY <1>3
  <2>3. r = Unlinked(Inherit(u, t, h), t)
    BY <1>5
  <2> HIDE DEF N, o
  <2>4. \A x \in TREE_TASKS \ (N \cup {h}) :
          u.parent[x] = NULL /\ \A z \in Sides : u.kid[z][x] = NULL
    BY <2>2, <1>6
  <2>. QED BY <2>1, <2>3, <2>4, <1>6, <1>10, InheritRenames DEF o
<1>12. Heir(u.kid[s], u.kid[o], N, C, vr, s, t, h)
  BY <1>1, <1>2, <1>8, NearestIsHeir
<1>13. Renaming(s, u.root, u.kid[s], u.kid[o], u.parent,
                r.root, r.kid[s], r.kid[o], r.parent, N, C, vr, t, h)
  BY <1>1, <1>3, <1>8, <1>10, <1>11 DEF Renaming
<1>14. N \cup {h} = M /\ (N \ {t}) \cup {h} = M \ {t}
  BY <1>3
<1> DEFINE D == [y \in TREE_TASKS \cup {NULL} |->
                   IF y = NULL THEN {}
                   ELSE IF y = h THEN (C[t] \ {t}) \cup (IF t \in C[t] THEN {h} ELSE {})
                   ELSE (C[y] \ {t}) \cup (IF t \in C[y] THEN {h} ELSE {})]
           H2 == [y \in M \cup {NULL} |-> IF y = h THEN H[t] ELSE H[y]]
<1>15. Exchanged(C, D, N, t, h)
  <2>1. D[NULL] = {}
    OBVIOUS
  <2>2. ASSUME NEW x \in N, NEW z
        PROVE  z \in D[Named(x, t, h)] <=> (z \in C[x] /\ z # t) \/ (z = h /\ t \in C[x])
    BY <1>1, <1>3 DEF Named
  <2>. QED BY <2>1, <2>2 DEF Exchanged
<1>16. NamedHeights(H, H2, N, t, h)
  BY <1>1, <1>3 DEF NamedHeights, Named
<1> HIDE DEF D, H2, N
<1>17. Shaped(s, r.root, r.kid[s], r.kid[o], r.parent, M \ {t}, D, vr)
  <2>1. Ranked(vr, s, N \cup {h})
    BY <1>1, <1>14
  <2>2. Shaped(s, r.root, r.kid[s], r.kid[o], r.parent, (N \ {t}) \cup {h}, D, vr)
    BY <2>1, <1>12, <1>13, <1>15, RenameKeepsShape
  <2>. QED BY <2>2, <1>14
<1>18. Shape(r, M \ {t}, D, vr)
  <2>1. Outside(r, M \ {t}) /\ M \ {t} \in SUBSET TREE_TASKS
    BY <1>1, <1>11, <1>14
  <2>. QED BY <2>1, <1>11, <1>17, ShapeFromSide DEF SideShaped
<1>19. fa \in N \cup {NULL} /\ ga \in N \cup {NULL} /\ n \in N \cup {NULL}
  BY <1>3, <1>4 DEF Gone, Left, Short, N
<1>20. Named(n, t, h) = n /\ t # NULL
  BY <1>1, <1>4 DEF Left, Named
<1>21. /\ Named(fa, t, h) = Short(IF h \in tr.red THEN NULL ELSE q, d, s)
       /\ Named(ga, t, h) = Short(IF h \in tr.red THEN NULL ELSE q, d, o)
  BY <1>20 DEF Gone, Named, Short
<1> HIDE DEF fa, ga, n
<1>22. /\ Calm(r.root, r.kid[s], r.kid[o], r.red, n, NULL)
       /\ Heights(r.kid[s], r.kid[o], r.red, M \ {t}, H2, Named(fa, t, h), Named(ga, t, h))
  <2>1. tr.red \ {h} \in SUBSET N /\ r.red = NamedAll(tr.red \ {h}, t, h)
    BY <1>1, <1>6, <1>11 DEF N, NamedAll
  <2>2. /\ Calm(r.root, r.kid[s], r.kid[o], r.red, Named(n, t, h), NULL)
        /\ Heights(r.kid[s], r.kid[o], r.red, (N \ {t}) \cup {h}, H2, Named(fa, t, h), Named(ga, t, h))
    <3>1. PICK red : red = tr.red \ {h}
      OBVIOUS
    <3>2. r.red = NamedAll(red, t, h)
      BY <2>1, <3>1
    <3> HIDE DEF o
    <3>2a. Tinted(u.root, u.kid[s], u.kid[o], red, N, H, n, fa, ga)
      BY <2>1, <3>1, <1>8, <1>9, <1>19 DEF Tinted, o
    <3>3. PICK rred : rred = r.red
      OBVIOUS
    <3>4. /\ Calm(r.root, r.kid[s], r.kid[o], rred, Named(n, t, h), NULL)
          /\ Heights(r.kid[s], r.kid[o], rred, (N \ {t}) \cup {h}, H2, Named(fa, t, h), Named(ga, t, h))
      BY ONLY <3>2, <3>2a, <3>3, <1>13, <1>16, RenameKeepsColours DEF o
    <3>. QED BY <3>3, <3>4
  <2>. QED BY <2>2, <1>14, <1>20
<1>23. Coloured(r, M \ {t}, IF h \in tr.red THEN NULL ELSE q, d, n, NULL)
  <2>1. Colours(s, r, M \ {t}, Short(IF h \in tr.red THEN NULL ELSE q, d, s),
                Short(IF h \in tr.red THEN NULL ELSE q, d, o), n, NULL)
    BY <1>21, <1>22 DEF Colours
  <2>. QED BY <2>1, EverySideColoured
<1>24. q \in M \ {t}
  BY <1>3, <1>4 DEF Named
<1>25. r.kid[d][q] = f[h]
  <2>1. u.kid[d][p] = f[h]
    BY <1>0, <1>3, <1>4, <1>6 DEF SideDetached, Detached
  <2>2. CASE p = t
    BY <2>1, <2>2, <1>0, <1>11 DEF Renamed, Named
  <2>3. CASE p # t
    <3>1. r.kid[d][p] = Named(u.kid[d][p], t, h)
      BY <2>3, <1>0, <1>4, <1>11 DEF Renamed, N
    <3>. QED BY <3>1, <2>1, <2>3, <1>4 DEF Named
  <2>. QED BY <2>2, <2>3
<1>. QED BY <1>3, <1>18, <1>23, <1>24, <1>25 DEF n

-----------------------------------------------------------------------------
(***************************************************************************)
(* The inductive invariant. M is the set of the tasks in the tree: a task  *)
(* that RB_INSERT was called for is not one of them until it is linked.    *)
(***************************************************************************)
Members == Queued \ (IF stage = "descend" THEN {given} ELSE {})

Whole(tr, M) == Coloured(tr, M, NULL, "left", NULL, NULL)

(* The way down has led to the place where e belongs.                      *)
Descent(tr, M, B, vr, e, n, p) ==
  /\ e \in TREE_TASKS \ M /\ vr[e] # NULL
  /\ IF p = NULL THEN n = tr.root
     ELSE /\ p \in M /\ n = tr.kid[SideFrom(vr, e, p)][p]
          /\ \A s \in Sides : \A x \in M : p \in B[tr.kid[s][x]] => OnSide(vr, s, e, x)

(* Of the tasks below t on the side s, those not below n are beyond it.    *)
Approach(tr, M, B, vr, s, t, n) ==
  /\ t \in M /\ tr.kid[s][t] # NULL /\ n \in B[tr.kid[s][t]]
  /\ \A u \in B[tr.kid[s][t]] : u \in B[n] \/ OnSide(vr, s, u, n)

(* None of the tasks below n is on the side s of t, which is one of them.  *)
Ascent(tr, M, B, vr, s, t, n) ==
  /\ t \in M /\ n \in M /\ t \in B[n]
  /\ \A u \in B[n] : u = t \/ OnSide(vr, Opposite(s), u, t)

(* Of the tasks not below n, which are between e and p, those that are not *)
(* less than e are p and the greater ones.                                 *)
Hunt(tr, M, B, vr, e, n, p) ==
  /\ n \in M \cup {NULL} /\ p \in M \cup {NULL}
  /\ p # NULL => OnSide(vr, "left", e, p) /\ \A u \in B[n] : OnSide(vr, "left", u, p)
  /\ \A u \in M : \/ u \in B[n] \/ OnSide(vr, "left", u, e)
                  \/ p # NULL /\ (u = p \/ OnSide(vr, "left", p, u))

Succession(tr, M, B, vr, t, n) ==
  Approach(tr, M, B, vr, "right", t, n) /\ tr.kid["left"][t] # NULL

(* The tasks that are not below p are beyond it.                           *)
Extremity(tr, M, B, vr, s, n, p) ==
  /\ s \in Sides
  /\ IF p = NULL THEN n = tr.root
     ELSE /\ p \in M /\ n = tr.kid[s][p]
          /\ \A u \in M : u \in B[p] \/ OnSide(vr, s, p, u)

(* n is the place that is one black task short.                            *)
Shortage(tr, M, n, p) ==
  \E d \in Sides : /\ Coloured(tr, M, p, d, n, n)
                   /\ IF p = NULL THEN n = tr.root ELSE p \in M /\ tr.kid[d][p] = n

Stages == {"idle", "descend", "insert_color", "successor", "remove_color", "minmax",
           "find", "near", "climb"}

ValsAt(st) == IF st = "find" THEN VRUNTIMES ELSE Sides \cup {NULL}

AtStage(st, tr, M, B, vr, e, n, p, v) ==
  /\ st \in Stages
  /\ st = "idle" => n = NULL /\ p = NULL
  /\ st \notin {"insert_color", "remove_color"} => Whole(tr, M)
  /\ st = "descend" => Descent(tr, M, B, vr, e, n, p)
  /\ st = "insert_color" => n \in tr.red /\ p = NULL /\ Coloured(tr, M, NULL, "left", n, NULL)
  /\ st = "successor" => Succession(tr, M, B, vr, e, n) /\ p = NULL
  /\ st = "remove_color" => Shortage(tr, M, n, p)
  /\ st = "minmax" => Extremity(tr, M, B, vr, v, n, p)
  /\ st = "find" => /\ e \in TREE_TASKS /\ vr[e] \in {v, NULL}
                    /\ Hunt(tr, M, B, [vr EXCEPT ![e] = v], e, n, p)
  /\ st = "near" => v \in Sides /\ Approach(tr, M, B, vr, v, e, n) /\ p = NULL
  /\ st = "climb" => v \in Sides /\ Ascent(tr, M, B, vr, v, e, n) /\ p = NULL

TreeInv ==
  /\ vruntime \in Keys
  /\ given \in Task0 /\ val \in ValsAt(stage)
  /\ \E B : /\ Shape(tree, Members, B, vruntime)
            /\ AtStage(stage, tree, Members, B, vruntime, given, node, above, val)

(* Only the keys of the tasks in the tree count.                           *)
LEMMA SameKeys ==
  ASSUME NEW tr, NEW M, NEW B, NEW vr, Shape(tr, M, B, vr),
         NEW vr2, \A t \in M : vr2[t] = vr[t]
  PROVE  Shape(tr, M, B, vr2)
<1> DEFINE f == tr.kid["left"]
           g == tr.kid["right"]
<1>1. /\ Tied(tr.root, f, g, tr.parent, M) /\ Nested(tr.root, f, g, tr.parent, M, B)
      /\ Sorted(f, g, M, B, vr, "left") /\ Ranked(vr, "left", M) /\ NULL \notin M
  BY TreeFacts DEF Sides, Opposite
<1>2. \A t, u \in M : OnSide(vr2, "left", t, u) <=> OnSide(vr, "left", t, u)
  BY DEF OnSide, cfs_task_cmp
<1>3. \A t \in M : B[f[t]] \subseteq M /\ B[g[t]] \subseteq M
  BY <1>1 DEF Tied, Nested
<1> HIDE DEF f, g
<1>4. Sorted(f, g, M, B, vr2, "left")
  <2>1. ASSUME NEW t \in M, NEW u \in B[f[t]] PROVE OnSide(vr2, "left", u, t)
    BY <1>1, <1>2, <1>3 DEF Sorted
  <2>2. ASSUME NEW t \in M, NEW u \in B[g[t]] PROVE OnSide(vr2, "left", t, u)
    BY <1>1, <1>2, <1>3 DEF Sorted
  <2>. QED BY <2>1, <2>2 DEF Sorted
<1>5. Ranked(vr2, "left", M)
  <2>1. \A t \in M : ~ OnSide(vr2, "left", t, t)
    BY <1>1, <1>2 DEF Ranked
  <2>2. \A t, u \in M : /\ t = u \/ OnSide(vr2, "left", t, u) \/ OnSide(vr2, "left", u, t)
                        /\ ~ (OnSide(vr2, "left", t, u) /\ OnSide(vr2, "left", u, t))
    BY <1>1, <1>2 DEF Ranked
  <2>3. \A t, u, w \in M :
          OnSide(vr2, "left", t, u) /\ OnSide(vr2, "left", u, w) => OnSide(vr2, "left", t, w)
    BY <1>1, <1>2 DEF Ranked
  <2>. QED BY <2>1, <2>2, <2>3 DEF Ranked
<1>6. Shaped("left", tr.root, f, g, tr.parent, M, B, vr2)
  BY <1>1, <1>4, <1>5 DEF Shaped
<1>. QED BY <1>6 DEF Shape, SideShaped, Opposite, f, g

(* What holds with no exception holds with any.                            *)
LEMMA CalmWeaken ==
  ASSUME NEW R, NEW f, NEW g, NEW red, NULL \notin red, Calm(R, f, g, red, NULL, NULL),
         NEW n, NEW k
  PROVE  Calm(R, f, g, red, n, k)
BY DEF Calm

LEMMA WeakColours ==
  ASSUME NEW tr, NEW M, NULL \notin tr.red, NEW a, NEW d, NEW n, NEW k,
         Coloured(tr, M, a, d, NULL, NULL)
  PROVE  Coloured(tr, M, a, d, n, k)
BY CalmWeaken DEF Coloured, Colours

LEMMA WeakExtra ==
  ASSUME NEW tr, NEW M, NULL \notin tr.red, NEW a, NEW d, NEW n, NEW k,
         Coloured(tr, M, a, d, n, NULL)
  PROVE  Coloured(tr, M, a, d, n, k)
BY DEF Coloured, Colours, Calm

LEMMA NoExtra ==
  ASSUME NEW tr, NEW M, NEW a, NEW d, NEW n, n \notin tr.red, Coloured(tr, M, a, d, n, n)
  PROVE  Coloured(tr, M, a, d, NULL, NULL)
BY DEF Coloured, Colours, Calm

(* A way that is nowhere short has no side.                                *)
LEMMA NoSide ==
  ASSUME NEW tr, NEW M, NEW d, NEW c, NEW n, NEW k, Coloured(tr, M, NULL, d, n, k)
  PROVE  Coloured(tr, M, NULL, c, n, k)
BY DEF Coloured, Short

(* A task and those it is below: no set of tasks has the parents of all of *)
(* its tasks.                                                              *)
LEMMA AncestorInduction ==
  ASSUME NEW s, NEW R, NEW f, NEW g, NEW P, NEW M, NEW B, NEW vr,
         Shaped(s, R, f, g, P, M, B, vr), IsFiniteSet(M),
         NEW X \in SUBSET M, \A t \in X : P[t] \in X
  PROVE  X = {}
<1> DEFINE Q == {T \in SUBSET M : \A t \in X : T # M \ B[t]}
<1>1. /\ NULL \notin M /\ Tied(R, f, g, P, M) /\ Nested(R, f, g, P, M, B) /\ Cut(f, g, M, B)
  BY ShapedIsCut DEF Shaped
<1>2. ASSUME NEW T \in SUBSET M, \A U \in SUBSET T : U # T => U \in Q
      PROVE  T \in Q
  <2> SUFFICES ASSUME NEW t \in X, T = M \ B[t] PROVE FALSE
    OBVIOUS
  <2>1. P[t] \in M /\ (f[P[t]] = t \/ g[P[t]] = t)
    BY <1>1 DEF Tied
  <2>2. /\ P[t] \in B[P[t]] /\ P[t] \notin B[t] /\ B[t] \subseteq B[P[t]]
    BY <2>1, <1>1 DEF Cut, Nested
  <2>3. M \ B[P[t]] \in SUBSET T /\ M \ B[P[t]] # T
    BY <2>1, <2>2
  <2>4. M \ B[P[t]] \in Q
    BY <2>3, <1>2
  <2>. QED BY <2>4
<1> HIDE DEF Q
<1>3. SUBSET M \subseteq Q
  BY <1>2, SubsetInduction
<1>4. \A t \in X : M \ B[t] \in Q
  BY <1>3
<1>. QED BY <1>4 DEF Q

(* What a tree's shape says of a task, on each of its sides.               *)
LEMMA SideFacts ==
  ASSUME NEW tr, NEW M, NEW B, NEW vr, Shape(tr, M, B, vr), NEW z \in Sides, NEW x \in M
  PROVE  /\ x \in TREE_TASKS /\ x # NULL /\ tr.kid[z][x] \in M \cup {NULL}
         /\ tr.kid[z][x] # NULL => /\ tr.parent[tr.kid[z][x]] = x
                                   /\ tr.kid[z][x] # x
                                   /\ tr.kid[Opposite(z)][x] # tr.kid[z][x]
         /\ B[NULL] = {} /\ B[tr.kid[z][x]] \subseteq B[x] /\ B[x] \subseteq M
         /\ x \in B[x] /\ x \notin B[tr.kid[z][x]]
         /\ \A u \in B[tr.kid[z][x]] : OnSide(vr, z, u, x)
         /\ \A u \in B[x] : u = x \/ u \in B[tr.kid[z][x]] \/ u \in B[tr.kid[Opposite(z)][x]]
         /\ \A u \in B[x] : B[u] \subseteq B[x] /\ (u = x \/ tr.parent[u] \in B[x])
<1> DEFINE f == tr.kid[z]
           g == tr.kid[Opposite(z)]
<1>1. /\ M \in SUBSET TREE_TASKS /\ NULL \notin M
      /\ Tied(tr.root, f, g, tr.parent, M) /\ Nested(tr.root, f, g, tr.parent, M, B)
      /\ Sorted(f, g, M, B, vr, z) /\ Cut(f, g, M, B) /\ Untangled(f, g, M)
  BY TreeFacts
<1> HIDE DEF f, g
<1>2. x \in TREE_TASKS /\ x # NULL /\ f[x] \in M \cup {NULL}
  BY <1>1 DEF Tied
<1>3. f[x] # NULL => tr.parent[f[x]] = x /\ f[x] # x /\ g[x] # f[x]
  BY <1>1 DEF Tied, Untangled
<1>4. /\ B[NULL] = {} /\ B[f[x]] \subseteq B[x] /\ B[x] \subseteq M
      /\ \A u \in B[x] : u = x \/ u \in B[f[x]] \/ u \in B[g[x]]
      /\ \A u \in B[x] : B[u] \subseteq B[x] /\ (u = x \/ tr.parent[u] \in B[x])
  BY <1>1 DEF Nested
<1>5. x \in B[x] /\ x \notin B[f[x]]
  BY <1>1 DEF Cut
<1>6. \A u \in B[f[x]] : OnSide(vr, z, u, x)
  BY <1>1 DEF Sorted
<1>. QED BY <1>2, <1>3, <1>4, <1>5, <1>6 DEF f, g

LEMMA RootFacts ==
  ASSUME NEW tr, NEW M, NEW B, NEW vr, Shape(tr, M, B, vr)
  PROVE  /\ tr.root \in M \cup {NULL} /\ B[NULL] = {} /\ B[tr.root] = M
         /\ tr.root # NULL => tr.parent[tr.root] = NULL
         /\ \A x \in M : \A z \in Sides : tr.root \notin B[tr.kid[z][x]] /\ tr.kid[z][x] # tr.root
         /\ \A x \in M : tr.parent[x] = NULL <=> x = tr.root
         /\ \A x \in M : x # tr.root =>
              tr.parent[x] \in M /\ \E z \in Sides : tr.kid[z][tr.parent[x]] = x
         /\ NULL \notin M /\ M \subseteq TREE_TASKS /\ tr.red \subseteq M
<1> DEFINE f == tr.kid["left"]
           g == tr.kid["right"]
<1>0. "left" \in Sides /\ "right" \in Sides /\ Opposite("left") = "right"
  BY DEF Sides, Opposite
<1>1. /\ M \in SUBSET TREE_TASKS /\ NULL \notin M /\ tr.red \in SUBSET M
      /\ Tied(tr.root, f, g, tr.parent, M) /\ Nested(tr.root, f, g, tr.parent, M, B)
  BY <1>0, TreeFacts
<1> HIDE DEF f, g
<1>2. /\ tr.root \in M \cup {NULL} /\ B[NULL] = {} /\ B[tr.root] = M
      /\ tr.root # NULL => tr.parent[tr.root] = NULL
  BY <1>1 DEF Tied, Nested
<1>3. \A x \in M : tr.parent[x] = NULL <=> x = tr.root
  BY <1>1 DEF Tied
<1>4. \A x \in M : x # tr.root => tr.parent[x] \in M /\ (f[tr.parent[x]] = x \/ g[tr.parent[x]] = x)
  BY <1>1, <1>3 DEF Tied
<1>5. ASSUME NEW x \in M, NEW z \in Sides PROVE tr.root \notin B[tr.kid[z][x]] /\ tr.kid[z][x] # tr.root
  <2>1. tr.kid[z][x] \in M \cup {NULL} /\ x \notin B[tr.kid[z][x]]
    BY SideFacts
  <2>2. tr.kid[z][x] # tr.root
    BY <2>1, <1>2
  <2>3. ASSUME tr.root \in B[tr.kid[z][x]] PROVE FALSE
    <3>1. tr.kid[z][x] \in M
      BY <2>1, <2>3, <1>2
    <3>2. B[tr.root] \subseteq B[tr.kid[z][x]]
      BY <3>1, <2>3, <1>1 DEF Nested
    <3>. QED BY <3>2, <2>1, <1>2
  <2>. QED BY <2>2, <2>3
<1>. QED BY <1>0, <1>1, <1>2, <1>3, <1>4, <1>5 DEF f, g

LEMMA SideFromIsSide ==
  ASSUME NEW vr \in Keys, NEW e \in TREE_TASKS, NEW p \in TREE_TASKS, e # p,
         vr[e] # NULL, vr[p] # NULL
  PROVE  /\ SideFrom(vr, e, p) \in Sides /\ OnSide(vr, SideFrom(vr, e, p), e, p)
         /\ cfs_task_cmp(vr, e, p) # 0
<1>1. vr[e] \in Int /\ vr[p] \in Int /\ e \in Int /\ p \in Int
  BY TreeAssumption DEF Keys
<1>. QED BY <1>1 DEF SideFrom, OnSide, cfs_task_cmp, Sides

(* RB_INSERT goes down to the side where e belongs.                        *)
LEMMA DescentStep ==
  ASSUME NEW tr, NEW M, NEW B, NEW vr \in Keys, Shape(tr, M, B, vr), \A t \in M : vr[t] # NULL,
         NEW e, NEW n, NEW p, Descent(tr, M, B, vr, e, n, p), n # NULL
  PROVE  /\ Descent(tr, M, B, vr, e, tr.kid[SideFrom(vr, e, n)][n], n)
         /\ n \in M /\ cfs_task_cmp(vr, e, n) # 0
<1>1. e \in TREE_TASKS \ M /\ vr[e] # NULL
  BY DEF Descent
<1>2. NULL \notin M /\ M \subseteq TREE_TASKS
  BY RootFacts
<1>3. n \in M
  <2>1. CASE p = NULL
    BY <2>1, RootFacts DEF Descent
  <2>2. CASE p # NULL
    <3>1. p \in M /\ n = tr.kid[SideFrom(vr, e, p)][p]
      BY <2>2 DEF Descent
    <3>2. SideFrom(vr, e, p) \in Sides
      BY DEF SideFrom, Sides
    <3>. QED BY <3>1, <3>2, SideFacts
  <2>. QED BY <2>1, <2>2
<1>4. /\ SideFrom(vr, e, n) \in Sides /\ OnSide(vr, SideFrom(vr, e, n), e, n)
      /\ cfs_task_cmp(vr, e, n) # 0
  BY <1>1, <1>2, <1>3, SideFromIsSide
<1>5. ASSUME NEW s \in Sides, NEW x \in M, n \in B[tr.kid[s][x]] PROVE OnSide(vr, s, e, x)
  <2>1. CASE p = NULL
    BY <2>1, <1>5, RootFacts DEF Descent
  <2>2. CASE p # NULL
    <3>1. p \in M /\ n = tr.kid[SideFrom(vr, e, p)][p]
      BY <2>2 DEF Descent
    <3>2. SideFrom(vr, e, p) \in Sides /\ OnSide(vr, SideFrom(vr, e, p), e, p)
      BY <3>1, <1>1, <1>2, SideFromIsSide
    <3>3. tr.parent[n] = p
      BY <3>1, <3>2, <1>2, <1>3, SideFacts
    <3>4. tr.kid[s][x] \in M \cup {NULL} /\ tr.kid[s][x] \in M
      BY <1>5, SideFacts
    <3>5. CASE n = tr.kid[s][x]
      <4>1. p = x
        BY <3>3, <3>4, <3>5, <1>2, SideFacts
      <4>2. s = SideFrom(vr, e, p)
        <5>1. tr.kid[Opposite(s)][x] # tr.kid[s][x]
          BY <3>4, <1>2, SideFacts
        <5>. QED BY <5>1, <4>1, <3>1, <3>2, <3>5, OppositeSides
      <4>. QED BY <4>1, <4>2, <3>2
    <3>6. CASE n # tr.kid[s][x]
      <4>1. p \in B[tr.kid[s][x]]
        BY <3>3, <3>4, <3>6, <1>5, SideFacts
      <4>. QED BY <4>1, <2>2 DEF Descent
    <3>. QED BY <3>5, <3>6
  <2>. QED BY <2>1, <2>2
<1>6. n # NULL
  OBVIOUS
<1>. QED BY <1>1, <1>3, <1>4, <1>5, <1>6 DEF Descent

(* From the child on side s it goes down on the other side.                *)
LEMMA ApproachStep ==
  ASSUME NEW tr, NEW M, NEW B, NEW vr, Shape(tr, M, B, vr), NEW s \in Sides, NEW t, NEW n,
         Approach(tr, M, B, vr, s, t, n), tr.kid[Opposite(s)][n] # NULL
  PROVE  Approach(tr, M, B, vr, s, t, tr.kid[Opposite(s)][n])
<1> DEFINE o == Opposite(s)
           m == tr.kid[o][n]
           y == tr.kid[s][t]
<1>0. o \in Sides /\ Opposite(o) = s
  BY OppositeSides
<1> HIDE DEF o
<1>1. /\ t \in M /\ y # NULL /\ n \in B[y]
      /\ \A u \in B[y] : u \in B[n] \/ OnSide(vr, s, u, n)
  BY DEF Approach
<1>2. y \in M /\ n \in M /\ n \in B[n] /\ B[n] \subseteq B[y] /\ Ranked(vr, s, M)
  <2>1. y \in M
    BY <1>1, SideFacts
  <2>2. n \in M /\ B[n] \subseteq B[y]
    BY <2>1, <1>1, SideFacts
  <2>. QED BY <2>1, <2>2, SideFacts, TreeFacts
<1>3. m \in M /\ m \in B[m] /\ B[m] \subseteq B[n] /\ \A u \in B[m] : OnSide(vr, o, u, n)
  <2>1. /\ m \in M /\ B[m] \subseteq B[n] /\ \A u \in B[m] : OnSide(vr, o, u, n)
    BY <1>0, <1>2, SideFacts DEF o
  <2>. QED BY <2>1, <1>0, SideFacts
<1>4. OnSide(vr, s, n, m)
  BY <1>0, <1>3, OppositeOnSide
<1>5. ASSUME NEW u \in B[y] PROVE u \in B[m] \/ OnSide(vr, s, u, m)
  <2>1. u \in M
    BY <1>2, SideFacts
  <2>2. CASE u \in B[n]
    <3>1. u = n \/ u \in B[m] \/ u \in B[tr.kid[s][n]]
      BY <2>2, <1>0, <1>2, SideFacts
    <3>2. u \in B[tr.kid[s][n]] => OnSide(vr, s, u, n)
      BY <1>2, SideFacts
    <3>. QED BY <3>1, <3>2, <2>1, <1>2, <1>3, <1>4 DEF Ranked
  <2>3. CASE OnSide(vr, s, u, n)
    BY <2>1, <2>3, <1>2, <1>3, <1>4 DEF Ranked
  <2>. QED BY <2>2, <2>3, <1>1
<1>. QED BY <1>1, <1>2, <1>3, <1>5 DEF Approach, o

(* What is not below x is on the same side of all that is.                 *)
LEMMA SameSide ==
  ASSUME NEW tr, NEW M, NEW B, NEW vr, Shape(tr, M, B, vr), NEW s \in Sides,
         NEW x \in M, NEW y \in B[x], NEW u \in M \ B[x], OnSide(vr, s, u, x)
  PROVE  OnSide(vr, s, u, y)
<1> DEFINE X == {z \in M : x \in B[z] /\ u \notin B[z]}
<1>1. NULL \notin M /\ M \subseteq TREE_TASKS /\ IsFiniteSet(M)
  BY RootFacts, TreeAssumption, FS_Subset
<1>2. x \in B[x] /\ x \in X
  BY SideFacts DEF Sides
<1> HIDE DEF X
<1>3. PICK z \in X : tr.parent[z] \notin X
  <2>1. Shaped("left", tr.root, tr.kid["left"], tr.kid[Opposite("left")], tr.parent, M, B, vr)
    BY TreeFacts DEF Sides
  <2>2. X \in SUBSET M
    BY DEF X
  <2>. QED BY <2>1, <2>2, <1>1, <1>2, AncestorInduction
<1>4. z \in M /\ x \in B[z] /\ u \notin B[z]
  BY DEF X
<1>5. z # tr.root
  BY <1>4, RootFacts
<1>6. PICK d \in Sides : tr.parent[z] \in M /\ tr.kid[d][tr.parent[z]] = z
  BY <1>4, <1>5, RootFacts
<1>7. PICK a \in M : a = tr.parent[z] /\ tr.kid[d][a] = z
  BY <1>6
<1>8. B[z] \subseteq B[a] /\ \A w \in B[z] : OnSide(vr, d, w, a)
  BY <1>7, SideFacts
<1>9. u \in B[a]
  BY <1>3, <1>4, <1>7, <1>8 DEF X
<1>10. u = a \/ OnSide(vr, d, a, u)
  <2>1. u = a \/ u \in B[tr.kid[Opposite(d)][a]]
    BY <1>4, <1>7, <1>9, SideFacts
  <2>2. u \in B[tr.kid[Opposite(d)][a]] => OnSide(vr, Opposite(d), u, a)
    BY OppositeSides, SideFacts
  <2>. QED BY <2>1, <2>2, OppositeOnSide
<1>11. x \in B[z] /\ y \in B[z] /\ y \in M
  <2>1. B[x] \subseteq B[z] /\ B[z] \subseteq M
    BY <1>4, SideFacts
  <2>. QED BY <2>1, <1>2
<1>12. Ranked(vr, d, M)
  BY TreeFacts
<1>13. OnSide(vr, d, x, u) /\ OnSide(vr, d, y, u)
  BY <1>8, <1>10, <1>11, <1>12 DEF Ranked
<1>14. s = Opposite(d)
  <2>1. s # d
    BY <1>12, <1>13 DEF Ranked
  <2>. QED BY <2>1, OppositeSides
<1>. QED BY <1>13, <1>14, OppositeOnSide

(* RB_NEXT and RB_PREV: up while the task is the child of side s.          *)
LEMMA AscentStep ==
  ASSUME NEW tr, NEW M, NEW B, NEW vr, Shape(tr, M, B, vr), NEW s \in Sides, NEW t, NEW n,
         Ascent(tr, M, B, vr, s, t, n), NEW p, p = tr.parent[n], p # NULL, tr.kid[s][p] = n
  PROVE  Ascent(tr, M, B, vr, s, t, p) /\ p \in M
<1> DEFINE o == Opposite(s)
<1>0. o \in Sides /\ Opposite(o) = s
  BY OppositeSides
<1> HIDE DEF o
<1>1. t \in M /\ n \in M /\ t \in B[n] /\ \A u \in B[n] : u = t \/ OnSide(vr, o, u, t)
  BY DEF Ascent, o
<1>2. p \in M
  BY <1>1, RootFacts
<1>3. B[n] \subseteq B[p] /\ B[p] \subseteq M /\ OnSide(vr, s, t, p)
  BY <1>1, <1>2, SideFacts
<1>4. OnSide(vr, o, p, t)
  BY <1>0, <1>3, OppositeOnSide
<1>5. ASSUME NEW u \in B[p] PROVE u = t \/ OnSide(vr, o, u, t)
  <2>1. u = p \/ u \in B[n] \/ u \in B[tr.kid[o][p]]
    BY <1>2, <1>5, SideFacts DEF o
  <2>2. ASSUME u \in B[tr.kid[o][p]] PROVE OnSide(vr, o, u, t)
    <3>1. OnSide(vr, o, u, p) /\ u \in M
      BY <1>0, <1>2, <1>3, <2>2, SideFacts
    <3>2. Ranked(vr, o, M)
      BY <1>0, TreeFacts
    <3>. QED BY <3>1, <3>2, <1>1, <1>2, <1>4 DEF Ranked
  <2>. QED BY <2>1, <2>2, <1>1, <1>4
<1>. QED BY <1>1, <1>2, <1>3, <1>5 DEF Ascent, o

(* RB_FIND and RB_NFIND go down to the side where e belongs.               *)
LEMMA HuntStep ==
  ASSUME NEW tr, NEW M, NEW B, NEW vr \in Keys, Shape(tr, M, B, vr), \A t \in M : vr[t] # NULL,
         NEW e \in TREE_TASKS, vr[e] # NULL, NEW n, NEW p, Hunt(tr, M, B, vr, e, n, p),
         n # NULL, cfs_task_cmp(vr, e, n) # 0, NEW s, s = SideFrom(vr, e, n)
  PROVE  Hunt(tr, M, B, vr, e, tr.kid[s][n], IF s = "left" THEN n ELSE p) /\ n \in M /\ s \in Sides
<1>1. /\ n \in M /\ p \in M \cup {NULL} /\ NULL \notin M /\ M \subseteq TREE_TASKS
      /\ p # NULL => OnSide(vr, "left", e, p) /\ \A u \in B[n] : OnSide(vr, "left", u, p)
      /\ \A u \in M : \/ u \in B[n] \/ OnSide(vr, "left", u, e)
                      \/ p # NULL /\ (u = p \/ OnSide(vr, "left", p, u))
  BY RootFacts DEF Hunt
<1>2. "left" \in Sides /\ "right" \in Sides /\ Opposite("left") = "right" /\ Opposite("right") = "left"
  BY DEF Sides, Opposite
<1>3. e # n
  <2>1. vr[n] \in Int /\ n \in Int
    BY <1>1, TreeAssumption DEF Keys
  <2>. QED BY <2>1 DEF cfs_task_cmp
<1>4. s \in Sides /\ OnSide(vr, s, e, n)
  BY <1>1, <1>3, SideFromIsSide
<1>5. Ranked(vr, "left", M \cup {e})
  BY <1>1, <1>2, KeysAreRanked
<1>6. /\ tr.kid[s][n] \in M \cup {NULL} /\ n \in B[n] /\ B[n] \subseteq M
      /\ B[tr.kid[s][n]] \subseteq B[n] /\ \A u \in B[tr.kid[s][n]] : OnSide(vr, s, u, n)
      /\ \A u \in B[n] : u = n \/ u \in B[tr.kid[s][n]] \/ u \in B[tr.kid[Opposite(s)][n]]
      /\ \A u \in B[tr.kid[Opposite(s)][n]] : OnSide(vr, Opposite(s), u, n)
  BY <1>1, <1>4, SideFacts, OppositeSides
<1>7. CASE s = "left"
  <2>1. \A u \in B[tr.kid["right"][n]] : OnSide(vr, "left", n, u)
    BY <1>2, <1>6, <1>7, OppositeOnSide
  <2>2. ASSUME NEW u \in M
        PROVE  \/ u \in B[tr.kid["left"][n]] \/ OnSide(vr, "left", u, e)
               \/ u = n \/ OnSide(vr, "left", n, u)
    <3>1. p # NULL => OnSide(vr, "left", n, p)
      BY <1>1, <1>6
    <3>2. CASE u \in B[n]
      BY <3>2, <2>1, <1>2, <1>6, <1>7
    <3>. QED BY <3>1, <3>2, <1>1, <1>5 DEF Ranked
  <2>. QED BY <2>2, <1>1, <1>4, <1>6, <1>7 DEF Hunt
<1>8. CASE s = "right"
  <2>1. OnSide(vr, "left", n, e)
    BY <1>2, <1>4, <1>8, OppositeOnSide
  <2>2. ASSUME NEW u \in B[n] PROVE u \in B[tr.kid["right"][n]] \/ OnSide(vr, "left", u, e)
    <3>1. u = n \/ u \in B[tr.kid["right"][n]] \/ OnSide(vr, "left", u, n)
      BY <1>2, <1>6, <1>8
    <3>. QED BY <3>1, <2>1, <1>1, <1>5, <1>6 DEF Ranked
  <2>3. \A u \in B[tr.kid["right"][n]] : u \in B[n]
    BY <1>6, <1>8
  <2>. QED BY <2>2, <2>3, <1>1, <1>4, <1>6, <1>8 DEF Hunt
<1>. QED BY <1>4, <1>7, <1>8 DEF Sides

(* RB_MINMAX                                                               *)
LEMMA ExtremityStep ==
  ASSUME NEW tr, NEW M, NEW B, NEW vr, Shape(tr, M, B, vr), NEW s, NEW n, NEW p,
         Extremity(tr, M, B, vr, s, n, p), n # NULL
  PROVE  Extremity(tr, M, B, vr, s, tr.kid[s][n], n)
<1>0. s \in Sides /\ Opposite(s) \in Sides /\ Opposite(Opposite(s)) = s
  BY OppositeSides DEF Extremity
<1>1. n \in M
  <2>1. CASE p = NULL
    BY <2>1, RootFacts DEF Extremity
  <2>2. CASE p # NULL
    BY <2>2, <1>0, SideFacts DEF Extremity
  <2>. QED BY <2>1, <2>2
<1>2. ASSUME NEW u \in M PROVE u \in B[n] \/ OnSide(vr, s, n, u)
  <2>1. CASE p = NULL
    BY <2>1, RootFacts DEF Extremity
  <2>2. CASE p # NULL
    <3>1. p \in M /\ n = tr.kid[s][p] /\ (u \in B[p] \/ OnSide(vr, s, p, u))
      BY <2>2 DEF Extremity
    <3>2. n \in B[n] /\ OnSide(vr, s, n, p)
      BY <3>1, <1>0, <1>1, SideFacts
    <3>3. Ranked(vr, s, M)
      BY <1>0, TreeFacts
    <3>4. CASE u \in B[p]
      <4>1. u = p \/ u \in B[n] \/ u \in B[tr.kid[Opposite(s)][p]]
        BY <3>1, <3>4, <1>0, SideFacts
      <4>2. u \in B[tr.kid[Opposite(s)][p]] => OnSide(vr, s, p, u)
        BY <3>1, <1>0, SideFacts, OppositeOnSide
      <4>. QED BY <4>1, <4>2, <3>1, <3>2, <3>3, <1>1 DEF Ranked
    <3>5. CASE OnSide(vr, s, p, u)
      BY <3>1, <3>2, <3>3, <3>5, <1>1 DEF Ranked
    <3>. QED BY <3>1, <3>4, <3>5
  <2>. QED BY <2>1, <2>2
<1>. QED BY <1>0, <1>1, <1>2 DEF Extremity

(* The descent ends where e hangs in.                                      *)
LEMMA LinkStep ==
  ASSUME NEW tr, NEW M, NEW B, NEW vr \in Keys, Shape(tr, M, B, vr), \A t \in M : vr[t] # NULL,
         NEW e, NEW p, Descent(tr, M, B, vr, e, NULL, p), Whole(tr, M),
         NEW r, r = Link(tr, p, IF p = NULL THEN "left" ELSE SideFrom(vr, e, p), e)
  PROVE  /\ \E C : Shape(r, M \cup {e}, C, vr)
         /\ Coloured(r, M \cup {e}, NULL, "left", e, NULL) /\ e \in r.red
<1>0. /\ e \in TREE_TASKS /\ e \notin M /\ vr[e] # NULL /\ "left" \in Sides
      /\ tr \in Trees /\ M \subseteq TREE_TASKS
  BY RootFacts DEF Descent, Sides, Shape
<1>1. CASE p = NULL
  <2>1. M = {}
    BY <1>1, RootFacts DEF Descent
  <2>2. r = Link(tr, NULL, "left", e)
    BY <1>1
  <2>3. Shape(tr, {}, B, vr) /\ M \cup {e} = {e}
    BY <2>1
  <2>4. /\ \E C : Shape(r, {e}, C, vr)
        /\ Coloured(r, {e}, NULL, "left", e, NULL)
    BY <2>2, <2>3, <1>0, LinkFirst
  <2>5. NULL \in Task0
    BY DEF Task0
  <2>6. Hung(r, tr, NULL, "left", e)
    BY <2>2, <2>5, <1>0, LinkEffect
  <2>. QED BY <2>3, <2>4, <2>6 DEF Hung
<1>2. CASE p # NULL
  <2> DEFINE s == SideFrom(vr, e, p)
  <2>1. /\ p \in M /\ tr.kid[s][p] = NULL
        /\ \A z \in Sides : \A x \in M : p \in B[tr.kid[z][x]] => OnSide(vr, z, e, x)
    BY <1>2 DEF Descent
  <2>2. s \in Sides /\ OnSide(vr, s, e, p)
    BY <2>1, <1>0, SideFromIsSide
  <2>3. r = Link(tr, p, s, e)
    BY <1>2
  <2> HIDE DEF s
  <2>4. Fits(tr.kid[s], tr.kid[Opposite(s)], M, B, vr, s, e, p)
    BY <2>1, <2>2, OppositeSides, OppositeOnSide DEF Fits
  <2>5. Coloured(tr, M, NULL, "left", NULL, NULL)
    BY DEF Whole
  <2>6. \A t \in M \cup {e} : vr[t] # NULL
    BY <1>0
  <2>7. /\ \E C : Shape(r, M \cup {e}, C, vr)
        /\ Coloured(r, M \cup {e}, NULL, "left", e, NULL)
    BY <2>1, <2>2, <2>3, <2>4, <2>5, <2>6, <1>0, LinkTree
  <2>8. p \in Task0
    BY <2>1, <1>0 DEF Task0
  <2>9. Hung(r, tr, p, s, e)
    BY <2>2, <2>3, <2>8, <1>0, LinkEffect
  <2>. QED BY <2>7, <2>9 DEF Hung
<1>. QED BY <1>1, <1>2

(* RB_INSERT_COLOR ends where the parent is black.                         *)
LEMMA InsertedStep ==
  ASSUME NEW tr, NEW M, NEW B, NEW vr, Shape(tr, M, B, vr), NEW n \in tr.red,
         Coloured(tr, M, NULL, "left", n, NULL), tr.parent[n] \notin tr.red,
         NEW r, r = [tr EXCEPT !.red = @ \ {tr.root}]
  PROVE  Shape(r, M, B, vr) /\ Whole(r, M)
<1>1. /\ tr.red \subseteq M /\ NULL \notin M /\ n \in M /\ tr \in Trees
      /\ \A x \in M : \A z \in Sides : tr.kid[z][x] # tr.root
  BY RootFacts DEF Shape
<1>2. CASE n = tr.root
  <2>1. r = [tr EXCEPT !.red = @ \ {n}]
    BY <1>2
  <2>2. \A z \in Sides : \A x \in M : tr.kid[z][x] = n <=> x = Short(NULL, "left", z)
    BY <1>1, <1>2 DEF Short
  <2>3. Shape(r, M, B, vr) /\ Coloured(r, M, NULL, "left", NULL, NULL)
    BY <2>1, <2>2, BlackenTree
  <2>. QED BY <2>3 DEF Whole
<1>3. CASE n # tr.root
  <2> DEFINE f == tr.kid["left"]
             g == tr.kid["right"]
  <2>1. PICK H : /\ Heights(f, g, tr.red, M, H, Short(NULL, "left", "left"), Short(NULL, "left", "right"))
                 /\ Calm(tr.root, f, g, tr.red, n, NULL)
    BY DEF Coloured, Colours, Opposite
  <2>2. \A x \in M : (f[x] # n /\ g[x] # n) \/ x = tr.parent[n]
    BY <1>1, SideFacts DEF Sides
  <2>3. Calm(tr.root, f, g, tr.red, NULL, NULL)
    BY <2>1, <2>2, <1>1, <1>3 DEF Calm
  <2>4. tr.root \notin tr.red
    BY <2>1, <1>3 DEF Calm
  <2>5. Coloured(tr, M, NULL, "left", NULL, NULL)
    BY <2>1, <2>3 DEF Coloured, Colours, Opposite
  <2>6. r = tr
    BY <2>4, <1>1 DEF Trees
  <2>. QED BY <2>5, <2>6 DEF Whole
<1>. QED BY <1>2, <1>3

(* What surrounds two red tasks of which one is the child of the other.    *)
Family(tr, n, p, q, s) ==
  /\ n \in tr.red /\ p = tr.parent[n] /\ p \in tr.red
  /\ q = tr.parent[p] /\ s = SideOf(tr, q, p)

LEMMA GrandparentFacts ==
  ASSUME NEW tr, NEW M, NEW B, NEW vr, Shape(tr, M, B, vr),
         NEW n, NEW p, NEW q, NEW s, Family(tr, n, p, q, s),
         Coloured(tr, M, NULL, "left", n, NULL)
  PROVE  /\ p \in M /\ p # n /\ q \in M /\ q \notin tr.red /\ q # n /\ q # p
         /\ s \in Sides /\ tr.kid[s][q] = p /\ tr.kid[Opposite(s)][q] # p
         /\ tr.kid["left"][p] = n \/ tr.kid["right"][p] = n
<1>0. "left" \in Sides /\ "right" \in Sides /\ Sides = {"left", "right"}
  BY DEF Sides
<1>1. /\ tr.red \subseteq M /\ NULL \notin M /\ n \in M /\ p \in M
      /\ p \in tr.red /\ n \in tr.red
  BY RootFacts DEF Family
<1>2. Calm(tr.root, tr.kid["left"], tr.kid["right"], tr.red, n, NULL)
  BY DEF Coloured, Colours, Opposite
<1>3. n # tr.root /\ \E z \in Sides : tr.kid[z][p] = n
  BY <1>1, RootFacts DEF Family
<1>4. p # n
  BY <1>1, <1>3, SideFacts
<1>5. p # tr.root
  BY <1>1, <1>2, <1>4 DEF Calm
<1>6. q \in M /\ \E z \in Sides : tr.kid[z][q] = p
  BY <1>1, <1>5, RootFacts DEF Family
<1>7. s \in Sides /\ tr.kid[s][q] = p
  BY <1>0, <1>6 DEF SideOf, Family
<1>8. tr.kid[Opposite(s)][q] # p /\ q # p
  BY <1>1, <1>6, <1>7, SideFacts
<1>9. q \notin tr.red
  BY <1>0, <1>1, <1>2, <1>4, <1>7 DEF Calm
<1>. QED BY <1>0, <1>1, <1>3, <1>4, <1>6, <1>7, <1>8, <1>9

Recoloured(r, tr, n, p, q, s, uncle) ==
  /\ Family(tr, n, p, q, s) /\ uncle = tr.kid[Opposite(s)][q] /\ uncle \in tr.red
  /\ r = [SetBlackRed(tr, p, q) EXCEPT !.red = @ \ {uncle}]

LEMMA RecolorStep ==
  ASSUME NEW tr, NEW M, NEW B, NEW vr, Shape(tr, M, B, vr),
         NEW n, NEW p, NEW q, NEW s, NEW uncle, NEW r, Recoloured(r, tr, n, p, q, s, uncle),
         Coloured(tr, M, NULL, "left", n, NULL)
  PROVE  Shape(r, M, B, vr) /\ Coloured(r, M, NULL, "left", q, NULL) /\ q \in r.red
<1>0. /\ Family(tr, n, p, q, s) /\ uncle = tr.kid[Opposite(s)][q] /\ uncle \in tr.red
      /\ r = [SetBlackRed(tr, p, q) EXCEPT !.red = @ \ {uncle}]
  BY DEF Recoloured
<1>1. /\ p \in M /\ q \in M /\ q \notin tr.red /\ s \in Sides /\ tr.kid[s][q] = p
  BY <1>0, GrandparentFacts
<1>2. n \in M /\ tr \in Trees /\ tr.parent[n] = p /\ p \in tr.red
  BY <1>0, RootFacts, Zenon DEF Shape, Family
<1>3. Shape(r, M, B, vr) /\ Coloured(r, M, NULL, "left", q, NULL)
  BY <1>0, <1>1, <1>2, RaiseTree
<1>4. q \in r.red
  <2>1. r.red = ((tr.red \ {p}) \cup {q}) \ {uncle}
    BY <1>0, <1>2 DEF SetBlackRed, Trees
  <2>. QED BY <2>1, <1>0, <1>1
<1>. QED BY <1>3, <1>4

(* After the rotations the loop is at n, whose parent is black.            *)
Rested(r, M, vr, n) ==
  /\ \E C : Shape(r, M, C, vr)
  /\ Coloured(r, M, NULL, "left", n, NULL) /\ n \in r.red
  /\ r.parent[n] \notin r.red

LEMMA OuterStep ==
  ASSUME NEW tr, NEW M, NEW B, NEW vr, Shape(tr, M, B, vr),
         NEW n, NEW p, NEW q, NEW s, Family(tr, n, p, q, s),
         Coloured(tr, M, NULL, "left", n, NULL),
         tr.kid[Opposite(s)][q] \notin tr.red, tr.kid[Opposite(s)][p] # n,
         NEW r, r = Rotate(SetBlackRed(tr, p, q), Opposite(s), q)
  PROVE  Rested(r, M, vr, n)
<1>1. /\ p \in M /\ p # n /\ q \in M /\ q \notin tr.red /\ q # n /\ q # p /\ s \in Sides /\ tr.kid[s][q] = p
      /\ tr.kid["left"][p] = n \/ tr.kid["right"][p] = n
  BY GrandparentFacts
<1> DEFINE o == Opposite(s)
<1>2. o \in Sides /\ Opposite(o) = s
  BY <1>1, OppositeSides
<1>3. tr.kid[s][p] = n
  BY <1>1 DEF Sides, Opposite
<1>4. p \in tr.red /\ n \in tr.red /\ NULL \notin tr.red /\ tr \in Trees
  BY RootFacts DEF Family, Shape
<1>5. SwapSite(tr, M, o, q, p, n, NULL, "left")
  BY <1>1, <1>2, <1>3, <1>4 DEF SwapSite
<1> HIDE DEF o
<1>6. r = Rotate(SetBlackRed(tr, p, q), o, q)
  BY DEF o
<1>7. /\ \E C : Shape(r, M, C, vr)
      /\ Coloured(r, M, NULL, "left", NULL, NULL)
      /\ r.red = (tr.red \ {p}) \cup {q}
      /\ SideTurned(o, tr, r, M, q)
  BY <1>5, <1>6, SwapRotate DEF SwapDone
<1>8. NULL \notin r.red /\ n \in r.red
  <2>1. q # NULL
    BY <1>1, RootFacts
  <2>. QED BY <2>1, <1>1, <1>4, <1>7
<1>9. Coloured(r, M, NULL, "left", n, NULL)
  BY <1>7, <1>8, WeakColours
<1>10. r.parent[n] \notin r.red
  <2>1. n \in M
    BY <1>4, RootFacts
  <2>2. tr.parent[n] = p /\ tr.kid[s][q] = p /\ tr.kid[o][p] # n
    BY <1>1 DEF Family, o
  <2>3. r.parent[n] = p
    BY <2>1, <2>2, <1>1, <1>2, <1>7 DEF SideTurned, Turned
  <2>. QED BY <2>3, <1>1, <1>7
<1>. QED BY <1>7, <1>8, <1>9, <1>10 DEF Rested

LEMMA InnerStep ==
  ASSUME NEW tr, NEW M, NEW B, NEW vr, Shape(tr, M, B, vr),
         NEW n, NEW p, NEW q, NEW s, Family(tr, n, p, q, s),
         Coloured(tr, M, NULL, "left", n, NULL),
         tr.kid[Opposite(s)][q] \notin tr.red, tr.kid[Opposite(s)][p] = n,
         NEW a, a = Rotate(tr, s, p),
         NEW r, r = Rotate(SetBlackRed(a, n, q), Opposite(s), q)
  PROVE  Rested(r, M, vr, p)
<1>1. /\ p \in M /\ p # n /\ q \in M /\ q \notin tr.red /\ q # n /\ q # p /\ s \in Sides
      /\ tr.kid[s][q] = p /\ tr.kid[Opposite(s)][q] # p
  BY GrandparentFacts
<1> DEFINE o == Opposite(s)
<1>2. o \in Sides /\ Opposite(o) = s
  BY <1>1, OppositeSides
<1>3. p \in tr.red /\ n \in tr.red /\ n = tr.kid[o][p] /\ tr.kid[o][q] \notin tr.red
  BY DEF Family
<1> HIDE DEF o
<1>4. /\ \E C : Shape(a, M, C, vr)
      /\ Coloured(a, M, NULL, "left", p, NULL)
      /\ SideTurned(s, tr, a, M, p) /\ a.red = tr.red
  BY <1>1, <1>3, InnerRotate DEF o
<1>5. a.kid[s][n] = p /\ a.kid[s][q] = n /\ a.kid[o][q] = tr.kid[o][q]
  <2>1. /\ a.kid[s][n] = p
        /\ \A x \in M \ {p, n} : a.kid[s][x] = IF tr.kid[s][x] = p THEN n ELSE tr.kid[s][x]
        /\ \A x \in M \ {p, n} : a.kid[o][x] = IF tr.kid[o][x] = p THEN n ELSE tr.kid[o][x]
    BY <1>3, <1>4 DEF SideTurned, Turned, o
  <2>. QED BY <2>1, <1>1 DEF o
<1>6. PICK C : Shape(a, M, C, vr)
  BY <1>4
<1>7. r = Rotate(SetBlackRed(a, n, q), o, q)
  BY DEF o
<1>8. SwapSite(a, M, o, q, n, p, NULL, "left")
  BY <1>1, <1>2, <1>3, <1>4, <1>5 DEF SwapSite
<1>9. /\ \E D : Shape(r, M, D, vr)
      /\ Coloured(r, M, NULL, "left", NULL, NULL)
      /\ r.red = (a.red \ {n}) \cup {q}
      /\ SideTurned(o, a, r, M, q)
  <2>1. SwapDone(a, r, M, vr, o, q, n, NULL, "left")
    BY ONLY <1>6, <1>7, <1>8, SwapRotate
  <2>. QED BY <2>1 DEF SwapDone
<1>10. NULL \notin r.red /\ p \in r.red
  <2>1. q # NULL /\ NULL \notin tr.red
    BY <1>1, RootFacts
  <2>. QED BY <2>1, <1>1, <1>3, <1>4, <1>9
<1>11. Coloured(r, M, NULL, "left", p, NULL)
  BY <1>9, <1>10, WeakColours
<1>12. r.parent[p] \notin r.red
  <2>1. a.parent[p] = n
    BY <1>3, <1>4 DEF SideTurned, Turned, o
  <2>2. n \in M
    BY <1>3, RootFacts
  <2>3. a.kid[o][n] # p
    <3>1. p # NULL
      BY <1>1, RootFacts
    <3>. QED BY <3>1, <2>2, <1>1, <1>5, <1>6, SideFacts DEF o
  <2>4. r.parent[p] = n
    BY <2>1, <2>2, <2>3, <1>1, <1>2, <1>5, <1>9 DEF SideTurned, Turned
  <2>. QED BY <2>4, <1>1, <1>9
<1>. QED BY <1>9, <1>10, <1>11, <1>12 DEF Rested

(* RB_REMOVE_COLOR: the place that is short has a sibling.                 *)
Vacant(tr, M, s, n, p) ==
  /\ s \in Sides /\ p \in M /\ n = tr.kid[s][p] /\ n \notin tr.red
  /\ Coloured(tr, M, p, s, NULL, NULL)

LEMMA VacantSibling ==
  ASSUME NEW tr, NEW M, NEW B, NEW vr, Shape(tr, M, B, vr),
         NEW s, NEW n, NEW p, Vacant(tr, M, s, n, p)
  PROVE  /\ tr.kid[Opposite(s)][p] \in M /\ tr.kid[Opposite(s)][p] \notin {n, p}
         /\ SideOf(tr, p, n) = s
         /\ tr.kid[Opposite(s)][p] \in tr.red =>
              /\ p \notin tr.red
              /\ \A z \in Sides : tr.kid[z][tr.kid[Opposite(s)][p]] \notin tr.red
<1> DEFINE o == Opposite(s)
           f == tr.kid[s]
           g == tr.kid[o]
<1>1. /\ s \in Sides /\ p \in M /\ n = f[p] /\ n \notin tr.red
      /\ Coloured(tr, M, p, s, NULL, NULL)
  BY DEF Vacant
<1>2. o \in Sides /\ o # s /\ Opposite(o) = s /\ Sides = {s, o}
  BY <1>1, OppositeSides
<1>3. Short(p, s, s) = p /\ Short(p, s, o) = NULL
  BY <1>2 DEF Short
<1>4. PICK H : Heights(f, g, tr.red, M, H, p, NULL) /\ Calm(tr.root, f, g, tr.red, NULL, NULL)
  BY <1>1, <1>3, EverySideColoured DEF Colours
<1>5. NULL \notin M /\ f[p] \in M \cup {NULL} /\ g[p] \in M \cup {NULL} /\ tr.red \subseteq M
  BY <1>1, <1>2, SideFacts, RootFacts
<1>6. g[p] # NULL
  <2> HIDE DEF f, g
  <2>. QED BY <1>1, <1>4, <1>5, SiblingExists
<1>7. g[p] # f[p] /\ g[p] # p
  BY <1>1, <1>2, <1>6, SideFacts
<1>8. SideOf(tr, p, n) = s
  BY <1>1, <1>2, <1>7 DEF SideOf, Sides
<1>9. g[p] \in tr.red => p \notin tr.red /\ f[g[p]] \notin tr.red /\ g[g[p]] \notin tr.red
  BY <1>4, <1>5 DEF Calm
<1>. QED BY <1>1, <1>2, <1>5, <1>6, <1>7, <1>8, <1>9

LEMMA BlackSiblingStep ==
  ASSUME NEW tr, NEW M, NEW B, NEW vr, Shape(tr, M, B, vr),
         NEW s, NEW n, NEW p, Vacant(tr, M, s, n, p), NEW a, a = BlackSibling(tr, s, p)
  PROVE  /\ \E C : Shape(a, M, C, vr)
         /\ Vacant(a, M, s, n, p) /\ a.kid[Opposite(s)][p] \notin a.red
<1> DEFINE o == Opposite(s)
<1>1. /\ s \in Sides /\ p \in M /\ n = tr.kid[s][p] /\ n \notin tr.red
      /\ Coloured(tr, M, p, s, NULL, NULL)
  BY DEF Vacant
<1>2. o \in Sides /\ o # s /\ Opposite(o) = s /\ Sides = {s, o}
  BY <1>1, OppositeSides
<1>3. PICK sib : sib = tr.kid[o][p]
  OBVIOUS
<1>4. /\ sib \in M /\ sib # n /\ sib # p
      /\ sib \in tr.red => p \notin tr.red /\ \A z \in Sides : tr.kid[z][sib] \notin tr.red
  <2>1. /\ tr.kid[o][p] \in M /\ tr.kid[o][p] \notin {n, p}
        /\ tr.kid[o][p] \in tr.red =>
              /\ p \notin tr.red
              /\ \A z \in Sides : tr.kid[z][tr.kid[o][p]] \notin tr.red
    BY VacantSibling
  <2>. QED BY <2>1, <1>3
<1>5. CASE sib \notin tr.red
  <2>1. a = tr
    BY <1>3, <1>5 DEF BlackSibling
  <2>. QED BY <2>1, <1>3, <1>5
<1>6. CASE sib \in tr.red
  <2>1. a = Rotate(SetBlackRed(tr, sib, p), s, p)
    BY <1>3, <1>6 DEF BlackSibling
  <2>2. SwapSite(tr, M, s, p, sib, NULL, p, s)
    BY <1>1, <1>3, <1>4, <1>6 DEF SwapSite
  <2> HIDE DEF o
  <2>3. SwapDone(tr, a, M, vr, s, p, sib, p, s)
    BY ONLY <2>1, <2>2, Shape(tr, M, B, vr), SwapRotate
  <2>4. /\ \E C : Shape(a, M, C, vr)
        /\ Coloured(a, M, p, s, NULL, NULL)
        /\ SideTurned(s, tr, a, M, p) /\ a.red = (tr.red \ {sib}) \cup {p}
    BY <2>3 DEF SwapDone
  <2>5. a.kid[s][p] = n /\ a.kid[o][p] = tr.kid[s][sib]
    BY <2>4, <1>1, <1>3 DEF SideTurned, Turned, o
  <2>6. n # p
    BY <1>1, SideFacts, RootFacts
  <2>7. tr.kid[s][sib] # p /\ tr.kid[s][sib] \notin tr.red
    <3>1. tr.parent[sib] = p
      BY <1>1, <1>2, <1>3, <1>4, SideFacts, RootFacts
    <3>2. Untangled(tr.kid[s], tr.kid[Opposite(s)], M)
      BY <1>1, TreeFacts
    <3>3. p \in M => tr.kid[s][p] # p
      BY <3>2 DEF Untangled
    <3>4. tr.kid[s][sib] # p
      <4>1. tr.kid[o][p] # NULL => tr.kid[s][tr.kid[o][p]] # p
        BY <3>2, <1>1 DEF Untangled, o
      <4>. QED BY <4>1, <1>3, <1>4, RootFacts
    <3>. QED BY <3>4, <1>1, <1>4, <1>6
  <2>8. n \notin a.red /\ a.kid[o][p] \notin a.red
    BY <2>4, <2>5, <2>6, <2>7, <1>1
  <2>. QED BY <2>4, <2>5, <2>8, <1>1 DEF Vacant, o
<1>. QED BY <1>5, <1>6

(* The second loop of RB_REMOVE_COLOR goes up.                             *)
LEMMA LowerStep ==
  ASSUME NEW tr, NEW M, NEW B, NEW vr, Shape(tr, M, B, vr),
         NEW s, NEW n, NEW p, Vacant(tr, M, s, n, p),
         NEW sib, sib = tr.kid[Opposite(s)][p], sib \notin tr.red,
         Nephews(tr, sib) \cap tr.red = {},
         NEW r, r = [tr EXCEPT !.red = @ \cup {sib}]
  PROVE  Shape(r, M, B, vr) /\ Shortage(r, M, p, tr.parent[p])
<1>1. /\ s \in Sides /\ p \in M /\ tr.kid[s][p] \notin tr.red
      /\ Coloured(tr, M, p, s, NULL, NULL)
  BY DEF Vacant
<1>2. PICK d \in Sides : tr.parent[p] # NULL => tr.kid[d][tr.parent[p]] = p
  BY <1>1, RootFacts
<1>3. LowerSite(tr, M, s, p, sib, d)
  BY <1>1, <1>2 DEF LowerSite
<1>4. Shape(r, M, B, vr) /\ Coloured(r, M, tr.parent[p], d, p, p)
  BY <1>3, LowerTree
<1>5. /\ tr.parent[p] = NULL => p = tr.root
      /\ tr.parent[p] # NULL => tr.parent[p] \in M
  BY <1>1, RootFacts
<1>6. r.kid = tr.kid /\ r.root = tr.root
  BY DEF Shape, Trees
<1>. QED BY <1>2, <1>4, <1>5, <1>6 DEF Shortage

LEMMA TurnedLinks ==
  ASSUME NEW s, NEW o, o = Opposite(s), NEW tr, NEW r, NEW M, NEW t,
         SideTurned(s, tr, r, M, t), NEW up, up = tr.kid[o][t]
  PROVE  /\ r.kid[s][up] = t
         /\ \A x \in M \ {t, up} :
              /\ r.kid[s][x] = IF tr.kid[s][x] = t THEN up ELSE tr.kid[s][x]
              /\ r.kid[o][x] = IF tr.kid[o][x] = t THEN up ELSE tr.kid[o][x]
BY DEF SideTurned, Turned

LEMMA FarNephewStep ==
  ASSUME NEW tr, NEW M, NEW B, NEW vr, Shape(tr, M, B, vr),
         NEW s, NEW n, NEW p, Vacant(tr, M, s, n, p),
         NEW sib, sib = tr.kid[Opposite(s)][p], sib \notin tr.red,
         Nephews(tr, sib) \cap tr.red # {},
         NEW b, b = RedFarNephew(tr, s, sib), NEW up, up = b.kid[Opposite(s)][p]
  PROVE  /\ \E C : Shape(b, M, C, vr)
         /\ LastSite(b, M, s, p, up, b.kid[Opposite(s)][up])
<1> DEFINE o == Opposite(s)
<1>1. /\ s \in Sides /\ p \in M /\ n = tr.kid[s][p] /\ n \notin tr.red
      /\ Coloured(tr, M, p, s, NULL, NULL)
  BY DEF Vacant
<1>2. o \in Sides /\ o # s /\ Opposite(o) = s /\ Sides = {s, o}
  BY <1>1, OppositeSides
<1>3. sib \in M /\ sib # n /\ sib # p
  BY VacantSibling
<1>4. CASE tr.kid[o][sib] \in tr.red
  <2>1. b = tr /\ up = sib
    BY <1>4 DEF RedFarNephew
  <2>. QED BY <2>1, <1>1, <1>3, <1>4 DEF LastSite
<1>5. CASE tr.kid[o][sib] \notin tr.red
  <2>1. PICK near : near = tr.kid[s][sib]
    OBVIOUS
  <2>2. near \in tr.red
    BY <2>1, <1>2, <1>5 DEF Nephews, Sides
  <2>3. near \in M /\ near # sib /\ near # p
    <3>1. near \in M /\ near # sib
      BY <2>1, <2>2, <1>1, <1>3, RootFacts, SideFacts
    <3>2. Untangled(tr.kid[s], tr.kid[Opposite(s)], M)
      BY <1>1, TreeFacts
    <3>3. tr.kid[o][p] # NULL => tr.kid[s][tr.kid[o][p]] # p
      BY <3>2, <1>1 DEF Untangled
    <3>. QED BY <3>1, <3>3, <2>1, <1>3, RootFacts
  <2>4. b = Rotate(SetBlackRed(tr, near, sib), o, sib)
    BY <2>1, <1>5 DEF RedFarNephew
  <2>5. SwapSite(tr, M, o, sib, near, NULL, p, s)
    BY <2>1, <2>2, <2>3, <1>1, <1>2, <1>3, <1>5 DEF SwapSite
  <2>6. SwapDone(tr, b, M, vr, o, sib, near, p, s)
    <3> HIDE DEF o
    <3>. QED BY ONLY <2>4, <2>5, Shape(tr, M, B, vr), SwapRotate
  <2>7. /\ \E C : Shape(b, M, C, vr)
        /\ Coloured(b, M, p, s, NULL, NULL)
        /\ SideTurned(o, tr, b, M, sib) /\ b.red = (tr.red \ {near}) \cup {sib}
    BY <2>6 DEF SwapDone
  <2>8. /\ b.kid[o][near] = sib
        /\ \A x \in M \ {sib, near} :
             /\ b.kid[o][x] = IF tr.kid[o][x] = sib THEN near ELSE tr.kid[o][x]
             /\ b.kid[s][x] = IF tr.kid[s][x] = sib THEN near ELSE tr.kid[s][x]
    <3>1. near = tr.kid[s][sib] /\ s = Opposite(o) /\ SideTurned(o, tr, b, M, sib)
      BY <2>1, <2>7, <1>2
    <3> HIDE DEF o
    <3>. QED BY ONLY <3>1, TurnedLinks
  <2>9. b.kid[o][p] = near /\ b.kid[s][p] = n
    BY <2>3, <2>8, <1>1, <1>3
  <2>10. up = near
    BY <2>9
  <2>11. sib \in b.red /\ near \notin b.red /\ n \notin b.red
    BY <2>3, <2>7, <1>1, <1>3
  <2>. QED BY <2>3, <2>7, <2>8, <2>9, <2>10, <2>11, <1>1 DEF LastSite
<1>. QED BY <1>4, <1>5

LEMMA LastStep ==
  ASSUME NEW tr, NEW M, NEW B, NEW vr, Shape(tr, M, B, vr),
         NEW s, NEW p, NEW up, NEW far, LastSite(tr, M, s, p, up, far),
         NEW c, c = Rotate(ShareBlack(tr, p, up, far), s, p),
         NEW r, r = [c EXCEPT !.red = @ \ {c.root}]
  PROVE  (\E C : Shape(r, M, C, vr)) /\ Whole(r, M)
<1>1. PICK C : Shape(c, M, C, vr)
  BY LastRotate
<1>2. Coloured(c, M, NULL, "left", NULL, NULL)
  BY LastRotate
<1>3. Calm(c.root, c.kid["left"], c.kid["right"], c.red, NULL, NULL)
  BY <1>2 DEF Coloured, Colours, Opposite
<1>4. c.root \notin c.red /\ c \in Trees
  BY <1>1, <1>3, RootFacts DEF Calm, Shape
<1>5. r = c
  BY <1>4 DEF Trees
<1>. QED BY <1>1, <1>2, <1>5 DEF Whole

(* RB_REMOVE_COLOR ends.                                                   *)
LEMMA RemovedStep ==
  ASSUME NEW tr, NEW M, NEW B, NEW vr, Shape(tr, M, B, vr), NEW n, NEW p,
         Shortage(tr, M, n, p), n \in tr.red \/ n = tr.root,
         NEW r, r = [tr EXCEPT !.red = @ \ {n}]
  PROVE  Shape(r, M, B, vr) /\ Whole(r, M)
<1>1. PICK d \in Sides : /\ Coloured(tr, M, p, d, n, n)
                         /\ IF p = NULL THEN n = tr.root ELSE p \in M /\ tr.kid[d][p] = n
  BY DEF Shortage
<1>2. tr.red \subseteq M /\ NULL \notin M
  BY RootFacts
<1>3. n \in M => tr.parent[n] = p
  <2>1. CASE p = NULL
    BY <2>1, <1>1, <1>2, RootFacts
  <2>2. CASE p # NULL
    BY <2>2, <1>1, <1>2, SideFacts
  <2>. QED BY <2>1, <2>2
<1>4. n \notin tr.red => p = NULL
  <2> SUFFICES ASSUME n = tr.root, p # NULL PROVE FALSE
    OBVIOUS
  <2>. QED BY <1>1, RootFacts
<1>5. n \in tr.red => \A z \in Sides : \A x \in M : tr.kid[z][x] = n <=> x = Short(p, d, z)
  <2> SUFFICES ASSUME n \in tr.red, NEW z \in Sides, NEW x \in M
               PROVE  tr.kid[z][x] = n <=> x = Short(p, d, z)
    OBVIOUS
  <2>1. n \in M /\ tr.parent[n] = p
    BY <1>2, <1>3
  <2>2. tr.parent[n] # NULL => tr.kid[d][tr.parent[n]] = n
    BY <2>1, <1>1
  <2>. QED BY <2>1, <2>2, Place
<1>6. Shape(r, M, B, vr) /\ Coloured(r, M, NULL, "left", NULL, NULL)
  BY <1>1, <1>4, <1>5, BlackenTree
<1>. QED BY <1>6 DEF Whole

(* The locals of a call name tasks of the tree.                            *)
LEMMA LocalsTypes ==
  ASSUME NEW tr, NEW M, NEW B, NEW vr, Shape(tr, M, B, vr),
         NEW st, NEW e, NEW n, NEW p, NEW v, AtStage(st, tr, M, B, vr, e, n, p, v)
  PROVE  n \in M \cup {NULL} /\ p \in M \cup {NULL}
<1>0. "left" \in Sides /\ "right" \in Sides
  BY DEF Sides
<1>1. /\ tr.root \in M \cup {NULL} /\ tr.red \subseteq M
      /\ \A s \in Sides : \A x \in M : tr.kid[s][x] \in M \cup {NULL} /\ B[x] \subseteq M
  BY RootFacts, SideFacts
<1>2. st \in Stages
  BY DEF AtStage
<1>3. CASE st = "idle"
  BY <1>3 DEF AtStage
<1>4. CASE st = "descend"
  <2>1. Descent(tr, M, B, vr, e, n, p)
    BY <1>4 DEF AtStage
  <2>2. \A x, y : SideFrom(vr, x, y) \in Sides
    BY DEF SideFrom, Sides
  <2>. QED BY <2>1, <2>2, <1>1 DEF Descent
<1>5. CASE st = "insert_color"
  BY <1>1, <1>5 DEF AtStage
<1>6. CASE st = "successor"
  BY <1>0, <1>1, <1>6 DEF AtStage, Succession, Approach
<1>7. CASE st = "remove_color"
  <2>1. Shortage(tr, M, n, p)
    BY <1>7 DEF AtStage
  <2>. QED BY <2>1, <1>1 DEF Shortage
<1>8. CASE st = "minmax"
  <2>1. Extremity(tr, M, B, vr, v, n, p)
    BY <1>8 DEF AtStage
  <2>. QED BY <2>1, <1>1 DEF Extremity
<1>9. CASE st = "find"
  BY <1>9 DEF AtStage, Hunt
<1>10. CASE st = "near"
  BY <1>1, <1>10 DEF AtStage, Approach
<1>11. CASE st = "climb"
  BY <1>1, <1>11 DEF AtStage, Ascent
<1>. QED BY <1>2, <1>3, <1>4, <1>5, <1>6, <1>7, <1>8, <1>9, <1>10, <1>11 DEF Stages

(* RB_REMOVE of a task with at most one child.                             *)
LEMMA RemoveStep ==
  ASSUME NEW tr, NEW M, NEW B, NEW vr, Shape(tr, M, B, vr), Whole(tr, M), NEW t \in M,
         NULL \in {tr.kid["left"][t], tr.kid["right"][t]},
         NEW r, r = Unlinked(Unlink(tr, t), t)
  PROVE  /\ \E C : Shape(r, M \ {t}, C, vr)
         /\ t \in tr.red => Whole(r, M \ {t})
         /\ t \notin tr.red => Shortage(r, M \ {t}, OnlyChild(tr, t), tr.parent[t])
<1>1. PICK s \in Sides : tr.kid[Opposite(s)][t] = NULL /\ tr.kid[s][t] = OnlyChild(tr, t)
  BY DEF Sides, Opposite, OnlyChild
<1>2. PICK d \in Sides : tr.parent[t] # NULL => tr.kid[d][tr.parent[t]] = t
  BY RootFacts DEF Sides
<1>3. /\ \E C : Shape(r, M \ {t}, C, vr)
      /\ Coloured(r, M \ {t}, Gone(tr, t), d, Left(tr, t, s), NULL)
      /\ tr.parent[t] = NULL => r.root = tr.kid[s][t]
      /\ tr.parent[t] # NULL => /\ tr.parent[t] \in M \ {t}
                                /\ r.kid[d][tr.parent[t]] = tr.kid[s][t]
  <2>1. UnlinkSite(tr, M, t, s, d, "left")
    BY <1>1, <1>2 DEF UnlinkSite, Whole
  <2>2. (\E C : Shape(r, M \ {t}, C, vr)) /\ UnlinkDone(tr, r, M, t, s, d)
    BY <2>1, UnlinkTree
  <2>. QED BY <2>2 DEF UnlinkDone
<1>4. CASE t \in tr.red
  <2>1. Coloured(r, M \ {t}, NULL, d, NULL, NULL)
    BY <1>3, <1>4 DEF Gone, Left
  <2>2. Coloured(r, M \ {t}, NULL, "left", NULL, NULL)
    BY <2>1, NoSide
  <2>. QED BY <2>2, <1>3, <1>4 DEF Whole
<1>5. CASE t \notin tr.red
  <2>1. Coloured(r, M \ {t}, tr.parent[t], d, OnlyChild(tr, t), NULL)
    BY <1>1, <1>3, <1>5 DEF Gone, Left
  <2>2. NULL \notin r.red
    BY <1>3, RootFacts
  <2>3. Coloured(r, M \ {t}, tr.parent[t], d, OnlyChild(tr, t), OnlyChild(tr, t))
    BY <2>1, <2>2, WeakExtra
  <2>. QED BY <2>3, <1>1, <1>3, <1>5 DEF Shortage
<1>. QED BY <1>4, <1>5

(* RB_REMOVE of a task with two children.                                  *)
LEMMA TakeStep ==
  ASSUME NEW tr, NEW M, NEW B, NEW vr, Shape(tr, M, B, vr), Whole(tr, M),
         NEW t, NEW h, Succession(tr, M, B, vr, t, h), tr.kid["left"][h] = NULL,
         NEW q, q = IF tr.parent[h] = t THEN h ELSE tr.parent[h],
         NEW r, r = Unlinked(Inherit(Unlink(tr, h), t, h), t)
  PROVE  /\ \E C : Shape(r, M \ {t}, C, vr)
         /\ h \in tr.red => Whole(r, M \ {t})
         /\ h \notin tr.red => Shortage(r, M \ {t}, tr.kid["right"][h], q)
<1>0. "left" \in Sides /\ "right" \in Sides /\ Opposite("right") = "left"
  BY DEF Sides, Opposite
<1>1. /\ t \in M /\ h \in B[tr.kid["right"][t]]
      /\ \A u \in B[tr.kid["right"][t]] : u \in B[h] \/ OnSide(vr, "right", u, h)
  BY DEF Succession, Approach
<1>2. B[tr.kid["right"][t]] \subseteq M /\ NULL \notin M /\ B[NULL] = {}
  BY <1>0, <1>1, SideFacts, RootFacts
<1>3. h \in M
  BY <1>1, <1>2
<1>4. Nearest("right", tr, B, vr, t, h)
  <2>1. ASSUME NEW u \in B[tr.kid["right"][t]], u # h PROVE OnSide(vr, "right", u, h)
    <3>1. CASE u \in B[h]
      <4>1. u \in B[tr.kid["right"][h]] \/ u \in B[tr.kid["left"][h]]
        BY <2>1, <3>1, <1>0, <1>3, SideFacts
      <4>2. u \in B[tr.kid["right"][h]]
        BY <4>1, <1>2
      <4>. QED BY <4>2, <1>0, <1>3, SideFacts
    <3>. QED BY <3>1, <1>1
  <2>. QED BY <2>1, <1>1 DEF Nearest
<1>5. PICK d \in Sides : tr.kid[d][tr.parent[h]] = h
  <2>1. h # tr.root
    BY <1>0, <1>1, RootFacts
  <2>. QED BY <2>1, <1>3, RootFacts
<1>6. /\ \E C : Shape(r, M \ {t}, C, vr)
      /\ Coloured(r, M \ {t}, IF h \in tr.red THEN NULL ELSE q, d, Left(tr, h, "right"), NULL)
      /\ q \in M \ {t} /\ r.kid[d][q] = tr.kid["right"][h]
  <2>1. HeirSite(tr, M, B, vr, t, h, "right", d, "left", q)
    BY <1>0, <1>1, <1>4, <1>5 DEF HeirSite, Whole, Named
  <2>2. (\E C : Shape(r, M \ {t}, C, vr)) /\ HeirDone(tr, r, M, t, h, "right", d, q)
    BY <2>1, SuccessorTree
  <2>. QED BY <2>2 DEF HeirDone
<1>7. CASE h \in tr.red
  <2>1. Coloured(r, M \ {t}, NULL, d, NULL, NULL)
    BY <1>6, <1>7 DEF Left
  <2>2. Coloured(r, M \ {t}, NULL, "left", NULL, NULL)
    BY <2>1, NoSide
  <2>. QED BY <2>2, <1>6, <1>7 DEF Whole
<1>8. CASE h \notin tr.red
  <2>1. Coloured(r, M \ {t}, q, d, tr.kid["right"][h], NULL)
    BY <1>6, <1>8 DEF Left
  <2>2. NULL \notin r.red
    BY <1>6, RootFacts
  <2>3. Coloured(r, M \ {t}, q, d, tr.kid["right"][h], tr.kid["right"][h])
    BY <2>1, <2>2, WeakExtra
  <2>4. q # NULL
    BY <1>2, <1>6
  <2>. QED BY <2>3, <2>4, <1>6, <1>8 DEF Shortage
<1>. QED BY <1>7, <1>8

-----------------------------------------------------------------------------
(* Every turn of a loop keeps the invariant.                               *)
LEMMA NoneInTheTree ==
  ASSUME TreeInv
  PROVE  /\ stage = "descend" => Members \cup {given} = Queued \cup {given}
         /\ stage # "descend" => Members = Queued
         /\ \A t \in Members : t \in TREE_TASKS /\ vruntime[t] # NULL
BY DEF Members, Queued

LEMMA IdleStage ==
  ASSUME NEW tr, NEW M, NEW B, NEW vr, Whole(tr, M)
  PROVE  AtStage("idle", tr, M, B, vr, NULL, NULL, NULL, NULL)
BY DEF AtStage, Stages

LEMMA ReturnKeeps ==
  ASSUME CallReturns, vruntime' \in Keys,
         NEW M, M = Queued', NEW C, Shape(tree', M, C, vruntime'), Whole(tree', M)
  PROVE  TreeInv'
<1>1. Members' = M
  BY DEF CallReturns, Members
<1>2. AtStage("idle", tree', M, C, vruntime', NULL, NULL, NULL, NULL)
  BY IdleStage
<1>3. given' \in Task0 /\ val' \in ValsAt(stage')
  BY DEF CallReturns, Task0, ValsAt
<1>4. AtStage(stage', tree', M, C, vruntime', given', node', above', val')
  BY <1>2 DEF CallReturns
<1>. QED BY <1>1, <1>3, <1>4 DEF TreeInv

LEMMA TreeInitInv == TreeInit => TreeInv
<1> SUFFICES ASSUME TreeInit PROVE TreeInv
  OBVIOUS
<1> DEFINE B == [x \in {NULL} |-> {}]
           H == [x \in {NULL} |-> 0]
           f == tree.kid["left"]
           g == tree.kid["right"]
<1>1. /\ tree = [root |-> NULL, kid |-> [s \in Sides |-> NoTask], parent |-> NoTask, red |-> {}]
      /\ vruntime = NoTask /\ stage = "idle"
      /\ given = NULL /\ node = NULL /\ above = NULL /\ val = NULL
  BY DEF TreeInit
<1>2. Members = {}
  BY <1>1 DEF Members, Queued, NoTask
<1>3. vruntime \in Keys
  BY <1>1 DEF Keys, NoTask
<1>4. tree \in Trees /\ Outside(tree, {})
  BY <1>1 DEF Trees, NoTask, Outside, Sides, Task0
<1>5. tree.root = NULL /\ tree.red = {} /\ B[NULL] = {} /\ H[NULL] = 0
  BY <1>1
<1> HIDE DEF B, H
<1>6. Shape(tree, {}, B, vruntime)
  <2>1. Shaped("left", NULL, f, g, tree.parent, {}, B, vruntime)
    BY <1>5 DEF Shaped, Tied, Nested, Sorted, Ranked
  <2>. QED BY <2>1, <1>4, <1>5 DEF Shape, SideShaped, Opposite
<1>7. Whole(tree, {})
  <2>1. Heights(f, g, {}, {}, H, NULL, NULL) /\ Calm(NULL, f, g, {}, NULL, NULL)
    BY <1>5 DEF Heights, Calm
  <2>. QED BY <2>1, <1>5 DEF Whole, Coloured, Colours, Short, Opposite
<1>8. AtStage("idle", tree, {}, B, vruntime, NULL, NULL, NULL, NULL)
  BY <1>7, IdleStage
<1>9. given \in Task0 /\ val \in ValsAt(stage)
  BY <1>1 DEF Task0, ValsAt
<1>. QED BY <1>1, <1>2, <1>3, <1>6, <1>8, <1>9 DEF TreeInv

LEMMA TreeInsertKeeps ==
  ASSUME TreeInv, NEW t \in TREE_TASKS, NEW v \in VRUNTIMES, TreeInsert(t, v)
  PROVE  TreeInv'
<1>1. PICK B : /\ Shape(tree, Members, B, vruntime)
               /\ AtStage(stage, tree, Members, B, vruntime, given, node, above, val)
  BY DEF TreeInv
<1>2. /\ stage = "idle" /\ vruntime[t] = NULL /\ vruntime' = [vruntime EXCEPT ![t] = v]
      /\ stage' = "descend" /\ given' = t /\ node' = tree.root /\ above' = NULL
      /\ tree' = tree /\ val' = val
  BY DEF TreeInsert
<1>3. vruntime \in Keys /\ val \in ValsAt(stage)
  BY DEF TreeInv
<1>4. v # NULL /\ v \in VRUNTIMES \cup {NULL}
  BY TreeAssumption
<1>5. /\ vruntime' \in Keys /\ vruntime'[t] = v
      /\ \A u \in TREE_TASKS \ {t} : vruntime'[u] = vruntime[u]
  BY <1>2, <1>3, <1>4 DEF Keys
<1>6. Members' = Members /\ t \notin Members
  <2>1. Members = Queued
    BY <1>2 DEF Members
  <2>2. Members' = Queued' \ {t}
    BY <1>2 DEF Members
  <2>3. Queued' \ {t} = Queued
    BY <1>2, <1>5 DEF Queued
  <2>. QED BY <2>1, <2>2, <2>3, <1>2 DEF Queued
<1>7. Shape(tree, Members, B, vruntime')
  <2>1. \A u \in Members : vruntime'[u] = vruntime[u]
    BY <1>5, <1>6 DEF Members, Queued
  <2>. QED BY <2>1, <1>1, SameKeys
<1>8. AtStage("descend", tree, Members, B, vruntime', t, tree.root, NULL, val)
  BY <1>1, <1>2, <1>4, <1>5, <1>6 DEF AtStage, Stages, Descent
<1>9. given' \in Task0 /\ val' \in ValsAt(stage')
  BY <1>2, <1>3 DEF Task0, ValsAt
<1>10. /\ Shape(tree', Members', B, vruntime')
       /\ AtStage(stage', tree', Members', B, vruntime', given', node', above', val')
  BY <1>2, <1>6, <1>7, <1>8
<1>. QED BY <1>2, <1>3, <1>5, <1>9, <1>10 DEF TreeInv

LEMMA InsertDescendKeeps ==
  ASSUME TreeInv, InsertDescend
  PROVE  TreeInv'
<1>1. PICK B : /\ Shape(tree, Members, B, vruntime)
               /\ AtStage(stage, tree, Members, B, vruntime, given, node, above, val)
  BY DEF TreeInv
<1>2. vruntime \in Keys /\ given \in Task0 /\ val \in ValsAt(stage)
  BY DEF TreeInv
<1>3. stage = "descend" /\ node # NULL /\ tree' = tree /\ vruntime' = vruntime
  BY DEF InsertDescend
<1>4. Whole(tree, Members) /\ Descent(tree, Members, B, vruntime, given, node, above)
  BY <1>1, <1>3 DEF AtStage
<1>5. /\ Descent(tree, Members, B, vruntime, given,
                 tree.kid[SideFrom(vruntime, given, node)][node], node)
      /\ cfs_task_cmp(vruntime, given, node) # 0
  BY <1>1, <1>2, <1>3, <1>4, NoneInTheTree, DescentStep
<1>6. /\ stage' = "descend" /\ node' = tree.kid[SideFrom(vruntime, given, node)][node]
      /\ above' = node /\ given' = given /\ val' = val
  BY <1>5 DEF InsertDescend, Goto
<1>7. Members' = Members
  BY <1>3, <1>6 DEF Members, Queued
<1>8. AtStage(stage', tree, Members, B, vruntime, given, node', above', val)
  BY <1>4, <1>5, <1>6 DEF AtStage, Stages
<1>. QED BY <1>1, <1>2, <1>3, <1>6, <1>7, <1>8 DEF TreeInv

LEMMA InsertLinkKeeps ==
  ASSUME TreeInv, InsertLink
  PROVE  TreeInv'
<1>1. PICK B : /\ Shape(tree, Members, B, vruntime)
               /\ AtStage(stage, tree, Members, B, vruntime, given, node, above, val)
  BY DEF TreeInv
<1>2. vruntime \in Keys /\ given \in Task0 /\ val \in ValsAt(stage)
  BY DEF TreeInv
<1>3. /\ stage = "descend" /\ node = NULL /\ vruntime' = vruntime
      /\ tree' = Link(tree, above,
                      IF above = NULL THEN "left" ELSE SideFrom(vruntime, given, above), given)
      /\ stage' = "insert_color" /\ node' = given /\ above' = NULL
      /\ given' = given /\ val' = val
  BY DEF InsertLink, Goto
<1>4. Whole(tree, Members) /\ Descent(tree, Members, B, vruntime, given, NULL, above)
  BY <1>1, <1>3 DEF AtStage
<1>5. PICK r : r = tree'
  OBVIOUS
<1>6. /\ \E C : Shape(r, Members \cup {given}, C, vruntime)
      /\ Coloured(r, Members \cup {given}, NULL, "left", given, NULL) /\ given \in r.red
  BY <1>1, <1>2, <1>3, <1>4, <1>5, NoneInTheTree, LinkStep
<1>7. Members' = Members \cup {given}
  BY <1>3, <1>4 DEF Members, Queued, Descent
<1>8. PICK C : Shape(r, Members \cup {given}, C, vruntime)
  BY <1>6
<1>9. AtStage("insert_color", r, Members \cup {given}, C, vruntime, given, given, NULL, val)
  BY <1>6 DEF AtStage, Stages
<1>10. val' \in ValsAt(stage')
  BY <1>2, <1>3 DEF ValsAt
<1>. QED BY <1>2, <1>3, <1>5, <1>7, <1>8, <1>9, <1>10 DEF TreeInv

(* What holds in a loop that is past the descent of RB_INSERT.             *)
LEMMA InTheLoop ==
  ASSUME TreeInv, stage # "descend"
  PROVE  /\ vruntime \in Keys /\ given \in Task0 /\ val \in ValsAt(stage)
         /\ \E B : /\ Shape(tree, Queued, B, vruntime)
                   /\ AtStage(stage, tree, Queued, B, vruntime, given, node, above, val)
BY NoneInTheTree DEF TreeInv

LEMMA LoopKeeps ==
  ASSUME vruntime' \in Keys, given' \in Task0, val' \in ValsAt(stage'), stage' # "descend",
         NEW M, M = Queued', NEW C, Shape(tree', M, C, vruntime'),
         AtStage(stage', tree', M, C, vruntime', given', node', above', val')
  PROVE  TreeInv'
<1>1. Members' = M
  BY DEF Members
<1>. QED BY <1>1 DEF TreeInv

LEMMA InsertDoneKeeps ==
  ASSUME TreeInv, InsertDone
  PROVE  TreeInv'
<1>1. /\ stage = "insert_color" /\ tree.parent[node] \notin tree.red /\ vruntime' = vruntime
      /\ tree' = [tree EXCEPT !.red = @ \ {tree.root}] /\ CallReturns
  BY DEF InsertDone
<1>2. PICK B : /\ Shape(tree, Queued, B, vruntime)
               /\ AtStage(stage, tree, Queued, B, vruntime, given, node, above, val)
  BY <1>1, InTheLoop
<1>3. node \in tree.red /\ Coloured(tree, Queued, NULL, "left", node, NULL)
  BY <1>1, <1>2 DEF AtStage
<1>4. PICK r : r = tree'
  OBVIOUS
<1>5. Shape(r, Queued, B, vruntime) /\ Whole(r, Queued)
  BY <1>1, <1>2, <1>3, <1>4, InsertedStep
<1>6. vruntime' \in Keys /\ Queued' = Queued
  BY <1>1 DEF TreeInv, Queued
<1>. QED BY <1>1, <1>4, <1>5, <1>6, ReturnKeeps

LEMMA RedParent ==
  ASSUME TreeInv, stage = "insert_color", Parent \in tree.red
  PROVE  \E B : /\ Shape(tree, Queued, B, vruntime)
                /\ Family(tree, node, Parent, Grandparent, SideOf(tree, Grandparent, Parent))
                /\ Coloured(tree, Queued, NULL, "left", node, NULL)
<1>1. PICK B : /\ Shape(tree, Queued, B, vruntime)
               /\ AtStage(stage, tree, Queued, B, vruntime, given, node, above, val)
  BY InTheLoop
<1>2. node \in tree.red /\ Coloured(tree, Queued, NULL, "left", node, NULL)
  BY <1>1 DEF AtStage
<1>3. Family(tree, node, Parent, Grandparent, SideOf(tree, Grandparent, Parent))
  BY <1>2 DEF Family, Parent, Grandparent
<1>. QED BY <1>1, <1>2, <1>3

LEMMA RecolouredKeeps ==
  ASSUME TreeInv, stage = "insert_color", vruntime' = vruntime,
         NEW n, Goto("insert_color", n, NULL), NEW C, Shape(tree', Queued, C, vruntime),
         n \in tree'.red, Coloured(tree', Queued, NULL, "left", n, NULL)
  PROVE  TreeInv'
<1>1. /\ stage' = "insert_color" /\ node' = n /\ above' = NULL /\ given' = given /\ val' = val
      /\ Queued' = Queued
  BY DEF Goto, Queued
<1>2. vruntime \in Keys /\ given \in Task0 /\ val \in ValsAt(stage)
  BY DEF TreeInv
<1>3. AtStage("insert_color", tree', Queued, C, vruntime, given, n, NULL, val)
  BY DEF AtStage, Stages
<1>. QED BY <1>1, <1>2, <1>3, LoopKeeps

LEMMA InsertRecolorKeeps ==
  ASSUME TreeInv, InsertRecolor
  PROVE  TreeInv'
<1>1. /\ stage = "insert_color" /\ Parent \in tree.red /\ Uncle \in tree.red
      /\ tree' = [SetBlackRed(tree, Parent, Grandparent) EXCEPT !.red = @ \ {Uncle}]
      /\ Goto("insert_color", Grandparent, NULL) /\ vruntime' = vruntime
  BY DEF InsertRecolor
<1>2. PICK p, q, s, uncle, r : /\ p = Parent /\ q = Grandparent /\ s = SideOf(tree, q, p)
                               /\ uncle = Uncle /\ r = tree'
  OBVIOUS
<1>3. uncle = tree.kid[Opposite(s)][q] /\ uncle \in tree.red
  BY <1>1, <1>2 DEF Uncle
<1>4. PICK B : /\ Shape(tree, Queued, B, vruntime)
               /\ Family(tree, node, p, q, s)
               /\ Coloured(tree, Queued, NULL, "left", node, NULL)
  BY <1>1, <1>2, RedParent
<1>5. Recoloured(r, tree, node, p, q, s, uncle)
  BY <1>1, <1>2, <1>3, <1>4 DEF Recoloured
<1>6. Shape(r, Queued, B, vruntime) /\ Coloured(r, Queued, NULL, "left", q, NULL) /\ q \in r.red
  BY ONLY <1>4, <1>5, RecolorStep
<1>. QED BY <1>1, <1>2, <1>6, RecolouredKeeps

LEMMA InsertRotateKeeps ==
  ASSUME TreeInv, InsertRotate
  PROVE  TreeInv'
<1> DEFINE s == SideOf(tree, Grandparent, Parent)
<1>1. stage = "insert_color" /\ Parent \in tree.red /\ Uncle \notin tree.red /\ vruntime' = vruntime
  BY DEF InsertRotate
<1>2. PICK B : /\ Shape(tree, Queued, B, vruntime)
               /\ Family(tree, node, Parent, Grandparent, s)
               /\ Coloured(tree, Queued, NULL, "left", node, NULL)
  BY <1>1, RedParent
<1>3. PICK r : r = tree'
  OBVIOUS
<1>4. tree.kid[Opposite(s)][Grandparent] \notin tree.red
  BY <1>1 DEF Uncle
<1>5. CASE tree.kid[Opposite(s)][Parent] # node
  <2>1. /\ r = Rotate(SetBlackRed(tree, Parent, Grandparent), Opposite(s), Grandparent)
        /\ Goto("insert_color", node, NULL)
    BY <1>3, <1>5 DEF InsertRotate
  <2> HIDE DEF s
  <2>2.Rested(r, Queued, vruntime, node)
    BY ONLY <2>1, <1>2, <1>4, <1>5, OuterStep
  <2>. QED BY <2>1, <2>2, <1>1, <1>3, RecolouredKeeps DEF Rested
<1>6. CASE tree.kid[Opposite(s)][Parent] = node
  <2>1. PICK a : a = Rotate(tree, s, Parent)
    OBVIOUS
  <2>2. /\ r = Rotate(SetBlackRed(a, node, Grandparent), Opposite(s), Grandparent)
        /\ Goto("insert_color", Parent, NULL)
    BY <2>1, <1>3, <1>6 DEF InsertRotate
  <2> HIDE DEF s
  <2>3.Rested(r, Queued, vruntime, Parent)
    BY ONLY <2>1, <2>2, <1>2, <1>4, <1>6, InnerStep
  <2>. QED BY <2>2, <2>3, <1>1, <1>3, RecolouredKeeps DEF Rested
<1>. QED BY <1>5, <1>6

(* RB_REMOVE *)
LEMMA KeysGo ==
  ASSUME vruntime \in Keys, NEW t \in TREE_TASKS, OutOfTree(t)
  PROVE  /\ vruntime' \in Keys /\ Queued' = Queued \ {t}
         /\ \A u \in Queued \ {t} : vruntime'[u] = vruntime[u]
<1>1. /\ vruntime' \in Keys /\ vruntime'[t] = NULL
      /\ \A u \in TREE_TASKS \ {t} : vruntime'[u] = vruntime[u]
  BY DEF OutOfTree, Keys
<1>. QED BY <1>1 DEF Queued

(* t is out of the tree; when it was black, its place is short.            *)
LEMMA TakenOutKeeps ==
  ASSUME TreeInv, stage # "find", NEW t \in TREE_TASKS, OutOfTree(t), NEW k, NEW n, NEW p,
         RemoveFrom(k \in tree.red, n, p),
         NEW C, Shape(tree', Queued \ {t}, C, vruntime),
         k \in tree.red => Whole(tree', Queued \ {t}),
         k \notin tree.red => Shortage(tree', Queued \ {t}, n, p)
  PROVE  TreeInv'
<1>1. vruntime \in Keys /\ given \in Task0 /\ val \in ValsAt(stage)
  BY DEF TreeInv
<1>2. /\ vruntime' \in Keys /\ Queued' = Queued \ {t}
      /\ \A u \in Queued \ {t} : vruntime'[u] = vruntime[u]
  BY <1>1, KeysGo
<1>3. PICK M, r, vr : M = Queued \ {t} /\ r = tree' /\ vr = vruntime'
  OBVIOUS
<1>4. Shape(r, M, C, vr)
  BY <1>2, <1>3, SameKeys
<1>5. CASE k \in tree.red
  BY <1>2, <1>3, <1>4, <1>5, ReturnKeeps DEF RemoveFrom
<1>6. CASE k \notin tree.red
  <2>1. stage' = "remove_color" /\ node' = n /\ above' = p /\ given' = given /\ val' = val
    BY <1>6 DEF RemoveFrom, Goto
  <2>2. AtStage("remove_color", r, M, C, vr, given, n, p, val)
    BY <1>3, <1>6 DEF AtStage, Stages
  <2>3. val' \in ValsAt(stage')
    BY <2>1, <1>1 DEF ValsAt
  <2>. QED BY <2>1, <2>2, <2>3, <1>1, <1>2, <1>3, <1>4, LoopKeeps
<1>. QED BY <1>5, <1>6

LEMMA TreeRemoveKeeps ==
  ASSUME TreeInv, NEW t \in TREE_TASKS, TreeRemove(t)
  PROVE  TreeInv'
<1>1. /\ stage = "idle" /\ t \in Queued /\ NULL \in {tree.kid["left"][t], tree.kid["right"][t]}
      /\ tree' = Unlinked(Unlink(tree, t), t)
      /\ RemoveFrom(t \in tree.red, OnlyChild(tree, t), tree.parent[t]) /\ OutOfTree(t)
  BY DEF TreeRemove, Queued
<1>2. PICK B : /\ Shape(tree, Queued, B, vruntime)
               /\ AtStage(stage, tree, Queued, B, vruntime, given, node, above, val)
  BY <1>1, InTheLoop
<1>3. Whole(tree, Queued)
  BY <1>1, <1>2 DEF AtStage
<1>4. PICK r : r = tree'
  OBVIOUS
<1>5. r = Unlinked(Unlink(tree, t), t)
  BY <1>1, <1>4
<1>6. /\ \E C : Shape(r, Queued \ {t}, C, vruntime)
      /\ t \in tree.red => Whole(r, Queued \ {t})
      /\ t \notin tree.red => Shortage(r, Queued \ {t}, OnlyChild(tree, t), tree.parent[t])
  BY <1>1, <1>2, <1>3, <1>5, RemoveStep
<1>. QED BY <1>1, <1>4, <1>6, TakenOutKeeps

LEMMA TreeRemoveInnerKeeps ==
  ASSUME TreeInv, NEW t \in TREE_TASKS, TreeRemoveInner(t)
  PROVE  TreeInv'
<1>1. /\ stage = "idle" /\ t \in Queued /\ NULL \notin {tree.kid["left"][t], tree.kid["right"][t]}
      /\ stage' = "successor" /\ given' = t /\ node' = tree.kid["right"][t]
      /\ tree' = tree /\ vruntime' = vruntime /\ above' = above /\ val' = val
  BY DEF TreeRemoveInner, Queued
<1>2. PICK B : /\ Shape(tree, Queued, B, vruntime)
               /\ AtStage(stage, tree, Queued, B, vruntime, given, node, above, val)
  BY <1>1, InTheLoop
<1>3. Whole(tree, Queued) /\ above = NULL
  BY <1>1, <1>2 DEF AtStage
<1>4. PICK n : n = tree.kid["right"][t]
  OBVIOUS
<1>5. n \in B[n]
  <2>1. n \in Queued \cup {NULL}
    BY <1>1, <1>2, <1>4, SideFacts DEF Sides
  <2>. QED BY <2>1, <1>1, <1>2, <1>4, SideFacts DEF Sides
<1>6. Succession(tree, Queued, B, vruntime, t, n)
  BY <1>1, <1>4, <1>5 DEF Succession, Approach
<1>7. AtStage("successor", tree, Queued, B, vruntime, t, n, NULL, val)
  BY <1>3, <1>6 DEF AtStage, Stages
<1>8. vruntime \in Keys /\ given' \in Task0 /\ val' \in ValsAt(stage') /\ Queued' = Queued
  BY <1>1 DEF TreeInv, Task0, Queued, ValsAt
<1>. QED BY <1>1, <1>2, <1>3, <1>4, <1>7, <1>8, LoopKeeps

LEMMA SuccessorDescendKeeps ==
  ASSUME TreeInv, SuccessorDescend
  PROVE  TreeInv'
<1>1. /\ stage = "successor" /\ tree.kid["left"][node] # NULL
      /\ Goto("successor", tree.kid["left"][node], NULL)
      /\ tree' = tree /\ vruntime' = vruntime
  BY DEF SuccessorDescend
<1>2. PICK B : /\ Shape(tree, Queued, B, vruntime)
               /\ AtStage(stage, tree, Queued, B, vruntime, given, node, above, val)
  BY <1>1, InTheLoop
<1>3. Whole(tree, Queued) /\ Succession(tree, Queued, B, vruntime, given, node)
  BY <1>1, <1>2 DEF AtStage
<1>4. Succession(tree, Queued, B, vruntime, given, tree.kid["left"][node])
  <2>1. "right" \in Sides /\ Opposite("right") = "left"
    BY DEF Sides, Opposite
  <2>. QED BY <2>1, <1>1, <1>2, <1>3, ApproachStep DEF Succession
<1>5. /\ stage' = "successor" /\ node' = tree.kid["left"][node] /\ above' = NULL
      /\ given' = given /\ val' = val /\ Queued' = Queued
  BY <1>1 DEF Goto, Queued
<1>6. AtStage("successor", tree, Queued, B, vruntime, given, node', NULL, val)
  BY <1>3, <1>4, <1>5 DEF AtStage, Stages
<1>7. vruntime \in Keys /\ given \in Task0 /\ val \in ValsAt(stage)
  BY DEF TreeInv
<1>. QED BY <1>1, <1>2, <1>5, <1>6, <1>7, LoopKeeps

LEMMA TakeSuccessorKeeps ==
  ASSUME TreeInv, TakeSuccessor
  PROVE  TreeInv'
<1>1. PICK q : q = IF tree.parent[node] = given THEN node ELSE tree.parent[node]
  OBVIOUS
<1>2. /\ stage = "successor" /\ tree.kid["left"][node] = NULL
      /\ tree' = Unlinked(Inherit(Unlink(tree, node), given, node), given)
      /\ RemoveFrom(node \in tree.red, tree.kid["right"][node], q)
      /\ OutOfTree(given)
  BY <1>1 DEF TakeSuccessor
<1>3. PICK B : /\ Shape(tree, Queued, B, vruntime)
               /\ AtStage(stage, tree, Queued, B, vruntime, given, node, above, val)
  BY <1>2, InTheLoop
<1>4. Whole(tree, Queued) /\ Succession(tree, Queued, B, vruntime, given, node)
  BY <1>2, <1>3 DEF AtStage
<1>5. given \in TREE_TASKS
  BY <1>4 DEF Succession, Approach, Queued
<1>6. PICK r : r = tree'
  OBVIOUS
<1>7. r = Unlinked(Inherit(Unlink(tree, node), given, node), given)
  BY <1>2, <1>6
<1>8. /\ \E C : Shape(r, Queued \ {given}, C, vruntime)
      /\ node \in tree.red => Whole(r, Queued \ {given})
      /\ node \notin tree.red => Shortage(r, Queued \ {given}, tree.kid["right"][node], q)
  BY <1>1, <1>2, <1>3, <1>4, <1>7, TakeStep
<1>. QED BY <1>2, <1>5, <1>6, <1>8, TakenOutKeeps

LEMMA RemoveDoneKeeps ==
  ASSUME TreeInv, RemoveDone
  PROVE  TreeInv'
<1>1. /\ stage = "remove_color" /\ (node \in tree.red \/ node = tree.root)
      /\ tree' = [tree EXCEPT !.red = @ \ {node}] /\ vruntime' = vruntime /\ CallReturns
  BY DEF RemoveDone
<1>2. PICK B : /\ Shape(tree, Queued, B, vruntime)
               /\ AtStage(stage, tree, Queued, B, vruntime, given, node, above, val)
  BY <1>1, InTheLoop
<1>3. Shortage(tree, Queued, node, above)
  BY <1>1, <1>2 DEF AtStage
<1>4. PICK r : r = tree'
  OBVIOUS
<1>5. Shape(r, Queued, B, vruntime) /\ Whole(r, Queued)
  BY <1>1, <1>2, <1>3, <1>4, RemovedStep
<1>6. vruntime' \in Keys /\ Queued' = Queued
  BY <1>1 DEF TreeInv, Queued
<1>. QED BY <1>1, <1>4, <1>5, <1>6, ReturnKeeps

(* Where RB_REMOVE_COLOR goes on, its place is one of a task's two.        *)
LEMMA ShortPlace ==
  ASSUME TreeInv, stage = "remove_color", node \notin tree.red, node # tree.root
  PROVE  \E B : /\ Shape(tree, Queued, B, vruntime)
                /\ Vacant(tree, Queued, SideOf(tree, above, node), node, above)
<1>1. PICK B : /\ Shape(tree, Queued, B, vruntime)
               /\ AtStage(stage, tree, Queued, B, vruntime, given, node, above, val)
  BY InTheLoop
<1>2. PICK d \in Sides : /\ Coloured(tree, Queued, above, d, node, node)
                         /\ above \in Queued /\ tree.kid[d][above] = node
  BY <1>1 DEF AtStage, Shortage
<1>3. Coloured(tree, Queued, above, d, NULL, NULL)
  BY <1>2, NoExtra
<1>4. Vacant(tree, Queued, d, node, above)
  BY <1>2, <1>3 DEF Vacant
<1>5. SideOf(tree, above, node) = d
  BY <1>1, <1>4, VacantSibling
<1>. QED BY <1>1, <1>4, <1>5

LEMMA RemoveRecolorKeeps ==
  ASSUME TreeInv, RemoveRecolor
  PROVE  TreeInv'
<1>1. PICK s, a, sib, r : /\ s = SideOf(tree, above, node) /\ a = BlackSibling(tree, s, above)
                          /\ sib = a.kid[Opposite(s)][above] /\ r = tree'
  OBVIOUS
<1>2. /\ stage = "remove_color" /\ node \notin tree.red /\ node # tree.root
      /\ Nephews(a, sib) \cap a.red = {} /\ r = [a EXCEPT !.red = @ \cup {sib}]
      /\ Goto("remove_color", above, a.parent[above]) /\ vruntime' = vruntime
  BY <1>1 DEF RemoveRecolor
<1>3. PICK B : Shape(tree, Queued, B, vruntime) /\ Vacant(tree, Queued, s, node, above)
  BY <1>1, <1>2, ShortPlace
<1>4. /\ \E C : Shape(a, Queued, C, vruntime)
      /\ Vacant(a, Queued, s, node, above) /\ a.kid[Opposite(s)][above] \notin a.red
  BY <1>1, <1>3, BlackSiblingStep
<1>5. PICK C : Shape(a, Queued, C, vruntime)
  BY <1>4
<1>6. sib \notin a.red
  BY <1>1, <1>4
<1>7. Shape(r, Queued, C, vruntime) /\ Shortage(r, Queued, above, a.parent[above])
  BY <1>1, <1>2, <1>4, <1>5, <1>6, LowerStep
<1>8. /\ stage' = "remove_color" /\ node' = above /\ above' = a.parent[above]
      /\ given' = given /\ val' = val /\ Queued' = Queued
  BY <1>2 DEF Goto, Queued
<1>9. AtStage("remove_color", r, Queued, C, vruntime, given, above, a.parent[above], val)
  BY <1>7 DEF AtStage, Stages
<1>10. vruntime \in Keys /\ given \in Task0 /\ val \in ValsAt(stage)
  BY DEF TreeInv
<1>. QED BY <1>1, <1>2, <1>7, <1>8, <1>9, <1>10, LoopKeeps

LEMMA RemoveRotateKeeps ==
  ASSUME TreeInv, RemoveRotate
  PROVE  TreeInv'
<1>1. PICK s, a, low, b, sib, far, c, r :
        /\ s = SideOf(tree, above, node) /\ a = BlackSibling(tree, s, above)
        /\ low = a.kid[Opposite(s)][above] /\ b = RedFarNephew(a, s, low)
        /\ sib = b.kid[Opposite(s)][above] /\ far = b.kid[Opposite(s)][sib]
        /\ c = Rotate(ShareBlack(b, above, sib, far), s, above) /\ r = tree'
  BY Zenon
<1>2. /\ stage = "remove_color" /\ node \notin tree.red /\ node # tree.root
      /\ Nephews(a, low) \cap a.red # {} /\ r = [c EXCEPT !.red = @ \ {c.root}]
      /\ CallReturns /\ vruntime' = vruntime
  BY <1>1, Zenon DEF RemoveRotate
<1>3. PICK B : Shape(tree, Queued, B, vruntime) /\ Vacant(tree, Queued, s, node, above)
  BY <1>1, <1>2, ShortPlace, Zenon
<1>4. /\ \E C : Shape(a, Queued, C, vruntime)
      /\ Vacant(a, Queued, s, node, above) /\ a.kid[Opposite(s)][above] \notin a.red
  BY <1>1, <1>3, BlackSiblingStep, Zenon
<1>5. PICK C : Shape(a, Queued, C, vruntime)
  BY <1>4
<1>6. low \notin a.red
  BY <1>1, <1>4, Zenon
<1>7. /\ \E D : Shape(b, Queued, D, vruntime)
      /\ LastSite(b, Queued, s, above, sib, b.kid[Opposite(s)][sib])
  <2>1. /\ low = a.kid[Opposite(s)][above] /\ b = RedFarNephew(a, s, low)
        /\ sib = b.kid[Opposite(s)][above] /\ Nephews(a, low) \cap a.red # {}
    BY <1>1, <1>2, Zenon
  <2>2. Vacant(a, Queued, s, node, above)
    BY <1>4
  <2>. QED BY ONLY <2>1, <2>2, <1>5, <1>6, FarNephewStep, Zenon
<1>8. PICK D : Shape(b, Queued, D, vruntime)
  BY ONLY <1>7, Zenon
<1>9. LastSite(b, Queued, s, above, sib, far)
  BY <1>1, <1>7, Zenon
<1>10. (\E E : Shape(r, Queued, E, vruntime)) /\ Whole(r, Queued)
  <2>1. c = Rotate(ShareBlack(b, above, sib, far), s, above) /\ r = [c EXCEPT !.red = @ \ {c.root}]
    BY <1>1, <1>2, Zenon
  <2>. QED BY ONLY <2>1, <1>8, <1>9, LastStep, Zenon
<1>11. CallReturns /\ vruntime' = vruntime /\ r = tree'
  BY <1>1, <1>2, Zenon
<1>12. vruntime' \in Keys /\ Queued' = Queued
  BY <1>11 DEF TreeInv, Queued
<1>. QED BY ONLY <1>10, <1>11, <1>12, ReturnKeeps

(* RB_MINMAX *)
LEMMA TreeMinMaxKeeps ==
  ASSUME TreeInv, NEW s \in Sides, TreeMinMax(s)
  PROVE  TreeInv'
<1>1. /\ stage = "idle" /\ stage' = "minmax" /\ node' = tree.root /\ val' = s
      /\ tree' = tree /\ vruntime' = vruntime /\ given' = given /\ above' = above
  BY DEF TreeMinMax
<1>2. PICK B : /\ Shape(tree, Queued, B, vruntime)
               /\ AtStage(stage, tree, Queued, B, vruntime, given, node, above, val)
  BY <1>1, InTheLoop
<1>3. Whole(tree, Queued) /\ above = NULL
  BY <1>1, <1>2 DEF AtStage
<1>4. Extremity(tree, Queued, B, vruntime, s, tree.root, NULL)
  BY DEF Extremity
<1>5. AtStage("minmax", tree, Queued, B, vruntime, given, tree.root, NULL, s)
  BY <1>3, <1>4 DEF AtStage, Stages
<1>6. vruntime \in Keys /\ given \in Task0 /\ val' \in ValsAt(stage') /\ Queued' = Queued
  BY <1>1 DEF TreeInv, Queued, ValsAt
<1>. QED BY <1>1, <1>2, <1>3, <1>5, <1>6, LoopKeeps

LEMMA MinMaxDescendKeeps ==
  ASSUME TreeInv, MinMaxDescend
  PROVE  TreeInv'
<1>1. /\ stage = "minmax" /\ node # NULL /\ Goto("minmax", tree.kid[val][node], node)
      /\ tree' = tree /\ vruntime' = vruntime
  BY DEF MinMaxDescend
<1>2. PICK B : /\ Shape(tree, Queued, B, vruntime)
               /\ AtStage(stage, tree, Queued, B, vruntime, given, node, above, val)
  BY <1>1, InTheLoop
<1>3. Whole(tree, Queued) /\ Extremity(tree, Queued, B, vruntime, val, node, above)
  BY <1>1, <1>2 DEF AtStage
<1>4. Extremity(tree, Queued, B, vruntime, val, tree.kid[val][node], node)
  BY <1>1, <1>2, <1>3, ExtremityStep
<1>5. /\ stage' = "minmax" /\ node' = tree.kid[val][node] /\ above' = node
      /\ given' = given /\ val' = val /\ Queued' = Queued
  BY <1>1 DEF Goto, Queued
<1>6. AtStage("minmax", tree, Queued, B, vruntime, given, node', above', val)
  BY <1>3, <1>4, <1>5 DEF AtStage, Stages
<1>7. vruntime \in Keys /\ given \in Task0 /\ val \in ValsAt(stage)
  BY DEF TreeInv
<1>. QED BY <1>1, <1>2, <1>5, <1>6, <1>7, LoopKeeps

(* A call that returned from a loop that changes no link.                  *)
LEMMA QuietReturnKeeps ==
  ASSUME TreeInv, stage \notin {"descend", "insert_color", "remove_color"}, CallReturns,
         tree' = tree, vruntime' = vruntime
  PROVE  TreeInv'
<1>1. PICK B : /\ Shape(tree, Queued, B, vruntime)
               /\ AtStage(stage, tree, Queued, B, vruntime, given, node, above, val)
  BY InTheLoop
<1>2. Whole(tree, Queued)
  BY <1>1 DEF AtStage
<1>3. vruntime' \in Keys /\ Queued' = Queued
  BY DEF TreeInv, Queued
<1>. QED BY <1>1, <1>2, <1>3, ReturnKeeps

LEMMA MinMaxReturnKeeps ==
  ASSUME TreeInv, MinMaxReturn
  PROVE  TreeInv'
BY QuietReturnKeeps DEF MinMaxReturn

(* RB_FIND and RB_NFIND *)
LEMMA TreeFindKeeps ==
  ASSUME TreeInv, NEW t \in TREE_TASKS, NEW v \in VRUNTIMES, TreeFind(t, v)
  PROVE  TreeInv'
<1>1. /\ stage = "idle" /\ vruntime[t] \in {v, NULL}
      /\ stage' = "find" /\ given' = t /\ node' = tree.root /\ val' = v
      /\ tree' = tree /\ vruntime' = vruntime /\ above' = above
  BY DEF TreeFind
<1>2. PICK B : /\ Shape(tree, Queued, B, vruntime)
               /\ AtStage(stage, tree, Queued, B, vruntime, given, node, above, val)
  BY <1>1, InTheLoop
<1>3. Whole(tree, Queued) /\ above = NULL
  BY <1>1, <1>2 DEF AtStage
<1>4. PICK w : w = [vruntime EXCEPT ![t] = v]
  OBVIOUS
<1>5. Hunt(tree, Queued, B, w, t, tree.root, NULL)
  BY <1>2, RootFacts DEF Hunt
<1>6. AtStage("find", tree, Queued, B, vruntime, t, tree.root, NULL, v)
  BY <1>1, <1>3, <1>4, <1>5 DEF AtStage, Stages
<1>7. vruntime \in Keys /\ given' \in Task0 /\ val' \in ValsAt(stage') /\ Queued' = Queued
  BY <1>1 DEF TreeInv, Task0, Queued, ValsAt
<1>. QED BY <1>1, <1>2, <1>3, <1>6, <1>7, LoopKeeps

(* Where the search is. The task to find is compared by the vruntime that  *)
(* the call is given, which is its own when it is in the tree.             *)
LEMMA InTheHunt ==
  ASSUME TreeInv, stage = "find"
  PROVE  /\ given \in TREE_TASKS /\ SearchKeys \in Keys /\ SearchKeys[given] # NULL
         /\ \A t \in Queued : SearchKeys[t] = vruntime[t] /\ SearchKeys[t] # NULL
         /\ \E B : /\ Shape(tree, Queued, B, vruntime) /\ Shape(tree, Queued, B, SearchKeys)
                   /\ AtStage(stage, tree, Queued, B, vruntime, given, node, above, val)
                   /\ Hunt(tree, Queued, B, SearchKeys, given, node, above)
<1>1. PICK B : /\ Shape(tree, Queued, B, vruntime)
               /\ AtStage(stage, tree, Queued, B, vruntime, given, node, above, val)
  BY InTheLoop
<1>2. /\ given \in TREE_TASKS /\ vruntime[given] \in {val, NULL}
      /\ Hunt(tree, Queued, B, [vruntime EXCEPT ![given] = val], given, node, above)
  BY <1>1 DEF AtStage
<1>3. vruntime \in Keys /\ val \in VRUNTIMES
  BY DEF TreeInv, ValsAt
<1>4. PICK w : w = SearchKeys
  OBVIOUS
<1>5. w \in Keys /\ w[given] = val /\ val # NULL /\ \A t \in TREE_TASKS \ {given} : w[t] = vruntime[t]
  BY <1>2, <1>3, <1>4, TreeAssumption DEF Keys, SearchKeys
<1>6. \A t \in Queued : w[t] = vruntime[t] /\ w[t] # NULL
  BY <1>2, <1>5 DEF Queued
<1>7. Shape(tree, Queued, B, w)
  BY <1>1, <1>6, SameKeys
<1>. QED BY <1>1, <1>2, <1>4, <1>5, <1>6, <1>7 DEF SearchKeys

LEMMA FindDescendKeeps ==
  ASSUME TreeInv, FindDescend
  PROVE  TreeInv'
<1>1. PICK s : s = SideFrom(SearchKeys, given, node)
  OBVIOUS
<1>2. /\ stage = "find" /\ node # NULL /\ cfs_task_cmp(SearchKeys, given, node) # 0
      /\ stage' = "find" /\ node' = tree.kid[s][node]
      /\ above' = (IF s = "left" THEN node ELSE above)
      /\ given' = given /\ val' = val /\ tree' = tree /\ vruntime' = vruntime
  BY <1>1 DEF FindDescend, FindEnds, Goto
<1>3. PICK B : /\ Shape(tree, Queued, B, vruntime) /\ Shape(tree, Queued, B, SearchKeys)
               /\ AtStage(stage, tree, Queued, B, vruntime, given, node, above, val)
               /\ Hunt(tree, Queued, B, SearchKeys, given, node, above)
  BY <1>2, InTheHunt
<1>4. /\ given \in TREE_TASKS /\ SearchKeys \in Keys /\ SearchKeys[given] # NULL
      /\ \A t \in Queued : SearchKeys[t] # NULL
  BY <1>2, InTheHunt
<1>5. Hunt(tree, Queued, B, SearchKeys, given, node', above')
  BY <1>1, <1>2, <1>3, <1>4, HuntStep
<1>6. AtStage("find", tree, Queued, B, vruntime, given, node', above', val)
  BY <1>2, <1>3, <1>5 DEF AtStage, Stages, SearchKeys
<1>7. vruntime \in Keys /\ given \in Task0 /\ val \in ValsAt(stage) /\ Queued' = Queued
  BY <1>2 DEF TreeInv, Queued
<1>. QED BY <1>2, <1>3, <1>6, <1>7, LoopKeeps

LEMMA FindReturnKeeps ==
  ASSUME TreeInv, FindReturn
  PROVE  TreeInv'
BY QuietReturnKeeps DEF FindReturn

(* RB_NEXT and RB_PREV *)
LEMMA TreeNeighbourKeeps ==
  ASSUME TreeInv, NEW s \in Sides, NEW t \in TREE_TASKS, TreeNeighbour(s, t)
  PROVE  TreeInv'
<1>1. /\ stage = "idle" /\ t \in Queued /\ given' = t /\ val' = s
      /\ tree' = tree /\ vruntime' = vruntime /\ above' = above
      /\ IF tree.kid[s][t] # NULL THEN stage' = "near" /\ node' = tree.kid[s][t]
         ELSE stage' = "climb" /\ node' = t
  BY DEF TreeNeighbour, Queued
<1>2. PICK B : /\ Shape(tree, Queued, B, vruntime)
               /\ AtStage(stage, tree, Queued, B, vruntime, given, node, above, val)
  BY <1>1, InTheLoop
<1>3. Whole(tree, Queued) /\ above = NULL
  BY <1>1, <1>2 DEF AtStage
<1>4. vruntime \in Keys /\ given' \in Task0 /\ val' \in ValsAt(stage') /\ Queued' = Queued
  BY <1>1 DEF TreeInv, Task0, Queued, ValsAt
<1>5. CASE tree.kid[s][t] # NULL
  <2>1. PICK n : n = tree.kid[s][t]
    OBVIOUS
  <2>2. n \in Queued
    BY <2>1, <1>1, <1>2, <1>5, SideFacts
  <2>3. n \in B[n]
    BY <2>2, <1>2, SideFacts
  <2>4. Approach(tree, Queued, B, vruntime, s, t, n)
    BY <2>1, <2>3, <1>1, <1>5 DEF Approach
  <2>5. AtStage("near", tree, Queued, B, vruntime, t, n, NULL, s)
    BY <2>4, <1>3 DEF AtStage, Stages
  <2>. QED BY <2>1, <2>5, <1>1, <1>2, <1>3, <1>4, <1>5, LoopKeeps
<1>6. CASE tree.kid[s][t] = NULL
  <2>1. /\ t \in B[t] /\ B[NULL] = {}
        /\ \A u \in B[t] : u = t \/ u \in B[tree.kid[s][t]] \/ u \in B[tree.kid[Opposite(s)][t]]
    BY <1>1, <1>2, SideFacts
  <2>2. \A u \in B[tree.kid[Opposite(s)][t]] : OnSide(vruntime, Opposite(s), u, t)
    BY <1>1, <1>2, SideFacts, OppositeSides
  <2>3. Ascent(tree, Queued, B, vruntime, s, t, t)
    BY <2>1, <2>2, <1>1, <1>6 DEF Ascent
  <2>4. AtStage("climb", tree, Queued, B, vruntime, t, t, NULL, s)
    BY <2>3, <1>3 DEF AtStage, Stages
  <2>. QED BY <2>4, <1>1, <1>2, <1>3, <1>4, <1>6, LoopKeeps
<1>. QED BY <1>5, <1>6

LEMMA NearDescendKeeps ==
  ASSUME TreeInv, NearDescend
  PROVE  TreeInv'
<1>1. /\ stage = "near" /\ tree.kid[Opposite(val)][node] # NULL
      /\ stage' = "near" /\ node' = tree.kid[Opposite(val)][node] /\ above' = NULL
      /\ given' = given /\ val' = val /\ tree' = tree /\ vruntime' = vruntime
  BY DEF NearDescend, NearEnds, Goto
<1>2. PICK B : /\ Shape(tree, Queued, B, vruntime)
               /\ AtStage(stage, tree, Queued, B, vruntime, given, node, above, val)
  BY <1>1, InTheLoop
<1>3. /\ Whole(tree, Queued) /\ val \in Sides
      /\ Approach(tree, Queued, B, vruntime, val, given, node)
  BY <1>1, <1>2 DEF AtStage
<1>4. Approach(tree, Queued, B, vruntime, val, given, tree.kid[Opposite(val)][node])
  BY <1>1, <1>2, <1>3, ApproachStep
<1>5. AtStage("near", tree, Queued, B, vruntime, given, node', NULL, val)
  BY <1>1, <1>3, <1>4 DEF AtStage, Stages
<1>6. vruntime \in Keys /\ given \in Task0 /\ val \in ValsAt(stage) /\ Queued' = Queued
  BY <1>1 DEF TreeInv, Queued
<1>. QED BY <1>1, <1>2, <1>5, <1>6, LoopKeeps

LEMMA ClimbUpKeeps ==
  ASSUME TreeInv, ClimbUp
  PROVE  TreeInv'
<1>1. PICK p : p = tree.parent[node]
  OBVIOUS
<1>2. /\ stage = "climb" /\ p # NULL /\ tree.kid[val][p] = node
      /\ stage' = "climb" /\ node' = p /\ above' = NULL
      /\ given' = given /\ val' = val /\ tree' = tree /\ vruntime' = vruntime
  BY <1>1 DEF ClimbUp, ClimbEnds, Parent, Goto
<1>3. PICK B : /\ Shape(tree, Queued, B, vruntime)
               /\ AtStage(stage, tree, Queued, B, vruntime, given, node, above, val)
  BY <1>2, InTheLoop
<1>4. /\ Whole(tree, Queued) /\ val \in Sides
      /\ Ascent(tree, Queued, B, vruntime, val, given, node)
  BY <1>2, <1>3 DEF AtStage
<1>5. Ascent(tree, Queued, B, vruntime, val, given, p)
  BY <1>1, <1>2, <1>3, <1>4, AscentStep
<1>6. AtStage("climb", tree, Queued, B, vruntime, given, p, NULL, val)
  BY <1>4, <1>5 DEF AtStage, Stages
<1>7. vruntime \in Keys /\ given \in Task0 /\ val \in ValsAt(stage) /\ Queued' = Queued
  BY <1>2 DEF TreeInv, Queued
<1>. QED BY <1>2, <1>3, <1>6, <1>7, LoopKeeps

LEMMA NeighbourReturnKeeps ==
  ASSUME TreeInv, NeighbourReturn
  PROVE  TreeInv'
BY QuietReturnKeeps DEF NeighbourReturn

LEMMA TreeInvUnchanged ==
  ASSUME TreeInv, UNCHANGED treeVars
  PROVE  TreeInv'
<1>1. /\ tree' = tree /\ vruntime' = vruntime /\ stage' = stage /\ given' = given
      /\ node' = node /\ above' = above /\ val' = val
  BY DEF treeVars
<1>2. Members' = Members
  BY <1>1 DEF Members, Queued
<1>. QED BY <1>1, <1>2 DEF TreeInv

LEMMA TreeStepKeeps ==
  ASSUME TreeInv, [TreeNext]_treeVars
  PROVE  TreeInv'
<1>1. CASE Turn
  <2>1. CASE InsertDescend
    BY <2>1, InsertDescendKeeps
  <2>2. CASE InsertLink
    BY <2>2, InsertLinkKeeps
  <2>3. CASE InsertDone
    BY <2>3, InsertDoneKeeps
  <2>4. CASE InsertRecolor
    BY <2>4, InsertRecolorKeeps
  <2>5. CASE InsertRotate
    BY <2>5, InsertRotateKeeps
  <2>6. CASE SuccessorDescend
    BY <2>6, SuccessorDescendKeeps
  <2>7. CASE TakeSuccessor
    BY <2>7, TakeSuccessorKeeps
  <2>8. CASE RemoveDone
    BY <2>8, RemoveDoneKeeps
  <2>9. CASE RemoveRecolor
    BY <2>9, RemoveRecolorKeeps
  <2>10. CASE RemoveRotate
    BY <2>10, RemoveRotateKeeps
  <2>11. CASE MinMaxDescend
    BY <2>11, MinMaxDescendKeeps
  <2>12. CASE MinMaxReturn
    BY <2>12, MinMaxReturnKeeps
  <2>13. CASE FindDescend
    BY <2>13, FindDescendKeeps
  <2>14. CASE FindReturn
    BY <2>14, FindReturnKeeps
  <2>15. CASE NearDescend
    BY <2>15, NearDescendKeeps
  <2>16. CASE ClimbUp
    BY <2>16, ClimbUpKeeps
  <2>17. CASE NeighbourReturn
    BY <2>17, NeighbourReturnKeeps
  <2>. QED BY <1>1, <2>1, <2>2, <2>3, <2>4, <2>5, <2>6, <2>7, <2>8, <2>9, <2>10, <2>11, <2>12,
              <2>13, <2>14, <2>15, <2>16, <2>17 DEF Turn
<1>2. CASE \E t \in TREE_TASKS, v \in VRUNTIMES : TreeInsert(t, v) \/ TreeFind(t, v)
  BY <1>2, TreeInsertKeeps, TreeFindKeeps
<1>3. CASE \E t \in TREE_TASKS : TreeRemove(t)
  BY <1>3, TreeRemoveKeeps
<1>4. CASE \E t \in TREE_TASKS : TreeRemoveInner(t)
  BY <1>4, TreeRemoveInnerKeeps
<1>5. CASE \E s \in Sides : TreeMinMax(s)
  BY <1>5, TreeMinMaxKeeps
<1>6. CASE \E s \in Sides, t \in TREE_TASKS : TreeNeighbour(s, t)
  BY <1>6, TreeNeighbourKeeps
<1>7. CASE UNCHANGED treeVars
  BY <1>7, TreeInvUnchanged
<1>. QED BY <1>1, <1>2, <1>3, <1>4, <1>5, <1>6, <1>7 DEF TreeNext

LEMMA TreeAlways == TreeSpec => []TreeInv
<1>1. TreeInit => TreeInv
  BY TreeInitInv
<1>2. TreeInv /\ [TreeNext]_treeVars => TreeInv'
  BY TreeStepKeeps
<1>. QED BY <1>1, <1>2, PTL DEF TreeSpec

-----------------------------------------------------------------------------
(* What the invariant says between the calls and in them.                  *)

LEMMA NothingNullFollowed == TreeInv => NoNullFollowed
<1> SUFFICES ASSUME TreeInv PROVE NoNullFollowed
  OBVIOUS
<1>1. ASSUME stage = "insert_color", Parent \in tree.red PROVE Grandparent # NULL
  <2>1. PICK p, q, s : p = Parent /\ q = Grandparent /\ s = SideOf(tree, q, p)
    OBVIOUS
  <2>2. PICK B : /\ Shape(tree, Queued, B, vruntime)
                 /\ Family(tree, node, p, q, s)
                 /\ Coloured(tree, Queued, NULL, "left", node, NULL)
    BY <1>1, <2>1, RedParent
  <2>3. q \in Queued /\ NULL \notin Queued
    BY <2>2, GrandparentFacts, RootFacts
  <2>. QED BY <2>1, <2>3
<1>2. ASSUME stage = "remove_color", node \notin tree.red, node # tree.root,
             NEW s, s = SideOf(tree, above, node), NEW a, a = BlackSibling(tree, s, above)
      PROVE  /\ above # NULL /\ tree.kid[Opposite(s)][above] # NULL
             /\ a.kid[Opposite(s)][above] # NULL
  <2>1. PICK B : Shape(tree, Queued, B, vruntime) /\ Vacant(tree, Queued, s, node, above)
    BY <1>2, ShortPlace
  <2>2. PICK C : Shape(a, Queued, C, vruntime) /\ Vacant(a, Queued, s, node, above)
    BY <1>2, <2>1, BlackSiblingStep
  <2>3. NULL \notin Queued /\ above \in Queued
    BY <2>1, RootFacts DEF Vacant
  <2>. QED BY <2>1, <2>2, <2>3, VacantSibling
<1>. QED BY <1>1, <1>2 DEF NoNullFollowed

LEMMA EndsExtreme == TreeInv => EndsAreExtremes
<1> SUFFICES ASSUME TreeInv, stage = "minmax", node = NULL
             PROVE  IF above = NULL THEN Queued = {}
                    ELSE /\ above \in Queued
                         /\ \A t \in Queued : t = above \/ OnSide(vruntime, val, above, t)
  BY DEF EndsAreExtremes
<1>1. PICK B : /\ Shape(tree, Queued, B, vruntime)
               /\ AtStage(stage, tree, Queued, B, vruntime, given, node, above, val)
  BY InTheLoop
<1>2. Extremity(tree, Queued, B, vruntime, val, NULL, above)
  BY <1>1 DEF AtStage
<1>3. CASE above = NULL
  BY <1>1, <1>2, <1>3, RootFacts DEF Extremity
<1>4. CASE above # NULL
  <2>1. /\ val \in Sides /\ above \in Queued /\ tree.kid[val][above] = NULL
        /\ \A u \in Queued : u \in B[above] \/ OnSide(vruntime, val, above, u)
    BY <1>2, <1>4 DEF Extremity
  <2>2. Opposite(val) \in Sides
    BY <2>1, OppositeSides
  <2>3. ASSUME NEW t \in Queued, t # above, t \in B[above]
        PROVE  OnSide(vruntime, val, above, t)
    <3>1. t \in B[tree.kid[Opposite(val)][above]]
      BY <1>1, <2>1, <2>3, SideFacts
    <3>2. OnSide(vruntime, Opposite(val), t, above)
      BY <1>1, <2>1, <2>2, <3>1, SideFacts
    <3>. QED BY <2>1, <3>2, OppositeOnSide
  <2>. QED BY <2>1, <2>3, <1>4
<1>. QED BY <1>3, <1>4

(* cfs_task_cmp is 0 for the task itself and for no other, and not         *)
(* positive for it and the greater ones.                                   *)
LEMMA NotLess ==
  ASSUME NEW vr \in Keys, NEW e \in TREE_TASKS, NEW t \in TREE_TASKS, vr[e] # NULL, vr[t] # NULL
  PROVE  /\ cfs_task_cmp(vr, e, t) = 0 <=> t = e
         /\ cfs_task_cmp(vr, e, t) <= 0 <=> t = e \/ OnSide(vr, "left", e, t)
<1>1. vr[e] \in Int /\ vr[t] \in Int /\ e \in Int /\ t \in Int
  BY TreeAssumption DEF Keys
<1>. QED BY <1>1 DEF OnSide, cfs_task_cmp

LEMMA FindIsRight == TreeInv => FindsTheTask
<1> DEFINE S == {t \in Queued : cfs_task_cmp(SearchKeys, given, t) <= 0}
<1> SUFFICES ASSUME TreeInv, stage = "find", FindEnds
             PROVE  /\ node = IF given \in Queued THEN given ELSE NULL
                    /\ FirstTo("right", S, IF node = NULL THEN above ELSE node)
  BY DEF FindsTheTask
<1>1. PICK B : /\ Shape(tree, Queued, B, vruntime)
               /\ AtStage(stage, tree, Queued, B, vruntime, given, node, above, val)
               /\ Hunt(tree, Queued, B, SearchKeys, given, node, above)
  BY InTheHunt
<1>2. PICK w : w = SearchKeys
  OBVIOUS
<1>3. /\ given \in TREE_TASKS /\ w \in Keys /\ w[given] # NULL
      /\ \A t \in Queued : w[t] = vruntime[t] /\ w[t] # NULL
  BY <1>2, InTheHunt
<1>4. /\ node \in Queued \cup {NULL} /\ above \in Queued \cup {NULL}
      /\ above # NULL => OnSide(w, "left", given, above)
      /\ \A u \in Queued : \/ u \in B[node] \/ OnSide(w, "left", u, given)
                           \/ above # NULL /\ (u = above \/ OnSide(w, "left", above, u))
  BY <1>1, <1>2 DEF Hunt
<1>5. Queued \subseteq TREE_TASKS /\ NULL \notin Queued /\ B[NULL] = {}
  BY <1>1, RootFacts
<1>6. Ranked(w, "left", Queued \cup {given})
  BY <1>3, <1>5, KeysAreRanked DEF Sides
<1>7. \A t \in Queued : /\ cfs_task_cmp(w, given, t) = 0 <=> t = given
                        /\ t \in S <=> t = given \/ OnSide(w, "left", given, t)
  BY <1>2, <1>3, <1>5, NotLess
<1>8. ASSUME NEW a \in Queued, NEW u \in Queued, OnSide(w, "left", a, u)
      PROVE  OnSide(vruntime, "right", u, a)
  BY <1>3, <1>8 DEF OnSide, cfs_task_cmp
<1>9. CASE node # NULL
  <2>1. node \in Queued /\ node = given
    BY <1>2, <1>4, <1>7, <1>9 DEF FindEnds
  <2>2. \A u \in S : u = node \/ OnSide(vruntime, "right", u, node)
    BY <2>1, <1>7, <1>8
  <2>. QED BY <2>1, <2>2, <1>7, <1>9 DEF FirstTo
<1>10. CASE node = NULL
  <2>1. \A u \in Queued : \/ OnSide(w, "left", u, given)
                          \/ above # NULL /\ (u = above \/ OnSide(w, "left", above, u))
    BY <1>4, <1>5, <1>10
  <2>2. given \notin Queued
    BY <2>1, <1>4, <1>6 DEF Ranked
  <2>3. ASSUME NEW u \in S PROVE above # NULL /\ (u = above \/ OnSide(w, "left", above, u))
    <3>1. u \in Queued /\ OnSide(w, "left", given, u)
      BY <2>2, <1>7
    <3>2. ~ OnSide(w, "left", u, given)
      BY <3>1, <1>6 DEF Ranked
    <3>. QED BY <3>1, <3>2, <2>1
  <2>4. CASE above = NULL
    BY <2>2, <2>3, <2>4, <1>10 DEF FirstTo
  <2>5. CASE above # NULL
    <3>1. above \in Queued /\ above \in S
      BY <2>5, <1>4, <1>7
    <3>2. \A u \in S : u = above \/ OnSide(vruntime, "right", u, above)
      BY <3>1, <2>3, <1>8
    <3>. QED BY <3>1, <3>2, <2>2, <2>5, <1>10 DEF FirstTo
  <2>. QED BY <2>4, <2>5
<1>. QED BY <1>9, <1>10

(* RB_NEXT and RB_PREV that go down end at the first task of the child's   *)
(* subtree; what is on that side of t outside the subtree of t is beyond   *)
(* it, too.                                                                *)
LEMMA NearIsNext ==
  ASSUME NEW tr, NEW M, NEW B, NEW vr, Shape(tr, M, B, vr), NEW s \in Sides, NEW t, NEW n,
         Approach(tr, M, B, vr, s, t, n), tr.kid[Opposite(s)][n] = NULL
  PROVE  /\ n \in M /\ OnSide(vr, s, n, t)
         /\ \A u \in M : OnSide(vr, s, u, t) => u = n \/ OnSide(vr, s, u, n)
<1> DEFINE o == Opposite(s)
           y == tr.kid[s][t]
<1>0. o \in Sides
  BY OppositeSides
<1>1. /\ t \in M /\ y # NULL /\ n \in B[y]
      /\ \A u \in B[y] : u \in B[n] \/ OnSide(vr, s, u, n)
  BY DEF Approach
<1>2. /\ y \in M \cup {NULL} /\ B[y] \subseteq B[t] /\ B[t] \subseteq M /\ B[NULL] = {}
      /\ \A u \in B[y] : OnSide(vr, s, u, t)
      /\ \A u \in B[t] : u = t \/ u \in B[y] \/ u \in B[tr.kid[o][t]]
  BY <1>1, SideFacts
<1>3. n \in M /\ n \in B[t] /\ OnSide(vr, s, n, t)
  BY <1>1, <1>2
<1>4. ASSUME NEW u \in B[n] PROVE u = n \/ OnSide(vr, s, u, n)
  <2>1. u = n \/ u \in B[tr.kid[s][n]] \/ u \in B[tr.kid[o][n]]
    BY <1>3, SideFacts
  <2>2. \A x \in B[tr.kid[s][n]] : OnSide(vr, s, x, n)
    BY <1>3, SideFacts
  <2>. QED BY <2>1, <2>2, <1>2
<1>5. ASSUME NEW u \in M, OnSide(vr, s, u, t) PROVE u = n \/ OnSide(vr, s, u, n)
  <2>1. CASE u \in B[y]
    BY <2>1, <1>1, <1>4
  <2>2. CASE u \in B[t] /\ u \notin B[y]
    <3>1. Ranked(vr, s, M)
      BY TreeFacts
    <3>2. u # t /\ ~ OnSide(vr, s, t, u)
      BY <3>1, <1>1, <1>5 DEF Ranked
    <3>3. u \in B[tr.kid[o][t]]
      BY <3>2, <2>2, <1>2
    <3>4. OnSide(vr, o, u, t)
      BY <3>3, <1>0, <1>1, SideFacts
    <3>. QED BY <3>2, <3>4, OppositeOnSide
  <2>3. CASE u \notin B[t]
    BY <2>3, <1>1, <1>3, <1>5, SameSide
  <2>. QED BY <2>1, <2>2, <2>3
<1>. QED BY <1>3, <1>5

(* RB_NEXT and RB_PREV that go up end below the first task they come to    *)
(* from its other side.                                                    *)
LEMMA ClimbIsNext ==
  ASSUME NEW tr, NEW M, NEW B, NEW vr, Shape(tr, M, B, vr), NEW s \in Sides, NEW t, NEW n,
         Ascent(tr, M, B, vr, s, t, n), NEW p, p = tr.parent[n], p # NULL => tr.kid[s][p] # n
  PROVE  /\ p = NULL => \A u \in M : ~ OnSide(vr, s, u, t)
         /\ p # NULL => /\ p \in M /\ OnSide(vr, s, p, t)
                        /\ \A u \in M : OnSide(vr, s, u, t) => u = p \/ OnSide(vr, s, u, p)
<1> DEFINE o == Opposite(s)
<1>0. o \in Sides /\ Opposite(o) = s /\ Sides = {s, o}
  BY OppositeSides
<1>1. t \in M /\ n \in M /\ t \in B[n] /\ \A u \in B[n] : u = t \/ OnSide(vr, o, u, t)
  BY DEF Ascent
<1>2. Ranked(vr, s, M) /\ Ranked(vr, o, M)
  BY <1>0, TreeFacts
<1> HIDE DEF o
<1>3. ASSUME NEW u \in M, OnSide(vr, s, u, t) PROVE u \notin B[n] /\ ~ OnSide(vr, o, u, t)
  <2>1. u # t /\ ~ OnSide(vr, s, t, u)
    BY <1>1, <1>2, <1>3 DEF Ranked
  <2>2. ~ OnSide(vr, o, u, t)
    BY <2>1, OppositeOnSide DEF o
  <2>. QED BY <2>1, <2>2, <1>1
<1>4. ASSUME p = NULL PROVE \A u \in M : ~ OnSide(vr, s, u, t)
  <2>1. B[tr.root] = M /\ \A x \in M : tr.parent[x] = NULL <=> x = tr.root
    BY RootFacts
  <2>2. n = tr.root
    BY <2>1, <1>1, <1>4
  <2>. QED BY <2>1, <2>2, <1>3
<1>5. ASSUME p # NULL
      PROVE  /\ p \in M /\ OnSide(vr, s, p, t)
             /\ \A u \in M : OnSide(vr, s, u, t) => u = p \/ OnSide(vr, s, u, p)
  <2>1. p \in M /\ tr.kid[o][p] = n
    <3>1. n # tr.root
      BY <1>1, <1>5, RootFacts
    <3>2. p \in M /\ \E z \in Sides : tr.kid[z][p] = n
      BY <3>1, <1>1, RootFacts
    <3>. QED BY <3>2, <1>0, <1>5
  <2>2. /\ B[n] \subseteq B[p] /\ \A u \in B[n] : OnSide(vr, o, u, p)
        /\ \A u \in B[p] : u = p \/ u \in B[n] \/ u \in B[tr.kid[s][p]]
    BY <2>1, <1>0, SideFacts
  <2>3. OnSide(vr, s, p, t)
    BY <2>2, <1>1, OppositeOnSide DEF o
  <2>4. ASSUME NEW u \in M, OnSide(vr, s, u, t) PROVE u = p \/ OnSide(vr, s, u, p)
    <3>1. u \notin B[n] /\ ~ OnSide(vr, o, u, t)
      BY <2>4, <1>3
    <3>2. CASE u \in B[p]
      <4>1. u = p \/ u \in B[tr.kid[s][p]]
        BY <3>1, <3>2, <2>2
      <4>2. \A x \in B[tr.kid[s][p]] : OnSide(vr, s, x, p)
        BY <2>1, SideFacts
      <4>. QED BY <4>1, <4>2
    <3>3. CASE u \notin B[p]
      <4>1. ~ OnSide(vr, o, u, p)
        BY <3>1, <3>3, <2>1, <2>2, <1>0, <1>1, SameSide
      <4>2. u = p \/ OnSide(vr, o, u, p) \/ OnSide(vr, o, p, u)
        BY <2>1, <1>2 DEF Ranked
      <4>. QED BY <4>1, <4>2, OppositeOnSide DEF o
    <3>. QED BY <3>2, <3>3
  <2>. QED BY <2>1, <2>3, <2>4
<1>. QED BY <1>4, <1>5

LEMMA NeighbourIsRight == TreeInv => FindsNeighbour
<1> DEFINE beyond == {u \in Queued : OnSide(vruntime, val, u, given)}
<1> SUFFICES ASSUME TreeInv
             PROVE  /\ stage = "near" /\ NearEnds => FirstTo(val, beyond, node)
                    /\ stage = "climb" /\ ClimbEnds => FirstTo(val, beyond, Parent)
  BY DEF FindsNeighbour
<1>1. ASSUME stage = "near", NearEnds PROVE FirstTo(val, beyond, node)
  <2>1. PICK B : /\ Shape(tree, Queued, B, vruntime)
                 /\ AtStage(stage, tree, Queued, B, vruntime, given, node, above, val)
    BY <1>1, InTheLoop
  <2>2. val \in Sides /\ Approach(tree, Queued, B, vruntime, val, given, node)
    BY <2>1, <1>1 DEF AtStage
  <2>3. /\ node \in Queued /\ OnSide(vruntime, val, node, given)
        /\ \A u \in Queued : OnSide(vruntime, val, u, given) =>
                               u = node \/ OnSide(vruntime, val, u, node)
    BY <2>1, <2>2, <1>1, NearIsNext DEF NearEnds
  <2>4. NULL \notin Queued
    BY <2>1, RootFacts
  <2>. QED BY <2>3, <2>4 DEF FirstTo
<1>2. ASSUME stage = "climb", ClimbEnds PROVE FirstTo(val, beyond, Parent)
  <2>1. PICK B : /\ Shape(tree, Queued, B, vruntime)
                 /\ AtStage(stage, tree, Queued, B, vruntime, given, node, above, val)
    BY <1>2, InTheLoop
  <2>2. val \in Sides /\ Ascent(tree, Queued, B, vruntime, val, given, node)
    BY <2>1, <1>2 DEF AtStage
  <2>3. PICK p : p = Parent
    OBVIOUS
  <2>4. p = tree.parent[node] /\ (p # NULL => tree.kid[val][p] # node)
    BY <2>3, <1>2 DEF Parent, ClimbEnds
  <2>5. /\ p = NULL => \A u \in Queued : ~ OnSide(vruntime, val, u, given)
        /\ p # NULL => /\ p \in Queued /\ OnSide(vruntime, val, p, given)
                       /\ \A u \in Queued : OnSide(vruntime, val, u, given) =>
                                              u = p \/ OnSide(vruntime, val, u, p)
    BY <2>1, <2>2, <2>4, ClimbIsNext
  <2>. QED BY <2>3, <2>5 DEF FirstTo
<1>. QED BY <1>1, <1>2

(* The tasks the links lead to from a task are those below it.             *)
LEMMA SubtreesAreBelow ==
  ASSUME NEW M, NEW B, NEW vr, Shape(tree, M, B, vr)
  PROVE  /\ Subtrees[NULL] = {} /\ \A t \in M : Subtrees[t] = B[t]
         /\ B[NULL] = {} /\ NULL \notin M
<1>1. /\ NULL \notin M /\ M \subseteq TREE_TASKS /\ IsFiniteSet(M) /\ B[NULL] = {}
  BY RootFacts, TreeAssumption, FS_Subset
<1>2. \A t \in TREE_TASKS \cup {NULL} :
        Subtrees[t] = {u \in TREE_TASKS : t # NULL /\ \A S \in {S \in SUBSET TREE_TASKS : Closed(S)} : t \in S => u \in S}
  BY DEF Subtrees
<1>3. ASSUME NEW t \in M PROVE Closed(B[t]) /\ t \in B[t] /\ B[t] \in SUBSET TREE_TASKS
  <2>1. t \in B[t] /\ B[t] \subseteq M
    BY SideFacts DEF Sides
  <2>2. ASSUME NEW x \in B[t], NEW s \in Sides PROVE tree.kid[s][x] \in B[t] \cup {NULL}
    <3>1. x \in M /\ B[x] \subseteq B[t]
      BY <2>1, <2>2, SideFacts
    <3>2. tree.kid[s][x] \in M \cup {NULL} /\ B[tree.kid[s][x]] \subseteq B[x]
      BY <3>1, SideFacts
    <3>3. tree.kid[s][x] \in M => tree.kid[s][x] \in B[tree.kid[s][x]]
      BY SideFacts
    <3>. QED BY <3>1, <3>2, <3>3
  <2>. QED BY <2>1, <2>2, <1>1 DEF Closed
<1>4. ASSUME NEW t \in M, NEW S \in SUBSET TREE_TASKS, Closed(S), t \in S PROVE B[t] \subseteq S
  <2>1. PICK X : X = B[t] \ S
    OBVIOUS
  <2>2. B[t] \subseteq M
    BY SideFacts DEF Sides
  <2>3. ASSUME NEW u \in X PROVE tree.parent[u] \in X
    <3>1. u \in B[t] /\ u \notin S /\ u # t /\ u \in M
      BY <2>1, <2>2, <1>4
    <3>2. tree.parent[u] \in B[t]
      BY <3>1, SideFacts DEF Sides
    <3>3. u # tree.root
      BY <3>1, <3>2, <2>2, <1>1, RootFacts
    <3>4. PICK z \in Sides : tree.kid[z][tree.parent[u]] = u
      BY <3>1, <3>3, RootFacts
    <3>5. tree.parent[u] \notin S
      BY <3>1, <3>4, <1>1, <1>4 DEF Closed
    <3>. QED BY <3>2, <3>5, <2>1
  <2>4. Shaped("left", tree.root, tree.kid["left"], tree.kid[Opposite("left")], tree.parent, M, B, vr)
    BY TreeFacts DEF Sides
  <2>5. X = {}
    BY <1>1, <2>1, <2>2, <2>3, <2>4, AncestorInduction
  <2>. QED BY <2>1, <2>5
<1>5. ASSUME NEW t \in M PROVE Subtrees[t] = B[t]
  <2>1. Subtrees[t] \subseteq B[t]
    BY <1>1, <1>2, <1>3
  <2>2. B[t] \subseteq Subtrees[t]
    BY <1>1, <1>2, <1>3, <1>4
  <2>. QED BY <2>1, <2>2
<1>. QED BY <1>1, <1>2, <1>5

LEMMA QueuedInOrder == TreeInv => HoldsQueuedInOrder
<1> SUFFICES ASSUME TreeInv, stage = "idle"
             PROVE  /\ Subtrees[tree.root] = Queued
                    /\ \A t \in Queued, s \in Sides :
                         \A u \in Subtrees[tree.kid[s][t]] : OnSide(vruntime, s, u, t)
  BY DEF HoldsQueuedInOrder
<1>1. PICK B : Shape(tree, Queued, B, vruntime)
  BY InTheLoop
<1>2. /\ Subtrees[NULL] = {} /\ \A t \in Queued : Subtrees[t] = B[t]
      /\ B[NULL] = {} /\ NULL \notin Queued
  BY <1>1, SubtreesAreBelow
<1>3. Subtrees[tree.root] = Queued
  BY <1>1, <1>2, RootFacts
<1>4. ASSUME NEW t \in Queued, NEW s \in Sides, NEW u \in Subtrees[tree.kid[s][t]]
      PROVE  OnSide(vruntime, s, u, t)
  <2>1. tree.kid[s][t] \in Queued \cup {NULL}
    BY <1>1, SideFacts
  <2>2. u \in B[tree.kid[s][t]]
    BY <2>1, <1>2, <1>4
  <2>. QED BY <2>2, <1>1, SideFacts
<1>. QED BY <1>3, <1>4

LEMMA TreeTyped == TreeInv => TreeTypeOK
<1> SUFFICES ASSUME TreeInv PROVE TreeTypeOK
  OBVIOUS
<1>1. PICK B : /\ Shape(tree, Members, B, vruntime)
               /\ AtStage(stage, tree, Members, B, vruntime, given, node, above, val)
  BY DEF TreeInv
<1>2. Members \subseteq Queued /\ Queued \subseteq TREE_TASKS
  BY DEF Members, Queued
<1>3. vruntime \in Keys /\ given \in Task0 /\ val \in ValsAt(stage)
  BY DEF TreeInv
<1>4. node \in Members \cup {NULL} /\ above \in Members \cup {NULL}
  BY <1>1, LocalsTypes
<1>5. tree.root \in Members \cup {NULL} /\ tree.red \subseteq Members /\ Outside(tree, Members)
  BY <1>1, RootFacts DEF Shape
<1>6. ASSUME NEW t \in TREE_TASKS, NEW s \in Sides
      PROVE  {tree.kid[s][t], tree.parent[t]}
                \subseteq (IF t \in Queued THEN Queued \cup {NULL} ELSE {NULL})
  <2>1. CASE t \in Members
    <3>1. tree.kid[s][t] \in Members \cup {NULL}
      BY <1>1, <2>1, SideFacts
    <3>2. tree.parent[t] \in Members \cup {NULL}
      BY <1>1, <2>1, RootFacts
    <3>. QED BY <3>1, <3>2, <2>1, <1>2
  <2>2. CASE t \notin Members
    BY <2>2, <1>5 DEF Outside
  <2>. QED BY <2>1, <2>2
<1>7. {given, node, above} \subseteq TREE_TASKS \cup {NULL}
  BY <1>2, <1>3, <1>4 DEF Task0
<1>. QED BY <1>2, <1>3, <1>5, <1>6, <1>7 DEF TreeTypeOK, Keys, ValsAt

LEMMA ParentsLinked ==
  ASSUME NEW B, NEW vr, Shape(tree, Queued, B, vr)
  PROVE  ParentLinks
<1> SUFFICES ASSUME NEW t \in Queued
             PROVE  IF tree.parent[t] = NULL THEN tree.root = t
                    ELSE t \in {tree.kid[s][tree.parent[t]] : s \in Sides}
  BY DEF ParentLinks
<1>1. tree.parent[t] = NULL <=> t = tree.root
  BY RootFacts
<1>2. t # tree.root => \E s \in Sides : tree.kid[s][tree.parent[t]] = t
  BY RootFacts
<1>. QED BY <1>1, <1>2

(* The tasks above a task are those above its parent, and itself.          *)
LEMMA AboveATask ==
  ASSUME NEW tr, NEW M, NEW B, NEW vr, Shape(tr, M, B, vr), NEW t \in M
  PROVE  /\ t = tr.root => \A u \in M : t \in B[u] <=> u = t
         /\ t # tr.root => /\ tr.parent[t] \in M
                           /\ \A u \in M : t \in B[u] <=> u = t \/ tr.parent[t] \in B[u]
                           /\ t \notin B[NULL] /\ tr.parent[t] \notin B[t]
<1>1. t \in B[t] /\ B[NULL] = {} /\ \A u \in M : t \in B[u] => u = t \/ tr.parent[t] \in B[u]
  BY SideFacts, RootFacts DEF Sides
<1>2. ASSUME t # tr.root
      PROVE  /\ tr.parent[t] \in M /\ tr.parent[t] \notin B[t]
             /\ \A u \in M : tr.parent[t] \in B[u] => t \in B[u]
  <2>1. PICK p : p = tr.parent[t]
    OBVIOUS
  <2>2. PICK z \in Sides : p \in M /\ tr.kid[z][p] = t
    BY <1>2, <2>1, RootFacts
  <2>3. p \notin B[t] /\ t \in B[p]
    BY <1>1, <2>2, SideFacts
  <2>4. \A u \in M : p \in B[u] => B[p] \subseteq B[u]
    BY <2>2, SideFacts
  <2>. QED BY <2>1, <2>2, <2>3, <2>4
<1>3. ASSUME t = tr.root, NEW u \in M, t \in B[u], u # t PROVE FALSE
  <2>1. PICK z \in Sides : tr.parent[u] \in M /\ tr.kid[z][tr.parent[u]] = u
    BY <1>3, RootFacts
  <2>. QED BY <2>1, <1>3, RootFacts
<1>. QED BY <1>1, <1>2, <1>3

Blacks(tr, M, B, t) == {u \in M \ tr.red : t \in B[u]}

(* As many black tasks on the way down to a task, with those on the way    *)
(* from it on, as on the way from the root.                                *)
Levelled(tr, M, B, H, t) ==
  /\ Cardinality(Blacks(tr, M, B, t)) \in Nat
  /\ Cardinality(Blacks(tr, M, B, t)) + H[t] = H[tr.root] + One(t \notin tr.red)

LEMMA EveryTaskLevelled ==
  ASSUME NEW tr, NEW M, NEW B, NEW vr, Shape(tr, M, B, vr), IsFiniteSet(M),
         tr.root \notin tr.red,
         NEW H, Heights(tr.kid["left"], tr.kid["right"], tr.red, M, H, NULL, NULL)
  PROVE  \A t \in M : Levelled(tr, M, B, H, t)
<1>0. "left" \in Sides /\ "right" \in Sides /\ Sides = {"left", "right"} /\ Opposite("left") = "right"
  BY DEF Sides, Opposite
<1>1. PICK X : X = {t \in M : ~ Levelled(tr, M, B, H, t)}
  OBVIOUS
<1>2. NULL \notin M /\ H[tr.root] \in Nat /\ \A t \in M : H[t] \in Nat
  BY RootFacts DEF Heights
<1>3. ASSUME NEW t \in M PROVE IsFiniteSet(Blacks(tr, M, B, t)) /\ Cardinality(Blacks(tr, M, B, t)) \in Nat
  <2>1. Blacks(tr, M, B, t) \subseteq M
    BY DEF Blacks
  <2>. QED BY <2>1, FS_Subset, FS_CardinalityType
<1>4. ASSUME NEW t \in M, t = tr.root PROVE Levelled(tr, M, B, H, t)
  <2>1. Blacks(tr, M, B, t) = {t}
    <3>1. \A u \in M : t \in B[u] <=> u = t
      BY <1>4, AboveATask
    <3>. QED BY <3>1, <1>4 DEF Blacks
  <2>2. Cardinality(Blacks(tr, M, B, t)) = 1
    BY <2>1, FS_Singleton
  <2>. QED BY <2>2, <1>2, <1>4 DEF Levelled, One
<1>5. ASSUME NEW t \in M, t # tr.root, Levelled(tr, M, B, H, tr.parent[t])
      PROVE  Levelled(tr, M, B, H, t)
  <2>1. PICK p : p = tr.parent[t]
    OBVIOUS
  <2>2. /\ p \in M /\ p \notin B[t]
        /\ \A u \in M : t \in B[u] <=> u = t \/ p \in B[u]
    BY <1>5, <2>1, AboveATask
  <2>3. PICK b, c : b = Blacks(tr, M, B, p) /\ c = Blacks(tr, M, B, t)
    OBVIOUS
  <2>4. c = (IF t \in tr.red THEN b ELSE b \cup {t}) /\ t \notin b
    BY <2>2, <2>3 DEF Blacks
  <2>5. IsFiniteSet(b) /\ Cardinality(b) \in Nat /\ Cardinality(c) \in Nat
    BY <1>3, <2>2, <2>3
  <2>6. Cardinality(c) = Cardinality(b) + One(t \notin tr.red)
    <3>1. t \notin b /\ IsFiniteSet(b) => Cardinality(b \cup {t}) = Cardinality(b) + 1
      BY FS_AddElement
    <3>. QED BY <3>1, <2>4, <2>5 DEF One
  <2>7. H[p] = H[t] + One(p \notin tr.red)
    <3>1. tr.kid["left"][p] = t \/ tr.kid["right"][p] = t
      BY <1>0, <1>5, <2>1, RootFacts
    <3>2. p # NULL
      BY <1>2, <2>2
    <3>3. /\ H[p] = H[tr.kid["left"][p]] + One(p \notin tr.red) + One(p = NULL)
          /\ H[p] = H[tr.kid["right"][p]] + One(p \notin tr.red) + One(p = NULL)
      BY <2>2 DEF Heights
    <3>. QED BY <3>1, <3>2, <3>3, <1>2 DEF One
  <2>8. Cardinality(b) + H[p] = H[tr.root] + One(p \notin tr.red)
    BY <1>5, <2>1, <2>3 DEF Levelled
  <2>9. Cardinality(c) + H[t] = H[tr.root] + One(t \notin tr.red)
    <3>1. One(p \notin tr.red) \in Int /\ One(t \notin tr.red) \in Int
      BY DEF One
    <3>2. H[p] \in Nat /\ H[t] \in Nat /\ H[tr.root] \in Nat
      BY <1>2, <2>2
    <3> HIDE DEF One
    <3>. QED BY <3>1, <3>2, <2>5, <2>6, <2>7, <2>8
  <2>. QED BY <2>3, <2>5, <2>9 DEF Levelled
<1>6. ASSUME NEW t \in X PROVE tr.parent[t] \in X
  <2>1. t \in M /\ ~ Levelled(tr, M, B, H, t)
    BY <1>1
  <2>2. t # tr.root
    BY <2>1, <1>4
  <2>3. tr.parent[t] \in M
    BY <2>1, <2>2, RootFacts
  <2>. QED BY <1>1, <1>5, <2>1, <2>2, <2>3
<1>7. Shaped("left", tr.root, tr.kid["left"], tr.kid["right"], tr.parent, M, B, vr)
  BY <1>0, TreeFacts
<1>8. X = {}
  BY <1>1, <1>6, <1>7, AncestorInduction
<1>. QED BY <1>1, <1>8

LEMMA WholeIsBalanced ==
  ASSUME NEW B, NEW vr, Shape(tree, Queued, B, vr), Whole(tree, Queued)
  PROVE  Balanced
<1>0. Opposite("left") = "right" /\ Short(NULL, "left", "left") = NULL /\ Short(NULL, "left", "right") = NULL
  BY DEF Opposite, Short
<1>1. PICK H : /\ Heights(tree.kid["left"], tree.kid["right"], tree.red, Queued, H, NULL, NULL)
               /\ Calm(tree.root, tree.kid["left"], tree.kid["right"], tree.red, NULL, NULL)
  BY <1>0 DEF Whole, Coloured, Colours
<1>2. /\ NULL \notin Queued /\ tree.red \subseteq Queued /\ tree.root \in Queued \cup {NULL}
      /\ IsFiniteSet(Queued)
  BY RootFacts, TreeAssumption, FS_Subset
<1>3. tree.root \notin tree.red
  BY <1>1, <1>2 DEF Calm
<1>4. ASSUME NEW t \in tree.red PROVE tree.parent[t] \notin tree.red
  <2>1. t # tree.root /\ t \in Queued /\ t # NULL
    BY <1>2, <1>3
  <2>2. PICK z \in Sides : tree.kid[z][tree.parent[t]] = t /\ tree.parent[t] \in Queued
    BY <2>1, RootFacts
  <2>. QED BY <2>1, <2>2, <1>1, <1>2 DEF Calm, Sides
<1>5. \A t \in Queued : Levelled(tree, Queued, B, H, t)
  BY <1>1, <1>2, <1>3, EveryTaskLevelled
<1>6. /\ \A t \in Queued : Subtrees[t] = B[t]
  BY SubtreesAreBelow
<1>7. ASSUME NEW t \in Queued
      PROVE  {u \in Queued \ tree.red : t \in Subtrees[u]} = Blacks(tree, Queued, B, t)
  BY <1>6 DEF Blacks
<1>8. ASSUME NEW t \in Queued, NEW s \in Sides, tree.kid[s][t] = NULL
      PROVE  Cardinality(Blacks(tree, Queued, B, t)) = H[tree.root]
  <2>1. H[t] = One(t \notin tree.red)
    <3>1. t # NULL
      BY <1>2
    <3>2. /\ H[t] = H[tree.kid["left"][t]] + One(t \notin tree.red) + One(t = NULL)
          /\ H[t] = H[tree.kid["right"][t]] + One(t \notin tree.red) + One(t = NULL)
          /\ H[NULL] = 0
      BY <1>1 DEF Heights
    <3>. QED BY <3>1, <3>2, <1>8 DEF One, Sides
  <2>2. H[tree.root] \in Nat
    BY <1>1, <1>2 DEF Heights
  <2>3. /\ Cardinality(Blacks(tree, Queued, B, t)) \in Nat
        /\ Cardinality(Blacks(tree, Queued, B, t)) + H[t] = H[tree.root] + One(t \notin tree.red)
    BY <1>5 DEF Levelled
  <2>4. One(t \notin tree.red) \in Int
    BY DEF One
  <2>. QED BY <2>1, <2>2, <2>3, <2>4
<1>9. \E n \in 0 .. Cardinality(Queued) :
        \A t \in Queued, s \in Sides :
          tree.kid[s][t] = NULL => Cardinality(Blacks(tree, Queued, B, t)) = n
  <2>1. CASE \E t \in Queued, s \in Sides : tree.kid[s][t] = NULL
    <3>1. PICK t \in Queued, s \in Sides : tree.kid[s][t] = NULL
      BY <2>1
    <3>2. Blacks(tree, Queued, B, t) \subseteq Queued
      BY DEF Blacks
    <3>3. /\ Cardinality(Blacks(tree, Queued, B, t)) <= Cardinality(Queued)
          /\ Cardinality(Blacks(tree, Queued, B, t)) \in Nat /\ Cardinality(Queued) \in Nat
      BY <3>2, <1>2, FS_Subset, FS_CardinalityType
    <3>4. H[tree.root] \in 0 .. Cardinality(Queued)
      BY <3>1, <3>3, <1>8
    <3>. QED BY <3>4, <1>8
  <2>2. CASE ~ \E t \in Queued, s \in Sides : tree.kid[s][t] = NULL
    <3>1. 0 \in 0 .. Cardinality(Queued)
      BY <1>2, FS_CardinalityType
    <3>. QED BY <3>1, <2>2
  <2>. QED BY <2>1, <2>2
<1>10. \E n \in 0 .. Cardinality(Queued) :
         \A t \in {x \in Queued : NULL \in {tree.kid[s][x] : s \in Sides}} :
           Cardinality({u \in Queued \ tree.red : t \in Subtrees[u]}) = n
  BY <1>7, <1>9
<1>. QED BY <1>3, <1>4, <1>10 DEF Balanced

LEMMA AlwaysRedBlack == TreeInv => RedBlackTree
<1> SUFFICES ASSUME TreeInv, stage = "idle" PROVE ParentLinks /\ Balanced
  BY TreeTyped, NothingNullFollowed DEF RedBlackTree
<1>1. PICK B : /\ Shape(tree, Queued, B, vruntime)
               /\ AtStage(stage, tree, Queued, B, vruntime, given, node, above, val)
  BY InTheLoop
<1>2. Whole(tree, Queued)
  BY <1>1 DEF AtStage
<1>. QED BY <1>1, <1>2, ParentsLinked, WholeIsBalanced

-----------------------------------------------------------------------------
(* Every loop ends.                                                        *)

LEMMA ChildIsUnder ==
  ASSUME NEW M, NEW B, NEW vr, Shape(tree, M, B, vr), NEW z \in Sides, NEW x \in M
  PROVE  Under(tree.kid[z][x], x)
<1>1. /\ B[tree.kid[z][x]] \subseteq B[x] /\ x \in B[x] /\ x \notin B[tree.kid[z][x]]
      /\ tree.kid[z][x] \in M \cup {NULL}
  BY SideFacts
<1>2. /\ Subtrees[NULL] = {} /\ \A t \in M : Subtrees[t] = B[t]
      /\ B[NULL] = {}
  BY SubtreesAreBelow
<1>3. Subtrees[tree.kid[z][x]] = B[tree.kid[z][x]] /\ Subtrees[x] = B[x]
  BY <1>1, <1>2
<1>. QED BY <1>1, <1>3 DEF Under

LEMMA InsertDescendAdvances ==
  ASSUME TreeInv, InsertDescend
  PROVE  Advance
<1>1. stage = "descend" /\ node # NULL /\ tree' = tree
  BY DEF InsertDescend
<1>2. CASE CallReturns
  BY <1>1, <1>2 DEF CallReturns, Advance
<1>3. CASE Goto("descend", tree.kid[SideFrom(vruntime, given, node)][node], node)
  <2>1. PICK B : /\ Shape(tree, Members, B, vruntime)
                 /\ AtStage(stage, tree, Members, B, vruntime, given, node, above, val)
    BY DEF TreeInv
  <2>2. PICK z : z = SideFrom(vruntime, given, node)
    OBVIOUS
  <2>3. z \in Sides
    BY <2>2 DEF SideFrom, Sides
  <2>4. Descent(tree, Members, B, vruntime, given, node, above)
    BY <2>1, <1>1 DEF AtStage
  <2>5. node \in Members
    <3>1. CASE above = NULL
      BY <3>1, <2>1, <2>4, <1>1, RootFacts DEF Descent
    <3>2. CASE above # NULL
      <4>1. above \in Members /\ node = tree.kid[SideFrom(vruntime, given, above)][above]
        BY <3>2, <2>4 DEF Descent
      <4>2. SideFrom(vruntime, given, above) \in Sides
        BY DEF SideFrom, Sides
      <4>. QED BY <4>1, <4>2, <2>1, <1>1, SideFacts
    <3>. QED BY <3>1, <3>2
  <2>6. Under(tree.kid[z][node], node)
    BY <2>1, <2>3, <2>5, ChildIsUnder
  <2>7. node' = tree.kid[z][node]
    BY <1>3, <2>2 DEF Goto
  <2>. QED BY <1>1, <2>6, <2>7 DEF Advance
<1>. QED BY <1>2, <1>3 DEF InsertDescend

LEMMA SuccessorDescendAdvances ==
  ASSUME TreeInv, SuccessorDescend
  PROVE  Advance
<1>1. /\ stage = "successor" /\ tree' = tree /\ node' = tree.kid["left"][node]
  BY DEF SuccessorDescend, Goto
<1>2. PICK B : /\ Shape(tree, Queued, B, vruntime)
               /\ AtStage(stage, tree, Queued, B, vruntime, given, node, above, val)
  BY <1>1, InTheLoop
<1>3. Succession(tree, Queued, B, vruntime, given, node)
  BY <1>1, <1>2 DEF AtStage
<1>4. node \in Queued
  <2>1. given \in Queued /\ node \in B[tree.kid["right"][given]]
    BY <1>3 DEF Succession, Approach
  <2>. QED BY <2>1, <1>2, SideFacts DEF Sides
<1>5. Under(tree.kid["left"][node], node)
  BY <1>2, <1>4, ChildIsUnder DEF Sides
<1>. QED BY <1>1, <1>5 DEF Advance

LEMMA MinMaxDescendAdvances ==
  ASSUME TreeInv, MinMaxDescend
  PROVE  Advance
<1>1. stage = "minmax" /\ node # NULL /\ tree' = tree /\ node' = tree.kid[val][node]
  BY DEF MinMaxDescend, Goto
<1>2. PICK B : /\ Shape(tree, Queued, B, vruntime)
               /\ AtStage(stage, tree, Queued, B, vruntime, given, node, above, val)
  BY <1>1, InTheLoop
<1>3. Extremity(tree, Queued, B, vruntime, val, node, above)
  BY <1>1, <1>2 DEF AtStage
<1>4. val \in Sides /\ node \in Queued
  <2>1. CASE above = NULL
    BY <2>1, <1>1, <1>2, <1>3, RootFacts DEF Extremity
  <2>2. CASE above # NULL
    BY <2>2, <1>1, <1>2, <1>3, SideFacts DEF Extremity
  <2>. QED BY <2>1, <2>2
<1>5. Under(tree.kid[val][node], node)
  BY <1>2, <1>4, ChildIsUnder
<1>. QED BY <1>1, <1>5 DEF Advance

LEMMA InsertRecolorAdvances ==
  ASSUME TreeInv, InsertRecolor
  PROVE  Advance
<1>1. /\ stage = "insert_color" /\ Parent \in tree.red
      /\ tree' = [SetBlackRed(tree, Parent, Grandparent) EXCEPT !.red = @ \ {Uncle}]
      /\ node' = Grandparent
  BY DEF InsertRecolor, Goto
<1>2. PICK B : /\ Shape(tree, Queued, B, vruntime)
               /\ Family(tree, node, Parent, Grandparent, SideOf(tree, Grandparent, Parent))
               /\ Coloured(tree, Queued, NULL, "left", node, NULL)
  BY <1>1, RedParent
<1>3. tree'.kid = tree.kid
  <2>1. tree \in Trees
    BY <1>2 DEF Shape
  <2>. QED BY <2>1, <1>1 DEF SetBlackRed, Trees
<1>4. PICK p, q, s : p = Parent /\ q = Grandparent /\ s = SideOf(tree, q, p)
  OBVIOUS
<1>5. /\ p \in Queued /\ q \in Queued /\ s \in Sides /\ tree.kid[s][q] = p
      /\ tree.kid["left"][p] = node \/ tree.kid["right"][p] = node
  <2>1. Family(tree, node, p, q, s)
    BY <1>2, <1>4
  <2>. QED BY <2>1, <1>2, GrandparentFacts
<1>6. PICK z \in Sides : tree.kid[z][p] = node
  BY <1>5 DEF Sides
<1>7. Under(node, p) /\ Under(p, q)
  <2>1. Under(tree.kid[z][p], p) /\ Under(tree.kid[s][q], q)
    BY <1>2, <1>5, ChildIsUnder
  <2>. QED BY <2>1, <1>5, <1>6
<1>8. Under(node, q)
  BY <1>7 DEF Under
<1>. QED BY <1>1, <1>3, <1>4, <1>8 DEF Advance

LEMMA InsertRotateAdvances ==
  ASSUME TreeInv, InsertRotate
  PROVE  Advance
<1> DEFINE s == SideOf(tree, Grandparent, Parent)
<1>1. stage = "insert_color" /\ Parent \in tree.red /\ Uncle \notin tree.red /\ stage' = "insert_color"
  BY DEF InsertRotate, Goto
<1>2. PICK B : /\ Shape(tree, Queued, B, vruntime)
               /\ Family(tree, node, Parent, Grandparent, s)
               /\ Coloured(tree, Queued, NULL, "left", node, NULL)
  BY <1>1, RedParent
<1>3. PICK r : r = tree'
  OBVIOUS
<1>4. tree.kid[Opposite(s)][Grandparent] \notin tree.red
  BY <1>1 DEF Uncle
<1>5. r.parent[node'] \notin r.red
  <2>1. CASE tree.kid[Opposite(s)][Parent] # node
    <3>1. /\ r = Rotate(SetBlackRed(tree, Parent, Grandparent), Opposite(s), Grandparent)
          /\ node' = node
      BY <1>3, <2>1 DEF InsertRotate, Goto
    <3> HIDE DEF s
    <3>2. Rested(r, Queued, vruntime, node)
      BY ONLY <3>1, <1>2, <1>4, <2>1, OuterStep
    <3>. QED BY <3>1, <3>2 DEF Rested
  <2>2. CASE tree.kid[Opposite(s)][Parent] = node
    <3>1. PICK a : a = Rotate(tree, s, Parent)
      OBVIOUS
    <3>2. /\ r = Rotate(SetBlackRed(a, node, Grandparent), Opposite(s), Grandparent)
          /\ node' = Parent
      BY <3>1, <1>3, <2>2 DEF InsertRotate, Goto
    <3> HIDE DEF s
    <3>3. Rested(r, Queued, vruntime, Parent)
      BY ONLY <3>1, <3>2, <1>2, <1>4, <2>2, InnerStep
    <3>. QED BY <3>2, <3>3 DEF Rested
  <2>. QED BY <2>1, <2>2
<1>6. LastButOne'
  BY <1>1, <1>3, <1>5 DEF LastButOne, Parent
<1>. QED BY <1>1, <1>6 DEF Advance

LEMMA RemoveRecolorAdvances ==
  ASSUME TreeInv, RemoveRecolor
  PROVE  Advance
<1>1. PICK s, a, sib : /\ s = SideOf(tree, above, node) /\ a = BlackSibling(tree, s, above)
                       /\ sib = tree.kid[Opposite(s)][above]
  OBVIOUS
<1>2. /\ stage = "remove_color" /\ node \notin tree.red /\ node # tree.root
      /\ tree' = [a EXCEPT !.red = @ \cup {a.kid[Opposite(s)][above]}]
      /\ node' = above /\ stage' = "remove_color"
  BY <1>1 DEF RemoveRecolor, Goto
<1>3. PICK B : Shape(tree, Queued, B, vruntime) /\ Vacant(tree, Queued, s, node, above)
  BY <1>1, <1>2, ShortPlace
<1>4. /\ s \in Sides /\ above \in Queued /\ node = tree.kid[s][above]
      /\ Coloured(tree, Queued, above, s, NULL, NULL)
  BY <1>3 DEF Vacant
<1>5. CASE sib \notin tree.red
  <2>1. a = tree
    BY <1>1, <1>5 DEF BlackSibling
  <2>2. tree'.kid = tree.kid
    <3>1. tree \in Trees
      BY <1>3 DEF Shape
    <3>. QED BY <3>1, <2>1, <1>2 DEF Trees
  <2>3. Under(node, above)
    BY <1>3, <1>4, ChildIsUnder
  <2>. QED BY <2>2, <2>3, <1>2 DEF Advance
<1>6. CASE sib \in tree.red
  <2>1. PICK w : w = [tree EXCEPT !.red = (@ \ {sib}) \cup {above}]
    OBVIOUS
  <2>2. a = Rotate(w, s, above)
    BY <1>1, <1>6, <2>1 DEF BlackSibling, SetBlackRed
  <2>3. a.red = w.red /\ above \in w.red /\ a \in Trees
    <3>1. sib \in Queued /\ above \notin tree.red /\ sib # above
          /\ \A z \in Sides : tree.kid[z][sib] \notin tree.red
      BY <1>1, <1>3, <1>6, VacantSibling, RootFacts
    <3>2. SwapSite(tree, Queued, s, above, sib, NULL, above, s)
      BY <3>1, <1>1, <1>3, <1>4, <1>6 DEF SwapSite, Vacant
    <3>3. a = Rotate(SetBlackRed(tree, sib, above), s, above)
      BY <2>1, <2>2 DEF SetBlackRed
    <3>4. SwapDone(tree, a, Queued, vruntime, s, above, sib, above, s)
      BY ONLY <3>2, <3>3, <1>3, SwapRotate
    <3>5. w.red = (tree.red \ {sib}) \cup {above}
      BY <2>1, <1>3 DEF Shape, Trees
    <3>. QED BY <3>4, <3>5 DEF SwapDone, Shape
  <2>4. node' \in tree'.red
    BY <2>3, <1>2 DEF Trees
  <2>. QED BY <2>4, <1>2 DEF Advance, LastButOne
<1>. QED BY <1>5, <1>6

LEMMA FindDescendAdvances ==
  ASSUME TreeInv, FindDescend
  PROVE  Advance
<1>1. PICK s : s = SideFrom(SearchKeys, given, node)
  OBVIOUS
<1>2. /\ stage = "find" /\ node # NULL /\ tree' = tree /\ node' = tree.kid[s][node]
  BY <1>1 DEF FindDescend, FindEnds, Goto
<1>3. PICK B : /\ Shape(tree, Queued, B, vruntime)
               /\ AtStage(stage, tree, Queued, B, vruntime, given, node, above, val)
               /\ Hunt(tree, Queued, B, SearchKeys, given, node, above)
  BY <1>2, InTheHunt
<1>4. node \in Queued /\ s \in Sides
  BY <1>1, <1>2, <1>3 DEF Hunt, SideFrom, Sides
<1>5. Under(tree.kid[s][node], node)
  BY <1>3, <1>4, ChildIsUnder
<1>. QED BY <1>2, <1>5 DEF Advance

LEMMA NearDescendAdvances ==
  ASSUME TreeInv, NearDescend
  PROVE  Advance
<1>1. stage = "near" /\ tree' = tree /\ node' = tree.kid[Opposite(val)][node]
  BY DEF NearDescend, Goto
<1>2. PICK B : /\ Shape(tree, Queued, B, vruntime)
               /\ AtStage(stage, tree, Queued, B, vruntime, given, node, above, val)
  BY <1>1, InTheLoop
<1>3. val \in Sides /\ Approach(tree, Queued, B, vruntime, val, given, node)
  BY <1>1, <1>2 DEF AtStage
<1>4. node \in Queued
  <2>1. given \in Queued /\ node \in B[tree.kid[val][given]]
    BY <1>3 DEF Approach
  <2>. QED BY <2>1, <1>2, <1>3, SideFacts
<1>5. Under(tree.kid[Opposite(val)][node], node)
  BY <1>2, <1>3, <1>4, ChildIsUnder, OppositeSides
<1>. QED BY <1>1, <1>5 DEF Advance

LEMMA ClimbUpAdvances ==
  ASSUME TreeInv, ClimbUp
  PROVE  Advance
<1>1. PICK p : p = tree.parent[node]
  OBVIOUS
<1>2. /\ stage = "climb" /\ p # NULL /\ tree.kid[val][p] = node /\ tree' = tree /\ node' = p
  BY <1>1 DEF ClimbUp, ClimbEnds, Parent, Goto
<1>3. PICK B : /\ Shape(tree, Queued, B, vruntime)
               /\ AtStage(stage, tree, Queued, B, vruntime, given, node, above, val)
  BY <1>2, InTheLoop
<1>4. val \in Sides /\ Ascent(tree, Queued, B, vruntime, val, given, node)
  BY <1>2, <1>3 DEF AtStage
<1>5. p \in Queued
  BY <1>1, <1>2, <1>3, <1>4, AscentStep
<1>6. Under(tree.kid[val][p], p)
  BY <1>3, <1>4, <1>5, ChildIsUnder
<1>. QED BY <1>2, <1>6 DEF Advance

LEMMA OtherTurnsLeave ==
  ASSUME \/ InsertLink \/ InsertDone \/ TakeSuccessor \/ RemoveDone \/ RemoveRotate \/ MinMaxReturn
         \/ FindReturn \/ NeighbourReturn
         \/ \E t \in TREE_TASKS, v \in VRUNTIMES : TreeInsert(t, v) \/ TreeFind(t, v)
         \/ \E t \in TREE_TASKS : TreeRemove(t) \/ TreeRemoveInner(t)
         \/ \E s \in Sides : TreeMinMax(s)
         \/ \E s \in Sides, t \in TREE_TASKS : TreeNeighbour(s, t)
  PROVE  Advance
<1>1. CASE InsertLink
  BY <1>1 DEF InsertLink, Goto, Advance
<1>2. CASE InsertDone
  BY <1>2 DEF InsertDone, CallReturns, Advance
<1>3. CASE TakeSuccessor
  BY <1>3 DEF TakeSuccessor, RemoveFrom, Goto, CallReturns, Advance
<1>4. CASE RemoveDone
  BY <1>4, Zenon DEF RemoveDone, CallReturns, Advance
<1>5. CASE RemoveRotate
  BY <1>5, Zenon DEF RemoveRotate, CallReturns, Advance
<1>6. CASE MinMaxReturn
  BY <1>6 DEF MinMaxReturn, CallReturns, Advance
<1>7. CASE FindReturn
  BY <1>7 DEF FindReturn, CallReturns, Advance
<1>8. CASE NeighbourReturn
  BY <1>8 DEF NeighbourReturn, CallReturns, Advance
<1>9. CASE stage = "idle"
  BY <1>9 DEF Advance
<1>10. ASSUME NEW t \in TREE_TASKS, TreeRemove(t) \/ TreeRemoveInner(t) PROVE stage = "idle"
  BY <1>10 DEF TreeRemove, TreeRemoveInner
<1>11. ASSUME NEW t \in TREE_TASKS, NEW v \in VRUNTIMES, TreeInsert(t, v) \/ TreeFind(t, v)
       PROVE  stage = "idle"
  BY <1>11 DEF TreeInsert, TreeFind
<1>12. ASSUME NEW s \in Sides, TreeMinMax(s) PROVE stage = "idle"
  BY <1>12 DEF TreeMinMax
<1>13. ASSUME NEW s \in Sides, NEW t \in TREE_TASKS, TreeNeighbour(s, t) PROVE stage = "idle"
  BY <1>13 DEF TreeNeighbour
<1>. QED BY <1>1, <1>2, <1>3, <1>4, <1>5, <1>6, <1>7, <1>8, <1>9, <1>10, <1>11, <1>12, <1>13

LEMMA TreeStepAdvances ==
  ASSUME TreeInv, TreeNext
  PROVE  Advance
<1>1. CASE Turn
  BY <1>1, InsertDescendAdvances, SuccessorDescendAdvances, MinMaxDescendAdvances,
     InsertRecolorAdvances, InsertRotateAdvances, RemoveRecolorAdvances,
     FindDescendAdvances, NearDescendAdvances, ClimbUpAdvances, OtherTurnsLeave
     DEF Turn
<1>2. CASE ~ Turn
  BY <1>2, OtherTurnsLeave DEF TreeNext
<1>. QED BY <1>1, <1>2

-----------------------------------------------------------------------------

(* Between two calls the tree holds the tasks inserted and not removed, in *)
(* the order of cfs_task_cmp, and RB_MIN and RB_MAX return the least and   *)
(* the greatest: the ordered set that SchedCFS takes the run queue for.    *)
THEOREM TreeIsOrderedSet == TreeSpec => []OrderedSet
<1>1. TreeInv => OrderedSet
  BY QueuedInOrder, EndsExtreme DEF OrderedSet
<1>. QED BY <1>1, TreeAlways, PTL

(* Every call leaves a red-black tree, whatever the calls before it did    *)
(* (tree.h:402-587).                                                       *)
THEOREM StaysRedBlack == TreeSpec => []RedBlackTree
BY TreeAlways, AlwaysRedBlack, PTL

(* RB_INSERT_COLOR and RB_REMOVE_COLOR follow no null pointer: a red       *)
(* parent has a parent, a place that lacks a black task has a sibling.     *)
THEOREM FollowsNoNull == TreeSpec => []NoNullFollowed
BY TreeAlways, NothingNullFollowed, PTL

(* The searches find what they are for: RB_FIND the task if and only if it *)
(* is in the tree, RB_NFIND the first that is not less, RB_NEXT and        *)
(* RB_PREV the next one in order, or NULL where there is none.             *)
THEOREM SearchesFind == TreeSpec => []Navigation
<1>1. TreeInv => Navigation
  BY FindIsRight, NeighbourIsRight DEF Navigation
<1>. QED BY <1>1, TreeAlways, PTL

(* Every loop of RB_INSERT, RB_REMOVE, RB_MINMAX and of the searches ends: *)
(* it gets on with every turn, by a measure that a finite tree bounds.     *)
THEOREM LoopsEnd == TreeSpec => LoopsAdvance
<1>1. TreeInv /\ [TreeNext]_treeVars => [Advance]_treeVars
  BY TreeStepAdvances
<1>. QED BY <1>1, TreeAlways, PTL DEF TreeSpec, LoopsAdvance

=============================================================================
