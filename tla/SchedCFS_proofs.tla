--------------------------- MODULE SchedCFS_proofs ---------------------------
(***************************************************************************)
(* For every number of slots, workers, attempts, submissions and turns:    *)
(* the completely fair scheduler keeps every task in one place, no key     *)
(* changes under a tree, and it is a task pool whose wait may end too      *)
(* early, but only after a worker used up its attempts. The turns of each  *)
(* tree are fair until a stolen task submits another.                      *)
(***************************************************************************)
EXTENDS SchedCFSTurns, SchedPolicy_proofs, FiniteSetTheorems, WellFoundedInduction

InQueue(t) == \E q \in Workers : t \in runqueue[q]

QueueInv ==
  /\ runqueue \in [Workers -> SUBSET Tasks]
  /\ \A q, r \in Workers, t \in Tasks :
       t \in runqueue[q] /\ t \in runqueue[r] => q = r

KeysOK ==
  /\ min_vruntime \in [Workers -> Nat]
  /\ vruntime \in [Tasks -> Nat]
  /\ cfs_next_worker \in Workers

(* A task is at rest exactly while it is in a tree.                        *)
Places == \A t \in Tasks : IF InQueue(t) THEN AtRest(t) ELSE InOneHand(t)

Kept == PolicyInv /\ QueueInv /\ KeysOK /\ Places

LEMMA PlacesMeanPlaced == Places => AllPlaced
BY DEF Places, AllPlaced

LEMMA PlacesStay ==
  ASSUME Places,
         \A t \in Tasks : StaysPut(t) /\ (InQueue(t)' <=> InQueue(t))
  PROVE  Places'
BY DEF Places, StaysPut

LEMMA PlacesMoved ==
  ASSUME Places, NEW t \in Tasks,
         IF InQueue(t)' THEN AtRest(t)' ELSE InOneHand(t)',
         \A u \in Tasks \ {t} : StaysPut(u) /\ (InQueue(u)' <=> InQueue(u))
  PROVE  Places'
BY DEF Places, StaysPut

LEMMA KeptIsNotQueued ==
  ASSUME Places, NEW t \in Tasks, Keepers(t) # {} \/ state[t] # "RUNNABLE"
  PROVE  ~InQueue(t)
BY DEF Places, AtRest

-----------------------------------------------------------------------------
(* Trees.                                                                  *)

LEMMA LeastNatural ==
  ASSUME NEW S \in SUBSET Nat, S # {}
  PROVE  \E m \in S : \A n \in S : m <= n
<1>1. PICK m \in S : \A n \in S : <<n, m>> \notin OpToRel(<, Nat)
  BY NatLessThanWellFounded, WFMin
<1>2. \A n \in S : ~(n < m)
  BY <1>1 DEF OpToRel
<1>. QED  BY <1>2

(* A tree that is not empty has a leftmost task, one of its own, that      *)
(* comes before all others.                                                *)
LEMMA LeftmostIsQueued ==
  ASSUME vruntime \in [Tasks -> Nat], NEW S \in SUBSET Tasks, S # {}
  PROVE  /\ Leftmost(S) \in S
         /\ \A u \in S \ {Leftmost(S)} : Before(Leftmost(S), u)
<1>. DEFINE V == {vruntime[t] : t \in S}
<1>0. V \in SUBSET Nat /\ V # {}
  OBVIOUS
<1>1. PICK v \in V : \A n \in V : v <= n
  BY <1>0, LeastNatural
<1>. DEFINE L == {t \in S : vruntime[t] = v}
<1>2. L \in SUBSET Nat /\ L # {}
  <2>1. Tasks \subseteq Nat
    BY SchedyAssumption DEF Tasks
  <2>2. \E t \in S : vruntime[t] = v
    BY <1>1
  <2>. QED  BY <2>1, <2>2
<1>3. PICK t \in L : \A u \in L : t <= u
  BY <1>2, LeastNatural
<1>4. ASSUME NEW u \in S \ {t} PROVE Before(t, u)
  <2>1. vruntime[t] = v /\ v <= vruntime[u] /\ v \in Nat
    BY <1>0, <1>1
  <2>2. CASE u \in L
    <3>1. t <= u /\ t # u
      BY <1>3, <2>2
    <3>2. t \in Nat /\ u \in Nat /\ vruntime[u] = v
      BY <1>2, <2>2
    <3>. QED  BY <2>1, <3>1, <3>2 DEF Before
  <2>3. CASE u \notin L
    <3>1. vruntime[u] \in Nat /\ vruntime[u] # v
      BY <2>3
    <3>. QED  BY <2>1, <3>1 DEF Before
  <2>. QED  BY <2>2, <2>3
<1>. QED  BY <1>4 DEF Leftmost

LEMMA TakenOut ==
  ASSUME QueueInv, NEW q \in Workers, NEW t \in Tasks, t \in runqueue[q],
         TreeRemove(q, t)
  PROVE  /\ QueueInv' /\ InQueue(t) /\ ~InQueue(t)'
         /\ \A u \in Tasks \ {t} : InQueue(u)' <=> InQueue(u)
BY DEF QueueInv, TreeRemove, InQueue

LEMMA PutIn ==
  ASSUME QueueInv, NEW q \in Workers, NEW t \in Tasks, ~InQueue(t), Push(q, t)
  PROVE  /\ QueueInv' /\ InQueue(t)'
         /\ \A u \in Tasks \ {t} : InQueue(u)' <=> InQueue(u)
BY DEF QueueInv, Push, InQueue

LEMMA TreesStay ==
  ASSUME QueueInv, runqueue' = runqueue
  PROVE  QueueInv' /\ \A t \in Tasks : InQueue(t)' <=> InQueue(t)
BY DEF QueueInv, InQueue

-----------------------------------------------------------------------------
(* The steps of the run queues.                                            *)

LEMMA SearchKeeps ==
  ASSUME Kept, NEW w \in Workers,
         DequeueEmpty(w) \/ StealEmpty(w) \/ StealEnd(w)
  PROVE  Kept'
<1>. USE DEF Kept
<1>1. idx' \in [Workers -> Nat] /\ \A v \in Workers \ {w} : idx'[v] = idx[v]
  BY DEF DequeueEmpty, StealEmpty, StealEnd, ToVictim, NothingDequeued, Inside,
     PolicyInv, StateInv, LockInv, CoreTypeOK
<1>2. UNCHANGED cfsVars /\ UNCHANGED <<taskVars, cur, attempt, restVars>>
  BY DEF DequeueEmpty, StealEmpty, StealEnd, ToVictim, NothingDequeued, Inside
<1>3. \E from \in Searching, to \in (Searching \ {"acquire"}) \cup {"exited"} :
        Step(w, from, to)
  BY DEF DequeueEmpty, StealEmpty, StealEnd, ToVictim, NothingDequeued, Inside,
     Searching
<1>4. PolicyInv' /\ \A t \in Tasks : StaysPut(t)
  BY <1>1, <1>2, <1>3, SearchInv
<1>5. QueueInv' /\ \A t \in Tasks : InQueue(t)' <=> InQueue(t)
  BY <1>2, TreesStay DEF cfsVars
<1>. QED  BY <1>2, <1>4, <1>5, PlacesStay DEF KeysOK, cfsVars

LEMMA PopKeeps ==
  ASSUME Kept, NEW w \in Workers, NEW from \in Searching, NEW q \in Workers,
         Pop(w, from, q)
  PROVE  Kept'
<1>. USE DEF Kept
<1>1. PICK t : t = Leftmost(runqueue[q])
  OBVIOUS
<1>2. t \in Tasks /\ t \in runqueue[q]
  BY <1>1, LeftmostIsQueued DEF Pop, QueueInv, KeysOK
<1>3. Dequeued(w, from, t) /\ TreeRemove(q, t)
  BY <1>1 DEF Pop
<1>4. /\ QueueInv' /\ InQueue(t) /\ ~InQueue(t)'
      /\ \A u \in Tasks \ {t} : InQueue(u)' <=> InQueue(u)
  BY <1>2, <1>3, TakenOut
<1>5. AtRest(t)
  BY <1>2, <1>4 DEF Places
<1>6. PolicyInv' /\ InOneHand(t)' /\ \A u \in Tasks \ {t} : StaysPut(u)
  BY <1>2, <1>3, <1>5, DequeuedInv
<1>7. KeysOK'
  <2>. DEFINE rest == runqueue[q] \ {t}
              next == IF rest = {} THEN t ELSE Leftmost(rest)
  <2>1. next \in Tasks
    BY <1>2, LeftmostIsQueued DEF QueueInv, KeysOK
  <2>2. min_vruntime' = [min_vruntime EXCEPT ![q] = vruntime[next]]
    BY <1>1 DEF Pop
  <2>. HIDE DEF next
  <2>. QED  BY <2>1, <2>2 DEF Pop, KeysOK
<1>. QED  BY <1>2, <1>4, <1>6, <1>7, PlacesMoved

LEMMA TakingKeeps ==
  ASSUME Kept, NEW w \in Workers, DequeueOwn(w) \/ StealTask(w)
  PROVE  Kept'
<1>1. Victim(w) \in Workers
  BY VictimIsWorker DEF Kept
<1>. QED  BY <1>1, PopKeeps DEF DequeueOwn, StealTask, Searching

LEMMA OnSubmitKeeps ==
  ASSUME Kept, NEW w \in Workers, OnSubmit(w)
  PROVE  Kept'
<1>. USE DEF Kept
<1>1. Inside(w, "on_submit", "submit_insert") /\ pc[w] = "on_submit"
  BY DEF OnSubmit, Inside, Step
<1>2. PolicyInv' /\ \A t \in Tasks : StaysPut(t)
  BY <1>1, ApproachInv
<1>3. QueueInv' /\ \A t \in Tasks : InQueue(t)' <=> InQueue(t)
  BY TreesStay DEF OnSubmit
<1>4. worker[cur[w]] = w
  BY <1>1 DEF PolicyInv, StateInv, LockInv, LocalsInv, OnFiber, Submitting
<1>5. KeysOK'
  BY <1>4 DEF OnSubmit, KeysOK
<1>. QED  BY <1>2, <1>3, <1>5, PlacesStay

(* A worker inserts a task and lets it go.                                 *)
LEMMA InsertingKeeps ==
  ASSUME Kept, NEW w \in Workers, NEW t \in Tasks, w \in Keepers(t),
         Push(w, t), KeysOK',
         PolicyInv', AtRest(t)', \A u \in Tasks \ {t} : StaysPut(u)
  PROVE  Kept'
<1>. USE DEF Kept
<1>1. ~InQueue(t)
  BY KeptIsNotQueued
<1>2. /\ QueueInv' /\ InQueue(t)'
      /\ \A u \in Tasks \ {t} : InQueue(u)' <=> InQueue(u)
  BY <1>1, PutIn
<1>. QED  BY <1>2, PlacesMoved

LEMMA SubmitInsertKeeps ==
  ASSUME Kept, NEW w \in Workers, SubmitInsert(w)
  PROVE  Kept'
<1>. USE DEF Kept
<1>1. /\ Inside(w, "submit_insert", "submitted") /\ pc[w] = "submit_insert"
      /\ idx' = idx
  BY DEF SubmitInsert, Inside, Step
<1>2. PICK t \in Tasks : t = idx[w] /\ w \in Keepers(t)
  BY <1>1 DEF Keepers, PolicyInv, StateInv, LockInv, LocalsInv, OwnsSlot
<1>3. worker[cur[w]] = w
  BY <1>1 DEF PolicyInv, StateInv, LockInv, LocalsInv, OnFiber, Submitting
<1>4. PolicyInv' /\ AtRest(t)' /\ \A u \in Tasks \ {t} : StaysPut(u)
  BY <1>1, <1>2, PlacesMeanPlaced, InsertSubmittedInv DEF AtRest, Keepers
<1>5. KeysOK'
  BY DEF SubmitInsert, KeysOK
<1>. QED  BY <1>2, <1>3, <1>4, <1>5, InsertingKeeps DEF SubmitInsert

LEMMA PushBackKeys ==
  ASSUME KeysOK, NEW w \in Workers, NEW v \in Nat, PushBack(w, v)
  PROVE  KeysOK'
BY DEF PushBack, KeysOK

LEMMA OnYieldKeeps ==
  ASSUME Kept, NEW w \in Workers, OnYield(w)
  PROVE  Kept'
<1>. USE DEF Kept
<1>1. Inside(w, "on_yield", "unlock") /\ pc[w] = "on_yield" /\ cur' = cur
  BY DEF OnYield, Inside, Step
<1>2. PICK t \in Tasks : t = cur[w] /\ w \in Keepers(t)
  BY <1>1
  DEF Keepers, Owners, PolicyInv, StateInv, LockInv, LocalsInv, OwnsCur
<1>3. PolicyInv' /\ AtRest(t)' /\ \A u \in Tasks \ {t} : StaysPut(u)
  BY <1>1, <1>2, PlacesMeanPlaced, InsertYieldedInv DEF AtRest, Keepers
<1>4. KeysOK'
  BY <1>2, PushBackKeys DEF OnYield, KeysOK, VruntimeDelta
<1>. QED  BY <1>2, <1>3, <1>4, InsertingKeeps DEF OnYield, PushBack

LEMMA RequeueKeeps ==
  ASSUME Kept, NEW w \in Workers, Requeue(w)
  PROVE  Kept'
<1>. USE DEF Kept
<1>1. Retry(w, "requeue") /\ pc[w] = "requeue"
  BY DEF Requeue, Retry, Fail, Step
<1>2. PolicyInv'
  BY <1>1, PlacesMeanPlaced, RetryInv
<1>3. PICK t \in Tasks : /\ t = cur[w] /\ AtRest(t)'
                         /\ \A u \in Tasks \ {t} : StaysPut(u)
  BY <1>1, PlacesMeanPlaced, RetryInv
<1>4. w \in Keepers(t)
  BY <1>1, <1>3 DEF Keepers, InHand
<1>5. KeysOK'
  BY <1>3, PushBackKeys DEF Requeue, KeysOK
<1>. QED  BY <1>2, <1>3, <1>4, <1>5, InsertingKeeps DEF Requeue, PushBack

LEMMA MainKeeps ==
  ASSUME Kept, Main
  PROVE  Kept'
<1>. USE DEF Kept
<1>1. CASE CoreMain /\ UNCHANGED cfsVars
  <2>1. PolicyInv' /\ \A t \in Tasks : StaysPut(t)
    BY <1>1, CoreMainPolicyInv
  <2>2. QueueInv' /\ \A t \in Tasks : InQueue(t)' <=> InQueue(t)
    BY <1>1, TreesStay DEF cfsVars
  <2>. QED  BY <1>1, <2>1, <2>2, PlacesStay DEF cfsVars, KeysOK
<1>2. ASSUME NEW t \in Tasks, CFSSubmit(t) PROVE Kept'
  <2>1. PolicyInv' /\ AtRest(t)' /\ \A u \in Tasks \ {t} : StaysPut(u)
    BY <1>2, MainSubmitInv DEF CFSSubmit
  <2>2. state[t] = "ZOMBIE"
    BY <1>2, SchedyAssumption
    DEF CFSSubmit, MainSubmit, IsFree, PolicyInv, StateInv, SlotInv,
        MainInv, Resting, OnFiber, Submitting, LockInv, CoreTypeOK, States
  <2>3. /\ QueueInv' /\ InQueue(t)'
        /\ \A u \in Tasks \ {t} : InQueue(u)' <=> InQueue(u)
    BY <1>2, <2>2, KeptIsNotQueued, PutIn DEF CFSSubmit, KeysOK
  <2>4. NextQueue(cfs_next_worker) \in Workers
    BY SchedyAssumption DEF NextQueue, Workers, KeysOK
  <2>5. KeysOK'
    BY <1>2, <2>4 DEF CFSSubmit, KeysOK
  <2>. QED  BY <2>1, <2>3, <2>5, PlacesMoved
<1>3. CASE CFSReinit
  <2>1. PolicyInv' /\ \A t \in Tasks : InOneHand(t)'
    BY <1>3, ReinitInv DEF CFSReinit
  <2>2. QueueInv' /\ \A t \in Tasks : ~InQueue(t)'
    BY <1>3 DEF CFSReinit, QueueInv, InQueue
  <2>3. KeysOK'
    BY <1>3, SchedyAssumption DEF CFSReinit, KeysOK, Workers
  <2>. QED  BY <2>1, <2>2, <2>3 DEF Places
<1>. QED  BY <1>1, <1>2, <1>3 DEF Main

LEMMA NextKept == Kept /\ [Next]_vars => Kept'
<1>. SUFFICES ASSUME Kept, [Next]_vars PROVE Kept'
  OBVIOUS
<1>1. ASSUME NEW w \in Workers, Runqueue(w) PROVE Kept'
  BY <1>1, SearchKeeps, TakingKeeps, OnSubmitKeeps, SubmitInsertKeeps,
     OnYieldKeeps, RequeueKeeps DEF Runqueue
<1>2. ASSUME NEW w \in Workers, PolicyWorker(w), UNCHANGED cfsVars PROVE Kept'
  <2>1. PolicyInv' /\ \A t \in Tasks : StaysPut(t)
    BY <1>2, PolicyWorkerInv, PlacesMeanPlaced DEF Kept
  <2>2. QueueInv' /\ \A t \in Tasks : InQueue(t)' <=> InQueue(t)
    BY <1>2, TreesStay DEF Kept, cfsVars
  <2>. QED  BY <1>2, <2>1, <2>2, PlacesStay DEF Kept, KeysOK, cfsVars
<1>3. CASE UNCHANGED vars
  <2>1. PolicyInv' /\ \A t \in Tasks : StaysPut(t)
    BY <1>3, StutterPolicyInv DEF Kept, vars
  <2>2. QueueInv' /\ \A t \in Tasks : InQueue(t)' <=> InQueue(t)
    BY <1>3, TreesStay DEF Kept, vars, cfsVars
  <2>. QED  BY <1>3, <2>1, <2>2, PlacesStay DEF Kept, KeysOK, vars, cfsVars
<1>. QED  BY <1>1, <1>2, <1>3, MainKeeps DEF Next, Worker

LEMMA InitKept == Init => Kept
<1>. SUFFICES ASSUME Init PROVE Kept
  OBVIOUS
<1>1. PolicyInv /\ \A t \in Tasks : InOneHand(t)
  BY InitPolicyInv DEF Init
<1>2. QueueInv /\ \A t \in Tasks : ~InQueue(t)
  BY DEF Init, QueueInv, InQueue
<1>3. KeysOK
  BY SchedyAssumption DEF Init, KeysOK, Workers
<1>. QED  BY <1>1, <1>2, <1>3 DEF Kept, Places

LEMMA CFSInductive == Spec => []Kept
BY InitKept, NextKept, PTL DEF Spec

-----------------------------------------------------------------------------
(* What the invariant means.                                               *)

(* A worker switches only into contexts that can be resumed, although      *)
(* other workers steal tasks before their locks are free.                  *)
THEOREM CFSSwitchTargetsReady == Spec => []SwitchTargetReady
BY StateMeansReady, CFSInductive, PTL DEF Kept, PolicyInv

(* A fiber is on one worker at most, the one task->worker names: on_submit *)
(* finds the queue of its own worker by it.                                *)
THEOREM CFSWorkerPointers == Spec => []WorkerPointer
BY StateMeansPointers, CFSInductive, PTL DEF Kept, PolicyInv

(* The requeue of a dequeued task that is locked but not runnable is never *)
(* reached under this policy either.                                       *)
THEOREM CFSDequeuedIsRunnable == Spec => []DequeuedIsRunnable
<1>1. Kept => DequeuedIsRunnable
  BY CheckedIsReady, PlacesMeanPlaced DEF Kept, DequeuedIsRunnable
<1>. QED  BY <1>1, CFSInductive, PTL

LEMMA RunqueueConserves ==
  ASSUME StateInv, Conservation, NEW w \in Workers, Runqueue(w)
  PROVE  Conservation'
<1>1. UNCHANGED <<taskVars, restVars>>
  BY DEF Runqueue, DequeueOwn, DequeueEmpty, StealTask, StealEmpty, StealEnd, OnSubmit,
     SubmitInsert, OnYield, Requeue, Pop, ToVictim, NothingDequeued, Inside,
     Dequeued, Retry
<1>2. \E from \in ProgramPoints \ {"submit", "fill", "abort"},
        to \in ProgramPoints \ {"submit", "fill", "abort"} : Step(w, from, to)
  BY DEF Runqueue, DequeueOwn, DequeueEmpty, StealTask, StealEmpty, StealEnd, OnSubmit,
     SubmitInsert, OnYield, Requeue, Pop, ToVictim, NothingDequeued, Inside,
     Dequeued, Retry, Fail, Step, ProgramPoints, OwnsCur, OnFiber, Submitting
<1>. QED  BY <1>1, <1>2, QueueStepConserves

LEMMA NextConserves == Kept /\ Conservation /\ [Next]_vars => Conservation'
<1>. SUFFICES ASSUME Kept, Conservation, [Next]_vars PROVE Conservation'
  OBVIOUS
<1>. USE DEF Kept, PolicyInv
<1>1. ASSUME NEW w \in Workers, Runqueue(w) PROVE Conservation'
  BY <1>1, RunqueueConserves
<1>2. ASSUME NEW w \in Workers, PolicyWorker(w) PROVE Conservation'
  BY <1>2, PolicyWorkerConserves
<1>3. CASE Main /\ ~Aborted
  BY <1>3, MainConserves DEF Main, MainStep, Aborted, CFSSubmit, CFSReinit
<1>4. CASE UNCHANGED vars
  BY <1>4, QuietConserves DEF vars, coreVars, taskVars, slotVars, workerVars, mainVars
<1>. QED  BY <1>1, <1>2, <1>3, <1>4 DEF Next, Worker

(* No submission is lost from the count, whatever the order of steals,     *)
(* retries and workers that leave: tasks that tasks_wait leaves behind are *)
(* still live.                                                             *)
THEOREM CFSSubmissionsConserved == Spec => []Conservation
<1>1. Init => Conservation
  BY InitConserves DEF Init
<1>. QED  BY <1>1, CFSInductive, NextConserves, PTL DEF Spec

(* Task locks exclude under this policy too.                               *)
THEOREM CFSExclusion == Spec => []MutualExclusion
<1>1. Kept => MutualExclusion
  BY DEF Kept, PolicyInv, StateInv, LockInv
<1>. QED  BY <1>1, CFSInductive, PTL

LEMMA QueuedOnce ==
  ASSUME QueueInv, NEW t \in Tasks
  PROVE  Queued(t) = IF InQueue(t) THEN 1 ELSE 0
<1>. DEFINE S == {w \in Workers : t \in runqueue[w]}
<1>1. CASE ~InQueue(t)
  <2>1. S = {}
    BY <1>1 DEF InQueue
  <2>. QED  BY <1>1, <2>1, FS_EmptySet DEF Queued
<1>2. CASE InQueue(t)
  <2>1. PICK q : S = {q}
    BY <1>2 DEF InQueue, QueueInv
  <2>. QED  BY <1>2, <2>1, FS_Singleton DEF Queued
<1>. QED  BY <1>1, <1>2

LEMMA KeptMeansOnePlace == Kept => OnePlace
<1>. SUFFICES ASSUME Kept, NEW t \in Tasks PROVE PlacedOnce(t, Queued(t))
  BY DEF OnePlace
<1>1. Queued(t) = IF InQueue(t) THEN 1 ELSE 0
  BY QueuedOnce DEF Kept
<1>2. IF InQueue(t) THEN AtRest(t) ELSE InOneHand(t)
  BY DEF Kept, Places
<1>3. CASE Keepers(t) = {}
  <2>1. Cardinality(Keepers(t)) = 0
    BY <1>3, FS_EmptySet
  <2>. QED  BY <1>1, <1>2, <1>3, <2>1 DEF PlacedOnce, AtRest, InOneHand
<1>4. CASE Keepers(t) # {}
  <2>1. ~InQueue(t) /\ InOneHand(t)
    BY <1>2, <1>4 DEF AtRest
  <2>2. PICK w : Keepers(t) = {w}
    BY <1>4, <2>1 DEF InOneHand
  <2>3. Cardinality(Keepers(t)) = 1
    BY <2>2, FS_Singleton
  <2>. QED  BY <1>1, <1>4, <2>1, <2>3 DEF PlacedOnce, InOneHand
<1>. QED  BY <1>3, <1>4

(* No task is lost from the trees, and none is in two of them or in one    *)
(* while a worker has it.                                                  *)
THEOREM CFSOnePlace == Spec => []OnePlace
BY KeptMeansOnePlace, CFSInductive, PTL

(* A task that tasks_wait leaves behind is in one tree, runnable and free  *)
(* of locks: no task ends half way between a tree and a worker.            *)
THEOREM CFSLostAreQueued == Spec => [](\A t \in Tasks : LeftInOrder(t, Queued(t)))
<1>1. ASSUME Kept, NEW t \in Tasks PROVE Queued(t) \in Nat
  BY <1>1, QueuedOnce DEF Kept
<1>2. Kept /\ OnePlace => \A t \in Tasks : LeftInOrder(t, Queued(t))
  BY <1>1, WaitedLeavesInOrder DEF Kept, OnePlace
<1>. QED  BY <1>2, CFSOnePlace, CFSInductive, PTL

(* No vruntime changes while its task is in a tree, although requeue       *)
(* writes it without the task's lock: every tree stays sorted.             *)
THEOREM CFSKeyStable == Spec => KeyStable
<1>. DEFINE Stable == \A w \in Workers : \A t \in runqueue[w] \cap runqueue'[w] :
                        vruntime'[t] = vruntime[t]
<1>1. Kept /\ [Next]_vars => [Stable]_vars
  <2>. SUFFICES ASSUME Kept, Next, NEW q \in Workers,
                       NEW t \in runqueue[q] \cap runqueue'[q]
                PROVE  vruntime'[t] = vruntime[t]
    OBVIOUS
  <2>1. t \in Tasks /\ Keepers(t) = {} /\ state[t] = "RUNNABLE"
    BY DEF Kept, QueueInv, Places, InQueue, AtRest
  <2>2. ASSUME NEW w \in Workers, OnSubmit(w) PROVE vruntime'[t] = vruntime[t]
    <3>1. t # idx[w]
      BY <2>1, <2>2 DEF OnSubmit, Inside, Step, Keepers
    <3>. QED  BY <2>2, <3>1 DEF OnSubmit, Kept, KeysOK
  <2>3. ASSUME NEW w \in Workers, OnYield(w) \/ Requeue(w)
        PROVE  vruntime'[t] = vruntime[t]
    <3>1. t # cur[w]
      BY <2>1, <2>3
      DEF OnYield, Requeue, Inside, Retry, Fail, Step, Keepers, InHand, Owners
    <3>2. \E v : vruntime' = [vruntime EXCEPT ![cur[w]] = v]
      BY <2>3 DEF OnYield, Requeue, PushBack
    <3>. QED  BY <2>1, <3>1, <3>2 DEF Kept, KeysOK
  <2>4. ASSUME NEW w \in Workers, Worker(w),
               ~OnSubmit(w), ~OnYield(w), ~Requeue(w)
        PROVE  vruntime'[t] = vruntime[t]
    BY <2>4
    DEF Worker, Runqueue, DequeueOwn, DequeueEmpty, StealTask, StealEmpty,
        StealEnd, SubmitInsert, Pop, ToVictim, cfsVars
  <2>5. ASSUME NEW u \in Tasks, CFSSubmit(u) PROVE vruntime'[t] = vruntime[t]
    <3>1. state[u] = "ZOMBIE"
      BY <2>5, SchedyAssumption
      DEF CFSSubmit, MainSubmit, IsFree, Kept, PolicyInv, StateInv, SlotInv,
          MainInv, Resting, OnFiber, Submitting, LockInv, CoreTypeOK, States
    <3>. QED  BY <2>1, <2>5, <3>1 DEF CFSSubmit, Kept, KeysOK
  <2>6. CASE CFSReinit
    BY <2>6 DEF CFSReinit
  <2>7. CASE (CoreMain /\ UNCHANGED cfsVars) \/ UNCHANGED vars
    BY <2>7 DEF cfsVars, vars
  <2>. QED  BY <2>2, <2>3, <2>4, <2>5, <2>6, <2>7 DEF Next, Main
<1>. QED  BY <1>1, CFSInductive, PTL DEF Spec, KeyStable

-----------------------------------------------------------------------------
(* The trees implement a pool whose wait may end too early.                *)

LEMMA RunqueueRefines ==
  ASSUME NEW w \in Workers, Runqueue(w) PROVE UNCHANGED Pool!poolVars
<1>1. state' = state /\ lock' = lock /\ mpc' = mpc
  BY DEF Runqueue, DequeueOwn, DequeueEmpty, StealTask, StealEmpty, StealEnd,
     OnSubmit, SubmitInsert, OnYield, Requeue, Pop, ToVictim, NothingDequeued,
     Inside, Dequeued, Retry, taskVars, slotVars, restVars, mainVars
<1>. QED  BY <1>1, QuietRefines

LEMMA StepRefinesLossy ==
  Kept /\ [Next]_vars =>
    [Pool!Operate \/ Pool!CloseEarly \/ Pool!Forget]_(Pool!poolVars)
<1>. SUFFICES ASSUME Kept, [Next]_vars
              PROVE  [Pool!Operate \/ Pool!CloseEarly \/ Pool!Forget]_(Pool!poolVars)
  OBVIOUS
<1>. USE DEF Kept
<1>1. ASSUME NEW w \in Workers, Worker(w)
      PROVE  Pool!Operate \/ UNCHANGED Pool!poolVars
  BY <1>1, RunqueueRefines, PolicyWorkerRefines, PlacesMeanPlaced DEF Worker
<1>2. CASE CoreMain
  BY <1>2, WaitRefines, QuietMainRefines
<1>3. ASSUME NEW t \in Tasks, CFSSubmit(t) PROVE Pool!Operate
  BY <1>3, MainRefines DEF CFSSubmit, PolicyInv
<1>4. CASE CFSReinit
  BY <1>4, ReinitRefines DEF CFSReinit
<1>5. CASE UNCHANGED vars
  BY <1>5, IdleRefines DEF vars
<1>. QED  BY <1>1, <1>2, <1>3, <1>4, <1>5 DEF Next, Main

(* What a caller sees under this policy: a task pool, except that its wait *)
(* may end while tasks are left.                                           *)
THEOREM CFSRefinesLossyPool == Spec => ImplementsLossyPool
<1>1. Init => Pool!Init
  BY InitRefines DEF Init
<1>. QED  BY <1>1, StepRefinesLossy, CFSInductive, PTL
     DEF Spec, ImplementsLossyPool, Pool!LossySpec

-----------------------------------------------------------------------------
(* Only retries lose tasks.                                                *)

Diligent == \A w \in Workers : FoundNone(w) => runqueue[w] = {}

LEMMA RunqueueDiligent ==
  ASSUME Kept, Diligent, NEW w \in Workers, Runqueue(w)
  PROVE  Diligent'
<1>. USE DEF Diligent, Kept, PolicyInv, StateInv, LockInv, CoreTypeOK
<1>1. CASE DequeueEmpty(w) \/ StealEmpty(w) \/ StealEnd(w)
  <2>1. /\ UNCHANGED <<runqueue, attempt>>
        /\ \A v \in Workers \ {w} : pc'[v] = pc[v]
        /\ pc[w] = "steal" \/ runqueue[w] = {}
    BY <1>1
    DEF DequeueEmpty, StealEmpty, StealEnd, ToVictim, NothingDequeued, Inside,
        Step, cfsVars
  <2>. QED  BY <2>1 DEF FoundNone
<1>2. ASSUME NEW q \in Workers, NEW from, Pop(w, from, q) PROVE Diligent'
  <2>1. /\ \A v \in Workers : runqueue'[v] \subseteq runqueue[v]
        /\ pc'[w] = "try_lock"
        /\ \A v \in Workers \ {w} : pc'[v] = pc[v] /\ attempt'[v] = attempt[v]
    BY <1>2 DEF Pop, Dequeued, Step, TreeRemove, QueueInv
  <2>. QED  BY <2>1 DEF FoundNone
<1>3. CASE OnSubmit(w)
  BY <1>3 DEF OnSubmit, Inside, Step, FoundNone
<1>4. ASSUME \A v \in Workers : FoundNone(v)' => FoundNone(v) /\ v # w,
             NEW t, Push(w, t)
      PROVE  Diligent'
  BY <1>4 DEF Push, QueueInv
<1>5. CASE SubmitInsert(w)
  <2>1. worker[cur[w]] = w
    BY <1>5 DEF SubmitInsert, Inside, Step, LocalsInv, OnFiber, Submitting
  <2>2. \A v \in Workers : FoundNone(v)' => FoundNone(v) /\ v # w
    BY <1>5 DEF SubmitInsert, Inside, Step, FoundNone
  <2>. QED  BY <1>4, <1>5, <2>1, <2>2 DEF SubmitInsert
<1>6. CASE OnYield(w)
  <2>1. \A v \in Workers : FoundNone(v)' => FoundNone(v) /\ v # w
    BY <1>6 DEF OnYield, Inside, Step, FoundNone
  <2>. QED  BY <1>4, <1>6, <2>1 DEF OnYield, PushBack
<1>7. CASE Requeue(w)
  BY <1>4, <1>7, RetryIsCounted DEF Requeue, PushBack
<1>8. Victim(w) \in Workers
  BY VictimIsWorker DEF Kept
<1>. QED  BY <1>1, <1>2, <1>3, <1>5, <1>6, <1>7, <1>8
     DEF Runqueue, DequeueOwn, StealTask

LEMMA NextDiligent ==
  ASSUME Kept, Diligent, [Next]_vars
  PROVE  Diligent'
<1>1. ASSUME NEW w \in Workers, PolicyWorker(w), UNCHANGED cfsVars
      PROVE  Diligent'
  BY <1>1, PolicyWorkerFindsSome, PlacesMeanPlaced DEF Diligent, Kept, cfsVars
<1>2. CASE Main
  <2>1. CASE CoreMain /\ UNCHANGED cfsVars
    BY <2>1, MainFindsSome, SchedyAssumption DEF Diligent, Kept, cfsVars, Tasks
  <2>2. ASSUME NEW t \in Tasks, CFSSubmit(t) PROVE Diligent'
    <3>1. \A w \in Workers : pc[w] = "unborn"
      BY <2>2 DEF CFSSubmit, MainSubmit, Kept, PolicyInv, StateInv, MainInv
    <3>. QED  BY <2>2, <3>1, MainFindsSome DEF CFSSubmit, Diligent, Kept
  <2>3. CASE CFSReinit
    BY <2>3 DEF CFSReinit, Diligent
  <2>. QED  BY <1>2, <2>1, <2>2, <2>3 DEF Main
<1>3. CASE UNCHANGED vars
  BY <1>3 DEF vars, coreVars, workerVars, cfsVars, Diligent, FoundNone
<1>. QED  BY <1>1, <1>2, <1>3, RunqueueDiligent DEF Next, Worker

LEMMA DiligentInductive == Spec => [](Kept /\ Diligent)
<1>1. Init => Diligent
  BY DEF Init, Diligent
<1>2. Kept /\ Diligent /\ [Next]_vars => Diligent'
  BY NextDiligent
<1>. QED  BY <1>1, <1>2, CFSInductive, PTL DEF Spec

(* After the wait, a task that is not done is in the tree of a worker that *)
(* used up its attempts.                                                   *)
LEMMA DiligentMeansRetried == Kept /\ Diligent => OnlyRetriesLose
<1>. SUFFICES ASSUME Kept, Diligent, NEW t \in Tasks,
                     mpc \in {"joined", "destroyed"}, state[t] # "ZOMBIE"
              PROVE  \E w \in Workers : t \in runqueue[w] /\ attempt[w] >= ATTEMPTS
  BY DEF OnlyRetriesLose, LostToRetries, PoolWaited
<1>1. PICK w \in Workers : t \in runqueue[w]
  BY WaitedKeepsNone DEF Kept, Places, InQueue
<1>2. pc[w] = "exited" /\ attempt[w] \in Nat
  BY DEF Kept, PolicyInv, StateInv, MainInv, LockInv, CoreTypeOK
<1>. QED  BY <1>1, <1>2, SchedyAssumption DEF Diligent, FoundNone

(* Whatever the number of workers and the order of their steals: a task    *)
(* that tasks_wait leaves behind is in the tree of a worker that gave up   *)
(* after its last attempt (schedy.c:246), not of one that found no task.   *)
THEOREM CFSOnlyRetriesLose == Spec => []OnlyRetriesLose
BY DiligentInductive, DiligentMeansRetried, PTL

(* As long as no worker uses up its attempts, the trees keep every promise *)
(* of TaskPool, tasks_wait included, for any number of workers that steal. *)
THEOREM CFSRefinesTaskPoolWithinAttempts ==
  Spec /\ [](\A w \in Workers : attempt[w] < ATTEMPTS) => Pool!Spec
<1>. DEFINE Spared == \A w \in Workers : attempt[w] < ATTEMPTS
<1>1. Init => Pool!Init
  BY InitRefines DEF Init
<1>2. Kept /\ Diligent /\ Spared => WaitMeansDone
  <2>. SUFFICES ASSUME Kept, OnlyRetriesLose, Spared PROVE WaitMeansDone
    BY DiligentMeansRetried
  <2>1. \A w \in Workers : ~(attempt[w] >= ATTEMPTS)
    BY SchedyAssumption DEF Kept, PolicyInv, StateInv, LockInv, CoreTypeOK
  <2>. QED  BY <2>1 DEF OnlyRetriesLose, LostToRetries, WaitMeansDone, PoolWaited
<1>3. ASSUME Kept, WaitMeansDone, WaitMeansDone', [Next]_vars
      PROVE  [Pool!Next]_(Pool!poolVars)
  <2>. USE <1>3 DEF Kept
  <2>1. ASSUME NEW w \in Workers, Worker(w) PROVE [Pool!Next]_(Pool!poolVars)
    BY <2>1, RunqueueRefines, PolicyWorkerRefines, PlacesMeanPlaced
    DEF Worker, Pool!Next
  <2>2. CASE Wait
    BY <2>2, DoneWaitRefines DEF Wait, WaitMeansDone, taskVars, slotVars, Pool!Next
  <2>3. CASE CoreMain /\ ~Wait
    BY <2>3, QuietMainRefines
  <2>4. ASSUME NEW t \in Tasks, CFSSubmit(t) PROVE [Pool!Next]_(Pool!poolVars)
    BY <2>4, MainRefines DEF CFSSubmit, PolicyInv, Pool!Next
  <2>5. CASE CFSReinit
    BY <2>5, DoneReinitRefines DEF CFSReinit, Reinit, WaitMeansDone, Pool!Next
  <2>6. CASE UNCHANGED vars
    BY <2>6, IdleRefines DEF vars
  <2>. QED  BY <2>1, <2>2, <2>3, <2>4, <2>5, <2>6 DEF Next, Main
<1>. QED  BY <1>1, <1>2, <1>3, DiligentInductive, PTL DEF Spec, Pool!Spec

-----------------------------------------------------------------------------
(* Types: a turn that ends in a yield is charged only to a fiber that has  *)
(* not used up its bound, and min_vruntime is the vruntime of some task.   *)

YieldDue(w) ==
  pc[w] = "on_yield" \/ (pc[w] = "release" /\ state[cur[w]] = "RUNNING")

Bounded ==
  /\ min_vruntime \in [Workers -> 0 .. MAX_VRUNTIME]
  /\ vruntime \in [Tasks -> 0 .. MAX_VRUNTIME]
  /\ \A w \in Workers : YieldDue(w) => vruntime[cur[w]] < MAX_VRUNTIME

(* Only its keeper writes the vruntime of a task that is in no tree.       *)
LEMMA ChargeBounded ==
  ASSUME Kept, Bounded, NEW w \in Workers, NEW t \in Tasks, w \in Keepers(t),
         ~YieldDue(w)', UNCHANGED <<state, min_vruntime>>,
         \A v \in Workers \ {w} : pc'[v] = pc[v] /\ cur'[v] = cur[v],
         NEW n \in 0 .. MAX_VRUNTIME, vruntime' = [vruntime EXCEPT ![t] = n]
  PROVE  Bounded'
<1>1. ASSUME NEW v \in Workers, YieldDue(v)'
      PROVE  vruntime'[cur'[v]] < MAX_VRUNTIME
  <2>1. v # w /\ pc'[v] = pc[v] /\ cur'[v] = cur[v]
    BY <1>1
  <2>2. YieldDue(v)
    BY <1>1, <2>1 DEF YieldDue
  <2>3. v \in Keepers(cur[v]) /\ cur[v] \in Tasks
    BY <2>2
    DEF YieldDue, Keepers, Owners, Kept, PolicyInv, StateInv, LockInv,
        LocalsInv, OwnsCur
  <2>4. cur[v] # t
    BY <2>1, <2>3 DEF Kept, Places, AtRest, InOneHand
  <2>. QED  BY <2>1, <2>2, <2>3, <2>4 DEF Bounded
<1>. QED  BY <1>1 DEF Bounded

(* Nor does a step that moves no worker towards a yield.                   *)
LEMMA QuietBounded ==
  ASSUME Bounded, UNCHANGED vruntime,
         min_vruntime' \in [Workers -> 0 .. MAX_VRUNTIME],
         \A w \in Workers : YieldDue(w)' => YieldDue(w) /\ cur'[w] = cur[w]
  PROVE  Bounded'
BY DEF Bounded

LEMMA SearchBounded ==
  ASSUME Kept, Bounded, NEW w \in Workers,
         DequeueEmpty(w) \/ StealEmpty(w) \/ StealEnd(w)
  PROVE  Bounded'
<1>1. /\ UNCHANGED <<vruntime, min_vruntime, cur, state>>
      /\ \E to \in {"steal", "exited"} : pc' = [pc EXCEPT ![w] = to]
  BY DEF DequeueEmpty, StealEmpty, StealEnd, ToVictim, NothingDequeued, Inside,
     cfsVars, Step, taskVars, slotVars
<1>2. \A v \in Workers : YieldDue(v)' => YieldDue(v) /\ cur'[v] = cur[v]
  BY <1>1 DEF YieldDue, Kept, PolicyInv, StateInv, LockInv, CoreTypeOK
<1>. QED  BY <1>1, <1>2, QuietBounded DEF Bounded

LEMMA PopBounded ==
  ASSUME Kept, Bounded, NEW w \in Workers, NEW from, NEW q \in Workers,
         Pop(w, from, q)
  PROVE  Bounded'
<1>1. PICK t : t = Leftmost(runqueue[q])
  OBVIOUS
<1>. DEFINE rest == runqueue[q] \ {t}
            next == IF rest = {} THEN t ELSE Leftmost(rest)
<1>2. next \in Tasks
  BY <1>1, LeftmostIsQueued DEF Pop, Kept, QueueInv, KeysOK
<1>3. /\ min_vruntime' = [min_vruntime EXCEPT ![q] = vruntime[next]]
      /\ UNCHANGED vruntime /\ Dequeued(w, from, t)
  BY <1>1 DEF Pop
<1>. HIDE DEF next
<1>4. min_vruntime' \in [Workers -> 0 .. MAX_VRUNTIME]
  BY <1>2, <1>3 DEF Bounded
<1>5. \A v \in Workers : YieldDue(v)' => YieldDue(v) /\ cur'[v] = cur[v]
  BY <1>3
  DEF Dequeued, Step, YieldDue, taskVars, slotVars, Kept, PolicyInv, StateInv,
      LockInv, CoreTypeOK
<1>. QED  BY <1>3, <1>4, <1>5, QuietBounded

LEMMA OnSubmitBounded ==
  ASSUME Kept, Bounded, NEW w \in Workers, OnSubmit(w)
  PROVE  Bounded'
<1>1. /\ pc[w] = "on_submit" /\ pc' = [pc EXCEPT ![w] = "submit_insert"]
      /\ UNCHANGED <<state, cur, min_vruntime>>
  BY DEF OnSubmit, Inside, Step, taskVars, slotVars
<1>2. PICK t \in Tasks : t = idx[w] /\ w \in Keepers(t)
  BY <1>1 DEF Keepers, Kept, PolicyInv, StateInv, LockInv, LocalsInv, OwnsSlot
<1>3. worker[cur[w]] = w
  BY <1>1
  DEF Kept, PolicyInv, StateInv, LockInv, LocalsInv, OnFiber, Submitting
<1>4. PICK n \in 0 .. MAX_VRUNTIME : n = min_vruntime[w]
  BY DEF Bounded
<1>5. vruntime' = [vruntime EXCEPT ![t] = n]
  BY <1>2, <1>3, <1>4 DEF OnSubmit
<1>6. /\ ~YieldDue(w)'
      /\ \A v \in Workers \ {w} : pc'[v] = pc[v] /\ cur'[v] = cur[v]
  BY <1>1 DEF YieldDue, Kept, PolicyInv, StateInv, LockInv, CoreTypeOK
<1>. QED  BY <1>1, <1>2, <1>5, <1>6, ChargeBounded

LEMMA PushBackBounded ==
  ASSUME Kept, Bounded, NEW w \in Workers, NEW v \in 0 .. MAX_VRUNTIME,
         w \in Keepers(cur[w]), cur[w] \in Tasks, PushBack(w, v),
         NEW to \in {"unlock", "acquire", "exited"},
         pc' = [pc EXCEPT ![w] = to], UNCHANGED state,
         \A u \in Workers \ {w} : cur'[u] = cur[u]
  PROVE  Bounded'
<1>1. PICK n \in 0 .. MAX_VRUNTIME :
        n = IF v < min_vruntime[w] THEN min_vruntime[w] ELSE v
  BY DEF Bounded
<1>2. vruntime' = [vruntime EXCEPT ![cur[w]] = n] /\ UNCHANGED min_vruntime
  BY <1>1 DEF PushBack
<1>3. /\ ~YieldDue(w)'
      /\ \A u \in Workers \ {w} : pc'[u] = pc[u] /\ cur'[u] = cur[u]
  BY DEF YieldDue, Kept, PolicyInv, StateInv, LockInv, CoreTypeOK
<1>. QED  BY <1>2, <1>3, ChargeBounded

LEMMA OnYieldBounded ==
  ASSUME Kept, Bounded, NEW w \in Workers, OnYield(w)
  PROVE  Bounded'
<1>1. /\ pc[w] = "on_yield" /\ pc' = [pc EXCEPT ![w] = "unlock"]
      /\ UNCHANGED <<state, cur>>
  BY DEF OnYield, Inside, Step, taskVars, slotVars
<1>2. w \in Keepers(cur[w]) /\ cur[w] \in Tasks
  BY <1>1
  DEF Keepers, Owners, Kept, PolicyInv, StateInv, LockInv, LocalsInv, OwnsCur
<1>3. vruntime[cur[w]] + VruntimeDelta \in 0 .. MAX_VRUNTIME
  BY <1>1, <1>2, CFSAssumption DEF Bounded, YieldDue, VruntimeDelta
<1>. QED  BY <1>1, <1>2, <1>3, PushBackBounded DEF OnYield

LEMMA RequeueBounded ==
  ASSUME Kept, Bounded, NEW w \in Workers, Requeue(w)
  PROVE  Bounded'
<1>1. /\ pc[w] = "requeue" /\ cur' = [cur EXCEPT ![w] = NULL]
      /\ UNCHANGED state
      /\ \E to \in {"acquire", "exited"} : pc' = [pc EXCEPT ![w] = to]
  BY DEF Requeue, Retry, Fail, Step, taskVars, slotVars
<1>2. w \in Keepers(cur[w]) /\ cur[w] \in Tasks
  BY <1>1 DEF Keepers, InHand, Kept, PolicyInv
<1>3. vruntime[cur[w]] \in 0 .. MAX_VRUNTIME
  BY <1>2 DEF Bounded
<1>4. \A u \in Workers \ {w} : cur'[u] = cur[u]
  BY <1>1 DEF Kept, PolicyInv, StateInv, LockInv, CoreTypeOK
<1>. QED  BY <1>1, <1>2, <1>3, <1>4, PushBackBounded DEF Requeue

(* Of the steps of the worker loop, task_yield alone makes a yield due.    *)
LEMMA WorkerBounded ==
  ASSUME Kept, Bounded, NEW w \in Workers, PolicyWorker(w), WithinBound(w),
         UNCHANGED cfsVars
  PROVE  Bounded'
<1>. USE SchedyAssumption
     DEF Kept, PolicyInv, StateInv, LockInv, CoreTypeOK, Step
<1>1. ASSUME NEW v \in Workers \ {w}, YieldDue(v)'
      PROVE  YieldDue(v) /\ cur'[v] = cur[v]
  <2>1. pc'[v] = pc[v] /\ cur'[v] = cur[v]
    BY DEF PolicyWorker, TryLockTask, CheckTask, CoreWorker, SwitchTo,
       TaskYield, TaskExit, SwitchToScheduler, TaskSubmit, SubmitTryLock,
       SubmitFill, SubmitSkip, SubmitRetry, Submitted, Unlock,
       ReleaseFinished, ReleaseYielded, LocalsInv, OnFiber, Fail
  <2>2. CASE pc[v] = "release"
    <3>1. cur[v] \in Tasks /\ lock[cur[v]] = v
      BY <2>2 DEF LocalsInv, MutualExclusion, Holds, OwnsCur
    <3>2. state'[cur[v]] = state[cur[v]]
      BY <3>1
      DEF PolicyWorker, TryLockTask, CheckTask, CoreWorker, SwitchTo,
          TaskYield, TaskExit, SwitchToScheduler, TaskSubmit, SubmitTryLock,
          SubmitFill, Fill, SubmitSkip, SubmitRetry, Submitted, Unlock,
          ReleaseFinished, ReleaseYielded, LocalsInv, MutualExclusion, Holds,
          OwnsCur, OwnsSlot, OnFiber, taskVars, slotVars
    <3>. QED  BY <1>1, <2>1, <3>2 DEF YieldDue
  <2>. QED  BY <1>1, <2>1, <2>2 DEF YieldDue
<1>2. ASSUME YieldDue(w)' PROVE vruntime[cur'[w]] < MAX_VRUNTIME
  <2>1. CASE TaskYield(w)
    <3>1. worker[cur[w]] = w
      BY <2>1 DEF TaskYield, LocalsInv, OnFiber
    <3>2. pc'[w] = "release" /\ state' = state /\ cur' = cur
      BY <2>1, <3>1 DEF TaskYield, SwitchToScheduler
    <3>. QED  BY <3>2 DEF WithinBound
  <2>2. CASE ReleaseYielded(w)
    BY <2>2 DEF ReleaseYielded, YieldDue, Bounded
  <2>3. CASE ~TaskYield(w) /\ ~ReleaseYielded(w)
    <3>1. CASE TaskExit(w)
      <4>1. worker[cur[w]] = w /\ cur[w] \in Tasks
        BY <3>1 DEF TaskExit, LocalsInv, OnFiber, OwnsCur
      <4>. QED  BY <1>2, <3>1, <4>1 DEF TaskExit, SwitchToScheduler, YieldDue
    <3>2. CASE ~TaskExit(w)
      <4>1. pc'[w] \notin {"release", "on_yield"}
        BY <2>3, <3>2
        DEF PolicyWorker, TryLockTask, CheckTask, CoreWorker, SwitchTo,
            TaskSubmit, SubmitTryLock, SubmitFill, SubmitSkip, SubmitRetry,
            Submitted, Unlock, ReleaseFinished, CallPolicy, OnFinish, Fail
      <4>. QED  BY <1>2, <4>1 DEF YieldDue
    <3>. QED  BY <3>1, <3>2
  <2>. QED  BY <2>1, <2>2, <2>3
<1>. QED  BY <1>1, <1>2 DEF Bounded, cfsVars

LEMMA MainBounded ==
  ASSUME Kept, Bounded, Main
  PROVE  Bounded'
<1>. USE DEF Kept, PolicyInv, StateInv, LockInv, CoreTypeOK
<1>1. CASE CoreMain /\ UNCHANGED cfsVars
  <2>1. \A w \in Workers : YieldDue(w)' => YieldDue(w) /\ cur'[w] = cur[w]
    BY <1>1
    DEF CoreMain, MainAbort, Wait, Destroy, StartWorker, Step, YieldDue,
        taskVars, slotVars, workerVars
  <2>. QED  BY <1>1, <2>1, QuietBounded DEF cfsVars, Bounded
<1>2. ASSUME NEW t \in Tasks, CFSSubmit(t) PROVE Bounded'
  <2>1. \A w \in Workers : pc'[w] = "unborn"
    BY <1>2 DEF CFSSubmit, MainSubmit, MainInv, workerVars
  <2>2. min_vruntime[cfs_next_worker] \in 0 .. MAX_VRUNTIME
    BY DEF KeysOK, Bounded
  <2>. QED  BY <1>2, <2>1, <2>2 DEF CFSSubmit, Bounded, YieldDue
<1>3. CASE CFSReinit
  BY <1>3, CFSAssumption DEF CFSReinit, Reinit, Bounded, YieldDue
<1>. QED  BY <1>1, <1>2, <1>3 DEF Main

LEMMA NextBounded == Kept /\ Bounded /\ [Next]_vars => Bounded'
<1>. SUFFICES ASSUME Kept, Bounded, [Next]_vars PROVE Bounded'
  OBVIOUS
<1>1. ASSUME NEW w \in Workers, Runqueue(w) PROVE Bounded'
  <2>1. CASE DequeueOwn(w) \/ StealTask(w)
    <3>1. Victim(w) \in Workers
      BY VictimIsWorker DEF Kept
    <3>. QED  BY <2>1, <3>1, PopBounded DEF DequeueOwn, StealTask
  <2>2. CASE SubmitInsert(w)
    <3>1. \A v \in Workers : YieldDue(v)' => YieldDue(v) /\ cur'[v] = cur[v]
      BY <2>2
      DEF SubmitInsert, Inside, Step, YieldDue, taskVars, slotVars, Kept,
          PolicyInv, StateInv, LockInv, CoreTypeOK
    <3>. QED  BY <2>2, <3>1, QuietBounded DEF SubmitInsert, Bounded
  <2>. QED  BY <1>1, <2>1, <2>2, SearchBounded, OnSubmitBounded,
               OnYieldBounded, RequeueBounded DEF Runqueue
<1>2. CASE UNCHANGED vars
  BY <1>2
  DEF vars, cfsVars, coreVars, taskVars, slotVars, workerVars, Bounded, YieldDue
<1>. QED  BY <1>1, <1>2, MainBounded, WorkerBounded DEF Next, Worker

(* Virtual runtimes stay within the turns a task may take, whatever the    *)
(* thieves do to min_vruntime between its read and its use by on_submit.   *)
THEOREM CFSTypeCorrect == Spec => []TypeOK
<1>1. Init => Bounded
  BY CFSAssumption DEF Init, CoreInit, Bounded, YieldDue
<1>2. Kept /\ Bounded => TypeOK
  BY DEF Kept, PolicyInv, StateInv, LockInv, QueueInv, KeysOK, Bounded, TypeOK
<1>. QED  BY <1>1, <1>2, NextBounded, CFSInductive, PTL DEF Spec

-----------------------------------------------------------------------------
(* Fair turns. While a worker has a task of its own, the others it serves  *)
(* are abreast of that one or a turn ahead of it, and so is min_vruntime,  *)
(* from which the tasks it submits start. A guest is alone: its worker has *)
(* found its own tree empty, and fills it only when the guest submits.     *)

Spread(S) == \A t, u \in S : vruntime[t] <= vruntime[u] + 1

Abreast(w) ==
  /\ min_vruntime[w] \in {vruntime[cur[w]], vruntime[cur[w]] + 1}
  /\ \A t \in Served(w) : vruntime[t] \in {vruntime[cur[w]], vruntime[cur[w]] + 1}

Shares(w) ==
  /\ ~HasTask(w) => Spread(runqueue[w])
  /\ HasTask(w) /\ w \notin guests => Abreast(w)
  /\ HasTask(w) /\ w \in guests => runqueue[w] = {} /\ pc[w] # "submit_insert"

SharesInv ==
  /\ \A w \in Workers : w \in mixed => pc[w] \notin {"unborn", "steal"}
  /\ \A w \in Workers : w \notin mixed => Shares(w)
  /\ mpc = "submit" => /\ \A t \in Tasks : vruntime[t] = 0
                       /\ \A w \in Workers : min_vruntime[w] = 0

LEMMA ServedAreTasks ==
  ASSUME Kept, NEW w \in Workers
  PROVE  /\ Served(w) \in SUBSET Tasks
         /\ HasTask(w) => cur[w] \in Tasks /\ cur[w] \in Served(w)
         /\ pc[w] = "submit_insert" => HasTask(w)
BY DEF Served, HasTask, Owners, Kept, PolicyInv, StateInv, LockInv, LocalsInv,
   OwnsCur, OnFiber, Submitting

(* A task is served by one worker only: what another one writes is not.    *)
LEMMA KeptElsewhere ==
  ASSUME Kept, NEW w \in Workers, NEW t \in Tasks, w \in Keepers(t),
         NEW v \in Workers \ {w}
  PROVE  t \notin Served(v)
<1>1. ~InQueue(t)
  BY KeptIsNotQueued DEF Kept
<1>2. v \notin Keepers(t)
  BY <1>1 DEF Kept, Places, InOneHand
<1>. QED  BY <1>1, <1>2 DEF Served, HasTask, Keepers, InQueue

(* A step of worker w, which other workers see as a theft at most.         *)
LEMMA SharesStep ==
  ASSUME Kept, SharesInv, NEW w \in Workers, NoteGuests, NoteMixed,
         mpc' = mpc, mpc # "submit",
         \A v \in Workers \ {w} :
           pc'[v] = pc[v] /\ cur'[v] = cur[v] /\ idx'[v] = idx[v],
         \A v \in Workers \ {w} : \A t \in Served(v) : vruntime'[t] = vruntime[t],
         \A v \in Workers \ {w} : runqueue'[v] \subseteq runqueue[v],
         \A v \in Workers \ {w} :
           \/ min_vruntime'[v] = min_vruntime[v]
           \/ \E t \in runqueue[v] : min_vruntime'[v] = vruntime[t],
         w \notin mixed' => Shares(w)'
  PROVE  SharesInv'
<1>1. \A v \in Workers : v \in mixed' => pc'[v] \notin {"unborn", "steal"}
  BY DEF NoteMixed
<1>2. ASSUME NEW v \in Workers \ {w}, v \notin mixed' PROVE Shares(v)'
  <2>1. v \notin mixed /\ (v \in guests' <=> v \in guests)
    BY <1>2 DEF NoteMixed, NoteGuests, SharesInv
  <2>2. Shares(v)
    BY <2>1 DEF SharesInv
  <2>3. (HasTask(v)' <=> HasTask(v)) /\ pc'[v] = pc[v]
    BY DEF HasTask
  <2>4. Served(v)' \subseteq Served(v)
    BY <2>3 DEF Served
  <2>5. runqueue[v] \subseteq Served(v) /\ runqueue'[v] \subseteq Served(v)
    BY ServedAreTasks DEF Served, Kept, QueueInv
  <2>6. CASE ~HasTask(v)
    BY <2>2, <2>3, <2>5, <2>6 DEF Shares, Spread
  <2>7. CASE HasTask(v) /\ v \notin guests
    <3>1. cur[v] \in Served(v) /\ cur'[v] = cur[v]
      BY <2>7, ServedAreTasks
    <3>2. vruntime'[cur'[v]] = vruntime[cur[v]]
      BY <3>1
    <3>3. Abreast(v)
      BY <2>2, <2>7 DEF Shares
    <3>4. Abreast(v)'
      BY <2>4, <2>5, <3>2, <3>3 DEF Abreast
    <3>. QED  BY <2>1, <2>3, <2>7, <3>4 DEF Shares
  <2>8. CASE HasTask(v) /\ v \in guests
    BY <2>1, <2>2, <2>3, <2>8 DEF Shares
  <2>. QED  BY <2>6, <2>7, <2>8
<1>. QED  BY <1>1, <1>2 DEF SharesInv

(* What a dequeue leaves: the least is taken, and min_vruntime is what is  *)
(* least now, one of those that were in the tree.                          *)
LEMMA PopTakesLeast ==
  ASSUME Kept, NEW w \in Workers, NEW from \in Searching, NEW q \in Workers,
         Pop(w, from, q)
  PROVE  \E t \in runqueue[q], next \in runqueue[q] :
           /\ \A u \in runqueue[q] : vruntime[t] <= vruntime[u]
           /\ pc[w] = from /\ pc' = [pc EXCEPT ![w] = "try_lock"]
           /\ cur' = [cur EXCEPT ![w] = t]
           /\ runqueue' = [runqueue EXCEPT ![q] = @ \ {t}]
           /\ min_vruntime' = [min_vruntime EXCEPT ![q] = vruntime[next]]
           /\ \A u \in runqueue[q] \ {t} : vruntime[next] <= vruntime[u]
           /\ UNCHANGED <<vruntime, taskVars, idx, mpc>>
<1>1. PICK t : t = Leftmost(runqueue[q])
  OBVIOUS
<1>. DEFINE S == runqueue[q]
            next == IF S \ {t} = {} THEN t ELSE Leftmost(S \ {t})
<1>2. /\ S \in SUBSET Tasks /\ t \in S
      /\ \A u \in S \ {t} : Before(t, u)
  BY <1>1, LeftmostIsQueued DEF Pop, Kept, QueueInv, KeysOK
<1>3. next \in S /\ \A u \in S \ {t} : u = next \/ Before(next, u)
  BY <1>2, LeftmostIsQueued DEF Kept, KeysOK
<1>4. /\ pc[w] = from /\ pc' = [pc EXCEPT ![w] = "try_lock"]
      /\ cur' = [cur EXCEPT ![w] = t]
      /\ runqueue' = [runqueue EXCEPT ![q] = @ \ {t}]
      /\ min_vruntime' = [min_vruntime EXCEPT ![q] = vruntime[next]]
      /\ UNCHANGED <<vruntime, taskVars, idx, mpc>>
  BY <1>1 DEF Pop, Dequeued, Step, TreeRemove, restVars, mainVars
<1>. HIDE DEF next
<1>5. \A u \in S : vruntime[t] <= vruntime[u]
  BY <1>2 DEF Before, Kept, KeysOK
<1>6. \A u \in S \ {t} : vruntime[next] <= vruntime[u]
  BY <1>2, <1>3 DEF Before, Kept, KeysOK
<1>. QED  BY <1>2, <1>3, <1>4, <1>5, <1>6

LEMMA WorkersKeepMain ==
  ASSUME Kept, NEW w \in Workers, pc[w] # "unborn"
  PROVE  mpc # "submit"
BY DEF Kept, PolicyInv, StateInv, MainInv

LEMMA DequeueOwnShares ==
  ASSUME Kept, SharesInv, NEW w \in Workers, DequeueOwn(w), NoteGuests, NoteMixed
  PROVE  SharesInv'
<1>1. PICK t \in runqueue[w], next \in runqueue[w] :
        /\ \A u \in runqueue[w] : vruntime[t] <= vruntime[u]
        /\ pc[w] = "acquire" /\ pc' = [pc EXCEPT ![w] = "try_lock"]
        /\ cur' = [cur EXCEPT ![w] = t]
        /\ runqueue' = [runqueue EXCEPT ![w] = @ \ {t}]
        /\ min_vruntime' = [min_vruntime EXCEPT ![w] = vruntime[next]]
        /\ UNCHANGED <<vruntime, idx, mpc>>
  BY PopTakesLeast DEF DequeueOwn, Searching
<1>. USE DEF Kept, PolicyInv, StateInv, LockInv, CoreTypeOK, KeysOK, QueueInv
<1>2. ASSUME w \notin mixed' PROVE Shares(w)'
  <2>1. w \notin mixed /\ w \notin guests'
    BY <1>1, <1>2 DEF NoteMixed, NoteGuests
  <2>2. ~HasTask(w)
    BY <1>1 DEF HasTask, InHand, Owners, OnFiber, Submitting
  <2>3. Spread(runqueue[w])
    BY <2>1, <2>2 DEF SharesInv, Shares
  <2>4. \A u \in runqueue[w] : vruntime[u] \in {vruntime[t], vruntime[t] + 1}
    <3>. SUFFICES ASSUME NEW u \in runqueue[w]
                  PROVE  vruntime[u] \in {vruntime[t], vruntime[t] + 1}
      OBVIOUS
    <3>1. vruntime[u] \in Nat /\ vruntime[t] \in Nat
      OBVIOUS
    <3>2. vruntime[t] <= vruntime[u] /\ vruntime[u] <= vruntime[t] + 1
      BY <1>1, <2>3 DEF Spread
    <3>3. \A a, b \in Nat : a <= b /\ b <= a + 1 => b \in {a, a + 1}
      OBVIOUS
    <3>. QED  BY <3>1, <3>2, <3>3
  <2>5. Served(w)' \subseteq runqueue[w] /\ HasTask(w)'
    BY <1>1 DEF Served, HasTask, InHand
  <2>6. Abreast(w)'
    BY <1>1, <2>4, <2>5 DEF Abreast
  <2>. QED  BY <2>1, <2>5, <2>6 DEF Shares
<1>. QED  BY <1>1, <1>2, SharesStep, WorkersKeepMain

LEMMA StealTaskShares ==
  ASSUME Kept, Diligent, SharesInv, NEW w \in Workers, StealTask(w),
         NoteGuests, NoteMixed
  PROVE  SharesInv'
<1>0. Victim(w) \in Workers
  BY VictimIsWorker DEF Kept
<1>1. PICK q \in Workers : Pop(w, "steal", q)
  BY <1>0 DEF StealTask
<1>2. PICK t \in runqueue[q], next \in runqueue[q] :
        /\ pc[w] = "steal" /\ pc' = [pc EXCEPT ![w] = "try_lock"]
        /\ cur' = [cur EXCEPT ![w] = t]
        /\ runqueue' = [runqueue EXCEPT ![q] = @ \ {t}]
        /\ min_vruntime' = [min_vruntime EXCEPT ![q] = vruntime[next]]
        /\ UNCHANGED <<vruntime, idx, mpc>>
  BY <1>1, PopTakesLeast DEF Searching
<1>. USE DEF Kept, PolicyInv, StateInv, LockInv, CoreTypeOK, KeysOK, QueueInv
<1>3. runqueue'[w] = {} /\ w \in guests' /\ HasTask(w)' /\ pc'[w] = "try_lock"
  BY <1>2 DEF Diligent, FoundNone, NoteGuests, HasTask, InHand
<1>4. \A v \in Workers :
        \/ min_vruntime'[v] = min_vruntime[v]
        \/ \E u \in runqueue[v] : min_vruntime'[v] = vruntime[u]
  BY <1>2
<1>5. \A v \in Workers \ {w} :
        /\ pc'[v] = pc[v] /\ cur'[v] = cur[v] /\ idx'[v] = idx[v]
        /\ runqueue'[v] \subseteq runqueue[v]
  BY <1>2
<1>6. Shares(w)'
  BY <1>3 DEF Shares
<1>7. mpc # "submit"
  BY <1>2, WorkersKeepMain
<1>. QED  BY <1>2, <1>4, <1>5, <1>6, <1>7, SharesStep

LEMMA SearchShares ==
  ASSUME Kept, Diligent, SharesInv, NEW w \in Workers,
         DequeueEmpty(w) \/ StealEmpty(w) \/ StealEnd(w), NoteGuests, NoteMixed
  PROVE  SharesInv'
<1>. USE DEF Kept, PolicyInv, StateInv, LockInv, CoreTypeOK
<1>1. /\ UNCHANGED <<runqueue, vruntime, min_vruntime, cur, mpc>>
      /\ \A v \in Workers \ {w} : pc'[v] = pc[v] /\ idx'[v] = idx[v]
      /\ pc[w] \in {"acquire", "steal"} /\ pc'[w] \in {"steal", "exited"}
      /\ pc[w] = "steal" \/ runqueue[w] = {}
  BY DEF DequeueEmpty, StealEmpty, StealEnd, ToVictim, NothingDequeued, Inside,
     Step, cfsVars, restVars, mainVars
<1>2. Shares(w)'
  BY <1>1
  DEF Diligent, FoundNone, Shares, Spread, HasTask, InHand, Owners, OnFiber,
      Submitting
<1>3. mpc # "submit"
  BY <1>1, WorkersKeepMain
<1>. QED  BY <1>1, <1>2, <1>3, SharesStep

LEMMA OnSubmitShares ==
  ASSUME Kept, SharesInv, NEW w \in Workers, OnSubmit(w), NoteGuests, NoteMixed
  PROVE  SharesInv'
<1>. USE DEF Kept, PolicyInv, StateInv, LockInv, CoreTypeOK, KeysOK
<1>1. /\ pc[w] = "on_submit" /\ pc' = [pc EXCEPT ![w] = "submit_insert"]
      /\ UNCHANGED <<cur, idx, mpc, min_vruntime, runqueue>>
  BY DEF OnSubmit, Inside, Step, restVars, mainVars
<1>2. PICK t \in Tasks : t = idx[w] /\ t # cur[w] /\ w \in Keepers(t)
  BY <1>1 DEF LocalsInv, OwnsSlot, Keepers
<1>3. worker[cur[w]] = w /\ HasTask(w)
  BY <1>1 DEF LocalsInv, OnFiber, Submitting, HasTask, Owners
<1>4. vruntime' = [vruntime EXCEPT ![t] = min_vruntime[w]]
  BY <1>2, <1>3 DEF OnSubmit
<1>5. ASSUME w \notin mixed' PROVE Shares(w)'
  <2>1. w \notin mixed /\ w \notin guests /\ w \notin guests'
    BY <1>1, <1>5 DEF NoteMixed, NoteGuests
  <2>2. Abreast(w)
    BY <1>3, <2>1 DEF SharesInv, Shares
  <2>3. Served(w)' \subseteq Served(w) \cup {t} /\ HasTask(w)'
    BY <1>1, <1>2, <1>3 DEF Served, HasTask, Owners, OnFiber, Submitting
  <2>4. cur[w] \in Tasks /\ vruntime'[cur'[w]] = vruntime[cur[w]]
    BY <1>1, <1>2, <1>3, <1>4, ServedAreTasks
  <2>5. \A u \in Served(w)' : vruntime'[u] \in {vruntime[cur[w]], vruntime[cur[w]] + 1}
    BY <1>4, <2>2, <2>3, ServedAreTasks DEF Abreast
  <2>6. Abreast(w)'
    BY <1>1, <2>2, <2>4, <2>5 DEF Abreast
  <2>. QED  BY <2>1, <2>3, <2>6 DEF Shares
<1>6. \A v \in Workers \ {w} : \A u \in Served(v) : vruntime'[u] = vruntime[u]
  BY <1>2, <1>4, KeptElsewhere, ServedAreTasks
<1>7. mpc # "submit"
  BY <1>1, WorkersKeepMain
<1>. QED  BY <1>1, <1>5, <1>6, <1>7, SharesStep DEF QueueInv

LEMMA SubmitInsertShares ==
  ASSUME Kept, SharesInv, NEW w \in Workers, SubmitInsert(w), NoteGuests,
         NoteMixed
  PROVE  SharesInv'
<1>. USE DEF Kept, PolicyInv, StateInv, LockInv, CoreTypeOK, KeysOK, QueueInv
<1>1. /\ pc[w] = "submit_insert" /\ pc' = [pc EXCEPT ![w] = "submitted"]
      /\ UNCHANGED <<cur, idx, mpc, min_vruntime, vruntime>>
  BY DEF SubmitInsert, Inside, Step, restVars, mainVars
<1>2. runqueue' = [runqueue EXCEPT ![w] = @ \cup {idx[w]}]
  BY <1>1 DEF SubmitInsert, Push, LocalsInv, OnFiber, Submitting
<1>3. ASSUME w \notin mixed' PROVE Shares(w)'
  <2>1. w \notin mixed /\ (w \in guests' <=> w \in guests)
    BY <1>1, <1>3 DEF NoteMixed, NoteGuests
  <2>2. HasTask(w) /\ HasTask(w)'
    BY <1>1 DEF HasTask, Owners, OnFiber, Submitting
  <2>3. w \notin guests /\ Abreast(w)
    BY <1>1, <2>1, <2>2 DEF SharesInv, Shares
  <2>4. Served(w)' \subseteq Served(w)
    BY <1>1, <1>2, <2>2 DEF Served
  <2>5. Abreast(w)'
    BY <1>1, <2>3, <2>4 DEF Abreast
  <2>. QED  BY <2>1, <2>2, <2>3, <2>5 DEF Shares
<1>4. mpc # "submit"
  BY <1>1, WorkersKeepMain
<1>. QED  BY <1>1, <1>2, <1>3, <1>4, SharesStep

(* A task that comes back is a turn ahead of the others at most.           *)
LEMMA PushBackShares ==
  ASSUME Kept, SharesInv, NEW w \in Workers, pc[w] \in {"on_yield", "requeue"},
         NEW t \in Tasks, t = cur[w],
         NEW n \in {vruntime[t], vruntime[t] + 1}, PushBack(w, n),
         NEW to \in {"unlock", "acquire", "exited"},
         pc' = [pc EXCEPT ![w] = to], UNCHANGED <<idx, mpc>>,
         \A v \in Workers \ {w} : cur'[v] = cur[v], NoteGuests, NoteMixed
  PROVE  SharesInv'
<1>. USE DEF Kept, PolicyInv, StateInv, LockInv, CoreTypeOK, KeysOK, QueueInv
<1>1. w \in Keepers(t) /\ HasTask(w) /\ ~HasTask(w)'
  BY DEF Keepers, HasTask, InHand, Owners, OnFiber, Submitting
<1>2. PICK m \in Nat :
        /\ m = IF n < min_vruntime[w] THEN min_vruntime[w] ELSE n
        /\ vruntime' = [vruntime EXCEPT ![t] = m]
  <2>1. vruntime[t] \in Nat /\ min_vruntime[w] \in Nat
    OBVIOUS
  <2>2. n \in Nat
    BY <2>1
  <2>. QED  BY <2>1, <2>2 DEF PushBack
<1>3. runqueue' = [runqueue EXCEPT ![w] = @ \cup {t}] /\ UNCHANGED min_vruntime
  BY DEF PushBack, Push
<1>4. ASSUME w \notin mixed' PROVE Spread(runqueue[w])'
  <2>1. w \notin mixed
    BY <1>4 DEF NoteMixed
  <2>2. CASE w \in guests
    <3>1. runqueue'[w] = {t}
      BY <1>1, <1>3, <2>1, <2>2 DEF SharesInv, Shares
    <3>. QED  BY <1>2, <3>1 DEF Spread
  <2>3. CASE w \notin guests
    <3>1. Abreast(w)
      BY <1>1, <2>1, <2>3 DEF SharesInv, Shares
    <3>2. m \in {vruntime[t], vruntime[t] + 1}
      BY <1>2, <3>1 DEF Abreast
    <3>3. \A u \in runqueue'[w] : vruntime'[u] \in {vruntime[t], vruntime[t] + 1}
      BY <1>2, <1>3, <3>1, <3>2 DEF Abreast, Served
    <3>4. vruntime[t] \in Nat
      OBVIOUS
    <3>5. \A u, v \in runqueue'[w] : vruntime'[u] <= vruntime'[v] + 1
      <4>. TAKE u \in runqueue'[w], v \in runqueue'[w]
      <4>1. /\ vruntime'[u] \in {vruntime[t], vruntime[t] + 1}
            /\ vruntime'[v] \in {vruntime[t], vruntime[t] + 1}
        BY <3>3
      <4>. QED  BY <3>4, <4>1
    <3>. QED  BY <3>5 DEF Spread
  <2>. QED  BY <2>2, <2>3
<1>5. w \notin mixed' => Shares(w)'
  BY <1>1, <1>4 DEF Shares
<1>6. \A v \in Workers \ {w} : \A u \in Served(v) : vruntime'[u] = vruntime[u]
  BY <1>1, <1>2, KeptElsewhere, ServedAreTasks
<1>7. mpc # "submit"
  BY WorkersKeepMain
<1>. QED  BY <1>3, <1>5, <1>6, <1>7, SharesStep

LEMMA OnYieldShares ==
  ASSUME Kept, SharesInv, NEW w \in Workers, OnYield(w), NoteGuests, NoteMixed
  PROVE  SharesInv'
<1>1. /\ pc[w] = "on_yield" /\ pc' = [pc EXCEPT ![w] = "unlock"]
      /\ UNCHANGED <<cur, idx, mpc>>
  BY DEF OnYield, Inside, Step, restVars, mainVars
<1>2. cur[w] \in Tasks
  BY <1>1 DEF Kept, PolicyInv, StateInv, LockInv, LocalsInv, OwnsCur
<1>. QED  BY <1>1, <1>2, PushBackShares DEF OnYield, VruntimeDelta

LEMMA RequeueShares ==
  ASSUME Kept, SharesInv, NEW w \in Workers, Requeue(w), NoteGuests, NoteMixed
  PROVE  SharesInv'
<1>1. /\ pc[w] = "requeue" /\ cur' = [cur EXCEPT ![w] = NULL]
      /\ UNCHANGED <<idx, mpc>>
      /\ \E to \in {"acquire", "exited"} : pc' = [pc EXCEPT ![w] = to]
  BY DEF Requeue, Retry, Fail, Step, restVars, mainVars
<1>2. cur[w] \in Tasks
  BY <1>1 DEF Kept, PolicyInv, InHand
<1>3. \A v \in Workers \ {w} : cur'[v] = cur[v]
  BY <1>1 DEF Kept, PolicyInv, StateInv, LockInv, CoreTypeOK
<1>. QED  BY <1>1, <1>2, <1>3, PushBackShares DEF Requeue

(* Between dequeue and requeue a worker keeps the task it has.             *)
LEMMA PolicyWorkerShares ==
  ASSUME Kept, SharesInv, NEW w \in Workers, PolicyWorker(w),
         UNCHANGED cfsVars, NoteGuests, NoteMixed
  PROVE  SharesInv'
<1>0. pc[w] # "unborn"
  BY DEF PolicyWorker, TryLockTask, CheckTask, CoreWorker, SwitchTo, TaskYield,
     TaskExit, TaskSubmit, SubmitTryLock, SubmitFill, SubmitSkip, SubmitRetry,
     Submitted, Unlock, ReleaseFinished, ReleaseYielded, Step, Fail
<1>1. mpc' = mpc /\ mpc # "submit"
  BY <1>0, WorkersKeepMain
  DEF PolicyWorker, TryLockTask, CheckTask, CoreWorker, SwitchTo,
     TaskYield, TaskExit, SwitchToScheduler, TaskSubmit, SubmitTryLock,
     SubmitFill, SubmitSkip, SubmitRetry, Submitted, Unlock,
     ReleaseFinished, ReleaseYielded, restVars, mainVars
<1>2. \A v \in Workers \ {w} :
        pc'[v] = pc[v] /\ cur'[v] = cur[v] /\ idx'[v] = idx[v]
  BY SchedyAssumption
  DEF Kept, PolicyInv, StateInv, LockInv, CoreTypeOK, Step, PolicyWorker,
      TryLockTask, CheckTask, CoreWorker, SwitchTo, TaskYield, TaskExit,
      SwitchToScheduler, TaskSubmit, SubmitTryLock, SubmitFill, SubmitSkip,
      SubmitRetry, Submitted, Unlock, ReleaseFinished, ReleaseYielded,
      CallPolicy, LocalsInv, OnFiber, Fail
<1>3. /\ pc'[w] \notin {"try_lock", "submit_insert", "steal", "unborn"}
      /\ HasTask(w)' => HasTask(w) /\ cur'[w] = cur[w]
  <2>. USE SchedyAssumption, PolicyAssumption
       DEF Kept, PolicyInv, StateInv, LockInv, CoreTypeOK, Step
  <2>1. pc'[w] \notin {"try_lock", "submit_insert", "steal", "unborn"}
    <3>1. CASE TaskYield(w) \/ TaskExit(w)
      BY <3>1 DEF TaskYield, TaskExit, SwitchToScheduler, LocalsInv, OnFiber
    <3>2. CASE ~TaskYield(w) /\ ~TaskExit(w)
      BY <3>2
      DEF PolicyWorker, TryLockTask, CheckTask, CoreWorker, SwitchTo,
          TaskSubmit, SubmitTryLock, SubmitFill, SubmitSkip, SubmitRetry,
          Submitted, Unlock, ReleaseFinished, ReleaseYielded, CallPolicy,
          OnFinish, Fail
    <3>. QED  BY <3>1, <3>2
  <2>2. HasTask(w)' => HasTask(w) /\ cur'[w] = cur[w]
    BY DEF HasTask, InHand, Owners, OnFiber, Submitting, PolicyWorker,
       TryLockTask, CheckTask, CoreWorker, SwitchTo, TaskYield, TaskExit,
       SwitchToScheduler, TaskSubmit, SubmitTryLock, SubmitFill, SubmitSkip,
       SubmitRetry, Submitted, Unlock, ReleaseFinished, ReleaseYielded,
       LocalsInv, Fail
  <2>. QED  BY <2>1, <2>2
<1>4. UNCHANGED <<runqueue, vruntime, min_vruntime>>
  BY DEF cfsVars
<1>5. ASSUME w \notin mixed' PROVE Shares(w)'
  <2>1. w \notin mixed /\ (w \in guests' <=> w \in guests)
    BY <1>2, <1>3, <1>5 DEF NoteMixed, NoteGuests
  <2>2. Shares(w)
    BY <2>1 DEF SharesInv
  <2>3. CASE ~HasTask(w)
    BY <1>2, <1>3, <1>4, <2>2, <2>3 DEF Shares, Spread
  <2>4. CASE HasTask(w) /\ w \notin guests
    <3>1. Abreast(w) /\ runqueue[w] \subseteq Served(w)
      BY <2>2, <2>4 DEF Shares, Served, Kept, QueueInv
    <3>2. Spread(runqueue[w])'
      <4>1. vruntime[cur[w]] \in Nat
        BY <2>4, ServedAreTasks DEF Kept, KeysOK
      <4>2. \A u \in runqueue[w] : vruntime[u] \in {vruntime[cur[w]], vruntime[cur[w]] + 1}
        BY <3>1 DEF Abreast
      <4>. QED  BY <1>4, <4>1, <4>2 DEF Spread
    <3>3. HasTask(w)' => Served(w)' \subseteq Served(w)
      BY <1>2, <1>3, <1>4 DEF Served
    <3>4. HasTask(w)' => Abreast(w)'
      BY <1>2, <1>3, <1>4, <3>1, <3>3 DEF Abreast
    <3>. QED  BY <2>1, <2>4, <3>2, <3>4 DEF Shares
  <2>5. CASE HasTask(w) /\ w \in guests
    BY <1>2, <1>3, <1>4, <2>1, <2>2, <2>5 DEF Shares, Spread
  <2>. QED  BY <2>3, <2>4, <2>5
<1>. QED  BY <1>1, <1>2, <1>3, <1>4, <1>5, SharesStep DEF Kept, QueueInv

(* Workers that do nothing but start.                                      *)
LEMMA StartingShares ==
  ASSUME SharesInv, UNCHANGED <<cfsVars, cur, idx>>,
         mpc' = "submit" => mpc = "submit",
         \A v \in Workers : pc'[v] = pc[v] \/ (pc[v] = "unborn" /\ pc'[v] = "acquire"),
         NoteGuests, NoteMixed
  PROVE  SharesInv'
<1>1. ASSUME NEW v \in Workers, v \notin mixed' PROVE Shares(v)'
  <2>1. v \notin mixed /\ (v \in guests' <=> v \in guests)
    BY <1>1 DEF NoteMixed, NoteGuests, SharesInv
  <2>2. /\ HasTask(v)' <=> HasTask(v)
        /\ Served(v)' = Served(v)
        /\ pc'[v] = "submit_insert" => pc[v] = "submit_insert"
    BY DEF HasTask, InHand, Owners, OnFiber, Submitting, Served, cfsVars
  <2>. QED  BY <2>1, <2>2 DEF SharesInv, Shares, Abreast, Spread, cfsVars
<1>2. \A v \in Workers : v \in mixed' => pc'[v] \notin {"unborn", "steal"}
  BY DEF NoteMixed
<1>. QED  BY <1>1, <1>2 DEF SharesInv, cfsVars

LEMMA MainShares ==
  ASSUME Kept, SharesInv, Main, NoteGuests, NoteMixed
  PROVE  SharesInv'
<1>. USE DEF Kept, PolicyInv, StateInv, LockInv, CoreTypeOK
<1>1. CASE CoreMain /\ UNCHANGED cfsVars
  <2>1. /\ mpc' = "submit" => mpc = "submit"
        /\ UNCHANGED <<cur, idx>>
        /\ \A v \in Workers :
             pc'[v] = pc[v] \/ (pc[v] = "unborn" /\ pc'[v] = "acquire")
    BY <1>1
    DEF CoreMain, MainAbort, Wait, Destroy, StartWorker, Step, workerVars
  <2>. QED  BY <1>1, <2>1, StartingShares
<1>2. CASE CFSReinit \/ \E t \in Tasks : CFSSubmit(t)
  <2>1. \A v \in Workers : pc'[v] = "unborn"
    BY <1>2
    DEF CFSSubmit, MainSubmit, MainInv, workerVars, CFSReinit, Reinit
  <2>2. /\ \A u \in Tasks : vruntime'[u] = 0
        /\ \A v \in Workers : min_vruntime'[v] = 0
    BY <1>2 DEF CFSSubmit, MainSubmit, SharesInv, KeysOK, CFSReinit
  <2>3. runqueue' \in [Workers -> SUBSET Tasks]
    BY <1>2 DEF CFSReinit, CFSSubmit, Push, QueueInv
  <2>4. \A v \in Workers : Shares(v)' /\ v \notin mixed'
    BY <2>1, <2>2, <2>3
    DEF Shares, Spread, HasTask, InHand, Owners, OnFiber, Submitting, NoteMixed
  <2>. QED  BY <2>2, <2>4 DEF SharesInv
<1>. QED  BY <1>1, <1>2 DEF Main

LEMMA NextShares ==
  ASSUME Kept, Diligent, SharesInv, [TurnsNext]_turnsVars
  PROVE  SharesInv'
<1>1. CASE UNCHANGED turnsVars
  <2>1. UNCHANGED <<runqueue, vruntime, min_vruntime, pc, cur, idx, mpc, guests, mixed>>
    BY <1>1 DEF turnsVars, vars, cfsVars, coreVars, workerVars, mainVars
  <2>. QED  BY <2>1
       DEF SharesInv, Shares, Abreast, Spread, Served, HasTask
<1>2. ASSUME Next, NoteGuests, NoteMixed PROVE SharesInv'
  <2>1. ASSUME NEW w \in Workers, Worker(w) PROVE SharesInv'
    BY <1>2, <2>1, DequeueOwnShares, StealTaskShares, SearchShares,
       OnSubmitShares, SubmitInsertShares, OnYieldShares, RequeueShares,
       PolicyWorkerShares DEF Worker, Runqueue
  <2>2. CASE UNCHANGED vars
    <3>1. UNCHANGED <<cfsVars, pc, cur, idx, mpc>>
      BY <2>2 DEF vars, coreVars, workerVars, mainVars
    <3>. QED  BY <1>2, <3>1, StartingShares
  <2>. QED  BY <1>2, <2>1, <2>2, MainShares DEF Next
<1>. QED  BY <1>1, <1>2 DEF TurnsNext

LEMMA SharesInductive == TurnsSpec => [](Kept /\ SharesInv)
<1>1. TurnsInit => Kept /\ Diligent /\ SharesInv
  <2>. SUFFICES ASSUME TurnsInit PROVE Kept /\ Diligent /\ SharesInv
    OBVIOUS
  <2>1. Kept /\ Diligent
    BY InitKept DEF TurnsInit, Init, Diligent
  <2>2. SharesInv
    BY DEF TurnsInit, Init, CoreInit, SharesInv, Shares, Spread, HasTask,
       InHand, Owners, OnFiber, Submitting
  <2>. QED  BY <2>1, <2>2
<1>2. Kept /\ Diligent /\ SharesInv /\ [TurnsNext]_turnsVars
        => (Kept /\ Diligent /\ SharesInv)'
  <2>1. [TurnsNext]_turnsVars => [Next]_vars
    BY DEF TurnsNext, turnsVars
  <2>. QED  BY <2>1, NextKept, NextDiligent, NextShares
<1>. QED  BY <1>1, <1>2, PTL DEF TurnsSpec

(* For any number of workers, tasks and turns: whatever thieves take and   *)
(* bring, of the tasks a worker serves none is more than a turn ahead of   *)
(* another, until a stolen task submits one (cfs_on_submit).               *)
THEOREM CFSFairTurns == TurnsSpec => []FairTurns
<1>1. Kept /\ SharesInv => FairTurns
  <2>. SUFFICES ASSUME Kept, SharesInv, NEW w \in Workers \ mixed,
                       NEW t \in Served(w), NEW u \in Served(w)
                PROVE  vruntime[t] <= vruntime[u] + 1
    BY DEF FairTurns
  <2>1. vruntime[t] \in Nat /\ vruntime[u] \in Nat
    BY ServedAreTasks DEF Kept, KeysOK
  <2>2. Shares(w)
    BY DEF SharesInv
  <2>3. CASE ~HasTask(w)
    BY <2>2, <2>3, ServedAreTasks DEF Shares, Spread, Served
  <2>4. CASE HasTask(w) /\ w \notin guests
    <3>1. vruntime[cur[w]] \in Nat
      BY <2>4, ServedAreTasks DEF Kept, KeysOK
    <3>2. /\ vruntime[t] \in {vruntime[cur[w]], vruntime[cur[w]] + 1}
          /\ vruntime[u] \in {vruntime[cur[w]], vruntime[cur[w]] + 1}
      BY <2>2, <2>4 DEF Shares, Abreast
    <3>. QED  BY <3>1, <3>2
  <2>5. CASE HasTask(w) /\ w \in guests
    <3>1. t = cur[w] /\ u = cur[w]
      BY <2>2, <2>5 DEF Shares, Served
    <3>. QED  BY <2>1, <3>1
  <2>. QED  BY <2>3, <2>4, <2>5
<1>. QED  BY <1>1, SharesInductive, PTL

-----------------------------------------------------------------------------
(* No head start. What a worker is about to insert for a submission has    *)
(* not run yet.                                                            *)

SubmitsFresh ==
  \A w \in Workers :
    pc[w] \in {"on_submit", "submit_insert"} => thread[idx[w]] = "entry"

HeadInv == NoHeadStart /\ SubmitsFresh

(* A step of worker w that only takes tasks out of trees.                  *)
LEMMA TakingKeepsHead ==
  ASSUME Kept, HeadInv, NEW w \in Workers, thread' = thread,
         pc'[w] \notin {"on_submit", "submit_insert"},
         \A v \in Workers \ {w} : pc'[v] = pc[v] /\ idx'[v] = idx[v],
         UNCHANGED vruntime,
         \A q \in Workers : \A t \in runqueue'[q] :
           /\ t \in runqueue[q]
           /\ \/ min_vruntime'[q] = min_vruntime[q]
              \/ ~(vruntime[t] < min_vruntime'[q])
  PROVE  HeadInv'
<1>1. SubmitsFresh'
  BY DEF HeadInv, SubmitsFresh
<1>2. ASSUME NEW q \in Workers, NEW t \in runqueue'[q],
             vruntime'[t] < min_vruntime'[q]
      PROVE  thread'[t] # "saved"
  <2>1. min_vruntime'[q] = min_vruntime[q] /\ t \in runqueue[q]
    BY <1>2
  <2>. QED  BY <1>2, <2>1 DEF HeadInv, NoHeadStart
<1>. QED  BY <1>1, <1>2 DEF HeadInv, NoHeadStart

(* A step that writes the vruntime of a task t and puts it into tree q.    *)
LEMMA InsertingKeepsHead ==
  ASSUME Kept, HeadInv, NEW q \in Workers, NEW t \in Tasks, ~InQueue(t),
         NEW n \in Nat, vruntime' = [vruntime EXCEPT ![t] = n],
         n < min_vruntime[q] => thread'[t] # "saved",
         \A u \in Tasks \ {t} : thread'[u] = thread[u],
         Push(q, t), UNCHANGED min_vruntime, SubmitsFresh'
  PROVE  HeadInv'
<1>1. ASSUME NEW r \in Workers, NEW u \in runqueue'[r],
             vruntime'[u] < min_vruntime'[r]
      PROVE  thread'[u] # "saved"
  <2>1. u \in runqueue[r] \/ (r = q /\ u = t)
    BY DEF Push, Kept, QueueInv
  <2>2. CASE u = t
    <3>1. r = q
      BY <2>1, <2>2 DEF InQueue
    <3>. QED  BY <1>1, <2>2, <3>1 DEF Kept, KeysOK
  <2>3. CASE u # t
    <3>1. u \in runqueue[r] /\ u \in Tasks
      BY <2>1, <2>3 DEF Kept, QueueInv
    <3>. QED  BY <1>1, <2>3, <3>1 DEF Kept, KeysOK, HeadInv, NoHeadStart
  <2>. QED  BY <2>2, <2>3
<1>. QED  BY <1>1 DEF HeadInv, NoHeadStart

LEMMA RunqueueHead ==
  ASSUME Kept, HeadInv, NEW w \in Workers, Runqueue(w)
  PROVE  HeadInv'
<1>1. CASE DequeueEmpty(w) \/ StealEmpty(w) \/ StealEnd(w)
  <2>1. /\ UNCHANGED <<runqueue, vruntime, min_vruntime, thread>>
        /\ \A v \in Workers \ {w} : pc'[v] = pc[v] /\ idx'[v] = idx[v]
        /\ pc'[w] \in {"steal", "exited"}
    BY <1>1
    DEF DequeueEmpty, StealEmpty, StealEnd, ToVictim, NothingDequeued, Inside,
        Step, cfsVars, taskVars, slotVars, Kept, PolicyInv, StateInv, LockInv,
        CoreTypeOK
  <2>. QED  BY <2>1, TakingKeepsHead
<1>2. ASSUME NEW q \in Workers, NEW from \in Searching, Pop(w, from, q)
      PROVE  HeadInv'
  <2>1. PICK t \in runqueue[q], next \in runqueue[q] :
          /\ pc' = [pc EXCEPT ![w] = "try_lock"]
          /\ runqueue' = [runqueue EXCEPT ![q] = @ \ {t}]
          /\ min_vruntime' = [min_vruntime EXCEPT ![q] = vruntime[next]]
          /\ \A u \in runqueue[q] \ {t} : vruntime[next] <= vruntime[u]
          /\ UNCHANGED <<vruntime, taskVars, idx, mpc>>
    BY <1>2, PopTakesLeast
  <2>2. \A r \in Workers : \A u \in runqueue'[r] :
          /\ u \in runqueue[r]
          /\ \/ min_vruntime'[r] = min_vruntime[r]
             \/ ~(vruntime[u] < min_vruntime'[r])
    <3>1. \A u \in runqueue[q] \ {t} : ~(vruntime[u] < vruntime[next])
      BY <2>1 DEF Kept, QueueInv, KeysOK
    <3>. QED  BY <2>1, <3>1 DEF Kept, QueueInv, KeysOK
  <2>3. /\ pc'[w] = "try_lock" /\ thread' = thread
        /\ \A v \in Workers \ {w} : pc'[v] = pc[v] /\ idx'[v] = idx[v]
    BY <2>1
    DEF Kept, PolicyInv, StateInv, LockInv, CoreTypeOK, taskVars, slotVars
  <2>. QED  BY <2>1, <2>2, <2>3, TakingKeepsHead
<1>3. CASE DequeueOwn(w) \/ StealTask(w)
  <2>1. Victim(w) \in Workers
    BY VictimIsWorker DEF Kept
  <2>. QED  BY <1>2, <1>3, <2>1 DEF DequeueOwn, StealTask, Searching
<1>4. CASE OnSubmit(w)
  <2>1. /\ pc[w] = "on_submit" /\ pc' = [pc EXCEPT ![w] = "submit_insert"]
        /\ UNCHANGED <<idx, thread, runqueue, min_vruntime>>
        /\ \E n : vruntime' = [vruntime EXCEPT ![idx[w]] = n]
    BY <1>4 DEF OnSubmit, Inside, Step, taskVars, slotVars
  <2>2. SubmitsFresh'
    BY <2>1
    DEF HeadInv, SubmitsFresh, Kept, PolicyInv, StateInv, LockInv, CoreTypeOK
  <2>3. idx[w] \in Tasks /\ w \in Keepers(idx[w])
    BY <2>1
    DEF Keepers, Kept, PolicyInv, StateInv, LockInv, LocalsInv, OwnsSlot
  <2>4. ~InQueue(idx[w])
    BY <2>3, KeptIsNotQueued DEF Kept
  <2>5. \A q \in Workers : \A t \in runqueue[q] : vruntime'[t] = vruntime[t]
    BY <2>1, <2>4 DEF InQueue, Kept, KeysOK, QueueInv
  <2>. QED  BY <2>1, <2>2, <2>5 DEF HeadInv, NoHeadStart
<1>5. CASE SubmitInsert(w)
  <2>1. /\ pc[w] = "submit_insert" /\ pc' = [pc EXCEPT ![w] = "submitted"]
        /\ UNCHANGED <<idx, thread, vruntime, min_vruntime>>
    BY <1>5 DEF SubmitInsert, Inside, Step, taskVars, slotVars
  <2>2. SubmitsFresh'
    BY <2>1
    DEF HeadInv, SubmitsFresh, Kept, PolicyInv, StateInv, LockInv, CoreTypeOK
  <2>3. PICK t \in Tasks : t = idx[w] /\ w \in Keepers(t)
    BY <2>1
    DEF Keepers, Kept, PolicyInv, StateInv, LockInv, LocalsInv, OwnsSlot
  <2>4. ~InQueue(t)
    BY <2>3, KeptIsNotQueued DEF Kept
  <2>5. Push(w, t)
    BY <1>5, <2>1, <2>3
    DEF SubmitInsert, Kept, PolicyInv, StateInv, LockInv, LocalsInv, OnFiber,
        Submitting
  <2>6. thread'[t] = "entry"
    BY <2>1, <2>3 DEF HeadInv, SubmitsFresh
  <2>7. vruntime[t] \in Nat /\ vruntime' = [vruntime EXCEPT ![t] = vruntime[t]]
    BY <2>1 DEF Kept, KeysOK
  <2>. QED  BY <2>1, <2>2, <2>4, <2>5, <2>6, <2>7, InsertingKeepsHead
<1>6. ASSUME NEW n \in Nat, PushBack(w, n), cur[w] \in Tasks,
             w \in Keepers(cur[w]), thread' = thread, idx' = idx,
             NEW to \in {"unlock", "acquire", "exited"},
             pc' = [pc EXCEPT ![w] = to]
      PROVE  HeadInv'
  <2>1. PICK m \in Nat :
          m = IF n < min_vruntime[w] THEN min_vruntime[w] ELSE n
    BY DEF Kept, KeysOK
  <2>2. min_vruntime[w] \in Nat
    BY DEF Kept, KeysOK
  <2>3. /\ vruntime' = [vruntime EXCEPT ![cur[w]] = m] /\ ~(m < min_vruntime[w])
        /\ Push(w, cur[w]) /\ UNCHANGED min_vruntime
    BY <1>6, <2>1, <2>2 DEF PushBack
  <2>4. ~InQueue(cur[w])
    BY <1>6, KeptIsNotQueued DEF Kept
  <2>5. SubmitsFresh'
    BY <1>6
    DEF HeadInv, SubmitsFresh, Kept, PolicyInv, StateInv, LockInv, CoreTypeOK
  <2>. QED  BY <1>6, <2>3, <2>4, <2>5, InsertingKeepsHead
<1>7. CASE OnYield(w)
  <2>1. /\ pc[w] = "on_yield" /\ pc' = [pc EXCEPT ![w] = "unlock"]
        /\ UNCHANGED <<idx, thread>>
    BY <1>7 DEF OnYield, Inside, Step, taskVars, slotVars
  <2>2. cur[w] \in Tasks /\ w \in Keepers(cur[w])
    BY <2>1
    DEF Keepers, Owners, Kept, PolicyInv, StateInv, LockInv, LocalsInv, OwnsCur
  <2>3. vruntime[cur[w]] + VruntimeDelta \in Nat
    BY <2>2 DEF Kept, KeysOK, VruntimeDelta
  <2>. QED  BY <1>6, <1>7, <2>1, <2>2, <2>3 DEF OnYield
<1>8. CASE Requeue(w)
  <2>1. /\ pc[w] = "requeue" /\ UNCHANGED <<idx, thread>>
        /\ \E to \in {"acquire", "exited"} : pc' = [pc EXCEPT ![w] = to]
    BY <1>8 DEF Requeue, Retry, Fail, Step, taskVars, slotVars
  <2>2. cur[w] \in Tasks /\ w \in Keepers(cur[w])
    BY <2>1 DEF Keepers, InHand, Kept, PolicyInv
  <2>3. vruntime[cur[w]] \in Nat
    BY <2>2 DEF Kept, KeysOK
  <2>. QED  BY <1>6, <1>8, <2>1, <2>2, <2>3 DEF Requeue
<1>. QED  BY <1>1, <1>3, <1>4, <1>5, <1>7, <1>8 DEF Runqueue

(* Only the owner of a task's lock changes what its context would resume.  *)
LEMMA OwnerWritesContext ==
  ASSUME Kept, NEW w \in Workers, PolicyWorker(w), NEW t \in Tasks,
         thread'[t] # thread[t]
  PROVE  /\ lock[t] = w
         /\ thread'[t] = "saved" => w \in Keepers(t)
<1>. USE DEF Kept, PolicyInv, StateInv, LockInv, CoreTypeOK, Step
<1>1. CASE SwitchTo(w) \/ TaskYield(w) \/ TaskExit(w) \/ ReleaseFinished(w)
  <2>1. t = cur[w] /\ pc[w] \in {"switch", "fiber", "release"}
    BY <1>1
    DEF SwitchTo, TaskYield, TaskExit, SwitchToScheduler, ReleaseFinished
  <2>. QED  BY <2>1
       DEF MutualExclusion, Holds, OwnsCur, OnFiber, Keepers, Owners
<1>2. CASE SubmitFill(w)
  <2>1. t = idx[w] /\ pc[w] = "fill" /\ thread'[t] = "entry"
    BY <1>2 DEF SubmitFill, Fill
  <2>. QED  BY <2>1 DEF MutualExclusion, Holds, OwnsSlot
<1>3. CASE UNCHANGED thread
  BY <1>3
<1>4. \/ SwitchTo(w) \/ TaskYield(w) \/ TaskExit(w) \/ ReleaseFinished(w)
      \/ SubmitFill(w) \/ UNCHANGED thread
  BY DEF PolicyWorker, CoreWorker, TryLockTask, CheckTask, TaskSubmit,
     SubmitTryLock, SubmitSkip, SubmitRetry, Submitted, Unlock,
     ReleaseYielded, taskVars, slotVars
<1>. QED  BY <1>1, <1>2, <1>3, <1>4

LEMMA PolicyWorkerHead ==
  ASSUME Kept, HeadInv, NEW w \in Workers, PolicyWorker(w), UNCHANGED cfsVars
  PROVE  HeadInv'
<1>1. NoHeadStart'
  <2>. SUFFICES ASSUME NEW q \in Workers, NEW t \in runqueue[q],
                       vruntime[t] < min_vruntime[q]
                PROVE  thread'[t] # "saved"
    BY DEF NoHeadStart, cfsVars
  <2>1. t \in Tasks /\ Keepers(t) = {}
    BY DEF Kept, QueueInv, Places, InQueue, AtRest
  <2>2. thread[t] # "saved"
    BY DEF HeadInv, NoHeadStart
  <2>. QED  BY <2>1, <2>2, OwnerWritesContext
<1>2. ASSUME NEW v \in Workers, pc'[v] \in {"on_submit", "submit_insert"}
      PROVE  thread'[idx'[v]] = "entry"
  <2>. USE DEF Kept, PolicyInv, StateInv, LockInv, CoreTypeOK, Step
  <2>1. CASE SubmitFill(w) /\ v = w
    BY <2>1 DEF SubmitFill, Fill, LocalsInv, OwnsSlot
  <2>2. CASE ~(SubmitFill(w) /\ v = w)
    <3>1. pc[v] \in {"on_submit", "submit_insert"} /\ idx'[v] = idx[v] /\ v # w
      BY <1>2, <2>2
      DEF PolicyWorker, TryLockTask, CheckTask, CoreWorker, SwitchTo, TaskYield,
          TaskExit, SwitchToScheduler, TaskSubmit, SubmitTryLock, SubmitFill,
          SubmitSkip, SubmitRetry, Submitted, Unlock, ReleaseFinished,
          ReleaseYielded, CallPolicy, OnFinish, Fail, LocalsInv, OnFiber
    <3>2. idx[v] \in Tasks /\ lock[idx[v]] = v
      BY <3>1 DEF LocalsInv, MutualExclusion, Holds, OwnsSlot
    <3>3. thread'[idx[v]] = thread[idx[v]]
      BY <3>1, <3>2, OwnerWritesContext
    <3>. QED  BY <3>1, <3>3 DEF HeadInv, SubmitsFresh
  <2>. QED  BY <2>1, <2>2
<1>. QED  BY <1>1, <1>2 DEF HeadInv, SubmitsFresh

LEMMA MainHead ==
  ASSUME Kept, HeadInv, Main
  PROVE  HeadInv'
<1>1. CASE CoreMain /\ UNCHANGED cfsVars
  <2>1. /\ UNCHANGED idx
        /\ \A t \in Tasks : thread'[t] = thread[t] \/ thread'[t] # "saved"
        /\ \A v \in Workers : pc'[v] \in {"on_submit", "submit_insert"} =>
             pc'[v] = pc[v] /\ thread' = thread
    BY <1>1
    DEF CoreMain, MainAbort, Wait, Destroy, StartWorker, Step, workerVars,
        taskVars, slotVars, Kept, PolicyInv, StateInv, MainInv, LockInv,
        CoreTypeOK
  <2>. QED  BY <1>1, <2>1
       DEF HeadInv, NoHeadStart, SubmitsFresh, cfsVars, Kept, QueueInv
<1>2. ASSUME NEW t \in Tasks, CFSSubmit(t) PROVE HeadInv'
  <2>1. \A v \in Workers : pc'[v] = "unborn"
    BY <1>2
    DEF CFSSubmit, MainSubmit, workerVars, Kept, PolicyInv, StateInv, MainInv
  <2>2. state[t] = "ZOMBIE"
    BY <1>2, SchedyAssumption
    DEF CFSSubmit, MainSubmit, IsFree, Kept, PolicyInv, StateInv, SlotInv,
        MainInv, Resting, OnFiber, Submitting, LockInv, CoreTypeOK, States
  <2>3. ~InQueue(t)
    BY <2>2, KeptIsNotQueued DEF Kept
  <2>4. /\ cfs_next_worker \in Workers /\ min_vruntime[cfs_next_worker] \in Nat
        /\ thread' = [thread EXCEPT ![t] = "entry"]
    BY <1>2 DEF CFSSubmit, MainSubmit, Fill, Kept, KeysOK
  <2>5. SubmitsFresh'
    BY <2>1 DEF SubmitsFresh
  <2>6. /\ thread'[t] = "entry"
        /\ \A u \in Tasks \ {t} : thread'[u] = thread[u]
    BY <2>4 DEF Kept, PolicyInv, StateInv, LockInv, CoreTypeOK
  <2>7. /\ vruntime' = [vruntime EXCEPT ![t] = min_vruntime[cfs_next_worker]]
        /\ Push(cfs_next_worker, t) /\ UNCHANGED min_vruntime
    BY <1>2 DEF CFSSubmit
  <2>. QED  BY <2>3, <2>4, <2>5, <2>6, <2>7, InsertingKeepsHead
<1>3. CASE CFSReinit
  BY <1>3 DEF CFSReinit, Reinit, HeadInv, NoHeadStart, SubmitsFresh
<1>. QED  BY <1>1, <1>2, <1>3 DEF Main

(* Whatever thieves do to min_vruntime: a task that has run and waits in a *)
(* tree is not behind the tree's min_vruntime (cfs_requeue, cfs_on_yield). *)
THEOREM CFSNoHeadStart == Spec => []NoHeadStart
<1>1. Init => HeadInv
  BY DEF Init, CoreInit, HeadInv, NoHeadStart, SubmitsFresh
<1>2. Kept /\ HeadInv /\ [Next]_vars => HeadInv'
  <2>1. ASSUME Kept, HeadInv, UNCHANGED vars PROVE HeadInv'
    BY <2>1
    DEF vars, cfsVars, coreVars, taskVars, slotVars, workerVars, HeadInv,
        NoHeadStart, SubmitsFresh
  <2>. QED  BY <2>1, RunqueueHead, PolicyWorkerHead, MainHead DEF Next, Worker
<1>. QED  BY <1>1, <1>2, CFSInductive, PTL DEF Spec, HeadInv

=============================================================================
