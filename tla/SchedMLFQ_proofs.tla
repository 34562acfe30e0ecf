-------------------------- MODULE SchedMLFQ_proofs --------------------------
(***************************************************************************)
(* For every number of slots, workers, attempts, submissions and levels:   *)
(* the multilevel feedback queue keeps every task in one place, its locks  *)
(* exclude, and it is a task pool whose wait may end too early.            *)
(***************************************************************************)
EXTENDS SchedMLFQ, SchedPolicy_proofs, FiniteSetTheorems

USE DEF taskLevel

InQueue(t) ==
  \E q \in Workers, l \in Levels :
    \E i \in 1 .. Len(queues[q][l]) : queues[q][l][i] = t

NoTwice ==
  \A q, r \in Workers, l, m \in Levels :
    \A i \in 1 .. Len(queues[q][l]), j \in 1 .. Len(queues[r][m]) :
      queues[q][l][i] = queues[r][m][j] => q = r /\ l = m /\ i = j

QueueInv ==
  /\ queues \in [Workers -> [Levels -> Seq(Tasks)]]
  /\ mlfq_level \in [Tasks -> Levels]
  /\ NoTwice
  /\ LevelMatchesQueue

(* A task is at rest exactly while it is in a queue.                       *)
Places == \A t \in Tasks : IF InQueue(t) THEN AtRest(t) ELSE InOneHand(t)

LEMMA PlacesMeanPlaced == Places => AllPlaced
BY DEF Places, AllPlaced

-----------------------------------------------------------------------------
(* Taking a task out of a queue and putting it in.                         *)

(* The first task of a queue goes, or the last one.                        *)
OneLess(old, s, t) ==
  /\ old # <<>>
  /\ \/ s = Tail(old) /\ t = Head(old)
     \/ s = Front(old) /\ t = Last(old)

LEMMA TakenOut ==
  ASSUME QueueInv, NEW q \in Workers, NEW l \in Levels, NEW s, NEW t,
         OneLess(queues[q][l], s, t),
         queues' = [queues EXCEPT ![q][l] = s], mlfq_level' = mlfq_level
  PROVE  /\ QueueInv' /\ t \in Tasks /\ InQueue(t) /\ ~InQueue(t)'
         /\ \A u \in Tasks \ {t} : InQueue(u)' <=> InQueue(u)
<1>. DEFINE old == queues[q][l]
<1>a. old \in Seq(Tasks) /\ old # <<>>
  BY DEF QueueInv, OneLess
<1>b. PICK shift \in {0, 1} :
        /\ s \in Seq(Tasks) /\ Len(old) = Len(s) + 1
        /\ \A i \in 1 .. Len(s) : s[i] = old[i + shift]
        /\ t = old[IF shift = 1 THEN 1 ELSE Len(s) + 1]
  <2>1. CASE s = Tail(old) /\ t = Head(old)
    <3>1. /\ s \in Seq(Tasks) /\ Len(old) = Len(s) + 1
          /\ \A i \in 1 .. Len(s) : s[i] = old[i + 1]
          /\ t = old[1]
      BY <1>a, <2>1
    <3>. QED  BY <3>1
  <2>2. CASE s = Front(old) /\ t = Last(old)
    <3>1. /\ s \in Seq(Tasks) /\ Len(old) = Len(s) + 1
          /\ \A i \in 1 .. Len(s) : s[i] = old[i + 0]
          /\ t = old[Len(s) + 1]
      BY <1>a, <2>2 DEF Front, Last
    <3>. QED  BY <3>1
  <2>. QED  BY <2>1, <2>2 DEF OneLess
<1>. DEFINE gone == IF shift = 1 THEN 1 ELSE Len(s) + 1
<1>0. Len(s) \in Nat /\ gone \in 1 .. Len(old) /\ old \in Seq(Tasks)
  BY <1>a, <1>b
<1>1. queues'[q][l] = s
  BY DEF QueueInv
<1>2. \A r \in Workers, m \in Levels : r # q \/ m # l => queues'[r][m] = queues[r][m]
  BY DEF QueueInv
<1>3. queues' \in [Workers -> [Levels -> Seq(Tasks)]]
  BY <1>b DEF QueueInv
<1>4. t = old[gone] /\ t \in Tasks
  BY <1>b, <1>0
<1>5. \A i \in 1 .. Len(s) : i + shift \in 1 .. Len(old) /\ i + shift # gone
  BY <1>b, <1>0
<1>6. \A i \in 1 .. Len(old) : i # gone => i - shift \in 1 .. Len(s) /\ s[i - shift] = old[i]
  BY <1>b, <1>0
<1>7. NoTwice'
  <2>. SUFFICES ASSUME NEW r1 \in Workers, NEW r2 \in Workers,
                       NEW m1 \in Levels, NEW m2 \in Levels,
                       NEW i \in 1 .. Len(queues'[r1][m1]),
                       NEW j \in 1 .. Len(queues'[r2][m2]),
                       queues'[r1][m1][i] = queues'[r2][m2][j]
                PROVE  r1 = r2 /\ m1 = m2 /\ i = j
    BY DEF NoTwice
  <2>. DEFINE a == IF r1 = q /\ m1 = l THEN i + shift ELSE i
              b == IF r2 = q /\ m2 = l THEN j + shift ELSE j
  <2>1. a \in 1 .. Len(queues[r1][m1]) /\ queues[r1][m1][a] = queues'[r1][m1][i]
    BY <1>b, <1>0, <1>1, <1>2, <1>5
  <2>2. b \in 1 .. Len(queues[r2][m2]) /\ queues[r2][m2][b] = queues'[r2][m2][j]
    BY <1>b, <1>0, <1>1, <1>2, <1>5
  <2>. HIDE DEF a, b
  <2>3. r1 = r2 /\ m1 = m2 /\ a = b
    BY <2>1, <2>2 DEF QueueInv, NoTwice
  <2>4. i \in Int /\ j \in Int
    BY <1>3
  <2>. QED  BY <2>3, <2>4 DEF a, b
<1>8. LevelMatchesQueue'
  <2>. SUFFICES ASSUME NEW r \in Workers, NEW m \in Levels,
                       NEW i \in 1 .. Len(queues'[r][m])
                PROVE  mlfq_level[queues'[r][m][i]] = m
    BY DEF LevelMatchesQueue
  <2>1. CASE r = q /\ m = l
    <3>1. /\ i + shift \in 1 .. Len(old)
          /\ queues'[r][m][i] = old[i + shift]
      BY <1>b, <1>1, <1>5, <2>1
    <3>. QED  BY <2>1, <3>1 DEF QueueInv, LevelMatchesQueue
  <2>2. CASE r # q \/ m # l
    BY <1>2, <2>2 DEF QueueInv, LevelMatchesQueue
  <2>. QED  BY <2>1, <2>2
<1>9. InQueue(t)
  BY <1>0, <1>4 DEF InQueue
<1>10. ~InQueue(t)'
  <2>. SUFFICES ASSUME NEW r \in Workers, NEW m \in Levels,
                       NEW i \in 1 .. Len(queues'[r][m]),
                       queues'[r][m][i] = t
                PROVE  FALSE
    BY DEF InQueue
  <2>1. CASE r = q /\ m = l
    <3>1. /\ i + shift \in 1 .. Len(old) /\ i + shift # gone
          /\ old[i + shift] = old[gone]
      BY <1>b, <1>1, <1>4, <1>5, <2>1
    <3>. QED  BY <1>0, <3>1 DEF QueueInv, NoTwice
  <2>2. CASE r # q \/ m # l
    BY <1>0, <1>2, <1>4, <2>2 DEF QueueInv, NoTwice
  <2>. QED  BY <2>1, <2>2
<1>11. ASSUME NEW u \in Tasks \ {t} PROVE InQueue(u)' <=> InQueue(u)
  <2>1. ASSUME InQueue(u)' PROVE InQueue(u)
    <3>1. PICK r \in Workers, m \in Levels :
            \E i \in 1 .. Len(queues'[r][m]) : queues'[r][m][i] = u
      BY <2>1 DEF InQueue
    <3>. QED  BY <1>b, <1>0, <1>1, <1>2, <1>5, <3>1 DEF InQueue
  <2>2. ASSUME InQueue(u) PROVE InQueue(u)'
    <3>1. PICK r \in Workers, m \in Levels :
            \E i \in 1 .. Len(queues[r][m]) : queues[r][m][i] = u
      BY <2>2 DEF InQueue
    <3>2. PICK i \in 1 .. Len(queues[r][m]) : queues[r][m][i] = u
      BY <3>1
    <3>3. CASE r = q /\ m = l
      <4>1. i # gone
        BY <1>4, <3>2, <3>3
      <4>2. /\ i - shift \in 1 .. Len(queues'[q][l])
            /\ queues'[q][l][i - shift] = u
        BY <1>1, <1>6, <3>2, <3>3, <4>1
      <4>. QED  BY <4>2 DEF InQueue
    <3>4. CASE r # q \/ m # l
      BY <1>2, <3>2, <3>4 DEF InQueue
    <3>. QED  BY <3>3, <3>4
  <2>. QED  BY <2>1, <2>2
<1>. QED  BY <1>3, <1>4, <1>7, <1>8, <1>9, <1>10, <1>11 DEF QueueInv

(* A task that is in no queue goes to the tail of the one of its level.    *)
LEMMA PutIn ==
  ASSUME QueueInv, NEW q \in Workers, NEW l \in Levels, NEW t \in Tasks,
         queues' = [queues EXCEPT ![q][l] = Append(@, t)], ~InQueue(t),
         mlfq_level' \in [Tasks -> Levels], mlfq_level'[t] = l,
         \A u \in Tasks \ {t} : mlfq_level'[u] = mlfq_level[u]
  PROVE  /\ QueueInv' /\ InQueue(t)'
         /\ \A u \in Tasks \ {t} : InQueue(u)' <=> InQueue(u)
<1>. DEFINE old == queues[q][l]
<1>0. old \in Seq(Tasks) /\ Len(old) \in Nat
  BY DEF QueueInv
<1>1. queues'[q][l] = Append(old, t)
  BY DEF QueueInv
<1>2. \A r \in Workers, m \in Levels : r # q \/ m # l => queues'[r][m] = queues[r][m]
  BY DEF QueueInv
<1>3. queues' \in [Workers -> [Levels -> Seq(Tasks)]]
  BY DEF QueueInv
<1>4. /\ Len(Append(old, t)) = Len(old) + 1
      /\ \A i \in 1 .. Len(old) : Append(old, t)[i] = old[i]
      /\ Append(old, t)[Len(old) + 1] = t
  BY <1>0
<1>5. ASSUME NEW r \in Workers, NEW m \in Levels,
             NEW i \in 1 .. Len(queues'[r][m])
      PROVE  \/ i \in 1 .. Len(queues[r][m]) /\ queues[r][m][i] = queues'[r][m][i]
             \/ r = q /\ m = l /\ i = Len(old) + 1 /\ queues'[r][m][i] = t
  BY <1>0, <1>1, <1>2, <1>4
<1>6. NoTwice'
  <2>. SUFFICES ASSUME NEW r1 \in Workers, NEW r2 \in Workers,
                       NEW m1 \in Levels, NEW m2 \in Levels,
                       NEW i \in 1 .. Len(queues'[r1][m1]),
                       NEW j \in 1 .. Len(queues'[r2][m2]),
                       queues'[r1][m1][i] = queues'[r2][m2][j]
                PROVE  r1 = r2 /\ m1 = m2 /\ i = j
    BY DEF NoTwice
  <2>1. CASE /\ i \in 1 .. Len(queues[r1][m1])
             /\ queues[r1][m1][i] = queues'[r1][m1][i]
    <3>1. queues[r1][m1][i] # t
      BY <2>1 DEF InQueue
    <3>2. /\ j \in 1 .. Len(queues[r2][m2])
          /\ queues[r2][m2][j] = queues'[r2][m2][j]
      BY <1>5, <2>1, <3>1
    <3>3. queues[r1][m1][i] = queues[r2][m2][j]
      BY <2>1, <3>2
    <3>4. \A x \in 1 .. Len(queues[r1][m1]), y \in 1 .. Len(queues[r2][m2]) :
            queues[r1][m1][x] = queues[r2][m2][y] => r1 = r2 /\ m1 = m2 /\ x = y
      BY DEF QueueInv, NoTwice
    <3>. QED  BY <2>1, <3>2, <3>3, <3>4
  <2>2. CASE r1 = q /\ m1 = l /\ i = Len(old) + 1 /\ queues'[r1][m1][i] = t
    <3>1. queues'[r2][m2][j] = t
      BY <2>2
    <3>2. ~(/\ j \in 1 .. Len(queues[r2][m2])
            /\ queues[r2][m2][j] = queues'[r2][m2][j])
      BY <3>1 DEF InQueue
    <3>3. r2 = q /\ m2 = l /\ j = Len(old) + 1
      BY <1>5, <3>2
    <3>. QED  BY <2>2, <3>3
  <2>. QED  BY <1>5, <2>1, <2>2
<1>7. LevelMatchesQueue'
  <2>. SUFFICES ASSUME NEW r \in Workers, NEW m \in Levels,
                       NEW i \in 1 .. Len(queues'[r][m])
                PROVE  mlfq_level'[queues'[r][m][i]] = m
    BY DEF LevelMatchesQueue
  <2>1. CASE i \in 1 .. Len(queues[r][m]) /\ queues[r][m][i] = queues'[r][m][i]
    <3>1. queues[r][m][i] # t
      BY <2>1 DEF InQueue
    <3>2. queues[r][m] \in Seq(Tasks)
      BY DEF QueueInv
    <3>3. queues[r][m][i] \in Tasks
      BY <2>1, <3>2
    <3>. QED  BY <2>1, <3>1, <3>3 DEF QueueInv, LevelMatchesQueue
  <2>2. CASE m = l /\ queues'[r][m][i] = t
    BY <2>2
  <2>. QED  BY <1>5, <2>1, <2>2
<1>8. InQueue(t)'
  BY <1>0, <1>1, <1>4 DEF InQueue
<1>9. ASSUME NEW u \in Tasks \ {t} PROVE InQueue(u)' <=> InQueue(u)
  <2>1. ASSUME InQueue(u)' PROVE InQueue(u)
    BY <1>5, <2>1 DEF InQueue
  <2>2. ASSUME InQueue(u) PROVE InQueue(u)'
    <3>1. PICK r \in Workers, m \in Levels :
            \E i \in 1 .. Len(queues[r][m]) : queues[r][m][i] = u
      BY <2>2 DEF InQueue
    <3>. QED  BY <1>0, <1>1, <1>2, <1>4, <3>1 DEF InQueue
  <2>. QED  BY <2>1, <2>2
<1>. QED  BY <1>3, <1>6, <1>7, <1>8, <1>9 DEF QueueInv

(* Nothing moves in or out.                                                *)
LEMMA QueuesStay ==
  ASSUME QueueInv, queues' = queues, mlfq_level' \in [Tasks -> Levels],
         \A t \in Tasks : InQueue(t) => mlfq_level'[t] = mlfq_level[t]
  PROVE  QueueInv' /\ \A t \in Tasks : InQueue(t)' <=> InQueue(t)
<1>1. LevelMatchesQueue'
  BY DEF LevelMatchesQueue, InQueue, QueueInv
<1>. QED  BY <1>1 DEF QueueInv, NoTwice, InQueue

(* The levels of a run queue that are not empty have a least and a largest.*)
LEMMA LevelsAreFew ==
  ASSUME NEW S \in SUBSET Levels, S # {}
  PROVE  /\ \E l \in S : \A k \in S : l <= k
         /\ \E l \in S : \A k \in S : l >= k
<1>1. Levels \subseteq {0, 1, 2, 3}
  BY MLFQAssumption DEF Levels
<1>2. PICK a \in S : TRUE
  OBVIOUS
<1>3. \A k \in S : k \in {0, 1, 2, 3}
  BY <1>1
<1>4. \E l \in S : \A k \in S : l <= k
  BY <1>2, <1>3
<1>5. \E l \in S : \A k \in S : l >= k
  BY <1>2, <1>3
<1>. QED  BY <1>4, <1>5

LEMMA QuantumsArePositive == \A l \in Levels : mlfq_quantums[l] \in Nat \ {0}
BY MLFQAssumption DEF Levels, mlfq_quantums

-----------------------------------------------------------------------------
(* Places.                                                                 *)

LEMMA PlacesStay ==
  ASSUME Places,
         \A t \in Tasks : StaysPut(t) /\ (InQueue(t)' <=> InQueue(t))
  PROVE  Places'
BY DEF Places, StaysPut

LEMMA PlacesMoved ==
  ASSUME Places, NEW t \in Tasks,
         IF InQueue(t)' THEN AtRest(t)' ELSE InOneHand(t)',
         \A u \in Tasks \ {t} : StaysPut(u) /\ (InQueue(u)' <=> InQueue(u))
  PROVE  Places'
BY DEF Places, StaysPut

LEMMA KeptIsNotQueued ==
  ASSUME Places, NEW t \in Tasks, Keepers(t) # {} \/ state[t] # "RUNNABLE"
  PROVE  ~InQueue(t)
BY DEF Places, AtRest

(* What the steps of the run queues preserve.                              *)
Kept == PolicyInv /\ QueueInv /\ Places

(* A worker looks into queues and changes none.                            *)
LEMMA SearchKeeps ==
  ASSUME Kept, NEW w \in Workers,
         DequeueLock(w) \/ DequeueEmpty(w) \/ StealPass(w) \/ StealLock(w)
           \/ StealEmpty(w) \/ StealEnd(w)
  PROVE  Kept'
<1>. USE DEF Kept
<1>1. idx' \in [Workers -> Nat] /\ \A v \in Workers \ {w} : idx'[v] = idx[v]
  BY DEF DequeueLock, DequeueEmpty, StealPass, StealLock, StealEmpty, StealEnd,
     NextVictim, NothingDequeued, Inside, PolicyInv, StateInv, LockInv,
     CoreTypeOK
<1>2. /\ queues' = queues /\ mlfq_level' = mlfq_level
      /\ UNCHANGED <<taskVars, cur, attempt, restVars>>
  BY DEF DequeueLock, DequeueEmpty, StealPass, StealLock, StealEmpty, StealEnd,
     NextVictim, NothingDequeued, Inside, mlfqVars
<1>3. \E from \in Searching, to \in (Searching \ {"acquire"}) \cup {"exited"} :
        Step(w, from, to)
  BY DEF DequeueLock, DequeueEmpty, StealPass, StealLock, StealEmpty, StealEnd,
     NextVictim, NothingDequeued, Inside, Searching
<1>4. PolicyInv' /\ \A t \in Tasks : StaysPut(t)
  BY <1>1, <1>2, <1>3, SearchInv
<1>5. QueueInv' /\ \A t \in Tasks : InQueue(t)' <=> InQueue(t)
  BY <1>2, QueuesStay DEF QueueInv
<1>. QED  BY <1>4, <1>5, PlacesStay

LEMMA TakingOneKeeps ==
  ASSUME Kept, NEW w \in Workers, NEW from \in Searching, NEW q \in Workers,
         NEW l \in Levels, NEW s, NEW t, OneLess(queues[q][l], s, t),
         queues' = [queues EXCEPT ![q][l] = s], mlfq_level' = mlfq_level,
         Dequeued(w, from, t)
  PROVE  Kept'
<1>. USE DEF Kept
<1>1. /\ QueueInv' /\ t \in Tasks /\ InQueue(t) /\ ~InQueue(t)'
      /\ \A u \in Tasks \ {t} : InQueue(u)' <=> InQueue(u)
  BY TakenOut
<1>2. AtRest(t)
  BY <1>1 DEF Places
<1>3. PolicyInv' /\ InOneHand(t)' /\ \A u \in Tasks \ {t} : StaysPut(u)
  BY <1>1, <1>2, DequeuedInv
<1>. QED  BY <1>1, <1>3, PlacesMoved

LEMMA DequeueOwnKeeps ==
  ASSUME Kept, NEW w \in Workers, DequeueOwn(w)
  PROVE  Kept'
<1>. DEFINE l == CHOOSE l \in NonEmpty(w) : \A k \in NonEmpty(w) : l <= k
            old == queues[w][l]
<1>1. l \in NonEmpty(w)
  BY LevelsAreFew DEF DequeueOwn, NonEmpty
<1>2. /\ Dequeued(w, "dequeue", Head(old))
      /\ queues' = [queues EXCEPT ![w][l] = Tail(@)]
      /\ mlfq_level' = mlfq_level
  BY DEF DequeueOwn
<1>. HIDE DEF l
<1>3. l \in Levels /\ OneLess(old, Tail(old), Head(old))
  BY <1>1 DEF NonEmpty, OneLess
<1>4. queues' = [queues EXCEPT ![w][l] = Tail(old)]
  BY <1>2, <1>3 DEF Kept, QueueInv
<1>. QED  BY <1>2, <1>3, <1>4, TakingOneKeeps DEF Searching

LEMMA StealTaskKeeps ==
  ASSUME Kept, NEW w \in Workers, StealTask(w)
  PROVE  Kept'
<1>. DEFINE q == Victim(w)
            l == CHOOSE l \in NonEmpty(q) : \A k \in NonEmpty(q) : l >= k
            old == queues[q][l]
<1>0. q \in Workers
  BY VictimIsWorker DEF Kept
<1>1. l \in NonEmpty(q)
  BY LevelsAreFew DEF StealTask, NonEmpty
<1>2. /\ Dequeued(w, "steal_pop", Last(old))
      /\ queues' = [queues EXCEPT ![q][l] = Front(@)]
      /\ mlfq_level' = mlfq_level
  BY DEF StealTask, TakeLast
<1>. HIDE DEF l, q
<1>3. l \in Levels /\ OneLess(old, Front(old), Last(old))
  BY <1>1 DEF NonEmpty, OneLess
<1>4. queues' = [queues EXCEPT ![q][l] = Front(old)]
  BY <1>0, <1>2, <1>3 DEF Kept, QueueInv
<1>. QED  BY <1>0, <1>2, <1>3, <1>4, TakingOneKeeps DEF Searching

(* A worker comes to the lock of a queue with a task in its hands.         *)
LEMMA ApproachKeeps ==
  ASSUME Kept, NEW w \in Workers, mlfq_level' \in [Tasks -> Levels],
         OnSubmit(w) \/ OnYield(w) \/ Requeue(w)
  PROVE  Kept'
<1>. USE DEF Kept
<1>1. \E from, to :
        /\ Inside(w, from, to)
        /\ \/ from = "on_submit" /\ to = "submit_insert"
           \/ from = "on_yield" /\ to = "yield_insert"
           \/ from = "requeue" /\ to = "retry_insert"
  BY DEF OnSubmit, OnYield, Requeue
<1>2. PolicyInv' /\ \A t \in Tasks : StaysPut(t)
  BY <1>1, ApproachInv
<1>3. ASSUME NEW t \in Tasks, InQueue(t) PROVE mlfq_level'[t] = mlfq_level[t]
  <2>1. Keepers(t) = {}
    BY <1>3 DEF Places, AtRest
  <2>2. CASE OnSubmit(w)
    <3>1. t # idx[w]
      BY <2>1, <2>2 DEF OnSubmit, Inside, Step, Keepers
    <3>. QED  BY <2>2, <3>1 DEF OnSubmit, QueueInv
  <2>3. CASE OnYield(w)
    <3>1. t # cur[w]
      BY <2>1, <2>3 DEF OnYield, Inside, Step, Keepers, Owners
    <3>. QED  BY <2>3, <3>1 DEF OnYield, QueueInv
  <2>4. CASE Requeue(w)
    BY <2>4 DEF Requeue
  <2>. QED  BY <2>2, <2>3, <2>4
<1>4. QueueInv' /\ \A t \in Tasks : InQueue(t)' <=> InQueue(t)
  <2>1. queues' = queues
    BY DEF OnSubmit, OnYield, Requeue
  <2>. QED  BY <1>3, <2>1, QueuesStay
<1>. QED  BY <1>2, <1>4, PlacesStay

(* A worker inserts a task and lets it go.                                 *)
LEMMA InsertingKeeps ==
  ASSUME Kept, NEW w \in Workers, NEW t \in Tasks, w \in Keepers(t),
         InsertTail(w, t), mlfq_level' = mlfq_level,
         PolicyInv', AtRest(t)', \A u \in Tasks \ {t} : StaysPut(u)
  PROVE  Kept'
<1>. USE DEF Kept
<1>1. ~InQueue(t)
  BY KeptIsNotQueued
<1>2. PICK l \in Levels : l = mlfq_level[t]
  BY DEF QueueInv
<1>3. /\ QueueInv' /\ InQueue(t)'
      /\ \A u \in Tasks \ {t} : InQueue(u)' <=> InQueue(u)
  <2>1. queues' = [queues EXCEPT ![w][l] = Append(@, t)]
    BY <1>2 DEF InsertTail
  <2>2. /\ mlfq_level' \in [Tasks -> Levels] /\ mlfq_level'[t] = l
        /\ \A u \in Tasks \ {t} : mlfq_level'[u] = mlfq_level[u]
    BY <1>2 DEF QueueInv
  <2>. QED  BY <1>1, <2>1, <2>2, PutIn
<1>. QED  BY <1>3, PlacesMoved

LEMMA InsertKeeps ==
  ASSUME Kept, NEW w \in Workers,
         SubmitInsert(w) \/ YieldInsert(w) \/ RetryInsert(w)
  PROVE  Kept'
<1>. USE DEF Kept
<1>0. AllPlaced
  BY PlacesMeanPlaced
<1>1. CASE SubmitInsert(w)
  <2>1. Inside(w, "submit_insert", "submitted") /\ pc[w] = "submit_insert"
    BY <1>1 DEF SubmitInsert, Inside, Step
  <2>2. PICK t \in Tasks : t = idx[w] /\ w \in Keepers(t)
    BY <2>1
    DEF Keepers, PolicyInv, StateInv, LockInv, LocalsInv, OwnsSlot
  <2>3. worker[cur[w]] = w
    BY <2>1 DEF PolicyInv, StateInv, LockInv, LocalsInv, OnFiber, Submitting
  <2>4. idx' = idx
    BY <2>1 DEF Inside
  <2>5. PolicyInv' /\ AtRest(t)' /\ \A u \in Tasks \ {t} : StaysPut(u)
    BY <1>0, <2>1, <2>2, <2>4, InsertSubmittedInv DEF AtRest, Keepers
  <2>. QED  BY <1>1, <2>2, <2>3, <2>5, InsertingKeeps DEF SubmitInsert
<1>2. CASE YieldInsert(w)
  <2>1. /\ Inside(w, "yield_insert", "unlock") /\ pc[w] = "yield_insert"
        /\ cur' = cur
    BY <1>2 DEF YieldInsert, Inside, Step
  <2>2. PICK t \in Tasks : t = cur[w] /\ w \in Keepers(t)
    BY <2>1
    DEF Keepers, Owners, PolicyInv, StateInv, LockInv, LocalsInv, OwnsCur
  <2>3. PolicyInv' /\ AtRest(t)' /\ \A u \in Tasks \ {t} : StaysPut(u)
    BY <1>0, <2>1, <2>2, InsertYieldedInv DEF AtRest, Keepers
  <2>. QED  BY <1>2, <2>2, <2>3, InsertingKeeps DEF YieldInsert
<1>3. CASE RetryInsert(w)
  <2>1. Retry(w, "retry_insert") /\ pc[w] = "retry_insert"
    BY <1>3 DEF RetryInsert, Retry, Fail, Step
  <2>2. PolicyInv'
    BY <1>0, <2>1, RetryInv
  <2>3. PICK t \in Tasks : /\ t = cur[w] /\ AtRest(t)'
                           /\ \A u \in Tasks \ {t} : StaysPut(u)
    BY <1>0, <2>1, RetryInv
  <2>4. w \in Keepers(t)
    BY <2>1, <2>3 DEF Keepers, InHand
  <2>. QED  BY <1>3, <2>2, <2>3, <2>4, InsertingKeeps DEF RetryInsert
<1>. QED  BY <1>1, <1>2, <1>3

LEMMA MainKeeps ==
  ASSUME Kept, mlfq_next_worker \in Workers, Main
  PROVE  Kept'
<1>. USE DEF Kept
<1>1. CASE CoreMain /\ UNCHANGED mlfqVars
  <2>1. PolicyInv' /\ \A t \in Tasks : StaysPut(t)
    BY <1>1, CoreMainPolicyInv
  <2>2. QueueInv' /\ \A t \in Tasks : InQueue(t)' <=> InQueue(t)
    BY <1>1, QueuesStay DEF mlfqVars, QueueInv
  <2>. QED  BY <2>1, <2>2, PlacesStay
<1>2. ASSUME NEW t \in Tasks, MLFQSubmit(t)
      PROVE  Kept'
  <2>1. PolicyInv' /\ AtRest(t)' /\ \A u \in Tasks \ {t} : StaysPut(u)
    BY <1>2, MainSubmitInv DEF MLFQSubmit
  <2>2. ~InQueue(t)
    <3>1. state[t] = "ZOMBIE"
      BY <1>2, SchedyAssumption
      DEF MLFQSubmit, MainSubmit, IsFree, PolicyInv, StateInv, SlotInv,
          MainInv, Resting, OnFiber, Submitting, LockInv, CoreTypeOK, States
    <3>. QED  BY <3>1, KeptIsNotQueued
  <2>3. 0 \in Levels
    BY MLFQAssumption DEF Levels
  <2>4. /\ mlfq_level' \in [Tasks -> Levels] /\ mlfq_level'[t] = 0
        /\ \A u \in Tasks \ {t} : mlfq_level'[u] = mlfq_level[u]
    BY <1>2, <2>3 DEF MLFQSubmit, QueueInv
  <2>5. /\ QueueInv' /\ InQueue(t)'
        /\ \A u \in Tasks \ {t} : InQueue(u)' <=> InQueue(u)
    BY <1>2, <2>2, <2>3, <2>4, PutIn DEF MLFQSubmit
  <2>. QED  BY <2>1, <2>5, PlacesMoved
<1>3. CASE MLFQReinit
  <2>1. PolicyInv' /\ \A t \in Tasks : InOneHand(t)'
    BY <1>3, ReinitInv DEF MLFQReinit
  <2>2. \A q \in Workers, l \in Levels : queues'[q][l] = <<>>
    BY <1>3 DEF MLFQReinit
  <2>3. \A t \in Tasks : ~InQueue(t)'
    BY <2>2 DEF InQueue
  <2>4. QueueInv'
    <3>1. 0 \in Levels /\ <<>> \in Seq(Tasks)
      BY MLFQAssumption DEF Levels
    <3>. QED  BY <1>3, <2>2, <3>1
         DEF MLFQReinit, QueueInv, NoTwice, LevelMatchesQueue
  <2>. QED  BY <2>1, <2>3, <2>4 DEF Places
<1>. QED  BY <1>1, <1>2, <1>3 DEF Main

-----------------------------------------------------------------------------
(* The inductive invariant.                                                *)

(* What the run queues' own variables are, but for the queues themselves.  *)
TicksOK ==
  /\ rq_lock \in [Workers -> Workers \cup {NULL}]
  /\ mlfq_level \in [Tasks -> Levels]
  /\ \A t \in Tasks : mlfq_ticks[t] \in 0 .. mlfq_quantums[mlfq_level[t]] - 1
  /\ mlfq_next_worker \in Workers
  /\ mlfq_ticks \in [Tasks -> Nat]

LEMMA OnSubmitTypes ==
  ASSUME PolicyInv, TicksOK, NEW w \in Workers, OnSubmit(w)
  PROVE  TicksOK'
<1>. USE DEF TicksOK
<1>1. 0 \in Levels /\ 0 \in 0 .. mlfq_quantums[0] - 1
  BY QuantumsArePositive, MLFQAssumption DEF Levels
<1>2. PICK t \in Tasks : t = idx[w]
  BY DEF OnSubmit, Inside, Step, PolicyInv, StateInv, LockInv, LocalsInv,
     OwnsSlot
<1>3. /\ mlfq_level' = [mlfq_level EXCEPT ![t] = 0]
      /\ mlfq_ticks' = [mlfq_ticks EXCEPT ![t] = 0]
  BY <1>2 DEF OnSubmit
<1>4. \A u \in Tasks : mlfq_ticks'[u] \in 0 .. mlfq_quantums[mlfq_level'[u]] - 1
  <2>. SUFFICES ASSUME NEW u \in Tasks
                PROVE  mlfq_ticks'[u] \in 0 .. mlfq_quantums[mlfq_level'[u]] - 1
    OBVIOUS
  <2>1. CASE u = t
    BY <1>1, <1>3, <2>1
  <2>2. CASE u # t
    BY <1>3, <2>2
  <2>. QED  BY <2>1, <2>2
<1>5. rq_lock' \in [Workers -> Workers \cup {NULL}]
  BY DEF OnSubmit, LockQueue
<1>6. mlfq_level' \in [Tasks -> Levels] /\ mlfq_ticks' \in [Tasks -> Nat]
  BY <1>1, <1>3
<1>. QED  BY <1>4, <1>5, <1>6 DEF OnSubmit

LEMMA OnYieldTypes ==
  ASSUME PolicyInv, TicksOK, NEW w \in Workers, OnYield(w)
  PROVE  TicksOK'
<1>. USE DEF TicksOK
<1>1. PICK t \in Tasks : t = cur[w]
  BY DEF OnYield, Inside, Step, PolicyInv, StateInv, LockInv, LocalsInv,
     OwnsCur
<1>2. PICK n \in Nat, l \in Levels :
        /\ mlfq_level' = [mlfq_level EXCEPT ![t] = l]
        /\ mlfq_ticks' = [mlfq_ticks EXCEPT ![t] = n]
        /\ n < mlfq_quantums[l]
  <2>1. CASE mlfq_ticks[t] + 1 >= mlfq_quantums[mlfq_level[t]]
    <3>1. Demoted(mlfq_level[t]) \in Levels
      BY MLFQAssumption DEF Demoted, Levels
    <3>2. /\ mlfq_level' = [mlfq_level EXCEPT ![t] = Demoted(mlfq_level[t])]
          /\ mlfq_ticks' = [mlfq_ticks EXCEPT ![t] = 0]
      BY <1>1, <2>1 DEF OnYield
    <3>3. 0 < mlfq_quantums[Demoted(mlfq_level[t])]
      BY <3>1, QuantumsArePositive
    <3>. QED  BY <3>1, <3>2, <3>3
  <2>2. CASE ~(mlfq_ticks[t] + 1 >= mlfq_quantums[mlfq_level[t]])
    <3>1. /\ mlfq_level' = [mlfq_level EXCEPT ![t] = mlfq_level[t]]
          /\ mlfq_ticks' = [mlfq_ticks EXCEPT ![t] = mlfq_ticks[t] + 1]
      BY <1>1, <2>2 DEF OnYield
    <3>2. mlfq_ticks[t] + 1 < mlfq_quantums[mlfq_level[t]]
      BY <2>2, QuantumsArePositive
    <3>3. mlfq_ticks[t] + 1 \in Nat /\ mlfq_level[t] \in Levels
      OBVIOUS
    <3>. QED  BY <3>1, <3>2, <3>3
  <2>. QED  BY <2>1, <2>2
<1>3. mlfq_level' \in [Tasks -> Levels] /\ mlfq_ticks' \in [Tasks -> Nat]
  BY <1>2
<1>4. ASSUME NEW u \in Tasks
      PROVE  mlfq_ticks'[u] \in 0 .. mlfq_quantums[mlfq_level'[u]] - 1
  <2>1. CASE u = t
    BY <1>2, <2>1, QuantumsArePositive
  <2>2. CASE u # t
    BY <1>2, <2>2
  <2>. QED  BY <2>1, <2>2
<1>5. mlfq_next_worker' \in Workers /\ rq_lock' \in [Workers -> Workers \cup {NULL}]
  BY DEF OnYield, LockQueue
<1>. QED  BY <1>3, <1>4, <1>5

LEMMA RunqueueTypes ==
  ASSUME PolicyInv, TicksOK, NEW w \in Workers, Runqueue(w)
  PROVE  TicksOK'
<1>1. CASE /\ ~OnSubmit(w) /\ ~OnYield(w)
  <2>1. \/ rq_lock' = rq_lock
        \/ \E q : rq_lock' = [rq_lock EXCEPT ![q] = w]
        \/ \E q : rq_lock' = [rq_lock EXCEPT ![q] = NULL]
    BY <1>1
    DEF Runqueue, DequeueLock, DequeueOwn, DequeueEmpty, StealPass, StealLock,
        StealTask, StealEmpty, StealEnd, SubmitInsert, YieldInsert, Requeue,
        RetryInsert, mlfqVars, LockQueue, UnlockQueue
  <2>2. UNCHANGED <<mlfq_level, mlfq_ticks, mlfq_next_worker>>
    BY <1>1
    DEF Runqueue, DequeueLock, DequeueOwn, DequeueEmpty, StealPass, StealLock,
        StealTask, StealEmpty, StealEnd, SubmitInsert, YieldInsert, Requeue,
        RetryInsert, NextVictim, mlfqVars
  <2>. QED  BY <2>1, <2>2 DEF TicksOK
<1>. QED  BY <1>1, OnSubmitTypes, OnYieldTypes

LEMMA MainTypes ==
  ASSUME TicksOK, Main
  PROVE  TicksOK'
<1>. USE SchedyAssumption DEF TicksOK
<1>1. 0 \in Levels /\ 0 \in 0 .. mlfq_quantums[0] - 1 /\ 0 \in Workers
  BY QuantumsArePositive, MLFQAssumption DEF Levels, Workers
<1>2. CASE CoreMain /\ UNCHANGED mlfqVars
  BY <1>2 DEF mlfqVars
<1>3. ASSUME NEW t \in Tasks, MLFQSubmit(t) PROVE TicksOK'
  <2>1. NextQueue(mlfq_next_worker) \in Workers
    BY DEF NextQueue, Workers
  <2>. QED  BY <1>1, <1>3, <2>1 DEF MLFQSubmit
<1>4. CASE MLFQReinit
  BY <1>1, <1>4 DEF MLFQReinit
<1>. QED  BY <1>2, <1>3, <1>4 DEF Main

LEMMA StutterKeeps ==
  ASSUME Kept, UNCHANGED coreVars, UNCHANGED mlfqVars PROVE Kept'
<1>1. PolicyInv' /\ \A t \in Tasks : StaysPut(t)
  BY StutterPolicyInv DEF Kept
<1>2. QueueInv' /\ \A t \in Tasks : InQueue(t)' <=> InQueue(t)
  BY QueuesStay DEF Kept, QueueInv, mlfqVars
<1>. QED  BY <1>1, <1>2, PlacesStay DEF Kept

LEMMA NextInv == Kept /\ TicksOK /\ [Next]_vars => Kept' /\ TicksOK'
<1>. SUFFICES ASSUME Kept, TicksOK, [Next]_vars PROVE Kept' /\ TicksOK'
  OBVIOUS
<1>1. ASSUME NEW w \in Workers, Runqueue(w) PROVE Kept' /\ TicksOK'
  <2>1. TicksOK'
    BY <1>1, RunqueueTypes DEF Kept
  <2>2. mlfq_level' \in [Tasks -> Levels]
    BY <2>1 DEF TicksOK
  <2>. QED  BY <1>1, <2>1, <2>2, SearchKeeps, DequeueOwnKeeps, StealTaskKeeps,
               ApproachKeeps, InsertKeeps DEF Runqueue
<1>2. ASSUME NEW w \in Workers, PolicyWorker(w), UNCHANGED mlfqVars
      PROVE  Kept' /\ TicksOK'
  <2>1. PolicyInv' /\ \A t \in Tasks : StaysPut(t)
    BY <1>2, PolicyWorkerInv, PlacesMeanPlaced DEF Kept
  <2>2. QueueInv' /\ \A t \in Tasks : InQueue(t)' <=> InQueue(t)
    BY <1>2, QueuesStay DEF Kept, QueueInv, mlfqVars
  <2>3. TicksOK'
    BY <1>2 DEF TicksOK, mlfqVars
  <2>. QED  BY <2>1, <2>2, <2>3, PlacesStay DEF Kept
<1>3. CASE Main
  BY <1>3, MainKeeps, MainTypes DEF TicksOK
<1>4. CASE UNCHANGED vars
  BY <1>4, StutterKeeps DEF vars, mlfqVars, TicksOK
<1>. QED  BY <1>1, <1>2, <1>3, <1>4 DEF Next, Worker

LEMMA InitInv == Init => Kept /\ TicksOK
<1>. SUFFICES ASSUME Init PROVE Kept /\ TicksOK
  OBVIOUS
<1>1. 0 \in Levels /\ 0 \in 0 .. mlfq_quantums[0] - 1 /\ 0 \in Workers
  BY QuantumsArePositive, MLFQAssumption, SchedyAssumption DEF Levels, Workers
<1>2. TicksOK
  BY <1>1 DEF Init, TicksOK
<1>3. \A q \in Workers, l \in Levels : queues[q][l] = <<>>
  BY DEF Init
<1>4. PolicyInv /\ \A t \in Tasks : InOneHand(t)
  BY InitPolicyInv DEF Init
<1>5. QueueInv
  BY <1>2, <1>3 DEF Init, QueueInv, NoTwice, LevelMatchesQueue, TicksOK
<1>6. Places
  BY <1>3, <1>4 DEF Places, InQueue
<1>. QED  BY <1>2, <1>4, <1>5, <1>6 DEF Kept

LEMMA MLFQInductive == Spec => [](Kept /\ TicksOK)
BY InitInv, NextInv, PTL DEF Spec

-----------------------------------------------------------------------------
(* The locks of the run queues.                                            *)

(* A worker takes the lock of the queue it comes to, or gives back the one *)
(* of the queue it leaves; the others stay where they are.                 *)
LEMMA LocksMoved ==
  ASSUME PolicyInv, PolicyInv', QueueExclusion,
         rq_lock \in [Workers -> Workers \cup {NULL}],
         NEW w \in Workers,
         \A v \in Workers \ {w} :
           pc'[v] = pc[v] /\ cur'[v] = cur[v] /\ idx'[v] = idx[v],
         \/ /\ UNCHANGED rq_lock
            /\ pc[w] \notin AtWork /\ pc'[w] \notin AtWork
         \/ /\ pc[w] \notin AtWork /\ pc'[w] \in AtWork
            /\ QueueOf(w)' \in Workers /\ LockQueue(w, QueueOf(w)')
         \/ /\ pc[w] \in AtWork /\ pc'[w] \notin AtWork
            /\ UnlockQueue(QueueOf(w))
  PROVE  QueueExclusion'
<1>1. ASSUME NEW v \in Workers \ {w} PROVE QueueOf(v)' = QueueOf(v)
  BY <1>1 DEF QueueOf, Victim, PolicyInv, StateInv, LockInv, LocalsInv, OnFiber,
     Submitting
<1>. HIDE DEF QueueOf
<1>2. CASE UNCHANGED rq_lock /\ pc[w] \notin AtWork /\ pc'[w] \notin AtWork
  BY <1>1, <1>2 DEF QueueExclusion
<1>3. CASE pc[w] \notin AtWork /\ LockQueue(w, QueueOf(w)') /\ pc'[w] \in AtWork
  BY <1>1, <1>3, SchedyAssumption DEF QueueExclusion, LockQueue
<1>4. CASE pc[w] \in AtWork /\ UnlockQueue(QueueOf(w)) /\ pc'[w] \notin AtWork
  BY <1>1, <1>4, SchedyAssumption DEF QueueExclusion, UnlockQueue
<1>. QED  BY <1>2, <1>3, <1>4

LEMMA RunqueueExcludes ==
  ASSUME PolicyInv, PolicyInv', QueueExclusion,
         rq_lock \in [Workers -> Workers \cup {NULL}],
         NEW w \in Workers, Runqueue(w)
  PROVE  QueueExclusion'
<1>. USE DEF Step, Inside, AtWork
<1>1. /\ pc \in [Workers -> ProgramPoints] /\ cur \in [Workers -> Tasks \cup {NULL}]
      /\ idx \in [Workers -> Nat]
      /\ \A v \in Workers : pc[v] \in OnFiber => worker[cur[v]] = v
      /\ \A v \in Workers : pc'[v] \in OnFiber => worker'[cur'[v]] = v
  BY DEF PolicyInv, StateInv, LockInv, CoreTypeOK, LocalsInv
<1>a. Victim(w) \in Workers
  BY VictimIsWorker
<1>2. CASE DequeueLock(w) \/ OnYield(w) \/ Requeue(w)
  BY <1>1, <1>2, LocksMoved DEF DequeueLock, OnYield, Requeue, QueueOf
<1>3. CASE OnSubmit(w)
  BY <1>1, <1>3, LocksMoved
  DEF OnSubmit, QueueOf, OnFiber, Submitting, taskVars
<1>4. CASE StealLock(w)
  BY <1>1, <1>a, <1>4, LocksMoved DEF StealLock, QueueOf, Victim
<1>5. CASE DequeueOwn(w) \/ DequeueEmpty(w) \/ YieldInsert(w) \/ RetryInsert(w)
  <2>1. /\ pc[w] \in {"dequeue", "yield_insert", "retry_insert"}
        /\ \E to \in ProgramPoints \ AtWork : pc' = [pc EXCEPT ![w] = to]
        /\ UnlockQueue(w)
    BY <1>5, SchedyAssumption
    DEF DequeueOwn, DequeueEmpty, YieldInsert, RetryInsert, Dequeued, Retry, Fail,
        ProgramPoints, OwnsCur
  <2>2. \A v \in Workers \ {w} : cur'[v] = cur[v] /\ idx'[v] = idx[v]
    BY <1>1, <1>5
    DEF DequeueOwn, DequeueEmpty, YieldInsert, RetryInsert, Dequeued, Retry
  <2>. QED  BY <1>1, <2>1, <2>2, LocksMoved DEF QueueOf
<1>6. CASE SubmitInsert(w)
  BY <1>1, <1>6, LocksMoved DEF SubmitInsert, QueueOf
<1>7. CASE StealTask(w) \/ StealEmpty(w)
  BY <1>1, <1>7, LocksMoved DEF StealTask, StealEmpty, Dequeued, NextVictim, QueueOf
<1>8. CASE StealPass(w) \/ StealEnd(w)
  BY <1>1, <1>8, LocksMoved
  DEF StealPass, StealEnd, NextVictim, NothingDequeued, mlfqVars
<1>. QED  BY <1>2, <1>3, <1>4, <1>5, <1>6, <1>7, <1>8 DEF Runqueue

LEMMA PolicyWorkerIsLocal ==
  ASSUME PolicyInv, NEW w \in Workers, PolicyWorker(w)
  PROVE  /\ pc[w] \notin AtWork /\ pc'[w] \notin AtWork
         /\ \A v \in Workers \ {w} :
              pc'[v] = pc[v] /\ cur'[v] = cur[v] /\ idx'[v] = idx[v]
<1>. USE DEF PolicyInv, StateInv, LockInv, CoreTypeOK, LocalsInv, Step, AtWork,
             OnFiber, Submitting
<1>1. CASE SwitchTo(w) \/ Unlock(w) \/ ReleaseFinished(w) \/ ReleaseYielded(w)
  BY <1>1
  DEF SwitchTo, Unlock, ReleaseFinished, OnFinish, ReleaseYielded, CallPolicy,
      restVars
<1>2. CASE TaskYield(w) \/ TaskExit(w)
  BY <1>2 DEF TaskYield, TaskExit, SwitchToScheduler
<1>3. CASE TaskSubmit(w) \/ SubmitSkip(w) \/ SubmitRetry(w) \/ Submitted(w)
  BY <1>3 DEF TaskSubmit, SubmitSkip, SubmitRetry, Fail, Submitted
<1>4. CASE SubmitTryLock(w)
  BY <1>4 DEF SubmitTryLock
<1>5. CASE SubmitFill(w)
  BY <1>5 DEF SubmitFill, CallPolicy
<1>6. CASE TryLockTask(w) \/ CheckTask(w)
  BY <1>6 DEF TryLockTask, CheckTask
<1>. QED  BY <1>1, <1>2, <1>3, <1>4, <1>5, <1>6 DEF PolicyWorker, CoreWorker

LEMMA NextExcludes ==
  Kept /\ TicksOK /\ QueueExclusion /\ [Next]_vars => QueueExclusion'
<1>. SUFFICES ASSUME Kept, TicksOK, QueueExclusion, [Next]_vars
              PROVE  QueueExclusion'
  OBVIOUS
<1>0. PolicyInv /\ PolicyInv' /\ rq_lock \in [Workers -> Workers \cup {NULL}]
  BY NextInv DEF Kept, TicksOK
<1>1. ASSUME NEW w \in Workers, PolicyWorker(w), UNCHANGED mlfqVars
      PROVE  QueueExclusion'
  <2>1. /\ pc[w] \notin AtWork /\ pc'[w] \notin AtWork
        /\ \A v \in Workers \ {w} :
             pc'[v] = pc[v] /\ cur'[v] = cur[v] /\ idx'[v] = idx[v]
    BY <1>0, <1>1, PolicyWorkerIsLocal
  <2>. QED  BY <1>0, <1>1, <2>1, LocksMoved DEF mlfqVars
<1>2. ASSUME NEW w \in Workers, StartWorker(w), UNCHANGED mlfqVars
      PROVE  QueueExclusion'
  <2>1. \A v \in Workers \ {w} :
          pc'[v] = pc[v] /\ cur'[v] = cur[v] /\ idx'[v] = idx[v]
    BY <1>0, <1>2 DEF StartWorker, Step, PolicyInv, StateInv, LockInv, CoreTypeOK
  <2>2. pc[w] \notin AtWork /\ pc'[w] \notin AtWork
    BY <1>0, <1>2
    DEF AtWork, StartWorker, Step, PolicyInv, StateInv, LockInv, CoreTypeOK
  <2>. QED  BY <1>0, <1>2, <2>1, <2>2, LocksMoved DEF mlfqVars
<1>3. CASE UNCHANGED <<pc, cur, idx, worker, rq_lock>>
  BY <1>3 DEF QueueExclusion, QueueOf, Victim
<1>4. ASSUME NEW t \in Tasks, MLFQSubmit(t) PROVE QueueExclusion'
  BY <1>3, <1>4 DEF MLFQSubmit, MainSubmit, workerVars
<1>5. CASE MLFQReinit
  BY <1>5 DEF MLFQReinit, Reinit, QueueExclusion, AtWork
<1>6. CASE CoreMain /\ UNCHANGED mlfqVars
  BY <1>2, <1>3, <1>6
  DEF CoreMain, MainAbort, Wait, Destroy, taskVars, slotVars, workerVars, mlfqVars
<1>7. CASE UNCHANGED vars
  BY <1>3, <1>7
  DEF vars, coreVars, taskVars, slotVars, workerVars, mlfqVars
<1>. QED  BY <1>0, <1>1, <1>4, <1>5, <1>6, <1>7, RunqueueExcludes
     DEF Next, Main, Worker

-----------------------------------------------------------------------------
(* What the invariant means.                                               *)

(* Types, and a task's ticks stay below the quantum of its level.          *)
THEOREM MLFQTypes == Spec => []TypeOK
<1>1. Kept /\ TicksOK => TypeOK
  BY DEF Kept, TicksOK, TypeOK, PolicyInv, StateInv, LockInv, QueueInv
<1>. QED  BY <1>1, MLFQInductive, PTL

(* A task that requeue puts back has the level of the queue it goes to,    *)
(* although requeue does not hold the task's lock.                         *)
THEOREM MLFQLevels == Spec => []LevelMatchesQueue
BY MLFQInductive, PTL DEF Kept, QueueInv

(* Locks exclude whatever the order of steals and retries: those of the    *)
(* tasks, and those of the run queues, which no way out leaves taken.      *)
THEOREM MLFQExclusion == Spec => []EveryLockExcludes
<1>1. Kept /\ TicksOK /\ QueueExclusion /\ [Next]_vars => QueueExclusion'
  BY NextExcludes
<1>2. Init => QueueExclusion
  BY DEF Init, CoreInit, QueueExclusion, AtWork
<1>3. Kept => MutualExclusion
  BY DEF Kept, PolicyInv, StateInv, LockInv
<1>. QED  BY <1>1, <1>2, <1>3, MLFQInductive, PTL DEF Spec, EveryLockExcludes

(* A worker switches only into contexts that can be resumed, although      *)
(* other workers steal tasks before their locks are free.                  *)
THEOREM MLFQSwitchTargetsReady == Spec => []SwitchTargetReady
BY StateMeansReady, MLFQInductive, PTL DEF Kept, PolicyInv

(* A fiber is on one worker at most, the one task->worker names: on_submit *)
(* finds the queue of its own worker by it.                                *)
THEOREM MLFQWorkerPointers == Spec => []WorkerPointer
BY StateMeansPointers, MLFQInductive, PTL DEF Kept, PolicyInv

(* The requeue of a dequeued task that is locked but not runnable is never *)
(* reached: whoever finds a task in a queue finds it waiting for its turn. *)
THEOREM MLFQDequeuedIsRunnable == Spec => []DequeuedIsRunnable
<1>1. Kept => DequeuedIsRunnable
  BY CheckedIsReady, PlacesMeanPlaced DEF Kept, DequeuedIsRunnable
<1>. QED  BY <1>1, MLFQInductive, PTL

LEMMA RunqueueConserves ==
  ASSUME StateInv, Conservation, NEW w \in Workers, Runqueue(w)
  PROVE  Conservation'
<1>1. UNCHANGED <<taskVars, restVars>>
  BY DEF Runqueue, DequeueLock, DequeueOwn, DequeueEmpty, StealPass, StealLock, StealTask,
     StealEmpty, StealEnd, OnSubmit, SubmitInsert, OnYield, YieldInsert, Requeue,
     RetryInsert, NextVictim, NothingDequeued, Inside,
     Dequeued, Retry
<1>2. \E from \in ProgramPoints \ {"submit", "fill", "abort"},
        to \in ProgramPoints \ {"submit", "fill", "abort"} : Step(w, from, to)
  BY DEF Runqueue, DequeueLock, DequeueOwn, DequeueEmpty, StealPass, StealLock, StealTask,
     StealEmpty, StealEnd, OnSubmit, SubmitInsert, OnYield, YieldInsert, Requeue,
     RetryInsert, NextVictim, NothingDequeued, Inside,
     Dequeued, Retry, Fail, Step, ProgramPoints, OwnsCur, OnFiber, Submitting
<1>. QED  BY <1>1, <1>2, QueueStepConserves

LEMMA NextConserves == Kept /\ Conservation /\ [Next]_vars => Conservation'
<1>. SUFFICES ASSUME Kept, Conservation, [Next]_vars PROVE Conservation'
  OBVIOUS
<1>. USE DEF Kept, PolicyInv
<1>1. ASSUME NEW w \in Workers, Runqueue(w) PROVE Conservation'
  BY <1>1, RunqueueConserves
<1>2. ASSUME NEW w \in Workers, PolicyWorker(w) PROVE Conservation'
  BY <1>2, PolicyWorkerConserves
<1>3. CASE Main /\ ~Aborted
  BY <1>3, MainConserves DEF Main, MainStep, Aborted, MLFQSubmit, MLFQReinit
<1>4. CASE UNCHANGED vars
  BY <1>4, QuietConserves DEF vars, coreVars, taskVars, slotVars, workerVars, mainVars
<1>. QED  BY <1>1, <1>2, <1>3, <1>4 DEF Next, Worker

(* No submission is lost from the count, whatever the order of steals,     *)
(* retries and workers that leave: tasks that tasks_wait leaves behind are *)
(* still live.                                                             *)
THEOREM MLFQSubmissionsConserved == Spec => []Conservation
<1>1. Init => Conservation
  BY InitConserves DEF Init
<1>. QED  BY <1>1, MLFQInductive, NextConserves, PTL DEF Spec

-----------------------------------------------------------------------------
(* One place.                                                              *)

(* A queue holds no task twice, so it is no longer than there are slots.   *)
LEMMA QueuesAreShort ==
  ASSUME QueueInv, NEW q \in Workers, NEW l \in Levels
  PROVE  Len(queues[q][l]) <= LIMIT
<1>. DEFINE s == queues[q][l]
<1>1. s \in Seq(Tasks) /\ Len(s) \in Nat
  BY DEF QueueInv
<1>2. s \in [1 .. Len(s) -> Tasks]
  BY <1>1
<1>3. IsFiniteSet(1 .. Len(s)) /\ Cardinality(1 .. Len(s)) = Len(s)
  BY <1>1, FS_Interval
<1>4. IsFiniteSet(Tasks) /\ Cardinality(Tasks) = LIMIT
  BY FS_Interval, SchedyAssumption DEF Tasks
<1>5. \A i, j \in 1 .. Len(s) : i # j => s[i] # s[j]
  BY DEF QueueInv, NoTwice
<1>6. ~(Cardinality(Tasks) < Cardinality(1 .. Len(s)))
  BY <1>2, <1>3, <1>4, <1>5, FS_PigeonHole
<1>. QED  BY <1>1, <1>3, <1>4, <1>6, SchedyAssumption

LEMMA QueuedOnce ==
  ASSUME QueueInv, NEW t \in Tasks
  PROVE  Queued(t) = IF InQueue(t) THEN 1 ELSE 0
<1>. DEFINE All == Workers \X Levels \X (1 .. LIMIT)
            Here(p) == p[3] <= Len(queues[p[1]][p[2]]) /\ queues[p[1]][p[2]][p[3]] = t
            S == {p \in All : Here(p)}
<1>1. Queued(t) = Cardinality(S)
  BY DEF Queued
<1>2. CASE ~InQueue(t)
  <2>1. S = {}
    BY <1>2 DEF InQueue
  <2>. QED  BY <1>1, <1>2, <2>1, FS_EmptySet
<1>3. CASE InQueue(t)
  <2>1. PICK q \in Workers, l \in Levels : \E i \in 1 .. Len(queues[q][l]) : queues[q][l][i] = t
    BY <1>3 DEF InQueue
  <2>2. PICK i \in 1 .. Len(queues[q][l]) : queues[q][l][i] = t
    BY <2>1
  <2>3. Len(queues[q][l]) \in Nat
    BY DEF QueueInv
  <2>4. i \in 1 .. LIMIT
    BY <2>3, QueuesAreShort, SchedyAssumption
  <2>5. <<q, l, i>> \in S
    BY <2>2, <2>3, <2>4
  <2>6. ASSUME NEW p \in S PROVE p = <<q, l, i>>
    <3>1. PICK r \in Workers, m \in Levels, j \in 1 .. LIMIT : p = <<r, m, j>>
      BY <2>6
    <3>2. j <= Len(queues[r][m]) /\ queues[r][m][j] = t
      BY <2>6, <3>1
    <3>3. j \in 1 .. Len(queues[r][m])
      BY <3>2 DEF QueueInv
    <3>4. \A x \in 1 .. Len(queues[q][l]), y \in 1 .. Len(queues[r][m]) :
            queues[q][l][x] = queues[r][m][y] => q = r /\ l = m /\ x = y
      BY DEF QueueInv, NoTwice
    <3>5. q = r /\ l = m /\ i = j
      BY <2>2, <3>2, <3>3, <3>4
    <3>. QED  BY <3>1, <3>5
  <2>7. S = {<<q, l, i>>}
    BY <2>5, <2>6
  <2>. QED  BY <1>1, <1>3, <2>7, FS_Singleton
<1>. QED  BY <1>2, <1>3

LEMMA KeptMeansOnePlace == Kept => OnePlace
<1>. SUFFICES ASSUME Kept, NEW t \in Tasks PROVE PlacedOnce(t, Queued(t))
  BY DEF OnePlace
<1>1. Queued(t) = IF InQueue(t) THEN 1 ELSE 0
  BY QueuedOnce DEF Kept
<1>2. IF InQueue(t) THEN AtRest(t) ELSE InOneHand(t)
  BY DEF Kept, Places
<1>3. CASE Keepers(t) = {}
  <2>1. Cardinality(Keepers(t)) = 0
    BY <1>3, FS_EmptySet
  <2>. QED  BY <1>1, <1>2, <1>3, <2>1 DEF PlacedOnce, AtRest, InOneHand
<1>4. CASE Keepers(t) # {}
  <2>1. ~InQueue(t) /\ InOneHand(t)
    BY <1>2, <1>4 DEF AtRest
  <2>2. PICK w : Keepers(t) = {w}
    BY <1>4, <2>1 DEF InOneHand
  <2>3. Cardinality(Keepers(t)) = 1
    BY <2>2, FS_Singleton
  <2>. QED  BY <1>1, <1>4, <2>1, <2>3 DEF PlacedOnce, InOneHand
<1>. QED  BY <1>3, <1>4

(* No task is lost or doubled, whatever the order of yields, steals,       *)
(* failed try_locks and requeues: it is in one position of one queue or    *)
(* with one worker.                                                        *)
THEOREM MLFQOnePlace == Spec => []OnePlace
BY KeptMeansOnePlace, MLFQInductive, PTL

(* A task that tasks_wait leaves behind is in one queue, runnable and free *)
(* of locks: no task ends half way between a queue and a worker.           *)
THEOREM MLFQLostAreQueued == Spec => [](\A t \in Tasks : LeftInOrder(t, Queued(t)))
<1>1. ASSUME Kept, NEW t \in Tasks PROVE Queued(t) \in Nat
  BY <1>1, QueuedOnce DEF Kept
<1>2. Kept /\ OnePlace => \A t \in Tasks : LeftInOrder(t, Queued(t))
  BY <1>1, WaitedLeavesInOrder DEF Kept, OnePlace
<1>. QED  BY <1>2, MLFQOnePlace, MLFQInductive, PTL

-----------------------------------------------------------------------------
(* The run queues implement a pool whose wait may end too early.           *)

LEMMA RunqueueRefines ==
  ASSUME NEW w \in Workers, Runqueue(w) PROVE UNCHANGED Pool!poolVars
<1>1. state' = state /\ lock' = lock /\ mpc' = mpc
  BY DEF Runqueue, DequeueLock, DequeueOwn, DequeueEmpty, StealPass, StealLock,
     StealTask, StealEmpty, StealEnd, OnSubmit, SubmitInsert, OnYield,
     YieldInsert, Requeue, RetryInsert, NextVictim, NothingDequeued, Inside,
     Dequeued, Retry, taskVars, slotVars, restVars, mainVars
<1>. QED  BY <1>1, QuietRefines

LEMMA StepRefinesLossy ==
  Kept /\ [Next]_vars =>
    [Pool!Operate \/ Pool!CloseEarly \/ Pool!Forget]_(Pool!poolVars)
<1>. SUFFICES ASSUME Kept, [Next]_vars
              PROVE  [Pool!Operate \/ Pool!CloseEarly \/ Pool!Forget]_(Pool!poolVars)
  OBVIOUS
<1>. USE DEF Kept
<1>1. ASSUME NEW w \in Workers, Worker(w)
      PROVE  Pool!Operate \/ UNCHANGED Pool!poolVars
  BY <1>1, RunqueueRefines, PolicyWorkerRefines, PlacesMeanPlaced DEF Worker
<1>2. CASE CoreMain
  BY <1>2, WaitRefines, QuietMainRefines
<1>3. ASSUME NEW t \in Tasks, MLFQSubmit(t) PROVE Pool!Operate
  BY <1>3, MainRefines DEF MLFQSubmit, PolicyInv
<1>4. CASE MLFQReinit
  BY <1>4, ReinitRefines DEF MLFQReinit
<1>5. CASE UNCHANGED vars
  BY <1>5, IdleRefines DEF vars
<1>. QED  BY <1>1, <1>2, <1>3, <1>4, <1>5 DEF Next, Main

(* What a caller sees under this policy: a task pool, except that its wait *)
(* may end while tasks are left.                                           *)
THEOREM MLFQRefinesLossyPool == Spec => ImplementsLossyPool
<1>1. Init => Pool!Init
  BY InitRefines DEF Init
<1>. QED  BY <1>1, StepRefinesLossy, MLFQInductive, PTL
     DEF Spec, ImplementsLossyPool, Pool!LossySpec

-----------------------------------------------------------------------------
(* Only retries lose tasks.                                                *)

Diligent == \A w \in Workers : FoundNone(w) => NonEmpty(w) = {}

LEMMA SearchDiligent ==
  ASSUME Kept, Diligent, NEW w \in Workers,
         DequeueLock(w) \/ DequeueEmpty(w) \/ StealPass(w) \/ StealLock(w)
           \/ StealEmpty(w) \/ StealEnd(w)
  PROVE  Diligent'
<1>. USE DEF Diligent, Kept, PolicyInv, StateInv, LockInv, CoreTypeOK
<1>1. /\ UNCHANGED <<queues, attempt>>
      /\ \A v \in Workers \ {w} : pc'[v] = pc[v]
      /\ FoundNone(w)' => FoundNone(w) \/ NonEmpty(w) = {}
  BY DEF DequeueLock, DequeueEmpty, StealPass, StealLock, StealEmpty, StealEnd,
     NextVictim, NothingDequeued, Inside, Step, FoundNone, mlfqVars
<1>. QED  BY <1>1 DEF FoundNone, NonEmpty

LEMMA TakingDiligent ==
  ASSUME Kept, Diligent, NEW w \in Workers, NEW from, NEW t,
         Dequeued(w, from, t), NEW q \in Workers, NEW l \in NonEmpty(q), NEW s,
         queues' = [queues EXCEPT ![q][l] = s]
  PROVE  Diligent'
<1>1. /\ pc'[w] = "try_lock"
      /\ \A v \in Workers \ {w} : pc'[v] = pc[v] /\ attempt'[v] = attempt[v]
  BY DEF Dequeued, Step, Kept, PolicyInv, StateInv, LockInv, CoreTypeOK
<1>2. \A v \in Workers : NonEmpty(v)' \subseteq NonEmpty(v)
  BY DEF NonEmpty, Kept, QueueInv
<1>. QED  BY <1>1, <1>2 DEF Diligent, FoundNone

LEMMA InsertDiligent ==
  ASSUME Kept, Diligent, NEW w \in Workers, NEW t, InsertTail(w, t),
         \A v \in Workers : FoundNone(v)' => FoundNone(v) /\ v # w
  PROVE  Diligent'
BY DEF Diligent, InsertTail, NonEmpty, Kept, QueueInv

LEMMA RunqueueDiligent ==
  ASSUME Kept, Diligent, NEW w \in Workers, Runqueue(w)
  PROVE  Diligent'
<1>. USE DEF Kept, PolicyInv, StateInv, LockInv, CoreTypeOK
<1>1. CASE DequeueOwn(w)
  <2>. DEFINE l == CHOOSE l \in NonEmpty(w) : \A k \in NonEmpty(w) : l <= k
  <2>1. l \in NonEmpty(w)
    BY <1>1, LevelsAreFew DEF DequeueOwn, NonEmpty
  <2>2. /\ Dequeued(w, "dequeue", Head(queues[w][l]))
        /\ queues' = [queues EXCEPT ![w][l] = Tail(@)]
    BY <1>1 DEF DequeueOwn
  <2>. HIDE DEF l
  <2>3. queues' = [queues EXCEPT ![w][l] = Tail(queues[w][l])]
    BY <2>1, <2>2 DEF QueueInv, NonEmpty
  <2>. QED  BY <2>1, <2>2, <2>3, TakingDiligent
<1>2. CASE StealTask(w)
  <2>. DEFINE q == Victim(w)
              l == CHOOSE l \in NonEmpty(q) : \A k \in NonEmpty(q) : l >= k
  <2>0. q \in Workers
    BY VictimIsWorker DEF Kept
  <2>1. l \in NonEmpty(q)
    BY <1>2, LevelsAreFew DEF StealTask, NonEmpty
  <2>2. /\ Dequeued(w, "steal_pop", Last(queues[q][l]))
        /\ queues' = [queues EXCEPT ![q][l] = Front(@)]
    BY <1>2 DEF StealTask, TakeLast
  <2>. HIDE DEF l, q
  <2>3. queues' = [queues EXCEPT ![q][l] = Front(queues[q][l])]
    BY <2>0, <2>1, <2>2 DEF QueueInv, NonEmpty
  <2>. QED  BY <2>0, <2>1, <2>2, <2>3, TakingDiligent
<1>3. CASE OnSubmit(w) \/ OnYield(w) \/ Requeue(w)
  BY <1>3
  DEF OnSubmit, OnYield, Requeue, Inside, Step, Diligent, FoundNone, NonEmpty
<1>4. CASE SubmitInsert(w)
  <2>1. worker[cur[w]] = w
    BY <1>4 DEF SubmitInsert, Inside, Step, LocalsInv, OnFiber, Submitting
  <2>2. \A v \in Workers : FoundNone(v)' => FoundNone(v) /\ v # w
    BY <1>4 DEF SubmitInsert, Inside, Step, FoundNone
  <2>. QED  BY <1>4, <2>1, <2>2, InsertDiligent DEF SubmitInsert
<1>5. CASE YieldInsert(w)
  <2>1. \A v \in Workers : FoundNone(v)' => FoundNone(v) /\ v # w
    BY <1>5 DEF YieldInsert, Inside, Step, FoundNone
  <2>. QED  BY <1>5, <2>1, InsertDiligent DEF YieldInsert
<1>6. CASE RetryInsert(w)
  BY <1>6, RetryIsCounted, InsertDiligent DEF RetryInsert
<1>. QED  BY <1>1, <1>2, <1>3, <1>4, <1>5, <1>6, SearchDiligent DEF Runqueue

LEMMA NextDiligent ==
  ASSUME Kept, Diligent, [Next]_vars
  PROVE  Diligent'
<1>1. ASSUME NEW w \in Workers, PolicyWorker(w), UNCHANGED mlfqVars
      PROVE  Diligent'
  BY <1>1, PolicyWorkerFindsSome, PlacesMeanPlaced
  DEF Diligent, NonEmpty, Kept, mlfqVars
<1>2. CASE Main
  <2>1. CASE CoreMain /\ UNCHANGED mlfqVars
    BY <2>1, MainFindsSome, SchedyAssumption
    DEF Diligent, NonEmpty, Kept, mlfqVars, Tasks
  <2>2. ASSUME NEW t \in Tasks, MLFQSubmit(t) PROVE Diligent'
    <3>1. \A w \in Workers : pc[w] = "unborn"
      BY <2>2 DEF MLFQSubmit, MainSubmit, Kept, PolicyInv, StateInv, MainInv
    <3>. QED  BY <2>2, <3>1, MainFindsSome DEF MLFQSubmit, Diligent, Kept
  <2>3. CASE MLFQReinit
    BY <2>3 DEF MLFQReinit, Diligent, NonEmpty
  <2>. QED  BY <1>2, <2>1, <2>2, <2>3 DEF Main
<1>3. CASE UNCHANGED vars
  BY <1>3
  DEF vars, coreVars, workerVars, mlfqVars, Diligent, FoundNone, NonEmpty
<1>. QED  BY <1>1, <1>2, <1>3, RunqueueDiligent DEF Next, Worker

LEMMA DiligentInductive == Spec => [](Kept /\ Diligent)
<1>1. Init => Diligent
  BY DEF Init, Diligent, NonEmpty
<1>2. Kept /\ Diligent /\ [Next]_vars => Diligent'
  BY NextDiligent
<1>. QED  BY <1>1, <1>2, MLFQInductive, PTL DEF Spec

(* After the wait, a task that is not done is in the queues of a worker    *)
(* that used up its attempts.                                              *)
LEMMA DiligentMeansRetried == Kept /\ Diligent => OnlyRetriesLose
<1>. SUFFICES ASSUME Kept, Diligent, NEW t \in Tasks,
                     mpc \in {"joined", "destroyed"}, state[t] # "ZOMBIE"
              PROVE  \E w \in Workers : QueuedAt(t, w) /\ attempt[w] >= ATTEMPTS
  BY DEF OnlyRetriesLose, LostToRetries, PoolWaited
<1>1. PICK w \in Workers : QueuedAt(t, w)
  BY WaitedKeepsNone DEF Kept, Places, InQueue, QueuedAt
<1>2. pc[w] = "exited" /\ attempt[w] \in Nat
  BY DEF Kept, PolicyInv, StateInv, MainInv, LockInv, CoreTypeOK
<1>3. NonEmpty(w) # {}
  BY <1>1 DEF QueuedAt, NonEmpty, Kept, QueueInv
<1>. QED  BY <1>1, <1>2, <1>3, SchedyAssumption DEF Diligent, FoundNone

(* Whatever the number of workers and the order of their steals: a task    *)
(* that tasks_wait leaves behind is in a queue of a worker that gave up    *)
(* after its last attempt (schedy.c:246), not of one that found no task.   *)
THEOREM MLFQOnlyRetriesLose == Spec => []OnlyRetriesLose
BY DiligentInductive, DiligentMeansRetried, PTL

(* As long as no worker uses up its attempts, the queues keep every        *)
(* promise of TaskPool, tasks_wait included, for any number of workers     *)
(* that steal from each other.                                             *)
THEOREM MLFQRefinesTaskPoolWithinAttempts ==
  Spec /\ [](\A w \in Workers : attempt[w] < ATTEMPTS) => Pool!Spec
<1>. DEFINE Spared == \A w \in Workers : attempt[w] < ATTEMPTS
<1>1. Init => Pool!Init
  BY InitRefines DEF Init
<1>2. Kept /\ Diligent /\ Spared => WaitMeansDone
  <2>. SUFFICES ASSUME Kept, OnlyRetriesLose, Spared PROVE WaitMeansDone
    BY DiligentMeansRetried
  <2>1. \A w \in Workers : ~(attempt[w] >= ATTEMPTS)
    BY SchedyAssumption DEF Kept, PolicyInv, StateInv, LockInv, CoreTypeOK
  <2>. QED  BY <2>1 DEF OnlyRetriesLose, LostToRetries, WaitMeansDone, PoolWaited
<1>3. ASSUME Kept, WaitMeansDone, WaitMeansDone', [Next]_vars
      PROVE  [Pool!Next]_(Pool!poolVars)
  <2>. USE <1>3 DEF Kept
  <2>1. ASSUME NEW w \in Workers, Worker(w) PROVE [Pool!Next]_(Pool!poolVars)
    BY <2>1, RunqueueRefines, PolicyWorkerRefines, PlacesMeanPlaced
    DEF Worker, Pool!Next
  <2>2. CASE Wait
    BY <2>2, DoneWaitRefines DEF Wait, WaitMeansDone, taskVars, slotVars, Pool!Next
  <2>3. CASE CoreMain /\ ~Wait
    BY <2>3, QuietMainRefines
  <2>4. ASSUME NEW t \in Tasks, MLFQSubmit(t) PROVE [Pool!Next]_(Pool!poolVars)
    BY <2>4, MainRefines DEF MLFQSubmit, PolicyInv, Pool!Next
  <2>5. CASE MLFQReinit
    BY <2>5, DoneReinitRefines DEF MLFQReinit, Reinit, WaitMeansDone, Pool!Next
  <2>6. CASE UNCHANGED vars
    BY <2>6, IdleRefines DEF vars
  <2>. QED  BY <2>1, <2>2, <2>3, <2>4, <2>5, <2>6 DEF Next, Main
<1>. QED  BY <1>1, <1>2, <1>3, DiligentInductive, PTL DEF Spec, Pool!Spec

=============================================================================
