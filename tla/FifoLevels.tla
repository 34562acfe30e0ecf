----------------------------- MODULE FifoLevels -----------------------------
(***************************************************************************)
(* What SchedMLFQ takes one run queue of sched_mlfq.c for: a sequence of   *)
(* tasks per level, on which the threads operate one at a time. A thread   *)
(* has at most one task in hand.                                           *)
(***************************************************************************)
EXTENDS Integers, Sequences

CONSTANTS THREADS, LIST_TASKS, LIST_LEVELS, NULL

VARIABLES lists, hand

fifoVars == <<lists, hand>>

FifoInit ==
  /\ lists = [l \in LIST_LEVELS |-> <<>>]
  /\ hand = [p \in THREADS |-> NULL]

Filled == {l \in LIST_LEVELS : lists[l] # <<>>}
Listed(t) == \E l \in LIST_LEVELS : \E i \in DOMAIN lists[l] : lists[l][i] = t

(* A thread gets a task from elsewhere, or hands it on.                    *)
Gain(p, t) ==
  /\ hand[p] = NULL
  /\ ~Listed(t) /\ \A r \in THREADS : hand[r] # t
  /\ hand' = [hand EXCEPT ![p] = t]
  /\ UNCHANGED lists

Lose(p) ==
  /\ hand' = [hand EXCEPT ![p] = NULL]
  /\ UNCHANGED lists

PutLast(p, l) ==
  /\ hand[p] # NULL
  /\ lists' = [lists EXCEPT ![l] = Append(@, hand[p])]
  /\ hand' = [hand EXCEPT ![p] = NULL]

TakeFirst(p, l) ==
  /\ hand[p] = NULL
  /\ l \in Filled /\ \A k \in Filled : l <= k
  /\ hand' = [hand EXCEPT ![p] = Head(lists[l])]
  /\ lists' = [lists EXCEPT ![l] = Tail(@)]

TakeEnd(p, l) ==
  LET s == lists[l] IN
  /\ hand[p] = NULL
  /\ l \in Filled /\ \A k \in Filled : l >= k
  /\ hand' = [hand EXCEPT ![p] = s[Len(s)]]
  /\ lists' = [lists EXCEPT ![l] = SubSeq(s, 1, Len(s) - 1)]

FifoNext ==
  \E p \in THREADS :
    \/ Lose(p)
    \/ \E t \in LIST_TASKS : Gain(p, t)
    \/ \E l \in LIST_LEVELS : PutLast(p, l) \/ TakeFirst(p, l) \/ TakeEnd(p, l)

FifoSpec == FifoInit /\ [][FifoNext]_fifoVars

=============================================================================
