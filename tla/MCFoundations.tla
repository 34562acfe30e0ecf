--------------------------- MODULE MCFoundations ----------------------------
(***************************************************************************)
(* Model checking of the parts that the schedulers are built on: the tree, *)
(* the lists and their spinlock, the contexts, the statistics. They share  *)
(* no state here; a behaviour exercises one of them, its subject, and      *)
(* leaves the others in their initial states.                              *)
(***************************************************************************)
EXTENDS CfsTree, TailQueue, Uthread, Statistics

VARIABLE subject

FoundationsInit ==
  /\ subject \in {"tree", "lists", "contexts", "statistics"}
  /\ TreeInit /\ ListInit /\ UthreadInit /\ StatsInit

FoundationsNext ==
  /\ UNCHANGED subject
  /\ \/ /\ subject = "tree" /\ TreeNext
        /\ UNCHANGED <<listVars, uthreadVars, statsVars>>
     \/ /\ subject = "lists" /\ ListNext
        /\ UNCHANGED <<treeVars, uthreadVars, statsVars>>
     \/ /\ subject = "contexts" /\ UthreadNext
        /\ UNCHANGED <<treeVars, listVars, statsVars>>
     \/ /\ subject = "statistics" /\ StatsNext
        /\ UNCHANGED <<treeVars, listVars, uthreadVars>>

foundationsVars == <<subject, treeVars, listVars, uthreadVars, statsVars>>

(* The fairness of TailQueue, on the behaviours it is the subject of.      *)
FoundationsSpec ==
  /\ FoundationsInit /\ [][FoundationsNext]_foundationsVars
  /\ subject = "lists" => ListFairness

=============================================================================
