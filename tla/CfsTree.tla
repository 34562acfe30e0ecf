------------------------------ MODULE CfsTree -------------------------------
(***************************************************************************)
(* The red-black tree of tree.h that RB_GENERATE_STATIC of sched_cfs.c     *)
(* instantiates for tasks: the run queue SchedCFS takes for an ordered     *)
(* set. A tree is its root and, for every task, the fields of cfs_entry;   *)
(* the code for the left and for the right side, which the macros spell    *)
(* out twice, is one definition with the side s as a parameter.            *)
(*                                                                         *)
(* A call (RB_INSERT, RB_REMOVE, RB_MIN, RB_MAX, RB_FIND, RB_NFIND,        *)
(* RB_NEXT, RB_PREV) takes one step for every turn of a loop of its        *)
(* macros; `stage` says which loop it is in. One call runs at a time: the  *)
(* callers hold the lock of the run queue.                                 *)
(*                                                                         *)
(* sched_cfs.c itself only inserts, asks for the minimum and removes it;   *)
(* the searches and the removal of an inner task are in the model because  *)
(* the macro generates them beside the others, from the same fields.       *)
(***************************************************************************)
EXTENDS Integers, FiniteSets, Null

CONSTANTS
  TREE_TASKS,    \* the tasks, numbered in the order of their addresses
  VRUNTIMES      \* the values of vruntime

(* NULL is the address and the key of no task.                             *)
ASSUME TreeAssumption ==
  /\ TREE_TASKS \subseteq Int /\ IsFiniteSet(TREE_TASKS)
  /\ VRUNTIMES \subseteq Int
  /\ NULL \notin TREE_TASKS \cup VRUNTIMES

VARIABLES
  tree,
  vruntime,      \* of the tasks in the tree; NULL for those outside
  stage,         \* the loop the call is in, "idle" between two calls
  given,         \* the task to insert, to remove, to find or to go on from
  node,          \* tmp where the call descends, elm where it recolours
  above,         \* parent, and res of RB_NFIND
  val            \* the side RB_MINMAX, RB_NEXT and RB_PREV are for; of
                 \* RB_FIND and RB_NFIND the vruntime of the task to find

treeVars == <<tree, vruntime, stage, given, node, above, val>>

Sides == {"left", "right"}
Opposite(s) == IF s = "left" THEN "right" ELSE "left"

NoTask == [t \in TREE_TASKS |-> NULL]

(* The links of a task outside the tree are dead until RB_SET writes them. *)
Unlinked(tr, t) ==
  [tr EXCEPT !.kid["left"][t] = NULL, !.kid["right"][t] = NULL,
             !.parent[t] = NULL, !.red = @ \ {t}]

(* Seeded fault: tasks of equal vruntime are not told apart.               *)
CmpByVruntime(vr, t, u) ==
  IF vr[t] < vr[u] THEN -1 ELSE IF vr[t] > vr[u] THEN 1 ELSE 0

cfs_task_cmp(vr, t, u) ==
  IF vr[t] < vr[u] \/ (vr[t] = vr[u] /\ t < u) THEN -1
  ELSE IF t = u THEN 0 ELSE 1

(* cfs_task_cmp says where a task belongs in the tree: left of u or right. *)
SideFrom(vr, t, u) == IF cfs_task_cmp(vr, t, u) < 0 THEN "left" ELSE "right"

OnSide(vr, s, t, u) ==
  IF s = "left" THEN cfs_task_cmp(vr, t, u) < 0 ELSE cfs_task_cmp(vr, u, t) < 0

-----------------------------------------------------------------------------
(* The changes of links and colours                                        *)

(* Seeded fault: the root stays when its task goes.                        *)
ReplaceRootNever(tr, p, old, new) ==
  IF p = NULL THEN tr
  ELSE IF tr.kid["left"][p] = old THEN [tr EXCEPT !.kid["left"][p] = new]
  ELSE [tr EXCEPT !.kid["right"][p] = new]

(* The child `old` of p, or the root when p is NULL, becomes `new`.        *)
Replace(tr, p, old, new) ==
  IF p = NULL THEN [tr EXCEPT !.root = new]
  ELSE IF tr.kid["left"][p] = old THEN [tr EXCEPT !.kid["left"][p] = new]
  ELSE [tr EXCEPT !.kid["right"][p] = new]

SetParent(tr, t, p) ==
  IF t = NULL THEN tr ELSE [tr EXCEPT !.parent[t] = p]

(* Seeded fault: the subtree that changes sides keeps its parent.          *)
RotateKeepingParent(tr, s, t) ==
  LET up == tr.kid[Opposite(s)][t]
      a  == [tr EXCEPT !.kid[Opposite(s)][t] = tr.kid[s][up],
                       !.parent[up] = tr.parent[t]]
  IN  [Replace(a, tr.parent[t], t, up) EXCEPT !.kid[s][up] = t, !.parent[t] = up]

(* RB_ROTATE_LEFT and RB_ROTATE_RIGHT: t goes down to side s and its child *)
(* of the other side comes up.                                             *)
Rotate(tr, s, t) ==
  LET up == tr.kid[Opposite(s)][t]
      a  == [SetParent(tr, tr.kid[s][up], t) EXCEPT
               !.kid[Opposite(s)][t] = tr.kid[s][up],
               !.parent[up] = tr.parent[t]]
  IN  [Replace(a, tr.parent[t], t, up) EXCEPT !.kid[s][up] = t, !.parent[t] = up]

SetBlackRed(tr, black, red) == [tr EXCEPT !.red = (@ \ {black}) \cup {red}]

SideOf(tr, p, t) == IF tr.kid["left"][p] = t THEN "left" ELSE "right"

(* The child of a task that has at most one.                               *)
OnlyChild(tr, t) ==
  IF tr.kid["left"][t] = NULL THEN tr.kid["right"][t] ELSE tr.kid["left"][t]

(* t, which has at most one child, leaves: its child takes its place.      *)
Unlink(tr, t) ==
  Replace(SetParent(tr, OnlyChild(tr, t), tr.parent[t]), tr.parent[t], t,
          OnlyChild(tr, t))

(* Seeded fault: the heir keeps its own colour.                            *)
InheritUncolored(tr, old, heir) ==
  LET a == [tr EXCEPT !.kid["left"][heir] = tr.kid["left"][old],
                      !.kid["right"][heir] = tr.kid["right"][old],
                      !.parent[heir] = tr.parent[old]]
      b == SetParent(SetParent(a, a.kid["left"][heir], heir),
                     a.kid["right"][heir], heir)
  IN  Replace(b, tr.parent[old], old, heir)

(* heir takes the place, the children and the colour of old.               *)
Inherit(tr, old, heir) ==
  LET a == [tr EXCEPT !.kid["left"][heir] = tr.kid["left"][old],
                      !.kid["right"][heir] = tr.kid["right"][old],
                      !.parent[heir] = tr.parent[old],
                      !.red = IF old \in @ THEN @ \cup {heir} ELSE @ \ {heir}]
      b == SetParent(SetParent(a, a.kid["left"][heir], heir),
                     a.kid["right"][heir], heir)
  IN  Replace(b, tr.parent[old], old, heir)

-----------------------------------------------------------------------------

(* RB_INIT                                                                 *)
TreeInit ==
  /\ tree = [root |-> NULL, kid |-> [s \in Sides |-> NoTask], parent |-> NoTask,
             red |-> {}]
  /\ vruntime = NoTask
  /\ stage = "idle" /\ given = NULL /\ node = NULL /\ above = NULL /\ val = NULL

(* The call goes on in a loop, or it returns and its locals are gone.      *)
Goto(where, n, p) ==
  /\ stage' = where /\ node' = n /\ above' = p
  /\ UNCHANGED <<given, val>>

CallReturns ==
  /\ stage' = "idle"
  /\ given' = NULL /\ node' = NULL /\ above' = NULL /\ val' = NULL

-----------------------------------------------------------------------------
(* RB_INSERT                                                               *)

TreeInsert(t, v) ==
  /\ stage = "idle" /\ vruntime[t] = NULL
  /\ vruntime' = [vruntime EXCEPT ![t] = v]
  /\ stage' = "descend" /\ given' = t /\ node' = tree.root /\ above' = NULL
  /\ UNCHANGED <<tree, val>>

(* A task that compares equal is in the tree: it is returned, and nothing  *)
(* changes.                                                                *)
InsertDescend ==
  /\ stage = "descend" /\ node # NULL
  /\ IF cfs_task_cmp(vruntime, given, node) = 0 THEN CallReturns
     ELSE Goto("descend", tree.kid[SideFrom(vruntime, given, node)][node], node)
  /\ UNCHANGED <<tree, vruntime>>

(* t becomes a red leaf under p.                                           *)
Link(tr, p, s, t) ==
  LET a == [Unlinked(tr, t) EXCEPT !.parent[t] = p, !.red = @ \cup {t}]
  IN  IF p = NULL THEN [a EXCEPT !.root = t] ELSE [a EXCEPT !.kid[s][p] = t]

InsertLink ==
  /\ stage = "descend" /\ node = NULL
  /\ tree' = Link(tree, above,
                  IF above = NULL THEN "left" ELSE SideFrom(vruntime, given, above),
                  given)
  /\ Goto("insert_color", given, NULL)
  /\ UNCHANGED vruntime

(* RB_INSERT_COLOR: node is red, and its parent may be.                    *)
InsertDone ==
  /\ stage = "insert_color" /\ tree.parent[node] \notin tree.red
  /\ tree' = [tree EXCEPT !.red = @ \ {tree.root}]
  /\ CallReturns /\ UNCHANGED vruntime

Parent == tree.parent[node]
Grandparent == tree.parent[Parent]
Uncle == tree.kid[Opposite(SideOf(tree, Grandparent, Parent))][Grandparent]

InsertRecolor ==
  /\ stage = "insert_color" /\ Parent \in tree.red /\ Uncle \in tree.red
  /\ tree' = [SetBlackRed(tree, Parent, Grandparent) EXCEPT !.red = @ \ {Uncle}]
  /\ Goto("insert_color", Grandparent, NULL)
  /\ UNCHANGED vruntime

InsertRotate ==
  LET s     == SideOf(tree, Grandparent, Parent)
      inner == tree.kid[Opposite(s)][Parent] = node
      a     == IF inner THEN Rotate(tree, s, Parent) ELSE tree
      top   == IF inner THEN node ELSE Parent
      low   == IF inner THEN Parent ELSE node
  IN
  /\ stage = "insert_color" /\ Parent \in tree.red /\ Uncle \notin tree.red
  /\ tree' = Rotate(SetBlackRed(a, top, Grandparent), Opposite(s), Grandparent)
  /\ Goto("insert_color", low, NULL)
  /\ UNCHANGED vruntime

-----------------------------------------------------------------------------
(* RB_REMOVE                                                               *)

OutOfTree(t) == vruntime' = [vruntime EXCEPT ![t] = NULL]

(* Where a task has gone, its place under p is now that of `child`.        *)
RemoveFrom(wasRed, child, p) ==
  IF wasRed THEN CallReturns ELSE Goto("remove_color", child, p)

(* The policy takes only the minimum out; RB_REMOVE is for any task.       *)
TreeRemove(t) ==
  /\ stage = "idle" /\ vruntime[t] # NULL
  /\ NULL \in {tree.kid["left"][t], tree.kid["right"][t]}
  /\ tree' = Unlinked(Unlink(tree, t), t)
  /\ RemoveFrom(t \in tree.red, OnlyChild(tree, t), tree.parent[t])
  /\ OutOfTree(t)

(* A task with two children is replaced by its successor, whose own place  *)
(* is then the one that lost a task.                                       *)
TreeRemoveInner(t) ==
  /\ stage = "idle" /\ vruntime[t] # NULL
  /\ NULL \notin {tree.kid["left"][t], tree.kid["right"][t]}
  /\ stage' = "successor" /\ given' = t /\ node' = tree.kid["right"][t]
  /\ UNCHANGED <<tree, vruntime, above, val>>

SuccessorDescend ==
  /\ stage = "successor" /\ tree.kid["left"][node] # NULL
  /\ Goto("successor", tree.kid["left"][node], NULL)
  /\ UNCHANGED <<tree, vruntime>>

TakeSuccessor ==
  LET parent == IF tree.parent[node] = given THEN node ELSE tree.parent[node] IN
  /\ stage = "successor" /\ tree.kid["left"][node] = NULL
  /\ tree' = Unlinked(Inherit(Unlink(tree, node), given, node), given)
  /\ RemoveFrom(node \in tree.red, tree.kid["right"][node], parent)
  /\ OutOfTree(given)

(* RB_REMOVE_COLOR: the subtree `node` under `above` lacks a black task;   *)
(* node may be NULL.                                                       *)
RemoveDone ==
  /\ stage = "remove_color" /\ (node \in tree.red \/ node = tree.root)
  /\ tree' = [tree EXCEPT !.red = @ \ {node}]
  /\ CallReturns /\ UNCHANGED vruntime

(* The tree once the sibling is black.                                     *)
BlackSibling(tr, s, p) ==
  LET sib == tr.kid[Opposite(s)][p]
  IN  IF sib \in tr.red THEN Rotate(SetBlackRed(tr, sib, p), s, p) ELSE tr

Nephews(tr, sib) == {tr.kid["left"][sib], tr.kid["right"][sib]}

(* Seeded fault: the loop does not move up.                                *)
RemoveRecolorStays ==
  LET s   == SideOf(tree, above, node)
      a   == BlackSibling(tree, s, above)
      sib == a.kid[Opposite(s)][above]
  IN
  /\ stage = "remove_color" /\ node \notin tree.red /\ node # tree.root
  /\ Nephews(a, sib) \cap a.red = {}
  /\ tree' = [a EXCEPT !.red = @ \cup {sib}]
  /\ Goto("remove_color", node, above)
  /\ UNCHANGED vruntime

RemoveRecolor ==
  LET s   == SideOf(tree, above, node)
      a   == BlackSibling(tree, s, above)
      sib == a.kid[Opposite(s)][above]
  IN
  /\ stage = "remove_color" /\ node \notin tree.red /\ node # tree.root
  /\ Nephews(a, sib) \cap a.red = {}
  /\ tree' = [a EXCEPT !.red = @ \cup {sib}]
  /\ Goto("remove_color", above, a.parent[above])
  /\ UNCHANGED vruntime

(* The tree once the nephew on the far side is red.                        *)
RedFarNephew(tr, s, sib) ==
  IF tr.kid[Opposite(s)][sib] \in tr.red THEN tr
  ELSE Rotate(SetBlackRed(tr, tr.kid[s][sib], sib), Opposite(s), sib)

(* sib takes the colour of p, and p and the far nephew become black.       *)
ShareBlack(tr, p, sib, far) ==
  [tr EXCEPT !.red = (IF p \in @ THEN @ \cup {sib} ELSE @ \ {sib}) \ {p, far}]

RemoveRotate ==
  LET s   == SideOf(tree, above, node)
      o   == Opposite(s)
      a   == BlackSibling(tree, s, above)
      b   == RedFarNephew(a, s, a.kid[o][above])
      sib == b.kid[o][above]
      c   == Rotate(ShareBlack(b, above, sib, b.kid[o][sib]), s, above)
  IN
  /\ stage = "remove_color" /\ node \notin tree.red /\ node # tree.root
  /\ Nephews(a, a.kid[o][above]) \cap a.red # {}
  /\ tree' = [c EXCEPT !.red = @ \ {c.root}]
  /\ CallReturns /\ UNCHANGED vruntime

-----------------------------------------------------------------------------
(* RB_MINMAX: RB_MIN descends on the left, RB_MAX on the right.            *)

TreeMinMax(s) ==
  /\ stage = "idle"
  /\ stage' = "minmax" /\ node' = tree.root /\ val' = s
  /\ UNCHANGED <<tree, vruntime, given, above>>

(* Seeded fault: the task passed is not kept.                              *)
MinMaxForgetful ==
  /\ stage = "minmax" /\ node # NULL
  /\ Goto("minmax", tree.kid[val][node], above)
  /\ UNCHANGED <<tree, vruntime>>

MinMaxDescend ==
  /\ stage = "minmax" /\ node # NULL
  /\ Goto("minmax", tree.kid[val][node], node)
  /\ UNCHANGED <<tree, vruntime>>

MinMaxReturn ==
  /\ stage = "minmax" /\ node = NULL
  /\ CallReturns /\ UNCHANGED <<tree, vruntime>>

-----------------------------------------------------------------------------
(* RB_FIND and RB_NFIND, which differ in what they return when nothing is  *)
(* equal: NULL, and the last task passed on the left.                      *)

(* The task to find may be outside the tree.                               *)
TreeFind(t, v) ==
  /\ stage = "idle" /\ vruntime[t] \in {v, NULL}
  /\ stage' = "find" /\ given' = t /\ node' = tree.root /\ val' = v
  /\ UNCHANGED <<tree, vruntime, above>>

SearchKeys == [vruntime EXCEPT ![given] = val]

FindEnds == node # NULL => cfs_task_cmp(SearchKeys, given, node) = 0

(* Seeded fault: any task passed is kept, as in RB_INSERT.                 *)
FindDescendKeeping ==
  LET s == SideFrom(SearchKeys, given, node) IN
  /\ stage = "find" /\ ~FindEnds
  /\ Goto("find", tree.kid[s][node], node)
  /\ UNCHANGED <<tree, vruntime>>

FindDescend ==
  LET s == SideFrom(SearchKeys, given, node) IN
  /\ stage = "find" /\ ~FindEnds
  /\ Goto("find", tree.kid[s][node], IF s = "left" THEN node ELSE above)
  /\ UNCHANGED <<tree, vruntime>>

FindReturn ==
  /\ stage = "find" /\ FindEnds
  /\ CallReturns /\ UNCHANGED <<tree, vruntime>>

-----------------------------------------------------------------------------
(* RB_NEXT, towards the side s = "right", and RB_PREV, towards "left"      *)

(* Down from the child on side s, or up.                                   *)
TreeNeighbour(s, t) ==
  /\ stage = "idle" /\ vruntime[t] # NULL
  /\ given' = t /\ val' = s
  /\ IF tree.kid[s][t] # NULL THEN stage' = "near" /\ node' = tree.kid[s][t]
     ELSE stage' = "climb" /\ node' = t
  /\ UNCHANGED <<tree, vruntime, above>>

(* Seeded fault: one step down instead of as many as it takes.             *)
NearEndsAtOnce == TRUE

NearEnds == tree.kid[Opposite(val)][node] = NULL

NearDescend ==
  /\ stage = "near" /\ ~NearEnds
  /\ Goto("near", tree.kid[Opposite(val)][node], NULL)
  /\ UNCHANGED <<tree, vruntime>>

(* Seeded fault: one step up instead of as many as it takes.               *)
ClimbEndsAtOnce == TRUE

ClimbEnds == Parent # NULL => tree.kid[val][Parent] # node

ClimbUp ==
  /\ stage = "climb" /\ ~ClimbEnds
  /\ Goto("climb", Parent, NULL)
  /\ UNCHANGED <<tree, vruntime>>

(* The task returned is node, or the parent of node.                       *)
NeighbourReturn ==
  /\ (stage = "near" /\ NearEnds) \/ (stage = "climb" /\ ClimbEnds)
  /\ CallReturns /\ UNCHANGED <<tree, vruntime>>

-----------------------------------------------------------------------------

(* A turn of the loop the call is in.                                      *)
Turn ==
  \/ InsertDescend \/ InsertLink \/ InsertDone \/ InsertRecolor \/ InsertRotate
  \/ SuccessorDescend \/ TakeSuccessor
  \/ RemoveDone \/ RemoveRecolor \/ RemoveRotate
  \/ MinMaxDescend \/ MinMaxReturn
  \/ FindDescend \/ FindReturn \/ NearDescend \/ ClimbUp \/ NeighbourReturn

TreeNext ==
  \/ Turn
  \/ \E t \in TREE_TASKS, v \in VRUNTIMES : TreeInsert(t, v) \/ TreeFind(t, v)
  \/ \E t \in TREE_TASKS : TreeRemove(t) \/ TreeRemoveInner(t)
  \/ \E s \in Sides : TreeMinMax(s)
  \/ \E s \in Sides, t \in TREE_TASKS : TreeNeighbour(s, t)

TreeSpec == TreeInit /\ [][TreeNext]_treeVars

-----------------------------------------------------------------------------

Queued == {t \in TREE_TASKS : vruntime[t] # NULL}

(* Sets of tasks that hold the children of their tasks.                    *)
Closed(S) == \A t \in S, s \in Sides : tree.kid[s][t] \in S \cup {NULL}

(* For every task, the tasks the links lead to from it, itself included.   *)
Subtrees ==
  LET closed == {S \in SUBSET TREE_TASKS : Closed(S)}
  IN  [t \in TREE_TASKS \cup {NULL} |->
         {u \in TREE_TASKS : t # NULL /\ \A S \in closed : t \in S => u \in S}]

(* What SchedCFS takes the tree for: between calls it holds exactly the    *)
(* tasks inserted and not removed, and each has those that are less on its *)
(* left and those that are greater on its right.                           *)
HoldsQueuedInOrder ==
  stage = "idle" =>
    LET below == Subtrees IN
    /\ below[tree.root] = Queued
    /\ \A t \in Queued, s \in Sides :
         \A u \in below[tree.kid[s][t]] : OnSide(vruntime, s, u, t)

(* Types, and no link of or to a task that is not in the tree.             *)
TreeTypeOK ==
  /\ vruntime \in [TREE_TASKS -> VRUNTIMES \cup {NULL}]
  /\ tree.root \in Queued \cup {NULL}
  /\ tree.red \subseteq Queued
  /\ \A t \in TREE_TASKS, s \in Sides :
       {tree.kid[s][t], tree.parent[t]}
          \subseteq (IF t \in Queued THEN Queued \cup {NULL} ELSE {NULL})
  /\ {given, node, above} \subseteq TREE_TASKS \cup {NULL}
  /\ val \in IF stage = "find" THEN VRUNTIMES ELSE Sides \cup {NULL}

(* The parent pointers, by which RB_REMOVE finds its way back up, name the *)
(* task whose child it is; the root has none.                              *)
ParentLinks ==
  \A t \in Queued :
    IF tree.parent[t] = NULL THEN tree.root = t
    ELSE t \in {tree.kid[s][tree.parent[t]] : s \in Sides}

(* The balance that makes the operations logarithmic: a black root, no red *)
(* child of a red task, as many black tasks on every way down.             *)
Balanced ==
  LET below == Subtrees
      BlackAbove(t) == Cardinality({u \in Queued \ tree.red : t \in below[u]})
      Ends == {t \in Queued : NULL \in {tree.kid[s][t] : s \in Sides}}
  IN
  /\ tree.root \notin tree.red
  /\ \A t \in tree.red : tree.parent[t] \notin tree.red
  /\ \E n \in 0 .. Cardinality(Queued) : \A t \in Ends : BlackAbove(t) = n

(* The pointers the loops follow without a test for NULL: the grandparent  *)
(* of a task with a red parent, the parent of one that is not the root and *)
(* its sibling, and the nephew a second rotation brings up.                *)
NoNullFollowed ==
  /\ stage = "insert_color" /\ Parent \in tree.red => Grandparent # NULL
  /\ stage = "remove_color" /\ node \notin tree.red /\ node # tree.root =>
       /\ above # NULL
       /\ LET s == SideOf(tree, above, node)
              a == BlackSibling(tree, s, above)
          IN  /\ tree.kid[Opposite(s)][above] # NULL
              /\ a.kid[Opposite(s)][above] # NULL

(* The whole shape of a red-black tree between calls. The macros rely on   *)
(* it without a test, so a link, a parent or a colour left wrong by one    *)
(* operation is met by a later one, and at the latest where a pointer is   *)
(* NULL.                                                                   *)
RedBlackTree ==
  TreeTypeOK /\ NoNullFollowed /\ (stage = "idle" => ParentLinks /\ Balanced)

(* RB_MIN, by which sched_cfs_dequeue picks, and RB_MAX: the task returned *)
(* is the least or the greatest, or NULL for the empty tree.               *)
EndsAreExtremes ==
  stage = "minmax" /\ node = NULL =>
    IF above = NULL THEN Queued = {}
    ELSE above \in Queued /\ \A t \in Queued : t = above \/ OnSide(vruntime, val, above, t)

(* r is the first of S on the way to side s, or NULL when S is empty.      *)
FirstTo(s, S, r) ==
  IF r = NULL THEN S = {}
  ELSE r \in S /\ \A t \in S : t = r \/ OnSide(vruntime, s, t, r)

(* RB_FIND finds a task if and only if it is in the tree, RB_NFIND the     *)
(* first one that is not less.                                             *)
FindsTheTask ==
  stage = "find" /\ FindEnds =>
    /\ node = IF given \in Queued THEN given ELSE NULL
    /\ FirstTo("right", {t \in Queued : cfs_task_cmp(SearchKeys, given, t) <= 0},
             IF node = NULL THEN above ELSE node)

(* RB_NEXT and RB_PREV return the task next to the given one in order,     *)
(* wherever in the tree that is, and NULL at the end of the order.         *)
FindsNeighbour ==
  LET beyond == {t \in Queued : OnSide(vruntime, val, t, given)} IN
  /\ stage = "near" /\ NearEnds => FirstTo(val, beyond, node)
  /\ stage = "climb" /\ ClimbEnds => FirstTo(val, beyond, Parent)

(* The searches of tree.h, which rely on the order and on the parents that *)
(* the insertions and removals before them have left.                      *)
Navigation == FindsTheTask /\ FindsNeighbour

(* An ordered set with a least and a greatest task.                        *)
OrderedSet == HoldsQueuedInOrder /\ EndsAreExtremes

(* The next turn is the last: the loop finds its task red or black enough. *)
LastButOne ==
  IF stage = "insert_color" THEN Parent \notin tree.red ELSE node \in tree.red

(* Some of the tasks that u leads to, and not all.                         *)
Under(t, u) ==
  LET below == Subtrees IN below[t] \subseteq below[u] /\ below[t] # below[u]

(* Every loop ends. A loop that goes down has ever fewer tasks under it,   *)
(* that of RB_NEXT that goes up ever more. A loop that recolours has ever  *)
(* more, too, and the links stay, until it makes a rotation: then one turn *)
(* is left.                                                                *)
Advance ==
  stage # "idle" /\ stage' = stage =>
    IF stage \in {"insert_color", "remove_color"}
    THEN LastButOne' \/ (tree'.kid = tree.kid /\ Under(node, node'))
    ELSE /\ tree' = tree
         /\ IF stage = "climb" THEN Under(node, node') ELSE Under(node', node)

LoopsAdvance == [][Advance]_treeVars

=============================================================================
