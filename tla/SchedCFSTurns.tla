--------------------------- MODULE SchedCFSTurns ----------------------------
(***************************************************************************)
(* How fair the turns of one tree are while tasks are stolen from it and   *)
(* into it: SchedCFS with a history of the steals. The scheduler has no    *)
(* such variables, and no step depends on them.                            *)
(***************************************************************************)
EXTENDS SchedCFS

VARIABLES
  guests,   \* the workers whose last task came from another worker's tree
  mixed     \* those whose guest submitted tasks to their tree, until the
            \* tree is empty

turnsVars == <<vars, guests, mixed>>

(* The last task a worker dequeued is, or is not, a stolen one.            *)
NoteGuests ==
  guests' = {w \in Workers : IF pc'[w] = "try_lock" /\ pc[w] # "try_lock"
                             THEN pc[w] = "steal" ELSE w \in guests}

NoteMixed ==
  mixed' = {w \in Workers :
              /\ w \in mixed \/ (w \in guests /\ pc'[w] = "submit_insert")
              /\ pc'[w] \notin {"unborn", "steal"}}

TurnsInit == Init /\ guests = {} /\ mixed = {}

TurnsNext == Next /\ NoteGuests /\ NoteMixed

TurnsSpec == TurnsInit /\ [][TurnsNext]_turnsVars

-----------------------------------------------------------------------------

(* A worker has a task, dequeued and not put back yet; and the tasks that  *)
(* get their turns from it: that one, those in its tree and the one it is  *)
(* about to insert.                                                        *)
HasTask(w) == pc[w] \in InHand \cup Owners

Served(w) ==
  {t \in Tasks : \/ t \in runqueue[w]
                 \/ HasTask(w) /\ t = cur[w]
                 \/ pc[w] = "submit_insert" /\ t = idx[w]}

(* The turns of every tree are fair, with any number of workers: of the    *)
(* tasks a worker serves none is more than a turn ahead of another,        *)
(* although thieves take tasks out and move min_vruntime, which on_submit  *)
(* reads without the lock, and although stolen tasks come with a vruntime  *)
(* counted elsewhere. It takes a stolen task that submits to break it: the *)
(* new task starts at the thief's min_vruntime, far from that of the other.*)
FairTurns ==
  \A w \in Workers \ mixed : \A t, u \in Served(w) :
    vruntime[t] <= vruntime[u] + 1

=============================================================================
