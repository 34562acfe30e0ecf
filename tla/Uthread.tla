------------------------------ MODULE Uthread -------------------------------
(***************************************************************************)
(* The contexts of uthread.c and the switch between them (switch.S), down  *)
(* to the registers and the words of the stacks. Schedy takes a context    *)
(* for one of "reset", "entry", "live", "saved"; here is why a fiber that  *)
(* is "saved" continues where it was, on whichever worker resumes it.      *)
(*                                                                         *)
(* Memory is counted in words of 8 bytes, upwards from the mapping of a    *)
(* stack. What is in a register or a word is written as a tuple of who put *)
(* it there and what it is: no two contexts have a value in common.        *)
(***************************************************************************)
EXTENDS Integers, Sequences, Null

CONSTANTS
  CPUS,         \* kernel threads, each with a stack that sched_loop runs on
  UTHREADS,     \* the stacks of the slots
  ARGUMENTS,    \* of the submitted tasks
  STACK_WORDS,  \* STACK_SIZE / 8
  DEPTH,        \* bound of the model: nested calls in the body of a fiber
  MAP_FAILED

ASSUME UthreadAssumption ==
  /\ STACK_WORDS \in Nat /\ STACK_WORDS % 2 = 0
  /\ DEPTH \in Nat /\ DEPTH < STACK_WORDS
  /\ CPUS \cap UTHREADS = {}
  /\ MAP_FAILED # NULL

Frame  == <<"r15", "r14", "r13", "r12", "rbp", "rbx", "rip">>
Pushed == <<"rbx", "rbp", "r12", "r13", "r14", "r15">>
Saved  == {Pushed[i] : i \in 1 .. 6}
Stacks == CPUS \cup UTHREADS
Words  == 0 .. STACK_WORDS + 6

VARIABLES
  memory,     \* the words of every stack
  context,    \* uthread->context: the saved stack pointer
  cpu,        \* rsp, as a stack and a word of it, and the registers
  mapped,     \* the stacks that mmap gave
  slot,       \* what the scheduler does with the stack
  process,    \* "up", or how it ended
  \* history: the argument submitted; rsp and registers as they were at the
  \* last call of uthread_switch by the owner of the stack
  argument, left

uthreadVars == <<memory, context, cpu, mapped, slot, process, argument, left>>
scheduling == <<mapped, slot, process, argument>>

Zero == <<>>
Zeroed == [a \in Words |-> Zero]
Own(s) == [r \in Saved |-> <<s, r>>]

UthreadInit ==
  /\ memory = [s \in Stacks |-> Zeroed]
  /\ context = [s \in Stacks |-> NULL]
  /\ cpu = [c \in CPUS |-> [stack |-> c, rsp |-> STACK_WORDS + 7, regs |-> Own(c),
                            rip |-> <<c, "rip">>]]
  /\ mapped = {}
  /\ slot = [u \in UTHREADS |-> "NULL"]
  /\ process = "up"
  /\ argument = [u \in UTHREADS |-> NULL]
  /\ left = [s \in Stacks |-> NULL]

-----------------------------------------------------------------------------
(* Making a context.                                                       *)

(* uthread_frame(thread)->reg of a context at the top of its stack.        *)
FrameWord(reg) == STACK_WORDS + (CHOOSE i \in 1 .. 7 : Frame[i] = reg) - 1

(* Seeded fault: the frame keeps the registers of the last task.           *)
ResetKeepingFrame(m) == m

(* uthread_reset, on the words of a stack.                                 *)
Reset(m) == [a \in Words |-> IF a >= STACK_WORDS THEN Zero ELSE m[a]]

(* uthread_set_entry, uthread_set_arg_0 and uthread_set_arg_1.             *)
SetEntry(m, entry) == [m EXCEPT ![FrameWord("rip")] = entry]
SetArg0(m, value)  == [m EXCEPT ![FrameWord("r15")] = value]
SetArg1(m, value)  == [m EXCEPT ![FrameWord("r14")] = value]

(* The part of a submission that makes slot u a task: a new or a finished  *)
(* stack is reset and given the entry point, the task and its argument.    *)
Submit(u, m, arg) ==
  /\ memory' = [memory EXCEPT ![u] =
       SetArg1(SetArg0(SetEntry(Reset(m), <<"entry">>), <<u>>), <<arg>>)]
  /\ context' = [context EXCEPT ![u] = STACK_WORDS]
  /\ slot' = [slot EXCEPT ![u] = "ready"]
  /\ argument' = [argument EXCEPT ![u] = arg]
  /\ left' = [left EXCEPT ![u] = NULL]
  /\ UNCHANGED <<cpu, process>>

SubmitNew(u, arg) ==
  /\ slot[u] = "NULL"
  /\ mapped' = mapped \cup {u}
  /\ Submit(u, Zeroed, arg)

SubmitAgain(u, arg) ==
  /\ slot[u] = "idle"
  /\ Submit(u, memory[u], arg)
  /\ UNCHANGED mapped

(* The test of uthread_allocate for a mapping that failed.                 *)
Failed(thread) == thread = NULL

(* mmap fails. What is not taken for a failure is reset: the first write,  *)
(* to `context` at the address MAP_FAILED, is to memory not mapped.        *)
MmapFails(u) ==
  /\ slot[u] = "NULL"
  /\ process' = IF Failed(MAP_FAILED) THEN "assertion" ELSE "fault"
  /\ UNCHANGED <<memory, context, cpu, mapped, slot, argument, left>>

-----------------------------------------------------------------------------
(* __switch_threads. Its caller has pushed the address to return to; six   *)
(* registers follow, and rsp is saved. The other stack gives rsp, the six  *)
(* registers in the opposite order, and the address to return to.          *)

(* Seeded fault: r12 and r13 are popped in the order they were pushed.     *)
PoppedTwisted == <<"r15", "r14", "r12", "r13", "rbp", "rbx">>

Popped == <<"r15", "r14", "r13", "r12", "rbp", "rbx">>

(* Seeded fault: the pushes begin one word too high.                       *)
SpilledHigh(c) ==
  LET rsp == cpu[c].rsp + 1 IN
  [a \in Words |->
     IF a = rsp - 1 THEN <<cpu[c].stack, "rip">>
     ELSE IF a \in rsp - 7 .. rsp - 2 THEN cpu[c].regs[Pushed[rsp - 1 - a]]
     ELSE memory[cpu[c].stack][a]]

(* The stack that c is on, once the switch has pushed what it saves.       *)
Spilled(c) ==
  LET rsp == cpu[c].rsp IN
  [a \in Words |->
     IF a = rsp - 1 THEN <<cpu[c].stack, "rip">>
     ELSE IF a \in rsp - 7 .. rsp - 2 THEN cpu[c].regs[Pushed[rsp - 1 - a]]
     ELSE memory[cpu[c].stack][a]]

(* Seeded fault: rsp is saved as if there were seven registers.            *)
SavedRspLow(c) == cpu[c].rsp - 8

SavedRsp(c) == cpu[c].rsp - 7

uthread_switch(c, next) ==
  LET prev == cpu[c].stack
      top  == context[next]
  IN
  /\ memory' = [memory EXCEPT ![prev] = Spilled(c)]
  /\ context' = [context EXCEPT ![prev] = SavedRsp(c)]
  /\ cpu' = [cpu EXCEPT ![c] =
       [stack |-> next,
        rsp   |-> top + 7,
        regs  |-> [r \in Saved |->
                     memory[next][top + (CHOOSE i \in 1 .. 6 : Popped[i] = r) - 1]],
        rip   |-> memory[next][top + 6]]]
  /\ left' = [left EXCEPT ![prev] = [rsp |-> cpu[c].rsp, regs |-> cpu[c].regs]]

-----------------------------------------------------------------------------
(* The scheduler on a worker c, and the fiber it switches to.              *)

(* sched_switch_to                                                         *)
Resume(c, u) ==
  /\ cpu[c].stack = c /\ slot[u] = "ready"
  /\ uthread_switch(c, u)
  /\ slot' = [slot EXCEPT ![u] = "running"]
  /\ UNCHANGED <<mapped, process, argument>>

(* sched_switch_to_scheduler, by task_yield or by task_exit.               *)
Yield(c, next) ==
  /\ cpu[c].stack # c
  /\ uthread_switch(c, c)
  /\ slot' = [slot EXCEPT ![cpu[c].stack] = next]
  /\ UNCHANGED <<mapped, process, argument>>

(* The body uses all the registers it must give back, ...                  *)
Compute(c) ==
  /\ cpu[c].stack # c
  /\ cpu' = [cpu EXCEPT ![c].regs = Own(cpu[c].stack)]
  /\ UNCHANGED <<memory, context, left, scheduling>>

(* ... and calls functions, whose frames are on its stack.                 *)
Call(c) ==
  LET u == cpu[c].stack
      a == cpu[c].rsp - 1
  IN
  /\ u # c /\ a >= STACK_WORDS + 7 - DEPTH
  /\ memory' = [memory EXCEPT ![u][a] = <<u, "call", a>>]
  /\ cpu' = [cpu EXCEPT ![c].rsp = a]
  /\ UNCHANGED <<context, left, scheduling>>

Return(c) ==
  /\ cpu[c].stack # c /\ cpu[c].rsp < STACK_WORDS + 7
  /\ cpu' = [cpu EXCEPT ![c].rsp = @ + 1]
  /\ UNCHANGED <<memory, context, left, scheduling>>

(* sched_release of a finished task.                                       *)
Release(u) ==
  /\ slot[u] = "finished"
  /\ memory' = [memory EXCEPT ![u] = Reset(@)]
  /\ context' = [context EXCEPT ![u] = STACK_WORDS]
  /\ slot' = [slot EXCEPT ![u] = "idle"]
  /\ left' = [left EXCEPT ![u] = NULL]
  /\ UNCHANGED <<cpu, mapped, process, argument>>

(* Seeded fault: the stacks are unmapped though a worker is still running. *)
JoinedNever == TRUE

(* Every worker has returned from its loop; tasks may be left over.        *)
Joined ==
  /\ \A c \in CPUS : cpu[c].stack = c
  /\ \A u \in UTHREADS : slot[u] # "finished"

(* sched_destroy after sched_wait, and the next sched_init.                *)
Destroy ==
  /\ Joined
  /\ mapped' = {}
  /\ memory' = [s \in Stacks |-> IF s \in UTHREADS THEN Zeroed ELSE memory[s]]
  /\ context' = [s \in Stacks |-> IF s \in UTHREADS THEN NULL ELSE context[s]]
  /\ slot' = [u \in UTHREADS |-> "NULL"]
  /\ argument' = [u \in UTHREADS |-> NULL]
  /\ UNCHANGED <<cpu, process, left>>

UthreadNext ==
  /\ process = "up"
  /\ \/ \E u \in UTHREADS :
          \/ MmapFails(u) \/ Release(u)
          \/ \E arg \in ARGUMENTS : SubmitNew(u, arg) \/ SubmitAgain(u, arg)
          \/ \E c \in CPUS : Resume(c, u)
     \/ \E c \in CPUS :
          \/ Yield(c, "ready") \/ Yield(c, "finished")
          \/ Compute(c) \/ Call(c) \/ Return(c)
     \/ Destroy

UthreadSpec == UthreadInit /\ [][UthreadNext]_uthreadVars

-----------------------------------------------------------------------------

(* What a register can hold, where a call can return to, and the words of  *)
(* a stack; rsp of a stack on which DEPTH calls at most are open.          *)
Values == {Zero} \cup {<<u>> : u \in UTHREADS} \cup {<<arg>> : arg \in ARGUMENTS}
            \cup {<<s, r>> : s \in Stacks, r \in Saved}
Addresses == {<<"entry">>} \cup {<<s, "rip">> : s \in Stacks}
Contents == Values \cup Addresses \cup {<<u, "call", a>> : u \in UTHREADS, a \in Words}
Depths == STACK_WORDS + 7 - DEPTH .. STACK_WORDS + 7
SavedContexts == [rsp : Depths, regs : [Saved -> Values]]

ASSUME NoContext == NULL \notin SavedContexts

UthreadTypeOK ==
  /\ memory \in [Stacks -> [Words -> Contents]]
  /\ context \in [Stacks -> Words \cup {NULL}]
  /\ cpu \in [CPUS -> [stack : Stacks, rsp : Depths, regs : [Saved -> Values],
                       rip : Addresses]]
  /\ \A c \in CPUS : cpu[c].stack \in {c} \cup UTHREADS
  /\ argument \in [UTHREADS -> ARGUMENTS \cup {NULL}]
  /\ left \in [Stacks -> SavedContexts \cup {NULL}]
  /\ mapped \subseteq UTHREADS
  /\ slot \in [UTHREADS -> {"NULL", "idle", "ready", "running", "finished"}]
  /\ process \in {"up", "assertion", "fault"}

Switched(c) == cpu'[c].stack # cpu[c].stack

(* A fiber, and the scheduler of a worker, comes back from uthread_switch  *)
(* with the stack pointer and the callee-saved registers it called it      *)
(* with, at the instruction after the call, though another worker may have *)
(* resumed it and other fibers have run in between.                        *)
ContextPreserved ==
  [][\A c \in CPUS :
       LET s == cpu'[c].stack IN
       Switched(c) /\ left[s] # NULL =>
         /\ cpu'[c].rsp = left[s].rsp
         /\ cpu'[c].regs = left[s].regs
         /\ cpu'[c].rip = <<s, "rip">>]_uthreadVars

(* A fiber that runs for the first time starts at its entry point, with    *)
(* its task in r15 and its argument in r14, as TASK_DEFINE reads them, on  *)
(* a stack aligned as after a call, and with nothing of the last task of   *)
(* the slot in the other registers.                                        *)
EntryAsSubmitted ==
  [][\A c \in CPUS :
       LET u == cpu'[c].stack IN
       Switched(c) /\ left[u] = NULL =>
         /\ cpu'[c].rip = <<"entry">>
         /\ cpu'[c].regs = [r \in Saved |-> CASE r = "r15" -> <<u>>
                                              [] r = "r14" -> <<argument[u]>>
                                              [] OTHER -> Zero]
         /\ cpu'[c].rsp % 2 = 1]_uthreadVars

(* The frames of the calls a fiber is in stay on its stack, whether it is  *)
(* running or waits to be resumed.                                         *)
FramesIntact ==
  \A u \in UTHREADS :
    LET rsps == {cpu[c].rsp : c \in {d \in CPUS : cpu[d].stack = u}}
                  \cup (IF slot[u] = "ready" /\ left[u] # NULL
                        THEN {left[u].rsp} ELSE {})
    IN  \A rsp \in rsps : \A a \in rsp .. STACK_WORDS + 6 : memory[u][a] = <<u, "call", a>>

(* No worker is on a stack that is not mapped, whatever mmap returned.     *)
OnMappedStack ==
  process = "up" => \A c \in CPUS : cpu[c].stack \in {c} \cup mapped

(* A stack is in use only while it is mapped, and nothing but its own      *)
(* fiber changes the frames on it.                                         *)
StacksIntact == UthreadTypeOK /\ FramesIntact /\ OnMappedStack

(* uthread_allocate returns NULL when it fails, and the assertion in       *)
(* sched_try_submit_with_worker reports it.                                *)
FailureReported == process # "fault"

=============================================================================
