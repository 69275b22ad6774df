------------------------------- MODULE Sched -------------------------------
(***************************************************************************)
(* The round-robin scheduler of arch/x86_64/sched.c, as the boot code, the *)
(* timer interrupt, the page-fault handler and the processes drive it.     *)
(*                                                                         *)
(* A process is named by its pid: the boot process is -1, "idle" is 0 and  *)
(* the others follow in the order SKEntry creates them.  One step of the   *)
(* model is one access to shared memory (the kernel is built without       *)
(* optimisation), so that a timer interrupt can fall between the two loads *)
(* of the search in Scheduler_ExitProcess, or between a load and the store *)
(* that uses it.                                                           *)
(***************************************************************************)
EXTENDS Integers

CONSTANTS
    NumProcs,   \* processes created before interrupts are enabled
    Mortal,     \* the processes whose entry point returns or faults
    TickMod     \* the width of the tick counter (2^32 in the code)

(***************************************************************************)
(* "idle" always exists and never returns (Scheduler_IdleTask loops).      *)
(***************************************************************************)
ASSUME SchedAssumption ==
    /\ NumProcs \in Nat \ {0}
    /\ Mortal \subseteq 1 .. NumProcs - 1
    /\ TickMod \in Nat \ {0}

Root  == -1
Procs == 0 .. NumProcs - 1
Nodes == -1 .. NumProcs - 1

\* vmm_kernel_address_space, which belongs to no process
KernelSpace == -2

\* Scheduler_Initialize sets process_list once and nothing else assigns it
process_list == Root

VARIABLES
    pid_counter,        \* the next pid
    next,               \* ProcessT.next, by pid
    current_process,    \* the process the kernel takes to be running
    cpu,                \* the context the processor executes
    regs,               \* ProcessT.regs: the saved contexts
    vmm_current_address_space,
    stacks,             \* processes whose stack is an allocated heap block
    procs,              \* processes whose ProcessT is an allocated heap block
    tick                \* timer interrupts taken, modulo TickMod

vars == <<pid_counter, next, current_process, cpu, regs,
          vmm_current_address_space, stacks, procs, tick>>

-----------------------------------------------------------------------------
(***************************************************************************)
(* A context: whose registers they are, where the code is, the interrupt   *)
(* flag, and the locals of Scheduler_ExitProcess (its parameter proc, the  *)
(* search pointer prev_proc and the value loaded from proc->next).         *)
(***************************************************************************)
Unlinking == {"search", "advance", "load", "store"}
AfterStore == {"freeStack", "freeProc", "yield", "resume", "wild"}
Labels == {"boot", "run", "panic"} \cup Unlinking \cup AfterStore

Contexts == [of : Nodes, at : Labels, irq : BOOLEAN,
             proc : Nodes, prev : Nodes, nxt : Nodes]

\* CreateProcess: rip = Scheduler_Entry, rflags = 0x202 (IF set)
StartContext(p) == [of |-> p, at |-> "run", irq |-> TRUE,
                    proc |-> Root, prev |-> Root, nxt |-> Root]

\* the boot code, with interrupts still disabled
BootContext == [StartContext(Root) EXCEPT !.at = "boot", !.irq = FALSE]

\* the boot process's regs are never initialised: loading them runs wild
GarbageContext == [StartContext(Root) EXCEPT !.at = "wild"]

Created == -1 .. pid_counter - 1

\* the context of p, executing or saved
Context(p) == IF p = current_process THEN cpu ELSE regs[p]

\* the processes that have executed the store that unlinks them
Exited == {p \in Procs : Context(p).at \in AfterStore}

Live == {p \in Procs : p < pid_counter /\ p \notin Exited}

-----------------------------------------------------------------------------
\* Scheduler_Initialize has made the boot process, a ring of one
Init ==
    /\ pid_counter = 0
    /\ next = [p \in Nodes |-> Root]
    /\ current_process = Root
    /\ cpu = BootContext
    /\ regs = [p \in Nodes |-> IF p = Root THEN GarbageContext
                                           ELSE StartContext(p)]
    /\ vmm_current_address_space = KernelSpace
    /\ stacks = {}
    /\ procs = {Root}
    /\ tick = 0

\* "idle" from Scheduler_Initialize, then the tasks of SKEntry
Scheduler_CreateProcess ==
    /\ cpu.at = "boot" /\ pid_counter < NumProcs
    /\ next' = [next EXCEPT ![pid_counter] = next[process_list],
                            ![process_list] = pid_counter]
    /\ stacks' = stacks \cup {pid_counter}
    /\ procs' = procs \cup {pid_counter}
    /\ pid_counter' = pid_counter + 1
    /\ UNCHANGED <<current_process, cpu, regs, vmm_current_address_space, tick>>

\* SKEntry enables interrupts and loops for ever
SKEntry_Sti ==
    /\ cpu.at = "boot" /\ pid_counter = NumProcs
    /\ cpu' = [cpu EXCEPT !.at = "run", !.irq = TRUE]
    /\ UNCHANGED <<pid_counter, next, current_process, regs,
                   vmm_current_address_space, stacks, procs, tick>>

-----------------------------------------------------------------------------
\* mutants of Scheduler_Schedule: current_process is advanced before its
\* registers are saved; the address space is left
ScheduleAdvancesFirst(saved) ==
    LET to == next[current_process] IN
    /\ regs' = [regs EXCEPT ![to] = saved]
    /\ current_process' = to
    /\ cpu' = regs'[to]
    /\ vmm_current_address_space' = to

ScheduleKeepsSpace(saved) ==
    LET to == next[current_process] IN
    /\ regs' = [regs EXCEPT ![current_process] = saved]
    /\ current_process' = to
    /\ cpu' = regs'[to]
    /\ UNCHANGED vmm_current_address_space

\* saved is the interrupted context, as the ISR stub pushed it
Scheduler_Schedule(saved) ==
    LET to == next[current_process] IN
    /\ regs' = [regs EXCEPT ![current_process] = saved]
    /\ current_process' = to
    /\ cpu' = regs'[to]
    /\ vmm_current_address_space' = to

\* mutant: a tick counter that never wraps
PitHandlerNoWrap(saved) ==
    /\ tick' = tick + 1
    /\ Scheduler_Schedule(saved)
    /\ UNCHANGED <<pid_counter, next, stacks, procs>>

\* vector 32, raised by the timer or by int $32: the gate clears IF, so the
\* handler is one step
Pit_Handler(saved) ==
    /\ tick' = (tick + 1) % TickMod
    /\ Scheduler_Schedule(saved)
    /\ UNCHANGED <<pid_counter, next, stacks, procs>>

\* the timer fires wherever interrupts are enabled
TimerInterrupt == cpu.irq /\ Pit_Handler(cpu)

-----------------------------------------------------------------------------
(***************************************************************************)
(* Only the control state and the locals of the running context change.    *)
(***************************************************************************)
Step(context) ==
    /\ cpu' = context
    /\ UNCHANGED <<pid_counter, next, current_process, regs,
                   vmm_current_address_space, stacks, procs, tick>>

\* the call Scheduler_ExitProcess(current_process)
CallExit(flag) ==
    [cpu EXCEPT !.at = "search", !.irq = flag,
                !.proc = current_process, !.prev = process_list]

\* the entry point returned: Scheduler_Entry runs on, interrupts enabled
Scheduler_Entry ==
    /\ cpu.at = "run" /\ cpu.of \in Mortal
    /\ Step(CallExit(cpu.irq))

\* a page fault: the handler runs with IF clear, and halts the machine unless
\* the address space in use is the current process's
general_interrupt_handler_PageFault ==
    /\ cpu.at = "run" /\ cpu.of \in Mortal
    /\ Step(IF vmm_current_address_space = current_process
              THEN CallExit(FALSE)
              ELSE [cpu EXCEPT !.at = "panic", !.irq = FALSE])

\* while (prev_proc->next != proc), one load
ExitProcess_Test ==
    /\ cpu.at = "search"
    /\ Step([cpu EXCEPT !.at = IF next[cpu.prev] = cpu.proc THEN "load"
                                                            ELSE "advance"])

\* mutant: the search starts over instead of advancing
AdvanceRestarts ==
    /\ cpu.at = "advance"
    /\ Step([cpu EXCEPT !.at = "search", !.prev = process_list])

\* prev_proc = prev_proc->next, a second load of the same field
ExitProcess_Advance ==
    /\ cpu.at = "advance"
    /\ Step([cpu EXCEPT !.at = "search", !.prev = next[cpu.prev]])

\* mutant: unlinks the successor as well
LoadSkipsOne ==
    /\ cpu.at = "load"
    /\ Step([cpu EXCEPT !.at = "store", !.nxt = next[next[cpu.proc]]])

\* prev_proc->next = proc->next: the load ...
ExitProcess_Load ==
    /\ cpu.at = "load"
    /\ Step([cpu EXCEPT !.at = "store", !.nxt = next[cpu.proc]])

\* mutant: stores through the wrong pointer
StoreIntoProc ==
    /\ cpu.at = "store"
    /\ next' = [next EXCEPT ![cpu.proc] = cpu.nxt]
    /\ cpu' = [cpu EXCEPT !.at = "freeStack"]
    /\ UNCHANGED <<pid_counter, current_process, regs,
                   vmm_current_address_space, stacks, procs, tick>>

\* ... and the store that takes proc off the ring
ExitProcess_Store ==
    /\ cpu.at = "store"
    /\ next' = [next EXCEPT ![cpu.prev] = cpu.nxt]
    /\ cpu' = [cpu EXCEPT !.at = "freeStack"]
    /\ UNCHANGED <<pid_counter, current_process, regs,
                   vmm_current_address_space, stacks, procs, tick>>

\* mutant: frees the predecessor's stack
FreesPrevStack ==
    /\ cpu.at = "freeStack"
    /\ stacks' = stacks \ {cpu.prev}
    /\ cpu' = [cpu EXCEPT !.at = "freeProc"]
    /\ UNCHANGED <<pid_counter, next, current_process, regs,
                   vmm_current_address_space, procs, tick>>

\* mutant: the heap ends a critical section with sti
FreeStackEnables ==
    /\ cpu.at = "freeStack"
    /\ stacks' = stacks \ {cpu.proc}
    /\ cpu' = [cpu EXCEPT !.at = "freeProc", !.irq = TRUE]
    /\ UNCHANGED <<pid_counter, next, current_process, regs,
                   vmm_current_address_space, procs, tick>>

\* KHeap_Free(proc->stack_ptr - 4096), the stack this code runs on
ExitProcess_FreeStack ==
    /\ cpu.at = "freeStack"
    /\ stacks' = stacks \ {cpu.proc}
    /\ cpu' = [cpu EXCEPT !.at = "freeProc"]
    /\ UNCHANGED <<pid_counter, next, current_process, regs,
                   vmm_current_address_space, procs, tick>>

\* KHeap_Free(proc), which ignores a block without its magic number.  The
\* stack is larger than a heap page can hold and its top lies on the header of
\* this very block (module KHeap), so both outcomes are possible.
ExitProcess_FreeProc ==
    /\ cpu.at = "freeProc"
    /\ procs' \in {procs, procs \ {cpu.proc}}
    /\ cpu' = [cpu EXCEPT !.at = "yield"]
    /\ UNCHANGED <<pid_counter, next, current_process, regs,
                   vmm_current_address_space, stacks, tick>>

\* int $32, the last instruction of Scheduler_Entry and of the fault handler
Scheduler_Entry_Yield ==
    /\ cpu.at = "yield"
    /\ Pit_Handler([cpu EXCEPT !.at = "resume"])

\* nothing is left to return to after int $32: Scheduler_Entry has no caller,
\* and the fault handler would return into the process it has freed
RunOff ==
    /\ cpu.at = "resume"
    /\ Step([cpu EXCEPT !.at = "wild", !.irq = FALSE])

ExitStep ==
    \/ ExitProcess_Test
    \/ ExitProcess_Advance
    \/ ExitProcess_Load
    \/ ExitProcess_Store
    \/ ExitProcess_FreeStack
    \/ ExitProcess_FreeProc
    \/ Scheduler_Entry_Yield

Next ==
    \/ Scheduler_CreateProcess
    \/ SKEntry_Sti
    \/ TimerInterrupt
    \/ Scheduler_Entry
    \/ general_interrupt_handler_PageFault
    \/ ExitStep
    \/ RunOff

Spec == Init /\ [][Next]_vars

(***************************************************************************)
(* The boot code runs to its end, the timer goes on firing, and a process  *)
(* that keeps getting the processor keeps advancing: a time slice is a     *)
(* millisecond, the steps of the exit path are single instructions.  A     *)
(* process is never obliged to return.                                     *)
(***************************************************************************)
Fairness ==
    /\ WF_vars(Scheduler_CreateProcess \/ SKEntry_Sti)
    /\ WF_vars(TimerInterrupt)
    /\ \A p \in Mortal : SF_vars(current_process = p /\ (ExitStep \/ RunOff))

FairSpec == Spec /\ Fairness

-----------------------------------------------------------------------------
(***************************************************************************)
(* The ring lists the processes in descending pid order, the boot process  *)
(* first.  Top(x) is x's place in it as a source: above every pid for the  *)
(* boot process, which as a successor is below every pid.                  *)
(***************************************************************************)
Top(x) == IF x = Root THEN NumProcs ELSE x

\* what the scheduler would come to, starting from the boot process
Closed(S) == Root \in S /\ \A x \in S : next[x] \in S
OnRing(x) == \A S \in SUBSET Nodes : Closed(S) => x \in S

\* Every variable has its type (the shapes of sched.h's ProcessT).
TypeOK ==
    /\ pid_counter \in 0 .. NumProcs
    /\ next \in [Nodes -> Nodes]
    /\ current_process \in Nodes
    /\ cpu \in Contexts
    /\ regs \in [Nodes -> Contexts]
    /\ vmm_current_address_space \in Nodes \cup {KernelSpace}
    /\ stacks \in SUBSET Procs
    /\ procs \in SUBSET Nodes
    /\ tick \in 0 .. TickMod - 1

(***************************************************************************)
(* Registers and address space go with the process: the processor executes *)
(* the context of current_process, every other record holds its own        *)
(* process's context, and nothing ever loads the boot process's            *)
(* uninitialised record (Scheduler_Schedule saves before it advances).     *)
(***************************************************************************)
ContextMatches ==
    /\ cpu.of = current_process
    /\ \A p \in Created \ {current_process} : regs[p].of = p
    /\ regs[Root].at = "wild" => current_process = Root
    /\ \/ vmm_current_address_space = current_process
       \/ vmm_current_address_space = KernelSpace /\ current_process = Root

\* A page fault in a task ends the task and never the machine ("At least, i
\* didn't panic!"), wherever the task was preempted before the fault.
FaultNeverPanics == cpu.at # "panic"

\* A link jumps over a process only when that process has unlinked itself.
SkipsOnlyExited ==
    \A x \in Created :
        /\ next[x] \in Created
        /\ next[x] < Top(x)
        /\ \A z \in Live : ~(next[x] < z /\ z < Top(x))

(***************************************************************************)
(* The locals of a process inside Scheduler_ExitProcess are safe to use    *)
(* even when other exits changed the ring since they were loaded: a        *)
(* pending store drops nobody alive but proc.  (The search itself may step *)
(* past proc when the ring changes between its two loads of prev->next; it *)
(* then goes round once more.)                                             *)
(***************************************************************************)
SafeLocals(c, p) ==
    /\ c.proc = p
    /\ c.prev \in Created
    /\ c.at \in {"load", "store"} =>
           /\ p < Top(c.prev)
           /\ \A z \in Live : ~(p < z /\ z < Top(c.prev))
    /\ c.at = "store" =>
           /\ c.nxt \in Created
           /\ c.nxt < p
           /\ \A z \in Live : ~(c.nxt < z /\ z < p)

ExitersSafe ==
    \A p \in Created :
        Context(p).at \in Unlinking => SafeLocals(Context(p), p)

\* Who can be where: only created tasks that may exit reach the exit path,
\* and the boot label is that of the boot process before sti.
PlacesOK ==
    /\ cpu.at = "boot" => /\ current_process = Root
                          /\ cpu.irq = FALSE
                          /\ \A p \in Procs : regs[p] = StartContext(p)
    /\ cpu.at # "boot" => pid_counter = NumProcs
    /\ current_process \in Created
    /\ \A p \in Created \ {current_process} : regs[p].at \notin {"boot", "panic"}
    /\ \A p \in Procs : Context(p).at \in Unlinking \cup AfterStore => p \in Mortal
    /\ Context(Root).at \in {"boot", "run"}

(***************************************************************************)
(* Nobody runs on freed memory: a process that is still on the ring's side *)
(* of its unlinking store owns its ProcessT and its stack, whoever else is *)
(* freeing blocks.                                                         *)
(***************************************************************************)
LiveHoldsMemory ==
    /\ Root \in procs
    /\ Live \subseteq procs
    /\ Live \subseteq stacks

\* A process on the exit path works on itself.
ExitsItself ==
    \A p \in Procs :
        Context(p).at \in Unlinking \cup AfterStore => Context(p).proc = p

\* The inductive invariant behind the properties that hold for any Mortal.
IInv ==
    /\ TypeOK
    /\ ContextMatches
    /\ FaultNeverPanics
    /\ PlacesOK
    /\ SkipsOnlyExited
    /\ ExitersSafe

(***************************************************************************)
(* However the exits of several processes interleave, none of them takes a *)
(* process that is still running out of the ring: every live process can   *)
(* still be reached by the scheduler (lost update between the loads and    *)
(* the store of Scheduler_ExitProcess).                                    *)
(***************************************************************************)
LiveInRing == \A p \in Live : OnRing(p)

(***************************************************************************)
(* The search for the predecessor ends, also when the ring changes under   *)
(* it: a process that starts to exit reaches its unlinking store, unless   *)
(* another process has run off the end of its code in the meantime.        *)
(***************************************************************************)
SearchTerminates ==
    \A p \in Mortal :
        Context(p).at \in Unlinking ~> (p \in Exited \/ cpu.at = "wild")

-----------------------------------------------------------------------------
(***************************************************************************)
(* No two neighbours of the ring exit on their own.  The kernel as built   *)
(* is such a system (Task1 is between the boot process and "idle").        *)
(***************************************************************************)
Isolated == \A p \in Mortal : p + 1 \notin Mortal

\* the process created just before x (the next one in the ring at boot)
Below(x) == IF x = Root THEN pid_counter - 1 ELSE x - 1

\* Under Isolated the ring is known exactly, link by link.
RingExact ==
    \A x \in Created :
        next[x] = IF Below(x) \in Exited THEN Below(x) - 1 ELSE Below(x)

\* Under Isolated an exiting process holds its only predecessor.
ExitersExact ==
    \A p \in Mortal : Context(p).at \in {"load", "store"} =>
        LET c == Context(p) IN
        /\ Below(c.prev) = p
        /\ c.at = "store" => c.nxt = p - 1

\* A process that has unlinked itself and lost the processor never gets it
\* back, so the code after its last int $32 is never reached.
NoResume == cpu.at \notin {"resume", "wild"}

\* The inductive invariant behind the properties of isolated exits.
IsolatedInv == IInv /\ RingExact /\ ExitersExact /\ NoResume

\* The ring is the boot process and the live processes: it holds no freed
\* ProcessT and misses nobody.
RingIsLive ==
    \A x \in Created : OnRing(x) <=> (x = Root \/ x \in Live)

\* The scheduler never switches to a process that has unlinked itself, nor to
\* one whose ProcessT was given back to the heap.
SwitchesToLive ==
    [][current_process' # current_process =>
           current_process' \in Live \cup {Root}
           /\ current_process' \in procs]_vars

\* Round robin: what the scheduler promises, and its refinement
RR == INSTANCE RoundRobin WITH live <- Live, current <- current_process

\* With isolated exits the ring implements round robin over the live processes
\* in descending pid order, and only the running process can leave.
ImplementsRoundRobin == RR!Spec

\* Every process that does not exit gets the processor again and again.
NeverStarved ==
    \A p \in Nodes \ Mortal : []<>(current_process = p)

\* A task that dies of a page fault gives back its stack and runs through to
\* its last int $32: the handler keeps interrupts disabled all the way.
FaultFreesMemory ==
    \A p \in Mortal :
        (Context(p).at = "search" /\ ~Context(p).irq)
            ~> (p \notin stacks /\ Context(p).at = "resume")

(***************************************************************************)
(* Scheduler_Entry: "most of programs are exiting by returning. This       *)
(* handles the situation": a task that returns gives back its stack.  The  *)
(* code breaks this when the timer fires between the unlinking store and   *)
(* the first KHeap_Free.                                                   *)
(***************************************************************************)
ReturnFreesMemory ==
    \A p \in Mortal : Context(p).at = "search" ~> p \notin stacks
=============================================================================
