---------------------------- MODULE KHeapShared ----------------------------
(***************************************************************************)
(* KHeap_Free of memory/heap.c as the exit path of a process calls it      *)
(* (Scheduler_ExitProcess, sched.c:70-83), one access to the ring of       *)
(* blocks at a time: with interrupts enabled and without a lock if the     *)
(* process returns, with interrupts disabled if it faults.  A process that *)
(* has left the ring of processes never gets the processor back, unless a  *)
(* stale link leads to it (Sched, run sched_resumed): Resumed says which.  *)
(*                                                                         *)
(* A stack of 4096 bytes starts behind two headers in its page.  Its top   *)
(* lies on those of the page above, mostly the record of the same process, *)
(* which was taken just before.  Scheduler_Entry keeps its argument there, *)
(* in next, and once the process returns its result, in magic; before it   *)
(* has a frame of its own, an interrupt's lies on prev, state and magic    *)
(* too.  Sizes are left out.                                               *)
(***************************************************************************)
EXTENDS Integers, FiniteSets, Sequences

CONSTANTS
    Procs,      \* the processes 1 .. n, in the order of their creation
    Exiting,    \* those that exit
    Resumed     \* whether a stale link may resume an exited process

ASSUME KHeapSharedAssumption ==
    /\ IsFiniteSet(Procs) /\ Procs = 1 .. Cardinality(Procs) /\ Exiting \subseteq Procs
    /\ Resumed \in BOOLEAN

\* block_head, the record of the boot process, and a record and a stack of each
BlockHead == 0
Record(p) == 2 * p
Stack(p) == 2 * p + 1
Blocks == 0 .. 2 * Cardinality(Procs) + 1

\* what a frame has written where a link to a block should be
NoBlock == -1

\* what an interrupt pushes first: ss, and with it zeroes
KernelData == 16

VARIABLES
    heap,   \* the fields next, prev and state of every block, and whether its
            \* magic is HEAP_MAGIC
    below,  \* the processes whose stack lies just below their record
    pc,     \* where a process is: the index of an access in Free; before
            \* the first one it is New, or Runs its entry point
    block, x, y,    \* the argument of KHeap_Free, and the pointers loaded
    cpu, irq        \* the process that runs, and whether it can be preempted

vars == <<heap, below, pc, block, x, y, cpu, irq>>

-----------------------------------------------------------------------------
Clear == [op |-> "clear"]
NotHead(f, else) == [op |-> "not_head", field |-> f, else |-> else]
IsFree(else) == [op |-> "is_free", else |-> else]
Load(r, base, f) == [op |-> "load", reg |-> r, base |-> base, field |-> f]
Store(base, f, r) == [op |-> "store", base |-> base, field |-> f, reg |-> r]

\* mutant: the state of the block behind is not looked at
FreeMergesAlways == <<
    Clear,
    NotHead("next", 10), Load("x", "block", "next"), NotHead("next", 10),
    Load("x", "block", "next"), Load("x", "x", "next"), Store("block", "next", "x"),
    Load("x", "block", "next"), Store("x", "prev", "block"),
    NotHead("prev", 19), Load("x", "block", "prev"), IsFree(19),
    Load("x", "block", "prev"), Load("y", "block", "next"), Store("x", "next", "y"),
    Load("x", "block", "next"), Load("y", "block", "prev"), Store("x", "prev", "y") >>

\* KHeap_Free from line 58 on, in the order of the unoptimised build
Free == <<
    Clear,
    NotHead("next", 10), Load("x", "block", "next"), IsFree(10),
    Load("x", "block", "next"), Load("x", "x", "next"), Store("block", "next", "x"),
    Load("x", "block", "next"), Store("x", "prev", "block"),
    NotHead("prev", 19), Load("x", "block", "prev"), IsFree(19),
    Load("x", "block", "prev"), Load("y", "block", "next"), Store("x", "next", "y"),
    Load("x", "block", "next"), Load("y", "block", "prev"), Store("x", "prev", "y") >>

New == -1
Runs == 0
Returned == Len(Free) + 1

\* the ring as Scheduler_Initialize and Scheduler_CreateProcess leave it
Init ==
    /\ LET n == Cardinality(Blocks) IN
       heap = [next  |-> [b \in Blocks |-> (b + 1) % n],
               prev  |-> [b \in Blocks |-> (b + n - 1) % n],
               state |-> [b \in Blocks |-> 1],
               magic |-> [b \in Blocks |-> TRUE]]
    /\ below \in SUBSET Procs
    /\ pc = [p \in Procs |-> New]
    /\ block = [p \in Procs |-> Stack(p)]
    /\ x = [p \in Procs |-> BlockHead] /\ y = [p \in Procs |-> BlockHead]
    /\ cpu \in Procs /\ irq = TRUE

Value(p, r) == CASE r = "block" -> block[p] [] r = "x" -> x[p] [] r = "y" -> y[p]

Goto(p, i) == pc' = [pc EXCEPT ![p] = i]

\* the header of a block under the frame of an interrupt: ss is on state and
\* magic, rsp on prev, the flags are on next
Overwritten(h, b) ==
    [next  |-> [h.next EXCEPT ![b] = NoBlock],
     prev  |-> [h.prev EXCEPT ![b] = NoBlock],
     state |-> [h.state EXCEPT ![b] = KernelData],
     magic |-> [h.magic EXCEPT ![b] = FALSE]]

\* an interrupt finds p before Scheduler_Entry has made room on its stack:
\* its frame is aligned to 16 bytes, and starts 8 bytes below the top
general_interrupt_handler(p) ==
    /\ p = cpu /\ irq /\ pc[p] = New /\ p \in below
    /\ heap' = Overwritten(heap, Record(p))
    /\ UNCHANGED <<below, pc, block, x, y, cpu, irq>>

\* the prologue of Scheduler_Entry stores its argument
Scheduler_Entry(p) ==
    /\ p = cpu /\ pc[p] = New
    /\ heap' = IF p \in below THEN [heap EXCEPT !.next[Record(p)] = NoBlock] ELSE heap
    /\ Goto(p, Runs)
    /\ UNCHANGED <<below, block, x, y, cpu, irq>>

\* The entry point returns, and its result is stored, or a page fault ends it.
\* The search in the ring of processes is left to Sched.
Scheduler_ExitProcess(p, fault) ==
    /\ p = cpu /\ pc[p] = Runs /\ p \in Exiting
    /\ heap' = IF p \in below /\ ~fault THEN [heap EXCEPT !.magic[Record(p)] = FALSE] ELSE heap
    /\ irq' = ~fault
    /\ Goto(p, 1)
    /\ UNCHANGED <<below, block, x, y, cpu>>

\* The access at which the current process is.  Nothing is said of what one
\* through no link to a block reads and writes.
Access(p, op) ==
    /\ p = cpu /\ pc[p] \in DOMAIN Free /\ Free[pc[p]].op = op
    /\ {x[p], y[p]} \subseteq Blocks

DoClear(p) ==
    /\ Access(p, "clear")
    /\ heap' = [heap EXCEPT !.state[block[p]] = 0]
    /\ Goto(p, pc[p] + 1)
    /\ UNCHANGED <<below, block, x, y, cpu, irq>>

DoNotHead(p) ==
    /\ Access(p, "not_head")
    /\ LET i == Free[pc[p]] IN
       Goto(p, IF heap[i.field][block[p]] # BlockHead THEN pc[p] + 1 ELSE i.else)
    /\ UNCHANGED <<heap, below, block, x, y, cpu, irq>>

DoIsFree(p) ==
    /\ Access(p, "is_free")
    /\ Goto(p, IF heap.state[x[p]] = 0 THEN pc[p] + 1 ELSE Free[pc[p]].else)
    /\ UNCHANGED <<heap, below, block, x, y, cpu, irq>>

DoLoad(p) ==
    /\ Access(p, "load")
    /\ LET i == Free[pc[p]]
           v == heap[i.field][Value(p, i.base)]
       IN  IF i.reg = "x" THEN x' = [x EXCEPT ![p] = v] /\ UNCHANGED y
                          ELSE y' = [y EXCEPT ![p] = v] /\ UNCHANGED x
    /\ Goto(p, pc[p] + 1)
    /\ UNCHANGED <<heap, below, block, cpu, irq>>

DoStore(p) ==
    /\ Access(p, "store")
    /\ LET i == Free[pc[p]] IN
       heap' = [heap EXCEPT ![i.field][Value(p, i.base)] = Value(p, i.reg)]
    /\ Goto(p, pc[p] + 1)
    /\ UNCHANGED <<below, block, x, y, cpu, irq>>

\* KHeap_Free(proc) follows, and returns at once if magic was overwritten: by
\* the result, or by an interrupt at the start
FreeRecord(p) ==
    /\ p = cpu /\ pc[p] = Returned /\ block[p] = Stack(p)
    /\ block' = [block EXCEPT ![p] = Record(p)]
    /\ Goto(p, IF heap.magic[Record(p)] THEN 1 ELSE Returned)
    /\ UNCHANGED <<heap, below, x, y, cpu, irq>>

Exited(p) == pc[p] = Returned /\ block[p] = Record(p)

\* the timer, or int $32, which a faulting process reaches uninterrupted; what
\* it pushes on a new process is general_interrupt_handler's
Scheduler_Schedule(p) ==
    /\ p # cpu /\ (irq \/ Exited(cpu))
    /\ pc[p] \in {New, Runs} \/ Resumed
    /\ cpu' = p /\ irq' = TRUE
    /\ UNCHANGED <<heap, below, pc, block, x, y>>

Next ==
    \E p \in Procs :
        \/ general_interrupt_handler(p)
        \/ Scheduler_Entry(p)
        \/ \E fault \in BOOLEAN : Scheduler_ExitProcess(p, fault)
        \/ DoClear(p)
        \/ DoNotHead(p)
        \/ DoIsFree(p)
        \/ DoLoad(p)
        \/ DoStore(p)
        \/ FreeRecord(p)
        \/ Scheduler_Schedule(p)

Spec == Init /\ [][Next]_vars

-----------------------------------------------------------------------------
LinksAreBlocks(p) == {x[p], y[p]} \subseteq Blocks

(***************************************************************************)
(* The links that KHeap_Free follows, of a block whose magic it has tested *)
(* (heap.c:56), lead to blocks.                                            *)
(***************************************************************************)
LoadsAreBlocks == \A p \in Procs : LinksAreBlocks(p)

(***************************************************************************)
(* There is one way only to a link that a frame has written over, although *)
(* such records are on the ring and their neighbours are freed: a process  *)
(* that a page fault ended, and no interrupt hit at its start, frees its   *)
(* own record (sched.c:82).  Whoever returns, or frees a block next to     *)
(* such a record, preempted anywhere, never follows one (heap.c:56-69).    *)
(***************************************************************************)
SpoiltLinkOnlyOnFault ==
    \A p \in Procs :
        \/ LinksAreBlocks(p)
        \/ p = cpu /\ ~irq /\ p \in below /\ block[p] = Record(p) /\ heap.magic[Record(p)]

\* where n steps along a field lead from the head
Walk(field) ==
    LET at[n \in Blocks] == IF n = 0 THEN BlockHead ELSE heap[field][at[n - 1]]
    IN  at

\* a walk from the head meets every block in use, and the head again
Covered(field) ==
    LET met == {Walk(field)[n] : n \in Blocks} IN
    /\ \E b \in met : heap[field][b] = BlockHead
    /\ \A b \in Blocks : heap.state[b] # 0 => b \in met

Intact(field) == \A b \in Blocks : heap[field][b] \in Blocks

(***************************************************************************)
(* Wherever frees were abandoned half way, the search of KHeap_Allocate    *)
(* along next meets every block in use and ends at the head, and so does   *)
(* the way back along prev, as long as no frame has written over a link of *)
(* that direction (heap.c:30-36, 58-70).                                   *)
(***************************************************************************)
InUseCovered == \A field \in {"next", "prev"} : Intact(field) => Covered(field)
=============================================================================
