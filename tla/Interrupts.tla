----------------------------- MODULE Interrupts -----------------------------
(***************************************************************************)
(* From a device's request to the handler that answers it: the two 8259    *)
(* controllers as Idt_PicRemap programs them, general_interrupt_handler of *)
(* arch/x86_64/idt.c with its log line, the timer and the system call      *)
(* handlers, and the processes that sleep until a tick (pit.c).            *)
(*                                                                         *)
(* The model starts at the sti of SKEntry.  Interrupt gates clear IF, so   *)
(* that only an exception of the handler itself can nest.  Processes take  *)
(* turns as RoundRobin says, which Sched shows of the scheduler, until     *)
(* they fault or return; one that returns runs on, with interrupts, from   *)
(* the end of Scheduler_ExitProcess to its int $32.                        *)
(***************************************************************************)
EXTENDS Integers, FiniteSets, SequencesExt

CONSTANTS
    Procs,          \* the processes, numbered from 0; Boot is -1
    Lines,          \* the interrupt request lines that devices use
    Exceptions,     \* the exceptions that processes cause
    SerialReady,    \* debugger_ready: Dbg_Initialize found a serial port
    TickMod,        \* the width of tick (2^32)
    Sleepers,       \* the processes that sleep
    Durations,      \* for how many ticks they sleep
    MaxNest         \* bound: how many handlers nest, before we stop

Boot == -1
Awake == [asleep |-> FALSE]
Timer == 0
None == -1

ASSUME InterruptsAssumption ==
    /\ Procs \subseteq Nat /\ \E n \in Procs : Procs \subseteq 0 .. n    \* finitely many
    /\ Sleepers \subseteq Procs
    /\ Timer \in Lines /\ Lines \subseteq 0 .. 15
    /\ Exceptions \subseteq (0 .. 31) \ {15}   \* 15 is reserved, and has no gate
    /\ SerialReady \in BOOLEAN
    /\ TickMod \in Nat \ {0} /\ Durations \subseteq 1 .. TickMod - 1
    /\ MaxNest \in Nat \ {0}

VARIABLES
    irr,        \* the requests the controllers have not passed on yet
    inService,  \* the requests they wait for an EOI of
    frames,     \* the handlers that run: vector, line, and are they past Log
    stopped,    \* the panic screen, a reset, or behaviour C does not define
    live,       \* the processes that take turns
    current,    \* current_process; one that is not live is about to int $32
    switched,   \* a first tick has left the kernel's own address space
    tick,
    sleep       \* eticks of a sleeping process, how many periods of the timer
                \* it is still to sleep, whether eticks wrapped, and the
                \* processes that were live when it went to sleep

vars == <<irr, inService, frames, stopped, live, current, switched, tick, sleep>>

-----------------------------------------------------------------------------
\* Idt_PicRemap: the first controller's base is 0x20, the second one's is 8
Vector(l) == IF l < 8 THEN 32 + l ELSE 8 + (l - 8)

\* the vectors that Idt_Initialize gives a gate
Gates == (0 .. 14) \cup (16 .. 48) \cup {128}

\* isrh, as Syscall_Initialize and Pit_Initialize leave it
isrh == [v \in {32, 128} |-> IF v = 32 THEN "Pit_Handler" ELSE "Syscall_Handler"]

Init ==
    /\ irr = {} /\ inService = {} /\ frames = <<>> /\ stopped = FALSE
    /\ live = Procs \cup {Boot} /\ current = Boot /\ switched = FALSE
    /\ tick = 0
    /\ sleep = [p \in Procs |-> Awake]

\* interrupts are enabled: the current process runs its own code
Running == frames = <<>> /\ ~stopped

Frame(vector, line) == [vector |-> vector, line |-> line, logged |-> FALSE]

\* a device asks for attention; every line is unmasked (idt.c:161-162)
Request(l) ==
    /\ ~stopped /\ l \notin irr
    /\ irr' = irr \cup {l}
    /\ UNCHANGED <<inService, frames, stopped, live, current, switched, tick, sleep>>

\* where a line enters the first controller
Input(l) == IF l < 8 THEN l ELSE 2

\* not held back by a request in service, of either controller
Passes(l) ==
    /\ \A m \in inService : m < 8 => Input(l) < m
    /\ \A m \in inService : m >= 8 /\ l >= 8 => l < m

\* The controllers pass on the most urgent request.  A vector without a gate
\* (15) becomes a general protection fault.
Interrupt(l) ==
    /\ Running /\ l \in irr /\ Passes(l)
    /\ \A m \in irr : Passes(m) => Input(l) < Input(m) \/ (Input(l) = Input(m) /\ l =< m)
    /\ irr' = irr \ {l}
    /\ inService' = inService \cup {l, Input(l)}
    /\ frames' = <<Frame(IF Vector(l) \in Gates THEN Vector(l) ELSE 13, l)>>
    /\ UNCHANGED <<stopped, live, current, switched, tick, sleep>>

\* the current process runs code of its own
Acts == Running /\ current \in live \ {Boot} /\ ~sleep[current].asleep

\* it faults, or makes a system call
Trap(vector) ==
    /\ Acts
    /\ frames' = <<Frame(vector, None)>>
    /\ UNCHANGED <<irr, inService, stopped, live, current, switched, tick, sleep>>

\* Scheduler_Entry after entry() has returned: Scheduler_ExitProcess takes the
\* process off the ring, but it runs on
Scheduler_Entry ==
    /\ Acts
    /\ live' = live \ {current}
    /\ UNCHANGED <<irr, inService, frames, stopped, current, switched, tick, sleep>>

\* its int $32, unless the timer comes first
Scheduler_Entry_Switch ==
    /\ Running /\ current \notin live
    /\ frames' = <<Frame(32, None)>>
    /\ UNCHANGED <<irr, inService, stopped, live, current, switched, tick, sleep>>

-----------------------------------------------------------------------------
\* Idt_EndOfInterrupt: an EOI to each controller ends its most urgent request
Idt_EndOfInterrupt(served) ==
    served \ ({l \in served : l < 8 /\ \A m \in served : m < 8 => l =< m} \cup
              {l \in served : l >= 8 /\ \A m \in served : m >= 8 => l =< m})

\* the process that takes its turn after p
After(p, alive) ==
    LET below == {q \in alive : q < p \/ p = Boot}
        among == IF below \ {p} # {} THEN below \ {p} ELSE alive
    IN  CHOOSE q \in among : \A r \in among : r =< q

\* mutant: the counter is wider
TickWide == tick + 1

\* tick++ on 32 bits
Tick == (tick + 1) % TickMod

\* Pit_Handler and then the EOI.  Every vector 32 is a tick, but only those of
\* the timer's line are a period that a sleeper has slept.
Pit_Handler(alive, line) ==
    /\ tick' = Tick
    /\ current' = After(current, alive)
    /\ switched' = TRUE
    /\ sleep' = [p \in Procs |-> IF sleep[p].asleep /\ sleep[p].owed > 0 /\ line = Timer
                                   THEN [sleep[p] EXCEPT !.owed = @ - 1] ELSE sleep[p]]
    /\ inService' = Idt_EndOfInterrupt(inService)

Top == Last(frames)

(***************************************************************************)
(* The log line of every interrupt but 32.  Its colour on the serial line  *)
(* is lineColors[LT_DEBUG], which is NULL, since two of the strings of the *)
(* array are joined.  A process's space maps nothing at address 0: the     *)
(* handler faults itself.                                                  *)
(***************************************************************************)
Handler_Log ==
    /\ ~stopped /\ frames # <<>> /\ ~Top.logged
    /\ IF Top.vector # 32 /\ SerialReady /\ switched
         THEN IF Len(frames) < MaxNest
                THEN frames' = Append(frames, Frame(14, None)) /\ UNCHANGED stopped
                ELSE stopped' = TRUE /\ UNCHANGED frames
         ELSE frames' = [frames EXCEPT ![Len(frames)].logged = TRUE] /\ UNCHANGED stopped
    /\ UNCHANGED <<irr, inService, live, current, switched, tick, sleep>>

Handling == ~stopped /\ frames # <<>> /\ Top.logged

\* mutant: no process is switched to, and the handler returns
SegmentationFaultReturns ==
    /\ Handling /\ Top.vector = 14 /\ switched
    /\ current \in live \ {Boot}
    /\ live' = live \ {current}
    /\ frames' = <<>>
    /\ UNCHANGED <<irr, inService, stopped, current, switched, tick, sleep>>

\* Vector 14 in a process's own space: it exits, and int $32 switches to the
\* next one, which abandons this handler, and one below it.
SegmentationFault ==
    /\ Handling /\ Top.vector = 14 /\ switched
    /\ current \in live \ {Boot}
    /\ live' = live \ {current}
    /\ Pit_Handler(live', None)
    /\ frames' = <<>>
    /\ UNCHANGED <<irr, stopped>>

\* The boot process has no stack of its own to free; one that is off the ring
\* already is looked for without end.  Nothing is said of what follows.
SegmentationFault_Undefined ==
    /\ Handling /\ Top.vector = 14 /\ switched
    /\ current \notin live \ {Boot}
    /\ stopped' = TRUE
    /\ UNCHANGED <<irr, inService, frames, live, current, switched, tick, sleep>>

Panic ==
    /\ Handling /\ Top.vector < 32 /\ ~(Top.vector = 14 /\ switched)
    /\ stopped' = TRUE
    /\ UNCHANGED <<irr, inService, frames, live, current, switched, tick, sleep>>

HandleTimer ==
    /\ Handling /\ Top.vector = 32
    /\ Pit_Handler(live, Top.line)
    /\ frames' = Front(frames)
    /\ UNCHANGED <<irr, stopped, live>>

\* a handler has returned, and the EOI follows
Returns ==
    /\ inService' = Idt_EndOfInterrupt(inService)
    /\ frames' = Front(frames)
    /\ UNCHANGED stopped

\* rax is an index that is not checked.  What is found there is NULL and the
\* call refused, or it is Syscall_Print; the table's end or the string may lead
\* to where nothing is mapped; and past the end anything may be called.
Syscall_Handler ==
    /\ Handling /\ Top.vector = 128
    /\ \/ Returns
       \/ /\ Len(frames) < MaxNest
          /\ frames' = Append(frames, Frame(14, None))
          /\ UNCHANGED <<inService, stopped>>
       \/ stopped' = TRUE /\ UNCHANGED <<inService, frames>>
    /\ UNCHANGED <<irr, live, current, switched, tick, sleep>>

\* every other vector has no handler
HandleOther ==
    /\ Handling /\ Top.vector \in Gates \ (0 .. 32 \cup {128})
    /\ Returns
    /\ UNCHANGED <<irr, live, current, switched, tick, sleep>>

-----------------------------------------------------------------------------
\* Sleep, SleepMs and SleepUs, once the argument is a number of ticks
Sleep(n) ==
    /\ Acts /\ current \in Sleepers
    /\ sleep' = [sleep EXCEPT ![current] =
                    [asleep |-> TRUE, eticks |-> (tick + n) % TickMod, owed |-> n,
                     wraps |-> tick + n >= TickMod, with |-> live]]
    /\ UNCHANGED <<irr, inService, frames, stopped, live, current, switched, tick>>

\* mutants of the loop's test: it goes on at eticks; it ends before
PastExclusive(p) == tick > sleep[p].eticks
PastEarly(p) == tick + 1 >= sleep[p].eticks

\* while (tick < eticks) hlt
Past(p) == tick >= sleep[p].eticks

\* the current process looks at the counter again, and leaves the loop
Wake(p) ==
    /\ Running /\ p = current /\ sleep[p].asleep /\ Past(p)
    /\ sleep' = [sleep EXCEPT ![p] = Awake]
    /\ UNCHANGED <<irr, inService, frames, stopped, live, current, switched, tick>>

Next ==
    \/ \E l \in Lines : Request(l)
    \/ \E l \in Lines : Interrupt(l)
    \/ \E v \in Exceptions \cup {128} : Trap(v)
    \/ Scheduler_Entry
    \/ Scheduler_Entry_Switch
    \/ Handler_Log
    \/ SegmentationFault
    \/ SegmentationFault_Undefined
    \/ Panic
    \/ HandleTimer
    \/ Syscall_Handler
    \/ HandleOther
    \/ \E n \in Durations : Sleep(n)
    \/ \E p \in Sleepers : Wake(p)

(***************************************************************************)
(* The timer never stops asking and handlers go on to their end; a sleeper *)
(* that has the processor again and again while the time is past sees it.  *)
(***************************************************************************)
Fairness ==
    /\ WF_vars(Request(Timer))
    /\ SF_vars(Interrupt(Timer))
    /\ WF_vars(Handler_Log)
    /\ WF_vars(\/ SegmentationFault \/ SegmentationFault_Undefined \/ Panic
               \/ HandleTimer \/ Syscall_Handler \/ HandleOther)
    /\ \A p \in Sleepers : SF_vars(Wake(p))

Spec == Init /\ [][Next]_vars /\ Fairness

-----------------------------------------------------------------------------
(***************************************************************************)
(* The types; a request is in service at both controllers or at none; the  *)
(* boot process always takes turns (idt.c:64-82, pit.c:7).                 *)
(***************************************************************************)
TypeOK ==
    /\ irr \subseteq Lines
    /\ inService \subseteq Lines \cup {2}
    /\ Len(frames) =< MaxNest
    /\ \A i \in DOMAIN frames : frames[i].vector \in Gates
    /\ live \subseteq Procs \cup {Boot} /\ Boot \in live
    /\ current \in Procs \cup {Boot}
    /\ tick \in 0 .. TickMod - 1
    /\ stopped \in BOOLEAN /\ switched \in BOOLEAN

(***************************************************************************)
(* While no handler runs, no request is in service: whatever way a handler *)
(* ends, also the one that a segmentation fault abandons, both controllers *)
(* have had their EOI, and no line is held back for good (idt.c:84-88,     *)
(* 236, 259-263).                                                          *)
(***************************************************************************)
NothingHeldBack == Running => inService = {}

(***************************************************************************)
(* Sleep(n) (pit.c:26-33) may last less than n periods of the timer, since *)
(* each process that leaves meanwhile ticks with its int $32 (idt.c:236,   *)
(* sched.c:42), but by one period for each at the most, whoever runs and   *)
(* whatever interrupts in between, if the counter can hold its last tick.  *)
(***************************************************************************)
SleepLosesOnlyExits ==
    [][\A p \in Sleepers :
          sleep[p].asleep /\ ~sleep'[p].asleep =>
             sleep[p].wraps \/ sleep[p].owed =< Cardinality(sleep[p].with \ live)]_sleep

(***************************************************************************)
(* A sleep ends, if every process gets a turn between its last tick and    *)
(* the wrap of the counter (pit.c:28-33).  Nearer to the wrap the sleeper  *)
(* may miss the ticks in which the test is false, turn after turn.         *)
(***************************************************************************)
SleepEnds ==
    \A p \in Sleepers :
        sleep[p].asleep /\ sleep[p].eticks + Cardinality(live \cup {current}) =< TickMod
            ~> ~sleep[p].asleep \/ p \notin live \/ stopped
=============================================================================
