---------------------------- MODULE SchedProofs ----------------------------
(***************************************************************************)
(* Proofs about Sched, for every number of processes and every choice of   *)
(* the processes that exit.                                                *)
(***************************************************************************)
EXTENDS Sched, TLAPS, WellFoundedInduction

-----------------------------------------------------------------------------
(***************************************************************************)
(* Contexts                                                                *)
(***************************************************************************)

\* The starting contexts, and a context with one field replaced, are contexts.
LEMMA ContextTypes ==
    /\ \A p \in Nodes : StartContext(p) \in Contexts
    /\ BootContext \in Contexts
    /\ GarbageContext \in Contexts
<1>1. Root \in Nodes
  BY SchedAssumption DEF Root, Nodes
<1>2. ASSUME NEW p \in Nodes PROVE StartContext(p) \in Contexts
  BY <1>1 DEF StartContext, Contexts, Labels
<1>3. BootContext \in Contexts
  BY <1>1 DEF BootContext, StartContext, Contexts, Labels
<1>4. GarbageContext \in Contexts
  BY <1>1, <1>2 DEF GarbageContext, Contexts, Labels, AfterStore
<1> QED  BY <1>2, <1>3, <1>4

\* The created processes are nodes, and contexts are typed records.
LEMMA Typing ==
    ASSUME IInv
    PROVE  /\ Created \subseteq Nodes
           /\ Root \in Created
           /\ current_process \in Created
           /\ \A p \in Nodes : Context(p) \in Contexts
           /\ Context(current_process) = cpu
<1>1. Created \subseteq Nodes /\ Root \in Created
  BY SchedAssumption DEF IInv, TypeOK, Created, Nodes, Root
<1>2. current_process \in Created
  BY DEF IInv, PlacesOK
<1>3. \A p \in Nodes : Context(p) \in Contexts
  BY DEF IInv, TypeOK, Context
<1> QED  BY <1>1, <1>2, <1>3 DEF Context

\* Nothing but the place of one context changes: who is live depends only on
\* whether that context is past its unlinking store.
LEMMA LiveUnchanged ==
    ASSUME NEW c,
           pid_counter' = pid_counter,
           \A p \in Nodes : Context(p)' = IF p = current_process THEN c
                                                                 ELSE Context(p),
           c.at \in AfterStore <=> Context(current_process).at \in AfterStore
    PROVE  Exited' = Exited /\ Live' = Live /\ Created' = Created
<1>1. \A p \in Procs : Context(p)'.at \in AfterStore <=> Context(p).at \in AfterStore
  BY DEF Procs, Nodes
<1>2. Exited' = Exited
  BY <1>1 DEF Exited
<1> QED  BY <1>2 DEF Live, Created

\* An action that changes neither the ring nor who is live keeps the ring
\* invariants, provided the locals of the new context c are safe.
LEMMA RingUntouched ==
    ASSUME IInv, NEW c,
           next' = next,
           pid_counter' = pid_counter,
           \A p \in Nodes : Context(p)' = IF p = current_process THEN c
                                                                 ELSE Context(p),
           c.at \in AfterStore <=> cpu.at \in AfterStore,
           c.at \in Unlinking => SafeLocals(c, current_process)
    PROVE  /\ SkipsOnlyExited' /\ ExitersSafe'
           /\ Exited' = Exited /\ Live' = Live
<1>1. Exited' = Exited /\ Live' = Live /\ Created' = Created
  BY LiveUnchanged DEF Context
<1>2. SkipsOnlyExited'
  BY <1>1 DEF IInv, SkipsOnlyExited, Top
<1>3. \A d, p : SafeLocals(d, p)' <=> SafeLocals(d, p)
  BY <1>1 DEF SafeLocals, Top
<1>4. Created \subseteq Nodes
  BY Typing
<1>5. ASSUME NEW p \in Created, Context(p)'.at \in Unlinking
      PROVE  SafeLocals(Context(p)', p)
  <2>1. CASE p = current_process
    BY <2>1, <1>4, <1>5
  <2>2. CASE p # current_process
    BY <2>2, <1>4, <1>5 DEF IInv, ExitersSafe
  <2> QED  BY <2>1, <2>2
<1>6. ExitersSafe'
  BY <1>1, <1>3, <1>5 DEF ExitersSafe, SafeLocals, Top
<1> QED  BY <1>1, <1>2, <1>6

-----------------------------------------------------------------------------
(***************************************************************************)
(* The initial state and the steps                                         *)
(***************************************************************************)

LEMMA InitIInv == Init => IInv
<1> SUFFICES ASSUME Init PROVE IInv
  OBVIOUS
<1> USE SchedAssumption DEF Init
<1>1. TypeOK
  <2>1. Root \in Nodes /\ {Root} \in SUBSET Nodes
    BY DEF Root, Nodes
  <2>2. regs \in [Nodes -> Contexts]
    BY ContextTypes
  <2>3. cpu \in Contexts
    BY ContextTypes
  <2>4. 0 \in 0 .. TickMod - 1 /\ 0 \in 0 .. NumProcs
    OBVIOUS
  <2> QED  BY <2>1, <2>2, <2>3, <2>4 DEF TypeOK
<1>2. Created = {Root}
  BY DEF Created, Root
<1>3. Live = {}
  BY DEF Live, Procs
<1>4. cpu.at = "boot" /\ cpu.of = Root /\ cpu.irq = FALSE
  BY DEF BootContext, StartContext
<1>5. \A p \in Procs : p # Root /\ p \in Nodes
  BY DEF Procs, Root, Nodes
<1>6. \A p \in Procs : regs[p] = StartContext(p)
  BY <1>5
<1>7. \A p \in Procs : Context(p).at = "run"
  BY <1>5, <1>6 DEF Context, StartContext
<1>8. ContextMatches
  BY <1>2, <1>4 DEF ContextMatches
<1>9. FaultNeverPanics
  BY <1>4 DEF FaultNeverPanics
<1>10. PlacesOK
  BY <1>2, <1>4, <1>6, <1>7 DEF PlacesOK, Context, Unlinking, AfterStore
<1>11. SkipsOnlyExited
  <2>1. next[Root] = Root
    BY DEF Root, Nodes
  <2> QED  BY <1>2, <1>3, <2>1 DEF SkipsOnlyExited, Top, Root
<1>12. ExitersSafe
  BY <1>2, <1>4 DEF ExitersSafe, Context, Unlinking
<1> QED  BY <1>1, <1>8, <1>9, <1>10, <1>11, <1>12 DEF IInv

\* A step that changes only the executing context.
LEMMA LocalStep ==
    ASSUME IInv, NEW c \in Contexts,
           cpu' = c,
           UNCHANGED <<pid_counter, next, current_process, regs,
                       vmm_current_address_space>>,
           stacks' \in SUBSET Procs, procs' \in SUBSET Nodes,
           tick' = tick,
           c.of = cpu.of,
           c.at \notin {"boot", "panic"},
           cpu.at # "boot",
           c.at \in AfterStore <=> cpu.at \in AfterStore,
           c.at \in Unlinking => SafeLocals(c, current_process),
           c.at # "run" => current_process \in Mortal
    PROVE  IInv' /\ Exited' = Exited /\ Live' = Live
<1>1. \A p \in Nodes : Context(p)' = IF p = current_process THEN c ELSE Context(p)
  BY DEF Context
<1>2. SkipsOnlyExited' /\ ExitersSafe' /\ Exited' = Exited /\ Live' = Live
  BY <1>1, RingUntouched
<1>3. TypeOK'
  BY DEF IInv, TypeOK
<1>4. ContextMatches'
  BY DEF IInv, ContextMatches, Created
<1>5. FaultNeverPanics'
  BY DEF FaultNeverPanics
<1>6. Root \notin Mortal /\ Root \in Nodes /\ Procs \subseteq Nodes
  BY SchedAssumption DEF Root, Nodes, Procs
<1>7. PlacesOK'
  <2>1. \A p \in Procs : Context(p)'.at \in Unlinking \cup AfterStore => p \in Mortal
    BY <1>1, <1>6 DEF IInv, PlacesOK, Unlinking, AfterStore
  <2>2. Context(Root)'.at \in {"boot", "run"}
    BY <1>1, <1>6 DEF IInv, PlacesOK
  <2> QED  BY <2>1, <2>2 DEF IInv, PlacesOK, Created
<1> QED  BY <1>2, <1>3, <1>4, <1>5, <1>7 DEF IInv

\* The timer interrupt, or int $32: the saved context is the executing one,
\* up to a place past the unlinking store.
LEMMA HandlerStep ==
    ASSUME IInv, NEW saved \in Contexts,
           Pit_Handler(saved),
           cpu.at # "boot",
           saved.of = cpu.of,
           saved = cpu \/ (cpu.at \in AfterStore /\ saved.at \in AfterStore)
    PROVE  IInv' /\ Exited' = Exited /\ Live' = Live
<1> DEFINE to == next[current_process]
<1>1. current_process \in Nodes /\ to \in Created /\ to \in Nodes
  BY Typing DEF IInv, SkipsOnlyExited
<1>2. /\ regs' = [regs EXCEPT ![current_process] = saved]
      /\ current_process' = to
      /\ cpu' = regs'[to]
      /\ vmm_current_address_space' = to
      /\ UNCHANGED <<pid_counter, next, stacks, procs>>
      /\ tick' = (tick + 1) % TickMod
  BY DEF Pit_Handler, Scheduler_Schedule
<1>3. regs \in [Nodes -> Contexts] /\ regs' \in [Nodes -> Contexts]
  BY <1>1, <1>2 DEF IInv, TypeOK
<1>4. \A p \in Nodes : Context(p)' = IF p = current_process THEN saved ELSE Context(p)
  BY <1>1, <1>2, <1>3 DEF Context
<1>5. cpu.at \notin {"boot", "panic"} /\ saved.at \notin {"boot", "panic"}
  BY DEF IInv, FaultNeverPanics, AfterStore
<1>6. SkipsOnlyExited' /\ ExitersSafe' /\ Exited' = Exited /\ Live' = Live
  <2>1. saved.at \in AfterStore <=> cpu.at \in AfterStore
    OBVIOUS
  <2>2. saved.at \in Unlinking => SafeLocals(saved, current_process)
    BY Typing DEF IInv, ExitersSafe, Unlinking, AfterStore
  <2> QED  BY <1>2, <1>4, <2>1, <2>2, RingUntouched
<1>7. TypeOK'
  <2>1. tick' \in 0 .. TickMod - 1
    BY <1>2, SchedAssumption DEF IInv, TypeOK
  <2>2. cpu' \in Contexts
    BY <1>1, <1>2, <1>3
  <2> QED  BY <1>1, <1>2, <1>3, <2>1, <2>2 DEF IInv, TypeOK
<1>8. Created' = Created
  BY <1>2 DEF Created
<1>9. \A p \in Created : regs'[p].of = p /\ regs'[p].at \notin {"boot", "panic"}
  <2> TAKE p \in Created
  <2>1. CASE p = current_process
    BY <2>1, <1>1, <1>2, <1>3, <1>5 DEF IInv, ContextMatches
  <2>2. CASE p # current_process
    BY <2>2, <1>1, <1>2, <1>3, Typing DEF IInv, ContextMatches, PlacesOK
  <2> QED  BY <2>1, <2>2
<1>10. Root \in Nodes /\ Root \in Created /\ Procs \subseteq Nodes
  BY Typing, SchedAssumption DEF Root, Nodes, Procs
<1>11. Context(Root)'.at = "run"
  <2>1. CASE Root = current_process
    <3>1. cpu.at = "run"
      BY <2>1, <1>5, Typing DEF IInv, PlacesOK
    <3> QED  BY <2>1, <3>1, <1>4, <1>10 DEF AfterStore
  <2>2. CASE Root # current_process
    BY <2>2, <1>4, <1>10 DEF IInv, PlacesOK, Context
  <2> QED  BY <2>1, <2>2
<1>12. ContextMatches'
  <2>1. cpu'.of = current_process'
    BY <1>1, <1>2, <1>9
  <2>2. regs'[Root].at # "wild"
    BY <1>1, <1>2, <1>3, <1>10, <1>11 DEF Context
  <2> QED  BY <2>1, <2>2, <1>2, <1>8, <1>9 DEF ContextMatches
<1>13. cpu'.at \notin {"boot", "panic"}
  BY <1>1, <1>2, <1>9
<1>14. \A p \in Procs : Context(p)'.at \in Unlinking \cup AfterStore => p \in Mortal
  <2> SUFFICES ASSUME NEW p \in Procs, Context(p)'.at \in Unlinking \cup AfterStore
               PROVE  p \in Mortal
    OBVIOUS
  <2>1. Context(p).at \in Unlinking \cup AfterStore
    BY <1>4, <1>10, Typing
  <2> QED  BY <2>1 DEF IInv, PlacesOK
<1>15. PlacesOK'
  BY <1>1, <1>2, <1>5, <1>8, <1>9, <1>11, <1>13, <1>14 DEF IInv, PlacesOK
<1> QED  BY <1>6, <1>7, <1>12, <1>13, <1>15 DEF IInv, FaultNeverPanics

\* A process joins while the boot code runs with interrupts disabled.
LEMMA CreateStep ==
    ASSUME IInv, Scheduler_CreateProcess
    PROVE  IInv' /\ Exited' = Exited /\ Live' = Live \cup {pid_counter}
<1> DEFINE new == pid_counter
<1>1. /\ cpu.at = "boot" /\ new < NumProcs
      /\ next' = [next EXCEPT ![new] = next[Root], ![Root] = new]
      /\ stacks' = stacks \cup {new} /\ procs' = procs \cup {new}
      /\ pid_counter' = new + 1
      /\ UNCHANGED <<current_process, cpu, regs, vmm_current_address_space, tick>>
  BY DEF Scheduler_CreateProcess, process_list
<1>2. new \in Procs /\ new \in Nodes /\ Root \in Nodes /\ new # Root
      /\ Procs \subseteq Nodes /\ Root \notin Procs
  BY <1>1, SchedAssumption DEF IInv, TypeOK, Procs, Nodes, Root
<1>3. Created' = Created \cup {new} /\ new \notin Created
  BY <1>1, SchedAssumption DEF Created, IInv, TypeOK
<1>4. next \in [Nodes -> Nodes] /\ next[Root] \in Created /\ next[Root] < new
  BY Typing, SchedAssumption DEF IInv, TypeOK, SkipsOnlyExited, Created
<1>5. /\ next' \in [Nodes -> Nodes]
      /\ next'[new] = next[Root] /\ next'[Root] = new
      /\ \A x \in Created : x # Root => next'[x] = next[x]
  BY <1>1, <1>2, <1>3, <1>4, Typing
<1>6. current_process = Root /\ \A p \in Procs : regs[p] = StartContext(p)
  BY <1>1 DEF IInv, PlacesOK
<1>7. \A p \in Nodes : Context(p)' = Context(p)
  BY <1>1 DEF Context
<1>8. \A p \in Procs : regs[p].at = "run" /\ regs[p].of = p
  <2> TAKE p \in Procs
  <2>1. StartContext(p).at = "run" /\ StartContext(p).of = p
    BY DEF StartContext
  <2> QED  BY <2>1, <1>6
<1>9. \A p \in Procs : Context(p) = regs[p]
  BY <1>2, <1>6 DEF Context
<1>10. Context(new).at = "run"
  BY <1>2, <1>8, <1>9
<1>11. \A x \in Created : x \in Int /\ next[x] \in Int /\ (x # Root => x < new)
  BY DEF Created, IInv, TypeOK, SkipsOnlyExited
<1>12. new \in Nat /\ NumProcs \in Nat
  BY SchedAssumption DEF IInv, TypeOK
<1>13. Exited' = Exited
  BY <1>2, <1>7 DEF Exited
<1>14. Live' = Live \cup {new}
  BY <1>1, <1>2, <1>10, <1>13 DEF Live, Exited, AfterStore, IInv, TypeOK, Procs
<1>15. SkipsOnlyExited'
  <2> SUFFICES ASSUME NEW x \in Created'
               PROVE  /\ next'[x] \in Created'
                      /\ next'[x] < Top(x)
                      /\ \A z \in Live' : ~(next'[x] < z /\ z < Top(x))
    BY DEF SkipsOnlyExited, Top
  <2>1. \A z \in Live : z \in Nat /\ z < new
    BY DEF Live, Procs
  <2>2. CASE x = Root
    BY <2>2, <2>1, <1>1, <1>3, <1>5, <1>14, <1>12 DEF Top
  <2>3. CASE x = new
    <3>1. next'[x] \in Created' /\ next'[x] < Top(x)
      BY <2>3, <1>2, <1>3, <1>4, <1>5 DEF Top
    <3>2. \A z \in Live : ~(next[Root] < z /\ z < Top(Root))
      BY Typing DEF IInv, SkipsOnlyExited
    <3>3. ASSUME NEW z \in Live' PROVE ~(next'[x] < z /\ z < Top(x))
      BY <2>1, <2>3, <3>2, <1>1, <1>2, <1>5, <1>14, <1>12 DEF Top
    <3> QED  BY <3>1, <3>3
  <2>4. CASE x # Root /\ x # new
    <3>1. x \in Created /\ x \in Int /\ x < new /\ next[x] \in Int
      BY <2>4, <1>3, <1>11
    <3>2. next[x] \in Created /\ next[x] < Top(x)
          /\ \A z \in Live : ~(next[x] < z /\ z < Top(x))
      BY <3>1 DEF IInv, SkipsOnlyExited
    <3>3. ASSUME NEW z \in Live' PROVE ~(next'[x] < z /\ z < Top(x))
      BY <2>1, <2>4, <3>1, <3>2, <1>5, <1>14, <1>12 DEF Top
    <3> QED  BY <2>4, <3>1, <3>2, <3>3, <1>3, <1>5 DEF Top
  <2> QED  BY <2>2, <2>3, <2>4
<1>16. \A p \in Procs : Context(p).at \notin Unlinking
  BY <1>8, <1>9 DEF Unlinking
<1>17. Context(Root).at \notin Unlinking
  BY <1>1, <1>6 DEF Context, Unlinking
<1>18. ExitersSafe'
  <2>1. \A p \in Created' : p \in Procs \/ p = Root
    BY <1>2, <1>3, Typing DEF Nodes, Procs, Root
  <2> QED  BY <2>1, <1>7, <1>16, <1>17, <1>2 DEF ExitersSafe
<1>19. TypeOK'
  BY <1>1, <1>2, <1>5, SchedAssumption DEF IInv, TypeOK
<1>20. ContextMatches'
  BY <1>1, <1>2, <1>3, <1>6, <1>8 DEF IInv, ContextMatches
<1>21. FaultNeverPanics'
  BY <1>1 DEF FaultNeverPanics
<1>22. PlacesOK'
  <2>1. current_process' \in Created'
    BY <1>1, <1>3, Typing
  <2>2. \A p \in Created' \ {current_process'} : regs'[p].at \notin {"boot", "panic"}
    BY <1>1, <1>2, <1>3, <1>6, <1>8 DEF IInv, PlacesOK
  <2>3. \A p \in Procs : Context(p)'.at \in Unlinking \cup AfterStore => p \in Mortal
    BY <1>2, <1>7 DEF IInv, PlacesOK
  <2>4. Context(Root)'.at \in {"boot", "run"}
    BY <1>2, <1>7 DEF IInv, PlacesOK
  <2>5. /\ current_process' = Root
        /\ cpu'.irq = FALSE
        /\ \A p \in Procs : regs'[p] = StartContext(p)
    BY <1>1, <1>6 DEF IInv, PlacesOK
  <2> QED  BY <2>1, <2>2, <2>3, <2>4, <2>5, <1>1 DEF PlacesOK
<1> QED  BY <1>13, <1>14, <1>15, <1>18, <1>19, <1>20, <1>21, <1>22 DEF IInv

\* The end of the boot code.
LEMMA StiStep ==
    ASSUME IInv, SKEntry_Sti
    PROVE  IInv' /\ Exited' = Exited /\ Live' = Live
<1> DEFINE c == [cpu EXCEPT !.at = "run", !.irq = TRUE]
<1>1. /\ cpu.at = "boot" /\ pid_counter = NumProcs /\ cpu' = c
      /\ UNCHANGED <<pid_counter, next, current_process, regs,
                     vmm_current_address_space, stacks, procs, tick>>
  BY DEF SKEntry_Sti
<1>2. cpu \in Contexts /\ current_process = Root /\ Procs \subseteq Nodes
      /\ Root \in Nodes /\ Root \notin Procs
  BY <1>1, SchedAssumption DEF IInv, TypeOK, PlacesOK, Procs, Nodes, Root
<1>3. c \in Contexts /\ c.at = "run" /\ c.of = cpu.of
  BY <1>2 DEF Contexts, Labels
<1>4. \A p \in Nodes : Context(p)' = IF p = current_process THEN c ELSE Context(p)
  BY <1>1 DEF Context
<1>5. SkipsOnlyExited' /\ ExitersSafe' /\ Exited' = Exited /\ Live' = Live
  <2>1. c.at \notin AfterStore /\ cpu.at \notin AfterStore /\ c.at \notin Unlinking
    BY <1>1, <1>3 DEF AfterStore, Unlinking
  <2> HIDE DEF c
  <2> QED  BY <2>1, <1>1, <1>4, RingUntouched
<1>6. TypeOK' /\ FaultNeverPanics'
  BY <1>1, <1>3 DEF IInv, TypeOK, FaultNeverPanics
<1>7. ContextMatches'
  BY <1>1, <1>3 DEF IInv, ContextMatches, Created
<1>8. PlacesOK'
  <2>1. \A p \in Procs : Context(p)'.at \in Unlinking \cup AfterStore => p \in Mortal
    BY <1>2, <1>4 DEF IInv, PlacesOK
  <2>2. Context(Root)'.at \in {"boot", "run"}
    BY <1>2, <1>3, <1>4
  <2> QED  BY <2>1, <2>2, <1>1, <1>3 DEF IInv, PlacesOK, Created
<1> QED  BY <1>5, <1>6, <1>7, <1>8 DEF IInv

\* Scheduler_ExitProcess is called, by Scheduler_Entry or by the fault handler.
LEMMA CallExitSafe ==
    ASSUME IInv, NEW flag \in BOOLEAN
    PROVE  /\ CallExit(flag) \in Contexts
           /\ CallExit(flag).of = cpu.of
           /\ CallExit(flag).at = "search"
           /\ SafeLocals(CallExit(flag), current_process)
<1>1. cpu \in Contexts /\ current_process \in Nodes /\ Root \in Nodes
  BY Typing, SchedAssumption DEF IInv, TypeOK, Root, Nodes
<1>2. /\ CallExit(flag) \in Contexts
      /\ CallExit(flag).of = cpu.of
      /\ CallExit(flag).at = "search"
      /\ CallExit(flag).proc = current_process
      /\ CallExit(flag).prev = Root
  BY <1>1 DEF CallExit, process_list, Contexts, Labels, Unlinking
<1> QED  BY <1>2, Typing DEF SafeLocals

\* The scheduled process leaves its code: by returning, or by a page fault.
LEMMA LeaveStep ==
    ASSUME IInv, Scheduler_Entry \/ general_interrupt_handler_PageFault
    PROVE  IInv' /\ Exited' = Exited /\ Live' = Live
<1>1. cpu.at = "run" /\ cpu.of \in Mortal /\ current_process \in Mortal
  BY DEF Scheduler_Entry, general_interrupt_handler_PageFault, IInv, ContextMatches
<1>2. vmm_current_address_space = current_process
  BY <1>1, SchedAssumption DEF IInv, ContextMatches, Root
<1>3. cpu.irq \in BOOLEAN
  BY DEF IInv, TypeOK, Contexts
<1>4. \E flag \in BOOLEAN : Step(CallExit(flag))
  BY <1>2, <1>3 DEF Scheduler_Entry, general_interrupt_handler_PageFault
<1>5. PICK flag \in BOOLEAN : Step(CallExit(flag))
  BY <1>4
<1> DEFINE c == CallExit(flag)
<1>6. c \in Contexts /\ c.of = cpu.of /\ c.at = "search"
      /\ SafeLocals(c, current_process)
  BY CallExitSafe
<1>7. c.at \notin AfterStore /\ cpu.at \notin AfterStore
  BY <1>1, <1>6 DEF AfterStore
<1>8. cpu' = c /\ UNCHANGED <<pid_counter, next, current_process, regs,
                              vmm_current_address_space, stacks, procs, tick>>
  BY <1>5 DEF Step
<1>9. stacks' \in SUBSET Procs /\ procs' \in SUBSET Nodes
  BY <1>8 DEF IInv, TypeOK
<1> HIDE DEF c
<1> QED  BY <1>1, <1>6, <1>7, <1>8, <1>9, LocalStep

\* The steps of Scheduler_ExitProcess that leave the ring alone.
LEMMA SearchStep ==
    ASSUME IInv, ExitProcess_Test \/ ExitProcess_Advance \/ ExitProcess_Load
    PROVE  IInv' /\ Exited' = Exited /\ Live' = Live
<1> DEFINE p == current_process
<1>1. cpu \in Contexts /\ p \in Created /\ Created \subseteq Nodes /\ Context(p) = cpu
  BY Typing DEF IInv, TypeOK
<1>2. cpu.at \in Unlinking
  BY DEF ExitProcess_Test, ExitProcess_Advance, ExitProcess_Load, Unlinking
<1>3. SafeLocals(cpu, p)
  BY <1>1, <1>2 DEF IInv, ExitersSafe
<1>4. p \in Mortal
  <2>1. p # Root
    BY <1>1, <1>2 DEF IInv, PlacesOK, Unlinking
  <2>2. p \in Procs
    BY <1>1, <2>1 DEF Nodes, Procs, Root
  <2> QED  BY <1>1, <1>2, <2>2 DEF IInv, PlacesOK
<1>5. \A x \in Created : /\ next[x] \in Created /\ next[x] < Top(x)
                         /\ \A z \in Live : ~(next[x] < z /\ z < Top(x))
  BY DEF IInv, SkipsOnlyExited
<1>6. SUFFICES ASSUME NEW c \in Contexts, Step(c), c.of = cpu.of,
                      c.at \in Unlinking, SafeLocals(c, p)
               PROVE  IInv' /\ Exited' = Exited /\ Live' = Live
  <2>1. CASE ExitProcess_Test
    <3> DEFINE d == [cpu EXCEPT !.at = IF next[cpu.prev] = cpu.proc THEN "load"
                                                                   ELSE "advance"]
    <3>1. d \in Contexts /\ d.of = cpu.of /\ d.proc = cpu.proc /\ d.prev = cpu.prev
          /\ d.at = (IF next[cpu.prev] = cpu.proc THEN "load" ELSE "advance")
      BY <1>1 DEF Contexts, Labels, Unlinking
    <3>2. Step(d)
      BY <2>1 DEF ExitProcess_Test
    <3>3. d.at \in Unlinking
      BY <3>1 DEF Unlinking
    <3> HIDE DEF d
    <3>4. SafeLocals(d, p)
      BY <3>1, <1>3, <1>5 DEF SafeLocals
    <3> QED  BY <3>1, <3>2, <3>3, <3>4, <1>6
  <2>2. CASE ExitProcess_Advance
    <3> DEFINE d == [cpu EXCEPT !.at = "search", !.prev = next[cpu.prev]]
    <3>1. cpu.prev \in Created
      BY <1>3 DEF SafeLocals
    <3>2. d \in Contexts /\ d.of = cpu.of /\ d.proc = cpu.proc /\ d.at = "search"
          /\ d.prev = next[cpu.prev]
      BY <1>1, <1>5, <3>1 DEF Contexts, Labels, Unlinking
    <3>3. Step(d)
      BY <2>2 DEF ExitProcess_Advance
    <3>4. d.at \in Unlinking
      BY <3>2 DEF Unlinking
    <3> HIDE DEF d
    <3>5. SafeLocals(d, p)
      BY <3>1, <3>2, <1>3, <1>5 DEF SafeLocals
    <3> QED  BY <3>2, <3>3, <3>4, <3>5, <1>6
  <2>3. CASE ExitProcess_Load
    <3> DEFINE d == [cpu EXCEPT !.at = "store", !.nxt = next[cpu.proc]]
    <3>1. cpu.proc = p /\ cpu.at = "load"
      BY <1>3, <2>3 DEF SafeLocals, ExitProcess_Load
    <3>2. d \in Contexts /\ d.of = cpu.of /\ d.proc = p /\ d.prev = cpu.prev
          /\ d.at = "store" /\ d.nxt = next[p]
      BY <1>1, <1>5, <3>1 DEF Contexts, Labels, Unlinking
    <3>3. Step(d)
      BY <2>3 DEF ExitProcess_Load
    <3>4. d.at \in Unlinking
      BY <3>2 DEF Unlinking
    <3>5. Top(p) = p
      BY <1>4, SchedAssumption DEF Top, Root
    <3> HIDE DEF d
    <3>6. SafeLocals(d, p)
      BY <3>1, <3>2, <3>5, <1>1, <1>3, <1>5 DEF SafeLocals
    <3> QED  BY <3>2, <3>3, <3>4, <3>6, <1>6
  <2> QED  BY <2>1, <2>2, <2>3
<1>7. c.at \notin AfterStore /\ cpu.at \notin AfterStore
      /\ c.at \notin {"boot", "panic"} /\ cpu.at # "boot"
  BY <1>2, <1>6 DEF Unlinking, AfterStore
<1>8. cpu' = c /\ UNCHANGED <<pid_counter, next, current_process, regs,
                              vmm_current_address_space, stacks, procs, tick>>
  BY <1>6 DEF Step
<1>9. stacks' \in SUBSET Procs /\ procs' \in SUBSET Nodes
  BY <1>8 DEF IInv, TypeOK
<1> QED  BY <1>4, <1>6, <1>7, <1>8, <1>9, LocalStep

\* A process on the exit path is one of those that exit.
LEMMA ExiterIsMortal ==
    ASSUME IInv, cpu.at \in Unlinking \cup AfterStore
    PROVE  current_process \in Mortal /\ current_process \in Procs
<1>1. current_process # Root
  BY Typing DEF IInv, PlacesOK, Unlinking, AfterStore
<1>2. current_process \in Procs
  BY <1>1, Typing DEF Nodes, Procs, Root
<1> QED  BY <1>2, Typing DEF IInv, PlacesOK

\* The store takes the executing process off the ring, and nobody else who is
\* alive.
LEMMA StoreStep ==
    ASSUME IInv, ExitProcess_Store
    PROVE  IInv' /\ Live' = Live \ {current_process}
                 /\ Exited' = Exited \cup {current_process}
<1> DEFINE p == current_process
           c == [cpu EXCEPT !.at = "freeStack"]
<1>1. /\ cpu.at = "store"
      /\ next' = [next EXCEPT ![cpu.prev] = cpu.nxt]
      /\ cpu' = c
      /\ UNCHANGED <<pid_counter, current_process, regs,
                     vmm_current_address_space, stacks, procs, tick>>
  BY DEF ExitProcess_Store
<1>2. cpu \in Contexts /\ p \in Created /\ Created \subseteq Nodes /\ Context(p) = cpu
  BY Typing DEF IInv, TypeOK
<1>3. cpu.at \in Unlinking /\ cpu.at \notin AfterStore
  BY <1>1 DEF Unlinking, AfterStore
<1>4. SafeLocals(cpu, p)
  BY <1>2, <1>3 DEF IInv, ExitersSafe
<1>5. p \in Mortal /\ p \in Procs
  BY <1>3, ExiterIsMortal
<1>6. c \in Contexts /\ c.of = cpu.of /\ c.at = "freeStack" /\ c.at \in AfterStore
      /\ c.at \notin Unlinking
  BY <1>2 DEF Contexts, Labels, AfterStore, Unlinking
<1>7. \A q \in Nodes : Context(q)' = IF q = p THEN c ELSE Context(q)
  BY <1>1 DEF Context
<1> HIDE DEF c
<1>8. Procs \subseteq Nodes /\ Root \in Nodes /\ Root \notin Mortal /\ Root \notin Procs
  BY SchedAssumption DEF Procs, Nodes, Root
<1>9. Exited' = Exited \cup {p}
  BY <1>5, <1>6, <1>7, <1>8 DEF Exited
<1>10. Live' = Live \ {p} /\ Created' = Created
  BY <1>1, <1>9 DEF Live, Created
<1>11. \A x \in Nodes : next'[x] = IF x = cpu.prev THEN cpu.nxt ELSE next[x]
  BY <1>1 DEF IInv, TypeOK
<1>12. \A x \in Nodes : x \in Int /\ Top(x) \in Int
  BY SchedAssumption DEF Top, Nodes, Root, Procs
<1>13. SkipsOnlyExited'
  <2> SUFFICES ASSUME NEW x \in Created
               PROVE  /\ next'[x] \in Created
                      /\ next'[x] < Top(x)
                      /\ \A z \in Live \ {p} : ~(next'[x] < z /\ z < Top(x))
    BY <1>10 DEF SkipsOnlyExited, Top
  <2>1. CASE x = cpu.prev
    <3>1. next'[x] = cpu.nxt /\ x \in Nodes
      BY <2>1, <1>2, <1>11
    <3>2. /\ cpu.nxt \in Created /\ cpu.nxt < p /\ p < Top(x)
          /\ \A z \in Live : ~(p < z /\ z < Top(x))
          /\ \A z \in Live : ~(cpu.nxt < z /\ z < p)
      BY <2>1, <1>1, <1>4 DEF SafeLocals
    <3>3. cpu.nxt \in Int /\ p \in Int
      BY <3>2, <1>2, <1>12
    <3>4. Top(x) \in Int /\ \A z \in Live : z \in Int
      BY <3>1, <1>12 DEF Live, Procs
    <3> QED  BY <3>1, <3>2, <3>3, <3>4
  <2>2. CASE x # cpu.prev
    BY <2>2, <1>2, <1>11 DEF IInv, SkipsOnlyExited
  <2> QED  BY <2>1, <2>2
<1>14. ExitersSafe'
  <2> SUFFICES ASSUME NEW q \in Created, Context(q)'.at \in Unlinking
               PROVE  SafeLocals(Context(q), q)'
    BY <1>10 DEF ExitersSafe, SafeLocals, Top
  <2>1. q # p /\ Context(q)' = Context(q)
    BY <1>2, <1>6, <1>7
  <2>2. SafeLocals(Context(q), q)
    BY <2>1 DEF IInv, ExitersSafe
  <2> QED  BY <2>1, <2>2, <1>10 DEF SafeLocals, Top
<1>15. TypeOK'
  <2>1. cpu.nxt \in Nodes
    BY <1>2 DEF Contexts
  <2> QED  BY <2>1, <1>1, <1>6 DEF IInv, TypeOK
<1>16. ContextMatches' /\ FaultNeverPanics'
  BY <1>1, <1>6 DEF IInv, ContextMatches, FaultNeverPanics, Created
<1>17. PlacesOK'
  <2>1. \A q \in Procs : Context(q)'.at \in Unlinking \cup AfterStore => q \in Mortal
    BY <1>5, <1>7, <1>8 DEF IInv, PlacesOK
  <2>2. Context(Root)'.at \in {"boot", "run"}
    BY <1>5, <1>7, <1>8 DEF IInv, PlacesOK
  <2> QED  BY <2>1, <2>2, <1>1, <1>6 DEF IInv, PlacesOK, Created
<1>18. IInv'
  BY <1>13, <1>14, <1>15, <1>16, <1>17 DEF IInv
<1> QED  BY <1>9, <1>10, <1>18

\* The steps after the store up to int $32, and the one after it.
LEMMA TailStep ==
    ASSUME IInv, ExitProcess_FreeStack \/ ExitProcess_FreeProc \/ RunOff
    PROVE  IInv' /\ Exited' = Exited /\ Live' = Live
<1>1. cpu \in Contexts /\ cpu.at \in AfterStore
  BY DEF IInv, TypeOK, ExitProcess_FreeStack, ExitProcess_FreeProc, RunOff, AfterStore
<1>2. \E c \in Contexts :
        /\ cpu' = c /\ c.of = cpu.of /\ c.at \in AfterStore
        /\ UNCHANGED <<pid_counter, next, current_process, regs,
                       vmm_current_address_space>>
        /\ stacks' \in SUBSET Procs /\ procs' \in SUBSET Nodes
        /\ tick' = tick
  <2>1. CASE ExitProcess_FreeStack
    <3>1. [cpu EXCEPT !.at = "freeProc"] \in Contexts
      BY <1>1 DEF Contexts, Labels, AfterStore
    <3> QED  BY <2>1, <3>1, <1>1
             DEF ExitProcess_FreeStack, IInv, TypeOK, Contexts, AfterStore
  <2>2. CASE ExitProcess_FreeProc
    <3>1. [cpu EXCEPT !.at = "yield"] \in Contexts
      BY <1>1 DEF Contexts, Labels, AfterStore
    <3> QED  BY <2>2, <3>1, <1>1
             DEF ExitProcess_FreeProc, IInv, TypeOK, Contexts, AfterStore
  <2>3. CASE RunOff
    <3>1. [cpu EXCEPT !.at = "wild", !.irq = FALSE] \in Contexts
      BY <1>1 DEF Contexts, Labels, AfterStore
    <3> QED  BY <2>3, <3>1, <1>1
             DEF RunOff, Step, IInv, TypeOK, Contexts, AfterStore
  <2> QED  BY <2>1, <2>2, <2>3
<1>3. PICK c \in Contexts :
        /\ cpu' = c /\ c.of = cpu.of /\ c.at \in AfterStore
        /\ UNCHANGED <<pid_counter, next, current_process, regs,
                       vmm_current_address_space>>
        /\ stacks' \in SUBSET Procs /\ procs' \in SUBSET Nodes
        /\ tick' = tick
  BY <1>2
<1>4. cpu.at # "boot" /\ c.at \notin {"boot", "panic"} /\ c.at \notin Unlinking
  BY <1>1, <1>3 DEF AfterStore, Unlinking
<1>5. current_process \in Mortal
  BY <1>1, ExiterIsMortal
<1> QED  BY <1>1, <1>3, <1>4, <1>5, LocalStep

\* int $32, from the timer or from the exit path.
LEMMA InterruptStep ==
    ASSUME IInv, TimerInterrupt \/ Scheduler_Entry_Yield
    PROVE  IInv' /\ Exited' = Exited /\ Live' = Live
<1>1. cpu \in Contexts
  BY DEF IInv, TypeOK
<1>2. CASE TimerInterrupt
  <2>1. cpu.at # "boot"
    BY <1>2 DEF TimerInterrupt, IInv, PlacesOK
  <2> DEFINE saved == cpu
  <2>2. Pit_Handler(saved) /\ saved \in Contexts /\ saved = cpu /\ saved.of = cpu.of
    BY <1>1, <1>2 DEF TimerInterrupt
  <2>3. saved = cpu \/ (cpu.at \in AfterStore /\ saved.at \in AfterStore)
    OBVIOUS
  <2> HIDE DEF saved
  <2> QED  BY <2>1, <2>2, <2>3, HandlerStep
<1>3. CASE Scheduler_Entry_Yield
  <2> DEFINE saved == [cpu EXCEPT !.at = "resume"]
  <2>1. saved \in Contexts /\ saved.of = cpu.of /\ saved.at \in AfterStore
    BY <1>1 DEF Contexts, Labels, AfterStore
  <2>2. Pit_Handler(saved) /\ cpu.at # "boot" /\ cpu.at \in AfterStore
    BY <1>3 DEF Scheduler_Entry_Yield, AfterStore
  <2> HIDE DEF saved
  <2> QED  BY <2>1, <2>2, HandlerStep
<1> QED  BY <1>2, <1>3

\* Every step of the specification keeps the invariant.
THEOREM IInvInductive ==
    ASSUME IInv, [Next]_vars PROVE IInv'
<1>1. CASE Scheduler_CreateProcess
  BY <1>1, CreateStep
<1>2. CASE SKEntry_Sti
  BY <1>2, StiStep
<1>3. CASE TimerInterrupt \/ Scheduler_Entry_Yield
  BY <1>3, InterruptStep
<1>4. CASE Scheduler_Entry \/ general_interrupt_handler_PageFault
  BY <1>4, LeaveStep
<1>5. CASE ExitProcess_Test \/ ExitProcess_Advance \/ ExitProcess_Load
  BY <1>5, SearchStep
<1>6. CASE ExitProcess_Store
  BY <1>6, StoreStep
<1>7. CASE ExitProcess_FreeStack \/ ExitProcess_FreeProc \/ RunOff
  BY <1>7, TailStep
<1>8. CASE UNCHANGED vars
  BY <1>8 DEF vars, IInv, TypeOK, ContextMatches, FaultNeverPanics, PlacesOK,
              SkipsOnlyExited, ExitersSafe, SafeLocals, Context, Created, Live,
              Exited, Top
<1> QED  BY <1>1, <1>2, <1>3, <1>4, <1>5, <1>6, <1>7, <1>8 DEF Next, ExitStep

\* The inductive invariant of the ring and of the exit path (sched.c:45-93)
\* holds in every reachable state, for any number and choice of exits.
THEOREM InvariantHolds == Spec => []IInv
BY InitIInv, IInvInductive, PTL DEF Spec

-----------------------------------------------------------------------------
(***************************************************************************)
(* What follows for any Mortal                                             *)
(***************************************************************************)

\* Every variable keeps its type.
THEOREM TypeCorrect == Spec => []TypeOK
BY InvariantHolds, PTL DEF IInv

\* The processor always executes the current process's context, in its space.
THEOREM ContextCorrect == Spec => []ContextMatches
BY InvariantHolds, PTL DEF IInv

\* A page fault of a task never halts the machine.
THEOREM FaultNeverHalts == Spec => []FaultNeverPanics
BY InvariantHolds, PTL DEF IInv

(***************************************************************************)
(* A live process p is in every closed set S: take the element x of S with *)
(* the least place above p.  Its link stays in S and cannot jump over p,   *)
(* so it would have a lesser place above p unless it is p.                 *)
(***************************************************************************)
LEMMA SkipsImplyReachable ==
    ASSUME TypeOK, SkipsOnlyExited PROVE LiveInRing
<1> SUFFICES ASSUME NEW p \in Live, NEW S \in SUBSET Nodes, Closed(S), p \notin S
             PROVE  FALSE
  BY DEF LiveInRing, OnRing
<1>1. /\ p \in Nat /\ p < pid_counter /\ pid_counter \in Nat
      /\ pid_counter =< NumProcs /\ NumProcs \in Nat
  BY SchedAssumption DEF Live, Procs, TypeOK
<1>2. \A x \in S : x \in Int /\ (x = Root \/ x \in Nat)
  BY SchedAssumption DEF Nodes, Root
<1> DEFINE T == {n \in Nat : n > p /\ \E x \in S \cap Created : Top(x) = n}
<1>3. NumProcs \in T
  <2>1. Root \in S \cap Created
    BY <1>1 DEF Closed, Created, Root
  <2>2. Top(Root) = NumProcs
    BY DEF Top
  <2> QED  BY <2>1, <2>2, <1>1
<1>4. PICK m \in T : \A n \in T : m =< n
  <2>1. T # {} /\ T \in SUBSET Nat
    BY <1>3
  <2> HIDE DEF T
  <2>2. PICK m \in T : \A n \in T : ~(<<n, m>> \in OpToRel(<, Nat))
    BY <2>1, NatLessThanWellFounded, WFMin
  <2>3. \A n \in T : <<n, m>> \in OpToRel(<, Nat) <=> n < m
    BY <2>1, <2>2 DEF OpToRel
  <2>4. m \in Nat /\ m \in T
    BY <2>1
  <2>5. ASSUME NEW n \in T PROVE m =< n
    <3>1. n \in Nat /\ ~(n < m)
      BY <2>1, <2>2, <2>3
    <3> QED  BY <3>1, <2>4
  <2> QED  BY <2>4, <2>5
<1>5. PICK x \in S \cap Created : Top(x) = m /\ m \in Nat /\ m > p
  BY <1>4
<1> DEFINE y == next[x]
<1>6. /\ y \in Created /\ y < m /\ ~(y < p /\ p < m)
  BY <1>5 DEF SkipsOnlyExited
<1>7. y \in S /\ y # p /\ y \in Int
  BY <1>2, <1>5 DEF Closed
<1>8. y > p
  BY <1>1, <1>5, <1>6, <1>7
<1>9. Top(y) = y /\ y \in Nat
  BY <1>1, <1>7, <1>8 DEF Top, Root
<1>10. y \in T
  BY <1>6, <1>7, <1>8, <1>9
<1>11. m =< y
  BY <1>4, <1>10
<1> HIDE DEF y, T
<1> QED  BY <1>5, <1>6, <1>7, <1>11

(***************************************************************************)
(* No interleaving of exits takes a process that has not unlinked itself   *)
(* out of the scheduler's reach.                                           *)
(***************************************************************************)
THEOREM LiveStaysInRing == Spec => []LiveInRing
<1>1. IInv => LiveInRing
  BY SkipsImplyReachable DEF IInv
<1> QED  BY <1>1, InvariantHolds, PTL

-----------------------------------------------------------------------------
(***************************************************************************)
(* The heap blocks of the processes                                        *)
(***************************************************************************)

LEMMA InitMemory == Init => ExitsItself /\ LiveHoldsMemory
<1> SUFFICES ASSUME Init PROVE ExitsItself /\ LiveHoldsMemory
  OBVIOUS
<1>1. \A p \in Procs : Context(p).at = "run"
  <2> TAKE p \in Procs
  <2>1. p # Root /\ p \in Nodes
    BY SchedAssumption DEF Procs, Nodes, Root
  <2>2. StartContext(p).at = "run"
    BY DEF StartContext
  <2> QED  BY <2>1, <2>2 DEF Init, Context
<1>2. ExitsItself
  BY <1>1 DEF ExitsItself, Unlinking, AfterStore
<1>3. Live = {}
  BY SchedAssumption DEF Live, Procs, Init
<1>4. Root \in procs
  BY DEF Init
<1> QED  BY <1>2, <1>3, <1>4 DEF LiveHoldsMemory

\* A step that leaves every context as it is, or moves the executing one
\* along the exit path of the current process, keeps ExitsItself.
LEMMA ExitsItselfStep ==
    ASSUME IInv, ExitsItself, [Next]_vars
    PROVE  ExitsItself'
<1> SUFFICES ASSUME NEW p \in Procs, Context(p)'.at \in Unlinking \cup AfterStore
             PROVE  Context(p)'.proc = p
  BY DEF ExitsItself
<1>1. p \in Nodes /\ p # Root /\ current_process \in Nodes /\ cpu \in Contexts
  BY SchedAssumption, Typing DEF Procs, Nodes, Root, IInv, TypeOK
<1>2. Context(p).at \in Unlinking \cup AfterStore => Context(p).proc = p
  BY DEF ExitsItself
<1>3. CASE UNCHANGED <<current_process, cpu, regs>>
  BY <1>2, <1>3 DEF Context
<1>4. ASSUME UNCHANGED <<current_process, regs>>,
             NEW c \in Contexts, cpu' = c, c.proc = cpu.proc,
             c.at \in Unlinking \cup AfterStore => cpu.at \in Unlinking \cup AfterStore
      PROVE  Context(p)'.proc = p
  BY <1>2, <1>4 DEF Context
<1>5. CASE Scheduler_Entry \/ general_interrupt_handler_PageFault
  <2>1. cpu.of = current_process /\ cpu.of \in Mortal
    BY <1>5 DEF Scheduler_Entry, general_interrupt_handler_PageFault, IInv, ContextMatches
  <2>2. vmm_current_address_space = current_process
    BY <2>1, SchedAssumption DEF IInv, ContextMatches, Root
  <2>3. \E flag \in BOOLEAN : Step(CallExit(flag))
    BY <1>1, <1>5, <2>2
       DEF Scheduler_Entry, general_interrupt_handler_PageFault, Contexts
  <2>4. PICK flag \in BOOLEAN : Step(CallExit(flag))
    BY <2>3
  <2>5. CallExit(flag).proc = current_process
    BY <1>1 DEF CallExit, Contexts
  <2>6. cpu' = CallExit(flag) /\ UNCHANGED <<current_process, regs>>
    BY <2>4 DEF Step
  <2> QED  BY <1>2, <2>5, <2>6 DEF Context
<1>6. CASE Scheduler_Entry_Yield \/ TimerInterrupt
  <2> DEFINE to == next[current_process]
  <2>1. PICK saved \in Contexts : /\ Pit_Handler(saved) /\ saved.proc = cpu.proc
                                  /\ saved.at = cpu.at \/ cpu.at = "yield"
    <3>1. [cpu EXCEPT !.at = "resume"] \in Contexts
      BY <1>1 DEF Contexts, Labels, AfterStore
    <3> QED  BY <1>1, <1>6, <3>1 DEF Scheduler_Entry_Yield, TimerInterrupt, Contexts
  <2>2. /\ regs' = [regs EXCEPT ![current_process] = saved]
        /\ current_process' = to /\ cpu' = regs'[to]
    BY <2>1 DEF Pit_Handler, Scheduler_Schedule
  <2>3. Context(p)' = IF p = current_process THEN saved ELSE Context(p)
    BY <1>1, <2>2 DEF Context, IInv, TypeOK
  <2>4. CASE p = current_process
    BY <1>2, <2>1, <2>3, <2>4 DEF Context, AfterStore
  <2> QED  BY <1>2, <2>3, <2>4
<1>7. CASE Scheduler_CreateProcess
  BY <1>3, <1>7 DEF Scheduler_CreateProcess
<1>8. CASE SKEntry_Sti
  BY <1>1, <1>2, <1>8, Typing DEF SKEntry_Sti, IInv, PlacesOK, Context
<1>9. CASE ExitProcess_Test \/ ExitProcess_Advance \/ ExitProcess_Load
           \/ ExitProcess_Store \/ ExitProcess_FreeStack \/ ExitProcess_FreeProc
           \/ RunOff
  <2>1. cpu.at \in Unlinking \cup AfterStore /\ UNCHANGED <<current_process, regs>>
    BY <1>9 DEF ExitProcess_Test, ExitProcess_Advance, ExitProcess_Load,
                ExitProcess_Store, ExitProcess_FreeStack, ExitProcess_FreeProc,
                RunOff, Step, Unlinking, AfterStore
  <2>2. cpu'.proc = cpu.proc
    BY <1>1, <1>9 DEF ExitProcess_Test, ExitProcess_Advance, ExitProcess_Load,
                ExitProcess_Store, ExitProcess_FreeStack, ExitProcess_FreeProc,
                RunOff, Step, Contexts
  <2> QED  BY <1>2, <2>1, <2>2 DEF Context
<1>10. CASE UNCHANGED vars
  BY <1>3, <1>10 DEF vars
<1> QED  BY <1>5, <1>6, <1>7, <1>8, <1>9, <1>10 DEF Next, ExitStep

\* Each KHeap_Free of the exit path (sched.c:81-82) hits a process that has
\* unlinked itself, so a live one keeps its blocks.
LEMMA LiveHoldsMemoryStep ==
    ASSUME IInv, ExitsItself, LiveHoldsMemory, [Next]_vars
    PROVE  LiveHoldsMemory'
<1>1. ASSUME Live' \subseteq Live, procs \subseteq procs', stacks \subseteq stacks'
      PROVE  LiveHoldsMemory'
  BY <1>1 DEF LiveHoldsMemory
<1>2. CASE Scheduler_CreateProcess
  <2>1. Live' = Live \cup {pid_counter}
    BY <1>2, CreateStep
  <2> QED  BY <1>2, <2>1 DEF Scheduler_CreateProcess, LiveHoldsMemory
<1>3. CASE SKEntry_Sti
  BY <1>1, <1>3, StiStep DEF SKEntry_Sti
<1>4. CASE TimerInterrupt \/ Scheduler_Entry_Yield
  <2>1. UNCHANGED <<procs, stacks>>
    BY <1>4 DEF TimerInterrupt, Scheduler_Entry_Yield, Pit_Handler
  <2> QED  BY <1>1, <1>4, <2>1, InterruptStep
<1>5. CASE Scheduler_Entry \/ general_interrupt_handler_PageFault
  <2>1. UNCHANGED <<procs, stacks>>
    BY <1>5 DEF Scheduler_Entry, general_interrupt_handler_PageFault, Step
  <2> QED  BY <1>1, <1>5, <2>1, LeaveStep
<1>6. CASE ExitProcess_Test \/ ExitProcess_Advance \/ ExitProcess_Load
  <2>1. UNCHANGED <<procs, stacks>>
    BY <1>6 DEF ExitProcess_Test, ExitProcess_Advance, ExitProcess_Load, Step
  <2> QED  BY <1>1, <1>6, <2>1, SearchStep
<1>7. CASE ExitProcess_Store
  <2>1. UNCHANGED <<procs, stacks>>
    BY <1>7 DEF ExitProcess_Store
  <2> QED  BY <1>1, <1>7, <2>1, StoreStep
<1>8. CASE ExitProcess_FreeStack \/ ExitProcess_FreeProc \/ RunOff
  <2>1. cpu.at \in AfterStore
    BY <1>8 DEF ExitProcess_FreeStack, ExitProcess_FreeProc, RunOff, AfterStore
  <2>2. current_process \in Procs /\ cpu.proc = current_process
        /\ current_process \notin Live /\ current_process # Root
    <3>1. current_process \in Procs
      BY <2>1, ExiterIsMortal
    <3>2. Root \notin Procs
      BY DEF Root, Procs
    <3> QED  BY <2>1, <3>1, <3>2, Typing DEF ExitsItself, Live, Exited
  <2>3. procs \ {current_process} \subseteq procs' /\ stacks \ {current_process} \subseteq stacks'
    BY <1>8, <2>2 DEF ExitProcess_FreeStack, ExitProcess_FreeProc, RunOff, Step
  <2>4. Live' = Live
    BY <1>8, TailStep
  <2> QED  BY <2>2, <2>3, <2>4 DEF LiveHoldsMemory
<1>9. CASE UNCHANGED vars
  BY <1>9 DEF vars, LiveHoldsMemory, Live, Exited, Context
<1> QED  BY <1>2, <1>3, <1>4, <1>5, <1>6, <1>7, <1>8, <1>9 DEF Next, ExitStep

(***************************************************************************)
(* Whatever the interleaving, a process that has not unlinked itself keeps *)
(* its stack and its ProcessT.                                             *)
(***************************************************************************)
THEOREM NobodyRunsOnFreedMemory == Spec => []LiveHoldsMemory
<1>1. Init => IInv /\ ExitsItself /\ LiveHoldsMemory
  BY InitIInv, InitMemory
<1>2. IInv /\ ExitsItself /\ LiveHoldsMemory /\ [Next]_vars
        => (IInv /\ ExitsItself /\ LiveHoldsMemory)'
  BY IInvInductive, ExitsItselfStep, LiveHoldsMemoryStep
<1> QED  BY <1>1, <1>2, PTL DEF Spec

-----------------------------------------------------------------------------
(***************************************************************************)
(* What follows when no two neighbours exit (Isolated): the ring is known  *)
(* link by link, and an exiting process is never scheduled again.          *)
(***************************************************************************)

\* Only processes that may exit have exited, and never two in a row.
LEMMA ExitedIsolated ==
    ASSUME IInv, Isolated
    PROVE  /\ Exited \subseteq Mortal
           /\ \A p \in Exited : p - 1 \notin Exited /\ p + 1 \notin Mortal
<1>1. Exited \subseteq Mortal /\ Mortal \subseteq Int
  BY SchedAssumption DEF IInv, PlacesOK, Exited
<1>2. ASSUME NEW p \in Exited PROVE p - 1 \notin Exited /\ p + 1 \notin Mortal
  <2>1. p \in Mortal /\ p \in Int
    BY <1>1
  <2>2. p - 1 \in Exited => (p - 1) + 1 \notin Mortal
    BY <1>1 DEF Isolated
  <2> QED  BY <2>1, <2>2 DEF Isolated
<1> QED  BY <1>1, <1>2

\* No link leads to a process that has unlinked itself.
LEMMA NextIsLive ==
    ASSUME IInv, Isolated, RingExact, NEW x \in Created
    PROVE  next[x] \in Created /\ next[x] \in Live \cup {Root} /\ next[x] \notin Exited
<1>1. next[x] \in Created
  BY DEF IInv, SkipsOnlyExited
<1>2. next[x] \notin Exited
  BY ExitedIsolated DEF RingExact
<1>3. next[x] \in Procs \/ next[x] = Root
  BY <1>1, Typing, SchedAssumption DEF Nodes, Procs, Root
<1>4. next[x] \in Procs => next[x] < pid_counter
  BY <1>1 DEF Created, IInv, TypeOK
<1> QED  BY <1>1, <1>2, <1>3, <1>4 DEF Live

\* The link-by-link account of the ring holds for the boot process alone.
LEMMA InitIsolated == Init => RingExact /\ ExitersExact /\ NoResume
<1> SUFFICES ASSUME Init PROVE RingExact /\ ExitersExact /\ NoResume
  OBVIOUS
<1>1. IInv
  BY InitIInv
<1>2. Created = {Root} /\ next[Root] = Root /\ Below(Root) = Root
  BY SchedAssumption DEF Init, Created, Root, Nodes, Below
<1>3. Root \notin Exited
  BY DEF Exited, Procs, Root
<1>4. cpu.at = "boot"
  BY DEF Init, BootContext
<1>5. \A p \in Procs : Context(p).at = "run"
  <2> TAKE p \in Procs
  <2>1. p # Root /\ p \in Nodes
    BY SchedAssumption DEF Procs, Nodes, Root
  <2>2. StartContext(p).at = "run"
    BY DEF StartContext
  <2> QED  BY <2>1, <2>2 DEF Init, Context
<1>6. Mortal \subseteq Procs
  BY SchedAssumption DEF Procs
<1>7. ExitersExact
  BY <1>5, <1>6 DEF ExitersExact
<1> QED  BY <1>2, <1>3, <1>4, <1>7 DEF RingExact, NoResume

\* A step that leaves the ring and the exited processes alone.
LEMMA RingExactKept ==
    ASSUME RingExact, UNCHANGED <<next, pid_counter>>, Exited' = Exited
    PROVE  RingExact'
BY DEF RingExact, Created, Below

\* Creation and the unlinking store are the steps that change a link, and
\* either leaves the ring as RingExact says.
LEMMA RingExactStep ==
    ASSUME IInv, Isolated, RingExact, ExitersExact, [Next]_vars
    PROVE  RingExact'
<1>1. CASE Scheduler_CreateProcess
  <2> DEFINE new == pid_counter
  <2>1. Exited' = Exited
    BY <1>1, CreateStep
  <2>2. /\ cpu.at = "boot" /\ pid_counter' = new + 1
        /\ next' = [next EXCEPT ![new] = next[Root], ![Root] = new]
        /\ new \in Nat /\ NumProcs \in Nat /\ new < NumProcs
    BY <1>1, SchedAssumption DEF Scheduler_CreateProcess, process_list, IInv, TypeOK
  <2>3. Exited = {}
    <3>1. \A p \in Procs : regs[p] = StartContext(p) /\ current_process = Root
      BY <2>2 DEF IInv, PlacesOK
    <3>2. \A p \in Procs : p # current_process /\ StartContext(p).at = "run"
      <4> TAKE p \in Procs
      <4>1. StartContext(p).at = "run" /\ p # Root
        BY DEF StartContext, Procs, Root
      <4> QED  BY <3>1, <4>1
    <3>3. \A p \in Procs : Context(p).at = "run"
      BY <3>1, <3>2 DEF Context
    <3> QED  BY <3>3 DEF Exited, AfterStore
  <2>4. Root \in Nodes /\ new \in Nodes /\ new # Root /\ Created \subseteq Nodes
    BY <2>2, Typing DEF Nodes, Root
  <2>5. /\ next'[new] = next[Root] /\ next'[Root] = new
        /\ \A x \in Created : x # Root => next'[x] = next[x]
    <3>1. new \notin Created
      BY <2>2 DEF Created
    <3> QED  BY <2>2, <2>4, <3>1 DEF IInv, TypeOK
  <2>6. \A x \in Created : next[x] = Below(x)
    BY <2>3 DEF RingExact
  <2>7. ASSUME NEW x \in Created' PROVE next'[x] = Below(x)'
    <3>1. CASE x = Root
      BY <3>1, <2>2, <2>5 DEF Below
    <3>2. CASE x = new
      BY <3>2, <2>2, <2>4, <2>5, <2>6, Typing DEF Below
    <3>3. CASE x # Root /\ x # new
      <4>1. x \in Created
        BY <3>3, <2>2 DEF Created
      <4> QED  BY <4>1, <3>3, <2>5, <2>6 DEF Below
    <3> QED  BY <3>1, <3>2, <3>3
  <2> QED  BY <2>1, <2>3, <2>7 DEF RingExact
<1>2. CASE SKEntry_Sti
  BY <1>2, StiStep, RingExactKept DEF SKEntry_Sti
<1>3. CASE TimerInterrupt \/ Scheduler_Entry_Yield
  BY <1>3, InterruptStep, RingExactKept
     DEF TimerInterrupt, Scheduler_Entry_Yield, Pit_Handler
<1>4. CASE Scheduler_Entry \/ general_interrupt_handler_PageFault
  BY <1>4, LeaveStep, RingExactKept
     DEF Scheduler_Entry, general_interrupt_handler_PageFault, Step
<1>5. CASE ExitProcess_Test \/ ExitProcess_Advance \/ ExitProcess_Load
  BY <1>5, SearchStep, RingExactKept
     DEF ExitProcess_Test, ExitProcess_Advance, ExitProcess_Load, Step
<1>6. CASE ExitProcess_Store
  <2> DEFINE p == current_process
  <2>1. cpu.at = "store" /\ next' = [next EXCEPT ![cpu.prev] = cpu.nxt]
        /\ pid_counter' = pid_counter
    BY <1>6 DEF ExitProcess_Store
  <2>2. p \in Mortal /\ p \in Procs /\ Context(p) = cpu /\ p \in Created
    BY <2>1, ExiterIsMortal, Typing DEF Unlinking
  <2>3. Below(cpu.prev) = p /\ cpu.nxt = p - 1
    BY <2>1, <2>2 DEF ExitersExact
  <2>4. Exited' = Exited \cup {p}
    BY <1>6, StoreStep
  <2>5. cpu.prev \in Created
    BY <2>1, <2>2 DEF IInv, ExitersSafe, SafeLocals, Unlinking
  <2>6. ASSUME NEW x \in Created, x # cpu.prev PROVE Below(x) # p
    <3>1. pid_counter = NumProcs /\ pid_counter \in Nat
      BY <2>1, SchedAssumption DEF IInv, PlacesOK
    <3> QED  BY <2>3, <2>5, <2>6, <3>1 DEF Below, Created, Root
  <2>7. ASSUME NEW x \in Created
        PROVE  next'[x] = IF Below(x) \in Exited' THEN Below(x) - 1 ELSE Below(x)
    <3>1. x \in Nodes /\ next \in [Nodes -> Nodes]
      BY Typing DEF IInv, TypeOK
    <3>2. CASE x = cpu.prev
      BY <3>1, <3>2, <2>1, <2>3, <2>4
    <3>3. CASE x # cpu.prev
      BY <3>1, <3>3, <2>1, <2>4, <2>6 DEF RingExact
    <3> QED  BY <3>2, <3>3
  <2> QED  BY <2>1, <2>7 DEF RingExact, Created, Below
<1>7. CASE ExitProcess_FreeStack \/ ExitProcess_FreeProc \/ RunOff
  BY <1>7, TailStep, RingExactKept
     DEF ExitProcess_FreeStack, ExitProcess_FreeProc, RunOff, Step
<1>8. CASE UNCHANGED vars
  BY <1>8 DEF vars, RingExact, Created, Below, Exited, Context
<1> QED  BY <1>1, <1>2, <1>3, <1>4, <1>5, <1>6, <1>7, <1>8 DEF Next, ExitStep

\* With isolated exits nothing changes the links that an exiting process has
\* loaded before it stores (sched.c:74-79).
LEMMA ExitersExactStep ==
    ASSUME IInv, Isolated, RingExact, ExitersExact, [Next]_vars
    PROVE  ExitersExact'
<1> SUFFICES ASSUME NEW p \in Mortal, Context(p)'.at \in {"load", "store"}
             PROVE  /\ Below(Context(p).prev)' = p
                    /\ Context(p)'.at = "store" => Context(p)'.nxt = p - 1
  BY DEF ExitersExact
<1>1. p \in Nodes /\ p \in Procs /\ p \in Int /\ p # Root
      /\ cpu \in Contexts /\ current_process \in Nodes
  BY SchedAssumption, Typing DEF Nodes, Procs, Root, IInv, TypeOK
<1>2. CASE Context(p)' = Context(p) /\ pid_counter' = pid_counter
  BY <1>2 DEF ExitersExact, Below
<1>3. CASE Scheduler_CreateProcess
  <2>1. current_process = Root /\ regs[p] = StartContext(p)
    BY <1>1, <1>3 DEF Scheduler_CreateProcess, IInv, PlacesOK
  <2>2. Context(p)' = StartContext(p)
    BY <1>1, <1>3, <2>1 DEF Scheduler_CreateProcess, Context
  <2>3. StartContext(p).at = "run"
    BY DEF StartContext
  <2> QED  BY <2>2, <2>3
<1>4. CASE TimerInterrupt \/ Scheduler_Entry_Yield
  <2> DEFINE to == next[current_process]
  <2>1. PICK saved \in Contexts :
            Pit_Handler(saved) /\ (saved = cpu \/ saved.at = "resume")
    <3>1. [cpu EXCEPT !.at = "resume"] \in Contexts
      BY <1>1 DEF Contexts, Labels, AfterStore
    <3>2. [cpu EXCEPT !.at = "resume"].at = "resume"
      BY <1>1 DEF Contexts
    <3> QED  BY <1>1, <1>4, <3>1, <3>2 DEF Scheduler_Entry_Yield, TimerInterrupt
  <2>2. /\ regs' = [regs EXCEPT ![current_process] = saved]
        /\ current_process' = to /\ cpu' = regs'[to] /\ pid_counter' = pid_counter
    BY <2>1 DEF Pit_Handler, Scheduler_Schedule
  <2>3. Context(p)' = IF p = current_process THEN saved ELSE Context(p)
    BY <1>1, <2>2 DEF Context, IInv, TypeOK
  <2> QED  BY <1>2, <2>1, <2>2, <2>3, Typing
<1>5. CASE p # current_process /\ UNCHANGED <<current_process, regs, pid_counter>>
  BY <1>2, <1>5 DEF Context
<1>6. CASE p = current_process /\ ExitProcess_Test
  <2>1. Context(p)' = cpu' /\ pid_counter' = pid_counter
        /\ cpu' = [cpu EXCEPT !.at = IF next[cpu.prev] = cpu.proc THEN "load"
                                                                 ELSE "advance"]
    BY <1>6 DEF ExitProcess_Test, Step, Context
  <2>2. cpu'.prev = cpu.prev /\ cpu'.at = "load" /\ next[cpu.prev] = cpu.proc
    BY <1>1, <2>1 DEF Contexts
  <2>3. cpu.proc = p /\ cpu.prev \in Created
    BY <1>6, Typing
       DEF ExitProcess_Test, IInv, ExitersSafe, SafeLocals, Unlinking
  <2>4. Below(cpu.prev) = p
    <3>1. CASE Below(cpu.prev) \notin Exited
      BY <2>2, <2>3, <3>1 DEF RingExact
    <3>2. CASE Below(cpu.prev) \in Exited
      <4>1. Below(cpu.prev) - 1 = p /\ Below(cpu.prev) \in Mortal
        BY <2>2, <2>3, <3>2, ExitedIsolated DEF RingExact
      <4>2. Below(cpu.prev) \in Int
        <5>1. Mortal \subseteq Int
          BY SchedAssumption
        <5> QED  BY <4>1, <5>1
      <4>3. Below(cpu.prev) = p + 1
        BY <1>1, <4>1, <4>2
      <4> QED  BY <4>1, <4>3 DEF Isolated
    <3> QED  BY <3>1, <3>2
  <2> QED  BY <2>1, <2>2, <2>4 DEF Below
<1>7. CASE p = current_process /\ ExitProcess_Load
  <2>1. Context(p)' = cpu' /\ pid_counter' = pid_counter
        /\ cpu' = [cpu EXCEPT !.at = "store", !.nxt = next[cpu.proc]]
        /\ cpu.at = "load" /\ Context(p) = cpu
    BY <1>7 DEF ExitProcess_Load, Step, Context
  <2>2. cpu'.prev = cpu.prev /\ cpu'.nxt = next[cpu.proc]
    BY <1>1, <2>1 DEF Contexts
  <2>3. cpu.proc = p /\ p \in Created
    BY <1>7, <2>1, Typing DEF IInv, ExitersSafe, SafeLocals, Unlinking
  <2>4. Below(cpu.prev) = p
    BY <2>1 DEF ExitersExact
  <2>5. next[p] = p - 1
    <3>1. Below(p) = p - 1
      BY <1>1 DEF Below
    <3>2. p - 1 \notin Exited
      <4>1. p - 1 \in Exited => p \notin Mortal
        <5>1. (p - 1) + 1 = p
          BY <1>1
        <5> QED  BY <5>1, ExitedIsolated
      <4> QED  BY <4>1
    <3> QED  BY <2>3, <3>1, <3>2 DEF RingExact
  <2> QED  BY <2>1, <2>2, <2>3, <2>4, <2>5 DEF Below
<1>8. CASE p = current_process /\ (ExitProcess_Advance \/ ExitProcess_Store
             \/ ExitProcess_FreeStack \/ ExitProcess_FreeProc \/ RunOff
             \/ SKEntry_Sti)
  <2>1. cpu'.at \notin {"load", "store"} /\ Context(p)' = cpu'
    BY <1>1, <1>8 DEF ExitProcess_Advance, ExitProcess_Store, ExitProcess_FreeStack,
       ExitProcess_FreeProc, RunOff, SKEntry_Sti, Step, Context, Contexts
  <2> QED  BY <2>1
<1>9. CASE p = current_process
           /\ (Scheduler_Entry \/ general_interrupt_handler_PageFault)
  <2>1. vmm_current_address_space = current_process
    BY <1>1, <1>9 DEF IInv, ContextMatches
  <2>2. \E flag \in BOOLEAN : cpu' = CallExit(flag)
    BY <1>1, <1>9, <2>1
       DEF Scheduler_Entry, general_interrupt_handler_PageFault, Step, Contexts
  <2>3. cpu'.at = "search"
    BY <1>1, <2>2 DEF CallExit, Contexts
  <2>4. Context(p)' = cpu'
    BY <1>9 DEF Scheduler_Entry, general_interrupt_handler_PageFault, Step, Context
  <2> QED  BY <2>3, <2>4
<1>10. CASE UNCHANGED vars
  BY <1>2, <1>10 DEF vars, Context
<1>11. CASE SKEntry_Sti \/ Scheduler_Entry \/ general_interrupt_handler_PageFault
            \/ ExitProcess_Test \/ ExitProcess_Advance \/ ExitProcess_Load
            \/ ExitProcess_Store \/ ExitProcess_FreeStack \/ ExitProcess_FreeProc
            \/ RunOff
  <2>1. UNCHANGED <<current_process, regs, pid_counter>>
    BY <1>11 DEF SKEntry_Sti, Scheduler_Entry, general_interrupt_handler_PageFault,
       ExitProcess_Test, ExitProcess_Advance, ExitProcess_Load, ExitProcess_Store,
       ExitProcess_FreeStack, ExitProcess_FreeProc, RunOff, Step
  <2> QED  BY <2>1, <1>5, <1>6, <1>7, <1>8, <1>9, <1>11
<1> QED  BY <1>3, <1>4, <1>10, <1>11 DEF Next, ExitStep

\* The scheduler only follows links of the exact ring, none of which leads to
\* a process that has unlinked itself.
LEMMA NoResumeStep ==
    ASSUME IInv, Isolated, RingExact, NoResume, [Next]_vars
    PROVE  NoResume'
<1>1. cpu \in Contexts /\ current_process \in Nodes
  BY Typing DEF IInv, TypeOK
<1>2. CASE TimerInterrupt \/ Scheduler_Entry_Yield
  <2> DEFINE to == next[current_process]
  <2>1. PICK saved \in Contexts :
            Pit_Handler(saved) /\ (saved = cpu \/ cpu.at = "yield")
    <3>1. [cpu EXCEPT !.at = "resume"] \in Contexts
      BY <1>1 DEF Contexts, Labels, AfterStore
    <3> QED  BY <1>1, <1>2, <3>1 DEF Scheduler_Entry_Yield, TimerInterrupt
  <2>2. /\ regs' = [regs EXCEPT ![current_process] = saved]
        /\ current_process' = to /\ cpu' = regs'[to]
    BY <2>1 DEF Pit_Handler, Scheduler_Schedule
  <2>3. to \in Live \cup {Root} /\ to \notin Exited /\ to \in Nodes
    BY NextIsLive, Typing
  <2>4. Context(to).at \notin AfterStore
    <3>1. to = Root => Context(to).at \in {"boot", "run"}
      BY DEF IInv, PlacesOK
    <3> QED  BY <2>3, <3>1 DEF Live, Exited, AfterStore
  <2>5. CASE to = current_process
    <3>1. Context(to) = cpu
      BY <2>5 DEF Context
    <3>2. saved = cpu
      BY <2>1, <2>4, <3>1 DEF AfterStore
    <3> QED  BY <1>1, <2>2, <2>4, <2>5, <3>1, <3>2 DEF IInv, TypeOK, NoResume, AfterStore
  <2>6. CASE to # current_process
    <3>1. cpu' = Context(to)
      BY <1>1, <2>2, <2>3, <2>6 DEF Context, IInv, TypeOK
    <3> QED  BY <2>4, <3>1 DEF NoResume, AfterStore
  <2> QED  BY <2>5, <2>6
<1>3. CASE Scheduler_Entry \/ general_interrupt_handler_PageFault
  <2>1. cpu'.at \in {"search", "panic"}
    BY <1>1, <1>3 DEF Scheduler_Entry, general_interrupt_handler_PageFault, Step,
                      CallExit, Contexts
  <2> QED  BY <2>1 DEF NoResume
<1>4. CASE ExitProcess_Test \/ ExitProcess_Advance \/ ExitProcess_Load
           \/ ExitProcess_Store \/ ExitProcess_FreeStack \/ ExitProcess_FreeProc
           \/ SKEntry_Sti \/ Scheduler_CreateProcess
  BY <1>1, <1>4 DEF ExitProcess_Test, ExitProcess_Advance, ExitProcess_Load,
     ExitProcess_Store, ExitProcess_FreeStack, ExitProcess_FreeProc, SKEntry_Sti,
     Scheduler_CreateProcess, Step, NoResume, Contexts
<1>5. CASE RunOff
  BY <1>5 DEF RunOff, NoResume
<1>6. CASE UNCHANGED vars
  BY <1>6 DEF vars, NoResume
<1> QED  BY <1>2, <1>3, <1>4, <1>5, <1>6 DEF Next, ExitStep

\* With isolated exits the ring and the exit path are exactly known.
THEOREM IsolatedInvHolds ==
    ASSUME Isolated PROVE Spec => []IsolatedInv
<1>1. Init => IsolatedInv
  BY InitIInv, InitIsolated DEF IsolatedInv
<1>2. IsolatedInv /\ [Next]_vars => IsolatedInv'
  BY IInvInductive, RingExactStep, ExitersExactStep, NoResumeStep DEF IsolatedInv
<1> QED  BY <1>1, <1>2, PTL DEF Spec

(***************************************************************************)
(* The boot process and the live processes form a closed set, so nothing   *)
(* else is on the ring.                                                    *)
(***************************************************************************)
LEMMA IsolatedRing ==
    ASSUME IsolatedInv, Isolated PROVE RingIsLive
<1>1. IInv /\ RingExact /\ TypeOK /\ SkipsOnlyExited
  BY DEF IsolatedInv, IInv
<1>2. LiveInRing
  BY <1>1, SkipsImplyReachable
<1>3. OnRing(Root)
  BY DEF OnRing, Closed
<1> DEFINE S == Live \cup {Root}
<1>4. S \subseteq Created
  BY <1>1, Typing DEF Live, Created, Procs, TypeOK
<1>5. Closed(S) /\ S \in SUBSET Nodes
  <2>1. \A x \in S : next[x] \in S
    BY <1>1, <1>4, NextIsLive
  <2> QED  BY <1>1, <1>4, <2>1, Typing DEF Closed
<1>6. ASSUME NEW x \in Created, OnRing(x) PROVE x = Root \/ x \in Live
  BY <1>5, <1>6 DEF OnRing
<1> QED  BY <1>2, <1>3, <1>6 DEF RingIsLive, LiveInRing

\* The ring holds the boot process and the live processes, and nobody else.
THEOREM RingHoldsLive ==
    ASSUME Isolated PROVE Spec => []RingIsLive
<1>1. IsolatedInv => RingIsLive
  BY IsolatedRing
<1> QED  BY <1>1, IsolatedInvHolds, PTL

(***************************************************************************)
(* Every step of the kernel is a step of round robin, or changes neither   *)
(* the live processes nor the current one.                                 *)
(***************************************************************************)
LEMMA RoundRobinStep ==
    ASSUME IsolatedInv, Isolated, [Next]_vars
    PROVE  [RR!Next]_<<Live, current_process>>
<1>1. IInv /\ RingExact
  BY DEF IsolatedInv
<1>2. CASE Scheduler_CreateProcess
  <2>1. Live' = Live \cup {pid_counter}
    BY <1>1, <1>2, CreateStep
  <2>2. current_process = Root /\ current_process' = current_process
    BY <1>1, <1>2 DEF Scheduler_CreateProcess, IInv, PlacesOK
  <2>3. pid_counter \in 0 .. NumProcs - 1
    BY <1>1, <1>2, SchedAssumption DEF Scheduler_CreateProcess, IInv, TypeOK
  <2>4. \A q \in Live : q < pid_counter
    BY DEF Live
  <2>5. RR!Admit(pid_counter)
    BY <2>1, <2>2, <2>4 DEF RR!Admit, RR!Boot, Root
  <2> QED  BY <2>3, <2>5 DEF RR!Next
<1>3. CASE TimerInterrupt \/ Scheduler_Entry_Yield
  <2> DEFINE to == next[current_process]
  <2>1. current_process' = to
    BY <1>3 DEF TimerInterrupt, Scheduler_Entry_Yield, Pit_Handler, Scheduler_Schedule
  <2>2. Live' = Live
    BY <1>1, <1>3, InterruptStep
  <2>3. current_process \in Created
    BY <1>1, Typing
  <2>4. to \in Live \cup {Root}
    BY <1>1, <2>3, NextIsLive
  <2>5. /\ to < Top(current_process)
        /\ \A z \in Live : ~(to < z /\ z < Top(current_process))
    BY <1>1, <2>3 DEF IInv, SkipsOnlyExited
  <2>6. RR!Switch(to)
    BY <2>1, <2>2, <2>5 DEF RR!Switch, RR!Place, RR!Boot, Top, Root
  <2> QED  BY <2>4, <2>6 DEF RR!Next, RR!Boot, Root
<1>4. CASE ExitProcess_Store
  <2>1. Live' = Live \ {current_process} /\ current_process' = current_process
    BY <1>1, <1>4, StoreStep DEF ExitProcess_Store
  <2>2. cpu.at = "store"
    BY <1>4 DEF ExitProcess_Store
  <2>3. current_process \in Procs /\ Context(current_process) = cpu
        /\ current_process \in Created /\ pid_counter \in Nat
    BY <1>1, <2>2, ExiterIsMortal, Typing DEF Unlinking, IInv, TypeOK
  <2>4. current_process < pid_counter
    BY <2>3 DEF Created
  <2>5. current_process \in Live
    BY <2>2, <2>3, <2>4 DEF Live, Exited, AfterStore
  <2>6. RR!Leave
    BY <2>1, <2>5 DEF RR!Leave
  <2> QED  BY <2>6 DEF RR!Next
<1>5. CASE SKEntry_Sti
  BY <1>1, <1>5, StiStep DEF SKEntry_Sti
<1>6. CASE Scheduler_Entry \/ general_interrupt_handler_PageFault
  BY <1>1, <1>6, LeaveStep DEF Scheduler_Entry, general_interrupt_handler_PageFault, Step
<1>7. CASE ExitProcess_Test \/ ExitProcess_Advance \/ ExitProcess_Load
  BY <1>1, <1>7, SearchStep DEF ExitProcess_Test, ExitProcess_Advance, ExitProcess_Load, Step
<1>8. CASE ExitProcess_FreeStack \/ ExitProcess_FreeProc \/ RunOff
  BY <1>1, <1>8, TailStep DEF ExitProcess_FreeStack, ExitProcess_FreeProc, RunOff, Step
<1>9. CASE UNCHANGED vars
  BY <1>9 DEF vars, Live, Exited, Context
<1> QED  BY <1>2, <1>3, <1>4, <1>5, <1>6, <1>7, <1>8, <1>9 DEF Next, ExitStep

\* The scheduler implements round robin.
THEOREM Refinement ==
    ASSUME Isolated PROVE Spec => ImplementsRoundRobin
<1>1. Init => RR!Init
  BY SchedAssumption DEF Init, RR!Init, RR!Boot, Root, Live, Procs
<1>2. IsolatedInv /\ [Next]_vars => [RR!Next]_<<Live, current_process>>
  BY RoundRobinStep
<1> QED  BY <1>1, <1>2, IsolatedInvHolds, PTL DEF Spec, ImplementsRoundRobin, RR!Spec

(***************************************************************************)
(* The scheduler switches only to a process that has not unlinked itself   *)
(* and whose ProcessT is still allocated.                                  *)
(***************************************************************************)
THEOREM NeverSwitchesToExited ==
    ASSUME Isolated PROVE Spec => SwitchesToLive
<1> DEFINE A == current_process' # current_process =>
                    /\ current_process' \in Live \cup {Root}
                    /\ current_process' \in procs
<1>1. IsolatedInv /\ LiveHoldsMemory /\ [Next]_vars => [A]_vars
  <2> SUFFICES ASSUME IsolatedInv, LiveHoldsMemory, Next,
                      current_process' # current_process
               PROVE  /\ current_process' \in Live \cup {Root}
                      /\ current_process' \in procs
    OBVIOUS
  <2>1. TimerInterrupt \/ Scheduler_Entry_Yield
    BY DEF Next, ExitStep, Scheduler_CreateProcess, SKEntry_Sti, Scheduler_Entry,
       general_interrupt_handler_PageFault, ExitProcess_Test, ExitProcess_Advance,
       ExitProcess_Load, ExitProcess_Store, ExitProcess_FreeStack,
       ExitProcess_FreeProc, RunOff, Step
  <2>2. current_process' = next[current_process]
    BY <2>1 DEF TimerInterrupt, Scheduler_Entry_Yield, Pit_Handler, Scheduler_Schedule
  <2>3. current_process' \in Live \cup {Root}
    BY <2>2, Typing, NextIsLive DEF IsolatedInv
  <2> QED  BY <2>3 DEF LiveHoldsMemory
<1> QED  BY <1>1, IsolatedInvHolds, NobodyRunsOnFreedMemory, PTL
         DEF Spec, SwitchesToLive
=============================================================================
