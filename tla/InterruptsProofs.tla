------------------------- MODULE InterruptsProofs -------------------------
(***************************************************************************)
(* Proofs about Interrupts, for every number of processes, every set of    *)
(* lines and exceptions and every width of the tick counter, with and      *)
(* without a serial port.                                                  *)
(***************************************************************************)
EXTENDS Interrupts, TLAPS, WellFoundedInduction, FiniteSetTheorems

-----------------------------------------------------------------------------
\* the handlers that can run, and what was acknowledged to start one
FrameType ==
    [vector : Int, line : (0 .. 15) \cup {None}, logged : BOOLEAN]

Served(line) == IF line = None THEN {} ELSE {line, Input(line)}

(***************************************************************************)
(* What starts a handler: a system call is never a device's; vector 32 is  *)
(* the timer's, or the int $32 of a process that has left.                 *)
(***************************************************************************)
Cause(f) ==
    /\ f.vector = 128 => f.line = None
    /\ f.vector = 32 => f.line = Timer \/ current \notin live

(***************************************************************************)
(* What is in service is exactly the line of the one handler that runs.  A *)
(* second handler is one that its own log line made fault, and so does it  *)
(* again: it never gets past it, and no handler below it goes on.  Or a    *)
(* system call has faulted, and nothing is in service.                     *)
(***************************************************************************)
FramesInv ==
    /\ irr \subseteq 0 .. 15
    /\ frames \in Seq(FrameType)
    /\ frames = <<>> /\ ~stopped => inService = {}
    /\ Len(frames) = 1 => inService = Served(frames[1].line) /\ Cause(frames[1])
    /\ Len(frames) > 1 =>
          \/ ~Last(frames).logged /\ Last(frames).vector # 32 /\ SerialReady /\ switched
          \/ Len(frames) = 2 /\ frames[2].vector = 14 /\ inService = {}

\* an EOI to each controller ends the request of either
LEMMA EndOfServed ==
    ASSUME NEW line \in (0 .. 15) \cup {None}
    PROVE  Idt_EndOfInterrupt(Served(line)) = {}
<1>1. CASE line = None
  BY <1>1 DEF Idt_EndOfInterrupt, Served
<1>2. CASE line \in 0 .. 7
  BY <1>2 DEF Idt_EndOfInterrupt, Served, Input, None
<1>3. CASE line \in 8 .. 15
  BY <1>3 DEF Idt_EndOfInterrupt, Served, Input, None
<1> QED  BY <1>1, <1>2, <1>3

\* The handler that goes on past its log line leaves nothing in service with
\* its EOI; it is the only one, or the fault of a system call.
LEMMA OneHandler ==
    ASSUME FramesInv, Handling
    PROVE  /\ Idt_EndOfInterrupt(inService) = {}
           /\ Top.vector # 14 => /\ Len(frames) = 1 /\ Top = frames[1] /\ Front(frames) = <<>>
                                 /\ inService = Served(frames[1].line) /\ Cause(frames[1])
<1>1. frames \in Seq(FrameType) /\ Len(frames) \in Nat /\ Len(frames) # 0
  BY DEF FramesInv, Handling
<1>2. CASE Len(frames) > 1
  <2>1. Len(frames) = 2 /\ frames[2].vector = 14 /\ inService = {}
    BY <1>2 DEF FramesInv, Handling, Top
  <2>2. Top = frames[2]
    BY <2>1 DEF Top, Last
  <2>3. Idt_EndOfInterrupt(inService) = {}
    BY <2>1 DEF Idt_EndOfInterrupt
  <2> QED  BY <2>1, <2>2, <2>3
<1>3. CASE ~(Len(frames) > 1)
  <2>1. Len(frames) = 1
    <3> DEFINE k == Len(frames)
    <3>1. k \in Nat /\ k # 0 /\ ~(k > 1)
      BY <1>1, <1>3
    <3> HIDE DEF k
    <3>2. k = 1
      BY <3>1
    <3> QED  BY <3>2 DEF k
  <2>2. Top = frames[1]
    BY <2>1 DEF Top, Last
  <2>3. Front(frames) = <<>>
    BY <2>1, <1>1 DEF Front
  <2>4. inService = Served(frames[1].line) /\ Cause(frames[1])
    BY <2>1 DEF FramesInv
  <2>5. frames[1].line \in (0 .. 15) \cup {None}
    <3>1. frames[1] \in FrameType
      BY <1>1, <2>1
    <3> QED  BY <3>1 DEF FrameType
  <2>6. Idt_EndOfInterrupt(inService) = {}
    BY <2>4, <2>5, EndOfServed
  <2> QED  BY <2>1, <2>2, <2>3, <2>4, <2>6
<1> QED  BY <1>2, <1>3

\* Two handlers are neither none nor one.
LEMMA TwoOrMore ==
    ASSUME NEW s, Len(s) > 1
    PROVE  s # <<>> /\ Len(s) # 1
<1>1. Len(<<>>) = 0
  OBVIOUS
<1>2. ~(0 > 1) /\ ~(1 > 1)
  OBVIOUS
<1> QED  BY <1>1, <1>2, Zenon

\* With no handler and nothing in service there is nothing else to show.
LEMMA NothingRuns ==
    ASSUME FramesInv, frames' = <<>>, inService' = {}, irr' = irr
    PROVE  FramesInv'
<1>1. Len(frames') = 0 /\ frames' \in Seq(FrameType)
  OBVIOUS
<1> QED  BY <1>1 DEF FramesInv

LEMMA FramesInit == Init => FramesInv
BY DEF Init, FramesInv, FrameType

LEMMA FramesStep == FramesInv /\ [Next]_vars => FramesInv'
<1> SUFFICES ASSUME FramesInv, [Next]_vars PROVE FramesInv'
  OBVIOUS
<1>1. ASSUME NEW l \in Lines, Request(l) PROVE FramesInv'
  <2>1. l \in 0 .. 15
    BY InterruptsAssumption
  <2> QED  BY <1>1, <2>1 DEF FramesInv, Request, Cause
<1>2. ASSUME NEW l \in Lines, Interrupt(l) PROVE FramesInv'
  <2> DEFINE f == Frame(IF Vector(l) \in Gates THEN Vector(l) ELSE 13, l)
  <2>1. l \in 0 .. 15 /\ l # None
    BY InterruptsAssumption DEF None
  <2>2. f \in FrameType /\ f.line = l /\ f.vector # 128 /\ (f.vector = 32 => l = Timer)
    BY <2>1 DEF Frame, FrameType, Vector, Timer
  <2>3. frames' = <<f>> /\ Len(frames') = 1 /\ frames'[1] = f
    BY <1>2 DEF Interrupt
  <2>4. inService' = Served(l)
    BY <1>2, <2>1 DEF Interrupt, Running, FramesInv, Served
  <2>5. irr' \subseteq 0 .. 15
    BY <1>2 DEF Interrupt, FramesInv
  <2> HIDE DEF f
  <2>6. frames' \in Seq(FrameType) /\ Cause(f)'
    BY <2>2, <2>3 DEF Cause
  <2> QED  BY <2>2, <2>3, <2>4, <2>5, <2>6 DEF FramesInv, Cause
<1>3. ASSUME NEW v \in Exceptions \cup {128}, Trap(v) PROVE FramesInv'
  <2> DEFINE f == Frame(v, None)
  <2>1. f \in FrameType /\ f.line = None /\ f.vector # 32
    BY InterruptsAssumption DEF Frame, FrameType
  <2>2. frames' = <<f>> /\ Len(frames') = 1 /\ frames'[1] = f
    BY <1>3 DEF Trap
  <2>3. inService' = Served(None) /\ irr' \subseteq 0 .. 15
    BY <1>3 DEF Trap, Acts, Running, FramesInv, Served
  <2> HIDE DEF f
  <2>4. frames' \in Seq(FrameType)
    BY <2>1, <2>2
  <2> QED  BY <2>1, <2>2, <2>3, <2>4 DEF FramesInv, Cause
<1>4. CASE Handler_Log
  <2>1. frames # <<>> /\ Len(frames) \in Nat \ {0} /\ frames \in Seq(FrameType)
    BY <1>4 DEF Handler_Log, FramesInv
  <2>2. CASE Top.vector # 32 /\ SerialReady /\ switched
    <3>1. CASE Len(frames) < MaxNest
      <4> DEFINE f == Frame(14, None)
      <4>1. f \in FrameType /\ ~f.logged /\ f.vector # 32
        BY DEF Frame, FrameType
      <4>2. frames' = Append(frames, f)
        BY <1>4, <2>2, <3>1 DEF Handler_Log
      <4> HIDE DEF f
      <4>3. frames' \in Seq(FrameType) /\ Len(frames') > 1 /\ Last(frames') = f
        BY <2>1, <4>1, <4>2 DEF Last
      <4>4. Len(frames') # 1 /\ frames' # <<>>
        BY <4>3, TwoOrMore
      <4>5. irr' \subseteq 0 .. 15 /\ switched' = switched
        BY <1>4 DEF Handler_Log, FramesInv
      <4> QED  BY <2>2, <4>1, <4>3, <4>4, <4>5 DEF FramesInv
    <3>2. CASE ~(Len(frames) < MaxNest)
      BY <1>4, <2>2, <3>2 DEF FramesInv, Handler_Log, Cause
    <3> QED  BY <3>1, <3>2
  <2>3. CASE ~(Top.vector # 32 /\ SerialReady /\ switched)
    <3>1. frames' = [frames EXCEPT ![Len(frames)].logged = TRUE]
      BY <1>4, <2>3 DEF Handler_Log
    <3>2. PICK n \in Nat \ {0} : n = Len(frames)
      BY <2>1
    <3>3. frames[n] \in FrameType
      BY <2>1, <3>2
    <3>4. [frames[n] EXCEPT !.logged = TRUE] \in FrameType
      BY <3>3 DEF FrameType
    <3>5. frames' \in Seq(FrameType)
      BY <2>1, <3>1, <3>2, <3>4
    <3>6. Len(frames') = n /\ frames'[n] = [frames[n] EXCEPT !.logged = TRUE]
      <4>1. DOMAIN frames = 1 .. n /\ n \in 1 .. n
        BY <2>1, <3>2
      <4>2. DOMAIN frames' = 1 .. n /\ frames'[n] = [frames[n] EXCEPT !.logged = TRUE]
        BY <3>1, <3>2, <4>1
      <4>3. PICK k \in Nat : k = Len(frames') /\ DOMAIN frames' = 1 .. k
        BY <3>5
      <4>4. k = n
        BY <4>2, <4>3
      <4> QED  BY <4>2, <4>3, <4>4
    <3>7. frames'[n].line = frames[n].line /\ frames'[n].vector = frames[n].vector
      BY <3>3, <3>6 DEF FrameType
    <3>8. n = 1 \/ (n = 2 /\ frames[2].vector = 14 /\ inService = {})
      <4>1. n > 1 => n = 2 /\ frames[2].vector = 14 /\ inService = {}
        BY <2>3, <3>2 DEF FramesInv, Top
      <4> QED  BY <3>2, <4>1
    <3>9. n = 1 => inService = Served(frames[1].line) /\ Cause(frames[1])
      BY <3>2 DEF FramesInv
    <3>10. UNCHANGED <<irr, inService, live, current>> /\ irr \subseteq 0 .. 15
      BY <1>4 DEF Handler_Log, FramesInv
    <3>11. frames' # <<>>
      BY <3>2, <3>6
    <3>12. n = 1 => inService' = Served(frames'[1].line) /\ Cause(frames[1])'
      BY <3>7, <3>9, <3>10 DEF Cause
    <3>13. Len(frames') = n /\ irr' \subseteq 0 .. 15
      BY <3>6, <3>10
    <3>14. n = 2 => Len(frames') = 2 /\ frames'[2].vector = 14 /\ inService' = {}
      BY <3>7, <3>8, <3>10, <3>13
    <3>15. n = 1 \/ n = 2
      BY <3>8
    <3> QED  BY <3>5, <3>11, <3>12, <3>13, <3>14, <3>15 DEF FramesInv
  <2> QED  BY <2>2, <2>3
<1>5. CASE SegmentationFault
  <2>1. frames' = <<>> /\ inService' = {} /\ irr' = irr
    BY <1>5, OneHandler DEF SegmentationFault, Pit_Handler
  <2> QED  BY <2>1, NothingRuns
<1>6. CASE SegmentationFault_Undefined
  BY <1>6 DEF SegmentationFault_Undefined, FramesInv, Cause
<1>7. CASE Panic
  BY <1>7 DEF Panic, FramesInv, Cause
<1>8. CASE HandleTimer
  <2>1. frames' = <<>> /\ inService' = {} /\ irr' = irr
    BY <1>8, OneHandler DEF HandleTimer, Pit_Handler
  <2> QED  BY <2>1, NothingRuns
<1>9. CASE HandleOther
  <2>1. frames' = <<>> /\ inService' = {} /\ irr' = irr
    BY <1>9, OneHandler DEF HandleOther, Returns
  <2> QED  BY <2>1, NothingRuns
<1>10. ASSUME NEW n \in Durations, Sleep(n) PROVE FramesInv'
  BY <1>10 DEF Sleep, FramesInv, Cause
<1>11. ASSUME NEW p \in Sleepers, Wake(p) PROVE FramesInv'
  BY <1>11 DEF Wake, FramesInv, Cause
<1>12. CASE UNCHANGED vars
  BY <1>12 DEF vars, FramesInv, Cause
<1>13. CASE Scheduler_Entry
  <2>1. frames = <<>> /\ frames' = <<>> /\ inService' = {} /\ irr' = irr
    BY <1>13 DEF Scheduler_Entry, Acts, Running, FramesInv
  <2> QED  BY <2>1, NothingRuns
<1>14. CASE Scheduler_Entry_Switch
  <2> DEFINE f == Frame(32, None)
  <2>1. f \in FrameType /\ f.line = None /\ f.vector = 32
    BY DEF Frame, FrameType
  <2>2. frames' = <<f>> /\ Len(frames') = 1 /\ frames'[1] = f
    BY <1>14 DEF Scheduler_Entry_Switch
  <2>3. inService' = Served(None) /\ irr' \subseteq 0 .. 15 /\ current' \notin live'
    BY <1>14 DEF Scheduler_Entry_Switch, Running, FramesInv, Served
  <2> HIDE DEF f
  <2>4. frames' \in Seq(FrameType)
    BY <2>1, <2>2
  <2> QED  BY <2>1, <2>2, <2>3, <2>4 DEF FramesInv, Cause
<1>15. CASE Syscall_Handler
  <2>1. /\ Len(frames) = 1 /\ Front(frames) = <<>> /\ inService = Served(frames[1].line)
        /\ frames[1].line = None
    BY <1>15, OneHandler DEF Syscall_Handler, Cause
  <2>2. inService = {} /\ irr' = irr /\ irr \subseteq 0 .. 15 /\ frames \in Seq(FrameType)
    BY <1>15, <2>1 DEF Syscall_Handler, Served, FramesInv
  <2>3. CASE Returns
    <3>1. frames' = <<>> /\ inService' = {}
      BY <1>15, <2>1, <2>3, OneHandler DEF Syscall_Handler, Returns
    <3> QED  BY <2>2, <3>1, NothingRuns
  <2>4. CASE frames' = Append(frames, Frame(14, None)) /\ UNCHANGED <<inService, stopped>>
    <3> DEFINE f == Frame(14, None)
    <3>1. f \in FrameType /\ f.vector = 14
      BY DEF Frame, FrameType
    <3>2. frames' = Append(frames, f)
      BY <2>4
    <3> HIDE DEF f
    <3>3. Len(frames') = Len(frames) + 1 /\ frames'[Len(frames) + 1] = f
          /\ frames' \in Seq(FrameType)
      BY <2>2, <3>1, <3>2
    <3>4. Len(frames') = 2 /\ frames'[2] = f
      BY <2>1, <3>3
    <3>5. Len(frames') > 1
      BY <3>4
    <3>6. frames' # <<>> /\ Len(frames') # 1
      BY <3>5, TwoOrMore
    <3> QED  BY <2>2, <2>4, <3>1, <3>3, <3>4, <3>6 DEF FramesInv
  <2>5. CASE stopped' = TRUE /\ UNCHANGED <<inService, frames>>
    BY <1>15, <2>5 DEF Syscall_Handler, FramesInv, Cause
  <2> QED  BY <1>15, <2>3, <2>4, <2>5 DEF Syscall_Handler
<1> QED
  BY <1>1, <1>2, <1>3, <1>4, <1>5, <1>6, <1>7, <1>8, <1>9, <1>10, <1>11, <1>12, <1>13,
     <1>14, <1>15 DEF Next

LEMMA FramesInvHolds == Spec => []FramesInv
<1> QED  BY FramesInit, FramesStep, PTL DEF Spec

(***************************************************************************)
(* Whatever way handlers end, no request is in service while none runs.    *)
(***************************************************************************)
THEOREM NothingIsHeldBack == Spec => []NothingHeldBack
<1>1. FramesInv => NothingHeldBack
  BY DEF FramesInv, NothingHeldBack, Running
<1> QED  BY <1>1, FramesInvHolds, PTL

-----------------------------------------------------------------------------
(***************************************************************************)
(* The types.  That the current process takes part needs that there is a   *)
(* next one in turn, the largest number below it.                          *)
(***************************************************************************)

\* Among finitely many processes one has the largest number.
LEMMA Largest ==
    ASSUME NEW S \in SUBSET (Procs \cup {Boot}), S # {}
    PROVE  \E q \in S : \A r \in S : r =< q
<1>1. PICK n \in Nat : Procs \subseteq 0 .. n
  <2>1. Procs \subseteq Nat /\ \E n \in Procs : Procs \subseteq 0 .. n
    BY InterruptsAssumption
  <2> QED  BY <2>1
<1>2. \A q \in S : q \in Int /\ n - q \in Nat
  BY <1>1 DEF Boot
<1>3. PICK T \in SUBSET Nat : T = {n - q : q \in S}
  BY <1>2
<1>4. T # {}
  BY <1>3
<1>5. PICK m \in T : \A k \in T : ~(<<k, m>> \in OpToRel(<, Nat))
  BY <1>4, NatLessThanWellFounded, WFMin
<1>6. \A k \in T : <<k, m>> \in OpToRel(<, Nat) <=> k < m
  BY <1>5 DEF OpToRel
<1>7. PICK q \in S : m = n - q
  BY <1>3
<1>8. ASSUME NEW r \in S PROVE r =< q
  <2>1. n - r \in T
    BY <1>3
  <2>2. ~(n - r < n - q)
    BY <1>5, <1>6, <1>7, <2>1
  <2> QED  BY <1>2, <2>2
<1> QED  BY <1>8

\* The next process in turn is one of those that take turns.
LEMMA AfterIsAlive ==
    ASSUME NEW p, NEW alive \in SUBSET (Procs \cup {Boot}), alive # {}
    PROVE  After(p, alive) \in alive
<1>1. PICK below : below = {q \in alive : q < p \/ p = Boot}
  OBVIOUS
<1>2. PICK among : among = IF below \ {p} # {} THEN below \ {p} ELSE alive
  OBVIOUS
<1>3. among \in SUBSET (Procs \cup {Boot}) /\ among # {} /\ among \subseteq alive
  BY <1>1, <1>2
<1>4. PICK q \in among : \A r \in among : r =< q
  BY <1>3, Largest
<1>5. After(p, alive) = CHOOSE x \in among : \A r \in among : r =< x
  BY <1>1, <1>2 DEF After
<1>6. (CHOOSE x \in among : \A r \in among : r =< x) \in among
  BY <1>4
<1> QED  BY <1>3, <1>5, <1>6

\* What a line becomes has a gate.
LEMMA LinesHaveGates ==
    ASSUME NEW l \in Lines
    PROVE  /\ (IF Vector(l) \in Gates THEN Vector(l) ELSE 13) \in Gates
           /\ {l, Input(l)} \subseteq Lines \cup {2}
BY DEF Gates, Input

\* TypeOK but for the two flags
TypesButFlags ==
    /\ irr \subseteq Lines
    /\ inService \subseteq Lines \cup {2}
    /\ Len(frames) =< MaxNest
    /\ \A i \in DOMAIN frames : frames[i].vector \in Gates
    /\ live \subseteq Procs \cup {Boot} /\ Boot \in live
    /\ current \in Procs \cup {Boot}
    /\ tick \in 0 .. TickMod - 1

Flags == stopped \in BOOLEAN /\ switched \in BOOLEAN

TypeInv == TypesButFlags /\ Flags /\ FramesInv

LEMMA TypeInit == Init => TypeInv
<1> SUFFICES ASSUME Init PROVE TypeInv
  OBVIOUS
<1>1. FramesInv
  BY FramesInit
<1>2. Len(frames) = 0 /\ DOMAIN frames = {}
  BY DEF Init
<1>3. TypesButFlags
  BY <1>2, InterruptsAssumption DEF Init, TypesButFlags
<1>4. Flags
  BY DEF Init, Flags
<1> QED  BY <1>1, <1>3, <1>4 DEF TypeInv

\* A tick: the next process in turn runs.
LEMMA TickTypes ==
    ASSUME TypeInv, NEW alive \in SUBSET (Procs \cup {Boot}), alive # {},
           NEW line, Pit_Handler(alive, line)
    PROVE  /\ inService' \subseteq Lines \cup {2}
           /\ current' \in alive
           /\ tick' \in 0 .. TickMod - 1
<1>1. inService' \subseteq inService
  BY DEF Pit_Handler, Idt_EndOfInterrupt
<1>2. current' \in alive
  BY AfterIsAlive DEF Pit_Handler
<1>3. tick' \in 0 .. TickMod - 1
  BY InterruptsAssumption DEF TypeInv, TypesButFlags, Pit_Handler, Tick
<1> QED  BY <1>1, <1>2, <1>3 DEF TypeInv, TypesButFlags, Pit_Handler

\* A new handler, with a gate, or a handler past its log line.
LEMMA FramesTypes ==
    ASSUME TypeInv, NEW f, f.vector \in Gates,
           \/ frames' = <<f>>
           \/ frames' = Append(frames, f) /\ Len(frames) < MaxNest
    PROVE  Len(frames') =< MaxNest /\ \A i \in DOMAIN frames' : frames'[i].vector \in Gates
<1>1. MaxNest \in Nat \ {0} /\ frames \in Seq(FrameType)
  BY InterruptsAssumption DEF TypeInv, FramesInv
<1>2. \A i \in 1 .. Len(frames) : frames[i].vector \in Gates
  BY <1>1 DEF TypeInv, TypesButFlags
<1>3. CASE frames' = <<f>>
  <2>1. Len(frames') = 1 /\ DOMAIN frames' = 1 .. 1 /\ frames'[1] = f
    BY <1>3
  <2> QED  BY <1>1, <2>1
<1>4. CASE frames' = Append(frames, f) /\ Len(frames) < MaxNest
  <2>1. /\ Len(frames) \in Nat /\ Len(frames') = Len(frames) + 1
        /\ DOMAIN frames' = 1 .. Len(frames) + 1
        /\ frames'[Len(frames) + 1] = f
        /\ \A i \in 1 .. Len(frames) : frames'[i] = frames[i]
    BY <1>1, <1>4
  <2> QED  BY <1>1, <1>2, <1>4, <2>1
<1> QED  BY <1>3, <1>4

\* A flag is left alone or set.
LEMMA FlagsStep == ASSUME TypeInv, [Next]_vars PROVE Flags'
<1>1. stopped \in BOOLEAN /\ switched \in BOOLEAN
  BY DEF TypeInv, Flags
<1>2. stopped' = stopped \/ stopped' = TRUE
  BY Zenon DEF Next, vars, Request, Interrupt, Trap, Handler_Log, SegmentationFault,
     SegmentationFault_Undefined, Panic, HandleTimer, Syscall_Handler, HandleOther,
     Returns, Scheduler_Entry, Scheduler_Entry_Switch, Sleep, Wake
<1>3. switched' = switched \/ switched' = TRUE
  BY Zenon DEF Next, vars, Request, Interrupt, Trap, Handler_Log, SegmentationFault,
     SegmentationFault_Undefined, Panic, HandleTimer, Syscall_Handler, HandleOther,
     Returns, Scheduler_Entry, Scheduler_Entry_Switch, Sleep, Wake, Pit_Handler
<1> QED  BY <1>1, <1>2, <1>3, Zenon DEF Flags

LEMMA TypesStep == ASSUME TypeInv, [Next]_vars PROVE TypesButFlags'
<1>1. ASSUME NEW l \in Lines, Request(l) PROVE TypesButFlags'
  BY <1>1 DEF TypeInv, TypesButFlags, Request
<1>2. ASSUME NEW l \in Lines, Interrupt(l) PROVE TypesButFlags'
  <2>1. PICK f : f = Frame(IF Vector(l) \in Gates THEN Vector(l) ELSE 13, l)
    OBVIOUS
  <2>2. f.vector \in Gates /\ frames' = <<f>>
    BY <1>2, <2>1, LinesHaveGates DEF Interrupt, Frame
  <2>3. Len(frames') =< MaxNest /\ \A i \in DOMAIN frames' : frames'[i].vector \in Gates
    BY <2>2, FramesTypes
  <2>4. inService' \subseteq Lines \cup {2}
    BY <1>2, LinesHaveGates DEF TypeInv, TypesButFlags, Interrupt
  <2> QED  BY <1>2, <2>3, <2>4 DEF TypeInv, TypesButFlags, Interrupt
<1>3. ASSUME NEW v \in Exceptions \cup {128}, Trap(v) PROVE TypesButFlags'
  <2>1. PICK f : f = Frame(v, None)
    OBVIOUS
  <2>2. f.vector \in Gates /\ frames' = <<f>>
    BY <1>3, <2>1, InterruptsAssumption DEF Trap, Frame, Gates
  <2>3. Len(frames') =< MaxNest /\ \A i \in DOMAIN frames' : frames'[i].vector \in Gates
    BY <2>2, FramesTypes
  <2> QED  BY <1>3, <2>3 DEF TypeInv, TypesButFlags, Trap
<1>4. CASE Handler_Log
  <2>1. \/ frames' = Append(frames, Frame(14, None)) /\ Len(frames) < MaxNest
        \/ frames' = frames
        \/ frames' = [frames EXCEPT ![Len(frames)].logged = TRUE]
    BY <1>4 DEF Handler_Log
  <2>2. Len(frames') =< MaxNest /\ \A i \in DOMAIN frames' : frames'[i].vector \in Gates
    <3>1. frames \in Seq(FrameType) /\ Len(frames) =< MaxNest
          /\ \A i \in DOMAIN frames : frames[i].vector \in Gates
      BY DEF TypeInv, TypesButFlags, FramesInv
    <3>2. CASE frames' = Append(frames, Frame(14, None)) /\ Len(frames) < MaxNest
      <4>1. Frame(14, None).vector \in Gates
        BY DEF Frame, Gates
      <4> QED  BY <3>2, <4>1, FramesTypes
    <3>3. CASE frames' = frames
      BY <3>1, <3>3
    <3>4. CASE frames' = [frames EXCEPT ![Len(frames)].logged = TRUE]
      <4>1. /\ DOMAIN frames' = DOMAIN frames /\ Len(frames') = Len(frames)
            /\ \A i \in DOMAIN frames :
                  frames'[i] = IF i = Len(frames) THEN [frames[i] EXCEPT !.logged = TRUE]
                                                  ELSE frames[i]
        <5>1. frames' \in Seq(FrameType)
          BY FramesStep DEF TypeInv, FramesInv
        <5>2. DOMAIN frames' = DOMAIN frames
          BY <3>4
        <5>3. PICK m \in Nat : m = Len(frames) /\ DOMAIN frames = 1 .. m
          BY <3>1
        <5>4. PICK l \in Nat : l = Len(frames') /\ DOMAIN frames' = 1 .. l
          BY <5>1
        <5>5. l = m
          BY <5>2, <5>3, <5>4
        <5>6. \A i \in DOMAIN frames :
                 frames'[i] = IF i = Len(frames) THEN [frames[i] EXCEPT !.logged = TRUE]
                                                 ELSE frames[i]
          BY <3>4
        <5> QED  BY <5>2, <5>3, <5>4, <5>5, <5>6
      <4>2. \A i \in DOMAIN frames : frames[i] \in FrameType
        BY <3>1
      <4>3. \A i \in DOMAIN frames : frames'[i].vector = frames[i].vector
        BY <4>1, <4>2 DEF FrameType
      <4> QED  BY <3>1, <4>1, <4>3
    <3> QED  BY <2>1, <3>2, <3>3, <3>4
  <2> QED  BY <1>4, <2>2 DEF TypeInv, TypesButFlags, Handler_Log
<1>5. CASE SegmentationFault
  <2>1. PICK alive \in SUBSET (Procs \cup {Boot}) : alive = live \ {current} /\ alive # {}
    BY <1>5 DEF SegmentationFault, TypeInv, TypesButFlags, Boot
  <2>2. Pit_Handler(alive, None) /\ live' = alive /\ Boot \in alive
    BY <1>5, <2>1 DEF SegmentationFault, TypeInv, TypesButFlags
  <2>3. frames' = <<>> /\ Len(frames') = 0 /\ DOMAIN frames' = {}
    BY <1>5 DEF SegmentationFault
  <2>4. /\ inService' \subseteq Lines \cup {2} /\ current' \in alive
        /\ tick' \in 0 .. TickMod - 1
    BY <2>1, <2>2, TickTypes
  <2> QED  BY <1>5, <2>1, <2>2, <2>3, <2>4, InterruptsAssumption
           DEF SegmentationFault, TypeInv, TypesButFlags
<1>6. CASE SegmentationFault_Undefined
  BY <1>6 DEF SegmentationFault_Undefined, TypeInv, TypesButFlags
<1>7. CASE Panic
  BY <1>7 DEF Panic, TypeInv, TypesButFlags
<1>8. CASE HandleTimer
  <2>1. live \in SUBSET (Procs \cup {Boot}) /\ live # {}
    BY DEF TypeInv, TypesButFlags
  <2>2. Pit_Handler(live, Top.line) /\ live' = live
    BY <1>8 DEF HandleTimer
  <2>3. frames' = <<>> /\ Len(frames') = 0 /\ DOMAIN frames' = {}
    BY <1>8, OneHandler DEF HandleTimer, TypeInv
  <2>4. /\ inService' \subseteq Lines \cup {2} /\ current' \in live
        /\ tick' \in 0 .. TickMod - 1
    BY <2>1, <2>2, TickTypes
  <2> QED  BY <1>8, <2>2, <2>3, <2>4, InterruptsAssumption DEF HandleTimer, TypeInv, TypesButFlags
<1>9. CASE HandleOther
  <2>1. frames' = <<>> /\ Len(frames') = 0 /\ DOMAIN frames' = {}
    BY <1>9, OneHandler DEF HandleOther, Returns, TypeInv
  <2>2. inService' \subseteq Lines \cup {2}
    <3>1. inService' \subseteq inService
      BY <1>9 DEF HandleOther, Returns, Idt_EndOfInterrupt
    <3> QED  BY <3>1 DEF TypeInv, TypesButFlags
  <2>3. UNCHANGED <<irr, live, current, tick>>
    BY <1>9 DEF HandleOther
  <2>4. 0 =< MaxNest
    BY InterruptsAssumption
  <2> QED  BY <2>1, <2>2, <2>3, <2>4 DEF TypeInv, TypesButFlags
<1>10. ASSUME NEW n \in Durations, Sleep(n) PROVE TypesButFlags'
  BY <1>10 DEF Sleep, TypeInv, TypesButFlags
<1>11. ASSUME NEW p \in Sleepers, Wake(p) PROVE TypesButFlags'
  BY <1>11 DEF Wake, TypeInv, TypesButFlags
<1>12. CASE UNCHANGED vars
  BY <1>12 DEF vars, TypeInv, TypesButFlags
<1>13. CASE Scheduler_Entry
  BY <1>13 DEF Scheduler_Entry, Acts, TypeInv, TypesButFlags
<1>14. CASE Scheduler_Entry_Switch
  <2>1. PICK f : f = Frame(32, None)
    OBVIOUS
  <2>2. f.vector \in Gates /\ frames' = <<f>>
    BY <1>14, <2>1 DEF Scheduler_Entry_Switch, Frame, Gates
  <2>3. Len(frames') =< MaxNest /\ \A i \in DOMAIN frames' : frames'[i].vector \in Gates
    BY <2>2, FramesTypes
  <2> QED  BY <1>14, <2>3 DEF TypeInv, TypesButFlags, Scheduler_Entry_Switch
<1>15. CASE Syscall_Handler
  <2>1. Len(frames') =< MaxNest /\ \A i \in DOMAIN frames' : frames'[i].vector \in Gates
    <3>1. CASE Returns
      <4>1. frames' = <<>>
        BY <1>15, <3>1, OneHandler DEF Syscall_Handler, Returns, TypeInv
      <4>2. Len(frames') = 0 /\ DOMAIN frames' = {}
        BY <4>1
      <4> QED  BY <4>2, InterruptsAssumption
    <3>2. CASE Len(frames) < MaxNest /\ frames' = Append(frames, Frame(14, None))
      <4>1. Frame(14, None).vector \in Gates
        BY DEF Frame, Gates
      <4> QED  BY <3>2, <4>1, FramesTypes
    <3>3. CASE frames' = frames
      BY <3>3 DEF TypeInv, TypesButFlags
    <3> QED  BY <1>15, <3>1, <3>2, <3>3 DEF Syscall_Handler
  <2>2. inService' \subseteq Lines \cup {2}
    BY <1>15 DEF Syscall_Handler, Returns, Idt_EndOfInterrupt, TypeInv, TypesButFlags
  <2> QED  BY <1>15, <2>1, <2>2 DEF Syscall_Handler, TypeInv, TypesButFlags
<1> QED
  BY <1>1, <1>2, <1>3, <1>4, <1>5, <1>6, <1>7, <1>8, <1>9, <1>10, <1>11, <1>12, <1>13,
     <1>14, <1>15 DEF Next

LEMMA TypeStep == TypeInv /\ [Next]_vars => TypeInv'
BY TypesStep, FlagsStep, FramesStep DEF TypeInv

(***************************************************************************)
(* Every request and every exception reaches a gate, handlers nest no      *)
(* deeper than the bound, and the boot process always takes turns (idt.c:  *)
(* 64-82, 161-201, 219-265).                                               *)
(***************************************************************************)
THEOREM InterruptTypeCorrect == Spec => []TypeOK
<1>1. TypeInv => TypeOK
  BY DEF TypeInv, TypesButFlags, Flags, TypeOK
<1> QED  BY <1>1, TypeInit, TypeStep, PTL DEF Spec

-----------------------------------------------------------------------------
Sleep0 == [asleep : {TRUE}, eticks : Int, owed : Nat, wraps : BOOLEAN,
           with : SUBSET (Procs \cup {Boot})]

\* how many of those that p went to sleep with have left, and are switched
\* away from
Left(p) == Cardinality(sleep[p].with \ (live \cup {current}))

(***************************************************************************)
(* The periods that are owed to a sleep that does not wrap are those that  *)
(* are missing to eticks, and one for each of the processes that left; or  *)
(* there are no more than these.                                           *)
(***************************************************************************)
Owes(p) ==
    /\ live \subseteq sleep[p].with /\ current \in sleep[p].with
    /\ ~sleep[p].wraps =>
          \/ sleep[p].owed =< Left(p)
          \/ /\ tick + sleep[p].owed =< sleep[p].eticks + Left(p)
             /\ sleep[p].eticks < TickMod

SleepInv ==
    /\ TypeInv
    /\ sleep \in [Procs -> {Awake} \cup Sleep0]
    /\ \A p \in Procs : sleep[p].asleep => Owes(p)

\* the remainder of a number that is small enough already
LEMMA Small == \A m \in Nat \ {0} : \A k \in 0 .. m - 1 : k % m = k
OBVIOUS

LEMMA ProcsFinite == IsFiniteSet(Procs \cup {Boot})
<1>1. PICK n \in Nat : Procs \subseteq 0 .. n
  <2>1. Procs \subseteq Nat /\ \E n \in Procs : Procs \subseteq 0 .. n
    BY InterruptsAssumption
  <2> QED  BY <2>1
<1>2. IsFiniteSet(-1 .. n)
  BY <1>1, FS_Interval
<1>3. Procs \cup {Boot} \subseteq -1 .. n
  BY <1>1 DEF Boot
<1> QED  BY <1>2, <1>3, FS_Subset

\* Sets of processes are counted; a part is no larger, and a part that lacks
\* one is smaller.
LEMMA Counting ==
    ASSUME NEW A \in SUBSET (Procs \cup {Boot}), NEW B \in SUBSET A
    PROVE  /\ Cardinality(A) \in Nat /\ Cardinality(B) \in Nat
           /\ Cardinality(B) =< Cardinality(A)
           /\ \A c \in A \ B : Cardinality(B) + 1 =< Cardinality(A)
<1>1. IsFiniteSet(A) /\ IsFiniteSet(B)
  BY ProcsFinite, FS_Subset
<1>2. Cardinality(A) \in Nat /\ Cardinality(B) \in Nat
  BY <1>1, FS_CardinalityType
<1>3. Cardinality(B) =< Cardinality(A)
  BY <1>1, FS_Subset
<1>4. ASSUME NEW c \in A \ B PROVE Cardinality(B) + 1 =< Cardinality(A)
  <2>1. IsFiniteSet(B \cup {c}) /\ Cardinality(B \cup {c}) = Cardinality(B) + 1
    BY <1>1, FS_AddElement
  <2>2. B \cup {c} \subseteq A
    OBVIOUS
  <2>3. Cardinality(B \cup {c}) =< Cardinality(A)
    BY <1>1, <2>2, FS_Subset
  <2> QED  BY <2>1, <2>3
<1> QED  BY <1>2, <1>3, <1>4

\* A tick pays one of the periods that are owed, if it is the timer's, and is
\* otherwise one more process that has left.
LEMMA PaysTick ==
    ASSUME SleepInv, TypeInv',
           NEW line, Pit_Handler(live', line),
           live' \subseteq live, current \in live' => line = Timer
    PROVE  SleepInv'
<1>1. current' \in live' /\ tick' = Tick /\ tick \in 0 .. TickMod - 1
      /\ live \subseteq Procs \cup {Boot}
  <2>1. live' \in SUBSET (Procs \cup {Boot}) /\ live' # {}
    BY DEF TypeInv, TypesButFlags
  <2>2. current' \in live'
    BY <2>1, AfterIsAlive DEF Pit_Handler
  <2> QED  BY <2>2 DEF Pit_Handler, SleepInv, TypeInv, TypesButFlags
<1>2. ASSUME NEW p \in Procs
      PROVE  sleep'[p] \in {Awake} \cup Sleep0 /\ (sleep'[p].asleep => Owes(p)')
  <2>1. sleep[p] \in {Awake} \cup Sleep0
    BY DEF SleepInv
  <2>2. CASE ~sleep[p].asleep
    <3>1. sleep'[p] = sleep[p]
      BY <2>2 DEF Pit_Handler
    <3> QED  BY <2>1, <2>2, <3>1
  <2>3. CASE sleep[p].asleep
    <3>1. sleep[p] \in Sleep0
      BY <2>1, <2>3 DEF Awake
    <3>2. PICK m : m = IF sleep[p].owed > 0 /\ line = Timer THEN sleep[p].owed - 1
                                                           ELSE sleep[p].owed
      OBVIOUS
    <3>3. m \in Nat /\ sleep[p].owed \in Nat /\ m =< sleep[p].owed
      <4>1. PICK o \in Nat : o = sleep[p].owed
        BY <3>1 DEF Sleep0
      <4>2. m = IF o > 0 /\ line = Timer THEN o - 1 ELSE o
        BY <3>2, <4>1
      <4>3. m \in Nat /\ m =< o
        BY <4>2
      <4> QED  BY <4>1, <4>3
    <3>4. sleep'[p] = [sleep[p] EXCEPT !.owed = m]
      <4>1. CASE sleep[p].owed > 0 /\ line = Timer
        BY <2>3, <3>2, <4>1 DEF Pit_Handler
      <4>2. CASE ~(sleep[p].owed > 0 /\ line = Timer)
        <5>1. sleep'[p] = sleep[p] /\ m = sleep[p].owed
          BY <3>2, <4>2 DEF Pit_Handler
        <5>2. sleep[p] = [sleep[p] EXCEPT !.owed = sleep[p].owed]
          BY <3>1 DEF Sleep0
        <5> QED  BY <5>1, <5>2
      <4> QED  BY <4>1, <4>2
    <3>5. sleep'[p] \in Sleep0 /\ sleep'[p].owed = m
          /\ sleep'[p].wraps = sleep[p].wraps /\ sleep'[p].eticks = sleep[p].eticks
          /\ sleep'[p].with = sleep[p].with
      BY <3>4, <3>1, <3>3 DEF Sleep0
    <3>6. Owes(p) /\ sleep[p].with \in SUBSET (Procs \cup {Boot})
      BY <2>3, <3>1 DEF SleepInv, Sleep0
    <3>7. PICK A, B : /\ A = sleep[p].with \ (live' \cup {current'})
                      /\ B = sleep[p].with \ (live \cup {current})
      OBVIOUS
    <3>8. A \in SUBSET (Procs \cup {Boot}) /\ B \in SUBSET A
          /\ (line # Timer => current \in A \ B)
      BY <1>1, <3>6, <3>7 DEF Owes
    <3>9. PICK a, b : a = Cardinality(A) /\ b = Cardinality(B)
      OBVIOUS
    <3>10. a \in Nat /\ b \in Nat /\ b =< a /\ (line # Timer => b + 1 =< a)
      BY <3>8, <3>9, Counting
    <3>11. Left(p) = b /\ Left(p)' = a
      BY <3>5, <3>7, <3>9 DEF Left
    <3>12. ASSUME ~sleep[p].wraps
           PROVE  m =< a \/ (tick' + m =< sleep[p].eticks + a /\ sleep[p].eticks < TickMod)
      <4>1. CASE sleep[p].owed =< b
        BY <3>3, <3>10, <4>1
      <4>2. CASE ~(sleep[p].owed =< b)
        <5>1. tick + sleep[p].owed =< sleep[p].eticks + b /\ sleep[p].eticks < TickMod
          <6>1. \/ sleep[p].owed =< Left(p)
                \/ /\ tick + sleep[p].owed =< sleep[p].eticks + Left(p)
                   /\ sleep[p].eticks < TickMod
            BY <3>6, <3>12, Zenon DEF Owes
          <6> QED  BY <3>11, <4>2, <6>1, Zenon
        <5>2. PICK e \in Int, o \in Nat, t \in Nat :
                 e = sleep[p].eticks /\ o = sleep[p].owed /\ t = tick
          <6>1. sleep[p].eticks \in Int /\ sleep[p].owed \in Nat
            BY <3>1 DEF Sleep0
          <6>2. tick \in Nat
            BY <1>1, InterruptsAssumption
          <6> QED  BY <6>1, <6>2
        <5>3. t + o =< e + b /\ e < TickMod /\ ~(o =< b)
          BY <4>2, <5>1, <5>2
        <5>4. t + 1 \in 0 .. TickMod - 1 /\ o > 0
          BY <3>10, <5>2, <5>3, InterruptsAssumption
        <5>5. tick' = t + 1
          BY <1>1, <5>2, <5>4, Small, InterruptsAssumption DEF Tick
        <5>6. m = IF line = Timer THEN o - 1 ELSE o
          BY <3>2, <5>2, <5>4
        <5>7. t + 1 + m =< e + a
          BY <3>3, <3>10, <5>2, <5>3, <5>6
        <5> QED  BY <5>2, <5>3, <5>5, <5>7
      <4> QED  BY <4>1, <4>2
    <3>13. live' \subseteq sleep[p].with /\ current' \in sleep[p].with
      BY <1>1, <3>6 DEF Owes
    <3> QED  BY <3>5, <3>11, <3>12, <3>13 DEF Owes
  <2> QED  BY <2>2, <2>3
<1>3. sleep' = [p \in Procs |-> sleep'[p]]
  BY DEF Pit_Handler
<1> QED  BY <1>2, <1>3 DEF SleepInv

LEMMA SleepInit == Init => SleepInv
BY TypeInit DEF Init, SleepInv, Awake

\* Off the ring, but running still, a process has not left.
LEMMA NotYetLeft ==
    ASSUME SleepInv, TypeInv', UNCHANGED <<tick, sleep, current>>,
           live' \subseteq live, live' \cup {current} = live \cup {current}
    PROVE  SleepInv'
<1>1. ASSUME NEW p \in Procs, sleep[p].asleep PROVE Owes(p)'
  BY <1>1 DEF SleepInv, Owes, Left
<1> QED  BY <1>1 DEF SleepInv

LEMMA SleepStep == SleepInv /\ [Next]_vars => SleepInv'
<1> SUFFICES ASSUME SleepInv, [Next]_vars PROVE SleepInv'
  OBVIOUS
<1>1. TypeInv'
  BY TypeStep DEF SleepInv
<1>2. CASE UNCHANGED <<tick, sleep, current, live>>
  BY <1>1, <1>2, NotYetLeft
<1>3. CASE Scheduler_Entry
  <2>1. live' \subseteq live /\ live' \cup {current} = live \cup {current}
    BY <1>3 DEF Scheduler_Entry, Acts
  <2> QED  BY <1>1, <1>3, <2>1, NotYetLeft DEF Scheduler_Entry
<1>4. CASE SegmentationFault
  <2>1. current \notin live' /\ live' \subseteq live /\ Pit_Handler(live', None)
    BY <1>4 DEF SegmentationFault
  <2> QED  BY <1>1, <2>1, PaysTick
<1>5. CASE HandleTimer
  <2>1. live' = live /\ Pit_Handler(live', Top.line)
    BY <1>5 DEF HandleTimer
  <2>2. Top.line = Timer \/ current \notin live
    BY <1>5, OneHandler DEF HandleTimer, SleepInv, TypeInv, Cause
  <2> QED  BY <1>1, <2>1, <2>2, PaysTick
<1>6. ASSUME NEW n \in Durations, Sleep(n) PROVE SleepInv'
  <2>1. PICK s : s = [asleep |-> TRUE, eticks |-> (tick + n) % TickMod, owed |-> n,
                      wraps |-> tick + n >= TickMod, with |-> live]
    OBVIOUS
  <2>2. /\ current \in Procs /\ n \in Nat /\ tick \in Nat /\ current \in live
        /\ live \in SUBSET (Procs \cup {Boot})
    BY <1>6, InterruptsAssumption
    DEF Sleep, Acts, SleepInv, TypeInv, TypesButFlags
  <2>3. sleep' = [sleep EXCEPT ![current] = s] /\ UNCHANGED <<tick, current, live>>
    BY <1>6, <2>1 DEF Sleep
  <2>4. s \in Sleep0 /\ s.with = live /\ s.owed = n /\ s.eticks = (tick + n) % TickMod
    BY <2>1, <2>2, InterruptsAssumption DEF Sleep0
  <2>5. s.wraps = (tick + n >= TickMod)
    BY <2>1
  <2>6. ASSUME ~s.wraps
        PROVE  tick + n =< s.eticks + Cardinality({}) /\ s.eticks < TickMod
    <3>1. tick + n \in 0 .. TickMod - 1
      <4>1. ~(tick + n >= TickMod)
        BY <2>5, <2>6, Zenon
      <4> QED  BY <2>2, <4>1, InterruptsAssumption
    <3>2. (tick + n) % TickMod = tick + n
      BY <3>1, Small, InterruptsAssumption
    <3> QED  BY <2>4, <3>1, <3>2, FS_EmptySet, InterruptsAssumption
  <2>7. sleep' \in [Procs -> {Awake} \cup Sleep0]
    BY <2>3, <2>4 DEF SleepInv
  <2>8. \A p \in Procs : sleep'[p] = IF p = current THEN s ELSE sleep[p]
    BY <2>3 DEF SleepInv
  <2>9. ASSUME NEW p \in Procs, sleep'[p].asleep PROVE Owes(p)'
    <3>1. CASE p = current
      <4>1. sleep'[p] = s /\ s.with \ (live' \cup {current'}) = {}
        BY <2>3, <2>4, <2>8, <3>1
      <4>2. Left(p)' = Cardinality({})
        BY <4>1 DEF Left
      <4> QED  BY <2>2, <2>3, <2>4, <2>6, <4>1, <4>2 DEF Owes
    <3>2. CASE p # current
      BY <2>3, <2>8, <2>9, <3>2 DEF SleepInv, Owes, Left
    <3> QED  BY <3>1, <3>2
  <2> QED  BY <1>1, <2>7, <2>9 DEF SleepInv
<1>7. ASSUME NEW p \in Sleepers, Wake(p) PROVE SleepInv'
  <2>1. sleep' = [sleep EXCEPT ![p] = Awake] /\ UNCHANGED <<tick, current, live>>
    BY <1>7 DEF Wake
  <2>2. \A q \in Procs : sleep'[q] = IF q = p THEN Awake ELSE sleep[q]
    BY <2>1 DEF SleepInv
  <2>3. ASSUME NEW q \in Procs, sleep'[q].asleep PROVE Owes(q)'
    <3>1. sleep'[q] = sleep[q]
      BY <2>2, <2>3 DEF Awake
    <3> QED  BY <2>1, <2>3, <3>1 DEF SleepInv, Owes, Left
  <2>4. sleep' \in [Procs -> {Awake} \cup Sleep0]
    BY <2>1 DEF SleepInv
  <2> QED  BY <1>1, <2>3, <2>4 DEF SleepInv
<1> QED
  BY <1>2, <1>3, <1>4, <1>5, <1>6, <1>7
  DEF Next, vars, Request, Interrupt, Trap, Handler_Log, SegmentationFault_Undefined,
      Panic, HandleOther, Syscall_Handler, Scheduler_Entry_Switch

LEMMA SleepInvHolds == Spec => []SleepInv
<1> QED  BY SleepInit, SleepStep, PTL DEF Spec

(***************************************************************************)
(* A sleep that does not wrap is shorter than was asked for by one period  *)
(* for each process that has left meanwhile, at the most, however wide the *)
(* counter, and whoever runs, is interrupted or faults in between (pit.c:  *)
(* 9-33, idt.c:226-236, sched.c:35-43).                                    *)
(***************************************************************************)
THEOREM SleepLosesNoMore == Spec => SleepLosesOnlyExits
<1> DEFINE A == \A p \in Sleepers :
                   sleep[p].asleep /\ ~sleep'[p].asleep =>
                      sleep[p].wraps \/ sleep[p].owed =< Cardinality(sleep[p].with \ live)
<1>1. ASSUME SleepInv, [Next]_vars PROVE [A]_sleep
  <2> SUFFICES ASSUME NEW p \in Sleepers, sleep[p].asleep, ~sleep'[p].asleep
               PROVE  sleep[p].wraps \/ sleep[p].owed =< Cardinality(sleep[p].with \ live)
    OBVIOUS
  <2>1. p \in Procs /\ sleep[p] \in Sleep0
    <3>1. p \in Procs /\ sleep[p] \in {Awake} \cup Sleep0
      BY <1>1, InterruptsAssumption DEF SleepInv
    <3>2. sleep[p] # Awake
      BY DEF Awake
    <3> QED  BY <3>1, <3>2
  <2>2. CASE Wake(p)
    <3>1. tick >= sleep[p].eticks
      BY <2>2 DEF Wake, Past
    <3> SUFFICES ASSUME ~sleep[p].wraps
                 PROVE  sleep[p].owed =< Cardinality(sleep[p].with \ live)
      OBVIOUS
    <3>2. \/ sleep[p].owed =< Left(p)
          \/ tick + sleep[p].owed =< sleep[p].eticks + Left(p)
      BY <1>1, <2>1 DEF SleepInv, Owes
    <3>3. PICK B, C : /\ B = sleep[p].with \ (live \cup {current})
                      /\ C = sleep[p].with \ live
      OBVIOUS
    <3>4. C \in SUBSET (Procs \cup {Boot}) /\ B \in SUBSET C
      BY <2>1, <3>3 DEF Sleep0
    <3>5. PICK b, c : b = Cardinality(B) /\ c = Cardinality(C)
      OBVIOUS
    <3>6. b \in Nat /\ c \in Nat /\ b =< c /\ Left(p) = b
      BY <3>3, <3>4, <3>5, Counting DEF Left
    <3>7. PICK e \in Int, o \in Nat, t \in Int :
             e = sleep[p].eticks /\ o = sleep[p].owed /\ t = tick
      BY <1>1, <2>1, InterruptsAssumption DEF Sleep0, SleepInv, TypeInv, TypesButFlags
    <3>8. t >= e /\ (o =< b \/ t + o =< e + b)
      BY <3>1, <3>2, <3>6, <3>7
    <3>9. o =< c
      BY <3>6, <3>7, <3>8
    <3> QED  BY <3>3, <3>5, <3>7, <3>9
  <2>3. ASSUME NEW q \in Sleepers, q # p, Wake(q) PROVE FALSE
    BY <1>1, <2>1, <2>3 DEF Wake, SleepInv
  <2>4. ASSUME NEW n \in Durations, Sleep(n) PROVE FALSE
    <3>1. sleep'[p].asleep \/ sleep'[p] = sleep[p]
      BY <1>1, <2>1, <2>4 DEF Sleep, SleepInv
    <3> QED  BY <3>1
  <2>5. ASSUME NEW alive, NEW line, Pit_Handler(alive, line) PROVE FALSE
    <3>1. sleep'[p].asleep = sleep[p].asleep
      BY <2>1, <2>5 DEF Pit_Handler, Sleep0
    <3> QED  BY <3>1
  <2> QED
    BY <1>1, <2>2, <2>3, <2>4, <2>5
    DEF Next, vars, Request, Interrupt, Trap, Handler_Log, SegmentationFault,
        SegmentationFault_Undefined, Panic, HandleTimer, HandleOther, Syscall_Handler,
        Scheduler_Entry, Scheduler_Entry_Switch
<1> QED  BY <1>1, SleepInvHolds, PTL DEF Spec, SleepLosesOnlyExits
=============================================================================
