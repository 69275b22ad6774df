----------------------------- MODULE RoundRobin -----------------------------
(***************************************************************************)
(* What the scheduler promises, without ring, records or interrupts: the   *)
(* processor goes round the live processes in descending pid order, the    *)
(* boot process closing each turn, and a process leaves only by itself,    *)
(* while it runs.                                                          *)
(***************************************************************************)
EXTENDS Integers

CONSTANT NumProcs

VARIABLES
    live,       \* the processes that take part
    current     \* the process that has the processor

Boot == -1

\* the boot process comes before every other one as the start of a turn
Place(p) == IF p = Boot THEN NumProcs ELSE p

Init == live = {} /\ current = Boot

\* the boot process adds processes in ascending pid order
Admit(p) ==
    /\ current = Boot
    /\ \A q \in live : q < p
    /\ live' = live \cup {p}
    /\ UNCHANGED current

\* q is the nearest live process below the current one
Switch(q) ==
    /\ q < Place(current)
    /\ \A z \in live : ~(q < z /\ z < Place(current))
    /\ current' = q
    /\ UNCHANGED live

\* the running process leaves; it keeps the processor until the next switch
Leave ==
    /\ current \in live
    /\ live' = live \ {current}
    /\ UNCHANGED current

Next ==
    \/ \E p \in 0 .. NumProcs - 1 : Admit(p)
    \/ \E q \in live \cup {Boot} : Switch(q)
    \/ Leave

Spec == Init /\ [][Next]_<<live, current>>
=============================================================================
