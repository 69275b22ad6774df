---------------------------- MODULE AddressSpaces ----------------------------
(***************************************************************************)
(* What the virtual memory manager promises: an address space is a map     *)
(* from virtual addresses to what is mapped there.  A call changes one     *)
(* address, in one space; at an address of the kernel's half the change    *)
(* may be seen by other spaces too, since they share the tables.           *)
(***************************************************************************)
CONSTANTS
    VAddrs,         \* virtual addresses
    KernelHalf(_),  \* is an address in the half that belongs to the kernel?
    KernelSpace,    \* the space of the kernel
    Leaves,         \* what an address may be mapped to
    Absent          \* no mapping

VARIABLE maps       \* one map for each space that exists

Init == maps = [s \in {KernelSpace} |-> [va \in VAddrs |-> Absent]]

\* a new space starts with what the kernel has mapped in its half
New ==
    \E s \in DOMAIN maps' \ DOMAIN maps :
        maps' = [t \in DOMAIN maps \cup {s} |->
                    IF t # s THEN maps[t]
                    ELSE [va \in VAddrs |-> IF KernelHalf(va) THEN maps[KernelSpace][va]
                                                              ELSE Absent]]

\* va becomes some leaf in space s, and in those that share the table with it
Change(s, va) ==
    LET leaf == maps'[s][va] IN
    /\ DOMAIN maps' = DOMAIN maps
    /\ leaf \in Leaves \cup {Absent}
    /\ maps'[s] = [maps[s] EXCEPT ![va] = leaf]
    /\ \A t \in DOMAIN maps \ {s} :
          \/ maps'[t] = maps[t]
          \/ KernelHalf(va) /\ maps'[t] = [maps[t] EXCEPT ![va] = leaf]

Next ==
    \/ New
    \/ \E s \in DOMAIN maps, va \in VAddrs : Change(s, va)

Spec == Init /\ [][Next]_maps
=============================================================================
