-------------------------------- MODULE Vmm --------------------------------
(***************************************************************************)
(* The virtual memory manager of arch/x86_64/vmm.c: four levels of page    *)
(* tables in physical pages, built page by page from the physical memory   *)
(* manager's stack, and the processor's cache of translations.             *)
(*                                                                         *)
(* A virtual address is the tuple of its four indices, PML4's first, and   *)
(* an entry a physical address with flags.  The kernel reaches physical    *)
(* memory through a window at a fixed offset, so that a pointer is the     *)
(* page it points to here.  NULL, what Pmm_AllocatePage returns when it    *)
(* has no page, becomes physical page 0, and is not tested for.            *)
(***************************************************************************)
EXTENDS Integers, FiniteSets, SequencesExt

CONSTANTS
    Idx,            \* the indices of a table
    FirstKernel,    \* the first index of the PML4 in the kernel's half (256)
    Pool,           \* pmm_stack when Vmm_Initialize is called
    Frames,         \* pages that callers map
    VAddrs,         \* the virtual addresses that are used
    BootMaps,       \* what Vmm_Initialize maps, [va, frame, flags], in order
    Flags,          \* the flags that callers map with
    MaxSpaces,      \* bound: how many address spaces there are
    MaxFailures,    \* bound: how many calls find no page, before we stop
    MaxStrays       \* bound: how many calls stray, before we stop

Page0 == 0          \* VIRTUAL_TO_PHYSICAL(NULL)
None  == -1         \* no table
Pages == ToSet(Pool)
Absent == [addr |-> 0, flags |-> {}]

\* what an entry may say of a page
AllFlags == {"P", "W", "U", "NX"}

ASSUME VmmAssumption ==
    /\ FirstKernel \in Nat /\ Idx \subseteq Nat
    /\ Pool # <<>> /\ Pool \in Seq(Nat \ {0}) /\ IsInjective(Pool)
    /\ Frames \subseteq Nat \ ({0} \cup Pages)
    /\ VAddrs # {} /\ VAddrs \subseteq [1 .. 4 -> Idx]
    /\ Flags \subseteq SUBSET AllFlags /\ \A f \in Flags : "P" \in f
    /\ BootMaps \in Seq([va : VAddrs, frame : Frames, flags : SUBSET AllFlags])
    /\ \A m \in ToSet(BootMaps) : "P" \in m.flags
    /\ MaxSpaces \in Nat /\ MaxFailures \in Nat /\ MaxStrays \in Nat

VARIABLES
    mem,            \* the entries of every page, seen as a table; those of page 0
                    \* since a call that found no page has cleared it
    pool,           \* the pages that are left on pmm_stack
    booted,         \* how many of BootMaps are mapped
    spaces,         \* the PML4s that exist
    current,        \* vmm_current_address_space, NULL before the first switch
    tlb,            \* the translations that the processor holds
    failures,       \* how many calls found that Pmm_AllocatePage has no page
    strays          \* how many calls of Vmm_Unmap changed a table page 0 led them to

vars == <<mem, pool, booted, spaces, current, tlb, failures, strays>>

\* vmm_kernel_address_space
KernelSpace == Last(Pool)

Cleared == [i \in Idx |-> Absent]
NoTlb == [va \in {} |-> Absent]

-----------------------------------------------------------------------------
\* Pmm_AllocatePage and memset: the page on top, or page 0, cleared
Fresh(w) == IF w.pool = <<>> THEN Page0 ELSE Last(w.pool)

Allocated(w) ==
    [mem    |-> [w.mem EXCEPT ![Fresh(w)] = Cleared],
     pool   |-> IF w.pool = <<>> THEN <<>> ELSE Front(w.pool),
     failed |-> w.failed \/ w.pool = <<>>,
     table  |-> w.table]

Now(table) == [mem |-> mem, pool |-> pool, failed |-> FALSE, table |-> table]

\* mutant: the table is not cleared, and the page stays on the stack
DescendReuses(w, i) ==
    IF "P" \in w.mem[w.table][i].flags
      THEN [w EXCEPT !.table = w.mem[w.table][i].addr]
      ELSE [w EXCEPT !.mem[w.table][i] = [addr |-> Fresh(w), flags |-> {"P", "W"}],
                     !.table = Fresh(w)]

\* One level of Vmm_Map: the table that entry i points to, a new one if it is
\* not present.
Descend(w, i) ==
    LET a == Allocated(w) IN
    IF "P" \in w.mem[w.table][i].flags
      THEN [w EXCEPT !.table = w.mem[w.table][i].addr]
      ELSE [a EXCEPT !.mem[w.table][i] = [addr |-> Fresh(w), flags |-> {"P", "W"}],
                     !.table = Fresh(w)]

\* the whole of Vmm_Map
Map(s, va, frame, flags) ==
    LET w == Descend(Descend(Descend(Now(s), va[1]), va[2]), va[3]) IN
    /\ mem' = [w.mem EXCEPT ![w.table][va[4]] = [addr |-> frame, flags |-> flags]]
    /\ pool' = w.pool
    /\ failures' = failures + (IF w.failed THEN 1 ELSE 0)

\* the leaf that the processor finds for va from PML4 s, and the way to it
Lookup(t, i) == IF t = None \/ "P" \notin mem[t][i].flags THEN None ELSE mem[t][i].addr

Translate(s, va) ==
    LET t == Lookup(Lookup(Lookup(s, va[1]), va[2]), va[3]) IN
    IF t = None \/ "P" \notin mem[t][va[4]].flags THEN Absent ELSE mem[t][va[4]]

-----------------------------------------------------------------------------
\* Vmm_Initialize up to its first Vmm_Map
Init ==
    /\ mem = [p \in Pages \cup Frames \cup {Page0} |-> Cleared]
    /\ pool = Front(Pool)
    /\ booted = 0
    /\ spaces = {KernelSpace}
    /\ current = None
    /\ tlb = NoTlb
    /\ failures = 0
    /\ strays = 0

Running == failures =< MaxFailures /\ strays =< MaxStrays

\* the loops of Vmm_Initialize: text, rodata, data, then the first 4 GiB, each
\* page at its own address and in the window
Vmm_Initialize_Map ==
    /\ Running /\ booted < Len(BootMaps)
    /\ LET m == BootMaps[booted + 1] IN Map(KernelSpace, m.va, m.frame, m.flags)
    /\ booted' = booted + 1
    /\ UNCHANGED <<spaces, current, tlb, strays>>

\* the load of CR3 empties the cache
Vmm_SwitchAddressSpaces(s) ==
    /\ booted = Len(BootMaps)
    /\ current' = s
    /\ tlb' = NoTlb
    /\ UNCHANGED <<mem, pool, booted, spaces, failures, strays>>

\* calls are made once Vmm_Initialize has returned
Booted == booted = Len(BootMaps) /\ current # None /\ Running

\* the kernel's entries of the upper half
UpperHalf(m) == [i \in Idx |-> IF i >= FirstKernel THEN m[KernelSpace][i] ELSE Absent]

\* mutants: the new space gets every entry of the kernel, or none; its page
\* stays on the stack
NewSpaceCopiesAll ==
    LET s == Fresh(Now(None))
        a == Allocated(Now(None))
    IN  /\ Booted /\ Cardinality(spaces) < MaxSpaces
        /\ mem' = [a.mem EXCEPT ![s] = a.mem[KernelSpace]]
        /\ pool' = a.pool
        /\ failures' = failures + (IF a.failed THEN 1 ELSE 0)
        /\ spaces' = spaces \cup {s}
        /\ UNCHANGED <<booted, current, tlb, strays>>

NewSpaceCopiesNone ==
    LET s == Fresh(Now(None))
        a == Allocated(Now(None))
    IN  /\ Booted /\ Cardinality(spaces) < MaxSpaces
        /\ mem' = [a.mem EXCEPT ![s] = Cleared]
        /\ pool' = a.pool
        /\ failures' = failures + (IF a.failed THEN 1 ELSE 0)
        /\ spaces' = spaces \cup {s}
        /\ UNCHANGED <<booted, current, tlb, strays>>

NewSpaceKeepsPage ==
    LET s == Fresh(Now(None))
        a == Allocated(Now(None))
    IN  /\ Booted /\ Cardinality(spaces) < MaxSpaces
        /\ mem' = [a.mem EXCEPT ![s] = UpperHalf(a.mem)]
        /\ pool' = pool
        /\ failures' = failures + (IF a.failed THEN 1 ELSE 0)
        /\ spaces' = spaces \cup {s}
        /\ UNCHANGED <<booted, current, tlb, strays>>

\* a cleared PML4 that gets the kernel's entries of the upper half
Vmm_NewAddressSpace ==
    LET s == Fresh(Now(None))
        a == Allocated(Now(None))
    IN  /\ Booted /\ Cardinality(spaces) < MaxSpaces
        /\ mem' = [a.mem EXCEPT ![s] = UpperHalf(a.mem)]
        /\ pool' = a.pool
        /\ failures' = failures + (IF a.failed THEN 1 ELSE 0)
        /\ spaces' = spaces \cup {s}
        /\ UNCHANGED <<booted, current, tlb, strays>>

\* a call by the loader of programs, or by any kernel code
Vmm_Map(s, va, frame, flags) ==
    /\ Booted
    /\ Map(s, va, frame, flags)
    /\ UNCHANGED <<booted, spaces, current, tlb, strays>>

\* One level of Vmm_Unmap: it reads the address and never the present bit, so
\* that an absent entry leads to page 0.  The test for NULL is of a pointer in
\* the window, and never true.
Follow(t, i) == mem[t][i].addr

\* The tables in which the walk for va from s may end.  Nobody has cleared page
\* 0 before a call finds no page: what lies there may lead anywhere, and also
\* out of the tables, where the walk changes none (page 0 stands for that).
Reached(s, va) ==
    LET pml3 == Follow(s, va[1])
        pml2 == Follow(pml3, va[2])
    IN  IF failures = 0 /\ Page0 \in {pml3, pml2} THEN Pages \cup {Page0}
        ELSE {Follow(pml2, va[3])}

\* the entry that the walk finds in t is cleared
Cleans(t, s, va) ==
    /\ mem' = [mem EXCEPT ![t][va[4]] = Absent]
    /\ strays' = strays + (IF Reached(s, va) # {t} /\ mem' # mem THEN 1 ELSE 0)
    /\ UNCHANGED <<pool, booted, spaces, current, failures>>

\* mutant: invlpg is forgotten
UnmapKeepsTlb(s, va) ==
    /\ Booted
    /\ \E t \in Reached(s, va) : Cleans(t, s, va)
    /\ tlb' = tlb

\* (A walk out of memory faults, and changes nothing.)
Vmm_Unmap(s, va) ==
    /\ Booted
    /\ \E t \in Reached(s, va) : Cleans(t, s, va)
    /\ tlb' = [v \in DOMAIN tlb \ {va} |-> tlb[v]]

\* the processor uses an address: it caches what it finds
Access(va) ==
    /\ Booted
    /\ va \notin DOMAIN tlb /\ Translate(current, va) # Absent
    /\ tlb' = [v \in DOMAIN tlb \cup {va} |-> IF v = va THEN Translate(current, va) ELSE tlb[v]]
    /\ UNCHANGED <<mem, pool, booted, spaces, current, failures, strays>>

Next ==
    \/ Vmm_Initialize_Map
    \/ Vmm_NewAddressSpace
    \/ \E s \in spaces : Vmm_SwitchAddressSpaces(s)
    \/ \E s \in spaces, va \in VAddrs, frame \in Frames, flags \in Flags :
          Vmm_Map(s, va, frame, flags)
    \/ \E s \in spaces, va \in VAddrs : Vmm_Unmap(s, va)
    \/ \E va \in VAddrs : Access(va)

Spec == Init /\ [][Next]_vars

-----------------------------------------------------------------------------
(***************************************************************************)
(* Every page of the pool is in one state at a time: on the stack, a PML4, *)
(* or a table; the cache is of the current space (vmm.c:7-8, 44-106).      *)
(***************************************************************************)
Entry == [addr : Pages \cup Frames \cup {Page0}, flags : SUBSET AllFlags]

TypeOK ==
    /\ mem \in [Pages \cup Frames \cup {Page0} -> [Idx -> Entry]]
    /\ pool \in Seq(Pages) /\ IsPrefix(pool, Pool)
    /\ booted \in 0 .. Len(BootMaps)
    /\ spaces \subseteq Pages \cup {Page0} /\ spaces \cap ToSet(pool) = {}
    /\ current \in spaces \cup {None}
    /\ DOMAIN tlb \subseteq VAddrs
    /\ failures \in 0 .. MaxFailures + 1
    /\ strays \in 0 .. MaxStrays + 1

IsKernelHalf(va) == va[1] >= FirstKernel

\* where page p is pointed to from
References(p) ==
    {r \in (Pages \cup {Page0}) \X Idx :
        "P" \in mem[r[1]][r[2]].flags /\ mem[r[1]][r[2]].addr = p}

(***************************************************************************)
(* A page is never a table of two places, except where address spaces      *)
(* share the kernel's half: then every reference is the same entry of a    *)
(* PML4.  A page on the stack is a table of none, and a PML4 of none       *)
(* (vmm.c:44-52, 69-104).  Calls that run out of memory do not break it.   *)
(***************************************************************************)
TablesNotShared ==
    \A p \in Pages :
        /\ p \in ToSet(pool) \cup spaces => References(p) = {}
        /\ \A q, r \in References(p) :
              q = r \/ ({q[1], r[1]} \subseteq spaces /\ q[2] = r[2] /\ q[2] >= FirstKernel)

(***************************************************************************)
(* Whatever is mapped and unmapped later, and in whichever space, all      *)
(* spaces see the same at a kernel address whose PML4 entry they got from  *)
(* the kernel (vmm.c:48-49), unless an unmap strayed into that PML4.       *)
(* Otherwise the handler that switches the space would lose its code or    *)
(* its data.                                                               *)
(***************************************************************************)
KernelHalfShared ==
    Page0 \notin spaces /\ strays = 0 =>
        \A s \in spaces, va \in VAddrs :
            IsKernelHalf(va) /\ (\E m \in ToSet(BootMaps) : m.va[1] = va[1]) /\ current # None =>
                Translate(s, va) = Translate(KernelSpace, va)

(***************************************************************************)
(* The processor never holds a translation of an address that is no longer *)
(* mapped, even if it was unmapped through another space that shares the   *)
(* table (vmm.c:59, 127), while there was memory for every table and no    *)
(* unmap strayed.  (It may hold an old one of an address that Vmm_Map      *)
(* mapped again: vmm.c:105.)                                               *)
(***************************************************************************)
NoDanglingTranslation ==
    failures = 0 /\ strays = 0 => \A va \in DOMAIN tlb : Translate(current, va) # Absent

\* the spaces as maps
Maps == [s \in spaces |-> [va \in VAddrs |-> Translate(s, va)]]

Promise == INSTANCE AddressSpaces WITH
    maps       <- Maps,
    KernelHalf <- IsKernelHalf,
    Leaves     <- [addr : Frames, flags : SUBSET AllFlags]

(***************************************************************************)
(* As long as there was memory for every table, each call is a change of   *)
(* one address in one space, or in those that share the kernel's table:    *)
(* the tables implement AddressSpaces (vmm.c:44-129), until Vmm_Unmap of   *)
(* an address without tables strays.                                       *)
(***************************************************************************)
ImplementsAddressSpaces ==
    /\ Promise!Init
    /\ [][failures' > 0 \/ strays' > 0 \/ Promise!Next]_<<Maps, failures>>

\* the walk for va from s meets page 0 as a table
MeetsPage0(s, va) ==
    LET pml3 == Lookup(s, va[1])
        pml2 == Lookup(pml3, va[2])
    IN  Page0 \in {pml3, pml2, Lookup(pml2, va[3])}

(***************************************************************************)
(* When there is no memory for a table, the damage stays with the walks    *)
(* that go through page 0: of all others a call changes one address, and   *)
(* below the kernel's half in one space only (vmm.c:74-79), unless page 0  *)
(* has even become the PML4 of a space, or an unmap strayed before.        *)
(***************************************************************************)
DamageConfined ==
    [][Page0 \notin spaces' /\ strays' = 0 =>
         \E s \in spaces, va \in VAddrs : \A t \in spaces, v \in VAddrs :
            \/ v = va /\ (t = s \/ IsKernelHalf(va))
            \/ Translate(t, v)' = Translate(t, v)
            \/ MeetsPage0(t, v) \/ MeetsPage0(t, v)']_mem
=============================================================================
