-------------------------------- MODULE Pmm --------------------------------
(***************************************************************************)
(* The physical memory manager of memory/pmm.c: a stack of free pages, and *)
(* a first-fit allocator whose chain of blocks is carved from them.        *)
(*                                                                         *)
(* Addresses and sizes count in units of the model.  The chain is the      *)
(* linked list pmm_free_blocks, as the sequence of its headers in order.   *)
(* The code runs at boot with interrupts disabled, so that every call is   *)
(* one step.                                                               *)
(***************************************************************************)
EXTENDS Integers, FiniteSets, SequencesExt

CONSTANTS
    Regions,    \* the usable memory map entries, [base, length], in order
    PageSize,   \* PMM_BLOCK_SIZE
    Hdr,        \* sizeof(Pmm_MemoryBlockT)
    StackSize,  \* STACK_SIZE, the most pages the manager can know
    Requests,   \* the sizes that callers ask for
    Scans       \* how many bytes Pmm_Reallocate copies: up to the first NUL

ASSUME PmmAssumption ==
    /\ PageSize \in Nat /\ Hdr \in Nat \ {0} /\ Hdr < PageSize
    /\ StackSize \in Nat
    /\ Requests \subseteq Nat \ {0}
    /\ Scans \subseteq Nat \ {0}
    /\ Regions \in Seq([base : Nat \ {0}, length : Nat])
    /\ \A e \in DOMAIN Regions : Regions[e].base % PageSize = 0
    \* Limine's usable entries do not overlap
    /\ \A d, e \in DOMAIN Regions : d # e =>
          \/ Regions[d].base + Regions[d].length =< Regions[e].base
          \/ Regions[e].base + Regions[e].length =< Regions[d].base

NULL == 0

VARIABLES
    pmm_stack,          \* pmm_stack[0 .. pmm_stack_top - 1]
    pmm_free_blocks,    \* the chain: [addr, size, is_free] records
    live,               \* what callers hold: [ptr, size] records
    whole,              \* pages handed out whole (page tables)
    overrun             \* a copy went past its new block: anything may follow

vars == <<pmm_stack, pmm_free_blocks, live, whole, overrun>>

-----------------------------------------------------------------------------
\* Pmm_FreePage drops what does not fit
PushAll(pages) == SubSeq(pages, 1, IF Len(pages) < StackSize THEN Len(pages)
                                                            ELSE StackSize)

\* an entry gives the whole pages it holds, the last of them on top
PagesOf(entry) ==
    [i \in 1 .. entry.length \div PageSize |-> entry.base + (i - 1) * PageSize]

Pmm_Initialize ==
    /\ pmm_stack = PushAll(FlattenSeq([e \in DOMAIN Regions |-> PagesOf(Regions[e])]))
    /\ pmm_free_blocks = <<>>

Init ==
    /\ Pmm_Initialize
    /\ live = {}
    /\ whole = {}
    /\ overrun = FALSE

-----------------------------------------------------------------------------
\* mutant: the rest keeps the whole block's size
SplitKeepsSize(chain, i, need) ==
    InsertAt([chain EXCEPT ![i].size = need, ![i].is_free = FALSE], i + 1,
             [addr |-> chain[i].addr + need, size |-> chain[i].size, is_free |-> TRUE])

\* what is left of block i becomes a free block right behind it
Split(chain, i, need) ==
    InsertAt([chain EXCEPT ![i].size = need, ![i].is_free = FALSE], i + 1,
             [addr |-> chain[i].addr + need, size |-> chain[i].size - need,
              is_free |-> TRUE])

\* the free blocks that hold need bytes, header included
Fits(chain, need) == {i \in DOMAIN chain : chain[i].is_free /\ chain[i].size >= need}

\* mutants: the block stays free; a rest too small for a header is split off
TakeKeepsFree(chain, i, need) == chain

TakeSplitsAlways(chain, i, need) ==
    IF chain[i].size > need THEN Split(chain, i, need)
                            ELSE [chain EXCEPT ![i].is_free = FALSE]

\* block i is taken, and split if the rest has room for a header and more
Take(chain, i, need) ==
    IF chain[i].size > need + Hdr THEN Split(chain, i, need)
                                  ELSE [chain EXCEPT ![i].is_free = FALSE]

(***************************************************************************)
(* Pmm_Allocate on the manager's state m, a record of the last pointer     *)
(* returned, the page stack and the chain: the first block that fits, else *)
(* one page, whatever the size.                                            *)
(***************************************************************************)
Allocate(m, size) ==
    LET need == size + Hdr
        fits == Fits(m.chain, need)
        i    == CHOOSE j \in fits : \A k \in fits : j =< k
    IN  IF fits # {}
          THEN [ptr   |-> m.chain[i].addr + Hdr,
                stack |-> m.stack,
                chain |-> Take(m.chain, i, need)]
          ELSE IF m.stack = <<>> THEN [m EXCEPT !.ptr = NULL]
          ELSE [ptr   |-> Last(m.stack) + Hdr,
                stack |-> Front(m.stack),
                chain |-> Append(m.chain, [addr |-> Last(m.stack), size |-> need,
                                           is_free |-> FALSE])]

\* the sum of the sizes of the blocks of chain at the places in I
SizeOf(chain, I) ==
    FoldFunctionOnSet(+, 0, [k \in DOMAIN chain |-> chain[k].size], I)

\* mutant: the sizes are not added up
MergeLosesSize(chain, i, j) ==
    SubSeq(chain, 1, i - 1)
      \o <<[chain[i] EXCEPT !.is_free = TRUE]>>
      \o SubSeq(chain, j + 1, Len(chain))

\* blocks i to j of the chain become one free block, at i
Merge(chain, i, j) ==
    SubSeq(chain, 1, i - 1)
      \o <<[chain[i] EXCEPT !.is_free = TRUE, !.size = SizeOf(chain, i .. j)]>>
      \o SubSeq(chain, j + 1, Len(chain))

\* Pmm_Free of a block in use: it swallows the run of free blocks behind it
Free(m, ptr) ==
    LET chain == m.chain
        i == CHOOSE k \in DOMAIN chain : chain[k].addr = ptr - Hdr
        j == CHOOSE k \in i .. Len(chain) :
                /\ \A l \in i + 1 .. k : chain[l].is_free
                /\ k < Len(chain) => ~chain[k + 1].is_free
    IN  [m EXCEPT !.chain = Merge(chain, i, j)]

-----------------------------------------------------------------------------
Now == [ptr |-> NULL, stack |-> pmm_stack, chain |-> pmm_free_blocks]

\* a call that ends in state m; nothing is said of what follows an overrun
Become(m) ==
    /\ ~overrun
    /\ pmm_stack' = m.stack
    /\ pmm_free_blocks' = m.chain

Pmm_Allocate(size) ==
    LET m == Allocate(Now, size) IN
    /\ m.ptr # NULL
    /\ Become(m)
    /\ live' = live \cup {[ptr |-> m.ptr, size |-> size]}
    /\ UNCHANGED <<whole, overrun>>

Pmm_Free(a) ==
    /\ Become(Free(Now, a.ptr))
    /\ live' = live \ {a}
    /\ UNCHANGED <<whole, overrun>>

(***************************************************************************)
(* The new block is taken before the old one is freed.  The copy goes on   *)
(* to the first NUL of the old data, whatever the size of the new block.   *)
(* (Of NULL it is Pmm_Allocate; to size 0 it is Pmm_Free.)                 *)
(***************************************************************************)
Pmm_Reallocate(a, size, scan) ==
    LET m == Allocate(Now, size) IN
    /\ m.ptr # NULL
    /\ Become(Free(m, a.ptr))
    /\ live' = (live \ {a}) \cup {[ptr |-> m.ptr, size |-> size]}
    /\ overrun' = (scan > size)
    /\ UNCHANGED whole

\* mutant: pmm_stack_top is not decremented
PageStaysOnStack ==
    /\ pmm_stack # <<>>
    /\ Become(Now)
    /\ whole' = whole \cup {Last(pmm_stack)}
    /\ UNCHANGED <<live, overrun>>

\* for a page table
Pmm_AllocatePage ==
    /\ pmm_stack # <<>>
    /\ Become([Now EXCEPT !.stack = Front(pmm_stack)])
    /\ whole' = whole \cup {Last(pmm_stack)}
    /\ UNCHANGED <<live, overrun>>

\* a call that fails (NULL) changes nothing
Next ==
    \/ \E size \in Requests : Pmm_Allocate(size)
    \/ \E a \in live : Pmm_Free(a)
    \/ \E a \in live, size \in Requests, scan \in Scans : Pmm_Reallocate(a, size, scan)
    \/ Pmm_AllocatePage

Spec == Init /\ [][Next]_vars

-----------------------------------------------------------------------------
InUse == {i \in DOMAIN pmm_free_blocks : ~pmm_free_blocks[i].is_free}

PageOf(addr) == addr - (addr % PageSize)

ChainPages == {PageOf(pmm_free_blocks[i].addr) : i \in DOMAIN pmm_free_blocks}

Bytes(addr, size) == addr .. addr + size - 1

(***************************************************************************)
(* The pages of the stack are pages of the memory map, and every block of  *)
(* the chain has room for its header and at least one byte (pmm.c:64).     *)
(***************************************************************************)
TypeOK ==
    /\ ToSet(pmm_stack) \cup whole
         \subseteq UNION {ToSet(PagesOf(Regions[e])) : e \in DOMAIN Regions}
    /\ Len(pmm_stack) =< StackSize
    /\ \A i \in DOMAIN pmm_free_blocks :
          /\ pmm_free_blocks[i].addr \in Nat /\ pmm_free_blocks[i].is_free \in BOOLEAN
          /\ pmm_free_blocks[i].size > Hdr
    /\ \A a \in live : a.size \in Requests
    /\ overrun \in BOOLEAN

(***************************************************************************)
(* The callers' view and the chain agree: what is held is exactly what the *)
(* chain marks as in use, each block long enough for what was asked for,   *)
(* however the blocks were split, swallowed and reused (pmm.c:58-121).     *)
(***************************************************************************)
LiveMatchesChain ==
    /\ Cardinality(live) = Cardinality(InUse)
    /\ \A a \in live : \E i \in InUse :
          /\ pmm_free_blocks[i].addr = a.ptr - Hdr
          /\ pmm_free_blocks[i].size >= a.size + Hdr

(***************************************************************************)
(* The bytes a caller holds are nobody else's: no other caller's, no       *)
(* header's, and no free or whole page's.  Pmm_Free adds up the sizes of   *)
(* blocks on different pages (pmm.c:116-120), so this holds only as long   *)
(* as all the blocks together would fit in one page.                       *)
(***************************************************************************)
LiveDisjoint ==
    \A a \in live :
      LET mine == Bytes(a.ptr, a.size) IN
      /\ \A b \in live \ {a} : mine \cap Bytes(b.ptr, b.size) = {}
      /\ \A i \in DOMAIN pmm_free_blocks :
            mine \cap Bytes(pmm_free_blocks[i].addr, Hdr) = {}
      /\ \A p \in ToSet(pmm_stack) \cup whole : mine \cap Bytes(p, PageSize) = {}

(***************************************************************************)
(* Every page is on the stack, handed out whole, or cut into blocks, and  *)
(* never two of these; the stack holds no page twice (pmm.c:25-43, 82).    *)
(***************************************************************************)
PagesPartition ==
    /\ IsInjective(pmm_stack)
    /\ ToSet(pmm_stack) \cap whole = {}
    /\ ChainPages \cap (ToSet(pmm_stack) \cup whole) = {}

(***************************************************************************)
(* As long as no page is taken, splitting, reusing and swallowing move     *)
(* bytes between blocks but neither make nor lose any (pmm.c:64-73,        *)
(* 116-120).                                                               *)
(***************************************************************************)
SizesConserved ==
    [][pmm_stack' = pmm_stack =>
         SizeOf(pmm_free_blocks', DOMAIN pmm_free_blocks')
           = SizeOf(pmm_free_blocks, DOMAIN pmm_free_blocks)]_vars
=============================================================================
