------------------------------- MODULE KHeap -------------------------------
(***************************************************************************)
(* The kernel heap of memory/heap.c: a ring of blocks behind block_head,   *)
(* doubly linked, searched first-fit, never split, and coalesced with both *)
(* neighbours on free.                                                     *)
(*                                                                         *)
(* A block is named by its address.  Every new block comes from            *)
(* Pmm_Allocate(1).  Pmm_Free has no caller but Pmm_Reallocate, and that   *)
(* none but RamDisk_Create, which the boot code does not call, so each is  *)
(* at the start of a fresh page: Supply lists them in the order in which   *)
(* Pmm hands them out.  Calls are atomic here, as they are at boot, before *)
(* interrupts are enabled.                                                 *)
(***************************************************************************)
EXTENDS Integers, FiniteSets, SequencesExt

CONSTANTS
    BlockHead,  \* kernel_heap->block_head
    Zero,       \* VIRTUAL_TO_PHYSICAL(NULL), what Pmm gives when it has no page
    Supply,     \* the fresh blocks, in the order in which Pmm gives them
    Hdr,        \* sizeof(Heap_BlockT)
    Requests    \* the sizes that callers ask for

ASSUME KHeapAssumption ==
    /\ Supply \in Seq(ToSet(Supply)) /\ IsInjective(Supply)
    /\ BlockHead # Zero /\ {BlockHead, Zero} \cap ToSet(Supply) = {}
    /\ Hdr \in Nat \ {0}
    /\ Requests \subseteq Nat \ {0}

VARIABLES
    heap,       \* the fields next, prev, size and state of every block
    taken,      \* how many blocks of Supply are taken
    failures,   \* how often Pmm had no page
    held        \* what callers hold: the size asked for, or 0

vars == <<heap, taken, failures, held>>

Blocks == ToSet(Supply) \cup {BlockHead, Zero}

\* KHeap_Initialize: the head alone, in use for good.  (A block that was
\* never taken has no fields; the values given to it here are not read.)
Init ==
    /\ heap = [next  |-> [b \in Blocks |-> b], prev  |-> [b \in Blocks |-> b],
               size  |-> [b \in Blocks |-> 0], state |-> [b \in Blocks |-> 1]]
    /\ taken = 0
    /\ failures = 0
    /\ held = [b \in Blocks |-> 0]

-----------------------------------------------------------------------------
\* The second failure links Zero to itself: the next search need not end, and
\* two callers hold the one block.  Nothing is said of what follows.
Running == failures < 2

\* the search: where next leads from the head in k steps ...
At == LET at[k \in 0 .. Cardinality(Blocks)] ==
              IF k = 0 THEN BlockHead ELSE heap.next[at[k - 1]]
      IN  at

\* ... and the steps it makes before it is back there
Lap == {k \in 0 .. Cardinality(Blocks) - 1 : \A j \in 1 .. k : At[j] # BlockHead}

Ring == {At[k] : k \in Lap}

Fits(size) == {k \in Lap : heap.state[At[k]] = 0 /\ heap.size[At[k]] >= size}

FirstFit(size) == At[CHOOSE k \in Fits(size) : \A j \in Fits(size) : k =< j]

\* mutant: the block is not marked as in use
ReuseKeepsState(size) ==
    /\ Running
    /\ Fits(size) # {}
    /\ held' = [held EXCEPT ![FirstFit(size)] = size]
    /\ UNCHANGED <<heap, taken, failures>>

\* KHeap_Allocate, when a free block is large enough
Reuse(size) ==
    /\ Running
    /\ Fits(size) # {}
    /\ heap' = [heap EXCEPT !.state[FirstFit(size)] = 1]
    /\ held' = [held EXCEPT ![FirstFit(size)] = size]
    /\ UNCHANGED <<taken, failures>>

Fresh == IF taken < Len(Supply) THEN Supply[taken + 1] ELSE Zero

(***************************************************************************)
(* KHeap_Allocate, when none is: a new block at the end of the ring.  That *)
(* Pmm_Allocate failed goes unnoticed, and the block Zero is used.         *)
(***************************************************************************)
Extend(size) ==
    /\ Running
    /\ Fits(size) = {}
    /\ LET last == heap.prev[BlockHead] IN
       heap' = [next  |-> [heap.next EXCEPT ![Fresh] = BlockHead, ![last] = Fresh],
                prev  |-> [heap.prev EXCEPT ![Fresh] = last, ![BlockHead] = Fresh],
                size  |-> [heap.size EXCEPT ![Fresh] = size],
                state |-> [heap.state EXCEPT ![Fresh] = 1]]
    /\ held' = [held EXCEPT ![Fresh] = size]
    /\ IF taken < Len(Supply) THEN taken' = taken + 1 /\ UNCHANGED failures
                              ELSE failures' = failures + 1 /\ UNCHANGED taken

\* mutants: the successor still points back to b; the header is taken off
AbsorbKeepsPrev(h, p, b) ==
    [h EXCEPT !.size[p] = h.size[p] + Hdr + h.size[b], !.next[p] = h.next[b]]

AbsorbSubtracts(h, p, b) ==
    [h EXCEPT !.size[p] = h.size[p] + h.size[b] - Hdr,
              !.next[p] = h.next[b],
              !.prev[h.next[b]] = p]

\* block p takes in its successor b, wherever the two are in memory
Absorb(h, p, b) ==
    [h EXCEPT !.size[p] = h.size[p] + Hdr + h.size[b],
              !.next[p] = h.next[b],
              !.prev[h.next[b]] = p]

\* mutant: only the block behind is looked at
FreeLooksBehind(b) ==
    LET h == [heap EXCEPT !.state[b] = 0]
        n == h.next[b]
    IN  /\ Running /\ held[b] # 0
        /\ heap' = IF n # BlockHead /\ h.state[n] = 0 THEN Absorb(h, b, n) ELSE h
        /\ held' = [held EXCEPT ![b] = 0]
        /\ UNCHANGED <<taken, failures>>

\* KHeap_Free of a block that is held, its header intact
KHeap_Free(b) ==
    LET h == [heap EXCEPT !.state[b] = 0]
        n == h.next[b]
        g == IF n # BlockHead /\ h.state[n] = 0 THEN Absorb(h, b, n) ELSE h
        p == g.prev[b]
    IN  /\ Running /\ held[b] # 0
        /\ heap' = IF p # BlockHead /\ g.state[p] = 0 THEN Absorb(g, p, b) ELSE g
        /\ held' = [held EXCEPT ![b] = 0]
        /\ UNCHANGED <<taken, failures>>

Next ==
    \/ \E size \in Requests : Reuse(size)
    \/ \E size \in Requests : Extend(size)
    \/ \E b \in Blocks : KHeap_Free(b)

Spec == Init /\ [][Next]_vars

-----------------------------------------------------------------------------
(***************************************************************************)
(* The fields have their types; the head is in use, and of size 0, for     *)
(* good (heap.c:14-25).                                                    *)
(***************************************************************************)
TypeOK ==
    /\ heap \in [next : [Blocks -> Blocks], prev : [Blocks -> Blocks],
                 size : [Blocks -> Nat], state : [Blocks -> {0, 1}]]
    /\ heap.size[BlockHead] = 0 /\ heap.state[BlockHead] = 1
    /\ taken \in 0 .. Len(Supply)
    /\ failures \in 0 .. 2
    /\ held \in [Blocks -> Requests \cup {0}]

(***************************************************************************)
(* The ring stays a ring: from any block, forward and back again is where  *)
(* one was, and the search from the head always comes back to it           *)
(* (heap.c:30-36, 43-46, 60-70), until Pmm has failed twice.               *)
(***************************************************************************)
RingClosed ==
    Running =>
        /\ \A b \in Ring : heap.next[heap.prev[b]] = b /\ heap.prev[heap.next[b]] = b
        /\ \E k \in 1 .. Cardinality(Blocks) : At[k] = BlockHead

(***************************************************************************)
(* A block is in use exactly when a caller holds it, is then on the ring,  *)
(* and is as large as that caller asked for: no block is handed out twice, *)
(* and none that was absorbed is (heap.c:31-33, 56-58).                    *)
(***************************************************************************)
HeldMatchesState ==
    Running =>
        /\ \A b \in Blocks : held[b] # 0 => b \in Ring /\ heap.size[b] >= held[b]
        /\ \A b \in Ring \ {BlockHead} : held[b] # 0 <=> heap.state[b] = 1

\* No two neighbours on the ring are both free: KHeap_Free merges with both
\* sides (heap.c:60-70), and nothing else makes a block free.
FreeCoalesced ==
    Running =>
        \A b \in Ring : ~(heap.state[b] = 0 /\ heap.state[heap.next[b]] = 0)

\* the bytes of the blocks of the ring, headers included
RingBytes == FoldFunctionOnSet(+, 0, [b \in Blocks |-> heap.size[b] + Hdr], Ring)

\* Without a new block, neither reuse nor merging makes or loses bytes, those
\* of an absorbed header included (heap.c:61, 67).
BytesConserved ==
    [][taken' = taken /\ failures' = failures => RingBytes' = RingBytes]_vars
=============================================================================
