------------------------- MODULE KHeapSharedProofs -------------------------
(***************************************************************************)
(* Proofs about KHeapShared, for any number of processes, any of them      *)
(* exiting, and any of their stacks below their records.  An exited        *)
(* process is not resumed (the theorems assume ~Resumed), so that each     *)
(* call of KHeap_Free runs to some access of its own and stops there.      *)
(***************************************************************************)
EXTENDS KHeapShared, Totals, FiniteSetTheorems, TLAPS

-----------------------------------------------------------------------------
(***************************************************************************)
(* Blocks and accesses                                                     *)
(***************************************************************************)

\* The blocks have the numbers from 0, the records and stacks are among them.
LEMMA Numbers ==
    \E n \in Nat : /\ Procs = 1 .. n /\ Blocks = 0 .. 2 * n + 1
                   /\ Cardinality(Blocks) = 2 * n + 2
<1>1. PICK n \in Nat : n = Cardinality(Procs)
  BY KHeapSharedAssumption, FS_CardinalityType
<1>2. Procs = 1 .. n /\ Blocks = 0 .. 2 * n + 1
  BY <1>1, KHeapSharedAssumption DEF Blocks
<1>3. PICK m \in Nat : m = 2 * n + 1
  BY <1>1
<1>4. Cardinality(0 .. m) = m + 1
  BY <1>3, FS_Interval
<1> QED  BY <1>2, <1>3, <1>4

\* A process has a record and a stack of its own, and neither is the head.
LEMMA OwnBlocks ==
    ASSUME NEW p \in Procs
    PROVE  /\ Record(p) \in Blocks \ {0} /\ Stack(p) \in Blocks \ {0}
           /\ \A q \in Procs : Stack(p) # Record(q) /\ (Record(p) = Record(q) => p = q)
BY Numbers DEF Record, Stack

\* The head, and what is no block.
LEMMA Ends ==
    BlockHead = 0 /\ 0 \in Blocks /\ Blocks \subseteq Nat /\ NoBlock = -1 /\ NoBlock \notin Blocks
BY Numbers DEF BlockHead, NoBlock

\* The accesses of KHeap_Free in their order.
LEMMA Accesses ==
    /\ DOMAIN Free = 1 .. 18 /\ Returned = 19 /\ New = -1 /\ Runs = 0
    /\ Free[1] = Clear /\ Free[2] = NotHead("next", 10)
    /\ Free[3] = Load("x", "block", "next") /\ Free[4] = IsFree(10)
    /\ Free[5] = Load("x", "block", "next") /\ Free[6] = Load("x", "x", "next")
    /\ Free[7] = Store("block", "next", "x") /\ Free[8] = Load("x", "block", "next")
    /\ Free[9] = Store("x", "prev", "block") /\ Free[10] = NotHead("prev", 19)
    /\ Free[11] = Load("x", "block", "prev") /\ Free[12] = IsFree(19)
    /\ Free[13] = Load("x", "block", "prev") /\ Free[14] = Load("y", "block", "next")
    /\ Free[15] = Store("x", "next", "y") /\ Free[16] = Load("x", "block", "next")
    /\ Free[17] = Load("y", "block", "prev") /\ Free[18] = Store("x", "prev", "y")
BY DEF Free, Returned, New, Runs

\* What the loads are made of,
LEMMA Loads ==
    /\ Free[3].op = "load" /\ Free[3].reg = "x" /\ Free[3].base = "block" /\ Free[3].field = "next"
    /\ Free[5].op = "load" /\ Free[5].reg = "x" /\ Free[5].base = "block" /\ Free[5].field = "next"
    /\ Free[6].op = "load" /\ Free[6].reg = "x" /\ Free[6].base = "x" /\ Free[6].field = "next"
    /\ Free[8].op = "load" /\ Free[8].reg = "x" /\ Free[8].base = "block" /\ Free[8].field = "next"
    /\ Free[11].op = "load" /\ Free[11].reg = "x" /\ Free[11].base = "block" /\ Free[11].field = "prev"
    /\ Free[13].op = "load" /\ Free[13].reg = "x" /\ Free[13].base = "block" /\ Free[13].field = "prev"
    /\ Free[14].op = "load" /\ Free[14].reg = "y" /\ Free[14].base = "block" /\ Free[14].field = "next"
    /\ Free[16].op = "load" /\ Free[16].reg = "x" /\ Free[16].base = "block" /\ Free[16].field = "next"
    /\ Free[17].op = "load" /\ Free[17].reg = "y" /\ Free[17].base = "block" /\ Free[17].field = "prev"
BY Accesses DEF Load

\* the stores,
LEMMA Stores ==
    /\ Free[7].op = "store" /\ Free[7].base = "block" /\ Free[7].field = "next" /\ Free[7].reg = "x"
    /\ Free[9].op = "store" /\ Free[9].base = "x" /\ Free[9].field = "prev" /\ Free[9].reg = "block"
    /\ Free[15].op = "store" /\ Free[15].base = "x" /\ Free[15].field = "next" /\ Free[15].reg = "y"
    /\ Free[18].op = "store" /\ Free[18].base = "x" /\ Free[18].field = "prev" /\ Free[18].reg = "y"
BY Accesses DEF Store

\* and the tests.
LEMMA Tests ==
    /\ Free[1].op = "clear"
    /\ Free[2].op = "not_head" /\ Free[2].field = "next" /\ Free[2].else = 10
    /\ Free[10].op = "not_head" /\ Free[10].field = "prev" /\ Free[10].else = 19
    /\ Free[4].op = "is_free" /\ Free[4].else = 10
    /\ Free[12].op = "is_free" /\ Free[12].else = 19
<1>1. Free[1].op = "clear"
  BY Accesses DEF Clear
<1>2. /\ Free[2].op = "not_head" /\ Free[2].field = "next" /\ Free[2].else = 10
      /\ Free[10].op = "not_head" /\ Free[10].field = "prev" /\ Free[10].else = 19
  BY Accesses DEF NotHead
<1>3. /\ Free[4].op = "is_free" /\ Free[4].else = 10
      /\ Free[12].op = "is_free" /\ Free[12].else = 19
  BY Accesses DEF IsFree
<1> QED  BY <1>1, <1>2, <1>3

\* Which accesses are of which kind.
LEMMA Kinds ==
    ASSUME NEW k \in 1 .. 18
    PROVE  /\ Free[k].op = "clear" => k = 1
           /\ Free[k].op = "not_head" => k \in {2, 10}
           /\ Free[k].op = "is_free" => k \in {4, 12}
           /\ Free[k].op = "load" => k \in {3, 5, 6, 8, 11, 13, 14, 16, 17}
           /\ Free[k].op = "store" => k \in {7, 9, 15, 18}
<1>1. k \in {1} \cup {2, 10} \cup {4, 12} \cup {3, 5, 6, 8, 11, 13, 14, 16, 17} \cup {7, 9, 15, 18}
  OBVIOUS
<1>2. /\ k = 1 => Free[k].op = "clear"
      /\ k \in {2, 10} => Free[k].op = "not_head"
      /\ k \in {4, 12} => Free[k].op = "is_free"
  BY Tests
<1>3. k \in {3, 5, 6, 8, 11, 13, 14, 16, 17} => Free[k].op = "load"
  BY Loads
<1>4. k \in {7, 9, 15, 18} => Free[k].op = "store"
  BY Stores
<1> QED  BY <1>1, <1>2, <1>3, <1>4

-----------------------------------------------------------------------------
(***************************************************************************)
(* The ring: a link passes over free blocks only                           *)
(***************************************************************************)

\* c lies behind b, or is the head, and what lies between them is free
SkipsFree(h, b, c) ==
    /\ b \in Blocks /\ c \in Blocks /\ (c = 0 \/ b < c)
    /\ \A d \in Blocks : b < d /\ (c = 0 \/ d < c) => h.state[d] = 0

HeapType ==
    [next : [Blocks -> Blocks \cup {NoBlock}], prev : [Blocks -> Blocks \cup {NoBlock}],
     state : [Blocks -> {0, 1, KernelData}], magic : [Blocks -> BOOLEAN]]

\* the stacks of B lie below their records
Spoilt(B, b) == \E p \in B : b = Record(p)

\* the links of h skip free blocks, but for those that frames have written over,
LinksOK(h, B) ==
    /\ h \in HeapType
    /\ \A b \in Blocks : SkipsFree(h, h.prev[b], b) \/ (h.prev[b] = NoBlock /\ Spoilt(B, b))
    /\ \A b \in Blocks : SkipsFree(h, b, h.next[b]) \/ (h.next[b] = NoBlock /\ Spoilt(B, b))

\* and the records these are in stay in use
RingOK(h, B) == LinksOK(h, B) /\ \A b \in Blocks : Spoilt(B, b) => h.state[b] # 0

\* Over a free block two links become one.
LEMMA SkipJoin ==
    ASSUME NEW h, NEW a, NEW b, NEW c, SkipsFree(h, a, b), SkipsFree(h, b, c),
           b # 0, h.state[b] = 0
    PROVE  SkipsFree(h, a, c)
<1>1. a \in Nat /\ b \in Nat /\ c \in Nat /\ a < b
  BY Ends DEF SkipsFree
<1>2. c = 0 \/ a < c
  BY <1>1 DEF SkipsFree
<1>3. ASSUME NEW d \in Blocks, a < d, c = 0 \/ d < c PROVE h.state[d] = 0
  <2>1. d \in Nat
    BY Ends
  <2>2. d < b \/ d = b \/ b < d
    BY <1>1, <2>1
  <2> QED  BY <1>3, <2>2 DEF SkipsFree
<1> QED  BY <1>2, <1>3 DEF SkipsFree

\* A block that is cleared is passed over as well.
LEMMA ClearLinks ==
    ASSUME NEW B, NEW h, LinksOK(h, B), NEW b \in Blocks
    PROVE  LET n == [h EXCEPT !.state[b] = 0] IN
           /\ LinksOK(n, B) /\ n.next = h.next /\ n.prev = h.prev /\ n.magic = h.magic
           /\ \A d \in Blocks : n.state[d] = IF d = b THEN 0 ELSE h.state[d]
<1> DEFINE n == [h EXCEPT !.state[b] = 0]
<1>1. /\ n \in HeapType /\ n.prev = h.prev /\ n.next = h.next /\ n.magic = h.magic
      /\ \A d \in Blocks : n.state[d] = IF d = b THEN 0 ELSE h.state[d]
  BY DEF LinksOK, HeapType
<1> HIDE DEF n
<1>2. \A a, c : SkipsFree(h, a, c) => SkipsFree(n, a, c)
  BY <1>1 DEF SkipsFree
<1>3. \A d \in Blocks : SkipsFree(n, n.prev[d], d) \/ (n.prev[d] = NoBlock /\ Spoilt(B, d))
  BY <1>1, <1>2 DEF LinksOK
<1>4. \A d \in Blocks : SkipsFree(n, d, n.next[d]) \/ (n.next[d] = NoBlock /\ Spoilt(B, d))
  BY <1>1, <1>2 DEF LinksOK
<1>5. LinksOK(n, B)
  BY <1>1, <1>3, <1>4 DEF LinksOK
<1> QED  BY <1>1, <1>5 DEF n

LEMMA ClearOK ==
    ASSUME NEW B, NEW h, RingOK(h, B), NEW b \in Blocks, ~Spoilt(B, b)
    PROVE  LET n == [h EXCEPT !.state[b] = 0] IN
           RingOK(n, B) /\ n.state[b] = 0 /\ n.next = h.next /\ n.magic = h.magic
<1>1. PICK n : n = [h EXCEPT !.state[b] = 0]
  OBVIOUS
<1>2. /\ LinksOK(n, B) /\ n.next = h.next /\ n.magic = h.magic
      /\ \A d \in Blocks : n.state[d] = IF d = b THEN 0 ELSE h.state[d]
  BY <1>1, ClearLinks DEF RingOK
<1>3. \A d \in Blocks : Spoilt(B, d) => n.state[d] # 0
  BY <1>2 DEF RingOK
<1> QED  BY <1>1, <1>2, <1>3 DEF RingOK

\* A link that skips free blocks may be stored, forwards
LEMMA NextOK ==
    ASSUME NEW B, NEW h, RingOK(h, B), NEW b \in Blocks, NEW c, SkipsFree(h, b, c)
    PROVE  LET n == [h EXCEPT !.next[b] = c] IN
           /\ RingOK(n, B) /\ n.state = h.state /\ n.magic = h.magic
           /\ \A d \in Blocks : d # b => n.next[d] = h.next[d]
<1> DEFINE n == [h EXCEPT !.next[b] = c]
<1>1. /\ n \in HeapType /\ n.prev = h.prev /\ n.state = h.state /\ n.magic = h.magic
      /\ \A d \in Blocks : n.next[d] = IF d = b THEN c ELSE h.next[d]
  BY DEF RingOK, LinksOK, HeapType, SkipsFree
<1> HIDE DEF n
<1>2. \A a, d : SkipsFree(h, a, d) => SkipsFree(n, a, d)
  BY <1>1 DEF SkipsFree
<1>3. \A d \in Blocks : SkipsFree(n, n.prev[d], d) \/ (n.prev[d] = NoBlock /\ Spoilt(B, d))
  BY <1>1, <1>2 DEF RingOK, LinksOK
<1>4. \A d \in Blocks : SkipsFree(n, d, n.next[d]) \/ (n.next[d] = NoBlock /\ Spoilt(B, d))
  BY <1>1, <1>2 DEF RingOK, LinksOK
<1>5. \A d \in Blocks : Spoilt(B, d) => n.state[d] # 0
  BY <1>1 DEF RingOK
<1>6. RingOK(n, B)
  BY <1>1, <1>3, <1>4, <1>5 DEF RingOK, LinksOK
<1> QED  BY <1>1, <1>6 DEF n

\* and backwards.
LEMMA PrevOK ==
    ASSUME NEW B, NEW h, RingOK(h, B), NEW b \in Blocks, NEW a, SkipsFree(h, a, b)
    PROVE  LET n == [h EXCEPT !.prev[b] = a] IN
           RingOK(n, B) /\ n.state = h.state /\ n.magic = h.magic /\ n.next = h.next
<1> DEFINE n == [h EXCEPT !.prev[b] = a]
<1>1. /\ n \in HeapType /\ n.next = h.next /\ n.state = h.state /\ n.magic = h.magic
      /\ \A d \in Blocks : n.prev[d] = IF d = b THEN a ELSE h.prev[d]
  BY DEF RingOK, LinksOK, HeapType, SkipsFree
<1> HIDE DEF n
<1>2. \A c, d : SkipsFree(h, c, d) => SkipsFree(n, c, d)
  BY <1>1 DEF SkipsFree
<1>3. \A d \in Blocks : SkipsFree(n, n.prev[d], d) \/ (n.prev[d] = NoBlock /\ Spoilt(B, d))
  BY <1>1, <1>2 DEF RingOK, LinksOK
<1>4. \A d \in Blocks : SkipsFree(n, d, n.next[d]) \/ (n.next[d] = NoBlock /\ Spoilt(B, d))
  BY <1>1, <1>2 DEF RingOK, LinksOK
<1>5. \A d \in Blocks : Spoilt(B, d) => n.state[d] # 0
  BY <1>1 DEF RingOK
<1>6. RingOK(n, B)
  BY <1>1, <1>3, <1>4, <1>5 DEF RingOK, LinksOK
<1> QED  BY <1>1, <1>6 DEF n

\* A frame may write over the links of a record that stays in use: n has the
\* blocks in use of h, and its links but for those of p's record.
LEMMA SpoilOK ==
    ASSUME NEW B, NEW h, RingOK(h, B), NEW p \in B, NEW n \in HeapType,
           \A d \in Blocks : h.state[d] = 0 <=> n.state[d] = 0,
           \A d \in Blocks : n.prev[d] = h.prev[d] \/ (d = Record(p) /\ n.prev[d] = NoBlock),
           \A d \in Blocks : n.next[d] = h.next[d] \/ (d = Record(p) /\ n.next[d] = NoBlock)
    PROVE  RingOK(n, B)
<1>1. \A a, d : SkipsFree(h, a, d) => SkipsFree(n, a, d)
  BY DEF SkipsFree
<1>2. \A d \in Blocks : SkipsFree(n, n.prev[d], d) \/ (n.prev[d] = NoBlock /\ Spoilt(B, d))
  BY <1>1 DEF RingOK, LinksOK, Spoilt
<1>3. \A d \in Blocks : SkipsFree(n, d, n.next[d]) \/ (n.next[d] = NoBlock /\ Spoilt(B, d))
  BY <1>1 DEF RingOK, LinksOK, Spoilt
<1>4. \A d \in Blocks : Spoilt(B, d) => n.state[d] # 0
  BY DEF RingOK
<1> QED  BY <1>2, <1>3, <1>4 DEF RingOK, LinksOK

\* The argument of Scheduler_Entry, its result, and the frame of an interrupt
\* do no more.
LEMMA EntryOK ==
    ASSUME NEW B, NEW h, RingOK(h, B), NEW p \in B, NEW b \in Blocks, b = Record(p)
    PROVE  LET n == [h EXCEPT !.next[b] = NoBlock] IN
           /\ RingOK(n, B) /\ n.magic = h.magic /\ n.next[b] = NoBlock
           /\ \A d \in Blocks : d # b => n.next[d] = h.next[d]
<1>1. PICK n : n = [h EXCEPT !.next[b] = NoBlock]
  OBVIOUS
<1>2. /\ n \in HeapType /\ n.prev = h.prev /\ n.state = h.state /\ n.magic = h.magic
      /\ \A d \in Blocks : n.next[d] = IF d = b THEN NoBlock ELSE h.next[d]
  BY <1>1 DEF RingOK, LinksOK, HeapType
<1>3. RingOK(n, B)
  BY <1>2, SpoilOK
<1> QED  BY <1>1, <1>2, <1>3

LEMMA ResultOK ==
    ASSUME NEW B, NEW h, RingOK(h, B), NEW p \in B, NEW b \in Blocks
    PROVE  LET n == [h EXCEPT !.magic[b] = FALSE] IN
           RingOK(n, B) /\ n.next = h.next /\ ~n.magic[b]
<1>1. PICK n : n = [h EXCEPT !.magic[b] = FALSE]
  OBVIOUS
<1>2. h \in HeapType
  BY DEF RingOK, LinksOK
<1>3. n \in HeapType /\ n.prev = h.prev /\ n.state = h.state /\ n.next = h.next
  BY <1>1, <1>2 DEF HeapType
<1>4. ~n.magic[b]
  BY <1>1, <1>2 DEF HeapType
<1>5. RingOK(n, B)
  BY <1>3, SpoilOK
<1> QED  BY <1>1, <1>3, <1>4, <1>5

LEMMA HitOK ==
    ASSUME NEW B, NEW h, RingOK(h, B), NEW p \in B, NEW b \in Blocks, b = Record(p)
    PROVE  /\ RingOK(Overwritten(h, b), B)
           /\ \A d \in Blocks : d # b => Overwritten(h, b).next[d] = h.next[d]
<1>1. PICK n : n = Overwritten(h, b)
  OBVIOUS
<1>2. h \in HeapType /\ h.state[b] # 0
  BY DEF RingOK, LinksOK, Spoilt
<1>3. /\ n.next = [h.next EXCEPT ![b] = NoBlock] /\ n.prev = [h.prev EXCEPT ![b] = NoBlock]
      /\ n.state = [h.state EXCEPT ![b] = KernelData]
      /\ n.magic = [h.magic EXCEPT ![b] = FALSE]
      /\ n = [next |-> n.next, prev |-> n.prev, state |-> n.state, magic |-> n.magic]
  BY <1>1 DEF Overwritten
<1>4. /\ h.next \in [Blocks -> Blocks \cup {NoBlock}] /\ h.prev \in [Blocks -> Blocks \cup {NoBlock}]
      /\ h.state \in [Blocks -> {0, 1, KernelData}] /\ h.magic \in [Blocks -> BOOLEAN]
  BY <1>2 DEF HeapType
<1>5. /\ n.next \in [Blocks -> Blocks \cup {NoBlock}] /\ n.prev \in [Blocks -> Blocks \cup {NoBlock}]
      /\ n.state \in [Blocks -> {0, 1, KernelData}]
  BY <1>3, <1>4
<1>6. n.magic \in [Blocks -> BOOLEAN]
  BY <1>3, <1>4
<1>7. n \in HeapType
  BY <1>3, <1>5, <1>6 DEF HeapType
<1>8. /\ \A d \in Blocks : n.next[d] = IF d = b THEN NoBlock ELSE h.next[d]
      /\ \A d \in Blocks : n.prev[d] = IF d = b THEN NoBlock ELSE h.prev[d]
      /\ \A d \in Blocks : n.state[d] = IF d = b THEN KernelData ELSE h.state[d]
  BY <1>3, <1>4
<1>9. \A d \in Blocks : h.state[d] = 0 <=> n.state[d] = 0
  BY <1>2, <1>8 DEF KernelData
<1>10. RingOK(n, B)
  BY <1>7, <1>8, <1>9, SpoilOK
<1> QED  BY <1>1, <1>8, <1>10

-----------------------------------------------------------------------------
(***************************************************************************)
(* The inductive invariant.  Only the process that runs may be within      *)
(* KHeap_Free and go on: what it has loaded is still true.  One that frees *)
(* a record it has written over goes as far as its first link.             *)
(***************************************************************************)

\* before access k: b is the block that is freed, v and w are x and y
At(k, h, b, v, w) ==
    /\ k \in 2 .. 18 => h.state[b] = 0
    /\ k \in 3 .. 6 => h.next[b] # 0
    /\ k \in {4, 6, 9, 17, 18} => v = h.next[b]
    /\ k \in {5, 6} => h.state[h.next[b]] = 0
    /\ k = 7 => SkipsFree(h, b, v)
    /\ k \in {12, 14, 15} => v = h.prev[b]
    /\ k \in {13, 14, 15} => h.state[h.prev[b]] = 0
    /\ k = 15 => w = h.next[b]
    /\ k = 18 => w = h.prev[b]

\* the block that p frees
Freeing(p, b, k, B) ==
    \/ b = Stack(p)
    \/ b = Record(p) /\ k \notin {New, Runs} /\ (p \notin B \/ k \in {1, Returned})

\* what frames have written: the argument at the start; if the process that
\* runs can be preempted while it frees, its result, so that its record is not
\* freed
Written(B, h, p, k, b, i) ==
    /\ \A q \in B : k[q] # New => h.next[Record(q)] = NoBlock
    /\ p \in B /\ k[p] \in 1 .. 19 /\ h.magic[Record(p)] => ~i
    /\ p \in B /\ k[p] = 1 /\ b[p] = Record(p) => h.magic[Record(p)]

\* every process frees blocks whose links are whole
Sound ==
    /\ RingOK(heap, below)
    /\ below \subseteq Procs /\ cpu \in Procs
    /\ pc \in [Procs -> -1 .. 19] /\ block \in [Procs -> Blocks]
    /\ x \in [Procs -> Blocks] /\ y \in [Procs -> Blocks]
    /\ \A p \in Procs : Freeing(p, block[p], pc[p], below)
    /\ At(pc[cpu], heap, block[cpu], x[cpu], y[cpu])
    /\ Written(below, heap, cpu, pc, block, irq)

\* the process that runs has faulted and frees its record, that its frame has
\* written over
Doomed ==
    /\ LinksOK(heap, below)
    /\ below \subseteq Procs /\ cpu \in below /\ ~irq
    /\ block[cpu] = Record(cpu) /\ heap.magic[Record(cpu)]
    /\ heap.next[Record(cpu)] = NoBlock
    /\ pc \in [Procs -> -1 .. 19] /\ pc[cpu] \in {2, 3, 4}
    /\ x \in [Procs -> Blocks \cup {NoBlock}] /\ y \in [Procs -> Blocks]
    /\ \A p \in Procs : p # cpu => x[p] \in Blocks
    /\ pc[cpu] = 4 => x[cpu] = NoBlock

IInv == Sound \/ Doomed

\* A block that is being freed is not the head, its links are whole, and so is
\* the next of a free block.
LEMMA FreeLinks ==
    ASSUME NEW h, NEW B \in SUBSET Procs, RingOK(h, B), NEW p \in Procs,
           NEW k \in 2 .. 18, NEW b, Freeing(p, b, k, B)
    PROVE  /\ b \in Blocks \ {0} /\ ~Spoilt(B, b)
           /\ SkipsFree(h, b, h.next[b]) /\ h.next[b] \in Blocks
           /\ SkipsFree(h, h.prev[b], b) /\ h.prev[b] \in Blocks
           /\ \A d \in Blocks : h.state[d] = 0 => SkipsFree(h, d, h.next[d]) /\ ~Spoilt(B, d)
<1>1. k \notin {1, Returned}
  BY Accesses
<1>2. b \in Blocks \ {0} /\ ~Spoilt(B, b)
  BY <1>1, OwnBlocks DEF Freeing, Spoilt
<1>3. SkipsFree(h, b, h.next[b]) /\ SkipsFree(h, h.prev[b], b)
  BY <1>2 DEF RingOK, LinksOK
<1>4. \A d \in Blocks : h.state[d] = 0 => SkipsFree(h, d, h.next[d]) /\ ~Spoilt(B, d)
  BY DEF RingOK, LinksOK
<1> QED  BY <1>2, <1>3, <1>4 DEF SkipsFree

\* The invariant holds at the start.
LEMMA InitOK == Init => IInv
<1> SUFFICES ASSUME Init PROVE IInv
  OBVIOUS
<1>1. PICK n \in Nat : Procs = 1 .. n /\ Blocks = 0 .. 2 * n + 1 /\ Cardinality(Blocks) = 2 * n + 2
  BY Numbers
<1>2. PICK m \in Nat : m = 2 * n + 2 /\ m > 0 /\ Blocks = 0 .. m - 1
  BY <1>1
<1>3. \A b \in Blocks : (b + 1) % m = IF b = m - 1 THEN 0 ELSE b + 1
  BY <1>2
<1>4. \A b \in Blocks : (b + m - 1) % m = IF b = 0 THEN m - 1 ELSE b - 1
  BY <1>2
<1>5. heap = [next  |-> [b \in Blocks |-> IF b = m - 1 THEN 0 ELSE b + 1],
              prev  |-> [b \in Blocks |-> IF b = 0 THEN m - 1 ELSE b - 1],
              state |-> [b \in Blocks |-> 1],
              magic |-> [b \in Blocks |-> TRUE]]
  BY <1>1, <1>2, <1>3, <1>4 DEF Init
<1>6. RingOK(heap, below)
  <2>1. heap \in HeapType
    BY <1>2, <1>5 DEF HeapType
  <2>2. \A b \in Blocks : SkipsFree(heap, heap.prev[b], b)
    BY <1>2, <1>5 DEF SkipsFree
  <2>3. \A b \in Blocks : SkipsFree(heap, b, heap.next[b])
    BY <1>2, <1>5 DEF SkipsFree
  <2>4. \A b \in Blocks : heap.state[b] = 1
    BY <1>5
  <2> QED  BY <2>1, <2>2, <2>3, <2>4 DEF RingOK, LinksOK
<1>7. /\ below \subseteq Procs /\ cpu \in Procs
      /\ pc = [p \in Procs |-> New] /\ block = [p \in Procs |-> Stack(p)]
      /\ x = [p \in Procs |-> 0] /\ y = [p \in Procs |-> 0]
  BY DEF Init, BlockHead
<1>8. /\ pc \in [Procs -> -1 .. 19] /\ block \in [Procs -> Blocks]
      /\ x \in [Procs -> Blocks] /\ y \in [Procs -> Blocks]
  BY <1>7, Accesses, OwnBlocks, Ends
<1>9. \A p \in Procs : Freeing(p, block[p], pc[p], below)
  BY <1>7 DEF Freeing
<1>10. At(pc[cpu], heap, block[cpu], x[cpu], y[cpu])
  BY <1>7, Accesses DEF At
<1>11. Written(below, heap, cpu, pc, block, irq)
  BY <1>7, Accesses DEF Written
<1>12. Sound
  BY <1>6, <1>7, <1>8, <1>9, <1>10, <1>11 DEF Sound
<1> QED  BY <1>12 DEF IInv

\* After an access the invariant has to be shown of what it changed only.
LEMMA Accessed ==
    ASSUME Sound, NEW k \in 2 .. 19, pc[cpu] \in 1 .. 18, ~Spoilt(below, block[cpu]),
           pc' = [pc EXCEPT ![cpu] = k], RingOK(heap', below),
           x' \in [Procs -> Blocks], y' \in [Procs -> Blocks],
           UNCHANGED <<below, block, cpu, irq>>, heap'.magic = heap.magic,
           \A d \in Blocks : Spoilt(below, d) => heap'.next[d] = heap.next[d],
           At(k, heap', block[cpu], x'[cpu], y'[cpu])
    PROVE  Sound'
<1>1. cpu \in Procs /\ pc \in [Procs -> -1 .. 19] /\ below \subseteq Procs
  BY DEF Sound
<1>2. /\ pc' \in [Procs -> -1 .. 19] /\ pc'[cpu] = k
      /\ \A p \in Procs : p # cpu => pc'[p] = pc[p]
  BY <1>1
<1>3. ASSUME NEW p \in Procs PROVE Freeing(p, block[p], pc'[p], below)
  <2>1. Freeing(p, block[p], pc[p], below)
    BY DEF Sound
  <2>2. CASE p = cpu
    <3>1. pc[p] # Returned /\ k \notin {New, Runs}
      BY <2>2, Accesses
    <3>2. block[p] = Record(p) => p \notin below
      BY <2>2 DEF Spoilt
    <3> QED  BY <1>2, <2>1, <2>2, <3>1, <3>2 DEF Freeing
  <2>3. CASE p # cpu
    BY <1>2, <2>1, <2>3
  <2> QED  BY <2>2, <2>3
<1>4. At(pc'[cpu], heap', block[cpu], x'[cpu], y'[cpu])
  BY <1>2
<1>5. Written(below, heap', cpu, pc', block, irq)
  <2>1. Written(below, heap, cpu, pc, block, irq)
    BY DEF Sound
  <2>2. ASSUME NEW q \in below, pc'[q] # New PROVE heap'.next[Record(q)] = NoBlock
    <3>1. pc[q] # New
      BY <1>1, <1>2, <2>2, Accesses
    <3>2. heap.next[Record(q)] = NoBlock
      BY <2>1, <3>1 DEF Written
    <3>3. Record(q) \in Blocks /\ Spoilt(below, Record(q))
      BY <1>1, OwnBlocks DEF Spoilt
    <3> QED  BY <3>2, <3>3
  <2>3. cpu \in below /\ heap'.magic[Record(cpu)] => ~irq
    BY <2>1 DEF Written
  <2> QED  BY <1>2, <2>2, <2>3 DEF Written
<1>6. Sound'
  <2>1. Freeing(cpu, block[cpu], pc'[cpu], below)
    BY <1>1, <1>3
  <2> QED  BY <1>1, <1>2, <1>3, <1>4, <1>5 DEF Sound
<1> QED  BY <1>6

\* What the process that runs has at an access of its own.
LEMMA Here ==
    ASSUME Sound, NEW p \in Procs, NEW op, Access(p, op)
    PROVE  /\ p = cpu /\ pc[cpu] \in 1 .. 18 /\ Free[pc[cpu]].op = op
           /\ RingOK(heap, below) /\ below \in SUBSET Procs
           /\ At(pc[cpu], heap, block[cpu], x[cpu], y[cpu])
           /\ Freeing(cpu, block[cpu], pc[cpu], below)
           /\ block[cpu] \in Blocks /\ x[cpu] \in Blocks /\ y[cpu] \in Blocks
           /\ x \in [Procs -> Blocks] /\ y \in [Procs -> Blocks]
BY Accesses DEF Sound, Access

\* One that frees a record written over clears it, and is doomed.
LEMMA DoClearOK ==
    ASSUME Sound, NEW p \in Procs, DoClear(p)
    PROVE  IInv'
<1>1. Access(p, "clear")
  BY DEF DoClear
<1>2. PICK k \in 1 .. 18 : k = pc[cpu] /\ k = 1
  BY <1>1, Here, Kinds
<1>3. PICK b : b = block[cpu]
  OBVIOUS
<1>4. b \in Blocks
  BY <1>1, <1>3, Here
<1>5. /\ heap' = [heap EXCEPT !.state[b] = 0] /\ pc' = [pc EXCEPT ![cpu] = 2]
      /\ UNCHANGED <<below, block, x, y, cpu, irq>>
  <2>1. p = cpu /\ pc[p] = 1
    BY <1>1, <1>2, Here
  <2>2. /\ heap' = [heap EXCEPT !.state[block[p]] = 0] /\ pc' = [pc EXCEPT ![p] = pc[p] + 1]
        /\ UNCHANGED <<below, block, x, y, cpu, irq>>
    BY DEF DoClear, Goto
  <2>3. pc[p] + 1 = 2
    BY <2>1
  <2> QED  BY <1>3, <2>1, <2>2, <2>3
<1>6. CASE ~Spoilt(below, b)
  <2>1. /\ RingOK(heap', below) /\ heap'.state[b] = 0
        /\ heap'.next = heap.next /\ heap'.magic = heap.magic
    BY <1>1, <1>4, <1>5, <1>6, Here, ClearOK
  <2>2. At(2, heap', b, x[cpu], y[cpu])
    BY <2>1 DEF At
  <2>3. x' \in [Procs -> Blocks] /\ y' \in [Procs -> Blocks] /\ x' = x /\ y' = y
    BY <1>1, <1>5, Here
  <2>4. Sound'
    BY <1>2, <1>3, <1>5, <1>6, <2>1, <2>2, <2>3, Accessed
  <2> QED  BY <2>4 DEF IInv
<1>7. CASE Spoilt(below, b)
  <2>1. below \subseteq Procs /\ cpu \in Procs /\ pc \in [Procs -> -1 .. 19]
    BY DEF Sound
  <2>2. b = Record(cpu) /\ cpu \in below
    <3>1. PICK q \in below : b = Record(q)
      BY <1>7 DEF Spoilt
    <3>2. b = Stack(cpu) \/ b = Record(cpu)
      BY <1>1, <1>3, Here DEF Freeing
    <3> QED  BY <2>1, <3>1, <3>2, OwnBlocks
  <2>3. Written(below, heap, cpu, pc, block, irq)
    BY DEF Sound
  <2>4. heap.magic[b] /\ ~irq
    <3>1. pc[cpu] = 1 /\ pc[cpu] \in 1 .. 19 /\ block[cpu] = Record(cpu)
      BY <1>2, <1>3, <2>2
    <3> QED  BY <2>2, <2>3, <3>1 DEF Written
  <2>5. heap.next[b] = NoBlock
    <3>1. pc[cpu] # New
      BY <1>2, Accesses
    <3> QED  BY <2>2, <2>3, <3>1 DEF Written
  <2>6. LinksOK(heap', below) /\ heap'.next = heap.next /\ heap'.magic = heap.magic
    BY <1>1, <1>4, <1>5, Here, ClearLinks DEF RingOK
  <2>7. pc' \in [Procs -> -1 .. 19] /\ pc'[cpu] = 2
    BY <1>5, <2>1
  <2>8. x \in [Procs -> Blocks] /\ y \in [Procs -> Blocks]
    BY DEF Sound
  <2>9. x \in [Procs -> Blocks \cup {NoBlock}] /\ \A q \in Procs : x[q] \in Blocks
    BY <2>8
  <2>10. Doomed'
    <3>1. heap'.magic[Record(cpu)] /\ heap'.next[Record(cpu)] = NoBlock
      BY <2>2, <2>4, <2>5, <2>6
    <3> QED  BY <1>3, <1>5, <2>1, <2>2, <2>4, <2>6, <2>7, <2>8, <2>9, <3>1 DEF Doomed
  <2> QED  BY <2>10 DEF IInv
<1> QED  BY <1>6, <1>7

LEMMA DoNotHeadOK ==
    ASSUME Sound, NEW p \in Procs, DoNotHead(p)
    PROVE  Sound'
<1>1. Access(p, "not_head")
  BY DEF DoNotHead
<1>2. PICK k \in 1 .. 18 : k = pc[cpu] /\ k \in {2, 10}
  BY <1>1, Here, Kinds
<1>3. PICK b : b = block[cpu]
  OBVIOUS
<1>4. heap.state[b] = 0 /\ ~Spoilt(below, b)
  <2>1. heap.state[b] = 0
    BY <1>1, <1>2, <1>3, Here DEF At
  <2>2. k \in 2 .. 18
    BY <1>2
  <2> QED  BY <1>1, <1>2, <1>3, <2>1, <2>2, Here, FreeLinks
<1>5. UNCHANGED <<heap, below, block, x, y, cpu, irq>>
  BY DEF DoNotHead
<1>6. CASE k = 2
  <2>1. pc' = [pc EXCEPT ![cpu] = IF heap.next[b] # 0 THEN 3 ELSE 10]
    <3>1. p = cpu /\ pc[p] = 2
      BY <1>1, <1>2, <1>6, Here
    <3>2. pc' = [pc EXCEPT ![p] = IF heap[Free[pc[p]].field][block[p]] # BlockHead
                                    THEN pc[p] + 1 ELSE Free[pc[p]].else]
      BY DEF DoNotHead, Goto
    <3>3. Free[pc[p]].field = "next" /\ Free[pc[p]].else = 10 /\ pc[p] + 1 = 3
      BY <3>1, Tests
    <3> QED  BY <1>3, <3>1, <3>2, <3>3, Ends
  <2>2. CASE heap.next[b] # 0
    <3>1. At(3, heap, b, x[cpu], y[cpu])
      BY <1>4, <2>2 DEF At
    <3> QED  BY <1>1, <1>3, <1>4, <1>5, <2>1, <2>2, <3>1, Here, Accessed
  <2>3. CASE heap.next[b] = 0
    <3>1. At(10, heap, b, x[cpu], y[cpu])
      BY <1>4 DEF At
    <3> QED  BY <1>1, <1>3, <1>4, <1>5, <2>1, <2>3, <3>1, Here, Accessed
  <2> QED  BY <2>2, <2>3
<1>7. CASE k = 10
  <2>1. pc' = [pc EXCEPT ![cpu] = IF heap.prev[b] # 0 THEN 11 ELSE 19]
    <3>1. p = cpu /\ pc[p] = 10
      BY <1>1, <1>2, <1>7, Here
    <3>2. pc' = [pc EXCEPT ![p] = IF heap[Free[pc[p]].field][block[p]] # BlockHead
                                    THEN pc[p] + 1 ELSE Free[pc[p]].else]
      BY DEF DoNotHead, Goto
    <3>3. Free[pc[p]].field = "prev" /\ Free[pc[p]].else = 19 /\ pc[p] + 1 = 11
      BY <3>1, Tests
    <3> QED  BY <1>3, <3>1, <3>2, <3>3, Ends
  <2>2. At(11, heap, b, x[cpu], y[cpu]) /\ At(19, heap, b, x[cpu], y[cpu])
    BY <1>4 DEF At
  <2>3. CASE heap.prev[b] # 0
    BY <1>1, <1>3, <1>4, <1>5, <2>1, <2>2, <2>3, Here, Accessed
  <2>4. CASE heap.prev[b] = 0
    BY <1>1, <1>3, <1>4, <1>5, <2>1, <2>2, <2>4, Here, Accessed
  <2> QED  BY <2>3, <2>4
<1> QED  BY <1>2, <1>6, <1>7

LEMMA DoIsFreeOK ==
    ASSUME Sound, NEW p \in Procs, DoIsFree(p)
    PROVE  Sound'
<1>1. Access(p, "is_free")
  BY DEF DoIsFree
<1>2. PICK k \in 1 .. 18 : k = pc[cpu] /\ k \in {4, 12}
  BY <1>1, Here, Kinds
<1>3. PICK b : b = block[cpu]
  OBVIOUS
<1>4. heap.state[b] = 0 /\ ~Spoilt(below, b)
  <2>1. heap.state[b] = 0
    BY <1>1, <1>2, <1>3, Here DEF At
  <2>2. k \in 2 .. 18
    BY <1>2
  <2> QED  BY <1>1, <1>2, <1>3, <2>1, <2>2, Here, FreeLinks
<1>5. UNCHANGED <<heap, below, block, x, y, cpu, irq>>
  BY DEF DoIsFree
<1>6. CASE k = 4
  <2>1. pc' = [pc EXCEPT ![cpu] = IF heap.state[x[cpu]] = 0 THEN 5 ELSE 10]
    <3>1. p = cpu /\ pc[p] = 4
      BY <1>1, <1>2, <1>6, Here
    <3>2. pc' = [pc EXCEPT ![p] = IF heap.state[x[p]] = 0
                                    THEN pc[p] + 1 ELSE Free[pc[p]].else]
      BY DEF DoIsFree, Goto
    <3>3. Free[pc[p]].else = 10 /\ pc[p] + 1 = 5
      BY <3>1, Tests
    <3> QED  BY <3>1, <3>2, <3>3
  <2>2. x[cpu] = heap.next[b] /\ heap.next[b] # 0
    BY <1>1, <1>2, <1>3, <1>6, Here DEF At
  <2>3. CASE heap.state[x[cpu]] = 0
    <3>1. At(5, heap, b, x[cpu], y[cpu])
      BY <1>4, <2>2, <2>3 DEF At
    <3> QED  BY <1>1, <1>3, <1>4, <1>5, <2>1, <2>3, <3>1, Here, Accessed
  <2>4. CASE heap.state[x[cpu]] # 0
    <3>1. At(10, heap, b, x[cpu], y[cpu])
      BY <1>4 DEF At
    <3> QED  BY <1>1, <1>3, <1>4, <1>5, <2>1, <2>4, <3>1, Here, Accessed
  <2> QED  BY <2>3, <2>4
<1>7. CASE k = 12
  <2>1. pc' = [pc EXCEPT ![cpu] = IF heap.state[x[cpu]] = 0 THEN 13 ELSE 19]
    <3>1. p = cpu /\ pc[p] = 12
      BY <1>1, <1>2, <1>7, Here
    <3>2. pc' = [pc EXCEPT ![p] = IF heap.state[x[p]] = 0
                                    THEN pc[p] + 1 ELSE Free[pc[p]].else]
      BY DEF DoIsFree, Goto
    <3>3. Free[pc[p]].else = 19 /\ pc[p] + 1 = 13
      BY <3>1, Tests
    <3> QED  BY <3>1, <3>2, <3>3
  <2>2. x[cpu] = heap.prev[b]
    BY <1>1, <1>2, <1>3, <1>7, Here DEF At
  <2>3. CASE heap.state[x[cpu]] = 0
    <3>1. At(13, heap, b, x[cpu], y[cpu])
      BY <1>4, <2>2, <2>3 DEF At
    <3> QED  BY <1>1, <1>3, <1>4, <1>5, <2>1, <2>3, <3>1, Here, Accessed
  <2>4. CASE heap.state[x[cpu]] # 0
    <3>1. At(19, heap, b, x[cpu], y[cpu])
      BY DEF At
    <3> QED  BY <1>1, <1>3, <1>4, <1>5, <2>1, <2>4, <3>1, Here, Accessed
  <2> QED  BY <2>3, <2>4
<1> QED  BY <1>2, <1>6, <1>7

\* What a load does to the pointers.
LoadsX(v, k) ==
    /\ x' = [x EXCEPT ![cpu] = v] /\ y' = y
    /\ pc' = [pc EXCEPT ![cpu] = k] /\ UNCHANGED <<heap, below, block, cpu, irq>>

LoadsY(v, k) ==
    /\ y' = [y EXCEPT ![cpu] = v] /\ x' = x
    /\ pc' = [pc EXCEPT ![cpu] = k] /\ UNCHANGED <<heap, below, block, cpu, irq>>

\* What each load loads.
LEMMA LoadValues ==
    ASSUME Sound, NEW p \in Procs, DoLoad(p)
    PROVE  LET b == block[cpu] IN
           \/ pc[cpu] \in {3, 5, 8, 16} /\ LoadsX(heap.next[b], pc[cpu] + 1)
           \/ pc[cpu] = 6 /\ LoadsX(heap.next[x[cpu]], 7)
           \/ pc[cpu] \in {11, 13} /\ LoadsX(heap.prev[b], pc[cpu] + 1)
           \/ pc[cpu] = 14 /\ LoadsY(heap.next[b], 15)
           \/ pc[cpu] = 17 /\ LoadsY(heap.prev[b], 18)
<1>1. Access(p, "load")
  BY DEF DoLoad
<1>2. PICK k \in 1 .. 18 : k = pc[cpu] /\ k \in {3, 5, 6, 8, 11, 13, 14, 16, 17}
  BY <1>1, Here, Kinds
<1>3. p = cpu
  BY <1>1, Here
<1>4. /\ Value(p, "block") = block[cpu] /\ Value(p, "x") = x[cpu]
  BY <1>3 DEF Value
<1>5. /\ IF Free[k].reg = "x"
            THEN x' = [x EXCEPT ![cpu] = heap[Free[k].field][Value(p, Free[k].base)]] /\ y' = y
            ELSE y' = [y EXCEPT ![cpu] = heap[Free[k].field][Value(p, Free[k].base)]] /\ x' = x
      /\ pc' = [pc EXCEPT ![cpu] = k + 1]
      /\ UNCHANGED <<heap, below, block, cpu, irq>>
  BY <1>2, <1>3 DEF DoLoad, Goto
<1>6. CASE k \in {3, 5, 8, 16}
  <2>1. Free[k].reg = "x" /\ Free[k].base = "block" /\ Free[k].field = "next"
    BY <1>6, Loads
  <2> QED  BY <1>2, <1>4, <1>5, <1>6, <2>1 DEF LoadsX
<1>7. CASE k = 6
  <2>1. Free[k].reg = "x" /\ Free[k].base = "x" /\ Free[k].field = "next"
    BY <1>7, Loads
  <2> QED  BY <1>2, <1>4, <1>5, <1>7, <2>1 DEF LoadsX
<1>8. CASE k \in {11, 13}
  <2>1. Free[k].reg = "x" /\ Free[k].base = "block" /\ Free[k].field = "prev"
    BY <1>8, Loads
  <2> QED  BY <1>2, <1>4, <1>5, <1>8, <2>1 DEF LoadsX
<1>9. CASE k = 14
  <2>1. Free[k].reg # "x" /\ Free[k].base = "block" /\ Free[k].field = "next"
    BY <1>9, Loads
  <2> QED  BY <1>2, <1>4, <1>5, <1>9, <2>1 DEF LoadsY
<1>10. CASE k = 17
  <2>1. Free[k].reg # "x" /\ Free[k].base = "block" /\ Free[k].field = "prev"
    BY <1>10, Loads
  <2> QED  BY <1>2, <1>4, <1>5, <1>10, <2>1 DEF LoadsY
<1> QED  BY <1>2, <1>6, <1>7, <1>8, <1>9, <1>10

\* The links of the block that is being freed are whole.
LEMMA BlockIsWhole ==
    ASSUME Sound, pc[cpu] \in 2 .. 18
    PROVE  ~Spoilt(below, block[cpu])
<1>1. /\ below \in SUBSET Procs /\ cpu \in Procs /\ RingOK(heap, below)
      /\ Freeing(cpu, block[cpu], pc[cpu], below)
  BY DEF Sound
<1> QED  BY <1>1, FreeLinks

\* The invariant after a load.
LEMMA LoadedX ==
    ASSUME Sound, NEW v \in Blocks, NEW k \in 2 .. 19, pc[cpu] \in 2 .. 18, LoadsX(v, k),
           At(k, heap, block[cpu], v, y[cpu])
    PROVE  Sound'
<1>1. x' \in [Procs -> Blocks] /\ x'[cpu] = v /\ y' \in [Procs -> Blocks]
  BY DEF Sound, LoadsX
<1>2. RingOK(heap', below)
  BY DEF Sound, LoadsX
<1>3. ~Spoilt(below, block[cpu])
  BY BlockIsWhole
<1>4. pc[cpu] \in 1 .. 18
  OBVIOUS
<1> QED  BY <1>1, <1>2, <1>3, <1>4, Accessed DEF LoadsX

LEMMA LoadedY ==
    ASSUME Sound, NEW v \in Blocks, NEW k \in 2 .. 19, pc[cpu] \in 2 .. 18, LoadsY(v, k),
           At(k, heap, block[cpu], x[cpu], v)
    PROVE  Sound'
<1>1. y' \in [Procs -> Blocks] /\ y'[cpu] = v /\ x' \in [Procs -> Blocks]
  BY DEF Sound, LoadsY
<1>2. RingOK(heap', below)
  BY DEF Sound, LoadsY
<1>3. ~Spoilt(below, block[cpu])
  BY BlockIsWhole
<1>4. pc[cpu] \in 1 .. 18
  OBVIOUS
<1> QED  BY <1>1, <1>2, <1>3, <1>4, Accessed DEF LoadsY

LEMMA DoLoadOK ==
    ASSUME Sound, NEW p \in Procs, DoLoad(p)
    PROVE  Sound'
<1>1. Access(p, "load")
  BY DEF DoLoad
<1>2. PICK k \in 2 .. 18 : k = pc[cpu]
  <2>1. pc[cpu] \in {3, 5, 6, 8, 11, 13, 14, 16, 17}
    BY <1>1, Here, Kinds
  <2> QED  BY <2>1
<1>3. PICK b : b = block[cpu]
  OBVIOUS
<1>4. /\ heap.next[b] \in Blocks /\ heap.prev[b] \in Blocks
      /\ SkipsFree(heap, b, heap.next[b])
      /\ \A d \in Blocks : heap.state[d] = 0 => SkipsFree(heap, d, heap.next[d])
  BY <1>1, <1>2, <1>3, Here, FreeLinks
<1>5. At(k, heap, b, x[cpu], y[cpu])
  BY <1>1, <1>2, <1>3, Here
<1>6. CASE k = 3
  <2>1. LoadsX(heap.next[b], 4)
    BY <1>2, <1>3, <1>6, LoadValues
  <2>2. At(4, heap, b, heap.next[b], y[cpu])
    BY <1>5, <1>6 DEF At
  <2> QED  BY <1>2, <1>3, <1>4, <2>1, <2>2, LoadedX
<1>7. CASE k = 5
  <2>1. LoadsX(heap.next[b], 6)
    BY <1>2, <1>3, <1>7, LoadValues
  <2>2. At(6, heap, b, heap.next[b], y[cpu])
    BY <1>5, <1>7 DEF At
  <2> QED  BY <1>2, <1>3, <1>4, <2>1, <2>2, LoadedX
<1>8. CASE k = 8
  <2>1. LoadsX(heap.next[b], 9)
    BY <1>2, <1>3, <1>8, LoadValues
  <2>2. At(9, heap, b, heap.next[b], y[cpu])
    BY <1>5, <1>8 DEF At
  <2> QED  BY <1>2, <1>3, <1>4, <2>1, <2>2, LoadedX
<1>9. CASE k = 11
  <2>1. LoadsX(heap.prev[b], 12)
    BY <1>2, <1>3, <1>9, LoadValues
  <2>2. At(12, heap, b, heap.prev[b], y[cpu])
    BY <1>5, <1>9 DEF At
  <2> QED  BY <1>2, <1>3, <1>4, <2>1, <2>2, LoadedX
<1>10. CASE k = 13
  <2>1. LoadsX(heap.prev[b], 14)
    BY <1>2, <1>3, <1>10, LoadValues
  <2>2. At(14, heap, b, heap.prev[b], y[cpu])
    BY <1>5, <1>10 DEF At
  <2> QED  BY <1>2, <1>3, <1>4, <2>1, <2>2, LoadedX
<1>11. CASE k = 14
  <2>1. LoadsY(heap.next[b], 15)
    BY <1>2, <1>3, <1>11, LoadValues
  <2>2. At(15, heap, b, x[cpu], heap.next[b])
    BY <1>5, <1>11 DEF At
  <2> QED  BY <1>2, <1>3, <1>4, <2>1, <2>2, LoadedY
<1>12. CASE k = 16
  <2>1. LoadsX(heap.next[b], 17)
    BY <1>2, <1>3, <1>12, LoadValues
  <2>2. At(17, heap, b, heap.next[b], y[cpu])
    BY <1>5, <1>12 DEF At
  <2> QED  BY <1>2, <1>3, <1>4, <2>1, <2>2, LoadedX
<1>13. CASE k = 17
  <2>1. LoadsY(heap.prev[b], 18)
    BY <1>2, <1>3, <1>13, LoadValues
  <2>2. At(18, heap, b, x[cpu], heap.prev[b])
    BY <1>5, <1>13 DEF At
  <2> QED  BY <1>2, <1>3, <1>4, <2>1, <2>2, LoadedY
<1>14. CASE k = 6
  <2>1. LoadsX(heap.next[x[cpu]], 7)
    BY <1>2, <1>3, <1>14, LoadValues
  <2>2. x[cpu] = heap.next[b] /\ x[cpu] # 0 /\ heap.state[x[cpu]] = 0 /\ heap.state[b] = 0
    BY <1>5, <1>14 DEF At
  <2>3. SkipsFree(heap, b, x[cpu]) /\ SkipsFree(heap, x[cpu], heap.next[x[cpu]])
    BY <1>4, <2>2
  <2>4. SkipsFree(heap, b, heap.next[x[cpu]])
    BY <2>2, <2>3, SkipJoin
  <2>5. heap.next[x[cpu]] \in Blocks
    BY <2>4 DEF SkipsFree
  <2>6. At(7, heap, b, heap.next[x[cpu]], y[cpu])
    BY <2>2, <2>4 DEF At
  <2> QED  BY <1>2, <1>3, <2>1, <2>5, <2>6, LoadedX
<1>15. k \in {3, 5, 8, 11, 13, 14, 16, 17, 6}
  BY <1>1, <1>2, Here, Kinds
<1> QED  BY <1>6, <1>7, <1>8, <1>9, <1>10, <1>11, <1>12, <1>13, <1>14, <1>15

\* What a store does to the ring.
Writes(h, k) ==
    /\ heap' = h /\ pc' = [pc EXCEPT ![cpu] = k]
    /\ UNCHANGED <<below, block, x, y, cpu, irq>>

\* What each store stores.
LEMMA StoreValues ==
    ASSUME Sound, NEW p \in Procs, DoStore(p)
    PROVE  LET b == block[cpu] IN
           \/ pc[cpu] = 7 /\ Writes([heap EXCEPT !.next[b] = x[cpu]], 8)
           \/ pc[cpu] = 9 /\ Writes([heap EXCEPT !.prev[x[cpu]] = b], 10)
           \/ pc[cpu] = 15 /\ Writes([heap EXCEPT !.next[x[cpu]] = y[cpu]], 16)
           \/ pc[cpu] = 18 /\ Writes([heap EXCEPT !.prev[x[cpu]] = y[cpu]], 19)
<1>1. Access(p, "store")
  BY DEF DoStore
<1>2. PICK k \in 1 .. 18 : k = pc[cpu] /\ k \in {7, 9, 15, 18}
  BY <1>1, Here, Kinds
<1>3. p = cpu
  BY <1>1, Here
<1>4. Value(p, "block") = block[cpu] /\ Value(p, "x") = x[cpu] /\ Value(p, "y") = y[cpu]
  BY <1>3 DEF Value
<1>5. /\ heap' = [heap EXCEPT ![Free[k].field][Value(p, Free[k].base)] = Value(p, Free[k].reg)]
      /\ pc' = [pc EXCEPT ![cpu] = k + 1]
      /\ UNCHANGED <<below, block, x, y, cpu, irq>>
  BY <1>2, <1>3 DEF DoStore, Goto
<1>6. CASE k = 7
  <2>1. Free[k].base = "block" /\ Free[k].field = "next" /\ Free[k].reg = "x"
    BY <1>6, Stores
  <2>2. heap' = [heap EXCEPT !.next[block[cpu]] = x[cpu]]
    BY <1>4, <1>5, <2>1, Zenon
  <2>3. pc' = [pc EXCEPT ![cpu] = 8]
    BY <1>5, <1>6
  <2> QED  BY <1>2, <1>5, <1>6, <2>2, <2>3, Zenon DEF Writes
<1>7. CASE k = 9
  <2>1. Free[k].base = "x" /\ Free[k].field = "prev" /\ Free[k].reg = "block"
    BY <1>7, Stores
  <2>2. heap' = [heap EXCEPT !.prev[x[cpu]] = block[cpu]]
    BY <1>4, <1>5, <2>1, Zenon
  <2>3. pc' = [pc EXCEPT ![cpu] = 10]
    BY <1>5, <1>7
  <2> QED  BY <1>2, <1>5, <1>7, <2>2, <2>3, Zenon DEF Writes
<1>8. CASE k = 15
  <2>1. Free[k].base = "x" /\ Free[k].field = "next" /\ Free[k].reg = "y"
    BY <1>8, Stores
  <2>2. heap' = [heap EXCEPT !.next[x[cpu]] = y[cpu]]
    BY <1>4, <1>5, <2>1, Zenon
  <2>3. pc' = [pc EXCEPT ![cpu] = 16]
    BY <1>5, <1>8
  <2> QED  BY <1>2, <1>5, <1>8, <2>2, <2>3, Zenon DEF Writes
<1>9. CASE k = 18
  <2>1. Free[k].base = "x" /\ Free[k].field = "prev" /\ Free[k].reg = "y"
    BY <1>9, Stores
  <2>2. heap' = [heap EXCEPT !.prev[x[cpu]] = y[cpu]]
    BY <1>4, <1>5, <2>1, Zenon
  <2>3. pc' = [pc EXCEPT ![cpu] = 19]
    BY <1>5, <1>9
  <2> QED  BY <1>2, <1>5, <1>9, <2>2, <2>3, Zenon DEF Writes
<1> QED  BY <1>2, <1>6, <1>7, <1>8, <1>9

\* The invariant after a store: after one only the state of the block is known.
LEMMA Stored ==
    ASSUME Sound, NEW h, NEW k \in {8, 10, 16, 19}, pc[cpu] \in 2 .. 18, Writes(h, k),
           RingOK(h, below), h.state[block[cpu]] = 0, h.magic = heap.magic,
           \A d \in Blocks : Spoilt(below, d) => h.next[d] = heap.next[d]
    PROVE  Sound'
<1>1. At(k, h, block[cpu], x[cpu], y[cpu])
  BY DEF At
<1>2. x' \in [Procs -> Blocks] /\ y' \in [Procs -> Blocks] /\ x' = x /\ y' = y
  BY DEF Sound, Writes
<1>3. k \in 2 .. 19 /\ pc[cpu] \in 1 .. 18
  OBVIOUS
<1>4. ~Spoilt(below, block[cpu])
  BY BlockIsWhole
<1> QED  BY <1>1, <1>2, <1>3, <1>4, Accessed DEF Writes

LEMMA DoStoreOK ==
    ASSUME Sound, NEW p \in Procs, DoStore(p)
    PROVE  Sound'
<1>1. Access(p, "store")
  BY DEF DoStore
<1>2. PICK k \in 2 .. 18 : k = pc[cpu] /\ k \in {7, 9, 15, 18}
  <2>1. pc[cpu] \in {7, 9, 15, 18}
    BY <1>1, Here, Kinds
  <2> QED  BY <2>1
<1>3. PICK b : b = block[cpu]
  OBVIOUS
<1>4. /\ b \in Blocks \ {0} /\ heap.next[b] \in Blocks /\ heap.prev[b] \in Blocks
      /\ SkipsFree(heap, b, heap.next[b]) /\ SkipsFree(heap, heap.prev[b], b)
      /\ ~Spoilt(below, b) /\ \A d \in Blocks : heap.state[d] = 0 => ~Spoilt(below, d)
  BY <1>1, <1>2, <1>3, Here, FreeLinks
<1>5. At(k, heap, b, x[cpu], y[cpu]) /\ heap.state[b] = 0
  BY <1>1, <1>2, <1>3, Here DEF At
<1>6. SkipsFree(heap, heap.prev[b], heap.next[b])
  BY <1>4, <1>5, SkipJoin
<1>7. RingOK(heap, below)
  BY DEF Sound
<1>8. CASE k = 7
  <2>1. PICK h : h = [heap EXCEPT !.next[b] = x[cpu]]
    OBVIOUS
  <2>2. Writes(h, 8)
    BY <1>2, <1>3, <1>8, <2>1, StoreValues
  <2>3. SkipsFree(heap, b, x[cpu])
    BY <1>5, <1>8 DEF At
  <2>4. /\ RingOK(h, below) /\ h.state = heap.state /\ h.magic = heap.magic
        /\ \A d \in Blocks : d # b => h.next[d] = heap.next[d]
    BY <1>4, <1>7, <2>1, <2>3, NextOK
  <2>5. \A d \in Blocks : Spoilt(below, d) => h.next[d] = heap.next[d]
    BY <1>4, <2>4
  <2> QED  BY <1>2, <1>3, <1>5, <2>2, <2>4, <2>5, Stored
<1>9. CASE k = 9
  <2>1. PICK h : h = [heap EXCEPT !.prev[x[cpu]] = b]
    OBVIOUS
  <2>2. Writes(h, 10)
    BY <1>2, <1>3, <1>9, <2>1, StoreValues
  <2>3. x[cpu] \in Blocks /\ SkipsFree(heap, b, x[cpu])
    BY <1>4, <1>5, <1>9 DEF At
  <2>4. /\ RingOK(h, below) /\ h.state = heap.state /\ h.magic = heap.magic
        /\ h.next = heap.next
    BY <1>7, <2>1, <2>3, PrevOK
  <2>5. \A d \in Blocks : Spoilt(below, d) => h.next[d] = heap.next[d]
    BY <2>4
  <2> QED  BY <1>2, <1>3, <1>5, <2>2, <2>4, <2>5, Stored
<1>10. CASE k = 15
  <2>1. PICK h : h = [heap EXCEPT !.next[x[cpu]] = y[cpu]]
    OBVIOUS
  <2>2. Writes(h, 16)
    BY <1>2, <1>3, <1>10, <2>1, StoreValues
  <2>3. x[cpu] \in Blocks /\ SkipsFree(heap, x[cpu], y[cpu]) /\ ~Spoilt(below, x[cpu])
    BY <1>4, <1>5, <1>6, <1>10 DEF At
  <2>4. /\ RingOK(h, below) /\ h.state = heap.state /\ h.magic = heap.magic
        /\ \A d \in Blocks : d # x[cpu] => h.next[d] = heap.next[d]
    BY <1>7, <2>1, <2>3, NextOK
  <2>5. \A d \in Blocks : Spoilt(below, d) => h.next[d] = heap.next[d]
    BY <2>3, <2>4
  <2> QED  BY <1>2, <1>3, <1>5, <2>2, <2>4, <2>5, Stored
<1>11. CASE k = 18
  <2>1. PICK h : h = [heap EXCEPT !.prev[x[cpu]] = y[cpu]]
    OBVIOUS
  <2>2. Writes(h, 19)
    BY <1>2, <1>3, <1>11, <2>1, StoreValues
  <2>3. x[cpu] \in Blocks /\ SkipsFree(heap, y[cpu], x[cpu])
    BY <1>4, <1>5, <1>6, <1>11 DEF At
  <2>4. /\ RingOK(h, below) /\ h.state = heap.state /\ h.magic = heap.magic
        /\ h.next = heap.next
    BY <1>7, <2>1, <2>3, PrevOK
  <2>5. \A d \in Blocks : Spoilt(below, d) => h.next[d] = heap.next[d]
    BY <2>4
  <2> QED  BY <1>2, <1>3, <1>5, <2>2, <2>4, <2>5, Stored
<1> QED  BY <1>2, <1>8, <1>9, <1>10, <1>11

\* Outside of the accesses nothing is loaded.
LEMMA AtEnds ==
    ASSUME NEW k \in {-1, 0, 1, 19}, NEW h, NEW b, NEW v, NEW w
    PROVE  At(k, h, b, v, w)
BY DEF At

\* A step of a process that is not within KHeap_Free changes of the others nothing.
LEMMA Outside ==
    ASSUME Sound, NEW p \in Procs, p = cpu, NEW k \in {-1, 0, 1, 19},
           pc' = [pc EXCEPT ![p] = k], UNCHANGED <<below, x, y, cpu>>, RingOK(heap', below),
           block' \in [Procs -> Blocks], \A q \in Procs : q # p => block'[q] = block[q],
           Freeing(p, block'[p], k, below), Written(below, heap', p, pc', block', irq')
    PROVE  Sound'
<1>1. /\ pc' \in [Procs -> -1 .. 19] /\ pc'[p] = k
      /\ \A q \in Procs : q # p => pc'[q] = pc[q]
  BY DEF Sound
<1>2. ASSUME NEW q \in Procs PROVE Freeing(q, block'[q], pc'[q], below)
  BY <1>1 DEF Sound
<1>3. At(pc'[cpu'], heap', block'[cpu'], x[cpu'], y[cpu'])
  BY <1>1, AtEnds
<1> QED  BY <1>1, <1>2, <1>3 DEF Sound

LEMMA general_interrupt_handlerOK ==
    ASSUME Sound, NEW p \in Procs, general_interrupt_handler(p)
    PROVE  Sound'
<1>1. /\ p = cpu /\ irq /\ pc[p] = -1 /\ p \in below /\ pc \in [Procs -> -1 .. 19]
      /\ UNCHANGED <<below, pc, block, x, y, cpu, irq>>
      /\ heap' = Overwritten(heap, Record(p))
  BY Accesses DEF general_interrupt_handler, Sound
<1>2. Record(p) \in Blocks /\ RingOK(heap, below) /\ below \subseteq Procs
  BY OwnBlocks DEF Sound
<1>3. /\ RingOK(heap', below)
      /\ \A d \in Blocks : d # Record(p) => heap'.next[d] = heap.next[d]
  BY <1>1, <1>2, HitOK
<1>4. Freeing(p, block'[p], -1, below)
  BY <1>1 DEF Sound
<1>5. Written(below, heap', p, pc', block', irq')
  <2>1. ASSUME NEW q \in below, pc[q] # New PROVE heap'.next[Record(q)] = NoBlock
    <3>1. heap.next[Record(q)] = NoBlock
      BY <2>1 DEF Sound, Written
    <3>2. Record(q) \in Blocks /\ Record(q) # Record(p)
      BY <1>1, <1>2, <2>1, OwnBlocks, Accesses
    <3> QED  BY <1>3, <3>1, <3>2
  <2>2. pc'[p] \notin 1 .. 19
    BY <1>1
  <2> QED  BY <1>1, <2>1, <2>2 DEF Written
<1>6. pc' = [pc EXCEPT ![p] = -1]
  BY <1>1
<1>7. block' \in [Procs -> Blocks]
  BY <1>1 DEF Sound
<1> QED  BY <1>1, <1>3, <1>4, <1>5, <1>6, <1>7, Outside

LEMMA Scheduler_EntryOK ==
    ASSUME Sound, NEW p \in Procs, Scheduler_Entry(p)
    PROVE  Sound'
<1>1. /\ p = cpu /\ pc[p] = New /\ pc' = [pc EXCEPT ![p] = 0] /\ pc \in [Procs -> -1 .. 19]
      /\ UNCHANGED <<below, block, x, y, cpu, irq>>
      /\ heap' = IF p \in below THEN [heap EXCEPT !.next[Record(p)] = NoBlock] ELSE heap
  BY Accesses DEF Scheduler_Entry, Goto, Sound
<1>2. Record(p) \in Blocks /\ RingOK(heap, below) /\ below \subseteq Procs
  BY OwnBlocks DEF Sound
<1>3. /\ RingOK(heap', below)
      /\ \A d \in Blocks : d # Record(p) => heap'.next[d] = heap.next[d]
      /\ p \in below => heap'.next[Record(p)] = NoBlock
  <2>1. CASE p \in below
    BY <1>1, <1>2, <2>1, EntryOK
  <2>2. CASE p \notin below
    BY <1>1, <1>2, <2>2
  <2> QED  BY <2>1, <2>2
<1>4. Freeing(p, block'[p], 0, below)
  BY <1>1 DEF Sound, Freeing
<1>5. Written(below, heap', p, pc', block', irq')
  <2>1. ASSUME NEW q \in below, pc'[q] # New PROVE heap'.next[Record(q)] = NoBlock
    <3>1. CASE q = p
      BY <1>3, <3>1
    <3>2. CASE q # p
      <4>1. pc[q] # New
        BY <1>1, <1>2, <2>1, <3>2
      <4>2. heap.next[Record(q)] = NoBlock
        BY <4>1 DEF Sound, Written
      <4>3. Record(q) \in Blocks /\ Record(q) # Record(p)
        BY <1>2, <3>2, OwnBlocks
      <4> QED  BY <1>3, <4>2, <4>3
    <3> QED  BY <3>1, <3>2
  <2>2. pc'[p] \notin 1 .. 19
    BY <1>1
  <2> QED  BY <2>1, <2>2 DEF Written
<1>6. block' \in [Procs -> Blocks]
  BY <1>1 DEF Sound
<1> QED  BY <1>1, <1>3, <1>4, <1>5, <1>6, Outside

\* A return writes over magic, a fault leaves interrupts disabled.
LEMMA Scheduler_ExitProcessOK ==
    ASSUME Sound, NEW p \in Procs, NEW fault \in BOOLEAN, Scheduler_ExitProcess(p, fault)
    PROVE  Sound'
<1>1. /\ p = cpu /\ pc[p] = Runs /\ pc' = [pc EXCEPT ![p] = 1] /\ pc \in [Procs -> -1 .. 19]
      /\ UNCHANGED <<below, block, x, y, cpu>> /\ irq' = ~fault
      /\ heap' = IF p \in below /\ ~fault THEN [heap EXCEPT !.magic[Record(p)] = FALSE] ELSE heap
  BY DEF Scheduler_ExitProcess, Goto, Sound
<1>2. Record(p) \in Blocks /\ RingOK(heap, below) /\ below \subseteq Procs
  BY OwnBlocks DEF Sound
<1>3. /\ RingOK(heap', below) /\ heap'.next = heap.next
      /\ p \in below /\ ~fault => ~heap'.magic[Record(p)]
  <2>1. CASE p \in below /\ ~fault
    BY <1>1, <1>2, <2>1, ResultOK
  <2>2. CASE ~(p \in below /\ ~fault)
    BY <1>1, <1>2, <2>2
  <2> QED  BY <2>1, <2>2
<1>4. block[p] = Stack(p)
  BY <1>1 DEF Sound, Freeing
<1>5. Freeing(p, block'[p], 1, below)
  BY <1>1, <1>4 DEF Freeing
<1>6. Written(below, heap', p, pc', block', irq')
  <2>1. ASSUME NEW q \in below, pc'[q] # New PROVE heap'.next[Record(q)] = NoBlock
    <3>1. pc[q] # New
      BY <1>1, <1>2, <2>1, Accesses
    <3> QED  BY <1>3, <3>1 DEF Sound, Written
  <2>2. p \in below /\ heap'.magic[Record(p)] => ~irq'
    BY <1>1, <1>3
  <2>3. block'[p] # Record(p)
    BY <1>1, <1>4, OwnBlocks
  <2> QED  BY <2>1, <2>2, <2>3 DEF Written
<1>7. block' \in [Procs -> Blocks]
  BY <1>1 DEF Sound
<1> QED  BY <1>1, <1>3, <1>5, <1>6, <1>7, Outside

\* The record is freed if magic is intact.
LEMMA FreeRecordOK ==
    ASSUME Sound, NEW p \in Procs, FreeRecord(p)
    PROVE  Sound'
<1>1. /\ p = cpu /\ pc[p] = 19 /\ block' = [block EXCEPT ![p] = Record(p)]
      /\ pc' = [pc EXCEPT ![p] = IF heap.magic[Record(p)] THEN 1 ELSE 19]
      /\ UNCHANGED <<heap, below, x, y, cpu, irq>>
      /\ pc \in [Procs -> -1 .. 19] /\ block \in [Procs -> Blocks]
  BY Accesses DEF FreeRecord, Goto, Sound
<1>2. PICK k \in {1, 19} : k = IF heap.magic[Record(p)] THEN 1 ELSE 19
  <2>1. (IF heap.magic[Record(p)] THEN 1 ELSE 19) \in {1, 19}
    OBVIOUS
  <2> QED  BY <2>1
<1>3. pc' = [pc EXCEPT ![p] = k] /\ (k = 1 => heap.magic[Record(p)])
  BY <1>1, <1>2
<1>4. /\ block' \in [Procs -> Blocks] /\ block'[p] = Record(p)
      /\ \A q \in Procs : q # p => block'[q] = block[q]
  BY <1>1, OwnBlocks
<1>5. Freeing(p, block'[p], k, below)
  BY <1>4, Accesses DEF Freeing
<1>6. Written(below, heap', p, pc', block', irq')
  <2>1. Written(below, heap, p, pc, block, irq) /\ below \subseteq Procs
    BY <1>1 DEF Sound
  <2>2. \A q \in Procs : pc'[q] = IF q = p THEN k ELSE pc[q]
    BY <1>1, <1>3
  <2>3. ASSUME NEW q \in below, pc'[q] # New PROVE heap.next[Record(q)] = NoBlock
    <3>1. pc[q] # New
      BY <1>1, <2>1, <2>2, <2>3, Accesses
    <3> QED  BY <2>1, <3>1 DEF Written
  <2>4. p \in below /\ heap.magic[Record(p)] => ~irq
    BY <1>1, <2>1 DEF Written
  <2> QED  BY <1>1, <1>3, <2>2, <2>3, <2>4 DEF Written
<1>7. RingOK(heap', below)
  BY <1>1 DEF Sound
<1>8. /\ p = cpu /\ k \in {-1, 0, 1, 19}
      /\ pc' = [pc EXCEPT ![p] = k] /\ UNCHANGED <<below, x, y, cpu>>
  BY <1>1, <1>3
<1> QED  BY <1>4, <1>5, <1>6, <1>7, <1>8, Outside

\* A process that has not begun, or runs its entry point, is not in KHeap_Free;
\* no other gets the processor.
LEMMA Scheduler_ScheduleOK ==
    ASSUME ~Resumed, Sound, NEW p \in Procs, Scheduler_Schedule(p)
    PROVE  Sound'
<1>1. /\ cpu' = p /\ pc[p] \in {New, Runs}
      /\ UNCHANGED <<heap, below, pc, block, x, y>>
  BY DEF Scheduler_Schedule
<1>2. pc[p] \in {-1, 0, 1, 19} /\ pc[p] \notin 1 .. 19
  BY <1>1, Accesses
<1>3. At(pc[cpu'], heap, block[cpu'], x[cpu'], y[cpu'])
  BY <1>1, <1>2, AtEnds
<1>4. Written(below, heap, p, pc, block, irq')
  <2>1. \A q \in below : pc[q] # New => heap.next[Record(q)] = NoBlock
    BY DEF Sound, Written
  <2> QED  BY <1>2, <2>1 DEF Written
<1> QED  BY <1>1, <1>3, <1>4 DEF Sound

\* The process that is doomed goes on to the link that it cannot follow.
LEMMA DoomedOK ==
    ASSUME Doomed, Next
    PROVE  Doomed'
<1>1. /\ cpu \in Procs /\ pc[cpu] \in 2 .. 4 /\ pc[cpu] \in 1 .. 18 /\ pc[cpu] \notin {New, Runs, Returned}
      /\ ~irq /\ block[cpu] = Record(cpu)
  BY Accesses DEF Doomed
<1>2. /\ pc[cpu] = 2 => Free[pc[cpu]].op = "not_head"
      /\ pc[cpu] = 3 => Free[pc[cpu]].op = "load"
      /\ pc[cpu] = 4 => Free[pc[cpu]].op = "is_free"
  BY Tests, Loads
<1>3. PICK p \in Procs :
         \/ general_interrupt_handler(p) \/ Scheduler_Entry(p)
         \/ \E fault \in BOOLEAN : Scheduler_ExitProcess(p, fault)
         \/ DoClear(p) \/ DoNotHead(p) \/ DoIsFree(p) \/ DoLoad(p) \/ DoStore(p)
         \/ FreeRecord(p) \/ Scheduler_Schedule(p)
  BY DEF Next
<1>4. ~(\/ general_interrupt_handler(p) \/ Scheduler_Entry(p)
        \/ \E fault \in BOOLEAN : Scheduler_ExitProcess(p, fault)
        \/ FreeRecord(p) \/ Scheduler_Schedule(p))
  BY <1>1 DEF general_interrupt_handler, Scheduler_Entry, Scheduler_ExitProcess, FreeRecord,
              Scheduler_Schedule, Exited
<1>5. \A op : Access(p, op) => p = cpu /\ Free[pc[cpu]].op = op /\ x[cpu] \in Blocks
  BY DEF Access
<1>6. ~DoClear(p) /\ ~DoStore(p)
  <2>1. Free[pc[cpu]].op \in {"not_head", "load", "is_free"}
    BY <1>1, <1>2
  <2> QED  BY <1>5, <2>1 DEF DoClear, DoStore
<1>7. ~DoIsFree(p)
  <2>1. pc[cpu] = 4 => x[cpu] \notin Blocks
    BY Ends DEF Doomed
  <2>2. Free[pc[cpu]].op = "is_free" => pc[cpu] = 4
    BY <1>1, <1>2
  <2> QED  BY <1>5, <2>1, <2>2 DEF DoIsFree
<1>8. CASE DoNotHead(p)
  <2>1. p = cpu /\ pc[p] = 2
    BY <1>1, <1>2, <1>5, <1>8 DEF DoNotHead
  <2>2. /\ pc' = [pc EXCEPT ![p] = IF heap[Free[pc[p]].field][block[p]] # BlockHead
                                  THEN pc[p] + 1 ELSE Free[pc[p]].else]
        /\ UNCHANGED <<heap, below, block, x, y, cpu, irq>>
    BY <1>8 DEF DoNotHead, Goto
  <2>3. Free[pc[p]].field = "next" /\ heap.next[block[p]] # BlockHead /\ pc[p] + 1 = 3
    BY <1>1, <2>1, Tests, Ends DEF Doomed
  <2>4. pc' = [pc EXCEPT ![cpu] = 3]
    BY <2>1, <2>2, <2>3
  <2>5. pc' \in [Procs -> -1 .. 19] /\ pc'[cpu] = 3
    BY <1>1, <2>4 DEF Doomed
  <2>6. pc[cpu] # 4 /\ pc'[cpu] # 4
    BY <2>1, <2>5
  <2>7. heap' = heap /\ below' = below /\ block' = block /\ x' = x /\ y' = y /\ cpu' = cpu /\ irq' = irq
    BY <2>2
  <2> QED  BY <2>5, <2>6, <2>7 DEF Doomed
<1>9. CASE DoLoad(p)
  <2>1. p = cpu /\ pc[p] = 3
    BY <1>1, <1>2, <1>5, <1>9 DEF DoLoad
  <2>2. Free[pc[p]].reg = "x" /\ Free[pc[p]].base = "block" /\ Free[pc[p]].field = "next"
    BY <2>1, Loads
  <2>3. Value(p, "block") = block[p]
    BY DEF Value
  <2>4. /\ x' = [x EXCEPT ![p] = heap.next[block[p]]] /\ pc' = [pc EXCEPT ![p] = pc[p] + 1]
        /\ UNCHANGED <<heap, below, block, y, cpu, irq>>
    BY <1>9, <2>2, <2>3 DEF DoLoad, Goto
  <2>5. x' = [x EXCEPT ![cpu] = NoBlock] /\ pc' = [pc EXCEPT ![cpu] = 4]
    BY <1>1, <2>1, <2>4 DEF Doomed
  <2>6. /\ x' \in [Procs -> Blocks \cup {NoBlock}] /\ x'[cpu] = NoBlock
        /\ \A q \in Procs : q # cpu => x'[q] = x[q]
        /\ pc' \in [Procs -> -1 .. 19] /\ pc'[cpu] = 4
    BY <1>1, <2>5 DEF Doomed
  <2> QED  BY <2>4, <2>6 DEF Doomed
<1> QED  BY <1>3, <1>4, <1>6, <1>7, <1>8, <1>9

\* Every step keeps the invariant.
LEMMA StepOK ==
    ASSUME ~Resumed
    PROVE  IInv /\ [Next]_vars => IInv'
<1> SUFFICES ASSUME IInv, [Next]_vars PROVE IInv'
  OBVIOUS
<1>1. ASSUME Sound, Next PROVE IInv'
  <2>1. PICK p \in Procs :
           \/ general_interrupt_handler(p) \/ Scheduler_Entry(p)
           \/ \E fault \in BOOLEAN : Scheduler_ExitProcess(p, fault)
           \/ DoClear(p) \/ DoNotHead(p) \/ DoIsFree(p) \/ DoLoad(p) \/ DoStore(p)
           \/ FreeRecord(p) \/ Scheduler_Schedule(p)
    BY <1>1 DEF Next
  <2>2. DoClear(p) => IInv'
    BY <1>1, DoClearOK
  <2>3. ~DoClear(p) => Sound'
    BY <1>1, <2>1, general_interrupt_handlerOK, Scheduler_EntryOK, Scheduler_ExitProcessOK,
       DoNotHeadOK, DoIsFreeOK, DoLoadOK, DoStoreOK, FreeRecordOK, Scheduler_ScheduleOK
  <2> QED  BY <2>2, <2>3 DEF IInv
<1>2. ASSUME Doomed, Next PROVE IInv'
  BY <1>2, DoomedOK DEF IInv
<1>3. CASE UNCHANGED vars
  <2>1. Sound => Sound'
    BY <1>3 DEF vars, Sound
  <2>2. Doomed => Doomed'
    BY <1>3 DEF vars, Doomed
  <2> QED  BY <2>1, <2>2 DEF IInv
<1> QED  BY <1>1, <1>2, <1>3 DEF IInv

(***************************************************************************)
(* Every link of the ring skips free blocks only, after each access of     *)
(* whichever KHeap_Free, those of calls that were abandoned included; only *)
(* the links that frames have written over do not, and the records that    *)
(* they are in stay in use, until a process that has faulted frees its     *)
(* own: it gets as far as the first link (heap.c:56-73, sched.c:35-83).    *)
(***************************************************************************)
THEOREM IInvHolds ==
    ASSUME ~Resumed
    PROVE  Spec => []IInv
BY InitOK, StepOK, PTL DEF Spec

\* A link that a frame has written over is followed by one process only, that
\* has faulted and frees its own record (SpoiltLinkOnlyOnFault; heap.c:60,
\* sched.c:82).
THEOREM OnlyFaultsFollowSpoiltLinks ==
    ASSUME ~Resumed
    PROVE  Spec => []SpoiltLinkOnlyOnFault
<1>1. Sound => SpoiltLinkOnlyOnFault
  BY DEF Sound, SpoiltLinkOnlyOnFault, LinksAreBlocks
<1>2. Doomed => SpoiltLinkOnlyOnFault
  BY DEF Doomed, SpoiltLinkOnlyOnFault, LinksAreBlocks
<1>3. IInv => SpoiltLinkOnlyOnFault
  BY <1>1, <1>2 DEF IInv
<1> QED  BY <1>3, IInvHolds, PTL

-----------------------------------------------------------------------------
(***************************************************************************)
(* A walk from the head                                                    *)
(***************************************************************************)

\* a is the walk along a field, up to step m
IsWalk(a, field, m) ==
    a = [n \in 0 .. m |-> IF n = 0 THEN BlockHead ELSE heap[field][a[n - 1]]]

\* A walk may have any number of steps.
LEMMA WalkExists ==
    ASSUME NEW field, NEW n \in Nat
    PROVE  \E a : IsWalk(a, field, n)
<1>1. PICK U : U = {m \in Nat : ~ \E a : IsWalk(a, field, m)}
  OBVIOUS
<1> SUFFICES ASSUME U # {} PROVE FALSE
  BY <1>1
<1>2. PICK m \in U : \A k \in U : m =< k
  BY <1>1, Least
<1>3. m \in Nat /\ ~ \E a : IsWalk(a, field, m)
  BY <1>1, <1>2
<1>4. m # 0
  <2>1. SUFFICES ASSUME m = 0 PROVE FALSE
    OBVIOUS
  <2>2. PICK a : a = [i \in 0 .. 0 |-> BlockHead]
    OBVIOUS
  <2>3. \A i \in 0 .. 0 : i = 0
    OBVIOUS
  <2>4. a = [i \in 0 .. 0 |-> IF i = 0 THEN BlockHead ELSE heap[field][a[i - 1]]]
    BY <2>2, <2>3
  <2> QED  BY <2>1, <2>4, <1>3 DEF IsWalk
<1>5. m - 1 \in Nat /\ ~(m =< m - 1)
  BY <1>3, <1>4
<1>6. PICK a : IsWalk(a, field, m - 1)
  BY <1>1, <1>2, <1>5
<1>7. PICK c : c = [i \in 0 .. m |-> IF i = 0 THEN BlockHead ELSE heap[field][a[i - 1]]]
  OBVIOUS
<1>8. ASSUME NEW i \in 0 .. m - 1 PROVE c[i] = a[i]
  <2>1. i \in 0 .. m
    BY <1>3
  <2>2. c[i] = IF i = 0 THEN BlockHead ELSE heap[field][a[i - 1]]
    BY <1>7, <2>1
  <2>3. a[i] = IF i = 0 THEN BlockHead ELSE heap[field][a[i - 1]]
    BY <1>6 DEF IsWalk
  <2> QED  BY <2>2, <2>3
<1>9. ASSUME NEW i \in 0 .. m, i # 0 PROVE a[i - 1] = c[i - 1]
  <2>1. i - 1 \in 0 .. m - 1
    BY <1>3, <1>9
  <2> QED  BY <2>1, <1>8
<1>10. c = [i \in 0 .. m |-> IF i = 0 THEN BlockHead ELSE heap[field][c[i - 1]]]
  BY <1>7, <1>9
<1> QED  BY <1>10, <1>3 DEF IsWalk

\* f leads from the head up a ranking r of 0 .. m, over nothing in u, and back
\* to the head
Climbs(f, r, u, m) ==
    /\ f \in [0 .. m -> 0 .. m] /\ r \in [0 .. m -> 0 .. m] /\ u \subseteq 0 .. m
    /\ r[0] = 0 /\ \A b, c \in 0 .. m : r[b] = r[c] => b = c
    /\ \A b \in 0 .. m : f[b] = 0 \/ r[b] < r[f[b]]
    /\ \A b \in 0 .. m : \A d \in u : r[b] < r[d] => f[b] # 0 /\ r[f[b]] =< r[d]

Steps(a, f, m) ==
    /\ a \in [0 .. m -> 0 .. m] /\ a[0] = 0
    /\ \A k \in 0 .. m - 1 : a[k + 1] = f[a[k]]

\* Such a walk comes back to the head within m + 1 steps,
LEMMA WalkReturns ==
    ASSUME NEW m \in Nat, NEW f, NEW r, NEW u, Climbs(f, r, u, m), NEW a, Steps(a, f, m)
    PROVE  \E k \in 0 .. m : f[a[k]] = 0 /\ \A j \in 0 .. m : j < k => f[a[j]] # 0
<1>1. PICK T : T = {k \in 0 .. m : f[a[k]] = 0}
  OBVIOUS
<1>2. CASE T # {}
  <2>1. T \in SUBSET Nat
    BY <1>1
  <2>2. PICK k \in T : \A j \in T : k =< j
    BY <2>1, <1>2, Least
  <2>3. \A j \in 0 .. m : j < k => j \notin T
    BY <2>1, <2>2
  <2> QED  BY <1>1, <2>2, <2>3
<1>3. CASE T = {}
  <2>1. \A k \in 0 .. m : f[a[k]] # 0
    BY <1>1, <1>3
  <2>2. PICK V : V = {k \in 0 .. m : r[a[k]] < k}
    OBVIOUS
  <2>3. V = {}
    <3>1. SUFFICES ASSUME V # {} PROVE FALSE
      OBVIOUS
    <3>2. V \in SUBSET Nat
      BY <2>2
    <3>3. PICK k \in V : \A j \in V : k =< j
      BY <3>1, <3>2, Least
    <3>4. k \in 0 .. m /\ r[a[k]] < k
      BY <2>2, <3>3
    <3>5. k # 0
      BY <3>4 DEF Steps, Climbs
    <3>6. k - 1 \in 0 .. m /\ k - 1 \in 0 .. m - 1 /\ (k - 1) + 1 = k /\ ~(k =< k - 1)
      BY <3>4, <3>5
    <3>7. ~(r[a[k - 1]] < k - 1)
      BY <2>2, <3>3, <3>6
    <3>8. a[k] = f[a[k - 1]] /\ a[k - 1] \in 0 .. m /\ a[k] \in 0 .. m
      BY <3>4, <3>6 DEF Steps
    <3>9. PICK v \in 0 .. m : v = r[a[k]]
      BY <3>8 DEF Climbs
    <3>10. PICK w \in 0 .. m : w = r[a[k - 1]]
      BY <3>8 DEF Climbs
    <3>11. w < v
      BY <3>6, <3>8, <3>9, <3>10, <2>1 DEF Climbs
    <3> QED  BY <3>4, <3>6, <3>7, <3>9, <3>10, <3>11
  <2>4. a[m] \in 0 .. m /\ f[a[m]] \in 0 .. m /\ f[a[m]] # 0
    BY <2>1 DEF Steps, Climbs
  <2>5. PICK v \in 0 .. m : v = r[f[a[m]]]
    BY <2>4 DEF Climbs
  <2>6. PICK w \in 0 .. m : w = r[a[m]]
    BY <2>4 DEF Climbs
  <2>7. w < v
    BY <2>4, <2>5, <2>6 DEF Climbs
  <2>8. ~(w < m)
    BY <2>2, <2>3, <2>6
  <2> QED  BY <2>7, <2>8
<1> QED  BY <1>2, <1>3

\* and has met all of u by then.
LEMMA WalkMeets ==
    ASSUME NEW m \in Nat, NEW f, NEW r, NEW u, Climbs(f, r, u, m), NEW a, Steps(a, f, m),
           NEW d \in u
    PROVE  \E k \in 0 .. m : a[k] = d
<1>1. PICK k \in 0 .. m : f[a[k]] = 0 /\ \A j \in 0 .. m : j < k => f[a[j]] # 0
  BY WalkReturns
<1> SUFFICES ASSUME \A j \in 0 .. m : a[j] # d PROVE FALSE
  OBVIOUS
<1>2. d \in 0 .. m
  BY DEF Climbs
<1>3. PICK v \in Nat : v = r[d]
  BY <1>2 DEF Climbs
<1>4. PICK V : V = {j \in 0 .. k : ~(r[a[j]] < v)}
  OBVIOUS
<1>5. V = {}
  <2>1. SUFFICES ASSUME V # {} PROVE FALSE
    OBVIOUS
  <2>2. V \in SUBSET Nat
    BY <1>4
  <2>3. PICK j \in V : \A i \in V : j =< i
    BY <2>1, <2>2, Least
  <2>4. j \in 0 .. k /\ j \in 0 .. m /\ ~(r[a[j]] < v)
    BY <1>4, <2>3
  <2>5. a[j] # d /\ a[j] \in 0 .. m
    BY <2>4 DEF Steps
  <2>6. PICK w \in 0 .. m : w = r[a[j]]
    BY <2>5 DEF Climbs
  <2>7. w # v
    BY <2>5, <2>6, <1>2, <1>3 DEF Climbs
  <2>8. v < w
    BY <2>4, <2>6, <2>7
  <2>9. j # 0
    <3>1. j = 0 => w = 0
      BY <2>6 DEF Steps, Climbs
    <3> QED  BY <2>8, <3>1
  <2>10. /\ j - 1 \in 0 .. m /\ j - 1 \in 0 .. m - 1 /\ (j - 1) + 1 = j
         /\ j - 1 \in 0 .. k /\ ~(j =< j - 1)
    BY <2>4, <2>9
  <2>11. r[a[j - 1]] < v
    BY <1>4, <2>3, <2>10
  <2>12. a[j] = f[a[j - 1]] /\ a[j - 1] \in 0 .. m
    BY <2>10 DEF Steps
  <2>13. w =< v
    BY <2>6, <2>11, <2>12, <1>3 DEF Climbs
  <2> QED  BY <2>8, <2>13
<1>6. r[a[k]] < v /\ a[k] \in 0 .. m
  <2>1. k \in 0 .. k /\ k \notin V
    BY <1>5
  <2> QED  BY <1>4, <2>1 DEF Steps
<1> QED  BY <1>1, <1>3, <1>6 DEF Climbs

\* A field whose links climb so covers the blocks in use.
LEMMA ClimbCovers ==
    ASSUME NEW field, NEW r, NEW m \in Nat, Blocks = 0 .. m,
           Climbs(heap[field], r, {b \in Blocks : heap.state[b] # 0}, m)
    PROVE  Covered(field)
<1>1. PICK f : f = heap[field]
  OBVIOUS
<1>2. PICK u : u = {b \in Blocks : heap.state[b] # 0}
  OBVIOUS
<1>3. Climbs(f, r, u, m)
  BY <1>1, <1>2
<1>4. PICK a : a = Walk(field)
  OBVIOUS
<1>5. IsWalk(a, field, m)
  <2>1. PICK c : IsWalk(c, field, m)
    BY WalkExists
  <2>2. a = CHOOSE at : at = [n \in Blocks |-> IF n = 0 THEN BlockHead ELSE heap[field][at[n - 1]]]
    BY <1>4, Zenon DEF Walk
  <2>3. a = CHOOSE at : at = [n \in 0 .. m |-> IF n = 0 THEN BlockHead ELSE heap[field][at[n - 1]]]
    BY <2>2, Zenon
  <2>4. a = CHOOSE at : IsWalk(at, field, m)
    BY <2>3, Zenon DEF IsWalk
  <2> QED  BY <2>1, <2>4, Zenon
<1>6. \A n \in 0 .. m : a[n] = IF n = 0 THEN BlockHead ELSE heap[field][a[n - 1]]
  BY <1>5 DEF IsWalk
<1>7. \A b \in 0 .. m : heap[field][b] = f[b]
  BY <1>1
<1>8. PICK V : V = {k \in 0 .. m : a[k] \notin 0 .. m}
  OBVIOUS
<1>9. V = {}
  <2>1. SUFFICES ASSUME V # {} PROVE FALSE
    OBVIOUS
  <2>2. V \in SUBSET Nat
    BY <1>8
  <2>3. PICK k \in V : \A j \in V : k =< j
    BY <2>1, <2>2, Least
  <2>4. k \in 0 .. m /\ a[k] \notin 0 .. m
    BY <1>8, <2>3
  <2>5. k # 0
    BY <2>4, <1>6, Ends
  <2>6. k - 1 \in 0 .. m /\ ~(k =< k - 1)
    BY <2>4, <2>5
  <2>7. a[k - 1] \in 0 .. m
    BY <1>8, <2>3, <2>6
  <2>8. a[k] = f[a[k - 1]]
    BY <1>6, <1>7, <2>4, <2>5, <2>7
  <2> QED  BY <1>3, <2>4, <2>7, <2>8 DEF Climbs
<1>10. Steps(a, f, m)
  <2>1. \A k \in 0 .. m : a[k] \in 0 .. m
    BY <1>8, <1>9
  <2>2. a \in [0 .. m -> 0 .. m]
    BY <1>5, <2>1 DEF IsWalk
  <2>3. a[0] = 0
    BY <1>6, Ends
  <2>4. ASSUME NEW k \in 0 .. m - 1 PROVE a[k + 1] = f[a[k]]
    <3>1. k \in 0 .. m /\ k + 1 \in 0 .. m /\ k + 1 # 0 /\ (k + 1) - 1 = k
      OBVIOUS
    <3>2. a[k + 1] = heap[field][a[k]]
      BY <1>6, <3>1
    <3> QED  BY <1>7, <2>1, <3>1, <3>2
  <2> QED  BY <2>2, <2>3, <2>4 DEF Steps
<1>11. PICK k \in 0 .. m : f[a[k]] = 0
  BY <1>3, <1>10, WalkReturns
<1>12. heap[field][a[k]] = BlockHead
  BY <1>7, <1>10, <1>11, Ends DEF Steps
<1>13. \A d \in u : \E j \in 0 .. m : a[j] = d
  BY <1>3, <1>10, WalkMeets
<1>14. PICK met : met = {a[n] : n \in Blocks}
  OBVIOUS
<1>15. \E b \in met : heap[field][b] = BlockHead
  BY <1>12, <1>14
<1>16. \A b \in Blocks : heap.state[b] # 0 => b \in met
  BY <1>2, <1>13, <1>14
<1> QED  BY <1>4, <1>14, <1>15, <1>16 DEF Covered

\* If no frame has written over a link, they climb forwards,
LEMMA NextClimbs ==
    ASSUME NEW m \in Nat, Blocks = 0 .. m, NEW B, LinksOK(heap, B), Intact("next")
    PROVE  \E r : Climbs(heap["next"], r, {b \in Blocks : heap.state[b] # 0}, m)
<1>1. PICK f : f = heap.next
  OBVIOUS
<1>2. PICK u : u = {b \in Blocks : heap.state[b] # 0}
  OBVIOUS
<1>3. PICK r : r = [b \in 0 .. m |-> b]
  OBVIOUS
<1>4. \A b \in Blocks : SkipsFree(heap, b, f[b])
  BY <1>1, Ends DEF LinksOK, Intact
<1>5. f \in [0 .. m -> 0 .. m]
  BY <1>1, <1>4 DEF LinksOK, HeapType, SkipsFree
<1>6. r \in [0 .. m -> 0 .. m] /\ r[0] = 0 /\ \A b \in 0 .. m : r[b] = b
  BY <1>3
<1>7. ASSUME NEW b \in 0 .. m PROVE f[b] = 0 \/ r[b] < r[f[b]]
  BY <1>4, <1>5, <1>6 DEF SkipsFree
<1>8. ASSUME NEW b \in 0 .. m, NEW d \in u, r[b] < r[d]
      PROVE  f[b] # 0 /\ r[f[b]] =< r[d]
  <2>1. d \in 0 .. m /\ heap.state[d] # 0 /\ b < d /\ f[b] \in 0 .. m
    BY <1>2, <1>5, <1>6, <1>8
  <2>2. ~(f[b] = 0 \/ d < f[b])
    BY <1>4, <2>1 DEF SkipsFree
  <2>3. f[b] =< d
    BY <2>1, <2>2
  <2> QED  BY <1>6, <2>1, <2>2, <2>3
<1>9. Climbs(f, r, u, m)
  BY <1>2, <1>5, <1>6, <1>7, <1>8 DEF Climbs
<1> QED  BY <1>1, <1>2, <1>9

\* and backwards.
LEMMA PrevClimbs ==
    ASSUME NEW m \in Nat, Blocks = 0 .. m, NEW B, LinksOK(heap, B), Intact("prev")
    PROVE  \E r : Climbs(heap["prev"], r, {b \in Blocks : heap.state[b] # 0}, m)
<1>1. PICK f : f = heap.prev
  OBVIOUS
<1>2. PICK u : u = {b \in Blocks : heap.state[b] # 0}
  OBVIOUS
<1>3. PICK r : r = [b \in 0 .. m |-> IF b = 0 THEN 0 ELSE m + 1 - b]
  OBVIOUS
<1>4. \A b \in Blocks : SkipsFree(heap, f[b], b)
  BY <1>1, Ends DEF LinksOK, Intact
<1>5. f \in [0 .. m -> 0 .. m]
  BY <1>1, <1>4 DEF LinksOK, HeapType, SkipsFree
<1>6. \A b \in 0 .. m : r[b] = IF b = 0 THEN 0 ELSE m + 1 - b
  BY <1>3
<1>7. \A b \in 0 .. m : (IF b = 0 THEN 0 ELSE m + 1 - b) \in 0 .. m
  OBVIOUS
<1>8. r \in [0 .. m -> 0 .. m] /\ r[0] = 0
  BY <1>3, <1>6, <1>7
<1>9. \A b, c \in 0 .. m : r[b] = r[c] => b = c
  BY <1>6
<1>10. ASSUME NEW b \in 0 .. m PROVE f[b] = 0 \/ r[b] < r[f[b]]
  <2>1. PICK c \in 0 .. m : c = f[b]
    BY <1>5
  <2>2. b = 0 \/ c < b
    BY <1>4, <2>1 DEF SkipsFree
  <2>3. c = 0 \/ r[b] < r[c]
    BY <1>6, <2>2
  <2> QED  BY <2>1, <2>3
<1>11. ASSUME NEW b \in 0 .. m, NEW d \in u, r[b] < r[d]
       PROVE  f[b] # 0 /\ r[f[b]] =< r[d]
  <2>1. PICK c \in 0 .. m : c = f[b]
    BY <1>5
  <2>2. d \in 0 .. m /\ heap.state[d] # 0
    BY <1>2
  <2>3. d # 0 /\ (b = 0 \/ d < b)
    BY <1>6, <1>11, <2>2
  <2>4. ~(c < d)
    BY <1>4, <2>1, <2>2, <2>3 DEF SkipsFree
  <2>5. c # 0 /\ r[c] =< r[d]
    BY <1>6, <2>2, <2>3, <2>4
  <2> QED  BY <2>1, <2>5
<1>12. Climbs(f, r, u, m)
  BY <1>2, <1>5, <1>8, <1>9, <1>10, <1>11 DEF Climbs
<1> QED  BY <1>1, <1>2, <1>12

(***************************************************************************)
(* Wherever calls were abandoned, the search of KHeap_Allocate along next  *)
(* meets every block in use and the head again, and so does the way back   *)
(* along prev, if no frame has written over a link of that direction       *)
(* (InUseCovered; heap.c:30-36, 58-73).                                    *)
(***************************************************************************)
THEOREM InUseStaysCovered ==
    ASSUME ~Resumed
    PROVE  Spec => []InUseCovered
<1>1. ASSUME IInv PROVE InUseCovered
  <2>1. PICK m \in Nat : Blocks = 0 .. m
    <3>1. PICK n \in Nat : Blocks = 0 .. 2 * n + 1
      BY Numbers
    <3>2. 2 * n + 1 \in Nat
      OBVIOUS
    <3> QED  BY <3>1, <3>2
  <2>2. LinksOK(heap, below)
    BY <1>1 DEF IInv, Sound, Doomed, RingOK
  <2>3. Intact("prev") => Covered("prev")
    BY <2>1, <2>2, PrevClimbs, ClimbCovers
  <2>4. Intact("next") => Covered("next")
    BY <2>1, <2>2, NextClimbs, ClimbCovers
  <2> QED  BY <2>3, <2>4 DEF InUseCovered
<1>2. IInv => InUseCovered
  BY <1>1
<1> QED  BY <1>2, IInvHolds, PTL
=============================================================================
