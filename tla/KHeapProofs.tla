---------------------------- MODULE KHeapProofs ----------------------------
(***************************************************************************)
(* Proofs about KHeap, for every number of fresh pages, every set of       *)
(* requests and every header size.                                         *)
(***************************************************************************)
EXTENDS KHeap, Totals, TLAPS, FiniteSetTheorems

-----------------------------------------------------------------------------
(***************************************************************************)
(* The blocks                                                              *)
(***************************************************************************)

\* Every block is a member of Supply, the head or Zero, and no two of these
\* coincide.
LEMMA BlockNames ==
    /\ Len(Supply) \in Nat /\ BlockHead \in Blocks /\ Zero \in Blocks /\ BlockHead # Zero
    /\ \A i \in 1 .. Len(Supply) :
          Supply[i] \in Blocks /\ Supply[i] # BlockHead /\ Supply[i] # Zero
    /\ \A i, j \in 1 .. Len(Supply) : Supply[i] = Supply[j] => i = j
<1>1. Len(Supply) \in Nat /\ DOMAIN Supply = 1 .. Len(Supply)
  BY KHeapAssumption
<1>2. \A i \in 1 .. Len(Supply) : Supply[i] \in ToSet(Supply)
  BY <1>1 DEF ToSet
<1>3. \A i, j \in 1 .. Len(Supply) : Supply[i] = Supply[j] => i = j
  BY <1>1, KHeapAssumption DEF IsInjective
<1> QED  BY <1>1, <1>2, <1>3, KHeapAssumption DEF Blocks

\* Injective numberings of blocks are no longer than there are blocks.
LEMMA BlocksFinite ==
    /\ IsFiniteSet(Blocks) /\ Cardinality(Blocks) \in Nat
    /\ \A n \in Nat : \A f \in [0 .. n + 1 -> Blocks] :
          (\A i, j \in 0 .. n : f[i] = f[j] => i = j) => n + 1 =< Cardinality(Blocks)
<1>1. IsFiniteSet(1 .. Len(Supply)) /\ Len(Supply) \in Nat
  BY BlockNames, FS_Interval
<1>2. IsFiniteSet(ToSet(Supply))
  <2>1. Supply \in Surjection(1 .. Len(Supply), ToSet(Supply))
    BY KHeapAssumption DEF Surjection, ToSet
  <2> QED  BY <1>1, <2>1, FS_Surjection
<1>3. IsFiniteSet(Blocks)
  <2>1. Blocks = (ToSet(Supply) \cup {BlockHead}) \cup {Zero}
    BY DEF Blocks
  <2> QED  BY <1>2, <2>1, FS_AddElement
<1>4. Cardinality(Blocks) \in Nat
  BY <1>3, FS_CardinalityType
<1>5. ASSUME NEW n \in Nat, NEW f \in [0 .. n + 1 -> Blocks],
             \A i, j \in 0 .. n : f[i] = f[j] => i = j
      PROVE  n + 1 =< Cardinality(Blocks)
  <2>1. PICK g : g = [i \in 0 .. n |-> f[i]]
    OBVIOUS
  <2>2. g \in Injection(0 .. n, Blocks)
    BY <1>5, <2>1 DEF Injection, IsInjective
  <2>3. Cardinality(0 .. n) = n + 1
    BY FS_Interval
  <2>4. Cardinality(0 .. n) =< Cardinality(Blocks)
    BY <1>3, <2>2, FS_Injection
  <2> QED  BY <2>3, <2>4
<1> QED  BY <1>3, <1>4, <1>5

-----------------------------------------------------------------------------
(***************************************************************************)
(* The search.  At is a recursive function: the prover knows it as some    *)
(* function that satisfies its equation, if there is one.                  *)
(***************************************************************************)

\* f goes from the head where nx leads, step by step, up to m
Follows(f, nx, m) ==
    /\ f \in [0 .. m -> Blocks]
    /\ f[0] = BlockHead
    /\ \A k \in 1 .. m : f[k] = nx[f[k - 1]]

\* However far, the links can be followed that far.
LEMMA FollowsExists ==
    ASSUME NEW nx \in [Blocks -> Blocks], NEW m \in Nat
    PROVE  \E f : Follows(f, nx, m)
<1> DEFINE T == {l \in Nat : ~ \E f : Follows(f, nx, l)}
<1> SUFFICES ASSUME T # {} PROVE FALSE
  OBVIOUS
<1>1. PICK l \in T : \A k \in T : l =< k
  BY Least
<1>2. l \in Nat /\ ~ \E f : Follows(f, nx, l)
  BY <1>1
<1>3. l # 0
  <2>1. SUFFICES ASSUME l = 0 PROVE FALSE
    OBVIOUS
  <2>2. PICK f : f = [k \in 0 .. 0 |-> BlockHead]
    OBVIOUS
  <2>3. Follows(f, nx, 0)
    BY <2>2, BlockNames DEF Follows
  <2> QED  BY <1>2, <2>1, <2>3
<1>4. l - 1 \in Nat /\ l - 1 \notin T
  BY <1>1, <1>2, <1>3
<1>5. PICK f : Follows(f, nx, l - 1)
  BY <1>4
<1>6. PICK g : g = [k \in 0 .. l |-> IF k = l THEN nx[f[l - 1]] ELSE f[k]]
  OBVIOUS
<1>7. \A k \in 0 .. l - 1 : f[k] \in Blocks /\ g[k] = f[k]
  BY <1>2, <1>5, <1>6 DEF Follows
<1>8. g \in [0 .. l -> Blocks] /\ g[0] = BlockHead
  BY <1>2, <1>3, <1>5, <1>6, <1>7 DEF Follows
<1>9. ASSUME NEW k \in 1 .. l PROVE g[k] = nx[g[k - 1]]
  <2>1. g[k - 1] = f[k - 1]
    BY <1>2, <1>7
  <2>2. CASE k = l
    BY <1>2, <1>6, <2>1, <2>2
  <2>3. CASE k # l
    BY <1>2, <1>5, <1>6, <2>1, <2>3 DEF Follows
  <2> QED  BY <2>2, <2>3
<1>10. Follows(g, nx, l)
  BY <1>8, <1>9 DEF Follows
<1> QED  BY <1>2, <1>10

\* The equation of At.
LEMMA AtFollows ==
    ASSUME heap.next \in [Blocks -> Blocks]
    PROVE  Follows(At, heap.next, Cardinality(Blocks))
<1>1. PICK N \in Nat : N = Cardinality(Blocks)
  BY BlocksFinite
<1>2. PICK f : Follows(f, heap.next, N)
  BY FollowsExists
<1> DEFINE IsAt(g) == g = [k \in 0 .. N |-> IF k = 0 THEN BlockHead ELSE heap.next[g[k - 1]]]
<1>3. IsAt(f)
  <2>1. \A k \in 0 .. N : f[k] = IF k = 0 THEN BlockHead ELSE heap.next[f[k - 1]]
    BY <1>2 DEF Follows
  <2>2. f = [k \in 0 .. N |-> f[k]]
    BY <1>2 DEF Follows
  <2> QED  BY <2>1, <2>2
<1>4. At = CHOOSE g : IsAt(g)
  BY <1>1 DEF At
<1>5. IsAt(At)
  <2> HIDE DEF IsAt
  <2> QED  BY <1>3, <1>4
<1>6. PICK g : g = At
  OBVIOUS
<1>7. g = [k \in 0 .. N |-> IF k = 0 THEN BlockHead ELSE heap.next[g[k - 1]]]
  BY <1>5, <1>6
<1> HIDE DEF IsAt
<1>8. \A k \in 0 .. N : g[k] = IF k = 0 THEN BlockHead ELSE heap.next[g[k - 1]]
  BY <1>7
<1>9. \A k \in 0 .. N : g[k] = f[k]
  <2> DEFINE T == {k \in 0 .. N : g[k] # f[k]}
  <2> SUFFICES ASSUME T # {} PROVE FALSE
    OBVIOUS
  <2>1. PICK l \in T : \A k \in T : l =< k
    <3>1. T \in SUBSET Nat
      BY <1>1
    <3> HIDE DEF T
    <3> QED  BY <3>1, Least
  <2>2. l \in 0 .. N /\ g[l] # f[l]
    BY <2>1
  <2>3. l # 0
    BY <1>2, <1>8, <2>2 DEF Follows
  <2>4. l - 1 \in 0 .. N /\ l - 1 \notin T
    BY <2>1, <2>2, <2>3
  <2>5. g[l - 1] = f[l - 1]
    BY <2>4
  <2> QED  BY <1>2, <1>8, <2>2, <2>3, <2>5 DEF Follows
<1>10. DOMAIN g = 0 .. N
  BY <1>7
<1>11. g = f
  BY <1>2, <1>7, <1>9, <1>10 DEF Follows
<1> QED  BY <1>1, <1>2, <1>6, <1>11
-----------------------------------------------------------------------------
(***************************************************************************)
(* The ring                                                                *)
(***************************************************************************)

\* f numbers the n blocks behind the head in the order of the links nx, with
\* the head before and after them; pv leads back.
RingOf(f, n, nx, pv) ==
    /\ n \in Nat /\ f \in [0 .. n + 1 -> Blocks]
    /\ f[0] = BlockHead /\ f[n + 1] = BlockHead
    /\ \A i, j \in 0 .. n : f[i] = f[j] => i = j
    /\ \A i \in 0 .. n : nx[f[i]] = f[i + 1] /\ pv[f[i + 1]] = f[i]

\* The search makes one lap of the ring.
LEMMA RingAt ==
    ASSUME heap.next \in [Blocks -> Blocks],
           NEW f, NEW n, RingOf(f, n, heap.next, heap.prev)
    PROVE  /\ n + 1 =< Cardinality(Blocks)
           /\ \A k \in 0 .. n + 1 : At[k] = f[k]
           /\ Lap = 0 .. n
<1>1. /\ n \in Nat /\ f \in [0 .. n + 1 -> Blocks] /\ f[0] = BlockHead /\ f[n + 1] = BlockHead
      /\ \A i, j \in 0 .. n : f[i] = f[j] => i = j
      /\ \A i \in 0 .. n : heap.next[f[i]] = f[i + 1]
  BY DEF RingOf
<1>2. PICK N \in Nat : N = Cardinality(Blocks)
  BY BlocksFinite
<1>3. n + 1 =< N
  BY <1>1, <1>2, BlocksFinite
<1>4. PICK g : g = At
  OBVIOUS
<1>5. Follows(g, heap.next, N)
  BY <1>2, <1>4, AtFollows
<1>6. \A k \in 0 .. n + 1 : g[k] = f[k]
  <2> DEFINE T == {k \in 0 .. n + 1 : g[k] # f[k]}
  <2> SUFFICES ASSUME T # {} PROVE FALSE
    OBVIOUS
  <2>1. PICK l \in T : \A k \in T : l =< k
    <3>1. T \in SUBSET Nat
      BY <1>1
    <3> HIDE DEF T
    <3> QED  BY <3>1, Least
  <2>2. l \in 0 .. n + 1 /\ g[l] # f[l]
    BY <2>1
  <2>3. l # 0
    BY <1>1, <1>5, <2>2 DEF Follows
  <2>4. l - 1 \in 0 .. n /\ l - 1 \notin T
    BY <1>1, <2>1, <2>2, <2>3
  <2>5. g[l - 1] = f[l - 1]
    BY <1>1, <2>4
  <2>6. l \in 1 .. N /\ f[l] = heap.next[f[l - 1]]
    BY <1>1, <1>3, <2>2, <2>3, <2>4
  <2> QED  BY <1>5, <2>2, <2>5, <2>6 DEF Follows
<1>7. Lap = {k \in 0 .. N - 1 : \A j \in 1 .. k : g[j] # BlockHead}
  BY <1>2, <1>4 DEF Lap
<1>8. \A j \in 1 .. n : g[j] # BlockHead
  BY <1>1, <1>6
<1>9. g[n + 1] = BlockHead
  BY <1>1, <1>6
<1>10. ASSUME NEW k \in Lap PROVE k \in 0 .. n
  <2>1. k \in 0 .. N - 1 /\ \A j \in 1 .. k : g[j] # BlockHead
    BY <1>7
  <2>2. ~(n + 1 \in 1 .. k)
    BY <1>9, <2>1
  <2> QED  BY <1>1, <1>2, <2>1, <2>2
<1>11. ASSUME NEW k \in 0 .. n PROVE k \in Lap
  <2>1. k \in 0 .. N - 1
    BY <1>1, <1>2, <1>3
  <2>2. \A j \in 1 .. k : g[j] # BlockHead
    BY <1>1, <1>8
  <2> QED  BY <1>7, <2>1, <2>2
<1>12. Lap = 0 .. n
  BY <1>10, <1>11
<1> QED  BY <1>2, <1>3, <1>4, <1>6, <1>12

\* The ring as the search sees it, and as it is numbered.
Members(f, n) == {f[k] : k \in 0 .. n}

LEMMA RingMembers ==
    ASSUME heap.next \in [Blocks -> Blocks],
           NEW f, NEW n, RingOf(f, n, heap.next, heap.prev)
    PROVE  Ring = Members(f, n)
<1>1. Ring = {At[k] : k \in 0 .. n}
  BY RingAt DEF Ring
<1>2. \A k \in 0 .. n : At[k] = f[k]
  <2>1. n \in Nat
    BY DEF RingOf
  <2>2. \A k \in 0 .. n : k \in 0 .. n + 1
    BY <2>1
  <2> QED  BY <2>2, RingAt
<1> QED  BY <1>1, <1>2 DEF Members

Appended(f, n, x) ==
    [i \in 0 .. n + 2 |-> IF i =< n THEN f[i] ELSE IF i = n + 1 THEN x ELSE BlockHead]

\* A new block goes between the last one and the head.
LEMMA RingAppend ==
    ASSUME NEW f, NEW n, NEW nx \in [Blocks -> Blocks], NEW pv \in [Blocks -> Blocks],
           RingOf(f, n, nx, pv), NEW x \in Blocks, \A i \in 0 .. n : f[i] # x
    PROVE  RingOf(Appended(f, n, x), n + 1,
                  [nx EXCEPT ![x] = BlockHead, ![pv[BlockHead]] = x],
                  [pv EXCEPT ![x] = pv[BlockHead], ![BlockHead] = x])
<1>1. PICK g : g = Appended(f, n, x)
  OBVIOUS
<1>2. PICK nx1 : nx1 = [nx EXCEPT ![x] = BlockHead, ![pv[BlockHead]] = x]
  OBVIOUS
<1>3. PICK pv1 : pv1 = [pv EXCEPT ![x] = pv[BlockHead], ![BlockHead] = x]
  OBVIOUS
<1>4. /\ n \in Nat /\ f \in [0 .. n + 1 -> Blocks] /\ f[0] = BlockHead /\ f[n + 1] = BlockHead
      /\ \A i, j \in 0 .. n : f[i] = f[j] => i = j
      /\ \A i \in 0 .. n : nx[f[i]] = f[i + 1] /\ pv[f[i + 1]] = f[i]
  BY DEF RingOf
<1>5. pv[BlockHead] = f[n] /\ f[n] \in Blocks /\ f[n] # x /\ x # BlockHead /\ BlockHead \in Blocks
  BY <1>4, BlockNames
<1>6. /\ g \in [0 .. n + 2 -> Blocks] /\ g[n + 1] = x /\ g[n + 2] = BlockHead
      /\ \A i \in 0 .. n : g[i] = f[i]
  BY <1>1, <1>4, <1>5 DEF Appended
<1>7. \A i, j \in 0 .. n + 1 : g[i] = g[j] => i = j
  BY <1>4, <1>6
<1>8. /\ nx1[x] = BlockHead /\ nx1[f[n]] = x
      /\ \A b \in Blocks \ {x, f[n]} : nx1[b] = nx[b]
  BY <1>2, <1>5
<1>9. /\ pv1[x] = f[n] /\ pv1[BlockHead] = x
      /\ \A b \in Blocks \ {x, BlockHead} : pv1[b] = pv[b]
  BY <1>3, <1>5
<1>10. ASSUME NEW i \in 0 .. n + 1 PROVE nx1[g[i]] = g[i + 1] /\ pv1[g[i + 1]] = g[i]
  <2>1. CASE i = n + 1
    BY <1>4, <1>6, <1>8, <1>9, <2>1
  <2>2. CASE i = n
    BY <1>4, <1>6, <1>8, <1>9, <2>2
  <2>3. CASE i < n
    <3>1. i \in 0 .. n /\ i + 1 \in 1 .. n /\ n \in 0 .. n
      BY <1>4, <2>3
    <3>2. /\ g[i] = f[i] /\ g[i + 1] = f[i + 1] /\ f[i] # f[n]
          /\ f[i] \in Blocks /\ f[i + 1] \in Blocks /\ f[i] # x /\ f[i + 1] # x
          /\ f[i + 1] # f[0]
      BY <1>4, <1>6, <2>3, <3>1
    <3> QED  BY <1>4, <1>8, <1>9, <3>1, <3>2
  <2> QED  BY <1>4, <2>1, <2>2, <2>3
<1>11. n + 1 \in Nat /\ (n + 1) + 1 = n + 2
  BY <1>4
<1>12. g[0] = BlockHead
  BY <1>4, <1>6
<1>13. RingOf(g, n + 1, nx1, pv1)
  BY <1>6, <1>7, <1>10, <1>11, <1>12 DEF RingOf
<1> QED  BY <1>1, <1>2, <1>3, <1>13

Removed(f, n, k) == [i \in 0 .. n |-> IF i < k THEN f[i] ELSE f[i + 1]]

\* A block is taken off: its predecessor and its successor are linked.
LEMMA RingRemove ==
    ASSUME NEW f, NEW n, NEW nx \in [Blocks -> Blocks], NEW pv \in [Blocks -> Blocks],
           RingOf(f, n, nx, pv), NEW k \in 1 .. n
    PROVE  RingOf(Removed(f, n, k), n - 1,
                  [nx EXCEPT ![f[k - 1]] = nx[f[k]]],
                  [pv EXCEPT ![nx[f[k]]] = f[k - 1]])
<1>1. PICK g : g = Removed(f, n, k)
  OBVIOUS
<1>2. PICK nx1 : nx1 = [nx EXCEPT ![f[k - 1]] = nx[f[k]]]
  OBVIOUS
<1>3. PICK pv1 : pv1 = [pv EXCEPT ![nx[f[k]]] = f[k - 1]]
  OBVIOUS
<1>4. /\ n \in Nat /\ f \in [0 .. n + 1 -> Blocks] /\ f[0] = BlockHead /\ f[n + 1] = BlockHead
      /\ \A i, j \in 0 .. n : f[i] = f[j] => i = j
      /\ \A i \in 0 .. n : nx[f[i]] = f[i + 1] /\ pv[f[i + 1]] = f[i]
  BY DEF RingOf
<1>5. /\ n - 1 \in Nat /\ (n - 1) + 1 = n /\ k - 1 \in 0 .. n /\ k + 1 \in 0 .. n + 1
      /\ k \in Nat /\ (k - 1) + 1 = k
  BY <1>4
<1>6. /\ g \in [0 .. n -> Blocks]
      /\ \A i \in 0 .. k - 1 : g[i] = f[i]
      /\ \A i \in k .. n : g[i] = f[i + 1]
  BY <1>1, <1>4, <1>5 DEF Removed
<1>7. g[0] = BlockHead /\ g[n] = BlockHead
  BY <1>4, <1>5, <1>6
<1>8. ASSUME NEW i \in 0 .. n - 1, NEW j \in 0 .. n - 1, g[i] = g[j] PROVE i = j
  <2>1. CASE i < k /\ j < k
    BY <1>4, <1>5, <1>6, <1>8, <2>1
  <2>2. CASE i < k /\ j >= k
    BY <1>4, <1>5, <1>6, <1>8, <2>2
  <2>3. CASE i >= k /\ j < k
    BY <1>4, <1>5, <1>6, <1>8, <2>3
  <2>4. CASE i >= k /\ j >= k
    BY <1>4, <1>5, <1>6, <1>8, <2>4
  <2> QED  BY <1>4, <1>5, <2>1, <2>2, <2>3, <2>4
<1>9. nx[f[k]] = f[k + 1] /\ f[k - 1] \in Blocks /\ f[k + 1] \in Blocks
  BY <1>4, <1>5
<1>10. /\ nx1[f[k - 1]] = f[k + 1]
       /\ \A b \in Blocks \ {f[k - 1]} : nx1[b] = nx[b]
  BY <1>2, <1>9
<1>11. /\ pv1[f[k + 1]] = f[k - 1]
       /\ \A b \in Blocks \ {f[k + 1]} : pv1[b] = pv[b]
  BY <1>3, <1>9
<1>12. ASSUME NEW i \in 0 .. n - 1 PROVE nx1[g[i]] = g[i + 1] /\ pv1[g[i + 1]] = g[i]
  <2>1. CASE i = k - 1
    <3>1. g[i] = f[k - 1] /\ g[i + 1] = f[k + 1]
      BY <1>4, <1>5, <1>6, <2>1
    <3> QED  BY <3>1, <1>10, <1>11
  <2>2. CASE i < k - 1
    <3>1. g[i] = f[i] /\ g[i + 1] = f[i + 1] /\ i \in 0 .. n /\ i + 1 \in 0 .. n /\ i + 1 # 0
      BY <1>4, <1>5, <1>6, <2>2
    <3>2. f[i] # f[k - 1] /\ f[i + 1] # f[k + 1]
      <4>1. f[i] # f[k - 1]
        BY <1>4, <1>5, <2>2, <3>1
      <4>2. CASE k + 1 \in 0 .. n
        BY <1>4, <1>5, <2>2, <3>1, <4>2
      <4>3. CASE k = n
        BY <1>4, <1>5, <2>2, <3>1, <4>3
      <4> QED  BY <1>4, <1>5, <4>1, <4>2, <4>3
    <3>3. f[i] \in Blocks /\ f[i + 1] \in Blocks /\ nx[f[i]] = f[i + 1] /\ pv[f[i + 1]] = f[i]
      BY <1>4, <3>1
    <3> QED  BY <3>1, <3>2, <3>3, <1>10, <1>11
  <2>3. CASE i > k - 1
    <3>1. /\ g[i] = f[i + 1] /\ g[i + 1] = f[i + 2]
          /\ i + 1 \in 0 .. n /\ i + 2 \in 0 .. n + 1 /\ (i + 1) + 1 = i + 2
      BY <1>4, <1>5, <1>6, <2>3
    <3>2. f[i + 1] # f[k - 1] /\ f[i + 2] # f[k + 1]
      <4>1. f[i + 1] # f[k - 1]
        BY <1>4, <1>5, <2>3, <3>1
      <4>2. CASE i + 2 \in 0 .. n
        BY <1>4, <1>5, <2>3, <3>1, <4>2
      <4>3. CASE i + 2 = n + 1
        <5>1. k + 1 \in 0 .. n /\ k + 1 # 0 /\ f[i + 2] = f[0]
          BY <1>4, <1>5, <2>3, <4>3
        <5> QED  BY <1>4, <5>1
      <4> QED  BY <1>4, <3>1, <4>1, <4>2, <4>3
    <3>3. /\ f[i + 1] \in Blocks /\ f[i + 2] \in Blocks
          /\ nx[f[i + 1]] = f[i + 2] /\ pv[f[i + 2]] = f[i + 1]
      BY <1>4, <3>1
    <3> QED  BY <3>1, <3>2, <3>3, <1>10, <1>11
  <2> QED  BY <1>5, <2>1, <2>2, <2>3
<1>13. RingOf(g, n - 1, nx1, pv1)
  BY <1>5, <1>6, <1>7, <1>8, <1>12 DEF RingOf
<1> QED  BY <1>1, <1>2, <1>3, <1>13
-----------------------------------------------------------------------------
(***************************************************************************)
(* The inductive invariant                                                 *)
(***************************************************************************)

\* the fields of the blocks
HeapOK(h) ==
    /\ h \in [next : [Blocks -> Blocks], prev : [Blocks -> Blocks],
              size : [Blocks -> Nat], state : [Blocks -> {0, 1}]]
    /\ h.size[BlockHead] = 0 /\ h.state[BlockHead] = 1

\* Neighbours are not both free, but for the pairs at the places E.
Apart(f, n, h, E) ==
    \A i \in 0 .. n : i \notin E => h.state[f[i]] = 1 \/ h.state[f[i + 1]] = 1

\* A block on the ring is in use when somebody holds it.
InUse(f, n, h, hd) == \A i \in 1 .. n : hd[f[i]] # 0 <=> h.state[f[i]] = 1

\* A block that somebody holds is on the ring, and large enough.
HeldOnRing(f, n, h, hd) ==
    \A b \in Blocks : hd[b] # 0 => h.size[b] >= hd[b] /\ \E i \in 1 .. n : f[i] = b

\* A block on the ring is the head, one of those taken so far, or the one
\* that came of a failure.
FromPmm(f, n, tk, fl) ==
    \A i \in 1 .. n :
        (\E j \in 1 .. tk : f[i] = Supply[j]) \/ (f[i] = Zero /\ fl # 0)

RingOK(f, n, h, hd, tk, fl, E) ==
    /\ RingOf(f, n, h.next, h.prev)
    /\ Apart(f, n, h, E)
    /\ InUse(f, n, h, hd)
    /\ HeldOnRing(f, n, h, hd)
    /\ FromPmm(f, n, tk, fl)

IInv ==
    /\ TypeOK
    /\ Running => \E f, n : RingOK(f, n, heap, held, taken, failures, {})

LEMMA InitOK == Init => IInv
<1> SUFFICES ASSUME Init PROVE IInv
  OBVIOUS
<1>1. HeapOK(heap) /\ heap.next[BlockHead] = BlockHead /\ heap.prev[BlockHead] = BlockHead
  BY BlockNames DEF Init, HeapOK
<1>2. TypeOK
  BY <1>1, BlockNames DEF Init, TypeOK, HeapOK
<1>3. PICK f : f = [i \in 0 .. 0 + 1 |-> BlockHead]
  OBVIOUS
<1>4. RingOf(f, 0, heap.next, heap.prev)
  BY <1>1, <1>3, BlockNames DEF RingOf
<1>5. Apart(f, 0, heap, {})
  BY <1>1, <1>3 DEF Apart, HeapOK
<1>6. InUse(f, 0, heap, held) /\ FromPmm(f, 0, taken, failures)
  BY DEF InUse, FromPmm
<1>7. HeldOnRing(f, 0, heap, held)
  BY DEF HeldOnRing, Init
<1> QED  BY <1>2, <1>4, <1>5, <1>6, <1>7 DEF IInv, RingOK

-----------------------------------------------------------------------------
(***************************************************************************)
(* Allocation                                                              *)
(***************************************************************************)

\* First fit finds a free block of the ring that is large enough.
LEMMA FirstFitOK ==
    ASSUME NEW size, HeapOK(heap), Fits(size) # {},
           NEW f, NEW n, RingOf(f, n, heap.next, heap.prev)
    PROVE  \E k \in 1 .. n : /\ FirstFit(size) = f[k]
                             /\ heap.state[f[k]] = 0 /\ heap.size[f[k]] >= size
<1>1. heap.next \in [Blocks -> Blocks] /\ heap.state[BlockHead] = 1
  BY DEF HeapOK
<1>2. n \in Nat /\ f[0] = BlockHead
  BY DEF RingOf
<1>3. /\ Lap = 0 .. n
      /\ \A k \in 0 .. n + 1 : At[k] = f[k]
  BY <1>1, RingAt
<1>4. Fits(size) = {k \in 0 .. n : heap.state[At[k]] = 0 /\ heap.size[At[k]] >= size}
  BY <1>3 DEF Fits
<1>5. PICK k \in Fits(size) : \A j \in Fits(size) : k =< j
  <2>1. Fits(size) \in SUBSET Nat
    BY <1>2, <1>4
  <2> QED  BY <2>1, Least
<1>6. PICK l : l = CHOOSE m \in Fits(size) : \A j \in Fits(size) : m =< j
  OBVIOUS
<1>7. l \in Fits(size)
  BY <1>5, <1>6
<1>8. l \in 0 .. n /\ heap.state[At[l]] = 0 /\ heap.size[At[l]] >= size
  BY <1>4, <1>7
<1>9. At[l] = f[l]
  BY <1>2, <1>3, <1>8
<1>10. FirstFit(size) = f[l]
  BY <1>6, <1>9 DEF FirstFit
<1>11. l # 0
  BY <1>1, <1>2, <1>8, <1>9
<1>12. l \in 1 .. n
  BY <1>2, <1>8, <1>11
<1> QED  BY <1>8, <1>9, <1>10, <1>12

LEMMA ReuseOK ==
    ASSUME IInv, NEW size \in Requests, Reuse(size) PROVE IInv'
<1>1. Running /\ Fits(size) # {} /\ HeapOK(heap) /\ size \in Nat /\ size # 0
  BY KHeapAssumption DEF Reuse, IInv, TypeOK, HeapOK
<1>2. PICK f, n : RingOK(f, n, heap, held, taken, failures, {})
  BY <1>1 DEF IInv
<1>3. n \in Nat /\ f \in [0 .. n + 1 -> Blocks] /\ \A i, j \in 0 .. n : f[i] = f[j] => i = j
  BY <1>2 DEF RingOK, RingOf
<1>4. PICK k \in 1 .. n : /\ FirstFit(size) = f[k]
                          /\ heap.state[f[k]] = 0 /\ heap.size[f[k]] >= size
  BY <1>1, <1>2, FirstFitOK DEF RingOK
<1>5. PICK b \in Blocks : b = f[k]
  BY <1>3
<1>6. /\ heap' = [heap EXCEPT !.state[b] = 1] /\ held' = [held EXCEPT ![b] = size]
      /\ taken' = taken /\ failures' = failures
  BY <1>4, <1>5 DEF Reuse
<1>7. /\ heap'.next = heap.next /\ heap'.prev = heap.prev /\ heap'.size = heap.size
      /\ heap'.state = [heap.state EXCEPT ![b] = 1]
  BY <1>1, <1>6 DEF HeapOK
<1>8. held \in [Blocks -> Requests \cup {0}]
  BY DEF IInv, TypeOK
<1>9. TypeOK'
  <2>1. HeapOK(heap')
    BY <1>1, <1>6 DEF HeapOK
  <2> QED  BY <2>1, <1>6, <1>8 DEF IInv, TypeOK, HeapOK
<1>10. \A c \in Blocks : heap'.state[c] = IF c = b THEN 1 ELSE heap.state[c]
  BY <1>1, <1>7 DEF HeapOK
<1>11. \A c \in Blocks : held'[c] = IF c = b THEN size ELSE held[c]
  BY <1>6, <1>8
<1>12. RingOf(f, n, heap'.next, heap'.prev)
  BY <1>2, <1>7 DEF RingOK
<1>13. Apart(f, n, heap', {})
  <2>1. \A i \in 0 .. n : f[i] \in Blocks /\ f[i + 1] \in Blocks
    BY <1>3
  <2> QED  BY <1>2, <1>10, <2>1 DEF RingOK, Apart
<1>14. InUse(f, n, heap', held')
  <2>1. \A i \in 1 .. n : f[i] \in Blocks
    BY <1>3
  <2> QED  BY <1>1, <1>2, <1>10, <1>11, <2>1 DEF RingOK, InUse
<1>15. HeldOnRing(f, n, heap', held')
  BY <1>2, <1>4, <1>5, <1>7, <1>11 DEF RingOK, HeldOnRing
<1>16. FromPmm(f, n, taken', failures')
  BY <1>2, <1>6 DEF RingOK
<1>17. RingOK(f, n, heap', held', taken', failures', {})
  BY <1>12, <1>13, <1>14, <1>15, <1>16 DEF RingOK
<1> QED  BY <1>9, <1>17 DEF IInv

\* A new block is not on the ring.
LEMMA FreshIsNew ==
    ASSUME taken \in 0 .. Len(Supply), failures = 0 \/ taken < Len(Supply),
           NEW f, NEW n, FromPmm(f, n, taken, failures), RingOf(f, n, heap.next, heap.prev)
    PROVE  \A i \in 0 .. n : f[i] # Fresh
<1>1. n \in Nat /\ f[0] = BlockHead /\ taken \in Nat /\ Len(Supply) \in Nat
  BY BlockNames DEF RingOf
<1>2. Fresh # BlockHead
  BY <1>1, BlockNames DEF Fresh
<1>3. ASSUME NEW i \in 1 .. n PROVE f[i] # Fresh
  <2>1. CASE \E j \in 1 .. taken : f[i] = Supply[j]
    <3>1. PICK j \in 1 .. taken : f[i] = Supply[j]
      BY <2>1
    <3>2. j \in 1 .. Len(Supply) /\ j # taken + 1
      BY <1>1
    <3>3. CASE taken < Len(Supply)
      <4>1. Fresh = Supply[taken + 1] /\ taken + 1 \in 1 .. Len(Supply)
        BY <1>1, <3>3 DEF Fresh
      <4> QED  BY <3>1, <3>2, <4>1, BlockNames
    <3>4. CASE ~(taken < Len(Supply))
      BY <3>1, <3>2, <3>4, BlockNames DEF Fresh
    <3> QED  BY <3>3, <3>4
  <2>2. CASE f[i] = Zero /\ failures # 0
    <3>1. Fresh = Supply[taken + 1] /\ taken + 1 \in 1 .. Len(Supply)
      BY <1>1, <2>2 DEF Fresh
    <3> QED  BY <2>2, <3>1, BlockNames
  <2> QED  BY <2>1, <2>2 DEF FromPmm
<1> QED  BY <1>1, <1>2, <1>3
LEMMA ExtendOK ==
    ASSUME IInv, NEW size \in Requests, Extend(size) PROVE IInv'
<1>1. Running /\ HeapOK(heap) /\ size \in Nat /\ size # 0
  BY KHeapAssumption DEF Extend, IInv, TypeOK, HeapOK
<1>2. PICK f, n : RingOK(f, n, heap, held, taken, failures, {})
  BY <1>1 DEF IInv
<1>3. /\ n \in Nat /\ f \in [0 .. n + 1 -> Blocks] /\ f[0] = BlockHead
      /\ \A i \in 0 .. n : heap.prev[f[i + 1]] = f[i] /\ f[n + 1] = BlockHead
  BY <1>2 DEF RingOK, RingOf
<1>4. /\ taken \in 0 .. Len(Supply) /\ failures \in 0 .. 1 /\ Len(Supply) \in Nat
      /\ held \in [Blocks -> Requests \cup {0}]
  BY <1>1, BlockNames DEF IInv, TypeOK, Running
<1>5. PICK x \in Blocks : x = Fresh /\ x # BlockHead
  BY <1>4, BlockNames DEF Fresh
<1>6. PICK last \in Blocks : last = heap.prev[BlockHead]
  BY <1>1, BlockNames DEF HeapOK
<1>7. heap' = [next  |-> [heap.next EXCEPT ![x] = BlockHead, ![last] = x],
               prev  |-> [heap.prev EXCEPT ![x] = last, ![BlockHead] = x],
               size  |-> [heap.size EXCEPT ![x] = size],
               state |-> [heap.state EXCEPT ![x] = 1]]
  BY <1>5, <1>6 DEF Extend
<1>8. held' = [held EXCEPT ![x] = size]
  BY <1>5 DEF Extend
<1>9. /\ heap'.next = [heap.next EXCEPT ![x] = BlockHead, ![heap.prev[BlockHead]] = x]
      /\ heap'.prev = [heap.prev EXCEPT ![x] = heap.prev[BlockHead], ![BlockHead] = x]
      /\ heap'.size = [heap.size EXCEPT ![x] = size]
      /\ heap'.state = [heap.state EXCEPT ![x] = 1]
  BY <1>6, <1>7
<1>10. \/ taken < Len(Supply) /\ taken' = taken + 1 /\ failures' = failures
       \/ ~(taken < Len(Supply)) /\ failures' = failures + 1 /\ taken' = taken
  BY DEF Extend
<1>11. TypeOK'
  <2>1. HeapOK(heap')
    <3>1. /\ heap'.next \in [Blocks -> Blocks] /\ heap'.prev \in [Blocks -> Blocks]
          /\ heap'.size \in [Blocks -> Nat] /\ heap'.state \in [Blocks -> {0, 1}]
      <4>1. /\ heap.next \in [Blocks -> Blocks] /\ heap.prev \in [Blocks -> Blocks]
            /\ heap.size \in [Blocks -> Nat] /\ heap.state \in [Blocks -> {0, 1}]
        BY <1>1 DEF HeapOK
      <4>2. BlockHead \in Blocks /\ heap.prev[BlockHead] \in Blocks
        BY <4>1, BlockNames
      <4>3. heap'.next \in [Blocks -> Blocks]
        BY <1>9, <4>1, <4>2
      <4>4. heap'.prev \in [Blocks -> Blocks]
        BY <1>9, <4>1, <4>2
      <4>5. heap'.size \in [Blocks -> Nat]
        BY <1>1, <1>9, <4>1
      <4>6. heap'.state \in [Blocks -> {0, 1}]
        BY <1>9, <4>1
      <4> QED  BY <4>5, <4>6, <4>3, <4>4
    <3>2. heap'.size[BlockHead] = 0 /\ heap'.state[BlockHead] = 1
      BY <1>1, <1>5, <1>9, BlockNames DEF HeapOK
    <3> QED  BY <1>7, <3>1, <3>2 DEF HeapOK
  <2>2. held' \in [Blocks -> Requests \cup {0}]
    BY <1>4, <1>8
  <2>3. taken' \in 0 .. Len(Supply) /\ failures' \in 0 .. 2
    BY <1>4, <1>10
  <2> QED  BY <2>1, <2>2, <2>3 DEF TypeOK, HeapOK
<1>12. ASSUME Running' PROVE \E g, m : RingOK(g, m, heap', held', taken', failures', {})
  <2>1. failures = 0 \/ taken < Len(Supply)
    BY <1>4, <1>10, <1>12 DEF Running
  <2>2. \A i \in 0 .. n : f[i] # x
    BY <1>2, <1>4, <1>5, <2>1, FreshIsNew DEF RingOK
  <2>3. PICK g : g = Appended(f, n, x)
    OBVIOUS
  <2>4. RingOf(g, n + 1, heap'.next, heap'.prev)
    <3>1. heap.next \in [Blocks -> Blocks] /\ heap.prev \in [Blocks -> Blocks]
      BY <1>1 DEF HeapOK
    <3>2. RingOf(f, n, heap.next, heap.prev)
      BY <1>2 DEF RingOK
    <3> QED  BY <1>9, <2>2, <2>3, <3>1, <3>2, RingAppend
  <2>5. /\ \A i \in 0 .. n : g[i] = f[i] /\ f[i] \in Blocks /\ f[i] # x
        /\ g[n + 1] = x /\ g[n + 2] = BlockHead
    BY <1>3, <2>2, <2>3 DEF Appended
  <2>6. /\ \A b \in Blocks : heap'.state[b] = IF b = x THEN 1 ELSE heap.state[b]
        /\ \A b \in Blocks : heap'.size[b] = IF b = x THEN size ELSE heap.size[b]
        /\ \A b \in Blocks : held'[b] = IF b = x THEN size ELSE held[b]
    BY <1>1, <1>4, <1>8, <1>9 DEF HeapOK
  <2>7. Apart(g, n + 1, heap', {})
    <3> SUFFICES ASSUME NEW i \in 0 .. n + 1
                 PROVE  heap'.state[g[i]] = 1 \/ heap'.state[g[i + 1]] = 1
      BY DEF Apart
    <3>1. CASE i >= n
      BY <1>3, <2>5, <2>6, <3>1
    <3>2. CASE i < n
      <4>1. /\ i \in 0 .. n /\ i + 1 \in 0 .. n
            /\ g[i] = f[i] /\ g[i + 1] = f[i + 1]
        BY <1>3, <2>5, <3>2
      <4>2. heap.state[f[i]] = 1 \/ heap.state[f[i + 1]] = 1
        BY <1>2, <4>1 DEF RingOK, Apart
      <4> QED  BY <2>5, <2>6, <4>1, <4>2
    <3> QED  BY <1>3, <3>1, <3>2
  <2>8. InUse(g, n + 1, heap', held')
    <3> SUFFICES ASSUME NEW i \in 1 .. n + 1
                 PROVE  held'[g[i]] # 0 <=> heap'.state[g[i]] = 1
      BY DEF InUse
    <3>1. CASE i = n + 1
      BY <1>1, <2>5, <2>6, <3>1
    <3>2. CASE i # n + 1
      <4>1. i \in 1 .. n /\ i \in 0 .. n
        BY <1>3, <3>2
      <4>2. held[f[i]] # 0 <=> heap.state[f[i]] = 1
        BY <1>2, <4>1 DEF RingOK, InUse
      <4> QED  BY <2>5, <2>6, <4>1, <4>2
    <3> QED  BY <3>1, <3>2
  <2>9. HeldOnRing(g, n + 1, heap', held')
    <3> SUFFICES ASSUME NEW b \in Blocks, held'[b] # 0
                 PROVE  heap'.size[b] >= held'[b] /\ \E i \in 1 .. n + 1 : g[i] = b
      BY DEF HeldOnRing
    <3>1. CASE b = x
      BY <1>1, <1>3, <2>5, <2>6, <3>1
    <3>2. CASE b # x
      <4>1. held[b] # 0 /\ heap'.size[b] = heap.size[b] /\ held'[b] = held[b]
        BY <2>6, <3>2
      <4>2. PICK i \in 1 .. n : f[i] = b /\ heap.size[b] >= held[b]
        BY <1>2, <4>1 DEF RingOK, HeldOnRing
      <4>3. i \in 0 .. n /\ i \in 1 .. n + 1
        BY <1>3
      <4> QED  BY <2>5, <4>1, <4>2, <4>3
    <3> QED  BY <3>1, <3>2
  <2>10. FromPmm(g, n + 1, taken', failures')
    <3> SUFFICES ASSUME NEW i \in 1 .. n + 1
                 PROVE  \/ \E j \in 1 .. taken' : g[i] = Supply[j]
                        \/ g[i] = Zero /\ failures' # 0
      BY DEF FromPmm
    <3>1. CASE i = n + 1
      <4>1. g[i] = Fresh
        BY <1>5, <2>5, <3>1
      <4>2. CASE taken < Len(Supply)
        <5>1. Fresh = Supply[taken + 1] /\ taken + 1 \in 1 .. taken'
          BY <1>4, <1>10, <4>2 DEF Fresh
        <5> QED  BY <4>1, <5>1
      <4>3. CASE ~(taken < Len(Supply))
        <5>1. Fresh = Zero /\ failures' # 0
          BY <1>4, <1>10, <4>3 DEF Fresh
        <5> QED  BY <4>1, <5>1
      <4> QED  BY <4>2, <4>3
    <3>2. CASE i # n + 1
      <4>1. i \in 1 .. n /\ i \in 0 .. n
        BY <1>3, <3>2
      <4>2. (\E j \in 1 .. taken : f[i] = Supply[j]) \/ (f[i] = Zero /\ failures # 0)
        BY <1>2, <4>1 DEF RingOK, FromPmm
      <4> QED  BY <1>4, <1>10, <2>5, <4>1, <4>2
    <3> QED  BY <3>1, <3>2
  <2> QED  BY <2>4, <2>7, <2>8, <2>9, <2>10 DEF RingOK
<1> QED  BY <1>11, <1>12 DEF IInv

-----------------------------------------------------------------------------
(***************************************************************************)
(* Release                                                                 *)
(***************************************************************************)

\* g is h after p has taken in b, field by field
Absorbed(g, h, p, b) ==
    /\ HeapOK(g)
    /\ g.next = [h.next EXCEPT ![p] = h.next[b]]
    /\ g.prev = [h.prev EXCEPT ![h.next[b]] = p]
    /\ g.state = h.state
    /\ g.size = [h.size EXCEPT ![p] = h.size[p] + Hdr + h.size[b]]

\* What Absorb does to each field.
LEMMA AbsorbFields ==
    ASSUME NEW h, HeapOK(h), NEW p \in Blocks, p # BlockHead, NEW b \in Blocks
    PROVE  Absorbed(Absorb(h, p, b), h, p, b)
<1>1. /\ h.next \in [Blocks -> Blocks] /\ h.prev \in [Blocks -> Blocks]
      /\ h.size \in [Blocks -> Nat] /\ h.state \in [Blocks -> {0, 1}]
      /\ h = [next |-> h.next, prev |-> h.prev, size |-> h.size, state |-> h.state]
  BY DEF HeapOK
<1>2. PICK g : g = Absorb(h, p, b)
  OBVIOUS
<1>3. g = [next  |-> [h.next EXCEPT ![p] = h.next[b]],
           prev  |-> [h.prev EXCEPT ![h.next[b]] = p],
           size  |-> [h.size EXCEPT ![p] = h.size[p] + Hdr + h.size[b]],
           state |-> h.state]
  BY <1>1, <1>2 DEF Absorb
<1>4. h.size[p] + Hdr + h.size[b] \in Nat /\ h.next[b] \in Blocks
  BY <1>1, KHeapAssumption
<1>5. /\ g.next \in [Blocks -> Blocks] /\ g.prev \in [Blocks -> Blocks]
      /\ g.size \in [Blocks -> Nat] /\ g.state \in [Blocks -> {0, 1}]
  BY <1>1, <1>3, <1>4
<1>6. g.size[BlockHead] = 0 /\ g.state[BlockHead] = 1
  BY <1>1, <1>3, BlockNames DEF HeapOK
<1>7. HeapOK(g)
  BY <1>3, <1>5, <1>6 DEF HeapOK
<1>8. Absorbed(g, h, p, b)
  BY <1>3, <1>7 DEF Absorbed
<1> QED  BY <1>2, <1>8

\* The block at place k of the ring takes in the next one, both free.
LEMMA AbsorbRing ==
    ASSUME NEW f, NEW n, NEW h, NEW hd, NEW tk, NEW fl, NEW E, HeapOK(h),
           RingOK(f, n, h, hd, tk, fl, E),
           NEW k \in 1 .. n - 1, E \subseteq {k - 1, k},
           h.state[f[k]] = 0, h.state[f[k + 1]] = 0
    PROVE  RingOK(Removed(f, n, k + 1), n - 1, Absorb(h, f[k], f[k + 1]), hd, tk, fl, E \ {k})
<1>1. /\ n \in Nat /\ f \in [0 .. n + 1 -> Blocks] /\ f[0] = BlockHead /\ f[n + 1] = BlockHead
      /\ \A i, j \in 0 .. n : f[i] = f[j] => i = j
      /\ RingOf(f, n, h.next, h.prev)
  BY DEF RingOK, RingOf
<1>2. /\ k \in 0 .. n /\ k + 1 \in 1 .. n /\ k + 1 \in 0 .. n /\ k # 0 /\ k \in Nat
      /\ (k + 1) - 1 = k
  BY <1>1
<1>3. PICK p \in Blocks : p = f[k] /\ p # BlockHead
  BY <1>1, <1>2
<1>4. PICK b \in Blocks : b = f[k + 1]
  BY <1>1, <1>2
<1>5. PICK g : g = Absorb(h, p, b)
  OBVIOUS
<1>6. PICK e : e = Removed(f, n, k + 1)
  OBVIOUS
<1>7. /\ g.next = [h.next EXCEPT ![p] = h.next[b]]
      /\ g.prev = [h.prev EXCEPT ![h.next[b]] = p]
      /\ g.state = h.state
      /\ g.size = [h.size EXCEPT ![p] = h.size[p] + Hdr + h.size[b]]
  <2>1. Absorbed(g, h, p, b)
    BY <1>3, <1>5, AbsorbFields
  <2> QED  BY <2>1 DEF Absorbed
<1>8. RingOf(e, n - 1, g.next, g.prev)
  <2>1. h.next \in [Blocks -> Blocks] /\ h.prev \in [Blocks -> Blocks]
    BY DEF HeapOK
  <2>2. PICK l \in 1 .. n : l = k + 1
    BY <1>2
  <2>3. f[l] = b /\ f[l - 1] = p /\ e = Removed(f, n, l)
    BY <1>2, <1>3, <1>4, <1>6, <2>2
  <2>4. RingOf(Removed(f, n, l), n - 1, [h.next EXCEPT ![f[l - 1]] = h.next[f[l]]],
               [h.prev EXCEPT ![h.next[f[l]]] = f[l - 1]])
    BY <1>1, <2>1, RingRemove
  <2> QED  BY <1>7, <2>3, <2>4
<1>9. /\ \A i \in 0 .. k : e[i] = f[i]
      /\ \A i \in k + 1 .. n : e[i] = f[i + 1]
  BY <1>1, <1>2, <1>6 DEF Removed
<1>10. Apart(e, n - 1, g, E \ {k})
  <2> SUFFICES ASSUME NEW i \in 0 .. n - 1, i \notin E \ {k}
               PROVE  g.state[e[i]] = 1 \/ g.state[e[i + 1]] = 1
    BY DEF Apart
  <2>1. \A j \in 0 .. n : j \notin E => h.state[f[j]] = 1 \/ h.state[f[j + 1]] = 1
    BY DEF RingOK, Apart
  <2>2. CASE i < k
    <3>1. i \notin E /\ i \in 0 .. n /\ e[i] = f[i] /\ e[i + 1] = f[i + 1]
      BY <1>1, <1>2, <1>9, <2>2
    <3> QED  BY <1>7, <2>1, <3>1
  <2>3. CASE i = k
    <3>1. k + 1 \notin E /\ e[i + 1] = f[(k + 1) + 1]
      BY <1>1, <1>2, <1>9, <2>3
    <3> QED  BY <1>2, <1>7, <2>1, <3>1
  <2>4. CASE i > k
    <3>1. /\ i + 1 \notin E /\ i + 1 \in 0 .. n
          /\ e[i] = f[i + 1] /\ e[i + 1] = f[(i + 1) + 1]
      BY <1>1, <1>2, <1>9, <2>4
    <3> QED  BY <1>7, <2>1, <3>1
  <2> QED  BY <1>2, <2>2, <2>3, <2>4
<1>11. \A i \in 1 .. n - 1 : \E j \in 1 .. n : e[i] = f[j]
  <2> SUFFICES ASSUME NEW i \in 1 .. n - 1 PROVE \E j \in 1 .. n : e[i] = f[j]
    OBVIOUS
  <2>1. CASE i =< k
    <3>1. i \in 0 .. k /\ i \in 1 .. n
      BY <1>1, <1>2, <2>1
    <3> QED  BY <1>9, <3>1
  <2>2. CASE i > k
    <3>1. i \in k + 1 .. n /\ i + 1 \in 1 .. n
      BY <1>1, <1>2, <2>2
    <3> QED  BY <1>9, <3>1
  <2> QED  BY <1>2, <2>1, <2>2
<1>12. InUse(e, n - 1, g, hd) /\ FromPmm(e, n - 1, tk, fl)
  BY <1>7, <1>11 DEF RingOK, InUse, FromPmm
<1>13. HeldOnRing(e, n - 1, g, hd)
  <2> SUFFICES ASSUME NEW c \in Blocks, hd[c] # 0
               PROVE  g.size[c] >= hd[c] /\ \E i \in 1 .. n - 1 : e[i] = c
    BY DEF HeldOnRing
  <2>1. PICK i \in 1 .. n : f[i] = c /\ h.size[c] >= hd[c]
    BY DEF RingOK, HeldOnRing
  <2>2. \A j \in 1 .. n : hd[f[j]] # 0 <=> h.state[f[j]] = 1
    BY DEF RingOK, InUse
  <2>3. i # k + 1 /\ c # p
    <3>1. hd[f[k]] = 0 /\ hd[f[k + 1]] = 0
      BY <1>1, <1>2, <2>2
    <3> QED  BY <1>3, <2>1, <3>1
  <2>4. g.size[c] = h.size[c]
    BY <1>7, <2>3 DEF HeapOK
  <2>5. CASE i =< k
    <3>1. i \in 1 .. n - 1 /\ e[i] = f[i]
      BY <1>1, <1>2, <1>9, <2>5
    <3> QED  BY <2>1, <2>4, <3>1
  <2>6. CASE i > k
    <3>1. i - 1 \in 1 .. n - 1 /\ i - 1 \in k + 1 .. n /\ (i - 1) + 1 = i
      BY <1>1, <1>2, <2>3, <2>6
    <3>2. e[i - 1] = f[i]
      BY <1>9, <3>1
    <3> QED  BY <2>1, <2>4, <3>1, <3>2
  <2> QED  BY <1>2, <2>5, <2>6
<1>14. RingOK(e, n - 1, g, hd, tk, fl, E \ {k})
  BY <1>8, <1>10, <1>12, <1>13 DEF RingOK
<1> QED  BY <1>3, <1>4, <1>5, <1>6, <1>14

\* the bytes of the numbered blocks, headers included
BytesOf(f, n, h) == Total([b \in Blocks |-> h.size[b] + Hdr], Members(f, n))

\* The block that takes in another has its bytes afterwards.
LEMMA AbsorbBytes ==
    ASSUME NEW f, NEW n, NEW h, HeapOK(h), RingOf(f, n, h.next, h.prev),
           NEW k \in 1 .. n - 1
    PROVE  BytesOf(Removed(f, n, k + 1), n - 1, Absorb(h, f[k], f[k + 1])) = BytesOf(f, n, h)
<1>1. /\ n \in Nat /\ f \in [0 .. n + 1 -> Blocks] /\ f[0] = BlockHead
      /\ \A i, j \in 0 .. n : f[i] = f[j] => i = j
  BY DEF RingOf
<1>2. k \in 0 .. n /\ k + 1 \in 0 .. n /\ k # 0 /\ k # k + 1 /\ k \in Nat
  BY <1>1
<1>3. PICK p \in Blocks : p = f[k] /\ p # BlockHead
  BY <1>1, <1>2
<1>4. PICK b \in Blocks : b = f[k + 1] /\ b # p
  BY <1>1, <1>2, <1>3
<1>5. PICK g : g = Absorb(h, p, b)
  OBVIOUS
<1>6. PICK e : e = Removed(f, n, k + 1)
  OBVIOUS
<1>7. g.size = [h.size EXCEPT ![p] = h.size[p] + Hdr + h.size[b]] /\ h.size \in [Blocks -> Nat]
  <2>1. Absorbed(g, h, p, b)
    BY <1>3, <1>5, AbsorbFields
  <2> QED  BY <2>1 DEF Absorbed, HeapOK
<1>8. PICK R : R = Members(f, n)
  OBVIOUS
<1>9. Members(e, n - 1) = R \ {b}
  <2>1. /\ \A i \in 0 .. k : e[i] = f[i]
        /\ \A i \in k + 1 .. n : e[i] = f[i + 1]
    BY <1>1, <1>2, <1>6 DEF Removed
  <2>2. ASSUME NEW c \in Members(e, n - 1) PROVE c \in R \ {b}
    <3>1. PICK i \in 0 .. n - 1 : c = e[i]
      BY DEF Members
    <3>2. PICK j \in 0 .. n : c = f[j] /\ j # k + 1
      <4>1. CASE i =< k
        <5>1. i \in 0 .. k /\ i \in 0 .. n /\ i # k + 1
          BY <1>1, <1>2, <4>1
        <5> QED  BY <2>1, <3>1, <5>1
      <4>2. CASE i > k
        <5>1. i \in k + 1 .. n /\ i + 1 \in 0 .. n /\ i + 1 # k + 1
          BY <1>1, <1>2, <4>2
        <5> QED  BY <2>1, <3>1, <5>1
      <4> QED  BY <1>2, <4>1, <4>2
    <3> QED  BY <1>1, <1>2, <1>4, <1>8, <3>2 DEF Members
  <2>3. ASSUME NEW c \in R \ {b} PROVE c \in Members(e, n - 1)
    <3>1. PICK j \in 0 .. n : c = f[j]
      BY <1>8 DEF Members
    <3>2. j # k + 1
      BY <1>4, <2>3, <3>1
    <3>3. CASE j =< k
      <4>1. j \in 0 .. k /\ j \in 0 .. n - 1
        BY <1>1, <1>2, <3>3
      <4> QED  BY <2>1, <3>1, <4>1 DEF Members
    <3>4. CASE j > k
      <4>1. j - 1 \in k + 1 .. n /\ (j - 1) + 1 = j /\ j - 1 \in 0 .. n - 1
        BY <1>1, <1>2, <3>2, <3>4
      <4>2. e[j - 1] = f[j]
        BY <2>1, <4>1
      <4> QED  BY <3>1, <4>1, <4>2 DEF Members
    <3> QED  BY <1>2, <3>3, <3>4
  <2> QED  BY <2>2, <2>3
<1>10. p \in R /\ b \in R /\ R \subseteq Blocks /\ IsFiniteSet(R)
  <2>1. p \in R /\ b \in R
    BY <1>2, <1>3, <1>4, <1>8 DEF Members
  <2>2. R \subseteq Blocks
    BY <1>1, <1>8 DEF Members
  <2> QED  BY <2>1, <2>2, BlocksFinite, FS_Subset
<1>11. PICK u : u = [c \in Blocks |-> h.size[c] + Hdr]
  OBVIOUS
<1>12. PICK v : v = [c \in Blocks |-> g.size[c] + Hdr]
  OBVIOUS
<1>13. Hdr \in Nat
  BY KHeapAssumption
<1>14. /\ \A c \in Blocks : u[c] \in Nat /\ v[c] \in Nat
       /\ \A c \in Blocks : c # p => v[c] = u[c]
       /\ v[p] = u[p] + u[b]
  BY <1>7, <1>11, <1>12, <1>13
<1>15. PICK S : S = R \ {b} /\ S \subseteq Blocks /\ IsFiniteSet(S) /\ p \in S
  BY <1>4, <1>10, FS_RemoveElement
<1>16. PICK Q : Q = S \ {p} /\ Q \subseteq Blocks /\ IsFiniteSet(Q) /\ p \notin Q
  <2>1. IsFiniteSet(S \ {p})
    BY <1>15, FS_RemoveElement
  <2> QED  BY <1>15, <2>1
<1>17. Total(u, R) = u[b] + Total(u, S)
  BY <1>10, <1>14, <1>15, TotalSplit
<1>18. Total(u, S) = u[p] + Total(u, Q) /\ Total(v, S) = v[p] + Total(v, Q)
  BY <1>14, <1>15, <1>16, TotalSplit
<1>19. Total(u, Q) = Total(v, Q)
  BY <1>14, <1>16, TotalSame
<1>20. Total(u, Q) \in Nat
  BY <1>14, <1>16, TotalType
<1>21. u[p] \in Nat /\ u[b] \in Nat
  BY <1>14
<1>22. Total(v, S) = Total(u, R)
  BY <1>14, <1>17, <1>18, <1>19, <1>20, <1>21
<1>23. BytesOf(e, n - 1, g) = BytesOf(f, n, h)
  BY <1>8, <1>9, <1>11, <1>12, <1>15, <1>22 DEF BytesOf
<1> QED  BY <1>3, <1>4, <1>5, <1>6, <1>23

\* block b, just freed, takes in the one after it, or the one before it takes
\* in b: the two halves of KHeap_Free
MergeNext(h, b) ==
    IF h.next[b] # BlockHead /\ h.state[h.next[b]] = 0 THEN Absorb(h, b, h.next[b]) ELSE h

MergePrev(h, b) ==
    IF h.prev[b] # BlockHead /\ h.state[h.prev[b]] = 0 THEN Absorb(h, h.prev[b], b) ELSE h

\* what they leave
MergedNext(g, h, b, k, hd, tk, fl, bytes) ==
    /\ HeapOK(g) /\ g.state = h.state
    /\ \E e, m : /\ RingOK(e, m, g, hd, tk, fl, {k - 1})
                 /\ k \in 1 .. m /\ e[k] = b
                 /\ BytesOf(e, m, g) = bytes

MergedPrev(g, hd, tk, fl, bytes) ==
    /\ HeapOK(g)
    /\ \E e, m : RingOK(e, m, g, hd, tk, fl, {}) /\ BytesOf(e, m, g) = bytes

\* The block at place k, just freed, takes in the one before it.
LEMMA FreeLeft ==
    ASSUME NEW f, NEW n, NEW h, NEW hd, NEW tk, NEW fl, HeapOK(h),
           NEW k \in 1 .. n, RingOK(f, n, h, hd, tk, fl, {k - 1}), h.state[f[k]] = 0
    PROVE  MergedPrev(MergePrev(h, f[k]), hd, tk, fl, BytesOf(f, n, h))
<1> SUFFICES ASSUME NEW b, b = f[k], NEW p, p = h.prev[b],
                    NEW g, g = MergePrev(h, b)
             PROVE  /\ HeapOK(g)
                    /\ \E e, m : /\ RingOK(e, m, g, hd, tk, fl, {})
                                 /\ BytesOf(e, m, g) = BytesOf(f, n, h)
  BY DEF MergedPrev
<1>1. /\ n \in Nat /\ f \in [0 .. n + 1 -> Blocks] /\ f[0] = BlockHead
      /\ \A i \in 0 .. n : h.prev[f[i + 1]] = f[i]
  BY DEF RingOK, RingOf
<1>2. /\ k - 1 \in 0 .. n /\ (k - 1) + 1 = k /\ k \in 0 .. n /\ p = f[k - 1]
      /\ b \in Blocks /\ p \in Blocks
  <2>1. k - 1 \in 0 .. n /\ (k - 1) + 1 = k /\ k \in 0 .. n
    BY <1>1
  <2> QED  BY <1>1, <2>1
<1>3. CASE p # BlockHead /\ h.state[p] = 0
  <2>1. g = Absorb(h, p, b)
    BY <1>3 DEF MergePrev
  <2>2. HeapOK(g)
    <3>1. Absorbed(g, h, p, b)
      BY <1>2, <1>3, <2>1, AbsorbFields
    <3> QED  BY <3>1 DEF Absorbed
  <2>3. PICK l \in 1 .. n - 1 : l = k - 1
    BY <1>1, <1>2, <1>3
  <2>4. l + 1 = k /\ f[l] = p /\ f[l + 1] = b
    BY <1>2, <2>3
  <2>5. RingOK(f, n, h, hd, tk, fl, {l})
    BY <2>3
  <2>6. {l} \subseteq {l - 1, l} /\ h.state[f[l]] = 0 /\ h.state[f[l + 1]] = 0
    BY <1>3, <2>4
  <2>7. RingOK(Removed(f, n, l + 1), n - 1, Absorb(h, f[l], f[l + 1]), hd, tk, fl, {l} \ {l})
    BY <2>5, <2>6, AbsorbRing
  <2>8. {l} \ {l} = {}
    OBVIOUS
  <2>9. BytesOf(Removed(f, n, l + 1), n - 1, Absorb(h, f[l], f[l + 1])) = BytesOf(f, n, h)
    BY AbsorbBytes DEF RingOK
  <2> QED  BY <2>1, <2>2, <2>4, <2>7, <2>8, <2>9
<1>4. CASE ~(p # BlockHead /\ h.state[p] = 0)
  <2>1. g = h
    BY <1>4 DEF MergePrev
  <2>2. h.state[p] = 1
    BY <1>2, <1>4 DEF HeapOK
  <2>3. Apart(f, n, h, {})
    BY <1>2, <2>2 DEF RingOK, Apart
  <2> QED  BY <2>1, <2>3 DEF RingOK
<1> QED  BY <1>3, <1>4

\* The block at place k, just freed, takes in the one after it.
LEMMA FreeRight ==
    ASSUME NEW f, NEW n, NEW h, NEW hd, NEW tk, NEW fl, HeapOK(h),
           NEW k \in 1 .. n, RingOK(f, n, h, hd, tk, fl, {k - 1, k}), h.state[f[k]] = 0
    PROVE  MergedNext(MergeNext(h, f[k]), h, f[k], k, hd, tk, fl, BytesOf(f, n, h))
<1> SUFFICES ASSUME NEW b, b = f[k], NEW x, x = h.next[b],
                    NEW g, g = MergeNext(h, b)
             PROVE  /\ HeapOK(g) /\ g.state = h.state
                    /\ \E e, m : /\ RingOK(e, m, g, hd, tk, fl, {k - 1})
                                 /\ k \in 1 .. m /\ e[k] = b
                                 /\ BytesOf(e, m, g) = BytesOf(f, n, h)
  BY DEF MergedNext
<1>1. /\ n \in Nat /\ f \in [0 .. n + 1 -> Blocks] /\ f[0] = BlockHead /\ f[n + 1] = BlockHead
      /\ \A i \in 0 .. n : h.next[f[i]] = f[i + 1]
      /\ \A i, j \in 0 .. n : f[i] = f[j] => i = j
  BY DEF RingOK, RingOf
<1>2. k \in 0 .. n /\ k # 0
  BY <1>1
<1>3. x = f[k + 1] /\ b \in Blocks /\ x \in Blocks /\ b # BlockHead
  BY <1>1, <1>2
<1>4. CASE x # BlockHead /\ h.state[x] = 0
  <2>1. g = Absorb(h, b, x)
    BY <1>4 DEF MergeNext
  <2>2. HeapOK(g) /\ g.state = h.state
    <3>1. Absorbed(g, h, b, x)
      BY <1>3, <2>1, AbsorbFields
    <3> QED  BY <3>1 DEF Absorbed
  <2>3. k \in 1 .. n - 1
    BY <1>1, <1>3, <1>4
  <2>4. /\ {k - 1, k} \subseteq {k - 1, k} /\ h.state[f[k + 1]] = 0
        /\ {k - 1, k} \ {k} = {k - 1}
    BY <1>3, <1>4, <2>3
  <2>5. RingOK(Removed(f, n, k + 1), n - 1, Absorb(h, f[k], f[k + 1]), hd, tk, fl,
               {k - 1, k} \ {k})
    BY <2>3, <2>4, AbsorbRing
  <2>6. Removed(f, n, k + 1)[k] = f[k]
    BY <1>1, <1>2 DEF Removed
  <2>7. BytesOf(Removed(f, n, k + 1), n - 1, Absorb(h, f[k], f[k + 1])) = BytesOf(f, n, h)
    BY <2>3, AbsorbBytes DEF RingOK
  <2> QED  BY <1>3, <2>1, <2>2, <2>3, <2>4, <2>5, <2>6, <2>7
<1>5. CASE ~(x # BlockHead /\ h.state[x] = 0)
  <2>1. g = h
    BY <1>5 DEF MergeNext
  <2>2. h.state[x] = 1
    BY <1>3, <1>5 DEF HeapOK
  <2>3. Apart(f, n, h, {k - 1})
    BY <1>3, <2>2 DEF RingOK, Apart
  <2> QED  BY <2>1, <2>3 DEF RingOK
<1> QED  BY <1>4, <1>5

LEMMA FreeKeeps ==
    ASSUME IInv, NEW b \in Blocks, KHeap_Free(b)
    PROVE  /\ TypeOK'
           /\ \E f, n, e, m : /\ RingOK(f, n, heap, held, taken, failures, {})
                             /\ RingOK(e, m, heap', held', taken', failures', {})
                             /\ BytesOf(e, m, heap') = BytesOf(f, n, heap)
<1>1. /\ Running /\ HeapOK(heap) /\ held[b] # 0
      /\ held \in [Blocks -> Requests \cup {0}]
  BY DEF KHeap_Free, IInv, TypeOK, HeapOK
<1>2. PICK f, n : RingOK(f, n, heap, held, taken, failures, {})
  BY <1>1 DEF IInv
<1>3. /\ n \in Nat /\ f \in [0 .. n + 1 -> Blocks] /\ f[0] = BlockHead
      /\ \A i, j \in 0 .. n : f[i] = f[j] => i = j
  BY <1>2 DEF RingOK, RingOf
<1>4. PICK k \in 1 .. n : f[k] = b
  BY <1>1, <1>2 DEF RingOK, HeldOnRing
<1>5. b # BlockHead
  BY <1>3, <1>4
<1>6. PICK h : h = [heap EXCEPT !.state[b] = 0]
  OBVIOUS
<1>7. /\ h.next = heap.next /\ h.prev = heap.prev /\ h.size = heap.size
      /\ h.state = [heap.state EXCEPT ![b] = 0]
      /\ h = [next |-> heap.next, prev |-> heap.prev, size |-> heap.size,
              state |-> [heap.state EXCEPT ![b] = 0]]
  BY <1>1, <1>6 DEF HeapOK
<1>8. /\ \A c \in Blocks : h.state[c] = IF c = b THEN 0 ELSE heap.state[c]
      /\ h.state \in [Blocks -> {0, 1}]
  BY <1>1, <1>7 DEF HeapOK
<1>9. HeapOK(h)
  <2>1. h.state[BlockHead] = 1
    BY <1>1, <1>5, <1>8, BlockNames DEF HeapOK
  <2> QED  BY <1>1, <1>7, <1>8, <2>1 DEF HeapOK
<1>10. held' = [held EXCEPT ![b] = 0] /\ taken' = taken /\ failures' = failures
  BY DEF KHeap_Free
<1>11. \A c \in Blocks : held'[c] = IF c = b THEN 0 ELSE held[c]
  BY <1>1, <1>10
<1>12. RingOK(f, n, h, held', taken, failures, {k - 1, k})
  <2>1. \A i \in 0 .. n : f[i] \in Blocks /\ f[i + 1] \in Blocks
    BY <1>3
  <2>2. Apart(f, n, h, {k - 1, k})
    <3> SUFFICES ASSUME NEW i \in 0 .. n, i # k - 1, i # k
                 PROVE  h.state[f[i]] = 1 \/ h.state[f[i + 1]] = 1
      BY DEF Apart
    <3>1. heap.state[f[i]] = 1 \/ heap.state[f[i + 1]] = 1
      BY <1>2 DEF RingOK, Apart
    <3>2. f[i] # b
      BY <1>3, <1>4
    <3>3. f[i + 1] # b
      <4>1. CASE i = n
        BY <1>2, <1>3, <1>5, <4>1 DEF RingOK, RingOf
      <4>2. CASE i # n
        BY <1>3, <1>4, <4>2
      <4> QED  BY <4>1, <4>2
    <3> QED  BY <1>8, <2>1, <3>1, <3>2, <3>3
  <2>3. InUse(f, n, h, held')
    <3>1. \A i \in 1 .. n : f[i] \in Blocks
      BY <1>3
    <3>2. \A i \in 1 .. n : held[f[i]] # 0 <=> heap.state[f[i]] = 1
      BY <1>2 DEF RingOK, InUse
    <3>3. ASSUME NEW i \in 1 .. n PROVE held'[f[i]] # 0 <=> h.state[f[i]] = 1
      <4>1. CASE f[i] = b
        BY <1>8, <1>11, <3>1, <4>1
      <4>2. CASE f[i] # b
        BY <1>8, <1>11, <3>1, <3>2, <4>2
      <4> QED  BY <4>1, <4>2
    <3> QED  BY <3>3 DEF InUse
  <2>4. HeldOnRing(f, n, h, held')
    BY <1>2, <1>7, <1>11 DEF RingOK, HeldOnRing
  <2> QED  BY <1>2, <1>7, <2>2, <2>3, <2>4 DEF RingOK
<1>13. PICK g : g = MergeNext(h, b)
  OBVIOUS
<1>14. heap' = MergePrev(g, b)
  BY <1>6, <1>13 DEF KHeap_Free, MergeNext, MergePrev
<1>15. h.state[f[k]] = 0
  BY <1>4, <1>8
<1>16. MergedNext(g, h, b, k, held', taken, failures, BytesOf(f, n, h))
  BY <1>4, <1>9, <1>12, <1>13, <1>15, FreeRight
<1>17. PICK e, m : /\ RingOK(e, m, g, held', taken, failures, {k - 1})
                   /\ k \in 1 .. m /\ e[k] = b
                   /\ BytesOf(e, m, g) = BytesOf(f, n, h)
  BY <1>16 DEF MergedNext
<1>18. HeapOK(g) /\ g.state[e[k]] = 0
  BY <1>8, <1>16, <1>17 DEF MergedNext
<1>19. MergedPrev(heap', held', taken, failures, BytesOf(e, m, g))
  <2>1. MergedPrev(MergePrev(g, e[k]), held', taken, failures, BytesOf(e, m, g))
    BY <1>17, <1>18, FreeLeft
  <2> QED  BY <1>14, <1>17, <2>1
<1>20. HeapOK(heap')
       /\ \E c, l : /\ RingOK(c, l, heap', held', taken, failures, {})
                    /\ BytesOf(c, l, heap') = BytesOf(e, m, g)
  BY <1>19 DEF MergedPrev
<1>21. TypeOK'
  <2>1. held' \in [Blocks -> Requests \cup {0}]
    BY <1>1, <1>10
  <2> QED  BY <1>10, <1>20, <2>1 DEF IInv, TypeOK, HeapOK
<1>22. BytesOf(f, n, h) = BytesOf(f, n, heap)
  BY <1>7 DEF BytesOf
<1> QED  BY <1>2, <1>10, <1>17, <1>20, <1>21, <1>22

LEMMA FreeOK ==
    ASSUME IInv, NEW b \in Blocks, KHeap_Free(b) PROVE IInv'
BY FreeKeeps DEF IInv

-----------------------------------------------------------------------------
(***************************************************************************)
(* The theorems                                                            *)
(***************************************************************************)

\* Every call keeps the ring a ring, and its blocks apart.
THEOREM IInvHolds == Spec => []IInv
<1>1. IInv /\ [Next]_vars => IInv'
  <2> SUFFICES ASSUME IInv, [Next]_vars PROVE IInv'
    OBVIOUS
  <2>1. ASSUME NEW size \in Requests, Reuse(size) PROVE IInv'
    BY <2>1, ReuseOK
  <2>2. ASSUME NEW size \in Requests, Extend(size) PROVE IInv'
    BY <2>2, ExtendOK
  <2>3. ASSUME NEW b \in Blocks, KHeap_Free(b) PROVE IInv'
    BY <2>3, FreeOK
  <2>4. CASE UNCHANGED vars
    BY <2>4 DEF vars, IInv, TypeOK, Running
  <2> QED  BY <2>1, <2>2, <2>3, <2>4 DEF Next
<1> QED  BY <1>1, InitOK, PTL DEF Spec

\* The fields of the heap's blocks keep their types, the head is in use for
\* good, and what callers hold is what was asked for.
THEOREM HeapTypeCorrect == Spec => []TypeOK
<1>1. IInv => TypeOK
  BY DEF IInv
<1> QED  BY <1>1, IInvHolds, PTL

\* As long as Pmm has failed at most once, the ring is doubly linked and the
\* search from the head comes back to it.
THEOREM RingStaysClosed == Spec => []RingClosed
<1>1. ASSUME IInv PROVE RingClosed
  <2> SUFFICES ASSUME Running
               PROVE  /\ \A b \in Ring : heap.next[heap.prev[b]] = b
                                         /\ heap.prev[heap.next[b]] = b
                      /\ \E k \in 1 .. Cardinality(Blocks) : At[k] = BlockHead
    BY DEF RingClosed
  <2>1. heap.next \in [Blocks -> Blocks]
    BY <1>1 DEF IInv, TypeOK
  <2>2. PICK f, n : RingOf(f, n, heap.next, heap.prev)
    BY <1>1 DEF IInv, RingOK
  <2>3. /\ n \in Nat /\ f[0] = BlockHead /\ f[n + 1] = BlockHead
        /\ \A i \in 0 .. n : heap.next[f[i]] = f[i + 1] /\ heap.prev[f[i + 1]] = f[i]
    BY <2>2 DEF RingOf
  <2>4. n + 1 =< Cardinality(Blocks) /\ \A k \in 0 .. n + 1 : At[k] = f[k]
    BY <2>1, <2>2, RingAt
  <2>5. n + 1 \in 1 .. Cardinality(Blocks) /\ At[n + 1] = BlockHead
    BY <2>3, <2>4, BlocksFinite
  <2>6. ASSUME NEW b \in Ring
        PROVE  heap.next[heap.prev[b]] = b /\ heap.prev[heap.next[b]] = b
    <3>1. PICK k \in 0 .. n : b = f[k]
      BY <2>1, <2>2, RingMembers DEF Members
    <3>2. heap.prev[heap.next[b]] = b
      BY <2>3, <3>1
    <3>3. PICK i \in 0 .. n : b = f[i + 1]
      <4>1. CASE k = 0
        <5>1. n \in 0 .. n /\ b = f[n + 1]
          BY <2>3, <3>1, <4>1
        <5> QED  BY <5>1
      <4>2. CASE k # 0
        <5>1. k - 1 \in 0 .. n /\ (k - 1) + 1 = k
          BY <2>3, <4>2
        <5> QED  BY <3>1, <5>1
      <4> QED  BY <4>1, <4>2
    <3> QED  BY <2>3, <3>2, <3>3
  <2> QED  BY <2>5, <2>6
<1> QED  BY <1>1, IInvHolds, PTL

\* What callers hold is what is in use: nothing is handed out twice, and no
\* block that was merged into another is.
THEOREM HeldIsInUse == Spec => []HeldMatchesState
<1>1. ASSUME IInv PROVE HeldMatchesState
  <2> SUFFICES ASSUME Running
               PROVE  /\ \A b \in Blocks : held[b] # 0 => b \in Ring /\ heap.size[b] >= held[b]
                      /\ \A b \in Ring \ {BlockHead} : held[b] # 0 <=> heap.state[b] = 1
    BY DEF HeldMatchesState
  <2>1. heap.next \in [Blocks -> Blocks]
    BY <1>1 DEF IInv, TypeOK
  <2>2. PICK f, n : RingOK(f, n, heap, held, taken, failures, {})
    BY <1>1 DEF IInv
  <2>3. Ring = {f[k] : k \in 0 .. n} /\ n \in Nat /\ f[0] = BlockHead
    <3>1. RingOf(f, n, heap.next, heap.prev)
      BY <2>2 DEF RingOK
    <3>2. Ring = {f[k] : k \in 0 .. n}
      BY <2>1, <3>1, RingMembers DEF Members
    <3> QED  BY <3>1, <3>2 DEF RingOf
  <2>4. ASSUME NEW b \in Blocks, held[b] # 0 PROVE b \in Ring /\ heap.size[b] >= held[b]
    <3>1. PICK i \in 1 .. n : f[i] = b /\ heap.size[b] >= held[b]
      BY <2>2, <2>4 DEF RingOK, HeldOnRing
    <3>2. i \in 0 .. n
      BY <2>3
    <3> QED  BY <2>3, <3>1, <3>2
  <2>5. ASSUME NEW b \in Ring \ {BlockHead} PROVE held[b] # 0 <=> heap.state[b] = 1
    <3>1. PICK k \in 0 .. n : b = f[k]
      BY <2>3
    <3>2. k \in 1 .. n
      BY <2>3, <2>5, <3>1
    <3> QED  BY <2>2, <3>1, <3>2 DEF RingOK, InUse
  <2> QED  BY <2>4, <2>5
<1> QED  BY <1>1, IInvHolds, PTL

\* Free neighbours are always merged.
THEOREM FreeIsMerged == Spec => []FreeCoalesced
<1>1. ASSUME IInv PROVE FreeCoalesced
  <2> SUFFICES ASSUME Running, NEW b \in Ring
               PROVE  ~(heap.state[b] = 0 /\ heap.state[heap.next[b]] = 0)
    BY DEF FreeCoalesced
  <2>1. heap.next \in [Blocks -> Blocks]
    BY <1>1 DEF IInv, TypeOK
  <2>2. PICK f, n : RingOK(f, n, heap, held, taken, failures, {})
    BY <1>1 DEF IInv
  <2>3. PICK k \in 0 .. n : b = f[k]
    BY <2>1, <2>2, RingMembers DEF RingOK, Members
  <2>4. heap.next[b] = f[k + 1]
    BY <2>2, <2>3 DEF RingOK, RingOf
  <2>5. heap.state[f[k]] = 1 \/ heap.state[f[k + 1]] = 1
    BY <2>2 DEF RingOK, Apart
  <2> QED  BY <2>3, <2>4, <2>5
<1> QED  BY <1>1, IInvHolds, PTL

\* The numbering of the ring gives its bytes.
LEMMA BytesAreOf ==
    \A f, n :
        heap.next \in [Blocks -> Blocks] /\ RingOf(f, n, heap.next, heap.prev)
            => RingBytes = BytesOf(f, n, heap)
BY RingMembers DEF RingBytes, BytesOf, Total

\* Neither reuse nor merging makes or loses bytes.
THEOREM BytesAreConserved == Spec => BytesConserved
<1> DEFINE BytesKnown ==
        \A f, n :
            heap.next \in [Blocks -> Blocks] /\ RingOf(f, n, heap.next, heap.prev)
                => RingBytes = BytesOf(f, n, heap)
<1>1. BytesKnown
  BY BytesAreOf
<1>2. ASSUME IInv, IInv', BytesKnown, BytesKnown', [Next]_vars
      PROVE  [taken' = taken /\ failures' = failures => RingBytes' = RingBytes]_vars
  <2> SUFFICES ASSUME Next, taken' = taken, failures' = failures
               PROVE  RingBytes' = RingBytes
    BY <1>2
  <2>1. heap.next \in [Blocks -> Blocks] /\ heap'.next \in [Blocks -> Blocks]
    BY <1>2 DEF IInv, TypeOK
  <2>2. ASSUME NEW size \in Requests, Reuse(size) PROVE RingBytes' = RingBytes
    <3>1. PICK f, n : RingOf(f, n, heap.next, heap.prev)
      BY <1>2, <2>2 DEF Reuse, IInv, RingOK
    <3>2. heap'.next = heap.next /\ heap'.prev = heap.prev /\ heap'.size = heap.size
      BY <1>2, <2>2 DEF Reuse, IInv, TypeOK
    <3>3. BytesOf(f, n, heap') = BytesOf(f, n, heap)
      BY <3>2 DEF BytesOf
    <3>4. RingBytes = BytesOf(f, n, heap)
      BY <1>2, <2>1, <3>1
    <3>5. RingBytes' = BytesOf(f, n, heap')
      BY <1>2, <2>1, <3>1, <3>2
    <3> QED  BY <3>3, <3>4, <3>5
  <2>3. ASSUME NEW size \in Requests, Extend(size) PROVE FALSE
    <3>1. taken \in Nat /\ failures \in Nat
      BY <1>2, BlockNames DEF IInv, TypeOK
    <3> QED  BY <2>3, <3>1 DEF Extend
  <2>4. ASSUME NEW b \in Blocks, KHeap_Free(b) PROVE RingBytes' = RingBytes
    <3>1. PICK f, n, e, m : /\ RingOK(f, n, heap, held, taken, failures, {})
                            /\ RingOK(e, m, heap', held', taken', failures', {})
                            /\ BytesOf(e, m, heap') = BytesOf(f, n, heap)
      BY <1>2, <2>4, FreeKeeps
    <3>2. RingBytes = BytesOf(f, n, heap)
      BY <1>2, <2>1, <3>1 DEF RingOK
    <3>3. RingBytes' = BytesOf(e, m, heap')
      BY <1>2, <2>1, <3>1 DEF RingOK
    <3> QED  BY <3>1, <3>2, <3>3
  <2> QED  BY <2>2, <2>3, <2>4 DEF Next
<1> QED  BY <1>1, <1>2, IInvHolds, PTL DEF Spec, BytesConserved

=============================================================================
