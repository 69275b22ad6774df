----------------------------- MODULE PmmProofs -----------------------------
(***************************************************************************)
(* Proofs about Pmm, for every memory map, page size and size of request.  *)
(***************************************************************************)
EXTENDS Pmm, Totals, TLAPS

-----------------------------------------------------------------------------
(***************************************************************************)
(* Pages                                                                   *)
(***************************************************************************)

\* The sizes of the model are natural numbers, and a page is not empty.
LEMMA Units ==
    /\ PageSize \in Nat \ {0} /\ Hdr \in Nat \ {0} /\ StackSize \in Nat
    /\ Requests \subseteq Nat \ {0}
BY PmmAssumption

\* Multiples of the page size have a quotient.
LEMMA Multiple ==
    ASSUME NEW a \in Int, a % PageSize = 0
    PROVE  \E q \in Int : a = q * PageSize
BY Units

\* The remainder is determined by the page.
LEMMA Remainder ==
    ASSUME NEW a \in Int, NEW q \in Int, NEW r \in 0 .. PageSize - 1,
           a = q * PageSize + r
    PROVE  a % PageSize = r
BY Units

\* Without its remainder an address is a multiple ...
LEMMA Rounded == ASSUME NEW a \in Nat PROVE PageOf(a) % PageSize = 0
BY Units DEF PageOf

\* ... and nothing is carried while the remainder stays below the page size.
LEMMA NoCarry ==
    ASSUME NEW a \in Int, NEW d \in 0 .. PageSize - 1, (a % PageSize) + d < PageSize
    PROVE  (a + d) % PageSize = (a % PageSize) + d
BY Units

\* Different pages are a page apart.
LEMMA PagesApart ==
    ASSUME NEW a \in Int, NEW b \in Int,
           a % PageSize = 0, b % PageSize = 0, a < b
    PROVE  a + PageSize =< b
<1>1. PICK q \in Int : a = q * PageSize
  BY Multiple
<1>2. PICK r \in Int : b = r * PageSize
  BY Multiple
<1>3. q + 1 =< r
  <2>1. SUFFICES ASSUME r =< q PROVE FALSE
    OBVIOUS
  <2>2. r * PageSize =< q * PageSize
    BY <2>1, Units
  <2> QED  BY <2>2, <1>1, <1>2, Units
<1>4. (q + 1) * PageSize =< r * PageSize
  BY <1>3, Units
<1>5. (q + 1) * PageSize = q * PageSize + PageSize
  BY Units
<1> QED  BY <1>1, <1>2, <1>4, <1>5, Units

\* A whole number of pages further there is a page.
LEMMA PagesOn ==
    ASSUME NEW a \in Int, a % PageSize = 0, NEW k \in Int
    PROVE  (a + k * PageSize) % PageSize = 0
<1>1. PICK q \in Int : a = q * PageSize
  BY Multiple
<1>2. a + k * PageSize = (q + k) * PageSize + 0
  BY <1>1, Units
<1> QED  BY <1>2, Remainder, Units

Offset(addr) == addr % PageSize

\* An address is its page and its offset in it.
LEMMA PageAndOffset ==
    ASSUME NEW a \in Nat
    PROVE  /\ Offset(a) \in 0 .. PageSize - 1
           /\ PageOf(a) \in Nat /\ PageOf(a) % PageSize = 0
           /\ a = PageOf(a) + Offset(a)
<1>1. a % PageSize \in 0 .. PageSize - 1 /\ a % PageSize =< a
  BY Units
<1>2. PICK o \in 0 .. PageSize - 1 : o = a % PageSize
  BY <1>1
<1>3. o \in Nat /\ a - o \in Nat /\ a = a - o + o
  BY <1>1, <1>2, Units
<1>4. PageOf(a) = a - o /\ Offset(a) = o
  BY <1>2 DEF Offset, PageOf
<1>5. PageOf(a) % PageSize = 0
  BY Rounded
<1> QED  BY <1>2, <1>3, <1>4, <1>5

\* The offset of an address is a natural number.
LEMMA OffsetType == \A a \in Nat : Offset(a) \in Nat
<1> SUFFICES ASSUME NEW a \in Nat PROVE Offset(a) \in Nat
  OBVIOUS
<1>1. Offset(a) \in 0 .. PageSize - 1
  BY PageAndOffset
<1> QED  BY <1>1, Units

\* A page is its own page, at offset 0.
LEMMA PageOfPage ==
    ASSUME NEW a \in Nat, a % PageSize = 0
    PROVE  Offset(a) = 0 /\ PageOf(a) = a
BY DEF Offset, PageOf

\* Within the page a step changes the offset only.
LEMMA StepInPage ==
    ASSUME NEW a \in Nat, NEW d \in Nat, Offset(a) + d < PageSize
    PROVE  Offset(a + d) = Offset(a) + d /\ PageOf(a + d) = PageOf(a)
<1>1. PICK o : o = a % PageSize
  OBVIOUS
<1>2. o \in 0 .. PageSize - 1
  BY <1>1, Units
<1>3. o + d < PageSize
  BY <1>1 DEF Offset
<1>4. d \in 0 .. PageSize - 1
  BY <1>2, <1>3, Units
<1>5. (a % PageSize) + d < PageSize
  BY <1>1, <1>3
<1>6. (a + d) % PageSize = (a % PageSize) + d
  BY <1>4, <1>5, NoCarry
<1>7. a + d - (o + d) = a - o
  BY <1>2
<1> QED  BY <1>1, <1>6, <1>7 DEF Offset, PageOf

-----------------------------------------------------------------------------
(***************************************************************************)
(* The page stack at the start.  FlattenSeq is a recursive function: the   *)
(* function that it is a value of exists.                                  *)
(***************************************************************************)

IsFlat(f, seqs, m) ==
    f = [i \in 1 .. m |-> IF i = 1 THEN seqs[i] ELSE f[i - 1] \o seqs[i]]

\* That function is defined on every number of sequences.
LEMMA FlatExists ==
    ASSUME NEW seqs, NEW n \in Nat
    PROVE  \E f : IsFlat(f, seqs, n)
<1>1. PICK U : U = {m \in Nat : ~ \E f : IsFlat(f, seqs, m)}
  OBVIOUS
<1> SUFFICES ASSUME U # {} PROVE FALSE
  BY <1>1
<1>2. PICK m \in U : \A k \in U : m =< k
  BY <1>1, Least
<1>3. m \in Nat /\ ~ \E f : IsFlat(f, seqs, m)
  BY <1>1, <1>2
<1>4. m # 0
  <2>1. SUFFICES ASSUME m = 0 PROVE FALSE
    OBVIOUS
  <2>2. PICK f : f = [i \in {} |-> 0]
    OBVIOUS
  <2>3. 1 .. m = {}
    BY <2>1
  <2>4. IsFlat(f, seqs, m)
    BY <2>2, <2>3 DEF IsFlat
  <2> QED  BY <2>4, <1>3
<1>5. m - 1 \in Nat /\ ~(m =< m - 1)
  BY <1>3, <1>4
<1>6. PICK f : IsFlat(f, seqs, m - 1)
  BY <1>1, <1>2, <1>5
<1>7. PICK g : g = [i \in 1 .. m |-> IF i = 1 THEN seqs[i] ELSE f[i - 1] \o seqs[i]]
  OBVIOUS
<1>8. ASSUME NEW i \in 1 .. m - 1 PROVE g[i] = f[i]
  <2>1. i \in 1 .. m
    BY <1>3
  <2>2. g[i] = IF i = 1 THEN seqs[i] ELSE f[i - 1] \o seqs[i]
    BY <1>7, <2>1
  <2>3. f[i] = IF i = 1 THEN seqs[i] ELSE f[i - 1] \o seqs[i]
    BY <1>6 DEF IsFlat
  <2> QED  BY <2>2, <2>3
<1>9. ASSUME NEW i \in 1 .. m, i # 1 PROVE f[i - 1] = g[i - 1]
  <2>1. i - 1 \in 1 .. m - 1
    BY <1>3, <1>9
  <2> QED  BY <2>1, <1>8
<1>10. g = [i \in 1 .. m |-> IF i = 1 THEN seqs[i] ELSE g[i - 1] \o seqs[i]]
  BY <1>7, <1>9
<1> QED  BY <1>10, <1>3 DEF IsFlat

\* c is a, then b
Joins(c, a, b) ==
    /\ Len(a) \in Nat /\ Len(b) \in Nat /\ Len(c) = Len(a) + Len(b)
    /\ \A k \in 1 .. Len(a) : c[k] = a[k]
    /\ \A k \in Len(a) + 1 .. Len(c) : k - Len(a) \in 1 .. Len(b) /\ c[k] = b[k - Len(a)]

\* A concatenation has the elements of both sequences, in their order.
LEMMA Joined ==
    ASSUME NEW S, NEW a \in Seq(S), NEW b \in Seq(S)
    PROVE  a \o b \in Seq(S) /\ Joins(a \o b, a, b)
<1>1. a \o b \in Seq(S)
  OBVIOUS
<1>2. Len(a) \in Nat /\ Len(b) \in Nat /\ Len(a \o b) = Len(a) + Len(b)
  OBVIOUS
<1>3. \A k \in 1 .. Len(a) : (a \o b)[k] = a[k]
  BY <1>2
<1>4. \A k \in Len(a) + 1 .. Len(a \o b) :
         k - Len(a) \in 1 .. Len(b) /\ (a \o b)[k] = b[k - Len(a)]
  BY <1>2
<1> QED  BY <1>1, <1>2, <1>3, <1>4 DEF Joins

\* f lists, without repetition, what the first i sequences list
ListsUpTo(f, seqs, i) ==
    /\ f[i] \in Seq(Nat)
    /\ \A k \in 1 .. Len(f[i]) : \E e \in 1 .. i : f[i][k] \in ToSet(seqs[e])
    /\ \A k, l \in 1 .. Len(f[i]) : f[i][k] = f[i][l] => k = l

\* The sequences list different things, each of them once.
Apart(seqs) ==
    /\ seqs \in Seq(Seq(Nat))
    /\ \A e \in DOMAIN seqs : \A k, l \in 1 .. Len(seqs[e]) :
          seqs[e][k] = seqs[e][l] => k = l
    /\ \A d, e \in DOMAIN seqs : d # e => ToSet(seqs[d]) \cap ToSet(seqs[e]) = {}

\* By induction on the number of sequences.
LEMMA FlatLists ==
    ASSUME NEW seqs, Apart(seqs), NEW n \in Nat, n =< Len(seqs),
           NEW f, IsFlat(f, seqs, n)
    PROVE  \A i \in 1 .. n : ListsUpTo(f, seqs, i)
<1>1. PICK U : U = {i \in 1 .. n : ~ListsUpTo(f, seqs, i)}
  OBVIOUS
<1> SUFFICES ASSUME U # {} PROVE FALSE
  BY <1>1
<1>2. U \in SUBSET Nat
  BY <1>1
<1>3. PICK i \in U : \A k \in U : i =< k
  BY <1>2, Least
<1>4. i \in 1 .. n /\ i \in Nat /\ ~ListsUpTo(f, seqs, i)
  BY <1>1, <1>3
<1>5. seqs \in Seq(Seq(Nat)) /\ i \in DOMAIN seqs /\ seqs[i] \in Seq(Nat)
  BY <1>4 DEF Apart
<1>6. f[i] = IF i = 1 THEN seqs[i] ELSE f[i - 1] \o seqs[i]
  BY <1>4 DEF IsFlat
<1>7. \A k \in 1 .. Len(seqs[i]) : seqs[i][k] \in ToSet(seqs[i])
  BY <1>5 DEF ToSet
<1>8. CASE i = 1
  <2>1. f[i] = seqs[i]
    BY <1>6, <1>8
  <2>2. \A k, l \in 1 .. Len(seqs[i]) : seqs[i][k] = seqs[i][l] => k = l
    BY <1>5 DEF Apart
  <2>3. i \in 1 .. i
    BY <1>4
  <2> QED  BY <2>1, <2>2, <2>3, <1>4, <1>5, <1>7 DEF ListsUpTo
<1>9. CASE i # 1
  <2>1. i - 1 \in 1 .. n /\ ~(i =< i - 1)
    BY <1>4, <1>9
  <2>2. ListsUpTo(f, seqs, i - 1)
    BY <1>1, <1>3, <2>1
  <2>3. PICK a \in Seq(Nat) : a = f[i - 1]
    BY <2>2 DEF ListsUpTo
  <2>4. PICK b \in Seq(Nat) : b = seqs[i]
    BY <1>5
  <2>5. f[i] = a \o b
    BY <1>6, <1>9, <2>3, <2>4
  <2>6. PICK c : c = a \o b
    OBVIOUS
  <2>7. c \in Seq(Nat) /\ Joins(c, a, b)
    BY <2>3, <2>4, <2>6, Joined
  <2>8. /\ Len(a) \in Nat /\ Len(b) \in Nat /\ Len(c) = Len(a) + Len(b)
        /\ \A k \in 1 .. Len(c) :
              IF k =< Len(a) THEN k \in 1 .. Len(a) /\ c[k] = a[k]
                             ELSE k - Len(a) \in 1 .. Len(b) /\ c[k] = b[k - Len(a)]
    <3>1. Len(a) \in Nat /\ Len(b) \in Nat /\ Len(c) = Len(a) + Len(b)
      BY <2>7 DEF Joins
    <3>2. ASSUME NEW k \in 1 .. Len(c), k =< Len(a)
          PROVE  k \in 1 .. Len(a) /\ c[k] = a[k]
      BY <3>1, <3>2, <2>7 DEF Joins
    <3>3. ASSUME NEW k \in 1 .. Len(c), ~(k =< Len(a))
          PROVE  k - Len(a) \in 1 .. Len(b) /\ c[k] = b[k - Len(a)]
      <4>1. k \in Len(a) + 1 .. Len(c)
        BY <3>1, <3>3
      <4> QED  BY <4>1, <2>7 DEF Joins
    <3> QED  BY <3>1, <3>2, <3>3
  <2>9. ASSUME NEW k \in 1 .. Len(a) PROVE \E e \in 1 .. i - 1 : a[k] \in ToSet(seqs[e])
    BY <2>2, <2>3 DEF ListsUpTo
  <2>10. ASSUME NEW k \in 1 .. Len(b) PROVE b[k] \in ToSet(seqs[i])
    BY <1>7, <2>4
  <2>11. ASSUME NEW k \in 1 .. Len(a), NEW l \in 1 .. Len(b) PROVE a[k] # b[l]
    <3>1. PICK e \in 1 .. i - 1 : a[k] \in ToSet(seqs[e])
      BY <2>9
    <3>2. e \in DOMAIN seqs /\ e # i
      BY <1>4, <1>5
    <3>3. ToSet(seqs[e]) \cap ToSet(seqs[i]) = {}
      BY <3>2, <1>5 DEF Apart
    <3> QED  BY <3>1, <3>3, <2>10
  <2>12. ASSUME NEW k \in 1 .. Len(c) PROVE \E e \in 1 .. i : c[k] \in ToSet(seqs[e])
    <3>1. CASE k =< Len(a)
      <4>1. PICK e \in 1 .. i - 1 : a[k] \in ToSet(seqs[e])
        BY <2>8, <2>9, <3>1
      <4>2. e \in 1 .. i
        BY <1>4
      <4> QED  BY <4>1, <4>2, <2>8, <3>1
    <3>2. CASE ~(k =< Len(a))
      <4>1. c[k] \in ToSet(seqs[i])
        BY <2>8, <2>10, <3>2
      <4>2. i \in 1 .. i
        BY <1>4
      <4> QED  BY <4>1, <4>2
    <3> QED  BY <3>1, <3>2
  <2>13. \A k, l \in 1 .. Len(a) : a[k] = a[l] => k = l
    BY <2>2, <2>3 DEF ListsUpTo
  <2>14. \A k, l \in 1 .. Len(b) : b[k] = b[l] => k = l
    BY <1>5, <2>4 DEF Apart
  <2>15. ASSUME NEW k \in 1 .. Len(c), NEW l \in 1 .. Len(c), c[k] = c[l] PROVE k = l
    <3>1. CASE k =< Len(a) /\ l =< Len(a)
      BY <3>1, <2>8, <2>13, <2>15
    <3>2. CASE k =< Len(a) /\ ~(l =< Len(a))
      BY <3>2, <2>8, <2>11, <2>15
    <3>3. CASE ~(k =< Len(a)) /\ l =< Len(a)
      BY <3>3, <2>8, <2>11, <2>15
    <3>4. CASE ~(k =< Len(a)) /\ ~(l =< Len(a))
      <4>1. k - Len(a) = l - Len(a)
        BY <3>4, <2>8, <2>14, <2>15
      <4> QED  BY <4>1, <2>8
    <3> QED  BY <3>1, <3>2, <3>3, <3>4
  <2>16. f[i] = c
    BY <2>5, <2>6
  <2> QED  BY <2>7, <2>12, <2>15, <2>16, <1>4 DEF ListsUpTo
<1> QED  BY <1>8, <1>9

\* So does the flattened sequence.
LEMMA Flattened ==
    ASSUME NEW seqs, Apart(seqs)
    PROVE  /\ FlattenSeq(seqs) \in Seq(Nat)
           /\ \A k \in 1 .. Len(FlattenSeq(seqs)) :
                 \E e \in DOMAIN seqs : FlattenSeq(seqs)[k] \in ToSet(seqs[e])
           /\ \A k, l \in 1 .. Len(FlattenSeq(seqs)) :
                 FlattenSeq(seqs)[k] = FlattenSeq(seqs)[l] => k = l
<1>1. PICK n : n = Len(seqs)
  OBVIOUS
<1>2. seqs \in Seq(Seq(Nat)) /\ n \in Nat /\ DOMAIN seqs = 1 .. n
  BY <1>1 DEF Apart
<1>3. CASE n = 0
  <2>1. FlattenSeq(seqs) = seqs /\ seqs = <<>>
    BY <1>1, <1>2, <1>3 DEF FlattenSeq
  <2> QED  BY <2>1
<1>4. CASE n # 0
  <2>1. PICK f : f = CHOOSE g : IsFlat(g, seqs, n)
    OBVIOUS
  <2>2. IsFlat(f, seqs, n)
    BY <2>1, <1>2, FlatExists
  <2>3. FlattenSeq(seqs) = f[n]
    BY <1>1, <1>4, <2>1 DEF FlattenSeq, IsFlat
  <2>4. n \in 1 .. n /\ n =< Len(seqs)
    BY <1>1, <1>2, <1>4
  <2>5. ListsUpTo(f, seqs, n)
    BY <1>2, <2>2, <2>4, FlatLists
  <2> QED  BY <1>2, <2>3, <2>5 DEF ListsUpTo
<1> QED  BY <1>3, <1>4

\* the pages of the memory map
MapPages == UNION {ToSet(PagesOf(Regions[e])) : e \in DOMAIN Regions}

\* As many pages as an entry holds fit in it.
LEMMA WholePages ==
    ASSUME NEW a \in Nat, NEW q \in Nat, q =< a \div PageSize
    PROVE  q * PageSize =< a
BY Units

\* An entry has a base, which begins a page, and a length.
LEMMA RegionType ==
    ASSUME NEW e \in DOMAIN Regions
    PROVE  /\ Regions[e].base \in Nat /\ Regions[e].length \in Nat
           /\ Regions[e].base % PageSize = 0
<1>1. PICK S : S = [base : Nat \ {0}, length : Nat]
  OBVIOUS
<1>2. Regions \in Seq(S)
  BY <1>1, PmmAssumption
<1>3. Regions[e] \in S
  BY <1>2
<1>4. Regions[e].base % PageSize = 0
  BY PmmAssumption
<1> QED  BY <1>1, <1>3, <1>4

\* An entry gives pages of its own, each of them once.
LEMMA RegionPages ==
    ASSUME NEW e \in DOMAIN Regions, NEW s, s = PagesOf(Regions[e])
    PROVE  /\ s \in Seq(Nat)
           /\ \A k \in 1 .. Len(s) :
                 /\ s[k] \in Nat /\ s[k] % PageSize = 0
                 /\ Regions[e].base =< s[k]
                 /\ s[k] < Regions[e].base + Regions[e].length
           /\ \A k, l \in 1 .. Len(s) : s[k] = s[l] => k = l
<1>1. PICK b : b = Regions[e].base
  OBVIOUS
<1>2. PICK len : len = Regions[e].length
  OBVIOUS
<1>3. b \in Nat /\ len \in Nat /\ b % PageSize = 0
  BY <1>1, <1>2, RegionType
<1>4. PICK n : n = len \div PageSize
  OBVIOUS
<1>5. n \in Nat
  BY <1>3, <1>4, Units
<1>6. s = [i \in 1 .. n |-> b + (i - 1) * PageSize]
  BY <1>1, <1>2, <1>4 DEF PagesOf
<1>7. ASSUME NEW k \in 1 .. n
      PROVE  /\ s[k] \in Nat /\ s[k] = b + (k - 1) * PageSize /\ s[k] % PageSize = 0
             /\ b =< s[k] /\ s[k] < b + len
  <2>1. PICK j \in Nat : j = k - 1
    BY <1>5
  <2>2. s[k] = b + j * PageSize
    BY <1>6, <2>1
  <2>3. j * PageSize \in Nat
    BY Units
  <2>4. k * PageSize =< len
    BY <1>3, <1>4, <1>5, WholePages
  <2>5. k * PageSize = j * PageSize + PageSize
    BY <2>1, Units
  <2>6. (b + j * PageSize) % PageSize = 0
    BY <1>3, PagesOn
  <2>7. PICK d \in Nat : d = j * PageSize
    BY <2>3
  <2>8. b + d \in Nat /\ b =< b + d /\ b + d < b + len
    BY <1>3, <2>4, <2>5, <2>7, Units
  <2> QED  BY <2>1, <2>2, <2>6, <2>7, <2>8
<1>8. s \in Seq(Nat) /\ Len(s) = n
  BY <1>5, <1>6, <1>7
<1>9. ASSUME NEW k \in 1 .. n, NEW l \in 1 .. n, k < l PROVE s[k] # s[l]
  <2>1. (k - 1) * PageSize + PageSize = k * PageSize /\ k * PageSize \in Nat
    BY <1>5, Units
  <2>2. k * PageSize =< (l - 1) * PageSize
    BY <1>5, <1>9, Units
  <2>3. (k - 1) * PageSize < (l - 1) * PageSize
    BY <2>1, <2>2, <1>5, Units
  <2>4. b + (k - 1) * PageSize # b + (l - 1) * PageSize
    BY <2>3, <1>3, <1>5, Units
  <2> QED  BY <1>7, <2>4
<1>10. ASSUME NEW k \in 1 .. n, NEW l \in 1 .. n, s[k] = s[l] PROVE k = l
  BY <1>5, <1>9, <1>10
<1> QED  BY <1>1, <1>2, <1>7, <1>8, <1>10

\* The pages are addresses of pages.
LEMMA MapPagesType == \A p \in MapPages : p \in Nat /\ p % PageSize = 0
<1> SUFFICES ASSUME NEW e \in DOMAIN Regions, NEW p \in ToSet(PagesOf(Regions[e]))
             PROVE  p \in Nat /\ p % PageSize = 0
  BY DEF MapPages
<1>1. PICK s : s = PagesOf(Regions[e])
  OBVIOUS
<1>2. PICK k \in DOMAIN s : p = s[k]
  BY <1>1 DEF ToSet
<1>3. s \in Seq(Nat)
  BY <1>1, RegionPages
<1>4. k \in 1 .. Len(s)
  BY <1>2, <1>3
<1> QED  BY <1>1, <1>2, <1>4, RegionPages

StackOK(stack) ==
    /\ stack \in Seq(Nat) /\ Len(stack) =< StackSize
    /\ ToSet(stack) \subseteq MapPages
    /\ IsInjective(stack)

\* The manager starts with different pages of the map, as many as it can hold.
LEMMA StackAtStart ==
    StackOK(PushAll(FlattenSeq([e \in DOMAIN Regions |-> PagesOf(Regions[e])])))
<1>1. PICK seqs : seqs = [e \in DOMAIN Regions |-> PagesOf(Regions[e])]
  OBVIOUS
<1>2. Regions \in Seq([base : Nat \ {0}, length : Nat])
  BY PmmAssumption
<1>3. /\ DOMAIN seqs = DOMAIN Regions
      /\ \A e \in DOMAIN Regions : seqs[e] = PagesOf(Regions[e]) /\ seqs[e] \in Seq(Nat)
  BY <1>1, RegionPages
<1>4. seqs \in Seq(Seq(Nat))
  <2>1. DOMAIN Regions = 1 .. Len(Regions) /\ Len(Regions) \in Nat
    BY <1>2
  <2> QED  BY <1>1, <1>3, <2>1
<1>5. ASSUME NEW e \in DOMAIN seqs, NEW x \in ToSet(seqs[e])
      PROVE  /\ x \in Nat
             /\ Regions[e].base =< x /\ x < Regions[e].base + Regions[e].length
  <2>1. PICK s : s = PagesOf(Regions[e])
    OBVIOUS
  <2>2. PICK k \in DOMAIN s : x = s[k]
    BY <1>3, <2>1 DEF ToSet
  <2>3. s \in Seq(Nat)
    BY <1>3, <2>1
  <2>4. k \in 1 .. Len(s)
    BY <2>2, <2>3
  <2> QED  BY <1>3, <2>1, <2>2, <2>4, RegionPages
<1>6. ASSUME NEW d \in DOMAIN seqs, NEW e \in DOMAIN seqs, d # e
      PROVE  ToSet(seqs[d]) \cap ToSet(seqs[e]) = {}
  <2>1. SUFFICES ASSUME NEW x \in ToSet(seqs[d]), x \in ToSet(seqs[e]) PROVE FALSE
    OBVIOUS
  <2>2. /\ x \in Nat
        /\ Regions[d].base =< x /\ x < Regions[d].base + Regions[d].length
        /\ Regions[e].base =< x /\ x < Regions[e].base + Regions[e].length
    BY <2>1, <1>5
  <2>3. \/ Regions[d].base + Regions[d].length =< Regions[e].base
        \/ Regions[e].base + Regions[e].length =< Regions[d].base
    BY <1>3, <1>6, PmmAssumption
  <2>4. /\ Regions[d].base \in Nat /\ Regions[d].length \in Nat
        /\ Regions[e].base \in Nat /\ Regions[e].length \in Nat
    BY <1>3, RegionType
  <2> QED  BY <2>2, <2>3, <2>4
<1>7. \A e \in DOMAIN seqs : \A k, l \in 1 .. Len(seqs[e]) : seqs[e][k] = seqs[e][l] => k = l
  BY <1>3, RegionPages
<1>8. Apart(seqs)
  BY <1>4, <1>6, <1>7 DEF Apart
<1>9. PICK all : all = FlattenSeq(seqs)
  OBVIOUS
<1>10. /\ all \in Seq(Nat)
       /\ \A k \in 1 .. Len(all) : \E e \in DOMAIN seqs : all[k] \in ToSet(seqs[e])
       /\ \A k, l \in 1 .. Len(all) : all[k] = all[l] => k = l
  BY <1>8, <1>9, Flattened
<1>11. PICK n : n = IF Len(all) < StackSize THEN Len(all) ELSE StackSize
  OBVIOUS
<1>12. n \in Nat /\ n =< Len(all) /\ n =< StackSize /\ Len(all) \in Nat
  BY <1>10, <1>11, Units
<1>13. PICK st : st = SubSeq(all, 1, n)
  OBVIOUS
<1>14. /\ st \in Seq(Nat) /\ Len(st) = n /\ DOMAIN st = 1 .. n
       /\ \A k \in 1 .. n : st[k] = all[k] /\ k \in 1 .. Len(all)
  BY <1>10, <1>12, <1>13
<1>15. ToSet(st) \subseteq MapPages
  <2>1. ASSUME NEW k \in 1 .. n PROVE st[k] \in MapPages
    <3>1. PICK e \in DOMAIN seqs : all[k] \in ToSet(seqs[e])
      BY <1>10, <1>14
    <3> QED  BY <3>1, <1>3, <1>14 DEF MapPages
  <2> QED  BY <2>1, <1>14 DEF ToSet
<1>16. IsInjective(st)
  BY <1>10, <1>14 DEF IsInjective
<1>17. st = PushAll(all)
  BY <1>11, <1>13 DEF PushAll
<1>18. StackOK(st)
  BY <1>12, <1>14, <1>15, <1>16 DEF StackOK
<1> QED  BY <1>1, <1>9, <1>17, <1>18

\* Taking the page on top leaves such a stack, without that page.
LEMMA TakePage ==
    ASSUME NEW stack, StackOK(stack), stack # <<>>
    PROVE  /\ Last(stack) \in MapPages
           /\ StackOK(Front(stack))
           /\ ToSet(Front(stack)) = ToSet(stack) \ {Last(stack)}
           /\ Last(stack) \in ToSet(stack)
           /\ Front(stack) # stack
<1>1. PICK n : n = Len(stack)
  OBVIOUS
<1>2. stack \in Seq(Nat) /\ n \in Nat \ {0} /\ DOMAIN stack = 1 .. n /\ n =< StackSize
  BY <1>1 DEF StackOK
<1>3. \A k, l \in 1 .. n : stack[k] = stack[l] => k = l
  BY <1>2 DEF StackOK, IsInjective
<1>4. PICK st : st = SubSeq(stack, 1, n - 1)
  OBVIOUS
<1>5. /\ st \in Seq(Nat) /\ Len(st) = n - 1 /\ DOMAIN st = 1 .. n - 1
      /\ \A k \in 1 .. n - 1 : st[k] = stack[k] /\ k \in 1 .. n
  BY <1>2, <1>4
<1>6. st = Front(stack) /\ Last(stack) = stack[n] /\ n \in 1 .. n
  BY <1>1, <1>2, <1>4 DEF Front, Last
<1>7. ToSet(stack) = {stack[k] : k \in 1 .. n} /\ ToSet(st) = {stack[k] : k \in 1 .. n - 1}
  BY <1>2, <1>5 DEF ToSet
<1>8. ToSet(st) = ToSet(stack) \ {stack[n]}
  <2>1. ASSUME NEW k \in 1 .. n - 1 PROVE stack[k] \in ToSet(stack) \ {stack[n]}
    <3>1. k \in 1 .. n /\ k # n
      BY <1>2
    <3> QED  BY <3>1, <1>3, <1>6, <1>7
  <2>2. ASSUME NEW k \in 1 .. n, stack[k] # stack[n] PROVE stack[k] \in ToSet(st)
    <3>1. k \in 1 .. n - 1
      BY <1>2, <2>2
    <3> QED  BY <3>1, <1>7
  <2> QED  BY <1>7, <2>1, <2>2
<1>9. IsInjective(st)
  BY <1>3, <1>5 DEF IsInjective
<1>10. stack[n] \in ToSet(stack)
  BY <1>6, <1>7
<1>11. ToSet(stack) \subseteq MapPages
  BY DEF StackOK
<1>12. n - 1 =< StackSize /\ st # stack
  BY <1>1, <1>2, <1>5, Units
<1>13. StackOK(st)
  BY <1>5, <1>8, <1>9, <1>11, <1>12 DEF StackOK
<1> QED  BY <1>6, <1>8, <1>10, <1>11, <1>12, <1>13

-----------------------------------------------------------------------------
(***************************************************************************)
(* The chain: where the bytes of each block would begin if the blocks lay  *)
(* one behind the other                                                    *)
(***************************************************************************)

Blocks == {b \in [addr : Nat, size : Nat, is_free : BOOLEAN] : b.size > Hdr}

ChainOK(chain) == chain \in Seq(Blocks)

\* v[k] is the sum of the sizes of the blocks in front of block k
Sums(chain, v) ==
    /\ v \in [1 .. Len(chain) + 1 -> Nat]
    /\ v[1] = 0
    /\ \A k \in 1 .. Len(chain) : v[k + 1] = v[k] + chain[k].size

\* What the elements of a chain are.
LEMMA ChainType ==
    ASSUME NEW chain, ChainOK(chain)
    PROVE  /\ Len(chain) \in Nat /\ DOMAIN chain = 1 .. Len(chain)
           /\ \A k \in 1 .. Len(chain) :
                 /\ chain[k] \in Blocks
                 /\ chain[k] = [addr |-> chain[k].addr, size |-> chain[k].size,
                                is_free |-> chain[k].is_free]
                 /\ chain[k].addr \in Nat /\ chain[k].size \in Nat
                 /\ chain[k].size > Hdr /\ chain[k].is_free \in BOOLEAN
<1>1. chain \in Seq(Blocks)
  BY DEF ChainOK
<1>2. Len(chain) \in Nat /\ DOMAIN chain = 1 .. Len(chain)
  BY <1>1
<1>3. \A k \in 1 .. Len(chain) : chain[k] \in Blocks
  BY <1>1
<1>4. \A b \in Blocks :
         /\ b = [addr |-> b.addr, size |-> b.size, is_free |-> b.is_free]
         /\ b.addr \in Nat /\ b.size \in Nat /\ b.size > Hdr /\ b.is_free \in BOOLEAN
  BY DEF Blocks
<1> QED  BY <1>2, <1>3, <1>4

\* A sequence of such blocks is a chain.
LEMMA IsChain ==
    ASSUME NEW c, NEW n \in Nat, c = [k \in 1 .. n |-> c[k]],
           \A k \in 1 .. n : c[k] \in Blocks
    PROVE  ChainOK(c)
BY DEF ChainOK

\* The sum of a range is the difference of the sums up to its ends.
LEMMA SumOfRange ==
    ASSUME NEW f, NEW v, NEW a \in Nat, NEW b \in Nat, a =< b,
           \A k \in a .. b : v[k] \in Nat,
           \A k \in a .. b - 1 : f[k] \in Nat /\ v[k + 1] = v[k] + f[k]
    PROVE  Total(f, a .. b - 1) = v[b] - v[a]
<1>1. PICK U : U = {m \in a .. b : Total(f, a .. m - 1) # v[m] - v[a]}
  OBVIOUS
<1> SUFFICES ASSUME U # {} PROVE FALSE
  BY <1>1
<1>2. U \in SUBSET Nat
  BY <1>1
<1>3. PICK m \in U : \A k \in U : m =< k
  BY <1>2, Least
<1>4. m \in a .. b /\ m \in Nat /\ Total(f, a .. m - 1) # v[m] - v[a]
  BY <1>1, <1>3
<1>5. m # a
  <2>1. SUFFICES ASSUME m = a PROVE FALSE
    OBVIOUS
  <2>2. a .. m - 1 = {} /\ v[m] - v[a] = 0
    BY <2>1, <1>4
  <2> QED  BY <2>2, <1>4, TotalEmpty
<1>6. m - 1 \in a .. b /\ m - 1 \in a .. b - 1 /\ ~(m =< m - 1)
  BY <1>4, <1>5
<1>7. Total(f, a .. (m - 1) - 1) = v[m - 1] - v[a]
  BY <1>1, <1>3, <1>6
<1>8. PICK S : S = a .. m - 1
  OBVIOUS
<1>9. PICK l \in Nat : l = m - 1 /\ l \in a .. b - 1
  BY <1>4, <1>6
<1>10. IsFiniteSet(S)
  BY <1>4, <1>8, FS_Interval
<1>11. l \in S /\ S \ {l} = a .. l - 1
  BY <1>4, <1>8, <1>9
<1>12. IsFiniteSet(S) /\ m - 1 \in S /\ S \ {m - 1} = a .. (m - 1) - 1
  BY <1>9, <1>10, <1>11
<1>13. \A x \in S : f[x] \in Nat
  BY <1>4, <1>8
<1>14. Total(f, S) = f[m - 1] + Total(f, S \ {m - 1})
  BY <1>12, <1>13, TotalSplit
<1>15. v[m] = v[m - 1] + f[m - 1] /\ f[m - 1] \in Nat
  <2>1. PICK k \in a .. b - 1 : k = m - 1
    BY <1>6
  <2>2. k + 1 = m
    BY <2>1, <1>4
  <2> QED  BY <2>1, <2>2
<1>16. v[m] \in Nat /\ v[m - 1] \in Nat /\ v[a] \in Nat
  BY <1>4, <1>6
<1>17. Total(f, a .. l - 1) = v[l] - v[a] /\ f[l] \in Nat /\ v[m] = v[l] + f[l]
  BY <1>7, <1>15, <1>9
<1>18. Total(f, S) = f[l] + Total(f, a .. l - 1)
  BY <1>14, <1>9, <1>11
<1>19. Total(f, S) = v[m] - v[a]
  <2>1. PICK x \in Nat, y \in Nat, z \in Nat, d \in Nat :
           x = v[m] /\ y = v[l] /\ z = v[a] /\ d = f[l]
    BY <1>16, <1>9, <1>17
  <2>2. Total(f, S) = d + (y - z) /\ x = y + d
    BY <1>17, <1>18, <2>1
  <2>3. d + (y - z) = x - z
    BY <2>2
  <2> QED  BY <2>1, <2>2, <2>3
<1> QED  BY <1>4, <1>8, <1>19

SizesOf(chain) == [k \in DOMAIN chain |-> chain[k].size]

\* The fold of SizeOf is a total.
LEMMA SizeOfIsTotal ==
    ASSUME NEW chain, NEW I
    PROVE  SizeOf(chain, I) = Total(SizesOf(chain), I)
BY DEF SizeOf, Total, SizesOf

SumsOf(chain) ==
    [k \in 1 .. Len(chain) + 1 |-> Total(SizesOf(chain), 1 .. k - 1)]

\* Every chain has its sums.
LEMMA SumsExist ==
    ASSUME NEW chain, ChainOK(chain)
    PROVE  Sums(chain, SumsOf(chain))
<1>1. PICK n : n = Len(chain)
  OBVIOUS
<1>2. PICK f : f = SizesOf(chain)
  OBVIOUS
<1>3. n \in Nat /\ \A k \in 1 .. n : f[k] = chain[k].size /\ f[k] \in Nat
  BY <1>1, <1>2, ChainType DEF SizesOf
<1>4. PICK v : v = [k \in 1 .. n + 1 |-> Total(f, 1 .. k - 1)]
  OBVIOUS
<1>5. ASSUME NEW k \in 1 .. n + 1 PROVE v[k] \in Nat
  <2>1. PICK S : S = 1 .. k - 1
    OBVIOUS
  <2>2. IsFiniteSet(S) /\ \A x \in S : f[x] \in Nat
    BY <1>3, <2>1, FS_Interval
  <2>3. Total(f, S) \in Nat
    BY <2>2, TotalType
  <2> QED  BY <1>4, <2>1, <2>3
<1>6. v[1] = 0
  <2>1. 1 \in 1 .. n + 1 /\ 1 .. 1 - 1 = {}
    BY <1>3
  <2> QED  BY <1>4, <2>1, TotalEmpty
<1>7. ASSUME NEW k \in 1 .. n PROVE v[k + 1] = v[k] + f[k]
  <2>1. PICK S : S = 1 .. k
    OBVIOUS
  <2>2. IsFiniteSet(S)
    BY <1>3, <2>1, FS_Interval
  <2>3. (\A x \in S : f[x] \in Nat) /\ k \in S /\ S \ {k} = 1 .. k - 1
    BY <1>3, <2>1
  <2>4. IsFiniteSet(S) /\ (\A x \in S : f[x] \in Nat) /\ k \in S /\ S \ {k} = 1 .. k - 1
    BY <2>2, <2>3
  <2>5. Total(f, S) = f[k] + Total(f, S \ {k})
    BY <2>4, TotalSplit
  <2>6. PICK l : l = k + 1
    OBVIOUS
  <2>7. l \in 1 .. n + 1 /\ k \in 1 .. n + 1 /\ 1 .. l - 1 = S
    BY <1>3, <2>1, <2>6
  <2>8. v[l] = Total(f, S) /\ v[k] = Total(f, S \ {k})
    BY <1>4, <2>4, <2>7
  <2>9. v[k] \in Nat /\ f[k] \in Nat
    BY <1>3, <1>5, <2>7
  <2> QED  BY <2>5, <2>6, <2>8, <2>9
<1>8. v = SumsOf(chain)
  BY <1>1, <1>2, <1>4 DEF SumsOf
<1>9. v \in [1 .. n + 1 -> Nat]
  BY <1>4, <1>5
<1> QED  BY <1>1, <1>3, <1>6, <1>7, <1>8, <1>9 DEF Sums

\* What the sums say of ranges and of all blocks, and that they increase.
LEMMA SumsGive ==
    ASSUME NEW chain, ChainOK(chain), NEW v, Sums(chain, v)
    PROVE  /\ \A i \in 1 .. Len(chain) : \A j \in i .. Len(chain) :
                 /\ SizeOf(chain, i .. j) = v[j + 1] - v[i]
                 /\ v[i] + chain[i].size =< v[j + 1]
           /\ SizeOf(chain, DOMAIN chain) = v[Len(chain) + 1]
<1>1. PICK n : n = Len(chain)
  OBVIOUS
<1>2. PICK f : f = SizesOf(chain)
  OBVIOUS
<1>3. n \in Nat /\ \A k \in 1 .. n : f[k] = chain[k].size /\ f[k] \in Nat
  BY <1>1, <1>2, ChainType DEF SizesOf
<1>4. /\ \A k \in 1 .. n + 1 : v[k] \in Nat
      /\ \A k \in 1 .. n : v[k + 1] = v[k] + f[k]
  BY <1>1, <1>3 DEF Sums
<1>5. ASSUME NEW a \in 1 .. n + 1, NEW b \in a .. n + 1
      PROVE  Total(f, a .. b - 1) = v[b] - v[a] /\ v[a] =< v[b]
  <2>1. a \in Nat /\ b \in Nat /\ a =< b
    BY <1>3
  <2>2. \A k \in a .. b : v[k] \in Nat
    BY <1>3, <1>4
  <2>3. \A k \in a .. b - 1 : f[k] \in Nat /\ v[k + 1] = v[k] + f[k]
    BY <1>3, <1>4
  <2>4. Total(f, a .. b - 1) = v[b] - v[a]
    BY <2>1, <2>2, <2>3, SumOfRange
  <2>5. PICK S : S = a .. b - 1
    OBVIOUS
  <2>6. IsFiniteSet(S) /\ \A x \in S : f[x] \in Nat
    BY <2>1, <2>3, <2>5, FS_Interval
  <2>7. Total(f, a .. b - 1) \in Nat
    BY <2>5, <2>6, TotalType
  <2>8. v[a] \in Nat /\ v[b] \in Nat
    BY <1>3, <1>4
  <2> QED  BY <2>4, <2>7, <2>8
<1>6. ASSUME NEW i \in 1 .. n, NEW j \in i .. n
      PROVE  SizeOf(chain, i .. j) = v[j + 1] - v[i] /\ v[i] + chain[i].size =< v[j + 1]
  <2>1. PICK l : l = j + 1
    OBVIOUS
  <2>2. /\ l \in i .. n + 1 /\ i \in 1 .. n + 1 /\ l - 1 = j
        /\ i + 1 \in 1 .. n + 1 /\ l \in i + 1 .. n + 1
    BY <1>3, <2>1
  <2>3. Total(f, i .. l - 1) = v[l] - v[i]
    BY <2>2, <1>5
  <2>4. v[i + 1] =< v[l]
    BY <2>2, <1>5
  <2>5. v[i + 1] = v[i] + f[i] /\ f[i] = chain[i].size
    BY <1>3, <1>4
  <2>6. SizeOf(chain, i .. j) = Total(f, i .. j)
    BY <1>2, SizeOfIsTotal
  <2> QED  BY <2>1, <2>2, <2>3, <2>4, <2>5, <2>6
<1>7. SizeOf(chain, DOMAIN chain) = v[n + 1]
  <2>1. 1 \in 1 .. n + 1 /\ n + 1 \in 1 .. n + 1 /\ (n + 1) - 1 = n
    BY <1>3
  <2>2. PICK b \in 1 .. n + 1 : b = n + 1 /\ b - 1 = n
    BY <2>1
  <2>3. Total(f, 1 .. b - 1) = v[b] - v[1]
    BY <2>1, <2>2, <1>5
  <2>4. v[1] = 0 /\ v[b] \in Nat
    BY <1>4, <2>2 DEF Sums
  <2>5. Total(f, 1 .. n) = v[n + 1]
    BY <2>2, <2>3, <2>4
  <2>6. DOMAIN chain = 1 .. n
    BY <1>1, ChainType
  <2> QED  BY <1>2, <2>5, <2>6, SizeOfIsTotal
<1> QED  BY <1>1, <1>6, <1>7

-----------------------------------------------------------------------------
(***************************************************************************)
(* What the operations make of a chain, block by block                     *)
(***************************************************************************)

Block(addr, size, free) == [addr |-> addr, size |-> size, is_free |-> free]

\* block i was divided after need bytes, and its first part taken
IsSplit(c, chain, i, need) ==
    /\ ChainOK(c) /\ Len(c) = Len(chain) + 1
    /\ c[i] = Block(chain[i].addr, need, FALSE)
    /\ c[i + 1] = Block(chain[i].addr + need, chain[i].size - need, TRUE)
    /\ \A k \in 1 .. i - 1 : c[k] = chain[k]
    /\ \A k \in i + 1 .. Len(chain) : c[k + 1] = chain[k]

\* block i was taken as it is
IsTaken(c, chain, i) ==
    /\ ChainOK(c) /\ Len(c) = Len(chain)
    /\ c[i] = Block(chain[i].addr, chain[i].size, FALSE)
    /\ \A k \in 1 .. Len(chain) : k # i => c[k] = chain[k]

\* block b was appended
IsAppended(c, chain, b) ==
    /\ ChainOK(c) /\ Len(c) = Len(chain) + 1
    /\ c[Len(chain) + 1] = b
    /\ \A k \in 1 .. Len(chain) : c[k] = chain[k]

\* blocks i to j became a free one
IsMerged(c, chain, i, j) ==
    /\ ChainOK(c) /\ Len(c) = Len(chain) - (j - i)
    /\ c[i] = Block(chain[i].addr, SizeOf(chain, i .. j), TRUE)
    /\ \A k \in 1 .. i - 1 : c[k] = chain[k]
    /\ \A k \in j + 1 .. Len(chain) : c[k - (j - i)] = chain[k]

\* A block that may be in a chain.
LEMMA BlockType ==
    ASSUME NEW a \in Nat, NEW s \in Nat, s > Hdr, NEW f \in BOOLEAN
    PROVE  Block(a, s, f) \in Blocks
BY DEF Blocks, Block

\* a, then b, then c
Joins3(s, a, b, c) ==
    /\ Len(s) = Len(a) + 1 + Len(c)
    /\ s[Len(a) + 1] = b
    /\ \A k \in 1 .. Len(a) : s[k] = a[k]
    /\ \A k \in 1 .. Len(c) : s[Len(a) + 1 + k] = c[k]

\* A concatenation of a block between two chains.
LEMMA Joined3 ==
    ASSUME NEW S, NEW a \in Seq(S), NEW b \in S, NEW c \in Seq(S)
    PROVE  a \o <<b>> \o c \in Seq(S) /\ Joins3(a \o <<b>> \o c, a, b, c)
<1>1. PICK m : m = <<b>>
  OBVIOUS
<1>2. m \in Seq(S) /\ Len(m) = 1 /\ m[1] = b
  BY <1>1
<1>3. PICK d : d = a \o m
  OBVIOUS
<1>4. d \in Seq(S) /\ Joins(d, a, m)
  BY <1>2, <1>3, Joined
<1>5. PICK e : e = d \o c
  OBVIOUS
<1>6. e \in Seq(S) /\ Joins(e, d, c)
  BY <1>4, <1>5, Joined
<1>7. Len(a) \in Nat /\ Len(d) = Len(a) + 1 /\ Len(c) \in Nat /\ Len(e) = Len(a) + 1 + Len(c)
  BY <1>2, <1>4, <1>6 DEF Joins
<1>8. \A k \in 1 .. Len(a) : e[k] = a[k]
  <2>1. SUFFICES ASSUME NEW k \in 1 .. Len(a) PROVE e[k] = a[k]
    OBVIOUS
  <2>2. d[k] = a[k]
    BY <1>4 DEF Joins
  <2>3. k \in 1 .. Len(d)
    BY <1>7
  <2> QED  BY <2>2, <2>3, <1>6 DEF Joins
<1>9. e[Len(a) + 1] = b
  <2>1. PICK k : k = Len(a) + 1
    OBVIOUS
  <2>2. k \in Len(a) + 1 .. Len(d) /\ k \in 1 .. Len(d) /\ k - Len(a) = 1
    BY <1>7, <2>1
  <2>3. d[k] = m[1]
    BY <2>2, <1>4 DEF Joins
  <2>4. e[k] = d[k]
    BY <2>2, <1>6 DEF Joins
  <2> QED  BY <1>2, <2>1, <2>3, <2>4
<1>10. ASSUME NEW k \in 1 .. Len(c) PROVE e[Len(a) + 1 + k] = c[k]
  <2>1. PICK l : l = Len(a) + 1 + k
    OBVIOUS
  <2>2. l \in Len(d) + 1 .. Len(e) /\ l - Len(d) = k
    BY <1>7, <2>1
  <2>3. e[l] = c[k]
    BY <2>2, <1>6 DEF Joins
  <2> QED  BY <2>1, <2>3
<1>11. Joins3(e, a, b, c)
  BY <1>7, <1>8, <1>9, <1>10 DEF Joins3
<1> QED  BY <1>1, <1>3, <1>5, <1>6, <1>11

\* s is the chain from i to j.
IsPart(s, chain, i, j) ==
    /\ s \in Seq(Blocks)
    /\ Len(s) = j - i + 1
    /\ \A k \in 1 .. j - i + 1 : s[k] = chain[i + k - 1]

\* A subsequence of a chain is a chain of the same blocks.
LEMMA PartOfChain ==
    ASSUME NEW chain, ChainOK(chain), NEW i \in Nat \ {0}, NEW j \in Nat,
           j =< Len(chain), i =< j + 1
    PROVE  IsPart(SubSeq(chain, i, j), chain, i, j)
<1>1. chain \in Seq(Blocks) /\ Len(chain) \in Nat
  BY ChainType DEF ChainOK
<1>2. PICK S : S = Blocks
  OBVIOUS
<1>3. chain \in Seq(S)
  BY <1>1, <1>2
<1>4. \A k \in 1 .. j - i + 1 : i + k - 1 \in 1 .. Len(chain)
  BY <1>1
<1>5. /\ SubSeq(chain, i, j) \in Seq(S) /\ Len(SubSeq(chain, i, j)) = j - i + 1
      /\ \A k \in 1 .. j - i + 1 : SubSeq(chain, i, j)[k] = chain[i + k - 1]
  BY <1>1, <1>3, <1>4
<1> QED  BY <1>2, <1>5 DEF IsPart

\* What Merge makes of a chain.
LEMMA Swallowed ==
    ASSUME NEW chain, ChainOK(chain),
           NEW i \in 1 .. Len(chain), NEW j \in i .. Len(chain)
    PROVE  IsMerged(Merge(chain, i, j), chain, i, j)
<1>1. PICK n \in Nat : n = Len(chain)
  BY ChainType
<1>2. PICK a : a = SubSeq(chain, 1, i - 1)
  OBVIOUS
<1>3. PICK z : z = SubSeq(chain, j + 1, n)
  OBVIOUS
<1>4. i \in Nat \ {0} /\ j \in Nat \ {0} /\ i =< j /\ j =< n
  BY <1>1
<1>5. IsPart(a, chain, 1, i - 1)
  BY <1>1, <1>2, <1>4, PartOfChain
<1>6. IsPart(z, chain, j + 1, n)
  BY <1>1, <1>3, <1>4, PartOfChain
<1>7. PICK size : size = SizeOf(chain, i .. j)
  OBVIOUS
<1>8. size \in Nat /\ size > Hdr
  <2>1. PICK v : v = SumsOf(chain)
    OBVIOUS
  <2>2. Sums(chain, v)
    BY <2>1, SumsExist
  <2>3. size = v[j + 1] - v[i] /\ v[i] + chain[i].size =< v[j + 1]
    BY <1>7, <2>2, SumsGive
  <2>4. v[j + 1] \in Nat /\ v[i] \in Nat
    BY <2>2, <1>1, <1>4 DEF Sums
  <2>5. chain[i].size \in Nat /\ chain[i].size > Hdr
    BY ChainType
  <2>6. PICK x \in Nat, y \in Nat, s \in Nat, h \in Nat :
           x = v[j + 1] /\ y = v[i] /\ s = chain[i].size /\ h = Hdr
    BY <2>4, <2>5, Units
  <2>7. size = x - y /\ y + s =< x /\ s > h
    BY <2>3, <2>5, <2>6
  <2>8. x - y \in Nat /\ x - y > h
    BY <2>7
  <2> QED  BY <2>6, <2>7, <2>8
<1>9. PICK b : b = [chain[i] EXCEPT !.is_free = TRUE, !.size = size]
  OBVIOUS
<1>10. PICK q : q = chain[i]
  OBVIOUS
<1>11. q = [addr |-> q.addr, size |-> q.size, is_free |-> q.is_free] /\ q.addr \in Nat
  BY <1>10, ChainType
<1>12. b = Block(chain[i].addr, size, TRUE) /\ chain[i].addr \in Nat
  BY <1>9, <1>10, <1>11 DEF Block
<1>13. b \in Blocks
  BY <1>8, <1>12, BlockType
<1>14. PICK c : c = a \o <<b>> \o z
  OBVIOUS
<1>15. c = Merge(chain, i, j)
  BY <1>1, <1>2, <1>3, <1>7, <1>9, <1>14 DEF Merge
<1>16. a \in Seq(Blocks) /\ Len(a) = i - 1 /\ \A k \in 1 .. i - 1 : a[k] = chain[k]
  <2>1. (i - 1) - 1 + 1 = i - 1 /\ \A k \in 1 .. i - 1 : 1 + k - 1 = k
    BY <1>4
  <2> QED  BY <1>5, <2>1 DEF IsPart
<1>17. /\ z \in Seq(Blocks) /\ Len(z) = n - j
       /\ \A k \in j + 1 .. n : k - j \in 1 .. n - j /\ z[k - j] = chain[k]
  <2>1. n - (j + 1) + 1 = n - j
    BY <1>4
  <2>2. ASSUME NEW k \in j + 1 .. n PROVE k - j \in 1 .. n - j /\ z[k - j] = chain[k]
    <3>1. PICK l \in 1 .. n - j : l = k - j
      BY <1>4
    <3>2. (j + 1) + l - 1 = k
      BY <1>4, <3>1
    <3> QED  BY <3>1, <3>2, <2>1, <1>6 DEF IsPart
  <2> QED  BY <2>1, <2>2, <1>6 DEF IsPart
<1>18. c \in Seq(Blocks) /\ Joins3(c, a, b, z)
  BY <1>13, <1>14, <1>16, <1>17, Joined3
<1>19. Len(c) = n - (j - i) /\ c[i] = b
  <2>1. Len(a) + 1 = i /\ Len(a) + 1 + Len(z) = n - (j - i)
    BY <1>4, <1>16, <1>17
  <2> QED  BY <2>1, <1>18 DEF Joins3
<1>20. \A k \in 1 .. i - 1 : c[k] = chain[k]
  BY <1>16, <1>18 DEF Joins3
<1>21. ASSUME NEW k \in j + 1 .. n PROVE c[k - (j - i)] = chain[k]
  <2>1. PICK l : l = k - j
    OBVIOUS
  <2>2. l \in 1 .. Len(z) /\ z[l] = chain[k] /\ Len(a) + 1 + l = k - (j - i)
    BY <2>1, <1>4, <1>16, <1>17
  <2>3. c[Len(a) + 1 + l] = z[l]
    BY <2>2, <1>18 DEF Joins3
  <2> QED  BY <2>2, <2>3
<1>22. ChainOK(c)
  BY <1>18 DEF ChainOK
<1> QED  BY <1>1, <1>7, <1>12, <1>15, <1>19, <1>20, <1>21, <1>22 DEF IsMerged

\* Changing one block leaves the others.
IsChanged(d, chain, i, b) ==
    /\ ChainOK(d) /\ Len(d) = Len(chain) /\ d[i] = b
    /\ \A k \in 1 .. Len(chain) : k # i => d[k] = chain[k]

\* A chain with one block changed is a chain.
LEMMA Changed ==
    ASSUME NEW chain, ChainOK(chain), NEW i \in 1 .. Len(chain), NEW b \in Blocks
    PROVE  IsChanged([chain EXCEPT ![i] = b], chain, i, b)
<1>1. PICK d : d = [chain EXCEPT ![i] = b]
  OBVIOUS
<1>2. PICK S : S = Blocks
  OBVIOUS
<1>3. chain \in Seq(S) /\ b \in S /\ Len(chain) \in Nat /\ DOMAIN chain = 1 .. Len(chain)
  BY <1>2 DEF ChainOK
<1>4. d \in Seq(S)
  BY <1>3, <1>1
<1>5. DOMAIN d = DOMAIN chain
  BY <1>1
<1>6. Len(d) = Len(chain)
  BY <1>3, <1>4, <1>5
<1>7. d[i] = b /\ \A k \in 1 .. Len(chain) : k # i => d[k] = chain[k]
  BY <1>3, <1>1
<1> QED  BY <1>2, <1>4, <1>6, <1>7, <1>1 DEF ChainOK, IsChanged

\* A block with another flag.
LEMMA Flagged ==
    ASSUME NEW a, NEW s, NEW f, NEW x \in BOOLEAN
    PROVE  [[addr |-> a, size |-> s, is_free |-> f] EXCEPT !.is_free = x] = Block(a, s, x)
BY DEF Block

\* A block that is taken.
LEMMA MarkedWhole ==
    ASSUME NEW chain, ChainOK(chain), NEW i \in 1 .. Len(chain)
    PROVE  [chain EXCEPT ![i].is_free = FALSE]
             = [chain EXCEPT ![i] = Block(chain[i].addr, chain[i].size, FALSE)]
<1>1. PICK q : q = chain[i]
  OBVIOUS
<1>2. q = [addr |-> q.addr, size |-> q.size, is_free |-> q.is_free] /\ i \in DOMAIN chain
  BY <1>1, ChainType
<1>3. [q EXCEPT !.is_free = FALSE] = Block(q.addr, q.size, FALSE)
  BY <1>2, Flagged, FALSE \in BOOLEAN, Zenon
<1>4. [chain EXCEPT ![i].is_free = FALSE] = [chain EXCEPT ![i] = [q EXCEPT !.is_free = FALSE]]
  BY <1>1
<1> QED  BY <1>1, <1>3, <1>4

\* A block with a new size, and taken.
LEMMA Marked ==
    ASSUME NEW chain, ChainOK(chain), NEW i \in 1 .. Len(chain), NEW s \in Nat
    PROVE  [chain EXCEPT ![i].size = s, ![i].is_free = FALSE]
             = [chain EXCEPT ![i] = Block(chain[i].addr, s, FALSE)]
<1>1. PICK q : q = chain[i]
  OBVIOUS
<1>2. q = [addr |-> q.addr, size |-> q.size, is_free |-> q.is_free] /\ i \in DOMAIN chain
  BY <1>1, ChainType
<1>3. PICK t : t = [q EXCEPT !.size = s]
  OBVIOUS
<1>4. t = [addr |-> q.addr, size |-> s, is_free |-> q.is_free]
  BY <1>2, <1>3
<1>5. [t EXCEPT !.is_free = FALSE] = Block(q.addr, s, FALSE)
  BY <1>4, Flagged, FALSE \in BOOLEAN, Zenon
<1>6. [[q EXCEPT !.size = s] EXCEPT !.is_free = FALSE] = Block(q.addr, s, FALSE)
  BY <1>3, <1>5
<1>7. PICK e : e = [chain EXCEPT ![i] = [q EXCEPT !.size = s]]
  OBVIOUS
<1>8. e[i] = [q EXCEPT !.size = s] /\ e = [chain EXCEPT ![i].size = s]
  BY <1>1, <1>2, <1>7
<1>9. [chain EXCEPT ![i].size = s, ![i].is_free = FALSE]
        = [e EXCEPT ![i] = [e[i] EXCEPT !.is_free = FALSE]]
  BY <1>8
<1>10. [e EXCEPT ![i] = Block(q.addr, s, FALSE)] = [chain EXCEPT ![i] = Block(q.addr, s, FALSE)]
  BY <1>7
<1> QED  BY <1>1, <1>6, <1>8, <1>9, <1>10

\* What Split makes of a chain.
LEMMA Divided ==
    ASSUME NEW chain, ChainOK(chain), NEW i \in 1 .. Len(chain),
           NEW need \in Nat, need > Hdr, chain[i].size > need + Hdr
    PROVE  IsSplit(Split(chain, i, need), chain, i, need)
<1>1. PICK n \in Nat : n = Len(chain)
  BY ChainType
<1>2. PICK q : q = chain[i]
  OBVIOUS
<1>3. /\ q = [addr |-> q.addr, size |-> q.size, is_free |-> q.is_free]
      /\ q.addr \in Nat /\ q.size \in Nat /\ q.size > need + Hdr
  BY <1>2, ChainType
<1>4. PICK d : d = [chain EXCEPT ![i].size = need, ![i].is_free = FALSE]
  OBVIOUS
<1>5. chain \in Seq(Blocks) /\ DOMAIN chain = 1 .. n
  BY <1>1, ChainType DEF ChainOK
<1>6. Block(q.addr, need, FALSE) \in Blocks
  BY <1>3, BlockType
<1>7. PICK b : b = Block(q.addr + need, q.size - need, TRUE)
  OBVIOUS
<1>8. b \in Blocks
  <2>1. q.addr + need \in Nat /\ q.size - need \in Nat /\ q.size - need > Hdr
    BY <1>3, Units
  <2> QED  BY <1>7, <2>1, BlockType
<1>9. d = [chain EXCEPT ![i] = Block(q.addr, need, FALSE)]
  <2>1. [chain EXCEPT ![i].size = need, ![i].is_free = FALSE]
          = [chain EXCEPT ![i] = Block(chain[i].addr, need, FALSE)]
    BY Marked
  <2> QED  BY <1>2, <1>4, <2>1
<1>10. /\ d \in Seq(Blocks) /\ Len(d) = n /\ d[i] = Block(q.addr, need, FALSE)
       /\ \A k \in 1 .. n : k # i => d[k] = chain[k]
  <2>1. PICK e \in Blocks : e = Block(q.addr, need, FALSE)
    BY <1>6
  <2>2. IsChanged(d, chain, i, e)
    BY <1>9, <2>1, Changed
  <2> QED  BY <1>1, <2>1, <2>2 DEF IsChanged, ChainOK
<1>11. ChainOK(d)
  BY <1>10 DEF ChainOK
<1>12. PICK a : a = SubSeq(d, 1, (i + 1) - 1)
  OBVIOUS
<1>13. PICK z : z = SubSeq(d, i + 1, n)
  OBVIOUS
<1>14. i \in Nat \ {0} /\ i =< n /\ (i + 1) - 1 = i
  BY <1>1
<1>15. a \in Seq(Blocks) /\ Len(a) = i /\ \A k \in 1 .. i : a[k] = d[k]
  <2>1. IsPart(a, d, 1, i)
    BY <1>10, <1>11, <1>12, <1>14, PartOfChain
  <2>2. i - 1 + 1 = i /\ \A k \in 1 .. i : 1 + k - 1 = k
    BY <1>14
  <2> QED  BY <2>1, <2>2 DEF IsPart
<1>16. /\ z \in Seq(Blocks) /\ Len(z) = n - i
       /\ \A k \in i + 1 .. n : k - i \in 1 .. n - i /\ z[k - i] = d[k]
  <2>1. IsPart(z, d, i + 1, n)
    <3>1. i + 1 \in Nat \ {0} /\ n =< Len(d) /\ i + 1 =< n + 1
      BY <1>1, <1>10, <1>14
    <3> QED  BY <3>1, <1>1, <1>11, <1>13, PartOfChain
  <2>2. n - (i + 1) + 1 = n - i
    BY <1>1, <1>14
  <2>3. ASSUME NEW k \in i + 1 .. n PROVE k - i \in 1 .. n - i /\ z[k - i] = d[k]
    <3>1. PICK l \in 1 .. n - i : l = k - i
      BY <1>1, <1>14
    <3>2. (i + 1) + l - 1 = k
      BY <1>14, <3>1
    <3> QED  BY <3>1, <3>2, <2>1, <2>2 DEF IsPart
  <2> QED  BY <2>1, <2>2, <2>3 DEF IsPart
<1>17. PICK c : c = a \o <<b>> \o z
  OBVIOUS
<1>18. c = Split(chain, i, need)
  BY <1>1, <1>2, <1>4, <1>7, <1>10, <1>12, <1>13, <1>17 DEF Split, InsertAt, Block
<1>19. c \in Seq(Blocks) /\ Joins3(c, a, b, z)
  BY <1>8, <1>15, <1>16, <1>17, Joined3
<1>20. Len(c) = n + 1 /\ c[i + 1] = b
  <2>1. Len(a) + 1 = i + 1 /\ Len(a) + 1 + Len(z) = n + 1
    BY <1>1, <1>14, <1>15, <1>16
  <2> QED  BY <2>1, <1>19 DEF Joins3
<1>21. \A k \in 1 .. i : c[k] = d[k]
  BY <1>15, <1>19 DEF Joins3
<1>22. ASSUME NEW k \in i + 1 .. n PROVE c[k + 1] = chain[k]
  <2>1. PICK l : l = k - i
    OBVIOUS
  <2>2. l \in 1 .. Len(z) /\ z[l] = d[k] /\ Len(a) + 1 + l = k + 1
    <3>1. l \in 1 .. n - i /\ z[l] = d[k]
      BY <2>1, <1>16
    <3>2. Len(a) = i /\ Len(z) = n - i
      BY <1>15, <1>16
    <3>3. i + 1 + l = k + 1
      BY <2>1, <1>14
    <3> QED  BY <3>1, <3>2, <3>3
  <2>3. c[Len(a) + 1 + l] = z[l]
    BY <2>2, <1>19 DEF Joins3
  <2>4. k \in 1 .. n /\ k # i
    BY <1>1, <1>14
  <2> QED  BY <2>2, <2>3, <2>4, <1>10
<1>23. c[i] = Block(q.addr, need, FALSE)
  <2>1. i \in 1 .. i
    BY <1>14
  <2> QED  BY <2>1, <1>10, <1>21
<1>24. \A k \in 1 .. i - 1 : c[k] = chain[k]
  <2>1. SUFFICES ASSUME NEW k \in 1 .. i - 1 PROVE c[k] = chain[k]
    OBVIOUS
  <2>2. k \in 1 .. i /\ k \in 1 .. n /\ k # i
    BY <1>1, <1>14
  <2> QED  BY <2>2, <1>10, <1>21
<1>25. ChainOK(c)
  BY <1>19 DEF ChainOK
<1> QED  BY <1>1, <1>2, <1>7, <1>18, <1>20, <1>22, <1>23, <1>24, <1>25 DEF IsSplit

\* What Take makes of a block that is not split.
LEMMA TakenWhole ==
    ASSUME NEW chain, ChainOK(chain), NEW i \in 1 .. Len(chain)
    PROVE  IsTaken([chain EXCEPT ![i].is_free = FALSE], chain, i)
<1>1. PICK n \in Nat : n = Len(chain)
  BY ChainType
<1>2. PICK q : q = chain[i]
  OBVIOUS
<1>3. /\ q = [addr |-> q.addr, size |-> q.size, is_free |-> q.is_free]
      /\ q.addr \in Nat /\ q.size \in Nat /\ q.size > Hdr
  BY <1>2, ChainType
<1>4. PICK c : c = [chain EXCEPT ![i].is_free = FALSE]
  OBVIOUS
<1>5. PICK b : b = Block(q.addr, q.size, FALSE)
  OBVIOUS
<1>6. b \in Blocks
  BY <1>3, <1>5, BlockType
<1>7. c = [chain EXCEPT ![i] = b]
  BY <1>2, <1>4, <1>5, MarkedWhole
<1>8. /\ ChainOK(c) /\ Len(c) = n /\ c[i] = b
      /\ \A k \in 1 .. n : k # i => c[k] = chain[k]
  <2>1. IsChanged(c, chain, i, b)
    BY <1>6, <1>7, Changed
  <2> QED  BY <1>1, <2>1 DEF IsChanged
<1>9. IsTaken(c, chain, i)
  BY <1>1, <1>2, <1>5, <1>8 DEF IsTaken
<1> QED  BY <1>4, <1>9

\* A chain with one more block at the end.
LEMMA Appended ==
    ASSUME NEW chain, ChainOK(chain), NEW b \in Blocks
    PROVE  IsAppended(Append(chain, b), chain, b)
<1>1. PICK S : S = Blocks
  OBVIOUS
<1>2. chain \in Seq(S) /\ b \in S
  BY <1>1 DEF ChainOK
<1>3. /\ Append(chain, b) \in Seq(S) /\ Len(Append(chain, b)) = Len(chain) + 1
      /\ Append(chain, b)[Len(chain) + 1] = b
      /\ \A k \in 1 .. Len(chain) : Append(chain, b)[k] = chain[k]
  BY <1>2
<1> QED  BY <1>1, <1>3 DEF IsAppended, ChainOK

\* the free blocks right behind block i end with block j
IsRun(chain, i, j) ==
    /\ j \in i .. Len(chain)
    /\ \A l \in i + 1 .. j : chain[l].is_free
    /\ j < Len(chain) => ~chain[j + 1].is_free

\* Every block begins a run of free blocks, perhaps of none.
LEMMA RunExists ==
    ASSUME NEW chain, ChainOK(chain), NEW i \in 1 .. Len(chain)
    PROVE  \E j \in i .. Len(chain) : IsRun(chain, i, j)
<1>1. PICK n \in Nat : n = Len(chain)
  BY ChainType
<1>2. PICK U : U = {l \in i + 1 .. n : ~chain[l].is_free}
  OBVIOUS
<1>3. U \in SUBSET Nat
  BY <1>2
<1>4. CASE U = {}
  <2>1. n \in i .. n /\ ~(n < n) /\ \A l \in i + 1 .. n : chain[l].is_free
    BY <1>1, <1>2, <1>4
  <2> QED  BY <1>1, <2>1 DEF IsRun
<1>5. CASE U # {}
  <2>1. PICK l \in U : \A k \in U : l =< k
    BY <1>3, <1>5, Least
  <2>2. PICK j : j = l - 1
    OBVIOUS
  <2>3. l \in i + 1 .. n /\ ~chain[l].is_free /\ j + 1 = l /\ j \in i .. n
    BY <1>1, <1>2, <2>1, <2>2
  <2>4. ASSUME NEW k \in i + 1 .. j PROVE chain[k].is_free
    <3>1. k \in i + 1 .. n /\ ~(l =< k)
      BY <1>1, <2>2, <2>3
    <3> QED  BY <3>1, <1>2, <2>1
  <2> QED  BY <1>1, <2>3, <2>4 DEF IsRun
<1> QED  BY <1>4, <1>5

\* what Free makes of a chain that has a block for ptr
IsFreed(m, r, ptr) ==
    \E i \in 1 .. Len(m.chain) : \E j \in i .. Len(m.chain) :
       /\ m.chain[i].addr = ptr - Hdr
       /\ IsRun(m.chain, i, j)
       /\ IsMerged(r.chain, m.chain, i, j)
       /\ r.stack = m.stack

\* Free merges the run that begins at the block of the pointer.
LEMMA FreeMerges ==
    ASSUME NEW m, ChainOK(m.chain), NEW ptr, DOMAIN m = {"ptr", "stack", "chain"},
           \E k \in 1 .. Len(m.chain) : m.chain[k].addr = ptr - Hdr
    PROVE  IsFreed(m, Free(m, ptr), ptr)
<1>1. PICK chain : chain = m.chain
  OBVIOUS
<1>2. ChainOK(chain) /\ DOMAIN chain = 1 .. Len(chain)
  BY <1>1, ChainType
<1>3. PICK i : i = CHOOSE k \in DOMAIN chain : chain[k].addr = ptr - Hdr
  OBVIOUS
<1>4. i \in 1 .. Len(chain) /\ chain[i].addr = ptr - Hdr
  BY <1>1, <1>2, <1>3
<1>5. PICK j : j = CHOOSE k \in i .. Len(chain) :
                      /\ \A l \in i + 1 .. k : chain[l].is_free
                      /\ k < Len(chain) => ~chain[k + 1].is_free
  OBVIOUS
<1>6. j \in i .. Len(chain) /\ IsRun(chain, i, j)
  <2>1. \E k \in i .. Len(chain) : /\ \A l \in i + 1 .. k : chain[l].is_free
                                   /\ k < Len(chain) => ~chain[k + 1].is_free
    BY <1>2, <1>4, RunExists DEF IsRun
  <2> QED  BY <1>5, <2>1 DEF IsRun
<1>7. PICK r : r = [m EXCEPT !.chain = Merge(chain, i, j)]
  OBVIOUS
<1>8. r = Free(m, ptr)
  BY <1>1, <1>3, <1>5, <1>7 DEF Free
<1>9. r.chain = Merge(chain, i, j) /\ r.stack = m.stack
  BY <1>7
<1>10. IsMerged(r.chain, chain, i, j)
  BY <1>2, <1>4, <1>6, <1>9, Swallowed
<1> QED  BY <1>1, <1>4, <1>6, <1>8, <1>9, <1>10 DEF IsFreed

\* what Allocate makes of the manager's state: a free block is divided or
\* taken, or the page on top becomes a block
IsAllocated(m, r, size) ==
    \/ \E i \in 1 .. Len(m.chain) :
          /\ m.chain[i].is_free /\ m.chain[i].size >= size + Hdr
          /\ r.ptr = m.chain[i].addr + Hdr
          /\ r.stack = m.stack
          /\ \/ m.chain[i].size > size + Hdr + Hdr /\ IsSplit(r.chain, m.chain, i, size + Hdr)
             \/ IsTaken(r.chain, m.chain, i)
    \/ /\ m.stack # <<>>
       /\ r.ptr = Last(m.stack) + Hdr
       /\ r.stack = Front(m.stack)
       /\ IsAppended(r.chain, m.chain, Block(Last(m.stack), size + Hdr, FALSE))

\* Allocate does one of these whenever it returns a pointer.
LEMMA AllocateTakes ==
    ASSUME NEW m, ChainOK(m.chain), StackOK(m.stack), NEW size \in Requests,
           m = [ptr |-> NULL, stack |-> m.stack, chain |-> m.chain],
           Allocate(m, size).ptr # NULL
    PROVE  IsAllocated(m, Allocate(m, size), size)
<1>1. PICK r : r = Allocate(m, size)
  OBVIOUS
<1>2. PICK need : need = size + Hdr
  OBVIOUS
<1>3. need \in Nat /\ need > Hdr
  <2>1. size \in Nat \ {0}
    BY Units
  <2> QED  BY <1>2, <2>1, Units
<1>4. PICK fits : fits = Fits(m.chain, need)
  OBVIOUS
<1>5. fits \in SUBSET Nat /\ \A k \in fits : /\ k \in 1 .. Len(m.chain) /\ m.chain[k].is_free
                                             /\ m.chain[k].size >= need
  BY <1>4, ChainType DEF Fits
<1>6. PICK i : i = CHOOSE k \in fits : \A l \in fits : k =< l
  OBVIOUS
<1>7. CASE fits # {}
  <2>1. i \in fits
    BY <1>5, <1>6, <1>7, Least
  <2>2. i \in 1 .. Len(m.chain) /\ m.chain[i].is_free /\ m.chain[i].size >= need
    BY <1>5, <2>1
  <2>3. r = [ptr |-> m.chain[i].addr + Hdr, stack |-> m.stack, chain |-> Take(m.chain, i, need)]
    BY <1>1, <1>2, <1>4, <1>6, <1>7 DEF Allocate
  <2>4. r.ptr = m.chain[i].addr + Hdr /\ r.stack = m.stack /\ r.chain = Take(m.chain, i, need)
    BY <2>3
  <2>5. CASE m.chain[i].size > need + Hdr
    <3>1. r.chain = Split(m.chain, i, need)
      BY <2>4, <2>5 DEF Take
    <3>2. IsSplit(r.chain, m.chain, i, need)
      BY <1>3, <2>2, <2>5, <3>1, Divided
    <3> QED  BY <1>1, <1>2, <2>2, <2>4, <2>5, <3>2 DEF IsAllocated
  <2>6. CASE ~(m.chain[i].size > need + Hdr)
    <3>1. r.chain = [m.chain EXCEPT ![i].is_free = FALSE]
      BY <2>4, <2>6 DEF Take
    <3>2. IsTaken(r.chain, m.chain, i)
      BY <2>2, <3>1, TakenWhole
    <3> QED  BY <1>1, <1>2, <2>2, <2>4, <3>2 DEF IsAllocated
  <2> QED  BY <2>5, <2>6
<1>8. CASE fits = {}
  <2>1. r = IF m.stack = <<>> THEN [m EXCEPT !.ptr = NULL]
            ELSE [ptr   |-> Last(m.stack) + Hdr,
                  stack |-> Front(m.stack),
                  chain |-> Append(m.chain, [addr |-> Last(m.stack), size |-> need,
                                             is_free |-> FALSE])]
    BY <1>1, <1>2, <1>4, <1>6, <1>8 DEF Allocate
  <2>2. m.stack # <<>>
    <3>1. SUFFICES ASSUME m.stack = <<>> PROVE FALSE
      OBVIOUS
    <3>2. r = [m EXCEPT !.ptr = NULL]
      BY <2>1, <3>1
    <3>3. r.ptr = NULL
      BY <3>2
    <3> QED  BY <3>3, <1>1
  <2>3. PICK b : b = Block(Last(m.stack), need, FALSE)
    OBVIOUS
  <2>4. /\ r.ptr = Last(m.stack) + Hdr /\ r.stack = Front(m.stack)
        /\ r.chain = Append(m.chain, b)
    BY <2>1, <2>2, <2>3 DEF Block
  <2>5. b \in Blocks
    <3>1. Last(m.stack) \in Nat
      BY <2>2, TakePage, MapPagesType
    <3> QED  BY <1>3, <2>3, <3>1, BlockType
  <2>6. IsAppended(r.chain, m.chain, b)
    BY <2>4, <2>5, Appended
  <2> QED  BY <1>1, <1>2, <2>2, <2>3, <2>4, <2>6 DEF IsAllocated
<1> QED  BY <1>7, <1>8

-----------------------------------------------------------------------------
(***************************************************************************)
(* What the operations make of the sums                                    *)
(***************************************************************************)

SplitSums(w, v, i, n, need) ==
    /\ \A k \in 1 .. i : w[k] = v[k]
    /\ w[i + 1] = v[i] + need
    /\ \A k \in i + 1 .. n + 1 : w[k + 1] = v[k]

\* The sums of a chain with a block divided.
LEMMA SumsOfSplit ==
    ASSUME NEW chain, ChainOK(chain), NEW v, Sums(chain, v),
           NEW i \in 1 .. Len(chain), NEW need \in Nat, need =< chain[i].size,
           NEW c, IsSplit(c, chain, i, need)
    PROVE  \E w : Sums(c, w) /\ SplitSums(w, v, i, Len(chain), need)
<1>1. PICK n \in Nat : n = Len(chain)
  BY ChainType
<1>2. i \in Nat /\ 1 =< i /\ i =< n
  BY <1>1
<1>3. /\ \A k \in 1 .. n + 1 : v[k] \in Nat
      /\ v[1] = 0
      /\ \A k \in 1 .. n : v[k + 1] = v[k] + chain[k].size
  BY <1>1 DEF Sums
<1>4. PICK w : w = [k \in 1 .. n + 2 |-> IF k =< i THEN v[k]
                                         ELSE IF k = i + 1 THEN v[i] + need ELSE v[k - 1]]
  OBVIOUS
<1>5. \A k \in 1 .. i : w[k] = v[k]
  BY <1>2, <1>4
<1>6. w[i + 1] = v[i] + need
  BY <1>2, <1>4
<1>7. ASSUME NEW k \in i + 1 .. n + 1 PROVE w[k + 1] = v[k]
  <2>1. PICK l : l = k + 1
    OBVIOUS
  <2>2. l \in 1 .. n + 2 /\ ~(l =< i) /\ l # i + 1 /\ l - 1 = k
    BY <1>1, <1>2, <2>1
  <2> QED  BY <1>4, <2>1, <2>2
<1>8. ASSUME NEW k \in 1 .. n + 2 PROVE w[k] \in Nat
  <2>1. CASE k =< i
    <3>1. k \in 1 .. n + 1
      BY <1>1, <1>2, <2>1
    <3> QED  BY <1>3, <1>4, <2>1, <3>1
  <2>2. CASE k = i + 1
    <3>1. i \in 1 .. n + 1
      BY <1>1, <1>2
    <3>2. v[i] \in Nat
      BY <1>3, <3>1
    <3> QED  BY <1>6, <2>2, <3>2
  <2>3. CASE ~(k =< i) /\ k # i + 1
    <3>1. k - 1 \in 1 .. n + 1
      BY <1>1, <1>2, <2>3
    <3> QED  BY <1>3, <1>4, <2>3, <3>1
  <2> QED  BY <2>1, <2>2, <2>3
<1>9. ASSUME NEW k \in 1 .. n + 1 PROVE w[k + 1] = w[k] + c[k].size
  <2>1. CASE k < i
    <3>1. k \in 1 .. i - 1 /\ k \in 1 .. i /\ k + 1 \in 1 .. i /\ k \in 1 .. n
      BY <1>1, <1>2, <2>1
    <3>2. c[k] = chain[k]
      BY <3>1 DEF IsSplit
    <3> QED  BY <1>3, <1>5, <3>1, <3>2
  <2>2. CASE k = i
    <3>1. c[k].size = need
      BY <2>2 DEF IsSplit, Block
    <3>2. k \in 1 .. i
      BY <1>2, <2>2
    <3> QED  BY <1>5, <1>6, <2>2, <3>1, <3>2
  <2>3. CASE k = i + 1
    <3>1. c[k].size = chain[i].size - need
      BY <2>3 DEF IsSplit, Block
    <3>2. i + 1 \in i + 1 .. n + 1 /\ i \in 1 .. n /\ i \in 1 .. n + 1
      BY <1>1, <1>2
    <3>3. w[k + 1] = v[i + 1] /\ v[i + 1] = v[i] + chain[i].size /\ w[k] = v[i] + need
      BY <1>3, <1>6, <1>7, <2>3, <3>2
    <3>4. v[i] \in Nat /\ chain[i].size \in Nat
      BY <1>3, <3>2, ChainType
    <3> QED  BY <3>1, <3>3, <3>4
  <2>4. CASE k > i + 1
    <3>1. PICK l \in i + 1 .. n : l = k - 1 /\ l + 1 = k
      BY <1>1, <1>2, <2>4
    <3>2. l \in i + 1 .. n + 1 /\ l + 1 \in i + 1 .. n + 1 /\ l \in 1 .. n /\ l \in i + 1 .. Len(chain)
      BY <1>1, <1>2, <3>1
    <3>3. c[l + 1] = chain[l]
      BY <3>2 DEF IsSplit
    <3>4. w[l + 1] = v[l] /\ w[(l + 1) + 1] = v[l + 1]
      BY <1>7, <3>2
    <3> QED  BY <1>3, <3>1, <3>2, <3>3, <3>4
  <2> QED  BY <1>2, <2>1, <2>2, <2>3, <2>4
<1>10. w[1] = 0
  <2>1. 1 \in 1 .. i
    BY <1>2
  <2> QED  BY <1>3, <1>5, <2>1
<1>11. Len(c) = n + 1 /\ (n + 1) + 1 = n + 2
  BY <1>1 DEF IsSplit
<1>12. w \in [1 .. Len(c) + 1 -> Nat]
  BY <1>4, <1>8, <1>11
<1>13. Sums(c, w)
  BY <1>9, <1>10, <1>11, <1>12 DEF Sums
<1>14. SplitSums(w, v, i, n, need)
  BY <1>5, <1>6, <1>7 DEF SplitSums
<1> QED  BY <1>1, <1>13, <1>14

\* Taking a block whole leaves the sums.
LEMMA SumsOfTaken ==
    ASSUME NEW chain, ChainOK(chain), NEW v, Sums(chain, v),
           NEW i \in 1 .. Len(chain), NEW c, IsTaken(c, chain, i)
    PROVE  Sums(c, v)
<1>1. ASSUME NEW k \in 1 .. Len(chain) PROVE c[k].size = chain[k].size
  BY DEF IsTaken, Block
<1>2. Len(c) = Len(chain)
  BY DEF IsTaken
<1> QED  BY <1>1, <1>2 DEF Sums

AppendSums(w, v, n, size) ==
    /\ \A k \in 1 .. n + 1 : w[k] = v[k]
    /\ w[(n + 1) + 1] = v[n + 1] + size

\* The sums of a chain with one more block.
LEMMA SumsOfAppended ==
    ASSUME NEW chain, ChainOK(chain), NEW v, Sums(chain, v),
           NEW b, b.size \in Nat, NEW c, IsAppended(c, chain, b)
    PROVE  \E w : Sums(c, w) /\ AppendSums(w, v, Len(chain), b.size)
<1>1. PICK n \in Nat : n = Len(chain)
  BY ChainType
<1>2. /\ \A k \in 1 .. n + 1 : v[k] \in Nat
      /\ v[1] = 0
      /\ \A k \in 1 .. n : v[k + 1] = v[k] + chain[k].size
  BY <1>1 DEF Sums
<1>3. PICK e \in Nat : e = (n + 1) + 1
  BY <1>1
<1>4. PICK w : w = [k \in 1 .. e |-> IF k = e THEN v[n + 1] + b.size ELSE v[k]]
  OBVIOUS
<1>5. \A k \in 1 .. n + 1 : w[k] = v[k]
  BY <1>1, <1>3, <1>4
<1>6. w[e] = v[n + 1] + b.size /\ v[n + 1] \in Nat
  BY <1>1, <1>2, <1>3, <1>4
<1>7. ASSUME NEW k \in 1 .. e PROVE w[k] \in Nat
  <2>1. k = e \/ k \in 1 .. n + 1
    BY <1>1, <1>3
  <2> QED  BY <2>1, <1>2, <1>5, <1>6
<1>8. ASSUME NEW k \in 1 .. n + 1 PROVE w[k + 1] = w[k] + c[k].size
  <2>1. CASE k = n + 1
    <3>1. c[k] = b /\ w[k] = v[n + 1]
      BY <1>1, <1>5, <2>1 DEF IsAppended
    <3> QED  BY <1>3, <1>6, <2>1, <3>1
  <2>2. CASE k # n + 1
    <3>1. k \in 1 .. n /\ k + 1 \in 1 .. n + 1 /\ k \in 1 .. Len(chain)
      BY <1>1, <2>2
    <3>2. c[k] = chain[k]
      BY <3>1 DEF IsAppended
    <3> QED  BY <1>2, <1>5, <3>1, <3>2
  <2> QED  BY <2>1, <2>2
<1>9. Len(c) = n + 1
  BY <1>1 DEF IsAppended
<1>10. w[1] = 0
  <2>1. 1 \in 1 .. n + 1
    BY <1>1
  <2> QED  BY <1>2, <1>5, <2>1
<1>11. w \in [1 .. Len(c) + 1 -> Nat]
  BY <1>3, <1>4, <1>7, <1>9
<1>12. Sums(c, w)
  BY <1>8, <1>9, <1>10, <1>11 DEF Sums
<1>13. AppendSums(w, v, n, b.size)
  BY <1>3, <1>5, <1>6 DEF AppendSums
<1> QED  BY <1>1, <1>12, <1>13

MergeSums(w, v, i, j, n) ==
    /\ \A k \in 1 .. i : w[k] = v[k]
    /\ \A k \in j + 1 .. n + 1 : w[k - (j - i)] = v[k]

\* The sums of a chain with a run merged.
LEMMA SumsOfMerged ==
    ASSUME NEW chain, ChainOK(chain), NEW v, Sums(chain, v),
           NEW i \in 1 .. Len(chain), NEW j \in i .. Len(chain),
           NEW c, IsMerged(c, chain, i, j)
    PROVE  \E w : Sums(c, w) /\ MergeSums(w, v, i, j, Len(chain))
<1>1. PICK n \in Nat : n = Len(chain)
  BY ChainType
<1>2. i \in Nat /\ j \in Nat /\ 1 =< i /\ i =< j /\ j =< n
  BY <1>1
<1>3. /\ \A k \in 1 .. n + 1 : v[k] \in Nat
      /\ v[1] = 0
      /\ \A k \in 1 .. n : v[k + 1] = v[k] + chain[k].size
  BY <1>1 DEF Sums
<1>4. PICK d \in Nat : d = j - i
  BY <1>2
<1>5. PICK m \in Nat : m = n - d /\ i =< m
  BY <1>2, <1>4
<1>6. Len(c) = m
  BY <1>1, <1>4, <1>5 DEF IsMerged
<1>7. PICK w : w = [k \in 1 .. m + 1 |-> IF k =< i THEN v[k] ELSE v[k + d]]
  OBVIOUS
<1>8. \A k \in 1 .. i : w[k] = v[k]
  BY <1>2, <1>5, <1>7
<1>9. \A k \in i + 1 .. m + 1 : w[k] = v[k + d] /\ k + d \in j + 1 .. n + 1
  BY <1>2, <1>4, <1>5, <1>7
<1>10. ASSUME NEW k \in 1 .. m + 1 PROVE w[k] \in Nat
  <2>1. CASE k =< i
    <3>1. k \in 1 .. n + 1 /\ k \in 1 .. i
      BY <1>2, <2>1
    <3> QED  BY <1>3, <1>8, <3>1
  <2>2. CASE ~(k =< i)
    <3>1. k \in i + 1 .. m + 1
      BY <1>2, <1>5, <2>2
    <3>2. w[k] = v[k + d] /\ k + d \in 1 .. n + 1
      BY <1>2, <1>9, <3>1
    <3> QED  BY <1>3, <3>2
  <2> QED  BY <2>1, <2>2
<1>11. ASSUME NEW k \in 1 .. m PROVE w[k + 1] = w[k] + c[k].size
  <2>1. CASE k < i
    <3>1. k \in 1 .. i - 1 /\ k \in 1 .. i /\ k + 1 \in 1 .. i /\ k \in 1 .. n
      BY <1>2, <2>1
    <3>2. c[k] = chain[k]
      BY <3>1 DEF IsMerged
    <3> QED  BY <1>3, <1>8, <3>1, <3>2
  <2>2. CASE k = i
    <3>1. c[k].size = SizeOf(chain, i .. j)
      BY <2>2 DEF IsMerged, Block
    <3>2. SizeOf(chain, i .. j) = v[j + 1] - v[i]
      BY SumsGive
    <3>3. i \in 1 .. i /\ i + 1 \in i + 1 .. m + 1 /\ (i + 1) + d = j + 1
      BY <1>2, <1>4, <1>5
    <3>4. w[k + 1] = v[j + 1] /\ w[k] = v[i]
      BY <1>8, <1>9, <2>2, <3>3
    <3>5. v[j + 1] \in Nat /\ v[i] \in Nat
      BY <1>2, <1>3
    <3> QED  BY <3>1, <3>2, <3>4, <3>5
  <2>3. CASE k > i
    <3>1. /\ k \in i + 1 .. m + 1 /\ k + 1 \in i + 1 .. m + 1
          /\ (k + 1) + d = (k + d) + 1
      BY <1>2, <1>4, <1>5, <2>3
    <3>2. PICK l \in j + 1 .. n : l = k + d /\ l - d = k /\ l \in 1 .. n
      BY <1>2, <1>4, <1>5, <2>3
    <3>3. c[k] = chain[l]
      BY <1>1, <1>4, <3>2 DEF IsMerged
    <3>4. w[k] = v[l] /\ w[k + 1] = v[l + 1]
      BY <1>9, <3>1, <3>2
    <3> QED  BY <1>3, <3>2, <3>3, <3>4
  <2> QED  BY <1>2, <2>1, <2>2, <2>3
<1>12. w[1] = 0
  <2>1. 1 \in 1 .. i
    BY <1>2
  <2> QED  BY <1>3, <1>8, <2>1
<1>13. w \in [1 .. Len(c) + 1 -> Nat]
  BY <1>6, <1>7, <1>10
<1>14. Sums(c, w)
  BY <1>6, <1>11, <1>12, <1>13 DEF Sums
<1>15. ASSUME NEW k \in j + 1 .. n + 1 PROVE w[k - (j - i)] = v[k]
  <2>1. k - d \in i + 1 .. m + 1 /\ (k - d) + d = k
    BY <1>2, <1>4, <1>5
  <2>2. PICK l \in i + 1 .. m + 1 : l = k - d /\ l + d = k
    BY <2>1
  <2> QED  BY <1>4, <1>9, <2>2
<1>16. MergeSums(w, v, i, j, n)
  BY <1>8, <1>15 DEF MergeSums
<1> QED  BY <1>1, <1>14, <1>16

-----------------------------------------------------------------------------
(***************************************************************************)
(* How the blocks lie in their pages.  A block is at most as far into its  *)
(* page as the blocks in front of it, in the chain, are long together, and *)
(* two blocks of one page are in the order of the chain, as far apart as   *)
(* the blocks between them are long, or further.  Blocks that are swallowed *)
(* across pages leave both as they are.                                    *)
(***************************************************************************)

Laid(chain, v) ==
    /\ \A k \in 1 .. Len(chain) : Offset(chain[k].addr) =< v[k]
    /\ \A k, l \in 1 .. Len(chain) :
          k < l /\ PageOf(chain[k].addr) = PageOf(chain[l].addr)
            => v[l] - v[k] =< chain[l].addr - chain[k].addr

AllBytes(chain) == SizeOf(chain, DOMAIN chain)

\* all blocks together fit a page
Fit(chain) == AllBytes(chain) =< PageSize

\* A block ends in its page, and before the next one of that page begins.
LEMMA LaidApart ==
    ASSUME NEW chain, ChainOK(chain), NEW v, Sums(chain, v), Laid(chain, v),
           Fit(chain), NEW k \in 1 .. Len(chain)
    PROVE  /\ Offset(chain[k].addr) + chain[k].size =< PageSize
           /\ \A l \in 1 .. Len(chain) :
                 k < l /\ PageOf(chain[k].addr) = PageOf(chain[l].addr)
                   => chain[k].addr + chain[k].size =< chain[l].addr
<1>1. PICK n \in Nat : n = Len(chain)
  BY ChainType
<1>2. n \in k .. Len(chain)
  BY <1>1
<1>3. v[k] + chain[k].size =< v[n + 1] /\ v[n + 1] =< PageSize
  BY <1>1, <1>2, SumsGive DEF Fit, AllBytes
<1>4. k \in 1 .. n + 1 /\ n + 1 \in 1 .. n + 1
  BY <1>1
<1>5. /\ v[k] \in Nat /\ v[n + 1] \in Nat
      /\ chain[k].size \in Nat /\ chain[k].addr \in Nat
  BY <1>1, <1>4, ChainType DEF Sums
<1>6. Offset(chain[k].addr) \in Nat /\ Offset(chain[k].addr) =< v[k]
  BY <1>5, OffsetType DEF Laid
<1>7. Offset(chain[k].addr) + chain[k].size =< PageSize
  BY <1>3, <1>5, <1>6, Units
<1>8. ASSUME NEW l \in 1 .. Len(chain), k < l,
             PageOf(chain[k].addr) = PageOf(chain[l].addr)
      PROVE  chain[k].addr + chain[k].size =< chain[l].addr
  <2>1. PICK j : j = l - 1
    OBVIOUS
  <2>2. j \in k .. Len(chain) /\ j + 1 = l /\ l \in 1 .. n + 1
    BY <1>1, <1>8, <2>1
  <2>3. v[k] + chain[k].size =< v[j + 1]
    BY <2>2, SumsGive
  <2>4. v[l] - v[k] =< chain[l].addr - chain[k].addr
    BY <1>8 DEF Laid
  <2>5. v[l] \in Nat /\ chain[l].addr \in Nat
    BY <1>1, <2>2, ChainType DEF Sums
  <2>6. v[k] + chain[k].size =< v[l]
    BY <2>2, <2>3
  <2>7. PICK x \in Nat, y \in Nat, s \in Nat, a \in Nat, b \in Nat :
           x = v[k] /\ y = v[l] /\ s = chain[k].size /\ a = chain[k].addr /\ b = chain[l].addr
    BY <1>5, <2>5
  <2>8. y - x =< b - a /\ x + s =< y
    BY <2>4, <2>6, <2>7
  <2>9. a + s =< b
    BY <2>8
  <2> QED  BY <2>7, <2>9
<1> QED  BY <1>7, <1>8

\* No two blocks begin at the same address.
LEMMA AddressesDiffer ==
    ASSUME NEW chain, ChainOK(chain), NEW v, Sums(chain, v), Laid(chain, v),
           Fit(chain), NEW k \in 1 .. Len(chain), NEW l \in 1 .. Len(chain),
           chain[k].addr = chain[l].addr
    PROVE  k = l
<1>1. /\ chain[k].addr \in Nat /\ chain[k].size \in Nat /\ chain[k].size > Hdr
      /\ chain[l].addr \in Nat /\ chain[l].size \in Nat /\ chain[l].size > Hdr
  BY ChainType
<1>2. ~(k < l)
  <2>1. SUFFICES ASSUME k < l PROVE FALSE
    OBVIOUS
  <2>2. chain[k].addr + chain[k].size =< chain[l].addr
    BY <2>1, LaidApart
  <2> QED  BY <1>1, <2>2, Units
<1>3. ~(l < k)
  <2>1. SUFFICES ASSUME l < k PROVE FALSE
    OBVIOUS
  <2>2. chain[l].addr + chain[l].size =< chain[k].addr
    BY <2>1, LaidApart
  <2> QED  BY <1>1, <2>2, Units
<1> QED  BY <1>2, <1>3

\* Every block of c begins at a block of chain, or within one, in its order.
IsDerived(c, w, chain, v) ==
    \E p \in [1 .. Len(c) -> 1 .. Len(chain)], e \in [1 .. Len(c) -> Nat] :
       /\ \A k \in 1 .. Len(c) :
             /\ c[k].addr = chain[p[k]].addr + e[k]
             /\ w[k] = v[p[k]] + e[k]
             /\ Offset(chain[p[k]].addr) + e[k] < PageSize
       /\ \A k, l \in 1 .. Len(c) : k < l => p[k] =< p[l]

\* no block of c is on another page than those of chain
SamePages(c, chain) ==
    \A k \in 1 .. Len(c) : \E l \in 1 .. Len(chain) :
       PageOf(c[k].addr) = PageOf(chain[l].addr)

\* What is derived from blocks that lie in order lies in order.
LEMMA DerivedLaid ==
    ASSUME NEW chain, ChainOK(chain), NEW v, Sums(chain, v), Laid(chain, v),
           NEW c, NEW w, IsDerived(c, w, chain, v)
    PROVE  Laid(c, w) /\ SamePages(c, chain)
<1>1. PICK p \in [1 .. Len(c) -> 1 .. Len(chain)], e \in [1 .. Len(c) -> Nat] :
         /\ \A k \in 1 .. Len(c) :
               /\ c[k].addr = chain[p[k]].addr + e[k]
               /\ w[k] = v[p[k]] + e[k]
               /\ Offset(chain[p[k]].addr) + e[k] < PageSize
         /\ \A k, l \in 1 .. Len(c) : k < l => p[k] =< p[l]
  BY DEF IsDerived
<1>2. ASSUME NEW k \in 1 .. Len(c)
      PROVE  /\ p[k] \in 1 .. Len(chain) /\ e[k] \in Nat
             /\ chain[p[k]].addr \in Nat /\ v[p[k]] \in Nat
             /\ PageOf(c[k].addr) = PageOf(chain[p[k]].addr)
             /\ Offset(c[k].addr) = Offset(chain[p[k]].addr) + e[k]
  <2>1. PICK q \in 1 .. Len(chain) : q = p[k]
    BY <1>1
  <2>2. PICK d \in Nat : d = e[k]
    BY <1>1
  <2>3. PICK a \in Nat : a = chain[q].addr
    BY ChainType
  <2>4. c[k].addr = a + d /\ Offset(a) + d < PageSize
    BY <1>1, <2>1, <2>2, <2>3
  <2>5. Offset(a + d) = Offset(a) + d /\ PageOf(a + d) = PageOf(a)
    BY <2>4, StepInPage
  <2>6. q \in 1 .. Len(chain) + 1
    BY ChainType
  <2>7. v[q] \in Nat
    BY <2>6 DEF Sums
  <2> QED  BY <2>1, <2>2, <2>3, <2>4, <2>5, <2>7
<1>3. ASSUME NEW k \in 1 .. Len(c) PROVE Offset(c[k].addr) =< w[k]
  <2>1. Offset(chain[p[k]].addr) =< v[p[k]]
    BY <1>2 DEF Laid
  <2>2. Offset(chain[p[k]].addr) \in Nat
    BY <1>2, OffsetType
  <2>3. w[k] = v[p[k]] + e[k]
    BY <1>1
  <2> QED  BY <1>2, <2>1, <2>2, <2>3
<1>4. ASSUME NEW k \in 1 .. Len(c), NEW l \in 1 .. Len(c), k < l,
             PageOf(c[k].addr) = PageOf(c[l].addr)
      PROVE  w[l] - w[k] =< c[l].addr - c[k].addr
  <2>1. /\ c[k].addr = chain[p[k]].addr + e[k] /\ w[k] = v[p[k]] + e[k]
        /\ c[l].addr = chain[p[l]].addr + e[l] /\ w[l] = v[p[l]] + e[l]
        /\ p[k] =< p[l]
    BY <1>1, <1>4
  <2>2. v[p[l]] - v[p[k]] =< chain[p[l]].addr - chain[p[k]].addr
    <3>1. CASE p[k] = p[l]
      <4>1. PICK x \in Nat, y \in Nat : x = v[p[l]] /\ y = chain[p[l]].addr
        BY <1>2
      <4>2. x - x =< y - y
        BY <4>1
      <4> QED  BY <3>1, <4>1, <4>2
    <3>2. CASE p[k] # p[l]
      <4>1. p[k] < p[l]
        BY <1>2, <2>1, <3>2
      <4>2. PageOf(chain[p[k]].addr) = PageOf(chain[p[l]].addr)
        BY <1>2, <1>4
      <4> QED  BY <1>2, <4>1, <4>2 DEF Laid
    <3> QED  BY <3>1, <3>2
  <2>3. /\ chain[p[k]].addr \in Nat /\ v[p[k]] \in Nat /\ e[k] \in Nat
        /\ chain[p[l]].addr \in Nat /\ v[p[l]] \in Nat /\ e[l] \in Nat
    BY <1>2
  <2>4. PICK a \in Nat, x \in Nat, d \in Nat :
           a = chain[p[k]].addr /\ x = v[p[k]] /\ d = e[k]
    BY <2>3
  <2>5. PICK b \in Nat, y \in Nat, f \in Nat :
           b = chain[p[l]].addr /\ y = v[p[l]] /\ f = e[l]
    BY <2>3
  <2>6. y - x =< b - a
    BY <2>2, <2>4, <2>5
  <2>7. (y + f) - (x + d) =< (b + f) - (a + d)
    BY <2>6
  <2> QED  BY <2>1, <2>4, <2>5, <2>7
<1>5. Laid(c, w)
  BY <1>3, <1>4 DEF Laid
<1>6. \A k \in 1 .. Len(c) : \E l \in 1 .. Len(chain) : PageOf(c[k].addr) = PageOf(chain[l].addr)
  BY <1>2
<1> QED  BY <1>5, <1>6 DEF SamePages

\* An offset lies below the page size.
LEMMA OffsetBelow == \A a \in Nat : Offset(a) \in Nat /\ Offset(a) < PageSize /\ Offset(a) + 0 < PageSize
<1> SUFFICES ASSUME NEW a \in Nat
             PROVE  Offset(a) \in Nat /\ Offset(a) < PageSize /\ Offset(a) + 0 < PageSize
  OBVIOUS
<1>1. Offset(a) \in 0 .. PageSize - 1
  BY PageAndOffset
<1> QED  BY <1>1, Units

\* A chain of which a block is taken is derived from it.
LEMMA TakenDerived ==
    ASSUME NEW chain, ChainOK(chain), NEW v, Sums(chain, v),
           NEW i \in 1 .. Len(chain), NEW c, IsTaken(c, chain, i)
    PROVE  IsDerived(c, v, chain, v)
<1>1. PICK n \in Nat : n = Len(chain)
  BY ChainType
<1>2. Len(c) = n
  BY <1>1 DEF IsTaken
<1>3. PICK p : p = [k \in 1 .. n |-> k]
  OBVIOUS
<1>4. PICK e : e = [k \in 1 .. n |-> 0]
  OBVIOUS
<1>5. p \in [1 .. Len(c) -> 1 .. Len(chain)] /\ e \in [1 .. Len(c) -> Nat]
  BY <1>1, <1>2, <1>3, <1>4
<1>6. ASSUME NEW k \in 1 .. Len(c)
      PROVE  /\ c[k].addr = chain[p[k]].addr + e[k]
             /\ v[k] = v[p[k]] + e[k]
             /\ Offset(chain[p[k]].addr) + e[k] < PageSize
  <2>1. k \in 1 .. n /\ k \in 1 .. Len(chain) /\ k \in 1 .. Len(chain) + 1
    BY <1>1, <1>2
  <2>2. p[k] = k /\ e[k] = 0
    BY <1>3, <1>4, <2>1
  <2>3. c[k].addr = chain[k].addr
    BY <2>1 DEF IsTaken, Block
  <2>4. chain[k].addr \in Nat /\ v[k] \in Nat
    BY <2>1, ChainType DEF Sums
  <2>5. Offset(chain[k].addr) + 0 < PageSize
    BY <2>4, OffsetBelow
  <2>6. chain[k].addr = chain[k].addr + 0 /\ v[k] = v[k] + 0
    BY <2>4
  <2> QED  BY <2>2, <2>3, <2>5, <2>6
<1>7. \A k, l \in 1 .. Len(c) : k < l => p[k] =< p[l]
  BY <1>1, <1>2, <1>3
<1> QED  BY <1>5, <1>6, <1>7 DEF IsDerived

\* A chain of which a block is divided within its page is derived from it.
LEMMA SplitDerived ==
    ASSUME NEW chain, ChainOK(chain), NEW v, Sums(chain, v),
           NEW i \in 1 .. Len(chain), NEW need \in Nat,
           Offset(chain[i].addr) + need < PageSize,
           NEW c, IsSplit(c, chain, i, need),
           NEW w, SplitSums(w, v, i, Len(chain), need)
    PROVE  IsDerived(c, w, chain, v)
<1>1. PICK n \in Nat : n = Len(chain)
  BY ChainType
<1>2. Len(c) = n + 1 /\ i \in Nat /\ 1 =< i /\ i =< n
  BY <1>1 DEF IsSplit
<1>3. PICK p : p = [k \in 1 .. n + 1 |-> IF k =< i THEN k ELSE k - 1]
  OBVIOUS
<1>4. PICK e : e = [k \in 1 .. n + 1 |-> IF k = i + 1 THEN need ELSE 0]
  OBVIOUS
<1>5. p \in [1 .. Len(c) -> 1 .. Len(chain)] /\ e \in [1 .. Len(c) -> Nat]
  <2>1. \A k \in 1 .. n + 1 : p[k] \in 1 .. n
    BY <1>1, <1>2, <1>3
  <2> QED  BY <1>1, <1>2, <1>3, <1>4, <2>1
<1>6. ASSUME NEW k \in 1 .. Len(c)
      PROVE  /\ c[k].addr = chain[p[k]].addr + e[k]
             /\ w[k] = v[p[k]] + e[k]
             /\ Offset(chain[p[k]].addr) + e[k] < PageSize
  <2>1. PICK q : q = p[k]
    OBVIOUS
  <2>2. k \in 1 .. n + 1 /\ q \in 1 .. n /\ q \in 1 .. Len(chain) /\ q \in 1 .. Len(chain) + 1
    BY <1>1, <1>2, <1>5, <2>1
  <2>3. chain[q].addr \in Nat /\ v[q] \in Nat
    BY <2>2, ChainType DEF Sums
  <2>4. Offset(chain[q].addr) + 0 < PageSize
    BY <2>3, OffsetBelow
  <2>5. chain[q].addr = chain[q].addr + 0 /\ v[q] = v[q] + 0
    BY <2>3
  <2>6. CASE k =< i
    <3>1. q = k /\ e[k] = 0 /\ k \in 1 .. i
      BY <1>2, <1>3, <1>4, <2>1, <2>2, <2>6
    <3>2. c[k].addr = chain[k].addr
      <4>1. CASE k = i
        BY <4>1 DEF IsSplit, Block
      <4>2. CASE k # i
        <5>1. k \in 1 .. i - 1
          BY <1>2, <3>1, <4>2
        <5> QED  BY <5>1 DEF IsSplit
      <4> QED  BY <4>1, <4>2
    <3>3. w[k] = v[k]
      BY <3>1 DEF SplitSums
    <3> QED  BY <2>1, <2>4, <2>5, <3>1, <3>2, <3>3
  <2>7. CASE k = i + 1
    <3>1. q = i /\ e[k] = need
      BY <1>2, <1>3, <1>4, <2>1, <2>2, <2>7
    <3>2. c[k].addr = chain[i].addr + need
      BY <2>7 DEF IsSplit, Block
    <3>3. w[k] = v[i] + need
      BY <2>7 DEF SplitSums
    <3> QED  BY <2>1, <3>1, <3>2, <3>3
  <2>8. CASE k > i + 1
    <3>1. q = k - 1 /\ e[k] = 0 /\ q + 1 = k
      BY <1>2, <1>3, <1>4, <2>1, <2>2, <2>8
    <3>2. q \in i + 1 .. Len(chain) /\ q \in i + 1 .. Len(chain) + 1
      BY <1>1, <1>2, <2>2, <2>8, <3>1
    <3>3. c[q + 1] = chain[q]
      BY <3>2 DEF IsSplit
    <3>4. w[q + 1] = v[q]
      BY <3>2 DEF SplitSums
    <3> QED  BY <2>1, <2>4, <2>5, <3>1, <3>3, <3>4
  <2> QED  BY <1>2, <2>2, <2>6, <2>7, <2>8
<1>7. ASSUME NEW k \in 1 .. n + 1, NEW l \in 1 .. n + 1, k < l PROVE p[k] =< p[l]
  BY <1>1, <1>2, <1>3, <1>7
<1> QED  BY <1>2, <1>5, <1>6, <1>7 DEF IsDerived

\* A chain of which a run is merged is derived from it.
LEMMA MergedDerived ==
    ASSUME NEW chain, ChainOK(chain), NEW v, Sums(chain, v),
           NEW i \in 1 .. Len(chain), NEW j \in i .. Len(chain),
           NEW c, IsMerged(c, chain, i, j),
           NEW w, MergeSums(w, v, i, j, Len(chain))
    PROVE  IsDerived(c, w, chain, v)
<1>1. PICK n \in Nat : n = Len(chain)
  BY ChainType
<1>2. i \in Nat /\ j \in Nat /\ 1 =< i /\ i =< j /\ j =< n
  BY <1>1
<1>3. PICK d \in Nat : d = j - i
  BY <1>2
<1>4. PICK m \in Nat : m = n - d /\ i =< m
  BY <1>2, <1>3
<1>5. Len(c) = m
  BY <1>1, <1>3, <1>4 DEF IsMerged
<1>6. PICK p : p = [k \in 1 .. m |-> IF k =< i THEN k ELSE k + d]
  OBVIOUS
<1>7. PICK e : e = [k \in 1 .. m |-> 0]
  OBVIOUS
<1>8. p \in [1 .. Len(c) -> 1 .. Len(chain)] /\ e \in [1 .. Len(c) -> Nat]
  <2>1. \A k \in 1 .. m : p[k] \in 1 .. n
    BY <1>2, <1>3, <1>4, <1>6
  <2> QED  BY <1>1, <1>5, <1>6, <1>7, <2>1
<1>9. ASSUME NEW k \in 1 .. m
      PROVE  c[k].addr = chain[p[k]].addr /\ w[k] = v[p[k]]
  <2>1. CASE k < i
    <3>1. p[k] = k /\ k \in 1 .. i - 1 /\ k \in 1 .. i
      BY <1>2, <1>6, <2>1
    <3> QED  BY <3>1 DEF IsMerged, MergeSums
  <2>2. CASE k = i
    <3>1. p[k] = i /\ i \in 1 .. i
      BY <1>2, <1>6, <2>2
    <3> QED  BY <2>2, <3>1 DEF IsMerged, MergeSums, Block
  <2>3. CASE k > i
    <3>1. PICK q : q = k + d
      OBVIOUS
    <3>2. /\ p[k] = q /\ q - (j - i) = k
          /\ q \in j + 1 .. Len(chain) /\ q \in j + 1 .. Len(chain) + 1
      BY <1>1, <1>2, <1>3, <1>4, <1>6, <2>3, <3>1
    <3>3. c[q - (j - i)] = chain[q]
      BY <3>2 DEF IsMerged
    <3>4. w[q - (j - i)] = v[q]
      BY <3>2 DEF MergeSums
    <3> QED  BY <3>2, <3>3, <3>4
  <2> QED  BY <1>2, <2>1, <2>2, <2>3
<1>10. ASSUME NEW k \in 1 .. Len(c)
       PROVE  /\ c[k].addr = chain[p[k]].addr + e[k]
              /\ w[k] = v[p[k]] + e[k]
              /\ Offset(chain[p[k]].addr) + e[k] < PageSize
  <2>1. PICK q : q = p[k]
    OBVIOUS
  <2>2. q \in 1 .. Len(chain) /\ q \in 1 .. Len(chain) + 1 /\ e[k] = 0
    BY <1>1, <1>5, <1>7, <1>8, <2>1
  <2>3. chain[q].addr \in Nat /\ v[q] \in Nat
    BY <2>2, ChainType DEF Sums
  <2>4. Offset(chain[q].addr) + 0 < PageSize
    BY <2>3, OffsetBelow
  <2>5. chain[q].addr = chain[q].addr + 0 /\ v[q] = v[q] + 0
    BY <2>3
  <2>6. c[k].addr = chain[q].addr /\ w[k] = v[q]
    BY <1>5, <1>9, <2>1
  <2> QED  BY <2>1, <2>2, <2>4, <2>5, <2>6
<1>11. ASSUME NEW k \in 1 .. m, NEW l \in 1 .. m, k < l PROVE p[k] =< p[l]
  BY <1>2, <1>3, <1>4, <1>6, <1>11
<1> QED  BY <1>5, <1>8, <1>10, <1>11 DEF IsDerived

\* A block that begins a page which the chain has no part of.
LEMMA AppendedLaid ==
    ASSUME NEW chain, ChainOK(chain), NEW v, Sums(chain, v), Laid(chain, v),
           NEW b, b \in Blocks, b.addr % PageSize = 0,
           \A k \in 1 .. Len(chain) : PageOf(chain[k].addr) # b.addr,
           NEW c, IsAppended(c, chain, b),
           NEW w, AppendSums(w, v, Len(chain), b.size)
    PROVE  Laid(c, w)
<1>1. PICK n \in Nat : n = Len(chain)
  BY ChainType
<1>2. b.addr \in Nat
  BY DEF Blocks
<1>3. Offset(b.addr) = 0 /\ PageOf(b.addr) = b.addr
  BY <1>2, PageOfPage
<1>4. PICK m \in Nat : m = n + 1
  BY <1>1
<1>5. Len(c) = m /\ c[m] = b
  BY <1>1, <1>4 DEF IsAppended
<1>6. \A k \in 1 .. n : c[k] = chain[k] /\ w[k] = v[k]
  <2>1. \A k \in 1 .. n : k \in 1 .. n + 1
    BY <1>1
  <2> QED  BY <1>1, <2>1 DEF IsAppended, AppendSums
<1>7. w[m] \in Nat
  <2>1. m \in 1 .. Len(chain) + 1
    BY <1>1, <1>4
  <2>2. w[m] = v[m] /\ v[m] \in Nat
    BY <2>1 DEF AppendSums, Sums
  <2> QED  BY <2>2
<1>8. ASSUME NEW k \in 1 .. m PROVE Offset(c[k].addr) =< w[k]
  <2>1. CASE k = m
    BY <1>3, <1>5, <1>7, <2>1
  <2>2. CASE k # m
    <3>1. k \in 1 .. n /\ k \in 1 .. Len(chain)
      BY <1>1, <1>4, <2>2
    <3> QED  BY <1>6, <3>1 DEF Laid
  <2> QED  BY <2>1, <2>2
<1>9. ASSUME NEW k \in 1 .. m, NEW l \in 1 .. m, k < l,
             PageOf(c[k].addr) = PageOf(c[l].addr)
      PROVE  w[l] - w[k] =< c[l].addr - c[k].addr
  <2>1. k \in 1 .. n /\ k \in 1 .. Len(chain)
    BY <1>1, <1>4, <1>9
  <2>2. l # m
    BY <1>3, <1>5, <1>6, <1>9, <2>1
  <2>3. l \in 1 .. n /\ l \in 1 .. Len(chain)
    BY <1>1, <1>4, <2>2
  <2> QED  BY <1>6, <1>9, <2>1, <2>3 DEF Laid
<1> QED  BY <1>5, <1>8, <1>9 DEF Laid

-----------------------------------------------------------------------------
(***************************************************************************)
(* Which blocks the operations keep                                        *)
(***************************************************************************)

\* c has the blocks in use of chain, but for that at i, which is free: block l
\* of c was block o[l]
Kept(c, chain, i, o) ==
    /\ i \in 1 .. Len(c) /\ c[i].is_free
    /\ o \in [1 .. Len(c) -> 1 .. Len(chain)]
    /\ \A l \in 1 .. Len(c) : l # i => o[l] # i /\ c[l] = chain[o[l]]
    /\ \A k \in 1 .. Len(chain) : ~chain[k].is_free /\ k # i =>
          \E l \in 1 .. Len(c) : l # i /\ o[l] = k /\ c[l] = chain[k]

\* Merging a run keeps the blocks in use but the first of the run.
LEMMA FreeKeeps ==
    ASSUME NEW chain, ChainOK(chain),
           NEW i \in 1 .. Len(chain), NEW j \in i .. Len(chain),
           IsRun(chain, i, j), NEW c, IsMerged(c, chain, i, j)
    PROVE  \E o : Kept(c, chain, i, o)
<1>1. PICK n \in Nat : n = Len(chain)
  BY ChainType
<1>2. i \in Nat /\ j \in Nat /\ 1 =< i /\ i =< j /\ j =< n
  BY <1>1
<1>3. PICK d \in Nat : d = j - i
  BY <1>2
<1>4. PICK m \in Nat : m = n - d /\ i =< m
  BY <1>2, <1>3
<1>5. Len(c) = m
  BY <1>1, <1>3, <1>4 DEF IsMerged
<1>6. PICK o : o = [l \in 1 .. m |-> IF l =< i THEN l ELSE l + d]
  OBVIOUS
<1>7. o \in [1 .. Len(c) -> 1 .. Len(chain)]
  <2>1. \A l \in 1 .. m : o[l] \in 1 .. n
    BY <1>2, <1>3, <1>4, <1>6
  <2> QED  BY <1>1, <1>5, <1>6, <2>1
<1>8. ASSUME NEW k \in j + 1 .. n
      PROVE  /\ k - d \in 1 .. m /\ k - d > i /\ o[k - d] = k
             /\ c[k - d] = chain[k]
  <2>1. PICK l : l = k - d
    OBVIOUS
  <2>2. l \in 1 .. m /\ l > i /\ l + d = k /\ k \in j + 1 .. Len(chain)
    BY <1>1, <1>2, <1>3, <1>4, <2>1
  <2>3. o[l] = k
    BY <1>2, <1>6, <2>2
  <2>4. c[l] = chain[k]
    BY <1>3, <2>1, <2>2 DEF IsMerged
  <2> QED  BY <2>1, <2>2, <2>3, <2>4
<1>9. ASSUME NEW l \in 1 .. m, l # i PROVE o[l] # i /\ c[l] = chain[o[l]]
  <2>1. CASE l < i
    <3>1. o[l] = l /\ l \in 1 .. i - 1
      BY <1>2, <1>6, <2>1
    <3> QED  BY <1>2, <3>1 DEF IsMerged
  <2>2. CASE l > i
    <3>1. PICK k \in j + 1 .. n : k = l + d /\ l = k - d
      BY <1>2, <1>3, <1>4, <2>2
    <3>2. o[l] = k /\ c[l] = chain[k] /\ k # i
      BY <1>2, <1>8, <3>1
    <3> QED  BY <3>2
  <2> QED  BY <1>2, <1>9, <2>1, <2>2
<1>10. ASSUME NEW k \in 1 .. n, ~chain[k].is_free, k # i
       PROVE  \E l \in 1 .. m : l # i /\ o[l] = k /\ c[l] = chain[k]
  <2>1. CASE k < i
    <3>1. k \in 1 .. m /\ o[k] = k /\ k \in 1 .. i - 1
      BY <1>2, <1>4, <1>6, <2>1
    <3>2. c[k] = chain[k]
      BY <3>1 DEF IsMerged
    <3> QED  BY <1>10, <3>1, <3>2
  <2>2. CASE k > i
    <3>1. ~(k \in i + 1 .. j)
      BY <1>10 DEF IsRun
    <3>2. k \in j + 1 .. n
      BY <1>2, <2>2, <3>1
    <3>3. k - d \in 1 .. m /\ k - d # i /\ o[k - d] = k /\ c[k - d] = chain[k]
      BY <1>2, <1>8, <3>2
    <3> QED  BY <3>3
  <2> QED  BY <1>2, <1>10, <2>1, <2>2
<1>11. i \in 1 .. m /\ c[i].is_free
  <2>1. c[i].is_free
    BY DEF IsMerged, Block
  <2> QED  BY <1>2, <1>4, <2>1
<1> QED  BY <1>1, <1>5, <1>7, <1>9, <1>10, <1>11 DEF Kept

\* c has the blocks in use of chain and a new one at x: block l of c was block
\* o[l]
Placed(c, chain, x, o) ==
    /\ x \in 1 .. Len(c) /\ ~c[x].is_free
    /\ \A l \in 1 .. Len(c) : l # x /\ ~c[l].is_free =>
          o[l] \in 1 .. Len(chain) /\ c[l] = chain[o[l]]
    /\ \A k \in 1 .. Len(chain) : ~chain[k].is_free =>
          \E l \in 1 .. Len(c) : l # x /\ o[l] = k /\ c[l] = chain[k]

\* Dividing a free block puts one block in use into the chain.
LEMMA SplitPlaces ==
    ASSUME NEW chain, ChainOK(chain), NEW i \in 1 .. Len(chain), chain[i].is_free,
           NEW need, NEW c, IsSplit(c, chain, i, need)
    PROVE  \E o : Placed(c, chain, i, o)
<1>1. PICK n \in Nat : n = Len(chain)
  BY ChainType
<1>2. Len(c) = n + 1 /\ i \in Nat /\ 1 =< i /\ i =< n
  BY <1>1 DEF IsSplit
<1>3. PICK o : o = [k \in 1 .. n + 1 |-> IF k =< i THEN k ELSE k - 1]
  OBVIOUS
<1>4. ASSUME NEW k \in 1 .. n, k # i
      PROVE  \E l \in 1 .. n + 1 : l # i /\ o[l] = k /\ c[l] = chain[k]
  <2>1. CASE k < i
    <3>1. k \in 1 .. n + 1 /\ o[k] = k /\ k \in 1 .. i - 1
      BY <1>2, <1>3, <2>1
    <3>2. c[k] = chain[k]
      BY <3>1 DEF IsSplit
    <3> QED  BY <1>4, <3>1, <3>2
  <2>2. CASE k > i
    <3>1. PICK l : l = k + 1
      OBVIOUS
    <3>2. l \in 1 .. n + 1 /\ l # i /\ o[l] = k /\ k \in i + 1 .. Len(chain)
      BY <1>1, <1>2, <1>3, <2>2, <3>1
    <3>3. c[l] = chain[k]
      BY <3>1, <3>2 DEF IsSplit
    <3> QED  BY <3>2, <3>3
  <2> QED  BY <1>2, <1>4, <2>1, <2>2
<1>5. ASSUME NEW l \in 1 .. n + 1, l # i, ~c[l].is_free
      PROVE  o[l] \in 1 .. n /\ c[l] = chain[o[l]]
  <2>1. CASE l < i
    <3>1. o[l] = l /\ l \in 1 .. n /\ l \in 1 .. i - 1
      BY <1>2, <1>3, <2>1
    <3> QED  BY <3>1 DEF IsSplit
  <2>2. CASE l > i
    <3>1. l # i + 1
      <4>1. c[i + 1].is_free
        BY DEF IsSplit, Block
      <4> QED  BY <1>5, <4>1
    <3>2. PICK k \in i + 1 .. n : k = l - 1 /\ k + 1 = l
      BY <1>2, <2>2, <3>1
    <3>3. o[l] = k /\ k \in 1 .. n /\ k \in i + 1 .. Len(chain)
      BY <1>1, <1>2, <1>3, <2>2, <3>2
    <3>4. c[k + 1] = chain[k]
      BY <3>3 DEF IsSplit
    <3> QED  BY <3>2, <3>3, <3>4
  <2> QED  BY <1>2, <1>5, <2>1, <2>2
<1>6. i \in 1 .. n + 1 /\ ~c[i].is_free
  <2>1. ~c[i].is_free
    BY DEF IsSplit, Block
  <2> QED  BY <1>2, <2>1
<1>7. Placed(c, chain, i, o)
  BY <1>1, <1>2, <1>4, <1>5, <1>6 DEF Placed
<1> QED  BY <1>7

\* So does taking it whole.
LEMMA TakenPlaces ==
    ASSUME NEW chain, ChainOK(chain), NEW i \in 1 .. Len(chain), chain[i].is_free,
           NEW c, IsTaken(c, chain, i)
    PROVE  \E o : Placed(c, chain, i, o)
<1>1. PICK o : o = [k \in 1 .. Len(chain) |-> k]
  OBVIOUS
<1>2. Len(c) = Len(chain) /\ ~c[i].is_free
  BY DEF IsTaken, Block
<1>3. \A k \in 1 .. Len(chain) : o[k] = k /\ (k # i => c[k] = chain[k])
  BY <1>1 DEF IsTaken
<1>4. Placed(c, chain, i, o)
  BY <1>2, <1>3 DEF Placed
<1> QED  BY <1>4

\* So does a page that becomes a block.
LEMMA AppendPlaces ==
    ASSUME NEW chain, ChainOK(chain), NEW b, ~b.is_free,
           NEW c, IsAppended(c, chain, b)
    PROVE  \E o : Placed(c, chain, Len(chain) + 1, o)
<1>1. PICK n \in Nat : n = Len(chain)
  BY ChainType
<1>2. PICK o : o = [k \in 1 .. n |-> k]
  OBVIOUS
<1>3. Len(c) = n + 1 /\ c[n + 1] = b /\ n + 1 \in 1 .. n + 1
  BY <1>1 DEF IsAppended
<1>4. \A k \in 1 .. n : o[k] = k /\ c[k] = chain[k]
  BY <1>1, <1>2 DEF IsAppended
<1>5. \A k \in 1 .. n + 1 : k # n + 1 => k \in 1 .. n
  BY <1>1
<1>6. \A k \in 1 .. n : k \in 1 .. n + 1 /\ k # n + 1
  BY <1>1
<1>7. Placed(c, chain, n + 1, o)
  BY <1>1, <1>3, <1>4, <1>5, <1>6 DEF Placed
<1> QED  BY <1>1, <1>7

-----------------------------------------------------------------------------
(***************************************************************************)
(* The callers.  Whatever overlaps, every block in use can be given to a   *)
(* caller's pointer, so that nobody's pointer is without a block: then     *)
(* Pmm_Free finds one, if perhaps not the caller's own.                    *)
(***************************************************************************)

Held == [ptr : Nat, size : Requests]

\* h[k] points behind the header of block k, if that is in use
Labels(chain, h) ==
    \A k \in 1 .. Len(chain) : ~chain[k].is_free => chain[k].addr = h[k].ptr - Hdr

\* blocks in use other than x are given to everybody in L
CoversBut(chain, h, L, x) ==
    \A a \in L : \E k \in 1 .. Len(chain) : k # x /\ ~chain[k].is_free /\ h[k] = a

\* g labels the new block at x with b, and covers whom h covered without it
Relabelled(c, chain, g, h, x, b) ==
    /\ Labels(c, g)
    /\ x \in 1 .. Len(c) /\ ~c[x].is_free /\ g[x] = b
    /\ \A L : CoversBut(chain, h, L, 0) => CoversBut(c, g, L, x)

\* The new block gets the new pointer, the others keep theirs.
LEMMA AllocateLabels ==
    ASSUME NEW chain, NEW h, Labels(chain, h),
           NEW c, NEW x, NEW o, Placed(c, chain, x, o),
           NEW b, c[x].addr = b.ptr - Hdr
    PROVE  \E g : Relabelled(c, chain, g, h, x, b)
<1>1. PICK g : g = [l \in 1 .. Len(c) |-> IF l = x THEN b ELSE h[o[l]]]
  OBVIOUS
<1>2. x \in 1 .. Len(c) /\ ~c[x].is_free
  BY DEF Placed
<1>3. g[x] = b /\ \A l \in 1 .. Len(c) : l # x => g[l] = h[o[l]]
  BY <1>1, <1>2
<1>4. ASSUME NEW l \in 1 .. Len(c), ~c[l].is_free PROVE c[l].addr = g[l].ptr - Hdr
  <2>1. CASE l = x
    BY <1>3, <2>1
  <2>2. CASE l # x
    <3>1. o[l] \in 1 .. Len(chain) /\ c[l] = chain[o[l]]
      BY <1>4, <2>2 DEF Placed
    <3>2. chain[o[l]].addr = h[o[l]].ptr - Hdr
      BY <1>4, <3>1 DEF Labels
    <3> QED  BY <1>3, <2>2, <3>1, <3>2
  <2> QED  BY <2>1, <2>2
<1>5. ASSUME NEW L, CoversBut(chain, h, L, 0), NEW a \in L
      PROVE  \E l \in 1 .. Len(c) : l # x /\ ~c[l].is_free /\ g[l] = a
  <2>1. PICK k \in 1 .. Len(chain) : ~chain[k].is_free /\ h[k] = a
    BY <1>5 DEF CoversBut
  <2>2. PICK l \in 1 .. Len(c) : l # x /\ o[l] = k /\ c[l] = chain[k]
    BY <2>1 DEF Placed
  <2> QED  BY <1>3, <2>1, <2>2
<1>6. \A L : CoversBut(chain, h, L, 0) => CoversBut(c, g, L, x)
  BY <1>5 DEF CoversBut
<1>7. Labels(c, g)
  BY <1>4 DEF Labels
<1>8. Relabelled(c, chain, g, h, x, b)
  BY <1>2, <1>3, <1>6, <1>7 DEF Relabelled
<1> QED  BY <1>8

\* g covers whom h covered without y
Unlabelled(c, chain, g, h, y) ==
    /\ Labels(c, g)
    /\ \A L : CoversBut(chain, h, L, y) => CoversBut(c, g, L, 0)

\* If the block that is freed was given to another pointer than block y, which
\* begins at the same address, then that pointer gets block y.
LEMMA FreeLabels ==
    ASSUME NEW chain, NEW h, Labels(chain, h),
           NEW i \in 1 .. Len(chain), NEW y \in 1 .. Len(chain), ~chain[y].is_free,
           chain[i].addr = chain[y].addr,
           NEW c, NEW o, Kept(c, chain, i, o)
    PROVE  \E g : Unlabelled(c, chain, g, h, y)
<1>1. PICK s : s = [k \in 1 .. Len(chain) |->
                      IF k = y /\ ~chain[i].is_free THEN h[i] ELSE h[k]]
  OBVIOUS
<1>2. PICK g : g = [l \in 1 .. Len(c) |-> s[o[l]]]
  OBVIOUS
<1>3. /\ i \in 1 .. Len(c) /\ c[i].is_free
      /\ o \in [1 .. Len(c) -> 1 .. Len(chain)]
  BY DEF Kept
<1>4. ASSUME NEW k \in 1 .. Len(chain), ~chain[k].is_free PROVE chain[k].addr = s[k].ptr - Hdr
  <2>1. CASE k = y /\ ~chain[i].is_free
    <3>1. s[k] = h[i] /\ chain[i].addr = h[i].ptr - Hdr
      BY <1>1, <2>1 DEF Labels
    <3> QED  BY <2>1, <3>1
  <2>2. CASE ~(k = y /\ ~chain[i].is_free)
    <3>1. s[k] = h[k]
      BY <1>1, <2>2
    <3> QED  BY <1>4, <3>1 DEF Labels
  <2> QED  BY <2>1, <2>2
<1>5. ASSUME NEW l \in 1 .. Len(c), ~c[l].is_free PROVE c[l].addr = g[l].ptr - Hdr
  <2>1. l # i
    BY <1>3, <1>5
  <2>2. o[l] \in 1 .. Len(chain) /\ c[l] = chain[o[l]]
    BY <1>3, <2>1 DEF Kept
  <2>3. g[l] = s[o[l]]
    BY <1>2
  <2> QED  BY <1>4, <1>5, <2>2, <2>3
<1>6. ASSUME NEW k \in 1 .. Len(chain), ~chain[k].is_free, k # i
      PROVE  \E l \in 1 .. Len(c) : ~c[l].is_free /\ g[l] = s[k]
  <2>1. PICK l \in 1 .. Len(c) : l # i /\ o[l] = k /\ c[l] = chain[k]
    BY <1>6 DEF Kept
  <2> QED  BY <1>2, <1>6, <2>1
<1>7. ASSUME NEW L, CoversBut(chain, h, L, y), NEW a \in L
      PROVE  \E l \in 1 .. Len(c) : ~c[l].is_free /\ g[l] = a
  <2>1. PICK k \in 1 .. Len(chain) : k # y /\ ~chain[k].is_free /\ h[k] = a
    BY <1>7 DEF CoversBut
  <2>2. CASE k = i
    <3>1. s[y] = a /\ y # i
      BY <1>1, <2>1, <2>2
    <3> QED  BY <1>6, <3>1
  <2>3. CASE k # i
    <3>1. s[k] = a
      BY <1>1, <2>1
    <3> QED  BY <1>6, <2>1, <2>3, <3>1
  <2> QED  BY <2>2, <2>3
<1>8. 0 \notin 1 .. Len(c)
  OBVIOUS
<1>9. \A L : CoversBut(chain, h, L, y) => CoversBut(c, g, L, 0)
  BY <1>7, <1>8 DEF CoversBut
<1>10. Labels(c, g)
  BY <1>5 DEF Labels
<1> QED  BY <1>9, <1>10 DEF Unlabelled

(***************************************************************************)
(* As long as no two blocks begin at the same address, the blocks in use   *)
(* are those of the callers, one for each.                                 *)
(***************************************************************************)
Matches(chain, L) ==
    /\ \A a \in L : \E k \in 1 .. Len(chain) :
          /\ ~chain[k].is_free /\ chain[k].addr = a.ptr - Hdr
          /\ chain[k].size >= a.size + Hdr
    /\ \A k \in 1 .. Len(chain) : ~chain[k].is_free =>
          \E a \in L : a.ptr - Hdr = chain[k].addr
    /\ \A a, b \in L : a.ptr = b.ptr => a = b

\* the block at x of c begins where no block in use of chain does
NewAddress(chain, c, x) ==
    \A k \in 1 .. Len(chain) : ~chain[k].is_free => chain[k].addr # c[x].addr

\* the block at x of c is b's and has room for it
IsBlockOf(c, x, b) == c[x].addr = b.ptr - Hdr /\ c[x].size >= b.size + Hdr

NewPointer(L, b) == \A a \in L : a.ptr # b.ptr

\* Allocate adds a block for the new caller.
LEMMA AllocateMatches ==
    ASSUME NEW chain, NEW L \in SUBSET Held, Matches(chain, L),
           NEW c, NEW x, NEW o, Placed(c, chain, x, o),
           NEW b \in Held, IsBlockOf(c, x, b), NewAddress(chain, c, x)
    PROVE  Matches(c, L \cup {b}) /\ NewPointer(L, b)
<1>1. ASSUME NEW a \in L
      PROVE  /\ a.ptr # b.ptr
             /\ \E l \in 1 .. Len(c) : /\ ~c[l].is_free /\ c[l].addr = a.ptr - Hdr
                                       /\ c[l].size >= a.size + Hdr
  <2>1. PICK k \in 1 .. Len(chain) :
           /\ ~chain[k].is_free /\ chain[k].addr = a.ptr - Hdr
           /\ chain[k].size >= a.size + Hdr
    BY DEF Matches
  <2>2. PICK l \in 1 .. Len(c) : l # x /\ o[l] = k /\ c[l] = chain[k]
    BY <2>1 DEF Placed
  <2>3. a.ptr - Hdr # b.ptr - Hdr
    BY <2>1 DEF NewAddress, IsBlockOf
  <2> QED  BY <2>1, <2>2, <2>3
<1>2. x \in 1 .. Len(c) /\ ~c[x].is_free
  BY DEF Placed
<1>3. ASSUME NEW a \in L \cup {b}
      PROVE  \E l \in 1 .. Len(c) : /\ ~c[l].is_free /\ c[l].addr = a.ptr - Hdr
                                    /\ c[l].size >= a.size + Hdr
  BY <1>1, <1>2 DEF IsBlockOf
<1>4. ASSUME NEW l \in 1 .. Len(c), ~c[l].is_free
      PROVE  \E a \in L \cup {b} : a.ptr - Hdr = c[l].addr
  <2>1. CASE l = x
    BY <2>1 DEF IsBlockOf
  <2>2. CASE l # x
    <3>1. o[l] \in 1 .. Len(chain) /\ c[l] = chain[o[l]]
      BY <1>4, <2>2 DEF Placed
    <3>2. ~chain[o[l]].is_free
      BY <1>4, <3>1
    <3>3. PICK a \in L : a.ptr - Hdr = chain[o[l]].addr
      BY <3>1, <3>2 DEF Matches
    <3> QED  BY <3>1, <3>3
  <2> QED  BY <2>1, <2>2
<1>5. ASSUME NEW p \in L \cup {b}, NEW q \in L \cup {b}, p.ptr = q.ptr PROVE p = q
  BY <1>1, <1>5 DEF Matches
<1>6. Matches(c, L \cup {b})
  BY <1>3, <1>4, <1>5 DEF Matches
<1> QED  BY <1>1, <1>6 DEF NewPointer

\* Free takes the block of the caller who gives it back.
LEMMA FreeMatches ==
    ASSUME NEW chain, NEW L \in SUBSET Held, Matches(chain, L),
           \A k, l \in 1 .. Len(chain) : chain[k].addr = chain[l].addr => k = l,
           NEW b \in L, NEW i \in 1 .. Len(chain), chain[i].addr = b.ptr - Hdr,
           NEW c, NEW o, Kept(c, chain, i, o)
    PROVE  Matches(c, L \ {b})
<1>1. /\ i \in 1 .. Len(c) /\ c[i].is_free
      /\ o \in [1 .. Len(c) -> 1 .. Len(chain)]
  BY DEF Kept
<1>2. ASSUME NEW a \in L \ {b}
      PROVE  \E l \in 1 .. Len(c) : /\ ~c[l].is_free /\ c[l].addr = a.ptr - Hdr
                                    /\ c[l].size >= a.size + Hdr
  <2>1. PICK k \in 1 .. Len(chain) :
           /\ ~chain[k].is_free /\ chain[k].addr = a.ptr - Hdr
           /\ chain[k].size >= a.size + Hdr
    BY DEF Matches
  <2>2. a.ptr # b.ptr
    BY DEF Matches
  <2>3. a.ptr \in Nat /\ b.ptr \in Nat
    BY DEF Held
  <2>4. k # i
    BY <2>1, <2>2, <2>3, Units
  <2>5. PICK l \in 1 .. Len(c) : l # i /\ o[l] = k /\ c[l] = chain[k]
    BY <2>1, <2>4 DEF Kept
  <2> QED  BY <2>1, <2>5
<1>3. ASSUME NEW l \in 1 .. Len(c), ~c[l].is_free
      PROVE  \E a \in L \ {b} : a.ptr - Hdr = c[l].addr
  <2>1. l # i
    BY <1>1, <1>3
  <2>2. PICK k \in 1 .. Len(chain) : k = o[l] /\ k # i /\ c[l] = chain[k]
    BY <1>1, <2>1 DEF Kept
  <2>3. PICK a \in L : a.ptr - Hdr = chain[k].addr
    BY <1>3, <2>2 DEF Matches
  <2>4. a # b
    BY <2>2, <2>3
  <2> QED  BY <2>2, <2>3, <2>4
<1>4. \A p, q \in L \ {b} : p.ptr = q.ptr => p = q
  BY DEF Matches
<1> QED  BY <1>2, <1>3, <1>4 DEF Matches

-----------------------------------------------------------------------------
(***************************************************************************)
(* The bytes: nothing is made or lost unless a page is taken               *)
(***************************************************************************)

\* The sum up to the end is the sum of all.
LEMMA BytesOf ==
    ASSUME NEW chain, ChainOK(chain), NEW v, Sums(chain, v)
    PROVE  AllBytes(chain) = v[Len(chain) + 1] /\ AllBytes(chain) \in Nat
<1>1. AllBytes(chain) = v[Len(chain) + 1]
  BY SumsGive DEF AllBytes
<1>2. Len(chain) + 1 \in 1 .. Len(chain) + 1
  BY ChainType
<1> QED  BY <1>1, <1>2 DEF Sums

\* Dividing a block leaves the sum of all.
LEMMA SplitBytes ==
    ASSUME NEW chain, ChainOK(chain), NEW i \in 1 .. Len(chain),
           NEW need \in Nat, need =< chain[i].size, NEW c, IsSplit(c, chain, i, need)
    PROVE  AllBytes(c) = AllBytes(chain)
<1>1. PICK v : Sums(chain, v)
  BY SumsExist
<1>2. PICK w : Sums(c, w) /\ SplitSums(w, v, i, Len(chain), need)
  BY <1>1, SumsOfSplit
<1>3. PICK n \in Nat : n = Len(chain) /\ i =< n
  BY ChainType
<1>4. PICK k : k = n + 1
  OBVIOUS
<1>5. k \in i + 1 .. Len(chain) + 1 /\ Len(c) + 1 = k + 1
  BY <1>3, <1>4 DEF IsSplit
<1>6. w[k + 1] = v[k]
  BY <1>2, <1>5 DEF SplitSums
<1>7. ChainOK(c)
  BY DEF IsSplit
<1> QED  BY <1>1, <1>2, <1>3, <1>4, <1>5, <1>6, <1>7, BytesOf

\* So does taking it whole.
LEMMA TakenBytes ==
    ASSUME NEW chain, ChainOK(chain), NEW i \in 1 .. Len(chain),
           NEW c, IsTaken(c, chain, i)
    PROVE  AllBytes(c) = AllBytes(chain)
<1>1. PICK v : Sums(chain, v)
  BY SumsExist
<1>2. Sums(c, v)
  BY <1>1, SumsOfTaken
<1>3. ChainOK(c) /\ Len(c) = Len(chain)
  BY DEF IsTaken
<1> QED  BY <1>1, <1>2, <1>3, BytesOf

\* A page adds the size that was asked for, and nothing else.
LEMMA AppendBytes ==
    ASSUME NEW chain, ChainOK(chain), NEW b \in Blocks, NEW c, IsAppended(c, chain, b)
    PROVE  AllBytes(c) = AllBytes(chain) + b.size /\ b.size \in Nat
<1>1. PICK v : Sums(chain, v)
  BY SumsExist
<1>2. b.size \in Nat
  BY DEF Blocks
<1>3. PICK w : Sums(c, w) /\ AppendSums(w, v, Len(chain), b.size)
  BY <1>1, <1>2, SumsOfAppended
<1>4. ChainOK(c) /\ Len(c) = Len(chain) + 1
  BY DEF IsAppended
<1>5. w[(Len(chain) + 1) + 1] = v[Len(chain) + 1] + b.size
  BY <1>3 DEF AppendSums
<1> QED  BY <1>1, <1>2, <1>3, <1>4, <1>5, BytesOf

\* Merging a run leaves the sum of all.
LEMMA MergeBytes ==
    ASSUME NEW chain, ChainOK(chain),
           NEW i \in 1 .. Len(chain), NEW j \in i .. Len(chain),
           NEW c, IsMerged(c, chain, i, j)
    PROVE  AllBytes(c) = AllBytes(chain)
<1>1. PICK v : Sums(chain, v)
  BY SumsExist
<1>2. PICK w : Sums(c, w) /\ MergeSums(w, v, i, j, Len(chain))
  BY <1>1, SumsOfMerged
<1>3. PICK n \in Nat : n = Len(chain) /\ i =< n /\ j =< n
  BY ChainType
<1>4. PICK k : k = n + 1
  OBVIOUS
<1>5. k \in j + 1 .. Len(chain) + 1 /\ Len(c) + 1 = k - (j - i)
  BY <1>3, <1>4 DEF IsMerged
<1>6. w[k - (j - i)] = v[k]
  BY <1>2, <1>5 DEF MergeSums
<1>7. ChainOK(c)
  BY DEF IsMerged
<1> QED  BY <1>1, <1>2, <1>3, <1>4, <1>5, <1>6, <1>7, BytesOf

-----------------------------------------------------------------------------
(***************************************************************************)
(* The inductive invariant                                                 *)
(***************************************************************************)

\* while all blocks fit a page: wh are the pages handed out whole, L what the
\* callers hold
InOrder(stack, chain, wh, L) ==
    /\ \E v : Sums(chain, v) /\ Laid(chain, v)
    /\ \A k \in 1 .. Len(chain) : PageOf(chain[k].addr) \notin ToSet(stack) \cup wh
    /\ Matches(chain, L)

PagesOK(stack, wh) ==
    /\ StackOK(stack)
    /\ wh \subseteq MapPages /\ ToSet(stack) \cap wh = {}

Covered(chain, L) == \E h : Labels(chain, h) /\ CoversBut(chain, h, L, 0)

ManagerOK(stack, chain, wh, L) ==
    /\ PagesOK(stack, wh)
    /\ ChainOK(chain)
    /\ L \subseteq Held
    /\ Covered(chain, L)
    /\ Fit(chain) => InOrder(stack, chain, wh, L)

IInv ==
    /\ ManagerOK(pmm_stack, pmm_free_blocks, whole, live)
    /\ overrun \in BOOLEAN

NewBlock(r, size) == [ptr |-> r.ptr, size |-> size]

\* What Allocate does whether or not the blocks fit.
LEMMA AllocateKeeps ==
    ASSUME NEW m, ChainOK(m.chain), NEW wh, PagesOK(m.stack, wh),
           NEW size \in Requests, NEW r, IsAllocated(m, r, size)
    PROVE  /\ PagesOK(r.stack, wh) /\ ChainOK(r.chain)
           /\ NewBlock(r, size) \in Held
           /\ AllBytes(m.chain) =< AllBytes(r.chain)
           /\ AllBytes(m.chain) \in Nat /\ AllBytes(r.chain) \in Nat
           /\ r.stack = m.stack => AllBytes(r.chain) = AllBytes(m.chain)
<1>1. size \in Nat /\ size + Hdr \in Nat /\ Hdr \in Nat /\ size + Hdr > Hdr
  <2>1. size \in Nat \ {0}
    BY Units
  <2> QED  BY <2>1, Units
<1>2. AllBytes(m.chain) \in Nat
  BY SumsExist, BytesOf
<1>3. ASSUME NEW i \in 1 .. Len(m.chain), m.chain[i].size >= size + Hdr,
             r.ptr = m.chain[i].addr + Hdr, r.stack = m.stack,
             \/ m.chain[i].size > size + Hdr + Hdr /\ IsSplit(r.chain, m.chain, i, size + Hdr)
             \/ IsTaken(r.chain, m.chain, i)
      PROVE  /\ PagesOK(r.stack, wh) /\ ChainOK(r.chain)
             /\ NewBlock(r, size) \in Held
             /\ AllBytes(r.chain) = AllBytes(m.chain)
  <2>1. m.chain[i].addr \in Nat /\ m.chain[i].size \in Nat
    BY ChainType
  <2>2. r.ptr \in Nat
    BY <1>1, <1>3, <2>1
  <2>3. ChainOK(r.chain)
    BY <1>3 DEF IsSplit, IsTaken
  <2>4. size + Hdr =< m.chain[i].size
    BY <1>1, <1>3, <2>1
  <2>5. AllBytes(r.chain) = AllBytes(m.chain)
    BY <1>1, <1>3, <2>4, SplitBytes, TakenBytes
  <2> QED  BY <1>3, <2>2, <2>3, <2>5 DEF NewBlock, Held
<1>4. ASSUME m.stack # <<>>, r.ptr = Last(m.stack) + Hdr, r.stack = Front(m.stack),
             IsAppended(r.chain, m.chain, Block(Last(m.stack), size + Hdr, FALSE))
      PROVE  /\ PagesOK(r.stack, wh) /\ ChainOK(r.chain)
             /\ NewBlock(r, size) \in Held
             /\ AllBytes(m.chain) =< AllBytes(r.chain) /\ r.stack # m.stack
             /\ AllBytes(r.chain) \in Nat
  <2>1. /\ Last(m.stack) \in MapPages /\ StackOK(r.stack) /\ r.stack # m.stack
        /\ ToSet(r.stack) = ToSet(m.stack) \ {Last(m.stack)}
    BY <1>4, TakePage DEF PagesOK
  <2>2. Last(m.stack) \in Nat
    BY <2>1, MapPagesType
  <2>3. r.ptr \in Nat
    BY <1>1, <1>4, <2>2
  <2>4. PICK b : b = Block(Last(m.stack), size + Hdr, FALSE)
    OBVIOUS
  <2>5. b \in Blocks /\ b.size = size + Hdr
    BY <1>1, <2>2, <2>4, BlockType DEF Block
  <2>6. AllBytes(r.chain) = AllBytes(m.chain) + b.size
    BY <1>4, <2>4, <2>5, AppendBytes
  <2>7. ChainOK(r.chain)
    BY <1>4 DEF IsAppended
  <2>8. PagesOK(r.stack, wh)
    BY <2>1 DEF PagesOK
  <2>9. AllBytes(m.chain) =< AllBytes(r.chain) /\ AllBytes(r.chain) \in Nat
    BY <1>1, <1>2, <2>5, <2>6
  <2> QED  BY <2>1, <2>3, <2>7, <2>8, <2>9 DEF NewBlock, Held
<1>5. CASE \E i \in 1 .. Len(m.chain) :
              /\ m.chain[i].is_free /\ m.chain[i].size >= size + Hdr
              /\ r.ptr = m.chain[i].addr + Hdr
              /\ r.stack = m.stack
              /\ \/ m.chain[i].size > size + Hdr + Hdr /\ IsSplit(r.chain, m.chain, i, size + Hdr)
                 \/ IsTaken(r.chain, m.chain, i)
  <2>1. /\ PagesOK(r.stack, wh) /\ ChainOK(r.chain)
        /\ NewBlock(r, size) \in Held
        /\ AllBytes(r.chain) = AllBytes(m.chain)
    BY <1>3, <1>5
  <2> QED  BY <1>2, <2>1
<1>6. CASE /\ m.stack # <<>>
           /\ r.ptr = Last(m.stack) + Hdr
           /\ r.stack = Front(m.stack)
           /\ IsAppended(r.chain, m.chain, Block(Last(m.stack), size + Hdr, FALSE))
  BY <1>2, <1>4, <1>6
<1> QED  BY <1>5, <1>6 DEF IsAllocated

\* Allocate gives a block in use to the new pointer, and leaves all others.
LEMMA AllocateCovers ==
    ASSUME NEW m, ChainOK(m.chain), NEW wh, PagesOK(m.stack, wh),
           NEW size \in Requests, NEW r, IsAllocated(m, r, size),
           NEW h, Labels(m.chain, h)
    PROVE  \E g, x : Relabelled(r.chain, m.chain, g, h, x, NewBlock(r, size))
<1>1. Hdr \in Nat /\ NewBlock(r, size).ptr = r.ptr
  BY Units DEF NewBlock
<1>2. ASSUME NEW i \in 1 .. Len(m.chain), m.chain[i].is_free,
             r.ptr = m.chain[i].addr + Hdr,
             \/ IsSplit(r.chain, m.chain, i, size + Hdr)
             \/ IsTaken(r.chain, m.chain, i)
      PROVE  \E g, x : Relabelled(r.chain, m.chain, g, h, x, NewBlock(r, size))
  <2>1. PICK o : Placed(r.chain, m.chain, i, o)
    BY <1>2, SplitPlaces, TakenPlaces
  <2>2. r.chain[i].addr = m.chain[i].addr /\ m.chain[i].addr \in Nat
    <3>1. m.chain[i].addr \in Nat
      BY ChainType
    <3>2. CASE IsSplit(r.chain, m.chain, i, size + Hdr)
      BY <3>1, <3>2 DEF IsSplit, Block
    <3>3. CASE IsTaken(r.chain, m.chain, i)
      BY <3>1, <3>3 DEF IsTaken, Block
    <3> QED  BY <1>2, <3>2, <3>3
  <2>3. r.chain[i].addr = NewBlock(r, size).ptr - Hdr
    BY <1>1, <1>2, <2>2
  <2>4. \E g : Relabelled(r.chain, m.chain, g, h, i, NewBlock(r, size))
    BY <2>1, <2>3, AllocateLabels
  <2> QED  BY <2>4
<1>3. ASSUME m.stack # <<>>, r.ptr = Last(m.stack) + Hdr,
             IsAppended(r.chain, m.chain, Block(Last(m.stack), size + Hdr, FALSE))
      PROVE  \E g, x : Relabelled(r.chain, m.chain, g, h, x, NewBlock(r, size))
  <2>1. Last(m.stack) \in Nat
    BY <1>3, TakePage, MapPagesType DEF PagesOK
  <2>2. PICK b : b = Block(Last(m.stack), size + Hdr, FALSE)
    OBVIOUS
  <2>3. ~b.is_free /\ b.addr = Last(m.stack)
    BY <2>2 DEF Block
  <2>4. PICK x : x = Len(m.chain) + 1
    OBVIOUS
  <2>5. PICK o : Placed(r.chain, m.chain, x, o)
    BY <1>3, <2>2, <2>3, <2>4, AppendPlaces
  <2>6. r.chain[x] = b
    BY <1>3, <2>2, <2>4 DEF IsAppended
  <2>7. r.chain[x].addr = NewBlock(r, size).ptr - Hdr
    BY <1>1, <1>3, <2>1, <2>3, <2>6
  <2>8. \E g : Relabelled(r.chain, m.chain, g, h, x, NewBlock(r, size))
    BY <2>5, <2>7, AllocateLabels
  <2> QED  BY <2>8
<1> QED  BY <1>2, <1>3 DEF IsAllocated

\* Allocate while the blocks fit, afterwards too: the new block lies apart.
LEMMA AllocateInOrder ==
    ASSUME NEW m, ChainOK(m.chain), NEW wh, PagesOK(m.stack, wh),
           NEW size \in Requests, NEW r, IsAllocated(m, r, size),
           NEW L \in SUBSET Held, InOrder(m.stack, m.chain, wh, L), Fit(r.chain)
    PROVE  /\ InOrder(r.stack, r.chain, wh, L \cup {NewBlock(r, size)})
           /\ \A a \in L : a.ptr # r.ptr
<1>1. PICK v : Sums(m.chain, v) /\ Laid(m.chain, v)
  BY DEF InOrder
<1>2. PICK need \in Nat : need = size + Hdr /\ need > Hdr
  <2>1. size \in Nat \ {0}
    BY Units
  <2> QED  BY <2>1, Units
<1>3. /\ NewBlock(r, size) \in Held /\ NewBlock(r, size).ptr = r.ptr
      /\ NewBlock(r, size).size = size
  BY AllocateKeeps DEF NewBlock
<1>4. Fit(m.chain)
  <2>1. /\ AllBytes(m.chain) =< AllBytes(r.chain) /\ AllBytes(r.chain) =< PageSize
        /\ AllBytes(m.chain) \in Nat /\ AllBytes(r.chain) \in Nat
    BY AllocateKeeps DEF Fit
  <2> QED  BY <2>1, Units DEF Fit
<1>5. /\ \A k \in 1 .. Len(m.chain) : PageOf(m.chain[k].addr) \notin ToSet(m.stack) \cup wh
      /\ Matches(m.chain, L)
  BY DEF InOrder
<1>6. ASSUME NEW i \in 1 .. Len(m.chain), m.chain[i].is_free, m.chain[i].size >= need,
             r.ptr = m.chain[i].addr + Hdr, r.stack = m.stack,
             \/ m.chain[i].size > need + Hdr /\ IsSplit(r.chain, m.chain, i, need)
             \/ IsTaken(r.chain, m.chain, i)
      PROVE  /\ InOrder(r.stack, r.chain, wh, L \cup {NewBlock(r, size)})
             /\ \A a \in L : a.ptr # r.ptr
  <2>1. m.chain[i].addr \in Nat /\ m.chain[i].size \in Nat
    BY ChainType
  <2>2. \E w : Sums(r.chain, w) /\ IsDerived(r.chain, w, m.chain, v)
    <3>1. CASE IsTaken(r.chain, m.chain, i)
      BY <1>1, <3>1, SumsOfTaken, TakenDerived
    <3>2. CASE m.chain[i].size > need + Hdr /\ IsSplit(r.chain, m.chain, i, need)
      <4>1. need =< m.chain[i].size /\ need < m.chain[i].size
        BY <2>1, <3>2, Units
      <4>2. PICK w : Sums(r.chain, w) /\ SplitSums(w, v, i, Len(m.chain), need)
        BY <1>1, <3>2, <4>1, SumsOfSplit
      <4>3. Offset(m.chain[i].addr) + m.chain[i].size =< PageSize
        BY <1>1, <1>4, LaidApart
      <4>4. Offset(m.chain[i].addr) \in Nat
        BY <2>1, OffsetType
      <4>5. Offset(m.chain[i].addr) + need < PageSize
        BY <2>1, <4>1, <4>3, <4>4, Units
      <4>6. IsDerived(r.chain, w, m.chain, v)
        BY <1>1, <3>2, <4>2, <4>5, SplitDerived
      <4> QED  BY <4>2, <4>6
    <3> QED  BY <1>6, <3>1, <3>2
  <2>3. PICK w : Sums(r.chain, w) /\ IsDerived(r.chain, w, m.chain, v)
    BY <2>2
  <2>4. Laid(r.chain, w) /\ SamePages(r.chain, m.chain)
    BY <1>1, <2>3, DerivedLaid
  <2>5. \A k \in 1 .. Len(r.chain) : PageOf(r.chain[k].addr) \notin ToSet(r.stack) \cup wh
    BY <1>5, <1>6, <2>4 DEF SamePages
  <2>6. PICK o : Placed(r.chain, m.chain, i, o)
    BY <1>6, SplitPlaces, TakenPlaces
  <2>7. r.chain[i].addr = m.chain[i].addr /\ r.chain[i].size >= need
    <3>1. CASE IsSplit(r.chain, m.chain, i, need)
      BY <3>1 DEF IsSplit, Block
    <3>2. CASE IsTaken(r.chain, m.chain, i)
      BY <1>6, <3>2 DEF IsTaken, Block
    <3> QED  BY <1>6, <3>1, <3>2
  <2>8. IsBlockOf(r.chain, i, NewBlock(r, size))
    BY <1>2, <1>3, <1>6, <2>1, <2>7, Units DEF IsBlockOf
  <2>9. ASSUME NEW k \in 1 .. Len(m.chain), ~m.chain[k].is_free
        PROVE  m.chain[k].addr # r.chain[i].addr
    <3>1. k # i
      BY <1>6, <2>9
    <3> QED  BY <1>1, <1>4, <2>7, <3>1, AddressesDiffer
  <2>10. NewAddress(m.chain, r.chain, i)
    BY <2>9 DEF NewAddress
  <2>11. Matches(r.chain, L \cup {NewBlock(r, size)}) /\ NewPointer(L, NewBlock(r, size))
    BY <1>3, <1>5, <2>6, <2>8, <2>10, AllocateMatches
  <2> QED  BY <1>3, <2>3, <2>4, <2>5, <2>11 DEF InOrder, NewPointer
<1>7. ASSUME m.stack # <<>>, r.ptr = Last(m.stack) + Hdr, r.stack = Front(m.stack),
             IsAppended(r.chain, m.chain, Block(Last(m.stack), need, FALSE))
      PROVE  /\ InOrder(r.stack, r.chain, wh, L \cup {NewBlock(r, size)})
             /\ \A a \in L : a.ptr # r.ptr
  <2>1. PICK p : p = Last(m.stack)
    OBVIOUS
  <2>2. /\ p \in MapPages /\ p \in ToSet(m.stack) /\ p \notin wh
        /\ ToSet(r.stack) = ToSet(m.stack) \ {p}
    BY <1>7, <2>1, TakePage DEF PagesOK
  <2>3. p \in Nat /\ p % PageSize = 0
    BY <2>2, MapPagesType
  <2>4. PageOf(p) = p
    BY <2>3, PageOfPage
  <2>5. PICK b : b = Block(p, need, FALSE)
    OBVIOUS
  <2>6. b \in Blocks /\ b.addr = p /\ b.size = need /\ ~b.is_free
    BY <1>2, <2>3, <2>5, BlockType DEF Block
  <2>7. IsAppended(r.chain, m.chain, b)
    BY <1>7, <2>1, <2>5
  <2>8. PICK w : Sums(r.chain, w) /\ AppendSums(w, v, Len(m.chain), b.size)
    BY <1>1, <1>2, <2>6, <2>7, SumsOfAppended
  <2>9. \A k \in 1 .. Len(m.chain) : PageOf(m.chain[k].addr) # p
    BY <1>5, <2>2
  <2>10. Laid(r.chain, w)
    BY <1>1, <2>3, <2>6, <2>7, <2>8, <2>9, AppendedLaid
  <2>11. PICK x : x = Len(m.chain) + 1
    OBVIOUS
  <2>12. /\ Len(r.chain) = x /\ r.chain[x] = b
         /\ \A k \in 1 .. Len(m.chain) : r.chain[k] = m.chain[k]
    BY <2>7, <2>11 DEF IsAppended
  <2>13. ASSUME NEW k \in 1 .. Len(r.chain)
         PROVE  PageOf(r.chain[k].addr) \notin ToSet(r.stack) \cup wh
    <3>1. CASE k = x
      BY <2>2, <2>4, <2>6, <2>12, <3>1
    <3>2. CASE k # x
      <4>1. k \in 1 .. Len(m.chain)
        BY <2>11, <2>12, <3>2, ChainType
      <4> QED  BY <1>5, <2>2, <2>12, <4>1
    <3> QED  BY <3>1, <3>2
  <2>14. PICK o : Placed(r.chain, m.chain, x, o)
    BY <2>6, <2>7, <2>11, AppendPlaces
  <2>15. IsBlockOf(r.chain, x, NewBlock(r, size))
    BY <1>2, <1>3, <1>7, <2>1, <2>3, <2>6, <2>12, Units DEF IsBlockOf
  <2>16. NewAddress(m.chain, r.chain, x)
    BY <2>4, <2>6, <2>9, <2>12 DEF NewAddress
  <2>17. Matches(r.chain, L \cup {NewBlock(r, size)}) /\ NewPointer(L, NewBlock(r, size))
    BY <1>3, <1>5, <2>14, <2>15, <2>16, AllocateMatches
  <2> QED  BY <1>3, <2>8, <2>10, <2>13, <2>17 DEF InOrder, NewPointer
<1> QED  BY <1>2, <1>6, <1>7 DEF IsAllocated

\* What Free does whether or not the blocks fit.
LEMMA FreeKeepsBytes ==
    ASSUME NEW m, ChainOK(m.chain), NEW ptr, NEW r, IsFreed(m, r, ptr)
    PROVE  ChainOK(r.chain) /\ r.stack = m.stack /\ AllBytes(r.chain) = AllBytes(m.chain)
<1>1. PICK i \in 1 .. Len(m.chain) : \E j \in i .. Len(m.chain) :
         IsMerged(r.chain, m.chain, i, j) /\ r.stack = m.stack
  BY DEF IsFreed
<1>2. PICK j \in i .. Len(m.chain) : IsMerged(r.chain, m.chain, i, j) /\ r.stack = m.stack
  BY <1>1
<1>3. AllBytes(r.chain) = AllBytes(m.chain)
  BY <1>2, MergeBytes
<1> QED  BY <1>2, <1>3 DEF IsMerged

\* Free leaves a block to everybody but the pointer of block y.
LEMMA FreeCovers ==
    ASSUME NEW m, ChainOK(m.chain), NEW ptr, NEW r, IsFreed(m, r, ptr),
           NEW h, Labels(m.chain, h),
           NEW y \in 1 .. Len(m.chain), ~m.chain[y].is_free, h[y].ptr = ptr
    PROVE  \E g : Unlabelled(r.chain, m.chain, g, h, y)
<1>1. PICK i \in 1 .. Len(m.chain) : \E j \in i .. Len(m.chain) :
         /\ m.chain[i].addr = ptr - Hdr /\ IsRun(m.chain, i, j)
         /\ IsMerged(r.chain, m.chain, i, j)
  BY DEF IsFreed
<1>2. PICK o : Kept(r.chain, m.chain, i, o)
  BY <1>1, FreeKeeps
<1>3. m.chain[y].addr = ptr - Hdr
  BY DEF Labels
<1> QED  BY <1>1, <1>2, <1>3, FreeLabels

\* Free while the blocks fit: nothing moves, and the caller's block is free.
LEMMA FreeInOrder ==
    ASSUME NEW m, ChainOK(m.chain), NEW wh,
           NEW L \in SUBSET Held, InOrder(m.stack, m.chain, wh, L), Fit(m.chain),
           NEW a \in L, NEW r, IsFreed(m, r, a.ptr)
    PROVE  InOrder(r.stack, r.chain, wh, L \ {a})
<1>1. PICK v : Sums(m.chain, v) /\ Laid(m.chain, v)
  BY DEF InOrder
<1>2. PICK i \in 1 .. Len(m.chain) : \E j \in i .. Len(m.chain) :
         /\ m.chain[i].addr = a.ptr - Hdr /\ IsRun(m.chain, i, j)
         /\ IsMerged(r.chain, m.chain, i, j) /\ r.stack = m.stack
  BY DEF IsFreed
<1>3. PICK j \in i .. Len(m.chain) :
         /\ m.chain[i].addr = a.ptr - Hdr /\ IsRun(m.chain, i, j)
         /\ IsMerged(r.chain, m.chain, i, j) /\ r.stack = m.stack
  BY <1>2
<1>4. PICK w : Sums(r.chain, w) /\ MergeSums(w, v, i, j, Len(m.chain))
  BY <1>1, <1>3, SumsOfMerged
<1>5. IsDerived(r.chain, w, m.chain, v)
  BY <1>1, <1>3, <1>4, MergedDerived
<1>6. Laid(r.chain, w) /\ SamePages(r.chain, m.chain)
  BY <1>1, <1>5, DerivedLaid
<1>7. \A k \in 1 .. Len(r.chain) : PageOf(r.chain[k].addr) \notin ToSet(r.stack) \cup wh
  BY <1>3, <1>6 DEF InOrder, SamePages
<1>8. PICK o : Kept(r.chain, m.chain, i, o)
  BY <1>3, FreeKeeps
<1>9. \A k, l \in 1 .. Len(m.chain) : m.chain[k].addr = m.chain[l].addr => k = l
  BY <1>1, AddressesDiffer
<1>10. Matches(m.chain, L)
  BY DEF InOrder
<1>11. Matches(r.chain, L \ {a})
  BY <1>3, <1>8, <1>9, <1>10, FreeMatches
<1> QED  BY <1>4, <1>6, <1>7, <1>11 DEF InOrder

\* Whoever holds memory has a block in use behind his pointer, or would have.
LEMMA HasBlock ==
    ASSUME NEW chain, NEW L, Covered(chain, L), NEW a \in L
    PROVE  \E k \in 1 .. Len(chain) : chain[k].addr = a.ptr - Hdr
<1>1. PICK h : Labels(chain, h) /\ CoversBut(chain, h, L, 0)
  BY DEF Covered
<1>2. PICK k \in 1 .. Len(chain) : ~chain[k].is_free /\ h[k] = a
  BY <1>1 DEF CoversBut
<1> QED  BY <1>1, <1>2 DEF Labels

\* Allocate keeps the invariant.
LEMMA AllocateOK ==
    ASSUME NEW m, NEW wh, NEW L, ManagerOK(m.stack, m.chain, wh, L),
           NEW size \in Requests, NEW r, IsAllocated(m, r, size)
    PROVE  ManagerOK(r.stack, r.chain, wh, L \cup {NewBlock(r, size)})
<1>1. /\ PagesOK(m.stack, wh) /\ ChainOK(m.chain) /\ L \in SUBSET Held
      /\ Covered(m.chain, L)
  BY DEF ManagerOK
<1>2. /\ PagesOK(r.stack, wh) /\ ChainOK(r.chain) /\ NewBlock(r, size) \in Held
      /\ AllBytes(m.chain) =< AllBytes(r.chain)
      /\ AllBytes(m.chain) \in Nat /\ AllBytes(r.chain) \in Nat
  BY <1>1, AllocateKeeps
<1>3. PICK h : Labels(m.chain, h) /\ CoversBut(m.chain, h, L, 0)
  BY <1>1 DEF Covered
<1>4. PICK g, x : Relabelled(r.chain, m.chain, g, h, x, NewBlock(r, size))
  BY <1>1, <1>3, AllocateCovers
<1>5. Covered(r.chain, L \cup {NewBlock(r, size)})
  <2>1. CoversBut(r.chain, g, L, x) /\ Labels(r.chain, g)
    BY <1>3, <1>4 DEF Relabelled
  <2>2. x \in 1 .. Len(r.chain) /\ ~r.chain[x].is_free /\ g[x] = NewBlock(r, size)
    BY <1>4 DEF Relabelled
  <2>3. 0 \notin 1 .. Len(r.chain)
    OBVIOUS
  <2>4. CoversBut(r.chain, g, L \cup {NewBlock(r, size)}, 0)
    BY <2>1, <2>2, <2>3 DEF CoversBut
  <2> QED  BY <2>1, <2>4 DEF Covered
<1>6. Fit(r.chain) => InOrder(r.stack, r.chain, wh, L \cup {NewBlock(r, size)})
  <2>1. SUFFICES ASSUME Fit(r.chain)
                 PROVE  InOrder(r.stack, r.chain, wh, L \cup {NewBlock(r, size)})
    OBVIOUS
  <2>2. Fit(m.chain)
    BY <1>2, <2>1, Units DEF Fit
  <2>3. InOrder(m.stack, m.chain, wh, L)
    BY <2>2 DEF ManagerOK
  <2> QED  BY <1>1, <2>1, <2>3, AllocateInOrder
<1> QED  BY <1>1, <1>2, <1>5, <1>6 DEF ManagerOK

\* Free keeps the invariant.
LEMMA FreeOK ==
    ASSUME NEW m, NEW wh, NEW L, ManagerOK(m.stack, m.chain, wh, L),
           NEW a \in L, NEW r, IsFreed(m, r, a.ptr)
    PROVE  ManagerOK(r.stack, r.chain, wh, L \ {a})
<1>1. /\ PagesOK(m.stack, wh) /\ ChainOK(m.chain) /\ L \in SUBSET Held
      /\ Covered(m.chain, L)
  BY DEF ManagerOK
<1>2. ChainOK(r.chain) /\ r.stack = m.stack /\ AllBytes(r.chain) = AllBytes(m.chain)
  BY <1>1, FreeKeepsBytes
<1>3. PICK h : Labels(m.chain, h) /\ CoversBut(m.chain, h, L, 0)
  BY <1>1 DEF Covered
<1>4. PICK y \in 1 .. Len(m.chain) : ~m.chain[y].is_free /\ h[y] = a
  BY <1>3 DEF CoversBut
<1>5. CoversBut(m.chain, h, L \ {a}, y)
  BY <1>3, <1>4 DEF CoversBut
<1>6. PICK g : Unlabelled(r.chain, m.chain, g, h, y)
  BY <1>1, <1>3, <1>4, FreeCovers
<1>7. Covered(r.chain, L \ {a})
  BY <1>5, <1>6 DEF Unlabelled, Covered
<1>8. Fit(r.chain) => InOrder(r.stack, r.chain, wh, L \ {a})
  <2>1. SUFFICES ASSUME Fit(r.chain) PROVE InOrder(r.stack, r.chain, wh, L \ {a})
    OBVIOUS
  <2>2. Fit(m.chain)
    BY <1>2, <2>1 DEF Fit
  <2>3. InOrder(m.stack, m.chain, wh, L)
    BY <2>2 DEF ManagerOK
  <2> QED  BY <1>1, <2>2, <2>3, FreeInOrder
<1> QED  BY <1>1, <1>2, <1>7, <1>8 DEF ManagerOK

\* The new block may repeat the old one's pointer and size once the blocks no
\* longer fit; the caller is still left with a block.
LEMMA ReallocateOK ==
    ASSUME NEW m, NEW wh, NEW L, ManagerOK(m.stack, m.chain, wh, L),
           NEW size \in Requests, NEW n, IsAllocated(m, n, size),
           NEW a \in L, NEW r, IsFreed(n, r, a.ptr)
    PROVE  ManagerOK(r.stack, r.chain, wh, (L \ {a}) \cup {NewBlock(n, size)})
<1>1. /\ PagesOK(m.stack, wh) /\ ChainOK(m.chain) /\ L \in SUBSET Held
      /\ Covered(m.chain, L)
  BY DEF ManagerOK
<1>2. /\ PagesOK(n.stack, wh) /\ ChainOK(n.chain) /\ NewBlock(n, size) \in Held
      /\ AllBytes(m.chain) =< AllBytes(n.chain)
      /\ AllBytes(m.chain) \in Nat /\ AllBytes(n.chain) \in Nat
  BY <1>1, AllocateKeeps
<1>3. ChainOK(r.chain) /\ r.stack = n.stack /\ AllBytes(r.chain) = AllBytes(n.chain)
  BY <1>2, FreeKeepsBytes
<1>4. PICK K : K = (L \ {a}) \cup {NewBlock(n, size)}
  OBVIOUS
<1>5. PICK h : Labels(m.chain, h) /\ CoversBut(m.chain, h, L, 0)
  BY <1>1 DEF Covered
<1>6. PICK g, x : Relabelled(n.chain, m.chain, g, h, x, NewBlock(n, size))
  BY <1>1, <1>5, AllocateCovers
<1>7. /\ Labels(n.chain, g) /\ CoversBut(n.chain, g, L, x)
      /\ x \in 1 .. Len(n.chain) /\ ~n.chain[x].is_free /\ g[x] = NewBlock(n, size)
  BY <1>5, <1>6 DEF Relabelled
<1>8. PICK y \in 1 .. Len(n.chain) : y # x /\ ~n.chain[y].is_free /\ g[y] = a
  BY <1>7 DEF CoversBut
<1>9. CoversBut(n.chain, g, K, y)
  BY <1>4, <1>7, <1>8 DEF CoversBut
<1>10. PICK f : Unlabelled(r.chain, n.chain, f, g, y)
  BY <1>2, <1>7, <1>8, FreeCovers
<1>11. Covered(r.chain, K)
  BY <1>9, <1>10 DEF Unlabelled, Covered
<1>12. Fit(r.chain) => InOrder(r.stack, r.chain, wh, K)
  <2>1. SUFFICES ASSUME Fit(r.chain) PROVE InOrder(r.stack, r.chain, wh, K)
    OBVIOUS
  <2>2. Fit(n.chain)
    BY <1>3, <2>1 DEF Fit
  <2>3. Fit(m.chain)
    BY <1>2, <2>2, Units DEF Fit
  <2>4. InOrder(m.stack, m.chain, wh, L)
    BY <2>3 DEF ManagerOK
  <2>5. /\ InOrder(n.stack, n.chain, wh, L \cup {NewBlock(n, size)})
        /\ \A b \in L : b.ptr # n.ptr
    BY <1>1, <2>2, <2>4, AllocateInOrder
  <2>6. NewBlock(n, size) # a
    BY <2>5 DEF NewBlock
  <2>7. K = (L \cup {NewBlock(n, size)}) \ {a}
    BY <1>4, <2>6
  <2>8. L \cup {NewBlock(n, size)} \in SUBSET Held /\ a \in L \cup {NewBlock(n, size)}
    BY <1>1, <1>2
  <2> QED  BY <1>2, <2>2, <2>5, <2>7, <2>8, FreeInOrder
<1>13. K \subseteq Held
  BY <1>1, <1>2, <1>4
<1>14. ManagerOK(r.stack, r.chain, wh, K)
  BY <1>2, <1>3, <1>11, <1>12, <1>13 DEF ManagerOK
<1> QED  BY <1>4, <1>14

-----------------------------------------------------------------------------
(***************************************************************************)
(* The invariant is inductive                                              *)
(***************************************************************************)

\* The invariant holds at the start.
LEMMA InitOK == Init => IInv
<1> SUFFICES ASSUME Init PROVE IInv
  OBVIOUS
<1>1. /\ pmm_stack = PushAll(FlattenSeq([e \in DOMAIN Regions |-> PagesOf(Regions[e])]))
      /\ pmm_free_blocks = <<>> /\ live = {} /\ whole = {} /\ overrun = FALSE
  BY DEF Init, Pmm_Initialize
<1>2. PagesOK(pmm_stack, whole)
  BY <1>1, StackAtStart DEF PagesOK
<1>3. PICK c : c = <<>> /\ c \in Seq(Blocks) /\ Len(c) = 0 /\ 1 .. Len(c) = {}
  <2>1. <<>> \in Seq(Blocks) /\ Len(<<>>) = 0
    OBVIOUS
  <2>2. 1 .. Len(<<>>) = {}
    BY <2>1
  <2> QED  BY <2>1, <2>2, Zenon
<1>4. ChainOK(c)
  BY <1>3 DEF ChainOK
<1>5. Sums(c, SumsOf(c))
  BY <1>4, SumsExist
<1>6. Laid(c, SumsOf(c))
  BY <1>3 DEF Laid
<1>7. Matches(c, {})
  BY <1>3 DEF Matches
<1>8. InOrder(pmm_stack, c, whole, {})
  BY <1>3, <1>5, <1>6, <1>7 DEF InOrder
<1>9. Covered(c, {})
  BY <1>3 DEF Covered, Labels, CoversBut
<1>10. ManagerOK(pmm_stack, c, whole, {})
  BY <1>2, <1>4, <1>8, <1>9 DEF ManagerOK
<1> QED  BY <1>1, <1>3, <1>10 DEF IInv

\* The manager's state as the operators see it.
LEMMA NowOK ==
    ASSUME IInv
    PROVE  /\ ManagerOK(Now.stack, Now.chain, whole, live)
           /\ ChainOK(Now.chain) /\ StackOK(Now.stack)
           /\ Now = [ptr |-> NULL, stack |-> Now.stack, chain |-> Now.chain]
           /\ DOMAIN Now = {"ptr", "stack", "chain"}
           /\ Now.stack = pmm_stack /\ Now.chain = pmm_free_blocks
BY DEF IInv, Now, ManagerOK, PagesOK

\* The state that Allocate returns has the fields of the one it got.
LEMMA AllocateFields ==
    ASSUME NEW m, DOMAIN m = {"ptr", "stack", "chain"}, NEW size
    PROVE  DOMAIN Allocate(m, size) = {"ptr", "stack", "chain"}
<1>1. PICK i : i = CHOOSE j \in Fits(m.chain, size + Hdr) :
                      \A k \in Fits(m.chain, size + Hdr) : j =< k
  OBVIOUS
<1>2. CASE Fits(m.chain, size + Hdr) # {}
  BY <1>1, <1>2 DEF Allocate
<1>3. CASE Fits(m.chain, size + Hdr) = {} /\ m.stack = <<>>
  BY <1>3 DEF Allocate
<1>4. CASE Fits(m.chain, size + Hdr) = {} /\ m.stack # <<>>
  BY <1>4 DEF Allocate
<1> QED  BY <1>2, <1>3, <1>4

\* The steps keep the invariant, one by one: an allocation,
LEMMA Pmm_AllocateOK ==
    ASSUME IInv, NEW size \in Requests, Pmm_Allocate(size)
    PROVE  IInv'
<1>1. PICK r : r = Allocate(Now, size)
  OBVIOUS
<1>2. IsAllocated(Now, r, size)
  BY <1>1, NowOK, AllocateTakes DEF Pmm_Allocate
<1>3. ManagerOK(r.stack, r.chain, whole, live \cup {NewBlock(r, size)})
  BY <1>2, NowOK, AllocateOK
<1>4. /\ pmm_stack' = r.stack /\ pmm_free_blocks' = r.chain
      /\ whole' = whole /\ live' = live \cup {NewBlock(r, size)}
      /\ overrun' = overrun
  BY <1>1 DEF Pmm_Allocate, Become, NewBlock
<1> QED  BY <1>3, <1>4, Zenon DEF IInv

\* a release,
LEMMA Pmm_FreeOK ==
    ASSUME IInv, NEW a \in live, Pmm_Free(a)
    PROVE  IInv'
<1>1. PICK r : r = Free(Now, a.ptr)
  OBVIOUS
<1>2. \E k \in 1 .. Len(Now.chain) : Now.chain[k].addr = a.ptr - Hdr
  BY NowOK, HasBlock DEF ManagerOK
<1>3. IsFreed(Now, r, a.ptr)
  BY <1>1, <1>2, NowOK, FreeMerges
<1>4. ManagerOK(r.stack, r.chain, whole, live \ {a})
  BY <1>3, NowOK, FreeOK
<1>5. /\ pmm_stack' = r.stack /\ pmm_free_blocks' = r.chain
      /\ whole' = whole /\ live' = live \ {a} /\ overrun' = overrun
  BY <1>1 DEF Pmm_Free, Become
<1> QED  BY <1>4, <1>5, Zenon DEF IInv

\* a reallocation,
LEMMA Pmm_ReallocateOK ==
    ASSUME IInv, NEW a \in live, NEW size \in Requests, NEW scan \in Scans,
           Pmm_Reallocate(a, size, scan)
    PROVE  IInv'
<1>1. PICK n : n = Allocate(Now, size)
  OBVIOUS
<1>2. PICK r : r = Free(n, a.ptr)
  OBVIOUS
<1>3. IsAllocated(Now, n, size)
  BY <1>1, NowOK, AllocateTakes DEF Pmm_Reallocate
<1>4. ManagerOK(n.stack, n.chain, whole, live \cup {NewBlock(n, size)})
  BY <1>3, NowOK, AllocateOK
<1>5. \E k \in 1 .. Len(n.chain) : n.chain[k].addr = a.ptr - Hdr
  BY <1>4, HasBlock DEF ManagerOK
<1>6. DOMAIN n = {"ptr", "stack", "chain"}
  BY <1>1, NowOK, AllocateFields
<1>7. IsFreed(n, r, a.ptr)
  BY <1>2, <1>4, <1>5, <1>6, FreeMerges DEF ManagerOK
<1>8. ManagerOK(r.stack, r.chain, whole, (live \ {a}) \cup {NewBlock(n, size)})
  BY <1>3, <1>7, NowOK, ReallocateOK
<1>9. /\ pmm_stack' = r.stack /\ pmm_free_blocks' = r.chain
      /\ whole' = whole /\ live' = (live \ {a}) \cup {NewBlock(n, size)}
  BY <1>1, <1>2 DEF Pmm_Reallocate, Become, NewBlock
<1>10. overrun' \in BOOLEAN
  <2>1. overrun' = (scan > size)
    BY Zenon DEF Pmm_Reallocate
  <2>2. (scan > size) \in BOOLEAN
    OBVIOUS
  <2> QED  BY <2>1, <2>2, Zenon
<1> QED  BY <1>8, <1>9, <1>10, Zenon DEF IInv

\* a page for a page table,
LEMMA Pmm_AllocatePageOK ==
    ASSUME IInv, Pmm_AllocatePage
    PROVE  IInv'
<1>1. PICK p : p = Last(pmm_stack)
  OBVIOUS
<1>2. PICK s : s = Front(pmm_stack)
  OBVIOUS
<1>3. /\ pmm_stack # <<>> /\ pmm_stack' = s /\ pmm_free_blocks' = pmm_free_blocks
      /\ whole' = whole \cup {p} /\ live' = live /\ overrun' = overrun
  BY <1>1, <1>2 DEF Pmm_AllocatePage, Become, Now
<1>4. ManagerOK(pmm_stack, pmm_free_blocks, whole, live)
  BY DEF IInv
<1>5. PagesOK(pmm_stack, whole)
  BY <1>4 DEF ManagerOK
<1>6. /\ p \in MapPages /\ p \in ToSet(pmm_stack) /\ StackOK(s)
      /\ ToSet(s) = ToSet(pmm_stack) \ {p}
  BY <1>1, <1>2, <1>3, <1>5, TakePage DEF PagesOK
<1>7. PagesOK(s, whole \cup {p})
  BY <1>5, <1>6 DEF PagesOK
<1>8. ToSet(s) \cup (whole \cup {p}) = ToSet(pmm_stack) \cup whole
  BY <1>6
<1>9. InOrder(pmm_stack, pmm_free_blocks, whole, live)
        => InOrder(s, pmm_free_blocks, whole \cup {p}, live)
  BY <1>8 DEF InOrder
<1>10. ManagerOK(s, pmm_free_blocks, whole \cup {p}, live)
  BY <1>4, <1>7, <1>9 DEF ManagerOK
<1> QED  BY <1>3, <1>10, Zenon DEF IInv

\* so that every step keeps it.
LEMMA StepOK == IInv /\ [Next]_vars => IInv'
<1> SUFFICES ASSUME IInv, [Next]_vars PROVE IInv'
  OBVIOUS
<1>1. CASE \E size \in Requests : Pmm_Allocate(size)
  BY <1>1, Pmm_AllocateOK
<1>2. CASE \E a \in live : Pmm_Free(a)
  BY <1>2, Pmm_FreeOK
<1>3. CASE \E a \in live, size \in Requests, scan \in Scans : Pmm_Reallocate(a, size, scan)
  BY <1>3, Pmm_ReallocateOK
<1>4. CASE Pmm_AllocatePage
  BY <1>4, Pmm_AllocatePageOK
<1>5. CASE UNCHANGED vars
  BY <1>5, Zenon DEF vars, IInv
<1> QED  BY <1>1, <1>2, <1>3, <1>4, <1>5 DEF Next

(***************************************************************************)
(* Whether or not the blocks fit a page, the manager keeps a stack of      *)
(* different pages and a chain of whole blocks, and everybody who holds    *)
(* memory has a block in use behind his pointer that is no other's; while  *)
(* they fit, the blocks lie one behind the other on their pages and match  *)
(* the callers (memory/pmm.c:25-158).                                      *)
(***************************************************************************)
THEOREM IInvHolds == Spec => []IInv
<1> QED  BY InitOK, StepOK, PTL DEF Spec

\* The pages are pages of the memory map, the blocks have room for a header,
\* and what is held was asked for (TypeOK).
THEOREM ManagerTypeCorrect == Spec => []TypeOK
<1>1. ASSUME IInv PROVE TypeOK
  <2>1. PagesOK(pmm_stack, whole) /\ ChainOK(pmm_free_blocks) /\ live \subseteq Held
    BY <1>1 DEF IInv, ManagerOK
  <2>2. /\ ToSet(pmm_stack) \cup whole
             \subseteq UNION {ToSet(PagesOf(Regions[e])) : e \in DOMAIN Regions}
        /\ Len(pmm_stack) =< StackSize
    BY <2>1 DEF PagesOK, StackOK, MapPages
  <2>3. \A i \in DOMAIN pmm_free_blocks :
           /\ pmm_free_blocks[i].addr \in Nat /\ pmm_free_blocks[i].is_free \in BOOLEAN
           /\ pmm_free_blocks[i].size > Hdr
    BY <2>1, ChainType
  <2>4. \A a \in live : a.size \in Requests
    BY <2>1 DEF Held
  <2>5. overrun \in BOOLEAN
    BY <1>1, Zenon DEF IInv
  <2> QED  BY <2>2, <2>3, <2>4, <2>5, Zenon DEF TypeOK
<1> QED  BY IInvHolds, <1>1, PTL

\* Splitting, reusing and swallowing blocks neither make nor lose a byte, even
\* when the blocks no longer fit a page (SizesConserved; pmm.c:64-73, 116-120).
THEOREM ManagerConserves == Spec => SizesConserved
<1>1. IInv /\ [Next]_vars => (pmm_stack' = pmm_stack =>
         SizeOf(pmm_free_blocks', DOMAIN pmm_free_blocks')
           = SizeOf(pmm_free_blocks, DOMAIN pmm_free_blocks))
  <2>1. SUFFICES ASSUME IInv, [Next]_vars, pmm_stack' = pmm_stack
                 PROVE  AllBytes(pmm_free_blocks') = AllBytes(pmm_free_blocks)
    BY DEF AllBytes
  <2>2. PagesOK(Now.stack, whole) /\ ChainOK(Now.chain)
    BY <2>1, NowOK DEF ManagerOK
  <2>3. ASSUME NEW size \in Requests, Pmm_Allocate(size)
        PROVE  AllBytes(pmm_free_blocks') = AllBytes(pmm_free_blocks)
    <3>1. PICK r : r = Allocate(Now, size)
      OBVIOUS
    <3>2. IsAllocated(Now, r, size)
      BY <2>1, <2>3, <3>1, NowOK, AllocateTakes DEF Pmm_Allocate
    <3>3. pmm_stack' = r.stack /\ pmm_free_blocks' = r.chain
      BY <2>3, <3>1 DEF Pmm_Allocate, Become
    <3>4. r.stack = Now.stack
      BY <2>1, <3>3, NowOK
    <3>5. AllBytes(r.chain) = AllBytes(Now.chain)
      BY <2>2, <3>2, <3>4, AllocateKeeps
    <3> QED  BY <2>1, <3>3, <3>5, NowOK
  <2>4. ASSUME NEW a \in live, Pmm_Free(a)
        PROVE  AllBytes(pmm_free_blocks') = AllBytes(pmm_free_blocks)
    <3>1. PICK r : r = Free(Now, a.ptr)
      OBVIOUS
    <3>2. \E k \in 1 .. Len(Now.chain) : Now.chain[k].addr = a.ptr - Hdr
      BY <2>1, NowOK, HasBlock DEF ManagerOK
    <3>3. IsFreed(Now, r, a.ptr)
      BY <2>1, <3>1, <3>2, NowOK, FreeMerges
    <3>4. AllBytes(r.chain) = AllBytes(Now.chain)
      BY <2>2, <3>3, FreeKeepsBytes
    <3>5. pmm_free_blocks' = r.chain
      BY <2>4, <3>1 DEF Pmm_Free, Become
    <3> QED  BY <2>1, <3>4, <3>5, NowOK
  <2>5. ASSUME NEW a \in live, NEW size \in Requests, NEW scan \in Scans,
               Pmm_Reallocate(a, size, scan)
        PROVE  AllBytes(pmm_free_blocks') = AllBytes(pmm_free_blocks)
    <3>1. PICK n : n = Allocate(Now, size)
      OBVIOUS
    <3>2. PICK r : r = Free(n, a.ptr)
      OBVIOUS
    <3>3. IsAllocated(Now, n, size)
      BY <2>1, <2>5, <3>1, NowOK, AllocateTakes DEF Pmm_Reallocate
    <3>4. ManagerOK(n.stack, n.chain, whole, live \cup {NewBlock(n, size)})
      BY <2>1, <3>3, NowOK, AllocateOK
    <3>5. \E k \in 1 .. Len(n.chain) : n.chain[k].addr = a.ptr - Hdr
      BY <3>4, HasBlock DEF ManagerOK
    <3>6. DOMAIN n = {"ptr", "stack", "chain"}
      BY <2>1, <3>1, NowOK, AllocateFields
    <3>7. IsFreed(n, r, a.ptr)
      BY <3>2, <3>4, <3>5, <3>6, FreeMerges DEF ManagerOK
    <3>8. pmm_stack' = r.stack /\ pmm_free_blocks' = r.chain
      BY <2>5, <3>1, <3>2 DEF Pmm_Reallocate, Become
    <3>9. r.stack = n.stack /\ AllBytes(r.chain) = AllBytes(n.chain)
      BY <3>4, <3>7, FreeKeepsBytes DEF ManagerOK
    <3>10. n.stack = Now.stack
      BY <2>1, <3>8, <3>9, NowOK
    <3>11. AllBytes(n.chain) = AllBytes(Now.chain)
      BY <2>2, <3>3, <3>10, AllocateKeeps
    <3> QED  BY <2>1, <3>8, <3>9, <3>11, NowOK
  <2>6. CASE Pmm_AllocatePage
    BY <2>6 DEF Pmm_AllocatePage, Become, Now
  <2>7. CASE UNCHANGED vars
    BY <2>7 DEF vars
  <2> QED  BY <2>1, <2>3, <2>4, <2>5, <2>6, <2>7 DEF Next
<1>2. ASSUME IInv, IInv', [Next]_vars
      PROVE  [pmm_stack' = pmm_stack =>
                SizeOf(pmm_free_blocks', DOMAIN pmm_free_blocks')
                  = SizeOf(pmm_free_blocks, DOMAIN pmm_free_blocks)]_vars
  BY <1>1, <1>2, Zenon
<1> QED  BY IInvHolds, <1>2, PTL DEF Spec, SizesConserved

-----------------------------------------------------------------------------
(***************************************************************************)
(* What holds while all blocks together fit a page                         *)
(***************************************************************************)

AllFit == Fit(pmm_free_blocks)

\* The order of the blocks, from the invariant.
LEMMA WhileFit ==
    ASSUME IInv, AllFit
    PROVE  /\ InOrder(pmm_stack, pmm_free_blocks, whole, live)
           /\ ChainOK(pmm_free_blocks) /\ Fit(pmm_free_blocks)
           /\ live \in SUBSET Held /\ PagesOK(pmm_stack, whole)
BY DEF IInv, ManagerOK, AllFit

\* Every page is on the stack, handed out whole, or cut into blocks
\* (PagesPartition; pmm.c:25-43, 82).
THEOREM PagesHaveOneUse == Spec => [](AllFit => PagesPartition)
<1>1. ASSUME IInv, AllFit PROVE PagesPartition
  <2>1. IsInjective(pmm_stack) /\ ToSet(pmm_stack) \cap whole = {}
    BY <1>1, WhileFit DEF PagesOK, StackOK
  <2>2. \A k \in DOMAIN pmm_free_blocks :
           PageOf(pmm_free_blocks[k].addr) \notin ToSet(pmm_stack) \cup whole
    BY <1>1, WhileFit, ChainType DEF InOrder
  <2>3. ChainPages \cap (ToSet(pmm_stack) \cup whole) = {}
    BY <2>2 DEF ChainPages
  <2> QED  BY <2>1, <2>3 DEF PagesPartition
<1> QED  BY IInvHolds, <1>1, PTL

\* Two blocks have no byte in common.
LEMMA BlocksApart ==
    ASSUME NEW chain, ChainOK(chain), NEW v, Sums(chain, v), Laid(chain, v),
           Fit(chain), NEW k \in 1 .. Len(chain), NEW l \in 1 .. Len(chain), k # l
    PROVE  \/ chain[k].addr + chain[k].size =< chain[l].addr
           \/ chain[l].addr + chain[l].size =< chain[k].addr
<1>1. CASE PageOf(chain[k].addr) = PageOf(chain[l].addr)
  <2>1. k < l \/ l < k
    OBVIOUS
  <2> QED  BY <1>1, <2>1, LaidApart
<1>2. CASE PageOf(chain[k].addr) # PageOf(chain[l].addr)
  <2>1. PICK a \in Nat, b \in Nat, s \in Nat, t \in Nat :
           /\ a = chain[k].addr /\ s = chain[k].size
           /\ b = chain[l].addr /\ t = chain[l].size
    BY ChainType
  <2>2. Offset(a) + s =< PageSize /\ Offset(b) + t =< PageSize
    BY <2>1, LaidApart
  <2>3. PICK p \in Nat, o \in Nat : /\ p = PageOf(a) /\ o = Offset(a)
                                    /\ p % PageSize = 0 /\ a = p + o
    BY PageAndOffset, OffsetType
  <2>4. PICK q \in Nat, r \in Nat : /\ q = PageOf(b) /\ r = Offset(b)
                                    /\ q % PageSize = 0 /\ b = q + r
    BY PageAndOffset, OffsetType
  <2>5. p + PageSize =< q \/ q + PageSize =< p
    <3>1. p < q \/ q < p
      BY <1>2, <2>1, <2>3, <2>4
    <3>2. CASE p < q
      BY <2>3, <2>4, <3>2, PagesApart
    <3>3. CASE q < p
      BY <2>3, <2>4, <3>3, PagesApart
    <3> QED  BY <3>1, <3>2, <3>3
  <2>6. o + s =< PageSize /\ r + t =< PageSize
    BY <2>2, <2>3, <2>4
  <2>7. a + s =< b \/ b + t =< a
    <3>1. PICK z \in Nat : z = PageSize
      BY Units
    <3>2. /\ a = p + o /\ b = q + r /\ o + s =< z /\ r + t =< z
          /\ p + z =< q \/ q + z =< p
      BY <2>3, <2>4, <2>5, <2>6, <3>1
    <3> QED  BY <3>2
  <2> QED  BY <2>1, <2>7
<1> QED  BY <1>1, <1>2

\* A block has no byte in common with a page that it does not begin on.
LEMMA BlockOffPage ==
    ASSUME NEW chain, ChainOK(chain), NEW v, Sums(chain, v), Laid(chain, v),
           Fit(chain), NEW k \in 1 .. Len(chain),
           NEW p \in MapPages, PageOf(chain[k].addr) # p
    PROVE  \/ chain[k].addr + chain[k].size =< p
           \/ p + PageSize =< chain[k].addr
<1>1. PICK a \in Nat, s \in Nat : a = chain[k].addr /\ s = chain[k].size
  BY ChainType
<1>2. PICK q \in Nat, o \in Nat : /\ q = PageOf(a) /\ o = Offset(a)
                                  /\ q % PageSize = 0 /\ a = q + o
  BY PageAndOffset, OffsetType
<1>3. o + s =< PageSize
  BY <1>1, <1>2, LaidApart
<1>4. p \in Nat /\ p % PageSize = 0 /\ p # q
  BY <1>1, <1>2, MapPagesType
<1>5. p + PageSize =< q \/ q + PageSize =< p
  BY <1>2, <1>4, PagesApart
<1>6. a + s =< p \/ p + PageSize =< a
  <2>1. PICK z \in Nat : z = PageSize
    BY Units
  <2>2. /\ a = q + o /\ o + s =< z
        /\ p + z =< q \/ q + z =< p
    BY <1>2, <1>3, <1>5, <2>1
  <2>3. a + s =< p \/ p + z =< a
    BY <1>4, <2>2
  <2> QED  BY <2>1, <2>3
<1> QED  BY <1>1, <1>6

\* block k of chain is a's
IsHeldAs(chain, k, a) ==
    /\ k \in 1 .. Len(chain) /\ ~chain[k].is_free
    /\ chain[k].addr = a.ptr - Hdr /\ chain[k].size >= a.size + Hdr

\* No two callers' bytes, nor a caller's and a header's, nor a caller's and a
\* page's that is free or a page table, are the same (LiveDisjoint; pmm.c:58-121).
THEOREM HeldBytesApart == Spec => [](AllFit => LiveDisjoint)
<1>1. ASSUME IInv, AllFit PROVE LiveDisjoint
  <2>1. PICK chain : chain = pmm_free_blocks
    OBVIOUS
  <2>2. PICK v : Sums(chain, v) /\ Laid(chain, v)
    BY <1>1, <2>1, WhileFit DEF InOrder
  <2>3. ChainOK(chain) /\ Fit(chain) /\ DOMAIN chain = 1 .. Len(chain)
    BY <1>1, <2>1, WhileFit, ChainType
  <2>4. \A a \in live : \E k : IsHeldAs(chain, k, a)
    BY <1>1, <2>1, WhileFit DEF InOrder, Matches, IsHeldAs
  <2>5. \A a, b \in live : a.ptr = b.ptr => a = b
    BY <1>1, WhileFit DEF InOrder, Matches
  <2>6. \A k \in 1 .. Len(chain) : PageOf(chain[k].addr) \notin ToSet(pmm_stack) \cup whole
    BY <1>1, <2>1, WhileFit DEF InOrder
  <2>7. ToSet(pmm_stack) \cup whole \subseteq MapPages
    BY <1>1, WhileFit DEF PagesOK, StackOK
  <2>8. \A a \in live : a.ptr \in Nat /\ a.size \in Nat
    BY <1>1, WhileFit, Units DEF Held
  <2>9. SUFFICES ASSUME NEW a \in live
                 PROVE  /\ \A b \in live \ {a} :
                              Bytes(a.ptr, a.size) \cap Bytes(b.ptr, b.size) = {}
                        /\ \A i \in 1 .. Len(chain) :
                              Bytes(a.ptr, a.size) \cap Bytes(chain[i].addr, Hdr) = {}
                        /\ \A p \in ToSet(pmm_stack) \cup whole :
                              Bytes(a.ptr, a.size) \cap Bytes(p, PageSize) = {}
    BY <2>1, <2>3 DEF LiveDisjoint
  <2>10. PICK k : IsHeldAs(chain, k, a)
    BY <2>4
  <2>11. PICK x \in Nat, s \in Nat : x = a.ptr /\ s = a.size
    BY <2>8
  <2>12. PICK d \in Nat, e \in Nat : /\ d = chain[k].addr /\ e = chain[k].size
                                     /\ d + Hdr = x /\ s + Hdr =< e
    <3>1. PICK d \in Nat, e \in Nat : d = chain[k].addr /\ e = chain[k].size
      BY <2>3, <2>10, ChainType DEF IsHeldAs
    <3>2. d = x - Hdr /\ e >= s + Hdr
      BY <2>10, <2>11, <3>1 DEF IsHeldAs
    <3>3. d + Hdr = x /\ s + Hdr =< e
      BY <3>2, Units
    <3> QED  BY <3>1, <3>3
  <2>13. ASSUME NEW b \in live \ {a}
         PROVE  Bytes(a.ptr, a.size) \cap Bytes(b.ptr, b.size) = {}
    <3>1. PICK l : IsHeldAs(chain, l, b)
      BY <2>4
    <3>2. PICK y \in Nat, t \in Nat : y = b.ptr /\ t = b.size
      BY <2>8
    <3>3. PICK f \in Nat, g \in Nat : /\ f = chain[l].addr /\ g = chain[l].size
                                      /\ f + Hdr = y /\ t + Hdr =< g
      <4>1. PICK f \in Nat, g \in Nat : f = chain[l].addr /\ g = chain[l].size
        BY <2>3, <3>1, ChainType DEF IsHeldAs
      <4>2. f = y - Hdr /\ g >= t + Hdr
        BY <3>1, <3>2, <4>1 DEF IsHeldAs
      <4>3. f + Hdr = y /\ t + Hdr =< g
        BY <4>2, Units
      <4> QED  BY <4>1, <4>3
    <3>4. x # y
      BY <2>5, <2>11, <3>2
    <3>5. k # l
      BY <2>12, <3>3, <3>4
    <3>6. d + e =< f \/ f + g =< d
      BY <2>2, <2>3, <2>10, <2>12, <3>1, <3>3, <3>5, BlocksApart DEF IsHeldAs
    <3>7. x + s =< y \/ y + t =< x
      BY <2>12, <3>3, <3>6, Units
    <3>8. Bytes(x, s) \cap Bytes(y, t) = {}
      BY <3>7 DEF Bytes
    <3> QED  BY <2>11, <3>2, <3>8
  <2>14. ASSUME NEW i \in 1 .. Len(chain)
         PROVE  Bytes(a.ptr, a.size) \cap Bytes(chain[i].addr, Hdr) = {}
    <3>1. PICK f \in Nat, g \in Nat : /\ f = chain[i].addr /\ g = chain[i].size
                                      /\ g > Hdr
      BY <2>3, ChainType
    <3>2. CASE i = k
      <4>1. f + Hdr =< x
        BY <2>12, <3>1, <3>2
      <4>2. Bytes(x, s) \cap Bytes(f, Hdr) = {}
        BY <4>1, Units DEF Bytes
      <4> QED  BY <2>11, <3>1, <4>2
    <3>3. CASE i # k
      <4>1. d + e =< f \/ f + g =< d
        BY <2>2, <2>3, <2>10, <2>12, <3>1, <3>3, BlocksApart DEF IsHeldAs
      <4>2. x + s =< f \/ f + Hdr =< x
        <5>1. PICK z \in Nat : z = Hdr
          BY Units
        <5>2. /\ d + z = x /\ s + z =< e /\ g > z
              /\ d + e =< f \/ f + g =< d
          BY <2>12, <3>1, <4>1, <5>1
        <5>3. x + s =< f \/ f + z =< x
          BY <5>2
        <5> QED  BY <5>1, <5>3
      <4>3. Bytes(x, s) \cap Bytes(f, Hdr) = {}
        BY <4>2, Units DEF Bytes
      <4> QED  BY <2>11, <3>1, <4>3
    <3> QED  BY <3>2, <3>3
  <2>15. ASSUME NEW p \in ToSet(pmm_stack) \cup whole
         PROVE  Bytes(a.ptr, a.size) \cap Bytes(p, PageSize) = {}
    <3>1. p \in MapPages /\ PageOf(chain[k].addr) # p
      BY <2>6, <2>7, <2>10 DEF IsHeldAs
    <3>2. p \in Nat
      BY <3>1, MapPagesType
    <3>3. d + e =< p \/ p + PageSize =< d
      BY <2>2, <2>3, <2>10, <2>12, <3>1, BlockOffPage DEF IsHeldAs
    <3>4. x + s =< p \/ p + PageSize =< x
      BY <2>12, <3>2, <3>3, Units
    <3>5. Bytes(x, s) \cap Bytes(p, PageSize) = {}
      BY <3>2, <3>4, Units DEF Bytes
    <3> QED  BY <2>11, <3>5
  <2> QED  BY <2>13, <2>14, <2>15
<1> QED  BY IInvHolds, <1>1, PTL

\* What is held is exactly what the chain has in use, each block large enough
\* (LiveMatchesChain; pmm.c:58-121).
THEOREM HeldAreBlocks == Spec => [](AllFit => LiveMatchesChain)
<1>1. ASSUME IInv, AllFit PROVE LiveMatchesChain
  <2>1. PICK chain : chain = pmm_free_blocks
    OBVIOUS
  <2>2. PICK v : Sums(chain, v) /\ Laid(chain, v)
    BY <1>1, <2>1, WhileFit DEF InOrder
  <2>3. /\ ChainOK(chain) /\ Fit(chain) /\ DOMAIN chain = 1 .. Len(chain)
        /\ Len(chain) \in Nat
    BY <1>1, <2>1, WhileFit, ChainType
  <2>4. Matches(chain, live)
    BY <1>1, <2>1, WhileFit DEF InOrder
  <2>5. \A a \in live : a.ptr \in Nat
    BY <1>1, WhileFit DEF Held
  <2>6. \A k \in 1 .. Len(chain) : k \in InUse <=> ~chain[k].is_free
    BY <2>1, <2>3 DEF InUse
  <2>7. InUse \subseteq 1 .. Len(chain)
    BY <2>1, <2>3 DEF InUse
  <2>8. \A a \in live : \E k \in InUse :
           chain[k].addr = a.ptr - Hdr /\ chain[k].size >= a.size + Hdr
    BY <2>4, <2>6 DEF Matches
  <2>9. Cardinality(live) = Cardinality(InUse)
    <3>1. PICK owner : owner = [k \in InUse |-> CHOOSE a \in live : a.ptr - Hdr = chain[k].addr]
      OBVIOUS
    <3>2. ASSUME NEW k \in InUse
          PROVE  owner[k] \in live /\ owner[k].ptr - Hdr = chain[k].addr
      <4>1. \E a \in live : a.ptr - Hdr = chain[k].addr
        BY <2>4, <2>6, <2>7 DEF Matches
      <4> QED  BY <3>1, <4>1
    <3>3. owner \in [InUse -> live]
      BY <3>1, <3>2
    <3>4. ASSUME NEW k \in InUse, NEW l \in InUse, owner[k] = owner[l] PROVE k = l
      <4>1. chain[k].addr = chain[l].addr
        BY <3>2, <3>4
      <4> QED  BY <2>2, <2>3, <2>7, <4>1, AddressesDiffer
    <3>5. ASSUME NEW a \in live PROVE \E k \in InUse : owner[k] = a
      <4>1. PICK k \in InUse : chain[k].addr = a.ptr - Hdr
        BY <2>8
      <4>2. PICK b \in live : b = owner[k] /\ b.ptr - Hdr = chain[k].addr
        BY <3>2
      <4>3. PICK x \in Nat, y \in Nat : x = a.ptr /\ y = b.ptr
        BY <2>5
      <4>4. x - Hdr = y - Hdr
        BY <4>1, <4>2, <4>3
      <4>5. x = y
        BY <4>4, Units
      <4>6. a = b
        BY <2>4, <4>3, <4>5 DEF Matches
      <4> QED  BY <4>2, <4>6
    <3>6. owner \in Bijection(InUse, live)
      BY <3>3, <3>4, <3>5 DEF Bijection, Injection, Surjection, IsInjective
    <3>7. ExistsBijection(InUse, live)
      BY <3>6 DEF ExistsBijection
    <3>8. IsFiniteSet(InUse)
      <4>1. IsFiniteSet(1 .. Len(chain))
        BY <2>3, FS_Interval
      <4> QED  BY <2>7, <4>1, FS_Subset
    <3> QED  BY <3>7, <3>8, FS_Bijection
  <2> QED  BY <2>1, <2>8, <2>9 DEF LiveMatchesChain
<1> QED  BY IInvHolds, <1>1, PTL
=============================================================================
