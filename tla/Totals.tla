------------------------------ MODULE Totals ------------------------------
(***************************************************************************)
(* Sums over finite sets, as the fold of the community modules computes    *)
(* them: what the proofs about the heap and the page allocator need to     *)
(* know of the bytes of their blocks.                                      *)
(***************************************************************************)
EXTENDS FiniteSets, Integers, Functions, FiniteSetTheorems, TLAPS

\* the sum of the values f[x], for x in S
Total(f, S) == FoldFunctionOnSet(+, 0, f, S)

-----------------------------------------------------------------------------
(***************************************************************************)
(* The fold takes the elements in the order of CHOOSE.  The function that  *)
(* it is a value of exists, and is the only one.                           *)
(***************************************************************************)

Pick(s) == CHOOSE x \in s : TRUE

IsIter(it, f, S) ==
    it = [s \in SUBSET S |-> IF s = {} THEN 0 ELSE f[Pick(s)] + it[s \ {Pick(s)}]]

LEMMA TotalIsIter ==
    ASSUME NEW f, NEW S
    PROVE  Total(f, S) = (CHOOSE it : IsIter(it, f, S))[S]
BY DEF Total, FoldFunctionOnSet, MapThenFoldSet, IsIter, Pick

\* A set of natural numbers has a least element, unless it is empty.
LEMMA Least ==
    ASSUME NEW T \in SUBSET Nat, T # {}
    PROVE  \E l \in T : \A k \in T : l =< k
<1>1. PICK l \in T : \A k \in T : ~(<<k, l>> \in OpToRel(<, Nat))
  BY NatLessThanWellFounded, WFMin
<1>2. \A k \in T : <<k, l>> \in OpToRel(<, Nat) <=> k < l
  BY <1>1 DEF OpToRel
<1>3. ASSUME NEW k \in T PROVE l =< k
  <2>1. k \in Nat /\ l \in Nat /\ ~(k < l)
    BY <1>1, <1>2
  <2> QED  BY <2>1
<1> QED  BY <1>3

\* A set of finite sets that is not empty has a smallest member.
LEMMA Smallest ==
    ASSUME NEW U, U # {}, \A s \in U : IsFiniteSet(s)
    PROVE  \E s \in U : \A r \in U : Cardinality(s) =< Cardinality(r)
<1>1. PICK T : T = {Cardinality(s) : s \in U}
  OBVIOUS
<1>2. T \in SUBSET Nat /\ T # {}
  BY <1>1, FS_CardinalityType
<1>3. PICK l \in T : \A k \in T : l =< k
  BY <1>2, Least
<1> QED  BY <1>1, <1>3

\* A finite set has more elements than without one of them.
LEMMA Smaller ==
    ASSUME NEW s, IsFiniteSet(s), NEW x \in s
    PROVE  /\ IsFiniteSet(s \ {x})
           /\ Cardinality(s \ {x}) \in Nat /\ Cardinality(s) \in Nat
           /\ Cardinality(s \ {x}) < Cardinality(s)
<1>1. IsFiniteSet(s \ {x}) /\ Cardinality(s \ {x}) = Cardinality(s) - 1
  BY FS_RemoveElement
<1>2. Cardinality(s \ {x}) \in Nat /\ Cardinality(s) \in Nat
  BY <1>1, FS_CardinalityType
<1> QED  BY <1>1, <1>2

LEMMA PickIsIn == ASSUME NEW s, s # {} PROVE Pick(s) \in s
BY DEF Pick

\* Two such functions agree where both are defined.
LEMMA IterUnique ==
    ASSUME NEW f, NEW S, NEW R, NEW a, NEW b, IsIter(a, f, S), IsIter(b, f, R),
           NEW s, s \subseteq S, s \subseteq R, IsFiniteSet(s)
    PROVE  a[s] = b[s]
<1>1. PICK U : U = {r \in SUBSET s : a[r] # b[r]}
  OBVIOUS
<1> SUFFICES ASSUME U # {} PROVE FALSE
  BY <1>1
<1>2. \A r \in U : IsFiniteSet(r)
  BY <1>1, FS_Subset
<1>3. PICK r \in U : \A q \in U : Cardinality(r) =< Cardinality(q)
  BY <1>2, Smallest
<1>4. r \in SUBSET S /\ r \in SUBSET R /\ r \in SUBSET s /\ a[r] # b[r]
  BY <1>1
<1>5. /\ a[r] = IF r = {} THEN 0 ELSE f[Pick(r)] + a[r \ {Pick(r)}]
      /\ b[r] = IF r = {} THEN 0 ELSE f[Pick(r)] + b[r \ {Pick(r)}]
  BY <1>4 DEF IsIter
<1>6. r # {}
  BY <1>4, <1>5
<1>7. PICK x \in r : x = Pick(r)
  BY <1>6, PickIsIn
<1>8. r \ {x} \in U
  <2>1. a[r \ {x}] # b[r \ {x}]
    BY <1>4, <1>5, <1>6, <1>7
  <2> QED  BY <1>1, <1>4, <2>1
<1>9. IsFiniteSet(r)
  BY <1>2
<1>10. /\ Cardinality(r \ {x}) \in Nat /\ Cardinality(r) \in Nat
       /\ Cardinality(r \ {x}) < Cardinality(r)
  BY <1>9, Smaller
<1>11. Cardinality(r) =< Cardinality(r \ {x})
  BY <1>3, <1>8
<1> QED  BY <1>10, <1>11

\* If there is one, the sum is its value.
LEMMA TotalOfIter ==
    ASSUME NEW f, NEW S, IsFiniteSet(S), NEW a, IsIter(a, f, S)
    PROVE  \A s \in SUBSET S : (\E b : IsIter(b, f, s)) => Total(f, s) = a[s]
<1> SUFFICES ASSUME NEW s \in SUBSET S, NEW b, IsIter(b, f, s)
             PROVE  Total(f, s) = a[s]
  OBVIOUS
<1>1. PICK c : c = CHOOSE it : IsIter(it, f, s)
  OBVIOUS
<1>2. IsIter(c, f, s)
  BY <1>1
<1>3. IsFiniteSet(s)
  BY FS_Subset
<1>4. c[s] = a[s]
  BY <1>2, <1>3, IterUnique
<1> QED  BY <1>1, <1>4, TotalIsIter

LEMMA IterExists ==
    ASSUME NEW f, NEW S, IsFiniteSet(S)
    PROVE  \E a : IsIter(a, f, S)
<1>1. PICK U : U = {s \in SUBSET S : ~ \E a : IsIter(a, f, s)}
  OBVIOUS
<1> SUFFICES ASSUME U # {} PROVE FALSE
  BY <1>1
<1>2. \A r \in U : IsFiniteSet(r)
  BY <1>1, FS_Subset
<1>3. PICK s \in U : \A q \in U : Cardinality(s) =< Cardinality(q)
  BY <1>2, Smallest
<1>4. s \in SUBSET S /\ IsFiniteSet(s) /\ ~ \E a : IsIter(a, f, s)
  BY <1>1, <1>2
<1>5. ASSUME NEW r \in SUBSET s, r # s PROVE IsFiniteSet(r) /\ \E a : IsIter(a, f, r)
  <2>1. IsFiniteSet(r) /\ Cardinality(r) =< Cardinality(s) /\ Cardinality(r) # Cardinality(s)
    BY <1>4, <1>5, FS_Subset
  <2>2. Cardinality(r) \in Nat /\ Cardinality(s) \in Nat
    BY <1>4, <2>1, FS_CardinalityType
  <2>3. r \notin U
    BY <1>3, <2>1, <2>2
  <2> QED  BY <1>1, <1>4, <2>1, <2>3
<1>6. s # {}
  <2>1. SUFFICES ASSUME s = {} PROVE FALSE
    OBVIOUS
  <2>2. PICK a : a = [r \in SUBSET {} |-> 0]
    OBVIOUS
  <2>3. IsIter(a, f, {})
    BY <2>2 DEF IsIter
  <2> QED  BY <1>4, <2>1, <2>3
<1>7. PICK x \in s : x = Pick(s)
  BY <1>6, PickIsIn
<1>8. PICK a : a = [r \in SUBSET s |-> IF r = s THEN f[x] + Total(f, s \ {x}) ELSE Total(f, r)]
  OBVIOUS
<1>9. ASSUME NEW r \in SUBSET s
      PROVE  a[r] = IF r = {} THEN 0 ELSE f[Pick(r)] + a[r \ {Pick(r)}]
  <2>1. CASE r = s
    <3>1. s \ {x} \in SUBSET s /\ s \ {x} # s
      OBVIOUS
    <3>2. a[s \ {x}] = Total(f, s \ {x}) /\ a[s] = f[x] + Total(f, s \ {x})
      BY <1>8, <3>1
    <3> QED  BY <1>6, <1>7, <2>1, <3>2
  <2>2. CASE r # s
    <3>1. PICK c : IsIter(c, f, r)
      BY <1>5, <2>2
    <3>2. IsFiniteSet(r)
      BY <1>5, <2>2
    <3>3. Total(f, r) = c[r]
      BY <3>1, <3>2, TotalOfIter
    <3>4. c[r] = IF r = {} THEN 0 ELSE f[Pick(r)] + c[r \ {Pick(r)}]
      BY <3>1 DEF IsIter
    <3>5. a[r] = Total(f, r)
      BY <1>8, <2>2
    <3>6. ASSUME r # {} PROVE a[r \ {Pick(r)}] = c[r \ {Pick(r)}]
      <4>1. PICK y \in r : y = Pick(r)
        BY <3>6, PickIsIn
      <4>2. r \ {y} \in SUBSET s /\ r \ {y} # s /\ r \ {y} \in SUBSET r
        OBVIOUS
      <4>3. \E b : IsIter(b, f, r \ {y})
        BY <1>5, <4>2
      <4>4. Total(f, r \ {y}) = c[r \ {y}]
        BY <3>1, <3>2, <4>2, <4>3, TotalOfIter
      <4>5. a[r \ {y}] = Total(f, r \ {y})
        BY <1>8, <4>2
      <4> QED  BY <4>1, <4>4, <4>5
    <3> QED  BY <3>3, <3>4, <3>5, <3>6
  <2> QED  BY <2>1, <2>2
<1>10. IsIter(a, f, s)
  <2>1. a = [r \in SUBSET s |-> a[r]]
    BY <1>8
  <2> QED  BY <1>9, <2>1 DEF IsIter
<1> QED  BY <1>4, <1>10

-----------------------------------------------------------------------------
(***************************************************************************)
(* Sums                                                                    *)
(***************************************************************************)

LEMMA TotalEmpty == \A f : Total(f, {}) = 0
<1> SUFFICES ASSUME NEW f PROVE Total(f, {}) = 0
  OBVIOUS
<1>1. IsFiniteSet({})
  BY FS_EmptySet
<1>2. PICK a : IsIter(a, f, {})
  BY <1>1, IterExists
<1>3. Total(f, {}) = a[{}]
  BY <1>1, <1>2, TotalOfIter
<1> QED  BY <1>2, <1>3 DEF IsIter

\* The sum is that of one element and that of the others, for the element
\* that the fold takes ...
LEMMA TotalPick ==
    ASSUME NEW f, NEW S, IsFiniteSet(S), S # {}
    PROVE  Total(f, S) = f[Pick(S)] + Total(f, S \ {Pick(S)})
<1>1. PICK x \in S : x = Pick(S)
  BY PickIsIn
<1>2. PICK a : IsIter(a, f, S)
  BY IterExists
<1>3. Total(f, S) = a[S]
  BY <1>2, TotalOfIter
<1>4. IsFiniteSet(S \ {x}) /\ S \ {x} \in SUBSET S
  BY FS_RemoveElement
<1>5. \E b : IsIter(b, f, S \ {x})
  BY <1>4, IterExists
<1>6. Total(f, S \ {x}) = a[S \ {x}]
  BY <1>2, <1>4, <1>5, TotalOfIter
<1>7. a[S] = f[x] + a[S \ {x}]
  BY <1>1, <1>2 DEF IsIter
<1> QED  BY <1>1, <1>3, <1>6, <1>7

LEMMA TotalType ==
    ASSUME NEW f, NEW S, IsFiniteSet(S), \A x \in S : f[x] \in Nat
    PROVE  Total(f, S) \in Nat
<1>1. PICK U : U = {s \in SUBSET S : ~(Total(f, s) \in Nat)}
  OBVIOUS
<1> SUFFICES ASSUME U # {} PROVE FALSE
  BY <1>1
<1>2. \A r \in U : IsFiniteSet(r)
  BY <1>1, FS_Subset
<1>3. PICK s \in U : \A q \in U : Cardinality(s) =< Cardinality(q)
  BY <1>2, Smallest
<1>4. s \in SUBSET S /\ IsFiniteSet(s) /\ ~(Total(f, s) \in Nat) /\ s # {}
  BY <1>1, <1>2, TotalEmpty
<1>5. PICK x \in s : x = Pick(s)
  BY <1>4, PickIsIn
<1>6. Total(f, s) = f[x] + Total(f, s \ {x})
  BY <1>4, <1>5, TotalPick
<1>7. /\ Cardinality(s \ {x}) \in Nat /\ Cardinality(s) \in Nat
      /\ Cardinality(s \ {x}) < Cardinality(s)
  BY <1>4, Smaller
<1>8. s \ {x} \notin U
  BY <1>3, <1>7
<1>9. Total(f, s \ {x}) \in Nat
  BY <1>1, <1>4, <1>8
<1>10. f[x] \in Nat
  BY <1>4
<1> QED  BY <1>4, <1>6, <1>9, <1>10

\* ... and for each of them.
LEMMA TotalSplit ==
    ASSUME NEW f, NEW S, IsFiniteSet(S), \A x \in S : f[x] \in Nat, NEW x \in S
    PROVE  Total(f, S) = f[x] + Total(f, S \ {x})
<1>1. PICK U : U = {s \in SUBSET S : \E y \in s : Total(f, s) # f[y] + Total(f, s \ {y})}
  OBVIOUS
<1> SUFFICES ASSUME U # {} PROVE FALSE
  BY <1>1
<1>2. \A r \in U : IsFiniteSet(r)
  BY <1>1, FS_Subset
<1>3. PICK s \in U : \A q \in U : Cardinality(s) =< Cardinality(q)
  BY <1>2, Smallest
<1>4. s \in SUBSET S /\ IsFiniteSet(s)
  BY <1>1, <1>2
<1>5. PICK y \in s : Total(f, s) # f[y] + Total(f, s \ {y})
  BY <1>1
<1>6. PICK c \in s : c = Pick(s)
  BY <1>5, PickIsIn
<1>7. Total(f, s) = f[c] + Total(f, s \ {c})
  BY <1>4, <1>5, <1>6, TotalPick
<1>8. y # c
  BY <1>5, <1>7
<1>9. ASSUME NEW z \in s, NEW w \in s, z # w
      PROVE  Total(f, s \ {z}) = f[w] + Total(f, (s \ {z}) \ {w})
  <2>1. /\ Cardinality(s \ {z}) \in Nat /\ Cardinality(s) \in Nat
        /\ Cardinality(s \ {z}) < Cardinality(s)
    BY <1>4, Smaller
  <2>2. s \ {z} \notin U
    BY <1>3, <2>1
  <2>3. s \ {z} \in SUBSET S /\ w \in s \ {z}
    BY <1>4, <1>9
  <2> QED  BY <1>1, <2>2, <2>3
<1>10. Total(f, s \ {c}) = f[y] + Total(f, (s \ {c}) \ {y})
  BY <1>8, <1>9
<1>11. Total(f, s \ {y}) = f[c] + Total(f, (s \ {y}) \ {c})
  BY <1>8, <1>9
<1>12. PICK r : r = (s \ {c}) \ {y} /\ r = (s \ {y}) \ {c}
  OBVIOUS
<1>13. Total(f, r) \in Nat /\ f[c] \in Nat /\ f[y] \in Nat
  <2>1. IsFiniteSet(r) /\ r \subseteq S
    BY <1>4, <1>12, FS_Subset
  <2>2. \A z \in r : f[z] \in Nat
    BY <2>1
  <2> QED  BY <1>4, <2>1, <2>2, TotalType
<1>14. PICK t \in Nat : t = Total(f, r)
  BY <1>13
<1>15. Total(f, s \ {c}) = f[y] + t /\ Total(f, s \ {y}) = f[c] + t
  BY <1>10, <1>11, <1>12, <1>14
<1>16. Total(f, s) = f[c] + (f[y] + t) /\ Total(f, s) # f[y] + (f[c] + t)
  BY <1>5, <1>7, <1>15
<1> QED  BY <1>13, <1>16

\* Only the values on the set matter.
LEMMA TotalSame ==
    ASSUME NEW f, NEW g, NEW S, IsFiniteSet(S), \A x \in S : f[x] = g[x]
    PROVE  Total(f, S) = Total(g, S)
<1>1. PICK U : U = {s \in SUBSET S : Total(f, s) # Total(g, s)}
  OBVIOUS
<1> SUFFICES ASSUME U # {} PROVE FALSE
  BY <1>1
<1>2. \A r \in U : IsFiniteSet(r)
  BY <1>1, FS_Subset
<1>3. PICK s \in U : \A q \in U : Cardinality(s) =< Cardinality(q)
  BY <1>2, Smallest
<1>4. s \in SUBSET S /\ IsFiniteSet(s) /\ Total(f, s) # Total(g, s) /\ s # {}
  BY <1>1, <1>2, TotalEmpty
<1>5. PICK x \in s : x = Pick(s)
  BY <1>4, PickIsIn
<1>6. Total(f, s) = f[x] + Total(f, s \ {x}) /\ Total(g, s) = g[x] + Total(g, s \ {x})
  BY <1>4, <1>5, TotalPick
<1>7. /\ Cardinality(s \ {x}) \in Nat /\ Cardinality(s) \in Nat
      /\ Cardinality(s \ {x}) < Cardinality(s)
  BY <1>4, Smaller
<1>8. s \ {x} \notin U
  BY <1>3, <1>7
<1>9. Total(f, s \ {x}) = Total(g, s \ {x})
  BY <1>1, <1>4, <1>8
<1>10. f[x] = g[x]
  BY <1>4
<1> QED  BY <1>4, <1>6, <1>9, <1>10
=============================================================================
