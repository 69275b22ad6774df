--------------------------- MODULE LibraryProofs ---------------------------
(***************************************************************************)
(* Proofs about the kernel's pure algorithms: for every input that         *)
(* LibraryAssumption allows, each of them computes what Library says.      *)
(*                                                                         *)
(* The algorithms are loops, and so recursive functions in the model; such *)
(* a function is a CHOOSE, whose equation holds once there is a function   *)
(* that satisfies it.  What a loop keeps is proved at a least step that    *)
(* would break it.                                                         *)
(***************************************************************************)
EXTENDS Library, Totals, SequenceTheorems

-----------------------------------------------------------------------------
(***************************************************************************)
(* Loops                                                                   *)
(***************************************************************************)

\* v is what a loop has computed after 0 to m steps
Iterates(v, X, start, step, m) ==
    /\ v \in [0 .. m -> X] /\ v[0] = start
    /\ \A n \in 1 .. m : v[n] = step[<<n, v[n - 1]>>]

\* A loop over the values of a set can make any number of steps.
LEMMA Iteration ==
    ASSUME NEW X, NEW start \in X, NEW m \in Nat, NEW step \in [(1 .. m) \X X -> X]
    PROVE  \E v : Iterates(v, X, start, step, m)
<1>1. PICK U : U = {k \in 0 .. m : ~ \E v : Iterates(v, X, start, step, k)}
  OBVIOUS
<1> SUFFICES ASSUME U # {} PROVE FALSE
  <2>1. m \in 0 .. m
    OBVIOUS
  <2> QED  BY <1>1, <2>1
<1>2. U \in SUBSET Nat
  BY <1>1
<1>3. PICK k \in U : \A j \in U : k =< j
  BY <1>2, Least
<1>4. k \in 0 .. m /\ ~ \E v : Iterates(v, X, start, step, k)
  BY <1>1, <1>3
<1>5. k # 0
  <2> SUFFICES ASSUME k = 0 PROVE FALSE
    OBVIOUS
  <2>1. PICK v : v = [i \in 0 .. 0 |-> start]
    OBVIOUS
  <2>2. Iterates(v, X, start, step, 0)
    BY <2>1 DEF Iterates
  <2> QED  BY <1>4, <2>2
<1>6. k - 1 \in 0 .. m /\ ~(k =< k - 1)
  BY <1>4, <1>5
<1>7. PICK v : Iterates(v, X, start, step, k - 1)
  BY <1>1, <1>3, <1>6
<1>8. /\ v \in [0 .. k - 1 -> X] /\ v[0] = start
      /\ \A n \in 1 .. k - 1 : v[n] = step[<<n, v[n - 1]>>]
  BY <1>7 DEF Iterates
<1>9. PICK x \in X : x = step[<<k, v[k - 1]>>]
  <2>1. k - 1 \in 0 .. k - 1 /\ k \in 1 .. m
    BY <1>4, <1>5
  <2>2. v[k - 1] \in X
    BY <1>8, <2>1
  <2>3. <<k, v[k - 1]>> \in (1 .. m) \X X
    BY <2>1, <2>2
  <2> QED  BY <2>3
<1>10. PICK w : w = [i \in 0 .. k |-> IF i = k THEN x ELSE v[i]]
  OBVIOUS
<1>11. \A i \in 0 .. k - 1 : i \in 0 .. k /\ w[i] = v[i]
  BY <1>4, <1>10
<1>12. w[k] = x
  BY <1>4, <1>10
<1>13. w \in [0 .. k -> X]
  BY <1>4, <1>8, <1>10
<1>14. w[0] = start
  BY <1>4, <1>5, <1>8, <1>11
<1>15. ASSUME NEW n \in 1 .. k PROVE w[n] = step[<<n, w[n - 1]>>]
  <2>1. n - 1 \in 0 .. k - 1
    BY <1>4
  <2>2. w[n - 1] = v[n - 1]
    BY <1>11, <2>1
  <2>3. CASE n = k
    BY <1>9, <1>12, <2>2, <2>3
  <2>4. CASE n # k
    <3>1. n \in 1 .. k - 1 /\ n \in 0 .. k - 1
      BY <1>4, <2>4
    <3> QED  BY <1>8, <1>11, <2>2, <3>1
  <2> QED  BY <2>3, <2>4
<1>16. Iterates(w, X, start, step, k)
  BY <1>13, <1>14, <1>15 DEF Iterates
<1> QED  BY <1>4, <1>16

\* What a loop computes is one of the values, if each step keeps to them.
LEMMA IterationStays ==
    ASSUME NEW X, NEW m \in Nat, NEW v, v[0] \in X,
           \A n \in 1 .. m : v[n - 1] \in X => v[n] \in X
    PROVE  \A n \in 0 .. m : v[n] \in X
<1>1. PICK U : U = {k \in 0 .. m : v[k] \notin X}
  OBVIOUS
<1> SUFFICES ASSUME U # {} PROVE FALSE
  BY <1>1
<1>2. U \in SUBSET Nat
  BY <1>1
<1>3. PICK k \in U : \A j \in U : k =< j
  BY <1>2, Least
<1>4. k \in 0 .. m /\ v[k] \notin X
  BY <1>1, <1>3
<1>5. k # 0
  BY <1>4
<1>6. k \in 1 .. m /\ k - 1 \in 0 .. m /\ ~(k =< k - 1)
  BY <1>4, <1>5
<1>7. v[k - 1] \in X
  BY <1>1, <1>3, <1>6
<1> QED  BY <1>4, <1>6, <1>7

-----------------------------------------------------------------------------
(***************************************************************************)
(* The console                                                             *)
(***************************************************************************)

Screen == [width : Nat \ {0}, height : Nat \ {0}]
Character == {"glyph", "newline", "tab"}
Cursor == [x : Nat, y : Nat, top : Nat]

\* c is further on than a, in the order in which a text is written
Further(c, a) ==
    \/ a.top < c.top
    \/ a.top = c.top /\ a.y < c.y
    \/ a.top = c.top /\ a.y = c.y /\ a.x < c.x

\* The tests before a character bring the cursor into the screen, and never
\* back.
LEMMA WrappedInside ==
    ASSUME NEW s \in Screen, NEW a \in Cursor
    PROVE  /\ Wrapped(s, a) \in Cursor
           /\ Wrapped(s, a).x < s.width /\ Wrapped(s, a).y < s.height
           /\ Wrapped(s, a) = a \/ Further(Wrapped(s, a), a)
<1> DEFINE l == IF a.x >= s.width THEN NextLine(a) ELSE a
<1>1. a.x \in Nat /\ a.y \in Nat /\ a.top \in Nat
  BY DEF Cursor
<1>2. s.width \in Nat /\ s.height \in Nat /\ 0 < s.width /\ 0 < s.height
  BY DEF Screen
<1>3. PICK line : line = l
  OBVIOUS
<1>4. /\ line \in Cursor /\ line.x < s.width /\ line.top = a.top
      /\ line = a \/ (line.top = a.top /\ a.y < line.y)
  <2>1. CASE a.x >= s.width
    <3>1. line = [x |-> 0, y |-> a.y + 16, top |-> a.top]
      BY <1>3, <2>1 DEF NextLine
    <3> QED  BY <1>1, <1>2, <3>1 DEF Cursor
  <2>2. CASE ~(a.x >= s.width)
    BY <1>1, <1>2, <1>3, <2>2
  <2> QED  BY <2>1, <2>2
<1>5. PICK w : w = Wrapped(s, a)
  OBVIOUS
<1>6. w = IF line.y >= s.height THEN [x |-> 0, y |-> 0, top |-> a.top + 1] ELSE line
  BY <1>3, <1>5 DEF Wrapped
<1>7. CASE line.y >= s.height
  <2>1. w = [x |-> 0, y |-> 0, top |-> a.top + 1]
    BY <1>6, <1>7
  <2>2. w \in Cursor /\ w.x < s.width /\ w.y < s.height /\ a.top < w.top
    BY <1>1, <1>2, <2>1 DEF Cursor
  <2> QED  BY <1>5, <2>2 DEF Further
<1>8. CASE ~(line.y >= s.height)
  <2>1. w = line /\ line.y \in Nat
    BY <1>4, <1>6, <1>8 DEF Cursor
  <2>2. w \in Cursor /\ w.x < s.width /\ w.y < s.height
    BY <1>2, <1>4, <1>8, <2>1
  <2>3. w = a \/ Further(w, a)
    BY <1>4, <2>1 DEF Further
  <2> QED  BY <1>5, <2>2, <2>3
<1> QED  BY <1>7, <1>8

\* The cursor stays a cursor; and it only goes back for a tab.
LEMMA PutChar ==
    ASSUME NEW s \in Screen, NEW a \in Cursor, NEW char \in Character
    PROVE  /\ sterm_put_char(s, a, char) \in Cursor
           /\ char # "tab" => Further(sterm_put_char(s, a, char), a)
           /\ char = "glyph" => Further(sterm_put_char(s, a, char), Wrapped(s, a))
<1>1. PICK w : w = Wrapped(s, a)
  OBVIOUS
<1>2. w \in Cursor /\ (w = a \/ Further(w, a))
  BY <1>1, WrappedInside
<1>3. /\ a.x \in Nat /\ a.y \in Nat /\ a.top \in Nat
      /\ w.x \in Nat /\ w.y \in Nat /\ w.top \in Nat
  BY <1>2 DEF Cursor
<1>4. PICK c : c = sterm_put_char(s, a, char)
  OBVIOUS
<1>5. CASE char = "newline"
  <2>1. c = [x |-> 0, y |-> a.y + 16, top |-> a.top]
    BY <1>4, <1>5 DEF sterm_put_char, NextLine
  <2>2. c \in Cursor /\ c.top = a.top /\ a.y < c.y
    BY <1>3, <2>1 DEF Cursor
  <2> QED  BY <1>4, <1>5, <2>2 DEF Further
<1>6. CASE char = "tab"
  <2>1. c = [w EXCEPT !.x = TabStop]
    BY <1>1, <1>4, <1>6 DEF sterm_put_char
  <2>2. c \in Cursor
    BY <1>2, <2>1 DEF Cursor, TabStop
  <2> QED  BY <1>4, <1>6, <2>2
<1>7. CASE char = "glyph"
  <2>1. c = [w EXCEPT !.x = @ + FontWidth]
    BY <1>1, <1>4, <1>7 DEF sterm_put_char
  <2>2. c \in Cursor /\ c.top = w.top /\ c.y = w.y /\ w.x < c.x
    BY <1>2, <1>3, <2>1 DEF Cursor, FontWidth
  <2>3. c.top \in Nat /\ c.y \in Nat /\ c.x \in Nat
    BY <2>2 DEF Cursor
  <2>4. Further(c, w)
    BY <2>2 DEF Further
  <2>5. Further(c, a)
    BY <1>2, <1>3, <2>3, <2>4 DEF Further
  <2> QED  BY <1>1, <1>4, <1>7, <2>2, <2>4, <2>5
<1> QED  BY <1>5, <1>6, <1>7 DEF Character

\* at is where the cursor is after each character of a text
Prints(at, s, text) ==
    /\ \A n \in 0 .. Len(text) : at[n] \in Cursor
    /\ \A n \in 1 .. Len(text) : at[n] = sterm_put_char(s, at[n - 1], text[n])

LEMMA PutString ==
    ASSUME NEW s \in Screen, NEW text \in Seq(Character)
    PROVE  Prints(sterm_put_string(s, text), s, text)
<1> DEFINE Is(v) == v = [n \in 0 .. Len(text) |->
                            IF n = 0 THEN Origin ELSE sterm_put_char(s, v[n - 1], text[n])]
<1>1. PICK m \in Nat : m = Len(text)
  OBVIOUS
<1>2. PICK step : step = [p \in (1 .. m) \X Cursor |-> sterm_put_char(s, p[2], text[p[1]])]
  OBVIOUS
<1>3. ASSUME NEW n \in 1 .. m, NEW a \in Cursor
      PROVE  /\ step[<<n, a>>] = sterm_put_char(s, a, text[n])
             /\ sterm_put_char(s, a, text[n]) \in Cursor
  <2>1. text[n] \in Character
    BY <1>1
  <2>2. <<n, a>> \in (1 .. m) \X Cursor
    OBVIOUS
  <2> QED  BY <1>2, <2>1, <2>2, PutChar
<1>4. step \in [(1 .. m) \X Cursor -> Cursor]
  <2>1. ASSUME NEW p \in (1 .. m) \X Cursor
        PROVE  sterm_put_char(s, p[2], text[p[1]]) \in Cursor
    BY <1>3
  <2> QED  BY <1>2, <2>1
<1>5. Origin \in Cursor
  BY DEF Origin, Cursor
<1>6. PICK v : Iterates(v, Cursor, Origin, step, m)
  BY <1>4, <1>5, Iteration
<1>7. /\ v \in [0 .. m -> Cursor] /\ v[0] = Origin
      /\ \A n \in 1 .. m : v[n] = step[<<n, v[n - 1]>>]
  BY <1>6 DEF Iterates
<1>8. ASSUME NEW n \in 0 .. m
      PROVE  v[n] = IF n = 0 THEN Origin ELSE sterm_put_char(s, v[n - 1], text[n])
  <2>1. CASE n = 0
    BY <1>7, <2>1
  <2>2. CASE n # 0
    <3>1. n \in 1 .. m /\ n - 1 \in 0 .. m
      BY <2>2
    <3> QED  BY <1>3, <1>7, <2>2, <3>1
  <2> QED  BY <2>1, <2>2
<1>9. Is(v)
  BY <1>1, <1>7, <1>8
<1>10. PICK at : at = sterm_put_string(s, text)
  OBVIOUS
<1>11. at = CHOOSE w : Is(w)
  BY <1>10 DEF sterm_put_string
<1>12. Is(at)
  BY <1>9, <1>11
<1>13. \A n \in 0 .. m :
          at[n] = IF n = 0 THEN Origin ELSE sterm_put_char(s, at[n - 1], text[n])
  BY <1>1, <1>12
<1>14. at[0] \in Cursor
  BY <1>5, <1>13
<1>15. \A n \in 1 .. m : at[n] = sterm_put_char(s, at[n - 1], text[n])
  BY <1>13
<1>16. \A n \in 1 .. m : at[n - 1] \in Cursor => at[n] \in Cursor
  BY <1>3, <1>15
<1>17. \A n \in 0 .. m : at[n] \in Cursor
  BY <1>14, <1>16, IterationStays
<1> QED  BY <1>1, <1>10, <1>15, <1>17 DEF Prints

\* A glyph is drawn further on than all that were drawn before it.
LEMMA CornersRise ==
    ASSUME NEW s \in Screen, NEW text \in Seq(Character), NEW at, Prints(at, s, text),
           \A n \in 1 .. Len(text) : text[n] # "tab",
           NEW p \in 1 .. Len(text), text[p] = "glyph", NEW n \in 1 .. Len(text), p < n
    PROVE  Further(Wrapped(s, at[n - 1]), Wrapped(s, at[p - 1]))
<1>1. PICK m \in Nat : m = Len(text)
  OBVIOUS
<1>2. /\ \A k \in 0 .. m : at[k] \in Cursor
      /\ \A k \in 1 .. m : at[k] = sterm_put_char(s, at[k - 1], text[k])
  BY <1>1 DEF Prints
<1>3. PICK c : c = Wrapped(s, at[p - 1])
  OBVIOUS
<1>4. p \in 1 .. m /\ p - 1 \in 0 .. m /\ n \in 1 .. m /\ n - 1 \in 0 .. m /\ p =< n - 1
  BY <1>1
<1>5. c \in Cursor
  BY <1>2, <1>3, <1>4, WrappedInside
<1>6. at[p] \in Cursor /\ Further(at[p], c)
  BY <1>2, <1>3, <1>4, PutChar DEF Character
<1>7. PICK U : U = {k \in p .. m : ~Further(at[k], c)}
  OBVIOUS
<1>8. U = {}
  <2> SUFFICES ASSUME U # {} PROVE FALSE
    OBVIOUS
  <2>1. U \in SUBSET Nat
    BY <1>4, <1>7
  <2>2. PICK k \in U : \A j \in U : k =< j
    BY <2>1, Least
  <2>3. k \in p .. m /\ ~Further(at[k], c)
    BY <1>7, <2>2
  <2>4. k # p
    BY <1>6, <2>3
  <2>5. k - 1 \in p .. m /\ ~(k =< k - 1) /\ k \in 1 .. m /\ k - 1 \in 0 .. m
    BY <1>4, <2>3, <2>4
  <2>6. Further(at[k - 1], c)
    BY <1>7, <2>2, <2>5
  <2>7. text[k] \in Character /\ text[k] # "tab"
    BY <1>1, <2>5
  <2>8. Further(at[k], at[k - 1]) /\ at[k] \in Cursor /\ at[k - 1] \in Cursor
    BY <1>2, <2>5, <2>7, PutChar
  <2>9. ASSUME NEW d \in Cursor, NEW e \in Cursor, Further(d, e), Further(e, c)
        PROVE  Further(d, c)
    BY <1>5, <2>9 DEF Further, Cursor
  <2> QED  BY <2>3, <2>6, <2>8, <2>9
<1>9. PICK e \in Cursor : e = at[n - 1]
  BY <1>2, <1>4
<1>10. Further(e, c)
  BY <1>4, <1>7, <1>8, <1>9
<1>11. PICK w \in Cursor : w = Wrapped(s, e) /\ (w = e \/ Further(w, e))
  BY WrappedInside
<1>12. Further(w, c)
  BY <1>5, <1>10, <1>11 DEF Further, Cursor
<1> QED  BY <1>3, <1>9, <1>11, <1>12

\* The places of glyphs are inside the screen, and different if there are no
\* tabs.
GlyphsInside(s, glyphs) ==
    \A g \in glyphs : g.corner.x < s.width /\ g.corner.y < s.height

LEMMA PrintedGlyphs ==
    ASSUME NEW s \in Screen, NEW text \in Seq(Character)
    PROVE  /\ GlyphsInside(s, Glyphs(s, text))
           /\ "tab" \notin ToSet(text) =>
                 Cardinality({g.corner : g \in Glyphs(s, text)}) = Cardinality(Glyphs(s, text))
<1>1. PICK at : at = sterm_put_string(s, text)
  OBVIOUS
<1>2. Prints(at, s, text)
  BY <1>1, PutString
<1>3. PICK m \in Nat : m = Len(text) /\ DOMAIN text = 1 .. m
  OBVIOUS
<1>4. PICK D : D = {k \in DOMAIN text : text[k] \notin {"newline", "tab"}}
  OBVIOUS
<1>5. \A n \in D : n \in 1 .. m /\ n - 1 \in 0 .. m /\ text[n] = "glyph"
  BY <1>3, <1>4 DEF Character
<1>6. PICK G : G = Glyphs(s, text)
  OBVIOUS
<1>7. G = {[n |-> n, corner |-> Wrapped(s, at[n - 1])] : n \in D}
  BY <1>1, <1>4, <1>6 DEF Glyphs
<1>8. \A n \in D : at[n - 1] \in Cursor
  BY <1>2, <1>3, <1>5 DEF Prints
<1>9. GlyphsInside(s, G)
  <2>1. ASSUME NEW g \in G PROVE g.corner.x < s.width /\ g.corner.y < s.height
    <3>1. PICK n \in D : g = [n |-> n, corner |-> Wrapped(s, at[n - 1])]
      BY <1>7
    <3>2. g.corner = Wrapped(s, at[n - 1])
      BY <3>1
    <3> QED  BY <1>8, <3>2, WrappedInside
  <2> QED  BY <2>1 DEF GlyphsInside
<1>10. ASSUME "tab" \notin ToSet(text)
       PROVE  Cardinality({g.corner : g \in G}) = Cardinality(G)
  <2>1. \A n \in 1 .. Len(text) : text[n] # "tab"
    BY <1>3, <1>10 DEF ToSet
  <2>2. ASSUME NEW n \in D, NEW p \in D, p < n
        PROVE  Wrapped(s, at[n - 1]) # Wrapped(s, at[p - 1])
    <3>1. PICK c : c = Wrapped(s, at[p - 1])
      OBVIOUS
    <3>2. Further(Wrapped(s, at[n - 1]), c)
      BY <1>2, <1>3, <1>5, <2>1, <2>2, <3>1, CornersRise
    <3>3. c \in Cursor
      BY <1>8, <3>1, WrappedInside
    <3>4. ~Further(c, c)
      BY <3>3 DEF Further, Cursor
    <3> QED  BY <3>1, <3>2, <3>4
  <2>3. \A n, p \in D : Wrapped(s, at[n - 1]) = Wrapped(s, at[p - 1]) => n = p
    <3> SUFFICES ASSUME NEW n \in D, NEW p \in D, n # p
                 PROVE  Wrapped(s, at[n - 1]) # Wrapped(s, at[p - 1])
      OBVIOUS
    <3>1. n < p \/ p < n
      BY <1>5
    <3> QED  BY <2>2, <3>1
  <2>4. IsFiniteSet(D)
    <3>1. IsFiniteSet(1 .. m)
      BY FS_Interval
    <3>2. D \in SUBSET (1 .. m)
      BY <1>5
    <3> QED  BY <3>1, <3>2, FS_Subset
  <2>5. PICK f : f = [n \in D |-> [n |-> n, corner |-> Wrapped(s, at[n - 1])]]
    OBVIOUS
  <2>6. f \in Bijection(D, G)
    <3>1. f \in [D -> G]
      BY <1>7, <2>5
    <3>2. \A g \in G : \E n \in D : f[n] = g
      BY <1>7, <2>5
    <3>3. ASSUME NEW n \in D, NEW p \in D, f[n] = f[p] PROVE n = p
      <4>1. f[n].n = n /\ f[p].n = p
        BY <2>5
      <4> QED  BY <3>3, <4>1
    <3> QED  BY <3>1, <3>2, <3>3 DEF Bijection, Injection, Surjection, IsInjective
  <2>7. IsFiniteSet(G)
    BY <2>4, <2>6, FS_Bijection DEF ExistsBijection
  <2>8. PICK h : h = [g \in G |-> g.corner]
    OBVIOUS
  <2>9. PICK Corners : Corners = {g.corner : g \in G}
    OBVIOUS
  <2>10. h \in Bijection(G, Corners)
    <3>1. h \in [G -> Corners]
      BY <2>8, <2>9
    <3>2. \A c \in Corners : \E g \in G : h[g] = c
      BY <2>8, <2>9
    <3>3. ASSUME NEW g \in G, NEW e \in G, h[g] = h[e] PROVE g = e
      <4>1. PICK n \in D : g = [n |-> n, corner |-> Wrapped(s, at[n - 1])]
        BY <1>7
      <4>2. PICK p \in D : e = [n |-> p, corner |-> Wrapped(s, at[p - 1])]
        BY <1>7
      <4>3. h[g] = Wrapped(s, at[n - 1]) /\ h[e] = Wrapped(s, at[p - 1])
        BY <2>8, <4>1, <4>2
      <4>4. n = p
        BY <2>3, <3>3, <4>3
      <4> QED  BY <4>1, <4>2, <4>4
    <3> QED  BY <3>1, <3>2, <3>3 DEF Bijection, Injection, Surjection, IsInjective
  <2>11. Cardinality(Corners) = Cardinality(G)
    BY <2>7, <2>10, FS_Bijection DEF ExistsBijection
  <2> QED  BY <2>9, <2>11
<1> QED  BY <1>6, <1>9, <1>10

-----------------------------------------------------------------------------
(***************************************************************************)
(* Copying bytes                                                           *)
(***************************************************************************)

\* c is memory after each byte copied, at the offsets of order
Copies(c, M, mem, dest, src, order, m) ==
    /\ \A k \in 0 .. m : c[k] \in M
    /\ c[0] = mem
    /\ \A k \in 1 .. m : c[k] = [c[k - 1] EXCEPT ![dest + order[k]] = c[k - 1][src + order[k]]]

Copied(final, M, mem, dest, src, order, m) ==
    \E c : Copies(c, M, mem, dest, src, order, m) /\ final = c[m]

\* the m offsets lead to memory
Offsets(order, m, src, L) ==
    Len(order) = m /\ \A k \in 1 .. m : order[k] \in Int /\ src + order[k] \in 1 .. L

LEMMA CopyRuns ==
    ASSUME NEW L \in Nat, NEW B, NEW mem \in [1 .. L -> B], NEW dest \in Nat, NEW src \in Nat,
           NEW m \in Nat, NEW order, Offsets(order, m, src, L)
    PROVE  Copied(Copy(mem, dest, src, order), [1 .. L -> B], mem, dest, src, order, m)
<1> DEFINE Is(v) == v = [k \in 0 .. Len(order) |->
                   IF k = 0 THEN mem
                   ELSE [v[k - 1] EXCEPT ![dest + order[k]] = v[k - 1][src + order[k]]]]
<1> USE DEF Offsets
<1>1. PICK M : M = [1 .. L -> B]
  OBVIOUS
<1>2. PICK step : step = [p \in (1 .. m) \X M |->
                   [p[2] EXCEPT ![dest + order[p[1]]] = p[2][src + order[p[1]]]]]
  OBVIOUS
<1>3. ASSUME NEW k \in 1 .. m, NEW w \in M
      PROVE  [w EXCEPT ![dest + order[k]] = w[src + order[k]]] \in M
  <2>1. w[src + order[k]] \in B
    BY <1>1
  <2> QED  BY <1>1, <2>1
<1>4. ASSUME NEW k \in 1 .. m, NEW w \in M
      PROVE  step[<<k, w>>] = [w EXCEPT ![dest + order[k]] = w[src + order[k]]]
  <2>1. <<k, w>> \in (1 .. m) \X M
    OBVIOUS
  <2> QED  BY <1>2, <2>1
<1>5. step \in [(1 .. m) \X M -> M]
  <2>1. ASSUME NEW p \in (1 .. m) \X M
        PROVE  [p[2] EXCEPT ![dest + order[p[1]]] = p[2][src + order[p[1]]]] \in M
    BY <1>3
  <2> QED  BY <1>2, <2>1
<1>6. PICK v : Iterates(v, M, mem, step, m)
  BY <1>1, <1>5, Iteration
<1>7. /\ v \in [0 .. m -> M] /\ v[0] = mem
      /\ \A k \in 1 .. m : v[k] = step[<<k, v[k - 1]>>]
  BY <1>6 DEF Iterates
<1>8. ASSUME NEW k \in 0 .. m
      PROVE  v[k] = IF k = 0 THEN mem
                    ELSE [v[k - 1] EXCEPT ![dest + order[k]] = v[k - 1][src + order[k]]]
  <2>1. CASE k = 0
    BY <1>7, <2>1
  <2>2. CASE k # 0
    <3>1. k \in 1 .. m /\ k - 1 \in 0 .. m
      BY <2>2
    <3>2. PICK w \in M : w = v[k - 1]
      BY <1>7, <3>1
    <3>3. v[k] = [w EXCEPT ![dest + order[k]] = w[src + order[k]]]
      BY <1>4, <1>7, <3>1, <3>2
    <3> QED  BY <2>2, <3>2, <3>3
  <2> QED  BY <2>1, <2>2
<1>9. Is(v)
  BY <1>7, <1>8
<1>10. PICK c : c = CHOOSE w : Is(w)
  OBVIOUS
<1>11. Is(c)
  BY <1>9, <1>10
<1>12. Copy(mem, dest, src, order) = c[m]
  BY <1>10 DEF Copy
<1>13. c[0] = mem
  BY <1>11
<1>14. ASSUME NEW k \in 1 .. m
       PROVE  c[k] = [c[k - 1] EXCEPT ![dest + order[k]] = c[k - 1][src + order[k]]]
  <2>1. k \in 0 .. Len(order) /\ k # 0
    OBVIOUS
  <2> QED  BY <1>11, <2>1
<1>15. c[0] \in M
  BY <1>1, <1>13
<1>16. ASSUME NEW k \in 1 .. m, c[k - 1] \in M PROVE c[k] \in M
  <2>1. PICK w \in M : w = c[k - 1]
    BY <1>16
  <2>2. c[k] = [w EXCEPT ![dest + order[k]] = w[src + order[k]]]
    BY <1>14, <2>1
  <2> QED  BY <1>3, <2>2
<1>17. \A k \in 0 .. m : c[k] \in M
  BY <1>15, <1>16, IterationStays
<1> QED  BY <1>1, <1>12, <1>13, <1>14, <1>17 DEF Copies, Copied

\* memory after the bytes from src on were moved to dest, as if at once
Moved(mem, dest, src, from, to) ==
    [j \in 1 .. Len(mem) |->
        IF j \in dest + from .. dest + to - 1 THEN mem[j - dest + src] ELSE mem[j]]

\* Bytes copied from the first on are moved, unless a source byte was written
\* before it is read.
LEMMA CopyUp ==
    ASSUME NEW B, NEW mem \in Seq(B), NEW dest \in Nat, NEW src \in Nat, NEW n \in Nat,
           1 =< src, src + n =< Len(mem) + 1, 1 =< dest, dest + n =< Len(mem) + 1,
           dest < src \/ src + n =< dest
    PROVE  Copy(mem, dest, src, Up(n)) = Moved(mem, dest, src, 0, n)
<1>1. PICK L \in Nat : L = Len(mem)
  OBVIOUS
<1>2. mem \in [1 .. L -> B]
  BY <1>1
<1>3. PICK order : order = Up(n)
  OBVIOUS
<1>4. Len(order) = n /\ \A k \in 1 .. n : order[k] = k - 1
  BY <1>3 DEF Up
<1>5. Offsets(order, n, src, L)
  BY <1>1, <1>4 DEF Offsets
<1>6. PICK c : /\ Copies(c, [1 .. L -> B], mem, dest, src, order, n)
               /\ Copy(mem, dest, src, order) = c[n]
  <2>1. Copied(Copy(mem, dest, src, order), [1 .. L -> B], mem, dest, src, order, n)
    BY <1>2, <1>5, CopyRuns
  <2> QED  BY <2>1 DEF Copied
<1>7. /\ \A k \in 0 .. n : c[k] \in [1 .. L -> B]
      /\ c[0] = mem
      /\ \A k \in 1 .. n : c[k] = [c[k - 1] EXCEPT ![dest + order[k]] = c[k - 1][src + order[k]]]
  BY <1>6 DEF Copies
<1>8. PICK U : U = {k \in 0 .. n : c[k] # Moved(mem, dest, src, 0, k)}
  OBVIOUS
<1>9. U = {}
  <2> SUFFICES ASSUME U # {} PROVE FALSE
    OBVIOUS
  <2>1. U \in SUBSET Nat
    BY <1>8
  <2>2. PICK k \in U : \A j \in U : k =< j
    BY <2>1, Least
  <2>3. k \in 0 .. n /\ c[k] # Moved(mem, dest, src, 0, k)
    BY <1>8, <2>2
  <2>4. k # 0
    <3>1. Moved(mem, dest, src, 0, 0) = [j \in 1 .. L |-> mem[j]]
      BY <1>1 DEF Moved
    <3>2. mem = [j \in 1 .. L |-> mem[j]]
      BY <1>2
    <3> QED  BY <1>7, <2>3, <3>1, <3>2
  <2>5. k \in 1 .. n /\ k - 1 \in 0 .. n /\ ~(k =< k - 1)
    BY <2>3, <2>4
  <2>6. c[k - 1] = Moved(mem, dest, src, 0, k - 1)
    BY <1>8, <2>2, <2>5
  <2>7. PICK w \in [1 .. L -> B] : w = c[k - 1]
    BY <1>7, <2>5
  <2>8. \A j \in 1 .. L : w[j] = IF j \in dest .. dest + (k - 1) - 1
                                 THEN mem[j - dest + src] ELSE mem[j]
    BY <1>1, <2>6, <2>7 DEF Moved
  <2>9. c[k] = [w EXCEPT ![dest + (k - 1)] = w[src + (k - 1)]]
    BY <1>4, <1>7, <2>5, <2>7
  <2>10. src + (k - 1) \in 1 .. L /\ src + (k - 1) \notin dest .. dest + (k - 1) - 1
    BY <1>1, <2>5
  <2>11. w[src + (k - 1)] = mem[src + (k - 1)]
    BY <2>8, <2>10
  <2>12. ASSUME NEW j \in 1 .. L
         PROVE  c[k][j] = IF j \in dest + 0 .. dest + k - 1 THEN mem[j - dest + src] ELSE mem[j]
    <3>1. CASE j = dest + (k - 1)
      <4>1. c[k][j] = mem[src + (k - 1)]
        BY <2>9, <2>11, <3>1
      <4>2. j \in dest + 0 .. dest + k - 1 /\ j - dest + src = src + (k - 1)
        BY <2>5, <3>1
      <4> QED  BY <4>1, <4>2
    <3>2. CASE j # dest + (k - 1)
      <4>1. c[k][j] = w[j]
        BY <2>9, <3>2
      <4>2. j \in dest .. dest + (k - 1) - 1 <=> j \in dest + 0 .. dest + k - 1
        BY <2>5, <3>2
      <4> QED  BY <2>8, <4>1, <4>2
    <3> QED  BY <3>1, <3>2
  <2>13. PICK x \in [1 .. L -> B] : x = c[k]
    BY <1>7, <2>3
  <2>14. x = Moved(mem, dest, src, 0, k)
    BY <1>1, <2>12, <2>13 DEF Moved
  <2> QED  BY <2>3, <2>13, <2>14
<1>10. c[n] = Moved(mem, dest, src, 0, n)
  BY <1>8, <1>9
<1> QED  BY <1>3, <1>6, <1>10

\* Bytes copied from the last on are moved, if the source is below.
LEMMA CopyDown ==
    ASSUME NEW B, NEW mem \in Seq(B), NEW dest \in Nat, NEW src \in Nat, NEW n \in Nat,
           1 =< src, src < dest, dest + n =< Len(mem) + 1
    PROVE  Copy(mem, dest, src, Reverse(Up(n))) = Moved(mem, dest, src, 0, n)
<1>1. PICK L \in Nat : L = Len(mem)
  OBVIOUS
<1>2. mem \in [1 .. L -> B]
  BY <1>1
<1>3. PICK order : order = Reverse(Up(n))
  OBVIOUS
<1>4. Len(order) = n /\ \A k \in 1 .. n : order[k] = n - k
  <2>1. PICK up : up = Up(n)
    OBVIOUS
  <2>2. Len(up) = n /\ \A k \in 1 .. n : up[k] = k - 1
    BY <2>1 DEF Up
  <2>3. order = [k \in 1 .. n |-> up[n - k + 1]]
    BY <1>3, <2>1, <2>2 DEF Reverse
  <2>4. \A k \in 1 .. n : n - k + 1 \in 1 .. n
    OBVIOUS
  <2> QED  BY <2>2, <2>3, <2>4
<1>5. Offsets(order, n, src, L)
  BY <1>1, <1>4 DEF Offsets
<1>6. PICK c : /\ Copies(c, [1 .. L -> B], mem, dest, src, order, n)
               /\ Copy(mem, dest, src, order) = c[n]
  <2>1. Copied(Copy(mem, dest, src, order), [1 .. L -> B], mem, dest, src, order, n)
    BY <1>2, <1>5, CopyRuns
  <2> QED  BY <2>1 DEF Copied
<1>7. /\ \A k \in 0 .. n : c[k] \in [1 .. L -> B]
      /\ c[0] = mem
      /\ \A k \in 1 .. n : c[k] = [c[k - 1] EXCEPT ![dest + order[k]] = c[k - 1][src + order[k]]]
  BY <1>6 DEF Copies
<1>8. PICK U : U = {k \in 0 .. n : c[k] # Moved(mem, dest, src, n - k, n)}
  OBVIOUS
<1>9. U = {}
  <2> SUFFICES ASSUME U # {} PROVE FALSE
    OBVIOUS
  <2>1. U \in SUBSET Nat
    BY <1>8
  <2>2. PICK k \in U : \A j \in U : k =< j
    BY <2>1, Least
  <2>3. k \in 0 .. n /\ c[k] # Moved(mem, dest, src, n - k, n)
    BY <1>8, <2>2
  <2>4. k # 0
    <3>1. Moved(mem, dest, src, n - 0, n) = [j \in 1 .. L |-> mem[j]]
      BY <1>1 DEF Moved
    <3>2. mem = [j \in 1 .. L |-> mem[j]]
      BY <1>2
    <3> QED  BY <1>7, <2>3, <3>1, <3>2
  <2>5. k \in 1 .. n /\ k - 1 \in 0 .. n /\ ~(k =< k - 1)
    BY <2>3, <2>4
  <2>6. c[k - 1] = Moved(mem, dest, src, n - (k - 1), n)
    BY <1>8, <2>2, <2>5
  <2>7. PICK w \in [1 .. L -> B] : w = c[k - 1]
    BY <1>7, <2>5
  <2>8. \A j \in 1 .. L : w[j] = IF j \in dest + (n - (k - 1)) .. dest + n - 1
                                 THEN mem[j - dest + src] ELSE mem[j]
    BY <1>1, <2>6, <2>7 DEF Moved
  <2>9. c[k] = [w EXCEPT ![dest + (n - k)] = w[src + (n - k)]]
    BY <1>4, <1>7, <2>5, <2>7
  <2>10. src + (n - k) \in 1 .. L /\ src + (n - k) \notin dest + (n - (k - 1)) .. dest + n - 1
    BY <1>1, <2>5
  <2>11. w[src + (n - k)] = mem[src + (n - k)]
    BY <2>8, <2>10
  <2>12. ASSUME NEW j \in 1 .. L
         PROVE  c[k][j] = IF j \in dest + (n - k) .. dest + n - 1
                          THEN mem[j - dest + src] ELSE mem[j]
    <3>1. CASE j = dest + (n - k)
      <4>1. c[k][j] = mem[src + (n - k)]
        BY <2>9, <2>11, <3>1
      <4>2. j \in dest + (n - k) .. dest + n - 1 /\ j - dest + src = src + (n - k)
        BY <2>5, <3>1
      <4> QED  BY <4>1, <4>2
    <3>2. CASE j # dest + (n - k)
      <4>1. c[k][j] = w[j]
        BY <2>9, <3>2
      <4>2. j \in dest + (n - (k - 1)) .. dest + n - 1 <=> j \in dest + (n - k) .. dest + n - 1
        BY <2>5, <3>2
      <4> QED  BY <2>8, <4>1, <4>2
    <3> QED  BY <3>1, <3>2
  <2>13. PICK x \in [1 .. L -> B] : x = c[k]
    BY <1>7, <2>3
  <2>14. x = Moved(mem, dest, src, n - k, n)
    BY <1>1, <2>12, <2>13 DEF Moved
  <2> QED  BY <2>3, <2>13, <2>14
<1>10. c[n] = Moved(mem, dest, src, n - n, n)
  BY <1>8, <1>9
<1>11. n - n = 0
  OBVIOUS
<1> QED  BY <1>3, <1>6, <1>10, <1>11

\* memmove moves between any two places (memory.c:28-43).
LEMMA memmoveMoves ==
    ASSUME NEW B, NEW mem \in Seq(B), NEW dest \in Nat, NEW src \in Nat, NEW n \in Nat,
           1 =< src, src + n =< Len(mem) + 1, 1 =< dest, dest + n =< Len(mem) + 1
    PROVE  memmove(mem, dest, src, n) = Moved(mem, dest, src, 0, n)
<1>1. CASE src > dest
  BY <1>1, CopyUp DEF memmove
<1>2. CASE src < dest
  BY <1>2, CopyDown DEF memmove
<1>3. CASE src = dest
  <2>1. memmove(mem, dest, src, n) = mem
    BY <1>3 DEF memmove
  <2>2. Moved(mem, dest, src, 0, n) = [j \in 1 .. Len(mem) |-> mem[j]]
    BY <1>3 DEF Moved
  <2> QED  BY <2>1, <2>2
<1> QED  BY <1>1, <1>2, <1>3

-----------------------------------------------------------------------------
(***************************************************************************)
(* Strings in memory                                                       *)
(***************************************************************************)

Byte == 0 .. 255
Char == 1 .. 255

\* memory has string s at place p
Holds(mem, p, s) ==
    /\ mem \in Seq(Byte) /\ s \in Seq(Char) /\ p \in Nat /\ 1 =< p /\ p + Len(s) =< Len(mem)
    /\ \A i \in 1 .. Len(s) : mem[p + i - 1] = s[i]
    /\ mem[p + Len(s)] = Terminator

\* The bytes of a string.
LEMMA CBytes ==
    ASSUME NEW s \in Seq(Char)
    PROVE  /\ C(s) \in Seq(Byte) /\ Len(C(s)) = Len(s) + 1
           /\ \A i \in 1 .. Len(s) : C(s)[i] = s[i]
           /\ C(s)[Len(s) + 1] = Terminator
<1>1. s \in Seq(Byte)
  BY SeqMonotonic DEF Byte, Char
<1>2. PICK t : t = <<Terminator>>
  OBVIOUS
<1>3. t \in Seq(Byte) /\ Len(t) = 1 /\ t[1] = Terminator
  BY <1>2 DEF Byte, Terminator
<1>4. PICK m \in Nat : m = Len(s)
  OBVIOUS
<1>5. /\ s \o t \in Seq(Byte)
      /\ Len(s \o t) = Len(s) + Len(t)
      /\ \A i \in 1 .. Len(s) + Len(t) : (s \o t)[i] = IF i <= Len(s) THEN s[i] ELSE t[i - Len(s)]
  BY <1>1, <1>3, ConcatProperties
<1>6. C(s) = s \o t
  BY <1>2 DEF C
<1>7. \A i \in 1 .. m : (s \o t)[i] = s[i]
  BY <1>3, <1>4, <1>5
<1>8. (s \o t)[m + 1] = t[1]
  BY <1>3, <1>4, <1>5
<1> QED  BY <1>3, <1>4, <1>5, <1>6, <1>7, <1>8

\* two strings behind each other, and what is behind them
TwoHeld(mem, s, t, r) ==
    /\ mem \in Seq(Byte) /\ Len(mem) = Len(s) + Len(t) + 2 + Len(r)
    /\ Holds(mem, 1, s) /\ Holds(mem, Len(s) + 2, t)
    /\ \A i \in 1 .. Len(r) : mem[Len(s) + Len(t) + 2 + i] = r[i]

\* Memory made of two strings and a rest holds them at their places.
LEMMA TwoStrings ==
    ASSUME NEW s \in Seq(Char), NEW t \in Seq(Char), NEW r \in Seq(Byte)
    PROVE  TwoHeld(C(s) \o C(t) \o r, s, t, r)
<1>1. PICK mem : mem = C(s) \o C(t) \o r
  OBVIOUS
<1>2. PICK a : a = C(s)
  OBVIOUS
<1>3. PICK b : b = C(t)
  OBVIOUS
<1>4. PICK m \in Nat : m = Len(s)
  OBVIOUS
<1>5. PICK n \in Nat : n = Len(t)
  OBVIOUS
<1>6. PICK o \in Nat : o = Len(r)
  OBVIOUS
<1>7. /\ a \in Seq(Byte) /\ Len(a) = m + 1 /\ a[m + 1] = Terminator
      /\ \A i \in 1 .. m : a[i] = s[i]
  BY <1>2, <1>4, CBytes
<1>8. /\ b \in Seq(Byte) /\ Len(b) = n + 1 /\ b[n + 1] = Terminator
      /\ \A i \in 1 .. n : b[i] = t[i]
  BY <1>3, <1>5, CBytes
<1>9. PICK c : c = a \o b
  OBVIOUS
<1>10. /\ c \in Seq(Byte) /\ Len(c) = m + 1 + (n + 1)
      /\ \A i \in 1 .. m + 1 + (n + 1) : c[i] = IF i <= m + 1 THEN a[i] ELSE b[i - (m + 1)]
  <2>1. /\ a \o b \in Seq(Byte)
        /\ Len(a \o b) = Len(a) + Len(b)
        /\ \A i \in 1 .. Len(a) + Len(b) : (a \o b)[i] = IF i <= Len(a) THEN a[i] ELSE b[i - Len(a)]
    BY <1>7, <1>8, ConcatProperties
  <2> QED  BY <1>7, <1>8, <1>9, <2>1
<1>11. mem = c \o r
  BY <1>1, <1>2, <1>3, <1>9
<1>12. /\ c \o r \in Seq(Byte)
       /\ Len(c \o r) = Len(c) + Len(r)
       /\ \A i \in 1 .. Len(c) + Len(r) : (c \o r)[i] = IF i <= Len(c) THEN c[i] ELSE r[i - Len(c)]
  BY <1>10, ConcatProperties
<1>13. /\ mem \in Seq(Byte) /\ Len(mem) = m + n + 2 + o
       /\ \A i \in 1 .. m + n + 2 + o :
             mem[i] = IF i <= m + n + 2 THEN c[i] ELSE r[i - (m + n + 2)]
  BY <1>6, <1>10, <1>11, <1>12
<1>14. Holds(mem, 1, s)
  <2>1. ASSUME NEW i \in 1 .. m + 1 PROVE mem[i] = a[i]
    <3>1. i \in 1 .. m + n + 2 + o /\ i <= m + n + 2 /\ i \in 1 .. m + 1 + (n + 1) /\ i <= m + 1
      BY <2>1
    <3>2. mem[i] = c[i]
      BY <1>13, <3>1
    <3>3. c[i] = a[i]
      BY <1>10, <3>1
    <3> QED  BY <3>2, <3>3
  <2>2. ASSUME NEW i \in 1 .. m PROVE mem[1 + i - 1] = s[i]
    <3>1. 1 + i - 1 = i /\ i \in 1 .. m + 1
      BY <2>2
    <3> QED  BY <1>7, <2>1, <3>1
  <2>3. m + 1 \in 1 .. m + 1 /\ 1 + m = m + 1
    OBVIOUS
  <2>4. mem[1 + m] = Terminator
    BY <1>7, <2>1, <2>3
  <2> QED  BY <1>4, <1>13, <2>2, <2>4 DEF Holds
<1>15. Holds(mem, m + 2, t)
  <2>1. ASSUME NEW i \in 1 .. n + 1 PROVE mem[m + 1 + i] = b[i]
    <3>1. m + 1 + i \in 1 .. m + n + 2 + o /\ m + 1 + i <= m + n + 2 /\ ~(m + 1 + i <= m + 1)
      BY <2>1
    <3>2. mem[m + 1 + i] = c[m + 1 + i]
      BY <1>13, <3>1
    <3>3. c[m + 1 + i] = b[(m + 1 + i) - (m + 1)]
      BY <1>10, <3>1
    <3>4. (m + 1 + i) - (m + 1) = i
      BY <2>1
    <3> QED  BY <3>2, <3>3, <3>4
  <2>2. ASSUME NEW i \in 1 .. n PROVE mem[m + 2 + i - 1] = t[i]
    <3>1. m + 2 + i - 1 = m + 1 + i /\ i \in 1 .. n + 1
      BY <2>2
    <3> QED  BY <1>8, <2>1, <3>1
  <2>3. m + 1 + (n + 1) = m + 2 + n /\ n + 1 \in 1 .. n + 1
    OBVIOUS
  <2>4. mem[m + 2 + n] = Terminator
    BY <1>8, <2>1, <2>3
  <2> QED  BY <1>5, <1>13, <2>2, <2>4 DEF Holds
<1>16. ASSUME NEW i \in 1 .. o PROVE mem[m + n + 2 + i] = r[i]
  <2>1. m + n + 2 + i \in 1 .. m + n + 2 + o /\ ~(m + n + 2 + i <= m + n + 2)
    BY <1>16
  <2>2. (m + n + 2 + i) - (m + n + 2) = i
    BY <1>16
  <2> QED  BY <1>13, <2>1, <2>2
<1> QED  BY <1>1, <1>4, <1>5, <1>6, <1>13, <1>14, <1>15, <1>16 DEF TwoHeld

\* A loop that can stop has a first place to stop at.
LEMMA FirstStop ==
    ASSUME NEW i \in Nat, NEW last \in Nat, NEW T \in SUBSET (i .. last), T # {}
    PROVE  \E k \in T : \A j \in i .. k - 1 : j \notin T
<1>1. T \in SUBSET Nat
  OBVIOUS
<1>2. PICK k \in T : \A j \in T : k =< j
  BY <1>1, Least
<1>3. ASSUME NEW j \in i .. k - 1 PROVE j \notin T
  BY <1>2
<1> QED  BY <1>3

LEMMA StringLengthIs ==
    ASSUME NEW mem, NEW p, NEW s, Holds(mem, p, s)
    PROVE  StringLength(mem, p) = Len(s)
<1>1. PICK m \in Nat : m = Len(s)
  BY DEF Holds
<1>2. PICK L \in Nat : L = Len(mem)
  BY DEF Holds
<1>3. /\ p \in Nat /\ 1 =< p /\ p + m =< L /\ mem[p + m] = 0
      /\ \A i \in 1 .. m : mem[p + i - 1] = s[i] /\ s[i] # 0
  <2>1. s \in Seq(Char) /\ \A i \in 1 .. m : mem[p + i - 1] = s[i]
    BY <1>1 DEF Holds
  <2>2. ASSUME NEW i \in 1 .. m PROVE s[i] # 0
    <3>1. s[i] \in Char
      BY <1>1, <2>1, ElementOfSeq
    <3> QED  BY <3>1 DEF Char
  <2> QED  BY <1>1, <1>2, <2>1, <2>2 DEF Holds, Terminator
<1>4. \A k \in p .. p + m - 1 : mem[k] # 0
  <2> SUFFICES ASSUME NEW k \in p .. p + m - 1 PROVE mem[k] # 0
    OBVIOUS
  <2>1. k - p + 1 \in 1 .. m /\ p + (k - p + 1) - 1 = k
    BY <1>3
  <2> QED  BY <1>3, <2>1
<1>5. PICK k : k = CHOOSE l \in p .. L : mem[l] = 0 /\ \A j \in p .. l - 1 : ~(mem[j] = 0)
  OBVIOUS
<1>6. p + m \in p .. L /\ mem[p + m] = 0 /\ \A j \in p .. (p + m) - 1 : ~(mem[j] = 0)
  BY <1>3, <1>4
<1>7. k \in p .. L /\ mem[k] = 0 /\ \A j \in p .. k - 1 : ~(mem[j] = 0)
  BY <1>5, <1>6
<1>8. k = p + m
  <2>1. ~(k < p + m)
    BY <1>3, <1>4, <1>7
  <2>2. ~(p + m < k)
    BY <1>3, <1>7
  <2> QED  BY <1>3, <1>7, <2>1, <2>2
<1>9. StringLength(mem, p) = k - p
  BY <1>2, <1>5 DEF StringLength, FirstFrom, Terminator
<1> QED  BY <1>1, <1>3, <1>8, <1>9

\* the bytes of a string, with its terminator
At0(s, i) == IF i = Len(s) + 1 THEN 0 ELSE s[i]

\* i characters of s and t are the same, and either n are enough, or the next
\* decides
Decided(r, s, t, n, i) ==
    /\ i \in 0 .. n /\ i =< Len(s) /\ i =< Len(t)
    /\ \A j \in 1 .. i : s[j] = t[j]
    /\ \/ i = n /\ r = 0
       \/ /\ i < n /\ r = At0(s, i + 1) - At0(t, i + 1)
          /\ i = Len(s) \/ At0(s, i + 1) # At0(t, i + 1)

LEMMA HeldByte ==
    ASSUME NEW mem, NEW p, NEW s, Holds(mem, p, s), NEW k \in 0 .. Len(s)
    PROVE  mem[p + k] = At0(s, k + 1) /\ (mem[p + k] = Terminator <=> k = Len(s))
<1>1. PICK m \in Nat : m = Len(s)
  BY DEF Holds
<1>2. s \in Seq(Char) /\ p \in Nat /\ mem[p + m] = Terminator
  BY <1>1 DEF Holds
<1>3. CASE k = m
  BY <1>1, <1>2, <1>3 DEF At0, Terminator
<1>4. CASE k # m
  <2>1. k + 1 \in 1 .. m /\ p + (k + 1) - 1 = p + k /\ k + 1 # m + 1
    BY <1>1, <1>2, <1>4
  <2>2. mem[p + k] = s[k + 1]
    BY <1>1, <2>1 DEF Holds
  <2>3. PICK x \in Char : x = s[k + 1]
    BY <1>1, <1>2, <2>1, ElementOfSeq
  <2>4. x # Terminator
    BY DEF Char, Terminator
  <2> QED  BY <1>1, <1>4, <2>1, <2>2, <2>3, <2>4 DEF At0
<1> QED  BY <1>3, <1>4

LEMMA At0Byte ==
    ASSUME NEW s \in Seq(Char), NEW k \in 0 .. Len(s)
    PROVE  At0(s, k + 1) \in Byte /\ (At0(s, k + 1) = 0 <=> k = Len(s))
<1>1. PICK m \in Nat : m = Len(s)
  OBVIOUS
<1>2. CASE k = m
  BY <1>1, <1>2 DEF At0, Byte
<1>3. CASE k # m
  <2>1. k + 1 \in 1 .. m /\ k + 1 # m + 1
    BY <1>1, <1>3
  <2>2. PICK x \in Char : x = s[k + 1]
    BY <1>1, <2>1, ElementOfSeq
  <2>3. At0(s, k + 1) = x
    BY <1>1, <2>1, <2>2 DEF At0
  <2>4. x \in Byte /\ x # 0
    BY DEF Byte, Char
  <2> QED  BY <1>1, <1>3, <2>3, <2>4
<1> QED  BY <1>2, <1>3

LEMMA CompareDecided ==
    ASSUME NEW mem, NEW a, NEW b, NEW s, NEW t, Holds(mem, a, s), Holds(mem, b, t), NEW n \in Nat
    PROVE  \E i : Decided(CompareStringsN(mem, a, b, n), s, t, n, i)
<1> DEFINE Stops(k) == \/ k = n
                       \/ mem[a + k] = Terminator
                       \/ mem[a + k] # mem[b + k]
           First(k) == Stops(k) /\ \A j \in 0 .. k - 1 : ~Stops(j)
<1>1. PICK T : T = {k \in 0 .. n : Stops(k)}
  OBVIOUS
<1>2. n \in T
  BY <1>1
<1>3. PICK f \in T : \A j \in 0 .. f - 1 : j \notin T
  BY <1>1, <1>2, FirstStop
<1>4. PICK i : i = CHOOSE k \in 0 .. n : First(k)
  OBVIOUS
<1>5. i \in 0 .. n /\ First(i)
  <2>1. f \in 0 .. n /\ Stops(f)
    BY <1>1
  <2>2. \A j \in 0 .. f - 1 : j \in 0 .. n /\ ~Stops(j)
    BY <1>1, <1>3, <2>1
  <2> QED  BY <1>4, <2>1, <2>2
<1>6. PICK r : r = CompareStringsN(mem, a, b, n)
  OBVIOUS
<1>7. r = IF i = n THEN 0 ELSE mem[a + i] - mem[b + i]
  BY <1>4, <1>6 DEF CompareStringsN, FirstFrom
<1>8. \A j \in 0 .. i - 1 : mem[a + j] # Terminator /\ mem[a + j] = mem[b + j]
  BY <1>5
<1>9. s \in Seq(Char) /\ t \in Seq(Char)
  BY DEF Holds
<1>10. PICK ls \in Nat : ls = Len(s)
  BY <1>9
<1>11. PICK lt \in Nat : lt = Len(t)
  BY <1>9
<1>12. i =< ls
  <2> SUFFICES ASSUME ls < i PROVE FALSE
    BY <1>5, <1>10
  <2>1. ls \in 0 .. i - 1 /\ ls \in 0 .. ls
    BY <1>5, <1>10
  <2> QED  BY <1>8, <1>10, <2>1, HeldByte
<1>13. i =< lt
  <2> SUFFICES ASSUME lt < i PROVE FALSE
    BY <1>5, <1>11
  <2>1. lt \in 0 .. i - 1 /\ lt \in 0 .. lt
    BY <1>5, <1>11
  <2> QED  BY <1>8, <1>11, <2>1, HeldByte
<1>14. \A k \in 0 .. i : /\ mem[a + k] = At0(s, k + 1) /\ mem[b + k] = At0(t, k + 1)
                         /\ mem[a + k] = Terminator <=> k = ls
  <2> SUFFICES ASSUME NEW k \in 0 .. i
               PROVE  /\ mem[a + k] = At0(s, k + 1) /\ mem[b + k] = At0(t, k + 1)
                      /\ mem[a + k] = Terminator <=> k = ls
    OBVIOUS
  <2>1. k \in 0 .. ls /\ k \in 0 .. lt
    BY <1>5, <1>12, <1>13
  <2> QED  BY <1>10, <1>11, <2>1, HeldByte
<1>15. ASSUME NEW j \in 1 .. i PROVE s[j] = t[j]
  <2>1. j - 1 \in 0 .. i - 1 /\ j - 1 \in 0 .. i /\ j # ls + 1 /\ j # lt + 1 /\ (j - 1) + 1 = j
    BY <1>5, <1>12, <1>13
  <2>2. At0(s, j) = At0(t, j)
    BY <1>8, <1>14, <2>1
  <2> QED  BY <1>10, <1>11, <2>1, <2>2 DEF At0
<1>16. \/ i = n /\ r = 0
       \/ /\ i < n /\ r = At0(s, i + 1) - At0(t, i + 1)
          /\ i = ls \/ At0(s, i + 1) # At0(t, i + 1)
  <2>1. CASE i = n
    BY <1>7, <2>1
  <2>2. CASE i # n
    <3>1. i < n /\ i \in 0 .. i
      BY <1>5, <2>2
    <3>2. mem[a + i] = Terminator \/ mem[a + i] # mem[b + i]
      BY <1>5, <2>2
    <3> QED  BY <1>7, <1>14, <2>2, <3>1, <3>2
  <2> QED  BY <2>1, <2>2
<1>17. Decided(r, s, t, n, i)
  BY <1>5, <1>10, <1>11, <1>12, <1>13, <1>15, <1>16 DEF Decided
<1> QED  BY <1>6, <1>17

-----------------------------------------------------------------------------
(***************************************************************************)
(* Comparing strings                                                       *)
(***************************************************************************)

\* The first characters of a string.
LEMMA PrefixIs ==
    ASSUME NEW B, NEW s \in Seq(B), NEW i \in Nat, i =< Len(s)
    PROVE  /\ SubSeq(s, 1, i) \in Seq(B) /\ Len(SubSeq(s, 1, i)) = i
           /\ \A j \in 1 .. i : SubSeq(s, 1, i)[j] = s[j]
<1>1. PICK m \in Nat : m = Len(s)
  OBVIOUS
<1>2. \A j \in 1 .. i : s[j] \in B
  BY <1>1, ElementOfSeq
<1>3. /\ SubSeq(s, 1, i) \in Seq(B)
      /\ Len(SubSeq(s, 1, i)) = IF 1 <= i THEN i - 1 + 1 ELSE 0
      /\ \A j \in 1 .. i - 1 + 1 : SubSeq(s, 1, i)[j] = s[1 + j - 1]
  BY <1>2, SubSeqProperties
<1>4. i - 1 + 1 = i /\ \A j \in 1 .. i : 1 + j - 1 = j
  OBVIOUS
<1> QED  BY <1>3, <1>4

LEMMA SamePrefix ==
    ASSUME NEW B, NEW s \in Seq(B), NEW t \in Seq(B), NEW i \in Nat, i =< Len(s), i =< Len(t)
    PROVE  SubSeq(s, 1, i) = SubSeq(t, 1, i) <=> \A j \in 1 .. i : s[j] = t[j]
<1>1. PICK a : a = SubSeq(s, 1, i)
  OBVIOUS
<1>2. PICK b : b = SubSeq(t, 1, i)
  OBVIOUS
<1>3. a \in Seq(B) /\ Len(a) = i /\ \A j \in 1 .. i : a[j] = s[j]
  BY <1>1, PrefixIs
<1>4. b \in Seq(B) /\ Len(b) = i /\ \A j \in 1 .. i : b[j] = t[j]
  BY <1>2, PrefixIs
<1>5. a = b <=> \A j \in 1 .. i : a[j] = b[j]
  BY <1>3, <1>4, SeqEqual
<1> QED  BY <1>1, <1>2, <1>3, <1>4, <1>5

\* l characters of s are c
CutTo(c, s, n, l) ==
    /\ c \in Seq(Char) /\ l \in Nat /\ l = (IF n < Len(s) THEN n ELSE Len(s))
    /\ Len(c) = l /\ \A j \in 1 .. l : c[j] = s[j]

LEMMA CutIs ==
    ASSUME NEW s \in Seq(Char), NEW n \in Nat
    PROVE  \E l : CutTo(Cut(s, n), s, n, l)
<1>1. PICK m \in Nat : m = Len(s)
  OBVIOUS
<1>2. PICK l \in Nat : l = (IF n < m THEN n ELSE m) /\ l =< m
  OBVIOUS
<1>3. Cut(s, n) = SubSeq(s, 1, l)
  BY <1>1, <1>2 DEF Cut
<1>4. /\ SubSeq(s, 1, l) \in Seq(Char) /\ Len(SubSeq(s, 1, l)) = l
      /\ \A j \in 1 .. l : SubSeq(s, 1, l)[j] = s[j]
  BY <1>1, <1>2, PrefixIs
<1>5. CutTo(Cut(s, n), s, n, l)
  BY <1>1, <1>2, <1>3, <1>4 DEF CutTo
<1> QED  BY <1>5

\* c and d first differ behind i characters, where d is greater
BeforeAt(c, d, i) ==
    /\ i \in 0 .. Len(c) /\ i < Len(d) /\ \A j \in 1 .. i : c[j] = d[j]
    /\ i = Len(c) \/ c[i + 1] < d[i + 1]

LEMMA BeforeIs ==
    ASSUME NEW c \in Seq(Char), NEW d \in Seq(Char)
    PROVE  Before(c, d) <=> \E i : BeforeAt(c, d, i)
<1>1. PICK lc \in Nat : lc = Len(c)
  OBVIOUS
<1>2. PICK ld \in Nat : ld = Len(d)
  OBVIOUS
<1>3. ASSUME NEW i \in 0 .. lc, i < ld
      PROVE  SubSeq(c, 1, i) = SubSeq(d, 1, i) <=> \A j \in 1 .. i : c[j] = d[j]
  <2>1. i \in Nat /\ i =< lc /\ i =< ld
    BY <1>3
  <2> QED  BY <1>1, <1>2, <2>1, SamePrefix
<1>4. ASSUME Before(c, d) PROVE \E i : BeforeAt(c, d, i)
  <2>1. PICK i \in 0 .. lc : /\ i < ld /\ SubSeq(c, 1, i) = SubSeq(d, 1, i)
                             /\ i = lc \/ c[i + 1] < d[i + 1]
    BY <1>1, <1>2, <1>4 DEF Before
  <2>2. BeforeAt(c, d, i)
    BY <1>1, <1>2, <1>3, <2>1 DEF BeforeAt
  <2> QED  BY <2>2
<1>5. ASSUME NEW i, BeforeAt(c, d, i) PROVE Before(c, d)
  <2>1. /\ i \in 0 .. lc /\ i < ld /\ \A j \in 1 .. i : c[j] = d[j]
        /\ i = lc \/ c[i + 1] < d[i + 1]
    BY <1>1, <1>2, <1>5 DEF BeforeAt
  <2>2. SubSeq(c, 1, i) = SubSeq(d, 1, i)
    BY <1>3, <2>1
  <2> QED  BY <1>1, <1>2, <2>1, <2>2 DEF Before
<1> QED  BY <1>4, <1>5

\* The first difference decides the comparison of dictionaries.
LEMMA DecidedRight ==
    ASSUME NEW s \in Seq(Char), NEW t \in Seq(Char), NEW n \in Nat, NEW r, NEW i,
           Decided(r, s, t, n, i)
    PROVE  /\ r = 0 <=> Cut(s, n) = Cut(t, n)
           /\ r < 0 <=> Before(Cut(s, n), Cut(t, n))
<1>1. PICK ls \in Nat : ls = Len(s)
  OBVIOUS
<1>2. PICK lt \in Nat : lt = Len(t)
  OBVIOUS
<1>3. /\ i \in 0 .. n /\ i =< ls /\ i =< lt
      /\ \A j \in 1 .. i : s[j] = t[j]
      /\ \/ i = n /\ r = 0
         \/ /\ i < n /\ r = At0(s, i + 1) - At0(t, i + 1)
            /\ i = ls \/ At0(s, i + 1) # At0(t, i + 1)
  BY <1>1, <1>2 DEF Decided
<1>4. PICK c : c = Cut(s, n)
  OBVIOUS
<1>5. PICK d : d = Cut(t, n)
  OBVIOUS
<1>6. PICK lc : CutTo(c, s, n, lc)
  BY <1>4, CutIs
<1>7. PICK ld : CutTo(d, t, n, ld)
  BY <1>5, CutIs
<1>8. /\ c \in Seq(Char) /\ lc \in Nat /\ lc = (IF n < ls THEN n ELSE ls)
      /\ Len(c) = lc /\ \A j \in 1 .. lc : c[j] = s[j]
  BY <1>1, <1>6 DEF CutTo
<1>9. /\ d \in Seq(Char) /\ ld \in Nat /\ ld = (IF n < lt THEN n ELSE lt)
      /\ Len(d) = ld /\ \A j \in 1 .. ld : d[j] = t[j]
  BY <1>2, <1>7 DEF CutTo
<1>10. i =< lc /\ i =< ld /\ \A j \in 1 .. i : c[j] = d[j]
  BY <1>3, <1>8, <1>9
<1>11. PICK x \in Byte : x = At0(s, i + 1) /\ (x = 0 <=> i = ls)
  BY <1>1, <1>3, At0Byte
<1>12. PICK y \in Byte : y = At0(t, i + 1) /\ (y = 0 <=> i = lt)
  BY <1>2, <1>3, At0Byte
<1>13. i < lc => c[i + 1] = x
  <2> SUFFICES ASSUME i < lc PROVE c[i + 1] = x
    OBVIOUS
  <2>1. i + 1 \in 1 .. lc /\ i + 1 # ls + 1
    BY <1>3, <1>8
  <2> QED  BY <1>1, <1>8, <1>11, <2>1 DEF At0
<1>14. i < ld => d[i + 1] = y
  <2> SUFFICES ASSUME i < ld PROVE d[i + 1] = y
    OBVIOUS
  <2>1. i + 1 \in 1 .. ld /\ i + 1 # lt + 1
    BY <1>3, <1>9
  <2> QED  BY <1>2, <1>9, <1>12, <2>1 DEF At0
<1>15. \/ i = n /\ r = 0 /\ lc = i /\ ld = i
       \/ i < n /\ r = x - y /\ (i = ls \/ x # y) /\ (i = lc <=> x = 0) /\ (i = ld <=> y = 0)
  BY <1>3, <1>8, <1>9, <1>11, <1>12
<1>16. \A k : BeforeAt(c, d, k) => k = i
  <2> SUFFICES ASSUME NEW k, BeforeAt(c, d, k) PROVE k = i
    OBVIOUS
  <2>1. /\ k \in 0 .. lc /\ k < ld /\ \A j \in 1 .. k : c[j] = d[j]
        /\ k = lc \/ c[k + 1] < d[k + 1]
    BY <1>8, <1>9 DEF BeforeAt
  <2>2. ~(k < i)
    <3> SUFFICES ASSUME k < i PROVE FALSE
      OBVIOUS
    <3>1. k + 1 \in 1 .. i /\ k + 1 \in 1 .. lc /\ k # lc
      <4>1. i \in Nat /\ k \in Nat /\ lc \in Nat /\ k < i /\ i =< lc
        BY <1>3, <1>8, <1>10, <2>1
      <4> QED  BY <4>1
    <3>2. PICK z \in Char : z = c[k + 1]
      BY <1>8, <3>1, ElementOfSeq
    <3>3. d[k + 1] = z /\ c[k + 1] < d[k + 1]
      BY <1>10, <2>1, <3>1, <3>2
    <3>4. ~(z < z)
      BY DEF Char
    <3> QED  BY <3>2, <3>3, <3>4
  <2>3. ~(i < k)
    <3> SUFFICES ASSUME i < k PROVE FALSE
      OBVIOUS
    <3>1. i + 1 \in 1 .. k /\ i < lc /\ i < ld
      <4>1. i \in Nat /\ k \in Nat /\ lc \in Nat /\ ld \in Nat /\ i < k /\ k =< lc /\ k < ld
        BY <1>3, <1>8, <1>9, <2>1
      <4> QED  BY <4>1
    <3>2. x = y /\ x # 0
      BY <1>13, <1>14, <1>15, <2>1, <3>1
    <3>3. i # ls /\ i < n
      BY <1>8, <1>9, <1>11, <1>15, <3>1, <3>2
    <3> QED  BY <1>15, <3>2, <3>3
  <2> QED  BY <1>3, <2>1, <2>2, <2>3
<1>17. BeforeAt(c, d, i) <=> r < 0
  <2>1. BeforeAt(c, d, i) <=> i < ld /\ (i = lc \/ c[i + 1] < d[i + 1])
    BY <1>3, <1>8, <1>9, <1>10 DEF BeforeAt
  <2>2. x \in Nat /\ y \in Nat
    BY DEF Byte
  <2>3. CASE i = n /\ r = 0 /\ lc = i /\ ld = i
    BY <2>1, <2>3
  <2>4. CASE i < n /\ r = x - y /\ (i = ls \/ x # y) /\ (i = lc <=> x = 0) /\ (i = ld <=> y = 0)
    <3>1. i < ld <=> y # 0
      BY <1>3, <1>9, <1>10, <2>4
    <3>2. i < lc <=> x # 0
      BY <1>3, <1>8, <1>10, <2>4
    <3>3. i < ld /\ (i = lc \/ c[i + 1] < d[i + 1]) <=> y # 0 /\ (x = 0 \/ x < y)
      BY <1>13, <1>14, <2>4, <3>1, <3>2
    <3> QED  BY <2>1, <2>2, <2>4, <3>3
  <2> QED  BY <1>15, <2>3, <2>4
<1>18. c = d <=> r = 0
  <2>1. x \in Nat /\ y \in Nat
    BY DEF Byte
  <2>2. ASSUME r = 0 PROVE c = d
    <3>1. lc = i /\ ld = i
      BY <1>3, <1>8, <1>9, <1>11, <1>12, <1>15, <2>1, <2>2
    <3> QED  BY <1>8, <1>9, <1>10, <3>1, SeqEqual
  <2>3. ASSUME c = d PROVE r = 0
    <3>1. lc = ld
      BY <1>8, <1>9, <2>3
    <3>2. i < lc => x = y
      BY <1>13, <1>14, <2>3, <3>1
    <3> QED  BY <1>3, <1>8, <1>10, <1>15, <2>1, <3>1, <3>2
  <2> QED  BY <2>2, <2>3
<1> QED  BY <1>4, <1>5, <1>8, <1>9, <1>16, <1>17, <1>18, BeforeIs

-----------------------------------------------------------------------------
(***************************************************************************)
(* Removing a substring                                                    *)
(***************************************************************************)

LEMMA PrefixOf ==
    ASSUME NEW B, NEW a \in Seq(B), NEW b \in Seq(B), Len(a) =< Len(b),
           \A j \in 1 .. Len(a) : a[j] = b[j]
    PROVE  IsPrefix(a, b)
<1>1. PICK m \in Nat : m = Len(a)
  OBVIOUS
<1>2. SubSeq(a, 1, m) = SubSeq(b, 1, m)
  BY <1>1, SamePrefix
<1> QED  BY <1>1, <1>2 DEF IsPrefix

LEMMA SuffixOf ==
    ASSUME NEW B, NEW a \in Seq(B), NEW b \in Seq(B), Len(a) =< Len(b),
           \A j \in 1 .. Len(a) : a[j] = b[Len(b) - Len(a) + j]
    PROVE  IsSuffix(a, b)
<1>1. PICK m \in Nat : m = Len(a)
  OBVIOUS
<1>2. PICK n \in Nat : n = Len(b)
  OBVIOUS
<1>3. PICK c : c = Reverse(a)
  OBVIOUS
<1>4. PICK d : d = Reverse(b)
  OBVIOUS
<1>5. c = [j \in 1 .. m |-> a[m - j + 1]] /\ d = [j \in 1 .. n |-> b[n - j + 1]]
  BY <1>1, <1>2, <1>3, <1>4 DEF Reverse
<1>6. /\ \A j \in 1 .. m : a[m - j + 1] \in B
      /\ \A j \in 1 .. n : b[n - j + 1] \in B
  <2>1. ASSUME NEW j \in 1 .. m PROVE a[m - j + 1] \in B
    <3>1. m - j + 1 \in 1 .. m
      OBVIOUS
    <3> QED  BY <1>1, <3>1, ElementOfSeq
  <2>2. ASSUME NEW j \in 1 .. n PROVE b[n - j + 1] \in B
    <3>1. n - j + 1 \in 1 .. n
      OBVIOUS
    <3> QED  BY <1>2, <3>1, ElementOfSeq
  <2> QED  BY <2>1, <2>2
<1>7. c \in Seq(B) /\ Len(c) = m /\ d \in Seq(B) /\ Len(d) = n
  BY <1>5, <1>6
<1>8. ASSUME NEW j \in 1 .. m PROVE c[j] = d[j]
  <2>1. m - j + 1 \in 1 .. m /\ j \in 1 .. n /\ n - m + (m - j + 1) = n - j + 1
    BY <1>1, <1>2
  <2>2. a[m - j + 1] = b[n - j + 1]
    BY <1>1, <1>2, <2>1
  <2> QED  BY <1>5, <2>1, <2>2
<1>9. IsPrefix(c, d)
  BY <1>1, <1>2, <1>7, <1>8, PrefixOf
<1> QED  BY <1>3, <1>4, <1>9 DEF IsSuffix

\* t is in s at place i
MatchAt(s, t, i) ==
    /\ i \in 1 .. Len(s) - Len(t) + 1
    /\ \A j \in 1 .. Len(t) : s[i + j - 1] = t[j]

LEMMA memcmpMatches ==
    ASSUME NEW mem, NEW s, NEW t, NEW p, Holds(mem, 1, s), Holds(mem, p, t), NEW i \in 1 .. Len(s)
    PROVE  memcmp(mem, i, p, Len(t)) = 0 <=> MatchAt(s, t, i)
<1>1. PICK m \in Nat : m = Len(s)
  BY DEF Holds
<1>2. PICK n \in Nat : n = Len(t)
  BY DEF Holds
<1> DEFINE Stops(k) == k = n \/ mem[i + k] # mem[p + k]
           First(k) == Stops(k) /\ \A j \in 0 .. k - 1 : ~Stops(j)
<1>3. PICK T : T = {k \in 0 .. n : Stops(k)}
  OBVIOUS
<1>4. n \in T
  BY <1>3
<1>5. PICK f \in T : \A j \in 0 .. f - 1 : j \notin T
  BY <1>3, <1>4, FirstStop
<1>6. PICK e : e = CHOOSE k \in 0 .. n : First(k)
  OBVIOUS
<1>7. e \in 0 .. n /\ First(e)
  <2>1. f \in 0 .. n /\ Stops(f)
    BY <1>3
  <2>2. \A j \in 0 .. f - 1 : j \in 0 .. n /\ ~Stops(j)
    BY <1>3, <1>5, <2>1
  <2> QED  BY <1>6, <2>1, <2>2
<1>8. memcmp(mem, i, p, n) = 0 <=> e = n
  <2>1. memcmp(mem, i, p, n) = IF e = n THEN 0 ELSE IF mem[i + e] < mem[p + e] THEN -1 ELSE 1
    BY <1>6 DEF memcmp, FirstFrom
  <2> QED  BY <2>1
<1>9. e = n <=> \A k \in 0 .. n - 1 : mem[i + k] = mem[p + k]
  BY <1>7
<1>10. ASSUME NEW j \in 1 .. n PROVE mem[p + (j - 1)] = t[j] /\ t[j] # Terminator
  <2>1. j - 1 \in 0 .. n /\ (j - 1) + 1 = j /\ j # n + 1 /\ j - 1 # n
    OBVIOUS
  <2>2. At0(t, j) = t[j]
    BY <1>2, <2>1 DEF At0
  <2>3. mem[p + (j - 1)] = At0(t, j) /\ mem[p + (j - 1)] # Terminator
    BY <1>2, <2>1, HeldByte
  <2> QED  BY <2>2, <2>3
<1>11. ASSUME NEW k \in 1 .. m PROVE mem[k] = s[k]
  <2>1. 1 + k - 1 = k
    OBVIOUS
  <2> QED  BY <1>1, <2>1 DEF Holds
<1>12. mem[m + 1] = Terminator
  <2>1. 1 + m = m + 1
    OBVIOUS
  <2> QED  BY <1>1, <2>1 DEF Holds
<1>13. ASSUME \A k \in 0 .. n - 1 : mem[i + k] = mem[p + k]
       PROVE  MatchAt(s, t, i)
  <2>1. i + n - 1 =< m
    <3> SUFFICES ASSUME m < i + n - 1 PROVE FALSE
      BY <1>1
    <3>1. PICK j \in 1 .. n : j = m + 2 - i
      BY <1>1
    <3>2. j - 1 \in 0 .. n - 1 /\ i + (j - 1) = m + 1
      BY <1>1, <3>1
    <3>3. mem[m + 1] = mem[p + (j - 1)]
      BY <1>13, <3>2
    <3> QED  BY <1>10, <1>12, <3>3
  <2>2. ASSUME NEW j \in 1 .. n PROVE s[i + j - 1] = t[j]
    <3>1. j - 1 \in 0 .. n - 1 /\ i + (j - 1) = i + j - 1 /\ i + j - 1 \in 1 .. m
      BY <1>1, <2>1
    <3>2. mem[i + j - 1] = mem[p + (j - 1)]
      BY <1>13, <3>1
    <3> QED  BY <1>10, <1>11, <3>1, <3>2
  <2>3. i \in 1 .. m - n + 1
    BY <1>1, <2>1
  <2> QED  BY <1>1, <1>2, <2>2, <2>3 DEF MatchAt
<1>14. ASSUME MatchAt(s, t, i), NEW k \in 0 .. n - 1 PROVE mem[i + k] = mem[p + k]
  <2>1. i \in 1 .. m - n + 1 /\ \A j \in 1 .. n : s[i + j - 1] = t[j]
    BY <1>1, <1>2, <1>14 DEF MatchAt
  <2>2. PICK j \in 1 .. n : j = k + 1
    OBVIOUS
  <2>3. /\ j - 1 = k /\ i + j - 1 = i + k
        /\ i + k \in 1 .. m
    BY <2>1, <2>2
  <2> QED  BY <1>10, <1>11, <2>1, <2>2, <2>3
<1> QED  BY <1>2, <1>8, <1>9, <1>13, <1>14

\* The first place of a match is found, but for that of the terminator.
LEMMA StringFromStringIs ==
    ASSUME NEW mem, NEW s, NEW t, NEW q, Holds(mem, 1, s), Holds(mem, q, t), NEW p,
           p = StringFromString(mem, 1, q)
    PROVE  \/ p = NULL /\ \A i \in 1 .. Len(s) : ~MatchAt(s, t, i)
           \/ /\ p \in 1 .. Len(s) /\ MatchAt(s, t, p)
              /\ \A i \in 1 .. p - 1 : ~MatchAt(s, t, i)
<1>1. PICK m \in Nat : m = Len(s)
  BY DEF Holds
<1>2. PICK n \in Nat : n = Len(t)
  BY DEF Holds
<1>3. StringLength(mem, 1) = m /\ StringLength(mem, q) = n
  BY <1>1, <1>2, StringLengthIs
<1>4. PICK stop \in Nat : stop = 1 + m
  OBVIOUS
<1> DEFINE Stops(i) == i = stop \/ memcmp(mem, i, q, n) = 0
           First(k) == Stops(k) /\ \A j \in 1 .. k - 1 : ~Stops(j)
<1>5. PICK T : T = {k \in 1 .. stop : Stops(k)}
  OBVIOUS
<1>6. stop \in T /\ T \in SUBSET (1 .. stop)
  BY <1>4, <1>5
<1>7. PICK f \in T : \A j \in 1 .. f - 1 : j \notin T
  <2>1. 1 \in Nat /\ T # {}
    BY <1>6
  <2> QED  BY <1>6, <2>1, FirstStop
<1>8. PICK e : e = CHOOSE k \in 1 .. stop : First(k)
  OBVIOUS
<1>9. e \in 1 .. stop /\ First(e)
  <2>1. f \in 1 .. stop /\ Stops(f)
    BY <1>5
  <2>2. \A j \in 1 .. f - 1 : j \in 1 .. stop /\ ~Stops(j)
    BY <1>5, <1>7, <2>1
  <2> QED  BY <1>8, <2>1, <2>2
<1>10. p = IF e = stop THEN NULL ELSE e
  BY <1>3, <1>4, <1>8 DEF StringFromString, FirstFrom
<1>11. \A i \in 1 .. m : memcmp(mem, i, q, n) = 0 <=> MatchAt(s, t, i)
  BY <1>1, <1>2, memcmpMatches
<1>12. CASE e = stop
  <2>1. p = NULL /\ \A i \in 1 .. m : ~MatchAt(s, t, i)
    BY <1>4, <1>9, <1>10, <1>11, <1>12
  <2> QED  BY <1>1, <2>1
<1>13. CASE e # stop
  <2>1. p = e /\ e \in 1 .. m /\ memcmp(mem, e, q, n) = 0
    BY <1>4, <1>9, <1>10, <1>13
  <2>2. \A i \in 1 .. e - 1 : i \in 1 .. m /\ ~(memcmp(mem, i, q, n) = 0)
    BY <1>9, <2>1
  <2> QED  BY <1>1, <1>11, <2>1, <2>2
<1> QED  BY <1>12, <1>13

\* u is the n elements of s from place a on
Slice(u, s, a, n) ==
    Len(u) = n /\ \A j \in 1 .. n : u[j] = s[a + j - 1]

LEMMA SliceIs ==
    ASSUME NEW B, NEW s \in Seq(B), NEW a \in Nat, 1 =< a, NEW n \in Nat, a + n =< Len(s) + 1,
           NEW u, u = SubSeq(s, a, a + n - 1)
    PROVE  u \in Seq(B) /\ Slice(u, s, a, n)
<1>1. PICK m \in Nat : m = Len(s)
  OBVIOUS
<1>2. PICK b \in Int : b = a + n - 1
  OBVIOUS
<1>3. b - a + 1 = n /\ a .. b \subseteq 1 .. m /\ (a <= b \/ n = 0)
  BY <1>1, <1>2
<1>4. \A j \in a .. b : s[j] \in B
  BY <1>1, <1>3, ElementOfSeq
<1>5. /\ SubSeq(s, a, b) \in Seq(B)
      /\ Len(SubSeq(s, a, b)) = IF a <= b THEN b - a + 1 ELSE 0
      /\ \A j \in 1 .. b - a + 1 : SubSeq(s, a, b)[j] = s[a + j - 1]
  BY <1>4, SubSeqProperties
<1>6. Len(SubSeq(s, a, b)) = n
  BY <1>2, <1>3, <1>5
<1> QED  BY <1>2, <1>3, <1>5, <1>6 DEF Slice

LEMMA LeftOver == ASSUME NEW m \in Nat, NEW i \in 1 .. m + 1 PROVE m + 1 - i \in Nat
OBVIOUS

\* The rest of a string is a string.
LEMMA RestHeld ==
    ASSUME NEW mem, NEW p, NEW s, Holds(mem, p, s), NEW i \in 1 .. Len(s) + 1, NEW u,
           u = SubSeq(s, i, Len(s))
    PROVE  /\ Holds(mem, p + i - 1, u)
           /\ u \in Seq(Char) /\ Slice(u, s, i, Len(s) + 1 - i)
<1>1. PICK m \in Nat : m = Len(s)
  <2>1. s \in Seq(Char)
    BY DEF Holds
  <2> QED  BY <2>1
<1>2. PICK l \in Nat : l = m + 1 - i
  <2>1. i \in 1 .. m + 1
    BY <1>1, Zenon
  <2> QED  BY <2>1, LeftOver, Zenon
<1>3. /\ mem \in Seq(Byte) /\ s \in Seq(Char) /\ p \in Nat /\ 1 =< p /\ p + m =< Len(mem)
      /\ \A j \in 1 .. m : mem[p + j - 1] = s[j]
      /\ mem[p + m] = Terminator
  BY <1>1 DEF Holds
<1>4. i \in Nat /\ 1 =< i /\ i + l =< m + 1 /\ i + l - 1 = m
  BY <1>1, <1>2
<1>5. u \in Seq(Char) /\ Slice(u, s, i, l)
  BY <1>1, <1>3, <1>4, SliceIs
<1>6. Len(u) = l /\ \A j \in 1 .. l : u[j] = s[i + j - 1]
  BY <1>5 DEF Slice
<1>7. PICK q \in Nat : q = p + i - 1 /\ 1 =< q /\ q + l = p + m
  BY <1>2, <1>3, <1>4
<1>8. ASSUME NEW j \in 1 .. l PROVE mem[q + j - 1] = u[j]
  <2>1. i + j - 1 \in 1 .. m /\ p + (i + j - 1) - 1 = q + j - 1
    BY <1>2, <1>3, <1>4, <1>7
  <2> QED  BY <1>3, <1>6, <2>1
<1>9. Holds(mem, q, u)
  BY <1>3, <1>5, <1>6, <1>7, <1>8 DEF Holds
<1> QED  BY <1>1, <1>2, <1>5, <1>7, <1>9

\* u is s without the n characters from place i on
Cuts(u, s, i, n) ==
    /\ u \in Seq(Char) /\ Len(u) = Len(s) - n
    /\ \A j \in 1 .. Len(u) : u[j] = IF j < i THEN s[j] ELSE s[j + n]

LEMMA WithoutIs ==
    ASSUME NEW s \in Seq(Char), NEW t \in Seq(Char)
    PROVE  /\ (\A i \in 1 .. Len(s) : ~MatchAt(s, t, i)) => Without(s, t) = s
           /\ \A p \in 1 .. Len(s) :
                 MatchAt(s, t, p) /\ (\A i \in 1 .. p - 1 : ~MatchAt(s, t, i))
                 => Cuts(Without(s, t), s, p, Len(t))
<1>1. PICK m \in Nat : m = Len(s)
  OBVIOUS
<1>2. PICK n \in Nat : n = Len(t)
  OBVIOUS
<1>3. PICK at : at = {i \in 1 .. m - n + 1 : SubSeq(s, i, i + n - 1) = t}
  OBVIOUS
<1>4. ASSUME NEW i PROVE i \in at <=> MatchAt(s, t, i)
  <2>1. ASSUME i \in 1 .. m - n + 1
        PROVE  SubSeq(s, i, i + n - 1) = t <=> \A j \in 1 .. n : s[i + j - 1] = t[j]
    <3>1. PICK u : u = SubSeq(s, i, i + n - 1)
      OBVIOUS
    <3>2. i \in Nat /\ 1 =< i /\ i + n =< m + 1
      BY <2>1
    <3>3. u \in Seq(Char) /\ Len(u) = n /\ \A j \in 1 .. n : u[j] = s[i + j - 1]
      <4>1. u \in Seq(Char) /\ Slice(u, s, i, n)
        BY <1>1, <3>1, <3>2, SliceIs
      <4> QED  BY <4>1 DEF Slice
    <3>4. u = t <=> \A j \in 1 .. n : u[j] = t[j]
      BY <1>2, <3>3, SeqEqual
    <3> QED  BY <3>1, <3>3, <3>4
  <2> QED  BY <1>1, <1>2, <1>3, <2>1 DEF MatchAt
<1>5. PICK first : first = CHOOSE i \in at : \A j \in at : i =< j
  OBVIOUS
<1>6. PICK w : w = Without(s, t)
  OBVIOUS
<1>7. w = IF at = {} THEN s ELSE SubSeq(s, 1, first - 1) \o SubSeq(s, first + n, m)
  BY <1>1, <1>2, <1>3, <1>5, <1>6 DEF Without
<1>8. at \subseteq 1 .. m - n + 1
  BY <1>3
<1>9. ASSUME NEW p \in at, \A i \in 1 .. p - 1 : i \notin at
      PROVE  Cuts(w, s, p, n)
  <2>1. \A j \in at : p =< j
    BY <1>1, <1>2, <1>8, <1>9
  <2>2. first \in at /\ \A j \in at : first =< j
    BY <1>5, <2>1
  <2>3. p \in Nat /\ first \in Nat /\ p =< first /\ first =< p
    BY <1>1, <1>2, <1>8, <2>1, <2>2
  <2>4. first = p /\ 1 =< p /\ p + n =< m + 1
    BY <1>1, <1>2, <1>8, <2>3
  <2>5. PICK a : a = SubSeq(s, 1, 1 + (p - 1) - 1)
    OBVIOUS
  <2>6. PICK b : b = SubSeq(s, p + n, (p + n) + (m + 1 - (p + n)) - 1)
    OBVIOUS
  <2>7. /\ a \in Seq(Char) /\ Len(a) = p - 1
        /\ \A j \in 1 .. p - 1 : a[j] = s[1 + j - 1]
    <3>1. PICK c \in Nat : c = p - 1 /\ c =< m
      BY <2>3, <2>4
    <3>2. a = SubSeq(s, 1, c)
      <4>1. 1 + (p - 1) - 1 = c
        BY <2>3, <3>1
      <4> QED  BY <2>5, <4>1
    <3>3. a \in Seq(Char) /\ Len(a) = c /\ \A j \in 1 .. c : a[j] = s[j]
      BY <1>1, <3>1, <3>2, PrefixIs
    <3>4. \A j \in 1 .. c : 1 + j - 1 = j
      OBVIOUS
    <3> QED  BY <3>1, <3>3, <3>4
  <2>8. PICK l \in Nat : l = m + 1 - (p + n)
    BY <2>3, <2>4
  <2>9. /\ b \in Seq(Char) /\ Len(b) = l
        /\ \A j \in 1 .. l : b[j] = s[p + n + j - 1]
    <3>1. PICK c \in Nat : c = p + n /\ 1 =< c /\ c + l =< m + 1
      BY <2>3, <2>4, <2>8
    <3>2. b = SubSeq(s, c, c + l - 1)
      BY <2>6, <2>8, <3>1
    <3>3. b \in Seq(Char) /\ Slice(b, s, c, l)
      BY <1>1, <3>1, <3>2, SliceIs
    <3> QED  BY <3>1, <3>3 DEF Slice
  <2>10. w = a \o b
    <3>1. 1 + (p - 1) - 1 = first - 1 /\ (p + n) + (m + 1 - (p + n)) - 1 = m /\ p + n = first + n
      BY <2>3, <2>4
    <3> QED  BY <1>7, <1>9, <2>5, <2>6, <3>1
  <2>11. /\ w \in Seq(Char) /\ Len(w) = m - n
         /\ \A j \in 1 .. m - n : w[j] = IF j <= p - 1 THEN a[j] ELSE b[j - (p - 1)]
    <3>1. /\ a \o b \in Seq(Char)
          /\ Len(a \o b) = Len(a) + Len(b)
          /\ \A j \in 1 .. Len(a) + Len(b) :
                (a \o b)[j] = IF j <= Len(a) THEN a[j] ELSE b[j - Len(a)]
      BY <2>7, <2>9, ConcatProperties
    <3>2. (p - 1) + l = m - n
      BY <2>3, <2>8
    <3> QED  BY <2>7, <2>9, <2>10, <3>1, <3>2
  <2>12. ASSUME NEW j \in 1 .. m - n PROVE w[j] = IF j < p THEN s[j] ELSE s[j + n]
    <3>1. CASE j < p
      <4>1. j \in 1 .. p - 1 /\ j <= p - 1 /\ 1 + j - 1 = j
        BY <2>3, <3>1
      <4> QED  BY <2>7, <2>11, <3>1, <4>1
    <3>2. CASE ~(j < p)
      <4>1. PICK k \in 1 .. l : k = j - (p - 1)
        BY <2>3, <2>8, <3>2
      <4>2. ~(j <= p - 1) /\ p + n + k - 1 = j + n
        BY <2>3, <3>2, <4>1
      <4>3. w[j] = b[k]
        BY <2>11, <4>1, <4>2
      <4>4. b[k] = s[j + n]
        BY <2>9, <4>2
      <4> QED  BY <3>2, <4>3, <4>4
    <3> QED  BY <3>1, <3>2
  <2> QED  BY <1>1, <2>11, <2>12 DEF Cuts
<1>10. ASSUME \A i \in 1 .. m : ~MatchAt(s, t, i) PROVE w = s
  <2>1. CASE at = {}
    BY <1>7, <2>1
  <2>2. CASE at # {}
    <3>1. PICK p \in at : TRUE
      BY <2>2
    <3>2. p \notin 1 .. m /\ p \in 1 .. m - n + 1
      BY <1>4, <1>8, <1>10, <3>1
    <3>3. p = m + 1 /\ n = 0
      BY <3>2
    <3>4. \A i \in 1 .. p - 1 : i \notin at
      BY <1>4, <1>10, <3>3
    <3>5. Cuts(w, s, p, n)
      BY <1>9, <3>4
    <3>6. w \in Seq(Char) /\ Len(w) = m /\ \A j \in 1 .. m : w[j] = s[j]
      BY <1>1, <3>3, <3>5 DEF Cuts
    <3> QED  BY <1>1, <3>6, SeqEqual
  <2> QED  BY <2>1, <2>2
<1>11. ASSUME NEW p \in 1 .. m, MatchAt(s, t, p), \A i \in 1 .. p - 1 : ~MatchAt(s, t, i)
       PROVE  Cuts(w, s, p, n)
  BY <1>4, <1>9, <1>11
<1> QED  BY <1>1, <1>2, <1>6, <1>10, <1>11

\* StringRemove leaves the text around the substring, and what is behind it
\* in memory (StringRemove.c).
Removed(r, s, t) ==
    IsPrefix(C(Without(s, t)), r) /\ IsSuffix(C(t), r)

LEMMA StringAt0 ==
    ASSUME NEW s \in Seq(Char), NEW l \in Nat, l = Len(s)
    PROVE  /\ C(s) \in Seq(Byte) /\ Len(C(s)) = l + 1
           /\ \A k \in 1 .. l + 1 : C(s)[k] = At0(s, k)
BY CBytes DEF At0, Terminator

LEMMA StringRemoveRemoves ==
    ASSUME NEW s \in Seq(Char), NEW t \in Seq(Char)
    PROVE  Removed(StringRemove(C(s) \o C(t), 1, Len(s) + 2), s, t)
<1>1. PICK m \in Nat : m = Len(s)
  OBVIOUS
<1>2. PICK n \in Nat : n = Len(t)
  OBVIOUS
<1>3. PICK mem : mem = C(s) \o C(t)
  OBVIOUS
<1>4. /\ mem \in Seq(Byte) /\ Len(mem) = m + n + 2
      /\ Holds(mem, 1, s) /\ Holds(mem, m + 2, t)
  <2>1. C(s) \in Seq(Byte) /\ C(t) \in Seq(Byte)
    BY CBytes
  <2>2. C(s) \o C(t) \in Seq(Byte)
    BY <2>1, ConcatProperties
  <2>3. mem = C(s) \o C(t) \o <<>>
    BY <1>3, <2>2, ConcatEmptySeq
  <2>4. PICK r \in Seq(Byte) : r = <<>> /\ Len(r) = 0
    BY EmptySeq
  <2>5. mem = C(s) \o C(t) \o r
    BY <2>3, <2>4
  <2>6. TwoHeld(mem, s, t, r)
    BY <2>5, TwoStrings
  <2> QED  BY <1>1, <1>2, <2>4, <2>6 DEF TwoHeld
<1>5. ASSUME NEW k \in 1 .. m + 1 PROVE mem[k] = At0(s, k)
  <2>1. PICK j \in 0 .. m : j = k - 1
    BY <1>5
  <2>2. mem[1 + j] = At0(s, j + 1)
    BY <1>1, <1>4, HeldByte
  <2>3. 1 + j = k /\ j + 1 = k
    BY <2>1
  <2> QED  BY <2>2, <2>3
<1>6. ASSUME NEW k \in 1 .. n + 1 PROVE mem[m + 1 + k] = At0(t, k)
  <2>1. PICK j \in 0 .. n : j = k - 1
    BY <1>6
  <2>2. mem[m + 2 + j] = At0(t, j + 1)
    BY <1>2, <1>4, HeldByte
  <2>3. m + 2 + j = m + 1 + k /\ j + 1 = k
    BY <2>1
  <2> QED  BY <2>2, <2>3
<1>7. PICK w : w = Without(s, t)
  OBVIOUS
<1>8. PICK ct : ct = C(t)
  OBVIOUS
<1>9. /\ ct \in Seq(Byte) /\ Len(ct) = n + 1 /\ \A k \in 1 .. n + 1 : ct[k] = At0(t, k)
  BY <1>2, <1>8, CBytes DEF At0, Terminator
<1>10. PICK r : r = StringRemove(mem, 1, m + 2)
  OBVIOUS
<1>11. PICK p : p = StringFromString(mem, 1, m + 2)
  OBVIOUS
<1>12. \/ p = NULL /\ \A i \in 1 .. m : ~MatchAt(s, t, i)
       \/ /\ p \in 1 .. m /\ MatchAt(s, t, p)
          /\ \A i \in 1 .. p - 1 : ~MatchAt(s, t, i)
  <2>1. \/ p = NULL /\ \A i \in 1 .. Len(s) : ~MatchAt(s, t, i)
        \/ /\ p \in 1 .. Len(s) /\ MatchAt(s, t, p)
           /\ \A i \in 1 .. p - 1 : ~MatchAt(s, t, i)
    BY <1>4, <1>11, StringFromStringIs
  <2> QED  BY <1>1, <2>1
<1>13. StringLength(mem, m + 2) = n
  BY <1>2, <1>4, StringLengthIs
<1>14. r = IF p = NULL THEN mem
           ELSE memmove(mem, p, p + n, StringLength(mem, p + n) + 1)
  BY <1>10, <1>11, <1>13 DEF StringRemove
\* all that is needed of the memory afterwards
<1>15. ASSUME w \in Seq(Char), Len(w) =< m, r \in Seq(Byte), Len(r) = m + n + 2,
              \A k \in 1 .. Len(w) + 1 : r[k] = At0(w, k),
              \A k \in 1 .. n + 1 : r[m + 1 + k] = mem[m + 1 + k]
       PROVE  Removed(r, s, t)
  <2>1. PICK l \in Nat : l = Len(w) /\ l =< m
    BY <1>15
  <2>2. PICK cw : cw = C(w)
    OBVIOUS
  <2>3. /\ cw \in Seq(Byte) /\ Len(cw) = l + 1 /\ \A k \in 1 .. l + 1 : cw[k] = At0(w, k)
    <3>1. /\ C(w) \in Seq(Byte) /\ Len(C(w)) = l + 1
          /\ \A k \in 1 .. l + 1 : C(w)[k] = At0(w, k)
      BY <1>15, <2>1, StringAt0
    <3> QED  BY <2>2, <3>1, Zenon
  <2>4. IsPrefix(cw, r)
    <3>1. Len(cw) =< Len(r) /\ \A k \in 1 .. Len(cw) : cw[k] = r[k]
      BY <1>15, <2>1, <2>3
    <3> QED  BY <1>15, <2>3, <3>1, PrefixOf
  <2>5. IsSuffix(ct, r)
    <3>1. Len(ct) =< Len(r) /\ Len(r) - Len(ct) = m + 1
      BY <1>9, <1>15
    <3>2. \A k \in 1 .. Len(ct) : ct[k] = r[m + 1 + k]
      BY <1>6, <1>9, <1>15
    <3>3. \A k \in 1 .. Len(ct) : ct[k] = r[Len(r) - Len(ct) + k]
      BY <3>1, <3>2
    <3> QED  BY <1>9, <1>15, <3>1, <3>3, SuffixOf
  <2> QED  BY <1>7, <1>8, <2>2, <2>4, <2>5 DEF Removed
<1>16. CASE p = NULL
  <2>1. \A i \in 1 .. m : ~MatchAt(s, t, i)
    BY <1>12, <1>16 DEF NULL
  <2>2. w = s /\ r = mem
    BY <1>1, <1>7, <1>14, <1>16, <2>1, WithoutIs
  <2>3. Removed(r, s, t)
    BY <1>1, <1>4, <1>5, <1>15, <2>2
  <2> QED  BY <1>1, <1>3, <1>10, <2>3
<1>17. CASE p # NULL
  <2>1. /\ p \in 1 .. m /\ MatchAt(s, t, p)
        /\ \A i \in 1 .. p - 1 : ~MatchAt(s, t, i)
    BY <1>12, <1>17
  <2>2. Cuts(w, s, p, n)
    BY <1>1, <1>2, <1>7, <2>1, WithoutIs
  <2>3. p + n =< m + 1
    BY <1>1, <1>2, <2>1 DEF MatchAt
  <2>4. PICK q \in Nat : q = p + n /\ 1 =< q /\ q =< m + 1
    BY <2>1, <2>3
  <2>5. PICK l \in Nat : l = m + 1 - q
    BY <2>4
  <2>6. StringLength(mem, q) = l
    <3>1. PICK u : u = SubSeq(s, q, m)
      OBVIOUS
    <3>2. q \in 1 .. m + 1 /\ 1 + q - 1 = q /\ m + 1 - q = l
      BY <2>4, <2>5
    <3>3. Holds(mem, 1 + q - 1, u) /\ Slice(u, s, q, m + 1 - q)
      BY <1>1, <1>4, <3>1, <3>2, RestHeld
    <3>4. Holds(mem, q, u) /\ Len(u) = l
      BY <3>2, <3>3 DEF Slice
    <3> QED  BY <3>4, StringLengthIs
  <2>7. r = memmove(mem, p, q, l + 1)
    BY <1>14, <1>17, <2>4, <2>6
  <2>8. r = Moved(mem, p, q, 0, l + 1)
    <3>1. PICK k \in Nat : k = l + 1
      OBVIOUS
    <3>2. /\ p \in Nat /\ q \in Nat /\ 1 =< q /\ q + k =< m + n + 3
          /\ 1 =< p /\ p + k =< m + n + 3
      BY <2>1, <2>4, <2>5, <3>1
    <3>3. Len(mem) + 1 = m + n + 3
      BY <1>4
    <3>4. memmove(mem, p, q, k) = Moved(mem, p, q, 0, k)
      BY <1>4, <3>2, <3>3, memmoveMoves
    <3> QED  BY <2>7, <3>1, <3>4
  <2>9. ASSUME NEW j \in 1 .. m + n + 2
        PROVE  /\ (IF j \in p + 0 .. p + (l + 1) - 1 THEN mem[j - p + q] ELSE mem[j]) \in Byte
               /\ j - p + q = j + n
    <3>1. j - p + q = j + n
      BY <2>1, <2>4, <2>9
    <3>2. CASE j \in p + 0 .. p + (l + 1) - 1
      <4>1. j - p + q \in 1 .. m + n + 2
        BY <2>1, <2>4, <2>5, <3>2
      <4> QED  BY <1>4, <3>1, <3>2, <4>1, ElementOfSeq
    <3>3. CASE ~(j \in p + 0 .. p + (l + 1) - 1)
      BY <1>4, <3>1, <3>3, ElementOfSeq
    <3> QED  BY <3>2, <3>3
  <2>10. /\ r = [j \in 1 .. m + n + 2 |->
                    IF j \in p + 0 .. p + (l + 1) - 1 THEN mem[j - p + q] ELSE mem[j]]
         /\ r \in Seq(Byte) /\ Len(r) = m + n + 2
    <3>1. r = [j \in 1 .. m + n + 2 |->
                    IF j \in p + 0 .. p + (l + 1) - 1 THEN mem[j - p + q] ELSE mem[j]]
      BY <1>4, <2>8 DEF Moved
    <3>2. r \in [1 .. m + n + 2 -> Byte]
      BY <2>9, <3>1
    <3> QED  BY <3>1, <3>2
  <2>11. w \in Seq(Char) /\ Len(w) = m - n
         /\ \A j \in 1 .. m - n : w[j] = IF j < p THEN s[j] ELSE s[j + n]
    BY <1>1, <2>2 DEF Cuts
  <2>12. m - n \in Nat /\ p + (l + 1) - 1 = m - n + 1
    BY <2>1, <2>3, <2>4, <2>5
  <2>13. ASSUME NEW k \in 1 .. m - n + 1 PROVE r[k] = At0(w, k)
    <3>1. k \in 1 .. m + n + 2 /\ k \in 1 .. m + 1
      BY <2>12
    <3>2. CASE k < p
      <4>1. ~(k \in p + 0 .. p + (l + 1) - 1) /\ k \in 1 .. m - n /\ k # m + 1 /\ k # m - n + 1
        BY <2>1, <2>3, <3>2
      <4>2. r[k] = mem[k] /\ mem[k] = s[k]
        BY <1>1, <1>5, <2>10, <3>1, <4>1 DEF At0
      <4> QED  BY <2>11, <3>2, <4>1, <4>2 DEF At0
    <3>3. CASE p =< k
      <4>1. k \in p + 0 .. p + (l + 1) - 1 /\ k + n \in 1 .. m + 1
        BY <2>1, <2>12, <3>3
      <4>2. r[k] = mem[k + n]
        BY <2>9, <2>10, <3>1, <4>1
      <4>3. mem[k + n] = At0(s, k + n)
        BY <1>5, <4>1
      <4>4. CASE k = m - n + 1
        <5>1. k + n = m + 1
          BY <4>4
        <5> QED  BY <1>1, <2>11, <4>2, <4>3, <4>4, <5>1 DEF At0
      <4>5. CASE k # m - n + 1
        <5>1. k \in 1 .. m - n /\ k + n # m + 1 /\ ~(k < p)
          BY <2>1, <2>12, <3>3, <4>5
        <5>2. w[k] = s[k + n]
          BY <2>11, <5>1
        <5> QED  BY <1>1, <2>11, <4>2, <4>3, <4>5, <5>1, <5>2 DEF At0
      <4> QED  BY <4>4, <4>5
    <3> QED  BY <2>1, <3>2, <3>3
  <2>14. ASSUME NEW k \in 1 .. n + 1 PROVE r[m + 1 + k] = mem[m + 1 + k]
    <3>1. m + 1 + k \in 1 .. m + n + 2 /\ ~(m + 1 + k \in p + 0 .. p + (l + 1) - 1)
      BY <2>12
    <3> QED  BY <2>10, <3>1
  <2>15. Len(w) + 1 = m - n + 1 /\ Len(w) =< m /\ w \in Seq(Char)
    BY <2>11, <2>12
  <2>16. \A k \in 1 .. Len(w) + 1 : r[k] = At0(w, k)
    BY <2>13, <2>15
  <2>17. Removed(r, s, t)
    BY <1>15, <2>10, <2>14, <2>15, <2>16
  <2> QED  BY <1>1, <1>3, <1>10, <2>17
<1> QED  BY <1>16, <1>17

-----------------------------------------------------------------------------
(***************************************************************************)
(* Options of the command line                                             *)
(***************************************************************************)

\* Memory that has the same bytes holds the same string.
LEMMA SameHeld ==
    ASSUME NEW mem, NEW p, NEW s, Holds(mem, p, s), NEW new \in Seq(Byte), Len(new) = Len(mem),
           \A k \in p .. p + Len(s) : new[k] = mem[k]
    PROVE  Holds(new, p, s)
<1>1. PICK m \in Nat : m = Len(s)
  BY DEF Holds
<1>2. /\ s \in Seq(Char) /\ p \in Nat /\ 1 =< p /\ p + m =< Len(mem)
      /\ \A i \in 1 .. m : mem[p + i - 1] = s[i]
      /\ mem[p + m] = Terminator
  BY <1>1 DEF Holds
<1>3. ASSUME NEW i \in 1 .. m PROVE new[p + i - 1] = s[i]
  <2>1. p + i - 1 \in p .. p + m
    BY <1>2
  <2> QED  BY <1>1, <1>2, <2>1
<1>4. new[p + m] = Terminator
  <2>1. p + m \in p .. p + m
    BY <1>2
  <2> QED  BY <1>1, <1>2, <2>1
<1> QED  BY <1>1, <1>2, <1>3, <1>4 DEF Holds

\* A comparison that no byte is beyond is one of whole strings.
LEMMA CompareStringsIs ==
    ASSUME NEW mem, NEW a, NEW b, NEW s, NEW t, Holds(mem, a, s), Holds(mem, b, t)
    PROVE  CompareStrings(mem, a, b) = 0 <=> s = t
<1>1. PICK L \in Nat : L = Len(mem)
  BY DEF Holds
<1>2. s \in Seq(Char) /\ t \in Seq(Char) /\ Len(s) =< L /\ Len(t) =< L
  BY <1>1 DEF Holds
<1>3. PICK r : r = CompareStringsN(mem, a, b, L)
  OBVIOUS
<1>4. PICK i : Decided(r, s, t, L, i)
  BY <1>3, CompareDecided
<1>5. r = 0 <=> Cut(s, L) = Cut(t, L)
  BY <1>2, <1>4, DecidedRight
<1>6. ASSUME NEW u \in Seq(Char), Len(u) =< L PROVE Cut(u, L) = u
  <2>1. PICK m \in Nat : m = Len(u)
    OBVIOUS
  <2>2. Cut(u, L) = SubSeq(u, 1, m)
    BY <1>6, <2>1 DEF Cut
  <2>3. PICK v : v = SubSeq(u, 1, m)
    OBVIOUS
  <2>4. v \in Seq(Char) /\ Len(v) = m /\ \A j \in 1 .. m : v[j] = u[j]
    BY <2>1, <2>3, PrefixIs
  <2>5. v = u
    BY <2>1, <2>4, SeqEqual
  <2> QED  BY <2>2, <2>3, <2>5
<1>7. Cut(s, L) = s /\ Cut(t, L) = t
  BY <1>2, <1>6
<1> QED  BY <1>1, <1>3, <1>5, <1>7 DEF CompareStrings

\* the first '=' of a token is its character e
EqualsAt(token, e) ==
    /\ e \in 1 .. Len(token) /\ token[e] = Equals
    /\ \A j \in 1 .. e - 1 : token[j] # Equals

LEMMA FirstEqualsIs ==
    ASSUME NEW token \in Seq(Char), NEW e, EqualsAt(token, e)
    PROVE  FirstEquals(token) = e /\ Equals \in ToSet(token)
<1>1. PICK n \in Nat : n = Len(token)
  OBVIOUS
<1>2. e \in 1 .. n /\ token[e] = Equals /\ \A j \in 1 .. e - 1 : token[j] # Equals
  BY <1>1 DEF EqualsAt
<1>3. ASSUME NEW i \in 1 .. n
      PROVE  Equals \notin ToSet(SubSeq(token, 1, i - 1))
                <=> \A j \in 1 .. i - 1 : token[j] # Equals
  <2>1. PICK k \in Nat : k = i - 1 /\ k =< n
    BY <1>3
  <2>2. PICK u : u = SubSeq(token, 1, k)
    OBVIOUS
  <2>3. u \in Seq(Char) /\ Len(u) = k /\ \A j \in 1 .. k : u[j] = token[j]
    BY <1>1, <2>1, <2>2, PrefixIs
  <2>4. ToSet(u) = {u[j] : j \in 1 .. k}
    BY <2>3 DEF ToSet
  <2> QED  BY <2>1, <2>2, <2>3, <2>4
<1>4. DOMAIN token = 1 .. n
  BY <1>1
<1> DEFINE At(i) == token[i] = Equals /\ Equals \notin ToSet(SubSeq(token, 1, i - 1))
<1>5. At(e)
  BY <1>2, <1>3
<1>6. ASSUME NEW i \in 1 .. n, At(i) PROVE i = e
  <2>1. token[i] = Equals /\ \A j \in 1 .. i - 1 : token[j] # Equals
    BY <1>3, <1>6
  <2>2. ~(i < e) /\ ~(e < i)
    BY <1>2, <2>1
  <2> QED  BY <1>2, <2>2
<1>7. PICK f : f = CHOOSE i \in 1 .. n : At(i)
  OBVIOUS
<1>8. f = e
  <2>1. e \in 1 .. n
    BY <1>2
  <2>2. f \in 1 .. n /\ At(f)
    BY <1>5, <1>7, <2>1
  <2> QED  BY <1>6, <2>2
<1>9. FirstEquals(token) = f
  BY <1>4, <1>7 DEF FirstEquals
<1>10. Equals \in ToSet(token)
  BY <1>2, <1>4 DEF ToSet
<1> QED  BY <1>8, <1>9, <1>10

\* The first '=' of the token in memory is found, or its end.
LEMMA EqualsFound ==
    ASSUME NEW mem, NEW q, NEW t, Holds(mem, q, t), NEW p, p = CharFromString(mem, q, Equals)
    PROVE  \/ p = NULL /\ \A j \in 1 .. Len(t) : t[j] # Equals
           \/ \E e : EqualsAt(t, e) /\ p = q + e - 1
<1>1. PICK n \in Nat : n = Len(t)
  BY DEF Holds
<1>2. PICK L \in Nat : L = Len(mem)
  BY DEF Holds
<1>3. t \in Seq(Char) /\ q \in Nat /\ 1 =< q /\ q + n =< L
  BY <1>1, <1>2 DEF Holds
<1> DEFINE Stops(i) == mem[i] \in {Equals, Terminator}
           First(k) == Stops(k) /\ \A j \in q .. k - 1 : ~Stops(j)
<1>4. PICK T : T = {k \in q .. L : Stops(k)}
  OBVIOUS
<1>5. ASSUME NEW i \in q .. q + n
      PROVE  /\ mem[i] = At0(t, i - q + 1)
             /\ mem[i] = Terminator <=> i = q + n
  <2>1. PICK k \in 0 .. n : k = i - q
    BY <1>3
  <2>2. mem[q + k] = At0(t, k + 1) /\ (mem[q + k] = Terminator <=> k = n)
    BY <1>1, HeldByte
  <2>3. q + k = i /\ k + 1 = i - q + 1 /\ (k = n <=> i = q + n)
    BY <1>3, <2>1
  <2> QED  BY <2>2, <2>3
<1>6. q + n \in q .. q + n /\ q + n \in T /\ T \in SUBSET (q .. L)
  BY <1>3, <1>4, <1>5
<1>7. PICK f \in T : \A j \in q .. f - 1 : j \notin T
  <2>1. T # {}
    BY <1>6
  <2> QED  BY <1>3, <1>6, <2>1, FirstStop
<1>8. PICK k : k = CHOOSE i \in q .. L : First(i)
  OBVIOUS
<1>9. k \in q .. L /\ First(k)
  <2>1. f \in q .. L /\ Stops(f)
    BY <1>4
  <2>2. \A j \in q .. f - 1 : j \in q .. L /\ ~Stops(j)
    BY <1>3, <1>4, <1>7, <2>1
  <2> QED  BY <1>8, <2>1, <2>2
<1>10. p = IF mem[k] = Equals THEN k ELSE NULL
  BY <1>2, <1>8 DEF CharFromString, FirstFrom
<1>11. k \in q .. q + n
  <2>1. ~(q + n < k)
    BY <1>3, <1>5, <1>6, <1>9
  <2> QED  BY <1>3, <1>9, <2>1
<1>12. ASSUME NEW j \in 1 .. k - q PROVE t[j] # Equals
  <2>1. q + j - 1 \in q .. k - 1 /\ q + j - 1 \in q .. q + n /\ (q + j - 1) - q + 1 = j
        /\ j # n + 1
    BY <1>3, <1>11
  <2>2. mem[q + j - 1] # Equals
    BY <1>9, <2>1
  <2>3. mem[q + j - 1] = At0(t, j)
    BY <1>5, <2>1
  <2> QED  BY <1>1, <2>1, <2>2, <2>3 DEF At0
<1>13. CASE k = q + n
  <2>1. mem[k] = Terminator
    BY <1>5, <1>11, <1>13
  <2>2. p = NULL
    BY <1>10, <2>1 DEF Equals, Terminator
  <2>3. k - q = n
    BY <1>3, <1>13
  <2> QED  BY <1>1, <1>12, <2>2, <2>3
<1>14. CASE k # q + n
  <2>1. mem[k] = Equals
    BY <1>5, <1>9, <1>11, <1>14
  <2>2. PICK e \in 1 .. n : e = k - q + 1
    BY <1>3, <1>11, <1>14
  <2>3. e # n + 1 /\ e - 1 = k - q /\ q + e - 1 = k
    BY <1>3, <1>11, <2>2
  <2>4. t[e] = Equals
    BY <1>1, <1>5, <1>11, <2>1, <2>2, <2>3 DEF At0
  <2>5. EqualsAt(t, e)
    BY <1>1, <1>12, <2>3, <2>4 DEF EqualsAt
  <2> QED  BY <1>10, <2>1, <2>3, <2>5
<1> QED  BY <1>13, <1>14

\* what the field of an option gets from its token
OptionIn(field, key, token) ==
    LET at == FirstEquals(token)
        found == Equals \in ToSet(token) /\ SubSeq(token, 1, at - 1) = key
        copied == Cut(C(SubSeq(token, at + 1, Len(token))), PointerSize)
    IN  field = IF found THEN copied \o SubSeq(Field, Len(copied) + 1, Len(Field)) ELSE Field

LEMMA FieldIs ==
    /\ Field \in Seq(Byte) /\ Len(Field) = PointerSize + 1
    /\ PointerSize \in Nat
<1>1. PointerSize \in Nat
  BY StringsAssumption
<1>2. Untouched \in Byte
  BY DEF Untouched, Byte
<1>3. Field = [i \in 1 .. PointerSize + 1 |-> Untouched]
  BY DEF Field
<1> QED  BY <1>1, <1>2, <1>3

\* A token that is not about the key leaves the field alone.
LEMMA OptionOfOther ==
    ASSUME NEW key \in Seq(Char), NEW token \in Seq(Char), NEW field, field = Field,
           \/ \A j \in 1 .. Len(token) : token[j] # Equals
           \/ \E e : EqualsAt(token, e) /\ SubSeq(token, 1, e - 1) # key
    PROVE  OptionIn(field, key, token)
<1>1. CASE \A j \in 1 .. Len(token) : token[j] # Equals
  <2>1. Equals \notin ToSet(token)
    BY <1>1 DEF ToSet
  <2> QED  BY <2>1 DEF OptionIn
<1>2. ASSUME NEW e, EqualsAt(token, e), SubSeq(token, 1, e - 1) # key
      PROVE  OptionIn(field, key, token)
  <2>1. FirstEquals(token) = e
    BY <1>2, FirstEqualsIs
  <2> QED  BY <1>2, <2>1 DEF OptionIn
<1> QED  BY <1>1, <1>2

\* the end of s, from place a on
Behind(s, a) == SubSeq(s, a, Len(s))

LEMMA BehindIs ==
    ASSUME NEW B, NEW s \in Seq(B), NEW a \in Nat, 1 =< a, a =< Len(s) + 1
    PROVE  Behind(s, a) \in Seq(B) /\ Slice(Behind(s, a), s, a, Len(s) + 1 - a)
<1>1. PICK m \in Nat : m = Len(s)
  OBVIOUS
<1>2. PICK n \in Nat : n = m + 1 - a /\ a + n =< m + 1 /\ a + n - 1 = m
  BY <1>1
<1>3. PICK u : u = SubSeq(s, a, m)
  OBVIOUS
<1>4. u \in Seq(B) /\ Slice(u, s, a, n)
  BY <1>1, <1>2, <1>3, SliceIs
<1> QED  BY <1>1, <1>2, <1>3, <1>4 DEF Behind

\* the token is the key, '=' and v
HasValue(token, e, key, v) ==
    /\ EqualsAt(token, e)
    /\ SubSeq(token, 1, e - 1) = key /\ SubSeq(token, e + 1, Len(token)) = v

\* c bytes of v and its terminator, as many as a pointer has, if there are,
\* are at the start of the field
GotValue(field, c, v) ==
    /\ c = IF PointerSize < Len(v) + 1 THEN PointerSize ELSE Len(v) + 1
    /\ field \in Seq(Byte) /\ Len(field) = PointerSize + 1
    /\ \A j \in 1 .. c : field[j] = At0(v, j)
    /\ \A j \in c + 1 .. PointerSize + 1 : field[j] = Untouched

\* The value of the key: some bytes are copied, and the others stay.
LEMMA OptionOfKey ==
    ASSUME NEW key, NEW token \in Seq(Char), NEW e, NEW v \in Seq(Char),
           HasValue(token, e, key, v), NEW c \in Nat, NEW field, GotValue(field, c, v)
    PROVE  OptionIn(field, key, token)
<1>1. FirstEquals(token) = e /\ Equals \in ToSet(token)
  BY FirstEqualsIs DEF HasValue
<1>2. PICK z \in Nat : z = PointerSize
  BY FieldIs
<1>3. PICK l \in Nat : l = Len(v)
  OBVIOUS
<1>4. PICK w : w = C(v)
  OBVIOUS
<1>5. w \in Seq(Byte) /\ Len(w) = l + 1 /\ \A j \in 1 .. l + 1 : w[j] = At0(v, j)
  <2>1. /\ w \in Seq(Byte) /\ Len(w) = l + 1
        /\ \A j \in 1 .. l : w[j] = v[j]
        /\ w[l + 1] = 0
    BY <1>3, <1>4, CBytes DEF Terminator
  <2>2. ASSUME NEW j \in 1 .. l + 1 PROVE w[j] = At0(v, j)
    <3>1. CASE j = l + 1
      BY <1>3, <2>1, <3>1 DEF At0
    <3>2. CASE j # l + 1
      <4>1. j \in 1 .. l
        BY <3>2
      <4> QED  BY <1>3, <2>1, <3>2, <4>1 DEF At0
    <3> QED  BY <3>1, <3>2
  <2> QED  BY <2>1, <2>2
<1>6. PICK d : d = Cut(w, z)
  OBVIOUS
<1>7. c = (IF z < l + 1 THEN z ELSE l + 1) /\ c =< l + 1 /\ c =< z
  BY <1>2, <1>3 DEF GotValue
<1>8. d \in Seq(Byte) /\ Len(d) = c /\ \A j \in 1 .. c : d[j] = w[j]
  <2>1. d = SubSeq(w, 1, c)
    BY <1>5, <1>6, <1>7 DEF Cut
  <2> QED  BY <1>5, <1>7, <2>1, PrefixIs
<1>9. PICK o \in Nat : o = z + 1 - c
  <2>1. c =< z
    BY <1>7
  <2> QED  BY <2>1
<1>10. PICK r : r = SubSeq(Field, c + 1, z + 1)
  OBVIOUS
<1>11. r \in Seq(Byte) /\ Len(r) = o /\ \A j \in 1 .. o : r[j] = Untouched
  <2>1. PICK a \in Nat : a = c + 1 /\ 1 =< a /\ a =< z + 2 /\ z + 1 + 1 - a = o
    BY <1>7, <1>9
  <2>2. Field \in Seq(Byte) /\ Len(Field) = z + 1
    BY <1>2, FieldIs
  <2>3. r = Behind(Field, a)
    BY <1>10, <2>1, <2>2 DEF Behind
  <2>4. r \in Seq(Byte) /\ Slice(r, Field, a, o)
    <3>1. /\ Behind(Field, a) \in Seq(Byte)
          /\ Slice(Behind(Field, a), Field, a, Len(Field) + 1 - a)
      BY <2>1, <2>2, BehindIs
    <3> QED  BY <2>1, <2>2, <2>3, <3>1
  <2>5. ASSUME NEW j \in 1 .. o PROVE Field[a + j - 1] = Untouched
    <3>1. a + j - 1 \in 1 .. z + 1
      BY <2>1
    <3> QED  BY <1>2, <3>1 DEF Field
  <2> QED  BY <2>4, <2>5 DEF Slice
<1>12. /\ d \o r \in Seq(Byte)
       /\ Len(d \o r) = Len(d) + Len(r)
       /\ \A j \in 1 .. Len(d) + Len(r) : (d \o r)[j] = IF j <= Len(d) THEN d[j] ELSE r[j - Len(d)]
  BY <1>8, <1>11, ConcatProperties
<1>13. /\ field \in Seq(Byte) /\ Len(field) = z + 1
       /\ \A j \in 1 .. c : field[j] = At0(v, j)
       /\ \A j \in c + 1 .. z + 1 : field[j] = Untouched
  BY <1>2 DEF GotValue
<1>14. ASSUME NEW j \in 1 .. z + 1 PROVE (d \o r)[j] = field[j]
  <2>1. CASE j <= c
    <3>1. j \in 1 .. c /\ j \in 1 .. l + 1 /\ j \in 1 .. c + o
      BY <1>7, <1>9, <2>1
    <3> QED  BY <1>5, <1>8, <1>11, <1>12, <1>13, <2>1, <3>1
  <2>2. CASE ~(j <= c)
    <3>1. j \in c + 1 .. z + 1 /\ j - c \in 1 .. o /\ j \in 1 .. c + o
      BY <1>7, <1>9, <2>2
    <3>2. (d \o r)[j] = r[j - c]
      BY <1>8, <1>11, <1>12, <2>2, <3>1
    <3> QED  BY <1>11, <1>13, <3>1, <3>2
  <2> QED  BY <2>1, <2>2
<1>15. field = d \o r
  <2>1. c + o = z + 1
    BY <1>7, <1>9
  <2>2. Len(d \o r) = z + 1
    BY <1>8, <1>11, <1>12, <2>1
  <2>3. field \in Seq(Byte) /\ Len(field) = z + 1
    BY <1>13
  <2>4. d \o r \in Seq(Byte)
    BY <1>12
  <2> QED  BY <1>13, <1>14, <2>2, <2>3, <2>4, SeqEqual
<1>16. Len(Field) = z + 1
  BY <1>2, FieldIs
<1> QED  BY <1>1, <1>2, <1>4, <1>6, <1>8, <1>10, <1>15, <1>16 DEF OptionIn, HasValue

\* The option's value reaches the field of its key (cmdline.c:8-15).
LEMMA GetOptionSets ==
    ASSUME NEW key \in Seq(Char), NEW token \in Seq(Char), NEW F, F = Len(key) + Len(token) + 3,
           NEW r, r = CmdLine_GetOption(C(key) \o C(token) \o Field, 1, F, Len(key) + 2)
    PROVE  OptionIn(Behind(r, F), key, token)
<1>1. PICK m \in Nat : m = Len(key)
  OBVIOUS
<1>2. PICK n \in Nat : n = Len(token)
  OBVIOUS
<1>3. PICK z \in Nat : z = PointerSize
  BY FieldIs
<1>4. Field \in Seq(Byte) /\ Len(Field) = z + 1
  BY <1>3, FieldIs
<1>5. PICK mem : mem = C(key) \o C(token) \o Field
  OBVIOUS
<1>6. TwoHeld(mem, key, token, Field)
  BY <1>4, <1>5, TwoStrings
<1>7. PICK L \in Nat : L = m + n + 2 + (z + 1)
  OBVIOUS
<1>8. /\ mem \in Seq(Byte) /\ Len(mem) = L
      /\ Holds(mem, 1, key) /\ Holds(mem, m + 2, token)
      /\ \A j \in 1 .. z + 1 : mem[m + n + 2 + j] = Untouched
  BY <1>1, <1>2, <1>3, <1>4, <1>6, <1>7 DEF TwoHeld, Field
<1>9. F = m + n + 3 /\ F \in Nat /\ 1 =< F /\ F + (z + 1) = L + 1
  BY <1>1, <1>2, <1>7
<1>10. \A j \in 1 .. z + 1 : F + j - 1 = m + n + 2 + j /\ F + j - 1 \in 1 .. L
  BY <1>7, <1>9
\* the field is the end of the memory
<1>11. ASSUME NEW s \in Seq(Byte), Len(s) = L, NEW field, field = Behind(s, F)
       PROVE  /\ field \in Seq(Byte) /\ Len(field) = z + 1
              /\ \A j \in 1 .. z + 1 : field[j] = s[F + j - 1]
  <2>1. F =< L + 1 /\ L + 1 - F = z + 1
    BY <1>9
  <2>2. field \in Seq(Byte) /\ Slice(field, s, F, L + 1 - F)
    BY <1>9, <1>11, <2>1, BehindIs
  <2> QED  BY <2>1, <2>2 DEF Slice
<1>12. PICK field : field = Behind(r, F)
  OBVIOUS
<1>13. ASSUME r \in Seq(Byte), Len(r) = L, \A j \in 1 .. z + 1 : r[F + j - 1] = Untouched
       PROVE  field = Field
  <2>1. /\ field \in Seq(Byte) /\ Len(field) = z + 1
        /\ \A j \in 1 .. z + 1 : field[j] = r[F + j - 1]
    BY <1>11, <1>12, <1>13
  <2>2. \A j \in 1 .. z + 1 : field[j] = Field[j]
    BY <1>3, <1>13, <2>1 DEF Field
  <2> QED  BY <1>4, <2>1, <2>2, SeqEqual
<1>14. PICK p : p = CharFromString(mem, m + 2, Equals)
  OBVIOUS
<1>15. \/ p = NULL /\ \A j \in 1 .. Len(token) : token[j] # Equals
       \/ \E e : EqualsAt(token, e) /\ p = m + 2 + e - 1
  BY <1>8, <1>14, EqualsFound
<1>16. PICK cut : cut = [mem EXCEPT ![p] = Terminator]
  OBVIOUS
<1>17. r = IF p = NULL THEN mem
           ELSE IF CompareStrings(cut, 1, m + 2) = 0
                  THEN CopyStringN(cut, F, p + 1, PointerSize)
                  ELSE cut
  BY <1>1, <1>5, <1>14, <1>16 DEF CmdLine_GetOption
<1>18. CASE p = NULL
  <2>1. \A j \in 1 .. Len(token) : token[j] # Equals
    <3>1. ASSUME NEW e, EqualsAt(token, e), p = m + 2 + e - 1 PROVE FALSE
      <4>1. e \in 1 .. n
        BY <1>2, <3>1 DEF EqualsAt
      <4> QED  BY <1>18, <3>1, <4>1 DEF NULL
    <3> QED  BY <1>15, <3>1
  <2>2. r = mem
    BY <1>17, <1>18
  <2>3. field = Field
    BY <1>8, <1>10, <1>13, <2>2
  <2>4. OptionIn(field, key, token)
    BY <2>1, <2>3, OptionOfOther
  <2> QED  BY <1>12, <2>4
<1>19. CASE p # NULL
  <2>1. PICK e : EqualsAt(token, e) /\ p = m + 2 + e - 1
    BY <1>15, <1>19
  <2>2. e \in 1 .. n
    BY <1>2, <2>1 DEF EqualsAt
  <2>3. PICK i \in Nat : i = e - 1 /\ i =< n /\ p = m + 2 + i
    BY <2>1, <2>2
  <2>4. p \in 1 .. L /\ p \in Nat /\ 0 \in Byte
    BY <1>7, <2>2, <2>3 DEF Byte
  <2>5. /\ cut \in Seq(Byte) /\ Len(cut) = L /\ cut[p] = 0
        /\ \A j \in 1 .. L : j # p => cut[j] = mem[j]
    <3>1. cut = [mem EXCEPT ![p] = 0]
      BY <1>16 DEF Terminator
    <3> QED  BY <1>8, <2>4, <3>1
  <2>6. Holds(cut, 1, key)
    <3>1. ASSUME NEW k \in 1 .. 1 + Len(key) PROVE cut[k] = mem[k]
      <4>1. k \in 1 .. L /\ k # p
        BY <1>1, <1>7, <2>3
      <4> QED  BY <2>5, <4>1
    <3> QED  BY <1>8, <2>5, <3>1, SameHeld
  <2>7. PICK u : u = SubSeq(token, 1, i)
    OBVIOUS
  <2>8. u \in Seq(Char) /\ Len(u) = i /\ \A j \in 1 .. i : u[j] = token[j]
    BY <1>2, <2>3, <2>7, PrefixIs
  <2>9. Holds(cut, m + 2, u)
    <3>1. ASSUME NEW j \in 1 .. i PROVE cut[m + 2 + j - 1] = u[j]
      <4>1. m + 2 + j - 1 \in 1 .. L /\ m + 2 + j - 1 # p /\ j \in 1 .. n
        BY <1>7, <2>3
      <4>2. mem[m + 2 + j - 1] = token[j]
        BY <1>2, <1>8, <4>1 DEF Holds
      <4> QED  BY <2>5, <2>8, <4>1, <4>2
    <3>2. m + 2 + i =< L /\ m + 2 \in Nat /\ 1 =< m + 2
      BY <1>7, <2>3
    <3> QED  BY <2>3, <2>5, <2>8, <3>1, <3>2 DEF Holds, Terminator
  <2>10. CompareStrings(cut, 1, m + 2) = 0 <=> key = u
    BY <2>6, <2>9, CompareStringsIs
  <2>11. ASSUME NEW j \in 1 .. z + 1 PROVE cut[F + j - 1] = Untouched
    <3>1. PICK k \in 1 .. L : k = F + j - 1 /\ k = m + n + 2 + j
      BY <1>10
    <3>2. k # p
      BY <2>3, <3>1
    <3>3. cut[k] = mem[k]
      BY <2>5, <3>2
    <3>4. mem[k] = Untouched
      BY <1>8, <3>1
    <3> QED  BY <3>1, <3>3, <3>4
  <2>12. CASE key # u
    <3>1. r = cut
      BY <1>17, <1>19, <2>10, <2>12
    <3>2. field = Field
      BY <1>13, <2>5, <2>11, <3>1
    <3>3. OptionIn(field, key, token)
      BY <2>1, <2>3, <2>7, <2>12, <3>2, OptionOfOther
    <3> QED  BY <1>12, <3>3
  <2>13. CASE key = u
    <3>1. PICK v : v = SubSeq(token, e + 1, n)
      OBVIOUS
    <3>2. PICK a \in Nat : a = e + 1 /\ a \in 1 .. n + 1 /\ m + 2 + a - 1 = p + 1
      BY <2>2, <2>3
    <3>3. Holds(mem, m + 2 + a - 1, v) /\ v \in Seq(Char) /\ Slice(v, token, a, n + 1 - a)
      BY <1>2, <1>8, <3>1, <3>2, RestHeld
    <3>4. PICK l \in Nat : l = Len(v)
      BY <3>3
    <3>5. l = n - e
      <4>1. Len(v) = n + 1 - a
        BY <3>3 DEF Slice
      <4> QED  BY <2>2, <3>2, <3>4, <4>1
    <3>6. Holds(mem, p + 1, v)
      BY <3>2, <3>3
    <3>7. Holds(cut, p + 1, v)
      <4>1. ASSUME NEW k \in p + 1 .. p + 1 + Len(v) PROVE cut[k] = mem[k]
        <5>1. k \in 1 .. L /\ k # p
          BY <1>7, <2>2, <2>3, <3>4, <3>5
        <5> QED  BY <2>5, <5>1
      <4> QED  BY <1>8, <2>5, <3>6, <4>1, SameHeld
    <3>8. StringLength(cut, p + 1) = l
      BY <3>4, <3>7, StringLengthIs
    <3>9. PICK c \in Nat : c = (IF z > l THEN l + 1 ELSE z)
      OBVIOUS
    <3>10. c =< l + 1 /\ c =< z /\ c = IF z < l + 1 THEN z ELSE l + 1
      BY <3>9
    <3>11. r = Copy(cut, F, p + 1, Up(c))
      <4>1. CopyStringN(cut, F, p + 1, z) = Copy(cut, F, p + 1, Up(c))
        BY <3>8, <3>9 DEF CopyStringN
      <4> QED  BY <1>3, <1>17, <1>19, <2>10, <2>13, <4>1
    <3>12. r = Moved(cut, F, p + 1, 0, c)
      <4>1. PICK q \in Nat : q = p + 1
        BY <2>4
      <4>2. 1 =< q /\ q + c =< L + 1 /\ F + c =< L + 1 /\ q + c =< F
        BY <1>7, <1>9, <2>2, <2>3, <3>5, <3>10, <4>1
      <4>3. Copy(cut, F, q, Up(c)) = Moved(cut, F, q, 0, c)
        BY <1>9, <2>5, <4>2, CopyUp
      <4> QED  BY <3>11, <4>1, <4>3
    <3>13. r = [j \in 1 .. L |-> IF j \in F + 0 .. F + c - 1 THEN cut[j - F + (p + 1)] ELSE cut[j]]
      BY <2>5, <3>12 DEF Moved
    <3>14. ASSUME NEW j \in 1 .. L
           PROVE  (IF j \in F + 0 .. F + c - 1 THEN cut[j - F + (p + 1)] ELSE cut[j]) \in Byte
      <4>1. CASE j \in F + 0 .. F + c - 1
        <5>1. j - F + (p + 1) \in 1 .. L
          BY <1>7, <1>9, <2>2, <2>3, <3>5, <3>10, <4>1
        <5> QED  BY <2>5, <4>1, <5>1, ElementOfSeq
      <4>2. CASE ~(j \in F + 0 .. F + c - 1)
        BY <2>5, <4>2, ElementOfSeq
      <4> QED  BY <4>1, <4>2
    <3>15. r \in Seq(Byte) /\ Len(r) = L
      <4>1. r \in [1 .. L -> Byte]
        BY <3>13, <3>14
      <4> QED  BY <4>1
    <3>16. /\ field \in Seq(Byte) /\ Len(field) = z + 1
           /\ \A j \in 1 .. z + 1 : field[j] = r[F + j - 1]
      BY <1>11, <1>12, <3>15
    <3>17. ASSUME NEW j \in 1 .. c PROVE field[j] = At0(v, j)
      <4>1. j \in 1 .. z + 1 /\ F + j - 1 \in F + 0 .. F + c - 1 /\ F + j - 1 \in 1 .. L
        BY <1>7, <1>9, <3>10
      <4>2. PICK k \in 0 .. l : k = j - 1
        BY <3>10
      <4>3. (F + j - 1) - F + (p + 1) = p + 1 + k /\ k + 1 = j
        BY <1>9, <2>4, <4>2
      <4>4. cut[p + 1 + k] = At0(v, k + 1)
        BY <3>4, <3>7, HeldByte
      <4>5. r[F + j - 1] = cut[p + 1 + k]
        BY <3>13, <4>1, <4>3
      <4> QED  BY <3>16, <4>1, <4>3, <4>4, <4>5
    <3>18. ASSUME NEW j \in c + 1 .. z + 1 PROVE field[j] = Untouched
      <4>1. /\ j \in 1 .. z + 1 /\ ~(F + j - 1 \in F + 0 .. F + c - 1)
            /\ F + j - 1 \in 1 .. L
        BY <1>7, <1>9, <3>10
      <4> QED  BY <2>11, <3>13, <3>16, <4>1
    <3>19. HasValue(token, e, key, v)
      BY <1>2, <2>1, <2>3, <2>7, <2>13, <3>1 DEF HasValue
    <3>20. v \in Seq(Char)
      BY <3>3
    <3>21. GotValue(field, c, v)
      BY <1>3, <3>4, <3>10, <3>16, <3>17, <3>18 DEF GotValue
    <3>22. OptionIn(field, key, token)
      BY <3>19, <3>20, <3>21, OptionOfKey
    <3> QED  BY <1>12, <3>22
  <2> QED  BY <2>12, <2>13
<1> QED  BY <1>18, <1>19

-----------------------------------------------------------------------------
(***************************************************************************)
(* Each call returns what its function computes                            *)
(***************************************************************************)

Answered ==
    \/ call.of = "Pci_Scan" /\ result.value = Pci_Scan(call.space, call.type)
    \/ /\ call.of = "Pci_Exists"
       /\ result.value = Pci_Exists(call.space, call.vendor, call.device)
    \/ /\ call.of = "TokenizeString"
       /\ result.value = Tokens(call.text \o <<NUL>> \o call.after)
    \/ call.of = "sterm_put_string" /\ result.value = Glyphs(call.screen, call.text)
    \/ /\ call.of = "memmove"
       /\ result.value = memmove(Memory, call.dest, call.src, call.n)
    \/ /\ call.of = "StringRemove"
       /\ result.value = StringRemove(C(call.str) \o C(call.sub), 1, Len(call.str) + 2)
    \/ /\ call.of = "CompareStringsN"
       /\ result.value = CompareStringsN(C(call.a) \o C(call.b), 1, Len(call.a) + 2, call.n)
    \/ /\ call.of = "CmdLine_GetOption"
       /\ result.value =
             CmdLine_GetOption(C(call.key) \o C(call.token) \o Field, KeyAt, FieldAt, TokenAt)

\* a call is one of the inputs, and its result none yet or the function's
CallInv == Called /\ (result = Pending \/ Answered)

\* A call keeps its arguments, and gets what its function computes.
LEMMA CallsReturn == Spec => []CallInv
<1>1. Init => CallInv
  BY DEF Init, CallInv
<1>2. CallInv /\ [Next]_vars => CallInv'
  <2> SUFFICES ASSUME CallInv, [Next]_vars PROVE CallInv'
    OBVIOUS
  <2>1. ASSUME NEW name, NEW value, Returns(name, value)
        PROVE  call' = call /\ call.of = name /\ result'.value = value
    BY <2>1 DEF Returns
  <2>2. ASSUME call' = call PROVE Called'
    BY <2>2 DEF CallInv, Called
  <2>3. CASE Scan
    BY <2>1, <2>2, <2>3 DEF Scan, CallInv, Answered
  <2>4. CASE Exists
    BY <2>1, <2>2, <2>4 DEF Exists, CallInv, Answered
  <2>5. CASE Tokenize
    BY <2>1, <2>2, <2>5 DEF Tokenize, CallInv, Answered
  <2>6. CASE PrintText
    BY <2>1, <2>2, <2>6 DEF PrintText, CallInv, Answered
  <2>7. CASE Move
    BY <2>1, <2>2, <2>7 DEF Move, CallInv, Answered
  <2>8. CASE RemoveText
    BY <2>1, <2>2, <2>8 DEF RemoveText, CallInv, Answered
  <2>9. CASE Compare
    BY <2>1, <2>2, <2>9 DEF Compare, CallInv, Answered
  <2>10. CASE GetOption
    BY <2>1, <2>2, <2>10 DEF GetOption, CallInv, Answered, KeyAt, FieldAt, TokenAt
  <2>11. CASE UNCHANGED vars
    BY <2>11 DEF vars, CallInv, Called, Answered, KeyAt, FieldAt, TokenAt
  <2> QED  BY <2>3, <2>4, <2>5, <2>6, <2>7, <2>8, <2>9, <2>10, <2>11 DEF Next
<1> QED  BY <1>1, <1>2, PTL DEF Spec

\* What a function returned is not pending.
LEMMA ReturnedAnswers ==
    ASSUME CallInv, NEW name, Returned(name)
    PROVE  call.of = name /\ Called /\ Answered
<1>1. call.of = name /\ result.done
  BY DEF Returned
<1>2. result # Pending
  BY <1>1 DEF Pending
<1> QED  BY <1>1, <1>2 DEF CallInv

(***************************************************************************)
(* Glyphs are drawn inside the screen, and at places of their own until it *)
(* is full (sterm.c:123-171).                                              *)
(***************************************************************************)
THEOREM GlyphsAlwaysApart == Spec => []GlyphsApart
<1>1. CallInv => GlyphsApart
  <2> SUFFICES ASSUME CallInv, Returned("sterm_put_string") PROVE GlyphsApart
    BY DEF GlyphsApart
  <2>1. call.of = "sterm_put_string" /\ Called /\ Answered
    BY ReturnedAnswers
  <2>2. call.screen \in Screens /\ call.text \in Outputs
    BY <2>1 DEF Called, Moves
  <2>3. result.value = Glyphs(call.screen, call.text)
    BY <2>1 DEF Answered
  <2>4. call.screen \in Screen /\ call.text \in Seq(Character)
    BY <2>2, LibraryAssumption DEF Screen, Character
  <2>5. /\ GlyphsInside(call.screen, Glyphs(call.screen, call.text))
        /\ "tab" \notin ToSet(call.text)
              => Cardinality({g.corner : g \in Glyphs(call.screen, call.text)})
                    = Cardinality(Glyphs(call.screen, call.text))
    BY <2>4, PrintedGlyphs
  <2> QED  BY <2>3, <2>5 DEF GlyphsApart, GlyphsInside
<1> QED  BY <1>1, CallsReturn, PTL

LEMMA WordsAreChars ==
    Words1 \subseteq Seq(Char) /\ Words2 \subseteq Seq(Char) /\ Options \subseteq Seq(Char)
BY LibraryAssumption DEF Char

\* What memmove computes.
LEMMA MoveSpecified ==
    ASSUME NEW dest, NEW src, NEW n,
           [of |-> "memmove", dest |-> dest, src |-> src, n |-> n] \in Moves
    PROVE  memmove(Memory, dest, src, n)
              = [i \in DOMAIN Memory |->
                    IF i \in dest .. dest + n - 1 THEN Memory[i - dest + src] ELSE Memory[i]]
<1>1. PICK L \in Nat : L = MemorySize
  BY LibraryAssumption
<1>2. Memory = [i \in 1 .. L |-> i]
  BY <1>1 DEF Memory
<1>3. Memory \in Seq(Nat) /\ Len(Memory) = L /\ DOMAIN Memory = 1 .. L
  BY <1>2
<1>4. /\ dest \in 1 .. L /\ src \in 1 .. L /\ n \in 0 .. L
      /\ dest + n =< L + 1 /\ src + n =< L + 1
  BY <1>1 DEF Moves
<1>5. dest \in Nat /\ src \in Nat /\ n \in Nat /\ 1 =< src /\ 1 =< dest
  BY <1>4
<1>6. memmove(Memory, dest, src, n) = Moved(Memory, dest, src, 0, n)
  BY <1>3, <1>4, <1>5, memmoveMoves
<1>7. dest + 0 = dest
  BY <1>5
<1> QED  BY <1>3, <1>6, <1>7 DEF Moved

\* What the comparison computes.
LEMMA CompareSpecified ==
    ASSUME NEW a \in Seq(Char), NEW b \in Seq(Char), NEW n \in Nat, NEW r,
           r = CompareStringsN(C(a) \o C(b), 1, Len(a) + 2, n)
    PROVE  /\ r = 0 <=> Cut(a, n) = Cut(b, n)
           /\ r < 0 <=> Before(Cut(a, n), Cut(b, n))
<1>1. PICK mem : mem = C(a) \o C(b)
  OBVIOUS
<1>2. C(a) \in Seq(Byte) /\ C(b) \in Seq(Byte)
  BY CBytes
<1>3. C(a) \o C(b) \in Seq(Byte)
  BY <1>2, ConcatProperties
<1>4. mem = C(a) \o C(b) \o <<>>
  BY <1>1, <1>3, ConcatEmptySeq
<1>5. PICK e \in Seq(Byte) : e = <<>> /\ Len(e) = 0
  BY EmptySeq
<1>6. mem = C(a) \o C(b) \o e
  BY <1>4, <1>5
<1>7. TwoHeld(mem, a, b, e)
  BY <1>6, TwoStrings
<1>8. Holds(mem, 1, a) /\ Holds(mem, Len(a) + 2, b)
  BY <1>7 DEF TwoHeld
<1>9. PICK i : Decided(r, a, b, n, i)
  BY <1>1, <1>8, CompareDecided
<1> QED  BY <1>9, DecidedRight

(***************************************************************************)
(* Moving, removing, comparing and options do what they should, for every  *)
(* size of memory and every string without a NUL (memory.c:28-43,          *)
(* StringRemove.c, CompareStringsN.c, cmdline.c:8-15).                     *)
(***************************************************************************)
THEOREM StringsAlwaysAsSpecified == Spec => []StringsAsSpecified
<1>1. CallInv => StringsAsSpecified
  <2> SUFFICES ASSUME CallInv PROVE StringsAsSpecified
    OBVIOUS
  <2>1. Returned("memmove") =>
          result.value = [i \in DOMAIN Memory |->
                             IF i \in call.dest .. call.dest + call.n - 1
                               THEN Memory[i - call.dest + call.src] ELSE Memory[i]]
    <3> SUFFICES ASSUME Returned("memmove")
                 PROVE  result.value = [i \in DOMAIN Memory |->
                             IF i \in call.dest .. call.dest + call.n - 1
                               THEN Memory[i - call.dest + call.src] ELSE Memory[i]]
      OBVIOUS
    <3>1. call.of = "memmove" /\ Called /\ Answered
      BY ReturnedAnswers
    <3>2. call \in Moves
      BY <3>1 DEF Called
    <3>3. call = [of |-> "memmove", dest |-> call.dest, src |-> call.src, n |-> call.n]
      BY <3>2 DEF Moves
    <3>4. result.value = memmove(Memory, call.dest, call.src, call.n)
      BY <3>1 DEF Answered
    <3> QED  BY <3>2, <3>3, <3>4, MoveSpecified
  <2>2. Returned("StringRemove") =>
          LET left == C(Without(call.str, call.sub)) IN
          /\ IsPrefix(left, result.value)
          /\ IsSuffix(C(call.sub), result.value)
    <3> SUFFICES ASSUME Returned("StringRemove") PROVE Removed(result.value, call.str, call.sub)
      BY DEF Removed
    <3>1. call.of = "StringRemove" /\ Called /\ Answered
      BY ReturnedAnswers
    <3>2. call.str \in Words1 /\ call.sub \in Words2
      BY <3>1 DEF Called, Moves
    <3>3. result.value = StringRemove(C(call.str) \o C(call.sub), 1, Len(call.str) + 2)
      BY <3>1 DEF Answered
    <3>4. call.str \in Seq(Char) /\ call.sub \in Seq(Char)
      BY <3>2, WordsAreChars
    <3> QED  BY <3>3, <3>4, StringRemoveRemoves
  <2>3. Returned("CompareStringsN") =>
          LET a == Cut(call.a, call.n)
              b == Cut(call.b, call.n)
          IN  (result.value = 0 <=> a = b) /\ (result.value < 0 <=> Before(a, b))
    <3> SUFFICES ASSUME Returned("CompareStringsN")
                 PROVE  /\ result.value = 0 <=> Cut(call.a, call.n) = Cut(call.b, call.n)
                        /\ result.value < 0 <=> Before(Cut(call.a, call.n), Cut(call.b, call.n))
      OBVIOUS
    <3>1. call.of = "CompareStringsN" /\ Called /\ Answered
      BY ReturnedAnswers
    <3>2. call.a \in Words2 /\ call.b \in Words2 /\ call.n \in 0 .. MemorySize
      BY <3>1 DEF Called, Moves
    <3>3. result.value = CompareStringsN(C(call.a) \o C(call.b), 1, Len(call.a) + 2, call.n)
      BY <3>1 DEF Answered
    <3>4. call.a \in Seq(Char) /\ call.b \in Seq(Char)
      BY <3>2, WordsAreChars
    <3>5. call.n \in Nat
      BY <3>2, LibraryAssumption
    <3> QED  BY <3>3, <3>4, <3>5, CompareSpecified
  <2>4. Returned("CmdLine_GetOption") =>
          OptionIn(SubSeq(result.value, FieldAt, Len(result.value)), call.key, call.token)
    <3> SUFFICES ASSUME Returned("CmdLine_GetOption")
                 PROVE  OptionIn(Behind(result.value, FieldAt), call.key, call.token)
      BY DEF Behind
    <3>1. call.of = "CmdLine_GetOption" /\ Called /\ Answered
      BY ReturnedAnswers
    <3>2. call.key \in Words2 /\ call.token \in Options
      BY <3>1 DEF Called, Moves
    <3>3. result.value =
             CmdLine_GetOption(C(call.key) \o C(call.token) \o Field, KeyAt, FieldAt, TokenAt)
      BY <3>1 DEF Answered
    <3>4. call.key \in Seq(Char) /\ call.token \in Seq(Char)
      BY <3>2, WordsAreChars
    <3>5. /\ KeyAt = 1 /\ TokenAt = Len(call.key) + 2
          /\ FieldAt = Len(call.key) + Len(call.token) + 3
      <4>1. PICK m \in Nat : m = Len(call.key)
        BY <3>4
      <4>2. PICK n \in Nat : n = Len(call.token)
        BY <3>4
      <4>3. KeyAt = 1 /\ TokenAt = m + 2
        BY <4>1 DEF KeyAt, TokenAt
      <4>4. FieldAt = m + 2 + n + 1
        BY <4>2, <4>3 DEF FieldAt
      <4>5. m + 2 + n + 1 = m + n + 3
        OBVIOUS
      <4> QED  BY <4>1, <4>2, <4>3, <4>4, <4>5
    <3> QED  BY <3>3, <3>4, <3>5, GetOptionSets
  <2> QED  BY <2>1, <2>2, <2>3, <2>4 DEF StringsAsSpecified, OptionIn
<1> QED  BY <1>1, CallsReturn, PTL

-----------------------------------------------------------------------------
(***************************************************************************)
(* Tokens                                                                  *)
(***************************************************************************)

Letter == STRING \cup {NUL}

\* memory of N characters, in which a caller comes to a halt
Memories(N) == {m \in Seq(Letter) : Len(m) = N /\ m[N] = NUL /\ m[N - 1] = NUL}

\* what the calls pass on
States(N) == [word : Seq(Letter), last : 1 .. N, mem : Memories(N)]

\* from is the first character from last on that is no delimiter
Skips(mem, last, N, from) ==
    /\ from \in last .. N /\ mem[from] # Delimiter
    /\ \A k \in last .. from - 1 : mem[k] = Delimiter

\* and to the first behind the word
Ends(mem, from, N, to) ==
    /\ to \in from .. N /\ mem[to] \in {NUL, Delimiter}
    /\ \A k \in from .. to - 1 : mem[k] \notin {NUL, Delimiter}

\* the result of a call, by these two places
NoWord(r, mem, from) == mem[from] = NUL /\ r = [word |-> <<>>, last |-> from, mem |-> mem]
Word(r, mem, from, to) ==
    /\ mem[from] # NUL /\ to > from
    /\ r = [word |-> SubSeq(mem, from, to - 1), last |-> to + 1, mem |-> [mem EXCEPT ![to] = NUL]]

Call(r, mem, last, N) ==
    \E from, to : /\ Skips(mem, last, N, from) /\ Ends(mem, from, N, to)
                  /\ NoWord(r, mem, from) \/ Word(r, mem, from, to)

LEMMA MemoriesAre ==
    ASSUME NEW N \in Nat, 2 =< N, NEW mem \in Memories(N)
    PROVE  /\ mem \in Seq(Letter) /\ Len(mem) = N /\ mem[N] = NUL /\ mem[N - 1] = NUL
           /\ \A k \in 1 .. N : mem[k] \in Letter
BY ElementOfSeq DEF Memories

\* A call finds its word, or the end (TokenizeString.c:35-51).
LEMMA TokenizeCalls ==
    ASSUME NEW N \in Nat, 2 =< N, NEW mem \in Memories(N), NEW last \in 1 .. N
    PROVE  Call(TokenizeString(mem, last), mem, last, N)
<1>1. mem \in Seq(Letter) /\ Len(mem) = N /\ mem[N] = NUL
  BY MemoriesAre
<1>2. NUL # Delimiter
  BY DEF NUL, Delimiter
<1>3. PICK T : T = {k \in last .. N : mem[k] # Delimiter}
  OBVIOUS
<1>4. N \in T /\ T \in SUBSET (last .. N)
  BY <1>1, <1>2, <1>3
<1>5. PICK f \in T : \A j \in last .. f - 1 : j \notin T
  <2>1. T # {} /\ last \in Nat
    BY <1>4
  <2> QED  BY <1>4, <2>1, FirstStop
<1> DEFINE First(k) == mem[k] # Delimiter /\ \A j \in last .. k - 1 : mem[j] = Delimiter
<1>6. PICK from : from = CHOOSE k \in last .. N : First(k)
  OBVIOUS
<1>7. from \in last .. N /\ First(from)
  <2>1. f \in last .. N /\ mem[f] # Delimiter
    BY <1>3
  <2>2. \A j \in last .. f - 1 : j \in last .. N /\ mem[j] = Delimiter
    BY <1>3, <1>5, <2>1
  <2> QED  BY <1>6, <2>1, <2>2
<1>8. from = SkipDelimiters(mem, last)
  BY <1>1, <1>6 DEF SkipDelimiters
<1>9. Skips(mem, last, N, from)
  BY <1>7 DEF Skips
<1>10. PICK V : V = {k \in from .. N : mem[k] \in {NUL, Delimiter}}
  OBVIOUS
<1>11. N \in V /\ V \in SUBSET (from .. N)
  BY <1>1, <1>7, <1>10
<1>12. PICK g \in V : \A j \in from .. g - 1 : j \notin V
  <2>1. V # {} /\ from \in Nat
    BY <1>7, <1>11
  <2> QED  BY <1>11, <2>1, FirstStop
<1> DEFINE End(k) == /\ mem[k] \in {NUL, Delimiter}
                     /\ \A j \in from .. k - 1 : mem[j] \notin {NUL, Delimiter}
<1>13. PICK to : to = CHOOSE k \in from .. N : End(k)
  OBVIOUS
<1>14. to \in from .. N /\ End(to)
  <2>1. g \in from .. N /\ mem[g] \in {NUL, Delimiter}
    BY <1>10
  <2>2. \A j \in from .. g - 1 : j \in from .. N /\ mem[j] \notin {NUL, Delimiter}
    BY <1>7, <1>10, <1>12, <2>1
  <2> QED  BY <1>13, <2>1, <2>2
<1>15. to = SkipWord(mem, from)
  BY <1>1, <1>13 DEF SkipWord
<1>16. Ends(mem, from, N, to)
  BY <1>14 DEF Ends
<1>17. PICK r : r = TokenizeString(mem, last)
  OBVIOUS
<1>18. r = IF mem[from] = NUL THEN [word |-> <<>>, last |-> from, mem |-> mem]
           ELSE [word |-> SubSeq(mem, from, to - 1), last |-> to + 1,
                 mem |-> [mem EXCEPT ![to] = NUL]]
  BY <1>8, <1>15, <1>17 DEF TokenizeString
<1>19. CASE mem[from] = NUL
  <2>1. NoWord(r, mem, from)
    BY <1>18, <1>19 DEF NoWord
  <2> QED  BY <1>9, <1>16, <1>17, <2>1 DEF Call
<1>20. CASE mem[from] # NUL
  <2>1. from # to
    BY <1>7, <1>14, <1>20
  <2>2. to > from
    BY <1>7, <1>14, <2>1
  <2>3. Word(r, mem, from, to)
    BY <1>18, <1>20, <2>2 DEF Word
  <2> QED  BY <1>9, <1>16, <1>17, <2>3 DEF Call
<1> QED  BY <1>19, <1>20

\* what a word leaves
Inside(r, mem, last, N, from, to) ==
    /\ from \in last .. N /\ to \in from + 1 .. N - 1
    /\ r.word \in Seq(Letter) /\ Slice(r.word, mem, from, to - from)
    /\ r.last = to + 1 /\ r.mem = [mem EXCEPT ![to] = NUL]
    /\ r.mem \in Memories(N) /\ r \in States(N)

\* A word lies before the two NULs.
LEMMA WordInside ==
    ASSUME NEW N \in Nat, 2 =< N, NEW mem \in Memories(N), NEW last \in 1 .. N, NEW r, NEW from,
           NEW to, Skips(mem, last, N, from), Ends(mem, from, N, to), Word(r, mem, from, to)
    PROVE  Inside(r, mem, last, N, from, to)
<1>1. mem \in Seq(Letter) /\ Len(mem) = N /\ mem[N] = NUL /\ mem[N - 1] = NUL
  BY MemoriesAre
<1>2. from \in last .. N /\ mem[from] # NUL /\ to > from
  BY DEF Skips, Word
<1>3. to \in from .. N /\ \A k \in from .. to - 1 : mem[k] # NUL
  BY DEF Ends
<1>4. to # N
  <2> SUFFICES ASSUME to = N PROVE FALSE
    OBVIOUS
  <2>1. N - 1 \in from .. to - 1
    BY <1>2
  <2> QED  BY <1>1, <1>3, <2>1
<1>5. to \in from + 1 .. N - 1
  BY <1>2, <1>3, <1>4
<1>6. /\ r.word = SubSeq(mem, from, to - 1) /\ r.last = to + 1
      /\ r.mem = [mem EXCEPT ![to] = NUL]
      /\ r = [word |-> r.word, last |-> r.last, mem |-> r.mem]
  BY DEF Word
<1>7. PICK l \in Nat : l = to - from /\ from + l =< N + 1 /\ from + l - 1 = to - 1
  BY <1>2, <1>5
<1>8. from \in Nat /\ 1 =< from
  BY <1>2
<1>9. PICK w : w = SubSeq(mem, from, from + l - 1)
  OBVIOUS
<1>10. w \in Seq(Letter) /\ Slice(w, mem, from, l)
  BY <1>1, <1>7, <1>8, <1>9, SliceIs
<1>11. r.word = w
  BY <1>6, <1>7, <1>9
<1>12. r.mem \in Memories(N)
  <2>1. NUL \in Letter
    BY DEF Letter
  <2>2. PICK new : new = [mem EXCEPT ![to] = NUL]
    OBVIOUS
  <2>3. new \in Seq(Letter) /\ Len(new) = N
    <3>1. mem \in [1 .. N -> Letter] /\ to \in 1 .. N
      BY <1>1, <1>2, <1>5
    <3>2. new \in [1 .. N -> Letter]
      BY <2>1, <2>2, <3>1
    <3> QED  BY <3>2
  <2>4. N \in 1 .. N /\ N - 1 \in 1 .. N
    OBVIOUS
  <2>5. new[N] = NUL /\ new[N - 1] = NUL
    BY <1>1, <1>5, <2>2, <2>4
  <2> QED  BY <1>6, <2>2, <2>3, <2>5 DEF Memories
<1>13. r.last \in 1 .. N
  BY <1>2, <1>5, <1>6
<1>14. r \in States(N)
  BY <1>6, <1>10, <1>11, <1>12, <1>13 DEF States
<1> QED  BY <1>2, <1>5, <1>6, <1>7, <1>10, <1>11, <1>12, <1>14 DEF Inside

\* What a call leaves is something that calls pass on.
LEMMA CallStays ==
    ASSUME NEW N \in Nat, 2 =< N, NEW mem \in Memories(N), NEW last \in 1 .. N
    PROVE  TokenizeString(mem, last) \in States(N)
<1>1. PICK r : r = TokenizeString(mem, last)
  OBVIOUS
<1>2. PICK from, to : /\ Skips(mem, last, N, from) /\ Ends(mem, from, N, to)
                      /\ NoWord(r, mem, from) \/ Word(r, mem, from, to)
  BY <1>1, TokenizeCalls DEF Call
<1>3. CASE NoWord(r, mem, from)
  <2>1. from \in 1 .. N
    BY <1>2 DEF Skips
  <2>2. <<>> \in Seq(Letter)
    OBVIOUS
  <2>3. r = [word |-> <<>>, last |-> from, mem |-> mem]
    BY <1>3 DEF NoWord
  <2> QED  BY <1>1, <2>1, <2>2, <2>3 DEF States
<1>4. CASE Word(r, mem, from, to)
  BY <1>1, <1>2, <1>4, WordInside DEF Inside
<1> QED  BY <1>2, <1>3, <1>4

\* the first call is still to come
FirstState(mem) == [word |-> <<NUL>>, last |-> 1, mem |-> mem]

Goes(s) == IF s.word = <<>> THEN s ELSE TokenizeString(s.mem, s.last)

\* v has the states after the calls of a caller that goes on
Runs(v, mem, N) ==
    /\ v[0] = FirstState(mem)
    /\ \A n \in 0 .. N : v[n] \in States(N)
    /\ \A n \in 1 .. N : v[n] = Goes(v[n - 1])

Got(v, N) == {n \in 1 .. N : v[n].word # <<>>}

GotWords(v, N) == [n \in 1 .. Cardinality(Got(v, N)) |-> v[n].word]

LEMMA GoesOn ==
    ASSUME NEW N \in Nat, 2 =< N, NEW s \in States(N)
    PROVE  Goes(s) \in States(N)
<1>1. s.mem \in Memories(N) /\ s.last \in 1 .. N
  BY DEF States
<1>2. TokenizeString(s.mem, s.last) \in States(N)
  BY <1>1, CallStays
<1> QED  BY <1>2 DEF Goes

LEMMA TokensRun ==
    ASSUME NEW N \in Nat, 2 =< N, NEW mem \in Memories(N)
    PROVE  \E v : Runs(v, mem, N) /\ Tokens(mem) = GotWords(v, N)
<1> DEFINE Is(v) == v = [n \in 0 .. Len(mem) |->
            IF n = 0 THEN [word |-> <<NUL>>, last |-> 1, mem |-> mem]
            ELSE IF v[n - 1].word = <<>> THEN v[n - 1]
            ELSE TokenizeString(v[n - 1].mem, v[n - 1].last)]
<1>1. PICK M : M = States(N)
  OBVIOUS
<1>2. PICK start : start = FirstState(mem)
  OBVIOUS
<1>3. start \in M
  <2>1. <<NUL>> \in Seq(Letter)
    <3>1. NUL \in Letter
      BY DEF Letter
    <3> QED  BY <3>1
  <2>2. 1 \in 1 .. N
    OBVIOUS
  <2> QED  BY <1>1, <1>2, <2>1, <2>2 DEF FirstState, States
<1>4. PICK step : step = [p \in (1 .. N) \X M |-> Goes(p[2])]
  OBVIOUS
<1>5. ASSUME NEW n \in 1 .. N, NEW s \in M
      PROVE  step[<<n, s>>] = Goes(s)
  <2>1. <<n, s>> \in (1 .. N) \X M
    OBVIOUS
  <2> QED  BY <1>4, <2>1
<1>6. step \in [(1 .. N) \X M -> M]
  <2>1. ASSUME NEW p \in (1 .. N) \X M PROVE Goes(p[2]) \in M
    <3>1. p[2] \in M
      OBVIOUS
    <3> QED  BY <1>1, <3>1, GoesOn
  <2> QED  BY <1>4, <2>1
<1>7. PICK v : Iterates(v, M, start, step, N)
  BY <1>3, <1>6, Iteration
<1>8. /\ v \in [0 .. N -> M] /\ v[0] = start
      /\ \A n \in 1 .. N : v[n] = step[<<n, v[n - 1]>>]
  BY <1>7 DEF Iterates
<1>9. Len(mem) = N
  BY MemoriesAre
<1>10. ASSUME NEW n \in 0 .. N
       PROVE  v[n] = IF n = 0 THEN [word |-> <<NUL>>, last |-> 1, mem |-> mem]
                     ELSE IF v[n - 1].word = <<>> THEN v[n - 1]
                     ELSE TokenizeString(v[n - 1].mem, v[n - 1].last)
  <2>1. CASE n = 0
    BY <1>2, <1>8, <2>1 DEF FirstState
  <2>2. CASE n # 0
    <3>1. n \in 1 .. N /\ n - 1 \in 0 .. N
      BY <2>2
    <3>2. PICK s \in M : s = v[n - 1]
      BY <1>8, <3>1
    <3>3. v[n] = Goes(s)
      BY <1>5, <1>8, <3>1, <3>2
    <3> QED  BY <2>2, <3>2, <3>3 DEF Goes
  <2> QED  BY <2>1, <2>2
<1>11. Is(v)
  BY <1>8, <1>9, <1>10
<1>12. PICK c : c = CHOOSE w : Is(w)
  OBVIOUS
<1>13. Is(c)
  BY <1>11, <1>12
<1>14. Tokens(mem) = [n \in 1 .. Cardinality({n \in 1 .. N : c[n].word # <<>>}) |-> c[n].word]
  BY <1>9, <1>12 DEF Tokens
<1>15. c[0] = start
  BY <1>2, <1>9, <1>13 DEF FirstState
<1>16. ASSUME NEW n \in 1 .. N PROVE c[n] = Goes(c[n - 1])
  <2>1. n \in 0 .. Len(mem) /\ n # 0
    BY <1>9
  <2> QED  BY <1>13, <2>1 DEF Goes
<1>17. ASSUME NEW n \in 1 .. N, c[n - 1] \in M PROVE c[n] \in M
  BY <1>1, <1>16, <1>17, GoesOn
<1>18. c[0] \in M
  BY <1>3, <1>15
<1>19. \A n \in 0 .. N : c[n] \in M
  BY <1>17, <1>18, IterationStays
<1> QED  BY <1>1, <1>2, <1>14, <1>15, <1>16, <1>19 DEF Runs, Got, GotWords

\* text and what is behind it, in memory of N characters
Kept(mem, text, N) ==
    /\ text \in Seq(Letter) /\ \A k \in 1 .. Len(text) : text[k] # NUL
    /\ N \in Nat /\ Len(text) + 2 =< N /\ mem \in Memories(N)
    /\ \A k \in 1 .. Len(text) : mem[k] = text[k]
    /\ mem[Len(text) + 1] = NUL

\* place a of a text follows its start, a delimiter, or the terminator, if the
\* text ends in a word
Follows(a, text) ==
    \/ a = 1
    \/ a \in 2 .. Len(text) + 1 /\ text[a - 1] = Delimiter
    \/ a = Len(text) + 2 /\ Len(text) >= 1 /\ text[Len(text)] # Delimiter

StartsBelow(text, a) == {j \in Starts(text) : j < a}

\* s is a state after n words of the text
Told(s, n, mem, text, N) ==
    /\ s \in States(N) /\ s.word # <<>> /\ s.last \in 1 .. Len(text) + 2
    /\ \A k \in s.last .. N : s.mem[k] = mem[k]
    /\ Follows(s.last, text)
    /\ Cardinality(StartsBelow(text, s.last)) = n

LEMMA StartsAre ==
    ASSUME NEW text \in Seq(Letter)
    PROVE  /\ Starts(text) \subseteq 1 .. Len(text)
           /\ IsFiniteSet(Starts(text)) /\ Cardinality(Starts(text)) \in 0 .. Len(text)
           /\ \A a : IsFiniteSet(StartsBelow(text, a))
<1>1. PICK L \in Nat : L = Len(text)
  OBVIOUS
<1>2. Starts(text) \subseteq 1 .. L
  BY <1>1 DEF Starts
<1>3. IsFiniteSet(1 .. L) /\ Cardinality(1 .. L) = L
  BY FS_Interval
<1>4. IsFiniteSet(Starts(text)) /\ Cardinality(Starts(text)) =< L
  BY <1>2, <1>3, FS_Subset
<1>5. Cardinality(Starts(text)) \in Nat
  BY <1>4, FS_CardinalityType
<1>6. ASSUME NEW a PROVE IsFiniteSet(StartsBelow(text, a))
  <2>1. StartsBelow(text, a) \subseteq Starts(text)
    BY DEF StartsBelow
  <2> QED  BY <1>4, <2>1, FS_Subset
<1> QED  BY <1>1, <1>2, <1>4, <1>5, <1>6

\* There is one start that n starts are not behind.
LEMMA NthIs ==
    ASSUME NEW text \in Seq(Letter), NEW i \in Starts(text), NEW n,
           n = Cardinality({j \in Starts(text) : j =< i})
    PROVE  Nth(text, n) = i
<1>1. PICK L \in Nat : L = Len(text)
  OBVIOUS
<1>2. PICK S : S = Starts(text)
  OBVIOUS
<1>3. S \subseteq 1 .. L /\ IsFiniteSet(S)
  BY <1>1, <1>2, StartsAre
<1>4. ASSUME NEW a \in S, NEW b \in S, a < b
      PROVE  Cardinality({j \in S : j =< a}) # Cardinality({j \in S : j =< b})
  <2>1. PICK A : A = {j \in S : j =< a}
    OBVIOUS
  <2>2. PICK B : B = {j \in S : j =< b}
    OBVIOUS
  <2>3. A \subseteq B
    <3>1. \A j \in S : j \in Nat
      BY <1>3
    <3>2. \A j \in S : j =< a => j =< b
      BY <1>4, <3>1
    <3> QED  BY <2>1, <2>2, <3>2
  <2>4. b \in B /\ b \notin A
    <3>1. a \in Nat /\ b \in Nat
      BY <1>3
    <3>2. b =< b /\ ~(b =< a)
      BY <1>4, <3>1
    <3> QED  BY <2>1, <2>2, <3>2
  <2>5. IsFiniteSet(B)
    <3>1. B \in SUBSET S
      BY <2>2
    <3> QED  BY <1>3, <3>1, FS_Subset
  <2>6. Cardinality(B) = Cardinality(A) => B = A
    BY <2>3, <2>5, FS_Subset
  <2> QED  BY <2>1, <2>2, <2>4, <2>6
<1>5. ASSUME NEW k \in S, Cardinality({j \in S : j =< k}) = n PROVE k = i
  <2>1. k \in Nat /\ i \in Nat /\ i \in S
    BY <1>2, <1>3
  <2>2. ~(k < i) /\ ~(i < k)
    BY <1>2, <1>4, <1>5, <2>1
  <2> QED  BY <2>1, <2>2
<1>6. Nth(text, n) = CHOOSE k \in S : Cardinality({j \in S : j =< k}) = n
  BY <1>2 DEF Nth
<1>7. i \in S /\ Cardinality({j \in S : j =< i}) = n
  BY <1>2
<1> QED  BY <1>5, <1>6, <1>7

LEMMA WordAtIs ==
    ASSUME NEW text \in Seq(Letter), NEW i \in 1 .. Len(text), NEW e \in i .. Len(text),
           \A k \in i .. e : text[k] # Delimiter,
           e = Len(text) \/ text[e + 1] = Delimiter
    PROVE  WordAt(text, i) = SubSeq(text, i, e)
<1>1. PICK L \in Nat : L = Len(text)
  OBVIOUS
<1> DEFINE End(j) == /\ \A k \in i .. j : text[k] # Delimiter
                     /\ j = Len(text) \/ text[j + 1] = Delimiter
<1>2. End(e)
  OBVIOUS
<1>3. ASSUME NEW j \in i .. L, End(j) PROVE j = e
  <2>1. ~(j < e)
    <3> SUFFICES ASSUME j < e PROVE FALSE
      OBVIOUS
    <3>1. j + 1 \in i .. e /\ j # L
      BY <1>1
    <3> QED  BY <1>1, <1>3, <3>1
  <2>2. ~(e < j)
    <3> SUFFICES ASSUME e < j PROVE FALSE
      OBVIOUS
    <3>1. e + 1 \in i .. j /\ e # L
      BY <1>1
    <3> QED  BY <1>1, <1>3, <3>1
  <2> QED  BY <1>1, <2>1, <2>2
<1>4. PICK f : f = CHOOSE j \in i .. Len(text) : End(j)
  OBVIOUS
<1>5. f = e
  BY <1>1, <1>2, <1>3, <1>4
<1> QED  BY <1>4, <1>5 DEF WordAt

\* The first character from a on that is no delimiter starts a word, and no
\* word starts before it.
LEMMA StartFound ==
    ASSUME NEW text \in Seq(Letter), NEW a \in 1 .. Len(text) + 1, Follows(a, text),
           NEW b \in a .. Len(text), text[b] # Delimiter,
           \A k \in a .. b - 1 : text[k] = Delimiter
    PROVE  /\ b \in Starts(text)
           /\ {j \in Starts(text) : j =< b} = StartsBelow(text, a) \cup {b}
           /\ b \notin StartsBelow(text, a)
<1>1. PICK L \in Nat : L = Len(text)
  OBVIOUS
<1>2. a \in 1 .. L + 1 /\ b \in a .. L
  BY <1>1
<1>3. b = 1 \/ text[b - 1] = Delimiter
  <2>1. CASE b = a
    BY <1>1, <1>2, <2>1 DEF Follows
  <2>2. CASE b # a
    <3>1. b - 1 \in a .. b - 1
      BY <1>2, <2>2
    <3> QED  BY <3>1
  <2> QED  BY <2>1, <2>2
<1>4. b \in Starts(text)
  BY <1>1, <1>2, <1>3 DEF Starts
<1>5. ASSUME NEW j \in Starts(text) PROVE j =< b <=> j < a \/ j = b
  <2>1. j \in 1 .. L /\ text[j] # Delimiter
    BY <1>1 DEF Starts
  <2>2. j \notin a .. b - 1
    BY <2>1
  <2> QED  BY <1>2, <2>1, <2>2
<1>6. {j \in Starts(text) : j =< b} = StartsBelow(text, a) \cup {b}
  BY <1>4, <1>5 DEF StartsBelow
<1>7. ~(b < a)
  BY <1>2
<1> QED  BY <1>4, <1>6, <1>7 DEF StartsBelow

LEMMA WordsFollow ==
    ASSUME NEW N, NEW mem, NEW text, Kept(mem, text, N), NEW n \in Nat, NEW s,
           Told(s, n, mem, text, N), n < Cardinality(Starts(text))
    PROVE  /\ Told(Goes(s), n + 1, mem, text, N)
           /\ Goes(s).word = WordAt(text, Nth(text, n + 1))
<1>1. PICK L \in Nat : L = Len(text)
  BY DEF Kept
<1>2. /\ text \in Seq(Letter) /\ \A k \in 1 .. L : text[k] # NUL
      /\ N \in Nat /\ L + 2 =< N /\ mem \in Memories(N)
      /\ \A k \in 1 .. L : mem[k] = text[k]
      /\ mem[L + 1] = NUL
  BY <1>1 DEF Kept
<1>3. PICK a \in 1 .. L + 2 : a = s.last
  BY <1>1 DEF Told
<1>4. PICK m : m = s.mem
  OBVIOUS
<1>5. /\ s.word # <<>> /\ Follows(a, text) /\ Cardinality(StartsBelow(text, a)) = n
      /\ \A k \in a .. N : m[k] = mem[k]
  BY <1>3, <1>4 DEF Told
<1>6. N \in Nat /\ m \in Memories(N) /\ a \in 1 .. N /\ 2 =< N
  BY <1>2, <1>3, <1>4 DEF Told, States
<1>7. PICK r : r = TokenizeString(m, a)
  OBVIOUS
<1>8. r = Goes(s)
  BY <1>3, <1>4, <1>5, <1>7 DEF Goes
<1>9. PICK from, to : /\ Skips(m, a, N, from) /\ Ends(m, from, N, to)
                      /\ NoWord(r, m, from) \/ Word(r, m, from, to)
  <2>1. Call(r, m, a, N)
    BY <1>6, <1>7, TokenizeCalls
  <2> QED  BY <2>1 DEF Call
<1>10. /\ from \in a .. N /\ m[from] # Delimiter
       /\ \A k \in a .. from - 1 : m[k] = Delimiter
  BY <1>9 DEF Skips
\* there is a start that was not told, and so from is one
<1>11. PICK j \in Starts(text) : ~(j < a)
  <2> SUFFICES ASSUME \A j \in Starts(text) : j < a PROVE FALSE
    OBVIOUS
  <2>1. StartsBelow(text, a) = Starts(text)
    BY DEF StartsBelow
  <2>2. Cardinality(Starts(text)) \in Nat
    BY <1>2, StartsAre
  <2> QED  BY <1>5, <2>1, <2>2
<1>12. j \in a .. L /\ text[j] # Delimiter
  <2>1. j \in 1 .. L /\ text[j] # Delimiter
    BY <1>1 DEF Starts
  <2> QED  BY <1>3, <1>11, <2>1
<1>13. from \in a .. L
  <2>1. m[j] # Delimiter
    <3>1. j \in a .. N /\ j \in 1 .. L
      BY <1>2, <1>3, <1>12
    <3> QED  BY <1>2, <1>5, <1>12, <3>1
  <2>2. ~(j < from)
    BY <1>3, <1>10, <1>12, <2>1
  <2> QED  BY <1>3, <1>10, <1>12, <2>2
<1>14. \A k \in a .. L : m[k] = text[k]
  <2> SUFFICES ASSUME NEW k \in a .. L PROVE m[k] = text[k]
    OBVIOUS
  <2>1. k \in a .. N /\ k \in 1 .. L
    BY <1>2, <1>3
  <2> QED  BY <1>2, <1>5, <2>1
<1>15. /\ from \in Starts(text)
       /\ {i \in Starts(text) : i =< from} = StartsBelow(text, a) \cup {from}
       /\ from \notin StartsBelow(text, a)
  <2>1. a \in 1 .. L + 1
    BY <1>3, <1>13
  <2>2. text[from] # Delimiter /\ \A k \in a .. from - 1 : text[k] = Delimiter
    BY <1>3, <1>10, <1>13, <1>14
  <2> QED  BY <1>1, <1>2, <1>5, <1>13, <2>1, <2>2, StartFound
<1>16. Cardinality({i \in Starts(text) : i =< from}) = n + 1
  <2>1. IsFiniteSet(StartsBelow(text, a))
    BY <1>2, StartsAre
  <2> QED  BY <1>5, <1>15, <2>1, FS_AddElement
<1>17. Nth(text, n + 1) = from
  <2>1. PICK q : q = n + 1
    OBVIOUS
  <2>2. Nth(text, q) = from
    BY <1>2, <1>15, <1>16, <2>1, NthIs
  <2> QED  BY <2>1, <2>2
<1>18. Word(r, m, from, to)
  <2>1. m[from] # NUL
    <3>1. from \in 1 .. L
      BY <1>3, <1>13
    <3> QED  BY <1>2, <1>13, <1>14, <3>1
  <2> QED  BY <1>9, <2>1 DEF NoWord
<1>19. /\ to \in from + 1 .. N - 1
       /\ r.word \in Seq(Letter) /\ Slice(r.word, m, from, to - from)
       /\ r.last = to + 1 /\ r.mem = [m EXCEPT ![to] = NUL]
       /\ r.mem \in Memories(N) /\ r \in States(N)
  <2>1. Inside(r, m, a, N, from, to)
    BY <1>6, <1>9, <1>18, WordInside
  <2> QED  BY <2>1 DEF Inside
<1>20. m[to] \in {NUL, Delimiter} /\ \A k \in from .. to - 1 : m[k] \notin {NUL, Delimiter}
  BY <1>9 DEF Ends
<1>21. to =< L + 1
  <2> SUFFICES ASSUME L + 1 < to PROVE FALSE
    BY <1>13, <1>19
  <2>1. L + 1 \in from .. to - 1 /\ L + 1 \in a .. N
    BY <1>2, <1>3, <1>13, <1>19
  <2>2. m[L + 1] = NUL
    BY <1>2, <1>5, <2>1
  <2> QED  BY <1>20, <2>1, <2>2
<1>22. PICK e \in from .. L : e = to - 1
  BY <1>3, <1>13, <1>19, <1>21
<1>23. \A k \in from .. e : text[k] # Delimiter
  BY <1>3, <1>13, <1>14, <1>20, <1>22
<1>24. to \in 2 .. L => text[to] = Delimiter
  <2> SUFFICES ASSUME to \in 2 .. L PROVE text[to] = Delimiter
    OBVIOUS
  <2>1. to \in a .. L /\ to \in 1 .. L
    BY <1>3, <1>13, <1>19
  <2>2. m[to] = text[to] /\ text[to] # NUL
    BY <1>2, <1>14, <2>1
  <2> QED  BY <1>20, <2>2
<1>25. e = L \/ text[e + 1] = Delimiter
  <2>1. from \in Nat /\ L \in Nat /\ 1 =< from /\ e \in from .. L /\ e = to - 1 /\ to \in Nat
    BY <1>3, <1>13, <1>19, <1>22
  <2>2. e # L => to \in 2 .. L /\ e + 1 = to
    BY <2>1
  <2> QED  BY <1>24, <2>2
<1>26. WordAt(text, from) = SubSeq(text, from, e)
  <2>1. from \in 1 .. L
    BY <1>3, <1>13
  <2> QED  BY <1>1, <1>2, <1>22, <1>23, <1>25, <2>1, WordAtIs
<1>27. PICK l \in Nat : l = to - from
  BY <1>3, <1>13, <1>19
<1>28. r.word = SubSeq(text, from, e)
  <2>1. PICK u : u = SubSeq(text, from, from + l - 1)
    OBVIOUS
  <2>2. from \in Nat /\ 1 =< from /\ from + l =< L + 1 /\ from + l - 1 = e
    <3>1. from \in 1 .. L /\ to \in Nat
      BY <1>3, <1>13, <1>19
    <3> QED  BY <1>21, <1>22, <1>27, <3>1
  <2>3. u \in Seq(Letter) /\ Slice(u, text, from, l)
    BY <1>1, <1>2, <2>1, <2>2, SliceIs
  <2>4. Len(u) = l /\ \A k \in 1 .. l : u[k] = text[from + k - 1]
    BY <2>3 DEF Slice
  <2>5. PICK w : w = r.word
    OBVIOUS
  <2>6. w \in Seq(Letter) /\ Len(w) = l /\ \A k \in 1 .. l : w[k] = m[from + k - 1]
    BY <1>19, <1>27, <2>5 DEF Slice
  <2>7. ASSUME NEW k \in 1 .. l PROVE w[k] = u[k]
    <3>1. from + k - 1 \in a .. L
      BY <1>3, <1>13, <2>2
    <3> QED  BY <1>14, <2>4, <2>6, <3>1
  <2>8. w = u
    BY <2>3, <2>4, <2>6, <2>7, SeqEqual
  <2> QED  BY <2>1, <2>2, <2>5, <2>8
<1>29. r.word # <<>>
  <2>1. Len(r.word) = l /\ l # 0
    BY <1>3, <1>13, <1>19, <1>27 DEF Slice
  <2> QED  BY <2>1, EmptySeq
<1>30. ASSUME NEW k \in to + 1 .. N PROVE r.mem[k] = mem[k]
  <2>1. k \in a .. N /\ k # to /\ k \in 1 .. N
    <3>1. from \in 1 .. L /\ a =< from
      BY <1>3, <1>13
    <3>2. to \in Nat /\ from < to
      BY <1>19, <3>1
    <3> QED  BY <1>3, <1>6, <3>1, <3>2
  <2>2. Len(m) = N /\ m \in Seq(Letter)
    BY <1>6, MemoriesAre
  <2>3. r.mem[k] = m[k]
    BY <1>19, <2>1, <2>2
  <2> QED  BY <1>5, <2>1, <2>3
<1>31. to + 1 \in 1 .. L + 2
  BY <1>3, <1>13, <1>19, <1>21
<1>32. Follows(to + 1, text)
  <2>1. CASE to = L + 1
    <3>1. e = L /\ L \in from .. e /\ L >= 1
      BY <1>3, <1>13, <1>22, <2>1
    <3>2. text[L] # Delimiter
      BY <1>23, <3>1
    <3>3. to + 1 = L + 2
      BY <2>1
    <3> QED  BY <1>1, <3>1, <3>2, <3>3 DEF Follows
  <2>2. CASE to # L + 1
    <3>1. to \in 2 .. L /\ to + 1 \in 2 .. L + 1 /\ (to + 1) - 1 = to
      BY <1>3, <1>13, <1>19, <1>21, <2>2
    <3>2. text[(to + 1) - 1] = Delimiter
      BY <1>24, <3>1
    <3> QED  BY <1>1, <3>1, <3>2 DEF Follows
  <2> QED  BY <2>1, <2>2
<1>33. StartsBelow(text, to + 1) = {i \in Starts(text) : i =< from}
  <2>1. ASSUME NEW i \in Starts(text) PROVE i < to + 1 <=> i =< from
    <3>1. i \in 1 .. L /\ text[i] # Delimiter /\ (i = 1 \/ text[i - 1] = Delimiter)
      BY <1>1 DEF Starts
    <3>2. i \notin from + 1 .. e
      <4> SUFFICES ASSUME i \in from + 1 .. e PROVE FALSE
        OBVIOUS
      <4>1. i - 1 \in from .. e /\ i # 1
        BY <1>3, <1>13, <1>22
      <4> QED  BY <1>23, <3>1, <4>1
    <3>3. i # to
      <4> SUFFICES ASSUME i = to PROVE FALSE
        OBVIOUS
      <4>1. to \in 2 .. L
        BY <1>3, <1>13, <1>19, <3>1
      <4> QED  BY <1>24, <3>1, <4>1
    <3> QED  BY <1>3, <1>13, <1>19, <1>22, <3>1, <3>2, <3>3
  <2> QED  BY <2>1 DEF StartsBelow
<1>34. Told(r, n + 1, mem, text, N)
  BY <1>1, <1>16, <1>19, <1>29, <1>30, <1>31, <1>32, <1>33 DEF Told
<1> QED  BY <1>8, <1>17, <1>26, <1>28, <1>34

\* When all words were told there are no more, unless the text ends in one and
\* what is behind it goes on.
LEMMA WordsEnd ==
    ASSUME NEW N, NEW mem, NEW text, Kept(mem, text, N), NEW s,
           Told(s, Cardinality(Starts(text)), mem, text, N)
    PROVE  \/ Goes(s).word = <<>>
           \/ Len(text) >= 1 /\ text[Len(text)] # Delimiter /\ mem[Len(text) + 2] # NUL
<1>1. PICK L \in Nat : L = Len(text)
  BY DEF Kept
<1>2. /\ text \in Seq(Letter) /\ \A k \in 1 .. L : text[k] # NUL
      /\ N \in Nat /\ L + 2 =< N /\ mem \in Memories(N)
      /\ \A k \in 1 .. L : mem[k] = text[k]
      /\ mem[L + 1] = NUL
  BY <1>1 DEF Kept
<1>3. PICK a \in 1 .. L + 2 : a = s.last
  BY <1>1 DEF Told
<1>4. PICK m : m = s.mem
  OBVIOUS
<1>5. PICK n : n = Cardinality(Starts(text))
  OBVIOUS
<1>6. /\ s.word # <<>> /\ Follows(a, text) /\ Cardinality(StartsBelow(text, a)) = n
      /\ \A k \in a .. N : m[k] = mem[k]
  BY <1>3, <1>4, <1>5 DEF Told
<1>7. N \in Nat /\ m \in Memories(N) /\ a \in 1 .. N /\ 2 =< N
  BY <1>2, <1>3, <1>4 DEF Told, States
<1>8. PICK r : r = TokenizeString(m, a)
  OBVIOUS
<1>9. r = Goes(s)
  BY <1>3, <1>4, <1>6, <1>8 DEF Goes
<1>10. PICK from, to : /\ Skips(m, a, N, from) /\ Ends(m, from, N, to)
                       /\ NoWord(r, m, from) \/ Word(r, m, from, to)
  <2>1. Call(r, m, a, N)
    BY <1>7, <1>8, TokenizeCalls
  <2> QED  BY <2>1 DEF Call
<1>11. /\ from \in a .. N /\ m[from] # Delimiter
       /\ \A k \in a .. from - 1 : m[k] = Delimiter
  BY <1>10 DEF Skips
<1>12. StartsBelow(text, a) = Starts(text)
  <2>1. StartsBelow(text, a) \in SUBSET Starts(text) /\ IsFiniteSet(Starts(text))
    BY <1>2, StartsAre DEF StartsBelow
  <2> QED  BY <1>5, <1>6, <2>1, FS_Subset
<1>13. NUL # Delimiter
  BY DEF NUL, Delimiter
<1>14. CASE m[from] = NUL
  <2>1. NoWord(r, m, from)
    BY <1>10, <1>14 DEF Word
  <2>2. r.word = <<>>
    BY <2>1 DEF NoWord
  <2> QED  BY <1>9, <2>2
<1>15. CASE m[from] # NUL
  <2>1. a = L + 2
    <3> SUFFICES ASSUME a # L + 2 PROVE FALSE
      OBVIOUS
    <3>1. a \in 1 .. L + 1
      BY <1>3
    <3>2. m[L + 1] = NUL /\ L + 1 \in a .. N
      <4>1. L + 1 \in a .. N
        BY <1>2, <3>1
      <4> QED  BY <1>2, <1>6, <4>1
    <3>3. from \in a .. L
      <4>1. ~(L + 1 < from) /\ from # L + 1
        BY <1>11, <1>13, <1>15, <3>1, <3>2
      <4> QED  BY <1>11, <3>1, <4>1
    <3>4. \A k \in a .. from : m[k] = text[k]
      <4> SUFFICES ASSUME NEW k \in a .. from PROVE m[k] = text[k]
        OBVIOUS
      <4>1. k \in a .. N /\ k \in 1 .. L
        BY <1>2, <3>1, <3>3
      <4> QED  BY <1>2, <1>6, <4>1
    <3>5. text[from] # Delimiter /\ \A k \in a .. from - 1 : text[k] = Delimiter
      BY <1>11, <3>1, <3>3, <3>4
    <3>6. from \in Starts(text) /\ from \notin StartsBelow(text, a)
      BY <1>1, <1>2, <1>6, <3>1, <3>3, <3>5, StartFound
    <3> QED  BY <1>12, <3>6
  <2>2. L >= 1 /\ text[L] # Delimiter
    <3>1. a # 1 /\ ~(a \in 2 .. L + 1)
      BY <2>1
    <3> QED  BY <1>1, <1>6, <3>1 DEF Follows
  <2>3. mem[L + 2] # NUL
    <3>1. L + 2 \in a .. N
      BY <1>2, <2>1
    <3>2. CASE from = L + 2
      BY <1>6, <1>15, <2>1, <3>1, <3>2
    <3>3. CASE from # L + 2
      <4>1. L + 2 \in a .. from - 1
        BY <1>2, <1>11, <2>1, <3>3
      <4> QED  BY <1>6, <1>11, <1>13, <3>1, <4>1
    <3> QED  BY <3>2, <3>3
  <2> QED  BY <1>1, <2>2, <2>3
<1> QED  BY <1>14, <1>15

\* The first calls give the words of the text.
LEMMA WordsTold ==
    ASSUME NEW N, NEW mem, NEW text, Kept(mem, text, N), NEW v, Runs(v, mem, N)
    PROVE  \A n \in 0 .. Cardinality(Starts(text)) :
              /\ Told(v[n], n, mem, text, N)
              /\ n >= 1 => v[n].word = WordAt(text, Nth(text, n))
<1>1. PICK L \in Nat : L = Len(text)
  BY DEF Kept
<1>2. text \in Seq(Letter) /\ N \in Nat /\ L + 2 =< N /\ mem \in Memories(N)
  BY <1>1 DEF Kept
<1>3. PICK W \in 0 .. L : W = Cardinality(Starts(text))
  BY <1>1, <1>2, StartsAre
<1>4. v[0] = FirstState(mem) /\ v[0] \in States(N) /\ \A n \in 1 .. N : v[n] = Goes(v[n - 1])
  BY <1>2 DEF Runs
<1>5. Told(v[0], 0, mem, text, N)
  <2>1. v[0].word = <<NUL>> /\ v[0].last = 1 /\ v[0].mem = mem
    BY <1>4 DEF FirstState
  <2>2. StartsBelow(text, 1) = {}
    <3>1. \A j \in 1 .. L : ~(j < 1)
      OBVIOUS
    <3> QED  BY <1>1, <1>2, <3>1, StartsAre DEF StartsBelow
  <2>3. Cardinality(StartsBelow(text, 1)) = 0
    BY <2>2, FS_EmptySet
  <2>4. 1 \in 1 .. L + 2 /\ <<NUL>> # <<>>
    OBVIOUS
  <2>5. Follows(1, text)
    BY DEF Follows
  <2> QED  BY <1>1, <1>4, <2>1, <2>3, <2>4, <2>5 DEF Told
<1> DEFINE Good(n) == /\ Told(v[n], n, mem, text, N)
                      /\ n >= 1 => v[n].word = WordAt(text, Nth(text, n))
<1>6. PICK U : U = {n \in 0 .. W : ~Good(n)}
  OBVIOUS
<1>7. U = {}
  <2> SUFFICES ASSUME U # {} PROVE FALSE
    OBVIOUS
  <2>1. U \in SUBSET Nat
    BY <1>6
  <2>2. PICK n \in U : \A j \in U : n =< j
    BY <2>1, Least
  <2>3. n \in 0 .. W /\ ~Good(n)
    BY <1>6, <2>2
  <2>4. n # 0
    BY <1>5, <2>3
  <2>5. PICK k \in Nat : k = n - 1 /\ k \in 0 .. W /\ k < W /\ n = k + 1 /\ n \in 1 .. N
    BY <1>2, <2>3, <2>4
  <2>6. ~(n =< k)
    BY <2>5
  <2>7. Told(v[k], k, mem, text, N)
    BY <1>6, <2>2, <2>5, <2>6
  <2>8. /\ Told(Goes(v[k]), k + 1, mem, text, N)
        /\ Goes(v[k]).word = WordAt(text, Nth(text, k + 1))
    BY <1>3, <2>5, <2>7, WordsFollow
  <2>9. v[n] = Goes(v[k])
    BY <1>4, <2>5
  <2> QED  BY <2>3, <2>5, <2>8, <2>9
<1> QED  BY <1>3, <1>6, <1>7

\* What a caller gets who goes on.
LEMMA WordsGot ==
    ASSUME NEW N \in Nat, NEW mem, NEW text, Kept(mem, text, N), NEW v, Runs(v, mem, N)
    PROVE  /\ IsPrefix(Words(text), GotWords(v, N))
           /\ \/ GotWords(v, N) = Words(text)
              \/ Len(text) >= 1 /\ text[Len(text)] # Delimiter /\ mem[Len(text) + 2] # NUL
<1>1. PICK L \in Nat : L = Len(text)
  BY DEF Kept
<1>2. text \in Seq(Letter) /\ N \in Nat /\ L + 2 =< N /\ mem \in Memories(N)
  BY <1>1 DEF Kept
<1>3. PICK W \in 0 .. L : W = Cardinality(Starts(text))
  BY <1>1, <1>2, StartsAre
<1>4. W \in Nat /\ W < N
  BY <1>2
<1>5. (\A n \in 0 .. N : v[n] \in States(N)) /\ \A n \in 1 .. N : v[n] = Goes(v[n - 1])
  BY DEF Runs
<1>6. \A n \in 0 .. W : /\ Told(v[n], n, mem, text, N)
                        /\ n >= 1 => v[n].word = WordAt(text, Nth(text, n))
  BY <1>3, WordsTold
<1>7. PICK G : G = Got(v, N)
  OBVIOUS
<1>8. G = {n \in 1 .. N : v[n].word # <<>>}
  BY <1>7 DEF Got
<1>9. 1 .. W \subseteq G
  <2> SUFFICES ASSUME NEW n \in 1 .. W PROVE n \in G
    OBVIOUS
  <2>1. n \in 0 .. W /\ n \in 1 .. N
    BY <1>4
  <2>2. v[n].word # <<>>
    BY <1>6, <2>1 DEF Told
  <2> QED  BY <1>8, <2>1, <2>2
<1>10. PICK g \in 0 .. N : g = Cardinality(G) /\ W =< g /\ IsFiniteSet(G)
  <2>1. IsFiniteSet(1 .. N) /\ Cardinality(1 .. N) = N
    BY <1>2, FS_Interval
  <2>2. IsFiniteSet(1 .. W) /\ Cardinality(1 .. W) = W
    BY <1>4, FS_Interval
  <2>3. G \in SUBSET (1 .. N)
    BY <1>8
  <2>4. IsFiniteSet(G) /\ Cardinality(G) =< N
    BY <2>1, <2>3, FS_Subset
  <2>5. 1 .. W \in SUBSET G
    BY <1>9
  <2>6. W =< Cardinality(G)
    BY <2>2, <2>4, <2>5, FS_Subset
  <2>7. Cardinality(G) \in Nat
    BY <2>4, FS_CardinalityType
  <2> QED  BY <2>4, <2>6, <2>7
<1>11. PICK got : got = GotWords(v, N)
  OBVIOUS
<1>12. got = [n \in 1 .. g |-> v[n].word]
  BY <1>7, <1>10, <1>11 DEF GotWords
<1>13. \A n \in 1 .. N : v[n].word \in Seq(Letter)
  BY <1>5 DEF States
<1>14. got \in Seq(Seq(Letter)) /\ Len(got) = g
  BY <1>10, <1>12, <1>13
<1>15. PICK words : words = Words(text)
  OBVIOUS
<1>16. words = [n \in 1 .. W |-> WordAt(text, Nth(text, n))]
  BY <1>3, <1>15 DEF Words
<1>17. ASSUME NEW n \in 1 .. W
       PROVE  words[n] = v[n].word /\ words[n] \in Seq(Letter)
  <2>1. n \in 0 .. W /\ n >= 1 /\ n \in 1 .. N
    BY <1>4
  <2> QED  BY <1>6, <1>13, <1>16, <2>1
<1>18. words \in Seq(Seq(Letter)) /\ Len(words) = W
  BY <1>4, <1>16, <1>17
<1>19. IsPrefix(words, got)
  <2>1. ASSUME NEW j \in 1 .. W PROVE words[j] = got[j]
    <3>1. j \in 1 .. g
      BY <1>10
    <3> QED  BY <1>12, <1>17, <3>1
  <2>2. Len(words) =< Len(got) /\ \A j \in 1 .. Len(words) : words[j] = got[j]
    BY <1>10, <1>14, <1>18, <2>1
  <2> QED  BY <1>14, <1>18, <2>2, PrefixOf
<1>20. Told(v[W], W, mem, text, N)
  <2>1. W \in 0 .. W
    BY <1>4
  <2> QED  BY <1>6, <2>1
<1>21. ASSUME Goes(v[W]).word = <<>> PROVE got = words
  <2>1. W + 1 \in 1 .. N /\ (W + 1) - 1 = W
    BY <1>4
  <2>2. v[W + 1].word = <<>>
    BY <1>5, <1>21, <2>1
  <2>3. PICK U : U = {n \in W + 1 .. N : v[n].word # <<>>}
    OBVIOUS
  <2>4. U = {}
    <3> SUFFICES ASSUME U # {} PROVE FALSE
      OBVIOUS
    <3>1. U \in SUBSET Nat
      BY <1>4, <2>3
    <3>2. PICK n \in U : \A j \in U : n =< j
      BY <3>1, Least
    <3>3. n \in W + 1 .. N /\ v[n].word # <<>>
      BY <2>3, <3>2
    <3>4. n # W + 1
      BY <2>2, <3>3
    <3>5. PICK k \in W + 1 .. N : k = n - 1 /\ n \in 1 .. N /\ ~(n =< k)
      BY <1>4, <3>3, <3>4
    <3>6. v[k].word = <<>>
      BY <2>3, <3>2, <3>5
    <3>7. v[n] = v[k]
      BY <1>5, <3>5, <3>6 DEF Goes
    <3> QED  BY <3>3, <3>6, <3>7
  <2>5. G = 1 .. W
    <3>1. ASSUME NEW n \in 1 .. N, n \notin 1 .. W PROVE v[n].word = <<>>
      <4>1. n \in W + 1 .. N
        BY <1>4, <3>1
      <4> QED  BY <2>3, <2>4, <4>1
    <3> QED  BY <1>8, <1>9, <3>1
  <2>6. g = W
    BY <1>4, <1>10, <2>5, FS_Interval
  <2>7. \A j \in 1 .. W : words[j] = got[j]
    BY <1>12, <1>17, <2>6
  <2> QED  BY <1>14, <1>18, <2>6, <2>7, SeqEqual
<1>22. \/ Goes(v[W]).word = <<>>
       \/ Len(text) >= 1 /\ text[Len(text)] # Delimiter /\ mem[Len(text) + 2] # NUL
  BY <1>3, <1>20, WordsEnd
<1> QED  BY <1>11, <1>15, <1>19, <1>21, <1>22

\* A text, its terminator and what is behind it.
LEMMA TextKept ==
    ASSUME NEW text \in Seq(STRING \ {NUL}), NEW after \in Seq(STRING), Len(after) >= 2,
           after[Len(after) - 1] = NUL, after[Len(after)] = NUL,
           NEW mem, mem = text \o <<NUL>> \o after
    PROVE  \E N : Kept(mem, text, N) /\ mem[Len(text) + 2] = after[1]
<1>1. PICK L \in Nat : L = Len(text)
  OBVIOUS
<1>2. PICK o \in Nat : o = Len(after) /\ 2 =< o /\ after[o - 1] = NUL /\ after[o] = NUL
  OBVIOUS
<1>3. text \in Seq(Letter) /\ after \in Seq(Letter)
  BY SeqMonotonic DEF Letter
<1>4. PICK t : t = <<NUL>>
  OBVIOUS
<1>5. t \in Seq(Letter) /\ Len(t) = 1 /\ t[1] = NUL
  <2>1. NUL \in Letter
    BY DEF Letter
  <2> QED  BY <1>4, <2>1
<1>6. PICK c : c = text \o t
  OBVIOUS
<1>7. /\ c \in Seq(Letter) /\ Len(c) = L + 1
      /\ \A i \in 1 .. L + 1 : c[i] = IF i <= L THEN text[i] ELSE t[i - L]
  <2>1. /\ text \o t \in Seq(Letter)
        /\ Len(text \o t) = Len(text) + Len(t)
        /\ \A i \in 1 .. Len(text) + Len(t) :
              (text \o t)[i] = IF i <= Len(text) THEN text[i] ELSE t[i - Len(text)]
    BY <1>3, <1>5, ConcatProperties
  <2> QED  BY <1>1, <1>5, <1>6, <2>1
<1>8. mem = c \o after
  BY <1>4, <1>6
<1>9. PICK N \in Nat : N = L + 1 + o
  OBVIOUS
<1>10. /\ mem \in Seq(Letter) /\ Len(mem) = N
       /\ \A i \in 1 .. N : mem[i] = IF i <= L + 1 THEN c[i] ELSE after[i - (L + 1)]
  <2>1. /\ c \o after \in Seq(Letter)
        /\ Len(c \o after) = Len(c) + Len(after)
        /\ \A i \in 1 .. Len(c) + Len(after) :
              (c \o after)[i] = IF i <= Len(c) THEN c[i] ELSE after[i - Len(c)]
    BY <1>3, <1>7, ConcatProperties
  <2> QED  BY <1>2, <1>7, <1>8, <1>9, <2>1
<1>11. \A k \in 1 .. L : mem[k] = text[k] /\ text[k] # NUL
  <2> SUFFICES ASSUME NEW k \in 1 .. L PROVE mem[k] = text[k] /\ text[k] # NUL
    OBVIOUS
  <2>1. k \in 1 .. N /\ k \in 1 .. L + 1 /\ k <= L /\ k <= L + 1
    BY <1>9
  <2>2. text[k] \in STRING \ {NUL}
    BY <1>1, ElementOfSeq
  <2> QED  BY <1>7, <1>10, <2>1, <2>2
<1>12. mem[L + 1] = NUL
  <2>1. /\ L + 1 \in 1 .. N /\ L + 1 \in 1 .. L + 1 /\ L + 1 <= L + 1
        /\ ~(L + 1 <= L) /\ (L + 1) - L = 1
    BY <1>9
  <2> QED  BY <1>5, <1>7, <1>10, <2>1
<1>13. ASSUME NEW j \in 1 .. o PROVE mem[L + 1 + j] = after[j]
  <2>1. L + 1 + j \in 1 .. N /\ ~(L + 1 + j <= L + 1) /\ (L + 1 + j) - (L + 1) = j
    BY <1>9
  <2> QED  BY <1>10, <2>1
<1>14. mem[N] = NUL /\ mem[N - 1] = NUL
  <2>1. o \in 1 .. o /\ o - 1 \in 1 .. o /\ L + 1 + o = N /\ L + 1 + (o - 1) = N - 1
    BY <1>2, <1>9
  <2>2. mem[L + 1 + o] = NUL
    BY <1>2, <1>13, <2>1
  <2>3. mem[L + 1 + (o - 1)] = NUL
    BY <1>2, <1>13, <2>1
  <2> QED  BY <2>1, <2>2, <2>3
<1>15. mem \in Memories(N)
  BY <1>10, <1>14 DEF Memories
<1>16. Kept(mem, text, N)
  BY <1>1, <1>2, <1>3, <1>9, <1>11, <1>12, <1>15 DEF Kept
<1>17. mem[L + 2] = after[1]
  <2>1. 1 \in 1 .. o /\ L + 1 + 1 = L + 2
    BY <1>2
  <2>2. mem[L + 1 + 1] = after[1]
    BY <1>13, <2>1
  <2> QED  BY <2>1, <2>2
<1> QED  BY <1>1, <1>16, <1>17

(***************************************************************************)
(* A caller that goes on gets the words of its string, in order, and no    *)
(* more unless the string ends in a word and what is behind its terminator *)
(* is not 0 (TokenizeString.c:45-50).                                      *)
(***************************************************************************)
THEOREM TokensAlwaysWords == Spec => []TokensAreWords
<1>1. CallInv => TokensAreWords
  <2> SUFFICES ASSUME CallInv, Returned("TokenizeString") PROVE TokensAreWords
    BY DEF TokensAreWords
  <2>1. call.of = "TokenizeString" /\ Called /\ Answered
    BY ReturnedAnswers
  <2>2. call.text \in Texts /\ call.after \in Followers
    BY <2>1 DEF Called, Moves
  <2>3. PICK text : text = call.text
    OBVIOUS
  <2>4. PICK after : after = call.after
    OBVIOUS
  <2>5. /\ text \in Seq(STRING \ {NUL}) /\ after \in Seq(STRING) /\ Len(after) >= 2
        /\ after[Len(after) - 1] = NUL /\ after[Len(after)] = NUL
    BY <2>2, <2>3, <2>4, LibraryAssumption
  <2>6. PICK mem : mem = text \o <<NUL>> \o after
    OBVIOUS
  <2>7. PICK N : Kept(mem, text, N) /\ mem[Len(text) + 2] = after[1]
    BY <2>5, <2>6, TextKept
  <2>8. N \in Nat /\ 2 =< N /\ mem \in Memories(N)
    <3>1. PICK L \in Nat : L = Len(text)
      BY <2>5
    <3>2. N \in Nat /\ L + 2 =< N /\ mem \in Memories(N)
      BY <2>7, <3>1 DEF Kept
    <3> QED  BY <3>2
  <2>9. PICK v : Runs(v, mem, N) /\ Tokens(mem) = GotWords(v, N)
    BY <2>8, TokensRun
  <2>10. /\ IsPrefix(Words(text), GotWords(v, N))
         /\ \/ GotWords(v, N) = Words(text)
            \/ Len(text) >= 1 /\ text[Len(text)] # Delimiter /\ mem[Len(text) + 2] # NUL
    BY <2>7, <2>8, <2>9, WordsGot
  <2>11. result.value = GotWords(v, N)
    BY <2>1, <2>3, <2>4, <2>6, <2>9 DEF Answered
  <2>12. Last(text) = text[Len(text)] /\ Head(after) = after[1]
    BY <2>5 DEF Last
  <2> QED  BY <2>3, <2>4, <2>7, <2>10, <2>11, <2>12 DEF TokensAreWords
<1> QED  BY <1>1, CallsReturn, PTL

-----------------------------------------------------------------------------
(***************************************************************************)
(* Sequences in a row                                                      *)
(***************************************************************************)

\* what is in x is T, and only once if it should be
Lists(x, B, T, once) == x \in Seq(B) /\ ToSet(x) = T /\ (once => IsInjective(x))

LEMMA ListsNone == ASSUME NEW B PROVE Lists(<<>>, B, {}, TRUE)
<1>1. PICK x : x = <<>>
  OBVIOUS
<1>2. x \in Seq(B) /\ DOMAIN x = {}
  BY <1>1
<1>3. ToSet(x) = {} /\ IsInjective(x)
  BY <1>2 DEF ToSet, IsInjective
<1> QED  BY <1>1, <1>2, <1>3 DEF Lists

LEMMA ListsOne == ASSUME NEW B, NEW e \in B PROVE Lists(<<e>>, B, {e}, TRUE)
<1>1. PICK x : x = <<e>>
  OBVIOUS
<1>2. x \in Seq(B) /\ DOMAIN x = {1} /\ x[1] = e
  BY <1>1
<1>3. ToSet(x) = {e} /\ IsInjective(x)
  BY <1>2 DEF ToSet, IsInjective
<1> QED  BY <1>1, <1>2, <1>3 DEF Lists

LEMMA ListsBoth ==
    ASSUME NEW B, NEW x, NEW S, NEW y, NEW T, NEW once \in BOOLEAN,
           Lists(x, B, S, once), Lists(y, B, T, once), once => S \cap T = {}
    PROVE  Lists(x \o y, B, S \cup T, once)
<1>1. x \in Seq(B) /\ y \in Seq(B) /\ ToSet(x) = S /\ ToSet(y) = T
  BY DEF Lists
<1>2. PICK m \in Nat : m = Len(x)
  BY <1>1
<1>3. PICK n \in Nat : n = Len(y)
  BY <1>1
<1>4. PICK z : z = x \o y
  OBVIOUS
<1>5. /\ z \in Seq(B) /\ Len(z) = m + n
      /\ \A i \in 1 .. m + n : z[i] = IF i <= m THEN x[i] ELSE y[i - m]
  <2>1. /\ x \o y \in Seq(B) /\ Len(x \o y) = Len(x) + Len(y)
        /\ \A i \in 1 .. Len(x) + Len(y) : (x \o y)[i] = IF i <= Len(x) THEN x[i] ELSE y[i - Len(x)]
    BY <1>1, ConcatProperties
  <2> QED  BY <1>2, <1>3, <1>4, <2>1
<1>6. S = {x[i] : i \in 1 .. m} /\ T = {y[i] : i \in 1 .. n}
  BY <1>1, <1>2, <1>3 DEF ToSet
<1>7. \A i \in 1 .. m : i \in 1 .. m + n /\ z[i] = x[i]
  BY <1>5
<1>8. ASSUME NEW i \in 1 .. n PROVE i + m \in 1 .. m + n /\ z[i + m] = y[i]
  <2>1. i + m \in 1 .. m + n /\ ~(i + m <= m) /\ (i + m) - m = i
    OBVIOUS
  <2> QED  BY <1>5, <2>1
<1>9. ASSUME NEW k \in 1 .. m + n
      PROVE  \/ k \in 1 .. m /\ z[k] = x[k]
             \/ \E i \in 1 .. n : k = i + m /\ z[k] = y[i]
  <2>1. CASE k <= m
    <3>1. k \in 1 .. m
      BY <2>1
    <3> QED  BY <1>7, <3>1
  <2>2. CASE ~(k <= m)
    <3>1. PICK i \in 1 .. n : i = k - m
      BY <2>2
    <3>2. k = i + m
      BY <3>1
    <3> QED  BY <1>8, <3>2
  <2> QED  BY <2>1, <2>2
<1>10. ToSet(z) = S \cup T
  <2>1. ToSet(z) = {z[k] : k \in 1 .. m + n}
    BY <1>5 DEF ToSet
  <2>2. \A k \in 1 .. m + n : z[k] \in S \cup T
    BY <1>6, <1>9
  <2>3. S \subseteq {z[k] : k \in 1 .. m + n}
    BY <1>6, <1>7
  <2>4. T \subseteq {z[k] : k \in 1 .. m + n}
    BY <1>6, <1>8
  <2> QED  BY <2>1, <2>2, <2>3, <2>4
<1>11. ASSUME once PROVE IsInjective(z)
  <2>1. /\ \A i, j \in 1 .. m : x[i] = x[j] => i = j
        /\ \A i, j \in 1 .. n : y[i] = y[j] => i = j
    BY <1>1, <1>2, <1>3, <1>11 DEF Lists, IsInjective
  <2>2. \A i \in 1 .. m, j \in 1 .. n : x[i] # y[j]
    BY <1>6, <1>11
  <2>3. ASSUME NEW k \in 1 .. m + n, NEW l \in 1 .. m + n, z[k] = z[l] PROVE k = l
    BY <1>9, <2>1, <2>2, <2>3
  <2>4. DOMAIN z = 1 .. m + n
    BY <1>5
  <2> QED  BY <2>3, <2>4 DEF IsInjective
<1> QED  BY <1>4, <1>5, <1>10, <1>11 DEF Lists

\* f[i] are the elements of seqs[i], which are apart if each is there once
ListsEach(seqs, B, f, once) ==
    /\ DOMAIN seqs = 1 .. Len(seqs) /\ Len(seqs) \in Nat
    /\ \A i \in 1 .. Len(seqs) : Lists(seqs[i], B, f[i], once)
    /\ once => \A i, j \in 1 .. Len(seqs) : i # j => f[i] \cap f[j] = {}

LEMMA Flattened ==
    ASSUME NEW B, NEW seqs, NEW f, NEW once \in BOOLEAN, ListsEach(seqs, B, f, once),
           seqs \in Seq(Seq(B))
    PROVE  Lists(FlattenSeq(seqs), B, UNION {f[i] : i \in 1 .. Len(seqs)}, once)
<1>1. PICK m \in Nat : m = Len(seqs)
  OBVIOUS
<1>2. /\ \A i \in 1 .. m : Lists(seqs[i], B, f[i], once)
      /\ once => \A i, j \in 1 .. m : i # j => f[i] \cap f[j] = {}
  BY <1>1 DEF ListsEach
<1>3. \A i \in 1 .. m : seqs[i] \in Seq(B)
  BY <1>1, ElementOfSeq
<1>4. CASE m = 0
  <2>1. FlattenSeq(seqs) = seqs /\ seqs = <<>>
    BY <1>1, <1>4, EmptySeq DEF FlattenSeq
  <2>2. UNION {f[i] : i \in 1 .. m} = {}
    BY <1>4
  <2> QED  BY <1>1, <2>1, <2>2, ListsNone DEF Lists
<1>5. CASE m # 0
  <2> DEFINE Is(v) == v = [i \in 1 .. Len(seqs) |-> IF i = 1 THEN seqs[i] ELSE v[i - 1] \o seqs[i]]
  <2>1. PICK X : X = Seq(B)
    OBVIOUS
  <2>2. PICK step : step = [p \in (1 .. m) \X X |-> p[2] \o seqs[p[1]]]
    OBVIOUS
  <2>3. ASSUME NEW n \in 1 .. m, NEW x \in X
        PROVE  step[<<n, x>>] = x \o seqs[n] /\ x \o seqs[n] \in X
    <3>1. <<n, x>> \in (1 .. m) \X X
      OBVIOUS
    <3>2. x \o seqs[n] \in X
      BY <1>3, <2>1, ConcatProperties
    <3> QED  BY <2>2, <3>1, <3>2
  <2>4. step \in [(1 .. m) \X X -> X]
    <3>1. ASSUME NEW p \in (1 .. m) \X X PROVE p[2] \o seqs[p[1]] \in X
      BY <2>3
    <3> QED  BY <2>2, <3>1
  <2>5. PICK start \in X : start = <<>>
    BY <2>1, EmptySeq
  <2>6. PICK v : Iterates(v, X, start, step, m)
    BY <2>4, <2>5, Iteration
  <2>7. /\ v \in [0 .. m -> X] /\ v[0] = start
        /\ \A n \in 1 .. m : v[n] = step[<<n, v[n - 1]>>]
    BY <2>6 DEF Iterates
  <2>8. PICK w : w = [i \in 1 .. m |-> v[i]]
    OBVIOUS
  <2>9. ASSUME NEW i \in 1 .. m PROVE v[i] = v[i - 1] \o seqs[i]
    <3>1. i - 1 \in 0 .. m
      OBVIOUS
    <3>2. PICK x \in X : x = v[i - 1]
      BY <2>7, <3>1
    <3> QED  BY <2>3, <2>7, <3>2
  <2>10. ASSUME NEW i \in 1 .. m
         PROVE  w[i] = IF i = 1 THEN seqs[i] ELSE w[i - 1] \o seqs[i]
    <3>1. CASE i = 1
      <4>1. 1 \in 1 .. m /\ 1 - 1 = 0
        BY <3>1
      <4>2. v[1] = v[0] \o seqs[1]
        BY <2>9, <4>1
      <4>3. v[0] \o seqs[1] = seqs[1]
        BY <1>3, <2>5, <2>7, <3>1, ConcatEmptySeq
      <4> QED  BY <2>8, <3>1, <4>2, <4>3
    <3>2. CASE i # 1
      <4>1. i - 1 \in 1 .. m
        BY <3>2
      <4> QED  BY <2>8, <2>9, <3>2, <4>1
    <3> QED  BY <3>1, <3>2
  <2>11. Is(w)
    BY <1>1, <2>8, <2>10
  <2>12. PICK c : c = CHOOSE u : Is(u)
    OBVIOUS
  <2>13. Is(c)
    <3> HIDE DEF Is
    <3> QED  BY <2>11, <2>12
  <2>14. FlattenSeq(seqs) = c[m]
    BY <1>1, <1>5, <2>12 DEF FlattenSeq
  <2>15. \A i \in 1 .. m : c[i] = IF i = 1 THEN seqs[i] ELSE c[i - 1] \o seqs[i]
    BY <1>1, <2>13
  <2> DEFINE All(n) == UNION {f[i] : i \in 1 .. n}
             Good(n) == Lists(c[n], B, All(n), once)
  <2>16. PICK U : U = {n \in 1 .. m : ~Good(n)}
    OBVIOUS
  <2>17. U = {}
    <3> SUFFICES ASSUME U # {} PROVE FALSE
      OBVIOUS
    <3>1. U \in SUBSET Nat
      BY <2>16
    <3>2. PICK n \in U : \A j \in U : n =< j
      BY <3>1, Least
    <3>3. n \in 1 .. m /\ ~Good(n)
      BY <2>16, <3>2
    <3>4. n # 1
      <4> SUFFICES ASSUME n = 1 PROVE FALSE
        OBVIOUS
      <4>1. c[1] = seqs[1] /\ Lists(seqs[1], B, f[1], once)
        BY <1>2, <2>15, <3>3
      <4>2. All(1) = f[1]
        <5>1. 1 .. 1 = {1}
          OBVIOUS
        <5> QED  BY <5>1
      <4> QED  BY <3>3, <4>1, <4>2
    <3>5. PICK k \in 1 .. m : k = n - 1 /\ n = k + 1 /\ ~(n =< k)
      BY <3>3, <3>4
    <3>6. Good(k)
      BY <2>16, <3>2, <3>5
    <3>7. Lists(seqs[n], B, f[n], once)
      BY <1>2, <3>3
    <3>8. c[n] = c[k] \o seqs[n]
      BY <2>15, <3>3, <3>4, <3>5
    <3>9. 1 .. n = (1 .. k) \cup {n}
      BY <3>5
    <3>10. All(n) = All(k) \cup f[n]
      BY <3>9
    <3>11. once => All(k) \cap f[n] = {}
      <4>1. \A i \in 1 .. k : i \in 1 .. m /\ i # n
        BY <3>3, <3>5
      <4> QED  BY <1>2, <3>3, <4>1
    <3>12. PICK A : A = All(k)
      OBVIOUS
    <3>13. Lists(c[k] \o seqs[n], B, A \cup f[n], once)
      <4>1. Lists(c[k], B, A, once) /\ (once => A \cap f[n] = {})
        BY <3>6, <3>11, <3>12
      <4>2. PICK x, y : x = c[k] /\ y = seqs[n]
        OBVIOUS
      <4>3. Lists(x, B, A, once) /\ Lists(y, B, f[n], once)
        BY <3>7, <4>1, <4>2
      <4>4. Lists(x \o y, B, A \cup f[n], once)
        BY <4>1, <4>3, ListsBoth
      <4> QED  BY <4>2, <4>4
    <3> QED  BY <3>3, <3>8, <3>10, <3>12, <3>13
  <2>18. m \in 1 .. m
    BY <1>5
  <2>19. Good(m)
    BY <2>16, <2>17, <2>18
  <2> QED  BY <1>1, <2>14, <2>19
<1> QED  BY <1>4, <1>5

\* A loop from the last number down to 0 has a first number that is bad.
LEMMA Greatest ==
    ASSUME NEW m \in Nat, NEW S \in SUBSET (0 .. m), S # {}
    PROVE  \E k \in S : \A j \in S : j =< k
<1>1. PICK U : U = {m - j : j \in S}
  OBVIOUS
<1>2. U \in SUBSET Nat /\ U # {}
  <2>1. \A j \in S : m - j \in Nat
    OBVIOUS
  <2>2. U \in SUBSET Nat
    BY <1>1, <2>1
  <2>3. U # {}
    BY <1>1
  <2> QED  BY <2>2, <2>3
<1>3. PICK u \in U : \A j \in U : u =< j
  BY <1>2, Least
<1>4. PICK k \in S : u = m - k
  BY <1>1
<1>5. ASSUME NEW j \in S PROVE j =< k
  <2>1. m - j \in U
    BY <1>1
  <2>2. m - k =< m - j
    BY <1>3, <1>4, <2>1
  <2> QED  BY <2>2
<1> QED  BY <1>5

-----------------------------------------------------------------------------
(***************************************************************************)
(* The walk over the PCI buses                                             *)
(***************************************************************************)

\* a configuration space, and the places where it has a function
Space(c) == DOMAIN c = Places /\ \A d \in Places : c[d] \in FunctionsOn(d[1])
There(c) == {d \in Places : c[d].there}

LEMMA PlaceIs ==
    ASSUME NEW d \in Places
    PROVE  /\ d = <<d[1], d[2], d[3]>>
           /\ d[1] \in 0 .. MaxBus /\ d[2] \in 0 .. MaxSlot /\ d[3] \in 0 .. MaxFunc
           /\ <<d[1], d[2], 0>> \in Places
<1>1. PICK A, B, D : A = 0 .. MaxBus /\ B = 0 .. MaxSlot /\ D = 0 .. MaxFunc
  OBVIOUS
<1>2. d \in A \X B \X D
  BY <1>1 DEF Places
<1>3. d = <<d[1], d[2], d[3]>> /\ d[1] \in A /\ d[2] \in B /\ d[3] \in D
  BY <1>2
<1>4. 0 \in D
  BY <1>1, PciAssumption
<1> QED  BY <1>1, <1>3, <1>4 DEF Places

LEMMA Fields ==
    ASSUME NEW T, NEW N, NEW H, NEW K, NEW S
    PROVE  /\ \A f \in [there : T, id : N, header : H, type : K] :
                 f.id \in N /\ f.header \in H /\ f.type \in K
           /\ \A f \in [there : T, id : N, header : H, type : K, secondary : S] :
                 f.id \in N /\ f.header \in H /\ f.type \in K /\ f.secondary \in S
OBVIOUS

LEMMA FunctionThere ==
    ASSUME NEW c, Space(c), NEW d \in There(c)
    PROVE  /\ d \in Places
           /\ c[d].id \in Numbers /\ c[d].header \in Headers /\ c[d].type \in Types
           /\ c[d].type = PCI_TYPE_BRIDGE => c[d].secondary \in d[1] + 1 .. MaxBus
<1>1. d \in Places /\ c[d].there
  BY Zenon DEF There
<1>2. PICK f : f = c[d]
  OBVIOUS
<1>3. f \in FunctionsOn(d[1])
  BY <1>1, <1>2 DEF Space
<1>4. f # Absent
  <2>1. ~Absent.there
    BY DEF Absent
  <2> QED  BY <1>1, <1>2, <2>1, Zenon
<1>5. \/ f \in [there : {TRUE}, id : Numbers, header : Headers, type : Types \ {PCI_TYPE_BRIDGE}]
      \/ f \in [there : {TRUE}, id : Numbers, header : Headers, type : {PCI_TYPE_BRIDGE},
                secondary : d[1] + 1 .. MaxBus]
  BY <1>3, <1>4, Zenon DEF FunctionsOn
<1>6. \/ f.id \in Numbers /\ f.header \in Headers /\ f.type \in Types \ {PCI_TYPE_BRIDGE}
      \/ /\ f.id \in Numbers /\ f.header \in Headers /\ f.type \in {PCI_TYPE_BRIDGE}
         /\ f.secondary \in d[1] + 1 .. MaxBus
  BY <1>5, Fields, Zenon
<1>7. PCI_TYPE_BRIDGE \in Types
  BY SMT DEF PCI_TYPE_BRIDGE, Types
<1>8. /\ f.id \in Numbers /\ f.header \in Headers /\ f.type \in Types
      /\ f.type = PCI_TYPE_BRIDGE => f.secondary \in d[1] + 1 .. MaxBus
  BY <1>6, <1>7, Zenon
<1> QED  BY <1>1, <1>2, <1>8, Zenon

LEMMA AnnouncedIs ==
    ASSUME NEW c, Space(c), NEW d
    PROVE  d \in Announced(c) <=>
              /\ d \in There(c) /\ <<d[1], d[2], 0>> \in There(c)
              /\ d[3] = 0 \/ c[<<d[1], d[2], 0>>].header # 0
<1>1. DOMAIN c = Places
  BY DEF Space
<1>2. d \in Places => <<d[1], d[2], 0>> \in Places
  BY PlaceIs
<1>3. d \in Announced(c) <=>
         /\ d \in Places /\ c[d].there /\ c[<<d[1], d[2], 0>>].there
         /\ d[3] = 0 \/ c[<<d[1], d[2], 0>>].header # 0
  BY <1>1, Zenon DEF Announced
<1>4. d \in There(c) <=> d \in Places /\ c[d].there
  BY Zenon DEF There
<1>5. <<d[1], d[2], 0>> \in There(c) <=> <<d[1], d[2], 0>> \in Places /\ c[<<d[1], d[2], 0>>].there
  BY Zenon DEF There
<1> QED  BY <1>2, <1>3, <1>4, <1>5, Zenon

\* the functions that answer on a bus, and in one of its slots
Answering(c, b) == {d \in Announced(c) : d[1] = b}
OnSlot(c, b, s) == {d \in Answering(c, b) : d[2] = s}

LEMMA OnSlotIs ==
    ASSUME NEW c, Space(c), NEW b \in 0 .. MaxBus, NEW s \in 0 .. MaxSlot
    PROVE  /\ <<b, s, 0>> \notin There(c) => OnSlot(c, b, s) = {}
           /\ <<b, s, 0>> \in There(c) =>
                 OnSlot(c, b, s) = {<<b, s, 0>>} \cup
                    (IF c[<<b, s, 0>>].header # 0
                       THEN {<<b, s, n>> : n \in {m \in 1 .. MaxFunc : <<b, s, m>> \in There(c)}}
                       ELSE {})
<1>1. ASSUME NEW d
      PROVE  d \in OnSlot(c, b, s) <=>
                /\ d \in There(c) /\ d[1] = b /\ d[2] = s /\ <<b, s, 0>> \in There(c)
                /\ d[3] = 0 \/ c[<<b, s, 0>>].header # 0
  BY AnnouncedIs, Zenon DEF OnSlot, Answering
<1>2. ASSUME NEW d \in There(c), d[1] = b, d[2] = s
      PROVE  d = <<b, s, d[3]>> /\ d[3] \in 0 .. MaxFunc
  BY <1>2, PlaceIs DEF There
<1>3. ASSUME <<b, s, 0>> \in There(c)
      PROVE  OnSlot(c, b, s) = {<<b, s, 0>>} \cup
                    (IF c[<<b, s, 0>>].header # 0
                       THEN {<<b, s, n>> : n \in {m \in 1 .. MaxFunc : <<b, s, m>> \in There(c)}}
                       ELSE {})
  <2>1. ASSUME NEW d \in OnSlot(c, b, s)
        PROVE  \/ d = <<b, s, 0>>
               \/ /\ c[<<b, s, 0>>].header # 0
                  /\ \E n \in 1 .. MaxFunc : <<b, s, n>> \in There(c) /\ d = <<b, s, n>>
    <3>1. d = <<b, s, d[3]>> /\ d[3] \in 0 .. MaxFunc /\ d \in There(c)
      BY <1>1, <1>2, <2>1
    <3>2. CASE d[3] = 0
      BY <3>1, <3>2
    <3>3. CASE d[3] # 0
      <4>1. d[3] \in 1 .. MaxFunc
        BY <3>1, <3>3
      <4>2. c[<<b, s, 0>>].header # 0
        BY <1>1, <2>1, <3>3
      <4> QED  BY <3>1, <4>1, <4>2
    <3> QED  BY <3>2, <3>3
  <2>2. <<b, s, 0>> \in OnSlot(c, b, s)
    BY <1>1, <1>3
  <2>3. ASSUME NEW n \in 1 .. MaxFunc, <<b, s, n>> \in There(c), c[<<b, s, 0>>].header # 0
        PROVE  <<b, s, n>> \in OnSlot(c, b, s)
    BY <1>1, <1>3, <2>3
  <2> QED  BY <2>1, <2>2, <2>3
<1>4. ASSUME <<b, s, 0>> \notin There(c) PROVE OnSlot(c, b, s) = {}
  BY <1>1, <1>4
<1> QED  BY <1>3, <1>4

\* what is found behind each function that answers on a bus
ScansEach(c, type, b, g, F, once) ==
    /\ \A d \in Answering(c, b) : Lists(Pci_ScanFunc(c, type, d, g), Places, F[d], once)
    /\ once => \A d, e \in Answering(c, b) : d # e => F[d] \cap F[e] = {}

OthersOf(c, b, s, F) ==
    UNION {F[<<b, s, n>>] : n \in {m \in 1 .. MaxFunc : <<b, s, m>> \in There(c)}}

LEMMA OthersListed ==
    ASSUME NEW c, NEW type, NEW g, NEW F, NEW once \in BOOLEAN, Space(c),
           NEW b \in 0 .. MaxBus, NEW s \in 0 .. MaxSlot, ScansEach(c, type, b, g, F, once),
           <<b, s, 0>> \in There(c), c[<<b, s, 0>>].header # 0
    PROVE  Lists(OtherFuncs(c, type, b, s, g), Places, OthersOf(c, b, s, F), once)
<1>1. PICK M \in Nat : M = MaxFunc
  BY PciAssumption
<1>2. PICK seqs : seqs = [n \in 1 .. M |->
                            IF c[<<b, s, n>>].there THEN Pci_ScanFunc(c, type, <<b, s, n>>, g)
                                                    ELSE <<>>]
  OBVIOUS
<1>3. PICK f : f = [n \in 1 .. M |-> IF <<b, s, n>> \in There(c) THEN F[<<b, s, n>>] ELSE {}]
  OBVIOUS
<1>4. ASSUME NEW n \in 1 .. M
      PROVE  /\ <<b, s, n>> \in There(c) <=> c[<<b, s, n>>].there
             /\ <<b, s, n>> \in There(c) => <<b, s, n>> \in OnSlot(c, b, s)
  <2>1. <<b, s, n>> \in Places
    <3>1. n \in 0 .. MaxFunc
      BY <1>1
    <3> QED  BY <3>1 DEF Places
  <2>2. <<b, s, n>> \in There(c) <=> c[<<b, s, n>>].there
    BY <2>1, Zenon DEF There
  <2>3. <<b, s, n>> \in There(c) => <<b, s, n>> \in OnSlot(c, b, s)
    BY <1>1, OnSlotIs
  <2> QED  BY <2>2, <2>3
<1>5. ASSUME NEW n \in 1 .. M PROVE Lists(seqs[n], Places, f[n], once)
  <2>1. CASE <<b, s, n>> \in There(c)
    <3>1. seqs[n] = Pci_ScanFunc(c, type, <<b, s, n>>, g)
      BY <1>2, <1>4, <2>1, Zenon
    <3>2. f[n] = F[<<b, s, n>>]
      BY <1>3, <2>1
    <3> QED  BY <1>4, <2>1, <3>1, <3>2 DEF ScansEach, OnSlot
  <2>2. CASE <<b, s, n>> \notin There(c)
    <3>1. seqs[n] = <<>>
      BY <1>2, <1>4, <2>2, Zenon
    <3>2. f[n] = {}
      BY <1>3, <2>2
    <3> QED  BY <3>1, <3>2, ListsNone DEF Lists
  <2> QED  BY <2>1, <2>2
<1>6. ASSUME once, NEW i \in 1 .. M, NEW j \in 1 .. M, i # j PROVE f[i] \cap f[j] = {}
  <2>1. CASE <<b, s, i>> \in There(c) /\ <<b, s, j>> \in There(c)
    <3>1. f[i] = F[<<b, s, i>>] /\ f[j] = F[<<b, s, j>>] /\ <<b, s, i>> # <<b, s, j>>
      BY <1>3, <1>6, <2>1
    <3> QED  BY <1>4, <1>6, <2>1, <3>1 DEF ScansEach, OnSlot
  <2> QED  BY <1>3, <2>1
<1>7. seqs \in Seq(Seq(Places)) /\ Len(seqs) = M /\ DOMAIN seqs = 1 .. M
  <2>1. \A n \in 1 .. M : seqs[n] \in Seq(Places)
    BY <1>5 DEF Lists
  <2>2. seqs \in [1 .. M -> Seq(Places)]
    BY <1>2, <2>1
  <2> QED  BY <2>2
<1>8. ListsEach(seqs, Places, f, once)
  BY <1>5, <1>6, <1>7 DEF ListsEach
<1>9. Lists(FlattenSeq(seqs), Places, UNION {f[i] : i \in 1 .. M}, once)
  <2>1. seqs \in Seq(Seq(Places)) /\ ListsEach(seqs, Places, f, once)
    BY <1>7, <1>8
  <2>2. Lists(FlattenSeq(seqs), Places, UNION {f[i] : i \in 1 .. Len(seqs)}, once)
    BY <2>1, Flattened
  <2> QED  BY <1>7, <2>2
<1>10. UNION {f[i] : i \in 1 .. M} = OthersOf(c, b, s, F)
  BY <1>1, <1>3 DEF OthersOf
<1>11. FlattenSeq(seqs) = OtherFuncs(c, type, b, s, g)
  BY <1>1, <1>2 DEF OtherFuncs
<1> QED  BY <1>1, <1>9, <1>10, <1>11

LEMMA SlotListed ==
    ASSUME NEW c, NEW type, NEW g, NEW F, NEW once \in BOOLEAN, Space(c),
           NEW b \in 0 .. MaxBus, NEW s \in 0 .. MaxSlot, ScansEach(c, type, b, g, F, once)
    PROVE  Lists(Pci_ScanSlot(c, type, b, s, g), Places,
                 UNION {F[d] : d \in OnSlot(c, b, s)}, once)
<1>1. <<b, s, 0>> \in Places
  BY PciAssumption DEF Places
<1>2. <<b, s, 0>> \in There(c) <=> c[<<b, s, 0>>].there
  BY <1>1, Zenon DEF There
<1>3. PICK e : e = <<b, s, 0>>
  OBVIOUS
<1>4. CASE <<b, s, 0>> \notin There(c)
  <2>1. Pci_ScanSlot(c, type, b, s, g) = <<>>
    BY <1>2, <1>4, Zenon DEF Pci_ScanSlot
  <2>2. UNION {F[d] : d \in OnSlot(c, b, s)} = {}
    BY <1>4, OnSlotIs
  <2> QED  BY <2>1, <2>2, ListsNone DEF Lists
<1>5. CASE <<b, s, 0>> \in There(c)
  <2>1. e \in OnSlot(c, b, s) /\ Lists(Pci_ScanFunc(c, type, e, g), Places, F[e], once)
    <3>1. e \in OnSlot(c, b, s)
      BY <1>3, <1>5, OnSlotIs
    <3> QED  BY <3>1 DEF ScansEach, OnSlot
  <2>2. CASE c[<<b, s, 0>>].header = 0
    <3>1. Pci_ScanSlot(c, type, b, s, g) = Pci_ScanFunc(c, type, e, g) \o <<>>
      BY <1>2, <1>3, <1>5, <2>2, Zenon DEF Pci_ScanSlot
    <3>2. Pci_ScanFunc(c, type, e, g) \o <<>> = Pci_ScanFunc(c, type, e, g)
      BY <2>1, ConcatEmptySeq DEF Lists
    <3>3. OnSlot(c, b, s) = {e}
      BY <1>3, <1>5, <2>2, OnSlotIs
    <3>4. UNION {F[d] : d \in OnSlot(c, b, s)} = F[e]
      BY <3>3
    <3> QED  BY <2>1, <3>1, <3>2, <3>4
  <2>3. CASE c[<<b, s, 0>>].header # 0
    <3>1. Pci_ScanSlot(c, type, b, s, g)
            = Pci_ScanFunc(c, type, e, g) \o OtherFuncs(c, type, b, s, g)
      BY <1>2, <1>3, <1>5, <2>3, Zenon DEF Pci_ScanSlot
    <3>2. PICK N : N = {m \in 1 .. MaxFunc : <<b, s, m>> \in There(c)}
      OBVIOUS
    <3>3. PICK O : O = UNION {F[<<b, s, n>>] : n \in N}
      OBVIOUS
    <3>4. Lists(OtherFuncs(c, type, b, s, g), Places, O, once)
      <4>1. Lists(OtherFuncs(c, type, b, s, g), Places, OthersOf(c, b, s, F), once)
        BY <1>5, <2>3, OthersListed
      <4>2. O = OthersOf(c, b, s, F)
        BY <3>2, <3>3 DEF OthersOf
      <4> QED  BY <4>1, <4>2
    <3>5. OnSlot(c, b, s) = {e} \cup {<<b, s, n>> : n \in N}
      BY <1>3, <1>5, <2>3, <3>2, OnSlotIs
    <3>6. UNION {F[d] : d \in OnSlot(c, b, s)} = F[e] \cup O
      BY <3>3, <3>5
    <3>7. ASSUME once PROVE F[e] \cap O = {}
      <4>1. ASSUME NEW n \in N PROVE F[e] \cap F[<<b, s, n>>] = {}
        <5>1. <<b, s, n>> # e /\ <<b, s, n>> \in OnSlot(c, b, s)
          BY <1>3, <3>2, <3>5, PciAssumption
        <5> QED  BY <2>1, <3>7, <5>1 DEF ScansEach, OnSlot
      <4> QED  BY <3>3, <4>1
    <3>8. Lists(Pci_ScanFunc(c, type, e, g) \o OtherFuncs(c, type, b, s, g), Places,
                F[e] \cup O, once)
      BY <2>1, <3>4, <3>7, ListsBoth
    <3> QED  BY <3>1, <3>6, <3>8
  <2> QED  BY <2>2, <2>3
<1> QED  BY <1>4, <1>5

\* the scan of a bus, slot after slot
Flat(c, type, b, g) ==
    FlattenSeq([i \in 1 .. MaxSlot + 1 |-> Pci_ScanSlot(c, type, b, i - 1, g)])

LEMMA BusListed ==
    ASSUME NEW c, NEW type, NEW g, NEW F, NEW once \in BOOLEAN, Space(c),
           NEW b \in 0 .. MaxBus, ScansEach(c, type, b, g, F, once)
    PROVE  Lists(Flat(c, type, b, g), Places, UNION {F[d] : d \in Answering(c, b)}, once)
<1>1. PICK M \in Nat : M = MaxSlot + 1
  BY PciAssumption
<1>2. PICK seqs : seqs = [i \in 1 .. M |-> Pci_ScanSlot(c, type, b, i - 1, g)]
  OBVIOUS
<1>3. PICK f : f = [i \in 1 .. M |-> UNION {F[d] : d \in OnSlot(c, b, i - 1)}]
  OBVIOUS
<1>4. \A i \in 1 .. M : i - 1 \in 0 .. MaxSlot
  BY <1>1, PciAssumption
<1>5. ASSUME NEW i \in 1 .. M PROVE Lists(seqs[i], Places, f[i], once)
  <2>1. PICK s \in 0 .. MaxSlot : s = i - 1
    BY <1>4
  <2>2. Lists(Pci_ScanSlot(c, type, b, s, g), Places, UNION {F[d] : d \in OnSlot(c, b, s)}, once)
    BY SlotListed
  <2>3. seqs[i] = Pci_ScanSlot(c, type, b, s, g)
    BY <1>2, <2>1
  <2>4. f[i] = UNION {F[d] : d \in OnSlot(c, b, s)}
    BY <1>3, <2>1
  <2> QED  BY <2>2, <2>3, <2>4
<1>6. ASSUME once, NEW i \in 1 .. M, NEW j \in 1 .. M, i # j PROVE f[i] \cap f[j] = {}
  <2>1. i - 1 # j - 1
    BY <1>6
  <2>2. ASSUME NEW d \in OnSlot(c, b, i - 1), NEW e \in OnSlot(c, b, j - 1)
        PROVE  F[d] \cap F[e] = {}
    BY <1>6, <2>1 DEF OnSlot, ScansEach
  <2> QED  BY <1>3, <2>2
<1>7. seqs \in Seq(Seq(Places)) /\ Len(seqs) = M /\ DOMAIN seqs = 1 .. M
  <2>1. \A n \in 1 .. M : seqs[n] \in Seq(Places)
    BY <1>5 DEF Lists
  <2>2. seqs \in [1 .. M -> Seq(Places)]
    BY <1>2, <2>1
  <2> QED  BY <2>2
<1>8. ListsEach(seqs, Places, f, once)
  BY <1>5, <1>6, <1>7 DEF ListsEach
<1>9. Lists(FlattenSeq(seqs), Places, UNION {f[i] : i \in 1 .. M}, once)
  <2>1. seqs \in Seq(Seq(Places)) /\ ListsEach(seqs, Places, f, once)
    BY <1>7, <1>8
  <2>2. Lists(FlattenSeq(seqs), Places, UNION {f[i] : i \in 1 .. Len(seqs)}, once)
    BY <2>1, Flattened
  <2> QED  BY <1>7, <2>2
<1>10. UNION {f[i] : i \in 1 .. M} = UNION {F[d] : d \in Answering(c, b)}
  <2>1. ASSUME NEW d \in Answering(c, b)
        PROVE  \E i \in 1 .. M : d \in OnSlot(c, b, i - 1)
    <3>1. d \in Places
      BY AnnouncedIs DEF Answering, There
    <3>2. PICK s \in 0 .. MaxSlot : s = d[2]
      BY <3>1, PlaceIs
    <3>3. s + 1 \in 1 .. M /\ (s + 1) - 1 = s
      BY <1>1, PciAssumption
    <3>4. d \in OnSlot(c, b, (s + 1) - 1)
      BY <3>2, <3>3 DEF OnSlot
    <3> QED  BY <3>3, <3>4
  <2>2. \A i \in 1 .. M : OnSlot(c, b, i - 1) \subseteq Answering(c, b)
    BY DEF OnSlot
  <2> QED  BY <1>3, <2>1, <2>2
<1>11. FlattenSeq(seqs) = Flat(c, type, b, g)
  BY <1>1, <1>2 DEF Flat
<1> QED  BY <1>9, <1>10, <1>11

\* The scan of a bus depends on the scans of higher buses only.
LEMMA FlatLocal ==
    ASSUME NEW c, NEW type, NEW g, NEW h, Space(c), NEW b \in 0 .. MaxBus,
           \A x \in b + 1 .. MaxBus : g[x] = h[x]
    PROVE  Flat(c, type, b, g) = Flat(c, type, b, h)
<1>1. ASSUME NEW d \in There(c), d[1] = b
      PROVE  Pci_ScanFunc(c, type, d, g) = Pci_ScanFunc(c, type, d, h)
  <2>1. c[d].type = PCI_TYPE_BRIDGE => g[c[d].secondary] = h[c[d].secondary]
    BY <1>1, FunctionThere
  <2> QED  BY <2>1 DEF Pci_ScanFunc
<1>2. ASSUME NEW s \in 0 .. MaxSlot, NEW n \in 0 .. MaxFunc, c[<<b, s, n>>].there
      PROVE  Pci_ScanFunc(c, type, <<b, s, n>>, g) = Pci_ScanFunc(c, type, <<b, s, n>>, h)
  <2>1. <<b, s, n>> \in Places
    BY DEF Places
  <2>2. <<b, s, n>> \in There(c)
    BY <1>2, <2>1, Zenon DEF There
  <2> QED  BY <1>1, <2>2
<1>3. ASSUME NEW s \in 0 .. MaxSlot
      PROVE  OtherFuncs(c, type, b, s, g) = OtherFuncs(c, type, b, s, h)
  <2> DEFINE One(n, k) ==
               IF c[<<b, s, n>>].there THEN Pci_ScanFunc(c, type, <<b, s, n>>, k) ELSE <<>>
  <2>1. ASSUME NEW n \in 1 .. MaxFunc PROVE One(n, g) = One(n, h)
    <3>1. n \in 0 .. MaxFunc
      BY PciAssumption
    <3> QED  BY <1>2, <3>1, Zenon
  <2>2. [n \in 1 .. MaxFunc |-> One(n, g)] = [n \in 1 .. MaxFunc |-> One(n, h)]
    <3> HIDE DEF One
    <3> QED  BY <2>1
  <2> QED  BY <2>2, Zenon DEF OtherFuncs
<1>4. ASSUME NEW s \in 0 .. MaxSlot
      PROVE  Pci_ScanSlot(c, type, b, s, g) = Pci_ScanSlot(c, type, b, s, h)
  <2>1. 0 \in 0 .. MaxFunc
    BY PciAssumption
  <2>2. CASE ~c[<<b, s, 0>>].there
    BY <2>2, Zenon DEF Pci_ScanSlot
  <2>3. CASE c[<<b, s, 0>>].there
    <3>1. Pci_ScanFunc(c, type, <<b, s, 0>>, g) = Pci_ScanFunc(c, type, <<b, s, 0>>, h)
      BY <1>2, <2>1, <2>3
    <3> QED  BY <1>3, <3>1, Zenon DEF Pci_ScanSlot
  <2> QED  BY <2>2, <2>3
<1>5. ASSUME NEW i \in 1 .. MaxSlot + 1
      PROVE  Pci_ScanSlot(c, type, b, i - 1, g) = Pci_ScanSlot(c, type, b, i - 1, h)
  <2>1. i - 1 \in 0 .. MaxSlot
    BY PciAssumption
  <2> QED  BY <1>4, <2>1
<1>6. [i \in 1 .. MaxSlot + 1 |-> Pci_ScanSlot(c, type, b, i - 1, g)]
        = [i \in 1 .. MaxSlot + 1 |-> Pci_ScanSlot(c, type, b, i - 1, h)]
  BY <1>5
<1> QED  BY <1>6 DEF Flat

\* So there is a walk over all buses, and Pci_ScanBus is one.
LEMMA ScanBusIs ==
    ASSUME NEW c, NEW type, Space(c)
    PROVE  \A b \in 0 .. MaxBus :
              Pci_ScanBus(c, type)[b] = Flat(c, type, b, Pci_ScanBus(c, type))
<1> DEFINE From(k, f) == \A b \in k .. MaxBus : f[b] = Flat(c, type, b, f)
<1>1. PICK U : U = {k \in 0 .. MaxBus + 1 : \E f : From(k, f)}
  OBVIOUS
<1>2. MaxBus + 1 \in U
  <2>1. MaxBus + 1 \in 0 .. MaxBus + 1 /\ MaxBus + 1 .. MaxBus = {}
    BY PciAssumption
  <2> QED  BY <1>1, <2>1
<1>3. U \in SUBSET Nat
  BY <1>1
<1>4. PICK k \in U : \A j \in U : k =< j
  BY <1>2, <1>3, Least
<1>5. k \in 0 .. MaxBus + 1
  BY <1>1, <1>4
<1>6. PICK f : From(k, f)
  BY <1>1, <1>4
<1>7. k = 0
  <2> SUFFICES ASSUME k # 0 PROVE FALSE
    OBVIOUS
  <2>1. PICK j \in 0 .. MaxBus : j = k - 1 /\ j + 1 = k /\ ~(k =< j)
    BY <1>5, PciAssumption
  <2>2. j \in 0 .. MaxBus + 1
    BY <2>1, PciAssumption
  <2>3. PICK h : h = [x \in 0 .. MaxBus |-> IF x = j THEN Flat(c, type, j, f) ELSE f[x]]
    OBVIOUS
  <2>4. \A x \in k .. MaxBus : h[x] = f[x]
    <3>1. \A x \in k .. MaxBus : x \in 0 .. MaxBus /\ x # j
      BY <1>5, <2>1
    <3> QED  BY <2>3, <3>1
  <2>5. ASSUME NEW b \in j .. MaxBus PROVE h[b] = Flat(c, type, b, h)
    <3>1. b \in 0 .. MaxBus
      BY <2>1
    <3>2. \A x \in b + 1 .. MaxBus : f[x] = h[x]
      <4>1. \A x \in b + 1 .. MaxBus : x \in k .. MaxBus
        BY <1>5, <2>1
      <4> QED  BY <2>4, <4>1
    <3>3. Flat(c, type, b, f) = Flat(c, type, b, h)
      BY <3>1, <3>2, FlatLocal
    <3>4. CASE b = j
      <4>1. h[j] = Flat(c, type, j, f)
        BY <2>3
      <4> QED  BY <3>3, <3>4, <4>1
    <3>5. CASE b # j
      <4>1. b \in k .. MaxBus
        BY <1>5, <2>1, <3>5
      <4> QED  BY <1>6, <2>4, <3>3, <4>1
    <3> QED  BY <3>4, <3>5
  <2>6. j \in U
    BY <1>1, <2>2, <2>5
  <2> QED  BY <1>4, <2>1, <2>6
<1>8. PICK g : g = [b \in 0 .. MaxBus |-> f[b]]
  OBVIOUS
<1>9. ASSUME NEW b \in 0 .. MaxBus PROVE g[b] = Flat(c, type, b, g)
  <2>1. f[b] = Flat(c, type, b, f)
    BY <1>6, <1>7
  <2>2. \A x \in b + 1 .. MaxBus : f[x] = g[x]
    BY <1>8
  <2>3. Flat(c, type, b, f) = Flat(c, type, b, g)
    BY <2>2, FlatLocal
  <2> QED  BY <1>8, <2>1, <2>3
<1> DEFINE Is(v) == v = [b \in 0 .. MaxBus |-> Flat(c, type, b, v)]
<1>10. Is(g)
  BY <1>8, <1>9
<1>11. PICK v : v = CHOOSE u : Is(u)
  OBVIOUS
<1>12. Is(v)
  <2> HIDE DEF Is
  <2> QED  BY <1>10, <1>11
<1>13. Pci_ScanBus(c, type) = v
  BY <1>11 DEF Pci_ScanBus, Flat
<1> QED  BY <1>12, <1>13

\* the calls of a bus; and the function itself, and what is behind a bridge
Calls(c, type, b) == ToSet(Pci_ScanBus(c, type)[b])
Asked(c, type, d) == IF type \in {AnyType, c[d].type} THEN {d} ELSE {}
Found(c, type, d) ==
    Asked(c, type, d) \cup (IF IsBridge(c[d]) THEN Calls(c, type, c[d].secondary) ELSE {})

\* the scan of a bus is a list of places, without doubles if it should be
Scanned(c, type, b, once) ==
    Lists(Pci_ScanBus(c, type)[b], Places, Calls(c, type, b), once)

LEMMA FuncListed ==
    ASSUME NEW c, NEW type, Space(c), NEW d \in There(c), NEW once \in BOOLEAN,
           IsBridge(c[d]) => /\ Scanned(c, type, c[d].secondary, once)
                             /\ once => d \notin Calls(c, type, c[d].secondary)
    PROVE  Lists(Pci_ScanFunc(c, type, d, Pci_ScanBus(c, type)), Places,
                 Found(c, type, d), once)
<1>1. PICK x : x = IF type \in {AnyType, c[d].type} THEN <<d>> ELSE <<>>
  OBVIOUS
<1>2. PICK y : y = IF IsBridge(c[d]) THEN Pci_ScanBus(c, type)[c[d].secondary] ELSE <<>>
  OBVIOUS
<1>3. PICK T : T = IF IsBridge(c[d]) THEN Calls(c, type, c[d].secondary) ELSE {}
  OBVIOUS
<1>4. Pci_ScanFunc(c, type, d, Pci_ScanBus(c, type)) = x \o y
  BY <1>1, <1>2 DEF Pci_ScanFunc, IsBridge
<1>5. d \in Places
  BY FunctionThere
<1>6. Lists(x, Places, Asked(c, type, d), once)
  <2>1. Lists(<<>>, Places, {}, once) /\ Lists(<<d>>, Places, {d}, once)
    BY <1>5, ListsNone, ListsOne DEF Lists
  <2>2. CASE type \in {AnyType, c[d].type}
    BY <1>1, <2>1, <2>2 DEF Asked
  <2>3. CASE type \notin {AnyType, c[d].type}
    BY <1>1, <2>1, <2>3 DEF Asked
  <2> QED  BY <2>2, <2>3
<1>7. Lists(y, Places, T, once)
  <2>1. Lists(<<>>, Places, {}, once)
    BY ListsNone DEF Lists
  <2>2. CASE IsBridge(c[d])
    BY <1>2, <1>3, <2>2 DEF Scanned
  <2>3. CASE ~IsBridge(c[d])
    BY <1>2, <1>3, <2>1, <2>3
  <2> QED  BY <2>2, <2>3
<1>8. once => Asked(c, type, d) \cap T = {}
  BY <1>3 DEF Asked
<1>9. Lists(x \o y, Places, Asked(c, type, d) \cup T, once)
  BY <1>6, <1>7, <1>8, ListsBoth
<1> QED  BY <1>3, <1>4, <1>9 DEF Found

\* If the higher buses' lists are as they should be, and apart, so is this one.
LEMMA BusScanned ==
    ASSUME NEW c, NEW type, Space(c), NEW b \in 0 .. MaxBus, NEW once \in BOOLEAN,
           \A d \in Answering(c, b) :
              IsBridge(c[d]) => /\ Scanned(c, type, c[d].secondary, once)
                                /\ once => d \notin Calls(c, type, c[d].secondary),
           once => \A d, e \in Answering(c, b) :
                      d # e => Found(c, type, d) \cap Found(c, type, e) = {}
    PROVE  Lists(Pci_ScanBus(c, type)[b], Places,
                 UNION {Found(c, type, d) : d \in Answering(c, b)}, once)
<1>1. PICK F : F = [d \in Places |-> Found(c, type, d)]
  OBVIOUS
<1>2. \A d \in Answering(c, b) : d \in There(c) /\ d \in Places /\ F[d] = Found(c, type, d)
  <2>1. \A d \in Answering(c, b) : d \in There(c)
    BY AnnouncedIs DEF Answering
  <2> QED  BY <1>1, <2>1 DEF There
<1>3. PICK g : g = Pci_ScanBus(c, type)
  OBVIOUS
<1>4. ASSUME NEW d \in Answering(c, b)
      PROVE  Lists(Pci_ScanFunc(c, type, d, g), Places, F[d], once)
  BY <1>2, <1>3, FuncListed
<1>5. ScansEach(c, type, b, g, F, once)
  BY <1>2, <1>4 DEF ScansEach
<1>6. Lists(Flat(c, type, b, g), Places, UNION {F[d] : d \in Answering(c, b)}, once)
  BY <1>5, BusListed
<1>7. UNION {F[d] : d \in Answering(c, b)} = UNION {Found(c, type, d) : d \in Answering(c, b)}
  BY <1>2
<1> QED  BY <1>3, <1>6, <1>7, ScanBusIs

\* The scan of a bus is of places, and calls for what its functions lead to.
LEMMA CallsAre ==
    ASSUME NEW c, NEW type, Space(c), NEW b \in 0 .. MaxBus
    PROVE  /\ Scanned(c, type, b, FALSE)
           /\ Calls(c, type, b) = UNION {Found(c, type, d) : d \in Answering(c, b)}
<1>1. ASSUME NEW x \in 0 .. MaxBus, \A y \in x + 1 .. MaxBus : Scanned(c, type, y, FALSE)
      PROVE  /\ Scanned(c, type, x, FALSE)
             /\ Calls(c, type, x) = UNION {Found(c, type, d) : d \in Answering(c, x)}
  <2>1. ASSUME NEW d \in Answering(c, x), IsBridge(c[d])
        PROVE  Scanned(c, type, c[d].secondary, FALSE)
    <3>1. d \in There(c) /\ d[1] = x
      BY AnnouncedIs DEF Answering
    <3>2. c[d].secondary \in x + 1 .. MaxBus
      BY <2>1, <3>1, FunctionThere DEF IsBridge
    <3> QED  BY <1>1, <3>2
  <2>2. Lists(Pci_ScanBus(c, type)[x], Places,
              UNION {Found(c, type, d) : d \in Answering(c, x)}, FALSE)
    BY <2>1, BusScanned
  <2> QED  BY <2>2 DEF Lists, Scanned, Calls
<1>2. PICK S : S = {x \in 0 .. MaxBus : ~Scanned(c, type, x, FALSE)}
  OBVIOUS
<1>3. S = {}
  <2> SUFFICES ASSUME S # {} PROVE FALSE
    OBVIOUS
  <2>1. S \in SUBSET (0 .. MaxBus) /\ MaxBus \in Nat
    BY <1>2, PciAssumption
  <2>2. PICK x \in S : \A y \in S : y =< x
    BY <2>1, Greatest
  <2>3. x \in 0 .. MaxBus /\ ~Scanned(c, type, x, FALSE)
    BY <1>2
  <2>4. \A y \in x + 1 .. MaxBus : y \in 0 .. MaxBus /\ ~(y =< x)
    BY <2>3
  <2>5. \A y \in x + 1 .. MaxBus : Scanned(c, type, y, FALSE)
    BY <1>2, <2>2, <2>4
  <2> QED  BY <1>1, <2>3, <2>5
<1>4. \A y \in b + 1 .. MaxBus : Scanned(c, type, y, FALSE)
  <2>1. \A y \in b + 1 .. MaxBus : y \in 0 .. MaxBus
    OBVIOUS
  <2> QED  BY <1>2, <1>3, <2>1
<1> QED  BY <1>1, <1>4

\* buses that no bridge leads out of, and the asked functions on them
Closed(c, on) ==
    /\ on \in SUBSET (0 .. MaxBus)
    /\ \A d \in Announced(c) : d[1] \in on /\ IsBridge(c[d]) => c[d].secondary \in on
WantedOn(c, type, on) == {d \in Announced(c) : d[1] \in on /\ type \in {AnyType, c[d].type}}

\* The scan of a bus stays on the buses that it leads to.
LEMMA CallsInside ==
    ASSUME NEW c, NEW type, Space(c), NEW on, Closed(c, on)
    PROVE  \A b \in on : Calls(c, type, b) \subseteq WantedOn(c, type, on)
<1>1. on \in SUBSET (0 .. MaxBus) /\ MaxBus \in Nat
  BY PciAssumption DEF Closed
<1>2. PICK S : S = {x \in on : ~(Calls(c, type, x) \subseteq WantedOn(c, type, on))}
  OBVIOUS
<1> SUFFICES ASSUME S # {} PROVE FALSE
  BY <1>2
<1>3. S \in SUBSET (0 .. MaxBus)
  BY <1>1, <1>2
<1>4. PICK x \in S : \A y \in S : y =< x
  BY <1>1, <1>3, Greatest
<1>5. x \in on /\ x \in 0 .. MaxBus
  BY <1>1, <1>2
<1>6. ASSUME NEW d \in Answering(c, x) PROVE Found(c, type, d) \subseteq WantedOn(c, type, on)
  <2>1. d \in Announced(c) /\ d[1] = x /\ d \in There(c)
    BY AnnouncedIs DEF Answering
  <2>2. Asked(c, type, d) \subseteq WantedOn(c, type, on)
    BY <1>5, <2>1 DEF Asked, WantedOn
  <2>3. ASSUME IsBridge(c[d]) PROVE Calls(c, type, c[d].secondary) \subseteq WantedOn(c, type, on)
    <3>1. PICK y \in x + 1 .. MaxBus : y = c[d].secondary
      BY <2>1, <2>3, FunctionThere DEF IsBridge
    <3>2. y \in on /\ ~(y =< x)
      BY <1>5, <2>1, <2>3, <3>1 DEF Closed
    <3>3. y \notin S
      BY <1>4, <3>2
    <3> QED  BY <1>2, <3>1, <3>2, <3>3
  <2> QED  BY <2>2, <2>3 DEF Found
<1>7. Calls(c, type, x) = UNION {Found(c, type, d) : d \in Answering(c, x)}
  BY <1>5, CallsAre
<1>8. Calls(c, type, x) \subseteq WantedOn(c, type, on)
  BY <1>6, <1>7
<1> QED  BY <1>2, <1>8

\* What can be reached is closed, and no more than it must be.
LEMMA ReachedIs ==
    ASSUME NEW c, Space(c), Roots(c) \subseteq 0 .. MaxBus
    PROVE  /\ Closed(c, Reached(c)) /\ Roots(c) \subseteq Reached(c)
           /\ \A on : Closed(c, on) /\ Roots(c) \subseteq on => Reached(c) \subseteq on
<1>1. PICK U : U = {on \in SUBSET (0 .. MaxBus) :
                      /\ Roots(c) \subseteq on
                      /\ \A d \in Announced(c) :
                            d[1] \in on /\ IsBridge(c[d]) => c[d].secondary \in on}
  OBVIOUS
<1>2. Reached(c) = {b \in 0 .. MaxBus : \A on \in U : b \in on}
  BY <1>1 DEF Reached
<1>3. \A on : on \in U <=> Closed(c, on) /\ Roots(c) \subseteq on
  BY <1>1 DEF Closed
<1>4. Roots(c) \subseteq Reached(c)
  BY <1>2, <1>3
<1>5. ASSUME NEW d \in Announced(c), d[1] \in Reached(c), IsBridge(c[d])
      PROVE  c[d].secondary \in Reached(c)
  <2>1. d \in There(c) /\ d \in Places
    BY AnnouncedIs, FunctionThere
  <2>2. PICK y \in d[1] + 1 .. MaxBus : y = c[d].secondary
    BY <1>5, <2>1, FunctionThere DEF IsBridge
  <2>3. y \in 0 .. MaxBus
    <3>1. d[1] \in 0 .. MaxBus
      BY <2>1, PlaceIs
    <3> QED  BY <2>2, <3>1
  <2>4. ASSUME NEW on \in U PROVE y \in on
    BY <1>2, <1>3, <1>5, <2>2, <2>4 DEF Closed
  <2> QED  BY <1>2, <2>2, <2>3, <2>4
<1>6. Closed(c, Reached(c))
  BY <1>2, <1>5 DEF Closed
<1>7. ASSUME NEW on, Closed(c, on), Roots(c) \subseteq on PROVE Reached(c) \subseteq on
  BY <1>2, <1>3, <1>7
<1> QED  BY <1>4, <1>6, <1>7

\* The scan starts at the roots, which are the first buses.
LEMMA RootsAre ==
    ASSUME NEW c, NEW type, Space(c)
    PROVE  \E last \in 0 .. MaxBus :
              /\ Roots(c) = 0 .. last
              /\ Pci_Scan(c, type)
                   = FlattenSeq([i \in 1 .. last + 1 |-> Pci_ScanBus(c, type)[i - 1]])
<1>1. PICK host : host = c[<<0, 0, 0>>]
  OBVIOUS
<1>2. PICK last : last = IF ~MultiFunction(host) THEN 0
                         ELSE IF HostFuncs(c) # {} THEN Cardinality(HostFuncs(c)) - 1 ELSE MaxBus
  OBVIOUS
<1>3. Pci_Scan(c, type) = FlattenSeq([i \in 1 .. last + 1 |-> Pci_ScanBus(c, type)[i - 1]])
  BY <1>1, <1>2 DEF Pci_Scan
<1>4. Roots(c) = IF ~host.there THEN 0 .. MaxBus
                 ELSE IF ~MultiFunction(host) THEN {0} ELSE HostFuncs(c)
  BY <1>1, Zenon DEF Roots, HostFuncs
<1>5. ~host.there => MultiFunction(host) /\ HostFuncs(c) = {}
  <2>1. ~host.there => HeaderType(host) = 255
    BY Zenon DEF HeaderType
  <2>2. ~host.there => MultiFunction(host)
    BY <2>1 DEF MultiFunction
  <2>3. ASSUME ~host.there, NEW n \in HostFuncs(c) PROVE FALSE
    <3>1. 0 \in 0 .. n
      BY DEF HostFuncs
    <3>2. c[<<0, 0, 0>>].there
      BY <3>1 DEF HostFuncs
    <3> QED  BY <1>1, <2>3, <3>2
  <2> QED  BY <2>2, <2>3
<1>6. host.there => 0 \in HostFuncs(c)
  <2>1. 0 .. 0 = {0} /\ 0 \in 0 .. MaxFunc
    BY PciAssumption
  <2>2. ASSUME host.there PROVE \A m \in 0 .. 0 : c[<<0, 0, m>>].there
    <3>1. \A m \in 0 .. 0 : m = 0
      BY <2>1
    <3> QED  BY <1>1, <2>2, <3>1, Zenon
  <2> QED  BY <2>1, <2>2, Zenon DEF HostFuncs
<1>7. HostFuncs(c) # {} => \E k \in 0 .. MaxFunc : HostFuncs(c) = 0 .. k
  <2> SUFFICES ASSUME HostFuncs(c) # {} PROVE \E k \in 0 .. MaxFunc : HostFuncs(c) = 0 .. k
    OBVIOUS
  <2>1. HostFuncs(c) \in SUBSET (0 .. MaxFunc) /\ MaxFunc \in Nat
    BY PciAssumption DEF HostFuncs
  <2>2. PICK k \in HostFuncs(c) : \A j \in HostFuncs(c) : j =< k
    BY <2>1, Greatest
  <2>3. k \in 0 .. MaxFunc /\ \A m \in 0 .. k : c[<<0, 0, m>>].there
    BY Zenon DEF HostFuncs
  <2>4. ASSUME NEW n \in 0 .. k PROVE n \in HostFuncs(c)
    <3>1. k \in Nat /\ MaxFunc \in Nat /\ k =< MaxFunc
      BY <2>1, <2>3
    <3>2. n \in 0 .. MaxFunc /\ \A m \in 0 .. n : m \in 0 .. k
      BY <3>1
    <3>3. \A m \in 0 .. n : c[<<0, 0, m>>].there
      BY <2>3, <3>2, Zenon
    <3> QED  BY <3>2, <3>3, Zenon DEF HostFuncs
  <2>5. ASSUME NEW n \in HostFuncs(c) PROVE n \in 0 .. k
    BY <2>1, <2>2, <2>3
  <2> QED  BY <2>3, <2>4, <2>5
<1>8. 0 \in 0 .. MaxBus /\ MaxBus \in 0 .. MaxBus /\ 0 .. 0 = {0}
  BY PciAssumption
<1>9. CASE ~host.there
  <2>1. last = MaxBus
    BY <1>2, <1>5, <1>9
  <2> QED  BY <1>3, <1>4, <1>8, <1>9, <2>1
<1>10. CASE host.there /\ ~MultiFunction(host)
  BY <1>2, <1>3, <1>4, <1>8, <1>10
<1>11. CASE host.there /\ MultiFunction(host)
  <2>1. PICK k \in 0 .. MaxFunc : HostFuncs(c) = 0 .. k
    BY <1>6, <1>7, <1>11
  <2>2. k \in 0 .. MaxBus /\ k \in Int
    BY PciAssumption
  <2>3. Cardinality(0 .. k) = k + 1
    BY <2>2, FS_Interval
  <2>4. last = k
    BY <1>2, <1>6, <1>11, <2>1, <2>2, <2>3
  <2>5. Roots(c) = 0 .. last
    BY <1>4, <1>11, <2>1, <2>4
  <2> QED  BY <1>3, <2>2, <2>4, <2>5
<1> QED  BY <1>9, <1>10, <1>11

\* The scan calls for what the roots lead to.
LEMMA RootsListed ==
    ASSUME NEW c, NEW type, Space(c), NEW once \in BOOLEAN,
           \A r \in Roots(c) : Scanned(c, type, r, once),
           once => \A r, q \in Roots(c) :
                      r # q => Calls(c, type, r) \cap Calls(c, type, q) = {}
    PROVE  Lists(Pci_Scan(c, type), Places, UNION {Calls(c, type, r) : r \in Roots(c)}, once)
<1>1. PICK last \in 0 .. MaxBus :
         /\ Roots(c) = 0 .. last
         /\ Pci_Scan(c, type)
              = FlattenSeq([i \in 1 .. last + 1 |-> Pci_ScanBus(c, type)[i - 1]])
  BY RootsAre
<1>2. PICK m \in Nat : m = last + 1
  OBVIOUS
<1>3. PICK seqs : seqs = [i \in 1 .. m |-> Pci_ScanBus(c, type)[i - 1]]
  OBVIOUS
<1>4. PICK f : f = [i \in 1 .. m |-> Calls(c, type, i - 1)]
  OBVIOUS
<1>5. \A i \in 1 .. m : i - 1 \in Roots(c)
  BY <1>1, <1>2
<1>6. ASSUME NEW i \in 1 .. m PROVE Lists(seqs[i], Places, f[i], once)
  BY <1>3, <1>4, <1>5 DEF Scanned
<1>7. ASSUME once, NEW i \in 1 .. m, NEW j \in 1 .. m, i # j PROVE f[i] \cap f[j] = {}
  <2>1. i - 1 # j - 1
    BY <1>7
  <2> QED  BY <1>4, <1>5, <1>7, <2>1
<1>8. seqs \in Seq(Seq(Places)) /\ Len(seqs) = m /\ DOMAIN seqs = 1 .. m
  <2>1. \A n \in 1 .. m : seqs[n] \in Seq(Places)
    BY <1>6 DEF Lists
  <2>2. seqs \in [1 .. m -> Seq(Places)]
    BY <1>3, <2>1
  <2> QED  BY <2>2
<1>9. Lists(FlattenSeq(seqs), Places, UNION {f[i] : i \in 1 .. m}, once)
  <2>1. seqs \in Seq(Seq(Places)) /\ ListsEach(seqs, Places, f, once)
    BY <1>6, <1>7, <1>8 DEF ListsEach
  <2>2. Lists(FlattenSeq(seqs), Places, UNION {f[i] : i \in 1 .. Len(seqs)}, once)
    BY <2>1, Flattened
  <2> QED  BY <1>8, <2>2
<1>10. UNION {f[i] : i \in 1 .. m} = UNION {Calls(c, type, r) : r \in Roots(c)}
  <2>1. ASSUME NEW r \in Roots(c) PROVE \E i \in 1 .. m : f[i] = Calls(c, type, r)
    <3>1. r + 1 \in 1 .. m /\ (r + 1) - 1 = r
      BY <1>1, <1>2
    <3> QED  BY <1>4, <3>1
  <2>2. ASSUME NEW i \in 1 .. m PROVE \E r \in Roots(c) : f[i] = Calls(c, type, r)
    BY <1>4, <1>5
  <2> QED  BY <2>1, <2>2
<1>11. Pci_Scan(c, type) = FlattenSeq(seqs)
  BY <1>1, <1>2, <1>3
<1> QED  BY <1>9, <1>10, <1>11

\* So it finds what can be reached, and nothing else.
LEMMA ScanFinds ==
    ASSUME NEW c, NEW type, Space(c)
    PROVE  /\ Pci_Scan(c, type) \in Seq(Places)
           /\ ToSet(Pci_Scan(c, type)) = WantedOn(c, type, Reached(c))
<1>1. Roots(c) \subseteq 0 .. MaxBus
  <2>1. PICK last \in 0 .. MaxBus :
           /\ Roots(c) = 0 .. last
           /\ Pci_Scan(c, type)
                = FlattenSeq([i \in 1 .. last + 1 |-> Pci_ScanBus(c, type)[i - 1]])
    BY RootsAre
  <2>2. 0 .. last \subseteq 0 .. MaxBus
    BY PciAssumption
  <2> QED  BY <2>1, <2>2, Zenon
<1>2. PICK R : R = UNION {Calls(c, type, r) : r \in Roots(c)}
  OBVIOUS
<1>3. Lists(Pci_Scan(c, type), Places, R, FALSE)
  <2>1. \A r \in Roots(c) : Scanned(c, type, r, FALSE)
    BY <1>1, CallsAre
  <2> QED  BY <1>2, <2>1, RootsListed
<1>4. R \subseteq WantedOn(c, type, Reached(c))
  <2>1. ASSUME NEW r \in Roots(c) PROVE Calls(c, type, r) \subseteq WantedOn(c, type, Reached(c))
    BY <1>1, ReachedIs, CallsInside
  <2> QED  BY <1>2, <2>1
<1>5. PICK on : on = {x \in 0 .. MaxBus : Calls(c, type, x) \subseteq R}
  OBVIOUS
<1>6. ASSUME NEW d \in Announced(c), d[1] \in on
      PROVE  Found(c, type, d) \subseteq R
  <2>1. d \in Answering(c, d[1])
    BY DEF Answering
  <2>2. Calls(c, type, d[1]) = UNION {Found(c, type, e) : e \in Answering(c, d[1])}
    BY <1>5, <1>6, CallsAre
  <2> QED  BY <1>5, <1>6, <2>1, <2>2
<1>7. Closed(c, on)
  <2>1. ASSUME NEW d \in Announced(c), d[1] \in on, IsBridge(c[d])
        PROVE  c[d].secondary \in on
    <3>1. d \in There(c) /\ d[1] \in 0 .. MaxBus
      BY <1>5, <2>1, AnnouncedIs
    <3>2. PICK y \in d[1] + 1 .. MaxBus : y = c[d].secondary
      BY <2>1, <3>1, FunctionThere DEF IsBridge
    <3>3. y \in 0 .. MaxBus
      BY <3>1, <3>2
    <3>4. Calls(c, type, y) \subseteq R
      BY <1>6, <2>1, <3>2 DEF Found
    <3> QED  BY <1>5, <3>2, <3>3, <3>4
  <2> QED  BY <1>5, <2>1 DEF Closed
<1>8. Roots(c) \subseteq on
  BY <1>1, <1>2, <1>5
<1>9. Reached(c) \subseteq on
  BY <1>1, <1>7, <1>8, ReachedIs
<1>10. ASSUME NEW d \in WantedOn(c, type, Reached(c)) PROVE d \in R
  <2>1. Found(c, type, d) \subseteq R
    BY <1>6, <1>9 DEF WantedOn
  <2>2. d \in Found(c, type, d)
    BY DEF WantedOn, Found, Asked
  <2> QED  BY <2>1, <2>2
<1> QED  BY <1>3, <1>4, <1>10 DEF Lists

LEMMA VendorNotZero == ASSUME NEW n \in Numbers PROVE n.vendor # 0
<1>1. \A V, D : \A k \in [vendor : V, device : D] : k.vendor \in V
  OBVIOUS
<1>2. n.vendor \in VendorNumbers
  BY <1>1, Zenon DEF Numbers
<1>3. 0 \notin VendorNumbers
  BY Zenon DEF VendorNumbers
<1> QED  BY <1>2, <1>3, Zenon

\* Pci_Exists asks for the functions that can be reached, whose vendors are not 0.
LEMMA ExistsFinds ==
    ASSUME NEW c, Space(c), NEW vendor, NEW device,
           [vendor |-> vendor, device |-> device] \in ReachedIds(c)
    PROVE  Pci_Exists(c, vendor, device)
<1>1. PICK s : s = Pci_Scan(c, AnyType)
  OBVIOUS
<1>2. s \in Seq(Places) /\ ToSet(s) = WantedOn(c, AnyType, Reached(c))
  BY <1>1, ScanFinds
<1>3. ToSet(s) = {s[i] : i \in DOMAIN s}
  BY <1>2 DEF ToSet
<1>4. Pci_Exists(c, vendor, device)
         <=> \E i \in DOMAIN s : vendor # 0 /\ c[s[i]].id.device = device
  BY <1>1 DEF Pci_Exists
<1>5. Pci_Exists(c, vendor, device)
         <=> \E d \in Announced(c) : d[1] \in Reached(c) /\ vendor # 0 /\ c[d].id.device = device
  <2>1. \A d : d \in WantedOn(c, AnyType, Reached(c)) <=> d \in Announced(c) /\ d[1] \in Reached(c)
    BY DEF WantedOn
  <2> QED  BY <1>2, <1>3, <1>4, <2>1
<1>6. PICK d \in Announced(c) :
         d[1] \in Reached(c) /\ c[d].id = [vendor |-> vendor, device |-> device]
  BY DEF ReachedIds
<1>7. c[d].id \in Numbers
  <2>1. d \in There(c)
    BY AnnouncedIs
  <2> QED  BY <2>1, FunctionThere
<1>8. c[d].id.vendor = vendor /\ c[d].id.device = device
  BY <1>6
<1> QED  BY <1>5, <1>6, <1>7, <1>8, VendorNotZero

(***************************************************************************)
(* Pci_Exists finds each device that can be reached, whatever the buses    *)
(* look like, and whatever is found after it (pci.c:144-168).              *)
(***************************************************************************)
THEOREM ExistsMissesNone == Spec => []ExistsNeverMisses
<1>1. CallInv => ExistsNeverMisses
  <2> SUFFICES ASSUME CallInv, Returned("Pci_Exists") PROVE ExistsNeverMisses
    BY DEF ExistsNeverMisses
  <2>1. call.of = "Pci_Exists" /\ Called /\ Answered
    BY ReturnedAnswers
  <2>2. call.space \in ConfigSpaces
    BY <2>1 DEF Called, Moves
  <2>3. result.value = Pci_Exists(call.space, call.vendor, call.device)
    BY <2>1 DEF Answered
  <2>4. Space(call.space)
    BY <2>2, LibraryAssumption DEF Space
  <2>5. PICK c, vendor, device : c = call.space /\ vendor = call.vendor /\ device = call.device
    OBVIOUS
  <2>6. ASSUME AskedFor \in ReachedIds(call.space) PROVE Pci_Exists(c, vendor, device)
    <3>1. [vendor |-> vendor, device |-> device] \in ReachedIds(c)
      BY <2>5, <2>6 DEF AskedFor
    <3>2. Space(c)
      BY <2>4, <2>5
    <3> QED  BY <3>1, <3>2, ExistsFinds
  <2> QED  BY <2>3, <2>5, <2>6 DEF ExistsNeverMisses
<1> QED  BY <1>1, CallsReturn, PTL

\* the buses that a bus leads to
Below(c, x) == {y \in 0 .. MaxBus : \A on : Closed(c, on) /\ x \in on => y \in on}

\* Bridges lead to higher buses, and a bus is its own or behind one of them.
LEMMA BelowIs ==
    ASSUME NEW c, Space(c), NEW x \in 0 .. MaxBus
    PROVE  /\ x \in Below(c, x) /\ Closed(c, Below(c, x))
           /\ \A on : Closed(c, on) /\ x \in on => Below(c, x) \subseteq on
           /\ \A y \in Below(c, x) : y \in 0 .. MaxBus /\ y >= x
           /\ \A y \in Below(c, x) : y # x =>
                 \E d \in Announced(c) :
                    d[1] \in Below(c, x) /\ IsBridge(c[d]) /\ c[d].secondary = y
<1>1. ASSUME NEW d \in Announced(c), IsBridge(c[d])
      PROVE  /\ d[1] \in 0 .. MaxBus /\ c[d].secondary \in 0 .. MaxBus
             /\ c[d].secondary \in Nat /\ d[1] \in Nat /\ d[1] < c[d].secondary
  <2>1. d \in There(c) /\ d \in Places
    BY AnnouncedIs, FunctionThere
  <2>2. d[1] \in 0 .. MaxBus
    BY <2>1, PlaceIs
  <2>3. c[d].secondary \in d[1] + 1 .. MaxBus
    BY <1>1, <2>1, FunctionThere DEF IsBridge
  <2> QED  BY <2>2, <2>3
<1>2. x \in Below(c, x)
  BY DEF Below
<1>3. Closed(c, Below(c, x))
  <2>1. ASSUME NEW d \in Announced(c), d[1] \in Below(c, x), IsBridge(c[d])
        PROVE  c[d].secondary \in Below(c, x)
    <3>1. ASSUME NEW on, Closed(c, on), x \in on PROVE c[d].secondary \in on
      BY <2>1, <3>1 DEF Below, Closed
    <3> QED  BY <1>1, <2>1, <3>1 DEF Below
  <2> QED  BY <2>1 DEF Closed, Below
<1>4. ASSUME NEW on, Closed(c, on), x \in on PROVE Below(c, x) \subseteq on
  BY <1>4 DEF Below
<1>5. ASSUME NEW y \in Below(c, x) PROVE y \in 0 .. MaxBus /\ y >= x
  <2>1. PICK on : on = x .. MaxBus
    OBVIOUS
  <2>2. on \in SUBSET (0 .. MaxBus) /\ x \in on
    BY <2>1, PciAssumption
  <2>3. ASSUME NEW d \in Announced(c), d[1] \in on, IsBridge(c[d]) PROVE c[d].secondary \in on
    BY <1>1, <2>1, <2>3
  <2>4. Closed(c, on)
    BY <2>2, <2>3 DEF Closed
  <2>5. y \in on
    BY <1>4, <2>2, <2>4
  <2> QED  BY <2>1, <2>2, <2>5
<1>6. ASSUME NEW y \in Below(c, x), y # x
      PROVE  \E d \in Announced(c) :
                d[1] \in Below(c, x) /\ IsBridge(c[d]) /\ c[d].secondary = y
  <2> SUFFICES ASSUME \A d \in Announced(c) :
                         d[1] \in Below(c, x) /\ IsBridge(c[d]) => c[d].secondary # y
               PROVE  FALSE
    OBVIOUS
  <2>1. Closed(c, Below(c, x) \ {y})
    BY <1>3 DEF Closed
  <2>2. y \in Below(c, x) \ {y}
    BY <1>2, <1>4, <1>6, <2>1
  <2> QED  BY <2>2
<1> QED  BY <1>2, <1>3, <1>4, <1>5, <1>6

LEMMA RootsInside ==
    ASSUME NEW c, Space(c)
    PROVE  /\ Roots(c) \subseteq 0 .. MaxBus
           /\ Roots(c) \subseteq Reached(c) /\ Closed(c, Reached(c))
           /\ Reached(c) \subseteq 0 .. MaxBus
           /\ \A x \in Reached(c) : Below(c, x) \subseteq Reached(c)
<1>1. PICK last \in 0 .. MaxBus :
         /\ Roots(c) = 0 .. last
         /\ Pci_Scan(c, AnyType)
              = FlattenSeq([i \in 1 .. last + 1 |-> Pci_ScanBus(c, AnyType)[i - 1]])
  BY RootsAre
<1>2. 0 .. last \subseteq 0 .. MaxBus
  BY PciAssumption
<1>3. Roots(c) \subseteq 0 .. MaxBus
  BY <1>1, <1>2, Zenon
<1>4. Closed(c, Reached(c)) /\ Roots(c) \subseteq Reached(c)
  BY <1>3, ReachedIs
<1>5. Reached(c) \subseteq 0 .. MaxBus
  BY <1>4 DEF Closed
<1> QED  BY <1>3, <1>4, <1>5, BelowIs

\* A scan of a bus calls for functions on the buses that it leads to.
LEMMA CallsBelow ==
    ASSUME NEW c, NEW type, Space(c), NEW x \in 0 .. MaxBus, NEW p \in Calls(c, type, x)
    PROVE  p[1] \in Below(c, x)
<1>1. Calls(c, type, x) \subseteq WantedOn(c, type, Below(c, x))
  BY BelowIs, CallsInside
<1> QED  BY <1>1 DEF WantedOn

\* one way leads to each bus
OneWay(c) == \A b \in Reached(c) : Ways(c, Reached(c), b) = 1

LEMMA PlacesFinite == IsFiniteSet(Places)
<1>1. PICK A, B, D : A = 0 .. MaxBus /\ B = 0 .. MaxSlot /\ D = 0 .. MaxFunc
  OBVIOUS
<1>2. IsFiniteSet(A) /\ IsFiniteSet(B) /\ IsFiniteSet(D)
  BY <1>1, PciAssumption, FS_Interval
<1>3. IsFiniteSet(A \X B)
  BY <1>2, FS_Product
<1>4. IsFiniteSet((A \X B) \X D)
  BY <1>2, <1>3, FS_Product
<1>5. PICK f : f = [p \in (A \X B) \X D |-> <<p[1][1], p[1][2], p[2]>>]
  OBVIOUS
<1>6. \A p \in (A \X B) \X D : <<p[1][1], p[1][2], p[2]>> \in A \X B \X D
  OBVIOUS
<1>7. ASSUME NEW d \in A \X B \X D
      PROVE  \E p \in (A \X B) \X D : <<p[1][1], p[1][2], p[2]>> = d
  <2>1. <<<<d[1], d[2]>>, d[3]>> \in (A \X B) \X D
    OBVIOUS
  <2>2. d = <<d[1], d[2], d[3]>>
    OBVIOUS
  <2> QED  BY <2>1, <2>2
<1>8. f \in Surjection((A \X B) \X D, A \X B \X D)
  BY <1>5, <1>6, <1>7 DEF Surjection
<1>9. IsFiniteSet(A \X B \X D)
  BY <1>4, <1>8, FS_Surjection
<1> QED  BY <1>1, <1>9 DEF Places

LEMMA OneBridge ==
    ASSUME NEW c, Space(c), OneWay(c),
           NEW d \in Announced(c), d[1] \in Reached(c), IsBridge(c[d])
    PROVE  /\ c[d].secondary \in Reached(c) /\ c[d].secondary \notin Roots(c)
           /\ \A e \in Announced(c) :
                 /\ e[1] \in Reached(c) /\ IsBridge(c[e])
                 /\ c[e].secondary = c[d].secondary
                 => e = d
<1>1. PICK y : y = c[d].secondary
  OBVIOUS
<1>2. y \in Reached(c)
  BY <1>1, RootsInside DEF Closed
<1>3. PICK B : B = {e \in Announced(c) :
                       e[1] \in Reached(c) /\ IsBridge(c[e]) /\ c[e].secondary = y}
  OBVIOUS
<1>4. IsFiniteSet(B) /\ Cardinality(B) \in Nat
  <2>1. B \in SUBSET Places
    BY <1>3, AnnouncedIs, FunctionThere
  <2>2. IsFiniteSet(B)
    BY <2>1, PlacesFinite, FS_Subset
  <2> QED  BY <2>2, FS_CardinalityType
<1>5. Cardinality(B) + (IF y \in Roots(c) THEN 1 ELSE 0) = 1
  BY <1>2, <1>3 DEF OneWay, Ways
<1>6. d \in B
  BY <1>1, <1>3
<1>7. Cardinality(B) # 0
  BY <1>4, <1>6, FS_EmptySet
<1>8. y \notin Roots(c) /\ Cardinality(B) = 1
  BY <1>4, <1>5, <1>7
<1>9. PICK z : B = {z}
  BY <1>4, <1>8, FS_Singleton
<1> QED  BY <1>1, <1>2, <1>3, <1>6, <1>8, <1>9

\* Where two buses lead to the same one, one of them leads to the other.
LEMMA MeetBelow ==
    ASSUME NEW c, Space(c), OneWay(c), NEW x \in Reached(c), NEW y \in Reached(c),
           Below(c, x) \cap Below(c, y) # {}
    PROVE  x \in Below(c, y) \/ y \in Below(c, x)
<1>1. x \in 0 .. MaxBus /\ y \in 0 .. MaxBus
  BY RootsInside
<1>2. PICK U : U = Below(c, x) \cap Below(c, y)
  OBVIOUS
<1>3. U \in SUBSET Nat /\ U # {}
  BY <1>1, <1>2, BelowIs
<1>4. PICK z \in U : \A w \in U : z =< w
  BY <1>3, Least
<1>5. CASE z = x \/ z = y
  BY <1>2, <1>5
<1>6. CASE z # x /\ z # y
  <2>1. PICK d \in Announced(c) :
           d[1] \in Below(c, x) /\ IsBridge(c[d]) /\ c[d].secondary = z
    BY <1>1, <1>2, <1>6, BelowIs
  <2>2. PICK e \in Announced(c) :
           e[1] \in Below(c, y) /\ IsBridge(c[e]) /\ c[e].secondary = z
    BY <1>1, <1>2, <1>6, BelowIs
  <2>3. d[1] \in Reached(c) /\ e[1] \in Reached(c)
    BY <2>1, <2>2, RootsInside
  <2>4. d = e
    BY <2>1, <2>2, <2>3, OneBridge
  <2>5. d[1] \in U
    BY <1>2, <2>1, <2>2, <2>4
  <2>6. z \in d[1] + 1 .. MaxBus
    <3>1. d \in There(c)
      BY AnnouncedIs
    <3> QED  BY <2>1, <3>1, FunctionThere DEF IsBridge
  <2>7. d[1] \in Nat /\ z \in Nat /\ z =< d[1]
    BY <1>3, <1>4, <2>5
  <2> QED  BY <2>6, <2>7
<1> QED  BY <1>5, <1>6

\* Two bridges on a bus lead to different buses, and so do two roots.
LEMMA BridgesApart ==
    ASSUME NEW c, Space(c), OneWay(c), NEW b \in Reached(c),
           NEW d \in Answering(c, b), NEW e \in Answering(c, b), d # e,
           IsBridge(c[d]), IsBridge(c[e])
    PROVE  Below(c, c[d].secondary) \cap Below(c, c[e].secondary) = {}
<1>1. ASSUME NEW f \in Answering(c, b), IsBridge(c[f])
      PROVE  /\ f \in Announced(c) /\ f[1] = b /\ f[1] \in Reached(c)
             /\ c[f].secondary \in Reached(c) /\ c[f].secondary \in 0 .. MaxBus
             /\ c[f].secondary > b
  <2>1. f \in Announced(c) /\ f[1] = b /\ f \in There(c) /\ f[1] \in Reached(c)
    BY AnnouncedIs DEF Answering
  <2>2. c[f].secondary \in f[1] + 1 .. MaxBus
    BY <1>1, <2>1, FunctionThere DEF IsBridge
  <2>3. c[f].secondary \in Reached(c)
    BY <1>1, <2>1, OneBridge
  <2>4. b \in 0 .. MaxBus /\ c[f].secondary \in 0 .. MaxBus
    BY <2>3, RootsInside
  <2>5. c[f].secondary > b
    BY <2>1, <2>2, <2>4
  <2> QED  BY <2>1, <2>3, <2>4, <2>5
<1>2. ASSUME NEW f \in Answering(c, b), NEW g \in Answering(c, b), f # g,
             IsBridge(c[f]), IsBridge(c[g])
      PROVE  c[f].secondary \notin Below(c, c[g].secondary)
  <2> SUFFICES ASSUME c[f].secondary \in Below(c, c[g].secondary) PROVE FALSE
    OBVIOUS
  <2>1. PICK x \in Reached(c), y \in Reached(c) : x = c[f].secondary /\ y = c[g].secondary
    BY <1>1, <1>2
  <2>2. x # y
    BY <1>1, <1>2, <2>1, OneBridge
  <2>3. x \in 0 .. MaxBus /\ y \in 0 .. MaxBus /\ b \in 0 .. MaxBus /\ y > b
    BY <1>1, <1>2, <2>1, RootsInside
  <2>4. PICK h \in Announced(c) :
           h[1] \in Below(c, y) /\ IsBridge(c[h]) /\ c[h].secondary = x
    BY <2>1, <2>2, <2>3, BelowIs
  <2>5. h[1] \in Reached(c)
    BY <2>4, RootsInside
  <2>6. h = f
    BY <1>1, <1>2, <2>1, <2>4, <2>5, OneBridge
  <2>7. b \in Below(c, y)
    BY <1>1, <1>2, <2>4, <2>6
  <2>8. b >= y
    BY <2>3, <2>7, BelowIs
  <2> QED  BY <2>3, <2>8
<1> QED  BY <1>1, <1>2, MeetBelow

LEMMA RootsApart ==
    ASSUME NEW c, Space(c), OneWay(c), NEW r \in Roots(c), NEW q \in Roots(c), r # q
    PROVE  Below(c, r) \cap Below(c, q) = {}
<1>1. ASSUME NEW x \in Roots(c), NEW y \in Roots(c), x # y PROVE x \notin Below(c, y)
  <2> SUFFICES ASSUME x \in Below(c, y) PROVE FALSE
    OBVIOUS
  <2>1. y \in 0 .. MaxBus /\ y \in Reached(c)
    BY RootsInside
  <2>2. PICK h \in Announced(c) :
           h[1] \in Below(c, y) /\ IsBridge(c[h]) /\ c[h].secondary = x
    BY <1>1, <2>1, BelowIs
  <2>3. h[1] \in Reached(c)
    BY <2>1, <2>2, RootsInside
  <2> QED  BY <2>2, <2>3, OneBridge
<1>2. r \in Reached(c) /\ q \in Reached(c)
  BY RootsInside
<1> QED  BY <1>1, <1>2, MeetBelow

\* So no function is called for twice on a bus.
LEMMA BusOnce ==
    ASSUME NEW c, NEW type, Space(c), OneWay(c), NEW b \in Reached(c),
           \A y \in Reached(c) : y > b => Scanned(c, type, y, TRUE)
    PROVE  Scanned(c, type, b, TRUE)
<1>1. b \in 0 .. MaxBus
  BY RootsInside
<1>2. ASSUME NEW d \in Answering(c, b), IsBridge(c[d])
      PROVE  /\ c[d].secondary \in Reached(c) /\ c[d].secondary \in 0 .. MaxBus
             /\ c[d].secondary > b /\ b \notin Below(c, c[d].secondary)
  <2>1. d \in Announced(c) /\ d[1] = b /\ d \in There(c) /\ d[1] \in Reached(c)
    BY AnnouncedIs DEF Answering
  <2>2. c[d].secondary \in d[1] + 1 .. MaxBus
    BY <1>2, <2>1, FunctionThere DEF IsBridge
  <2>3. PICK y \in Reached(c) : y = c[d].secondary
    BY <1>2, <2>1, OneBridge
  <2>4. y \in 0 .. MaxBus /\ y > b
    <3>1. y \in 0 .. MaxBus
      BY <2>3, RootsInside
    <3> QED  BY <1>1, <2>1, <2>2, <2>3, <3>1
  <2>5. b \notin Below(c, y)
    <3>1. b \in Below(c, y) => b >= y
      BY <2>4, BelowIs
    <3> QED  BY <1>1, <2>4, <3>1
  <2> QED  BY <2>3, <2>4, <2>5
<1>3. ASSUME NEW d \in Answering(c, b), IsBridge(c[d]),
             NEW p \in Calls(c, type, c[d].secondary)
      PROVE  p[1] \in Below(c, c[d].secondary)
  BY <1>2, <1>3, CallsBelow
<1>4. ASSUME NEW d \in Answering(c, b), IsBridge(c[d]), NEW e \in Answering(c, b)
      PROVE  e \notin Calls(c, type, c[d].secondary)
  <2>1. e[1] = b
    BY DEF Answering
  <2> QED  BY <1>2, <1>3, <1>4, <2>1
<1>5. ASSUME NEW d \in Answering(c, b), IsBridge(c[d])
      PROVE  /\ Scanned(c, type, c[d].secondary, TRUE)
             /\ d \notin Calls(c, type, c[d].secondary)
  BY <1>2, <1>4, <1>5
<1>6. ASSUME NEW d \in Answering(c, b), NEW e \in Answering(c, b), d # e
      PROVE  Found(c, type, d) \cap Found(c, type, e) = {}
  <2> SUFFICES ASSUME NEW p \in Found(c, type, d), p \in Found(c, type, e) PROVE FALSE
    OBVIOUS
  <2>1. \/ p = d
        \/ IsBridge(c[d]) /\ p \in Calls(c, type, c[d].secondary)
    BY DEF Found, Asked
  <2>2. \/ p = e
        \/ IsBridge(c[e]) /\ p \in Calls(c, type, c[e].secondary)
    BY DEF Found, Asked
  <2>3. CASE p = d
    BY <1>4, <1>6, <2>2, <2>3
  <2>4. CASE p = e
    BY <1>4, <1>6, <2>1, <2>4
  <2>5. CASE p # d /\ p # e
    <3>1. /\ IsBridge(c[d]) /\ p[1] \in Below(c, c[d].secondary)
          /\ IsBridge(c[e]) /\ p[1] \in Below(c, c[e].secondary)
      BY <1>3, <2>1, <2>2, <2>5
    <3> QED  BY <1>6, <3>1, BridgesApart
  <2> QED  BY <2>3, <2>4, <2>5
<1>7. Lists(Pci_ScanBus(c, type)[b], Places,
            UNION {Found(c, type, d) : d \in Answering(c, b)}, TRUE)
  BY <1>1, <1>5, <1>6, BusScanned
<1> QED  BY <1>1, <1>7, CallsAre DEF Scanned

LEMMA ScanOnce ==
    ASSUME NEW c, NEW type, Space(c), OneWay(c)
    PROVE  IsInjective(Pci_Scan(c, type))
<1>1. PICK S : S = {x \in Reached(c) : ~Scanned(c, type, x, TRUE)}
  OBVIOUS
<1>2. S = {}
  <2> SUFFICES ASSUME S # {} PROVE FALSE
    OBVIOUS
  <2>1. Reached(c) \subseteq 0 .. MaxBus
    BY RootsInside
  <2>2. S \in SUBSET (0 .. MaxBus) /\ MaxBus \in Nat
    BY <1>1, <2>1, PciAssumption
  <2>3. PICK x \in S : \A y \in S : y =< x
    BY <2>2, Greatest
  <2>4. x \in Nat /\ \A y \in Reached(c) : y \in Nat
    BY <2>1, <2>2
  <2>5. ASSUME NEW y \in Reached(c), y > x PROVE Scanned(c, type, y, TRUE)
    <3>1. y \notin S
      BY <2>3, <2>4, <2>5
    <3> QED  BY <1>1, <3>1
  <2>6. x \in Reached(c) /\ ~Scanned(c, type, x, TRUE)
    BY <1>1
  <2> QED  BY <2>5, <2>6, BusOnce
<1>3. \A r \in Roots(c) : r \in Reached(c) /\ r \in 0 .. MaxBus
  BY RootsInside
<1>4. \A r \in Roots(c) : Scanned(c, type, r, TRUE)
  BY <1>1, <1>2, <1>3
<1>5. ASSUME NEW r \in Roots(c), NEW q \in Roots(c), r # q
      PROVE  Calls(c, type, r) \cap Calls(c, type, q) = {}
  <2>1. Below(c, r) \cap Below(c, q) = {}
    BY <1>5, RootsApart
  <2> QED  BY <1>3, <2>1, CallsBelow
<1>6. Lists(Pci_Scan(c, type), Places, UNION {Calls(c, type, r) : r \in Roots(c)}, TRUE)
  BY <1>4, <1>5, RootsListed
<1> QED  BY <1>6 DEF Lists

(***************************************************************************)
(* Whatever bridges and devices there are, Pci_Scan calls back for the     *)
(* functions of the asked type that can be reached, for no other, and once *)
(* for each if one way leads to each bus (pci.c:48-142).                   *)
(***************************************************************************)
THEOREM ScanAlwaysFindsReachable == Spec => []ScanFindsReachable
<1>1. CallInv => ScanFindsReachable
  <2> SUFFICES ASSUME CallInv, Returned("Pci_Scan") PROVE ScanFindsReachable
    BY DEF ScanFindsReachable
  <2>1. call.of = "Pci_Scan" /\ Called /\ Answered
    BY ReturnedAnswers
  <2>2. call.space \in ConfigSpaces
    BY <2>1 DEF Called, Moves
  <2>3. result.value = Pci_Scan(call.space, call.type)
    BY <2>1 DEF Answered
  <2>4. Space(call.space)
    BY <2>2, LibraryAssumption DEF Space
  <2>5. PICK c, type : c = call.space /\ type = call.type
    OBVIOUS
  <2>6. ToSet(Pci_Scan(c, type)) = WantedOn(c, type, Reached(c))
    BY <2>4, <2>5, ScanFinds
  <2>7. OneWay(c) => IsInjective(Pci_Scan(c, type))
    BY <2>4, <2>5, ScanOnce
  <2> QED  BY <2>3, <2>5, <2>6, <2>7 DEF ScanFindsReachable, WantedOn, OneWay
<1> QED  BY <1>1, CallsReturn, PTL
=============================================================================
