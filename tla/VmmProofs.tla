----------------------------- MODULE VmmProofs -----------------------------
(***************************************************************************)
(* Proofs about Vmm, for tables of every size, every pool of pages, every  *)
(* set of addresses and frames, and every boot map.                        *)
(***************************************************************************)
EXTENDS Vmm, TLAPS

-----------------------------------------------------------------------------
(***************************************************************************)
(* The pool                                                                *)
(***************************************************************************)

PoolOK(pl) == pl \in Seq(Pages) /\ IsPrefix(pl, Pool)

\* The pool is made of pages, the kernel's space is one, and page 0 and None
\* are none.
LEMMA PoolPages ==
    /\ Pages \subseteq Nat \ {0} /\ Pool \in Seq(Pages) /\ KernelSpace \in Pages
    /\ Page0 \notin Pages \cup Frames
    /\ None \notin Pages \cup Frames \cup {Page0}
    /\ Pages \cap Frames = {}
<1>1. Len(Pool) \in Nat \ {0} /\ DOMAIN Pool = 1 .. Len(Pool)
  BY VmmAssumption
<1>2. Pages \subseteq Nat \ {0}
  BY VmmAssumption DEF Pages, ToSet
<1>3. \A i \in 1 .. Len(Pool) : Pool[i] \in Pages
  BY <1>1 DEF Pages, ToSet
<1>4. Pool \in Seq(Pages)
  <2>1. PICK S : S = Pages
    OBVIOUS
  <2>2. Pool \in Seq(Nat \ {0}) /\ \A i \in 1 .. Len(Pool) : Pool[i] \in S
    BY <1>3, <2>1, VmmAssumption
  <2>3. Pool \in Seq(S)
    BY <2>2
  <2> QED  BY <2>1, <2>3
<1>5. KernelSpace \in Pages
  BY <1>1, <1>3 DEF KernelSpace, Last
<1>6. Frames \subseteq Nat \ {0} /\ Pages \cap Frames = {}
  BY VmmAssumption
<1> QED  BY <1>2, <1>4, <1>5, <1>6 DEF Page0, None

\* Taking the page on top leaves a pool, without that page.
LEMMA TakePage ==
    ASSUME NEW pl, PoolOK(pl), pl # <<>>
    PROVE  /\ Last(pl) \in Pages /\ Last(pl) \in ToSet(pl)
           /\ PoolOK(Front(pl))
           /\ ToSet(Front(pl)) = ToSet(pl) \ {Last(pl)}
<1>1. pl \in Seq(Pages) /\ Len(pl) \in Nat \ {0} /\ DOMAIN pl = 1 .. Len(pl)
  BY DEF PoolOK
<1>2. Last(pl) \in Pages /\ Last(pl) \in ToSet(pl)
  BY <1>1 DEF Last, ToSet
<1>3. /\ Front(pl) \in Seq(Pages) /\ Len(Front(pl)) = Len(pl) - 1
      /\ \A i \in 1 .. Len(pl) - 1 : Front(pl)[i] = pl[i]
  BY <1>1 DEF Front
<1>4. /\ Len(pl) =< Len(Pool) /\ Pool \in Seq(Pages)
      /\ \A i \in 1 .. Len(pl) : pl[i] = Pool[i]
  <2>1. Len(pl) =< Len(Pool) /\ Pool \in Seq(Pages)
    BY PoolPages DEF PoolOK, IsPrefix
  <2>2. SubSeq(pl, 1, Len(pl)) = SubSeq(Pool, 1, Len(pl))
    BY DEF PoolOK, IsPrefix
  <2>3. ASSUME NEW i \in 1 .. Len(pl) PROVE pl[i] = Pool[i]
    <3>1. SubSeq(pl, 1, Len(pl))[i] = pl[i]
      BY <1>1
    <3>2. SubSeq(Pool, 1, Len(pl))[i] = Pool[i]
      BY <1>1, <2>1
    <3> QED  BY <2>2, <3>1, <3>2
  <2> QED  BY <2>1, <2>3
<1>5. IsPrefix(Front(pl), Pool)
  <2>1. Len(Front(pl)) =< Len(Pool)
    BY <1>1, <1>3, <1>4
  <2>2. SubSeq(Front(pl), 1, Len(Front(pl))) = SubSeq(Pool, 1, Len(Front(pl)))
    BY <1>1, <1>3, <1>4
  <2> QED  BY <2>1, <2>2 DEF IsPrefix
<1>6. \A i, j \in 1 .. Len(pl) : pl[i] = pl[j] => i = j
  <2>1. \A i, j \in DOMAIN Pool : Pool[i] = Pool[j] => i = j
    BY VmmAssumption DEF IsInjective
  <2>2. 1 .. Len(pl) \subseteq DOMAIN Pool
    BY <1>1, <1>4
  <2> QED  BY <1>4, <2>1, <2>2
<1>7. ToSet(Front(pl)) = ToSet(pl) \ {Last(pl)}
  <2>1. ToSet(pl) = {pl[i] : i \in 1 .. Len(pl)}
    BY <1>1 DEF ToSet
  <2>2. ToSet(Front(pl)) = {pl[i] : i \in 1 .. Len(pl) - 1}
    BY <1>1, <1>3 DEF ToSet
  <2>3. \A n \in Nat \ {0} : 1 .. n - 1 = (1 .. n) \ {n} /\ n \in 1 .. n
    OBVIOUS
  <2>4. 1 .. Len(pl) - 1 = (1 .. Len(pl)) \ {Len(pl)} /\ Len(pl) \in 1 .. Len(pl)
    BY <1>1, <2>3
  <2> QED  BY <1>6, <2>1, <2>2, <2>4 DEF Last
<1> QED  BY <1>2, <1>3, <1>5, <1>7 DEF PoolOK

-----------------------------------------------------------------------------
(***************************************************************************)
(* The tables, as a memory m with pool pl and spaces sp, after as many     *)
(* calls as lost have found no page, so that page 0 may be a table         *)
(***************************************************************************)

Mem == Pages \cup Frames \cup {Page0}
Tables == Pages \cup {Page0}

Present(e) == "P" \in e.flags

\* An entry is absent or present, and none leads to page 0 until a call has
\* found no page.
EntriesOK(m, lost) ==
    \A p \in Mem, i \in Idx :
        /\ m[p][i] = Absent \/ Present(m[p][i])
        /\ Present(m[p][i]) /\ m[p][i].addr = Page0 => lost # 0

\* No entry, not even one of a frame, points to a page of the pool or to a PML4.
RootsFree(m, pl, sp) ==
    \A p \in Mem, i \in Idx :
        Present(m[p][i]) => m[p][i].addr \notin ToSet(pl) \cup (sp \ {Page0})

\* Two entries that point to one page are the shared entries of two PML4s.
Unshared(m, sp) ==
    \A q, r \in Tables : \A i, j \in Idx :
        /\ Present(m[q][i]) /\ Present(m[r][j])
        /\ m[q][i].addr \in Pages /\ m[r][j].addr = m[q][i].addr
        => (q = r /\ i = j) \/ (q \in sp /\ r \in sp /\ i = j /\ i >= FirstKernel)

SpacesOK(pl, sp, lost) ==
    /\ sp \subseteq Tables /\ sp \cap ToSet(pl) = {}
    /\ KernelSpace \in sp
    /\ Page0 \in sp => lost # 0

TablesOK(m, pl, sp, lost) ==
    /\ m \in [Mem -> [Idx -> Entry]]
    /\ PoolOK(pl)
    /\ SpacesOK(pl, sp, lost)
    /\ EntriesOK(m, lost)
    /\ RootsFree(m, pl, sp)
    /\ Unshared(m, sp)

\* a state of a walk that builds tables as it goes
Work == [mem : [Mem -> [Idx -> Entry]], pool : Seq(Pages), failed : BOOLEAN, table : Mem]

\* what is an entry, and whether it is present
LEMMA EntryTypes ==
    /\ Absent \in Entry /\ ~Present(Absent) /\ Absent.addr = Page0
    /\ Cleared \in [Idx -> Entry] /\ \A i \in Idx : Cleared[i] = Absent
    /\ \A p \in Tables : LET e == [addr |-> p, flags |-> {"P", "W"}]
                         IN  e \in Entry /\ Present(e) /\ e.addr = p
    /\ \A p \in Frames, f \in SUBSET AllFlags :
          LET e == [addr |-> p, flags |-> f]
          IN  e \in Entry /\ (Present(e) <=> "P" \in f) /\ e.addr = p
BY DEF Entry, AllFlags, Absent, Present, Cleared, Tables, Page0

\* the page that Pmm_AllocatePage gives next, or page 0
Taken(pl) == IF pl = <<>> THEN Page0 ELSE Last(pl)
Rest(pl) == IF pl = <<>> THEN <<>> ELSE Front(pl)

\* m with page p cleared, and then entry i of table t set to e
Write(m, t, i, e) == [m EXCEPT ![t] = [m[t] EXCEPT ![i] = e]]
Clear(m, p) == [m EXCEPT ![p] = Cleared]

TableEntry(p) == [addr |-> p, flags |-> {"P", "W"}]

WorkState(m, pl, f, t) == [mem |-> m, pool |-> pl, failed |-> f, table |-> t]

\* One level of Vmm_Map, field by field.
LEMMA DescendFields ==
    ASSUME NEW w \in Work, NEW i \in Idx
    PROVE  LET p == Taken(w.pool) IN
           /\ Present(w.mem[w.table][i]) =>
                 Descend(w, i) = WorkState(w.mem, w.pool, w.failed, w.mem[w.table][i].addr)
           /\ ~Present(w.mem[w.table][i]) =>
                 Descend(w, i) = WorkState(Write(Clear(w.mem, p), w.table, i, TableEntry(p)),
                                           Rest(w.pool), w.failed \/ w.pool = <<>>, p)
<1> DEFINE p == Taken(w.pool)
<1>1. ASSUME Present(w.mem[w.table][i])
      PROVE  Descend(w, i) = WorkState(w.mem, w.pool, w.failed, w.mem[w.table][i].addr)
  BY <1>1 DEF Descend, Present, Work, WorkState
<1>2. ASSUME ~Present(w.mem[w.table][i])
      PROVE  Descend(w, i) = WorkState(Write(Clear(w.mem, p), w.table, i, TableEntry(p)),
                                       Rest(w.pool), w.failed \/ w.pool = <<>>, p)
  <2> DEFINE a == Allocated(w)
  <2>1. a = WorkState(Clear(w.mem, p), Rest(w.pool), w.failed \/ w.pool = <<>>, w.table)
    BY DEF Allocated, Clear, Taken, Rest, Fresh, WorkState
  <2>2. Descend(w, i) = [a EXCEPT !.mem[w.table][i] = TableEntry(p), !.table = p]
    BY <1>2 DEF Descend, Present, TableEntry, Fresh, Taken
  <2> HIDE DEF a, p
  <2>3. Descend(w, i) = WorkState(Write(a.mem, w.table, i, TableEntry(p)), a.pool, a.failed, p)
    BY <2>1, <2>2 DEF Write, WorkState
  <2>4. /\ a.mem = Clear(w.mem, p) /\ a.pool = Rest(w.pool)
        /\ a.failed = (w.failed \/ w.pool = <<>>)
    BY <2>1 DEF WorkState
  <2> QED  BY <2>3, <2>4
<1> QED  BY <1>1, <1>2

\* n is m with page p cleared and then e written to entry i of t
IsWritten(n, m, p, t, i, e) ==
    /\ n \in [Mem -> [Idx -> Entry]]
    /\ n[t][i] = e
    /\ \A j \in Idx : ~(p = t /\ j = i) => n[p][j] = Absent
    /\ \A q \in Mem, j \in Idx : q # p /\ ~(q = t /\ j = i) => n[q][j] = m[q][j]

\* what a cleared page and a written entry leave in every place
LEMMA WriteFields ==
    ASSUME NEW m \in [Mem -> [Idx -> Entry]], NEW t \in Mem, NEW i \in Idx,
           NEW p \in Tables, NEW e \in Entry
    PROVE  IsWritten(Write(Clear(m, p), t, i, e), m, p, t, i, e)
<1> DEFINE c == Clear(m, p)
           n == Write(c, t, i, e)
<1>1. p \in Mem
  BY DEF Mem, Tables
<1>2. /\ c \in [Mem -> [Idx -> Entry]] /\ \A q \in Mem : q # p => c[q] = m[q]
      /\ \A j \in Idx : c[p][j] = Absent
  BY <1>1, EntryTypes DEF Clear
<1> HIDE DEF c
<1>3. [c[t] EXCEPT ![i] = e] \in [Idx -> Entry]
  BY <1>2
<1>4. n \in [Mem -> [Idx -> Entry]] /\ n[t][i] = e
  BY <1>2, <1>3 DEF Write
<1>5. \A q \in Mem, j \in Idx : ~(q = t /\ j = i) => n[q][j] = c[q][j]
  BY <1>2 DEF Write
<1>6. /\ \A j \in Idx : ~(p = t /\ j = i) => n[p][j] = Absent
      /\ \A q \in Mem, j \in Idx : q # p /\ ~(q = t /\ j = i) => n[q][j] = m[q][j]
  BY <1>1, <1>2, <1>5
<1>7. IsWritten(n, m, p, t, i, e)
  BY <1>4, <1>6 DEF IsWritten
<1> QED  BY <1>7 DEF c

\* The page that is given next: a page of the pool that nothing points to, or
\* page 0, which nothing points to before the first failure.
LEMMA FreshPage ==
    ASSUME NEW m, NEW pl, NEW sp, NEW lost \in Nat, TablesOK(m, pl, sp, lost)
    PROVE  LET p == Taken(pl) IN
           /\ p \in Tables /\ (p = Page0 <=> pl = <<>>)
           /\ PoolOK(Rest(pl)) /\ ToSet(Rest(pl)) = ToSet(pl) \ {p}
           /\ p \notin sp \ {Page0}
           /\ p # Page0 => \A q \in Mem, j \in Idx : ~(Present(m[q][j]) /\ m[q][j].addr = p)
<1>1. CASE pl = <<>>
  <2>1. ToSet(pl) = {}
    BY <1>1 DEF ToSet
  <2> QED  BY <1>1, <2>1 DEF Taken, Rest, Tables, TablesOK
<1>2. CASE pl # <<>>
  <2>1. /\ Taken(pl) \in Pages /\ Taken(pl) \in ToSet(pl) /\ PoolOK(Rest(pl))
        /\ ToSet(Rest(pl)) = ToSet(pl) \ {Taken(pl)}
    BY <1>2, TakePage DEF Taken, Rest, TablesOK
  <2>2. Taken(pl) # Page0
    BY <2>1, PoolPages
  <2> QED  BY <1>2, <2>1, <2>2 DEF TablesOK, SpacesOK, RootsFree, Tables
<1> QED  BY <1>1, <1>2

(***************************************************************************)
(* A new table in an absent entry keeps the tables in order.               *)
(***************************************************************************)
LEMMA BuildTable ==
    ASSUME NEW m, NEW pl, NEW sp, NEW lost \in Nat, TablesOK(m, pl, sp, lost),
           NEW t \in Mem, NEW i \in Idx, ~Present(m[t][i]),
           NEW z \in Nat, z = 0 <=> lost = 0 /\ pl # <<>>
    PROVE  TablesOK(Write(Clear(m, Taken(pl)), t, i, TableEntry(Taken(pl))),
                    Rest(pl), sp, z)
<1> DEFINE p == Taken(pl)
           e == TableEntry(p)
           n == Write(Clear(m, p), t, i, e)
<1>1. /\ p \in Tables /\ (p = Page0 <=> pl = <<>>)
      /\ PoolOK(Rest(pl)) /\ ToSet(Rest(pl)) = ToSet(pl) \ {p}
      /\ p \notin sp \ {Page0}
      /\ p # Page0 => \A q \in Mem, j \in Idx : ~(Present(m[q][j]) /\ m[q][j].addr = p)
  BY FreshPage
<1>2. e \in Entry /\ Present(e) /\ e.addr = p
  BY <1>1, EntryTypes DEF TableEntry
<1>3. m \in [Mem -> [Idx -> Entry]] /\ p \in Tables /\ e \in Entry
  BY <1>1, <1>2 DEF TablesOK
<1> HIDE DEF e, p
<1>4. /\ n \in [Mem -> [Idx -> Entry]] /\ n[t][i] = e
      /\ \A j \in Idx : ~(p = t /\ j = i) => n[p][j] = Absent
      /\ \A q \in Mem, j \in Idx : q # p /\ ~(q = t /\ j = i) => n[q][j] = m[q][j]
  <2>1. IsWritten(n, m, p, t, i, e)
    BY <1>3, WriteFields
  <2> QED  BY <2>1 DEF IsWritten
<1> HIDE DEF n
<1>5. SpacesOK(Rest(pl), sp, z)
  BY <1>1 DEF TablesOK, SpacesOK
<1>6. EntriesOK(n, z)
  <2> SUFFICES ASSUME NEW q \in Mem, NEW j \in Idx
               PROVE  /\ n[q][j] = Absent \/ Present(n[q][j])
                      /\ Present(n[q][j]) /\ n[q][j].addr = Page0 => z # 0
    BY DEF EntriesOK
  <2>1. CASE q = t /\ j = i
    BY <2>1, <1>1, <1>2, <1>4, PoolPages DEF Tables
  <2>2. CASE ~(q = t /\ j = i) /\ q = p
    <3>1. n[q][j] = Absent
      BY <2>2, <1>4
    <3> QED  BY <3>1, EntryTypes, PoolPages
  <2>3. CASE ~(q = t /\ j = i) /\ q # p
    <3>1. n[q][j] = m[q][j]
      BY <2>3, <1>4
    <3> QED  BY <3>1, <2>3, <1>1 DEF TablesOK, EntriesOK
  <2> QED  BY <2>1, <2>2, <2>3
<1>7. RootsFree(n, Rest(pl), sp)
  <2> SUFFICES ASSUME NEW q \in Mem, NEW j \in Idx, Present(n[q][j])
               PROVE  n[q][j].addr \notin ToSet(Rest(pl)) \cup (sp \ {Page0})
    BY DEF RootsFree
  <2>1. CASE q = t /\ j = i
    BY <2>1, <1>1, <1>2, <1>4
  <2>2. CASE ~(q = t /\ j = i)
    <3>1. n[q][j] = m[q][j]
      BY <2>2, <1>4, EntryTypes
    <3> QED  BY <3>1, <1>1 DEF TablesOK, RootsFree
  <2> QED  BY <2>1, <2>2
<1>8. Unshared(n, sp)
  <2> SUFFICES ASSUME NEW q \in Tables, NEW r \in Tables, NEW j \in Idx, NEW k \in Idx,
                      Present(n[q][j]), Present(n[r][k]),
                      n[q][j].addr \in Pages, n[r][k].addr = n[q][j].addr
               PROVE  (q = r /\ j = k) \/ (q \in sp /\ r \in sp /\ j = k /\ j >= FirstKernel)
    BY DEF Unshared
  <2>1. q \in Mem /\ r \in Mem
    BY DEF Mem, Tables
  <2>2. CASE (q = t /\ j = i) /\ ~(r = t /\ k = i)
    <3>1. n[r][k] = m[r][k] /\ n[q][j].addr = p /\ p # Page0
      BY <2>1, <2>2, <1>2, <1>4, EntryTypes, PoolPages
    <3> QED  BY <3>1, <2>1, <1>1
  <2>3. CASE (r = t /\ k = i) /\ ~(q = t /\ j = i)
    <3>1. n[q][j] = m[q][j] /\ n[r][k].addr = p /\ p # Page0
      BY <2>1, <2>3, <1>2, <1>4, EntryTypes, PoolPages
    <3> QED  BY <3>1, <2>1, <1>1
  <2>4. CASE ~(q = t /\ j = i) /\ ~(r = t /\ k = i)
    <3>1. n[q][j] = m[q][j] /\ n[r][k] = m[r][k]
      BY <2>1, <2>4, <1>4, EntryTypes
    <3> QED  BY <3>1 DEF TablesOK, Unshared
  <2> QED  BY <2>2, <2>3, <2>4
<1> QED  BY <1>1, <1>4, <1>5, <1>6, <1>7, <1>8 DEF TablesOK, n, e, p

(***************************************************************************)
(* A walk of Vmm_Map in the spaces sp, after lost failures before it.      *)
(***************************************************************************)
Failures(w, lost) == lost + (IF w.failed THEN 1 ELSE 0)

WorkOK(w, sp, lost) ==
    /\ w \in Work
    /\ TablesOK(w.mem, w.pool, sp, Failures(w, lost))
    /\ w.table = Page0 => Failures(w, lost) # 0

\* the entries of the PML4s, but for entry i of t if it was absent
RootsKept(m, n, sp, t, i) ==
    \A s \in sp \ {Page0}, j \in Idx :
        Present(m[s][j]) \/ ~(s = t /\ j = i) => n[s][j] = m[s][j]

\* the present entries of the PML4s
RootsStay(m, n, sp) ==
    \A s \in sp \ {Page0}, j \in Idx : Present(m[s][j]) => n[s][j] = m[s][j]

\* A level of Vmm_Map keeps the tables in order.  It changes an entry of a
\* PML4 only if that was absent and is the one that it looks at.
LEMMA DescendKeeps ==
    ASSUME NEW sp, NEW lost \in Nat, NEW w, WorkOK(w, sp, lost), NEW i \in Idx,
           NEW d, d = Descend(w, i)
    PROVE  /\ WorkOK(d, sp, lost)
           /\ Failures(w, lost) =< Failures(d, lost)
           /\ d.table \notin sp \ {Page0}
           /\ Present(d.mem[w.table][i])
           /\ RootsKept(w.mem, d.mem, sp, w.table, i)
<1> DEFINE z == Failures(w, lost)
           m == w.mem
           pl == w.pool
           t == w.table
           p == Taken(pl)
<1>1. /\ w \in Work /\ TablesOK(m, pl, sp, z) /\ (t = Page0 => z # 0) /\ z \in Nat
      /\ t \in Mem /\ m \in [Mem -> [Idx -> Entry]] /\ w.failed \in BOOLEAN
      /\ pl \in Seq(Pages) /\ sp \subseteq Mem
  BY DEF WorkOK, Work, TablesOK, SpacesOK, Mem, Tables, Failures
<1>2. CASE Present(m[t][i])
  <2>1. d = WorkState(m, pl, w.failed, m[t][i].addr)
    BY <1>1, <1>2, DescendFields
  <2>2. d.mem = m /\ d.pool = pl /\ d.failed = w.failed /\ d.table = m[t][i].addr
    BY <2>1 DEF WorkState
  <2>3. m[t][i].addr \in Mem /\ (m[t][i].addr = Page0 => z # 0)
    BY <1>1, <1>2 DEF TablesOK, EntriesOK, Entry, Mem
  <2>4. m[t][i].addr \notin sp \ {Page0}
    BY <1>1, <1>2 DEF TablesOK, RootsFree
  <2>5. d \in Work
    BY <1>1, <2>1, <2>3 DEF Work, WorkState
  <2>6. WorkOK(d, sp, lost)
    <3>1. Failures(d, lost) = z
      BY <2>2 DEF Failures
    <3> QED  BY <1>1, <2>2, <2>3, <2>5, <3>1 DEF WorkOK
  <2>7. Failures(d, lost) = Failures(w, lost)
    BY <2>2 DEF Failures
  <2> QED  BY <1>1, <1>2, <2>2, <2>4, <2>6, <2>7 DEF RootsKept
<1>3. CASE ~Present(m[t][i])
  <2> DEFINE n == Write(Clear(m, p), t, i, TableEntry(p))
  <2>1. d = WorkState(n, Rest(pl), w.failed \/ pl = <<>>, p)
    BY <1>1, <1>3, DescendFields
  <2>2. /\ p \in Tables /\ (p = Page0 <=> pl = <<>>) /\ PoolOK(Rest(pl))
        /\ p \notin sp \ {Page0}
    BY <1>1, FreshPage
  <2>3. TableEntry(p) \in Entry /\ Present(TableEntry(p))
    BY <2>2, EntryTypes DEF TableEntry
  <2>4. /\ n \in [Mem -> [Idx -> Entry]] /\ n[t][i] = TableEntry(p)
        /\ \A q \in Mem, j \in Idx : q # p /\ ~(q = t /\ j = i) => n[q][j] = m[q][j]
    <3> HIDE DEF p, m, t
    <3>1. p \in Tables /\ TableEntry(p) \in Entry /\ t \in Mem /\ m \in [Mem -> [Idx -> Entry]]
      BY <1>1, <2>2, <2>3
    <3> QED  BY <3>1, WriteFields DEF IsWritten
  <2>5. /\ d.mem = n /\ d.pool = Rest(pl) /\ d.failed = (w.failed \/ pl = <<>>)
        /\ d.table = p
    BY <2>1 DEF WorkState
  <2> HIDE DEF n, p
  <2>6. d \in Work
    BY <1>1, <2>1, <2>2, <2>4 DEF Work, WorkState, PoolOK, Mem, Tables
  <2>7. /\ Failures(d, lost) \in Nat /\ (Failures(d, lost) = 0 <=> z = 0 /\ pl # <<>>)
        /\ z =< Failures(d, lost)
    <3>1. d.failed <=> w.failed \/ pl = <<>>
      BY <2>5
    <3>2. Failures(d, lost) \in {lost, lost + 1} /\ Failures(w, lost) \in {lost, lost + 1}
      BY DEF Failures
    <3>3. w.failed => Failures(d, lost) = lost + 1
      BY <3>1 DEF Failures
    <3>4. IF w.failed THEN Failures(w, lost) = lost + 1 ELSE Failures(w, lost) = lost
      BY DEF Failures
    <3>5. pl = <<>> => Failures(d, lost) = lost + 1
      BY <3>1 DEF Failures
    <3>6. ~w.failed /\ pl # <<>> => Failures(d, lost) = lost
      BY <3>1 DEF Failures
    <3> HIDE DEF z, pl
    <3>7. z = Failures(w, lost)
      BY DEF z
    <3> QED  BY <3>2, <3>3, <3>4, <3>5, <3>6, <3>7
  <2>8. TablesOK(n, Rest(pl), sp, Failures(d, lost))
    BY <1>1, <1>3, <2>7, BuildTable DEF n, p
  <2>9. WorkOK(d, sp, lost)
    BY <2>2, <2>5, <2>6, <2>7, <2>8 DEF WorkOK
  <2>10. \A s \in sp \ {Page0}, j \in Idx : ~(s = t /\ j = i) => n[s][j] = m[s][j]
    BY <1>1, <2>2, <2>4
  <2>11. Present(d.mem[t][i]) /\ d.table \notin sp \ {Page0}
    BY <2>2, <2>3, <2>4, <2>5
  <2>12. RootsKept(m, d.mem, sp, t, i)
    BY <1>3, <2>5, <2>10 DEF RootsKept
  <2> QED  BY <2>7, <2>9, <2>11, <2>12
<1> QED  BY <1>2, <1>3

\* what a last-level entry may become
Leaf(e) == e = Absent \/ (e \in Entry /\ Present(e) /\ e.addr \in Frames)

\* every entry but entry i of t
OthersSame(m, n, t, i) ==
    \A q \in Mem, j \in Idx : ~(q = t /\ j = i) => n[q][j] = m[q][j]

\* A leaf keeps the tables in order, wherever it is written.
LEMMA WriteLeaf ==
    ASSUME NEW m, NEW pl, NEW sp, NEW lost \in Nat, TablesOK(m, pl, sp, lost),
           NEW t \in Mem, NEW i \in Idx, NEW e, Leaf(e),
           NEW n, n = Write(m, t, i, e)
    PROVE  /\ TablesOK(n, pl, sp, lost)
           /\ n[t][i] = e
           /\ OthersSame(m, n, t, i)
<1>1. /\ e \in Entry /\ (e = Absent \/ Present(e))
      /\ Present(e) => e.addr \in Frames
  BY EntryTypes, PoolPages DEF Leaf
<1>2. m \in [Mem -> [Idx -> Entry]]
  BY DEF TablesOK
<1>3. [m[t] EXCEPT ![i] = e] \in [Idx -> Entry]
  BY <1>1, <1>2
<1>4. n \in [Mem -> [Idx -> Entry]] /\ n[t][i] = e
  BY <1>2, <1>3 DEF Write
<1>5. \A q \in Mem, j \in Idx : ~(q = t /\ j = i) => n[q][j] = m[q][j]
  BY <1>2 DEF Write
<1>6. \A q \in Mem, j \in Idx :
         n[q][j] = m[q][j] \/ (n[q][j] = e /\ (Present(n[q][j]) => n[q][j].addr \in Frames))
  BY <1>1, <1>4, <1>5
<1>7. EntriesOK(n, lost)
  <2> SUFFICES ASSUME NEW q \in Mem, NEW j \in Idx
               PROVE  /\ n[q][j] = Absent \/ Present(n[q][j])
                      /\ Present(n[q][j]) /\ n[q][j].addr = Page0 => lost # 0
    BY DEF EntriesOK
  <2>1. CASE n[q][j] = m[q][j]
    BY <2>1 DEF TablesOK, EntriesOK
  <2>2. CASE n[q][j] = e
    BY <2>2, <1>1, PoolPages
  <2> QED  BY <2>1, <2>2, <1>6
<1>8. RootsFree(n, pl, sp)
  <2>1. (ToSet(pl) \cup sp) \cap Frames = {}
    <3>1. \A k \in DOMAIN pl : pl[k] \in Pages
      BY DEF TablesOK, PoolOK
    <3>2. ToSet(pl) \subseteq Pages
      BY <3>1 DEF ToSet
    <3> QED  BY <3>2, PoolPages DEF TablesOK, SpacesOK, Tables
  <2>2. RootsFree(m, pl, sp)
    BY DEF TablesOK
  <2> QED  BY <1>6, <2>1, <2>2 DEF RootsFree
<1>9. Unshared(n, sp)
  <2>1. \A q \in Tables, j \in Idx :
           Present(n[q][j]) /\ n[q][j].addr \in Pages => n[q][j] = m[q][j]
    BY <1>6, PoolPages DEF Mem, Tables
  <2>2. Unshared(m, sp)
    BY DEF TablesOK
  <2> QED  BY <2>1, <2>2 DEF Unshared
<1> QED  BY <1>4, <1>5, <1>7, <1>8, <1>9 DEF TablesOK, OthersSame

-----------------------------------------------------------------------------
(***************************************************************************)
(* The inductive invariant                                                 *)
(***************************************************************************)

\* what a boot map is
LEMMA BootMapTypes ==
    /\ Len(BootMaps) \in Nat
    /\ \A va \in VAddrs : va[1] \in Idx /\ va[2] \in Idx /\ va[3] \in Idx /\ va[4] \in Idx
    /\ \A k \in 1 .. Len(BootMaps) :
          /\ BootMaps[k].va \in VAddrs /\ BootMaps[k].va[1] \in Idx
          /\ BootMaps[k].frame \in Frames
          /\ BootMaps[k].flags \in SUBSET AllFlags /\ "P" \in BootMaps[k].flags
<1>1. /\ Len(BootMaps) \in Nat /\ DOMAIN BootMaps = 1 .. Len(BootMaps)
      /\ \A k \in 1 .. Len(BootMaps) :
            BootMaps[k] \in [va : VAddrs, frame : Frames, flags : SUBSET AllFlags]
  <2> DEFINE S == [va : VAddrs, frame : Frames, flags : SUBSET AllFlags]
  <2>1. BootMaps \in Seq(S)
    BY VmmAssumption
  <2> HIDE DEF S
  <2>2. Len(BootMaps) \in Nat /\ \A k \in 1 .. Len(BootMaps) : BootMaps[k] \in S
    BY <2>1
  <2> QED  BY <2>1, <2>2 DEF S
<1>2. \A va \in VAddrs : va[1] \in Idx /\ va[2] \in Idx /\ va[3] \in Idx /\ va[4] \in Idx
  BY VmmAssumption
<1>3. \A k \in 1 .. Len(BootMaps) : "P" \in BootMaps[k].flags
  BY <1>1, VmmAssumption DEF ToSet
<1> QED  BY <1>1, <1>2, <1>3

\* What the boot code has put into the upper half of the kernel's PML4 stays,
\* and every PML4 has it, unless an unmap strayed.
BootShared ==
    strays = 0 /\ Page0 \notin spaces =>
        \A s \in spaces, k \in 1 .. booted :
            LET i == BootMaps[k].va[1] IN
            i >= FirstKernel => Present(mem[KernelSpace][i]) /\ mem[s][i] = mem[KernelSpace][i]

IInv ==
    /\ TablesOK(mem, pool, spaces, failures)
    /\ booted \in 0 .. Len(BootMaps)
    /\ current \in spaces \cup {None}
    /\ current # None => booted = Len(BootMaps)
    /\ booted < Len(BootMaps) => spaces = {KernelSpace}
    /\ DOMAIN tlb \subseteq VAddrs
    /\ failures \in 0 .. MaxFailures + 1
    /\ strays \in 0 .. MaxStrays + 1
    /\ BootShared

\* the entry of a PML4 that a walk went through
EntryBuilt(m, t, i) == t # Page0 => Present(m[t][i])

\* what the three levels of Vmm_Map leave: a table below every PML4
WalkDone(d, w, i, sp, lost) ==
    /\ WorkOK(d, sp, lost)
    /\ d.table \notin sp \ {Page0}
    /\ EntryBuilt(d.mem, w.table, i)
    /\ RootsStay(w.mem, d.mem, sp)

\* The three levels of Vmm_Map.
LEMMA WalkKeeps ==
    ASSUME NEW sp, NEW lost \in Nat, NEW w, WorkOK(w, sp, lost), w.table \in sp,
           NEW i \in Idx, NEW j \in Idx, NEW k \in Idx,
           NEW d, d = Descend(Descend(Descend(w, i), j), k)
    PROVE  WalkDone(d, w, i, sp, lost)
<1>1. PICK w1 : w1 = Descend(w, i)
  OBVIOUS
<1>2. PICK w2 : w2 = Descend(w1, j)
  OBVIOUS
<1>3. d = Descend(w2, k)
  BY <1>1, <1>2
<1>4. /\ WorkOK(w1, sp, lost) /\ w1.table \notin sp \ {Page0}
      /\ Present(w1.mem[w.table][i]) /\ RootsKept(w.mem, w1.mem, sp, w.table, i)
  BY <1>1, DescendKeeps
<1>5. /\ WorkOK(w2, sp, lost) /\ w2.table \notin sp \ {Page0}
      /\ RootsKept(w1.mem, w2.mem, sp, w1.table, j)
  BY <1>2, <1>4, DescendKeeps
<1>6. /\ WorkOK(d, sp, lost) /\ d.table \notin sp \ {Page0}
      /\ RootsKept(w2.mem, d.mem, sp, w2.table, k)
  BY <1>3, <1>5, DescendKeeps
<1>7. \A r \in sp \ {Page0}, l \in Idx : d.mem[r][l] = w1.mem[r][l]
  BY <1>4, <1>5, <1>6 DEF RootsKept
<1>8. RootsStay(w.mem, d.mem, sp)
  BY <1>4, <1>7 DEF RootsStay, RootsKept
<1>9. EntryBuilt(d.mem, w.table, i)
  BY <1>4, <1>7 DEF EntryBuilt
<1> QED  BY <1>6, <1>8, <1>9 DEF WalkDone

\* The whole of Vmm_Map: three levels, and then a leaf outside of every PML4.
LEMMA MapKeeps ==
    ASSUME IInv, NEW s \in spaces, NEW va \in VAddrs, NEW frame \in Frames,
           NEW flags \in SUBSET AllFlags, "P" \in flags, Running,
           Map(s, va, frame, flags)
    PROVE  /\ TablesOK(mem', pool', spaces, failures')
           /\ failures' \in 0 .. MaxFailures + 1
           /\ Page0 \notin spaces =>
                 /\ Present(mem'[s][va[1]])
                 /\ RootsStay(mem, mem', spaces)
<1>1. va[1] \in Idx /\ va[2] \in Idx /\ va[3] \in Idx /\ va[4] \in Idx
  BY BootMapTypes
<1>2. failures \in Nat /\ s \in Mem /\ (s = Page0 => failures # 0)
  BY VmmAssumption DEF IInv, TablesOK, SpacesOK, Tables, Mem
<1>3. PICK w : w = Now(s)
  OBVIOUS
<1>4. PICK d : d = Descend(Descend(Descend(w, va[1]), va[2]), va[3])
  OBVIOUS
<1>5. PICK leaf : leaf = [addr |-> frame, flags |-> flags]
  OBVIOUS
<1>6. /\ mem' = Write(d.mem, d.table, va[4], leaf) /\ pool' = d.pool
      /\ failures' = Failures(d, failures)
  BY <1>3, <1>4, <1>5 DEF Map, Write, Failures
<1>7. /\ w = WorkState(mem, pool, FALSE, s) /\ w.mem = mem /\ w.table = s
      /\ w.pool = pool /\ ~w.failed
  BY <1>3 DEF Now, WorkState
<1>8. WorkOK(w, spaces, failures)
  <2>1. w \in Work
    BY <1>2, <1>7 DEF Work, WorkState, IInv, TablesOK, PoolOK
  <2>2. Failures(w, failures) = failures
    BY <1>2, <1>7 DEF Failures
  <2> QED  BY <1>2, <1>7, <2>1, <2>2 DEF WorkOK, IInv
<1>9. /\ WorkOK(d, spaces, failures) /\ d.table \notin spaces \ {Page0}
      /\ EntryBuilt(d.mem, w.table, va[1]) /\ RootsStay(w.mem, d.mem, spaces)
  <2>1. w.table \in spaces
    BY <1>7
  <2>2. WalkDone(d, w, va[1], spaces, failures)
    BY <1>1, <1>2, <1>4, <1>8, <2>1, WalkKeeps
  <2> QED  BY <2>2 DEF WalkDone
<1>10. EntryBuilt(d.mem, s, va[1]) /\ RootsStay(mem, d.mem, spaces)
  BY <1>7, <1>9
<1>11. Leaf(leaf)
  BY <1>5, EntryTypes DEF Leaf
<1>12. d.table \in Mem /\ TablesOK(d.mem, d.pool, spaces, failures')
  BY <1>6, <1>9 DEF WorkOK, Work
<1>13. failures' \in 0 .. MaxFailures + 1 /\ failures' \in Nat
  <2>1. failures' \in {failures, failures + 1}
    BY <1>2, <1>6 DEF Failures
  <2>2. failures =< MaxFailures /\ MaxFailures \in Nat
    BY VmmAssumption DEF Running
  <2> QED  BY <1>2, <2>1, <2>2
<1>14. /\ TablesOK(mem', pool', spaces, failures')
       /\ OthersSame(d.mem, mem', d.table, va[4])
  <2>1. PICK n : n = Write(d.mem, d.table, va[4], leaf)
    OBVIOUS
  <2>2. TablesOK(n, d.pool, spaces, failures') /\ OthersSame(d.mem, n, d.table, va[4])
    BY <1>1, <1>11, <1>12, <1>13, <2>1, WriteLeaf
  <2> QED  BY <1>6, <2>1, <2>2
<1>15. ASSUME Page0 \notin spaces, NEW r \in spaces, NEW j \in Idx
       PROVE  mem'[r][j] = d.mem[r][j]
  <2>1. r \in Mem /\ r # d.table
    BY <1>9, <1>15 DEF IInv, TablesOK, SpacesOK, Tables, Mem
  <2> QED  BY <1>14, <2>1 DEF OthersSame
<1>16. ASSUME Page0 \notin spaces
       PROVE  Present(mem'[s][va[1]]) /\ RootsStay(mem, mem', spaces)
  <2>1. mem'[s][va[1]] = d.mem[s][va[1]] /\ s # Page0
    BY <1>1, <1>15, <1>16
  <2>2. RootsStay(mem, mem', spaces)
    BY <1>10, <1>15, <1>16 DEF RootsStay
  <2> QED  BY <1>10, <2>1, <2>2 DEF EntryBuilt
<1> QED  BY <1>13, <1>14, <1>16

-----------------------------------------------------------------------------
(***************************************************************************)
(* The invariant is inductive                                              *)
(***************************************************************************)

\* The boot code begins with one PML4, and no entry.
LEMMA InitOK == Init => IInv
<1> SUFFICES ASSUME Init PROVE IInv
  OBVIOUS
<1>1. mem = [p \in Mem |-> Cleared]
  BY DEF Init, Mem
<1>2. mem \in [Mem -> [Idx -> Entry]]
  BY <1>1, EntryTypes
<1>3. \A p \in Mem, i \in Idx : mem[p][i] = Absent /\ ~Present(mem[p][i])
  BY <1>1, EntryTypes
<1>7. PoolOK(Pool)
  <2>1. SubSeq(Pool, 1, Len(Pool)) = SubSeq(Pool, 1, Len(Pool)) /\ Len(Pool) =< Len(Pool)
    BY PoolPages
  <2> QED  BY <2>1, PoolPages DEF PoolOK, IsPrefix
<1>8. /\ PoolOK(pool) /\ ToSet(pool) = ToSet(Pool) \ {KernelSpace} /\ spaces = {KernelSpace}
      /\ failures = 0 /\ booted = 0 /\ current = None
  BY <1>7, TakePage, VmmAssumption DEF Init, KernelSpace
<1>9. SpacesOK(pool, spaces, failures)
  BY <1>8, PoolPages DEF SpacesOK, Tables
<1>10. EntriesOK(mem, failures)
  BY <1>3 DEF EntriesOK
<1>11. RootsFree(mem, pool, spaces) /\ Unshared(mem, spaces)
  <2>1. \A p \in Tables : p \in Mem
    BY DEF Tables, Mem
  <2> QED  BY <1>3, <2>1 DEF RootsFree, Unshared
<1>12. BootShared
  BY <1>8 DEF BootShared
<1>13. failures \in 0 .. MaxFailures + 1 /\ booted \in 0 .. Len(BootMaps)
  <2>1. Len(BootMaps) \in Nat
    BY VmmAssumption
  <2> QED  BY <1>8, <2>1, VmmAssumption
<1>14. DOMAIN tlb \subseteq VAddrs /\ strays \in 0 .. MaxStrays + 1
  BY VmmAssumption DEF Init, NoTlb
<1> QED  BY <1>2, <1>8, <1>9, <1>10, <1>11, <1>12, <1>13, <1>14 DEF IInv, TablesOK

\* n is m with a table at s, that has the upper half of the kernel's
NewTable(m, n, s) ==
    /\ \A q \in Mem, j \in Idx : q # s => n[q][j] = m[q][j]
    /\ \A j \in Idx : n[s][j] = m[KernelSpace][j] \/ n[s][j] = Absent
    /\ \A j \in Idx : n[s][j] = (IF j >= FirstKernel THEN m[KernelSpace][j] ELSE Absent)

\* A new PML4 that shares the kernel's half keeps the tables in order.
LEMMA NewKeeps ==
    ASSUME NEW m, NEW pl, NEW sp, NEW lost \in Nat, TablesOK(m, pl, sp, lost),
           NEW s, s = Taken(pl), NEW z \in Nat, z = 0 <=> lost = 0 /\ pl # <<>>,
           NEW n \in [Mem -> [Idx -> Entry]], NewTable(m, n, s)
    PROVE  /\ TablesOK(n, Rest(pl), sp \cup {s}, z)
           /\ s \notin sp \ {Page0}
<1>1. /\ s \in Tables /\ (s = Page0 <=> pl = <<>>)
      /\ PoolOK(Rest(pl)) /\ ToSet(Rest(pl)) = ToSet(pl) \ {s}
      /\ s \notin sp \ {Page0}
      /\ s # Page0 => \A q \in Mem, j \in Idx : ~(Present(m[q][j]) /\ m[q][j].addr = s)
  BY FreshPage
<1>2. /\ KernelSpace \in sp /\ KernelSpace # Page0 /\ KernelSpace # s
      /\ KernelSpace \in Tables /\ KernelSpace \in Mem /\ Tables \subseteq Mem
  BY <1>1, PoolPages DEF TablesOK, SpacesOK, Tables, Mem
<1>3. /\ \A q \in Mem, j \in Idx : q # s => n[q][j] = m[q][j]
      /\ \A j \in Idx : n[s][j] = m[KernelSpace][j] \/ n[s][j] = Absent
      /\ \A j \in Idx : Present(n[s][j]) => n[s][j] = m[KernelSpace][j] /\ j >= FirstKernel
  BY EntryTypes DEF NewTable
<1>4. SpacesOK(Rest(pl), sp \cup {s}, z)
  BY <1>1 DEF TablesOK, SpacesOK
<1>5. EntriesOK(n, z)
  <2> SUFFICES ASSUME NEW q \in Mem, NEW j \in Idx
               PROVE  /\ n[q][j] = Absent \/ Present(n[q][j])
                      /\ Present(n[q][j]) /\ n[q][j].addr = Page0 => z # 0
    BY DEF EntriesOK
  <2>1. CASE q = s /\ n[s][j] = Absent
    BY <2>1, EntryTypes, PoolPages
  <2>2. CASE q = s /\ n[s][j] = m[KernelSpace][j]
    BY <2>2, <1>2 DEF TablesOK, EntriesOK
  <2>3. CASE q # s
    <3>1. n[q][j] = m[q][j]
      BY <2>3, <1>3
    <3> QED  BY <2>3, <3>1, <1>1 DEF TablesOK, EntriesOK
  <2> QED  BY <2>1, <2>2, <2>3, <1>3
<1>6. RootsFree(n, Rest(pl), sp \cup {s})
  <2> SUFFICES ASSUME NEW q \in Mem, NEW j \in Idx, Present(n[q][j])
               PROVE  n[q][j].addr \notin ToSet(Rest(pl)) \cup ((sp \cup {s}) \ {Page0})
    BY DEF RootsFree
  <2>1. PICK r \in Mem : n[q][j] = m[r][j]
    BY <1>2, <1>3
  <2>2. n[q][j].addr \notin ToSet(pl) \cup (sp \ {Page0})
    BY <2>1 DEF TablesOK, RootsFree
  <2>3. s # Page0 => n[q][j].addr # s
    BY <2>1, <1>1
  <2> QED  BY <2>2, <2>3, <1>1
<1>7. Unshared(n, sp \cup {s})
  <2> SUFFICES ASSUME NEW q \in Tables, NEW r \in Tables, NEW j \in Idx, NEW k \in Idx,
                      Present(n[q][j]), Present(n[r][k]),
                      n[q][j].addr \in Pages, n[r][k].addr = n[q][j].addr
               PROVE  \/ q = r /\ j = k
                      \/ q \in sp \cup {s} /\ r \in sp \cup {s} /\ j = k /\ j >= FirstKernel
    BY DEF Unshared
  <2>1. q \in Mem /\ r \in Mem
    BY <1>2
  <2>2. PICK q1 \in Tables : /\ n[q][j] = m[q1][j]
                             /\ \/ q1 = q /\ q # s
                                \/ q1 = KernelSpace /\ q = s /\ j >= FirstKernel
    BY <2>1, <1>2, <1>3
  <2>3. PICK r1 \in Tables : /\ n[r][k] = m[r1][k]
                             /\ \/ r1 = r /\ r # s
                                \/ r1 = KernelSpace /\ r = s /\ k >= FirstKernel
    BY <2>1, <1>2, <1>3
  <2>4. (q1 = r1 /\ j = k) \/ (q1 \in sp /\ r1 \in sp /\ j = k /\ j >= FirstKernel)
    BY <2>2, <2>3 DEF TablesOK, Unshared
  <2> QED  BY <2>2, <2>3, <2>4, <1>2
<1> QED  BY <1>1, <1>4, <1>5, <1>6, <1>7 DEF TablesOK

\* A level of Vmm_Unmap leads to a page that is no PML4.
LEMMA FollowNoRoot ==
    ASSUME IInv, NEW t \in Mem, NEW i \in Idx, NEW u, u = Follow(t, i)
    PROVE  u \in Mem /\ u \notin spaces \ {Page0}
<1>1. u = mem[t][i].addr /\ mem \in [Mem -> [Idx -> Entry]]
  BY DEF Follow, IInv, TablesOK
<1>2. u \in Mem
  BY <1>1 DEF Entry, Mem
<1>3. mem[t][i] = Absent \/ Present(mem[t][i])
  BY DEF IInv, TablesOK, EntriesOK
<1>4. u \notin spaces \ {Page0}
  BY <1>1, <1>3, EntryTypes DEF IInv, TablesOK, RootsFree
<1> QED  BY <1>2, <1>4

\* what Vmm_Unmap did, whose walk comes to t1, t2 and w if page 0 is cleared
Unmapped(t1, t2, w, i) ==
    /\ UNCHANGED <<pool, booted, spaces, current, failures>>
    /\ strays' \in 0 .. MaxStrays + 1 /\ (strays' = 0 => strays = 0)
    /\ w \in Mem /\ w \notin spaces \ {Page0}
    /\ \E t \in Mem : /\ mem' = Write(mem, t, i, Absent)
                      /\ strays' = 0 => t = w \/ (mem' = mem /\ Page0 \in {t1, t2})

\* Vmm_Unmap clears an entry of some page: the one that it should, unless it
\* changes nothing or strays.
LEMMA UnmapWrites ==
    ASSUME IInv, NEW s \in spaces, NEW va \in VAddrs, Vmm_Unmap(s, va),
           NEW t1, t1 = Follow(s, va[1]), NEW t2, t2 = Follow(t1, va[2]),
           NEW w, w = Follow(t2, va[3])
    PROVE  Unmapped(t1, t2, w, va[4])
<1>1. va[1] \in Idx /\ va[2] \in Idx /\ va[3] \in Idx /\ s \in Mem
  BY VmmAssumption DEF IInv, TablesOK, SpacesOK, Tables, Mem
<1>2. t1 \in Mem
  BY <1>1, FollowNoRoot
<1>3. t2 \in Mem
  BY <1>1, <1>2, FollowNoRoot
<1>4. w \in Mem /\ w \notin spaces \ {Page0}
  BY <1>1, <1>3, FollowNoRoot
<1>5. Reached(s, va) = IF failures = 0 /\ Page0 \in {t1, t2} THEN Tables ELSE {w}
  BY DEF Reached, Tables
<1>6. PICK t \in Reached(s, va) : Cleans(t, s, va)
  BY DEF Vmm_Unmap
<1>7. t \in Mem
  BY <1>4, <1>5, <1>6 DEF Tables, Mem
<1>8. mem' = Write(mem, t, va[4], Absent)
  BY <1>6 DEF Cleans, Write
<1>9. strays \in Nat /\ MaxStrays \in Nat /\ strays =< MaxStrays
  BY VmmAssumption DEF IInv, Vmm_Unmap, Booted, Running
<1>10. strays' = strays + (IF Reached(s, va) # {t} /\ mem' # mem THEN 1 ELSE 0)
  BY <1>6 DEF Cleans
<1>11. strays' \in 0 .. MaxStrays + 1 /\ (strays' = 0 => strays = 0)
  BY <1>9, <1>10
<1>12. ASSUME strays' = 0 PROVE t = w \/ (mem' = mem /\ Page0 \in {t1, t2})
  <2>1. Reached(s, va) = {t} \/ mem' = mem
    BY <1>9, <1>10, <1>12
  <2>2. CASE failures = 0 /\ Page0 \in {t1, t2}
    <3>1. Reached(s, va) = Tables /\ KernelSpace \in Tables /\ Page0 \in Tables
      BY <1>5, <2>2, PoolPages DEF Tables
    <3>2. Reached(s, va) # {t}
      BY <3>1, PoolPages
    <3> QED  BY <2>1, <2>2, <3>2
  <2>3. CASE ~(failures = 0 /\ Page0 \in {t1, t2})
    BY <1>5, <1>6, <2>3
  <2> QED  BY <2>2, <2>3
<1>13. UNCHANGED <<pool, booted, spaces, current, failures>>
  BY <1>6 DEF Cleans
<1> QED  BY <1>4, <1>7, <1>8, <1>11, <1>12, <1>13 DEF Unmapped

\* Vmm_NewAddressSpace makes a table with the kernel's upper half.
LEMMA NewMakesTable ==
    ASSUME IInv, Vmm_NewAddressSpace, NEW s, s = Taken(pool)
    PROVE  /\ mem' \in [Mem -> [Idx -> Entry]] /\ NewTable(mem, mem', s)
           /\ pool' = Rest(pool) /\ spaces' = spaces \cup {s}
           /\ failures' = failures + (IF pool = <<>> THEN 1 ELSE 0)
<1> DEFINE a == Allocated(Now(None))
           c == Clear(mem, s)
<1>1. a = WorkState(c, Rest(pool), pool = <<>>, None)
  BY DEF Allocated, Now, Clear, Taken, Rest, Fresh, WorkState
<1>2. a.mem = c /\ a.pool = Rest(pool) /\ a.failed = (pool = <<>>)
  BY <1>1 DEF WorkState
<1>3. Fresh(Now(None)) = s
  BY DEF Fresh, Now, Taken
<1> HIDE DEF a, c
<1>4. /\ mem' = [c EXCEPT ![s] = UpperHalf(c)] /\ pool' = Rest(pool)
      /\ spaces' = spaces \cup {s} /\ failures' = failures + (IF pool = <<>> THEN 1 ELSE 0)
  BY <1>2, <1>3 DEF Vmm_NewAddressSpace, a
<1>5. s \in Tables /\ s \notin spaces \ {Page0} /\ failures \in Nat
  BY FreshPage, VmmAssumption DEF IInv
<1>6. KernelSpace \in Mem /\ KernelSpace # s /\ s \in Mem
  BY <1>5, PoolPages DEF IInv, TablesOK, SpacesOK, Mem, Tables
<1>7. mem \in [Mem -> [Idx -> Entry]]
  BY DEF IInv, TablesOK
<1>8. c \in [Mem -> [Idx -> Entry]] /\ \A q \in Mem : q # s => c[q] = mem[q]
  BY <1>6, <1>7, EntryTypes DEF c, Clear
<1>9. /\ UpperHalf(c) \in [Idx -> Entry]
      /\ \A j \in Idx : UpperHalf(c)[j] = (IF j >= FirstKernel THEN mem[KernelSpace][j] ELSE Absent)
  BY <1>6, <1>8, EntryTypes DEF UpperHalf
<1>10. mem' \in [Mem -> [Idx -> Entry]] /\ mem'[s] = UpperHalf(c)
       /\ \A q \in Mem : q # s => mem'[q] = mem[q]
  BY <1>4, <1>6, <1>8, <1>9
<1>11. NewTable(mem, mem', s)
  BY <1>9, <1>10 DEF NewTable
<1> QED  BY <1>4, <1>10, <1>11

\* Every step keeps the tables in order, and the kernel's half shared.
LEMMA NextOK == IInv /\ [Next]_vars => IInv'
<1> SUFFICES ASSUME IInv, [Next]_vars PROVE IInv'
  OBVIOUS
<1> USE DEF IInv
<1>1. CASE Vmm_Initialize_Map
  <2>1. Len(BootMaps) \in Nat /\ booted \in 0 .. Len(BootMaps) /\ booted < Len(BootMaps)
    BY <1>1, VmmAssumption DEF Vmm_Initialize_Map
  <2>2. PICK m : m = BootMaps[booted + 1] /\ Map(KernelSpace, m.va, m.frame, m.flags)
    BY <1>1 DEF Vmm_Initialize_Map
  <2>3. m.va \in VAddrs /\ m.frame \in Frames /\ m.flags \in SUBSET AllFlags /\ "P" \in m.flags
    BY <2>1, <2>2, BootMapTypes
  <2>4. KernelSpace \in spaces /\ Running
    BY <1>1 DEF TablesOK, SpacesOK, Vmm_Initialize_Map
  <2>5. /\ TablesOK(mem', pool', spaces, failures') /\ failures' \in 0 .. MaxFailures + 1
        /\ Page0 \notin spaces =>
              Present(mem'[KernelSpace][m.va[1]]) /\ RootsStay(mem, mem', spaces)
    BY <2>2, <2>3, <2>4, MapKeeps
  <2>6. booted' = booted + 1 /\ UNCHANGED <<spaces, current, tlb, strays>>
    BY <1>1 DEF Vmm_Initialize_Map
  <2>7. spaces = {KernelSpace} /\ current = None
    BY <2>1
  <2>8. BootShared'
    <3> SUFFICES ASSUME strays = 0, Page0 \notin spaces, NEW k \in 1 .. booted + 1,
                        BootMaps[k].va[1] >= FirstKernel
                 PROVE  Present(mem'[KernelSpace][BootMaps[k].va[1]])
      BY <2>6, <2>7 DEF BootShared
    <3>1. CASE k = booted + 1
      BY <3>1, <2>2, <2>5
    <3>2. CASE k # booted + 1
      <4>1. k \in 1 .. booted /\ k \in 1 .. Len(BootMaps)
        BY <2>1, <3>2
      <4>2. BootMaps[k].va[1] \in Idx
        BY <4>1, BootMapTypes
      <4>3. Present(mem[KernelSpace][BootMaps[k].va[1]])
        BY <2>4, <4>1 DEF BootShared
      <4>4. KernelSpace \in spaces \ {Page0}
        BY <2>4
      <4> QED  BY <2>5, <4>2, <4>3, <4>4 DEF RootsStay
    <3> QED  BY <3>1, <3>2
  <2> QED  BY <2>1, <2>5, <2>6, <2>7, <2>8
<1>2. CASE Vmm_NewAddressSpace
  <2>1. PICK s : s = Taken(pool)
    OBVIOUS
  <2>2. /\ mem' \in [Mem -> [Idx -> Entry]] /\ NewTable(mem, mem', s)
        /\ pool' = Rest(pool) /\ spaces' = spaces \cup {s}
        /\ failures' = failures + (IF pool = <<>> THEN 1 ELSE 0)
    BY <1>2, <2>1, NewMakesTable
  <2>3. failures \in Nat /\ failures =< MaxFailures /\ UNCHANGED <<booted, current, tlb, strays>>
    BY <1>2, VmmAssumption DEF Vmm_NewAddressSpace, Booted, Running
  <2>4. /\ failures' \in Nat /\ (failures' = 0 <=> failures = 0 /\ pool # <<>>)
        /\ failures' \in 0 .. MaxFailures + 1
    BY <2>2, <2>3, VmmAssumption
  <2>5. TablesOK(mem', pool', spaces', failures') /\ s \notin spaces \ {Page0}
    <3>1. PICK n, z : n = mem' /\ z = failures'
      OBVIOUS
    <3>2. TablesOK(n, Rest(pool), spaces \cup {s}, z) /\ s \notin spaces \ {Page0}
      BY <2>1, <2>2, <2>3, <2>4, <3>1, NewKeeps
    <3> QED  BY <2>2, <3>1, <3>2
  <2>6. BootShared'
    <3> SUFFICES ASSUME strays = 0, Page0 \notin spaces', NEW r \in spaces', NEW k \in 1 .. booted,
                        BootMaps[k].va[1] >= FirstKernel
                 PROVE  /\ Present(mem'[KernelSpace][BootMaps[k].va[1]])
                        /\ mem'[r][BootMaps[k].va[1]] = mem'[KernelSpace][BootMaps[k].va[1]]
      BY <2>3 DEF BootShared
    <3>1. k \in 1 .. Len(BootMaps)
      BY BootMapTypes
    <3>2. PICK i \in Idx : i = BootMaps[k].va[1] /\ i >= FirstKernel
      BY <3>1, BootMapTypes
    <3>3. /\ Present(mem[KernelSpace][i])
          /\ \A q \in spaces : mem[q][i] = mem[KernelSpace][i]
      BY <2>2, <3>2 DEF BootShared, TablesOK, SpacesOK
    <3>4. KernelSpace \in Mem /\ KernelSpace # s /\ spaces \subseteq Mem
      BY <2>2, <2>5, PoolPages DEF TablesOK, SpacesOK, Mem, Tables
    <3>5. mem'[KernelSpace][i] = mem[KernelSpace][i]
      BY <2>2, <3>4 DEF NewTable
    <3>6. mem'[r][i] = mem[KernelSpace][i]
      BY <2>2, <3>2, <3>3, <3>4 DEF NewTable
    <3> QED  BY <3>2, <3>3, <3>5, <3>6
  <2>7. booted = Len(BootMaps)
    BY <1>2 DEF Vmm_NewAddressSpace, Booted
  <2> QED  BY <2>2, <2>3, <2>4, <2>5, <2>6, <2>7
<1>3. ASSUME NEW s \in spaces, Vmm_SwitchAddressSpaces(s) PROVE IInv'
  <2>1. tlb' = NoTlb /\ current' = s /\ booted = Len(BootMaps)
        /\ UNCHANGED <<mem, pool, booted, spaces, failures, strays>>
    BY <1>3 DEF Vmm_SwitchAddressSpaces
  <2>2. DOMAIN tlb' \subseteq VAddrs
    BY <2>1 DEF NoTlb
  <2>3. BootShared'
    BY <2>1 DEF BootShared
  <2> QED  BY <2>1, <2>2, <2>3
<1>4. ASSUME NEW s \in spaces, NEW va \in VAddrs, NEW frame \in Frames, NEW flags \in Flags,
             Vmm_Map(s, va, frame, flags)
      PROVE  IInv'
  <2>1. flags \in SUBSET AllFlags /\ "P" \in flags
    BY VmmAssumption
  <2>2. Running /\ Map(s, va, frame, flags) /\ UNCHANGED <<booted, spaces, current, tlb, strays>>
    BY <1>4 DEF Vmm_Map, Booted
  <2>3. /\ TablesOK(mem', pool', spaces, failures') /\ failures' \in 0 .. MaxFailures + 1
        /\ Page0 \notin spaces => RootsStay(mem, mem', spaces)
    BY <2>1, <2>2, MapKeeps
  <2>4. BootShared'
    <3> SUFFICES ASSUME strays = 0, Page0 \notin spaces, NEW r \in spaces, NEW k \in 1 .. booted,
                        BootMaps[k].va[1] >= FirstKernel
                 PROVE  /\ Present(mem'[KernelSpace][BootMaps[k].va[1]])
                        /\ mem'[r][BootMaps[k].va[1]] = mem'[KernelSpace][BootMaps[k].va[1]]
      BY <2>2 DEF BootShared
    <3>1. k \in 1 .. Len(BootMaps)
      BY BootMapTypes
    <3>2. PICK i \in Idx : i = BootMaps[k].va[1] /\ i >= FirstKernel
      BY <3>1, BootMapTypes
    <3>3. Present(mem[KernelSpace][i]) /\ mem[r][i] = mem[KernelSpace][i]
      BY <3>2 DEF BootShared
    <3>4. KernelSpace \in spaces \ {Page0} /\ r \in spaces \ {Page0}
      BY DEF TablesOK, SpacesOK
    <3> QED  BY <2>3, <3>2, <3>3, <3>4 DEF RootsStay
  <2> QED  BY <2>2, <2>3, <2>4
<1>5. ASSUME NEW s \in spaces, NEW va \in VAddrs, Vmm_Unmap(s, va) PROVE IInv'
  <2>1. va[4] \in Idx
    BY VmmAssumption
  <2>2. PICK t1, t2, w : /\ t1 = Follow(s, va[1]) /\ t2 = Follow(t1, va[2])
                         /\ w = Follow(t2, va[3])
    OBVIOUS
  <2>3. Unmapped(t1, t2, w, va[4])
    BY <1>5, <2>2, UnmapWrites
  <2>4. PICK t \in Mem : /\ mem' = Write(mem, t, va[4], Absent)
                         /\ strays' = 0 => t = w \/ mem' = mem
    BY <2>3 DEF Unmapped
  <2>5. /\ UNCHANGED <<pool, booted, spaces, current, failures>>
        /\ DOMAIN tlb' \subseteq VAddrs
    BY <1>5, <2>3 DEF Unmapped, Vmm_Unmap
  <2>6. TablesOK(mem', pool, spaces, failures) /\ OthersSame(mem, mem', t, va[4])
    <3> DEFINE n == mem'
    <3>1. n = Write(mem, t, va[4], Absent) /\ failures \in Nat
      BY <2>4, VmmAssumption
    <3> HIDE DEF n
    <3>2. TablesOK(n, pool, spaces, failures) /\ OthersSame(mem, n, t, va[4])
      BY <2>1, <3>1, WriteLeaf DEF Leaf
    <3> QED  BY <3>2 DEF n
  <2>7. BootShared'
    <3> SUFFICES ASSUME strays' = 0, Page0 \notin spaces, NEW r \in spaces,
                        NEW k \in 1 .. booted, BootMaps[k].va[1] >= FirstKernel
                 PROVE  /\ Present(mem'[KernelSpace][BootMaps[k].va[1]])
                        /\ mem'[r][BootMaps[k].va[1]] = mem'[KernelSpace][BootMaps[k].va[1]]
      BY <2>5 DEF BootShared
    <3>1. k \in 1 .. Len(BootMaps)
      BY BootMapTypes
    <3>2. PICK i \in Idx : i = BootMaps[k].va[1] /\ i >= FirstKernel
      BY <3>1, BootMapTypes
    <3>3. strays = 0 /\ w \notin spaces
      BY <2>3 DEF Unmapped
    <3>4. Present(mem[KernelSpace][i]) /\ mem[r][i] = mem[KernelSpace][i]
      BY <3>2, <3>3 DEF BootShared
    <3>5. KernelSpace \in spaces /\ spaces \subseteq Mem
      BY DEF TablesOK, SpacesOK, Mem, Tables
    <3>6. mem'[KernelSpace][i] = mem[KernelSpace][i] /\ mem'[r][i] = mem[r][i]
      <4>1. CASE mem' = mem
        BY <4>1
      <4>2. CASE t = w
        BY <2>6, <3>3, <3>5, <4>2 DEF OthersSame
      <4> QED  BY <2>4, <4>1, <4>2
    <3> QED  BY <3>2, <3>4, <3>6
  <2>8. strays' \in 0 .. MaxStrays + 1
    BY <2>3 DEF Unmapped
  <2> QED  BY <2>5, <2>6, <2>7, <2>8
<1>6. ASSUME NEW va \in VAddrs, Access(va) PROVE IInv'
  <2>1. /\ UNCHANGED <<mem, pool, booted, spaces, current, failures, strays>>
        /\ DOMAIN tlb' = DOMAIN tlb \cup {va}
    BY <1>6 DEF Access
  <2>2. BootShared'
    BY <2>1 DEF BootShared
  <2> QED  BY <2>1, <2>2
<1>7. CASE UNCHANGED vars
  BY <1>7 DEF vars, BootShared
<1> QED  BY <1>1, <1>2, <1>3, <1>4, <1>5, <1>6, <1>7 DEF Next

-----------------------------------------------------------------------------
(***************************************************************************)
(* The theorems, whether or not there is memory for every table            *)
(***************************************************************************)

\* The invariant of Spec.
THEOREM IInvHolds == Spec => []IInv
BY InitOK, NextOK, PTL DEF Spec

(***************************************************************************)
(* Every page is on the stack, a PML4 or a table, and tables hold entries  *)
(* (vmm.c:7-8, 44-106).                                                    *)
(***************************************************************************)
THEOREM VmmTypeCorrect == Spec => []TypeOK
<1>1. IInv => TypeOK
  BY DEF IInv, TablesOK, SpacesOK, PoolOK, TypeOK, Mem, Tables
<1> QED  BY <1>1, IInvHolds, PTL

(***************************************************************************)
(* No page is a table of two places, but where spaces share the kernel's   *)
(* half, and none that is on the stack or a PML4 is a table of any         *)
(* (vmm.c:44-52, 69-104).                                                  *)
(***************************************************************************)
THEOREM NoSharedTables == Spec => []TablesNotShared
<1>1. ASSUME IInv PROVE TablesNotShared
  <2> SUFFICES ASSUME NEW p \in Pages
               PROVE  /\ p \in ToSet(pool) \cup spaces => References(p) = {}
                      /\ \A q, r \in References(p) :
                            \/ q = r
                            \/ {q[1], r[1]} \subseteq spaces /\ q[2] = r[2] /\ q[2] >= FirstKernel
    BY DEF TablesNotShared
  <2>1. \A r \in References(p) :
           /\ r = <<r[1], r[2]>> /\ r[1] \in Tables /\ r[1] \in Mem /\ r[2] \in Idx
           /\ Present(mem[r[1]][r[2]]) /\ mem[r[1]][r[2]].addr = p
    BY DEF References, Tables, Mem, Present
  <2>2. p \in ToSet(pool) \cup spaces => References(p) = {}
    <3>1. p # Page0
      BY PoolPages
    <3> QED  BY <1>1, <2>1, <3>1 DEF IInv, TablesOK, RootsFree
  <2>3. ASSUME NEW q \in References(p), NEW r \in References(p)
        PROVE  q = r \/ ({q[1], r[1]} \subseteq spaces /\ q[2] = r[2] /\ q[2] >= FirstKernel)
    <3>1. \/ q[1] = r[1] /\ q[2] = r[2]
          \/ q[1] \in spaces /\ r[1] \in spaces /\ q[2] = r[2] /\ q[2] >= FirstKernel
      BY <1>1, <2>1 DEF IInv, TablesOK, Unshared
    <3> QED  BY <2>1, <3>1
  <2> QED  BY <2>2, <2>3
<1> QED  BY <1>1, IInvHolds, PTL

(***************************************************************************)
(* All spaces see the same at a kernel address whose PML4 entry they got   *)
(* from the kernel (vmm.c:48-49), while no unmap strayed.                  *)
(***************************************************************************)
THEOREM KernelHalfIsShared == Spec => []KernelHalfShared
<1>1. ASSUME IInv PROVE KernelHalfShared
  <2> SUFFICES ASSUME strays = 0, Page0 \notin spaces, NEW s \in spaces, NEW va \in VAddrs,
                      IsKernelHalf(va), current # None,
                      NEW b \in ToSet(BootMaps), b.va[1] = va[1]
               PROVE  Translate(s, va) = Translate(KernelSpace, va)
    BY DEF KernelHalfShared
  <2>1. booted = Len(BootMaps)
    BY <1>1 DEF IInv
  <2>2. PICK k \in 1 .. booted : BootMaps[k].va[1] = va[1]
    BY <2>1, VmmAssumption DEF ToSet
  <2>3. mem[s][va[1]] = mem[KernelSpace][va[1]]
    BY <1>1, <2>2 DEF IInv, BootShared, IsKernelHalf
  <2>4. s # None /\ KernelSpace # None
    BY <1>1, PoolPages DEF IInv, TablesOK, SpacesOK, Tables
  <2>5. Lookup(s, va[1]) = Lookup(KernelSpace, va[1])
    BY <2>3, <2>4 DEF Lookup
  <2> QED  BY <2>5 DEF Translate
<1> QED  BY <1>1, IInvHolds, PTL

-----------------------------------------------------------------------------
(***************************************************************************)
(* As long as there was a page for every table, tables are in levels: 4    *)
(* for the PML4s, 1 for the tables of leaves.  A walk is in a memory m.    *)
(***************************************************************************)

LookupIn(m, t, i) == IF t = None \/ ~Present(m[t][i]) THEN None ELSE m[t][i].addr

LeafIn(m, t, i) == IF t = None \/ ~Present(m[t][i]) THEN Absent ELSE m[t][i]

WalkIn(m, s, va) == LookupIn(m, LookupIn(m, LookupIn(m, s, va[1]), va[2]), va[3])

TranslateIn(m, s, va) == LeafIn(m, WalkIn(m, s, va), va[4])

Levels == [Pages -> 1 .. 4]

\* x is a table of level l, or the walk has ended before
At(lev, l, x) == x = None \/ (x \in Pages /\ lev[x] = l)

Leveled(m, sp, lev) ==
    /\ \A s \in sp : s \in Pages /\ lev[s] = 4
    /\ \A p \in Pages, i \in Idx :
          Present(m[p][i]) =>
             IF lev[p] = 1 THEN m[p][i].addr \in Frames
             ELSE m[p][i].addr \in Pages /\ lev[m[p][i].addr] = lev[p] - 1

\* a walk that has come to page 0 stays there
ZeroLeadsNowhere(m) == \A i \in Idx : m[Page0][i].addr = Page0

CleanOK(m, pl, sp, lev) ==
    /\ TablesOK(m, pl, sp, 0)
    /\ lev \in Levels
    /\ Leveled(m, sp, lev)
    /\ ZeroLeadsNowhere(m)

\* A level of a walk leads to a table of the level below, which is no PML4 and
\* not in the pool.
LEMMA CleanLookup ==
    ASSUME NEW m, NEW pl, NEW sp, NEW lev, CleanOK(m, pl, sp, lev),
           NEW l \in 2 .. 4, NEW x, At(lev, l, x), NEW i \in Idx,
           NEW y, y = LookupIn(m, x, i)
    PROVE  /\ At(lev, l - 1, y)
           /\ y \notin ToSet(pl) \cup sp
<1>1. None \notin ToSet(pl) \cup sp
  <2>1. None \notin Pages /\ \A k \in DOMAIN pl : pl[k] \in Pages
    BY PoolPages DEF CleanOK, TablesOK, PoolOK
  <2> QED  BY <2>1 DEF ToSet, CleanOK, Leveled
<1>2. CASE y = None
  BY <1>1, <1>2 DEF At
<1>3. CASE y # None
  <2>1. x \in Pages /\ lev[x] = l /\ Present(m[x][i]) /\ y = m[x][i].addr
    BY <1>3 DEF LookupIn, At
  <2>2. y \in Pages /\ lev[y] = l - 1
    BY <2>1 DEF CleanOK, Leveled
  <2>3. y \notin ToSet(pl) \cup (sp \ {Page0})
    BY <2>1 DEF CleanOK, TablesOK, RootsFree, Mem
  <2> QED  BY <2>2, <2>3, PoolPages DEF At
<1> QED  BY <1>2, <1>3

\* the tables that a walk meets
LEMMA CleanWalk ==
    ASSUME NEW m, NEW pl, NEW sp, NEW lev, CleanOK(m, pl, sp, lev),
           NEW s \in sp, NEW va \in VAddrs,
           NEW a, a = LookupIn(m, s, va[1]),
           NEW b, b = LookupIn(m, a, va[2]),
           NEW c, c = LookupIn(m, b, va[3])
    PROVE  /\ At(lev, 4, s) /\ At(lev, 3, a) /\ At(lev, 2, b) /\ At(lev, 1, c)
           /\ s \notin ToSet(pl) /\ {a, b, c} \cap (ToSet(pl) \cup sp) = {}
<1>1. va[1] \in Idx /\ va[2] \in Idx /\ va[3] \in Idx
  BY BootMapTypes
<1>2. At(lev, 4, s) /\ s \notin ToSet(pl)
  BY DEF CleanOK, Leveled, At, TablesOK, SpacesOK
<1>3. At(lev, 4 - 1, a) /\ a \notin ToSet(pl) \cup sp
  BY <1>1, <1>2, CleanLookup
<1>4. At(lev, 3, a)
  BY <1>3
<1>5. At(lev, 3 - 1, b) /\ b \notin ToSet(pl) \cup sp
  BY <1>1, <1>4, CleanLookup
<1>6. At(lev, 2, b)
  BY <1>5
<1>7. At(lev, 2 - 1, c) /\ c \notin ToSet(pl) \cup sp
  BY <1>1, <1>6, CleanLookup
<1> QED  BY <1>2, <1>3, <1>4, <1>5, <1>6, <1>7

\* the entries of a PML4 that are the kernel's
UpperIndex(i) == i >= FirstKernel

\* x is a table whose entries lead to tables
Upper(lev, x) == x \in Pages /\ lev[x] # 1

\* Two entries that lead to one table are one entry, or the kernel's in two PML4s.
LEMMA OneEntry ==
    ASSUME NEW m, NEW pl, NEW sp, NEW lev, CleanOK(m, pl, sp, lev),
           NEW x, NEW y, Upper(lev, x), Upper(lev, y),
           NEW i \in Idx, NEW j \in Idx,
           LookupIn(m, x, i) # None, LookupIn(m, x, i) = LookupIn(m, y, j)
    PROVE  i = j /\ (x = y \/ (x \in sp /\ y \in sp /\ UpperIndex(i)))
<1>1. /\ x \in Pages /\ y \in Pages
      /\ Present(m[x][i]) /\ Present(m[y][j]) /\ m[x][i].addr = m[y][j].addr
  BY DEF LookupIn, Upper
<1>2. m[x][i].addr \in Pages
  BY <1>1 DEF CleanOK, Leveled, Upper
<1> QED  BY <1>1, <1>2 DEF CleanOK, TablesOK, Unshared, Tables, UpperIndex

\* Two walks that end in one table took the same way, but for the PML4 if that
\* shares the kernel's half.
LEMMA OneWay ==
    ASSUME NEW m, NEW pl, NEW sp, NEW lev, CleanOK(m, pl, sp, lev),
           NEW s \in sp, NEW r \in sp, NEW va \in VAddrs, NEW v \in VAddrs,
           WalkIn(m, s, va) # None, WalkIn(m, s, va) = WalkIn(m, r, v)
    PROVE  /\ va[1] = v[1] /\ va[2] = v[2] /\ va[3] = v[3]
           /\ s = r \/ UpperIndex(va[1])
<1>1. PICK a : a = LookupIn(m, s, va[1])
  OBVIOUS
<1>2. PICK b : b = LookupIn(m, a, va[2])
  OBVIOUS
<1>3. PICK c : c = LookupIn(m, b, va[3])
  OBVIOUS
<1>4. PICK d : d = LookupIn(m, r, v[1])
  OBVIOUS
<1>5. PICK e : e = LookupIn(m, d, v[2])
  OBVIOUS
<1>6. PICK f : f = LookupIn(m, e, v[3])
  OBVIOUS
<1>7. c # None /\ c = f
  BY <1>1, <1>2, <1>3, <1>4, <1>5, <1>6 DEF WalkIn
<1>8. At(lev, 4, s) /\ At(lev, 3, a) /\ At(lev, 2, b) /\ a \notin sp /\ b \notin sp
  BY <1>1, <1>2, <1>3, CleanWalk
<1>9. At(lev, 4, r) /\ At(lev, 3, d) /\ At(lev, 2, e)
  BY <1>4, <1>5, <1>6, CleanWalk
<1>10. /\ va[1] \in Idx /\ va[2] \in Idx /\ va[3] \in Idx
       /\ v[1] \in Idx /\ v[2] \in Idx /\ v[3] \in Idx
  BY BootMapTypes
<1>11. LookupIn(m, b, va[3]) # None /\ LookupIn(m, b, va[3]) = LookupIn(m, e, v[3])
  BY <1>3, <1>6, <1>7
<1>12. b # None /\ e # None
  BY <1>11 DEF LookupIn
<1>13. Upper(lev, b) /\ Upper(lev, e)
  BY <1>8, <1>9, <1>12 DEF At, Upper
<1>14. va[3] = v[3] /\ b = e
  BY <1>8, <1>10, <1>11, <1>13, OneEntry
<1>15. LookupIn(m, a, va[2]) # None /\ LookupIn(m, a, va[2]) = LookupIn(m, d, v[2])
  BY <1>2, <1>5, <1>12, <1>14
<1>16. a # None /\ d # None
  BY <1>15 DEF LookupIn
<1>17. Upper(lev, a) /\ Upper(lev, d)
  BY <1>8, <1>9, <1>16 DEF At, Upper
<1>18. va[2] = v[2] /\ a = d
  BY <1>8, <1>10, <1>15, <1>17, OneEntry
<1>19. LookupIn(m, s, va[1]) # None /\ LookupIn(m, s, va[1]) = LookupIn(m, r, v[1])
  BY <1>1, <1>4, <1>16, <1>18
<1>20. s # None /\ r # None
  BY <1>19 DEF LookupIn
<1>21. Upper(lev, s) /\ Upper(lev, r)
  BY <1>8, <1>9, <1>20 DEF At, Upper
<1>22. va[1] = v[1] /\ (s = r \/ UpperIndex(va[1]))
  BY <1>10, <1>19, <1>21, OneEntry
<1> QED  BY <1>14, <1>18, <1>22

(***************************************************************************)
(* A new table changes no translation: the entry that leads to it was      *)
(* absent, and all of its own are.                                         *)
(***************************************************************************)

\* n is m with entry i of t leading to a cleared table p
Built(m, n, t, i, p) ==
    /\ n[t][i] = TableEntry(p)
    /\ \A j \in Idx : n[p][j] = Absent
    /\ \A q \in Mem, j \in Idx : q # p /\ ~(q = t /\ j = i) => n[q][j] = m[q][j]

\* no entry leads to p
Unreferenced(m, p) == \A q \in Mem, j \in Idx : ~(Present(m[q][j]) /\ m[q][j].addr = p)

\* what is found without the pages in pl is still found
LookupsStay(m, n, pl) ==
    \A x \in Pages \ ToSet(pl), j \in Idx :
        LookupIn(m, x, j) # None => LookupIn(n, x, j) = LookupIn(m, x, j)

SameMaps(m, n, sp) ==
    \A s \in sp, va \in VAddrs : TranslateIn(n, s, va) = TranslateIn(m, s, va)

\* where a walk is after p was built, if it was at x before
Moved(x, y, p) == y = x \/ (x = None /\ y = p)

\* A level of a walk goes where it went, or to the new table if it had ended.
LEMMA MovedLookup ==
    ASSUME NEW m, NEW n, NEW t \in Pages, NEW i \in Idx, NEW p \in Pages,
           ~Present(m[t][i]), Built(m, n, t, i, p),
           NEW x \in (Pages \ {p}) \cup {None}, NEW y, Moved(x, y, p), NEW j \in Idx
    PROVE  Moved(LookupIn(m, x, j), LookupIn(n, y, j), p)
<1>1. None # p /\ Pages \subseteq Mem
  BY PoolPages DEF Mem
<1>2. CASE x = None
  <2>1. LookupIn(m, x, j) = None
    BY <1>2 DEF LookupIn
  <2>2. y = None \/ ~Present(n[y][j])
    BY <1>2, EntryTypes DEF Built, Moved
  <2> QED  BY <2>1, <2>2 DEF LookupIn, Moved
<1>3. CASE x # None /\ x = t /\ j = i
  <2>1. LookupIn(m, x, j) = None /\ y = x
    BY <1>3 DEF LookupIn, Moved
  <2>2. n[y][j] = TableEntry(p)
    BY <1>3, <2>1 DEF Built
  <2>3. Present(n[y][j]) /\ n[y][j].addr = p
    BY <2>2, EntryTypes DEF TableEntry, Tables
  <2> QED  BY <1>3, <2>1, <2>3 DEF LookupIn, Moved
<1>4. CASE x # None /\ ~(x = t /\ j = i)
  <2>1. y = x /\ x \in Mem /\ x # p
    BY <1>1, <1>4 DEF Moved
  <2>2. n[y][j] = m[x][j]
    BY <1>4, <2>1 DEF Built
  <2> QED  BY <2>1, <2>2 DEF LookupIn, Moved
<1> QED  BY <1>2, <1>3, <1>4

\* Hence a walk finds the leaf that it found.
LEMMA BuiltSameMaps ==
    ASSUME NEW m, NEW pl, NEW sp, NEW lev, CleanOK(m, pl, sp, lev),
           NEW n, NEW t \in Pages, NEW i \in Idx, NEW p \in Pages, Upper(lev, t),
           p \in ToSet(pl), ~Present(m[t][i]), Built(m, n, t, i, p)
    PROVE  SameMaps(m, n, sp)
<1> SUFFICES ASSUME NEW s \in sp, NEW va \in VAddrs
             PROVE  TranslateIn(n, s, va) = TranslateIn(m, s, va)
  BY DEF SameMaps
<1>1. PICK a : a = LookupIn(m, s, va[1])
  OBVIOUS
<1>2. PICK b : b = LookupIn(m, a, va[2])
  OBVIOUS
<1>3. PICK c : c = LookupIn(m, b, va[3])
  OBVIOUS
<1>4. PICK d : d = LookupIn(n, s, va[1])
  OBVIOUS
<1>5. PICK e : e = LookupIn(n, d, va[2])
  OBVIOUS
<1>6. PICK f : f = LookupIn(n, e, va[3])
  OBVIOUS
<1>7. /\ At(lev, 4, s) /\ At(lev, 3, a) /\ At(lev, 2, b) /\ At(lev, 1, c)
      /\ s \notin ToSet(pl) /\ {a, b, c} \cap (ToSet(pl) \cup sp) = {}
  BY <1>1, <1>2, <1>3, CleanWalk
<1>8. {s, a, b, c} \subseteq (Pages \ {p}) \cup {None}
  BY <1>7 DEF At
<1>9. va[1] \in Idx /\ va[2] \in Idx /\ va[3] \in Idx /\ va[4] \in Idx
  BY BootMapTypes
<1>10. Moved(s, s, p)
  BY DEF Moved
<1>11. Moved(a, d, p)
  BY <1>1, <1>4, <1>8, <1>9, <1>10, MovedLookup
<1>12. Moved(b, e, p)
  BY <1>2, <1>5, <1>8, <1>9, <1>11, MovedLookup
<1>13. Moved(c, f, p)
  BY <1>3, <1>6, <1>8, <1>9, <1>12, MovedLookup
<1>14. LeafIn(n, f, va[4]) = LeafIn(m, c, va[4])
  <2>1. CASE c = None
    <3>1. f = None \/ ~Present(n[f][va[4]])
      BY <2>1, <1>9, <1>13, EntryTypes DEF Built, Moved
    <3> QED  BY <2>1, <3>1 DEF LeafIn
  <2>2. CASE c # None
    <3>1. f = c /\ c \in Mem /\ c # p /\ c # t
      BY <2>2, <1>7, <1>8, <1>13 DEF Moved, At, Upper, Mem
    <3>2. n[f][va[4]] = m[c][va[4]]
      BY <1>9, <3>1 DEF Built
    <3> QED  BY <3>1, <3>2 DEF LeafIn
  <2> QED  BY <2>1, <2>2
<1> QED  BY <1>1, <1>2, <1>3, <1>4, <1>5, <1>6, <1>14 DEF TranslateIn, WalkIn

\* the levels with p below t
Below(lev, t, p) == [lev EXCEPT ![p] = lev[t] - 1]

\* It keeps the levels.
LEMMA BuiltClean ==
    ASSUME NEW m, NEW pl, NEW sp, NEW lev, CleanOK(m, pl, sp, lev),
           NEW n, NEW t \in Pages, NEW i \in Idx, NEW p \in Pages, Upper(lev, t),
           p \in ToSet(pl), t # p, Unreferenced(m, p),
           Built(m, n, t, i, p), NEW rest, TablesOK(n, rest, sp, 0),
           NEW up, up = Below(lev, t, p)
    PROVE  CleanOK(n, rest, sp, up)
<1>1. lev \in Levels /\ lev[t] \in 2 .. 4
  BY DEF CleanOK, Levels, Upper
<1>2. up \in Levels /\ up[p] = lev[t] - 1 /\ \A q \in Pages : q # p => up[q] = lev[q]
  BY <1>1 DEF Levels, Below
<1>3. p # Page0 /\ Page0 \in Mem /\ t # Page0 /\ Pages \subseteq Mem
  BY PoolPages DEF Mem
<1>4. ZeroLeadsNowhere(n)
  BY <1>3 DEF CleanOK, ZeroLeadsNowhere, Built
<1>5. ASSUME NEW s \in sp PROVE s \in Pages /\ up[s] = 4
  <2>1. s # p /\ s \in Pages /\ lev[s] = 4
    BY DEF CleanOK, TablesOK, SpacesOK, Leveled
  <2> QED  BY <1>2, <2>1
<1>6. ASSUME NEW q \in Pages, NEW j \in Idx, Present(n[q][j])
      PROVE  IF up[q] = 1 THEN n[q][j].addr \in Frames
             ELSE n[q][j].addr \in Pages /\ up[n[q][j].addr] = up[q] - 1
  <2>1. CASE q = t /\ j = i
    <3>1. n[q][j].addr = p
      BY <2>1, EntryTypes DEF Built, TableEntry, Tables
    <3> QED  BY <1>1, <1>2, <2>1, <3>1
  <2>2. CASE ~(q = t /\ j = i)
    <3>1. q # p
      BY <1>6, EntryTypes DEF Built
    <3>2. n[q][j] = m[q][j] /\ up[q] = lev[q]
      BY <1>2, <1>3, <2>2, <3>1 DEF Built
    <3>3. m[q][j].addr # p
      BY <1>3, <1>6, <3>2 DEF Unreferenced
    <3>4. IF lev[q] = 1 THEN m[q][j].addr \in Frames
          ELSE m[q][j].addr \in Pages /\ lev[m[q][j].addr] = lev[q] - 1
      BY <1>6, <3>2 DEF CleanOK, Leveled
    <3> QED  BY <1>2, <3>2, <3>3, <3>4
  <2> QED  BY <2>1, <2>2
<1>7. Leveled(n, sp, up)
  BY <1>5, <1>6 DEF Leveled
<1> QED  BY <1>2, <1>4, <1>7 DEF CleanOK

(***************************************************************************)
(* A level of Vmm_Map that found a page keeps the levels and the           *)
(* translations, and leads to the table that a walk finds then.            *)
(***************************************************************************)
WorkClean(w, sp, lev) ==
    /\ WorkOK(w, sp, 0) /\ ~w.failed
    /\ CleanOK(w.mem, w.pool, sp, lev)
    /\ w.table \in Pages \ ToSet(w.pool)

\* It holds of one level.
LEMMA DescendClean ==
    ASSUME NEW sp, NEW w, NEW lev, WorkClean(w, sp, lev), Upper(lev, w.table),
           NEW i \in Idx, NEW d, d = Descend(w, i), ~d.failed
    PROVE  \E up \in Levels :
              /\ WorkClean(d, sp, up) /\ up[d.table] = lev[w.table] - 1
              /\ LookupIn(d.mem, w.table, i) = d.table
              /\ SameMaps(w.mem, d.mem, sp) /\ LookupsStay(w.mem, d.mem, w.pool)
              /\ ToSet(d.pool) \subseteq ToSet(w.pool)
<1> DEFINE m == w.mem
           pl == w.pool
           t == w.table
           p == Taken(pl)
<1>1. /\ w \in Work /\ CleanOK(m, pl, sp, lev) /\ t \in Pages /\ t \notin ToSet(pl)
      /\ m \in [Mem -> [Idx -> Entry]] /\ t \in Mem
  BY DEF WorkClean, CleanOK, TablesOK, Mem, WorkOK
<1>2. t # None /\ Pages \subseteq Mem
  BY <1>1, PoolPages DEF Mem
<1>3. WorkOK(d, sp, 0)
  BY DescendKeeps DEF WorkClean
<1>4. CASE Present(m[t][i])
  <2>1. d = WorkState(m, pl, w.failed, m[t][i].addr)
    BY <1>1, <1>4, DescendFields
  <2>2. d.mem = m /\ d.pool = pl /\ d.table = m[t][i].addr
    BY <2>1 DEF WorkState
  <2>3. d.table \in Pages /\ lev[d.table] = lev[t] - 1
    BY <1>1, <1>4, <2>2 DEF CleanOK, Leveled, Upper
  <2>4. d.table \notin ToSet(pl)
    BY <1>1, <1>4, <2>2 DEF CleanOK, TablesOK, RootsFree
  <2>5. LookupIn(d.mem, t, i) = d.table
    BY <1>2, <1>4, <2>2 DEF LookupIn
  <2>6. SameMaps(m, d.mem, sp) /\ LookupsStay(m, d.mem, pl)
    BY <2>2 DEF SameMaps, LookupsStay
  <2>7. WorkClean(d, sp, lev) /\ lev \in Levels
    BY <1>1, <1>3, <2>2, <2>3, <2>4 DEF WorkClean, CleanOK
  <2> QED  BY <2>2, <2>3, <2>5, <2>6, <2>7
<1>5. CASE ~Present(m[t][i])
  <2> DEFINE n == Write(Clear(m, p), t, i, TableEntry(p))
             up == Below(lev, t, p)
  <2>1. d = WorkState(n, Rest(pl), w.failed \/ pl = <<>>, p)
    BY <1>1, <1>5, DescendFields
  <2>2. /\ d.mem = n /\ d.pool = Rest(pl) /\ d.failed = (w.failed \/ pl = <<>>)
        /\ d.table = p
    BY <2>1 DEF WorkState
  <2>3. pl # <<>>
    BY <2>2
  <2>4. TablesOK(m, pl, sp, 0) /\ PoolOK(pl)
    BY <1>1 DEF CleanOK, TablesOK
  <2>5. /\ p \in Tables /\ p # Page0 /\ p \in ToSet(pl)
        /\ ToSet(Rest(pl)) = ToSet(pl) \ {p} /\ Unreferenced(m, p)
    BY <2>3, <2>4, FreshPage, TakePage DEF Unreferenced, Taken
  <2>6. p \in Pages /\ t # p
    BY <1>1, <2>5 DEF Tables
  <2>7. Built(m, n, t, i, p)
    <3>1. TableEntry(p) \in Entry
      BY <2>5, EntryTypes DEF TableEntry
    <3> HIDE DEF p, m, t
    <3>2. /\ n[t][i] = TableEntry(p)
          /\ \A j \in Idx : ~(p = t /\ j = i) => n[p][j] = Absent
          /\ \A q \in Mem, j \in Idx : q # p /\ ~(q = t /\ j = i) => n[q][j] = m[q][j]
      BY <1>1, <2>5, <3>1, WriteFields DEF IsWritten
    <3> QED  BY <2>6, <3>2 DEF Built
  <2>8. TablesOK(n, Rest(pl), sp, 0)
    <3>1. Failures(d, 0) = 0
      BY DEF Failures
    <3> QED  BY <1>3, <2>2, <3>1 DEF WorkOK
  <2> HIDE DEF n, p, m, t, pl
  <2>9. CleanOK(n, Rest(pl), sp, up) /\ up[p] = lev[t] - 1
    <3>1. Upper(lev, t)
      BY DEF t
    <3>2. CleanOK(n, Rest(pl), sp, up)
      BY <1>1, <2>5, <2>6, <2>7, <2>8, <3>1, BuiltClean
    <3>3. up[p] = lev[t] - 1
      BY <1>1, <2>6 DEF CleanOK, Levels, Below
    <3> QED  BY <3>2, <3>3
  <2>10. SameMaps(m, n, sp)
    <3>1. Upper(lev, t)
      BY DEF t
    <3> QED  BY <1>1, <1>5, <2>5, <2>6, <2>7, <3>1, BuiltSameMaps
  <2>11. LookupIn(n, t, i) = p
    <3>1. n[t][i] = TableEntry(p)
      BY <2>7 DEF Built
    <3>2. Present(n[t][i]) /\ n[t][i].addr = p
      BY <2>5, <3>1, EntryTypes DEF TableEntry
    <3> QED  BY <1>2, <3>2 DEF LookupIn
  <2>12. LookupsStay(m, n, pl)
    <3> SUFFICES ASSUME NEW x \in Pages \ ToSet(pl), NEW j \in Idx, LookupIn(m, x, j) # None
                 PROVE  LookupIn(n, x, j) = LookupIn(m, x, j)
      BY DEF LookupsStay
    <3>1. x # None /\ Present(m[x][j]) /\ x # p /\ x \in Mem
      BY <1>2, <2>5 DEF LookupIn
    <3>2. n[x][j] = m[x][j]
      BY <1>5, <2>7, <3>1 DEF Built
    <3> QED  BY <3>2 DEF LookupIn
  <2>13. WorkClean(d, sp, up) /\ up \in Levels
    <3>1. p \notin ToSet(Rest(pl))
      BY <2>5
    <3> QED  BY <1>3, <2>2, <2>6, <2>9, <3>1 DEF WorkClean, CleanOK
  <2>14. ToSet(d.pool) \subseteq ToSet(pl)
    BY <2>2, <2>5
  <2> QED  BY <2>2, <2>9, <2>10, <2>11, <2>12, <2>13, <2>14 DEF m, t, pl
<1> QED  BY <1>4, <1>5

\* a walk that did not fail at the end did not fail before
LEMMA NotFailed ==
    ASSUME NEW sp, NEW w, WorkOK(w, sp, 0), NEW i \in Idx, NEW d, d = Descend(w, i), ~d.failed
    PROVE  ~w.failed
<1>1. Failures(w, 0) =< Failures(d, 0)
  BY DescendKeeps
<1>2. Failures(d, 0) = 0
  BY DEF Failures
<1>3. w.failed => Failures(w, 0) = 1
  BY DEF Failures
<1> QED  BY <1>1, <1>2, <1>3

\* The three levels of Vmm_Map end where a walk ends then.
LEMMA WalkClean ==
    ASSUME NEW sp, NEW w, NEW lev, WorkClean(w, sp, lev), w.table \in sp,
           NEW i \in Idx, NEW j \in Idx, NEW k \in Idx,
           NEW d, d = Descend(Descend(Descend(w, i), j), k), ~d.failed
    PROVE  \E up \in Levels :
              /\ WorkClean(d, sp, up) /\ SameMaps(w.mem, d.mem, sp)
              /\ LookupIn(d.mem, LookupIn(d.mem, LookupIn(d.mem, w.table, i), j), k) = d.table
<1>1. PICK w1 : w1 = Descend(w, i)
  OBVIOUS
<1>2. PICK w2 : w2 = Descend(w1, j)
  OBVIOUS
<1>3. d = Descend(w2, k)
  BY <1>1, <1>2
<1>4. WorkOK(w, sp, 0) /\ WorkOK(w1, sp, 0) /\ WorkOK(w2, sp, 0)
  <2>1. WorkOK(w, sp, 0)
    BY DEF WorkClean
  <2>2. WorkOK(w1, sp, 0)
    BY <1>1, <2>1, DescendKeeps
  <2> QED  BY <1>2, <2>1, <2>2, DescendKeeps
<1>5. ~w2.failed
  BY <1>3, <1>4, NotFailed
<1>6. ~w1.failed
  BY <1>2, <1>4, <1>5, NotFailed
<1>7. lev[w.table] = 4 /\ Upper(lev, w.table)
  BY DEF WorkClean, CleanOK, Leveled, Upper
<1>8. PICK lev1 \in Levels :
         /\ WorkClean(w1, sp, lev1) /\ lev1[w1.table] = lev[w.table] - 1
         /\ LookupIn(w1.mem, w.table, i) = w1.table
         /\ SameMaps(w.mem, w1.mem, sp) /\ LookupsStay(w.mem, w1.mem, w.pool)
         /\ ToSet(w1.pool) \subseteq ToSet(w.pool)
  BY <1>1, <1>6, <1>7, DescendClean
<1>9. lev1[w1.table] = 3 /\ Upper(lev1, w1.table)
  BY <1>7, <1>8 DEF WorkClean, Upper
<1>10. PICK lev2 \in Levels :
         /\ WorkClean(w2, sp, lev2) /\ lev2[w2.table] = lev1[w1.table] - 1
         /\ LookupIn(w2.mem, w1.table, j) = w2.table
         /\ SameMaps(w1.mem, w2.mem, sp) /\ LookupsStay(w1.mem, w2.mem, w1.pool)
         /\ ToSet(w2.pool) \subseteq ToSet(w1.pool)
  BY <1>2, <1>5, <1>8, <1>9, DescendClean
<1>11. lev2[w2.table] = 2 /\ Upper(lev2, w2.table)
  BY <1>9, <1>10 DEF WorkClean, Upper
<1>12. PICK up \in Levels :
         /\ WorkClean(d, sp, up) /\ up[d.table] = lev2[w2.table] - 1
         /\ LookupIn(d.mem, w2.table, k) = d.table
         /\ SameMaps(w2.mem, d.mem, sp) /\ LookupsStay(w2.mem, d.mem, w2.pool)
         /\ ToSet(d.pool) \subseteq ToSet(w2.pool)
  BY <1>3, <1>10, <1>11, DescendClean
<1>13. SameMaps(w.mem, d.mem, sp)
  BY <1>8, <1>10, <1>12 DEF SameMaps
<1>14. /\ w.table \in Pages \ ToSet(w.pool) /\ w1.table \in Pages \ ToSet(w1.pool)
       /\ w2.table \in Pages \ ToSet(w2.pool)
  BY <1>8, <1>10 DEF WorkClean
<1>15. w1.table # None /\ w2.table # None
  BY <1>14, PoolPages
<1>16. LookupIn(d.mem, w1.table, j) = w2.table
  <2>1. w1.table \in Pages \ ToSet(w2.pool)
    BY <1>10, <1>14
  <2> QED  BY <1>10, <1>12, <1>15, <2>1 DEF LookupsStay
<1>17. LookupIn(d.mem, w.table, i) = w1.table
  <2>1. w.table \in Pages \ ToSet(w1.pool) /\ w.table \in Pages \ ToSet(w2.pool)
    BY <1>8, <1>10, <1>14
  <2>2. LookupIn(w2.mem, w.table, i) = w1.table
    BY <1>8, <1>10, <1>15, <2>1 DEF LookupsStay
  <2> QED  BY <1>12, <1>15, <2>1, <2>2 DEF LookupsStay
<1>18. LookupIn(d.mem, LookupIn(d.mem, LookupIn(d.mem, w.table, i), j), k) = d.table
  BY <1>12, <1>16, <1>17
<1> QED  BY <1>12, <1>13, <1>18

(***************************************************************************)
(* From m to n, one address has changed: in one space, or in several that  *)
(* share the kernel's half.                                                *)
(***************************************************************************)
ChangedAt(m, n, sp, s, va, leaf) ==
    /\ TranslateIn(n, s, va) = leaf
    /\ \A r \in sp, v \in VAddrs :
          \/ TranslateIn(n, r, v) = TranslateIn(m, r, v)
          \/ v = va /\ TranslateIn(n, r, v) = leaf /\ (r = s \/ IsKernelHalf(va))

\* An entry written where the walk for va from s ends changes va alone.
LEMMA LeafWritten ==
    ASSUME NEW m, NEW pl, NEW sp, NEW lev, CleanOK(m, pl, sp, lev),
           NEW s \in sp, NEW va \in VAddrs, NEW t, t = WalkIn(m, s, va), t # None,
           NEW leaf, Leaf(leaf),
           NEW n, TablesOK(n, pl, sp, 0), n[t][va[4]] = leaf, OthersSame(m, n, t, va[4])
    PROVE  CleanOK(n, pl, sp, lev) /\ ChangedAt(m, n, sp, s, va, leaf)
<1>1. At(lev, 1, t)
  <2>1. PICK a : a = LookupIn(m, s, va[1])
    OBVIOUS
  <2>2. PICK b : b = LookupIn(m, a, va[2])
    OBVIOUS
  <2>3. t = LookupIn(m, b, va[3])
    BY <2>1, <2>2 DEF WalkIn
  <2> QED  BY <2>1, <2>2, <2>3, CleanWalk
<1>2. t \in Pages /\ lev[t] = 1 /\ t # Page0 /\ Pages \subseteq Mem /\ Page0 \in Mem
  BY <1>1, PoolPages DEF At, Mem
<1>3. va[1] \in Idx /\ va[2] \in Idx /\ va[3] \in Idx /\ va[4] \in Idx
  BY BootMapTypes
<1>4. ASSUME NEW x, NEW l \in 2 .. 4, At(lev, l, x), NEW j \in Idx
      PROVE  LookupIn(n, x, j) = LookupIn(m, x, j)
  <2>1. CASE x = None
    BY <2>1 DEF LookupIn
  <2>2. CASE x # None
    <3>1. x \in Mem /\ x # t
      BY <1>2, <1>4, <2>2 DEF At
    <3>2. n[x][j] = m[x][j]
      BY <3>1 DEF OthersSame
    <3> QED  BY <3>2 DEF LookupIn
  <2> QED  BY <2>1, <2>2
<1>5. ASSUME NEW r \in sp, NEW v \in VAddrs
      PROVE  WalkIn(n, r, v) = WalkIn(m, r, v) /\ At(lev, 1, WalkIn(m, r, v))
  <2>1. PICK a : a = LookupIn(m, r, v[1])
    OBVIOUS
  <2>2. PICK b : b = LookupIn(m, a, v[2])
    OBVIOUS
  <2>3. PICK c : c = LookupIn(m, b, v[3])
    OBVIOUS
  <2>4. At(lev, 4, r) /\ At(lev, 3, a) /\ At(lev, 2, b) /\ At(lev, 1, c)
    BY <2>1, <2>2, <2>3, CleanWalk
  <2>5. v[1] \in Idx /\ v[2] \in Idx /\ v[3] \in Idx
    BY BootMapTypes
  <2>6. /\ LookupIn(n, r, v[1]) = a /\ LookupIn(n, a, v[2]) = b
        /\ LookupIn(n, b, v[3]) = c
    BY <1>4, <2>1, <2>2, <2>3, <2>4, <2>5
  <2> QED  BY <2>1, <2>2, <2>3, <2>4, <2>6 DEF WalkIn
<1>6. TranslateIn(n, s, va) = leaf
  <2>1. WalkIn(n, s, va) = t
    BY <1>5
  <2>2. leaf = Absent \/ Present(leaf)
    BY DEF Leaf
  <2> QED  BY <2>1, <2>2 DEF TranslateIn, LeafIn
<1>7. ASSUME NEW r \in sp, NEW v \in VAddrs, TranslateIn(n, r, v) # TranslateIn(m, r, v)
      PROVE  v = va /\ TranslateIn(n, r, v) = leaf /\ (r = s \/ IsKernelHalf(va))
  <2>1. PICK c : c = WalkIn(m, r, v)
    OBVIOUS
  <2>2. WalkIn(n, r, v) = c /\ At(lev, 1, c) /\ v[4] \in Idx
    BY <1>5, <2>1, BootMapTypes
  <2>3. LeafIn(n, c, v[4]) # LeafIn(m, c, v[4])
    BY <1>7, <2>1, <2>2 DEF TranslateIn
  <2>4. c # None /\ n[c][v[4]] # m[c][v[4]] /\ c \in Mem
    BY <1>2, <2>2, <2>3 DEF LeafIn, At
  <2>5. c = t /\ v[4] = va[4]
    BY <2>2, <2>4 DEF OthersSame
  <2>6. /\ va[1] = v[1] /\ va[2] = v[2] /\ va[3] = v[3]
        /\ s = r \/ UpperIndex(va[1])
    <3>1. WalkIn(m, s, va) # None /\ WalkIn(m, s, va) = WalkIn(m, r, v)
      BY <2>1, <2>4, <2>5
    <3> QED  BY <3>1, OneWay
  <2>7. v = va
    <3>1. v \in [1 .. 4 -> Idx] /\ va \in [1 .. 4 -> Idx]
      BY VmmAssumption
    <3>2. \A x \in 1 .. 4 : v[x] = va[x]
      BY <2>5, <2>6
    <3> QED  BY <3>1, <3>2
  <2>8. TranslateIn(n, r, v) = leaf
    <3>1. leaf = Absent \/ Present(leaf)
      BY DEF Leaf
    <3> QED  BY <2>2, <2>4, <2>5, <3>1 DEF TranslateIn, LeafIn
  <2> QED  BY <2>6, <2>7, <2>8 DEF IsKernelHalf, UpperIndex
<1>8. ChangedAt(m, n, sp, s, va, leaf)
  BY <1>6, <1>7 DEF ChangedAt
<1>9. ZeroLeadsNowhere(n)
  BY <1>2 DEF ZeroLeadsNowhere, CleanOK, OthersSame
<1>10. Leveled(n, sp, lev)
  <2>1. ASSUME NEW q \in Pages, NEW j \in Idx, Present(n[q][j])
        PROVE  IF lev[q] = 1 THEN n[q][j].addr \in Frames
               ELSE n[q][j].addr \in Pages /\ lev[n[q][j].addr] = lev[q] - 1
    <3>1. CASE q = t /\ j = va[4]
      BY <1>2, <2>1, <3>1, EntryTypes DEF Leaf
    <3>2. CASE ~(q = t /\ j = va[4])
      <4>1. n[q][j] = m[q][j]
        BY <1>2, <3>2 DEF OthersSame
      <4> QED  BY <2>1, <4>1 DEF CleanOK, Leveled
    <3> QED  BY <3>1, <3>2
  <2>2. \A r \in sp : r \in Pages /\ lev[r] = 4
    BY DEF CleanOK, Leveled
  <2> QED  BY <2>1, <2>2 DEF Leveled
<1> QED  BY <1>8, <1>9, <1>10 DEF CleanOK

\* A memory that differs in no table has the same levels and translations.
LEMMA TablesSame ==
    ASSUME NEW m, NEW pl, NEW sp, NEW lev, CleanOK(m, pl, sp, lev),
           NEW n, TablesOK(n, pl, sp, 0), ZeroLeadsNowhere(n),
           \A q \in Pages, j \in Idx : n[q][j] = m[q][j]
    PROVE  CleanOK(n, pl, sp, lev) /\ SameMaps(m, n, sp)
<1>1. CleanOK(n, pl, sp, lev)
  BY DEF CleanOK, Leveled
<1>2. ASSUME NEW x, NEW l \in 1 .. 4, At(lev, l, x), NEW j \in Idx
      PROVE  LookupIn(n, x, j) = LookupIn(m, x, j) /\ LeafIn(n, x, j) = LeafIn(m, x, j)
  BY <1>2 DEF At, LookupIn, LeafIn
<1>3. ASSUME NEW s \in sp, NEW va \in VAddrs
      PROVE  TranslateIn(n, s, va) = TranslateIn(m, s, va)
  <2>1. PICK a : a = LookupIn(m, s, va[1])
    OBVIOUS
  <2>2. PICK b : b = LookupIn(m, a, va[2])
    OBVIOUS
  <2>3. PICK c : c = LookupIn(m, b, va[3])
    OBVIOUS
  <2>4. At(lev, 4, s) /\ At(lev, 3, a) /\ At(lev, 2, b) /\ At(lev, 1, c)
    BY <2>1, <2>2, <2>3, CleanWalk
  <2>5. va[1] \in Idx /\ va[2] \in Idx /\ va[3] \in Idx /\ va[4] \in Idx
    BY BootMapTypes
  <2>6. /\ LookupIn(n, s, va[1]) = a /\ LookupIn(n, a, va[2]) = b
        /\ LookupIn(n, b, va[3]) = c /\ LeafIn(n, c, va[4]) = LeafIn(m, c, va[4])
    BY <1>2, <2>1, <2>2, <2>3, <2>4, <2>5
  <2> QED  BY <2>1, <2>2, <2>3, <2>6 DEF TranslateIn, WalkIn
<1> QED  BY <1>1, <1>3 DEF SameMaps

(***************************************************************************)
(* A new space sees what the kernel's does in the kernel's half, and all   *)
(* others what they saw.                                                   *)
(***************************************************************************)
NewMap(m, n, s) ==
    \A va \in VAddrs :
        TranslateIn(n, s, va) = (IF IsKernelHalf(va) THEN TranslateIn(m, KernelSpace, va)
                                                     ELSE Absent)

\* Vmm_NewAddressSpace gives such a space, when it found a page.
LEMMA NewClean ==
    ASSUME NEW m, NEW pl, NEW sp, NEW lev, CleanOK(m, pl, sp, lev),
           NEW s \in Pages, s \in ToSet(pl), Unreferenced(m, s),
           NEW n, NewTable(m, n, s), NEW rest, TablesOK(n, rest, sp \cup {s}, 0),
           NEW up, up = [lev EXCEPT ![s] = 4]
    PROVE  CleanOK(n, rest, sp \cup {s}, up) /\ SameMaps(m, n, sp) /\ NewMap(m, n, s)
<1>1. /\ lev \in Levels /\ up \in Levels /\ up[s] = 4
      /\ \A q \in Pages : q # s => up[q] = lev[q]
  BY DEF CleanOK, Levels
<1>2. /\ s # Page0 /\ Page0 \in Mem /\ Pages \subseteq Mem /\ None \notin Pages
      /\ KernelSpace \in sp /\ KernelSpace \in Pages /\ KernelSpace # s
      /\ sp \subseteq Pages /\ s \notin sp
  BY PoolPages DEF Mem, CleanOK, TablesOK, SpacesOK, Leveled
<1>3. ZeroLeadsNowhere(n)
  BY <1>2 DEF CleanOK, ZeroLeadsNowhere, NewTable
<1>4. Leveled(n, sp \cup {s}, up)
  <2>1. ASSUME NEW q \in Pages, NEW j \in Idx, Present(n[q][j])
        PROVE  IF up[q] = 1 THEN n[q][j].addr \in Frames
               ELSE n[q][j].addr \in Pages /\ up[n[q][j].addr] = up[q] - 1
    <3>1. PICK r \in Pages : n[q][j] = m[r][j] /\ up[q] = lev[r]
      <4>1. CASE q = s
        <5>1. n[q][j] = m[KernelSpace][j]
          BY <2>1, <4>1, EntryTypes DEF NewTable
        <5>2. up[q] = lev[KernelSpace]
          BY <1>1, <1>2, <4>1 DEF CleanOK, Leveled
        <5> QED  BY <1>2, <5>1, <5>2
      <4>2. CASE q # s
        BY <1>1, <1>2, <4>2 DEF NewTable
      <4> QED  BY <4>1, <4>2
    <3>2. m[r][j].addr # s
      BY <1>2, <2>1, <3>1 DEF Unreferenced
    <3>3. IF lev[r] = 1 THEN m[r][j].addr \in Frames
          ELSE m[r][j].addr \in Pages /\ lev[m[r][j].addr] = lev[r] - 1
      BY <2>1, <3>1 DEF CleanOK, Leveled
    <3> QED  BY <1>1, <3>1, <3>2, <3>3
  <2>2. \A r \in sp \cup {s} : r \in Pages /\ up[r] = 4
    BY <1>1, <1>2 DEF CleanOK, Leveled
  <2> QED  BY <2>1, <2>2 DEF Leveled
<1>5. CleanOK(n, rest, sp \cup {s}, up)
  BY <1>1, <1>3, <1>4 DEF CleanOK
<1>6. ASSUME NEW x, x = None \/ (x \in Pages /\ x # s), NEW j \in Idx
      PROVE  LookupIn(n, x, j) = LookupIn(m, x, j) /\ LeafIn(n, x, j) = LeafIn(m, x, j)
  BY <1>2, <1>6 DEF NewTable, LookupIn, LeafIn
<1>7. ASSUME NEW r \in sp, NEW va \in VAddrs, NEW d, d = LookupIn(m, r, va[1])
      PROVE  LeafIn(n, LookupIn(n, LookupIn(n, d, va[2]), va[3]), va[4]) = TranslateIn(m, r, va)
  <2>1. PICK b : b = LookupIn(m, d, va[2])
    OBVIOUS
  <2>2. PICK c : c = LookupIn(m, b, va[3])
    OBVIOUS
  <2>3. /\ At(lev, 3, d) /\ At(lev, 2, b) /\ At(lev, 1, c)
        /\ {d, b, c} \cap (ToSet(pl) \cup sp) = {}
    BY <1>7, <2>1, <2>2, CleanWalk
  <2>4. va[2] \in Idx /\ va[3] \in Idx /\ va[4] \in Idx
    BY BootMapTypes
  <2>5. /\ LookupIn(n, d, va[2]) = b /\ LookupIn(n, b, va[3]) = c
        /\ LeafIn(n, c, va[4]) = LeafIn(m, c, va[4])
    BY <1>6, <2>1, <2>2, <2>3, <2>4 DEF At
  <2> QED  BY <1>7, <2>1, <2>2, <2>5 DEF TranslateIn, WalkIn
<1>8. SameMaps(m, n, sp)
  <2> SUFFICES ASSUME NEW r \in sp, NEW va \in VAddrs
               PROVE  TranslateIn(n, r, va) = TranslateIn(m, r, va)
    BY DEF SameMaps
  <2>1. r \in Pages /\ r # s /\ va[1] \in Idx
    BY <1>2, BootMapTypes
  <2>2. LookupIn(n, r, va[1]) = LookupIn(m, r, va[1])
    BY <1>6, <2>1
  <2> QED  BY <1>7, <2>2 DEF TranslateIn, WalkIn
<1>9. NewMap(m, n, s)
  <2> SUFFICES ASSUME NEW va \in VAddrs
               PROVE  TranslateIn(n, s, va) = (IF IsKernelHalf(va)
                                                 THEN TranslateIn(m, KernelSpace, va)
                                                 ELSE Absent)
    BY DEF NewMap
  <2>1. /\ va[1] \in Idx /\ s # None /\ KernelSpace # None
        /\ n[s][va[1]] = (IF IsKernelHalf(va) THEN m[KernelSpace][va[1]] ELSE Absent)
    BY <1>2, BootMapTypes DEF NewTable, IsKernelHalf
  <2>2. CASE IsKernelHalf(va)
    <3>1. LookupIn(n, s, va[1]) = LookupIn(m, KernelSpace, va[1])
      BY <2>1, <2>2 DEF LookupIn
    <3> QED  BY <1>2, <1>7, <2>2, <3>1 DEF TranslateIn, WalkIn
  <2>3. CASE ~IsKernelHalf(va)
    <3>1. LookupIn(n, s, va[1]) = None
      BY <2>1, <2>3, EntryTypes DEF LookupIn
    <3>2. WalkIn(n, s, va) = None
      <4>1. \A j : LookupIn(n, None, j) = None
        BY DEF LookupIn
      <4> QED  BY <3>1, <4>1 DEF WalkIn
    <3>3. TranslateIn(n, s, va) = Absent
      BY <3>2 DEF TranslateIn, LeafIn
    <3> QED  BY <2>3, <3>3
  <2> QED  BY <2>2, <2>3
<1> QED  BY <1>5, <1>8, <1>9

\* Where Vmm_Unmap is, x, if a walk is at y: there too, or lost by page 0.
Follows(x, y) == (y # None /\ x = y) \/ (y = None /\ x = Page0)

\* A level of Vmm_Unmap follows the walk, or is lost.
LEMMA FollowClean ==
    ASSUME IInv, NEW lev, CleanOK(mem, pool, spaces, lev),
           NEW y, y = None \/ y \in Pages, NEW x, Follows(x, y), NEW i \in Idx
    PROVE  Follows(Follow(x, i), LookupIn(mem, y, i))
<1>1. CASE y = None
  <2>1. LookupIn(mem, y, i) = None
    BY <1>1 DEF LookupIn
  <2>2. Follow(x, i) = Page0
    BY <1>1 DEF Follow, Follows, CleanOK, ZeroLeadsNowhere
  <2> QED  BY <2>1, <2>2 DEF Follows
<1>2. CASE y # None
  <2>1. x = y /\ x \in Mem
    BY <1>2, PoolPages DEF Follows, Mem
  <2>2. Follow(x, i) = mem[y][i].addr
    BY <2>1 DEF Follow
  <2>3. mem[y][i] = Absent \/ Present(mem[y][i])
    BY <2>1 DEF IInv, TablesOK, EntriesOK
  <2>4. CASE Present(mem[y][i])
    <3>1. mem[y][i].addr # None
      BY <2>1, PoolPages DEF IInv, TablesOK, Entry
    <3> QED  BY <1>2, <2>2, <2>4, <3>1 DEF LookupIn, Follows
  <2>5. CASE ~Present(mem[y][i])
    BY <2>2, <2>3, <2>5, EntryTypes DEF LookupIn, Follows
  <2> QED  BY <2>4, <2>5
<1> QED  BY <1>1, <1>2

-----------------------------------------------------------------------------
(***************************************************************************)
(* While there was a page for every table: what the processor holds is     *)
(* mapped, and the tables implement AddressSpaces                          *)
(***************************************************************************)

NoDangling == \A va \in DOMAIN tlb : Translate(current, va) # Absent

CleanInv ==
    /\ current = None => DOMAIN tlb = {}
    /\ failures = 0 /\ strays = 0 =>
          /\ \E lev \in Levels : CleanOK(mem, pool, spaces, lev)
          /\ NoDangling

MapsIn(m, sp) == [s \in sp |-> [va \in VAddrs |-> TranslateIn(m, s, va)]]

\* The walks in mem are those of Vmm.
LEMMA WalksInMem ==
    /\ \A s, va : Translate(s, va) = TranslateIn(mem, s, va)
    /\ Maps = MapsIn(mem, spaces)
<1>1. \A t, i : Lookup(t, i) = LookupIn(mem, t, i)
  BY DEF Lookup, LookupIn, Present
<1>2. ASSUME NEW s, NEW va PROVE Translate(s, va) = TranslateIn(mem, s, va)
  BY <1>1 DEF Translate, TranslateIn, WalkIn, LeafIn, Present
<1> QED  BY <1>2 DEF Maps, MapsIn

\* The same of the next state.
LEMMA WalksInMemNext ==
    /\ \A s, va : Translate(s, va)' = TranslateIn(mem', s, va)
    /\ Maps' = MapsIn(mem', spaces')
<1>1. \A t, i : Lookup(t, i)' = LookupIn(mem', t, i)
  BY DEF Lookup, LookupIn, Present
<1>2. ASSUME NEW s, NEW va PROVE Translate(s, va)' = TranslateIn(mem', s, va)
  BY <1>1 DEF Translate, TranslateIn, WalkIn, LeafIn, Present
<1> QED  BY <1>2 DEF Maps, MapsIn

\* Vmm_Map that found a page for every table changes one address.
LEMMA MapClean ==
    ASSUME IInv, NEW s \in spaces, NEW va \in VAddrs, NEW frame \in Frames,
           NEW flags \in SUBSET AllFlags, "P" \in flags, Running,
           Map(s, va, frame, flags), failures = 0, failures' = 0,
           NEW lev, CleanOK(mem, pool, spaces, lev),
           NEW leaf, leaf = [addr |-> frame, flags |-> flags]
    PROVE  \E up \in Levels : /\ CleanOK(mem', pool', spaces, up)
                              /\ ChangedAt(mem, mem', spaces, s, va, leaf)
<1>1. va[1] \in Idx /\ va[2] \in Idx /\ va[3] \in Idx /\ va[4] \in Idx
  BY BootMapTypes
<1>2. PICK w : w = Now(s)
  OBVIOUS
<1>3. PICK d : d = Descend(Descend(Descend(w, va[1]), va[2]), va[3])
  OBVIOUS
<1>4. /\ mem' = Write(d.mem, d.table, va[4], leaf) /\ pool' = d.pool
      /\ failures' = failures + (IF d.failed THEN 1 ELSE 0)
  BY <1>2, <1>3 DEF Map, Write
<1>5. ~d.failed
  BY <1>4
<1>6. /\ w = WorkState(mem, pool, FALSE, s) /\ w.mem = mem /\ w.table = s
      /\ w.pool = pool /\ ~w.failed
  BY <1>2 DEF Now, WorkState
<1>7. s \in Pages /\ s \notin ToSet(pool) /\ Pages \subseteq Mem
  BY DEF CleanOK, Leveled, TablesOK, SpacesOK, Mem
<1>8. WorkClean(w, spaces, lev)
  <2>1. w \in Work
    BY <1>6, <1>7 DEF Work, WorkState, IInv, TablesOK, PoolOK
  <2>2. Failures(w, 0) = 0
    BY <1>6 DEF Failures
  <2>3. TablesOK(mem, pool, spaces, 0) /\ s # Page0
    BY <1>7, PoolPages DEF CleanOK
  <2> QED  BY <1>6, <1>7, <2>1, <2>2, <2>3 DEF WorkClean, WorkOK
<1>9. PICK up \in Levels :
         /\ WorkClean(d, spaces, up) /\ SameMaps(w.mem, d.mem, spaces)
         /\ LookupIn(d.mem, LookupIn(d.mem, LookupIn(d.mem, w.table, va[1]), va[2]), va[3])
              = d.table
  <2>1. w.table \in spaces
    BY <1>6
  <2> QED  BY <1>1, <1>3, <1>5, <1>8, <2>1, WalkClean
<1>10. /\ d.table = WalkIn(d.mem, s, va) /\ d.table # None /\ d.table \in Mem
       /\ CleanOK(d.mem, d.pool, spaces, up)
  BY <1>6, <1>7, <1>9, PoolPages DEF WorkClean, WalkIn
<1>11. Leaf(leaf)
  BY EntryTypes DEF Leaf
<1>12. PICK n : n = mem'
  OBVIOUS
<1>13. TablesOK(n, d.pool, spaces, 0)
  <2>1. TablesOK(mem', pool', spaces, failures')
    BY MapKeeps
  <2> QED  BY <1>4, <1>12, <2>1
<1>14. n[d.table][va[4]] = leaf /\ OthersSame(d.mem, n, d.table, va[4])
  <2>1. TablesOK(d.mem, d.pool, spaces, 0)
    BY <1>10 DEF CleanOK
  <2>2. n = Write(d.mem, d.table, va[4], leaf)
    BY <1>4, <1>12
  <2> QED  BY <1>1, <1>10, <1>11, <2>1, <2>2, WriteLeaf
<1>15. CleanOK(n, d.pool, spaces, up) /\ ChangedAt(d.mem, n, spaces, s, va, leaf)
  BY <1>10, <1>11, <1>13, <1>14, LeafWritten
<1>16. ChangedAt(mem, n, spaces, s, va, leaf)
  BY <1>6, <1>9, <1>15 DEF ChangedAt, SameMaps
<1> QED  BY <1>4, <1>12, <1>15, <1>16

\* Vmm_Unmap makes one address absent, or met page 0 because it is.
LEMMA UnmapClean ==
    ASSUME IInv, IInv', NEW s \in spaces, NEW va \in VAddrs, Vmm_Unmap(s, va), failures = 0,
           strays' = 0, NEW lev, CleanOK(mem, pool, spaces, lev)
    PROVE  CleanOK(mem', pool', spaces, lev) /\ ChangedAt(mem, mem', spaces, s, va, Absent)
<1>1. va[1] \in Idx /\ va[2] \in Idx /\ va[3] \in Idx /\ va[4] \in Idx
  BY BootMapTypes
<1>2. PICK a : a = LookupIn(mem, s, va[1])
  OBVIOUS
<1>3. PICK b : b = LookupIn(mem, a, va[2])
  OBVIOUS
<1>4. PICK c : c = LookupIn(mem, b, va[3])
  OBVIOUS
<1>5. /\ At(lev, 4, s) /\ At(lev, 3, a) /\ At(lev, 2, b) /\ At(lev, 1, c)
      /\ s \in Pages
  BY <1>2, <1>3, <1>4, CleanWalk DEF CleanOK, Leveled
<1>6. PICK t1 : t1 = Follow(s, va[1])
  OBVIOUS
<1>7. PICK t2 : t2 = Follow(t1, va[2])
  OBVIOUS
<1>8. PICK w : w = Follow(t2, va[3])
  OBVIOUS
<1>9. Follows(t1, a) /\ Follows(t2, b) /\ Follows(w, c)
  <2>1. Follows(s, s)
    BY <1>5, PoolPages DEF Follows
  <2>2. Follows(t1, a)
    BY <1>1, <1>2, <1>5, <1>6, <2>1, FollowClean
  <2>3. a = None \/ a \in Pages
    BY <1>5 DEF At
  <2>4. Follows(t2, b)
    BY <1>1, <1>3, <1>7, <2>2, <2>3, FollowClean
  <2>5. b = None \/ b \in Pages
    BY <1>5 DEF At
  <2>6. Follows(w, c)
    BY <1>1, <1>4, <1>8, <2>4, <2>5, FollowClean
  <2> QED  BY <2>2, <2>4, <2>6
<1>10. /\ Unmapped(t1, t2, w, va[4]) /\ UNCHANGED <<pool, spaces, failures>>
  <2>1. Unmapped(t1, t2, w, va[4])
    BY <1>6, <1>7, <1>8, UnmapWrites
  <2> QED  BY <2>1 DEF Unmapped
<1>11. PICK t \in Mem : /\ mem' = Write(mem, t, va[4], Absent)
                        /\ t = w \/ (mem' = mem /\ Page0 \in {t1, t2})
  BY <1>10 DEF Unmapped
<1>12. PICK n : n = mem'
  OBVIOUS
<1>13. TablesOK(n, pool, spaces, 0) /\ TablesOK(mem, pool, spaces, 0)
  BY <1>10, <1>12 DEF IInv, CleanOK
<1>14. n[t][va[4]] = Absent /\ OthersSame(mem, n, t, va[4])
  <2>1. n = Write(mem, t, va[4], Absent)
    BY <1>11, <1>12
  <2> QED  BY <1>1, <1>13, <2>1, WriteLeaf DEF Leaf
<1>15. c = WalkIn(mem, s, va)
  BY <1>2, <1>3, <1>4 DEF WalkIn
<1>16. CASE c # None
  <2>1. t = c
    <3>1. a # None /\ b # None /\ Page0 \notin {a, b}
      BY <1>3, <1>4, <1>5, <1>16, PoolPages DEF LookupIn, At
    <3>2. t1 = a /\ t2 = b /\ w = c
      BY <1>9, <1>16, <3>1 DEF Follows
    <3> QED  BY <1>11, <3>1, <3>2
  <2>2. CleanOK(n, pool, spaces, lev) /\ ChangedAt(mem, n, spaces, s, va, Absent)
    BY <1>13, <1>14, <1>15, <1>16, <2>1, LeafWritten DEF Leaf
  <2> QED  BY <1>10, <1>12, <2>2
<1>17. CASE c = None
  <2>1. t = Page0 \/ n = mem
    BY <1>9, <1>11, <1>12, <1>17 DEF Follows
  <2>2. \A q \in Pages, j \in Idx : n[q][j] = mem[q][j]
    <3>1. CASE t = Page0
      BY <1>14, <3>1, PoolPages DEF OthersSame, Mem
    <3> QED  BY <2>1, <3>1
  <2>3. ZeroLeadsNowhere(n)
    <3>1. \A j \in Idx : n[Page0][j] = Absent \/ n[Page0][j] = mem[Page0][j]
      <4>1. CASE t = Page0
        BY <1>14, <4>1 DEF OthersSame, Mem
      <4> QED  BY <2>1, <4>1
    <3> QED  BY <3>1, EntryTypes DEF ZeroLeadsNowhere, CleanOK
  <2>4. CleanOK(n, pool, spaces, lev) /\ SameMaps(mem, n, spaces)
    BY <1>13, <2>2, <2>3, TablesSame
  <2>5. TranslateIn(mem, s, va) = Absent
    BY <1>15, <1>17 DEF TranslateIn, LeafIn
  <2>6. ChangedAt(mem, n, spaces, s, va, Absent)
    BY <2>4, <2>5 DEF ChangedAt, SameMaps
  <2> QED  BY <1>10, <1>12, <2>4, <2>6
<1> QED  BY <1>16, <1>17

\* Such a change is one that AddressSpaces allows.
LEMMA ChangePromised ==
    ASSUME NEW s \in spaces, NEW va \in VAddrs, NEW leaf,
           leaf \in [addr : Frames, flags : SUBSET AllFlags] \cup {Absent},
           spaces' = spaces, ChangedAt(mem, mem', spaces, s, va, leaf)
    PROVE  Promise!Next
<1>1. Maps = MapsIn(mem, spaces) /\ Maps' = MapsIn(mem', spaces)
  BY WalksInMem, WalksInMemNext
<1>2. DOMAIN Maps = spaces /\ DOMAIN Maps' = spaces
  BY <1>1 DEF MapsIn
<1>3. ASSUME NEW r \in spaces
      PROVE  /\ Maps[r] = [v \in VAddrs |-> TranslateIn(mem, r, v)]
             /\ Maps'[r] = [v \in VAddrs |-> TranslateIn(mem', r, v)]
  BY <1>1 DEF MapsIn
<1>4. Maps'[s][va] = leaf
  BY <1>3 DEF ChangedAt
<1>5. ASSUME NEW r \in spaces
      PROVE  \/ Maps'[r] = Maps[r]
             \/ (r = s \/ IsKernelHalf(va)) /\ Maps'[r] = [Maps[r] EXCEPT ![va] = leaf]
  <2>1. CASE TranslateIn(mem', r, va) = TranslateIn(mem, r, va)
    <3>1. \A v \in VAddrs : TranslateIn(mem', r, v) = TranslateIn(mem, r, v)
      BY <2>1 DEF ChangedAt
    <3> QED  BY <1>3, <3>1
  <2>2. CASE TranslateIn(mem', r, va) # TranslateIn(mem, r, va)
    <3>1. TranslateIn(mem', r, va) = leaf /\ (r = s \/ IsKernelHalf(va))
      BY <2>2 DEF ChangedAt
    <3>2. \A v \in VAddrs : v # va => TranslateIn(mem', r, v) = TranslateIn(mem, r, v)
      BY DEF ChangedAt
    <3>3. /\ Maps[r] = [v \in VAddrs |-> TranslateIn(mem, r, v)]
          /\ Maps'[r] = [v \in VAddrs |-> TranslateIn(mem', r, v)]
      BY <1>3
    <3>4. Maps'[r] = [Maps[r] EXCEPT ![va] = leaf]
      BY <3>1, <3>2, <3>3
    <3> QED  BY <3>1, <3>4
  <2> QED  BY <2>1, <2>2
<1>6. Maps'[s] = [Maps[s] EXCEPT ![va] = leaf]
  <2>1. CASE Maps'[s] = Maps[s]
    <3>1. Maps[s][va] = leaf
      BY <1>4, <2>1
    <3>2. Maps[s] = [v \in VAddrs |-> TranslateIn(mem, s, v)]
      BY <1>3
    <3> QED  BY <2>1, <3>1, <3>2
  <2> QED  BY <1>5, <2>1
<1>7. Promise!Change(s, va)
  BY <1>2, <1>4, <1>5, <1>6 DEF Promise!Change
<1> QED  BY <1>2, <1>7 DEF Promise!Next

\* A new space that sees the kernel's half is one that AddressSpaces allows.
LEMMA NewPromised ==
    ASSUME KernelSpace \in spaces, NEW s, s \notin spaces, spaces' = spaces \cup {s},
           SameMaps(mem, mem', spaces), NewMap(mem, mem', s)
    PROVE  Promise!Next
<1>1. Maps = MapsIn(mem, spaces) /\ Maps' = MapsIn(mem', spaces \cup {s})
  BY WalksInMem, WalksInMemNext
<1>2. DOMAIN Maps = spaces /\ DOMAIN Maps' = spaces \cup {s}
  BY <1>1 DEF MapsIn
<1>3. ASSUME NEW t \in spaces \cup {s}
      PROVE  Maps'[t] = IF t # s THEN Maps[t]
                        ELSE [va \in VAddrs |-> IF IsKernelHalf(va) THEN Maps[KernelSpace][va]
                                                                    ELSE Absent]
  <2>1. CASE t # s
    BY <1>1, <2>1 DEF MapsIn, SameMaps
  <2>2. CASE t = s
    BY <1>1, <2>2 DEF MapsIn, NewMap
  <2> QED  BY <2>1, <2>2
<1>4. Maps' = [t \in DOMAIN Maps \cup {s} |->
                  IF t # s THEN Maps[t]
                  ELSE [va \in VAddrs |-> IF IsKernelHalf(va) THEN Maps[KernelSpace][va]
                                                              ELSE Absent]]
  BY <1>1, <1>2, <1>3 DEF MapsIn
<1>5. Promise!New
  BY <1>2, <1>4 DEF Promise!New
<1> QED  BY <1>5 DEF Promise!Next

\* what NoDangling says before and after a step
LEMMA NoDanglingIn ==
    /\ NoDangling <=> \A va \in DOMAIN tlb : TranslateIn(mem, current, va) # Absent
    /\ NoDangling' <=> \A va \in DOMAIN tlb' : TranslateIn(mem', current', va) # Absent
<1>1. NoDangling <=> \A va \in DOMAIN tlb : TranslateIn(mem, current, va) # Absent
  BY WalksInMem DEF NoDangling
<1>2. \A va : Translate(current, va)' = TranslateIn(mem', current', va)
  BY WalksInMemNext
<1>3. NoDangling' <=> \A va \in DOMAIN tlb' : TranslateIn(mem', current', va) # Absent
  BY <1>2 DEF NoDangling
<1> QED  BY <1>1, <1>3

\* A change leaves mapped what the processor holds, if it maps the address or
\* takes it out of the cache.
LEMMA StillMapped ==
    ASSUME NoDangling, current = None => DOMAIN tlb = {}, current \in spaces \cup {None},
           DOMAIN tlb \subseteq VAddrs, NEW s, NEW va, NEW leaf,
           ChangedAt(mem, mem', spaces, s, va, leaf), current' = current,
           DOMAIN tlb' \subseteq DOMAIN tlb, leaf # Absent \/ va \notin DOMAIN tlb'
    PROVE  NoDangling'
<1> SUFFICES ASSUME NEW v \in DOMAIN tlb' PROVE TranslateIn(mem', current, v) # Absent
  BY NoDanglingIn
<1>1. v \in VAddrs /\ current \in spaces /\ TranslateIn(mem, current, v) # Absent
  BY NoDanglingIn
<1> QED  BY <1>1 DEF ChangedAt

\* The boot code begins with no mapping.
LEMMA CleanInit == Init => CleanInv /\ Promise!Init
<1> SUFFICES ASSUME Init PROVE CleanInv /\ Promise!Init
  OBVIOUS
<1>1. mem = [p \in Mem |-> Cleared]
  BY DEF Init, Mem
<1>2. \A p \in Pages, i \in Idx : mem[p][i] = Absent
  BY <1>1, EntryTypes DEF Mem
<1>3. ZeroLeadsNowhere(mem)
  BY <1>1, EntryTypes DEF ZeroLeadsNowhere, Mem
<1>4. spaces = {KernelSpace} /\ failures = 0 /\ DOMAIN tlb = {}
  BY DEF Init, NoTlb
<1>5. TablesOK(mem, pool, spaces, 0)
  BY <1>4, InitOK DEF IInv
<1>6. PICK lev : lev = [p \in Pages |-> 4]
  OBVIOUS
<1>7. CleanOK(mem, pool, spaces, lev) /\ lev \in Levels
  BY <1>2, <1>3, <1>4, <1>5, <1>6, EntryTypes, PoolPages DEF CleanOK, Levels, Leveled
<1>8. CleanInv
  BY <1>4, <1>7 DEF CleanInv, NoDangling
<1>9. ASSUME NEW va \in VAddrs PROVE TranslateIn(mem, KernelSpace, va) = Absent
  <2>1. va[1] \in Idx /\ KernelSpace \in Pages
    BY BootMapTypes, PoolPages
  <2>2. LookupIn(mem, KernelSpace, va[1]) = None
    BY <1>2, <2>1, EntryTypes DEF LookupIn
  <2>3. \A j : LookupIn(mem, None, j) = None
    BY DEF LookupIn
  <2>4. WalkIn(mem, KernelSpace, va) = None
    BY <2>2, <2>3 DEF WalkIn
  <2> QED  BY <2>4 DEF TranslateIn, LeafIn
<1>10. Maps = [s \in {KernelSpace} |-> [va \in VAddrs |-> Absent]]
  BY <1>4, <1>9, WalksInMem DEF MapsIn
<1> QED  BY <1>8, <1>10 DEF Promise!Init

\* A step that found a page for every table, or needed none, and did not stray.
LEMMA CleanStep ==
    ASSUME IInv, IInv', CleanInv, [Next]_vars, failures' = 0, strays' = 0
    PROVE  /\ \E lev \in Levels : CleanOK(mem', pool', spaces', lev)
           /\ NoDangling'
           /\ Promise!Next \/ UNCHANGED <<Maps, failures>>
<1>1. failures = 0 /\ strays = 0
  <2>1. failures \in Nat
    BY VmmAssumption DEF IInv
  <2>2. \A s, va, frame, flags : Map(s, va, frame, flags) => failures' \in {failures, failures + 1}
    <3> SUFFICES ASSUME NEW s, NEW va, NEW frame, NEW flags, Map(s, va, frame, flags)
                 PROVE  failures' \in {failures, failures + 1}
      OBVIOUS
    <3>1. PICK w : w = Descend(Descend(Descend(Now(s), va[1]), va[2]), va[3])
      OBVIOUS
    <3>2. failures' = failures + (IF w.failed THEN 1 ELSE 0)
      BY <3>1 DEF Map
    <3> QED  BY <2>1, <3>2
  <2>3. failures' \in {failures, failures + 1}
    <3>1. CASE Vmm_Initialize_Map
      BY <2>2, <3>1 DEF Vmm_Initialize_Map
    <3>2. CASE Vmm_NewAddressSpace
      <4>1. PICK s : s = Taken(pool)
        OBVIOUS
      <4>2. failures' = failures + (IF pool = <<>> THEN 1 ELSE 0)
        BY <3>2, <4>1, NewMakesTable
      <4> QED  BY <2>1, <4>2
    <3>3. CASE \E s \in spaces, va \in VAddrs, frame \in Frames, flags \in Flags :
                  Vmm_Map(s, va, frame, flags)
      BY <2>2, <3>3 DEF Vmm_Map
    <3>4. CASE \E s \in spaces : Vmm_SwitchAddressSpaces(s)
      BY <3>4 DEF Vmm_SwitchAddressSpaces
    <3>5. CASE \E s \in spaces, va \in VAddrs : Vmm_Unmap(s, va)
      BY <3>5 DEF Vmm_Unmap, Cleans
    <3>6. CASE \E va \in VAddrs : Access(va)
      BY <3>6 DEF Access
    <3> QED  BY <3>1, <3>2, <3>3, <3>4, <3>5, <3>6 DEF Next, vars
  <2>4. CASE \E s \in spaces, va \in VAddrs : Vmm_Unmap(s, va)
    <3>1. PICK s \in spaces, va \in VAddrs : Vmm_Unmap(s, va)
      BY <2>4
    <3>2. PICK t1, t2, w : /\ t1 = Follow(s, va[1]) /\ t2 = Follow(t1, va[2])
                           /\ w = Follow(t2, va[3])
      OBVIOUS
    <3> QED  BY <2>1, <2>3, <3>1, <3>2, UnmapWrites DEF Unmapped
  <2>5. CASE ~\E s \in spaces, va \in VAddrs : Vmm_Unmap(s, va)
    <3>1. strays' = strays
      BY <2>5 DEF Next, vars, Vmm_Initialize_Map, Vmm_NewAddressSpace,
                  Vmm_SwitchAddressSpaces, Vmm_Map, Access
    <3> QED  BY <2>1, <2>3, <3>1
  <2> QED  BY <2>4, <2>5
<1>2. PICK lev \in Levels : CleanOK(mem, pool, spaces, lev)
  BY <1>1 DEF CleanInv
<1>3. /\ NoDangling /\ (current = None => DOMAIN tlb = {}) /\ current \in spaces \cup {None}
      /\ DOMAIN tlb \subseteq VAddrs
  BY <1>1 DEF CleanInv, IInv
<1>4. ASSUME NEW s \in spaces, NEW va \in VAddrs, NEW frame \in Frames,
             NEW flags \in SUBSET AllFlags, "P" \in flags, Running,
             Map(s, va, frame, flags), UNCHANGED <<spaces, current, tlb>>
      PROVE  /\ \E up \in Levels : CleanOK(mem', pool', spaces', up)
             /\ NoDangling' /\ Promise!Next
  <2>1. PICK leaf : leaf = [addr |-> frame, flags |-> flags]
    OBVIOUS
  <2>2. PICK up \in Levels : /\ CleanOK(mem', pool', spaces, up)
                             /\ ChangedAt(mem, mem', spaces, s, va, leaf)
    BY <1>1, <1>2, <1>4, <2>1, MapClean
  <2>3. leaf # Absent /\ leaf \in [addr : Frames, flags : SUBSET AllFlags]
    BY <1>4, <2>1 DEF Absent
  <2>4. NoDangling'
    BY <1>3, <1>4, <2>2, <2>3, StillMapped
  <2>5. Promise!Next
    BY <1>4, <2>2, <2>3, ChangePromised
  <2> QED  BY <1>4, <2>2, <2>4, <2>5
<1>5. CASE Vmm_Initialize_Map
  <2>1. PICK m : m = BootMaps[booted + 1] /\ Map(KernelSpace, m.va, m.frame, m.flags)
    BY <1>5 DEF Vmm_Initialize_Map
  <2>2. booted + 1 \in 1 .. Len(BootMaps)
    BY <1>5, BootMapTypes DEF Vmm_Initialize_Map, IInv
  <2>3. m.va \in VAddrs /\ m.frame \in Frames /\ m.flags \in SUBSET AllFlags /\ "P" \in m.flags
    BY <2>1, <2>2, BootMapTypes
  <2>4. KernelSpace \in spaces /\ Running /\ UNCHANGED <<spaces, current, tlb>>
    BY <1>5 DEF Vmm_Initialize_Map, IInv, TablesOK, SpacesOK
  <2> QED  BY <1>4, <2>1, <2>3, <2>4
<1>6. CASE Vmm_NewAddressSpace
  <2>1. PICK s : s = Taken(pool)
    OBVIOUS
  <2>2. /\ mem' \in [Mem -> [Idx -> Entry]] /\ NewTable(mem, mem', s)
        /\ pool' = Rest(pool) /\ spaces' = spaces \cup {s}
        /\ failures' = failures + (IF pool = <<>> THEN 1 ELSE 0)
    BY <1>6, <2>1, NewMakesTable
  <2>3. pool # <<>> /\ TablesOK(mem, pool, spaces, 0)
    BY <1>1, <1>2, <2>2 DEF CleanOK
  <2>4. s \in Pages /\ s \in ToSet(pool) /\ s \notin spaces /\ Unreferenced(mem, s)
    BY <2>1, <2>3, FreshPage, TakePage, PoolPages DEF Unreferenced, Taken, TablesOK
  <2>5. PICK n : n = mem'
    OBVIOUS
  <2>6. PICK up : up = [lev EXCEPT ![s] = 4]
    OBVIOUS
  <2>7. TablesOK(n, pool', spaces \cup {s}, 0) /\ NewTable(mem, n, s)
    BY <2>2, <2>5 DEF IInv
  <2>8. CleanOK(n, pool', spaces \cup {s}, up) /\ SameMaps(mem, n, spaces) /\ NewMap(mem, n, s)
    BY <1>2, <2>4, <2>6, <2>7, NewClean
  <2>9. NoDangling'
    <3> SUFFICES ASSUME NEW v \in DOMAIN tlb PROVE TranslateIn(mem', current, v) # Absent
      BY <1>6, NoDanglingIn DEF Vmm_NewAddressSpace
    <3> QED  BY <1>3, <2>5, <2>8, NoDanglingIn DEF SameMaps
  <2>10. Promise!Next
    <3>1. KernelSpace \in spaces
      BY <2>3 DEF TablesOK, SpacesOK
    <3> QED  BY <2>2, <2>4, <2>5, <2>8, <3>1, NewPromised
  <2>11. up \in Levels
    BY <2>8 DEF CleanOK
  <2> QED  BY <2>2, <2>5, <2>8, <2>9, <2>10, <2>11
<1>7. ASSUME NEW s \in spaces, Vmm_SwitchAddressSpaces(s)
      PROVE  /\ \E up \in Levels : CleanOK(mem', pool', spaces', up)
             /\ NoDangling' /\ UNCHANGED <<Maps, failures>>
  <2>1. UNCHANGED <<mem, pool, spaces, failures>> /\ DOMAIN tlb' = {}
    BY <1>7 DEF Vmm_SwitchAddressSpaces, NoTlb
  <2>2. NoDangling' /\ Maps' = Maps
    BY <2>1, NoDanglingIn, WalksInMem, WalksInMemNext
  <2> QED  BY <1>2, <2>1, <2>2
<1>8. ASSUME NEW s \in spaces, NEW va \in VAddrs, NEW frame \in Frames, NEW flags \in Flags,
             Vmm_Map(s, va, frame, flags)
      PROVE  /\ \E up \in Levels : CleanOK(mem', pool', spaces', up)
             /\ NoDangling' /\ Promise!Next
  <2>1. flags \in SUBSET AllFlags /\ "P" \in flags
    BY VmmAssumption
  <2>2. Running /\ Map(s, va, frame, flags) /\ UNCHANGED <<spaces, current, tlb>>
    BY <1>8 DEF Vmm_Map, Booted
  <2> QED  BY <1>4, <2>1, <2>2
<1>9. ASSUME NEW s \in spaces, NEW va \in VAddrs, Vmm_Unmap(s, va)
      PROVE  /\ \E up \in Levels : CleanOK(mem', pool', spaces', up)
             /\ NoDangling' /\ Promise!Next
  <2>1. CleanOK(mem', pool', spaces, lev) /\ ChangedAt(mem, mem', spaces, s, va, Absent)
    BY <1>1, <1>2, <1>9, UnmapClean
  <2>2. spaces' = spaces /\ current' = current /\ DOMAIN tlb' = DOMAIN tlb \ {va}
    BY <1>9 DEF Vmm_Unmap, Cleans
  <2>3. NoDangling'
    BY <1>3, <2>1, <2>2, StillMapped
  <2>4. Promise!Next
    BY <2>1, <2>2, ChangePromised
  <2> QED  BY <2>1, <2>2, <2>3, <2>4
<1>10. ASSUME NEW va \in VAddrs, Access(va)
       PROVE  /\ \E up \in Levels : CleanOK(mem', pool', spaces', up)
              /\ NoDangling' /\ UNCHANGED <<Maps, failures>>
  <2>1. /\ UNCHANGED <<mem, pool, spaces, current, failures>>
        /\ DOMAIN tlb' = DOMAIN tlb \cup {va} /\ Translate(current, va) # Absent
    BY <1>10 DEF Access
  <2>2. Maps' = Maps
    BY <2>1, WalksInMem, WalksInMemNext
  <2>3. NoDangling'
    BY <1>3, <2>1, NoDanglingIn, WalksInMem
  <2> QED  BY <1>2, <2>1, <2>2, <2>3
<1>11. CASE UNCHANGED vars
  <2>1. UNCHANGED <<mem, pool, spaces, current, tlb, failures>>
    BY <1>11 DEF vars
  <2>2. Maps' = Maps /\ NoDangling'
    BY <1>3, <2>1, NoDanglingIn, WalksInMem, WalksInMemNext
  <2> QED  BY <1>2, <2>1, <2>2
<1> QED  BY <1>5, <1>4, <1>6, <1>7, <1>8, <1>9, <1>10, <1>11 DEF Next

\* The cache is empty until a space is loaded.
LEMMA CleanNext == IInv /\ IInv' /\ CleanInv /\ [Next]_vars => CleanInv'
<1> SUFFICES ASSUME IInv, IInv', CleanInv, [Next]_vars PROVE CleanInv'
  OBVIOUS
<1>1. current' = None => DOMAIN tlb' = {}
  <2>1. current = None => DOMAIN tlb = {}
    BY DEF CleanInv
  <2>2. \A s \in spaces : s # None
    BY PoolPages DEF IInv, TablesOK, SpacesOK, Tables
  <2>3. CASE \E s \in spaces : Vmm_SwitchAddressSpaces(s)
    BY <2>2, <2>3 DEF Vmm_SwitchAddressSpaces
  <2>4. CASE \E s \in spaces, va \in VAddrs : Vmm_Unmap(s, va)
    BY <2>1, <2>4 DEF Vmm_Unmap, Cleans
  <2>5. CASE \E va \in VAddrs : Access(va)
    BY <2>1, <2>5 DEF Access, Booted
  <2> QED  BY <2>1, <2>3, <2>4, <2>5
           DEF Next, vars, Vmm_Initialize_Map, Vmm_NewAddressSpace, Vmm_Map
<1>2. failures' = 0 /\ strays' = 0 => (\E lev \in Levels : CleanOK(mem', pool', spaces', lev)) /\ NoDangling'
  BY CleanStep
<1> QED  BY <1>1, <1>2 DEF CleanInv

(***************************************************************************)
(* While there was a page for every table and no unmap strayed, the        *)
(* processor never holds a translation of an address that is no longer     *)
(* mapped (vmm.c:59, 127), through whichever of the spaces that share the  *)
(* table it was unmapped.                                                  *)
(***************************************************************************)
THEOREM CacheNeverDangles == Spec => []NoDanglingTranslation
<1>1. CleanInv => NoDanglingTranslation
  BY DEF CleanInv, NoDangling, NoDanglingTranslation
<1>2. Init => CleanInv
  BY CleanInit
<1> QED  BY <1>1, <1>2, IInvHolds, CleanNext, PTL DEF Spec

(***************************************************************************)
(* While there was a page for every table and no unmap strayed, each call  *)
(* changes one address, in one space or in those that share the kernel's   *)
(* table: the four levels of tables implement AddressSpaces                *)
(* (vmm.c:44-129).                                                         *)
(***************************************************************************)
THEOREM TablesImplementSpaces == Spec => ImplementsAddressSpaces
<1>1. Init => CleanInv /\ Promise!Init
  BY CleanInit
<1>2. IInv /\ IInv' /\ CleanInv /\ [Next]_vars
         => [failures' > 0 \/ strays' > 0 \/ Promise!Next]_<<Maps, failures>>
  <2> SUFFICES ASSUME IInv, IInv', CleanInv, [Next]_vars, ~(failures' > 0 \/ strays' > 0)
               PROVE  Promise!Next \/ UNCHANGED <<Maps, failures>>
    OBVIOUS
  <2>1. failures' = 0 /\ strays' = 0
    BY VmmAssumption DEF IInv
  <2> QED  BY <2>1, CleanStep
<1> QED  BY <1>1, <1>2, IInvHolds, CleanNext, PTL DEF Spec, ImplementsAddressSpaces

-----------------------------------------------------------------------------
(***************************************************************************)
(* After a call has found no page, page 0 is a table.  The tables without  *)
(* the entries that lead to page 0 are still in levels: a walk that does   *)
(* not meet page 0 is a walk in them.                                      *)
(***************************************************************************)

\* the tables of the pool, without the entries that lead to page 0
Cut(m) ==
    [p \in Mem |-> IF p \in Pages
                     THEN [i \in Idx |-> IF m[p][i].addr = Page0 THEN Absent ELSE m[p][i]]
                     ELSE Cleared]

\* From page 0, or a frame that is walked as a table, nothing leads back.  A
\* table that leads to page 0 is not of leaves, and the pool is empty then.
Sealed(m, pl, lev) ==
    /\ \A p \in Mem \ Pages, i \in Idx : m[p][i].addr \notin Pages
    /\ \A p \in Pages \ ToSet(pl), i \in Idx :
          Present(m[p][i]) /\ m[p][i].addr = Page0 => pl = <<>> /\ lev[p] # 1

DamagedOK(m, pl, sp, lev) == Sealed(m, pl, lev) /\ CleanOK(Cut(m), pl, sp, lev)

\* What the cut leaves of an entry.
LEMMA CutEntry ==
    ASSUME NEW m \in [Mem -> [Idx -> Entry]]
    PROVE  /\ Cut(m) \in [Mem -> [Idx -> Entry]]
           /\ \A p \in Pages, i \in Idx :
                 Cut(m)[p][i] = IF m[p][i].addr = Page0 THEN Absent ELSE m[p][i]
           /\ \A p \in Mem \ Pages, i \in Idx : Cut(m)[p][i] = Absent
<1>1. Pages \subseteq Mem
  BY DEF Mem
<1>2. ASSUME NEW p \in Mem PROVE Cut(m)[p] \in [Idx -> Entry]
  <2>1. CASE p \in Pages
    <3>1. Cut(m)[p] = [i \in Idx |-> IF m[p][i].addr = Page0 THEN Absent ELSE m[p][i]]
      BY <2>1 DEF Cut
    <3>2. \A i \in Idx : m[p][i] \in Entry
      OBVIOUS
    <3> QED  BY <3>1, <3>2, EntryTypes
  <2>2. CASE p \notin Pages
    BY <2>2, EntryTypes DEF Cut
  <2> QED  BY <2>1, <2>2
<1>3. Cut(m) \in [Mem -> [Idx -> Entry]]
  BY <1>2 DEF Cut
<1>4. \A p \in Pages, i \in Idx :
         Cut(m)[p][i] = IF m[p][i].addr = Page0 THEN Absent ELSE m[p][i]
  BY <1>1 DEF Cut
<1>5. \A p \in Mem \ Pages, i \in Idx : Cut(m)[p][i] = Absent
  BY EntryTypes DEF Cut
<1> QED  BY <1>3, <1>4, <1>5

\* Memories whose cuts agree on the tables have one cut.
LEMMA CutSame ==
    ASSUME NEW m \in [Mem -> [Idx -> Entry]], NEW n \in [Mem -> [Idx -> Entry]],
           \A p \in Pages, i \in Idx : Cut(n)[p][i] = Cut(m)[p][i]
    PROVE  Cut(n) = Cut(m)
<1>1. ASSUME NEW p \in Mem PROVE Cut(n)[p] = Cut(m)[p]
  <2>1. Cut(n)[p] \in [Idx -> Entry] /\ Cut(m)[p] \in [Idx -> Entry]
    BY CutEntry
  <2>2. \A i \in Idx : Cut(n)[p][i] = Cut(m)[p][i]
    BY CutEntry
  <2> QED  BY <2>1, <2>2
<1>2. Cut(n) = [p \in Mem |-> Cut(n)[p]] /\ Cut(m) = [p \in Mem |-> Cut(m)[p]]
  BY DEF Cut
<1> QED  BY <1>1, <1>2

\* The cut has no entry that the memory does not have.
LEMMA CutPresent ==
    ASSUME NEW m \in [Mem -> [Idx -> Entry]], NEW p \in Mem, NEW i \in Idx,
           Present(Cut(m)[p][i])
    PROVE  p \in Pages /\ Cut(m)[p][i] = m[p][i] /\ m[p][i].addr # Page0
BY CutEntry, EntryTypes

\* The cut of tables in order is in order, as if no call had failed.
LEMMA CutTables ==
    ASSUME NEW m, NEW pl, NEW sp, NEW lost, TablesOK(m, pl, sp, lost), Page0 \notin sp
    PROVE  TablesOK(Cut(m), pl, sp, 0)
<1>1. m \in [Mem -> [Idx -> Entry]] /\ Tables \subseteq Mem
  BY DEF TablesOK, Tables, Mem
<1>2. PICK c : c = Cut(m)
  OBVIOUS
<1>3. c \in [Mem -> [Idx -> Entry]]
  BY <1>1, <1>2, CutEntry
<1>4. \A p \in Mem, i \in Idx : Present(c[p][i]) =>
         p \in Pages /\ c[p][i] = m[p][i] /\ m[p][i].addr # Page0
  BY <1>1, <1>2, CutPresent
<1>5. EntriesOK(c, 0)
  <2> SUFFICES ASSUME NEW p \in Mem, NEW i \in Idx
               PROVE  /\ c[p][i] = Absent \/ Present(c[p][i])
                      /\ ~(Present(c[p][i]) /\ c[p][i].addr = Page0)
    BY DEF EntriesOK
  <2>1. c[p][i] = Absent \/ (p \in Pages /\ c[p][i] = m[p][i])
    BY <1>1, <1>2, CutEntry
  <2>2. p \in Pages => p # Page0
    BY PoolPages
  <2>3. m[p][i] = Absent \/ Present(m[p][i])
    BY DEF TablesOK, EntriesOK
  <2> QED  BY <1>4, <2>1, <2>2, <2>3
<1>6. RootsFree(c, pl, sp)
  BY <1>4 DEF TablesOK, RootsFree
<1>7. Unshared(c, sp)
  <2> SUFFICES ASSUME NEW q \in Tables, NEW r \in Tables, NEW i \in Idx, NEW j \in Idx,
                      Present(c[q][i]), Present(c[r][j]),
                      c[q][i].addr \in Pages, c[r][j].addr = c[q][i].addr
               PROVE  (q = r /\ i = j) \/ (q \in sp /\ r \in sp /\ i = j /\ i >= FirstKernel)
    BY DEF Unshared
  <2>1. c[q][i] = m[q][i] /\ c[r][j] = m[r][j]
    BY <1>1, <1>4
  <2> QED  BY <2>1 DEF TablesOK, Unshared
<1>8. PoolOK(pl) /\ SpacesOK(pl, sp, 0)
  BY DEF TablesOK, SpacesOK
<1> QED  BY <1>2, <1>3, <1>5, <1>6, <1>7, <1>8 DEF TablesOK

\* the walk for va from s in m meets page 0 as a table
MeetsIn(m, s, va) ==
    LET a == LookupIn(m, s, va[1])
        b == LookupIn(m, a, va[2])
    IN  Page0 \in {a, b, LookupIn(m, b, va[3])}

\* A walk that does not meet page 0 finds the same in the cut.
LEMMA CutTranslate ==
    ASSUME NEW m, NEW pl, NEW sp, NEW lev, DamagedOK(m, pl, sp, lev),
           NEW lost, TablesOK(m, pl, sp, lost),
           NEW s \in sp, NEW va \in VAddrs, ~MeetsIn(m, s, va)
    PROVE  TranslateIn(m, s, va) = TranslateIn(Cut(m), s, va)
<1>1. m \in [Mem -> [Idx -> Entry]] /\ Pages \subseteq Mem
  BY DEF TablesOK, Mem
<1>2. va[1] \in Idx /\ va[2] \in Idx /\ va[3] \in Idx /\ va[4] \in Idx
  BY BootMapTypes
<1>3. PICK c : c = Cut(m) /\ CleanOK(c, pl, sp, lev)
  BY DEF DamagedOK
<1>4. \A p \in Pages, i \in Idx : c[p][i] = IF m[p][i].addr = Page0 THEN Absent ELSE m[p][i]
  BY <1>1, <1>3, CutEntry
<1>5. \A x, i : (x = None \/ x \in Pages) /\ i \in Idx /\ LookupIn(m, x, i) # Page0
         => LookupIn(m, x, i) = LookupIn(c, x, i)
  BY <1>4, EntryTypes DEF LookupIn
<1>6. PICK a : a = LookupIn(m, s, va[1])
  OBVIOUS
<1>7. PICK b : b = LookupIn(m, a, va[2])
  OBVIOUS
<1>8. PICK d : d = LookupIn(m, b, va[3])
  OBVIOUS
<1>9. a # Page0 /\ b # Page0 /\ d # Page0
  BY <1>6, <1>7, <1>8 DEF MeetsIn
<1>10. s \in Pages
  BY <1>3 DEF CleanOK, Leveled
<1>11. a = LookupIn(c, s, va[1])
  BY <1>2, <1>5, <1>6, <1>9, <1>10
<1>12. At(lev, 3, a) /\ At(lev, 2, LookupIn(c, a, va[2]))
  BY <1>3, <1>11, CleanWalk
<1>13. b = LookupIn(c, a, va[2])
  BY <1>2, <1>5, <1>7, <1>9, <1>12 DEF At
<1>14. d = LookupIn(c, b, va[3])
  BY <1>2, <1>5, <1>8, <1>9, <1>12, <1>13 DEF At
<1>15. At(lev, 1, d) /\ d \notin ToSet(pl)
  BY <1>3, <1>11, <1>13, <1>14, CleanWalk
<1>16. LeafIn(m, d, va[4]) = LeafIn(c, d, va[4])
  <2>1. CASE d = None
    BY <2>1 DEF LeafIn
  <2>2. CASE d # None
    <3>1. d \in Pages \ ToSet(pl) /\ lev[d] = 1
      BY <1>15, <2>2 DEF At
    <3>2. ~(Present(m[d][va[4]]) /\ m[d][va[4]].addr = Page0)
      BY <1>2, <3>1 DEF DamagedOK, Sealed
    <3>3. c[d][va[4]] = IF m[d][va[4]].addr = Page0 THEN Absent ELSE m[d][va[4]]
      BY <1>2, <1>4, <3>1
    <3> QED  BY <3>2, <3>3, EntryTypes DEF LeafIn
  <2> QED  BY <2>1, <2>2
<1>17. WalkIn(m, s, va) = d /\ WalkIn(c, s, va) = d
  BY <1>6, <1>7, <1>8, <1>11, <1>13, <1>14 DEF WalkIn
<1> QED  BY <1>3, <1>16, <1>17 DEF TranslateIn

(***************************************************************************)
(* A walk of Vmm_Map is on its track, where it does to the cut what it     *)
(* would do to tables without damage, or astray in page 0 and the frames,  *)
(* where it does nothing to the cut.                                       *)
(***************************************************************************)
CutWork(w) == WorkState(Cut(w.mem), w.pool, FALSE, w.table)

OnTrack(w, sp, lost, lev) ==
    /\ WorkOK(w, sp, lost)
    /\ DamagedOK(w.mem, w.pool, sp, lev)
    /\ w.table \in Pages \ ToSet(w.pool)

Astray(w, sp, lost, lev) ==
    /\ WorkOK(w, sp, lost)
    /\ DamagedOK(w.mem, w.pool, sp, lev)
    /\ w.table \notin Pages /\ w.pool = <<>>

\* On its track a walk is one of the cut.
LEMMA TrackClean ==
    ASSUME NEW w, NEW sp, Page0 \notin sp, NEW lost \in Nat, NEW lev, OnTrack(w, sp, lost, lev)
    PROVE  WorkClean(CutWork(w), sp, lev)
<1>1. PICK v : v = CutWork(w)
  OBVIOUS
<1>2. v.mem = Cut(w.mem) /\ v.pool = w.pool /\ v.failed = FALSE /\ v.table = w.table
  BY <1>1 DEF CutWork, WorkState
<1>3. /\ w \in Work /\ TablesOK(w.mem, w.pool, sp, Failures(w, lost))
      /\ CleanOK(Cut(w.mem), w.pool, sp, lev) /\ w.table \in Pages \ ToSet(w.pool)
  BY DEF OnTrack, WorkOK, DamagedOK
<1>4. v \in Work
  <2>1. Cut(w.mem) \in [Mem -> [Idx -> Entry]]
    BY <1>3, CutEntry DEF Work
  <2> QED  BY <1>1, <1>3, <2>1 DEF Work, CutWork, WorkState
<1>5. Failures(v, 0) = 0
  BY <1>2 DEF Failures
<1>6. TablesOK(v.mem, v.pool, sp, 0)
  BY <1>2, <1>3 DEF CleanOK
<1>7. v.table # Page0
  BY <1>2, <1>3, PoolPages
<1> QED  BY <1>1, <1>2, <1>3, <1>4, <1>5, <1>6, <1>7 DEF WorkClean, WorkOK

\* One level of a walk that is astray.
LEMMA AstrayStays ==
    ASSUME NEW w, NEW sp, Page0 \notin sp, NEW lost \in Nat, NEW lev, Astray(w, sp, lost, lev),
           NEW i \in Idx, NEW d, d = Descend(w, i)
    PROVE  Astray(d, sp, lost, lev) /\ Cut(d.mem) = Cut(w.mem)
<1>1. /\ w \in Work /\ w.pool = <<>> /\ w.table \in Mem /\ w.table \notin Pages
      /\ w.mem \in [Mem -> [Idx -> Entry]]
      /\ Sealed(w.mem, <<>>, lev) /\ CleanOK(Cut(w.mem), <<>>, sp, lev)
  BY DEF Astray, WorkOK, Work, DamagedOK
<1>2. WorkOK(d, sp, lost)
  BY DescendKeeps DEF Astray
<1>3. CASE Present(w.mem[w.table][i])
  <2>1. d = WorkState(w.mem, w.pool, w.failed, w.mem[w.table][i].addr)
    BY <1>1, <1>3, DescendFields
  <2>2. d.mem = w.mem /\ d.pool = <<>> /\ d.table = w.mem[w.table][i].addr
    BY <1>1, <2>1 DEF WorkState
  <2>3. d.table \notin Pages
    BY <1>1, <2>2 DEF Sealed
  <2> QED  BY <1>1, <1>2, <2>2, <2>3 DEF Astray, DamagedOK
<1>4. CASE ~Present(w.mem[w.table][i])
  <2>1. PICK n : n = Write(Clear(w.mem, Page0), w.table, i, TableEntry(Page0))
    OBVIOUS
  <2>2. Taken(w.pool) = Page0 /\ Rest(w.pool) = <<>>
    BY <1>1 DEF Taken, Rest
  <2>3. d = WorkState(n, <<>>, w.failed \/ w.pool = <<>>, Page0)
    BY <1>1, <1>4, <2>1, <2>2, DescendFields
  <2>4. d.mem = n /\ d.pool = <<>> /\ d.table = Page0
    BY <2>3 DEF WorkState
  <2>5. IsWritten(n, w.mem, Page0, w.table, i, TableEntry(Page0))
    BY <1>1, <2>1, WriteFields, EntryTypes DEF Tables, TableEntry
  <2>6. TableEntry(Page0).addr = Page0 /\ Absent.addr = Page0 /\ Page0 \notin Pages
    BY EntryTypes, PoolPages DEF TableEntry, Tables
  <2>7. \A q \in Pages, j \in Idx : n[q][j] = w.mem[q][j]
    BY <1>1, <2>5, <2>6 DEF IsWritten, Mem
  <2>8. \A q \in Mem \ Pages, j \in Idx : n[q][j].addr \notin Pages
    <3> SUFFICES ASSUME NEW q \in Mem \ Pages, NEW j \in Idx PROVE n[q][j].addr \notin Pages
      OBVIOUS
    <3>1. n[q][j] = TableEntry(Page0) \/ n[q][j] = Absent \/ n[q][j] = w.mem[q][j]
      BY <2>5 DEF IsWritten
    <3> QED  BY <1>1, <2>6, <3>1 DEF Sealed
  <2>9. Sealed(n, <<>>, lev)
    BY <1>1, <2>7, <2>8 DEF Sealed
  <2>10. n \in [Mem -> [Idx -> Entry]]
    BY <2>5 DEF IsWritten
  <2>11. Cut(n) = Cut(w.mem)
    <3>1. \A p \in Pages, j \in Idx :
             Cut(n)[p][j] = IF n[p][j].addr = Page0 THEN Absent ELSE n[p][j]
      BY <2>10, CutEntry
    <3>2. \A p \in Pages, j \in Idx :
             Cut(w.mem)[p][j] = IF w.mem[p][j].addr = Page0 THEN Absent ELSE w.mem[p][j]
      BY <1>1, CutEntry
    <3>3. \A p \in Pages, j \in Idx : Cut(n)[p][j] = Cut(w.mem)[p][j]
      BY <2>7, <3>1, <3>2
    <3> QED  BY <1>1, <2>10, <3>3, CutSame
  <2> QED  BY <1>1, <1>2, <2>4, <2>6, <2>9, <2>11 DEF Astray, DamagedOK
<1> QED  BY <1>3, <1>4

\* what a level does that stays on the track
Kept(w, d, sp, lost, lev, up, i) ==
    /\ OnTrack(d, sp, lost, up)
    /\ up[d.table] = lev[w.table] - 1
    /\ CutWork(d) = Descend(CutWork(w), i)

\* An entry that is present leads on, or to page 0.
LEMMA DescendThere ==
    ASSUME NEW w, NEW sp, Page0 \notin sp, NEW lost \in Nat, NEW lev, OnTrack(w, sp, lost, lev),
           Upper(lev, w.table), NEW i \in Idx, NEW d, d = Descend(w, i),
           Present(w.mem[w.table][i])
    PROVE  /\ Cut(d.mem) = Cut(w.mem)
           /\ Astray(d, sp, lost, lev) \/ Kept(w, d, sp, lost, lev, lev, i)
<1>1. /\ w \in Work /\ w.table \in Pages \ ToSet(w.pool) /\ w.table \in Mem
      /\ w.mem \in [Mem -> [Idx -> Entry]] /\ w.failed \in BOOLEAN
      /\ Sealed(w.mem, w.pool, lev) /\ CleanOK(Cut(w.mem), w.pool, sp, lev)
  BY DEF OnTrack, WorkOK, Work, DamagedOK
<1>2. WorkOK(d, sp, lost)
  BY DescendKeeps DEF OnTrack
<1>3. d = WorkState(w.mem, w.pool, w.failed, w.mem[w.table][i].addr)
  BY <1>1, DescendFields
<1>4. d.mem = w.mem /\ d.pool = w.pool /\ d.table = w.mem[w.table][i].addr
  BY <1>3 DEF WorkState
<1>5. CASE d.table = Page0
  <2>1. w.pool = <<>>
    BY <1>1, <1>4, <1>5 DEF Sealed
  <2>2. d.table \notin Pages
    BY <1>5, PoolPages
  <2> QED  BY <1>1, <1>2, <1>4, <2>1, <2>2 DEF Astray, DamagedOK
<1>6. CASE d.table # Page0
  <2>1. Cut(w.mem)[w.table][i] = w.mem[w.table][i]
    BY <1>1, <1>4, <1>6, CutEntry
  <2>2. PICK v : v = CutWork(w)
    OBVIOUS
  <2>3. v.mem = Cut(w.mem) /\ v.pool = w.pool /\ v.failed = FALSE /\ v.table = w.table
    BY <2>2 DEF CutWork, WorkState
  <2>4. v \in Work
    BY <2>2, TrackClean DEF WorkClean, WorkOK
  <2>5. Descend(v, i) = WorkState(v.mem, v.pool, v.failed, v.mem[v.table][i].addr)
    BY <2>1, <2>3, <2>4, DescendFields
  <2>6. CutWork(d) = Descend(v, i)
    BY <1>4, <2>1, <2>3, <2>5 DEF CutWork
  <2>7. d.table \in Pages /\ lev[d.table] = lev[w.table] - 1
    BY <1>1, <1>4, <2>1 DEF CleanOK, Leveled, Upper
  <2>8. d.table \notin ToSet(d.pool)
    BY <1>1, <1>4, <2>1 DEF CleanOK, TablesOK, RootsFree
  <2>9. OnTrack(d, sp, lost, lev)
    BY <1>1, <1>2, <1>4, <2>7, <2>8 DEF OnTrack, DamagedOK
  <2> QED  BY <1>4, <2>2, <2>6, <2>7, <2>9 DEF Kept
<1> QED  BY <1>5, <1>6

\* An absent one is made to lead to page 0 when the pool is empty,
LEMMA DescendZero ==
    ASSUME NEW w, NEW sp, Page0 \notin sp, NEW lost \in Nat, NEW lev, OnTrack(w, sp, lost, lev),
           Upper(lev, w.table), NEW i \in Idx, NEW d, d = Descend(w, i),
           ~Present(w.mem[w.table][i]), w.pool = <<>>
    PROVE  Cut(d.mem) = Cut(w.mem) /\ Astray(d, sp, lost, lev)
<1>1. /\ w \in Work /\ w.table \in Pages /\ w.table \in Mem
      /\ w.mem \in [Mem -> [Idx -> Entry]] /\ TablesOK(w.mem, <<>>, sp, Failures(w, lost))
      /\ Sealed(w.mem, <<>>, lev) /\ CleanOK(Cut(w.mem), <<>>, sp, lev)
  BY DEF OnTrack, WorkOK, Work, DamagedOK
<1>2. WorkOK(d, sp, lost)
  BY DescendKeeps DEF OnTrack
<1>3. PICK n : n = Write(Clear(w.mem, Page0), w.table, i, TableEntry(Page0))
  OBVIOUS
<1>4. Taken(w.pool) = Page0 /\ Rest(w.pool) = <<>>
  BY DEF Taken, Rest
<1>5. d = WorkState(n, <<>>, w.failed \/ w.pool = <<>>, Page0)
  BY <1>1, <1>3, <1>4, DescendFields
<1>6. d.mem = n /\ d.pool = <<>> /\ d.table = Page0
  BY <1>5 DEF WorkState
<1>7. IsWritten(n, w.mem, Page0, w.table, i, TableEntry(Page0))
  BY <1>1, <1>3, WriteFields, EntryTypes DEF Tables, TableEntry
<1>8. TableEntry(Page0).addr = Page0 /\ Absent.addr = Page0 /\ Page0 \notin Pages
  BY EntryTypes, PoolPages DEF TableEntry, Tables
<1>9. \A q \in Pages, j \in Idx : ~(q = w.table /\ j = i) => n[q][j] = w.mem[q][j]
  BY <1>1, <1>7, <1>8 DEF IsWritten, Mem
<1>10. n[w.table][i] = TableEntry(Page0) /\ n \in [Mem -> [Idx -> Entry]]
  BY <1>7 DEF IsWritten
<1>11. w.mem[w.table][i] = Absent
  BY <1>1 DEF TablesOK, EntriesOK
<1>12. Cut(n) = Cut(w.mem)
  <2> SUFFICES ASSUME NEW q \in Pages, NEW j \in Idx PROVE Cut(n)[q][j] = Cut(w.mem)[q][j]
    BY <1>1, <1>10, CutSame
  <2>1. Cut(n)[q][j] = IF n[q][j].addr = Page0 THEN Absent ELSE n[q][j]
    BY <1>10, CutEntry
  <2>2. Cut(w.mem)[q][j] = IF w.mem[q][j].addr = Page0 THEN Absent ELSE w.mem[q][j]
    BY <1>1, CutEntry
  <2>3. CASE q = w.table /\ j = i
    BY <1>8, <1>10, <1>11, <2>1, <2>2, <2>3
  <2>4. CASE ~(q = w.table /\ j = i)
    BY <1>9, <2>1, <2>2, <2>4
  <2> QED  BY <2>3, <2>4
<1>13. Sealed(n, <<>>, lev)
  <2>1. ASSUME NEW q \in Mem \ Pages, NEW j \in Idx PROVE n[q][j].addr \notin Pages
    <3>1. n[q][j] = Absent \/ n[q][j] = w.mem[q][j]
      BY <1>1, <1>7, <2>1 DEF IsWritten
    <3> QED  BY <1>1, <1>8, <3>1 DEF Sealed
  <2>2. ASSUME NEW q \in Pages \ ToSet(<<>>), NEW j \in Idx, Present(n[q][j]), n[q][j].addr = Page0
        PROVE  lev[q] # 1
    <3>1. CASE q = w.table
      BY <3>1 DEF Upper
    <3>2. CASE q # w.table
      BY <1>1, <1>9, <2>2, <3>2 DEF Sealed
    <3> QED  BY <3>1, <3>2
  <2> QED  BY <2>1, <2>2 DEF Sealed
<1> QED  BY <1>1, <1>2, <1>6, <1>8, <1>12, <1>13 DEF Astray, DamagedOK

\* to a page of the pool otherwise.
LEMMA DescendNew ==
    ASSUME NEW w, NEW sp, Page0 \notin sp, NEW lost \in Nat, NEW lev, OnTrack(w, sp, lost, lev),
           Upper(lev, w.table), NEW i \in Idx, NEW d, d = Descend(w, i),
           ~Present(w.mem[w.table][i]), w.pool # <<>>
    PROVE  \E up \in Levels : SameMaps(Cut(w.mem), Cut(d.mem), sp) /\ Kept(w, d, sp, lost, lev, up, i)
<1>1. PICK m : m = w.mem
  OBVIOUS
<1>2. PICK t : t = w.table
  OBVIOUS
<1>3. PICK p : p = Taken(w.pool)
  OBVIOUS
<1>4. /\ w \in Work /\ t \in Pages \ ToSet(w.pool) /\ t \in Mem
      /\ m \in [Mem -> [Idx -> Entry]] /\ TablesOK(m, w.pool, sp, Failures(w, lost))
      /\ Sealed(m, w.pool, lev) /\ CleanOK(Cut(m), w.pool, sp, lev)
      /\ Failures(w, lost) \in Nat
  BY <1>1, <1>2 DEF OnTrack, WorkOK, Work, DamagedOK, Failures
<1>5. p \in Tables /\ p # Page0 /\ ToSet(Rest(w.pool)) = ToSet(w.pool) \ {p}
  BY <1>3, <1>4, FreshPage
<1>6. p \in Pages /\ p \in Mem /\ Page0 \notin Pages
  BY <1>5, PoolPages DEF Tables, Mem
<1>7. WorkOK(d, sp, lost)
  BY DescendKeeps DEF OnTrack
<1>8. PICK n : n = Write(Clear(m, p), t, i, TableEntry(p))
  OBVIOUS
<1>9. d.mem = n /\ d.pool = Rest(w.pool) /\ d.table = p
  <2>1. d = WorkState(n, Rest(w.pool), w.failed \/ w.pool = <<>>, p)
    BY <1>1, <1>2, <1>3, <1>4, <1>8, DescendFields
  <2> QED  BY <2>1 DEF WorkState
<1>10. TableEntry(p) \in Entry /\ TableEntry(p).addr = p /\ Absent.addr = Page0 /\ ~Present(Absent)
  BY <1>5, EntryTypes DEF TableEntry
<1>11. IsWritten(n, m, p, t, i, TableEntry(p))
  BY <1>4, <1>5, <1>8, <1>10, WriteFields
<1>12. PICK v : v = CutWork(w)
  OBVIOUS
<1>13. v.mem = Cut(m) /\ v.pool = w.pool /\ v.failed = FALSE /\ v.table = t
  BY <1>1, <1>2, <1>12 DEF CutWork, WorkState
<1>14. WorkClean(v, sp, lev) /\ v \in Work
  BY <1>12, TrackClean DEF WorkClean, WorkOK
<1>15. PICK c : c = Descend(v, i)
  OBVIOUS
<1>16. Cut(m) \in [Mem -> [Idx -> Entry]] /\ Cut(m)[t][i] = Absent
  <2>1. Cut(m) \in [Mem -> [Idx -> Entry]]
    BY <1>4, CutEntry
  <2>2. m[t][i] = Absent
    BY <1>1, <1>2, <1>4 DEF TablesOK, EntriesOK
  <2>3. Cut(m)[t][i] = IF m[t][i].addr = Page0 THEN Absent ELSE m[t][i]
    BY <1>4, CutEntry
  <2> QED  BY <2>1, <2>2, <2>3
<1>17. PICK k : k = Write(Clear(Cut(m), p), t, i, TableEntry(p))
  OBVIOUS
<1>18. c = WorkState(k, Rest(w.pool), FALSE, p)
  <2>1. c = WorkState(k, Rest(v.pool), v.failed \/ v.pool = <<>>, p)
    BY <1>3, <1>10, <1>13, <1>14, <1>15, <1>16, <1>17, DescendFields
  <2>2. (v.failed \/ v.pool = <<>>) = FALSE
    BY <1>13
  <2> QED  BY <1>13, <2>1, <2>2
<1>19. IsWritten(k, Cut(m), p, t, i, TableEntry(p))
  BY <1>4, <1>5, <1>10, <1>16, <1>17, WriteFields
<1>20. n \in [Mem -> [Idx -> Entry]] /\ k \in [Mem -> [Idx -> Entry]]
  BY <1>11, <1>19 DEF IsWritten
<1>21. ASSUME NEW q \in Mem, NEW j \in Idx PROVE Cut(n)[q][j] = k[q][j]
  <2>1. /\ q \in Pages => Cut(n)[q][j] = IF n[q][j].addr = Page0 THEN Absent ELSE n[q][j]
        /\ q \notin Pages => Cut(n)[q][j] = Absent
    BY <1>20, CutEntry
  <2>2. /\ q \in Pages => Cut(m)[q][j] = IF m[q][j].addr = Page0 THEN Absent ELSE m[q][j]
        /\ q \notin Pages => Cut(m)[q][j] = Absent
    BY <1>4, CutEntry
  <2>3. CASE q = t /\ j = i
    <3>1. n[q][j] = TableEntry(p) /\ k[q][j] = TableEntry(p)
      BY <1>11, <1>19, <2>3 DEF IsWritten
    <3> QED  BY <1>4, <1>5, <1>10, <2>1, <2>3, <3>1
  <2>4. CASE ~(q = t /\ j = i) /\ q = p
    <3>1. n[q][j] = Absent /\ k[q][j] = Absent
      BY <1>11, <1>19, <2>4 DEF IsWritten
    <3> QED  BY <1>6, <2>1, <2>4, <3>1
  <2>5. CASE ~(q = t /\ j = i) /\ q # p
    <3>1. n[q][j] = m[q][j] /\ k[q][j] = Cut(m)[q][j]
      BY <1>11, <1>19, <2>5 DEF IsWritten
    <3> QED  BY <2>1, <2>2, <3>1
  <2> QED  BY <2>3, <2>4, <2>5
<1>22. Cut(n) = k
  <2>1. Cut(n) \in [Mem -> [Idx -> Entry]]
    BY <1>20, CutEntry
  <2>2. ASSUME NEW q \in Mem PROVE Cut(n)[q] = k[q]
    <3>1. Cut(n)[q] \in [Idx -> Entry] /\ k[q] \in [Idx -> Entry]
      BY <1>20, <2>1
    <3> QED  BY <1>21, <3>1
  <2> QED  BY <1>20, <2>1, <2>2
<1>23. CutWork(d) = c
  BY <1>9, <1>18, <1>22 DEF CutWork
<1>24. c.mem = k /\ c.pool = Rest(w.pool) /\ ~c.failed /\ c.table = p
  BY <1>18 DEF WorkState
<1>25. PICK up \in Levels :
         /\ WorkClean(c, sp, up) /\ up[c.table] = lev[v.table] - 1
         /\ SameMaps(v.mem, c.mem, sp)
  <2>1. Upper(lev, v.table)
    BY <1>2, <1>13
  <2> QED  BY <1>14, <1>15, <1>24, <2>1, DescendClean
<1>26. Sealed(n, Rest(w.pool), up)
  <2>1. ASSUME NEW q \in Mem \ Pages, NEW j \in Idx PROVE n[q][j].addr \notin Pages
    <3>1. n[q][j] = m[q][j]
      BY <1>4, <1>6, <1>11, <2>1 DEF IsWritten
    <3> QED  BY <1>4, <3>1 DEF Sealed
  <2>2. ASSUME NEW q \in Pages \ ToSet(Rest(w.pool)), NEW j \in Idx,
               Present(n[q][j]), n[q][j].addr = Page0
        PROVE  FALSE
    <3>1. ~(q = t /\ j = i)
      BY <1>5, <1>10, <1>11, <2>2 DEF IsWritten
    <3>2. q # p
      BY <1>10, <1>11, <2>2, <3>1 DEF IsWritten
    <3>3. n[q][j] = m[q][j] /\ q \notin ToSet(w.pool)
      BY <1>5, <1>11, <2>2, <3>1, <3>2 DEF IsWritten, Mem
    <3> QED  BY <1>4, <2>2, <3>3 DEF Sealed
  <2> QED  BY <2>1, <2>2 DEF Sealed
<1>27. OnTrack(d, sp, lost, up)
  <2>1. CleanOK(Cut(d.mem), d.pool, sp, up)
    BY <1>9, <1>22, <1>24, <1>25 DEF WorkClean
  <2>2. d.table \in Pages \ ToSet(d.pool)
    BY <1>5, <1>6, <1>9
  <2> QED  BY <1>7, <1>9, <1>26, <2>1, <2>2 DEF OnTrack, DamagedOK
<1>28. up[d.table] = lev[w.table] - 1
  BY <1>2, <1>9, <1>13, <1>24, <1>25
<1>29. SameMaps(Cut(w.mem), Cut(d.mem), sp)
  BY <1>1, <1>9, <1>13, <1>22, <1>24, <1>25
<1> QED  BY <1>12, <1>15, <1>23, <1>27, <1>28, <1>29 DEF Kept

\* One level of a walk that is on its track.
LEMMA DescendDamaged ==
    ASSUME NEW w, NEW sp, Page0 \notin sp, NEW lost \in Nat, NEW lev \in Levels,
           OnTrack(w, sp, lost, lev), Upper(lev, w.table), NEW i \in Idx, NEW d, d = Descend(w, i)
    PROVE  \E up \in Levels :
              /\ SameMaps(Cut(w.mem), Cut(d.mem), sp)
              /\ Astray(d, sp, lost, up) \/ Kept(w, d, sp, lost, lev, up, i)
<1>1. CASE Present(w.mem[w.table][i])
  <2>1. /\ Cut(d.mem) = Cut(w.mem)
        /\ Astray(d, sp, lost, lev) \/ Kept(w, d, sp, lost, lev, lev, i)
    BY <1>1, DescendThere
  <2> QED  BY <2>1 DEF SameMaps
<1>2. CASE ~Present(w.mem[w.table][i]) /\ w.pool = <<>>
  <2>1. Cut(d.mem) = Cut(w.mem) /\ Astray(d, sp, lost, lev)
    BY <1>2, DescendZero
  <2> QED  BY <2>1 DEF SameMaps
<1>3. CASE ~Present(w.mem[w.table][i]) /\ w.pool # <<>>
  BY <1>3, DescendNew
<1> QED  BY <1>1, <1>2, <1>3

\* The three levels: the walk has gone astray, or was on its track throughout.
LEMMA WalkDamaged ==
    ASSUME NEW w, NEW sp, Page0 \notin sp, NEW lost \in Nat, NEW lev \in Levels,
           OnTrack(w, sp, lost, lev), w.table \in sp,
           NEW i \in Idx, NEW j \in Idx, NEW k \in Idx,
           NEW d, d = Descend(Descend(Descend(w, i), j), k)
    PROVE  \E up \in Levels :
              /\ SameMaps(Cut(w.mem), Cut(d.mem), sp)
              /\ \/ Astray(d, sp, lost, up)
                 \/ /\ OnTrack(d, sp, lost, up)
                    /\ CutWork(d) = Descend(Descend(Descend(CutWork(w), i), j), k)
<1>1. PICK w1 : w1 = Descend(w, i)
  OBVIOUS
<1>2. PICK w2 : w2 = Descend(w1, j)
  OBVIOUS
<1>3. d = Descend(w2, k)
  BY <1>1, <1>2
<1>4. lev[w.table] = 4 /\ Upper(lev, w.table)
  BY DEF OnTrack, DamagedOK, CleanOK, Leveled, Upper
<1>5. PICK lev1 \in Levels :
         /\ SameMaps(Cut(w.mem), Cut(w1.mem), sp)
         /\ Astray(w1, sp, lost, lev1) \/ Kept(w, w1, sp, lost, lev, lev1, i)
  BY <1>1, <1>4, DescendDamaged
<1>6. PICK lev2 \in Levels :
         /\ SameMaps(Cut(w.mem), Cut(w2.mem), sp)
         /\ \/ Astray(w2, sp, lost, lev2)
            \/ Kept(w, w1, sp, lost, lev, lev1, i) /\ Kept(w1, w2, sp, lost, lev1, lev2, j)
  <2>1. CASE Astray(w1, sp, lost, lev1)
    <3>1. Astray(w2, sp, lost, lev1) /\ Cut(w2.mem) = Cut(w1.mem)
      BY <1>2, <2>1, AstrayStays
    <3> QED  BY <1>5, <3>1
  <2>2. CASE Kept(w, w1, sp, lost, lev, lev1, i)
    <3>1. OnTrack(w1, sp, lost, lev1) /\ Upper(lev1, w1.table)
      BY <1>4, <2>2 DEF Kept, OnTrack, Upper
    <3>2. PICK up \in Levels :
             /\ SameMaps(Cut(w1.mem), Cut(w2.mem), sp)
             /\ Astray(w2, sp, lost, up) \/ Kept(w1, w2, sp, lost, lev1, up, j)
      BY <1>2, <3>1, DescendDamaged
    <3>3. SameMaps(Cut(w.mem), Cut(w2.mem), sp)
      BY <1>5, <3>2 DEF SameMaps
    <3> QED  BY <2>2, <3>2, <3>3
  <2> QED  BY <1>5, <2>1, <2>2
<1>7. CASE Astray(w2, sp, lost, lev2)
  <2>1. Astray(d, sp, lost, lev2) /\ Cut(d.mem) = Cut(w2.mem)
    BY <1>3, <1>7, AstrayStays
  <2> QED  BY <1>6, <2>1
<1>8. CASE Kept(w, w1, sp, lost, lev, lev1, i) /\ Kept(w1, w2, sp, lost, lev1, lev2, j)
  <2>1. OnTrack(w2, sp, lost, lev2) /\ Upper(lev2, w2.table)
    BY <1>4, <1>8 DEF Kept, OnTrack, Upper
  <2>2. PICK up \in Levels :
           /\ SameMaps(Cut(w2.mem), Cut(d.mem), sp)
           /\ Astray(d, sp, lost, up) \/ Kept(w2, d, sp, lost, lev2, up, k)
    BY <1>3, <2>1, DescendDamaged
  <2>3. SameMaps(Cut(w.mem), Cut(d.mem), sp)
    BY <1>6, <2>2 DEF SameMaps
  <2>4. Kept(w2, d, sp, lost, lev2, up, k)
           => CutWork(d) = Descend(Descend(Descend(CutWork(w), i), j), k)
    BY <1>8 DEF Kept
  <2> QED  BY <2>2, <2>3, <2>4 DEF Kept
<1> QED  BY <1>6, <1>7, <1>8

\* A leaf that is written outside of the pool's pages does not show in the cut.
LEMMA LeafAstray ==
    ASSUME NEW m \in [Mem -> [Idx -> Entry]], NEW n \in [Mem -> [Idx -> Entry]],
           NEW t, t \notin Pages, NEW i, OthersSame(m, n, t, i)
    PROVE  Cut(n) = Cut(m)
<1> SUFFICES ASSUME NEW q \in Pages, NEW j \in Idx PROVE Cut(n)[q][j] = Cut(m)[q][j]
  BY CutSame
<1>1. n[q][j] = m[q][j]
  BY DEF OthersSame, Mem
<1>2. Cut(n)[q][j] = IF n[q][j].addr = Page0 THEN Absent ELSE n[q][j]
  BY CutEntry
<1>3. Cut(m)[q][j] = IF m[q][j].addr = Page0 THEN Absent ELSE m[q][j]
  BY CutEntry
<1> QED  BY <1>1, <1>2, <1>3

\* One that is written to a table shows there.
LEMMA LeafOnTrack ==
    ASSUME NEW m \in [Mem -> [Idx -> Entry]], NEW n \in [Mem -> [Idx -> Entry]],
           NEW t \in Pages, NEW i \in Idx, NEW leaf, Leaf(leaf),
           n[t][i] = leaf, OthersSame(m, n, t, i)
    PROVE  Cut(n)[t][i] = leaf /\ OthersSame(Cut(m), Cut(n), t, i)
<1>1. \A q \in Pages, j \in Idx : Cut(n)[q][j] = IF n[q][j].addr = Page0 THEN Absent ELSE n[q][j]
  BY CutEntry
<1>2. \A q \in Pages, j \in Idx : Cut(m)[q][j] = IF m[q][j].addr = Page0 THEN Absent ELSE m[q][j]
  BY CutEntry
<1>3. \A q \in Mem \ Pages, j \in Idx : Cut(n)[q][j] = Absent
  BY CutEntry
<1>4. \A q \in Mem \ Pages, j \in Idx : Cut(m)[q][j] = Absent
  BY CutEntry
<1>5. leaf.addr = Page0 => leaf = Absent
  BY VmmAssumption DEF Leaf, Page0
<1>6. Cut(n)[t][i] = leaf
  BY <1>1, <1>5
<1>7. ASSUME NEW q \in Mem, NEW j \in Idx, ~(q = t /\ j = i) PROVE Cut(n)[q][j] = Cut(m)[q][j]
  <2>1. n[q][j] = m[q][j]
    BY <1>7 DEF OthersSame
  <2>2. CASE q \in Pages
    BY <1>1, <1>2, <2>1, <2>2
  <2>3. CASE q \notin Pages
    BY <1>3, <1>4, <2>3
  <2> QED  BY <2>2, <2>3
<1> QED  BY <1>6, <1>7 DEF OthersSame

\* A leaf is no way back, and none to page 0.
LEMMA LeafSealed ==
    ASSUME NEW m, NEW n, NEW t \in Mem, NEW i \in Idx, NEW leaf, Leaf(leaf),
           NEW pl, NEW lev, Sealed(m, pl, lev), n[t][i] = leaf, OthersSame(m, n, t, i)
    PROVE  Sealed(n, pl, lev)
<1>1. leaf.addr \notin Pages /\ ~(Present(leaf) /\ leaf.addr = Page0)
  <2>1. leaf.addr \in Frames \/ (leaf.addr = Page0 /\ ~Present(leaf))
    BY EntryTypes DEF Leaf
  <2> QED  BY <2>1, VmmAssumption, PoolPages DEF Page0
<1>2. \A q \in Mem, j \in Idx : n[q][j] = leaf \/ n[q][j] = m[q][j]
  BY DEF OthersSame
<1> QED  BY <1>1, <1>2 DEF Sealed, Mem

\* no change but of va, in s or in those that share the kernel's half
Confined(m, n, sp, s, va) ==
    \A r \in sp, v \in VAddrs :
        \/ TranslateIn(n, r, v) = TranslateIn(m, r, v)
        \/ v = va /\ (r = s \/ IsKernelHalf(va))

\* what a call does to the cut
DamagedStep(s, va) ==
    /\ \E up \in Levels : DamagedOK(mem', pool', spaces', up)
    /\ Confined(Cut(mem), Cut(mem'), spaces, s, va)

\* Vmm_Map writes a leaf of the cut, or went astray.
LEMMA MapDamaged ==
    ASSUME IInv, Page0 \notin spaces, NEW s \in spaces, NEW va \in VAddrs,
           NEW frame \in Frames, NEW flags \in SUBSET AllFlags, "P" \in flags, Running,
           Map(s, va, frame, flags), spaces' = spaces,
           NEW lev \in Levels, DamagedOK(mem, pool, spaces, lev)
    PROVE  DamagedStep(s, va)
<1>1. va[1] \in Idx /\ va[2] \in Idx /\ va[3] \in Idx /\ va[4] \in Idx
  BY BootMapTypes
<1>2. PICK w : w = Now(s)
  OBVIOUS
<1>3. PICK d : d = Descend(Descend(Descend(w, va[1]), va[2]), va[3])
  OBVIOUS
<1>4. PICK leaf : leaf = [addr |-> frame, flags |-> flags]
  OBVIOUS
<1>5. mem' = Write(d.mem, d.table, va[4], leaf) /\ pool' = d.pool
  BY <1>2, <1>3, <1>4 DEF Map, Write
<1>6. /\ w = WorkState(mem, pool, FALSE, s) /\ w.mem = mem /\ w.table = s
      /\ w.pool = pool /\ ~w.failed
  BY <1>2 DEF Now, WorkState
<1>7. s \in Pages /\ s \notin ToSet(pool) /\ Pages \subseteq Mem /\ failures \in Nat
  BY VmmAssumption DEF DamagedOK, CleanOK, Leveled, TablesOK, SpacesOK, Mem, IInv
<1>8. OnTrack(w, spaces, failures, lev)
  <2>1. w \in Work
    BY <1>6, <1>7 DEF Work, WorkState, IInv, TablesOK, PoolOK
  <2>2. Failures(w, failures) = failures
    BY <1>6, <1>7 DEF Failures
  <2>3. s # Page0
    BY <1>7, PoolPages
  <2> QED  BY <1>6, <1>7, <2>1, <2>2, <2>3 DEF OnTrack, WorkOK, IInv
<1>9. PICK up \in Levels :
         /\ SameMaps(Cut(mem), Cut(d.mem), spaces)
         /\ \/ Astray(d, spaces, failures, up)
            \/ /\ OnTrack(d, spaces, failures, up)
               /\ CutWork(d) = Descend(Descend(Descend(CutWork(w), va[1]), va[2]), va[3])
  <2>1. w.table \in spaces
    BY <1>6
  <2>2. \E up \in Levels :
           /\ SameMaps(Cut(w.mem), Cut(d.mem), spaces)
           /\ \/ Astray(d, spaces, failures, up)
              \/ /\ OnTrack(d, spaces, failures, up)
                 /\ CutWork(d) = Descend(Descend(Descend(CutWork(w), va[1]), va[2]), va[3])
    BY <1>1, <1>3, <1>7, <1>8, <2>1, WalkDamaged
  <2> QED  BY <1>6, <2>2
<1>10. Leaf(leaf)
  BY <1>4, EntryTypes DEF Leaf
<1>11. /\ d.table \in Mem /\ d.mem \in [Mem -> [Idx -> Entry]]
       /\ TablesOK(d.mem, d.pool, spaces, Failures(d, failures))
       /\ Failures(d, failures) \in Nat
  BY <1>7, <1>9 DEF Astray, OnTrack, WorkOK, Work, Failures
<1>12. PICK n : n = Write(d.mem, d.table, va[4], leaf)
  OBVIOUS
<1>13. /\ TablesOK(n, d.pool, spaces, Failures(d, failures)) /\ n[d.table][va[4]] = leaf
       /\ OthersSame(d.mem, n, d.table, va[4]) /\ n \in [Mem -> [Idx -> Entry]]
  BY <1>1, <1>10, <1>11, <1>12, WriteLeaf DEF TablesOK
<1>14. Sealed(n, d.pool, up)
  BY <1>1, <1>9, <1>10, <1>11, <1>13, LeafSealed DEF Astray, OnTrack, DamagedOK
<1>15. CASE Astray(d, spaces, failures, up)
  <2>1. Cut(n) = Cut(d.mem)
    BY <1>11, <1>13, <1>15, LeafAstray DEF Astray
  <2>2. DamagedOK(n, d.pool, spaces, up)
    BY <1>14, <1>15, <2>1 DEF Astray, DamagedOK
  <2>3. Confined(Cut(mem), Cut(n), spaces, s, va)
    BY <1>9, <2>1 DEF Confined, SameMaps
  <2> QED  BY <1>5, <1>12, <2>2, <2>3 DEF DamagedStep
<1>16. CASE /\ OnTrack(d, spaces, failures, up)
            /\ CutWork(d) = Descend(Descend(Descend(CutWork(w), va[1]), va[2]), va[3])
  <2>1. PICK v : v = CutWork(w)
    OBVIOUS
  <2>2. PICK c : c = CutWork(d)
    OBVIOUS
  <2>3. /\ v.table = s /\ c.mem = Cut(d.mem) /\ c.table = d.table /\ c.pool = d.pool
        /\ ~c.failed
    BY <1>6, <2>1, <2>2 DEF CutWork, WorkState
  <2>4. WorkClean(v, spaces, lev)
    BY <1>7, <1>8, <2>1, TrackClean
  <2>5. LookupIn(c.mem, LookupIn(c.mem, LookupIn(c.mem, v.table, va[1]), va[2]), va[3]) = c.table
    BY <1>1, <1>16, <2>1, <2>2, <2>3, <2>4, WalkClean
  <2>6. /\ d.table = WalkIn(Cut(d.mem), s, va) /\ d.table # None
        /\ CleanOK(Cut(d.mem), d.pool, spaces, up) /\ d.table \in Pages
    BY <1>16, <2>3, <2>5, PoolPages DEF WalkIn, OnTrack, DamagedOK
  <2>7. TablesOK(Cut(n), d.pool, spaces, 0)
    BY <1>13, CutTables
  <2>8. Cut(n)[d.table][va[4]] = leaf /\ OthersSame(Cut(d.mem), Cut(n), d.table, va[4])
    <3>1. PICK m : m = d.mem
      OBVIOUS
    <3>2. PICK t \in Pages : t = d.table
      BY <2>6
    <3>3. /\ m \in [Mem -> [Idx -> Entry]] /\ n[t][va[4]] = leaf
          /\ OthersSame(m, n, t, va[4]) /\ n \in [Mem -> [Idx -> Entry]]
      BY <1>11, <1>13, <3>1, <3>2
    <3>4. Cut(n)[t][va[4]] = leaf /\ OthersSame(Cut(m), Cut(n), t, va[4])
      BY <1>1, <1>10, <3>3, LeafOnTrack
    <3> QED  BY <3>1, <3>2, <3>4
  <2>9. CleanOK(Cut(n), d.pool, spaces, up) /\ ChangedAt(Cut(d.mem), Cut(n), spaces, s, va, leaf)
    BY <1>10, <2>6, <2>7, <2>8, LeafWritten
  <2>10. Confined(Cut(mem), Cut(n), spaces, s, va)
    BY <1>9, <2>9 DEF Confined, SameMaps, ChangedAt
  <2> QED  BY <1>5, <1>12, <1>14, <2>9, <2>10 DEF DamagedStep, DamagedOK
<1> QED  BY <1>9, <1>15, <1>16

\* Where Vmm_Unmap is, x, if a walk of the cut is at y: there too, or astray.
FollowsCut(x, y) ==
    (y # None /\ x = y) \/ (y = None /\ x \in Mem \ Pages)

\* A level of Vmm_Unmap follows the walk, or goes astray.
LEMMA FollowDamaged ==
    ASSUME IInv, NEW lev, DamagedOK(mem, pool, spaces, lev),
           NEW y, y = None \/ y \in Pages, NEW x, FollowsCut(x, y), NEW i \in Idx
    PROVE  FollowsCut(Follow(x, i), LookupIn(Cut(mem), y, i))
<1>1. mem \in [Mem -> [Idx -> Entry]] /\ Pages \subseteq Mem /\ Page0 \in Mem \ Pages
  BY PoolPages DEF IInv, TablesOK, Mem
<1>2. CASE y = None
  <2>1. LookupIn(Cut(mem), y, i) = None
    BY <1>2 DEF LookupIn
  <2>2. x \in Mem \ Pages /\ Follow(x, i) = mem[x][i].addr
    BY <1>2 DEF FollowsCut, Follow
  <2>3. mem[x][i].addr \in Mem
    BY <1>1, <2>2 DEF Entry, Mem
  <2>4. mem[x][i].addr \notin Pages
    BY <2>2 DEF DamagedOK, Sealed
  <2> QED  BY <2>1, <2>2, <2>3, <2>4 DEF FollowsCut
<1>3. CASE y # None
  <2>1. x = y /\ x \in Pages
    BY <1>3, PoolPages DEF FollowsCut
  <2>2. Follow(x, i) = mem[y][i].addr
    BY <2>1 DEF Follow
  <2>3. Cut(mem)[y][i] = IF mem[y][i].addr = Page0 THEN Absent ELSE mem[y][i]
    BY <1>1, <2>1, CutEntry
  <2>4. mem[y][i] = Absent \/ Present(mem[y][i])
    BY <1>1, <2>1 DEF IInv, TablesOK, EntriesOK
  <2>5. CASE mem[y][i].addr = Page0
    BY <1>1, <2>2, <2>3, <2>5, EntryTypes DEF LookupIn, FollowsCut
  <2>6. CASE mem[y][i].addr # Page0
    <3>1. Cut(mem)[y][i] = mem[y][i] /\ Present(mem[y][i])
      BY <2>3, <2>4, <2>6, EntryTypes
    <3>2. LookupIn(Cut(mem), y, i) = mem[y][i].addr
      BY <1>3, <3>1 DEF LookupIn
    <3>3. mem[y][i].addr # None
      BY <1>1, <2>1, PoolPages DEF Entry
    <3> QED  BY <2>2, <3>2, <3>3 DEF FollowsCut
  <2> QED  BY <2>5, <2>6
<1> QED  BY <1>2, <1>3

\* Vmm_Unmap clears an entry of the cut, or goes astray.
LEMMA UnmapDamaged ==
    ASSUME IInv, IInv', Page0 \notin spaces, NEW s \in spaces, NEW va \in VAddrs,
           Vmm_Unmap(s, va), strays' = 0, NEW lev \in Levels, DamagedOK(mem, pool, spaces, lev)
    PROVE  DamagedStep(s, va)
<1>1. va[1] \in Idx /\ va[2] \in Idx /\ va[3] \in Idx /\ va[4] \in Idx
  BY BootMapTypes
<1>2. PICK m : m = Cut(mem) /\ CleanOK(m, pool, spaces, lev)
  BY DEF DamagedOK
<1>3. PICK a : a = LookupIn(m, s, va[1])
  OBVIOUS
<1>4. PICK b : b = LookupIn(m, a, va[2])
  OBVIOUS
<1>5. PICK c : c = LookupIn(m, b, va[3])
  OBVIOUS
<1>6. /\ At(lev, 4, s) /\ At(lev, 3, a) /\ At(lev, 2, b) /\ At(lev, 1, c)
      /\ s \in Pages
  BY <1>2, <1>3, <1>4, <1>5, CleanWalk DEF CleanOK, Leveled
<1>7. PICK t1 : t1 = Follow(s, va[1])
  OBVIOUS
<1>8. PICK t2 : t2 = Follow(t1, va[2])
  OBVIOUS
<1>9. PICK w : w = Follow(t2, va[3])
  OBVIOUS
<1>10. FollowsCut(w, c)
  <2>1. FollowsCut(s, s)
    BY <1>6, PoolPages DEF FollowsCut
  <2>2. FollowsCut(t1, a)
    BY <1>1, <1>2, <1>3, <1>6, <1>7, <2>1, FollowDamaged
  <2>3. a = None \/ a \in Pages
    BY <1>6 DEF At
  <2>4. FollowsCut(t2, b)
    BY <1>1, <1>2, <1>4, <1>8, <2>2, <2>3, FollowDamaged
  <2>5. b = None \/ b \in Pages
    BY <1>6 DEF At
  <2> QED  BY <1>1, <1>2, <1>5, <1>9, <2>4, <2>5, FollowDamaged
<1>11. Unmapped(t1, t2, w, va[4]) /\ UNCHANGED <<pool, spaces, failures>>
  <2>1. Unmapped(t1, t2, w, va[4])
    BY <1>7, <1>8, <1>9, UnmapWrites
  <2> QED  BY <2>1 DEF Unmapped
<1>12. PICK t \in Mem : mem' = Write(mem, t, va[4], Absent) /\ (t = w \/ mem' = mem)
  BY <1>11 DEF Unmapped
<1>13. PICK n : n = mem'
  OBVIOUS
<1>14. /\ TablesOK(n, pool, spaces, failures) /\ TablesOK(mem, pool, spaces, failures)
       /\ n \in [Mem -> [Idx -> Entry]] /\ mem \in [Mem -> [Idx -> Entry]] /\ failures \in Nat
  BY <1>11, <1>13, VmmAssumption DEF IInv, TablesOK
<1>15. n[t][va[4]] = Absent /\ OthersSame(mem, n, t, va[4])
  <2>1. n = Write(mem, t, va[4], Absent)
    BY <1>12, <1>13
  <2>2. Leaf(Absent)
    BY DEF Leaf
  <2> QED  BY <1>1, <1>14, <2>1, <2>2, WriteLeaf
<1>16. Sealed(n, pool, lev)
  BY <1>1, <1>15, LeafSealed DEF Leaf, DamagedOK
<1>17. CASE t = w /\ c # None
  <2>1. t = c /\ t \in Pages /\ t = WalkIn(m, s, va)
    BY <1>3, <1>4, <1>5, <1>6, <1>10, <1>17 DEF FollowsCut, At, WalkIn
  <2>2. Cut(n)[t][va[4]] = Absent /\ OthersSame(m, Cut(n), t, va[4])
    <3>1. Leaf(Absent)
      BY DEF Leaf
    <3>2. Cut(n)[t][va[4]] = Absent /\ OthersSame(Cut(mem), Cut(n), t, va[4])
      <4>1. PICK m0 \in [Mem -> [Idx -> Entry]], n0 \in [Mem -> [Idx -> Entry]] :
               m0 = mem /\ n0 = n
        BY <1>14
      <4>2. PICK u \in Pages, i \in Idx : u = t /\ i = va[4]
        BY <1>1, <2>1
      <4>3. PICK e : e = Absent
        OBVIOUS
      <4>4. Leaf(e) /\ n0[u][i] = e /\ OthersSame(m0, n0, u, i)
        BY <1>15, <3>1, <4>1, <4>2, <4>3
      <4>5. Cut(n0)[u][i] = e /\ OthersSame(Cut(m0), Cut(n0), u, i)
        BY <4>4, LeafOnTrack, SMTT(60)
      <4> QED  BY <4>1, <4>2, <4>3, <4>5
    <3> QED  BY <1>2, <3>2
  <2>3. TablesOK(Cut(n), pool, spaces, 0)
    BY <1>14, CutTables
  <2>4. CleanOK(Cut(n), pool, spaces, lev) /\ ChangedAt(m, Cut(n), spaces, s, va, Absent)
    BY <1>2, <1>17, <2>1, <2>2, <2>3, LeafWritten DEF Leaf
  <2>5. Confined(Cut(mem), Cut(n), spaces, s, va)
    BY <1>2, <2>4 DEF Confined, ChangedAt
  <2> QED  BY <1>11, <1>13, <1>16, <2>4, <2>5 DEF DamagedStep, DamagedOK
<1>18. CASE t = w /\ c = None
  <2>1. t \notin Pages
    BY <1>10, <1>18 DEF FollowsCut
  <2>2. Cut(n) = Cut(mem)
    BY <1>14, <1>15, <2>1, LeafAstray
  <2>3. Confined(Cut(mem), Cut(n), spaces, s, va)
    BY <2>2 DEF Confined
  <2> QED  BY <1>11, <1>13, <1>16, <2>2, <2>3 DEF DamagedStep, DamagedOK
<1>19. CASE n = mem
  <2>1. Confined(Cut(mem), Cut(n), spaces, s, va)
    BY <1>19 DEF Confined
  <2> QED  BY <1>11, <1>13, <1>19, <2>1 DEF DamagedStep
<1> QED  BY <1>12, <1>13, <1>17, <1>18, <1>19

\* Vmm_NewAddressSpace that finds a page makes a space of the cut.
LEMMA NewDamaged ==
    ASSUME IInv, IInv', Page0 \notin spaces', Vmm_NewAddressSpace,
           NEW lev \in Levels, DamagedOK(mem, pool, spaces, lev)
    PROVE  /\ \E up \in Levels : DamagedOK(mem', pool', spaces', up)
           /\ SameMaps(Cut(mem), Cut(mem'), spaces)
<1>1. PICK s : s = Taken(pool)
  OBVIOUS
<1>2. PICK n : n = mem'
  OBVIOUS
<1>3. /\ n \in [Mem -> [Idx -> Entry]] /\ NewTable(mem, n, s)
      /\ pool' = Rest(pool) /\ spaces' = spaces \cup {s}
  BY <1>1, <1>2, NewMakesTable
<1>4. /\ TablesOK(mem, pool, spaces, failures) /\ failures \in Nat
      /\ mem \in [Mem -> [Idx -> Entry]] /\ Page0 \notin spaces
      /\ TablesOK(n, pool', spaces', failures')
  <2>1. TablesOK(mem, pool, spaces, failures) /\ failures \in Nat /\ Page0 \notin spaces
    BY <1>3, VmmAssumption DEF IInv
  <2>2. TablesOK(n, pool', spaces', failures')
    BY <1>2 DEF IInv
  <2> QED  BY <2>1, <2>2 DEF TablesOK
<1>5. /\ s \in Tables /\ s # Page0 /\ pool # <<>> /\ ToSet(Rest(pool)) = ToSet(pool) \ {s}
      /\ s \notin spaces
  <2>1. s # Page0
    BY <1>3
  <2> QED  BY <1>1, <1>4, <2>1, FreshPage
<1>6. s \in Pages /\ s \in ToSet(pool)
  BY <1>1, <1>4, <1>5, TakePage DEF Tables, Taken, TablesOK
<1>7. PICK c : c = Cut(mem) /\ CleanOK(c, pool, spaces, lev)
  BY DEF DamagedOK
<1>8. PICK e : e = Cut(n)
  OBVIOUS
<1>9. /\ \A q \in Pages, j \in Idx : c[q][j] = IF mem[q][j].addr = Page0 THEN Absent ELSE mem[q][j]
      /\ \A q \in Mem \ Pages, j \in Idx : c[q][j] = Absent
  BY <1>4, <1>7, CutEntry
<1>10. /\ \A q \in Pages, j \in Idx : e[q][j] = IF n[q][j].addr = Page0 THEN Absent ELSE n[q][j]
       /\ \A q \in Mem \ Pages, j \in Idx : e[q][j] = Absent
  BY <1>3, <1>8, CutEntry
<1>11. KernelSpace \in Pages /\ KernelSpace # s /\ KernelSpace \notin ToSet(pool)
  BY <1>4, <1>5, PoolPages DEF TablesOK, SpacesOK
<1>12. NewTable(c, e, s)
  <2>1. ASSUME NEW q \in Mem, NEW j \in Idx, q # s PROVE e[q][j] = c[q][j]
    <3>1. n[q][j] = mem[q][j]
      BY <1>3, <2>1 DEF NewTable
    <3>2. CASE q \in Pages
      BY <1>9, <1>10, <3>1, <3>2
    <3>3. CASE q \notin Pages
      BY <1>9, <1>10, <3>3
    <3> QED  BY <3>2, <3>3
  <2>2. ASSUME NEW j \in Idx
        PROVE  e[s][j] = (IF j >= FirstKernel THEN c[KernelSpace][j] ELSE Absent)
    <3>1. n[s][j] = (IF j >= FirstKernel THEN mem[KernelSpace][j] ELSE Absent)
      BY <1>3 DEF NewTable
    <3>2. e[s][j] = IF n[s][j].addr = Page0 THEN Absent ELSE n[s][j]
      BY <1>6, <1>10
    <3>3. c[KernelSpace][j] = IF mem[KernelSpace][j].addr = Page0 THEN Absent
                              ELSE mem[KernelSpace][j]
      BY <1>9, <1>11
    <3> QED  BY <3>1, <3>2, <3>3
  <2>3. \A j \in Idx : e[s][j] = c[KernelSpace][j] \/ e[s][j] = Absent
    BY <2>2
  <2> QED  BY <2>1, <2>2, <2>3 DEF NewTable
<1>13. Unreferenced(c, s)
  <2>1. \A q \in Mem, j \in Idx : Present(c[q][j]) => c[q][j].addr \notin ToSet(pool)
    BY <1>7 DEF CleanOK, TablesOK, RootsFree
  <2> QED  BY <1>6, <2>1 DEF Unreferenced
<1>14. TablesOK(e, pool', spaces \cup {s}, 0)
  BY <1>3, <1>4, <1>8, CutTables
<1>15. PICK up : up = [lev EXCEPT ![s] = 4]
  OBVIOUS
<1>16. CleanOK(e, pool', spaces \cup {s}, up) /\ SameMaps(c, e, spaces)
  BY <1>6, <1>7, <1>12, <1>13, <1>14, <1>15, NewClean
<1>17. Sealed(n, pool', up)
  <2>1. ASSUME NEW q \in Mem \ Pages, NEW j \in Idx PROVE n[q][j].addr \notin Pages
    <3>1. n[q][j] = mem[q][j]
      BY <1>3, <1>6, <2>1 DEF NewTable
    <3> QED  BY <3>1 DEF DamagedOK, Sealed
  <2>2. ASSUME NEW q \in Pages \ ToSet(pool'), NEW j \in Idx,
               Present(n[q][j]), n[q][j].addr = Page0
        PROVE  FALSE
    <3>1. PICK r \in Pages \ ToSet(pool) : n[q][j] = mem[r][j]
      <4>1. CASE q = s
        BY <1>3, <1>11, <2>2, <4>1, EntryTypes DEF NewTable
      <4>2. CASE q # s
        BY <1>3, <1>5, <2>2, <4>2 DEF NewTable, Mem
      <4> QED  BY <4>1, <4>2
    <3> QED  BY <1>5, <2>2, <3>1 DEF DamagedOK, Sealed
  <2> QED  BY <2>1, <2>2 DEF Sealed
<1>18. up \in Levels
  BY <1>16 DEF CleanOK
<1> QED  BY <1>2, <1>3, <1>7, <1>8, <1>16, <1>17, <1>18 DEF DamagedOK

-----------------------------------------------------------------------------
(***************************************************************************)
(* As long as page 0 is no PML4 and no unmap strayed, the tables without   *)
(* page 0 are in levels, and a call changes one address of them.           *)
(***************************************************************************)
DamagedInv ==
    Page0 \notin spaces /\ strays = 0 => \E lev \in Levels : DamagedOK(mem, pool, spaces, lev)

LEMMA DamagedInit == Init => DamagedInv
<1> SUFFICES ASSUME Init PROVE \E lev \in Levels : DamagedOK(mem, pool, spaces, lev)
  BY DEF DamagedInv
<1>1. /\ TablesOK(mem, pool, spaces, 0) /\ mem \in [Mem -> [Idx -> Entry]]
      /\ spaces = {KernelSpace}
  BY InitOK DEF Init, IInv, TablesOK
<1>2. mem = [p \in Mem |-> Cleared]
  BY DEF Init, Mem
<1>3. \A p \in Mem, i \in Idx : mem[p][i] = Absent
  BY <1>2, EntryTypes
<1>4. \A p \in Pages, i \in Idx : mem[p][i] = Absent
  BY <1>3 DEF Mem
<1>5. PICK lev : lev = [p \in Pages |-> 4]
  OBVIOUS
<1>6. lev \in Levels
  BY <1>5 DEF Levels
<1>7. Sealed(mem, pool, lev)
  <2>1. \A p \in Mem, i \in Idx : mem[p][i].addr \notin Pages
    BY <1>3, PoolPages, EntryTypes
  <2>2. \A p \in Pages, i \in Idx : ~Present(mem[p][i])
    BY <1>4, EntryTypes
  <2> QED  BY <2>1, <2>2 DEF Sealed
<1>8. PICK c : c = Cut(mem)
  OBVIOUS
<1>9. \A p \in Mem, i \in Idx : c[p][i] = Absent
  BY <1>1, <1>4, <1>8, CutEntry
<1>10. TablesOK(c, pool, spaces, 0)
  <2>1. Page0 \notin spaces
    BY <1>1, PoolPages
  <2> QED  BY <1>1, <1>8, <2>1, CutTables
<1>11. CleanOK(c, pool, spaces, lev)
  <2>1. Leveled(c, spaces, lev)
    BY <1>1, <1>5, <1>9, EntryTypes, PoolPages DEF Leveled, Mem
  <2>2. ZeroLeadsNowhere(c)
    BY <1>9, EntryTypes DEF ZeroLeadsNowhere, Mem
  <2> QED  BY <1>6, <1>10, <2>1, <2>2 DEF CleanOK
<1> QED  BY <1>6, <1>7, <1>8, <1>11 DEF DamagedOK

LEMMA DamagedNext ==
    ASSUME IInv, IInv', DamagedInv, [Next]_vars, Page0 \notin spaces', strays' = 0
    PROVE  Page0 \notin spaces /\ strays = 0 /\ \E s \in spaces, va \in VAddrs : DamagedStep(s, va)
<1>1. spaces \subseteq spaces'
  BY DEF Next, vars, Vmm_Initialize_Map, Vmm_NewAddressSpace, Vmm_SwitchAddressSpaces,
         Vmm_Map, Vmm_Unmap, Cleans, Access
<1>2. Page0 \notin spaces /\ KernelSpace \in spaces /\ strays = 0
  <2>1. CASE \E s \in spaces, va \in VAddrs : Vmm_Unmap(s, va)
    <3>1. PICK s \in spaces, va \in VAddrs : Vmm_Unmap(s, va)
      BY <2>1
    <3>2. PICK t1, t2, w : /\ t1 = Follow(s, va[1]) /\ t2 = Follow(t1, va[2])
                           /\ w = Follow(t2, va[3])
      OBVIOUS
    <3>3. strays = 0
      BY <3>1, <3>2, UnmapWrites DEF Unmapped
    <3> QED  BY <1>1, <3>3 DEF IInv, TablesOK, SpacesOK
  <2>2. CASE ~\E s \in spaces, va \in VAddrs : Vmm_Unmap(s, va)
    <3>1. strays' = strays
      BY <2>2 DEF Next, vars, Vmm_Initialize_Map, Vmm_NewAddressSpace,
                  Vmm_SwitchAddressSpaces, Vmm_Map, Access
    <3> QED  BY <1>1, <3>1 DEF IInv, TablesOK, SpacesOK
  <2> QED  BY <2>1, <2>2
<1>3. PICK lev \in Levels : DamagedOK(mem, pool, spaces, lev)
  BY <1>2 DEF DamagedInv
<1>4. PICK va0 \in VAddrs : TRUE
  BY VmmAssumption
<1>5. CASE Vmm_Initialize_Map
  <2>1. PICK m : m = BootMaps[booted + 1] /\ Map(KernelSpace, m.va, m.frame, m.flags)
    BY <1>5 DEF Vmm_Initialize_Map
  <2>2. booted + 1 \in 1 .. Len(BootMaps)
    BY <1>5, BootMapTypes DEF Vmm_Initialize_Map, IInv
  <2>3. m.va \in VAddrs /\ m.frame \in Frames /\ m.flags \in SUBSET AllFlags /\ "P" \in m.flags
    BY <2>1, <2>2, BootMapTypes
  <2>4. Running /\ spaces' = spaces
    BY <1>5 DEF Vmm_Initialize_Map
  <2>5. DamagedStep(KernelSpace, m.va)
    BY <1>2, <1>3, <2>1, <2>3, <2>4, MapDamaged
  <2> QED  BY <1>2, <2>3, <2>5
<1>6. CASE Vmm_NewAddressSpace
  <2>1. /\ \E up \in Levels : DamagedOK(mem', pool', spaces', up)
        /\ SameMaps(Cut(mem), Cut(mem'), spaces)
    BY <1>3, <1>6, NewDamaged
  <2>2. Confined(Cut(mem), Cut(mem'), spaces, KernelSpace, va0)
    BY <2>1 DEF Confined, SameMaps
  <2> QED  BY <1>2, <1>4, <2>1, <2>2 DEF DamagedStep
<1>7. CASE \E s \in spaces, va \in VAddrs, frame \in Frames, flags \in Flags :
              Vmm_Map(s, va, frame, flags)
  <2>1. PICK s \in spaces, va \in VAddrs, frame \in Frames, flags \in Flags :
           Vmm_Map(s, va, frame, flags)
    BY <1>7
  <2>2. flags \in SUBSET AllFlags /\ "P" \in flags
    BY VmmAssumption
  <2>3. Running /\ Map(s, va, frame, flags) /\ spaces' = spaces
    BY <2>1 DEF Vmm_Map, Booted
  <2>4. DamagedStep(s, va)
    BY <1>2, <1>3, <2>2, <2>3, MapDamaged
  <2> QED  BY <1>2, <2>4
<1>8. CASE \E s \in spaces, va \in VAddrs : Vmm_Unmap(s, va)
  BY <1>2, <1>3, <1>8, UnmapDamaged
<1>9. CASE UNCHANGED <<mem, pool, spaces>>
  <2>1. Confined(Cut(mem), Cut(mem'), spaces, KernelSpace, va0)
    BY <1>9 DEF Confined
  <2> QED  BY <1>2, <1>3, <1>4, <1>9, <2>1 DEF DamagedStep
<1> QED  BY <1>5, <1>6, <1>7, <1>8, <1>9
         DEF Next, vars, Vmm_SwitchAddressSpaces, Access

\* Whether a walk meets page 0, now and in the next state.
LEMMA MeetsInMem ==
    /\ \A s, va : MeetsPage0(s, va) <=> MeetsIn(mem, s, va)
    /\ \A s, va : MeetsPage0(s, va)' <=> MeetsIn(mem', s, va)
<1>1. \A t, i : Lookup(t, i) = LookupIn(mem, t, i)
  BY DEF Lookup, LookupIn, Present
<1>2. \A t, i : Lookup(t, i)' = LookupIn(mem', t, i)
  BY DEF Lookup, LookupIn, Present
<1>3. ASSUME NEW s, NEW va PROVE MeetsPage0(s, va) <=> MeetsIn(mem, s, va)
  BY <1>1 DEF MeetsPage0, MeetsIn
<1>4. ASSUME NEW s, NEW va PROVE MeetsPage0(s, va)' <=> MeetsIn(mem', s, va)
  BY <1>2 DEF MeetsPage0, MeetsIn
<1> QED  BY <1>3, <1>4

\* What a call does to the walks that do not meet page 0.
LEMMA WalksConfined ==
    ASSUME IInv, IInv', DamagedInv, [Next]_vars, Page0 \notin spaces', strays' = 0
    PROVE  \E s \in spaces, va \in VAddrs : \A t \in spaces, v \in VAddrs :
              \/ v = va /\ (t = s \/ IsKernelHalf(va))
              \/ Translate(t, v)' = Translate(t, v)
              \/ MeetsPage0(t, v) \/ MeetsPage0(t, v)'
<1>1. PICK s \in spaces, va \in VAddrs : DamagedStep(s, va)
  BY DamagedNext
<1>2. PICK lev \in Levels : DamagedOK(mem, pool, spaces, lev)
  BY DamagedNext DEF DamagedInv
<1>3. PICK up \in Levels : DamagedOK(mem', pool', spaces', up)
  BY <1>1 DEF DamagedStep
<1>4. TablesOK(mem, pool, spaces, failures) /\ TablesOK(mem', pool', spaces', failures')
  BY DEF IInv
<1>5. spaces \subseteq spaces'
  BY DEF Next, vars, Vmm_Initialize_Map, Vmm_NewAddressSpace, Vmm_SwitchAddressSpaces,
         Vmm_Map, Vmm_Unmap, Cleans, Access
<1>6. ASSUME NEW t \in spaces, NEW v \in VAddrs,
             ~MeetsPage0(t, v), ~MeetsPage0(t, v)', ~(v = va /\ (t = s \/ IsKernelHalf(va)))
      PROVE  Translate(t, v)' = Translate(t, v)
  <2>1. ~MeetsIn(mem, t, v) /\ ~MeetsIn(mem', t, v)
    BY <1>6, MeetsInMem
  <2>2. TranslateIn(mem, t, v) = TranslateIn(Cut(mem), t, v)
    BY <1>2, <1>4, <2>1, CutTranslate
  <2>3. TranslateIn(mem', t, v) = TranslateIn(Cut(mem'), t, v)
    <3>1. t \in spaces'
      BY <1>5
    <3>2. PICK m, pl, sp : m = mem' /\ pl = pool' /\ sp = spaces'
      OBVIOUS
    <3> QED  BY <1>3, <1>4, <2>1, <3>1, <3>2, CutTranslate
  <2>4. TranslateIn(Cut(mem'), t, v) = TranslateIn(Cut(mem), t, v)
    BY <1>1, <1>6 DEF DamagedStep, Confined
  <2> QED  BY <2>2, <2>3, <2>4, WalksInMem, WalksInMemNext
<1> QED  BY <1>6

(***************************************************************************)
(* When a call finds no page for a table, the damage stays with the walks  *)
(* that go through page 0 (vmm.c:74-79, 110-128), as long as page 0 is not *)
(* the PML4 of a space and no unmap strayed.                               *)
(***************************************************************************)
THEOREM DamageIsConfined == Spec => DamageConfined
<1>1. Init => DamagedInv
  BY DamagedInit
<1>2. IInv /\ IInv' /\ DamagedInv /\ [Next]_vars => DamagedInv'
  <2> SUFFICES ASSUME IInv, IInv', DamagedInv, [Next]_vars, Page0 \notin spaces', strays' = 0
               PROVE  \E lev \in Levels : DamagedOK(mem', pool', spaces', lev)
    BY DEF DamagedInv
  <2> QED  BY DamagedNext DEF DamagedStep
<1>3. IInv /\ IInv' /\ DamagedInv /\ [Next]_vars
         => [Page0 \notin spaces' /\ strays' = 0 =>
              \E s \in spaces, va \in VAddrs : \A t \in spaces, v \in VAddrs :
                 \/ v = va /\ (t = s \/ IsKernelHalf(va))
                 \/ Translate(t, v)' = Translate(t, v)
                 \/ MeetsPage0(t, v) \/ MeetsPage0(t, v)']_mem
  BY WalksConfined
<1> QED  BY <1>1, <1>2, <1>3, IInvHolds, PTL DEF Spec, DamageConfined
=============================================================================
