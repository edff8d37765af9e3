--------------------------- MODULE Variant_proofs ---------------------------
(***************************************************************************)
(* Proofs about Variant, for any variables, heap, types and lengths: the   *)
(* counts.  An operation goes through states in which a reference is in    *)
(* its hands; a cell's count is what refers to it from outside the heap,   *)
(* variables and such references, and the places in arrays that hold it.   *)
(***************************************************************************)
EXTENDS Variant, FiniteSetTheorems, SequenceTheorems, TLAPS

Heaps == [Cells -> CellRecords \cup {Free}]
Elems(h, c) == IF h[c] = Free THEN <<>> ELSE h[c].elems
Count(h, c) == IF h[c] = Free THEN 0 ELSE h[c].refs

\* The places in arrays that hold cell c.
Places == Cells \X (1 .. MaxLen)
Slots(h, c) == {p \in Places : p[2] \in DOMAIN Elems(h, p[1]) /\ Elems(h, p[1])[p[2]] = c}

\* Elements are base values of the type of their array.
Item(h, e, t) == h[e] # Free /\ ~h[e].array /\ h[e].type = t
Good(h, c) ==
  /\ Len(h[c].elems) <= MaxLen /\ (~h[c].array => h[c].elems = <<>>)
  /\ \A i \in DOMAIN h[c].elems : Item(h, h[c].elems[i], h[c].type)
Shaped(h) == h \in Heaps /\ \A c \in Cells : h[c] # Free => Good(h, c)

\* x[c] references to cell c come from outside the heap.
Sound(x, h) ==
  /\ x \in [Cells -> Int] /\ Shaped(h)
  /\ \A c \in Cells : Count(h, c) = x[c] + Cardinality(Slots(h, c))

One(c, d) == IF c = d THEN 1 ELSE 0
Plus(x, r) == [c \in Cells |-> x[c] + One(c, r)]
Minus(x, r) == [c \in Cells |-> x[c] - One(c, r)]

\* The same but for the count.
Alike(p, q) == p.type = q.type /\ p.array = q.array /\ p.num = q.num /\ p.elems = q.elems
Kept(h, g, c) == (g[c] = Free <=> h[c] = Free) /\ (h[c] # Free => Alike(h[c], g[c]))
-----------------------------------------------------------------------------
(* Counting.                                                               *)

LEMMA PlacesFinite == IsFiniteSet(Places) /\ \A c, h : IsFiniteSet(Slots(h, c))
<1>1. IsFiniteSet(1 .. MaxLen)
  BY FS_Interval, DataAssumption
<1>2. IsFiniteSet(Places)
  BY <1>1, FS_Product, HeapAssumption DEF Places
<1>3. \A c, h : Slots(h, c) \subseteq Places
  BY DEF Slots
<1> QED BY <1>2, <1>3, FS_Subset

\* The indexes at which a sequence holds c.
Indexes(s, c) == {i \in DOMAIN s : s[i] = c}

LEMMA TimesFacts ==
  ASSUME NEW s \in Seq(Cells), NEW c
  PROVE  /\ IsFiniteSet(Indexes(s, c)) /\ Times(s, c) = Cardinality(Indexes(s, c)) /\ Times(s, c) \in Nat
         /\ Times(s, c) = 0 <=> \A i \in DOMAIN s : s[i] # c
<1>1. IsFiniteSet(1 .. Len(s)) /\ DOMAIN s = 1 .. Len(s)
  BY FS_Interval
<1>2. IsFiniteSet(Indexes(s, c))
  BY <1>1, FS_Subset DEF Indexes
<1>3. Times(s, c) = Cardinality(Indexes(s, c))
  BY DEF Times, Indexes
<1>4. Indexes(s, c) = {} <=> \A i \in DOMAIN s : s[i] # c
  BY DEF Indexes
<1> QED BY <1>2, <1>3, <1>4, FS_CardinalityType, FS_EmptySet

LEMMA TimesNone == \A c : Times(<<>>, c) = 0
<1>1. <<>> \in Seq(Cells) /\ DOMAIN <<>> = {}
  OBVIOUS
<1> QED BY <1>1, TimesFacts

\* One more element, at place k.
LEMMA TimesInserted ==
  ASSUME NEW s \in Seq(Cells), NEW t \in Seq(Cells), Len(t) = Len(s) + 1, NEW k \in 1 .. Len(t),
         \A i \in 1 .. (k - 1) : t[i] = s[i], \A i \in k .. Len(s) : t[i + 1] = s[i], NEW c
  PROVE  Times(t, c) = Times(s, c) + One(c, t[k])
<1> DEFINE S == Indexes(s, c)
           T == Indexes(t, c) \ {k}
           f == [i \in S |-> IF i < k THEN i ELSE i + 1]
<1>0. Len(s) \in Nat /\ DOMAIN s = 1 .. Len(s) /\ DOMAIN t = 1 .. Len(s) + 1 /\ k \in Nat
  OBVIOUS
<1>1. \A i \in S : i \in 1 .. Len(s) /\ s[i] = c
  BY <1>0 DEF Indexes
<1>2. \A j \in T : j \in 1 .. Len(s) + 1 /\ j # k /\ t[j] = c
  BY <1>0 DEF Indexes
<1>3. ASSUME NEW i \in S PROVE f[i] \in T
  <2>1. CASE i < k
    BY <1>0, <1>1, <2>1 DEF Indexes
  <2>2. CASE i >= k
    BY <1>0, <1>1, <2>2 DEF Indexes
  <2> QED BY <1>0, <1>1, <2>1, <2>2
<1>4. \A a, b \in S : f[a] = f[b] => a = b
  BY <1>0, <1>1
<1>5. ASSUME NEW j \in T PROVE \E i \in S : f[i] = j
  <2>1. CASE j < k
    <3>1. j \in S /\ f[j] = j
      BY <1>0, <1>2, <2>1 DEF Indexes
    <3> QED BY <3>1
  <2>2. CASE j > k
    <3>1. j - 1 \in k .. Len(s) /\ (j - 1) + 1 = j
      BY <1>0, <1>2, <2>2
    <3>2. s[j - 1] = c /\ j - 1 \in S
      BY <1>0, <1>2, <3>1 DEF Indexes
    <3>3. f[j - 1] = j
      BY <3>1, <3>2
    <3> QED BY <3>2, <3>3
  <2> QED BY <1>0, <1>2, <2>1, <2>2
<1>6. f \in Bijection(S, T)
  <2>1. f \in [S -> T]
    BY <1>3
  <2> HIDE DEF f
  <2> QED BY <1>4, <1>5, <2>1 DEF Bijection, Injection, Surjection, IsInjective
<1>7. Cardinality(T) = Cardinality(S) /\ IsFiniteSet(T) /\ Cardinality(S) \in Nat
  <2>1. ExistsBijection(S, T)
    BY <1>6 DEF ExistsBijection
  <2> QED BY <2>1, TimesFacts, FS_Bijection, FS_CardinalityType
<1>8. CASE t[k] = c
  <2>1. Indexes(t, c) = T \cup {k} /\ k \notin T
    BY <1>0, <1>8 DEF Indexes
  <2>2. Cardinality(Indexes(t, c)) = Cardinality(T) + 1
    BY <1>7, <2>1, FS_AddElement
  <2> QED BY <1>7, <1>8, <2>2, TimesFacts DEF One
<1>9. CASE t[k] # c
  <2>1. Indexes(t, c) = T
    BY <1>9 DEF Indexes
  <2>2. Times(t, c) = Cardinality(Indexes(t, c)) /\ Times(s, c) = Cardinality(S)
    BY TimesFacts
  <2>3. One(c, t[k]) = 0
    BY <1>9 DEF One
  <2> HIDE DEF S, T
  <2> QED BY <1>7, <2>1, <2>2, <2>3
<1> QED BY <1>8, <1>9

LEMMA TimesAppend ==
  ASSUME NEW s \in Seq(Cells), NEW e \in Cells, NEW c
  PROVE  Times(Append(s, e), c) = Times(s, c) + One(c, e)
<1> DEFINE t == Append(s, e)
<1>1. /\ t \in Seq(Cells) /\ Len(t) = Len(s) + 1 /\ t[Len(s) + 1] = e /\ Len(s) \in Nat
      /\ \A i \in 1 .. Len(s) : t[i] = s[i]
  OBVIOUS
<1> HIDE DEF t
<1>2. /\ Len(s) + 1 \in 1 .. Len(t) /\ (\A i \in 1 .. (Len(s) + 1 - 1) : t[i] = s[i])
      /\ \A i \in (Len(s) + 1) .. Len(s) : t[i + 1] = s[i]
  BY <1>1
<1>3. Times(t, c) = Times(s, c) + One(c, t[Len(s) + 1])
  BY <1>1, <1>2, TimesInserted
<1> QED BY <1>1, <1>3 DEF t

LEMMA TimesPair ==
  ASSUME NEW a \in Cells, NEW b \in Cells, NEW c
  PROVE  Times(<<a, b>>, c) = One(c, a) + One(c, b)
<1>1. <<>> \in Seq(Cells) /\ <<a>> = Append(<<>>, a) /\ <<a>> \in Seq(Cells) /\ <<a, b>> = Append(<<a>>, b)
  OBVIOUS
<1>2. Times(<<a>>, c) = Times(<<>>, c) + One(c, a)
  BY <1>1, TimesAppend
<1>3. Times(<<a, b>>, c) = Times(<<a>>, c) + One(c, b)
  BY <1>1, TimesAppend
<1> QED BY <1>2, <1>3, TimesNone DEF One

\* The places that hold c, those of array d apart.
Rest(h, d, c) == {p \in Slots(h, c) : p[1] # d}

LEMMA SlotsSplit ==
  ASSUME NEW h, NEW d \in Cells, Elems(h, d) \in Seq(Cells), Len(Elems(h, d)) <= MaxLen, NEW c
  PROVE  /\ Cardinality(Slots(h, c)) = Cardinality(Rest(h, d, c)) + Times(Elems(h, d), c)
         /\ Cardinality(Rest(h, d, c)) \in Nat
<1> DEFINE I == Indexes(Elems(h, d), c)
           P == {p \in Slots(h, c) : p[1] = d}
           f == [i \in I |-> <<d, i>>]
<1>0. Len(Elems(h, d)) \in Nat /\ DOMAIN Elems(h, d) = 1 .. Len(Elems(h, d)) /\ MaxLen \in Nat
  BY DataAssumption
<1>1. \A i \in I : f[i] \in P
  <2> SUFFICES ASSUME NEW i \in I PROVE <<d, i>> \in P
    OBVIOUS
  <2>1. i \in 1 .. MaxLen /\ i \in DOMAIN Elems(h, d) /\ Elems(h, d)[i] = c
    BY <1>0 DEF Indexes
  <2> QED BY <2>1 DEF Slots, Places
<1>2. \A a, b \in I : f[a] = f[b] => a = b
  OBVIOUS
<1>3. ASSUME NEW p \in P PROVE \E i \in I : f[i] = p
  <2>1. p = <<d, p[2]>> /\ p[2] \in I
    BY DEF Slots, Places, Indexes
  <2> QED BY <2>1
<1>4. f \in Bijection(I, P)
  <2>1. f \in [I -> P]
    BY <1>1
  <2> HIDE DEF f
  <2> QED BY <1>2, <1>3, <2>1 DEF Bijection, Injection, Surjection, IsInjective
<1>5. Cardinality(P) = Times(Elems(h, d), c) /\ IsFiniteSet(P)
  <2>1. ExistsBijection(I, P)
    BY <1>4 DEF ExistsBijection
  <2> QED BY <2>1, TimesFacts, FS_Bijection
<1>6. IsFiniteSet(Rest(h, d, c))
  BY PlacesFinite, FS_Subset DEF Rest
<1>7. Slots(h, c) = Rest(h, d, c) \cup P /\ Rest(h, d, c) \cap P = {}
  BY DEF Rest
<1> HIDE DEF P
<1>8. Cardinality(Slots(h, c)) = Cardinality(Rest(h, d, c)) + Cardinality(P) - 0
  BY <1>5, <1>6, <1>7, FS_Union, FS_EmptySet
<1> QED BY <1>5, <1>6, <1>8, TimesFacts, FS_CardinalityType

\* Only the elements of d change.
LEMMA SlotsChange ==
  ASSUME NEW h, NEW g, NEW d \in Cells, NEW c,
         Elems(h, d) \in Seq(Cells), Len(Elems(h, d)) <= MaxLen,
         Elems(g, d) \in Seq(Cells), Len(Elems(g, d)) <= MaxLen,
         \A e \in Cells : e # d => Elems(g, e) = Elems(h, e)
  PROVE  /\ Cardinality(Slots(g, c)) + Times(Elems(h, d), c) = Cardinality(Slots(h, c)) + Times(Elems(g, d), c)
         /\ Cardinality(Slots(g, c)) \in Nat /\ Cardinality(Slots(h, c)) \in Nat
<1>1. Rest(g, d, c) = Rest(h, d, c)
  BY DEF Rest, Slots, Places
<1>2. /\ Cardinality(Slots(h, c)) = Cardinality(Rest(h, d, c)) + Times(Elems(h, d), c)
      /\ Cardinality(Slots(g, c)) = Cardinality(Rest(h, d, c)) + Times(Elems(g, d), c)
      /\ Cardinality(Rest(h, d, c)) \in Nat
  BY <1>1, SlotsSplit
<1> QED BY <1>2, TimesFacts

LEMMA SlotsSame ==
  ASSUME NEW h, NEW g, \A e \in Cells : Elems(g, e) = Elems(h, e)
  PROVE  \A c : Slots(g, c) = Slots(h, c)
BY DEF Slots, Places
-----------------------------------------------------------------------------
(* Cells.                                                                  *)

LEMMA CellFacts ==
  ASSUME NEW r \in CellRecords
  PROVE  /\ r # Free /\ r.type \in Types /\ r.array \in BOOLEAN /\ r.num \in 0 .. Width - 1
         /\ r.elems \in Seq(Cells) /\ r.refs \in Nat /\ r.refs > 0
<1>1. r.refs \in Nat \ {0}
  BY DEF CellRecords
<1> QED BY <1>1, FreeAssumption DEF CellRecords

LEMMA CountEdited ==
  ASSUME NEW r \in CellRecords, NEW n \in Nat \ {0}
  PROVE  /\ [r EXCEPT !.refs = n] \in CellRecords /\ [r EXCEPT !.refs = n].refs = n
         /\ Alike(r, [r EXCEPT !.refs = n])
BY DEF CellRecords, Alike

LEMMA NumberEdited ==
  ASSUME NEW r \in CellRecords, NEW n \in 0 .. Width - 1
  PROVE  LET q == [r EXCEPT !.num = n] IN
         /\ q \in CellRecords /\ q.refs = r.refs /\ q.type = r.type /\ q.array = r.array
         /\ q.elems = r.elems /\ q.num = n
BY DEF CellRecords

LEMMA ElementsEdited ==
  ASSUME NEW r \in CellRecords, NEW s \in Seq(Cells)
  PROVE  LET q == [r EXCEPT !.elems = s] IN
         /\ q \in CellRecords /\ q.refs = r.refs /\ q.type = r.type /\ q.array = r.array
         /\ q.elems = s /\ q.num = r.num
BY DEF CellRecords

LEMMA NewBase ==
  ASSUME NEW x \in Base
  PROVE  /\ BaseCell(x) \in CellRecords /\ BaseCell(x).refs = 1 /\ BaseCell(x).type = x.type
         /\ BaseCell(x).array = FALSE /\ BaseCell(x).num = x.num /\ BaseCell(x).elems = <<>>
<1>1. <<>> \in Seq(Cells) /\ x.type \in Types /\ x.num \in 0 .. Width - 1 /\ 1 \in Nat \ {0}
  BY DEF Base
<1> QED BY <1>1 DEF BaseCell, CellRecords

LEMMA NewArray ==
  ASSUME NEW t \in Types, NEW s \in Seq(Cells)
  PROVE  /\ ArrayCell(t, s) \in CellRecords /\ ArrayCell(t, s).refs = 1 /\ ArrayCell(t, s).type = t
         /\ ArrayCell(t, s).array = TRUE /\ ArrayCell(t, s).elems = s
<1>1. 0 \in 0 .. Width - 1 /\ 1 \in Nat \ {0}
  BY DataAssumption
<1> QED BY <1>1 DEF ArrayCell, CellRecords

LEMMA HeapFacts ==
  ASSUME NEW h, Shaped(h), NEW c \in Cells
  PROVE  /\ Elems(h, c) \in Seq(Cells) /\ Len(Elems(h, c)) \in 0 .. MaxLen
         /\ Count(h, c) \in Nat /\ (h[c] = Free <=> Count(h, c) = 0)
         /\ h[c] # Free => h[c] \in CellRecords /\ Good(h, c)
         /\ \A i \in DOMAIN Elems(h, c) : Item(h, Elems(h, c)[i], h[c].type) /\ Elems(h, c)[i] # c
<1>1. CASE h[c] = Free
  <2>1. Elems(h, c) = <<>> /\ Count(h, c) = 0
    BY <1>1 DEF Elems, Count
  <2>2. <<>> \in Seq(Cells) /\ Len(<<>>) = 0 /\ DOMAIN <<>> = {}
    OBVIOUS
  <2> QED BY <1>1, <2>1, <2>2, DataAssumption
<1>2. CASE h[c] # Free
  <2>1. h[c] \in CellRecords /\ Good(h, c)
    BY <1>2 DEF Shaped, Heaps
  <2>2. Elems(h, c) = h[c].elems /\ Count(h, c) = h[c].refs
    BY <1>2 DEF Elems, Count
  <2>3. Elems(h, c) \in Seq(Cells) /\ Len(Elems(h, c)) \in Nat /\ Len(Elems(h, c)) <= MaxLen
    BY <2>1, <2>2, CellFacts DEF Good
  <2>4. \A i \in DOMAIN Elems(h, c) : Item(h, Elems(h, c)[i], h[c].type)
    BY <2>1, <2>2 DEF Good
  <2>5. ASSUME NEW i \in DOMAIN Elems(h, c), Elems(h, c)[i] = c PROVE FALSE
    <3>1. ~h[c].array
      BY <2>4, <2>5 DEF Item
    <3>2. Elems(h, c) = <<>>
      BY <2>1, <2>2, <3>1 DEF Good
    <3> QED BY <2>5, <3>2
  <2>6. Count(h, c) \in Nat /\ Count(h, c) # 0
    BY <2>1, <2>2, CellFacts
  <2> QED BY <1>2, <2>1, <2>3, <2>4, <2>5, <2>6, DataAssumption
<1> QED BY <1>1, <1>2

\* All but the cells of N are kept.
LEMMA ShapeKept ==
  ASSUME NEW h, Shaped(h), NEW g \in Heaps, NEW N \in SUBSET Cells,
         \A c \in Cells \ N : Kept(h, g, c),
         \A c \in N : (g[c] # Free => Good(g, c)) /\ \A t : Item(h, c, t) => Item(g, c, t)
  PROVE  Shaped(g)
<1>1. ASSUME NEW c \in Cells, NEW t, Item(h, c, t) PROVE Item(g, c, t)
  BY <1>1 DEF Item, Kept, Alike
<1>2. ASSUME NEW c \in Cells \ N, g[c] # Free PROVE Good(g, c)
  <2>1. h[c] # Free /\ Alike(h[c], g[c]) /\ Good(h, c)
    BY <1>2 DEF Kept, Shaped
  <2>2. h[c] \in CellRecords
    BY <2>1 DEF Shaped, Heaps
  <2>3. \A i \in DOMAIN h[c].elems : h[c].elems[i] \in Cells
    BY <2>2, CellFacts
  <2> QED BY <1>1, <2>1, <2>3 DEF Good, Alike
<1> QED BY <1>2 DEF Shaped

LEMMA KeptElements ==
  ASSUME NEW h, NEW g, NEW c, Kept(h, g, c)
  PROVE  Elems(g, c) = Elems(h, c)
BY DEF Kept, Alike, Elems

\* Only the elements of d change; the counts follow.
LEMMA Rewired ==
  ASSUME NEW h, NEW g, NEW x, NEW y \in [Cells -> Int], Sound(x, h), Shaped(g), NEW d \in Cells,
         \A e \in Cells : e # d => Elems(g, e) = Elems(h, e),
         \A c \in Cells : Count(g, c) + x[c] + Times(Elems(h, d), c)
                            = Count(h, c) + y[c] + Times(Elems(g, d), c)
  PROVE  Sound(y, g)
<1> SUFFICES ASSUME NEW c \in Cells PROVE Count(g, c) = y[c] + Cardinality(Slots(g, c))
  BY DEF Sound
<1>1. Shaped(h) /\ x[c] \in Int /\ y[c] \in Int /\ Count(h, c) = x[c] + Cardinality(Slots(h, c))
  BY DEF Sound
<1>2. /\ Elems(h, d) \in Seq(Cells) /\ Len(Elems(h, d)) <= MaxLen
      /\ Elems(g, d) \in Seq(Cells) /\ Len(Elems(g, d)) <= MaxLen
  BY <1>1, HeapFacts
<1>3. Count(h, c) \in Nat /\ Count(g, c) \in Nat
  BY <1>1, HeapFacts
<1>4. /\ Cardinality(Slots(g, c)) + Times(Elems(h, d), c) = Cardinality(Slots(h, c)) + Times(Elems(g, d), c)
      /\ Cardinality(Slots(g, c)) \in Nat /\ Cardinality(Slots(h, c)) \in Nat
  BY <1>2, SlotsChange
<1>5. Times(Elems(h, d), c) \in Nat /\ Times(Elems(g, d), c) \in Nat
  BY <1>2, TimesFacts
<1> QED BY <1>1, <1>3, <1>4, <1>5
-----------------------------------------------------------------------------
(* The operations on the heap.                                             *)

LEMMA PlusMinus ==
  ASSUME NEW x \in [Cells -> Int], NEW r
  PROVE  /\ Plus(x, r) \in [Cells -> Int] /\ \A c \in Cells : Plus(x, r)[c] = x[c] + One(c, r)
         /\ Minus(x, r) \in [Cells -> Int] /\ \A c \in Cells : Minus(x, r)[c] = x[c] - One(c, r)
BY DEF Plus, Minus, One

LEMMA NewCellFree ==
  ASSUME NEW h, FreeCells(h) # {}
  PROVE  NewCell(h) \in Cells /\ h[NewCell(h)] = Free
BY DEF NewCell, FreeCells

\* What refers to cells outnumbers the counts nowhere.
LEMMA Unreferenced ==
  ASSUME NEW x, NEW h, Sound(x, h), NEW c \in Cells, x[c] >= 0
  PROVE  /\ Cardinality(Slots(h, c)) \in Nat /\ Cardinality(Slots(h, c)) <= Count(h, c)
         /\ x[c] <= Count(h, c)
         /\ (Count(h, c) <= x[c] => Slots(h, c) = {})
<1>1. x[c] \in Int /\ Count(h, c) = x[c] + Cardinality(Slots(h, c)) /\ Shaped(h)
  BY DEF Sound
<1>2. Cardinality(Slots(h, c)) \in Nat /\ (Cardinality(Slots(h, c)) = 0 <=> Slots(h, c) = {})
  BY PlacesFinite, FS_CardinalityType, FS_EmptySet
<1> QED BY <1>1, <1>2

LEMMA SharedSound ==
  ASSUME NEW x, NEW h, Sound(x, h), NEW c \in Cells, h[c] # Free
  PROVE  /\ Sound(Plus(x, c), Shared(h, c))
         /\ \A e \in Cells : Kept(h, Shared(h, c), e)
<1> DEFINE g == Shared(h, c)
<1>1. Shaped(h) /\ x \in [Cells -> Int] /\ h \in Heaps
  BY DEF Sound, Shaped
<1>2. h[c] \in CellRecords /\ h[c].refs + 1 \in Nat \ {0}
  BY <1>1, CellFacts DEF Heaps
<1>3. g[c] = [h[c] EXCEPT !.refs = h[c].refs + 1] /\ \A e \in Cells : e # c => g[e] = h[e]
  BY <1>1 DEF Shared, Heaps
<1>4. g[c] \in CellRecords /\ g[c].refs = h[c].refs + 1 /\ Alike(h[c], g[c])
  BY <1>2, <1>3, CountEdited
<1>5. g \in Heaps
  <2>1. g = [h EXCEPT ![c] = [h[c] EXCEPT !.refs = h[c].refs + 1]]
    BY DEF Shared
  <2> HIDE DEF g
  <2> QED BY <1>1, <1>3, <1>4, <2>1 DEF Heaps
<1> HIDE DEF g
<1>6. g[c] # Free
  BY <1>4, CellFacts
<1>7. \A e \in Cells : Kept(h, g, e)
  BY <1>3, <1>4, <1>6 DEF Kept, Alike
<1>8. Shaped(g)
  BY <1>1, <1>5, <1>7, ShapeKept, {} \in SUBSET Cells
<1>9. \A e \in Cells : Elems(g, e) = Elems(h, e)
  BY <1>7, KeptElements
<1>10. \A e \in Cells : Count(g, e) = Count(h, e) + One(e, c)
  <2> TAKE e \in Cells
  <2>1. CASE e = c
    BY <1>4, <1>6, <2>1 DEF Count, One
  <2>2. CASE e # c
    <3>1. Count(g, e) = Count(h, e) /\ One(e, c) = 0
      BY <1>3, <2>2 DEF Count, One
    <3> QED BY <1>1, <3>1, HeapFacts
  <2> QED BY <2>1, <2>2
<1>11. Plus(x, c) \in [Cells -> Int] /\ \A e \in Cells : Plus(x, c)[e] = x[e] + One(e, c)
  BY <1>1, PlusMinus
<1>12. \A e \in Cells : Count(g, e) + x[e] + Times(Elems(h, c), e)
                           = Count(h, e) + Plus(x, c)[e] + Times(Elems(g, c), e)
  <2> TAKE e \in Cells
  <2>1. Count(h, e) \in Nat /\ x[e] \in Int /\ Times(Elems(h, c), e) \in Nat /\ One(e, c) \in Nat
    BY <1>1, HeapFacts, TimesFacts DEF One
  <2> QED BY <1>9, <1>10, <1>11, <2>1
<1>13. Sound(Plus(x, c), g)
  BY <1>8, <1>9, <1>11, <1>12, Rewired
<1> QED BY <1>7, <1>13 DEF g

LEMMA NumberSound ==
  ASSUME NEW x, NEW h, Sound(x, h), NEW c \in Cells, h[c] # Free, NEW n \in 0 .. Width - 1
  PROVE  LET g == [h EXCEPT ![c].num = n] IN
         /\ Sound(x, g) /\ \A e \in Cells : e # c => g[e] = h[e]
         /\ g[c] = [h[c] EXCEPT !.num = n] /\ g[c] # Free
<1> DEFINE g == [h EXCEPT ![c].num = n]
<1>1. Shaped(h) /\ x \in [Cells -> Int] /\ h \in Heaps
  BY DEF Sound, Shaped
<1>2. h[c] \in CellRecords
  BY <1>1 DEF Heaps
<1>3. g[c] = [h[c] EXCEPT !.num = n] /\ \A e \in Cells : e # c => g[e] = h[e]
  BY <1>1 DEF Heaps
<1>4. /\ g[c] \in CellRecords /\ g[c].refs = h[c].refs /\ g[c].type = h[c].type /\ g[c].array = h[c].array
      /\ g[c].elems = h[c].elems
  BY <1>2, <1>3, NumberEdited
<1>5. g \in Heaps
  <2>1. g = [h EXCEPT ![c] = [h[c] EXCEPT !.num = n]]
    OBVIOUS
  <2> HIDE DEF g
  <2> QED BY <1>1, <1>3, <1>4, <2>1 DEF Heaps
<1> HIDE DEF g
<1>6. g[c] # Free
  BY <1>4, CellFacts
<1>7. \A e \in Cells \ {c} : Kept(h, g, e)
  BY <1>3 DEF Kept, Alike
<1>8. /\ \A t : Item(h, c, t) => Item(g, c, t)
      /\ Good(g, c)
  <2>1. \A e \in Cells : \A t : Item(h, e, t) => Item(g, e, t)
    BY <1>3, <1>4, <1>6 DEF Item
  <2>2. Good(h, c) /\ \A i \in DOMAIN h[c].elems : h[c].elems[i] \in Cells
    BY <1>1, <1>2, HeapFacts, CellFacts
  <2> QED BY <1>4, <2>1, <2>2 DEF Good
<1>9. Shaped(g)
  BY <1>1, <1>5, <1>7, <1>8, ShapeKept, {c} \in SUBSET Cells
<1>10. \A e \in Cells : Elems(g, e) = Elems(h, e) /\ Count(g, e) = Count(h, e)
  BY <1>3, <1>4, <1>6 DEF Elems, Count
<1>11. Sound(x, g)
  BY <1>1, <1>9, <1>10, Rewired
<1> QED BY <1>3, <1>6, <1>11 DEF g

\* A reference to c goes.
LEMMA DropSound ==
  ASSUME NEW x, NEW h, Sound(x, h), NEW c \in Cells, x[c] >= 1, \A e \in Cells : x[e] >= 0
  PROVE  /\ Sound(Minus(x, c), Drop(h, c))
         /\ \A e \in Cells : Drop(h, c)[e] # Free => h[e] # Free /\ Alike(h[e], Drop(h, c)[e])
<1> DEFINE g == Drop(h, c)
           y == Minus(x, c)
           s == Elems(h, c)
<1>1. Shaped(h) /\ x \in [Cells -> Int] /\ h \in Heaps
  BY DEF Sound, Shaped
<1>2. h[c] # Free /\ Count(h, c) = h[c].refs /\ h[c] \in CellRecords /\ s = h[c].elems
  <2>1. x[c] <= Count(h, c) /\ Count(h, c) \in Nat
    BY <1>1, Unreferenced, HeapFacts
  <2>2. h[c] # Free
    BY <1>1, <2>1 DEF Count
  <2> QED BY <1>1, <2>2 DEF Count, Elems, Heaps
<1>3. y \in [Cells -> Int] /\ \A e \in Cells : y[e] = x[e] - One(e, c)
  BY <1>1, PlusMinus
<1>4. h[c].refs \in Nat \ {0}
  BY <1>2, CellFacts
<1>5. CASE h[c].refs > 1
  <2>1. g = [h EXCEPT ![c] = [h[c] EXCEPT !.refs = h[c].refs - 1]]
    BY <1>5 DEF Drop
  <2>2. /\ [h[c] EXCEPT !.refs = h[c].refs - 1] \in CellRecords
        /\ [h[c] EXCEPT !.refs = h[c].refs - 1].refs = h[c].refs - 1
        /\ Alike(h[c], [h[c] EXCEPT !.refs = h[c].refs - 1])
    <3>1. h[c].refs - 1 \in Nat \ {0}
      BY <1>4, <1>5
    <3> QED BY <1>2, <3>1, CountEdited
  <2>3. g \in Heaps /\ g[c] = [h[c] EXCEPT !.refs = h[c].refs - 1] /\ \A e \in Cells : e # c => g[e] = h[e]
    BY <1>1, <2>1, <2>2 DEF Heaps
  <2> HIDE DEF g
  <2>4. \A e \in Cells : Kept(h, g, e)
    BY <1>2, <2>2, <2>3, CellFacts DEF Kept, Alike
  <2>5. Shaped(g)
    BY <1>1, <2>3, <2>4, ShapeKept, {} \in SUBSET Cells
  <2>6. \A e \in Cells : Elems(g, e) = Elems(h, e)
    BY <2>4, KeptElements
  <2>7. \A e \in Cells : Count(g, e) = Count(h, e) - One(e, c)
    <3> TAKE e \in Cells
    <3>1. CASE e = c
      BY <1>2, <2>2, <2>3, <3>1, CellFacts DEF Count, One
    <3>2. CASE e # c
      <4>1. Count(g, e) = Count(h, e) /\ One(e, c) = 0
        BY <2>3, <3>2 DEF Count, One
      <4> QED BY <1>1, <4>1, HeapFacts
    <3> QED BY <3>1, <3>2
  <2>8. \A e \in Cells : Count(g, e) + x[e] + Times(Elems(h, c), e)
                           = Count(h, e) + y[e] + Times(Elems(g, c), e)
    <3> TAKE e \in Cells
    <3>1. Count(h, e) \in Nat /\ x[e] \in Int /\ Times(Elems(h, c), e) \in Nat /\ One(e, c) \in Nat
      BY <1>1, HeapFacts, TimesFacts DEF One
    <3> HIDE DEF y
    <3> QED BY <1>3, <2>6, <2>7, <3>1
  <2> HIDE DEF y
  <2>9. Sound(y, g)
    BY <1>3, <2>5, <2>6, <2>8, Rewired
  <2> QED BY <2>4, <2>9 DEF g, y, Kept
<1>6. CASE ~(h[c].refs > 1)
  <2>1. h[c].refs = 1 /\ x[c] = 1 /\ Slots(h, c) = {}
    <3>1. h[c].refs = 1
      BY <1>4, <1>6
    <3>2. x[c] <= Count(h, c) /\ (Count(h, c) <= x[c] => Slots(h, c) = {}) /\ x[c] \in Int
      BY <1>1, Unreferenced
    <3> QED BY <1>2, <3>1, <3>2
  <2>2. s \in Seq(Cells) /\ Len(s) <= MaxLen /\ (\A i \in DOMAIN s : Item(h, s[i], h[c].type) /\ s[i] # c)
    BY <1>1, HeapFacts
  <2>3. \A e \in Cells : Times(s, e) \in Nat /\ (Times(s, e) = 0 <=> \A i \in DOMAIN s : s[i] # e)
    BY <2>2, TimesFacts
  <2>4. g[c] = Free
    BY <1>6 DEF Drop
  <2>5. \A e \in Cells : e # c /\ Times(s, e) = 0 => g[e] = h[e]
    BY <1>2, <1>6, <2>3 DEF Drop
  <2>6. \A e \in Cells : e # c /\ Times(s, e) # 0 => g[e] = Less(h[e], Times(s, e))
    BY <1>2, <1>6, <2>3 DEF Drop
  <2>7. \A e \in Cells : Times(s, e) # 0 => h[e] # Free /\ h[e] \in CellRecords /\ ~h[e].array
    BY <1>1, <2>2, <2>3 DEF Item, Heaps
  \* Whatever holds e besides c counts.
  <2>8. ASSUME NEW e \in Cells
        PROVE  /\ Times(s, e) <= Count(h, e)
               /\ \A a \in Cells : a # c /\ (\E i \in DOMAIN Elems(h, a) : Elems(h, a)[i] = e)
                                     => Times(s, e) < Count(h, e)
    <3>1. /\ Cardinality(Slots(h, e)) = Cardinality(Rest(h, c, e)) + Times(s, e)
          /\ Cardinality(Rest(h, c, e)) \in Nat
      BY <2>2, SlotsSplit
    <3>2. Cardinality(Slots(h, e)) <= Count(h, e) /\ Cardinality(Slots(h, e)) \in Nat /\ Count(h, e) \in Nat
      BY <1>1, Unreferenced, HeapFacts
    <3>3. ASSUME NEW a \in Cells, a # c, NEW i \in DOMAIN Elems(h, a), Elems(h, a)[i] = e
          PROVE  Cardinality(Rest(h, c, e)) # 0
      <4>1. Elems(h, a) \in Seq(Cells) /\ Len(Elems(h, a)) \in 0 .. MaxLen
        BY <1>1, HeapFacts
      <4>2. i \in 1 .. MaxLen
        BY <4>1, <3>3, DataAssumption
      <4>3. <<a, i>> \in Rest(h, c, e)
        BY <3>3, <4>2 DEF Rest, Slots, Places
      <4>4. IsFiniteSet(Rest(h, c, e))
        BY PlacesFinite, FS_Subset DEF Rest
      <4> QED BY <4>3, <4>4, FS_EmptySet
    <3> QED BY <2>3, <3>1, <3>2, <3>3
  <2>9. ASSUME NEW e \in Cells, e # c
        PROVE  /\ g[e] \in CellRecords \cup {Free}
               /\ Count(g, e) = Count(h, e) - Times(s, e)
               /\ g[e] # Free => h[e] # Free /\ Alike(h[e], g[e])
               /\ Elems(g, e) = Elems(h, e)
    <3>1. CASE Times(s, e) = 0
      <4>1. g[e] = h[e]
        BY <2>5, <2>9, <3>1
      <4>2. Count(g, e) = Count(h, e) /\ Count(h, e) \in Nat
        BY <1>1, <4>1, HeapFacts DEF Count
      <4> QED BY <1>1, <3>1, <4>1, <4>2 DEF Heaps, Alike, Elems
    <3>2. CASE Times(s, e) # 0
      <4>1. /\ h[e] # Free /\ h[e] \in CellRecords /\ ~h[e].array /\ g[e] = Less(h[e], Times(s, e))
            /\ Times(s, e) \in Nat /\ Count(h, e) = h[e].refs /\ h[e].refs \in Nat /\ Times(s, e) <= h[e].refs
        BY <2>3, <2>6, <2>7, <2>8, <2>9, <3>2, CellFacts DEF Count
      <4>2. CASE h[e].refs > Times(s, e)
        <5>1. g[e] = [h[e] EXCEPT !.refs = h[e].refs - Times(s, e)]
          BY <4>1, <4>2 DEF Less
        <5>2. h[e].refs - Times(s, e) \in Nat \ {0}
          BY <4>1, <4>2
        <5>3. g[e] \in CellRecords /\ g[e].refs = h[e].refs - Times(s, e) /\ Alike(h[e], g[e])
          BY <4>1, <5>1, <5>2, CountEdited
        <5> HIDE DEF g, s
        <5> QED BY <4>1, <5>3, CellFacts DEF Count, Elems, Alike
      <4>3. CASE ~(h[e].refs > Times(s, e))
        <5>1. g[e] = Free /\ h[e].refs = Times(s, e)
          BY <4>1, <4>3 DEF Less
        <5>2. h[e].elems = <<>>
          BY <1>1, <4>1, HeapFacts DEF Good
        <5> HIDE DEF g, s
        <5> QED BY <4>1, <5>1, <5>2 DEF Count, Elems
      <4> QED BY <4>2, <4>3
    <3> QED BY <3>1, <3>2
  <2>10. g \in Heaps
    <3>1. g = [e \in Cells |-> g[e]]
      BY <1>6 DEF Drop
    <3> HIDE DEF g
    <3> QED BY <2>4, <2>9, <3>1 DEF Heaps
  <2> HIDE DEF g
  \* An element of an array that is left is held by it still.
  <2>11. ASSUME NEW a \in Cells, g[a] # Free PROVE Good(g, a)
    <3>1. a # c /\ h[a] # Free /\ Alike(h[a], g[a]) /\ Good(h, a) /\ Elems(h, a) = h[a].elems
      BY <1>1, <2>4, <2>9, <2>11, HeapFacts DEF Elems
    <3>2. ASSUME NEW i \in DOMAIN h[a].elems PROVE Item(g, h[a].elems[i], h[a].type)
      <4> DEFINE e == h[a].elems[i]
      <4>1. Item(h, e, h[a].type) /\ e \in Cells
        <5>1. h[a] \in CellRecords
          BY <1>1, <3>1, HeapFacts
        <5> QED BY <3>1, <3>2, <5>1, CellFacts DEF Good
      <4>2. i \in Nat /\ Len(h[a].elems) <= MaxLen /\ i \in 1 .. MaxLen
        <5>1. h[a].elems \in Seq(Cells) /\ Len(h[a].elems) \in 0 .. MaxLen
          BY <1>1, <3>1, HeapFacts
        <5> QED BY <3>2, <5>1, DataAssumption
      <4>3. e # c
        <5>1. e = c => <<a, i>> \in Slots(h, c)
          BY <3>1, <3>2, <4>2 DEF Slots, Places
        <5> QED BY <2>1, <5>1
      <4>4. Times(s, e) < Count(h, e) /\ Count(h, e) \in Nat /\ Times(s, e) \in Nat
        BY <1>1, <2>3, <2>8, <3>1, <4>1, HeapFacts
      <4>5. Count(g, e) # 0
        BY <2>9, <4>1, <4>3, <4>4
      <4>6. g[e] # Free
        BY <4>5 DEF Count
      <4> QED BY <2>9, <4>1, <4>3, <4>6 DEF Item, Alike
    <3> QED BY <3>1, <3>2 DEF Good, Alike
  <2>12. Shaped(g)
    BY <2>10, <2>11 DEF Shaped
  <2>13. Elems(g, c) = <<>> /\ Count(g, c) = 0
    BY <2>4 DEF Elems, Count
  <2>14. \A e \in Cells : Count(g, e) + x[e] + Times(Elems(h, c), e)
                           = Count(h, e) + y[e] + Times(Elems(g, c), e)
    <3> TAKE e \in Cells
    <3>1. Count(h, e) \in Nat /\ x[e] \in Int /\ Times(s, e) \in Nat /\ Times(Elems(g, c), e) = 0
      BY <1>1, <2>3, <2>13, HeapFacts, TimesNone
    <3>2. CASE e # c
      <4>1. y[e] = x[e]
        <5>1. y[e] = x[e] - One(e, c) /\ One(e, c) = 0
          BY <1>3, <3>2 DEF One
        <5> HIDE DEF y
        <5> QED BY <3>1, <5>1
      <4> HIDE DEF y
      <4> QED BY <2>9, <3>1, <3>2, <4>1
    <3>3. CASE e = c
      <4>1. Times(s, e) = 0
        BY <2>2, <2>3, <3>3
      <4>2. y[e] = x[e] - 1
        BY <1>3, <3>3 DEF One
      <4> HIDE DEF y
      <4> QED BY <1>2, <2>1, <2>13, <3>1, <3>3, <4>1, <4>2
    <3> QED BY <3>2, <3>3
  <2> HIDE DEF y
  <2>15. Sound(y, g)
    BY <1>3, <2>9, <2>12, <2>14, Rewired
  <2> QED BY <2>4, <2>9, <2>15 DEF g, y
<1> QED BY <1>5, <1>6

\* Who is about to change c gets a cell that nobody else refers to.
LEMMA OwnSound ==
  ASSUME NEW x, NEW h, Sound(x, h), NEW c \in Cells, h[c] # Free, h[c].refs > 1 => FreeCells(h) # {}
  PROVE  LET o == Own(h, c) IN
         /\ o = [heap |-> o.heap, cell |-> o.cell]
         /\ o.cell \in Cells
         /\ o.cell # c => h[o.cell] = Free
         /\ Sound(Plus(Minus(x, c), o.cell), o.heap)
         /\ o.heap[o.cell] # Free /\ o.heap[o.cell].refs = 1 /\ Alike(h[c], o.heap[o.cell])
         /\ \A e \in Cells : e # o.cell => Kept(h, o.heap, e)
         /\ \A e \in Cells : \A t : Item(h, e, t) => Item(o.heap, e, t)
<1> DEFINE s == Elems(h, c)
<1>1. Shaped(h) /\ x \in [Cells -> Int] /\ h \in Heaps
  BY DEF Sound, Shaped
<1>2. Count(h, c) = h[c].refs /\ h[c] \in CellRecords /\ s = h[c].elems /\ h[c].refs \in Nat \ {0}
  BY <1>1, CellFacts DEF Count, Elems, Heaps
<1>3. Minus(x, c) \in [Cells -> Int] /\ \A e \in Cells : Minus(x, c)[e] = x[e] - One(e, c)
  BY <1>1, PlusMinus
<1>4. CASE ~(h[c].refs > 1)
  <2>1. Own(h, c) = [heap |-> h, cell |-> c] /\ h[c].refs = 1
    BY <1>2, <1>4 DEF Own
  <2>2. Plus(Minus(x, c), c) = x
    <3>1. \A e \in Cells : Minus(x, c)[e] + One(e, c) = x[e]
      <4> TAKE e \in Cells
      <4> HIDE DEF s
      <4>1. x[e] \in Int /\ One(e, c) \in Int /\ Minus(x, c)[e] = x[e] - One(e, c)
        BY <1>1, <1>3 DEF One
      <4> QED BY <4>1
    <3>2. Plus(Minus(x, c), c) = [e \in Cells |-> x[e]]
      BY <3>1 DEF Plus
    <3> QED BY <1>1, <3>2
  <2>3. \A e \in Cells : Kept(h, h, e)
    BY DEF Kept, Alike
  <2> QED BY <2>1, <2>2, <2>3 DEF Alike
<1>5. CASE h[c].refs > 1
  <2> DEFINE d == NewCell(h)
             g == [e \in Cells |->
                     IF e = d THEN [h[c] EXCEPT !.refs = 1]
                     ELSE IF e = c THEN [h[c] EXCEPT !.refs = @ - 1]
                     ELSE IF \E i \in DOMAIN h[c].elems : h[c].elems[i] = e
                            THEN [h[e] EXCEPT !.refs = @ + Times(h[c].elems, e)]
                            ELSE h[e]]
             y == Plus(Minus(x, c), d)
  <2>1. Own(h, c) = [heap |-> g, cell |-> d]
    BY <1>5 DEF Own
  <2>2. d \in Cells /\ h[d] = Free /\ d # c /\ Elems(h, d) = <<>> /\ Count(h, d) = 0
    BY <1>5, NewCellFree DEF Elems, Count
  <2> HIDE DEF d
  <2>3. s \in Seq(Cells) /\ Len(s) <= MaxLen /\ (\A i \in DOMAIN s : Item(h, s[i], h[c].type) /\ s[i] # c)
    BY <1>1, HeapFacts
  <2>4. \A e \in Cells : Times(s, e) \in Nat /\ (Times(s, e) = 0 <=> \A i \in DOMAIN s : s[i] # e)
    BY <2>3, TimesFacts
  <2>5. g[d] = [h[c] EXCEPT !.refs = 1] /\ g[c] = [h[c] EXCEPT !.refs = h[c].refs - 1]
    BY <2>2
  <2>6. \A e \in Cells : e # d /\ e # c /\ Times(s, e) = 0 => g[e] = h[e]
    BY <1>2, <2>4
  <2>7. \A e \in Cells : e # d /\ e # c /\ Times(s, e) # 0
                           => g[e] = [h[e] EXCEPT !.refs = h[e].refs + Times(s, e)]
    BY <1>2, <2>4
  <2>8. \A e \in Cells : Times(s, e) # 0 => h[e] # Free /\ h[e] \in CellRecords /\ e # c /\ e # d
    BY <1>1, <2>2, <2>3, <2>4 DEF Item, Heaps
  <2>9. g = [e \in Cells |-> g[e]]
    OBVIOUS
  <2> HIDE DEF g
  <2>10. g[d] \in CellRecords /\ g[d].refs = 1 /\ Alike(h[c], g[d]) /\ g[d] # Free
    <3>1. 1 \in Nat \ {0}
      OBVIOUS
    <3>2. /\ [h[c] EXCEPT !.refs = 1] \in CellRecords /\ [h[c] EXCEPT !.refs = 1].refs = 1
          /\ Alike(h[c], [h[c] EXCEPT !.refs = 1])
      BY <1>2, <3>1, CountEdited
    <3> QED BY <2>5, <3>2, CellFacts
  <2>11. /\ g[c] \in CellRecords /\ g[c].refs = h[c].refs - 1 /\ Alike(h[c], g[c]) /\ g[c] # Free
    <3>1. h[c].refs - 1 \in Nat \ {0}
      BY <1>2, <1>5
    <3> QED BY <1>2, <2>5, <3>1, CountEdited, CellFacts
  <2>12. ASSUME NEW e \in Cells, e # d
         PROVE  /\ g[e] \in CellRecords \cup {Free} /\ Kept(h, g, e)
                /\ Count(g, e) = Count(h, e) + Times(s, e) - One(e, c)
    <3>1. CASE e = c
      <4>1. Times(s, e) = 0 /\ One(e, c) = 1
        BY <2>8, <3>1 DEF One
      <4>2. Count(g, e) = h[c].refs - 1
        BY <2>11, <3>1 DEF Count
      <4> QED BY <1>2, <2>11, <3>1, <4>1, <4>2 DEF Kept
    <3>2. CASE e # c /\ Times(s, e) = 0
      <4>1. g[e] = h[e] /\ One(e, c) = 0
        BY <2>6, <2>12, <3>2 DEF One
      <4>2. Count(g, e) = Count(h, e) /\ Count(h, e) \in Nat
        BY <1>1, <4>1, HeapFacts DEF Count
      <4> QED BY <1>1, <3>2, <4>1, <4>2 DEF Kept, Alike, Heaps
    <3>3. CASE e # c /\ Times(s, e) # 0
      <4>1. /\ h[e] # Free /\ h[e] \in CellRecords /\ One(e, c) = 0 /\ h[e].refs \in Nat
            /\ g[e] = [h[e] EXCEPT !.refs = h[e].refs + Times(s, e)] /\ Times(s, e) \in Nat
        BY <2>4, <2>7, <2>8, <2>12, <3>3, CellFacts DEF One
      <4>2. h[e].refs + Times(s, e) \in Nat \ {0}
        BY <3>3, <4>1
      <4>3. g[e] \in CellRecords /\ g[e].refs = h[e].refs + Times(s, e) /\ Alike(h[e], g[e]) /\ g[e] # Free
        <5> HIDE DEF s
        <5> QED BY <4>1, <4>2, CountEdited, CellFacts
      <4>4. Count(g, e) = g[e].refs /\ Count(h, e) = h[e].refs
        BY <4>1, <4>3 DEF Count
      <4> HIDE DEF s
      <4> QED BY <4>1, <4>3, <4>4 DEF Kept
    <3> QED BY <3>1, <3>2, <3>3
  <2>13. g \in Heaps
    BY <2>9, <2>10, <2>12 DEF Heaps
  <2>14. \A e \in Cells : \A t : Item(h, e, t) => Item(g, e, t)
    <3> TAKE e \in Cells
    <3> TAKE t
    <3>1. CASE e = d
      BY <2>2, <3>1 DEF Item
    <3>2. CASE e # d
      BY <2>12, <3>2 DEF Kept, Alike, Item
    <3> QED BY <3>1, <3>2
  <2>15. Shaped(g)
    <3>1. Good(g, d)
      <4>1. Good(h, c) /\ \A i \in DOMAIN h[c].elems : h[c].elems[i] \in Cells
        BY <1>1, <1>2, HeapFacts, CellFacts
      <4> QED BY <2>10, <2>14, <4>1 DEF Good, Alike
    <3>2. {d} \in SUBSET Cells /\ \A e \in Cells \ {d} : Kept(h, g, e)
      BY <2>2, <2>12
    <3>3. \A e \in {d} : (g[e] # Free => Good(g, e)) /\ \A t : Item(h, e, t) => Item(g, e, t)
      BY <2>2, <2>14, <3>1
    <3> QED BY <1>1, <2>13, <3>2, <3>3, ShapeKept
  <2>16. Elems(g, d) = s /\ Count(g, d) = 1
    BY <1>2, <2>10 DEF Elems, Count, Alike
  <2>17. \A e \in Cells : e # d => Elems(g, e) = Elems(h, e)
    BY <2>12, KeptElements
  <2>18. y \in [Cells -> Int] /\ \A e \in Cells : y[e] = x[e] - One(e, c) + One(e, d)
    BY <1>3, PlusMinus
  <2> HIDE DEF y
  <2>19. \A e \in Cells : Count(g, e) + x[e] + Times(Elems(h, d), e)
                           = Count(h, e) + y[e] + Times(Elems(g, d), e)
    <3> TAKE e \in Cells
    <3>1. /\ Count(h, e) \in Nat /\ x[e] \in Int /\ Times(s, e) \in Nat /\ Times(Elems(h, d), e) = 0
          /\ One(e, c) \in Nat /\ y[e] = x[e] - One(e, c) + One(e, d)
      BY <1>1, <2>2, <2>4, <2>18, HeapFacts, TimesNone DEF One
    <3>2. CASE e # d
      <4>1. One(e, d) = 0 /\ Count(g, e) = Count(h, e) + Times(s, e) - One(e, c)
        BY <2>12, <3>2 DEF One
      <4> HIDE DEF s
      <4> QED BY <2>16, <3>1, <4>1
    <3>3. CASE e = d
      <4>1. Times(s, e) = 0 /\ One(e, d) = 1 /\ One(e, c) = 0
        BY <2>2, <2>8, <3>3 DEF One
      <4> HIDE DEF s
      <4> QED BY <2>2, <2>16, <3>1, <3>3, <4>1
    <3> QED BY <3>2, <3>3
  <2>20. Sound(y, g)
    BY <2>2, <2>15, <2>17, <2>18, <2>19, Rewired
  <2> QED BY <2>1, <2>2, <2>10, <2>12, <2>14, <2>20 DEF y
<1> QED BY <1>4, <1>5

LEMMA Recounted ==
  ASSUME NEW h, NEW g, NEW x, NEW y \in [Cells -> Int], Sound(x, h), Shaped(g),
         \A e \in Cells : Elems(g, e) = Elems(h, e) /\ Count(g, e) + x[e] = Count(h, e) + y[e]
  PROVE  Sound(y, g)
<1> SUFFICES ASSUME NEW c \in Cells PROVE Count(g, c) = y[c] + Cardinality(Slots(g, c))
  BY DEF Sound
<1>1. x[c] \in Int /\ y[c] \in Int /\ Count(h, c) = x[c] + Cardinality(Slots(h, c)) /\ Shaped(h)
  BY DEF Sound
<1>2. Count(h, c) \in Nat /\ Count(g, c) \in Nat
  BY <1>1, HeapFacts
<1>3. Slots(g, c) = Slots(h, c) /\ Cardinality(Slots(h, c)) \in Nat
  BY SlotsSame, PlacesFinite, FS_CardinalityType
<1> QED BY <1>1, <1>2, <1>3

\* y has a reference to each cell of F that x has not.
Given(x, y, F) == \A c \in Cells : y[c] = x[c] + IF c \in F THEN 1 ELSE 0

BaseCells == {BaseCell(b) : b \in Base}

\* New cells for base values, each with a reference to it.
LEMMA BasesSound ==
  ASSUME NEW x, NEW h, Sound(x, h), NEW F \in SUBSET FreeCells(h),
         NEW y \in [Cells -> Int], Given(x, y, F),
         NEW g \in Heaps,
         \A e \in F : g[e] \in BaseCells, \A e \in Cells \ F : g[e] = h[e]
  PROVE  /\ Sound(y, g)
         /\ \A e \in Cells : \A t : Item(h, e, t) => Item(g, e, t)
         /\ FreeCells(g) = FreeCells(h) \ F
<1>1. Shaped(h) /\ x \in [Cells -> Int] /\ h \in Heaps
  BY DEF Sound, Shaped
<1>2. \A e \in F : e \in Cells /\ h[e] = Free
  BY DEF FreeCells
<1>3. ASSUME NEW e \in F
      PROVE  /\ g[e] \in CellRecords /\ g[e].refs = 1 /\ g[e].elems = <<>> /\ ~g[e].array /\ g[e] # Free
  <2>1. PICK b \in Base : g[e] = BaseCell(b)
    BY <1>3 DEF BaseCells
  <2>2. /\ BaseCell(b) \in CellRecords /\ BaseCell(b).refs = 1 /\ BaseCell(b).elems = <<>>
        /\ BaseCell(b).array = FALSE
    BY NewBase
  <2>3. BaseCell(b) # Free
    BY <2>2, CellFacts
  <2> QED BY <2>1, <2>2, <2>3
<1>4. \A e \in Cells \ F : g[e] = h[e]
  OBVIOUS
<1>6. \A e \in Cells : \A t : Item(h, e, t) => Item(g, e, t)
  BY <1>2, <1>4 DEF Item
<1>7. Shaped(g)
  <2>1. F \in SUBSET Cells /\ \A e \in Cells \ F : Kept(h, g, e)
    BY <1>2, <1>4 DEF Kept, Alike
  <2>2. ASSUME NEW e \in F PROVE Good(g, e)
    <3>1. Len(<<>>) = 0 /\ DOMAIN <<>> = {} /\ 0 <= MaxLen
      BY DataAssumption
    <3>2. g[e].elems = <<>>
      BY <1>3
    <3>3. Len(g[e].elems) <= MaxLen /\ DOMAIN g[e].elems = {}
      BY <3>1, <3>2
    <3> QED BY <3>2, <3>3 DEF Good
  <2>3. \A e \in F : (g[e] # Free => Good(g, e)) /\ \A t : Item(h, e, t) => Item(g, e, t)
    BY <1>2, <1>6, <2>2
  <2> QED BY <1>1, <2>1, <2>3, ShapeKept
<1>8. ASSUME NEW e \in Cells PROVE Elems(g, e) = Elems(h, e) /\ Count(g, e) + x[e] = Count(h, e) + y[e]
  <2>1. x[e] \in Int /\ Count(h, e) \in Nat
    BY <1>1, HeapFacts
  <2>2. CASE e \in F
    <3>1. Elems(g, e) = Elems(h, e) /\ Count(g, e) = 1 /\ Count(h, e) = 0 /\ y[e] = x[e] + 1
      BY <1>2, <1>3, <2>2 DEF Elems, Count, Given
    <3> QED BY <2>1, <3>1
  <2>3. CASE e \notin F
    <3>1. Elems(g, e) = Elems(h, e) /\ Count(g, e) = Count(h, e) /\ y[e] = x[e] + 0
      BY <1>4, <2>3 DEF Elems, Count, Given
    <3> QED BY <2>1, <3>1
  <2> QED BY <2>2, <2>3
<1>9. Sound(y, g)
  BY <1>7, <1>8, Recounted
<1>10. FreeCells(g) = FreeCells(h) \ F
  BY <1>3, <1>4 DEF FreeCells
<1> QED BY <1>6, <1>9, <1>10

LEMMA BaseSound ==
  ASSUME NEW x, NEW h, Sound(x, h), NEW d \in Cells, h[d] = Free, NEW b \in Base
  PROVE  LET g == [h EXCEPT ![d] = BaseCell(b)] IN
         /\ Sound(Plus(x, d), g) /\ g[d] = BaseCell(b) /\ g[d] # Free
         /\ \A e \in Cells : e # d => g[e] = h[e]
         /\ \A e \in Cells : \A t : Item(h, e, t) => Item(g, e, t)
         /\ FreeCells(g) = FreeCells(h) \ {d}
<1> DEFINE F == {d}
           y == Plus(x, d)
           g == [h EXCEPT ![d] = BaseCell(b)]
<1>1. x \in [Cells -> Int] /\ h \in [Cells -> CellRecords \cup {Free}]
  BY DEF Sound, Shaped, Heaps
<1>2. F \in SUBSET FreeCells(h)
  BY DEF FreeCells
<1>3. y \in [Cells -> Int] /\ Given(x, y, F)
  BY <1>1, PlusMinus DEF One, Given
<1>4. (\A e \in F : g[e] \in BaseCells) /\ \A e \in Cells \ F : g[e] = h[e]
  <2>1. g[d] = BaseCell(b) /\ \A e \in Cells : e # d => g[e] = h[e]
    BY <1>1
  <2>2. BaseCell(b) \in BaseCells
    BY DEF BaseCells
  <2> HIDE DEF g
  <2> QED BY <2>1, <2>2
<1>9. g \in Heaps
  <2>1. BaseCell(b) \in CellRecords
    BY NewBase
  <2> QED BY <1>1, <2>1 DEF Heaps
<1> HIDE DEF F, y, g
<1>5. /\ Sound(y, g) /\ \A e \in Cells : \A t : Item(h, e, t) => Item(g, e, t)
      /\ FreeCells(g) = FreeCells(h) \ F
  BY <1>2, <1>3, <1>4, <1>9, BasesSound
<1>6. g[d] = BaseCell(b) /\ \A e \in Cells : e # d => g[e] = h[e]
  BY <1>1 DEF g
<1>7. g[d] # Free
  BY <1>6, NewBase, CellFacts
<1>8. Sound(Plus(x, d), g) /\ FreeCells(g) = FreeCells(h) \ {d}
  BY <1>5 DEF y, F
<1> QED BY <1>5, <1>6, <1>7, <1>8 DEF g

\* References in x come into an array in place of s; those of t come out.
Traded(x, y, s, t) == \A e \in Cells : y[e] = x[e] + Times(t, e) - Times(s, e)

\* A new array takes over a reference to each of its elements.
LEMMA ArraySound ==
  ASSUME NEW x, NEW h, Sound(x, h), NEW d \in Cells, h[d] = Free, NEW t \in Types,
         NEW s \in Seq(Cells), Len(s) <= MaxLen, \A i \in DOMAIN s : Item(h, s[i], t),
         NEW y \in [Cells -> Int], Traded(Plus(x, d), y, s, <<>>)
  PROVE  LET g == [h EXCEPT ![d] = ArrayCell(t, s)] IN
         /\ Sound(y, g) /\ g[d] = ArrayCell(t, s) /\ g[d] # Free
         /\ \A e \in Cells : e # d => g[e] = h[e]
<1> DEFINE g == [h EXCEPT ![d] = ArrayCell(t, s)]
<1>1. Shaped(h) /\ x \in [Cells -> Int] /\ h \in Heaps
  BY DEF Sound, Shaped
<1>2. g[d] = ArrayCell(t, s) /\ \A e \in Cells : e # d => g[e] = h[e]
  BY <1>1 DEF Heaps
<1>3. g[d] \in CellRecords /\ g[d].refs = 1 /\ g[d].elems = s /\ g[d].array = TRUE /\ g[d].type = t /\ g[d] # Free
  <2>1. /\ ArrayCell(t, s) \in CellRecords /\ ArrayCell(t, s).refs = 1 /\ ArrayCell(t, s).type = t
        /\ ArrayCell(t, s).array = TRUE /\ ArrayCell(t, s).elems = s
    BY NewArray
  <2>2. ArrayCell(t, s) # Free
    BY <2>1, CellFacts
  <2> QED BY <1>2, <2>1, <2>2
<1>4. g \in Heaps
  <2>1. ArrayCell(t, s) \in CellRecords
    BY NewArray
  <2> QED BY <1>1, <2>1 DEF Heaps
<1> HIDE DEF g
<1>5. \A e \in Cells : \A u : Item(h, e, u) => Item(g, e, u)
  BY <1>2 DEF Item
<1>6. Shaped(g)
  <2>1. {d} \in SUBSET Cells /\ \A e \in Cells \ {d} : Kept(h, g, e)
    BY <1>2 DEF Kept, Alike
  <2>2. \A i \in DOMAIN s : s[i] \in Cells
    OBVIOUS
  <2>3. \A i \in DOMAIN s : Item(g, s[i], t)
    BY <1>5, <2>2
  <2>4. Good(g, d)
    BY <1>3, <2>3 DEF Good
  <2>5. \A e \in {d} : (g[e] # Free => Good(g, e)) /\ \A u : Item(h, e, u) => Item(g, e, u)
    BY <1>5, <2>4
  <2> QED BY <1>1, <1>4, <2>1, <2>5, ShapeKept
<1>7. \A e \in Cells : e # d => Elems(g, e) = Elems(h, e)
  BY <1>2 DEF Elems
<1>8. Elems(h, d) = <<>> /\ Elems(g, d) = s /\ Count(h, d) = 0 /\ Count(g, d) = 1
  BY <1>3 DEF Elems, Count
<1>9. ASSUME NEW e \in Cells
      PROVE  Count(g, e) + x[e] + Times(Elems(h, d), e) = Count(h, e) + y[e] + Times(Elems(g, d), e)
  <2>1. /\ x[e] \in Int /\ Count(h, e) \in Nat /\ Times(<<>>, e) = 0 /\ Times(s, e) \in Nat /\ y[e] \in Int
    BY <1>1, HeapFacts, TimesNone, TimesFacts
  <2>5. y[e] = Plus(x, d)[e] + 0 - Times(s, e) /\ Plus(x, d)[e] = x[e] + One(e, d)
    BY <1>1, TimesNone, PlusMinus DEF Traded
  <2>2. Count(g, e) = Count(h, e) + One(e, d)
    <3>1. CASE e = d
      BY <1>8, <3>1 DEF One
    <3>2. CASE e # d
      <4>1. Count(g, e) = Count(h, e) /\ One(e, d) = 0
        BY <1>2, <3>2 DEF Count, One
      <4> QED BY <2>1, <4>1
    <3> QED BY <3>1, <3>2
  <2>3. One(e, d) \in Nat
    BY DEF One
  <2>4. Count(g, e) + x[e] + 0 = Count(h, e) + y[e] + Times(s, e)
    BY <2>1, <2>2, <2>3, <2>5, SMTT(30)
  <2> QED BY <1>8, <2>1, <2>4
<1>10. Sound(y, g)
  BY <1>6, <1>7, <1>9, Rewired
<1> QED BY <1>2, <1>3, <1>10 DEF g

\* An array's elements change.
LEMMA ElementsSound ==
  ASSUME NEW x, NEW h, Sound(x, h), NEW d \in Cells, h[d] # Free, h[d].array,
         NEW s \in Seq(Cells), Len(s) <= MaxLen, \A i \in DOMAIN s : Item(h, s[i], h[d].type),
         NEW y \in [Cells -> Int], Traded(x, y, s, h[d].elems)
  PROVE  LET g == [h EXCEPT ![d].elems = s] IN
         /\ Sound(y, g) /\ g[d] = [h[d] EXCEPT !.elems = s] /\ g[d] # Free
         /\ \A e \in Cells : e # d => g[e] = h[e]
<1> DEFINE g == [h EXCEPT ![d].elems = s]
<1>1. Shaped(h) /\ x \in [Cells -> Int] /\ h \in Heaps /\ h[d] \in CellRecords
  BY DEF Sound, Shaped, Heaps
<1>2. g = [h EXCEPT ![d] = [h[d] EXCEPT !.elems = s]]
  OBVIOUS
<1> HIDE DEF g
<1>3. g[d] = [h[d] EXCEPT !.elems = s] /\ \A e \in Cells : e # d => g[e] = h[e]
  BY <1>1, <1>2 DEF Heaps
<1>4. /\ g[d] \in CellRecords /\ g[d].refs = h[d].refs /\ g[d].elems = s /\ g[d].array = h[d].array
      /\ g[d].type = h[d].type
  <2>1. [h[d] EXCEPT !.elems = s].refs = h[d].refs /\ [h[d] EXCEPT !.elems = s].type = h[d].type
    BY <1>1, ElementsEdited
  <2>2. /\ [h[d] EXCEPT !.elems = s] \in CellRecords /\ [h[d] EXCEPT !.elems = s].elems = s
        /\ [h[d] EXCEPT !.elems = s].array = h[d].array
    BY <1>1, ElementsEdited
  <2> QED BY <1>3, <2>1, <2>2
<1>5. g \in Heaps /\ g[d] # Free
  BY <1>1, <1>2, <1>3, <1>4, CellFacts DEF Heaps
<1>6. \A e \in Cells : \A u : Item(h, e, u) => Item(g, e, u)
  BY <1>3 DEF Item
<1>7. Shaped(g)
  <2>1. {d} \in SUBSET Cells /\ \A e \in Cells \ {d} : Kept(h, g, e)
    BY <1>3 DEF Kept, Alike
  <2>2. \A i \in DOMAIN s : s[i] \in Cells
    OBVIOUS
  <2>3. \A i \in DOMAIN s : Item(g, s[i], h[d].type)
    BY <1>6, <2>2
  <2>4. Good(g, d)
    BY <1>4, <2>3 DEF Good
  <2>5. \A e \in {d} : (g[e] # Free => Good(g, e)) /\ \A u : Item(h, e, u) => Item(g, e, u)
    BY <1>6, <2>4
  <2> QED BY <1>1, <1>5, <2>1, <2>5, ShapeKept
<1>8. \A e \in Cells : e # d => Elems(g, e) = Elems(h, e)
  BY <1>3 DEF Elems
<1>9. Elems(h, d) = h[d].elems /\ Elems(g, d) = s
  BY <1>4, <1>5 DEF Elems
<1>10. ASSUME NEW e \in Cells
       PROVE  Count(g, e) + x[e] + Times(Elems(h, d), e) = Count(h, e) + y[e] + Times(Elems(g, d), e)
  <2>1. /\ x[e] \in Int /\ Count(h, e) \in Nat /\ Times(h[d].elems, e) \in Nat /\ Times(s, e) \in Nat
        /\ y[e] \in Int /\ y[e] = x[e] + Times(h[d].elems, e) - Times(s, e)
    BY <1>1, HeapFacts, TimesFacts, CellFacts DEF Traded
  <2>2. Count(g, e) = Count(h, e)
    BY <1>3, <1>4, <1>5 DEF Count
  <2>3. Count(h, e) + x[e] + Times(h[d].elems, e) = Count(h, e) + y[e] + Times(s, e)
    BY <2>1
  <2> QED BY <1>9, <2>2, <2>3
<1>11. Sound(y, g)
  BY <1>7, <1>8, <1>10, Rewired
<1> QED BY <1>3, <1>5, <1>11 DEF g
-----------------------------------------------------------------------------
(* Arrays with an element more, less, or another.                          *)

Without(s, i) == SubSeq(s, 1, i - 1) \o SubSeq(s, i + 1, Len(s))
With(s, k, e) == SubSeq(s, 1, k - 1) \o <<e>> \o SubSeq(s, k, Len(s))

LEMMA WithFacts ==
  ASSUME NEW S, NEW s \in Seq(S), NEW k \in 1 .. Len(s) + 1, NEW e \in S
  PROVE  /\ With(s, k, e) \in Seq(S) /\ Len(With(s, k, e)) = Len(s) + 1 /\ With(s, k, e)[k] = e
         /\ \A i \in 1 .. (k - 1) : With(s, k, e)[i] = s[i]
         /\ \A i \in k .. Len(s) : With(s, k, e)[i + 1] = s[i]
<1> DEFINE a == SubSeq(s, 1, k - 1)
           b == SubSeq(s, k, Len(s))
           c == a \o <<e>>
<1>1. Len(s) \in Nat /\ k \in Int /\ k - 1 \in Int /\ \A i \in 1 .. Len(s) : s[i] \in S
  OBVIOUS
<1>2. a \in Seq(S) /\ Len(a) = k - 1 /\ \A i \in 1 .. (k - 1) : a[i] = s[i]
  <2>1. \A i \in 1 .. (k - 1) : s[i] \in S
    BY <1>1
  <2>2. /\ a \in Seq(S) /\ Len(a) = IF 1 <= k - 1 THEN (k - 1) - 1 + 1 ELSE 0
        /\ \A i \in 1 .. (k - 1) - 1 + 1 : a[i] = s[1 + i - 1]
    BY <1>1, <2>1, SubSeqProperties
  <2> HIDE DEF a
  <2> QED BY <1>1, <2>2
<1>3. b \in Seq(S) /\ Len(b) = Len(s) - k + 1 /\ \A i \in k .. Len(s) : b[i - k + 1] = s[i]
  <2>1. \A i \in k .. Len(s) : s[i] \in S
    BY <1>1
  <2>2. /\ b \in Seq(S) /\ Len(b) = IF k <= Len(s) THEN Len(s) - k + 1 ELSE 0
        /\ \A i \in 1 .. Len(s) - k + 1 : b[i] = s[k + i - 1]
    BY <1>1, <2>1, SubSeqProperties
  <2> HIDE DEF b
  <2>3. Len(b) = Len(s) - k + 1
    BY <1>1, <2>2
  <2>4. ASSUME NEW i \in k .. Len(s) PROVE b[i - k + 1] = s[i]
    <3>1. i - k + 1 \in 1 .. Len(s) - k + 1 /\ k + (i - k + 1) - 1 = i
      BY <1>1
    <3>2. b[i - k + 1] = s[k + (i - k + 1) - 1]
      BY <2>2, <3>1
    <3> QED BY <3>1, <3>2
  <2> QED BY <2>2, <2>3, <2>4
<1> HIDE DEF a, b
<1>4. c \in Seq(S) /\ Len(c) = k /\ c[k] = e /\ \A i \in 1 .. (k - 1) : c[i] = s[i]
  <2>1. <<e>> \in Seq(S) /\ Len(<<e>>) = 1 /\ <<e>>[1] = e
    OBVIOUS
  <2>2. /\ c \in Seq(S) /\ Len(c) = Len(a) + Len(<<e>>)
        /\ \A i \in 1 .. Len(a) + Len(<<e>>) : c[i] = IF i <= Len(a) THEN a[i] ELSE <<e>>[i - Len(a)]
    BY <1>2, <2>1, ConcatProperties
  <2> HIDE DEF c
  <2>3. Len(c) = k /\ \A i \in 1 .. (k - 1) : c[i] = s[i]
    BY <1>1, <1>2, <2>1, <2>2
  <2>4. c[k] = <<e>>[k - Len(a)] /\ k - Len(a) = 1
    BY <1>1, <1>2, <2>1, <2>2
  <2> QED BY <2>1, <2>2, <2>3, <2>4
<1> HIDE DEF c
<1>5. /\ c \o b \in Seq(S) /\ Len(c \o b) = Len(c) + Len(b)
      /\ \A i \in 1 .. Len(c) + Len(b) : (c \o b)[i] = IF i <= Len(c) THEN c[i] ELSE b[i - Len(c)]
  BY <1>3, <1>4, ConcatProperties
<1>6. With(s, k, e) = c \o b
  BY DEF With, a, b, c
<1>7. Len(c \o b) = Len(s) + 1 /\ \A i \in 1 .. k : (c \o b)[i] = c[i]
  BY <1>1, <1>3, <1>4, <1>5
<1>8. ASSUME NEW i \in k .. Len(s) PROVE (c \o b)[i + 1] = s[i]
  <2>1. i + 1 \in 1 .. Len(c) + Len(b) /\ ~(i + 1 <= Len(c)) /\ i + 1 - Len(c) = i - k + 1
    BY <1>1, <1>3, <1>4
  <2> QED BY <1>3, <1>5, <2>1, SMTT(30)
<1>9. (c \o b)[k] = e /\ \A i \in 1 .. (k - 1) : (c \o b)[i] = s[i]
  BY <1>1, <1>4, <1>7
<1> QED BY <1>5, <1>6, <1>7, <1>8, <1>9

LEMMA WithoutFacts ==
  ASSUME NEW S, NEW s \in Seq(S), NEW k \in 1 .. Len(s)
  PROVE  /\ Without(s, k) \in Seq(S) /\ Len(s) = Len(Without(s, k)) + 1
         /\ \A i \in 1 .. (k - 1) : Without(s, k)[i] = s[i]
         /\ \A i \in k .. Len(Without(s, k)) : Without(s, k)[i] = s[i + 1]
<1> DEFINE a == SubSeq(s, 1, k - 1)
           b == SubSeq(s, k + 1, Len(s))
<1>1. Len(s) \in Nat /\ k \in Int /\ k - 1 \in Int /\ k + 1 \in Int /\ \A i \in 1 .. Len(s) : s[i] \in S
  OBVIOUS
<1>2. a \in Seq(S) /\ Len(a) = k - 1 /\ \A i \in 1 .. (k - 1) : a[i] = s[i]
  <2>1. \A i \in 1 .. (k - 1) : s[i] \in S
    BY <1>1
  <2>2. /\ a \in Seq(S) /\ Len(a) = IF 1 <= k - 1 THEN (k - 1) - 1 + 1 ELSE 0
        /\ \A i \in 1 .. (k - 1) - 1 + 1 : a[i] = s[1 + i - 1]
    BY <1>1, <2>1, SubSeqProperties
  <2> HIDE DEF a
  <2> QED BY <1>1, <2>2
<1>3. b \in Seq(S) /\ Len(b) = Len(s) - k /\ \A i \in 1 .. Len(s) - k : b[i] = s[k + i]
  <2>1. \A i \in k + 1 .. Len(s) : s[i] \in S
    BY <1>1
  <2>2. /\ b \in Seq(S) /\ Len(b) = IF k + 1 <= Len(s) THEN Len(s) - (k + 1) + 1 ELSE 0
        /\ \A i \in 1 .. Len(s) - (k + 1) + 1 : b[i] = s[(k + 1) + i - 1]
    BY <1>1, <2>1, SubSeqProperties
  <2> HIDE DEF b
  <2>3. Len(b) = Len(s) - k /\ Len(s) - (k + 1) + 1 = Len(s) - k
    BY <1>1, <2>2
  <2>4. \A i \in 1 .. Len(s) - k : (k + 1) + i - 1 = k + i
    BY <1>1
  <2> QED BY <2>2, <2>3, <2>4
<1> HIDE DEF a, b
<1>4. /\ a \o b \in Seq(S) /\ Len(a \o b) = Len(a) + Len(b)
      /\ \A i \in 1 .. Len(a) + Len(b) : (a \o b)[i] = IF i <= Len(a) THEN a[i] ELSE b[i - Len(a)]
  BY <1>2, <1>3, ConcatProperties
<1>5. Without(s, k) = a \o b
  BY DEF Without, a, b
<1>6. Len(a \o b) + 1 = Len(s) /\ \A i \in 1 .. (k - 1) : (a \o b)[i] = s[i]
  <2>1. Len(a \o b) + 1 = Len(s) /\ Len(b) \in Nat
    BY <1>1, <1>2, <1>3, <1>4
  <2>2. ASSUME NEW i \in 1 .. (k - 1) PROVE (a \o b)[i] = s[i]
    <3>1. i \in 1 .. Len(a) + Len(b) /\ i <= Len(a)
      BY <1>1, <1>2, <2>1
    <3> QED BY <1>2, <1>4, <3>1
  <2> QED BY <2>1, <2>2
<1>7. ASSUME NEW i \in k .. Len(a \o b) PROVE (a \o b)[i] = s[i + 1]
  <2>1. /\ i \in 1 .. Len(a) + Len(b) /\ ~(i <= Len(a)) /\ i - Len(a) \in 1 .. Len(s) - k
        /\ k + (i - Len(a)) = i + 1
    BY <1>1, <1>2, <1>3, <1>4
  <2>2. (a \o b)[i] = b[i - Len(a)]
    BY <1>4, <2>1
  <2>3. b[i - Len(a)] = s[k + (i - Len(a))]
    BY <1>3, <2>1
  <2> QED BY <2>1, <2>2, <2>3
<1> QED BY <1>4, <1>5, <1>6, <1>7

LEMMA TimesWith ==
  ASSUME NEW s \in Seq(Cells), NEW k \in 1 .. Len(s) + 1, NEW e \in Cells, NEW c
  PROVE  Times(With(s, k, e), c) = Times(s, c) + One(c, e)
<1> DEFINE t == With(s, k, e)
<1>1. /\ t \in Seq(Cells) /\ Len(t) = Len(s) + 1 /\ t[k] = e
      /\ \A i \in 1 .. (k - 1) : t[i] = s[i]
      /\ \A i \in k .. Len(s) : t[i + 1] = s[i]
  BY WithFacts
<1> HIDE DEF t
<1>2. Times(t, c) = Times(s, c) + One(c, t[k])
  BY <1>1, TimesInserted, ZenonT(40)
<1> QED BY <1>1, <1>2 DEF t

LEMMA TimesWithout ==
  ASSUME NEW s \in Seq(Cells), NEW k \in 1 .. Len(s), NEW c
  PROVE  Times(s, c) = Times(Without(s, k), c) + One(c, s[k])
<1> DEFINE t == Without(s, k)
<1>1. /\ t \in Seq(Cells) /\ Len(s) = Len(t) + 1
      /\ \A i \in 1 .. (k - 1) : s[i] = t[i]
      /\ \A i \in k .. Len(t) : s[i + 1] = t[i]
  BY WithoutFacts
<1> HIDE DEF t
<1>2. Times(s, c) = Times(t, c) + One(c, s[k])
  BY <1>1, TimesInserted
<1> QED BY <1>2 DEF t

LEMMA TimesReplaced ==
  ASSUME NEW s \in Seq(Cells), NEW k \in 1 .. Len(s), NEW e \in Cells, NEW c
  PROVE  Times([s EXCEPT ![k] = e], c) = Times(s, c) + One(c, e) - One(c, s[k])
<1> DEFINE t == Without(s, k)
           r == [s EXCEPT ![k] = e]
<1>1. /\ t \in Seq(Cells) /\ Len(s) = Len(t) + 1
      /\ \A i \in 1 .. (k - 1) : s[i] = t[i]
      /\ \A i \in k .. Len(t) : s[i + 1] = t[i]
  BY WithoutFacts
<1> HIDE DEF t
<1>2. Len(s) \in Nat /\ Len(t) \in Nat /\ k \in Nat /\ k >= 1
  BY <1>1
<1>3. /\ r \in Seq(Cells) /\ Len(r) = Len(s) /\ r[k] = e
      /\ \A i \in 1 .. Len(s) : i # k => r[i] = s[i]
  OBVIOUS
<1> HIDE DEF r
<1>4. /\ \A i \in 1 .. (k - 1) : r[i] = t[i]
      /\ \A i \in k .. Len(t) : r[i + 1] = t[i]
  BY <1>1, <1>2, <1>3
<1>5. Times(s, c) = Times(t, c) + One(c, s[k])
  BY <1>1, TimesInserted
<1>6. Times(r, c) = Times(t, c) + One(c, r[k])
  <2>1. r \in Seq(Cells) /\ t \in Seq(Cells) /\ k \in 1 .. Len(r) /\ Len(r) = Len(t) + 1
    BY <1>1, <1>3
  <2> QED BY <1>4, <2>1, TimesInserted
<1>7. Times(t, c) \in Nat /\ One(c, s[k]) \in Nat /\ One(c, e) \in Nat
  BY <1>1, TimesFacts DEF One
<1> QED BY <1>3, <1>5, <1>6, <1>7 DEF r
-----------------------------------------------------------------------------
(* What is done to a variant.                                              *)

\* The variant's own cell takes another number.
NumberOf(h, c, n) == LET o == Own(h, c) IN [o EXCEPT !.heap[o.cell].num = n]

LEMMA NumberOfSound ==
  ASSUME NEW x, NEW h, Sound(x, h), NEW c \in Cells, h[c] # Free, FreeCells(h) # {},
         NEW n \in 0 .. Width - 1
  PROVE  LET o == NumberOf(h, c, n) IN
         /\ o = [heap |-> o.heap, cell |-> o.cell] /\ o.cell \in Cells
         /\ o.cell # c => h[o.cell] = Free
         /\ Sound(Plus(Minus(x, c), o.cell), o.heap)
         /\ o.heap[o.cell] # Free /\ o.heap[o.cell].refs = 1 /\ o.heap[o.cell].num = n
         /\ o.heap[o.cell].type = h[c].type /\ o.heap[o.cell].array = h[c].array
         /\ o.heap[o.cell].elems = h[c].elems
         /\ \A e \in Cells : e # o.cell => Kept(h, o.heap, e)
         /\ \A e \in Cells : \A t : Item(h, e, t) => Item(o.heap, e, t)
<1> DEFINE o == Own(h, c)
           d == o.cell
           g == o.heap
           f == [g EXCEPT ![d].num = n]
<1>1. /\ o = [heap |-> g, cell |-> d]
      /\ d \in Cells /\ (d # c => h[d] = Free)
      /\ Sound(Plus(Minus(x, c), d), g)
      /\ g[d] # Free /\ g[d].refs = 1 /\ Alike(h[c], g[d])
      /\ \A e \in Cells : e # d => Kept(h, g, e)
      /\ \A e \in Cells : \A t : Item(h, e, t) => Item(g, e, t)
  BY OwnSound
<1> HIDE DEF o
<1>2. NumberOf(h, c, n) = [heap |-> f, cell |-> d]
  <2>1. NumberOf(h, c, n) = [o EXCEPT !.heap[o.cell].num = n]
    BY DEF NumberOf, o
  <2>2. o = [heap |-> g, cell |-> d]
    BY <1>1
  <2>3. [o EXCEPT !.heap[o.cell].num = n] = [heap |-> f, cell |-> d]
    BY <2>2
  <2> QED BY <2>1, <2>3
<1> HIDE DEF d, g
<1>3. d \in Cells /\ (d # c => h[d] = Free)
  BY <1>1
<1>4. /\ Sound(Plus(Minus(x, c), d), f) /\ \A e \in Cells : e # d => f[e] = g[e]
      /\ f[d] = [g[d] EXCEPT !.num = n] /\ f[d] # Free
  BY <1>1, <1>3, NumberSound
<1>5. g[d] \in CellRecords
  BY <1>1, <1>3 DEF Sound, Shaped, Heaps
<1>6. /\ [g[d] EXCEPT !.num = n].refs = g[d].refs /\ [g[d] EXCEPT !.num = n].type = g[d].type
      /\ [g[d] EXCEPT !.num = n].array = g[d].array /\ [g[d] EXCEPT !.num = n].elems = g[d].elems
      /\ [g[d] EXCEPT !.num = n].num = n
  BY <1>5, NumberEdited
<1> HIDE DEF f
<1>7. /\ f[d].refs = 1 /\ f[d].num = n /\ f[d].type = h[c].type /\ f[d].array = h[c].array
      /\ f[d].elems = h[c].elems
  BY <1>1, <1>4, <1>6 DEF Alike
<1>8. \A e \in Cells : e # d => Kept(h, f, e)
  BY <1>1, <1>4 DEF Kept
<1>9. \A e \in Cells : \A t : Item(h, e, t) => Item(f, e, t)
  <2> TAKE e \in Cells
  <2> TAKE t
  <2> SUFFICES ASSUME Item(h, e, t) PROVE Item(f, e, t)
    OBVIOUS
  <2>1. Item(g, e, t)
    BY <1>1
  <2>2. CASE e # d
    BY <1>4, <2>1, <2>2 DEF Item
  <2>3. CASE e = d
    BY <1>4, <1>6, <2>1, <2>3 DEF Item
  <2> QED BY <2>2, <2>3
<1>10. /\ NumberOf(h, c, n).heap = f /\ NumberOf(h, c, n).cell = d
       /\ NumberOf(h, c, n) = [heap |-> NumberOf(h, c, n).heap, cell |-> NumberOf(h, c, n).cell]
  BY <1>2
<1> QED BY <1>3, <1>4, <1>7, <1>8, <1>9, <1>10, ZenonT(40)

\* clear() of a variant that points at r, or at nothing.
LEMMA ReleaseSound ==
  ASSUME NEW x, NEW h, Sound(x, h), NEW r \in Cells \cup {Null}, r # Null => x[r] >= 1,
         \A e \in Cells : x[e] >= 0
  PROVE  /\ Sound(Minus(x, r), Release(h, r))
         /\ \A e \in Cells : Release(h, r)[e] # Free => h[e] # Free /\ Alike(h[e], Release(h, r)[e])
         /\ FreeCells(h) \subseteq FreeCells(Release(h, r))
<1>1. CASE r = Null
  <2>1. Release(h, r) = h
    BY <1>1 DEF Release
  <2>2. x = Minus(x, r)
    <3>1. x \in [Cells -> Int]
      BY DEF Sound
    <3>2. \A e \in Cells : x[e] - One(e, r) = x[e]
      BY <1>1, <3>1, VarsAssumption DEF One
    <3>3. Minus(x, r) = [e \in Cells |-> x[e]]
      BY <3>2 DEF Minus
    <3> QED BY <3>1, <3>3
  <2> QED BY <2>1, <2>2 DEF Alike
<1>2. CASE r # Null
  <2>1. Release(h, r) = Drop(h, r) /\ r \in Cells /\ x[r] >= 1
    BY <1>2 DEF Release
  <2>2. /\ Sound(Minus(x, r), Drop(h, r))
        /\ \A e \in Cells : Drop(h, r)[e] # Free => h[e] # Free /\ Alike(h[e], Drop(h, r)[e])
    BY <2>1, DropSound
  <2> QED BY <2>1, <2>2 DEF FreeCells
<1> QED BY <1>1, <1>2

LEMMA WriteSound ==
  ASSUME NEW x, NEW h, Sound(x, h), NEW r \in Cells \cup {Null}, r # Null => x[r] >= 1,
         \A e \in Cells : x[e] >= 0, FreeCells(h) # {}, NEW b \in Base
  PROVE  LET o == Write(h, r, b) IN
         /\ o = [heap |-> o.heap, cell |-> o.cell] /\ o.cell \in Cells
         /\ Sound(Plus(Minus(x, r), o.cell), o.heap)
<1>1. CASE r # Null /\ ~h[r].array /\ h[r].type = b.type
  <2>1. Write(h, r, b) = NumberOf(h, r, b.num) /\ r \in Cells
    BY <1>1 DEF Write, NumberOf
  <2>2. h[r] # Free
    <3>1. x[r] <= Count(h, r) /\ Count(h, r) \in Nat /\ x[r] >= 1 /\ x[r] \in Int
      BY <1>1, <2>1, Unreferenced, HeapFacts DEF Sound
    <3> QED BY <3>1 DEF Count
  <2>3. b.num \in 0 .. Width - 1
    BY DEF Base
  <2>4. LET o == NumberOf(h, r, b.num) IN
        /\ o = [heap |-> o.heap, cell |-> o.cell] /\ o.cell \in Cells
        /\ Sound(Plus(Minus(x, r), o.cell), o.heap)
    BY <2>1, <2>2, <2>3, NumberOfSound
  <2> QED BY <2>1, <2>4
<1>2. CASE ~(r # Null /\ ~h[r].array /\ h[r].type = b.type)
  <2> DEFINE g == Release(h, r)
             d == NewCell(g)
             f == [g EXCEPT ![d] = BaseCell(b)]
  <2>1. Write(h, r, b) = [heap |-> f, cell |-> d]
    BY <1>2 DEF Write
  <2>2. Sound(Minus(x, r), g) /\ FreeCells(h) \subseteq FreeCells(g)
    BY ReleaseSound
  <2>3. d \in Cells /\ g[d] = Free
    BY <2>2, NewCellFree
  <2> HIDE DEF g, d
  <2>4. Sound(Plus(Minus(x, r), d), f)
    BY <2>2, <2>3, BaseSound
  <2> HIDE DEF f
  <2> QED BY <2>1, <2>3, <2>4
<1> QED BY <1>1, <1>2

\* e comes into the array of c, or after c.
LEMMA InsertSound ==
  ASSUME NEW x, NEW h, Sound(x, h), NEW c \in Cells, h[c] # Free, FreeCells(h) # {},
         NEW e \in Cells, Item(h, e, h[c].type), NEW k,
         h[c].array => Len(h[c].elems) < MaxLen /\ k \in 1 .. Len(h[c].elems) + 1
  PROVE  LET o == Insert(h, c, k, e) IN
         /\ o = [heap |-> o.heap, cell |-> o.cell] /\ o.cell \in Cells
         /\ Sound(Minus(Plus(Minus(x, c), o.cell), e), o.heap)
<1>0. Shaped(h) /\ x \in [Cells -> Int] /\ h[c] \in CellRecords /\ h[c].type \in Types
  BY CellFacts DEF Sound, Shaped, Heaps
<1>1. CASE h[c].array
  <2> DEFINE s == h[c].elems
             t == With(s, k, e)
             o == Own(h, c)
             d == o.cell
             g == o.heap
             f == [g EXCEPT ![d].elems = t]
  <2>1. /\ o = [heap |-> g, cell |-> d]
        /\ d \in Cells /\ (d # c => h[d] = Free)
        /\ Sound(Plus(Minus(x, c), d), g)
        /\ g[d] # Free /\ Alike(h[c], g[d])
        /\ \A a \in Cells : \A u : Item(h, a, u) => Item(g, a, u)
    BY OwnSound
  <2>2. s \in Seq(Cells) /\ Len(s) < MaxLen /\ k \in 1 .. Len(s) + 1
    BY <1>0, <1>1, CellFacts
  <2>13. \A j \in 1 .. Len(s) : Item(h, s[j], h[c].type) /\ s[j] \in Cells
    <3>1. Good(h, c) /\ DOMAIN s = 1 .. Len(s)
      BY <1>0, <2>2, HeapFacts
    <3> QED BY <2>2, <3>1 DEF Good
  <2>5. Insert(h, c, k, e) = [o EXCEPT !.heap[o.cell].elems = t]
    BY <1>1 DEF Insert, With
  <2>14. g[d].type = h[c].type /\ g[d].elems = s
    BY <2>1 DEF Alike
  <2>15. g[d].array
    <3>1. g[d].array = h[c].array
      BY <2>1 DEF Alike
    <3> QED BY <1>1, <3>1, Zenon
  <2> HIDE DEF s
  <2>3. /\ t \in Seq(Cells) /\ Len(t) = Len(s) + 1 /\ t[k] = e
        /\ \A i \in 1 .. (k - 1) : t[i] = s[i]
        /\ \A i \in k .. Len(s) : t[i + 1] = s[i]
    BY <2>2, WithFacts
  <2>4. \A a \in Cells : Times(t, a) = Times(s, a) + One(a, e)
    BY <2>2, TimesWith
  <2> HIDE DEF o, t
  <2>6. Insert(h, c, k, e) = [heap |-> f, cell |-> d]
    BY <2>1, <2>5
  <2> HIDE DEF d, g
  <2>7. Len(s) \in Nat /\ Len(t) <= MaxLen /\ DOMAIN t = 1 .. Len(t) /\ k \in Nat
    BY <2>2, <2>3, DataAssumption
  <2>8. ASSUME NEW i \in DOMAIN t PROVE Item(g, t[i], g[d].type)
    <3>1. g[d].type = h[c].type /\ \A j \in 1 .. Len(s) : Item(h, s[j], h[c].type) /\ s[j] \in Cells
      BY <2>13, <2>14
    <3>2. CASE i < k
      <4>1. i \in 1 .. (k - 1) /\ i \in 1 .. Len(s)
        BY <2>2, <2>3, <2>7, <3>2
      <4> QED BY <2>1, <2>3, <3>1, <4>1
    <3>3. CASE i = k
      BY <2>1, <2>3, <3>1, <3>3
    <3>4. CASE i > k
      <4>1. i - 1 \in k .. Len(s) /\ (i - 1) + 1 = i /\ i - 1 \in 1 .. Len(s)
        BY <2>2, <2>3, <2>7, <3>4
      <4>2. t[i] = s[i - 1]
        BY <2>3, <4>1
      <4> QED BY <2>1, <3>1, <4>1, <4>2
    <3> QED BY <2>7, <3>2, <3>3, <3>4
  <2> DEFINE z == Plus(Minus(x, c), d)
             y == Minus(z, e)
  <2>9. /\ z \in [Cells -> Int] /\ y \in [Cells -> Int]
        /\ \A a \in Cells : y[a] = z[a] - One(a, e)
    BY <1>0, PlusMinus
  <2>10. Sound(z, g) /\ d \in Cells /\ g[d] # Free /\ g[d].array /\ g[d].elems = s
    BY <2>1, <2>14, <2>15
  <2> HIDE DEF y, z
  <2>11. Traded(z, y, t, g[d].elems)
    <3> SUFFICES ASSUME NEW a \in Cells PROVE y[a] = z[a] + Times(g[d].elems, a) - Times(t, a)
      BY DEF Traded
    <3>1. z[a] \in Int /\ Times(s, a) \in Nat /\ One(a, e) \in Nat
      BY <2>2, <2>9, TimesFacts DEF One
    <3>2. y[a] = z[a] - One(a, e) /\ Times(t, a) = Times(s, a) + One(a, e)
      BY <2>4, <2>9
    <3>3. y[a] = z[a] + Times(s, a) - Times(t, a)
      BY <3>1, <3>2
    <3> QED BY <2>10, <3>3
  <2>12. Sound(y, f)
    BY <2>3, <2>7, <2>8, <2>9, <2>10, <2>11, ElementsSound
  <2> HIDE DEF f
  <2> QED BY <2>6, <2>10, <2>12 DEF y, z
<1>2. CASE ~h[c].array
  <2> DEFINE d == NewCell(h)
             s == <<c, e>>
             f == [h EXCEPT ![d] = ArrayCell(h[c].type, s)]
             y == Minus(Plus(Minus(x, c), d), e)
  <2>1. Insert(h, c, k, e) = [heap |-> f, cell |-> d]
    BY <1>2 DEF Insert
  <2>2. d \in Cells /\ h[d] = Free
    BY NewCellFree
  <2> HIDE DEF d
  <2>3. s \in Seq(Cells) /\ Len(s) = 2 /\ DOMAIN s = {1, 2} /\ s[1] = c /\ s[2] = e
    OBVIOUS
  <2>4. Len(s) <= MaxLen /\ \A i \in DOMAIN s : Item(h, s[i], h[c].type)
    <3>1. Item(h, c, h[c].type)
      BY <1>2 DEF Item
    <3> QED BY <2>3, <3>1, DataAssumption
  <2>5. \A a \in Cells : Times(s, a) = One(a, c) + One(a, e)
    BY TimesPair
  <2> HIDE DEF s
  <2>6. y \in [Cells -> Int] /\ \A a \in Cells : y[a] = x[a] - One(a, c) + One(a, d) - One(a, e)
    <3> DEFINE u == Minus(x, c)
               w == Plus(u, d)
    <3>1. u \in [Cells -> Int] /\ \A a \in Cells : u[a] = x[a] - One(a, c)
      BY <1>0, PlusMinus
    <3> HIDE DEF u
    <3>2. w \in [Cells -> Int] /\ \A a \in Cells : w[a] = u[a] + One(a, d)
      BY <3>1, PlusMinus
    <3> HIDE DEF w
    <3>3. y \in [Cells -> Int] /\ \A a \in Cells : y[a] = w[a] - One(a, e)
      <4>1. y = Minus(w, e)
        BY DEF w, u
      <4> HIDE DEF y
      <4> QED BY <3>2, <4>1, PlusMinus
    <3> HIDE DEF y
    <3>4. ASSUME NEW a \in Cells PROVE y[a] = x[a] - One(a, c) + One(a, d) - One(a, e)
      <4>1. x[a] \in Int /\ One(a, c) \in Int /\ One(a, d) \in Int /\ One(a, e) \in Int
        BY <1>0 DEF One
      <4>2. u[a] = x[a] - One(a, c) /\ w[a] = u[a] + One(a, d) /\ y[a] = w[a] - One(a, e)
        BY <3>1, <3>2, <3>3
      <4> QED BY <4>1, <4>2
    <3> QED BY <3>3, <3>4
  <2> HIDE DEF y
  <2>7. Traded(Plus(x, d), y, s, <<>>)
    <3> SUFFICES ASSUME NEW a \in Cells PROVE y[a] = Plus(x, d)[a] + Times(<<>>, a) - Times(s, a)
      BY DEF Traded
    <3>1. x[a] \in Int /\ One(a, c) \in Nat /\ One(a, d) \in Nat /\ One(a, e) \in Nat
      BY <1>0 DEF One
    <3>2. Plus(x, d)[a] = x[a] + One(a, d) /\ Times(<<>>, a) = 0
      BY <1>0, PlusMinus, TimesNone
    <3>3. /\ y[a] = x[a] - One(a, c) + One(a, d) - One(a, e)
          /\ Times(s, a) = One(a, c) + One(a, e)
      BY <2>5, <2>6
    <3> QED BY <3>1, <3>2, <3>3
  <2>8. Sound(y, f)
    BY <1>0, <2>2, <2>3, <2>4, <2>6, <2>7, ArraySound, ZenonT(40)
  <2> HIDE DEF f
  <2> QED BY <2>1, <2>2, <2>8 DEF y
<1> QED BY <1>1, <1>2
-----------------------------------------------------------------------------
(* The variables' references.                                              *)

Outside(r) == [c \in Cells |-> Cardinality({v \in Vars : r[v] = c})]
Pointers == [Vars -> Cells \cup {Null}]

LEMMA OutsideFacts ==
  ASSUME NEW r \in Pointers
  PROVE  /\ Outside(r) \in [Cells -> Int] /\ \A c \in Cells : Outside(r)[c] >= 0
         /\ \A v \in Vars : r[v] # Null => r[v] \in Cells /\ Outside(r)[r[v]] >= 1
<1>1. ASSUME NEW c PROVE IsFiniteSet({v \in Vars : r[v] = c}) /\ Cardinality({v \in Vars : r[v] = c}) \in Nat
  BY HeapAssumption, FS_Subset, FS_CardinalityType
<1>2. \A c \in Cells : Outside(r)[c] = Cardinality({v \in Vars : r[v] = c}) /\ Outside(r)[c] \in Nat
  BY <1>1 DEF Outside
<1>3. Outside(r) \in [Cells -> Int]
  BY <1>1 DEF Outside
<1>4. ASSUME NEW v \in Vars, r[v] # Null PROVE r[v] \in Cells /\ Outside(r)[r[v]] >= 1
  <2>1. r[v] \in Cells
    BY <1>4 DEF Pointers
  <2>2. v \in {w \in Vars : r[w] = r[v]}
    OBVIOUS
  <2>3. Cardinality({w \in Vars : r[w] = r[v]}) # 0
    BY <1>1, <2>2, FS_EmptySet
  <2> QED BY <1>2, <2>1, <2>3
<1>5. \A c \in Cells : Outside(r)[c] >= 0
  <2>1. \A c \in Cells : Outside(r)[c] \in Nat
    BY <1>2
  <2> QED BY <2>1
<1> QED BY <1>3, <1>4, <1>5

LEMMA OutsideChange ==
  ASSUME NEW r \in Pointers, NEW v \in Vars, NEW q \in Cells \cup {Null}
  PROVE  [r EXCEPT ![v] = q] \in Pointers /\ Outside([r EXCEPT ![v] = q]) = Plus(Minus(Outside(r), r[v]), q)
<1> DEFINE p == [r EXCEPT ![v] = q]
<1>1. p \in Pointers /\ p[v] = q /\ \A w \in Vars : w # v => p[w] = r[w]
  BY DEF Pointers
<1> HIDE DEF p
<1>2. ASSUME NEW c \in Cells PROVE Outside(p)[c] = Outside(r)[c] - One(c, r[v]) + One(c, q)
  <2> DEFINE A == {w \in Vars \ {v} : r[w] = c}
  <2>1. IsFiniteSet(A) /\ Cardinality(A) \in Nat
    BY HeapAssumption, FS_Subset, FS_CardinalityType
  <2>2. {w \in Vars : r[w] = c} = A \cup (IF r[v] = c THEN {v} ELSE {})
    OBVIOUS
  <2>3. {w \in Vars : p[w] = c} = A \cup (IF q = c THEN {v} ELSE {})
    BY <1>1
  <2>4. v \notin A
    OBVIOUS
  <2> HIDE DEF A
  <2>5. Cardinality(A \cup {v}) = Cardinality(A) + 1 /\ A \cup {} = A /\ Cardinality(A) + 0 = Cardinality(A)
    <3>1. Cardinality(A \cup {v}) = Cardinality(A) + 1
      BY <2>1, <2>4, FS_AddElement
    <3> QED BY <2>1, <3>1
  <2>6. Cardinality({w \in Vars : r[w] = c}) = Cardinality(A) + One(c, r[v])
    <3>1. CASE r[v] = c
      BY <2>2, <2>5, <3>1 DEF One
    <3>2. CASE r[v] # c
      BY <2>2, <2>5, <3>2 DEF One
    <3> QED BY <3>1, <3>2
  <2>7. Cardinality({w \in Vars : p[w] = c}) = Cardinality(A) + One(c, q)
    <3>1. CASE q = c
      BY <2>3, <2>5, <3>1 DEF One
    <3>2. CASE q # c
      BY <2>3, <2>5, <3>2 DEF One
    <3> QED BY <3>1, <3>2
  <2>8. Outside(r)[c] = Cardinality(A) + One(c, r[v]) /\ Outside(p)[c] = Cardinality(A) + One(c, q)
    BY <2>6, <2>7 DEF Outside
  <2>9. One(c, r[v]) \in Int /\ One(c, q) \in Int
    BY DEF One
  <2> QED BY <2>1, <2>8, <2>9
<1>3. Outside(p) = [c \in Cells |-> Outside(r)[c] - One(c, r[v]) + One(c, q)]
  <2>1. Outside(p) = [c \in Cells |-> Outside(p)[c]]
    BY DEF Outside
  <2> QED BY <1>2, <2>1
<1>4. Plus(Minus(Outside(r), r[v]), q) = [c \in Cells |-> Outside(r)[c] - One(c, r[v]) + One(c, q)]
  <2>1. \A c \in Cells : Minus(Outside(r), r[v])[c] = Outside(r)[c] - One(c, r[v])
    BY DEF Minus
  <2> QED BY <2>1 DEF Plus
<1> QED BY <1>1, <1>3, <1>4 DEF p

LEMMA PlusNull ==
  ASSUME NEW x \in [Cells -> Int]
  PROVE  Plus(x, Null) = x
<1>1. \A c \in Cells : x[c] + One(c, Null) = x[c]
  BY VarsAssumption DEF One
<1>2. Plus(x, Null) = [c \in Cells |-> x[c]]
  BY <1>1 DEF Plus
<1> QED BY <1>2

\* What is left when v is cleared.
LEMMA Clearing ==
  ASSUME NEW r \in Pointers, NEW v \in Vars
  PROVE  LET p == [r EXCEPT ![v] = Null] IN
         /\ p \in Pointers /\ Minus(Outside(r), r[v]) = Outside(p)
         /\ \A w \in Vars : w # v => p[w] = r[w]
<1> DEFINE p == [r EXCEPT ![v] = Null]
<1>1. p \in Pointers /\ Outside(p) = Plus(Minus(Outside(r), r[v]), Null)
  BY OutsideChange
<1>2. Minus(Outside(r), r[v]) \in [Cells -> Int]
  BY OutsideFacts, PlusMinus
<1>3. \A w \in Vars : w # v => p[w] = r[w]
  BY DEF Pointers
<1> QED BY <1>1, <1>2, <1>3, PlusNull

Inv == TypeOK /\ Sound(Outside(ref), heap)

LEMMA InvFacts ==
  ASSUME Inv
  PROVE  /\ ref \in Pointers /\ Sound(Outside(ref), heap) /\ Shaped(heap)
         /\ \A v \in Vars : ref[v] \in Cells \cup {Null}
         /\ \A v \in Vars : ref[v] # Null => ref[v] \in Cells /\ heap[ref[v]] # Free
BY DEF Inv, TypeOK, Pointers, Sound

LEMMA Becoming ==
  ASSUME Inv, NEW v \in Vars, NEW o, o.cell \in Cells \cup {Null}, Becomes(v, o), dirty' \in BOOLEAN,
         Sound(Plus(Minus(Outside(ref), ref[v]), o.cell), o.heap)
  PROVE  Inv'
<1>1. ref \in Pointers
  BY InvFacts
<1>2. ref' = [ref EXCEPT ![v] = o.cell] /\ heap' = o.heap
  BY DEF Becomes
<1>3. ref' \in Pointers /\ Outside(ref') = Plus(Minus(Outside(ref), ref[v]), o.cell)
  BY <1>1, <1>2, OutsideChange
<1>4. Sound(Outside(ref'), heap')
  BY <1>2, <1>3
<1>5. heap' \in Heaps /\ Shaped(heap')
  BY <1>4 DEF Sound, Shaped
<1>6. ASSUME NEW w \in Vars, ref'[w] # Null PROVE heap'[ref'[w]] # Free
  <2>1. ref'[w] \in Cells /\ Outside(ref')[ref'[w]] >= 1 /\ Outside(ref') \in [Cells -> Int]
    BY <1>3, <1>6, OutsideFacts
  <2>2. Outside(ref')[ref'[w]] >= 0
    BY <2>1
  <2>3. Outside(ref')[ref'[w]] <= Count(heap', ref'[w]) /\ Count(heap', ref'[w]) \in Nat
    BY <1>4, <1>5, <2>1, <2>2, Unreferenced, HeapFacts
  <2>4. Count(heap', ref'[w]) # 0
    BY <2>1, <2>3
  <2> QED BY <2>4 DEF Count
<1>7. TypeOK'
  BY <1>3, <1>5, <1>6 DEF TypeOK, Pointers, Heaps
<1>8. Inv' <=> TypeOK' /\ Sound(Outside(ref'), heap')
  BY DEF Inv, Outside, Sound, Shaped, Good, Count, Slots, Elems, Item, Heaps
<1> QED BY <1>4, <1>7, <1>8
-----------------------------------------------------------------------------
(* The actions.                                                            *)

LEMMA MemoryFree ==
  ASSUME NEW n \in Nat, Memory(n)
  PROVE  /\ IsFiniteSet(FreeCells(heap)) /\ Cardinality(FreeCells(heap)) \in Nat
         /\ Cardinality(FreeCells(heap)) >= n
         /\ n >= 1 => FreeCells(heap) # {}
         /\ \A d : n >= 2 => FreeCells(heap) \ {d} # {}
<1>1. IsFiniteSet(FreeCells(heap))
  BY HeapAssumption, FS_Subset DEF FreeCells
<1>2. Cardinality(FreeCells(heap)) \in Nat /\ Cardinality(FreeCells(heap)) >= n
  BY <1>1, FS_CardinalityType DEF Memory
<1>3. ASSUME n >= 1 PROVE FreeCells(heap) # {}
  BY <1>2, <1>3, FS_EmptySet
<1>4. ASSUME NEW d, n >= 2 PROVE FreeCells(heap) \ {d} # {}
  <2>1. SUFFICES ASSUME FreeCells(heap) \ {d} = {} PROVE FALSE
    OBVIOUS
  <2>2. FreeCells(heap) \subseteq {d}
    BY <2>1
  <2>3. IsFiniteSet({d}) /\ Cardinality({d}) = 1
    BY FS_Singleton
  <2>4. Cardinality(FreeCells(heap)) <= 1
    BY <2>2, <2>3, FS_Subset
  <2> QED BY <1>2, <1>4, <2>4
<1> QED BY <1>1, <1>2, <1>3, <1>4

LEMMA Released ==
  ASSUME Inv, NEW v \in Vars
  PROVE  LET p == [ref EXCEPT ![v] = Null]
             g == Release(heap, ref[v])
         IN  /\ p \in Pointers /\ Minus(Outside(ref), ref[v]) = Outside(p) /\ Sound(Outside(p), g)
             /\ FreeCells(heap) \subseteq FreeCells(g)
             /\ \A e \in Cells : g[e] # Free => heap[e] # Free /\ Alike(heap[e], g[e])
             /\ \A w \in Vars : w # v /\ ref[w] # Null => ref[w] \in Cells /\ g[ref[w]] # Free
<1> DEFINE p == [ref EXCEPT ![v] = Null]
           g == Release(heap, ref[v])
<1>1. ref \in Pointers /\ Sound(Outside(ref), heap) /\ ref[v] \in Cells \cup {Null}
  BY InvFacts
<1>2. /\ \A e \in Cells : Outside(ref)[e] >= 0
      /\ ref[v] # Null => Outside(ref)[ref[v]] >= 1
  BY <1>1, OutsideFacts
<1>3. /\ Sound(Minus(Outside(ref), ref[v]), g)
      /\ \A e \in Cells : g[e] # Free => heap[e] # Free /\ Alike(heap[e], g[e])
      /\ FreeCells(heap) \subseteq FreeCells(g)
  BY <1>1, <1>2, ReleaseSound
<1>4. /\ p \in Pointers /\ Minus(Outside(ref), ref[v]) = Outside(p)
      /\ \A w \in Vars : w # v => p[w] = ref[w]
  BY <1>1, Clearing
<1> HIDE DEF p, g
<1>5. ASSUME NEW w \in Vars, w # v, ref[w] # Null PROVE ref[w] \in Cells /\ g[ref[w]] # Free
  <2>1. p[w] = ref[w] /\ p[w] # Null
    BY <1>4, <1>5
  <2>2. p[w] \in Cells /\ Outside(p)[p[w]] >= 1 /\ Outside(p) \in [Cells -> Int]
    BY <1>4, <2>1, OutsideFacts
  <2>3. Sound(Outside(p), g) /\ Outside(p)[p[w]] >= 0
    BY <1>3, <1>4, <2>2
  <2>4. Outside(p)[p[w]] <= Count(g, p[w]) /\ Count(g, p[w]) \in Nat
    BY <2>2, <2>3, Unreferenced, HeapFacts DEF Sound
  <2>5. Count(g, p[w]) # 0
    BY <2>2, <2>4
  <2>6. g[p[w]] # Free
    BY <2>5 DEF Count
  <2> QED BY <2>1, <2>2, <2>6
<1> QED BY <1>3, <1>4, <1>5 DEF p, g

LEMMA ClearStep ==
  ASSUME Inv, NEW v \in Vars, dirty' \in BOOLEAN,
         Becomes(v, [heap |-> Release(heap, ref[v]), cell |-> Null])
  PROVE  Inv'
<1> DEFINE o == [heap |-> Release(heap, ref[v]), cell |-> Null]
           p == [ref EXCEPT ![v] = Null]
<1>1. o.heap = Release(heap, ref[v]) /\ o.cell = Null
  OBVIOUS
<1>2. p \in Pointers /\ Minus(Outside(ref), ref[v]) = Outside(p) /\ Sound(Outside(p), Release(heap, ref[v]))
  BY Released
<1>3. Plus(Outside(p), Null) = Outside(p)
  BY <1>2, OutsideFacts, PlusNull
<1>4. Becomes(v, o)
  OBVIOUS
<1> HIDE DEF o, p
<1>5. Sound(Plus(Minus(Outside(ref), ref[v]), o.cell), o.heap)
  BY <1>1, <1>2, <1>3
<1> QED BY <1>1, <1>4, <1>5, Becoming

\* v comes to share a cell that is there when v has been cleared.
LEMMA SharedStep ==
  ASSUME Inv, NEW v \in Vars, dirty' \in BOOLEAN, NEW c \in Cells, Release(heap, ref[v])[c] # Free,
         Becomes(v, [heap |-> Shared(Release(heap, ref[v]), c), cell |-> c])
  PROVE  Inv'
<1> DEFINE g == Release(heap, ref[v])
           o == [heap |-> Shared(g, c), cell |-> c]
<1>1. o.heap = Shared(g, c) /\ o.cell = c /\ Becomes(v, o)
  OBVIOUS
<1>2. Sound(Minus(Outside(ref), ref[v]), g)
  BY Released
<1> HIDE DEF g
<1>3. Sound(Plus(Minus(Outside(ref), ref[v]), c), Shared(g, c))
  BY <1>2, SharedSound DEF g
<1> HIDE DEF o
<1>4. Sound(Plus(Minus(Outside(ref), ref[v]), o.cell), o.heap)
  BY <1>1, <1>3
<1> QED BY <1>1, <1>4, Becoming

LEMMA ShareStep ==
  ASSUME Inv, NEW v \in Vars, NEW w \in Vars, Share(v, w), dirty' \in BOOLEAN
  PROVE  Inv'
<1> DEFINE g == Release(heap, ref[v])
           c == IF v = w THEN Null ELSE ref[w]
<1>1. Becomes(v, [heap |-> IF c = Null THEN g ELSE Shared(g, c), cell |-> c])
  BY DEF Share
<1>2. CASE c = Null
  <2>1. Becomes(v, [heap |-> g, cell |-> Null])
    BY <1>1, <1>2
  <2> QED BY <2>1, ClearStep
<1>3. CASE c # Null
  <2>1. w # v /\ c = ref[w] /\ ref[w] # Null
    BY <1>3
  <2>2. ref[w] \in Cells /\ g[ref[w]] # Free
    BY <2>1, Released
  <2>3. Becomes(v, [heap |-> Shared(g, c), cell |-> c])
    BY <1>1, <1>3
  <2> QED BY <2>1, <2>2, <2>3, SharedStep
<1> QED BY <1>2, <1>3

LEMMA TakeStep ==
  ASSUME Inv, NEW v \in Vars, NEW w \in Vars, NEW i, Take(v, w, i)
  PROVE  Inv'
<1> DEFINE g == Release(heap, ref[v])
           a == ref[w]
           e == Element(w, i)
<1>1. /\ v # w /\ a # Null /\ heap[a].array /\ i \in DOMAIN heap[a].elems /\ e = heap[a].elems[i]
      /\ dirty' = dirty /\ Becomes(v, [heap |-> Shared(g, e), cell |-> e])
  BY DEF Take, IsArray, Element
<1>2. a \in Cells /\ g[a] # Free /\ Alike(heap[a], g[a]) /\ Sound(Outside([ref EXCEPT ![v] = Null]), g)
  BY <1>1, Released
<1>3. Shaped(g) /\ g[a].elems = heap[a].elems
  BY <1>2 DEF Alike, Sound
<1>4. Item(g, e, g[a].type)
  BY <1>1, <1>2, <1>3, HeapFacts DEF Elems
<1>5. e \in Cells
  <2>1. g[a] \in CellRecords
    BY <1>2, <1>3, HeapFacts
  <2> QED BY <1>1, <1>3, <2>1, CellFacts
<1>6. g[e] # Free /\ dirty' \in BOOLEAN
  BY <1>1, <1>4 DEF Item, Inv, TypeOK
<1> QED BY <1>1, <1>5, <1>6, SharedStep

LEMMA SetStep ==
  ASSUME Inv, NEW v \in Vars, NEW b \in Base, Memory(1), Set(v, b)
  PROVE  Inv'
<1> DEFINE o == Write(heap, ref[v], b)
<1>1. /\ ref \in Pointers /\ Sound(Outside(ref), heap) /\ ref[v] \in Cells \cup {Null}
      /\ FreeCells(heap) # {}
  BY InvFacts, MemoryFree
<1>2. /\ \A e \in Cells : Outside(ref)[e] >= 0
      /\ ref[v] # Null => Outside(ref)[ref[v]] >= 1
  BY <1>1, OutsideFacts
<1>3. o.cell \in Cells /\ Sound(Plus(Minus(Outside(ref), ref[v]), o.cell), o.heap)
  BY <1>1, <1>2, WriteSound
<1>4. Becomes(v, o) /\ dirty' \in BOOLEAN
  BY DEF Set, Inv, TypeOK
<1> HIDE DEF o
<1>5. o.cell \in Cells \cup {Null}
  BY <1>3
<1> QED BY <1>3, <1>4, <1>5, Becoming

LEMMA AddStep ==
  ASSUME Inv, NEW v \in Vars, NEW w \in Vars, Memory(1), Add(v, w)
  PROVE  Inv'
<1> DEFINE c == ref[v]
           n == IF heap[c].type \in Summable
                  THEN (heap[c].num + heap[ref[w]].num) % Width ELSE heap[c].num
           o == NumberOf(heap, c, n)
<1>1. c # Null /\ ref[w] # Null /\ dirty' = dirty /\ Becomes(v, o)
  BY DEF Add, IsBase, NumberOf
<1>2. /\ Sound(Outside(ref), heap) /\ Shaped(heap) /\ FreeCells(heap) # {}
      /\ c \in Cells /\ heap[c] # Free /\ ref[w] \in Cells /\ heap[ref[w]] # Free
  BY <1>1, InvFacts, MemoryFree
<1>3. n \in 0 .. Width - 1
  <2>1. heap[c].num \in 0 .. Width - 1 /\ heap[ref[w]].num \in 0 .. Width - 1
    BY <1>2, HeapFacts, CellFacts
  <2>2. \A k, l \in 0 .. Width - 1 : (k + l) % Width \in 0 .. Width - 1
    BY DataAssumption
  <2> QED BY <2>1, <2>2
<1> HIDE DEF n
<1>4. o.cell \in Cells /\ Sound(Plus(Minus(Outside(ref), c), o.cell), o.heap)
  BY <1>2, <1>3, NumberOfSound
<1> HIDE DEF o
<1>5. o.cell \in Cells \cup {Null} /\ dirty' \in BOOLEAN
  BY <1>1, <1>4 DEF Inv, TypeOK
<1> QED BY <1>1, <1>4, <1>5, Becoming

LEMMA SetValueStep ==
  ASSUME Inv, NEW w \in Vars, SetValue(w)
  PROVE  Inv'
<1>1. CASE UNCHANGED <<ref, heap, dirty>>
  BY <1>1 DEF Inv, TypeOK, Outside, Sound, Shaped, Good, Count, Slots, Elems, Item, Heaps
<1>2. CASE Share(ComVar, w) /\ dirty' = TRUE
  BY <1>2, ShareStep, VarsAssumption
<1> QED BY <1>1, <1>2 DEF SetValue

\* References that come and go.
LEMMA ComeAndGo ==
  ASSUME NEW x \in [Cells -> Int], NEW r, NEW q, NEW e
  PROVE  /\ Minus(Plus(Minus(Plus(x, e), r), q), e) = Plus(Minus(x, r), q)
         /\ Minus(Plus(x, e), e) = x
<1> DEFINE a == Plus(x, e)
           b == Minus(a, r)
           c == Plus(b, q)
           d == Minus(x, r)
           l == Minus(c, e)
           m == Plus(d, q)
           n == Minus(a, e)
<1>1. a \in [Cells -> Int] /\ \A k \in Cells : a[k] = x[k] + One(k, e)
  BY PlusMinus
<1>2. d \in [Cells -> Int] /\ \A k \in Cells : d[k] = x[k] - One(k, r)
  BY PlusMinus
<1> HIDE DEF a, d
<1>3. b \in [Cells -> Int] /\ \A k \in Cells : b[k] = a[k] - One(k, r)
  BY <1>1, PlusMinus
<1>4. m \in [Cells -> Int] /\ \A k \in Cells : m[k] = d[k] + One(k, q)
  BY <1>2, PlusMinus
<1>5. n \in [Cells -> Int] /\ \A k \in Cells : n[k] = a[k] - One(k, e)
  BY <1>1, PlusMinus
<1> HIDE DEF b
<1>6. c \in [Cells -> Int] /\ \A k \in Cells : c[k] = b[k] + One(k, q)
  BY <1>3, PlusMinus
<1> HIDE DEF c
<1>7. l \in [Cells -> Int] /\ \A k \in Cells : l[k] = c[k] - One(k, e)
  BY <1>6, PlusMinus
<1> HIDE DEF l, m, n
<1>8. ASSUME NEW k \in Cells PROVE l[k] = m[k] /\ n[k] = x[k]
  <2>1. x[k] \in Int /\ One(k, e) \in Int /\ One(k, r) \in Int /\ One(k, q) \in Int
    BY DEF One
  <2>2. /\ a[k] = x[k] + One(k, e) /\ d[k] = x[k] - One(k, r) /\ b[k] = a[k] - One(k, r)
        /\ m[k] = d[k] + One(k, q) /\ n[k] = a[k] - One(k, e) /\ c[k] = b[k] + One(k, q)
        /\ l[k] = c[k] - One(k, e)
    BY <1>1, <1>2, <1>3, <1>4, <1>5, <1>6, <1>7
  <2> QED BY <2>1, <2>2
<1>9. l = m /\ n = x
  BY <1>4, <1>5, <1>7, <1>8
<1> QED BY <1>9 DEF l, m, n, c, b, a, d

\* An element that is counted already comes into v's array.
LEMMA Inserting ==
  ASSUME Inv, NEW v \in Vars, dirty' \in BOOLEAN, ref[v] # Null,
         NEW h, NEW e \in Cells, Sound(Plus(Outside(ref), e), h), FreeCells(h) # {},
         h[ref[v]] # Free, Item(h, e, h[ref[v]].type), NEW k,
         h[ref[v]].array => Len(h[ref[v]].elems) < MaxLen /\ k \in 1 .. Len(h[ref[v]].elems) + 1,
         Becomes(v, Insert(h, ref[v], k, e))
  PROVE  Inv'
<1> DEFINE c == ref[v]
           x == Plus(Outside(ref), e)
           o == Insert(h, c, k, e)
<1>1. ref \in Pointers /\ c \in Cells
  BY InvFacts
<1>2. o.cell \in Cells /\ Sound(Minus(Plus(Minus(x, c), o.cell), e), o.heap)
  BY <1>1, InsertSound
<1>3. Becomes(v, o)
  OBVIOUS
<1> HIDE DEF o
<1>4. Outside(ref) \in [Cells -> Int]
  BY <1>1, OutsideFacts
<1>5. Minus(Plus(Minus(x, c), o.cell), e) = Plus(Minus(Outside(ref), c), o.cell)
  BY <1>4, ComeAndGo
<1>6. Sound(Plus(Minus(Outside(ref), ref[v]), o.cell), o.heap) /\ o.cell \in Cells \cup {Null}
  BY <1>2, <1>5
<1> QED BY <1>3, <1>6, Becoming

LEMMA InsertItemStep ==
  ASSUME Inv, NEW v \in Vars, NEW b \in Base, NEW k \in 1 .. MaxLen, Memory(2), InsertItem(v, b, k)
  PROVE  Inv'
<1> DEFINE c == ref[v]
           e == NewCell(heap)
           h == [heap EXCEPT ![e] = BaseCell(b)]
<1>1. /\ c # Null /\ heap[c].type = b.type /\ dirty' = dirty /\ Becomes(v, Insert(h, c, k, e))
      /\ heap[c].array => Len(heap[c].elems) < MaxLen /\ k <= Len(heap[c].elems) + 1
  BY DEF InsertItem, Room, IsArray
<1>2. /\ Sound(Outside(ref), heap) /\ Shaped(heap) /\ c \in Cells /\ heap[c] # Free
  BY <1>1, InvFacts
<1>3. FreeCells(heap) # {} /\ \A d : FreeCells(heap) \ {d} # {}
  BY MemoryFree
<1>4. e \in Cells /\ heap[e] = Free
  BY <1>3, NewCellFree
<1> HIDE DEF e
<1>5. /\ Sound(Plus(Outside(ref), e), h) /\ h[e] = BaseCell(b) /\ h[e] # Free
      /\ \A a \in Cells : a # e => h[a] = heap[a]
      /\ FreeCells(h) = FreeCells(heap) \ {e}
  <2>1. Sound(Plus(Outside(ref), e), h)
    BY <1>2, <1>4, BaseSound
  <2>2. h[e] = BaseCell(b) /\ BaseCell(b) # Free
    BY <1>2, <1>4, NewBase, CellFacts DEF Shaped, Heaps
  <2>3. FreeCells(h) = FreeCells(heap) \ {e}
    BY <1>2, <1>4, BaseSound
  <2>4. \A a \in Cells : a # e => h[a] = heap[a]
    BY <1>2 DEF Shaped, Heaps
  <2> QED BY <2>1, <2>2, <2>3, <2>4
<1> HIDE DEF h
<1>6. c # e /\ h[c] = heap[c] /\ FreeCells(h) # {}
  BY <1>2, <1>3, <1>4, <1>5
<1>7. Item(h, e, h[c].type)
  BY <1>1, <1>5, <1>6, NewBase DEF Item
<1>8. h[c].array => Len(h[c].elems) < MaxLen /\ k \in 1 .. Len(h[c].elems) + 1
  <2>1. Len(heap[c].elems) \in Nat
    BY <1>2, HeapFacts DEF Elems
  <2> QED BY <1>1, <1>6, <2>1, DataAssumption
<1>9. dirty' \in BOOLEAN
  BY <1>1 DEF Inv, TypeOK
<1> QED BY <1>1, <1>2, <1>4, <1>5, <1>6, <1>7, <1>8, <1>9, Inserting

LEMMA InsertVarStep ==
  ASSUME Inv, NEW v \in Vars, NEW w \in Vars, NEW k \in 1 .. MaxLen, Memory(1), InsertVar(v, w, k)
  PROVE  Inv'
<1> DEFINE c == ref[v]
           e == ref[w]
           h == Shared(heap, e)
<1>1. /\ c # Null /\ e # Null /\ ~heap[e].array /\ heap[c].type = heap[e].type
      /\ dirty' = dirty /\ Becomes(v, Insert(h, c, k, e))
      /\ heap[c].array => Len(heap[c].elems) < MaxLen /\ k <= Len(heap[c].elems) + 1
  BY DEF InsertVar, Room, IsArray, IsBase
<1>2. /\ Sound(Outside(ref), heap) /\ Shaped(heap) /\ FreeCells(heap) # {}
      /\ c \in Cells /\ heap[c] # Free /\ e \in Cells /\ heap[e] # Free
  BY <1>1, InvFacts, MemoryFree
<1>3. Sound(Plus(Outside(ref), e), h) /\ \A a \in Cells : Kept(heap, h, a)
  BY <1>2, SharedSound
<1> HIDE DEF h
<1>4. FreeCells(h) # {}
  BY <1>2, <1>3 DEF FreeCells, Kept
<1>5. h[c] # Free /\ h[e] # Free /\ Alike(heap[c], h[c]) /\ Alike(heap[e], h[e])
  BY <1>2, <1>3 DEF Kept
<1>6. Item(h, e, h[c].type)
  BY <1>1, <1>5 DEF Item, Alike
<1>7. h[c].array => Len(h[c].elems) < MaxLen /\ k \in 1 .. Len(h[c].elems) + 1
  <2>1. Len(heap[c].elems) \in Nat
    BY <1>2, HeapFacts DEF Elems
  <2>2. h[c].array = heap[c].array /\ h[c].elems = heap[c].elems
    BY <1>5 DEF Alike
  <2> QED BY <1>1, <2>1, <2>2, DataAssumption
<1>8. dirty' \in BOOLEAN
  BY <1>1 DEF Inv, TypeOK
<1> QED BY <1>1, <1>2, <1>3, <1>4, <1>5, <1>6, <1>7, <1>8, Inserting

LEMMA EraseStep ==
  ASSUME Inv, NEW v \in Vars, NEW i, Memory(1), Erase(v, i)
  PROVE  Inv'
<1> DEFINE c == ref[v]
           s == heap[c].elems
           t == Without(s, i)
           own == Own(heap, c)
           d == own.cell
           g == own.heap
           f == [g EXCEPT ![d].elems = t]
           z == Plus(Minus(Outside(ref), c), d)
           y == Plus(z, s[i])
           o == [heap |-> Drop(f, s[i]), cell |-> d]
<1>1. c # Null /\ heap[c].array /\ i \in DOMAIN s /\ dirty' = dirty /\ Becomes(v, o)
  BY DEF Erase, IsArray, Without
<1>2. /\ ref \in Pointers /\ Sound(Outside(ref), heap) /\ Shaped(heap) /\ FreeCells(heap) # {}
      /\ c \in Cells /\ heap[c] # Free
  BY <1>1, InvFacts, MemoryFree
<1>3. /\ s \in Seq(Cells) /\ i \in 1 .. Len(s) /\ Len(s) \in 0 .. MaxLen
      /\ \A j \in 1 .. Len(s) : Item(heap, s[j], heap[c].type) /\ s[j] \in Cells
  <2>1. s \in Seq(Cells) /\ Len(s) \in 0 .. MaxLen /\ \A j \in DOMAIN s : Item(heap, s[j], heap[c].type)
    BY <1>2, HeapFacts DEF Elems
  <2> HIDE DEF s
  <2> QED BY <1>1, <2>1
<1>4. /\ d \in Cells /\ Sound(z, g) /\ g[d] # Free /\ Alike(heap[c], g[d])
      /\ \A e \in Cells : \A u : Item(heap, e, u) => Item(g, e, u)
  BY <1>2, OwnSound
<1>5. g[d].type = heap[c].type /\ g[d].elems = s /\ g[d].array = heap[c].array
  BY <1>4 DEF Alike
<1>6. g[d].array
  BY <1>1, <1>5, Zenon
<1> HIDE DEF own, d, g, s
<1>7. /\ t \in Seq(Cells) /\ Len(s) = Len(t) + 1
      /\ \A j \in 1 .. (i - 1) : t[j] = s[j]
      /\ \A j \in i .. Len(t) : t[j] = s[j + 1]
  BY <1>3, WithoutFacts
<1>8. \A e \in Cells : Times(s, e) = Times(t, e) + One(e, s[i])
  BY <1>3, TimesWithout
<1> HIDE DEF t
<1>9. Len(t) <= MaxLen /\ \A j \in DOMAIN t : Item(g, t[j], g[d].type)
  <2>1. Len(t) \in Nat /\ DOMAIN t = 1 .. Len(t) /\ i \in Nat /\ Len(t) <= MaxLen
    BY <1>3, <1>7, DataAssumption
  <2>2. ASSUME NEW j \in 1 .. Len(t) PROVE Item(g, t[j], g[d].type)
    <3>1. CASE j < i
      <4>1. j \in 1 .. (i - 1) /\ j \in 1 .. Len(s)
        BY <1>7, <2>1, <3>1
      <4> QED BY <1>3, <1>4, <1>5, <1>7, <4>1
    <3>2. CASE j >= i
      <4>1. j \in i .. Len(t) /\ j + 1 \in 1 .. Len(s)
        BY <1>7, <2>1, <3>2
      <4> QED BY <1>3, <1>4, <1>5, <1>7, <4>1
    <3> QED BY <2>1, <3>1, <3>2
  <2> QED BY <2>1, <2>2
<1>10. Outside(ref) \in [Cells -> Int] /\ (\A e \in Cells : Outside(ref)[e] >= 0) /\ Outside(ref)[c] >= 1
  BY <1>1, <1>2, OutsideFacts
\* Nothing has been taken from outside, and the element is in hand.
<1>11. /\ z \in [Cells -> Int] /\ \A e \in Cells : z[e] >= 0
  <2> DEFINE m == Minus(Outside(ref), c)
  <2>1. m \in [Cells -> Int] /\ \A e \in Cells : m[e] = Outside(ref)[e] - One(e, c)
    BY <1>10, PlusMinus
  <2>2. z = Plus(m, d)
    OBVIOUS
  <2> HIDE DEF m, z
  <2>3. z \in [Cells -> Int] /\ \A e \in Cells : z[e] = m[e] + One(e, d)
    BY <2>1, <2>2, PlusMinus
  <2>4. ASSUME NEW e \in Cells PROVE z[e] >= 0
    <3>1. m[e] = Outside(ref)[e] - One(e, c) /\ z[e] = m[e] + One(e, d) /\ Outside(ref)[e] \in Int
      BY <1>10, <2>1, <2>3
    <3>2. One(e, d) \in Nat /\ One(e, c) \in Nat /\ One(e, c) <= 1 /\ (e # c => One(e, c) = 0)
      BY DEF One
    <3>3. Outside(ref)[e] >= One(e, c)
      BY <1>10, <3>1, <3>2
    <3> QED BY <3>1, <3>2, <3>3
  <2> QED BY <2>3, <2>4
<1> HIDE DEF z
<1>12. y \in [Cells -> Int] /\ \A e \in Cells : y[e] = z[e] + One(e, s[i])
  BY <1>11, PlusMinus
<1> HIDE DEF y
<1>13. Traded(z, y, t, g[d].elems)
  <2> SUFFICES ASSUME NEW e \in Cells PROVE y[e] = z[e] + Times(g[d].elems, e) - Times(t, e)
    BY DEF Traded
  <2>1. Times(t, e) \in Nat /\ One(e, s[i]) \in Nat /\ z[e] \in Int
    BY <1>7, <1>11, TimesFacts DEF One
  <2>2. Times(s, e) = Times(t, e) + One(e, s[i]) /\ y[e] = z[e] + One(e, s[i])
    BY <1>8, <1>12
  <2>3. y[e] = z[e] + Times(s, e) - Times(t, e)
    BY <2>1, <2>2
  <2> QED BY <1>5, <2>3
<1>14. Sound(y, f)
  BY <1>4, <1>6, <1>7, <1>9, <1>12, <1>13, ElementsSound
<1> HIDE DEF f
<1>15. s[i] \in Cells /\ y[s[i]] >= 1 /\ \A e \in Cells : y[e] >= 0
  <2>1. s[i] \in Cells
    BY <1>3
  <2>2. \A e \in Cells : One(e, s[i]) \in Nat /\ z[e] \in Int
    BY <1>11 DEF One
  <2>3. One(s[i], s[i]) = 1
    BY DEF One
  <2>4. \A e \in Cells : y[e] >= 0
    BY <1>11, <1>12, <2>2
  <2>5. y[s[i]] = z[s[i]] + 1 /\ z[s[i]] \in Int /\ z[s[i]] >= 0
    BY <1>11, <1>12, <2>1, <2>3
  <2> QED BY <2>1, <2>4, <2>5
<1>16. Sound(Minus(y, s[i]), Drop(f, s[i]))
  BY <1>14, <1>15, DropSound
<1>17. Minus(y, s[i]) = z
  BY <1>11, ComeAndGo DEF y
<1>18. o.heap = Drop(f, s[i]) /\ o.cell = d
  OBVIOUS
<1> HIDE DEF o
<1>19. Sound(Plus(Minus(Outside(ref), ref[v]), o.cell), o.heap) /\ o.cell \in Cells \cup {Null} /\ dirty' \in BOOLEAN
  BY <1>1, <1>4, <1>16, <1>17, <1>18 DEF z, Inv, TypeOK
<1> QED BY <1>1, <1>19, Becoming

LEMMA SetAtStep ==
  ASSUME Inv, NEW v \in Vars, NEW i, NEW b \in Base, Memory(1), SetAt(v, i, b)
  PROVE  Inv'
<1> DEFINE a == ref[v]
           s == heap[a].elems
           e == s[i]
           x == Outside(ref)
           o == NumberOf(heap, e, b.num)
           d == o.cell
           g == o.heap
           t == [s EXCEPT ![i] = d]
           f == [g EXCEPT ![a].elems = t]
           z == Plus(Minus(x, e), d)
<1>1. /\ a # Null /\ heap[a].array /\ heap[a].type = b.type /\ i \in DOMAIN s /\ Element(v, i) = e
      /\ ref' = ref /\ dirty' = dirty
  BY Zenon DEF SetAt, IsArray, Element
<1>2. /\ ref \in Pointers /\ Sound(x, heap) /\ Shaped(heap) /\ FreeCells(heap) # {}
      /\ a \in Cells /\ heap[a] # Free /\ x \in [Cells -> Int] /\ b.num \in 0 .. Width - 1
  BY <1>1, InvFacts, MemoryFree, OutsideFacts DEF Base
<1>3. /\ s \in Seq(Cells) /\ i \in 1 .. Len(s) /\ Len(s) \in 0 .. MaxLen
      /\ \A j \in 1 .. Len(s) : Item(heap, s[j], heap[a].type) /\ s[j] \in Cells
  <2>1. s \in Seq(Cells) /\ Len(s) \in 0 .. MaxLen /\ \A j \in DOMAIN s : Item(heap, s[j], heap[a].type)
    BY <1>2, HeapFacts DEF Elems
  <2> HIDE DEF s
  <2> QED BY <1>1, <2>1
<1>4. e \in Cells /\ Item(heap, e, heap[a].type) /\ heap[e] # Free
  BY <1>3 DEF Item
<1>5. Write(heap, e, b) = o
  <2>1. e # Null /\ ~heap[e].array /\ heap[e].type = b.type
    BY <1>1, <1>4, VarsAssumption DEF Item
  <2> HIDE DEF e
  <2> QED BY <2>1 DEF Write, NumberOf
<1> HIDE DEF s, e, x
<1>7. /\ d \in Cells /\ (d # e => heap[d] = Free) /\ Sound(z, g)
      /\ g[d] # Free /\ g[d].type = heap[e].type /\ g[d].array = heap[e].array
      /\ \A k \in Cells : k # d => Kept(heap, g, k)
      /\ \A k \in Cells : \A u : Item(heap, k, u) => Item(g, k, u)
  BY <1>2, <1>4, NumberOfSound
<1> HIDE DEF o
<1>6. heap' = f
  <2>1. heap' = [Write(heap, e, b).heap EXCEPT ![a].elems[i] = Write(heap, e, b).cell]
    BY <1>1, Zenon DEF SetAt
  <2>2. heap' = [g EXCEPT ![a].elems[i] = d]
    BY <1>5, <2>1, Zenon
  <2> HIDE DEF g, d
  <2>3. g[a].elems = heap[a].elems
    <3>1. a # d
      BY <1>1, <1>2, <1>4, <1>7 DEF Item
    <3> QED BY <1>2, <1>7, <3>1 DEF Kept, Alike
  <2> QED BY <2>2, <2>3 DEF s
<1> HIDE DEF d, g
<1>9. /\ a # d /\ g[a] # Free /\ Alike(heap[a], g[a])
  BY <1>1, <1>2, <1>4, <1>7 DEF Item, Kept
<1>10. g[a].type = heap[a].type /\ g[a].elems = s /\ g[a].array = heap[a].array
  BY <1>9 DEF Alike, s
<1>11. g[a].array
  BY <1>1, <1>10, Zenon
<1>12. Item(g, d, g[a].type)
  BY <1>4, <1>7, <1>10 DEF Item
<1>13. /\ t \in Seq(Cells) /\ Len(t) = Len(s) /\ t[i] = d /\ DOMAIN t = 1 .. Len(s)
       /\ \A j \in 1 .. Len(s) : j # i => t[j] = s[j]
  BY <1>3, <1>7
<1>14. \A k \in Cells : Times(t, k) = Times(s, k) + One(k, d) - One(k, e)
  BY <1>3, <1>7, TimesReplaced DEF e
<1> HIDE DEF t
<1>15. Len(t) <= MaxLen /\ \A j \in DOMAIN t : Item(g, t[j], g[a].type)
  <2>1. Len(t) <= MaxLen
    BY <1>3, <1>13, DataAssumption
  <2>2. ASSUME NEW j \in 1 .. Len(s) PROVE Item(g, t[j], g[a].type)
    <3>1. CASE j = i
      BY <1>12, <1>13, <3>1
    <3>2. CASE j # i
      BY <1>3, <1>7, <1>10, <1>13, <3>2
    <3> QED BY <3>1, <3>2
  <2> QED BY <1>13, <2>1, <2>2
<1>16. z \in [Cells -> Int] /\ \A k \in Cells : z[k] = x[k] - One(k, e) + One(k, d)
  <2> DEFINE m == Minus(x, e)
  <2>1. m \in [Cells -> Int] /\ \A k \in Cells : m[k] = x[k] - One(k, e)
    BY <1>2, PlusMinus
  <2>2. z = Plus(m, d)
    OBVIOUS
  <2> HIDE DEF m, z
  <2>3. z \in [Cells -> Int] /\ \A k \in Cells : z[k] = m[k] + One(k, d)
    BY <2>1, <2>2, PlusMinus
  <2> QED BY <2>1, <2>3
<1> HIDE DEF z, x, e
<1>17. Traded(z, x, t, g[a].elems)
  <2> SUFFICES ASSUME NEW k \in Cells PROVE x[k] = z[k] + Times(g[a].elems, k) - Times(t, k)
    BY DEF Traded
  <2>1. Times(s, k) \in Nat /\ One(k, e) \in Nat /\ One(k, d) \in Nat /\ x[k] \in Int
    BY <1>2, <1>3, TimesFacts DEF One
  <2>2. /\ Times(t, k) = Times(s, k) + One(k, d) - One(k, e)
        /\ z[k] = x[k] - One(k, e) + One(k, d)
    BY <1>14, <1>16
  <2>3. x[k] = z[k] + Times(s, k) - Times(t, k)
    BY <2>1, <2>2
  <2> QED BY <1>10, <2>3
<1>18. Sound(x, f)
  BY <1>2, <1>7, <1>9, <1>11, <1>13, <1>15, <1>17, ElementsSound
<1> HIDE DEF f
<1>19. Outside(ref') = x /\ Sound(x, heap')
  BY <1>1, <1>6, <1>18 DEF x
\* Nothing else points at anything else.
<1>20. Becomes(v, [heap |-> f, cell |-> a]) /\ dirty' \in BOOLEAN
  <2>1. ref' = [ref EXCEPT ![v] = a]
    BY <1>1, <1>2 DEF Pointers
  <2> QED BY <1>1, <1>6, <2>1 DEF Becomes, Inv, TypeOK
<1>21. Plus(Minus(x, a), a) = x
  <2>1. [ref EXCEPT ![v] = a] = ref
    BY <1>2 DEF Pointers
  <2>2. a \in Cells \cup {Null}
    BY <1>2
  <2> QED BY <1>2, <2>1, <2>2, OutsideChange DEF x
<1> DEFINE p == [heap |-> f, cell |-> a]
<1>22. p.heap = f /\ p.cell = a
  OBVIOUS
<1> HIDE DEF p
<1>23. Sound(Plus(Minus(Outside(ref), ref[v]), p.cell), p.heap) /\ p.cell \in Cells \cup {Null}
  BY <1>2, <1>18, <1>21, <1>22 DEF x
<1>25. Becomes(v, p)
  BY <1>20 DEF p
<1> QED BY <1>20, <1>23, <1>25, Becoming

\* As many cells as there is memory for, all different.
LEMMA NewCellsFree ==
  ASSUME NEW h, NEW n \in Nat, IsFiniteSet(FreeCells(h)), Cardinality(FreeCells(h)) >= n
  PROVE  LET f == NewCells(h, n) IN
         /\ f \in [1 .. n -> FreeCells(h)]
         /\ \A i, j \in 1 .. n : f[i] = f[j] => i = j
<1> DEFINE S == FreeCells(h)
           m == Cardinality(S)
<1>1. m \in Nat /\ ExistsBijection(1 .. m, S)
  BY FS_CardinalityType
<1>2. PICK b : b \in Bijection(1 .. m, S)
  BY <1>1 DEF ExistsBijection
<1>3. b \in [1 .. m -> S] /\ \A i, j \in 1 .. m : b[i] = b[j] => i = j
  BY <1>2 DEF Bijection, Injection, IsInjective
<1> DEFINE a == [i \in 1 .. n |-> b[i]]
<1>4. 1 .. n \subseteq 1 .. m
  BY <1>1
<1>5. a \in [1 .. n -> S] /\ \A i, j \in 1 .. n : a[i] = a[j] => i = j
  BY <1>3, <1>4
<1>6. \E f \in [1 .. n -> S] : \A i, j \in 1 .. n : f[i] = f[j] => i = j
  BY <1>5
<1> QED BY <1>6 DEF NewCells

LEMMA ItemsFacts ==
  ASSUME NEW s \in Items
  PROVE  /\ Len(s) \in Nat /\ Len(s) <= MaxLen /\ DOMAIN s = 1 .. Len(s)
         /\ \A i \in 1 .. Len(s) : s[i] \in 0 .. Width - 1
<1>1. PICK m \in 0 .. MaxLen : s \in [1 .. m -> 0 .. Width - 1]
  BY DEF Items
<1>2. m \in Nat /\ DOMAIN s = 1 .. m /\ Len(s) = m
  BY <1>1, DataAssumption
<1> QED BY <1>1, <1>2, DataAssumption

\* The heap with new cells f for numbers s and an array of them.
Numbers(g, f, t, s) ==
  [c \in Cells |-> IF c = f[Len(s) + 1] THEN ArrayCell(t, [i \in DOMAIN s |-> f[i]])
                   ELSE IF \E i \in DOMAIN s : f[i] = c
                          THEN BaseCell([type |-> t, num |-> s[CHOOSE i \in DOMAIN s : f[i] = c]])
                          ELSE g[c]]

\* New cells f for numbers s, and the last of them for an array that holds the others.
LEMMA NumbersSound ==
  ASSUME NEW x, NEW g, Sound(x, g), NEW t \in Types, NEW s \in Items,
         NEW f \in [1 .. Len(s) + 1 -> FreeCells(g)],
         \A i, j \in 1 .. Len(s) + 1 : f[i] = f[j] => i = j
  PROVE  f[Len(s) + 1] \in Cells /\ Sound(Plus(x, f[Len(s) + 1]), Numbers(g, f, t, s))
<1> DEFINE n == Len(s)
           d == f[n + 1]
           elems == [i \in DOMAIN s |-> f[i]]
           F == {f[i] : i \in DOMAIN s}
           num(c) == s[CHOOSE i \in DOMAIN s : f[i] = c]
           l == [c \in Cells |-> IF c = d THEN ArrayCell(t, elems)
                                 ELSE IF \E i \in DOMAIN s : f[i] = c
                                        THEN BaseCell([type |-> t, num |-> num(c)]) ELSE g[c]]
           y == [c \in Cells |-> x[c] + IF c \in F THEN 1 ELSE 0]
           k == [c \in Cells |-> IF c \in F THEN BaseCell([type |-> t, num |-> num(c)]) ELSE g[c]]
           z == Plus(x, d)
<1>2. n \in Nat /\ n <= MaxLen /\ DOMAIN s = 1 .. n /\ \A i \in 1 .. n : s[i] \in 0 .. Width - 1
  BY ItemsFacts
<1>3. Sound(x, g) /\ x \in [Cells -> Int]
  BY DEF Sound
<1>5. /\ f \in [1 .. n + 1 -> FreeCells(g)] /\ \A i, j \in 1 .. n + 1 : f[i] = f[j] => i = j
  OBVIOUS
<1> HIDE DEF n
<1>6. /\ \A i \in 1 .. n : f[i] \in Cells /\ g[f[i]] = Free /\ f[i] \in FreeCells(g) /\ f[i] # d
      /\ d \in Cells /\ g[d] = Free
      /\ \A i, j \in 1 .. n : f[i] = f[j] => i = j
  <2>1. \A i \in 1 .. n : i \in 1 .. n + 1 /\ i # n + 1
    BY <1>2
  <2>2. n + 1 \in 1 .. n + 1
    BY <1>2
  <2> QED BY <1>5, <2>1, <2>2 DEF FreeCells
<1> HIDE DEF d
<1>7. F = {f[i] : i \in 1 .. n} /\ F \in SUBSET FreeCells(g) /\ d \notin F /\ F \subseteq Cells
  BY <1>2, <1>6
<1>8. \A c \in F : num(c) \in 0 .. Width - 1
  <2> TAKE c \in F
  <2>1. \E i \in 1 .. n : f[i] = c
    BY <1>7
  <2>2. (CHOOSE i \in 1 .. n : f[i] = c) \in 1 .. n
    BY <2>1
  <2> QED BY <1>2, <2>2
<1> HIDE DEF num
<1>9. \A c \in F : [type |-> t, num |-> num(c)] \in Base
  BY <1>8 DEF Base
<1>10. y \in [Cells -> Int] /\ Given(x, y, F)
  BY <1>3 DEF Given
<1>11. /\ \A e \in F : k[e] = BaseCell([type |-> t, num |-> num(e)]) /\ k[e] \in BaseCells
       /\ \A e \in Cells \ F : k[e] = g[e]
  <2>1. \A e \in F : k[e] = BaseCell([type |-> t, num |-> num(e)])
    BY <1>7
  <2>2. \A e \in F : BaseCell([type |-> t, num |-> num(e)]) \in BaseCells
    BY <1>9 DEF BaseCells
  <2>3. \A e \in Cells \ F : k[e] = g[e]
    OBVIOUS
  <2> HIDE DEF k
  <2> QED BY <2>1, <2>2, <2>3
<1>25. k \in Heaps
  <2>1. k = [e \in Cells |-> k[e]]
    OBVIOUS
  <2>2. g \in Heaps
    BY <1>3 DEF Sound, Shaped
  <2> HIDE DEF k, F
  <2>3. ASSUME NEW e \in Cells PROVE k[e] \in CellRecords \cup {Free}
    <3>1. CASE e \in F
      <4>1. BaseCell([type |-> t, num |-> num(e)]) \in CellRecords
        BY <1>9, <3>1, NewBase
      <4> QED BY <1>11, <3>1, <4>1
    <3>2. CASE e \notin F
      BY <1>11, <2>2, <3>2 DEF Heaps
    <3> QED BY <3>1, <3>2
  <2> QED BY <2>1, <2>3 DEF Heaps
<1>12. l = [k EXCEPT ![d] = ArrayCell(t, elems)]
  <2>1. \A c \in Cells : c \in F <=> \E i \in DOMAIN s : f[i] = c
    OBVIOUS
  <2> HIDE DEF F, elems
  <2> QED BY <2>1
<1>13. elems \in Seq(Cells) /\ Len(elems) = n /\ DOMAIN elems = 1 .. n /\ \A i \in 1 .. n : elems[i] = f[i]
  <2>1. elems \in [1 .. n -> Cells]
    BY <1>2, <1>6
  <2>2. elems \in Seq(Cells) /\ Len(elems) = n
    BY <1>2, <2>1
  <2> QED BY <1>2, <2>1, <2>2
<1>14. \A c \in Cells : k[c] # Free /\ c \in F => c \in F
  OBVIOUS
<1> HIDE DEF y, k, elems
<1>15. Sound(y, k)
  <2> HIDE DEF F
  <2>1. F \in SUBSET FreeCells(g) /\ Sound(x, g) /\ y \in [Cells -> Int] /\ Given(x, y, F)
    BY <1>3, <1>7, <1>10
  <2> QED BY <1>11, <1>25, <2>1, BasesSound
<1>16. \A i \in DOMAIN elems : Item(k, elems[i], t)
  <2> TAKE i \in DOMAIN elems
  <2>1. f[i] \in F /\ elems[i] = f[i]
    BY <1>7, <1>13
  <2> DEFINE b == [type |-> t, num |-> num(f[i])]
  <2>2. b \in Base /\ b.type = t /\ k[f[i]] = BaseCell(b)
    BY <1>9, <1>11, <2>1
  <2> HIDE DEF b, F
  <2>3. BaseCell(b) \in CellRecords /\ BaseCell(b).array = FALSE /\ BaseCell(b).type = t
    BY <2>2, NewBase
  <2>4. BaseCell(b) # Free
    BY <2>3, CellFacts
  <2> QED BY <2>1, <2>2, <2>3, <2>4 DEF Item
<1>17. \A c \in Cells : Times(elems, c) = IF c \in F THEN 1 ELSE 0
  <2> TAKE c \in Cells
  <2>1. CASE c \in F
    <3>1. PICK i \in 1 .. n : f[i] = c
      <4> HIDE DEF F
      <4> QED BY <1>7, <2>1
    <3>2. Indexes(elems, c) = {i}
      BY <1>6, <1>13, <3>1 DEF Indexes
    <3>3. Cardinality({i}) = 1
      BY FS_Singleton
    <3>4. Times(elems, c) = Cardinality(Indexes(elems, c))
      BY <1>13, TimesFacts
    <3> QED BY <2>1, <3>2, <3>3, <3>4
  <2>2. CASE c \notin F
    <3>1. \A i \in DOMAIN elems : elems[i] # c
      BY <1>7, <1>13, <2>2
    <3> QED BY <1>13, <2>2, <3>1, TimesFacts
  <2> QED BY <2>1, <2>2
<1> HIDE DEF F
<1>18. z \in [Cells -> Int] /\ \A c \in Cells : z[c] = x[c] + One(c, d)
  BY <1>3, PlusMinus
<1>19. Plus(y, d) \in [Cells -> Int] /\ \A c \in Cells : Plus(y, d)[c] = y[c] + One(c, d)
  BY <1>10, PlusMinus
<1> HIDE DEF z
<1>20. Traded(Plus(y, d), z, elems, <<>>)
  <2> SUFFICES ASSUME NEW c \in Cells PROVE z[c] = Plus(y, d)[c] + Times(<<>>, c) - Times(elems, c)
    BY DEF Traded
  <2>1. Times(<<>>, c) = 0 /\ x[c] \in Int /\ One(c, d) \in Int
    BY <1>3, TimesNone DEF One
  <2>2. z[c] = x[c] + One(c, d) /\ Plus(y, d)[c] = y[c] + One(c, d) /\ y[c] = x[c] + Times(elems, c)
    BY <1>10, <1>17, <1>18, <1>19 DEF Given
  <2>3. Times(elems, c) \in Int
    BY <1>17
  <2> QED BY <2>1, <2>2, <2>3
<1>21. k[d] = Free
  BY <1>6, <1>7, <1>11
<1>22. Sound(z, l)
  <2>1. Len(elems) <= MaxLen
    BY <1>2, <1>13
  <2>2. Sound(z, [k EXCEPT ![d] = ArrayCell(t, elems)])
    BY <1>6, <1>13, <1>15, <1>16, <1>18, <1>20, <1>21, <2>1, ArraySound
  <2> HIDE DEF l
  <2> QED BY <1>12, <2>2
<1>23. l = Numbers(g, f, t, s)
  BY DEF Numbers, num, elems, d, n
<1> HIDE DEF l
<1> QED BY <1>6, <1>22, <1>23 DEF z, d, n

LEMMA SetArrayStep ==
  ASSUME Inv, NEW v \in Vars, NEW t \in Types, NEW s \in Items, Memory(Len(s) + 1), SetArray(v, t, s)
  PROVE  Inv'
<1> DEFINE n == Len(s)
           g == Release(heap, ref[v])
           f == NewCells(g, n + 1)
           d == f[n + 1]
           l == Numbers(g, f, t, s)
           o == [heap |-> l, cell |-> d]
           x == Minus(Outside(ref), ref[v])
<1>1. Becomes(v, o) /\ dirty' = dirty
  BY DEF SetArray, Numbers
<1>2. n \in Nat
  BY ItemsFacts
<1>3. /\ Sound(x, g) /\ FreeCells(heap) \subseteq FreeCells(g)
  BY Released
<1>4. IsFiniteSet(FreeCells(g)) /\ Cardinality(FreeCells(g)) >= n + 1
  <2>1. IsFiniteSet(FreeCells(g))
    BY HeapAssumption, FS_Subset DEF FreeCells
  <2>2. n + 1 \in Nat
    BY <1>2
  <2>3. Cardinality(FreeCells(heap)) >= n + 1 /\ Cardinality(FreeCells(heap)) \in Nat
    BY <2>2, MemoryFree
  <2>4. Cardinality(FreeCells(heap)) <= Cardinality(FreeCells(g)) /\ Cardinality(FreeCells(g)) \in Nat
    BY <1>3, <2>1, FS_Subset, FS_CardinalityType
  <2> HIDE DEF n, g
  <2> QED BY <2>1, <2>2, <2>3, <2>4
<1>5. /\ f \in [1 .. n + 1 -> FreeCells(g)] /\ \A i, j \in 1 .. n + 1 : f[i] = f[j] => i = j
  <2>1. n + 1 \in Nat
    BY <1>2
  <2> HIDE DEF n, g
  <2> QED BY <1>4, <2>1, NewCellsFree
<1> HIDE DEF f, g, x
<1>6. d \in Cells /\ Sound(Plus(x, d), l)
  BY <1>3, <1>5, NumbersSound
<1>7. o.heap = l /\ o.cell = d
  OBVIOUS
<1> HIDE DEF o, l, d
<1>8. /\ Sound(Plus(Minus(Outside(ref), ref[v]), o.cell), o.heap)
      /\ o.cell \in Cells \cup {Null} /\ dirty' \in BOOLEAN
  BY <1>1, <1>6, <1>7 DEF x, Inv, TypeOK
<1> QED BY <1>1, <1>8, Becoming
-----------------------------------------------------------------------------
(* The invariant.                                                          *)

LEMMA InitInv == Init => Inv
<1> SUFFICES ASSUME Init PROVE Inv
  OBVIOUS
<1>1. /\ ref = [v \in Vars |-> Null] /\ heap = [c \in Cells |-> Free] /\ dirty = FALSE
  BY DEF Init
<1>2. TypeOK
  BY <1>1 DEF TypeOK
<1>3. ref \in Pointers /\ Outside(ref) \in [Cells -> Int]
  BY <1>1, OutsideFacts DEF Pointers
<1>4. Shaped(heap)
  BY <1>1 DEF Shaped, Heaps
<1>5. ASSUME NEW c \in Cells PROVE Count(heap, c) = Outside(ref)[c] + Cardinality(Slots(heap, c))
  <2>1. {v \in Vars : ref[v] = c} = {}
    BY <1>1, VarsAssumption
  <2>2. Slots(heap, c) = {}
    BY <1>1 DEF Slots, Elems, Places
  <2>3. Outside(ref)[c] = Cardinality({v \in Vars : ref[v] = c}) /\ Count(heap, c) = 0
    BY <1>1 DEF Outside, Count
  <2> QED BY <2>1, <2>2, <2>3, FS_EmptySet
<1> QED BY <1>2, <1>3, <1>4, <1>5 DEF Inv, Sound

LEMMA NextInv == Inv /\ [Next]_vars => Inv'
<1> SUFFICES ASSUME Inv, [Next]_vars PROVE Inv'
  OBVIOUS
<1>1. ASSUME NEW v \in Vars, Clear(v) PROVE Inv'
  <2>1. dirty' \in BOOLEAN /\ Becomes(v, [heap |-> Release(heap, ref[v]), cell |-> Null])
    BY <1>1 DEF Clear, Inv, TypeOK
  <2> QED BY <2>1, ClearStep
<1>2. ASSUME NEW v \in Vars, NEW w \in Vars, Assign(v, w) PROVE Inv'
  <2>1. dirty' \in BOOLEAN /\ Share(v, w)
    BY <1>2 DEF Assign, Inv, TypeOK
  <2> QED BY <2>1, ShareStep
<1>3. ASSUME NEW v \in Vars, NEW w \in Vars, NEW i \in 1 .. MaxLen, Take(v, w, i) PROVE Inv'
  BY <1>3, TakeStep
<1>4. ASSUME NEW v \in Vars, NEW t \in Types, NEW s \in Items, Memory(Len(s) + 1), SetArray(v, t, s)
      PROVE  Inv'
  BY <1>4, SetArrayStep
<1>5. ASSUME NEW v \in Vars, NEW b \in Base, NEW k \in 1 .. MaxLen, Memory(2), InsertItem(v, b, k)
      PROVE  Inv'
  BY <1>5, InsertItemStep
<1>6. ASSUME NEW v \in Vars, NEW w \in Vars, NEW k \in 1 .. MaxLen, Memory(1), InsertVar(v, w, k)
      PROVE  Inv'
  BY <1>6, InsertVarStep
<1>7. ASSUME NEW v \in Vars, NEW w \in Vars, Memory(1), Add(v, w) PROVE Inv'
  BY <1>7, AddStep
<1>8. ASSUME NEW v \in Vars, NEW b \in Base, Memory(1), Set(v, b) PROVE Inv'
  BY <1>8, SetStep
<1>9. ASSUME NEW v \in Vars, NEW i \in 1 .. MaxLen, Memory(1), Erase(v, i) PROVE Inv'
  BY <1>9, EraseStep
<1>10. ASSUME NEW v \in Vars, NEW i \in 1 .. MaxLen, NEW b \in Base, Memory(1), SetAt(v, i, b) PROVE Inv'
  BY <1>10, SetAtStep
<1>11. ASSUME NEW w \in Vars, SetValue(w) PROVE Inv'
  BY <1>11, SetValueStep
<1>12. CASE UNCHANGED vars
  BY <1>12 DEF vars, Inv, TypeOK, Outside, Sound, Shaped, Good, Count, Slots, Elems, Item, Heaps
<1> QED BY <1>1, <1>2, <1>3, <1>4, <1>5, <1>6, <1>7, <1>8, <1>9, <1>10, <1>11, <1>12 DEF Next

LEMMA InvHolds == Spec => []Inv
BY InitInv, NextInv, PTL DEF Spec

LEMMA InvCounted == Inv => Counted
<1> SUFFICES ASSUME Inv, NEW c \in Cells
             PROVE  IF heap[c] = Free THEN Holders(c) = {} ELSE heap[c].refs = Cardinality(Holders(c))
  BY DEF Counted
<1> DEFINE V == {v \in Vars : ref[v] = c}
           S == Slots(heap, c)
<1>1. Sound(Outside(ref), heap) /\ ref \in Pointers
  BY InvFacts
<1>2. Holders(c) = V \cup S
  <2>1. DOMAIN <<>> = {}
    OBVIOUS
  <2> QED BY <2>1 DEF Holders, Slots, Places, Elems
<1>3. IsFiniteSet(V) /\ IsFiniteSet(S) /\ V \cap S = {}
  BY HeapAssumption, FS_Subset, PlacesFinite DEF Slots, Places
<1>4. Outside(ref)[c] = Cardinality(V)
  BY DEF Outside
<1> HIDE DEF V, S
<1>5. Count(heap, c) = Cardinality(V) + Cardinality(S)
  BY <1>1, <1>4 DEF Sound, S
<1>6. IsFiniteSet(V \cup S) /\ Cardinality(V \cup S) = Cardinality(V) + Cardinality(S)
  <2>1. IsFiniteSet(V \cup S) /\ Cardinality(V \cup S) = Cardinality(V) + Cardinality(S) - Cardinality(V \cap S)
    BY <1>3, FS_Union
  <2>2. Cardinality(V \cap S) = 0 /\ Cardinality(V) \in Nat /\ Cardinality(S) \in Nat
    BY <1>3, FS_EmptySet, FS_CardinalityType
  <2> QED BY <2>1, <2>2
<1>7. Count(heap, c) = Cardinality(Holders(c))
  BY <1>2, <1>5, <1>6
<1>8. Cardinality(Holders(c)) = 0 <=> Holders(c) = {}
  BY <1>2, <1>6, FS_EmptySet
<1> QED BY <1>7, <1>8 DEF Count

\* The types, and no variant points at data that was deleted.
THEOREM TypeCorrect == Spec => []TypeOK
<1>1. Inv => TypeOK
  BY DEF Inv
<1> QED BY <1>1, InvHolds, PTL

\* The count of data is the number of variants that point at it, through
\* variables and through the elements of arrays, after every operation.
THEOREM CountsExact == Spec => []Counted
BY InvCounted, InvHolds, PTL
=============================================================================
