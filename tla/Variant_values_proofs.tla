----------------------- MODULE Variant_values_proofs -----------------------
(***************************************************************************)
(* Variants are plain values: Variant implements Values, as long as no     *)
(* element of a shared array is assigned.  What an operation changes in    *)
(* place is in the hands of its variable only, because its count is one,   *)
(* and counts are exact.                                                   *)
(***************************************************************************)
EXTENDS Variant_proofs

\* What an array of the elements s shows.
Shown(h, s) == [i \in DOMAIN s |-> Plain(h[s[i]])]
Show(t, q) == [type |-> t, items |-> q]

\* With references r, no variable but v can see cell c.
Private(r, h, v, c) ==
  \A w \in Vars \ {v} :
    /\ r[w] # c
    /\ r[w] # Null => \A i \in DOMAIN Elems(h, r[w]) : Elems(h, r[w])[i] # c

\* What there is before and after is the same, except for cells K.
Stable(h, g, K) == \A c \in Cells \ K : h[c] # Free /\ g[c] # Free => Alike(h[c], g[c])
-----------------------------------------------------------------------------
(* Values.                                                                 *)

LEMMA PlainBase ==
  ASSUME NEW r \in CellRecords
  PROVE  Plain(r) \in Base /\ Plain(r).type = r.type /\ Plain(r).num = r.num
BY CellFacts DEF Plain, Base

LEMMA ShowNotBase == \A t, q : Show(t, q) \notin Base
<1> SUFFICES ASSUME NEW t, NEW q, Show(t, q) \in Base PROVE FALSE
  OBVIOUS
<1>1. DOMAIN Show(t, q) = {"type", "items"}
  BY DEF Show
<1>2. DOMAIN Show(t, q) = {"type", "num"}
  BY DEF Base
<1>3. "items" \notin {"type", "num"}
  OBVIOUS
<1> QED BY <1>1, <1>2, <1>3

LEMMA ShownFacts ==
  ASSUME NEW h, NEW s \in Seq(Cells), \A i \in 1 .. Len(s) : Plain(h[s[i]]) \in Base
  PROVE  /\ Shown(h, s) \in Seq(Base) /\ Len(Shown(h, s)) = Len(s) /\ DOMAIN Shown(h, s) = 1 .. Len(s)
         /\ \A i \in 1 .. Len(s) : Shown(h, s)[i] = Plain(h[s[i]])
<1>1. DOMAIN s = 1 .. Len(s) /\ Len(s) \in Nat
  OBVIOUS
<1>2. Shown(h, s) = [i \in 1 .. Len(s) |-> Plain(h[s[i]])]
  BY <1>1 DEF Shown
<1>3. Shown(h, s) \in [1 .. Len(s) -> Base]
  BY <1>2
<1>4. Shown(h, s) \in Seq(Base) /\ Len(Shown(h, s)) = Len(s)
  BY <1>1, <1>3, SeqDef
<1> QED BY <1>2, <1>4

\* The elements of an array are there.
LEMMA ElementFacts ==
  ASSUME NEW h, Shaped(h), NEW c \in Cells, h[c] # Free
  PROVE  /\ h[c] \in CellRecords /\ h[c].elems \in Seq(Cells) /\ Len(h[c].elems) \in 0 .. MaxLen
         /\ Elems(h, c) = h[c].elems
         /\ \A i \in 1 .. Len(h[c].elems) :
              LET e == h[c].elems[i] IN
              /\ e \in Cells /\ e # c /\ Item(h, e, h[c].type) /\ h[e] # Free /\ Plain(h[e]) \in Base
<1>1. /\ h[c] \in CellRecords /\ h[c].elems \in Seq(Cells) /\ Len(h[c].elems) \in 0 .. MaxLen
      /\ Elems(h, c) = h[c].elems
  BY HeapFacts, CellFacts DEF Elems
<1>2. ASSUME NEW i \in 1 .. Len(h[c].elems)
      PROVE  LET e == h[c].elems[i] IN
             /\ e \in Cells /\ e # c /\ Item(h, e, h[c].type) /\ h[e] # Free /\ Plain(h[e]) \in Base
  <2> DEFINE e == h[c].elems[i]
  <2>1. i \in DOMAIN Elems(h, c) /\ e = Elems(h, c)[i] /\ e \in Cells
    BY <1>1
  <2>2. Item(h, e, h[c].type) /\ e # c
    BY <2>1, HeapFacts
  <2> HIDE DEF e
  <2>3. h[e] # Free
    BY <2>2 DEF Item
  <2>4. Plain(h[e]) \in Base
    BY <2>1, <2>3, HeapFacts, PlainBase
  <2> QED BY <2>1, <2>2, <2>3, <2>4 DEF e
<1> QED BY <1>1, <1>2

LEMMA ValueFacts ==
  ASSUME NEW h, Shaped(h), NEW c \in Cells, h[c] # Free
  PROVE  /\ Plain(h[c]) \in Base
         /\ ~h[c].array => ValueOf(h, c) = Plain(h[c]) /\ ValueOf(h, c) \in Base
         /\ h[c].array =>
              /\ ValueOf(h, c) = Show(h[c].type, Shown(h, h[c].elems))
              /\ ValueOf(h, c) \notin Base
              /\ Shown(h, h[c].elems) \in Seq(Base)
              /\ Len(Shown(h, h[c].elems)) = Len(h[c].elems)
         /\ ValueOf(h, c) # Empty /\ ValueOf(h, c).type = h[c].type
<1>1. h[c] \in CellRecords /\ c # Null /\ Plain(h[c]) \in Base /\ Plain(h[c]).type = h[c].type
  BY ElementFacts, PlainBase, VarsAssumption
<1>2. CASE ~h[c].array
  <2>1. ValueOf(h, c) = Plain(h[c])
    BY <1>1, <1>2 DEF ValueOf
  <2> QED BY <1>1, <1>2, <2>1, EmptyAssumption
<1>3. CASE h[c].array
  <2>1. ValueOf(h, c) = Show(h[c].type, Shown(h, h[c].elems))
    BY <1>1, <1>3, Zenon DEF ValueOf, Show, Shown
  <2>2. Shown(h, h[c].elems) \in Seq(Base) /\ Len(Shown(h, h[c].elems)) = Len(h[c].elems)
    BY ElementFacts, ShownFacts
  <2>3. ValueOf(h, c) \in [type : Types, items : Seq(Base)] /\ ValueOf(h, c).type = h[c].type
    BY <1>1, <2>1, <2>2, CellFacts DEF Show
  <2> QED BY <1>1, <1>3, <2>1, <2>2, <2>3, ShowNotBase, EmptyAssumption
<1> QED BY <1>2, <1>3

\* The same contents are the same value.
LEMMA SameValue ==
  ASSUME NEW h, Shaped(h), NEW g, Shaped(g), NEW c \in Cells, NEW d \in Cells,
         h[c] # Free, g[d] # Free, Alike(h[c], g[d]),
         \A i \in DOMAIN h[c].elems : Plain(g[h[c].elems[i]]) = Plain(h[h[c].elems[i]])
  PROVE  ValueOf(g, d) = ValueOf(h, c)
<1>1. h[c].type = g[d].type /\ h[c].array = g[d].array /\ h[c].num = g[d].num /\ h[c].elems = g[d].elems
  BY DEF Alike
<1>2. Shown(g, g[d].elems) = Shown(h, h[c].elems)
  BY <1>1 DEF Shown
<1>3. Plain(g[d]) = Plain(h[c])
  BY <1>1 DEF Plain
<1>4. CASE h[c].array
  <2>1. ValueOf(h, c) = Show(h[c].type, Shown(h, h[c].elems))
    BY <1>4, ValueFacts
  <2>2. g[d].array
    BY <1>1, <1>4, Zenon
  <2>3. ValueOf(g, d) = Show(g[d].type, Shown(g, g[d].elems))
    BY <2>2, ValueFacts
  <2> QED BY <1>1, <1>2, <2>1, <2>3
<1>5. CASE ~h[c].array
  <2>1. ValueOf(h, c) = Plain(h[c])
    BY <1>5, ValueFacts
  <2>2. ~g[d].array
    BY <1>1, <1>5, Zenon
  <2>3. ValueOf(g, d) = Plain(g[d])
    BY <2>2, ValueFacts
  <2> QED BY <1>3, <2>1, <2>3
<1> QED BY <1>4, <1>5
-----------------------------------------------------------------------------
(* What nobody else can see.                                               *)

LEMMA SlotAt ==
  ASSUME NEW h, Shaped(h), NEW a \in Cells, NEW c, NEW i \in DOMAIN Elems(h, a), Elems(h, a)[i] = c
  PROVE  <<a, i>> \in Slots(h, c)
<1>1. Elems(h, a) \in Seq(Cells) /\ Len(Elems(h, a)) \in 0 .. MaxLen /\ MaxLen \in Nat
  BY HeapFacts, DataAssumption
<1>2. i \in 1 .. MaxLen
  BY <1>1
<1> QED BY <1>2 DEF Slots, Places

\* Data with one reference, that of v.
LEMMA SoleHolder ==
  ASSUME NEW r \in Pointers, NEW h, Sound(Outside(r), h), NEW v \in Vars, NEW c \in Cells,
         h[c] # Free, h[c].refs = 1, r[v] = c
  PROVE  Private(r, h, v, c)
<1> DEFINE x == Outside(r)
           p == [r EXCEPT ![v] = Null]
<1>1. /\ Shaped(h) /\ c # Null /\ Count(h, c) = 1
      /\ x \in [Cells -> Int] /\ x[c] >= 1
  BY OutsideFacts, VarsAssumption DEF Sound, Count
<1>2. Slots(h, c) = {} /\ x[c] = 1
  <2>1. x[c] \in Int /\ x[c] >= 0
    BY <1>1
  <2>2. x[c] <= Count(h, c) /\ (Count(h, c) <= x[c] => Slots(h, c) = {})
    BY <2>1, Unreferenced
  <2> QED BY <1>1, <2>1, <2>2
<1>3. /\ p \in Pointers /\ Outside(p) = Minus(x, c)
      /\ \A w \in Vars : w # v => p[w] = r[w]
  BY Clearing
<1>4. Outside(p)[c] = 0
  <2>1. Minus(x, c)[c] = x[c] - One(c, c) /\ One(c, c) = 1
    BY <1>1, PlusMinus DEF One
  <2> QED BY <1>2, <1>3, <2>1
<1> HIDE DEF p, x
<1> SUFFICES ASSUME NEW w \in Vars \ {v}
             PROVE  /\ r[w] # c
                    /\ r[w] # Null => \A i \in DOMAIN Elems(h, r[w]) : Elems(h, r[w])[i] # c
  BY DEF Private
<1>5. r[w] # c
  <2> SUFFICES ASSUME r[w] = c PROVE FALSE
    OBVIOUS
  <2>1. p[w] = c /\ w \in Vars
    BY <1>3
  <2>2. Outside(p)[c] >= 1
    BY <1>1, <1>3, <2>1, OutsideFacts
  <2> QED BY <1>4, <2>2
<1>6. ASSUME r[w] # Null, NEW i \in DOMAIN Elems(h, r[w]), Elems(h, r[w])[i] = c PROVE FALSE
  <2>1. r[w] \in Cells
    BY <1>6 DEF Pointers
  <2> QED BY <1>1, <1>2, <1>6, <2>1, SlotAt
<1> QED BY <1>5, <1>6

\* Data with one reference, that of an element of an array that only v holds.
LEMMA SoleElement ==
  ASSUME NEW r \in Pointers, NEW h, Sound(Outside(r), h), NEW v \in Vars, NEW a \in Cells,
         h[a] # Free, Private(r, h, v, a),
         NEW i \in DOMAIN h[a].elems, NEW c \in Cells, h[a].elems[i] = c, h[c] # Free, h[c].refs = 1
  PROVE  /\ Private(r, h, v, c)
         /\ \A j \in DOMAIN h[a].elems : h[a].elems[j] = c => j = i
<1> DEFINE x == Outside(r)
<1>1. /\ Shaped(h) /\ Count(h, c) = 1 /\ x \in [Cells -> Int] /\ x[c] >= 0 /\ x[c] \in Int
      /\ Count(h, c) = x[c] + Cardinality(Slots(h, c))
  BY OutsideFacts DEF Sound, Count
<1>2. <<a, i>> \in Slots(h, c)
  BY <1>1, SlotAt DEF Elems
<1>3. x[c] = 0 /\ Slots(h, c) = {<<a, i>>}
  <2>1. IsFiniteSet(Slots(h, c)) /\ Cardinality(Slots(h, c)) \in Nat
    BY PlacesFinite, FS_CardinalityType
  <2>2. Cardinality(Slots(h, c)) # 0
    BY <1>2, <2>1, FS_EmptySet
  <2>3. x[c] = 0 /\ Cardinality(Slots(h, c)) = 1
    BY <1>1, <2>1, <2>2
  <2>4. PICK p : Slots(h, c) = {p}
    BY <2>1, <2>3, FS_Singleton
  <2> QED BY <1>2, <2>3, <2>4
<1>4. ASSUME NEW j \in DOMAIN h[a].elems, h[a].elems[j] = c PROVE j = i
  <2>1. <<a, j>> \in Slots(h, c)
    BY <1>1, <1>4, SlotAt DEF Elems
  <2> QED BY <1>3, <2>1
<1> SUFFICES ASSUME NEW w \in Vars \ {v}
             PROVE  /\ r[w] # c
                    /\ r[w] # Null => \A j \in DOMAIN Elems(h, r[w]) : Elems(h, r[w])[j] # c
  BY <1>4 DEF Private
<1>5. r[w] # c
  <2> SUFFICES ASSUME r[w] = c PROVE FALSE
    OBVIOUS
  <2>1. r[w] # Null /\ w \in Vars
    BY VarsAssumption
  <2>2. x[c] >= 1
    BY <2>1, OutsideFacts
  <2> QED BY <1>3, <2>2
<1>6. ASSUME r[w] # Null, NEW j \in DOMAIN Elems(h, r[w]), Elems(h, r[w])[j] = c PROVE FALSE
  <2>1. r[w] \in Cells /\ r[w] # a
    BY <1>6 DEF Pointers, Private
  <2>2. <<r[w], j>> \in Slots(h, c)
    BY <1>1, <1>6, <2>1, SlotAt
  <2> QED BY <1>3, <2>1, <2>2
<1> QED BY <1>5, <1>6

\* What the others see is there before and after, and the same.
LEMMA OthersKept ==
  ASSUME NEW r \in Pointers, NEW h, Sound(Outside(r), h), NEW q \in Pointers, NEW g, Sound(Outside(q), g),
         NEW v \in Vars, \A w \in Vars \ {v} : q[w] = r[w],
         NEW K, Stable(h, g, K), \A c \in K : Private(q, g, v, c),
         NEW w \in Vars \ {v}
  PROVE  ValueOf(g, q[w]) = ValueOf(h, r[w])
<1>1. CASE r[w] = Null
  BY <1>1 DEF ValueOf
<1>2. CASE r[w] # Null
  <2> DEFINE c == r[w]
  <2>1. c \in Cells /\ q[w] = c /\ w \in Vars /\ w # v
    BY <1>2 DEF Pointers
  <2>2. Shaped(h) /\ Shaped(g) /\ h[c] # Free /\ g[c] # Free
    <3>1. Shaped(h) /\ Shaped(g)
      BY DEF Sound
    <3>2. Outside(r)[c] >= 1 /\ Outside(q)[c] >= 1 /\ Outside(r)[c] \in Int /\ Outside(q)[c] \in Int
      BY <1>2, <2>1, OutsideFacts
    <3>3. Outside(r)[c] <= Count(h, c) /\ Outside(q)[c] <= Count(g, c)
      BY <2>1, <3>2, Unreferenced
    <3>4. Count(h, c) # 0 /\ Count(g, c) # 0
      BY <2>1, <3>1, <3>2, <3>3, HeapFacts
    <3> QED BY <3>1, <3>4 DEF Count
  <2> HIDE DEF c
  <2>3. c \notin K /\ \A i \in DOMAIN Elems(g, c) : Elems(g, c)[i] \notin K
    BY <1>2, <2>1 DEF Private, c
  <2>4. Alike(h[c], g[c]) /\ h[c].elems = g[c].elems
    BY <2>1, <2>2, <2>3 DEF Stable, Alike
  <2>5. ASSUME NEW i \in DOMAIN h[c].elems
        PROVE  Plain(g[h[c].elems[i]]) = Plain(h[h[c].elems[i]])
    <3> DEFINE e == h[c].elems[i]
    <3>1. i \in 1 .. Len(h[c].elems) /\ i \in DOMAIN Elems(g, c) /\ Elems(g, c) = g[c].elems
      BY <2>1, <2>2, <2>4, ElementFacts
    <3>2. e \in Cells /\ h[e] # Free
      BY <2>1, <2>2, <3>1, ElementFacts
    <3>3. g[e] # Free /\ e \notin K
      BY <2>1, <2>2, <2>3, <2>4, <3>1, ElementFacts
    <3> HIDE DEF e
    <3>4. Alike(h[e], g[e])
      BY <3>2, <3>3 DEF Stable
    <3>5. Plain(g[e]) = Plain(h[e])
      BY <3>4 DEF Alike, Plain
    <3> QED BY <3>5 DEF e
  <2>6. ValueOf(g, c) = ValueOf(h, c)
    BY <2>1, <2>2, <2>4, <2>5, SameValue
  <2> QED BY <2>1, <2>6 DEF c
<1> QED BY <1>1, <1>2
-----------------------------------------------------------------------------
(* Steps of Values.                                                        *)

\* A step after which v has another value.
LEMMA Turning ==
  ASSUME NEW v \in Vars, NEW x, \A w \in Vars \ {v} : Value(w)' = Value(w), Value(v)' = x, dirty' = dirty
  PROVE  Abs!Becomes(v, x)
<1>1. [w \in Vars |-> Value(w)]' = [w \in Vars |-> Value(w)']
  OBVIOUS
<1>2. [w \in Vars |-> Value(w)'] = [[w \in Vars |-> Value(w)] EXCEPT ![v] = x]
  BY Zenon
<1> QED BY <1>1, <1>2 DEF Abs!Becomes

LEMMA OthersSame ==
  ASSUME Inv, Inv', NEW v \in Vars, \A w \in Vars \ {v} : ref'[w] = ref[w],
         NEW K, Stable(heap, heap', K), \A c \in K : Private(ref', heap', v, c)
  PROVE  \A w \in Vars \ {v} : Value(w)' = Value(w)
<1>1. ref \in Pointers /\ Sound(Outside(ref), heap)
  BY InvFacts
<1>2. ref' \in Pointers /\ Sound(Outside(ref'), heap')
  <2>1. ref' \in Pointers
    BY DEF Inv, TypeOK, Pointers
  <2>2. Sound(Outside(ref'), heap')
    BY DEF Inv, Sound, Outside, Shaped, Good, Count, Slots, Elems, Item, Heaps
  <2> QED BY <2>1, <2>2
<1> TAKE w \in Vars \ {v}
<1>3. ValueOf(heap', ref'[w]) = ValueOf(heap, ref[w])
  BY <1>1, <1>2, OthersKept
<1> QED BY <1>3, Zenon DEF Value, ValueOf, Plain

LEMMA InvAfter ==
  ASSUME Inv'
  PROVE  /\ ref' \in Pointers /\ Sound(Outside(ref'), heap') /\ Shaped(heap')
         /\ \A v \in Vars : ref'[v] # Null => ref'[v] \in Cells /\ heap'[ref'[v]] # Free
         /\ \A v \in Vars : Value(v)' = ValueOf(heap', ref'[v])
<1>1. ref' \in Pointers
  BY DEF Inv, TypeOK, Pointers
<1>2. Sound(Outside(ref'), heap')
  BY DEF Inv, Sound, Outside, Shaped, Good, Count, Slots, Elems, Item, Heaps
<1>3. \A v \in Vars : ref'[v] # Null => ref'[v] \in Cells /\ heap'[ref'[v]] # Free
  BY <1>1 DEF Inv, TypeOK, Pointers
<1>4. \A v \in Vars : Value(v)' = ValueOf(heap', ref'[v])
  BY DEF Value, ValueOf, Plain
<1> QED BY <1>1, <1>2, <1>3, <1>4 DEF Sound

\* Kinds of values.
LEMMA Kinds ==
  ASSUME Inv, NEW v \in Vars
  PROVE  /\ ref[v] # Null => ref[v] \in Cells /\ heap[ref[v]] # Free
         /\ ref[v] = Null => Value(v) = Empty
         /\ IsBase(v) => /\ Value(v) = Plain(heap[ref[v]]) /\ Value(v) \in Base /\ Value(v) \in Abs!Base
                         /\ Value(v).type = heap[ref[v]].type /\ Value(v).num = heap[ref[v]].num
         /\ IsArray(v) => LET q == Shown(heap, heap[ref[v]].elems) IN
                          /\ Value(v) = Show(heap[ref[v]].type, q) /\ Value(v) # Empty
                          /\ Value(v) \notin Abs!Base /\ Value(v) \notin Base
                          /\ q \in Seq(Base) /\ Len(q) = Len(heap[ref[v]].elems)
<1>1. Abs!Base = Base
  BY DEF Abs!Base, Base
<1>2. ref[v] # Null => ref[v] \in Cells /\ heap[ref[v]] # Free
  BY InvFacts
<1>3. Shaped(heap)
  BY InvFacts
<1>4. ASSUME IsBase(v)
      PROVE  /\ Value(v) = Plain(heap[ref[v]]) /\ Value(v) \in Base
             /\ Value(v).type = heap[ref[v]].type /\ Value(v).num = heap[ref[v]].num
  <2>1. ref[v] \in Cells /\ heap[ref[v]] # Free /\ ~heap[ref[v]].array
    BY <1>2, <1>4 DEF IsBase
  <2>2. heap[ref[v]] \in CellRecords
    BY <1>3, <2>1, ElementFacts
  <2> QED BY <1>3, <2>1, <2>2, ValueFacts, PlainBase DEF Value
<1>5. ASSUME IsArray(v)
      PROVE  LET q == Shown(heap, heap[ref[v]].elems) IN
             /\ Value(v) = Show(heap[ref[v]].type, q) /\ Value(v) # Empty /\ Value(v) \notin Base
             /\ q \in Seq(Base) /\ Len(q) = Len(heap[ref[v]].elems)
  <2>1. ref[v] \in Cells /\ heap[ref[v]] # Free /\ heap[ref[v]].array
    BY <1>2, <1>5 DEF IsArray
  <2> QED BY <1>3, <2>1, ValueFacts DEF Value
<1>6. ref[v] = Null => Value(v) = Empty
  BY DEF Value, ValueOf
<1> QED BY <1>1, <1>2, <1>4, <1>5, <1>6

LEMMA StableReleased ==
  ASSUME Inv, NEW v \in Vars
  PROVE  Stable(heap, Release(heap, ref[v]), {})
BY Released DEF Stable

LEMMA StableShared ==
  ASSUME NEW x, NEW h, NEW g, Sound(x, g), NEW K, Stable(h, g, K), NEW c \in Cells, g[c] # Free
  PROVE  Stable(h, Shared(g, c), K)
<1>1. \A e \in Cells : Kept(g, Shared(g, c), e)
  BY SharedSound
<1> QED BY <1>1 DEF Stable, Kept, Alike

LEMMA ClearValues ==
  ASSUME Inv, Inv', NEW v \in Vars, Clear(v)
  PROVE  Abs!Clear(v)
<1>1. heap' = Release(heap, ref[v]) /\ ref' = [ref EXCEPT ![v] = Null] /\ dirty' = dirty
  BY DEF Clear, Becomes
<1>2. ref \in Pointers /\ Value(v)' = ValueOf(heap', ref'[v])
  BY InvFacts, InvAfter
<1>3. Stable(heap, heap', {})
  BY <1>1, StableReleased
<1>4. \A w \in Vars \ {v} : Value(w)' = Value(w)
  BY <1>1, <1>2, <1>3, OthersSame DEF Pointers
<1>5. Value(v)' = Empty
  BY <1>1, <1>2 DEF ValueOf, Pointers
<1> QED BY <1>1, <1>4, <1>5, Turning DEF Abs!Clear

\* v comes to see what was, and is, behind c.
LEMMA SharedValues ==
  ASSUME Inv, Inv', NEW v \in Vars, NEW c \in Cells, Release(heap, ref[v])[c] # Free,
         Becomes(v, [heap |-> Shared(Release(heap, ref[v]), c), cell |-> c])
  PROVE  /\ \A w \in Vars \ {v} : Value(w)' = Value(w)
         /\ ref'[v] = c /\ \A w \in Vars \ {v} : ref'[w] = ref[w]
         /\ heap[c] # Free /\ heap'[c] # Free /\ Alike(heap[c], heap'[c])
<1> DEFINE g == Release(heap, ref[v])
<1>1. heap' = Shared(g, c) /\ ref' = [ref EXCEPT ![v] = c] /\ ref \in Pointers
  BY InvFacts DEF Becomes
<1>2. Sound(Outside([ref EXCEPT ![v] = Null]), g) /\ (g[c] # Free => heap[c] # Free)
  BY Released
<1>3. Stable(heap, g, {})
  BY StableReleased
<1>4. ref'[v] = c /\ \A w \in Vars \ {v} : ref'[w] = ref[w]
  BY <1>1 DEF Pointers
<1> HIDE DEF g
<1>5. Stable(heap, heap', {})
  BY <1>1, <1>2, <1>3, StableShared DEF g
<1>6. \A w \in Vars \ {v} : Value(w)' = Value(w)
  BY <1>4, <1>5, OthersSame
<1>7. c # Null /\ heap'[c] # Free
  BY <1>4, InvAfter, VarsAssumption
<1>8. heap[c] # Free
  BY <1>2 DEF g
<1> QED BY <1>4, <1>5, <1>6, <1>7, <1>8 DEF Stable

LEMMA ShareValues ==
  ASSUME Inv, Inv', NEW v \in Vars, NEW w \in Vars, Share(v, w)
  PROVE  /\ \A u \in Vars \ {v} : Value(u)' = Value(u)
         /\ Value(v)' = IF v = w THEN Empty ELSE Value(w)
<1> DEFINE g == Release(heap, ref[v])
           c == IF v = w THEN Null ELSE ref[w]
<1>1. Becomes(v, [heap |-> IF c = Null THEN g ELSE Shared(g, c), cell |-> c])
  BY DEF Share
<1>2. ref \in Pointers /\ \A u \in Vars : Value(u)' = ValueOf(heap', ref'[u])
  BY InvFacts, InvAfter
<1>3. CASE c = Null
  <2>1. heap' = g /\ ref' = [ref EXCEPT ![v] = Null]
    BY <1>1, <1>3 DEF Becomes
  <2>2. Stable(heap, heap', {})
    BY <2>1, StableReleased
  <2>3. \A u \in Vars \ {v} : Value(u)' = Value(u)
    BY <1>2, <2>1, <2>2, OthersSame DEF Pointers
  <2>4. Value(v)' = Empty
    BY <1>2, <2>1 DEF ValueOf, Pointers
  <2>5. v # w => Value(w) = Empty
    BY <1>3 DEF Value, ValueOf
  <2> QED BY <2>3, <2>4, <2>5
<1>4. CASE c # Null
  <2>1. w # v /\ c = ref[w] /\ ref[w] # Null
    BY <1>4
  <2>2. ref[w] \in Cells /\ g[ref[w]] # Free
    BY <2>1, Released
  <2>3. Becomes(v, [heap |-> Shared(g, c), cell |-> c])
    BY <1>1, <1>4
  <2>4. /\ \A u \in Vars \ {v} : Value(u)' = Value(u)
        /\ ref'[v] = ref[w] /\ ref'[w] = ref[w]
    BY <2>1, <2>2, <2>3, SharedValues
  <2>5. Value(v)' = Value(w)'
    BY <1>2, <2>4
  <2> QED BY <2>1, <2>4, <2>5
<1> QED BY <1>3, <1>4

LEMMA AssignValues ==
  ASSUME Inv, Inv', NEW v \in Vars, NEW w \in Vars, Assign(v, w)
  PROVE  Abs!Assign(v, w)
<1>1. Share(v, w) /\ dirty' = dirty
  BY DEF Assign
<1>2. /\ \A u \in Vars \ {v} : Value(u)' = Value(u)
      /\ Value(v)' = IF v = w THEN Empty ELSE [u \in Vars |-> Value(u)][w]
  BY <1>1, ShareValues
<1> QED BY <1>1, <1>2, Turning DEF Abs!Assign

\* The flag is set when a value comes, and left alone when it is taken for the
\* present one, which is the case when the present one begins with it.
LEMMA SetValueValues ==
  ASSUME Inv, Inv', NEW w \in Vars \ {ComVar}, SetValue(w)
  PROVE  Abs!SetValue(w)
<1> DEFINE val == [u \in Vars |-> Value(u)]
           x == Value(w)
           y == Value(ComVar)
<1>1. ComVar \in Vars /\ w \in Vars /\ val[w] = x /\ val[ComVar] = y
  BY VarsAssumption
<1>2. Abs!Begins(x, y) => Equal(x, y)
  BY DEF Abs!Begins, Equal, Abs!IsArray, Abs!IsBase, Abs!Base, Base
<1>3. CASE Equal(x, y)
  <2>1. ref' = ref /\ heap' = heap /\ dirty' = dirty
    BY <1>3 DEF SetValue
  <2>2. \A u \in Vars : Value(u)' = Value(u)
    BY <2>1 DEF Value, ValueOf, Plain
  <2>3. val' = val
    BY <2>2
  <2>4. ~Abs!Begins(x, y) => x = y
    BY <1>3 DEF Abs!Begins, Equal, Abs!IsArray, Abs!IsBase, Abs!Base, Base
  <2>5. x = y => [val EXCEPT ![ComVar] = val[w]] = val
    BY <1>1
  <2> HIDE DEF val, x, y
  <2> QED BY <1>1, <2>1, <2>3, <2>4, <2>5 DEF Abs!SetValue, Abs!vars, val
<1>4. CASE ~Equal(x, y)
  <2>1. Share(ComVar, w) /\ dirty' = TRUE
    BY <1>4 DEF SetValue
  <2>2. /\ \A u \in Vars \ {ComVar} : Value(u)' = Value(u)
        /\ Value(ComVar)' = x
    BY <1>1, <2>1, ShareValues
  <2>3. val' = [val EXCEPT ![ComVar] = val[w]]
    <3>1. val' = [u \in Vars |-> Value(u)']
      OBVIOUS
    <3> QED BY <1>1, <2>2, <3>1
  <2>4. ~Abs!Begins(x, y)
    BY <1>2, <1>4
  <2> HIDE DEF x, y
  <2> QED BY <1>1, <2>1, <2>3, <2>4 DEF Abs!SetValue
<1> QED BY <1>3, <1>4

LEMMA TakeValues ==
  ASSUME Inv, Inv', NEW v \in Vars, NEW w \in Vars, NEW i, Take(v, w, i)
  PROVE  Abs!Take(v, w, i)
<1> DEFINE val == [u \in Vars |-> Value(u)]
           g == Release(heap, ref[v])
           a == ref[w]
           e == Element(w, i)
           q == Shown(heap, heap[a].elems)
<1>1. /\ v # w /\ IsArray(w) /\ a # Null /\ i \in DOMAIN heap[a].elems /\ e = heap[a].elems[i]
      /\ dirty' = dirty /\ Becomes(v, [heap |-> Shared(g, e), cell |-> e])
  BY DEF Take, IsArray, Element
<1>2. a \in Cells /\ heap[a] # Free /\ g[a] # Free /\ Alike(heap[a], g[a])
  BY <1>1, Released, InvFacts
<1>3. Shaped(heap) /\ Shaped(g) /\ g[a].elems = heap[a].elems
  BY <1>2, InvFacts, Released DEF Sound, Alike
<1>4. i \in 1 .. Len(heap[a].elems) /\ e \in Cells /\ Item(heap, e, heap[a].type) /\ Plain(heap[e]) \in Base
  BY <1>1, <1>2, <1>3, ElementFacts
<1>5. g[e] # Free
  <2>1. i \in 1 .. Len(g[a].elems) /\ g[a].elems[i] = e
    BY <1>1, <1>3, <1>4
  <2> HIDE DEF g, e
  <2> QED BY <1>2, <1>3, <2>1, ElementFacts
<1>6. /\ \A u \in Vars \ {v} : Value(u)' = Value(u)
      /\ ref'[v] = e /\ heap[e] # Free /\ heap'[e] # Free /\ Alike(heap[e], heap'[e])
  BY <1>1, <1>4, <1>5, SharedValues
<1>7. Value(v)' = Plain(heap[e])
  <2>1. Value(v)' = ValueOf(heap', e) /\ Shaped(heap')
    BY <1>6, InvAfter
  <2>2. ~heap[e].array /\ heap'[e].array = heap[e].array /\ Plain(heap'[e]) = Plain(heap[e])
    BY <1>4, <1>6 DEF Item, Alike, Plain
  <2>3. ~heap'[e].array
    BY <2>2, Zenon
  <2> HIDE DEF e
  <2>4. ValueOf(heap', e) = Plain(heap'[e])
    BY <1>4, <1>6, <2>1, <2>3, ValueFacts
  <2> QED BY <2>1, <2>2, <2>4
<1>8. val[w] = Value(w) /\ Value(w) = Show(heap[a].type, q) /\ Value(w) # Empty /\ Value(w) \notin Abs!Base
  BY <1>1, Kinds
<1>9. q[i] = Plain(heap[e]) /\ DOMAIN q = DOMAIN heap[a].elems
  BY <1>1 DEF Shown
<1>10. val[w].items = q
  BY <1>8 DEF Show
<1> HIDE DEF val, q, e, a, g
<1>11. Abs!IsArray(val[w]) /\ i \in DOMAIN val[w].items /\ val[w].items[i] = Plain(heap[e])
  BY <1>1, <1>8, <1>9, <1>10 DEF Abs!IsArray, Abs!IsBase
<1>12. Abs!Becomes(v, Plain(heap[e]))
  BY <1>1, <1>6, <1>7, Turning
<1> QED BY <1>1, <1>11, <1>12 DEF Abs!Take, val
-----------------------------------------------------------------------------
(* A number for a variant.                                                 *)

\* v gets data of its own with number n, its only change.
LEMMA NumberValues ==
  ASSUME Inv, Inv', NEW v \in Vars, NEW n \in 0 .. Width - 1, IsBase(v), FreeCells(heap) # {},
         Becomes(v, NumberOf(heap, ref[v], n))
  PROVE  /\ \A w \in Vars \ {v} : Value(w)' = Value(w)
         /\ Value(v)' = [type |-> heap[ref[v]].type, num |-> n]
<1> DEFINE c == ref[v]
           o == NumberOf(heap, c, n)
           d == o.cell
<1>1. /\ ref \in Pointers /\ Sound(Outside(ref), heap) /\ c \in Cells /\ heap[c] # Free /\ ~heap[c].array
      /\ heap' = o.heap /\ ref' = [ref EXCEPT ![v] = d]
  BY InvFacts DEF IsBase, Becomes
<1>2. /\ d \in Cells /\ o.heap[d] # Free /\ o.heap[d].refs = 1 /\ o.heap[d].num = n
      /\ o.heap[d].type = heap[c].type /\ o.heap[d].array = heap[c].array
      /\ \A e \in Cells : e # d => Kept(heap, o.heap, e)
  BY <1>1, NumberOfSound
<1> HIDE DEF d, o
<1>3. /\ d \in Cells /\ heap'[d] # Free /\ heap'[d].refs = 1 /\ heap'[d].num = n
      /\ heap'[d].type = heap[c].type /\ heap'[d].array = heap[c].array
      /\ ref'[v] = d /\ \A w \in Vars \ {v} : ref'[w] = ref[w]
  BY <1>1, <1>2 DEF Pointers
<1>4. Stable(heap, heap', {d})
  BY <1>1, <1>2 DEF Stable, Kept
<1>5. /\ ref' \in Pointers /\ Sound(Outside(ref'), heap') /\ Shaped(heap')
      /\ Value(v)' = ValueOf(heap', d)
  BY <1>3, InvAfter
<1>6. Private(ref', heap', v, d)
  BY <1>3, <1>5, SoleHolder
<1>7. \A w \in Vars \ {v} : Value(w)' = Value(w)
  BY <1>3, <1>4, <1>6, OthersSame
<1>8. ~heap'[d].array
  BY <1>1, <1>3, Zenon
<1>9. ValueOf(heap', d) = Plain(heap'[d])
  BY <1>3, <1>5, <1>8, ValueFacts
<1>10. Plain(heap'[d]) = [type |-> heap[c].type, num |-> n]
  BY <1>3 DEF Plain
<1> QED BY <1>5, <1>7, <1>9, <1>10

LEMMA SetValues ==
  ASSUME Inv, Inv', NEW v \in Vars, NEW b \in Base, Memory(1), Set(v, b)
  PROVE  Abs!Set(v, b)
<1>1. Becomes(v, Write(heap, ref[v], b)) /\ dirty' = dirty
  BY DEF Set
<1>2. FreeCells(heap) # {} /\ ref \in Pointers
  BY MemoryFree, InvFacts
<1>3. b.num \in 0 .. Width - 1 /\ b = [type |-> b.type, num |-> b.num]
  BY DEF Base
<1>4. CASE ref[v] # Null /\ ~heap[ref[v]].array /\ heap[ref[v]].type = b.type
  <2>1. Write(heap, ref[v], b) = NumberOf(heap, ref[v], b.num) /\ IsBase(v)
    BY <1>4 DEF Write, NumberOf, IsBase
  <2>2. /\ \A w \in Vars \ {v} : Value(w)' = Value(w)
        /\ Value(v)' = [type |-> heap[ref[v]].type, num |-> b.num]
    BY <1>1, <1>2, <1>3, <2>1, NumberValues
  <2>3. Value(v)' = b
    BY <1>3, <1>4, <2>2
  <2> QED BY <1>1, <2>2, <2>3, Turning DEF Abs!Set
<1>5. CASE ~(ref[v] # Null /\ ~heap[ref[v]].array /\ heap[ref[v]].type = b.type)
  <2> DEFINE g == Release(heap, ref[v])
             d == NewCell(g)
             f == [g EXCEPT ![d] = BaseCell(b)]
  <2>1. Write(heap, ref[v], b) = [heap |-> f, cell |-> d]
    BY <1>5 DEF Write
  <2>2. FreeCells(g) # {} /\ Sound(Outside([ref EXCEPT ![v] = Null]), g) /\ Stable(heap, g, {})
    BY <1>2, Released, StableReleased
  <2> HIDE DEF g
  <2>3. d \in Cells /\ g[d] = Free
    BY <2>2, NewCellFree
  <2> HIDE DEF d
  <2>4. f[d] = BaseCell(b) /\ f[d] # Free /\ \A e \in Cells : e # d => f[e] = g[e]
    <3>1. g \in Heaps
      BY <2>2 DEF Sound, Shaped
    <3>2. BaseCell(b) # Free
      BY NewBase, CellFacts
    <3> QED BY <2>3, <3>1, <3>2 DEF Heaps
  <2> HIDE DEF f
  <2>5. heap' = f /\ ref' = [ref EXCEPT ![v] = d]
    BY <1>1, <2>1 DEF Becomes
  <2>6. heap'[d].refs = 1 /\ heap'[d].array = FALSE /\ heap'[d].type = b.type /\ heap'[d].num = b.num
    BY <2>4, <2>5, NewBase
  <2>7. ref'[v] = d /\ heap'[d] # Free /\ \A w \in Vars \ {v} : ref'[w] = ref[w]
    BY <1>2, <2>4, <2>5 DEF Pointers
  <2>8. Stable(heap, heap', {d})
    BY <2>2, <2>4, <2>5 DEF Stable
  <2>9. /\ ref' \in Pointers /\ Sound(Outside(ref'), heap') /\ Shaped(heap')
        /\ Value(v)' = ValueOf(heap', d)
    BY <2>7, InvAfter
  <2>10. Private(ref', heap', v, d)
    BY <2>3, <2>6, <2>7, <2>9, SoleHolder
  <2>11. \A w \in Vars \ {v} : Value(w)' = Value(w)
    BY <2>7, <2>8, <2>10, OthersSame
  <2>12. ValueOf(heap', d) = Plain(heap'[d])
    BY <2>3, <2>6, <2>7, <2>9, ValueFacts
  <2>13. Value(v)' = b
    BY <1>3, <2>6, <2>9, <2>12 DEF Plain
  <2> QED BY <1>1, <2>11, <2>13, Turning DEF Abs!Set
<1> QED BY <1>4, <1>5

LEMMA AddValues ==
  ASSUME Inv, Inv', NEW v \in Vars, NEW w \in Vars, Memory(1), Add(v, w)
  PROVE  Abs!Add(v, w) \/ UNCHANGED Abs!vars
<1> DEFINE val == [u \in Vars |-> Value(u)]
           c == ref[v]
           n == IF heap[c].type \in Summable
                  THEN (heap[c].num + heap[ref[w]].num) % Width ELSE heap[c].num
           x == [type |-> heap[c].type, num |-> n]
<1>1. /\ IsBase(v) /\ IsBase(w) /\ heap[c].type = heap[ref[w]].type /\ dirty' = dirty
      /\ Becomes(v, NumberOf(heap, c, n))
  BY DEF Add, NumberOf
<1>2. /\ Value(v) \in Base /\ Value(v) \in Abs!Base /\ Value(w) \in Abs!Base /\ Value(w) \in Base
      /\ Value(v).type = heap[c].type /\ Value(v).num = heap[c].num
      /\ Value(w).type = heap[ref[w]].type /\ Value(w).num = heap[ref[w]].num
  BY <1>1, Kinds
<1>3. n \in 0 .. Width - 1
  <2>1. heap[c].num \in 0 .. Width - 1 /\ heap[ref[w]].num \in 0 .. Width - 1
    BY <1>2 DEF Base
  <2>2. \A k, l \in 0 .. Width - 1 : (k + l) % Width \in 0 .. Width - 1
    BY DataAssumption
  <2> QED BY <2>1, <2>2
<1>4. FreeCells(heap) # {}
  BY MemoryFree
<1> HIDE DEF n
<1>5. (\A u \in Vars \ {v} : Value(u)' = Value(u)) /\ Value(v)' = x
  BY <1>1, <1>3, <1>4, NumberValues
<1>6. Abs!Becomes(v, x)
  BY <1>1, <1>5, Turning
<1>7. val[v] = Value(v) /\ val[w] = Value(w) /\ Value(v) = [type |-> heap[c].type, num |-> heap[c].num]
  BY <1>2 DEF Base
<1>8. CASE heap[c].type \in Summable
  <2>1. n = (heap[c].num + heap[ref[w]].num) % Width
    BY <1>8 DEF n
  <2>2. x = [val[v] EXCEPT !.num = (@ + val[w].num) % Width]
    BY <1>2, <1>7, <2>1
  <2> HIDE DEF x, val
  <2>3. Abs!IsBase(val[v]) /\ Abs!IsBase(val[w]) /\ val[v].type = val[w].type /\ val[v].type \in Summable
    BY <1>1, <1>2, <1>7, <1>8 DEF Abs!IsBase
  <2> QED BY <1>6, <2>2, <2>3 DEF Abs!Add, val
<1>9. CASE heap[c].type \notin Summable
  <2>1. x = Value(v)
    BY <1>7, <1>9 DEF n
  <2>2. \A u \in Vars : Value(u)' = Value(u)
    BY <1>5, <2>1
  <2>3. val' = val
    <3>1. val' = [u \in Vars |-> Value(u)']
      OBVIOUS
    <3> QED BY <2>2, <3>1
  <2> QED BY <1>1, <2>3 DEF Abs!vars
<1> QED BY <1>8, <1>9
-----------------------------------------------------------------------------
(* Arrays.                                                                 *)

LEMMA ShownWith ==
  ASSUME NEW h, NEW g, NEW s \in Seq(Cells), NEW e \in Cells, NEW k \in 1 .. Len(s) + 1,
         \A i \in 1 .. Len(s) : Plain(h[s[i]]) \in Base /\ Plain(g[s[i]]) = Plain(h[s[i]]),
         Plain(g[e]) \in Base
  PROVE  Shown(g, With(s, k, e)) = With(Shown(h, s), k, Plain(g[e]))
<1> DEFINE t == With(s, k, e)
           q == Shown(h, s)
           x == Plain(g[e])
           u == With(q, k, x)
           l == Shown(g, t)
<1>1. /\ t \in Seq(Cells) /\ Len(t) = Len(s) + 1 /\ t[k] = e
      /\ \A i \in 1 .. (k - 1) : t[i] = s[i]
      /\ \A i \in k .. Len(s) : t[i + 1] = s[i]
  BY WithFacts
<1>2. q \in Seq(Base) /\ Len(q) = Len(s) /\ \A i \in 1 .. Len(s) : q[i] = Plain(h[s[i]])
  BY ShownFacts
<1>3. Len(s) \in Nat /\ k \in Nat /\ k >= 1
  OBVIOUS
<1> HIDE DEF t, q, x
<1>4. /\ u \in Seq(Base) /\ Len(u) = Len(q) + 1 /\ u[k] = x
      /\ \A i \in 1 .. (k - 1) : u[i] = q[i]
      /\ \A i \in k .. Len(q) : u[i + 1] = q[i]
  BY <1>2, WithFacts DEF x
<1> HIDE DEF u
<1>5. ASSUME NEW i \in 1 .. Len(s) + 1 PROVE Plain(g[t[i]]) = u[i] /\ u[i] \in Base
  <2>1. u[i] \in Base
    BY <1>2, <1>4
  <2>2. CASE i < k
    <3>1. i \in 1 .. (k - 1) /\ i \in 1 .. Len(s)
      BY <1>3, <2>2
    <3> QED BY <1>1, <1>2, <1>4, <2>1, <3>1
  <2>3. CASE i = k
    BY <1>1, <1>4, <2>1, <2>3 DEF x
  <2>4. CASE i > k
    <3>1. i - 1 \in k .. Len(s) /\ (i - 1) + 1 = i /\ i - 1 \in 1 .. Len(s)
      BY <1>3, <2>4
    <3>2. t[i] = s[i - 1] /\ u[i] = q[i - 1]
      BY <1>1, <1>2, <1>4, <3>1
    <3> QED BY <1>2, <2>1, <3>1, <3>2
  <2> QED BY <1>3, <2>2, <2>3, <2>4
<1>6. \A i \in 1 .. Len(t) : Plain(g[t[i]]) \in Base
  BY <1>1, <1>5
<1>7. l \in Seq(Base) /\ Len(l) = Len(t) /\ \A i \in 1 .. Len(t) : l[i] = Plain(g[t[i]])
  BY <1>1, <1>6, ShownFacts
<1> HIDE DEF l
<1>8. Len(l) = Len(u) /\ \A i \in 1 .. Len(l) : l[i] = u[i]
  BY <1>1, <1>2, <1>4, <1>5, <1>7
<1>9. l = u
  BY <1>4, <1>7, <1>8, SeqEqual
<1> QED BY <1>9 DEF l, u, t, q, x

LEMMA ShownWithout ==
  ASSUME NEW h, NEW g, NEW s \in Seq(Cells), NEW k \in 1 .. Len(s),
         \A i \in 1 .. Len(s) :
           Plain(h[s[i]]) \in Base /\ (i # k => Plain(g[s[i]]) = Plain(h[s[i]]))
  PROVE  Shown(g, Without(s, k)) = Without(Shown(h, s), k)
<1> DEFINE t == Without(s, k)
           q == Shown(h, s)
           u == Without(q, k)
           l == Shown(g, t)
<1>1. /\ t \in Seq(Cells) /\ Len(s) = Len(t) + 1
      /\ \A i \in 1 .. (k - 1) : t[i] = s[i]
      /\ \A i \in k .. Len(t) : t[i] = s[i + 1]
  BY WithoutFacts
<1>2. q \in Seq(Base) /\ Len(q) = Len(s) /\ \A i \in 1 .. Len(s) : q[i] = Plain(h[s[i]])
  BY ShownFacts
<1>3. Len(s) \in Nat /\ Len(t) \in Nat /\ k \in Nat /\ k >= 1
  BY <1>1
<1> HIDE DEF t, q
<1>4. /\ u \in Seq(Base) /\ Len(q) = Len(u) + 1
      /\ \A i \in 1 .. (k - 1) : u[i] = q[i]
      /\ \A i \in k .. Len(u) : u[i] = q[i + 1]
  BY <1>2, WithoutFacts
<1> HIDE DEF u
<1>10. Len(u) = Len(t) /\ Len(u) \in Nat
  BY <1>1, <1>2, <1>3, <1>4
<1>5. ASSUME NEW i \in 1 .. Len(t) PROVE Plain(g[t[i]]) = u[i] /\ u[i] \in Base
  <2>1. u[i] \in Base
    BY <1>4, <1>10
  <2>2. CASE i < k
    <3>1. i \in 1 .. (k - 1) /\ i \in 1 .. Len(s) /\ i # k
      BY <1>1, <1>3, <2>2
    <3>2. t[i] = s[i] /\ u[i] = q[i]
      BY <1>1, <1>4, <3>1
    <3> QED BY <1>2, <2>1, <3>1, <3>2
  <2>3. CASE i >= k
    <3>1. i \in k .. Len(t) /\ i + 1 \in 1 .. Len(s) /\ i + 1 # k
      BY <1>1, <1>3, <2>3
    <3>2. t[i] = s[i + 1] /\ u[i] = q[i + 1]
      BY <1>1, <1>4, <1>10, <3>1
    <3> QED BY <1>2, <2>1, <3>1, <3>2
  <2> QED BY <1>3, <2>2, <2>3
<1>6. \A i \in 1 .. Len(t) : Plain(g[t[i]]) \in Base
  BY <1>5
<1>7. l \in Seq(Base) /\ Len(l) = Len(t) /\ \A i \in 1 .. Len(t) : l[i] = Plain(g[t[i]])
  BY <1>1, <1>6, ShownFacts
<1> HIDE DEF l
<1>8. Len(l) = Len(u) /\ \A i \in 1 .. Len(l) : l[i] = u[i]
  BY <1>5, <1>7, <1>10
<1>9. l = u
  BY <1>4, <1>7, <1>8, SeqEqual
<1> QED BY <1>9 DEF l, u, t, q

LEMMA InsertValue ==
  ASSUME NEW x, NEW h, Sound(x, h), NEW c \in Cells, h[c] # Free, FreeCells(h) # {},
         NEW e \in Cells, Item(h, e, h[c].type), NEW k,
         h[c].array => Len(h[c].elems) < MaxLen /\ k \in 1 .. Len(h[c].elems) + 1
  PROVE  LET o == Insert(h, c, k, e)
             q == Shown(o.heap, o.heap[o.cell].elems)
         IN  /\ o.cell \in Cells /\ o.heap[o.cell] # Free /\ o.heap[o.cell].refs = 1
             /\ o.heap[o.cell].array /\ o.heap[o.cell].type = h[c].type
             /\ \A b \in Cells : b # o.cell => Kept(h, o.heap, b)
             /\ h[c].array => q = With(Shown(h, h[c].elems), k, Plain(h[e]))
             /\ ~h[c].array => q = <<Plain(h[c]), Plain(h[e])>>
<1>0. Shaped(h) /\ h \in Heaps /\ h[c] \in CellRecords /\ h[c].type \in Types /\ h[e] # Free
  BY CellFacts DEF Sound, Shaped, Heaps, Item
<1>1. CASE h[c].array
  <2> DEFINE s == h[c].elems
             t == With(s, k, e)
             o == Own(h, c)
             d == o.cell
             g == o.heap
             f == [g EXCEPT ![d].elems = t]
  <2>1. /\ o = [heap |-> g, cell |-> d]
        /\ d \in Cells /\ (d # c => h[d] = Free)
        /\ Sound(Plus(Minus(x, c), d), g)
        /\ g[d] # Free /\ g[d].refs = 1 /\ Alike(h[c], g[d])
        /\ \A b \in Cells : b # d => Kept(h, g, b)
    BY OwnSound
  <2>2. /\ s \in Seq(Cells) /\ k \in 1 .. Len(s) + 1
        /\ \A i \in 1 .. Len(s) : s[i] \in Cells /\ s[i] # c /\ h[s[i]] # Free /\ Plain(h[s[i]]) \in Base
    BY <1>0, <1>1, ElementFacts
  <2>3. Insert(h, c, k, e) = [o EXCEPT !.heap[o.cell].elems = t]
    BY <1>1 DEF Insert, With
  <2>4. t \in Seq(Cells)
    BY <2>2, WithFacts
  <2> HIDE DEF s, o, t
  <2>5. Insert(h, c, k, e) = [heap |-> f, cell |-> d]
    BY <2>1, <2>3
  <2> HIDE DEF d, g
  <2>6. g \in Heaps /\ g[d] \in CellRecords
    BY <2>1 DEF Sound, Shaped, Heaps
  <2>7. f[d] = [g[d] EXCEPT !.elems = t] /\ \A b \in Cells : b # d => f[b] = g[b]
    BY <2>1, <2>6 DEF Heaps
  <2> HIDE DEF f
  <2>8. /\ f[d] \in CellRecords /\ f[d].refs = g[d].refs /\ f[d].type = g[d].type
        /\ f[d].array = g[d].array /\ f[d].elems = t
    BY <2>4, <2>6, <2>7, ElementsEdited
  <2>9. f[d].refs = 1 /\ f[d].type = h[c].type /\ f[d].array = h[c].array /\ f[d] # Free
    BY <2>1, <2>8, CellFacts DEF Alike
  <2>10. f[d].array
    BY <1>1, <2>9, Zenon
  <2>11. \A b \in Cells : b # d => Kept(h, f, b)
    BY <2>1, <2>7 DEF Kept
  <2>12. e # d
    <3>1. e # c
      BY <1>1 DEF Item
    <3> QED BY <1>0, <2>1, <3>1
  <2>13. Plain(f[e]) = Plain(h[e]) /\ Plain(h[e]) \in Base
    <3>1. Alike(h[e], f[e])
      BY <1>0, <2>11, <2>12 DEF Kept
    <3> QED BY <1>0, <3>1, PlainBase DEF Alike, Plain, Heaps
  <2>14. ASSUME NEW i \in 1 .. Len(s) PROVE Plain(f[s[i]]) = Plain(h[s[i]])
    <3>1. s[i] \in Cells /\ s[i] # d /\ h[s[i]] # Free
      BY <2>1, <2>2
    <3>2. Alike(h[s[i]], f[s[i]])
      BY <2>11, <3>1 DEF Kept
    <3> QED BY <3>2 DEF Alike, Plain
  <2>15. Shown(f, t) = With(Shown(h, s), k, Plain(h[e]))
    <3>1. Plain(f[e]) \in Base
      BY <2>13
    <3>2. Shown(f, With(s, k, e)) = With(Shown(h, s), k, Plain(f[e]))
      BY <2>2, <2>14, <3>1, ShownWith
    <3> QED BY <2>13, <3>2 DEF t
  <2> DEFINE p == [heap |-> f, cell |-> d]
  <2>16. p.heap = f /\ p.cell = d /\ Insert(h, c, k, e) = p
    BY <2>5
  <2> HIDE DEF p
  <2> QED BY <1>1, <2>1, <2>8, <2>9, <2>10, <2>11, <2>15, <2>16, ZenonT(40) DEF s
<1>2. CASE ~h[c].array
  <2> DEFINE d == NewCell(h)
             s == <<c, e>>
             f == [h EXCEPT ![d] = ArrayCell(h[c].type, s)]
  <2>1. Insert(h, c, k, e) = [heap |-> f, cell |-> d]
    BY <1>2 DEF Insert
  <2>2. d \in Cells /\ h[d] = Free
    BY NewCellFree
  <2> HIDE DEF d
  <2>3. s \in Seq(Cells) /\ DOMAIN s = {1, 2} /\ s[1] = c /\ s[2] = e
    OBVIOUS
  <2> HIDE DEF s
  <2>4. f[d] = ArrayCell(h[c].type, s) /\ \A b \in Cells : b # d => f[b] = h[b]
    BY <1>0, <2>2 DEF Heaps
  <2> HIDE DEF f
  <2>5. /\ f[d] \in CellRecords /\ f[d].refs = 1 /\ f[d].type = h[c].type /\ f[d].array = TRUE
        /\ f[d].elems = s
    <3> DEFINE u == h[c].type
    <3>1. u \in Types
      BY <1>0
    <3> HIDE DEF u
    <3>2. /\ ArrayCell(u, s) \in CellRecords /\ ArrayCell(u, s).refs = 1 /\ ArrayCell(u, s).type = u
          /\ ArrayCell(u, s).array = TRUE /\ ArrayCell(u, s).elems = s
      BY <2>3, <3>1, NewArray
    <3>3. f[d] = ArrayCell(u, s)
      BY <2>4 DEF u
    <3> QED BY <3>2, <3>3 DEF u
  <2>6. f[d] # Free /\ f[d].array
    BY <2>5, CellFacts
  <2>7. \A b \in Cells : b # d => Kept(h, f, b)
    BY <2>4 DEF Kept, Alike
  <2>8. f[c] = h[c] /\ f[e] = h[e]
    BY <1>0, <2>2, <2>4
  <2>9. Shown(f, s) = <<Plain(h[c]), Plain(h[e])>>
    <3>1. Shown(f, s) = [i \in {1, 2} |-> Plain(f[s[i]])]
      BY <2>3 DEF Shown
    <3>2. <<Plain(h[c]), Plain(h[e])>> = [i \in {1, 2} |-> IF i = 1 THEN Plain(h[c]) ELSE Plain(h[e])]
      OBVIOUS
    <3>3. \A i \in {1, 2} : Plain(f[s[i]]) = IF i = 1 THEN Plain(h[c]) ELSE Plain(h[e])
      BY <2>3, <2>8
    <3> QED BY <3>1, <3>2, <3>3
  <2> DEFINE p == [heap |-> f, cell |-> d]
  <2>10. p.heap = f /\ p.cell = d /\ Insert(h, c, k, e) = p
    BY <2>1
  <2> HIDE DEF p
  <2> QED BY <1>2, <2>2, <2>5, <2>6, <2>7, <2>9, <2>10, ZenonT(40)
<1> QED BY <1>1, <1>2

\* An array that has a value more, or that a base value and another have become.
LEMMA ExtendValues ==
  ASSUME Inv, Inv', NEW v \in Vars, dirty' = dirty, ref[v] # Null,
         NEW x, NEW h, Sound(x, h), FreeCells(h) # {},
         \A a \in Cells : heap[a] # Free => h[a] # Free /\ Alike(heap[a], h[a]),
         NEW e \in Cells, Item(h, e, h[ref[v]].type), NEW k,
         h[ref[v]].array => Len(h[ref[v]].elems) < MaxLen /\ k \in 1 .. Len(h[ref[v]].elems) + 1,
         Becomes(v, Insert(h, ref[v], k, e))
  PROVE  Abs!Extend(v, Plain(h[e]))
<1> DEFINE val == [u \in Vars |-> Value(u)]
           c == ref[v]
           o == Insert(h, c, k, e)
           d == o.cell
           t == h[c].type
           y == Plain(h[e])
           q == Shown(heap, heap[c].elems)
           r == Shown(o.heap, o.heap[d].elems)
<1>1. /\ ref \in Pointers /\ c \in Cells /\ heap[c] # Free /\ Shaped(heap)
      /\ heap' = o.heap /\ ref' = [ref EXCEPT ![v] = d]
  BY InvFacts DEF Becomes
<1>2. h[c] # Free /\ Alike(heap[c], h[c])
  BY <1>1
<1>3. /\ d \in Cells /\ o.heap[d] # Free /\ o.heap[d].refs = 1 /\ o.heap[d].array /\ o.heap[d].type = t
      /\ \A b \in Cells : b # d => Kept(h, o.heap, b)
      /\ h[c].array => r = With(Shown(h, h[c].elems), k, y)
      /\ ~h[c].array => r = <<Plain(h[c]), y>>
  BY <1>1, <1>2, InsertValue
<1> HIDE DEF o, d, y, t
<1>4. /\ heap'[d] # Free /\ heap'[d].refs = 1 /\ heap'[d].array /\ heap'[d].type = t
      /\ ref'[v] = d /\ \A w \in Vars \ {v} : ref'[w] = ref[w]
  BY <1>1, <1>3 DEF Pointers
<1>5. Stable(heap, heap', {d})
  BY <1>1, <1>3 DEF Stable, Kept, Alike
<1>6. /\ ref' \in Pointers /\ Sound(Outside(ref'), heap') /\ Shaped(heap')
      /\ Value(v)' = ValueOf(heap', d)
  BY <1>4, InvAfter
<1>7. Private(ref', heap', v, d)
  BY <1>3, <1>4, <1>6, SoleHolder
<1>8. \A w \in Vars \ {v} : Value(w)' = Value(w)
  BY <1>4, <1>5, <1>7, OthersSame
<1>9. Value(v)' = Show(t, r)
  <2>1. ValueOf(heap', d) = Show(heap'[d].type, Shown(heap', heap'[d].elems))
    BY <1>3, <1>4, <1>6, ValueFacts
  <2> QED BY <1>1, <1>4, <1>6, <2>1
<1> HIDE DEF r
<1>10. Abs!Becomes(v, Show(t, r))
  BY <1>8, <1>9, Turning
<1>11. h[c].type = heap[c].type /\ h[c].elems = heap[c].elems /\ h[c].array = heap[c].array
       /\ Plain(h[c]) = Plain(heap[c])
  BY <1>2 DEF Alike, Plain
<1>12. y.type = t
  BY DEF y, t, Plain, Item
<1>13. val[v] = Value(v)
  OBVIOUS
<1>14. CASE heap[c].array
  <2>1. IsArray(v)
    BY <1>14 DEF IsArray
  <2>2. /\ Value(v) = Show(t, q) /\ Value(v) # Empty /\ Value(v) \notin Abs!Base
        /\ Len(q) = Len(heap[c].elems)
    BY <1>11, <2>1, Kinds DEF t
  <2>3. h[c].array
    BY <1>11, <1>14, Zenon
  <2>4. Shown(h, h[c].elems) = q
    <3>1. ASSUME NEW i \in DOMAIN heap[c].elems PROVE Plain(h[heap[c].elems[i]]) = Plain(heap[heap[c].elems[i]])
      <4>1. heap[c].elems[i] \in Cells /\ heap[heap[c].elems[i]] # Free
        BY <1>1, ElementFacts
      <4>2. Alike(heap[heap[c].elems[i]], h[heap[c].elems[i]])
        BY <4>1
      <4> QED BY <4>2 DEF Alike, Plain
    <3> QED BY <1>11, <3>1 DEF Shown
  <2>5. r = With(q, k, y)
    BY <1>3, <2>3, <2>4
  <2>6. k \in 1 .. Len(q) + 1
    BY <1>11, <2>2, <2>3
  <2>7. val[v].items = q /\ val[v].type = t
    BY <1>13, <2>2 DEF Show
  <2> HIDE DEF val, q
  <2>8. Abs!IsArray(val[v])
    BY <1>13, <2>2 DEF Abs!IsArray, Abs!IsBase
  <2>9. Abs!Array(y.type, SubSeq(val[v].items, 1, k - 1) \o <<y>>
                            \o SubSeq(val[v].items, k, Len(val[v].items))) = Show(t, r)
    BY <1>12, <2>5, <2>7 DEF Abs!Array, Show, With
  <2> QED BY <1>10, <1>12, <2>6, <2>7, <2>8, <2>9 DEF Abs!Extend, val, y
<1>15. CASE ~heap[c].array
  <2>1. IsBase(v)
    BY <1>15 DEF IsBase
  <2>2. Value(v) = Plain(heap[c]) /\ Value(v) \in Abs!Base /\ Value(v).type = heap[c].type
    BY <2>1, Kinds
  <2>3. ~h[c].array
    BY <1>11, <1>15, Zenon
  <2>4. r = <<val[v], y>>
    BY <1>3, <1>11, <1>13, <2>2, <2>3
  <2> HIDE DEF val
  <2>5. Abs!Array(y.type, <<val[v], y>>) = Show(t, r)
    BY <1>12, <2>4 DEF Abs!Array, Show
  <2>6. Abs!IsBase(val[v]) /\ y.type = val[v].type
    BY <1>11, <1>12, <1>13, <2>2 DEF Abs!IsBase, t
  <2> QED BY <1>10, <2>5, <2>6 DEF Abs!Extend, val, y
<1> QED BY <1>14, <1>15

LEMMA InsertItemValues ==
  ASSUME Inv, Inv', NEW v \in Vars, NEW b \in Base, NEW k \in 1 .. MaxLen, Memory(2), InsertItem(v, b, k)
  PROVE  Abs!Extend(v, b)
<1> DEFINE c == ref[v]
           e == NewCell(heap)
           h == [heap EXCEPT ![e] = BaseCell(b)]
<1>1. /\ c # Null /\ heap[c].type = b.type /\ dirty' = dirty /\ Becomes(v, Insert(h, c, k, e))
      /\ heap[c].array => Len(heap[c].elems) < MaxLen /\ k <= Len(heap[c].elems) + 1
  BY DEF InsertItem, Room, IsArray
<1>2. Sound(Outside(ref), heap) /\ Shaped(heap) /\ c \in Cells /\ heap[c] # Free
  BY <1>1, InvFacts
<1>3. FreeCells(heap) # {} /\ \A d : FreeCells(heap) \ {d} # {}
  BY MemoryFree
<1>4. e \in Cells /\ heap[e] = Free
  BY <1>3, NewCellFree
<1> HIDE DEF e
<1>5. /\ Sound(Plus(Outside(ref), e), h) /\ FreeCells(h) = FreeCells(heap) \ {e}
      /\ h[e] = BaseCell(b) /\ \A a \in Cells : a # e => h[a] = heap[a]
  <2>1. Sound(Plus(Outside(ref), e), h)
    BY <1>2, <1>4, BaseSound
  <2>3. FreeCells(h) = FreeCells(heap) \ {e}
    BY <1>2, <1>4, BaseSound
  <2>2. h[e] = BaseCell(b) /\ \A a \in Cells : a # e => h[a] = heap[a]
    BY <1>2, <1>4 DEF Shaped, Heaps
  <2> QED BY <2>1, <2>2, <2>3
<1>6. h[e] # Free
  BY <1>5, NewBase, CellFacts
<1> HIDE DEF h
<1>7. c # e /\ h[c] = heap[c] /\ FreeCells(h) # {}
  BY <1>2, <1>3, <1>4, <1>5
<1>8. Item(h, e, h[c].type)
  BY <1>1, <1>5, <1>6, <1>7, NewBase DEF Item
<1>9. h[c].array => Len(h[c].elems) < MaxLen /\ k \in 1 .. Len(h[c].elems) + 1
  <2>1. Len(heap[c].elems) \in Nat
    BY <1>2, HeapFacts DEF Elems
  <2> QED BY <1>1, <1>7, <2>1, DataAssumption
<1>10. \A a \in Cells : heap[a] # Free => h[a] # Free /\ Alike(heap[a], h[a])
  BY <1>4, <1>5 DEF Alike
<1>11. Plain(h[e]) = b
  <2>1. BaseCell(b).type = b.type /\ BaseCell(b).num = b.num
    BY DEF BaseCell
  <2> QED BY <1>5, <2>1 DEF Plain, Base
<1>12. Abs!Extend(v, Plain(h[e]))
  BY <1>1, <1>4, <1>5, <1>7, <1>8, <1>9, <1>10, ExtendValues
<1> QED BY <1>11, <1>12

LEMMA InsertVarValues ==
  ASSUME Inv, Inv', NEW v \in Vars, NEW w \in Vars, NEW k \in 1 .. MaxLen, Memory(1), InsertVar(v, w, k)
  PROVE  \E b \in Base : Abs!Extend(v, b)
<1> DEFINE c == ref[v]
           e == ref[w]
           h == Shared(heap, e)
<1>1. /\ c # Null /\ e # Null /\ ~heap[e].array /\ heap[c].type = heap[e].type
      /\ dirty' = dirty /\ Becomes(v, Insert(h, c, k, e))
      /\ heap[c].array => Len(heap[c].elems) < MaxLen /\ k <= Len(heap[c].elems) + 1
  BY DEF InsertVar, Room, IsArray, IsBase
<1>2. /\ Sound(Outside(ref), heap) /\ Shaped(heap) /\ FreeCells(heap) # {}
      /\ c \in Cells /\ heap[c] # Free /\ e \in Cells /\ heap[e] # Free
  BY <1>1, InvFacts, MemoryFree
<1>3. Sound(Plus(Outside(ref), e), h) /\ \A a \in Cells : Kept(heap, h, a)
  BY <1>2, SharedSound
<1> HIDE DEF h
<1>4. FreeCells(h) # {}
  BY <1>2, <1>3 DEF FreeCells, Kept
<1>5. \A a \in Cells : heap[a] # Free => h[a] # Free /\ Alike(heap[a], h[a])
  BY <1>3 DEF Kept
<1>6. h[c] # Free /\ h[e] # Free /\ Alike(heap[c], h[c]) /\ Alike(heap[e], h[e])
  BY <1>2, <1>5
<1>7. Item(h, e, h[c].type)
  BY <1>1, <1>6 DEF Item, Alike
<1>8. h[c].array => Len(h[c].elems) < MaxLen /\ k \in 1 .. Len(h[c].elems) + 1
  <2>1. Len(heap[c].elems) \in Nat
    BY <1>2, HeapFacts DEF Elems
  <2>2. h[c].array = heap[c].array /\ h[c].elems = heap[c].elems
    BY <1>6 DEF Alike
  <2> QED BY <1>1, <2>1, <2>2, DataAssumption
<1>9. Plain(h[e]) \in Base
  BY <1>2, <1>3, <1>6, ValueFacts DEF Sound
<1>10. Abs!Extend(v, Plain(h[e]))
  BY <1>1, <1>2, <1>3, <1>4, <1>5, <1>7, <1>8, ExtendValues
<1> QED BY <1>9, <1>10

\* A reference to a base value goes.
LEMMA DropBase ==
  ASSUME NEW h \in Heaps, NEW c \in Cells, h[c] # Free, h[c].elems = <<>>
  PROVE  /\ \A b \in Cells : b # c => Drop(h, c)[b] = h[b]
         /\ Drop(h, c)[c] # Free => Alike(h[c], Drop(h, c)[c])
<1>1. h[c] \in CellRecords /\ h[c].refs \in Nat
  BY CellFacts DEF Heaps
<1>2. CASE h[c].refs > 1
  <2>1. Drop(h, c) = [h EXCEPT ![c] = [h[c] EXCEPT !.refs = h[c].refs - 1]]
    BY <1>2 DEF Drop
  <2>2. h[c].refs - 1 \in Nat \ {0}
    BY <1>1, <1>2
  <2>3. Alike(h[c], [h[c] EXCEPT !.refs = h[c].refs - 1])
    BY <1>1, <2>2, CountEdited
  <2> QED BY <2>1, <2>3 DEF Heaps
<1>3. CASE ~(h[c].refs > 1)
  <2>1. Drop(h, c) = [b \in Cells |-> IF b # c /\ \E i \in DOMAIN h[c].elems : h[c].elems[i] = b
                                        THEN Less(h[b], Times(h[c].elems, b))
                                        ELSE IF b = c THEN Free ELSE h[b]]
    BY <1>3, Zenon DEF Drop
  <2>2. \A b : ~\E i \in DOMAIN h[c].elems : h[c].elems[i] = b
    OBVIOUS
  <2>3. Drop(h, c) = [b \in Cells |-> IF b = c THEN Free ELSE h[b]]
    BY <2>1, <2>2
  <2> QED BY <2>3
<1> QED BY <1>2, <1>3

LEMMA EraseValues ==
  ASSUME Inv, Inv', NEW v \in Vars, NEW i, Memory(1), Erase(v, i)
  PROVE  Abs!Erase(v, i)
<1> DEFINE c == ref[v]
           s == heap[c].elems
           e == s[i]
           t == Without(s, i)
           own == Own(heap, c)
           d == own.cell
           g == own.heap
           f == [g EXCEPT ![d].elems = t]
           q == Shown(heap, s)
           u == heap[c].type
           val == [w \in Vars |-> Value(w)]
<1>1. /\ IsArray(v) /\ c # Null /\ heap[c].array /\ i \in DOMAIN s /\ dirty' = dirty
      /\ heap' = Drop(f, e) /\ ref' = [ref EXCEPT ![v] = d]
  BY DEF Erase, IsArray, Without, Becomes
<1>2. /\ ref \in Pointers /\ Sound(Outside(ref), heap) /\ Shaped(heap) /\ FreeCells(heap) # {}
      /\ c \in Cells /\ heap[c] # Free
  BY <1>1, InvFacts, MemoryFree
<1>3. /\ s \in Seq(Cells) /\ i \in 1 .. Len(s) /\ Len(s) \in Nat
      /\ \A j \in 1 .. Len(s) : s[j] \in Cells /\ s[j] # c /\ heap[s[j]] # Free /\ Plain(heap[s[j]]) \in Base
      /\ Item(heap, e, u)
  BY <1>1, <1>2, ElementFacts
<1>4. /\ d \in Cells /\ (d # c => heap[d] = Free) /\ g \in Heaps
      /\ g[d] # Free /\ g[d].refs = 1 /\ Alike(heap[c], g[d])
      /\ \A b \in Cells : b # d => Kept(heap, g, b)
  BY <1>2, OwnSound DEF Sound, Shaped
<1>5. e \in Cells /\ e # c /\ heap[e] # Free /\ heap[e].elems = <<>>
  <2>1. e \in Cells /\ e # c /\ heap[e] # Free /\ ~heap[e].array
    BY <1>3 DEF Item
  <2>2. Good(heap, e)
    BY <1>2, <2>1, HeapFacts
  <2> QED BY <2>1, <2>2 DEF Good
<1>6. val[v] = Value(v) /\ Value(v) = Show(u, q) /\ Value(v) # Empty /\ Value(v) \notin Abs!Base
  BY <1>1, Kinds
<1>7. DOMAIN q = DOMAIN s
  BY DEF Shown
<1> HIDE DEF own, d, g, s
<1>8. /\ t \in Seq(Cells) /\ Len(s) = Len(t) + 1
      /\ \A j \in 1 .. (i - 1) : t[j] = s[j]
      /\ \A j \in i .. Len(t) : t[j] = s[j + 1]
  BY <1>3, WithoutFacts
<1> HIDE DEF t
<1>9. g[d] \in CellRecords
  BY <1>4 DEF Heaps
<1>10. f \in Heaps /\ f[d] = [g[d] EXCEPT !.elems = t] /\ \A b \in Cells : b # d => f[b] = g[b]
  <2>1. [g[d] EXCEPT !.elems = t] \in CellRecords
    BY <1>8, <1>9, ElementsEdited
  <2>2. f = [g EXCEPT ![d] = [g[d] EXCEPT !.elems = t]]
    OBVIOUS
  <2> HIDE DEF f
  <2> QED BY <1>4, <2>1, <2>2 DEF Heaps
<1> HIDE DEF f
<1>11. /\ f[d].refs = 1 /\ f[d].type = u /\ f[d].array = heap[c].array /\ f[d].elems = t
       /\ f[d] # Free
  <2>1. /\ f[d] \in CellRecords /\ f[d].refs = g[d].refs /\ f[d].type = g[d].type
        /\ f[d].array = g[d].array /\ f[d].elems = t
    BY <1>8, <1>9, <1>10, ElementsEdited
  <2> QED BY <1>4, <2>1, CellFacts DEF Alike
<1>12. e # d
  BY <1>4, <1>5
<1>13. f[e] # Free /\ f[e].elems = <<>> /\ Alike(heap[e], f[e])
  <2>1. f[e] = g[e] /\ Kept(heap, g, e)
    BY <1>4, <1>5, <1>10, <1>12
  <2> QED BY <1>5, <2>1 DEF Kept, Alike
<1>14. /\ \A b \in Cells : b # e => heap'[b] = f[b]
       /\ heap'[e] # Free => Alike(f[e], heap'[e])
  BY <1>1, <1>5, <1>10, <1>13, DropBase
<1> HIDE DEF e
<1>15. /\ heap'[d].refs = 1 /\ heap'[d].type = u /\ heap'[d].elems = t /\ heap'[d] # Free
       /\ ref'[v] = d /\ \A w \in Vars \ {v} : ref'[w] = ref[w]
  BY <1>1, <1>2, <1>4, <1>11, <1>12, <1>14 DEF Pointers
<1>16. heap'[d].array
  <2>1. heap'[d].array = heap[c].array
    BY <1>4, <1>11, <1>12, <1>14
  <2> QED BY <1>1, <2>1, Zenon
<1>17. Stable(heap, heap', {d})
  <2> SUFFICES ASSUME NEW b \in Cells \ {d}, heap[b] # Free, heap'[b] # Free
               PROVE  Alike(heap[b], heap'[b])
    BY DEF Stable
  <2>1. CASE b = e
    BY <1>13, <1>14, <2>1 DEF Alike
  <2>2. CASE b # e
    <3>1. heap'[b] = g[b] /\ Kept(heap, g, b)
      BY <1>4, <1>10, <1>14, <2>2
    <3> QED BY <3>1 DEF Kept
  <2> QED BY <2>1, <2>2
<1>18. /\ ref' \in Pointers /\ Sound(Outside(ref'), heap') /\ Shaped(heap')
       /\ Value(v)' = ValueOf(heap', d)
  BY <1>15, InvAfter
<1>19. Private(ref', heap', v, d)
  BY <1>4, <1>15, <1>18, SoleHolder
<1>20. \A w \in Vars \ {v} : Value(w)' = Value(w)
  BY <1>15, <1>17, <1>19, OthersSame
<1>21. Value(v)' = Show(u, Shown(heap', t))
  <2>1. ValueOf(heap', d) = Show(heap'[d].type, Shown(heap', heap'[d].elems))
    BY <1>4, <1>15, <1>16, <1>18, ValueFacts
  <2> QED BY <1>15, <1>18, <2>1
\* Even when the erased element is in the array twice, the other one stays.
<1>22. ASSUME NEW j \in 1 .. Len(s), j # i PROVE Plain(heap'[s[j]]) = Plain(heap[s[j]])
  <2>1. \E l \in 1 .. Len(t) : t[l] = s[j]
    <3>1. CASE j < i
      <4>1. j \in 1 .. (i - 1) /\ j \in 1 .. Len(t)
        BY <1>3, <1>8, <3>1
      <4> QED BY <1>8, <4>1
    <3>2. CASE j > i
      <4>1. j - 1 \in i .. Len(t) /\ j - 1 \in 1 .. Len(t) /\ (j - 1) + 1 = j
        BY <1>3, <1>8, <3>2
      <4> QED BY <1>8, <4>1
    <3> QED BY <1>3, <1>22, <3>1, <3>2
  <2>2. heap'[s[j]] # Free
    BY <1>4, <1>15, <1>18, <2>1, ElementFacts
  <2>3. s[j] \in Cells /\ s[j] # d /\ heap[s[j]] # Free
    BY <1>3, <1>4
  <2>4. Alike(heap[s[j]], heap'[s[j]])
    BY <1>17, <2>2, <2>3 DEF Stable
  <2> QED BY <2>4 DEF Alike, Plain
<1>23. Shown(heap', t) = Without(q, i)
  BY <1>3, <1>22, ShownWithout DEF t
<1> HIDE DEF q, val
<1>24. Abs!Becomes(v, Show(u, Without(q, i)))
  BY <1>1, <1>20, <1>21, <1>23, Turning
<1>25. val[v].items = q /\ val[v] = [type |-> u, items |-> q]
  BY <1>6 DEF Show
<1>26. [val[v] EXCEPT !.items = SubSeq(@, 1, i - 1) \o SubSeq(@, i + 1, Len(@))] = Show(u, Without(q, i))
  <2> DEFINE w == Without(q, i)
  <2>1. [val[v] EXCEPT !.items = SubSeq(@, 1, i - 1) \o SubSeq(@, i + 1, Len(@))] = [val[v] EXCEPT !.items = w]
    BY <1>25 DEF Without
  <2> HIDE DEF w
  <2>2. [val[v] EXCEPT !.items = w] = [type |-> u, items |-> w]
    BY <1>25
  <2> QED BY <2>1, <2>2 DEF Show, w
<1>27. Abs!IsArray(val[v]) /\ i \in DOMAIN val[v].items
  BY <1>1, <1>6, <1>7, <1>25 DEF Abs!IsArray, Abs!IsBase, s
<1> QED BY <1>24, <1>26, <1>27 DEF Abs!Erase, val

\* An element changes in place only when its array has one holder: the array is v's
\* own, and so is the element once it has been made so.
LEMMA SetAtValues ==
  ASSUME Inv, Inv', ~IndexShared, NEW v \in Vars, NEW i, NEW b \in Base, Memory(1), SetAt(v, i, b)
  PROVE  Abs!SetAt(v, i, b)
<1> DEFINE a == ref[v]
           s == heap[a].elems
           e == s[i]
           o == NumberOf(heap, e, b.num)
           d == o.cell
           g == o.heap
           t == [s EXCEPT ![i] = d]
           f == [g EXCEPT ![a].elems = t]
           q == Shown(heap, s)
           u == heap[a].type
           val == [w \in Vars |-> Value(w)]
<1>1. /\ IsArray(v) /\ a # Null /\ heap[a].array /\ u = b.type /\ i \in DOMAIN s
      /\ Element(v, i) = e /\ ref' = ref /\ dirty' = dirty /\ heap[a].refs = 1
  BY Zenon DEF SetAt, IsArray, Element
<1>2. /\ ref \in Pointers /\ Sound(Outside(ref), heap) /\ Shaped(heap) /\ FreeCells(heap) # {}
      /\ a \in Cells /\ heap[a] # Free /\ b.num \in 0 .. Width - 1
  BY <1>1, InvFacts, MemoryFree DEF Base
<1>3. /\ s \in Seq(Cells) /\ i \in 1 .. Len(s) /\ DOMAIN s = 1 .. Len(s)
      /\ \A j \in 1 .. Len(s) : s[j] \in Cells /\ s[j] # a /\ heap[s[j]] # Free /\ Plain(heap[s[j]]) \in Base
      /\ Item(heap, e, u)
  BY <1>1, <1>2, ElementFacts
<1>4. e \in Cells /\ e # a /\ heap[e] # Free /\ ~heap[e].array /\ heap[e].type = b.type
  BY <1>1, <1>3 DEF Item
<1>5. Write(heap, e, b) = o
  <2>1. e # Null
    BY <1>4, VarsAssumption
  <2> HIDE DEF e
  <2> QED BY <1>4, <2>1 DEF Write, NumberOf
<1>6. val[v] = Value(v) /\ Value(v) = Show(u, q) /\ Value(v) # Empty /\ Value(v) \notin Abs!Base
  BY <1>1, Kinds
<1>7. DOMAIN q = DOMAIN s /\ q \in Seq(Base) /\ \A j \in 1 .. Len(s) : q[j] = Plain(heap[s[j]])
  <2> HIDE DEF s
  <2> QED BY <1>3, ShownFacts DEF Shown
<1> HIDE DEF s, e
<1>8. /\ d \in Cells /\ (d # e => heap[d] = Free) /\ g \in Heaps
      /\ g[d] # Free /\ g[d].refs = 1 /\ g[d].num = b.num /\ g[d].type = heap[e].type
      /\ g[d].elems = heap[e].elems
      /\ \A c \in Cells : c # d => Kept(heap, g, c)
  BY <1>2, <1>4, NumberOfSound DEF Sound, Shaped
<1> HIDE DEF o
<1>9. a # d /\ g[a] # Free /\ Alike(heap[a], g[a])
  BY <1>2, <1>4, <1>8 DEF Kept
<1>10. heap' = f
  <2>1. heap' = [Write(heap, e, b).heap EXCEPT ![a].elems[i] = Write(heap, e, b).cell]
    BY <1>1, Zenon DEF SetAt
  <2>2. heap' = [g EXCEPT ![a].elems[i] = d]
    BY <1>5, <2>1, Zenon
  <2> HIDE DEF g, d
  <2>3. g[a].elems = s
    BY <1>9 DEF Alike, s
  <2> QED BY <2>2, <2>3
<1> HIDE DEF d, g
<1>11. t \in Seq(Cells) /\ DOMAIN t = DOMAIN s /\ t[i] = d /\ \A j \in DOMAIN s : j # i => t[j] = s[j]
  BY <1>3, <1>8
<1> HIDE DEF t
<1>12. g[a] \in CellRecords
  BY <1>2, <1>8, <1>9 DEF Heaps
<1>13. heap'[a] = [g[a] EXCEPT !.elems = t] /\ \A c \in Cells : c # a => heap'[c] = g[c]
  <2>1. f = [g EXCEPT ![a] = [g[a] EXCEPT !.elems = t]]
    OBVIOUS
  <2> HIDE DEF f
  <2> QED BY <1>2, <1>8, <1>10, <2>1 DEF Heaps
<1> HIDE DEF f
<1>14. heap'[a] # Free /\ heap'[a].type = u /\ heap'[a].elems = t /\ heap'[a].array = heap[a].array
  <2>1. /\ heap'[a] \in CellRecords /\ heap'[a].type = g[a].type /\ heap'[a].array = g[a].array
        /\ heap'[a].elems = t
    BY <1>11, <1>12, <1>13, ElementsEdited
  <2> QED BY <1>9, <2>1, CellFacts DEF Alike
<1>15. heap'[a].array
  BY <1>1, <1>14, Zenon
<1>16. ref' \in Pointers /\ Sound(Outside(ref'), heap') /\ Shaped(heap') /\ Value(v)' = ValueOf(heap', a)
  BY <1>1, <1>2, InvAfter
\* Neither the array nor its new element is seen by others.
<1>17. ASSUME NEW c \in Cells, c # a, heap[c] # Free PROVE Elems(heap', c) = Elems(heap, c)
  <2>1. heap'[c] = g[c]
    BY <1>13, <1>17
  <2>2. CASE c = d
    <3>1. c = e /\ g[c] # Free /\ g[c].elems = heap[c].elems
      BY <1>8, <1>17, <2>2
    <3> QED BY <1>17, <2>1, <3>1 DEF Elems
  <2>3. CASE c # d
    BY <1>8, <1>17, <2>1, <2>3 DEF Elems, Kept, Alike
  <2> QED BY <2>2, <2>3
<1>18. Private(ref', heap', v, a)
  <2>1. Private(ref, heap, v, a)
    BY <1>1, <1>2, SoleHolder
  <2> SUFFICES ASSUME NEW w \in Vars \ {v}
               PROVE  /\ ref[w] # a
                      /\ ref[w] # Null => \A j \in DOMAIN Elems(heap', ref[w]) : Elems(heap', ref[w])[j] # a
    BY <1>1 DEF Private
  <2>2. ref[w] # Null => ref[w] \in Cells /\ heap[ref[w]] # Free
    BY InvFacts
  <2> QED BY <1>17, <2>1, <2>2 DEF Private
<1>19. Private(ref', heap', v, d) /\ \A j \in DOMAIN t : t[j] = d => j = i
  <2>1. /\ heap'[d] # Free /\ heap'[d].refs = 1 /\ i \in DOMAIN heap'[a].elems /\ heap'[a].elems[i] = d
        /\ DOMAIN heap'[a].elems = DOMAIN t
    BY <1>1, <1>8, <1>9, <1>11, <1>13, <1>14
  <2>2. Private(ref', heap', v, d) /\ \A j \in DOMAIN heap'[a].elems : heap'[a].elems[j] = d => j = i
    BY <1>2, <1>8, <1>14, <1>16, <1>18, <2>1, SoleElement
  <2> QED BY <1>14, <2>2
<1>20. Stable(heap, heap', {a, d})
  BY <1>8, <1>13 DEF Stable, Kept
<1>21. \A w \in Vars \ {v} : Value(w)' = Value(w)
  BY <1>1, <1>18, <1>19, <1>20, OthersSame
<1>22. Value(v)' = Show(u, Shown(heap', t))
  <2>1. ValueOf(heap', a) = Show(heap'[a].type, Shown(heap', heap'[a].elems))
    BY <1>2, <1>14, <1>15, <1>16, ValueFacts
  <2> QED BY <1>14, <1>16, <2>1
<1>23. Shown(heap', t) = [q EXCEPT ![i] = b]
  <2>1. Shown(heap', t) = [j \in DOMAIN s |-> Plain(heap'[t[j]])]
    BY <1>11 DEF Shown
  <2>2. Plain(heap'[t[i]]) = b
    <3>1. heap'[d] = g[d] /\ t[i] = d /\ g[d].num = b.num /\ g[d].type = b.type
      BY <1>4, <1>8, <1>9, <1>11, <1>13
    <3> QED BY <3>1 DEF Plain, Base
  <2>3. ASSUME NEW j \in DOMAIN s, j # i PROVE Plain(heap'[t[j]]) = q[j]
    <3>1. t[j] = s[j] /\ s[j] \in Cells /\ s[j] # a /\ heap[s[j]] # Free /\ q[j] = Plain(heap[s[j]])
      BY <1>3, <1>7, <1>11, <2>3
    <3>2. s[j] # d
      BY <1>11, <1>19, <2>3, <3>1
    <3>3. Alike(heap[s[j]], heap'[s[j]])
      BY <1>8, <1>13, <3>1, <3>2 DEF Kept
    <3> QED BY <3>1, <3>3 DEF Alike, Plain
  <2>4. q = [j \in DOMAIN s |-> q[j]]
    BY <1>7
  <2>5. [q EXCEPT ![i] = b] = [j \in DOMAIN s |-> IF j = i THEN b ELSE q[j]]
    BY <2>4
  <2> QED BY <2>1, <2>2, <2>3, <2>5
<1> HIDE DEF q, val
<1>24. Abs!Becomes(v, Show(u, [q EXCEPT ![i] = b]))
  BY <1>1, <1>21, <1>22, <1>23, Turning
<1>25. val[v].items = q /\ val[v] = [type |-> u, items |-> q]
  BY <1>6 DEF Show
<1>26. [val[v] EXCEPT !.items[i] = b] = Show(u, [q EXCEPT ![i] = b])
  BY <1>25 DEF Show
<1>27. Abs!IsArray(val[v]) /\ i \in DOMAIN val[v].items
  BY <1>1, <1>6, <1>7, <1>25 DEF Abs!IsArray, Abs!IsBase
<1> QED BY <1>24, <1>26, <1>27 DEF Abs!SetAt, val

\* What is in the new cells.
LEMMA NumbersFacts ==
  ASSUME NEW g, NEW t \in Types, NEW s \in Items,
         NEW f \in [1 .. Len(s) + 1 -> FreeCells(g)],
         \A i, j \in 1 .. Len(s) + 1 : f[i] = f[j] => i = j
  PROVE  LET l == Numbers(g, f, t, s)
             d == f[Len(s) + 1]
             elems == [i \in DOMAIN s |-> f[i]]
         IN  /\ d \in Cells /\ g[d] = Free
             /\ l[d].array /\ l[d].refs = 1 /\ l[d].type = t /\ l[d].elems = elems
             /\ \A i \in DOMAIN s :
                  /\ f[i] \in Cells /\ g[f[i]] = Free /\ f[i] # d
                  /\ l[f[i]].refs = 1 /\ Plain(l[f[i]]) = [type |-> t, num |-> s[i]]
             /\ \A c \in Cells : c # d /\ (\A i \in DOMAIN s : f[i] # c) => l[c] = g[c]
<1> DEFINE n == Len(s)
           l == Numbers(g, f, t, s)
           d == f[n + 1]
           elems == [i \in DOMAIN s |-> f[i]]
<1>1. n \in Nat /\ n <= MaxLen /\ DOMAIN s = 1 .. n
  BY ItemsFacts
<1>2. f \in [1 .. n + 1 -> FreeCells(g)] /\ \A i, j \in 1 .. n + 1 : f[i] = f[j] => i = j
  OBVIOUS
<1> HIDE DEF n
<1>3. /\ d \in Cells /\ g[d] = Free
      /\ \A i \in DOMAIN s : f[i] \in Cells /\ g[f[i]] = Free /\ f[i] # d
      /\ \A i, j \in DOMAIN s : f[i] = f[j] => i = j
  <2>1. \A i \in 1 .. n : i \in 1 .. n + 1 /\ i # n + 1
    BY <1>1
  <2>2. n + 1 \in 1 .. n + 1
    BY <1>1
  <2> QED BY <1>1, <1>2, <2>1, <2>2 DEF FreeCells
<1>4. l = [c \in Cells |-> IF c = d THEN ArrayCell(t, elems)
                           ELSE IF \E i \in DOMAIN s : f[i] = c
                                  THEN BaseCell([type |-> t, num |-> s[CHOOSE i \in DOMAIN s : f[i] = c]])
                                  ELSE g[c]]
  BY DEF Numbers, n
<1> HIDE DEF l, d, elems
<1>5. l[d] = ArrayCell(t, elems) /\ \A c \in Cells : c # d /\ (\A i \in DOMAIN s : f[i] # c) => l[c] = g[c]
  BY <1>3, <1>4
<1>6. ASSUME NEW i \in DOMAIN s
      PROVE  l[f[i]].refs = 1 /\ Plain(l[f[i]]) = [type |-> t, num |-> s[i]]
  <2> DEFINE j == CHOOSE m \in DOMAIN s : f[m] = f[i]
  <2>1. j \in DOMAIN s /\ f[j] = f[i]
    OBVIOUS
  <2>2. j = i
    BY <1>3, <2>1
  <2>3. l[f[i]] = BaseCell([type |-> t, num |-> s[j]])
    BY <1>3, <1>4
  <2> HIDE DEF j
  <2> QED BY <2>2, <2>3 DEF BaseCell, Plain
<1>7. l[d].array /\ l[d].refs = 1 /\ l[d].type = t /\ l[d].elems = elems
  BY <1>5 DEF ArrayCell
<1> QED BY <1>3, <1>5, <1>6, <1>7 DEF l, d, elems, n

LEMMA SetArrayValues ==
  ASSUME Inv, Inv', NEW v \in Vars, NEW t \in Types, NEW s \in Items, Memory(Len(s) + 1), SetArray(v, t, s)
  PROVE  Abs!SetArray(v, t, s)
<1> DEFINE n == Len(s)
           g == Release(heap, ref[v])
           f == NewCells(g, n + 1)
           d == f[n + 1]
           elems == [i \in DOMAIN s |-> f[i]]
           K == {d} \cup {f[i] : i \in DOMAIN s}
           items == [i \in DOMAIN s |-> [type |-> t, num |-> s[i]]]
<1>1. heap' = Numbers(g, f, t, s) /\ ref' = [ref EXCEPT ![v] = d] /\ dirty' = dirty
  BY DEF SetArray, Numbers, Becomes
<1>2. n \in Nat /\ DOMAIN s = 1 .. n
  BY ItemsFacts
<1>3. /\ ref \in Pointers /\ FreeCells(heap) \subseteq FreeCells(g) /\ Stable(heap, g, {})
      /\ \A c \in Cells : g[c] # Free => heap[c] # Free
  BY Released, InvFacts, StableReleased
<1>4. IsFiniteSet(FreeCells(g)) /\ Cardinality(FreeCells(g)) >= n + 1
  <2>1. IsFiniteSet(FreeCells(g))
    BY HeapAssumption, FS_Subset DEF FreeCells
  <2>2. n + 1 \in Nat
    BY <1>2
  <2>3. Cardinality(FreeCells(heap)) >= n + 1 /\ Cardinality(FreeCells(heap)) \in Nat
    BY <2>2, MemoryFree
  <2>4. Cardinality(FreeCells(heap)) <= Cardinality(FreeCells(g)) /\ Cardinality(FreeCells(g)) \in Nat
    BY <1>3, <2>1, FS_Subset, FS_CardinalityType
  <2> HIDE DEF n, g
  <2> QED BY <2>1, <2>2, <2>3, <2>4
<1>5. f \in [1 .. n + 1 -> FreeCells(g)] /\ \A i, j \in 1 .. n + 1 : f[i] = f[j] => i = j
  <2>1. n + 1 \in Nat
    BY <1>2
  <2> HIDE DEF n, g
  <2> QED BY <1>4, <2>1, NewCellsFree
<1> HIDE DEF f, g
<1>6. /\ d \in Cells /\ g[d] = Free
      /\ heap'[d].array /\ heap'[d].refs = 1 /\ heap'[d].type = t /\ heap'[d].elems = elems
      /\ \A i \in DOMAIN s :
           /\ f[i] \in Cells /\ g[f[i]] = Free /\ f[i] # d
           /\ heap'[f[i]].refs = 1 /\ Plain(heap'[f[i]]) = [type |-> t, num |-> s[i]]
      /\ \A c \in Cells : c # d /\ (\A i \in DOMAIN s : f[i] # c) => heap'[c] = g[c]
  BY <1>1, <1>5, NumbersFacts
<1> HIDE DEF d
<1>7. ref'[v] = d /\ \A w \in Vars \ {v} : ref'[w] = ref[w]
  BY <1>1, <1>3 DEF Pointers
<1>8. /\ ref' \in Pointers /\ Sound(Outside(ref'), heap') /\ Shaped(heap')
      /\ Value(v)' = ValueOf(heap', d) /\ heap'[d] # Free
  <2>1. d # Null
    BY <1>6, VarsAssumption
  <2> QED BY <1>7, <2>1, InvAfter
<1>9. elems \in Seq(Cells) /\ DOMAIN elems = DOMAIN s /\ \A i \in DOMAIN s : elems[i] = f[i]
  <2>1. elems \in [1 .. n -> Cells]
    BY <1>2, <1>6
  <2> HIDE DEF n
  <2> QED BY <1>2, <2>1
<1> HIDE DEF elems
<1>10. ASSUME NEW i \in DOMAIN s PROVE heap'[f[i]] # Free
  <2>1. i \in 1 .. Len(heap'[d].elems) /\ heap'[d].elems[i] = f[i]
    BY <1>6, <1>9
  <2>2. heap'[heap'[d].elems[i]] # Free
    BY <1>6, <1>8, <2>1, ElementFacts
  <2> QED BY <2>1, <2>2
<1>11. Private(ref', heap', v, d)
  BY <1>6, <1>7, <1>8, SoleHolder
<1>12. ASSUME NEW i \in DOMAIN s PROVE Private(ref', heap', v, f[i])
  BY <1>6, <1>8, <1>9, <1>10, <1>11, SoleElement
<1>13. Stable(heap, heap', K)
  <2>1. \A c \in Cells \ K : heap'[c] = g[c]
    BY <1>6
  <2> HIDE DEF K
  <2> QED BY <1>3, <2>1 DEF Stable
<1>14. \A c \in K : Private(ref', heap', v, c)
  BY <1>11, <1>12
<1> HIDE DEF K
<1>15. \A w \in Vars \ {v} : Value(w)' = Value(w)
  BY <1>7, <1>13, <1>14, OthersSame
<1>16. Value(v)' = Show(t, Shown(heap', elems))
  <2>1. ValueOf(heap', d) = Show(heap'[d].type, Shown(heap', heap'[d].elems))
    BY <1>6, <1>8, ValueFacts
  <2> QED BY <1>6, <1>8, <2>1
<1>17. Shown(heap', elems) = items
  <2>1. Shown(heap', elems) = [i \in DOMAIN s |-> Plain(heap'[elems[i]])]
    BY <1>9 DEF Shown
  <2>2. \A i \in DOMAIN s : Plain(heap'[elems[i]]) = [type |-> t, num |-> s[i]]
    BY <1>6, <1>9
  <2> QED BY <2>1, <2>2
<1>18. Abs!Becomes(v, Show(t, items))
  BY <1>1, <1>15, <1>16, <1>17, Turning
<1> QED BY <1>18 DEF Abs!SetArray, Abs!Array, Show
-----------------------------------------------------------------------------
(* The refinement.                                                         *)

LEMMA InitValues == Init => Abs!Init
<1> SUFFICES ASSUME Init PROVE Abs!Init
  OBVIOUS
<1>1. \A v \in Vars : Value(v) = Empty
  BY DEF Init, Value, ValueOf
<1> QED BY <1>1 DEF Init, Abs!Init

LEMMA StutterValues == UNCHANGED vars => UNCHANGED Abs!vars
<1> SUFFICES ASSUME UNCHANGED vars PROVE UNCHANGED Abs!vars
  OBVIOUS
<1>1. ref' = ref /\ heap' = heap /\ dirty' = dirty
  BY DEF vars
<1>2. \A v \in Vars : Value(v)' = Value(v)
  BY <1>1 DEF Value, ValueOf, Plain
<1>3. [v \in Vars |-> Value(v)]' = [v \in Vars |-> Value(v)']
  OBVIOUS
<1> QED BY <1>1, <1>2, <1>3 DEF Abs!vars

LEMMA StepValues == Inv /\ Inv' /\ ~IndexShared /\ [Next]_vars => [Abs!Next]_Abs!vars
<1> SUFFICES ASSUME Inv, Inv', ~IndexShared, [Next]_vars PROVE Abs!Next \/ UNCHANGED Abs!vars
  OBVIOUS
<1>0. Abs!Base = Base /\ Abs!Items = Items
  BY DEF Abs!Base, Base, Abs!Items, Items
<1>1. ASSUME NEW v \in Vars \ {ComVar}, Clear(v) PROVE Abs!Next
  BY <1>1, ClearValues DEF Abs!Next
<1>2. ASSUME NEW v \in Vars \ {ComVar}, NEW w \in Vars, Assign(v, w) PROVE Abs!Next
  BY <1>2, AssignValues DEF Abs!Next
<1>3. ASSUME NEW v \in Vars \ {ComVar}, NEW w \in Vars, NEW i \in 1 .. MaxLen, Take(v, w, i) PROVE Abs!Next
  BY <1>3, TakeValues DEF Abs!Next
<1>4. ASSUME NEW v \in Vars \ {ComVar}, NEW t \in Types, NEW s \in Items, Memory(Len(s) + 1), SetArray(v, t, s)
      PROVE  Abs!Next
  <2>1. Abs!SetArray(v, t, s)
    BY <1>4, SetArrayValues
  <2> QED BY <1>0, <2>1 DEF Abs!Next
<1>5. ASSUME NEW v \in Vars \ {ComVar}, NEW b \in Base, NEW k \in 1 .. MaxLen, Memory(2), InsertItem(v, b, k)
      PROVE  Abs!Next
  <2>1. Abs!Extend(v, b)
    BY <1>5, InsertItemValues
  <2> QED BY <1>0, <2>1 DEF Abs!Next
<1>6. ASSUME NEW v \in Vars \ {ComVar}, NEW w \in Vars, NEW k \in 1 .. MaxLen, Memory(1), InsertVar(v, w, k)
      PROVE  Abs!Next
  <2>1. \E b \in Base : Abs!Extend(v, b)
    BY <1>6, InsertVarValues
  <2> QED BY <1>0, <2>1 DEF Abs!Next
<1>7. ASSUME NEW v \in Vars \ {ComVar}, NEW w \in Vars, Memory(1), Add(v, w)
      PROVE  Abs!Next \/ UNCHANGED Abs!vars
  <2>1. Abs!Add(v, w) \/ UNCHANGED Abs!vars
    BY <1>7, AddValues
  <2> QED BY <2>1 DEF Abs!Next
<1>8. ASSUME NEW v \in Vars \ {ComVar}, NEW b \in Base, Memory(1), Set(v, b) PROVE Abs!Next
  <2>1. Abs!Set(v, b)
    BY <1>8, SetValues
  <2> QED BY <1>0, <2>1 DEF Abs!Next
<1>9. ASSUME NEW v \in Vars \ {ComVar}, NEW i \in 1 .. MaxLen, Memory(1), Erase(v, i) PROVE Abs!Next
  <2>1. Abs!Erase(v, i)
    BY <1>9, EraseValues
  <2> QED BY <2>1 DEF Abs!Next
<1>10. ASSUME NEW v \in Vars \ {ComVar}, NEW i \in 1 .. MaxLen, NEW b \in Base, Memory(1), SetAt(v, i, b)
       PROVE  Abs!Next
  <2>1. Abs!SetAt(v, i, b)
    BY <1>10, SetAtValues
  <2> QED BY <1>0, <2>1 DEF Abs!Next
<1>11. ASSUME NEW w \in Vars \ {ComVar}, SetValue(w) PROVE Abs!Next
  BY <1>11, SetValueValues DEF Abs!Next
<1>12. CASE Next
  <2> USE <1>12 DEF Next
  <2> QED
    BY <1>1, <1>2, <1>3, <1>4, <1>5, <1>6, <1>7, <1>8, <1>9, <1>10, <1>11
<1>13. CASE UNCHANGED vars
  BY <1>13, StutterValues
<1> QED BY <1>12, <1>13

\* Shared data cannot be told from data of one's own (CVariant.cpp:79-155): as long
\* as no element of a shared array is assigned, the variants are plain values.
THEOREM VariantsAreValues == ~IndexShared /\ Spec => ImplementsValues
<1>1. Spec => []Inv
  BY InvHolds
<1>2. ~IndexShared /\ [Next]_vars => ~IndexShared'
  OBVIOUS
<1> QED BY <1>1, <1>2, InitValues, StepValues, PTL DEF Spec, ImplementsValues, Abs!Spec

LEMMA OneChanges ==
  ASSUME [Abs!Next]_Abs!vars, NEW v \in Vars, NEW w \in Vars, Value(v)' # Value(v), Value(w)' # Value(w)
  PROVE  v = w
<1> DEFINE val == [u \in Vars |-> Value(u)]
<1>1. val[v] = Value(v) /\ val[w] = Value(w) /\ DOMAIN val = Vars
  OBVIOUS
<1>2. val'[v] = Value(v)' /\ val'[w] = Value(w)'
  <2>1. val' = [u \in Vars |-> Value(u)']
    OBVIOUS
  <2> QED BY <2>1
<1> HIDE DEF val
<1>3. Abs!Next \/ val' = val
  BY DEF Abs!vars, val
<1>4. \E u \in Vars : \E x : val' = val \/ val' = [val EXCEPT ![u] = x]
  <2>1. ASSUME NEW u \in Vars, NEW x, Abs!Becomes(u, x)
        PROVE  \E y : val' = val \/ val' = [val EXCEPT ![u] = y]
    BY <2>1 DEF Abs!Becomes, val
  <2>2. ASSUME NEW u \in Vars \ {ComVar}, Abs!SetValue(u)
        PROVE  \E y : val' = val \/ val' = [val EXCEPT ![ComVar] = y]
    BY <2>2 DEF Abs!SetValue, Abs!vars, val
  <2>3. ASSUME NEW u \in Vars \ {ComVar},
               \/ Abs!Clear(u)
               \/ \E x \in Abs!Base : Abs!Set(u, x) \/ Abs!Extend(u, x)
               \/ \E t \in Types, s \in Abs!Items : Abs!SetArray(u, t, s)
               \/ \E y \in Vars : Abs!Assign(u, y) \/ Abs!Add(u, y)
               \/ \E y \in Vars, i \in 1 .. MaxLen : Abs!Take(u, y, i)
               \/ \E i \in 1 .. MaxLen : Abs!Erase(u, i) \/ \E x \in Abs!Base : Abs!SetAt(u, i, x)
        PROVE  \E x : Abs!Becomes(u, x)
    BY <2>3 DEF Abs!Clear, Abs!Set, Abs!Extend, Abs!SetArray, Abs!Assign, Abs!Add, Abs!Take, Abs!Erase, Abs!SetAt
  <2> QED BY <1>3, <2>1, <2>2, <2>3, VarsAssumption DEF Abs!Next
<1>5. PICK u \in Vars : \E x : val' = val \/ val' = [val EXCEPT ![u] = x]
  BY <1>4
<1>6. v = u
  BY <1>1, <1>2, <1>5
<1>7. w = u
  BY <1>1, <1>2, <1>5
<1> QED BY <1>6, <1>7

\* A copy is a copy on write (CVariant.cpp:79), assignments through operator[] on a
\* shared array apart: no operation changes two variables.
THEOREM CopiesOnWrite == ~IndexShared /\ Spec => CopyOnWrite
<1>1. Spec => []Inv
  BY InvHolds
<1>2. ~IndexShared /\ [Next]_vars => ~IndexShared'
  OBVIOUS
<1>3. Inv /\ Inv' /\ ~IndexShared /\ [Next]_vars
        => [\A v, w \in Vars : Value(v)' # Value(v) /\ Value(w)' # Value(w) => v = w]_vars
  BY StepValues, OneChanges
<1> QED BY <1>1, <1>2, <1>3, PTL DEF Spec, CopyOnWrite
=============================================================================
