------------------------------- MODULE Variant -------------------------------
(***************************************************************************)
(* CVariant (com_src/CVariant.cpp, com_inc/CVariant.h) and the CComVar     *)
(* around one (client/inc/common.h).  A variant points at data that        *)
(* several variants may share, with a count of them, and copies the data   *)
(* before it changes what it shares.  An array is a vector of variants, so *)
(* the elements share data too.                                            *)
(*                                                                         *)
(* The heap's cells stand for the data of a variant together with its      *)
(* count and its type.  Types are base types that cannot be converted into *)
(* each other (a number, a bool), and arrays hold base values.  Strings,   *)
(* conversions between numbers and arrays within arrays are left out.      *)
(***************************************************************************)
EXTENDS Integers, Sequences, FiniteSets

CONSTANTS Vars, ComVar, Types, Summable, Width, MaxLen, Empty,
          Cells,        \* the heap
          Null, Free,
          IndexShared   \* elements of shared arrays are assigned through operator[]

ASSUME VarsAssumption == ComVar \in Vars /\ Null \notin Cells
\* Appending to a base value makes an array of two.
ASSUME DataAssumption ==
  /\ Summable \subseteq Types
  /\ Width \in Nat \ {0} /\ MaxLen \in Nat /\ MaxLen >= 2
\* Variables and elements of arrays are not the same places.
ASSUME HeapAssumption ==
  /\ IsFiniteSet(Vars) /\ IsFiniteSet(Cells)
  /\ Vars \cap (Cells \X (1 .. MaxLen)) = {}

VARIABLES
  ref,      \* ref[v]: the cell of variable v, or Null
  heap,     \* heap[c]: a cell's contents and count, or Free
  dirty     \* the CComVar has changed

vars == <<ref, heap, dirty>>
-----------------------------------------------------------------------------
Base == [type : Types, num : 0 .. Width - 1]
Items == UNION {[1 .. n -> 0 .. Width - 1] : n \in 0 .. MaxLen}

\* A variant of no type is told apart from every other.
ASSUME EmptyAssumption == Empty \notin Base /\ Empty \notin [type : Types, items : Seq(Base)]

BaseCell(x) == [type |-> x.type, array |-> FALSE, num |-> x.num, elems |-> <<>>, refs |-> 1]
ArrayCell(t, s) == [type |-> t, array |-> TRUE, num |-> 0, elems |-> s, refs |-> 1]

FreeCells(h) == {c \in Cells : h[c] = Free}
NewCell(h) == CHOOSE c \in Cells : h[c] = Free
NewCells(h, n) ==
  CHOOSE f \in [1 .. n -> FreeCells(h)] : \A i, j \in 1 .. n : f[i] = f[j] => i = j

Shared(h, c) == [h EXCEPT ![c].refs = @ + 1]
Times(s, c) == Cardinality({i \in DOMAIN s : s[i] = c})

\* Mutant of Less: the last holder leaves the cell behind.
LessKeep(cell, k) == [cell EXCEPT !.refs = @ - k]
\* A cell that k of its holders have left.
Less(cell, k) == IF cell.refs > k THEN [cell EXCEPT !.refs = @ - k] ELSE Free

\* Mutant of Drop: an array goes without its elements.
DropShallow(h, c) == [h EXCEPT ![c] = Less(@, 1)]
\* clear(): the last holder deletes the cell, and with an array its elements.
Drop(h, c) ==
  IF h[c].refs > 1
    THEN [h EXCEPT ![c].refs = @ - 1]
    ELSE [d \in Cells |-> IF d # c /\ \E i \in DOMAIN h[c].elems : h[c].elems[i] = d
                            THEN Less(h[d], Times(h[c].elems, d))
                            ELSE IF d = c THEN Free ELSE h[d]]
Release(h, r) == IF r = Null THEN h ELSE Drop(h, r)

\* Mutant of Own: what is shared is changed in place.
OwnShared(h, c) == [heap |-> h, cell |-> c]
\* _copyself() before a change: a cell that is shared is copied, element by element.
Own(h, c) ==
  IF h[c].refs > 1
    THEN LET d == NewCell(h) IN
         [heap |-> [e \in Cells |->
            IF e = d THEN [h[c] EXCEPT !.refs = 1]
            ELSE IF e = c THEN [h[c] EXCEPT !.refs = @ - 1]
            ELSE IF \E i \in DOMAIN h[c].elems : h[c].elems[i] = e
                   THEN [h[e] EXCEPT !.refs = @ + Times(h[c].elems, e)]
                   ELSE h[e]],
          cell |-> d]
    ELSE [heap |-> h, cell |-> c]

\* operator=(const T): a base value is written into a variant that points at r.
Write(h, r, x) ==
  IF r # Null /\ ~h[r].array /\ h[r].type = x.type
    THEN LET o == Own(h, r) IN [o EXCEPT !.heap[o.cell].num = x.num]
    ELSE LET g == Release(h, r)
             d == NewCell(g)
         IN  [heap |-> [g EXCEPT ![d] = BaseCell(x)], cell |-> d]

\* _upgrade() and _insert(): cell e, counted already, comes into the array of c as
\* element k, or after c itself.
Insert(h, c, k, e) ==
  IF h[c].array
    THEN LET o == Own(h, c)
             s == h[c].elems
         IN  [o EXCEPT !.heap[o.cell].elems = SubSeq(s, 1, k - 1) \o <<e>> \o SubSeq(s, k, Len(s))]
    ELSE LET d == NewCell(h)
         IN  [heap |-> [h EXCEPT ![d] = ArrayCell(h[c].type, <<c, e>>)], cell |-> d]

Plain(cell) == [type |-> cell.type, num |-> cell.num]
\* The value behind a cell: what a reader of the variant sees.
ValueOf(h, r) ==
  IF r = Null THEN Empty
  ELSE IF h[r].array
    THEN [type |-> h[r].type, items |-> [i \in DOMAIN h[r].elems |-> Plain(h[h[r].elems[i]])]]
    ELSE Plain(h[r])
Value(v) == ValueOf(heap, ref[v])

\* operator==, x on its left: the end of y's array is never looked at.
Equal(x, y) ==
  /\ x # Empty /\ y # Empty
  /\ \/ x \in Base /\ x = y
     \/ /\ x \notin Base /\ y \notin Base /\ x.type = y.type
        /\ Len(x.items) <= Len(y.items)
        /\ \A i \in DOMAIN x.items : x.items[i] = y.items[i]
-----------------------------------------------------------------------------
Init ==
  /\ ref = [v \in Vars |-> Null]
  /\ heap = [c \in Cells |-> Free]
  /\ dirty = FALSE

IsBase(v) == ref[v] # Null /\ ~heap[ref[v]].array
IsArray(v) == ref[v] # Null /\ heap[ref[v]].array
Element(v, i) == heap[ref[v]].elems[i]

\* Variant v points at what operation o has left.
Becomes(v, o) ==
  /\ heap' = o.heap
  /\ ref' = [ref EXCEPT ![v] = o.cell]

Clear(v) ==
  /\ Becomes(v, [heap |-> Release(heap, ref[v]), cell |-> Null])
  /\ UNCHANGED dirty

Set(v, x) ==
  /\ Becomes(v, Write(heap, ref[v], x))
  /\ UNCHANGED dirty

SetArray(v, t, s) ==
  /\ LET g == Release(heap, ref[v])
         f == NewCells(g, Len(s) + 1)
         d == f[Len(s) + 1]
         elems == [i \in DOMAIN s |-> f[i]]
     IN  Becomes(v, [heap |-> [c \in Cells |->
                       IF c = d THEN ArrayCell(t, elems)
                       ELSE IF \E i \in DOMAIN s : f[i] = c
                              THEN BaseCell([type |-> t, num |-> s[CHOOSE i \in DOMAIN s : f[i] = c]])
                              ELSE g[c]],
                     cell |-> d])
  /\ UNCHANGED dirty

\* operator=(const CVariant&) clears v before it looks at w.
Share(v, w) ==
  LET g == Release(heap, ref[v])
      c == IF v = w THEN Null ELSE ref[w]
  IN  Becomes(v, [heap |-> IF c = Null THEN g ELSE Shared(g, c), cell |-> c])

Assign(v, w) == Share(v, w) /\ UNCHANGED dirty

\* v = w[i].
Take(v, w, i) ==
  /\ v # w /\ IsArray(w) /\ i \in DOMAIN heap[ref[w]].elems
  /\ Becomes(v, [heap |-> Shared(Release(heap, ref[v]), Element(w, i)), cell |-> Element(w, i)])
  /\ UNCHANGED dirty

\* Room for one more element at place k.
Room(v, t, k) ==
  /\ ref[v] # Null /\ heap[ref[v]].type = t
  /\ IF IsArray(v) THEN Len(heap[ref[v]].elems) < MaxLen /\ k <= Len(heap[ref[v]].elems) + 1
                   ELSE k = 1

\* insert() or append() of a C++ value; append() makes an array of a base value.
InsertItem(v, x, k) ==
  /\ Room(v, x.type, k)
  /\ LET e == NewCell(heap)
     IN  Becomes(v, Insert([heap EXCEPT ![e] = BaseCell(x)], ref[v], k, e))
  /\ UNCHANGED dirty

\* insert() of a variant refuses arrays of bool, append() does not.
InsertVar(v, w, k) ==
  /\ v # w /\ IsBase(w) /\ Room(v, heap[ref[w]].type, k)
  /\ IsArray(v) /\ k <= Len(heap[ref[v]].elems) => heap[ref[w]].type \in Summable
  /\ Becomes(v, Insert(Shared(heap, ref[w]), ref[v], k, ref[w]))
  /\ UNCHANGED dirty

Erase(v, i) ==
  /\ IsArray(v) /\ i \in DOMAIN heap[ref[v]].elems
  /\ LET o == Own(heap, ref[v])
         s == heap[ref[v]].elems
     IN  Becomes(v, [heap |-> Drop([o.heap EXCEPT ![o.cell].elems =
                                      SubSeq(s, 1, i - 1) \o SubSeq(s, i + 1, Len(s))], s[i]),
                     cell |-> o.cell])
  /\ UNCHANGED dirty

\* v[i] = x, x of the array's type: operator[] hands out the element as it is,
\* whether the array is shared or not.
SetAt(v, i, x) ==
  /\ IsArray(v) /\ heap[ref[v]].type = x.type /\ i \in DOMAIN heap[ref[v]].elems
  /\ IndexShared \/ heap[ref[v]].refs = 1
  /\ LET o == Write(heap, Element(v, i), x)
     IN  heap' = [o.heap EXCEPT ![ref[v]].elems[i] = o.cell]
  /\ UNCHANGED <<ref, dirty>>

\* operator+=, which copies what is shared even when there is no sum.
Add(v, w) ==
  /\ IsBase(v) /\ IsBase(w) /\ heap[ref[v]].type = heap[ref[w]].type
  /\ LET o == Own(heap, ref[v])
         n == IF heap[ref[v]].type \in Summable
                THEN (heap[ref[v]].num + heap[ref[w]].num) % Width ELSE heap[ref[v]].num
     IN  Becomes(v, [o EXCEPT !.heap[o.cell].num = n])
  /\ UNCHANGED dirty

\* CComVar::setValue.
SetValue(w) ==
  IF Equal(Value(w), Value(ComVar))
    THEN UNCHANGED <<ref, heap, dirty>>
    ELSE Share(ComVar, w) /\ dirty' = TRUE

\* The heap has room for n more cells.
Memory(n) == Cardinality(FreeCells(heap)) >= n

Next ==
  \/ \E v \in Vars \ {ComVar} :
       \/ Clear(v)
       \/ \E w \in Vars : Assign(v, w)
       \/ \E w \in Vars, i \in 1 .. MaxLen : Take(v, w, i)
       \/ \E t \in Types, s \in Items : Memory(Len(s) + 1) /\ SetArray(v, t, s)
       \/ \E x \in Base, k \in 1 .. MaxLen : Memory(2) /\ InsertItem(v, x, k)
       \/ \E w \in Vars, k \in 1 .. MaxLen : Memory(1) /\ InsertVar(v, w, k)
       \/ \E w \in Vars : Memory(1) /\ Add(v, w)
       \/ \E x \in Base : Memory(1) /\ Set(v, x)
       \/ \E i \in 1 .. MaxLen : Memory(1) /\ Erase(v, i)
       \/ \E i \in 1 .. MaxLen, x \in Base : Memory(1) /\ SetAt(v, i, x)
  \/ \E w \in Vars \ {ComVar} : SetValue(w)

Spec == Init /\ [][Next]_vars
-----------------------------------------------------------------------------
(* Properties.                                                             *)

CellRecords ==
  [type : Types, array : BOOLEAN, num : 0 .. Width - 1, elems : Seq(Cells), refs : Nat \ {0}]
ASSUME FreeAssumption == Free \notin CellRecords

\* Types; a variant points at a cell that is there.
TypeOK ==
  /\ ref \in [Vars -> Cells \cup {Null}]
  /\ heap \in [Cells -> CellRecords \cup {Free}]
  /\ dirty \in BOOLEAN
  /\ \A v \in Vars : ref[v] # Null => heap[ref[v]] # Free

\* Who points at cell c: variables, and elements of arrays.
Holders(c) ==
  {v \in Vars : ref[v] = c}
    \cup {p \in Cells \X (1 .. MaxLen) :
            heap[p[1]] # Free /\ p[2] \in DOMAIN heap[p[1]].elems /\ heap[p[1]].elems[p[2]] = c}

\* The count of a cell is the number of variants that point at it, whatever is
\* shared through arrays: nothing leaks, is deleted twice or is used after it
\* was deleted (CVariant.cpp:99-155).
Counted ==
  \A c \in Cells : IF heap[c] = Free THEN Holders(c) = {}
                                     ELSE heap[c].refs = Cardinality(Holders(c))

\* Shared data cannot be told from data of one's own: the variants are plain values.
Abs == INSTANCE Values WITH val <- [v \in Vars |-> Value(v)]
ImplementsValues == Abs!Spec

\* The copy is copy-on-write (CVariant.cpp:79): an operation on one variable never
\* changes the value of another.
CopyOnWrite == [][\A v, w \in Vars : Value(v)' # Value(v) /\ Value(w)' # Value(w) => v = w]_vars
=============================================================================
