------------------------------- MODULE Values -------------------------------
(***************************************************************************)
(* What CVariant and CComVar (com_inc/CVariant.h, client/inc/common.h)     *)
(* promise: variables that hold values, where an operation on a variable   *)
(* changes that variable and no other, as if nothing were shared.          *)
(***************************************************************************)
EXTENDS Integers, Sequences

CONSTANTS Vars,       \* the variables
          ComVar,     \* the variable inside a CComVar
          Types,      \* base types without a conversion between them
          Summable,   \* all but bool: those that += adds
          Width,      \* numbers are 0 .. Width - 1
          MaxLen,     \* the longest array
          Empty       \* the value of a variable of no type

VARIABLES val,        \* val[v]: the value of v
          dirty       \* the CComVar has changed

vars == <<val, dirty>>

Base == [type : Types, num : 0 .. Width - 1]
Items == UNION {[1 .. n -> 0 .. Width - 1] : n \in 0 .. MaxLen}
Array(t, s) == [type |-> t, items |-> s]
IsBase(x) == x \in Base
IsArray(x) == x # Empty /\ ~IsBase(x)

Init == val = [v \in Vars |-> Empty] /\ dirty = FALSE

Becomes(v, x) == val' = [val EXCEPT ![v] = x] /\ UNCHANGED dirty

Set(v, x) == Becomes(v, x)
SetArray(v, t, s) ==
  Becomes(v, Array(t, [i \in DOMAIN s |-> [type |-> t, num |-> s[i]]]))
Clear(v) == Becomes(v, Empty)

\* A variable assigned to itself is emptied.
Assign(v, w) == Becomes(v, IF v = w THEN Empty ELSE val[w])

Take(v, w, i) ==
  /\ v # w /\ IsArray(val[w]) /\ i \in DOMAIN val[w].items
  /\ Becomes(v, val[w].items[i])

\* A base value becomes an array of its type first.
Extend(v, x) ==
  \/ /\ IsBase(val[v]) /\ x.type = val[v].type
     /\ Becomes(v, Array(x.type, <<val[v], x>>))
  \/ /\ IsArray(val[v]) /\ x.type = val[v].type
     /\ \E k \in 1 .. Len(val[v].items) + 1 :
          Becomes(v, Array(x.type, SubSeq(val[v].items, 1, k - 1) \o <<x>>
                                     \o SubSeq(val[v].items, k, Len(val[v].items))))

Erase(v, i) ==
  /\ IsArray(val[v]) /\ i \in DOMAIN val[v].items
  /\ Becomes(v, [val[v] EXCEPT !.items = SubSeq(@, 1, i - 1) \o SubSeq(@, i + 1, Len(@))])

SetAt(v, i, x) ==
  /\ IsArray(val[v]) /\ i \in DOMAIN val[v].items
  /\ Becomes(v, [val[v] EXCEPT !.items[i] = x])

Add(v, w) ==
  /\ IsBase(val[v]) /\ IsBase(val[w]) /\ val[v].type = val[w].type /\ val[v].type \in Summable
  /\ Becomes(v, [val[v] EXCEPT !.num = (@ + val[w].num) % Width])

\* An array x that y begins with.
Begins(x, y) ==
  /\ IsArray(x) /\ IsArray(y) /\ x.type = y.type
  /\ Len(x.items) <= Len(y.items)
  /\ \A i \in DOMAIN x.items : x.items[i] = y.items[i]

\* CComVar::setValue: the flag is set at least when the value changes.  An array
\* that the present one begins with is taken for equal to it, and dropped.
SetValue(w) ==
  IF Begins(val[w], val[ComVar])
    THEN UNCHANGED vars
    ELSE /\ val' = [val EXCEPT ![ComVar] = val[w]]
         /\ dirty' \in {TRUE, dirty} /\ (val' # val => dirty')

Next ==
  \/ \E v \in Vars \ {ComVar} :
       \/ Clear(v)
       \/ \E x \in Base : Set(v, x) \/ Extend(v, x)
       \/ \E t \in Types, s \in Items : SetArray(v, t, s)
       \/ \E w \in Vars : Assign(v, w) \/ Add(v, w)
       \/ \E w \in Vars, i \in 1 .. MaxLen : Take(v, w, i)
       \/ \E i \in 1 .. MaxLen : Erase(v, i) \/ \E x \in Base : SetAt(v, i, x)
  \/ \E w \in Vars \ {ComVar} : SetValue(w)

Spec == Init /\ [][Next]_vars
=============================================================================
