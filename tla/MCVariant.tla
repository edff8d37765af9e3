------------------------------ MODULE MCVariant ------------------------------
(* Variant for TLC: a few variables that hold numbers and short arrays.      *)
(*                                                                           *)
(* A cell has no name that the program could see, and NewCell takes any free *)
(* one.  A state is told from another by who shares which cell with whom, by *)
(* what is in the cells and by the number of the cells that are free.        *)
EXTENDS Variant

Paths == Vars \X (0 .. MaxLen)
\* The cell at a path: of a variable, or of an element of its array.
At(p) ==
  IF p[2] = 0 THEN ref[p[1]]
  ELSE IF IsArray(p[1]) /\ p[2] <= Len(heap[ref[p[1]]].elems) THEN Element(p[1], p[2])
  ELSE Null

View ==
  <<{<<{q \in Paths : At(q) = At(p)}, [heap[At(p)] EXCEPT !.elems = Len(@)]>> :
        p \in {q \in Paths : At(q) # Null}},
    Cardinality(FreeCells(heap)), dirty>>
=============================================================================
