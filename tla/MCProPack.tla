------------------------------ MODULE MCProPack ------------------------------
(* ProPack for TLC, with four values of a byte and a table that, as crc_table  *)
(* does, permutes the exclusive or of its arguments.                           *)
EXTENDS ProPack, Wire, TLC

Table == <<0, 3, 1, 2>>
Xor4(a, b) == ((a + b) % 2) + 2 * (((a \div 2) + (b \div 2)) % 2)
Step4 == [c \in 0 .. 3 |-> [b \in 0 .. 3 |-> Table[Xor4(c, b) + 1]]]

\* Data with bytes that look like a head and a length, and data that makes a body
\* of more than Base bytes.
Answers == [cmd : {1}, status : {2, 3}, data : {<<>>, <<3>>, <<3, 0>>, <<3, 2, 1>>}]
-----------------------------------------------------------------------------
(* What the packets of an EXEC carry, for small integers of each width: the     *)
(* properties of Wire, of every scalar and every array of up to two elements.   *)

HalfSmall == (1 :> 1) @@ (2 :> 2) @@ (4 :> 4) @@ (8 :> 8)
FewFloats == -4 .. 4
SmallArrays(S) == {<<>>} \cup {<<x>> : x \in S} \cup {<<x, y>> : x, y \in S}
SmallVariables ==
  UNION {[kind : {k}, array : {TRUE}, items : SmallArrays(ValuesOf(k))] \cup
         [kind : {k}, array : {FALSE}, items : {<<x>> : x \in ValuesOf(k)}] : k \in Kinds}

ASSUME WireChecked ==
  \A v \in SmallVariables :
    NumberArrives(v) /\ ArrayArrives(v) /\ Stable(v) /\ KilledOnly(v)
=============================================================================
