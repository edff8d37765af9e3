--------------------------------- MODULE Wire ---------------------------------
(***************************************************************************)
(* What becomes of a variable on its way into a script and back: exec()    *)
(* writes it down with a tag for its type (client/src/cmpOffloading.cpp),  *)
(* the runner makes a Python value of it (scriptsRunner/pythonRunner.cpp), *)
(* and what the script returns goes back in the same form.                 *)
(*                                                                         *)
(* A variable has a kind, and is one value of that kind or an array.  Its  *)
(* items are the values; a floating-point number is counted in units finer *)
(* than the six decimals that are written, Grain of them to the last one.  *)
(* JSON and base64 carry what they are given; Python is outside src/.      *)
(***************************************************************************)
EXTENDS Integers, Sequences

CONSTANTS Half,     \* Half[n]: 2^(8n - 1), where an integer of n bytes ends
          Grain,
          Floats,   \* the floating-point numbers
          Texts,    \* the strings
          MaxItems  \* arrays that are longer are not sent: 100

ASSUME HalfAssumption ==
  /\ Half \in [{1, 2, 4, 8} -> Nat \ {0}]
  /\ Half[1] <= Half[2] /\ 2 * Half[2] <= Half[4] /\ 2 * Half[4] <= Half[8]
ASSUME BoundsAssumption == Grain \in Nat \ {0} /\ MaxItems \in Nat \ {0}

\* datatype_t; the type of an array is that of its elements plus Vector.
Bool == 0
SByte == 1
Int32 == 5
Int64 == 7
UInt64 == 8
Float == 9
Double == 10
String == 11
Vector == 100

Kinds == 0 .. String
Signed(n) == - Half[n] .. Half[n] - 1
Unsigned(n) == 0 .. 2 * Half[n] - 1
Integral == <<Signed(1), Unsigned(1), Signed(2), Unsigned(2), Signed(4), Unsigned(4),
              Signed(8), Unsigned(8)>>
ValuesOf(k) ==
  IF k = Bool THEN {0, 1}
  ELSE IF k \in DOMAIN Integral THEN Integral[k]
  ELSE IF k \in {Float, Double} THEN Floats
  ELSE Texts

Variables ==
  UNION {[kind : {k}, array : {TRUE}, items : Seq(ValuesOf(k))] \cup
         [kind : {k}, array : {FALSE}, items : {<<x>> : x \in ValuesOf(k)}] : k \in Kinds}

Type(v) == v.kind + (IF v.array THEN Vector ELSE 0)

\* The tag of each type: an array of floating-point numbers has that of a number.
TypesOf == [b |-> {Bool}, c |-> {SByte}, i |-> 2 .. Int32, l |-> 6 .. UInt64, f |-> {Float},
            d |-> {Double, Vector + Float, Vector + Double}, s |-> {String},
            B |-> {Vector}, I |-> Vector + 1 .. Vector + Int32, L |-> Vector + 6 .. Vector + UInt64,
            S |-> {Vector + String}]
Tag(v) == CHOOSE t \in DOMAIN TypesOf : Type(v) \in TypesOf[t]

\* The kind of the elements that get() is asked for; of any other it gets none.
ElementKind == [B |-> Bool, I |-> Int32, L |-> Int64, d |-> Double, S |-> String]

\* std::to_string: the nearest number with six decimals.
Rounded(x) == Grain * ((2 * x + Grain) \div (2 * Grain))
ASSUME FloatsAssumption == Floats \subseteq Int /\ \A x \in Floats : Rounded(x) \in Floats

Printed(v) == IF v.kind \in {Float, Double} THEN <<Rounded(v.items[1])>> ELSE v.items

\* What is sent: nothing of a long array.  An element that get() does not get
\* is whatever the variable it should be put into holds.
ItemsSent(v) ==
  IF ~v.array THEN {Printed(v)}
  ELSE IF v.kind = ElementKind[Tag(v)] THEN {v.items}
  ELSE [DOMAIN v.items -> ValuesOf(ElementKind[Tag(v)])]
Sent(v) ==
  IF Len(v.items) > MaxItems THEN {}
  ELSE [tag : {Tag(v)}, array : {v.array}, items : ItemsSent(v)]

\* The runner ends: std::stoi, stol and stod throw at what they cannot read.  The
\* value of an array is not a string, and read as an empty one.
Dies(m) ==
  \/ m.array /\ m.tag \in {"i", "l", "f", "d"}
  \/ ~m.array /\ m.tag = "i" /\ m.items[1] \notin ValuesOf(Int32)
  \/ ~m.array /\ m.tag = "l" /\ m.items[1] \notin ValuesOf(Int64)

\* The Python value made of a message, if one is made.
PythonType == [b |-> "int", c |-> "bytes", i |-> "int", l |-> "int", f |-> "float",
               d |-> "float", s |-> "str", I |-> "list", L |-> "list", S |-> "list"]
Given(m) ==
  IF Dies(m) \/ m.items = <<>> \/ m.tag \notin DOMAIN PythonType THEN {}
  ELSE {[type |-> PythonType[m.tag], items |-> m.items]}

\* What the script may find of variable v, and whether it may not be run at all.
Arrives(v) == UNION {Given(m) : m \in Sent(v)}
MayKill(v) == \E m \in Sent(v) : Dies(m)

\* A Python value that a script returns.  A number that is too long becomes -1,
\* a value of another type is left out.
Result(x) ==
  CASE x.type = "int" ->
         {[tag |-> "l", items |-> IF x.items[1] \in ValuesOf(Int64) THEN x.items ELSE <<-1>>]}
    [] x.type = "float" -> {[tag |-> "d", items |-> <<Rounded(x.items[1])>>]}
    [] x.type = "str" -> {[tag |-> "s", items |-> x.items]}
    [] OTHER -> {}

\* The variable that the client makes of it.
KindOf == [l |-> Int64, d |-> Double, s |-> String]
Received(r) == [kind |-> KindOf[r.tag], array |-> FALSE, items |-> r.items]

\* What the client may get back of v from a script that returns its input.
Echo(v) == {Received(r) : r \in UNION {Result(x) : x \in Arrives(v)}}
-----------------------------------------------------------------------------
(* Properties.                                                             *)

\* A variable that is one number, other than an unsigned one of more than 63
\* bits, is in the script, and is the same number, up to six decimals.
NumberArrives(v) ==
  ~v.array /\ v.kind \notin {SByte, String} /\ (v.kind = UInt64 => v.items[1] \in ValuesOf(Int64)) =>
    \E t \in {"int", "float"} : Arrives(v) = {[type |-> t, items |-> Printed(v)]}

\* An array that is not empty nor too long is in the script as it was, if its
\* elements are of the kinds that get() is asked for and Python gets a list of.
ArrayArrives(v) ==
  v.array /\ v.kind \in {Int32, Int64, String} /\ Len(v.items) \in 1 .. MaxItems =>
    Arrives(v) = {[type |-> "list", items |-> v.items]}

\* What a script has returned, and is given as an input the next time, comes back
\* as it is: the results of an unchanging script do not change.
Stable(v) == \A w \in Echo(v) : Echo(w) = {w}

\* Only a long unsigned number or an array of floating-point numbers can end the
\* runner before the script is called.
KilledOnly(v) ==
  MayKill(v) => \/ v.kind = UInt64 /\ ~v.array
                \/ v.kind \in {Float, Double} /\ v.array
=============================================================================
