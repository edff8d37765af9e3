------------------------------ MODULE Exchange ------------------------------
(***************************************************************************)
(* The service the server gives a client on one connection: each request   *)
(* is answered once, by its own answer, in the order of the requests       *)
(* (client/src/cmpOffloading.cpp:181 sends a request and takes what comes   *)
(* back as its answer).                                                     *)
(***************************************************************************)
EXTENDS Naturals, Sequences

CONSTANTS Conns, MaxReq

VARIABLES asked,      \* asked[c]: how many requests c has sent
          answers     \* answers[c]: what c has received

vars == <<asked, answers>>

Init ==
  /\ asked = [c \in Conns |-> 0]
  /\ answers = [c \in Conns |-> <<>>]

Ask(c) ==
  /\ asked[c] < MaxReq /\ Len(answers[c]) = asked[c]
  /\ asked' = [asked EXCEPT ![c] = @ + 1]
  /\ UNCHANGED answers

Answer(c) ==
  /\ Len(answers[c]) < asked[c]
  /\ answers' = [answers EXCEPT ![c] = Append(@, <<c, Len(@) + 1>>)]
  /\ UNCHANGED asked

Next == \E c \in Conns : Ask(c) \/ Answer(c)

Spec == Init /\ [][Next]_vars
=============================================================================
