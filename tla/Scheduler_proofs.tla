-------------------------- MODULE Scheduler_proofs --------------------------
(***************************************************************************)
(* Proofs about Scheduler, for any slaves, loads and command threads, with *)
(* every race on the list: types, the list and the sockets, the order of   *)
(* the list, and that a prompt slave is not evicted.                       *)
(***************************************************************************)
EXTENDS Scheduler, TLAPS

\* What is known of the slave being added, and of the master before its turn.
AddingOpen ==
  /\ adding # None => conn[adding] \in {"open", "left"}
  /\ tpc = "start" => \A i \in DOMAIN servs : servs[i].srv # Local

\* A prompt slave that has missed a collection is asked before the next one, and
\* has answered when it begins.
PromptAsked ==
  /\ \A s \in Prompt : conn[s] \notin {"left", "reset"}
  /\ \A i \in DOMAIN servs : servs[i].srv \in Prompt /\ servs[i].faild > 0 =>
       /\ tpc = "send" /\ i < pos => asked[servs[i].srv] \/ inbox[servs[i].srv] # None
       /\ tpc = "sleep" => asked[servs[i].srv] \/ inbox[servs[i].srv] # None
       /\ tpc = "collect" /\ i >= pos => inbox[servs[i].srv] # None

Inv == TypeOK /\ ListedOpen /\ AddingOpen /\ Ordered /\ PromptKept /\ PromptAsked
-----------------------------------------------------------------------------
(* Lemmas about the list.                                                  *)

LEMMA EntryType ==
  ASSUME NEW s \in Servers
  PROVE  Entry(s) \in Entries
BY DEF Entry, Entries

\* What is left when element i is taken out, and where it was.
LEMMA WithoutElements ==
  ASSUME NEW S, NEW list \in Seq(S), NEW i \in DOMAIN list
  PROVE  /\ Without(list, i) \in Seq(S)
         /\ \A k \in DOMAIN Without(list, i) :
              /\ k < i => k \in DOMAIN list /\ Without(list, i)[k] = list[k]
              /\ k >= i => k + 1 \in DOMAIN list /\ Without(list, i)[k] = list[k + 1]
<1>1. Len(list) - 1 \in Nat
  OBVIOUS
<1>2. \A k \in 1 .. Len(list) - 1 : k \in DOMAIN list /\ k + 1 \in DOMAIN list
  OBVIOUS
<1>3. Without(list, i) \in [1 .. Len(list) - 1 -> S]
  BY <1>2 DEF Without
<1>4. Without(list, i) \in Seq(S)
  BY <1>1, <1>3
<1> QED BY <1>2, <1>4 DEF Without

\* A new element at the end, with the greatest load there is.
LEMMA AppendElements ==
  ASSUME NEW S, NEW list \in Seq(S), NEW x \in S
  PROVE  /\ Append(list, x) \in Seq(S)
         /\ Len(list) + 1 \in DOMAIN Append(list, x) /\ Append(list, x)[Len(list) + 1] = x
         /\ \A i \in DOMAIN list : i \in DOMAIN Append(list, x) /\ Append(list, x)[i] = list[i]
         /\ \A i \in DOMAIN Append(list, x) : i \in DOMAIN list \/ i = Len(list) + 1
         /\ \A i \in DOMAIN list : i < Len(list) + 1
OBVIOUS

LEMMA NewcomerLast ==
  ASSUME NEW list \in Seq(Entries), Ascending(list), NEW s \in Servers
  PROVE  Ascending(Append(list, Entry(s)))
<1> DEFINE x == Entry(s)
<1>1. x \in Entries /\ x.load = Unknown
  BY EntryType DEF Entry
<1>2. \A i \in DOMAIN list : list[i] \in Entries /\ i \in Nat
  OBVIOUS
<1>3. \A e \in Entries : e.load \in Nat /\ e.load <= Unknown
  <2> SUFFICES ASSUME NEW e \in Entries PROVE e.load \in Nat /\ e.load <= Unknown
    OBVIOUS
  <2>1. e.load \in Loads \/ e.load = Unknown
    BY DEF Entries
  <2>2. Unknown \in Nat /\ \A l \in Loads : l \in Nat /\ l < Unknown
    BY LoadsAssumption
  <2>3. \A l \in Loads : l <= Unknown
    BY <2>2
  <2> QED BY <2>1, <2>2, <2>3
<1> HIDE DEF x
<1>4. /\ Append(list, x)[Len(list) + 1] = x
      /\ \A i \in DOMAIN list : Append(list, x)[i] = list[i]
      /\ \A i \in DOMAIN Append(list, x) : i \in DOMAIN list \/ i = Len(list) + 1
      /\ \A i \in DOMAIN list : i < Len(list) + 1
  BY <1>1, AppendElements
<1>5. ASSUME NEW i \in DOMAIN Append(list, x), NEW j \in DOMAIN Append(list, x), i < j
      PROVE  Append(list, x)[i].load <= Append(list, x)[j].load
  <2>1. CASE j = Len(list) + 1
    <3>1. i \in DOMAIN list \/ i = Len(list) + 1
      BY <1>4
    <3>2. Append(list, x)[i] \in Entries
      BY <1>1, <1>2, <1>4, <3>1
    <3> QED BY <1>1, <1>3, <1>4, <2>1, <3>2
  <2>2. CASE j \in DOMAIN list
    <3>1. i \in DOMAIN list
      BY <1>4, <1>5, <2>2
    <3> QED BY <1>4, <1>5, <2>2, <3>1 DEF Ascending
  <2> QED BY <1>4, <2>1, <2>2
<1>6. Ascending(Append(list, x))
  BY <1>5 DEF Ascending
<1> QED BY <1>6 DEF x
-----------------------------------------------------------------------------
(* Type correctness.                                                       *)

LEMMA TypeStep ==
  ASSUME TypeOK, [Next]_vars
  PROVE  TypeOK'
<1> USE ServersAssumption, LoadsAssumption
<1> USE DEF listVars, netVars, loopVars, workerVars, TickPCs, Servers
<1>1. ASSUME NEW s \in Slaves, Connect(s) \/ Answer(s) \/ Leave(s) PROVE TypeOK'
  <2>1. CASE Connect(s)
    BY <2>1 DEF Connect, TypeOK
  <2>2. CASE Answer(s)
    BY <2>2 DEF Answer, TypeOK
  <2>3. CASE Leave(s)
    BY <2>3 DEF Leave, TypeOK
  <2> QED BY <1>1, <2>1, <2>2, <2>3
<1>2. ASSUME NEW s \in Slaves, Accept(s) PROVE TypeOK'
  BY <1>2 DEF Accept, TypeOK
<1>3. CASE LockServs
  BY <1>3 DEF LockServs, TypeOK
<1>4. CASE PushServ
  <2>1. adding \in Servers /\ Entry(adding) \in Entries
    BY <1>4, EntryType DEF PushServ, TypeOK
  <2>2. servs' \in Seq(Entries)
    BY <1>4, <2>1 DEF PushServ, TypeOK
  <2> QED BY <1>4, <2>2 DEF PushServ, TypeOK
<1>5. CASE TickStart
  <2>1. Entry(Local) \in Entries
    BY EntryType
  <2>2. servs' \in Seq(Entries)
    BY <1>5, <2>1 DEF TickStart, TypeOK
  <2> QED BY <1>5, <2>2 DEF TickStart, TypeOK
<1>6. CASE TickCheck
  BY <1>6 DEF TickCheck, TypeOK
<1>7. CASE SendQuery
  <2>1. conn' \in [Slaves -> {"off", "queued", "open", "left", "reset", "closed"}]
    BY <1>7 DEF SendQuery, TypeOK
  <2>2. asked' \in [Slaves -> BOOLEAN] /\ UNCHANGED inbox /\ alive' \in BOOLEAN
    BY <1>7 DEF SendQuery, TypeOK
  <2>3. pos' \in Nat \ {0}
    BY <1>7 DEF SendQuery, TypeOK
  <2>4. UNCHANGED <<listVars, ifRun, tpc, loopVars, sig, workerVars>>
    BY <1>7 DEF SendQuery
  <2> QED BY <2>1, <2>2, <2>3, <2>4 DEF TypeOK
<1>8. CASE EndSend \/ Sleep \/ EndCollect \/ Wait
  BY <1>8 DEF EndSend, Sleep, EndCollect, Wait, TypeOK
<1>9. CASE CollectLocal
  <2>1. pos \in DOMAIN servs /\ servs[pos] \in Entries
    BY <1>9 DEF CollectLocal, TypeOK
  <2>2. PICK l \in Loads : servs' = [servs EXCEPT ![pos].load = l]
    BY <1>9 DEF CollectLocal
  <2>3. [servs[pos] EXCEPT !.load = l] \in Entries
    BY <2>1 DEF Entries
  <2>4. servs' \in Seq(Entries)
    BY <2>1, <2>2, <2>3 DEF TypeOK
  <2> QED BY <1>9, <2>4 DEF CollectLocal, TypeOK
<1>10. CASE CollectAnswer
  <2> DEFINE s == servs[pos].srv
             x == [servs[pos] EXCEPT !.load = inbox[s], !.faild = 0]
  <2>1. pos \in DOMAIN servs /\ servs[pos] \in Entries /\ s \in Slaves
    <3>1. pos \in DOMAIN servs /\ servs[pos] \in Entries
      BY <1>10 DEF CollectAnswer, TypeOK
    <3> QED BY <3>1, <1>10 DEF CollectAnswer, Entries
  <2>2. inbox[s] \in Loads
    BY <1>10, <2>1 DEF CollectAnswer, TypeOK
  <2>3. x \in Entries
    BY <2>1, <2>2 DEF Entries
  <2>4. servs' = [servs EXCEPT ![pos] = x]
    BY <1>10 DEF CollectAnswer
  <2> HIDE DEF x
  <2>5. servs' \in Seq(Entries)
    BY <2>1, <2>3, <2>4 DEF TypeOK
  <2>6. inbox' \in [Slaves -> Loads \cup {None}]
    BY <1>10, <2>1 DEF CollectAnswer, TypeOK
  <2>7. pos' \in Nat \ {0}
    BY <1>10 DEF CollectAnswer, TypeOK
  <2>8. UNCHANGED <<servsMut, ifRun, conn, asked, tpc, loopVars, sig, workerVars, alive>>
    BY <1>10 DEF CollectAnswer
  <2> QED BY <2>5, <2>6, <2>7, <2>8 DEF TypeOK
<1>11. CASE CollectNothing
  <2>1. pos \in DOMAIN servs /\ servs[pos] \in Entries
    BY <1>11 DEF CollectNothing, TypeOK
  <2>2. servs[pos].faild \in Nat
    BY <2>1 DEF Entries
  <2>3. [servs[pos] EXCEPT !.faild = @ + 1] \in Entries
    BY <2>1, <2>2 DEF Entries
  <2>4. servs' = Without(servs, pos) \/ servs' = [servs EXCEPT ![pos].faild = @ + 1]
    BY <1>11 DEF CollectNothing
  <2>5. servs' \in Seq(Entries)
    <3>1. Without(servs, pos) \in Seq(Entries)
      BY <2>1, WithoutElements DEF TypeOK
    <3>2. [servs EXCEPT ![pos].faild = @ + 1] \in Seq(Entries)
      BY <2>1, <2>3 DEF TypeOK
    <3> QED BY <2>4, <3>1, <3>2
  <2>6. conn' \in [Slaves -> {"off", "queued", "open", "left", "reset", "closed"}]
    BY <1>11 DEF CollectNothing, TypeOK
  <2>7. pos' \in Nat \ {0}
    BY <1>11 DEF CollectNothing, TypeOK
  <2>8. UNCHANGED <<servsMut, ifRun, asked, inbox, tpc, loopVars, sig, workerVars, alive>>
    BY <1>11 DEF CollectNothing
  <2> QED BY <2>5, <2>6, <2>7, <2>8 DEF TypeOK
<1>12. CASE Sort
  <2>1. PICK p \in [DOMAIN servs -> DOMAIN servs] : servs' = [i \in DOMAIN servs |-> servs[p[i]]]
    BY <1>12 DEF Sort
  <2>2. servs' \in Seq(Entries)
    <3>1. servs \in Seq(Entries) /\ Len(servs) \in Nat /\ DOMAIN servs = 1 .. Len(servs)
      BY DEF TypeOK
    <3>2. servs' \in [1 .. Len(servs) -> Entries]
      BY <2>1, <3>1
    <3> QED BY <3>1, <3>2
  <2> QED BY <1>12, <2>2 DEF Sort, TypeOK
<1>13. ASSUME NEW w \in Workers, GetIp(w) PROVE TypeOK'
  BY <1>13 DEF GetIp, TypeOK
<1>14. ASSUME NEW w \in Workers, ServerFit(w) PROVE TypeOK'
  <2>1. servs # <<>> => Head(servs).srv \in Servers
    <3>1. servs # <<>> => Head(servs) \in Entries
      BY DEF TypeOK
    <3> QED BY <3>1 DEF Entries
  <2>2. fit' \in [Workers -> Servers \cup {None}]
    BY <1>14, <2>1 DEF ServerFit, TypeOK
  <2> QED BY <1>14, <2>2 DEF ServerFit, TypeOK
<1>15. CASE RaceCrash
  BY <1>15 DEF RaceCrash, TypeOK
<1>16. CASE Interrupt
  BY <1>16 DEF Interrupt, LoopUp, TypeOK
<1>17. CASE Join
  BY <1>17 DEF Join, TypeOK
<1>18. CASE CloseAll
  <2>1. conn' \in [Slaves -> {"off", "queued", "open", "left", "reset", "closed"}]
    BY <1>18 DEF CloseAll, TypeOK
  <2> QED BY <1>18, <2>1 DEF CloseAll, TypeOK
<1>19. CASE UNCHANGED vars
  BY <1>19 DEF vars, TypeOK
<1> QED
  BY <1>1, <1>2, <1>3, <1>4, <1>5, <1>6, <1>7, <1>8, <1>9, <1>10, <1>11, <1>12, <1>13,
     <1>14, <1>15, <1>16, <1>17, <1>18, <1>19
  DEF Next, TickStep, LoopStep, SignalStep
-----------------------------------------------------------------------------
(* The list and the sockets.                                               *)

\* The servers listed stay, at their places.
SamePlaces == DOMAIN servs' = DOMAIN servs /\ \A i \in DOMAIN servs : servs'[i].srv = servs[i].srv

\* A slave that is listed or being added keeps its socket open on this side.
OpenStays ==
  \A s \in Slaves : (conn[s] \in {"open", "left"} => conn'[s] \in {"open", "left", "reset"})
                    /\ (conn[s] = "reset" => conn'[s] = "reset")
                    /\ (s = adding /\ conn[s] \in {"open", "left"} => conn'[s] \in {"open", "left"})

LEMMA ListedFrame ==
  ASSUME TypeOK, ListedOpen, AddingOpen, SamePlaces, OpenStays, UNCHANGED adding,
         tpc' = "start" => tpc = "start"
  PROVE  ListedOpen' /\ AddingOpen'
<1>0. \A i \in DOMAIN servs : servs[i] \in Entries
  BY DEF TypeOK
<1>1. \A i \in DOMAIN servs : servs[i].srv # Local => servs[i].srv \in Slaves
  BY <1>0 DEF Entries, Servers
<1>2. \A i, j \in DOMAIN servs' : servs'[i].srv = servs'[j].srv => i = j
  BY DEF SamePlaces, ListedOpen
<1>3. \A i \in DOMAIN servs' :
         servs'[i].srv # Local => conn'[servs'[i].srv] \in {"open", "left", "reset"}
  BY <1>1 DEF SamePlaces, ListedOpen, OpenStays
<1>4. \A i \in DOMAIN servs' : servs'[i].srv # adding'
  BY DEF SamePlaces, ListedOpen
<1>5. AddingOpen'
  BY DEF SamePlaces, AddingOpen, OpenStays, TypeOK
<1> QED BY <1>2, <1>3, <1>4, <1>5 DEF ListedOpen

LEMMA ListedStep ==
  ASSUME TypeOK, ListedOpen, AddingOpen, [Next]_vars
  PROVE  ListedOpen' /\ AddingOpen'
<1> USE ServersAssumption
<1> USE DEF listVars, netVars, loopVars, workerVars
<1>0. /\ servs \in Seq(Entries)
      /\ \A i \in DOMAIN servs : servs[i] \in Entries /\ servs[i].srv \in Servers
      /\ conn \in [Slaves -> {"off", "queued", "open", "left", "reset", "closed"}]
  <2>1. \A i \in DOMAIN servs : servs[i] \in Entries
    BY DEF TypeOK
  <2> QED BY <2>1 DEF TypeOK, Entries
<1>1. ASSUME NEW s \in Slaves, Connect(s) \/ Answer(s) \/ Leave(s) PROVE ListedOpen' /\ AddingOpen'
  <2>1. SamePlaces /\ UNCHANGED <<adding, tpc>>
    BY <1>1 DEF Connect, Answer, Leave, SamePlaces
  <2>2. OpenStays
    BY <1>0, <1>1 DEF Connect, Answer, Leave, OpenStays
  <2> QED BY <2>1, <2>2, ListedFrame
<1>2. ASSUME NEW s \in Slaves, Accept(s) PROVE ListedOpen' /\ AddingOpen'
  <2>1. /\ conn[s] = "queued" /\ conn' = [conn EXCEPT ![s] = "open"] /\ adding' = s
        /\ UNCHANGED <<servs, tpc>>
    BY <1>2 DEF Accept
  <2>2. \A i \in DOMAIN servs : servs[i].srv # s
    BY <2>1 DEF ListedOpen
  <2> QED BY <1>0, <2>1, <2>2 DEF ListedOpen, AddingOpen, Servers
<1>3. CASE LockServs
  BY <1>3 DEF LockServs, ListedOpen, AddingOpen
<1>4. CASE PushServ
  <2>1. /\ adding \in Slaves /\ conn[adding] \in {"open", "left"} /\ adding' = None
        /\ UNCHANGED <<conn, tpc>>
    BY <1>4 DEF PushServ, TypeOK, AddingOpen
  <2>2. CASE UNCHANGED servs
    BY <1>0, <2>1, <2>2 DEF ListedOpen, AddingOpen, Servers
  <2>3. CASE servs' = Append(servs, Entry(adding))
    <3>1. Entry(adding) \in Entries /\ Entry(adding).srv = adding
      BY <2>1, EntryType DEF Entry, Servers
    <3>2. /\ Len(servs) + 1 \in DOMAIN servs' /\ servs'[Len(servs) + 1].srv = adding
          /\ \A i \in DOMAIN servs : servs'[i] = servs[i]
          /\ \A i \in DOMAIN servs' : i \in DOMAIN servs \/ i = Len(servs) + 1
      BY <1>0, <2>3, <3>1, AppendElements
    <3>3. \A i, j \in DOMAIN servs' : servs'[i].srv = servs'[j].srv => i = j
      BY <3>2 DEF ListedOpen
    <3>4. \A i \in DOMAIN servs' :
             /\ servs'[i].srv \in Servers
             /\ servs'[i].srv # Local => conn'[servs'[i].srv] \in {"open", "left", "reset"}
      BY <1>0, <2>1, <3>2 DEF ListedOpen, Servers
    <3>5. \A i \in DOMAIN servs' : servs'[i].srv # adding'
      BY <2>1, <3>4 DEF Servers
    <3>6. AddingOpen'
      BY <2>1, <3>2 DEF AddingOpen
    <3> QED BY <3>3, <3>4, <3>5, <3>6 DEF ListedOpen
  <2> QED BY <1>4, <2>2, <2>3 DEF PushServ
<1>5. CASE TickStart
  <2>1. tpc = "start" /\ tpc' = "check" /\ UNCHANGED <<conn, adding>>
    BY <1>5 DEF TickStart
  <2>2. CASE UNCHANGED servs
    BY <2>1, <2>2 DEF ListedOpen, AddingOpen
  <2>3. CASE servs' = Append(servs, Entry(Local))
    <3>1. Entry(Local) \in Entries /\ Entry(Local).srv = Local
      BY EntryType DEF Entry, Servers
    <3>2. /\ Len(servs) + 1 \in DOMAIN servs' /\ servs'[Len(servs) + 1].srv = Local
          /\ \A i \in DOMAIN servs : servs'[i] = servs[i]
          /\ \A i \in DOMAIN servs' : i \in DOMAIN servs \/ i = Len(servs) + 1
      BY <1>0, <2>3, <3>1, AppendElements
    <3>3. \A i \in DOMAIN servs : servs[i].srv # Local
      BY <2>1 DEF AddingOpen
    <3>4. \A i, j \in DOMAIN servs' : servs'[i].srv = servs'[j].srv => i = j
      BY <3>2, <3>3 DEF ListedOpen
    <3>5. \A i \in DOMAIN servs' :
             /\ servs'[i].srv # Local => conn'[servs'[i].srv] \in {"open", "left", "reset"}
             /\ servs'[i].srv # adding'
      BY <2>1, <3>2 DEF ListedOpen, TypeOK
    <3>6. AddingOpen'
      BY <2>1 DEF AddingOpen
    <3> QED BY <3>4, <3>5, <3>6 DEF ListedOpen
  <2> QED BY <1>5, <2>2, <2>3 DEF TickStart
<1>6. CASE TickCheck \/ EndSend \/ Sleep \/ EndCollect \/ Wait
  <2>1. UNCHANGED <<servs, conn, adding>> /\ tpc' # "start"
    BY <1>6 DEF TickCheck, EndSend, Sleep, EndCollect, Wait
  <2> QED BY <2>1 DEF ListedOpen, AddingOpen
<1>7. CASE SendQuery
  <2>1. SamePlaces /\ UNCHANGED <<adding, tpc>>
    BY <1>7 DEF SendQuery, SamePlaces
  <2>2. \A i \in DOMAIN servs : servs[i].srv # adding
    BY DEF ListedOpen
  <2>3. OpenStays
    <3>1. pos \in DOMAIN servs
      BY <1>7 DEF SendQuery, TypeOK
    <3> QED BY <1>0, <1>7, <2>2, <3>1 DEF SendQuery, OpenStays
  <2> QED BY <2>1, <2>3, ListedFrame
<1>8. CASE CollectLocal \/ CollectAnswer
  <2>1. OpenStays /\ UNCHANGED <<adding, tpc>>
    BY <1>8 DEF CollectLocal, CollectAnswer, OpenStays
  <2>2. pos \in DOMAIN servs /\ servs[pos] \in Entries
    BY <1>0, <1>8 DEF CollectLocal, CollectAnswer, TypeOK
  <2>3. SamePlaces
    <3>1. CASE CollectLocal
      <4>1. PICK l \in Loads : servs' = [servs EXCEPT ![pos].load = l]
        BY <3>1 DEF CollectLocal
      <4> QED BY <1>0, <2>2, <4>1 DEF SamePlaces, Entries
    <3>2. CASE CollectAnswer
      BY <1>0, <2>2, <3>2 DEF CollectAnswer, SamePlaces, Entries
    <3> QED BY <1>8, <3>1, <3>2
  <2> QED BY <2>1, <2>3, ListedFrame
<1>9. CASE CollectNothing
  <2> DEFINE s == servs[pos].srv
  <2>1. pos \in DOMAIN servs /\ servs[pos] \in Entries /\ s \in Slaves
    BY <1>0, <1>9 DEF CollectNothing, TypeOK, Servers
  <2>2. UNCHANGED <<adding, tpc>> /\ tpc = "collect"
    BY <1>9 DEF CollectNothing
  <2>3. CASE UNCHANGED conn /\ servs' = [servs EXCEPT ![pos].faild = @ + 1]
    <3>1. SamePlaces
      BY <1>0, <2>1, <2>3 DEF SamePlaces, Entries
    <3>2. OpenStays
      BY <2>3 DEF OpenStays
    <3> QED BY <2>2, <3>1, <3>2, ListedFrame
  <2>4. CASE conn' = [conn EXCEPT ![s] = "closed"] /\ servs' = Without(servs, pos)
    <3>1. \A k \in DOMAIN servs' :
             /\ k < pos => k \in DOMAIN servs /\ servs'[k] = servs[k]
             /\ k >= pos => k + 1 \in DOMAIN servs /\ servs'[k] = servs[k + 1]
      BY <1>0, <2>1, <2>4, WithoutElements
    <3>2. DOMAIN servs' \subseteq Int /\ pos \in Int
      BY <1>0, <2>1, <2>4, WithoutElements DEF TypeOK
    <3>3. \A i, j \in DOMAIN servs' : servs'[i].srv = servs'[j].srv => i = j
      <4> SUFFICES ASSUME NEW i \in DOMAIN servs', NEW j \in DOMAIN servs',
                          servs'[i].srv = servs'[j].srv
                   PROVE  i = j
        OBVIOUS
      <4> DEFINE at(k) == IF k < pos THEN k ELSE k + 1
      <4>1. /\ at(i) \in DOMAIN servs /\ servs'[i] = servs[at(i)]
            /\ at(j) \in DOMAIN servs /\ servs'[j] = servs[at(j)]
        BY <3>1, <3>2
      <4>2. at(i) = at(j)
        BY <4>1 DEF ListedOpen
      <4> QED BY <3>2, <4>2
    <3>4. \A k \in DOMAIN servs' : servs'[k].srv # s
      <4> SUFFICES ASSUME NEW k \in DOMAIN servs' PROVE servs'[k].srv # s
        OBVIOUS
      <4> DEFINE i == IF k < pos THEN k ELSE k + 1
      <4>1. i \in DOMAIN servs /\ servs'[k] = servs[i] /\ i # pos
        BY <3>1, <3>2
      <4> QED BY <2>1, <4>1 DEF ListedOpen
    <3>5. \A k \in DOMAIN servs' :
             /\ servs'[k].srv # Local => conn'[servs'[k].srv] \in {"open", "left", "reset"}
             /\ servs'[k].srv # adding'
      <4> SUFFICES ASSUME NEW k \in DOMAIN servs'
                   PROVE  /\ servs'[k].srv # Local => conn'[servs'[k].srv] \in {"open", "left", "reset"}
                          /\ servs'[k].srv # adding'
        OBVIOUS
      <4> DEFINE i == IF k < pos THEN k ELSE k + 1
      <4>1. i \in DOMAIN servs /\ servs'[k] = servs[i]
        BY <3>1, <3>2
      <4> HIDE DEF i
      <4>2. servs[i].srv \in Servers /\ servs[i].srv # s
        BY <1>0, <3>4, <4>1
      <4> QED BY <1>0, <2>1, <2>2, <2>4, <4>1, <4>2 DEF ListedOpen, Servers
    <3>6. adding # s
      BY <2>1 DEF ListedOpen
    <3>7. AddingOpen'
      BY <1>0, <2>1, <2>2, <2>4, <3>6 DEF AddingOpen, TypeOK
    <3> QED BY <3>3, <3>5, <3>7 DEF ListedOpen
  <2> QED BY <1>9, <2>3, <2>4 DEF CollectNothing
<1>10. CASE Sort
  <2>1. PICK p \in [DOMAIN servs -> DOMAIN servs] :
           /\ \A i, j \in DOMAIN servs : p[i] = p[j] => i = j
           /\ servs' = [i \in DOMAIN servs |-> servs[p[i]]]
    BY <1>10 DEF Sort
  <2>2. UNCHANGED <<conn, adding>> /\ tpc' # "start"
    BY <1>10 DEF Sort
  <2>3. \A i, j \in DOMAIN servs' : servs'[i].srv = servs'[j].srv => i = j
    BY <2>1 DEF ListedOpen
  <2>4. \A i \in DOMAIN servs' :
           /\ servs'[i].srv # Local => conn[servs'[i].srv] \in {"open", "left", "reset"}
           /\ servs'[i].srv # adding
    BY <2>1 DEF ListedOpen
  <2> QED BY <2>2, <2>3, <2>4 DEF ListedOpen, AddingOpen
<1>11. CASE CloseAll
  <2>1. servs' = <<>> /\ UNCHANGED <<adding, tpc>> /\ DOMAIN (<<>>) = {}
    BY <1>11 DEF CloseAll
  <2>2. adding # None => conn'[adding] = conn[adding]
    <3>1. \A i \in DOMAIN servs : servs[i].srv # adding
      BY DEF ListedOpen
    <3> QED BY <1>0, <1>11, <3>1 DEF CloseAll, TypeOK
  <2> QED BY <2>1, <2>2 DEF ListedOpen, AddingOpen
<1>12. ASSUME NEW w \in Workers, GetIp(w) \/ ServerFit(w) PROVE ListedOpen' /\ AddingOpen'
  BY <1>12 DEF GetIp, ServerFit, ListedOpen, AddingOpen
<1>13. CASE RaceCrash \/ Interrupt \/ Join \/ UNCHANGED vars
  BY <1>13 DEF RaceCrash, Interrupt, Join, vars, ListedOpen, AddingOpen
<1> QED
  BY <1>1, <1>2, <1>3, <1>4, <1>5, <1>6, <1>7, <1>8, <1>9, <1>10, <1>11, <1>12, <1>13
  DEF Next, TickStep, LoopStep, SignalStep
-----------------------------------------------------------------------------
(* The order of the list.                                                  *)

LEMMA OrderedStep ==
  ASSUME TypeOK, Ordered, [Next]_vars
  PROVE  Ordered'
<1> USE ServersAssumption
<1> USE DEF listVars, netVars, loopVars, workerVars, Servers
<1>0. servs \in Seq(Entries)
  BY DEF TypeOK
<1>1. CASE UNCHANGED servs /\ (Settled' => Settled)
  BY <1>1 DEF Ordered, Settled, Ascending
<1>2. CASE PushServ
  <2>1. CASE UNCHANGED servs
    BY <1>2, <2>1 DEF PushServ, Ordered, Settled, Ascending
  <2>2. CASE servs' = Append(servs, Entry(adding))
    <3>1. adding \in Servers /\ UNCHANGED tpc
      BY <1>2 DEF PushServ, TypeOK
    <3>2. Ascending(servs) => Ascending(servs')
      BY <1>0, <2>2, <3>1, NewcomerLast
    <3> QED BY <3>1, <3>2 DEF Ordered, Settled, Ascending
  <2> QED BY <1>2, <2>1, <2>2 DEF PushServ
<1>3. CASE TickStart
  <2>1. tpc = "start" /\ (UNCHANGED servs \/ servs' = Append(servs, Entry(Local)))
    BY <1>3 DEF TickStart
  <2>2. Ascending(servs)
    BY <2>1 DEF Ordered, Settled
  <2>3. Ascending(servs')
    BY <1>0, <2>1, <2>2, NewcomerLast
  <2> QED BY <2>3 DEF Ordered, Ascending
<1>4. CASE CollectLocal \/ CollectAnswer \/ CollectNothing
  BY <1>4 DEF CollectLocal, CollectAnswer, CollectNothing, Ordered, Settled
<1>5. CASE Sort
  <2>1. Ascending(servs')
    BY <1>5 DEF Sort
  <2> QED BY <2>1 DEF Ordered, Ascending
<1>6. CASE CloseAll
  <2>1. servs' = <<>>
    BY <1>6 DEF CloseAll
  <2> QED BY <2>1 DEF Ordered, Ascending
<1>7. ASSUME NEW s \in Slaves, Connect(s) \/ Answer(s) \/ Leave(s) \/ Accept(s) PROVE Ordered'
  BY <1>1, <1>7 DEF Connect, Answer, Leave, Accept, Settled
<1>8. CASE LockServs \/ TickCheck \/ SendQuery \/ EndSend \/ Sleep \/ EndCollect \/ Wait
  BY <1>1, <1>8 DEF LockServs, TickCheck, SendQuery, EndSend, Sleep, EndCollect, Wait, Settled
<1>9. ASSUME NEW w \in Workers, GetIp(w) \/ ServerFit(w) PROVE Ordered'
  BY <1>1, <1>9 DEF GetIp, ServerFit, Settled
<1>10. CASE RaceCrash \/ Interrupt \/ Join \/ UNCHANGED vars
  BY <1>1, <1>10 DEF RaceCrash, Interrupt, Join, vars, Settled
<1> QED
  BY <1>2, <1>3, <1>4, <1>5, <1>6, <1>7, <1>8, <1>9, <1>10
  DEF Next, TickStep, LoopStep, SignalStep
-----------------------------------------------------------------------------
(* A prompt slave is not evicted.                                          *)

\* The step neither sends nor collects, and only adds servers that have missed
\* nothing.
NothingMissed ==
  /\ tpc' = tpc \/ tpc' \in {"check", "exit"}
  /\ UNCHANGED pos
  /\ \A i \in DOMAIN servs' : (i \in DOMAIN servs /\ servs'[i] = servs[i]) \/ servs'[i].faild = 0
PromptStays ==
  \A s \in Prompt : /\ asked'[s] = asked[s] /\ inbox'[s] = inbox[s]
                    /\ conn'[s] \in {"left", "reset", "closed"} => conn'[s] = conn[s]

LEMMA PromptFrame ==
  ASSUME PromptKept, PromptAsked, NothingMissed, PromptStays, sig = "exit" => sig' = "exit"
  PROVE  PromptKept' /\ PromptAsked'
<1>1. PromptKept'
  BY DEF PromptKept, NothingMissed, PromptStays
<1>2. \A s \in Prompt : conn'[s] \notin {"left", "reset"}
  BY DEF PromptAsked, PromptStays
<1>3. \A i \in DOMAIN servs' : servs'[i].srv \in Prompt /\ servs'[i].faild > 0 =>
        i \in DOMAIN servs /\ servs'[i] = servs[i]
  BY DEF NothingMissed
<1>4. PromptAsked'
  BY <1>2, <1>3 DEF PromptAsked, NothingMissed, PromptStays
<1> QED BY <1>1, <1>4

LEMMA PromptStep ==
  ASSUME TypeOK, ListedOpen, PromptKept, PromptAsked, [Next]_vars
  PROVE  PromptKept' /\ PromptAsked'
<1> USE ServersAssumption
<1> USE DEF listVars, netVars, loopVars, workerVars
<1>0. /\ servs \in Seq(Entries)
      /\ conn \in [Slaves -> {"off", "queued", "open", "left", "reset", "closed"}]
      /\ asked \in [Slaves -> BOOLEAN] /\ inbox \in [Slaves -> Loads \cup {None}]
      /\ pos \in Nat \ {0}
  BY DEF TypeOK
<1>e. \A i \in DOMAIN servs : servs[i] \in Entries /\ servs[i].faild \in Nat
  <2>1. \A i \in DOMAIN servs : servs[i] \in Entries
    BY <1>0
  <2> QED BY <2>1 DEF Entries
<1>1. ASSUME NEW s \in Slaves, Connect(s) \/ Leave(s) \/ Accept(s) PROVE PromptKept' /\ PromptAsked'
  <2>1. NothingMissed /\ UNCHANGED <<asked, inbox, sig>>
    BY <1>1 DEF Connect, Leave, Accept, NothingMissed
  <2>2. PromptStays
    BY <1>0, <1>1, <2>1 DEF Connect, Leave, Accept, PromptStays
  <2> QED BY <2>1, <2>2, PromptFrame
<1>2. ASSUME NEW s \in Slaves, Answer(s) PROVE PromptKept' /\ PromptAsked'
  <2>1. PICK l \in Loads : inbox' = [inbox EXCEPT ![s] = IF @ = None THEN l ELSE @]
    BY <1>2 DEF Answer
  <2>2. asked' = [asked EXCEPT ![s] = FALSE] /\ UNCHANGED <<servs, conn, tpc, pos, sig>>
    BY <1>2 DEF Answer
  <2>3. \A q \in Slaves : /\ inbox[q] # None => inbox'[q] # None
                          /\ asked[q] => asked'[q] \/ inbox'[q] # None
    BY <1>0, <2>1, <2>2, LoadsAssumption
  <2>4. PromptKept'
    BY <2>2 DEF PromptKept
  <2>5. PromptAsked'
    BY <2>2, <2>3 DEF PromptAsked
  <2> QED BY <2>4, <2>5
<1>3. CASE LockServs \/ RaceCrash \/ Interrupt \/ Join \/ UNCHANGED vars
  <2>1. NothingMissed /\ PromptStays /\ (sig = "exit" => sig' = "exit")
    BY <1>3 DEF LockServs, RaceCrash, Interrupt, Join, vars, Up, LoopUp, NothingMissed, PromptStays
  <2> QED BY <2>1, PromptFrame
<1>4. ASSUME NEW w \in Workers, GetIp(w) \/ ServerFit(w) PROVE PromptKept' /\ PromptAsked'
  <2>1. NothingMissed /\ PromptStays /\ UNCHANGED sig
    BY <1>4 DEF GetIp, ServerFit, NothingMissed, PromptStays
  <2> QED BY <2>1, PromptFrame
<1>5. CASE PushServ \/ TickStart
  <2>1. PICK s \in Servers : UNCHANGED servs \/ servs' = Append(servs, Entry(s))
    BY <1>5 DEF PushServ, TickStart, TypeOK, Servers
  <2>2. Entry(s) \in Entries /\ Entry(s).faild = 0
    BY EntryType DEF Entry
  <2>3. \A i \in DOMAIN servs' : (i \in DOMAIN servs /\ servs'[i] = servs[i]) \/ servs'[i].faild = 0
    BY <1>0, <2>1, <2>2, AppendElements
  <2>4. NothingMissed /\ PromptStays /\ UNCHANGED sig
    BY <1>5, <2>3 DEF PushServ, TickStart, NothingMissed, PromptStays
  <2> QED BY <2>4, PromptFrame
<1>6. CASE TickCheck
  <2>1. tpc' \in {"send", "exit"} /\ pos' = 1 /\ UNCHANGED <<servs, conn, sig>>
    BY <1>6 DEF TickCheck
  <2>2. \A i \in DOMAIN servs : ~(i < 1)
    BY <1>0
  <2> QED BY <2>1, <2>2 DEF PromptKept, PromptAsked
<1>7. CASE SendQuery
  <2> DEFINE s == servs[pos].srv
  <2>1. pos \in DOMAIN servs /\ tpc = "send" /\ pos' = pos + 1
        /\ UNCHANGED <<servs, inbox, tpc, sig>>
    BY <1>0, <1>7 DEF SendQuery
  <2>2. \A q \in Prompt : conn'[q] = conn[q]
    BY <1>0, <1>7 DEF SendQuery, PromptAsked
  <2>3. \A q \in Slaves : asked[q] => asked'[q]
    BY <1>0, <1>7 DEF SendQuery
  <2>4. s \in Prompt => asked'[s]
    <3>1. s \in Prompt => s # Local /\ conn[s] = "open"
      BY <2>1 DEF ListedOpen, PromptAsked
    <3> QED BY <1>0, <1>7, <3>1 DEF SendQuery
  <2>5. \A i \in DOMAIN servs : i < pos + 1 => i < pos \/ i = pos
    BY <1>0
  <2>6. PromptKept'
    BY <2>1, <2>2 DEF PromptKept
  <2>7. PromptAsked'
    BY <2>1, <2>2, <2>3, <2>4, <2>5 DEF PromptAsked
  <2> QED BY <2>6, <2>7
<1>8. CASE EndSend
  <2>1. tpc = "send" /\ tpc' = "sleep" /\ UNCHANGED <<servs, netVars, pos, sig>>
    BY <1>8 DEF EndSend
  <2>2. \A i \in DOMAIN servs : i < pos
    BY <1>0, <1>8 DEF EndSend
  <2> QED BY <2>1, <2>2 DEF PromptKept, PromptAsked
<1>9. CASE Sleep
  <2>1. tpc = "sleep" /\ tpc' = "collect" /\ UNCHANGED <<servs, netVars, sig>>
        /\ \A q \in Prompt : ~asked[q]
    BY <1>9 DEF Sleep
  <2> QED BY <2>1 DEF PromptKept, PromptAsked
<1>10. CASE CollectLocal
  <2>1. PICK l \in Loads : servs' = [servs EXCEPT ![pos].load = l]
    BY <1>10 DEF CollectLocal
  <2>2. pos \in DOMAIN servs
    BY <1>0, <1>10 DEF CollectLocal
  <2>3. tpc = "collect" /\ pos' = pos + 1 /\ UNCHANGED <<netVars, tpc, sig>>
    BY <1>10 DEF CollectLocal
  <2>4. DOMAIN servs' = DOMAIN servs
        /\ \A i \in DOMAIN servs : servs'[i].srv = servs[i].srv /\ servs'[i].faild = servs[i].faild
    BY <1>0, <1>e, <2>1, <2>2 DEF Entries
  <2>5. \A i \in DOMAIN servs : i >= pos + 1 => i >= pos
    BY <1>0
  <2>6. PromptKept'
    BY <2>3, <2>4 DEF PromptKept
  <2>7. PromptAsked'
    BY <2>3, <2>4, <2>5 DEF PromptAsked
  <2> QED BY <2>6, <2>7
<1>11. CASE CollectAnswer
  <2> DEFINE s == servs[pos].srv
             x == [servs[pos] EXCEPT !.load = inbox[s], !.faild = 0]
  <2>1. pos \in DOMAIN servs /\ tpc = "collect" /\ pos' = pos + 1
        /\ UNCHANGED <<conn, asked, tpc, sig>>
    BY <1>0, <1>11 DEF CollectAnswer
  <2>2. servs' = [servs EXCEPT ![pos] = x] /\ inbox' = [inbox EXCEPT ![s] = None]
    BY <1>11 DEF CollectAnswer
  <2>3. x.srv = s /\ x.faild = 0
    BY <1>e, <2>1 DEF Entries
  <2> HIDE DEF x
  <2>4. DOMAIN servs' = DOMAIN servs
        /\ servs'[pos].faild = 0
        /\ \A i \in DOMAIN servs : i # pos => servs'[i] = servs[i]
    BY <1>0, <2>1, <2>2, <2>3
  <2>5. \A i \in DOMAIN servs : i # pos => servs[i].srv # s
    BY <2>1 DEF ListedOpen
  <2>6. \A i \in DOMAIN servs : i # pos /\ servs[i].srv \in Slaves =>
           inbox'[servs[i].srv] = inbox[servs[i].srv]
    BY <1>0, <2>2, <2>5
  <2>7. \A i \in DOMAIN servs : i >= pos + 1 => i >= pos /\ i # pos
    BY <1>0
  <2>8. PromptKept'
    BY <2>1, <2>4 DEF PromptKept
  <2>9. PromptAsked'
    BY <2>1, <2>4, <2>6, <2>7 DEF PromptAsked
  <2> QED BY <2>8, <2>9
<1>12. CASE CollectNothing
  <2> DEFINE s == servs[pos].srv
  <2>1. /\ pos \in DOMAIN servs /\ tpc = "collect" /\ inbox[s] = None /\ s # Local
        /\ UNCHANGED <<asked, inbox, tpc, sig>>
    BY <1>0, <1>12 DEF CollectNothing
  <2>2. s \in Slaves
    BY <1>e, <2>1 DEF Entries, Servers
  <2>3. s \in Prompt => servs[pos].faild = 0
    BY <1>0, <1>e, <2>1 DEF PromptAsked
  <2>4. CASE /\ servs[pos].faild + 1 >= MaxFaild
             /\ conn' = [conn EXCEPT ![s] = "closed"]
             /\ servs' = Without(servs, pos) /\ UNCHANGED pos
    <3>1. s \notin Prompt
      BY <2>3, <2>4, MaxFaildAssumption
    <3>2. \A q \in Prompt : conn'[q] = conn[q]
      BY <1>0, <2>4, <3>1
    <3>3. \A k \in DOMAIN servs' :
             /\ k < pos => k \in DOMAIN servs /\ servs'[k] = servs[k]
             /\ k >= pos => k + 1 \in DOMAIN servs /\ servs'[k] = servs[k + 1]
      BY <1>0, <2>1, <2>4, WithoutElements
    <3>4. DOMAIN servs' \subseteq Int
      <4>1. servs' \in Seq(Entries)
        BY <1>0, <2>1, <2>4, WithoutElements
      <4> QED BY <4>1
    <3>5. \A k \in DOMAIN servs' : \E i \in DOMAIN servs :
             servs'[k] = servs[i] /\ (k >= pos => i >= pos)
      <4> SUFFICES ASSUME NEW k \in DOMAIN servs'
                   PROVE  \E i \in DOMAIN servs : servs'[k] = servs[i] /\ (k >= pos => i >= pos)
        OBVIOUS
      <4>1. CASE k < pos
        BY <1>0, <3>3, <3>4, <4>1
      <4>2. CASE k >= pos
        <5>1. k + 1 \in DOMAIN servs /\ servs'[k] = servs[k + 1] /\ k + 1 >= pos
          BY <1>0, <3>3, <3>4, <4>2
        <5> QED BY <5>1
      <4> QED BY <1>0, <3>4, <4>1, <4>2
    <3>6. PromptKept'
      BY <2>1, <3>2, <3>5 DEF PromptKept
    <3>7. PromptAsked'
      BY <2>1, <2>4, <3>2, <3>5 DEF PromptAsked
    <3> QED BY <3>6, <3>7
  <2>5. CASE /\ servs' = [servs EXCEPT ![pos].faild = @ + 1]
             /\ pos' = pos + 1 /\ UNCHANGED conn
    <3>1. /\ DOMAIN servs' = DOMAIN servs
          /\ servs'[pos].srv = s /\ servs'[pos].faild = servs[pos].faild + 1
          /\ \A i \in DOMAIN servs : i # pos => servs'[i] = servs[i]
      BY <1>0, <1>e, <2>1, <2>5 DEF Entries
    <3>2. \A i \in DOMAIN servs : i >= pos + 1 => i >= pos /\ i # pos
      BY <1>0
    <3>3. s \in Prompt => servs'[pos].faild = 1
      BY <2>3, <3>1
    <3>4. PromptKept'
      BY <2>1, <2>5, <3>1, <3>3 DEF PromptKept
    <3>5. PromptAsked'
      BY <2>1, <2>5, <3>1, <3>2 DEF PromptAsked
    <3> QED BY <3>4, <3>5
  <2> QED BY <1>12, <2>4, <2>5 DEF CollectNothing
<1>13. CASE EndCollect \/ Wait
  <2>1. tpc' \in {"sort", "check"} /\ UNCHANGED <<servs, conn, sig>>
    BY <1>13 DEF EndCollect, Wait
  <2> QED BY <2>1 DEF PromptKept, PromptAsked
<1>14. CASE Sort
  <2>1. PICK p \in [DOMAIN servs -> DOMAIN servs] : servs' = [i \in DOMAIN servs |-> servs[p[i]]]
    BY <1>14 DEF Sort
  <2>2. tpc' = "wait" /\ UNCHANGED <<conn, sig>>
    BY <1>14 DEF Sort
  <2>3. \A i \in DOMAIN servs' : \E j \in DOMAIN servs : servs'[i] = servs[j]
    BY <2>1
  <2> QED BY <2>2, <2>3 DEF PromptKept, PromptAsked
<1>15. CASE CloseAll
  <2>1. servs' = <<>> /\ sig' = "exit" /\ DOMAIN (<<>>) = {}
    BY <1>15 DEF CloseAll
  <2>2. \A q \in Prompt : conn'[q] \notin {"left", "reset"}
    BY <1>15 DEF CloseAll, PromptAsked
  <2> QED BY <2>1, <2>2 DEF PromptKept, PromptAsked
<1> QED
  BY <1>1, <1>2, <1>3, <1>4, <1>5, <1>6, <1>7, <1>8, <1>9, <1>10, <1>11, <1>12, <1>13, <1>14, <1>15
  DEF Next, TickStep, LoopStep, SignalStep
-----------------------------------------------------------------------------
(* The theorems.                                                           *)

LEMMA InvStart == Init => Inv
<1> SUFFICES ASSUME Init PROVE Inv
  OBVIOUS
<1> USE ServersAssumption, LoadsAssumption
<1>1. TypeOK
  <2>1. servs \in Seq(Entries)
    BY DEF Init
  <2>2. /\ servsMut = FALSE /\ ifRun = TRUE /\ alive = TRUE
        /\ tpc = "start" /\ pos = 1 /\ lpc = "idle" /\ adding = None /\ sig = "none"
    BY DEF Init
  <2>3. /\ asked \in [Slaves -> BOOLEAN]
        /\ conn \in [Slaves -> {"off", "queued", "open", "left", "reset", "closed"}]
    BY DEF Init
  <2>4. /\ inbox \in [Slaves -> Loads \cup {None}]
        /\ wpc \in [Workers -> {"idle", "front"}]
        /\ fit \in [Workers -> Servers \cup {None}]
    BY DEF Init
  <2>5. /\ servsMut <=> (lpc = "push")
        /\ (adding = None) <=> (lpc = "idle")
        /\ ifRun <=> (sig = "none")
    BY <2>2
  <2>6. /\ servsMut \in BOOLEAN /\ ifRun \in BOOLEAN /\ alive \in BOOLEAN
        /\ tpc \in TickPCs
        /\ lpc \in {"idle", "lock", "push"} /\ adding \in Slaves \cup {None}
        /\ sig \in {"none", "join", "close", "exit"}
    BY <2>2 DEF TickPCs
  <2>7. pos \in Nat \ {0}
    BY <2>2
  <2> QED BY <2>1, <2>3, <2>4, <2>5, <2>6, <2>7 DEF TypeOK
<1>2. DOMAIN servs = {} /\ adding = None /\ tpc = "start"
      /\ \A s \in Slaves : conn[s] = "off"
  BY DEF Init
<1>3. ListedOpen /\ AddingOpen /\ Ordered
  BY <1>2 DEF ListedOpen, AddingOpen, Ordered, Ascending
<1>4. PromptKept /\ PromptAsked
  BY <1>2 DEF PromptKept, PromptAsked
<1> QED BY <1>1, <1>3, <1>4 DEF Inv

LEMMA InvStep == Inv /\ [Next]_vars => Inv'
<1> SUFFICES ASSUME Inv, [Next]_vars PROVE Inv'
  OBVIOUS
<1>1. TypeOK'
  BY TypeStep DEF Inv
<1>2. ListedOpen' /\ AddingOpen'
  BY ListedStep DEF Inv
<1>3. Ordered'
  BY OrderedStep DEF Inv
<1>4. PromptKept' /\ PromptAsked'
  BY PromptStep DEF Inv
<1> QED BY <1>1, <1>2, <1>3, <1>4 DEF Inv

LEMMA InvAlways == Spec => []Inv
BY InvStart, InvStep, PTL DEF Spec

\* The types, and who holds servsMut, whatever the threads do.
THEOREM TypeCorrect == Spec => []TypeOK
<1>1. Inv => TypeOK
  BY DEF Inv
<1> QED BY <1>1, InvAlways, PTL

\* The servers of the list are distinct, their sockets are open on this side,
\* and so close() is never called twice for one of them.
THEOREM ListMatchesSockets == Spec => []ListedOpen
<1>1. Inv => ListedOpen
  BY DEF Inv
<1> QED BY <1>1, InvAlways, PTL

\* Pushes between two sorts leave the list sorted.
THEOREM ListStaysSorted == Spec => []Ordered
<1>1. Inv => Ordered
  BY DEF Inv
<1> QED BY <1>1, InvAlways, PTL

\* A slave that answers within the second is never evicted.
THEOREM PromptSlavesStay == Spec => []PromptKept
<1>1. Inv => PromptKept
  BY DEF Inv
<1> QED BY <1>1, InvAlways, PTL

\* A client is told of a least loaded server, the collection and the sort aside.
THEOREM ClientsGetTheLeastLoaded == Spec => FitLeast
<1> DEFINE Fit == \A w \in Workers : wpc[w] = "front" /\ wpc'[w] = "idle" /\ Settled /\ servs # <<>>
                    => \E i \in DOMAIN servs : /\ servs[i].srv = fit'[w]
                                               /\ \A j \in DOMAIN servs : servs[i].load <= servs[j].load
<1>1. Inv /\ [Next]_vars => [Fit]_vars
  <2> SUFFICES ASSUME Inv, [Next]_vars, NEW w \in Workers,
                      wpc[w] = "front", wpc'[w] = "idle", Settled, servs # <<>>
               PROVE  \E i \in DOMAIN servs : /\ servs[i].srv = fit'[w]
                                              /\ \A j \in DOMAIN servs : servs[i].load <= servs[j].load
    OBVIOUS
  <2>1. wpc \in [Workers -> {"idle", "front"}] /\ fit \in [Workers -> Servers \cup {None}]
        /\ servs \in Seq(Entries)
    BY DEF Inv, TypeOK
  <2>2. wpc' # wpc
    OBVIOUS
  <2>3. ServerFit(w)
    <3>1. ASSUME NEW v \in Workers, GetIp(v) PROVE FALSE
      BY <2>1, <3>1 DEF GetIp
    <3>2. ASSUME NEW v \in Workers, ServerFit(v), v # w PROVE FALSE
      BY <2>1, <3>2 DEF ServerFit
    <3>3. \E v \in Workers : GetIp(v) \/ ServerFit(v)
      BY <2>2 DEF Next, TickStep, LoopStep, SignalStep, vars, listVars, netVars, loopVars, workerVars,
                  Connect, Answer, Leave, Accept, LockServs, PushServ, TickStart, TickCheck,
                  SendQuery, EndSend, Sleep, CollectLocal, CollectAnswer, CollectNothing,
                  EndCollect, Sort, Wait, RaceCrash, Interrupt, Join, CloseAll
    <3> QED BY <3>1, <3>2, <3>3
  <2>4. tpc \notin {"collect", "sort"}
    BY DEF Settled
  <2>5. fit'[w] = servs[1].srv
    BY <2>1, <2>3, <2>4 DEF ServerFit
  <2>6. 1 \in DOMAIN servs
    BY <2>1
  <2>7. \A j \in DOMAIN servs : servs[1].load <= servs[j].load
    <3>1. servs[1].load \in Nat
      <4>1. servs[1] \in Entries
        BY <2>1, <2>6
      <4> QED BY <4>1, LoadsAssumption DEF Entries
    <3>2. \A j \in DOMAIN servs : j = 1 \/ 1 < j
      BY <2>1
    <3>3. Ascending(servs)
      BY DEF Inv, Ordered
    <3> QED BY <2>6, <3>1, <3>2, <3>3 DEF Ascending
  <2> QED BY <2>5, <2>6, <2>7
<1> QED BY <1>1, InvAlways, PTL DEF Spec, FitLeast
=============================================================================
