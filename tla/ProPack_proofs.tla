--------------------------- MODULE ProPack_proofs ---------------------------
(***************************************************************************)
(* Proofs about ProPack, for every base, packets and checksum table that   *)
(* has no number twice: types; that parseFrom returns what generate made,  *)
(* however the stream is cut; that it sees a damaged byte.  And about what *)
(* the packets of an EXEC carry (Wire).                                    *)
(***************************************************************************)
EXTENDS ProPack, Wire, SequenceTheorems, FiniteSetTheorems, WellFoundedInduction, TLAPS

\* A byte is a number, and the base at least two.
LEMMA BaseFacts ==
  /\ Base \in Nat /\ Base >= 2
  /\ MIN_SIZE \in Nat /\ MIN_SIZE >= 6 /\ NO_CRC_LENGTH = 4
  /\ MAX_LEN \in Nat
<1>1. Base \in Nat /\ Base >= 2
  BY BaseAssumption
<1>2. Base * Base >= 1 /\ Base * Base \in Nat
  BY <1>1, SMT
<1> QED
  BY <1>1, <1>2, SMT DEF MIN_SIZE, NO_CRC_LENGTH, MAX_LEN

-----------------------------------------------------------------------------
(* The checksum.  CRC8 is a recursive function: what it is of every        *)
(* sequence is shown by induction, over sets of natural numbers.           *)

\* A set of natural numbers that is not empty has a least element.
LEMMA Least ==
  ASSUME NEW T \in SUBSET Nat, T # {}
  PROVE  \E n \in T : \A m \in T : n <= m
<1> DEFINE R == OpToRel(<, Nat)
<1>1. IsWellFoundedOn(R, Nat)
  BY NatLessThanWellFounded, Zenon
<1>2. \A m, n \in Nat : m < n => <<m, n>> \in R
  BY DEF OpToRel
<1> HIDE DEF R
<1>3. PICK n \in T : \A m \in T : <<m, n>> \notin R
  BY <1>1, WFMin
<1>4. ASSUME NEW m \in T PROVE n <= m
  <2>1. m \in Nat /\ n \in Nat /\ ~(m < n)
    BY <1>2, <1>3
  <2> QED
    BY <2>1
<1> QED
  BY <1>4

\* Induction, over a set: what holds of zero and is kept by adding one holds of all.
LEMMA Induction ==
  ASSUME NEW T, 0 \in T, \A n \in Nat : n \in T => n + 1 \in T
  PROVE  Nat \subseteq T
<1> SUFFICES ASSUME Nat \ T # {} PROVE FALSE
  OBVIOUS
<1>1. PICK n \in Nat \ T : \A m \in Nat \ T : n <= m
  BY Least
<1>2. n # 0 /\ n - 1 \in Nat /\ n - 1 \in T
  BY <1>1
<1> QED
  BY <1>1, <1>2

\* f[n] is the checksum of the first n bytes of s, for n up to l.
Checksums(f, s, l) ==
  /\ f \in [0 .. l -> Byte]
  /\ f[0] = 0
  /\ \A n \in 1 .. l : f[n] = CrcStep[f[n - 1]][s[n]]

\* As many bytes as a sequence has, so many checksums there are.
LEMMA ChecksumsExist ==
  ASSUME NEW s \in Seq(Byte), NEW l \in 0 .. Len(s)
  PROVE  \E f : Checksums(f, s, l)
<1> DEFINE T == {n \in Nat : n <= Len(s) => \E f : Checksums(f, s, n)}
<1>0. Len(s) \in Nat
  OBVIOUS
<1>1. 0 \in T
  <2> DEFINE f == [n \in 0 .. 0 |-> 0]
  <2>1. 0 \in Byte
    BY BaseAssumption, SMT DEF Byte
  <2>2. f \in [0 .. 0 -> Byte] /\ f[0] = 0
    BY <2>1
  <2>3. Checksums(f, s, 0)
    BY <2>2, SMT DEF Checksums
  <2> QED
    BY <2>3
<1>2. ASSUME NEW n \in Nat, n \in T PROVE n + 1 \in T
  <2> SUFFICES ASSUME n + 1 <= Len(s) PROVE \E f : Checksums(f, s, n + 1)
    OBVIOUS
  <2>1. PICK g : Checksums(g, s, n)
    BY <1>0, <1>2
  <2> DEFINE f == [i \in 0 .. n + 1 |-> IF i = n + 1 THEN CrcStep[g[n]][s[n + 1]] ELSE g[i]]
  <2>2. s[n + 1] \in Byte /\ g[n] \in Byte
    BY <1>0, <2>1 DEF Checksums
  <2>3. CrcStep[g[n]][s[n + 1]] \in Byte
    BY <2>2, CrcAssumption
  <2>4. f \in [0 .. n + 1 -> Byte]
    <3> SUFFICES ASSUME NEW i \in 0 .. n + 1, i # n + 1 PROVE g[i] \in Byte
      BY <2>3
    <3>1. i \in 0 .. n
      OBVIOUS
    <3> QED
      BY <3>1, <2>1 DEF Checksums
  <2>5. f[0] = 0
    BY <2>1 DEF Checksums
  <2>6. ASSUME NEW i \in 1 .. n + 1 PROVE f[i] = CrcStep[f[i - 1]][s[i]]
    <3>1. f[i - 1] = g[i - 1]
      OBVIOUS
    <3>2. CASE i = n + 1
      <4>1. f[n + 1] = CrcStep[g[n]][s[n + 1]] /\ i - 1 = n
        BY <3>2
      <4> QED
        BY <3>1, <3>2, <4>1
    <3>3. CASE i # n + 1
      <4>1. i \in 1 .. n /\ f[i] = g[i]
        BY <3>3
      <4> QED
        BY <3>1, <4>1, <2>1 DEF Checksums
    <3> QED
      BY <3>2, <3>3
  <2> HIDE DEF f
  <2>7. Checksums(f, s, n + 1)
    BY <2>4, <2>5, <2>6 DEF Checksums
  <2> QED
    BY <2>7
<1> HIDE DEF T
<1>3. Nat \subseteq T
  BY <1>1, <1>2, Induction
<1>4. l \in T /\ l <= Len(s)
  BY <1>0, <1>3
<1> QED
  BY <1>4 DEF T

\* As many bytes as an unsigned char can count, of those there are.
LEMMA CoveredFacts ==
  ASSUME NEW s \in Seq(Byte)
  PROVE  Len(s) % Base \in 0 .. Len(s)
<1>1. Len(s) \in Nat /\ Base \in Nat /\ Base >= 2
  BY BaseAssumption
<1> QED
  BY <1>1, SMT

\* CRC8 is the last of the checksums of the bytes it covers.
LEMMA ChecksumFacts ==
  ASSUME NEW s \in Seq(Byte)
  PROVE  \E f : Checksums(f, s, Len(s) % Base) /\ CRC8(s) = f[Len(s) % Base]
<1> DEFINE l == Len(s) % Base
           Crc(f) == f = [n \in 0 .. l |-> IF n = 0 THEN 0 ELSE CrcStep[f[n - 1]][s[n]]]
           crc == CHOOSE f : Crc(f)
<1>1. CRC8(s) = crc[l]
  BY DEF CRC8
<1>0. Len(s) \in Nat
  OBVIOUS
<1>2. l \in 0 .. Len(s)
  BY CoveredFacts
<1>3. PICK g : Checksums(g, s, l)
  BY <1>2, ChecksumsExist
<1> HIDE DEF l
<1>4. Crc(g)
  <2>1. ASSUME NEW n \in 0 .. l
        PROVE  g[n] = IF n = 0 THEN 0 ELSE CrcStep[g[n - 1]][s[n]]
    BY <1>3 DEF Checksums
  <2>2. g = [n \in 0 .. l |-> g[n]]
    BY <1>3 DEF Checksums
  <2> QED
    BY <2>1, <2>2, Zenon
<1>5. Crc(crc)
  BY <1>4, Zenon
<1> HIDE DEF crc
<1>6. \A n \in 0 .. l : crc[n] = IF n = 0 THEN 0 ELSE CrcStep[crc[n - 1]][s[n]]
  BY <1>5
<1> DEFINE T == {n \in Nat : n <= l => crc[n] = g[n]}
<1>7. 0 \in T
  BY <1>2, <1>3, <1>6 DEF Checksums
<1>8. ASSUME NEW n \in Nat, n \in T PROVE n + 1 \in T
  <2> SUFFICES ASSUME n + 1 <= l PROVE crc[n + 1] = g[n + 1]
    OBVIOUS
  <2>1. n + 1 \in 1 .. l /\ n + 1 \in 0 .. l /\ n + 1 # 0 /\ (n + 1) - 1 = n
    BY <1>2
  <2>2. crc[n] = g[n]
    BY <1>2, <1>8
  <2>3. crc[n + 1] = CrcStep[crc[n]][s[n + 1]]
    BY <1>6, <2>1
  <2>4. g[n + 1] = CrcStep[g[n]][s[n + 1]]
    BY <1>3, <2>1 DEF Checksums
  <2> QED
    BY <2>2, <2>3, <2>4
<1> HIDE DEF T
<1>9. Nat \subseteq T
  BY <1>7, <1>8, Induction
<1>10. l \in Nat /\ l <= l
  BY <1>0, <1>2
<1>11. crc[l] = g[l]
  BY <1>9, <1>10 DEF T
<1> QED
  BY <1>1, <1>3, <1>11 DEF l

\* A checksum is a byte.
LEMMA ChecksumByte ==
  ASSUME NEW s \in Seq(Byte)
  PROVE  CRC8(s) \in Byte
<1>1. PICK f : Checksums(f, s, Len(s) % Base) /\ CRC8(s) = f[Len(s) % Base]
  BY ChecksumFacts
<1>2. Len(s) % Base \in 0 .. Len(s) % Base
  BY CoveredFacts
<1> QED
  BY <1>1, <1>2 DEF Checksums

\* No two checksums, and no two bytes, lead to the same next checksum.
LEMMA TableFacts ==
  ASSUME NEW c \in Byte, NEW d \in Byte, NEW b \in Byte, c # d
  PROVE  CrcStep[c][b] # CrcStep[d][b] /\ CrcStep[b][c] # CrcStep[b][d]
  BY CrcAssumption, Zenon

\* One byte that is another one, among those covered, makes another checksum.
LEMMA OneByteSeen ==
  ASSUME NEW s \in Seq(Byte), NEW t \in Seq(Byte), Len(t) = Len(s),
         NEW j \in 1 .. Len(s) % Base, t[j] # s[j],
         \A i \in 1 .. Len(s) : i # j => t[i] = s[i]
  PROVE  CRC8(t) # CRC8(s)
<1> DEFINE l == Len(s) % Base
<1>1. l \in 0 .. Len(s) /\ Len(s) \in Nat
  BY CoveredFacts
<1>2. PICK f : Checksums(f, s, l) /\ CRC8(s) = f[l]
  BY ChecksumFacts
<1>3. PICK g : Checksums(g, t, l) /\ CRC8(t) = g[l]
  BY ChecksumFacts
<1> HIDE DEF l
<1>0. j \in 1 .. l
  BY DEF l
<1> DEFINE T == {n \in Nat : n <= l => (g[n] # f[n] <=> n >= j)}
<1>4. 0 \in T
  BY <1>0, <1>1, <1>2, <1>3 DEF Checksums
<1>5. ASSUME NEW n \in Nat, n \in T PROVE n + 1 \in T
  <2> SUFFICES ASSUME n + 1 <= l PROVE g[n + 1] # f[n + 1] <=> n + 1 >= j
    OBVIOUS
  <2>1. n + 1 \in 1 .. l /\ n \in 0 .. l /\ n + 1 \in 1 .. Len(s) /\ (n + 1) - 1 = n
    BY <1>1
  <2>2. g[n] # f[n] <=> n >= j
    BY <1>1, <1>5
  <2>3. f[n + 1] = CrcStep[f[n]][s[n + 1]]
    BY <1>2, <2>1 DEF Checksums
  <2>4. g[n + 1] = CrcStep[g[n]][t[n + 1]]
    BY <1>3, <2>1 DEF Checksums
  <2>5. f[n] \in Byte /\ g[n] \in Byte /\ s[n + 1] \in Byte /\ t[n + 1] \in Byte
    BY <1>2, <1>3, <2>1 DEF Checksums
  <2>6. CASE n + 1 < j
    <3>1. g[n] = f[n] /\ t[n + 1] = s[n + 1]
      BY <1>0, <2>1, <2>2, <2>6
    <3> QED
      BY <1>0, <2>3, <2>4, <2>6, <3>1
  <2>7. CASE n + 1 = j
    <3>1. g[n] = f[n] /\ t[n + 1] # s[n + 1]
      BY <2>2, <2>7
    <3>2. CrcStep[f[n]][t[n + 1]] # CrcStep[f[n]][s[n + 1]]
      BY <2>5, <3>1, TableFacts
    <3> QED
      BY <2>3, <2>4, <2>7, <3>1, <3>2
  <2>8. CASE n + 1 > j
    <3>1. g[n] # f[n] /\ t[n + 1] = s[n + 1]
      BY <1>0, <2>1, <2>2, <2>8
    <3>2. CrcStep[g[n]][s[n + 1]] # CrcStep[f[n]][s[n + 1]]
      BY <2>5, <3>1, TableFacts
    <3> QED
      BY <1>0, <2>3, <2>4, <2>8, <3>1, <3>2
  <2> QED
    BY <1>0, <2>6, <2>7, <2>8
<1> HIDE DEF T
<1>6. Nat \subseteq T
  BY <1>4, <1>5, Induction
<1>7. l \in Nat /\ l <= l /\ l >= j
  BY <1>0, <1>1
<1>8. g[l] # f[l]
  BY <1>6, <1>7 DEF T
<1> QED
  BY <1>2, <1>3, <1>8
-----------------------------------------------------------------------------
(* What is at which place of a packet.                                     *)

\* The packets short enough to be generated.
Sendable == {m \in Packets : Len(Body(m)) <= MAX_LEN}

\* A length is the number that its two bytes, low and high, make.
LEMMA TwoBytes ==
  ASSUME NEW len \in Nat, len <= MAX_LEN
  PROVE  /\ len % Base \in Byte /\ len \div Base \in Byte
         /\ Base * (len \div Base) + (len % Base) = len
<1>1. Base \in Nat /\ Base >= 2
  BY BaseAssumption
<1>2. /\ len % Base \in 0 .. Base - 1
      /\ len \div Base \in Nat
      /\ Base * (len \div Base) + (len % Base) = len
  BY <1>1, SMT
<1>3. len \div Base < Base
  <2> DEFINE q == len \div Base
  <2>1. Base * q <= len
    BY <1>1, <1>2, SMT
  <2>2. len < Base * Base
    BY <1>1, SMT DEF MAX_LEN
  <2>3. q \in Nat
    BY <1>2
  <2> HIDE DEF q
  <2>4. q < Base
    BY <1>1, <2>1, <2>2, <2>3, SMT
  <2> QED
    BY <2>4 DEF q
<1> QED
  BY <1>1, <1>2, <1>3, SMT DEF Byte

\* What is at which place of a body.
LEMMA BodyPlaces ==
  ASSUME NEW m \in [cmd : Byte, status : Byte, data : Seq(Byte)]
  PROVE  /\ Body(m) \in Seq(Byte)
         /\ Len(m.data) \in Nat
         /\ Len(Body(m)) = MIN_SIZE - NO_CRC_LENGTH + Len(m.data)
         /\ Body(m)[1] = m.cmd /\ Body(m)[2] = 0
         /\ IfAck => Body(m)[3] = m.status
         /\ \A i \in 1 .. Len(m.data) : Body(m)[MIN_SIZE - NO_CRC_LENGTH + i] = m.data[i]
<1>1. m.cmd \in Byte /\ m.status \in Byte /\ m.data \in Seq(Byte)
  OBVIOUS
<1>2. 0 \in Byte
  BY BaseFacts, SMT DEF Byte
<1>3. Len(m.data) \in Nat
  BY <1>1
<1>4. CASE IfAck
  <2>1. Body(m) = <<m.cmd, 0, m.status>> \o m.data
    BY <1>4 DEF Body
  <2>2. <<m.cmd, 0, m.status>> \in Seq(Byte)
    BY <1>1, <1>2
  <2>3. MIN_SIZE - NO_CRC_LENGTH = 3
    BY <1>4, SMT DEF MIN_SIZE, NO_CRC_LENGTH
  <2> QED
    BY <1>1, <1>3, <1>4, <2>1, <2>2, <2>3, SMT
<1>5. CASE ~IfAck
  <2>1. Body(m) = <<m.cmd, 0>> \o m.data
    BY <1>5 DEF Body
  <2>2. <<m.cmd, 0>> \in Seq(Byte)
    BY <1>1, <1>2
  <2>3. MIN_SIZE - NO_CRC_LENGTH = 2
    BY <1>5, SMT DEF MIN_SIZE, NO_CRC_LENGTH
  <2> QED
    BY <1>1, <1>3, <1>5, <2>1, <2>2, <2>3, SMT
<1> QED
  BY <1>4, <1>5

\* A packet that may be sent is made of bytes, and can be told from its body.
LEMMA BodyFacts ==
  ASSUME NEW m \in Packets
  PROVE  /\ Body(m) \in Seq(Byte)
         /\ Len(m.data) \in Nat
         /\ Len(Body(m)) = MIN_SIZE - NO_CRC_LENGTH + Len(m.data)
         /\ Body(m)[1] = m.cmd /\ Body(m)[2] = 0 /\ m.cmd \in Cmds
         /\ m.status = IF IfAck THEN Body(m)[3] ELSE 0
         /\ m.data \in Seq(Byte)
         /\ \A i \in 1 .. Len(m.data) : Body(m)[MIN_SIZE - NO_CRC_LENGTH + i] = m.data[i]
         /\ m = [cmd |-> m.cmd, status |-> m.status, data |-> m.data]
<1>1. /\ m = [cmd |-> m.cmd, status |-> m.status, data |-> m.data]
      /\ m.cmd \in Cmds /\ m.cmd \in Byte /\ m.status \in Byte /\ m.data \in Seq(Byte)
      /\ ~IfAck => m.status = 0
  BY PacketsAssumption, BytesAssumption
<1>2. m \in [cmd : Byte, status : Byte, data : Seq(Byte)]
  BY <1>1
<1> QED
  BY <1>1, <1>2, BodyPlaces

\* What is at which place of a packet.
LEMMA GeneratedFacts ==
  ASSUME NEW m \in Sendable
  PROVE  /\ Generated(m) \in Seq(Byte)
         /\ Len(Generated(m)) = Len(Body(m)) + NO_CRC_LENGTH
         /\ Len(Generated(m)) >= MIN_SIZE
         /\ Generated(m)[1] = PROTO_HEAD
         /\ Base * Generated(m)[3] + Generated(m)[2] = Len(Body(m))
         /\ \A i \in 1 .. Len(Body(m)) : Generated(m)[3 + i] = Body(m)[i]
         /\ Generated(m)[Len(Body(m)) + NO_CRC_LENGTH] = CRC8(Body(m))
<1> DEFINE body == Body(m)
           head == <<PROTO_HEAD, Len(body) % Base, Len(body) \div Base>>
           tail == <<CRC8(body)>>
<1>1. m \in Packets /\ Len(body) <= MAX_LEN
  BY DEF Sendable
<1>2. body \in Seq(Byte) /\ Len(body) \in Nat /\ Len(body) + NO_CRC_LENGTH >= MIN_SIZE
  BY <1>1, BodyFacts, BaseFacts, SMT
<1>3. head \in Seq(Byte) /\ Len(head) = 3 /\ Base * head[3] + head[2] = Len(body)
  BY <1>1, <1>2, TwoBytes, BytesAssumption
<1>4. tail \in Seq(Byte) /\ Len(tail) = 1 /\ tail[1] = CRC8(body)
  BY <1>2, ChecksumByte
<1>5. Generated(m) = head \o body \o tail
  BY DEF Generated
<1>6. head[1] = PROTO_HEAD
  OBVIOUS
<1>7. NO_CRC_LENGTH = 4
  BY BaseFacts
<1> HIDE DEF body, head, tail
<1>8. /\ head \o body \in Seq(Byte) /\ Len(head \o body) = Len(head) + Len(body)
      /\ \A i \in 1 .. Len(head) + Len(body) :
           (head \o body)[i] = IF i <= Len(head) THEN head[i] ELSE body[i - Len(head)]
  BY <1>2, <1>3, ConcatProperties, Zenon
<1>9. /\ head \o body \o tail \in Seq(Byte)
      /\ Len(head \o body \o tail) = Len(head \o body) + Len(tail)
      /\ \A i \in 1 .. Len(head \o body) + Len(tail) :
           (head \o body \o tail)[i] = IF i <= Len(head \o body) THEN (head \o body)[i]
                                                               ELSE tail[i - Len(head \o body)]
  <2> DEFINE hb == head \o body
  <2>1. hb \in Seq(Byte)
    BY <1>8
  <2> HIDE DEF hb
  <2>2. /\ hb \o tail \in Seq(Byte) /\ Len(hb \o tail) = Len(hb) + Len(tail)
        /\ \A i \in 1 .. Len(hb) + Len(tail) :
             (hb \o tail)[i] = IF i <= Len(hb) THEN hb[i] ELSE tail[i - Len(hb)]
    BY <2>1, <1>4, ConcatProperties, Zenon
  <2> QED
    BY <2>2 DEF hb
<1>10. \A i \in 1 .. 3 : Generated(m)[i] = head[i]
  BY <1>2, <1>3, <1>4, <1>5, <1>8, <1>9, SMT
<1>11. \A i \in 1 .. Len(body) : Generated(m)[3 + i] = body[i]
  BY <1>2, <1>3, <1>4, <1>5, <1>8, <1>9, SMT
<1>12. Len(Generated(m)) = Len(body) + 4 /\ Generated(m)[Len(body) + 4] = CRC8(body)
  BY <1>2, <1>3, <1>4, <1>5, <1>8, <1>9, SMT
<1>13. Base * Generated(m)[3] + Generated(m)[2] = Len(body) /\ Generated(m)[1] = PROTO_HEAD
  BY <1>3, <1>6, <1>10, SMT
<1>14. Generated(m) \in Seq(Byte)
  BY <1>5, <1>9
<1>15. Len(Generated(m)) >= MIN_SIZE
  BY <1>2, <1>7, <1>12, SMT
<1> QED
  BY <1>7, <1>11, <1>12, <1>13, <1>14, <1>15 DEF body
-----------------------------------------------------------------------------
(* The inductive invariant: TypeOK and these.                              *)

\* Packet i ends where the next one begins, or the stream ends.
End(i) == start[i] + Len(Generated(sent[i]))
Layout ==
  /\ sent \in Seq(Sendable)
  /\ \A i \in 1 .. Len(sent) :
       /\ End(i) <= Len(stream)
       /\ End(i) = IF i < Len(sent) THEN start[i + 1] ELSE Len(stream)

\* As long as nothing is damaged, the stream is the packets generated.
Intact ==
  ~damaged =>
    \A i \in 1 .. Len(sent) : \A j \in 1 .. Len(Generated(sent[i])) :
      stream[start[i] + j] = Generated(sent[i])[j]

\* The number of packets returned, and where the next one begins.
Front == IF Len(got) < Len(sent) THEN start[Len(got) + 1] ELSE Len(stream)

\* The buffer begins with the first packet that has not been returned.
Consumed == ~dropped /\ ~damaged => InOrder /\ taken = Front

\* Between two calls the first packet in the buffer is incomplete.
Waits ==
  ~dropped /\ ~damaged /\ ~parsing /\ Len(got) < Len(sent) => arrived < End(Len(got) + 1)

Inv == TypeOK /\ Layout /\ Intact /\ Consumed /\ Waits

LEMMA InitInv == Init => Inv
<1> SUFFICES ASSUME Init PROVE Inv
  OBVIOUS
<1>1. /\ sent = <<>> /\ stream = <<>> /\ start = <<>> /\ got = <<>>
      /\ arrived = 0 /\ taken = 0
      /\ parsing = FALSE /\ damaged = FALSE /\ dropped = FALSE
  BY DEF Init
<1>2. /\ sent \in Seq(Packets) /\ sent \in Seq(Sendable) /\ stream \in Seq(Byte) /\ start \in Seq(Nat)
      /\ got \in Seq([cmd : Byte, status : Byte, data : Seq(Byte)])
  BY <1>1
<1>3. Len(sent) = 0 /\ Len(stream) = 0 /\ Len(start) = 0 /\ Len(got) = 0
  BY <1>1
<1>4. arrived \in 0 .. Len(stream) /\ taken \in 0 .. arrived
  BY <1>1, <1>3, SMT
<1>5. TypeOK
  BY <1>1, <1>2, <1>3, <1>4 DEF TypeOK
<1>6. Layout /\ Intact
  BY <1>2, <1>3, SMT DEF Layout, Intact
<1>7. Waits /\ Consumed
  BY <1>1, <1>3, SMT DEF Waits, Consumed, InOrder, Front
<1> QED
  BY <1>5, <1>6, <1>7 DEF Inv

\* The packets generated have lengths of at least a packet's.
LEMMA LengthFacts ==
  ASSUME NEW m \in Sendable
  PROVE  /\ Len(Generated(m)) \in Nat /\ Len(Generated(m)) >= 6
         /\ Len(Body(m)) \in Nat /\ Len(Generated(m)) = Len(Body(m)) + 4
<1>1. m \in Packets
  BY DEF Sendable
<1>2. Len(Body(m)) \in Nat
  BY <1>1, BodyFacts
<1> QED
  BY <1>2, GeneratedFacts, BaseFacts, SMT

\* What a stream is after more is written to it.
LEMMA Written ==
  ASSUME NEW s \in Seq(Byte), NEW g \in Seq(Byte)
  PROVE  /\ s \o g \in Seq(Byte) /\ Len(s \o g) = Len(s) + Len(g)
         /\ \A j \in 1 .. Len(s) : (s \o g)[j] = s[j]
         /\ \A j \in 1 .. Len(g) : (s \o g)[Len(s) + j] = g[j]
<1>1. Len(s) \in Nat /\ Len(g) \in Nat
  OBVIOUS
<1>2. /\ s \o g \in Seq(Byte) /\ Len(s \o g) = Len(s) + Len(g)
      /\ \A j \in 1 .. Len(s) + Len(g) :
           (s \o g)[j] = IF j <= Len(s) THEN s[j] ELSE g[j - Len(s)]
  BY ConcatProperties, Zenon
<1> QED
  BY <1>1, <1>2, SMT

\* The bytes of a packet are bytes of the stream.
LEMMA Within ==
  ASSUME NEW a \in Nat, NEW n \in Nat, NEW l \in Nat, a + n <= l, NEW j \in 1 .. n
  PROVE  a + j \in 1 .. l
  BY SMT

\* What the types and the layout say of the sequences and their lengths.
LEMMA StateFacts ==
  ASSUME TypeOK, Layout
  PROVE  /\ sent \in Seq(Sendable) /\ sent \in Seq(Packets) /\ Len(sent) \in Nat
         /\ stream \in Seq(Byte) /\ Len(stream) \in Nat
         /\ start \in Seq(Nat) /\ Len(start) = Len(sent)
         /\ Len(got) \in Nat /\ arrived \in Nat /\ taken \in Nat
         /\ taken <= arrived /\ arrived <= Len(stream)
         /\ \A i \in 1 .. Len(sent) :
              /\ sent[i] \in Sendable /\ start[i] \in Nat
              /\ End(i) = start[i] + Len(Generated(sent[i]))
              /\ End(i) \in Nat /\ End(i) >= start[i] + 6 /\ End(i) <= Len(stream)
<1>1. /\ sent \in Seq(Sendable) /\ sent \in Seq(Packets) /\ Len(sent) \in Nat
      /\ stream \in Seq(Byte) /\ Len(stream) \in Nat
      /\ start \in Seq(Nat) /\ Len(start) = Len(sent)
      /\ Len(got) \in Nat
  BY SMT DEF TypeOK, Layout
<1>2. /\ arrived \in Nat /\ taken \in Nat
      /\ taken <= arrived /\ arrived <= Len(stream)
  BY <1>1, SMT DEF TypeOK
<1>3. ASSUME NEW i \in 1 .. Len(sent)
      PROVE  /\ sent[i] \in Sendable /\ start[i] \in Nat
             /\ End(i) = start[i] + Len(Generated(sent[i]))
             /\ End(i) \in Nat /\ End(i) >= start[i] + 6 /\ End(i) <= Len(stream)
  <2>1. sent[i] \in Sendable /\ start[i] \in Nat
    BY <1>1
  <2>2. Len(Generated(sent[i])) \in Nat /\ Len(Generated(sent[i])) >= 6
    BY <2>1, LengthFacts
  <2>3. End(i) = start[i] + Len(Generated(sent[i]))
    BY DEF End
  <2>4. End(i) <= Len(stream)
    BY DEF Layout
  <2> QED
    BY <2>1, <2>2, <2>3, <2>4, SMT
<1> QED
  BY <1>1, <1>2, <1>3

LEMMA GenerateInv ==
  ASSUME Inv, NEW m \in Packets, Generate(m)
  PROVE  Inv'
<1> DEFINE g == Generated(m)
<1>1. m \in Sendable
  BY DEF Generate, Sendable
<1>2. g \in Seq(Byte) /\ Len(g) \in Nat /\ Len(g) >= 6
  BY <1>1, GeneratedFacts, LengthFacts
<1>3. TypeOK /\ Layout
  BY DEF Inv
<1>4. /\ sent \in Seq(Sendable) /\ sent \in Seq(Packets) /\ Len(sent) \in Nat
      /\ stream \in Seq(Byte) /\ Len(stream) \in Nat
      /\ start \in Seq(Nat) /\ Len(start) = Len(sent)
      /\ Len(got) \in Nat /\ arrived \in Nat /\ taken \in Nat
      /\ taken <= arrived /\ arrived <= Len(stream)
  BY <1>3, StateFacts
<1>5. \A i \in 1 .. Len(sent) :
        /\ sent[i] \in Sendable /\ start[i] \in Nat
        /\ End(i) = start[i] + Len(Generated(sent[i]))
        /\ End(i) \in Nat /\ End(i) >= start[i] + 6 /\ End(i) <= Len(stream)
  BY <1>3, StateFacts
<1>6. /\ sent' = Append(sent, m) /\ start' = Append(start, Len(stream)) /\ stream' = stream \o g
      /\ UNCHANGED <<arrived, taken, parsing, got, damaged, dropped>>
  BY DEF Generate
<1>7. /\ sent' \in Seq(Sendable) /\ sent' \in Seq(Packets) /\ Len(sent') = Len(sent) + 1
      /\ \A i \in 1 .. Len(sent) : sent'[i] = sent[i]
      /\ sent'[Len(sent) + 1] = m
  BY <1>1, <1>4, <1>6, SMT
<1>8. /\ start' \in Seq(Nat) /\ Len(start') = Len(sent) + 1
      /\ \A i \in 1 .. Len(sent) : start'[i] = start[i]
      /\ start'[Len(sent) + 1] = Len(stream)
  BY <1>4, <1>6, SMT
<1>9. Len(Generated(sent'[Len(sent) + 1])) = Len(g)
  BY <1>7
<1> HIDE DEF g
<1>10. /\ stream \o g \in Seq(Byte) /\ Len(stream \o g) = Len(stream) + Len(g)
       /\ \A j \in 1 .. Len(stream) : (stream \o g)[j] = stream[j]
       /\ \A j \in 1 .. Len(g) : (stream \o g)[Len(stream) + j] = g[j]
  BY <1>2, <1>4, Written, Zenon
<1>11. /\ stream' \in Seq(Byte) /\ Len(stream') = Len(stream) + Len(g)
       /\ \A j \in 1 .. Len(stream) : stream'[j] = stream[j]
       /\ \A j \in 1 .. Len(g) : stream'[Len(stream) + j] = g[j]
  BY <1>6, <1>10, Zenon
<1>12. TypeOK'
  <2>1. arrived' \in 0 .. Len(stream') /\ taken' \in 0 .. arrived'
    BY <1>2, <1>4, <1>6, <1>11, SMT
  <2>2. /\ parsing' \in BOOLEAN /\ damaged' \in BOOLEAN /\ dropped' \in BOOLEAN
        /\ got' \in Seq([cmd : Byte, status : Byte, data : Seq(Byte)])
    BY <1>3, <1>6 DEF TypeOK
  <2> QED
    BY <2>1, <2>2, <1>4, <1>7, <1>8, <1>11 DEF TypeOK
<1>13. \A i \in 1 .. Len(sent) : End(i)' = End(i)
  BY <1>7, <1>8 DEF End
<1>14. start'[Len(sent) + 1] + Len(Generated(sent'[Len(sent) + 1])) = Len(stream')
  BY <1>8, <1>9, <1>11
<1>15. Layout'
  <2> SUFFICES ASSUME NEW i \in 1 .. Len(sent')
               PROVE  /\ End(i)' <= Len(stream')
                      /\ End(i)' = IF i < Len(sent') THEN start'[i + 1] ELSE Len(stream')
    BY <1>7 DEF Layout
  <2>1. CASE i = Len(sent) + 1
    <3>1. End(i)' = Len(stream')
      BY <2>1, <1>14 DEF End
    <3>2. ~(i < Len(sent')) /\ Len(stream') <= Len(stream')
      BY <2>1, <1>2, <1>4, <1>7, <1>11, SMT
    <3> QED
      BY <3>1, <3>2
  <2>2. CASE i \in 1 .. Len(sent)
    <3>1. End(i)' = End(i) /\ End(i) \in Nat /\ End(i) <= Len(stream)
      BY <2>2, <1>5, <1>13
    <3>2. End(i) = IF i < Len(sent) THEN start[i + 1] ELSE Len(stream)
      BY <2>2, <1>3 DEF Layout
    <3>3. start'[i + 1] = IF i < Len(sent) THEN start[i + 1] ELSE Len(stream)
      <4>1. CASE i < Len(sent)
        <5>1. i + 1 \in 1 .. Len(sent)
          BY <4>1, <1>4, SMT
        <5> QED
          BY <4>1, <5>1, <1>8
      <4>2. CASE i = Len(sent)
        BY <4>2, <1>4, <1>8
      <4> QED
        BY <2>2, <4>1, <4>2, <1>4, SMT
    <3>4. i < Len(sent')
      BY <2>2, <1>4, <1>7, SMT
    <3>5. Len(stream) <= Len(stream')
      BY <1>2, <1>4, <1>11, SMT
    <3> QED
      BY <3>1, <3>2, <3>3, <3>4, <3>5, <1>2, <1>4, <1>11, SMTT(30)
  <2> QED
    BY <2>1, <2>2, <1>4, <1>7, SMT
<1>16. Intact'
  <2> SUFFICES ASSUME ~damaged, NEW i \in 1 .. Len(sent) + 1, NEW j \in 1 .. Len(Generated(sent'[i]))
               PROVE  stream'[start'[i] + j] = Generated(sent'[i])[j]
    BY <1>6, <1>7 DEF Intact
  <2>1. CASE i = Len(sent) + 1
    <3>1. Generated(sent'[i]) = g /\ start'[i] = Len(stream)
      BY <2>1, <1>7, <1>8 DEF g
    <3> QED
      BY <3>1, <1>11
  <2>2. CASE i \in 1 .. Len(sent)
    <3>1. sent'[i] = sent[i] /\ start'[i] = start[i]
      BY <2>2, <1>7, <1>8
    <3>2. j \in 1 .. Len(Generated(sent[i]))
      BY <3>1
    <3>3. start[i] \in Nat /\ sent[i] \in Sendable /\ start[i] + Len(Generated(sent[i])) <= Len(stream)
      BY <2>2, <1>5
    <3>4. start[i] + j \in 1 .. Len(stream)
      <4>1. Len(Generated(sent[i])) \in Nat
        BY <3>3, LengthFacts
      <4> QED
        BY <4>1, <3>2, <3>3, <1>4, Within
    <3>5. stream[start[i] + j] = Generated(sent[i])[j]
      BY <2>2, <3>2 DEF Inv, Intact
    <3> QED
      BY <3>1, <3>4, <3>5, <1>11
  <2> QED
    BY <2>1, <2>2, <1>4, SMT
<1>17. Consumed'
  <2> SUFFICES ASSUME ~dropped, ~damaged
               PROVE  InOrder' /\ taken' = Front'
    BY <1>6 DEF Consumed
  <2>1. InOrder /\ taken = Front
    BY DEF Inv, Consumed
  <2> QED
    BY <2>1, <1>4, <1>6, <1>7, <1>8, SMTT(30) DEF InOrder, Front
<1>18. Waits'
  <2> SUFFICES ASSUME ~dropped, ~damaged, ~parsing, Len(got) < Len(sent')
               PROVE  arrived < End(Len(got) + 1)'
    BY <1>6 DEF Waits
  <2>1. CASE Len(got) < Len(sent)
    <3>1. arrived < End(Len(got) + 1)
      BY <2>1 DEF Inv, Waits
    <3>2. Len(got) + 1 \in 1 .. Len(sent)
      BY <2>1, <1>4, SMT
    <3> QED
      BY <3>1, <3>2, <1>6, <1>7, <1>8 DEF End
  <2>2. CASE Len(got) = Len(sent)
    <3>1. End(Len(got) + 1)' = Len(stream')
      BY <2>2, <1>6, <1>14 DEF End
    <3>2. arrived < Len(stream')
      BY <1>2, <1>4, <1>11, SMT
    <3> QED
      BY <3>1, <3>2
  <2> QED
    BY <2>1, <2>2, <1>4, <1>7, SMT
<1> QED
  BY <1>12, <1>15, <1>16, <1>17, <1>18 DEF Inv

\* The place of a byte of the data in the body and in the packet.
LEMMA DataPlace ==
  ASSUME NEW min \in Nat, min >= 6, NEW d \in Nat, NEW b \in Nat, b = min - 4 + d, NEW i \in 1 .. d
  PROVE  min - 4 + i \in 1 .. b /\ 3 + (min - 4 + i) = min - 1 + i
  BY SMT

\* While nothing is damaged or dropped, the buffer begins with the first packet
\* that is not returned: as far as its bytes go, it is valid and parsed as sent.
LEMMA FrontFacts ==
  ASSUME Inv, ~dropped, ~damaged, Len(got) < Len(sent), NEW k, k = Len(got) + 1
  PROVE  /\ k \in 1 .. Len(sent)
         /\ taken = start[k] /\ Total \in Nat /\ Total >= MIN_SIZE
         /\ End(k) = taken + Total
         /\ Buffer(1) = PROTO_HEAD /\ Valid /\ Parsed = sent[k]
<1> DEFINE m == sent[k]
           g == Generated(m)
           body == Body(m)
<1>1. TypeOK /\ Layout /\ Intact /\ Consumed
  BY DEF Inv
<1>2. k \in 1 .. Len(sent)
  BY <1>1, StateFacts, SMT
<1>3. /\ m \in Sendable /\ start[k] \in Nat
      /\ End(k) = start[k] + Len(g)
  BY <1>1, <1>2, StateFacts
<1>4. m \in Packets
  BY <1>3 DEF Sendable
<1>5. taken = start[k]
  BY <1>1 DEF Consumed, Front
<1>6. \A j \in 1 .. Len(g) : Buffer(j) = g[j]
  BY <1>1, <1>2, <1>5 DEF Intact, Buffer
<1>7. /\ Len(g) \in Nat /\ Len(g) = Len(body) + 4 /\ Len(g) >= MIN_SIZE /\ Len(body) \in Nat
      /\ g[1] = PROTO_HEAD /\ Base * g[3] + g[2] = Len(body)
      /\ \A i \in 1 .. Len(body) : g[3 + i] = body[i]
      /\ g[Len(body) + 4] = CRC8(body)
  BY <1>3, GeneratedFacts, LengthFacts, BaseFacts
<1>8. /\ body \in Seq(Byte)
      /\ Len(m.data) \in Nat
      /\ Len(body) = MIN_SIZE - 4 + Len(m.data)
      /\ body[1] = m.cmd /\ m.cmd \in Cmds
      /\ m.status = IF IfAck THEN body[3] ELSE 0
      /\ m.data \in Seq(Byte)
      /\ \A i \in 1 .. Len(m.data) : body[MIN_SIZE - 4 + i] = m.data[i]
      /\ m = [cmd |-> m.cmd, status |-> m.status, data |-> m.data]
  BY <1>4, BodyFacts, BaseFacts
<1>9. MIN_SIZE \in Nat /\ MIN_SIZE >= 6 /\ (IfAck => MIN_SIZE = 7) /\ NO_CRC_LENGTH = 4
  BY BaseFacts, SMT DEF MIN_SIZE
<1> HIDE DEF m, g, body
<1>10. \A j \in 1 .. Len(body) : Buffer(3 + j) = body[j]
  <2> TAKE j \in 1 .. Len(body)
  <2>1. 3 + j \in 1 .. Len(g)
    BY <1>7, SMT
  <2> QED
    BY <2>1, <1>6, <1>7
<1>11. Buffer(1) = PROTO_HEAD
  BY <1>6, <1>7, <1>9, SMT
<1>12. Length = Len(body)
  <2>1. 2 \in 1 .. Len(g) /\ 3 \in 1 .. Len(g)
    BY <1>7, <1>9, SMT
  <2> QED
    BY <2>1, <1>6, <1>7 DEF Length
<1>13. Total = Len(g) /\ Total = Len(body) + 4
  BY <1>7, <1>9, <1>12 DEF Total
<1>14. Checked = body
  <2>1. Checked = [i \in 1 .. Len(body) |-> body[i]]
    BY <1>10, <1>12 DEF Checked
  <2> QED
    BY <2>1, <1>8
<1>15. Buffer(Total) = CRC8(body)
  <2>1. Total \in 1 .. Len(g)
    BY <1>7, <1>9, <1>13, SMT
  <2> QED
    BY <2>1, <1>6, <1>7, <1>13
<1>16. Buffer(4) = m.cmd
  <2>1. 1 \in 1 .. Len(body) /\ 3 + 1 = 4
    BY <1>7, <1>9, SMT
  <2> QED
    BY <2>1, <1>8, <1>10
<1>17. Valid
  BY <1>7, <1>8, <1>13, <1>14, <1>15, <1>16 DEF Valid
<1>18. IfAck => Buffer(6) = body[3]
  <2>1. IfAck => 3 \in 1 .. Len(body) /\ 3 + 3 = 6
    BY <1>7, <1>9, SMT
  <2> QED
    BY <2>1, <1>10
<1>19. [i \in 1 .. Total - MIN_SIZE |-> Buffer(MIN_SIZE - 1 + i)] = m.data
  <2>1. Total - MIN_SIZE = Len(m.data)
    BY <1>8, <1>9, <1>13, SMTT(30)
  <2>2. ASSUME NEW i \in 1 .. Total - MIN_SIZE
        PROVE  Buffer(MIN_SIZE - 1 + i) = m.data[i]
    <3>1. i \in 1 .. Len(m.data)
      BY <2>1
    <3>2. MIN_SIZE - 4 + i \in 1 .. Len(body) /\ 3 + (MIN_SIZE - 4 + i) = MIN_SIZE - 1 + i
      <4>1. MIN_SIZE \in Nat /\ MIN_SIZE >= 6
        BY <1>9
      <4>2. Len(m.data) \in Nat /\ Len(body) \in Nat /\ Len(body) = MIN_SIZE - 4 + Len(m.data)
        BY <1>7, <1>8
      <4> QED
        BY <3>1, <4>1, <4>2, DataPlace, Zenon
    <3> QED
      BY <3>1, <3>2, <1>8, <1>10
  <2> QED
    BY <2>1, <2>2, <1>8
<1>20. Parsed = m
  BY <1>8, <1>16, <1>18, <1>19 DEF Parsed
<1> QED
  BY <1>2, <1>3, <1>5, <1>7, <1>11, <1>13, <1>17, <1>20 DEF m

\* What is in the buffer is a sequence of bytes.
LEMMA BufferFacts ==
  ASSUME TypeOK, Layout, Size >= MIN_SIZE
  PROVE  /\ \A i \in 1 .. Size : Buffer(i) \in Byte
         /\ Total \in Nat /\ Size \in Nat
<1>1. /\ stream \in Seq(Byte) /\ Len(stream) \in Nat
      /\ arrived \in Nat /\ taken \in Nat /\ taken <= arrived /\ arrived <= Len(stream)
  BY StateFacts
<1>2. Size \in Nat /\ 2 \in 1 .. Size /\ 3 \in 1 .. Size
  BY <1>1, BaseFacts, SMT DEF Size
<1>3. ASSUME NEW i \in 1 .. Size PROVE Buffer(i) \in Byte
  <2>1. taken + i \in 1 .. Len(stream)
    BY <1>1, SMT DEF Size
  <2> QED
    BY <2>1, <1>1 DEF Buffer
<1>4. Buffer(2) \in Nat /\ Buffer(3) \in Nat
  <2>1. Buffer(2) \in Byte /\ Buffer(3) \in Byte
    BY <1>2, <1>3
  <2> QED
    BY <2>1, BaseFacts, SMT DEF Byte
<1>5. Base * Buffer(3) \in Nat
  BY <1>4, BaseFacts, SMT
<1>6. Total \in Nat
  BY <1>4, <1>5, BaseFacts, SMT DEF Total, Length
<1> QED
  BY <1>2, <1>3, <1>6

\* A damaged byte keeps the layout; of what is returned nothing is promised then.
LEMMA DamageInv ==
  ASSUME Inv, NEW i \in DOMAIN sent, NEW j \in 1 .. Len(Body(sent[i])), NEW b \in Byte, Damage(i, j, b)
  PROVE  Inv'
<1>1. TypeOK /\ Layout
  BY DEF Inv
<1>2. /\ stream' = [stream EXCEPT ![start[i] + 3 + j] = b]
      /\ damaged' = TRUE
      /\ UNCHANGED <<sent, start, arrived, taken, parsing, got, dropped>>
  BY DEF Damage
<1>3. stream \in Seq(Byte)
  BY <1>1 DEF TypeOK
<1>4. stream' \in Seq(Byte) /\ Len(stream') = Len(stream)
  <2>1. stream \in [1 .. Len(stream) -> Byte] /\ Len(stream) \in Nat
    BY <1>3
  <2>2. stream' \in [1 .. Len(stream) -> Byte]
    BY <1>2, <2>1
  <2> QED
    BY <2>1, <2>2
<1>5. TypeOK'
  BY <1>1, <1>2, <1>4 DEF TypeOK
<1>6. Layout'
  BY <1>1, <1>2, <1>4 DEF Layout, End
<1>7. Intact' /\ Consumed' /\ Waits'
  BY <1>2 DEF Intact, Consumed, Waits
<1> QED
  BY <1>5, <1>6, <1>7 DEF Inv

\* What reaches the buffer changes neither where it begins nor what it holds.
LEMMA ArriveInv ==
  ASSUME Inv, NEW n \in 1 .. Len(stream), Arrive(n)
  PROVE  Inv'
<1>1. TypeOK /\ Layout /\ Intact /\ Consumed
  BY DEF Inv
<1>2. /\ arrived' = arrived + n /\ arrived + n <= Len(stream) /\ parsing' = TRUE
      /\ UNCHANGED <<sent, stream, start, taken, got, damaged, dropped>>
  BY DEF Arrive
<1>3. arrived' \in 0 .. Len(stream') /\ taken' \in 0 .. arrived'
  BY <1>1, <1>2, StateFacts, SMT
<1>4. TypeOK'
  BY <1>1, <1>2, <1>3 DEF TypeOK
<1>5. Layout' /\ Intact' /\ Waits'
  BY <1>1, <1>2 DEF Layout, Intact, End, Waits
<1>6. Consumed'
  BY <1>1, <1>2 DEF Consumed, InOrder, Front
<1> QED
  BY <1>4, <1>5, <1>6 DEF Inv

\* parseFrom returns FALSE only in front of an incomplete packet, or of nothing.
LEMMA ReturnFalseInv ==
  ASSUME Inv, ReturnFalse
  PROVE  Inv'
<1>1. TypeOK /\ Layout /\ Intact /\ Consumed
  BY DEF Inv
<1>2. /\ Size >= MIN_SIZE => Buffer(1) = PROTO_HEAD /\ Size < Total
      /\ parsing' = FALSE /\ taken' \in {taken, arrived}
      /\ dropped' = (dropped \/ taken' # taken)
      /\ UNCHANGED <<sent, stream, start, arrived, got, damaged>>
  BY DEF ReturnFalse
<1>3. arrived' \in 0 .. Len(stream') /\ taken' \in 0 .. arrived'
  BY <1>1, <1>2, StateFacts, SMT
<1>4. TypeOK'
  <2>1. dropped' \in BOOLEAN
    BY <1>2
  <2> QED
    BY <2>1, <1>1, <1>2, <1>3 DEF TypeOK
<1>5. Layout' /\ Intact'
  BY <1>1, <1>2 DEF Layout, Intact, End
<1>6. Consumed'
  BY <1>1, <1>2 DEF Consumed, InOrder, Front
<1>7. Waits'
  <2> SUFFICES ASSUME ~dropped', ~damaged', Len(got) < Len(sent)
               PROVE  arrived < End(Len(got) + 1)'
    BY <1>2 DEF Waits
  <2> DEFINE k == Len(got) + 1
  <2>1. ~dropped /\ ~damaged /\ Len(got) < Len(sent)
    BY <1>2
  <2>2. Total \in Nat /\ Total >= MIN_SIZE /\ End(k) = taken + Total
    BY <2>1, FrontFacts
  <2>3. Size < Total
    BY <2>2, <1>1, <1>2, StateFacts, BaseFacts, SMT DEF Size
  <2>4. arrived < End(k)
    BY <2>2, <2>3, <1>1, StateFacts, SMT DEF Size
  <2> QED
    BY <2>4, <1>2 DEF End
<1> QED
  BY <1>4, <1>5, <1>6, <1>7 DEF Inv

\* Some packet is in front of the receiver when its buffer is not too small.
LEMMA PacketInFront ==
  ASSUME Inv, ~dropped, ~damaged, Size >= MIN_SIZE
  PROVE  Len(got) < Len(sent)
<1>1. TypeOK /\ Layout /\ Consumed
  BY DEF Inv
<1>2. taken = Front /\ Len(got) <= Len(sent)
  BY <1>1 DEF Consumed, InOrder
<1>3. taken < Len(stream)
  BY <1>1, StateFacts, BaseFacts, SMT DEF Size
<1> QED
  BY <1>1, <1>2, <1>3, StateFacts, SMT DEF Front

\* A byte is skipped only after damage, or after bytes were thrown away.
LEMMA SkipInv ==
  ASSUME Inv, Skip
  PROVE  Inv'
<1>1. TypeOK /\ Layout /\ Intact
  BY DEF Inv
<1>2. /\ parsing /\ Size >= MIN_SIZE /\ Buffer(1) # PROTO_HEAD /\ taken' = taken + 1
      /\ UNCHANGED <<sent, stream, start, arrived, parsing, got, damaged, dropped>>
  BY DEF Skip
<1>3. arrived' \in 0 .. Len(stream') /\ taken' \in 0 .. arrived'
  BY <1>1, <1>2, StateFacts, BaseFacts, SMT DEF Size
<1>4. TypeOK'
  BY <1>1, <1>2, <1>3 DEF TypeOK
<1>5. Layout' /\ Intact' /\ Waits'
  BY <1>1, <1>2 DEF Layout, Intact, End, Waits
<1>6. dropped \/ damaged
  BY <1>2, PacketInFront, FrontFacts
<1>7. Consumed'
  BY <1>2, <1>6 DEF Consumed
<1> QED
  BY <1>4, <1>5, <1>7 DEF Inv

\* What is returned is the packet in front, and all of it is taken.
LEMMA ReturnTrueInv ==
  ASSUME Inv, ReturnTrue
  PROVE  Inv'
<1>1. TypeOK /\ Layout /\ Intact /\ Consumed
  BY DEF Inv
<1>2. /\ parsing /\ Size >= MIN_SIZE /\ Size >= Total /\ Valid
      /\ taken' = taken + Total /\ got' = Append(got, Parsed)
      /\ UNCHANGED <<sent, stream, start, arrived, parsing, damaged, dropped>>
  BY DEF ReturnTrue
<1>3. /\ \A i \in 1 .. Size : Buffer(i) \in Byte
      /\ Total \in Nat /\ Size \in Nat
  BY <1>1, <1>2, BufferFacts
<1>4. arrived' \in 0 .. Len(stream') /\ taken' \in 0 .. arrived'
  BY <1>1, <1>2, <1>3, StateFacts, BaseFacts, SMT DEF Size
<1>5. Parsed \in [cmd : Byte, status : Byte, data : Seq(Byte)]
  <2>1. Total - MIN_SIZE \in Nat
    BY <1>2, <1>3, BaseFacts, SMT DEF Valid
  <2>2. ASSUME NEW i \in 1 .. Total - MIN_SIZE PROVE Buffer(MIN_SIZE - 1 + i) \in Byte
    <3>1. MIN_SIZE - 1 + i \in 1 .. Size
      BY <1>2, <1>3, BaseFacts, SMT
    <3> QED
      BY <3>1, <1>3
  <2>3. [i \in 1 .. Total - MIN_SIZE |-> Buffer(MIN_SIZE - 1 + i)] \in Seq(Byte)
    BY <2>1, <2>2
  <2>4. Buffer(4) \in Byte /\ (IF IfAck THEN Buffer(6) ELSE 0) \in Byte
    <3>1. 4 \in 1 .. Size /\ 6 \in 1 .. Size /\ 0 \in Byte
      BY <1>2, <1>3, BaseFacts, SMT DEF Byte
    <3> QED
      BY <3>1, <1>3
  <2> QED
    BY <2>3, <2>4 DEF Parsed
<1>6. got' \in Seq([cmd : Byte, status : Byte, data : Seq(Byte)])
  BY <1>1, <1>2, <1>5 DEF TypeOK
<1>7. TypeOK'
  BY <1>1, <1>2, <1>4, <1>6 DEF TypeOK
<1>8. Layout' /\ Intact' /\ Waits'
  BY <1>1, <1>2 DEF Layout, Intact, End, Waits
<1>9. Consumed'
  <2> SUFFICES ASSUME ~dropped, ~damaged
               PROVE  InOrder' /\ taken' = Front'
    BY <1>2 DEF Consumed
  <2> DEFINE k == Len(got) + 1
  <2>1. Len(got) < Len(sent)
    BY <1>2, PacketInFront
  <2>2. k \in 1 .. Len(sent) /\ End(k) = taken + Total /\ Parsed = sent[k]
    BY <2>1, FrontFacts
  <2>3. Len(got) \in Nat /\ Len(sent) \in Nat
    BY <1>1, StateFacts
  <2>4. /\ Len(got') = k
        /\ \A i \in 1 .. Len(got) : got'[i] = got[i]
        /\ got'[k] = Parsed
    BY <1>1, <1>2, <2>3, SMT DEF TypeOK
  <2>5. \A i \in 1 .. Len(got) : got[i] = sent[i]
    BY <1>1 DEF Consumed, InOrder
  <2>6. InOrder'
    <3>1. \A i \in 1 .. k : got'[i] = sent[i]
      BY <2>2, <2>3, <2>4, <2>5, SMT
    <3> QED
      BY <3>1, <2>2, <2>4, <1>2 DEF InOrder
  <2>7. End(k) = IF k < Len(sent) THEN start[k + 1] ELSE Len(stream)
    BY <2>2, <1>1 DEF Layout
  <2>8. taken' = Front'
    BY <2>2, <2>4, <2>7, <1>2 DEF Front
  <2> QED
    BY <2>6, <2>8
<1> QED
  BY <1>7, <1>8, <1>9 DEF Inv

\* A packet is discarded only after damage, or after bytes were thrown away.
LEMMA DiscardInv ==
  ASSUME Inv, Discard
  PROVE  Inv'
<1>1. TypeOK /\ Layout /\ Intact
  BY DEF Inv
<1>2. /\ parsing /\ Size >= MIN_SIZE /\ Size >= Total /\ ~Valid /\ taken' = taken + Total
      /\ UNCHANGED <<sent, stream, start, arrived, parsing, got, damaged, dropped>>
  BY DEF Discard
<1>3. Total \in Nat
  BY <1>1, <1>2, BufferFacts
<1>4. arrived' \in 0 .. Len(stream') /\ taken' \in 0 .. arrived'
  BY <1>1, <1>2, <1>3, StateFacts, BaseFacts, SMT DEF Size
<1>5. TypeOK'
  BY <1>1, <1>2, <1>4 DEF TypeOK
<1>6. Layout' /\ Intact' /\ Waits'
  BY <1>1, <1>2 DEF Layout, Intact, End, Waits
<1>7. dropped \/ damaged
  BY <1>2, PacketInFront, FrontFacts
<1>8. Consumed'
  BY <1>2, <1>7 DEF Consumed
<1> QED
  BY <1>5, <1>6, <1>8 DEF Inv

LEMMA StutterInv ==
  ASSUME Inv, UNCHANGED vars
  PROVE  Inv'
<1>1. UNCHANGED <<sent, stream, start, arrived, taken, parsing, got, damaged, dropped>>
  BY DEF vars
<1>2. TypeOK' /\ Layout' /\ Intact'
  BY <1>1 DEF Inv, TypeOK, Layout, Intact, End
<1>3. Consumed' /\ Waits'
  BY <1>1 DEF Inv, Consumed, InOrder, Front, Waits, End
<1> QED
  BY <1>2, <1>3 DEF Inv

\* The invariant holds of every state of every behaviour.
THEOREM Invariance == Spec => []Inv
<1>1. Init => Inv
  BY InitInv
<1>2. Inv /\ [Next]_vars => Inv'
  <2> SUFFICES ASSUME Inv, [Next]_vars PROVE Inv'
    OBVIOUS
  <2>1. CASE \E m \in Packets : Generate(m)
    BY <2>1, GenerateInv
  <2>2. CASE \E i \in DOMAIN sent : \E j \in 1 .. Len(Body(sent[i])) : \E b \in Byte : Damage(i, j, b)
    BY <2>2, DamageInv
  <2>3. CASE \E n \in 1 .. Len(stream) : Arrive(n)
    BY <2>3, ArriveInv
  <2>4. CASE Parse
    BY <2>4, ReturnFalseInv, SkipInv, ReturnTrueInv, DiscardInv DEF Parse
  <2>5. CASE UNCHANGED vars
    BY <2>5, StutterInv
  <2> QED
    BY <2>1, <2>2, <2>3, <2>4, <2>5 DEF Next
<1> QED
  BY <1>1, <1>2, PTL DEF Spec

\* The types of the packets, the stream and the buffer (cmpOffProto.hpp:29-105).
THEOREM TypeCorrect == Spec => []TypeOK
<1>1. Inv => TypeOK
  BY DEF Inv
<1> QED
  BY <1>1, Invariance, PTL

\* However the stream is cut and however often parseFrom is called, it returns the
\* packets generated, in order (cmpOffProto.hpp:111-137).
THEOREM PacketsInOrder == Spec => []InOrder
<1>1. Inv => InOrder
  BY DEF Inv, Consumed, InOrder
<1> QED
  BY <1>1, Invariance, PTL

\* When all bytes have arrived and parseFrom has returned FALSE, all packets have
\* been returned and the buffer is empty.
THEOREM AllReturned == Spec => []NothingLost
<1>1. Inv => NothingLost
  <2> SUFFICES ASSUME Inv, ~dropped, ~damaged, ~parsing, arrived = Len(stream)
               PROVE  Len(got) = Len(sent) /\ taken = arrived
    BY DEF NothingLost
  <2>1. TypeOK /\ Layout /\ InOrder /\ taken = Front
    BY DEF Inv, Consumed
  <2>2. ~(Len(got) < Len(sent))
    <3> SUFFICES ASSUME Len(got) < Len(sent) PROVE FALSE
      OBVIOUS
    <3>1. Len(got) + 1 \in 1 .. Len(sent)
      BY <2>1, StateFacts, SMT
    <3>2. End(Len(got) + 1) <= Len(stream) /\ End(Len(got) + 1) \in Nat
      BY <3>1, <2>1, StateFacts
    <3>3. arrived < End(Len(got) + 1)
      BY DEF Inv, Waits
    <3> QED
      BY <3>2, <3>3, <2>1, StateFacts, SMT
  <2>3. Len(got) <= Len(sent)
    BY <2>1 DEF InOrder
  <2> QED
    BY <2>1, <2>2, <2>3, StateFacts, SMT DEF Front
<1> QED
  BY <1>1, Invariance, PTL
-----------------------------------------------------------------------------
(* Damage: a second invariant, on top of the first.                        *)

\* A packet begins where the ones before it have ended.
Apart == \A i, k \in 1 .. Len(sent) : i < k => End(i) <= start[k]

\* Of a packet at most one byte is not as it was generated, one of its body.
Almost ==
  \A i \in 1 .. Len(sent) : \E d \in 1 .. Len(Body(sent[i])) :
    \A j \in 1 .. Len(Generated(sent[i])) :
      j # 3 + d => stream[start[i] + j] = Generated(sent[i])[j]

\* Lengths are not damaged, and so the buffer begins with a packet.
Aligned ==
  ~dropped => taken = Len(stream) \/ \E k \in 1 .. Len(sent) : taken = start[k]

SeenInv == Apart /\ Almost /\ Aligned /\ DamageSeen

\* A body has a first byte.
LEMMA BodyLength ==
  ASSUME NEW m \in Sendable
  PROVE  Len(Body(m)) \in Nat /\ 1 \in 1 .. Len(Body(m))
  BY LengthFacts, GeneratedFacts, BaseFacts, SMT

LEMMA InitSeen == Init => SeenInv
<1> SUFFICES ASSUME Init PROVE SeenInv
  OBVIOUS
<1>1. /\ sent = <<>> /\ stream = <<>> /\ got = <<>> /\ taken = 0
  BY DEF Init
<1>2. Len(sent) = 0 /\ Len(stream) = 0 /\ DOMAIN got = {}
  BY <1>1
<1> QED
  BY <1>1, <1>2, SMT DEF SeenInv, Apart, Almost, Aligned, DamageSeen

\* A packet more leaves what is said of the others.
LEMMA GenerateSeen ==
  ASSUME Inv, Inv', SeenInv, NEW m \in Packets, Generate(m)
  PROVE  SeenInv'
<1> DEFINE g == Generated(m)
<1>1. TypeOK /\ Layout /\ Layout'
  BY DEF Inv
<1>2. m \in Sendable
  BY DEF Generate, Sendable
<1>3. g \in Seq(Byte) /\ Len(g) \in Nat
  BY <1>2, GeneratedFacts, LengthFacts
<1>4. /\ sent \in Seq(Packets) /\ Len(sent) \in Nat
      /\ stream \in Seq(Byte) /\ Len(stream) \in Nat
      /\ start \in Seq(Nat) /\ Len(start) = Len(sent)
  BY <1>1, StateFacts
<1>5. \A i \in 1 .. Len(sent) :
        /\ sent[i] \in Sendable /\ start[i] \in Nat
        /\ End(i) = start[i] + Len(Generated(sent[i])) /\ End(i) <= Len(stream)
  BY <1>1, StateFacts
<1>6. /\ sent' = Append(sent, m) /\ start' = Append(start, Len(stream)) /\ stream' = stream \o g
      /\ UNCHANGED <<arrived, taken, parsing, got, damaged, dropped>>
  BY DEF Generate
<1>7. /\ Len(sent') = Len(sent) + 1 /\ sent'[Len(sent) + 1] = m
      /\ \A i \in 1 .. Len(sent) : sent'[i] = sent[i]
  BY <1>4, <1>6, SMT
<1>8. /\ start'[Len(sent) + 1] = Len(stream)
      /\ \A i \in 1 .. Len(sent) : start'[i] = start[i]
  BY <1>4, <1>6, SMT
<1> HIDE DEF g
<1>9. /\ \A j \in 1 .. Len(stream) : stream'[j] = stream[j]
      /\ \A j \in 1 .. Len(g) : stream'[Len(stream) + j] = g[j]
  BY <1>3, <1>4, <1>6, Written
<1>10. \A i \in 1 .. Len(sent) + 1 : i = Len(sent) + 1 \/ i \in 1 .. Len(sent)
  BY <1>4, SMT
<1>11. \A i \in 1 .. Len(sent) : End(i)' = End(i)
  BY <1>7, <1>8 DEF End
<1>12. Apart'
  <2> SUFFICES ASSUME NEW i \in 1 .. Len(sent) + 1, NEW k \in 1 .. Len(sent) + 1, i < k
               PROVE  End(i)' <= start'[k]
    BY <1>7 DEF Apart
  <2>1. i \in 1 .. Len(sent)
    BY <1>4, SMT
  <2>2. End(i)' = End(i)
    BY <2>1, <1>11
  <2>3. CASE k = Len(sent) + 1
    <3>1. End(i) <= Len(stream)
      BY <2>1, <1>5
    <3> QED
      BY <2>2, <2>3, <3>1, <1>8
  <2>4. CASE k \in 1 .. Len(sent)
    <3>1. End(i) <= start[k]
      BY <2>1, <2>4 DEF SeenInv, Apart
    <3> QED
      BY <2>2, <2>4, <3>1, <1>8
  <2> QED
    BY <2>3, <2>4, <1>10
<1>13. Almost'
  <2> SUFFICES ASSUME NEW i \in 1 .. Len(sent) + 1
               PROVE  \E d \in 1 .. Len(Body(sent'[i])) : \A j \in 1 .. Len(Generated(sent'[i])) :
                        j # 3 + d => stream'[start'[i] + j] = Generated(sent'[i])[j]
    BY <1>7 DEF Almost
  <2>1. CASE i = Len(sent) + 1
    <3>1. sent'[i] = m /\ start'[i] = Len(stream) /\ Generated(m) = g
      BY <2>1, <1>7, <1>8 DEF g
    <3>2. 1 \in 1 .. Len(Body(m))
      BY <1>2, BodyLength
    <3> QED
      BY <3>1, <3>2, <1>9
  <2>2. CASE i \in 1 .. Len(sent)
    <3>1. sent'[i] = sent[i] /\ start'[i] = start[i]
      BY <2>2, <1>7, <1>8
    <3>2. PICK d \in 1 .. Len(Body(sent[i])) : \A j \in 1 .. Len(Generated(sent[i])) :
            j # 3 + d => stream[start[i] + j] = Generated(sent[i])[j]
      BY <2>2 DEF SeenInv, Almost
    <3>3. ASSUME NEW j \in 1 .. Len(Generated(sent[i]))
          PROVE  stream'[start[i] + j] = stream[start[i] + j]
      <4>1. start[i] \in Nat /\ start[i] + Len(Generated(sent[i])) <= Len(stream)
        BY <2>2, <1>5
      <4>2. Len(Generated(sent[i])) \in Nat
        BY <2>2, <1>5, LengthFacts
      <4>3. start[i] + j \in 1 .. Len(stream)
        BY <4>1, <4>2, <1>4, Within
      <4> QED
        BY <4>3, <1>9
    <3> QED
      BY <3>1, <3>2, <3>3
  <2> QED
    BY <2>1, <2>2, <1>10
<1>14. Aligned'
  <2> SUFFICES ASSUME ~dropped
               PROVE  \E k \in 1 .. Len(sent) + 1 : taken = start'[k]
    BY <1>6, <1>7 DEF Aligned
  <2>1. CASE taken = Len(stream)
    <3>1. Len(sent) + 1 \in 1 .. Len(sent) + 1
      BY <1>4, SMT
    <3> QED
      BY <2>1, <3>1, <1>8
  <2>2. CASE \E k \in 1 .. Len(sent) : taken = start[k]
    <3>1. PICK k \in 1 .. Len(sent) : taken = start[k]
      BY <2>2
    <3>2. k \in 1 .. Len(sent) + 1
      BY <1>4, SMT
    <3> QED
      BY <3>1, <3>2, <1>8
  <2> QED
    BY <2>1, <2>2 DEF SeenInv, Aligned
<1>15. DamageSeen'
  <2> SUFFICES ASSUME ~dropped, NEW i \in DOMAIN got
               PROVE  \E k \in DOMAIN sent' : Agree(Body(got[i]), Body(sent'[k]))
    BY <1>6 DEF DamageSeen
  <2>1. PICK k \in DOMAIN sent : Agree(Body(got[i]), Body(sent[k]))
    BY DEF SeenInv, DamageSeen
  <2>2. k \in 1 .. Len(sent) /\ k \in 1 .. Len(sent) + 1
    BY <1>4, SMT
  <2>3. sent'[k] = sent[k] /\ k \in DOMAIN sent'
    BY <2>2, <1>4, <1>6, <1>7
  <2> QED
    BY <2>1, <2>3
<1> QED
  BY <1>12, <1>13, <1>14, <1>15 DEF SeenInv

\* The byte that is damaged is one of a body, and all bytes were as generated.
LEMMA DamageSeenInv ==
  ASSUME Inv, SeenInv, NEW i \in DOMAIN sent, NEW d \in 1 .. Len(Body(sent[i])), NEW b \in Byte,
         Damage(i, d, b)
  PROVE  SeenInv'
<1> DEFINE p == start[i] + 3 + d
<1>1. TypeOK /\ Layout /\ Intact
  BY DEF Inv
<1>2. /\ ~damaged /\ stream' = [stream EXCEPT ![p] = b]
      /\ UNCHANGED <<sent, start, arrived, taken, parsing, got, dropped>>
  BY DEF Damage
<1>3. /\ Len(sent) \in Nat /\ stream \in Seq(Byte) /\ Len(stream) \in Nat
      /\ i \in 1 .. Len(sent)
  BY <1>1, StateFacts
<1>4. \A k \in 1 .. Len(sent) :
        /\ sent[k] \in Sendable /\ start[k] \in Nat
        /\ End(k) = start[k] + Len(Generated(sent[k]))
        /\ End(k) \in Nat /\ End(k) <= Len(stream)
  BY <1>1, StateFacts
<1>5. Len(Body(sent[i])) \in Nat /\ Len(Generated(sent[i])) = Len(Body(sent[i])) + 4
  BY <1>3, <1>4, LengthFacts
<1>6. p \in Int /\ start[i] < p /\ p <= End(i)
  <2>1. start[i] \in Nat /\ End(i) = start[i] + Len(Generated(sent[i]))
    BY <1>3, <1>4
  <2> QED
    BY <2>1, <1>5, SMT
<1> HIDE DEF p
<1>7. Len(stream') = Len(stream)
  BY <1>2, <1>3
<1>8. ASSUME NEW q \in 1 .. Len(stream), q # p PROVE stream'[q] = stream[q]
  <2>1. stream \in [1 .. Len(stream) -> Byte]
    BY <1>3
  <2> QED
    BY <2>1, <1>2, <1>8
<1>9. Almost'
  <2> SUFFICES ASSUME NEW k \in 1 .. Len(sent)
               PROVE  \E e \in 1 .. Len(Body(sent[k])) : \A j \in 1 .. Len(Generated(sent[k])) :
                        j # 3 + e => stream'[start[k] + j] = Generated(sent[k])[j]
    BY <1>2 DEF Almost
  <2>0. /\ start[k] \in Nat /\ End(k) = start[k] + Len(Generated(sent[k]))
        /\ End(k) \in Nat /\ End(k) <= Len(stream)
    BY <1>4
  <2>1. Len(Generated(sent[k])) \in Nat
    BY <1>4, LengthFacts
  <2>2. ASSUME NEW j \in 1 .. Len(Generated(sent[k])), start[k] + j # p
        PROVE  stream'[start[k] + j] = Generated(sent[k])[j]
    <3>1. start[k] + j \in 1 .. Len(stream)
      BY <2>0, <2>1, <1>3, Within
    <3>2. stream[start[k] + j] = Generated(sent[k])[j]
      BY <1>1, <1>2 DEF Intact
    <3> QED
      BY <2>2, <3>1, <3>2, <1>8
  <2>3. CASE k = i
    <3>1. ASSUME NEW j \in 1 .. Len(Generated(sent[k])), j # 3 + d PROVE start[k] + j # p
      <4>1. start[k] \in Nat /\ p = start[k] + 3 + d /\ d \in Nat /\ j \in Nat
        BY <2>0, <2>1, <2>3, <1>5 DEF p
      <4> QED
        BY <3>1, <4>1, SMTT(20)
    <3>2. d \in 1 .. Len(Body(sent[k]))
      BY <2>3
    <3> QED
      BY <2>2, <3>1, <3>2
  <2>4. CASE k # i
    <3>1. End(k) <= start[i] \/ End(i) <= start[k]
      BY <2>4, <1>3, SMT DEF SeenInv, Apart
    <3>2. ASSUME NEW j \in 1 .. Len(Generated(sent[k])) PROVE start[k] + j # p
      <4>1. start[i] \in Nat /\ End(i) \in Nat
        BY <1>3, <1>4
      <4> DEFINE q == start[k] + j
      <4>2. q \in Nat /\ start[k] < q /\ q <= End(k)
        BY <2>0, <2>1, SMT
      <4>3. start[k] \in Nat /\ End(k) \in Nat
        BY <2>0
      <4> HIDE DEF q
      <4>4. q # p
        BY <3>1, <4>1, <4>2, <4>3, <1>6, SMT
      <4> QED
        BY <4>4 DEF q
    <3>3. 1 \in 1 .. Len(Body(sent[k]))
      BY <1>4, BodyLength
    <3> QED
      BY <2>2, <3>2, <3>3
  <2> QED
    BY <2>3, <2>4
<1>10. Apart' /\ Aligned'
  BY <1>2, <1>7 DEF SeenInv, Apart, Aligned, End
<1>11. DamageSeen'
  BY <1>2 DEF SeenInv, DamageSeen
<1> QED
  BY <1>9, <1>10, <1>11 DEF SeenInv

\* What leaves the packets, the stream and the packets returned as they are.
LEMMA QuietSeen ==
  ASSUME SeenInv, UNCHANGED <<sent, stream, start, got>>,
         ~dropped' => ~dropped /\ (taken' = taken \/ Aligned')
  PROVE  SeenInv'
<1>0. sent' = sent /\ stream' = stream /\ start' = start /\ got' = got
  OBVIOUS
<1>1. Apart' /\ Almost'
  BY <1>0 DEF SeenInv, Apart, Almost, End
<1>2. Aligned'
  BY <1>0 DEF SeenInv, Aligned
<1>3. DamageSeen'
  BY <1>0 DEF SeenInv, DamageSeen
<1> QED
  BY <1>1, <1>2, <1>3 DEF SeenInv

\* In front of the receiver is a packet, damaged at one byte of its body at most.
LEMMA DamagedFront ==
  ASSUME Inv, SeenInv, ~dropped, Size >= MIN_SIZE
  PROVE  \E k \in 1 .. Len(sent) :
           /\ taken = start[k] /\ taken + Total = End(k)
           /\ Buffer(1) = PROTO_HEAD
           /\ Length = Len(Body(sent[k])) /\ Buffer(Total) = CRC8(Body(sent[k]))
           /\ \E d \in 1 .. Length : \A j \in 1 .. Length :
                j # d => Buffer(3 + j) = Body(sent[k])[j]
<1>1. TypeOK /\ Layout
  BY DEF Inv
<1>2. taken < Len(stream)
  BY <1>1, StateFacts, BaseFacts, SMT DEF Size
<1>3. PICK k \in 1 .. Len(sent) : taken = start[k]
  BY <1>2, SMT DEF SeenInv, Aligned
<1> DEFINE g == Generated(sent[k])
           body == Body(sent[k])
<1>4. PICK d \in 1 .. Len(body) : \A j \in 1 .. Len(g) : j # 3 + d => stream[start[k] + j] = g[j]
  BY DEF SeenInv, Almost
<1>5. /\ sent[k] \in Sendable
      /\ End(k) = start[k] + Len(g)
  BY <1>1, StateFacts
<1>6. /\ Len(body) \in Nat /\ Len(g) = Len(body) + 4
      /\ g[1] = PROTO_HEAD /\ Base * g[3] + g[2] = Len(body)
      /\ \A i \in 1 .. Len(body) : g[3 + i] = body[i]
      /\ g[Len(body) + 4] = CRC8(body)
  BY <1>5, GeneratedFacts, LengthFacts, BaseFacts
<1> HIDE DEF g, body
<1>7. \A j \in 1 .. Len(g) : j # 3 + d => Buffer(j) = g[j]
  BY <1>3, <1>4 DEF Buffer
<1>8. Buffer(1) = g[1] /\ Buffer(2) = g[2] /\ Buffer(3) = g[3]
  <2>1. /\ 1 \in 1 .. Len(g) /\ 2 \in 1 .. Len(g) /\ 3 \in 1 .. Len(g)
        /\ 1 # 3 + d /\ 2 # 3 + d /\ 3 # 3 + d
    BY <1>6, SMT
  <2> QED
    BY <2>1, <1>7
<1>9. Length = Len(body)
  BY <1>6, <1>8 DEF Length
<1>10. Total = Len(g)
  BY <1>6, <1>9, BaseFacts DEF Total
<1>11. Buffer(Total) = CRC8(body)
  <2>1. Len(g) \in 1 .. Len(g) /\ Len(g) # 3 + d
    BY <1>6, SMT
  <2> QED
    BY <2>1, <1>6, <1>7, <1>10
<1>12. ASSUME NEW j \in 1 .. Len(body), j # d PROVE Buffer(3 + j) = body[j]
  <2>1. 3 + j \in 1 .. Len(g) /\ 3 + j # 3 + d
    BY <1>6, <1>12, SMT
  <2> QED
    BY <2>1, <1>6, <1>7
<1> QED
  BY <1>3, <1>5, <1>6, <1>8, <1>9, <1>10, <1>11, <1>12 DEF body

\* What is behind a packet that is taken is the next one.
LEMMA TakenAligned ==
  ASSUME Inv, SeenInv, Size >= MIN_SIZE, taken' = taken + Total,
         UNCHANGED <<sent, stream, start, dropped>>
  PROVE  Aligned'
<1> SUFFICES ASSUME ~dropped
             PROVE  taken' = Len(stream) \/ \E k \in 1 .. Len(sent) : taken' = start[k]
  BY DEF Aligned
<1>1. PICK k \in 1 .. Len(sent) : taken + Total = End(k)
  BY DamagedFront
<1>2. TypeOK /\ Layout
  BY DEF Inv
<1>3. End(k) = IF k < Len(sent) THEN start[k + 1] ELSE Len(stream)
  BY <1>2 DEF Layout
<1>4. k < Len(sent) => k + 1 \in 1 .. Len(sent)
  BY <1>2, StateFacts, SMT
<1> QED
  BY <1>1, <1>3, <1>4

\* A valid packet agrees with the one generated where the checksum covers it.
LEMMA ValidAgrees ==
  ASSUME Inv, SeenInv, ~dropped, Size >= MIN_SIZE, Size >= Total, Valid
  PROVE  \E k \in DOMAIN sent : Agree(Body(Parsed), Body(sent[k]))
<1>1. PICK k \in 1 .. Len(sent) :
        /\ Length = Len(Body(sent[k])) /\ Buffer(Total) = CRC8(Body(sent[k]))
        /\ \E d \in 1 .. Length : \A j \in 1 .. Length :
             j # d => Buffer(3 + j) = Body(sent[k])[j]
  BY DamagedFront
<1> DEFINE body == Body(sent[k])
<1>2. PICK d \in 1 .. Length : \A j \in 1 .. Length : j # d => Buffer(3 + j) = body[j]
  BY <1>1
<1>3. TypeOK /\ Layout
  BY DEF Inv
<1>4. /\ \A i \in 1 .. Size : Buffer(i) \in Byte
      /\ Total \in Nat /\ Size \in Nat
  BY <1>3, BufferFacts
<1>5. sent[k] \in Packets /\ k \in DOMAIN sent
  BY <1>3, StateFacts
<1>6. body \in Seq(Byte) /\ Len(body) = Length /\ body[2] = 0 /\ Length \in Nat
  BY <1>1, <1>5, BodyFacts
<1>7. /\ Total = Length + 4 /\ Total >= MIN_SIZE /\ NO_CRC_LENGTH = 4
      /\ MIN_SIZE \in Nat /\ MIN_SIZE = IF IfAck THEN 7 ELSE 6
  BY BaseFacts DEF Total, Valid, MIN_SIZE
<1>8. ASSUME NEW j \in 1 .. Length PROVE Buffer(3 + j) \in Byte
  <2>1. 3 + j \in 1 .. Size
    BY <1>4, <1>6, <1>7, SMT
  <2> QED
    BY <2>1, <1>4
<1>9. Checked \in Seq(Byte) /\ Len(Checked) = Length
      /\ \A j \in 1 .. Length : Checked[j] = Buffer(3 + j)
  BY <1>6, <1>8 DEF Checked
<1>10. CRC8(Checked) = CRC8(body)
  BY <1>1 DEF Valid
<1> HIDE DEF body
<1>11. ASSUME NEW j \in 1 .. Length % Base PROVE Checked[j] = body[j] /\ j \in 1 .. Length
  <2>1. j \in 1 .. Length
    <3>1. Length % Base \in 0 .. Length
      BY <1>6, CoveredFacts
    <3> QED
      BY <3>1, <1>6, SMT
  <2>2. ASSUME Checked[j] # body[j] PROVE FALSE
    <3>1. j = d
      BY <2>1, <2>2, <1>2, <1>9
    <3>2. \A i \in 1 .. Len(body) : i # j => Checked[i] = body[i]
      BY <3>1, <1>2, <1>6, <1>9
    <3>3. CRC8(Checked) # CRC8(body)
      BY <2>2, <3>2, <1>6, <1>9, OneByteSeen
    <3> QED
      BY <3>3, <1>10
  <2> QED
    BY <2>1, <2>2
<1>12. /\ Parsed \in [cmd : Byte, status : Byte, data : Seq(Byte)]
       /\ Parsed.cmd = Checked[1] /\ (IfAck => Parsed.status = Checked[3])
       /\ Len(Parsed.data) = Length + 4 - MIN_SIZE
       /\ \A i \in 1 .. Length + 4 - MIN_SIZE : Parsed.data[i] = Checked[MIN_SIZE - 4 + i]
  <2>1. Total - MIN_SIZE = Length + 4 - MIN_SIZE /\ Total - MIN_SIZE \in Nat
    BY <1>4, <1>6, <1>7, SMT
  <2>2. ASSUME NEW i \in 1 .. Total - MIN_SIZE
        PROVE  /\ Buffer(MIN_SIZE - 1 + i) \in Byte
               /\ Checked[MIN_SIZE - 4 + i] = Buffer(MIN_SIZE - 1 + i)
    <3>1. MIN_SIZE - 4 + i \in 1 .. Length /\ 3 + (MIN_SIZE - 4 + i) = MIN_SIZE - 1 + i
      BY <2>1, <1>4, <1>6, <1>7, SMT
    <3> QED
      BY <3>1, <1>8, <1>9
  <2>3. 1 \in 1 .. Length /\ (IfAck => 3 \in 1 .. Length) /\ 3 + 1 = 4 /\ 3 + 3 = 6 /\ 0 \in Byte
    BY <1>6, <1>7, BaseFacts, SMT DEF Byte
  <2>4. /\ Buffer(4) = Checked[1] /\ Buffer(4) \in Byte
        /\ IfAck => Buffer(6) = Checked[3] /\ Buffer(6) \in Byte
    BY <2>3, <1>8, <1>9
  <2> DEFINE data == [i \in 1 .. Total - MIN_SIZE |-> Buffer(MIN_SIZE - 1 + i)]
  <2>5. /\ data \in Seq(Byte) /\ Len(data) = Total - MIN_SIZE
        /\ \A i \in 1 .. Total - MIN_SIZE : data[i] = Checked[MIN_SIZE - 4 + i]
    BY <2>1, <2>2
  <2>6. Parsed = [cmd |-> Buffer(4), status |-> IF IfAck THEN Buffer(6) ELSE 0, data |-> data]
    BY DEF Parsed
  <2> HIDE DEF data
  <2> QED
    BY <2>1, <2>3, <2>4, <2>5, <2>6
<1> DEFINE is == Body(Parsed)
<1>13. /\ Len(is) = MIN_SIZE - 4 + Len(Parsed.data)
       /\ is[1] = Checked[1] /\ is[2] = 0 /\ (IfAck => is[3] = Checked[3])
       /\ \A i \in 1 .. Len(Parsed.data) : is[MIN_SIZE - 4 + i] = Parsed.data[i]
  BY <1>7, <1>12, BodyPlaces
<1> HIDE DEF is
<1>14. Len(is) = Length
  BY <1>6, <1>7, <1>12, <1>13, SMT
<1>15. ASSUME NEW j \in 1 .. Length PROVE is[j] = IF j = 2 THEN 0 ELSE Checked[j]
  <2>1. CASE j <= MIN_SIZE - 4
    <3>1. j = 1 \/ j = 2 \/ (j = 3 /\ IfAck)
      BY <2>1, <1>6, <1>7, SMT
    <3> QED
      BY <3>1, <1>13, SMT
  <2>2. CASE j > MIN_SIZE - 4
    <3> DEFINE i == j - (MIN_SIZE - 4)
    <3>1. i \in 1 .. Length + 4 - MIN_SIZE /\ MIN_SIZE - 4 + i = j /\ j # 2
      BY <2>2, <1>6, <1>7, SMT
    <3> HIDE DEF i
    <3> QED
      BY <3>1, <1>12, <1>13
  <2> QED
    BY <2>1, <2>2, <1>7, SMT
<1>16. Len(is) = Len(body) /\ \A j \in 1 .. Len(body) % Base : is[j] = body[j]
  BY <1>6, <1>11, <1>14, <1>15
<1> QED
  BY <1>5, <1>16 DEF Agree, is, body

LEMMA ReturnTrueSeen ==
  ASSUME Inv, SeenInv, ReturnTrue
  PROVE  SeenInv'
<1>1. TypeOK /\ Layout
  BY DEF Inv
<1>2. /\ Size >= MIN_SIZE /\ Size >= Total /\ Valid
      /\ taken' = taken + Total /\ got' = Append(got, Parsed)
      /\ sent' = sent /\ stream' = stream /\ start' = start /\ dropped' = dropped
  BY DEF ReturnTrue
<1>3. Apart' /\ Almost'
  BY <1>2 DEF SeenInv, Apart, Almost, End
<1>4. Aligned'
  BY <1>2, TakenAligned
<1>5. DamageSeen'
  <2> SUFFICES ASSUME ~dropped, NEW i \in DOMAIN got'
               PROVE  \E k \in DOMAIN sent : Agree(Body(got'[i]), Body(sent[k]))
    BY <1>2 DEF DamageSeen
  <2>1. (i \in DOMAIN got /\ got'[i] = got[i]) \/ got'[i] = Parsed
    BY <1>1, <1>2 DEF TypeOK
  <2>2. CASE i \in DOMAIN got /\ got'[i] = got[i]
    BY <2>2 DEF SeenInv, DamageSeen
  <2>3. CASE got'[i] = Parsed
    BY <2>3, <1>2, ValidAgrees
  <2> QED
    BY <2>1, <2>2, <2>3
<1> QED
  BY <1>3, <1>4, <1>5 DEF SeenInv

\* Whichever byte between the length and the checksum of a packet is damaged, what
\* parseFrom returns agrees, as far as the checksum covers it, with a packet that
\* was generated (CRC8.c:25, cmpOffProto.hpp:111-137).
THEOREM DamageIsSeen == Spec => []DamageSeen
<1>1. Init => SeenInv
  BY InitSeen
<1>2. Inv /\ Inv' /\ SeenInv /\ [Next]_vars => SeenInv'
  <2> SUFFICES ASSUME Inv, Inv', SeenInv, [Next]_vars PROVE SeenInv'
    OBVIOUS
  <2>1. CASE \E m \in Packets : Generate(m)
    BY <2>1, GenerateSeen
  <2>2. CASE \E i \in DOMAIN sent : \E j \in 1 .. Len(Body(sent[i])) : \E b \in Byte : Damage(i, j, b)
    BY <2>2, DamageSeenInv
  <2>3. CASE \E n \in 1 .. Len(stream) : Arrive(n)
    BY <2>3, QuietSeen DEF Arrive
  <2>4. CASE ReturnFalse
    BY <2>4, QuietSeen DEF ReturnFalse
  <2>5. CASE Skip
    <3>1. Size >= MIN_SIZE /\ Buffer(1) # PROTO_HEAD
      BY <2>5 DEF Skip
    <3>2. dropped
      BY <3>1, DamagedFront
    <3> QED
      BY <2>5, <3>2, QuietSeen DEF Skip
  <2>6. CASE ReturnTrue
    BY <2>6, ReturnTrueSeen
  <2>7. CASE Discard
    <3>1. Aligned'
      BY <2>7, TakenAligned DEF Discard
    <3> QED
      BY <2>7, <3>1, QuietSeen DEF Discard
  <2>8. CASE UNCHANGED vars
    BY <2>8, QuietSeen DEF vars
  <2> QED
    BY <2>1, <2>2, <2>3, <2>4, <2>5, <2>6, <2>7, <2>8 DEF Next, Parse
<1>3. SeenInv => DamageSeen
  BY DEF SeenInv
<1> QED
  BY <1>1, <1>2, <1>3, Invariance, PTL DEF Spec

-----------------------------------------------------------------------------
(* Wire, for integers of any width, any strings and any precision of the   *)
(* numbers written: what arrives, what comes back.                         *)

\* A variable has a kind and values of that kind, exactly one if it is no array.
LEMMA VariableFacts ==
  ASSUME NEW v \in Variables
  PROVE  /\ v.kind \in Kinds /\ v.array \in BOOLEAN
         /\ v.items \in Seq(ValuesOf(v.kind)) /\ Len(v.items) \in Nat
         /\ ~v.array => \E x \in ValuesOf(v.kind) : v.items = <<x>>
<1>1. PICK k \in Kinds : \/ v \in [kind : {k}, array : {TRUE}, items : Seq(ValuesOf(k))]
                         \/ v \in [kind : {k}, array : {FALSE}, items : {<<x>> : x \in ValuesOf(k)}]
  BY DEF Variables
<1>2. CASE v \in [kind : {k}, array : {TRUE}, items : Seq(ValuesOf(k))]
  <2>1. v.kind = k /\ v.array = TRUE /\ v.items \in Seq(ValuesOf(k))
    BY <1>2
  <2>2. v.items \in Seq(ValuesOf(v.kind)) /\ v.kind \in Kinds
    BY <1>1, <2>1
  <2>3. Len(v.items) \in Nat
    BY <2>1
  <2> QED
    BY <2>1, <2>2, <2>3
<1>3. CASE v \in [kind : {k}, array : {FALSE}, items : {<<x>> : x \in ValuesOf(k)}]
  <2>1. v.kind = k /\ v.array = FALSE /\ v.items \in {<<x>> : x \in ValuesOf(k)}
    BY <1>3
  <2>2. PICK x \in ValuesOf(k) : v.items = <<x>>
    BY <2>1
  <2>3. <<x>> \in Seq(ValuesOf(k)) /\ Len(<<x>>) = 1
    OBVIOUS
  <2> QED
    BY <1>1, <2>1, <2>2, <2>3
<1> QED
  BY <1>1, <1>2, <1>3

\* No type has two tags.
LEMMA OneTag ==
  ASSUME NEW t \in DOMAIN TypesOf, NEW u \in DOMAIN TypesOf, NEW n \in TypesOf[t], n \in TypesOf[u]
  PROVE  t = u
  BY SMT DEF TypesOf, Bool, SByte, Int32, Int64, UInt64, Float, Double, String, Vector

LEMMA TagFacts ==
  ASSUME NEW v, NEW t \in DOMAIN TypesOf, Type(v) \in TypesOf[t]
  PROVE  Tag(v) = t
<1>1. Tag(v) \in DOMAIN TypesOf /\ Type(v) \in TypesOf[Tag(v)]
  BY DEF Tag
<1> QED
  BY <1>1, OneTag

LEMMA ScalarTags ==
  ASSUME NEW v, ~v.array, v.kind \in Kinds
  PROVE  /\ v.kind = Bool => Tag(v) = "b"
         /\ v.kind = SByte => Tag(v) = "c"
         /\ v.kind \in 2 .. Int32 => Tag(v) = "i"
         /\ v.kind \in 6 .. UInt64 => Tag(v) = "l"
         /\ v.kind = Float => Tag(v) = "f"
         /\ v.kind = Double => Tag(v) = "d"
         /\ v.kind = String => Tag(v) = "s"
<1>1. Type(v) = v.kind
  BY SMT DEF Type, Kinds, String
<1> USE <1>1, TagFacts DEF TypesOf
<1>2. v.kind = Bool => Tag(v) = "b"
  OBVIOUS
<1>3. v.kind = SByte => Tag(v) = "c"
  OBVIOUS
<1>4. v.kind \in 2 .. Int32 => Tag(v) = "i"
  OBVIOUS
<1>5. v.kind \in 6 .. UInt64 => Tag(v) = "l"
  OBVIOUS
<1>6. v.kind = Float => Tag(v) = "f"
  OBVIOUS
<1>7. v.kind = Double => Tag(v) = "d"
  OBVIOUS
<1>8. v.kind = String => Tag(v) = "s"
  OBVIOUS
<1> QED
  BY <1>2, <1>3, <1>4, <1>5, <1>6, <1>7, <1>8

LEMMA ArrayTags ==
  ASSUME NEW v, v.array, v.kind \in Kinds
  PROVE  /\ v.kind = Bool => Tag(v) = "B"
         /\ v.kind \in 1 .. Int32 => Tag(v) = "I"
         /\ v.kind \in 6 .. UInt64 => Tag(v) = "L"
         /\ v.kind \in {Float, Double} => Tag(v) = "d"
         /\ v.kind = String => Tag(v) = "S"
<1>1. Type(v) = Vector + v.kind
  BY SMT DEF Type, Kinds, String, Vector
<1> USE <1>1, TagFacts DEF TypesOf
<1>2. v.kind = Bool => Tag(v) = "B"
  BY SMT DEF Bool, Vector
<1>3. v.kind \in 1 .. Int32 => Tag(v) = "I"
  BY SMT DEF Int32, Vector
<1>4. v.kind \in 6 .. UInt64 => Tag(v) = "L"
  BY SMT DEF UInt64, Vector
<1>5. v.kind \in {Float, Double} => Tag(v) = "d"
  BY SMT DEF Float, Double, Vector
<1>6. v.kind = String => Tag(v) = "S"
  OBVIOUS
<1> QED
  BY <1>2, <1>3, <1>4, <1>5, <1>6

\* What is rounded is rounded.
LEMMA RoundedTwice ==
  ASSUME NEW x \in Int
  PROVE  Rounded(x) \in Int /\ Rounded(Rounded(x)) = Rounded(x)
<1>1. Grain \in Nat /\ Grain > 0
  BY BoundsAssumption
<1> DEFINE n == (2 * x + Grain) \div (2 * Grain)
<1>2. n \in Int
  BY <1>1, SMT
<1>3. Rounded(x) = Grain * n
  BY DEF Rounded
<1> HIDE DEF n
<1>4. Grain * n \in Int
  BY <1>1, <1>2, SMT
<1>5. (2 * (Grain * n) + Grain) \div (2 * Grain) = n
  BY <1>1, <1>2, SMT
<1>6. Rounded(Grain * n) = Grain * n
  BY <1>5 DEF Rounded
<1> QED
  BY <1>3, <1>4, <1>6

\* The numbers of each kind: those of up to four bytes are 32 or 64 bits long.
LEMMA ValueFacts ==
  /\ ValuesOf(Bool) = {0, 1} /\ ValuesOf(Bool) \subseteq ValuesOf(Int64)
  /\ \A k \in 2 .. Int32 : ValuesOf(k) \subseteq ValuesOf(Int32)
  /\ ValuesOf(Int32) \subseteq ValuesOf(Int64) /\ ValuesOf(6) \subseteq ValuesOf(Int64)
  /\ ValuesOf(Int64) \subseteq Int
  /\ ValuesOf(Float) = Floats /\ ValuesOf(Double) = Floats /\ ValuesOf(String) = Texts
<1> DEFINE a == Half[1]
           b == Half[2]
           c == Half[4]
           d == Half[8]
<1>1. /\ a \in Nat /\ b \in Nat /\ c \in Nat /\ d \in Nat
      /\ a >= 1 /\ a <= b /\ 2 * b <= c /\ 2 * c <= d
  BY HalfAssumption
<1>2. /\ ValuesOf(2) = 0 .. 2 * a - 1 /\ ValuesOf(3) = - b .. b - 1 /\ ValuesOf(4) = 0 .. 2 * b - 1
      /\ ValuesOf(5) = - c .. c - 1 /\ ValuesOf(6) = 0 .. 2 * c - 1 /\ ValuesOf(7) = - d .. d - 1
  BY SMT DEF ValuesOf, Integral, Signed, Unsigned, Bool, Float, Double
<1>3. /\ ValuesOf(Bool) = {0, 1} /\ ValuesOf(Float) = Floats /\ ValuesOf(Double) = Floats
      /\ ValuesOf(String) = Texts
  BY SMT DEF ValuesOf, Integral, Bool, Float, Double, String
<1> HIDE DEF a, b, c, d
<1>4. \A k \in 2 .. 5 : ValuesOf(k) \subseteq ValuesOf(5)
  <2>1. /\ ValuesOf(2) \subseteq ValuesOf(5) /\ ValuesOf(3) \subseteq ValuesOf(5)
        /\ ValuesOf(4) \subseteq ValuesOf(5)
    <3>1. \A x \in 0 .. 2 * a - 1 : x \in - c .. c - 1
      BY <1>1, SMT
    <3>2. \A x \in - b .. b - 1 : x \in - c .. c - 1
      BY <1>1, SMT
    <3>3. \A x \in 0 .. 2 * b - 1 : x \in - c .. c - 1
      BY <1>1, SMT
    <3> QED
      BY <1>2, <3>1, <3>2, <3>3, Zenon
  <2>2. \A k \in 2 .. 5 : k = 2 \/ k = 3 \/ k = 4 \/ k = 5
    BY SMT
  <2> QED
    BY <2>1, <2>2
<1>5. /\ ValuesOf(5) \subseteq ValuesOf(7) /\ ValuesOf(6) \subseteq ValuesOf(7)
      /\ ValuesOf(7) \subseteq Int /\ {0, 1} \subseteq ValuesOf(7)
  <2>1. \A x \in - c .. c - 1 : x \in - d .. d - 1
    BY <1>1, SMT
  <2>2. \A x \in 0 .. 2 * c - 1 : x \in - d .. d - 1
    BY <1>1, SMT
  <2>3. \A x \in - d .. d - 1 : x \in Int
    BY <1>1, SMT
  <2>4. 0 \in - d .. d - 1 /\ 1 \in - d .. d - 1
    BY <1>1, SMT
  <2> QED
    BY <1>2, <2>1, <2>2, <2>3, <2>4, Zenon
<1> QED
  BY <1>3, <1>4, <1>5 DEF Int32, Int64

\* Messages of which all parts are given are one message.
LEMMA OneMessage ==
  ASSUME NEW t, NEW a, NEW p
  PROVE  [tag : {t}, array : {a}, items : {p}] = {[tag |-> t, array |-> a, items |-> p]}
<1>1. ASSUME NEW m \in [tag : {t}, array : {a}, items : {p}]
      PROVE  m = [tag |-> t, array |-> a, items |-> p]
  <2>1. m = [tag |-> m.tag, array |-> m.array, items |-> m.items]
    OBVIOUS
  <2>2. m.tag = t /\ m.array = a /\ m.items = p
    OBVIOUS
  <2> QED
    BY <2>1, <2>2
<1>2. [tag |-> t, array |-> a, items |-> p] \in [tag : {t}, array : {a}, items : {p}]
  OBVIOUS
<1> QED
  BY <1>1, <1>2, Zenon

\* One value is sent as it is printed, and the runner makes one value of it.
LEMMA ScalarSent ==
  ASSUME NEW v \in Variables, ~v.array
  PROVE  Sent(v) = {[tag |-> Tag(v), array |-> FALSE, items |-> Printed(v)]}
<1>1. PICK x \in ValuesOf(v.kind) : v.items = <<x>>
  BY VariableFacts
<1>2. Len(v.items) = 1
  BY <1>1
<1>3. ~(Len(v.items) > MaxItems) /\ v.array = FALSE
  BY <1>2, VariableFacts, BoundsAssumption, SMT
<1>4. ItemsSent(v) = {Printed(v)}
  BY DEF ItemsSent
<1>5. Sent(v) = [tag : {Tag(v)}, array : {FALSE}, items : {Printed(v)}]
  BY <1>3, <1>4 DEF Sent
<1> QED
  BY <1>5, OneMessage

LEMMA ScalarArrives ==
  ASSUME NEW v \in Variables, ~v.array, NEW m,
         m = [tag |-> Tag(v), array |-> FALSE, items |-> Printed(v)]
  PROVE  Arrives(v) = Given(m) /\ (MayKill(v) <=> Dies(m))
  BY ScalarSent DEF Arrives, MayKill

\* What the runner makes of one value, by its kind.
LEMMA Numbers ==
  ASSUME NEW v \in Variables, ~v.array
  PROVE  /\ Printed(v) = <<Printed(v)[1]>>
         /\ v.kind = Bool \/ v.kind \in 2 .. 7 \/ (v.kind = UInt64 /\ v.items[1] \in ValuesOf(Int64)) =>
              /\ Printed(v)[1] \in ValuesOf(Int64)
              /\ Arrives(v) = {[type |-> "int", items |-> Printed(v)]} /\ ~MayKill(v)
         /\ v.kind = UInt64 /\ v.items[1] \notin ValuesOf(Int64) => Arrives(v) = {}
         /\ v.kind = SByte =>
              Arrives(v) = {[type |-> "bytes", items |-> Printed(v)]} /\ ~MayKill(v)
         /\ v.kind \in {Float, Double} =>
              /\ Printed(v)[1] \in Int /\ Rounded(Printed(v)[1]) = Printed(v)[1]
              /\ Printed(v)[1] \in Floats
              /\ Arrives(v) = {[type |-> "float", items |-> Printed(v)]} /\ ~MayKill(v)
         /\ v.kind = String =>
              Arrives(v) = {[type |-> "str", items |-> Printed(v)]} /\ ~MayKill(v)
<1> DEFINE m == [tag |-> Tag(v), array |-> FALSE, items |-> Printed(v)]
<1>1. PICK x \in ValuesOf(v.kind) : v.items = <<x>>
  BY VariableFacts
<1>2. v.kind \in Kinds
  BY VariableFacts
<1>3. Arrives(v) = Given(m) /\ (MayKill(v) <=> Dies(m))
  BY ScalarArrives
<1>4. Printed(v) = IF v.kind \in {Float, Double} THEN <<Rounded(x)>> ELSE <<x>>
  BY <1>1 DEF Printed
<1>5. Printed(v) = <<Printed(v)[1]>> /\ Printed(v) # <<>>
  BY <1>4
<1>6. m.tag = Tag(v) /\ m.array = FALSE /\ m.items = Printed(v)
  OBVIOUS
<1> HIDE DEF m
<1>7. ASSUME m.tag \in DOMAIN PythonType, ~Dies(m)
      PROVE  Arrives(v) = {[type |-> PythonType[m.tag], items |-> Printed(v)]} /\ ~MayKill(v)
  BY <1>3, <1>5, <1>6, <1>7 DEF Given
<1>8. Dies(m) => \/ m.tag = "i" /\ Printed(v)[1] \notin ValuesOf(Int32)
                 \/ m.tag = "l" /\ Printed(v)[1] \notin ValuesOf(Int64)
  BY <1>6 DEF Dies
<1>9. ASSUME v.kind = Bool
      PROVE  /\ Printed(v)[1] \in ValuesOf(Int64)
             /\ Arrives(v) = {[type |-> "int", items |-> Printed(v)]} /\ ~MayKill(v)
  <2>1. m.tag = "b" /\ Printed(v)[1] = x /\ x \in ValuesOf(Int64)
    BY <1>1, <1>2, <1>4, <1>6, <1>9, ScalarTags, ValueFacts, SMT DEF Bool, Float, Double
  <2> QED
    BY <2>1, <1>7, <1>8 DEF PythonType
<1>10. ASSUME v.kind \in 2 .. Int32
       PROVE  /\ Printed(v)[1] \in ValuesOf(Int64)
              /\ Arrives(v) = {[type |-> "int", items |-> Printed(v)]} /\ ~MayKill(v)
  <2>1. m.tag = "i"
    BY <1>2, <1>6, <1>10, ScalarTags
  <2>2. Printed(v)[1] = x
    BY <1>4, <1>10, SMT DEF Int32, Float, Double
  <2>3. x \in ValuesOf(Int32) /\ x \in ValuesOf(Int64)
    BY <1>1, <1>10, ValueFacts
  <2> QED
    BY <2>1, <2>2, <2>3, <1>7, <1>8 DEF PythonType
<1>11. ASSUME v.kind \in 6 .. UInt64, x \in ValuesOf(Int64)
       PROVE  /\ Printed(v)[1] \in ValuesOf(Int64)
              /\ Arrives(v) = {[type |-> "int", items |-> Printed(v)]} /\ ~MayKill(v)
  <2>1. m.tag = "l"
    BY <1>2, <1>6, <1>11, ScalarTags
  <2>2. Printed(v)[1] = x
    BY <1>4, <1>11, SMT DEF UInt64, Float, Double
  <2> QED
    BY <2>1, <2>2, <1>7, <1>8, <1>11 DEF PythonType
<1>12. v.kind \in {6, 7} => x \in ValuesOf(Int64)
  BY <1>1, ValueFacts DEF Int64
<1>13. ASSUME v.kind = UInt64, x \notin ValuesOf(Int64)
       PROVE  Arrives(v) = {}
  <2>1. m.tag = "l"
    BY <1>2, <1>6, <1>13, ScalarTags, SMT DEF UInt64
  <2>2. Printed(v)[1] = x
    BY <1>4, <1>13, SMT DEF UInt64, Float, Double
  <2>3. Dies(m)
    BY <2>1, <2>2, <1>6, <1>13 DEF Dies
  <2> QED
    BY <2>3, <1>3 DEF Given
<1>14. ASSUME v.kind = SByte
       PROVE  Arrives(v) = {[type |-> "bytes", items |-> Printed(v)]} /\ ~MayKill(v)
  <2>1. m.tag = "c"
    BY <1>2, <1>6, <1>14, ScalarTags
  <2> QED
    BY <2>1, <1>7, <1>8 DEF PythonType
<1>15. ASSUME v.kind \in {Float, Double}
       PROVE  /\ Printed(v)[1] \in Int /\ Rounded(Printed(v)[1]) = Printed(v)[1]
              /\ Printed(v)[1] \in Floats
              /\ Arrives(v) = {[type |-> "float", items |-> Printed(v)]} /\ ~MayKill(v)
  <2>1. m.tag \in {"f", "d"}
    BY <1>2, <1>6, <1>15, ScalarTags
  <2>2. Printed(v)[1] = Rounded(x)
    BY <1>4, <1>15
  <2>3. x \in Int /\ x \in Floats
    BY <1>1, <1>15, ValueFacts, FloatsAssumption
  <2>4. Rounded(x) \in Int /\ Rounded(Rounded(x)) = Rounded(x) /\ Rounded(x) \in Floats
    BY <2>3, RoundedTwice, FloatsAssumption
  <2> QED
    BY <2>1, <2>2, <2>4, <1>7, <1>8 DEF PythonType
<1>16. ASSUME v.kind = String
       PROVE  Arrives(v) = {[type |-> "str", items |-> Printed(v)]} /\ ~MayKill(v)
  <2>1. m.tag = "s"
    BY <1>2, <1>6, <1>16, ScalarTags
  <2> QED
    BY <2>1, <1>7, <1>8 DEF PythonType
<1>17. v.items[1] = x
  BY <1>1
<1>18. /\ v.kind \in 2 .. 7 => v.kind \in 2 .. Int32 \/ v.kind \in {6, 7}
       /\ v.kind \in {6, 7} \/ v.kind = UInt64 => v.kind \in 6 .. UInt64
  BY SMT DEF Int32, UInt64
<1> QED
  BY <1>5, <1>9, <1>10, <1>11, <1>12, <1>13, <1>14, <1>15, <1>16, <1>17, <1>18
-----------------------------------------------------------------------------
(* The properties, of every variable.                                      *)

\* A number is the same number in the script, unless it is an unsigned one of more
\* than 63 bits; of its decimals six are kept (cmpOffloading.cpp:344, 411).
THEOREM NumbersArrive == \A v \in Variables : NumberArrives(v)
<1> SUFFICES ASSUME NEW v \in Variables, ~v.array, v.kind \notin {SByte, String},
                    v.kind = UInt64 => v.items[1] \in ValuesOf(Int64)
             PROVE  \E t \in {"int", "float"} : Arrives(v) = {[type |-> t, items |-> Printed(v)]}
  BY DEF NumberArrives
<1>1. v.kind \in Kinds
  BY VariableFacts
<1>2. v.kind = Bool \/ v.kind \in 2 .. 7 \/ v.kind = UInt64 \/ v.kind \in {Float, Double}
  BY <1>1, SMT DEF Kinds, Bool, SByte, UInt64, Float, Double, String
<1> QED
  BY <1>2, Numbers

\* An array of int, of long or of strings is in the script as it was; get() leaves
\* the elements of the other arrays unset (cmpOffloading.cpp:372-404).
THEOREM ArraysArrive == \A v \in Variables : ArrayArrives(v)
<1> SUFFICES ASSUME NEW v \in Variables, v.array, v.kind \in {Int32, Int64, String},
                    Len(v.items) \in 1 .. MaxItems
             PROVE  Arrives(v) = {[type |-> "list", items |-> v.items]}
  BY DEF ArrayArrives
<1>1. v.kind \in Kinds /\ v.array = TRUE /\ Len(v.items) \in Nat
  BY VariableFacts
<1>2. ~(Len(v.items) > MaxItems)
  BY <1>1, BoundsAssumption, SMT
<1>3. /\ v.kind = Int32 => Tag(v) = "I"
      /\ v.kind = Int64 => Tag(v) = "L"
      /\ v.kind = String => Tag(v) = "S"
  BY <1>1, ArrayTags, SMT DEF Int32, Int64, UInt64
<1>4. v.kind = ElementKind[Tag(v)] /\ Tag(v) \in {"I", "L", "S"}
  BY <1>3 DEF ElementKind
<1>5. ItemsSent(v) = {v.items}
  BY <1>4 DEF ItemsSent
<1>6. Sent(v) = [tag : {Tag(v)}, array : {TRUE}, items : {v.items}]
  BY <1>1, <1>2, <1>5 DEF Sent
<1> DEFINE m == [tag |-> Tag(v), array |-> TRUE, items |-> v.items]
<1>7. Sent(v) = {m}
  BY <1>6, OneMessage
<1>8. v.items # <<>>
  BY <1>1, SMT
<1>9. ~Dies(m) /\ m.tag \in DOMAIN PythonType /\ PythonType[m.tag] = "list"
  BY <1>4 DEF Dies, PythonType
<1>10. Given(m) = {[type |-> "list", items |-> v.items]}
  BY <1>8, <1>9 DEF Given
<1> HIDE DEF m
<1> QED
  BY <1>7, <1>10 DEF Arrives

\* What has come back once comes back the same: its type changes no more, and
\* neither do its decimals (cmpOffloading.cpp:286-329, pythonRunner.cpp:214-236).
THEOREM ResultsAreStable == \A v \in Variables : Stable(v)
<1> SUFFICES ASSUME NEW v \in Variables, NEW w \in Echo(v)
             PROVE  Echo(w) = {w}
  BY DEF Stable
<1>0. PICK r \in UNION {Result(y) : y \in Arrives(v)} : w = Received(r)
  BY DEF Echo
<1>1. PICK x \in Arrives(v) : r \in Result(x) /\ w = Received(r)
  BY <1>0
<1>2. Result(x) # {}
  BY <1>1
<1>3. PICK n : /\ x.items = <<n>>
               /\ \/ x.type = "int" /\ n \in ValuesOf(Int64)
                  \/ x.type = "float" /\ n \in Floats /\ Rounded(n) = n
                  \/ x.type = "str" /\ n \in Texts
  <2>1. CASE v.array
    <3>1. PICK m \in Sent(v) : x \in Given(m)
      BY <1>1 DEF Arrives
    <3>2. m.tag = Tag(v) /\ m.array = TRUE
      BY <2>1, <3>1, VariableFacts DEF Sent
    <3>3. v.kind \in Kinds
      BY VariableFacts
    <3>4. Tag(v) \in {"B", "I", "L", "d", "S"}
      BY <2>1, <3>3, ArrayTags, SMT DEF Kinds, Bool, Int32, UInt64, Float, Double, String
    <3>5. m.tag \in {"I", "L", "S"} /\ x.type = PythonType[m.tag]
      BY <3>1, <3>2, <3>4 DEF Given, Dies, PythonType
    <3>6. x.type = "list"
      BY <3>5 DEF PythonType
    <3> QED
      BY <1>2, <3>6 DEF Result
  <2>2. CASE ~v.array
    <3> DEFINE n == Printed(v)[1]
    <3>1. Printed(v) = <<n>> /\ v.kind \in Kinds
      BY <2>2, Numbers, VariableFacts
    <3>2. CASE v.kind = Bool \/ v.kind \in 2 .. 7 \/ (v.kind = UInt64 /\ v.items[1] \in ValuesOf(Int64))
      <4>1. n \in ValuesOf(Int64) /\ x = [type |-> "int", items |-> Printed(v)]
        BY <1>1, <2>2, <3>2, Numbers
      <4> QED
        BY <3>1, <4>1
    <3>3. CASE v.kind = UInt64 /\ v.items[1] \notin ValuesOf(Int64)
      BY <1>1, <2>2, <3>3, Numbers
    <3>4. CASE v.kind = SByte
      <4>1. x.type = "bytes"
        BY <1>1, <2>2, <3>4, Numbers
      <4> QED
        BY <1>2, <4>1 DEF Result
    <3>5. CASE v.kind \in {Float, Double}
      <4>1. n \in Floats /\ Rounded(n) = n /\ x = [type |-> "float", items |-> Printed(v)]
        BY <1>1, <2>2, <3>5, Numbers
      <4> QED
        BY <3>1, <4>1
    <3>6. CASE v.kind = String
      <4>1. x = [type |-> "str", items |-> Printed(v)]
        BY <1>1, <2>2, <3>6, Numbers
      <4>2. n \in Texts
        <5>1. PICK y \in ValuesOf(v.kind) : v.items = <<y>>
          BY <2>2, VariableFacts
        <5>2. n = y
          BY <3>6, <5>1, SMT DEF Printed, String, Float, Double
        <5> QED
          BY <3>6, <5>1, <5>2, ValueFacts
      <4> QED
        BY <3>1, <4>1, <4>2
    <3>7. \/ v.kind = Bool \/ v.kind \in 2 .. 7 \/ v.kind = UInt64 \/ v.kind = SByte
          \/ v.kind \in {Float, Double} \/ v.kind = String
      BY <3>1, SMT DEF Kinds, Bool, SByte, UInt64, Float, Double, String
    <3> QED
      BY <3>2, <3>3, <3>4, <3>5, <3>6, <3>7
  <2> QED
    BY <2>1, <2>2
<1>4. CASE x.type = "int" /\ n \in ValuesOf(Int64)
  <2>1. w = [kind |-> Int64, array |-> FALSE, items |-> <<n>>]
    <3>1. x.items = <<n>> /\ x.items[1] = n
      BY <1>3
    <3>2. Result(x) = {[tag |-> "l", items |-> <<n>>]}
      BY <3>1, <1>4 DEF Result
    <3>3. r = [tag |-> "l", items |-> <<n>>]
      BY <3>2, <1>1
    <3> QED
      BY <3>3, <1>1 DEF Received, KindOf
  <2>2. w \in Variables
    BY <2>1, <1>4, SMT DEF Variables, Kinds, Int64, String
  <2>3. Arrives(w) = {[type |-> "int", items |-> <<n>>]}
    <3>1. Printed(w) = <<n>> /\ w.kind \in 2 .. 7 /\ ~w.array
      BY <2>1, SMT DEF Printed, Int64, Float, Double
    <3> QED
      BY <2>2, <3>1, Numbers
  <2>4. Result([type |-> "int", items |-> <<n>>]) = {[tag |-> "l", items |-> <<n>>]}
    BY <1>4 DEF Result
  <2>5. Echo(w) = {Received([tag |-> "l", items |-> <<n>>])}
    BY <2>3, <2>4 DEF Echo
  <2> QED
    BY <2>1, <2>5 DEF Received, KindOf
<1>5. CASE x.type = "float" /\ n \in Floats /\ Rounded(n) = n
  <2>1. w = [kind |-> Double, array |-> FALSE, items |-> <<n>>]
    <3>1. x.items = <<n>> /\ x.items[1] = n
      BY <1>3
    <3>2. Result(x) = {[tag |-> "d", items |-> <<n>>]}
      BY <3>1, <1>5 DEF Result
    <3>3. r = [tag |-> "d", items |-> <<n>>]
      BY <3>2, <1>1
    <3> QED
      BY <3>3, <1>1 DEF Received, KindOf
  <2>2. w \in Variables
    BY <2>1, <1>5, ValueFacts, SMT DEF Variables, Kinds, Double, String
  <2>3. Arrives(w) = {[type |-> "float", items |-> <<n>>]}
    <3>1. Printed(w) = <<n>> /\ w.kind \in {Float, Double} /\ ~w.array
      BY <2>1, <1>5 DEF Printed
    <3> QED
      BY <2>2, <3>1, Numbers
  <2>4. Result([type |-> "float", items |-> <<n>>]) = {[tag |-> "d", items |-> <<n>>]}
    BY <1>5 DEF Result
  <2>5. Echo(w) = {Received([tag |-> "d", items |-> <<n>>])}
    BY <2>3, <2>4 DEF Echo
  <2> QED
    BY <2>1, <2>5 DEF Received, KindOf
<1>6. CASE x.type = "str" /\ n \in Texts
  <2>1. w = [kind |-> String, array |-> FALSE, items |-> <<n>>]
    <3>1. x.items = <<n>> /\ x.items[1] = n
      BY <1>3
    <3>2. Result(x) = {[tag |-> "s", items |-> <<n>>]}
      BY <3>1, <1>6 DEF Result
    <3>3. r = [tag |-> "s", items |-> <<n>>]
      BY <3>2, <1>1
    <3> QED
      BY <3>3, <1>1 DEF Received, KindOf
  <2>2. w \in Variables
    BY <2>1, <1>6, ValueFacts, SMT DEF Variables, Kinds, String
  <2>3. Arrives(w) = {[type |-> "str", items |-> <<n>>]}
    <3>1. Printed(w) = <<n>> /\ w.kind = String /\ ~w.array
      BY <2>1, SMT DEF Printed, String, Float, Double
    <3> QED
      BY <2>2, <3>1, Numbers
  <2>4. Result([type |-> "str", items |-> <<n>>]) = {[tag |-> "s", items |-> <<n>>]}
    BY DEF Result
  <2>5. Echo(w) = {Received([tag |-> "s", items |-> <<n>>])}
    BY <2>3, <2>4 DEF Echo
  <2> QED
    BY <2>1, <2>5 DEF Received, KindOf
<1> QED
  BY <1>3, <1>4, <1>5, <1>6

\* Only an unsigned number that is too long, or an array of floating-point numbers,
\* can end the runner before the script is called (pythonRunner.cpp:104-198).
THEOREM KillersKnown == \A v \in Variables : KilledOnly(v)
<1> SUFFICES ASSUME NEW v \in Variables, MayKill(v)
             PROVE  \/ v.kind = UInt64 /\ ~v.array
                    \/ v.kind \in {Float, Double} /\ v.array
  BY DEF KilledOnly
<1>1. v.kind \in Kinds
  BY VariableFacts
<1>2. CASE ~v.array
  <2>1. \/ v.kind = Bool \/ v.kind \in 2 .. 7 \/ v.kind = UInt64 \/ v.kind = SByte
        \/ v.kind \in {Float, Double} \/ v.kind = String
    BY <1>1, SMT DEF Kinds, Bool, SByte, UInt64, Float, Double, String
  <2> QED
    BY <1>2, <2>1, Numbers
<1>3. CASE v.array
  <2>1. PICK m \in Sent(v) : Dies(m)
    BY DEF MayKill
  <2>2. m.tag = Tag(v) /\ m.array = TRUE
    BY <1>3, <2>1, VariableFacts DEF Sent
  <2>3. m.tag \in {"i", "l", "f", "d"}
    BY <2>1, <2>2 DEF Dies
  <2> QED
    BY <1>1, <1>3, <2>2, <2>3, ArrayTags, SMT DEF Kinds, Bool, Int32, UInt64, Float, Double, String
<1> QED
  BY <1>2, <1>3
=============================================================================
