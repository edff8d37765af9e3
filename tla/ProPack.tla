------------------------------- MODULE ProPack -------------------------------
(***************************************************************************)
(* The packets of the protocol (com_inc/cmpOffProto.hpp): generate makes a *)
(* packet of a command and its data, parseFrom finds packets in a buffer,  *)
(* with the checksum of com_src/CRC8.c.                                    *)
(*                                                                         *)
(* A packet is HEAD, the length in two bytes (low, high), the command, an  *)
(* unused byte, in an answer a status, the data, and the checksum of what  *)
(* is between the length and it.  Bytes are numbers below Base.            *)
(*                                                                         *)
(* One direction of a connection is the stream of all bytes written to it. *)
(* The receiver's buffer is the part of it from taken + 1 to arrived.      *)
(***************************************************************************)
EXTENDS Integers, Sequences

CONSTANTS Base,       \* 256 in the code
          PROTO_HEAD, \* 0xEB
          Cmds,       \* the commands that are valid
          CrcStep,    \* CrcStep[crc][b]: crc_table[crc ^ b]
          IfAck,      \* the stream carries answers
          Packets,    \* what may be sent
          MaxPackets  \* bound: packets sent

Byte == 0 .. Base - 1
MIN_SIZE == IF IfAck THEN 7 ELSE 6
NO_CRC_LENGTH == 4
MAX_LEN == Base * Base - 1

ASSUME BaseAssumption == Base \in Nat /\ Base >= 2
ASSUME BytesAssumption == PROTO_HEAD \in Byte /\ Cmds \subseteq Byte
\* The table has no number twice.
ASSUME CrcAssumption ==
  /\ CrcStep \in [Byte -> [Byte -> Byte]]
  /\ \A c, d, b \in Byte : c # d =>
       CrcStep[c][b] # CrcStep[d][b] /\ CrcStep[b][c] # CrcStep[b][d]
ASSUME AckAssumption == IfAck \in BOOLEAN
ASSUME PacketsAssumption ==
  \A m \in Packets :
    /\ m = [cmd |-> m.cmd, status |-> m.status, data |-> m.data]
    /\ m.cmd \in Cmds /\ m.status \in Byte /\ m.data \in Seq(Byte)
    /\ ~IfAck => m.status = 0

VARIABLES
  sent,     \* the packets generated
  stream,   \* the bytes written
  start,    \* start[i]: how many bytes are before packet i
  arrived,  \* how many bytes have reached the receiver
  taken,    \* how many bytes are no longer in the buffer
  parsing,  \* parseFrom is in its loop
  got,      \* the packets it has returned
  damaged,  \* history: a byte has been damaged
  dropped   \* history: the caller has thrown bytes away

vars == <<sent, stream, start, arrived, taken, parsing, got, damaged, dropped>>
-----------------------------------------------------------------------------
\* The length is an unsigned char: of a long body only the first Len(s) % Base
\* bytes count.
CRC8(s) ==
  LET crc[n \in 0 .. Len(s) % Base] == IF n = 0 THEN 0 ELSE CrcStep[crc[n - 1]][s[n]]
  IN  crc[Len(s) % Base]

\* What the length counts: all but the head, the length itself and the checksum.
Body(m) == (IF IfAck THEN <<m.cmd, 0, m.status>> ELSE <<m.cmd, 0>>) \o m.data

\* Mutant of Generated: the length counts the checksum too.
GeneratedLonger(m) ==
  LET body == Body(m)
      len == Len(body) + 1
  IN  <<PROTO_HEAD, len % Base, len \div Base>> \o body \o <<CRC8(body)>>

Generated(m) ==
  LET body == Body(m)
      len == Len(body)
  IN  <<PROTO_HEAD, len % Base, len \div Base>> \o body \o <<CRC8(body)>>

\* The buffer: its size and its i-th byte.
Size == arrived - taken
Buffer(i) == stream[taken + i]

\* The length that the packet at the head of the buffer claims, and its parts.
Length == Base * Buffer(3) + Buffer(2)
Total == Length + NO_CRC_LENGTH
Checked == [i \in 1 .. Length |-> Buffer(3 + i)]

\* Mutant of Parsed: an answer's data is taken from where a request's begins.
ParsedShifted == [cmd |-> Buffer(4),
                  status |-> IF IfAck THEN Buffer(6) ELSE 0,
                  data |-> [i \in 1 .. Total - MIN_SIZE |-> Buffer(5 + i)]]

\* data(), status() and cmd() of the packet.
Parsed == [cmd |-> Buffer(4),
           status |-> IF IfAck THEN Buffer(6) ELSE 0,
           data |-> [i \in 1 .. Total - MIN_SIZE |-> Buffer(MIN_SIZE - 1 + i)]]

\* Mutant of Valid: the checksum is not looked at.
ValidUnchecked == Total >= MIN_SIZE /\ Buffer(4) \in Cmds

\* judgePackValidation, of Total bytes that begin with the head.
Valid ==
  /\ Total >= MIN_SIZE
  /\ Buffer(4) \in Cmds
  /\ CRC8(Checked) = Buffer(Total)
-----------------------------------------------------------------------------
Init ==
  /\ sent = <<>> /\ stream = <<>> /\ start = <<>>
  /\ arrived = 0 /\ taken = 0
  /\ parsing = FALSE
  /\ got = <<>>
  /\ damaged = FALSE /\ dropped = FALSE

\* generate and write: a packet that would be too long is not made.
Generate(m) ==
  /\ Len(sent) < MaxPackets
  /\ Len(Body(m)) <= MAX_LEN
  /\ sent' = Append(sent, m)
  /\ start' = Append(start, Len(stream))
  /\ stream' = stream \o Generated(m)
  /\ UNCHANGED <<arrived, taken, parsing, got, damaged, dropped>>

\* A byte of a packet's body changes on the way; this happens once.
Damage(i, j, b) ==
  /\ ~damaged
  /\ i \in DOMAIN sent /\ j \in 1 .. Len(Body(sent[i]))
  /\ start[i] + 3 + j > arrived /\ stream[start[i] + 3 + j] # b
  /\ stream' = [stream EXCEPT ![start[i] + 3 + j] = b]
  /\ damaged' = TRUE
  /\ UNCHANGED <<sent, start, arrived, taken, parsing, got, dropped>>

\* The next n bytes reach the buffer, and parseFrom is called until it returns
\* FALSE.
Arrive(n) ==
  /\ ~parsing
  /\ n > 0 /\ arrived + n <= Len(stream)
  /\ arrived' = arrived + n
  /\ parsing' = TRUE
  /\ UNCHANGED <<sent, stream, start, taken, got, damaged, dropped>>

\* Mutant of ReturnFalse: the bytes are erased before their number is looked at.
ReturnFalseErased ==
  /\ parsing
  /\ Size >= MIN_SIZE => Buffer(1) = PROTO_HEAD /\ Size < Total
  /\ parsing' = FALSE
  /\ taken' = IF Size >= MIN_SIZE THEN taken + Total ELSE taken
  /\ UNCHANGED <<sent, stream, start, arrived, got, damaged, dropped>>

\* parseFrom returns FALSE: too little for a packet, or for this packet.  What is
\* left may stay in the buffer, or go with it: all callers here drop the buffer.
ReturnFalse ==
  /\ parsing
  /\ Size >= MIN_SIZE => Buffer(1) = PROTO_HEAD /\ Size < Total
  /\ parsing' = FALSE
  /\ taken' \in {taken, arrived}
  /\ dropped' = (dropped \/ taken' # taken)
  /\ UNCHANGED <<sent, stream, start, arrived, got, damaged>>

\* A byte that is not the head is dropped.
Skip ==
  /\ parsing /\ Size >= MIN_SIZE
  /\ Buffer(1) # PROTO_HEAD
  /\ taken' = taken + 1
  /\ UNCHANGED <<sent, stream, start, arrived, parsing, got, damaged, dropped>>

\* A valid packet is taken and returned.
ReturnTrue ==
  /\ parsing /\ Size >= MIN_SIZE
  /\ Buffer(1) = PROTO_HEAD /\ Size >= Total /\ Valid
  /\ taken' = taken + Total
  /\ got' = Append(got, Parsed)
  /\ UNCHANGED <<sent, stream, start, arrived, parsing, damaged, dropped>>

\* Mutant of Discard: the copy is cleared, the buffer is not.
DiscardCopy ==
  /\ parsing /\ Size >= MIN_SIZE
  /\ Buffer(1) = PROTO_HEAD /\ Size >= Total /\ ~Valid
  /\ UNCHANGED vars

\* What is not a packet goes, as much of it as its length claims.
Discard ==
  /\ parsing /\ Size >= MIN_SIZE
  /\ Buffer(1) = PROTO_HEAD /\ Size >= Total /\ ~Valid
  /\ taken' = taken + Total
  /\ UNCHANGED <<sent, stream, start, arrived, parsing, got, damaged, dropped>>

Parse == ReturnFalse \/ Skip \/ ReturnTrue \/ Discard

Next ==
  \/ \E m \in Packets : Generate(m)
  \/ \E i \in DOMAIN sent : \E j \in 1 .. Len(Body(sent[i])) : \E b \in Byte : Damage(i, j, b)
  \/ \E n \in 1 .. Len(stream) : Arrive(n)
  \/ Parse

Spec == Init /\ [][Next]_vars

\* parseFrom runs to its end.
FairSpec == Spec /\ WF_vars(Parse)
-----------------------------------------------------------------------------
(* Properties.                                                             *)

\* The type invariant.
TypeOK ==
  /\ sent \in Seq(Packets)
  /\ stream \in Seq(Byte)
  /\ start \in Seq(Nat) /\ Len(start) = Len(sent)
  /\ arrived \in 0 .. Len(stream)
  /\ taken \in 0 .. arrived
  /\ parsing \in BOOLEAN /\ damaged \in BOOLEAN /\ dropped \in BOOLEAN
  /\ got \in Seq([cmd : Byte, status : Byte, data : Seq(Byte)])

\* However the stream is cut, what parseFrom returns are the packets generated,
\* in order, each with its command, status and data (cmpOffProto.hpp:111-137).
InOrder ==
  ~dropped /\ ~damaged =>
    Len(got) <= Len(sent) /\ \A i \in 1 .. Len(got) : got[i] = sent[i]

\* Once everything has arrived and parseFrom has returned FALSE, every packet
\* has been returned and nothing is left in the buffer.
NothingLost ==
  ~dropped /\ ~damaged /\ ~parsing /\ arrived = Len(stream) =>
    Len(got) = Len(sent) /\ taken = arrived

\* Of two bodies of the same length, the bytes that the checksum covers, which are
\* as many as an unsigned char counts (CRC8.c:25), are the same.
Agree(is, was) ==
  Len(is) = Len(was) /\ \A j \in 1 .. Len(was) % Base : is[j] = was[j]

\* A packet damaged between its length and its checksum is not returned, unless
\* the damage is behind the bytes that the checksum covers.
DamageSeen ==
  ~dropped => \A i \in DOMAIN got : \E k \in DOMAIN sent : Agree(Body(got[i]), Body(sent[k]))

\* parseFrom returns, whatever the buffer holds (cmpOffProto.hpp:116): each turn of
\* its loop that does not return makes the buffer shorter.
Returns == parsing ~> ~parsing
=============================================================================
