------------------------------ MODULE ReadSocket ------------------------------
(***************************************************************************)
(* The loop of readSocket (src/Server/theMain.cpp) over the bytes of one   *)
(* WSARecv, and the two early exits of treatMessage that decide whether a  *)
(* chunk is a message at all.  A peer has sent some packets back to back;  *)
(* the receive begins where a packet begins and may end inside one.        *)
(*                                                                         *)
(* Only what the framing depends on is kept of a packet: its length, its   *)
(* message id, and payload bytes that are printable characters, as in the  *)
(* messages the client builds.                                             *)
(***************************************************************************)
EXTENDS Framing

CONSTANTS
  Lengths,     \* The packet lengths a peer sends.
  MaxPackets,  \* How many packets one receive holds at most.
  BufferLength,\* DEFAULT_BUFFER_LENGTH: the most one WSARecv returns (512).
  Cuts         \* How many bytes of the last packet may be missing.

ASSUME FramingAssumption ==
  /\ Lengths \subseteq {n \in Nat : n >= 7}
  /\ MaxPackets \in Nat \ {0} /\ BufferLength \in Nat
  /\ Cuts \subseteq Nat

VARIABLES
  lengths,       \* The lengths of the packets in the receive.
  bytes,         \* sa->m_dataBuffer.buf, of m_bytesReceived bytes.
  index1,        \* The loop's position.
  currBuffer,    \* The bytes collected since the last chunk.
  currMsgLength, \* The chunk length, 0 until four bytes have been seen.
  treated        \* The positions of the chunks treatMessage did not discard.

vars == <<lengths, bytes, index1, currBuffer, currMsgLength, treated>>

JOIN_ROOM == 1
AUTHENTICATE_WEB_FAILURE == 12
MaxPacketLength == 65542

\* A packet on the wire: length, id, and payload.
WireOf(n) ==
  LET head == Bytes32(n)
  IN  [i \in 1..n |-> IF i <= 4 THEN head[i] ELSE IF i = 5 THEN JOIN_ROOM ELSE 97]

\* The packets one after the other.
Stream(lens) == FlattenSeq([i \in DOMAIN lens |-> WireOf(lens[i])])

\* Some packets, the last of which may not be there to its end.
Init ==
  \E k \in 1..MaxPackets :
    \E lens \in [1..k -> Lengths], cut \in Cuts :
      LET all == Stream(lens)
      IN  /\ lengths = lens
          /\ cut < lens[k]
          /\ bytes = SubSeq(all, 1, Len(all) - cut)
          /\ Len(bytes) <= BufferLength
          /\ index1 = 0 /\ currBuffer = <<>> /\ currMsgLength = 0 /\ treated = {}

Received == Len(bytes)

\* buf[index1]; one byte past the receive the buffer holds what an earlier
\* receive left there.
Stale == 97
ByteHere == SignedChar(IF index1 < Received THEN bytes[index1 + 1] ELSE Stale)

\* Fault: the bound one would expect, which leaves out a last packet that ends
\* with the receive.
RunningInside == index1 < Received

\* The loop runs up to and including m_bytesReceived.
Running == index1 <= Received

\* The unsigned byte of a char, for the decoder.
Unsigned(c) == c % 256

\* Nothing decoded yet: collect, and decode once there are four bytes.
CollectLength ==
  /\ Running /\ currMsgLength = 0
  /\ currBuffer' = Append(currBuffer, ByteHere)
  /\ currMsgLength' =
       IF Len(currBuffer') = 4
       THEN Int32([i \in 1..4 |-> Unsigned(currBuffer'[i])])
       ELSE 0
  /\ index1' = index1 + 1
  /\ UNCHANGED <<lengths, bytes, treated>>

\* Fewer bytes than the chunk length.  The comparison is between an int and
\* a size_t: a negative length is a huge one and is never reached.
CollectByte ==
  /\ Running /\ currMsgLength # 0
  /\ currMsgLength # Len(currBuffer)
  /\ currBuffer' = Append(currBuffer, ByteHere)
  /\ index1' = index1 + 1
  /\ UNCHANGED <<lengths, bytes, currMsgLength, treated>>

\* treatMessage goes past its early return, and into a case of its switch.
IsMessage(chunk) ==
  /\ Int32([i \in 1..4 |-> Unsigned(chunk[i])]) <= MaxPacketLength
  /\ chunk[5] \in JOIN_ROOM..AUTHENTICATE_WEB_FAILURE

\* Fault: the byte at hand begins the next chunk.
HandOverAndKeep ==
  /\ Running /\ currMsgLength # 0
  /\ currMsgLength = Len(currBuffer)
  /\ treated' = IF IsMessage(currBuffer)
                THEN treated \union {index1 - currMsgLength}
                ELSE treated
  /\ currBuffer' = <<ByteHere>>
  /\ index1' = index1 + 1
  /\ UNCHANGED <<lengths, bytes, currMsgLength>>

\* The chunk is complete: hand it over, and drop the byte at hand.
HandOver ==
  /\ Running /\ currMsgLength # 0
  /\ currMsgLength = Len(currBuffer)
  /\ treated' = IF Len(currBuffer) >= 5 /\ IsMessage(currBuffer)
                THEN treated \union {index1 - currMsgLength}
                ELSE treated
  /\ currBuffer' = <<>>
  /\ index1' = index1 + 1
  /\ UNCHANGED <<lengths, bytes, currMsgLength>>

Next == CollectLength \/ CollectByte \/ HandOver

Spec == Init /\ [][Next]_vars /\ WF_vars(Next)

-----------------------------------------------------------------------------
\* Type invariant of the loop.
TypeOK ==
  /\ lengths \in Seq(Lengths)
  /\ bytes \in Seq(Byte)
  /\ index1 \in 0..(Received + 1)
  /\ currBuffer \in Seq(-128..127)
  /\ currMsgLength \in Int
  /\ treated \subseteq 0..Received

\* The packets of the receive that the loop hands over, by position: the
\* closed form that ChatServer uses.
FramedStarts ==
  {Start(lengths, i) : i \in {j \in DOMAIN lengths : Framed(lengths, Received, j)}}

\* The one way in which a chunk cut at the wrong place passes for a message:
\* it begins three bytes before a packet of 384 bytes or more, so that the
\* negative low byte of that packet's length makes its own length pass the
\* test at theMain.cpp:437, and the next byte, 1, reads as JOIN_ROOM.
FalseJoin(p) ==
  \E i \in DOMAIN lengths : lengths[i] >= 384 /\ p = Start(lengths, i) - 3

\* Every chunk that treatMessage takes for a message begins where a packet
\* begins and is one that the closed form names (or is the false JOIN): no
\* other chunk cut at the wrong place passes for a message.
OnlyFramedTreated ==
  \A p \in treated :
    \/ p \in FramedStarts
    \/ FalseJoin(p)

\* When the loop is through it has handed over every packet of the closed
\* form, and of several packets in one receive that is seldom more than the
\* first (theMain.cpp:402-405).
AllFramedTreated == <>[](FramedStarts \subseteq treated /\ ~Running)
=============================================================================
