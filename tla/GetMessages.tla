----------------------------- MODULE GetMessages -----------------------------
(***************************************************************************)
(* cConnection::getMessages (src/include/cConnection.cpp): how a client or *)
(* an authentication server cuts the bytes of one recv into lines.         *)
(*                                                                         *)
(* The chat server sent some packets back to back.  Any of them may be cut *)
(* off (WSASend on a non-blocking socket may send a part, and the rest is  *)
(* never sent), the receive may begin inside the first one and end inside  *)
(* the last one.  Of a packet only its length matters; its text is made    *)
(* of characters that are printable.                                       *)
(*                                                                         *)
(* The buffer is filled with NULs before each recv, and the loop does not  *)
(* ask how many bytes came: it stops at a length of 0.                     *)
(***************************************************************************)
EXTENDS Framing

CONSTANTS
  DefaultBufferLength,  \* DEFAULT_BUFFER_LENGTH (512).
  PacketLengths,        \* Lengths of the packets the chat server sends.
  MostPackets,          \* Bound of the model: packets in one receive.
  Missing               \* How much of a packet may be missing, at either end.

\* The buffer has room for a length.  A packet holds its length and some text.
ASSUME PacketAssumption ==
  /\ DefaultBufferLength \in Nat /\ DefaultBufferLength >= 4 /\ MostPackets \in Nat \ {0}
  /\ PacketLengths \subseteq {n \in Nat : n >= 5}
  /\ 0 \in Missing /\ Missing \subseteq Nat

VARIABLES
  packets,       \* What was received: of each packet its length and which bytes.
  m_readIndex,   \* The position of the cBuffer.
  bytesInBuffer, \* What the loop takes for the number of bytes left.
  packetLength,  \* The length it decoded last.
  lines,         \* retStr: of each line, where its text lay and how long it is.
  ended          \* "no", "break", "counted" or "overrun" (a read outside the string).

receiveVars == <<packets, m_readIndex, bytesInBuffer, packetLength, lines, ended>>

-----------------------------------------------------------------------------
\* The receive.

\* A packet, the bytes of it that came, and the position they came to.
Packet(len, from, to, at) == [len |-> len, from |-> from, to |-> to, at |-> at]

Have(p) == p.to - p.from

BytesReceived == LET last == packets[Len(packets)] IN last.at + Have(last)

Whole(p) == p.from = 0 /\ p.to = p.len

\* Fault: the buffer is not cleared, and holds what was received before.
LeftOver == 97

\* ZeroMemory.
Cleared == 0

\* The byte at a position: of a packet's length, of its text, or a NUL.
ByteReceived(n) ==
  IF n >= BytesReceived THEN Cleared
  ELSE LET i == CHOOSE j \in DOMAIN packets :
                  packets[j].at <= n /\ n < packets[j].at + Have(packets[j])
           k == packets[i].from + n - packets[i].at
       IN  IF k < 4 THEN Bytes32(packets[i].len)[k + 1] ELSE 97

ReceiveInit ==
  /\ \E n \in 1..MostPackets :
       \E lens \in [1..n -> PacketLengths], late \in Missing, short \in [1..n -> Missing] :
         LET from == [i \in 1..n |-> IF i = 1 THEN late ELSE 0]
             to == [i \in 1..n |-> lens[i] - short[i]]
         IN  /\ \A i \in 1..n : from[i] < to[i]
             /\ packets = [i \in 1..n |->
                  Packet(lens[i], from[i], to[i],
                         Start([j \in 1..n |-> to[j] - from[j]], i))]
  /\ BytesReceived <= DefaultBufferLength
  /\ m_readIndex = 0 /\ bytesInBuffer = DefaultBufferLength /\ packetLength = 0
  /\ lines = <<>> /\ ended = "no"

-----------------------------------------------------------------------------
\* The loop.

Line(at, n) == [at |-> at, n |-> n]

\* ReadInt32LE; a std::string has a readable NUL at its end.
Inside(n) == n <= DefaultBufferLength + 1

Decoded == Int32([i \in 1..4 |-> ByteReceived(m_readIndex + i - 1)])

\* Subtraction on ints, which wraps around (out of step, 0 0 0 128 is read as the
\* lowest int); written so that no intermediate value leaves the ints.
Lowest == -2147483647 - 1
Minus32(m, n) ==
  IF n < 0 /\ m > 2147483647 + n THEN (m + Lowest) - (n - Lowest) ELSE m - n

\* Fault: the four bytes of the length are taken for text, too.
TextFromLength(length) == IF length > 0 THEN length ELSE 0

\* The characters of a packet behind its length.
TextOf(length) == IF length > 4 THEN length - 4 ELSE 0

\* The condition of the other branch of the body, which would keep the last bytes
\* in controlStr for the next call.
KeepForNextCall == bytesInBuffer < 4 /\ packetLength = 0

\* Each of the ways through the body begins by reading a length.
ReadLength ==
  /\ ended = "no" /\ bytesInBuffer # 0 /\ ~KeepForNextCall
  /\ Inside(m_readIndex + 4)
  /\ packetLength' = Decoded
  /\ UNCHANGED packets

\* A line; what is left is reduced by the length, which may be negative, and
\* once more at the end of the body.
TakePacket ==
  /\ ReadLength
  /\ Decoded # 0 /\ Decoded <= bytesInBuffer
  /\ m_readIndex' = m_readIndex + 4 + TextOf(Decoded)
  /\ IF Inside(m_readIndex')
     THEN /\ lines' = Append(lines, Line(m_readIndex + 4, TextOf(Decoded)))
          /\ UNCHANGED ended
     ELSE ended' = "overrun" /\ UNCHANGED lines
  /\ bytesInBuffer' = Minus32(bytesInBuffer, Decoded) - 1

\* Fault: of a packet that is longer than what is left the beginning is taken.
TakeTheRest ==
  /\ ReadLength
  /\ Decoded # 0 /\ Decoded > bytesInBuffer
  /\ m_readIndex' = DefaultBufferLength
  /\ lines' = Append(lines, Line(m_readIndex + 4, DefaultBufferLength - m_readIndex - 4))
  /\ bytesInBuffer' = 0
  /\ UNCHANGED ended

\* A length beyond what is left is passed over, all four bytes of it for one.
PassOver ==
  /\ ReadLength
  /\ Decoded # 0 /\ Decoded > bytesInBuffer
  /\ m_readIndex' = m_readIndex + 4
  /\ bytesInBuffer' = bytesInBuffer - 1
  /\ UNCHANGED <<lines, ended>>

\* Fault: NULs are passed over.
BreakNot ==
  /\ ReadLength
  /\ Decoded = 0
  /\ m_readIndex' = m_readIndex + 4
  /\ bytesInBuffer' = bytesInBuffer - 4
  /\ UNCHANGED <<lines, ended>>

Break ==
  /\ ReadLength
  /\ Decoded = 0
  /\ m_readIndex' = m_readIndex + 4
  /\ ended' = "break"
  /\ UNCHANGED <<bytesInBuffer, lines>>

\* Nothing is left, as the loop counts.
Counted ==
  /\ ended = "no" /\ bytesInBuffer = 0
  /\ ended' = "counted"
  /\ UNCHANGED <<packets, m_readIndex, bytesInBuffer, packetLength, lines>>

\* The length is read outside the string.
Overrun ==
  /\ ended = "no" /\ bytesInBuffer # 0 /\ ~Inside(m_readIndex + 4)
  /\ ended' = "overrun"
  /\ UNCHANGED <<packets, m_readIndex, bytesInBuffer, packetLength, lines>>

ReceiveNext == TakePacket \/ PassOver \/ Break \/ Counted \/ Overrun

ReceiveSpec == ReceiveInit /\ [][ReceiveNext]_receiveVars

-----------------------------------------------------------------------------
\* Type invariant: what is left is at most what the buffer holds, and grows beyond
\* it only by lengths that were read as negative.
ReceiveTypeOK ==
  /\ m_readIndex \in Nat /\ bytesInBuffer \in Int /\ packetLength \in Int
  /\ ended \in {"no", "break", "counted", "overrun"}
  /\ \A i \in DOMAIN lines : Inside(lines[i].at + lines[i].n)
  /\ bytesInBuffer > DefaultBufferLength => \E i \in DOMAIN lines : lines[i].n = 0

\* The i-th packet begins where the loop looks for one, because all before it came
\* whole, and its length can be read and fits: the loop counts one byte too many
\* for every packet before it.
InStep(i) ==
  /\ \A j \in 1 .. i - 1 : Whole(packets[j])
  /\ \A j \in 1..i :
       /\ packets[j].from = 0 /\ Have(packets[j]) >= 4
       /\ Decoded32(packets[j].len) = packets[j].len
       /\ packets[j].at + packets[j].len + j - 1 <= DefaultBufferLength

LineOf(p) == Line(p.at + 4, p.len - 4)

\* Packets that came whole are returned as the lines they are, in their order, and
\* so is the first one that is cut off: what follows it, the beginning of the next
\* packet or NULs, completes its text (theMain.cpp:318 of the chat server counts a
\* message as sent when a part of it was).
LinesUntilCut ==
  ended # "no" => \A i \in DOMAIN packets : InStep(i) => i \in DOMAIN lines /\ lines[i] = LineOf(packets[i])

\* A receive of nothing but such packets is returned without anything else, and
\* without a read outside the buffer, if it leaves room for the NULs that end it.
NothingElse ==
  (/\ ended # "no"
   /\ \A i \in DOMAIN packets : InStep(i) /\ Whole(packets[i])
   /\ BytesReceived + 3 <= DefaultBufferLength)
  => ended # "overrun" /\ lines = [i \in DOMAIN packets |-> LineOf(packets[i])]

\* Once the loop is out of step it may return empty lines, or NULs from behind the
\* bytes it received, but no text: a line with characters that were received begins
\* behind the length of a packet, however the receive was cut and wherever it began.
NoFalseText ==
  \A l \in DOMAIN lines :
    lines[l].n > 0 /\ lines[l].at < BytesReceived =>
      \E i \in DOMAIN packets : packets[i].from = 0 /\ lines[l].at = packets[i].at + 4

\* The bytes of a message that has not come to its end are never kept for the next
\* call: the branch that would fill the static controlStr is not reached, so that
\* calls do not depend on one another.
NothingKept == ended = "no" => ~KeepForNextCall
=============================================================================
