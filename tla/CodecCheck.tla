------------------------------ MODULE CodecCheck ------------------------------
(***************************************************************************)
(* ByteCodec against the expressions of cBuffer.cpp, bit by bit: a peer    *)
(* writes a value, changes single bytes, and reads what is there.          *)
(***************************************************************************)
EXTENDS ByteCodec, Sequences

CONSTANTS
  Values,   \* Values a peer writes as int (and as short, if they fit).
  Bytes     \* Bytes it writes over single bytes of them.

\* The values are ints.
ASSUME CheckAssumption ==
  /\ \A v \in Values : v \in Nat /\ v <= 2147483647
  /\ Bytes \subseteq Byte

VARIABLES
  value,    \* The value written last.
  word,     \* The bytes that stand in the buffer.
  intact    \* Nothing was written over them.

codecVars == <<value, word, intact>>

WriteValue(v) == intact /\ value = 0 /\ value' = v /\ word' = Bytes32(v) /\ intact' = TRUE

WriteByte(i, b) ==
  /\ word' = [word EXCEPT ![i] = b]
  /\ intact' = FALSE
  /\ UNCHANGED value

CodecInit == value = 0 /\ word = Bytes32(0) /\ intact = TRUE

CodecNext ==
  \/ \E v \in Values : WriteValue(v)
  \/ \E i \in 1..4, b \in Bytes : WriteByte(i, b)

CodecSpec == CodecInit /\ [][CodecNext]_codecVars

-----------------------------------------------------------------------------
\* Bit n of a byte.
Weights == <<1, 2, 4, 8, 16, 32, 64, 128>>
BitOf(b, n) == (b \div Weights[n + 1]) % 2 = 1

\* Bit n of byte i of (int)m_buffer[k] << 8 * (k - 1): the char is sign-extended,
\* so that the bytes below it are zero and those above it repeat its bit 7.
ShiftedBit(b, k, i, n) == k <= i /\ BitOf(b[k], IF i = k THEN n ELSE 7)

\* These are the bytes of the shifted chars or-ed together.
AreOredBytes(bytes, b) ==
  \A i \in DOMAIN bytes, n \in 0..7 :
    BitOf(bytes[i], n) <=> \E k \in DOMAIN bytes : ShiftedBit(b, k, i, n)

\* A signed integer up to a maximum.
Signed(v, maximum) == -maximum - 1 <= v /\ v <= maximum

\* The closed forms return what the shifts and ors of ReadInt32LE and
\* ReadInt16LE do, for every mixture of low and high bytes: the int, and the
\* short, that consists of those bits (cBuffer.cpp:122-160).
ReadsLikeTheBits ==
  /\ Signed(Int32(word), 2147483647)
  /\ AreOredBytes(Bytes32(Int32(word)), word)
  /\ Signed(Int16(word), 32767)
  /\ AreOredBytes(Bytes16(Int16(word)), word)

\* A length survives the journey exactly if none of its three lower bytes is
\* 128 or more; one that does not comes out negative, or it would be taken
\* for a shorter or longer packet.
LengthSurvivesOrIsNegative ==
  intact =>
    \/ Int32(word) = value /\ \A k \in 1..3 : word[k] < 128
    \/ Int32(word) < 0 /\ \E k \in 1..3 : word[k] >= 128
=============================================================================
