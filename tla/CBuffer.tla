------------------------------- MODULE CBuffer -------------------------------
(***************************************************************************)
(* cBuffer (src/include/cBuffer.cpp): a growing byte string with a read    *)
(* and a write position.  The chat server, the authentication server and   *)
(* the client build every outgoing message with its sequential writes and  *)
(* take every incoming one apart with its sequential reads.  The class     *)
(* also offers setBuffer, clearBuffer and reads and writes at an index.    *)
(*                                                                         *)
(* m_buffer is a std::string: nothing stops an access outside it.  Such an *)
(* access is undefined behaviour; here it is recorded in "overrun" and the *)
(* buffer is used no further.                                              *)
(***************************************************************************)
EXTENDS ByteCodec, Sequences

CONSTANTS
  GROW,       \* How far past the index a write that does not fit resizes (100).
  Sizes,      \* The sizes a caller constructs a buffer with.
  Ints,       \* The values a caller writes as int,
  Shorts,     \* as short,
  Chars,      \* and as char (given as the byte that is stored).
  Contents,   \* The byte strings a caller passes to setBuffer.
  MaxIndex    \* Bound of the model: positions beyond it are not used.

\* A resize must make room for the widest item, an int.
ASSUME GrowAssumption == GROW \in Nat /\ GROW >= 4
ASSUME InputAssumption ==
  /\ Sizes \subseteq Nat
  /\ Ints \subseteq Int /\ Shorts \subseteq Int /\ Chars \subseteq Byte
  /\ Contents \subseteq Seq(Byte)
  /\ MaxIndex \in Nat

VARIABLES
  m_buffer,      \* The bytes.
  m_readIndex,   \* Position of the next sequential read.
  m_writeIndex,  \* Position of the next sequential write.
  overrun,       \* "no", or what left the bytes: "write", "gap" or "read".
  base,          \* History: the length the buffer was last given by a caller.
  written        \* History: the items written and not overwritten since.

vars == <<m_buffer, m_readIndex, m_writeIndex, overrun, base, written>>

Size == Len(m_buffer)

\* Nothing is done with a buffer after an access outside it.
Usable == overrun = "no"

-----------------------------------------------------------------------------
\* The parts the operations are made of.

\* Fault: a resized string starts over.
Renewed(buf, n) == [i \in 1..n |-> 0]

\* std::string::resize: cut off the end, or fill up with NULs.
Resized(buf, n) == [i \in 1..n |-> IF i <= Len(buf) THEN buf[i] ELSE 0]

\* Fault: the test of the shorts serves the ints, too.
GrownForShort(buf, index, width) ==
  IF Len(buf) >= 2 /\ index >= Len(buf) - 2 THEN Resized(buf, index + GROW) ELSE buf

\* Make room for a short or an int at an index.  size() is unsigned: with
\* fewer than "width" bytes size() - width wraps around to a huge number,
\* the test fails and nothing grows.
Grown(buf, index, width) ==
  IF Len(buf) >= width /\ index >= Len(buf) - width
  THEN Resized(buf, index + GROW)
  ELSE buf

\* Make room for a char: only an index that is exactly at the end grows.
GrownForChar(buf, index) ==
  IF index = Len(buf) THEN Resized(buf, index + GROW) ELSE buf

\* Does an item at an index lie within the bytes?
Fits(buf, index, width) == index + width <= Len(buf)

\* The bytes with an item stored at an index.
Stored(buf, index, bytes) ==
  [i \in 1..Len(buf) |->
     IF i > index /\ i <= index + Len(bytes) THEN bytes[i - index] ELSE buf[i]]

\* The byte read at an index; a std::string has a readable NUL at its end.
ByteAt(buf, index) == IF index < Len(buf) THEN buf[index + 1] ELSE 0

\* Decode the item of a width at an index.
Fetched(buf, index, width) ==
  CASE width = 4 -> Int32([k \in 1..4 |-> ByteAt(buf, index + k - 1)])
    [] width = 2 -> Int16([k \in 1..2 |-> ByteAt(buf, index + k - 1)])
    [] OTHER     -> SignedChar(ByteAt(buf, index))

Item(index, width, value) == [at |-> index, width |-> width, value |-> value]

Overlap(x, y) == x.at < y.at + y.width /\ y.at < x.at + x.width

-----------------------------------------------------------------------------
Init ==
  \E size \in Sizes :
    /\ m_buffer = [i \in 1..size |-> 0]
    /\ base = size
    /\ m_readIndex = 0 /\ m_writeIndex = 0
    /\ overrun = "no" /\ written = {}

\* Store an item in the buffer that has been grown for it.
Put(buf, item, bytes, fault) ==
  /\ IF Fits(buf, item.at, item.width)
     THEN /\ m_buffer' = Stored(buf, item.at, bytes)
          /\ written' = {w \in written : ~Overlap(w, item)} \union {item}
          /\ UNCHANGED overrun
     ELSE /\ overrun' = fault
          /\ m_buffer' = buf
          /\ UNCHANGED written
  /\ UNCHANGED <<m_readIndex, base>>

WriteInt32LE(value) ==
  /\ Usable /\ m_writeIndex <= MaxIndex
  /\ Put(Grown(m_buffer, m_writeIndex, 4), Item(m_writeIndex, 4, value),
         Bytes32(value), "write")
  /\ m_writeIndex' = m_writeIndex + 4

WriteInt16LE(value) ==
  /\ Usable /\ m_writeIndex <= MaxIndex
  /\ Put(Grown(m_buffer, m_writeIndex, 2), Item(m_writeIndex, 2, value),
         Bytes16(value), "write")
  /\ m_writeIndex' = m_writeIndex + 2

WriteChar(value) ==
  /\ Usable /\ m_writeIndex <= MaxIndex
  /\ Put(GrownForChar(m_buffer, m_writeIndex), Item(m_writeIndex, 1, value),
         <<value>>, "write")
  /\ m_writeIndex' = m_writeIndex + 1

WriteInt32LEAt(index, value) ==
  /\ Usable
  /\ Put(Grown(m_buffer, index, 4), Item(index, 4, value), Bytes32(value), "write")
  /\ UNCHANGED m_writeIndex

WriteInt16LEAt(index, value) ==
  /\ Usable
  /\ Put(Grown(m_buffer, index, 2), Item(index, 2, value), Bytes16(value), "write")
  /\ UNCHANGED m_writeIndex

\* The only write that can leave a gap: an index beyond the end grows nothing.
WriteCharAt(index, value) ==
  /\ Usable
  /\ Put(GrownForChar(m_buffer, index), Item(index, 1, value), <<value>>, "gap")
  /\ UNCHANGED m_writeIndex

\* All the reads, at the read position or at an index, return
\* Fetched(m_buffer, index, width).
Get(index, width) ==
  /\ Usable
  /\ overrun' = IF index + width <= Size + 1 THEN "no" ELSE "read"
  /\ UNCHANGED <<m_buffer, m_writeIndex, base, written>>

Read(width) ==
  /\ m_readIndex <= MaxIndex
  /\ Get(m_readIndex, width)
  /\ m_readIndex' = m_readIndex + width

ReadAt(index, width) ==
  /\ Get(index, width)
  /\ UNCHANGED m_readIndex

setBuffer(bytes) ==
  /\ Usable
  /\ m_buffer' = bytes
  /\ base' = Len(bytes)
  /\ m_readIndex' = 0 /\ m_writeIndex' = 0 /\ written' = {}
  /\ UNCHANGED overrun

clearBuffer ==
  /\ Usable
  /\ m_buffer' = <<>>
  /\ base' = 0
  /\ m_readIndex' = 0 /\ m_writeIndex' = 0 /\ written' = {}
  /\ UNCHANGED overrun

Widths == {1, 2, 4}

Next ==
  \/ \E v \in Ints : WriteInt32LE(v)
  \/ \E v \in Shorts : WriteInt16LE(v)
  \/ \E v \in Chars : WriteChar(v)
  \/ \E i \in 0..MaxIndex, v \in Ints : WriteInt32LEAt(i, v)
  \/ \E i \in 0..MaxIndex, v \in Shorts : WriteInt16LEAt(i, v)
  \/ \E i \in 0..MaxIndex, v \in Chars : WriteCharAt(i, v)
  \/ \E w \in Widths : Read(w)
  \/ \E i \in 0..MaxIndex, w \in Widths : ReadAt(i, w)
  \/ \E bytes \in Contents : setBuffer(bytes)
  \/ clearBuffer

Spec == Init /\ [][Next]_vars

-----------------------------------------------------------------------------
\* Type invariant of the class: a byte string and two positions.
TypeOK ==
  /\ m_buffer \in Seq(Byte)
  /\ m_readIndex \in Nat /\ m_writeIndex \in Nat /\ base \in Nat
  /\ overrun \in {"no", "write", "gap", "read"}
  /\ written \subseteq [at : Nat, width : Widths, value : Int]

\* The growing tests protect every write of an int, a short or a sequential
\* char, however the calls are mixed, as long as the caller gave the buffer
\* room for one int: with a shorter buffer the unsigned subtraction of
\* cBuffer.cpp:44 and :61 wraps around and the write leaves the string.
WriteOverrunOnlyIfShort == overrun = "write" => base < 4

\* What a value becomes on the way through the buffer.
Decoded(width, value) ==
  CASE width = 4 -> Decoded32(value)
    [] width = 2 -> Decoded16(value)
    [] OTHER     -> SignedChar(value)

\* Reading an item where it was written returns the value its bytes decode
\* to, whatever was written elsewhere and however the buffer has grown since:
\* no growth test cuts off or shifts what is already there, and the write
\* position moves past the item just written.
ReadBack ==
  \A w \in written : Fetched(m_buffer, w.at, w.width) = Decoded(w.width, w.value)
=============================================================================
