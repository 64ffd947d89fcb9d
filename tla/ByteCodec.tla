------------------------------ MODULE ByteCodec ------------------------------
(***************************************************************************)
(* The integer encoding of cBuffer, the class every message of the chat is *)
(* built and taken apart with (src/include/cBuffer.cpp).                   *)
(*                                                                         *)
(* Integers are written as little-endian bytes.  They are read back from a *)
(* std::string, whose elements are plain `char`: signed on the compilers   *)
(* of this project.  Each byte is therefore sign-extended BEFORE it is     *)
(* shifted and or-ed into the result, and a byte of 128 or more fills      *)
(* every bit above it with ones.                                           *)
(***************************************************************************)
EXTENDS Integers

Byte == 0..255

\* What a byte is worth once it is a char.
SignedChar(b) == IF b < 128 THEN b ELSE b - 256

\* The four bytes WriteInt32LE stores; `%` and \div round down, so that a
\* negative value gives its two's complement bytes.
Bytes32(v) ==
  << v % 256, (v \div 256) % 256, (v \div 65536) % 256, (v \div 16777216) % 256 >>

\* The two bytes WriteInt16LE stores; the argument is a C++ short.
Bytes16(v) == << v % 256, (v \div 256) % 256 >>

\* Fault: the bytes are read as unsigned.
UnsignedInt32(b) == b[1] + 256 * b[2] + 65536 * b[3] + 16777216 * SignedChar(b[4])

\* ReadInt32LE: the lowest byte that is negative as a char decides, because
\* its sign extension hides every byte above it.
Int32(b) ==
  IF b[1] >= 128 THEN SignedChar(b[1])
  ELSE IF b[2] >= 128 THEN b[1] + 256 * SignedChar(b[2])
  ELSE IF b[3] >= 128 THEN b[1] + 256 * b[2] + 65536 * SignedChar(b[3])
  ELSE b[1] + 256 * b[2] + 65536 * b[3] + 16777216 * SignedChar(b[4])

\* Fault: the bytes are read as unsigned.
UnsignedInt16(b) == b[1] + 256 * SignedChar(b[2])

\* ReadInt16LE.
Int16(b) ==
  IF b[1] >= 128 THEN SignedChar(b[1]) ELSE b[1] + 256 * SignedChar(b[2])

\* What a reader gets for a value that a writer stored.
Decoded32(v) == Int32(Bytes32(v))
Decoded16(v) == Int16(Bytes16(v))
=============================================================================
