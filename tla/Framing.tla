------------------------------- MODULE Framing -------------------------------
(***************************************************************************)
(* Which packets of one receive the chat server treats: readSocket of      *)
(* src/Server/theMain.cpp, in closed form.  ReadSocket.tla has the loop    *)
(* itself, byte by byte, and is checked against these definitions.         *)
(*                                                                         *)
(* The loop decodes a length L from the first four bytes it received and   *)
(* never decodes another one (`!currMsgLength;` and `!isMsgIncomplete;`    *)
(* are expressions without effect).  It collects L bytes, hands them to    *)
(* treatMessage when it looks at the byte AFTER them, drops that byte, and *)
(* starts over.  The k-th chunk it hands over (k = 0, 1, ...) is therefore *)
(* the L bytes from position k * (L + 1) on.                               *)
(***************************************************************************)
EXTENDS ByteCodec, SequencesExt

\* How many bytes some packets take, and where the i-th of them starts.
TotalLength(lengths) == FoldSeq(+, 0, lengths)

Start(lengths, i) == TotalLength(SubSeq(lengths, 1, i - 1))

\* The size of the chunks cut from a receive that begins with such a packet.
ChunkLength(lengths) == Decoded32(lengths[1])

\* Is the i-th packet the beginning of a chunk that is handed over, when n
\* bytes were received?
Framed(lengths, n, i) ==
  LET L == ChunkLength(lengths)
      s == Start(lengths, i)
  IN  /\ L > 0
      /\ s % (L + 1) = 0
      /\ s + L <= n

\* A chunk shorter than the packet that begins it ends before the packet.
Truncated(lengths, i) == lengths[i] > ChunkLength(lengths)
=============================================================================
