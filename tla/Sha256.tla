-------------------------------- MODULE Sha256 --------------------------------
(***************************************************************************)
(* How the class SHA256 (src/Auth_Server/sha256.cpp) cuts a message into   *)
(* blocks and pads it.  What is modelled is which bytes are given to       *)
(* transform and in which order; transform itself, a fixed computation on  *)
(* them, is not.                                                           *)
(*                                                                         *)
(* Messages are so short (a password and 64 bytes of salt) that no 32-bit  *)
(* count wraps around.                                                     *)
(***************************************************************************)
EXTENDS ByteCodec, Sequences

CONSTANTS
  Lengths,   \* The lengths update is called with.
  MaxCalls   \* Bound of the model: calls of update.

ASSUME UpdateAssumption == Lengths \subseteq Nat /\ MaxCalls \in Nat

BLOCK_SIZE == 64

VARIABLES
  given,      \* History: how many bytes update was given in all.
  calls,      \* History: how often it was called.
  m_block,    \* Two blocks of bytes that were not transformed yet, or long ago.
  m_len,      \* How many of them count.
  m_tot_len,  \* How many bytes were transformed by update.
  absorbed,   \* The bytes given to transform.
  finished    \* final was called.

hashVars == <<given, calls, m_block, m_len, m_tot_len, absorbed, finished>>

\* The k-th byte of the message, no byte of the padding, and no byte m_block holds
\* before it was written to.
Nth(k) == 255 + k
Garbage == -1

HashInit ==
  /\ given = 0 /\ calls = 0
  /\ m_block = [i \in 1 .. 2 * BLOCK_SIZE |-> Garbage]
  /\ m_len = 0 /\ m_tot_len = 0
  /\ absorbed = <<>> /\ finished = FALSE

-----------------------------------------------------------------------------
\* memcpy of n bytes of the message, those after the k-th, to a place in the block.
Copied(block, place, k, n) ==
  [i \in 1 .. 2 * BLOCK_SIZE |->
    IF place < i /\ i <= place + n THEN Nth(k + i - place) ELSE block[i]]

\* The first bytes of a block.
First(block, n) == [i \in 1..n |-> block[i]]

\* n bytes of the message, those after the k-th.
Direct(k, n) == [i \in 1..n |-> Nth(k + i)]

\* Not enough for a block: the bytes are kept.
StaysShort(len) == m_len + len < BLOCK_SIZE

\* Fault: the bytes that filled the block are counted again.
LeftOfAll(len) == len

\* What is left over once the block is full and the blocks after it were transformed
\* where they lie.
Left(len) == len - (BLOCK_SIZE - m_len)

UpdateShort(len) ==
  /\ ~finished /\ calls < MaxCalls
  /\ StaysShort(len)
  /\ m_block' = Copied(m_block, m_len, given, len)
  /\ m_len' = m_len + len
  /\ given' = given + len /\ calls' = calls + 1
  /\ UNCHANGED <<m_tot_len, absorbed, finished>>

UpdateBlocks(len) ==
  /\ ~finished /\ calls < MaxCalls
  /\ ~StaysShort(len)
  /\ LET rem_len == BLOCK_SIZE - m_len
         block_nb == Left(len) \div BLOCK_SIZE
         full == Copied(m_block, m_len, given, rem_len)
     IN  /\ absorbed' = (absorbed \o First(full, BLOCK_SIZE))
                        \o Direct(given + rem_len, block_nb * BLOCK_SIZE)
         /\ m_len' = Left(len) % BLOCK_SIZE
         /\ m_block' = Copied(full, 0, given + rem_len + block_nb * BLOCK_SIZE, m_len')
         /\ m_tot_len' = m_tot_len + (block_nb + 1) * BLOCK_SIZE
  /\ given' = given + len /\ calls' = calls + 1
  /\ UNCHANGED finished

\* Fault: the mark and the length are taken for 8 bytes.
OneLess(n) == IF BLOCK_SIZE - 8 < n THEN 2 ELSE 1

\* One block, or two if the mark and the length do not fit.
Blocks(n) == IF BLOCK_SIZE - 9 < n THEN 2 ELSE 1

\* The padding: a mark, zeros, and the length in bits, its highest byte first; of the
\* eight bytes of the length the first four stay 0.
Final ==
  /\ ~finished
  /\ LET pm_len == Blocks(m_len) * BLOCK_SIZE
         len_b == Bytes32((m_tot_len + m_len) * 8)
         padded == [i \in 1 .. 2 * BLOCK_SIZE |->
                     IF i <= m_len \/ i > pm_len THEN m_block[i]
                     ELSE IF i > pm_len - 4 THEN len_b[pm_len - i + 1]
                     ELSE IF i = m_len + 1 THEN 128
                     ELSE 0]
     IN  /\ m_block' = padded
         /\ absorbed' = absorbed \o First(padded, pm_len)
  /\ finished' = TRUE
  /\ UNCHANGED <<given, calls, m_len, m_tot_len>>

HashNext == (\E len \in Lengths : UpdateShort(len) \/ UpdateBlocks(len)) \/ Final

HashSpec == HashInit /\ [][HashNext]_hashVars

-----------------------------------------------------------------------------
\* Type invariant: less than a block waits, and final's two blocks hold it with the
\* mark and the length.
HashTypeOK ==
  /\ given \in Nat /\ calls \in Nat /\ finished \in BOOLEAN
  /\ m_block \in [1 .. 2 * BLOCK_SIZE -> Int]
  /\ m_len \in 0 .. BLOCK_SIZE - 1 /\ m_tot_len \in Nat
  /\ m_len + 9 <= Blocks(m_len) * BLOCK_SIZE /\ Blocks(m_len) <= 2

\* However the message is cut into calls of update, its bytes were transformed or are
\* waiting, each once and in their order.
NothingLost ==
  /\ given = m_tot_len + m_len
  /\ \A i \in 1..m_tot_len : absorbed[i] = Nth(i)
  /\ \A i \in 1..m_len : m_block[i] = Nth(m_tot_len + i)
  /\ ~finished => Len(absorbed) = m_tot_len

\* The padding as FIPS 180-2 defines it: the message, one bit, as few zeros as fill
\* the last block up to its last 64 bits, and those hold the length of the message.
Zeros(n) == CHOOSE k \in 0..BLOCK_SIZE - 1 : (n + 1 + k + 8) % BLOCK_SIZE = 0

PaddedAsDefined ==
  finished =>
    absorbed = Direct(0, given) \o <<128>> \o [i \in 1 .. Zeros(given) + 4 |-> 0]
               \o << (given * 8) \div 16777216, ((given * 8) \div 65536) % 256,
                     ((given * 8) \div 256) % 256, (given * 8) % 256 >>
=============================================================================
