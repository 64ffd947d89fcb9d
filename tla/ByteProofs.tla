------------------------------ MODULE ByteProofs ------------------------------
(***************************************************************************)
(* Proofs about the parts that turn values into bytes: cBuffer, for every  *)
(* GROW of at least 4, every size and every value a caller may write, and  *)
(* positions of any size; its encoding of integers, for every length an    *)
(* int can hold; and SHA256's padding, for every length and any number of  *)
(* calls of update.  (SMT is asked for by name where numbers are large:    *)
(* Zenon counts in unary.)                                                 *)
(***************************************************************************)
EXTENDS CBuffer, CodecCheck, Sha256, SequenceTheorems, TLAPS

\* An operation's item as the writes build it: where, how wide, which bytes.
Items == [at : Nat, width : Widths, value : Int]

-----------------------------------------------------------------------------
\* Lemmas about the parts of the operations.

\* A resized string has the length asked for and keeps what fits.
LEMMA ResizedIs ==
  ASSUME NEW buf \in Seq(Byte), NEW n \in Nat
  PROVE  /\ Resized(buf, n) \in Seq(Byte) /\ Len(Resized(buf, n)) = n
         /\ \A i \in 1..n : i <= Len(buf) => Resized(buf, n)[i] = buf[i]
<1>1. \A i \in 1..n : (IF i <= Len(buf) THEN buf[i] ELSE 0) \in Byte
  <2>1. 0 \in Byte
    BY DEF Byte
  <2>2. \A i \in 1..n : i <= Len(buf) => buf[i] \in Byte
    OBVIOUS
  <2> QED  BY <2>1, <2>2
<1> QED  BY <1>1 DEF Resized

\* Growing for a short or an int makes the item fit, cuts nothing off, and
\* changes no byte, provided the string was as long as the item.
LEMMA GrownIs ==
  ASSUME NEW buf \in Seq(Byte), NEW index \in Nat, NEW width \in {2, 4}
  PROVE  /\ Grown(buf, index, width) \in Seq(Byte)
         /\ Len(Grown(buf, index, width)) >= Len(buf)
         /\ \A i \in DOMAIN buf : Grown(buf, index, width)[i] = buf[i]
         /\ Len(buf) >= width => Fits(Grown(buf, index, width), index, width)
<1>1. CASE Len(buf) >= width /\ index >= Len(buf) - width
  <2>1. index + GROW \in Nat /\ index + GROW >= Len(buf) /\ index + GROW >= index + width
    BY <1>1, GrowAssumption
  <2>2. Grown(buf, index, width) = Resized(buf, index + GROW)
    BY <1>1 DEF Grown
  <2>3. /\ Resized(buf, index + GROW) \in Seq(Byte)
        /\ Len(Resized(buf, index + GROW)) = index + GROW
        /\ \A i \in 1..(index + GROW) : i <= Len(buf) => Resized(buf, index + GROW)[i] = buf[i]
    BY <2>1, ResizedIs
  <2>4. \A i \in DOMAIN buf : i \in 1..(index + GROW) /\ i <= Len(buf)
    BY <2>1
  <2> QED  BY <2>1, <2>2, <2>3, <2>4 DEF Fits
<1>2. CASE ~(Len(buf) >= width /\ index >= Len(buf) - width)
  <2>1. Grown(buf, index, width) = buf
    BY <1>2 DEF Grown
  <2> QED  BY <1>2, <2>1 DEF Fits
<1> QED  BY <1>1, <1>2

\* Growing for a char, likewise; the char fits if it is not beyond the end.
LEMMA GrownForCharIs ==
  ASSUME NEW buf \in Seq(Byte), NEW index \in Nat
  PROVE  /\ GrownForChar(buf, index) \in Seq(Byte)
         /\ Len(GrownForChar(buf, index)) >= Len(buf)
         /\ \A i \in DOMAIN buf : GrownForChar(buf, index)[i] = buf[i]
         /\ index <= Len(buf) => Fits(GrownForChar(buf, index), index, 1)
<1>1. CASE index = Len(buf)
  <2>1. index + GROW \in Nat /\ index + GROW >= Len(buf) /\ index + GROW >= index + 1
    BY <1>1, GrowAssumption
  <2>2. GrownForChar(buf, index) = Resized(buf, index + GROW)
    BY <1>1 DEF GrownForChar
  <2>3. /\ Resized(buf, index + GROW) \in Seq(Byte)
        /\ Len(Resized(buf, index + GROW)) = index + GROW
        /\ \A i \in 1..(index + GROW) : i <= Len(buf) => Resized(buf, index + GROW)[i] = buf[i]
    BY <2>1, ResizedIs
  <2>4. \A i \in DOMAIN buf : i \in 1..(index + GROW) /\ i <= Len(buf)
    BY <2>1
  <2> QED  BY <2>1, <2>2, <2>3, <2>4 DEF Fits
<1>2. CASE index # Len(buf)
  <2>1. GrownForChar(buf, index) = buf
    BY <1>2 DEF GrownForChar
  <2> QED  BY <1>2, <2>1 DEF Fits
<1> QED  BY <1>1, <1>2

\* The bytes an item of each width is written as.
BytesOf(width, v) ==
  CASE width = 4 -> Bytes32(v)
    [] width = 2 -> Bytes16(v)
    [] OTHER     -> <<v>>

Storable(item) == item \in Items /\ (item.width = 1 => item.value \in Byte)

\* The low byte of any integer is a byte: what writeInt32BE's masks store.
LEMMA ModByte == \A v \in Int : v % 256 \in Byte
BY SMT DEF Byte

\* Shifting an integer right leaves an integer.
LEMMA DivInt == \A v \in Int : v \div 256 \in Int /\ v \div 65536 \in Int /\ v \div 16777216 \in Int
BY SMT

\* The four bytes of an int are a sequence of four bytes.
LEMMA BytesOfType ==
  ASSUME NEW item, Storable(item)
  PROVE  /\ BytesOf(item.width, item.value) \in Seq(Byte)
         /\ Len(BytesOf(item.width, item.value)) = item.width
<1>1. item.value \in Int /\ item.width \in Widths
  BY DEF Storable, Items
<1>2. CASE item.width = 4
  BY <1>1, <1>2, ModByte, DivInt, SMT DEF BytesOf, Bytes32
<1>3. CASE item.width = 2
  BY <1>1, <1>3, ModByte, DivInt, SMT DEF BytesOf, Bytes16
<1>4. CASE item.width = 1
  BY <1>4, SMT DEF BytesOf, Storable
<1> QED  BY <1>1, <1>2, <1>3, <1>4, SMT DEF Widths

\* Storing bytes keeps the length, puts them there, and changes no other byte.
LEMMA StoredIs ==
  ASSUME NEW buf \in Seq(Byte), NEW index \in Nat, NEW bytes \in Seq(Byte),
         Fits(buf, index, Len(bytes))
  PROVE  /\ Stored(buf, index, bytes) \in Seq(Byte)
         /\ Len(Stored(buf, index, bytes)) = Len(buf)
         /\ \A k \in 1..Len(bytes) : Stored(buf, index, bytes)[index + k] = bytes[k]
         /\ \A i \in DOMAIN buf : i <= index \/ i > index + Len(bytes) =>
              Stored(buf, index, bytes)[i] = buf[i]
<1> DEFINE new(i) == IF i > index /\ i <= index + Len(bytes) THEN bytes[i - index] ELSE buf[i]
<1>1. \A i \in 1..Len(buf) : new(i) \in Byte
  OBVIOUS
<1>2. Stored(buf, index, bytes) = [i \in 1..Len(buf) |-> new(i)]
  BY DEF Stored
<1>3. \A k \in 1..Len(bytes) : index + k \in 1..Len(buf) /\ new(index + k) = bytes[k]
  BY DEF Fits
<1> HIDE DEF new
<1>4. /\ Stored(buf, index, bytes) \in Seq(Byte)
      /\ Len(Stored(buf, index, bytes)) = Len(buf)
      /\ \A i \in 1..Len(buf) : Stored(buf, index, bytes)[i] = new(i)
  BY <1>1, <1>2
<1>5. \A i \in 1..Len(buf) : i <= index \/ i > index + Len(bytes) => new(i) = buf[i]
  BY DEF new
<1> QED  BY <1>3, <1>4, <1>5

-----------------------------------------------------------------------------
\* The inductive invariant: what has been written stands in the string, and a
\* buffer that was given room for an int always has it, ends behind the write
\* position, and is never overrun by a write.

Shown(w, buf) ==
  /\ Fits(buf, w.at, w.width)
  /\ \A k \in 1..w.width : buf[w.at + k] = BytesOf(w.width, w.value)[k]

WrittenOK == \A w \in written : Storable(w) /\ Shown(w, m_buffer)

RoomOK ==
  base >= 4 =>
    /\ Len(m_buffer) >= 4 /\ overrun # "write"
    /\ Usable => m_writeIndex <= Len(m_buffer)

BufInv == TypeOK /\ WrittenOK /\ RoomOK

\* A string that has grown at the end still shows what it showed.
Extends(buf, old) ==
  Len(buf) >= Len(old) /\ \A i \in DOMAIN old : buf[i] = old[i]

\* A write that leaves the committed part of the buffer alone keeps every
\* value already written there.
LEMMA ShownKept ==
  ASSUME NEW old \in Seq(Byte), NEW buf \in Seq(Byte), Extends(buf, old),
         NEW w, Storable(w), Shown(w, old)
  PROVE  Shown(w, buf)
<1>1. w.at \in Nat /\ w.width \in Nat
  BY DEF Storable, Items, Widths
<1>2. Fits(buf, w.at, w.width)
  BY <1>1 DEF Shown, Fits, Extends
<1>3. \A k \in 1..w.width : w.at + k \in DOMAIN old
  BY <1>1 DEF Shown, Fits
<1> QED  BY <1>2, <1>3 DEF Shown, Extends

\* What every write does, once its buffer has been grown.
LEMMA PutIs ==
  ASSUME BufInv, Usable, NEW item, Storable(item),
         NEW buf \in Seq(Byte), Extends(buf, m_buffer), NEW fault,
         Put(buf, item, BytesOf(item.width, item.value), fault)
  PROVE  /\ m_buffer' \in Seq(Byte) /\ Len(m_buffer') = Len(buf)
         /\ WrittenOK'
         /\ written' \subseteq [at : Nat, width : Widths, value : Int]
         /\ overrun' = IF Fits(buf, item.at, item.width) THEN "no" ELSE fault
         /\ UNCHANGED <<m_readIndex, base>>
<1> DEFINE bytes == BytesOf(item.width, item.value)
<1>1. /\ item \in Items /\ item.at \in Nat /\ item.width \in Nat
      /\ bytes \in Seq(Byte) /\ Len(bytes) = item.width
  BY BytesOfType DEF Storable, Items, Widths
<1>2. \A w \in written : Storable(w) /\ Shown(w, buf)
  BY ShownKept DEF BufInv, TypeOK, WrittenOK
<1>3. written \subseteq Items
  BY DEF BufInv, TypeOK, Items
<1> HIDE DEF bytes
<1>4. CASE Fits(buf, item.at, item.width)
  <2>1. /\ m_buffer' = Stored(buf, item.at, bytes)
        /\ written' = {w \in written : ~Overlap(w, item)} \union {item}
        /\ overrun' = "no" /\ UNCHANGED <<m_readIndex, base>>
    BY <1>4 DEF Put, Usable, bytes
  <2>2. Fits(buf, item.at, Len(bytes))
    BY <1>1, <1>4
  <2>3. /\ m_buffer' \in Seq(Byte) /\ Len(m_buffer') = Len(buf)
        /\ \A k \in 1..Len(bytes) : m_buffer'[item.at + k] = bytes[k]
        /\ \A i \in DOMAIN buf : i <= item.at \/ i > item.at + Len(bytes) => m_buffer'[i] = buf[i]
    BY <1>1, <2>1, <2>2, StoredIs
  <2>4. Shown(item, m_buffer')
    BY <1>1, <1>4, <2>3 DEF Shown, Fits, bytes
  <2>5. ASSUME NEW w \in written, ~Overlap(w, item)
        PROVE  Shown(w, m_buffer')
    <3>1. w.at \in Nat /\ w.width \in Nat /\ Shown(w, buf)
      BY <1>2 DEF Storable, Items, Widths
    <3>2. \A k \in 1..w.width :
            /\ w.at + k \in DOMAIN buf
            /\ w.at + k <= item.at \/ w.at + k > item.at + Len(bytes)
      BY <1>1, <2>5, <3>1, SMTT(20) DEF Overlap, Shown, Fits
    <3>3. Fits(m_buffer', w.at, w.width)
      BY <2>3, <3>1 DEF Shown, Fits
    <3> QED  BY <2>3, <3>1, <3>2, <3>3 DEF Shown
  <2>6. WrittenOK'
    BY <1>2, <2>1, <2>4, <2>5 DEF WrittenOK
  <2> QED  BY <1>1, <1>3, <1>4, <2>1, <2>3, <2>6 DEF Items
<1>5. CASE ~Fits(buf, item.at, item.width)
  <2>1. m_buffer' = buf /\ overrun' = fault /\ UNCHANGED <<m_readIndex, base, written>>
    BY <1>5 DEF Put
  <2> QED  BY <1>2, <1>3, <1>5, <2>1 DEF WrittenOK, Items
<1> QED  BY <1>4, <1>5

\* A new cBuffer satisfies the inductive invariant.
LEMMA InitBuf == Init => BufInv
<1> SUFFICES ASSUME NEW size \in Sizes, Init,
                    m_buffer = [i \in 1..size |-> 0], base = size
             PROVE  BufInv
  BY DEF Init
<1>1. size \in Nat
  BY InputAssumption
<1>2. m_buffer \in Seq(Byte) /\ Len(m_buffer) = size
  BY <1>1 DEF Byte
<1> QED  BY <1>1, <1>2 DEF Init, BufInv, TypeOK, WrittenOK, RoomOK

\* The writes of an int or a short, at the write position or at an index.
LEMMA WideWrite ==
  ASSUME BufInv, Usable, NEW index \in Nat, NEW width \in {2, 4}, NEW v \in Int,
         Put(Grown(m_buffer, index, width), Item(index, width, v),
             BytesOf(width, v), "write"),
         \/ m_writeIndex' = m_writeIndex
         \/ index = m_writeIndex /\ m_writeIndex' = m_writeIndex + width
  PROVE  BufInv'
<1> DEFINE buf == Grown(m_buffer, index, width)
           item == Item(index, width, v)
<1>1. /\ Storable(item) /\ item.at = index /\ item.width = width /\ item.value = v
  BY DEF Item, Storable, Items, Widths
<1>2. /\ buf \in Seq(Byte) /\ Extends(buf, m_buffer)
      /\ Len(m_buffer) >= width => Fits(buf, index, width)
  BY GrownIs DEF Extends, BufInv, TypeOK
<1> HIDE DEF buf, item
<1>3. /\ m_buffer' \in Seq(Byte) /\ Len(m_buffer') = Len(buf)
      /\ WrittenOK'
      /\ written' \subseteq [at : Nat, width : Widths, value : Int]
      /\ overrun' = IF Fits(buf, index, width) THEN "no" ELSE "write"
      /\ UNCHANGED <<m_readIndex, base>>
  <2>1. Put(buf, item, BytesOf(item.width, item.value), "write")
    BY <1>1 DEF buf, item
  <2> QED  BY <1>1, <1>2, <2>1, PutIs
<1>4. m_writeIndex' \in Nat
  BY DEF BufInv, TypeOK
<1>5. TypeOK'
  BY <1>3, <1>4 DEF BufInv, TypeOK
<1>6. RoomOK'
  <2> SUFFICES ASSUME base >= 4
               PROVE  /\ Len(m_buffer') >= 4 /\ overrun' # "write"
                      /\ m_writeIndex' <= Len(m_buffer')
    BY <1>3 DEF RoomOK
  <2>1. Len(m_buffer) >= 4 /\ m_writeIndex <= Len(m_buffer)
    BY DEF BufInv, RoomOK
  <2>2. Len(buf) >= Len(m_buffer) /\ Fits(buf, index, width)
    BY <1>2, <2>1 DEF Extends, BufInv, TypeOK
  <2>3. index + width <= Len(buf)
    BY <2>2 DEF Fits
  <2> QED  BY <1>2, <1>3, <2>1, <2>2, <2>3 DEF BufInv, TypeOK
<1> QED  BY <1>3, <1>5, <1>6 DEF BufInv

\* The writes of a char; only the one at an index may leave a gap.
LEMMA CharWrite ==
  ASSUME BufInv, Usable, NEW index \in Nat, NEW v \in Byte, NEW fault,
         Put(GrownForChar(m_buffer, index), Item(index, 1, v), <<v>>, fault),
         \/ fault = "gap" /\ m_writeIndex' = m_writeIndex
         \/ fault = "write" /\ index = m_writeIndex /\ m_writeIndex' = m_writeIndex + 1
  PROVE  BufInv'
<1> DEFINE buf == GrownForChar(m_buffer, index)
           item == Item(index, 1, v)
<1>1. /\ Storable(item) /\ item.at = index /\ item.width = 1
      /\ BytesOf(item.width, item.value) = <<v>>
  BY DEF Item, Storable, Items, Widths, Byte, BytesOf
<1>2. /\ buf \in Seq(Byte) /\ Extends(buf, m_buffer)
      /\ index <= Len(m_buffer) => Fits(buf, index, 1)
  BY GrownForCharIs DEF Extends, BufInv, TypeOK
<1> HIDE DEF buf, item
<1>3. /\ m_buffer' \in Seq(Byte) /\ Len(m_buffer') = Len(buf)
      /\ WrittenOK'
      /\ written' \subseteq [at : Nat, width : Widths, value : Int]
      /\ overrun' = IF Fits(buf, index, 1) THEN "no" ELSE fault
      /\ UNCHANGED <<m_readIndex, base>>
  <2>1. Put(buf, item, BytesOf(item.width, item.value), fault)
    BY <1>1 DEF buf, item
  <2> QED  BY <1>1, <1>2, <2>1, PutIs
<1>4. m_writeIndex' \in Nat
  BY DEF BufInv, TypeOK
<1>5. TypeOK'
  BY <1>3, <1>4 DEF BufInv, TypeOK
<1>6. RoomOK'
  <2> SUFFICES ASSUME base >= 4
               PROVE  /\ Len(m_buffer') >= 4 /\ overrun' # "write"
                      /\ m_writeIndex' <= Len(m_buffer') \/ overrun' # "no"
    BY <1>3 DEF RoomOK, Usable
  <2>1. Len(m_buffer) >= 4 /\ m_writeIndex <= Len(m_buffer)
    BY DEF BufInv, RoomOK
  <2>2. Len(buf) >= Len(m_buffer)
    BY <1>2 DEF Extends
  <2>3. CASE fault = "gap" /\ m_writeIndex' = m_writeIndex
    BY <1>2, <1>3, <2>1, <2>2, <2>3 DEF BufInv, TypeOK
  <2>4. CASE fault = "write" /\ index = m_writeIndex /\ m_writeIndex' = m_writeIndex + 1
    <3>1. index + 1 <= Len(buf) /\ Fits(buf, index, 1)
      BY <1>2, <2>1, <2>4 DEF Fits
    <3> QED  BY <1>2, <1>3, <2>1, <2>2, <2>4, <3>1 DEF BufInv, TypeOK
  <2> QED  BY <2>3, <2>4
<1> QED  BY <1>3, <1>5, <1>6 DEF BufInv

\* Every operation of cBuffer keeps the inductive invariant.
LEMMA NextBuf == BufInv /\ [Next]_vars => BufInv'
<1> SUFFICES ASSUME BufInv, [Next]_vars PROVE BufInv'
  OBVIOUS
<1>0. m_writeIndex \in Nat /\ m_readIndex \in Nat
  BY DEF BufInv, TypeOK
<1>1. ASSUME NEW v \in Ints, WriteInt32LE(v)
      PROVE  BufInv'
  BY <1>0, <1>1, InputAssumption, WideWrite DEF WriteInt32LE, BytesOf
<1>2. ASSUME NEW v \in Shorts, WriteInt16LE(v)
      PROVE  BufInv'
  BY <1>0, <1>2, InputAssumption, WideWrite DEF WriteInt16LE, BytesOf
<1>3. ASSUME NEW v \in Chars, WriteChar(v)
      PROVE  BufInv'
  BY <1>0, <1>3, InputAssumption, CharWrite DEF WriteChar
<1>4. ASSUME NEW i \in 0..MaxIndex, NEW v \in Ints, WriteInt32LEAt(i, v)
      PROVE  BufInv'
  <2>1. /\ i \in Nat /\ v \in Int
        /\ Put(Grown(m_buffer, i, 4), Item(i, 4, v), BytesOf(4, v), "write")
        /\ Usable /\ m_writeIndex' = m_writeIndex
    BY <1>4, InputAssumption DEF WriteInt32LEAt, BytesOf
  <2> QED  BY <2>1, WideWrite
<1>5. ASSUME NEW i \in 0..MaxIndex, NEW v \in Shorts, WriteInt16LEAt(i, v)
      PROVE  BufInv'
  <2>1. /\ i \in Nat /\ v \in Int
        /\ Put(Grown(m_buffer, i, 2), Item(i, 2, v), BytesOf(2, v), "write")
        /\ Usable /\ m_writeIndex' = m_writeIndex
    BY <1>5, InputAssumption DEF WriteInt16LEAt, BytesOf
  <2> QED  BY <2>1, WideWrite
<1>6. ASSUME NEW i \in 0..MaxIndex, NEW v \in Chars, WriteCharAt(i, v)
      PROVE  BufInv'
  BY <1>6, InputAssumption, CharWrite DEF WriteCharAt
<1>7. ASSUME NEW index, NEW w, Get(index, w), m_readIndex' \in Nat
      PROVE  BufInv'
  <2>1. overrun' \in {"no", "read"} /\ UNCHANGED <<m_buffer, m_writeIndex, base, written>>
    BY <1>7 DEF Get
  <2>2. Usable
    BY <1>7 DEF Get
  <2> QED
    BY <1>7, <2>1, <2>2 DEF BufInv, TypeOK, WrittenOK, RoomOK, Usable
<1>8. ASSUME NEW w \in Widths, Read(w)
      PROVE  BufInv'
  BY <1>0, <1>7, <1>8 DEF Read, Widths
<1>9. ASSUME NEW i \in 0..MaxIndex, NEW w \in Widths, ReadAt(i, w)
      PROVE  BufInv'
  BY <1>0, <1>7, <1>9 DEF ReadAt
<1>10. ASSUME NEW bytes \in Contents, setBuffer(bytes)
       PROVE  BufInv'
  <2>1. bytes \in Seq(Byte) /\ Len(bytes) \in Nat
    BY InputAssumption
  <2> QED
    BY <1>10, <2>1 DEF setBuffer, BufInv, TypeOK, WrittenOK, RoomOK, Usable
<1>11. CASE clearBuffer
  BY <1>11 DEF clearBuffer, BufInv, TypeOK, WrittenOK, RoomOK, Usable
<1>12. CASE UNCHANGED vars
  BY <1>12 DEF vars, BufInv, TypeOK, WrittenOK, RoomOK, Usable
<1> QED
  BY <1>1, <1>2, <1>3, <1>4, <1>5, <1>6, <1>8, <1>9, <1>10, <1>11, <1>12 DEF Next

-----------------------------------------------------------------------------
\* The inductive invariant holds however the operations are mixed.
THEOREM BufferInvariant == Spec => []BufInv
BY InitBuf, NextBuf, PTL DEF Spec

\* The bytes stay bytes and the positions natural numbers.
THEOREM BufferType == Spec => []TypeOK
<1>1. BufInv => TypeOK
  BY DEF BufInv
<1> QED  BY <1>1, BufferInvariant, PTL

\* No write leaves a buffer that was given room for one int, for every GROW
\* that makes room for one.
THEOREM WritesStayInside == Spec => []WriteOverrunOnlyIfShort
<1>1. BufInv => WriteOverrunOnlyIfShort
  BY DEF BufInv, TypeOK, RoomOK, WriteOverrunOnlyIfShort
<1> QED  BY <1>1, BufferInvariant, PTL

\* What a read at the place of a written item finds depends on the bytes of
\* the item only.
LEMMA ShownDecodes ==
  ASSUME NEW buf \in Seq(Byte), NEW w, Storable(w), Shown(w, buf)
  PROVE  Fetched(buf, w.at, w.width) = Decoded(w.width, w.value)
<1> DEFINE b == BytesOf(w.width, w.value)
<1>1. w.at \in Nat /\ w.width \in Widths /\ w.value \in Int
  BY DEF Storable, Items
<1>2. \A k \in 1..w.width : ByteAt(buf, w.at + k - 1) = b[k]
  <2> SUFFICES ASSUME NEW k \in 1..w.width PROVE ByteAt(buf, w.at + k - 1) = b[k]
    OBVIOUS
  <2>1. w.at + k - 1 < Len(buf) /\ (w.at + k - 1) + 1 = w.at + k
    BY <1>1 DEF Shown, Fits, Widths
  <2>2. buf[w.at + k] = b[k]
    BY DEF Shown
  <2> QED  BY <2>1, <2>2 DEF ByteAt
<1>3. CASE w.width = 4
  <2> DEFINE f == [k \in 1..4 |-> ByteAt(buf, w.at + k - 1)]
  <2>1. f[1] = b[1] /\ f[2] = b[2] /\ f[3] = b[3] /\ f[4] = b[4]
    BY <1>2, <1>3
  <2>2. b = Bytes32(w.value)
    BY <1>3 DEF BytesOf
  <2>3. Fetched(buf, w.at, w.width) = Int32(f)
    BY <1>3 DEF Fetched
  <2>4. Decoded(w.width, w.value) = Int32(b)
    BY <1>3, <2>2 DEF Decoded, Decoded32
  <2> HIDE DEF f, b
  <2> QED  BY <2>1, <2>3, <2>4 DEF Int32
<1>4. CASE w.width = 2
  <2> DEFINE f == [k \in 1..2 |-> ByteAt(buf, w.at + k - 1)]
  <2>1. f[1] = b[1] /\ f[2] = b[2]
    BY <1>2, <1>4
  <2>2. b = Bytes16(w.value)
    BY <1>4 DEF BytesOf
  <2>3. Fetched(buf, w.at, w.width) = Int16(f)
    BY <1>4 DEF Fetched
  <2>4. Decoded(w.width, w.value) = Int16(b)
    BY <1>4, <2>2 DEF Decoded, Decoded16
  <2> HIDE DEF f, b
  <2> QED  BY <2>1, <2>3, <2>4 DEF Int16
<1>5. CASE w.width = 1
  <2>1. ByteAt(buf, w.at) = w.value
    BY <1>1, <1>2, <1>5 DEF BytesOf
  <2> QED  BY <1>5, <2>1 DEF Fetched, Decoded
<1> QED  BY <1>1, <1>3, <1>4, <1>5 DEF Widths

\* Every item that was not written over reads back as its bytes decode,
\* however the buffer has grown and whatever was written elsewhere.
THEOREM WrittenReadsBack == Spec => []ReadBack
<1>1. BufInv => ReadBack
  BY ShownDecodes DEF BufInv, TypeOK, WrittenOK, ReadBack
<1> QED  BY <1>1, BufferInvariant, PTL

-----------------------------------------------------------------------------
\* Lengths that are written as an int or a short.

\* The bytes of a value that is not negative are bytes, and make it up.
LEMMA BytesOf32 ==
  ASSUME NEW v \in Nat, v <= 2147483647
  PROVE  /\ \A k \in 1..4 : Bytes32(v)[k] \in Nat /\ Bytes32(v)[k] <= 255
         /\ Bytes32(v)[4] <= 127
         /\ v = Bytes32(v)[1] + 256 * Bytes32(v)[2] + 65536 * Bytes32(v)[3]
                + 16777216 * Bytes32(v)[4]
<1> DEFINE q1 == v \div 256
           q2 == v \div 65536
           q3 == v \div 16777216
<1>1. v = 256 * q1 + (v % 256) /\ v % 256 \in Nat /\ v % 256 <= 255 /\ q1 \in Nat
  BY SMT
<1>2. q1 = 256 * q2 + (q1 % 256) /\ q1 % 256 \in Nat /\ q1 % 256 <= 255 /\ q2 \in Nat
  BY SMT
<1>3. q2 = 256 * q3 + (q2 % 256) /\ q2 % 256 \in Nat /\ q2 % 256 <= 255 /\ q3 \in Nat
  BY SMT
<1>4. q3 <= 127 /\ q3 % 256 = q3
  BY SMT
<1>5. Bytes32(v) = << v % 256, q1 % 256, q2 % 256, q3 % 256 >>
  BY SMT DEF Bytes32
<1> HIDE DEF q1, q2, q3
<1>6. v = (v % 256) + 256 * (q1 % 256) + 65536 * (q2 % 256) + 16777216 * q3
  BY SMT, <1>1, <1>2, <1>3, <1>4
<1> QED  BY SMT, <1>1, <1>2, <1>3, <1>4, <1>5, <1>6

\* A length comes back as it was written if its three lower bytes are below
\* 128, and negative if not.
LEMMA Fate32 ==
  ASSUME NEW v \in Nat, v <= 2147483647
  PROVE  \/ Decoded32(v) = v /\ \A k \in 1..3 : Bytes32(v)[k] < 128
         \/ Decoded32(v) < 0 /\ \E k \in 1..3 : Bytes32(v)[k] >= 128
<1> DEFINE b == Bytes32(v)
<1>1. /\ b[1] \in Nat /\ b[1] <= 255 /\ b[2] \in Nat /\ b[2] <= 255
      /\ b[3] \in Nat /\ b[3] <= 255 /\ b[4] \in Nat /\ b[4] <= 127
      /\ v = b[1] + 256 * b[2] + 65536 * b[3] + 16777216 * b[4]
  BY SMT, BytesOf32
<1>2. Decoded32(v) = Int32(b)
  BY DEF Decoded32
<1> HIDE DEF b
<1>3. CASE b[1] >= 128
  BY SMT, <1>1, <1>2, <1>3 DEF Int32, SignedChar, b
<1>4. CASE b[1] < 128 /\ b[2] >= 128
  BY SMT, <1>1, <1>2, <1>4 DEF Int32, SignedChar, b
<1>5. CASE b[1] < 128 /\ b[2] < 128 /\ b[3] >= 128
  BY SMT, <1>1, <1>2, <1>5 DEF Int32, SignedChar, b
<1>6. CASE b[1] < 128 /\ b[2] < 128 /\ b[3] < 128
  BY SMT, <1>1, <1>2, <1>6 DEF Int32, SignedChar, b
<1> QED  BY SMT, <1>1, <1>3, <1>4, <1>5, <1>6

\* Small lengths: the packets and texts up to 127 bytes survive, the next 128
\* do not.
THEOREM ShortLengths ==
  ASSUME NEW v \in Nat
  PROVE  /\ v <= 127 => Decoded32(v) = v /\ Decoded16(v) = v
         /\ v > 127 /\ v <= 255 => Decoded32(v) < 0 /\ Decoded16(v) < 0
<1>1. v <= 255 => v \div 256 = 0 /\ v \div 65536 = 0 /\ v \div 16777216 = 0 /\ v % 256 = v
  BY SMT
<1>2. 0 % 256 = 0
  BY SMT
<1> QED
  BY SMT, <1>1, <1>2 DEF Decoded32, Decoded16, Bytes32, Bytes16, Int32, Int16, SignedChar

\* A length the buffer still holds as it was written survives, or is read as
\* a negative number.
THEOREM LengthsSurviveOrAreNegative == CodecSpec => []LengthSurvivesOrIsNegative
<1> DEFINE Inv == intact => value \in Nat /\ value <= 2147483647 /\ word = Bytes32(value)
<1>1. CodecInit => Inv
  BY SMT DEF CodecInit
<1>2. Inv /\ [CodecNext]_codecVars => Inv'
  <2> SUFFICES ASSUME Inv, [CodecNext]_codecVars PROVE Inv'
    OBVIOUS
  <2>1. ASSUME NEW v \in Values, WriteValue(v)
        PROVE  Inv'
    <3>1. v \in Nat /\ v <= 2147483647
      BY SMTT(30), CheckAssumption
    <3> QED  BY SMT, <2>1, <3>1 DEF WriteValue
  <2>2. ASSUME NEW i \in 1..4, NEW b \in Bytes, WriteByte(i, b)
        PROVE  Inv'
    BY SMT, <2>2 DEF WriteByte
  <2>3. CASE UNCHANGED codecVars
    BY SMT, <2>3 DEF codecVars
  <2> QED  BY SMT, <2>1, <2>2, <2>3 DEF CodecNext
<1>3. Inv => LengthSurvivesOrIsNegative
  BY SMT, Fate32 DEF LengthSurvivesOrIsNegative, Decoded32
<1> QED  BY <1>1, <1>2, <1>3, PTL DEF CodecSpec

\* An int from its bytes, the highest of which is a char; and the ranges of an
\* int and of a short.
Assembled(b1, b2, b3, top) == b1 + 256 * b2 + 65536 * b3 + 16777216 * top
LowByte(v) == v % 256
Is32(v) == Signed(v, 2147483647)
Is16(v) == Signed(v, 32767)

\* What the four bytes of an assembled int are.
LEMMA SplitInt ==
  ASSUME NEW b1 \in Byte, NEW b2 \in Byte, NEW b3 \in Byte, NEW top \in Int
  PROVE  Bytes32(Assembled(b1, b2, b3, top)) = <<b1, b2, b3, LowByte(top)>>
<1> DEFINE v == Assembled(b1, b2, b3, top)
<1>1. /\ b1 \in Int /\ 0 <= b1 /\ b1 <= 255 /\ b2 \in Int /\ 0 <= b2 /\ b2 <= 255
      /\ b3 \in Int /\ 0 <= b3 /\ b3 <= 255
  BY SMT DEF Byte
<1>2. v \in Int /\ v = b1 + 256 * (b2 + 256 * b3 + 65536 * top)
  BY SMT, <1>1 DEF Assembled
<1>3. v % 256 = b1 /\ v \div 256 = b2 + 256 * (b3 + 256 * top)
  BY SMT, <1>1, <1>2
<1>4. (v \div 256) % 256 = b2
  BY SMT, <1>1, <1>3
<1>5. v \div 65536 = b3 + 256 * top
  BY SMT, <1>1, <1>2
<1>6. (v \div 65536) % 256 = b3
  BY SMT, <1>1, <1>5
<1>7. v \div 16777216 = top
  BY SMT, <1>1, <1>2
<1> HIDE DEF v
<1>8. Bytes32(v) = <<b1, b2, b3, LowByte(top)>>
  BY <1>3, <1>4, <1>6, <1>7, SMT DEF Bytes32, LowByte
<1> QED BY <1>8, Zenon DEF v

\* A negative char hides the bytes above it: it fills them with ones.
Filled(b, i) == IF \E k \in 1..(i - 1) : b[k] >= 128 THEN 255 ELSE b[i]

\* Which bytes are hidden.
LEMMA FilledIs ==
  ASSUME NEW b
  PROVE  /\ Filled(b, 1) = b[1]
         /\ Filled(b, 2) = IF b[1] >= 128 THEN 255 ELSE b[2]
         /\ Filled(b, 3) = IF b[1] >= 128 \/ b[2] >= 128 THEN 255 ELSE b[3]
         /\ Filled(b, 4) = IF b[1] >= 128 \/ b[2] >= 128 \/ b[3] >= 128 THEN 255 ELSE b[4]
<1>1. \A k : ~(k \in 1..(1 - 1))
  BY SMT
<1>2. \A k : k \in 1..(2 - 1) <=> k = 1
  BY SMT
<1>3. \A k : k \in 1..(3 - 1) <=> k = 1 \/ k = 2
  BY SMT
<1>4. \A k : k \in 1..(4 - 1) <=> k = 1 \/ k = 2 \/ k = 3
  BY SMT
<1>5. Filled(b, 1) = b[1]
  BY <1>1, Zenon DEF Filled
<1>6. Filled(b, 2) = IF b[1] >= 128 THEN 255 ELSE b[2]
  <2>1. (\E k \in 1..(2 - 1) : b[k] >= 128) <=> b[1] >= 128
    BY <1>2, Zenon
  <2> QED BY <2>1, Zenon DEF Filled
<1>7. Filled(b, 3) = IF b[1] >= 128 \/ b[2] >= 128 THEN 255 ELSE b[3]
  <2>1. (\E k \in 1..(3 - 1) : b[k] >= 128) <=> b[1] >= 128 \/ b[2] >= 128
    BY <1>3, Zenon
  <2> QED BY <2>1, Zenon DEF Filled
<1>8. Filled(b, 4) = IF b[1] >= 128 \/ b[2] >= 128 \/ b[3] >= 128 THEN 255 ELSE b[4]
  <2>1. (\E k \in 1..(4 - 1) : b[k] >= 128) <=> b[1] >= 128 \/ b[2] >= 128 \/ b[3] >= 128
    BY <1>4, Zenon
  <2> QED BY <2>1, Zenon DEF Filled
<1> QED BY <1>5, <1>6, <1>7, <1>8

\* The bytes of the int that ReadInt32LE returns.
LEMMA BytesRead32 ==
  ASSUME NEW x1 \in Byte, NEW x2 \in Byte, NEW x3 \in Byte, NEW x4 \in Byte,
         NEW b, b = <<x1, x2, x3, x4>>
  PROVE  /\ Is32(Int32(b))
         /\ Bytes32(Int32(b)) = <<Filled(b, 1), Filled(b, 2), Filled(b, 3), Filled(b, 4)>>
         /\ \A i \in 1..4 : Filled(b, i) \in Byte
<1>1. /\ x1 \in Int /\ 0 <= x1 /\ x1 <= 255 /\ x2 \in Int /\ 0 <= x2 /\ x2 <= 255
      /\ x3 \in Int /\ 0 <= x3 /\ x3 <= 255 /\ x4 \in Int /\ 0 <= x4 /\ x4 <= 255
  BY SMT DEF Byte
<1>2. b[1] = x1 /\ b[2] = x2 /\ b[3] = x3 /\ b[4] = x4
  OBVIOUS
<1> DEFINE y2 == IF x1 >= 128 THEN 255 ELSE x2
           y3 == IF x1 >= 128 \/ x2 >= 128 THEN 255 ELSE x3
           y4 == IF x1 >= 128 \/ x2 >= 128 \/ x3 >= 128 THEN 255 ELSE x4
           top == IF x1 >= 128 \/ x2 >= 128 \/ x3 >= 128 THEN -1 ELSE SignedChar(x4)
<1>3. Filled(b, 1) = x1 /\ Filled(b, 2) = y2 /\ Filled(b, 3) = y3 /\ Filled(b, 4) = y4
  BY <1>2, FilledIs
<1>4. top \in Int /\ -128 <= top /\ top <= 127 /\ top % 256 = y4
  BY <1>1, SMT DEF SignedChar
<1>5. x1 \in Byte /\ y2 \in Byte /\ y3 \in Byte /\ y4 \in Byte
  BY <1>1, SMT DEF Byte
<1>6. Int32(b) = Assembled(x1, y2, y3, top)
  BY <1>1, <1>2, SMT DEF Int32, SignedChar, Assembled
<1> HIDE DEF top, y2, y3, y4
<1>a. /\ y2 \in Int /\ 0 <= y2 /\ y2 <= 255 /\ y3 \in Int /\ 0 <= y3 /\ y3 <= 255
  BY <1>5, SMT DEF Byte
<1>7. Is32(Assembled(x1, y2, y3, top))
  BY <1>1, <1>4, <1>a, SMT DEF Is32, Signed, Assembled
<1>8. Bytes32(Int32(b)) = <<x1, y2, y3, y4>>
  <2>1. Bytes32(Assembled(x1, y2, y3, top)) = <<x1, y2, y3, LowByte(top)>>
    <3>1. top \in Int
      BY <1>4
    <3>2. \A a1, a2, a3 \in Byte, t \in Int :
            Bytes32(Assembled(a1, a2, a3, t)) = <<a1, a2, a3, LowByte(t)>>
      BY SplitInt
    <3> QED BY <1>5, <3>1, <3>2, Zenon
  <2>2. LowByte(top) = y4
    BY <1>4, Zenon DEF LowByte
  <2> QED BY <1>6, <2>1, <2>2, Zenon
<1>9. ASSUME NEW i \in 1..4 PROVE Filled(b, i) \in Byte
  <2>1. i = 1 \/ i = 2 \/ i = 3 \/ i = 4
    BY SMT
  <2> QED BY <1>3, <1>5, <2>1, Zenon
<1> QED BY <1>3, <1>6, <1>7, <1>8, <1>9, Zenon

\* The bytes of the short that ReadInt16LE returns.
LEMMA BytesRead16 ==
  ASSUME NEW x1 \in Byte, NEW x2 \in Byte, NEW b, b[1] = x1, b[2] = x2
  PROVE  /\ Is16(Int16(b))
         /\ Bytes16(Int16(b)) = <<Filled(b, 1), Filled(b, 2)>>
<1>1. x1 \in Int /\ 0 <= x1 /\ x1 <= 255 /\ x2 \in Int /\ 0 <= x2 /\ x2 <= 255
  BY SMT DEF Byte
<1> DEFINE y2 == IF x1 >= 128 THEN 255 ELSE x2
           top == IF x1 >= 128 THEN -1 ELSE SignedChar(x2)
<1>2. Filled(b, 1) = x1 /\ Filled(b, 2) = y2
  BY FilledIs, Zenon
<1>3. top \in Int /\ -128 <= top /\ top <= 127 /\ top % 256 = y2
  BY <1>1, SMT DEF SignedChar
<1>4. Int16(b) = x1 + 256 * top
  BY <1>1, SMT DEF Int16, SignedChar
<1> HIDE DEF top, y2
<1>5. Is16(x1 + 256 * top)
  BY <1>1, <1>3, SMT DEF Is16, Signed
<1>6. (x1 + 256 * top) % 256 = x1 /\ (x1 + 256 * top) \div 256 = top
  BY <1>1, <1>3, SMT
<1>7. Bytes16(Int16(b)) = <<x1, top % 256>>
  BY <1>4, <1>6, ZenonT(40) DEF Bytes16
<1>8. Is16(Int16(b))
  BY <1>4, <1>5, Zenon
<1>9. Bytes16(Int16(b)) = <<x1, y2>>
  BY <1>3, <1>7, Zenon
<1> QED BY <1>2, <1>8, <1>9, Zenon

\* The highest bit of a byte is the sign of the char, and 255 has all bits.
LEMMA BitsOfByte ==
  /\ \A b \in Byte : BitOf(b, 7) <=> b >= 128
  /\ \A n \in 0..7 : BitOf(255, n)
<1>1. /\ Weights[1] = 1 /\ Weights[2] = 2 /\ Weights[3] = 4 /\ Weights[4] = 8
      /\ Weights[5] = 16 /\ Weights[6] = 32 /\ Weights[7] = 64 /\ Weights[8] = 128
  BY DEF Weights
<1>2. \A b \in Byte : BitOf(b, 7) <=> b >= 128
  BY <1>1, SMT DEF BitOf, Byte
<1>3. ASSUME NEW n \in 0..7 PROVE BitOf(255, n)
  <2>1. n + 1 \in {1, 2, 3, 4, 5, 6, 7, 8}
    BY SMT
  <2>2. Weights[n + 1] \in {1, 2, 4, 8, 16, 32, 64, 128}
    <3> SUFFICES ASSUME NEW m \in {1, 2, 3, 4, 5, 6, 7, 8}
                 PROVE  Weights[m] \in {1, 2, 4, 8, 16, 32, 64, 128}
      BY <2>1
    <3> QED BY <1>1, SMT
  <2> QED BY <2>2, SMT DEF BitOf
<1> QED BY <1>2, <1>3

\* Or-ing the shifted chars gives just those bytes.
LEMMA OredAreFilled ==
  ASSUME NEW b, NEW bytes, NEW m \in Nat, DOMAIN bytes = 1..m,
         \A i \in 1..m : b[i] \in Byte /\ bytes[i] = Filled(b, i)
  PROVE  AreOredBytes(bytes, b)
<1> SUFFICES ASSUME NEW i \in 1..m, NEW n \in 0..7
             PROVE  BitOf(bytes[i], n) <=> \E k \in 1..m : ShiftedBit(b, k, i, n)
  BY Zenon DEF AreOredBytes
<1>1. i \in Int /\ i <= i /\ \A k \in 1..m : k \in Int
  BY SMT
<1>2. ShiftedBit(b, i, i, n) <=> BitOf(b[i], n)
  BY <1>1, Zenon DEF ShiftedBit
<1>3. ASSUME NEW k \in 1..m, k # i
      PROVE  ShiftedBit(b, k, i, n) <=> k \in 1..(i - 1) /\ b[k] >= 128
  <2>1. k <= i <=> k \in 1..(i - 1)
    BY <1>3, SMT
  <2>2. ShiftedBit(b, k, i, n) <=> k <= i /\ BitOf(b[k], 7)
    BY <1>3, Zenon DEF ShiftedBit
  <2>3. b[k] \in Byte
    OBVIOUS
  <2> QED BY <2>1, <2>2, <2>3, BitsOfByte, Zenon
<1>4. \A k \in 1..(i - 1) : k \in 1..m /\ k # i
  BY SMT
<1>5. CASE \E k \in 1..(i - 1) : b[k] >= 128
  <2>1. bytes[i] = 255
    BY <1>5, Zenon DEF Filled
  <2>2. \E k \in 1..m : ShiftedBit(b, k, i, n)
    BY <1>3, <1>4, <1>5, Zenon
  <2> QED BY <2>1, <2>2, BitsOfByte, Zenon
<1>6. CASE ~\E k \in 1..(i - 1) : b[k] >= 128
  <2>1. bytes[i] = b[i]
    BY <1>6, Zenon DEF Filled
  <2>2. (\E k \in 1..m : ShiftedBit(b, k, i, n)) <=> BitOf(b[i], n)
    BY <1>2, <1>3, <1>6, Zenon
  <2> QED BY <2>1, <2>2, Zenon
<1> QED BY <1>5, <1>6

\* Whatever stands in the four bytes, what the two reads return are the shifted
\* chars or-ed together.
LEMMA ReadsOr ==
  ASSUME NEW x1 \in Byte, NEW x2 \in Byte, NEW x3 \in Byte, NEW x4 \in Byte,
         NEW b, b = <<x1, x2, x3, x4>>
  PROVE  AreOredBytes(Bytes32(Int32(b)), b) /\ AreOredBytes(Bytes16(Int16(b)), b)
<1>1. b[1] = x1 /\ b[2] = x2 /\ b[3] = x3 /\ b[4] = x4
  OBVIOUS
<1>2. \A i \in 1..4 : b[i] \in Byte
  <2> SUFFICES ASSUME NEW i \in 1..4 PROVE b[i] \in Byte
    OBVIOUS
  <2>1. i = 1 \/ i = 2 \/ i = 3 \/ i = 4
    BY SMT
  <2> QED BY <1>1, <2>1, Zenon
<1>3. AreOredBytes(Bytes32(Int32(b)), b)
  <2> SUFFICES ASSUME NEW bytes, bytes = Bytes32(Int32(b)) PROVE AreOredBytes(bytes, b)
    OBVIOUS
  <2>1. bytes = <<Filled(b, 1), Filled(b, 2), Filled(b, 3), Filled(b, 4)>>
    BY BytesRead32
  <2>2. /\ DOMAIN bytes = 1..4 /\ bytes[1] = Filled(b, 1) /\ bytes[2] = Filled(b, 2)
        /\ bytes[3] = Filled(b, 3) /\ bytes[4] = Filled(b, 4)
    BY <2>1
  <2>3. ASSUME NEW i \in 1..4 PROVE bytes[i] = Filled(b, i)
    <3>1. i = 1 \/ i = 2 \/ i = 3 \/ i = 4
      BY SMT
    <3> QED BY <2>2, <3>1, Zenon
  <2>4. 4 \in Nat
    OBVIOUS
  <2> QED BY <1>2, <2>2, <2>3, <2>4, OredAreFilled, Zenon
<1>4. AreOredBytes(Bytes16(Int16(b)), b)
  <2> SUFFICES ASSUME NEW bytes, bytes = Bytes16(Int16(b)) PROVE AreOredBytes(bytes, b)
    OBVIOUS
  <2>1. bytes = <<Filled(b, 1), Filled(b, 2)>>
    BY <1>1, BytesRead16, Zenon
  <2>2. DOMAIN bytes = 1..2 /\ bytes[1] = Filled(b, 1) /\ bytes[2] = Filled(b, 2)
    BY <2>1
  <2>3. ASSUME NEW i \in 1..2 PROVE bytes[i] = Filled(b, i) /\ b[i] \in Byte
    <3>1. i = 1 \/ i = 2
      BY SMT
    <3> QED BY <1>1, <2>2, <3>1, Zenon
  <2>4. 2 \in Nat
    OBVIOUS
  <2> QED BY <2>2, <2>3, <2>4, OredAreFilled, Zenon
<1> QED BY <1>3, <1>4

\* The closed forms of the two reads are the shifts and ors of the code, whatever
\* bytes have been written, one by one or as ints.
THEOREM ClosedFormsAreBits == CodecSpec => []ReadsLikeTheBits
<1> DEFINE Inv == \E x1, x2, x3, x4 \in Byte : word = <<x1, x2, x3, x4>>
<1>1. ASSUME NEW v \in Int
      PROVE  \E x1, x2, x3, x4 \in Byte : Bytes32(v) = <<x1, x2, x3, x4>>
  <2> DEFINE y1 == v % 256
             y2 == (v \div 256) % 256
             y3 == (v \div 65536) % 256
             y4 == (v \div 16777216) % 256
  <2>1. y1 \in Byte /\ y2 \in Byte /\ y3 \in Byte /\ y4 \in Byte
    BY SMT DEF Byte
  <2>2. Bytes32(v) = <<y1, y2, y3, y4>>
    BY SMT DEF Bytes32
  <2> HIDE DEF y1, y2, y3, y4
  <2> QED BY <2>1, <2>2, Zenon
<1>2. CodecInit => Inv
  <2>1. 0 \in Int
    OBVIOUS
  <2>2. \E x1, x2, x3, x4 \in Byte : Bytes32(0) = <<x1, x2, x3, x4>>
    BY <1>1, <2>1
  <2> QED BY <2>2, SMT DEF CodecInit
<1>3. Inv /\ [CodecNext]_codecVars => Inv'
  <2> SUFFICES ASSUME Inv, [CodecNext]_codecVars PROVE Inv'
    OBVIOUS
  <2>1. ASSUME NEW v \in Values, WriteValue(v)
        PROVE  Inv'
    <3>1. v \in Int
      BY SMTT(30), CheckAssumption
    <3>2. \E x1, x2, x3, x4 \in Byte : Bytes32(v) = <<x1, x2, x3, x4>>
      BY <1>1, <3>1, Zenon
    <3>3. word' = Bytes32(v)
      BY <2>1, Zenon DEF WriteValue
    <3> QED BY <3>2, <3>3, Zenon
  <2>2. ASSUME NEW i \in 1..4, NEW c \in Bytes, WriteByte(i, c)
        PROVE  Inv'
    <3>1. c \in Byte
      BY SMTT(30), CheckAssumption
    <3>2. PICK x1, x2, x3, x4 \in Byte : word = <<x1, x2, x3, x4>>
      BY Zenon
    <3>3. i = 1 \/ i = 2 \/ i = 3 \/ i = 4
      BY SMT
    <3>4. \/ word' = <<c, x2, x3, x4>> \/ word' = <<x1, c, x3, x4>>
          \/ word' = <<x1, x2, c, x4>> \/ word' = <<x1, x2, x3, c>>
      BY <2>2, <3>2, <3>3, SMT DEF WriteByte
    <3> QED BY <3>1, <3>2, <3>4, Zenon
  <2>3. CASE UNCHANGED codecVars
    BY <2>3, Zenon DEF codecVars
  <2> QED BY <2>1, <2>2, <2>3, Zenon DEF CodecNext
<1>4. Inv => ReadsLikeTheBits
  <2> SUFFICES ASSUME Inv PROVE ReadsLikeTheBits
    OBVIOUS
  <2>0. PICK x1, x2, x3, x4 \in Byte : word = <<x1, x2, x3, x4>>
    BY Zenon
  <2>1. Is32(Int32(word))
    BY <2>0, BytesRead32, Zenon
  <2>2. Is16(Int16(word))
    <3>1. word[1] = x1 /\ word[2] = x2
      BY <2>0
    <3> QED BY <3>1, <2>0, BytesRead16, Zenon
  <2>3. AreOredBytes(Bytes32(Int32(word)), word) /\ AreOredBytes(Bytes16(Int16(word)), word)
    BY <2>0, ReadsOr, Zenon
  <2> QED BY <2>1, <2>2, <2>3, SMT DEF ReadsLikeTheBits, Is32, Is16
<1> QED BY <1>2, <1>3, <1>4, PTL DEF CodecSpec

-----------------------------------------------------------------------------
\* SHA256.

\* The places in m_block.
Places == 1..128

\* HashTypeOK and NothingLost, without what follows from the rest; final only adds to what
\* update has transformed.
PadInv ==
  /\ given \in Nat /\ calls \in Nat /\ finished \in BOOLEAN
  /\ m_block \in [Places -> Int]
  /\ m_len \in Nat /\ m_len <= 63 /\ m_tot_len \in Nat
  /\ absorbed \in Seq(Int) /\ m_tot_len <= Len(absorbed)
  /\ given = m_tot_len + m_len
  /\ \A i \in 1..m_tot_len : absorbed[i] = Nth(i)
  /\ \A i \in 1..m_len : m_block[i] = Nth(m_tot_len + i)
  /\ ~finished => Len(absorbed) = m_tot_len

\* Copying leaves the bytes in front of the place alone.
LEMMA CopiedType ==
  ASSUME NEW block \in [Places -> Int], NEW place \in Nat, NEW k \in Nat, NEW n \in Nat
  PROVE  /\ Copied(block, place, k, n) \in [Places -> Int]
         /\ \A i \in Places :
              /\ i <= place => Copied(block, place, k, n)[i] = block[i]
              /\ place < i /\ i <= place + n => Copied(block, place, k, n)[i] = Nth(k + i - place)
<1>1. Copied(block, place, k, n) =
        [i \in Places |-> IF place < i /\ i <= place + n THEN Nth(k + i - place) ELSE block[i]]
  BY SMT DEF Copied, BLOCK_SIZE, Places
<1>2. \A i \in Places : block[i] \in Int /\ Nth(k + i - place) \in Int
  BY SMT DEF Nth, Places
<1>3. Copied(block, place, k, n) \in [Places -> Int]
  BY <1>1, <1>2, ZenonT(40)
<1>4. ASSUME NEW i \in Places
      PROVE  Copied(block, place, k, n)[i] =
               IF place < i /\ i <= place + n THEN Nth(k + i - place) ELSE block[i]
  BY <1>1
<1>5. \A i \in Places : i \in Int /\ (i <= place => ~(place < i))
  BY SMT DEF Places
<1> QED BY <1>3, <1>4, <1>5, Zenon

LEMMA CopiedToStart ==
  ASSUME NEW block \in [Places -> Int], NEW k \in Nat, NEW n \in Nat
  PROVE  /\ Copied(block, 0, k, n) \in [Places -> Int]
         /\ \A i \in Places :
              0 < i /\ i <= n => Copied(block, 0, k, n)[i] = Nth(k + i)
<1>1. /\ Copied(block, 0, k, n) \in [Places -> Int]
      /\ \A i \in Places :
           0 < i /\ i <= 0 + n => Copied(block, 0, k, n)[i] = Nth(k + i - 0)
  <2>1. 0 \in Nat OBVIOUS
  <2> QED BY <2>1, CopiedType
<1>2. \A i \in Places : 0 + n = n /\ k + i - 0 = k + i
  BY SMT DEF Places
<1> QED BY <1>1, <1>2

\* The bytes of the message that follow those in a sequence may be put behind it.
LEMMA Extended ==
  ASSUME NEW s \in Seq(Int), NEW t \in Seq(Int), NEW m \in Nat, NEW n \in Nat,
         Len(s) = m, Len(t) = n,
         \A i \in 1..m : s[i] = Nth(i), \A i \in 1..n : t[i] = Nth(m + i)
  PROVE  s \o t \in Seq(Int) /\ Len(s \o t) = m + n /\ \A i \in 1 .. m + n : (s \o t)[i] = Nth(i)
<1>1. /\ s \o t \in Seq(Int) /\ Len(s \o t) = m + n
      /\ \A i \in 1 .. m + n : (s \o t)[i] = IF i <= m THEN s[i] ELSE t[i - m]
  BY ConcatProperties
<1>2. ASSUME NEW i \in 1 .. m + n PROVE (s \o t)[i] = Nth(i)
  <2>1. CASE i <= m
    <3>1. i \in 1..m BY <2>1, SMT DEF Places
    <3> QED BY <1>1, <2>1, <3>1
  <2>2. CASE ~(i <= m)
    <3>1. i - m \in 1..n /\ m + (i - m) = i BY <2>2, SMT DEF Places
    <3> QED BY <1>1, <2>2, <3>1
  <2> QED BY <2>1, <2>2
<1> QED BY <1>1, <1>2

\* The whole blocks in some bytes, and the rest.
LEMMA DivMod ==
  ASSUME NEW n \in Nat
  PROVE  /\ n \div 64 \in Nat /\ (n % 64) \in Nat /\ (n % 64) <= 63
         /\ n = (n \div 64) * 64 + (n % 64)
  BY SMT DEF Places

LEMMA InitPad == HashInit => PadInv
<1> SUFFICES ASSUME HashInit PROVE PadInv
  OBVIOUS
<1>1. m_block = [i \in Places |-> -1] /\ absorbed = <<>>
  <2>1. 1 .. 2 * BLOCK_SIZE = Places BY SMT DEF BLOCK_SIZE, Places
  <2> QED BY <2>1 DEF HashInit, Garbage
<1>2. m_block \in [Places -> Int]
  BY <1>1, SMT DEF Places
<1>3. absorbed \in Seq(Int) /\ Len(absorbed) = 0
  BY <1>1
<1>4. \A i \in 1..0 : FALSE
  BY SMT DEF Places
<1>5. 0 + 0 = 0 /\ 0 \in Nat /\ 0 <= 63
  BY SMT DEF Places
<1>6. /\ given = 0 /\ calls = 0 /\ m_len = 0 /\ m_tot_len = 0 /\ finished = FALSE
  BY DEF HashInit
<1>7. given = m_tot_len + m_len /\ m_tot_len <= Len(absorbed) /\ Len(absorbed) = m_tot_len
  BY <1>3, <1>6, SMT DEF Places
<1> QED BY <1>2, <1>3, <1>4, <1>5, <1>6, <1>7 DEF PadInv

\* What the padding needs, for any number of bytes that may wait.
LEMMA BlocksFit ==
  ASSUME NEW n \in Int, 0 <= n, n <= 63
  PROVE  /\ Blocks(n) * BLOCK_SIZE \in {64, 128}
         /\ n + 9 <= Blocks(n) * BLOCK_SIZE /\ Blocks(n) <= 2
  BY SMT DEF Blocks, BLOCK_SIZE, Places

LEMMA ShortKeeps ==
  ASSUME PadInv, NEW len \in Lengths, UpdateShort(len)
  PROVE  PadInv'
<1>a. /\ given \in Nat /\ calls \in Nat /\ finished \in BOOLEAN
      /\ m_len \in Nat /\ m_len <= 63 /\ m_tot_len \in Nat /\ given = m_tot_len + m_len
  BY DEF PadInv
<1>b. m_block \in [Places -> Int] /\ \A i \in 1..m_len : m_block[i] = Nth(m_tot_len + i)
  BY DEF PadInv
<1>c. /\ absorbed \in Seq(Int) /\ m_tot_len <= Len(absorbed)
      /\ \A i \in 1..m_tot_len : absorbed[i] = Nth(i)
      /\ ~finished => Len(absorbed) = m_tot_len
  BY DEF PadInv
<1>1. /\ len \in Nat /\ m_len + len < 64
      /\ m_block' = Copied(m_block, m_len, given, len)
      /\ m_len' = m_len + len /\ given' = given + len /\ calls' = calls + 1
      /\ UNCHANGED <<m_tot_len, absorbed, finished>>
  BY UpdateAssumption DEF UpdateShort, StaysShort, BLOCK_SIZE
<1>2. /\ m_block' \in [Places -> Int]
      /\ \A i \in Places :
           /\ i <= m_len => m_block'[i] = m_block[i]
           /\ m_len < i /\ i <= m_len + len => m_block'[i] = Nth(given + i - m_len)
  <2> DEFINE copied == Copied(m_block, m_len, given, len)
  <2>1. /\ copied \in [Places -> Int]
        /\ \A i \in Places :
             /\ i <= m_len => copied[i] = m_block[i]
             /\ m_len < i /\ i <= m_len + len => copied[i] = Nth(given + i - m_len)
    <3>1. len \in Nat BY <1>1
    <3> QED BY <1>a, <1>b, <3>1, CopiedType
  <2>2. m_block' = copied BY <1>1
  <2> HIDE DEF copied
  <2> QED BY <2>1, <2>2
<1>3. ASSUME NEW i \in 1..m_len' PROVE m_block'[i] = Nth(m_tot_len' + i)
  <2>1. /\ i \in Places /\ i <= m_len + len /\ m_tot_len' = m_tot_len
        /\ given + i - m_len = m_tot_len + i
    BY <1>a, <1>1, SMT DEF Places
  <2>2. CASE i <= m_len
    <3>1. i \in 1..m_len BY <1>a, <2>1, <2>2, SMT DEF Places
    <3> QED BY <1>b, <1>2, <2>1, <2>2, <3>1
  <2>3. CASE m_len < i
    BY <1>2, <2>1, <2>3
  <2> QED BY <1>a, <2>1, <2>2, <2>3, SMT DEF Places
<1>4. m_len' \in Nat /\ m_len' <= 63 /\ given' \in Nat /\ calls' \in Nat /\ given' = m_tot_len' + m_len'
  BY <1>a, <1>1, SMT DEF Places
<1> QED BY <1>a, <1>c, <1>1, <1>2, <1>3, <1>4 DEF PadInv

LEMMA BlocksKeep ==
  ASSUME PadInv, NEW len \in Lengths, UpdateBlocks(len)
  PROVE  PadInv'
<1>a. /\ given \in Nat /\ calls \in Nat /\ finished \in BOOLEAN
      /\ m_len \in Nat /\ m_len <= 63 /\ m_tot_len \in Nat /\ given = m_tot_len + m_len
  BY DEF PadInv
<1>b. m_block \in [Places -> Int] /\ \A i \in 1..m_len : m_block[i] = Nth(m_tot_len + i)
  BY DEF PadInv
<1>c. /\ absorbed \in Seq(Int) /\ m_tot_len <= Len(absorbed)
      /\ \A i \in 1..m_tot_len : absorbed[i] = Nth(i)
      /\ ~finished => Len(absorbed) = m_tot_len
  BY DEF PadInv
<1> DEFINE rem_len == BLOCK_SIZE - m_len
           block_nb == Left(len) \div BLOCK_SIZE
           full == Copied(m_block, m_len, given, rem_len)
           k == given + rem_len + block_nb * BLOCK_SIZE
           one == First(full, BLOCK_SIZE)
           direct == Direct(given + rem_len, block_nb * BLOCK_SIZE)
           two == absorbed \o one
<1>1. /\ len \in Nat /\ m_len + len >= 64 /\ ~finished
      /\ m_len' = Left(len) % BLOCK_SIZE
      /\ m_block' = Copied(full, 0, k, m_len')
      /\ m_tot_len' = m_tot_len + (block_nb + 1) * BLOCK_SIZE
      /\ absorbed' = two \o direct
      /\ given' = given + len /\ calls' = calls + 1 /\ UNCHANGED finished
  <2>1. len \in Nat BY UpdateAssumption
  <2>2. m_len + len >= 64 BY <1>a, <2>1, SMT DEF UpdateBlocks, StaysShort, BLOCK_SIZE, Places
  <2> QED BY <2>1, <2>2 DEF UpdateBlocks
<1>2. BLOCK_SIZE = 64 BY DEF BLOCK_SIZE
<1>3. /\ rem_len \in Nat /\ rem_len = 64 - m_len /\ Left(len) \in Nat /\ Left(len) = len - rem_len
      /\ given + rem_len \in Nat /\ given + rem_len = m_tot_len + 64
  BY <1>a, <1>1, <1>2, SMT DEF Left, Places
<1>4. /\ block_nb \in Nat /\ m_len' \in Nat /\ m_len' <= 63
      /\ Left(len) = block_nb * 64 + m_len'
  BY <1>1, <1>2, <1>3, DivMod
<1> HIDE DEF rem_len, block_nb, full, one, direct, two, k
<1>5. /\ k \in Nat /\ k = m_tot_len' /\ given' = m_tot_len' + m_len' /\ given' \in Nat
      /\ m_tot_len' = m_tot_len + BLOCK_SIZE + block_nb * BLOCK_SIZE
      /\ block_nb * BLOCK_SIZE \in Nat /\ given + rem_len = m_tot_len + BLOCK_SIZE
  BY <1>a, <1>1, <1>2, <1>3, <1>4, SMT DEF k, Places
<1>6. /\ full \in [Places -> Int]
      /\ \A i \in 1..64 : full[i] = Nth(m_tot_len + i)
  <2>1. /\ full \in [Places -> Int]
        /\ \A i \in Places :
             /\ i <= m_len => full[i] = m_block[i]
             /\ m_len < i /\ i <= m_len + rem_len => full[i] = Nth(given + i - m_len)
    <3>1. /\ Copied(m_block, m_len, given, rem_len) \in [Places -> Int]
          /\ \A i \in Places :
               /\ i <= m_len => Copied(m_block, m_len, given, rem_len)[i] = m_block[i]
               /\ m_len < i /\ i <= m_len + rem_len =>
                    Copied(m_block, m_len, given, rem_len)[i] = Nth(given + i - m_len)
      <4>1. rem_len \in Nat BY <1>3
      <4> QED BY <1>a, <1>b, <4>1, CopiedType
    <3> QED BY <3>1 DEF full
  <2>2. ASSUME NEW i \in 1..64 PROVE full[i] = Nth(m_tot_len + i)
    <3>1. i \in Places /\ i <= m_len + rem_len /\ given + i - m_len = m_tot_len + i
      BY <1>a, <1>3, SMT DEF Places
    <3>2. CASE i <= m_len
      <4>1. i \in 1..m_len BY <1>a, <3>2, SMT DEF Places
      <4> QED BY <1>b, <2>1, <3>1, <3>2, <4>1
    <3>3. CASE m_len < i BY <2>1, <3>1, <3>3
    <3> QED BY <1>a, <3>2, <3>3, SMT DEF Places
  <2> QED BY <2>1, <2>2
<1>7. /\ m_block' \in [Places -> Int]
      /\ \A i \in 1..m_len' : m_block'[i] = Nth(m_tot_len' + i)
  <2>1. /\ m_block' \in [Places -> Int]
        /\ \A i \in Places : 0 < i /\ i <= m_len' => m_block'[i] = Nth(k + i)
    <3>1. 0 \in Nat /\ k \in Nat /\ m_len' \in Nat /\ full \in [Places -> Int] BY <1>4, <1>5, <1>6
    <3>2. /\ Copied(full, 0, k, m_len') \in [Places -> Int]
          /\ \A i \in Places :
               0 < i /\ i <= m_len' => Copied(full, 0, k, m_len')[i] = Nth(k + i)
      BY <3>1, CopiedToStart
    <3>3. m_block' = Copied(full, 0, k, m_len') BY <1>1
    <3> QED BY <3>2, <3>3
  <2>2. ASSUME NEW i \in 1..m_len' PROVE m_block'[i] = Nth(m_tot_len' + i)
    <3>1. i \in Places /\ 0 < i /\ i <= m_len' /\ k + i = m_tot_len' + i
      <4>1. m_len' \in Nat /\ m_len' <= 63 /\ k \in Nat /\ k = m_tot_len' BY <1>4, <1>5
      <4>2. i \in Int /\ 0 < i /\ i <= m_len' BY <4>1, SMT
      <4>3. i \in Places BY <4>1, <4>2, SMT DEF Places
      <4> QED BY <4>1, <4>2, <4>3
    <3> QED BY <2>1, <3>1
  <2> QED BY <2>1, <2>2
<1>8. one \in Seq(Int) /\ Len(one) = BLOCK_SIZE /\ \A i \in 1..BLOCK_SIZE : one[i] = Nth(m_tot_len + i)
  <2>1. one = [i \in 1..BLOCK_SIZE |-> full[i]] BY DEF one, First
  <2>2. \A i \in 1..BLOCK_SIZE : full[i] \in Int BY <1>2, <1>6, SMT DEF Places
  <2>3. \A i \in 1..BLOCK_SIZE : full[i] = Nth(m_tot_len + i) BY <1>2, <1>6
  <2>4. BLOCK_SIZE \in Nat BY <1>2
  <2> QED BY <2>1, <2>2, <2>3, <2>4, SMT DEF Places
<1>9. /\ direct \in Seq(Int) /\ Len(direct) = block_nb * BLOCK_SIZE
      /\ \A i \in 1 .. block_nb * BLOCK_SIZE : direct[i] = Nth(m_tot_len + BLOCK_SIZE + i)
  <2> DEFINE n == block_nb * BLOCK_SIZE
  <2>1. direct = [i \in 1..n |-> Nth(m_tot_len + BLOCK_SIZE + i)] BY <1>5 DEF direct, Direct
  <2>2. n \in Nat /\ m_tot_len \in Nat /\ BLOCK_SIZE \in Nat BY <1>a, <1>2, <1>5
  <2> HIDE DEF n
  <2>3. \A i \in 1..n : Nth(m_tot_len + BLOCK_SIZE + i) \in Int BY <2>2, SMT DEF Nth, Places
  <2>4. direct \in Seq(Int) /\ Len(direct) = n BY <2>1, <2>2, <2>3, SMT DEF Places
  <2> QED BY <2>1, <2>4 DEF n
<1>10. /\ two \in Seq(Int) /\ Len(two) = m_tot_len + BLOCK_SIZE
       /\ \A i \in 1 .. m_tot_len + BLOCK_SIZE : two[i] = Nth(i)
  <2>1. /\ absorbed \in Seq(Int) /\ Len(absorbed) = m_tot_len /\ m_tot_len \in Nat
        /\ \A i \in 1..m_tot_len : absorbed[i] = Nth(i)
    BY <1>a, <1>c, <1>1
  <2>2. BLOCK_SIZE \in Nat BY <1>2
  <2>3. /\ absorbed \o one \in Seq(Int)
        /\ Len(absorbed \o one) = m_tot_len + BLOCK_SIZE
        /\ \A i \in 1 .. m_tot_len + BLOCK_SIZE : (absorbed \o one)[i] = Nth(i)
    <3>1. one \in Seq(Int) /\ Len(one) = BLOCK_SIZE
      BY <1>8
    <3>2. \A i \in 1..BLOCK_SIZE : one[i] = Nth(m_tot_len + i)
      BY <1>8
    <3> QED BY <2>1, <2>2, <3>1, <3>2, Extended, ZenonT(60)
  <2> QED BY <2>3 DEF two
<1>11. /\ absorbed' \in Seq(Int) /\ Len(absorbed') = m_tot_len'
       /\ \A i \in 1..m_tot_len' : absorbed'[i] = Nth(i)
  <2>1. m_tot_len + BLOCK_SIZE \in Nat BY <1>a, <1>2, SMT
  <2>2. block_nb * BLOCK_SIZE \in Nat /\ m_tot_len' = (m_tot_len + BLOCK_SIZE) + block_nb * BLOCK_SIZE BY <1>5
  <2>3. absorbed' = two \o direct BY <1>1
  <2>4. \A i \in 1 .. block_nb * BLOCK_SIZE : direct[i] = Nth((m_tot_len + BLOCK_SIZE) + i) BY <1>9
  <2>5. /\ two \o direct \in Seq(Int)
        /\ Len(two \o direct) = (m_tot_len + BLOCK_SIZE) + block_nb * BLOCK_SIZE
        /\ \A i \in 1 .. (m_tot_len + BLOCK_SIZE) + block_nb * BLOCK_SIZE : (two \o direct)[i] = Nth(i)
    BY <1>9, <1>10, <2>1, <2>2, <2>4, Extended, ZenonT(40)
  <2> QED BY <2>2, <2>3, <2>5
<1>12. calls' \in Nat /\ finished' \in BOOLEAN /\ m_tot_len' \in Nat /\ m_tot_len' <= Len(absorbed')
  BY <1>a, <1>1, <1>5, <1>11, SMT DEF Places
<1> QED BY <1>4, <1>5, <1>7, <1>11, <1>12 DEF PadInv

LEMMA FinalKeeps ==
  ASSUME PadInv, Final
  PROVE  PadInv'
<1>a. /\ given \in Nat /\ calls \in Nat /\ finished \in BOOLEAN
      /\ m_len \in Nat /\ m_len <= 63 /\ m_tot_len \in Nat /\ given = m_tot_len + m_len
  BY DEF PadInv
<1>b. m_block \in [Places -> Int] /\ \A i \in 1..m_len : m_block[i] = Nth(m_tot_len + i)
  BY DEF PadInv
<1>c. /\ absorbed \in Seq(Int) /\ m_tot_len <= Len(absorbed)
      /\ \A i \in 1..m_tot_len : absorbed[i] = Nth(i)
      /\ ~finished => Len(absorbed) = m_tot_len
  BY DEF PadInv
<1> DEFINE pm_len == Blocks(m_len) * BLOCK_SIZE
           len_b == Bytes32((m_tot_len + m_len) * 8)
<1>1. /\ finished' = TRUE /\ UNCHANGED <<given, calls, m_len, m_tot_len>>
      /\ m_block' = [i \in 1 .. 2 * BLOCK_SIZE |->
                     IF i <= m_len \/ i > pm_len THEN m_block[i]
                     ELSE IF i > pm_len - 4 THEN len_b[pm_len - i + 1]
                     ELSE IF i = m_len + 1 THEN 128
                     ELSE 0]
      /\ absorbed' = absorbed \o First(m_block', pm_len)
  BY DEF Final
<1>2. 1 .. 2 * BLOCK_SIZE = Places BY SMT DEF BLOCK_SIZE, Places
<1>3. pm_len \in {64, 128} BY <1>a, BlocksFit
<1>4. \A i \in 1..4 : len_b[i] \in Int
  BY <1>a, SMT DEF Bytes32, Places
<1> HIDE DEF pm_len, len_b
<1>5. /\ m_block' \in [Places -> Int]
      /\ \A i \in 1..m_len : m_block'[i] = m_block[i]
  <2>1. ASSUME NEW i \in Places, ~(i <= m_len \/ i > pm_len), i > pm_len - 4
        PROVE  len_b[pm_len - i + 1] \in Int
    <3>1. pm_len - i + 1 \in 1..4 BY <1>3, <2>1, SMT DEF Places
    <3> QED BY <1>4, <3>1
  <2>2. \A i \in Places : m_block[i] \in Int BY <1>b
  <2>3. m_block' \in [Places -> Int]
    <3> DEFINE byte(i) == IF i <= m_len \/ i > pm_len THEN m_block[i]
                          ELSE IF i > pm_len - 4 THEN len_b[pm_len - i + 1]
                          ELSE IF i = m_len + 1 THEN 128 ELSE 0
    <3>1. m_block' = [i \in Places |-> byte(i)] BY <1>1, <1>2
    <3>2. \A i \in Places : byte(i) \in Int BY <2>1, <2>2
    <3> HIDE DEF byte
    <3> QED BY <3>1, <3>2, SMT
  <2>4. ASSUME NEW i \in 1..m_len PROVE m_block'[i] = m_block[i]
    <3>1. i \in Places /\ i <= m_len BY <1>a, SMT DEF Places
    <3> QED BY <1>1, <1>2, <3>1
  <2> QED BY <2>3, <2>4
<1>6. /\ absorbed' \in Seq(Int) /\ m_tot_len <= Len(absorbed')
      /\ \A i \in 1..m_tot_len : absorbed'[i] = absorbed[i]
  <2> DEFINE last == First(m_block', pm_len)
  <2>1. \A i \in 1..pm_len : m_block'[i] \in Int BY <1>3, <1>5, SMT DEF Places
  <2>2. last \in Seq(Int) BY <1>3, <2>1, SMT DEF First, Places
  <2>3. absorbed' = absorbed \o last BY <1>1
  <2> HIDE DEF last
  <2> QED BY <1>a, <1>c, <2>2, <2>3, SMT DEF Places
<1> QED BY <1>a, <1>b, <1>c, <1>1, <1>5, <1>6 DEF PadInv

LEMMA StutterKeeps == PadInv /\ UNCHANGED hashVars => PadInv'
  BY DEF PadInv, hashVars

LEMMA InvImplies == PadInv => HashTypeOK /\ NothingLost
<1> SUFFICES ASSUME PadInv PROVE HashTypeOK /\ NothingLost
  OBVIOUS
<1> USE DEF PadInv
<1>1. 1 .. 2 * BLOCK_SIZE = Places /\ BLOCK_SIZE - 1 = 63 BY SMT DEF BLOCK_SIZE, Places
<1>2. m_len \in 0 .. BLOCK_SIZE - 1 /\ m_len \in Int /\ 0 <= m_len BY <1>1, SMT DEF Places
<1>3. m_len + 9 <= Blocks(m_len) * BLOCK_SIZE /\ Blocks(m_len) <= 2 BY <1>2, BlocksFit
<1> QED BY <1>1, <1>2, <1>3 DEF HashTypeOK, NothingLost

LEMMA InvHolds == HashSpec => []PadInv
<1>1. PadInv /\ [HashNext]_hashVars => PadInv'
  BY ShortKeeps, BlocksKeep, FinalKeeps, StutterKeeps DEF HashNext
<1> QED BY InitPad, <1>1, PTL DEF HashSpec

\* HashTypeOK: fewer bytes wait than make a block, and the block that final pads holds them
\* with the mark and the length, however update was called.
THEOREM HashTypeCorrect == HashSpec => []HashTypeOK
  BY InvHolds, InvImplies, PTL

\* NothingLost: every byte given to update is transformed or waits, once and in its
\* place, for every sequence of calls.
THEOREM EveryByteAbsorbed == HashSpec => []NothingLost
  BY InvHolds, InvImplies, PTL

-----------------------------------------------------------------------------
\* The padding.

\* Messages are so short that their length in bits is an unsigned int.
FitsInt(n) == n < 536870912

ShortHashes == \E n \in Nat : FitsInt(MaxCalls * n) /\ \A len \in Lengths : len <= n

\* Only whole blocks were transformed.
WholeBlocks == \E q \in Nat : m_tot_len = 64 * q

\* update was not called too often, never with more than n bytes.
GivenUpTo(n) == calls <= MaxCalls /\ given <= calls * n

\* The whole blocks of a number of bytes, as multiples of 64.
LEMMA BlocksOf ==
  /\ \A d \in Nat : (64 * d) % 64 = 0
  /\ \A n \in Nat : (n % 64) = 0 => \E d \in Nat : n = 64 * d
<1>1. \A d \in Nat : (64 * d) % 64 = 0
  BY SMT DEF Places
<1>2. ASSUME NEW n \in Nat, (n % 64) = 0 PROVE \E d \in Nat : n = 64 * d
  <2>1. n \div 64 \in Nat /\ n = 64 * (n \div 64)
    BY <1>2, DivMod, SMT DEF Places
  <2> QED BY <2>1
<1> QED BY <1>1, <1>2

\* The zeros of the standard fill the block that final pads.
LEMMA ZerosFill ==
  ASSUME NEW q \in Nat, NEW n \in Nat, n <= 63, NEW g \in Nat, g = 64 * q + n
  PROVE  /\ Zeros(g) \in Nat /\ Zeros(g) + n + 9 = Blocks(n) * BLOCK_SIZE
<1> DEFINE Fills(k) == (g + 1 + k + 8) % 64 = 0
<1>1. Zeros(g) = CHOOSE k \in 0..63 : Fills(k)
  <2>1. BLOCK_SIZE = 64 /\ BLOCK_SIZE - 1 = 63
    BY SMT DEF BLOCK_SIZE
  <2> QED BY <2>1 DEF Zeros
<1>2. PICK pm_len \in {64, 128} :
        Blocks(n) * BLOCK_SIZE = pm_len /\ (pm_len = 64 <=> n <= 55)
  BY SMT DEF Blocks, BLOCK_SIZE
<1>3. PICK z \in 0..63 : z = pm_len - n - 9
  BY <1>2, SMT
<1>4. Fills(z)
  <2>1. \E d \in Nat : g + 1 + z + 8 = 64 * d
    <3>1. CASE pm_len = 64
      <4>1. g + 1 + z + 8 = 64 * (q + 1) /\ q + 1 \in Nat
        BY <1>3, <3>1, SMT
      <4> QED BY <4>1
    <3>2. CASE pm_len = 128
      <4>1. g + 1 + z + 8 = 64 * (q + 2) /\ q + 2 \in Nat
        BY <1>3, <3>2, SMT
      <4> QED BY <4>1
    <3> QED BY <3>1, <3>2
  <2> QED BY <2>1, BlocksOf
<1>5. ASSUME NEW k \in 0..63, Fills(k) PROVE k = z
  <2>1. g + 1 + k + 8 \in Nat
    BY SMT
  <2>2. PICK d \in Nat : g + 1 + k + 8 = 64 * d
    BY <1>5, <2>1, BlocksOf
  <2> HIDE DEF Fills
  <2>3. n + k + 9 = 64 * (d - q)
    BY <2>2, SMT
  <2>4. d - q = 1 \/ d - q = 2
    BY <2>3, SMT
  <2> QED BY <1>2, <1>3, <2>3, <2>4, SMT
<1> HIDE DEF Fills
<1>6. Zeros(g) = z
  BY <1>1, <1>4, <1>5
<1> QED BY <1>2, <1>3, <1>6, SMT

\* Four sequences one behind the other.
InParts(t, a, b, c, d) ==
  /\ t \in Seq(Int)
  /\ Len(t) = Len(a) + Len(b) + Len(c) + Len(d)
  /\ \A i \in 1 .. Len(a) + Len(b) + Len(c) + Len(d) :
       t[i] = IF i <= Len(a) THEN a[i]
              ELSE IF i <= Len(a) + Len(b) THEN b[i - Len(a)]
              ELSE IF i <= Len(a) + Len(b) + Len(c) THEN c[i - (Len(a) + Len(b))]
              ELSE d[i - (Len(a) + Len(b) + Len(c))]

LEMMA FourParts ==
  ASSUME NEW a \in Seq(Int), NEW b \in Seq(Int), NEW c \in Seq(Int), NEW d \in Seq(Int)
  PROVE  InParts(a \o b \o c \o d, a, b, c, d)
<1>0. Len(a) \in Nat /\ Len(b) \in Nat /\ Len(c) \in Nat /\ Len(d) \in Nat
  OBVIOUS
<1>1. /\ a \o b \in Seq(Int) /\ Len(a \o b) = Len(a) + Len(b)
      /\ \A i \in 1 .. Len(a) + Len(b) :
           (a \o b)[i] = IF i <= Len(a) THEN a[i] ELSE b[i - Len(a)]
  BY ConcatProperties
<1>2. PICK ab \in Seq(Int) : ab = a \o b
  BY <1>1
<1>3. /\ ab \o c \in Seq(Int) /\ Len(ab \o c) = Len(ab) + Len(c)
      /\ \A i \in 1 .. Len(ab) + Len(c) :
           (ab \o c)[i] = IF i <= Len(ab) THEN ab[i] ELSE c[i - Len(ab)]
  BY ConcatProperties
<1>4. PICK abc \in Seq(Int) : abc = ab \o c
  BY <1>3
<1>5. /\ abc \o d \in Seq(Int) /\ Len(abc \o d) = Len(abc) + Len(d)
      /\ \A i \in 1 .. Len(abc) + Len(d) :
           (abc \o d)[i] = IF i <= Len(abc) THEN abc[i] ELSE d[i - Len(abc)]
  BY ConcatProperties
<1>6. Len(ab) = Len(a) + Len(b) /\ Len(abc) = Len(a) + Len(b) + Len(c)
  BY <1>1, <1>2, <1>3, <1>4
<1>7. ASSUME NEW i \in 1 .. Len(a) + Len(b) + Len(c) + Len(d)
      PROVE  (abc \o d)[i] =
                IF i <= Len(a) THEN a[i]
                ELSE IF i <= Len(a) + Len(b) THEN b[i - Len(a)]
                ELSE IF i <= Len(a) + Len(b) + Len(c) THEN c[i - (Len(a) + Len(b))]
                ELSE d[i - (Len(a) + Len(b) + Len(c))]
  <2>1. (abc \o d)[i] = IF i <= Len(abc) THEN abc[i] ELSE d[i - Len(abc)]
    BY <1>0, <1>5, <1>6, SMT
  <2>2. i <= Len(abc) => abc[i] = IF i <= Len(ab) THEN ab[i] ELSE c[i - Len(ab)]
    BY <1>0, <1>3, <1>4, <1>6, SMT
  <2>3. i <= Len(ab) => ab[i] = IF i <= Len(a) THEN a[i] ELSE b[i - Len(a)]
    BY <1>0, <1>1, <1>2, <1>6, SMT
  <2> QED BY <1>0, <1>6, <2>1, <2>2, <2>3, SMTT(20)
<1>8. Len(abc \o d) = Len(a) + Len(b) + Len(c) + Len(d)
  BY <1>5, <1>6
<1>9. InParts(abc \o d, a, b, c, d)
  BY <1>5, <1>7, <1>8 DEF InParts
<1> QED BY <1>2, <1>4, <1>9

\* An element of the second of two sequences.
LEMMA SecondPart ==
  ASSUME NEW s \in Seq(Int), NEW t \in Seq(Int), NEW j \in 1..Len(t)
  PROVE  (s \o t)[Len(s) + j] = t[j]
BY SMT

\* The bytes of the length, the highest first.
LengthOf(g) ==
  << (g * 8) \div 16777216, ((g * 8) \div 65536) % 256,
     ((g * 8) \div 256) % 256, (g * 8) % 256 >>

LEMMA LengthBytes ==
  ASSUME NEW g \in Nat, FitsInt(g)
  PROVE  LengthOf(g)
         = << Bytes32(g * 8)[4], Bytes32(g * 8)[3], Bytes32(g * 8)[2], Bytes32(g * 8)[1] >>
<1>1. ((g * 8) \div 16777216) % 256 = (g * 8) \div 16777216
  BY SMT DEF FitsInt
<1> QED BY <1>1, SMT DEF Bytes32, LengthOf

\* PaddedAsDefined, with a name for the bytes of the length.
PaddedWith(length) ==
  absorbed = Direct(0, given) \o <<128>> \o [i \in 1 .. Zeros(given) + 4 |-> 0] \o length

LEMMA PaddedMeans ==
  /\ PaddedAsDefined <=> (finished => PaddedWith(LengthOf(given)))
  /\ PaddedAsDefined' <=> (finished' => PaddedWith(LengthOf(given))')
BY SMT DEF PaddedAsDefined, PaddedWith, LengthOf

LEMMA SamePadding ==
  ASSUME PaddedAsDefined, UNCHANGED <<absorbed, given, finished>>
  PROVE  PaddedAsDefined'
<1>1. PaddedWith(LengthOf(given)) => PaddedWith(LengthOf(given))'
  BY Zenon DEF PaddedWith
<1> QED BY <1>1, PaddedMeans

\* The bytes that final gives to transform, and those in front of them.
LEMMA FinalBytes ==
  ASSUME PadInv, Final
  PROVE  LET pm_len == Blocks(m_len) * BLOCK_SIZE
             len_b == Bytes32(given * 8)
         IN  /\ absorbed' \in Seq(Int) /\ Len(absorbed') = m_tot_len + pm_len
             /\ \A i \in 1..given : absorbed'[i] = Nth(i)
             /\ absorbed'[given + 1] = 128
             /\ \A i \in given + 2 .. m_tot_len + pm_len - 4 : absorbed'[i] = 0
             /\ \A k \in 1..4 : absorbed'[m_tot_len + pm_len - 4 + k] = len_b[5 - k]
<1> DEFINE pm_len == Blocks(m_len) * BLOCK_SIZE
           len_b == Bytes32(given * 8)
<1>a. /\ given \in Nat /\ m_len \in Nat /\ m_len <= 63 /\ m_tot_len \in Nat
      /\ given = m_tot_len + m_len
  BY DEF PadInv
<1>b. m_block \in [Places -> Int] /\ \A i \in 1..m_len : m_block[i] = Nth(m_tot_len + i)
  BY DEF PadInv
<1>c. /\ absorbed \in Seq(Int) /\ Len(absorbed) = m_tot_len
      /\ \A i \in 1..m_tot_len : absorbed[i] = Nth(i)
  BY DEF PadInv, Final
<1>1. /\ m_block' = [i \in 1 .. 2 * BLOCK_SIZE |->
                     IF i <= m_len \/ i > pm_len THEN m_block[i]
                     ELSE IF i > pm_len - 4 THEN len_b[pm_len - i + 1]
                     ELSE IF i = m_len + 1 THEN 128
                     ELSE 0]
      /\ absorbed' = absorbed \o First(m_block', pm_len)
  BY <1>a DEF Final
<1>2. 1 .. 2 * BLOCK_SIZE = Places
  BY SMT DEF BLOCK_SIZE, Places
<1>3. pm_len \in {64, 128} /\ m_len + 9 <= pm_len
  BY <1>a, BlocksFit
<1>4. m_block' \in [Places -> Int]
  BY FinalKeeps DEF PadInv
<1> SUFFICES /\ absorbed' \in Seq(Int) /\ Len(absorbed') = m_tot_len + pm_len
             /\ \A i \in 1..given : absorbed'[i] = Nth(i)
             /\ absorbed'[given + 1] = 128
             /\ \A i \in given + 2 .. m_tot_len + pm_len - 4 : absorbed'[i] = 0
             /\ \A k \in 1..4 : absorbed'[m_tot_len + pm_len - 4 + k] = len_b[5 - k]
  OBVIOUS
<1> HIDE DEF pm_len, len_b
<1>5. ASSUME NEW i \in 1..pm_len
      PROVE  m_block'[i] = IF i <= m_len THEN Nth(m_tot_len + i)
                           ELSE IF i > pm_len - 4 THEN len_b[pm_len - i + 1]
                           ELSE IF i = m_len + 1 THEN 128
                           ELSE 0
  <2>1. i \in Places /\ ~(i > pm_len)
    BY <1>3, SMT DEF Places
  <2>2. i <= m_len => i \in 1..m_len
    BY <1>a, SMT
  <2> QED BY <1>1, <1>2, <1>b, <2>1, <2>2
<1>6. PICK last \in Seq(Int) : /\ last = First(m_block', pm_len) /\ Len(last) = pm_len
                               /\ \A i \in 1..pm_len : last[i] = m_block'[i]
  <2>1. \A i \in 1..pm_len : m_block'[i] \in Int
    BY <1>3, <1>4, SMT DEF Places
  <2>2. /\ First(m_block', pm_len) \in Seq(Int) /\ Len(First(m_block', pm_len)) = pm_len
        /\ \A i \in 1..pm_len : First(m_block', pm_len)[i] = m_block'[i]
    BY <1>3, <2>1, SMT DEF First
  <2> QED BY <2>2
<1>7. /\ absorbed' \in Seq(Int) /\ Len(absorbed') = m_tot_len + pm_len
      /\ \A i \in 1 .. m_tot_len + pm_len :
           absorbed'[i] = IF i <= m_tot_len THEN absorbed[i] ELSE last[i - m_tot_len]
  <2>1. /\ absorbed \o last \in Seq(Int) /\ Len(absorbed \o last) = Len(absorbed) + Len(last)
        /\ \A i \in 1 .. Len(absorbed) + Len(last) :
             (absorbed \o last)[i] =
               IF i <= Len(absorbed) THEN absorbed[i] ELSE last[i - Len(absorbed)]
    BY <1>c, ConcatProperties
  <2>2. absorbed' = absorbed \o last
    BY <1>1, <1>6
  <2> QED BY <1>6, <1>c, <2>1, <2>2
<1>8. ASSUME NEW j \in 1..pm_len PROVE absorbed'[m_tot_len + j] = m_block'[j]
  <2>1. absorbed' = absorbed \o last
    BY <1>1, <1>6
  <2>2. (absorbed \o last)[Len(absorbed) + j] = last[j]
    BY <1>c, <1>6, SecondPart
  <2> QED BY <1>6, <1>c, <2>1, <2>2
<1>9. ASSUME NEW i \in 1..given PROVE absorbed'[i] = Nth(i)
  <2>1. CASE i <= m_tot_len
    <3>1. i \in 1..m_tot_len /\ i \in 1 .. m_tot_len + pm_len
      BY <1>a, <1>3, <2>1, SMT
    <3> QED BY <1>c, <1>7, <2>1, <3>1
  <2>2. CASE ~(i <= m_tot_len)
    <3>1. PICK j \in 1..pm_len : i = m_tot_len + j /\ j <= m_len
      <4>1. i - m_tot_len \in 1..pm_len /\ i = m_tot_len + (i - m_tot_len)
            /\ i - m_tot_len <= m_len
        BY <1>a, <1>3, <2>2, SMT
      <4> QED BY <4>1
    <3> QED BY <1>5, <1>8, <3>1
  <2> QED BY <2>1, <2>2
<1>10. absorbed'[given + 1] = 128
  <2>1. /\ m_len + 1 \in 1..pm_len /\ given + 1 = m_tot_len + (m_len + 1)
        /\ ~(m_len + 1 <= m_len) /\ ~(m_len + 1 > pm_len - 4)
    BY <1>a, <1>3, SMT
  <2> QED BY <1>5, <1>8, <2>1
<1>11. ASSUME NEW i \in given + 2 .. m_tot_len + pm_len - 4 PROVE absorbed'[i] = 0
  <2>1. PICK j \in 1..pm_len : /\ i = m_tot_len + j /\ ~(j <= m_len)
                               /\ ~(j > pm_len - 4) /\ j # m_len + 1
    <3>1. /\ i - m_tot_len \in 1..pm_len /\ i = m_tot_len + (i - m_tot_len)
          /\ ~(i - m_tot_len <= m_len) /\ ~(i - m_tot_len > pm_len - 4)
          /\ i - m_tot_len # m_len + 1
      BY <1>a, <1>3, SMT
    <3> QED BY <3>1
  <2> QED BY <1>5, <1>8, <2>1
<1>12. ASSUME NEW k \in 1..4 PROVE absorbed'[m_tot_len + pm_len - 4 + k] = len_b[5 - k]
  <2>1. PICK j \in 1..pm_len : /\ m_tot_len + pm_len - 4 + k = m_tot_len + j
                               /\ ~(j <= m_len) /\ j > pm_len - 4
                               /\ pm_len - j + 1 = 5 - k
    <3>1. /\ pm_len - 4 + k \in 1..pm_len
          /\ m_tot_len + pm_len - 4 + k = m_tot_len + (pm_len - 4 + k)
          /\ ~(pm_len - 4 + k <= m_len) /\ pm_len - 4 + k > pm_len - 4
          /\ pm_len - (pm_len - 4 + k) + 1 = 5 - k
      BY <1>a, <1>3, SMT
    <3> QED BY <3>1
  <2> QED BY <1>5, <1>8, <2>1
<1> QED BY <1>7, <1>9, <1>10, <1>11, <1>12

\* What the standard asks for, part by part.
Standard(g, zeros, w1, w2, w3, w4) ==
  Direct(0, g) \o <<128>> \o [i \in 1 .. zeros + 4 |-> 0] \o <<w1, w2, w3, w4>>

Holds(s, g, zeros, w1, w2, w3, w4) ==
  /\ s \in Seq(Int) /\ Len(s) = g + zeros + 9
  /\ \A i \in 1..g : s[i] = Nth(i)
  /\ s[g + 1] = 128
  /\ \A i \in g + 2 .. g + zeros + 5 : s[i] = 0
  /\ s[g + zeros + 6] = w1 /\ s[g + zeros + 7] = w2
  /\ s[g + zeros + 8] = w3 /\ s[g + zeros + 9] = w4

LEMMA StandardBytes ==
  ASSUME NEW g \in Nat, NEW zeros \in Nat, NEW w1 \in Int, NEW w2 \in Int, NEW w3 \in Int,
         NEW w4 \in Int, NEW s, Holds(s, g, zeros, w1, w2, w3, w4)
  PROVE  s = Standard(g, zeros, w1, w2, w3, w4)
<1>0. /\ s \in Seq(Int) /\ Len(s) = g + zeros + 9
      /\ \A i \in 1..g : s[i] = Nth(i)
      /\ s[g + 1] = 128
      /\ \A i \in g + 2 .. g + zeros + 5 : s[i] = 0
      /\ s[g + zeros + 6] = w1 /\ s[g + zeros + 7] = w2
      /\ s[g + zeros + 8] = w3 /\ s[g + zeros + 9] = w4
  BY DEF Holds
<1>1. PICK a \in Seq(Int) : /\ a = Direct(0, g) /\ Len(a) = g
                            /\ \A i \in 1..g : a[i] = Nth(i)
  <2>1. /\ Direct(0, g) \in Seq(Int) /\ Len(Direct(0, g)) = g
        /\ \A i \in 1..g : Direct(0, g)[i] = Nth(i)
    BY SMT DEF Direct, Nth
  <2> QED BY <2>1
<1>2. PICK b \in Seq(Int) : b = <<128>> /\ Len(b) = 1 /\ b[1] = 128
  <2>1. <<128>> \in Seq(Int) /\ Len(<<128>>) = 1 /\ <<128>>[1] = 128
    BY SMT
  <2> QED BY <2>1, ZenonT(40)
<1>3. PICK c \in Seq(Int) : /\ c = [i \in 1 .. zeros + 4 |-> 0] /\ Len(c) = zeros + 4
                            /\ \A i \in 1 .. zeros + 4 : c[i] = 0
  <2> DEFINE z == [i \in 1 .. zeros + 4 |-> 0]
  <2>1. z \in Seq(Int) /\ Len(z) = zeros + 4 /\ \A i \in 1 .. zeros + 4 : z[i] = 0
    BY SMT
  <2> HIDE DEF z
  <2>2. \E c \in Seq(Int) : c = z /\ Len(c) = zeros + 4 /\ \A i \in 1 .. zeros + 4 : c[i] = 0
    BY <2>1
  <2> QED BY <2>2 DEF z
<1>4. PICK d \in Seq(Int) : /\ d = <<w1, w2, w3, w4>> /\ Len(d) = 4
                            /\ d[1] = w1 /\ d[2] = w2 /\ d[3] = w3 /\ d[4] = w4
  <2> DEFINE w == <<w1, w2, w3, w4>>
  <2>1. w \in Seq(Int) /\ Len(w) = 4 /\ w[1] = w1 /\ w[2] = w2 /\ w[3] = w3 /\ w[4] = w4
    BY SMT
  <2> HIDE DEF w
  <2>2. \E d \in Seq(Int) : /\ d = w /\ Len(d) = 4
                            /\ d[1] = w1 /\ d[2] = w2 /\ d[3] = w3 /\ d[4] = w4
    BY <2>1
  <2> QED BY <2>2 DEF w
<1>5. PICK t \in Seq(Int) : /\ t = a \o b \o c \o d
                            /\ Len(t) = g + 1 + (zeros + 4) + 4
                            /\ \A i \in 1 .. g + 1 + (zeros + 4) + 4 :
                                 t[i] = IF i <= g THEN a[i]
                                        ELSE IF i <= g + 1 THEN b[i - g]
                                        ELSE IF i <= g + 1 + (zeros + 4) THEN c[i - (g + 1)]
                                        ELSE d[i - (g + 1 + (zeros + 4))]
  <2>1. Len(a) = g /\ Len(b) = 1 /\ Len(c) = zeros + 4 /\ Len(d) = 4
    BY <1>1, <1>2, <1>3, <1>4
  <2>0. a \in Seq(Int) /\ b \in Seq(Int) /\ c \in Seq(Int) /\ d \in Seq(Int)
    BY <1>1, <1>2, <1>3, <1>4
  <2>2. InParts(a \o b \o c \o d, a, b, c, d)
    BY <2>0, FourParts
  <2>3. PICK t : t = a \o b \o c \o d
    OBVIOUS
  <2>4. InParts(t, a, b, c, d)
    BY <2>2, <2>3
  <2>5. t \in Seq(Int)
    BY <2>4 DEF InParts
  <2>6. /\ Len(t) = g + 1 + (zeros + 4) + 4
        /\ \A i \in 1 .. g + 1 + (zeros + 4) + 4 :
             t[i] = IF i <= g THEN a[i]
                    ELSE IF i <= g + 1 THEN b[i - g]
                    ELSE IF i <= g + 1 + (zeros + 4) THEN c[i - (g + 1)]
                    ELSE d[i - (g + 1 + (zeros + 4))]
    BY <2>1, <2>4, Zenon DEF InParts
  <2> QED BY <2>3, <2>5, <2>6
<1>6. Len(s) = Len(t)
  BY <1>0, <1>5, SMT
<1>7. ASSUME NEW i \in 1..Len(s) PROVE s[i] = t[i]
  <2>1. t[i] = IF i <= g THEN a[i]
               ELSE IF i <= g + 1 THEN b[i - g]
               ELSE IF i <= g + 1 + (zeros + 4) THEN c[i - (g + 1)]
               ELSE d[i - (g + 1 + (zeros + 4))]
    <3>1. i \in 1 .. g + 1 + (zeros + 4) + 4
      BY <1>0, SMT
    <3> QED BY <1>5, <3>1
  <2>2. CASE i <= g
    <3>1. i \in 1..g
      BY <2>2, SMT
    <3> QED BY <1>0, <1>1, <2>1, <2>2, <3>1
  <2>3. CASE i = g + 1
    <3>1. ~(i <= g) /\ i <= g + 1 /\ i - g = 1
      BY <2>3, SMT
    <3> QED BY <1>0, <1>2, <2>1, <2>3, <3>1
  <2>4. CASE i > g + 1 /\ i <= g + zeros + 5
    <3>1. /\ ~(i <= g) /\ ~(i <= g + 1) /\ i <= g + 1 + (zeros + 4)
          /\ i - (g + 1) \in 1 .. zeros + 4 /\ i \in g + 2 .. g + zeros + 5
      BY <2>4, SMT
    <3> QED BY <1>0, <1>3, <2>1, <3>1
  <2>5. CASE i > g + zeros + 5
    <3>1. ~(i <= g) /\ ~(i <= g + 1) /\ ~(i <= g + 1 + (zeros + 4))
      BY <2>5, SMT
    <3>2. t[i] = d[i - (g + 1 + (zeros + 4))]
      BY <2>1, <3>1
    <3>3. \/ i = g + zeros + 6 /\ i - (g + 1 + (zeros + 4)) = 1
          \/ i = g + zeros + 7 /\ i - (g + 1 + (zeros + 4)) = 2
          \/ i = g + zeros + 8 /\ i - (g + 1 + (zeros + 4)) = 3
          \/ i = g + zeros + 9 /\ i - (g + 1 + (zeros + 4)) = 4
      BY <1>0, <2>5, SMT
    <3> QED BY <1>0, <1>4, <3>2, <3>3
  <2> QED BY <1>0, <2>2, <2>3, <2>4, <2>5, SMT
<1>8. s = t
  BY <1>0, <1>5, <1>6, <1>7, SeqEqual
<1> QED BY <1>1, <1>2, <1>3, <1>4, <1>5, <1>8 DEF Standard

\* final pads as the standard says.
LEMMA FinalPads ==
  ASSUME PadInv, WholeBlocks, FitsInt(given), Final
  PROVE  PaddedAsDefined'
<1> DEFINE pm_len == Blocks(m_len) * BLOCK_SIZE
           len_b == Bytes32(given * 8)
<1>a. /\ given \in Nat /\ m_len \in Nat /\ m_len <= 63 /\ m_tot_len \in Nat
      /\ given = m_tot_len + m_len
  BY DEF PadInv
<1>1. /\ absorbed' \in Seq(Int) /\ Len(absorbed') = m_tot_len + pm_len
      /\ \A i \in 1..given : absorbed'[i] = Nth(i)
      /\ absorbed'[given + 1] = 128
      /\ \A i \in given + 2 .. m_tot_len + pm_len - 4 : absorbed'[i] = 0
      /\ \A k \in 1..4 : absorbed'[m_tot_len + pm_len - 4 + k] = len_b[5 - k]
  BY FinalBytes
<1>2. PICK zeros \in Nat : zeros = Zeros(given) /\ zeros + m_len + 9 = pm_len
  <2>1. PICK q \in Nat : m_tot_len = 64 * q
    BY DEF WholeBlocks
  <2>2. given = 64 * q + m_len
    BY <1>a, <2>1
  <2> QED BY <1>a, <2>2, ZerosFill
<1>3. \A k \in 1..4 : len_b[k] \in Int
  BY <1>a, SMT DEF Bytes32
<1> HIDE DEF pm_len, len_b
<1>4. /\ m_tot_len + pm_len = given + zeros + 9
      /\ m_tot_len + pm_len - 4 = given + zeros + 5
  BY <1>a, <1>2, SMT
<1>5. /\ absorbed'[given + zeros + 6] = len_b[4] /\ absorbed'[given + zeros + 7] = len_b[3]
      /\ absorbed'[given + zeros + 8] = len_b[2] /\ absorbed'[given + zeros + 9] = len_b[1]
  <2>1. \A k \in 1..4 : absorbed'[given + zeros + 5 + k] = len_b[5 - k]
    BY <1>1, <1>4
  <2>2. /\ 1 \in 1..4 /\ 2 \in 1..4 /\ 3 \in 1..4 /\ 4 \in 1..4
        /\ given + zeros + 5 + 1 = given + zeros + 6
        /\ given + zeros + 5 + 2 = given + zeros + 7
        /\ given + zeros + 5 + 3 = given + zeros + 8
        /\ given + zeros + 5 + 4 = given + zeros + 9
        /\ 5 - 1 = 4 /\ 5 - 2 = 3 /\ 5 - 3 = 2 /\ 5 - 4 = 1
    BY <1>a, SMT
  <2> QED BY <2>1, <2>2
<1>6. absorbed' = Standard(given, zeros, len_b[4], len_b[3], len_b[2], len_b[1])
  <2>1. len_b[1] \in Int /\ len_b[2] \in Int /\ len_b[3] \in Int /\ len_b[4] \in Int
    BY <1>3
  <2>2. /\ absorbed' \in Seq(Int) /\ Len(absorbed') = given + zeros + 9
        /\ \A i \in 1..given : absorbed'[i] = Nth(i)
        /\ absorbed'[given + 1] = 128
        /\ \A i \in given + 2 .. given + zeros + 5 : absorbed'[i] = 0
    BY <1>1, <1>4
  <2>3. given \in Nat /\ zeros \in Nat
    BY <1>a, <1>2
  <2>4. Holds(absorbed', given, zeros, len_b[4], len_b[3], len_b[2], len_b[1])
    BY <1>5, <2>2 DEF Holds
  <2> QED BY <2>1, <2>3, <2>4, StandardBytes
<1>7. LengthOf(given) = <<len_b[4], len_b[3], len_b[2], len_b[1]>>
  BY <1>a, LengthBytes DEF len_b
<1>8. given' = given
  BY DEF Final
<1>9. PaddedWith(LengthOf(given))'
  BY <1>2, <1>6, <1>7, <1>8, Zenon DEF PaddedWith, Standard
<1> QED BY <1>9, PaddedMeans

-----------------------------------------------------------------------------
\* The steps.

\* update transforms whole blocks.
LEMMA WholeKept ==
  ASSUME PadInv, WholeBlocks, NEW len \in Lengths, UpdateBlocks(len)
  PROVE  WholeBlocks'
<1>1. PICK q \in Nat : m_tot_len = 64 * q
  BY DEF WholeBlocks
<1>2. /\ len \in Nat /\ m_len \in Nat /\ m_len <= 63 /\ ~(m_len + len < 64)
      /\ m_tot_len' = m_tot_len + (Left(len) \div 64 + 1) * 64
  BY UpdateAssumption DEF PadInv, UpdateBlocks, StaysShort, BLOCK_SIZE
<1>3. Left(len) \in Nat
  BY <1>2, SMT DEF Left, BLOCK_SIZE
<1>4. PICK d \in Nat : d = Left(len) \div 64
  BY <1>3, DivMod
<1>5. m_tot_len' = 64 * (q + d + 1) /\ q + d + 1 \in Nat
  BY <1>1, <1>2, <1>4, SMT
<1> QED BY <1>5 DEF WholeBlocks

\* A call adds at most n bytes.
LEMMA GivenKept ==
  ASSUME PadInv, NEW n \in Nat, \A len \in Lengths : len <= n, GivenUpTo(n),
         NEW len \in Lengths, UpdateShort(len) \/ UpdateBlocks(len)
  PROVE  GivenUpTo(n)'
<1>1. /\ len \in Nat /\ len <= n /\ given \in Nat /\ calls \in Nat /\ MaxCalls \in Nat
      /\ given <= calls * n /\ calls < MaxCalls
      /\ given' = given + len /\ calls' = calls + 1
  BY UpdateAssumption DEF PadInv, UpdateShort, UpdateBlocks, GivenUpTo
<1>2. calls + 1 <= MaxCalls
  BY <1>1, SMT
<1>3. (calls + 1) * n = calls * n + n
  BY <1>1, SMT
<1>4. given + len <= (calls + 1) * n
  BY <1>1, <1>3, SMT
<1> QED BY <1>1, <1>2, <1>4 DEF GivenUpTo

\* What is known of a digest of messages of at most n bytes at a time.
DigestInv(n) == PadInv /\ WholeBlocks /\ GivenUpTo(n) /\ PaddedAsDefined

LEMMA DigestStep ==
  ASSUME NEW n \in Nat, FitsInt(MaxCalls * n), \A len \in Lengths : len <= n,
         DigestInv(n), [HashNext]_hashVars
  PROVE  DigestInv(n)'
<1>1. PadInv'
  BY ShortKeeps, BlocksKeep, FinalKeeps, StutterKeeps DEF HashNext, DigestInv
<1>2. ASSUME NEW len \in Lengths, UpdateShort(len) PROVE DigestInv(n)'
  <2>1. WholeBlocks' /\ ~finished'
    BY <1>2 DEF DigestInv, WholeBlocks, UpdateShort
  <2>2. PaddedAsDefined'
    BY <2>1, PaddedMeans
  <2>3. GivenUpTo(n)'
    BY <1>2, GivenKept DEF DigestInv
  <2> QED BY <1>1, <2>1, <2>2, <2>3 DEF DigestInv
<1>3. ASSUME NEW len \in Lengths, UpdateBlocks(len) PROVE DigestInv(n)'
  <2>1. ~finished'
    BY <1>3 DEF UpdateBlocks
  <2>2. PaddedAsDefined'
    BY <2>1, PaddedMeans
  <2>3. WholeBlocks' /\ GivenUpTo(n)'
    BY <1>3, WholeKept, GivenKept DEF DigestInv
  <2> QED BY <1>1, <2>2, <2>3 DEF DigestInv
<1>4. CASE Final
  <2>1. FitsInt(given)
    <3>1. /\ given \in Nat /\ calls \in Nat /\ MaxCalls \in Nat
          /\ calls <= MaxCalls /\ given <= calls * n
      BY UpdateAssumption DEF DigestInv, PadInv, GivenUpTo
    <3>2. calls * n <= MaxCalls * n
      BY <3>1, SMT
    <3> QED BY <3>1, <3>2, SMT DEF FitsInt
  <2>2. PaddedAsDefined'
    BY <1>4, <2>1, FinalPads DEF DigestInv
  <2>3. WholeBlocks' /\ GivenUpTo(n)'
    BY <1>4 DEF DigestInv, WholeBlocks, GivenUpTo, Final
  <2> QED BY <1>1, <2>2, <2>3 DEF DigestInv
<1>5. CASE UNCHANGED hashVars
  <2>1. UNCHANGED <<absorbed, given, finished, calls, m_tot_len>>
    BY <1>5 DEF hashVars
  <2>2. PaddedAsDefined'
    BY <2>1, SamePadding DEF DigestInv
  <2> QED BY <1>1, <2>1, <2>2 DEF DigestInv, WholeBlocks, GivenUpTo
<1> QED BY <1>2, <1>3, <1>4, <1>5 DEF HashNext

LEMMA DigestInit ==
  ASSUME NEW n \in Nat, HashInit
  PROVE  DigestInv(n)
<1>1. given = 0 /\ calls = 0 /\ m_tot_len = 0 /\ finished = FALSE /\ MaxCalls \in Nat
  BY UpdateAssumption DEF HashInit
<1>2. 0 \in Nat /\ 0 = 64 * 0 /\ 0 <= 0 * n /\ 0 <= MaxCalls
  BY <1>1, SMT
<1>3. WholeBlocks /\ GivenUpTo(n) /\ PaddedAsDefined
  BY <1>1, <1>2 DEF WholeBlocks, GivenUpTo, PaddedAsDefined
<1> QED BY <1>3, InitPad DEF DigestInv

\* PaddedAsDefined: the digest is computed over the message as the standard pads it,
\* however the message is cut into calls of update.
THEOREM PaddingIsStandard == ShortHashes => (HashSpec => []PaddedAsDefined)
<1>1. ASSUME NEW n \in Nat, FitsInt(MaxCalls * n), \A len \in Lengths : len <= n
      PROVE  HashSpec => []PaddedAsDefined
  <2>1. HashInit => DigestInv(n)
    BY DigestInit
  <2>2. DigestInv(n) /\ [HashNext]_hashVars => DigestInv(n)'
    BY <1>1, DigestStep
  <2>3. DigestInv(n) => PaddedAsDefined
    BY DEF DigestInv
  <2> QED BY <2>1, <2>2, <2>3, PTL DEF HashSpec
<1> QED BY <1>1 DEF ShortHashes
=============================================================================
