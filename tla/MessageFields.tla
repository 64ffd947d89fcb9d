---------------------------- MODULE MessageFields ----------------------------
(***************************************************************************)
(* One message of cConnection::sendMessage (src/include/cConnection.cpp)   *)
(* and what treatMessage of the chat server reads in it.  Its fields are   *)
(* names, credentials or a text; in front of each goes its length, which   *)
(* is narrowed to a signed char, or to a short for a text.  The length of  *)
(* the packet is the sum of what the narrowing left, and may be too small, *)
(* or negative.                                                            *)
(*                                                                         *)
(* Characters are printable, the packet arrives in one receive (of at most *)
(* ServerBufferLength bytes), and who sends it has logged in.              *)
(***************************************************************************)
EXTENDS Framing

CONSTANTS
  ServerBufferLength,  \* DEFAULT_BUFFER_LENGTH of the chat server (512).
  FieldSizes,          \* How many characters a name, an e-mail or a password has.
  TextSizes            \* How many characters a text has.

ASSUME FieldAssumption ==
  ServerBufferLength \in Nat /\ FieldSizes \subseteq Nat \ {0} /\ TextSizes \subseteq Nat

VARIABLES
  msgID,         \* Which message it is.
  sizes,         \* How many characters each field has.
  messageLength, \* What sendMessage computes, and the bytes it sends.
  readIndex,     \* The position of treatMessage's cBuffer.
  read,          \* The fields read: where the characters lay, and how many.
  stage          \* "build", "sent", "treat"; ends: "thrown" (the constructor of
                 \* cBuffer), "overrun", "lost" (not treated), "treated".

fieldVars == <<msgID, sizes, messageLength, readIndex, read, stage>>

Answers ==
  {"CREATE_ACCOUNT_WEB_SUCCESS", "CREATE_ACCOUNT_WEB_FAILURE",
   "AUTHENTICATE_WEB_SUCCESS", "AUTHENTICATE_WEB_FAILURE"}
Texts == Answers \union {"SEND_TEXT"}
Credentials == {"CREATE_ACCOUNT", "AUTHENTICATE"}

Fields == DOMAIN sizes

\* The bytes of a field's length.
Width == IF msgID \in Texts THEN 2 ELSE 1

\* A word has a character at least, a password 6; a first name fits into its array
\* (ARRAY_SIZE); an authentication server gives its name and "TEMP_HASH", and its
\* answers are short.
FieldsInit ==
  /\ \/ msgID = "SEND_TEXT" /\ \E n \in TextSizes \ {0} : sizes = <<n>>
     \/ msgID \in Answers /\ \E n \in TextSizes \intersect 0..120 : sizes = <<n>>
     \/ msgID = "LEAVE_ROOM" /\ \E room \in FieldSizes : sizes = <<room>>
     \/ msgID = "JOIN_ROOM"
        /\ \E room, firstName \in FieldSizes : firstName < 128 /\ sizes = <<room, firstName>>
     \/ msgID \in Credentials
        /\ \E email, password \in FieldSizes : password >= 6 /\ sizes = <<email, password>>
     \/ msgID = "VALIDATE_SERVER" /\ sizes = <<21, 9>>
  /\ messageLength = 0 /\ readIndex = 0 /\ read = <<>>
  /\ stage = "build"

-----------------------------------------------------------------------------
\* sendMessage.

AsChar(n) == SignedChar(n % 256)

AsInt(n) == n  \* Fault: the length of a text is not narrowed.

AsShort(n) == IF (n % 65536) < 32768 THEN (n % 65536) ELSE (n % 65536) - 65536

\* The length as it is written, and (Written) the characters written after it.
Narrowed(i) == IF Width = 2 THEN AsShort(sizes[i]) ELSE AsChar(sizes[i])

\* Fault: all the characters are written, whatever was written as their length.
WrittenAll(i) == sizes[i]

Written(i) == IF Narrowed(i) > 0 THEN Narrowed(i) ELSE 0

\* Where the length of a field is written.
Place(i) == 5 + TotalLength([j \in 1 .. i - 1 |-> Width + Written(j)])

\* Fault: the lengths of the fields are not counted.
BareLength == 5 + TotalLength([i \in Fields |-> Narrowed(i)])

\* An int, the id, and each field.
Summed == 5 + TotalLength([i \in Fields |-> Width + Narrowed(i)])

\* A negative size is a huge one for cBuffer; in a string of less than 4 bytes
\* WriteInt32LE writes outside (CBuffer!WriteOverrunOnlyIfShort), any other one
\* grows when it is full.  Whatever was written, messageLength bytes are sent.
SendMessage ==
  /\ stage = "build"
  /\ messageLength' = Summed
  /\ stage' = IF Summed < 0 THEN "thrown" ELSE IF Summed < 4 THEN "overrun" ELSE "sent"
  /\ UNCHANGED <<msgID, sizes, readIndex, read>>

-----------------------------------------------------------------------------
\* The chat server.

\* readSocket hands over a packet that begins the receive if its length decodes, is
\* complete, and at least its id is there.
Receive ==
  /\ stage = "sent"
  /\ LET n == IF messageLength > ServerBufferLength THEN ServerBufferLength ELSE messageLength
     IN  IF Framed(<<messageLength>>, n, 1) /\ messageLength >= 5
         THEN stage' = "treat" /\ readIndex' = 5
         ELSE stage' = "lost" /\ UNCHANGED readIndex
  /\ UNCHANGED <<msgID, sizes, messageLength, read>>

\* The byte at a position of the message: of a length, or a character; and the NUL
\* at the end of the string, which can be read.
ByteAt(n) ==
  LET here == {i \in Fields : n \in Place(i) .. Place(i) + Width - 1}
  IN  IF n >= messageLength THEN 0
      ELSE IF here = {} THEN 97
      ELSE LET i == CHOOSE j \in here : TRUE
           IN  Bytes16(Narrowed(i))[n - Place(i) + 1]

\* Does an item of some bytes end within the string and its NUL?
Readable(n, bytes) == n + bytes <= messageLength + 1

\* The length of a field, read with ReadChar or ReadInt16LE.
LengthAt(n) ==
  IF Width = 2 THEN Int16(<<ByteAt(n), ByteAt(n + 1)>>) ELSE SignedChar(ByteAt(n))

\* A field: its length, and as many characters; the last one ends the case.
ReadField ==
  /\ stage = "treat"
  /\ LET length == LengthAt(readIndex)
         n == IF length > 0 THEN length ELSE 0
         first == readIndex + Width
     IN  IF Readable(first, n)
         THEN /\ read' = Append(read, [at |-> first, n |-> n])
              /\ readIndex' = first + n
              /\ stage' = IF Len(read') = Len(sizes) THEN "treated" ELSE "treat"
         ELSE stage' = "overrun" /\ UNCHANGED <<readIndex, read>>
  /\ UNCHANGED <<msgID, sizes, messageLength>>

FieldsNext == SendMessage \/ Receive \/ ReadField

FieldsSpec == FieldsInit /\ [][FieldsNext]_fieldVars

-----------------------------------------------------------------------------
\* Type invariant; the lengths are narrowed so far that none of sendMessage's checks
\* for a packet that is too long ("Buffer overflow sendind ...") ever refuses one.
FieldsTypeOK ==
  /\ msgID \in Texts \union Credentials \union {"JOIN_ROOM", "LEAVE_ROOM", "VALIDATE_SERVER"}
  /\ Len(read) <= Len(sizes)
  /\ readIndex \in Nat /\ messageLength \in Int
  /\ messageLength <= IF Width = 2 THEN 65542 ELSE IF Len(sizes) = 1 THEN 262 ELSE 519
  /\ stage \in {"build", "sent", "treat", "thrown", "overrun", "lost", "treated"}

\* A message whose lengths were not changed by the narrowing is read as it was
\* written, every field whole and nothing from behind the packet, if it is treated at
\* all; only a text may be read as an empty one (its length has bytes of its own
\* that may turn it negative).
FieldsWhole ==
  stage = "treated" /\ (\A i \in Fields : Narrowed(i) = sizes[i]) =>
    \A i \in Fields :
      /\ read[i].at = Place(i) + Width
      /\ read[i].n = sizes[i] \/ (Width = 2 /\ read[i].n = 0)
      /\ read[i].at + read[i].n <= messageLength

\* A length that was narrowed to something else cuts off its own field, and the end
\* of the packet, but never puts the reader out of step: each further field is read
\* where it was written, with as many characters as were written.
FieldsInPlace ==
  \A i \in DOMAIN read :
    Width = 1 /\ Place(i) < messageLength => read[i] = [at |-> Place(i) + 1, n |-> Written(i)]

\* The client writes, and the server reads, outside of a string only if a length was
\* narrowed to a negative one.
OutsideOnlyIfNegative == stage = "overrun" => \E i \in Fields : Narrowed(i) < 0

\* "Password should be at least 6 characters." (Client/theMain.cpp:165): an account,
\* under an e-mail whose length was not changed by the narrowing, is created with a
\* password of that many.
PasswordLongEnough ==
  msgID = "CREATE_ACCOUNT" /\ stage = "treated" /\ Narrowed(1) = sizes[1] => read[2].n >= 6
=============================================================================
