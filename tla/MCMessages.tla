------------------------------ MODULE MCMessages ------------------------------
(* TLC instances of the parts that make messages and cut them out of a      *)
(* receive, one of them in each behaviour; the others rest meanwhile.       *)
EXTENDS ReadSocket, GetMessages, MessageFields, ClientConsole

VARIABLE part

allVars == <<vars, receiveVars, fieldVars, consoleVars, part>>

\* A receive that was read, one that was not looked at, and a message not yet built.
SocketRests ==
  /\ lengths = <<7>> /\ bytes = WireOf(7)
  /\ index1 = 8 /\ currBuffer = <<>> /\ currMsgLength = 7 /\ treated = {0}

ReceiveRests ==
  /\ packets = <<Packet(9, 0, 9, 0)>>
  /\ m_readIndex = 0 /\ bytesInBuffer = DefaultBufferLength /\ packetLength = 0
  /\ lines = <<>> /\ ended = "no"

FieldsRest ==
  /\ msgID = "LEAVE_ROOM" /\ sizes = <<1>>
  /\ messageLength = 0 /\ readIndex = 0 /\ read = <<>> /\ stage = "build"

MessagesInit ==
  /\ \/ part = "readSocket" /\ Init /\ ReceiveRests /\ FieldsRest
     \/ part = "getMessages" /\ SocketRests /\ ReceiveInit /\ FieldsRest
     \/ part = "sendMessage" /\ SocketRests /\ ReceiveRests /\ FieldsInit
     \/ part = "console" /\ SocketRests /\ ReceiveRests /\ FieldsRest
  /\ ConsoleInit

MessagesNext ==
  \/ part = "readSocket" /\ Next /\ UNCHANGED <<receiveVars, fieldVars, consoleVars, part>>
  \/ part = "getMessages" /\ ReceiveNext /\ UNCHANGED <<vars, fieldVars, consoleVars, part>>
  \/ part = "sendMessage" /\ FieldsNext /\ UNCHANGED <<vars, receiveVars, consoleVars, part>>
  \/ part = "console" /\ ConsoleNext /\ UNCHANGED <<vars, receiveVars, fieldVars, part>>

MessagesSpec == MessagesInit /\ [][MessagesNext]_allVars

\* The loop of readSocket runs on.
FairMessagesSpec == MessagesSpec /\ WF_vars(Next)

\* Type invariant of each part; it includes that sendMessage's own checks for a
\* packet that is too long never refuse one (cConnection.cpp:91-96).
MessagesTypeOK == TypeOK /\ ReceiveTypeOK /\ FieldsTypeOK /\ ConsoleTypeOK

-----------------------------------------------------------------------------
\* readSocket: the lengths of packets that matter (LEAVE 7, JOIN and the failures
\* 9, successes 11), lengths on both sides of 128, one of those that can pass for a
\* JOIN, and receives that end inside a packet.
MCLengths == {7, 9, 11, 12, 127, 128, 390}
MCCuts == {0, 1, 2, 4, 380}

\* getMessages: a short message, lengths on both sides of 128, one whose second byte
\* counts and which fills the buffer together with another, one that fills it alone.
MCPacketLengths == {9, 127, 128, 383, 512}
MCMissing == {0, 3, 6}

\* sendMessage: sizes around the borders of a signed char, an unsigned one and twice
\* that, texts around those of the decoded lengths, of the receive buffer and of a
\* short; and sizes that make packets of 0 to 6 bytes.
MCFieldSizes ==
  {1, 6, 60, 61, 120, 121, 127, 128, 129, 133, 134, 249, 251, 252, 253, 254, 255, 256,
   259, 262}
MCTextSizes ==
  {0, 1, 120, 121, 127, 128, 248, 249, 255, 256, 376, 377, 504, 505, 506, 32767,
   32768, 65528, 65529, 65532, 65533, 65534, 65541, 65542}

\* The console: Enter, a command of each kind, a text of one word and one of two, the
\* second too short for a password.
MCLines == {<<>>, <<"-j">>, <<"-a">>, <<"secret">>, <<"lounge", "two">>}
MCWords == {"-j", "-a", "secret", "lounge", "two"}
MCShortWords == {"-j", "-a", "two"}
=============================================================================
