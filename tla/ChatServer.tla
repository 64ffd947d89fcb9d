------------------------------ MODULE ChatServer ------------------------------
(***************************************************************************)
(* The chat server (src/Server/theMain.cpp): one thread, one select loop,  *)
(* one SOCKET_INFORMATION per connection with room for ONE outgoing        *)
(* message.  A pass of the loop                                            *)
(*                                                                         *)
(*   select   arms the sets and blocks until some socket is ready,         *)
(*   accept   takes one connection if the listening socket is ready,       *)
(*   scan     visits the ready sockets in the order of g_socketArray,      *)
(*   treat    inside a visit: treats the messages of one receive.          *)
(*                                                                         *)
(* The peers are clients (src/Client) and authentication servers           *)
(* (src/Auth_Server), connected through TCP: bytes arrive in order, but    *)
(* packets may be coalesced into one receive or split over two.  Framing   *)
(* says which packets of a receive are treated; ByteCodec says which       *)
(* lengths survive the encoding.  Everything about a packet is dropped     *)
(* except its id, its length, and what the server's decisions depend on.   *)
(***************************************************************************)
EXTENDS Framing

CONSTANTS
  Clients,        \* Connections made by chat clients,
  AuthServers,    \* and by authentication servers; none is used twice.
  Rooms,          \* Room names; never "", which is the name of an erased room.
  NameOf,         \* The name a peer was started with, and sends.
  Texts,          \* Lengths of the texts clients send; they stand for the texts.
  Creds,          \* Lengths of e-mail and password together; likewise.
  Hashes,         \* What authentication servers send to be validated.
  RoomSize,       \* Length of a room name
  NameSize,       \* and of a user name.
  DateSizes,      \* Lengths of a creation date; 0 if there is none.
  StrayIds,       \* The request ids under which an authentication server may answer
                  \* messages that it reads together (see AuthServer!Parsed).
  FDSetSize,      \* FD_SETSIZE: sockets in an fd_set and in g_socketArray (64).
  BufferLength,   \* DEFAULT_BUFFER_LENGTH: bytes in one receive (512).
  Fragile,        \* Bound of the model: the peers that may close or die,
  Failing,        \* whether select, accept and ioctlsocket may fail,
  Commands,       \* what the users of the clients type,
  Quota,          \* packets each peer starts on its own,
  MaxInbox,       \* packets on their way to the server on one connection,
  MaxCuts         \* and receives that end inside a packet.

Conns == Clients \union AuthServers

NoName == ""          \* std::string() of a user name
UserNames == {NameOf[c] : c \in Conns} \union {NoName}
Erased == ""          \* what LEAVE_ROOM makes of an entry of m_rooms
TempHash == "TEMP_HASH"

-----------------------------------------------------------------------------
\* Packets to the server, and their lengths on the wire.

ClientPackets ==
       [id : {"JOIN_ROOM", "LEAVE_ROOM"}, room : Rooms]
  \union [id : {"SEND_TEXT"}, body : Texts]
  \union [id : {"CREATE_ACCOUNT", "AUTHENTICATE"}, cred : Creds]

ValidatePackets == [id : {"VALIDATE_SERVER"}, hash : Hashes]

AnswerIds == {"CREATE_ACCOUNT_WEB_SUCCESS", "CREATE_ACCOUNT_WEB_FAILURE",
              "AUTHENTICATE_WEB_SUCCESS", "AUTHENTICATE_WEB_FAILURE"}

Answer(id, rid, date) == [id |-> id, rid |-> rid, date |-> date]
AnswerPackets == [id : AnswerIds, rid : Nat, date : Nat]

Packets == ClientPackets \union ValidatePackets \union AnswerPackets

\* A chunk that treatMessage discards: its length is out of range, or its
\* first byte after the length is no message id.
Junk == [id |-> "junk"]

\* An answer is a serialized message of one-byte varints (rid < 64), with a user id
\* if it tells a success; a field that is zero or empty is not on the wire.
AnswerLength(p) ==
  7 + (IF p.rid = 0 THEN 0 ELSE 2)
    + (IF p.id \in {"CREATE_ACCOUNT_WEB_SUCCESS", "AUTHENTICATE_WEB_SUCCESS"} THEN 2 ELSE 0)
    + (IF p.date = 0 THEN 0 ELSE 2 + p.date)

PacketLength(p) ==
  CASE p.id = "JOIN_ROOM" -> 7 + RoomSize + NameSize
    [] p.id = "LEAVE_ROOM" -> 6 + RoomSize
    [] p.id = "SEND_TEXT" -> 7 + p.body
    [] p.id \in {"CREATE_ACCOUNT", "AUTHENTICATE"} -> 7 + p.cred
    [] p.id = "VALIDATE_SERVER" -> 7 + 21 + 9
    [] OTHER -> AnswerLength(p)

\* The packet that carries a request to an authentication server.
RequestLength(cred) == 11 + cred

\* The text a reader finds in a SEND_TEXT: its own length is a short, and a
\* negative one is an empty text.
RawText(body) == Decoded16(body)  \* Fault: the length is not looked at.

ReadText(body) == IF Decoded16(body) < 0 THEN 0 ELSE body

ASSUME ConnAssumption ==
  /\ Clients \intersect AuthServers = {}
  /\ IsFiniteSet(Conns)
  /\ Fragile \subseteq Conns
  /\ Erased \notin Rooms

\* createSocketInformation does not look whether g_socketArray is full; the
\* behaviour beyond its end is undefined and left out.
ASSUME TableAssumption == FDSetSize \in Nat /\ Cardinality(Conns) <= FDSetSize

\* Texts of 377 or more give packets that can pass for a JOIN in the middle
\* of a receive (ReadSocket!FalseJoin); they are left out.
ASSUME SizeAssumption ==
  /\ Texts \subseteq 1..376 /\ Creds \subseteq 7..254
  /\ {RoomSize, NameSize} \subseteq 1..127 /\ DateSizes \subseteq 0..300
  /\ {FDSetSize, BufferLength, MaxInbox, MaxCuts} \subseteq Nat
  /\ BufferLength >= 383
  /\ Quota \in [Conns -> Nat]

\* Request ids stay below 64, where they take one byte.  (An answer may also stray to
\* a negative id, which nobody has, as nobody has one that was not given out yet.)
ASSUME RequestAssumption ==
  SumFunctionOnSet(Quota, Clients) < 64 /\ StrayIds \subseteq 1..63 /\ Failing \in BOOLEAN

-----------------------------------------------------------------------------
\* What m_dataBuffer holds: NULL after GlobalAlloc, the connection's own
\* receive buffer after a read, or a message to send.

NullBuffer == [kind |-> "null"]
OwnBuffer == [kind |-> "own"]

Refusal == [kind |-> "refusal"]
Validated == [kind |-> "validated"]
Connected(room) == [kind |-> "connected", room |-> room]
Disconnected(room) == [kind |-> "disconnected", room |-> room]
Text(name, body) == [kind |-> "text", from |-> name, body |-> body]
Informed(id, rid) == [kind |-> id, rid |-> rid]
Request(op, rid, cred) == [kind |-> op, rid |-> rid, cred |-> cred]

Requests == [kind : {"CREATE_ACCOUNT_WEB", "AUTHENTICATE_WEB"}, rid : Nat, cred : Creds]

Messages ==
       {Refusal, Validated}
  \union [kind : {"connected", "disconnected"}, room : Rooms]
  \union [kind : {"text"}, from : UserNames, body : Texts \union {0}]
  \union [kind : AnswerIds, rid : Nat]
  \union Requests

Buffers == Messages \union {NullBuffer, OwnBuffer}

SocketInformation ==
  [rooms : SUBSET (Rooms \union {Erased}),   \* m_rooms, as the set of its entries
   userName : UserNames,
   isAuthServer : BOOLEAN,
   isAuthenticated : BOOLEAN,
   hasNewData : BOOLEAN,
   dataBuffer : Buffers,
   requestedID : Nat]

\* A SOCKET_INFORMATION of zeros; its constructor is never called.
Fresh ==
  [rooms |-> {}, userName |-> NoName, isAuthServer |-> FALSE,
   isAuthenticated |-> FALSE, hasNewData |-> FALSE,
   dataBuffer |-> NullBuffer, requestedID |-> 0]

VARIABLES
  pc,             \* "accept", "scan" or "treat", see above; "ended" when main returns
  conns,          \* g_socketArray up to g_totalSockets
  sock,           \* the SOCKET_INFORMATION of each connection
  g_requestedID,
  readSet,        \* the connections select left in g_readSet
  writeSet,       \* and in g_writeSet
  socketsIndex,   \* position of the scan in conns (from 1)
  totalOfSockets, \* ready sockets the scan still expects
  batch           \* the chunks of the current receive still to be treated

serverVars == <<pc, conns, sock, g_requestedID, readSet, writeSet,
                socketsIndex, totalOfSockets, batch>>

VARIABLES
  peer,           \* "idle", "up" or "down"
  backlog,        \* connections waiting to be accepted
  inbox,          \* packets a peer has sent and the server has not read
  skew,           \* the next byte to be read lies inside a packet
  toAuth,         \* messages sent to an authentication server, not yet read
  ready,          \* the authentication server has seen an answer to VALIDATE
  sends,          \* packets a peer may still start on its own
  cuts            \* receives that may still end inside a packet

peerVars == <<peer, backlog, inbox, skew, toAuth, ready, sends, cuts>>

VARIABLES
  ledger,         \* History: who asked for what, by request id.
  approved,       \* History: request ids an authentication server approved, and
  strayed         \* the ids, of the message and of the request, of its answers to
                  \* messages that it read together.

vars == <<serverVars, peerVars, ledger, approved, strayed>>

-----------------------------------------------------------------------------
Init ==
  /\ pc = "scan" /\ conns = <<>> /\ sock = [c \in Conns |-> Fresh]
  /\ g_requestedID = 0 /\ readSet = {} /\ writeSet = {}
  /\ socketsIndex = 1 /\ totalOfSockets = 0 /\ batch = <<>>
  /\ peer = [c \in Conns |-> "idle"] /\ backlog = <<>>
  /\ inbox = [c \in Conns |-> <<>>] /\ skew = [c \in Conns |-> FALSE]
  /\ toAuth = [a \in AuthServers |-> <<>>] /\ ready = [a \in AuthServers |-> FALSE]
  /\ sends = Quota /\ cuts = MaxCuts
  /\ ledger = <<>> /\ approved = {} /\ strayed = {}

Online == ToSet(conns)

-----------------------------------------------------------------------------
\* The peers.  Their steps interleave with every step of the server.

Connect(c) ==
  /\ peer[c] = "idle"
  /\ peer' = [peer EXCEPT ![c] = "up"]
  /\ backlog' = Append(backlog, c)
  /\ UNCHANGED <<serverVars, inbox, skew, toAuth, ready, sends, cuts,
                 ledger, approved, strayed>>

\* A peer closes its socket, or dies.
Disconnect(c) ==
  /\ peer[c] = "up" /\ c \in Fragile
  /\ peer' = [peer EXCEPT ![c] = "down"]
  /\ UNCHANGED <<serverVars, backlog, inbox, skew, toAuth, ready, sends, cuts,
                 ledger, approved, strayed>>

Submit(c, p) ==
  /\ peer[c] = "up" /\ sends[c] > 0 /\ Len(inbox[c]) < MaxInbox
  /\ inbox' = [inbox EXCEPT ![c] = Append(@, p)]
  /\ sends' = [sends EXCEPT ![c] = @ - 1]
  /\ UNCHANGED <<serverVars, peer, backlog, skew, toAuth, ready, cuts,
                 ledger, approved, strayed>>

\* The user of a client types a command or a text; nothing orders them.
ClientSend(c, p) == p.id \in Commands /\ Submit(c, p)

\* An authentication server asks to be validated, and asks again while the
\* second it waits for an answer passes without one.
AuthValidate(a, p) == ~ready[a] /\ toAuth[a] = <<>> /\ Submit(a, p)

\* The request of a negative decoded length leaves an empty line, which reads
\* as message 10, an AUTHENTICATE_WEB without fields (cConnection.cpp:414-420).
Garbled(m) == Decoded32(RequestLength(m.cred)) < 0

\* How an authentication server may answer, as its database and the clock
\* decide, which are not modelled here.
Outcomes(op) ==
  IF op = "CREATE_ACCOUNT_WEB"
  THEN {"CREATE_ACCOUNT_WEB_SUCCESS", "CREATE_ACCOUNT_WEB_FAILURE"}
  ELSE {"AUTHENTICATE_WEB_SUCCESS", "AUTHENTICATE_WEB_FAILURE"}

OpOf(m) == IF Garbled(m) THEN "AUTHENTICATE_WEB" ELSE m.kind
RidOf(m) == IF Garbled(m) THEN 0 ELSE m.rid

Dates(id) == IF id = "AUTHENTICATE_WEB_SUCCESS" THEN DateSizes ELSE {0}

\* The answers to messages that are read together, as AuthServer!AnswersOf gives them.
\* The first says of what kind they are, and with others behind it under which id is
\* not known.  Alone, a garbled one fails.
AnswersTo(ms) ==
  LET m == Head(ms)
  IN  IF m \notin Requests THEN {}
      ELSE IF Len(ms) = 1 /\ Garbled(m) THEN {Answer("AUTHENTICATE_WEB_FAILURE", 0, 0)}
      ELSE LET rids == {RidOf(m)} \union (IF Len(ms) = 1 THEN {} ELSE StrayIds)
           IN  UNION {{Answer(id, rid, date) : rid \in rids, date \in Dates(id)} :
                        id \in Outcomes(OpOf(m))}

\* An authentication server reads the first k messages at once and gives them one
\* answer.  What it reads before it has seen an answer to VALIDATE it takes for that
\* answer, whatever it is.
AuthRead(a, k) ==
  /\ peer[a] = "up" /\ k \in 1..Len(toAuth[a])
  /\ toAuth' = [toAuth EXCEPT ![a] = SubSeq(@, k + 1, Len(@))]
  /\ ready' = [ready EXCEPT ![a] = TRUE]
  /\ LET answers == AnswersTo(SubSeq(toAuth[a], 1, k))
     IN  \/ /\ ~ready[a] \/ answers = {}
            /\ UNCHANGED <<inbox, approved, strayed>>
         \/ /\ ready[a] /\ Len(inbox[a]) < MaxInbox
            /\ \E answer \in answers :
                 /\ inbox' = [inbox EXCEPT ![a] = Append(@, answer)]
                 /\ approved' = IF k = 1 /\ answer.id = "AUTHENTICATE_WEB_SUCCESS"
                                THEN approved \union {answer.rid} ELSE approved
                 /\ strayed' = IF k = 1 THEN strayed
                               ELSE strayed \union {<<answer.id, answer.rid>>}
  /\ UNCHANGED <<serverVars, peer, backlog, skew, sends, cuts, ledger>>

-----------------------------------------------------------------------------
\* select and accept.

\* The connections FD_SET puts into each set: those with a message to send
\* into the write set, the others into the read set, which the listening
\* socket shares and which ignores a socket when it is full.
ToWrite == {c \in Online : sock[c].hasNewData}

\* The first of the connections that want to be read, up to a number of them.
FirstReaders(number) ==
  LET reader(i) == ~sock[conns[i]].hasNewData
  IN  {conns[i] : i \in {j \in DOMAIN conns :
         reader(j) /\ Cardinality({k \in 1..j : reader(k)}) <= number}}

\* Faults: every connection is armed for reading; the listening socket is
\* counted twice; the loop that arms the sets begins with the second entry.
ToReadAll == Online
ToReadFewer == FirstReaders(FDSetSize - 2)
ToReadButFirst == FirstReaders(FDSetSize - 1) \ {Head(conns)}

ToRead == FirstReaders(FDSetSize - 1)

\* What WSARecv would not block on.
Readable(c) == inbox[c] # <<>> \/ skew[c] \/ peer[c] = "down"

\* The positions the scan has still to visit, and whether there is nothing
\* left for it to do.
Ahead == {i \in socketsIndex..Len(conns) : conns[i] \in readSet \union writeSet}

PassOver == pc = "scan" /\ (totalOfSockets = 0 \/ Ahead = {})

\* What select returns: the ready sockets it found, R and W and, with l, the
\* listening socket.
FoundButListener(R, W, l) == Cardinality(R) + Cardinality(W)  \* Fault

Found(R, W, l) == Cardinality(R) + Cardinality(W) + (IF l THEN 1 ELSE 0)

SelectReady(R, W, l) ==
  /\ l \/ R # {} \/ W # {}
  /\ readSet' = R /\ writeSet' = W
  /\ totalOfSockets' = Found(R, W, l)
  /\ socketsIndex' = 1
  /\ pc' = IF l THEN "accept" ELSE "scan"
  /\ UNCHANGED <<conns, sock, g_requestedID, batch, peerVars, ledger, approved, strayed>>

\* Those it may find: armed, and for reading also readable.
MayRead == SUBSET {c \in ToRead : Readable(c)}
MayWrite == SUBSET ToWrite
MayAccept == IF backlog = <<>> THEN {FALSE} ELSE BOOLEAN

Select ==
  /\ PassOver
  /\ \E R \in MayRead, W \in MayWrite, l \in MayAccept : SelectReady(R, W, l)

\* accept, createSocketInformation: one connection per pass, put last.
Accept ==
  /\ pc = "accept"
  /\ conns' = Append(conns, Head(backlog))
  /\ sock' = [sock EXCEPT ![Head(backlog)] = Fresh]
  /\ backlog' = Tail(backlog)
  /\ totalOfSockets' = totalOfSockets - 1
  /\ pc' = "scan"
  /\ UNCHANGED <<g_requestedID, readSet, writeSet, socketsIndex, batch, peer, inbox,
                 skew, toAuth, ready, sends, cuts, ledger, approved, strayed>>

\* The peer is gone before accept: WSAEWOULDBLOCK.
AcceptNothing ==
  /\ pc = "accept" /\ peer[Head(backlog)] = "down"
  /\ backlog' = Tail(backlog)
  /\ totalOfSockets' = totalOfSockets - 1
  /\ pc' = "scan"
  /\ UNCHANGED <<conns, sock, g_requestedID, readSet, writeSet, socketsIndex, batch,
                 peer, inbox, skew, toAuth, ready, sends, cuts, ledger, approved, strayed>>

\* select, accept or ioctlsocket fails otherwise: main returns.
Fail ==
  /\ Failing /\ (PassOver \/ pc = "accept")
  /\ pc' = "ended"
  /\ UNCHANGED <<conns, sock, g_requestedID, readSet, writeSet, socketsIndex,
                 totalOfSockets, batch, peerVars, ledger, approved, strayed>>

-----------------------------------------------------------------------------
\* Visiting a ready socket.

\* The scan has reached position i; entries that are not ready are passed.
Visit(i) ==
  /\ pc = "scan" /\ totalOfSockets > 0
  /\ i \in Ahead /\ \A j \in Ahead : i <= j

GoOn(i) ==
  /\ socketsIndex' = i + 1
  /\ totalOfSockets' = totalOfSockets - 1

\* freeSocketInformation(i): the later entries move up, and the scan, which
\* goes on behind position i, passes over the one that moves to i.
Free(i) ==
  /\ conns' = RemoveAt(conns, i)
  /\ sock' = [sock EXCEPT ![conns[i]] = Fresh]
  /\ inbox' = [inbox EXCEPT ![conns[i]] = <<>>]
  /\ skew' = [skew EXCEPT ![conns[i]] = FALSE]
  /\ GoOn(i)
  /\ UNCHANGED <<pc, g_requestedID, readSet, writeSet, batch, peer, backlog,
                 toAuth, ready, sends, cuts, ledger, approved, strayed>>

\* Before every WSARecv m_dataBuffer is pointed at the receive buffer,
\* whether or not it holds a message that has not been sent yet.
ReadInto(c) == sock' = [sock EXCEPT ![c].dataBuffer = OwnBuffer]

LengthsOf(packets) == [j \in DOMAIN packets |-> PacketLength(packets[j])]

\* What readSocket makes of a receive of n bytes that begins where packets[1]
\* begins: a chunk for each packet that begins one.  A truncated packet is
\* read beyond the end of its chunk, and whether it is still understood is
\* not defined ("lucky").
Chunks(packets, n, lucky) ==
  LET lengths == LengthsOf(packets)
  IN  [j \in DOMAIN packets |->
         IF Framed(lengths, n, j) /\ (lucky \/ ~Truncated(lengths, j))
         THEN packets[j] ELSE Junk]

\* One receive: k whole packets and the first "extra" bytes of the next.  A
\* receive that begins inside a packet decodes a length from its payload and
\* treats nothing.
RecvData(i, k, extra, lucky) ==
  LET c == conns[i]
      m == IF extra > 0 THEN k + 1 ELSE k
      n == TotalLength(LengthsOf(SubSeq(inbox[c], 1, k))) + extra
  IN  /\ Visit(i) /\ c \in readSet
      /\ m > 0 \/ skew[c]
      /\ m <= Len(inbox[c])
      /\ n <= BufferLength
      /\ extra > 0 => cuts > 0 /\ extra < PacketLength(inbox[c][m])
      /\ batch' = IF skew[c] THEN <<>> ELSE Chunks(SubSeq(inbox[c], 1, m), n, lucky)
      /\ inbox' = [inbox EXCEPT ![c] = SubSeq(@, m + 1, Len(@))]
      /\ skew' = [skew EXCEPT ![c] = extra > 0]
      /\ cuts' = IF extra > 0 THEN cuts - 1 ELSE cuts
      /\ ReadInto(c)
      /\ totalOfSockets' = totalOfSockets - 1
      /\ pc' = IF batch' = <<>> THEN "scan" ELSE "treat"
      /\ socketsIndex' = IF batch' = <<>> THEN i + 1 ELSE i
      /\ UNCHANGED <<conns, g_requestedID, readSet, writeSet, peer, backlog,
                     toAuth, ready, sends, ledger, approved, strayed>>

\* WSAEWOULDBLOCK; m_dataBuffer has been changed all the same.
RecvWouldBlock(i) ==
  /\ Visit(i) /\ conns[i] \in readSet
  /\ ReadInto(conns[i])
  /\ GoOn(i)
  /\ UNCHANGED <<pc, conns, g_requestedID, readSet, writeSet, batch, peerVars,
                 ledger, approved, strayed>>

\* An error, or the zero bytes that end the stream.
RecvGone(i) ==
  /\ Visit(i) /\ conns[i] \in readSet
  /\ peer[conns[i]] = "down"
  /\ Free(i)

NotFlushed(c) == sock  \* Fault: the flag of a message that was sent stays set.

\* The message of a connection counts as sent.
Flushed(c) == [sock EXCEPT ![c].hasNewData = FALSE]

\* WSASend: the message, whatever m_dataBuffer points at by now, is on its
\* way and counts as sent.
SendData(i) ==
  LET c == conns[i]
  IN  /\ Visit(i) /\ c \in writeSet
      /\ sock' = Flushed(c)
      /\ toAuth' = IF c \in AuthServers /\ peer[c] = "up"
                   THEN [toAuth EXCEPT ![c] = Append(@, sock[c].dataBuffer)]
                   ELSE toAuth
      /\ GoOn(i)
      /\ UNCHANGED <<pc, conns, g_requestedID, readSet, writeSet, batch, peer, backlog,
                     inbox, skew, ready, sends, cuts, ledger, approved, strayed>>

SendWouldBlock(i) ==
  /\ Visit(i) /\ conns[i] \in writeSet
  /\ GoOn(i)
  /\ UNCHANGED <<pc, conns, sock, g_requestedID, readSet, writeSet, batch, peerVars,
                 ledger, approved, strayed>>

SendGone(i) ==
  /\ Visit(i) /\ conns[i] \in writeSet
  /\ peer[conns[i]] = "down"
  /\ Free(i)

-----------------------------------------------------------------------------
\* treatMessage, one action per case of its switch.

Sa == conns[socketsIndex]

Treating(id) == pc = "treat" /\ Head(batch).id = id

\* sendMsg: the message takes the place of the one before, sent or not.
Holding(si, message) == [si EXCEPT !.dataBuffer = message, !.hasNewData = TRUE]

\* Give a message to some connections, and go on with the receive.  Once the
\* sender itself has been given one, its m_dataBuffer no longer points at what
\* was received, and the loop of readSocket finds no more messages in it.
Deliver(info, to, message) ==
  LET rest == IF Sa \in to THEN <<>> ELSE Tail(batch)
  IN  /\ sock' = [c \in Conns |-> IF c \in to THEN Holding(info[c], message) ELSE info[c]]
      /\ batch' = rest
      /\ pc' = IF rest = <<>> THEN "scan" ELSE "treat"
      /\ socketsIndex' = IF rest = <<>> THEN socketsIndex + 1 ELSE socketsIndex
      /\ UNCHANGED <<conns, readSet, writeSet, totalOfSockets, peerVars, approved, strayed>>

\* A message, or the lack of one, that changes nothing.
Ignore == Deliver(sock, {}, NullBuffer)

\* The connections msgToRoom finds.
InRoom(info, room) == {c \in Online : room \in info[c].rooms}

TreatJunk ==
  /\ Treating(Junk.id)
  /\ Ignore
  /\ UNCHANGED <<g_requestedID, ledger>>

TreatJoinRoom ==
  /\ Treating("JOIN_ROOM")
  /\ LET room == Head(batch).room
         joined == [sock EXCEPT ![Sa].rooms = @ \union {room},
                                ![Sa].userName = NameOf[Sa]]
     IN  IF sock[Sa].isAuthenticated
         THEN Deliver(joined, InRoom(joined, room), Connected(room))
         ELSE Deliver(sock, {Sa}, Refusal)
  /\ UNCHANGED <<g_requestedID, ledger>>

\* The entry is emptied, not removed.
TreatLeaveRoom ==
  /\ Treating("LEAVE_ROOM")
  /\ LET room == Head(batch).room
         left == [sock EXCEPT ![Sa].rooms =
                    IF room \in @ THEN (@ \ {room}) \union {Erased} ELSE @]
     IN  Deliver(left, InRoom(left, room), Disconnected(room))
  /\ UNCHANGED <<g_requestedID, ledger>>

\* Fault: the rooms of the others are not compared.
AllOnline(c) == IF sock[c].rooms = {} THEN {} ELSE Online

\* Everyone, the sender too, who shares a room that is not an emptied one.
Sharing(c) ==
  {d \in Online : \E room \in sock[c].rooms \intersect sock[d].rooms : room # Erased}

TreatSendText ==
  /\ Treating("SEND_TEXT")
  /\ Deliver(sock, Sharing(Sa), Text(sock[Sa].userName, ReadText(Head(batch).body)))
  /\ UNCHANGED <<g_requestedID, ledger>>

\* The request id is noted at the connection that asks.
AskedBefore(c, rid) == [sock EXCEPT ![c].requestedID = rid - 1]  \* Fault: post-increment.

Asked(c, rid) == [sock EXCEPT ![c].requestedID = rid]

\* The next request id.
NextIdForLogin(op) ==  \* Fault: a new id for log-ins only.
  IF op = "AUTHENTICATE_WEB" THEN g_requestedID + 1 ELSE g_requestedID

NextId(op) == g_requestedID + 1

\* A request goes to every authentication server.
Forward(op) ==
  LET rid == NextId(op)
  IN  /\ g_requestedID' = rid
      /\ ledger' = Append(ledger, [conn |-> Sa, op |-> op])
      /\ Deliver(Asked(Sa, rid), {c \in Online : sock[c].isAuthServer},
                 Request(op, rid, Head(batch).cred))

TreatCreateAccount == Treating("CREATE_ACCOUNT") /\ Forward("CREATE_ACCOUNT_WEB")

TreatAuthenticate == Treating("AUTHENTICATE") /\ Forward("AUTHENTICATE_WEB")

TreatValidateServer ==
  /\ Treating("VALIDATE_SERVER")
  /\ LET validated == [sock EXCEPT ![Sa].isAuthServer = TRUE, ![Sa].userName = NameOf[Sa]]
     IN  IF Head(batch).hash = TempHash
         THEN Deliver(validated, {Sa}, Validated)
         ELSE Ignore
  /\ UNCHANGED <<g_requestedID, ledger>>

\* The connections that wait for an answer by their request id: with 0, those
\* that have not asked for anything.
AskingSince(rid) == {c \in Online : sock[c].requestedID >= rid}  \* Fault

Asking(rid) == {c \in Online : sock[c].requestedID = rid}

Inform(id, info) ==
  LET rid == Head(batch).rid
  IN  /\ IF sock[Sa].isAuthServer
         THEN Deliver(info, Asking(rid), Informed(id, rid))
         ELSE Ignore
      /\ UNCHANGED <<g_requestedID, ledger>>

TreatCreateSuccess ==
  /\ Treating("CREATE_ACCOUNT_WEB_SUCCESS")
  /\ Inform("CREATE_ACCOUNT_WEB_SUCCESS", sock)

TreatCreateFailure ==
  /\ Treating("CREATE_ACCOUNT_WEB_FAILURE")
  /\ Inform("CREATE_ACCOUNT_WEB_FAILURE", sock)

\* The flag is set at every connection that asked.
Authenticated(to) ==
  [c \in Conns |->
     IF c \in to THEN [sock[c] EXCEPT !.isAuthenticated = TRUE] ELSE sock[c]]

TreatAuthSuccess ==
  /\ Treating("AUTHENTICATE_WEB_SUCCESS")
  /\ Inform("AUTHENTICATE_WEB_SUCCESS",
            Authenticated(Asking(Head(batch).rid)))

TreatAuthFailureAsSuccess ==  \* Fault
  /\ Treating("AUTHENTICATE_WEB_FAILURE")
  /\ Inform("AUTHENTICATE_WEB_FAILURE", Authenticated(Asking(Head(batch).rid)))

TreatAuthFailure ==
  /\ Treating("AUTHENTICATE_WEB_FAILURE")
  /\ Inform("AUTHENTICATE_WEB_FAILURE", sock)

-----------------------------------------------------------------------------
TreatMessage ==
  \/ TreatJunk \/ TreatJoinRoom \/ TreatLeaveRoom \/ TreatSendText
  \/ TreatCreateAccount \/ TreatAuthenticate \/ TreatValidateServer
  \/ TreatCreateSuccess \/ TreatCreateFailure
  \/ TreatAuthSuccess \/ TreatAuthFailure

\* A receive ends between packets, or just after the beginning or just before
\* the end of one.
Extras(c, k) ==
  {0} \union (IF k < Len(inbox[c]) THEN {1, PacketLength(inbox[c][k + 1]) - 1} ELSE {})

Recv(i) ==
  \E k \in 0..Len(inbox[conns[i]]), lucky \in BOOLEAN :
    \E extra \in Extras(conns[i], k) : RecvData(i, k, extra, lucky)

ServerStep ==
  \/ Select \/ Accept \/ AcceptNothing
  \/ \E i \in DOMAIN conns :
       \/ Recv(i) \/ RecvWouldBlock(i) \/ RecvGone(i)
       \/ SendData(i) \/ SendWouldBlock(i) \/ SendGone(i)
  \/ TreatMessage

PeerStep ==
  \/ \E c \in Conns : Connect(c) \/ Disconnect(c)
  \/ \E c \in Clients, p \in ClientPackets : ClientSend(c, p)
  \/ \E a \in AuthServers, p \in ValidatePackets : AuthValidate(a, p)
  \/ \E a \in AuthServers : \E k \in DOMAIN toAuth[a] : AuthRead(a, k)

Next == ServerStep \/ Fail \/ PeerStep

Spec == Init /\ [][Next]_vars

-----------------------------------------------------------------------------
(***************************************************************************)
(* Fairness.  The server's thread runs whenever it is not blocked in       *)
(* select.  select reports a socket that stays ready sooner or later: a    *)
(* socket with bytes to read whenever it is armed for reading, and one     *)
(* with room to send to because its peer reads from time to time.  Nothing *)
(* is assumed of what the peers send, or of whether main returns.          *)
(***************************************************************************)
SendStep(c) == \E i \in DOMAIN conns : conns[i] = c /\ (SendData(i) \/ SendGone(i))
RecvStep(c) == \E i \in DOMAIN conns : conns[i] = c /\ (Recv(i) \/ RecvGone(i))

SelectsToWrite(c) == Select /\ c \in writeSet'
SelectsToRead(c) == Select /\ c \in readSet'

Fairness ==
  /\ WF_vars(ServerStep)
  /\ \A c \in Conns : SF_vars(SelectsToWrite(c)) /\ SF_vars(SendStep(c))
  /\ \A c \in Conns : SF_vars(SelectsToRead(c)) /\ SF_vars(RecvStep(c))

FairSpec == Spec /\ Fairness

-----------------------------------------------------------------------------
\* Type invariant of the server and of the network around it.
TypeOK ==
  /\ pc \in {"accept", "scan", "treat", "ended"}
  /\ conns \in Seq(Conns)
  /\ sock \in [Conns -> SocketInformation]
  /\ g_requestedID \in Nat
  /\ readSet \subseteq Conns /\ writeSet \subseteq Conns
  /\ socketsIndex \in Nat /\ totalOfSockets \in Int
  /\ batch \in Seq(Packets \union {Junk})
  /\ peer \in [Conns -> {"idle", "up", "down"}]
  /\ backlog \in Seq(Conns)
  /\ inbox \in [Conns -> Seq(Packets)]
  /\ skew \in [Conns -> BOOLEAN]
  /\ toAuth \in [AuthServers -> Seq(Buffers)]
  /\ ready \in [AuthServers -> BOOLEAN]
  /\ sends \in [Conns -> Nat] /\ cuts \in Nat
  /\ ledger \in Seq([conn : Conns, op : {"CREATE_ACCOUNT_WEB", "AUTHENTICATE_WEB"}])
  /\ approved \subseteq Nat /\ strayed \subseteq AnswerIds \X Nat

\* A request id identifies its connection: no two connections wait under the
\* same one, although a connection that asks again overwrites its id and
\* connections come and go (theMain.cpp:562-564, 615-617).
UniqueRequest ==
  \A c \in Conns :
    sock[c].requestedID # 0 =>
      /\ sock[c].requestedID \in DOMAIN ledger
      /\ ledger[sock[c].requestedID].conn = c

\* An answer that waits to be sent to a connection stands under the id of a request
\* that this connection made, and is of the kind of that request unless an
\* authentication server gave it to several requests at once; only an answer under
\* the id 0, which a garbled request provokes, goes to others.
AnswerToOwner ==
  \A c \in Conns :
    LET m == sock[c].dataBuffer
    IN  (m.kind \in AnswerIds /\ m.rid # 0) =>
          /\ m.rid \in DOMAIN ledger
          /\ ledger[m.rid].conn = c
          /\ \/ m.kind \in {"AUTHENTICATE_WEB_SUCCESS", "AUTHENTICATE_WEB_FAILURE"}
                  <=> ledger[m.rid].op = "AUTHENTICATE_WEB"
             \/ <<m.kind, m.rid>> \in strayed

\* An answer to several requests that were read together may authenticate a connection
\* whose id it strays to, or that has no id.
StrayApproval(c) ==
  \E rid \in {0} \union DOMAIN ledger :
    /\ <<"AUTHENTICATE_WEB_SUCCESS", rid>> \in strayed
    /\ rid = 0 \/ ledger[rid].conn = c

\* Nobody is authenticated but by an authentication server that approved the
\* credentials this very connection sent, whatever is split, lost, garbled, or
\* answered late or twice; or that read several requests together.
AuthenticatedByAnswer ==
  \A c \in Conns :
    sock[c].isAuthenticated =>
      \/ \E rid \in approved \intersect DOMAIN ledger :
           ledger[rid].conn = c /\ ledger[rid].op = "AUTHENTICATE_WEB"
      \/ StrayApproval(c)

\* The count of ready sockets covers what the scan has still to visit: no pass
\* ends with a ready socket it has not looked at, whatever was accepted or
\* freed meanwhile, and the unsigned totalOfSockets never wraps around
\* (theMain.cpp:180, 230-240, 286, 353-368).
ReadyCounted ==
  LET due == {i \in Ahead : pc = "treat" => i # socketsIndex}
  IN  totalOfSockets >= Cardinality(due) + (IF pc = "accept" THEN 1 ELSE 0)

\* A message to send, and no read of this pass still to come that would point
\* m_dataBuffer elsewhere.
Settled(c) ==
  /\ sock[c].hasNewData /\ sock[c].dataBuffer \in Messages
  /\ \A i \in Ahead : conns[i] = c => c \in writeSet

\* Once a message is settled it stays so until it is sent: a newer message may
\* take its place, but no receive overwrites m_dataBuffer under it.  (Before,
\* it can be lost: a connection that is ready for reading may be given a
\* message earlier in the pass, theMain.cpp:241.)
SettledKept ==
  [][\A c \in Online \intersect Online' :
       Settled(c) => Settled(c)' \/ (c \in writeSet /\ ~sock'[c].hasNewData)]_vars

\* What has been armed: every connection is in one of the two sets, unless
\* all the connections wait for input and fill the read set; then it is the
\* newest one, and no other, that the server does not listen to.
OnlyNewestUnwatched ==
  \A c \in Online \ (ToRead \union ToWrite) :
    c = Last(conns) /\ Len(conns) = FDSetSize /\ ToWrite = {}

\* A message that waits to be sent is sent (or its connection is closed), unless main
\* returns.
PendingIsSent ==
  \A c \in Conns : sock[c].hasNewData ~> (~sock[c].hasNewData \/ pc = "ended")

\* Input is read, unless main returns or there is always a message to be sent first: a
\* socket with output pending is not armed for reading.
InputIsRead ==
  \A c \in Conns :
    (c \in Online /\ inbox[c] # <<>>) ~>
      (c \notin Online \/ inbox[c] = <<>> \/ sock[c].hasNewData \/ pc = "ended")

-----------------------------------------------------------------------------
\* The service the server provides, read off its state.

NoMail == [kind |-> "none"]

Service == INSTANCE ChatService WITH
  Bodies <- Texts \union {0},
  NoMail <- NoMail,
  online <- Online,
  authed <- {c \in Conns : sock[c].isAuthenticated},
  member <- {m \in Conns \X Rooms : m[2] \in sock[m[1]].rooms},
  mail <- [c \in Conns |->
             LET m == sock[c].dataBuffer
             IN  IF sock[c].hasNewData /\ m.kind = "text"
                 THEN [from |-> m.from, body |-> m.body] ELSE NoMail]

\* The server implements the service: every step of its loop, of a peer or of
\* the network is one of the service's steps or changes nothing it shows.
ImplementsService == Service!Spec

=============================================================================
