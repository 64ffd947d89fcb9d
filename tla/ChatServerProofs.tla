--------------------------- MODULE ChatServerProofs ---------------------------
(***************************************************************************)
(* Proofs about ChatServer, for every number of clients, authentication    *)
(* servers and rooms, every length of texts and credentials, and every     *)
(* bound of the model.                                                     *)
(***************************************************************************)
EXTENDS ChatServer, SequenceTheorems, FiniteSetTheorems, TLAPS

\* Where the thread is agrees with what it works on.
PhaseOK ==
  /\ pc = "accept" => backlog # <<>>
  /\ pc = "treat" => batch # <<>> /\ socketsIndex \in DOMAIN conns
  /\ pc # "treat" => batch = <<>>

TypeInv == TypeOK /\ PhaseOK

USE DEF Conns

-----------------------------------------------------------------------------
\* Lemmas about the data of the model.

LEMMA HoldingType ==
  ASSUME NEW si \in SocketInformation, NEW m \in Buffers
  PROVE  Holding(si, m) \in SocketInformation
BY DEF Holding, SocketInformation

\* The SocketInformation that accept pushes is well typed.
LEMMA FreshType == Fresh \in SocketInformation
<1>1. NoName \in UserNames
  BY DEF UserNames
<1>2. NullBuffer \in Buffers
  BY DEF Buffers
<1> QED  BY <1>1, <1>2 DEF Fresh, SocketInformation

\* Each kind of message the builders return is a message.
LEMMA MessageTypes ==
  /\ NullBuffer \in Buffers /\ OwnBuffer \in Buffers
  /\ Refusal \in Buffers /\ Validated \in Buffers
  /\ \A r \in Rooms : Connected(r) \in Buffers /\ Disconnected(r) \in Buffers
  /\ \A n \in UserNames, b \in Texts \union {0} : Text(n, b) \in Buffers
  /\ \A id \in AnswerIds, rid \in Nat : Informed(id, rid) \in Buffers
  /\ \A op \in {"CREATE_ACCOUNT_WEB", "AUTHENTICATE_WEB"}, rid \in Nat, cred \in Creds :
        Request(op, rid, cred) \in Buffers
BY DEF Buffers, Messages, Requests, NullBuffer, OwnBuffer, Refusal, Validated,
       Connected, Disconnected, Text, Informed, Request

\* The text a handler reads out of a packet is a text.
LEMMA ReadTextType ==
  ASSUME NEW body \in Texts
  PROVE  ReadText(body) \in Texts \union {0}
BY DEF ReadText

\* What an authentication server sends back is an answer packet.
LEMMA AnswersType ==
  ASSUME NEW ms, NEW answer \in AnswersTo(ms)
  PROVE  answer \in AnswerPackets
<1> DEFINE m == Head(ms)
<1>1. m \in Requests
  BY DEF AnswersTo
<1>2. RidOf(m) \in Nat /\ OpOf(m) \in {"CREATE_ACCOUNT_WEB", "AUTHENTICATE_WEB"}
  BY <1>1 DEF RidOf, OpOf, Requests
<1>3. StrayIds \subseteq Nat /\ \A id : Dates(id) \subseteq Nat
  BY RequestAssumption, SizeAssumption DEF Dates
<1>4. \A op : Outcomes(op) \subseteq AnswerIds
  BY DEF Outcomes, AnswerIds
<1>5. CASE answer = Answer("AUTHENTICATE_WEB_FAILURE", 0, 0)
  BY <1>5 DEF Answer, AnswerPackets, AnswerIds
<1>6. ASSUME NEW id \in Outcomes(OpOf(m)), NEW rid \in {RidOf(m)} \union StrayIds,
             NEW date \in Dates(id), answer = Answer(id, rid, date)
      PROVE  answer \in AnswerPackets
  <2>1. id \in AnswerIds /\ rid \in Nat /\ date \in Nat
    BY <1>2, <1>3, <1>4
  <2> QED  BY <1>6, <2>1 DEF Answer, AnswerPackets
<1>7. CASE ~(Len(ms) = 1 /\ Garbled(m))
  <2> DEFINE rids == {RidOf(m)} \union (IF Len(ms) = 1 THEN {} ELSE StrayIds)
  <2>1. answer \in UNION {{Answer(id, rid, date) : rid \in rids, date \in Dates(id)} :
                            id \in Outcomes(OpOf(m))}
    BY <1>1, <1>7 DEF AnswersTo
  <2>2. PICK id \in Outcomes(OpOf(m)) :
          answer \in {Answer(id, rid, date) : rid \in rids, date \in Dates(id)}
    BY <2>1
  <2>3. PICK rid \in rids, date \in Dates(id) : answer = Answer(id, rid, date)
    BY <2>2
  <2>4. rid \in {RidOf(m)} \union StrayIds
    OBVIOUS
  <2> QED  BY <2>3, <2>4, <1>6
<1> QED  BY <1>1, <1>5, <1>7 DEF AnswersTo

\* Entries of g_socketArray are connections; deleting one leaves a shorter array.
LEMMA RemoveAtType ==
  ASSUME NEW S, NEW s \in Seq(S), NEW i \in DOMAIN s
  PROVE  RemoveAt(s, i) \in Seq(S)
BY SMT DEF RemoveAt

\* readSocket treats packets that arrived, or bytes that only look like one.
LEMMA ChunksType ==
  ASSUME NEW S, NEW packets \in Seq(S), NEW n, NEW lucky
  PROVE  Chunks(packets, n, lucky) \in Seq(S \union {Junk})
BY SMT DEF Chunks

\* The fields that treatMessage reads of a packet have their types.
LEMMA PacketFields ==
  ASSUME NEW p \in Packets \union {Junk}
  PROVE  /\ p.id \in {"JOIN_ROOM", "LEAVE_ROOM"} => p.room \in Rooms
         /\ p.id = "SEND_TEXT" => p.body \in Texts
         /\ p.id \in {"CREATE_ACCOUNT", "AUTHENTICATE"} => p.cred \in Creds
         /\ p.id \in AnswerIds => p.rid \in Nat
BY DEF Packets, ClientPackets, ValidatePackets, AnswerPackets, AnswerIds, Junk

-----------------------------------------------------------------------------
\* Type correctness.

LEMMA InitType == Init => TypeInv
<1> SUFFICES ASSUME Init PROVE TypeInv
  OBVIOUS
<1>1. sock \in [Conns -> SocketInformation]
  BY FreshType DEF Init
<1>2. sends \in [Conns -> Nat] /\ cuts \in Nat
  BY SizeAssumption DEF Init
<1> QED  BY <1>1, <1>2 DEF Init, TypeInv, TypeOK, PhaseOK

\* What the treatment of any message leaves behind.
LEMMA DeliverType ==
  ASSUME TypeInv, pc = "treat",
         NEW info \in [Conns -> SocketInformation], NEW to, NEW m \in Buffers,
         Deliver(info, to, m),
         g_requestedID' \in Nat,
         ledger' \in Seq([conn : Conns, op : {"CREATE_ACCOUNT_WEB", "AUTHENTICATE_WEB"}])
  PROVE  TypeInv'
<1> DEFINE rest == IF Sa \in to THEN <<>> ELSE Tail(batch)
<1>1. batch' = rest /\ rest \in Seq(Packets \union {Junk})
  BY DEF TypeInv, TypeOK, PhaseOK, Deliver
<1>2. sock' \in [Conns -> SocketInformation]
  BY HoldingType DEF Deliver
<1>3. /\ pc' = IF rest = <<>> THEN "scan" ELSE "treat"
      /\ socketsIndex' = IF rest = <<>> THEN socketsIndex + 1 ELSE socketsIndex
      /\ UNCHANGED <<conns, readSet, writeSet, totalOfSockets, peerVars, approved, strayed>>
  BY DEF Deliver
<1>4. PhaseOK'
  BY <1>1, <1>3 DEF TypeInv, PhaseOK, peerVars
<1>5. TypeOK'
  BY <1>1, <1>2, <1>3, SMTT(20) DEF TypeInv, TypeOK, peerVars
<1> QED  BY <1>4, <1>5 DEF TypeInv

\* While a receive is treated, Sa is a connection still in g_socketArray and the
\* next message of the batch is there.
LEMMA SaType ==
  ASSUME TypeInv, pc = "treat"
  PROVE  /\ Sa \in Conns
         /\ Head(batch) \in Packets \union {Junk}
         /\ Sa \in Online
BY DEF TypeInv, TypeOK, PhaseOK, Sa, Online, ToSet

\* A change to a connection's other fields is none to the message it holds.
SameMessage(si, other) ==
  other.dataBuffer = si.dataBuffer /\ other.hasNewData = si.hasNewData

\* What treatMessage does to the connections: one message, at most, goes to
\* some of them, and nothing else touches the messages they hold.
Delivered(info, to, m) ==
  /\ Deliver(info, to, m)
  /\ to = {} \/ m \in Messages
  /\ \A c \in Conns : SameMessage(sock[c], info[c])
  /\ g_requestedID' \in Nat
  /\ ledger' \in Seq([conn : Conns, op : {"CREATE_ACCOUNT_WEB", "AUTHENTICATE_WEB"}])

TreatDelivered ==
  \E info \in [Conns -> SocketInformation], to \in SUBSET Online, m \in Buffers :
    Delivered(info, to, m)

\* Every case of treatMessage, and everything it calls, hands over one message.
LEMMA TreatDelivers ==
  ASSUME TypeInv, TreatMessage
  PROVE  TreatDelivered
<1> USE SaType, MessageTypes
<1>0. pc = "treat" /\ Sa \in Conns /\ Sa \in Online /\ Head(batch) \in Packets \union {Junk}
  BY DEF TreatMessage, Treating, TreatJunk, TreatJoinRoom, TreatLeaveRoom, TreatSendText,
         TreatCreateAccount, TreatAuthenticate, TreatValidateServer, TreatCreateSuccess,
         TreatCreateFailure, TreatAuthSuccess, TreatAuthFailure
<1> DEFINE p == Head(batch)
<1>a. /\ sock \in [Conns -> SocketInformation]
      /\ g_requestedID \in Nat
      /\ ledger \in Seq([conn : Conns, op : {"CREATE_ACCOUNT_WEB", "AUTHENTICATE_WEB"}])
  BY DEF TypeInv, TypeOK
<1>b. ASSUME NEW info \in [Conns -> SocketInformation], NEW to \in SUBSET Online,
             NEW m \in Buffers, Deliver(info, to, m), to = {} \/ m \in Messages,
             \A c \in Conns : SameMessage(sock[c], info[c]),
             UNCHANGED <<g_requestedID, ledger>>
      PROVE  TreatDelivered
  BY <1>a, <1>b DEF TreatDelivered, Delivered
<1>c. \A c \in Conns : SameMessage(sock[c], sock[c])
  BY DEF SameMessage
<1>d. ASSUME Ignore, UNCHANGED <<g_requestedID, ledger>>
      PROVE  TreatDelivered
  <2>1. Deliver(sock, {}, NullBuffer)
    BY <1>d DEF Ignore
  <2> QED  BY <2>1, <1>a, <1>b, <1>c, <1>d
<1>1. CASE TreatJunk
  BY <1>1, <1>d DEF TreatJunk
<1>2. CASE TreatJoinRoom
  <2> DEFINE joined == [sock EXCEPT ![Sa].rooms = @ \union {p.room},
                                    ![Sa].userName = NameOf[Sa]]
  <2>1. p.room \in Rooms
    BY <1>0, <1>2, PacketFields DEF TreatJoinRoom, Treating
  <2>2. joined \in [Conns -> SocketInformation]
    BY <1>0, <1>a, <2>1, ZenonT(40) DEF SocketInformation, UserNames
  <2>3. \A c \in Conns : SameMessage(sock[c], joined[c])
    BY <1>0, <1>a DEF SocketInformation, SameMessage
  <2>4. \/ Deliver(joined, InRoom(joined, p.room), Connected(p.room))
        \/ Deliver(sock, {Sa}, Refusal)
    BY <1>2 DEF TreatJoinRoom
  <2>5. InRoom(joined, p.room) \subseteq Online
    BY DEF InRoom
  <2>6. Connected(p.room) \in Messages /\ Refusal \in Messages
    BY <2>1 DEF Messages, Connected
  <2> HIDE DEF joined
  <2>7. CASE Deliver(joined, InRoom(joined, p.room), Connected(p.room))
    BY <1>b, <1>2, <2>1, <2>2, <2>3, <2>5, <2>6, <2>7 DEF TreatJoinRoom
  <2>8. CASE Deliver(sock, {Sa}, Refusal)
    BY <1>0, <1>a, <1>b, <1>c, <1>2, <2>6, <2>8 DEF TreatJoinRoom
  <2> QED  BY <2>4, <2>7, <2>8
<1>3. CASE TreatLeaveRoom
  <2> DEFINE left == [sock EXCEPT ![Sa].rooms =
                        IF p.room \in @ THEN (@ \ {p.room}) \union {Erased} ELSE @]
  <2>1. p.room \in Rooms
    BY <1>0, <1>3, PacketFields DEF TreatLeaveRoom, Treating
  <2>2. left \in [Conns -> SocketInformation]
    BY <1>0, <1>a, <2>1 DEF SocketInformation
  <2>3. \A c \in Conns : SameMessage(sock[c], left[c])
    BY <1>0, <1>a DEF SocketInformation, SameMessage
  <2>4. Deliver(left, InRoom(left, p.room), Disconnected(p.room))
    BY <1>3 DEF TreatLeaveRoom
  <2>5. InRoom(left, p.room) \subseteq Online
    BY DEF InRoom
  <2>6. Disconnected(p.room) \in Messages
    BY <2>1 DEF Messages, Disconnected
  <2> HIDE DEF left
  <2> QED
    BY <1>b, <1>3, <2>1, <2>2, <2>3, <2>4, <2>5, <2>6 DEF TreatLeaveRoom
<1>4. CASE TreatSendText
  <2>1. p.body \in Texts
    BY <1>0, <1>4, PacketFields DEF TreatSendText, Treating
  <2> DEFINE m == Text(sock[Sa].userName, ReadText(p.body))
  <2>2. m \in Messages
    BY <1>0, <1>a, <2>1, ReadTextType DEF SocketInformation, Messages, Text
  <2>3. Deliver(sock, Sharing(Sa), m)
    BY <1>4 DEF TreatSendText
  <2>4. Sharing(Sa) \subseteq Online
    BY DEF Sharing
  <2> HIDE DEF m
  <2> QED
    BY <1>a, <1>b, <1>c, <1>4, <2>2, <2>3, <2>4 DEF TreatSendText, Buffers
<1>5. ASSUME NEW op \in {"CREATE_ACCOUNT_WEB", "AUTHENTICATE_WEB"}, Forward(op),
             p.cred \in Creds
      PROVE  TreatDelivered
  <2> DEFINE rid == NextId(op)
             servers == {c \in Online : sock[c].isAuthServer}
             m == Request(op, rid, p.cred)
  <2>1. rid \in Nat /\ g_requestedID' = rid
    BY <1>5, <1>a DEF Forward, NextId
  <2>2. ledger' \in Seq([conn : Conns, op : {"CREATE_ACCOUNT_WEB", "AUTHENTICATE_WEB"}])
    BY <1>5, <1>0, <1>a DEF Forward
  <2>3. Asked(Sa, rid) \in [Conns -> SocketInformation]
    BY <1>0, <1>a, <2>1 DEF Asked, SocketInformation
  <2>4. m \in Messages
    BY <1>5, <2>1 DEF Messages, Requests, Request
  <2>5. Deliver(Asked(Sa, rid), servers, m)
    BY <1>5 DEF Forward
  <2>6. \A c \in Conns : SameMessage(sock[c], Asked(Sa, rid)[c])
    BY <1>0, <1>a DEF SocketInformation, SameMessage, Asked
  <2>7. servers \in SUBSET Online /\ m \in Buffers
    BY <2>4 DEF Buffers
  <2> HIDE DEF servers, m, rid
  <2>8. Delivered(Asked(Sa, rid), servers, m)
    BY <2>1, <2>2, <2>4, <2>5, <2>6 DEF Delivered
  <2> QED  BY <2>3, <2>7, <2>8 DEF TreatDelivered
<1>6. CASE TreatCreateAccount
  BY <1>0, <1>5, <1>6, PacketFields DEF TreatCreateAccount, Treating
<1>7. CASE TreatAuthenticate
  BY <1>0, <1>5, <1>7, PacketFields DEF TreatAuthenticate, Treating
<1>8. CASE TreatValidateServer
  <2> DEFINE validated == [sock EXCEPT ![Sa].isAuthServer = TRUE, ![Sa].userName = NameOf[Sa]]
  <2>1. validated \in [Conns -> SocketInformation]
    BY <1>0, <1>a, ZenonT(40) DEF SocketInformation, UserNames
  <2>2. Deliver(validated, {Sa}, Validated) \/ Ignore
    BY <1>8 DEF TreatValidateServer
  <2>3. UNCHANGED <<g_requestedID, ledger>>
    BY <1>8 DEF TreatValidateServer
  <2>4. \A c \in Conns : SameMessage(sock[c], validated[c])
    BY <1>0, <1>a DEF SocketInformation, SameMessage
  <2> HIDE DEF validated
  <2>5. CASE Deliver(validated, {Sa}, Validated)
    BY <1>0, <1>b, <2>1, <2>3, <2>4, <2>5 DEF Messages
  <2> QED  BY <1>d, <2>2, <2>3, <2>5
<1>9. ASSUME NEW id \in AnswerIds, NEW info \in [Conns -> SocketInformation],
             \A c \in Conns : SameMessage(sock[c], info[c]),
             Treating(id), Inform(id, info)
      PROVE  TreatDelivered
  <2>1. p.rid \in Nat
    BY <1>0, <1>9, PacketFields DEF Treating
  <2>2. Informed(id, p.rid) \in Messages
    BY <1>9, <2>1 DEF Messages, Informed
  <2>3. UNCHANGED <<g_requestedID, ledger>>
    BY <1>9 DEF Inform
  <2>4. Deliver(info, Asking(p.rid), Informed(id, p.rid)) \/ Ignore
    BY <1>9 DEF Inform
  <2>5. Asking(p.rid) \subseteq Online
    BY DEF Asking
  <2>6. CASE Deliver(info, Asking(p.rid), Informed(id, p.rid))
    BY <1>b, <1>9, <2>2, <2>3, <2>5, <2>6 DEF Buffers
  <2> QED  BY <1>d, <2>3, <2>4, <2>6
<1>10. CASE TreatCreateSuccess
  BY <1>9, <1>10, <1>a, <1>c DEF TreatCreateSuccess, AnswerIds
<1>11. CASE TreatCreateFailure
  BY <1>9, <1>11, <1>a, <1>c DEF TreatCreateFailure, AnswerIds
<1>12. CASE TreatAuthSuccess
  <2>1. Authenticated(Asking(p.rid)) \in [Conns -> SocketInformation]
    BY <1>a DEF Authenticated, SocketInformation
  <2>2. \A c \in Conns : SameMessage(sock[c], Authenticated(Asking(p.rid))[c])
    BY <1>a DEF Authenticated, SocketInformation, SameMessage
  <2> QED  BY <1>9, <1>12, <2>1, <2>2 DEF TreatAuthSuccess, AnswerIds
<1>13. CASE TreatAuthFailure
  BY <1>9, <1>13, <1>a, <1>c DEF TreatAuthFailure, AnswerIds
<1> QED
  BY <1>1, <1>2, <1>3, <1>4, <1>6, <1>7, <1>8, <1>10, <1>11, <1>12, <1>13
  DEF TreatMessage

\* treatMessage and everything it calls keep the types.
LEMMA TreatType ==
  ASSUME TypeInv, TreatMessage
  PROVE  TypeInv'
<1>1. pc = "treat"
  BY DEF TreatMessage, Treating, TreatJunk, TreatJoinRoom, TreatLeaveRoom, TreatSendText,
         TreatCreateAccount, TreatAuthenticate, TreatValidateServer, TreatCreateSuccess,
         TreatCreateFailure, TreatAuthSuccess, TreatAuthFailure
<1>2. PICK info \in [Conns -> SocketInformation], to \in SUBSET Online, m \in Buffers :
        Delivered(info, to, m)
  BY TreatDelivers DEF TreatDelivered
<1> QED  BY <1>1, <1>2, DeliverType DEF Delivered

\* select and the FD_SET loop before it keep the types.
LEMMA SelectType ==
  ASSUME TypeInv, Select
  PROVE  TypeInv'
<1>1. PICK R \in MayRead, W \in MayWrite, l \in MayAccept : SelectReady(R, W, l)
  BY DEF Select
<1>2. R \subseteq Conns /\ W \subseteq Conns /\ l \in BOOLEAN /\ (l => backlog # <<>>)
  <2>1. Online \subseteq Conns
    BY DEF TypeInv, TypeOK, Online, ToSet
  <2>2. ToRead \subseteq Online /\ ToWrite \subseteq Online
    BY DEF ToRead, FirstReaders, ToWrite, Online, ToSet
  <2> QED  BY <2>1, <2>2 DEF MayRead, MayWrite, MayAccept
<1>3. IsFiniteSet(R) /\ IsFiniteSet(W)
  BY <1>2, ConnAssumption, FS_Subset
<1>4. Found(R, W, l) \in Nat
  BY <1>3, FS_CardinalityType DEF Found
<1>5. batch = <<>>
  BY DEF TypeInv, PhaseOK, Select, PassOver
<1> QED
  BY <1>1, <1>2, <1>4, <1>5 DEF SelectReady, TypeInv, TypeOK, PhaseOK, peerVars

\* accept and the AddSocketInfo after it keep the types.
LEMMA AcceptType ==
  ASSUME TypeInv, Accept \/ AcceptNothing
  PROVE  TypeInv'
<1>1. backlog # <<>> /\ Head(backlog) \in Conns /\ Tail(backlog) \in Seq(Conns)
  BY DEF TypeInv, TypeOK, PhaseOK, Accept, AcceptNothing
<1>2. CASE Accept
  BY <1>1, <1>2, FreshType DEF Accept, TypeInv, TypeOK, PhaseOK
<1>3. CASE AcceptNothing
  BY <1>1, <1>3 DEF AcceptNothing, TypeInv, TypeOK, PhaseOK
<1> QED  BY <1>2, <1>3

\* What a visit of the scan can rely on.
LEMMA VisitType ==
  ASSUME TypeInv, NEW i \in DOMAIN conns, Visit(i)
  PROVE  /\ pc = "scan" /\ batch = <<>>
         /\ i \in Nat /\ conns[i] \in Conns
         /\ totalOfSockets - 1 \in Int
BY DEF TypeInv, TypeOK, PhaseOK, Visit

\* WSARecv into the connection's only buffer leaves a well-typed entry.
LEMMA ReadIntoType ==
  ASSUME TypeInv, NEW c \in Conns, ReadInto(c)
  PROVE  sock' \in [Conns -> SocketInformation]
<1>1. OwnBuffer \in Buffers
  BY MessageTypes
<1>2. sock \in [Conns -> SocketInformation]
  BY DEF TypeInv, TypeOK
<1>3. [sock[c] EXCEPT !.dataBuffer = OwnBuffer] \in SocketInformation
  BY <1>1, <1>2 DEF SocketInformation
<1> QED  BY <1>2, <1>3 DEF ReadInto

\* The recv branch of the main loop keeps the types.
LEMMA RecvType ==
  ASSUME TypeInv, NEW i \in DOMAIN conns, Recv(i)
  PROVE  TypeInv'
<1> DEFINE c == conns[i]
<1>1. PICK k \in 0..Len(inbox[c]), lucky \in BOOLEAN : \E extra \in Extras(c, k) :
        RecvData(i, k, extra, lucky)
  BY DEF Recv
<1>2. PICK extra \in Extras(c, k) : RecvData(i, k, extra, lucky)
  BY <1>1
<1> DEFINE m == IF extra > 0 THEN k + 1 ELSE k
           n == TotalLength(LengthsOf(SubSeq(inbox[c], 1, k))) + extra
<1>3. Visit(i) /\ ReadInto(c)
  BY <1>2 DEF RecvData
<1>4. /\ pc = "scan" /\ batch = <<>> /\ i \in Nat /\ c \in Conns
      /\ totalOfSockets - 1 \in Int
  BY <1>3, VisitType
<1>5. sock' \in [Conns -> SocketInformation]
  BY <1>3, <1>4, ReadIntoType
<1>6. inbox[c] \in Seq(Packets) /\ m \in 0..Len(inbox[c])
  <2>1. inbox[c] \in Seq(Packets)
    BY <1>4 DEF TypeInv, TypeOK
  <2>2. m <= Len(inbox[c])
    BY <1>2 DEF RecvData
  <2> QED  BY <2>1, <2>2
<1>7. SubSeq(inbox[c], 1, m) \in Seq(Packets) /\ SubSeq(inbox[c], m + 1, Len(inbox[c])) \in Seq(Packets)
  BY <1>6
<1>8. /\ batch' = IF skew[c] THEN <<>> ELSE Chunks(SubSeq(inbox[c], 1, m), n, lucky)
      /\ inbox' = [inbox EXCEPT ![c] = SubSeq(@, m + 1, Len(@))]
      /\ skew' = [skew EXCEPT ![c] = extra > 0]
      /\ extra > 0 => cuts > 0
      /\ cuts' = IF extra > 0 THEN cuts - 1 ELSE cuts
      /\ totalOfSockets' = totalOfSockets - 1
      /\ pc' = IF batch' = <<>> THEN "scan" ELSE "treat"
      /\ socketsIndex' = IF batch' = <<>> THEN i + 1 ELSE i
      /\ UNCHANGED <<conns, g_requestedID, readSet, writeSet, peer, backlog,
                     toAuth, ready, sends, ledger, approved, strayed>>
  BY <1>2 DEF RecvData
<1>9. batch' \in Seq(Packets \union {Junk})
  <2>1. Chunks(SubSeq(inbox[c], 1, m), n, lucky) \in Seq(Packets \union {Junk})
    BY <1>7, ChunksType
  <2>2. <<>> \in Seq(Packets \union {Junk})
    OBVIOUS
  <2> QED  BY <1>8, <2>1, <2>2
<1>10. inbox' \in [Conns -> Seq(Packets)]
  BY <1>7, <1>8 DEF TypeInv, TypeOK
<1>11. skew' \in [Conns -> BOOLEAN] /\ cuts' \in Nat
  BY <1>8 DEF TypeInv, TypeOK
<1>12. socketsIndex' \in Nat /\ totalOfSockets' \in Int
  BY <1>4, <1>8
<1>13. TypeOK'
  BY <1>5, <1>8, <1>9, <1>10, <1>11, <1>12 DEF TypeInv, TypeOK
<1>14. PhaseOK'
  BY <1>8 DEF PhaseOK
<1> QED  BY <1>13, <1>14 DEF TypeInv

\* FreeSocketInformation keeps the types.
LEMMA FreeType ==
  ASSUME TypeInv, NEW i \in DOMAIN conns, Visit(i), Free(i)
  PROVE  TypeInv'
<1>1. pc = "scan" /\ batch = <<>> /\ i \in Nat /\ conns[i] \in Conns
  BY VisitType
<1>2. RemoveAt(conns, i) \in Seq(Conns)
  BY RemoveAtType DEF TypeInv, TypeOK
<1>3. /\ [sock EXCEPT ![conns[i]] = Fresh] \in [Conns -> SocketInformation]
      /\ [inbox EXCEPT ![conns[i]] = <<>>] \in [Conns -> Seq(Packets)]
      /\ [skew EXCEPT ![conns[i]] = FALSE] \in [Conns -> BOOLEAN]
  BY <1>1, FreshType DEF TypeInv, TypeOK
<1> QED
  BY <1>1, <1>2, <1>3 DEF Free, GoOn, TypeInv, TypeOK, PhaseOK

\* The send branch of the main loop keeps the types.
LEMMA SendType ==
  ASSUME TypeInv, NEW i \in DOMAIN conns, SendData(i)
  PROVE  TypeInv'
<1> DEFINE c == conns[i]
<1>1. pc = "scan" /\ batch = <<>> /\ i \in Nat /\ c \in Conns
  BY VisitType DEF SendData
<1>2. sock[c] \in SocketInformation /\ sock[c].dataBuffer \in Buffers
  BY <1>1 DEF TypeInv, TypeOK, SocketInformation
<1>3. sock' \in [Conns -> SocketInformation]
  BY <1>1, <1>2 DEF SendData, Flushed, TypeInv, TypeOK, SocketInformation
<1>4. toAuth' \in [AuthServers -> Seq(Buffers)]
  BY <1>1, <1>2 DEF SendData, TypeInv, TypeOK
<1> QED
  BY <1>1, <1>3, <1>4 DEF SendData, GoOn, TypeInv, TypeOK, PhaseOK

\* When main returns the types are kept.
LEMMA FailType ==
  ASSUME TypeInv, Fail
  PROVE  TypeInv'
BY DEF Fail, PassOver, TypeInv, TypeOK, PhaseOK, peerVars

\* Every step of the chat server keeps the types.
LEMMA ServerType ==
  ASSUME TypeInv, ServerStep
  PROVE  TypeInv'
<1>1. CASE Select \/ Accept \/ AcceptNothing
  BY <1>1, SelectType, AcceptType
<1>2. CASE TreatMessage
  BY <1>2, TreatType
<1>3. ASSUME NEW i \in DOMAIN conns, RecvWouldBlock(i)
      PROVE  TypeInv'
  <2>1. pc = "scan" /\ batch = <<>> /\ i \in Nat /\ conns[i] \in Conns
    BY <1>3, VisitType DEF RecvWouldBlock
  <2>2. sock' \in [Conns -> SocketInformation]
    BY <1>3, <2>1, ReadIntoType DEF RecvWouldBlock
  <2> QED
    BY <1>3, <2>1, <2>2 DEF RecvWouldBlock, GoOn, TypeInv, TypeOK, PhaseOK, peerVars
<1>4. ASSUME NEW i \in DOMAIN conns, SendWouldBlock(i)
      PROVE  TypeInv'
  BY <1>4, VisitType, SMTT(20) DEF SendWouldBlock, GoOn, TypeInv, TypeOK, PhaseOK, peerVars
<1>5. ASSUME NEW i \in DOMAIN conns, RecvGone(i) \/ SendGone(i)
      PROVE  TypeInv'
  BY <1>5, FreeType DEF RecvGone, SendGone
<1> QED
  BY <1>1, <1>2, <1>3, <1>4, <1>5, RecvType, SendType DEF ServerStep

\* A client that sends a command keeps the types.
LEMMA SubmitType ==
  ASSUME TypeInv, NEW c \in Conns, NEW p \in Packets, Submit(c, p)
  PROVE  TypeInv'
<1>1. Append(inbox[c], p) \in Seq(Packets)
  BY DEF TypeInv, TypeOK
<1>2. inbox' \in [Conns -> Seq(Packets)]
  BY <1>1 DEF Submit, TypeInv, TypeOK
<1>3. sends' \in [Conns -> Nat]
  BY DEF Submit, TypeInv, TypeOK
<1> QED
  BY <1>2, <1>3 DEF Submit, serverVars, TypeInv, TypeOK, PhaseOK

\* The authentication server's receive and answer keep the types.
LEMMA AuthReadType ==
  ASSUME TypeInv, NEW a \in AuthServers, NEW k \in DOMAIN toAuth[a], AuthRead(a, k)
  PROVE  TypeInv'
<1>1. toAuth[a] \in Seq(Buffers) /\ inbox[a] \in Seq(Packets)
  BY DEF TypeInv, TypeOK
<1>2. SubSeq(toAuth[a], k + 1, Len(toAuth[a])) \in Seq(Buffers)
  BY <1>1
<1>3. toAuth' \in [AuthServers -> Seq(Buffers)] /\ ready' \in [AuthServers -> BOOLEAN]
  BY <1>2 DEF AuthRead, TypeInv, TypeOK
<1> DEFINE Kept == /\ inbox' \in [Conns -> Seq(Packets)]
                   /\ approved' \subseteq Nat /\ strayed' \subseteq AnswerIds \X Nat
<1>4. Kept
  <2>1. CASE UNCHANGED <<inbox, approved, strayed>>
    BY <2>1 DEF TypeInv, TypeOK
  <2>2. ASSUME NEW answer \in AnswersTo(SubSeq(toAuth[a], 1, k)),
               inbox' = [inbox EXCEPT ![a] = Append(@, answer)],
               approved' = IF k = 1 /\ answer.id = "AUTHENTICATE_WEB_SUCCESS"
                           THEN approved \union {answer.rid} ELSE approved,
               strayed' = IF k = 1 THEN strayed
                          ELSE strayed \union {<<answer.id, answer.rid>>}
        PROVE  Kept
    <3>1. answer \in AnswerPackets
      BY AnswersType
    <3>2. answer \in Packets /\ answer.rid \in Nat /\ answer.id \in AnswerIds
      BY <3>1 DEF AnswerPackets, Packets
    <3>3. Append(inbox[a], answer) \in Seq(Packets)
      BY <1>1, <3>2
    <3>4. inbox' \in [Conns -> Seq(Packets)]
      BY <2>2, <3>3 DEF TypeInv, TypeOK
    <3>5. approved' \subseteq Nat
      BY <2>2, <3>2 DEF TypeInv, TypeOK
    <3>6. strayed' \subseteq AnswerIds \X Nat
      <4>1. <<answer.id, answer.rid>> \in AnswerIds \X Nat
        BY <3>2
      <4>2. strayed \subseteq AnswerIds \X Nat
        BY DEF TypeInv, TypeOK
      <4> QED  BY <2>2, <4>1, <4>2
    <3> QED  BY <3>4, <3>5, <3>6
  <2> QED  BY <2>1, <2>2 DEF AuthRead
<1> QED
  BY <1>3, <1>4 DEF AuthRead, serverVars, TypeInv, TypeOK, PhaseOK

\* Every step of the chat server's peers keeps the types.
LEMMA PeerType ==
  ASSUME TypeInv, PeerStep
  PROVE  TypeInv'
<1>1. ASSUME NEW c \in Conns, Connect(c)
      PROVE  TypeInv'
  <2>1. Append(backlog, c) \in Seq(Conns) /\ Append(backlog, c) # <<>>
    <3>1. backlog \in Seq(Conns)
      BY DEF TypeInv, TypeOK
    <3> QED  BY <3>1, AppendProperties
  <2>2. peer' \in [Conns -> {"idle", "up", "down"}]
    BY <1>1 DEF Connect, TypeInv, TypeOK
  <2> QED
    BY <1>1, <2>1, <2>2 DEF Connect, serverVars, TypeInv, TypeOK, PhaseOK
<1>2. ASSUME NEW c \in Conns, Disconnect(c)
      PROVE  TypeInv'
  <2>1. peer' \in [Conns -> {"idle", "up", "down"}]
    BY <1>2 DEF Disconnect, TypeInv, TypeOK
  <2> QED
    BY <1>2, <2>1 DEF Disconnect, serverVars, TypeInv, TypeOK, PhaseOK
<1>3. ASSUME NEW c \in Clients, NEW p \in ClientPackets, ClientSend(c, p)
      PROVE  TypeInv'
  BY <1>3, SubmitType DEF ClientSend, Packets
<1>4. ASSUME NEW a \in AuthServers, NEW p \in ValidatePackets, AuthValidate(a, p)
      PROVE  TypeInv'
  BY <1>4, SubmitType DEF AuthValidate, Packets
<1> QED
  BY <1>1, <1>2, <1>3, <1>4, AuthReadType DEF PeerStep

\* TypeInv is inductive: every step of the system keeps the types.
LEMMA NextType == TypeInv /\ [Next]_vars => TypeInv'
<1> SUFFICES ASSUME TypeInv, [Next]_vars PROVE TypeInv'
  OBVIOUS
<1>1. CASE UNCHANGED vars
  BY <1>1 DEF vars, serverVars, peerVars, TypeInv, TypeOK, PhaseOK
<1> QED  BY <1>1, ServerType, FailType, PeerType DEF Next

\* The server and the network around it stay within their types, whatever
\* the peers send and however the receives fall.
THEOREM TypeCorrect == Spec => []TypeOK
<1>1. TypeInv => TypeOK
  BY DEF TypeInv
<1> QED  BY <1>1, InitType, NextType, PTL DEF Spec

\* The strengthened type invariant holds in every behaviour of the server.
THEOREM TypeInvariant == Spec => []TypeInv
BY InitType, NextType, PTL DEF Spec
-----------------------------------------------------------------------------
(***************************************************************************)
(* The scan.  What the count of ready sockets rests on is that no          *)
(* connection is twice in g_socketArray, or both in it and still waiting   *)
(* to be accepted, and that select reports no connection for reading and   *)
(* for writing at once.                                                    *)
(***************************************************************************)
Waiting == ToSet(backlog)
Armed == readSet \union writeSet

ArrayOK ==
  /\ IsInjective(conns) /\ IsInjective(backlog)
  /\ Waiting \intersect (Online \union Armed) = {}
  /\ \A c \in Online \union Waiting \union Armed : peer[c] # "idle"
  /\ readSet \intersect writeSet = {}

\* freeSocketInformation takes out one entry and moves the later ones up.
LEMMA RemoveAtIs ==
  ASSUME NEW S, NEW s \in Seq(S), NEW i \in DOMAIN s
  PROVE  /\ Len(RemoveAt(s, i)) = Len(s) - 1
         /\ \A j \in 1..(Len(s) - 1) :
              (j < i => RemoveAt(s, i)[j] = s[j]) /\ (j >= i => RemoveAt(s, i)[j] = s[j + 1])
<1> DEFINE a == SubSeq(s, 1, i - 1)
           b == SubSeq(s, i + 1, Len(s))
<1>1. i \in 1..Len(s) /\ Len(s) \in Nat
  OBVIOUS
<1>2. /\ a \in Seq(S) /\ Len(a) = i - 1
      /\ \A j \in 1..(i - 1) : a[j] = s[j]
  BY <1>1
<1>3. /\ b \in Seq(S) /\ Len(b) = Len(s) - i
      /\ \A j \in 1..(Len(s) - i) : b[j] = s[i + j]
  BY <1>1
<1> HIDE DEF a, b
<1>4. /\ Len(a \o b) = Len(a) + Len(b)
      /\ \A j \in 1..(Len(a) + Len(b)) :
           (a \o b)[j] = IF j <= Len(a) THEN a[j] ELSE b[j - Len(a)]
  BY <1>2, <1>3, ConcatProperties
<1>5. ASSUME NEW j \in 1..(Len(s) - 1)
      PROVE  (j < i => (a \o b)[j] = s[j]) /\ (j >= i => (a \o b)[j] = s[j + 1])
  <2>1. j \in 1..(Len(a) + Len(b))
    BY <1>1, <1>2, <1>3
  <2>2. CASE j < i
    BY <1>1, <1>2, <1>4, <2>1, <2>2
  <2>3. CASE j >= i
    <3>1. Len(a) = i - 1
      BY <1>2
    <3>2. j - Len(a) \in 1..(Len(s) - i)
      BY <1>1, <2>3, <3>1
    <3>3. ~(j <= Len(a)) /\ i + (j - Len(a)) = j + 1
      BY <1>1, <2>3, <3>1
    <3>4. b[j - Len(a)] = s[i + (j - Len(a))]
      BY <1>3, <3>2
    <3>5. (a \o b)[j] = b[j - Len(a)]
      BY <1>4, <2>1, <3>3
    <3>6. (a \o b)[j] = s[j + 1]
      BY <3>3, <3>4, <3>5
    <3> QED  BY <1>1, <2>3, <3>6
  <2> QED  BY <2>2, <2>3
<1>6. Len(a \o b) = Len(s) - 1
  BY <1>1, <1>2, <1>3, <1>4
<1> QED  BY <1>5, <1>6 DEF RemoveAt, a, b

\* Without an entry, an array without repetitions still has none, and lacks
\* just what was there.
LEMMA FreedArray ==
  ASSUME NEW S, NEW s \in Seq(S), NEW i \in DOMAIN s, IsInjective(s)
  PROVE  /\ IsInjective(RemoveAt(s, i))
         /\ ToSet(RemoveAt(s, i)) = ToSet(s) \ {s[i]}
<1> DEFINE t == RemoveAt(s, i)
<1>1. /\ t \in Seq(S) /\ DOMAIN t = 1..(Len(s) - 1)
      /\ \A j \in DOMAIN t : (j < i => t[j] = s[j]) /\ (j >= i => t[j] = s[j + 1])
  <2>1. t \in Seq(S)
    BY RemoveAtType
  <2>2. Len(t) = Len(s) - 1
    BY RemoveAtIs
  <2>3. \A j \in 1..(Len(s) - 1) : (j < i => t[j] = s[j]) /\ (j >= i => t[j] = s[j + 1])
    BY RemoveAtIs
  <2> HIDE DEF t
  <2> QED  BY <2>1, <2>2, <2>3
<1>2. \A j \in DOMAIN t : \E k \in DOMAIN s : k # i /\ t[j] = s[k]
  BY <1>1
<1>3. \A k \in DOMAIN s : k # i => \E j \in DOMAIN t : t[j] = s[k]
  <2>1. ASSUME NEW k \in DOMAIN s, k < i PROVE \E j \in DOMAIN t : t[j] = s[k]
    BY <1>1, <2>1
  <2>2. ASSUME NEW k \in DOMAIN s, k > i PROVE \E j \in DOMAIN t : t[j] = s[k]
    <3>1. k - 1 \in DOMAIN t /\ t[k - 1] = s[(k - 1) + 1]
      BY <1>1, <2>2
    <3> QED  BY <3>1
  <2> QED  BY <2>1, <2>2
<1> HIDE DEF t
<1>4. IsInjective(t)
  <2>1. i \in 1..Len(s) /\ Len(s) \in Nat /\ DOMAIN s = 1..Len(s)
    OBVIOUS
  <2>2. ASSUME NEW j \in DOMAIN t, NEW k \in DOMAIN t, j < k
        PROVE  t[j] # t[k]
    <3>1. /\ j \in DOMAIN s /\ k \in DOMAIN s /\ j + 1 \in DOMAIN s /\ k + 1 \in DOMAIN s
          /\ j # k /\ j # k + 1 /\ j + 1 # k + 1 /\ ~(k < i /\ j >= i)
      BY <1>1, <2>1, <2>2
    <3>2. j \in Nat /\ k \in Nat /\ i \in Nat
      BY <1>1, <2>1
    <3> QED  BY <1>1, <2>2, <3>1, <3>2 DEF IsInjective
  <2>3. \A j, k \in DOMAIN t : j < k \/ k < j \/ j = k
    BY <1>1, <2>1
  <2> QED  BY <2>2, <2>3 DEF IsInjective
<1>5. ToSet(t) = ToSet(s) \ {s[i]}
  <2>1. \A x \in ToSet(t) : x \in ToSet(s) /\ x # s[i]
    BY <1>2 DEF ToSet, IsInjective
  <2>2. \A x \in ToSet(s) : x # s[i] => x \in ToSet(t)
    BY <1>3 DEF ToSet
  <2> QED  BY <2>1, <2>2
<1> QED  BY <1>4, <1>5 DEF t

\* An entry that is new keeps an array without repetitions.
LEMMA LongerArray ==
  ASSUME NEW S, NEW s \in Seq(S), NEW x \in S, IsInjective(s), x \notin ToSet(s)
  PROVE  IsInjective(Append(s, x)) /\ ToSet(Append(s, x)) = ToSet(s) \union {x}
<1>1. IsInjective(Append(s, x))
  BY DEF IsInjective, ToSet
<1>2. /\ DOMAIN Append(s, x) = 1..(Len(s) + 1) /\ DOMAIN s = 1..Len(s) /\ Len(s) \in Nat
      /\ Append(s, x)[Len(s) + 1] = x
      /\ \A j \in DOMAIN s : Append(s, x)[j] = s[j]
  BY AppendProperties
<1>3. /\ \A j \in DOMAIN Append(s, x) : j \in DOMAIN s \/ j = Len(s) + 1
      /\ \A j \in DOMAIN s : j \in DOMAIN Append(s, x)
      /\ Len(s) + 1 \in DOMAIN Append(s, x)
  BY <1>2
<1>4. ToSet(Append(s, x)) = ToSet(s) \union {x}
  BY <1>2, <1>3 DEF ToSet
<1> QED  BY <1>1, <1>4

\* So does taking away the first, which is then no longer there.
LEMMA ShorterArray ==
  ASSUME NEW S, NEW s \in Seq(S), s # <<>>, IsInjective(s)
  PROVE  /\ IsInjective(Tail(s)) /\ ToSet(Tail(s)) = ToSet(s) \ {Head(s)}
         /\ Head(s) \in ToSet(s)
<1>1. /\ DOMAIN Tail(s) = 1..(Len(s) - 1) /\ 1 \in DOMAIN s /\ Head(s) = s[1]
      /\ \A j \in DOMAIN Tail(s) : Tail(s)[j] = s[j + 1] /\ j + 1 \in DOMAIN s /\ j + 1 # 1
  OBVIOUS
<1>2. IsInjective(Tail(s))
  BY <1>1 DEF IsInjective
<1>3. \A k \in DOMAIN s : k # 1 => k - 1 \in DOMAIN Tail(s) /\ Tail(s)[k - 1] = s[k]
  BY <1>1
<1>4. ToSet(Tail(s)) \subseteq ToSet(s) \ {Head(s)}
  BY <1>1 DEF IsInjective, ToSet
<1>5. ToSet(s) \ {Head(s)} \subseteq ToSet(Tail(s))
  <2> SUFFICES ASSUME NEW k \in DOMAIN s, s[k] # Head(s)
               PROVE  s[k] \in ToSet(Tail(s))
    BY DEF ToSet
  <2>1. k # 1
    BY <1>1
  <2> QED  BY <1>3, <2>1 DEF ToSet
<1> QED  BY <1>1, <1>2, <1>4, <1>5 DEF ToSet

\* What a step does to the array, to the queue before it, and to what select
\* reported: nothing at all,
ArrayKept ==
  /\ UNCHANGED <<conns, backlog, readSet, writeSet>>
  /\ \A c \in Conns : peer[c] # "idle" => peer'[c] # "idle"

\* It is the treatment of a message, or a visit that frees nothing, that does
\* nothing to it.
LEMMA VisitKeepsArray ==
  ASSUME TypeInv, NEW i \in DOMAIN conns,
         Recv(i) \/ RecvWouldBlock(i) \/ SendData(i) \/ SendWouldBlock(i)
  PROVE  ArrayKept
BY DEF Recv, RecvData, RecvWouldBlock, SendData, SendWouldBlock, ArrayKept, peerVars

\* The treatment of a message leaves the array and what select reported alone.
LEMMA TreatKeepsArray ==
  ASSUME TypeInv, TreatMessage
  PROVE  ArrayKept
<1>1. PICK info \in [Conns -> SocketInformation], to \in SUBSET Online, m \in Buffers :
        Delivered(info, to, m)
  BY TreatDelivers DEF TreatDelivered
<1> QED  BY <1>1 DEF Delivered, Deliver, ArrayKept, peerVars

\* A peer's step leaves them alone too, unless it connects.
LEMMA PeerKeepsArray ==
  ASSUME TypeInv, PeerStep
  PROVE  ArrayKept \/ \E c \in Conns : Connect(c)
<1>1. ASSUME NEW c \in Conns, Disconnect(c)
      PROVE  ArrayKept
  <2>1. peer' = [peer EXCEPT ![c] = "down"] /\ peer \in [Conns -> {"idle", "up", "down"}]
    BY <1>1 DEF Disconnect, TypeInv, TypeOK
  <2> QED  BY <1>1, <2>1 DEF Disconnect, ArrayKept, serverVars
<1>2. ASSUME NEW c, NEW p, Submit(c, p)
      PROVE  ArrayKept
  BY <1>2 DEF Submit, ArrayKept, serverVars
<1>3. ASSUME NEW a \in AuthServers, NEW k \in DOMAIN toAuth[a], AuthRead(a, k)
      PROVE  ArrayKept
  BY <1>3 DEF AuthRead, ArrayKept, serverVars
<1> QED  BY <1>1, <1>2, <1>3 DEF PeerStep, ClientSend, AuthValidate

\* Whom select may report.
LEMMA SelectReports ==
  ASSUME TypeInv, NEW R \in MayRead, NEW W \in MayWrite
  PROVE  /\ R \subseteq ToRead /\ W \subseteq ToWrite
         /\ R \subseteq Online /\ W \subseteq Online /\ Online \subseteq Conns
         /\ \A c \in R : ~sock[c].hasNewData
         /\ \A c \in W : sock[c].hasNewData
         /\ R \intersect W = {}
<1>1. R \subseteq ToRead /\ W \subseteq ToWrite
  BY DEF MayRead, MayWrite
<1>2. \A c \in ToRead : c \in Online /\ ~sock[c].hasNewData
  BY DEF ToRead, FirstReaders, Online, ToSet
<1>3. \A c \in ToWrite : c \in Online /\ sock[c].hasNewData
  BY DEF ToWrite
<1>4. Online \subseteq Conns
  BY DEF TypeInv, TypeOK, Online, ToSet
<1> QED  BY <1>1, <1>2, <1>3, <1>4

\* The invariant is inductive: the array and the queue are empty at first.
LEMMA InitArray == Init => ArrayOK
BY DEF Init, ArrayOK, IsInjective, Online, Waiting, Armed, ToSet

\* A step that leaves the array alone keeps the invariant.
LEMMA ArrayKeptOK ==
  ASSUME TypeInv, ArrayOK, ArrayKept
  PROVE  ArrayOK'
<1>1. Online \union Waiting \union Armed \subseteq Conns
  BY DEF TypeInv, TypeOK, Online, Waiting, Armed, ToSet
<1>2. Online' = Online /\ Waiting' = Waiting /\ Armed' = Armed
  BY DEF ArrayKept, Online, Waiting, Armed
<1> QED  BY <1>1, <1>2 DEF ArrayOK, ArrayKept

\* A peer that connects is neither in the array nor in the queue yet.
LEMMA ConnectArray ==
  ASSUME TypeInv, ArrayOK, NEW c \in Conns, Connect(c)
  PROVE  ArrayOK'
<1>1. /\ peer[c] = "idle" /\ peer' = [peer EXCEPT ![c] = "up"]
      /\ backlog' = Append(backlog, c)
      /\ UNCHANGED <<conns, readSet, writeSet>>
  BY DEF Connect, serverVars
<1>2. backlog \in Seq(Conns) /\ peer \in [Conns -> {"idle", "up", "down"}]
  BY DEF TypeInv, TypeOK
<1>3. c \notin Online \union Waiting \union Armed
  BY <1>1 DEF ArrayOK
<1>4. IsInjective(backlog') /\ Waiting' = Waiting \union {c}
  BY <1>1, <1>2, <1>3, LongerArray DEF ArrayOK, Waiting
<1>5. Online' = Online /\ Armed' = Armed
  BY <1>1 DEF Online, Armed
<1>6. Online \union Waiting \union Armed \subseteq Conns
  BY DEF TypeInv, TypeOK, Online, Waiting, Armed, ToSet
<1>7. \A d \in Online' \union Waiting' \union Armed' : peer'[d] # "idle"
  BY <1>1, <1>2, <1>4, <1>5, <1>6 DEF ArrayOK
<1>8. IsInjective(conns') /\ readSet' \intersect writeSet' = {}
  BY <1>1 DEF ArrayOK
<1>9. Waiting' \intersect (Online' \union Armed') = {}
  BY <1>3, <1>4, <1>5 DEF ArrayOK
<1> QED  BY <1>4, <1>7, <1>8, <1>9 DEF ArrayOK

\* select reports connections of the array, none of them twice.
LEMMA SelectArray ==
  ASSUME TypeInv, ArrayOK, Select
  PROVE  ArrayOK'
<1>1. PICK R \in MayRead, W \in MayWrite, l \in MayAccept : SelectReady(R, W, l)
  BY DEF Select
<1>2. R \subseteq Online /\ W \subseteq Online /\ R \intersect W = {}
  BY SelectReports
<1>3. readSet' = R /\ writeSet' = W /\ UNCHANGED <<conns, backlog, peer>>
  BY <1>1 DEF SelectReady, peerVars
<1>4. Online' = Online /\ Waiting' = Waiting /\ Armed' \subseteq Online
  BY <1>2, <1>3 DEF Online, Waiting, Armed
<1> QED  BY <1>2, <1>3, <1>4 DEF ArrayOK

\* accept moves a connection from the queue to the array.
LEMMA AcceptArray ==
  ASSUME TypeInv, ArrayOK, Accept \/ AcceptNothing
  PROVE  ArrayOK'
<1> DEFINE c == Head(backlog)
<1>1. backlog \in Seq(Conns) /\ backlog # <<>> /\ c \in Conns /\ conns \in Seq(Conns)
  BY DEF TypeInv, TypeOK, PhaseOK, Accept, AcceptNothing
<1>2. backlog' = Tail(backlog) /\ UNCHANGED <<readSet, writeSet, peer>>
  BY DEF Accept, AcceptNothing
<1>3. IsInjective(backlog') /\ Waiting' = Waiting \ {c} /\ c \in Waiting
  BY <1>1, <1>2, ShorterArray DEF ArrayOK, Waiting
<1>4. IsInjective(conns') /\ Online' \subseteq Online \union {c}
  <2>1. CASE Accept
    <3>1. conns' = Append(conns, c)
      BY <2>1 DEF Accept
    <3>2. IsInjective(conns) /\ c \notin ToSet(conns)
      BY <1>3 DEF ArrayOK, Online
    <3> HIDE DEF c
    <3>3. IsInjective(Append(conns, c)) /\ ToSet(Append(conns, c)) = ToSet(conns) \union {c}
      BY <1>1, <3>2, LongerArray
    <3> QED  BY <3>1, <3>3 DEF Online
  <2>2. CASE AcceptNothing
    BY <2>2 DEF AcceptNothing, ArrayOK, Online
  <2> QED  BY <2>1, <2>2
<1>5. Armed' = Armed
  BY <1>2 DEF Armed
<1> QED  BY <1>2, <1>3, <1>4, <1>5 DEF ArrayOK

\* freeSocketInformation takes out just one connection.
LEMMA FreeArray ==
  ASSUME TypeInv, ArrayOK, NEW i \in DOMAIN conns, Free(i)
  PROVE  ArrayOK' /\ Online' = Online \ {conns[i]}
<1>1. /\ conns' = RemoveAt(conns, i)
      /\ UNCHANGED <<readSet, writeSet, peer, backlog>>
  BY DEF Free
<1>2. IsInjective(conns') /\ Online' = Online \ {conns[i]}
  BY <1>1, FreedArray DEF ArrayOK, Online, TypeInv, TypeOK
<1>3. Armed' = Armed /\ Waiting' = Waiting
  BY <1>1 DEF Armed, Waiting
<1> QED  BY <1>1, <1>2, <1>3 DEF ArrayOK

\* No connection is ever twice in the array, whatever step is taken.
LEMMA NextArray == TypeInv /\ ArrayOK /\ [Next]_vars => ArrayOK'
<1> SUFFICES ASSUME TypeInv, ArrayOK, [Next]_vars PROVE ArrayOK'
  OBVIOUS
<1>1. CASE UNCHANGED vars
  <2>1. ArrayKept
    BY <1>1 DEF vars, serverVars, peerVars, ArrayKept
  <2> QED  BY <2>1, ArrayKeptOK
<1>2. CASE ServerStep
  BY <1>2, SelectArray, AcceptArray, FreeArray, VisitKeepsArray, TreatKeepsArray, ArrayKeptOK
  DEF ServerStep, RecvGone, SendGone
<1>3. CASE PeerStep
  BY <1>3, PeerKeepsArray, ArrayKeptOK, ConnectArray
<1>4. CASE Fail
  <2>1. ArrayKept
    BY <1>4 DEF Fail, peerVars, ArrayKept
  <2> QED  BY <2>1, ArrayKeptOK
<1> QED  BY <1>1, <1>2, <1>3, <1>4 DEF Next

-----------------------------------------------------------------------------
\* The count of ready sockets.

\* The ready sockets from a position on, and those the scan has still to
\* visit: while a receive is treated its own socket has been.
ReadyFrom(n) == {i \in n..Len(conns) : conns[i] \in Armed}

Due == ReadyFrom(IF pc = "treat" THEN socketsIndex + 1 ELSE socketsIndex)

CountOK ==
  /\ socketsIndex >= 1
  /\ totalOfSockets >= Cardinality(Due) + (IF pc = "accept" THEN 1 ELSE 0)

\* What is due is what ReadyCounted counts.
LEMMA DueIs ==
  ASSUME TypeInv
  PROVE  /\ Due = {i \in Ahead : pc = "treat" => i # socketsIndex}
         /\ Ahead = ReadyFrom(socketsIndex)
BY DEF TypeInv, TypeOK, Due, Ahead, ReadyFrom, Armed

\* Positions in an array are finitely many.
LEMMA ReadyFinite ==
  ASSUME TypeInv, NEW n \in Nat
  PROVE  IsFiniteSet(ReadyFrom(n)) /\ Cardinality(ReadyFrom(n)) \in Nat
<1>1. Len(conns) \in Nat
  BY DEF TypeInv, TypeOK
<1>2. IsFiniteSet(n..Len(conns))
  BY <1>1, FS_Interval
<1>3. ReadyFrom(n) \in SUBSET (n..Len(conns))
  BY DEF ReadyFrom
<1>4. IsFiniteSet(ReadyFrom(n))
  BY <1>2, <1>3, FS_Subset
<1> QED  BY <1>4, FS_CardinalityType

\* What a visit leaves to be visited.
LEMMA VisitLeaves ==
  ASSUME TypeInv, NEW i \in DOMAIN conns, Visit(i)
  PROVE  /\ i \in Nat /\ ReadyFrom(i + 1) = Due \ {i}
         /\ Cardinality(ReadyFrom(i + 1)) = Cardinality(Due) - 1
<1>1. /\ pc = "scan" /\ i \in Ahead /\ \A j \in Ahead : i <= j
      /\ socketsIndex \in Nat /\ Len(conns) \in Nat
  BY DEF Visit, TypeInv, TypeOK
<1>2. i \in Nat /\ i >= socketsIndex
  BY <1>1 DEF Ahead
<1>3. Due = ReadyFrom(socketsIndex) /\ Ahead = Due /\ i \in Due
  BY <1>1, DueIs DEF Due
<1>4. ReadyFrom(i + 1) = Due \ {i}
  BY <1>1, <1>2, <1>3 DEF ReadyFrom
<1>5. Cardinality(Due \ {i}) = Cardinality(Due) - 1
  BY <1>1, <1>3, ReadyFinite, FS_RemoveElement
<1> QED  BY <1>2, <1>4, <1>5

\* select counts every socket it reports, and each is in the array once.
LEMMA SelectCounts ==
  ASSUME TypeInv, ArrayOK, Select
  PROVE  CountOK'
<1>1. PICK R \in MayRead, W \in MayWrite, l \in MayAccept : SelectReady(R, W, l)
  BY DEF Select
<1>2. R \subseteq Conns /\ W \subseteq Conns
  BY SelectReports
<1>3. IsFiniteSet(R) /\ IsFiniteSet(W)
  BY <1>2, ConnAssumption, FS_Subset
<1>4. /\ IsFiniteSet(R \union W)
      /\ Cardinality(R) \in Nat /\ Cardinality(W) \in Nat /\ Cardinality(R \intersect W) \in Nat
      /\ Cardinality(R \union W) = Cardinality(R) + Cardinality(W) - Cardinality(R \intersect W)
  <2>1. IsFiniteSet(R \intersect W)
    BY <1>3, FS_Subset
  <2> QED  BY <1>3, <2>1, FS_Union, FS_CardinalityType
<1>5. /\ readSet' = R /\ writeSet' = W /\ conns' = conns /\ socketsIndex' = 1
      /\ totalOfSockets' = Found(R, W, l)
      /\ pc' = IF l THEN "accept" ELSE "scan"
  BY <1>1 DEF SelectReady
<1>6. l \in BOOLEAN
  BY DEF MayAccept
<1> DEFINE due == {i \in 1..Len(conns) : conns[i] \in R \union W}
           f == [i \in due |-> conns[i]]
<1>7. Due' = due
  BY <1>5, <1>6 DEF Due, ReadyFrom, Armed
<1>8. f \in Injection(due, R \union W)
  BY DEF ArrayOK, IsInjective, Injection, TypeInv, TypeOK
<1> HIDE DEF due, f
<1>9. IsFiniteSet(due) /\ Cardinality(due) <= Cardinality(R \union W)
  BY <1>4, <1>8, FS_Injection
<1>10. Cardinality(due) \in Nat
  BY <1>9, FS_CardinalityType
<1>11. Cardinality(due) + (IF l THEN 1 ELSE 0) <= Found(R, W, l)
  BY <1>4, <1>6, <1>9, <1>10 DEF Found
<1>12. pc' = "accept" <=> l
  BY <1>5, <1>6
<1> QED  BY <1>5, <1>6, <1>7, <1>10, <1>11, <1>12 DEF CountOK

\* What accept adds to the array was not reported as ready.
LEMMA AcceptCounts ==
  ASSUME TypeInv, ArrayOK, CountOK, Accept \/ AcceptNothing
  PROVE  CountOK'
<1>1. /\ pc = "accept" /\ pc' = "scan" /\ totalOfSockets' = totalOfSockets - 1
      /\ UNCHANGED <<socketsIndex, readSet, writeSet>>
  BY DEF Accept, AcceptNothing
<1>2. socketsIndex \in Nat /\ conns \in Seq(Conns) /\ totalOfSockets \in Int
  BY DEF TypeInv, TypeOK
<1>3. Armed' = Armed
  BY <1>1 DEF Armed
<1>4. Due' = Due
  <2>1. CASE Accept
    <3>1. conns' = Append(conns, Head(backlog)) /\ Head(backlog) \notin Armed
      <4>1. backlog \in Seq(Conns) /\ backlog # <<>> /\ IsInjective(backlog)
        BY <2>1 DEF Accept, TypeInv, TypeOK, PhaseOK, ArrayOK
      <4>2. Head(backlog) \in Waiting
        BY <4>1, ShorterArray DEF Waiting
      <4> QED  BY <2>1, <4>2 DEF Accept, ArrayOK
    <3>2. Due' = {i \in socketsIndex..Len(conns') : conns'[i] \in Armed}
      BY <1>1, <1>3 DEF Due, ReadyFrom
    <3>3. Due = {i \in socketsIndex..Len(conns) : conns[i] \in Armed}
      BY <1>1 DEF Due, ReadyFrom
    <3>4. /\ Len(conns') = Len(conns) + 1 /\ conns'[Len(conns) + 1] \notin Armed
          /\ \A i \in 1..Len(conns) : conns'[i] = conns[i]
      BY <1>2, <3>1
    <3>5. socketsIndex >= 1
      BY DEF CountOK
    <3> QED  BY <1>2, <3>2, <3>3, <3>4, <3>5
  <2>2. CASE AcceptNothing
    BY <1>1, <1>3, <2>2 DEF AcceptNothing, Due, ReadyFrom
  <2> QED  BY <2>1, <2>2
<1>5. Cardinality(Due) \in Nat
  BY <1>2, ReadyFinite DEF Due
<1> QED  BY <1>1, <1>2, <1>4, <1>5 DEF CountOK


\* Freeing a connection: every later entry that is still due has moved up by
\* one, to a position that is still to come, but for the one that moves to the
\* position just visited.
LEMMA FreeCounts ==
  ASSUME TypeInv, ArrayOK, CountOK, NEW i \in DOMAIN conns, Visit(i), Free(i)
  PROVE  CountOK'
<1>1. /\ pc = "scan" /\ pc' = "scan" /\ conns' = RemoveAt(conns, i)
      /\ socketsIndex' = i + 1 /\ totalOfSockets' = totalOfSockets - 1
      /\ UNCHANGED <<readSet, writeSet>>
  BY DEF Visit, Free, GoOn
<1>2. totalOfSockets \in Int /\ conns \in Seq(Conns) /\ i \in Nat /\ i + 1 \in Nat
  BY VisitLeaves DEF TypeInv, TypeOK
<1>3. Armed' = Armed
  BY <1>1 DEF Armed
<1>4. /\ Len(conns') = Len(conns) - 1
      /\ \A j \in 1..(Len(conns) - 1) : j >= i => conns'[j] = conns[j + 1]
  BY <1>1, <1>2, RemoveAtIs
<1> DEFINE f == [j \in Due' |-> j + 1]
<1>5. Due' = {j \in (i + 1)..(Len(conns) - 1) : conns'[j] \in Armed}
  BY <1>1, <1>3, <1>4 DEF Due, ReadyFrom
<1>6. ASSUME NEW j \in Due'
      PROVE  j \in Nat /\ j + 1 \in ReadyFrom(i + 1)
  BY <1>2, <1>4, <1>5 DEF ReadyFrom
<1>7. f \in Injection(Due', ReadyFrom(i + 1))
  BY <1>6 DEF Injection, IsInjective
<1> HIDE DEF f
<1>8. IsFiniteSet(ReadyFrom(i + 1)) /\ Cardinality(ReadyFrom(i + 1)) \in Nat
  BY <1>2, ReadyFinite
<1>9. IsFiniteSet(Due') /\ Cardinality(Due') <= Cardinality(ReadyFrom(i + 1))
  BY <1>7, <1>8, FS_Injection
<1>10. Cardinality(Due') \in Nat
  BY <1>9, FS_CardinalityType
<1>11. Cardinality(ReadyFrom(i + 1)) = Cardinality(Due) - 1 /\ Cardinality(Due) \in Nat
  BY <1>1, VisitLeaves, ReadyFinite DEF Due, TypeInv, TypeOK
<1>12. totalOfSockets >= Cardinality(Due)
  BY <1>1, <1>2, <1>11 DEF CountOK
<1> QED  BY <1>1, <1>2, <1>8, <1>9, <1>10, <1>11, <1>12 DEF CountOK

\* A visit that frees nothing takes one from the count and one from what is due.
LEMMA VisitCounts ==
  ASSUME TypeInv, CountOK, NEW i \in DOMAIN conns, Visit(i),
         totalOfSockets' = totalOfSockets - 1,
         \/ pc' = "treat" /\ socketsIndex' = i
         \/ pc' = "scan" /\ socketsIndex' = i + 1,
         UNCHANGED <<conns, readSet, writeSet>>
  PROVE  CountOK'
<1>1. pc = "scan" /\ i \in Nat /\ i >= 1 /\ totalOfSockets \in Int /\ socketsIndex \in Nat
  BY VisitLeaves DEF Visit, TypeInv, TypeOK
<1>2. Due' = ReadyFrom(i + 1)
  BY DEF Due, ReadyFrom, Armed
<1>3. Cardinality(ReadyFrom(i + 1)) = Cardinality(Due) - 1 /\ Cardinality(Due) \in Nat
  BY <1>1, VisitLeaves, ReadyFinite DEF Due
<1>4. totalOfSockets >= Cardinality(Due)
  BY <1>1, <1>3 DEF CountOK
<1> QED  BY <1>1, <1>2, <1>3, <1>4 DEF CountOK

\* The treatment of a message neither visits nor counts.
LEMMA TreatCounts ==
  ASSUME TypeInv, CountOK, TreatMessage
  PROVE  CountOK'
<1>1. PICK info \in [Conns -> SocketInformation], to \in SUBSET Online, m \in Buffers :
        Delivered(info, to, m)
  BY TreatDelivers DEF TreatDelivered
<1>2. pc = "treat"
  BY DEF TreatMessage, Treating, TreatJunk, TreatJoinRoom, TreatLeaveRoom, TreatSendText,
         TreatCreateAccount, TreatAuthenticate, TreatValidateServer, TreatCreateSuccess,
         TreatCreateFailure, TreatAuthSuccess, TreatAuthFailure
<1>3. /\ \/ pc' = "treat" /\ socketsIndex' = socketsIndex
         \/ pc' = "scan" /\ socketsIndex' = socketsIndex + 1
      /\ UNCHANGED <<conns, readSet, writeSet, totalOfSockets>>
  BY <1>1 DEF Delivered, Deliver
<1>4. Due' = Due
  BY <1>2, <1>3 DEF Due, ReadyFrom, Armed
<1>5. socketsIndex' >= 1
  BY <1>3 DEF CountOK, TypeInv, TypeOK
<1> QED  BY <1>2, <1>3, <1>4, <1>5 DEF CountOK

\* Every step keeps the count at or above what is due.
LEMMA NextCount == TypeInv /\ ArrayOK /\ CountOK /\ [Next]_vars => CountOK'
<1> SUFFICES ASSUME TypeInv, ArrayOK, CountOK, [Next]_vars PROVE CountOK'
  OBVIOUS
<1>1. CASE UNCHANGED serverVars
  BY <1>1 DEF serverVars, CountOK, Due, ReadyFrom, Armed
<1>2. ASSUME NEW i \in DOMAIN conns, Recv(i)
      PROVE  CountOK'
  <2>1. /\ Visit(i) /\ totalOfSockets' = totalOfSockets - 1
        /\ pc' = IF batch' = <<>> THEN "scan" ELSE "treat"
        /\ socketsIndex' = IF batch' = <<>> THEN i + 1 ELSE i
        /\ UNCHANGED <<conns, readSet, writeSet>>
    BY <1>2 DEF Recv, RecvData
  <2> QED  BY <2>1, VisitCounts
<1>3. ASSUME NEW i \in DOMAIN conns, RecvWouldBlock(i) \/ SendData(i) \/ SendWouldBlock(i)
      PROVE  CountOK'
  <2>1. Visit(i) /\ pc = "scan"
    BY <1>3 DEF RecvWouldBlock, SendData, SendWouldBlock, Visit
  <2>2. /\ totalOfSockets' = totalOfSockets - 1 /\ pc' = pc /\ socketsIndex' = i + 1
        /\ UNCHANGED <<conns, readSet, writeSet>>
    BY <1>3 DEF RecvWouldBlock, SendData, SendWouldBlock, GoOn
  <2> QED  BY <2>1, <2>2, VisitCounts
<1>4. CASE ServerStep
  BY <1>2, <1>3, <1>4, SelectCounts, AcceptCounts, FreeCounts, TreatCounts
  DEF ServerStep, RecvGone, SendGone
<1>5. CASE PeerStep
  BY <1>1, <1>5 DEF PeerStep, Connect, Disconnect, ClientSend, AuthValidate, Submit, AuthRead
<1>6. CASE Fail
  <2>1. /\ UNCHANGED <<conns, readSet, writeSet, socketsIndex, totalOfSockets>>
        /\ pc # "treat" /\ pc' = "ended"
    BY <1>6 DEF Fail, PassOver
  <2>2. Due' = Due
    BY <2>1 DEF Due, ReadyFrom, Armed
  <2>3. socketsIndex \in Nat /\ totalOfSockets \in Int
    BY DEF TypeInv, TypeOK
  <2>4. Cardinality(Due) \in Nat
    BY <2>1, <2>3, ReadyFinite DEF Due
  <2> QED  BY <2>1, <2>2, <2>3, <2>4 DEF CountOK
<1> QED  BY <1>1, <1>4, <1>5, <1>6 DEF Next, vars

ScanInv == TypeInv /\ ArrayOK /\ CountOK

\* The invariant of the scan holds in every behaviour of the server.
THEOREM ScanInvariant == Spec => []ScanInv
<1>1. Init => CountOK
  <2> SUFFICES ASSUME Init PROVE CountOK
    OBVIOUS
  <2>1. Due = {} /\ totalOfSockets = 0 /\ pc = "scan" /\ socketsIndex = 1
    BY DEF Init, Due, ReadyFrom, Armed
  <2> QED  BY <2>1, FS_EmptySet DEF CountOK
<1>2. Init => ScanInv
  BY <1>1, InitType, InitArray DEF ScanInv
<1>3. ScanInv /\ [Next]_vars => ScanInv'
  BY NextType, NextArray, NextCount DEF ScanInv
<1> QED  BY <1>2, <1>3, PTL DEF Spec

\* The count of ready sockets covers what the scan has still to visit, for any
\* number of connections that come, go and become ready in the middle of it.
THEOREM ScanCounts == Spec => []ReadyCounted
<1>1. ScanInv => ReadyCounted
  BY DueIs DEF ScanInv, CountOK, ReadyCounted
<1> QED  BY <1>1, ScanInvariant, PTL

\* An array's positions are as many as it is long.
LEMMA Positions ==
  ASSUME NEW n \in Nat
  PROVE  IsFiniteSet(1..n) /\ Cardinality(1..n) = n
<1>1. IsFiniteSet(1..n) /\ Cardinality(1..n) = IF 1 > n THEN 0 ELSE n - 1 + 1
  BY FS_Interval
<1> QED  BY <1>1

\* A full array without repetitions leaves room for all but one connection in
\* the read set, and for that one only if none is in the write set.
LEMMA UnwatchedIsNewest ==
  ASSUME TypeInv, ArrayOK
  PROVE  OnlyNewestUnwatched
<1> SUFFICES ASSUME NEW c \in Online \ (ToRead \union ToWrite)
             PROVE  c = Last(conns) /\ Len(conns) = FDSetSize /\ ToWrite = {}
  BY DEF OnlyNewestUnwatched
<1> DEFINE reader(i) == ~sock[conns[i]].hasNewData
           before(j) == {k \in 1..j : reader(k)}
<1>1. conns \in Seq(Conns) /\ Len(conns) \in Nat /\ DOMAIN conns = 1..Len(conns)
  BY DEF TypeInv, TypeOK
<1>2. PICK j \in DOMAIN conns : conns[j] = c
  BY DEF Online, ToSet
<1>3. j \in Nat /\ j <= Len(conns) /\ Len(conns) \in Nat
  BY <1>1, <1>2
<1>4. reader(j)
  BY <1>2 DEF ToWrite
<1>5. ~(Cardinality(before(j)) <= FDSetSize - 1)
  BY <1>2, <1>4 DEF ToRead, FirstReaders
<1> HIDE DEF reader
<1>6. /\ before(j) \in SUBSET (1..j) /\ IsFiniteSet(1..j)
      /\ Cardinality(1..j) = j
  BY <1>3, Positions
<1>7. /\ Cardinality(before(j)) <= j
      /\ Cardinality(before(j)) = j => before(j) = 1..j
  BY <1>6, FS_Subset
<1>8. Cardinality(before(j)) \in Nat
  <2>1. IsFiniteSet(before(j))
    BY <1>6, FS_Subset
  <2> QED  BY <2>1, FS_CardinalityType
<1>9. Len(conns) <= FDSetSize /\ FDSetSize \in Nat
  <2>1. conns \in Injection(1..Len(conns), Conns)
    BY <1>1 DEF ArrayOK, Injection
  <2>2. Cardinality(1..Len(conns)) <= Cardinality(Conns)
    BY <2>1, ConnAssumption, FS_Injection
  <2>3. Cardinality(1..Len(conns)) = Len(conns)
    BY <1>1, Positions
  <2>4. Cardinality(Conns) \in Nat
    BY ConnAssumption, FS_CardinalityType
  <2> QED  BY <1>1, <2>2, <2>3, <2>4, TableAssumption
<1>10. j = Len(conns) /\ Len(conns) = FDSetSize /\ Cardinality(before(j)) = j
  <2>1. Cardinality(before(j)) <= j
    BY <1>7
  <2> HIDE DEF before
  <2>2. Cardinality(before(j)) >= FDSetSize
    BY <1>5, <1>8, <1>9
  <2> QED  BY <1>3, <1>8, <1>9, <2>1, <2>2
<1>11. \A k \in DOMAIN conns : reader(k)
  BY <1>1, <1>7, <1>10
<1>12. ToWrite = {}
  BY <1>11 DEF ToWrite, Online, ToSet, reader
<1> QED  BY <1>2, <1>10, <1>12 DEF Last

\* Every connection is listened to or sent to but the newest of a full array.
THEOREM UnwatchedNewest == Spec => []OnlyNewestUnwatched
<1>1. ScanInv => OnlyNewestUnwatched
  BY UnwatchedIsNewest DEF ScanInv
<1> QED  BY <1>1, ScanInvariant, PTL

-----------------------------------------------------------------------------
\* Settled messages.

\* A step keeps a message settled when the connection keeps it and the scan
\* has no more positions of that connection to visit than before.
LEMMA KeptSettled ==
  ASSUME NEW c, Settled(c),
         SameMessage(sock[c], sock'[c]),
         \A i \in Ahead' : conns'[i] = c => c \in writeSet'
  PROVE  Settled(c)'
BY DEF Settled, SameMessage

\* A new message is as settled as the one it replaces.
LEMMA GivenSettled ==
  ASSUME NEW c, Settled(c), NEW si \in SocketInformation, NEW m \in Messages,
         sock'[c] = Holding(si, m),
         \A i \in Ahead' : conns'[i] = c => c \in writeSet'
  PROVE  Settled(c)'
BY DEF Settled, Holding, SocketInformation

\* A step that takes the scan no further back visits nothing new.
LEMMA FurtherAhead ==
  ASSUME TypeInv, socketsIndex' \in Nat, socketsIndex' >= socketsIndex,
         UNCHANGED <<conns, readSet, writeSet>>
  PROVE  Ahead' \subseteq Ahead
BY DEF Ahead, TypeInv, TypeOK

\* After a connection was freed, what is still ahead was ahead already.
LEMMA FreedAhead ==
  ASSUME TypeInv, NEW i \in DOMAIN conns, Visit(i), Free(i), NEW j \in Ahead'
  PROVE  \E k \in Ahead : conns[k] = conns'[j]
<1>1. /\ conns' = RemoveAt(conns, i) /\ socketsIndex' = i + 1
      /\ UNCHANGED <<readSet, writeSet>>
  BY DEF Free, GoOn
<1>2. conns \in Seq(Conns) /\ i \in Nat /\ i >= socketsIndex /\ socketsIndex \in Nat
  BY DEF TypeInv, TypeOK, Visit, Ahead
<1>3. /\ Len(conns') = Len(conns) - 1
      /\ \A k \in 1..(Len(conns) - 1) : k >= i => conns'[k] = conns[k + 1]
  BY <1>1, <1>2, RemoveAtIs
<1>4. /\ j \in (i + 1)..(Len(conns) - 1) /\ conns'[j] \in readSet \union writeSet
  BY <1>1, <1>3 DEF Ahead
<1>5. j + 1 \in socketsIndex..Len(conns) /\ conns[j + 1] = conns'[j]
  BY <1>2, <1>3, <1>4
<1> QED  BY <1>4, <1>5 DEF Ahead

\* What a step does to a settled message of a connection that stays.
LEMMA StepSettled ==
  ASSUME ScanInv, ServerStep, NEW c \in Online, c \in Online', Settled(c)
  PROVE  Settled(c)' \/ (c \in writeSet /\ ~sock'[c].hasNewData)
<1> USE DEF ScanInv
<1>0. /\ c \in Conns /\ sock \in [Conns -> SocketInformation] /\ socketsIndex \in Nat
      /\ SameMessage(sock[c], sock[c])
  BY DEF TypeInv, TypeOK, Online, ToSet, SameMessage
<1>1. CASE Select
  <2>1. PICK R \in MayRead, W \in MayWrite, l \in MayAccept : SelectReady(R, W, l)
    BY <1>1 DEF Select
  <2>2. readSet' = R /\ writeSet' = W /\ UNCHANGED <<conns, sock>>
    BY <2>1 DEF SelectReady
  <2>3. c \notin R
    BY SelectReports DEF Settled
  <2>4. \A i \in Ahead' : conns'[i] = c => c \in writeSet'
    BY <2>2, <2>3 DEF Ahead
  <2> QED  BY <1>0, <2>2, <2>4, KeptSettled
<1>2. CASE Accept
  <2>1. /\ conns' = Append(conns, Head(backlog))
        /\ sock' = [sock EXCEPT ![Head(backlog)] = Fresh]
        /\ UNCHANGED <<readSet, writeSet, socketsIndex>>
    BY <1>2 DEF Accept
  <2>2. Head(backlog) \in Waiting /\ Head(backlog) \in Conns
    BY <1>2, ShorterArray DEF Accept, TypeInv, TypeOK, PhaseOK, ArrayOK, Waiting
  <2>3. c # Head(backlog) /\ Head(backlog) \notin Armed
    BY <2>2 DEF ArrayOK
  <2>4. sock'[c] = sock[c]
    BY <1>0, <2>1, <2>3
  <2>5. conns \in Seq(Conns) /\ socketsIndex >= 1
    BY DEF TypeInv, TypeOK, CountOK
  <2>6. ASSUME NEW i \in Ahead'
        PROVE  i \in Ahead /\ conns'[i] = conns[i]
    <3>1. /\ i \in socketsIndex..(Len(conns) + 1)
          /\ conns'[i] \in readSet \union writeSet
      <4>1. Len(conns') = Len(conns) + 1
        BY <2>1, <2>5
      <4> QED  BY <2>1, <4>1 DEF Ahead
    <3>2. /\ conns'[Len(conns) + 1] = Head(backlog)
          /\ \A k \in 1..Len(conns) : conns'[k] = conns[k]
      BY <2>1, <2>2, <2>5
    <3>3. i \in 1..Len(conns)
      BY <1>0, <2>3, <2>5, <3>1, <3>2 DEF Armed
    <3> QED  BY <1>0, <2>5, <3>1, <3>2, <3>3 DEF Ahead
  <2> QED  BY <1>0, <2>1, <2>4, <2>6, KeptSettled DEF Settled
<1>3. CASE AcceptNothing
  <2>1. UNCHANGED <<conns, sock, readSet, writeSet, socketsIndex>>
    BY <1>3 DEF AcceptNothing
  <2> QED  BY <2>1 DEF Settled, Ahead
<1>4. ASSUME NEW i \in DOMAIN conns, Visit(i)
      PROVE  i \in Ahead /\ i \in Nat /\ i >= socketsIndex /\ conns[i] \in Conns
  BY <1>4 DEF Visit, Ahead, TypeInv, TypeOK
<1>5. ASSUME NEW i \in DOMAIN conns, Recv(i) \/ RecvWouldBlock(i)
      PROVE  Settled(c)'
  <2>1. /\ Visit(i) /\ conns[i] \in readSet /\ ReadInto(conns[i])
        /\ socketsIndex' = i \/ socketsIndex' = i + 1
        /\ UNCHANGED <<conns, readSet, writeSet>>
    BY <1>5 DEF Recv, RecvData, RecvWouldBlock, GoOn
  <2>2. c # conns[i]
    BY <2>1, <1>4 DEF Settled, ArrayOK
  <2>3. sock'[c] = sock[c]
    BY <1>0, <1>4, <2>1, <2>2 DEF ReadInto
  <2>4. Ahead' \subseteq Ahead
    BY <1>0, <1>4, <2>1, FurtherAhead
  <2> QED  BY <1>0, <2>1, <2>3, <2>4, KeptSettled DEF Settled
<1>6. ASSUME NEW i \in DOMAIN conns, RecvGone(i) \/ SendGone(i)
      PROVE  Settled(c)'
  <2>1. Visit(i) /\ Free(i)
    BY <1>6 DEF RecvGone, SendGone
  <2>2. c # conns[i]
    BY <2>1, FreeArray
  <2>3. sock'[c] = sock[c] /\ writeSet' = writeSet
    BY <1>0, <2>1, <2>2 DEF Free
  <2>4. \A j \in Ahead' : conns'[j] = c => c \in writeSet'
    BY <2>1, <2>3, FreedAhead DEF Settled
  <2> QED  BY <1>0, <2>3, <2>4, KeptSettled
<1>7. ASSUME NEW i \in DOMAIN conns, SendData(i)
      PROVE  Settled(c)' \/ (c \in writeSet /\ ~sock'[c].hasNewData)
  <2>1. /\ Visit(i) /\ conns[i] \in writeSet /\ sock' = Flushed(conns[i])
        /\ socketsIndex' = i + 1
        /\ UNCHANGED <<conns, readSet, writeSet>>
    BY <1>7 DEF SendData, GoOn
  <2>2. CASE c = conns[i]
    <3>1. sock'[c].hasNewData = FALSE
      BY <1>0, <2>1, <2>2 DEF Flushed, SocketInformation
    <3> QED  BY <2>1, <2>2, <3>1
  <2>3. CASE c # conns[i]
    <3>1. sock'[c] = sock[c]
      BY <1>0, <1>4, <2>1, <2>3 DEF Flushed
    <3>2. Ahead' \subseteq Ahead
      BY <1>0, <1>4, <2>1, FurtherAhead
    <3> QED  BY <1>0, <2>1, <3>1, <3>2, KeptSettled DEF Settled
  <2> QED  BY <2>2, <2>3
<1>8. ASSUME NEW i \in DOMAIN conns, SendWouldBlock(i)
      PROVE  Settled(c)'
  <2>1. /\ Visit(i) /\ socketsIndex' = i + 1
        /\ UNCHANGED <<conns, sock, readSet, writeSet>>
    BY <1>8 DEF SendWouldBlock, GoOn
  <2>2. Ahead' \subseteq Ahead
    BY <1>0, <1>4, <2>1, FurtherAhead
  <2> QED  BY <1>0, <2>1, <2>2, KeptSettled DEF Settled
<1>9. CASE TreatMessage
  <2>1. PICK info \in [Conns -> SocketInformation], to \in SUBSET Online, m \in Buffers :
          Delivered(info, to, m)
    BY <1>9, TreatDelivers DEF TreatDelivered
  <2>2. /\ sock' = [d \in Conns |-> IF d \in to THEN Holding(info[d], m) ELSE info[d]]
        /\ socketsIndex' = socketsIndex \/ socketsIndex' = socketsIndex + 1
        /\ UNCHANGED <<conns, readSet, writeSet>>
        /\ to = {} \/ m \in Messages
        /\ SameMessage(sock[c], info[c])
    BY <1>0, <2>1 DEF Delivered, Deliver
  <2>3. Ahead' \subseteq Ahead
    BY <1>0, <2>2, FurtherAhead
  <2>4. \A i \in Ahead' : conns'[i] = c => c \in writeSet'
    BY <2>2, <2>3 DEF Settled
  <2>5. CASE c \in to
    BY <1>0, <2>2, <2>4, <2>5, GivenSettled
  <2>6. CASE c \notin to
    BY <1>0, <2>2, <2>4, <2>6, KeptSettled
  <2> QED  BY <2>5, <2>6
<1> QED
  BY <1>1, <1>2, <1>3, <1>5, <1>6, <1>7, <1>8, <1>9 DEF ServerStep

\* Once a message is settled it stays so until it is sent, in every behaviour.
THEOREM SettledStays == Spec => SettledKept
<1>1. ScanInv /\ [Next]_vars =>
        [\A c \in Online \intersect Online' :
           Settled(c) => Settled(c)' \/ (c \in writeSet /\ ~sock'[c].hasNewData)]_vars
  <2> SUFFICES ASSUME ScanInv, Next, NEW c \in Online, c \in Online', Settled(c)
               PROVE  Settled(c)' \/ (c \in writeSet /\ ~sock'[c].hasNewData)
    OBVIOUS
  <2>1. CASE ServerStep
    BY <2>1, StepSettled
  <2>2. CASE PeerStep
    <3>1. UNCHANGED serverVars
      BY <2>2 DEF PeerStep, Connect, Disconnect, ClientSend, AuthValidate, Submit, AuthRead
    <3> QED  BY <3>1 DEF serverVars, Settled, Ahead
  <2>3. CASE Fail
    BY <2>3 DEF Fail, Settled, Ahead
  <2> QED  BY <2>1, <2>2, <2>3 DEF Next
<1> QED  BY <1>1, ScanInvariant, PTL DEF Spec, SettledKept

=============================================================================
