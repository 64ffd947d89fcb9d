----------------------------- MODULE ServiceProofs -----------------------------
(***************************************************************************)
(* Proofs about what the chat server promises its users.                   *)
(*                                                                         *)
(* The request ids: whoever asks, however often and over however many      *)
(* authentication servers, an answer under an id reaches only the          *)
(* connection that asked under it, and a connection is authenticated only  *)
(* when its own credentials were approved, or when an authentication       *)
(* server read several requests at once and answered them under its id.    *)
(*                                                                         *)
(* The service: every step of the loop, of a peer or of the network is one *)
(* step of ChatService, or one that shows nothing of the service's state   *)
(* changed.                                                                *)
(***************************************************************************)
EXTENDS ChatServerProofs

USE DEF Conns

Ops == {"CREATE_ACCOUNT_WEB", "AUTHENTICATE_WEB"}
Ledgers == Seq([conn : Conns, op : Ops])

\* The operation an answer answers.
OpAnswered(id) ==
  IF id \in {"CREATE_ACCOUNT_WEB_SUCCESS", "CREATE_ACCOUNT_WEB_FAILURE"}
  THEN "CREATE_ACCOUNT_WEB" ELSE "AUTHENTICATE_WEB"

\* The inductive invariant.  Everything that carries a request id, wherever
\* it is on its way, agrees with what was asked under that id.
Filed(rid, op, L) == rid \in DOMAIN L /\ L[rid].op = op

RequestFiled(m, L) == m.kind \in Ops => Filed(m.rid, m.kind, L)

\* An answer is of the kind that was asked for under its id, or was given to several
\* messages at once.
AnswerFiled(p, L, A, S) ==
  p.id \in AnswerIds =>
    \/ <<p.id, p.rid>> \in S
    \/ /\ p.rid # 0 => Filed(p.rid, OpAnswered(p.id), L)
       /\ p.id = "AUTHENTICATE_WEB_SUCCESS" => p.rid \in A

HeldFiled(m, c, L, S) ==
  m.kind \in AnswerIds /\ m.rid # 0 =>
    /\ m.rid \in DOMAIN L /\ L[m.rid].conn = c
    /\ L[m.rid].op = OpAnswered(m.kind) \/ <<m.kind, m.rid>> \in S

\* Whoever is authenticated was approved, or got the answer to several messages.
Approved(c, L, A) ==
  \E rid \in A \intersect DOMAIN L : L[rid].conn = c /\ L[rid].op = "AUTHENTICATE_WEB"

Strayed(c, L, S) ==
  \E rid \in {0} \union DOMAIN L :
    /\ <<"AUTHENTICATE_WEB_SUCCESS", rid>> \in S
    /\ rid = 0 \/ L[rid].conn = c

SocketFiled(si, c, L, A, S) ==
  /\ si.requestedID # 0 => si.requestedID \in DOMAIN L /\ L[si.requestedID].conn = c
  /\ RequestFiled(si.dataBuffer, L)
  /\ HeldFiled(si.dataBuffer, c, L, S)
  /\ si.isAuthenticated => Approved(c, L, A) \/ Strayed(c, L, S)

LedgerOK ==
  /\ g_requestedID = Len(ledger)
  /\ \A rid \in approved : Filed(rid, "AUTHENTICATE_WEB", ledger)

SocketsOK == \A c \in Conns : SocketFiled(sock[c], c, ledger, approved, strayed)

NetworkOK ==
  /\ \A a \in AuthServers : \A j \in DOMAIN toAuth[a] : RequestFiled(toAuth[a][j], ledger)
  /\ \A c \in Conns : \A j \in DOMAIN inbox[c] : AnswerFiled(inbox[c][j], ledger, approved, strayed)
  /\ \A j \in DOMAIN batch : AnswerFiled(batch[j], ledger, approved, strayed)

RequestInv == LedgerOK /\ SocketsOK /\ NetworkOK

-----------------------------------------------------------------------------
\* What is filed stays filed while the ledger grows.

Grows(L, M) == DOMAIN L \subseteq DOMAIN M /\ \A rid \in DOMAIN L : M[rid] = L[rid]

\* A ledger with one more entry has grown.
LEMMA AppendGrows ==
  ASSUME NEW L \in Ledgers, NEW e \in [conn : Conns, op : Ops]
  PROVE  /\ Grows(L, Append(L, e)) /\ Append(L, e) \in Ledgers
         /\ Len(Append(L, e)) = Len(L) + 1
         /\ Len(L) + 1 \in DOMAIN Append(L, e)
         /\ Append(L, e)[Len(L) + 1] = e
BY DEF Grows, Ledgers

\* Growing keeps what is known of a socket, a request and an answer.
LEMMA FiledKept ==
  ASSUME NEW L, NEW M, Grows(L, M), NEW A, NEW B, A \subseteq B,
         NEW S, NEW T, S \subseteq T
  PROVE  /\ \A rid, op : Filed(rid, op, L) => Filed(rid, op, M)
         /\ \A m : RequestFiled(m, L) => RequestFiled(m, M)
         /\ \A p : AnswerFiled(p, L, A, S) => AnswerFiled(p, M, B, T)
         /\ \A si, c : SocketFiled(si, c, L, A, S) => SocketFiled(si, c, M, B, T)
<1>1. \A rid, op : Filed(rid, op, L) => Filed(rid, op, M)
  BY DEF Filed, Grows
<1>2. \A m : RequestFiled(m, L) => RequestFiled(m, M)
  BY <1>1 DEF RequestFiled
<1>3. \A p : AnswerFiled(p, L, A, S) => AnswerFiled(p, M, B, T)
  BY <1>1 DEF AnswerFiled
<1>4. ASSUME NEW si, NEW c, SocketFiled(si, c, L, A, S)
      PROVE  SocketFiled(si, c, M, B, T)
  <2>1. si.requestedID # 0 => si.requestedID \in DOMAIN M /\ M[si.requestedID].conn = c
    BY <1>4 DEF SocketFiled, Grows
  <2>2. RequestFiled(si.dataBuffer, M)
    BY <1>2, <1>4 DEF SocketFiled
  <2>3. HeldFiled(si.dataBuffer, c, M, T)
    BY <1>4 DEF SocketFiled, HeldFiled, Grows
  <2>4. Approved(c, L, A) => Approved(c, M, B)
    BY DEF Approved, Grows
  <2>5. Strayed(c, L, S) => Strayed(c, M, T)
    BY DEF Strayed, Grows
  <2> QED  BY <1>4, <2>1, <2>2, <2>3, <2>4, <2>5 DEF SocketFiled
<1> QED  BY <1>1, <1>2, <1>3, <1>4

\* Messages that carry no request id.
Plain(m) == m.kind \notin Ops \union AnswerIds

\* The messages of rooms carry no request id, so they file nothing.
LEMMA PlainMessages ==
  /\ Plain(NullBuffer) /\ Plain(OwnBuffer) /\ Plain(Refusal) /\ Plain(Validated)
  /\ \A r : Plain(Connected(r)) /\ Plain(Disconnected(r))
  /\ \A n, b : Plain(Text(n, b))
BY DEF Plain, Ops, AnswerIds, NullBuffer, OwnBuffer, Refusal, Validated, Connected,
       Disconnected, Text

\* A connection that is given a message is as well filed as the message is.
LEMMA HoldingFiled ==
  ASSUME NEW si \in SocketInformation, NEW c, NEW L, NEW A, NEW S,
         SocketFiled(si, c, L, A, S),
         NEW m, RequestFiled(m, L), HeldFiled(m, c, L, S)
  PROVE  SocketFiled(Holding(si, m), c, L, A, S)
<1>1. /\ Holding(si, m).requestedID = si.requestedID
      /\ Holding(si, m).isAuthenticated = si.isAuthenticated
      /\ Holding(si, m).dataBuffer = m
  BY DEF Holding, SocketInformation
<1> QED  BY <1>1 DEF SocketFiled

\* A request with the next id can be filed without clashing with another.
LEMMA FreshFiled ==
  ASSUME NEW c, NEW L, NEW A, NEW S
  PROVE  SocketFiled(Fresh, c, L, A, S)
BY PlainMessages DEF SocketFiled, Fresh, RequestFiled, HeldFiled, Plain

-----------------------------------------------------------------------------
\* The invariant is inductive.

LEMMA InitFiled == Init => RequestInv
<1> SUFFICES ASSUME Init PROVE RequestInv
  OBVIOUS
<1>1. LedgerOK
  BY DEF Init, LedgerOK
<1>2. SocketsOK
  BY FreshFiled DEF Init, SocketsOK
<1>3. NetworkOK
  BY DEF Init, NetworkOK
<1> QED  BY <1>1, <1>2, <1>3 DEF RequestInv

\* The treatment of a message keeps the invariant when what it leaves at each
\* connection, and the message it gives away, are filed.
LEMMA DeliverFiled ==
  ASSUME TypeInv, RequestInv, pc = "treat",
         NEW info \in [Conns -> SocketInformation], NEW to, NEW m,
         Deliver(info, to, m),
         Grows(ledger, ledger'), g_requestedID' = Len(ledger'),
         \A c \in Conns : SocketFiled(info[c], c, ledger', approved, strayed),
         RequestFiled(m, ledger'),
         \A c \in Conns : c \in to => HeldFiled(m, c, ledger', strayed)
  PROVE  RequestInv'
<1>1. UNCHANGED <<inbox, toAuth, approved, strayed>>
  BY DEF Deliver, peerVars
<1>2. LedgerOK'
  <2>1. \A rid \in approved : Filed(rid, "AUTHENTICATE_WEB", ledger')
    BY FiledKept DEF RequestInv, LedgerOK
  <2> QED  BY <1>1, <2>1 DEF LedgerOK
<1>3. SocketsOK'
  <2> SUFFICES ASSUME NEW c \in Conns
               PROVE  SocketFiled(sock'[c], c, ledger', approved, strayed)
    BY <1>1 DEF SocketsOK
  <2>1. CASE c \in to
    <3>1. sock'[c] = Holding(info[c], m)
      BY <2>1 DEF Deliver
    <3>2. SocketFiled(Holding(info[c], m), c, ledger', approved, strayed)
      BY <2>1, HoldingFiled
    <3> QED  BY <3>1, <3>2
  <2>2. CASE c \notin to
    BY <2>2 DEF Deliver
  <2> QED  BY <2>1, <2>2
<1>4. NetworkOK'
  <2>1. \A a \in AuthServers : \A j \in DOMAIN toAuth[a] : RequestFiled(toAuth[a][j], ledger')
    BY FiledKept DEF RequestInv, NetworkOK
  <2>2. \A c \in Conns : \A j \in DOMAIN inbox[c] : AnswerFiled(inbox[c][j], ledger', approved, strayed)
    BY FiledKept DEF RequestInv, NetworkOK
  <2>3. \A j \in DOMAIN batch : AnswerFiled(batch[j], ledger', approved, strayed)
    BY FiledKept DEF RequestInv, NetworkOK
  <2>4. batch' = <<>> \/ batch' = Tail(batch)
    BY DEF Deliver
  <2>5. \A j \in DOMAIN Tail(batch) : j + 1 \in DOMAIN batch /\ Tail(batch)[j] = batch[j + 1]
    BY DEF TypeInv, TypeOK, PhaseOK
  <2>6. \A j \in DOMAIN batch' : AnswerFiled(batch'[j], ledger', approved, strayed)
    <3>1. CASE batch' = <<>>
      BY <3>1
    <3>2. CASE batch' = Tail(batch)
      <4> SUFFICES ASSUME NEW j \in DOMAIN Tail(batch)
                   PROVE  AnswerFiled(Tail(batch)[j], ledger', approved, strayed)
        BY <3>2
      <4> QED  BY <2>3, <2>5
    <3> QED  BY <2>4, <3>1, <3>2
  <2> QED  BY <1>1, <2>1, <2>2, <2>6 DEF NetworkOK
<1> QED  BY <1>2, <1>3, <1>4 DEF RequestInv

\* The ledger as it is.
LEMMA SameLedger ==
  ASSUME RequestInv, UNCHANGED <<g_requestedID, ledger>>
  PROVE  Grows(ledger, ledger') /\ g_requestedID' = Len(ledger') /\ ledger' = ledger
BY DEF Grows, RequestInv, LedgerOK

\* treatMessage keeps the bookkeeping of the requests.
LEMMA TreatFiled ==
  ASSUME TypeInv, RequestInv, TreatMessage
  PROVE  RequestInv'
<1>0. pc = "treat" /\ Sa \in Conns /\ Head(batch) \in Packets \union {Junk}
  BY SaType DEF TreatMessage, Treating, TreatJunk, TreatJoinRoom, TreatLeaveRoom, TreatSendText,
         TreatCreateAccount, TreatAuthenticate, TreatValidateServer, TreatCreateSuccess,
         TreatCreateFailure, TreatAuthSuccess, TreatAuthFailure
<1> DEFINE p == Head(batch)
<1>a. /\ sock \in [Conns -> SocketInformation]
      /\ \A c \in Conns : SocketFiled(sock[c], c, ledger, approved, strayed)
  BY DEF TypeInv, TypeOK, RequestInv, SocketsOK
<1>b. ASSUME NEW info \in [Conns -> SocketInformation], NEW to, NEW m, Plain(m),
             Deliver(info, to, m), UNCHANGED <<g_requestedID, ledger>>,
             \A c \in Conns : SocketFiled(info[c], c, ledger, approved, strayed)
      PROVE  RequestInv'
  <2>1. RequestFiled(m, ledger') /\ \A c : HeldFiled(m, c, ledger', strayed)
    BY <1>b DEF Plain, RequestFiled, HeldFiled
  <2>2. \A c \in Conns : SocketFiled(info[c], c, ledger', approved, strayed)
    BY <1>b
  <2> QED  BY <1>0, <1>b, <2>1, <2>2, SameLedger, DeliverFiled
<1>c. ASSUME Ignore, UNCHANGED <<g_requestedID, ledger>>
      PROVE  RequestInv'
  BY <1>a, <1>b, <1>c, PlainMessages DEF Ignore
<1>1. CASE TreatJunk
  BY <1>1, <1>c DEF TreatJunk
<1>2. CASE TreatJoinRoom
  <2> DEFINE joined == [sock EXCEPT ![Sa].rooms = @ \union {p.room},
                                    ![Sa].userName = NameOf[Sa]]
  <2>1. p.room \in Rooms
    BY <1>0, <1>2, PacketFields DEF TreatJoinRoom, Treating
  <2>2. joined \in [Conns -> SocketInformation]
    BY <1>0, <1>a, <2>1 DEF SocketInformation, UserNames
  <2>3. \A c \in Conns : SocketFiled(joined[c], c, ledger, approved, strayed)
    <3>1. \A c \in Conns : /\ joined[c].requestedID = sock[c].requestedID
                           /\ joined[c].dataBuffer = sock[c].dataBuffer
                           /\ joined[c].isAuthenticated = sock[c].isAuthenticated
      BY <1>a DEF SocketInformation
    <3> QED  BY <1>a, <3>1, SMTT(30) DEF SocketFiled
  <2>4. \/ Deliver(joined, InRoom(joined, p.room), Connected(p.room))
        \/ Deliver(sock, {Sa}, Refusal)
    BY <1>2 DEF TreatJoinRoom
  <2>5. UNCHANGED <<g_requestedID, ledger>>
    BY <1>2 DEF TreatJoinRoom
  <2> HIDE DEF joined
  <2> QED
    BY <1>a, <1>b, <2>2, <2>3, <2>4, <2>5, PlainMessages
<1>3. CASE TreatLeaveRoom
  <2> DEFINE left == [sock EXCEPT ![Sa].rooms =
                        IF p.room \in @ THEN (@ \ {p.room}) \union {Erased} ELSE @]
  <2>1. p.room \in Rooms
    BY <1>0, <1>3, PacketFields DEF TreatLeaveRoom, Treating
  <2>2. left \in [Conns -> SocketInformation]
    BY <1>0, <1>a, <2>1 DEF SocketInformation
  <2>3. \A c \in Conns : SocketFiled(left[c], c, ledger, approved, strayed)
    <3>1. \A c \in Conns : /\ left[c].requestedID = sock[c].requestedID
                           /\ left[c].dataBuffer = sock[c].dataBuffer
                           /\ left[c].isAuthenticated = sock[c].isAuthenticated
      BY <1>a DEF SocketInformation
    <3> QED  BY <1>a, <3>1 DEF SocketFiled
  <2>4. Deliver(left, InRoom(left, p.room), Disconnected(p.room))
    BY <1>3 DEF TreatLeaveRoom
  <2>5. UNCHANGED <<g_requestedID, ledger>>
    BY <1>3 DEF TreatLeaveRoom
  <2> HIDE DEF left
  <2> QED
    BY <1>a, <1>b, <2>2, <2>3, <2>4, <2>5, PlainMessages
<1>4. CASE TreatSendText
  BY <1>a, <1>b, <1>4, PlainMessages DEF TreatSendText
<1>5. ASSUME NEW op \in Ops, Forward(op)
      PROVE  RequestInv'
  <2> DEFINE rid == NextId(op)
             m == Request(op, rid, p.cred)
             entry == [conn |-> Sa, op |-> op]
             servers == {c \in Online : sock[c].isAuthServer}
  <2>1. ledger \in Ledgers /\ rid = Len(ledger) + 1 /\ rid # 0
    BY DEF TypeInv, TypeOK, Ledgers, Ops, RequestInv, LedgerOK, NextId
  <2>2. entry \in [conn : Conns, op : Ops]
    BY <1>0, <1>5
  <2>3. /\ ledger' = Append(ledger, entry) /\ g_requestedID' = rid
        /\ Deliver(Asked(Sa, rid), servers, m)
    BY <1>5 DEF Forward
  <2>4. /\ Grows(ledger, ledger') /\ g_requestedID' = Len(ledger')
        /\ Filed(rid, op, ledger') /\ ledger'[rid].conn = Sa
    BY <2>1, <2>2, <2>3, AppendGrows DEF Filed
  <2>5. Asked(Sa, rid) \in [Conns -> SocketInformation]
    <3>1. rid \in Nat
      BY <2>1 DEF Ledgers
    <3> QED  BY <1>0, <1>a, <3>1 DEF Asked, SocketInformation
  <2>6. \A c \in Conns : SocketFiled(Asked(Sa, rid)[c], c, ledger', approved, strayed)
    <3>1. \A c \in Conns : SocketFiled(sock[c], c, ledger', approved, strayed)
      BY <1>a, <2>4, FiledKept
    <3>2. \A c \in Conns : /\ Asked(Sa, rid)[c].requestedID =
                                IF c = Sa THEN rid ELSE sock[c].requestedID
                           /\ Asked(Sa, rid)[c].dataBuffer = sock[c].dataBuffer
                           /\ Asked(Sa, rid)[c].isAuthenticated = sock[c].isAuthenticated
      BY <1>0, <1>a DEF Asked, SocketInformation
    <3> QED  BY <2>4, <3>1, <3>2 DEF SocketFiled, Filed
  <2>7. m.kind = op /\ m.rid = rid
    BY DEF Request
  <2>8. RequestFiled(m, ledger') /\ \A c : HeldFiled(m, c, ledger', strayed)
    BY <1>5, <2>4, <2>7 DEF RequestFiled, HeldFiled, Ops, AnswerIds
  <2> HIDE DEF rid, m, servers
  <2> QED
    BY <1>0, <2>3, <2>4, <2>5, <2>6, <2>8, DeliverFiled
<1>6. CASE TreatCreateAccount \/ TreatAuthenticate
  BY <1>5, <1>6 DEF TreatCreateAccount, TreatAuthenticate, Ops
<1>7. CASE TreatValidateServer
  <2> DEFINE validated == [sock EXCEPT ![Sa].isAuthServer = TRUE, ![Sa].userName = NameOf[Sa]]
  <2>1. validated \in [Conns -> SocketInformation]
    BY <1>0, <1>a DEF SocketInformation, UserNames
  <2>2. \A c \in Conns : SocketFiled(validated[c], c, ledger, approved, strayed)
    <3>1. \A c \in Conns : /\ validated[c].requestedID = sock[c].requestedID
                           /\ validated[c].dataBuffer = sock[c].dataBuffer
                           /\ validated[c].isAuthenticated = sock[c].isAuthenticated
      BY <1>a DEF SocketInformation
    <3> QED  BY <1>a, <3>1 DEF SocketFiled
  <2>3. Deliver(validated, {Sa}, Validated) \/ Ignore
    BY <1>7 DEF TreatValidateServer
  <2>4. UNCHANGED <<g_requestedID, ledger>>
    BY <1>7 DEF TreatValidateServer
  <2> HIDE DEF validated
  <2> QED  BY <1>b, <1>c, <2>1, <2>2, <2>3, <2>4, PlainMessages
<1>8. ASSUME NEW id \in AnswerIds, Treating(id)
      PROVE  /\ p.rid \in Nat
             /\ \/ <<id, p.rid>> \in strayed
                \/ /\ p.rid # 0 => Filed(p.rid, OpAnswered(id), ledger)
                   /\ id = "AUTHENTICATE_WEB_SUCCESS" => p.rid \in approved
  <2>1. p.id = id /\ p.rid \in Nat
    BY <1>0, <1>8, PacketFields DEF Treating
  <2>2. 1 \in DOMAIN batch /\ p = batch[1]
    BY <1>0 DEF TypeInv, TypeOK, PhaseOK
  <2>3. AnswerFiled(p, ledger, approved, strayed)
    BY <2>2 DEF RequestInv, NetworkOK
  <2> QED  BY <1>8, <2>1, <2>3 DEF AnswerFiled
<1>9. ASSUME NEW id \in AnswerIds, NEW info \in [Conns -> SocketInformation],
             Treating(id), Inform(id, info),
             \A c \in Conns : SocketFiled(info[c], c, ledger, approved, strayed)
      PROVE  RequestInv'
  <2> DEFINE m == Informed(id, p.rid)
  <2>1. UNCHANGED <<g_requestedID, ledger>>
    BY <1>9 DEF Inform
  <2>2. Deliver(info, Asking(p.rid), m) \/ Ignore
    BY <1>9 DEF Inform
  <2>3. m.kind = id /\ m.rid = p.rid
    BY DEF Informed
  <2>4. RequestFiled(m, ledger)
    BY <1>9, <2>3 DEF RequestFiled, Ops, AnswerIds
  <2>5. \A c \in Conns : c \in Asking(p.rid) => HeldFiled(m, c, ledger, strayed)
    BY <1>8, <1>9, <1>a, <2>3 DEF Asking, SocketFiled, HeldFiled, Filed
  <2>6. Grows(ledger, ledger') /\ g_requestedID' = Len(ledger') /\ ledger' = ledger
    BY <2>1, SameLedger
  <2> HIDE DEF m
  <2>7. CASE Deliver(info, Asking(p.rid), m)
    BY <1>0, <1>9, <2>4, <2>5, <2>6, <2>7, DeliverFiled
  <2> QED  BY <1>c, <2>1, <2>2, <2>7
<1>10. CASE TreatCreateSuccess \/ TreatCreateFailure \/ TreatAuthFailure
  BY <1>9, <1>10, <1>a DEF TreatCreateSuccess, TreatCreateFailure, TreatAuthFailure, AnswerIds
<1>11. CASE TreatAuthSuccess
  <2> DEFINE info == Authenticated(Asking(p.rid))
  <2>1. info \in [Conns -> SocketInformation]
    BY <1>a DEF Authenticated, SocketInformation
  <2>2. /\ Treating("AUTHENTICATE_WEB_SUCCESS") /\ "AUTHENTICATE_WEB_SUCCESS" \in AnswerIds
        /\ Inform("AUTHENTICATE_WEB_SUCCESS", info)
    BY <1>11 DEF TreatAuthSuccess, AnswerIds
  <2>3. \/ <<"AUTHENTICATE_WEB_SUCCESS", p.rid>> \in strayed
        \/ p.rid \in approved /\ Filed(p.rid, "AUTHENTICATE_WEB", ledger)
    BY <1>8, <2>2 DEF RequestInv, LedgerOK
  <2>4. \A c \in Conns : SocketFiled(info[c], c, ledger, approved, strayed)
    <3>1. \A c \in Conns : /\ info[c].requestedID = sock[c].requestedID
                           /\ info[c].dataBuffer = sock[c].dataBuffer
                           /\ c \notin Asking(p.rid) =>
                                info[c].isAuthenticated = sock[c].isAuthenticated
      BY <1>a DEF Authenticated, SocketInformation
    <3>2. ASSUME NEW c \in Conns, c \in Asking(p.rid)
          PROVE  Approved(c, ledger, approved) \/ Strayed(c, ledger, strayed)
      <4>1. sock[c].requestedID = p.rid
        BY <3>2 DEF Asking
      <4>2. p.rid # 0 => p.rid \in DOMAIN ledger /\ ledger[p.rid].conn = c
        BY <1>a, <4>1 DEF SocketFiled
      <4>3. CASE <<"AUTHENTICATE_WEB_SUCCESS", p.rid>> \in strayed
        BY <4>2, <4>3 DEF Strayed
      <4>4. CASE p.rid \in approved /\ Filed(p.rid, "AUTHENTICATE_WEB", ledger)
        <5>1. \A L \in Ledgers : 0 \notin DOMAIN L
          BY DEF Ledgers
        <5>2. p.rid # 0
          BY <4>4, <5>1 DEF Filed, TypeInv, TypeOK, Ledgers, Ops
        <5> QED  BY <4>2, <4>4, <5>2 DEF Approved, Filed
      <4> QED  BY <2>3, <4>3, <4>4
    <3> HIDE DEF info
    <3> QED  BY <1>a, <3>1, <3>2 DEF SocketFiled
  <2> HIDE DEF info
  <2> QED  BY <1>9, <2>1, <2>2, <2>4
<1> QED
  BY <1>1, <1>2, <1>3, <1>4, <1>6, <1>7, <1>10, <1>11 DEF TreatMessage

\* A step that changes a connection to a well-filed one, and nothing else
\* that carries a request id.
LEMMA SocketStepFiled ==
  ASSUME TypeInv, RequestInv, NEW c \in Conns, NEW si,
         sock' = [sock EXCEPT ![c] = si], SocketFiled(si, c, ledger, approved, strayed),
         UNCHANGED <<g_requestedID, ledger, approved, strayed>>
  PROVE  LedgerOK' /\ SocketsOK'
<1>1. LedgerOK'
  BY DEF RequestInv, LedgerOK
<1>2. SocketsOK'
  BY DEF RequestInv, SocketsOK, TypeInv, TypeOK
<1> QED  BY <1>1, <1>2

\* A receive buffer in place of a message is filed.
LEMMA ReadIntoFiled ==
  ASSUME TypeInv, RequestInv, NEW c \in Conns, ReadInto(c),
         UNCHANGED <<g_requestedID, ledger, approved, strayed>>
  PROVE  LedgerOK' /\ SocketsOK'
<1> DEFINE si == [sock[c] EXCEPT !.dataBuffer = OwnBuffer]
<1>1. /\ sock[c] \in SocketInformation /\ SocketFiled(sock[c], c, ledger, approved, strayed)
      /\ sock \in [Conns -> SocketInformation]
  BY DEF TypeInv, TypeOK, RequestInv, SocketsOK
<1>2. sock' = [sock EXCEPT ![c] = si]
  BY <1>1 DEF ReadInto
<1>3. /\ si.requestedID = sock[c].requestedID /\ si.isAuthenticated = sock[c].isAuthenticated
      /\ si.dataBuffer = OwnBuffer
  BY <1>1 DEF SocketInformation
<1>4. SocketFiled(si, c, ledger, approved, strayed)
  BY <1>1, <1>3, PlainMessages DEF SocketFiled, RequestFiled, HeldFiled, Plain
<1> HIDE DEF si
<1> QED  BY <1>2, <1>4, SocketStepFiled

\* The recv branch of the main loop keeps the bookkeeping.
LEMMA RecvFiled ==
  ASSUME TypeInv, RequestInv, NEW i \in DOMAIN conns, Recv(i)
  PROVE  RequestInv'
<1> DEFINE c == conns[i]
<1>1. PICK k \in 0..Len(inbox[c]), lucky \in BOOLEAN : \E extra \in Extras(c, k) :
        RecvData(i, k, extra, lucky)
  BY DEF Recv
<1>2. PICK extra \in Extras(c, k) : RecvData(i, k, extra, lucky)
  BY <1>1
<1> DEFINE m == IF extra > 0 THEN k + 1 ELSE k
           n == TotalLength(LengthsOf(SubSeq(inbox[c], 1, k))) + extra
<1>3. Visit(i) /\ ReadInto(c) /\ m <= Len(inbox[c])
  BY <1>2 DEF RecvData
<1>4. c \in Conns /\ m \in Nat /\ inbox[c] \in Seq(Packets)
  BY <1>3, VisitType DEF TypeInv, TypeOK
<1>5. /\ batch' = IF skew[c] THEN <<>> ELSE Chunks(SubSeq(inbox[c], 1, m), n, lucky)
      /\ inbox' = [inbox EXCEPT ![c] = SubSeq(@, m + 1, Len(@))]
      /\ UNCHANGED <<g_requestedID, toAuth, ledger, approved, strayed>>
  BY <1>2 DEF RecvData
<1>6. LedgerOK' /\ SocketsOK'
  BY <1>3, <1>4, <1>5, ReadIntoFiled
<1>7. \A d \in Conns : \A j \in DOMAIN inbox[d] : AnswerFiled(inbox[d][j], ledger, approved, strayed)
  BY DEF RequestInv, NetworkOK
<1>8. \A j \in DOMAIN batch' : AnswerFiled(batch'[j], ledger, approved, strayed)
  <2> DEFINE packets == SubSeq(inbox[c], 1, m)
  <2>1. AnswerFiled(Junk, ledger, approved, strayed)
    BY DEF AnswerFiled, AnswerIds, Junk
  <2>2. \A j \in DOMAIN packets : packets[j] = inbox[c][j] /\ j \in DOMAIN inbox[c]
    BY <1>3, <1>4
  <2>3. \A j \in DOMAIN packets : AnswerFiled(packets[j], ledger, approved, strayed)
    BY <1>4, <1>7, <2>2
  <2> HIDE DEF packets
  <2>4. /\ DOMAIN Chunks(packets, n, lucky) = DOMAIN packets
        /\ \A j \in DOMAIN packets : Chunks(packets, n, lucky)[j] \in {packets[j], Junk}
    BY DEF Chunks
  <2>5. \A j \in DOMAIN Chunks(packets, n, lucky) :
          AnswerFiled(Chunks(packets, n, lucky)[j], ledger, approved, strayed)
    BY <2>1, <2>3, <2>4
  <2>6. CASE skew[c]
    BY <1>5, <2>6
  <2>7. CASE ~skew[c]
    BY <1>5, <2>5, <2>7 DEF packets
  <2> QED  BY <2>6, <2>7
<1>9. \A d \in Conns : \A j \in DOMAIN inbox'[d] : AnswerFiled(inbox'[d][j], ledger, approved, strayed)
  <2> DEFINE left == SubSeq(inbox[c], m + 1, Len(inbox[c]))
  <2>1. \A j \in DOMAIN left : left[j] = inbox[c][j + m] /\ j + m \in DOMAIN inbox[c]
    <3>1. Len(inbox[c]) \in Nat /\ m \in 0..Len(inbox[c])
      BY <1>3, <1>4, SMTT(20)
    <3> HIDE DEF m
    <3>2. /\ DOMAIN left = 1..Len(inbox[c]) - m
          /\ \A j \in 1..Len(inbox[c]) - m : left[j] = inbox[c][m + 1 + j - 1]
      BY <1>4, <3>1
    <3> QED  BY <3>1, <3>2, SMTT(30)
  <2>2. \A d \in Conns : inbox'[d] = IF d = c THEN left ELSE inbox[d]
    BY <1>5 DEF TypeInv, TypeOK
  <2> HIDE DEF left
  <2> QED  BY <1>4, <1>7, <2>1, <2>2
<1>10. NetworkOK'
  BY <1>5, <1>8, <1>9 DEF RequestInv, NetworkOK
<1> QED  BY <1>6, <1>10 DEF RequestInv

\* FreeSocketInformation, which erases no request, keeps the bookkeeping.
LEMMA FreeFiled ==
  ASSUME TypeInv, RequestInv, NEW i \in DOMAIN conns, Visit(i), Free(i)
  PROVE  RequestInv'
<1>1. conns[i] \in Conns
  BY VisitType
<1>2. LedgerOK' /\ SocketsOK'
  BY <1>1, FreshFiled, SocketStepFiled DEF Free
<1>3. NetworkOK'
  <2>1. \A d \in Conns : inbox'[d] = IF d = conns[i] THEN <<>> ELSE inbox[d]
    BY DEF Free, TypeInv, TypeOK
  <2> QED  BY <2>1 DEF Free, RequestInv, NetworkOK
<1> QED  BY <1>2, <1>3 DEF RequestInv

\* The send branch moves bytes to a stream and keeps the bookkeeping.
LEMMA SendFiled ==
  ASSUME TypeInv, RequestInv, NEW i \in DOMAIN conns, SendData(i)
  PROVE  RequestInv'
<1> DEFINE c == conns[i]
           si == [sock[c] EXCEPT !.hasNewData = FALSE]
<1>1. c \in Conns
  BY VisitType DEF SendData
<1>2. /\ sock[c] \in SocketInformation /\ SocketFiled(sock[c], c, ledger, approved, strayed)
      /\ sock \in [Conns -> SocketInformation]
  BY <1>1 DEF TypeInv, TypeOK, RequestInv, SocketsOK
<1>3. sock' = [sock EXCEPT ![c] = si] /\ UNCHANGED <<g_requestedID, ledger, approved, strayed>>
  BY <1>2 DEF SendData, Flushed
<1>4. /\ si.requestedID = sock[c].requestedID /\ si.isAuthenticated = sock[c].isAuthenticated
      /\ si.dataBuffer = sock[c].dataBuffer
  BY <1>2 DEF SocketInformation
<1>5. SocketFiled(si, c, ledger, approved, strayed)
  BY <1>2, <1>4 DEF SocketFiled
<1>6. LedgerOK' /\ SocketsOK'
  <2> HIDE DEF si
  <2> QED  BY <1>1, <1>3, <1>5, SocketStepFiled
<1>7. \A a \in AuthServers : \A j \in DOMAIN toAuth'[a] : RequestFiled(toAuth'[a][j], ledger)
  <2> SUFFICES ASSUME NEW a \in AuthServers, NEW j \in DOMAIN toAuth'[a]
               PROVE  RequestFiled(toAuth'[a][j], ledger)
    OBVIOUS
  <2>1. toAuth[a] \in Seq(Buffers) /\ \A l \in DOMAIN toAuth[a] : RequestFiled(toAuth[a][l], ledger)
    BY DEF TypeInv, TypeOK, RequestInv, NetworkOK
  <2>2. RequestFiled(sock[c].dataBuffer, ledger) /\ sock[c].dataBuffer \in Buffers
    BY <1>2 DEF SocketFiled, SocketInformation
  <2>3. toAuth'[a] = toAuth[a] \/ toAuth'[a] = Append(toAuth[a], sock[c].dataBuffer)
    BY DEF SendData, TypeInv, TypeOK
  <2>4. CASE toAuth'[a] = toAuth[a]
    BY <2>1, <2>4
  <2>5. CASE toAuth'[a] = Append(toAuth[a], sock[c].dataBuffer)
    <3>1. j \in 1..Len(toAuth[a]) + 1
      BY <2>1, <2>2, <2>5
    <3>2. toAuth'[a][j] = IF j = Len(toAuth[a]) + 1 THEN sock[c].dataBuffer ELSE toAuth[a][j]
      BY <2>1, <2>2, <2>5, <3>1
    <3>3. j # Len(toAuth[a]) + 1 => j \in DOMAIN toAuth[a]
      BY <2>1, <3>1
    <3> QED  BY <2>1, <2>2, <3>2, <3>3
  <2> QED  BY <2>3, <2>4, <2>5
<1>8. NetworkOK'
  BY <1>7 DEF SendData, RequestInv, NetworkOK
<1> QED  BY <1>6, <1>8 DEF RequestInv

\* Every step of the chat server keeps the bookkeeping.
LEMMA ServerFiled ==
  ASSUME TypeInv, RequestInv, ServerStep
  PROVE  RequestInv'
<1>1. CASE Select
  BY <1>1 DEF Select, SelectReady, peerVars, RequestInv, LedgerOK, SocketsOK, NetworkOK
<1>2. CASE Accept
  <2>1. Head(backlog) \in Conns
    BY <1>2 DEF Accept, TypeInv, TypeOK, PhaseOK
  <2>2. LedgerOK' /\ SocketsOK'
    BY <1>2, <2>1, FreshFiled, SocketStepFiled DEF Accept
  <2> QED  BY <1>2, <2>2 DEF Accept, RequestInv, NetworkOK
<1>3. CASE AcceptNothing
  BY <1>3 DEF AcceptNothing, RequestInv, LedgerOK, SocketsOK, NetworkOK
<1>4. ASSUME NEW i \in DOMAIN conns, RecvWouldBlock(i)
      PROVE  RequestInv'
  <2>1. conns[i] \in Conns
    BY <1>4, VisitType DEF RecvWouldBlock
  <2>2. LedgerOK' /\ SocketsOK'
    BY <1>4, <2>1, ReadIntoFiled DEF RecvWouldBlock
  <2> QED  BY <1>4, <2>2 DEF RecvWouldBlock, peerVars, RequestInv, NetworkOK
<1>5. ASSUME NEW i \in DOMAIN conns, SendWouldBlock(i)
      PROVE  RequestInv'
  BY <1>5 DEF SendWouldBlock, peerVars, RequestInv, LedgerOK, SocketsOK, NetworkOK
<1>6. ASSUME NEW i \in DOMAIN conns, RecvGone(i) \/ SendGone(i)
      PROVE  RequestInv'
  BY <1>6, FreeFiled DEF RecvGone, SendGone
<1> QED
  BY <1>1, <1>2, <1>3, <1>4, <1>5, <1>6, RecvFiled, SendFiled, TreatFiled DEF ServerStep

\* A packet that is filed, sent to the server, leaves everything filed.
LEMMA ArrivalFiled ==
  ASSUME TypeInv, RequestInv, NEW c \in Conns, NEW p \in Packets, NEW A, NEW S,
         inbox' = [inbox EXCEPT ![c] = Append(@, p)],
         approved \subseteq A, strayed \subseteq S, AnswerFiled(p, ledger, A, S)
  PROVE  \A d \in Conns : \A j \in DOMAIN inbox'[d] : AnswerFiled(inbox'[d][j], ledger, A, S)
<1> SUFFICES ASSUME NEW d \in Conns, NEW j \in DOMAIN inbox'[d]
             PROVE  AnswerFiled(inbox'[d][j], ledger, A, S)
  OBVIOUS
<1>1. inbox[d] \in Seq(Packets) /\ \A l \in DOMAIN inbox[d] : AnswerFiled(inbox[d][l], ledger, A, S)
  <2>1. Grows(ledger, ledger)
    BY DEF Grows
  <2> QED  BY <2>1, FiledKept DEF TypeInv, TypeOK, RequestInv, NetworkOK
<1>2. inbox'[d] = IF d = c THEN Append(inbox[d], p) ELSE inbox[d]
  BY DEF TypeInv, TypeOK
<1>3. CASE d = c
  <2>1. j \in 1..Len(inbox[d]) + 1
    BY <1>1, <1>2, <1>3
  <2>2. inbox'[d][j] = IF j = Len(inbox[d]) + 1 THEN p ELSE inbox[d][j]
    BY <1>1, <1>2, <1>3, <2>1
  <2>3. j # Len(inbox[d]) + 1 => j \in DOMAIN inbox[d]
    BY <1>1, <2>1
  <2> QED  BY <1>1, <2>2, <2>3
<1>4. CASE d # c
  BY <1>1, <1>2, <1>4
<1> QED  BY <1>3, <1>4

\* A client's command brings no request id into the system.
LEMMA SubmitFiled ==
  ASSUME TypeInv, RequestInv, NEW c \in Conns, NEW p \in Packets, p.id \notin AnswerIds,
         Submit(c, p)
  PROVE  RequestInv'
<1>1. AnswerFiled(p, ledger, approved, strayed)
  BY DEF AnswerFiled
<1>2. inbox' = [inbox EXCEPT ![c] = Append(@, p)]
  BY DEF Submit
<1>3. \A d \in Conns : \A j \in DOMAIN inbox'[d] : AnswerFiled(inbox'[d][j], ledger, approved, strayed)
  BY <1>1, <1>2, ArrivalFiled
<1>4. NetworkOK'
  BY <1>3 DEF Submit, serverVars, RequestInv, NetworkOK
<1> QED
  BY <1>4 DEF Submit, serverVars, RequestInv, LedgerOK, SocketsOK

\* The authentication server answers a request under the id it came with, or several
\* under one that is recorded.
LEMMA AuthReadFiled ==
  ASSUME TypeInv, RequestInv, NEW a \in AuthServers, NEW k \in DOMAIN toAuth[a], AuthRead(a, k)
  PROVE  RequestInv'
<1>1. /\ toAuth[a] \in Seq(Buffers) /\ k \in 1..Len(toAuth[a])
      /\ \A j \in DOMAIN toAuth[a] : RequestFiled(toAuth[a][j], ledger)
  BY DEF TypeInv, TypeOK, RequestInv, NetworkOK
<1>2. UNCHANGED <<g_requestedID, ledger, sock, batch>>
  BY DEF AuthRead, serverVars
<1>3. \A b \in AuthServers : \A j \in DOMAIN toAuth'[b] : RequestFiled(toAuth'[b][j], ledger)
  <2> DEFINE left == SubSeq(toAuth[a], k + 1, Len(toAuth[a]))
  <2>1. \A j \in DOMAIN left : left[j] = toAuth[a][j + k] /\ j + k \in DOMAIN toAuth[a]
    <3>1. Len(toAuth[a]) \in Nat /\ k \in 1..Len(toAuth[a])
      BY <1>1
    <3>2. /\ DOMAIN left = 1..Len(toAuth[a]) - k
          /\ \A j \in 1..Len(toAuth[a]) - k : left[j] = toAuth[a][k + 1 + j - 1]
      BY <1>1, <3>1
    <3> QED  BY <1>1, <3>1, <3>2, SMTT(20)
  <2>2. \A b \in AuthServers : toAuth'[b] = IF b = a THEN left ELSE toAuth[b]
    BY DEF AuthRead, TypeInv, TypeOK
  <2> HIDE DEF left
  <2> QED  BY <1>1, <2>1, <2>2 DEF RequestInv, NetworkOK
<1>4. CASE UNCHANGED <<inbox, approved, strayed>>
  BY <1>2, <1>3, <1>4 DEF RequestInv, LedgerOK, SocketsOK, NetworkOK
<1>5. ASSUME NEW answer \in AnswersTo(SubSeq(toAuth[a], 1, k)),
             inbox' = [inbox EXCEPT ![a] = Append(@, answer)],
             approved' = IF k = 1 /\ answer.id = "AUTHENTICATE_WEB_SUCCESS"
                         THEN approved \union {answer.rid} ELSE approved,
             strayed' = IF k = 1 THEN strayed
                        ELSE strayed \union {<<answer.id, answer.rid>>}
      PROVE  RequestInv'
  <2> DEFINE ms == SubSeq(toAuth[a], 1, k)
             m == Head(ms)
  <2>1. RequestFiled(m, ledger) /\ Len(ms) = k
    BY <1>1
  <2>2. answer \in AnswerPackets /\ answer \in Packets
    BY AnswersType DEF Packets
  <2>3. answer.id \in AnswerIds /\ answer.rid \in Nat
    BY <2>2 DEF AnswerPackets
  <2>4. k = 1 =>
          /\ answer.rid # 0 => Filed(answer.rid, OpAnswered(answer.id), ledger)
          /\ answer.id = "AUTHENTICATE_WEB_SUCCESS" =>
               Filed(answer.rid, "AUTHENTICATE_WEB", ledger)
    <3> SUFFICES ASSUME k = 1
                 PROVE  /\ answer.rid # 0 => Filed(answer.rid, OpAnswered(answer.id), ledger)
                        /\ answer.id = "AUTHENTICATE_WEB_SUCCESS" =>
                             Filed(answer.rid, "AUTHENTICATE_WEB", ledger)
      OBVIOUS
    <3>1. m \in Requests /\ m.kind \in Ops
      BY DEF AnswersTo, Requests, Ops
    <3>2. Filed(m.rid, m.kind, ledger)
      BY <2>1, <3>1 DEF RequestFiled
    <3>3. CASE answer = Answer("AUTHENTICATE_WEB_FAILURE", 0, 0)
      BY <3>3 DEF Answer
    <3>4. ASSUME NEW id \in Outcomes(m.kind), NEW date, answer = Answer(id, m.rid, date)
          PROVE  /\ answer.rid # 0 => Filed(answer.rid, OpAnswered(answer.id), ledger)
                 /\ answer.id = "AUTHENTICATE_WEB_SUCCESS" =>
                      Filed(answer.rid, "AUTHENTICATE_WEB", ledger)
      BY <3>1, <3>2, <3>4 DEF Answer, Outcomes, OpAnswered, Ops
    <3>5. CASE ~Garbled(m)
      <4>1. OpOf(m) = m.kind /\ RidOf(m) = m.rid
        BY <3>5 DEF OpOf, RidOf
      <4>2. answer \in UNION {{Answer(id, rid, date) : rid \in {m.rid}, date \in Dates(id)} :
                               id \in Outcomes(m.kind)}
        BY <2>1, <3>1, <3>5, <4>1 DEF AnswersTo
      <4>3. PICK id \in Outcomes(m.kind) :
              answer \in {Answer(id, rid, date) : rid \in {m.rid}, date \in Dates(id)}
        BY <4>2
      <4>4. \E date \in Dates(id) : answer = Answer(id, m.rid, date)
        BY <4>3
      <4> QED  BY <3>4, <4>4
    <3> HIDE DEF m
    <3> QED  BY <2>1, <3>1, <3>3, <3>5 DEF AnswersTo, m
  <2>5. /\ approved \subseteq approved' /\ strayed \subseteq strayed'
        /\ AnswerFiled(answer, ledger, approved', strayed')
    <3>1. approved \subseteq approved' /\ strayed \subseteq strayed'
      BY <1>5
    <3>2. CASE k = 1
      <4>1. answer.id = "AUTHENTICATE_WEB_SUCCESS" => answer.rid \in approved'
        BY <1>5, <3>2
      <4> QED  BY <2>4, <3>1, <3>2, <4>1 DEF AnswerFiled
    <3>3. CASE k # 1
      <4>1. <<answer.id, answer.rid>> \in strayed'
        BY <1>5, <3>3
      <4> QED  BY <3>1, <4>1 DEF AnswerFiled
    <3> QED  BY <3>2, <3>3
  <2>6. \A d \in Conns : \A j \in DOMAIN inbox'[d] : AnswerFiled(inbox'[d][j], ledger, approved', strayed')
    <3>1. a \in Conns /\ inbox' = [inbox EXCEPT ![a] = Append(@, answer)]
      BY <1>5
    <3> DEFINE A == approved'
               S == strayed'
    <3>2. approved \subseteq A /\ strayed \subseteq S /\ AnswerFiled(answer, ledger, A, S)
      BY <2>5
    <3> HIDE DEF A, S
    <3>3. \A d \in Conns : \A j \in DOMAIN inbox'[d] : AnswerFiled(inbox'[d][j], ledger, A, S)
      BY <2>2, <3>1, <3>2, ArrivalFiled
    <3> QED  BY <3>3 DEF A, S
  <2>7. Grows(ledger, ledger)
    BY DEF Grows
  <2>8. LedgerOK'
    BY <1>2, <1>5, <2>4 DEF RequestInv, LedgerOK
  <2>9. SocketsOK'
    BY <1>2, <2>5, <2>7, FiledKept DEF RequestInv, SocketsOK
  <2>10. \A j \in DOMAIN batch : AnswerFiled(batch[j], ledger, approved', strayed')
    BY <2>5, <2>7, FiledKept DEF RequestInv, NetworkOK
  <2>11. NetworkOK'
    BY <1>2, <1>3, <2>6, <2>10 DEF NetworkOK
  <2> QED  BY <2>8, <2>9, <2>11 DEF RequestInv
<1> QED  BY <1>4, <1>5 DEF AuthRead

\* Every step of the peers keeps the bookkeeping.
LEMMA PeerFiled ==
  ASSUME TypeInv, RequestInv, PeerStep
  PROVE  RequestInv'
<1>1. ASSUME NEW c \in Conns, Connect(c) \/ Disconnect(c)
      PROVE  RequestInv'
  BY <1>1 DEF Connect, Disconnect, serverVars, RequestInv, LedgerOK, SocketsOK, NetworkOK
<1>2. ASSUME NEW c \in Clients, NEW p \in ClientPackets, ClientSend(c, p)
      PROVE  RequestInv'
  <2>1. p \in Packets /\ p.id \notin AnswerIds
    BY DEF Packets, ClientPackets, AnswerIds
  <2> QED  BY <1>2, <2>1, SubmitFiled DEF ClientSend
<1>3. ASSUME NEW a \in AuthServers, NEW p \in ValidatePackets, AuthValidate(a, p)
      PROVE  RequestInv'
  <2>1. p \in Packets /\ p.id \notin AnswerIds
    BY DEF Packets, ValidatePackets, AnswerIds
  <2> QED  BY <1>3, <2>1, SubmitFiled DEF AuthValidate
<1> QED  BY <1>1, <1>2, <1>3, AuthReadFiled DEF PeerStep

\* RequestInv is inductive, given the types.
LEMMA NextFiled == TypeInv /\ RequestInv /\ [Next]_vars => RequestInv'
<1> SUFFICES ASSUME TypeInv, RequestInv, [Next]_vars PROVE RequestInv'
  OBVIOUS
<1>1. CASE UNCHANGED vars
  BY <1>1 DEF vars, serverVars, peerVars, RequestInv, LedgerOK, SocketsOK, NetworkOK
<1>2. CASE Fail
  BY <1>2 DEF Fail, peerVars, RequestInv, LedgerOK, SocketsOK, NetworkOK
<1> QED  BY <1>1, <1>2, ServerFiled, PeerFiled DEF Next

-----------------------------------------------------------------------------
\* The inductive invariant holds of every behaviour.
THEOREM RequestsFiled == Spec => []RequestInv
BY InitFiled, NextFiled, TypeInvariant, PTL DEF Spec

\* No two connections ever wait under one request id, and the id a connection
\* waits under is of a request it made itself.
THEOREM RequestIdsUnique == Spec => []UniqueRequest
<1>1. RequestInv => UniqueRequest
  BY DEF RequestInv, SocketsOK, SocketFiled, UniqueRequest
<1> QED  BY <1>1, RequestsFiled, PTL

\* An answer that waits to be sent to a connection stands under the id of a request of
\* that connection, and is of the kind it asked for unless it was given to several
\* requests at once (theMain.cpp:701, 731, 790, 821).
THEOREM AnswersReachOwners == Spec => []AnswerToOwner
<1>1. RequestInv => AnswerToOwner
  BY DEF RequestInv, SocketsOK, SocketFiled, HeldFiled, AnswerToOwner, OpAnswered, AnswerIds
<1> QED  BY <1>1, RequestsFiled, PTL

\* A connection is authenticated only after an authentication server approved the
\* credentials which that connection itself sent, or read several requests at once and
\* its approval fell on this connection (theMain.cpp:790-792).
THEOREM OnlyApprovedAuthenticated == Spec => []AuthenticatedByAnswer
<1>1. RequestInv => AuthenticatedByAnswer
  BY DEF RequestInv, SocketsOK, SocketFiled, Approved, Strayed, StrayApproval,
         AuthenticatedByAnswer
<1> QED  BY <1>1, RequestsFiled, PTL

-----------------------------------------------------------------------------
\* What the service shows of the server's state, as ChatServer maps it.
Authed == {c \in Conns : sock[c].isAuthenticated}

Member == {m \in Conns \X Rooms : m[2] \in sock[m[1]].rooms}

MailOf(si) ==
  IF si.hasNewData /\ si.dataBuffer.kind = "text"
  THEN [from |-> si.dataBuffer.from, body |-> si.dataBuffer.body] ELSE NoMail

Mail == [c \in Conns |-> MailOf(sock[c])]

\* The inductive invariant.  A connection that is not in g_socketArray has
\* nothing left of an earlier life, and whoever was ever in a room has a name.
OfflineFresh == \A c \in Conns \ Online : sock[c] = Fresh

NamedOK == \A c \in Conns : sock[c].rooms # {} => sock[c].userName = NameOf[c]

ServiceInv == TypeInv /\ ArrayOK /\ RequestInv /\ OfflineFresh /\ NamedOK

-----------------------------------------------------------------------------
\* The service's steps in these terms.

\* The mapping of ChatServer is the one above.
LEMMA FewerIs ==
  /\ Service!Fewer <=> \E gone \in SUBSET Conns :
       Mail' = [c \in Conns |-> IF c \in gone THEN NoMail ELSE Mail[c]]
  /\ Service!vars = <<Online, Authed, Member, Mail>>
BY DEF Service!Fewer, Service!vars, Mail, MailOf, Authed, Member

\* Each step of the service, in terms of what it shows of the server.
LEMMA PassStep ==
  ASSUME Service!Fewer, UNCHANGED <<Online, Authed, Member>>
  PROVE  Service!Next
BY DEF Service!Next, Service!Pass, Authed, Member

\* A connection arrives.
LEMMA ArriveStep ==
  ASSUME NEW c \in Conns, c \notin Online, Online' = Online \union {c},
         UNCHANGED <<Authed, Member, Mail>>
  PROVE  Service!Next
BY DEF Service!Next, Service!Arrive, Authed, Member, Mail, MailOf

\* A connection departs.
LEMMA DepartStep ==
  ASSUME NEW c \in Conns, c \in Online, Online' = Online \ {c}, Authed' = Authed \ {c},
         Member' = {m \in Member : m[1] # c}, Mail' = [Mail EXCEPT ![c] = NoMail]
  PROVE  Service!Next
BY DEF Service!Next, Service!Depart, Authed, Member, Mail, MailOf

\* Some connections are authenticated.
LEMMA GrantStep ==
  ASSUME NEW to \in SUBSET Conns, to \subseteq Online, Authed' = Authed \union to,
         Service!Fewer,
         UNCHANGED <<Online, Member>>
  PROVE  Service!Next
BY DEF Service!Next, Service!Grant, Authed, Member

\* A connection joins a room.
LEMMA JoinStep ==
  ASSUME NEW c \in Conns, NEW r \in Rooms, c \in Authed, Member' = Member \union {<<c, r>>},
         Service!Fewer, UNCHANGED <<Online, Authed>>
  PROVE  Service!Next
BY DEF Service!Next, Service!Join, Authed, Member

\* A connection leaves a room.
LEMMA LeaveStep ==
  ASSUME NEW c \in Conns, NEW r \in Rooms, Member' = Member \ {<<c, r>>},
         Service!Fewer, UNCHANGED <<Online, Authed>>
  PROVE  Service!Next
BY DEF Service!Next, Service!Leave, Authed, Member

\* Those who share a room with a connection.
Roommates(c) == {d \in Conns : \E r \in Rooms : <<c, r>> \in Member /\ <<d, r>> \in Member}

\* A connection posts a text.
LEMMA PostStep ==
  ASSUME NEW c \in Conns, NEW body \in Texts \union {0},
         Mail' = [d \in Conns |-> IF d \in Roommates(c)
                                  THEN [from |-> NameOf[c], body |-> body] ELSE Mail[d]],
         UNCHANGED <<Online, Authed, Member>>
  PROVE  Service!Next
BY DEF Service!Next, Service!Post, Service!Roommates, Service!Letter, Roommates,
       Authed, Member, Mail, MailOf

\* The service shows the same of connections that keep the parts it shows.
LEMMA SameView ==
  ASSUME Online' = Online
  PROVE  /\ (\A c \in Conns : sock'[c].isAuthenticated = sock[c].isAuthenticated) =>
              Authed' = Authed
         /\ (\A c \in Conns : sock'[c].rooms = sock[c].rooms) => Member' = Member
<1>1. ASSUME \A c \in Conns : sock'[c].isAuthenticated = sock[c].isAuthenticated
      PROVE  Authed' = Authed
  BY <1>1 DEF Authed
<1>2. ASSUME \A c \in Conns : sock'[c].rooms = sock[c].rooms
      PROVE  Member' = Member
  <2>1. Member' = {m \in Conns \X Rooms : m[2] \in sock'[m[1]].rooms}
    BY DEF Member
  <2>2. \A m \in Conns \X Rooms : m[1] \in Conns
    OBVIOUS
  <2> QED  BY <1>2, <2>1, <2>2 DEF Member
<1> QED  BY <1>1, <1>2

\* Texts that are gone, or were replaced by something else, are lost.
LEMMA FewerMail ==
  ASSUME \A c \in Conns : MailOf(sock'[c]) \in {MailOf(sock[c]), NoMail}
  PROVE  Service!Fewer
<1> DEFINE gone == {c \in Conns : MailOf(sock'[c]) = NoMail}
<1>1. Mail' = [c \in Conns |-> MailOf(sock'[c])]
  BY DEF Mail
<1>2. Mail' = [c \in Conns |-> IF c \in gone THEN NoMail ELSE Mail[c]]
  BY <1>1 DEF Mail
<1>3. gone \in SUBSET Conns
  OBVIOUS
<1> HIDE DEF gone
<1> QED  BY <1>2, <1>3, FewerIs

\* A step that only loses texts.
LEMMA PassBy ==
  ASSUME Online' = Online,
         \A c \in Conns : /\ sock'[c].isAuthenticated = sock[c].isAuthenticated
                          /\ sock'[c].rooms = sock[c].rooms
                          /\ MailOf(sock'[c]) \in {MailOf(sock[c]), NoMail}
  PROVE  Service!Next
<1>1. Authed' = Authed /\ Member' = Member
  BY SameView
<1>2. Service!Fewer
  BY FewerMail
<1> QED  BY <1>1, <1>2, PassStep

-----------------------------------------------------------------------------
\* treatMessage.

\* What a message is to somebody who is given it: a text, or no text.
LEMMA MailOfMessage ==
  ASSUME NEW si \in SocketInformation, NEW m
  PROVE  /\ Holding(si, m).isAuthenticated = si.isAuthenticated
         /\ Holding(si, m).rooms = si.rooms /\ Holding(si, m).userName = si.userName
         /\ m.kind # "text" => MailOf(Holding(si, m)) = NoMail
         /\ \A n, b : m = Text(n, b) => MailOf(Holding(si, m)) = [from |-> n, body |-> b]
BY DEF Holding, SocketInformation, MailOf, Text

\* What a connection shows after a message was treated: the message, if it was
\* given one, and otherwise what it showed.
LEMMA DeliverShows ==
  ASSUME NEW info \in [Conns -> SocketInformation], NEW to, NEW m, Deliver(info, to, m),
         \A c \in Conns : SameMessage(sock[c], info[c])
  PROVE  /\ Online' = Online
         /\ \A c \in Conns : /\ sock'[c].isAuthenticated = info[c].isAuthenticated
                             /\ sock'[c].rooms = info[c].rooms
                             /\ sock'[c].userName = info[c].userName
         /\ \A c \in Conns : c \notin to => sock'[c] = info[c] /\ MailOf(sock'[c]) = MailOf(sock[c])
         /\ \A c \in to \intersect Conns : sock'[c] = Holding(info[c], m)
<1>1. /\ sock' = [c \in Conns |-> IF c \in to THEN Holding(info[c], m) ELSE info[c]]
      /\ conns' = conns
  BY DEF Deliver
<1>2. Online' = Online
  BY <1>1 DEF Online
<1>3. \A c \in Conns : sock'[c] = IF c \in to THEN Holding(info[c], m) ELSE info[c]
  BY <1>1
<1>4. \A c \in Conns : /\ sock'[c].isAuthenticated = info[c].isAuthenticated
                       /\ sock'[c].rooms = info[c].rooms
                       /\ sock'[c].userName = info[c].userName
  BY <1>3, MailOfMessage
<1>5. \A c \in Conns : MailOf(info[c]) = MailOf(sock[c])
  BY DEF MailOf, SameMessage
<1> QED  BY <1>2, <1>3, <1>4, <1>5

\* What connections a message is given to, and what it changes of the others,
\* keeps the invariant.
LEMMA DeliverServes ==
  ASSUME OfflineFresh,
         NEW info \in [Conns -> SocketInformation], NEW to \in SUBSET Online, NEW m,
         Deliver(info, to, m), \A c \in Conns : SameMessage(sock[c], info[c]),
         \A c \in Conns \ Online : info[c] = sock[c],
         \A c \in Conns : info[c].rooms # {} => info[c].userName = NameOf[c]
  PROVE  OfflineFresh' /\ NamedOK'
<1>1. OfflineFresh'
  BY DeliverShows DEF OfflineFresh
<1>2. NamedOK'
  BY DeliverShows DEF NamedOK
<1> QED  BY <1>1, <1>2

\* A message that is no text takes the place of texts, and shows nothing else.
LEMMA PlainPass ==
  ASSUME NEW info \in [Conns -> SocketInformation], NEW to, NEW m,
         Deliver(info, to, m), m.kind # "text",
         \A c \in Conns : SameMessage(sock[c], info[c])
  PROVE  Service!Fewer
<1>1. ASSUME NEW c \in Conns
      PROVE  MailOf(sock'[c]) \in {MailOf(sock[c]), NoMail}
  <2>1. CASE c \in to
    <3>1. sock'[c] = Holding(info[c], m) /\ info[c] \in SocketInformation
      BY <2>1, DeliverShows
    <3> QED  BY <3>1, MailOfMessage
  <2>2. CASE c \notin to
    BY <2>2, DeliverShows
  <2> QED  BY <2>1, <2>2
<1> QED  BY <1>1, FewerMail

\* The messages that are no texts.
LEMMA NoTexts ==
  /\ NullBuffer.kind # "text" /\ OwnBuffer.kind # "text"
  /\ Refusal.kind # "text" /\ Validated.kind # "text"
  /\ \A r : Connected(r).kind # "text" /\ Disconnected(r).kind # "text"
  /\ \A id \in AnswerIds : \A rid : Informed(id, rid).kind # "text"
  /\ \A op \in Ops : \A rid, cred : Request(op, rid, cred).kind # "text"
BY DEF NullBuffer, OwnBuffer, Refusal, Validated, Connected, Disconnected, Informed,
       Request, AnswerIds, Ops

\* JOIN_ROOM makes an authenticated connection a member, or changes nothing.
LEMMA JoinServes ==
  ASSUME ServiceInv, TreatJoinRoom
  PROVE  Service!Next /\ OfflineFresh' /\ NamedOK'
<1> DEFINE p == Head(batch)
           joined == [sock EXCEPT ![Sa].rooms = @ \union {p.room},
                                  ![Sa].userName = NameOf[Sa]]
<1>0. /\ Sa \in Conns /\ Sa \in Online /\ p \in Packets \union {Junk}
      /\ sock \in [Conns -> SocketInformation] /\ Online \subseteq Conns
  BY SaType, SMTT(20) DEF ServiceInv, TypeInv, TypeOK, TreatJoinRoom, Treating, Online, ToSet
<1>1. p.room \in Rooms
  BY <1>0, PacketFields DEF TreatJoinRoom, Treating
<1>2. joined \in [Conns -> SocketInformation]
  BY <1>0, <1>1 DEF SocketInformation, UserNames
<1>3. \A c \in Conns : SameMessage(sock[c], joined[c]) /\ SameMessage(sock[c], sock[c])
  BY <1>0 DEF SocketInformation, SameMessage
<1>4. /\ \A c \in Conns : joined[c].isAuthenticated = sock[c].isAuthenticated
      /\ \A c \in Conns : c # Sa => joined[c] = sock[c]
      /\ joined[Sa].rooms = sock[Sa].rooms \union {p.room}
      /\ joined[Sa].userName = NameOf[Sa]
  BY <1>0 DEF SocketInformation
<1> HIDE DEF joined
<1>5. CASE /\ sock[Sa].isAuthenticated
           /\ Deliver(joined, InRoom(joined, p.room), Connected(p.room))
  <2>1. InRoom(joined, p.room) \in SUBSET Online
    BY DEF InRoom
  <2>2. OfflineFresh' /\ NamedOK'
    BY <1>0, <1>2, <1>3, <1>4, <1>5, <2>1, DeliverServes, ZenonT(40) DEF ServiceInv, NamedOK
  <2>3. Service!Fewer
    BY <1>2, <1>3, <1>5, NoTexts, PlainPass
  <2>4. /\ Online' = Online
        /\ \A c \in Conns : sock'[c].isAuthenticated = sock[c].isAuthenticated
        /\ \A c \in Conns : sock'[c].rooms = joined[c].rooms
    BY <1>2, <1>3, <1>4, <1>5, DeliverShows
  <2>5. Authed' = Authed
    BY <2>4, SameView
  <2>6. Member' = Member \union {<<Sa, p.room>>}
    <3>1. Member' = {m \in Conns \X Rooms : m[2] \in sock'[m[1]].rooms}
      BY DEF Member
    <3>2. ASSUME NEW c \in Conns, NEW r \in Rooms
          PROVE  r \in sock'[c].rooms <=> r \in sock[c].rooms \/ <<c, r>> = <<Sa, p.room>>
      BY <1>0, <1>4, <2>4
    <3> QED  BY <1>0, <1>1, <3>1, <3>2 DEF Member
  <2>7. Sa \in Authed
    BY <1>0, <1>5 DEF Authed
  <2> QED  BY <1>0, <1>1, <2>2, <2>3, <2>4, <2>5, <2>6, <2>7, JoinStep
<1>6. CASE Deliver(sock, {Sa}, Refusal)
  <2>1. OfflineFresh' /\ NamedOK'
    BY <1>0, <1>3, <1>6, DeliverServes DEF ServiceInv, NamedOK
  <2>2. Service!Fewer
    BY <1>0, <1>3, <1>6, NoTexts, PlainPass
  <2>3. Online' = Online /\ Authed' = Authed /\ Member' = Member
    BY <1>0, <1>3, <1>6, DeliverShows, SameView
  <2> QED  BY <2>1, <2>2, <2>3, PassStep
<1> QED  BY <1>5, <1>6 DEF TreatJoinRoom, joined

\* LEAVE_ROOM takes the connection out of the room, if it was in it.
LEMMA LeaveServes ==
  ASSUME ServiceInv, TreatLeaveRoom
  PROVE  Service!Next /\ OfflineFresh' /\ NamedOK'
<1> DEFINE p == Head(batch)
           left == [sock EXCEPT ![Sa].rooms =
                      IF p.room \in @ THEN (@ \ {p.room}) \union {Erased} ELSE @]
<1>0. /\ Sa \in Conns /\ Sa \in Online /\ p \in Packets \union {Junk}
      /\ sock \in [Conns -> SocketInformation]
  BY SaType DEF ServiceInv, TypeInv, TypeOK, TreatLeaveRoom, Treating
<1>1. p.room \in Rooms
  BY <1>0, PacketFields DEF TreatLeaveRoom, Treating
<1>2. left \in [Conns -> SocketInformation]
  BY <1>0, <1>1 DEF SocketInformation
<1>3. \A c \in Conns : SameMessage(sock[c], left[c])
  BY <1>0 DEF SocketInformation, SameMessage
<1>4. /\ \A c \in Conns : /\ left[c].isAuthenticated = sock[c].isAuthenticated
                          /\ left[c].userName = sock[c].userName
      /\ \A c \in Conns : c # Sa => left[c] = sock[c]
      /\ left[Sa].rooms = IF p.room \in sock[Sa].rooms
                          THEN (sock[Sa].rooms \ {p.room}) \union {Erased} ELSE sock[Sa].rooms
  BY <1>0 DEF SocketInformation
<1> HIDE DEF left
<1>5. Deliver(left, InRoom(left, p.room), Disconnected(p.room))
  BY DEF TreatLeaveRoom, left
<1>6. InRoom(left, p.room) \in SUBSET Online
  BY DEF InRoom
<1>7. \A c \in Conns : left[c].rooms # {} => left[c].userName = NameOf[c]
  BY <1>0, <1>4 DEF ServiceInv, NamedOK
<1>8. OfflineFresh' /\ NamedOK'
  BY <1>0, <1>2, <1>3, <1>4, <1>5, <1>6, <1>7, DeliverServes DEF ServiceInv
<1>9. Service!Fewer
  BY <1>2, <1>3, <1>5, NoTexts, PlainPass, SMTT(20)
<1>10. /\ Online' = Online
       /\ \A c \in Conns : sock'[c].isAuthenticated = sock[c].isAuthenticated
       /\ \A c \in Conns : sock'[c].rooms = left[c].rooms
  BY <1>2, <1>3, <1>4, <1>5, DeliverShows
<1>11. Authed' = Authed
  BY <1>10, SameView
<1>12. Member' = Member \ {<<Sa, p.room>>}
  <2>1. Member' = {m \in Conns \X Rooms : m[2] \in sock'[m[1]].rooms}
    BY DEF Member
  <2>2. ASSUME NEW c \in Conns, NEW r \in Rooms
        PROVE  r \in sock'[c].rooms <=> r \in sock[c].rooms /\ <<c, r>> # <<Sa, p.room>>
    <3>1. r # Erased
      BY ConnAssumption
    <3> QED  BY <1>0, <1>4, <1>10, <3>1
  <2> QED  BY <1>0, <1>1, <2>1, <2>2 DEF Member
<1> QED  BY <1>0, <1>1, <1>8, <1>9, <1>10, <1>11, <1>12, LeaveStep

\* SEND_TEXT gives the text, under the author's name, to everybody who shares a
\* room with the author, and to nobody else.
LEMMA TextServes ==
  ASSUME ServiceInv, TreatSendText
  PROVE  Service!Next /\ OfflineFresh' /\ NamedOK'
<1> DEFINE body == ReadText(Head(batch).body)
           m == Text(sock[Sa].userName, body)
<1>0. /\ Sa \in Conns /\ Sa \in Online /\ Head(batch) \in Packets \union {Junk}
      /\ sock \in [Conns -> SocketInformation]
  BY SaType DEF ServiceInv, TypeInv, TypeOK, TreatSendText, Treating
<1>1. body \in Texts \union {0}
  BY <1>0, PacketFields, ReadTextType DEF TreatSendText, Treating
<1>2. Deliver(sock, Sharing(Sa), m)
  BY DEF TreatSendText
<1> HIDE DEF body
<1>3. \A c \in Conns : SameMessage(sock[c], sock[c])
  BY DEF SameMessage
<1>4. Sharing(Sa) \in SUBSET Online
  BY DEF Sharing
<1>5. OfflineFresh' /\ NamedOK'
  BY <1>0, <1>2, <1>3, <1>4, DeliverServes DEF ServiceInv, NamedOK
<1>6. /\ Online' = Online
      /\ \A c \in Conns : sock'[c].isAuthenticated = sock[c].isAuthenticated
      /\ \A c \in Conns : sock'[c].rooms = sock[c].rooms
      /\ \A c \in Conns : c \notin Sharing(Sa) => MailOf(sock'[c]) = MailOf(sock[c])
      /\ \A c \in Sharing(Sa) \intersect Conns : sock'[c] = Holding(sock[c], m)
  BY <1>0, <1>2, <1>3, DeliverShows
<1>7. Authed' = Authed /\ Member' = Member
  BY <1>6, SameView
<1>8. Sharing(Sa) = Roommates(Sa)
  <2>1. ASSUME NEW d \in Conns, NEW room \in sock[Sa].rooms \intersect sock[d].rooms, room # Erased
        PROVE  room \in Rooms /\ d \in Online
    <3>1. room \in Rooms
      BY <1>0, <2>1 DEF SocketInformation
    <3>2. sock[d] # Fresh
      BY <2>1 DEF Fresh
    <3> QED  BY <3>1, <3>2 DEF ServiceInv, OfflineFresh
  <2>2. \A r \in Rooms : r # Erased
    BY ConnAssumption
  <2>3. Online \subseteq Conns
    BY DEF ServiceInv, TypeInv, TypeOK, Online, ToSet
  <2>4. \A d \in Conns : d \in Roommates(Sa) <=>
          \E r \in Rooms : r \in sock[Sa].rooms /\ r \in sock[d].rooms
    BY <1>0 DEF Roommates, Member
  <2>5. Sharing(Sa) \subseteq Conns /\ Roommates(Sa) \subseteq Conns
    BY <2>3 DEF Sharing, Roommates
  <2>6. \A d \in Conns : d \in Sharing(Sa) <=>
          d \in Online /\ \E room \in sock[Sa].rooms \intersect sock[d].rooms : room # Erased
    BY DEF Sharing
  <2>7. \A d \in Conns : d \in Sharing(Sa) <=> d \in Roommates(Sa)
    BY <2>1, <2>2, <2>4, <2>6
  <2> QED  BY <2>5, <2>7
<1>9. \A c \in Sharing(Sa) \intersect Conns : MailOf(sock'[c]) = [from |-> NameOf[Sa], body |-> body]
  <2> SUFFICES ASSUME NEW c \in Sharing(Sa), c \in Conns
               PROVE  MailOf(sock'[c]) = [from |-> NameOf[Sa], body |-> body]
    OBVIOUS
  <2>1. sock[Sa].rooms # {}
    BY DEF Sharing
  <2>2. sock[Sa].userName = NameOf[Sa]
    BY <1>0, <2>1 DEF ServiceInv, NamedOK
  <2>3. sock[c] \in SocketInformation /\ sock'[c] = Holding(sock[c], m)
    BY <1>0, <1>6
  <2> QED  BY <2>2, <2>3, MailOfMessage
<1>10. Mail' = [d \in Conns |-> IF d \in Roommates(Sa)
                                THEN [from |-> NameOf[Sa], body |-> body] ELSE Mail[d]]
  <2>1. Mail' = [d \in Conns |-> MailOf(sock'[d])]
    BY DEF Mail
  <2>2. \A d \in Conns : Mail[d] = MailOf(sock[d])
    BY DEF Mail
  <2> QED  BY <1>6, <1>8, <1>9, <2>1, <2>2
<1> QED  BY <1>0, <1>1, <1>5, <1>6, <1>7, <1>10, PostStep

\* The answer to a log-in authenticates the connections that wait under its id.
LEMMA SuccessServes ==
  ASSUME ServiceInv, TreatAuthSuccess
  PROVE  Service!Next /\ OfflineFresh' /\ NamedOK'
<1> DEFINE rid == Head(batch).rid
           info == Authenticated(Asking(rid))
           m == Informed("AUTHENTICATE_WEB_SUCCESS", rid)
<1>0. /\ pc = "treat" /\ Sa \in Conns /\ Head(batch) \in Packets \union {Junk}
      /\ sock \in [Conns -> SocketInformation] /\ Online \subseteq Conns
  BY SaType DEF ServiceInv, TypeInv, TypeOK, TreatAuthSuccess, Treating, Online, ToSet
<1>1. info \in [Conns -> SocketInformation]
  BY <1>0 DEF Authenticated, SocketInformation
<1>2. \A c \in Conns : SameMessage(sock[c], info[c]) /\ SameMessage(sock[c], sock[c])
  BY <1>0 DEF Authenticated, SocketInformation, SameMessage
<1>3. \A c \in Conns : /\ info[c].rooms = sock[c].rooms /\ info[c].userName = sock[c].userName
                       /\ c \notin Asking(rid) => info[c] = sock[c]
                       /\ c \in Asking(rid) => info[c].isAuthenticated
  BY <1>0 DEF Authenticated, SocketInformation
<1> HIDE DEF info
<1>4. \/ Deliver(info, Asking(rid), m)
      \/ Deliver(sock, {}, NullBuffer)
  BY DEF TreatAuthSuccess, Inform, Ignore, info
<1>5. Asking(rid) \in SUBSET Online
  BY DEF Asking
<1>8. CASE Deliver(info, Asking(rid), m)
  <2>1. OfflineFresh' /\ NamedOK'
    BY <1>1, <1>2, <1>3, <1>5, <1>8, DeliverServes DEF ServiceInv, NamedOK
  <2>2. m.kind # "text"
    BY NoTexts DEF AnswerIds
  <2> HIDE DEF m
  <2>3. Service!Fewer
    BY <1>1, <1>2, <1>8, <2>2, PlainPass
  <2>4. /\ Online' = Online
        /\ \A c \in Conns : sock'[c].isAuthenticated = info[c].isAuthenticated
        /\ \A c \in Conns : sock'[c].rooms = sock[c].rooms
    BY <1>1, <1>2, <1>3, <1>8, DeliverShows
  <2>5. Member' = Member
    BY <2>4, SameView
  <2>6. Authed' = {d \in Conns : sock'[d].isAuthenticated}
    BY DEF Authed
  <2>7. \A d \in Conns :
          sock'[d].isAuthenticated <=> sock[d].isAuthenticated \/ d \in Asking(rid)
    BY <1>3, <2>4
  <2>8. Authed' = Authed \union Asking(rid)
    BY <1>0, <1>5, <2>6, <2>7 DEF Authed
  <2> QED  BY <1>0, <1>5, <2>1, <2>3, <2>4, <2>5, <2>8, GrantStep
<1>9. CASE Deliver(sock, {}, NullBuffer)
  <2>1. OfflineFresh' /\ NamedOK'
    BY <1>0, <1>2, <1>9, DeliverServes DEF ServiceInv, NamedOK
  <2>2. Service!Fewer
    BY <1>0, <1>2, <1>9, NoTexts, PlainPass
  <2>3. Online' = Online /\ Authed' = Authed /\ Member' = Member
    BY <1>0, <1>2, <1>9, DeliverShows, SameView
  <2> QED  BY <2>1, <2>2, <2>3, PassStep
<1> QED  BY <1>4, <1>8, <1>9

\* A message that is no text, given to some connections, shows nothing of the
\* others and leaves rooms and authentication alone.
LEMMA PlainServes ==
  ASSUME ServiceInv,
         NEW info \in [Conns -> SocketInformation], NEW to \in SUBSET Online, NEW m,
         Deliver(info, to, m), m.kind # "text",
         \A c \in Conns : SameMessage(sock[c], info[c]),
         \A c \in Conns \ Online : info[c] = sock[c],
         \A c \in Conns : /\ info[c].isAuthenticated = sock[c].isAuthenticated
                          /\ info[c].rooms = sock[c].rooms
                          /\ info[c].userName \in {sock[c].userName, NameOf[c]}
  PROVE  Service!Next /\ OfflineFresh' /\ NamedOK'
<1>1. OfflineFresh' /\ NamedOK'
  BY DeliverServes DEF ServiceInv, NamedOK
<1>2. Service!Fewer
  BY PlainPass
<1>3. /\ Online' = Online
      /\ \A c \in Conns : sock'[c].isAuthenticated = sock[c].isAuthenticated
      /\ \A c \in Conns : sock'[c].rooms = sock[c].rooms
  BY DeliverShows
<1>4. Authed' = Authed /\ Member' = Member
  BY <1>3, SameView
<1> QED  BY <1>1, <1>2, <1>3, <1>4, PassStep

\* A message that is treated without a trace.
LEMMA IgnoreServes ==
  ASSUME ServiceInv, Ignore
  PROVE  Service!Next /\ OfflineFresh' /\ NamedOK'
<1>1. Deliver(sock, {}, NullBuffer)
  BY DEF Ignore
<1>2. sock \in [Conns -> SocketInformation] /\ {} \in SUBSET Online
  BY DEF ServiceInv, TypeInv, TypeOK
<1>3. \A c \in Conns : SameMessage(sock[c], sock[c])
  BY DEF SameMessage
<1> QED  BY <1>1, <1>2, <1>3, NoTexts, PlainServes

\* A request is forwarded: nothing of it shows.
LEMMA ForwardServes ==
  ASSUME ServiceInv, pc = "treat", NEW op \in Ops, Forward(op)
  PROVE  Service!Next /\ OfflineFresh' /\ NamedOK'
<1> DEFINE rid == NextId(op)
           info == Asked(Sa, rid)
           m == Request(op, rid, Head(batch).cred)
           to == {c \in Online : sock[c].isAuthServer}
<1>0. /\ Sa \in Conns /\ Sa \in Online /\ sock \in [Conns -> SocketInformation]
      /\ rid \in Nat
  BY SaType DEF ServiceInv, TypeInv, TypeOK, NextId
<1>1. Deliver(info, to, m)
  BY DEF Forward
<1>2. info \in [Conns -> SocketInformation]
  BY <1>0 DEF Asked, SocketInformation
<1>3. \A c \in Conns : /\ SameMessage(sock[c], info[c])
                       /\ c # Sa => info[c] = sock[c]
                       /\ info[c].isAuthenticated = sock[c].isAuthenticated
                       /\ info[c].rooms = sock[c].rooms
                       /\ info[c].userName = sock[c].userName
  BY <1>0 DEF Asked, SocketInformation, SameMessage
<1>4. m.kind # "text"
  BY NoTexts
<1>5. to \in SUBSET Online
  OBVIOUS
<1> HIDE DEF info, to, m
<1> QED  BY <1>0, <1>1, <1>2, <1>3, <1>4, <1>5, PlainServes

\* VALIDATE_SERVER: nothing of it shows.
LEMMA ValidateServes ==
  ASSUME ServiceInv, TreatValidateServer
  PROVE  Service!Next /\ OfflineFresh' /\ NamedOK'
<1> DEFINE info == [sock EXCEPT ![Sa].isAuthServer = TRUE, ![Sa].userName = NameOf[Sa]]
<1>0. Sa \in Conns /\ Sa \in Online /\ sock \in [Conns -> SocketInformation]
  BY SaType DEF ServiceInv, TypeInv, TypeOK, TreatValidateServer, Treating
<1>1. Deliver(info, {Sa}, Validated) \/ Ignore
  BY DEF TreatValidateServer
<1>2. info \in [Conns -> SocketInformation]
  BY <1>0 DEF SocketInformation, UserNames
<1>3. \A c \in Conns : /\ SameMessage(sock[c], info[c])
                       /\ c # Sa => info[c] = sock[c]
                       /\ info[c].isAuthenticated = sock[c].isAuthenticated
                       /\ info[c].rooms = sock[c].rooms
                       /\ info[c].userName \in {sock[c].userName, NameOf[c]}
  BY <1>0 DEF SocketInformation, SameMessage
<1> HIDE DEF info
<1>4. {Sa} \in SUBSET Online
  BY <1>0
<1> QED  BY <1>0, <1>1, <1>2, <1>3, <1>4, NoTexts, PlainServes, IgnoreServes

\* The other answers are passed on to whoever asked, and show nothing.
LEMMA InformServes ==
  ASSUME ServiceInv, NEW id \in AnswerIds, Inform(id, sock)
  PROVE  Service!Next /\ OfflineFresh' /\ NamedOK'
<1> DEFINE rid == Head(batch).rid
<1>1. Deliver(sock, Asking(rid), Informed(id, rid)) \/ Ignore
  BY DEF Inform
<1>2. sock \in [Conns -> SocketInformation] /\ Asking(rid) \in SUBSET Online
  BY DEF ServiceInv, TypeInv, TypeOK, Asking
<1>3. \A c \in Conns : SameMessage(sock[c], sock[c])
  BY DEF SameMessage
<1>4. Informed(id, rid).kind # "text"
  BY NoTexts
<1> HIDE DEF rid
<1> QED  BY <1>1, <1>2, <1>3, <1>4, PlainServes, IgnoreServes

\* treatMessage.
LEMMA TreatServes ==
  ASSUME ServiceInv, TreatMessage
  PROVE  Service!Next /\ OfflineFresh' /\ NamedOK'
<1>1. CASE TreatJunk
  BY <1>1, IgnoreServes DEF TreatJunk
<1>2. CASE TreatCreateAccount
  BY <1>2, ForwardServes DEF TreatCreateAccount, Treating, Ops
<1>3. CASE TreatAuthenticate
  BY <1>3, ForwardServes DEF TreatAuthenticate, Treating, Ops
<1>4. CASE TreatCreateSuccess
  BY <1>4, InformServes DEF TreatCreateSuccess, AnswerIds
<1>5. CASE TreatCreateFailure
  BY <1>5, InformServes DEF TreatCreateFailure, AnswerIds
<1>6. CASE TreatAuthFailure
  BY <1>6, InformServes DEF TreatAuthFailure, AnswerIds
<1> QED  BY <1>1, <1>2, <1>3, <1>4, <1>5, <1>6, JoinServes, LeaveServes, TextServes,
            ValidateServes, SuccessServes DEF TreatMessage

-----------------------------------------------------------------------------
\* The other steps.

\* A connection nothing was given to shows no text.
LEMMA FreshShows == Fresh.rooms = {} /\ ~Fresh.isAuthenticated /\ MailOf(Fresh) = NoMail
BY DEF Fresh, MailOf

\* accept: the connection arrives as it was left, without room, name or text.
LEMMA AcceptServes ==
  ASSUME ServiceInv, Accept
  PROVE  Service!Next /\ OfflineFresh' /\ NamedOK'
<1> DEFINE c == Head(backlog)
<1>1. /\ conns \in Seq(Conns) /\ backlog \in Seq(Conns) /\ backlog # <<>>
      /\ sock \in [Conns -> SocketInformation]
  BY DEF ServiceInv, TypeInv, TypeOK, PhaseOK, Accept
<1>2. c \in Conns /\ c \in Waiting
  BY <1>1 DEF Waiting, ToSet
<1>3. c \notin Online
  BY <1>2 DEF ServiceInv, ArrayOK
<1>4. sock' = sock
  <2>1. sock[c] = Fresh
    BY <1>2, <1>3 DEF ServiceInv, OfflineFresh
  <2> QED  BY <1>1, <1>2, <2>1 DEF Accept
<1>5. Online' = Online \union {c}
  <2>1. conns' = Append(conns, c)
    BY DEF Accept
  <2> HIDE DEF c
  <2> QED  BY <1>1, <1>2, <2>1 DEF Online, ToSet
<1> HIDE DEF c
<1>6. UNCHANGED <<Authed, Member, Mail>>
  BY <1>4 DEF Authed, Member, Mail
<1>7. OfflineFresh' /\ NamedOK'
  BY <1>4, <1>5 DEF ServiceInv, OfflineFresh, NamedOK
<1> QED  BY <1>2, <1>3, <1>5, <1>6, <1>7, ArriveStep

\* freeSocketInformation: the connection departs, and leaves nothing behind.
LEMMA FreeServes ==
  ASSUME ServiceInv, NEW i \in DOMAIN conns, Free(i)
  PROVE  Service!Next /\ OfflineFresh' /\ NamedOK'
<1> DEFINE c == conns[i]
<1>1. /\ c \in Conns /\ c \in Online /\ sock \in [Conns -> SocketInformation]
      /\ sock' = [sock EXCEPT ![c] = Fresh]
  BY DEF ServiceInv, TypeInv, TypeOK, Online, ToSet, Free
<1>2. Online' = Online \ {c}
  BY FreeArray DEF ServiceInv
<1> HIDE DEF c
<1>3. sock'[c] = Fresh /\ \A d \in Conns : d # c => sock'[d] = sock[d]
  BY <1>1
<1>4. Authed' = Authed \ {c}
  <2>1. Authed' = {d \in Conns : sock'[d].isAuthenticated}
    BY DEF Authed
  <2> QED  BY <1>1, <1>3, <2>1, FreshShows DEF Authed
<1>5. Member' = {m \in Member : m[1] # c}
  <2>1. Member' = {m \in Conns \X Rooms : m[2] \in sock'[m[1]].rooms}
    BY DEF Member
  <2>2. \A m \in Conns \X Rooms : m[2] \in sock'[m[1]].rooms <=>
                                  m[2] \in sock[m[1]].rooms /\ m[1] # c
    BY <1>3, FreshShows
  <2> QED  BY <2>1, <2>2 DEF Member
<1>6. Mail' = [Mail EXCEPT ![c] = NoMail]
  <2>1. Mail' = [d \in Conns |-> MailOf(sock'[d])]
    BY DEF Mail
  <2>2. \A d \in Conns : MailOf(sock'[d]) = IF d = c THEN NoMail ELSE MailOf(sock[d])
    BY <1>3, FreshShows
  <2> QED  BY <1>1, <2>1, <2>2 DEF Mail
<1>7. OfflineFresh' /\ NamedOK'
  BY <1>1, <1>2, <1>3, FreshShows DEF ServiceInv, OfflineFresh, NamedOK
<1> QED  BY <1>1, <1>2, <1>4, <1>5, <1>6, <1>7, DepartStep

\* A visit that points m_dataBuffer elsewhere, or clears the flag of a message,
\* can only lose a text.
LEMMA VisitServes ==
  ASSUME ServiceInv, NEW c \in Online, conns' = conns,
         sock' = [sock EXCEPT ![c].dataBuffer = OwnBuffer] \/
           sock' = [sock EXCEPT ![c].hasNewData = FALSE]
  PROVE  Service!Next /\ OfflineFresh' /\ NamedOK'
<1>1. /\ Online' = Online /\ Online \subseteq Conns
      /\ sock \in [Conns -> SocketInformation]
  BY DEF ServiceInv, TypeInv, TypeOK, Online, ToSet
<1>2. \A d \in Conns : d # c => sock'[d] = sock[d]
  BY <1>1
<1>3. sock'[c] = [sock[c] EXCEPT !.dataBuffer = OwnBuffer]
        \/ sock'[c] = [sock[c] EXCEPT !.hasNewData = FALSE]
  BY <1>1
<1>4. /\ sock'[c].isAuthenticated = sock[c].isAuthenticated
      /\ sock'[c].rooms = sock[c].rooms /\ sock'[c].userName = sock[c].userName
      /\ MailOf(sock'[c]) = NoMail
  BY <1>1, <1>3, NoTexts DEF SocketInformation, MailOf
<1>5. \A d \in Conns : /\ sock'[d].isAuthenticated = sock[d].isAuthenticated
                       /\ sock'[d].rooms = sock[d].rooms
                       /\ sock'[d].userName = sock[d].userName
                       /\ MailOf(sock'[d]) \in {MailOf(sock[d]), NoMail}
  BY <1>2, <1>4
<1>6. Service!Next
  BY <1>1, <1>5, PassBy
<1>7. OfflineFresh' /\ NamedOK'
  BY <1>1, <1>2, <1>5 DEF ServiceInv, OfflineFresh, NamedOK
<1> QED  BY <1>6, <1>7

\* A step that leaves the connections alone shows nothing.
LEMMA StutterServes ==
  ASSUME ServiceInv, UNCHANGED <<conns, sock>>
  PROVE  UNCHANGED Service!vars /\ OfflineFresh' /\ NamedOK'
<1>1. UNCHANGED <<Online, Authed, Member, Mail>>
  BY DEF Online, Authed, Member, Mail
<1>2. UNCHANGED Service!vars
  BY <1>1 DEF Service!vars, Mail, MailOf, Authed, Member
<1>3. OfflineFresh' /\ NamedOK'
  BY <1>1 DEF ServiceInv, OfflineFresh, NamedOK
<1> QED  BY <1>2, <1>3

\* Every step of the server, the peers and the network is a step of the service
\* or shows nothing.
LEMMA NextServes ==
  ASSUME ServiceInv, [Next]_vars
  PROVE  [Service!Next]_(Service!vars) /\ ServiceInv'
<1>1. TypeInv' /\ ArrayOK' /\ RequestInv'
  BY NextType, NextArray, NextFiled DEF ServiceInv
<1>2. ASSUME UNCHANGED <<conns, sock>>
      PROVE  UNCHANGED Service!vars /\ OfflineFresh' /\ NamedOK'
  BY <1>2, StutterServes
<1>3. ASSUME NEW i \in DOMAIN conns, Recv(i)
      PROVE  Service!Next /\ OfflineFresh' /\ NamedOK'
  <2>1. PICK k \in 0..Len(inbox[conns[i]]), lucky \in BOOLEAN :
          \E extra \in Extras(conns[i], k) : RecvData(i, k, extra, lucky)
    BY <1>3 DEF Recv
  <2>2. PICK extra \in Extras(conns[i], k) : RecvData(i, k, extra, lucky)
    BY <2>1
  <2>3. conns' = conns /\ sock' = [sock EXCEPT ![conns[i]].dataBuffer = OwnBuffer]
    BY <2>2 DEF RecvData, ReadInto
  <2>4. conns[i] \in Online
    BY DEF ServiceInv, TypeInv, TypeOK, Online, ToSet
  <2> QED  BY <2>3, <2>4, VisitServes
<1>4. ASSUME NEW i \in DOMAIN conns, RecvWouldBlock(i) \/ SendData(i)
      PROVE  Service!Next /\ OfflineFresh' /\ NamedOK'
  <2>1. /\ conns' = conns
        /\ \/ sock' = [sock EXCEPT ![conns[i]].dataBuffer = OwnBuffer]
           \/ sock' = [sock EXCEPT ![conns[i]].hasNewData = FALSE]
    BY <1>4 DEF RecvWouldBlock, SendData, ReadInto, Flushed
  <2>2. conns[i] \in Online
    BY DEF ServiceInv, TypeInv, TypeOK, Online, ToSet
  <2> QED  BY <2>1, <2>2, VisitServes
<1>5. ASSUME NEW i \in DOMAIN conns, RecvGone(i) \/ SendGone(i)
      PROVE  Service!Next /\ OfflineFresh' /\ NamedOK'
  BY <1>5, FreeServes DEF RecvGone, SendGone
<1>6. ASSUME NEW i \in DOMAIN conns, SendWouldBlock(i)
      PROVE  UNCHANGED <<conns, sock>>
  BY <1>6 DEF SendWouldBlock
<1>7. CASE Select \/ AcceptNothing \/ Fail
  <2>1. UNCHANGED <<conns, sock>>
    BY <1>7 DEF Select, SelectReady, AcceptNothing, Fail
  <2> QED  BY <1>1, <1>2, <2>1 DEF ServiceInv
<1>8. CASE PeerStep
  <2>1. UNCHANGED <<conns, sock>>
    BY <1>8 DEF PeerStep, Connect, Disconnect, ClientSend, AuthValidate, Submit, AuthRead,
                serverVars
  <2> QED  BY <1>1, <1>2, <2>1 DEF ServiceInv
<1>9. CASE UNCHANGED vars
  <2>1. UNCHANGED <<conns, sock>>
    BY <1>9 DEF vars, serverVars
  <2> QED  BY <1>1, <1>2, <2>1 DEF ServiceInv
<1> QED  BY <1>1, <1>2, <1>3, <1>4, <1>5, <1>6, <1>7, <1>8, <1>9, AcceptServes, TreatServes
         DEF Next, ServerStep, ServiceInv

\* At first nobody is there, and nothing shows.
LEMMA InitServes == Init => Service!Init /\ ServiceInv
<1> SUFFICES ASSUME Init PROVE Service!Init /\ ServiceInv
  OBVIOUS
<1>1. TypeInv /\ ArrayOK /\ RequestInv
  BY InitType, InitArray, InitFiled
<1>2. sock = [c \in Conns |-> Fresh] /\ conns = <<>>
  BY DEF Init
<1>3. Online = {}
  BY <1>2 DEF Online, ToSet
<1>4. OfflineFresh /\ NamedOK
  BY <1>2, FreshShows DEF OfflineFresh, NamedOK
<1>5. Authed = {} /\ Member = {} /\ Mail = [c \in Conns |-> NoMail]
  BY <1>2, FreshShows DEF Authed, Member, Mail
<1>6. Service!Init
  BY <1>3, <1>5 DEF Service!Init, Authed, Member, Mail, MailOf
<1> QED  BY <1>1, <1>4, <1>6 DEF ServiceInv

\* The chat server implements the chat service: whatever packets arrive, in
\* whatever pieces, and however passes of the loop, arrivals, departures and
\* answers interleave, nobody is in a room, or about to get a text, in a way
\* the service does not allow (ChatServer!ImplementsService).
THEOREM ServerImplementsService == Spec => ImplementsService
<1>1. ServiceInv /\ [Next]_vars => [Service!Next]_(Service!vars) /\ ServiceInv'
  BY NextServes
<1> QED  BY <1>1, InitServes, PTL DEF Spec, ImplementsService, Service!Spec

-----------------------------------------------------------------------------
\* What the service guarantees, said of the server.

Proven == INSTANCE ChatServiceProofs WITH
  Bodies <- Texts \union {0},
  NoMail <- NoMail,
  online <- Online,
  authed <- {c \in Conns : sock[c].isAuthenticated},
  member <- {m \in Conns \X Rooms : m[2] \in sock[m[1]].rooms},
  mail <- [c \in Conns |->
             LET m == sock[c].dataBuffer
             IN  IF sock[c].hasNewData /\ m.kind = "text"
                 THEN [from |-> m.from, body |-> m.body] ELSE NoMail]

\* It is the service of ChatServer.
LEMMA SameService == Proven!Spec <=> Service!Spec
<1>1. Proven!Init <=> Service!Init
  BY DEF Proven!Init, Service!Init
<1>2. UNCHANGED Proven!vars <=> UNCHANGED Service!vars
  BY DEF Proven!vars, Service!vars
<1>3. Proven!Fewer <=> Service!Fewer
  BY DEF Proven!Fewer, Service!Fewer
<1>4. ASSUME NEW c \in Conns
      PROVE  /\ Proven!Arrive(c) <=> Service!Arrive(c)
             /\ Proven!Depart(c) <=> Service!Depart(c)
  BY DEF Proven!Arrive, Service!Arrive, Proven!Depart, Service!Depart
<1>5. ASSUME NEW to \in SUBSET Conns PROVE Proven!Grant(to) <=> Service!Grant(to)
  BY <1>3 DEF Proven!Grant, Service!Grant
<1>6. ASSUME NEW c \in Conns, NEW r \in Rooms
      PROVE  (Proven!Join(c, r) <=> Service!Join(c, r)) /\ (Proven!Leave(c, r) <=> Service!Leave(c, r))
  BY <1>3 DEF Proven!Join, Service!Join, Proven!Leave, Service!Leave
<1>7. ASSUME NEW c \in Conns, NEW body \in Texts \union {0}
      PROVE  Proven!Post(c, body) <=> Service!Post(c, body)
  BY DEF Proven!Post, Service!Post, Proven!Roommates, Service!Roommates, Proven!Letter, Service!Letter
<1>8. Proven!Pass <=> Service!Pass
  BY <1>3 DEF Proven!Pass, Service!Pass
<1>9. Proven!Next <=> Service!Next
  BY <1>4, <1>5, <1>6, <1>7, <1>8, Zenon DEF Proven!Next, Service!Next
<1> QED  BY <1>1, <1>2, <1>9, PTL DEF Proven!Spec, Service!Spec

\* A connection of the server is in a room, or about to be sent a text, only if
\* g_socketArray has it and it is authenticated.
THEOREM ServerMembersAuthenticated == Spec => [](Service!TypeOK /\ Service!MembersOnly)
<1>1. Proven!Spec => [](Proven!TypeOK /\ Proven!MembersOnly)
  BY Proven!MembersAuthenticated
<1>2. Proven!TypeOK /\ Proven!MembersOnly <=> Service!TypeOK /\ Service!MembersOnly
  BY DEF Proven!TypeOK, Service!TypeOK, Proven!MembersOnly, Service!MembersOnly,
         Proven!Letters, Service!Letters, Proven!Letter, Service!Letter
<1> QED  BY <1>1, <1>2, SameService, ServerImplementsService, PTL DEF ImplementsService

\* A text that the server is newly about to send to somebody is from an authenticated
\* connection, under its name, and from a room that both are in, whatever passes, packets
\* and arrivals came between (theMain.cpp:524-537).
THEOREM ServerTextsShared == Spec => [][Service!TextsFromRoommates]_(Service!vars)
<1>1. Proven!Spec => [][Proven!TextsFromRoommates]_(Proven!vars)
  BY Proven!TextsShared
<1>2. Proven!TextsFromRoommates <=> Service!TextsFromRoommates
  BY DEF Proven!TextsFromRoommates, Service!TextsFromRoommates
<1>3. UNCHANGED Proven!vars <=> UNCHANGED Service!vars
  BY DEF Proven!vars, Service!vars
<1> QED  BY <1>1, <1>2, <1>3, SameService, ServerImplementsService, PTL DEF ImplementsService

\* What the server does for one connection takes no other's authentication or rooms.
THEOREM ServerSparesOthers == Spec => [][Service!OthersKept]_(Service!vars)
<1>1. Proven!Spec => [][Proven!OthersKept]_(Proven!vars)
  BY Proven!OthersSpared
<1>2. Proven!OthersKept <=> Service!OthersKept
  BY DEF Proven!OthersKept, Service!OthersKept
<1>3. UNCHANGED Proven!vars <=> UNCHANGED Service!vars
  BY DEF Proven!vars, Service!vars
<1> QED  BY <1>1, <1>2, <1>3, SameService, ServerImplementsService, PTL DEF ImplementsService
=============================================================================
