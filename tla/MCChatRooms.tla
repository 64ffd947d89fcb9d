----------------------------- MODULE MCChatRooms -----------------------------
(* TLC instance of ChatServer that begins after the log-in: two clients are *)
(* authenticated, and the authentication server that approved them has gone. *)
EXTENDS MCChatServer

RoomsInit ==
  /\ pc = "scan" /\ conns = <<c1, c2>>
  /\ sock = [c \in Conns |->
       IF c \in Clients
       THEN [Fresh EXCEPT !.isAuthenticated = TRUE,
                          !.requestedID = IF c = c1 THEN 1 ELSE 2,
                          !.dataBuffer = Informed("AUTHENTICATE_WEB_SUCCESS",
                                                  IF c = c1 THEN 1 ELSE 2)]
       ELSE Fresh]
  /\ g_requestedID = 2 /\ readSet = {} /\ writeSet = {}
  /\ socketsIndex = 1 /\ totalOfSockets = 0 /\ batch = <<>>
  /\ peer = [c \in Conns |-> IF c \in Clients THEN "up" ELSE "down"] /\ backlog = <<>>
  /\ inbox = [c \in Conns |-> <<>>] /\ skew = [c \in Conns |-> FALSE]
  /\ toAuth = [a \in AuthServers |-> <<>>] /\ ready = [a \in AuthServers |-> TRUE]
  /\ sends = Quota /\ cuts = MaxCuts
  /\ ledger = [i \in 1..2 |-> [conn |-> IF i = 1 THEN c1 ELSE c2,
                               op |-> "AUTHENTICATE_WEB"]]
  /\ approved = {1, 2} /\ strayed = {}

RoomsSpec == RoomsInit /\ [][Next]_vars

RoomsFairSpec == RoomsSpec /\ Fairness

ChatQuota == [c \in Conns |-> IF c \in Clients THEN 2 ELSE 0]
LiveQuota == [c \in Conns |-> IF c = c1 THEN 2 ELSE 1]
LongQuota == [c \in Conns |-> IF c = c1 THEN 3 ELSE IF c = c2 THEN 3 ELSE 0]
ChatTexts == {3, 250}
=============================================================================
