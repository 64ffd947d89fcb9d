---------------------------- MODULE MCChatServer ----------------------------
(* TLC instances of ChatServer.  The lengths are chosen around the ones the *)
(* encoding treats differently: a request of 118 credential bytes garbles   *)
(* on its way to the authentication server; MCChatRooms adds a text of 250, *)
(* which arrives empty.                                                     *)
EXTENDS ChatServer

CONSTANTS c1, c2, a1, a2, r1

OneClient == {c1}
TwoClients == {c1, c2}
OneAuth == {a1}
TwoAuths == {a1, a2}
NoConn == {}
SomeFragile == {c1}
OneRoom == {r1}
MCNameOf == [c \in Conns |-> IF c = c1 THEN "u1" ELSE IF c \in Clients THEN "u2"
                          ELSE "Authentication Server"]
PlainCred == {10}
BothCreds == {10, 118}
PlainText == {3}
NoText == {}
Logins == {"AUTHENTICATE"}
Chatting == {"JOIN_ROOM", "LEAVE_ROOM", "SEND_TEXT"}
Accounts == {"AUTHENTICATE", "CREATE_ACCOUNT"}
LoginQuota == [c \in Conns |-> IF c = c1 THEN 2 ELSE 1]
GoodHash == {"TEMP_HASH"}
BothHashes == {"TEMP_HASH", "OTHER_HASH"}
=============================================================================
