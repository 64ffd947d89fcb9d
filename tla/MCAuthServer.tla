---------------------------- MODULE MCAuthServer ----------------------------
(* TLC instances of AuthServer: "long" is an e-mail with which every        *)
(* request is garbled.  Bytes of later messages may be taken for an id that *)
(* nobody has, or for that of the second request.                           *)
EXTENDS AuthServer

CONSTANTS s1, p, q

OneServer == {s1}
AllPasswords == {p, q, ""}
OnePassword == {p, ""}
MCStrayIds == {-1, 2}
MCFolded == [email \in Emails |-> email]
=============================================================================
