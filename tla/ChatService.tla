------------------------------ MODULE ChatService ------------------------------
(***************************************************************************)
(* What the chat server promises its users, without sockets, buffers,      *)
(* passes or packets: who is connected, who is authenticated, who is a     *)
(* member of which room, and which text each connection is about to get.   *)
(* A text may be lost before it is delivered, never invented, relabelled,  *)
(* or shown to somebody who shares no room with its author.  ChatServer    *)
(* implements this specification.                                          *)
(***************************************************************************)
CONSTANTS
  Conns,     \* Connections.
  Rooms,     \* Rooms.
  NameOf,    \* The name under which a connection's texts appear.
  Bodies,    \* Texts.
  NoMail     \* Not a text.

VARIABLES
  online,    \* The connections the server knows.
  authed,    \* Those that are authenticated.
  member,    \* Pairs of a connection and a room it is in.
  mail       \* The text each connection is about to get.

vars == <<online, authed, member, mail>>

Letter(c, body) == [from |-> NameOf[c], body |-> body]

Letters == {Letter(c, body) : c \in Conns, body \in Bodies}

Init ==
  /\ online \subseteq Conns /\ authed \subseteq online
  /\ member = {}
  /\ mail = [c \in Conns |-> NoMail]

\* Some texts are delivered, or lost.
Fewer == \E gone \in SUBSET Conns :
           mail' = [c \in Conns |-> IF c \in gone THEN NoMail ELSE mail[c]]

Arrive(c) ==
  /\ c \notin online
  /\ online' = online \union {c}
  /\ UNCHANGED <<authed, member, mail>>

Depart(c) ==
  /\ c \in online
  /\ online' = online \ {c}
  /\ authed' = authed \ {c}
  /\ member' = {m \in member : m[1] # c}
  /\ mail' = [mail EXCEPT ![c] = NoMail]

\* Connections become authenticated, for good.
Grant(to) ==
  /\ to \subseteq online
  /\ authed' = authed \union to
  /\ Fewer
  /\ UNCHANGED <<online, member>>

Join(c, r) ==
  /\ c \in authed
  /\ member' = member \union {<<c, r>>}
  /\ Fewer
  /\ UNCHANGED <<online, authed>>

Leave(c, r) ==
  /\ member' = member \ {<<c, r>>}
  /\ Fewer
  /\ UNCHANGED <<online, authed>>

Roommates(c) == {d \in Conns : \E r \in Rooms : <<c, r>> \in member /\ <<d, r>> \in member}

\* A text goes to everybody who shares a room with its author, to nobody else.
Post(c, body) ==
  /\ mail' = [d \in Conns |-> IF d \in Roommates(c) THEN Letter(c, body) ELSE mail[d]]
  /\ UNCHANGED <<online, authed, member>>

Pass == Fewer /\ UNCHANGED <<online, authed, member>>

Next ==
  \/ \E c \in Conns : Arrive(c) \/ Depart(c)
  \/ \E to \in SUBSET Conns : Grant(to)
  \/ \E c \in Conns, r \in Rooms : Join(c, r) \/ Leave(c, r)
  \/ \E c \in Conns, body \in Bodies : Post(c, body)
  \/ Pass

Spec == Init /\ [][Next]_vars

-----------------------------------------------------------------------------
\* Type invariant.
TypeOK ==
  /\ online \subseteq Conns /\ authed \subseteq Conns
  /\ member \subseteq Conns \X Rooms
  /\ mail \in [Conns -> Letters \union {NoMail}]

\* Only connected, authenticated connections are in a room, and nobody else is
\* about to get a text.
MembersOnly ==
  /\ authed \subseteq online
  /\ \A m \in member : m[1] \in authed
  /\ \A c \in Conns : mail[c] # NoMail => c \in authed

\* A text that somebody is newly about to get was written by an authenticated
\* connection, stands under its name, and comes from a room that both are in.
TextsFromRoommates ==
  \A d \in Conns : mail'[d] \notin {mail[d], NoMail} =>
    \E c \in authed, r \in Rooms :
      mail'[d].from = NameOf[c] /\ {<<c, r>>, <<d, r>>} \subseteq member

\* Nobody loses the authentication, or a room, while somebody else acts: only a
\* departure takes the authentication, and a step takes rooms from one connection.
OthersKept ==
  /\ \A c \in authed : c \in authed' \/ c \notin online'
  /\ \A m, n \in member \ member' : m[1] = n[1]
=============================================================================
