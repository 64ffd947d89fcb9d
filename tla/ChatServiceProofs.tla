--------------------------- MODULE ChatServiceProofs ---------------------------
(***************************************************************************)
(* What the abstract chat service guarantees, for any connections, rooms,  *)
(* names and texts.                                                        *)
(***************************************************************************)
EXTENDS ChatService, TLAPS

Inv == TypeOK /\ MembersOnly

\* Losing texts keeps the invariant.
LEMMA FewerKeeps ==
  ASSUME Inv, Fewer
  PROVE  /\ mail' \in [Conns -> Letters \union {NoMail}]
         /\ \A c \in Conns : mail'[c] # NoMail => mail[c] # NoMail
BY DEF Inv, TypeOK, Fewer

\* Every step of the service keeps the invariant.
LEMMA NextKeeps == Inv /\ [Next]_vars => Inv'
<1> SUFFICES ASSUME Inv, [Next]_vars PROVE Inv'
  OBVIOUS
<1>1. ASSUME NEW c \in Conns, Arrive(c)
      PROVE  Inv'
  BY <1>1 DEF Arrive, Inv, TypeOK, MembersOnly
<1>2. ASSUME NEW c \in Conns, Depart(c)
      PROVE  Inv'
  BY <1>2 DEF Depart, Inv, TypeOK, MembersOnly
<1>3. ASSUME NEW to \in SUBSET Conns, Grant(to)
      PROVE  Inv'
  BY <1>3, FewerKeeps DEF Grant, Inv, TypeOK, MembersOnly
<1>4. ASSUME NEW c \in Conns, NEW r \in Rooms, Join(c, r)
      PROVE  Inv'
  BY <1>4, FewerKeeps DEF Join, Inv, TypeOK, MembersOnly
<1>5. ASSUME NEW c \in Conns, NEW r \in Rooms, Leave(c, r)
      PROVE  Inv'
  BY <1>5, FewerKeeps DEF Leave, Inv, TypeOK, MembersOnly
<1>6. ASSUME NEW c \in Conns, NEW body \in Bodies, Post(c, body)
      PROVE  Inv'
  <2>1. Letter(c, body) \in Letters
    BY DEF Letters
  <2>2. mail' \in [Conns -> Letters \union {NoMail}]
    BY <1>6, <2>1 DEF Post, Inv, TypeOK
  <2>3. \A d \in Roommates(c) : d \in authed
    BY DEF Roommates, Inv, MembersOnly
  <2>4. \A d \in Conns : mail'[d] # NoMail => d \in authed
    BY <1>6, <2>3 DEF Post, Inv, MembersOnly
  <2> QED  BY <1>6, <2>2, <2>4 DEF Post, Inv, TypeOK, MembersOnly
<1>7. CASE Pass
  BY <1>7, FewerKeeps DEF Pass, Inv, TypeOK, MembersOnly
<1>8. CASE UNCHANGED vars
  BY <1>8 DEF vars, Inv, TypeOK, MembersOnly
<1> QED  BY <1>1, <1>2, <1>3, <1>4, <1>5, <1>6, <1>7, <1>8 DEF Next

\* Only connected, authenticated connections are ever in a room, and only they
\* are given texts.
THEOREM MembersAuthenticated == Spec => [](TypeOK /\ MembersOnly)
<1>1. Init => Inv
  BY DEF Init, Inv, TypeOK, MembersOnly
<1> QED  BY <1>1, NextKeeps, PTL DEF Spec, Inv

\* One step of the service shows a new text only to somebody who shares a room with
\* its author.
LEMMA NextShares == Inv /\ [Next]_vars => TextsFromRoommates
<1> SUFFICES ASSUME Inv, [Next]_vars, NEW d \in Conns, mail'[d] \notin {mail[d], NoMail}
             PROVE  \E c \in authed, r \in Rooms :
                      mail'[d].from = NameOf[c] /\ {<<c, r>>, <<d, r>>} \subseteq member
  BY DEF TextsFromRoommates
<1>1. ~Fewer
  BY DEF Fewer
<1>2. mail' # mail
  OBVIOUS
<1>3. /\ \A c \in Conns : ~Arrive(c) /\ ~Depart(c)
      /\ \A to \in SUBSET Conns : ~Grant(to)
  <2>1. ASSUME NEW c \in Conns PROVE ~Arrive(c)
    BY <1>2 DEF Arrive
  <2>2. ASSUME NEW c \in Conns PROVE ~Depart(c)
    BY DEF Depart, Inv, TypeOK
  <2>3. ASSUME NEW to \in SUBSET Conns PROVE ~Grant(to)
    BY <1>1 DEF Grant
  <2> QED  BY <2>1, <2>2, <2>3
<1>4. \A c \in Conns, r \in Rooms : ~Join(c, r) /\ ~Leave(c, r)
  BY <1>1 DEF Join, Leave
<1>5. ~Pass /\ ~UNCHANGED vars
  BY <1>1, <1>2 DEF Pass, vars
<1>6. PICK c \in Conns, body \in Bodies : Post(c, body)
  BY <1>3, <1>4, <1>5 DEF Next
<1>7. d \in Roommates(c) /\ mail'[d] = Letter(c, body)
  BY <1>6 DEF Post
<1>8. PICK r \in Rooms : <<c, r>> \in member /\ <<d, r>> \in member
  BY <1>7 DEF Roommates
<1>9. c \in authed
  BY <1>8 DEF Inv, MembersOnly
<1> QED  BY <1>7, <1>8, <1>9 DEF Letter

\* One step takes the authentication only from who departs, and rooms only from
\* one connection.
LEMMA NextSpares == Inv /\ [Next]_vars => OthersKept
<1> SUFFICES ASSUME Inv, [Next]_vars PROVE OthersKept
  OBVIOUS
<1>1. ASSUME NEW c \in Conns, Arrive(c) \/ Depart(c)
      PROVE  OthersKept
  BY <1>1 DEF Arrive, Depart, OthersKept
<1>5. ASSUME NEW to \in SUBSET Conns, Grant(to)
      PROVE  OthersKept
  BY <1>5 DEF Grant, OthersKept
<1>2. ASSUME NEW c \in Conns, NEW r \in Rooms, Join(c, r) \/ Leave(c, r)
      PROVE  OthersKept
  BY <1>2 DEF Join, Leave, OthersKept
<1>3. ASSUME NEW c \in Conns, NEW body \in Bodies, Post(c, body)
      PROVE  OthersKept
  BY <1>3 DEF Post, OthersKept
<1>4. CASE Pass \/ UNCHANGED vars
  BY <1>4 DEF Pass, vars, OthersKept
<1> QED  BY <1>1, <1>2, <1>3, <1>4, <1>5 DEF Next

\* Whatever the service's users do, a text is shown only to those who share a room
\* with its author, under the author's name, and only while the author is
\* authenticated.
THEOREM TextsShared == Spec => [][TextsFromRoommates]_vars
<1>1. Init => Inv
  BY DEF Init, Inv, TypeOK, MembersOnly
<1> QED  BY <1>1, NextKeeps, NextShares, PTL DEF Spec

\* No connection's authentication or rooms depend on what the others do.
THEOREM OthersSpared == Spec => [][OthersKept]_vars
<1>1. Init => Inv
  BY DEF Init, Inv, TypeOK, MembersOnly
<1> QED  BY <1>1, NextKeeps, NextSpares, PTL DEF Spec
=============================================================================
