------------------------------ MODULE AuthPeer ------------------------------
(***************************************************************************)
(* What the chat server may expect of an authentication server: the same   *)
(* that ChatServer assumes with its actions AuthValidate and AuthRead.  It *)
(* takes some messages off the wire, gives one answer to all of them or    *)
(* none, and is not ready before it has taken something.  AuthServer       *)
(* implements this specification.                                          *)
(***************************************************************************)
EXTENDS Sequences, Naturals

CONSTANTS
  Servers,       \* Authentication servers.
  Messages,      \* What can be on the wire to one.
  Answers(_)     \* The answers to messages that are taken together, if there are any.

VARIABLES
  wire,          \* The messages sent to a server and not yet taken.
  ready,         \* It has been validated, as it believes.
  said           \* The answers it has given.

vars == <<wire, ready, said>>

Init ==
  /\ wire = [s \in Servers |-> <<>>]
  /\ ready = [s \in Servers |-> FALSE]
  /\ said = [s \in Servers |-> {}]

\* The chat server gives a message to some of them.
Give(to, m) ==
  /\ wire' = [s \in Servers |-> IF s \in to THEN Append(wire[s], m) ELSE wire[s]]
  /\ UNCHANGED <<ready, said>>

\* k messages may get an answer, if the server was ready.
Take(s, k) ==
  /\ k \in 1..Len(wire[s])
  /\ wire' = [wire EXCEPT ![s] = SubSeq(@, k + 1, Len(@))]
  /\ ready' = [ready EXCEPT ![s] = TRUE]
  /\ LET answers == Answers(SubSeq(wire[s], 1, k))
     IN  \/ /\ ~ready[s] \/ answers = {}
            /\ UNCHANGED said
         \/ /\ ready[s]
            /\ \E answer \in answers : said' = [said EXCEPT ![s] = @ \union {answer}]

\* The connection or the server breaks, and of what was under way the last
\* messages, or all, are lost.
Break(s) ==
  /\ \E n \in 0..Len(wire[s]) : wire' = [wire EXCEPT ![s] = SubSeq(@, 1, n)]
  /\ \E still \in BOOLEAN : ready' = [ready EXCEPT ![s] = still]
  /\ UNCHANGED said

Next ==
  \/ \E to \in SUBSET Servers, m \in Messages : Give(to, m)
  \/ \E s \in Servers : Break(s) \/ \E k \in 1..Len(wire[s]) : Take(s, k)

Spec == Init /\ [][Next]_vars
=============================================================================
