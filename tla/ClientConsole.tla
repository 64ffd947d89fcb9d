---------------------------- MODULE ClientConsole ----------------------------
(***************************************************************************)
(* The console of the chat client (src/Client/theMain.cpp): one thread     *)
(* that alternates between the messages of the chat server and std::cin.   *)
(* A turn does one receive, reads one line with getline, and calls         *)
(* readCase, which reads another line and acts on that one.  The words     *)
(* that a command asks for are read with operator>>, which leaves the rest *)
(* of its line in std::cin.                                                *)
(*                                                                         *)
(* The user types lines at any time, ahead of the program or not; messages *)
(* arrive at any time.  A line is the sequence of its words.  A receive    *)
(* takes at most DEFAULT_BUFFER_LENGTH bytes, so that what has arrived is  *)
(* counted by the receives it takes to read all of it.  The loop has       *)
(* no way out (readCase returns 0, nothing clears m_isAlive), and          *)
(* checkRoom, which would fill connectedRooms, is not called.              *)
(***************************************************************************)
EXTENDS Naturals, Sequences

CONSTANTS
  Words,       \* The words a user types.
  Lines,       \* The lines of them.
  ShortWords,  \* The words of less than 6 characters.
  MaxLines,    \* Bound of the model: lines typed,
  MaxUnread    \* and receives that what has arrived and was not read can fill.

ASSUME LineAssumption == <<>> \in Lines /\ Lines \subseteq Seq(Words) /\ MaxLines \in Nat
ASSUME UnreadAssumption == MaxUnread \in Nat

VARIABLES
  typed,    \* History: all the lines typed.
  stdin,    \* What std::cin still holds: lines or rests of lines.
  at,       \* What the thread does next.
  asked,    \* The command it asks words for.
  sent,     \* The messages sent, each with the line that caused it.
  unread,   \* The receives it takes to read what has arrived.
  burst,    \* History: what they were when a message arrived last.
  enters,   \* History: empty lines typed since a message arrived last, and since
            \* a word was read.
  lost      \* History: the lines read by the first getline, from their beginning.

consoleVars == <<typed, stdin, at, asked, sent, unread, burst, enters, lost>>

\* A line in std::cin, and whether it is all there.
Rest(line, words, whole) == [line |-> line, words |-> words, whole |-> whole]

Sent(kind, line, words) == [kind |-> kind, line |-> line, words |-> words]

CredentialCommands == {"-r", "-a"}
RoomCommands == {"-j", "-l"}

\* The user has answered "y" and given a first name; the end of that line is
\* still there.
ConsoleInit ==
  /\ typed = <<>>
  /\ stdin = <<Rest(0, <<>>, FALSE)>>
  /\ at = "getMessages" /\ asked = ""
  /\ sent = <<>>
  /\ unread = 0 /\ burst = 0 /\ enters = 0 /\ lost = {}

-----------------------------------------------------------------------------
Type(words) ==
  /\ Len(typed) < MaxLines
  /\ typed' = Append(typed, words)
  /\ stdin' = Append(stdin, Rest(Len(typed'), words, TRUE))
  /\ enters' = IF words = <<>> THEN enters + 1 ELSE enters
  /\ UNCHANGED <<at, asked, sent, unread, burst, lost>>

\* Messages arrive: they fit behind what is there, or take more receives.
Arrive ==
  /\ \E receives \in 1..MaxUnread : unread <= receives /\ unread' = receives
  /\ burst' = unread' /\ enters' = 0
  /\ UNCHANGED <<typed, stdin, at, asked, sent, lost>>

\* getMessages does one receive, if there is something to be received.
GetMessages ==
  /\ at = "getMessages"
  /\ at' = "first"
  /\ unread' = IF unread = 0 THEN 0 ELSE unread - 1
  /\ UNCHANGED <<typed, stdin, asked, sent, burst, enters, lost>>

\* Fault: empty lines are read over.
FirstGetlineOver ==
  /\ at = "first" /\ stdin # <<>>
  /\ stdin' = Tail(stdin)
  /\ lost' = lost \union {r.line : r \in {q \in {Head(stdin)} : q.whole}}
  /\ at' = IF Head(stdin).words = <<>> THEN "first" ELSE "second"
  /\ UNCHANGED <<typed, asked, sent, unread, burst, enters>>

\* Fault: the line is left to readCase.
FirstGetlineNone ==
  /\ at = "first"
  /\ at' = "second"
  /\ UNCHANGED <<typed, stdin, asked, sent, unread, burst, enters, lost>>

\* The getline of main: nothing is done with the line.
FirstGetline ==
  /\ at = "first" /\ stdin # <<>>
  /\ stdin' = Tail(stdin)
  /\ lost' = lost \union {r.line : r \in {q \in {Head(stdin)} : q.whole}}
  /\ at' = "second"
  /\ UNCHANGED <<typed, asked, sent, unread, burst, enters>>

\* Fault: after an empty line no messages are fetched.
NextTurnIfText(words) == IF words = <<>> THEN "first" ELSE "getMessages"

NextTurn(words) == "getMessages"

\* The getline of readCase: a command, a text, or nothing.
SecondGetline ==
  /\ at = "second" /\ stdin # <<>>
  /\ stdin' = Tail(stdin)
  /\ LET words == Head(stdin).words
         command == Len(words) = 1 /\ words[1] \in CredentialCommands \union RoomCommands
     IN  IF command
         THEN /\ asked' = words[1]
              /\ at' = IF words[1] \in CredentialCommands THEN "email" ELSE "room"
              /\ UNCHANGED sent
         ELSE /\ sent' = IF words = <<>> THEN sent
                         ELSE Append(sent, Sent("text", Head(stdin).line, words))
              /\ at' = NextTurn(words)
              /\ UNCHANGED asked
  /\ UNCHANGED <<typed, unread, burst, enters, lost>>

\* operator>> passes over empty lines and takes a word; the rest of its line,
\* and be it only the end of the line, stays.
ReadWord(n) ==
  /\ n \in DOMAIN stdin /\ stdin[n].words # <<>>
  /\ \A i \in 1 .. n - 1 : stdin[i].words = <<>>
  /\ stdin' = <<Rest(stdin[n].line, Tail(stdin[n].words), FALSE)>>
              \o SubSeq(stdin, n + 1, Len(stdin))
  /\ enters' = 0

AskEmail(n) ==
  /\ at = "email"
  /\ ReadWord(n)
  /\ at' = "password"
  /\ UNCHANGED <<typed, asked, sent, unread, burst, lost>>

\* Asked again until the password is long enough.
AskPassword(n) ==
  /\ at = "password"
  /\ ReadWord(n)
  /\ IF stdin[n].words[1] \in ShortWords
     THEN UNCHANGED <<at, asked, sent>>
     ELSE /\ sent' = Append(sent, Sent(asked, stdin[n].line, <<stdin[n].words[1]>>))
          /\ at' = "getMessages" /\ asked' = ""
  /\ UNCHANGED <<typed, unread, burst, lost>>

AskRoom(n) ==
  /\ at = "room"
  /\ ReadWord(n)
  /\ sent' = Append(sent, Sent(asked, stdin[n].line, <<stdin[n].words[1]>>))
  /\ at' = "getMessages" /\ asked' = ""
  /\ UNCHANGED <<typed, unread, burst, lost>>

ConsoleNext ==
  \/ \E words \in Lines : Type(words)
  \/ Arrive
  \/ GetMessages \/ FirstGetline \/ SecondGetline
  \/ \E n \in 1..MaxLines + 1 : AskEmail(n) \/ AskPassword(n) \/ AskRoom(n)

ConsoleSpec == ConsoleInit /\ [][ConsoleNext]_consoleVars

-----------------------------------------------------------------------------
\* Type invariant: a command is remembered while its words are asked for, and
\* std::cin holds the end of what was typed.
ConsoleTypeOK ==
  /\ typed \in Seq(Lines)
  /\ at \in {"getMessages", "first", "second", "email", "password", "room"}
  /\ asked \in CredentialCommands \union RoomCommands \union {""}
  /\ asked # "" <=> at \in {"email", "password", "room"}
  /\ {unread, burst} \subseteq 0..MaxUnread /\ enters \in 0..MaxLines /\ lost \subseteq DOMAIN typed
  /\ \A i \in DOMAIN stdin :
       /\ stdin[i].line = Len(typed) - Len(stdin) + i
       /\ stdin[i].whole => stdin[i].words = typed[stdin[i].line]

\* What is sent as a text is a whole line, never what a command has left of one, and
\* texts and commands are sent in the order in which they were typed.
TextsWhole ==
  /\ \A i \in DOMAIN sent : sent[i].kind = "text" => sent[i].words = typed[sent[i].line]
  /\ \A i, j \in DOMAIN sent : i < j => sent[i].line < sent[j].line

\* The getline of main swallows a line whenever no command has left the end of one
\* (theMain.cpp:113), but never two lines one after the other.
NoTwoLost == \A n \in lost : n + 1 \notin lost

Waiting == stdin = <<>> /\ at \in {"first", "second"}

\* Two Enters are worth one receive: when twice as many Enters were typed as it takes
\* receives to read what has arrived, the program does not wait for the user's next
\* line with something unread.
TwoEntersRefresh == Waiting /\ enters >= 2 * burst => unread = 0
=============================================================================
