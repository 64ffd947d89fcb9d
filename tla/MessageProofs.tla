----------------------------- MODULE MessageProofs -----------------------------
(***************************************************************************)
(* Proofs about the parts that make messages and cut them out of a         *)
(* receive: the console of the client (ClientConsole), sendMessage and its *)
(* reader (MessageFields), getMessages (GetMessages) and readSocket        *)
(* (ReadSocket).                                                           *)
(***************************************************************************)
EXTENDS MCMessages, SumProofs

-----------------------------------------------------------------------------
\* The console.

Rests == [line : Nat, words : Seq(Words), whole : BOOLEAN]
Commands == CredentialCommands \union RoomCommands
SentMessages ==
  [kind : Commands \union {"text"}, line : Nat, words : Seq(Words)]

\* How many of the lines typed are no longer, or no longer whole, in std::cin.
Consumed == Len(typed) - Len(stdin)

\* Has a command left the end of a line in std::cin?
EndLeft == stdin # <<>> /\ ~stdin[1].whole

StdinOK ==
  /\ typed \in Seq(Lines) /\ stdin \in Seq(Rests)
  /\ Len(typed) <= MaxLines /\ Consumed >= -1
  /\ \A i \in DOMAIN stdin :
       /\ stdin[i].line = Consumed + i
       /\ stdin[i].whole =>
            stdin[i].line \in DOMAIN typed /\ stdin[i].words = typed[stdin[i].line]
       /\ i > 1 \/ at = "second" => stdin[i].whole

PlaceOK ==
  /\ at \in {"getMessages", "first", "second", "email", "password", "room"}
  /\ asked \in Commands \union {""}
  /\ asked # "" <=> at \in {"email", "password", "room"}

\* How many lines a turn has read by now.
LinesOfTurn == CASE at = "first" -> 0 [] at = "second" -> 1 [] OTHER -> 2

\* While something is unread, the Enters that are no longer in std::cin were read in
\* the turns that each did a receive, and in the one that goes on.
EntersOK ==
  /\ enters \in Nat /\ enters <= Len(typed)
  /\ unread \in 0..MaxUnread /\ burst \in 0..MaxUnread /\ unread <= burst
  /\ unread > 0 => enters <= 2 * (burst - unread) + LinesOfTurn + Len(stdin)

LostOK ==
  /\ lost \subseteq DOMAIN typed
  /\ \A n \in lost : n <= Consumed /\ (at # "second" => n < Consumed) /\ n + 1 \notin lost

\* What was sent was sent for a line before those std::cin holds, or for the one
\* whose end it holds.
SentOK ==
  /\ sent \in Seq(SentMessages)
  /\ \A i \in DOMAIN sent :
       /\ sent[i].line <= IF EndLeft /\ at \in {"getMessages", "first"} THEN Consumed + 1 ELSE Consumed
       /\ sent[i].kind = "text" =>
            sent[i].line \in DOMAIN typed /\ sent[i].words = typed[sent[i].line]
  /\ \A i, j \in DOMAIN sent : i < j => sent[i].line < sent[j].line

ConsoleInv == StdinOK /\ PlaceOK /\ EntersOK /\ LostOK /\ SentOK

-----------------------------------------------------------------------------
\* Sequences that change at one end.

\* A line was read: the others move up.
LEMMA LineRead ==
  ASSUME stdin \in Seq(Rests), stdin # <<>>, stdin' = Tail(stdin)
  PROVE  /\ stdin' \in Seq(Rests) /\ Len(stdin') = Len(stdin) - 1
         /\ 1 \in DOMAIN stdin /\ Head(stdin) = stdin[1] /\ stdin[1] \in Rests
         /\ \A i \in DOMAIN stdin' : i + 1 \in DOMAIN stdin /\ stdin'[i] = stdin[i + 1]
<1>1. Len(stdin) \in Nat /\ Len(stdin) > 0 /\ DOMAIN stdin = 1..Len(stdin)
  BY EmptySeq, LenProperties
<1>2. /\ Head(stdin) = stdin[1] /\ Tail(stdin) \in Seq(Rests)
      /\ Len(Tail(stdin)) = Len(stdin) - 1
      /\ \A i \in 1..Len(Tail(stdin)) : Tail(stdin)[i] = stdin[i + 1]
  BY <1>1, HeadTailProperties
<1>3. stdin[1] \in Rests BY <1>1, ElementOfSeq
<1>4. DOMAIN stdin' = 1 .. Len(stdin) - 1 BY <1>2, LenProperties
<1> QED BY <1>1, <1>2, <1>3, <1>4

\* A line was typed: it comes last.
LEMMA LineTyped ==
  ASSUME stdin \in Seq(Rests), NEW rest \in Rests, stdin' = Append(stdin, rest)
  PROVE  /\ stdin' \in Seq(Rests) /\ Len(stdin') = Len(stdin) + 1
         /\ DOMAIN stdin' = 1 .. Len(stdin) + 1 /\ DOMAIN stdin = 1..Len(stdin)
         /\ \A i \in DOMAIN stdin : stdin'[i] = stdin[i]
         /\ stdin'[Len(stdin) + 1] = rest
BY AppendProperties, LenProperties

\* One line is put in front of others.
LEMMA LineInFront ==
  ASSUME NEW one \in Seq(Rests), NEW others \in Seq(Rests), Len(one) = 1
  PROVE  /\ one \o others \in Seq(Rests)
         /\ Len(one \o others) = 1 + Len(others)
         /\ (one \o others)[1] = one[1]
         /\ \A i \in 1..Len(others) : (one \o others)[i + 1] = others[i]
<1>1. Len(others) \in Nat BY LenProperties
<1>2. /\ one \o others \in Seq(Rests)
      /\ Len(one \o others) = Len(one) + Len(others)
      /\ \A i \in 1 .. Len(one) + Len(others) : (one \o others)[i] =
           IF i <= Len(one) THEN one[i] ELSE others[i - Len(one)]
  BY ConcatProperties, Zenon
<1> HIDE DEF Rests
<1>3. (one \o others)[1] = one[1] BY <1>1, <1>2
<1>4. ASSUME NEW i \in 1..Len(others) PROVE (one \o others)[i + 1] = others[i]
  <2>1. i + 1 \in 1 .. Len(one) + Len(others) /\ ~(i + 1 <= Len(one)) /\ (i + 1) - Len(one) = i
    BY <1>1
  <2> QED BY <1>2, <2>1
<1> QED BY <1>2, <1>3, <1>4

\* The first lines of std::cin give way to a single one.
LEMMA LinesReplaced ==
  ASSUME NEW lines0 \in Seq(Rests), NEW n \in 1..Len(lines0), NEW rest \in Rests,
         NEW t, t = <<rest>> \o SubSeq(lines0, n + 1, Len(lines0))
  PROVE  /\ t \in Seq(Rests) /\ Len(t) = Len(lines0) - n + 1
         /\ t[1] = rest
         /\ \A i \in 2 .. Len(lines0) - n + 1 : t[i] = lines0[i + n - 1]
<1> DEFINE others == SubSeq(lines0, n + 1, Len(lines0))
           one == <<rest>>
<1>1. Len(lines0) \in Nat /\ n \in Nat /\ n + 1 \in Int BY LenProperties
<1>2. \A i \in n + 1 .. Len(lines0) : lines0[i] \in Rests BY <1>1, ElementOfSeq
<1>3. /\ others \in Seq(Rests) /\ Len(others) = Len(lines0) - n
      /\ \A i \in 1 .. Len(lines0) - n : others[i] = lines0[n + i]
  <2>1. /\ others \in Seq(Rests)
        /\ Len(others) = IF n + 1 <= Len(lines0) THEN Len(lines0) - (n + 1) + 1 ELSE 0
        /\ \A i \in 1 .. Len(lines0) - (n + 1) + 1 : others[i] = lines0[(n + 1) + i - 1]
    BY <1>1, <1>2, SubSeqProperties
  <2> QED BY <1>1, <2>1
<1>4. one \in Seq(Rests) /\ Len(one) = 1 /\ one[1] = rest OBVIOUS
<1>5. t = one \o others OBVIOUS
<1> HIDE DEF others, one
<1>6. /\ t \in Seq(Rests) /\ Len(t) = 1 + Len(others) /\ t[1] = one[1]
      /\ \A i \in 1..Len(others) : t[i + 1] = others[i]
  <2>1. /\ one \o others \in Seq(Rests)
        /\ Len(one \o others) = 1 + Len(others)
        /\ (one \o others)[1] = one[1]
        /\ \A i \in 1..Len(others) : (one \o others)[i + 1] = others[i]
    BY <1>3, <1>4, LineInFront, Zenon
  <2> QED BY <1>5, <2>1, Zenon
<1>7. ASSUME NEW i \in 2 .. Len(lines0) - n + 1 PROVE t[i] = lines0[i + n - 1]
  <2>1. i - 1 \in 1 .. Len(lines0) - n /\ (i - 1) + 1 = i /\ n + (i - 1) = i + n - 1
    BY <1>1
  <2>2. t[(i - 1) + 1] = others[i - 1] BY <1>3, <1>6, <2>1, Zenon
  <2> QED BY <2>1, <2>2, <1>3
<1> QED BY <1>1, <1>3, <1>4, <1>6, <1>7

\* A word was read: the lines before its own, which were empty, are gone, and of
\* its own there is a rest.
LEMMA WordRead ==
  ASSUME stdin \in Seq(Rests), NEW n \in Nat, ReadWord(n)
  PROVE  /\ stdin' \in Seq(Rests) /\ Len(stdin') = Len(stdin) - n + 1
         /\ n \in 1..Len(stdin) /\ DOMAIN stdin = 1..Len(stdin)
         /\ DOMAIN stdin' = 1 .. Len(stdin) - n + 1
         /\ stdin[n] \in Rests /\ stdin[n].words # <<>>
         /\ stdin'[1] = Rest(stdin[n].line, Tail(stdin[n].words), FALSE)
         /\ \A i \in 2 .. Len(stdin) - n + 1 : stdin'[i] = stdin[i + n - 1]
<1> DEFINE rest == Rest(stdin[n].line, Tail(stdin[n].words), FALSE)
<1>1. Len(stdin) \in Nat /\ DOMAIN stdin = 1..Len(stdin) BY LenProperties
<1>2. n \in 1..Len(stdin) /\ stdin[n] \in Rests /\ stdin[n].words # <<>>
  BY <1>1, ElementOfSeq DEF ReadWord
<1>3. rest \in Rests
  <2>1. stdin[n].line \in Nat /\ stdin[n].words \in Seq(Words) BY <1>2 DEF Rests
  <2>2. Tail(stdin[n].words) \in Seq(Words) BY <1>2, <2>1, HeadTailProperties
  <2> QED BY <2>1, <2>2 DEF Rests, Rest
<1>4. stdin' = <<rest>> \o SubSeq(stdin, n + 1, Len(stdin)) BY DEF ReadWord
<1> HIDE DEF rest
<1>5. /\ stdin' \in Seq(Rests) /\ Len(stdin') = Len(stdin) - n + 1
      /\ stdin'[1] = rest
      /\ \A i \in 2 .. Len(stdin) - n + 1 : stdin'[i] = stdin[i + n - 1]
  BY <1>2, <1>3, <1>4, LinesReplaced
<1>6. DOMAIN stdin' = 1 .. Len(stdin) - n + 1 BY <1>1, <1>2, <1>5, LenProperties
<1> QED BY <1>1, <1>2, <1>5, <1>6 DEF rest

\* A message was sent: it comes last.
LEMMA MessageSent ==
  ASSUME sent \in Seq(SentMessages), NEW message \in SentMessages,
         sent' = Append(sent, message)
  PROVE  /\ sent' \in Seq(SentMessages) /\ Len(sent) \in Nat
         /\ DOMAIN sent' = 1 .. Len(sent) + 1 /\ DOMAIN sent = 1..Len(sent)
         /\ \A i \in DOMAIN sent : sent'[i] = sent[i] /\ sent[i] \in SentMessages
         /\ sent'[Len(sent) + 1] = message
BY AppendProperties, LenProperties, ElementOfSeq

-----------------------------------------------------------------------------
\* The steps of the console keep what is true of it.

\* At first the end of the line with the first name is still there.
LEMMA ConsoleStart == ConsoleInit => ConsoleInv
<1> SUFFICES ASSUME ConsoleInit PROVE ConsoleInv OBVIOUS
<1>1. MaxLines \in Nat BY LineAssumption
<1>2. /\ typed = <<>> /\ stdin = <<Rest(0, <<>>, FALSE)>> /\ sent = <<>>
      /\ at = "getMessages" /\ asked = "" /\ unread = 0 /\ burst = 0 /\ enters = 0
      /\ lost = {}
  BY DEF ConsoleInit
<1>3. Rest(0, <<>>, FALSE) \in Rests
  <2>1. <<>> \in Seq(Words) BY EmptySeq
  <2> QED BY <2>1 DEF Rests, Rest
<1>4. Rest(0, <<>>, FALSE).line = 0 /\ ~Rest(0, <<>>, FALSE).whole BY DEF Rest
<1>5. /\ stdin \in Seq(Rests) /\ Len(stdin) = 1 /\ DOMAIN stdin = 1..1
      /\ stdin[1].line = 0 /\ ~stdin[1].whole
  <2> DEFINE rest == Rest(0, <<>>, FALSE)
  <2>1. rest \in Rests /\ rest.line = 0 /\ ~rest.whole /\ stdin = <<rest>> BY <1>2, <1>3, <1>4
  <2> HIDE DEF rest
  <2> QED BY <2>1
<1>6. typed \in Seq(Lines) /\ Len(typed) = 0 /\ DOMAIN typed = {}
  <2>1. <<>> \in Seq(Lines) /\ Len(<<>>) = 0 /\ DOMAIN <<>> = {} BY EmptySeq
  <2> QED BY <1>2, <2>1, Zenon
<1>7. sent \in Seq(SentMessages) /\ DOMAIN sent = {}
  <2>1. <<>> \in Seq(SentMessages) /\ DOMAIN <<>> = {} BY EmptySeq
  <2> QED BY <1>2, <2>1, Zenon
<1>8. StdinOK
  <2>1. Consumed = -1 BY <1>5, <1>6 DEF Consumed
  <2>2. Len(typed) <= MaxLines /\ Consumed >= -1 BY <1>1, <1>6, <2>1
  <2>3. at # "second" BY <1>2
  <2>4. ASSUME NEW i \in DOMAIN stdin
        PROVE  /\ stdin[i].line = Consumed + i
               /\ stdin[i].whole =>
                    stdin[i].line \in DOMAIN typed /\ stdin[i].words = typed[stdin[i].line]
               /\ i > 1 \/ at = "second" => stdin[i].whole
    <3>1. i = 1 BY <1>5
    <3> QED BY <1>5, <2>1, <2>3, <3>1
  <2> QED BY <1>5, <1>6, <2>2, <2>4 DEF StdinOK
<1>9. PlaceOK BY <1>2 DEF PlaceOK
<1>10. EntersOK
  <2>1. enters = 0 /\ unread = 0 /\ burst = 0 BY <1>2
  <2>2. enters <= Len(typed) /\ enters \in Nat BY <1>6, <2>1
  <2> QED BY <2>1, <2>2, UnreadAssumption DEF EntersOK
<1>11. LostOK BY <1>2 DEF LostOK
<1>12. SentOK BY <1>7 DEF SentOK
<1> QED BY <1>8, <1>9, <1>10, <1>11, <1>12 DEF ConsoleInv

\* What the lines that were typed are, and where they lie.
LEMMA TypedLines ==
  ASSUME StdinOK
  PROVE  /\ Len(typed) \in Nat /\ DOMAIN typed = 1..Len(typed)
         /\ Len(stdin) \in Nat /\ DOMAIN stdin = 1..Len(stdin)
         /\ Consumed \in Int /\ MaxLines \in Nat
         /\ \A i \in DOMAIN typed : typed[i] \in Seq(Words)
BY LineAssumption, LenProperties, ElementOfSeq DEF StdinOK, Consumed

LEMMA TypeKeeps ==
  ASSUME ConsoleInv, NEW words \in Lines, Type(words)
  PROVE  ConsoleInv'
<1> DEFINE rest == Rest(Len(typed'), words, TRUE)
<1>1. StdinOK /\ PlaceOK /\ EntersOK /\ LostOK /\ SentOK BY DEF ConsoleInv
<1>2. /\ Len(typed) \in Nat /\ DOMAIN typed = 1..Len(typed)
      /\ Len(stdin) \in Nat /\ DOMAIN stdin = 1..Len(stdin)
      /\ Consumed \in Int /\ MaxLines \in Nat
  BY <1>1, TypedLines
<1>3. /\ typed' \in Seq(Lines) /\ Len(typed') = Len(typed) + 1
      /\ DOMAIN typed' = 1 .. Len(typed) + 1
      /\ \A i \in DOMAIN typed : typed'[i] = typed[i]
      /\ typed'[Len(typed) + 1] = words
  BY <1>1, <1>2, AppendProperties, LenProperties DEF Type, StdinOK
<1>4. words \in Seq(Words) BY LineAssumption
<1>5. rest \in Rests /\ rest.line = Len(typed) + 1 /\ rest.whole /\ rest.words = words
  BY <1>2, <1>3, <1>4 DEF Rests, Rest
<1>6. stdin' = Append(stdin, rest) BY DEF Type
<1> HIDE DEF rest
<1>7. /\ stdin' \in Seq(Rests) /\ Len(stdin') = Len(stdin) + 1
      /\ DOMAIN stdin' = 1 .. Len(stdin) + 1
      /\ \A i \in DOMAIN stdin : stdin'[i] = stdin[i]
      /\ stdin'[Len(stdin) + 1] = rest
  BY <1>1, <1>5, <1>6, LineTyped DEF StdinOK
<1>8. Consumed' = Consumed BY <1>2, <1>3, <1>7 DEF Consumed
<1>9. /\ Len(typed) < MaxLines /\ enters' = IF words = <<>> THEN enters + 1 ELSE enters
      /\ UNCHANGED <<at, asked, sent, unread, burst, lost>>
  BY DEF Type
<1>10. StdinOK'
  <2>1. ASSUME NEW i \in DOMAIN stdin'
        PROVE  /\ stdin'[i].line = Consumed + i
               /\ stdin'[i].whole =>
                    stdin'[i].line \in DOMAIN typed' /\ stdin'[i].words = typed'[stdin'[i].line]
               /\ i > 1 \/ at' = "second" => stdin'[i].whole
    <3>1. CASE i = Len(stdin) + 1 BY <1>2, <1>3, <1>5, <1>7, <3>1 DEF Consumed
    <3>2. CASE i # Len(stdin) + 1
      <4>1. i \in DOMAIN stdin /\ stdin'[i] = stdin[i] BY <1>2, <1>7, <3>2
      <4> QED BY <1>1, <1>2, <1>3, <1>9, <4>1 DEF StdinOK
    <3> QED BY <3>1, <3>2
  <2> QED BY <1>1, <1>2, <1>3, <1>7, <1>8, <1>9, <2>1 DEF StdinOK
<1>11. PlaceOK' BY <1>1, <1>9 DEF PlaceOK
<1>12. EntersOK'
  <2>1. LinesOfTurn' = LinesOfTurn /\ LinesOfTurn \in 0..2 BY <1>9 DEF LinesOfTurn
  <2>2. enters \in Nat /\ enters' \in Nat /\ enters <= enters' /\ enters' <= enters + 1
    BY <1>1, <1>9 DEF EntersOK
  <2>3. unread' = unread /\ burst' = burst BY <1>9
  <2>4. enters' <= Len(typed') BY <1>1, <1>2, <1>3, <2>2 DEF EntersOK
  <2>5. ASSUME unread > 0 PROVE enters' <= 2 * (burst - unread) + LinesOfTurn + Len(stdin')
    <3>1. enters <= 2 * (burst - unread) + LinesOfTurn + Len(stdin) BY <1>1, <2>5 DEF EntersOK
    <3>2. unread \in Int /\ burst \in Int BY <1>1 DEF EntersOK
    <3> QED BY <1>2, <1>7, <2>1, <2>2, <3>1, <3>2
  <2> QED BY <1>1, <2>1, <2>2, <2>3, <2>4, <2>5 DEF EntersOK
<1>13. LostOK' BY <1>1, <1>2, <1>3, <1>8, <1>9 DEF LostOK
<1>14. SentOK'
  <2>1. EndLeft' => EndLeft
    <3>1. stdin # <<>> => 1 \in DOMAIN stdin /\ stdin'[1] = stdin[1]
      BY <1>1, <1>2, <1>7, EmptySeq DEF StdinOK
    <3>2. stdin = <<>> => stdin'[1].whole BY <1>5, <1>7
    <3> QED BY <3>1, <3>2 DEF EndLeft
  <2>2. ASSUME NEW i \in DOMAIN sent
        PROVE  /\ sent[i].line <=
                    IF EndLeft' /\ at \in {"getMessages", "first"} THEN Consumed + 1 ELSE Consumed
               /\ sent[i].kind = "text" =>
                    sent[i].line \in DOMAIN typed' /\ sent[i].words = typed'[sent[i].line]
    <3>1. EndLeft /\ ~EndLeft' => FALSE
      BY <1>1, <1>2, <1>7, EmptySeq DEF EndLeft, StdinOK
    <3> QED BY <1>1, <1>2, <1>3, <2>1, <3>1 DEF SentOK
  <2> QED BY <1>1, <1>8, <1>9, <2>2 DEF SentOK
<1> QED BY <1>10, <1>11, <1>12, <1>13, <1>14 DEF ConsoleInv

LEMMA ArriveKeeps == ASSUME ConsoleInv, Arrive PROVE ConsoleInv'
<1>1. StdinOK /\ PlaceOK /\ EntersOK /\ LostOK /\ SentOK BY DEF ConsoleInv
<1>2. Len(typed) \in Nat /\ Len(stdin) \in Nat BY <1>1, TypedLines
<1>3. /\ unread' \in 1..MaxUnread /\ burst' = unread' /\ enters' = 0
      /\ UNCHANGED <<typed, stdin, at, asked, sent, lost>>
  BY DEF Arrive
<1>4. EntersOK'
  <2>1. LinesOfTurn' \in 0..2 BY DEF LinesOfTurn
  <2>2. Len(stdin') \in Nat /\ Len(typed') \in Nat BY <1>2, <1>3
  <2>3. enters' = 0 /\ burst' = unread' /\ unread' \in 0..MaxUnread /\ unread' \in Int
    BY <1>3, UnreadAssumption
  <2>4. enters' <= 2 * (burst' - unread') + LinesOfTurn' + Len(stdin')
    <3>1. \A k \in Int : 2 * (k - k) = 0 OBVIOUS
    <3>2. 2 * (burst' - unread') = 0 BY <2>3, <3>1
    <3>3. \A k \in Nat, m \in 0..2 : 0 <= 0 + m + k OBVIOUS
    <3> QED BY <2>1, <2>2, <2>3, <3>2, <3>3
  <2>5. enters' \in Nat /\ enters' <= Len(typed') /\ unread' <= burst' BY <2>2, <2>3
  <2> QED BY <2>3, <2>4, <2>5 DEF EntersOK
<1>5. StdinOK' /\ PlaceOK' /\ LostOK' BY <1>1, <1>3 DEF StdinOK, PlaceOK, LostOK, Consumed
<1>6. SentOK' BY <1>1, <1>3 DEF SentOK, EndLeft, Consumed
<1> QED BY <1>4, <1>5, <1>6 DEF ConsoleInv

LEMMA GetMessagesKeeps == ASSUME ConsoleInv, GetMessages PROVE ConsoleInv'
<1>1. StdinOK /\ PlaceOK /\ EntersOK /\ LostOK /\ SentOK BY DEF ConsoleInv
<1>2. /\ at = "getMessages" /\ at' = "first"
      /\ unread' = IF unread = 0 THEN 0 ELSE unread - 1
      /\ UNCHANGED <<typed, stdin, asked, sent, burst, enters, lost>>
  BY DEF GetMessages
<1>3. EntersOK'
  <2>1. LinesOfTurn = 2 /\ LinesOfTurn' = 0 BY <1>2 DEF LinesOfTurn
  <2>2. Len(stdin) \in Nat BY <1>1, TypedLines
  <2> QED BY <1>1, <1>2, <2>1, <2>2, UnreadAssumption DEF EntersOK
<1>4. StdinOK' BY <1>1, <1>2 DEF StdinOK, Consumed
<1>5. PlaceOK' /\ LostOK' BY <1>1, <1>2 DEF PlaceOK, LostOK, Consumed
<1>6. SentOK' BY <1>1, <1>2 DEF SentOK, EndLeft, Consumed
<1> QED BY <1>3, <1>4, <1>5, <1>6 DEF ConsoleInv

LEMMA FirstGetlineKeeps == ASSUME ConsoleInv, FirstGetline PROVE ConsoleInv'
<1>1. StdinOK /\ PlaceOK /\ EntersOK /\ LostOK /\ SentOK BY DEF ConsoleInv
<1>2. /\ Len(typed) \in Nat /\ DOMAIN typed = 1..Len(typed)
      /\ Len(stdin) \in Nat /\ DOMAIN stdin = 1..Len(stdin)
      /\ Consumed \in Int /\ MaxLines \in Nat
  BY <1>1, TypedLines
<1>3. /\ at = "first" /\ stdin # <<>> /\ stdin' = Tail(stdin) /\ at' = "second"
      /\ lost' = lost \union {r.line : r \in {q \in {Head(stdin)} : q.whole}}
      /\ UNCHANGED <<typed, asked, sent, unread, burst, enters>>
  BY DEF FirstGetline
<1>4. /\ stdin' \in Seq(Rests) /\ Len(stdin') = Len(stdin) - 1
      /\ 1 \in DOMAIN stdin /\ Head(stdin) = stdin[1] /\ stdin[1] \in Rests
      /\ \A i \in DOMAIN stdin' : i + 1 \in DOMAIN stdin /\ stdin'[i] = stdin[i + 1]
  BY <1>1, <1>3, LineRead DEF StdinOK
<1>5. Consumed' = Consumed + 1 BY <1>2, <1>3, <1>4 DEF Consumed
<1>6. DOMAIN stdin' = 1 .. Len(stdin) - 1 BY <1>2, <1>4, LenProperties
<1>7. StdinOK'
  <2>1. ASSUME NEW i \in DOMAIN stdin'
        PROVE  /\ stdin'[i].line = Consumed' + i
               /\ stdin'[i].whole =>
                    stdin'[i].line \in DOMAIN typed' /\ stdin'[i].words = typed'[stdin'[i].line]
               /\ stdin'[i].whole
    <3>1. i \in Nat /\ i + 1 > 1 /\ i + 1 \in DOMAIN stdin /\ stdin'[i] = stdin[i + 1]
      BY <1>4, <1>6
    <3> QED BY <1>1, <1>2, <1>3, <1>5, <3>1 DEF StdinOK
  <2> QED BY <1>1, <1>2, <1>3, <1>4, <1>5, <2>1 DEF StdinOK
<1>8. PlaceOK' BY <1>1, <1>3 DEF PlaceOK
<1>9. EntersOK'
  <2>1. LinesOfTurn = 0 /\ LinesOfTurn' = 1 BY <1>3 DEF LinesOfTurn
  <2> QED BY <1>1, <1>2, <1>3, <1>4, <2>1, UnreadAssumption DEF EntersOK
<1>10. LostOK'
  <2>1. stdin[1].whole => stdin[1].line = Consumed + 1 /\ stdin[1].line \in DOMAIN typed
    BY <1>1, <1>4 DEF StdinOK
  <2>2. \A n \in lost : n \in Nat /\ n < Consumed /\ n + 1 \notin lost /\ n \in DOMAIN typed
    BY <1>1, <1>2, <1>3 DEF LostOK
  <2>3. \A n \in lost' : n \in lost \/ (n = Consumed + 1 /\ n \in DOMAIN typed)
    BY <1>3, <1>4, <2>1
  <2>4. lost \subseteq lost' BY <1>3
  <2>5. ASSUME NEW n \in lost' PROVE n \in DOMAIN typed /\ n <= Consumed + 1 /\ n + 1 \notin lost'
    <3>1. n \in DOMAIN typed /\ n \in Int /\ n <= Consumed + 1 BY <1>2, <2>2, <2>3
    <3>2. n + 1 \notin lost BY <1>2, <2>2, <2>3
    <3>3. n + 1 # Consumed + 1 BY <1>2, <2>2, <2>3
    <3> QED BY <2>3, <3>1, <3>2, <3>3
  <2>6. /\ lost' \subseteq DOMAIN typed
        /\ \A n \in lost' : n <= Consumed' /\ n + 1 \notin lost'
    BY <1>5, <2>5
  <2> QED BY <1>3, <2>6 DEF LostOK
<1>11. SentOK'
  <2>1. \A i \in DOMAIN sent : sent[i].line <= Consumed + 1
    <3>1. \A i \in DOMAIN sent : sent[i] \in SentMessages BY <1>1, ElementOfSeq, LenProperties DEF SentOK
    <3>2. \A i \in DOMAIN sent : sent[i].line \in Nat BY <3>1 DEF SentMessages
    <3> QED BY <1>1, <1>2, <3>2 DEF SentOK
  <2>2. at' \notin {"getMessages", "first"} BY <1>3
  <2> QED BY <1>1, <1>3, <1>5, <2>1, <2>2 DEF SentOK
<1> QED BY <1>7, <1>8, <1>9, <1>10, <1>11 DEF ConsoleInv

\* What has been sent has a line, and a text its own.
LEMMA SentTypes ==
  ASSUME SentOK
  PROVE  /\ Len(sent) \in Nat /\ DOMAIN sent = 1..Len(sent)
         /\ \A i \in DOMAIN sent : sent[i] \in SentMessages /\ sent[i].line \in Nat
<1>1. Len(sent) \in Nat /\ DOMAIN sent = 1..Len(sent) BY LenProperties DEF SentOK
<1>2. \A i \in DOMAIN sent : sent[i] \in SentMessages BY <1>1, ElementOfSeq DEF SentOK
<1> QED BY <1>1, <1>2 DEF SentMessages

\* A message that is sent for a line none was sent for yet follows those sent before.
LEMMA SentInOrder ==
  ASSUME SentOK, NEW message \in SentMessages, sent' = Append(sent, message),
         \A i \in DOMAIN sent : sent[i].line < message.line
  PROVE  /\ sent' \in Seq(SentMessages)
         /\ \A i, j \in DOMAIN sent' : i < j => sent'[i].line < sent'[j].line
         /\ \A i \in DOMAIN sent' : sent'[i] = message \/ (i \in DOMAIN sent /\ sent'[i] = sent[i])
<1>1. /\ sent' \in Seq(SentMessages) /\ Len(sent) \in Nat
      /\ DOMAIN sent' = 1 .. Len(sent) + 1 /\ DOMAIN sent = 1..Len(sent)
      /\ \A i \in DOMAIN sent : sent'[i] = sent[i]
      /\ sent'[Len(sent) + 1] = message
  BY MessageSent DEF SentOK
<1>2. ASSUME NEW i \in DOMAIN sent', NEW j \in DOMAIN sent', i < j
      PROVE  sent'[i].line < sent'[j].line
  <2>1. i \in DOMAIN sent /\ sent'[i] = sent[i] BY <1>1, <1>2
  <2>2. CASE j = Len(sent) + 1 BY <1>1, <2>1, <2>2
  <2>3. CASE j # Len(sent) + 1
    <3>1. j \in DOMAIN sent /\ sent'[j] = sent[j] BY <1>1, <2>3
    <3> QED BY <1>2, <2>1, <3>1 DEF SentOK
  <2> QED BY <2>2, <2>3
<1>3. ASSUME NEW i \in DOMAIN sent'
      PROVE  sent'[i] = message \/ (i \in DOMAIN sent /\ sent'[i] = sent[i])
  <2>1. CASE i = Len(sent) + 1
    <3>1. sent'[Len(sent) + 1] = message BY <1>1
    <3> QED BY <2>1, <3>1
  <2>2. CASE i # Len(sent) + 1
    <3>1. i \in DOMAIN sent BY <1>1, <2>2
    <3> QED BY <1>1, <3>1
  <2> QED BY <2>1, <2>2
<1> QED BY <1>1, <1>2, <1>3

LEMMA SecondGetlineKeeps == ASSUME ConsoleInv, SecondGetline PROVE ConsoleInv'
<1> DEFINE words == Head(stdin).words
           command == Len(words) = 1 /\ words[1] \in Commands
           message == Sent("text", Head(stdin).line, words)
<1>1. StdinOK /\ PlaceOK /\ EntersOK /\ LostOK /\ SentOK BY DEF ConsoleInv
<1>2. /\ Len(typed) \in Nat /\ DOMAIN typed = 1..Len(typed)
      /\ Len(stdin) \in Nat /\ DOMAIN stdin = 1..Len(stdin)
      /\ Consumed \in Int /\ MaxLines \in Nat
  BY <1>1, TypedLines
<1>3. /\ at = "second" /\ stdin # <<>> /\ stdin' = Tail(stdin)
      /\ UNCHANGED <<typed, unread, burst, enters, lost>>
  BY DEF SecondGetline
<1>4. \/ /\ command
         /\ asked' = words[1]
         /\ at' = IF words[1] \in CredentialCommands THEN "email" ELSE "room"
         /\ UNCHANGED sent
      \/ /\ sent' = IF words = <<>> THEN sent ELSE Append(sent, message)
         /\ at' = "getMessages"
         /\ UNCHANGED asked
  BY DEF SecondGetline, Commands, NextTurn
<1>5. /\ stdin' \in Seq(Rests) /\ Len(stdin') = Len(stdin) - 1
      /\ 1 \in DOMAIN stdin /\ Head(stdin) = stdin[1] /\ stdin[1] \in Rests
      /\ \A i \in DOMAIN stdin' : i + 1 \in DOMAIN stdin /\ stdin'[i] = stdin[i + 1]
  BY <1>1, <1>3, LineRead DEF StdinOK
<1>6. Consumed' = Consumed + 1 BY <1>2, <1>3, <1>5 DEF Consumed
<1>7. DOMAIN stdin' = 1 .. Len(stdin) - 1 BY <1>2, <1>5, LenProperties
<1>8. at' \in {"getMessages", "email", "room"} BY <1>4
<1>9. \A i \in DOMAIN stdin : stdin[i].whole BY <1>1, <1>3 DEF StdinOK
<1>10. StdinOK'
  <2>1. ASSUME NEW i \in DOMAIN stdin'
        PROVE  /\ stdin'[i].line = Consumed' + i
               /\ stdin'[i].whole =>
                    stdin'[i].line \in DOMAIN typed' /\ stdin'[i].words = typed'[stdin'[i].line]
               /\ stdin'[i].whole
    <3>1. i \in Nat /\ i + 1 \in DOMAIN stdin /\ stdin'[i] = stdin[i + 1] BY <1>5, <1>7
    <3> QED BY <1>1, <1>2, <1>3, <1>6, <1>9, <3>1 DEF StdinOK
  <2> QED BY <1>1, <1>2, <1>3, <1>5, <1>6, <2>1 DEF StdinOK
<1>11. PlaceOK'
  <2>1. CASE at' = "getMessages"
    <3>1. asked' = asked BY <1>4, <2>1
    <3>2. asked = "" BY <1>1, <1>3 DEF PlaceOK
    <3> QED BY <2>1, <3>1, <3>2 DEF PlaceOK
  <2>2. CASE at' # "getMessages"
    <3>1. asked' \in Commands /\ at' \in {"email", "room"} BY <1>4, <2>2
    <3>2. asked' # "" BY <3>1 DEF Commands, CredentialCommands, RoomCommands
    <3> QED BY <3>1, <3>2 DEF PlaceOK
  <2> QED BY <2>1, <2>2
<1>12. EntersOK'
  <2>1. LinesOfTurn = 1 /\ LinesOfTurn' = 2 BY <1>3, <1>8 DEF LinesOfTurn
  <2> QED BY <1>1, <1>2, <1>3, <1>5, <2>1, UnreadAssumption DEF EntersOK
<1>13. LostOK'
  <2>1. \A n \in lost : n \in Nat /\ n <= Consumed /\ n + 1 \notin lost /\ n \in DOMAIN typed
    BY <1>1, <1>2 DEF LostOK
  <2> QED BY <1>2, <1>3, <1>6, <2>1 DEF LostOK
<1>14. \A i \in DOMAIN sent : sent[i].line \in Nat /\ sent[i].line <= Consumed
  BY <1>1, <1>3, SentTypes DEF SentOK
<1>15. SentOK'
  <2>1. CASE sent' = sent BY <1>1, <1>2, <1>3, <1>6, <1>14, <2>1 DEF SentOK
  <2>2. CASE sent' = Append(sent, message)
    <3>1. /\ message \in SentMessages /\ message.kind = "text" /\ message.line = Consumed + 1
          /\ message.line \in DOMAIN typed /\ message.words = typed[message.line]
      BY <1>1, <1>5, <1>9 DEF StdinOK, SentMessages, Sent, Rests
    <3> HIDE DEF message
    <3>2. \A i \in DOMAIN sent : sent[i].line < message.line BY <1>2, <1>14, <3>1
    <3>3. /\ sent' \in Seq(SentMessages)
          /\ \A i, j \in DOMAIN sent' : i < j => sent'[i].line < sent'[j].line
          /\ \A i \in DOMAIN sent' : sent'[i] = message \/ (i \in DOMAIN sent /\ sent'[i] = sent[i])
      BY <1>1, <2>2, <3>1, <3>2, SentInOrder
    <3>4. ASSUME NEW i \in DOMAIN sent'
          PROVE  /\ sent'[i].line <= Consumed'
                 /\ sent'[i].kind = "text" =>
                      sent'[i].line \in DOMAIN typed' /\ sent'[i].words = typed'[sent'[i].line]
                 /\ sent'[i].line \in Nat
      <4>1. CASE sent'[i] = message BY <1>2, <1>3, <1>6, <3>1, <4>1
      <4>2. CASE i \in DOMAIN sent /\ sent'[i] = sent[i]
        BY <1>1, <1>2, <1>3, <1>6, <1>14, <4>2 DEF SentOK
      <4> QED BY <3>3, <4>1, <4>2
    <3>5. Consumed' \in Int BY <1>2, <1>6
    <3> QED BY <3>3, <3>4, <3>5 DEF SentOK
  <2>3. CASE sent' # sent /\ sent' # Append(sent, message) BY <1>4, <2>3
  <2> QED BY <2>1, <2>2, <2>3
<1> QED BY <1>10, <1>11, <1>12, <1>13, <1>15 DEF ConsoleInv

\* A word was read: what is left is where it was, and the first of it is the end of
\* a line.
LEMMA WordReadKeeps ==
  ASSUME ConsoleInv, NEW n \in Nat, ReadWord(n), at' # "second",
         UNCHANGED <<typed, unread, burst, lost>>, at' \notin {"first", "second"},
         at # "second"
  PROVE  /\ StdinOK' /\ LostOK' /\ EntersOK' /\ EndLeft'
         /\ Consumed' = Consumed + n - 1 /\ n \in DOMAIN stdin /\ n >= 1
         /\ stdin[n] \in Rests /\ stdin[n].line = Consumed + n
<1>1. StdinOK /\ PlaceOK /\ EntersOK /\ LostOK /\ SentOK BY DEF ConsoleInv
<1>2. /\ Len(typed) \in Nat /\ DOMAIN typed = 1..Len(typed)
      /\ Len(stdin) \in Nat /\ DOMAIN stdin = 1..Len(stdin)
      /\ Consumed \in Int /\ MaxLines \in Nat
  BY <1>1, TypedLines
<1>3. UNCHANGED <<typed, unread, burst, lost>> /\ enters' = 0 BY DEF ReadWord
<1>4. /\ stdin' \in Seq(Rests) /\ Len(stdin') = Len(stdin) - n + 1
      /\ n \in 1..Len(stdin)
      /\ DOMAIN stdin' = 1 .. Len(stdin) - n + 1
      /\ stdin[n] \in Rests
      /\ stdin'[1] = Rest(stdin[n].line, Tail(stdin[n].words), FALSE)
      /\ \A i \in 2 .. Len(stdin) - n + 1 : stdin'[i] = stdin[i + n - 1]
  BY <1>1, WordRead DEF StdinOK
<1>5. Consumed' = Consumed + n - 1 BY <1>2, <1>3, <1>4 DEF Consumed
<1>6. stdin[n].line = Consumed + n BY <1>1, <1>2, <1>4 DEF StdinOK
<1>7. stdin'[1].line = Consumed + n /\ ~stdin'[1].whole BY <1>4, <1>6 DEF Rest
<1>8. StdinOK'
  <2>1. ASSUME NEW i \in DOMAIN stdin'
        PROVE  /\ stdin'[i].line = Consumed' + i
               /\ stdin'[i].whole =>
                    stdin'[i].line \in DOMAIN typed' /\ stdin'[i].words = typed'[stdin'[i].line]
               /\ i > 1 => stdin'[i].whole
    <3>1. CASE i = 1
      <4>1. stdin'[i].line = Consumed + n /\ ~stdin'[i].whole BY <1>7, <3>1, Zenon
      <4>2. Consumed' + i = Consumed + n BY <1>2, <1>4, <1>5, <3>1
      <4> QED BY <3>1, <4>1, <4>2
    <3>2. CASE i # 1
      <4>1. i \in 2 .. Len(stdin) - n + 1 /\ n \in 1..Len(stdin) /\ Len(stdin) \in Nat
        BY <1>2, <1>4, <3>2
      <4>3. /\ i \in Nat /\ i + n - 1 \in DOMAIN stdin /\ i + n - 1 > 1
            /\ stdin'[i] = stdin[i + n - 1]
        BY <1>2, <1>4, <4>1
      <4>2. Consumed + (i + n - 1) = Consumed' + i BY <1>2, <1>4, <1>5, <4>3
      <4> QED BY <1>1, <1>3, <4>2, <4>3 DEF StdinOK
    <3> QED BY <3>1, <3>2
  <2> QED BY <1>1, <1>2, <1>3, <1>4, <1>5, <2>1 DEF StdinOK
<1>9. LostOK'
  <2>1. \A k \in lost : k \in Nat /\ k < Consumed /\ k + 1 \notin lost /\ k \in DOMAIN typed
    BY <1>1, <1>2 DEF LostOK
  <2>2. Consumed' \in Int /\ Consumed <= Consumed' BY <1>2, <1>4, <1>5
  <2>3. \A k \in lost : k <= Consumed' /\ k < Consumed' BY <1>2, <2>1, <2>2
  <2> QED BY <1>3, <2>1, <2>3 DEF LostOK
<1>10. EntersOK'
  <2>1. LinesOfTurn' \in 0..2 BY DEF LinesOfTurn
  <2>2. Len(stdin') \in Nat BY <1>4, LenProperties
  <2> QED BY <1>1, <1>2, <1>3, <2>1, <2>2, UnreadAssumption DEF EntersOK
<1>11. EndLeft'
  <2>1. 1 \in DOMAIN stdin' BY <1>2, <1>4
  <2>2. stdin' # <<>> BY <2>1
  <2> QED BY <1>7, <2>2 DEF EndLeft
<1> QED BY <1>2, <1>4, <1>5, <1>6, <1>8, <1>9, <1>10, <1>11

\* Asking on sends nothing.
LEMMA AskedOn ==
  ASSUME ConsoleInv, at \in {"email", "password"}, at' = "password",
         NEW n \in Nat, ReadWord(n), UNCHANGED <<typed, asked, sent, unread, burst, lost>>
  PROVE  ConsoleInv'
<1>1. StdinOK /\ PlaceOK /\ SentOK BY DEF ConsoleInv
<1>2. /\ StdinOK' /\ LostOK' /\ EntersOK' /\ Consumed' = Consumed + n - 1 /\ n >= 1
  BY WordReadKeeps
<1>3. PlaceOK' BY <1>1 DEF PlaceOK
<1>4. SentOK'
  <2>1. Consumed \in Int BY <1>1, TypedLines
  <2>2. \A i \in DOMAIN sent : sent[i].line \in Nat /\ sent[i].line <= Consumed
    BY <1>1, SentTypes DEF SentOK
  <2>3. \A i \in DOMAIN sent : sent[i].line <= Consumed' BY <1>2, <2>1, <2>2
  <2> QED BY <1>1, <2>3 DEF SentOK
<1> QED BY <1>2, <1>3, <1>4 DEF ConsoleInv

\* A sequence of one word.
LEMMA OneWord ==
  ASSUME NEW words \in Seq(Words), words # <<>>
  PROVE  <<words[1]>> \in Seq(Words)
<1>1. Len(words) \in Nat \ {0} BY EmptySeq
<1>2. words[1] \in Words BY <1>1, ElementOfSeq
<1> QED BY <1>2

\* What is sent for the line a word was taken from, the n-th of std::cin, is sent in order.
LEMMA SentForWord ==
  ASSUME SentOK, NEW n \in Nat, n >= 1, Consumed \in Int, Consumed' = Consumed + n - 1,
         EndLeft', at # "first", at # "getMessages", at' = "getMessages",
         NEW message \in SentMessages, message.line = Consumed + n, message.kind # "text",
         sent' = Append(sent, message), typed' = typed
  PROVE  SentOK'
<1>1. \A i \in DOMAIN sent : sent[i].line \in Nat /\ sent[i].line <= Consumed
  BY SentTypes DEF SentOK
<1>2. \A i \in DOMAIN sent : sent[i].line < message.line BY <1>1
<1>3. /\ sent' \in Seq(SentMessages)
      /\ \A i, j \in DOMAIN sent' : i < j => sent'[i].line < sent'[j].line
      /\ \A i \in DOMAIN sent' : sent'[i] = message \/ (i \in DOMAIN sent /\ sent'[i] = sent[i])
  BY <1>2, SentInOrder
<1>4. Consumed' + 1 = Consumed + n OBVIOUS
<1>5. ASSUME NEW i \in DOMAIN sent'
      PROVE  /\ sent'[i].line <= Consumed' + 1
             /\ sent'[i].kind = "text" =>
                  sent'[i].line \in DOMAIN typed' /\ sent'[i].words = typed'[sent'[i].line]
  <2>1. CASE sent'[i] = message BY <1>4, <2>1
  <2>2. CASE i \in DOMAIN sent /\ sent'[i] = sent[i]
    <3>1. sent[i].line <= Consumed + n BY <1>1, <2>2
    <3>2. sent'[i].line <= Consumed' + 1 BY <1>4, <2>2, <3>1
    <3> QED BY <2>2, <3>2 DEF SentOK
  <2> QED BY <1>3, <2>1, <2>2
<1> QED BY <1>3, <1>5 DEF SentOK

\* With the last word the message of a command is sent.
LEMMA AskedAll ==
  ASSUME ConsoleInv, at \in {"password", "room"}, at' = "getMessages",
         NEW n \in Nat, ReadWord(n), asked' = "",
         sent' = Append(sent, Sent(asked, stdin[n].line, <<stdin[n].words[1]>>)),
         UNCHANGED <<typed, unread, burst, lost>>
  PROVE  ConsoleInv'
<1> DEFINE message == Sent(asked, stdin[n].line, <<stdin[n].words[1]>>)
<1>1. StdinOK /\ PlaceOK /\ SentOK BY DEF ConsoleInv
<1>2. /\ StdinOK' /\ LostOK' /\ EntersOK' /\ EndLeft'
      /\ Consumed' = Consumed + n - 1 /\ n >= 1
      /\ stdin[n] \in Rests /\ stdin[n].line = Consumed + n
  BY WordReadKeeps
<1>3. PlaceOK' BY DEF PlaceOK
<1>4. stdin[n].line \in Nat /\ stdin[n].words \in Seq(Words) /\ stdin[n].words # <<>>
  BY <1>2 DEF Rests, ReadWord
<1>5. <<stdin[n].words[1]>> \in Seq(Words) BY <1>4, OneWord
<1>6. asked \in Commands BY <1>1 DEF PlaceOK
<1>7. /\ message \in SentMessages /\ message.line = Consumed + n /\ message.kind # "text"
      /\ sent' = Append(sent, message)
  BY <1>2, <1>4, <1>5, <1>6 DEF SentMessages, Sent, Commands, CredentialCommands, RoomCommands
<1> HIDE DEF message
<1>8. Consumed \in Int BY <1>1, TypedLines
<1>9. at # "first" /\ at # "getMessages" /\ typed' = typed OBVIOUS
<1>10. SentOK' BY <1>1, <1>2, <1>7, <1>8, <1>9, SentForWord
<1> QED BY <1>2, <1>3, <1>10 DEF ConsoleInv

LEMMA AskKeeps ==
  ASSUME ConsoleInv, NEW n \in 1 .. MaxLines + 1, AskEmail(n) \/ AskPassword(n) \/ AskRoom(n)
  PROVE  ConsoleInv'
<1>1. n \in Nat BY LineAssumption
<1>2. CASE AskEmail(n) BY <1>1, <1>2, AskedOn DEF AskEmail
<1>3. CASE AskPassword(n)
  <2>1. CASE stdin[n].words[1] \in ShortWords BY <1>1, <1>3, <2>1, AskedOn DEF AskPassword
  <2>2. CASE stdin[n].words[1] \notin ShortWords BY <1>1, <1>3, <2>2, AskedAll DEF AskPassword
  <2> QED BY <2>1, <2>2
<1>4. CASE AskRoom(n) BY <1>1, <1>4, AskedAll DEF AskRoom
<1> QED BY <1>2, <1>3, <1>4

LEMMA ConsoleStep == ConsoleInv /\ [ConsoleNext]_consoleVars => ConsoleInv'
<1> SUFFICES ASSUME ConsoleInv, [ConsoleNext]_consoleVars PROVE ConsoleInv' OBVIOUS
<1>1. CASE UNCHANGED consoleVars
  BY <1>1 DEF consoleVars, ConsoleInv, StdinOK, PlaceOK, EntersOK, LinesOfTurn, LostOK, SentOK,
              EndLeft, Consumed
<1>2. ASSUME NEW words \in Lines, Type(words) PROVE ConsoleInv' BY <1>2, TypeKeeps
<1>3. CASE Arrive BY <1>3, ArriveKeeps
<1>4. CASE GetMessages BY <1>4, GetMessagesKeeps
<1>5. CASE FirstGetline BY <1>5, FirstGetlineKeeps
<1>6. CASE SecondGetline BY <1>6, SecondGetlineKeeps
<1>7. ASSUME NEW n \in 1 .. MaxLines + 1, AskEmail(n) \/ AskPassword(n) \/ AskRoom(n)
      PROVE  ConsoleInv'
  BY <1>7, AskKeeps
<1> QED BY <1>1, <1>2, <1>3, <1>4, <1>5, <1>6, <1>7 DEF ConsoleNext

\* The invariant of the console: where the lines typed are, and which of them the
\* messages sent, and the lines lost, come from.
THEOREM ConsoleInvariant == ConsoleSpec => []ConsoleInv
<1>1. ConsoleInit => ConsoleInv BY ConsoleStart
<1>2. ConsoleInv /\ [ConsoleNext]_consoleVars => ConsoleInv' BY ConsoleStep
<1> QED BY <1>1, <1>2, PTL DEF ConsoleSpec

\* The types follow from the invariant of the console.
LEMMA ConsoleTypes == ConsoleInv => ConsoleTypeOK
<1> SUFFICES ASSUME ConsoleInv PROVE ConsoleTypeOK OBVIOUS
<1>1. StdinOK /\ PlaceOK /\ EntersOK /\ LostOK BY DEF ConsoleInv
<1>2. Len(typed) \in Nat /\ MaxLines \in Nat BY <1>1, TypedLines
<1>3. typed \in Seq(Lines) BY <1>1 DEF StdinOK
<1>4. /\ at \in {"getMessages", "first", "second", "email", "password", "room"}
      /\ asked \in CredentialCommands \union RoomCommands \union {""}
      /\ asked # "" <=> at \in {"email", "password", "room"}
  BY <1>1 DEF PlaceOK, Commands
<1>5. enters \in Nat /\ enters <= Len(typed) /\ Len(typed) <= MaxLines
  BY <1>1 DEF EntersOK, StdinOK
<1>6. enters \in 0..MaxLines BY <1>2, <1>5
<1>7. {unread, burst} \subseteq 0..MaxUnread /\ lost \subseteq DOMAIN typed
  BY <1>1 DEF EntersOK, LostOK
<1>8. \A i \in DOMAIN stdin :
        /\ stdin[i].line = Len(typed) - Len(stdin) + i
        /\ stdin[i].whole => stdin[i].words = typed[stdin[i].line]
  BY <1>1 DEF StdinOK, Consumed
<1> QED BY <1>3, <1>4, <1>6, <1>7, <1>8 DEF ConsoleTypeOK

\* Type correctness of the console.
THEOREM ConsoleTypeCorrect == ConsoleSpec => []ConsoleTypeOK
<1> QED BY ConsoleTypes, ConsoleInvariant, PTL

\* What the console sends as a text is a whole line that the user typed, and what
\* it sends is sent in the order of the lines, however far ahead the user types.
THEOREM SentAsTyped == ConsoleSpec => []TextsWhole
<1>1. ConsoleInv => TextsWhole BY DEF ConsoleInv, SentOK, TextsWhole
<1> QED BY <1>1, ConsoleInvariant, PTL

\* The getline of main never swallows two lines in a row.
THEOREM EveryOtherLine == ConsoleSpec => []NoTwoLost
<1>1. ConsoleInv => NoTwoLost BY DEF ConsoleInv, LostOK, NoTwoLost
<1> QED BY <1>1, ConsoleInvariant, PTL

\* Twice as many Enters as what has arrived takes receives of 512 bytes get all of it
\* read, whatever the console was doing when it arrived, and however large that is.
THEOREM TwoEntersShow == ConsoleSpec => []TwoEntersRefresh
<1>1. ConsoleInv => TwoEntersRefresh
  <2> SUFFICES ASSUME ConsoleInv, stdin = <<>>, at \in {"first", "second"},
                      enters >= 2 * burst, unread # 0
               PROVE  FALSE
    BY DEF TwoEntersRefresh, Waiting
  <2>1. Len(stdin) = 0 BY EmptySeq
  <2>2. /\ unread \in 0..MaxUnread /\ burst \in 0..MaxUnread /\ enters \in Nat
        /\ unread > 0 => enters <= 2 * (burst - unread) + LinesOfTurn + Len(stdin)
    BY DEF ConsoleInv, EntersOK
  <2>3. LinesOfTurn \in 0..1 BY DEF LinesOfTurn
  <2> QED BY <2>1, <2>2, <2>3, UnreadAssumption
<1> QED BY <1>1, ConsoleInvariant, PTL

-----------------------------------------------------------------------------
\* getMessages: the receive.

Packets == [len : PacketLengths, from : Nat, to : Int, at : Int]

\* The packets follow one another, each with a byte at least, and only the first
\* may lack its beginning.
PacketsOK ==
  /\ packets \in Seq(Packets) /\ Len(packets) > 0
  /\ packets[1].at = 0
  /\ \A i \in DOMAIN packets :
       /\ packets[i].from < packets[i].to /\ packets[i].to <= packets[i].len
       /\ i > 1 => packets[i].from = 0
       /\ i < Len(packets) => packets[i + 1].at = packets[i].at + Have(packets[i])
  /\ BytesReceived <= DefaultBufferLength

\* Packets that start where a sequence of their lengths says follow one another.
LEMMA PacketsFollow ==
  ASSUME NEW v \in Seq(Int), packets \in Seq(Packets), Len(packets) = Len(v), Len(v) > 0,
         BytesReceived <= DefaultBufferLength,
         \A i \in 1..Len(v) :
           /\ packets[i].at = Start(v, i) /\ Have(packets[i]) = v[i]
           /\ packets[i].from < packets[i].to /\ packets[i].to <= packets[i].len
           /\ i > 1 => packets[i].from = 0
  PROVE  PacketsOK
<1>1. Len(v) \in Nat /\ DOMAIN packets = 1..Len(v) BY LenProperties
<1>2. Start(v, 1) = 0 /\ \A i \in 1..Len(v) : Start(v, i + 1) = Start(v, i) + v[i] BY Starts
<1>3. packets[1].at = 0 BY <1>1, <1>2, SMTT(20)
<1>4. ASSUME NEW i \in 1..Len(v), i < Len(v)
      PROVE  packets[i + 1].at = packets[i].at + Have(packets[i])
  <2>1. i + 1 \in 1..Len(v) BY <1>1, <1>4
  <2>2. packets[i + 1].at = Start(v, i + 1) /\ packets[i].at = Start(v, i) BY <2>1
  <2>3. Start(v, i + 1) = Start(v, i) + v[i] BY <1>2
  <2>4. v[i] = Have(packets[i]) OBVIOUS
  <2> QED BY <2>2, <2>3, <2>4, Zenon
<1> QED BY <1>1, <1>3, <1>4 DEF PacketsOK

LEMMA ReceiveBegins == ReceiveInit => PacketsOK
<1> SUFFICES ASSUME ReceiveInit PROVE PacketsOK OBVIOUS
<1>1. PICK n \in 1..MostPackets :
        \E lens \in [1..n -> PacketLengths], late \in Missing, short \in [1..n -> Missing] :
          LET from == [i \in 1..n |-> IF i = 1 THEN late ELSE 0]
              to == [i \in 1..n |-> lens[i] - short[i]]
          IN  /\ \A i \in 1..n : from[i] < to[i]
              /\ packets = [i \in 1..n |->
                   Packet(lens[i], from[i], to[i],
                          Start([j \in 1..n |-> to[j] - from[j]], i))]
  BY DEF ReceiveInit
<1>2. PICK lens \in [1..n -> PacketLengths], late \in Missing, short \in [1..n -> Missing] :
          LET from == [i \in 1..n |-> IF i = 1 THEN late ELSE 0]
              to == [i \in 1..n |-> lens[i] - short[i]]
          IN  /\ \A i \in 1..n : from[i] < to[i]
              /\ packets = [i \in 1..n |->
                   Packet(lens[i], from[i], to[i],
                          Start([j \in 1..n |-> to[j] - from[j]], i))]
  BY <1>1
<1> DEFINE from == [i \in 1..n |-> IF i = 1 THEN late ELSE 0]
           to == [i \in 1..n |-> lens[i] - short[i]]
           v == [j \in 1..n |-> to[j] - from[j]]
<1>3. \A i \in 1..n : from[i] < to[i] BY <1>2
<1>4. packets = [i \in 1..n |-> Packet(lens[i], from[i], to[i], Start(v, i))] BY <1>2
<1>5. PacketLengths \subseteq Nat /\ Missing \subseteq Nat /\ MostPackets \in Nat
  BY PacketAssumption
<1>6. n \in Nat /\ n > 0 BY <1>5
<1>7. ASSUME NEW i \in 1..n
      PROVE  /\ from[i] \in Nat /\ (i > 1 => from[i] = 0)
             /\ to[i] \in Int /\ to[i] <= lens[i] /\ lens[i] \in PacketLengths
             /\ v[i] = to[i] - from[i] /\ v[i] \in Int
  <2>1. from[i] = IF i = 1 THEN late ELSE 0 OBVIOUS
  <2>2. to[i] = lens[i] - short[i] /\ lens[i] \in PacketLengths /\ short[i] \in Missing OBVIOUS
  <2>3. lens[i] \in Nat /\ short[i] \in Nat /\ late \in Nat BY <1>5, <2>2
  <2>4. from[i] \in Nat /\ (i > 1 => from[i] = 0) BY <2>1, <2>3
  <2>5. v[i] = to[i] - from[i] OBVIOUS
  <2> HIDE DEF from, to, v
  <2> QED BY <2>2, <2>3, <2>4, <2>5
<1>8. v \in Seq(Int) /\ Len(v) = n
  <2>1. v = [j \in 1..n |-> v[j]] OBVIOUS
  <2> HIDE DEF from, to, v
  <2>2. v \in [1..n -> Int] BY <1>7, <2>1
  <2> QED BY <1>6, <2>2
<1> HIDE DEF from, to, v
<1>9. \A i \in 1..n : Start(v, i) \in Int
  <2>1. \A i \in 1 .. Len(v) + 1 : Start(v, i) \in Int BY <1>8, Starts
  <2> QED BY <1>6, <1>8, <2>1
<1>10. ASSUME NEW i \in 1..n
       PROVE  /\ packets[i] \in Packets
              /\ packets[i].at = Start(v, i) /\ Have(packets[i]) = v[i]
              /\ packets[i].from < packets[i].to /\ packets[i].to <= packets[i].len
              /\ i > 1 => packets[i].from = 0
  <2>1. packets[i] = Packet(lens[i], from[i], to[i], Start(v, i)) BY <1>4
  <2>2. /\ packets[i].len = lens[i] /\ packets[i].from = from[i] /\ packets[i].to = to[i]
        /\ packets[i].at = Start(v, i)
    BY <2>1 DEF Packet
  <2>3. packets[i] \in Packets BY <1>7, <1>9, <2>1 DEF Packet, Packets
  <2>4. Have(packets[i]) = v[i] BY <1>7, <2>2, Zenon DEF Have
  <2> QED BY <1>3, <1>7, <2>2, <2>3, <2>4, Zenon
<1>11. packets \in Seq(Packets) /\ Len(packets) = n
  <2>1. packets = [i \in 1..n |-> packets[i]] BY <1>4
  <2>2. packets \in [1..n -> Packets] BY <1>10, <2>1
  <2> QED BY <1>6, <2>2
<1>12. BytesReceived <= DefaultBufferLength BY DEF ReceiveInit
<1> QED BY <1>6, <1>8, <1>10, <1>11, <1>12, PacketsFollow

\* What the parts of a packet are.
LEMMA PacketTypes ==
  ASSUME PacketsOK
  PROVE  /\ Len(packets) \in Nat \ {0} /\ DOMAIN packets = 1..Len(packets)
         /\ DefaultBufferLength \in Nat
         /\ \A i \in DOMAIN packets :
              /\ packets[i].len \in PacketLengths /\ packets[i].len \in Nat /\ packets[i].len >= 5
              /\ packets[i].from \in Nat /\ packets[i].to \in Int /\ packets[i].at \in Int
              /\ Have(packets[i]) \in Nat \ {0}
              /\ Have(packets[i]) = packets[i].to - packets[i].from
<1>1. Len(packets) \in Nat \ {0} /\ DOMAIN packets = 1..Len(packets)
  BY LenProperties DEF PacketsOK
<1>2. DefaultBufferLength \in Nat /\ PacketLengths \subseteq {n \in Nat : n >= 5}
  BY PacketAssumption
<1>3. ASSUME NEW i \in DOMAIN packets
      PROVE  /\ packets[i].len \in PacketLengths /\ packets[i].len \in Nat /\ packets[i].len >= 5
             /\ packets[i].from \in Nat /\ packets[i].to \in Int /\ packets[i].at \in Int
             /\ Have(packets[i]) \in Nat \ {0}
             /\ Have(packets[i]) = packets[i].to - packets[i].from
  <2>1. packets[i] \in Packets BY <1>1, ElementOfSeq DEF PacketsOK
  <2>2. /\ packets[i].len \in PacketLengths /\ packets[i].from \in Nat
        /\ packets[i].to \in Int /\ packets[i].at \in Int
    BY <2>1 DEF Packets
  <2>3. packets[i].len \in Nat /\ packets[i].len >= 5 BY <1>2, <2>2
  <2>4. packets[i].from < packets[i].to BY DEF PacketsOK
  <2>5. Have(packets[i]) = packets[i].to - packets[i].from BY DEF Have
  <2>6. Have(packets[i]) \in Nat \ {0} BY <2>2, <2>4, <2>5
  <2> QED BY <2>2, <2>3, <2>5, <2>6
<1> QED BY <1>1, <1>2, <1>3

\* Where the bytes of a packet end.
EndOf(i) == packets[i].at + Have(packets[i])

\* A packet ends before any later one begins.
LEMMA PacketsApart ==
  ASSUME PacketsOK, NEW i \in DOMAIN packets, NEW j \in DOMAIN packets, i < j
  PROVE  EndOf(i) <= packets[j].at
<1>1. /\ Len(packets) \in Nat \ {0} /\ DOMAIN packets = 1..Len(packets)
      /\ \A k \in DOMAIN packets : packets[k].at \in Int /\ Have(packets[k]) \in Nat \ {0}
  BY PacketTypes
<1>2. \A k \in DOMAIN packets : EndOf(k) \in Int /\ packets[k].at < EndOf(k)
  BY <1>1 DEF EndOf
<1>3. \A k \in DOMAIN packets : k < Len(packets) => packets[k + 1].at = EndOf(k)
  BY DEF PacketsOK, EndOf
<1> DEFINE T == {n \in Nat : i + 1 + n <= Len(packets) => EndOf(i) <= packets[i + 1 + n].at}
<1>4. 0 \in T
  <2> SUFFICES ASSUME i + 1 + 0 <= Len(packets) PROVE EndOf(i) <= packets[i + 1 + 0].at
    OBVIOUS
  <2>1. i + 1 + 0 = i + 1 /\ i < Len(packets) BY <1>1
  <2>2. packets[i + 1].at = EndOf(i) BY <1>3, <2>1
  <2> QED BY <1>2, <2>1, <2>2
<1>5. ASSUME NEW n \in Nat, n \in T PROVE n + 1 \in T
  <2> SUFFICES ASSUME i + 1 + (n + 1) <= Len(packets)
               PROVE  EndOf(i) <= packets[i + 1 + (n + 1)].at
    OBVIOUS
  <2> DEFINE k == i + 1 + n
  <2>1. k \in DOMAIN packets /\ k < Len(packets) /\ k + 1 \in DOMAIN packets
        /\ i + 1 + (n + 1) = k + 1
    <3>1. i \in Nat \ {0} /\ Len(packets) \in Nat BY <1>1
    <3>2. k \in Nat \ {0} /\ i + 1 + (n + 1) = k + 1 BY <3>1
    <3>3. k + 1 <= Len(packets) BY <3>2
    <3> HIDE DEF k
    <3> QED BY <1>1, <3>2, <3>3
  <2>2. EndOf(i) <= packets[k].at BY <1>5, <2>1
  <2> HIDE DEF k
  <2>3. packets[k + 1].at = EndOf(k) BY <1>3, <2>1
  <2>4. packets[k].at < EndOf(k) /\ EndOf(k) \in Int /\ packets[k].at \in Int
    BY <1>1, <1>2, <2>1
  <2>5. EndOf(i) \in Int BY <1>2
  <2>6. EndOf(i) <= packets[k + 1].at BY <2>2, <2>3, <2>4, <2>5
  <2> QED BY <2>1, <2>6
<1>6. Nat \subseteq T
  <2> HIDE DEF T
  <2> QED BY <1>4, <1>5, InductionOnSet
<1>7. j - (i + 1) \in Nat /\ i + 1 + (j - (i + 1)) = j /\ j <= Len(packets) BY <1>1
<1>8. j - (i + 1) \in T BY <1>6, <1>7
<1> QED BY <1>7, <1>8

\* No packet begins before the receive or ends behind it.
LEMMA PacketsWithin ==
  ASSUME PacketsOK, NEW i \in DOMAIN packets
  PROVE  0 <= packets[i].at /\ packets[i].at < EndOf(i) /\ EndOf(i) <= BytesReceived
         /\ EndOf(i) \in Int /\ BytesReceived \in Int /\ BytesReceived <= DefaultBufferLength
<1>1. /\ Len(packets) \in Nat \ {0} /\ DOMAIN packets = 1..Len(packets)
      /\ \A k \in DOMAIN packets : packets[k].at \in Int /\ Have(packets[k]) \in Nat \ {0}
  BY PacketTypes
<1>2. \A k \in DOMAIN packets : EndOf(k) \in Int /\ packets[k].at < EndOf(k)
  BY <1>1 DEF EndOf
<1>3. BytesReceived = EndOf(Len(packets)) BY DEF BytesReceived, EndOf
<1>4. 1 \in DOMAIN packets /\ Len(packets) \in DOMAIN packets BY <1>1
<1>5. packets[1].at = 0 /\ BytesReceived <= DefaultBufferLength BY DEF PacketsOK
<1>6. 0 <= packets[i].at
  <2>1. CASE i = 1 BY <1>5, <2>1
  <2>2. CASE i # 1
    <3>1. 1 < i BY <1>1, <2>2
    <3>2. EndOf(1) <= packets[i].at BY <1>4, <3>1, PacketsApart
    <3>3. 0 < EndOf(1) /\ EndOf(1) \in Int BY <1>2, <1>4, <1>5
    <3> QED BY <1>1, <3>2, <3>3
  <2> QED BY <2>1, <2>2
<1>7. EndOf(i) <= EndOf(Len(packets))
  <2>1. CASE i = Len(packets) BY <1>2, <2>1
  <2>2. CASE i # Len(packets)
    <3>1. i < Len(packets) BY <1>1, <2>2
    <3>2. EndOf(i) <= packets[Len(packets)].at BY <1>4, <3>1, PacketsApart
    <3>3. packets[Len(packets)].at < EndOf(Len(packets)) BY <1>2, <1>4
    <3> QED BY <1>1, <1>2, <1>4, <3>2, <3>3
  <2> QED BY <2>1, <2>2
<1> QED BY <1>2, <1>3, <1>4, <1>5, <1>6, <1>7

\* Every byte that was received is one of a packet.
LEMMA ByteInPacket ==
  ASSUME PacketsOK, NEW n \in Nat, n < BytesReceived
  PROVE  \E i \in DOMAIN packets : packets[i].at <= n /\ n < EndOf(i)
<1>1. /\ Len(packets) \in Nat \ {0} /\ DOMAIN packets = 1..Len(packets)
      /\ \A k \in DOMAIN packets : packets[k].at \in Int
  BY PacketTypes
<1>2. BytesReceived = EndOf(Len(packets)) BY DEF BytesReceived, EndOf
<1> DEFINE T == {i \in DOMAIN packets : n < EndOf(i)}
<1>3. T \in SUBSET Nat /\ T # {} BY <1>1, <1>2
<1>4. PICK i \in T : \A j \in T : i <= j
  <2> HIDE DEF T
  <2> QED BY <1>3, LeastNumber
<1>5. packets[i].at <= n
  <2>1. CASE i = 1
    <3>1. packets[1].at = 0 BY DEF PacketsOK
    <3> QED BY <2>1, <3>1
  <2>2. CASE i # 1
    <3> DEFINE j == i - 1
    <3>1. j \in DOMAIN packets /\ j < Len(packets) /\ j + 1 = i /\ ~(i <= j) BY <1>1, <2>2
    <3>2. j \notin T BY <1>4, <3>1
    <3>3. ~(n < EndOf(j)) BY <3>1, <3>2
    <3> HIDE DEF j, T
    <3>4. packets[i].at = EndOf(j) BY <3>1 DEF PacketsOK, EndOf
    <3>5. EndOf(j) \in Int BY <3>1, PacketsWithin
    <3> QED BY <3>3, <3>4, <3>5
  <2> QED BY <2>1, <2>2
<1> QED BY <1>5

-----------------------------------------------------------------------------
\* getMessages: the bytes.

\* The byte at a position of a packet.
ByteOfPacket(p, k) == IF k < 4 THEN Bytes32(p.len)[k + 1] ELSE 97

\* The bytes of a length are bytes.
LEMMA LengthBytes ==
  ASSUME NEW v \in Int, NEW k \in 1..4
  PROVE  Bytes32(v)[k] \in Byte
<1>1. Bytes32(v)[1] = v % 256 /\ Bytes32(v)[2] = (v \div 256) % 256
      /\ Bytes32(v)[3] = (v \div 65536) % 256 /\ Bytes32(v)[4] = (v \div 16777216) % 256
  BY DEF Bytes32
<1>2. \A m \in Int : (m % 256) \in Byte BY DEF Byte
<1>3. v \div 256 \in Int /\ v \div 65536 \in Int /\ v \div 16777216 \in Int OBVIOUS
<1>4. k = 1 \/ k = 2 \/ k = 3 \/ k = 4 OBVIOUS
<1> QED BY <1>1, <1>2, <1>3, <1>4

\* The byte received at a position where a packet lies is the packet's.
LEMMA ByteIs ==
  ASSUME PacketsOK, NEW i \in DOMAIN packets, NEW n \in Nat,
         packets[i].at <= n, n < EndOf(i)
  PROVE  ByteReceived(n) = ByteOfPacket(packets[i], packets[i].from + n - packets[i].at)
<1>1. /\ Len(packets) \in Nat /\ DOMAIN packets = 1..Len(packets)
      /\ \A k \in DOMAIN packets : packets[k].at \in Int
  BY PacketTypes
<1>2. n < BytesReceived BY PacketsWithin
<1> DEFINE Has(j) == packets[j].at <= n /\ n < packets[j].at + Have(packets[j])
           found == CHOOSE j \in DOMAIN packets : Has(j)
<1>3. Has(i) BY DEF EndOf
<1>4. found \in DOMAIN packets /\ Has(found) BY <1>3
<1> HIDE DEF found
<1>5. found = i
  <2>1. packets[found].at <= n /\ n < EndOf(found) BY <1>4 DEF EndOf
  <2>2. EndOf(found) \in Int /\ EndOf(i) \in Int BY <1>4, PacketsWithin
  <2>3. ~(found < i)
    <3> SUFFICES ASSUME found < i PROVE FALSE OBVIOUS
    <3>1. EndOf(found) <= packets[i].at BY <1>4, PacketsApart
    <3> QED BY <1>1, <2>1, <2>2, <3>1
  <2>4. ~(i < found)
    <3> SUFFICES ASSUME i < found PROVE FALSE OBVIOUS
    <3>1. EndOf(i) <= packets[found].at BY <1>4, PacketsApart
    <3> QED BY <1>1, <1>4, <2>1, <2>2, <3>1
  <2> QED BY <1>1, <1>4, <2>3, <2>4
<1>6. ByteReceived(n) =
        LET k == packets[found].from + n - packets[found].at
        IN  IF k < 4 THEN Bytes32(packets[found].len)[k + 1] ELSE 97
  <2>1. ~(n >= BytesReceived)
    <3>1. BytesReceived \in Int BY PacketsWithin
    <3> QED BY <1>2, <3>1
  <2> QED BY <2>1 DEF ByteReceived, found
<1> QED BY <1>5, <1>6 DEF ByteOfPacket

\* Behind the bytes received are NULs.
LEMMA NulBehind ==
  ASSUME NEW n \in Nat, n >= BytesReceived
  PROVE  ByteReceived(n) = 0
BY DEF ByteReceived, Cleared

\* What is received are bytes.
LEMMA ReceivesBytes == ASSUME PacketsOK, NEW n \in Nat PROVE ByteReceived(n) \in Byte
<1>0. BytesReceived \in Int
  <2>1. 1 \in DOMAIN packets BY PacketTypes
  <2> QED BY <2>1, PacketsWithin
<1>1. CASE n >= BytesReceived BY <1>1, NulBehind DEF Byte
<1>2. CASE ~(n >= BytesReceived)
  <2>1. PICK i \in DOMAIN packets : packets[i].at <= n /\ n < EndOf(i)
    BY <1>0, <1>2, ByteInPacket
  <2> DEFINE k == packets[i].from + n - packets[i].at
  <2>2. ByteReceived(n) = ByteOfPacket(packets[i], k) BY <2>1, ByteIs
  <2>3. k \in Nat /\ packets[i].len \in Int BY <2>1, PacketTypes
  <2> HIDE DEF k
  <2>4. CASE k < 4
    <3>1. k + 1 \in 1..4 BY <2>3, <2>4
    <3>2. Bytes32(packets[i].len)[k + 1] \in Byte BY <2>3, <3>1, LengthBytes
    <3> QED BY <2>2, <2>4, <3>2 DEF ByteOfPacket
  <2>5. CASE ~(k < 4)
    <3>1. 97 \in Byte BY DEF Byte
    <3> QED BY <2>2, <2>5, <3>1 DEF ByteOfPacket
  <2> QED BY <2>4, <2>5
<1> QED BY <1>1, <1>2

\* Four bytes decode to an integer.
LEMMA DecodesToInt ==
  ASSUME NEW b, \A k \in 1..4 : b[k] \in Byte
  PROVE  Int32(b) \in Int
<1>1. b[1] \in Int /\ b[2] \in Int /\ b[3] \in Int /\ b[4] \in Int BY DEF Byte
<1>2. /\ SignedChar(b[1]) \in Int /\ SignedChar(b[2]) \in Int
      /\ SignedChar(b[3]) \in Int /\ SignedChar(b[4]) \in Int
  BY <1>1 DEF SignedChar
<1>3. b[1] + 256 * SignedChar(b[2]) \in Int BY <1>1, <1>2
<1>4. b[1] + 256 * b[2] + 65536 * SignedChar(b[3]) \in Int BY <1>1, <1>2
<1>5. b[1] + 256 * b[2] + 65536 * b[3] + 16777216 * SignedChar(b[4]) \in Int BY <1>1, <1>2
<1>6. CASE b[1] >= 128 BY <1>2, <1>6 DEF Int32
<1>7. CASE ~(b[1] >= 128) /\ b[2] >= 128 BY <1>3, <1>7 DEF Int32
<1>8. CASE ~(b[1] >= 128) /\ ~(b[2] >= 128) /\ b[3] >= 128 BY <1>4, <1>8 DEF Int32
<1>9. CASE ~(b[1] >= 128) /\ ~(b[2] >= 128) /\ ~(b[3] >= 128) BY <1>5, <1>9 DEF Int32
<1> QED BY <1>6, <1>7, <1>8, <1>9

\* The length the loop reads is that of the bytes at its position.
LEMMA DecodedBytes ==
  ASSUME NEW p, p = m_readIndex, p \in Nat
  PROVE  Decoded = Int32(<<ByteReceived(p), ByteReceived(p + 1),
                           ByteReceived(p + 2), ByteReceived(p + 3)>>)
<1> DEFINE b == [k \in 1..4 |-> ByteReceived(m_readIndex + k - 1)]
<1>1. b[1] = ByteReceived(p + 1 - 1) /\ b[2] = ByteReceived(p + 2 - 1)
      /\ b[3] = ByteReceived(p + 3 - 1) /\ b[4] = ByteReceived(p + 4 - 1)
  OBVIOUS
<1>2. p + 1 - 1 = p /\ p + 2 - 1 = p + 1 /\ p + 3 - 1 = p + 2 /\ p + 4 - 1 = p + 3 OBVIOUS
<1>3. b[1] = ByteReceived(p) /\ b[2] = ByteReceived(p + 1)
      /\ b[3] = ByteReceived(p + 2) /\ b[4] = ByteReceived(p + 3)
  <2> HIDE DEF b
  <2> QED BY <1>1, <1>2
<1>4. Decoded = Int32(b) BY DEF Decoded
<1> HIDE DEF b
<1> QED BY <1>3, <1>4 DEF Int32

\* What the loop decodes is an integer.
LEMMA DecodedType == ASSUME PacketsOK, m_readIndex \in Nat PROVE Decoded \in Int
<1> DEFINE b == [k \in 1..4 |-> ByteReceived(m_readIndex + k - 1)]
<1>1. \A k \in 1..4 : m_readIndex + k - 1 \in Nat OBVIOUS
<1>2. \A k \in 1..4 : b[k] \in Byte BY <1>1, ReceivesBytes
<1>3. Decoded = Int32(b) BY DEF Decoded
<1> HIDE DEF b
<1> QED BY <1>2, <1>3, DecodesToInt

\* At the beginning of a packet the loop decodes what the packet's length decodes to.
LEMMA DecodedAtPacket ==
  ASSUME PacketsOK, NEW i \in DOMAIN packets, packets[i].from = 0, Have(packets[i]) >= 4,
         m_readIndex = packets[i].at
  PROVE  Decoded = Decoded32(packets[i].len) /\ m_readIndex \in Nat
<1> DEFINE p == packets[i].at
           b == Bytes32(packets[i].len)
<1>1. p \in Nat /\ EndOf(i) \in Int /\ p + 4 <= EndOf(i) /\ packets[i].len \in Int
  BY PacketsWithin, PacketTypes DEF EndOf
<1>2. ASSUME NEW k \in 0..3 PROVE ByteReceived(p + k) = b[k + 1]
  <2>1. p + k \in Nat /\ p <= p + k /\ p + k < EndOf(i) BY <1>1
  <2>2. ByteReceived(p + k) = ByteOfPacket(packets[i], 0 + (p + k) - p) BY <2>1, ByteIs
  <2>3. 0 + (p + k) - p = k /\ k < 4 BY <1>1
  <2> QED BY <2>2, <2>3 DEF ByteOfPacket
<1>3. /\ ByteReceived(p) = b[1] /\ ByteReceived(p + 1) = b[2]
      /\ ByteReceived(p + 2) = b[3] /\ ByteReceived(p + 3) = b[4]
  <2> HIDE DEF b, p
  <2>1. p + 0 = p BY <1>1
  <2>2. ByteReceived(p + 0) = b[0 + 1] BY <1>2
  <2> QED BY <1>2, <2>1, <2>2
<1>4. Decoded = Int32(<<b[1], b[2], b[3], b[4]>>)
  <2>1. p = m_readIndex OBVIOUS
  <2> HIDE DEF b, p
  <2> QED BY <1>1, <1>3, <2>1, DecodedBytes
<1>5. Int32(<<b[1], b[2], b[3], b[4]>>) = Int32(b)
  <2> HIDE DEF b
  <2> QED BY DEF Int32
<1> QED BY <1>1, <1>4, <1>5 DEF Decoded32

-----------------------------------------------------------------------------
\* getMessages: the loop.

LinesRead == [at : Nat, n : Nat]

LoopOK ==
  /\ m_readIndex \in Nat /\ bytesInBuffer \in Int /\ packetLength \in Int
  /\ ended \in {"no", "break", "counted", "overrun"}
  /\ lines \in Seq(LinesRead)
  /\ \A i \in DOMAIN lines : Inside(lines[i].at + lines[i].n)
  /\ bytesInBuffer > DefaultBufferLength => \E i \in DOMAIN lines : lines[i].n = 0
  /\ ended = "no" => packetLength # 0 \/ bytesInBuffer = DefaultBufferLength

\* Is the loop where the next packet begins, and has it counted, for those before it,
\* their bytes and one more for each?
OnTrack ==
  /\ ended = "no" /\ Len(lines) < Len(packets)
  /\ m_readIndex = packets[Len(lines) + 1].at
  /\ bytesInBuffer = DefaultBufferLength - m_readIndex - Len(lines)

Taken(i) == i \in DOMAIN lines /\ lines[i] = LineOf(packets[i])

\* Packets the loop is in step with are taken, or it is on track to them.
TakenOrAhead ==
  \A i \in DOMAIN packets : InStep(i) => Taken(i) \/ (OnTrack /\ Len(lines) < i)

\* Nothing but packets that came whole, with room behind them.
Orderly ==
  /\ \A i \in DOMAIN packets : InStep(i) /\ Whole(packets[i])
  /\ BytesReceived + 3 <= DefaultBufferLength

\* Then the loop is through with them, at the end of what was received.
OnlyTaken ==
  Orderly =>
    /\ ended # "overrun" /\ Len(lines) <= Len(packets)
    /\ ended = "no" /\ Len(lines) = Len(packets) => m_readIndex = BytesReceived

ReceiveInv == PacketsOK /\ LoopOK /\ TakenOrAhead /\ OnlyTaken

\* What the loop has before it takes a line, and what it appends.
LEMMA LinesTypes ==
  ASSUME LoopOK
  PROVE  /\ Len(lines) \in Nat /\ DOMAIN lines = 1..Len(lines)
         /\ \A i \in DOMAIN lines : lines[i].at \in Nat /\ lines[i].n \in Nat
<1>1. Len(lines) \in Nat /\ DOMAIN lines = 1..Len(lines) BY LenProperties DEF LoopOK
<1>2. \A i \in DOMAIN lines : lines[i] \in LinesRead BY <1>1, ElementOfSeq DEF LoopOK
<1> QED BY <1>1, <1>2 DEF LinesRead

LEMMA LineAppended ==
  ASSUME LoopOK, NEW line \in LinesRead, lines' = Append(lines, line)
  PROVE  /\ lines' \in Seq(LinesRead) /\ Len(lines') = Len(lines) + 1
         /\ DOMAIN lines' = 1 .. Len(lines) + 1 /\ DOMAIN lines = 1..Len(lines)
         /\ Len(lines) \in Nat
         /\ \A i \in DOMAIN lines : lines'[i] = lines[i]
         /\ lines'[Len(lines) + 1] = line
BY AppendProperties, LenProperties DEF LoopOK

\* The subtraction that wraps around yields an integer, and that of a length from
\* what is at least as much the difference.
LEMMA Minus32Type == ASSUME NEW m \in Int, NEW n \in Int PROVE Minus32(m, n) \in Int
<1>1. Lowest \in Int BY DEF Lowest
<1>2. (m + Lowest) - (n - Lowest) \in Int /\ m - n \in Int BY <1>1
<1> QED BY <1>2 DEF Minus32

LEMMA Minus32IsMinus ==
  ASSUME NEW m \in Int, NEW n \in Nat PROVE Minus32(m, n) = m - n
BY DEF Minus32

LEMMA ReceiveStart == ReceiveInit => ReceiveInv
<1> SUFFICES ASSUME ReceiveInit PROVE ReceiveInv OBVIOUS
<1>1. PacketsOK BY ReceiveBegins
<1>2. /\ m_readIndex = 0 /\ bytesInBuffer = DefaultBufferLength /\ packetLength = 0
      /\ lines = <<>> /\ ended = "no"
  BY DEF ReceiveInit
<1>3. lines \in Seq(LinesRead) /\ Len(lines) = 0 /\ DOMAIN lines = {}
  <2>1. <<>> \in Seq(LinesRead) /\ Len(<<>>) = 0 /\ DOMAIN <<>> = {} BY EmptySeq
  <2> QED BY <1>2, <2>1, Zenon
<1>4. DefaultBufferLength \in Nat /\ Len(packets) \in Nat \ {0} BY <1>1, PacketTypes
<1>5. LoopOK BY <1>2, <1>3, <1>4 DEF LoopOK
<1>6. OnTrack
  <2>1. packets[1].at = 0 BY <1>1 DEF PacketsOK
  <2>2. Len(lines) + 1 = 1 /\ Len(lines) < Len(packets) BY <1>3, <1>4
  <2> QED BY <1>2, <1>3, <1>4, <2>1, <2>2 DEF OnTrack
<1>7. TakenOrAhead
  <2>1. \A i \in DOMAIN packets : Len(lines) < i BY <1>1, <1>3, PacketTypes
  <2> QED BY <1>6, <2>1 DEF TakenOrAhead
<1>8. OnlyTaken BY <1>2, <1>3, <1>4 DEF OnlyTaken
<1> QED BY <1>1, <1>5, <1>7, <1>8 DEF ReceiveInv

\* Packets in step are in step with all before them.
LEMMA InStepBefore ==
  ASSUME NEW i \in Nat, InStep(i), NEW j \in 1..i
  PROVE  /\ InStep(j)
         /\ packets[j].from = 0 /\ Have(packets[j]) >= 4
         /\ Decoded32(packets[j].len) = packets[j].len
         /\ packets[j].at + packets[j].len + j - 1 <= DefaultBufferLength
         /\ j < i => Whole(packets[j])
BY DEF InStep

\* On track to a packet in step the loop decodes its length, which is at most what
\* it takes for the bytes left.
LEMMA OnTrackDecodes ==
  ASSUME PacketsOK, LoopOK, OnTrack, NEW c, c = Len(lines) + 1, InStep(c)
  PROVE  /\ c \in DOMAIN packets /\ Decoded = packets[c].len /\ m_readIndex = packets[c].at
         /\ Decoded \in Nat /\ Decoded >= 5 /\ Decoded <= bytesInBuffer
         /\ Inside(m_readIndex + Decoded) /\ Inside(m_readIndex + 4)
         /\ m_readIndex \in Nat /\ m_readIndex + Decoded + c - 1 <= DefaultBufferLength
         /\ bytesInBuffer = DefaultBufferLength - m_readIndex - (c - 1)
<1>1. Len(lines) \in Nat /\ Len(packets) \in Nat /\ DOMAIN packets = 1..Len(packets)
  BY LinesTypes, PacketTypes
<1>2. c \in DOMAIN packets /\ c \in Nat /\ c \in 1..c /\ c - 1 = Len(lines) BY <1>1 DEF OnTrack
<1>3. /\ m_readIndex = packets[c].at
      /\ bytesInBuffer = DefaultBufferLength - m_readIndex - (c - 1)
  BY <1>2 DEF OnTrack
<1>4. /\ packets[c].from = 0 /\ Have(packets[c]) >= 4
      /\ Decoded32(packets[c].len) = packets[c].len
      /\ packets[c].at + packets[c].len + c - 1 <= DefaultBufferLength
  BY <1>2, InStepBefore
<1>5. Decoded = packets[c].len /\ m_readIndex \in Nat
  BY <1>2, <1>3, <1>4, DecodedAtPacket
<1>6. packets[c].len \in Nat /\ packets[c].len >= 5 /\ DefaultBufferLength \in Nat
  BY <1>2, PacketTypes
<1>7. Decoded \in Nat /\ Decoded >= 5 BY <1>5, <1>6
<1>8. m_readIndex + Decoded + c - 1 <= DefaultBufferLength BY <1>3, <1>4, <1>5
<1>9. Decoded <= bytesInBuffer BY <1>2, <1>3, <1>5, <1>6, <1>7, <1>8
<1>10. Inside(m_readIndex + Decoded) /\ Inside(m_readIndex + 4)
  BY <1>2, <1>5, <1>6, <1>7, <1>8 DEF Inside
<1> QED BY <1>2, <1>3, <1>5, <1>7, <1>8, <1>9, <1>10

\* The packets do not change, and with them what is said of them alone.
LEMMA SamePackets ==
  ASSUME packets' = packets
  PROVE  /\ PacketsOK => PacketsOK'
         /\ \A i : InStep(i)' <=> InStep(i)
         /\ Orderly' <=> Orderly
         /\ BytesReceived' = BytesReceived
<1>1. BytesReceived' = BytesReceived BY DEF BytesReceived
<1>2. PacketsOK => PacketsOK' BY <1>1 DEF PacketsOK
<1>3. \A i : InStep(i)' <=> InStep(i) BY DEF InStep
<1>4. Orderly' <=> Orderly BY <1>1, <1>3 DEF Orderly
<1> QED BY <1>1, <1>2, <1>3, <1>4

\* What a line taken does to the loop.
LEMMA TakeLoop == ASSUME PacketsOK, LoopOK, TakePacket PROVE LoopOK'
<1>1. /\ m_readIndex \in Nat /\ bytesInBuffer \in Int /\ lines \in Seq(LinesRead)
      /\ ended = "no" /\ Inside(m_readIndex + 4)
      /\ packetLength' = Decoded /\ Decoded # 0
      /\ m_readIndex' = m_readIndex + 4 + TextOf(Decoded)
      /\ bytesInBuffer' = Minus32(bytesInBuffer, Decoded) - 1
  BY DEF LoopOK, TakePacket, ReadLength
<1>2. Decoded \in Int /\ DefaultBufferLength \in Nat BY <1>1, DecodedType, PacketTypes
<1>3. TextOf(Decoded) \in Nat /\ (Decoded < 0 => TextOf(Decoded) = 0) BY <1>2 DEF TextOf
<1>4. m_readIndex' \in Nat /\ bytesInBuffer' \in Int /\ packetLength' \in Int
  <2>1. Minus32(bytesInBuffer, Decoded) \in Int BY <1>1, <1>2, Minus32Type
  <2> QED BY <1>1, <1>2, <1>3, <2>1
<1>5. packetLength' # 0 BY <1>1
<1>6. CASE Inside(m_readIndex')
  <2> DEFINE line == Line(m_readIndex + 4, TextOf(Decoded))
  <2>1. lines' = Append(lines, line) /\ ended' = "no" BY <1>1, <1>6 DEF TakePacket
  <2>2. line \in LinesRead /\ line.at = m_readIndex + 4 /\ line.n = TextOf(Decoded)
    BY <1>1, <1>3 DEF Line, LinesRead
  <2> HIDE DEF line
  <2>3. /\ lines' \in Seq(LinesRead) /\ DOMAIN lines' = 1 .. Len(lines) + 1
        /\ DOMAIN lines = 1..Len(lines) /\ Len(lines) \in Nat
        /\ \A i \in DOMAIN lines : lines'[i] = lines[i]
        /\ lines'[Len(lines) + 1] = line
    BY <2>1, <2>2, LineAppended
  <2>4. ASSUME NEW i \in DOMAIN lines' PROVE Inside(lines'[i].at + lines'[i].n)
    <3>1. CASE i \in DOMAIN lines BY <2>3, <3>1 DEF LoopOK
    <3>2. CASE i = Len(lines) + 1
      <4>1. lines'[i].at + lines'[i].n = m_readIndex + 4 + TextOf(Decoded)
        BY <2>2, <2>3, <3>2
      <4> QED BY <1>1, <1>6, <4>1
    <3> QED BY <2>3, <3>1, <3>2
  <2>5. ASSUME bytesInBuffer' > DefaultBufferLength
        PROVE  \E i \in DOMAIN lines' : lines'[i].n = 0
    <3>1. CASE Decoded < 0
      <4>1. lines'[Len(lines) + 1].n = 0 BY <1>3, <2>2, <2>3, <3>1
      <4> QED BY <2>3, <4>1
    <3>2. CASE ~(Decoded < 0)
      <4>1. Minus32(bytesInBuffer, Decoded) = bytesInBuffer - Decoded
        BY <1>1, <1>2, <3>2, Minus32IsMinus
      <4>2. bytesInBuffer > DefaultBufferLength BY <1>1, <1>2, <2>5, <3>2, <4>1
      <4>3. PICK i \in DOMAIN lines : lines[i].n = 0 BY <4>2 DEF LoopOK
      <4>4. i \in DOMAIN lines' /\ lines'[i].n = 0 BY <2>3, <4>3
      <4> QED BY <4>4
    <3> QED BY <3>1, <3>2
  <2> QED BY <1>4, <1>5, <2>1, <2>3, <2>4, <2>5 DEF LoopOK, Inside
<1>7. CASE ~Inside(m_readIndex')
  <2>1. lines' = lines /\ ended' = "overrun" BY <1>7 DEF TakePacket
  <2>2. Decoded > 0
    <3>1. ~(Decoded < 0)
      <4> SUFFICES ASSUME Decoded < 0 PROVE FALSE OBVIOUS
      <4>1. m_readIndex' = m_readIndex + 4 BY <1>1, <1>3
      <4> QED BY <1>1, <1>7, <4>1
    <3> QED BY <1>1, <1>2, <3>1
  <2>3. bytesInBuffer' < bytesInBuffer
    <3>1. Minus32(bytesInBuffer, Decoded) = bytesInBuffer - Decoded
      BY <1>1, <1>2, <2>2, Minus32IsMinus
    <3> QED BY <1>1, <1>2, <2>2, <3>1
  <2>4. bytesInBuffer' > DefaultBufferLength => bytesInBuffer > DefaultBufferLength
    BY <1>1, <1>2, <1>4, <2>3
  <2> QED BY <1>4, <2>1, <2>4 DEF LoopOK, Inside
<1> QED BY <1>6, <1>7

\* What the other steps do to the loop.
LEMMA PassLoop == ASSUME PacketsOK, LoopOK, PassOver PROVE LoopOK'
<1>1. /\ m_readIndex \in Nat /\ bytesInBuffer \in Int /\ lines \in Seq(LinesRead)
      /\ packetLength' = Decoded /\ Decoded # 0
      /\ m_readIndex' = m_readIndex + 4 /\ bytesInBuffer' = bytesInBuffer - 1
      /\ lines' = lines /\ ended' = ended
  BY DEF LoopOK, PassOver, ReadLength
<1>2. Decoded \in Int /\ DefaultBufferLength \in Nat BY <1>1, DecodedType, PacketTypes
<1>3. m_readIndex' \in Nat /\ bytesInBuffer' \in Int
      /\ (bytesInBuffer' > DefaultBufferLength => bytesInBuffer > DefaultBufferLength)
  BY <1>1, <1>2
<1> QED BY <1>1, <1>2, <1>3 DEF LoopOK, Inside

LEMMA StopLoop ==
  ASSUME PacketsOK, LoopOK, Break \/ Counted \/ Overrun
  PROVE  LoopOK' /\ lines' = lines /\ packets' = packets
         /\ ended' \in {"break", "counted", "overrun"}
<1>1. CASE Break
  <2>1. /\ m_readIndex \in Nat /\ m_readIndex' = m_readIndex + 4
        /\ packetLength' = Decoded /\ bytesInBuffer' = bytesInBuffer
        /\ lines' = lines /\ ended' = "break" /\ packets' = packets
    BY <1>1 DEF LoopOK, Break, ReadLength
  <2>2. Decoded \in Int /\ m_readIndex' \in Nat BY <2>1, DecodedType
  <2> QED BY <2>1, <2>2 DEF LoopOK, Inside
<1>2. CASE Counted BY <1>2 DEF LoopOK, Counted, Inside
<1>3. CASE Overrun BY <1>3 DEF LoopOK, Overrun, Inside
<1> QED BY <1>1, <1>2, <1>3

\* On track to a packet in step the loop can only take it.
LEMMA OnTrackTakes ==
  ASSUME PacketsOK, LoopOK, OnTrack, InStep(Len(lines) + 1)
  PROVE  ~PassOver /\ ~Break /\ ~Counted /\ ~Overrun
<1> DEFINE c == Len(lines) + 1
<1>1. InStep(c) OBVIOUS
<1> HIDE DEF c
<1>2. /\ Decoded \in Nat /\ Decoded >= 5 /\ Decoded <= bytesInBuffer
      /\ Inside(m_readIndex + 4)
  BY <1>1, OnTrackDecodes DEF c
<1>3. bytesInBuffer \in Int BY DEF LoopOK
<1>4. bytesInBuffer # 0 /\ Decoded # 0 /\ ~(Decoded > bytesInBuffer) BY <1>2, <1>3
<1> QED BY <1>2, <1>4 DEF PassOver, Break, Counted, Overrun

\* What the loop takes when it is on track to a packet in step is that packet, and
\* when that came whole it is then where the next one begins.
LEMMA OnTrackTaken ==
  ASSUME PacketsOK, LoopOK, OnTrack, NEW c, c = Len(lines) + 1, InStep(c), TakePacket
  PROVE  /\ c \in DOMAIN packets
         /\ lines' = Append(lines, LineOf(packets[c])) /\ ended' = "no" /\ Len(lines') = c
         /\ Taken(c)'
         /\ Whole(packets[c]) =>
              /\ m_readIndex' = EndOf(c)
              /\ bytesInBuffer' = DefaultBufferLength - EndOf(c) - c
<1>1. /\ c \in DOMAIN packets /\ Decoded = packets[c].len /\ m_readIndex = packets[c].at
      /\ Decoded \in Nat /\ Decoded >= 5 /\ Inside(m_readIndex + Decoded)
      /\ m_readIndex \in Nat
      /\ bytesInBuffer = DefaultBufferLength - m_readIndex - (c - 1)
  BY OnTrackDecodes
<1>2. TextOf(Decoded) = Decoded - 4 BY <1>1 DEF TextOf
<1>3. m_readIndex' = m_readIndex + Decoded
  <2>1. m_readIndex' = m_readIndex + 4 + TextOf(Decoded) BY DEF TakePacket
  <2>2. m_readIndex \in Nat /\ Decoded \in Nat BY <1>1
  <2>3. m_readIndex + 4 + (Decoded - 4) = m_readIndex + Decoded BY <2>2
  <2> QED BY <1>2, <2>1, <2>3, Zenon
<1>4. Inside(m_readIndex') BY <1>1, <1>3
<1>5. lines' = Append(lines, Line(m_readIndex + 4, TextOf(Decoded))) /\ ended' = ended
  BY <1>4 DEF TakePacket
<1>6. Line(m_readIndex + 4, TextOf(Decoded)) = LineOf(packets[c])
  BY <1>1, <1>2, Zenon DEF LineOf
<1>7. lines' = Append(lines, LineOf(packets[c])) BY <1>5, <1>6, Zenon
<1>8. ended' = "no" BY <1>5 DEF OnTrack
<1>9. LineOf(packets[c]) \in LinesRead
  <2>1. packets[c].at + 4 \in Nat /\ packets[c].len - 4 \in Nat BY <1>1, SMTT(20)
  <2> QED BY <2>1 DEF LineOf, Line, LinesRead
<1>10. Len(lines') = c /\ c \in DOMAIN lines' /\ lines'[c] = LineOf(packets[c])
  BY <1>7, <1>9, LineAppended
<1>11. packets' = packets BY DEF TakePacket, ReadLength
<1>12. Taken(c)'
  <2>1. LineOf(packets'[c]) = LineOf(packets[c]) BY <1>11
  <2> QED BY <1>10, <2>1 DEF Taken, LineOf
<1>13. ASSUME Whole(packets[c])
       PROVE  m_readIndex' = EndOf(c) /\ bytesInBuffer' = DefaultBufferLength - EndOf(c) - c
  <2>0. packets[c].len \in Nat /\ Have(packets[c]) = packets[c].to - packets[c].from
    BY <1>1, PacketTypes
  <2>1. Have(packets[c]) = packets[c].len BY <1>13, <2>0 DEF Whole
  <2>2. EndOf(c) = m_readIndex + Decoded BY <1>1, <2>1 DEF EndOf
  <2>3. bytesInBuffer' = Minus32(bytesInBuffer, Decoded) - 1 BY DEF TakePacket
  <2>4. bytesInBuffer \in Int /\ DefaultBufferLength \in Nat /\ c \in Nat
    BY <1>1, PacketTypes DEF LoopOK
  <2>5. Minus32(bytesInBuffer, Decoded) = bytesInBuffer - Decoded
    BY <1>1, <2>4, Minus32IsMinus
  <2>6. m_readIndex' = EndOf(c) BY <1>3, <2>2, Zenon
  <2>7. /\ bytesInBuffer = DefaultBufferLength - m_readIndex - (c - 1)
        /\ m_readIndex \in Nat /\ Decoded \in Nat
    BY <1>1
  <2>8. bytesInBuffer' = (DefaultBufferLength - m_readIndex - (c - 1)) - Decoded - 1
    BY <2>3, <2>5, <2>7, Zenon
  <2>9. bytesInBuffer' = DefaultBufferLength - EndOf(c) - c BY <2>2, <2>4, <2>7, <2>8
  <2> QED BY <2>6, <2>9
<1> QED BY <1>1, <1>7, <1>8, <1>10, <1>12, <1>13

\* What is taken stays taken.
LEMMA TakenStays ==
  ASSUME PacketsOK, LoopOK, packets' = packets, NEW i, Taken(i),
         \/ lines' = lines
         \/ \E line \in LinesRead : lines' = Append(lines, line)
  PROVE  Taken(i)'
<1>1. i \in DOMAIN lines /\ lines[i] = LineOf(packets[i]) BY DEF Taken
<1>2. i \in DOMAIN lines' /\ lines'[i] = lines[i]
  <2>1. CASE lines' = lines BY <1>1, <2>1
  <2>2. CASE \E line \in LinesRead : lines' = Append(lines, line)
    <3>1. PICK line \in LinesRead : lines' = Append(lines, line) BY <2>2
    <3> QED BY <1>1, <3>1, LineAppended
  <2> QED BY <2>1, <2>2
<1>3. LineOf(packets'[i]) = LineOf(packets[i]) OBVIOUS
<1> QED BY <1>1, <1>2, <1>3 DEF Taken, LineOf

\* The lines a taken packet may add.
LEMMA TakeLines ==
  ASSUME PacketsOK, LoopOK, TakePacket
  PROVE  \/ lines' = lines
         \/ \E line \in LinesRead : lines' = Append(lines, line)
<1>1. m_readIndex \in Nat /\ Decoded \in Int BY DecodedType DEF LoopOK
<1>2. TextOf(Decoded) \in Nat BY <1>1 DEF TextOf
<1>3. Line(m_readIndex + 4, TextOf(Decoded)) \in LinesRead
  BY <1>1, <1>2 DEF Line, LinesRead
<1> QED BY <1>3 DEF TakePacket

LEMMA TakeKeepsTrack ==
  ASSUME ReceiveInv, TakePacket, NEW i \in DOMAIN packets, InStep(i)
  PROVE  Taken(i)' \/ (OnTrack' /\ Len(lines') < i)
<1>1. PacketsOK /\ LoopOK /\ TakenOrAhead BY DEF ReceiveInv
<1>2. packets' = packets BY DEF TakePacket, ReadLength
<1>3. CASE Taken(i) BY <1>1, <1>2, <1>3, TakeLines, TakenStays
<1>4. CASE OnTrack /\ Len(lines) < i
  <2>0. Len(lines) \in Nat /\ Len(packets) \in Nat /\ DOMAIN packets = 1..Len(packets)
    BY <1>1, LinesTypes, PacketTypes
  <2>3. PICK c \in 1..i : c = Len(lines) + 1 BY <1>4, <2>0
  <2>1. c \in 1..i /\ i \in Nat BY <2>0
  <2>2. InStep(c) BY <2>1, InStepBefore
  <2>4. /\ ended' = "no" /\ Len(lines') = c /\ Taken(c)'
        /\ Whole(packets[c]) =>
             /\ m_readIndex' = EndOf(c)
             /\ bytesInBuffer' = DefaultBufferLength - EndOf(c) - c
    BY <1>1, <1>4, <2>2, <2>3, OnTrackTaken
  <2>5. CASE c = i BY <2>4, <2>5
  <2>6. CASE c < i
    <3>1. Whole(packets[c]) BY <2>1, <2>6, InStepBefore
    <3>2. c \in DOMAIN packets /\ c < Len(packets) BY <2>0, <2>1, <2>6
    <3>3. packets[c + 1].at = EndOf(c) BY <1>1, <3>2 DEF PacketsOK, EndOf
    <3>4. m_readIndex' = packets'[c + 1].at BY <1>2, <2>4, <3>1, <3>3
    <3>5. bytesInBuffer' = DefaultBufferLength - m_readIndex' - Len(lines')
      BY <2>4, <3>1, Zenon
    <3>6. Len(packets') = Len(packets) BY <1>2
    <3> QED BY <2>4, <2>6, <3>2, <3>4, <3>5, <3>6 DEF OnTrack
  <2> QED BY <2>1, <2>5, <2>6
<1> QED BY <1>1, <1>3, <1>4 DEF TakenOrAhead

\* The other steps are not taken while the loop is on track to a packet in step.
LEMMA OthersKeepTaken ==
  ASSUME ReceiveInv, PassOver \/ Break \/ Counted \/ Overrun, packets' = packets, lines' = lines,
         NEW i \in DOMAIN packets, InStep(i)
  PROVE  Taken(i)'
<1>1. PacketsOK /\ LoopOK /\ TakenOrAhead BY DEF ReceiveInv
<1>2. ~(OnTrack /\ Len(lines) < i)
  <2> SUFFICES ASSUME OnTrack, Len(lines) < i PROVE FALSE OBVIOUS
  <2>0. Len(lines) \in Nat /\ DOMAIN packets = 1..Len(packets) /\ Len(packets) \in Nat
    BY <1>1, LinesTypes, PacketTypes
  <2>1. Len(lines) + 1 \in 1..i /\ i \in Nat BY <2>0
  <2>2. InStep(Len(lines) + 1) BY <2>1, InStepBefore
  <2> QED BY <1>1, <2>2, OnTrackTakes
<1>3. Taken(i) BY <1>1, <1>2 DEF TakenOrAhead
<1> QED BY <1>1, <1>3, TakenStays

\* A number up to another is below it or the same.
LEMMA BelowOrSame == ASSUME NEW m \in Nat, NEW n \in Nat, m <= n PROVE m < n \/ m = n
OBVIOUS

LEMMA NotAbove == ASSUME NEW m \in Nat, NEW n \in Nat, m <= n PROVE ~(n < m)
OBVIOUS

\* With nothing but whole packets and room behind them the loop is on track, or at
\* the end, where it decodes 0.
LEMMA OrderlyLoop ==
  ASSUME ReceiveInv, Orderly, ended = "no"
  PROVE  \/ OnTrack /\ InStep(Len(lines) + 1) /\ Len(lines) < Len(packets)
            /\ Len(lines) + 1 \in DOMAIN packets /\ Whole(packets[Len(lines) + 1])
         \/ Len(lines) = Len(packets) /\ m_readIndex = BytesReceived
            /\ Decoded = 0 /\ Inside(m_readIndex + 4)
<1>1. PacketsOK /\ LoopOK /\ TakenOrAhead /\ OnlyTaken BY DEF ReceiveInv
<1>2. /\ Len(lines) \in Nat /\ DOMAIN packets = 1..Len(packets) /\ Len(packets) \in Nat \ {0}
      /\ DOMAIN lines = 1..Len(lines)
  BY <1>1, LinesTypes, PacketTypes
<1>3. Len(lines) <= Len(packets) BY <1>1 DEF OnlyTaken
<1>4. CASE Len(lines) < Len(packets)
  <2> DEFINE c == Len(lines) + 1
  <2>1. c \in DOMAIN packets /\ c \notin DOMAIN lines BY <1>2, <1>4
  <2>2. InStep(c) /\ Whole(packets[c]) BY <2>1 DEF Orderly
  <2>3. OnTrack BY <1>1, <2>1, <2>2 DEF TakenOrAhead, Taken
  <2> QED BY <1>4, <2>1, <2>2, <2>3
<1>5. CASE Len(lines) = Len(packets)
  <2> DEFINE p == m_readIndex
  <2>1. m_readIndex = BytesReceived BY <1>1, <1>5 DEF OnlyTaken
  <2>2. m_readIndex \in Nat /\ DefaultBufferLength \in Nat
    BY <1>1, PacketTypes DEF LoopOK
  <2>3. Inside(m_readIndex + 4) BY <2>1, <2>2 DEF Orderly, Inside
  <2>4. /\ ByteReceived(p) = 0 /\ ByteReceived(p + 1) = 0
        /\ ByteReceived(p + 2) = 0 /\ ByteReceived(p + 3) = 0
    <3>1. p \in Nat /\ p + 1 \in Nat /\ p + 2 \in Nat /\ p + 3 \in Nat
          /\ p >= BytesReceived /\ p + 1 >= BytesReceived
          /\ p + 2 >= BytesReceived /\ p + 3 >= BytesReceived
      BY <2>1, <2>2
    <3> QED BY <3>1, NulBehind
  <2>5. Decoded = Int32(<<0, 0, 0, 0>>)
    <3>1. p = m_readIndex OBVIOUS
    <3> HIDE DEF p
    <3>2. Decoded = Int32(<<ByteReceived(p), ByteReceived(p + 1),
                            ByteReceived(p + 2), ByteReceived(p + 3)>>)
      BY <2>2, <3>1, DecodedBytes
    <3> QED BY <2>4, <3>2
  <2>6. Int32(<<0, 0, 0, 0>>) = 0
    <3> DEFINE z == <<0, 0, 0, 0>>
    <3>1. z[1] = 0 /\ z[2] = 0 /\ z[3] = 0 /\ z[4] = 0 OBVIOUS
    <3> HIDE DEF z
    <3>2. Int32(z) = 0 BY <3>1 DEF Int32, SignedChar
    <3> QED BY <3>2 DEF z
  <2> QED BY <1>5, <2>1, <2>3, <2>5, <2>6
<1>6. Len(lines) < Len(packets) \/ Len(lines) = Len(packets)
  <2>1. Len(lines) \in Nat /\ Len(packets) \in Nat BY <1>2
  <2> QED BY <1>3, <2>1, BelowOrSame, Zenon
<1> QED BY <1>4, <1>5, <1>6

LEMMA TakeKeepsOnly == ASSUME ReceiveInv, TakePacket PROVE OnlyTaken'
<1>1. PacketsOK /\ LoopOK BY DEF ReceiveInv
<1>2. packets' = packets BY DEF TakePacket, ReadLength
<1>3. ended = "no" /\ Decoded # 0 BY DEF TakePacket, ReadLength
<1> SUFFICES ASSUME Orderly'
             PROVE  /\ ended' # "overrun" /\ Len(lines') <= Len(packets')
                    /\ ended' = "no" /\ Len(lines') = Len(packets')
                       => m_readIndex' = BytesReceived'
  BY DEF OnlyTaken
<1>4. Orderly /\ BytesReceived' = BytesReceived BY <1>2, SamePackets
<1>5. PICK c : c = Len(lines) + 1 OBVIOUS
<1>6. OnTrack /\ InStep(c) /\ c \in DOMAIN packets /\ Whole(packets[c])
  BY <1>3, <1>4, <1>5, OrderlyLoop
<1>7. ended' = "no" /\ Len(lines') = c /\ m_readIndex' = EndOf(c)
  BY <1>1, <1>5, <1>6, OnTrackTaken
<1>8. Len(lines') <= Len(packets')
  <2>1. DOMAIN packets = 1..Len(packets) /\ Len(packets) \in Nat BY <1>1, PacketTypes
  <2> QED BY <1>2, <1>6, <1>7, <2>1
<1>9. ASSUME Len(lines') = Len(packets') PROVE m_readIndex' = BytesReceived'
  <2>1. c = Len(packets) BY <1>2, <1>7, <1>9
  <2>2. BytesReceived = EndOf(c) BY <2>1 DEF BytesReceived, EndOf
  <2> QED BY <1>4, <1>7, <2>2, Zenon
<1> QED BY <1>7, <1>8, <1>9

LEMMA OthersKeepOnly ==
  ASSUME ReceiveInv, PassOver \/ Break \/ Counted \/ Overrun, packets' = packets, lines' = lines
  PROVE  OnlyTaken'
<1>1. PacketsOK /\ LoopOK /\ OnlyTaken BY DEF ReceiveInv
<1>2. ended = "no" BY DEF PassOver, Break, Counted, Overrun, ReadLength
<1> SUFFICES ASSUME Orderly'
             PROVE  /\ ended' \in {"break", "counted"} /\ Len(lines') <= Len(packets')
  BY DEF OnlyTaken
<1>3. Orderly BY SamePackets
<1>4. ~(OnTrack /\ InStep(Len(lines) + 1)) BY <1>1, OnTrackTakes
<1>5. Decoded = 0 /\ Inside(m_readIndex + 4) BY <1>2, <1>3, <1>4, OrderlyLoop
<1>6. ~PassOver /\ ~Overrun BY <1>5 DEF PassOver, Overrun
<1>7. ended' \in {"break", "counted"} BY <1>6 DEF Break, Counted
<1>8. Len(lines) <= Len(packets) BY <1>1, <1>3 DEF OnlyTaken
<1> QED BY <1>7, <1>8

\* Every step of the loop keeps the invariant.
LEMMA ReceiveStep == ReceiveInv /\ [ReceiveNext]_receiveVars => ReceiveInv'
<1> SUFFICES ASSUME ReceiveInv, [ReceiveNext]_receiveVars PROVE ReceiveInv' OBVIOUS
<1>1. PacketsOK /\ LoopOK /\ TakenOrAhead BY DEF ReceiveInv
<1>2. CASE TakePacket
  <2>1. packets' = packets BY <1>2 DEF TakePacket, ReadLength
  <2>2. PacketsOK' /\ \A i : InStep(i)' <=> InStep(i) BY <1>1, <2>1, SamePackets
  <2>3. LoopOK' BY <1>1, <1>2, TakeLoop
  <2>4. TakenOrAhead' BY <1>2, <2>1, <2>2, TakeKeepsTrack DEF TakenOrAhead
  <2>5. OnlyTaken' BY <1>2, TakeKeepsOnly
  <2> QED BY <2>2, <2>3, <2>4, <2>5 DEF ReceiveInv
<1>3. CASE PassOver \/ Break \/ Counted \/ Overrun
  <2>1. packets' = packets /\ lines' = lines
    BY <1>1, <1>3, StopLoop DEF PassOver, ReadLength
  <2>2. PacketsOK' /\ \A i : InStep(i)' <=> InStep(i) BY <1>1, <2>1, SamePackets
  <2>3. LoopOK' BY <1>1, <1>3, PassLoop, StopLoop
  <2>4. TakenOrAhead' BY <1>3, <2>1, <2>2, OthersKeepTaken DEF TakenOrAhead
  <2>5. OnlyTaken' BY <1>3, <2>1, OthersKeepOnly
  <2> QED BY <2>2, <2>3, <2>4, <2>5 DEF ReceiveInv
<1>4. CASE UNCHANGED receiveVars
  <2>1. /\ packets' = packets /\ lines' = lines /\ ended' = ended /\ packetLength' = packetLength
        /\ m_readIndex' = m_readIndex /\ bytesInBuffer' = bytesInBuffer
    BY <1>4 DEF receiveVars
  <2>2. /\ PacketsOK' /\ \A i : InStep(i)' <=> InStep(i)
        /\ Orderly' <=> Orderly
        /\ BytesReceived' = BytesReceived
    BY <1>1, <2>1, SamePackets
  <2>3. LoopOK' BY <1>1, <2>1 DEF LoopOK, Inside
  <2>4. OnTrack' <=> OnTrack BY <2>1 DEF OnTrack
  <2>5. \A i : Taken(i)' <=> Taken(i) BY <2>1 DEF Taken, LineOf
  <2>6. TakenOrAhead' BY <1>1, <2>1, <2>2, <2>4, <2>5 DEF TakenOrAhead
  <2>7. OnlyTaken' BY <2>1, <2>2 DEF ReceiveInv, OnlyTaken
  <2> QED BY <2>2, <2>3, <2>6, <2>7 DEF ReceiveInv
<1> QED BY <1>2, <1>3, <1>4 DEF ReceiveNext

\* Theorem: the invariant of getMessages holds of every receive the chat server can
\* cause, however it is cut and wherever it begins.
THEOREM ReceiveInvariant == ReceiveSpec => []ReceiveInv
<1>1. ReceiveInit => ReceiveInv BY ReceiveStart
<1>2. ReceiveInv /\ [ReceiveNext]_receiveVars => ReceiveInv' BY ReceiveStep
<1> QED BY <1>1, <1>2, PTL DEF ReceiveSpec

\* The types follow from the invariant of getMessages.
LEMMA ReceiveTypes == ReceiveInv => ReceiveTypeOK
<1> QED BY DEF ReceiveInv, LoopOK, ReceiveTypeOK

\* Theorem: what is left is at most what the buffer holds, and grows beyond it only
\* by lengths that were read as negative; every line lies inside the string.
THEOREM ReceiveTypeCorrect == ReceiveSpec => []ReceiveTypeOK
<1> QED BY ReceiveTypes, ReceiveInvariant, PTL

\* Theorem: getMessages returns every packet of a receive up to the first one that
\* is cut off, that one included, as the line it is and at its place.
THEOREM WholeUntilCut == ReceiveSpec => []LinesUntilCut
<1>1. ReceiveInv => LinesUntilCut
  <2> SUFFICES ASSUME ReceiveInv, ended # "no", NEW i \in DOMAIN packets, InStep(i)
               PROVE  i \in DOMAIN lines /\ lines[i] = LineOf(packets[i])
    BY DEF LinesUntilCut
  <2>1. ~OnTrack BY DEF OnTrack
  <2> QED BY <2>1 DEF ReceiveInv, TakenOrAhead, Taken
<1> QED BY <1>1, ReceiveInvariant, PTL

\* Theorem: a receive of nothing but whole packets, with room for the NULs that end
\* it, is returned as exactly their lines, and nothing is read outside the buffer.
THEOREM OnlyTheLines == ReceiveSpec => []NothingElse
<1>1. ReceiveInv => NothingElse
  <2> SUFFICES ASSUME ReceiveInv, ended # "no", Orderly
               PROVE  ended # "overrun" /\ lines = [i \in DOMAIN packets |-> LineOf(packets[i])]
    BY DEF NothingElse, Orderly
  <2>1. PacketsOK /\ LoopOK BY DEF ReceiveInv
  <2>2. ended # "overrun" /\ Len(lines) <= Len(packets) BY DEF ReceiveInv, OnlyTaken
  <2>3. \A i \in DOMAIN packets : i \in DOMAIN lines /\ lines[i] = LineOf(packets[i])
    <3>1. ~OnTrack BY DEF OnTrack
    <3> QED BY <3>1 DEF ReceiveInv, TakenOrAhead, Taken, Orderly
  <2>4. /\ Len(lines) \in Nat /\ DOMAIN lines = 1..Len(lines)
        /\ Len(packets) \in Nat \ {0} /\ DOMAIN packets = 1..Len(packets)
    BY <2>1, LinesTypes, PacketTypes
  <2>5. Len(packets) \in DOMAIN lines BY <2>3, <2>4
  <2>6. DOMAIN lines = DOMAIN packets
    <3>1. Len(packets) <= Len(lines) BY <2>4, <2>5
    <3>2. Len(packets) \in Nat /\ Len(lines) \in Nat BY <2>4
    <3>3. ~(Len(packets) < Len(lines)) BY <2>2, <3>2, NotAbove
    <3>4. Len(lines) = Len(packets) BY <3>1, <3>2, <3>3, BelowOrSame
    <3> QED BY <2>4, <3>4, Zenon
  <2>7. lines = [i \in DOMAIN lines |-> lines[i]] BY <2>1 DEF LoopOK
  <2>8. lines = [i \in DOMAIN packets |-> LineOf(packets[i])] BY <2>3, <2>6, <2>7
  <2> QED BY <2>2, <2>8
<1> QED BY <1>1, ReceiveInvariant, PTL

\* Theorem: the branch of getMessages that would keep bytes in controlStr for the next
\* call is never reached, so that its calls do not depend on one another.
THEOREM KeepsNothing == ReceiveSpec => []NothingKept
<1>1. ReceiveInv => NothingKept
  <2>1. DefaultBufferLength \in Nat /\ DefaultBufferLength >= 4 BY PacketAssumption
  <2> QED BY <2>1 DEF ReceiveInv, LoopOK, NothingKept, KeepForNextCall
<1> QED BY <1>1, ReceiveInvariant, PTL

-----------------------------------------------------------------------------
\* getMessages: no text but that of packets.

\* What decoding does not give out of step: a length that yields text and lies inside
\* a buffer of less than 1279 bytes.
FarOff(v) == v <= 4 \/ v >= 1280

\* Four bytes from the end of a packet on, the length of the next one among them, or
\* from inside its text on.
LEMMA LengthSecond ==
  ASSUME NEW w, w[1] \in {0, 1, 2, 3, 97}, w[2] \in Byte, w[3] \in 0..3, w[4] \in Byte,
         w[2] + 256 * w[3] >= 5
  PROVE  FarOff(Int32(w))
<1>1. w[1] \in Int /\ w[1] >= 0 /\ w[1] < 128 OBVIOUS
<1>2. w[2] \in Int /\ w[2] >= 0 /\ w[2] <= 255 BY DEF Byte
<1>3. w[3] \in Int /\ w[3] >= 0 /\ w[3] < 128 OBVIOUS
<1>4. w[4] \in Int /\ w[4] >= 0 /\ w[4] <= 255 BY DEF Byte
<1>5. CASE w[2] >= 128
  <2>1. Int32(w) = w[1] + 256 * (w[2] - 256) BY <1>1, <1>2, <1>5 DEF Int32, SignedChar
  <2> QED BY <1>1, <1>2, <2>1 DEF FarOff
<1>6. CASE w[2] < 128
  <2>1. Int32(w) = w[1] + 256 * w[2] + 65536 * w[3] + 16777216 * SignedChar(w[4])
    BY <1>1, <1>2, <1>3, <1>6 DEF Int32
  <2>2. SignedChar(w[4]) \in Int /\ (SignedChar(w[4]) >= 0 \/ SignedChar(w[4]) <= -1)
    BY <1>4 DEF SignedChar
  <2> QED BY <1>1, <1>2, <1>3, <1>6, <2>1, <2>2 DEF FarOff
<1> QED BY <1>2, <1>5, <1>6

LEMMA LengthThird ==
  ASSUME NEW w, w[1] \in {0, 1, 2, 3, 97}, w[2] \in {0, 97}, w[3] \in Byte, w[4] \in 0..3,
         w[3] + 256 * w[4] >= 5
  PROVE  FarOff(Int32(w))
<1>1. w[1] \in Int /\ w[1] >= 0 /\ w[1] < 128 OBVIOUS
<1>2. w[2] \in Int /\ w[2] >= 0 /\ w[2] < 128 OBVIOUS
<1>3. w[3] \in Int /\ w[3] >= 0 /\ w[3] <= 255 BY DEF Byte
<1>4. w[4] \in Int /\ w[4] >= 0 /\ w[4] < 128 OBVIOUS
<1>5. CASE w[3] >= 128
  <2>1. Int32(w) = w[1] + 256 * w[2] + 65536 * (w[3] - 256)
    BY <1>1, <1>2, <1>3, <1>5 DEF Int32, SignedChar
  <2> QED BY <1>1, <1>2, <1>3, <2>1 DEF FarOff
<1>6. CASE w[3] < 128
  <2>1. Int32(w) = w[1] + 256 * w[2] + 65536 * w[3] + 16777216 * w[4]
    BY <1>1, <1>2, <1>3, <1>4, <1>6 DEF Int32, SignedChar
  <2> QED BY <1>1, <1>2, <1>3, <1>4, <1>6, <2>1 DEF FarOff
<1> QED BY <1>3, <1>5, <1>6

LEMMA LengthFourth ==
  ASSUME NEW w, w[1] \in {0, 1, 2, 3, 97}, w[2] \in {0, 97}, w[3] \in {0, 97}, w[4] \in Byte,
         w[3] = 0 => w[1] # 97 /\ w[2] = 0
  PROVE  FarOff(Int32(w))
<1>1. w[1] \in Int /\ w[1] >= 0 /\ w[1] < 128 OBVIOUS
<1>2. w[2] \in Int /\ w[2] >= 0 /\ w[2] < 128 OBVIOUS
<1>3. w[3] \in Int /\ w[3] >= 0 /\ w[3] < 128 OBVIOUS
<1>4. w[4] \in Int /\ w[4] >= 0 /\ w[4] <= 255 BY DEF Byte
<1>5. Int32(w) = w[1] + 256 * w[2] + 65536 * w[3] + 16777216 * SignedChar(w[4])
  BY <1>1, <1>2, <1>3 DEF Int32
<1>6. SignedChar(w[4]) \in Int /\ (SignedChar(w[4]) >= 0 \/ SignedChar(w[4]) <= -1)
      /\ SignedChar(w[4]) <= 127
  BY <1>4 DEF SignedChar
<1>7. CASE w[3] = 0
  <2>1. w[1] <= 3 /\ w[2] = 0 BY <1>7
  <2>2. Int32(w) = w[1] + 16777216 * SignedChar(w[4]) BY <1>1, <1>5, <1>6, <1>7, <2>1
  <2> QED BY <1>1, <1>6, <2>1, <2>2 DEF FarOff
<1>8. CASE w[3] = 97 BY <1>1, <1>2, <1>5, <1>6, <1>8 DEF FarOff
<1> QED BY <1>7, <1>8

\* Messages that fit the buffer of the code (512), and of each at least two bytes come.
ShortMessages ==
  /\ DefaultBufferLength < 1279
  /\ \A n \in PacketLengths : n < 1024
  /\ \A n \in PacketLengths : \A m \in Missing : n - m >= 2

\* Of a packet that is not cut off at its beginning two bytes came.
HeadsOK == \A i \in DOMAIN packets : packets[i].from = 0 => Have(packets[i]) >= 2

LEMMA HeadsStart == ShortMessages /\ ReceiveInit => HeadsOK
<1> SUFFICES ASSUME ShortMessages, ReceiveInit, NEW i \in DOMAIN packets, packets[i].from = 0
             PROVE  Have(packets[i]) >= 2
  BY DEF HeadsOK
<1>0. PICK n \in 1..MostPackets :
        \E lens \in [1..n -> PacketLengths], late \in Missing, short \in [1..n -> Missing] :
          LET from == [k \in 1..n |-> IF k = 1 THEN late ELSE 0]
              to == [k \in 1..n |-> lens[k] - short[k]]
          IN  /\ \A k \in 1..n : from[k] < to[k]
              /\ packets = [k \in 1..n |->
                   Packet(lens[k], from[k], to[k],
                          Start([j \in 1..n |-> to[j] - from[j]], k))]
  BY DEF ReceiveInit
<1>1. PICK lens \in [1..n -> PacketLengths], late \in Missing, short \in [1..n -> Missing] :
          LET from == [k \in 1..n |-> IF k = 1 THEN late ELSE 0]
              to == [k \in 1..n |-> lens[k] - short[k]]
          IN  /\ \A k \in 1..n : from[k] < to[k]
              /\ packets = [k \in 1..n |->
                   Packet(lens[k], from[k], to[k],
                          Start([j \in 1..n |-> to[j] - from[j]], k))]
  BY <1>0
<1>2. PacketLengths \subseteq Nat /\ Missing \subseteq Nat BY PacketAssumption
<1>3. i \in 1..n BY <1>1
<1>4. packets[i].to = lens[i] - short[i] BY <1>1, <1>3 DEF Packet
<1>5. lens[i] \in PacketLengths /\ short[i] \in Missing BY <1>3
<1>6. lens[i] - short[i] >= 2 BY <1>5 DEF ShortMessages
<1>7. lens[i] \in Nat /\ short[i] \in Nat BY <1>2, <1>5
<1>8. Have(packets[i]) = (lens[i] - short[i]) - 0 BY <1>4 DEF Have
<1> QED BY <1>6, <1>7, <1>8

\* The bytes of a short length.
LEMMA ShortLengthBytes ==
  ASSUME NEW v \in Nat, v < 1024
  PROVE  /\ Bytes32(v)[1] = v % 256 /\ Bytes32(v)[2] = v \div 256
         /\ Bytes32(v)[3] = 0 /\ Bytes32(v)[4] = 0
         /\ v \div 256 \in 0..3 /\ v % 256 \in Byte /\ v = (v % 256) + 256 * (v \div 256)
<1>1. v \div 256 \in 0..3 /\ v % 256 \in 0..255 /\ v = (v % 256) + 256 * (v \div 256) OBVIOUS
<1>2. v \div 65536 = 0 /\ v \div 16777216 = 0 OBVIOUS
<1>3. (v \div 256) % 256 = v \div 256 BY <1>1
<1>4. 0 % 256 = 0 OBVIOUS
<1>5. /\ Bytes32(v)[1] = v % 256 /\ Bytes32(v)[2] = (v \div 256) % 256
      /\ Bytes32(v)[3] = (v \div 65536) % 256 /\ Bytes32(v)[4] = (v \div 16777216) % 256
  BY DEF Bytes32
<1> QED BY <1>1, <1>2, <1>3, <1>4, <1>5 DEF Byte

\* A position at the beginning of a packet that has its beginning.
LEMMA NoneBefore ==
  ASSUME NEW f \in Nat, NEW n \in Nat, NEW a \in Int, a <= n, f + n - a = 0
  PROVE  f = 0 /\ n = a
OBVIOUS

\* The byte at a position of a short packet.
LEMMA ShortByte ==
  ASSUME PacketsOK, ShortMessages, NEW i \in DOMAIN packets, NEW n \in Nat,
         packets[i].at <= n, n < EndOf(i), NEW k, k = packets[i].from + n - packets[i].at
  PROVE  /\ k \in Nat
         /\ k = 0 => ByteReceived(n) = packets[i].len % 256 /\ packets[i].from = 0
                     /\ n = packets[i].at
         /\ k = 1 => ByteReceived(n) = packets[i].len \div 256
         /\ k = 2 \/ k = 3 => ByteReceived(n) = 0
         /\ k >= 4 => ByteReceived(n) = 97
<1>1. /\ packets[i].len \in Nat /\ packets[i].from \in Nat /\ packets[i].at \in Int
      /\ packets[i].len \in PacketLengths
  BY PacketTypes
<1>2. k \in Nat BY <1>1
<1>3. packets[i].len < 1024 BY <1>1 DEF ShortMessages
<1>4. ByteReceived(n) = ByteOfPacket(packets[i], k) BY ByteIs
<1>5. ASSUME k = 0 PROVE packets[i].from = 0 /\ n = packets[i].at
  BY <1>1, <1>5, NoneBefore
<1> DEFINE v == packets[i].len
<1>6. /\ Bytes32(v)[1] = v % 256 /\ Bytes32(v)[2] = v \div 256
      /\ Bytes32(v)[3] = 0 /\ Bytes32(v)[4] = 0
  <2>1. v \in Nat /\ v < 1024 BY <1>1, <1>3
  <2> HIDE DEF v
  <2> QED BY <2>1, ShortLengthBytes
<1>7. ByteOfPacket(packets[i], k) = IF k < 4 THEN Bytes32(v)[k + 1] ELSE 97
  BY DEF ByteOfPacket
<1>8. (k = 0 => ByteReceived(n) = v % 256) /\ (k = 1 => ByteReceived(n) = v \div 256)
      /\ (k = 2 \/ k = 3 => ByteReceived(n) = 0) /\ (k >= 4 => ByteReceived(n) = 97)
  <2> HIDE DEF v
  <2> QED BY <1>2, <1>4, <1>6, <1>7
<1> QED BY <1>2, <1>5, <1>8

\* Where a packet ends before the bytes do the next one begins, with its length.
LEMMA NextBegins ==
  ASSUME PacketsOK, HeadsOK, ShortMessages, NEW i \in DOMAIN packets,
         NEW n \in Nat, n = EndOf(i), n < BytesReceived
  PROVE  \E v \in Nat : /\ v >= 5 /\ v < 1024
                        /\ ByteReceived(n) = v % 256 /\ ByteReceived(n + 1) = v \div 256
<1>1. /\ Len(packets) \in Nat \ {0} /\ DOMAIN packets = 1..Len(packets)
  BY PacketTypes
<1>2. BytesReceived = EndOf(Len(packets)) BY DEF BytesReceived, EndOf
<1>3. i # Len(packets) BY <1>2
<1>4. PICK j : j = i + 1 OBVIOUS
<1>5. j \in DOMAIN packets /\ i < Len(packets) /\ j > 1 BY <1>1, <1>3, <1>4
<1>6. packets[j].at = n /\ packets[j].from = 0 BY <1>4, <1>5 DEF PacketsOK, EndOf
<1>7. /\ packets[j].len \in Nat /\ packets[j].len >= 5 /\ Have(packets[j]) \in Nat
      /\ packets[j].len \in PacketLengths /\ packets[j].at \in Int
  BY <1>5, PacketTypes
<1>8. packets[j].len < 1024 BY <1>7 DEF ShortMessages
<1>9. Have(packets[j]) >= 2 BY <1>5, <1>6 DEF HeadsOK
<1>10. n + 1 < EndOf(j) /\ n < EndOf(j) BY <1>6, <1>7, <1>9 DEF EndOf
<1>11. ByteReceived(n) = packets[j].len % 256
  <2>1. 0 = packets[j].from + n - packets[j].at BY <1>6
  <2>2. packets[j].at <= n BY <1>6
  <2> QED BY <1>5, <1>10, <2>1, <2>2, ShortByte
<1>12. ByteReceived(n + 1) = packets[j].len \div 256
  <2>1. 1 = packets[j].from + (n + 1) - packets[j].at BY <1>6
  <2>2. packets[j].at <= n + 1 /\ n + 1 \in Nat BY <1>6
  <2> QED BY <1>5, <1>10, <2>1, <2>2, ShortByte
<1> QED BY <1>7, <1>8, <1>11, <1>12

\* Four received bytes that do not begin where a packet does: what they decode to is
\* no length that would yield text.
LEMMA OutOfStep ==
  ASSUME PacketsOK, HeadsOK, ShortMessages, NEW r \in Nat, r + 3 < BytesReceived,
         NEW i \in DOMAIN packets, packets[i].at <= r, r < EndOf(i),
         ~(packets[i].from = 0 /\ r = packets[i].at),
         NEW w, w[1] = ByteReceived(r), w[2] = ByteReceived(r + 1),
         w[3] = ByteReceived(r + 2), w[4] = ByteReceived(r + 3)
  PROVE  FarOff(Int32(w))
<1>1. /\ packets[i].from \in Nat /\ packets[i].at \in Int /\ packets[i].len \in Nat
      /\ packets[i].len < 1024 /\ EndOf(i) \in Int /\ BytesReceived \in Int
  <2>1. packets[i].len \in PacketLengths BY PacketTypes
  <2>2. packets[i].len < 1024 BY <2>1 DEF ShortMessages
  <2> QED BY <2>2, PacketTypes, PacketsWithin
<1>2. PICK k : k = packets[i].from + r - packets[i].at OBVIOUS
<1>3. k \in Nat /\ k # 0
  <2>1. k \in Nat /\ (k = 0 => packets[i].from = 0 /\ r = packets[i].at) BY <1>2, ShortByte
  <2> QED BY <2>1
<1>4. packets[i].len \div 256 \in {0, 1, 2, 3}
  <2>1. packets[i].len \div 256 \in 0..3 BY <1>1, ShortLengthBytes
  <2> QED BY <2>1
\* The bytes of the packet.
<1>5. ASSUME NEW d \in Nat, r + d < EndOf(i)
      PROVE  /\ k + d = 1 => ByteReceived(r + d) \in {0, 1, 2, 3}
             /\ k + d = 2 \/ k + d = 3 => ByteReceived(r + d) = 0
             /\ k + d >= 4 => ByteReceived(r + d) = 97
  <2>1. r + d \in Nat /\ packets[i].at <= r + d
        /\ k + d = packets[i].from + (r + d) - packets[i].at
    BY <1>1, <1>2
  <2>2. /\ k + d = 1 => ByteReceived(r + d) = packets[i].len \div 256
        /\ k + d = 2 \/ k + d = 3 => ByteReceived(r + d) = 0
        /\ k + d >= 4 => ByteReceived(r + d) = 97
    BY <1>5, <2>1, ShortByte
  <2> QED BY <1>4, <2>2
<1>6. /\ w[1] \in {0, 1, 2, 3, 97}
      /\ w[1] = 97 => k >= 4
  <2>1. r + 0 = r /\ k + 0 = k /\ 0 \in Nat BY <1>3
  <2>2. /\ k = 1 => ByteReceived(r) \in {0, 1, 2, 3}
        /\ k = 2 \/ k = 3 => ByteReceived(r) = 0
        /\ k >= 4 => ByteReceived(r) = 97
    BY <1>5, <2>1
  <2>3. k = 1 \/ k = 2 \/ k = 3 \/ k >= 4 BY <1>3
  <2> QED BY <2>2, <2>3
<1>7. ASSUME r + 1 < EndOf(i)
      PROVE  w[2] \in {0, 97} /\ (k = 1 => w[2] = 0) /\ (k >= 3 => w[2] = 97)
  <2>1. /\ k + 1 = 2 \/ k + 1 = 3 => ByteReceived(r + 1) = 0
        /\ k + 1 >= 4 => ByteReceived(r + 1) = 97
    BY <1>5, <1>7
  <2>2. k + 1 = 2 \/ k + 1 = 3 \/ k + 1 >= 4 BY <1>3
  <2>3. (k = 1 => k + 1 = 2) /\ (k >= 3 => k + 1 >= 4) BY <1>3
  <2> QED BY <2>1, <2>2, <2>3
<1>8. ASSUME r + 2 < EndOf(i)
      PROVE  w[3] \in {0, 97} /\ (w[3] = 0 => k = 1)
  <2>1. /\ k + 2 = 3 => ByteReceived(r + 2) = 0
        /\ k + 2 >= 4 => ByteReceived(r + 2) = 97
    BY <1>5, <1>8
  <2>2. k + 2 = 3 \/ k + 2 >= 4 BY <1>3
  <2>3. k + 2 = 3 => k = 1 BY <1>3
  <2> QED BY <2>1, <2>2, <2>3
<1>9. \A d \in {0, 1, 2, 3} : ByteReceived(r + d) \in Byte
  <2>1. \A d \in {0, 1, 2, 3} : r + d \in Nat OBVIOUS
  <2> QED BY <2>1, ReceivesBytes
<1>10. w[2] \in Byte /\ w[3] \in Byte /\ w[4] \in Byte BY <1>9
<1>11. CASE r + 1 = EndOf(i)
  <2>1. r + 1 \in Nat /\ r + 1 < BytesReceived /\ r + 1 + 1 = r + 2 BY <1>1
  <2>2. PICK v \in Nat : /\ v >= 5 /\ v < 1024
                         /\ ByteReceived(r + 1) = v % 256
                         /\ ByteReceived(r + 1 + 1) = v \div 256
    BY <1>11, <2>1, NextBegins
  <2>3. w[2] = v % 256 /\ w[3] = v \div 256 BY <2>1, <2>2
  <2>4. w[3] \in 0..3 /\ w[2] + 256 * w[3] >= 5
    <3>1. v \div 256 \in 0..3 /\ v = (v % 256) + 256 * (v \div 256) BY <2>2, ShortLengthBytes
    <3> QED BY <2>2, <2>3, <3>1, ZenonT(40)
  <2> QED BY <1>6, <1>10, <2>4, LengthSecond
<1>12. CASE r + 2 = EndOf(i)
  <2>1. r + 2 \in Nat /\ r + 2 < BytesReceived /\ r + 2 + 1 = r + 3 /\ r + 1 < EndOf(i)
    BY <1>1, <1>12
  <2>2. PICK v \in Nat : /\ v >= 5 /\ v < 1024
                         /\ ByteReceived(r + 2) = v % 256
                         /\ ByteReceived(r + 2 + 1) = v \div 256
    BY <1>12, <2>1, NextBegins
  <2>3. w[3] = v % 256 /\ w[4] = v \div 256 BY <2>1, <2>2
  <2>4. w[4] \in 0..3 /\ w[3] + 256 * w[4] >= 5
    <3>1. v \div 256 \in 0..3 /\ v = (v % 256) + 256 * (v \div 256) BY <2>2, ShortLengthBytes
    <3> QED BY <2>2, <2>3, <3>1, ZenonT(40)
  <2> QED BY <1>6, <1>7, <1>10, <2>1, <2>4, LengthThird
<1>13. CASE r + 2 < EndOf(i)
  <2>1. r + 1 < EndOf(i) BY <1>1, <1>13
  <2>2. w[2] \in {0, 97} /\ w[3] \in {0, 97} BY <1>7, <1>8, <1>13, <2>1
  <2>3. ASSUME w[3] = 0 PROVE w[1] # 97 /\ w[2] = 0
    <3>1. k = 1 BY <1>8, <1>13, <2>3
    <3> QED BY <1>6, <1>7, <2>1, <3>1
  <2> QED BY <1>6, <1>10, <2>2, <2>3, LengthFourth
<1>14. r + 1 = EndOf(i) \/ r + 2 = EndOf(i) \/ r + 2 < EndOf(i) BY <1>1
<1> QED BY <1>11, <1>12, <1>13, <1>14

\* The line a step adds has no text, or lies behind what was received, or behind the
\* length of a packet.
LEMMA LineTakenIsTrue ==
  ASSUME PacketsOK, LoopOK, HeadsOK, ShortMessages, TakePacket, Inside(m_readIndex'),
         TextOf(Decoded) > 0, m_readIndex + 4 < BytesReceived
  PROVE  \E i \in DOMAIN packets : packets[i].from = 0 /\ m_readIndex + 4 = packets[i].at + 4
<1>1. PICK r \in Nat : r = m_readIndex BY DEF LoopOK
<1>2. BytesReceived \in Int /\ DefaultBufferLength \in Nat
  <2>1. 1 \in DOMAIN packets BY PacketTypes
  <2> QED BY <2>1, PacketsWithin, PacketTypes
<1>3. r < BytesReceived /\ r + 3 < BytesReceived BY <1>1, <1>2
<1>4. PICK i \in DOMAIN packets : packets[i].at <= r /\ r < EndOf(i) BY <1>3, ByteInPacket
<1>5. PICK w : w = <<ByteReceived(r), ByteReceived(r + 1), ByteReceived(r + 2), ByteReceived(r + 3)>>
  OBVIOUS
<1>6. Decoded = Int32(w) BY <1>1, <1>5, DecodedBytes
<1>7. ~FarOff(Int32(w))
  <2>1. Decoded \in Int BY <1>1, DecodedType
  <2>2. TextOf(Decoded) = Decoded - 4 /\ Decoded > 4 BY <2>1 DEF TextOf
  <2>3. m_readIndex' = r + 4 + (Decoded - 4) BY <1>1, <2>2 DEF TakePacket
  <2>4. r + 4 + (Decoded - 4) <= DefaultBufferLength + 1 BY <2>3 DEF Inside
  <2>5. DefaultBufferLength < 1279 BY DEF ShortMessages
  <2>6. PICK v \in Int : v = Int32(w) /\ v = Decoded BY <1>6, <2>1
  <2>7. v > 4 /\ r + 4 + (v - 4) <= DefaultBufferLength + 1 BY <2>2, <2>4, <2>6, Zenon
  <2>8. v > 4 /\ v < 1280 BY <1>2, <2>5, <2>7
  <2> QED BY <2>6, <2>8 DEF FarOff
<1>8. w[1] = ByteReceived(r) /\ w[2] = ByteReceived(r + 1)
      /\ w[3] = ByteReceived(r + 2) /\ w[4] = ByteReceived(r + 3)
  BY <1>5
<1>9. packets[i].from = 0 /\ r = packets[i].at BY <1>3, <1>4, <1>7, <1>8, OutOfStep
<1>10. m_readIndex + 4 = packets[i].at + 4 BY <1>1, <1>9
<1> QED BY <1>9, <1>10

FalseTextInv == ReceiveInv /\ HeadsOK /\ NoFalseText

LEMMA NoFalseTextStep ==
  ShortMessages /\ FalseTextInv /\ [ReceiveNext]_receiveVars => FalseTextInv'
<1> SUFFICES ASSUME ShortMessages, FalseTextInv, [ReceiveNext]_receiveVars
             PROVE  FalseTextInv'
  OBVIOUS
<1>1. PacketsOK /\ LoopOK /\ ReceiveInv /\ HeadsOK /\ NoFalseText
  BY DEF FalseTextInv, ReceiveInv
<1>2. ReceiveInv' BY <1>1, ReceiveStep
<1>3. packets' = packets
  <2>1. CASE TakePacket BY <2>1 DEF TakePacket, ReadLength
  <2>2. CASE PassOver BY <2>2 DEF PassOver, ReadLength
  <2>3. CASE Break \/ Counted \/ Overrun BY <1>1, <2>3, StopLoop
  <2>4. CASE UNCHANGED receiveVars BY <2>4 DEF receiveVars
  <2> QED BY <2>1, <2>2, <2>3, <2>4 DEF ReceiveNext
<1>4. HeadsOK' /\ BytesReceived' = BytesReceived BY <1>1, <1>3, SamePackets DEF HeadsOK, Have
<1> SUFFICES ASSUME NEW l \in DOMAIN lines', lines'[l].n > 0, lines'[l].at < BytesReceived'
             PROVE  \E i \in DOMAIN packets' :
                      packets'[i].from = 0 /\ lines'[l].at = packets'[i].at + 4
  BY <1>2, <1>4 DEF FalseTextInv, NoFalseText
<1>5. ASSUME l \in DOMAIN lines, lines'[l] = lines[l]
      PROVE  \E i \in DOMAIN packets' :
               packets'[i].from = 0 /\ lines'[l].at = packets'[i].at + 4
  BY <1>1, <1>3, <1>4, <1>5 DEF NoFalseText
<1>6. CASE lines' = lines BY <1>5, <1>6
<1>7. CASE TakePacket /\ lines' # lines
  <2>1. Inside(m_readIndex')
        /\ lines' = Append(lines, Line(m_readIndex + 4, TextOf(Decoded)))
    BY <1>7 DEF TakePacket
  <2>2. PICK line : line = Line(m_readIndex + 4, TextOf(Decoded)) OBVIOUS
  <2>3. m_readIndex \in Nat /\ Decoded \in Int BY <1>1, DecodedType DEF LoopOK
  <2>4. TextOf(Decoded) \in Nat BY <2>3 DEF TextOf
  <2>5. line \in LinesRead BY <2>2, <2>3, <2>4 DEF Line, LinesRead
  <2>6. lines' = Append(lines, line) BY <2>1, <2>2
  <2>7. CASE l \in DOMAIN lines BY <1>1, <1>5, <2>5, <2>6, <2>7, LineAppended
  <2>8. CASE l \notin DOMAIN lines
    <3>1. lines'[l] = line
      <4>1. /\ Len(lines) \in Nat /\ DOMAIN lines' = 1 .. Len(lines) + 1
            /\ DOMAIN lines = 1..Len(lines) /\ lines'[Len(lines) + 1] = line
        BY <1>1, <2>5, <2>6, LineAppended
      <4>2. l = Len(lines) + 1 BY <2>8, <4>1
      <4> QED BY <4>1, <4>2
    <3>2. line.at = m_readIndex + 4 /\ line.n = TextOf(Decoded) BY <2>2 DEF Line
    <3>3. TextOf(Decoded) > 0 /\ m_readIndex + 4 < BytesReceived
      BY <1>4, <3>1, <3>2
    <3>4. \E i \in DOMAIN packets :
            packets[i].from = 0 /\ m_readIndex + 4 = packets[i].at + 4
      BY <1>1, <1>7, <2>1, <3>3, LineTakenIsTrue
    <3> QED BY <1>3, <3>1, <3>2, <3>4
  <2> QED BY <2>7, <2>8
<1>8. ~TakePacket => lines' = lines
  <2>1. CASE PassOver BY <2>1 DEF PassOver
  <2>2. CASE Break \/ Counted \/ Overrun BY <1>1, <2>2, StopLoop
  <2>3. CASE UNCHANGED receiveVars BY <2>3 DEF receiveVars
  <2> QED BY <2>1, <2>2, <2>3 DEF ReceiveNext
<1> QED BY <1>6, <1>7, <1>8

\* Theorem: when messages are shorter than 1024 bytes, the buffer than 1279 (it has
\* 512), and at least two bytes of each message come, a line of getMessages with
\* characters that were received begins behind the length of a packet, however the
\* receive was cut and wherever it began.
THEOREM TextIsText == ShortMessages => (ReceiveSpec => []NoFalseText)
<1>1. ShortMessages /\ ReceiveInit => FalseTextInv
  <2> SUFFICES ASSUME ShortMessages, ReceiveInit PROVE FalseTextInv OBVIOUS
  <2>1. ReceiveInv /\ HeadsOK BY ReceiveStart, HeadsStart
  <2>2. lines = <<>> BY DEF ReceiveInit
  <2>3. DOMAIN lines = {}
    <3>1. <<>> \in Seq(LinesRead) /\ Len(<<>>) = 0 /\ DOMAIN <<>> = {} BY EmptySeq
    <3> QED BY <2>2, <3>1, Zenon
  <2> QED BY <2>1, <2>3 DEF FalseTextInv, NoFalseText
<1>2. ShortMessages /\ FalseTextInv /\ [ReceiveNext]_receiveVars => FalseTextInv'
  BY NoFalseTextStep
<1>3. FalseTextInv => NoFalseText BY DEF FalseTextInv
<1>4. ASSUME ShortMessages PROVE ReceiveSpec => []NoFalseText
  <2>1. ReceiveInit => FalseTextInv BY <1>1, <1>4
  <2>2. FalseTextInv /\ [ReceiveNext]_receiveVars => FalseTextInv' BY <1>2, <1>4
  <2> QED BY <1>3, <2>1, <2>2, PTL DEF ReceiveSpec
<1> QED BY <1>4

-----------------------------------------------------------------------------
\* sendMessage and treatMessage: the layout of a message.

SizesOK ==
  /\ msgID \in Texts \union Credentials \union {"JOIN_ROOM", "LEAVE_ROOM", "VALIDATE_SERVER"}
  /\ sizes \in Seq(Nat)
  /\ Len(sizes) = 1 \/ (Len(sizes) = 2 /\ Width = 1)

\* The sum of one number, of two, and of none.
LEMMA SumOfFew ==
  ASSUME NEW v \in Seq(Int)
  PROVE  /\ Len(v) = 0 => TotalLength(v) = 0
         /\ Len(v) = 1 => TotalLength(v) = v[1]
         /\ Len(v) = 2 => TotalLength(v) = v[1] + v[2]
<1>1. /\ Start(v, 1) = 0
      /\ \A i \in 1..Len(v) : Start(v, i + 1) = Start(v, i) + v[i]
      /\ TotalLength(v) = Start(v, Len(v) + 1)
  BY Starts
<1>2. Len(v) \in Nat /\ \A i \in 1..Len(v) : v[i] \in Int BY LenProperties, ElementOfSeq
<1>3. ASSUME Len(v) = 0 PROVE TotalLength(v) = 0
  <2>1. Len(v) + 1 = 1 BY <1>3
  <2> QED BY <1>1, <2>1
<1>4. ASSUME 1 \in 1..Len(v) PROVE Start(v, 2) = v[1] /\ v[1] \in Int
  <2>1. Start(v, 1 + 1) = Start(v, 1) + v[1] BY <1>1, <1>4
  <2>2. 1 + 1 = 2 /\ v[1] \in Int BY <1>2, <1>4
  <2> QED BY <1>1, <2>1, <2>2
<1>5. ASSUME Len(v) = 1 PROVE TotalLength(v) = v[1]
  <2>1. Len(v) + 1 = 2 /\ 1 \in 1..Len(v) BY <1>5
  <2> QED BY <1>1, <1>4, <2>1
<1>6. ASSUME Len(v) = 2 PROVE TotalLength(v) = v[1] + v[2]
  <2>1. Len(v) + 1 = 3 /\ 1 \in 1..Len(v) /\ 2 \in 1..Len(v) /\ 2 + 1 = 3 BY <1>6
  <2>2. Start(v, 2 + 1) = Start(v, 2) + v[2] BY <1>1, <2>1
  <2> QED BY <1>1, <1>4, <2>1, <2>2
<1> QED BY <1>3, <1>5, <1>6

\* What narrowing leaves.
IsChar(n) == n \in Int /\ n + 128 >= 0 /\ n <= 127
IsShort(n) == n \in Int /\ n + 32768 >= 0 /\ n <= 32767

LEMMA CharRange == ASSUME NEW n \in Nat PROVE IsChar(AsChar(n))
<1>1. PICK m \in Int : m = n % 256 /\ m >= 0 /\ m <= 255 OBVIOUS
<1>2. IsChar(SignedChar(m)) BY <1>1 DEF SignedChar, IsChar
<1> QED BY <1>1, <1>2 DEF AsChar

LEMMA ShortRange == ASSUME NEW n \in Nat PROVE IsShort(AsShort(n))
<1>1. PICK m \in Int : m = n % 65536 /\ m >= 0 /\ m <= 65535 OBVIOUS
<1>2. AsShort(n) = IF m < 32768 THEN m ELSE m - 65536 BY <1>1 DEF AsShort
<1>3. CASE m < 32768 BY <1>1, <1>2, <1>3 DEF IsShort
<1>4. CASE ~(m < 32768)
  <2>1. AsShort(n) = m - 65536 BY <1>2, <1>4
  <2> QED BY <1>1, <1>4, <2>1 DEF IsShort
<1> QED BY <1>3, <1>4

\* The fields, their lengths and where they are written.
LEMMA Layout ==
  ASSUME SizesOK
  PROVE  /\ Width \in {1, 2} /\ Len(sizes) \in {1, 2} /\ Fields = 1..Len(sizes)
         /\ \A i \in Fields : /\ sizes[i] \in Nat /\ Narrowed(i) \in Int
                              /\ IsShort(Narrowed(i))
                              /\ Width = 1 => IsChar(Narrowed(i))
                              /\ Written(i) \in Nat
                              /\ Narrowed(i) >= 0 => Written(i) = Narrowed(i)
         /\ Place(1) = 5
         /\ Len(sizes) = 2 => Place(2) = 5 + (Width + Written(1))
         /\ Len(sizes) = 1 => Summed = 5 + (Width + Narrowed(1))
         /\ Len(sizes) = 2 => Summed = 5 + ((Width + Narrowed(1)) + (Width + Narrowed(2)))
<1>1. Width \in {1, 2} BY DEF Width
<1>1a. Width \in Nat BY <1>1
<1>2. Len(sizes) \in {1, 2} /\ Fields = 1..Len(sizes)
  BY LenProperties DEF SizesOK, Fields
<1>3. ASSUME NEW i \in Fields
      PROVE  /\ sizes[i] \in Nat /\ Narrowed(i) \in Int
             /\ IsShort(Narrowed(i))
             /\ Width = 1 => IsChar(Narrowed(i))
             /\ Written(i) \in Nat
             /\ Narrowed(i) >= 0 => Written(i) = Narrowed(i)
  <2>1. sizes[i] \in Nat BY <1>2, ElementOfSeq DEF SizesOK
  <2>2. /\ IsChar(AsChar(sizes[i])) /\ IsShort(AsShort(sizes[i]))
        /\ IsShort(AsChar(sizes[i]))
    <3>1. IsChar(AsChar(sizes[i])) /\ IsShort(AsShort(sizes[i]))
      BY <2>1, CharRange, ShortRange
    <3> QED BY <3>1 DEF IsChar, IsShort
  <2>3. Narrowed(i) = IF Width = 2 THEN AsShort(sizes[i]) ELSE AsChar(sizes[i])
    BY DEF Narrowed
  <2>4. /\ IsShort(Narrowed(i)) /\ (Width = 1 => IsChar(Narrowed(i)))
        /\ Narrowed(i) \in Int
    <3>1. CASE Width = 2 BY <2>2, <2>3, <3>1 DEF IsShort
    <3>2. CASE Width = 1 BY <2>2, <2>3, <3>2 DEF IsShort
    <3> QED BY <1>1, <3>1, <3>2
  <2>5. Written(i) \in Nat /\ (Narrowed(i) >= 0 => Written(i) = Narrowed(i))
    BY <2>4 DEF Written
  <2> QED BY <2>1, <2>4, <2>5
<1>4. Place(1) = 5
  <2> DEFINE v == [j \in 1 .. 1 - 1 |-> Width + Written(j)]
  <2>1. v \in Seq(Int) /\ Len(v) = 0
    <3>1. v = [j \in 1..0 |-> Width + Written(j)] OBVIOUS
    <3>2. v \in [1..0 -> Int] BY <3>1
    <3> QED BY <3>2
  <2>2. TotalLength(v) = 0
    <3> HIDE DEF v
    <3> QED BY <2>1, SumOfFew
  <2>3. Place(1) = 5 + TotalLength(v) BY DEF Place
  <2> QED BY <2>2, <2>3
<1>5. ASSUME Len(sizes) = 2 PROVE Place(2) = 5 + (Width + Written(1))
  <2> DEFINE v == [j \in 1 .. 2 - 1 |-> Width + Written(j)]
  <2>1. Width + Written(1) \in Int
    <3>1. 1 \in Fields BY <1>2
    <3>2. Written(1) \in Nat BY <1>3, <3>1
    <3> QED BY <1>1a, <3>2
  <2>2. v \in Seq(Int) /\ Len(v) = 1 /\ v[1] = Width + Written(1)
    <3>1. v = [j \in 1..1 |-> Width + Written(j)] OBVIOUS
    <3>2. \A j \in 1..1 : Width + Written(j) \in Int BY <2>1
    <3>3. v \in [1..1 -> Int] BY <3>1, <3>2
    <3>4. v[1] = Width + Written(1) BY <3>1
    <3> HIDE DEF v
    <3>5. v \in Seq(Int) /\ Len(v) = 1
      <4>1. PICK n \in Nat : n = 1 OBVIOUS
      <4>2. v \in [1..n -> Int] BY <3>3, <4>1
      <4>3. v \in Seq(Int) /\ Len(v) = n BY <4>2
      <4> QED BY <4>1, <4>3
    <3> QED BY <3>4, <3>5
  <2>3. TotalLength(v) = v[1]
    <3> HIDE DEF v
    <3> QED BY <2>2, SumOfFew
  <2>4. Place(2) = 5 + TotalLength(v) BY DEF Place
  <2> HIDE DEF v
  <2> QED BY <2>2, <2>3, <2>4
<1>6. /\ Len(sizes) = 1 => Summed = 5 + (Width + Narrowed(1))
      /\ Len(sizes) = 2 => Summed = 5 + ((Width + Narrowed(1)) + (Width + Narrowed(2)))
  <2> DEFINE v == [i \in Fields |-> Width + Narrowed(i)]
  <2>1. v \in Seq(Int) /\ Len(v) = Len(sizes)
    <3>1. \A i \in Fields : Width + Narrowed(i) \in Int BY <1>1a, <1>3
    <3>2. v \in [1..Len(sizes) -> Int] BY <1>2, <3>1
    <3>3. Len(sizes) \in Nat BY <1>2
    <3> HIDE DEF v
    <3> QED BY <3>2, <3>3
  <2>2. \A i \in Fields : v[i] = Width + Narrowed(i) OBVIOUS
  <2>3. Summed = 5 + TotalLength(v) BY DEF Summed
  <2> HIDE DEF v
  <2>4. (Len(v) = 1 => TotalLength(v) = v[1]) /\ (Len(v) = 2 => TotalLength(v) = v[1] + v[2])
    BY <2>1, SumOfFew
  <2>5. 1 \in Fields /\ (Len(sizes) = 2 => 2 \in Fields) BY <1>2
  <2> QED BY <2>1, <2>2, <2>3, <2>4, <2>5
<1> QED BY <1>1, <1>2, <1>3, <1>4, <1>5, <1>6

\* The bytes of a length as the message holds it decode to it, those of a text to it or
\* to a negative number.
LEMMA CharDecodes == ASSUME NEW n, IsChar(n) PROVE SignedChar(Bytes16(n)[1]) = n
<1>1. Bytes16(n)[1] = n % 256 BY DEF Bytes16
<1>2. CASE n >= 0
  <2>1. n % 256 = n BY <1>2 DEF IsChar
  <2> QED BY <1>1, <1>2, <2>1 DEF SignedChar, IsChar
<1>3. CASE n < 0
  <2>1. n % 256 = n + 256 BY <1>3 DEF IsChar
  <2>2. PICK m \in Int : m = n + 256 /\ m >= 128 BY <1>3 DEF IsChar
  <2>3. SignedChar(m) = n BY <2>2 DEF SignedChar, IsChar
  <2> QED BY <1>1, <2>1, <2>2, <2>3
<1> QED BY <1>2, <1>3 DEF IsChar

LEMMA ShortDecodes ==
  ASSUME NEW n, IsShort(n), n >= 0
  PROVE  LET v == Int16(<<Bytes16(n)[1], Bytes16(n)[2]>>) IN v = n \/ v < 0
<1>1. n \in Nat /\ n <= 32767 BY DEF IsShort
<1>2. PICK a \in Int : a = n % 256 /\ a >= 0 /\ a <= 255 BY <1>1
<1>3. PICK b \in Int : b = (n \div 256) % 256 /\ b >= 0 /\ b < 128 /\ n = a + 256 * b
  <2>1. n \div 256 \in Int /\ n \div 256 >= 0 /\ n \div 256 < 128 BY <1>1
  <2>2. (n \div 256) % 256 = n \div 256 BY <2>1
  <2>3. n = (n % 256) + 256 * (n \div 256) BY <1>1
  <2> QED BY <1>2, <2>1, <2>2, <2>3
<1>4. Bytes16(n)[1] = a /\ Bytes16(n)[2] = b BY <1>2, <1>3 DEF Bytes16
<1>5. PICK w : w = <<a, b>> OBVIOUS
<1>6. w[1] = a /\ w[2] = b BY <1>5
<1>7. Int16(w) = IF a >= 128 THEN a - 256 ELSE a + 256 * b
  BY <1>2, <1>3, <1>6 DEF Int16, SignedChar
<1>8. Int16(w) = n \/ Int16(w) < 0
  <2>1. CASE a >= 128 BY <1>2, <1>7, <2>1
  <2>2. CASE ~(a >= 128) BY <1>3, <1>7, <2>2
  <2> QED BY <2>1, <2>2
<1> QED BY <1>4, <1>5, <1>8

\* The length found where a field is written within the message.
LEMMA LengthAtField ==
  ASSUME SizesOK, messageLength \in Int, Width = 1, NEW i \in Fields,
         readIndex = Place(i), Place(i) < messageLength
  PROVE  LengthAt(readIndex) = Narrowed(i)
<1>1. /\ Len(sizes) \in {1, 2} /\ Fields = 1..Len(sizes)
      /\ IsChar(Narrowed(i)) /\ Place(1) = 5 /\ Written(1) \in Nat
      /\ Len(sizes) = 2 => Place(2) = 5 + (Width + Written(1))
  BY Layout
<1>2. PICK n : n = readIndex OBVIOUS
<1> DEFINE here == {j \in Fields : n \in Place(j) .. Place(j) + Width - 1}
<1>1a. (Len(sizes) = 1 /\ Fields = {1}) \/ (Len(sizes) = 2 /\ Fields = {1, 2})
  <2>1. CASE Len(sizes) = 1
    <3>1. Fields = 1..1 BY <1>1, <2>1
    <3> QED BY <2>1, <3>1
  <2>2. CASE Len(sizes) = 2
    <3>1. Fields = 1..2 BY <1>1, <2>2
    <3> QED BY <2>2, <3>1
  <2> QED BY <1>1, <2>1, <2>2
<1>3. \A j \in Fields : Place(j) \in Int
  <2>1. Place(1) \in Int BY <1>1
  <2>2. Len(sizes) = 2 => Place(2) \in Int
    <3>1. Width + Written(1) \in Int BY <1>1
    <3> QED BY <1>1, <3>1
  <2> QED BY <1>1a, <2>1, <2>2
<1>4. \A j \in Fields : j \in here <=> Place(j) = n
  <2>1. \A j \in Fields : Place(j) + Width - 1 = Place(j) BY <1>3
  <2>2. n \in Int BY <1>2, <1>3
  <2> QED BY <1>3, <2>1, <2>2
<1>5. here = {i}
  <2>1. ASSUME NEW j \in Fields, Place(j) = n PROVE j = i
    <3>1. i \in {1, 2} /\ j \in {1, 2} BY <1>1a
    <3>2. Len(sizes) = 2 => Place(1) # Place(2) BY <1>1
    <3>3. i = 2 \/ j = 2 => Len(sizes) = 2 BY <1>1a
    <3> QED BY <1>2, <2>1, <3>1, <3>2, <3>3
  <2>2. i \in here BY <1>2, <1>4
  <2> HIDE DEF here
  <2>3. here \subseteq Fields BY DEF here
  <2> QED BY <1>4, <2>1, <2>2, <2>3
<1>6. ByteAt(n) = Bytes16(Narrowed(i))[n - Place(i) + 1]
  <2>1. ~(n >= messageLength) BY <1>2, <1>3
  <2>2. here # {} /\ (CHOOSE j \in here : TRUE) = i
    <3> HIDE DEF here
    <3> QED BY <1>5
  <2> QED BY <2>1, <2>2 DEF ByteAt
<1>7. n - Place(i) + 1 = 1 BY <1>2, <1>3
<1>8. SignedChar(ByteAt(n)) = Narrowed(i)
  <2>1. ByteAt(n) = Bytes16(Narrowed(i))[1] BY <1>6, <1>7
  <2> QED BY <1>1, <2>1, CharDecodes
<1>9. LengthAt(n) = SignedChar(ByteAt(n)) BY DEF LengthAt
<1> QED BY <1>2, <1>8, <1>9

\* Behind the end of the message a length is 0.
LEMMA LengthBehind ==
  ASSUME Width = 1, readIndex >= messageLength
  PROVE  LengthAt(readIndex) = 0
<1>1. ByteAt(readIndex) = 0 BY DEF ByteAt
<1> QED BY <1>1 DEF LengthAt, SignedChar

\* The length of a text.
LEMMA LengthOfText ==
  ASSUME SizesOK, messageLength = Summed, Width = 2, readIndex = 5
  PROVE  /\ LengthAt(readIndex) \in Int
         /\ Narrowed(1) >= 0 => LengthAt(readIndex) = Narrowed(1) \/ LengthAt(readIndex) < 0
<1>1. /\ Len(sizes) = 1 /\ Fields = {1} /\ Place(1) = 5
      /\ Narrowed(1) \in Int /\ IsShort(Narrowed(1))
      /\ Summed = 5 + (2 + Narrowed(1))
  <2>1. Len(sizes) = 1 BY DEF SizesOK
  <2>2. Fields = 1..Len(sizes) BY Layout
  <2>3. Fields = {1} BY <2>1, <2>2
  <2> QED BY <2>1, <2>3, Layout
<1>2. messageLength \in Int BY <1>1
<1>3. ASSUME NEW n \in {5, 6}, n < messageLength
      PROVE  ByteAt(n) = Bytes16(Narrowed(1))[n - 4]
  <2> DEFINE here == {j \in Fields : n \in Place(j) .. Place(j) + Width - 1}
  <2>1. here = {1}
    <3>1. n \in Place(1) .. Place(1) + Width - 1 BY <1>1
    <3> QED BY <1>1, <3>1
  <2>2. here # {} /\ (CHOOSE j \in here : TRUE) = 1
    <3> HIDE DEF here
    <3> QED BY <2>1
  <2>3. ~(n >= messageLength) BY <1>2, <1>3
  <2>4. ByteAt(n) = Bytes16(Narrowed(1))[n - Place(1) + 1] BY <2>2, <2>3 DEF ByteAt
  <2>5. n - Place(1) + 1 = n - 4 BY <1>1
  <2> QED BY <2>4, <2>5
<1>4. PICK x : x = Narrowed(1) /\ x \in Int /\ IsShort(x) BY <1>1
<1>5. Bytes16(x)[1] \in 0..255 /\ Bytes16(x)[2] \in 0..255
  <2>1. Bytes16(x)[1] = x % 256 /\ Bytes16(x)[2] = (x \div 256) % 256 BY DEF Bytes16
  <2>2. x % 256 \in 0..255 /\ x \div 256 \in Int BY <1>4
  <2>3. (x \div 256) % 256 \in 0..255 BY <2>2
  <2> QED BY <2>1, <2>2, <2>3
<1>6. ByteAt(5) \in 0..255 /\ ByteAt(6) \in 0..255
  <2>1. ASSUME NEW n \in {5, 6} PROVE ByteAt(n) \in 0..255
    <3>1. CASE n < messageLength
      <4>1. ByteAt(n) = Bytes16(x)[n - 4] BY <1>3, <1>4, <3>1
      <4>2. n - 4 \in {1, 2} OBVIOUS
      <4> QED BY <1>5, <4>1, <4>2
    <3>2. CASE ~(n < messageLength)
      <4>1. n >= messageLength BY <1>2, <3>2
      <4> QED BY <4>1 DEF ByteAt
    <3> QED BY <3>1, <3>2
  <2> QED BY <2>1
<1>7. LengthAt(readIndex) = Int16(<<ByteAt(5), ByteAt(6)>>)
  <2>1. readIndex + 1 = 6 OBVIOUS
  <2> QED BY <2>1 DEF LengthAt
<1>8. Int16(<<ByteAt(5), ByteAt(6)>>) \in Int
  <2>1. PICK a \in Int : a = ByteAt(5) BY <1>6
  <2>2. PICK b \in Int : b = ByteAt(6) BY <1>6
  <2>3. SignedChar(a) \in Int /\ SignedChar(b) \in Int BY DEF SignedChar
  <2>4. PICK w : w = <<a, b>> OBVIOUS
  <2>5. w[1] = a /\ w[2] = b BY <2>4
  <2>6. Int16(w) \in Int BY <2>3, <2>5 DEF Int16
  <2> QED BY <2>1, <2>2, <2>4, <2>6
<1>9. ASSUME Narrowed(1) >= 0
      PROVE  LengthAt(readIndex) = Narrowed(1) \/ LengthAt(readIndex) < 0
  <2>1. 5 < messageLength /\ 6 < messageLength BY <1>1, <1>9
  <2>2. ByteAt(5) = Bytes16(x)[1] /\ ByteAt(6) = Bytes16(x)[2]
    <3>1. ByteAt(5) = Bytes16(x)[5 - 4] /\ ByteAt(6) = Bytes16(x)[6 - 4]
      BY <1>3, <1>4, <2>1
    <3> QED BY <3>1
  <2>3. x >= 0 /\ IsShort(x) BY <1>4, <1>9
  <2>4. PICK v : v = Int16(<<Bytes16(x)[1], Bytes16(x)[2]>>) OBVIOUS
  <2>5. v = x \/ v < 0 BY <2>3, <2>4, ShortDecodes
  <2> QED BY <1>4, <1>7, <2>2, <2>4, <2>5
<1> QED BY <1>7, <1>8, <1>9

-----------------------------------------------------------------------------
\* sendMessage and treatMessage: what is read.

FieldsRead == [at : Nat, n : Nat]

\* The reader is where a field was written, or behind the message, where all further
\* fields are, too.
AtField(i) ==
  /\ messageLength >= 5 /\ messageLength = Summed
  /\ i = 1 => readIndex = 5
  /\ readIndex = Place(i) \/ (readIndex >= messageLength /\ Place(i) >= messageLength)

\* What was read is a field at its place; of a text, at most with another length.
FieldOK(i) ==
  /\ Width = 1 /\ Place(i) < messageLength => read[i] = [at |-> Place(i) + 1, n |-> Written(i)]
  /\ Width = 2 => read[i].at = 7 /\ (Narrowed(1) >= 0 => read[i].n \in {0, Narrowed(1)})

FieldInv ==
  /\ SizesOK
  /\ readIndex \in Nat /\ messageLength \in Int
  /\ read \in Seq(FieldsRead) /\ Len(read) <= Len(sizes)
  /\ stage \in {"build", "sent", "treat", "thrown", "overrun", "lost", "treated"}
  /\ stage = "build" => messageLength = 0
  /\ stage # "build" => messageLength = Summed
  /\ stage \in {"build", "sent"} => Len(read) = 0
  /\ stage = "treat" => Len(read) < Len(sizes) /\ AtField(Len(read) + 1)
  /\ stage = "treated" => Len(read) = Len(sizes)
  /\ stage = "overrun" => \E i \in Fields : Narrowed(i) < 0
  /\ \A i \in DOMAIN read : FieldOK(i)

LEMMA SameLayout ==
  ASSUME msgID' = msgID, sizes' = sizes
  PROVE  /\ Width' = Width /\ Fields' = Fields /\ Summed' = Summed
         /\ \A i : Narrowed(i)' = Narrowed(i)
         /\ \A i : Written(i)' = Written(i)
         /\ \A i : Place(i)' = Place(i)
         /\ SizesOK => SizesOK'
<1>1. Width' = Width /\ Fields' = Fields BY DEF Width, Fields
<1>2. \A i : Narrowed(i)' = Narrowed(i) BY <1>1 DEF Narrowed
<1>3. \A i : Written(i)' = Written(i) BY <1>2 DEF Written
<1>4. \A i : Place(i)' = Place(i)
  <2> SUFFICES ASSUME NEW i PROVE Place(i)' = Place(i) OBVIOUS
  <2>1. [j \in 1 .. i - 1 |-> Width + Written(j)]' = [j \in 1 .. i - 1 |-> Width + Written(j)]
    BY <1>1, <1>3
  <2> QED BY <2>1 DEF Place
<1>5. Summed' = Summed
  <2>1. [i \in Fields |-> Width + Narrowed(i)]' = [i \in Fields |-> Width + Narrowed(i)]
    BY <1>1, <1>2
  <2> QED BY <2>1 DEF Summed
<1>6. SizesOK => SizesOK' BY <1>1 DEF SizesOK
<1> QED BY <1>1, <1>2, <1>3, <1>4, <1>5, <1>6

\* Messages as they are built.
LEMMA OneSize == ASSUME NEW n \in Nat PROVE <<n>> \in Seq(Nat) /\ Len(<<n>>) = 1
OBVIOUS

LEMMA TwoSizes ==
  ASSUME NEW m \in Nat, NEW n \in Nat
  PROVE  <<m, n>> \in Seq(Nat) /\ Len(<<m, n>>) = 2
OBVIOUS

LEMMA FieldsStart == FieldsInit => FieldInv
<1> SUFFICES ASSUME FieldsInit PROVE FieldInv OBVIOUS
<1>1. messageLength = 0 /\ readIndex = 0 /\ read = <<>> /\ stage = "build" BY DEF FieldsInit
<1>2. read \in Seq(FieldsRead) /\ Len(read) = 0 /\ DOMAIN read = {}
  <2>1. <<>> \in Seq(FieldsRead) /\ Len(<<>>) = 0 /\ DOMAIN <<>> = {} BY EmptySeq
  <2> QED BY <1>1, <2>1, Zenon
<1>3. FieldSizes \subseteq Nat /\ TextSizes \subseteq Nat BY FieldAssumption
<1>4. SizesOK
  <2>1. CASE msgID \in Texts \union {"LEAVE_ROOM"}
    <3>1. PICK n \in Nat : sizes = <<n>>
      BY <1>3, <2>1 DEF FieldsInit, Texts, Answers, Credentials
    <3>2. sizes \in Seq(Nat) /\ Len(sizes) = 1 BY <3>1, OneSize
    <3> QED BY <2>1, <3>2 DEF SizesOK
  <2>2. CASE msgID \in Credentials \union {"JOIN_ROOM", "VALIDATE_SERVER"}
    <3>1. \E m \in Nat, n \in Nat : sizes = <<m, n>>
      BY <1>3, <2>2 DEF FieldsInit, Texts, Answers, Credentials
    <3>2. PICK m \in Nat, n \in Nat : sizes = <<m, n>> BY <3>1
    <3>3. sizes \in Seq(Nat) /\ Len(sizes) = 2 BY <3>2, TwoSizes
    <3>4. Width = 1 BY <2>2 DEF Width, Texts, Answers, Credentials
    <3> QED BY <2>2, <3>3, <3>4 DEF SizesOK
  <2>3. msgID \in Texts \union {"LEAVE_ROOM"} \union Credentials
                  \union {"JOIN_ROOM", "VALIDATE_SERVER"}
    BY DEF FieldsInit, Texts, Answers, Credentials
  <2> QED BY <2>1, <2>2, <2>3
<1>5. Len(sizes) \in {1, 2} BY <1>4, Layout
<1>6. Len(read) <= Len(sizes) BY <1>2, <1>5
<1> QED BY <1>1, <1>2, <1>4, <1>6 DEF FieldInv

LEMMA FieldsAre ==
  ASSUME SizesOK
  PROVE  /\ 1 \in Fields
         /\ Len(sizes) = 1 => Fields = {1}
         /\ Len(sizes) = 2 => Fields = {1, 2}
         /\ Len(sizes) = 1 \/ Len(sizes) = 2
<1>1. Len(sizes) \in {1, 2} /\ Fields = 1..Len(sizes) BY Layout
<1>2. 1..1 = {1} /\ 1..2 = {1, 2} OBVIOUS
<1> QED BY <1>1, <1>2

\* A message whose lengths are not negative holds all of its fields.
LEMMA NoneNegative ==
  ASSUME SizesOK, \A i \in Fields : Narrowed(i) >= 0
  PROVE  /\ Summed \in Int /\ Summed >= 6
         /\ \A i \in Fields : /\ Place(i) \in Nat /\ Place(i) < Summed
                              /\ Place(i) + Width + Written(i) <= Summed
<1>1. /\ Width \in {1, 2} /\ Len(sizes) \in {1, 2} /\ Fields = 1..Len(sizes)
      /\ \A i \in Fields : Narrowed(i) \in Int /\ Written(i) = Narrowed(i)
      /\ Place(1) = 5
      /\ Len(sizes) = 2 => Place(2) = 5 + (Width + Written(1))
      /\ Len(sizes) = 1 => Summed = 5 + (Width + Narrowed(1))
      /\ Len(sizes) = 2 => Summed = 5 + ((Width + Narrowed(1)) + (Width + Narrowed(2)))
  BY Layout
<1>2. PICK wd \in Nat : wd = Width /\ wd >= 1 BY <1>1
<1>3. PICK a \in Nat : a = Narrowed(1) /\ a = Written(1)
  <2>1. 1 \in Fields BY FieldsAre
  <2> QED BY <1>1, <2>1
<1>4. CASE Len(sizes) = 1
  <2>1. Fields = {1}
    <3>1. Fields = 1..1 BY <1>1, <1>4
    <3> QED BY <3>1
  <2>2. Summed = 5 + (wd + a) /\ Place(1) = 5 BY <1>1, <1>2, <1>3, <1>4
  <2> QED BY <1>2, <1>3, <2>1, <2>2
<1>5. CASE Len(sizes) = 2
  <2>1. Fields = {1, 2}
    <3>1. Fields = 1..2 BY <1>1, <1>5
    <3> QED BY <3>1
  <2>2. PICK b \in Nat : b = Narrowed(2) /\ b = Written(2) BY <1>1, <2>1
  <2>3. /\ Summed = 5 + ((wd + a) + (wd + b)) /\ Place(1) = 5 /\ Place(2) = 5 + (wd + a)
    BY <1>1, <1>2, <1>3, <1>5, <2>2
  <2> QED BY <1>2, <1>3, <2>1, <2>2, <2>3
<1> QED BY <1>1, <1>4, <1>5

LEMMA SummedType == ASSUME SizesOK PROVE Summed \in Int
<1>1. /\ Width \in {1, 2} /\ Len(sizes) \in {1, 2} /\ Fields = 1..Len(sizes)
      /\ \A i \in Fields : Narrowed(i) \in Int
      /\ Len(sizes) = 1 => Summed = 5 + (Width + Narrowed(1))
      /\ Len(sizes) = 2 => Summed = 5 + ((Width + Narrowed(1)) + (Width + Narrowed(2)))
  BY Layout
<1>2. Width \in Int BY <1>1
<1>3. 1 \in Fields /\ (Len(sizes) = 2 => 2 \in Fields) BY FieldsAre
<1>4. Narrowed(1) \in Int /\ (Len(sizes) = 2 => Narrowed(2) \in Int) BY <1>1, <1>3
<1> QED BY <1>1, <1>2, <1>4

\* What was read stays what it is while the message stays the same.
LEMMA FieldsStay ==
  ASSUME msgID' = msgID, sizes' = sizes, messageLength' = messageLength,
         NEW i, FieldOK(i), read'[i] = read[i]
  PROVE  FieldOK(i)'
<1>1. /\ Width' = Width /\ Place(i)' = Place(i) /\ Written(i)' = Written(i)
      /\ Narrowed(1)' = Narrowed(1)
  BY SameLayout
<1> QED BY <1>1 DEF FieldOK

LEMMA SendKeeps == ASSUME FieldInv, SendMessage PROVE FieldInv'
<1>1. /\ msgID' = msgID /\ sizes' = sizes /\ readIndex' = readIndex /\ read' = read
      /\ messageLength' = Summed /\ stage = "build"
      /\ stage' = IF Summed < 0 THEN "thrown" ELSE IF Summed < 4 THEN "overrun" ELSE "sent"
  BY DEF SendMessage
<1>2. SizesOK /\ Len(read) = 0 /\ readIndex \in Nat /\ read \in Seq(FieldsRead)
  BY <1>1 DEF FieldInv
<1>3. SizesOK' /\ Summed' = Summed /\ Fields' = Fields /\ \A i : Narrowed(i)' = Narrowed(i)
  BY <1>1, <1>2, SameLayout
<1>4. Summed \in Int BY <1>2, SummedType
<1>5. DOMAIN read = {}
  <2>1. DOMAIN read = 1..Len(read) BY <1>2, LenProperties
  <2> QED BY <1>2, <2>1
<1>6. stage' = "overrun" => \E i \in Fields : Narrowed(i) < 0
  <2> SUFFICES ASSUME ~(\E i \in Fields : Narrowed(i) < 0) PROVE stage' # "overrun" OBVIOUS
  <2>1. \A i \in Fields : Narrowed(i) >= 0
    <3>1. \A i \in Fields : Narrowed(i) \in Int BY <1>2, Layout
    <3> QED BY <3>1
  <2>2. Summed >= 6 BY <1>2, <2>1, NoneNegative
  <2>3. ~(Summed < 0) /\ ~(Summed < 4) BY <1>4, <2>2
  <2> QED BY <1>1, <2>3
<1>7. stage' \in {"thrown", "overrun", "sent"} BY <1>1
<1>8. Len(read') = 0 /\ Len(read') <= Len(sizes')
  <2>1. Len(sizes) \in {1, 2} BY <1>2, Layout
  <2> QED BY <1>1, <1>2, <2>1
<1> QED BY <1>1, <1>2, <1>3, <1>4, <1>5, <1>6, <1>7, <1>8 DEF FieldInv

LEMMA ReceiveKeeps == ASSUME FieldInv, Receive PROVE FieldInv'
<1>1. /\ msgID' = msgID /\ sizes' = sizes /\ messageLength' = messageLength /\ read' = read
      /\ stage = "sent"
      /\ \/ messageLength >= 5 /\ stage' = "treat" /\ readIndex' = 5
         \/ stage' = "lost" /\ readIndex' = readIndex
  <2>1. Receive
        => \/ messageLength >= 5 /\ stage' = "treat" /\ readIndex' = 5
           \/ stage' = "lost" /\ readIndex' = readIndex
    BY DEF Receive
  <2> QED BY <2>1 DEF Receive
<1>2. SizesOK /\ Len(read) = 0 /\ readIndex \in Nat /\ read \in Seq(FieldsRead)
      /\ messageLength = Summed /\ messageLength \in Int
  BY <1>1 DEF FieldInv
<1>3. SizesOK' /\ Summed' = Summed /\ \A i : Place(i)' = Place(i) BY <1>1, <1>2, SameLayout
<1>4. DOMAIN read = {}
  <2>1. DOMAIN read = 1..Len(read) BY <1>2, LenProperties
  <2> QED BY <1>2, <2>1
<1>5. Len(read') = 0 /\ Len(read') < Len(sizes') /\ Len(read') <= Len(sizes')
  <2>1. Len(sizes) \in {1, 2} BY <1>2, Layout
  <2> QED BY <1>1, <1>2, <2>1
<1>6. stage' = "treat" => AtField(Len(read) + 1)'
  <2> SUFFICES ASSUME stage' = "treat" PROVE AtField(Len(read) + 1)' OBVIOUS
  <2>1. messageLength >= 5 /\ readIndex' = 5 BY <1>1
  <2>2. Len(read') + 1 = 1 BY <1>5
  <2>3. Place(1) = 5 BY <1>2, Layout
  <2>4. Place(1)' = 5 BY <1>3, <2>3
  <2>5. PICK i : i = 1 OBVIOUS
  <2>6. AtField(i)' BY <1>1, <1>2, <1>3, <2>1, <2>4, <2>5 DEF AtField
  <2> QED BY <2>2, <2>5, <2>6 DEF AtField, Place
<1>7. readIndex' \in Nat /\ stage' \in {"treat", "lost"} BY <1>1, <1>2
<1> QED BY <1>1, <1>2, <1>3, <1>4, <1>5, <1>6, <1>7 DEF FieldInv

\* One field read.
LEMMA ReadKeeps == ASSUME FieldInv, ReadField PROVE FieldInv'
<1> DEFINE length == LengthAt(readIndex)
           n == IF length > 0 THEN length ELSE 0
           first == readIndex + Width
           line == [at |-> first, n |-> n]
<1>1. /\ msgID' = msgID /\ sizes' = sizes /\ messageLength' = messageLength
      /\ stage = "treat"
      /\ \/ /\ Readable(first, n) /\ read' = Append(read, line) /\ readIndex' = first + n
            /\ stage' = IF Len(read') = Len(sizes) THEN "treated" ELSE "treat"
         \/ ~Readable(first, n) /\ stage' = "overrun" /\ readIndex' = readIndex /\ read' = read
  <2>1. ReadField
        => \/ /\ Readable(first, n) /\ read' = Append(read, line) /\ readIndex' = first + n
              /\ stage' = IF Len(read') = Len(sizes) THEN "treated" ELSE "treat"
           \/ ~Readable(first, n) /\ stage' = "overrun" /\ readIndex' = readIndex /\ read' = read
    BY DEF ReadField
  <2> HIDE DEF length, n, first, line
  <2> QED BY <2>1 DEF ReadField
<1>2. /\ SizesOK /\ readIndex \in Nat /\ read \in Seq(FieldsRead) /\ messageLength \in Int
      /\ messageLength = Summed /\ Len(read) < Len(sizes) /\ AtField(Len(read) + 1)
      /\ \A j \in DOMAIN read : FieldOK(j)
  BY <1>1 DEF FieldInv
<1>3. PICK i : i = Len(read) + 1 OBVIOUS
<1>4. /\ Width \in {1, 2} /\ Place(1) = 5 /\ Written(1) \in Nat
      /\ Len(sizes) = 2 => Place(2) = 5 + (Width + Written(1)) /\ Width = 1
      /\ \A j \in Fields : Narrowed(j) \in Int
      /\ \A j \in Fields : Written(j) \in Nat /\ (Narrowed(j) >= 0 => Written(j) = Narrowed(j))
  BY <1>2, Layout, FieldsAre DEF SizesOK
<1>5. Len(read) \in Nat /\ DOMAIN read = 1..Len(read) BY <1>2, LenProperties
<1>6. /\ i \in Fields /\ i \in {1, 2}
      /\ Width = 2 => i = 1
      /\ i = 2 => Len(sizes) = 2
      /\ i # Len(sizes) => i = 1 /\ Len(sizes) = 2
  <2>1. CASE Len(sizes) = 1
    <3>1. i = 1 BY <1>2, <1>3, <1>5, <2>1
    <3> QED BY <1>2, <2>1, <3>1, FieldsAre
  <2>2. CASE Len(sizes) = 2
    <3>1. i = 1 \/ i = 2 BY <1>2, <1>3, <1>5, <2>2
    <3> QED BY <1>2, <1>4, <2>2, <3>1, FieldsAre
  <2> QED BY <1>2, <2>1, <2>2, FieldsAre
<1>7. /\ messageLength >= 5
      /\ i = 1 => readIndex = 5
      /\ readIndex = Place(i) \/ (readIndex >= messageLength /\ Place(i) >= messageLength)
  BY <1>2, <1>3 DEF AtField
<1>8. PICK len : len = length OBVIOUS
<1>9. n = (IF len > 0 THEN len ELSE 0) /\ first = readIndex + Width BY <1>8
<1> HIDE DEF length, n, first, line
<1>10. line = [at |-> first, n |-> n] BY DEF line
<1>11. Place(i) \in Nat
  <2>1. CASE i = 1 BY <1>4, <2>1
  <2>2. CASE i = 2
    <3>1. Place(2) = 5 + (1 + Written(1)) BY <1>4, <1>6, <2>2
    <3> QED BY <1>4, <2>2, <3>1
  <2> QED BY <1>6, <2>1, <2>2
\* What each of the ways of reading does.
<1> DEFINE Reads == /\ n \in Nat
                    /\ read'[i] = line => FieldOK(i)'
                    /\ (\A j \in Fields : Narrowed(j) >= 0) => first + n <= messageLength
                    /\ i = 1 /\ Len(sizes) = 2 /\ readIndex' = first + n
                       => readIndex' = Place(2)
                          \/ (readIndex' >= messageLength /\ Place(2) >= messageLength)
<1>12. /\ Width' = Width /\ \A j : Place(j)' = Place(j)
       /\ \A j : Written(j)' = Written(j)
       /\ \A j : Narrowed(j)' = Narrowed(j)
  BY <1>1, SameLayout
<1>13. ASSUME Width = 1 /\ Place(i) < messageLength PROVE Reads
  <2>1. readIndex = Place(i) BY <1>2, <1>7, <1>11, <1>13
  <2>2. len = Narrowed(i) BY <1>2, <1>6, <1>8, <1>13, <2>1, LengthAtField DEF length
  <2>3. n = Written(i) /\ n \in Nat BY <1>4, <1>6, <1>9, <2>2 DEF Written
  <2>4. first = Place(i) + 1 BY <1>9, <1>13, <2>1
  <2>5. read'[i] = line => FieldOK(i)'
    <3> SUFFICES ASSUME read'[i] = line PROVE FieldOK(i)' OBVIOUS
    <3>1. read'[i] = [at |-> Place(i) + 1, n |-> Written(i)] BY <1>10, <2>3, <2>4
    <3>2. Width' = 1 /\ Place(i)' = Place(i) /\ Written(i)' = Written(i) BY <1>12, <1>13
    <3> QED BY <3>1, <3>2 DEF FieldOK
  <2>6. ASSUME \A j \in Fields : Narrowed(j) >= 0 PROVE first + n <= messageLength
    <3>1. Place(i) + Width + Written(i) <= Summed BY <1>2, <1>6, <2>6, NoneNegative
    <3> QED BY <1>2, <1>13, <2>3, <2>4, <3>1
  <2>7. ASSUME i = 1, Len(sizes) = 2, readIndex' = first + n PROVE readIndex' = Place(2)
    <3>1. Place(2) = 5 + (1 + Written(1)) /\ Place(1) = 5 /\ Written(1) \in Nat
      BY <1>4, <1>13, <2>7
    <3>2. readIndex' = (5 + 1) + Written(1) BY <2>3, <2>4, <2>7, <3>1
    <3> QED BY <3>1, <3>2
  <2> QED BY <2>3, <2>5, <2>6, <2>7
<1>14. ASSUME Width = 1 /\ ~(Place(i) < messageLength) PROVE Reads
  <2>1. Place(i) >= messageLength /\ readIndex >= messageLength BY <1>2, <1>7, <1>11, <1>14
  <2>2. len = 0 BY <1>8, <1>14, <2>1, LengthBehind DEF length
  <2>3. n = 0 BY <1>9, <2>2
  <2>4. FieldOK(i)'
    <3>1. Width' = 1 /\ Place(i)' = Place(i) BY <1>12, <1>14
    <3>2. ~(Place(i) < messageLength') BY <1>1, <1>14
    <3> QED BY <3>1, <3>2 DEF FieldOK
  <2>5. ASSUME \A j \in Fields : Narrowed(j) >= 0 PROVE FALSE
    <3>1. Place(i) < Summed BY <1>2, <1>6, <2>5, NoneNegative
    <3> QED BY <1>2, <1>14, <3>1
  <2>6. ASSUME i = 1, Len(sizes) = 2, readIndex' = first + n
        PROVE  readIndex' >= messageLength /\ Place(2) >= messageLength
    <3>1. Place(2) = 5 + (1 + Written(1)) /\ Place(1) = 5 /\ Written(1) \in Nat
      BY <1>4, <1>14, <2>6
    <3>2. readIndex' = readIndex + 1 + 0 BY <1>9, <1>14, <2>3, <2>6
    <3>3. readIndex' >= messageLength BY <1>2, <2>1, <3>2
    <3>4. 5 >= messageLength BY <2>1, <2>6, <3>1
    <3> QED BY <1>2, <3>1, <3>3, <3>4
  <2> QED BY <2>3, <2>4, <2>5, <2>6
<1>15. ASSUME Width = 2 PROVE Reads
  <2>1. i = 1 /\ readIndex = 5 /\ Len(sizes) = 1 BY <1>2, <1>4, <1>6, <1>7, <1>15 DEF SizesOK
  <2>2. len \in Int /\ (Narrowed(1) >= 0 => len = Narrowed(1) \/ len < 0)
    BY <1>2, <1>8, <1>15, <2>1, LengthOfText DEF length
  <2>3. n \in Nat /\ (Narrowed(1) >= 0 => n \in {0, Narrowed(1)})
    BY <1>9, <2>2
  <2>4. first = 7 BY <1>9, <1>15, <2>1
  <2>5. read'[i] = line => FieldOK(i)'
    <3> SUFFICES ASSUME read'[i] = line PROVE FieldOK(i)' OBVIOUS
    <3>1. read'[i].at = 7 /\ read'[i].n = n BY <1>10, <2>4
    <3>2. Width' = 2 /\ Narrowed(1)' = Narrowed(1) BY <1>12, <1>15
    <3> QED BY <2>3, <3>1, <3>2 DEF FieldOK
  <2>6. ASSUME \A j \in Fields : Narrowed(j) >= 0 PROVE first + n <= messageLength
    <3>1. 1 \in Fields /\ Narrowed(1) >= 0 /\ Narrowed(1) \in Int /\ Written(1) = Narrowed(1)
      BY <1>4, <1>6, <2>1, <2>6
    <3>2. Place(1) + Width + Written(1) <= Summed BY <1>2, <2>6, <3>1, NoneNegative
    <3>3. 5 + 2 + Narrowed(1) <= messageLength BY <1>2, <1>4, <1>15, <3>1, <3>2
    <3> QED BY <1>2, <2>3, <2>4, <3>1, <3>3
  <2> QED BY <2>1, <2>3, <2>5, <2>6
<1>16. Reads BY <1>4, <1>13, <1>14, <1>15
<1>17. SizesOK' /\ Summed' = Summed /\ Fields' = Fields /\ \A j : Narrowed(j)' = Narrowed(j)
  BY <1>1, <1>2, SameLayout
<1> HIDE DEF Reads
<1>18. first \in Nat /\ n \in Nat
  <2>1. n \in Nat BY <1>16 DEF Reads
  <2> QED BY <1>2, <1>4, <1>9, <2>1
<1>19. CASE Readable(first, n) /\ read' = Append(read, line) /\ readIndex' = first + n
            /\ stage' = (IF Len(read') = Len(sizes) THEN "treated" ELSE "treat")
  <2>1. line \in FieldsRead BY <1>10, <1>18 DEF FieldsRead
  <2>2. /\ read' \in Seq(FieldsRead) /\ Len(read') = i /\ DOMAIN read' = 1..i
        /\ \A j \in DOMAIN read : read'[j] = read[j]
        /\ read'[i] = line
    BY <1>2, <1>3, <1>5, <1>19, <2>1, AppendProperties, LenProperties
  <2>3. \A j \in DOMAIN read' : FieldOK(j)'
    <3> SUFFICES ASSUME NEW j \in DOMAIN read' PROVE FieldOK(j)' OBVIOUS
    <3>1. CASE j = i BY <1>16, <2>2, <3>1 DEF Reads
    <3>2. CASE j # i
      <4>1. j \in DOMAIN read BY <1>3, <1>5, <2>2, <3>2
      <4>2. FieldOK(j) /\ read'[j] = read[j] BY <1>2, <2>2, <4>1
      <4> QED BY <1>1, <4>2, FieldsStay
    <3> QED BY <3>1, <3>2
  <2>4. Len(read') <= Len(sizes')
    <3>1. i <= Len(sizes) BY <1>2, <1>3, <1>5, <1>6
    <3> QED BY <1>1, <2>2, <3>1
  <2>5. readIndex' \in Nat /\ messageLength' \in Int BY <1>1, <1>2, <1>18, <1>19
  <2>6. CASE i = Len(sizes)
    <3>1. stage' = "treated" /\ Len(read') = Len(sizes') BY <1>1, <1>19, <2>2, <2>6
    <3> QED BY <1>1, <1>2, <1>17, <2>2, <2>3, <2>4, <2>5, <3>1 DEF FieldInv
  <2>7. CASE i # Len(sizes)
    <3>1. stage' = "treat" BY <1>19, <2>2, <2>7
    <3>2. i = 1 /\ Len(sizes) = 2 BY <1>6, <2>7
    <3>3. PICK k : k = 2 OBVIOUS
    <3>4. /\ readIndex' = Place(k)
             \/ (readIndex' >= messageLength /\ Place(k) >= messageLength)
      BY <1>16, <1>19, <3>2, <3>3 DEF Reads
    <3>5. AtField(k)' BY <1>1, <1>2, <1>7, <1>12, <1>17, <3>3, <3>4 DEF AtField
    <3>6. Len(read') + 1 = k /\ Len(read') < Len(sizes') BY <1>1, <2>2, <3>2, <3>3
    <3>7. AtField(Len(read) + 1)' BY <3>5, <3>6 DEF AtField, Place
    <3> QED BY <1>1, <1>2, <1>17, <2>2, <2>3, <2>4, <2>5, <3>1, <3>6, <3>7 DEF FieldInv
  <2> QED BY <2>6, <2>7
<1>20. CASE ~Readable(first, n) /\ stage' = "overrun" /\ readIndex' = readIndex /\ read' = read
  <2>1. \E j \in Fields : Narrowed(j) < 0
    <3> SUFFICES ASSUME ~(\E j \in Fields : Narrowed(j) < 0) PROVE FALSE OBVIOUS
    <3>1. \A j \in Fields : Narrowed(j) >= 0 BY <1>4
    <3>2. first + n <= messageLength BY <1>16, <3>1 DEF Reads
    <3>3. first + n <= messageLength + 1 BY <1>2, <1>18, <3>2
    <3> QED BY <1>20, <3>3 DEF Readable
  <2>2. \E j \in Fields' : Narrowed(j)' < 0 BY <1>17, <2>1
  <2>3. \A j \in DOMAIN read' : FieldOK(j)'
    <3> SUFFICES ASSUME NEW j \in DOMAIN read' PROVE FieldOK(j)' OBVIOUS
    <3>1. FieldOK(j) /\ read'[j] = read[j] BY <1>2, <1>20
    <3> QED BY <1>1, <3>1, FieldsStay
  <2>4. Len(read') <= Len(sizes') BY <1>1, <1>2, <1>4, <1>5, <1>20, FieldsAre
  <2> QED BY <1>1, <1>2, <1>17, <1>20, <2>2, <2>3, <2>4 DEF FieldInv
<1> QED BY <1>1, <1>19, <1>20 DEF line

LEMMA FieldsStep == FieldInv /\ [FieldsNext]_fieldVars => FieldInv'
<1> SUFFICES ASSUME FieldInv, [FieldsNext]_fieldVars PROVE FieldInv' OBVIOUS
<1>1. CASE SendMessage BY <1>1, SendKeeps
<1>2. CASE Receive BY <1>2, ReceiveKeeps
<1>3. CASE ReadField BY <1>3, ReadKeeps
<1>4. CASE UNCHANGED fieldVars
  <2>1. /\ msgID' = msgID /\ sizes' = sizes /\ messageLength' = messageLength
        /\ readIndex' = readIndex /\ read' = read /\ stage' = stage
    BY <1>4 DEF fieldVars
  <2>2. /\ SizesOK' /\ Summed' = Summed /\ Fields' = Fields
        /\ \A j : Narrowed(j)' = Narrowed(j)
        /\ \A j : Place(j)' = Place(j)
    BY <2>1, SameLayout DEF FieldInv
  <2>3. \A j \in DOMAIN read' : FieldOK(j)'
    <3> SUFFICES ASSUME NEW j \in DOMAIN read' PROVE FieldOK(j)' OBVIOUS
    <3>1. FieldOK(j) /\ read'[j] = read[j] BY <2>1 DEF FieldInv
    <3> QED BY <2>1, <3>1, FieldsStay
  <2>4. AtField(Len(read) + 1)' <=> AtField(Len(read) + 1)
    <3>1. PICK k : k = Len(read) + 1 OBVIOUS
    <3>2. AtField(k)' <=> AtField(k) BY <2>1, <2>2 DEF AtField
    <3>3. AtField(Len(read) + 1)' <=> AtField(k)' BY <2>1, <3>1 DEF AtField, Place
    <3> QED BY <3>1, <3>2, <3>3
  <2> QED BY <2>1, <2>2, <2>3, <2>4 DEF FieldInv
<1> QED BY <1>1, <1>2, <1>3, <1>4 DEF FieldsNext

\* Theorem: the invariant of a message built by sendMessage and read by treatMessage,
\* for every size of its fields.
THEOREM FieldsInvariant == FieldsSpec => []FieldInv
<1> QED BY FieldsStart, FieldsStep, PTL DEF FieldsSpec

\* The types follow from the invariant of a message.
LEMMA FieldsTypes == FieldInv => FieldsTypeOK
<1> SUFFICES ASSUME FieldInv PROVE FieldsTypeOK OBVIOUS
<1>1. SizesOK /\ messageLength \in Int BY DEF FieldInv
<1>2. /\ Width \in {1, 2} /\ (Len(sizes) = 1 \/ Len(sizes) = 2)
      /\ 1 \in Fields /\ (Len(sizes) = 2 => 2 \in Fields /\ Width = 1)
      /\ \A i \in Fields : IsShort(Narrowed(i)) /\ (Width = 1 => IsChar(Narrowed(i)))
      /\ Len(sizes) = 1 => Summed = 5 + (Width + Narrowed(1))
      /\ Len(sizes) = 2 => Summed = 5 + ((Width + Narrowed(1)) + (Width + Narrowed(2)))
  BY <1>1, Layout, FieldsAre DEF SizesOK
<1>3. messageLength = 0 \/ messageLength = Summed BY DEF FieldInv
<1>4. ASSUME Width = 2 PROVE messageLength <= 65542
  <2>1. Len(sizes) = 1 BY <1>1, <1>4 DEF SizesOK
  <2>2. IsShort(Narrowed(1)) /\ Summed = 5 + (2 + Narrowed(1)) BY <1>2, <1>4, <2>1
  <2>3. Summed <= 65542 BY <2>2 DEF IsShort
  <2> QED BY <1>3, <2>3
<1>5. ASSUME Width = 1, Len(sizes) = 1 PROVE messageLength <= 262
  <2>1. IsChar(Narrowed(1)) /\ Summed = 5 + (1 + Narrowed(1)) BY <1>2, <1>5
  <2>2. Summed <= 262 BY <2>1 DEF IsChar
  <2> QED BY <1>3, <2>2
<1>6. ASSUME Width = 1, Len(sizes) = 2 PROVE messageLength <= 519
  <2>1. /\ IsChar(Narrowed(1)) /\ IsChar(Narrowed(2))
        /\ Summed = 5 + ((1 + Narrowed(1)) + (1 + Narrowed(2)))
    BY <1>2, <1>6
  <2>2. Summed <= 519 BY <2>1 DEF IsChar
  <2> QED BY <1>3, <2>2
<1>7. messageLength <= IF Width = 2 THEN 65542 ELSE IF Len(sizes) = 1 THEN 262 ELSE 519
  BY <1>2, <1>4, <1>5, <1>6
<1> QED BY <1>7 DEF FieldInv, SizesOK, FieldsTypeOK

\* Theorem: the types of the message, and that its length never comes near the limits
\* that sendMessage checks.
THEOREM FieldsTypeCorrect == FieldsSpec => []FieldsTypeOK
<1> QED BY FieldsTypes, FieldsInvariant, PTL

\* Theorem: whatever its fields are, a message that sendMessage builds is one that two bytes
\* can count, and its length stays far below the limits of cConnection.cpp:91-96. It is what
\* ShortPackets supposes of the packets that readSocket receives.
THEOREM PacketsAreShort == FieldsSpec => [](messageLength <= 32774)
<1>1. FieldInv => messageLength <= 32774
  <2> SUFFICES ASSUME FieldInv PROVE messageLength <= 32774 OBVIOUS
  <2>1. SizesOK BY DEF FieldInv
  <2>2. /\ Width \in {1, 2} /\ (Len(sizes) = 1 \/ Len(sizes) = 2)
        /\ 1 \in Fields /\ (Len(sizes) = 2 => 2 \in Fields /\ Width = 1)
        /\ \A i \in Fields : IsShort(Narrowed(i)) /\ (Width = 1 => IsChar(Narrowed(i)))
        /\ Len(sizes) = 1 => Summed = 5 + (Width + Narrowed(1))
        /\ Len(sizes) = 2 => Summed = 5 + ((Width + Narrowed(1)) + (Width + Narrowed(2)))
    BY <2>1, Layout, FieldsAre DEF SizesOK
  <2>3. messageLength = 0 \/ messageLength = Summed BY DEF FieldInv
  <2>4. ASSUME Len(sizes) = 1 PROVE messageLength <= 32774
    <3>1. IsShort(Narrowed(1)) /\ Summed = 5 + (Width + Narrowed(1)) BY <2>2, <2>4
    <3>2. Summed <= 32774 BY <2>2, <3>1 DEF IsShort
    <3> QED BY <2>3, <3>2
  <2>5. ASSUME Len(sizes) = 2 PROVE messageLength <= 32774
    <3>1. /\ IsChar(Narrowed(1)) /\ IsChar(Narrowed(2)) /\ Width = 1
          /\ Summed = 5 + ((Width + Narrowed(1)) + (Width + Narrowed(2)))
      BY <2>2, <2>5
    <3>2. Summed <= 32774 BY <3>1 DEF IsChar
    <3> QED BY <2>3, <3>2
  <2> QED BY <2>2, <2>4, <2>5
<1> QED BY <1>1, FieldsInvariant, PTL

\* Theorem: a message whose lengths the narrowing did not change is read as it was
\* written, if it is treated; only a text may be read as an empty one.
THEOREM ReadAsWritten == FieldsSpec => []FieldsWhole
<1>1. FieldInv => FieldsWhole
  <2> SUFFICES ASSUME FieldInv, stage = "treated", \A i \in Fields : Narrowed(i) = sizes[i],
                      NEW i \in Fields
               PROVE  /\ read[i].at = Place(i) + Width
                      /\ read[i].n = sizes[i] \/ (Width = 2 /\ read[i].n = 0)
                      /\ read[i].at + read[i].n <= messageLength
    BY DEF FieldsWhole
  <2>1. SizesOK /\ messageLength = Summed /\ Len(read) = Len(sizes) /\ read \in Seq(FieldsRead)
    BY DEF FieldInv
  <2>2. /\ \A j \in Fields : sizes[j] \in Nat /\ Narrowed(j) \in Int
        /\ Fields = 1..Len(sizes) /\ Width \in {1, 2} /\ Place(1) = 5
        /\ \A j \in Fields : Narrowed(j) >= 0 => Written(j) = Narrowed(j)
    BY <2>1, Layout
  <2>3. \A j \in Fields : Narrowed(j) >= 0
    <3>1. \A j \in Fields : Narrowed(j) \in Nat BY <2>2
    <3> QED BY <3>1
  <2>4. /\ Place(i) \in Nat /\ Place(i) < Summed /\ Place(i) + Width + Written(i) <= Summed
        /\ Summed \in Int
    BY <2>1, <2>3, NoneNegative
  <2>5. i \in DOMAIN read
    <3>1. DOMAIN read = 1..Len(read) BY <2>1, LenProperties
    <3> QED BY <2>1, <2>2, <3>1
  <2>6. FieldOK(i) BY <2>5 DEF FieldInv
  <2>7. CASE Width = 1
    <3>1. read[i] = [at |-> Place(i) + 1, n |-> Written(i)] BY <2>1, <2>4, <2>6, <2>7 DEF FieldOK
    <3>2. read[i].at = Place(i) + Width /\ read[i].n = sizes[i] /\ read[i].n = Written(i)
      BY <2>2, <2>3, <2>7, <3>1
    <3> QED BY <2>1, <2>4, <3>2
  <2>8. CASE Width = 2
    <3>1. Len(sizes) = 1 /\ Fields = {1} BY <2>1, <2>8, FieldsAre DEF SizesOK
    <3>2. i = 1 /\ Narrowed(1) >= 0 /\ Narrowed(1) = sizes[1] /\ sizes[1] \in Nat
          /\ Written(1) = Narrowed(1)
      BY <2>2, <2>3, <3>1
    <3>3. read[1].at = 7 /\ read[1].n \in {0, Narrowed(1)} BY <2>6, <2>8, <3>2 DEF FieldOK
    <3>4. 5 + 2 + sizes[1] <= messageLength BY <2>1, <2>2, <2>4, <2>8, <3>2
    <3>5. read[1].at + read[1].n <= messageLength BY <2>1, <2>4, <3>2, <3>3, <3>4
    <3> QED BY <2>2, <2>8, <3>2, <3>3, <3>5
  <2> QED BY <2>2, <2>7, <2>8
<1> QED BY <1>1, FieldsInvariant, PTL

\* Theorem: a length that was narrowed cuts off its own field and the end of the packet,
\* but never puts the reader out of step.
THEOREM NeverOutOfPlace == FieldsSpec => []FieldsInPlace
<1>1. FieldInv => FieldsInPlace BY DEF FieldInv, FieldOK, FieldsInPlace
<1> QED BY <1>1, FieldsInvariant, PTL

\* Theorem: the client writes, and the server reads, outside of a string only if a
\* length was narrowed to a negative one.
THEOREM OutsideIfNegative == FieldsSpec => []OutsideOnlyIfNegative
<1>1. FieldInv => OutsideOnlyIfNegative BY DEF FieldInv, OutsideOnlyIfNegative
<1> QED BY <1>1, FieldsInvariant, PTL

-----------------------------------------------------------------------------
\* readSocket: the bytes.

\* Packets of at most what two bytes can count, as those of the two ends are
\* (PacketsAreShort).
ShortPackets == \A n \in Lengths : n < 65536

\* The receive holds the packets' bytes, up to where it ends.
StreamOK ==
  /\ lengths \in Seq(Lengths) /\ Len(lengths) > 0
  /\ bytes \in Seq(Byte) /\ Received <= TotalLength(lengths)
  /\ \A i \in DOMAIN lengths : \A d \in 1..lengths[i] :
       Start(lengths, i) + d <= Received =>
         bytes[Start(lengths, i) + d] = WireOf(lengths[i])[d]

\* A packet is a sequence of bytes.
LEMMA WireBytes == ASSUME NEW n \in Nat PROVE WireOf(n) \in Seq(Byte) /\ Len(WireOf(n)) = n
<1>1. \A i \in 1..n : WireOf(n)[i] = IF i <= 4 THEN Bytes32(n)[i] ELSE IF i = 5 THEN 1 ELSE 97
  BY DEF WireOf, JOIN_ROOM
<1>2. ASSUME NEW i \in 1..n PROVE WireOf(n)[i] \in Byte
  <2>1. CASE i <= 4
    <3>1. i \in 1..4 /\ n \in Int BY <2>1
    <3>2. Bytes32(n)[i] \in Byte BY <3>1, LengthBytes
    <3> QED BY <1>1, <2>1, <3>2
  <2>2. CASE ~(i <= 4)
    <3>1. WireOf(n)[i] \in {1, 97} BY <1>1, <2>2
    <3> QED BY <3>1 DEF Byte
  <2> QED BY <2>1, <2>2
<1>3. WireOf(n) = [i \in 1..n |-> WireOf(n)[i]] BY DEF WireOf
<1>4. WireOf(n) \in [1..n -> Byte] BY <1>2, <1>3
<1> QED BY <1>4

\* The receive as it is at first.
LEMMA StreamBegins == Init => StreamOK
<1> SUFFICES ASSUME Init PROVE StreamOK OBVIOUS
<1>1. PICK k \in 1..MaxPackets : \E lens \in [1..k -> Lengths], cut \in Cuts :
        /\ lengths = lens /\ cut < lens[k]
        /\ bytes = SubSeq(Stream(lens), 1, Len(Stream(lens)) - cut)
  BY DEF Init
<1>2. PICK cut \in Cuts :
        /\ lengths \in [1..k -> Lengths]
        /\ bytes = SubSeq(Stream(lengths), 1, Len(Stream(lengths)) - cut)
  BY <1>1
<1>3. Lengths \subseteq Nat /\ Lengths \subseteq Int /\ MaxPackets \in Nat /\ cut \in Nat
  BY FramingAssumption
<1>4. k \in Nat /\ k > 0 BY <1>3
<1>5. lengths \in Seq(Lengths) /\ lengths \in Seq(Int) /\ Len(lengths) = k
      /\ DOMAIN lengths = 1..k
  <2>1. lengths \in [1..k -> Int]
    <3>1. \A i \in 1..k : lengths[i] \in Int BY <1>2, <1>3
    <3> QED BY <1>2, <3>1
  <2>2. \A S : lengths \in [1..k -> S] => lengths \in Seq(S) /\ Len(lengths) = k BY <1>4
  <2> QED BY <1>2, <2>1, <2>2
<1> DEFINE s == [i \in DOMAIN lengths |-> WireOf(lengths[i])]
<1>6. \A i \in 1..k : lengths[i] \in Nat BY <1>2, <1>3
<1>7. \A i \in 1..k : s[i] = WireOf(lengths[i]) BY <1>5
<1>8. \A i \in 1..k : s[i] \in Seq(Byte) /\ Len(s[i]) = lengths[i]
  <2> HIDE DEF s
  <2> QED BY <1>6, <1>7, WireBytes
<1>9. s \in Seq(Seq(Byte)) /\ Len(s) = k
  <2>1. s = [i \in 1..k |-> s[i]] BY <1>5
  <2> HIDE DEF s
  <2>2. s \in [1..k -> Seq(Byte)] BY <1>8, <2>1
  <2> QED BY <1>4, <2>2
<1>10. Stream(lengths) = FlattenSeq(s) BY DEF Stream
<1> HIDE DEF s
<1>11. /\ FlattenSeq(s) \in Seq(Byte) /\ Len(FlattenSeq(s)) = TotalLength(lengths)
       /\ \A j \in 1..Len(s) : \A d \in 1..lengths[j] :
            FlattenSeq(s)[Start(lengths, j) + d] = s[j][d]
  <2>1. Len(s) > 0 /\ Len(lengths) = Len(s) /\ \A i \in 1..Len(s) : Len(s[i]) = lengths[i]
    BY <1>4, <1>5, <1>8, <1>9
  <2> QED BY <1>5, <1>9, <2>1, JoinsHold
<1>12. PICK all \in Seq(Byte) : all = FlattenSeq(s) BY <1>11
<1>13. PICK n \in Int : n = Len(all) - cut
  <2>1. Len(all) \in Int BY LenProperties
  <2> QED BY <1>3, <2>1
<1>14. bytes = SubSeq(all, 1, n) BY <1>2, <1>10, <1>12, <1>13
<1>15. /\ bytes \in Seq(Byte)
       /\ Len(bytes) = IF 1 <= n THEN n - 1 + 1 ELSE 0
       /\ \A i \in 1 .. n - 1 + 1 : bytes[i] = all[1 + i - 1]
  <2>1. Len(all) \in Nat /\ \A i \in 1..Len(all) : all[i] \in Byte
    BY LenProperties, ElementOfSeq
  <2>2. \A i \in 1..n : i \in 1..Len(all) BY <1>3, <1>13, <2>1
  <2>3. \A i \in 1..n : all[i] \in Byte BY <2>1, <2>2
  <2> QED BY <1>14, <2>3, SubSeqProperties
<1>16. Len(all) \in Nat /\ Len(all) = TotalLength(lengths) BY <1>11, <1>12, LenProperties
<1>17. Received <= TotalLength(lengths) /\ Received \in Nat
  <2>1. CASE 1 <= n BY <1>3, <1>13, <1>15, <1>16, <2>1 DEF Received
  <2>2. CASE ~(1 <= n) BY <1>15, <1>16, <2>2 DEF Received
  <2> QED BY <2>1, <2>2
<1>18. \A i \in 1..Received : bytes[i] = all[i]
  <2> SUFFICES ASSUME NEW i \in 1..Received PROVE bytes[i] = all[i] OBVIOUS
  <2>1. 1 <= n
    <3>1. CASE 1 <= n BY <3>1
    <3>2. CASE ~(1 <= n)
      <4>1. Received = 0 BY <1>15, <3>2 DEF Received
      <4> QED BY <4>1
    <3> QED BY <3>1, <3>2
  <2>2. Received = n - 1 + 1 BY <1>15, <2>1 DEF Received
  <2>3. i \in 1 .. n - 1 + 1 /\ 1 + i - 1 = i BY <2>2
  <2> QED BY <1>15, <2>3
<1>19. \A j \in 1..Len(lengths) + 1 : Start(lengths, j) \in Int /\ Start(lengths, j) >= 0
  <2>1. \A i \in 1..Len(lengths) : lengths[i] >= 0 BY <1>5, <1>6
  <2>2. \A j \in 1..Len(lengths) + 1 : Start(lengths, j) \in Int BY <1>5, Starts
  <2>3. ASSUME NEW j \in 1..Len(lengths) + 1 PROVE Start(lengths, j) >= 0
    <3>1. j <= j OBVIOUS
    <3> QED BY <1>5, <2>1, <3>1, StartsRise
  <2> QED BY <2>2, <2>3
<1>20. ASSUME NEW j \in DOMAIN lengths, NEW d \in 1..lengths[j],
              Start(lengths, j) + d <= Received
       PROVE  bytes[Start(lengths, j) + d] = WireOf(lengths[j])[d]
  <2>1. j \in 1..Len(s) /\ j \in 1..Len(lengths) + 1 /\ j \in 1..k BY <1>4, <1>5, <1>9
  <2>2. all[Start(lengths, j) + d] = WireOf(lengths[j])[d] BY <1>7, <1>11, <1>12, <2>1
  <2>3. PICK a \in Int : a = Start(lengths, j) /\ a >= 0 BY <1>19, <2>1
  <2>4. PICK m \in Nat : m = lengths[j] BY <1>6, <2>1
  <2>5. a + d <= Received /\ d \in 1..m BY <1>20, <2>3, <2>4
  <2>6. a + d \in 1..Received BY <1>17, <2>3, <2>5
  <2> QED BY <1>18, <2>2, <2>3, <2>6
<1> QED BY <1>4, <1>5, <1>15, <1>17, <1>20 DEF StreamOK

\* A length that two bytes can count, and the two bytes.
TwoByteLength(n) == n \in Nat /\ n >= 7 /\ n < 65536

TwoBytes(n, x, y) ==
  /\ n = x + 256 * y
  /\ Bytes32(n)[1] = x /\ Bytes32(n)[2] = y /\ Bytes32(n)[3] = 0 /\ Bytes32(n)[4] = 0

LEMMA TwoBytesCount ==
  ASSUME NEW n, TwoByteLength(n)
  PROVE  \E x \in 0..255, y \in 0..255 : TwoBytes(n, x, y)
<1>0. n \in Nat /\ n < 65536 BY DEF TwoByteLength
<1>1. n % 256 \in 0..255 /\ n \div 256 \in 0..255 /\ n = (n % 256) + 256 * (n \div 256) BY <1>0
<1>2. n \div 65536 = 0 /\ n \div 16777216 = 0 BY <1>0
<1>3. (n \div 256) % 256 = n \div 256 BY <1>1
<1>4. 0 % 256 = 0 OBVIOUS
<1>5. /\ Bytes32(n)[1] = n % 256 /\ Bytes32(n)[2] = (n \div 256) % 256
      /\ Bytes32(n)[3] = (n \div 65536) % 256 /\ Bytes32(n)[4] = (n \div 16777216) % 256
  BY DEF Bytes32
<1>6. /\ Bytes32(n)[1] = n % 256 /\ Bytes32(n)[2] = n \div 256
      /\ Bytes32(n)[3] = 0 /\ Bytes32(n)[4] = 0
  BY <1>2, <1>3, <1>4, <1>5
<1>7. TwoBytes(n, n % 256, n \div 256)
  <2>1. n = (n % 256) + 256 * (n \div 256) BY <1>1
  <2> QED BY <1>6, <2>1 DEF TwoBytes
<1>8. n % 256 \in 0..255 /\ n \div 256 \in 0..255 BY <1>1
<1> QED BY <1>7, <1>8, Zenon

\* The bytes of a packet of such a length.
WireBegins(n, x, y) ==
  /\ n = x + 256 * y
  /\ WireOf(n)[1] = x /\ WireOf(n)[2] = y
  /\ WireOf(n)[3] = 0 /\ WireOf(n)[4] = 0 /\ WireOf(n)[5] = 1
  /\ \A d \in 6..n : WireOf(n)[d] = 97

LEMMA ShortWire ==
  ASSUME NEW n, TwoByteLength(n)
  PROVE  \E x \in 0..255, y \in 0..255 : WireBegins(n, x, y)
<1>1. PICK x \in 0..255, y \in 0..255 : TwoBytes(n, x, y) BY TwoBytesCount
<1>2. \A d \in 1..n : WireOf(n)[d] = IF d <= 4 THEN Bytes32(n)[d] ELSE IF d = 5 THEN 1 ELSE 97
  BY DEF WireOf, JOIN_ROOM
<1>3. n \in Nat /\ n >= 7 BY DEF TwoByteLength
<1>4. /\ WireOf(n)[1] = Bytes32(n)[1] /\ WireOf(n)[2] = Bytes32(n)[2]
      /\ WireOf(n)[3] = Bytes32(n)[3] /\ WireOf(n)[4] = Bytes32(n)[4]
      /\ WireOf(n)[5] = 1
  BY <1>2, <1>3
<1>5. \A d \in 6..n : WireOf(n)[d] = 97 BY <1>2, <1>3
<1>6. WireBegins(n, x, y) BY <1>1, <1>4, <1>5 DEF TwoBytes, WireBegins
<1> QED BY <1>6

\* What such a length decodes to is itself or negative.
LEMMA ShortDecoded ==
  ASSUME NEW n, TwoByteLength(n)
  PROVE  Decoded32(n) \in Int /\ (Decoded32(n) = n \/ Decoded32(n) < 0)
<1>0. PICK x \in 0..255, y \in 0..255 : TwoBytes(n, x, y) BY TwoBytesCount
<1> DEFINE b == Bytes32(n)
<1>1. n = x + 256 * y /\ b[1] = x /\ b[2] = y /\ b[3] = 0 /\ b[4] = 0
  BY <1>0 DEF TwoBytes
<1>2. Decoded32(n) = Int32(b) BY DEF Decoded32
<1> HIDE DEF b
<1>3. Int32(b) = IF x >= 128 THEN x - 256 ELSE IF y >= 128 THEN x + 256 * (y - 256)
                 ELSE x + 256 * y
  <2>1. SignedChar(0) = 0 /\ ~(0 >= 128) BY DEF SignedChar
  <2>2. x >= 128 => SignedChar(x) = x - 256 BY DEF SignedChar
  <2>3. y >= 128 => SignedChar(y) = y - 256 BY DEF SignedChar
  <2> QED BY <1>1, <2>1, <2>2, <2>3 DEF Int32
<1> QED BY <1>1, <1>2, <1>3

\* A byte of the receive is that of the packet it lies in.
LEMMA StreamByte ==
  ASSUME StreamOK, ShortPackets, NEW j \in 1..Len(lengths), NEW d \in 1..lengths[j],
         NEW q \in Int, q = Start(lengths, j) + d, q <= Received
  PROVE  bytes[q] = WireOf(lengths[j])[d]
<1>1. DOMAIN lengths = 1..Len(lengths) BY LenProperties DEF StreamOK
<1> QED BY <1>1 DEF StreamOK

\* What the packets of a receive are.
LEMMA StreamTypes ==
  ASSUME StreamOK, ShortPackets
  PROVE  /\ Received \in Nat /\ Len(lengths) \in Nat /\ lengths \in Seq(Int)
         /\ \A i \in 1..Received : bytes[i] \in Byte
         /\ \A i \in 1..Len(lengths) :
              /\ TwoByteLength(lengths[i]) /\ lengths[i] \in Nat /\ lengths[i] >= 7
              /\ Start(lengths, i) \in Nat
              /\ Start(lengths, i + 1) = Start(lengths, i) + lengths[i]
         /\ Start(lengths, 1) = 0 /\ 1 \in 1..Len(lengths) /\ DOMAIN lengths = 1..Len(lengths)
<1>1. lengths \in Seq(Lengths) /\ bytes \in Seq(Byte) /\ Len(lengths) > 0 BY DEF StreamOK
<1>2. /\ Len(bytes) \in Nat /\ Len(lengths) \in Nat /\ DOMAIN lengths = 1..Len(lengths)
      /\ \A i \in 1..Len(bytes) : bytes[i] \in Byte
      /\ \A i \in 1..Len(lengths) : lengths[i] \in Lengths
  BY <1>1, LenProperties, ElementOfSeq
<1>3. Lengths \subseteq {n \in Nat : n >= 7} BY FramingAssumption
<1>4. \A i \in 1..Len(lengths) :
        TwoByteLength(lengths[i]) /\ lengths[i] \in Nat /\ lengths[i] >= 7
  <2> SUFFICES ASSUME NEW i \in 1..Len(lengths)
               PROVE  TwoByteLength(lengths[i]) /\ lengths[i] \in Nat /\ lengths[i] >= 7
    OBVIOUS
  <2>1. lengths[i] \in Lengths BY <1>2
  <2>2. lengths[i] < 65536 BY <2>1 DEF ShortPackets
  <2>3. lengths[i] \in {n \in Nat : n >= 7} BY <1>3, <2>1
  <2> QED BY <2>2, <2>3 DEF TwoByteLength
<1>5. lengths \in Seq(Int)
  <2>1. Lengths \subseteq Int BY <1>3
  <2>2. \A i \in 1..Len(lengths) : lengths[i] \in Int BY <1>4
  <2>3. lengths = [i \in 1..Len(lengths) |-> lengths[i]] BY <1>1
  <2>4. lengths \in [1..Len(lengths) -> Int] BY <2>2, <2>3
  <2> QED BY <1>2, <2>4
<1>6. /\ Start(lengths, 1) = 0
      /\ \A i \in 1..Len(lengths) + 1 : Start(lengths, i) \in Int
      /\ \A i \in 1..Len(lengths) : Start(lengths, i + 1) = Start(lengths, i) + lengths[i]
  BY <1>5, Starts
<1>7. ASSUME NEW i \in 1..Len(lengths) PROVE Start(lengths, i) \in Nat
  <2>1. i \in 1..Len(lengths) + 1 /\ i <= i BY <1>2
  <2>2. \A k \in 1..Len(lengths) : lengths[k] >= 0 BY <1>4
  <2>3. Start(lengths, i) >= 0 BY <1>5, <2>1, <2>2, StartsRise
  <2> QED BY <1>6, <2>1, <2>3
<1>8. 1 \in 1..Len(lengths) BY <1>1, <1>2
<1> QED BY <1>2, <1>4, <1>5, <1>6, <1>7, <1>8 DEF Received

\* In front of a packet are the last bytes of the one before it.
LEMMA BytesBefore ==
  ASSUME StreamOK, ShortPackets, NEW j \in 1..Len(lengths), NEW s, s = Start(lengths, j), s > 0,
         s <= Received
  PROVE  /\ s >= 7
         /\ bytes[s] = 97 /\ bytes[s - 1] = 97
         /\ bytes[s - 2] \in {1, 97} /\ bytes[s - 3] \in {0, 1, 97}
<1>1. /\ Received \in Nat /\ Len(lengths) \in Nat
      /\ \A i \in 1..Len(lengths) :
              /\ TwoByteLength(lengths[i]) /\ lengths[i] \in Nat /\ lengths[i] >= 7
              /\ Start(lengths, i) \in Nat
              /\ Start(lengths, i + 1) = Start(lengths, i) + lengths[i]
      /\ Start(lengths, 1) = 0
  BY StreamTypes
<1>2. j # 1 BY <1>1
<1>3. PICK i : i = j - 1 OBVIOUS
<1>4. i \in 1..Len(lengths) /\ i + 1 = j BY <1>1, <1>2, <1>3
<1>5. PICK m \in Nat : m = lengths[i] /\ m >= 7 BY <1>1, <1>4
<1>6. PICK a \in Nat : a = Start(lengths, i) BY <1>1, <1>4
<1>7. s = a + m
  <2>1. Start(lengths, i + 1) = Start(lengths, i) + lengths[i] BY <1>1, <1>4
  <2>2. Start(lengths, j) = Start(lengths, i) + lengths[i] BY <1>4, <2>1, Zenon
  <2>3. Start(lengths, j) = a + m BY <1>5, <1>6, <2>2, Zenon
  <2> QED BY <2>3
<1>8. /\ WireOf(m)[4] = 0 /\ WireOf(m)[5] = 1
      /\ \A d \in 6..m : WireOf(m)[d] = 97
  <2>1. TwoByteLength(m) BY <1>1, <1>4, <1>5
  <2>2. PICK x \in 0..255, y \in 0..255 : WireBegins(m, x, y) BY <2>1, ShortWire
  <2> QED BY <2>2 DEF WireBegins
<1>9. ASSUME NEW d \in 1..m PROVE bytes[a + d] = WireOf(m)[d]
  <2>1. a + d \in Int /\ a + d <= Received BY <1>1, <1>7
  <2>2. d \in 1..lengths[i] /\ a + d = Start(lengths, i) + d BY <1>5, <1>6
  <2>3. bytes[a + d] = WireOf(lengths[i])[d] BY <1>4, <2>1, <2>2, StreamByte
  <2> QED BY <1>5, <2>3
<1>10. bytes[s] = 97
  <2>1. m \in 6..m /\ m \in 1..m /\ a + m = s BY <1>5, <1>7
  <2> QED BY <1>8, <1>9, <2>1
<1>11. bytes[s - 1] = 97
  <2>1. m - 1 \in 1..m /\ a + (m - 1) = s - 1 BY <1>5, <1>7
  <2>2. bytes[s - 1] = WireOf(m)[m - 1] BY <1>9, <2>1
  <2>3. m - 1 \in 6..m BY <1>5
  <2> QED BY <1>8, <2>2, <2>3
<1>12. bytes[s - 2] \in {1, 97}
  <2>1. m - 2 \in 1..m /\ a + (m - 2) = s - 2 BY <1>5, <1>7
  <2>2. bytes[s - 2] = WireOf(m)[m - 2] BY <1>9, <2>1
  <2>3. m - 2 = 5 \/ m - 2 \in 6..m BY <1>5
  <2> QED BY <1>8, <2>2, <2>3
<1>13. bytes[s - 3] \in {0, 1, 97}
  <2>1. m - 3 \in 1..m /\ a + (m - 3) = s - 3 BY <1>5, <1>7
  <2>2. bytes[s - 3] = WireOf(m)[m - 3] BY <1>9, <2>1
  <2>3. m - 3 = 4 \/ m - 3 = 5 \/ m - 3 \in 6..m BY <1>5
  <2> QED BY <1>8, <2>2, <2>3
<1> QED BY <1>5, <1>7, <1>10, <1>11, <1>12, <1>13

\* Four bytes whose two in the middle are letters.
LEMMA LettersAreLong ==
  ASSUME NEW w, w[1] \in {0, 1, 97}, w[2] \in {1, 97}, w[3] = 97, w[4] \in Byte, w[4] < 128
  PROVE  ~(Int32(w) <= MaxPacketLength)
<1>1. PICK x \in Int : x = w[1] /\ x >= 0 /\ x < 128 OBVIOUS
<1>2. PICK y \in Int : y = w[2] /\ y >= 0 /\ y < 128 OBVIOUS
<1>3. PICK z \in Int : z = w[4] /\ z >= 0 /\ z < 128 BY DEF Byte
<1>4. Int32(w) = x + 256 * y + 65536 * 97 + 16777216 * z
  BY <1>1, <1>2, <1>3 DEF Int32, SignedChar
<1> QED BY <1>1, <1>2, <1>3, <1>4 DEF MaxPacketLength

\* A chunk that passes for a message begins where a packet does, or is the false JOIN.
LEMMA PassesForMessage ==
  ASSUME StreamOK, ShortPackets, NEW p \in Nat, p + 5 <= Received,
         NEW w, \A k \in 1..4 : w[k] = bytes[p + k],
         Int32(w) <= MaxPacketLength, SignedChar(bytes[p + 5]) \in 1..12
  PROVE  (\E i \in 1..Len(lengths) : p = Start(lengths, i)) \/ FalseJoin(p)
<1>1. /\ Received \in Nat /\ Len(lengths) \in Nat /\ lengths \in Seq(Int)
      /\ \A i \in 1..Received : bytes[i] \in Byte
      /\ \A i \in 1..Len(lengths) :
              /\ TwoByteLength(lengths[i]) /\ lengths[i] \in Nat /\ lengths[i] >= 7
              /\ Start(lengths, i) \in Nat
              /\ Start(lengths, i + 1) = Start(lengths, i) + lengths[i]
      /\ DOMAIN lengths = 1..Len(lengths)
  BY StreamTypes
<1>2. PICK j \in 1..Len(lengths) : Start(lengths, j) <= p + 4 /\ p + 4 < Start(lengths, j + 1)
  <2>1. \A i \in 1..Len(lengths) : lengths[i] >= 0 BY <1>1
  <2>2. TotalLength(lengths) \in Int
    <3>1. TotalLength(lengths) = Start(lengths, Len(lengths) + 1)
          /\ \A i \in 1..Len(lengths) + 1 : Start(lengths, i) \in Int
      BY <1>1, Starts
    <3> QED BY <1>1, <3>1
  <2>3. Received <= TotalLength(lengths) BY DEF StreamOK
  <2>4. p + 4 \in Nat /\ p + 4 < TotalLength(lengths) BY <1>1, <2>2, <2>3
  <2>5. PICK n \in Nat : n = p + 4 BY <2>4
  <2>6. n < TotalLength(lengths) BY <2>4, <2>5
  <2>7. \E i \in 1..Len(lengths) : Start(lengths, i) <= n /\ n < Start(lengths, i + 1)
    BY <1>1, <2>1, <2>6, InOneOf
  <2> QED BY <2>5, <2>7
<1>3. PICK s \in Nat : s = Start(lengths, j) BY <1>1
<1>4. PICK n \in Nat : n = lengths[j] /\ n >= 7 BY <1>1
<1>5. s <= p + 4 /\ p + 4 < s + n
  <2>1. Start(lengths, j + 1) = Start(lengths, j) + lengths[j] BY <1>1
  <2>2. Start(lengths, j + 1) = s + n BY <1>3, <1>4, <2>1, Zenon
  <2> QED BY <1>2, <1>3, <2>2, Zenon
<1>6. PICK d : d = p + 5 - s OBVIOUS
<1>7. d \in 1..n /\ p + 5 = s + d BY <1>5, <1>6
<1>8. bytes[p + 5] = WireOf(n)[d]
  <2>1. d \in 1..lengths[j] /\ p + 5 = Start(lengths, j) + d BY <1>3, <1>4, <1>7
  <2>2. bytes[p + 5] = WireOf(lengths[j])[d] BY <2>1, StreamByte
  <2> QED BY <1>4, <2>2
<1>17. TwoByteLength(n) BY <1>1, <1>4
<1>18. PICK x \in 0..255, y \in 0..255 : WireBegins(n, x, y) BY <1>17, ShortWire
<1>9. /\ n = x + 256 * y
      /\ WireOf(n)[1] = x /\ WireOf(n)[2] = y
      /\ WireOf(n)[3] = 0 /\ WireOf(n)[4] = 0 /\ WireOf(n)[5] = 1
      /\ \A e \in 6..n : WireOf(n)[e] = 97
  BY <1>18 DEF WireBegins
<1>10. SignedChar(0) \notin 1..12 /\ SignedChar(97) \notin 1..12 BY DEF SignedChar
<1>11. CASE d = 5
  <2>1. p = s BY <1>7, <1>11
  <2> QED BY <1>3, <2>1
<1>12. CASE d > 5
  <2>1. d \in 6..n BY <1>7, <1>12
  <2> QED BY <1>8, <1>9, <1>10, <2>1
<1>13. CASE d = 3 \/ d = 4 BY <1>8, <1>9, <1>10, <1>13, SMTT(20)
<1>14. CASE d = 2
  <2>1. p = s - 3 /\ p + 1 = s - 2 /\ p + 2 = s - 1 /\ p + 3 = s /\ p + 4 = s + 1
        /\ s > 0 /\ s <= Received
    BY <1>1, <1>7, <1>14
  <2>2. bytes[s] = 97 /\ bytes[s - 1] = 97 /\ bytes[s - 2] \in {1, 97}
    BY <1>3, <2>1, BytesBefore, ZenonT(40)
  <2>3. bytes[s + 1] = x
    <3>0. PICK q \in Int : q = s + 1 OBVIOUS
    <3>1. 1 \in 1..n /\ q <= Received BY <1>1, <1>4, <2>1, <3>0
    <3>2. bytes[q] = WireOf(lengths[j])[1]
      <4>1. 1 \in 1..lengths[j] /\ q = Start(lengths, j) + 1 BY <1>3, <1>4, <3>0, <3>1, Zenon
      <4> QED BY <3>1, <4>1, StreamByte
    <3> QED BY <1>4, <1>9, <3>0, <3>2, Zenon
  <2>4. w[1] \in {1, 97} /\ w[2] = 97 /\ w[3] = 97 /\ w[4] = x
    <3>1. w[1] = bytes[p + 1] /\ w[2] = bytes[p + 2] /\ w[3] = bytes[p + 3] /\ w[4] = bytes[p + 4]
      OBVIOUS
    <3> QED BY <2>1, <2>2, <2>3, <3>1
  <2>5. ~(x < 128)
    <3> SUFFICES ASSUME x < 128 PROVE FALSE OBVIOUS
    <3>1. w[4] \in Byte /\ w[4] < 128 BY <1>9, <2>4 DEF Byte
    <3>2. w[1] \in {0, 1, 97} /\ w[2] \in {1, 97} BY <2>4
    <3> QED BY <2>4, <3>1, <3>2, LettersAreLong
  <2>6. y # 0
    <3>1. bytes[p + 5] = y BY <1>8, <1>9, <1>14
    <3> QED BY <1>10, <3>1
  <2>7. n >= 384
    <3>1. x >= 128 /\ y >= 1 BY <2>5, <2>6
    <3> QED BY <1>9, <3>1
  <2>8. FalseJoin(p)
    <3>1. j \in DOMAIN lengths BY <1>1
    <3>2. lengths[j] >= 384 /\ p = Start(lengths, j) - 3 BY <1>3, <1>4, <2>1, <2>7, Zenon
    <3> QED BY <3>1, <3>2 DEF FalseJoin
  <2> QED BY <2>8
<1>15. CASE d = 1
  <2>1. p = s - 4 /\ p + 1 = s - 3 /\ p + 2 = s - 2 /\ p + 3 = s - 1 /\ p + 4 = s
        /\ s > 0 /\ s <= Received
    BY <1>1, <1>7, <1>15
  <2>2. bytes[s] = 97 /\ bytes[s - 1] = 97 /\ bytes[s - 2] \in {1, 97} /\ bytes[s - 3] \in {0, 1, 97}
    BY <1>3, <2>1, BytesBefore, ZenonT(40)
  <2>3. w[1] \in {0, 1, 97} /\ w[2] \in {1, 97} /\ w[3] = 97 /\ w[4] = 97
    <3>1. w[1] = bytes[p + 1] /\ w[2] = bytes[p + 2] /\ w[3] = bytes[p + 3] /\ w[4] = bytes[p + 4]
      OBVIOUS
    <3> QED BY <2>1, <2>2, <3>1
  <2>4. w[4] \in Byte /\ w[4] < 128 BY <2>3 DEF Byte
  <2> QED BY <2>3, <2>4, LettersAreLong
<1>16. d = 1 \/ d = 2 \/ d = 3 \/ d = 4 \/ d = 5 \/ d > 5 BY <1>7
<1> QED BY <1>11, <1>12, <1>13, <1>14, <1>15, <1>16

-----------------------------------------------------------------------------
\* readSocket: the loop.

Chars == -128..127

\* What has been collected since the last chunk: the bytes in front of the position, and
\* before there is a length all of them.
CollectedOK ==
  /\ index1 \in Nat /\ index1 <= Received + 1
  /\ currBuffer \in Seq(Chars) /\ Len(currBuffer) <= index1 /\ currMsgLength \in Int
  /\ index1 <= Received =>
       \A k \in 1..Len(currBuffer) :
         currBuffer[k] = SignedChar(bytes[index1 - Len(currBuffer) + k])
  /\ currMsgLength = 0 /\ index1 <= Received => Len(currBuffer) = index1 /\ index1 <= 3

\* Once there is a length it is that of the first packet, and the chunk at hand begins at a
\* multiple of one more than it.
ChunksOK ==
  currMsgLength # 0 /\ index1 <= Received =>
    /\ currMsgLength = ChunkLength(lengths)
    /\ \E q \in Nat : index1 - Len(currBuffer) = q * (currMsgLength + 1)

TreatedOK == treated \subseteq 0..Received /\ OnlyFramedTreated

SocketInv == StreamOK /\ CollectedOK /\ ChunksOK /\ TreatedOK

\* A char read from a byte gives the byte back to the decoder.
LEMMA CharOfByte ==
  ASSUME NEW b, b \in Byte
  PROVE  SignedChar(b) \in Chars /\ Unsigned(SignedChar(b)) = b
<1>1. b \in Int /\ b >= 0 /\ b <= 255 BY DEF Byte
<1>2. CASE b < 128
  <2>1. SignedChar(b) = b BY <1>2 DEF SignedChar
  <2>2. b % 256 = b BY <1>1
  <2> QED BY <1>1, <1>2, <2>1, <2>2 DEF Chars, Unsigned
<1>3. CASE ~(b < 128)
  <2>1. SignedChar(b) = b - 256 BY <1>3 DEF SignedChar
  <2>2. (b - 256) % 256 = b BY <1>1
  <2>3. b - 256 \in Chars BY <1>1, <1>3 DEF Chars
  <2> QED BY <2>1, <2>2, <2>3 DEF Unsigned
<1> QED BY <1>2, <1>3

\* The byte at hand, and the buffer with it.
LEMMA ByteHereIs ==
  ASSUME StreamOK, ShortPackets, index1 \in Nat
  PROVE  /\ ByteHere \in Chars
         /\ index1 < Received => ByteHere = SignedChar(bytes[index1 + 1])
<1>1. Received \in Nat /\ \A i \in 1..Received : bytes[i] \in Byte BY StreamTypes
<1>2. CASE index1 < Received
  <2>1. index1 + 1 \in 1..Received BY <1>1, <1>2
  <2>2. ByteHere = SignedChar(bytes[index1 + 1]) BY <1>2 DEF ByteHere
  <2> QED BY <1>1, <2>1, <2>2, CharOfByte
<1>3. CASE ~(index1 < Received)
  <2>1. ByteHere = SignedChar(97) BY <1>3 DEF ByteHere, Stale
  <2>2. 97 \in Byte BY DEF Byte
  <2> QED BY <1>3, <2>1, <2>2, CharOfByte
<1> QED BY <1>2, <1>3

LEMMA Collected ==
  ASSUME StreamOK, ShortPackets, CollectedOK, Running,
         currBuffer' = Append(currBuffer, ByteHere), index1' = index1 + 1, bytes' = bytes
  PROVE  /\ currBuffer' \in Seq(Chars) /\ Len(currBuffer') = Len(currBuffer) + 1
         /\ Len(currBuffer) \in Nat
         /\ index1' \in Nat /\ index1' <= Received' + 1
         /\ Len(currBuffer') <= index1' /\ Received' = Received
         /\ index1' <= Received' =>
              \A k \in 1..Len(currBuffer') :
                currBuffer'[k] = SignedChar(bytes'[index1' - Len(currBuffer') + k])
<1>1. Received \in Nat /\ Received' = Received BY StreamTypes DEF Received
<1>2. index1 \in Nat /\ currBuffer \in Seq(Chars) /\ Len(currBuffer) <= index1
  BY DEF CollectedOK
<1>3. ByteHere \in Chars /\ (index1 < Received => ByteHere = SignedChar(bytes[index1 + 1]))
  BY <1>2, ByteHereIs
<1>4. PICK n \in Nat : n = Len(currBuffer) BY <1>2, LenProperties
<1>5. /\ currBuffer' \in Seq(Chars) /\ Len(currBuffer') = n + 1
      /\ \A k \in 1..n : currBuffer'[k] = currBuffer[k]
      /\ currBuffer'[n + 1] = ByteHere
  BY <1>2, <1>3, <1>4, AppendProperties
<1>6. index1' \in Nat /\ index1' <= Received' + 1 /\ n + 1 <= index1'
  BY <1>1, <1>2, <1>4 DEF Running
<1>7. ASSUME index1' <= Received', NEW k \in 1..(n + 1)
      PROVE  currBuffer'[k] = SignedChar(bytes'[index1' - (n + 1) + k])
  <2>1. index1 < Received /\ index1' - (n + 1) + k = index1 - n + k BY <1>1, <1>2, <1>7
  <2>2. CASE k = n + 1
    <3>1. index1 - n + k = index1 + 1 BY <1>2, <2>2
    <3> QED BY <1>3, <1>5, <2>1, <2>2, <3>1
  <2>3. CASE k # n + 1
    <3>1. k \in 1..n /\ index1 <= Received BY <1>1, <1>2, <2>1, <2>3
    <3>2. currBuffer[k] = SignedChar(bytes[index1 - n + k]) BY <1>4, <3>1 DEF CollectedOK
    <3> QED BY <1>5, <2>1, <3>1, <3>2
  <2> QED BY <2>2, <2>3
<1> QED BY <1>1, <1>4, <1>5, <1>6, <1>7

LEMMA SocketStart == ShortPackets /\ Init => SocketInv
<1> SUFFICES ASSUME ShortPackets, Init PROVE SocketInv OBVIOUS
<1>1. StreamOK BY StreamBegins
<1>2. index1 = 0 /\ currBuffer = <<>> /\ currMsgLength = 0 /\ treated = {} BY DEF Init
<1>3. Received \in Nat BY <1>1, StreamTypes
<1>4. currBuffer \in Seq(Chars) /\ Len(currBuffer) = 0
  <2>1. <<>> \in Seq(Chars) /\ Len(<<>>) = 0 BY EmptySeq
  <2> QED BY <1>2, <2>1, Zenon
<1>5. CollectedOK
  <2>1. \A k \in 1..Len(currBuffer) : FALSE BY <1>4
  <2> QED BY <1>2, <1>3, <1>4, <2>1 DEF CollectedOK
<1>6. ChunksOK BY <1>2 DEF ChunksOK
<1>7. TreatedOK BY <1>2 DEF TreatedOK, OnlyFramedTreated
<1> QED BY <1>1, <1>5, <1>6, <1>7 DEF SocketInv

\* The packets and what was treated stay, whatever the loop collects.
LEMMA SameStream ==
  ASSUME UNCHANGED <<lengths, bytes>>
  PROVE  /\ Received' = Received /\ (StreamOK => StreamOK')
         /\ UNCHANGED treated /\ TreatedOK => TreatedOK'
<1>1. lengths' = lengths /\ bytes' = bytes OBVIOUS
<1>2. Received' = Received BY <1>1 DEF Received
<1>3. StreamOK => StreamOK' BY <1>1, <1>2 DEF StreamOK
<1>4. ASSUME UNCHANGED treated, TreatedOK PROVE TreatedOK'
  <2>1. treated' = treated BY <1>4
  <2>2. FramedStarts' = FramedStarts BY <1>1, <1>2 DEF FramedStarts
  <2>3. \A p : FalseJoin(p)' <=> FalseJoin(p) BY <1>1 DEF FalseJoin
  <2>4. OnlyFramedTreated' BY <1>4, <2>1, <2>2, <2>3 DEF TreatedOK, OnlyFramedTreated
  <2>5. (treated \subseteq 0..Received)' BY <1>2, <1>4, <2>1 DEF TreatedOK
  <2> QED BY <2>4, <2>5 DEF TreatedOK
<1> QED BY <1>2, <1>3, <1>4

LEMMA UnsignedIsByte == ASSUME NEW c, c \in Chars PROVE Unsigned(c) \in Byte
<1>1. c \in Int BY DEF Chars
<1>2. (c % 256) \in 0..255 BY <1>1
<1> QED BY <1>2 DEF Unsigned, Byte

\* What four chars decode to depends on their bytes alone.
LEMMA SameBytesSame ==
  ASSUME NEW b, NEW c, b[1] = c[1], b[2] = c[2], b[3] = c[3], b[4] = c[4]
  PROVE  Int32(b) = Int32(c)
BY DEF Int32

\* The length the loop decodes is that of the first packet, as it decodes.
LEMMA FirstLength ==
  ASSUME StreamOK, ShortPackets, 4 <= Received, NEW s,
         \A k \in 1..4 : s[k] = SignedChar(bytes[k])
  PROVE  /\ Int32([i \in 1..4 |-> Unsigned(s[i])]) = ChunkLength(lengths)
         /\ ChunkLength(lengths) # 0
<1>1. /\ \A i \in 1..Received : bytes[i] \in Byte
      /\ TwoByteLength(lengths[1]) /\ lengths[1] \in Nat /\ lengths[1] >= 7
      /\ Start(lengths, 1) = 0 /\ 1 \in 1..Len(lengths) /\ Received \in Nat
  BY StreamTypes
<1>2. PICK n \in Nat : n = lengths[1] /\ n >= 7 BY <1>1
<1>3. ASSUME NEW k \in 1..4 PROVE bytes[k] = Bytes32(n)[k] /\ Unsigned(s[k]) = Bytes32(n)[k]
  <2>1. k \in 1..n /\ k \in Int /\ k <= Received /\ k \in 1..Received BY <1>1, <1>2
  <2>2. k = Start(lengths, 1) + k BY <1>1
  <2>3. k \in 1..lengths[1] BY <1>2, <2>1
  <2>4. bytes[k] = WireOf(lengths[1])[k] BY <1>1, <2>1, <2>2, <2>3, StreamByte
  <2>5. WireOf(n)[k] = Bytes32(n)[k] BY <2>1 DEF WireOf
  <2>6. bytes[k] \in Byte BY <1>1, <2>1
  <2>7. Unsigned(s[k]) = bytes[k] BY <2>6, CharOfByte
  <2> QED BY <1>2, <2>4, <2>5, <2>7
<1> DEFINE b == [i \in 1..4 |-> Unsigned(s[i])]
<1>4. b[1] = Bytes32(n)[1] /\ b[2] = Bytes32(n)[2] /\ b[3] = Bytes32(n)[3] /\ b[4] = Bytes32(n)[4]
  <2>1. \A k \in 1..4 : b[k] = Bytes32(n)[k] BY <1>3
  <2> HIDE DEF b
  <2> QED BY <2>1
<1> HIDE DEF b
<1>5. Int32(b) = Int32(Bytes32(n)) BY <1>4, SameBytesSame
<1>6. ChunkLength(lengths) = Int32(Bytes32(n)) BY <1>2 DEF ChunkLength, Decoded32
<1>7. ChunkLength(lengths) # 0
  <2>1. TwoByteLength(n) BY <1>1, <1>2
  <2>2. Decoded32(n) \in Int /\ (Decoded32(n) = n \/ Decoded32(n) < 0) BY <2>1, ShortDecoded
  <2>3. Decoded32(n) # 0 BY <1>2, <2>2
  <2> QED BY <1>2, <2>3 DEF ChunkLength
<1> QED BY <1>5, <1>6, <1>7 DEF b

LEMMA CollectLengthKeeps ==
  ASSUME ShortPackets, SocketInv, CollectLength PROVE SocketInv'
<1>1. StreamOK /\ CollectedOK /\ TreatedOK BY DEF SocketInv
<1>2. /\ Running /\ currMsgLength = 0
      /\ currBuffer' = Append(currBuffer, ByteHere)
      /\ index1' = index1 + 1 /\ UNCHANGED <<lengths, bytes>> /\ UNCHANGED treated
      /\ bytes' = bytes /\ lengths' = lengths
  BY DEF CollectLength
<1>3. currMsgLength' = IF Len(currBuffer') = 4
                       THEN Int32([i \in 1..4 |-> Unsigned(currBuffer'[i])])
                       ELSE 0
  BY DEF CollectLength
<1>4. StreamOK' /\ TreatedOK' /\ Received' = Received BY <1>1, <1>2, SameStream
<1>5. /\ currBuffer' \in Seq(Chars) /\ Len(currBuffer') = Len(currBuffer) + 1
      /\ Len(currBuffer) \in Nat
      /\ index1' \in Nat /\ index1' <= Received' + 1
      /\ Len(currBuffer') <= index1'
      /\ index1' <= Received' =>
              \A k \in 1..Len(currBuffer') :
                currBuffer'[k] = SignedChar(bytes'[index1' - Len(currBuffer') + k])
  BY <1>1, <1>2, Collected
<1>6. Len(currBuffer) = index1 /\ index1 <= 3 /\ index1 \in Nat
  BY <1>1, <1>2 DEF CollectedOK, Running
<1>7. Len(currBuffer') = index1' BY <1>2, <1>5, <1>6
<1>8. currMsgLength' \in Int
  <2>1. CASE Len(currBuffer') = 4
    <3> DEFINE b == [i \in 1..4 |-> Unsigned(currBuffer'[i])]
    <3>1. \A i \in 1..4 : currBuffer'[i] \in Chars BY <1>5, <2>1, ElementOfSeq
    <3>2. \A i \in 1..4 : b[i] \in Byte BY <3>1, UnsignedIsByte
    <3>3. currMsgLength' = Int32(b) BY <1>3, <2>1
    <3> HIDE DEF b
    <3> QED BY <3>2, <3>3, DecodesToInt
  <2>2. CASE Len(currBuffer') # 4 BY <1>3, <2>2
  <2> QED BY <2>1, <2>2
<1>9. ASSUME index1' <= Received', Len(currBuffer') = 4
      PROVE  currMsgLength' = ChunkLength(lengths) /\ currMsgLength' # 0
  <2>1. 4 <= Received BY <1>4, <1>7, <1>9
  <2>2. ASSUME NEW k \in 1..4 PROVE currBuffer'[k] = SignedChar(bytes[k])
    <3>1. index1' - Len(currBuffer') + k = k BY <1>7, <1>9
    <3> QED BY <1>2, <1>5, <1>9, <3>1
  <2>3. PICK s : s = currBuffer' OBVIOUS
  <2>4. \A k \in 1..4 : s[k] = SignedChar(bytes[k]) BY <2>2, <2>3
  <2>5. /\ Int32([i \in 1..4 |-> Unsigned(s[i])]) = ChunkLength(lengths)
        /\ ChunkLength(lengths) # 0
    BY <1>1, <2>1, <2>4, FirstLength
  <2> QED BY <1>3, <1>9, <2>3, <2>5
<1>10. ASSUME currMsgLength' = 0, index1' <= Received'
       PROVE  Len(currBuffer') = index1' /\ index1' <= 3
  <2>1. index1' # 4 BY <1>7, <1>9, <1>10
  <2> QED BY <1>2, <1>6, <1>7, <2>1
<1>11. CollectedOK' BY <1>5, <1>8, <1>10 DEF CollectedOK
<1>12. ChunksOK'
  <2> SUFFICES ASSUME currMsgLength' # 0, index1' <= Received'
               PROVE  /\ currMsgLength' = ChunkLength(lengths)'
                      /\ \E q \in Nat : index1' - Len(currBuffer') = q * (currMsgLength' + 1)
    BY DEF ChunksOK
  <2>1. Len(currBuffer') = 4 BY <1>3
  <2>2. currMsgLength' = ChunkLength(lengths) BY <1>9, <2>1
  <2>3. ChunkLength(lengths)' = ChunkLength(lengths) BY <1>2 DEF ChunkLength
  <2>4. index1' - Len(currBuffer') = 0 BY <1>5, <1>7
  <2>5. PICK L \in Int : L = currMsgLength' BY <1>8
  <2>6. 0 = 0 * (L + 1) /\ 0 \in Nat OBVIOUS
  <2>7. index1' - Len(currBuffer') = 0 * (currMsgLength' + 1) BY <2>4, <2>5, <2>6
  <2> QED BY <2>2, <2>3, <2>6, <2>7
<1> QED BY <1>4, <1>11, <1>12 DEF SocketInv

LEMMA CollectByteKeeps ==
  ASSUME ShortPackets, SocketInv, CollectByte PROVE SocketInv'
<1>1. StreamOK /\ CollectedOK /\ TreatedOK /\ ChunksOK BY DEF SocketInv
<1>2. /\ Running /\ currMsgLength # 0 /\ currMsgLength' = currMsgLength
      /\ currBuffer' = Append(currBuffer, ByteHere)
      /\ index1' = index1 + 1 /\ UNCHANGED <<lengths, bytes>> /\ UNCHANGED treated
      /\ bytes' = bytes /\ lengths' = lengths
  BY DEF CollectByte
<1>4. StreamOK' /\ TreatedOK' /\ Received' = Received BY <1>1, <1>2, SameStream
<1>5. /\ currBuffer' \in Seq(Chars) /\ Len(currBuffer') = Len(currBuffer) + 1
      /\ Len(currBuffer) \in Nat
      /\ index1' \in Nat /\ index1' <= Received' + 1
      /\ Len(currBuffer') <= index1'
      /\ index1' <= Received' =>
              \A k \in 1..Len(currBuffer') :
                currBuffer'[k] = SignedChar(bytes'[index1' - Len(currBuffer') + k])
  BY <1>1, <1>2, Collected
<1>6. currMsgLength' \in Int /\ currMsgLength' # 0 BY <1>1, <1>2 DEF CollectedOK
<1>7. CollectedOK' BY <1>5, <1>6 DEF CollectedOK
<1>8. ChunksOK'
  <2>1. currMsgLength = ChunkLength(lengths)
        /\ \E q \in Nat : index1 - Len(currBuffer) = q * (currMsgLength + 1)
    BY <1>1, <1>2 DEF ChunksOK, Running
  <2>2. ChunkLength(lengths)' = ChunkLength(lengths) BY <1>2 DEF ChunkLength
  <2>3. index1' - Len(currBuffer') = index1 - Len(currBuffer)
    <3>1. index1 \in Nat BY <1>1 DEF CollectedOK
    <3> QED BY <1>2, <1>5, <3>1
  <2>4. currMsgLength' = ChunkLength(lengths)'
        /\ \E q \in Nat : index1' - Len(currBuffer') = q * (currMsgLength' + 1)
    BY <1>2, <2>1, <2>2, <2>3, Zenon
  <2> QED BY <2>4 DEF ChunksOK
<1> QED BY <1>4, <1>7, <1>8 DEF SocketInv

\* The chunk handed over, when it is taken for a message.
LEMMA ChunkTreated ==
  ASSUME ShortPackets, SocketInv, HandOver, Len(currBuffer) >= 5, IsMessage(currBuffer),
         NEW p, p = index1 - currMsgLength
  PROVE  p \in 0..Received /\ (p \in FramedStarts \/ FalseJoin(p))
<1>1. StreamOK /\ CollectedOK /\ ChunksOK BY DEF SocketInv
<1>2. Running /\ currMsgLength # 0 /\ currMsgLength = Len(currBuffer) BY DEF HandOver
<1>3. index1 <= Received BY <1>2 DEF Running
<1>4. /\ index1 \in Nat /\ currBuffer \in Seq(Chars) /\ Len(currBuffer) <= index1
      /\ \A k \in 1..Len(currBuffer) :
           currBuffer[k] = SignedChar(bytes[index1 - Len(currBuffer) + k])
  BY <1>1, <1>3 DEF CollectedOK
<1>5. PICK n \in Nat : n = Len(currBuffer) /\ n >= 5 BY <1>4, LenProperties
<1>6. p = index1 - n /\ p \in Nat /\ p + n <= Received /\ p + 5 <= Received /\ p <= Received
      /\ Received \in Nat
  <2>1. Received \in Nat BY <1>1, StreamTypes
  <2> QED BY <1>2, <1>3, <1>4, <1>5, <2>1
<1>7. \A k \in 1..5 : currBuffer[k] = SignedChar(bytes[p + k])
  <2>1. \A k \in 1..5 : k \in 1..Len(currBuffer) BY <1>5
  <2>2. \A k \in 1..5 : index1 - Len(currBuffer) + k = p + k BY <1>4, <1>5, <1>6
  <2> QED BY <1>4, <2>1, <2>2
<1> DEFINE w == [i \in 1..4 |-> Unsigned(currBuffer[i])]
<1>8. Int32(w) <= MaxPacketLength /\ SignedChar(bytes[p + 5]) \in 1..12
  BY <1>7 DEF IsMessage, JOIN_ROOM, AUTHENTICATE_WEB_FAILURE
<1>9. ASSUME NEW k \in 1..4 PROVE w[k] = bytes[p + k]
  <2>1. p + k \in 1..Received /\ k \in 1..5 BY <1>6
  <2>2. bytes[p + k] \in Byte BY <1>1, <2>1, StreamTypes
  <2>3. currBuffer[k] = SignedChar(bytes[p + k]) BY <1>7, <2>1
  <2>4. w[k] = Unsigned(currBuffer[k]) OBVIOUS
  <2> QED BY <2>2, <2>3, <2>4, CharOfByte
<1> HIDE DEF w
<1>10. (\E i \in 1..Len(lengths) : p = Start(lengths, i)) \/ FalseJoin(p)
  BY <1>1, <1>6, <1>8, <1>9, PassesForMessage
<1>11. ASSUME NEW i \in 1..Len(lengths), p = Start(lengths, i) PROVE p \in FramedStarts
  <2>1. n = ChunkLength(lengths) /\ \E q \in Nat : index1 - n = q * (n + 1)
    BY <1>1, <1>2, <1>3, <1>5 DEF ChunksOK
  <2>2. PICK q \in Nat : index1 - n = q * (n + 1) BY <2>1
  <2>3. p = q * (n + 1) BY <1>6, <2>2
  <2>4. p % (n + 1) = 0
    <3>1. PICK m \in Nat : m = n + 1 /\ m > 0 OBVIOUS
    <3>2. (q * m) % m = 0 BY <3>1
    <3> QED BY <2>3, <3>1, <3>2, Zenon
  <2>5. ChunkLength(lengths) > 0 /\ Start(lengths, i) % (ChunkLength(lengths) + 1) = 0
        /\ Start(lengths, i) + ChunkLength(lengths) <= Received
    BY <1>5, <1>6, <1>11, <2>1, <2>4
  <2>6. Framed(lengths, Received, i) BY <2>5 DEF Framed
  <2>7. i \in DOMAIN lengths BY <1>1, StreamTypes
  <2> QED BY <1>11, <2>6, <2>7 DEF FramedStarts
<1>12. p \in 0..Received BY <1>6
<1> QED BY <1>10, <1>11, <1>12

LEMMA HandOverKeeps ==
  ASSUME ShortPackets, SocketInv, HandOver PROVE SocketInv'
<1>1. StreamOK /\ CollectedOK /\ TreatedOK /\ ChunksOK BY DEF SocketInv
<1>2. /\ Running /\ currMsgLength # 0 /\ currMsgLength = Len(currBuffer)
      /\ currMsgLength' = currMsgLength /\ currBuffer' = <<>>
      /\ index1' = index1 + 1 /\ UNCHANGED <<lengths, bytes>>
      /\ bytes' = bytes /\ lengths' = lengths
  BY DEF HandOver
<1>3. treated' = IF Len(currBuffer) >= 5 /\ IsMessage(currBuffer)
                 THEN treated \union {index1 - currMsgLength}
                 ELSE treated
  BY DEF HandOver
<1>4. StreamOK' /\ Received' = Received BY <1>1, <1>2, SameStream
<1>5. Received \in Nat /\ index1 \in Nat /\ currMsgLength \in Int /\ index1 <= Received
  BY <1>1, <1>2, StreamTypes DEF CollectedOK, Running
<1>6. currBuffer' \in Seq(Chars) /\ Len(currBuffer') = 0
  <2>1. <<>> \in Seq(Chars) /\ Len(<<>>) = 0 BY EmptySeq
  <2> QED BY <1>2, <2>1, Zenon
<1>7. CollectedOK'
  <2>1. index1' \in Nat /\ index1' <= Received' + 1 /\ 0 <= index1' BY <1>2, <1>4, <1>5
  <2>2. \A k \in 1..Len(currBuffer') : FALSE BY <1>6
  <2> QED BY <1>2, <1>5, <1>6, <2>1, <2>2 DEF CollectedOK
<1>8. ChunksOK'
  <2>1. PICK n \in Int : n = currMsgLength BY <1>5
  <2>2. PICK q \in Nat : n = ChunkLength(lengths) /\ index1 - n = q * (n + 1)
    BY <1>1, <1>2, <1>5, <2>1 DEF ChunksOK
  <2>3. ChunkLength(lengths)' = ChunkLength(lengths) BY <1>2 DEF ChunkLength
  <2>4. q + 1 \in Nat /\ index1' - Len(currBuffer') = (q + 1) * (n + 1)
    <3>1. PICK m \in Int : m = n + 1 OBVIOUS
    <3>2. index1 + 1 = q * m + m BY <1>5, <2>2, <3>1
    <3>3. (q + 1) * m = q * m + m BY <3>1
    <3>4. index1' - Len(currBuffer') = index1 + 1 BY <1>2, <1>5, <1>6
    <3>5. q + 1 \in Nat OBVIOUS
    <3>6. index1' - Len(currBuffer') = (q + 1) * m BY <3>2, <3>3, <3>4, Zenon
    <3> QED BY <3>1, <3>5, <3>6, Zenon
  <2>5. currMsgLength' = ChunkLength(lengths)'
        /\ \E r \in Nat : index1' - Len(currBuffer') = r * (currMsgLength' + 1)
    BY <1>2, <2>1, <2>2, <2>3, <2>4, Zenon
  <2> QED BY <2>5 DEF ChunksOK
<1>9. TreatedOK'
  <2>1. CASE Len(currBuffer) >= 5 /\ IsMessage(currBuffer)
    <3>1. PICK p : p = index1 - currMsgLength OBVIOUS
    <3>2. p \in 0..Received /\ (p \in FramedStarts \/ FalseJoin(p))
      BY <2>1, <3>1, ChunkTreated
    <3>3. treated' = treated \union {p} BY <1>3, <2>1, <3>1
    <3>4. treated \subseteq 0..Received /\ OnlyFramedTreated BY <1>1 DEF TreatedOK
    <3>5. FramedStarts' = FramedStarts BY <1>2, <1>4 DEF FramedStarts
    <3>6. \A r : FalseJoin(r)' <=> FalseJoin(r) BY <1>2 DEF FalseJoin
    <3>7. OnlyFramedTreated' BY <3>2, <3>3, <3>4, <3>5, <3>6 DEF OnlyFramedTreated
    <3>8. (treated \subseteq 0..Received)' BY <1>4, <3>2, <3>3, <3>4
    <3> QED BY <3>7, <3>8 DEF TreatedOK
  <2>2. CASE ~(Len(currBuffer) >= 5 /\ IsMessage(currBuffer))
    <3>1. UNCHANGED treated BY <1>3, <2>2
    <3> QED BY <1>1, <1>2, <3>1, SameStream
  <2> QED BY <2>1, <2>2
<1> QED BY <1>4, <1>7, <1>8, <1>9 DEF SocketInv

LEMMA SocketStep == ShortPackets /\ SocketInv /\ [Next]_vars => SocketInv'
<1> SUFFICES ASSUME ShortPackets, SocketInv, [Next]_vars PROVE SocketInv' OBVIOUS
<1>1. CASE CollectLength BY <1>1, CollectLengthKeeps
<1>2. CASE CollectByte BY <1>2, CollectByteKeeps
<1>3. CASE HandOver BY <1>3, HandOverKeeps
<1>4. CASE UNCHANGED vars
  <2>1. UNCHANGED <<lengths, bytes, index1, currBuffer, currMsgLength, treated>>
    BY <1>4 DEF vars
  <2>2. StreamOK' /\ TreatedOK' /\ Received' = Received
    BY <2>1, SameStream DEF SocketInv
  <2>3. CollectedOK' BY <2>1, <2>2 DEF SocketInv, CollectedOK
  <2>4. ChunksOK' BY <2>1, <2>2 DEF SocketInv, ChunksOK, ChunkLength
  <2> QED BY <2>2, <2>3, <2>4 DEF SocketInv
<1> QED BY <1>1, <1>2, <1>3, <1>4 DEF Next

\* Of packets that two bytes can count: what the loop has collected are the bytes in front
\* of its position, its length is the first packet's, and its chunks begin where that length
\* says (theMain.cpp:385-419).
THEOREM SocketInvariant == ShortPackets => (Spec => []SocketInv)
<1>1. ShortPackets /\ Init => SocketInv BY SocketStart
<1>2. ShortPackets /\ SocketInv /\ [Next]_vars => SocketInv' BY SocketStep
<1>3. ASSUME ShortPackets PROVE Spec => []SocketInv
  <2>1. Init => SocketInv BY <1>1, <1>3
  <2>2. SocketInv /\ [Next]_vars => SocketInv' BY <1>2, <1>3
  <2> QED BY <2>1, <2>2, PTL DEF Spec
<1> QED BY <1>3

\* The types follow from the invariant of the loop.
LEMMA SocketTypes == SocketInv => TypeOK
<1> SUFFICES ASSUME SocketInv PROVE TypeOK OBVIOUS
<1>1. /\ lengths \in Seq(Lengths) /\ bytes \in Seq(Byte)
      /\ index1 \in Nat /\ index1 <= Received + 1 /\ currBuffer \in Seq(Chars)
      /\ currMsgLength \in Int /\ treated \subseteq 0..Received
  BY DEF SocketInv, StreamOK, CollectedOK, TreatedOK
<1>2. Received \in Nat BY <1>1, LenProperties DEF Received
<1>3. index1 \in 0..(Received + 1) BY <1>1, <1>2
<1> QED BY <1>1, <1>3 DEF TypeOK, Chars

\* The variables of the loop stay within their types, and treatMessage is given no chunk
\* that begins outside the receive.
THEOREM SocketTypeCorrect == ShortPackets => (Spec => []TypeOK)
<1>1. ASSUME ShortPackets PROVE Spec => []TypeOK
  <2>1. Spec => []SocketInv BY <1>1, SocketInvariant
  <2> QED BY SocketTypes, <2>1, PTL
<1> QED BY <1>1

\* Every chunk that treatMessage takes for a message begins where a packet begins and is one
\* that the closed form names, or is the false JOIN three bytes before a long packet
\* (theMain.cpp:385-419, 437).
THEOREM OnlyFramedPass == ShortPackets => (Spec => []OnlyFramedTreated)
<1>1. SocketInv => OnlyFramedTreated BY DEF SocketInv, TreatedOK
<1>2. ASSUME ShortPackets PROVE Spec => []OnlyFramedTreated
  <2>1. Spec => []SocketInv BY <1>2, SocketInvariant
  <2> QED BY <1>1, <2>1, PTL
<1> QED BY <1>2

-----------------------------------------------------------------------------
\* The parts together, as they are model-checked: one of them runs, the others rest.

\* The receive that rests holds a packet that is sent.
RestIsSent == 7 \in Lengths

\* The types of a receive that was read.
LEMMA SocketRestTypes == ASSUME RestIsSent, SocketRests PROVE TypeOK
<1>1. WireOf(7) \in Seq(Byte) /\ Len(WireOf(7)) = 7
  <2>1. 7 \in Nat OBVIOUS
  <2> QED BY <2>1, WireBytes
<1>2. lengths \in Seq(Lengths) BY DEF SocketRests, RestIsSent
<1>3. bytes \in Seq(Byte) /\ Received = 7 BY <1>1 DEF SocketRests, Received
<1>4. currBuffer \in Seq(-128..127) BY EmptySeq DEF SocketRests
<1>5. index1 \in 0..(Received + 1) /\ currMsgLength \in Int /\ treated \subseteq 0..Received
  BY <1>3 DEF SocketRests
<1> QED BY <1>2, <1>3, <1>4, <1>5, Zenon DEF TypeOK

\* The types of a receive that was not looked at.
LEMMA ReceiveRestTypes == ASSUME ReceiveRests PROVE ReceiveTypeOK
<1>1. DefaultBufferLength \in Nat BY PacketAssumption
<1>2. DOMAIN lines = {} BY DEF ReceiveRests
<1>3. /\ m_readIndex \in Nat /\ bytesInBuffer \in Int /\ packetLength \in Int
      /\ ended = "no" /\ ~(bytesInBuffer > DefaultBufferLength)
  BY <1>1 DEF ReceiveRests
<1> QED BY <1>2, <1>3, Zenon DEF ReceiveTypeOK

\* The types of a message that was not built.
LEMMA FieldsRestTypes == ASSUME FieldsRest PROVE FieldsTypeOK
<1>1. Len(read) = 0 /\ Len(sizes) = 1 BY DEF FieldsRest
<1>2. /\ readIndex \in Nat /\ messageLength = 0 /\ messageLength \in Int
      /\ msgID = "LEAVE_ROOM" /\ stage = "build"
  BY DEF FieldsRest
<1> QED BY <1>1, <1>2, SMT DEF FieldsTypeOK

\* What each part has while it runs, or while it rests.
PartsInv ==
  /\ IF part = "readSocket" THEN SocketInv ELSE SocketRests
  /\ IF part = "getMessages" THEN ReceiveInv ELSE ReceiveRests
  /\ IF part = "sendMessage" THEN FieldInv ELSE FieldsRest
  /\ ConsoleInv

\* Whichever part runs, it starts with its invariant.
LEMMA PartsStart == ASSUME ShortPackets, MessagesInit PROVE PartsInv
<1>1. ConsoleInv BY ConsoleStart DEF MessagesInit
<1>2. Init => SocketInv BY SocketStart
<1>3. ReceiveInit => ReceiveInv BY ReceiveStart
<1>4. FieldsInit => FieldInv BY FieldsStart
<1> QED BY <1>1, <1>2, <1>3, <1>4, Zenon DEF MessagesInit, PartsInv

\* A part that rests stays as it is.
LEMMA RestKept ==
  /\ SocketRests /\ UNCHANGED vars => SocketRests'
  /\ ReceiveRests /\ UNCHANGED receiveVars => ReceiveRests'
  /\ FieldsRest /\ UNCHANGED fieldVars => FieldsRest'
<1>1. SocketRests /\ UNCHANGED vars => SocketRests' BY DEF SocketRests, vars
<1>2. ReceiveRests /\ UNCHANGED receiveVars => ReceiveRests' BY DEF ReceiveRests, receiveVars
<1>3. FieldsRest /\ UNCHANGED fieldVars => FieldsRest' BY DEF FieldsRest, fieldVars
<1> QED BY <1>1, <1>2, <1>3

\* The part that runs keeps its invariant, and the others stay as they are.
LEMMA PartsStep == ASSUME ShortPackets, PartsInv, [MessagesNext]_allVars PROVE PartsInv'
<1>1. SocketInv /\ [Next]_vars => SocketInv' BY SocketStep
<1>2. ReceiveInv /\ [ReceiveNext]_receiveVars => ReceiveInv' BY ReceiveStep
<1>3. FieldInv /\ [FieldsNext]_fieldVars => FieldInv' BY FieldsStep
<1>4. ConsoleInv /\ [ConsoleNext]_consoleVars => ConsoleInv' BY ConsoleStep
<1>5. /\ [Next]_vars /\ (part # "readSocket" => UNCHANGED vars)
      /\ [ReceiveNext]_receiveVars /\ (part # "getMessages" => UNCHANGED receiveVars)
      /\ [FieldsNext]_fieldVars /\ (part # "sendMessage" => UNCHANGED fieldVars)
      /\ [ConsoleNext]_consoleVars /\ part' = part
  <2>1. CASE part = "readSocket" /\ Next /\ UNCHANGED <<receiveVars, fieldVars, consoleVars, part>>
    BY <2>1, Zenon
  <2>2. CASE part = "getMessages" /\ ReceiveNext /\ UNCHANGED <<vars, fieldVars, consoleVars, part>>
    BY <2>2, Zenon
  <2>3. CASE part = "sendMessage" /\ FieldsNext /\ UNCHANGED <<vars, receiveVars, consoleVars, part>>
    BY <2>3, Zenon
  <2>4. CASE part = "console" /\ ConsoleNext /\ UNCHANGED <<vars, receiveVars, fieldVars, part>>
    BY <2>4, Zenon
  <2>5. CASE UNCHANGED allVars
    BY <2>5, Zenon DEF allVars
  <2> QED BY <2>1, <2>2, <2>3, <2>4, <2>5, Zenon DEF MessagesNext
<1> QED BY <1>1, <1>2, <1>3, <1>4, <1>5, RestKept, Zenon DEF PartsInv

\* The types of all the parts, of the one that runs and of those that rest.
THEOREM PartsTypeCorrect == ShortPackets /\ RestIsSent => (MessagesSpec => []MessagesTypeOK)
<1>1. ASSUME RestIsSent PROVE PartsInv => MessagesTypeOK
  <2> SUFFICES ASSUME PartsInv PROVE MessagesTypeOK OBVIOUS
  <2>1. TypeOK BY <1>1, SocketTypes, SocketRestTypes, Zenon DEF PartsInv
  <2>2. ReceiveTypeOK BY ReceiveTypes, ReceiveRestTypes, Zenon DEF PartsInv
  <2>3. FieldsTypeOK BY FieldsTypes, FieldsRestTypes, Zenon DEF PartsInv
  <2>4. ConsoleTypeOK BY ConsoleTypes, Zenon DEF PartsInv
  <2> QED BY <2>1, <2>2, <2>3, <2>4, Zenon DEF MessagesTypeOK
<1>2. ASSUME ShortPackets, RestIsSent PROVE MessagesSpec => []MessagesTypeOK
  <2>1. MessagesInit => PartsInv BY <1>2, PartsStart
  <2>2. PartsInv /\ [MessagesNext]_allVars => PartsInv' BY <1>2, PartsStep
  <2>3. PartsInv => MessagesTypeOK BY <1>1, <1>2
  <2> QED BY <2>1, <2>2, <2>3, PTL DEF MessagesSpec
<1> QED BY <1>2
=============================================================================
