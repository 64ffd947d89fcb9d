--------------------------- MODULE AuthServerProofs ---------------------------
(***************************************************************************)
(* Proofs about AuthServer, for any number of servers, e-mails, passwords, *)
(* requests and tries, whatever e-mails are too long and whatever the      *)
(* parser of protobuf makes of messages that are received together.        *)
(***************************************************************************)
EXTENDS AuthServer, UserAccountsProofs

LEMMA LoopNumbers == MaxRequests \in Nat /\ MaxTries \in Nat \ {0}
  BY LoopAssumption

Questions == [op : Operations, email : Emails, password : Passwords]

\* The chat server never asks about an empty e-mail.
AskedOK(a) ==
  /\ a \in Seq(Questions) /\ Len(a) <= MaxRequests
  /\ \A i \in DOMAIN a : a[i].email # NoEmail

\* A message repeats what was asked under its id.
OfAsked(m, a) ==
  m.rid \in DOMAIN a /\ a[m.rid] = [op |-> m.op, email |-> m.email, password |-> m.password]

\* Messages that were asked in this order.
WireOK(q, a) ==
  /\ q \in Seq(Messages)
  /\ \A i \in DOMAIN q : q[i].kind = "request" => OfAsked(q[i], a)
  /\ \A i, j \in DOMAIN q :
       i < j /\ q[i].kind = "request" /\ q[j].kind = "request" => q[i].rid < q[j].rid

-----------------------------------------------------------------------------
\* Lemmas about messages.

LEMMA MessageParts ==
  ASSUME NEW m \in Messages
  PROVE  /\ m.kind = "request" <=> m # Text
         /\ m # Text => /\ m.rid \in 1..MaxRequests /\ m.op \in Operations
                        /\ m.email \in Emails /\ m.password \in Passwords
BY DEF Messages, Text

LEMMA WireEmpty ==
  ASSUME NEW a
  PROVE  WireOK(<<>>, a)
BY DEF WireOK

\* What one recv takes, and what it leaves.
LEMMA WireCut ==
  ASSUME NEW a, NEW q, WireOK(q, a), NEW k \in 1..Len(q)
  PROVE  /\ WireOK(SubSeq(q, 1, k), a) /\ SubSeq(q, 1, k) # <<>>
         /\ WireOK(SubSeq(q, k + 1, Len(q)), a)
<1>1. q \in Seq(Messages) /\ Len(q) \in Nat /\ k \in Nat /\ 1 <= k /\ k <= Len(q)
      /\ DOMAIN q = 1..Len(q)
  BY DEF WireOK
<1>2. /\ SubSeq(q, 1, k) \in Seq(Messages) /\ Len(SubSeq(q, 1, k)) = k
      /\ DOMAIN SubSeq(q, 1, k) = 1..k
      /\ \A i \in 1..k : SubSeq(q, 1, k)[i] = q[i] /\ i \in DOMAIN q
  BY <1>1
<1>3. WireOK(SubSeq(q, 1, k), a) BY <1>2 DEF WireOK
<1>4. SubSeq(q, 1, k) # <<>> BY <1>1, <1>2
<1> DEFINE rest == SubSeq(q, k + 1, Len(q))
<1>5. /\ rest \in Seq(Messages)
      /\ DOMAIN rest = 1 .. Len(q) - k
      /\ \A i \in 1 .. Len(q) - k : rest[i] = q[k + i] /\ k + i \in DOMAIN q
  BY <1>1
<1> HIDE DEF rest
<1>6. \A i, j \in 1 .. Len(q) - k : i < j => k + i < k + j BY <1>1
<1>7. WireOK(rest, a) BY <1>5, <1>6 DEF WireOK
<1> QED BY <1>3, <1>4, <1>7 DEF rest

LEMMA WireText ==
  ASSUME NEW a, NEW q, WireOK(q, a)
  PROVE  WireOK(Append(q, Text), a)
<1> DEFINE new == Append(q, Text)
<1>1. Text \in Messages /\ Text.kind # "request" BY DEF Messages, Text
<1>2. q \in Seq(Messages) /\ Len(q) \in Nat BY DEF WireOK
<1>3. /\ new \in Seq(Messages) /\ DOMAIN new = 1 .. Len(q) + 1
      /\ \A i \in 1..Len(q) : new[i] = q[i]
      /\ new[Len(q) + 1] = Text
  BY <1>1, <1>2, AppendProperties
<1>4. \A i \in DOMAIN new : i \in DOMAIN q \/ i = Len(q) + 1 BY <1>2, <1>3
<1>5. DOMAIN q = 1..Len(q) BY <1>2
<1> HIDE DEF new
<1>6. WireOK(new, a) BY <1>1, <1>3, <1>4, <1>5 DEF WireOK
<1> QED BY <1>6 DEF new

\* What was asked remains what it was when more is asked.
LEMMA AskedGrows ==
  ASSUME NEW a, AskedOK(a), Len(a) < MaxRequests, NEW x \in Questions, x.email # NoEmail
  PROVE  /\ AskedOK(Append(a, x)) /\ Len(Append(a, x)) = Len(a) + 1
         /\ Len(a) + 1 \in DOMAIN Append(a, x) /\ Append(a, x)[Len(a) + 1] = x
         /\ \A i \in DOMAIN a : i \in DOMAIN Append(a, x) /\ Append(a, x)[i] = a[i]
         /\ \A i \in DOMAIN a : i < Len(a) + 1
<1> DEFINE b == Append(a, x)
<1>1. a \in Seq(Questions) /\ Len(a) \in Nat /\ DOMAIN a = 1..Len(a) BY DEF AskedOK
<1>2. /\ b \in Seq(Questions) /\ Len(b) = Len(a) + 1 /\ DOMAIN b = 1 .. Len(a) + 1
      /\ \A i \in 1..Len(a) : b[i] = a[i]
      /\ b[Len(a) + 1] = x
  BY <1>1, AppendProperties
<1>3. /\ \A i \in DOMAIN b : i \in DOMAIN a \/ i = Len(a) + 1
      /\ \A i \in DOMAIN a : i \in DOMAIN b /\ i < Len(a) + 1
      /\ Len(a) + 1 \in DOMAIN b
  BY <1>1, <1>2
<1>4. Len(a) + 1 <= MaxRequests BY <1>1, LoopNumbers
<1> HIDE DEF b
<1>5. AskedOK(b) BY <1>1, <1>2, <1>3, <1>4 DEF AskedOK
<1> QED BY <1>1, <1>2, <1>3, <1>5 DEF b

LEMMA WireKept ==
  ASSUME NEW a, NEW b, \A i \in DOMAIN a : i \in DOMAIN b /\ b[i] = a[i],
         NEW q, WireOK(q, a)
  PROVE  WireOK(q, b)
BY DEF WireOK, OfAsked

\* The next request may be put behind all others.
LEMMA WireRequest ==
  ASSUME NEW a, AskedOK(a), Len(a) < MaxRequests, NEW q, WireOK(q, a),
         NEW op \in Operations, NEW email \in Emails, NEW password \in Passwords,
         email # NoEmail
  PROVE  LET b == Append(a, [op |-> op, email |-> email, password |-> password])
         IN  WireOK(Append(q, Request(Len(b), op, email, password)), b)
<1> DEFINE x == [op |-> op, email |-> email, password |-> password]
           b == Append(a, x)
           m == Request(Len(a) + 1, op, email, password)
           new == Append(q, m)
<1>1. x \in Questions /\ x.email # NoEmail BY DEF Questions
<1>2. /\ AskedOK(b) /\ Len(b) = Len(a) + 1
      /\ Len(a) + 1 \in DOMAIN b /\ b[Len(a) + 1] = x
      /\ \A i \in DOMAIN a : i \in DOMAIN b /\ b[i] = a[i]
      /\ \A i \in DOMAIN a : i < Len(a) + 1
  BY <1>1, AskedGrows
<1>3. m \in Messages /\ OfAsked(m, b) /\ m.rid = Len(a) + 1
  <2>1. Len(a) \in Nat /\ MaxRequests \in Nat BY LoopNumbers DEF AskedOK
  <2>2. Len(a) + 1 \in 1..MaxRequests BY <2>1
  <2>3. m = [kind |-> "request", rid |-> Len(a) + 1, op |-> op, email |-> email,
             password |-> password]
    BY DEF Request
  <2> HIDE DEF m, b
  <2>4. m \in Messages BY <2>2, <2>3 DEF Messages
  <2>5. OfAsked(m, b) BY <1>2, <2>3 DEF OfAsked
  <2> QED BY <2>3, <2>4, <2>5
<1>4. WireOK(q, b) BY <1>2, WireKept
<1>5. q \in Seq(Messages) /\ Len(q) \in Nat /\ DOMAIN q = 1..Len(q) BY DEF WireOK
<1>6. /\ new \in Seq(Messages) /\ DOMAIN new = 1 .. Len(q) + 1
      /\ \A i \in 1..Len(q) : new[i] = q[i]
      /\ new[Len(q) + 1] = m
  BY <1>3, <1>5, AppendProperties
<1>7. /\ \A i \in DOMAIN new : i \in DOMAIN q \/ i = Len(q) + 1
      /\ \A i \in DOMAIN new : ~(Len(q) + 1 < i)
  BY <1>5, <1>6
<1>8. \A i \in DOMAIN q : q[i].kind = "request" => q[i].rid < Len(a) + 1
  BY <1>2 DEF WireOK, OfAsked
<1> HIDE DEF x, b, m, new
<1>9. WireOK(new, b)
  <2>1. \A i \in DOMAIN new : new[i].kind = "request" => OfAsked(new[i], b)
    BY <1>3, <1>4, <1>5, <1>6, <1>7 DEF WireOK
  <2>2. ASSUME NEW i \in DOMAIN new, NEW j \in DOMAIN new, i < j,
               new[i].kind = "request", new[j].kind = "request"
        PROVE  new[i].rid < new[j].rid
    <3>1. i \in DOMAIN q BY <1>7, <2>2
    <3>2. CASE j \in DOMAIN q BY <1>4, <1>5, <1>6, <2>2, <3>1, <3>2 DEF WireOK
    <3>3. CASE j = Len(q) + 1 BY <1>3, <1>5, <1>6, <1>8, <2>2, <3>1, <3>3
    <3> QED BY <1>7, <3>2, <3>3
  <2> QED BY <1>6, <2>1, <2>2 DEF WireOK
<1>10. Len(b) = Len(a) + 1 BY <1>2
<1> QED BY <1>9, <1>10 DEF x, b, m, new

-----------------------------------------------------------------------------
\* The inductive invariant.

WireInv ==
  /\ AskedOK(asked)
  /\ toAuth \in [Servers -> Seq(Messages)] /\ working \in [Servers -> Seq(Messages)]
  /\ \A s \in Servers : WireOK(toAuth[s], asked) /\ WireOK(working[s], asked)

\* What a call, and the id it is answered under, have to do with the messages it is for.
CallFor(c, rid, ms) ==
  /\ Head(ms) # Text
  /\ c.op = OpOf(Head(ms))
  /\ Fields(rid, c.email, c.password) \in Parsed(ms)

CallInv ==
  /\ requestid \in [Servers -> StrayIds \union 0..MaxRequests]
  /\ \A s \in Servers :
       /\ pc[s] = "idle" <=> working[s] = <<>>
       /\ pc[s] # "idle" =>
            phase[s] = "serving" /\ CallFor(call[s], requestid[s], working[s])

\* The types of what belongs to a process.
TriesInv ==
  /\ phase \in [Servers -> {"validating", "asking", "serving", "stopped"}]
  /\ link \in [Servers -> {"up", "lost", "closed"}]
  /\ toGreet \in [Servers -> Nat] /\ tries \in [Servers -> 0..MaxTries]

LoopInv == ReportsInv /\ WireInv /\ CallInv /\ TriesInv

\* What the chat server, the network and the user do leaves the accounts alone.
LEMMA AccountsKept ==
  ASSUME UNCHANGED accountVars
  PROVE  UNCHANGED <<web_auth, pc, call, results>>
BY DEF accountVars, tables, locals, histories

LEMMA WiresKept ==
  ASSUME WireInv, UNCHANGED asked, NEW s \in Servers,
         NEW q, WireOK(q, asked), NEW w, WireOK(w, asked),
         toAuth' = toAuth \/ toAuth' = [toAuth EXCEPT ![s] = q],
         working' = working \/ working' = [working EXCEPT ![s] = w]
  PROVE  WireInv'
<1>1. q \in Seq(Messages) /\ w \in Seq(Messages) BY DEF WireOK
<1>2. toAuth' \in [Servers -> Seq(Messages)] /\ working' \in [Servers -> Seq(Messages)]
  BY <1>1 DEF WireInv
<1>3. ASSUME NEW t \in Servers
      PROVE  WireOK(toAuth'[t], asked) /\ WireOK(working'[t], asked)
  <2>1. toAuth'[t] = toAuth[t] \/ toAuth'[t] = q BY DEF WireInv
  <2>2. working'[t] = working[t] \/ working'[t] = w BY DEF WireInv
  <2>3. WireOK(toAuth[t], asked) /\ WireOK(working[t], asked) BY DEF WireInv
  <2> QED BY <2>1, <2>2, <2>3
<1> QED BY <1>2, <1>3 DEF WireInv

LEMMA CallsKept ==
  ASSUME CallInv, UNCHANGED <<pc, call, working, requestid>>,
         \A t \in Servers : pc[t] # "idle" => phase'[t] = phase[t]
  PROVE  CallInv'
BY DEF CallInv

LEMMA TriesKept ==
  ASSUME TriesInv, NEW s \in Servers, UNCHANGED <<toGreet, tries>>,
         NEW p \in {"validating", "asking", "serving", "stopped"},
         NEW l \in {"up", "lost", "closed"},
         phase' = phase \/ phase' = [phase EXCEPT ![s] = p],
         link' = link \/ link' = [link EXCEPT ![s] = l]
  PROVE  TriesInv'
BY DEF TriesInv

LEMMA SameWires ==
  ASSUME WireInv, UNCHANGED <<toAuth, working, asked>>
  PROVE  WireInv'
BY DEF WireInv

-----------------------------------------------------------------------------
\* The steps of the chat server.

LEMMA AskStep ==
  ASSUME LoopInv, NEW op \in Operations, NEW email \in Emails, NEW password \in Passwords,
         Ask(op, email, password)
  PROVE  WireInv' /\ CallInv' /\ TriesInv' /\ UNCHANGED accountVars
<1> DEFINE x == [op |-> op, email |-> email, password |-> password]
           m == Request(Len(Append(asked, x)), op, email, password)
<1>1. /\ AskedOK(asked) /\ Len(asked) < MaxRequests /\ email # NoEmail
      /\ asked' = Append(asked, x)
      /\ UNCHANGED <<accountVars, phase, link, working, requestid, toGreet, tries>>
  BY DEF Ask, LoopInv, WireInv
<1>2. x \in Questions /\ x.email # NoEmail BY <1>1 DEF Questions
<1>3. AskedOK(asked') /\ \A i \in DOMAIN asked : i \in DOMAIN asked' /\ asked'[i] = asked[i]
  BY <1>1, <1>2, AskedGrows
<1>4. ASSUME NEW q, WireOK(q, asked) PROVE WireOK(q, asked') /\ WireOK(Append(q, m), asked')
  BY <1>1, <1>3, <1>4, WireKept, WireRequest
<1> HIDE DEF x, m
<1>5. PICK to \in SUBSET Servers :
        toAuth' = [s \in Servers |-> IF s \in to THEN Append(toAuth[s], m) ELSE toAuth[s]]
  BY <1>1 DEF Ask, m
<1>6. \A s \in Servers : WireOK(toAuth'[s], asked') /\ WireOK(working'[s], asked')
  BY <1>1, <1>4, <1>5 DEF LoopInv, WireInv
<1>7. toAuth' \in [Servers -> Seq(Messages)] /\ working' \in [Servers -> Seq(Messages)]
  BY <1>1, <1>5, <1>6 DEF WireOK, LoopInv, WireInv
<1>8. WireInv' BY <1>3, <1>6, <1>7 DEF WireInv
<1>9. CallInv' BY <1>1, AccountsKept, CallsKept DEF LoopInv
<1>10. TriesInv' BY <1>1 DEF LoopInv, TriesInv
<1> QED BY <1>1, <1>8, <1>9, <1>10

LEMMA GreetStep ==
  ASSUME LoopInv, NEW s \in Servers, Greet(s)
  PROVE  WireInv' /\ CallInv' /\ TriesInv' /\ UNCHANGED accountVars
<1>1. /\ toAuth' = [toAuth EXCEPT ![s] = Append(toAuth[s], Text)]
      /\ toGreet[s] > 0 /\ toGreet' = [toGreet EXCEPT ![s] = toGreet[s] - 1]
      /\ UNCHANGED <<accountVars, phase, link, working, requestid, tries, asked>>
  BY DEF Greet
<1>2. UNCHANGED <<pc, call>> BY <1>1, AccountsKept
<1>3. WireInv'
  <2>1. WireOK(toAuth[s], asked) BY DEF LoopInv, WireInv
  <2>2. WireOK(Append(toAuth[s], Text), asked) BY <2>1, WireText
  <2> QED BY <1>1, <2>1, <2>2, WiresKept DEF LoopInv
<1>4. CallInv' BY <1>1, <1>2, CallsKept DEF LoopInv
<1>5. TriesInv'
  <2>1. toGreet \in [Servers -> Nat] BY DEF LoopInv, TriesInv
  <2>2. toGreet[s] - 1 \in Nat BY <1>1, <2>1
  <2> QED BY <1>1, <2>1, <2>2 DEF LoopInv, TriesInv
<1> QED BY <1>1, <1>3, <1>4, <1>5

LEMMA LoseStep ==
  ASSUME LoopInv, NEW s \in Servers, Lose(s)
  PROVE  WireInv' /\ CallInv' /\ TriesInv' /\ UNCHANGED accountVars
<1>1. /\ link' = [link EXCEPT ![s] = "lost"]
      /\ toAuth' = toAuth \/ toAuth' = [toAuth EXCEPT ![s] = <<>>]
      /\ UNCHANGED <<accountVars, phase, working, requestid, toGreet, tries, asked>>
  BY DEF Lose
<1>2. UNCHANGED <<pc, call>> BY <1>1, AccountsKept
<1>3. WireInv' BY <1>1, WireEmpty, WiresKept DEF LoopInv
<1>4. CallInv' BY <1>1, <1>2, CallsKept DEF LoopInv
<1>5. TriesInv' BY <1>1, TriesKept DEF LoopInv
<1> QED BY <1>1, <1>3, <1>4, <1>5

-----------------------------------------------------------------------------
\* The steps of the process.

LEMMA ValidatedStep ==
  ASSUME LoopInv, NEW s \in Servers, Validated(s) \/ NotValidated(s)
  PROVE  WireInv' /\ CallInv' /\ TriesInv' /\ UNCHANGED accountVars
<1>1. /\ phase[s] = "validating"
      /\ phase' = [phase EXCEPT ![s] = "serving"] \/ phase' = [phase EXCEPT ![s] = "asking"]
      /\ UNCHANGED <<accountVars, working, requestid, toGreet, tries, asked>>
  BY DEF Validated, NotValidated
<1>2. \/ UNCHANGED link
      \/ link' = [link EXCEPT ![s] = "closed"]
  BY DEF Validated, NotValidated, Failed
<1>3. \/ UNCHANGED toAuth \/ toAuth' = [toAuth EXCEPT ![s] = <<>>]
      \/ \E k \in 1..Len(toAuth[s]) :
           toAuth' = [toAuth EXCEPT ![s] = SubSeq(toAuth[s], k + 1, Len(toAuth[s]))]
  BY DEF Validated, NotValidated, Failed, Received
<1>4. UNCHANGED <<pc, call>> BY <1>1, AccountsKept
<1>5. WireInv'
  <2>1. WireOK(toAuth[s], asked) BY DEF LoopInv, WireInv
  <2>2. ASSUME NEW k \in 1..Len(toAuth[s])
        PROVE  WireOK(SubSeq(toAuth[s], k + 1, Len(toAuth[s])), asked)
    BY <2>1, WireCut
  <2> QED BY <1>1, <1>3, <2>2, WireEmpty, WiresKept DEF LoopInv
<1>6. CallInv'
  <2>1. \A t \in Servers : pc[t] # "idle" => phase'[t] = phase[t]
    <3>1. pc[s] = "idle" BY <1>1 DEF LoopInv, CallInv
    <3> QED BY <1>1, <3>1 DEF LoopInv, TriesInv
  <2> QED BY <1>1, <1>4, <2>1, CallsKept DEF LoopInv
<1>7. TriesInv' BY <1>1, <1>2, TriesKept DEF LoopInv
<1> QED BY <1>1, <1>5, <1>6, <1>7

LEMMA TryAgainStep ==
  ASSUME LoopInv, NEW s \in Servers, TryAgain(s)
  PROVE  WireInv' /\ CallInv' /\ TriesInv' /\ UNCHANGED accountVars
<1>1. /\ phase[s] = "asking" /\ tries[s] > 0
      /\ phase' = [phase EXCEPT ![s] = "validating"]
      /\ tries' = [tries EXCEPT ![s] = tries[s] - 1]
      /\ toGreet' = [toGreet EXCEPT ![s] = IF link[s] = "up" THEN toGreet[s] + 1 ELSE toGreet[s]]
      /\ UNCHANGED link \/ link' = [link EXCEPT ![s] = "closed"]
      /\ UNCHANGED <<accountVars, toAuth, working, requestid, asked>>
  BY DEF TryAgain, Sent
<1>2. UNCHANGED <<pc, call>> BY <1>1, AccountsKept
<1>3. WireInv' BY <1>1, SameWires DEF LoopInv
<1>4. CallInv'
  <2>1. \A t \in Servers : pc[t] # "idle" => phase'[t] = phase[t]
    <3>1. pc[s] = "idle" BY <1>1 DEF LoopInv, CallInv
    <3> QED BY <1>1, <3>1 DEF LoopInv, TriesInv
  <2> QED BY <1>1, <1>2, <2>1, CallsKept DEF LoopInv
<1>5. TriesInv'
  <2>1. toGreet \in [Servers -> Nat] /\ tries \in [Servers -> 0..MaxTries]
    BY DEF LoopInv, TriesInv
  <2>2. tries[s] - 1 \in 0..MaxTries /\ toGreet[s] + 1 \in Nat BY <1>1, <2>1, LoopNumbers
  <2>3. toGreet' \in [Servers -> Nat] /\ tries' \in [Servers -> 0..MaxTries]
    BY <1>1, <2>1, <2>2
  <2> QED BY <1>1, <2>3 DEF LoopInv, TriesInv
<1> QED BY <1>1, <1>3, <1>4, <1>5

LEMMA GiveUpStep ==
  ASSUME LoopInv, NEW s \in Servers, GiveUp(s)
  PROVE  WireInv' /\ CallInv' /\ TriesInv' /\ UNCHANGED accountVars
<1>1. /\ phase[s] = "asking" /\ phase' = [phase EXCEPT ![s] = "stopped"]
      /\ UNCHANGED <<accountVars, link, toAuth, working, requestid, toGreet, tries, asked>>
  BY DEF GiveUp
<1>2. UNCHANGED <<pc, call>> BY <1>1, AccountsKept
<1>3. WireInv' BY <1>1, SameWires DEF LoopInv
<1>4. CallInv'
  <2>1. \A t \in Servers : pc[t] # "idle" => phase'[t] = phase[t]
    <3>1. pc[s] = "idle" BY <1>1 DEF LoopInv, CallInv
    <3> QED BY <1>1, <3>1 DEF LoopInv, TriesInv
  <2> QED BY <1>1, <1>2, <2>1, CallsKept DEF LoopInv
<1>5. TriesInv' BY <1>1, TriesKept DEF LoopInv
<1> QED BY <1>1, <1>3, <1>4, <1>5

LEMMA ReceiveFailsStep ==
  ASSUME LoopInv, NEW s \in Servers, ReceiveFails(s)
  PROVE  WireInv' /\ CallInv' /\ TriesInv' /\ UNCHANGED accountVars
<1>1. /\ pc[s] = "idle"
      /\ link' = [link EXCEPT ![s] = "closed"] /\ toAuth' = [toAuth EXCEPT ![s] = <<>>]
      /\ phase' = phase \/ phase' = [phase EXCEPT ![s] = "stopped"]
      /\ UNCHANGED <<accountVars, working, requestid, toGreet, tries, asked>>
  BY DEF ReceiveFails, Failed
<1>2. UNCHANGED <<pc, call>> BY <1>1, AccountsKept
<1>3. WireInv' BY <1>1, WireEmpty, WiresKept DEF LoopInv
<1>4. CallInv'
  <2>1. \A t \in Servers : pc[t] # "idle" => phase'[t] = phase[t]
    BY <1>1 DEF LoopInv, TriesInv
  <2> QED BY <1>1, <1>2, <2>1, CallsKept DEF LoopInv
<1>5. TriesInv' BY <1>1, TriesKept DEF LoopInv
<1> QED BY <1>1, <1>3, <1>4, <1>5

-----------------------------------------------------------------------------
\* The steps of a call.

\* What is parsed of messages.
LEMMA ParsedParts ==
  ASSUME NEW ms \in Seq(Messages), ms # <<>>, Head(ms) # Text, NEW fields \in Parsed(ms)
  PROVE  /\ fields = Fields(fields.rid, fields.email, fields.password)
         /\ fields.rid \in StrayIds \union 0..MaxRequests
         /\ fields.email \in Emails /\ fields.password \in Passwords
         /\ ~Garbled(Head(ms)) /\ fields.email = NoEmail => Head(ms).email = NoEmail
         /\ Len(ms) = 1 => fields = FieldsOf(Head(ms))
<1> DEFINE first == FieldsOf(Head(ms))
<1>1. Head(ms) \in Messages OBVIOUS
<1>2. /\ Head(ms).rid \in 1..MaxRequests
      /\ Head(ms).email \in Emails /\ Head(ms).password \in Passwords
  BY <1>1, MessageParts
<1>3. /\ first = Fields(first.rid, first.email, first.password)
      /\ first.rid \in 0..MaxRequests /\ first.email \in Emails /\ first.password \in Passwords
      /\ ~Garbled(Head(ms)) => first.email = Head(ms).email
  <2>1. CASE Garbled(Head(ms))
    <3>1. first = Fields(0, NoEmail, "") BY <2>1 DEF FieldsOf
    <3>2. 0 \in 0..MaxRequests BY LoopNumbers
    <3>3. NoEmail \in Emails /\ "" \in Passwords BY Zenon, LoopAssumption
    <3> HIDE DEF first
    <3>4. first.rid = 0 /\ first.email = NoEmail /\ first.password = "" BY <3>1 DEF Fields
    <3> QED BY <2>1, <3>1, <3>2, <3>3, <3>4
  <2>2. CASE ~Garbled(Head(ms))
    <3>1. first = Fields(Head(ms).rid, Head(ms).email, Head(ms).password)
      BY <2>2 DEF FieldsOf
    <3>2. Head(ms).rid \in 0..MaxRequests BY <1>2, LoopNumbers
    <3> QED BY <1>2, <3>1, <3>2 DEF Fields
  <2> QED BY <2>1, <2>2
<1>4. CASE Len(ms) = 1 BY <1>3, <1>4 DEF Parsed
<1>5. CASE Len(ms) # 1
  <2>1. fields \in [rid : {first.rid} \union StrayIds,
                    email : {first.email} \union (Emails \ {NoEmail}),
                    password : {first.password} \union (Passwords \ {""})]
    BY <1>5 DEF Parsed
  <2> HIDE DEF first
  <2>2. /\ fields = Fields(fields.rid, fields.email, fields.password)
        /\ fields.rid \in {first.rid} \union StrayIds
        /\ fields.email \in {first.email} \union (Emails \ {NoEmail})
        /\ fields.password \in {first.password} \union (Passwords \ {""})
    BY <2>1 DEF Fields
  <2> QED BY <1>3, <1>5, <2>2
<1> QED BY <1>4, <1>5

\* A message that is not a text starts a call.
LEMMA DispatchCalls ==
  ASSUME LoopInv, NEW s \in Servers, pc[s] = "idle", phase[s] = "serving",
         NEW ms, WireOK(ms, asked), ms # <<>>, Dispatch(s, ms)
  PROVE  \/ UNCHANGED <<accountVars, working, requestid>>
         \/ /\ IsCalled(s) /\ working' = [working EXCEPT ![s] = ms] /\ pc'[s] # "idle"
            /\ requestid' \in [Servers -> StrayIds \union 0..MaxRequests]
            /\ \A t \in Servers : t # s => requestid'[t] = requestid[t]
            /\ CallFor(call'[s], requestid'[s], ms)
<1> DEFINE m == Head(ms)
           op == OpOf(m)
<1>1. ms \in Seq(Messages) /\ m \in Messages BY DEF WireOK
<1>2. CASE m.kind = "text" BY <1>2 DEF Dispatch
<1>3. CASE m.kind # "text"
  <2>1. m # Text BY <1>3 DEF Text
  <2>2. m.op \in Operations BY <1>1, <2>1, MessageParts
  <2>3. working' = [working EXCEPT ![s] = ms] BY <1>3 DEF Dispatch
  <2>4. PICK fields \in Parsed(ms) :
          /\ requestid' = [requestid EXCEPT ![s] = fields.rid]
          /\ Call(s, op, fields.email, fields.password)
    BY <1>3 DEF Dispatch
  <2>5. /\ fields = Fields(fields.rid, fields.email, fields.password)
        /\ fields.rid \in StrayIds \union 0..MaxRequests
        /\ fields.email \in Emails /\ fields.password \in Passwords
    BY <1>1, <2>1, ParsedParts
  <2>6. op \in Operations BY <2>2 DEF OpOf, Operations
  <2> HIDE DEF op
  <2>7. IsCalled(s) BY <2>4, <2>5, <2>6 DEF IsCalled
  <2>8. /\ call'[s] = [op |-> op, email |-> fields.email, password |-> fields.password]
        /\ pc'[s] # "idle"
    BY <2>4 DEF Call, LoopInv, ReportsInv, TypeOK
  <2>9. /\ requestid' \in [Servers -> StrayIds \union 0..MaxRequests]
        /\ requestid'[s] = fields.rid
        /\ \A t \in Servers : t # s => requestid'[t] = requestid[t]
    BY <2>4, <2>5 DEF LoopInv, CallInv
  <2>10. CallFor(call'[s], requestid'[s], ms)
    <3>1. call'[s].op = OpOf(m) BY <2>8 DEF op
    <3>2. Fields(requestid'[s], call'[s].email, call'[s].password) = fields
      BY <2>5, <2>8, <2>9
    <3> QED BY <2>1, <2>4, <3>1, <3>2 DEF CallFor
  <2> QED BY <2>3, <2>7, <2>8, <2>9, <2>10
<1> QED BY <1>2, <1>3

LEMMA ReceiveStep ==
  ASSUME LoopInv, NEW s \in Servers, Receive(s)
  PROVE  WireInv' /\ CallInv' /\ TriesInv' /\ (UNCHANGED accountVars \/ IsCalled(s))
<1>1. PICK k \in 1..Len(toAuth[s]) :
        Received(s, k) /\ Dispatch(s, SubSeq(toAuth[s], 1, k))
  BY DEF Receive
<1> DEFINE ms == SubSeq(toAuth[s], 1, k)
           rest == SubSeq(toAuth[s], k + 1, Len(toAuth[s]))
<1>2. /\ phase[s] = "serving" /\ pc[s] = "idle"
      /\ toAuth' = [toAuth EXCEPT ![s] = rest]
      /\ UNCHANGED <<phase, link, toGreet, tries, asked>>
  BY <1>1 DEF Receive, Received
<1>3. WireOK(toAuth[s], asked) BY DEF LoopInv, WireInv
<1>4. WireOK(ms, asked) /\ ms # <<>> /\ WireOK(rest, asked) BY <1>3, WireCut
<1>5. Dispatch(s, ms) BY <1>1
<1> HIDE DEF ms, rest
<1>6. \/ UNCHANGED <<accountVars, working, requestid>>
      \/ /\ IsCalled(s) /\ working' = [working EXCEPT ![s] = ms] /\ pc'[s] # "idle"
         /\ requestid' \in [Servers -> StrayIds \union 0..MaxRequests]
         /\ \A t \in Servers : t # s => requestid'[t] = requestid[t]
         /\ CallFor(call'[s], requestid'[s], ms)
  BY <1>2, <1>4, <1>5, DispatchCalls
<1>7. TriesInv' BY <1>2 DEF LoopInv, TriesInv
<1>8. WireInv' BY <1>2, <1>4, <1>6, WiresKept DEF LoopInv
<1>9. CASE UNCHANGED <<accountVars, working, requestid>>
  <2>1. CallInv' BY <1>2, <1>9, AccountsKept, CallsKept DEF LoopInv
  <2> QED BY <1>7, <1>8, <1>9, <2>1
<1>10. CASE /\ IsCalled(s) /\ working' = [working EXCEPT ![s] = ms] /\ pc'[s] # "idle"
            /\ requestid' \in [Servers -> StrayIds \union 0..MaxRequests]
            /\ \A t \in Servers : t # s => requestid'[t] = requestid[t]
            /\ CallFor(call'[s], requestid'[s], ms)
  <2>1. ASSUME NEW t \in Servers, t # s
        PROVE  pc'[t] = pc[t] /\ call'[t] = call[t] /\ working'[t] = working[t]
    BY <1>10, <2>1, OthersKept DEF LoopInv, ReportsInv
  <2>2. working'[s] = ms BY <1>10 DEF LoopInv, WireInv
  <2>3. CallInv' BY <1>2, <1>4, <1>10, <2>1, <2>2 DEF LoopInv, CallInv
  <2> QED BY <1>7, <1>8, <1>10, <2>3
<1> QED BY <1>6, <1>9, <1>10

LEMMA WorkStep ==
  ASSUME LoopInv, NEW s \in Servers, Work(s)
  PROVE  WireInv' /\ CallInv' /\ TriesInv'
<1>1. Step(s) /\ UNCHANGED <<phase, link, toAuth, working, requestid, toGreet, tries, asked>>
  BY DEF Work, loopVars
<1>2. WireInv' BY <1>1, SameWires DEF LoopInv
<1>3. TriesInv' BY <1>1 DEF LoopInv, TriesInv
<1>4. UNCHANGED call /\ \A t \in Servers : pc'[t] = "idle" <=> pc[t] = "idle"
  <2>1. TypeOK BY DEF LoopInv, ReportsInv
  <2>2. PICK place : /\ pc' = [pc EXCEPT ![s] = place]
                     /\ place = "returned" \/ <<pc[s], place>> \in Moves
    BY <1>1, <2>1, OneMove
  <2>3. UNCHANGED call /\ pc[s] \in Creating \union Looking BY <1>1, <2>1, OneMove
  <2>4. place # "idle" /\ pc[s] # "idle" BY <2>2, <2>3 DEF Moves, Creating, Looking
  <2> QED BY <2>1, <2>2, <2>3, <2>4 DEF TypeOK
<1>5. CallInv' BY <1>1, <1>4 DEF LoopInv, CallInv
<1> QED BY <1>2, <1>3, <1>5

LEMMA AnswerStep ==
  ASSUME LoopInv, NEW s \in Servers, Answer(s)
  PROVE  WireInv' /\ CallInv' /\ TriesInv'
<1>1. /\ Resume(s) /\ working' = [working EXCEPT ![s] = <<>>]
      /\ requestid' = [requestid EXCEPT ![s] = 0]
      /\ UNCHANGED link \/ link' = [link EXCEPT ![s] = "closed"]
      /\ UNCHANGED <<phase, toAuth, tries, asked>>
  BY DEF Answer, Sent
<1>2. WireInv' BY <1>1, WireEmpty, WiresKept DEF LoopInv
<1>3. TriesInv'
  <2>1. toGreet' \in [Servers -> Nat] BY DEF Answer, Told, LoopInv, TriesInv
  <2> QED BY <1>1, <2>1 DEF LoopInv, TriesInv
<1>4. CallInv'
  <2>1. TypeOK BY DEF LoopInv, ReportsInv
  <2>2. ASSUME NEW t \in Servers, t # s
        PROVE  pc'[t] = pc[t] /\ call'[t] = call[t] /\ working'[t] = working[t]
    BY <1>1, <2>1, <2>2, OthersKept DEF LoopInv, WireInv
  <2>3. pc'[s] = "idle" /\ working'[s] = <<>>
    BY <1>1, <2>1 DEF Resume, Forget, TypeOK, LoopInv, WireInv
  <2>4. /\ requestid' \in [Servers -> StrayIds \union 0..MaxRequests]
        /\ \A t \in Servers : t # s => requestid'[t] = requestid[t]
    BY <1>1, LoopNumbers DEF LoopInv, CallInv
  <2> QED BY <1>1, <2>2, <2>3, <2>4 DEF LoopInv, CallInv
<1> QED BY <1>2, <1>3, <1>4

LEMMA StartAgainStep ==
  ASSUME LoopInv, NEW s \in Servers, StartAgain(s)
  PROVE  WireInv' /\ CallInv' /\ TriesInv'
<1>1. /\ Restart(s) /\ working' = [working EXCEPT ![s] = <<>>]
      /\ requestid' = [requestid EXCEPT ![s] = 0]
      /\ toAuth' = [toAuth EXCEPT ![s] = <<>>]
      /\ phase' = [phase EXCEPT ![s] = "validating"] /\ link' = [link EXCEPT ![s] = "up"]
      /\ toGreet' = [toGreet EXCEPT ![s] = 1] /\ tries' = [tries EXCEPT ![s] = MaxTries - 1]
      /\ UNCHANGED asked
  BY DEF StartAgain
<1>2. WireInv' BY <1>1, WireEmpty, WiresKept DEF LoopInv
<1>3. TriesInv'
  <2>1. 1 \in Nat /\ MaxTries - 1 \in 0..MaxTries BY LoopNumbers
  <2> QED BY <1>1, <2>1 DEF LoopInv, TriesInv
<1>4. CallInv'
  <2>1. TypeOK BY DEF LoopInv, ReportsInv
  <2>2. ASSUME NEW t \in Servers, t # s
        PROVE  /\ pc'[t] = pc[t] /\ call'[t] = call[t] /\ working'[t] = working[t]
               /\ phase'[t] = phase[t]
    BY <1>1, <2>1, <2>2, OthersKept DEF LoopInv, WireInv, TriesInv
  <2>3. pc'[s] = "idle" /\ working'[s] = <<>>
    BY <1>1, <2>1 DEF Restart, Forget, TypeOK, LoopInv, WireInv
  <2>4. /\ requestid' \in [Servers -> StrayIds \union 0..MaxRequests]
        /\ \A t \in Servers : t # s => requestid'[t] = requestid[t]
    BY <1>1, LoopNumbers DEF LoopInv, CallInv
  <2> QED BY <1>1, <2>2, <2>3, <2>4 DEF LoopInv, CallInv
<1> QED BY <1>2, <1>3, <1>4

-----------------------------------------------------------------------------
\* The invariant holds, and to its accounts a server is as UserAccounts says.

\* What a step is to the accounts.
AccountStep ==
  UNCHANGED accountVars \/ \E s \in Servers : IsCalled(s) \/ Step(s) \/ Resume(s) \/ Restart(s)

LEMMA EachStep ==
  ASSUME LoopInv, [LoopNext]_vars
  PROVE  WireInv' /\ CallInv' /\ TriesInv' /\ AccountStep
<1>1. CASE UNCHANGED vars
  <2>1. UNCHANGED <<accountVars, phase, link, toAuth, working, requestid, toGreet, tries, asked>>
    BY <1>1 DEF vars, loopVars
  <2>2. UNCHANGED <<pc, call>> BY <2>1, AccountsKept
  <2>3. WireInv' BY <2>1, SameWires DEF LoopInv
  <2>4. CallInv' BY <2>1, <2>2, CallsKept DEF LoopInv
  <2>5. TriesInv' BY <2>1 DEF LoopInv, TriesInv
  <2> QED BY <2>1, <2>3, <2>4, <2>5 DEF AccountStep
<1>2. CASE ChatServerStep
  BY <1>2, AskStep, GreetStep, LoseStep DEF ChatServerStep, AccountStep
<1>3. ASSUME NEW s \in Servers, Run(s)
      PROVE  WireInv' /\ CallInv' /\ TriesInv' /\ AccountStep
  <2>1. CASE Validated(s) \/ NotValidated(s) BY <2>1, ValidatedStep DEF AccountStep
  <2>2. CASE Receive(s) BY <2>2, ReceiveStep DEF AccountStep
  <2>3. CASE ReceiveFails(s) BY <2>3, ReceiveFailsStep DEF AccountStep
  <2>4. CASE Work(s)
    <3>1. Step(s) BY <2>4 DEF Work
    <3> QED BY <2>4, <3>1, WorkStep DEF AccountStep
  <2>5. CASE Answer(s)
    <3>1. Resume(s) BY <2>5 DEF Answer
    <3> QED BY <2>5, <3>1, AnswerStep DEF AccountStep
  <2> QED BY <1>3, <2>1, <2>2, <2>3, <2>4, <2>5 DEF Run
<1>4. ASSUME NEW s \in Servers, TryAgain(s) \/ GiveUp(s) \/ StartAgain(s)
      PROVE  WireInv' /\ CallInv' /\ TriesInv' /\ AccountStep
  <2>1. CASE TryAgain(s) BY <2>1, TryAgainStep DEF AccountStep
  <2>2. CASE GiveUp(s) BY <2>2, GiveUpStep DEF AccountStep
  <2>3. CASE StartAgain(s)
    <3>1. Restart(s) BY <2>3 DEF StartAgain
    <3> QED BY <2>3, <3>1, StartAgainStep DEF AccountStep
  <2> QED BY <1>4, <2>1, <2>2, <2>3
<1> QED BY <1>1, <1>2, <1>3, <1>4 DEF LoopNext

LEMMA AccountStepIsNext == AccountStep => [Next]_accountVars
  BY DEF AccountStep, Next, IsCalled

LEMMA LoopStep == LoopInv /\ [LoopNext]_vars => LoopInv' /\ [Next]_accountVars
<1> SUFFICES ASSUME LoopInv, [LoopNext]_vars PROVE LoopInv' /\ [Next]_accountVars
  OBVIOUS
<1>1. WireInv' /\ CallInv' /\ TriesInv' /\ [Next]_accountVars BY EachStep, AccountStepIsNext
<1>2. ReportsInv' BY <1>1, ReportsStep DEF LoopInv
<1> QED BY <1>1, <1>2 DEF LoopInv

LEMMA LoopInit == Init => LoopInv
<1> SUFFICES ASSUME Init PROVE LoopInv
  OBVIOUS
<1>1. ReportsInv BY ReportsInit DEF Init
<1>2. AskedOK(asked)
  <2>1. asked = <<>> BY DEF Init
  <2>2. Len(<<>>) = 0 /\ 0 <= MaxRequests BY LoopNumbers
  <2> QED BY <2>1, <2>2 DEF AskedOK
<1>3. WireInv BY <1>2, WireEmpty DEF Init, WireInv
<1>4. CallInv
  <2>1. 0 \in StrayIds \union 0..MaxRequests BY LoopNumbers
  <2> QED BY <2>1 DEF Init, AccountInit, CallInv
<1>5. TriesInv
  <2>1. 1 \in Nat /\ MaxTries - 1 \in 0..MaxTries BY LoopNumbers
  <2> QED BY <2>1 DEF Init, TriesInv
<1> QED BY <1>1, <1>3, <1>4, <1>5 DEF LoopInv

\* Each authentication server does to its accounts what UserAccounts allows, so that all
\* that is proved of UserAccounts holds of the servers at work.
THEOREM LoopUsesAccounts == LoopSpec => Spec
<1>1. Init => AccountInit BY DEF Init
<1> QED BY LoopInit, LoopStep, <1>1, PTL DEF LoopSpec, Spec

\* What the loop is told of the accounts contradicts nothing, and stays true, when one
\* server uses a database that works: however its chat server's requests are garbled,
\* coalesced and lost, it is an account book that the loop reads (theMain.cpp:76-140).
THEOREM LoopTrusted ==
  Undisturbed =>
    (LoopSpec => /\ [](Accounts!ReportsHold /\ Accounts!ReportsAgree)
                 /\ [][Accounts!AccountsKept]_(Accounts!vars))
<1>1. ASSUME Undisturbed
      PROVE  LoopSpec => /\ [](Accounts!ReportsHold /\ Accounts!ReportsAgree)
                         /\ [][Accounts!AccountsKept]_(Accounts!vars)
  <2>1. Spec => /\ [](Accounts!ReportsHold /\ Accounts!ReportsAgree)
                /\ [][Accounts!AccountsKept]_(Accounts!vars)
    BY <1>1, OneServerTrusted
  <2> QED BY <2>1, LoopUsesAccounts, PTL
<1> QED BY <1>1

\* LoopTypeOK: a call runs only while the process serves, and only for a request that was
\* received.
THEOREM LoopTypeCorrect == LoopSpec => []LoopTypeOK
<1>1. LoopInv => LoopTypeOK
  <2> SUFFICES ASSUME LoopInv PROVE LoopTypeOK
    OBVIOUS
  <2>2. asked \in Seq([op : Operations, email : Emails, password : Passwords])
    BY DEF LoopInv, WireInv, AskedOK, Questions
  <2>3. ASSUME NEW s \in Servers
        PROVE  /\ pc[s] = "idle" <=> working[s] = <<>>
               /\ pc[s] # "idle" => phase[s] = "serving" /\ Head(working[s]) # Text
    BY DEF LoopInv, CallInv, CallFor
  <2> QED BY <2>2, <2>3 DEF LoopTypeOK, LoopInv, WireInv, CallInv, TriesInv
<1> QED BY LoopInit, LoopStep, <1>1, PTL DEF LoopSpec

-----------------------------------------------------------------------------
\* Where the rows come from.

\* What was asked remains asked.
LEMMA AskedStays ==
  ASSUME LoopInv, [LoopNext]_vars
  PROVE  \A i \in DOMAIN asked : i \in DOMAIN asked' /\ asked'[i] = asked[i]
<1>1. CASE UNCHANGED asked BY <1>1
<1>2. ASSUME NEW op \in Operations, NEW email \in Emails, NEW password \in Passwords,
             Ask(op, email, password)
      PROVE  \A i \in DOMAIN asked : i \in DOMAIN asked' /\ asked'[i] = asked[i]
  <2> DEFINE x == [op |-> op, email |-> email, password |-> password]
  <2>1. asked' = Append(asked, x) /\ Len(asked) < MaxRequests /\ email # NoEmail
    BY <1>2 DEF Ask
  <2>2. x \in Questions /\ x.email # NoEmail BY <2>1 DEF Questions
  <2>3. AskedOK(asked) BY DEF LoopInv, WireInv
  <2> HIDE DEF x
  <2> QED BY <2>1, <2>2, <2>3, AskedGrows
<1>3. UNCHANGED asked \/ \E op \in Operations, email \in Emails, password \in Passwords :
        Ask(op, email, password)
  BY DEF LoopNext, ChatServerStep, Run, Greet, Lose, Validated, NotValidated, Receive,
     ReceiveFails, Work, Answer, TryAgain, GiveUp, StartAgain, vars, loopVars
<1> QED BY <1>1, <1>2, <1>3

\* For each row, messages.
CauseInv == cause \in Seq(Seq(Messages)) /\ RowsAsAsked

\* The message a call is for, if it is not garbled.
LEMMA AskedCall ==
  ASSUME LoopInv, NEW s \in Servers, pc[s] # "idle", ~Garbled(Head(working[s]))
  PROVE  LET m == Head(working[s])
         IN  /\ m.rid \in DOMAIN asked /\ asked[m.rid].op = call[s].op
             /\ call[s].email # NoEmail
             /\ Len(working[s]) = 1 =>
                  /\ requestid[s] = m.rid
                  /\ call[s].email = asked[m.rid].email
                  /\ call[s].password = asked[m.rid].password
<1> DEFINE m == Head(working[s])
           fields == Fields(requestid[s], call[s].email, call[s].password)
<1>1. CallFor(call[s], requestid[s], working[s]) /\ working[s] # <<>> BY DEF LoopInv, CallInv
<1>2. WireOK(working[s], asked) /\ working[s] \in Seq(Messages) BY DEF LoopInv, WireInv
<1>3. m \in Messages /\ 1 \in DOMAIN working[s] /\ m = working[s][1] BY <1>1, <1>2
<1>4. m # Text /\ m.kind = "request" BY <1>1, <1>3, MessageParts DEF CallFor
<1>5. OfAsked(m, asked) BY <1>2, <1>3, <1>4 DEF WireOK
<1>6. /\ m.rid \in DOMAIN asked /\ asked[m.rid].op = m.op
      /\ asked[m.rid].email = m.email /\ asked[m.rid].password = m.password
  BY <1>5 DEF OfAsked
<1>7. m.email # NoEmail BY <1>6 DEF LoopInv, WireInv, AskedOK
<1>8. fields \in Parsed(working[s]) BY <1>1 DEF CallFor
<1>9. call[s].op = m.op BY <1>1 DEF CallFor, OpOf
<1>10. /\ fields.email = NoEmail => m.email = NoEmail
       /\ Len(working[s]) = 1 => fields = FieldsOf(m)
  BY <1>1, <1>2, <1>4, <1>8, ParsedParts
<1>11. call[s].email # NoEmail BY <1>7, <1>10 DEF Fields
<1>12. FieldsOf(m) = Fields(m.rid, m.email, m.password) BY DEF FieldsOf
<1>13. Len(working[s]) = 1 =>
         /\ requestid[s] = m.rid /\ call[s].email = m.email /\ call[s].password = m.password
  BY <1>10, <1>12 DEF Fields
<1> QED BY <1>6, <1>9, <1>11, <1>13

\* InsertedFor, of what had been asked by then.
AskedFor(row, ms, a) ==
  /\ row.email # NoEmail /\ Head(ms).rid \in DOMAIN a
  /\ a[Head(ms).rid].op = "create"
  /\ Len(ms) = 1 => /\ row.email = a[Head(ms).rid].email
                    /\ row.hashedPassword = Hash(a[Head(ms).rid].password, row.salt)

LEMMA CausesAsked ==
  CauseInv <=> /\ cause \in Seq(Seq(Messages)) /\ Len(cause) = Len(web_auth)
               /\ \A i \in DOMAIN web_auth : AskedFor(web_auth[i], cause[i], asked)
BY DEF CauseInv, RowsAsAsked, InsertedFor, AskedFor

LEMMA CausesAskedNext ==
  CauseInv' <=> /\ cause' \in Seq(Seq(Messages)) /\ Len(cause') = Len(web_auth')
                /\ \A i \in DOMAIN web_auth' : AskedFor(web_auth'[i], cause'[i], asked')
BY DEF CauseInv, RowsAsAsked, InsertedFor, AskedFor

LEMMA NewRowAsked ==
  ASSUME LoopInv, NEW s \in Servers, pc[s] = "insertAuth", NEW salt \in Salts
  PROVE  AskedFor(NewAuth(s, salt), working[s], asked)
<1>1. call[s].op = "create" BY DEF LoopInv, ReportsInv, OpsOK, Creating
<1>2. ~Garbled(Head(working[s])) BY <1>1 DEF LoopInv, CallInv, CallFor, OpOf
<1>3. /\ NewAuth(s, salt).email = call[s].email /\ NewAuth(s, salt).salt = salt
      /\ NewAuth(s, salt).hashedPassword = Hash(call[s].password, salt)
  BY DEF NewAuth
<1> QED BY <1>1, <1>2, <1>3, AskedCall DEF AskedFor

\* A row and its cause come together.
LEMMA RowsGrow ==
  ASSUME LoopInv, [LoopNext]_vars
  PROVE  \/ UNCHANGED <<web_auth, cause>>
         \/ \E s \in Servers, salt \in Salts :
              /\ pc[s] = "insertAuth" /\ NewAuth(s, salt) \in AuthRows
              /\ web_auth' = Append(web_auth, NewAuth(s, salt))
              /\ cause' = Append(cause, working[s])
<1>1. TypeOK BY DEF LoopInv, ReportsInv
<1>2. web_auth \in Seq(AuthRows) BY <1>1 DEF TypeOK
<1>3. ASSUME NEW s \in Servers, Work(s), web_auth' # web_auth
      PROVE  \E salt \in Salts :
               /\ pc[s] = "insertAuth" /\ NewAuth(s, salt) \in AuthRows
               /\ web_auth' = Append(web_auth, NewAuth(s, salt))
               /\ cause' = Append(cause, working[s])
  <2>1. Step(s) /\ cause' = Append(cause, working[s]) BY <1>3 DEF Work
  <2>2. PICK salt \in Salts :
          pc[s] = "insertAuth" /\ web_auth' = Append(web_auth, NewAuth(s, salt))
    BY <1>1, <1>3, <2>1, OneRowMore
  <2>3. NewAuth(s, salt) \in AuthRows BY <1>1, <2>2, NewAuthType
  <2> QED BY <2>1, <2>2, <2>3
<1>4. ASSUME NEW s \in Servers, Work(s), web_auth' = web_auth PROVE UNCHANGED cause
  BY <1>4 DEF Work
<1>5. \/ UNCHANGED <<web_auth, cause>>
      \/ \E s \in Servers : Work(s)
  <2>1. CASE ChatServerStep \/ UNCHANGED vars
    BY <2>1 DEF ChatServerStep, Ask, Greet, Lose, vars, accountVars, tables
  <2>2. ASSUME NEW s \in Servers, Validated(s) \/ NotValidated(s) \/ TryAgain(s) \/ GiveUp(s)
                                  \/ ReceiveFails(s)
        PROVE  UNCHANGED <<web_auth, cause>>
    BY <2>2 DEF Validated, NotValidated, TryAgain, GiveUp, ReceiveFails, accountVars, tables
  <2>3. ASSUME NEW s \in Servers, Receive(s) PROVE UNCHANGED <<web_auth, cause>>
    BY <2>3 DEF Receive, Dispatch, Call, accountVars, tables
  <2>4. ASSUME NEW s \in Servers, Answer(s) \/ StartAgain(s) PROVE UNCHANGED <<web_auth, cause>>
    BY <2>4 DEF Answer, StartAgain, Resume, Restart, tables
  <2> QED BY <2>1, <2>2, <2>3, <2>4 DEF LoopNext, Run
<1> QED BY <1>3, <1>4, <1>5

LEMMA RowsStep ==
  ASSUME LoopInv, CauseInv, [LoopNext]_vars
  PROVE  CauseInv'
<1>1. \A row, ms : AskedFor(row, ms, asked) => AskedFor(row, ms, asked')
  BY AskedStays DEF AskedFor
<1>2. CASE UNCHANGED <<web_auth, cause>> BY <1>1, <1>2, CausesAsked, CausesAskedNext
<1>3. ASSUME NEW s \in Servers, NEW salt \in Salts, pc[s] = "insertAuth",
             NewAuth(s, salt) \in AuthRows,
             web_auth' = Append(web_auth, NewAuth(s, salt)),
             cause' = Append(cause, working[s])
      PROVE  CauseInv'
  <2>1. /\ web_auth \in Seq(AuthRows) /\ cause \in Seq(Seq(Messages))
        /\ Len(cause) = Len(web_auth) /\ Len(web_auth) \in Nat
        /\ DOMAIN web_auth = 1..Len(web_auth)
    BY CausesAsked DEF LoopInv, ReportsInv, TypeOK
  <2>2. working[s] \in Seq(Messages) BY DEF LoopInv, WireInv
  <2>3. /\ DOMAIN web_auth' = 1 .. Len(web_auth) + 1 /\ Len(web_auth') = Len(web_auth) + 1
        /\ \A i \in 1..Len(web_auth) : web_auth'[i] = web_auth[i]
        /\ web_auth'[Len(web_auth) + 1] = NewAuth(s, salt)
    BY <1>3, <2>1, AppendProperties
  <2>4. /\ cause' \in Seq(Seq(Messages)) /\ Len(cause') = Len(web_auth) + 1
        /\ \A i \in 1..Len(web_auth) : cause'[i] = cause[i]
        /\ cause'[Len(web_auth) + 1] = working[s]
    BY <1>3, <2>1, <2>2, AppendProperties
  <2>5. AskedFor(NewAuth(s, salt), working[s], asked') BY <1>1, <1>3, NewRowAsked
  <2>6. \A i \in 1..Len(web_auth) : AskedFor(web_auth[i], cause[i], asked')
    BY <1>1, <2>1, CausesAsked
  <2>7. ASSUME NEW i \in DOMAIN web_auth' PROVE AskedFor(web_auth'[i], cause'[i], asked')
    <3>1. CASE i \in 1..Len(web_auth) BY <2>3, <2>4, <2>6, <3>1
    <3>2. CASE i = Len(web_auth) + 1 BY <2>3, <2>4, <2>5, <3>2
    <3> QED BY <2>1, <2>3, <3>1, <3>2
  <2> QED BY <2>3, <2>4, <2>7, CausesAskedNext
<1> QED BY <1>2, <1>3, RowsGrow

LEMMA RowsInit == Init => CauseInv
  BY DEF Init, AccountInit, CauseInv, RowsAsAsked

\* RowsAsAsked: every row is for a request to create an account that was the first of
\* what was received, and for its e-mail and its password if it was received alone.
THEOREM RowsWereAsked == LoopSpec => []RowsAsAsked
<1>1. CauseInv => RowsAsAsked BY DEF CauseInv
<1> QED BY LoopInit, LoopStep, RowsInit, RowsStep, <1>1, PTL DEF LoopSpec

-----------------------------------------------------------------------------
\* Who is approved.

\* A result other than -1 is given only to an e-mail that has a row.
ReturnedInv ==
  \A s \in Servers :
    pc[s] = "returned" /\ call[s].op = "authenticate" /\ result[s] # -1 =>
      RowsOf(call[s].email) # {}

\* For an e-mail without a row authenticateAccount returns -1.
LEMMA CheckedRow ==
  ASSUME ReadOK, NEW s \in Servers, pc[s] = "updateUser", Checked(s) # -1
  PROVE  RowsOf(call[s].email) # {}
<1>1. CASE HasBeenRead(s) BY <1>1 DEF HasBeenRead
<1>2. CASE thisUser[s].userId = -1
  <2>1. ~(-1 > 0) BY SMT
  <2>2. Checked(s) = -1 BY <1>2, <2>1 DEF Checked
  <2> QED BY <2>2
<1> QED BY <1>1, <1>2 DEF ReadOK

LEMMA ReturnedStep ==
  ASSUME ReportsInv, ReturnedInv, [Next]_accountVars, AccountStep
  PROVE  ReturnedInv'
<1> SUFFICES ASSUME NEW t \in Servers, pc'[t] = "returned", call'[t].op = "authenticate",
                    result'[t] # -1
             PROVE  \E i \in DOMAIN web_auth' : web_auth'[i].email = call'[t].email
  BY DEF ReturnedInv, RowsOf
<1>a. TypeOK /\ OpsOK /\ ReadOK BY DEF ReportsInv
<1>b. \A email : RowsOf(email) # {} => \E i \in DOMAIN web_auth' : web_auth'[i].email = email
  BY <1>a, RowsStay DEF RowsOf
<1>1. CASE UNCHANGED <<pc, call, result>> BY <1>1, <1>b DEF ReturnedInv
<1>2. CASE UNCHANGED accountVars
  <2>1. UNCHANGED <<pc, call, result>> BY <1>2 DEF accountVars, locals
  <2> QED BY <1>1, <2>1
<1>3. ASSUME NEW s \in Servers, IsCalled(s) \/ Step(s) \/ Resume(s) \/ Restart(s), t # s
      PROVE  \E i \in DOMAIN web_auth' : web_auth'[i].email = call'[t].email
  <2>1. pc'[t] = pc[t] /\ call'[t] = call[t] BY <1>a, <1>3, OthersKept
  <2>2. result'[t] = result[t]
    BY <1>a, <1>3 DEF IsCalled, Call, Resume, Restart, Forget, Step, FindEmail, FindEmailThrows,
       InsertAuth, InsertAuthUnconnected, InsertAuthThrows, InsertUser, InsertUserThrows,
       SelectAuth, SelectUser, UpdateUser, SelectThrows, ReportUser, Return, TypeOK
  <2> QED BY <1>b, <2>1, <2>2 DEF ReturnedInv
<1>4. CASE IsCalled(t) \/ Resume(t) \/ Restart(t)
  BY <1>a, <1>4 DEF IsCalled, Call, Resume, Restart, Forget, TypeOK
<1>5. CASE Step(t)
  <2>1. UNCHANGED call /\ pc[t] \in Creating \union Looking BY <1>a, <1>5, OneMove
  <2>2. pc[t] \in Looking BY <1>a, <2>1 DEF OpsOK
  <2>3. SelectAuth(t) \/ SelectUser(t) \/ UpdateUser(t) \/ SelectThrows(t)
    BY <1>5, <2>2 DEF Step, Looking, FindEmail, FindEmailThrows, InsertAuth,
       InsertAuthUnconnected, InsertAuthThrows, InsertUser, InsertUserThrows
  <2>4. ~SelectUser(t) BY <1>a DEF SelectUser, TypeOK
  <2>5. CASE UpdateUser(t)
    <3>1. pc[t] = "updateUser" /\ result'[t] = Checked(t)
      BY <1>a, <2>5 DEF UpdateUser, Return, TypeOK
    <3>2. RowsOf(call[t].email) # {} BY <1>a, <3>1, CheckedRow
    <3> QED BY <1>b, <2>1, <3>2
  <2>6. ~SelectThrows(t) BY <1>a DEF SelectThrows, Return, TypeOK
  <2>7. CASE SelectAuth(t)
    <3>1. ~Return(t, -1, NoDate) BY <1>a DEF Return, TypeOK
    <3>2. pc' = [pc EXCEPT ![t] = "selectUser"] BY <2>7, <3>1 DEF SelectAuth
    <3> QED BY <1>a, <3>2 DEF TypeOK
  <2> QED BY <2>3, <2>4, <2>5, <2>6, <2>7
<1> QED BY <1>2, <1>3, <1>4, <1>5 DEF AccountStep

\* The invariant of one reply.
Approved(r) ==
  r.op = "authenticate" /\ r.success =>
    /\ RowsOf(r.email) # {}
    /\ Len(r.to) = 1 => r.rid \in DOMAIN asked /\ asked[r.rid].email = r.email

\* A call for a garbled message that was received alone has no e-mail.
LEMMA GarbledCall ==
  ASSUME LoopInv, NEW s \in Servers, pc[s] # "idle", Garbled(Head(working[s])),
         Len(working[s]) = 1
  PROVE  call[s].op = "authenticate" /\ call[s].email = NoEmail /\ requestid[s] = 0
<1>1. CallFor(call[s], requestid[s], working[s]) BY DEF LoopInv, CallInv
<1>2. Fields(requestid[s], call[s].email, call[s].password) = Fields(0, NoEmail, "")
  BY <1>1 DEF CallFor, Parsed, FieldsOf
<1> QED BY <1>1, <1>2 DEF CallFor, OpOf, Fields

LEMMA NoEmailHasNoRow ==
  ASSUME RowsAsAsked
  PROVE  RowsOf(NoEmail) = {}
BY DEF RowsAsAsked, InsertedFor, RowsOf

LEMMA NewReply ==
  ASSUME LoopInv, RowsAsAsked, ReturnedInv, NEW s \in Servers, pc[s] = "returned"
  PROVE  Approved(ReplyTo(s))
<1>1. /\ ReplyTo(s).op = call[s].op /\ ReplyTo(s).success = (result[s] # -1)
      /\ ReplyTo(s).rid = requestid[s] /\ ReplyTo(s).to = working[s]
      /\ ReplyTo(s).email = call[s].email
  BY DEF ReplyTo, Reply
<1> SUFFICES ASSUME call[s].op = "authenticate", result[s] # -1
             PROVE  /\ RowsOf(call[s].email) # {}
                    /\ Len(working[s]) = 1 => /\ requestid[s] \in DOMAIN asked
                                              /\ asked[requestid[s]].email = call[s].email
  BY <1>1 DEF Approved
<1>2. RowsOf(call[s].email) # {} BY DEF ReturnedInv
<1>3. call[s].email # NoEmail BY <1>2, NoEmailHasNoRow
<1>4. ASSUME Len(working[s]) = 1
      PROVE  requestid[s] \in DOMAIN asked /\ asked[requestid[s]].email = call[s].email
  <2>1. ~Garbled(Head(working[s])) BY <1>3, <1>4, GarbledCall
  <2> QED BY <1>4, <2>1, AskedCall
<1> QED BY <1>2, <1>4

LEMMA ApprovedStays ==
  ASSUME LoopInv, [LoopNext]_vars, NEW r, Approved(r)
  PROVE  Approved(r)'
<1>1. TypeOK /\ [Next]_accountVars BY LoopStep DEF LoopInv, ReportsInv
<1>2. \A email : RowsOf(email) # {} => RowsOf(email)' # {} BY <1>1, RowsStay
<1> QED BY <1>2, AskedStays DEF Approved

LEMMA RepliesGrow ==
  ASSUME [LoopNext]_vars
  PROVE  \/ UNCHANGED replies
         \/ \E s \in Servers :
              pc[s] = "returned" /\ replies' = [replies EXCEPT ![s] = @ \union {ReplyTo(s)}]
BY DEF LoopNext, ChatServerStep, Run, Ask, Greet, Lose, Validated, NotValidated, Receive,
   ReceiveFails, Work, Answer, TryAgain, GiveUp, StartAgain, vars, loopVars

\* Every server has its replies.
RepliesInv == replies = [s \in Servers |-> replies[s]]

LEMMA RepliesInvStep == RepliesInv /\ [LoopNext]_vars => RepliesInv'
  BY RepliesGrow DEF RepliesInv

LEMMA RepliesStep ==
  ASSUME LoopInv, RepliesInv, RowsAsAsked, ReturnedInv, ApprovedHasAccount, [LoopNext]_vars
  PROVE  ApprovedHasAccount'
<1> SUFFICES ASSUME NEW s \in Servers, NEW r \in replies'[s]
             PROVE  Approved(r)'
  BY DEF ApprovedHasAccount, Approved
<1>1. r \in replies[s] \/ \E t \in Servers : pc[t] = "returned" /\ r = ReplyTo(t)
  BY RepliesGrow DEF RepliesInv
<1>2. CASE r \in replies[s]
  <2>1. Approved(r) BY <1>2 DEF ApprovedHasAccount, Approved
  <2> QED BY <2>1, ApprovedStays
<1>3. ASSUME NEW t \in Servers, pc[t] = "returned", r = ReplyTo(t) PROVE Approved(r)'
  <2>1. Approved(r) BY <1>3, NewReply
  <2> QED BY <2>1, ApprovedStays
<1> QED BY <1>1, <1>2, <1>3

\* ApprovedHasAccount: whatever requests are garbled, lost, coalesced or answered in the
\* middle of a restart, a log-in is approved only for an e-mail that has a row, and the
\* approval is that of the request if the request was received alone.
THEOREM ApprovalsAreDue == LoopSpec => []ApprovedHasAccount
<1>1. Init => ReturnedInv /\ RepliesInv /\ ApprovedHasAccount
  BY DEF Init, AccountInit, ReturnedInv, RepliesInv, ApprovedHasAccount
<1>2. LoopInv /\ ReturnedInv /\ [LoopNext]_vars => ReturnedInv'
  BY LoopStep, EachStep, ReturnedStep DEF LoopInv
<1> QED BY LoopInit, LoopStep, RowsWereAsked, RepliesInvStep, RepliesStep, <1>1, <1>2, PTL DEF LoopSpec

-----------------------------------------------------------------------------
\* The process is the authentication server that the chat server expects.

\* What AuthServer!Peer shows of the loop.
Wire == [s \in Servers |-> working[s] \o toAuth[s]]

Serving == [s \in Servers |-> phase[s] = "serving"]

\* Two sequences one behind the other, and their ends.
LEMMA Behind ==
  ASSUME NEW v \in Seq(Messages), NEW w \in Seq(Messages)
  PROVE  /\ v \o w \in Seq(Messages) /\ Len(v \o w) = Len(v) + Len(w)
         /\ SubSeq(v \o w, 1, Len(v)) = v
         /\ SubSeq(v \o w, Len(v) + 1, Len(v \o w)) = w
         /\ v = <<>> => v \o w = w
         /\ w = <<>> => v \o w = v
         /\ v # <<>> => Head(v \o w) = Head(v) /\ Len(v) \in 1..Len(v \o w)
<1>1. /\ v \o w \in Seq(Messages) /\ Len(v \o w) = Len(v) + Len(w)
      /\ \A i \in 1..Len(v) : (v \o w)[i] = v[i]
      /\ \A i \in 1..Len(w) : (v \o w)[Len(v) + i] = w[i]
  BY ConcatProperties, SMT
<1>2. Len(v) \in Nat /\ Len(w) \in Nat
  OBVIOUS
<1>3. SubSeq(v \o w, 1, Len(v)) = v
  BY <1>1, <1>2, SMT
<1>4. SubSeq(v \o w, Len(v) + 1, Len(v \o w)) = w
  BY <1>1, <1>2, SMT
<1>5. v = <<>> => v \o w = w
  BY SMT
<1>6. w = <<>> => v \o w = v
  BY SMT
<1>7. v # <<>> => Head(v \o w) = Head(v) /\ Len(v) \in 1..Len(v \o w)
  BY <1>1, <1>2, SMT
<1> QED BY <1>1, <1>3, <1>4, <1>5, <1>6, <1>7

\* Nothing is a part of both.
LEMMA NothingOfBoth ==
  ASSUME NEW v \in Seq(Messages), NEW w \in Seq(Messages)
  PROVE  SubSeq(v \o w, 1, 0) = <<>> /\ 0 \in 0..Len(v \o w)
BY Behind, SMT

\* A message that is appended comes last of both.
LEMMA BehindAppend ==
  ASSUME NEW v \in Seq(Messages), NEW w \in Seq(Messages), NEW e \in Messages
  PROVE  v \o Append(w, e) = Append(v \o w, e)
BY SMT

\* A sequence is what it begins with and the rest of it.
LEMMA CutBehind ==
  ASSUME NEW q \in Seq(Messages), NEW k \in 1..Len(q)
  PROVE  /\ SubSeq(q, 1, k) \o SubSeq(q, k + 1, Len(q)) = q
         /\ Head(SubSeq(q, 1, k)) = Head(q) /\ Head(q) \in Messages
BY SMT

\* The chat server gives a message.
LEMMA PeerGives ==
  ASSUME NEW to \in SUBSET Servers, NEW m \in Messages,
         Wire' = [s \in Servers |-> IF s \in to THEN Append(Wire[s], m) ELSE Wire[s]],
         UNCHANGED <<Serving, replies>>
  PROVE  Peer!Next
BY DEF Peer!Next, Peer!Give, Wire, Serving

\* A text at the head is not answered; anything else may be answered either way.
LEMMA TextUnanswered ==
  ASSUME NEW ms, Head(ms) = Text
  PROVE  AnswersOf(ms) = {}
BY DEF AnswersOf

LEMMA MayAnswer ==
  ASSUME NEW ms, Head(ms) # Text, ~(Len(ms) = 1 /\ Garbled(Head(ms))),
         NEW fields \in Parsed(ms), NEW success \in BOOLEAN
  PROVE  Reply(OpOf(Head(ms)), fields.rid, success, ms, fields.email) \in AnswersOf(ms)
BY DEF AnswersOf

\* The server takes messages and answers them, or not.
LEMMA PeerTakes ==
  ASSUME NEW s \in Servers, NEW k \in 1..Len(Wire[s]),
         Wire' = [Wire EXCEPT ![s] = SubSeq(Wire[s], k + 1, Len(Wire[s]))],
         Serving' = [Serving EXCEPT ![s] = TRUE],
         \/ (~Serving[s] \/ AnswersOf(SubSeq(Wire[s], 1, k)) = {}) /\ UNCHANGED replies
         \/ /\ Serving[s]
            /\ \E answer \in AnswersOf(SubSeq(Wire[s], 1, k)) :
                 replies' = [replies EXCEPT ![s] = replies[s] \union {answer}]
  PROVE  Peer!Next
BY DEF Peer!Next, Peer!Take, Wire, Serving

\* The connection or the process breaks.
LEMMA PeerBreaks ==
  ASSUME NEW s \in Servers, NEW n \in 0..Len(Wire[s]), NEW still \in BOOLEAN,
         Wire' = [Wire EXCEPT ![s] = SubSeq(Wire[s], 1, n)],
         Serving' = [Serving EXCEPT ![s] = still],
         UNCHANGED replies
  PROVE  Peer!Next
BY DEF Peer!Next, Peer!Break, Wire, Serving

\* A step that shows nothing.
LEMMA PeerStutters ==
  ASSUME UNCHANGED <<Wire, Serving, replies>>
  PROVE  UNCHANGED Peer!vars
BY DEF Peer!vars, Wire, Serving

\* What shows of a step of one process.
LEMMA WireNext ==
  ASSUME WireInv, WireInv', NEW s \in Servers,
         \A t \in Servers : t # s => working'[t] = working[t] /\ toAuth'[t] = toAuth[t]
  PROVE  Wire' = [Wire EXCEPT ![s] = working'[s] \o toAuth'[s]]
<1>1. Wire' = [t \in Servers |-> working'[t] \o toAuth'[t]]
  BY DEF Wire
<1> QED BY <1>1 DEF Wire

\* Whether a process serves, after a change of its phase.
LEMMA ServingNext ==
  ASSUME TriesInv, NEW s \in Servers
  PROVE  /\ phase' = phase => Serving' = Serving
         /\ Serving = [Serving EXCEPT ![s] = Serving[s]] /\ Serving[s] \in BOOLEAN
         /\ \A p : phase' = [phase EXCEPT ![s] = p] =>
              Serving' = [Serving EXCEPT ![s] = (p = "serving")]
<1>1. Serving' = [t \in Servers |-> phase'[t] = "serving"]
  BY DEF Serving
<1>2. phase' = phase => Serving' = Serving
  BY DEF Serving
<1>3. Serving = [Serving EXCEPT ![s] = Serving[s]] /\ Serving[s] \in BOOLEAN
  BY DEF Serving
<1>4. ASSUME NEW p, phase' = [phase EXCEPT ![s] = p]
      PROVE  Serving' = [Serving EXCEPT ![s] = (p = "serving")]
  <2>1. phase'[s] = p /\ \A t \in Servers : t # s => phase'[t] = phase[t]
    BY <1>4 DEF TriesInv
  <2> QED BY <1>1, <2>1 DEF Serving
<1> QED BY <1>2, <1>3, <1>4

\* The connection of a process breaks and everything under way is lost.
LEMMA AllLost ==
  ASSUME WireInv, WireInv', TriesInv, NEW s \in Servers,
         \A t \in Servers : t # s => working'[t] = working[t] /\ toAuth'[t] = toAuth[t],
         working'[s] = <<>>, toAuth'[s] = <<>>, UNCHANGED replies,
         NEW p, phase' = phase \/ phase' = [phase EXCEPT ![s] = p]
  PROVE  Peer!Next
<1>0. /\ working[s] \in Seq(Messages) /\ toAuth[s] \in Seq(Messages)
      /\ <<>> \o <<>> = <<>>
  BY DEF WireInv
<1>1. Wire' = [Wire EXCEPT ![s] = <<>>]
  <2>1. Wire' = [Wire EXCEPT ![s] = working'[s] \o toAuth'[s]]
    BY WireNext
  <2> QED BY <1>0, <2>1
<1>2. SubSeq(Wire[s], 1, 0) = <<>> /\ 0 \in 0..Len(Wire[s])
  <2>1. Wire[s] = working[s] \o toAuth[s]
    BY DEF Wire
  <2>2. /\ SubSeq(working[s] \o toAuth[s], 1, 0) = <<>>
        /\ 0 \in 0..Len(working[s] \o toAuth[s])
    BY <1>0, NothingOfBoth, Zenon
  <2> QED BY <2>1, <2>2, Zenon
<1>3. PICK still \in BOOLEAN : Serving' = [Serving EXCEPT ![s] = still]
  <2>1. CASE phase' = phase
    BY <2>1, ServingNext
  <2>2. CASE phase' = [phase EXCEPT ![s] = p]
    <3>1. (p = "serving") \in BOOLEAN
      OBVIOUS
    <3> QED BY <2>2, <3>1, ServingNext
  <2> QED BY <2>1, <2>2
<1> QED BY <1>1, <1>2, <1>3, PeerBreaks

\* The chat server asks: it gives a request to some of the servers.
LEMMA AskGives ==
  ASSUME LoopInv, LoopInv', NEW op \in Operations, NEW email \in Emails,
         NEW password \in Passwords, Ask(op, email, password)
  PROVE  Peer!Next
<1> DEFINE m == Request(Len(asked'), op, email, password)
<1>1. /\ UNCHANGED <<phase, working, replies>>
      /\ asked' = Append(asked, [op |-> op, email |-> email, password |-> password])
      /\ Len(asked) < MaxRequests
  BY DEF Ask
<1>2. m \in Messages
  <2>1. Len(asked) \in Nat /\ Len(asked') = Len(asked) + 1
    BY <1>1, AppendProperties DEF LoopInv, WireInv, AskedOK, Questions
  <2>2. Len(asked') \in 1..MaxRequests
    BY <1>1, <2>1, LoopNumbers
  <2> QED BY <2>2 DEF Messages, Request
<1>3. PICK to \in SUBSET Servers :
        toAuth' = [s \in Servers |-> IF s \in to THEN Append(toAuth[s], m) ELSE toAuth[s]]
  BY DEF Ask
<1> HIDE DEF m
<1>4. Wire' = [s \in Servers |-> IF s \in to THEN Append(Wire[s], m) ELSE Wire[s]]
  <2>1. Wire' = [s \in Servers |-> working[s] \o toAuth'[s]]
    BY <1>1 DEF Wire
  <2>2. ASSUME NEW s \in Servers
        PROVE  working[s] \o toAuth'[s] = IF s \in to THEN Append(Wire[s], m) ELSE Wire[s]
    <3>1. working[s] \in Seq(Messages) /\ toAuth[s] \in Seq(Messages)
      BY DEF LoopInv, WireInv
    <3>2. working[s] \o Append(toAuth[s], m) = Append(working[s] \o toAuth[s], m)
      BY <1>2, <3>1, BehindAppend
    <3> QED BY <1>3, <3>2 DEF Wire
  <2> QED BY <2>1, <2>2
<1>5. UNCHANGED Serving
  BY <1>1 DEF Serving
<1> QED BY <1>1, <1>2, <1>4, <1>5, PeerGives

\* The chat server sends a text.
LEMMA GreetGives ==
  ASSUME LoopInv, LoopInv', NEW t \in Servers, Greet(t)
  PROVE  Peer!Next
<1>1. /\ UNCHANGED <<phase, working, replies>>
      /\ toAuth' = [toAuth EXCEPT ![t] = Append(toAuth[t], Text)]
  BY DEF Greet
<1>2. Text \in Messages
  BY DEF Messages
<1>3. Wire' = [s \in Servers |-> IF s \in {t} THEN Append(Wire[s], Text) ELSE Wire[s]]
  <2>1. Wire' = [s \in Servers |-> working[s] \o toAuth'[s]]
    BY <1>1 DEF Wire
  <2>2. ASSUME NEW s \in Servers
        PROVE  working[s] \o toAuth'[s] = IF s \in {t} THEN Append(Wire[s], Text) ELSE Wire[s]
    <3>1. working[s] \in Seq(Messages) /\ toAuth \in [Servers -> Seq(Messages)]
      BY DEF LoopInv, WireInv
    <3>2. working[s] \o Append(toAuth[s], Text) = Append(working[s] \o toAuth[s], Text)
      BY <1>2, <3>1, BehindAppend
    <3> QED BY <1>1, <3>1, <3>2 DEF Wire
  <2> QED BY <2>1, <2>2
<1>4. UNCHANGED Serving
  BY <1>1 DEF Serving
<1> QED BY <1>1, <1>2, <1>3, <1>4, PeerGives

\* The chat server ends: what it sent is there, or lost behind what was received.
LEMMA LoseBreaks ==
  ASSUME LoopInv, LoopInv', NEW s \in Servers, Lose(s)
  PROVE  Peer!Next \/ UNCHANGED Peer!vars
<1>1. /\ UNCHANGED <<phase, working, replies>>
      /\ toAuth' = toAuth \/ toAuth' = [toAuth EXCEPT ![s] = <<>>]
  BY DEF Lose
<1>2. UNCHANGED Serving
  BY <1>1 DEF Serving
<1>3. CASE toAuth' = toAuth
  <2>1. UNCHANGED Wire
    BY <1>1, <1>3 DEF Wire
  <2> QED BY <1>1, <1>2, <2>1, PeerStutters
<1>4. CASE toAuth' = [toAuth EXCEPT ![s] = <<>>]
  <2>1. working[s] \in Seq(Messages) /\ toAuth \in [Servers -> Seq(Messages)]
    BY DEF LoopInv, WireInv
  <2>2. toAuth'[s] = <<>> /\ \A t \in Servers : t # s => toAuth'[t] = toAuth[t]
    BY <1>4, <2>1
  <2>3. /\ Wire[s] = working[s] \o toAuth[s] /\ SubSeq(Wire[s], 1, Len(working[s])) = working[s]
        /\ Len(working[s]) \in 0..Len(Wire[s]) /\ working[s] \o <<>> = working[s]
    BY <2>1, Behind DEF Wire
  <2>4. Wire' = [Wire EXCEPT ![s] = working[s]]
    BY <1>1, <2>2, <2>3, WireNext, ZenonT(40) DEF LoopInv
  <2>5. Serving' = [Serving EXCEPT ![s] = Serving[s]] /\ Serving[s] \in BOOLEAN
    BY <1>2, ServingNext DEF LoopInv
  <2> QED BY <1>1, <2>3, <2>4, <2>5, PeerBreaks
<1> QED BY <1>1, <1>3, <1>4

\* A process that is not at a call has nothing received to work on.
LEMMA IdleWire ==
  ASSUME LoopInv, NEW s \in Servers, pc[s] = "idle" \/ phase[s] # "serving"
  PROVE  working[s] = <<>> /\ Wire[s] = toAuth[s] /\ toAuth[s] \in Seq(Messages)
<1>1. working[s] = <<>>
  BY DEF LoopInv, CallInv
<1>2. working[s] \in Seq(Messages) /\ toAuth[s] \in Seq(Messages)
  BY DEF LoopInv, WireInv
<1> QED BY <1>1, <1>2, Behind DEF Wire

\* What is taken for the answer to the validation is taken off the wire, and not
\* answered.
LEMMA ValidatedTakes ==
  ASSUME LoopInv, LoopInv', NEW s \in Servers, Validated(s)
  PROVE  Peer!Next
<1>1. /\ phase[s] = "validating" /\ phase' = [phase EXCEPT ![s] = "serving"]
      /\ UNCHANGED <<working, replies>>
  BY DEF Validated
<1>2. working[s] = <<>> /\ Wire[s] = toAuth[s] /\ toAuth[s] \in Seq(Messages)
  BY <1>1, IdleWire
<1>3. ASSUME NEW k \in 1..Len(toAuth[s]), Received(s, k)
      PROVE  Peer!Next
  <2> DEFINE rest == SubSeq(toAuth[s], k + 1, Len(toAuth[s]))
  <2>1. toAuth' = [toAuth EXCEPT ![s] = rest]
    BY <1>3 DEF Received
  <2> HIDE DEF rest
  <2>2. /\ toAuth'[s] = rest /\ \A t \in Servers : t # s => toAuth'[t] = toAuth[t]
        /\ rest \in Seq(Messages)
    <3>1. toAuth \in [Servers -> Seq(Messages)] /\ toAuth' \in [Servers -> Seq(Messages)]
      BY DEF LoopInv, WireInv
    <3> QED BY <2>1, <3>1
  <2>3. <<>> \o rest = rest
    BY <2>2, <1>2, Behind DEF LoopInv, WireInv
  <2>4. Wire' = [Wire EXCEPT ![s] = rest]
    BY <1>1, <1>2, <2>2, <2>3, WireNext DEF LoopInv
  <2>5. Serving' = [Serving EXCEPT ![s] = TRUE] /\ ~Serving[s]
    <3>1. Serving' = [Serving EXCEPT ![s] = ("serving" = "serving")]
      BY <1>1, ServingNext DEF LoopInv
    <3> QED BY <1>1, <3>1 DEF Serving
  <2> QED BY <1>1, <1>2, <2>4, <2>5, PeerTakes DEF rest
<1>4. CASE Failed(s)
  <2>1. toAuth' = [toAuth EXCEPT ![s] = <<>>]
    BY <1>4 DEF Failed
  <2>2. toAuth'[s] = <<>> /\ \A t \in Servers : t # s => toAuth'[t] = toAuth[t]
    BY <2>1 DEF LoopInv, WireInv
  <2> QED BY <1>1, <1>2, <2>2, AllLost DEF LoopInv
<1> QED BY <1>3, <1>4 DEF Validated

\* No answer to the validation.
LEMMA NotValidatedBreaks ==
  ASSUME LoopInv, LoopInv', NEW s \in Servers, NotValidated(s)
  PROVE  Peer!Next \/ UNCHANGED Peer!vars
<1>1. /\ phase[s] = "validating" /\ phase' = [phase EXCEPT ![s] = "asking"]
      /\ UNCHANGED <<working, replies>>
      /\ UNCHANGED toAuth \/ Failed(s)
  BY DEF NotValidated
<1>2. working[s] = <<>>
  BY <1>1, IdleWire
<1>3. CASE UNCHANGED toAuth
  <2>1. Serving' = [Serving EXCEPT ![s] = FALSE]
    <3>1. Serving' = [Serving EXCEPT ![s] = ("asking" = "serving")]
      BY <1>1, ServingNext DEF LoopInv
    <3> QED BY <3>1
  <2>2. Serving[s] = FALSE
    BY <1>1 DEF Serving
  <2>3. UNCHANGED Serving
    BY <2>1, <2>2, ServingNext DEF LoopInv
  <2>4. UNCHANGED Wire
    BY <1>1, <1>3 DEF Wire
  <2> QED BY <1>1, <2>3, <2>4, PeerStutters
<1>4. CASE Failed(s)
  <2>1. toAuth' = [toAuth EXCEPT ![s] = <<>>]
    BY <1>4 DEF Failed
  <2>2. toAuth'[s] = <<>> /\ \A t \in Servers : t # s => toAuth'[t] = toAuth[t]
    BY <2>1 DEF LoopInv, WireInv
  <2> QED BY <1>1, <1>2, <2>2, AllLost DEF LoopInv
<1> QED BY <1>1, <1>3, <1>4

\* The user's decision, and the steps of a call, show nothing.
LEMMA QuietSteps ==
  ASSUME LoopInv, NEW s \in Servers, TryAgain(s) \/ GiveUp(s) \/ Work(s)
  PROVE  UNCHANGED Peer!vars
<1>1. /\ UNCHANGED <<toAuth, working, replies>>
      /\ \/ UNCHANGED phase
         \/ /\ phase[s] = "asking"
            /\ \E p \in {"validating", "stopped"} : phase' = [phase EXCEPT ![s] = p]
  BY DEF TryAgain, GiveUp, Work, loopVars
<1>2. UNCHANGED Wire
  BY <1>1 DEF Wire
<1>3. UNCHANGED Serving
  <2>1. ASSUME NEW p \in {"validating", "stopped"}, phase' = [phase EXCEPT ![s] = p],
               phase[s] = "asking"
        PROVE  UNCHANGED Serving
    <3>1. Serving' = [Serving EXCEPT ![s] = (p = "serving")]
      BY <2>1, ServingNext DEF LoopInv
    <3>2. (p = "serving") = FALSE /\ Serving[s] = FALSE
      BY <2>1 DEF Serving
    <3> QED BY <3>1, <3>2, ServingNext DEF LoopInv
  <2> QED BY <1>1, <2>1 DEF Serving
<1> QED BY <1>1, <1>2, <1>3, PeerStutters

\* One recv: a text is taken and not answered; with a request the messages are
\* received but not done with.
LEMMA ReceiveTakes ==
  ASSUME LoopInv, LoopInv', NEW s \in Servers, Receive(s)
  PROVE  Peer!Next \/ UNCHANGED Peer!vars
<1>1. PICK k \in 1..Len(toAuth[s]) :
        Received(s, k) /\ Dispatch(s, SubSeq(toAuth[s], 1, k))
  BY DEF Receive
<1> DEFINE ms == SubSeq(toAuth[s], 1, k)
           rest == SubSeq(toAuth[s], k + 1, Len(toAuth[s]))
<1>2. /\ phase[s] = "serving" /\ pc[s] = "idle"
      /\ toAuth' = [toAuth EXCEPT ![s] = rest]
      /\ UNCHANGED <<phase, replies>>
  BY <1>1 DEF Receive, Received
<1>3. working[s] = <<>> /\ Wire[s] = toAuth[s] /\ toAuth[s] \in Seq(Messages)
  BY <1>2, IdleWire
<1>4. /\ ms \o rest = toAuth[s] /\ Head(ms) = Head(toAuth[s]) /\ Head(toAuth[s]) \in Messages
  BY <1>3, CutBehind, Zenon
<1>5. Dispatch(s, ms)
  BY <1>1
<1>6. UNCHANGED Serving /\ Serving[s] = TRUE
  BY <1>2 DEF Serving
<1>7. /\ Wire[s] = toAuth[s] /\ k \in 1..Len(Wire[s])
      /\ ms = SubSeq(Wire[s], 1, k) /\ rest = SubSeq(Wire[s], k + 1, Len(Wire[s]))
  BY <1>3
<1> HIDE DEF ms, rest
<1>8. /\ toAuth'[s] = rest /\ \A t \in Servers : t # s => toAuth'[t] = toAuth[t]
      /\ rest \in Seq(Messages)
  <2>1. toAuth \in [Servers -> Seq(Messages)] /\ toAuth' \in [Servers -> Seq(Messages)]
    BY DEF LoopInv, WireInv
  <2> QED BY <1>2, <2>1
<1>9. CASE Head(ms).kind = "text"
  <2>1. UNCHANGED working
    BY <1>5, <1>9 DEF Dispatch
  <2>2. <<>> \o rest = rest
    BY <1>3, <1>8, Behind DEF LoopInv, WireInv
  <2>3. Wire' = [Wire EXCEPT ![s] = rest]
    BY <1>3, <1>8, <2>1, <2>2, WireNext DEF LoopInv
  <2>4. AnswersOf(SubSeq(Wire[s], 1, k)) = {}
    <3>1. SubSeq(Wire[s], 1, k) = ms /\ Head(ms) = Text
      BY <1>4, <1>7, <1>9, MessageParts
    <3> QED BY <3>1, TextUnanswered
  <2>5. Serving' = [Serving EXCEPT ![s] = TRUE]
    BY <1>6, ServingNext DEF LoopInv
  <2> QED BY <1>2, <1>7, <2>3, <2>4, <2>5, PeerTakes
<1>10. CASE Head(ms).kind # "text"
  <2>1. working' = [working EXCEPT ![s] = ms]
    BY <1>5, <1>10 DEF Dispatch
  <2>2. working'[s] = ms /\ \A t \in Servers : t # s => working'[t] = working[t]
    BY <2>1 DEF LoopInv, WireInv
  <2>3. Wire' = [Wire EXCEPT ![s] = Wire[s]]
    BY <1>4, <1>7, <1>8, <2>2, WireNext, ZenonT(40) DEF LoopInv
  <2>4. UNCHANGED Wire
    BY <2>3 DEF Wire
  <2> QED BY <1>2, <1>6, <2>4, PeerStutters
<1> QED BY <1>9, <1>10

\* recv fails: everything under way is lost.
LEMMA ReceiveFailsBreaks ==
  ASSUME LoopInv, LoopInv', NEW s \in Servers, ReceiveFails(s)
  PROVE  Peer!Next
<1>1. /\ pc[s] = "idle" /\ toAuth' = [toAuth EXCEPT ![s] = <<>>]
      /\ phase' = phase \/ phase' = [phase EXCEPT ![s] = "stopped"]
      /\ UNCHANGED <<working, replies>>
  BY DEF ReceiveFails, Failed
<1>2. working[s] = <<>>
  BY <1>1, IdleWire
<1>3. toAuth'[s] = <<>> /\ \A t \in Servers : t # s => toAuth'[t] = toAuth[t]
  BY <1>1 DEF LoopInv, WireInv
<1> QED BY <1>1, <1>2, <1>3, AllLost DEF LoopInv

\* A process that is started again has lost what was under way.
LEMMA StartAgainBreaks ==
  ASSUME LoopInv, LoopInv', NEW s \in Servers, StartAgain(s)
  PROVE  Peer!Next
<1>1. /\ working' = [working EXCEPT ![s] = <<>>] /\ toAuth' = [toAuth EXCEPT ![s] = <<>>]
      /\ phase' = [phase EXCEPT ![s] = "validating"]
      /\ UNCHANGED replies
  BY DEF StartAgain
<1>2. /\ working'[s] = <<>> /\ toAuth'[s] = <<>>
      /\ \A t \in Servers : t # s => working'[t] = working[t] /\ toAuth'[t] = toAuth[t]
  BY <1>1 DEF LoopInv, WireInv
<1> QED BY <1>1, <1>2, AllLost DEF LoopInv

\* The reply of a call is an answer to the messages of its recv; to a garbled one that
\* came alone only a failure, because no row has an empty e-mail.
LEMMA ReplyFits ==
  ASSUME LoopInv, RowsAsAsked, ReturnedInv, NEW s \in Servers, pc[s] = "returned"
  PROVE  ReplyTo(s) \in AnswersOf(working[s])
<1> DEFINE ms == working[s]
           m == Head(ms)
           op == OpOf(m)
           fields == Fields(requestid[s], call[s].email, call[s].password)
<1>1. CallFor(call[s], requestid[s], ms)
  BY DEF LoopInv, CallInv
<1>2. m # Text /\ call[s].op = op /\ fields \in Parsed(ms)
  BY <1>1 DEF CallFor
<1>3. (result[s] # -1) \in BOOLEAN
  OBVIOUS
<1>4. CASE Len(ms) = 1 /\ Garbled(m)
  <2>1. call[s].op = "authenticate" /\ call[s].email = NoEmail /\ requestid[s] = 0
    BY <1>4, GarbledCall
  <2>2. result[s] = -1
    BY <2>1, NoEmailHasNoRow DEF ReturnedInv
  <2>3. ReplyTo(s) = Reply("authenticate", 0, FALSE, ms, NoEmail)
    BY <2>1, <2>2 DEF ReplyTo
  <2> QED BY <1>2, <1>4, <2>3 DEF AnswersOf
<1>5. CASE ~(Len(ms) = 1 /\ Garbled(m))
  <2>1. fields.rid = requestid[s] /\ fields.email = call[s].email
    BY DEF Fields
  <2>2. ReplyTo(s) = Reply(op, fields.rid, result[s] # -1, ms, fields.email)
    BY <1>2, <2>1 DEF ReplyTo
  <2>3. Reply(op, fields.rid, result[s] # -1, ms, fields.email) \in AnswersOf(ms)
    BY <1>2, <1>3, <1>5, MayAnswer
  <2> QED BY <2>2, <2>3
<1> QED BY <1>4, <1>5

\* The messages of a recv are answered, and done with.
LEMMA AnswerTakes ==
  ASSUME LoopInv, LoopInv', RowsAsAsked, ReturnedInv, NEW s \in Servers, Answer(s)
  PROVE  Peer!Next
<1>1. /\ pc[s] = "returned" /\ working' = [working EXCEPT ![s] = <<>>]
      /\ replies' = [replies EXCEPT ![s] = replies[s] \union {ReplyTo(s)}]
      /\ UNCHANGED <<phase, toAuth>>
  BY DEF Answer
<1>2. phase[s] = "serving" /\ working[s] # <<>>
  BY <1>1 DEF LoopInv, CallInv
<1>3. /\ working[s] \in Seq(Messages) /\ toAuth[s] \in Seq(Messages)
      /\ working'[s] = <<>> /\ \A t \in Servers : t # s => working'[t] = working[t]
  BY <1>1 DEF LoopInv, WireInv
<1> DEFINE k == Len(working[s])
<1>4. /\ Wire[s] = working[s] \o toAuth[s]
      /\ SubSeq(Wire[s], k + 1, Len(Wire[s])) = toAuth[s]
      /\ SubSeq(Wire[s], 1, k) = working[s] /\ k \in 1..Len(Wire[s])
  BY <1>2, <1>3, Behind DEF Wire
<1>5. <<>> \o toAuth[s] = toAuth[s]
  BY <1>3, Behind DEF LoopInv, WireInv
<1> HIDE DEF k
<1>6. Wire' = [Wire EXCEPT ![s] = toAuth[s]]
  BY <1>1, <1>3, <1>5, WireNext DEF LoopInv
<1>7. Serving[s] = TRUE /\ Serving' = Serving
  BY <1>1, <1>2 DEF Serving
<1>8. Serving' = [Serving EXCEPT ![s] = TRUE]
  BY <1>7, ServingNext DEF LoopInv
<1>9. ReplyTo(s) \in AnswersOf(SubSeq(Wire[s], 1, k))
  BY <1>1, <1>4, ReplyFits
<1> QED BY <1>1, <1>4, <1>6, <1>7, <1>8, <1>9, PeerTakes

\* Every step of the loop is a step of the expected server or shows nothing.
LEMMA LoopIsPeer ==
  ASSUME LoopInv, LoopInv', RowsAsAsked, ReturnedInv, [LoopNext]_vars
  PROVE  [Peer!Next]_(Peer!vars)
<1>1. CASE UNCHANGED vars
  <2>1. UNCHANGED <<Wire, Serving, replies>>
    BY <1>1 DEF vars, loopVars, Wire, Serving
  <2> QED BY <2>1, PeerStutters
<1>2. CASE ChatServerStep
  BY <1>2, AskGives, GreetGives, LoseBreaks DEF ChatServerStep
<1>3. ASSUME NEW s \in Servers, Run(s) \/ TryAgain(s) \/ GiveUp(s) \/ StartAgain(s)
      PROVE  Peer!Next \/ UNCHANGED Peer!vars
  BY <1>3, ValidatedTakes, NotValidatedBreaks, QuietSteps, ReceiveTakes, ReceiveFailsBreaks,
     StartAgainBreaks, AnswerTakes DEF Run
<1> QED BY <1>1, <1>2, <1>3 DEF LoopNext

\* At first nothing is on the wire and nobody is ready.
LEMMA InitIsPeer == Init => Peer!Init
<1> SUFFICES ASSUME Init PROVE Peer!Init
  OBVIOUS
<1>1. \A s \in Servers : working[s] \o toAuth[s] = <<>>
  BY DEF Init
<1>2. /\ [s \in Servers |-> working[s] \o toAuth[s]] = [s \in Servers |-> <<>>]
      /\ [s \in Servers |-> phase[s] = "serving"] = [s \in Servers |-> FALSE]
      /\ replies = [s \in Servers |-> {}]
  BY <1>1 DEF Init
<1> QED BY <1>2 DEF Peer!Init

\* ImplementsPeer: any number of processes, over any accounts, behave as the chat server
\* expects, whatever is coalesced, garbled or lost and wherever a process or a
\* connection breaks.
THEOREM LoopImplementsPeer == LoopSpec => ImplementsPeer
<1>1. Init => ReturnedInv
  BY DEF Init, AccountInit, ReturnedInv
<1>2. LoopInv /\ ReturnedInv /\ [LoopNext]_vars => ReturnedInv'
  BY LoopStep, EachStep, ReturnedStep DEF LoopInv
<1>3. LoopInv /\ LoopInv' /\ RowsAsAsked /\ ReturnedInv /\ [LoopNext]_vars
        => [Peer!Next]_(Peer!vars)
  BY LoopIsPeer
<1> QED BY LoopInit, LoopStep, RowsWereAsked, InitIsPeer, <1>1, <1>2, <1>3, PTL
        DEF LoopSpec, ImplementsPeer, Peer!Spec
=============================================================================
