----------------------------- MODULE AuthServer -----------------------------
(***************************************************************************)
(* The main loop of an authentication server (src/Auth_Server/theMain.cpp) *)
(* over its accounts (UserAccounts) and its connection to the chat server: *)
(* it asks to be validated, its user decides whether to try again, and     *)
(* then it answers requests until it is stopped.                           *)
(*                                                                         *)
(* The chat server is the environment: it may send a request to any of the *)
(* servers that are connected, and texts.  Messages arrive whole           *)
(* (GetMessages looks at those that do not), but any number of them may be *)
(* read by one recv.  They are then one string to the parser of protobuf,  *)
(* whose bytes are not modelled: it may find in it, instead of a field of  *)
(* the first message, any value of the sets that the constants give.       *)
(***************************************************************************)
EXTENDS UserAccounts

CONSTANTS
  Long,         \* E-mails so long that the length of a request turns negative.
  StrayIds,     \* The request ids that bytes of later messages may be taken for.
  MaxRequests,  \* Bound of the model: requests of the chat server,
  MaxTries      \* and VALIDATE_SERVERs of a process.

ASSUME LoopAssumption ==
  /\ Long \subseteq Emails /\ StrayIds \subseteq Int \ {0}
  /\ NoEmail \in Emails /\ "" \in Passwords  \* the fields a message does not have
  /\ MaxRequests \in Nat /\ MaxTries \in Nat \ {0}
  /\ Calls >= MaxRequests  \* so that no call is ever withheld

VARIABLES
  phase,    \* "validating" (about to call getMessages), "asking" its user,
            \* "serving" or "stopped".
  link,     \* The connection: "up", "lost" (the chat server ended it), "closed".
  toAuth,   \* Messages sent to a server, and not yet received.
  working,  \* The messages of the recv it is answering,
  requestid,\* and the request id that was parsed from them.
  toGreet,  \* Texts that the chat server may yet send to a server.
  tries,    \* VALIDATE_SERVERs the process may still send.
  asked,    \* History: the requests of the chat server, by request id.
  replies,  \* History: what each server has answered.
  cause     \* History: for each row of web_auth, the messages it was inserted for.

loopVars == <<phase, link, toAuth, working, requestid, toGreet, tries, asked, replies>>

vars == <<accountVars, loopVars, cause>>

Text == [kind |-> "text"]

Request(rid, op, email, password) ==
  [kind |-> "request", rid |-> rid, op |-> op, email |-> email, password |-> password]

\* An answer.  The messages that were received together and are answered by it, and
\* the e-mail that was read from them, are history.
Reply(op, rid, success, to, email) ==
  [op |-> op, rid |-> rid, success |-> success, to |-> to, email |-> email]

Garbled(m) == m.email \in Long

Init ==
  /\ AccountInit
  /\ phase = [s \in Servers |-> "validating"]
  /\ link = [s \in Servers |-> "up"]
  /\ toAuth = [s \in Servers |-> <<>>]
  /\ working = [s \in Servers |-> <<>>] /\ requestid = [s \in Servers |-> 0]
  /\ toGreet = [s \in Servers |-> 1] /\ tries = [s \in Servers |-> MaxTries - 1]
  /\ asked = <<>> /\ replies = [s \in Servers |-> {}] /\ cause = <<>>

-----------------------------------------------------------------------------
\* The chat server.

\* A request is given to any of the connected servers: the chat server sends it
\* to all that it has validated, and loses some of what it sends.
Ask(op, email, password) ==
  /\ Len(asked) < MaxRequests /\ email # NoEmail /\ password # ""
  /\ asked' = Append(asked, [op |-> op, email |-> email, password |-> password])
  /\ \E to \in SUBSET {s \in Servers : link[s] = "up"} :
       toAuth' = [s \in Servers |->
         IF s \in to THEN Append(toAuth[s], Request(Len(asked'), op, email, password))
         ELSE toAuth[s]]
  /\ UNCHANGED <<accountVars, phase, link, working, requestid, toGreet, tries, replies, cause>>

\* A text: the answer to a VALIDATE_SERVER, or to an answer under the id 0, which the
\* chat server tells every connection that has not asked for anything.
Greet(s) ==
  /\ link[s] = "up" /\ toGreet[s] > 0
  /\ toGreet' = [toGreet EXCEPT ![s] = @ - 1]
  /\ toAuth' = [toAuth EXCEPT ![s] = Append(@, Text)]
  /\ UNCHANGED <<accountVars, phase, link, working, requestid, tries, asked, replies, cause>>

\* The chat server ends; what it sent may still be read, or be lost.
Lose(s) ==
  /\ link[s] = "up"
  /\ link' = [link EXCEPT ![s] = "lost"]
  /\ \/ UNCHANGED toAuth
     \/ toAuth' = [toAuth EXCEPT ![s] = <<>>]
  /\ UNCHANGED <<accountVars, phase, working, requestid, toGreet, tries, asked, replies, cause>>

-----------------------------------------------------------------------------
\* getMessages, as far as the main loop can tell.

\* One recv takes k messages.
Received(s, k) ==
  /\ link[s] # "closed" /\ k \in 1..Len(toAuth[s])
  /\ toAuth' = [toAuth EXCEPT ![s] = SubSeq(@, k + 1, Len(@))]

\* It returns "": nothing came within a second, or recv returned 0.
Nothing(s) == toAuth[s] = <<>> \/ link[s] = "closed"

\* recv fails: the socket is closed, m_isAlive stays, and what is returned is
\* read from behind the string "recv failed with error : " (the error number is
\* added to the pointer).
Failed(s) ==
  /\ link[s] = "lost"
  /\ link' = [link EXCEPT ![s] = "closed"]
  /\ toAuth' = [toAuth EXCEPT ![s] = <<>>]

\* sendMessage: on a connection that is lost, send may fail, and closes it.
Sent(s) ==
  \/ UNCHANGED link
  \/ link[s] = "lost" /\ link' = [link EXCEPT ![s] = "closed"]

-----------------------------------------------------------------------------
\* Validation.

\* Whatever arrives first is taken for the answer, with all that came with it.
Validated(s) ==
  /\ phase[s] = "validating"
  /\ \/ \E k \in 1..Len(toAuth[s]) : Received(s, k) /\ UNCHANGED link
     \/ Failed(s)
  /\ phase' = [phase EXCEPT ![s] = "serving"]
  /\ UNCHANGED <<accountVars, working, requestid, toGreet, tries, asked, replies, cause>>

NotValidated(s) ==
  /\ phase[s] = "validating"
  /\ \/ Nothing(s) /\ UNCHANGED <<link, toAuth>>
     \/ Failed(s)
  /\ phase' = [phase EXCEPT ![s] = "asking"]
  /\ UNCHANGED <<accountVars, working, requestid, toGreet, tries, asked, replies, cause>>

\* "Try again? (y) or (n)"
TryAgain(s) ==
  /\ phase[s] = "asking" /\ tries[s] > 0
  /\ phase' = [phase EXCEPT ![s] = "validating"]
  /\ tries' = [tries EXCEPT ![s] = @ - 1]
  /\ toGreet' = [toGreet EXCEPT ![s] = IF link[s] = "up" THEN @ + 1 ELSE @]
  /\ Sent(s)
  /\ UNCHANGED <<accountVars, toAuth, working, requestid, asked, replies, cause>>

GiveUp(s) ==
  /\ phase[s] = "asking"
  /\ phase' = [phase EXCEPT ![s] = "stopped"]
  /\ UNCHANGED <<accountVars, link, toAuth, working, requestid, toGreet, tries, asked, replies,
                 cause>>

-----------------------------------------------------------------------------
\* Serving.

\* The '\n' of a garbled message reads as AUTHENTICATE_WEB.
OpOf(m) == IF Garbled(m) THEN "authenticate" ELSE m.op

Fields(rid, email, password) == [rid |-> rid, email |-> email, password |-> password]

\* The fields of one message.  A garbled one leaves an empty line.
FieldsOf(m) ==
  IF Garbled(m) THEN Fields(0, NoEmail, "") ELSE Fields(m.rid, m.email, m.password)

\* Fault: the string is not emptied, and an earlier message is behind the next one.
ParsedLeftOver(ms) ==
  LET first == FieldsOf(Head(ms))
  IN  [rid : {first.rid} \union StrayIds,
       email : {first.email} \union (Emails \ {NoEmail}),
       password : {first.password} \union (Passwords \ {""})]

\* What ParseFromString leaves in a message.  The lines of one recv are one string, and
\* it is given all of it behind the first id.  The '\n' and the id between two lines are
\* a field to be skipped, of as many bytes as the id says, which ends somewhere in the
\* next line; what is read from there on, until a byte is the tag of no field, replaces
\* what was read before.  No byte is 0, so no number becomes 0 and no string empty.
Parsed(ms) ==
  LET first == FieldsOf(Head(ms))
  IN  IF Len(ms) = 1 THEN {first}
      ELSE [rid : {first.rid} \union StrayIds,
            email : {first.email} \union (Emails \ {NoEmail}),
            password : {first.password} \union (Passwords \ {""})]

\* Fault: the last message of a recv is dispatched.
DispatchLast(s, ms) ==
  LET m == ms[Len(ms)]
  IN  IF m.kind = "text"
      THEN UNCHANGED <<accountVars, working, requestid>>
      ELSE /\ working' = [working EXCEPT ![s] = ms]
           /\ \E fields \in Parsed(<<m>>) :
                /\ requestid' = [requestid EXCEPT ![s] = fields.rid]
                /\ Call(s, OpOf(m), fields.email, fields.password)

\* The first message of a recv says what is done, and nothing else is done for the
\* others.
Dispatch(s, ms) ==
  LET m == Head(ms)
  IN  IF m.kind = "text"
      THEN UNCHANGED <<accountVars, working, requestid>>
      ELSE /\ working' = [working EXCEPT ![s] = ms]
           /\ \E fields \in Parsed(ms) :
                /\ requestid' = [requestid EXCEPT ![s] = fields.rid]
                /\ Call(s, OpOf(m), fields.email, fields.password)

Receive(s) ==
  /\ phase[s] = "serving" /\ pc[s] = "idle"
  /\ \E k \in 1..Len(toAuth[s]) :
       Received(s, k) /\ Dispatch(s, SubSeq(toAuth[s], 1, k))
  /\ UNCHANGED <<phase, link, toGreet, tries, asked, replies, cause>>

\* The process goes on with a closed socket, or dies reading the string.
ReceiveFails(s) ==
  /\ phase[s] = "serving" /\ pc[s] = "idle"
  /\ Failed(s)
  /\ \/ UNCHANGED phase
     \/ phase' = [phase EXCEPT ![s] = "stopped"]
  /\ UNCHANGED <<accountVars, working, requestid, toGreet, tries, asked, replies, cause>>

\* Fault: any number but 0 says success.
ReplyUnlessZero(s) ==
  Reply(call[s].op, requestid[s], result[s] # 0, working[s], call[s].email)

\* The reply says success unless the result is -1, whatever else it is.
ReplyTo(s) ==
  Reply(call[s].op, requestid[s], result[s] # -1, working[s], call[s].email)

\* sendMessage, to all that the chat server takes to have asked under this id.
Told(s) ==
  toGreet' = [t \in Servers |->
    IF requestid[s] = 0 /\ link[t] = "up" THEN toGreet[t] + 1 ELSE toGreet[t]]

\* Fault: what was received is kept.
AnswerAndKeep(s) ==
  /\ pc[s] = "returned"
  /\ replies' = [replies EXCEPT ![s] = @ \union {ReplyTo(s)}]
  /\ Resume(s)
  /\ Sent(s) /\ Told(s)
  /\ UNCHANGED <<phase, toAuth, working, requestid, tries, asked, cause>>

\* Fault: failures are not answered.
AnswerIfSuccess(s) ==
  /\ pc[s] = "returned"
  /\ replies' = [replies EXCEPT ![s] = @ \union {r \in {ReplyTo(s)} : r.success}]
  /\ working' = [working EXCEPT ![s] = <<>>] /\ requestid' = [requestid EXCEPT ![s] = 0]
  /\ Resume(s)
  /\ Sent(s) /\ Told(s)
  /\ UNCHANGED <<phase, toAuth, tries, asked, cause>>

Answer(s) ==
  /\ pc[s] = "returned"
  /\ replies' = [replies EXCEPT ![s] = @ \union {ReplyTo(s)}]
  /\ working' = [working EXCEPT ![s] = <<>>] /\ requestid' = [requestid EXCEPT ![s] = 0]
  /\ Resume(s)
  /\ Sent(s) /\ Told(s)
  /\ UNCHANGED <<phase, toAuth, tries, asked, cause>>

Work(s) ==
  /\ Step(s)
  /\ cause' = IF web_auth' = web_auth THEN cause ELSE Append(cause, working[s])
  /\ UNCHANGED loopVars

\* The process is started again, wherever it was, and connects anew.
StartAgain(s) ==
  /\ Restart(s)
  /\ phase' = [phase EXCEPT ![s] = "validating"]
  /\ link' = [link EXCEPT ![s] = "up"]
  /\ toAuth' = [toAuth EXCEPT ![s] = <<>>]
  /\ working' = [working EXCEPT ![s] = <<>>] /\ requestid' = [requestid EXCEPT ![s] = 0]
  /\ toGreet' = [toGreet EXCEPT ![s] = 1] /\ tries' = [tries EXCEPT ![s] = MaxTries - 1]
  /\ UNCHANGED <<asked, replies, cause>>

-----------------------------------------------------------------------------
\* What the process does on its own.
Run(s) == Validated(s) \/ NotValidated(s) \/ Receive(s) \/ ReceiveFails(s) \/ Work(s) \/ Answer(s)

ChatServerStep ==
  \/ \E op \in Operations, email \in Emails, password \in Passwords :
       Ask(op, email, password)
  \/ \E s \in Servers : Greet(s) \/ Lose(s)

LoopNext ==
  \/ ChatServerStep
  \/ \E s \in Servers : Run(s) \/ TryAgain(s) \/ GiveUp(s) \/ StartAgain(s)

LoopSpec == Init /\ [][LoopNext]_vars

\* A process runs while it has something to do; nothing is assumed of its user,
\* of the chat server, or of the database but that it ends a statement.
FairLoopSpec == LoopSpec /\ \A s \in Servers : WF_vars(Run(s))

-----------------------------------------------------------------------------
Messages ==
  {Text} \union [kind : {"request"}, rid : 1..MaxRequests, op : Operations,
                 email : Emails, password : Passwords]

\* Type invariant of the loop: a call runs only for a message that was received,
\* while the server is serving.
LoopTypeOK ==
  /\ phase \in [Servers -> {"validating", "asking", "serving", "stopped"}]
  /\ link \in [Servers -> {"up", "lost", "closed"}]
  /\ toAuth \in [Servers -> Seq(Messages)] /\ working \in [Servers -> Seq(Messages)]
  /\ requestid \in [Servers -> StrayIds \union 0..MaxRequests]
  /\ toGreet \in [Servers -> Nat] /\ tries \in [Servers -> 0..MaxTries]
  /\ asked \in Seq([op : Operations, email : Emails, password : Passwords])
  /\ \A s \in Servers :
       /\ pc[s] = "idle" <=> working[s] = <<>>
       /\ pc[s] # "idle" => phase[s] = "serving" /\ Head(working[s]) # Text

\* A log-in is only approved for an e-mail that has a row, however requests are
\* garbled, coalesced and repeated, and whatever the database does.  A request that is
\* received alone is only approved under its own id, and for its own e-mail; one that
\* is received with others may be approved under another id.
ApprovedHasAccount ==
  \A s \in Servers : \A r \in replies[s] :
    r.op = "authenticate" /\ r.success =>
      /\ RowsOf(r.email) # {}
      /\ Len(r.to) = 1 => r.rid \in DOMAIN asked /\ asked[r.rid].email = r.email

\* A row that was inserted for these messages.
InsertedFor(row, ms) ==
  /\ row.email # NoEmail /\ Head(ms).rid \in DOMAIN asked
  /\ LET request == asked[Head(ms).rid]
     IN  /\ request.op = "create"
         /\ Len(ms) = 1 => /\ row.email = request.email
                           /\ row.hashedPassword = Hash(request.password, row.salt)

\* A row of web_auth is only inserted for a request to create an account that was the
\* first of what was received, and never for an empty e-mail.  It holds the e-mail and
\* the password that were asked for together when the request was received alone; when
\* there were others behind it, what it holds may be taken from anywhere in them.
RowsAsAsked ==
  /\ Len(cause) = Len(web_auth)
  /\ \A i \in DOMAIN web_auth : InsertedFor(web_auth[i], cause[i])

FirstInLine(s, rid) ==
  /\ phase[s] = "serving" /\ link[s] = "up" /\ toAuth[s] # <<>>
  /\ LET m == Head(toAuth[s])
     IN  m.kind = "request" /\ m.rid = rid /\ ~Garbled(m)

\* A request that is the next to be received by a serving process is answered in
\* the end, unless the connection or the process breaks first, whatever the database
\* does; and under its own id, unless others are received with it.
FirstIsAnswered ==
  \A s \in Servers, rid \in 1..MaxRequests :
    FirstInLine(s, rid) ~>
      \/ \E r \in replies[s] : Head(r.to).rid = rid /\ (Len(r.to) = 1 => r.rid = rid)
      \/ link[s] # "up" \/ phase[s] # "serving"

\* "Invalid credentials!" (Server/theMain.cpp:831): a log-in that is received alone, with a
\* password that no row of its e-mail has, is not approved.
WrongPasswordRefused ==
  \A s \in Servers : \A r \in replies[s] :
    r.op = "authenticate" /\ r.success /\ Len(r.to) = 1 =>
      \E i \in RowsOf(asked[r.rid].email) :
        web_auth[i].hashedPassword = Hash(asked[r.rid].password, web_auth[i].salt)

\* The answers that messages may get when they are received together: the first says
\* of what kind they are, and it alone has to be a request.
AnswersOf(ms) ==
  IF Head(ms) = Text THEN {}
  ELSE IF Len(ms) = 1 /\ Garbled(Head(ms))
       THEN {Reply("authenticate", 0, FALSE, ms, NoEmail)}
       ELSE {Reply(OpOf(Head(ms)), fields.rid, success, ms, fields.email) :
               fields \in Parsed(ms), success \in BOOLEAN}

Peer ==
  INSTANCE AuthPeer WITH
    Messages <- Messages,
    Answers <- AnswersOf,
    wire <- [s \in Servers |-> working[s] \o toAuth[s]],
    ready <- [s \in Servers |-> phase[s] = "serving"],
    said <- replies

\* The process behaves as the chat server expects of an authentication server: it
\* gives one answer to all that one recv brings, of the kind of its first message,
\* under the id of that message unless there are others behind it, never before it
\* has taken something for the answer to its validation, and to a garbled request that
\* is received alone nothing but a failure under the id 0.
ImplementsPeer == Peer!Spec
=============================================================================
