# Verification of the console chat

This directory holds TLA+ specifications of the chat system in `src/`: a chat
server, console clients, and authentication servers over a MySQL database. TLC
checks the specifications on small instances; the TLA+ proof system (TLAPS)
checks theorems about them for every value of their constants.

    tlasany M.tla                    parse a module
    tlc -config X.cfg M              check a run (the table under "Runs")
    tlapm M.tla                      check the proofs of a module

The code is C++ for Windows. Where its behaviour is undefined or depends on the
build, the assumption made is stated under "Assumptions about the code".

## Inventory

| Part | Source | State it keeps | Operations |
|---|---|---|---|
| Chat server, select loop | `Server/theMain.cpp` 62-69, 144-368 | `g_socketArray`, `g_totalSockets`, one `SOCKET_INFORMATION` per connection, `g_readSet`, `g_writeSet`, the count of ready sockets | select, accept, receive, send, free |
| Chat server, `readSocket` | 370-422 | the bytes collected, the current length | cut a receive into messages |
| Chat server, `treatMessage` | 425-858 | `g_requestedID`; of a connection its rooms, user name, flags, request id | one case per message |
| Chat server, `sendMsg`, `msgToRoom` | 861-922 | `m_dataBuffer` and `m_hasNewData` of a connection: ONE outgoing message | give a message to one connection, or to a room |
| `cBuffer` | `include/cBuffer.cpp` | a `std::string`, a read and a write position | reads and writes of ints, shorts, chars, in sequence or at an index |
| `cConnection` | `include/cConnection.cpp` | the socket, `m_isAlive`, a static left-over string | connect, `sendMessage`, `getMessages`, close |
| Authentication server | `Auth_Server/theMain.cpp` | connection, validated or not | ask to be validated, answer requests |
| Accounts, database | `Auth_Server/cUserManager.cpp`, `cDataBase.cpp`, `DB.sql` | tables `web_auth` and `user`, `gUserId`, `gAuthId` | create an account, authenticate |
| Salt, SHA-256 | `Auth_Server/Salt.cpp`, `sha256.cpp` | none | random salt, hash |
| Client console | `Client/theMain.cpp` | the user's data, the rooms | read a command, send it, show what came |
| Protobuf messages | `include/authentication.pb.*` | none | generated |
| Protobuf, MySQL connector, Boost | `include`, `Auth_Server/include`, `lib` | | third-party |

How they interact. A client and the chat server, and an authentication server
and the chat server, talk over TCP in packets of a little-endian int (the length
of the whole packet), a byte (the message id) and fields. The chat server is one
thread: everything it does happens in a pass of its select loop, and everything
its peers do interleaves with it. `CREATE_ACCOUNT` and `AUTHENTICATE` of a client
become requests that are given to *every* validated authentication server with a
fresh request id; the answer is matched to the connection that holds that id.
Rooms exist only as entries in the connections' lists.

What is hard about it. The code handles disorder of many kinds with very little
state: a connection has room for one outgoing message and one request id; the
index and the count of the scan are changed by accept and by freeing; packets are
coalesced and split by TCP while `readSocket` handles one packet per receive;
lengths lose their meaning when a byte is 128 or more; answers come late, twice,
or for somebody who has gone. The full list, with lines, is in `PROJECT.json`
under "hazards".

What would make each part correct:

* select loop: no ready socket is forgotten; what is to be sent is sent; what
  arrives is read; a message is not overwritten by a receive.
* `readSocket`: exactly the packets that begin where it looks for one are treated.
* requests: an answer reaches the one who asked, and only an approval of one's
  own credentials authenticates.
* rooms: a text reaches exactly those who share a room with its author.
* `cBuffer`: what is written is read back, and nothing is touched outside.
* accounts: one account per e-mail, consistent rows in both tables.

## Modules

| Module | Models | About |
|---|---|---|
| `ByteCodec` | `cBuffer`'s encoding | how ints and shorts become bytes and come back, with sign-extended chars |
| `CodecCheck` | the same, bit by bit | a writer, single bytes written over, a reader; the shifts and ors as the reference |
| `CBuffer` | the class `cBuffer` | all reads and writes, growth, positions, accesses outside |
| `Framing` | result of `readSocket` | which packets of a receive are treated, in closed form |
| `ReadSocket` | loop of `readSocket` | the loop byte by byte, with `treatMessage`'s first decisions |
| `ChatService` | the abstract service | presence, authentication, membership, texts; who may get a text |
| `ChatServer` | the chat server with its peers | the whole select loop and every message |
| `AccountBook` | the abstract account store | one password per e-mail, and reports that agree with it |
| `UserAccounts` | `cUserManager`, `cDataBase`, `DB.sql` | every SQL statement of every authentication server, over the shared tables |
| `AuthPeer` | the abstract authentication server | which messages it takes, and which it may answer with what |
| `AuthServer` | `main` of the authentication server | validation, dispatch and answers, over `UserAccounts` and a connection that may break |
| `GetMessages` | `cConnection::getMessages` | the loop that cuts a receive of a client or an authentication server into lines |
| `MessageFields` | `cConnection::sendMessage` and the reads of `treatMessage` | the fields of one message, with their narrowed lengths |
| `ClientConsole` | the client's console | two `getline` calls per turn, and the words `operator>>` takes |
| `Sha256` | class `SHA256`, without `transform` | which bytes are compressed, in which order |
| `ChatServerProofs` | | proofs about `ChatServer`: types, the scan, what is sent |
| `ServiceProofs` | | the same: requests and their answers, the refinement of `ChatService` and what it gives |
| `ChatServiceProofs` | | proofs about `ChatService` |
| `UserAccountsProofs`, `AuthServerProofs` | | proofs about the accounts and the loop over them, and the refinements of `AccountBook` and `AuthPeer` |
| `ByteProofs` | | proofs about `CBuffer`, `CodecCheck` and `Sha256` |
| `SumProofs` | | sums of lengths and joined sequences, for sequences of any length |
| `MessageProofs` | | proofs about `ReadSocket`, `GetMessages`, `MessageFields` and `ClientConsole` |
| `MCBytes`, `MCMessages` | | instances that hold several parts, one of which moves in each behaviour |
| `MCChatServer`, `MCChatRooms`, `MCUserAccounts`, `MCAuthServer` | | instances of one module each |

How they build on each other: `ByteCodec` gives `CBuffer`, `Framing` and `Sha256` the
meaning of bytes; `Framing` gives `ChatServer` the treatment of a receive,
and `ReadSocket` shows that `Framing` says what the loop does; `ChatServer`
implements `ChatService`. `AuthServer` extends `UserAccounts`: its steps are those of
the accounts or leave them alone (`LoopUsesAccounts`), so that what holds of the accounts
holds of the process. `UserAccounts` implements `AccountBook` where the database works and is
not shared. `AuthServer` implements `AuthPeer`, which says what `ChatServer` assumes of its
authentication servers in `AuthValidate` and `AuthRead`: it is the interface between the two
programs, and each is checked against its own side of it.

Definitions marked "Fault" are mistakes the code does not make: each is a variant
of a definition below it, used only to see that a property notices (`PROJECT.json`,
"mutants"). No action uses them.

### ChatServer

State. `conns` is `g_socketArray` up to `g_totalSockets`; `sock[c]` is the
`SOCKET_INFORMATION` of connection `c`, without the fields that are only written
(`m_userID`, the byte counters); `readSet`, `writeSet`, `totalOfSockets` and
`socketsIndex` are the variables of `main`; `pc` says whether the thread is about
to accept, scanning, or treating the messages `batch` of one receive. Of the peers:
`inbox[c]` holds the packets that are under way to the server, `skew[c]` says that
the next byte lies inside a packet (the first part was consumed by an earlier
receive), `toAuth[a]` holds what was sent to an authentication server. `ledger`,
`approved` and `strayed` are history: who asked for what under which request id, which ids
an authentication server approved, and which answers it gave to messages it had read together.

Actions. `Select` covers arming the sets (144-162) and the call: it may return any
non-empty set of the armed sockets that are ready. `Accept` and `AcceptNothing`
are 178-226, and `Fail` is a `select`, `accept` or `ioctlsocket` whose error makes `main` return
(`pc` is then "ended"). `RecvData`, `RecvWouldBlock`, `RecvGone`, `SendData`,
`SendWouldBlock`, `SendGone` are a visit of the scan with each outcome of `WSARecv`
and `WSASend`. `Treat...` is a case of `treatMessage`, with the calls of `sendMsg`
it makes; each uses `Deliver`, which gives one message to some connections and goes
on with the receive. A connection's `m_rooms` is the set of its entries: the code
only asks whether an entry exists, compares entries, and empties all equal ones.

Peers. A client sends any command at any time. An authentication server asks to be
validated until something arrives, then gives one answer to what it reads at once (`AuthRead`): of the kind
of its first message, with one of the outcomes its database may decide, and with a creation date or without.
The answer to a message that is read alone carries the id of that message. With others behind it the id
may be any of `StrayIds` as well, since the parser of protobuf is given all the lines as one message
(see `AuthServer`). Peers in `Fragile` may close or
die at any moment; data they sent before may still be read or be lost with them.

A receive takes any number of whole packets, and may end inside the next (`MaxCuts`
times): after its first byte, or before its last. What is treated of it is
`Chunks`, by `Framing`.

### UserAccounts

State. `web_auth` and `user` are the tables, in the order of their ids; `gUserId` is the
counter of each process. `pc[s]` says which SQL statement server `s` has to execute next, `call[s]`
for which call; `thisUser`, `creation` and `result` are the variables and the return value of the call.
`run`, `results` and `unanswered` are history.

Actions. One action per statement, since every statement is a transaction: `FindEmail`
(`cDataBase.cpp` 36-64), `InsertAuth` and `InsertUser` (the two INSERTs), `SelectAuth`, `SelectUser`,
`UpdateUser` (the three of `selectUser`, and the comparison of the hashes). Each has a variant that
throws, before or after its effect, with what the `catch` makes of it. `Restart` ends a process
anywhere and starts the counter over. A query finds the rows whose e-mail is the same under the
table's collation (`Folded`), and its last row stays in the variables, as in the `while (rs->next())`
loops. The two queries of `web_auth` have the e-mail in their text. One with an apostrophe or a backslash
(`Quoted`) makes another query of it, so that `Finds` leaves open which row it leaves in the variables, if any, and
`QueryThrows` lets it throw. Of `user` the model keeps ids: dates are told apart by nothing else.

### AuthServer

State. `phase[s]` is the place in `main`; `link[s]` is the connection: up, lost, or closed by
the failed call with `m_isAlive` still set; `toAuth[s]` holds what was sent to the process,
`working[s]` what the `recv` it is answering has brought, `requestid[s]` the id that was parsed from it.
`asked`, `replies` and `cause` (which messages a row was inserted for) are history.

Actions. `Validated`, `NotValidated`, `TryAgain`, `GiveUp` are `theMain.cpp` 44-72; `Receive` is a call of
`getMessages` and the dispatch on the first character of what it returns; `Answer` builds the reply
from the result and sends it; `Work` is a statement of the accounts. Environment: `Ask`, `Greet`, `Lose`.

`Parsed` is what `ParseFromString` leaves in a message, whether or not it succeeds: the code never asks. Of one
line these are its fields. The lines of one `recv` are one string, though, and behind the first line the parser finds a `\n`
and an id, which is a field to be skipped; where it goes on depends on lengths in the next line, and a byte of
those may be the tag of any field. So the request id, the e-mail and the password may each be replaced by
bytes of a later message. The model does not follow the bytes: it lets the id be any of `StrayIds`, and the
e-mail and the password any that are not empty. An answer under the id 0 makes the chat
server send a text to every connection that has not asked for anything, authentication servers among them (`Told`).

### GetMessages, MessageFields, ClientConsole, Sha256

`GetMessages` has the loop's own variables (`m_readIndex`, `bytesInBuffer`, `packetLength`), and of a
receive the packets it is made of: which bytes of each came, and where they lie. Each action is one
way through the body. Its other branch, which would fill the static `controlStr`, is the
predicate `KeepForNextCall`, and `NothingKept` says that it is never taken.

`MessageFields` follows one message: `SendMessage` computes the length that is sent, with each field's
length narrowed to a signed char or a short; `Receive` is `readSocket` for a packet that comes alone;
the reads of `treatMessage` take one field each, out of the string if the lengths say so.

`ClientConsole` keeps `stdin` as a sequence of lines or rests of lines, each a sequence of
words. A turn does one receive of at most 512 bytes (`GetMessages`); what has arrived and was not read yet is
counted in the receives it takes (`unread`). `FirstGetline` is the one in `main`, `SecondGetline` the one in `readCase`; `AskEmail`, `AskPassword`,
`AskRoom` are `operator>>`. The user types at any time, and messages arrive at any time.

`Sha256` has the members of the class, and `absorbed`, the bytes given to `transform`. Bytes of the message
are distinct, so that a byte lost, doubled or out of place is seen.

### Assumptions about the code

* `char` is signed, as on the project's compilers.
* A chunk `readSocket` cut off early is read beyond its end by `treatMessage`: it
  may be understood or not ("lucky"), which the model leaves open.
* After the server answers the sender of a message, `readSocket` goes on reading in
  the outgoing message. The model ends the receive there: the outgoing message
  begins with the bytes of one packet, and the position in it is past them.
* Nothing beyond the ends of `g_socketArray` is modelled (`TableAssumption`).
* In `ChatServer`, `WSASend` sends the whole message or would block; what a message that was sent
  in part does to the peer that reads it is in `GetMessages`.
* A packet of 384 bytes or more can, by its own length bytes, pass for a `JOIN_ROOM`
  to the room "" when it is cut at the wrong place (`ReadSocket!FalseJoin`);
  `SizeAssumption` keeps `ChatServer` below that length, `ReadSocket` covers it.
* `AuthServer`: messages arrive whole (those that do not are `GetMessages`); a `recv` that failed is
  followed by a process that goes on, or dies of the pointer it returns. What the chat server sends has no zero
  byte behind its length: request ids below 64 are encoded in one byte, e-mails, passwords and texts are printable
  ASCII (so that the parser's UTF-8 check passes), and none of them is empty (`Ask`). Hence what `Parsed` puts in the place of a
  field is not 0 and not empty.
* `UserAccounts`: every statement is a transaction (autocommit); two passwords, or two salts, give two
  hashes; what a query with a `Quoted` e-mail does is left open only as far as a SELECT of rows that are there, or none,
  or an exception; a row's id is its place in the table (no rows are deleted, and no INSERT that fails takes an id).
* `GetMessages`, `MessageFields`: characters of texts and fields are printable (32 to 126). A client whose
  message is treated has logged in; a first name fits its array.
* `MessageFields`: a `cBuffer` of negative size throws in its constructor (the 32-bit build).
* `ClientConsole`: `std::cin` does not end.
* `Sha256`: the 32-bit counts do not wrap around; passwords are far shorter than that.

## Runs

Passing runs:

| Run | Instance | States | Shows |
|---|---|---|---|
| `bytes` | `MCBytes` | 257 000 | `cBuffer`: a write leaves the string only in a buffer that was given fewer than 4 bytes (`WriteOverrunOnlyIfShort`), items are read back (`ReadBack`). The closed forms of `ByteCodec` are the code's shifts and ors (`ReadsLikeTheBits`), and a length is read as it was written or as a negative number (`LengthSurvivesOrIsNegative`). SHA-256: no byte is lost or doubled (`NothingLost`), and the padding is that of the standard (`PaddedAsDefined`). |
| `messages` | `MCMessages` | 797 000 | `readSocket` treats the packets `Framing` names, those (`OnlyFramedTreated`) and in the end all of those (`AllFramedTreated`). `getMessages` returns what came whole (`LinesUntilCut`, `NothingElse`), never a text that does not begin behind a length (`NoFalseText`), and keeps nothing (`NothingKept`). Fields are read whole unless their length was narrowed (`FieldsWhole`), and in place even then (`FieldsInPlace`); only a negative length leads outside (`OutsideOnlyIfNegative`). The console sends whole lines in their order (`TextsWhole`), loses no two in a row (`NoTwoLost`), and two Enters are worth a receive of what came (`TwoEntersRefresh`). |
| `login` | `MCChatServer`, `MCLogin.cfg` | 1 479 000 | Two clients log in, one may break, on a full table, and answers to requests read together may stray: `UniqueRequest`, `AnswerToOwner`, `AuthenticatedByAnswer`, `SettledKept`, and of the scan `ReadyCounted`, `OnlyNewestUnwatched`. |
| `accounts` | `MCChatServer`, `MCAccounts.cfg` | 1 670 000 | Two authentication servers answer every request, and their answers may stray: `AnswerToOwner`. |
| `rooms` | `MCChatRooms`, `MCRooms.cfg` | 856 000 | `TypeOK`, and `ImplementsService`: the server implements `ChatService`. |
| `liveness` | `MCChatRooms`, `MCLiveness.cfg` | 4 000 | `PendingIsSent`, `InputIsRead`. |
| `rows` | `MCUserAccounts`, `MCRows.cfg` | 4 264 000 | Two servers on one database, with an exception, a restart, and an e-mail with an apostrophe: rows per e-mail (`OneRowPerServer`), the tables against each other (`TablesInStep`), log-ins against rows (`LoginHasAccount`, `LockedOutByAnother`). |
| `book` | `MCUserAccounts`, `MCBook.cfg` | 104 000 | `ImplementsBook`: one server on a working database implements `AccountBook`. |
| `auth_server` | `MCAuthServer` | 929 000 | `LoopTypeOK`, `ApprovedHasAccount`, `RowsAsAsked`; `ImplementsPeer`: it implements `AuthPeer`; `FirstIsAnswered`: a request first in line is answered in the end. |

Runs in which TLC finds what the program says of itself to be untrue:

| Run | Statement | What the code does |
|---|---|---|
| `refused` | `WrongPasswordRefused`: a wrong password is answered "Invalid credentials!" (`Server/theMain.cpp:831`) | `authenticateAccount` returns -4, and `main` takes only -1 for a failure (`Auth_Server/theMain.cpp:122`): the log-in succeeds, with a userId of -4. |
| `dates` | `DateOfAccount`: the date shown is that of the account (`Server/theMain.cpp:794`) | `gUserId` is incremented twice per account and starts from 0, while the ids of `user` start from 5: the third account is shown the date of the first. |
| `password` | `PasswordLongEnough`: a password has at least 6 characters (`Client/theMain.cpp:165`) | The length of the password is narrowed to a `char`. With 255 characters it is -1: the packet ends before that length, the server reads the end of its string as the length 0, and the account is made with the empty password. |

Deadlock is not checked: the server idles in `select` once its peers have sent all
they may; a `cBuffer` that was overrun, a receive that was read, a digest that was computed and a
user who has typed all lines are at their end.

Bounds, and why they are enough:

* Connections: two clients and one authentication server, or one client and two of
  them. The code treats connections alike and compares at most two at a time (sender and
  receiver); the scan needs three to show an entry passed over while another is still due.
* `Quota` bounds the packets a peer starts (1 to 3), `MaxInbox` those under way (2 or
  3): enough for a second request before the answer to the first, for coalesced
  packets, and for join, text, leave of one client against those of another. `MaxCuts` lets one
  receive end inside a packet: what follows it is out of step for as long as the connection lasts.
* `FDSetSize` is 64, the value of the code, where capacity does not matter, and 3
  in `login`, where the three connections and the listening socket are one more than fit.
* The runs `rooms` and `liveness` begin after the log-in (`RoomsInit`): two clients
  are connected and authenticated, their last answer was sent, and the
  authentication server has left. It is a state of `login`'s kind that the server
  reaches when both clients log in.
* Lengths are chosen around the borders of the encoding: credentials of 118 bytes
  give a request whose length turns negative, a text of 250 arrives empty. `ReadSocket` takes packets
  of 7, 9, 11, 12, 127, 128 and 390 bytes in every order, `GetMessages` of 9, 127, 128, 383 and 512;
  `MessageFields` takes fields around 127, 255 and the sums that make a packet of 0 to 6 bytes;
  `Sha256` lengths around 55, 64 and their doubles, in up to three calls (one call fills the block, one
  begins behind it, one is cut by its end).
* `Calls` (2 to 4), `MaxFailures` and `MaxRestarts` (0 or 1): two servers with two calls each show a create
  against a create, a log-in, and both with a row between them; each kind of exception and each place
  of a restart is tried in every one of them. `Families` keeps behaviours about e-mails that
  differ in case apart from those about one e-mail; nothing in the code relates e-mails of two families.
* `StrayIds`: an id that either client may hold (2, in `login`), the id of the client's second request (2, in
  `accounts`), the second request's and one that nobody has (2 and -1, in `auth_server`). Empty in `rooms` and `liveness`, where no request is made. `DateSizes`: with a date (19, `login`) and
  without one (0, `accounts`). `Failing` is set in `liveness`: once `main` has returned nothing of the server changes any more.
* `Quoted`: one e-mail, in a family of its own, so that it meets rows only of its own name; it may find them, or none,
  or throw, at each of its queries.
* `MaxUnread` 2: a burst that takes one receive and one that takes two, with more arriving in between.
* `MaxRequests` 2 and `MaxTries` 2: a request first in line with another one behind it; a second greeting
  that is still on its way when the server begins to serve.
* `MaxLines` 5: a command, its words, and a line before and after them.

Fairness. `ReadSocket`: the loop runs on. `ChatServer`: the server's thread runs
whenever it is not blocked in `select` (weak fairness of `ServerStep`). `select` finds
a socket that is ready again and again sooner or later, and a receive or send on it
succeeds sooner or later (strong fairness per connection): the kernel reports every
ready socket, and a peer reads from time to time. Nothing is assumed of what peers
send. Under this fairness `InputIsRead` needs its exception: a connection that always
has output pending is never armed for reading. `AuthServer`: a process runs while it has something
to do (weak fairness of `Run` per server); this includes that the database ends a statement, with a result or
an exception, and nothing is assumed of the user or of the chat server. `FirstIsAnswered` excepts
connections that break: the code goes on with a closed socket and waits for ever. Nothing is assumed of whether `select` or `accept`
fails, so `PendingIsSent` and `InputIsRead` except a `main` that has returned.

## Proofs

Every invariant and action property that the passing runs check is a theorem, and so are the three refinements
and what follows from them for the programs. Liveness is left to TLC (see "Only model-checked" below).

| Theorem | Statement |
|---|---|
| `ChatServerProofs!TypeCorrect` | `Spec => []TypeOK` |
| `ChatServerProofs!ScanCounts`, `UnwatchedNewest` | `Spec => []ReadyCounted`, `[]OnlyNewestUnwatched` |
| `ChatServerProofs!SettledStays` | `Spec => SettledKept` (an action property) |
| `ServiceProofs!RequestIdsUnique` | `Spec => []UniqueRequest` |
| `ServiceProofs!AnswersReachOwners` | `Spec => []AnswerToOwner` |
| `ServiceProofs!OnlyApprovedAuthenticated` | `Spec => []AuthenticatedByAnswer` |
| `ServiceProofs!ServerImplementsService` | `Spec => ImplementsService` |
| `ChatServiceProofs!MembersAuthenticated`, `TextsShared`, `OthersSpared` | of `ChatService`: `Spec => [](TypeOK /\ MembersOnly)`, `[][TextsFromRoommates]_vars`, `[][OthersKept]_vars` |
| `ServiceProofs!ServerMembersAuthenticated`, `ServerTextsShared`, `ServerSparesOthers` | of `ChatServer`: `Spec => [](Service!TypeOK /\ Service!MembersOnly)`, `[][Service!TextsFromRoommates]_(Service!vars)`, `[][Service!OthersKept]_(Service!vars)` |
| `UserAccountsProofs!TypeCorrect` | `Spec => []TypeOK` |
| `UserAccountsProofs!RefusalsAreDue`, `LoginsAreDue` | `Spec => []RefusalHasAccount`, `[]LoginHasAccount` |
| `UserAccountsProofs!OnlyAnotherLocksOut` | `Spec => LockedOutByAnother` (an action property) |
| `UserAccountsProofs!TablesKeepStep`, `RowsBounded` | `Spec => []TablesInStep`, `[]OneRowPerServer` |
| `UserAccountsProofs!OneServerImplementsBook` | `Undisturbed => (Spec => ImplementsBook)` |
| `UserAccountsProofs!BookTrusted` | of `AccountBook`: `Spec => [](TypeOK /\ ReportsHold /\ ReportsAgree) /\ [][AccountsKept]_vars` |
| `UserAccountsProofs!OneServerTrusted` | `Undisturbed => (Spec => ...)`, the same of `UserAccounts` (without the types) |
| `AuthServerProofs!LoopTrusted` | `Undisturbed => (LoopSpec => ...)`, the same of `AuthServer` |
| `AuthServerProofs!LoopUsesAccounts` | `LoopSpec => Spec` (of `UserAccounts`) |
| `AuthServerProofs!LoopTypeCorrect` | `LoopSpec => []LoopTypeOK` |
| `AuthServerProofs!RowsWereAsked`, `ApprovalsAreDue` | `LoopSpec => []RowsAsAsked`, `[]ApprovedHasAccount` |
| `AuthServerProofs!LoopImplementsPeer` | `LoopSpec => ImplementsPeer` |
| `ByteProofs!BufferType`, `WritesStayInside`, `WrittenReadsBack` | of `CBuffer`: `Spec => []TypeOK`, `[]WriteOverrunOnlyIfShort`, `[]ReadBack` |
| `ByteProofs!LengthsSurviveOrAreNegative` | `CodecSpec => []LengthSurvivesOrIsNegative` |
| `ByteProofs!ClosedFormsAreBits` | `CodecSpec => []ReadsLikeTheBits` |
| `ByteProofs!ShortLengths` | 0 to 127 survive, 128 to 255 turn negative, as int and as short |
| `ByteProofs!HashTypeCorrect`, `EveryByteAbsorbed` | `HashSpec => []HashTypeOK`, `[]NothingLost` |
| `ByteProofs!PaddingIsStandard` | `ShortHashes => (HashSpec => []PaddedAsDefined)` |
| `SumProofs!JoinsHold` | the length and the elements of sequences joined one after the other |
| `MessageProofs!SocketTypeCorrect`, `OnlyFramedPass` | `ShortPackets => (Spec => []TypeOK)`, `[]OnlyFramedTreated` |
| `MessageProofs!ReceiveTypeCorrect`, `WholeUntilCut`, `OnlyTheLines`, `KeepsNothing` | `ReceiveSpec => []ReceiveTypeOK`, `[]LinesUntilCut`, `[]NothingElse`, `[]NothingKept` |
| `MessageProofs!TextIsText` | `ShortMessages => (ReceiveSpec => []NoFalseText)` |
| `MessageProofs!FieldsTypeCorrect`, `ReadAsWritten`, `NeverOutOfPlace`, `OutsideIfNegative` | `FieldsSpec => []FieldsTypeOK`, `[]FieldsWhole`, `[]FieldsInPlace`, `[]OutsideOnlyIfNegative` |
| `MessageProofs!PacketsAreShort` | `FieldsSpec => [](messageLength <= 32774)` |
| `MessageProofs!ConsoleTypeCorrect`, `SentAsTyped`, `EveryOtherLine`, `TwoEntersShow` | `ConsoleSpec => []ConsoleTypeOK`, `[]TextsWhole`, `[]NoTwoLost`, `[]TwoEntersRefresh` |
| `MessageProofs!PartsTypeCorrect` | `ShortPackets /\ RestIsSent => (MessagesSpec => []MessagesTypeOK)` |

### The chat server

Types. `TypeOK` is not inductive: `Head(backlog)` and `Head(batch)` are
only there because `pc` says so. `TypeInv` adds `PhaseOK`: a connection waits when the
thread is about to accept, and there is a message, of a connection that is still in
the array, when it is treating one. The proof has one lemma per action; those of
`treatMessage` share `DeliverType`.

The scan. `ReadyCounted` compares a count with the entries of the array behind the index, and both are
moved by accept and by freeing. `ScanInv` is inductive: neither the array nor the backlog has duplicates, no waiting
connection is in the array or in a set, the two sets are disjoint (`ArrayOK`), and `totalOfSockets` is at least the
number of armed entries that the index has still to reach (`CountOK`). When an entry is freed the
later ones move up and the index goes on, so the one that takes the freed place is passed over. That leaves fewer armed
entries to reach than the count says, which is why the invariant bounds the count from below and does not fix it.

What is sent. A message is settled when no armed entry ahead of the index could still be read into its buffer. That the
entries ahead only become fewer, and that a send and a receive of one connection exclude each other in a pass, is
`ScanInv` again.

Request ids. That an answer reaches its owner depends on everything that carries an id:
the requests in outgoing messages and on their way, the answers in inboxes and in the
receive being treated, the ids of the connections, and the flags set before.
`RequestInv` says of each of them that it agrees with the ledger, or is an answer to several requests
that were read together (`strayed`), that the counter is
the length of the ledger, and that only log-in requests are approved. `FiledKept` says that
none of this changes when the ledger grows, and `DeliverFiled` reduces a case of
`treatMessage` to what it leaves at each connection and what it gives away. It holds for
any number of connections, quotas and `StrayIds`. A stray answer still finds its reader by the reader's own id, so that
it stands under the id of one of the reader's requests; what may be wrong of it is the kind, and whether the credentials that
were approved are the reader's (`Strayed`). The answer to a garbled request that was read alone
authenticates nobody because it is a failure.

The service. `ServiceInv` is the types, `ArrayOK`, `RequestInv`, that a connection outside of the array
has nothing (`OfflineFresh`), and that a connection in a room has its user's name (`NamedOK`). With it every
step is one of `ChatService` or shows nothing: there is one lemma per abstract step, which says of the abstract state what
that step does, and one per action of the server, which says what shows of it. A text is one abstract step although it is
many calls of `sendMsg`, because they happen in one case of `treatMessage`.

What the refinement gives. The service is small enough to show what users care about: who is in a room, or about to get a
text, is connected and authenticated (`MembersOnly`); a new text comes from an authenticated connection that shares a
room with the reader, under its name (`TextsFromRoommates`); only its own departure takes a connection's authentication, and
one step takes rooms from one connection only (`OthersKept`). `ChatServiceProofs` proves this of the service, with
`TypeOK /\ MembersOnly` as the inductive invariant. `ServiceProofs` instantiates that module with the
server's state (`Proven`), shows that this instance is the one of `ChatServer` (`SameService`), and so has the
same of the server, of its connections, flags, lists of rooms and outgoing messages. A text that is already in
`m_dataBuffer` stays there when its author or its reader leaves the room: the action property says from when on a reader is
entitled to a text, and not for how long.

### The authentication server

Accounts. What a call reports depends on a row it read some statements ago, while other servers
inserted rows. `ReportsInv` says that rows stay as they are (they are only appended), that what a server has read is
some row of its e-mail, and that each report was justified by such a row when it was given.
`TablesInStep` needs an exact count: `StepInv` says that the servers between the two INSERTs are
among the rows that `user` lacks. `OneRowPerServer` is inductive in `CountInv`: the rows of an e-mail and the
servers about to insert one are at most the servers and the lookups that threw, because a server that is
about to insert has either seen no row, or thrown; a lookup after the first row finds it, as no other e-mail
folds to the same. The theorems hold for any number of servers, calls, exceptions and restarts.

The account book. `Undisturbed` says what `AccountBook` abstracts from: one server, no exceptions, no two e-mails that
differ only in case, none that changes a query, and "none" is not a password. The code does not guarantee any of these; the runs `rows` and
`refused` are about what happens otherwise. `BookInv` adds to `ReportsInv` that no two rows have the same e-mail, that a
server about to insert has seen that there is none, that one behind the first INSERT has stored its password, and that the hash
in a row is that of a password with its salt. Then the first INSERT is `Register`, the statement that ends a call is `Tell`,
and everything else, restarts included, shows nothing.

What the book gives. An account keeps its password and never goes away (`AccountsKept`); hence what was reported of a password stays true
(`ReportsHold`), and no two reports contradict each other (`ReportsAgree`): one password at most was accepted for an
e-mail, and no accepted password was ever refused. `ReadersInv` is the types with `ReportsHold`; a report that an e-mail is
unknown is true only when it is given, and is in `AccountsKept`. `OneServerTrusted` carries this to the tables, the
statements and the restarts, `LoopTrusted` to the process with its main loop. It is about what `cUserManager` returns: what `main` makes
of a result is another matter (run `refused`).

The loop over the accounts. `LoopInv` adds to `ReportsInv` that what is on the wire and being answered are requests
of `asked` in increasing order (`WireInv`), that a call is for the first message of `working`, with the fields that `Parsed` allows
(`CallInv`), and the types of the rest (`TriesInv`). `LoopStep`
shows at the same time that each step is a step of the accounts. For the approvals, `ReturnedInv` says that a log-in
whose result is not -1 has a row. The same invariants give the refinement of `AuthPeer`: the abstract wire is
what is being worked on and what is still to be received, so that `Receive` shows nothing but what the `recv` swallowed, and
`Answer` takes it off. A garbled request that is received alone can only be answered with a failure, because no row has an empty e-mail.

### Bytes and messages

cBuffer. `BufInv` adds that a buffer given at least 4 bytes keeps them and ends behind the
write position, and that the bytes of every item that was not written over stand where
they were written. It uses `GrowAssumption` (a growth makes room for an int).

The encoding. `ReadsLikeTheBits` is about single bits, and the provers know no powers of two: a bit is therefore `(b \div w) % 2`
with a weight `w` from a table. `BitsOfByte` says that two bytes with the same eight bits are the same, `OredAreFilled`
that the or of the shifted chars has in each byte the byte itself, or ones behind the first byte of 128 or more
(`Filled`), and `BytesRead16`, `BytesRead32` that these are the bytes of what the closed forms return. That `word` is always four
bytes is the inductive invariant.

SHA-256. `PadInv` says where every byte is: the first `m_tot_len` in `absorbed`, the rest at the beginning of
`m_block`; it holds for every sequence of lengths and calls. For the padding, `WholeBlocks` adds that only whole blocks
were transformed. Then `FinalBytes` says what `final` puts at each place, `StandardBytes` what the standard puts there, and
`ZerosFill` that the standard's number of zeros is the one that fills the code's block. `ShortHashes` says that the length
in bits fits an unsigned int; a password and its salt are far below that.

Sums and joins. The models add up lengths and join sequences with functions that recurse over the length. The library's
induction theorems take an operator as a parameter, which the provers cannot instantiate. `SumProofs` therefore states
induction for a *set* of natural numbers (`InductionOnSet`: the set of those for which the claim holds), from the library's
theorem that a well-founded relation has minimal elements (`WFMin`, which has no such parameter), and proves with it what
the sums and joins are, for every length.

readSocket. The invariant is four statements. `StreamOK`: the receive is the bytes of the packets, one behind the
other. `CollectedOK`: `currBuffer` is the bytes in front of `index1`, each as a signed char. `ChunksOK`: the length is that of the
first packet, since it is never read again, and a chunk begins at a multiple of one more than it. `TreatedOK`: what was treated
is framed. The heart is `PassesForMessage`: a chunk that begins inside a packet passes for a message only if it is the
false JOIN that `FalseJoin` names, whatever its bytes are. `ShortPackets` says that lengths fit two bytes: `PacketsAreShort` shows
that `sendMessage` builds no packet of more than 32 774 bytes. The theorem needs it: a packet of 65 536 bytes, if anybody sent one, would
bring a second false JOIN, two bytes before it.

getMessages. `ReceiveInv` says that every packet the loop is in step with was taken as it is, or the loop is on
track to it: at the beginning of a packet, having counted the bytes of those before it and one more for each (`OnTrack`). For `NoFalseText` another one follows the loop when it is out of step:
`m_readIndex` then stands in the characters of a packet, and four of them read as a length lead far
beyond the buffer, unless they reach into the next length. This needs `ShortMessages`: packets below 1024 bytes in a buffer below
1279 of which at least two bytes came (the code's buffer has 512).

Fields. `FieldInv` describes what has been built and read after each field, by cases over the message and the
stage; narrowed lengths are kept apart from real ones. Console. `ConsoleInv` says that `std::cin` holds the last of the lines typed, only the first of them possibly begun,
weighs the Enters it still holds, two for each receive that is unread, and says which lines what was lost and sent came
from. Both hold for all sizes and for any lines.

All parts together. `MCMessages` lets one of the four parts run while the others rest. `PartsInv` is the invariant of the
one that runs and the resting states of the others; it gives the types of all of them (`PartsTypeCorrect`). `RestIsSent` says that
the packet that rests in `readSocket` is one of those that are sent.

### Assumptions

The assumptions on constants that the theorems use, all of which TLC evaluates on the runs' instances:
`ConnAssumption`, `ServerAssumption` (finitely many connections, servers), `TableAssumption` (no more connections than
entries), `SizeAssumption` (packets of `ChatServer` below 384 bytes), `RequestAssumption` (request ids are one byte, and stray ids are no less than 1),
`BoundAssumption`, `LoopAssumption`, `UpdateAssumption` (natural numbers, and that the fields a message does
not have are empty), `FoldedAssumption` (the collation is a function), `GrowAssumption`, `InputAssumption`,
`CheckAssumption` (values are ints), `FramingAssumption`, `PacketAssumption` (a packet has at least a length and an id, a
buffer at least a length), `FieldAssumption` (sizes are natural numbers), `LineAssumption` (lines are sequences of words),
`UnreadAssumption` (`MaxUnread` is a natural number), `QuotedAssumption` (the quoted e-mails are e-mails, and not empty).
Hypotheses of single theorems are `Undisturbed`, `ShortHashes`, `ShortPackets`, `ShortMessages` and `RestIsSent`, explained above; each is
true of the instance of the run that checks the property.

### Only model-checked

* The liveness properties (`PendingIsSent`, `InputIsRead`, `AllFramedTreated`, `FirstIsAnswered`) and everything about
  `ENABLED`: out of the prover's reach.

## What the specifications show about the code

Properties that hold are stated so that they are true of the code; some of them
describe behaviour that may surprise.

* Texts of 121 to 248 characters are never treated (their packet's length turns negative), those
  of 249 to 255 arrive empty.
* Of packets that arrive together the later ones are usually lost; a packet that arrives in
  pieces is always lost.
* A connection that is given a message while its own input is waiting in the same pass
  is sent 512 bytes of its receive buffer instead. `SettledKept` is therefore stated from the
  moment on when no receive of this pass is left.
* A message given to a connection before its last one was sent replaces it: texts, answers and
  requests to an authentication server are lost in bursts.
* The answer to a request that was garbled carries the id 0 and reaches every connection that
  never asked for anything. It is a failure when the request was received alone.
* Requests that an authentication server receives together are one message to the parser. Bytes of a later one may replace
  the request id, the e-mail or the password of the first: an answer may go out under an id that another connection holds, and then tell or
  authenticate that one; an account may be created with an e-mail or a password that nobody asked for. `AnswerToOwner`,
  `AuthenticatedByAnswer`, `RowsAsAsked` and `ApprovedHasAccount` say what is left of the obvious statements: all of it for a request
  that is received alone, and for others the reader's own id, the kind of the first request, and an account that is there.
* Two authentication servers that are given the same request may both create the account; a log-in then sees
  the row with the higher id, and the password of the other row is refused.
* An exception while an e-mail is looked up counts as "not found": a second row is inserted. An exception at an INSERT
  is reported as an account that was created.
* E-mails that differ in case share the query but not the comparison: the one registered first can be locked out.
* An e-mail with an apostrophe or a backslash changes the text of the queries: the bound on the rows of an e-mail and the
  account book do not hold for it.
* The client reads two lines per turn and loses the first, unless it is the rest of a line that a command has left.
  It receives at most 512 bytes per turn, so that a burst of messages is shown piece by piece, two Enters for each.
* A password of 255 characters is sent as an empty one, and other long ones are cut.
* A message sent in part swallows the beginning of the next one, whose rest is skipped.

## Not modelled, and what is left

Left for later: that the two sides of `AuthPeer` fit, as a theorem (that every step it allows is one of
`ChatServer`'s peers), which needs a specification that holds both programs.

Left out for good:

* The start-up of sockets and the resolving of addresses: calls to the system, in a fixed order, with nothing that
  interleaves. Wordings, colours and pauses of the consoles. The byte counters of the connections, which are
  only written.
* What happens beyond the end of `g_socketArray`: undefined, and `createSocketInformation` does not look. The model
  assumes that there are not more connections than entries (`TableAssumption`).
* `transform`, the compression function of SHA-256: arithmetic on 32-bit words without states of its own, which test vectors
  check better. A salt of `CryptGenRandom` is some value.
* The generated protobuf code, except for what the two servers notice of it (lengths, and what several messages in one
  string parse as), and the third-party libraries in `include`, `Auth_Server/include` and `lib`. These are more than
  99.9 % of the lines in `src/`; the specifications are about the program's own files, and of those they cover
  everything but start-up and output.
