----------------------------- MODULE UserAccounts -----------------------------
(***************************************************************************)
(* The accounts of the chat: cUserManager and cDataBase (src/Auth_Server)  *)
(* in each authentication server, over the one MySQL database they share,  *)
(* whose two tables are created by src/DB.sql.                             *)
(*                                                                         *)
(* Every statement is a transaction of its own, so one action stands for   *)
(* one statement, and the statements of several servers interleave.  Each  *)
(* of them may throw a SQLException: the connection could not be made, the *)
(* statement did not arrive, or its outcome was lost after it took effect. *)
(* A server may be stopped and started again at any point; its counter     *)
(* starts over, the tables stay.                                           *)
(*                                                                         *)
(* The two queries of web_auth have the e-mail in their text, between      *)
(* apostrophes, so that one with an apostrophe or a backslash in it        *)
(* (Quoted) makes another query of it, or none: what it finds is left      *)
(* open, but for rows that are not in the table.  Other than that an       *)
(* e-mail or a password is compared and stored; a salt is a random value,  *)
(* and the hash of a password with a salt is a pair of the two (no         *)
(* collisions).  Of gAuthId and of the vector `user` of cDataBase nothing  *)
(* is ever read.                                                           *)
(***************************************************************************)
EXTENDS Integers, Sequences, FiniteSetsExt

CONSTANTS
  Servers,      \* The authentication servers.
  Emails,       \* The e-mails that occur in requests, and
  Folded,       \* what the collation of the table makes of each: its case is lost.
  Quoted,       \* The e-mails that change the text of a query.
  Passwords,
  Salts,
  FirstId,      \* AUTO_INCREMENT of the table `user` (5).
  Calls,        \* Bound of the model: calls a server gets,
  MaxFailures,  \* SQLExceptions,
  MaxRestarts   \* and restarts.

NoEmail == ""       \* std::string()
NoDate == 0         \* The empty creationDate
Nobody == "nobody"  \* No login since the account was created

ASSUME ServerAssumption == IsFiniteSet(Servers) /\ Servers # {}
ASSUME FoldedAssumption == DOMAIN Folded = Emails \union {NoEmail}
ASSUME QuotedAssumption == Quoted \subseteq Emails \ {NoEmail}
ASSUME BoundAssumption ==
  FirstId \in Nat /\ Calls \in Nat /\ MaxFailures \in Nat /\ MaxRestarts \in Nat

Hash(password, salt) == <<password, salt>>

Operations == {"create", "authenticate"}

VARIABLES
  web_auth,  \* The table `web_auth`, in the order of its ids.
  user,      \* The table `user`; the i-th row has the id FirstId + i - 1.
  gUserId,   \* The counter of each server.
  pc,        \* Which statement a server has to execute next.
  call,      \* The call it executes it for.
  thisUser,  \* The row of web_auth that selectUser has read,
  creation,  \* the creation date it has read: the id of the row of `user`,
  result     \* and what the call returned.

tables == <<web_auth, user>>
locals == <<gUserId, pc, call, thisUser, creation, result>>

VARIABLES
  calls,     \* Calls each server may still get,
  failures,  \* exceptions
  restarts,  \* and restarts that may still happen.
  run,       \* History: how often each server was started,
  results,   \* History: the calls that returned, and what.
  unanswered \* History: lookups of an e-mail that ended with an exception.

bounds == <<calls, failures, restarts>>
histories == <<run, results, unanswered>>

accountVars == <<tables, locals, bounds, histories>>

\* An account, by what made its row of web_auth.
Account(by, userId) == [by |-> by, userId |-> userId]

-----------------------------------------------------------------------------
\* The queries.

\* The rows a SELECT finds for an e-mail.
Matching(email) == {i \in DOMAIN web_auth : Folded[web_auth[i].email] = Folded[email]}

\* A UserInfo that no row was read into.
NoUser == [email |-> NoEmail, salt |-> "", hashedPassword |-> <<>>, userId |-> -1]

\* Of the rows of a result set the last one stays in the variables; the index
\* (email, id) delivers the rows of one e-mail by id.
Found(email) ==
  IF Matching(email) = {} THEN NoUser ELSE web_auth[Max(Matching(email))]

\* What a query for an e-mail leaves in the variables.
Finds(email) ==
  IF email \in Quoted
  THEN {NoUser} \union {web_auth[i] : i \in DOMAIN web_auth}
  ELSE {Found(email)}

\* The row of `user` with an id, if there is one.
HasRow(id) == id \in FirstId .. FirstId + Len(user) - 1

RowOf(id) == id - FirstId + 1

-----------------------------------------------------------------------------
NoCall == [op |-> "none", email |-> NoEmail, password |-> ""]

AccountInit ==
  /\ web_auth = <<>> /\ user = <<>>
  /\ gUserId = [s \in Servers |-> 0]
  /\ pc = [s \in Servers |-> "idle"]
  /\ call = [s \in Servers |-> NoCall]
  /\ thisUser = [s \in Servers |-> NoUser]
  /\ creation = [s \in Servers |-> NoDate]
  /\ result = [s \in Servers |-> 0]
  /\ calls = [s \in Servers |-> Calls]
  /\ failures = MaxFailures /\ restarts = MaxRestarts
  /\ run = [s \in Servers |-> 1]
  /\ results = {}
  /\ unanswered = [email \in DOMAIN Folded |-> 0]

\* createUserAccount and authenticateAccount are called.
Call(s, op, email, password) ==
  /\ pc[s] = "idle" /\ calls[s] > 0
  /\ calls' = [calls EXCEPT ![s] = @ - 1]
  /\ call' = [call EXCEPT ![s] = [op |-> op, email |-> email, password |-> password]]
  /\ pc' = [pc EXCEPT ![s] = IF op = "create" THEN "findEmail" ELSE "selectAuth"]
  /\ UNCHANGED <<tables, gUserId, thisUser, creation, result, failures, restarts, histories>>

\* A call returns a value and, in its out-parameter, a creation date.
Return(s, value, date) ==
  /\ pc' = [pc EXCEPT ![s] = "returned"]
  /\ result' = [result EXCEPT ![s] = value]
  /\ creation' = [creation EXCEPT ![s] = date]
  /\ results' = results \union
       {[op |-> call[s].op, email |-> call[s].email, password |-> call[s].password,
         value |-> value, date |-> date]}

\* What belonged to a call is gone.
Forget(s) ==
  /\ pc' = [pc EXCEPT ![s] = "idle"]
  /\ call' = [call EXCEPT ![s] = NoCall]
  /\ thisUser' = [thisUser EXCEPT ![s] = NoUser]
  /\ creation' = [creation EXCEPT ![s] = NoDate]
  /\ result' = [result EXCEPT ![s] = 0]

\* The caller goes on.
Resume(s) ==
  /\ pc[s] = "returned"
  /\ Forget(s)
  /\ UNCHANGED <<tables, gUserId, bounds, histories>>

Throws == failures > 0 /\ failures' = failures - 1

\* A query with an e-mail in its text may also throw for what it says.
QueryThrows(s) == Throws \/ (call[s].email \in Quoted /\ UNCHANGED failures)

-----------------------------------------------------------------------------
\* createUserAccount: insertUser.

\* Fault: the e-mail is not looked up.
FindNoEmail(s) ==
  /\ pc[s] = "findEmail"
  /\ pc' = [pc EXCEPT ![s] = "insertAuth"]
  /\ UNCHANGED <<tables, gUserId, call, thisUser, creation, result, bounds, histories>>

\* findEmail.
FindEmail(s) ==
  /\ pc[s] = "findEmail"
  /\ \E row \in Finds(call[s].email) :
       IF row.email = call[s].email
       THEN Return(s, -1, NoDate)
       ELSE /\ pc' = [pc EXCEPT ![s] = "insertAuth"]
            /\ UNCHANGED <<creation, result, results>>
  /\ UNCHANGED <<tables, gUserId, call, thisUser, bounds, run, unanswered>>

\* An exception is caught, and the e-mail counts as not found.
FindEmailThrows(s) ==
  /\ pc[s] = "findEmail" /\ QueryThrows(s)
  /\ pc' = [pc EXCEPT ![s] = "insertAuth"]
  /\ unanswered' = [unanswered EXCEPT ![call[s].email] = @ + 1]
  /\ UNCHANGED <<tables, gUserId, call, thisUser, creation, result, calls, restarts,
                 run, results>>

\* The row that the first INSERT stores; "by" is history.
NewAuth(s, salt) ==
  [email |-> call[s].email, salt |-> salt,
   hashedPassword |-> Hash(call[s].password, salt),
   userId |-> gUserId[s] + 1, by |-> <<s, run[s]>>]

InsertAuth(s) ==
  /\ pc[s] = "insertAuth"
  /\ \E salt \in Salts : web_auth' = Append(web_auth, NewAuth(s, salt))
  /\ gUserId' = [gUserId EXCEPT ![s] = @ + 1]
  /\ pc' = [pc EXCEPT ![s] = "insertUser"]
  /\ UNCHANGED <<user, call, thisUser, creation, result, bounds, histories>>

\* What follows the two INSERTs, whether or not they were executed: the
\* counter is incremented again and its value returned.
ReportUser(s, counter) ==
  /\ gUserId' = [gUserId EXCEPT ![s] = counter + 1]
  /\ Return(s, counter + 1, NoDate)

\* The connection cannot be made: the counter was not incremented for the row.
InsertAuthUnconnected(s) ==
  /\ pc[s] = "insertAuth" /\ Throws
  /\ ReportUser(s, gUserId[s])
  /\ UNCHANGED <<tables, call, thisUser, calls, restarts, run, unanswered>>

InsertAuthThrows(s) ==
  /\ pc[s] = "insertAuth" /\ Throws
  /\ \/ UNCHANGED web_auth
     \/ \E salt \in Salts : web_auth' = Append(web_auth, NewAuth(s, salt))
  /\ ReportUser(s, gUserId[s] + 1)
  /\ UNCHANGED <<user, call, thisUser, calls, restarts, run, unanswered>>

\* The row that the second INSERT stores.  Which account it belongs to and
\* who logged in with it last is history: the table has only times.
NewUser(s) == [of |-> Account(<<s, run[s]>>, gUserId[s]), lastLogin |-> Nobody]

\* Fault: the second statement is prepared, but not executed.
InsertNoUser(s) ==
  /\ pc[s] = "insertUser"
  /\ ReportUser(s, gUserId[s])
  /\ UNCHANGED <<tables, call, thisUser, bounds, run, unanswered>>

InsertUser(s) ==
  /\ pc[s] = "insertUser"
  /\ user' = Append(user, NewUser(s))
  /\ ReportUser(s, gUserId[s])
  /\ UNCHANGED <<web_auth, call, thisUser, bounds, run, unanswered>>

InsertUserThrows(s) ==
  /\ pc[s] = "insertUser" /\ Throws
  /\ \/ UNCHANGED user
     \/ user' = Append(user, NewUser(s))
  /\ ReportUser(s, gUserId[s])
  /\ UNCHANGED <<web_auth, call, thisUser, calls, restarts, run, unanswered>>

-----------------------------------------------------------------------------
\* authenticateAccount: selectUser, and the comparison of the hashes.

SelectAuth(s) ==
  /\ pc[s] = "selectAuth"
  /\ \E row \in Finds(call[s].email) :
       IF row.email = call[s].email
       THEN /\ pc' = [pc EXCEPT ![s] = "selectUser"]
            /\ thisUser' = [thisUser EXCEPT ![s] =
                 [email |-> row.email, salt |-> row.salt,
                  hashedPassword |-> row.hashedPassword, userId |-> row.userId]]
            /\ UNCHANGED <<creation, result, results>>
       ELSE Return(s, -1, NoDate) /\ UNCHANGED thisUser
  /\ UNCHANGED <<tables, gUserId, call, bounds, run, unanswered>>

\* The row of `user` is looked up by the userId of web_auth.
SelectUser(s) ==
  /\ pc[s] = "selectUser"
  /\ creation' = [creation EXCEPT ![s] =
       IF HasRow(thisUser[s].userId) THEN thisUser[s].userId ELSE NoDate]
  /\ pc' = [pc EXCEPT ![s] = "updateUser"]
  /\ UNCHANGED <<tables, gUserId, call, thisUser, result, bounds, histories>>

\* The UPDATE of last_login, by the same id.
LoggedIn(s) ==
  LET id == thisUser[s].userId
  IN  IF HasRow(id)
      THEN [user EXCEPT ![RowOf(id)].lastLogin = call[s].email]
      ELSE user

CheckedByEmail(s) == thisUser[s].userId  \* Fault: the hashes are not compared.

\* Fault: the password is hashed without the salt.
CheckedUnsalted(s) ==
  LET id == thisUser[s].userId
  IN  IF id > 0 /\ Hash(call[s].password, "") # thisUser[s].hashedPassword THEN -4 ELSE id

\* What authenticateAccount makes of what selectUser returns.
Checked(s) ==
  LET id == thisUser[s].userId
  IN  IF id > 0 /\ Hash(call[s].password, thisUser[s].salt) # thisUser[s].hashedPassword
      THEN -4 ELSE id

UpdateUser(s) ==
  /\ pc[s] = "updateUser"
  /\ user' = LoggedIn(s)
  /\ Return(s, Checked(s), creation[s])
  /\ UNCHANGED <<web_auth, gUserId, call, thisUser, bounds, run, unanswered>>

\* selectUser catches the exceptions of all of its statements.
SelectThrows(s) ==
  /\ pc[s] \in {"selectAuth", "selectUser", "updateUser"}
  /\ IF pc[s] = "selectAuth" THEN QueryThrows(s) ELSE Throws
  /\ \/ UNCHANGED user
     \/ pc[s] = "updateUser" /\ user' = LoggedIn(s)
  /\ Return(s, -1, NoDate)
  /\ UNCHANGED <<web_auth, gUserId, call, thisUser, calls, restarts, run, unanswered>>

-----------------------------------------------------------------------------
\* The process ends, wherever it is, and is started again.
Restart(s) ==
  /\ restarts > 0 /\ restarts' = restarts - 1
  /\ Forget(s)
  /\ gUserId' = [gUserId EXCEPT ![s] = 0]
  /\ run' = [run EXCEPT ![s] = @ + 1]
  /\ UNCHANGED <<tables, calls, failures, results, unanswered>>

\* The steps of a call.
Step(s) ==
  \/ FindEmail(s) \/ FindEmailThrows(s)
  \/ InsertAuth(s) \/ InsertAuthUnconnected(s) \/ InsertAuthThrows(s)
  \/ InsertUser(s) \/ InsertUserThrows(s)
  \/ SelectAuth(s) \/ SelectUser(s) \/ UpdateUser(s) \/ SelectThrows(s)

Next ==
  \E s \in Servers :
    \/ \E op \in Operations, email \in Emails, password \in Passwords :
         Call(s, op, email, password)
    \/ Step(s) \/ Resume(s) \/ Restart(s)

Spec == AccountInit /\ [][Next]_accountVars

-----------------------------------------------------------------------------
AuthRows ==
  [email : Emails, salt : Salts, hashedPassword : Passwords \X Salts,
   userId : Nat, by : Servers \X Nat]

UserRows == [of : [by : Servers \X Nat, userId : Nat], lastLogin : Emails \union {Nobody}]

UserInfos ==
  [email : Emails \union {NoEmail}, salt : Salts \union {""},
   hashedPassword : (Passwords \X Salts) \union {<<>>}, userId : Int]

Requests == [op : Operations, email : Emails, password : Passwords]

Places == {"idle", "findEmail", "insertAuth", "insertUser", "selectAuth",
           "selectUser", "updateUser", "returned"}

\* Type invariant of the tables and of the servers that use them: a call has an
\* operation for as long as it runs, and a date that was read is the date of a
\* row that is there.
TypeOK ==
  /\ web_auth \in Seq(AuthRows) /\ user \in Seq(UserRows)
  /\ gUserId \in [Servers -> Nat] /\ pc \in [Servers -> Places]
  /\ call \in [Servers -> {NoCall} \union Requests]
  /\ \A s \in Servers : pc[s] # "idle" => call[s] # NoCall
  /\ thisUser \in [Servers -> UserInfos]
  /\ creation \in [Servers -> Nat]
  /\ \A s \in Servers :
       creation[s] \in {NoDate} \union (FirstId .. FirstId + Len(user) - 1)
  /\ result \in [Servers -> Int]
  /\ calls \in [Servers -> Nat] /\ failures \in Nat /\ restarts \in Nat
  /\ run \in [Servers -> Nat]
  /\ unanswered \in [Emails \union {NoEmail} -> Nat]

RowsOf(email) == {i \in DOMAIN web_auth : web_auth[i].email = email}

\* No other e-mail differs from this one only in case.
Alone(email) ==
  \A other \in Emails \union {NoEmail} : Folded[other] = Folded[email] => other = email

\* findEmail and the INSERT are two statements and e-mail is not a unique key
\* (cDataBase.cpp:69, DB.sql:48), so servers that look at the same time each insert
\* a row, and so does a call whose lookup ended with an exception
\* (cDataBase.cpp:55).  There are never more rows than that, however calls,
\* exceptions and restarts interleave, and whatever the queries for other e-mails
\* find.
OneRowPerServer ==
  \A email \in Emails \ Quoted :
    Alone(email) => Cardinality(RowsOf(email)) <= Cardinality(Servers) + unanswered[email]

At(place) == {s \in Servers : pc[s] = place}

\* The two INSERTs are not one transaction: a row of web_auth is without its row
\* of `user` while a server is between them, and for good after an exception or a
\* restart there.  Only then: an exception at the first may leave either row
\* out, but `user` is never ahead.
TablesInStep ==
  /\ Len(user) <= Len(web_auth)
  /\ Len(web_auth) <= Len(user) + Cardinality(At("insertUser"))
                      + (MaxFailures - failures) + (MaxRestarts - restarts)

\* A creation is only refused for an e-mail that has a row (or is empty), even
\* if the row is another server's or was inserted while the call was under way.
RefusalHasAccount ==
  \A r \in results :
    r.op = "create" /\ r.value = -1 => r.email = NoEmail \/ RowsOf(r.email) # {}

\* A positive userId is only reported to an authentication for an e-mail
\* and a password that one and the same row was made for, whatever other servers
\* did between the SELECT and the comparison.
LoginHasAccount ==
  \A r \in results :
    r.op = "authenticate" /\ r.value > 0 =>
      \E i \in RowsOf(r.email) :
        /\ web_auth[i].userId = r.value
        /\ web_auth[i].hashedPassword = Hash(r.password, web_auth[i].salt)

Refused(s) ==
  /\ pc[s] \in {"selectAuth", "updateUser"} /\ pc'[s] = "returned"
  /\ call[s].email \notin Quoted
  /\ result'[s] < 0 /\ failures' = failures

\* Nobody is locked out by anything but another row: when the database answers
\* and the e-mail and the password of a row are refused, there is a second row
\* for the same e-mail, or one for an e-mail that differs in case.  (An empty
\* e-mail is found without a row, and a quoted one changes the query.)
LockedOutByAnother ==
  [][\A s \in Servers :
       Refused(s) /\ call[s].email # NoEmail =>
         \A i \in RowsOf(call[s].email) :
           web_auth[i].hashedPassword = Hash(call[s].password, web_auth[i].salt) =>
             Matching(call[s].email) # {i}]_accountVars

-----------------------------------------------------------------------------
\* What the program says of its accounts.

\* "Authentication successful, account created on ..." (Server/theMain.cpp:794): the
\* date shown, if there is one, is that of the account.
DateOfAccount ==
  \A r \in results :
    r.op = "authenticate" /\ r.value > 0 /\ r.date # NoDate =>
      \E i \in RowsOf(r.email) :
        user[RowOf(r.date)].of = Account(web_auth[i].by, web_auth[i].userId)

-----------------------------------------------------------------------------
\* One server on a database that works, for e-mails that do not change a query,
\* implements the abstract account book.

Book ==
  [email \in Emails |->
     IF RowsOf(email) = {} THEN "none" ELSE Found(email).hashedPassword[1]]

VerdictOf(r) ==
  IF r.value > 0 THEN "ok"
  ELSE IF r.op = "create" THEN "exists"
  ELSE IF r.value = -4 THEN "wrong" ELSE "unknown"

Accounts ==
  INSTANCE AccountBook WITH
    NoPassword <- "none", book <- Book,
    reported <- {[op |-> r.op, email |-> r.email, password |-> r.password,
                  verdict |-> VerdictOf(r)] : r \in results}

\* With one server, no exceptions and no e-mails that differ in case or change a
\* query, the statements, the counters and the restarts between them cannot be told
\* from an account book: one password per e-mail that never changes, and reports
\* that are true when they are given.
ImplementsBook == Accounts!Spec
=============================================================================
